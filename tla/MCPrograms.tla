----------------------------- MODULE MCPrograms -----------------------------
(***************************************************************************)
(* Programs beside Tiny_OS for TLC: a behaviour uses two STL lists over    *)
(* four nodes, a vector, the debugger or the scanner; the variables of the *)
(* others keep a first value.                                              *)
(***************************************************************************)
EXTENDS StlList, Vector, MCDebugger, Scanner

VARIABLE program

MCInit ==
    /\ ListInit /\ VectorInit /\ DbgInit /\ ScanInit
    /\ program \in {"list", "vector", "debugger", "scanner"}
    /\ program # "debugger" =>
          test = {"hw"} /\ alive = {main} /\ pending[main] = "breakpoint"
    /\ program # "scanner" => text = << >>

MCNext ==
    /\ UNCHANGED program
    /\ \/ program = "list" /\ ListNext /\ UNCHANGED << vectorvars, dbgvars, scanvars >>
       \/ program = "vector" /\ VectorNext /\ UNCHANGED << listvars, dbgvars, scanvars >>
       \/ program = "debugger" /\ DbgNext /\ UNCHANGED << listvars, vectorvars, scanvars >>
       \/ program = "scanner" /\ ScanNext /\ UNCHANGED << listvars, vectorvars, dbgvars >>

Passes ==
    program = "list" /\ pass /\ UNCHANGED << program, vectorvars, dbgvars, scanvars >>

MCSpec ==
    /\ MCInit
    /\ [][MCNext]_<< program, listvars, vectorvars, dbgvars, scanvars >>
    /\ WF_listvars(Passes)

=============================================================================
