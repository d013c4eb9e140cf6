------------------------------ MODULE MCMemory ------------------------------
(***************************************************************************)
(* Memory for TLC: three threads of all kinds that mask interrupts, or two *)
(* kernel threads or two processes of which none does or one.  The pools   *)
(* have three and two frames, and an address space has pages in two page   *)
(* tables, so that every pool, map and lock comes to its limit.            *)
(***************************************************************************)
EXTENDS Memory

CONSTANTS k, q1, q2, p1, p2

MCSetting ==
    {<< {k, q1, p1}, {k, q1, p1} >>,
     << {q1, q2}, {} >>, << {q1, q2}, {q1} >>,
     << {p1, p2}, {} >>, << {p1, p2}, {p1} >>}

MCMemInit == MemInit /\ << active, masked >> \in MCSetting

MCMemSpec == MCMemInit /\ [][MemNext]_memvars

=============================================================================
