------------------------------ MODULE MCThread ------------------------------
(***************************************************************************)
(* Thread for TLC: main and up to two more threads, with slices of one     *)
(* tick.  MCIoQueue checks what the scheduler promises.                    *)
(***************************************************************************)
EXTENDS Thread

CONSTANTS main, a, b

MCTask == {main, a, b}

MCResident == {main}

MCpriority == [t \in MCTask |-> 1]

=============================================================================
