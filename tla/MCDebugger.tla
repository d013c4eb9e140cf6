----------------------------- MODULE MCDebugger ------------------------------
(***************************************************************************)
(* Debugger for TLC: a debuggee of one or two threads, two of the four     *)
(* debug registers, two addresses on two pages.  Like the three tests of   *)
(* debugger_test.py, a script sets hardware breakpoints or others.         *)
(***************************************************************************)
EXTENDS Debugger

MCHardware == {<< 1, HW_ACCESS >>, << 2, HW_EXECUTE >>}

MCTest == {{"hw"}, {"soft", "mem"}}

=============================================================================
