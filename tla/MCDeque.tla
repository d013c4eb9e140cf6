------------------------------ MODULE MCDeque -------------------------------
(***************************************************************************)
(* Deque for TLC with every call of insert() at an end: two elements to a  *)
(* buffer and a map of six to start with.                                  *)
(***************************************************************************)
EXTENDS Deque

=============================================================================
