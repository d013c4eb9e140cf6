------------------------------- MODULE MCSync -------------------------------
(***************************************************************************)
(* Sync for TLC: main spins as in kernel/main.c, a is masked like          *)
(* k_thread_a, c and d are not, like k_thread_c and k_thread_d.            *)
(***************************************************************************)
EXTENDS Sync

CONSTANTS main, a, c, d

MCTask == {main, a, c, d}

MCResident == {main}

MCLockers == {a, c, d}

MCMasked == {a}

\* thread_start(..., 31, ...), thread_start(..., 8, ...): short and shorter slices
MCpriority == [t \in MCTask |-> IF t = c THEN 1 ELSE 0]

=============================================================================
