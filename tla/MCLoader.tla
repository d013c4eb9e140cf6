------------------------------ MODULE MCLoader -------------------------------
(***************************************************************************)
(* Loader for TLC: low memory, 31M above it, the BIOS below 4G, and 3071M  *)
(* that end behind 2G; what E801 answers for 16M and for 48M; one segment  *)
(* that is used, one that is not, and one that covers a part of the first. *)
(***************************************************************************)
EXTENDS Loader

MCArea == {[base |-> 0, length |-> 640], [base |-> 1024, length |-> 31744],
           [base |-> 4194048, length |-> 256], [base |-> 1024, length |-> 3144704]}

MCExtended == {<< 15360, 0 >>, << 15360, 512 >>}

MCHeader == {[used |-> FALSE, offset |-> 0, size |-> 2, address |-> 0],
             [used |-> TRUE, offset |-> 1, size |-> 2, address |-> 1],
             [used |-> TRUE, offset |-> 0, size |-> 1, address |-> 2]}

=============================================================================
