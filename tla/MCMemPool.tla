----------------------------- MODULE MCMemPool ------------------------------
(***************************************************************************)
(* MemPool for TLC: every size up to 512M in steps of 1M, and the sizes    *)
(* one page to either side of 258M, where the free pages stop fitting      *)
(* into 16 bits, and around 3M, where the bitmaps are a few bytes long.    *)
(***************************************************************************)
EXTENDS MemPool

M == 1048576

MCMemSize ==
    {n * M : n \in 3..512}
        \cup {3 * M + n * PG_SIZE : n \in -250..250}
        \cup {258 * M + n * (PG_SIZE \div 2) : n \in -40..40}

=============================================================================
