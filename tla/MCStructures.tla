---------------------------- MODULE MCStructures ----------------------------
(***************************************************************************)
(* Data structures for TLC, those of the kernel and the deque of the STL:  *)
(* a behaviour is one of two linked lists (three elements that move        *)
(* between them), of a bitmap, of mem_pool_init, of the threads that       *)
(* allocate pages, or of a deque of two elements to a buffer; the          *)
(* variables of the others keep a first value.                             *)
(***************************************************************************)
EXTENDS MCBitmap, MCMemPool, LinkedList, MCMemory, Deque

VARIABLE structure

MCInit ==
    /\ Init /\ PoolsInit /\ list_init /\ DequeInit
    /\ structure \in {"list", "bitmap", "pools", "pages", "deque"}
    /\ structure # "bitmap" => bits = {}
    /\ structure # "pools" => all_mem = max_mem
    /\ IF structure = "pages" THEN MCMemInit
       ELSE MemInit /\ active = {} /\ ~ndebug /\ pte[low_frame] = pte[loader_table(0)]

kernelvars == << pointers, vars, poolvars, memvars >>

MCNext ==
    /\ UNCHANGED structure
    /\ \/ structure = "list" /\ ListsNext /\ UNCHANGED << vars, poolvars, memvars, dequevars >>
       \/ structure = "bitmap" /\ Next /\ UNCHANGED << pointers, poolvars, memvars, dequevars >>
       \/ structure = "pools" /\ PoolsNext /\ UNCHANGED << pointers, vars, memvars, dequevars >>
       \/ structure = "pages" /\ MemNext /\ UNCHANGED << pointers, vars, poolvars, dequevars >>
       \/ structure = "deque" /\ DequeNext /\ UNCHANGED kernelvars

Scans ==
    /\ structure = "bitmap" /\ Scan
    /\ UNCHANGED << structure, pointers, poolvars, memvars, dequevars >>

MCSpec ==
    /\ MCInit
    /\ [][MCNext]_<< structure, kernelvars, dequevars >>
    /\ WF_vars(Scans)

=============================================================================
