---------------------------- MODULE AbstractLock ----------------------------
(***************************************************************************)
(* What a lock of thread/sync.c promises its callers, with no semaphore,   *)
(* queue, scheduler or interrupt in sight: one owner at a time, which may  *)
(* acquire the lock again and must release it as often.                    *)
(***************************************************************************)
EXTENDS Naturals

CONSTANTS Thread, NULL

VARIABLES
    owner,      \* the thread between its acquire and its last release
    depth,      \* how many releases the owner still owes
    wanting     \* the threads inside lock_acquire

vars == << owner, depth, wanting >>

Init == owner = NULL /\ depth = 0 /\ wanting = {}

request(t) ==
    /\ t \notin wanting \cup {owner}
    /\ wanting' = wanting \cup {t}
    /\ UNCHANGED << owner, depth >>

acquire(t) ==
    /\ owner = NULL
    /\ t \in wanting
    /\ owner' = t
    /\ depth' = 1
    /\ wanting' = wanting \ {t}

reacquire(t) ==
    /\ owner = t
    /\ depth' = depth + 1
    /\ UNCHANGED << owner, wanting >>

release(t) ==
    /\ owner = t
    /\ depth' = depth - 1
    /\ owner' = IF depth = 1 THEN NULL ELSE t
    /\ UNCHANGED wanting

Next == \E t \in Thread : request(t) \/ acquire(t) \/ reacquire(t) \/ release(t)

Spec == Init /\ [][Next]_vars

=============================================================================
