-------------------------------- MODULE Sync --------------------------------
(***************************************************************************)
(* The semaphore and the lock of thread/sync.c, used by threads under the  *)
(* scheduler of module Thread, one action for each stretch of code an      *)
(* interrupt cannot split.                                                 *)
(*                                                                         *)
(* The threads call the lock in the two ways kernel/main.c and             *)
(* device/console.c do: with interrupts enabled (k_thread_c, k_thread_d    *)
(* through console_put_str) or with interrupts disabled around the whole   *)
(* call (Masked: k_thread_a, k_thread_b).                                  *)
(***************************************************************************)
EXTENDS Thread

CONSTANTS
    Lockers,    \* the threads that use the lock
    Masked,     \* those of them that call it with interrupts disabled
    MaxNest,    \* bound: how often the holder acquires the lock it holds
    NULL

SyncAssumption ==
    /\ Lockers \subseteq Task
    /\ Lockers \cap Resident = {}
    /\ Masked \subseteq Lockers \ {main_thread}
    /\ MaxNest \in Nat \ {0}
    /\ NULL \notin Task

ASSUME SyncAssumption

VARIABLES
    pc,                 \* where a thread is in its own code
    outer_status,       \* old_status of k_thread_a and k_thread_b
    old_status,         \* old_status of sema_down
    holder,
    holder_repeat_nr,
    value,              \* sema.value
    waiters             \* sema.waiters

lockvars == << holder, holder_repeat_nr, value, waiters >>

localvars == << pc, outer_status, old_status >>

syncvars == << vars, lockvars, localvars >>

Location == {"boot", "spin", "outside", "masked", "down", "loop", "own", "count",
             "cs", "unown", "uncount", "up"}

\* lock_init
SyncInit ==
    /\ Init
    /\ pc = [t \in Task |-> IF t = main_thread THEN "boot"
                            ELSE IF t \in Lockers THEN "outside" ELSE "spin"]
    /\ outer_status = [t \in Task |-> "INTR_ON"]
    /\ old_status = [t \in Task |-> "INTR_ON"]
    /\ holder = NULL
    /\ holder_repeat_nr = 0
    /\ value = 1
    /\ waiters = << >>

-----------------------------------------------------------------------------
at(t, location) == ~panicked /\ running = t /\ pc[t] = location

goto(t, location) == pc' = [pc EXCEPT ![t] = location]

panic == panic_spin /\ UNCHANGED << lockvars, localvars >>

\* main(): thread_start for every thread, intr_enable, then while(1)
main_starts(t) ==
    /\ at(main_thread, "boot")
    /\ thread_start(t)
    /\ UNCHANGED << lockvars, localvars >>

main_enables ==
    /\ at(main_thread, "boot")
    /\ thread_all_list = Task
    /\ intr_enable
    /\ goto(main_thread, IF main_thread \in Lockers THEN "outside" ELSE "spin")
    /\ UNCHANGED << lockvars, outer_status, old_status >>

\* k_thread_a: old_status = intr_disable(), then any number of calls that take
\* the lock (none when the key queue is empty) ...
loop_masks(t) ==
    /\ at(t, "outside")
    /\ t \in Masked
    /\ set_intr("INTR_OFF")
    /\ outer_status' = [outer_status EXCEPT ![t] = intr]
    /\ goto(t, "masked")
    /\ UNCHANGED << lockvars, old_status >>

\* ... and intr_set_status(old_status)
loop_restores(t) ==
    /\ at(t, "masked")
    /\ set_intr(outer_status[t])
    /\ goto(t, "outside")
    /\ UNCHANGED << lockvars, outer_status, old_status >>

\* Faulty: any count is taken for the caller's own.
holds_somebody(t) == holder_repeat_nr > 0

holds(t) == holder = t

\* lock_acquire up to the call of sema_down, or all of it for the holder
lock_acquire(t) ==
    /\ \/ at(t, "outside") /\ t \notin Masked
       \/ at(t, "masked")
       \/ at(t, "cs") /\ holder_repeat_nr < MaxNest
    /\ IF ~holds(t)
       THEN goto(t, "down") /\ UNCHANGED holder_repeat_nr
       ELSE goto(t, "cs") /\ holder_repeat_nr' = holder_repeat_nr + 1
    /\ UNCHANGED << vars, outer_status, old_status, holder, value, waiters >>

\* Faulty: the status is read behind the cli.
sema_down_late(t) ==
    /\ at(t, "down")
    /\ set_intr("INTR_OFF")
    /\ old_status' = [old_status EXCEPT ![t] = "INTR_OFF"]
    /\ goto(t, "loop")
    /\ UNCHANGED << lockvars, outer_status >>

\* sema_down: old_status = intr_disable()
sema_down(t) ==
    /\ at(t, "down")
    /\ set_intr("INTR_OFF")
    /\ old_status' = [old_status EXCEPT ![t] = intr]
    /\ goto(t, "loop")
    /\ UNCHANGED << lockvars, outer_status >>

must_wait == value = 0

\* sema_down: one pass through the while loop that ends in thread_block.  The
\* thread is resumed in front of the test.
sema_down_waits(t) ==
    /\ at(t, "loop")
    /\ must_wait
    /\ IF elem_find(waiters, t)
       THEN panic
       ELSE /\ waiters' = list_append(waiters, t)
            /\ thread_block("TASK_BLOCKED")
            /\ UNCHANGED << holder, holder_repeat_nr, value, localvars >>

\* sema_down: the loop ends, the value is taken, interrupts are restored
sema_down_takes(t) ==
    /\ at(t, "loop")
    /\ ~must_wait
    /\ IF value - 1 # 0
       THEN panic
       ELSE /\ value' = value - 1
            /\ set_intr(old_status[t])
            /\ goto(t, "own")
            /\ UNCHANGED << holder, holder_repeat_nr, waiters, outer_status,
                            old_status >>

\* lock_acquire behind sema_down, two stores an interrupt can separate
lock_acquire_owns(t) ==
    /\ at(t, "own")
    /\ holder' = t
    /\ goto(t, "count")
    /\ UNCHANGED << vars, holder_repeat_nr, value, waiters, outer_status, old_status >>

lock_acquire_counts(t) ==
    /\ at(t, "count")
    /\ IF holder_repeat_nr # 0
       THEN panic
       ELSE /\ holder_repeat_nr' = 1
            /\ goto(t, "cs")
            /\ UNCHANGED << vars, holder, value, waiters, outer_status, old_status >>

\* lock_release: the asserts and the early return of a nested release
lock_release(t) ==
    /\ at(t, "cs")
    /\ IF ~holds(t) \/ holder_repeat_nr = 0
       THEN panic
       ELSE /\ IF holder_repeat_nr > 1
               THEN holder_repeat_nr' = holder_repeat_nr - 1 /\ UNCHANGED pc
               ELSE goto(t, "unown") /\ UNCHANGED holder_repeat_nr
            /\ UNCHANGED << vars, holder, value, waiters, outer_status, old_status >>

\* Faulty: holder = NULL is missing.
lock_release_keeps(t) ==
    /\ at(t, "unown")
    /\ goto(t, "uncount")
    /\ UNCHANGED << vars, lockvars, outer_status, old_status >>

lock_release_disowns(t) ==
    /\ at(t, "unown")
    /\ holder' = NULL
    /\ goto(t, "uncount")
    /\ UNCHANGED << vars, holder_repeat_nr, value, waiters, outer_status, old_status >>

\* Faulty: holder_repeat_nr = 0 is missing.
lock_release_counted(t) ==
    /\ at(t, "uncount")
    /\ goto(t, "up")
    /\ UNCHANGED << vars, lockvars, outer_status, old_status >>

lock_release_uncounts(t) ==
    /\ at(t, "uncount")
    /\ holder_repeat_nr' = 0
    /\ goto(t, "up")
    /\ UNCHANGED << vars, holder, value, waiters, outer_status, old_status >>

\* Faulty: the only waiter is not woken.
must_wake_crowd == Len(waiters) > 1

must_wake == ~list_empty(waiters)

\* Faulty: the woken thread stays in the list.
still_waiting_all == waiters

still_waiting == list_pop(waiters)

\* sema_up: interrupts are disabled for all of it and then as before
sema_up(t) ==
    /\ at(t, "up")
    /\ IF value # 0
       THEN panic
       ELSE /\ IF must_wake
               THEN waiters' = still_waiting /\ thread_unblock(list_front(waiters))
               ELSE UNCHANGED << vars, waiters >>
            /\ value' = value + 1
            /\ goto(t, IF t \in Masked THEN "masked" ELSE "outside")
            /\ UNCHANGED << holder, holder_repeat_nr, outer_status, old_status >>

timer == intr_timer_handler /\ UNCHANGED << lockvars, localvars >>

\* The instructions of thread t
Step(t) ==
    \/ loop_masks(t) \/ loop_restores(t)
    \/ lock_acquire(t) \/ sema_down(t) \/ sema_down_waits(t) \/ sema_down_takes(t)
    \/ lock_acquire_owns(t) \/ lock_acquire_counts(t)
    \/ lock_release(t) \/ lock_release_disowns(t) \/ lock_release_uncounts(t)
    \/ sema_up(t)

Boot == main_enables \/ \E t \in Task : main_starts(t)

SyncNext == Boot \/ timer \/ \E t \in Task : Step(t)

SyncSpec == SyncInit /\ [][SyncNext]_syncvars

leaves(t) == holder_repeat_nr = 1 /\ lock_release(t)

\* A thread that gets the processor again and again executes its instructions:
\* the 8253 ticks every 10 ms.  The timer is taken again and again (Thread).
\* The body of k_thread_a takes the console lock twice, then restores IF.  What
\* a thread does with the lock ends: console_put_str prints a string.
SyncFairness ==
    /\ WF_syncvars(Boot)
    /\ SF_syncvars(timer)
    /\ \A t \in Lockers : SF_syncvars(Step(t))
    /\ \A t \in Masked : SF_syncvars(loop_restores(t))
    /\ \A t \in Lockers : SF_syncvars(leaves(t))

SyncFairSpec == SyncSpec /\ SyncFairness

-----------------------------------------------------------------------------
SyncTypeOK ==
    /\ TypeOK
    /\ pc \in [Task -> Location]
    /\ outer_status \in [Task -> intr_status]
    /\ old_status \in [Task -> intr_status]
    /\ holder \in Task \cup {NULL}
    /\ holder_repeat_nr \in 0..MaxNest
    /\ value \in 0..1
    /\ waiters \in Seq(Task)

\* Between the decrement of the semaphore and its increment
Owning == {"own", "count", "cs", "unown", "uncount", "up"}

owners == {t \in Task : pc[t] \in Owning}

\* No two threads are between lock_acquire and lock_release, though the timer
\* may come between any two instructions of either.
MutualExclusion == \A t, u \in owners : t = u

\* value, holder and holder_repeat_nr agree with who owns the lock at every
\* instruction: this is what lock_acquire's test of holder without any
\* protection and the ASSERTs of sync.c rely on.
LockExact ==
    /\ value = 1 <=> owners = {}
    /\ \A t \in Task : holder = t <=> pc[t] \in {"count", "cs", "unown"}
    /\ holder_repeat_nr > 0 <=> \E t \in Task : pc[t] \in {"cs", "unown", "uncount"}
    /\ (\E t \in Task : pc[t] \in {"unown", "uncount"}) => holder_repeat_nr = 1

\* The semaphore's list holds the threads asleep in sema_down, each once; a
\* blocked thread is nowhere else, so its general_tag is on one list only.
WaitersExact ==
    /\ elements(waiters) = {t \in Task : status[t] \in BlockedStatus}
    /\ elements(waiters) \subseteq {t \in Lockers : pc[t] = "loop"}
    /\ NoDuplicates(waiters)

\* While threads sleep on the semaphore, the lock is owned or a thread that was
\* woken is still to look at the value: no wake-up is lost.
NoLostWakeup ==
    waiters # << >> =>
        \/ owners # {}
        \/ \E t \in Lockers : pc[t] = "loop" /\ status[t] \notin BlockedStatus

\* The semaphore and the masked loops run with interrupts disabled, also after
\* a sleep, and everything else runs with interrupts as the caller had them.
InterruptDiscipline ==
    ~panicked =>
        (intr = "INTR_OFF" <=> \/ pc[running] \in {"boot", "masked", "loop"}
                               \/ running \in Masked /\ pc[running] # "outside")

\* A thread that sleeps for the lock is eventually woken, whoever overtakes it
\* then: sema_up gives every waiter its turn, and owners always come to it.
WaitersWoken == \A t \in Lockers : (t \in elements(waiters)) ~> (t \notin elements(waiters))

\* Whose the lock is to its callers, and who is about to get it.
Inside == {"cs", "unown", "uncount"}

lock_owner == IF \E t \in Task : pc[t] \in Inside
              THEN CHOOSE t \in Task : pc[t] \in Inside
              ELSE NULL

acquiring == {t \in Task : pc[t] \in {"down", "loop", "own", "count"}}

Abstract ==
    INSTANCE AbstractLock WITH
        Thread <- Task,
        owner <- lock_owner,
        depth <- holder_repeat_nr,
        wanting <- acquiring

\* The lock behaves as AbstractLock: one owner at a time, recursively.
ImplementsLock == Abstract!Spec

\* The kernel is an environment of the scheduler that Thread allows.
ImplementsThread == Spec

=============================================================================
