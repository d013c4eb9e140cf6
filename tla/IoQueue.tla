------------------------------- MODULE IoQueue ------------------------------
(***************************************************************************)
(* The ring buffer of device/ioqueue.c between the keyboard interrupt      *)
(* handler, threads that read it and threads that write it.                *)
(*                                                                         *)
(* Both ioq_getchar and ioq_putchar ASSERT that interrupts are disabled,   *)
(* so a call runs undivided except where it sleeps: in sema_down on qlock, *)
(* or in ioq_wait with qlock held.  The lock is therefore reduced to its   *)
(* holder and its waiting list (module Sync justifies: value is 0 exactly  *)
(* while the lock is owned).                                               *)
(***************************************************************************)
EXTENDS Thread

CONSTANTS
    Consumers,      \* threads that call ioq_getchar again and again
    Producers,      \* threads that call ioq_putchar again and again
    Char,
    Keys,           \* the characters that keys produce
    bufsize,
    NONE            \* NULL, and where there is no character

IoQueueAssumption ==
    /\ Consumers \cup Producers \subseteq Task \ (Resident \cup {main_thread})
    /\ Consumers \cap Producers = {}
    /\ Keys \subseteq Char
    /\ bufsize \in Nat \ {0}
    /\ NONE \notin Task \cup Char

ASSUME IoQueueAssumption

VARIABLES
    buf, head, tail,
    consumer, producer,     \* the threads asleep in ioq_wait
    qholder, qwaiters,      \* qlock: its holder and its semaphore's list
    character,              \* the local of ioq_getchar, the argument of ioq_putchar
    ioq_pc

ioqvars == << buf, head, tail, consumer, producer, qholder, qwaiters >>

queuevars == << vars, ioqvars, character, ioq_pc >>

\* ioqueue_init; buf is static memory
IoqInit ==
    /\ Init
    /\ buf = [i \in 0..(bufsize - 1) |-> NONE]
    /\ head = 0
    /\ tail = 0
    /\ consumer = NONE
    /\ producer = NONE
    /\ qholder = NONE
    /\ qwaiters = << >>
    /\ character = [t \in Consumers \cup Producers |-> NONE]
    /\ ioq_pc = [t \in Task |-> IF t = main_thread THEN "boot" ELSE "outside"]

-----------------------------------------------------------------------------
\* Faulty: the position runs off the end of buf.
next_pos_straight(pos) == pos + 1

next_pos(pos) == (pos + 1) % bufsize

ioq_full == next_pos(head) = tail

ioq_empty == head = tail

ioq_at(t, location) == ~panicked /\ running = t /\ ioq_pc[t] = location

ioq_goto(t, location) == ioq_pc' = [ioq_pc EXCEPT ![t] = location]

\* Faulty: a reader that went to sleep when the queue was empty is not woken.
consumer_waits_unless_first == consumer # NONE /\ ~ioq_empty

consumer_waits == consumer # NONE

\* The body of ioq_putchar behind its loop; wakeup(&ioq->consumer)
store(c) ==
    /\ buf' = [buf EXCEPT ![head] = c]
    /\ head' = next_pos(head)
    /\ IF consumer_waits
       THEN thread_unblock(consumer) /\ consumer' = NONE
       ELSE UNCHANGED << vars, consumer >>
    /\ UNCHANGED << tail, producer, qholder, qwaiters >>

\* Faulty: tail is advanced before the character is read.
oldest_late == buf[next_pos(tail)]

oldest == buf[tail]

\* Faulty: wakeup leaves producer as it is.
fetch_rewakes(t) ==
    /\ character' = [character EXCEPT ![t] = oldest]
    /\ tail' = next_pos(tail)
    /\ IF producer # NONE THEN thread_unblock(producer) ELSE UNCHANGED vars
    /\ UNCHANGED << buf, head, consumer, producer, qholder, qwaiters >>

\* The body of ioq_getchar behind its loop; wakeup(&ioq->producer)
fetch(t) ==
    /\ character' = [character EXCEPT ![t] = oldest]
    /\ tail' = next_pos(tail)
    /\ IF producer # NONE
       THEN thread_unblock(producer) /\ producer' = NONE
       ELSE UNCHANGED << vars, producer >>
    /\ UNCHANGED << buf, head, consumer, qholder, qwaiters >>

-----------------------------------------------------------------------------
\* A key arrives while the processor runs with interrupts enabled; the handler
\* drops it when the queue is full.
kbd_interrupt(c) ==
    /\ ~panicked
    /\ intr = "INTR_ON"
    /\ ~ioq_full
    /\ store(c)
    /\ UNCHANGED << character, ioq_pc >>

\* intr_disable, and a producer decides what to put
call(t) ==
    /\ ioq_at(t, "outside")
    /\ set_intr("INTR_OFF")
    /\ IF t \in Producers
       THEN \E c \in Char : character' = [character EXCEPT ![t] = c]
       ELSE UNCHANGED character
    /\ ioq_goto(t, "test")
    /\ UNCHANGED ioqvars

ioq_getchar(t) ==
    /\ t \in Consumers
    /\ ioq_at(t, "test")
    /\ ~ioq_empty
    /\ fetch(t)
    /\ ioq_goto(t, "leave")

ioq_putchar(t) ==
    /\ t \in Producers
    /\ ioq_at(t, "test")
    /\ ~ioq_full
    /\ store(character[t])
    /\ character' = [character EXCEPT ![t] = NONE]
    /\ ioq_goto(t, "leave")

ioq_must_wait(t) == IF t \in Consumers THEN ioq_empty ELSE ioq_full

\* Inside the while loop, in lock_acquire: the condition of the loop is not
\* evaluated again when a sleep in sema_down ends.
in_lock_acquire(t) == (ioq_at(t, "test") /\ ioq_must_wait(t)) \/ ioq_at(t, "lockwait")

lock_acquire_waits(t) ==
    /\ in_lock_acquire(t)
    /\ qholder # NONE
    /\ qwaiters' = list_append(qwaiters, t)
    /\ thread_block("TASK_BLOCKED")
    /\ ioq_goto(t, "lockwait")
    /\ UNCHANGED << buf, head, tail, consumer, producer, qholder, character >>

\* lock_acquire succeeds, ioq_wait puts the thread to sleep with the lock held
ioq_wait(t) ==
    /\ in_lock_acquire(t)
    /\ qholder = NONE
    /\ IF (IF t \in Consumers THEN consumer ELSE producer) # NONE
       THEN panic_spin /\ UNCHANGED << consumer, producer, qholder, ioq_pc >>
       ELSE /\ qholder' = t
            /\ IF t \in Consumers THEN consumer' = t /\ UNCHANGED producer
                                  ELSE producer' = t /\ UNCHANGED consumer
            /\ thread_block("TASK_BLOCKED")
            /\ ioq_goto(t, "asleep")
    /\ UNCHANGED << buf, head, tail, qwaiters, character >>

\* Resumed in ioq_wait: lock_release, then back to the test of the loop
ioq_lock_release(t) ==
    /\ ioq_at(t, "asleep")
    /\ qholder' = NONE
    /\ IF list_empty(qwaiters)
       THEN UNCHANGED << vars, qwaiters >>
       ELSE thread_unblock(list_front(qwaiters)) /\ qwaiters' = list_pop(qwaiters)
    /\ ioq_goto(t, "test")
    /\ UNCHANGED << buf, head, tail, consumer, producer, character >>

\* intr_set_status(old_status); the caller has used its character
return(t) ==
    /\ ioq_at(t, "leave")
    /\ set_intr("INTR_ON")
    /\ character' = [character EXCEPT ![t] = NONE]
    /\ ioq_goto(t, "outside")
    /\ UNCHANGED ioqvars

IoqBoot ==
    /\ ioq_at(main_thread, "boot")
    /\ \/ \E t \in Task : thread_start(t) /\ UNCHANGED ioq_pc
       \/ thread_all_list = Task /\ intr_enable /\ ioq_goto(main_thread, "outside")
    /\ UNCHANGED << ioqvars, character >>

IoqTimer == intr_timer_handler /\ UNCHANGED << ioqvars, character, ioq_pc >>

IoqStep(t) ==
    \/ call(t) \/ ioq_getchar(t) \/ ioq_putchar(t) \/ lock_acquire_waits(t)
    \/ ioq_wait(t) \/ ioq_lock_release(t) \/ return(t)

IoqNext ==
    \/ IoqBoot
    \/ IoqTimer
    \/ \E c \in Keys : kbd_interrupt(c)
    \/ \E t \in Consumers \cup Producers : IoqStep(t)

IoqSpec == IoqInit /\ [][IoqNext]_queuevars

\* As in Sync; nothing makes a key arrive.
IoqFairness ==
    /\ WF_queuevars(IoqBoot)
    /\ SF_queuevars(IoqTimer)
    /\ \A t \in Consumers \cup Producers : SF_queuevars(IoqStep(t))

IoqFairSpec == IoqSpec /\ IoqFairness

-----------------------------------------------------------------------------
\* The blocked threads are those in qlock's list and the recorded consumer and
\* producer; qlock's holder is the one of these.
SleepersExact ==
    /\ {t \in Task : status[t] \in BlockedStatus} =
            ({consumer, producer} \ {NONE}) \cup elements(qwaiters)
    /\ NoDuplicates(qwaiters)
    /\ \A t \in Task : qholder = t <=> ioq_pc[t] = "asleep"
    /\ {consumer, producer} \ {NONE} \subseteq {qholder}

\* Who sleeps where, once main has left the boot to the threads: a blocked thread
\* is in qlock's list or is the recorded consumer or producer, so that some later
\* call can wake it, and only the thread inside ioq_wait holds qlock.
SleepersKnown == ioq_pc[main_thread] # "boot" => SleepersExact

\* The wakeup calls of ioq_getchar and ioq_putchar: the threads asleep in a
\* queue operation are never all there are, somebody is left to wake them.
SomeoneAwake == \E t \in Consumers \cup Producers : status[t] \notin BlockedStatus

\* A character in the queue is eventually taken out, whatever else arrives, when
\* only the keyboard writes, as it does in the kernel.
CharactersTaken ==
    \A pos \in 0..(bufsize - 1) : (tail = pos /\ ~ioq_empty) ~> (tail # pos)

length == (head + bufsize - tail) % bufsize

\* The characters between tail and head, around the end of buf
queued == [i \in 1..length |-> buf[(tail + i - 1) % bufsize]]

Queue ==
    INSTANCE BoundedQueue WITH
        capacity <- bufsize - 1,
        items <- queued,
        hand <- character,
        NULL <- NONE

\* Across wrap-around, sleeps and interrupts the ring is a bounded FIFO.
ImplementsQueue == Queue!Spec

=============================================================================
