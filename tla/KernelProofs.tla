---------------------------- MODULE KernelProofs ----------------------------
(***************************************************************************)
(* The threads of Tiny_OS, for any number of them and any interleaving:    *)
(*   - the scheduler keeps its queues exact, and no ASSERT of thread.c     *)
(*     fails as long as main() does not block;                             *)
(*   - the lock of thread/sync.c excludes, loses no wake-up and fails no   *)
(*     ASSERT;                                                             *)
(*   - the ring buffer of device/ioqueue.c knows everyone who sleeps in it *)
(*     and is a bounded FIFO, for any number of readers and writers, any   *)
(*     size and whenever the keyboard interrupts.                          *)
(***************************************************************************)
EXTENDS Sync, IoQueue, TLAPS

-----------------------------------------------------------------------------
\* What the list operations do to the elements of a list of any length

\* elem_find finds exactly the elements of the list.
LEMMA FindElement ==
    ASSUME NEW l, NEW e
    PROVE  elem_find(l, e) <=> e \in elements(l)
BY DEF elem_find, elements

\* Only the empty list has no elements.
LEMMA EmptyElements ==
    ASSUME NEW S, NEW l \in Seq(S)
    PROVE  list_empty(l) <=> elements(l) = {}
<1>1. CASE l = << >>
  BY <1>1 DEF list_empty, elements
<1>2. CASE l # << >>
  <2>1. Len(l) \in Nat /\ Len(l) # 0
    BY <1>2
  <2>2. l[1] \in elements(l)
    BY <2>1 DEF elements
  <2> QED
    BY <1>2, <2>2 DEF list_empty
<1> QED
  BY <1>1, <1>2

\* The elements of a list over S are in S.
LEMMA ElementsType ==
    ASSUME NEW S, NEW l \in Seq(S)
    PROVE  elements(l) \subseteq S
BY DEF elements

\* list_append adds one element, and a new one keeps the list free of
\* duplicates.
LEMMA AppendElement ==
    ASSUME NEW S, NEW l \in Seq(S), NEW e \in S
    PROVE  /\ list_append(l, e) \in Seq(S)
           /\ elements(list_append(l, e)) = elements(l) \cup {e}
           /\ NoDuplicates(l) /\ e \notin elements(l)
                => NoDuplicates(list_append(l, e))
<1> DEFINE m == Append(l, e)
<1>1. /\ m \in Seq(S)
      /\ Len(m) = Len(l) + 1
      /\ m[Len(l) + 1] = e
      /\ \A i \in 1..Len(l) : m[i] = l[i]
      /\ Len(l) \in Nat
  OBVIOUS
<1>2. elements(m) = elements(l) \cup {e}
  BY <1>1 DEF elements
<1>3. ASSUME NoDuplicates(l), e \notin elements(l)
      PROVE  NoDuplicates(m)
  <2> SUFFICES ASSUME NEW i \in 1..Len(m), NEW j \in 1..Len(m), m[i] = m[j]
               PROVE  i = j
    BY DEF NoDuplicates
  <2>1. CASE i \in 1..Len(l) /\ j \in 1..Len(l)
    BY <1>1, <1>3, <2>1 DEF NoDuplicates
  <2>2. CASE i = Len(l) + 1 /\ j \in 1..Len(l)
    BY <1>1, <1>3, <2>2 DEF elements
  <2>3. CASE i \in 1..Len(l) /\ j = Len(l) + 1
    BY <1>1, <1>3, <2>3 DEF elements
  <2> QED
    BY <1>1, <2>1, <2>2, <2>3
<1> QED
  BY <1>1, <1>2, <1>3 DEF list_append

\* list_push does the same at the other end.
LEMMA PushElement ==
    ASSUME NEW S, NEW l \in Seq(S), NEW e \in S
    PROVE  /\ list_push(l, e) \in Seq(S)
           /\ elements(list_push(l, e)) = elements(l) \cup {e}
           /\ NoDuplicates(l) /\ e \notin elements(l)
                => NoDuplicates(list_push(l, e))
<1> DEFINE m == << e >> \o l
<1>1. /\ m \in Seq(S)
      /\ Len(m) = Len(l) + 1
      /\ m[1] = e
      /\ \A i \in 1..Len(l) : m[i + 1] = l[i]
      /\ Len(l) \in Nat
  OBVIOUS
<1>2. \A k \in 1..Len(m) : k = 1 \/ \E i \in 1..Len(l) : k = i + 1
  <2> SUFFICES ASSUME NEW k \in 1..Len(m), k # 1
               PROVE  \E i \in 1..Len(l) : k = i + 1
    OBVIOUS
  <2>1. k - 1 \in 1..Len(l) /\ k = (k - 1) + 1
    BY <1>1
  <2> QED
    BY <2>1
<1>3. elements(m) = elements(l) \cup {e}
  <2>1. ASSUME NEW x \in elements(m)
        PROVE  x \in elements(l) \cup {e}
    BY <1>1, <1>2, <2>1 DEF elements
  <2>2. ASSUME NEW x \in elements(l)
        PROVE  x \in elements(m)
    <3>1. PICK i \in 1..Len(l) : x = l[i]
      BY <2>2 DEF elements
    <3>2. i + 1 \in 1..Len(m) /\ m[i + 1] = x
      BY <1>1, <3>1
    <3> QED
      BY <3>2 DEF elements
  <2>3. e \in elements(m)
    BY <1>1 DEF elements
  <2> QED
    BY <2>1, <2>2, <2>3
<1>4. ASSUME NoDuplicates(l), e \notin elements(l)
      PROVE  NoDuplicates(m)
  <2> SUFFICES ASSUME NEW i \in 1..Len(m), NEW j \in 1..Len(m), m[i] = m[j]
               PROVE  i = j
    BY DEF NoDuplicates
  <2>1. CASE i = 1 /\ j = 1
    BY <2>1
  <2>2. CASE i = 1 /\ j # 1
    <3>1. PICK k \in 1..Len(l) : j = k + 1
      BY <1>2, <2>2
    <3> QED
      BY <1>1, <1>4, <2>2, <3>1 DEF elements
  <2>3. CASE i # 1 /\ j = 1
    <3>1. PICK k \in 1..Len(l) : i = k + 1
      BY <1>2, <2>3
    <3> QED
      BY <1>1, <1>4, <2>3, <3>1 DEF elements
  <2>4. CASE i # 1 /\ j # 1
    <3>1. PICK k \in 1..Len(l) : i = k + 1
      BY <1>2, <2>4
    <3>2. PICK n \in 1..Len(l) : j = n + 1
      BY <1>2, <2>4
    <3> QED
      BY <1>1, <1>4, <3>1, <3>2 DEF NoDuplicates
  <2> QED
    BY <2>1, <2>2, <2>3, <2>4
<1> QED
  BY <1>1, <1>3, <1>4 DEF list_push

\* list_pop takes its first element out of a list and leaves the others.
LEMMA PopElement ==
    ASSUME NEW S, NEW l \in Seq(S), ~list_empty(l)
    PROVE  /\ list_front(l) \in S
           /\ list_pop(l) \in Seq(S)
           /\ elements(l) = elements(list_pop(l)) \cup {list_front(l)}
           /\ NoDuplicates(l) => /\ list_front(l) \notin elements(list_pop(l))
                                 /\ NoDuplicates(list_pop(l))
<1> DEFINE m == Tail(l)
<1>1. /\ l[1] \in S
      /\ Head(l) = l[1]
      /\ m \in Seq(S)
      /\ Len(l) \in Nat /\ Len(l) # 0
      /\ Len(m) = Len(l) - 1
      /\ \A i \in 1..Len(m) : m[i] = l[i + 1]
  BY DEF list_empty
<1>2. \A k \in 1..Len(l) : k = 1 \/ \E i \in 1..Len(m) : k = i + 1
  <2> SUFFICES ASSUME NEW k \in 1..Len(l), k # 1
               PROVE  \E i \in 1..Len(m) : k = i + 1
    OBVIOUS
  <2>1. k - 1 \in 1..Len(m) /\ k = (k - 1) + 1
    BY <1>1
  <2> QED
    BY <2>1
<1>3. elements(l) = elements(m) \cup {l[1]}
  <2>1. ASSUME NEW x \in elements(l)
        PROVE  x \in elements(m) \cup {l[1]}
    BY <1>1, <1>2, <2>1 DEF elements
  <2>2. ASSUME NEW x \in elements(m)
        PROVE  x \in elements(l)
    <3>1. PICK i \in 1..Len(m) : x = m[i]
      BY <2>2 DEF elements
    <3>2. i + 1 \in 1..Len(l) /\ l[i + 1] = x
      BY <1>1, <3>1
    <3> QED
      BY <3>2 DEF elements
  <2>3. l[1] \in elements(l)
    BY <1>1 DEF elements
  <2> QED
    BY <2>1, <2>2, <2>3
<1>4. ASSUME NoDuplicates(l)
      PROVE  l[1] \notin elements(m) /\ NoDuplicates(m)
  <2>1. \A i \in 1..Len(m) : i + 1 \in 1..Len(l) /\ 1 \in 1..Len(l) /\ i + 1 # 1
    BY <1>1
  <2>2. l[1] \notin elements(m)
    <3> SUFFICES ASSUME NEW i \in 1..Len(m), m[i] = l[1]
                 PROVE  FALSE
      BY DEF elements
    <3>1. l[i + 1] = l[1]
      BY <1>1
    <3> QED
      BY <1>4, <2>1, <3>1 DEF NoDuplicates
  <2>3. NoDuplicates(m)
    <3> SUFFICES ASSUME NEW i \in 1..Len(m), NEW j \in 1..Len(m), m[i] = m[j]
                 PROVE  i = j
      BY DEF NoDuplicates
    <3>1. l[i + 1] = l[j + 1]
      BY <1>1
    <3>2. i + 1 = j + 1
      BY <1>4, <2>1, <3>1 DEF NoDuplicates
    <3> QED
      BY <1>1, <3>2
  <2> QED
    BY <2>2, <2>3
<1> QED
  BY <1>1, <1>3, <1>4 DEF list_front, list_pop

-----------------------------------------------------------------------------
\* The scheduler

ThreadInv == TypeOK /\ SchedulerInv

\* Nothing a panic changes matters to the invariant.
LEMMA PanicKeepsInv ==
    ASSUME ThreadInv, panic_spin
    PROVE  ThreadInv'
BY DEF ThreadInv, panic_spin, TypeOK, SchedulerInv, ReadyListExact, OneRunning,
       AllListExact, intr_status

\* schedule() is called by a thread that was preempted or that has just marked
\* itself blocked: with the caller queued, the queue is exact again and nobody
\* is marked running.
LEMMA RequeuedExact ==
    ASSUME ThreadInv,
           NEW st \in [Task -> task_status],
           \A t \in Task \ {running} : st[t] = status[t],
           st[running] \in BlockedStatus \cup {"TASK_RUNNING"}
    PROVE  /\ requeued(st) \in Seq(Task)
           /\ elements(requeued(st)) =
                    {t \in Task : requeued_status(st)[t] = "TASK_READY"}
           /\ NoDuplicates(requeued(st))
           /\ requeued_status(st) \in [Task -> task_status]
           /\ \A t \in Task : /\ requeued_status(st)[t] # "TASK_RUNNING"
                              /\ requeued_status(st)[t] = "TASK_NONE"
                                    <=> status[t] = "TASK_NONE"
                              /\ requeued_status(st)[t] \in BlockedStatus
                                    <=> st[t] \in BlockedStatus
<1> USE DEF ThreadInv
<1> DEFINE l == requeued(st)
           w == requeued_status(st)
<1>1. running \in Task /\ running \notin elements(thread_ready_list)
  BY DEF TypeOK, SchedulerInv, ReadyListExact, OneRunning
<1>2. CASE preempts(st)
  <2>1. l = list_append(thread_ready_list, running)
    BY <1>2 DEF requeued
  <2>2. w = [st EXCEPT ![running] = "TASK_READY"]
    BY <1>2 DEF requeued_status
  <2>3. /\ l \in Seq(Task)
        /\ elements(l) = elements(thread_ready_list) \cup {running}
        /\ NoDuplicates(l)
    BY <1>1, <2>1, AppendElement DEF TypeOK, SchedulerInv, ReadyListExact
  <2> QED
    BY <1>1, <1>2, <2>2, <2>3
    DEF SchedulerInv, ReadyListExact, OneRunning, TypeOK, task_status,
        BlockedStatus, preempts
<1>3. CASE ~preempts(st)
  BY <1>1, <1>3
  DEF requeued, requeued_status, preempts, SchedulerInv, ReadyListExact,
      OneRunning, TypeOK, task_status, BlockedStatus
<1> QED
  BY <1>2, <1>3

\* schedule(): the ready list gains the caller and loses the next thread.
LEMMA ScheduleKeepsInv ==
    ASSUME ThreadInv,
           NEW st \in [Task -> task_status],
           \A t \in Task \ {running} : st[t] = status[t],
           st[running] \in BlockedStatus \cup {"TASK_RUNNING"},
           NEW si \in intr_status,
           schedule(st, si)
    PROVE  ThreadInv'
<1> USE DEF ThreadInv
<1> DEFINE l == requeued(st)
           w == requeued_status(st)
<1>1. CASE panic_spin
  BY <1>1, PanicKeepsInv
<1>2. CASE ~panic_spin
  <2>1. /\ ~list_empty(l)
        /\ running' = list_front(l)
        /\ status' = [w EXCEPT ![list_front(l)] = "TASK_RUNNING"]
        /\ thread_ready_list' = list_pop(l)
        /\ ticks' = IF preempts(st) THEN [ticks EXCEPT ![running] = slice_reload]
                                    ELSE ticks
        /\ saved_intr' = [saved_intr EXCEPT ![running] = si]
        /\ intr' = saved_intr'[running']
        /\ UNCHANGED << thread_all_list, panicked >>
    BY <1>2 DEF schedule
  <2>2. /\ l \in Seq(Task)
        /\ elements(l) = {t \in Task : w[t] = "TASK_READY"}
        /\ NoDuplicates(l)
        /\ w \in [Task -> task_status]
        /\ \A t \in Task : w[t] # "TASK_RUNNING"
        /\ \A t \in Task : w[t] = "TASK_NONE" <=> status[t] = "TASK_NONE"
    BY RequeuedExact
  <2> HIDE DEF l, w
  <2>3. /\ list_front(l) \in Task
        /\ list_pop(l) \in Seq(Task)
        /\ elements(l) = elements(list_pop(l)) \cup {list_front(l)}
        /\ list_front(l) \notin elements(list_pop(l))
        /\ NoDuplicates(list_pop(l))
    BY <2>1, <2>2, PopElement
  <2>4. TypeOK'
    <3>1. ticks' \in [Task -> 0..255]
      BY <2>1 DEF TypeOK, slice_reload
    <3>2. saved_intr' \in [Task -> intr_status] /\ intr' \in intr_status
      BY <2>1, <2>3 DEF TypeOK
    <3>3. status' \in [Task -> task_status]
      BY <2>1, <2>2 DEF task_status
    <3> QED
      BY <2>1, <2>3, <3>1, <3>2, <3>3 DEF TypeOK
  <2>5. ReadyListExact'
    BY <2>1, <2>2, <2>3 DEF ReadyListExact
  <2>6. OneRunning'
    BY <2>1, <2>2, <2>3 DEF OneRunning
  <2>7. AllListExact'
    BY <2>1, <2>2, <2>3 DEF SchedulerInv, AllListExact
  <2> QED
    BY <2>4, <2>5, <2>6, <2>7 DEF SchedulerInv
<1> QED
  BY <1>1, <1>2

LEMMA ThreadStartKeepsInv ==
    ASSUME ThreadInv, NEW t \in Task, thread_start(t)
    PROVE  ThreadInv'
<1> USE DEF ThreadInv
<1>1. CASE panic_spin
  BY <1>1, PanicKeepsInv
<1>2. CASE ~panic_spin
  <2>1. /\ status[t] = "TASK_NONE"
        /\ status' = [status EXCEPT ![t] = "TASK_READY"]
        /\ ticks' = [ticks EXCEPT ![t] = priority[t]]
        /\ thread_ready_list' = list_append(thread_ready_list, t)
        /\ thread_all_list' = thread_all_list \cup {t}
        /\ UNCHANGED << running, intr, saved_intr, panicked >>
    BY <1>2 DEF thread_start
  <2>2. /\ thread_ready_list' \in Seq(Task)
        /\ elements(thread_ready_list') = elements(thread_ready_list) \cup {t}
        /\ NoDuplicates(thread_ready_list')
    BY <2>1, AppendElement DEF TypeOK, SchedulerInv, ReadyListExact
  <2>3. TypeOK'
    BY <2>1, <2>2, TaskAssumption DEF TypeOK, task_status, TaskAssumption
  <2>4. SchedulerInv'
    BY <2>1, <2>2 DEF TypeOK, SchedulerInv, ReadyListExact, OneRunning, AllListExact
  <2> QED
    BY <2>3, <2>4
<1> QED
  BY <1>1, <1>2

LEMMA UnblockKeepsInv ==
    ASSUME ThreadInv, NEW t \in Task, thread_unblock(t)
    PROVE  ThreadInv'
<1> USE DEF ThreadInv
<1>1. CASE panic_spin
  BY <1>1, PanicKeepsInv
<1>2. CASE ~panic_spin
  <2>1. /\ status[t] \in BlockedStatus
        /\ thread_ready_list' = list_push(thread_ready_list, t)
        /\ status' = [status EXCEPT ![t] = "TASK_READY"]
        /\ UNCHANGED << running, thread_all_list, ticks, intr, saved_intr, panicked >>
    BY <1>2 DEF thread_unblock
  <2>2. /\ thread_ready_list' \in Seq(Task)
        /\ elements(thread_ready_list') = elements(thread_ready_list) \cup {t}
        /\ NoDuplicates(thread_ready_list')
    BY <2>1, PushElement DEF TypeOK, SchedulerInv, ReadyListExact, BlockedStatus
  <2>3. TypeOK'
    BY <2>1, <2>2 DEF TypeOK, task_status
  <2>4. SchedulerInv'
    BY <2>1, <2>2
    DEF TypeOK, SchedulerInv, ReadyListExact, OneRunning, AllListExact, BlockedStatus
  <2> QED
    BY <2>3, <2>4
<1> QED
  BY <1>1, <1>2

LEMMA SetIntrKeepsInv ==
    ASSUME ThreadInv, NEW new \in intr_status, set_intr(new)
    PROVE  ThreadInv'
BY DEF ThreadInv, set_intr, TypeOK, SchedulerInv, ReadyListExact, OneRunning,
       AllListExact

LEMMA TimerKeepsInv ==
    ASSUME ThreadInv, intr_timer_handler
    PROVE  ThreadInv'
<1> USE DEF ThreadInv
<1>1. CASE schedule(status, "INTR_ON")
  <2>1. status[running] = "TASK_RUNNING"
    BY DEF SchedulerInv, OneRunning
  <2> QED
    BY <1>1, <2>1, ScheduleKeepsInv DEF TypeOK, intr_status
<1>2. CASE ~schedule(status, "INTR_ON")
  <2>1. /\ ~slice_expired
        /\ ticks' = [ticks EXCEPT ![running] = @ - 1]
        /\ UNCHANGED << running, status, thread_ready_list, thread_all_list,
                        intr, saved_intr, panicked >>
    BY <1>2 DEF intr_timer_handler
  <2>2. ticks[running] \in 0..255 /\ ticks[running] # 0
    BY <2>1 DEF TypeOK, slice_expired
  <2>3. ticks[running] - 1 \in 0..255
    BY <2>2
  <2>4. ticks' \in [Task -> 0..255]
    BY <2>1, <2>3 DEF TypeOK
  <2> QED
    BY <2>1, <2>4 DEF TypeOK, SchedulerInv, ReadyListExact, OneRunning, AllListExact
<1> QED
  BY <1>1, <1>2

LEMMA BlockKeepsInv ==
    ASSUME ThreadInv, NEW stat \in BlockedStatus, thread_block(stat)
    PROVE  ThreadInv'
<1> DEFINE st == [status EXCEPT ![running] = stat]
<1>1. /\ st \in [Task -> task_status]
      /\ \A t \in Task \ {running} : st[t] = status[t]
      /\ st[running] \in BlockedStatus
      /\ intr \in intr_status
  BY DEF ThreadInv, TypeOK, task_status
<1>2. schedule(st, intr)
  BY DEF thread_block
<1> HIDE DEF st
<1> QED
  BY <1>1, <1>2, ScheduleKeepsInv

-----------------------------------------------------------------------------
LEMMA ThreadInit == Init => ThreadInv
<1> SUFFICES ASSUME Init
             PROVE  ThreadInv
  OBVIOUS
<1> USE TaskAssumption DEF TaskAssumption, Init
<1>1. TypeOK
  <2>1. status \in [Task -> task_status]
    BY DEF task_status
  <2>2. thread_ready_list \in Seq(Task)
    OBVIOUS
  <2>3. saved_intr \in [Task -> intr_status] /\ intr \in intr_status
    BY DEF intr_status
  <2> QED
    BY <2>1, <2>2, <2>3 DEF TypeOK
<1>2. elements(thread_ready_list) = {} /\ NoDuplicates(thread_ready_list)
  BY DEF elements, NoDuplicates
<1>3. SchedulerInv
  BY <1>2 DEF SchedulerInv, ReadyListExact, OneRunning, AllListExact
<1> QED
  BY <1>1, <1>3 DEF ThreadInv

LEMMA ThreadNext == ThreadInv /\ [Next]_vars => ThreadInv'
<1> SUFFICES ASSUME ThreadInv, [Next]_vars
             PROVE  ThreadInv'
  OBVIOUS
<1>1. CASE \E t \in Task : thread_start(t)
  BY <1>1, ThreadStartKeepsInv
<1>2. CASE intr_disable
  BY <1>2, SetIntrKeepsInv DEF intr_disable, intr_status
<1>3. CASE intr_enable
  BY <1>3, SetIntrKeepsInv DEF intr_enable, intr_status
<1>4. CASE intr_timer_handler
  BY <1>4, TimerKeepsInv
<1>5. CASE Block
  BY <1>5, BlockKeepsInv DEF Block
<1>6. CASE Unblock
  BY <1>6, UnblockKeepsInv DEF Unblock
<1>7. CASE UNCHANGED vars
  BY <1>7
  DEF vars, ThreadInv, TypeOK, SchedulerInv, ReadyListExact, OneRunning, AllListExact
<1> QED
  BY <1>1, <1>2, <1>3, <1>4, <1>5, <1>6, <1>7 DEF Next

\* The exactness of the queues is inductive.
THEOREM SchedulerCorrect == Spec => []ThreadInv
BY ThreadInit, ThreadNext, PTL DEF Spec

\* Every variable keeps its type.
THEOREM ThreadTypeOK == Spec => []TypeOK
BY SchedulerCorrect, PTL DEF ThreadInv

\* Ready list, running thread and list of all threads are exact.
THEOREM QueuesExact == Spec => []SchedulerInv
BY SchedulerCorrect, PTL DEF ThreadInv

-----------------------------------------------------------------------------
\* As long as one started thread never blocks, schedule() finds a thread.
NoPanicInv ==
    /\ ThreadInv
    /\ NoPanic
    /\ \A r \in Resident : status[r] \notin BlockedStatus
    /\ status[main_thread] # "TASK_NONE"

\* schedule() with a thread to run blocks and wakes nobody, and starts nobody.
LEMMA ScheduleRuns ==
    ASSUME ThreadInv, NoPanic,
           NEW st \in [Task -> task_status],
           \A t \in Task \ {running} : st[t] = status[t],
           st[running] \in BlockedStatus \cup {"TASK_RUNNING"},
           NEW si, schedule(st, si),
           ~list_empty(requeued(st))
    PROVE  /\ NoPanic'
           /\ \A t \in Task : /\ status'[t] \in BlockedStatus <=> st[t] \in BlockedStatus
                              /\ status'[t] = "TASK_NONE" <=> status[t] = "TASK_NONE"
<1> DEFINE l == requeued(st)
           w == requeued_status(st)
<1>1. ~elem_find(thread_ready_list, running)
  BY FindElement DEF ThreadInv, SchedulerInv, ReadyListExact, OneRunning
<1>2. /\ panicked' = panicked
      /\ status' = [w EXCEPT ![list_front(l)] = "TASK_RUNNING"]
  BY <1>1 DEF schedule
<1>3. /\ l \in Seq(Task)
      /\ elements(l) = {t \in Task : w[t] = "TASK_READY"}
      /\ w \in [Task -> task_status]
      /\ \A t \in Task : /\ w[t] = "TASK_NONE" <=> status[t] = "TASK_NONE"
                         /\ w[t] \in BlockedStatus <=> st[t] \in BlockedStatus
  BY RequeuedExact
<1> HIDE DEF l, w
<1>4. list_front(l) \in elements(l)
  BY <1>3, PopElement DEF l
<1> QED
  BY <1>2, <1>3, <1>4 DEF NoPanic, BlockedStatus

LEMMA TimerRuns ==
    ASSUME ThreadInv, NoPanic, intr_timer_handler
    PROVE  /\ NoPanic'
           /\ \A t \in Task :
                /\ status'[t] \in BlockedStatus <=> status[t] \in BlockedStatus
                /\ status'[t] = "TASK_NONE" <=> status[t] = "TASK_NONE"
<1>1. CASE slice_expired
  <2>1. schedule(status, "INTR_ON")
    BY <1>1 DEF intr_timer_handler
  <2>2. status[running] = "TASK_RUNNING"
    BY DEF ThreadInv, SchedulerInv, OneRunning
  <2>3. requeued(status) = list_append(thread_ready_list, running)
    BY <2>2 DEF requeued, preempts
  <2>4. /\ thread_ready_list \in Seq(Task)
        /\ running \in Task
        /\ status \in [Task -> task_status]
    BY DEF ThreadInv, TypeOK
  <2>5. /\ requeued(status) \in Seq(Task)
        /\ running \in elements(requeued(status))
    BY <2>3, <2>4, AppendElement
  <2>6. ~list_empty(requeued(status))
    BY <2>5, EmptyElements
  <2> QED
    BY <2>1, <2>2, <2>4, <2>6, ScheduleRuns
<1>2. CASE ~slice_expired
  BY <1>2 DEF intr_timer_handler, NoPanic
<1> QED
  BY <1>1, <1>2

\* A thread may block when another one is started and not blocked.
LEMMA BlockRuns ==
    ASSUME ThreadInv, NoPanic, NEW stat \in BlockedStatus, thread_block(stat),
           NEW other \in Task \ {running},
           status[other] \notin BlockedStatus \cup {"TASK_NONE"}
    PROVE  /\ NoPanic'
           /\ status'[running] \in BlockedStatus
           /\ \A t \in Task : /\ t # running => (status'[t] \in BlockedStatus
                                                    <=> status[t] \in BlockedStatus)
                              /\ status'[t] = "TASK_NONE" <=> status[t] = "TASK_NONE"
<1> USE DEF ThreadInv
<1> DEFINE st == [status EXCEPT ![running] = stat]
<1>1. /\ running \in Task
      /\ st \in [Task -> task_status]
      /\ \A t \in Task \ {running} : st[t] = status[t]
      /\ st[running] = stat
      /\ schedule(st, intr)
  BY DEF TypeOK, thread_block, task_status
<1> HIDE DEF st
<1>2. requeued(st) = thread_ready_list
  BY <1>1 DEF requeued, preempts, BlockedStatus
<1>3. status[other] = "TASK_READY"
  BY DEF SchedulerInv, OneRunning, TypeOK, task_status
<1>4. other \in elements(thread_ready_list)
  BY <1>3 DEF SchedulerInv, ReadyListExact
<1>5. ~list_empty(requeued(st))
  BY <1>2, <1>4, EmptyElements DEF TypeOK
<1>6. /\ NoPanic'
      /\ \A t \in Task : /\ status'[t] \in BlockedStatus <=> st[t] \in BlockedStatus
                         /\ status'[t] = "TASK_NONE" <=> status[t] = "TASK_NONE"
  BY <1>1, <1>5, ScheduleRuns
<1> QED
  BY <1>1, <1>6

LEMMA UnblockRuns ==
    ASSUME ThreadInv, NoPanic, NEW t \in Task, status[t] \in BlockedStatus,
           thread_unblock(t)
    PROVE  /\ NoPanic'
           /\ status' = [status EXCEPT ![t] = "TASK_READY"]
           /\ UNCHANGED << running, intr >>
<1>1. ~elem_find(thread_ready_list, t)
  BY FindElement DEF ThreadInv, SchedulerInv, ReadyListExact, BlockedStatus
<1> QED
  BY <1>1 DEF thread_unblock, NoPanic

LEMMA ThreadStartRuns ==
    ASSUME ThreadInv, NoPanic, NEW t \in Task, thread_start(t)
    PROVE  /\ NoPanic'
           /\ status' = [status EXCEPT ![t] = "TASK_READY"]
           /\ status[t] = "TASK_NONE"
<1>1. status[t] = "TASK_NONE"
  BY DEF thread_start
<1>2. ~elem_find(thread_ready_list, t) /\ t \notin thread_all_list
  BY <1>1, FindElement DEF ThreadInv, SchedulerInv, ReadyListExact, AllListExact
<1> QED
  BY <1>1, <1>2 DEF thread_start, NoPanic

\* No ASSERT of thread.c fails when main() never blocks.  Without a thread
\* like it ASSERT(!list_empty(&thread_ready_list)) is reachable.
THEOREM NoAssertFails ==
    ASSUME main_thread \in Resident
    PROVE  Spec => []NoPanic
<1>1. Init => NoPanicInv
  BY TaskAssumption, ThreadInit DEF Init, NoPanicInv, NoPanic, BlockedStatus, TaskAssumption
<1>2. NoPanicInv /\ [Next]_vars => NoPanicInv'
  <2> SUFFICES ASSUME NoPanicInv, [Next]_vars
               PROVE  NoPanicInv'
    OBVIOUS
  <2> USE TaskAssumption DEF TaskAssumption
  <2>0. ThreadInv'
    BY ThreadNext DEF NoPanicInv
  <2> USE DEF NoPanicInv
  <2>1. CASE \E t \in Task : thread_start(t)
    <3>1. PICK t \in Task : thread_start(t)
      BY <2>1
    <3>2. /\ NoPanic'
          /\ status' = [status EXCEPT ![t] = "TASK_READY"]
      BY <3>1, ThreadStartRuns
    <3> QED
      BY <2>0, <3>2 DEF ThreadInv, TypeOK, BlockedStatus
  <2>2. CASE intr_disable \/ intr_enable
    BY <2>0, <2>2 DEF intr_disable, intr_enable, set_intr, NoPanic
  <2>3. CASE intr_timer_handler
    BY <2>0, <2>3, TimerRuns
  <2>4. CASE Block
    <3>1. PICK stat \in BlockedStatus : thread_block(stat)
      BY <2>4 DEF Block
    <3>2. running \notin Resident
      BY <2>4 DEF Block
    <3>3. /\ NoPanic'
          /\ \A t \in Task : /\ t # running => (status'[t] \in BlockedStatus
                                                   <=> status[t] \in BlockedStatus)
                             /\ status'[t] = "TASK_NONE" <=> status[t] = "TASK_NONE"
      BY <3>1, <3>2, BlockRuns
    <3> QED
      BY <2>0, <3>2, <3>3
  <2>5. CASE Unblock
    <3>1. PICK t \in Task : status[t] \in BlockedStatus /\ thread_unblock(t)
      BY <2>5 DEF Unblock
    <3>2. /\ NoPanic'
          /\ status' = [status EXCEPT ![t] = "TASK_READY"]
      BY <3>1, UnblockRuns
    <3> QED
      BY <2>0, <3>2 DEF ThreadInv, TypeOK, BlockedStatus
  <2>6. CASE UNCHANGED vars
    BY <2>0, <2>6 DEF vars, NoPanic
  <2> QED
    BY <2>1, <2>2, <2>3, <2>4, <2>5, <2>6 DEF Next
<1>3. NoPanicInv => NoPanic
  BY DEF NoPanicInv
<1> QED
  BY <1>1, <1>2, <1>3, PTL DEF Spec

-----------------------------------------------------------------------------
\* The lock of thread/sync.c, over the scheduler

\* Who may be where: the threads inside the lock's code were started and are
\* lockers.
Located ==
    /\ status[main_thread] # "TASK_NONE"
    /\ \A t \in Task : /\ pc[t] = "boot" => t = main_thread
                       /\ pc[t] \notin {"boot", "spin"} => t \in Lockers
                       /\ pc[t] \notin {"boot", "spin", "outside"}
                            => status[t] # "TASK_NONE"

LockInv == SyncTypeOK /\ MutualExclusion /\ LockExact

WaitInv == Located /\ WaitersExact /\ NoLostWakeup

\* None of the three is inductive alone: the lock's exactness shows that the
\* ASSERTs hold, the waiting list's that sema_up wakes a sleeping thread, and
\* the owner of the lock is the thread schedule() finds when another blocks.
SyncInv == ThreadInv /\ NoPanic /\ LockInv /\ WaitInv

-----------------------------------------------------------------------------
\* The running thread is not blocked and not in the semaphore's list.
LEMMA RunningIsAwake ==
    ASSUME SyncInv
    PROVE  /\ running \in Task
           /\ status[running] = "TASK_RUNNING"
           /\ status[running] \notin BlockedStatus
           /\ running \notin elements(waiters)
BY DEF SyncInv, ThreadInv, TypeOK, SchedulerInv, OneRunning, WaitInv, WaitersExact,
       BlockedStatus

\* sema_up finds a sleeping thread at the head of the list.
LEMMA FirstWaiterSleeps ==
    ASSUME SyncInv, must_wake
    PROVE  /\ list_front(waiters) \in Lockers
           /\ pc[list_front(waiters)] = "loop"
           /\ status[list_front(waiters)] \in BlockedStatus
           /\ still_waiting \in Seq(Task)
           /\ elements(still_waiting) = elements(waiters) \ {list_front(waiters)}
           /\ NoDuplicates(still_waiting)
<1>1. waiters \in Seq(Task) /\ NoDuplicates(waiters)
  BY DEF SyncInv, LockInv, SyncTypeOK, WaitInv, WaitersExact
<1>2. /\ still_waiting \in Seq(Task)
      /\ elements(waiters) = elements(still_waiting) \cup {list_front(waiters)}
      /\ list_front(waiters) \notin elements(still_waiting)
      /\ NoDuplicates(still_waiting)
  BY <1>1, PopElement DEF must_wake, still_waiting
<1> QED
  BY <1>2 DEF SyncInv, WaitInv, WaitersExact

\* While the value is 0 another thread owns the lock, and it is not asleep.
LEMMA OwnerIsAwake ==
    ASSUME SyncInv, NEW t \in Task, pc[t] = "loop", must_wait
    PROVE  \E u \in owners \ {t} : status[u] \notin BlockedStatus \cup {"TASK_NONE"}
<1>1. owners # {}
  BY DEF SyncInv, LockInv, LockExact, must_wait
<1>2. PICK u \in owners : TRUE
  BY <1>1
<1>3. u \in Task /\ pc[u] \in Owning
  BY DEF owners
<1>4. pc[u] \notin {"boot", "spin", "outside", "loop"}
  BY <1>3 DEF Owning
<1>5. status[u] # "TASK_NONE"
  BY <1>3, <1>4 DEF SyncInv, WaitInv, Located
<1>6. u \notin elements(waiters)
  BY <1>4 DEF SyncInv, WaitInv, WaitersExact
<1>7. status[u] \notin BlockedStatus
  BY <1>3, <1>6 DEF SyncInv, WaitInv, WaitersExact
<1> QED
  BY <1>4, <1>5, <1>7

-----------------------------------------------------------------------------
\* What the actions with an ASSERT do, the ASSERT being true.
LEMMA WaitsEffect ==
    ASSUME SyncInv, NEW t \in Task, sema_down_waits(t)
    PROVE  /\ waiters' = list_append(waiters, t)
           /\ thread_block("TASK_BLOCKED")
           /\ UNCHANGED << holder, holder_repeat_nr, value, localvars >>
<1>1. ~elem_find(waiters, t)
  BY RunningIsAwake, FindElement DEF sema_down_waits, at
<1> QED
  BY <1>1 DEF sema_down_waits

LEMMA TakesEffect ==
    ASSUME SyncInv, NEW t \in Task, sema_down_takes(t)
    PROVE  /\ value = 1 /\ value' = 0
           /\ set_intr(old_status[t])
           /\ goto(t, "own")
           /\ UNCHANGED << holder, holder_repeat_nr, waiters, outer_status, old_status >>
<1>1. value = 1
  BY DEF SyncInv, LockInv, SyncTypeOK, sema_down_takes, must_wait
<1> QED
  BY <1>1 DEF sema_down_takes

LEMMA CountsEffect ==
    ASSUME SyncInv, NEW t \in Task, lock_acquire_counts(t)
    PROVE  /\ holder_repeat_nr' = 1
           /\ goto(t, "cs")
           /\ UNCHANGED << vars, holder, value, waiters, outer_status, old_status >>
<1>1. pc[t] = "count"
  BY DEF lock_acquire_counts, at
<1>2. ASSUME NEW u \in Task, pc[u] \in {"cs", "unown", "uncount"}
      PROVE  FALSE
  BY <1>1, <1>2 DEF SyncInv, LockInv, MutualExclusion, owners, Owning
<1>3. holder_repeat_nr = 0
  BY <1>2 DEF SyncInv, LockInv, LockExact, SyncTypeOK
<1> QED
  BY <1>3 DEF lock_acquire_counts

LEMMA ReleaseEffect ==
    ASSUME SyncInv, NEW t \in Task, lock_release(t)
    PROVE  /\ IF holder_repeat_nr > 1
              THEN holder_repeat_nr' = holder_repeat_nr - 1 /\ UNCHANGED pc
              ELSE goto(t, "unown") /\ UNCHANGED holder_repeat_nr
           /\ UNCHANGED << vars, holder, value, waiters, outer_status, old_status >>
<1>1. pc[t] = "cs"
  BY DEF lock_release, at
<1>2. holder = t /\ holder_repeat_nr > 0
  BY <1>1 DEF SyncInv, LockInv, LockExact
<1>3. ~(~holds(t) \/ holder_repeat_nr = 0)
  BY <1>2 DEF holds
<1> QED
  BY <1>3 DEF lock_release

LEMMA UpEffect ==
    ASSUME SyncInv, NEW t \in Task, sema_up(t)
    PROVE  /\ IF must_wake
              THEN waiters' = still_waiting /\ thread_unblock(list_front(waiters))
              ELSE UNCHANGED << vars, waiters >>
           /\ value = 0 /\ value' = 1
           /\ goto(t, IF t \in Masked THEN "masked" ELSE "outside")
           /\ UNCHANGED << holder, holder_repeat_nr, outer_status, old_status >>
<1>1. pc[t] = "up"
  BY DEF sema_up, at
<1>2. t \in owners
  BY <1>1 DEF owners, Owning
<1>3. value = 0
  BY <1>2 DEF SyncInv, LockInv, LockExact, SyncTypeOK
<1> QED
  BY <1>3 DEF sema_up

-----------------------------------------------------------------------------
\* Every step of the kernel is a step of the scheduler, or none.
LEMMA SetIntrIsStep ==
    ASSUME TypeOK, NEW new \in intr_status, set_intr(new)
    PROVE  [Next]_vars
<1>1. CASE new = intr
  BY <1>1 DEF set_intr, vars
<1>2. CASE new = "INTR_OFF" /\ intr = "INTR_ON"
  BY <1>2 DEF Next, intr_disable
<1>3. CASE new = "INTR_ON" /\ intr = "INTR_OFF"
  BY <1>3 DEF Next, intr_enable
<1> QED
  BY <1>1, <1>2, <1>3 DEF TypeOK, intr_status

LEMMA StepImplementsThread ==
    ASSUME SyncInv, [SyncNext]_syncvars
    PROVE  [Next]_vars
<1> USE SyncAssumption DEF SyncAssumption
<1>0. TypeOK /\ SyncTypeOK
  BY DEF SyncInv, ThreadInv, LockInv
<1>1. CASE Boot
  BY <1>1 DEF Boot, main_starts, main_enables, Next
<1>2. CASE timer
  BY <1>2 DEF timer, Next
<1>3. ASSUME NEW t \in Task, Step(t)
      PROVE  [Next]_vars
  <2>1. CASE loop_masks(t)
    BY <1>0, <2>1, SetIntrIsStep DEF loop_masks, intr_status
  <2>2. CASE loop_restores(t)
    BY <1>0, <2>2, SetIntrIsStep DEF loop_restores, SyncTypeOK
  <2>3. CASE sema_down(t)
    BY <1>0, <2>3, SetIntrIsStep DEF sema_down, intr_status
  <2>4. CASE sema_down_waits(t)
    <3>1. t \in Lockers /\ running = t
      BY <2>4 DEF sema_down_waits, at, SyncInv, WaitInv, Located
    <3>2. thread_block("TASK_BLOCKED") /\ running \notin Resident
      BY <2>4, <3>1, WaitsEffect
    <3> QED
      BY <3>2 DEF Next, Block, BlockedStatus
  <2>5. CASE sema_down_takes(t)
    BY <1>0, <2>5, TakesEffect, SetIntrIsStep DEF SyncTypeOK
  <2>6. CASE lock_acquire_counts(t)
    BY <2>6, CountsEffect
  <2>7. CASE lock_release(t)
    BY <2>7, ReleaseEffect
  <2>8. CASE sema_up(t)
    <3>1. CASE must_wake
      <4>1. /\ thread_unblock(list_front(waiters))
            /\ list_front(waiters) \in Task
            /\ status[list_front(waiters)] \in BlockedStatus
        BY <2>8, <3>1, UpEffect, FirstWaiterSleeps
      <4> QED
        BY <4>1 DEF Next, Unblock
    <3>2. CASE ~must_wake
      BY <2>8, <3>2, UpEffect
    <3> QED
      BY <3>1, <3>2
  <2>9. CASE lock_acquire(t) \/ lock_acquire_owns(t) \/ lock_release_disowns(t)
             \/ lock_release_uncounts(t)
    BY <2>9
    DEF lock_acquire, lock_acquire_owns, lock_release_disowns, lock_release_uncounts
  <2> QED
    BY <1>3, <2>1, <2>2, <2>3, <2>4, <2>5, <2>6, <2>7, <2>8, <2>9 DEF Step
<1>4. CASE UNCHANGED syncvars
  BY <1>4 DEF syncvars
<1> QED
  BY <1>1, <1>2, <1>3, <1>4 DEF SyncNext

-----------------------------------------------------------------------------
\* A step that does not touch the lock's variables keeps the lock's invariant
\* when the thread stays on its side of the lock.
LEMMA LockFrame ==
    ASSUME SyncInv, ThreadInv', NEW t \in Task, NEW location \in Location,
           goto(t, location),
           pc[t] \notin Owning, location \notin Owning,
           UNCHANGED lockvars,
           outer_status' \in [Task -> intr_status],
           old_status' \in [Task -> intr_status]
    PROVE  LockInv'
<1> USE DEF SyncInv, LockInv, SyncTypeOK, lockvars, goto
<1>1. /\ pc' = [pc EXCEPT ![t] = location]
      /\ pc \in [Task -> Location]
  OBVIOUS
<1>2. pc' \in [Task -> Location]
  BY <1>1
<1>3. owners' = owners
  BY <1>1 DEF owners, Owning
<1>4. TypeOK'
  BY DEF ThreadInv
<1>5. SyncTypeOK'
  BY <1>2, <1>4
<1>6. MutualExclusion'
  BY <1>3 DEF MutualExclusion
<1>7. LockExact'
  BY <1>1, <1>3 DEF LockExact, Owning
<1> QED
  BY <1>5, <1>6, <1>7

LEMMA LockInvKept ==
    ASSUME SyncInv, ThreadInv', [SyncNext]_syncvars
    PROVE  LockInv'
<1> USE SyncAssumption DEF SyncAssumption
<1>0. /\ TypeOK /\ TypeOK' /\ SyncTypeOK /\ LockInv
      /\ intr \in intr_status
      /\ pc \in [Task -> Location]
  BY DEF SyncInv, ThreadInv, LockInv, TypeOK, SyncTypeOK
<1>1. CASE Boot
  <2>1. CASE main_enables
    BY <1>0, <2>1, TaskAssumption, LockFrame
    DEF main_enables, at, TaskAssumption, Location, Owning, SyncTypeOK, intr_status
  <2>2. CASE \E t \in Task : main_starts(t)
    <3>1. UNCHANGED << lockvars, localvars >>
      BY <2>2 DEF main_starts
    <3> QED
      BY <1>0, <3>1 DEF LockInv, SyncTypeOK, MutualExclusion, LockExact, owners,
                        lockvars, localvars
  <2> QED
    BY <1>1, <2>1, <2>2 DEF Boot
<1>2. CASE timer \/ UNCHANGED syncvars
  <2>1. UNCHANGED << lockvars, localvars >>
    BY <1>2 DEF timer, syncvars
  <2> QED
    BY <1>0, <2>1 DEF LockInv, SyncTypeOK, MutualExclusion, LockExact, owners,
                      lockvars, localvars
<1>3. ASSUME NEW t \in Task, Step(t)
      PROVE  LockInv'
  <2>1. CASE loop_masks(t)
    BY <1>0, <2>1, LockFrame
    DEF loop_masks, at, Location, Owning, SyncTypeOK, intr_status
  <2>2. CASE loop_restores(t)
    BY <1>0, <2>2, LockFrame
    DEF loop_restores, at, Location, Owning, SyncTypeOK, intr_status
  <2>3. CASE sema_down(t)
    BY <1>0, <2>3, LockFrame
    DEF sema_down, at, Location, Owning, SyncTypeOK, intr_status
  <2>4. CASE sema_down_waits(t)
    <3>1. /\ waiters' = list_append(waiters, t)
          /\ UNCHANGED << holder, holder_repeat_nr, value, localvars >>
      BY <2>4, WaitsEffect
    <3>2. waiters' \in Seq(Task)
      BY <1>0, <3>1, AppendElement DEF SyncTypeOK
    <3> QED
      BY <1>0, <3>1, <3>2
      DEF LockInv, SyncTypeOK, MutualExclusion, LockExact, owners, localvars
  <2>5. CASE sema_down_takes(t)
    <3>1. /\ pc[t] = "loop"
          /\ value = 1 /\ value' = 0
          /\ pc' = [pc EXCEPT ![t] = "own"]
          /\ UNCHANGED << holder, holder_repeat_nr, waiters, outer_status, old_status >>
      BY <2>5, TakesEffect DEF sema_down_takes, at, goto
    <3>2. owners = {} /\ owners' = {t}
      BY <1>0, <3>1 DEF LockInv, LockExact, owners, Owning
    <3>3. SyncTypeOK'
      BY <1>0, <3>1 DEF SyncTypeOK, Location
    <3>4. MutualExclusion'
      BY <3>2 DEF MutualExclusion
    <3>5. LockExact'
      BY <1>0, <3>1, <3>2 DEF LockInv, LockExact
    <3> QED
      BY <3>3, <3>4, <3>5 DEF LockInv
  <2>6. CASE lock_acquire(t)
    <3>1. CASE pc[t] = "cs"
      <4>1. /\ holder = t /\ holder_repeat_nr' = holder_repeat_nr + 1
            /\ holder_repeat_nr < MaxNest
            /\ pc' = pc
            /\ UNCHANGED << vars, outer_status, old_status, holder, value, waiters >>
        BY <1>0, <2>6, <3>1 DEF lock_acquire, at, holds, goto, LockInv, LockExact
      <4>2. \A u \in Task : pc[u] \notin {"unown", "uncount"}
        BY <1>0, <3>1 DEF LockInv, MutualExclusion, owners, Owning
      <4>3. holder_repeat_nr' \in 0..MaxNest /\ holder_repeat_nr' > 0
        BY <1>0, <4>1 DEF SyncTypeOK
      <4> QED
        BY <1>0, <3>1, <4>1, <4>2, <4>3
        DEF LockInv, SyncTypeOK, MutualExclusion, LockExact, owners
    <3>2. CASE pc[t] # "cs"
      <4>1. pc[t] \in {"outside", "masked"} /\ holder # t
        BY <1>0, <2>6, <3>2 DEF lock_acquire, at, LockInv, LockExact
      <4>2. goto(t, "down") /\ UNCHANGED << lockvars, outer_status, old_status >>
        BY <2>6, <4>1 DEF lock_acquire, holds, lockvars
      <4> QED
        BY <1>0, <4>1, <4>2, LockFrame DEF Location, Owning, SyncTypeOK
    <3> QED
      BY <3>1, <3>2
  <2>7. CASE lock_acquire_owns(t)
    <3>1. /\ pc[t] = "own"
          /\ holder' = t
          /\ pc' = [pc EXCEPT ![t] = "count"]
          /\ UNCHANGED << holder_repeat_nr, value, waiters, outer_status, old_status >>
      BY <2>7 DEF lock_acquire_owns, at, goto
    <3>2. owners = {t} /\ owners' = {t}
      BY <1>0, <3>1 DEF LockInv, MutualExclusion, owners, Owning
    <3>3. \A u \in Task \ {t} : pc[u] \notin Owning
      BY <3>2 DEF owners
    <3>4. SyncTypeOK'
      BY <1>0, <3>1 DEF SyncTypeOK, Location
    <3>5. LockExact'
      BY <1>0, <3>1, <3>2, <3>3 DEF LockInv, LockExact, Owning
    <3> QED
      BY <3>2, <3>4, <3>5 DEF LockInv, MutualExclusion
  <2>8. CASE lock_acquire_counts(t)
    <3>1. /\ pc[t] = "count"
          /\ holder_repeat_nr' = 1
          /\ pc' = [pc EXCEPT ![t] = "cs"]
          /\ UNCHANGED << holder, value, waiters, outer_status, old_status >>
      BY <2>8, CountsEffect DEF lock_acquire_counts, at, goto
    <3>2. owners = {t} /\ owners' = {t}
      BY <1>0, <3>1 DEF LockInv, MutualExclusion, owners, Owning
    <3>3. \A u \in Task \ {t} : pc[u] \notin Owning
      BY <3>2 DEF owners
    <3>4. SyncTypeOK'
      BY <1>0, <3>1 DEF SyncTypeOK, Location
    <3>5. LockExact'
      BY <1>0, <3>1, <3>2, <3>3 DEF LockInv, LockExact, Owning
    <3> QED
      BY <3>2, <3>4, <3>5 DEF LockInv, MutualExclusion
  <2>9. CASE lock_release(t)
    <3>1. /\ pc[t] = "cs"
          /\ IF holder_repeat_nr > 1
             THEN holder_repeat_nr' = holder_repeat_nr - 1 /\ UNCHANGED pc
             ELSE pc' = [pc EXCEPT ![t] = "unown"] /\ UNCHANGED holder_repeat_nr
          /\ UNCHANGED << holder, value, waiters, outer_status, old_status >>
      BY <2>9, ReleaseEffect DEF lock_release, at, goto
    <3>2. owners = {t} /\ owners' = {t}
      BY <1>0, <3>1 DEF LockInv, MutualExclusion, owners, Owning
    <3>3. \A u \in Task \ {t} : pc[u] \notin Owning
      BY <3>2 DEF owners
    <3>4. holder_repeat_nr > 0 /\ holder_repeat_nr \in 0..MaxNest
      BY <1>0, <3>1 DEF LockInv, LockExact, SyncTypeOK
    <3>5. /\ holder_repeat_nr' \in 0..MaxNest /\ holder_repeat_nr' > 0
          /\ pc'[t] = "unown" => holder_repeat_nr' = 1
      BY <1>0, <3>1, <3>4
    <3>6. SyncTypeOK'
      BY <1>0, <3>1, <3>5 DEF SyncTypeOK, Location
    <3>7. LockExact'
      BY <1>0, <3>1, <3>2, <3>3, <3>5 DEF LockInv, LockExact, Owning
    <3> QED
      BY <3>2, <3>6, <3>7 DEF LockInv, MutualExclusion
  <2>10. CASE lock_release_disowns(t)
    <3>1. /\ pc[t] = "unown"
          /\ holder' = NULL
          /\ pc' = [pc EXCEPT ![t] = "uncount"]
          /\ UNCHANGED << holder_repeat_nr, value, waiters, outer_status, old_status >>
      BY <2>10 DEF lock_release_disowns, at, goto
    <3>2. owners = {t} /\ owners' = {t}
      BY <1>0, <3>1 DEF LockInv, MutualExclusion, owners, Owning
    <3>3. \A u \in Task \ {t} : pc[u] \notin Owning
      BY <3>2 DEF owners
    <3>4. SyncTypeOK'
      BY <1>0, <3>1 DEF SyncTypeOK, Location
    <3>5. LockExact'
      BY <1>0, <3>1, <3>2, <3>3 DEF LockInv, LockExact, Owning
    <3> QED
      BY <3>2, <3>4, <3>5 DEF LockInv, MutualExclusion
  <2>11. CASE lock_release_uncounts(t)
    <3>1. /\ pc[t] = "uncount"
          /\ holder_repeat_nr' = 0
          /\ pc' = [pc EXCEPT ![t] = "up"]
          /\ UNCHANGED << holder, value, waiters, outer_status, old_status >>
      BY <2>11 DEF lock_release_uncounts, at, goto
    <3>2. owners = {t} /\ owners' = {t}
      BY <1>0, <3>1 DEF LockInv, MutualExclusion, owners, Owning
    <3>3. \A u \in Task \ {t} : pc[u] \notin Owning
      BY <3>2 DEF owners
    <3>4. SyncTypeOK'
      BY <1>0, <3>1 DEF SyncTypeOK, Location
    <3>5. LockExact'
      BY <1>0, <3>1, <3>2, <3>3 DEF LockInv, LockExact, Owning
    <3> QED
      BY <3>2, <3>4, <3>5 DEF LockInv, MutualExclusion
  <2>12. CASE sema_up(t)
    <3>1. /\ pc[t] = "up"
          /\ value = 0 /\ value' = 1
          /\ pc' = [pc EXCEPT ![t] = IF t \in Masked THEN "masked" ELSE "outside"]
          /\ UNCHANGED << holder, holder_repeat_nr, outer_status, old_status >>
      BY <2>12, UpEffect DEF sema_up, at, goto
    <3>2. waiters' \in Seq(Task)
      BY <1>0, <2>12, UpEffect, FirstWaiterSleeps DEF SyncTypeOK
    <3>3. owners = {t} /\ owners' = {}
      BY <1>0, <3>1 DEF LockInv, MutualExclusion, owners, Owning
    <3>4. \A u \in Task \ {t} : pc[u] \notin Owning
      BY <3>3 DEF owners
    <3>5. SyncTypeOK'
      BY <1>0, <3>1, <3>2 DEF SyncTypeOK, Location
    <3>6. LockExact'
      BY <1>0, <3>1, <3>3, <3>4 DEF LockInv, LockExact, Owning
    <3> QED
      BY <3>3, <3>5, <3>6 DEF LockInv, MutualExclusion
  <2> QED
    BY <1>3, <2>1, <2>2, <2>3, <2>4, <2>5, <2>6, <2>7, <2>8, <2>9, <2>10, <2>11,
       <2>12 DEF Step
<1> QED
  BY <1>1, <1>2, <1>3 DEF SyncNext

-----------------------------------------------------------------------------
\* A step that blocks and wakes nobody and moves one thread that is outside the
\* semaphore's loop, or none.
LEMMA WaitFrame ==
    ASSUME SyncInv, NoPanic',
           \A u \in Task : /\ status'[u] \in BlockedStatus <=> status[u] \in BlockedStatus
                           /\ status'[u] = "TASK_NONE" => status[u] = "TASK_NONE",
           UNCHANGED waiters,
           NEW t \in Task, NEW location \in Location,
           t \in Lockers \/ location = "spin",
           location # "boot",
           location \in {"outside", "spin"} \/ status[t] # "TASK_NONE",
           pc[t] # "loop",
           pc[t] \in Owning => location \in Owning,
           goto(t, location)
    PROVE  WaitInv'
<1> USE TaskAssumption, SyncAssumption
    DEF TaskAssumption, SyncAssumption, SyncInv, WaitInv
<1>1. /\ pc' = [pc EXCEPT ![t] = location]
      /\ pc \in [Task -> Location]
      /\ t \notin elements(waiters)
  BY DEF goto, LockInv, SyncTypeOK, WaitersExact
<1>2. Located'
  BY <1>1 DEF Located
<1>3. WaitersExact'
  BY <1>1 DEF WaitersExact
<1>4. NoLostWakeup'
  <2>1. owners \subseteq owners'
    BY <1>1 DEF owners
  <2> QED
    BY <1>1, <2>1 DEF NoLostWakeup
<1> QED
  BY <1>2, <1>3, <1>4

\* The same for a step that moves no thread at all.
LEMMA WaitStutter ==
    ASSUME SyncInv,
           \A u \in Task : /\ status'[u] \in BlockedStatus <=> status[u] \in BlockedStatus
                           /\ status'[u] = "TASK_NONE" => status[u] = "TASK_NONE",
           UNCHANGED << waiters, pc >>
    PROVE  WaitInv'
BY TaskAssumption, SyncAssumption
DEF TaskAssumption, SyncAssumption, SyncInv, WaitInv, Located, WaitersExact, NoLostWakeup, owners

LEMMA WaitInvKept ==
    ASSUME SyncInv, ThreadInv', [SyncNext]_syncvars
    PROVE  NoPanic' /\ WaitInv'
<1> USE TaskAssumption, SyncAssumption DEF TaskAssumption, SyncAssumption
<1>0. /\ ThreadInv /\ NoPanic
      /\ status \in [Task -> task_status]
      /\ pc \in [Task -> Location]
      /\ waiters \in Seq(Task)
      /\ WaitersExact /\ NoLostWakeup /\ Located
  BY DEF SyncInv, ThreadInv, LockInv, TypeOK, SyncTypeOK, WaitInv
<1>1. CASE main_enables
  <2>1. /\ NoPanic' /\ status' = status /\ waiters' = waiters
        /\ pc[main_thread] = "boot"
        /\ goto(main_thread, IF main_thread \in Lockers THEN "outside" ELSE "spin")
    BY <1>0, <1>1 DEF main_enables, intr_enable, set_intr, at, lockvars, NoPanic
  <2> QED
    BY <2>1, WaitFrame DEF Location, Owning
<1>2. CASE \E t \in Task : main_starts(t)
  <2>1. PICK t \in Task : thread_start(t) /\ UNCHANGED << waiters, pc >>
    BY <1>2 DEF main_starts, lockvars, localvars
  <2>2. /\ NoPanic'
        /\ status' = [status EXCEPT ![t] = "TASK_READY"]
        /\ status[t] = "TASK_NONE"
    BY <1>0, <2>1, ThreadStartRuns
  <2> QED
    BY <1>0, <2>1, <2>2, WaitStutter DEF BlockedStatus
<1>3. CASE timer
  <2>1. intr_timer_handler /\ UNCHANGED << waiters, pc >>
    BY <1>3 DEF timer, lockvars, localvars
  <2> QED
    BY <1>0, <2>1, TimerRuns, WaitStutter
<1>4. CASE UNCHANGED syncvars
  <2>1. UNCHANGED << status, panicked, waiters, pc >>
    BY <1>4 DEF syncvars, vars, lockvars, localvars
  <2> QED
    BY <1>0, <2>1, WaitStutter DEF NoPanic
<1>5. ASSUME NEW t \in Task, Step(t)
      PROVE  NoPanic' /\ WaitInv'
  <2>0. running = t /\ status[t] \notin BlockedStatus /\ status[t] # "TASK_NONE"
    BY <1>5, RunningIsAwake
    DEF Step, loop_masks, loop_restores, lock_acquire, sema_down, sema_down_waits,
        sema_down_takes, lock_acquire_owns, lock_acquire_counts, lock_release,
        lock_release_disowns, lock_release_uncounts, sema_up, at
  <2>1. CASE loop_masks(t) \/ loop_restores(t) \/ sema_down(t)
    <3>1. /\ NoPanic' /\ status' = status /\ waiters' = waiters
          /\ pc[t] \in {"outside", "masked", "down"}
      BY <1>0, <2>1
      DEF loop_masks, loop_restores, sema_down, set_intr, at, lockvars, NoPanic
    <3>2. PICK location \in {"masked", "outside", "loop"} : goto(t, location)
      BY <2>1 DEF loop_masks, loop_restores, sema_down
    <3>3. t \in Lockers
      BY <1>0, <3>1 DEF Located
    <3> QED
      BY <2>0, <3>1, <3>2, <3>3, WaitFrame DEF Location, Owning
  <2>2. CASE lock_acquire(t)
    <3>1. /\ NoPanic' /\ status' = status /\ waiters' = waiters
          /\ pc[t] \in {"outside", "masked", "cs"}
      BY <1>0, <2>2 DEF lock_acquire, at, vars, NoPanic
    <3>2. pc[t] = "cs" => holds(t)
      BY DEF SyncInv, LockInv, LockExact, holds
    <3>3. PICK location \in {"down", "cs"} :
             goto(t, location) /\ (pc[t] = "cs" => location = "cs")
      BY <2>2, <3>2 DEF lock_acquire
    <3>4. t \in Lockers
      BY <1>0, <3>1 DEF Located
    <3> QED
      BY <2>0, <3>1, <3>3, <3>4, WaitFrame DEF Location, Owning
  <2>3. CASE lock_acquire_owns(t) \/ lock_acquire_counts(t) \/ lock_release(t)
             \/ lock_release_disowns(t) \/ lock_release_uncounts(t)
    <3>1. pc[t] \in {"own", "count", "cs", "unown", "uncount"}
      BY <2>3
      DEF lock_acquire_owns, lock_acquire_counts, lock_release, lock_release_disowns,
          lock_release_uncounts, at
    <3>2. /\ UNCHANGED << vars, waiters >>
          /\ \E location \in Owning : goto(t, location)
      <4>1. CASE lock_release(t)
        <5>1. pc[t] = "cs" /\ pc = [pc EXCEPT ![t] = "cs"]
          BY <1>0, <4>1 DEF lock_release, at
        <5> QED
          BY <4>1, <5>1, ReleaseEffect DEF goto, Owning
      <4>2. CASE lock_acquire_counts(t)
        BY <4>2, CountsEffect DEF Owning
      <4>3. CASE lock_acquire_owns(t) \/ lock_release_disowns(t)
                 \/ lock_release_uncounts(t)
        BY <4>3
        DEF lock_acquire_owns, lock_release_disowns, lock_release_uncounts, Owning
      <4> QED
        BY <2>3, <4>1, <4>2, <4>3
    <3>3. NoPanic' /\ status' = status /\ waiters' = waiters
      BY <1>0, <3>2 DEF vars, NoPanic
    <3>4. t \in Lockers
      BY <1>0, <3>1 DEF Located
    <3> QED
      BY <2>0, <3>1, <3>2, <3>3, <3>4, WaitFrame DEF Location, Owning
  <2>4. CASE sema_down_waits(t)
    <3>1. /\ pc[t] = "loop" /\ must_wait
          /\ waiters' = list_append(waiters, t)
          /\ thread_block("TASK_BLOCKED")
          /\ pc' = pc
      BY <2>4, WaitsEffect DEF sema_down_waits, at, localvars
    <3>2. PICK u \in owners \ {t} : status[u] \notin BlockedStatus \cup {"TASK_NONE"}
      BY <3>1, OwnerIsAwake
    <3>3. u \in Task \ {running}
      BY <2>0, <3>2 DEF owners
    <3>4. /\ NoPanic'
          /\ status'[t] \in BlockedStatus
          /\ \A v \in Task : /\ v # t => (status'[v] \in BlockedStatus
                                            <=> status[v] \in BlockedStatus)
                             /\ status'[v] = "TASK_NONE" <=> status[v] = "TASK_NONE"
      <4>1. "TASK_BLOCKED" \in BlockedStatus
        BY DEF BlockedStatus
      <4> QED
        BY <1>0, <2>0, <3>1, <3>2, <3>3, <4>1, BlockRuns
    <3>5. t \notin elements(waiters)
      BY <2>0, RunningIsAwake
    <3>6. /\ elements(waiters') = elements(waiters) \cup {t}
          /\ NoDuplicates(waiters')
      BY <1>0, <3>1, <3>5, AppendElement DEF WaitersExact
    <3>7. t \in Lockers
      BY <1>0, <3>1 DEF Located
    <3>8. Located'
      BY <1>0, <3>1, <3>4 DEF Located
    <3>9. WaitersExact'
      BY <1>0, <3>1, <3>4, <3>6, <3>7 DEF WaitersExact
    <3>10. NoLostWakeup'
      BY <3>1, <3>2 DEF NoLostWakeup, owners
    <3> QED
      BY <3>4, <3>8, <3>9, <3>10 DEF WaitInv
  <2>5. CASE sema_down_takes(t)
    <3>1. /\ pc[t] = "loop"
          /\ NoPanic' /\ status' = status /\ waiters' = waiters
          /\ pc' = [pc EXCEPT ![t] = "own"]
      BY <1>0, <2>5, TakesEffect DEF sema_down_takes, at, set_intr, NoPanic, goto
    <3>2. t \notin elements(waiters)
      BY <2>0, RunningIsAwake
    <3>3. Located'
      BY <1>0, <2>0, <3>1 DEF Located
    <3>4. WaitersExact'
      BY <1>0, <3>1, <3>2 DEF WaitersExact
    <3>5. t \in owners'
      BY <1>0, <3>1 DEF owners, Owning
    <3> QED
      BY <3>1, <3>3, <3>4, <3>5 DEF WaitInv, NoLostWakeup
  <2>6. CASE sema_up(t)
    <3>1. /\ pc[t] = "up"
          /\ pc' = [pc EXCEPT ![t] = IF t \in Masked THEN "masked" ELSE "outside"]
          /\ IF must_wake
             THEN waiters' = still_waiting /\ thread_unblock(list_front(waiters))
             ELSE UNCHANGED << vars, waiters >>
      BY <2>6, UpEffect DEF sema_up, at, goto
    <3>2. t \in Lockers /\ t \notin elements(waiters)
      BY <1>0, <3>1 DEF Located, WaitersExact
    <3>3. CASE must_wake
      <4> DEFINE w == list_front(waiters)
      <4>1. /\ w \in Lockers /\ pc[w] = "loop" /\ status[w] \in BlockedStatus
            /\ waiters' \in Seq(Task)
            /\ elements(waiters') = elements(waiters) \ {w}
            /\ NoDuplicates(waiters')
        BY <3>1, <3>3, FirstWaiterSleeps
      <4>2. /\ NoPanic'
            /\ status' = [status EXCEPT ![w] = "TASK_READY"]
        BY <1>0, <3>1, <3>3, <4>1, UnblockRuns
      <4> HIDE DEF w
      <4>3. Located'
        BY <1>0, <2>0, <3>1, <3>2, <4>1, <4>2 DEF Located
      <4>4. WaitersExact'
        BY <1>0, <3>1, <3>2, <4>1, <4>2 DEF WaitersExact, BlockedStatus
      <4>5. pc'[w] = "loop" /\ status'[w] \notin BlockedStatus
        BY <1>0, <3>1, <4>1, <4>2 DEF BlockedStatus
      <4> QED
        BY <4>1, <4>2, <4>3, <4>4, <4>5 DEF WaitInv, NoLostWakeup
    <3>4. CASE ~must_wake
      <4>1. /\ NoPanic' /\ status' = status
            /\ waiters = << >> /\ waiters' = << >>
        BY <1>0, <3>1, <3>4 DEF vars, NoPanic, must_wake, list_empty
      <4>2. Located'
        BY <1>0, <2>0, <3>1, <3>2, <4>1 DEF Located
      <4>3. WaitersExact'
        BY <1>0, <3>1, <3>2, <4>1 DEF WaitersExact
      <4> QED
        BY <4>1, <4>2, <4>3 DEF WaitInv, NoLostWakeup
    <3> QED
      BY <3>3, <3>4
  <2> QED
    BY <1>5, <2>1, <2>2, <2>3, <2>4, <2>5, <2>6 DEF Step
<1> QED
  BY <1>1, <1>2, <1>3, <1>4, <1>5 DEF SyncNext, Boot

-----------------------------------------------------------------------------
LEMMA SyncInitInv == SyncInit => Init /\ SyncInv
<1> SUFFICES ASSUME SyncInit
             PROVE  SyncInv
  BY DEF SyncInit
<1> USE TaskAssumption, SyncAssumption DEF TaskAssumption, SyncAssumption, SyncInit
<1>1. ThreadInv
  BY ThreadInit
<1>2. /\ pc \in [Task -> Location]
      /\ \A t \in Task : pc[t] \in {"boot", "outside", "spin"}
  BY DEF Location
<1>3. SyncTypeOK
  <2>1. /\ outer_status \in [Task -> intr_status]
        /\ old_status \in [Task -> intr_status]
    BY DEF intr_status
  <2>2. holder_repeat_nr \in 0..MaxNest /\ value \in 0..1
    OBVIOUS
  <2>3. waiters \in Seq(Task)
    OBVIOUS
  <2> QED
    BY <1>1, <1>2, <2>1, <2>2, <2>3 DEF SyncTypeOK, ThreadInv
<1>4. owners = {} /\ elements(waiters) = {} /\ NoDuplicates(waiters)
  BY <1>2 DEF owners, Owning, elements, NoDuplicates
<1>5. MutualExclusion /\ LockExact
  BY <1>2, <1>4 DEF MutualExclusion, LockExact
<1>6. Located
  BY DEF Located, Init
<1>7. WaitersExact /\ NoLostWakeup
  BY <1>4 DEF WaitersExact, NoLostWakeup, Init, BlockedStatus
<1>8. NoPanic
  BY DEF Init, NoPanic
<1> QED
  BY <1>1, <1>3, <1>5, <1>6, <1>7, <1>8 DEF SyncInv, LockInv, WaitInv

LEMMA SyncInvNext == SyncInv /\ [SyncNext]_syncvars => [Next]_vars /\ SyncInv'
<1> SUFFICES ASSUME SyncInv, [SyncNext]_syncvars
             PROVE  [Next]_vars /\ SyncInv'
  OBVIOUS
<1>1. [Next]_vars
  BY StepImplementsThread
<1>2. ThreadInv'
  BY <1>1, ThreadNext DEF SyncInv
<1>3. LockInv'
  BY <1>2, LockInvKept
<1>4. NoPanic' /\ WaitInv'
  BY <1>2, WaitInvKept
<1> QED
  BY <1>1, <1>2, <1>3, <1>4 DEF SyncInv

THEOREM SyncCorrect == SyncSpec => []SyncInv
BY SyncInitInv, SyncInvNext, PTL DEF SyncSpec

\* At most one thread is between lock_acquire and lock_release, whatever the
\* interleaving.
THEOREM LockExcludes == SyncSpec => []MutualExclusion
<1>1. SyncInv => MutualExclusion
  BY DEF SyncInv, LockInv
<1> QED
  BY <1>1, SyncCorrect, PTL

\* value, holder and holder_repeat_nr say at every instruction which thread owns
\* the lock: lock_acquire may look at holder without any protection.
THEOREM LockBooksExact == SyncSpec => []LockExact
<1>1. SyncInv => LockExact
  BY DEF SyncInv, LockInv
<1> QED
  BY <1>1, SyncCorrect, PTL

\* The semaphore's list is exactly the threads asleep in sema_down, each once.
THEOREM WaitersAreExact == SyncSpec => []WaitersExact
<1>1. SyncInv => WaitersExact
  BY DEF SyncInv, WaitInv
<1> QED
  BY <1>1, SyncCorrect, PTL

\* While threads are asleep the lock is owned or a woken thread is on its way.
THEOREM NoWakeupIsLost == SyncSpec => []NoLostWakeup
<1>1. SyncInv => NoLostWakeup
  BY DEF SyncInv, WaitInv
<1> QED
  BY <1>1, SyncCorrect, PTL

\* No ASSERT of sync.c or thread.c fails, also when every thread of the system
\* uses the lock: a thread that blocks leaves the owner of the lock runnable.
THEOREM LockNeverPanics == SyncSpec => []NoPanic
<1>1. SyncInv => NoPanic
  BY DEF SyncInv
<1> QED
  BY <1>1, SyncCorrect, PTL

\* Threads that use the lock are threads as the scheduler expects them.
THEOREM SyncImplementsThread == SyncSpec => ImplementsThread
BY SyncInitInv, SyncInvNext, SyncCorrect, PTL DEF SyncSpec, ImplementsThread, Spec

-----------------------------------------------------------------------------
\* The IF a thread has, or had when it left the processor, by where it is.
flag(t) ==
    IF \/ pc[t] \in {"boot", "masked", "loop"}
       \/ t \in Masked /\ pc[t] # "outside"
    THEN "INTR_OFF" ELSE "INTR_ON"

\* The saved statuses are the ones the code between saving and restoring needs.
FlagInv ==
    /\ intr = flag(running)
    /\ \A t \in Task :
          /\ t # running => saved_intr[t] = flag(t)
          /\ pc[t] = "masked" => t \in Masked
          /\ outer_status[t] = "INTR_ON"
          /\ pc[t] = "loop" =>
                old_status[t] = IF t \in Masked THEN "INTR_OFF" ELSE "INTR_ON"

\* The running thread moves on and stays on the processor.
LEMMA FlagMove ==
    ASSUME SyncInv, FlagInv, NEW location \in Location,
           pc' = [pc EXCEPT ![running] = location],
           UNCHANGED << running, saved_intr >>,
           intr' = flag(running)',
           \A t \in Task \ {running} :
              UNCHANGED << outer_status[t], old_status[t] >>,
           outer_status'[running] = "INTR_ON",
           location = "masked" => running \in Masked,
           location = "loop" =>
              old_status'[running] = IF running \in Masked THEN "INTR_OFF" ELSE "INTR_ON"
    PROVE  FlagInv'
<1>1. running \in Task /\ pc \in [Task -> Location]
  BY RunningIsAwake DEF SyncInv, LockInv, SyncTypeOK
<1>2. \A t \in Task \ {running} : pc'[t] = pc[t] /\ flag(t)' = flag(t)
  BY <1>1 DEF flag
<1>3. pc'[running] = location
  BY <1>1
<1> QED
  BY <1>1, <1>2, <1>3 DEF FlagInv

\* Another thread gets the processor, and the IF it left it with.
LEMMA FlagSwitch ==
    ASSUME SyncInv, FlagInv, NEW st, NEW si, schedule(st, si), NoPanic',
           si = flag(running), running' \in Task,
           UNCHANGED << pc, outer_status, old_status >>
    PROVE  FlagInv'
<1>1. running \in Task /\ saved_intr \in [Task -> intr_status]
  BY RunningIsAwake DEF SyncInv, ThreadInv, TypeOK
<1>2. /\ saved_intr' = [saved_intr EXCEPT ![running] = si]
      /\ intr' = saved_intr'[running']
  BY DEF schedule, panic_spin, NoPanic
<1>3. \A t \in Task : saved_intr'[t] = flag(t)
  BY <1>1, <1>2 DEF FlagInv
<1>4. \A t \in Task : flag(t)' = flag(t)
  BY DEF flag
<1> QED
  BY <1>2, <1>3, <1>4 DEF FlagInv

LEMMA FlagKept ==
    ASSUME SyncInv, SyncInv', FlagInv, [SyncNext]_syncvars
    PROVE  FlagInv'
<1> USE SyncAssumption, TaskAssumption DEF SyncAssumption, TaskAssumption
<1>0. /\ NoPanic /\ NoPanic' /\ running \in Task /\ running' \in Task
      /\ pc \in [Task -> Location] /\ old_status \in [Task -> intr_status]
      /\ outer_status \in [Task -> intr_status]
  BY DEF SyncInv, ThreadInv, TypeOK, LockInv, SyncTypeOK
<1>1. CASE main_enables
  <2>1. /\ running = main_thread /\ intr' = "INTR_ON"
        /\ pc' = [pc EXCEPT ![running] =
                     IF main_thread \in Lockers THEN "outside" ELSE "spin"]
        /\ UNCHANGED << running, saved_intr, outer_status, old_status >>
    BY <1>1 DEF main_enables, at, goto, intr_enable, set_intr
  <2>2. flag(running)' = "INTR_ON"
    BY <1>0, <2>1 DEF flag
  <2> QED
    BY <1>0, <2>1, <2>2, FlagMove DEF Location, FlagInv
<1>2. CASE \E t \in Task : main_starts(t)
  <2>1. UNCHANGED << running, intr, saved_intr, pc, outer_status, old_status >>
    BY <1>0, <1>2 DEF main_starts, thread_start, panic_spin, NoPanic, localvars
  <2> QED
    BY <2>1 DEF FlagInv, flag
<1>3. CASE timer
  <2>1. UNCHANGED << pc, outer_status, old_status >> /\ intr = "INTR_ON"
    BY <1>3 DEF timer, localvars, intr_timer_handler
  <2>2. CASE slice_expired
    <3>1. schedule(status, "INTR_ON")
      BY <1>3, <2>2 DEF timer, intr_timer_handler
    <3> QED
      BY <1>0, <2>1, <3>1, FlagSwitch DEF FlagInv
  <2>3. CASE ~slice_expired
    <3>1. UNCHANGED << running, intr, saved_intr >>
      BY <1>3, <2>3 DEF timer, intr_timer_handler
    <3> QED
      BY <2>1, <3>1 DEF FlagInv, flag
  <2> QED
    BY <2>2, <2>3
<1>4. ASSUME NEW t \in Task, Step(t)
      PROVE  FlagInv'
  <2>1. CASE loop_masks(t)
    <3>1. /\ running = t /\ t \in Masked /\ pc[t] = "outside" /\ intr' = "INTR_OFF"
          /\ outer_status' = [outer_status EXCEPT ![t] = intr]
          /\ pc' = [pc EXCEPT ![running] = "masked"]
          /\ UNCHANGED << running, saved_intr, old_status >>
      BY <2>1 DEF loop_masks, at, goto, set_intr
    <3>2. intr = "INTR_ON" /\ flag(running)' = "INTR_OFF"
      BY <1>0, <3>1 DEF FlagInv, flag
    <3> QED
      BY <1>0, <3>1, <3>2, FlagMove DEF Location, FlagInv
  <2>2. CASE loop_restores(t)
    <3>1. /\ running = t /\ pc[t] = "masked" /\ intr' = outer_status[t]
          /\ pc' = [pc EXCEPT ![running] = "outside"]
          /\ UNCHANGED << running, saved_intr, outer_status, old_status >>
      BY <2>2 DEF loop_restores, at, goto, set_intr
    <3>2. intr' = "INTR_ON" /\ flag(running)' = "INTR_ON"
      BY <1>0, <3>1 DEF FlagInv, flag
    <3> QED
      BY <1>0, <3>1, <3>2, FlagMove DEF Location, FlagInv
  <2>3. CASE lock_acquire(t)
    <3>1. PICK location \in {"down", "cs"} :
             /\ pc' = [pc EXCEPT ![running] = location]
             /\ UNCHANGED << running, saved_intr, intr, outer_status, old_status >>
      BY <2>3 DEF lock_acquire, at, goto, vars
    <3>2. /\ running = t
          /\ \/ pc[t] = "outside" /\ t \notin Masked
             \/ pc[t] \in {"masked", "cs"}
      BY <2>3 DEF lock_acquire, at
    <3>3. flag(running)' = flag(running)
      BY <1>0, <3>1, <3>2 DEF FlagInv, flag
    <3>4. intr' = flag(running)'
      BY <3>1, <3>3 DEF FlagInv
    <3> QED
      BY <1>0, <3>1, <3>4, FlagMove DEF Location, FlagInv
  <2>4. CASE sema_down(t)
    <3>1. /\ running = t /\ pc[t] = "down" /\ intr' = "INTR_OFF"
          /\ old_status' = [old_status EXCEPT ![t] = intr]
          /\ pc' = [pc EXCEPT ![running] = "loop"]
          /\ UNCHANGED << running, saved_intr, outer_status >>
      BY <2>4 DEF sema_down, at, goto, set_intr
    <3>2. /\ intr = IF t \in Masked THEN "INTR_OFF" ELSE "INTR_ON"
          /\ flag(running)' = "INTR_OFF"
      BY <1>0, <3>1 DEF FlagInv, flag
    <3> QED
      BY <1>0, <3>1, <3>2, FlagMove DEF Location, FlagInv
  <2>5. CASE sema_down_waits(t)
    <3>1. /\ schedule([status EXCEPT ![running] = "TASK_BLOCKED"], intr)
          /\ UNCHANGED << pc, outer_status, old_status >>
      BY <2>5, WaitsEffect DEF thread_block, localvars
    <3> QED
      BY <1>0, <3>1, FlagSwitch DEF FlagInv
  <2>6. CASE sema_down_takes(t)
    <3>1. /\ running = t /\ pc[t] = "loop" /\ intr' = old_status[t]
          /\ pc' = [pc EXCEPT ![running] = "own"]
          /\ UNCHANGED << running, saved_intr, outer_status, old_status >>
      BY <2>6, TakesEffect DEF sema_down_takes, at, goto, set_intr
    <3>2. intr' = flag(running)'
      BY <1>0, <3>1 DEF FlagInv, flag
    <3> QED
      BY <1>0, <3>1, <3>2, FlagMove DEF Location, FlagInv
  <2>7. CASE lock_release(t)
    <3>1. /\ running = t /\ pc[t] = "cs"
          /\ UNCHANGED << running, saved_intr, intr, outer_status, old_status >>
          /\ pc' = pc \/ pc' = [pc EXCEPT ![running] = "unown"]
      BY <2>7, ReleaseEffect DEF lock_release, at, goto, vars
    <3>2. CASE pc' = pc
      BY <3>1, <3>2 DEF FlagInv, flag
    <3>3. CASE pc' = [pc EXCEPT ![running] = "unown"]
      <4>1. intr' = flag(running)'
        BY <1>0, <3>1, <3>3 DEF FlagInv, flag
      <4> QED
        BY <1>0, <3>1, <3>3, <4>1, FlagMove DEF Location, FlagInv
    <3> QED
      BY <3>1, <3>2, <3>3
  <2>8. CASE lock_acquire_owns(t) \/ lock_acquire_counts(t) \/ lock_release_disowns(t)
             \/ lock_release_uncounts(t)
    <3>1. PICK location \in {"count", "cs", "uncount", "up"} :
             /\ running = t /\ pc[t] \in {"own", "count", "unown", "uncount"}
             /\ pc' = [pc EXCEPT ![running] = location]
             /\ UNCHANGED << running, saved_intr, intr, outer_status, old_status >>
      BY <2>8, CountsEffect
      DEF lock_acquire_owns, lock_acquire_counts, lock_release_disowns,
          lock_release_uncounts, at, goto, vars
    <3>2. intr' = flag(running)'
      BY <1>0, <3>1 DEF FlagInv, flag
    <3> QED
      BY <1>0, <3>1, <3>2, FlagMove DEF Location, FlagInv
  <2>9. CASE sema_up(t)
    <3>1. /\ running = t /\ pc[t] = "up"
          /\ UNCHANGED << outer_status, old_status >>
          /\ pc' = [pc EXCEPT ![running] = IF t \in Masked THEN "masked" ELSE "outside"]
      BY <2>9, UpEffect DEF sema_up, at, goto
    <3>2. UNCHANGED << running, saved_intr, intr >>
      BY <1>0, <2>9, UpEffect DEF thread_unblock, panic_spin, NoPanic, vars
    <3>3. intr' = flag(running)'
      BY <1>0, <3>1, <3>2 DEF FlagInv, flag
    <3> QED
      BY <1>0, <3>1, <3>2, <3>3, FlagMove DEF Location, FlagInv
  <2> QED
    BY <1>4, <2>1, <2>2, <2>3, <2>4, <2>5, <2>6, <2>7, <2>8, <2>9 DEF Step
<1>5. CASE UNCHANGED syncvars
  BY <1>5 DEF syncvars, vars, localvars, FlagInv, flag
<1> QED
  BY <1>1, <1>2, <1>3, <1>4, <1>5 DEF SyncNext, Boot

\* IF is what the code at hand asks for at every instruction, through every
\* sleep and every preemption: the statuses that nested intr_disable calls save
\* and that schedule() carries over are restored to the right thread.
THEOREM InterruptsAreDisciplined == SyncSpec => []InterruptDiscipline
<1>1. SyncInit => FlagInv
  BY SyncAssumption, TaskAssumption
  DEF SyncAssumption, TaskAssumption, SyncInit, Init, FlagInv, flag
<1>2. FlagInv => InterruptDiscipline
  BY DEF FlagInv, flag, InterruptDiscipline
<1> QED
  BY <1>1, <1>2, SyncInitInv, SyncInvNext, FlagKept, PTL DEF SyncSpec

-----------------------------------------------------------------------------
\* The lock's owner, as its callers see it, is the thread inside.
OwnerBooks ==
    /\ \A t \in Task : pc[t] \in Inside <=> lock_owner = t
    /\ lock_owner \in Task \cup {NULL}

LEMMA OwnerIsInside == SyncInv => OwnerBooks
<1> SUFFICES ASSUME SyncInv
             PROVE  OwnerBooks
  OBVIOUS
<1>1. \A t, u \in Task : pc[t] \in Inside /\ pc[u] \in Inside => t = u
  BY DEF SyncInv, LockInv, MutualExclusion, owners, Owning, Inside
<1>2. CASE \E t \in Task : pc[t] \in Inside
  <2>1. lock_owner \in Task /\ pc[lock_owner] \in Inside
    BY <1>2 DEF lock_owner
  <2> QED
    BY <1>1, <2>1 DEF OwnerBooks
<1>3. CASE ~ \E t \in Task : pc[t] \in Inside
  BY <1>3, SyncAssumption DEF SyncAssumption, lock_owner, OwnerBooks
<1> QED
  BY <1>2, <1>3

\* Nobody enters or leaves, and nobody begins to wait.
LEMMA SameOwner ==
    ASSUME SyncInv, SyncInv',
           UNCHANGED holder_repeat_nr,
           \A t \in Task : /\ pc'[t] \in Inside <=> pc[t] \in Inside
                           /\ t \in acquiring' <=> t \in acquiring
    PROVE  UNCHANGED << lock_owner, holder_repeat_nr, acquiring >>
<1>1. OwnerBooks'
  BY OwnerIsInside, PTL
<1>2. lock_owner' = lock_owner
  BY <1>1, OwnerIsInside DEF OwnerBooks
<1>3. acquiring' = acquiring
  <2>1. acquiring \subseteq Task /\ acquiring' \subseteq Task
    BY DEF acquiring
  <2> QED
    BY <2>1
<1> QED
  BY <1>2, <1>3

LEMMA StepImplementsLock ==
    ASSUME SyncInv, SyncInv', [SyncNext]_syncvars
    PROVE  [Abstract!Next]_(Abstract!vars)
<1> USE SyncAssumption, TaskAssumption DEF SyncAssumption, TaskAssumption, Inside
<1>0. /\ NoPanic /\ pc \in [Task -> Location]
      /\ holder_repeat_nr \in 0..MaxNest
      /\ \A t \in Task : pc[t] \in Inside <=> lock_owner = t
      /\ lock_owner \in Task \cup {NULL}
      /\ MutualExclusion /\ LockExact
  BY OwnerIsInside DEF OwnerBooks, SyncInv, LockInv, SyncTypeOK
<1>1. /\ \A t \in Task : pc'[t] \in Inside <=> lock_owner' = t
      /\ lock_owner' \in Task \cup {NULL}
  <2>1. OwnerBooks'
    BY OwnerIsInside, PTL
  <2> QED
    BY <2>1 DEF OwnerBooks
<1>2. CASE Boot \/ timer \/ UNCHANGED syncvars
  <2>1. \A t \in Task : /\ pc'[t] \in Inside <=> pc[t] \in Inside
                        /\ t \in acquiring' <=> t \in acquiring
    BY <1>0, <1>2
    DEF Boot, main_enables, main_starts, at, timer, syncvars, localvars, goto, acquiring
  <2>2. UNCHANGED holder_repeat_nr
    BY <1>2
    DEF Boot, main_enables, main_starts, timer, syncvars, lockvars
  <2> QED
    BY <2>1, <2>2, SameOwner DEF Abstract!vars
<1>3. ASSUME NEW t \in Task, Step(t)
      PROVE  [Abstract!Next]_(Abstract!vars)
  <2>1. CASE loop_masks(t) \/ loop_restores(t) \/ sema_down(t) \/ sema_down_takes(t)
             \/ lock_acquire_owns(t) \/ lock_release_disowns(t) \/ sema_up(t)
    <3>1. /\ UNCHANGED holder_repeat_nr
          /\ \E location \in Location :
                /\ pc' = [pc EXCEPT ![t] = location]
                /\ location \in Inside <=> pc[t] \in Inside
                /\ location \in {"down", "loop", "own", "count"}
                      <=> pc[t] \in {"down", "loop", "own", "count"}
      BY <1>0, <2>1, TakesEffect, UpEffect
      DEF loop_masks, loop_restores, sema_down, sema_down_takes, lock_acquire_owns,
          lock_release_disowns, sema_up, at, goto, lockvars, Location
    <3>2. \A u \in Task : /\ pc'[u] \in Inside <=> pc[u] \in Inside
                          /\ u \in acquiring' <=> u \in acquiring
      BY <1>0, <3>1 DEF acquiring
    <3> QED
      BY <3>1, <3>2, SameOwner DEF Abstract!vars
  <2>2. CASE sema_down_waits(t)
    BY <2>2, WaitsEffect, SameOwner DEF localvars, Abstract!vars, acquiring
  <2>3. CASE lock_acquire(t)
    <3>1. CASE pc[t] = "cs"
      <4>1. holder_repeat_nr' = holder_repeat_nr + 1 /\ pc' = [pc EXCEPT ![t] = "cs"]
        BY <1>0, <2>3, <3>1 DEF lock_acquire, at, holds, goto, LockExact
      <4>2. pc' = pc /\ lock_owner' = t /\ lock_owner = t
        BY <1>0, <1>1, <3>1, <4>1
      <4>3. acquiring' = acquiring
        BY <4>2 DEF acquiring
      <4>4. Abstract!reacquire(t)
        BY <4>1, <4>2, <4>3 DEF Abstract!reacquire
      <4> QED
        BY <4>4 DEF Abstract!Next
    <3>2. CASE pc[t] # "cs"
      <4>1. pc[t] \in {"outside", "masked"} /\ holder # t
        BY <1>0, <2>3, <3>2 DEF lock_acquire, at, LockExact
      <4>2. pc' = [pc EXCEPT ![t] = "down"] /\ UNCHANGED holder_repeat_nr
        BY <2>3, <4>1 DEF lock_acquire, holds, goto
      <4>3. lock_owner' = lock_owner /\ lock_owner # t
        BY <1>0, <1>1, <4>1, <4>2
      <4>4. acquiring' = acquiring \cup {t} /\ t \notin acquiring
        BY <1>0, <4>1, <4>2 DEF acquiring
      <4>5. Abstract!request(t)
        BY <4>2, <4>3, <4>4 DEF Abstract!request
      <4> QED
        BY <4>5 DEF Abstract!Next
    <3> QED
      BY <3>1, <3>2
  <2>4. CASE lock_acquire_counts(t)
    <3>1. /\ pc[t] = "count"
          /\ holder_repeat_nr' = 1
          /\ pc' = [pc EXCEPT ![t] = "cs"]
      BY <2>4, CountsEffect DEF lock_acquire_counts, at, goto
    <3>2. \A u \in Task : pc[u] \notin Inside
      BY <1>0, <3>1 DEF MutualExclusion, owners, Owning
    <3>3. lock_owner = NULL /\ lock_owner' = t
      BY <1>0, <1>1, <3>1, <3>2
    <3>4. t \in acquiring /\ acquiring' = acquiring \ {t}
      BY <1>0, <3>1 DEF acquiring
    <3>5. Abstract!acquire(t)
      BY <3>1, <3>3, <3>4 DEF Abstract!acquire
    <3> QED
      BY <3>5 DEF Abstract!Next
  <2>5. CASE lock_release(t)
    <3>1. /\ pc[t] = "cs"
          /\ IF holder_repeat_nr > 1
             THEN holder_repeat_nr' = holder_repeat_nr - 1 /\ UNCHANGED pc
             ELSE pc' = [pc EXCEPT ![t] = "unown"] /\ UNCHANGED holder_repeat_nr
      BY <2>5, ReleaseEffect DEF lock_release, at, goto
    <3>2. CASE holder_repeat_nr > 1
      <4>1. lock_owner = t /\ lock_owner' = t /\ acquiring' = acquiring
        BY <1>0, <1>1, <3>1, <3>2 DEF acquiring
      <4>2. Abstract!release(t)
        BY <1>0, <3>1, <3>2, <4>1 DEF Abstract!release
      <4> QED
        BY <4>2 DEF Abstract!Next
    <3>3. CASE ~ (holder_repeat_nr > 1)
      BY <1>0, <3>1, <3>3, SameOwner DEF Abstract!vars, acquiring
    <3> QED
      BY <3>2, <3>3
  <2>6. CASE lock_release_uncounts(t)
    <3>1. /\ pc[t] = "uncount"
          /\ holder_repeat_nr = 1 /\ holder_repeat_nr' = 0
          /\ pc' = [pc EXCEPT ![t] = "up"]
      BY <1>0, <2>6 DEF lock_release_uncounts, at, goto, LockExact
    <3>2. \A u \in Task \ {t} : pc[u] \notin Inside
      BY <1>0, <3>1 DEF MutualExclusion, owners, Owning
    <3>3. lock_owner = t /\ lock_owner' = NULL
      BY <1>0, <1>1, <3>1, <3>2
    <3>4. acquiring' = acquiring
      BY <1>0, <3>1 DEF acquiring
    <3>5. Abstract!release(t)
      BY <3>1, <3>3, <3>4 DEF Abstract!release
    <3> QED
      BY <3>5 DEF Abstract!Next
  <2> QED
    BY <1>3, <2>1, <2>2, <2>3, <2>4, <2>5, <2>6 DEF Step
<1> QED
  BY <1>2, <1>3 DEF SyncNext

\* The semaphore, its list, IF and the scheduler together are a recursive lock:
\* one owner at a time, that gets the lock when it is free and as often as it
\* asks, and gives it up with its last release.
THEOREM SyncImplementsLock == SyncSpec => ImplementsLock
<1>1. SyncInit => Abstract!Init
  <2> SUFFICES ASSUME SyncInit
               PROVE  lock_owner = NULL /\ holder_repeat_nr = 0 /\ acquiring = {}
    BY DEF Abstract!Init
  <2>1. \A t \in Task : pc[t] \in {"boot", "outside", "spin"}
    BY DEF SyncInit
  <2> QED
    BY <2>1 DEF SyncInit, lock_owner, acquiring, Inside
<1> QED
  BY <1>1, SyncInitInv, SyncInvNext, StepImplementsLock, PTL
  DEF SyncSpec, ImplementsLock, Abstract!Spec

-----------------------------------------------------------------------------
\* The ring buffer of device/ioqueue.c, over the scheduler

Clients == Consumers \cup Producers

IoqLocation == {"boot", "outside", "test", "lockwait", "asleep", "leave"}

\* Who may be where, and who may be recorded where.
IoqLocated ==
    /\ status[main_thread] # "TASK_NONE"
    /\ ioq_pc \in [Task -> IoqLocation]
    /\ \A t \in Task : /\ ioq_pc[t] = "boot" => t = main_thread
                       /\ ioq_pc[t] \notin {"boot", "outside"}
                            => t \in Clients /\ status[t] # "TASK_NONE"
    /\ consumer \in Consumers \cup {NONE}
    /\ producer \in Producers \cup {NONE}
    /\ qholder \in Clients \cup {NONE}
    /\ qwaiters \in Seq(Clients)
    /\ \A t \in elements(qwaiters) : ioq_pc[t] = "lockwait"

\* NoPanic is part of it: a thread that blocks leaves main() to run, and
\* ioq_wait finds nobody recorded because it finds the lock free.
SleepInv == ThreadInv /\ NoPanic /\ IoqLocated /\ SleepersExact

-----------------------------------------------------------------------------
\* The three places a thread can sleep in are distinct.
LEMMA SleepersApart ==
    ASSUME SleepInv
    PROVE  /\ \A t \in Task : status[t] \in BlockedStatus <=>
                 t \in ({consumer, producer} \ {NONE}) \cup elements(qwaiters)
           /\ consumer # NONE => /\ consumer \in Task /\ qholder = consumer
                                 /\ ioq_pc[consumer] = "asleep"
                                 /\ producer = NONE
           /\ producer # NONE => /\ producer \in Task /\ qholder = producer
                                 /\ ioq_pc[producer] = "asleep"
                                 /\ consumer = NONE
           /\ qholder = NONE => consumer = NONE /\ producer = NONE
           /\ consumer \notin elements(qwaiters)
           /\ producer \notin elements(qwaiters)
           /\ elements(qwaiters) \subseteq Clients
           /\ Clients \subseteq Task \ {main_thread}
<1> USE IoQueueAssumption DEF IoQueueAssumption, Clients
<1>1. elements(qwaiters) \subseteq Clients
  BY ElementsType DEF SleepInv, IoqLocated
<1>2. /\ consumer \in Consumers \cup {NONE} /\ producer \in Producers \cup {NONE}
      /\ \A t \in Task : qholder = t <=> ioq_pc[t] = "asleep"
      /\ {consumer, producer} \ {NONE} \subseteq {qholder}
      /\ \A t \in elements(qwaiters) : ioq_pc[t] = "lockwait"
      /\ {t \in Task : status[t] \in BlockedStatus} =
            ({consumer, producer} \ {NONE}) \cup elements(qwaiters)
  BY DEF SleepInv, IoqLocated, SleepersExact
<1>3. \A t \in Task : status[t] \in BlockedStatus <=>
         t \in ({consumer, producer} \ {NONE}) \cup elements(qwaiters)
  BY <1>2
<1>4. NONE \notin elements(qwaiters)
  BY <1>1
<1>5. consumer # NONE => /\ consumer \in Task /\ qholder = consumer
                         /\ ioq_pc[consumer] = "asleep" /\ producer = NONE
                         /\ consumer \notin elements(qwaiters)
  BY <1>2
<1>6. producer # NONE => /\ producer \in Task /\ qholder = producer
                         /\ ioq_pc[producer] = "asleep" /\ consumer = NONE
                         /\ producer \notin elements(qwaiters)
  BY <1>2
<1> QED
  BY <1>1, <1>2, <1>3, <1>4, <1>5, <1>6

LEMMA RunningClient ==
    ASSUME SleepInv
    PROVE  /\ running \in Task
           /\ status[running] = "TASK_RUNNING"
           /\ status[running] \notin BlockedStatus
           /\ running \notin elements(qwaiters)
           /\ running # consumer /\ running # producer
<1>1. running \in Task /\ status[running] = "TASK_RUNNING"
  BY DEF SleepInv, ThreadInv, TypeOK, SchedulerInv, OneRunning
<1> QED
  BY <1>1, SleepersApart, IoQueueAssumption
  DEF BlockedStatus, SleepInv, IoqLocated, IoQueueAssumption

\* main() is there to run when a client blocks.
LEMMA MainIsAwake ==
    ASSUME SleepInv, running \in Clients
    PROVE  /\ main_thread \in Task \ {running}
           /\ status[main_thread] \notin BlockedStatus \cup {"TASK_NONE"}
BY SleepersApart, TaskAssumption, IoQueueAssumption
DEF TaskAssumption, IoQueueAssumption, Clients, SleepInv, IoqLocated

-----------------------------------------------------------------------------
\* Statuses, sleepers and lock as they are, and one awake thread moves.
LEMMA SleepFrame ==
    ASSUME SleepInv, ThreadInv', NoPanic',
           \A u \in Task : /\ status'[u] \in BlockedStatus <=> status[u] \in BlockedStatus
                           /\ status'[u] = "TASK_NONE" => status[u] = "TASK_NONE",
           UNCHANGED << consumer, producer, qholder, qwaiters >>,
           NEW t \in Task, NEW location \in {"outside", "test", "leave"},
           t = main_thread => location = "outside",
           location # "outside" => t \in Clients /\ status[t] # "TASK_NONE",
           t \notin elements(qwaiters), ioq_pc[t] # "asleep",
           ioq_goto(t, location)
    PROVE  SleepInv'
<1> USE DEF SleepInv, IoqLocated, IoqLocation
<1>1. /\ ioq_pc' = [ioq_pc EXCEPT ![t] = location]
      /\ ioq_pc \in [Task -> IoqLocation]
  BY DEF ioq_goto
<1>2. IoqLocated'
  <2>1. \A u \in elements(qwaiters) : u \in Task /\ ioq_pc[u] = "lockwait"
    BY SleepersApart
  <2> QED
    BY <1>1, <2>1, TaskAssumption DEF TaskAssumption
<1>3. SleepersExact'
  BY <1>1 DEF SleepersExact
<1> QED
  BY <1>2, <1>3

\* Nothing of the queue changes.
LEMMA SleepStutter ==
    ASSUME SleepInv, ThreadInv', NoPanic',
           \A u \in Task : /\ status'[u] \in BlockedStatus <=> status[u] \in BlockedStatus
                           /\ status'[u] = "TASK_NONE" => status[u] = "TASK_NONE",
           UNCHANGED << consumer, producer, qholder, qwaiters, ioq_pc >>
    PROVE  SleepInv'
BY TaskAssumption DEF TaskAssumption, SleepInv, IoqLocated, SleepersExact

\* One of the sleepers is woken and forgotten, and at most one awake thread moves.
LEMMA SleepWake ==
    ASSUME SleepInv, ThreadInv', NEW w \in Task, status[w] \in BlockedStatus,
           thread_unblock(w),
           consumer' = IF consumer = w THEN NONE ELSE consumer,
           producer' = IF producer = w THEN NONE ELSE producer,
           qwaiters' \in Seq(Clients), NoDuplicates(qwaiters'),
           elements(qwaiters') = elements(qwaiters) \ {w},
           NEW t \in Task, NEW location \in {"outside", "test", "leave"},
           status[t] \notin BlockedStatus \cup {"TASK_NONE"},
           ioq_pc' = ioq_pc \/ ioq_goto(t, location),
           location # "outside" => t \in Clients,
           qholder' = IF ioq_pc'[t] # ioq_pc[t] /\ ioq_pc[t] = "asleep" THEN NONE ELSE qholder,
           ioq_pc[t] = "asleep" => consumer = NONE /\ producer = NONE,
           t = main_thread => ioq_pc' = ioq_pc
    PROVE  SleepInv'
<1> USE TaskAssumption, IoQueueAssumption
    DEF TaskAssumption, IoQueueAssumption, Clients, IoqLocation
<1>1. /\ NoPanic'
      /\ status' = [status EXCEPT ![w] = "TASK_READY"]
  BY UnblockRuns DEF SleepInv
<1>2. /\ status \in [Task -> task_status]
      /\ ioq_pc \in [Task -> IoqLocation]
      /\ IoqLocated /\ SleepersExact
  BY DEF SleepInv, ThreadInv, TypeOK, IoqLocated
<1>3. \A u \in Task : ioq_pc'[u] = ioq_pc[u] \/ (u = t /\ ioq_pc'[u] = location)
  BY <1>2 DEF ioq_goto
<1>4. ioq_pc' \in [Task -> IoqLocation]
  BY <1>2 DEF ioq_goto
<1>5. IoqLocated'
  <2>1. \A u \in elements(qwaiters') : ioq_pc'[u] = "lockwait"
    BY <1>2, <1>3, SleepersApart DEF IoqLocated
  <2>2. consumer' \in Consumers \cup {NONE} /\ producer' \in Producers \cup {NONE}
        /\ qholder' \in Clients \cup {NONE}
    BY <1>2 DEF IoqLocated
  <2>3. status'[main_thread] # "TASK_NONE"
    BY <1>1, <1>2 DEF IoqLocated
  <2>4. \A u \in Task : /\ ioq_pc'[u] = "boot" => u = main_thread
                        /\ ioq_pc'[u] \notin {"boot", "outside"}
                             => u \in Clients /\ status'[u] # "TASK_NONE"
    BY <1>1, <1>2, <1>3 DEF IoqLocated
  <2> QED
    BY <1>4, <2>1, <2>2, <2>3, <2>4 DEF IoqLocated
<1>6. SleepersExact'
  <2>1. {u \in Task : status'[u] \in BlockedStatus}
           = {u \in Task : status[u] \in BlockedStatus} \ {w}
    BY <1>1, <1>2 DEF BlockedStatus
  <2>2. ({consumer, producer} \ {NONE}) \ {w} = {consumer', producer'} \ {NONE}
    OBVIOUS
  <2>3. {u \in Task : status'[u] \in BlockedStatus}
           = ({consumer', producer'} \ {NONE}) \cup elements(qwaiters')
    BY <2>1, <2>2, <1>2 DEF SleepersExact
  <2>4. \A u \in Task : qholder' = u <=> ioq_pc'[u] = "asleep"
    BY <1>2, <1>3 DEF SleepersExact
  <2>5. {consumer', producer'} \ {NONE} \subseteq {qholder'}
    <3>1. CASE ioq_pc[t] = "asleep"
      BY <3>1
    <3>2. CASE ioq_pc[t] # "asleep"
      BY <1>2, <3>2 DEF SleepersExact
    <3> QED
      BY <3>1, <3>2
  <2> QED
    BY <2>3, <2>4, <2>5 DEF SleepersExact
<1> QED
  BY <1>1, <1>5, <1>6 DEF SleepInv

\* wakeup(&ioq->consumer), by the interrupt handler or by a writer at t
LEMMA StoreWakes ==
    ASSUME SleepInv, NEW c, store(c),
           NEW t \in Task, NEW location \in {"outside", "test", "leave"},
           status[t] \notin BlockedStatus \cup {"TASK_NONE"}, ioq_pc[t] # "asleep",
           ioq_pc' = ioq_pc \/ ioq_goto(t, location),
           location # "outside" => t \in Clients,
           t = main_thread => ioq_pc' = ioq_pc
    PROVE  SleepInv'
<1>0. /\ ThreadInv /\ NoPanic /\ ioq_pc \in [Task -> IoqLocation]
      /\ qwaiters \in Seq(Clients) /\ NoDuplicates(qwaiters)
      /\ status \in [Task -> task_status]
  BY DEF SleepInv, ThreadInv, TypeOK, IoqLocated, SleepersExact
<1>1. CASE consumer = NONE
  <2>1. UNCHANGED << vars, consumer, producer, qholder, qwaiters >>
    BY <1>1 DEF store, consumer_waits
  <2>2. ThreadInv' /\ NoPanic'
    BY <1>0, <2>1
    DEF vars, ThreadInv, NoPanic, TypeOK, SchedulerInv, ReadyListExact, OneRunning,
        AllListExact
  <2>3. CASE ioq_pc' = ioq_pc
    BY <2>1, <2>2, <2>3, SleepStutter DEF vars
  <2>4. CASE ioq_pc' # ioq_pc
    <3>1. ioq_goto(t, location) /\ t # main_thread
      BY <2>4
    <3>2. t \notin elements(qwaiters)
      BY SleepersApart
    <3> QED
      BY <2>1, <2>2, <3>1, <3>2, SleepFrame DEF vars
  <2> QED
    BY <2>3, <2>4
<1>2. CASE consumer # NONE
  <2>1. /\ consumer \in Task /\ status[consumer] \in BlockedStatus
        /\ consumer \notin elements(qwaiters) /\ producer = NONE
    BY <1>2, SleepersApart
  <2>2. /\ thread_unblock(consumer) /\ consumer' = NONE
        /\ UNCHANGED << producer, qholder, qwaiters >>
    BY <1>2 DEF store, consumer_waits
  <2>3. ThreadInv'
    BY <1>0, <2>1, <2>2, UnblockKeepsInv
  <2>4. elements(qwaiters') = elements(qwaiters) \ {consumer}
    BY <2>1, <2>2
  <2>5. producer' = IF producer = consumer THEN NONE ELSE producer
    BY <1>2, <2>1, <2>2
  <2> QED
    BY <1>0, <2>1, <2>2, <2>3, <2>4, <2>5, SleepWake
<1> QED
  BY <1>1, <1>2

\* The clients' calls, one by one
LEMMA SleepInvKept ==
    ASSUME SleepInv, [IoqNext]_queuevars
    PROVE  SleepInv'
<1> USE TaskAssumption, IoQueueAssumption DEF TaskAssumption, IoQueueAssumption, Clients
<1>0. /\ ThreadInv /\ NoPanic
      /\ status \in [Task -> task_status]
      /\ ioq_pc \in [Task -> IoqLocation]
      /\ qwaiters \in Seq(Clients) /\ NoDuplicates(qwaiters)
      /\ IoqLocated /\ SleepersExact
      /\ intr \in intr_status
  BY DEF SleepInv, ThreadInv, TypeOK, IoqLocated, SleepersExact
<1>1. CASE IoqBoot
  <2>1. ioq_at(main_thread, "boot") /\ UNCHANGED ioqvars
    BY <1>1 DEF IoqBoot
  <2>2. ASSUME NEW t \in Task, thread_start(t), UNCHANGED ioq_pc
        PROVE  SleepInv'
    <3>1. /\ NoPanic'
          /\ status' = [status EXCEPT ![t] = "TASK_READY"]
          /\ status[t] = "TASK_NONE"
      BY <1>0, <2>2, ThreadStartRuns
    <3>2. ThreadInv'
      BY <1>0, <2>2, ThreadStartKeepsInv
    <3> QED
      BY <1>0, <2>1, <2>2, <3>1, <3>2, SleepStutter DEF BlockedStatus, ioqvars
  <2>3. ASSUME intr_enable, ioq_goto(main_thread, "outside")
        PROVE  SleepInv'
    <3>1. ThreadInv' /\ NoPanic' /\ status' = status
      BY <1>0, <2>3, SetIntrKeepsInv DEF intr_enable, intr_status, set_intr, NoPanic
    <3>2. main_thread \notin elements(qwaiters) /\ ioq_pc[main_thread] # "asleep"
      BY <2>1, SleepersApart DEF ioq_at
    <3> QED
      BY <2>1, <2>3, <3>1, <3>2, SleepFrame DEF ioqvars
  <2> QED
    BY <1>1, <2>2, <2>3 DEF IoqBoot
<1>2. CASE IoqTimer
  <2>1. intr_timer_handler /\ UNCHANGED << ioqvars, ioq_pc >>
    BY <1>2 DEF IoqTimer
  <2>2. ThreadInv'
    BY <1>0, <2>1, TimerKeepsInv
  <2> QED
    BY <1>0, <2>1, <2>2, TimerRuns, SleepStutter DEF ioqvars
<1>3. ASSUME NEW c \in Keys, kbd_interrupt(c)
      PROVE  SleepInv'
  <2>1. store(c) /\ ioq_pc' = ioq_pc
    BY <1>3 DEF kbd_interrupt
  <2>2. /\ running \in Task
        /\ status[running] \notin BlockedStatus \cup {"TASK_NONE"}
    BY RunningClient
  <2>3. CASE ioq_pc[running] = "asleep"
    \* The handler moves nobody, so main() may stand for the thread it interrupts.
    <3>1. /\ main_thread \in Task /\ ioq_pc[main_thread] # "asleep"
          /\ status[main_thread] \notin BlockedStatus \cup {"TASK_NONE"}
      BY <1>0, SleepersApart DEF IoqLocated
    <3> QED
      BY <2>1, <3>1, StoreWakes
  <2>4. CASE ioq_pc[running] # "asleep"
    BY <2>1, <2>2, <2>4, StoreWakes
  <2> QED
    BY <2>3, <2>4
<1>4. ASSUME NEW t \in Clients, IoqStep(t)
      PROVE  SleepInv'
  <2>0. /\ running = t /\ t \in Task /\ t # main_thread
        /\ status[t] \notin BlockedStatus /\ status[t] # "TASK_NONE"
        /\ t \notin elements(qwaiters)
    BY <1>4, RunningClient
    DEF IoqStep, call, ioq_getchar, ioq_putchar, lock_acquire_waits, in_lock_acquire,
        ioq_wait, ioq_lock_release, return, ioq_at
  <2>1. CASE call(t) \/ return(t)
    <3>1. /\ \E new \in intr_status : set_intr(new)
          /\ UNCHANGED ioqvars /\ ioq_pc[t] # "asleep"
      BY <2>1 DEF call, return, ioq_at, intr_status
    <3>2. ThreadInv' /\ NoPanic' /\ status' = status
      BY <1>0, <3>1, SetIntrKeepsInv DEF set_intr, NoPanic
    <3>3. \E location \in {"test", "outside"} : ioq_goto(t, location)
      BY <2>1 DEF call, return
    <3> QED
      BY <2>0, <3>1, <3>2, <3>3, SleepFrame DEF ioqvars
  <2>2. CASE ioq_putchar(t)
    <3>1. store(character[t]) /\ ioq_goto(t, "leave") /\ ioq_pc[t] # "asleep"
      BY <2>2 DEF ioq_putchar, ioq_at
    <3> QED
      BY <2>0, <3>1, StoreWakes
  <2>3. CASE ioq_getchar(t)
    <3>1. fetch(t) /\ ioq_goto(t, "leave") /\ ioq_pc[t] # "asleep"
      BY <2>3 DEF ioq_getchar, ioq_at
    <3>2. CASE producer = NONE
      <4>1. UNCHANGED << vars, consumer, producer, qholder, qwaiters >>
        BY <3>1, <3>2 DEF fetch
      <4>2. ThreadInv' /\ NoPanic'
        BY <1>0, <4>1
        DEF vars, ThreadInv, NoPanic, TypeOK, SchedulerInv, ReadyListExact,
            OneRunning, AllListExact
      <4> QED
        BY <2>0, <3>1, <4>1, <4>2, SleepFrame DEF vars
    <3>3. CASE producer # NONE
      <4>1. /\ producer \in Task /\ status[producer] \in BlockedStatus
            /\ producer \notin elements(qwaiters) /\ consumer = NONE
        BY <3>3, SleepersApart
      <4>2. /\ thread_unblock(producer) /\ producer' = NONE
            /\ UNCHANGED << consumer, qholder, qwaiters >>
        BY <3>1, <3>3 DEF fetch
      <4>3. ThreadInv'
        BY <1>0, <4>1, <4>2, UnblockKeepsInv
      <4>4. elements(qwaiters') = elements(qwaiters) \ {producer}
        BY <4>1, <4>2
      <4> QED
        BY <1>0, <2>0, <3>1, <4>1, <4>2, <4>3, <4>4, SleepWake
    <3> QED
      BY <3>2, <3>3
  <2>4. CASE lock_acquire_waits(t)
    <3>1. /\ qholder # NONE
          /\ qwaiters' = list_append(qwaiters, t)
          /\ thread_block("TASK_BLOCKED")
          /\ ioq_pc' = [ioq_pc EXCEPT ![t] = "lockwait"]
          /\ UNCHANGED << consumer, producer, qholder >>
          /\ ioq_pc[t] \in {"test", "lockwait"}
      BY <2>4 DEF lock_acquire_waits, in_lock_acquire, ioq_at, ioq_goto
    <3>2. "TASK_BLOCKED" \in BlockedStatus
      BY DEF BlockedStatus
    <3>3. /\ NoPanic'
          /\ status'[t] \in BlockedStatus
          /\ \A v \in Task : /\ v # t => (status'[v] \in BlockedStatus
                                            <=> status[v] \in BlockedStatus)
                             /\ status'[v] = "TASK_NONE" <=> status[v] = "TASK_NONE"
      BY <1>0, <2>0, <3>1, <3>2, BlockRuns, MainIsAwake
    <3>4. ThreadInv'
      BY <1>0, <3>1, <3>2, BlockKeepsInv
    <3>5. /\ qwaiters' \in Seq(Clients)
          /\ elements(qwaiters') = elements(qwaiters) \cup {t}
          /\ NoDuplicates(qwaiters')
      BY <1>0, <2>0, <3>1, AppendElement
    <3>6. IoqLocated'
      BY <1>0, <2>0, <3>1, <3>3, <3>5 DEF IoqLocated, IoqLocation
    <3>7. SleepersExact'
      <4>1. {u \in Task : status'[u] \in BlockedStatus}
               = {u \in Task : status[u] \in BlockedStatus} \cup {t}
        BY <2>0, <3>3
      <4>2. \A u \in Task : qholder' = u <=> ioq_pc'[u] = "asleep"
        BY <1>0, <3>1 DEF SleepersExact
      <4> QED
        BY <1>0, <3>1, <3>5, <4>1, <4>2 DEF SleepersExact
    <3> QED
      BY <3>3, <3>4, <3>6, <3>7 DEF SleepInv
  <2>5. CASE ioq_wait(t)
    <3>1. qholder = NONE /\ consumer = NONE /\ producer = NONE
      BY <2>5, SleepersApart DEF ioq_wait
    <3>2. /\ qholder' = t
          /\ IF t \in Consumers THEN consumer' = t /\ UNCHANGED producer
                                ELSE producer' = t /\ UNCHANGED consumer
          /\ thread_block("TASK_BLOCKED")
          /\ ioq_pc' = [ioq_pc EXCEPT ![t] = "asleep"]
          /\ UNCHANGED qwaiters
      BY <2>5, <3>1 DEF ioq_wait, ioq_goto
    <3>3. "TASK_BLOCKED" \in BlockedStatus
      BY DEF BlockedStatus
    <3>4. /\ NoPanic'
          /\ status'[t] \in BlockedStatus
          /\ \A v \in Task : /\ v # t => (status'[v] \in BlockedStatus
                                            <=> status[v] \in BlockedStatus)
                             /\ status'[v] = "TASK_NONE" <=> status[v] = "TASK_NONE"
      BY <1>0, <2>0, <3>2, <3>3, BlockRuns, MainIsAwake
    <3>5. ThreadInv'
      BY <1>0, <3>2, <3>3, BlockKeepsInv
    <3>6. IoqLocated'
      BY <1>0, <2>0, <3>1, <3>2, <3>4 DEF IoqLocated, IoqLocation
    <3>7. {consumer', producer'} \ {NONE} = {t}
      BY <3>1, <3>2
    <3>8. SleepersExact'
      BY <1>0, <3>1, <3>2, <3>4, <3>7 DEF SleepersExact
    <3> QED
      BY <3>4, <3>5, <3>6, <3>8 DEF SleepInv
  <2>6. CASE ioq_lock_release(t)
    <3>1. /\ ioq_pc[t] = "asleep"
          /\ qholder' = NONE
          /\ ioq_goto(t, "test")
          /\ UNCHANGED << consumer, producer >>
          /\ IF list_empty(qwaiters)
             THEN UNCHANGED << vars, qwaiters >>
             ELSE /\ thread_unblock(list_front(qwaiters))
                  /\ qwaiters' = list_pop(qwaiters)
      BY <2>6 DEF ioq_lock_release, ioq_at
    <3>2. qholder = t
      BY <1>0, <2>0, <3>1 DEF SleepersExact
    <3>3. consumer = NONE /\ producer = NONE
      BY <2>0, <3>2, RunningClient, SleepersApart
    <3>4. ioq_pc' = [ioq_pc EXCEPT ![t] = "test"]
      BY <3>1 DEF ioq_goto
    <3>5. CASE list_empty(qwaiters)
      <4>1. UNCHANGED << vars, qwaiters >>
        BY <3>1, <3>5
      <4>2. ThreadInv' /\ NoPanic' /\ status' = status
        BY <1>0, <4>1
        DEF vars, ThreadInv, NoPanic, TypeOK, SchedulerInv, ReadyListExact,
            OneRunning, AllListExact
      <4>3. elements(qwaiters) = {} /\ elements(qwaiters') = {}
        BY <1>0, <3>5, <4>1, EmptyElements
      <4>4. IoqLocated'
        BY <1>0, <2>0, <3>1, <3>4, <4>1, <4>2, <4>3 DEF IoqLocated, IoqLocation
      <4>5. SleepersExact'
        BY <1>0, <2>0, <3>1, <3>2, <3>3, <3>4, <4>1, <4>2 DEF SleepersExact
      <4> QED
        BY <4>2, <4>4, <4>5 DEF SleepInv
    <3>6. CASE ~list_empty(qwaiters)
      <4> DEFINE w == list_front(qwaiters)
      <4>1. /\ w \in Clients
            /\ qwaiters' \in Seq(Clients)
            /\ elements(qwaiters) = elements(qwaiters') \cup {w}
            /\ w \notin elements(qwaiters')
            /\ NoDuplicates(qwaiters')
        <5> HIDE DEF Clients
        <5>1. qwaiters' = list_pop(qwaiters)
          BY <3>1, <3>6
        <5> QED
          BY <1>0, <3>6, <5>1, PopElement
      <4>2. status[w] \in BlockedStatus /\ w \in Task
        BY <4>1, SleepersApart
      <4>3. thread_unblock(w)
        BY <3>1, <3>6
      <4> HIDE DEF w
      <4>4. ThreadInv'
        BY <1>0, <4>2, <4>3, UnblockKeepsInv
      <4>5. elements(qwaiters') = elements(qwaiters) \ {w}
        BY <4>1
      <4>6. ioq_pc'[t] # ioq_pc[t]
        BY <1>0, <2>0, <3>1, <3>4
      <4> QED
        BY <2>0, <3>1, <3>3, <4>1, <4>2, <4>3, <4>4, <4>5, <4>6, SleepWake
    <3> QED
      BY <3>5, <3>6
  <2> QED
    BY <1>4, <2>1, <2>2, <2>3, <2>4, <2>5, <2>6 DEF IoqStep
<1>5. CASE UNCHANGED queuevars
  <2>1. UNCHANGED << vars, ioqvars, ioq_pc >>
    BY <1>5 DEF queuevars
  <2>2. ThreadInv' /\ NoPanic'
    BY <1>0, <2>1
    DEF vars, ThreadInv, NoPanic, TypeOK, SchedulerInv, ReadyListExact, OneRunning,
        AllListExact
  <2> QED
    BY <2>1, <2>2, SleepStutter DEF vars, ioqvars
<1> QED
  BY <1>1, <1>2, <1>3, <1>4, <1>5 DEF IoqNext

LEMMA SleepInit == IoqInit => SleepInv
<1> SUFFICES ASSUME IoqInit
             PROVE  SleepInv
  OBVIOUS
<1> USE TaskAssumption, IoQueueAssumption
    DEF TaskAssumption, IoQueueAssumption, IoqInit, Clients
<1>1. ThreadInv
  BY ThreadInit
<1>2. elements(qwaiters) = {} /\ NoDuplicates(qwaiters)
  BY DEF elements, NoDuplicates
<1>3. IoqLocated
  BY <1>2 DEF IoqLocated, IoqLocation, Init
<1>4. SleepersExact
  BY <1>2 DEF SleepersExact, Init, BlockedStatus
<1> QED
  BY <1>1, <1>3, <1>4 DEF SleepInv, Init, NoPanic

\* Every thread asleep in a call is recorded where a later call or the interrupt
\* handler will find it, exactly once, and qlock is held by the one in ioq_wait.
THEOREM SleepersAreKnown == IoqSpec => []SleepersKnown
<1>1. SleepInv => SleepersKnown
  BY DEF SleepInv, SleepersKnown
<1> QED
  BY <1>1, SleepInit, SleepInvKept, PTL DEF IoqSpec

\* No ASSERT of ioqueue.c, sync.c or thread.c fails in a call of the queue: the
\* thread that sleeps finds the field it is recorded in empty.
THEOREM QueueNeverPanics == IoqSpec => []NoPanic
<1>1. SleepInv => NoPanic
  BY DEF SleepInv
<1> QED
  BY <1>1, SleepInit, SleepInvKept, PTL DEF IoqSpec

-----------------------------------------------------------------------------
\* Positions wrap around once at most.
wrapped(n) == n % bufsize

LEMMA Wraps ==
    ASSUME NEW n \in 0..(2 * bufsize - 1)
    PROVE  wrapped(n) = IF n < bufsize THEN n ELSE n - bufsize
<1> bufsize \in Nat \ {0}
  BY IoQueueAssumption DEF IoQueueAssumption
<1> USE DEF wrapped
<1>1. CASE n < bufsize
  BY <1>1
<1>2. CASE n >= bufsize
  <2>1. n - bufsize \in 0..(bufsize - 1)
    BY <1>2
  <2> QED
    BY <1>2, <2>1
<1> QED
  BY <1>1, <1>2

RingType ==
    /\ head \in 0..(bufsize - 1)
    /\ tail \in 0..(bufsize - 1)
    /\ buf \in [0..(bufsize - 1) -> Char \cup {NONE}]

\* The positions of the queued characters
position(first, i) == IF first + i - 1 < bufsize THEN first + i - 1
                                                 ELSE first + i - 1 - bufsize

after(pos) == IF pos = bufsize - 1 THEN 0 ELSE pos + 1

\* The ring without the arithmetic of the remainders
RingLength ==
    /\ length = IF head >= tail THEN head - tail ELSE head + bufsize - tail
    /\ length \in 0..(bufsize - 1)
    /\ next_pos(head) = after(head)
    /\ next_pos(tail) = after(tail)

QueueShape ==
    /\ queued \in Seq(Char \cup {NONE})
    /\ Len(queued) = length
    /\ \A i \in 1..length : queued[i] = buf[position(tail, i)]

LEMMA RingIsShaped == RingType => RingLength /\ QueueShape
<1> SUFFICES ASSUME RingType
             PROVE  RingLength /\ QueueShape
  OBVIOUS
<1> USE DEF RingType
<1>0. bufsize \in Nat \ {0}
  BY IoQueueAssumption DEF IoQueueAssumption
<1>1. /\ length = IF head >= tail THEN head - tail ELSE head + bufsize - tail
      /\ length \in 0..(bufsize - 1)
  <2>1. head + bufsize - tail \in 0..(2 * bufsize - 1)
    BY <1>0
  <2>2. length = wrapped(head + bufsize - tail)
    BY DEF length, wrapped
  <2> QED
    BY <1>0, <2>1, <2>2, Wraps
<1>2. ASSUME NEW i \in 1..length
      PROVE  (tail + i - 1) % bufsize = position(tail, i)
  <2> DEFINE n == tail + i - 1
  <2>1. n \in 0..(2 * bufsize - 1)
    BY <1>0, <1>1
  <2> HIDE DEF n
  <2>2. wrapped(n) = IF n < bufsize THEN n ELSE n - bufsize
    BY <2>1, Wraps
  <2>3. position(tail, i) = IF n < bufsize THEN n ELSE n - bufsize
    BY <1>0, <1>1 DEF position, n
  <2>4. (tail + i - 1) % bufsize = wrapped(n)
    BY Zenon DEF wrapped, n
  <2> QED
    BY <2>2, <2>3, <2>4
<1>3. \A i \in 1..length : position(tail, i) \in 0..(bufsize - 1)
  BY <1>0, <1>1 DEF position
<1>4. queued = [i \in 1..length |-> buf[position(tail, i)]]
  BY <1>2 DEF queued
<1>5. \A i \in 1..length : buf[position(tail, i)] \in Char \cup {NONE}
  BY <1>3
<1>6. queued \in Seq(Char \cup {NONE}) /\ Len(queued) = length
  BY <1>1, <1>4, <1>5
<1>7. ASSUME NEW pos \in 0..(bufsize - 1)
      PROVE  next_pos(pos) = after(pos)
  <2>1. pos + 1 \in 0..(2 * bufsize - 1)
    BY <1>0
  <2>2. next_pos(pos) = wrapped(pos + 1)
    BY DEF next_pos, wrapped
  <2> QED
    BY <1>0, <2>1, <2>2, Wraps DEF after
<1> QED
  BY <1>1, <1>4, <1>6, <1>7 DEF RingLength, QueueShape

\* A character goes to the end ...
LEMMA StoreAppends ==
    ASSUME RingType, RingType', ~ioq_full, NEW c \in Char,
           buf' = [buf EXCEPT ![head] = c], head' = next_pos(head), tail' = tail
    PROVE  Len(queued) < bufsize - 1 /\ queued' = Append(queued, c)
<1>0. bufsize \in Nat \ {0}
  BY IoQueueAssumption DEF IoQueueAssumption
<1>1. RingLength /\ QueueShape
  BY RingIsShaped
<1>2. RingLength' /\ QueueShape'
  BY RingIsShaped, PTL
<1>3. head' = after(head) /\ after(head) # tail
  BY <1>1 DEF ioq_full, RingLength
<1>4. length' = length + 1 /\ length < bufsize - 1 /\ length \in Nat
  BY <1>0, <1>1, <1>2, <1>3 DEF RingLength, RingType, after
<1> DEFINE n == length + 1
<1>5. n \in Nat \ {0} /\ length' = n /\ position(tail, n) = head
  BY <1>0, <1>1, <1>4 DEF RingLength, RingType, position
<1>6. \A i \in 1..length : /\ position(tail, i) # head
                            /\ position(tail, i) \in 0..(bufsize - 1)
  BY <1>0, <1>1 DEF RingLength, RingType, position
<1>7. \A i \in 1..n : queued'[i] = buf'[position(tail, i)]
  BY <1>2, <1>5 DEF QueueShape
<1>8. \A i \in 1..length : queued'[i] = queued[i]
  BY <1>1, <1>4, <1>6, <1>7 DEF QueueShape, RingType
<1>9. queued'[n] = c
  BY <1>5, <1>7 DEF RingType
<1>10. /\ queued \in Seq(Char \cup {NONE}) /\ Len(queued) = length
       /\ queued' \in Seq(Char \cup {NONE}) /\ Len(queued') = length + 1
  BY <1>1, <1>2, <1>4 DEF QueueShape
<1> QED
  BY <1>4, <1>8, <1>9, <1>10

\* ... and leaves at the front.
LEMMA FetchPops ==
    ASSUME RingType, RingType', ~ioq_empty,
           buf' = buf, head' = head, tail' = next_pos(tail)
    PROVE  queued # << >> /\ oldest = Head(queued) /\ queued' = Tail(queued)
<1>0. bufsize \in Nat \ {0}
  BY IoQueueAssumption DEF IoQueueAssumption
<1>1. RingLength /\ QueueShape
  BY RingIsShaped
<1>2. RingLength' /\ QueueShape'
  BY RingIsShaped, PTL
<1>3. head # tail /\ tail' = after(tail)
  BY <1>1 DEF ioq_empty, RingLength
<1>4. length' = length - 1 /\ length > 0 /\ length \in Nat
  BY <1>0, <1>1, <1>2, <1>3 DEF RingLength, RingType, after
<1>5. \A i \in 1..(length - 1) : position(tail', i) = position(tail, i + 1)
  BY <1>0, <1>1, <1>3, <1>4 DEF RingLength, RingType, position, after
<1>6. \A i \in 1..(length - 1) : queued'[i] = buf[position(tail', i)]
  BY <1>2, <1>4 DEF QueueShape
<1>7. \A i \in 1..(length - 1) : queued'[i] = queued[i + 1]
  BY <1>1, <1>4, <1>5, <1>6 DEF QueueShape
<1>8. oldest = queued[1]
  <2>1. position(tail, 1) = tail
    BY <1>0 DEF RingType, position
  <2> QED
    BY <1>1, <1>4, <2>1 DEF QueueShape, oldest
<1>9. /\ queued \in Seq(Char \cup {NONE}) /\ Len(queued) = length
      /\ queued' \in Seq(Char \cup {NONE}) /\ Len(queued') = length - 1
  BY <1>1, <1>2, <1>4 DEF QueueShape
<1> QED
  BY <1>4, <1>7, <1>8, <1>9

-----------------------------------------------------------------------------
\* A writer in a call still has its character, one that leaves has put it.
HandInv ==
    /\ RingType
    /\ character \in [Clients -> Char \cup {NONE}]
    /\ \A t \in Producers :
          /\ ioq_pc[t] \in {"test", "lockwait", "asleep"} => character[t] # NONE
          /\ ioq_pc[t] = "leave" => character[t] = NONE

LEMMA StoreKeepsRing ==
    ASSUME RingType, NEW c \in Char, store(c)
    PROVE  /\ RingType'
           /\ buf' = [buf EXCEPT ![head] = c]
           /\ head' = next_pos(head) /\ tail' = tail
<1>1. bufsize \in Nat \ {0}
  BY IoQueueAssumption DEF IoQueueAssumption
<1>2. next_pos(head) \in 0..(bufsize - 1)
  BY <1>1, RingIsShaped DEF RingType, RingLength, after
<1> QED
  BY <1>2 DEF RingType, store

LEMMA FetchKeepsRing ==
    ASSUME RingType, NEW t \in Clients, fetch(t)
    PROVE  /\ RingType'
           /\ buf' = buf /\ head' = head /\ tail' = next_pos(tail)
           /\ character' = [character EXCEPT ![t] = oldest]
           /\ oldest \in Char \cup {NONE}
<1>1. bufsize \in Nat \ {0}
  BY IoQueueAssumption DEF IoQueueAssumption
<1>2. next_pos(tail) \in 0..(bufsize - 1)
  BY <1>1, RingIsShaped DEF RingType, RingLength, after
<1> QED
  BY <1>2 DEF RingType, fetch, oldest

\* One thread at most moves, and neither ring nor characters change.
LEMMA QueueStutter ==
    ASSUME HandInv, UNCHANGED << buf, head, tail, character >>,
           \A t \in Producers :
              ioq_pc'[t] = ioq_pc[t] \/ (/\ ioq_pc[t] \in {"test", "lockwait", "asleep"}
                                 /\ ioq_pc'[t] \in {"test", "lockwait", "asleep"})
    PROVE  HandInv' /\ UNCHANGED Queue!vars
BY DEF HandInv, RingType, Queue!vars, queued, length

LEMMA StepImplementsQueue ==
    ASSUME SleepInv, HandInv, [IoqNext]_queuevars
    PROVE  HandInv' /\ [Queue!Next]_(Queue!vars)
<1> USE TaskAssumption, IoQueueAssumption DEF TaskAssumption, IoQueueAssumption, Clients
<1>0. /\ ioq_pc \in [Task -> IoqLocation]
      /\ RingType
      /\ character \in [Clients -> Char \cup {NONE}]
  BY DEF SleepInv, IoqLocated, HandInv
<1>1. CASE IoqBoot \/ IoqTimer \/ UNCHANGED queuevars
  <2>1. /\ UNCHANGED << buf, head, tail, character >>
        /\ \A t \in Producers : ioq_pc'[t] = ioq_pc[t]
    BY <1>0, <1>1 DEF IoqBoot, ioq_goto, IoqTimer, queuevars, ioqvars
  <2> QED
    BY <2>1, QueueStutter
<1>2. ASSUME NEW c \in Keys, kbd_interrupt(c)
      PROVE  HandInv' /\ [Queue!Next]_(Queue!vars)
  <2>1. store(c) /\ ~ioq_full /\ c \in Char /\ UNCHANGED << character, ioq_pc >>
    BY <1>2 DEF kbd_interrupt
  <2>2. /\ RingType' /\ buf' = [buf EXCEPT ![head] = c]
        /\ head' = next_pos(head) /\ tail' = tail
    BY <1>0, <2>1, StoreKeepsRing
  <2>3. Len(queued) < bufsize - 1 /\ queued' = Append(queued, c)
    BY <1>0, <2>1, <2>2, StoreAppends
  <2>4. Queue!arrive(c)
    BY <2>1, <2>3 DEF Queue!arrive
  <2>5. HandInv'
    BY <2>1, <2>2 DEF HandInv
  <2> QED
    BY <2>1, <2>4, <2>5 DEF Queue!Next
<1>3. ASSUME NEW t \in Clients, IoqStep(t)
      PROVE  HandInv' /\ [Queue!Next]_(Queue!vars)
  <2>0. t \in Task
    OBVIOUS
  <2>1. CASE call(t)
    <3>1. /\ ioq_pc' = [ioq_pc EXCEPT ![t] = "test"]
          /\ UNCHANGED << buf, head, tail >>
          /\ ioq_pc[t] = "outside"
      BY <2>1 DEF call, ioq_goto, ioqvars, ioq_at
    <3>2. CASE t \in Producers
      <4>1. PICK c \in Char : character' = [character EXCEPT ![t] = c]
        BY <2>1, <3>2 DEF call
      <4>2. c # NONE
        OBVIOUS
      <4>3. HandInv'
        BY <1>0, <3>1, <4>1, <4>2 DEF HandInv, RingType
      <4>4. queued' = queued
        BY <3>1 DEF queued, length
      <4>5. Queue!choose(t, c)
        BY <4>1, <4>4 DEF Queue!choose
      <4> QED
        BY <3>2, <4>3, <4>5 DEF Queue!Next
    <3>3. CASE t \notin Producers
      <4>1. UNCHANGED character
        BY <2>1, <3>3 DEF call
      <4>2. \A u \in Producers : ioq_pc'[u] = ioq_pc[u]
        BY <1>0, <3>1, <3>3
      <4> QED
        BY <3>1, <4>1, <4>2, QueueStutter
    <3> QED
      BY <3>2, <3>3
  <2>2. CASE ioq_getchar(t)
    <3>1. /\ t \in Consumers /\ fetch(t) /\ ~ioq_empty
          /\ ioq_pc' = [ioq_pc EXCEPT ![t] = "leave"]
      BY <2>2 DEF ioq_getchar, ioq_goto
    <3>2. /\ RingType' /\ buf' = buf /\ head' = head /\ tail' = next_pos(tail)
          /\ character' = [character EXCEPT ![t] = oldest]
          /\ oldest \in Char \cup {NONE}
      BY <1>0, <3>1, FetchKeepsRing
    <3>3. queued # << >> /\ oldest = Head(queued) /\ queued' = Tail(queued)
      BY <1>0, <3>1, <3>2, FetchPops
    <3>4. Queue!get(t)
      BY <3>2, <3>3 DEF Queue!get
    <3>5. HandInv'
      BY <1>0, <3>1, <3>2 DEF HandInv
    <3> QED
      BY <3>1, <3>4, <3>5 DEF Queue!Next
  <2>3. CASE ioq_putchar(t)
    <3>1. /\ t \in Producers /\ store(character[t]) /\ ~ioq_full
          /\ character' = [character EXCEPT ![t] = NONE]
          /\ ioq_pc' = [ioq_pc EXCEPT ![t] = "leave"] /\ ioq_pc[t] = "test"
      BY <2>3 DEF ioq_putchar, ioq_goto, ioq_at
    <3>2. character[t] # NONE /\ character[t] \in Char
      BY <1>0, <3>1 DEF HandInv
    <3>3. /\ RingType' /\ buf' = [buf EXCEPT ![head] = character[t]]
          /\ head' = next_pos(head) /\ tail' = tail
      BY <1>0, <3>1, <3>2, StoreKeepsRing
    <3>4. Len(queued) < bufsize - 1 /\ queued' = Append(queued, character[t])
      BY <1>0, <3>1, <3>2, <3>3, StoreAppends
    <3>5. Queue!put(t)
      BY <3>1, <3>2, <3>4 DEF Queue!put
    <3>6. HandInv'
      BY <1>0, <3>1, <3>3 DEF HandInv
    <3> QED
      BY <3>1, <3>5, <3>6 DEF Queue!Next
  <2>4. CASE lock_acquire_waits(t) \/ ioq_wait(t) \/ ioq_lock_release(t)
    <3>1. UNCHANGED << buf, head, tail, character >>
      BY <2>4 DEF lock_acquire_waits, ioq_wait, ioq_lock_release
    <3>2. ioq_pc[t] \in {"test", "lockwait", "asleep"}
      BY <2>4 DEF lock_acquire_waits, ioq_wait, ioq_lock_release, in_lock_acquire, ioq_at
    <3>3. ioq_pc' = ioq_pc \/ \E location \in {"test", "lockwait", "asleep"} :
                         ioq_pc' = [ioq_pc EXCEPT ![t] = location]
      BY <2>4 DEF lock_acquire_waits, ioq_wait, ioq_lock_release, ioq_goto
    <3> QED
      BY <1>0, <3>1, <3>2, <3>3, QueueStutter
  <2>5. CASE return(t)
    <3>1. /\ ioq_pc' = [ioq_pc EXCEPT ![t] = "outside"] /\ ioq_pc[t] = "leave"
          /\ character' = [character EXCEPT ![t] = NONE]
          /\ UNCHANGED << buf, head, tail >>
      BY <2>5 DEF return, ioq_goto, ioqvars, ioq_at
    <3>2. HandInv'
      BY <1>0, <3>1 DEF HandInv, RingType
    <3>3. queued' = queued
      BY <3>1 DEF queued, length
    <3>4. CASE t \in Consumers
      <4>1. Queue!drop(t)
        BY <3>1, <3>3 DEF Queue!drop
      <4> QED
        BY <3>2, <3>4, <4>1 DEF Queue!Next
    <3>5. CASE t \in Producers
      <4>1. character' = character
        BY <1>0, <3>1, <3>5 DEF HandInv
      <4> QED
        BY <3>2, <3>3, <4>1 DEF Queue!vars
    <3> QED
      BY <3>4, <3>5
  <2> QED
    BY <1>3, <2>1, <2>2, <2>3, <2>4, <2>5 DEF IoqStep
<1> QED
  BY <1>1, <1>2, <1>3 DEF IoqNext

LEMMA QueueInit == IoqInit => HandInv /\ Queue!Init
<1> SUFFICES ASSUME IoqInit
             PROVE  HandInv /\ Queue!Init
  OBVIOUS
<1> USE TaskAssumption, IoQueueAssumption
    DEF TaskAssumption, IoQueueAssumption, IoqInit, Clients
<1>1. RingType
  BY DEF RingType
<1>2. HandInv
  BY <1>1 DEF HandInv
<1>3. length = 0
  BY <1>1, RingIsShaped DEF RingLength
<1>4. queued = << >>
  BY <1>1, <1>3, RingIsShaped DEF QueueShape
<1> QED
  BY <1>2, <1>4 DEF Queue!Init, Queue!Client

\* Across wrap-around, sleeps, wake-ups and keyboard interrupts the ring of any
\* size is a bounded FIFO: nothing is lost, doubled or overtaken.
THEOREM RingImplementsQueue == IoqSpec => ImplementsQueue
BY SleepInit, SleepInvKept, QueueInit, StepImplementsQueue, PTL
DEF IoqSpec, ImplementsQueue, Queue!Spec

=============================================================================
