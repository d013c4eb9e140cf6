------------------------------- MODULE Thread -------------------------------
(***************************************************************************)
(* The thread scheduler of Tiny_OS: thread/thread.c, the timer interrupt   *)
(* handler of device/timer.c and the interrupt flag of kernel/interrupt.c. *)
(*                                                                         *)
(* The machine has one processor, so an action is code that runs with the  *)
(* interrupt flag IF clear, or one instruction.  A thread that leaves the  *)
(* processor in schedule() resumes behind switch_to() with IF clear and    *)
(* restores the IF its caller saved (intr_set_status, or iretd behind an   *)
(* interrupt); nothing can come between, so the restore is part of the     *)
(* switch and saved_intr[t] is the IF thread t resumes with.               *)
(*                                                                         *)
(* A failed ASSERT ends in panic_spin, which masks interrupts and loops    *)
(* for ever: panicked is then TRUE and no action is enabled.               *)
(***************************************************************************)
EXTENDS List

CONSTANTS
    Task,           \* the task_structs, the ones not yet started included
    main_thread,    \* the thread that runs main()
    Resident,       \* the threads whose code never calls thread_block
    priority        \* the prio every thread is initialised with, an uint8_t

TaskAssumption ==
    /\ main_thread \in Task
    /\ Resident \subseteq Task
    /\ priority \in [Task -> 0..255]

ASSUME TaskAssumption

VARIABLES
    running,            \* running_thread(): whose kernel stack esp is in
    status,             \* task_struct.status; "TASK_NONE" before thread_start
    thread_ready_list,
    thread_all_list,    \* kept as a set: its order is never read
    ticks,              \* task_struct.ticks, what is left of the time slice
    intr,               \* intr_get_status()
    saved_intr,         \* the IF a thread that is off the processor resumes with
    panicked

vars == << running, status, thread_ready_list, thread_all_list, ticks, intr,
           saved_intr, panicked >>

BlockedStatus == {"TASK_BLOCKED", "TASK_WAITTING", "TASK_HANGING"}

task_status == {"TASK_NONE", "TASK_RUNNING", "TASK_READY"} \cup BlockedStatus

intr_status == {"INTR_ON", "INTR_OFF"}

\* thread_init: main() is already running, IF still clear since the boot.
\* A new thread will start in kernel_thread, which enables interrupts.
Init ==
    /\ running = main_thread
    /\ status = [t \in Task |->
                    IF t = main_thread THEN "TASK_RUNNING" ELSE "TASK_NONE"]
    /\ thread_ready_list = << >>
    /\ thread_all_list = {main_thread}
    /\ ticks = priority
    /\ intr = "INTR_OFF"
    /\ saved_intr = [t \in Task |-> "INTR_ON"]
    /\ panicked = FALSE

-----------------------------------------------------------------------------
\* panic_spin: what the failing statement had already done is never read again.
panic_spin ==
    /\ panicked' = TRUE
    /\ intr' = "INTR_OFF"
    /\ UNCHANGED << running, status, thread_ready_list, thread_all_list,
                    ticks, saved_intr >>

\* cur->ticks = cur->pgdir: pgdir is NULL in every kernel thread.
slice_reload == 0

\* A thread that is still TASK_RUNNING lost the processor, it did not give it up.
preempts(st) == st[running] = "TASK_RUNNING"

\* Faulty: the preempted thread is forgotten, or put first.
requeued_forgets(st) == thread_ready_list

requeued_first(st) == IF preempts(st) THEN list_push(thread_ready_list, running)
                                      ELSE thread_ready_list

requeued(st) == IF preempts(st) THEN list_append(thread_ready_list, running)
                                ELSE thread_ready_list

\* Faulty: cur->status = TASK_READY is missing.
requeued_status_kept(st) == st

requeued_status(st) == IF preempts(st) THEN [st EXCEPT ![running] = "TASK_READY"]
                                       ELSE st

\* schedule() and switch_to(), called with the statuses st; the caller will
\* restore IF to si when it is resumed.
schedule(st, si) ==
    IF \/ preempts(st) /\ elem_find(thread_ready_list, running)
       \/ list_empty(requeued(st))
    THEN panic_spin
    ELSE /\ running' = list_front(requeued(st))
         /\ status' = [requeued_status(st) EXCEPT ![running'] = "TASK_RUNNING"]
         /\ thread_ready_list' = list_pop(requeued(st))
         /\ ticks' = IF preempts(st) THEN [ticks EXCEPT ![running] = slice_reload]
                                     ELSE ticks
         /\ saved_intr' = [saved_intr EXCEPT ![running] = si]
         /\ intr' = saved_intr'[running']
         /\ UNCHANGED << thread_all_list, panicked >>

\* main() starts its threads before it enables interrupts.
thread_start(t) ==
    /\ ~panicked
    /\ running = main_thread
    /\ intr = "INTR_OFF"
    /\ status[t] = "TASK_NONE"
    /\ IF elem_find(thread_ready_list, t) \/ t \in thread_all_list
       THEN panic_spin
       ELSE /\ status' = [status EXCEPT ![t] = "TASK_READY"]
            /\ ticks' = [ticks EXCEPT ![t] = priority[t]]
            /\ thread_ready_list' = list_append(thread_ready_list, t)
            /\ thread_all_list' = thread_all_list \cup {t}
            /\ UNCHANGED << running, intr, saved_intr, panicked >>

\* cli and sti in the code of the running thread
set_intr(new) ==
    /\ ~panicked
    /\ intr' = new
    /\ UNCHANGED << running, status, thread_ready_list, thread_all_list,
                    ticks, saved_intr, panicked >>

intr_disable == intr = "INTR_ON" /\ set_intr("INTR_OFF")

intr_enable == intr = "INTR_OFF" /\ set_intr("INTR_ON")

\* Faulty: one tick too early
slice_expired_early == ticks[running] = 1

slice_expired == ticks[running] = 0

\* The interrupt gate clears IF; iretd sets it again when the thread resumes.
intr_timer_handler ==
    /\ ~panicked
    /\ intr = "INTR_ON"
    /\ IF slice_expired
       THEN schedule(status, "INTR_ON")
       ELSE /\ ticks' = [ticks EXCEPT ![running] = @ - 1]
            /\ UNCHANGED << running, status, thread_ready_list, thread_all_list,
                            intr, saved_intr, panicked >>

\* The running thread gives up the processor; old_status is the IF at the call.
thread_block(stat) ==
    /\ ~panicked
    /\ stat \in BlockedStatus
    /\ schedule([status EXCEPT ![running] = stat], intr)

\* Called by the running thread or by an interrupt handler on top of it: a
\* woken thread goes to the FRONT of the ready list.
thread_unblock(t) ==
    /\ ~panicked
    /\ IF status[t] \notin BlockedStatus \/ elem_find(thread_ready_list, t)
       THEN panic_spin
       ELSE /\ thread_ready_list' = list_push(thread_ready_list, t)
            /\ status' = [status EXCEPT ![t] = "TASK_READY"]
            /\ UNCHANGED << running, thread_all_list, ticks, intr, saved_intr,
                            panicked >>

-----------------------------------------------------------------------------
\* The code around the scheduler is any that keeps to its preconditions: a
\* resident thread never blocks, and only a blocked thread is unblocked.
Block == running \notin Resident /\ \E stat \in BlockedStatus : thread_block(stat)

Unblock == \E t \in Task : status[t] \in BlockedStatus /\ thread_unblock(t)

Next ==
    \/ \E t \in Task : thread_start(t)
    \/ intr_disable
    \/ intr_enable
    \/ intr_timer_handler
    \/ Block
    \/ Unblock

Spec == Init /\ [][Next]_vars

\* The 8259A keeps a timer interrupt that IF masks, so one that is due again
\* and again is taken; every cli of the code is followed by a sti.
Fairness == SF_vars(intr_timer_handler) /\ WF_vars(intr_enable)

FairSpec == Spec /\ Fairness

-----------------------------------------------------------------------------
TypeOK ==
    /\ running \in Task
    /\ status \in [Task -> task_status]
    /\ thread_ready_list \in Seq(Task)
    /\ thread_all_list \subseteq Task
    /\ ticks \in [Task -> 0..255]
    /\ intr \in intr_status
    /\ saved_intr \in [Task -> intr_status]
    /\ panicked \in BOOLEAN

\* The ready list holds every ready thread once and no other: through any
\* order of preemptions, blocks and wake-ups no runnable thread is lost, and
\* no node is linked into the list twice.
ReadyListExact ==
    /\ elements(thread_ready_list) = {t \in Task : status[t] = "TASK_READY"}
    /\ NoDuplicates(thread_ready_list)

\* Exactly the thread on the processor is marked TASK_RUNNING.
OneRunning == {t \in Task : status[t] = "TASK_RUNNING"} = {running}

\* thread_all_list holds the threads that were started.
AllListExact == thread_all_list = {t \in Task : status[t] # "TASK_NONE"}

SchedulerInv == ReadyListExact /\ OneRunning /\ AllListExact

\* No ASSERT of thread.c fails.  The one that depends on the rest of the
\* system is ASSERT(!list_empty(&thread_ready_list)) when a thread blocks.
NoPanic == ~panicked

\* A thread that is ready eventually runs, although thread_unblock lets woken
\* threads overtake it and no time slice is ever renewed.
NoStarvation ==
    \A t \in Task : status[t] = "TASK_READY" ~> status[t] = "TASK_RUNNING"

\* The comment in schedule(): a preempted thread has its time slice set to its
\* priority again.
SliceRestored ==
    [][\A t \in Task :
          status[t] = "TASK_RUNNING" /\ status'[t] = "TASK_READY"
              => ticks'[t] = priority[t]]_vars

=============================================================================
