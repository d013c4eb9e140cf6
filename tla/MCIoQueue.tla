----------------------------- MODULE MCIoQueue ------------------------------
(***************************************************************************)
(* Thread and IoQueue for TLC.  Shared: two threads read, like k_thread_a  *)
(* and k_thread_b, and the keyboard writes; a third thread writes as well, *)
(* or, as in the kernel, has nothing to do with the queue, like            *)
(* k_thread_c; or nobody uses the queue, and the threads do whatever       *)
(* Thread allows.  Pair: a thread writes, a thread reads, and no key is    *)
(* ever pressed.                                                           *)
(***************************************************************************)
EXTENDS IoQueue

CONSTANTS main, a, b, w, x, y

SharedTask == {main, a, b, w}
SharedConsumers == {a, b}
Sharedpriority == [t \in SharedTask |-> IF t = a THEN 2 ELSE IF t = w THEN 1 ELSE 0]

PairTask == {main, a, w}
PairConsumers == {a}
Pairpriority == [t \in PairTask |-> 0]

MCProducers == {w}

MCResident == {main}

MCChar == {x, y}

NoKeys == {}

-----------------------------------------------------------------------------
\* Who writes into the queue, or whether it is left alone, as in module Thread
VARIABLE use

MCInit == IoqInit /\ use \in {"keyboard", "threads", "scheduler"}

MCNext ==
    /\ UNCHANGED use
    /\ \/ /\ use # "scheduler"
          /\ IoqNext
          /\ use = "keyboard" => \A t \in Producers : ioq_pc'[t] = "outside"
       \/ use = "scheduler" /\ Next /\ UNCHANGED << ioqvars, character, ioq_pc >>

Enables ==
    /\ UNCHANGED use
    /\ IF use = "scheduler" THEN intr_enable /\ UNCHANGED << ioqvars, character, ioq_pc >>
                            ELSE IoqBoot

\* The fairness of Thread and, when the queue is used, of IoQueue; none for a
\* thread that writes.
MCSpec ==
    /\ MCInit
    /\ [][MCNext]_<< use, queuevars >>
    /\ WF_queuevars(Enables)
    /\ SF_queuevars(IoqTimer /\ UNCHANGED use)
    /\ \A t \in Consumers : SF_queuevars(use # "scheduler" /\ IoqStep(t) /\ UNCHANGED use)

\* Only the queue's own threads do anything.
PairSpec ==
    /\ IoqInit /\ use = "threads"
    /\ [][IoqNext /\ UNCHANGED use]_<< use, queuevars >>

\* A thread that is ready eventually runs, although thread_unblock lets woken
\* threads overtake it and no time slice is ever renewed.
StarvesNobody == use = "scheduler" => NoStarvation

\* A character in the queue is eventually taken out, whatever else arrives, when
\* only the keyboard writes, as it does in the kernel.
KernelTakes == use = "keyboard" => CharactersTaken

=============================================================================
