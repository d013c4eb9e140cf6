------------------------------ MODULE Interrupts ------------------------------
(***************************************************************************)
(* The way into an interrupt handler and out of it again: the controllers  *)
(* as pic_init sets them up, the entries and intr_exit of kernel.S, the    *)
(* handlers that idt_table holds, and what the handlers, kernel_thread     *)
(* and thread_block do to the stacks of the threads and to IF.             *)
(*                                                                         *)
(* Module Thread takes it for granted that a thread which a handler or     *)
(* thread_block switches away from comes back with IF clear and then gets  *)
(* the IF it had, and that the next interrupt is not kept waiting; here is *)
(* the machinery that this rests on.  Which thread is next is of no        *)
(* matter, as is what a handler does besides.                              *)
(***************************************************************************)
EXTENDS Integers, Sequences, FiniteSets, SequencesExt, FiniteSetsExt

CONSTANTS
    Task, main_thread,
    Line,           \* the lines of the controller that devices use
    Exception       \* the exceptions that may happen

ASSUME InterruptsAssumption ==
    /\ IsFiniteSet(Task)
    /\ main_thread \in Task
    /\ Line \subseteq 0..7
    /\ Exception \subseteq 0..31

VARIABLES
    requests, in_service,   \* registers of the controller: sets of lines
    intr,
    running, ready,         \* the thread on the processor, and those that wait for it
    place,             \* of each thread: where it is, or where it resumes
    vec_nr,         \* the interrupt that the processor is in
    stack           \* of each thread: the words that interrupts have pushed

controller == << requests, in_service >>
threads == << running, ready >>

intrvars == << controller, intr, threads, place, vec_nr, stack >>

\* main has started the other threads, and is about to enable interrupts.
IntrInit ==
    /\ requests = {} /\ in_service = {}
    /\ intr = "off"
    /\ running = main_thread
    /\ ready \in SetToSeqs(Task \ {main_thread})
    /\ place = [t \in Task |-> IF t = main_thread THEN "masked" ELSE "kernel_thread"]
    /\ vec_nr = -1
    /\ stack = [t \in Task |-> << >>]

-----------------------------------------------------------------------------
\* pic_init: the master's lines begin at 0x20; timer and keyboard are not masked.
vector(line) == 32 + line

unmasked == {0, 1}

\* What idt_table holds for v after exception_init, timer_init and keyboard_init
handler(v) == CASE v = 32 -> "timer" [] v = 33 -> "keyboard" [] OTHER -> "general"

spurious == 39      \* and 0x2f, of the slave, whose lines are all masked

\* The exceptions for which the processor pushes an error code
with_code == {8, 10, 11, 12, 13, 14, 17}

\* The entries that leave the error code to the processor: ERROR_CODE
error_code_entries == {8, 10, 11, 13, 14, 17, 24, 26, 27, 29, 30}

pushed(flags, v) ==
    << flags, "cs", "eip" >>
        \o (IF v \in with_code THEN << "code" >> ELSE << >>)
        \o (IF v \in error_code_entries THEN << >> ELSE << "zero" >>)
        \o << "registers" >>

\* Faulty: the end of interrupt is sent when the handler is done.
end_of_interrupt_late(when, set) ==
    IF when = "exit" /\ set # {} THEN set \ {Min(set)} ELSE set

\* The command goes to both controllers before the handler is called; it ends
\* the interrupt of the highest priority, if there is one.
end_of_interrupt(when, set) ==
    IF when = "entry" /\ set # {} THEN set \ {Min(set)} ELSE set

\* An interrupt gate clears IF.
entry(v, set) ==
    /\ stack' = [stack EXCEPT ![running] = @ \o pushed(intr, v)]
    /\ intr' = "off"
    /\ vec_nr' = v
    /\ in_service' = end_of_interrupt("entry", set)
    /\ place' = [place EXCEPT ![running] = "handler"]
    /\ UNCHANGED threads

-----------------------------------------------------------------------------
raise(line) ==
    /\ line \notin requests
    /\ requests' = requests \cup {line}
    /\ UNCHANGED << in_service, intr, threads, place, vec_nr, stack >>

\* The controller interrupts unless it serves a line of that priority already.
interrupt(line) ==
    /\ intr = "on"
    /\ line \in requests \cap unmasked
    /\ \A other \in requests \cap unmasked : line <= other
    /\ \A other \in in_service : line < other
    /\ requests' = requests \ {line}
    /\ entry(vector(line), in_service \cup {line})

\* A request that is gone when the processor asks for it is taken for line 7's.
spurious_interrupt(line) ==
    /\ intr = "on"
    /\ line \in requests \cap unmasked
    /\ \A other \in in_service : line < other
    /\ requests' = requests \ {line}
    /\ entry(spurious, in_service)

\* What an exception's own handler does wrong is left out.
exception(v) ==
    /\ place[running] # "general" /\ vec_nr \notin Exception
    /\ entry(v, in_service)
    /\ UNCHANGED requests

-----------------------------------------------------------------------------
goes_to(location) == place' = [place EXCEPT ![running] = location]

\* schedule and switch_to: running goes on at location when it is its turn again.
\* With nobody ready the ASSERT would fail; module Thread shows there is somebody.
switch_to(queue, location) ==
    /\ queue # << >>
    /\ running' = Head(queue)
    /\ ready' = Tail(queue)
    /\ goes_to(location)
    /\ UNCHANGED << controller, intr, stack >>

in_handler(name) == place[running] = "handler" /\ handler(vec_nr) = name

\* The slice has ended, or not.
timer_handler ==
    /\ in_handler("timer")
    /\ vec_nr' = -1
    /\ \/ switch_to(Append(ready, running), "intr_exit")
       \/ goes_to("intr_exit") /\ UNCHANGED << controller, intr, threads, stack >>

blocked == Task \ ({running} \cup Range(ready))

\* thread_unblock, called by the handler or by a thread
wakes == \/ UNCHANGED ready
         \/ \E t \in blocked : ready' = << t >> \o ready

\* It puts a character into the buffer, where a thread may wait for it.
keyboard_handler ==
    /\ in_handler("keyboard")
    /\ vec_nr' = -1
    /\ wakes
    /\ goes_to("intr_exit")
    /\ UNCHANGED << controller, intr, running, stack >>

\* Anything but a spurious interrupt is printed, and that is the end.
general_intr_handler ==
    /\ in_handler("general")
    /\ vec_nr' = -1
    /\ goes_to(IF vec_nr = spurious THEN "intr_exit" ELSE "general")
    /\ UNCHANGED << controller, intr, threads, stack >>

\* Faulty: the error code is left on the stack.
popped_short(words) == SubSeq(words, 1, Len(words) - 1)

\* popad and the segments; add esp, 4
popped(words) == SubSeq(words, 1, Len(words) - 2)

\* iretd takes whatever the last three words are.
intr_exit ==
    LET words == popped(stack[running])
        flags == words[Len(words) - 2]
    IN
    /\ place[running] = "intr_exit"
    /\ stack' = [stack EXCEPT ![running] = SubSeq(words, 1, Len(words) - 3)]
    /\ intr' = flags
    /\ in_service' = end_of_interrupt("exit", in_service)
    /\ goes_to("code")
    /\ UNCHANGED << requests, threads, vec_nr >>

-----------------------------------------------------------------------------
\* switch_to returns into kernel_thread the first time.
kernel_thread ==
    /\ place[running] = "kernel_thread"
    /\ intr' = "on"
    /\ goes_to("code")
    /\ UNCHANGED << controller, threads, vec_nr, stack >>

intr_disable ==
    /\ place[running] = "code"
    /\ intr' = "off"
    /\ goes_to("masked")
    /\ UNCHANGED << controller, threads, vec_nr, stack >>

\* intr_set_status(old_status), or the intr_enable of main
intr_enable ==
    /\ place[running] = "masked"
    /\ intr' = "on"
    /\ goes_to("code")
    /\ UNCHANGED << controller, threads, vec_nr, stack >>

thread_block == place[running] = "masked" /\ switch_to(ready, "masked") /\ UNCHANGED vec_nr

thread_unblock ==
    /\ place[running] \in {"code", "masked"}
    /\ \E t \in blocked : ready' = << t >> \o ready
    /\ UNCHANGED << controller, intr, running, place, vec_nr, stack >>

IntrNext ==
    \/ \E line \in Line :
          raise(line) \/ interrupt(line) \/ spurious_interrupt(line)
    \/ \E v \in Exception : exception(v)
    \/ timer_handler \/ keyboard_handler \/ general_intr_handler \/ intr_exit
    \/ kernel_thread \/ intr_disable \/ intr_enable \/ thread_block \/ thread_unblock

IntrSpec == IntrInit /\ [][IntrNext]_intrvars

-----------------------------------------------------------------------------
interrupted == {pushed("on", vector(line)) : line \in 0..7}

\* Whoever leaves the processor inside of a handler takes nothing with it that
\* the others need: as long as no exception has stopped the machine, a thread
\* runs its own code with its own stack and, unless it has masked interrupts
\* itself, with IF set and no interrupt in service, so that the controller
\* delivers the next one, whichever threads are still inside of their handlers;
\* and each of these keeps the one frame with the IF it was interrupted with.
InterruptsReturn ==
    LET there == place[running] IN
    /\ intr = "on" <=> there = "code"
    /\ intr = "on" => in_service = {}
    /\ there \in {"code", "masked", "kernel_thread"} => stack[running] = << >>
    /\ \A t \in Task \ {running} :
          IF place[t] = "intr_exit" THEN stack[t] \in interrupted ELSE stack[t] = << >>

=============================================================================
