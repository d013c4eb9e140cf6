---------------------------- MODULE DevicesProofs ---------------------------
(***************************************************************************)
(* What the kernel meets first, for any number of threads, lines, keys,    *)
(* cells, digits and memory areas: interrupts leave every thread its stack *)
(* and its IF, the keyboard's modifiers follow the keys, the loader hands  *)
(* over to a kernel that is in place, and the screen shows what was        *)
(* printed.                                                                *)
(***************************************************************************)
EXTENDS Interrupts, Keyboard, Loader, TextOutput, Induction

-----------------------------------------------------------------------------
\* Interrupts

Place == {"masked", "kernel_thread", "code", "handler", "intr_exit", "general"}

\* The frame of a line's interrupt in a thread's own code
frame == << "on", "cs", "eip", "zero", "registers" >>

\* Of the threads off the processor, each is where a switch left it.
Waits(t) ==
    /\ place[t] \in {"masked", "kernel_thread", "intr_exit"}
    /\ stack[t] = IF place[t] = "intr_exit" THEN frame ELSE << >>

\* What the running thread has pushed, until an exception has stopped it
Runs(t) ==
    /\ place[t] \in {"code", "masked", "kernel_thread"} => stack[t] = << >>
    /\ place[t] = "intr_exit" => stack[t] = frame
    /\ place[t] = "handler" /\ vec_nr \notin Exception =>
            stack[t] = frame /\ vec_nr \in 32..39

FrameInv ==
    /\ running \in Task
    /\ ready \in Seq(Task)
    /\ place \in [Task -> Place]
    /\ stack = [t \in Task |-> stack[t]]
    /\ in_service = {}
    /\ intr = IF place[running] = "code" THEN "on" ELSE "off"
    /\ \A t \in Task \ {running} : Waits(t)
    /\ Runs(running)

-----------------------------------------------------------------------------
\* None of the lines' entries has an error code from the processor.
LEMMA FrameOfLine ==
    ASSUME NEW v \in 32..39
    PROVE  pushed("on", v) = frame
<1>1. v \notin with_code /\ v \notin error_code_entries
  BY DEF with_code, error_code_entries
<1>2. pushed("on", v)
         = << "on", "cs", "eip" >> \o << >> \o << "zero" >> \o << "registers" >>
  BY <1>1 DEF pushed
<1> QED
  BY <1>2 DEF frame

LEMMA FramesOfLines == interrupted = {frame}
<1>1. \A line \in 0..7 : vector(line) \in 32..39
  BY DEF vector
<1>2. \A line \in 0..7 : pushed("on", vector(line)) = frame
  BY <1>1, FrameOfLine
<1> QED
  BY <1>2 DEF interrupted

\* The end of interrupt that is sent on entry ends the interrupt itself.
LEMMA EndsItself ==
    ASSUME NEW line \in 0..7
    PROVE  end_of_interrupt("entry", {line}) = {}
<1>1. Min({line}) = line
  BY DEF Min
<1> QED
  BY <1>1 DEF end_of_interrupt

\* Another thread gets the processor from one whose frame is in order.
LEMMA SwitchKeeps ==
    ASSUME FrameInv, NEW queue \in Seq(Task), NEW location,
           switch_to(queue, location),
           location \in {"masked", "intr_exit"},
           stack[running] = IF location = "intr_exit" THEN frame ELSE << >>,
           place[running] # "code"
    PROVE  FrameInv'
<1>1. /\ running' \in Task /\ ready' \in Seq(Task)
      /\ place' = [place EXCEPT ![running] = location]
      /\ UNCHANGED << requests, in_service, intr, stack >>
  BY DEF switch_to, goes_to, controller
<1>2. \A t \in Task : Waits(t)'
  BY <1>1 DEF FrameInv, Waits
<1>3. Runs(running)'
  BY <1>1, <1>2 DEF Waits, Runs
<1>4. place' \in [Task -> Place]
  BY <1>1 DEF FrameInv, Place
<1>5. intr' = IF place'[running'] = "code" THEN "on" ELSE "off"
  BY <1>1, <1>2 DEF FrameInv, Waits
<1> QED
  BY <1>1, <1>2, <1>3, <1>4, <1>5 DEF FrameInv

\* The running thread moves on.
LEMMA MoveKeeps ==
    ASSUME FrameInv, NEW location \in Place,
           goes_to(location),
           running' = running, ready' \in Seq(Task), in_service' = {},
           intr' = IF location = "code" THEN "on" ELSE "off",
           NEW words, stack' = [stack EXCEPT ![running] = words],
           location \in {"code", "masked", "kernel_thread"} => words = << >>,
           location = "intr_exit" => words = frame,
           location = "handler" /\ vec_nr' \notin Exception =>
               words = frame /\ vec_nr' \in 32..39
    PROVE  FrameInv'
<1>1. place' = [place EXCEPT ![running] = location]
  BY DEF goes_to
<1>2. \A t \in Task \ {running} : Waits(t)'
  BY <1>1 DEF FrameInv, Waits
<1>3. Runs(running)'
  BY <1>1 DEF FrameInv, Runs
<1> QED
  BY <1>1, <1>2, <1>3 DEF FrameInv

\* An interrupt or an exception
LEMMA EntryKeeps ==
    ASSUME FrameInv, NEW v, NEW set, entry(v, set),
           end_of_interrupt("entry", set) = {},
           v \in Exception \/ (v \in 32..39 /\ intr = "on")
    PROVE  FrameInv'
<1>1. /\ stack' = [stack EXCEPT ![running] = stack[running] \o pushed(intr, v)]
      /\ intr' = "off" /\ vec_nr' = v /\ in_service' = {}
      /\ goes_to("handler") /\ running' = running /\ ready' = ready
  BY DEF entry, goes_to, threads, FrameInv
<1>2. v \notin Exception => stack[running] \o pushed(intr, v) = frame
  <2> SUFFICES ASSUME v \in 32..39, intr = "on"
               PROVE  stack[running] \o pushed(intr, v) = frame
    OBVIOUS
  <2>1. stack[running] = << >>
    BY DEF FrameInv, Runs
  <2>2. pushed(intr, v) = frame
    BY FrameOfLine
  <2> QED
    BY <2>1, <2>2 DEF frame
<1> QED
  BY <1>1, <1>2, MoveKeeps DEF Place, FrameInv

\* The running thread moves on with the stack it has.
LEMMA WalkKeeps ==
    ASSUME FrameInv, NEW location \in Place,
           goes_to(location),
           UNCHANGED << running, in_service, stack >>, ready' \in Seq(Task),
           intr' = IF location = "code" THEN "on" ELSE "off",
           location \in {"code", "masked", "kernel_thread"} => stack[running] = << >>,
           location = "intr_exit" => stack[running] = frame,
           location # "handler"
    PROVE  FrameInv'
<1>1. stack' = [stack EXCEPT ![running] = stack[running]]
  BY DEF FrameInv
<1>2. in_service' = {}
  BY DEF FrameInv
<1> QED
  BY <1>1, <1>2, MoveKeeps

\* The thread that is interrupted by a line has pushed nothing.
LEMMA HandlerFrame ==
    ASSUME FrameInv, NEW name, in_handler(name), vec_nr \notin Exception
    PROVE  stack[running] = frame /\ place[running] = "handler"
BY DEF in_handler, FrameInv, Runs

LEMMA WokenFirst ==
    ASSUME ready \in Seq(Task), NEW t \in blocked
    PROVE  << t >> \o ready \in Seq(Task)
<1>1. t \in Task
  BY DEF blocked
<1> QED
  BY <1>1

LEMMA FrameInvNext ==
    ASSUME FrameInv, [IntrNext]_intrvars
    PROVE  FrameInv'
<1> USE InterruptsAssumption DEF InterruptsAssumption
<1>0. running \in Task /\ ready \in Seq(Task) /\ in_service = {}
  BY DEF FrameInv
<1>1. ASSUME NEW line \in Line, raise(line)
      PROVE  FrameInv'
  BY <1>1 DEF raise, threads, FrameInv, Waits, Runs
<1>2. ASSUME NEW line \in Line, interrupt(line)
      PROVE  FrameInv'
  <2>1. entry(vector(line), in_service \cup {line}) /\ intr = "on"
    BY <1>2 DEF interrupt
  <2>2. in_service \cup {line} = {line} /\ line \in 0..7 /\ vector(line) \in 32..39
    BY <1>0 DEF vector
  <2>3. end_of_interrupt("entry", in_service \cup {line}) = {}
    BY <2>2, EndsItself
  <2> QED
    BY <2>1, <2>2, <2>3, EntryKeeps
<1>3. ASSUME NEW line \in Line, spurious_interrupt(line)
      PROVE  FrameInv'
  <2>1. entry(spurious, in_service) /\ intr = "on" /\ spurious \in 32..39
    BY <1>3 DEF spurious_interrupt, spurious
  <2>2. end_of_interrupt("entry", in_service) = {}
    BY <1>0 DEF end_of_interrupt
  <2> QED
    BY <2>1, <2>2, EntryKeeps
<1>4. ASSUME NEW v \in Exception, exception(v)
      PROVE  FrameInv'
  <2>1. entry(v, in_service)
    BY <1>4 DEF exception
  <2>2. end_of_interrupt("entry", in_service) = {}
    BY <1>0 DEF end_of_interrupt
  <2> QED
    BY <2>1, <2>2, EntryKeeps
<1>5. CASE timer_handler
  <2>1. vec_nr = 32
    BY <1>5 DEF timer_handler, in_handler, handler
  <2>2. stack[running] = frame /\ place[running] = "handler"
    BY <1>5, <2>1, HandlerFrame DEF timer_handler
  <2>3. CASE switch_to(Append(ready, running), "intr_exit")
    <3> DEFINE queue == Append(ready, running)
    <3>1. queue \in Seq(Task)
      BY <1>0
    <3>2. switch_to(queue, "intr_exit")
      BY <2>3
    <3> HIDE DEF queue
    <3> QED
      BY <2>2, <3>1, <3>2, SwitchKeeps
  <2>4. CASE goes_to("intr_exit") /\ UNCHANGED << controller, intr, threads, stack >>
    <3>1. intr' = "off" /\ UNCHANGED << running, in_service, stack, ready >>
      BY <2>2, <2>4 DEF FrameInv, controller, threads
    <3> QED
      BY <1>0, <2>2, <2>4, <3>1, WalkKeeps DEF Place
  <2> QED
    BY <1>5, <2>3, <2>4 DEF timer_handler
<1>6. CASE keyboard_handler
  <2>1. vec_nr = 33
    BY <1>6 DEF keyboard_handler, in_handler, handler
  <2>2. stack[running] = frame /\ place[running] = "handler"
    BY <1>6, <2>1, HandlerFrame DEF keyboard_handler
  <2>3. ready' \in Seq(Task)
    <3>1. ready' = ready \/ \E t \in blocked : ready' = << t >> \o ready
      BY <1>6 DEF keyboard_handler, wakes
    <3> QED
      BY <1>0, <3>1, WokenFirst
  <2>4. /\ intr' = "off" /\ UNCHANGED << running, in_service, stack >>
        /\ goes_to("intr_exit")
    BY <1>6, <2>2 DEF keyboard_handler, FrameInv, controller
  <2> QED
    BY <2>2, <2>3, <2>4, WalkKeeps DEF Place
<1>7. CASE general_intr_handler
  <2>1. place[running] = "handler"
    BY <1>7 DEF general_intr_handler, in_handler
  <2>2. intr' = "off" /\ UNCHANGED << running, in_service, stack, ready >>
    BY <1>7, <2>1 DEF general_intr_handler, FrameInv, controller, threads
  <2>3. CASE vec_nr = spurious
    <3>1. stack[running] = frame
      BY <1>7, <2>3, HandlerFrame DEF general_intr_handler, spurious
    <3>2. goes_to("intr_exit")
      BY <1>7, <2>3 DEF general_intr_handler
    <3> QED
      BY <1>0, <2>2, <3>1, <3>2, WalkKeeps DEF Place
  <2>4. CASE vec_nr # spurious
    <3>1. goes_to("general")
      BY <1>7, <2>4 DEF general_intr_handler
    <3> QED
      BY <1>0, <2>2, <3>1, WalkKeeps DEF Place
  <2> QED
    BY <2>3, <2>4
<1>8. CASE intr_exit
  <2> DEFINE words == popped(stack[running])
  <2>1. stack[running] = frame
    BY <1>8 DEF intr_exit, FrameInv, Runs
  <2>2. words = << "on", "cs", "eip" >>
    <3>1. words = SubSeq(frame, 1, 3)
      BY <2>1 DEF popped, frame
    <3> DEFINE Word == {"on", "cs", "eip", "zero", "registers"}
    <3>2. frame \in Seq(Word) /\ Len(frame) = 5
      BY DEF frame
    <3>3. /\ words \in Seq(Word) /\ Len(words) = 3
          /\ \A i \in 1..3 : words[i] = frame[i]
      BY <3>1, <3>2
    <3>4. words[1] = "on" /\ words[2] = "cs" /\ words[3] = "eip"
      BY <3>3 DEF frame
    <3> HIDE DEF words
    <3> QED
      BY <3>3, <3>4
  <2>3. words[Len(words) - 2] = "on" /\ SubSeq(words, 1, Len(words) - 3) = << >>
    BY <2>2
  <2>4. end_of_interrupt("exit", in_service) = {}
    BY <1>0 DEF end_of_interrupt
  <2>5. /\ stack' = [stack EXCEPT ![running] = << >>]
        /\ intr' = "on" /\ in_service' = {}
        /\ goes_to("code") /\ UNCHANGED << running, ready >>
    BY <1>8, <2>3, <2>4 DEF intr_exit, threads
  <2> QED
    BY <1>0, <2>5, MoveKeeps DEF Place
<1>9. CASE kernel_thread \/ intr_enable
  <2>1. place[running] \in {"kernel_thread", "masked"}
    BY <1>9 DEF kernel_thread, intr_enable
  <2>2. /\ intr' = "on" /\ goes_to("code")
        /\ UNCHANGED << running, in_service, stack, ready >>
    BY <1>9 DEF kernel_thread, intr_enable, controller, threads
  <2>3. stack[running] = << >>
    BY <2>1 DEF FrameInv, Runs
  <2> QED
    BY <1>0, <2>2, <2>3, WalkKeeps DEF Place
<1>10. CASE intr_disable
  <2>1. /\ place[running] = "code" /\ intr' = "off" /\ goes_to("masked")
        /\ UNCHANGED << running, in_service, stack, ready >>
    BY <1>10 DEF intr_disable, controller, threads
  <2>2. stack[running] = << >>
    BY <2>1 DEF FrameInv, Runs
  <2> QED
    BY <1>0, <2>1, <2>2, WalkKeeps DEF Place
<1>11. CASE thread_block
  <2>1. place[running] = "masked" /\ switch_to(ready, "masked")
    BY <1>11 DEF thread_block
  <2>2. stack[running] = << >>
    BY <2>1 DEF FrameInv, Runs
  <2> QED
    BY <1>0, <2>1, <2>2, SwitchKeeps
<1>12. CASE thread_unblock
  <2>1. ready' \in Seq(Task)
    BY <1>0, <1>12, WokenFirst DEF thread_unblock
  <2> QED
    BY <1>12, <2>1 DEF thread_unblock, controller, FrameInv, Waits, Runs
<1>13. CASE UNCHANGED intrvars
  BY <1>13 DEF intrvars, controller, threads, FrameInv, Waits, Runs
<1> QED
  BY <1>1, <1>2, <1>3, <1>4, <1>5, <1>6, <1>7, <1>8, <1>9, <1>10, <1>11, <1>12,
     <1>13 DEF IntrNext

LEMMA FrameInvInit == IntrInit => FrameInv
<1> SUFFICES ASSUME IntrInit
             PROVE  FrameInv
  OBVIOUS
<1> USE InterruptsAssumption DEF InterruptsAssumption, IntrInit
<1>1. IsFiniteSet(Task \ {main_thread})
  BY FS_RemoveElement
<1>2. Cardinality(Task \ {main_thread}) \in Nat
  BY <1>1, FS_CardinalityType
<1>3. ready \in Seq(Task)
  <2>1. ready \in [1..Cardinality(Task \ {main_thread}) -> Task \ {main_thread}]
    BY DEF SetToSeqs
  <2>2. PICK n \in Nat : ready \in [1..n -> Task \ {main_thread}]
    BY <1>2, <2>1
  <2>3. ready \in [1..n -> Task]
    BY <2>2
  <2> QED
    BY <2>3
<1> QED
  BY <1>3 DEF FrameInv, Waits, Runs, Place

\* Whoever leaves the processor inside of a handler, and in whatever order the
\* others come back, each keeps the frame it was interrupted with, and a thread
\* in its own code has IF set, its own stack, and no interrupt in service.
THEOREM HandlersReturn == IntrSpec => []InterruptsReturn
<1>1. FrameInv => InterruptsReturn
  BY FramesOfLines DEF FrameInv, InterruptsReturn, Waits, Runs
<1> QED
  BY <1>1, FrameInvInit, FrameInvNext, PTL DEF IntrSpec

-----------------------------------------------------------------------------
\* The keyboard

low_code == (1..127) \ {96}

pairs == {ctrl, shift, alt}

\* The bytes of an event's code, or what is left of them, are on the wire.
coming(code) ==
    \/ wire = bytes(code) /\ ext_scancode = FALSE
    \/ wire = << code % 256 >> /\ ext_scancode = TRUE /\ code >= extended

\* A flag as ModifiersExact wants it
agrees(flag, pair) ==
    IF pair \in overlap THEN flag => held(pair) ELSE flag = held(pair)

\* The flags of the pairs that k does not belong to
AgreeBut(k) ==
    /\ k \notin ctrl => agrees(ctrl_status, ctrl)
    /\ k \notin shift => agrees(shift_status, shift)
    /\ k \notin alt => agrees(alt_status, alt)

KeyboardTypeOK ==
    /\ ctrl_status \in BOOLEAN /\ shift_status \in BOOLEAN /\ alt_status \in BOOLEAN
    /\ caps_lock_status \in BOOLEAN /\ caps_on \in BOOLEAN
    /\ down \in SUBSET Key

\* The pairs of which both keys are down are on record, and one of each that is
\* on record is down.
OverlapExact ==
    \A pair \in pairs : /\ pair \subseteq down => pair \in overlap
                        /\ pair \in overlap => held(pair)

Quiet ==
    /\ wire = << >> /\ ext_scancode = FALSE
    /\ agrees(ctrl_status, ctrl) /\ agrees(shift_status, shift) /\ agrees(alt_status, alt)
    /\ caps_lock_status = caps_on
    /\ TypedAsPressed

\* A key has been pressed, and the handler has yet to see its code.
Pressed(k) ==
    /\ coming(k) /\ k \in down
    /\ AgreeBut(k)
    /\ caps_on = (caps_lock_status # (k = caps_lock_make))
    /\ typed = NULL

\* A key has been released; of its pair no other is down, or both were before.
Released(k) ==
    /\ coming(k + 128) /\ k \in Key \ down
    /\ AgreeBut(k)
    /\ \A pair \in pairs : k \in pair => pair \in overlap \/ ~held(pair)
    /\ caps_on = caps_lock_status
    /\ typed = NULL

KeyboardInv ==
    /\ KeyboardTypeOK
    /\ OverlapExact
    /\ Quiet \/ (\E k \in Key : Pressed(k)) \/ (\E k \in Key : Released(k))

\* The codes of a key: neither byte of them is the prefix, and only the break
\* code is taken for one.
LEMMA KeyCodes ==
    ASSUME NEW k \in Key
    PROVE  /\ k \in Nat
           /\ ~is_break(k) /\ is_break(k + 128) /\ k + 128 - 128 = k
           /\ k < extended => k # 224 /\ k + 128 # 224 /\ k + 128 < extended
           /\ k >= extended =>
                /\ k % 256 # 224 /\ (k + 128) % 256 # 224
                /\ extended + (k % 256) = k /\ extended + ((k + 128) % 256) = k + 128
                /\ k + 128 >= extended
<1>1. k \in low_code \/ k - extended \in low_code
  BY KeyAssumption DEF KeyAssumption, low_code, extended
<1>2. CASE k \in low_code
  <2>1. k \in 1..127 /\ k # 96
    BY <1>2 DEF low_code
  <2>2. k \div 128 = 0 /\ (k + 128) \div 128 = 1
    BY <2>1
  <2> QED
    BY <2>1, <2>2 DEF is_break, extended
<1>3. CASE k - extended \in low_code
  <2>1. PICK b \in 1..127 : k - extended = b /\ b # 96
    BY <1>3 DEF low_code
  <2>2. k = 57344 + b
    <3>1. k \in Int
      BY <1>3, KeyAssumption DEF KeyAssumption, low_code, extended
    <3> QED
      BY <2>1, <3>1 DEF extended
  <2>3. k \div 128 = 448 /\ (k + 128) \div 128 = 449
    BY <2>2
  <2>4. k % 256 = b /\ (k + 128) % 256 = b + 128
    BY <2>2
  <2> QED
    BY <2>1, <2>2, <2>3, <2>4 DEF is_break, extended
<1> QED
  BY <1>1, <1>2, <1>3

\* The handler reads the prefix, or it has the whole code.
LEMMA HandlerReads ==
    ASSUME NEW code \in Nat, coming(code), intr_keyboard_handler,
           code < extended => code # 224,
           code >= extended => code % 256 # 224 /\ extended + (code % 256) = code
    PROVE  /\ UNCHANGED << down, overlap, caps_on >>
           /\ \/ coming(code)' /\ UNCHANGED << status, typed >>
              \/ wire' = << >> /\ ext_scancode' = FALSE /\ handle(code)
<1>1. CASE wire = bytes(code) /\ ext_scancode = FALSE /\ code >= extended
  <2>1. wire = << 224, code % 256 >>
    BY <1>1 DEF bytes
  <2>2. Head(wire) = 224 /\ Tail(wire) = << code % 256 >>
    BY <2>1
  <2> QED
    BY <1>1, <2>2 DEF intr_keyboard_handler, coming
<1>2. CASE wire = bytes(code) /\ ext_scancode = FALSE /\ code < extended
  <2>1. wire = << code >>
    BY <1>2 DEF bytes, extended
  <2>2. Head(wire) = code /\ Tail(wire) = << >> /\ merged(code) = code
    BY <1>2, <2>1 DEF merged
  <2> QED
    BY <1>2, <2>2 DEF intr_keyboard_handler, prefix_done
<1>3. CASE wire = << code % 256 >> /\ ext_scancode = TRUE /\ code >= extended
  <2>1. Head(wire) = code % 256 /\ Tail(wire) = << >> /\ merged(code % 256) = code
    BY <1>3 DEF merged
  <2> QED
    BY <1>3, <2>1 DEF intr_keyboard_handler, prefix_done
<1>4. code >= extended \/ code < extended
  BY DEF extended
<1> QED
  BY <1>1, <1>2, <1>3, <1>4 DEF coming

\* Of the keys that are known, the low byte tells which pair a key is of.
LEMMA KnownCodes ==
    ASSUME NEW k \in Key
    PROVE  /\ ~is_known(k) => k \notin ctrl \cup shift \cup alt \cup {caps_lock_make}
           /\ is_known(k) =>
                /\ k % 256 \in ctrl <=> k \in ctrl
                /\ k % 256 \in shift <=> k \in shift
                /\ k % 256 \in alt <=> k \in alt
                /\ k % 256 = caps_lock_make <=> k = caps_lock_make
                /\ k % 256 \notin invisible => k \in 1..58 /\ k % 256 = k
           /\ k % 256 \notin invisible /\ is_known(k) =>
                k \notin ctrl \cup shift \cup alt \cup {caps_lock_make}
<1>1. ~is_known(k) => k \notin ctrl \cup shift \cup alt \cup {caps_lock_make}
  BY DEF is_known, ctrl, shift, alt, ctrl_l_make, ctrl_r_make, shift_l_make, shift_r_make,
         alt_l_make, alt_r_make, caps_lock_make
<1>2. CASE k \in 1..58
  <2>1. k % 256 = k
    BY <1>2
  <2> QED
    BY <1>1, <1>2, <2>1 DEF invisible, ctrl, shift, alt, ctrl_l_make, ctrl_r_make, shift_l_make,
       shift_r_make, alt_l_make, alt_r_make, caps_lock_make
<1>3. CASE k = ctrl_r_make
  <2>1. k % 256 = 29
    BY <1>3 DEF ctrl_r_make
  <2> QED
    BY <1>1, <1>3, <2>1 DEF invisible, ctrl, shift, alt, ctrl_l_make, ctrl_r_make, shift_l_make,
       shift_r_make, alt_l_make, alt_r_make, caps_lock_make
<1>4. CASE k = alt_r_make
  <2>1. k % 256 = 56
    BY <1>4 DEF alt_r_make
  <2> QED
    BY <1>1, <1>4, <2>1 DEF invisible, ctrl, shift, alt, ctrl_l_make, ctrl_r_make, shift_l_make,
       shift_r_make, alt_l_make, alt_r_make, caps_lock_make
<1> QED
  BY <1>1, <1>2, <1>3, <1>4 DEF is_known

LEMMA KeyboardInvInit ==
    ASSUME Init
    PROVE  KeyboardInv
<1>1. ctrl # {} /\ shift # {} /\ alt # {}
  BY DEF ctrl, shift, alt
<1>2. KeyboardTypeOK
  BY DEF Init, KeyboardTypeOK
<1>3. OverlapExact
  BY <1>1 DEF Init, OverlapExact, pairs
<1>4. Quiet
  BY DEF Init, Quiet, agrees, held, TypedAsPressed
<1> QED
  BY <1>2, <1>3, <1>4 DEF KeyboardInv

LEMMA PressKeepsInv ==
    ASSUME KeyboardInv, NEW k \in Key, press(k)
    PROVE  KeyboardInv'
<1>1. /\ wire = << >> /\ wire' = bytes(k)
      /\ down' = down \cup {k}
      /\ overlap' = overlap \cup {pair \in pairs : pair \subseteq down'}
      /\ caps_on' = (caps_on # (k = caps_lock_make))
      /\ typed' = NULL
      /\ UNCHANGED << ctrl_status, shift_status, alt_status, caps_lock_status, ext_scancode >>
  BY DEF press, pairs, status
<1>2. Quiet
  <2>1. \A code : bytes(code) # << >> /\ << code % 256 >> # << >>
    BY DEF bytes
  <2>2. \A code : ~coming(code)
    BY <1>1, <2>1 DEF coming
  <2> QED
    BY <2>2 DEF KeyboardInv, Pressed, Released
<1>3. KeyboardTypeOK'
  BY <1>1 DEF KeyboardInv, KeyboardTypeOK
<1>4. OverlapExact'
  BY <1>1 DEF KeyboardInv, OverlapExact, held, pairs, ctrl, shift, alt
<1>5. \A pair \in pairs : k \notin pair =>
        /\ pair \in overlap' <=> pair \in overlap
        /\ held(pair)' = held(pair)
  BY <1>1 DEF KeyboardInv, OverlapExact, held
<1>6. AgreeBut(k)'
  BY <1>1, <1>2, <1>5 DEF Quiet, AgreeBut, agrees, pairs
<1>7. Pressed(k)'
  <2>1. coming(k)'
    BY <1>1, <1>2 DEF Quiet, coming
  <2>2. (caps_on = (caps_lock_status # (k = caps_lock_make)))'
    BY <1>1, <1>2 DEF Quiet
  <2> QED
    BY <1>1, <1>6, <2>1, <2>2 DEF Pressed
<1> QED
  BY <1>3, <1>4, <1>7 DEF KeyboardInv

LEMMA ReleaseKeepsInv ==
    ASSUME KeyboardInv, NEW k \in Key, release(k)
    PROVE  KeyboardInv'
<1>1. /\ wire = << >> /\ wire' = bytes(k + 128)
      /\ k \in down /\ down' = down \ {k}
      /\ overlap' = {pair \in overlap : pair \cap down' # {}}
      /\ typed' = NULL
      /\ UNCHANGED << ctrl_status, shift_status, alt_status, caps_lock_status, ext_scancode,
                      caps_on >>
  BY DEF release, status
<1>2. Quiet
  <2>1. \A code : bytes(code) # << >> /\ << code % 256 >> # << >>
    BY DEF bytes
  <2>2. \A code : ~coming(code)
    BY <1>1, <2>1 DEF coming
  <2> QED
    BY <2>2 DEF KeyboardInv, Pressed, Released
<1>3. KeyboardTypeOK'
  BY <1>1 DEF KeyboardInv, KeyboardTypeOK
<1>4. OverlapExact'
  <2> SUFFICES ASSUME NEW pair \in pairs
               PROVE  /\ pair \subseteq down' => pair \in overlap'
                      /\ pair \in overlap' => pair \cap down' # {}
    BY <1>1 DEF OverlapExact, held
  <2>1. pair # {}
    BY DEF pairs, ctrl, shift, alt
  <2> QED
    BY <1>1, <2>1 DEF KeyboardInv, OverlapExact
<1>5. \A pair \in pairs : k \notin pair =>
        /\ pair \in overlap' <=> pair \in overlap
        /\ held(pair)' = held(pair)
  BY <1>1 DEF KeyboardInv, OverlapExact, held
<1>6. AgreeBut(k)'
  BY <1>1, <1>2, <1>5 DEF Quiet, AgreeBut, agrees, pairs
<1>7. \A pair \in pairs : k \in pair => pair \in overlap' \/ ~held(pair)'
  <2> SUFFICES ASSUME NEW pair \in pairs, k \in pair, NEW other \in pair, other \in down'
               PROVE  pair \in overlap'
    BY DEF held
  <2>1. pair = {k, other} /\ pair \subseteq down
    BY <1>1 DEF pairs, ctrl, shift, alt
  <2>2. pair \in overlap
    BY <2>1 DEF KeyboardInv, OverlapExact
  <2> QED
    BY <1>1, <2>2
<1>8. Released(k)'
  <2>1. coming(k + 128)'
    BY <1>1, <1>2 DEF Quiet, coming
  <2> QED
    BY <1>1, <1>2, <1>6, <1>7, <2>1 DEF Quiet, Released
<1> QED
  BY <1>3, <1>4, <1>8 DEF KeyboardInv

\* What the handler does to a flag agrees with what the event did to the keys.
LEMMA HandlePress ==
    ASSUME KeyboardInv, NEW k \in Key, Pressed(k), handle(k),
           UNCHANGED << down, overlap, caps_on >>, wire' = << >>, ext_scancode' = FALSE
    PROVE  KeyboardInv'
<1>1. ~is_break(k)
  BY KeyCodes
<1>2. \A pair : held(pair)' = held(pair) /\ (k \in pair => held(pair))
  BY DEF held, Pressed
<1>3. OverlapExact'
  BY <1>2 DEF KeyboardInv, OverlapExact
<1>4. typed = NULL /\ caps_on = (caps_lock_status # (k = caps_lock_make)) /\ AgreeBut(k)
  BY DEF Pressed
<1>5. CASE ~is_known(k)
  <2>1. UNCHANGED << ctrl_status, shift_status, alt_status, caps_lock_status, typed >>
    BY <1>1, <1>5 DEF handle, status
  <2>2. k \notin ctrl \cup shift \cup alt /\ k # caps_lock_make
    BY <1>5, KnownCodes
  <2>3. KeyboardTypeOK'
    BY <2>1 DEF KeyboardInv, KeyboardTypeOK
  <2>4. /\ agrees(ctrl_status, ctrl)' /\ agrees(shift_status, shift)'
        /\ agrees(alt_status, alt)'
    BY <1>2, <1>4, <2>1, <2>2 DEF AgreeBut, agrees
  <2>5. (caps_lock_status = caps_on)'
    BY <1>4, <2>1, <2>2 DEF KeyboardInv, KeyboardTypeOK
  <2> QED
    BY <1>3, <1>4, <2>1, <2>3, <2>4, <2>5 DEF KeyboardInv, Quiet, TypedAsPressed
<1>6. CASE is_known(k) /\ k % 256 \in invisible
  <2>1. control_key(k % 256)
    BY <1>1, <1>6 DEF handle
  <2>2. /\ k % 256 \in ctrl <=> k \in ctrl
        /\ k % 256 \in shift <=> k \in shift
        /\ k % 256 \in alt <=> k \in alt
        /\ k % 256 = caps_lock_make <=> k = caps_lock_make
    BY <1>6, KnownCodes
  <2>3. /\ ctrl_status' = (ctrl_status \/ k \in ctrl)
        /\ shift_status' = (shift_status \/ k \in shift)
        /\ alt_status' = (alt_status \/ k \in alt)
        /\ caps_lock_status' = (caps_lock_status # (k = caps_lock_make))
        /\ typed' = typed
    BY <2>1, <2>2 DEF control_key
  <2>4. KeyboardTypeOK'
    BY <2>3 DEF KeyboardInv, KeyboardTypeOK
  <2>5. /\ agrees(ctrl_status, ctrl)' /\ agrees(shift_status, shift)'
        /\ agrees(alt_status, alt)'
    BY <1>2, <1>4, <2>3 DEF AgreeBut, agrees, KeyboardInv, KeyboardTypeOK
  <2> QED
    BY <1>3, <1>4, <2>3, <2>4, <2>5 DEF KeyboardInv, Quiet, TypedAsPressed
<1>7. CASE is_known(k) /\ k % 256 \notin invisible
  <2>1. character(k)
    BY <1>1, <1>7 DEF handle
  <2>2. UNCHANGED << ctrl_status, shift_status, alt_status, caps_lock_status >>
    BY <2>1 DEF character, status
  <2>3. k \notin ctrl \cup shift \cup alt /\ k # caps_lock_make /\ k \in 1..58 /\ k % 256 = k
    BY <1>7, KnownCodes
  <2>4. KeyboardTypeOK'
    BY <2>2 DEF KeyboardInv, KeyboardTypeOK
  <2>5. /\ agrees(ctrl_status, ctrl)' /\ agrees(shift_status, shift)'
        /\ agrees(alt_status, alt)'
    BY <1>2, <1>4, <2>2, <2>3 DEF AgreeBut, agrees
  <2>6. (caps_lock_status = caps_on)'
    BY <1>4, <2>2, <2>3 DEF KeyboardInv, KeyboardTypeOK
  <2>7. TypedAsPressed'
    <3>1. CASE typed' = NULL
      BY <3>1 DEF TypedAsPressed
    <3>2. CASE typed' = << k, shifted(k) >>
      <4>1. k \in down
        BY DEF Pressed
      <4>2. caps_lock_status = caps_on
        BY <1>4, <2>3 DEF KeyboardInv, KeyboardTypeOK
      <4>3. shift \notin overlap => shift_status = held(shift)
        BY <1>4, <2>3 DEF AgreeBut, agrees
      <4>4. shift \notin overlap =>
              shifted(k) = IF two_symbols(k) THEN held(shift) ELSE held(shift) # caps_on
        BY <4>2, <4>3 DEF shifted
      <4>5. typed'[1] = k /\ typed'[2] = shifted(k)
        BY <3>2
      <4>6. two_symbols(k)' = two_symbols(k)
        BY DEF two_symbols
      <4> QED
        BY <1>2, <2>3, <4>1, <4>4, <4>5, <4>6 DEF TypedAsPressed, two_symbols
    <3> QED
      BY <2>1, <2>3, <3>1, <3>2 DEF character
  <2> QED
    BY <1>3, <2>4, <2>5, <2>6, <2>7 DEF KeyboardInv, Quiet
<1> QED
  BY <1>5, <1>6, <1>7

LEMMA HandleRelease ==
    ASSUME KeyboardInv, NEW k \in Key, Released(k), handle(k + 128),
           UNCHANGED << down, overlap, caps_on >>, wire' = << >>, ext_scancode' = FALSE
    PROVE  KeyboardInv'
<1>1. break_code(k)
  BY KeyCodes DEF handle
<1>2. /\ ctrl_status' = (ctrl_status /\ k \notin ctrl)
      /\ shift_status' = (shift_status /\ k \notin shift)
      /\ alt_status' = (alt_status /\ k \notin alt)
      /\ caps_lock_status' = caps_lock_status /\ typed' = typed
  BY <1>1 DEF break_code
<1>3. \A pair : held(pair)' = held(pair)
  BY DEF held
<1>4. KeyboardTypeOK'
  BY <1>2 DEF KeyboardInv, KeyboardTypeOK
<1>5. OverlapExact'
  BY <1>3 DEF KeyboardInv, OverlapExact
<1>6. AgreeBut(k) /\ \A pair \in pairs : k \in pair => pair \in overlap \/ ~held(pair)
  BY DEF Released
<1>7. agrees(ctrl_status, ctrl)' /\ agrees(shift_status, shift)' /\ agrees(alt_status, alt)'
  <2>1. ASSUME NEW pair \in pairs, NEW flag \in BOOLEAN,
               k \notin pair => agrees(flag, pair)
        PROVE  IF pair \in overlap THEN flag /\ k \notin pair => held(pair)
               ELSE (flag /\ k \notin pair) = held(pair)
    <3>1. CASE k \in pair
      BY <1>6, <3>1 DEF held
    <3>2. CASE k \notin pair
      BY <2>1, <3>2 DEF agrees
    <3> QED
      BY <3>1, <3>2
  <2>2. \A flag, pair : agrees(flag, pair)' <=> IF pair \in overlap THEN flag' => held(pair)
                                                ELSE flag' = held(pair)
    BY <1>3 DEF agrees
  <2> QED
    BY <1>2, <1>6, <2>1, <2>2 DEF AgreeBut, pairs, KeyboardInv, KeyboardTypeOK
<1>8. typed' = NULL /\ caps_lock_status' = caps_on'
  BY <1>2 DEF Released
<1> QED
  BY <1>4, <1>5, <1>7, <1>8 DEF KeyboardInv, Quiet, TypedAsPressed

LEMMA HandlerKeepsInv ==
    ASSUME KeyboardInv, intr_keyboard_handler
    PROVE  KeyboardInv'
<1>1. wire # << >>
  BY DEF intr_keyboard_handler
<1>2. CASE \E k \in Key : Pressed(k)
  <2>1. PICK k \in Key : Pressed(k)
    BY <1>2
  <2>2. /\ UNCHANGED << down, overlap, caps_on >>
        /\ \/ coming(k)' /\ UNCHANGED << status, typed >>
           \/ wire' = << >> /\ ext_scancode' = FALSE /\ handle(k)
    <3>1. k \in Nat /\ (k < extended \/ k >= extended)
      BY KeyCodes DEF extended
    <3>2. k < extended => k # 224
      BY KeyCodes
    <3>3. k >= extended => k % 256 # 224 /\ extended + (k % 256) = k
      BY KeyCodes
    <3> QED
      BY <2>1, <3>1, <3>2, <3>3, HandlerReads DEF Pressed
  <2>3. CASE coming(k)' /\ UNCHANGED << status, typed >>
    <3>1. Pressed(k)'
      BY <2>1, <2>2, <2>3 DEF Pressed, AgreeBut, agrees, held, status
    <3> QED
      BY <2>2, <2>3, <3>1 DEF KeyboardInv, KeyboardTypeOK, OverlapExact, held, status
  <2> QED
    BY <2>1, <2>2, <2>3, HandlePress
<1>3. CASE \E k \in Key : Released(k)
  <2>1. PICK k \in Key : Released(k)
    BY <1>3
  <2>2. /\ UNCHANGED << down, overlap, caps_on >>
        /\ \/ coming(k + 128)' /\ UNCHANGED << status, typed >>
           \/ wire' = << >> /\ ext_scancode' = FALSE /\ handle(k + 128)
    <3>1. k + 128 \in Nat /\ (k < extended \/ k >= extended)
      BY KeyCodes DEF extended
    <3>2. k + 128 < extended => k + 128 # 224
      BY <3>1, KeyCodes
    <3>3. k + 128 >= extended =>
            (k + 128) % 256 # 224 /\ extended + ((k + 128) % 256) = k + 128
      BY <3>1, KeyCodes DEF extended
    <3> QED
      BY <2>1, <3>1, <3>2, <3>3, HandlerReads DEF Released
  <2>3. CASE coming(k + 128)' /\ UNCHANGED << status, typed >>
    <3>1. Released(k)'
      BY <2>1, <2>2, <2>3 DEF Released, AgreeBut, agrees, held, status
    <3> QED
      BY <2>2, <2>3, <3>1 DEF KeyboardInv, KeyboardTypeOK, OverlapExact, held, status
  <2> QED
    BY <2>1, <2>2, <2>3, HandleRelease
<1> QED
  BY <1>1, <1>2, <1>3 DEF KeyboardInv, Quiet

\* Whatever keys are pressed, held and released, in whatever order, and on any
\* keyboard, the flags and the characters are those of the keys that are down.
THEOREM KeyboardCorrect == Spec => []KeyboardInv
<1>1. ASSUME KeyboardInv, UNCHANGED vars
      PROVE  KeyboardInv'
  BY <1>1 DEF vars, status, KeyboardInv, KeyboardTypeOK, OverlapExact, held, Quiet, Pressed,
     Released, coming, AgreeBut, agrees, TypedAsPressed, two_symbols
<1>2. KeyboardInv /\ [Next]_vars => KeyboardInv'
  BY <1>1, PressKeepsInv, ReleaseKeepsInv, HandlerKeepsInv DEF Next
<1> QED
  BY <1>2, KeyboardInvInit, PTL DEF Spec

\* Between two events every flag tells whether a key of its pair is down.
THEOREM ModifiersFollowKeys == Spec => []ModifiersExact
<1>1. KeyboardInv => ModifiersExact
  <2> SUFFICES ASSUME KeyboardInv, wire = << >>
               PROVE  /\ agrees(ctrl_status, ctrl)
                      /\ agrees(shift_status, shift)
                      /\ agrees(alt_status, alt)
    BY DEF ModifiersExact, agrees
  <2>1. \A code : ~coming(code)
    BY DEF coming, bytes
  <2> QED
    BY <2>1 DEF KeyboardInv, Pressed, Released, Quiet
<1> QED
  BY <1>1, KeyboardCorrect, PTL

\* A character is that of a key that is down, in the column of the shift keys
\* that are down and of caps lock.
THEOREM TypedFollowsKeys == Spec => []TypedAsPressed
<1>1. KeyboardInv => TypedAsPressed
  BY DEF KeyboardInv, Pressed, Released, Quiet, TypedAsPressed
<1> QED
  BY <1>1, KeyboardCorrect, PTL

-----------------------------------------------------------------------------
\* The loader

\* m is the end of the highest of the first n areas reported that end below 2G.
Highest(m, n) ==
    /\ m \in 0..(DWORD \div 2 - 1)
    /\ m = 0 \/ \E i \in 1..n : end_of(areas[i]) = m
    /\ \A i \in 1..n : end_of(areas[i]) < DWORD \div 2 => end_of(areas[i]) <= m

\* The segment of the i-th header is one that has unit n.
covers(i, n) ==
    headers[i].used /\ n \in headers[i].address..(headers[i].address + headers[i].size - 1)

\* The last of the first m headers whose segment has unit n has put it there.
PlacedBy(m, n) ==
    \/ (\A i \in 1..m : ~covers(i, n)) /\ memory[n] = unset
    \/ \E i \in 1..m : /\ covers(i, n) /\ \A k \in (i + 1)..m : ~covers(k, n)
                       /\ memory[n] = headers[i].offset + n - headers[i].address

Placed(m) == prompt => \A n \in Physical : PlacedBy(m, n)

TablesMade ==
    /\ \A m, n \in kernel_pde..(entries - 1) :
          pde[m] # no_table /\ (pde[m] = pde[n] => m = n)
    /\ \A n \in 0..(low_pages - 1) : pde[0] = pde[kernel_pde] /\ pte[n] = n

\* What the loader has found out and done when it comes to each of its parts
BootInv ==
    /\ areas \in Seq(Area) /\ Len(areas) > 0 /\ headers \in Seq(Header) /\ Len(headers) > 0
    /\ ards \in Seq(Area) /\ Len(ards) <= Len(areas)
    /\ \A i \in 1..Len(ards) : ards[i] = areas[i]
    /\ image \in Seq(Int) /\ Len(image) <= sectors
    /\ prompt \in BOOLEAN
    /\ prompt => \A i \in 1..Len(image) : image[i] = i - 1
    /\ \A n \in Physical : stage # "segments" /\ stage # "kernel" => memory[n] = unset
    /\ stage \in {"e820", "e801", "max", "read", "pages", "segments", "kernel",
                  "overrun", "hlt"}
    /\ stage \in {"e820", "e801"} => Len(ards) < Len(areas)
    /\ stage = "e820" => edx = 0
    /\ stage = "max" => /\ Len(ards) = Len(areas) /\ ecx \in 1..Len(ards)
                        /\ Highest(edx, Len(areas) - ecx)
    /\ stage \in {"read", "pages", "segments", "kernel"} =>
            (Len(ards) = Len(areas) => Highest(total_mem_bytes, Len(areas)))
    /\ stage \in {"e820", "e801", "max", "read"} => Len(image) < sectors
    /\ stage \in {"segments", "kernel"} => Len(image) = sectors /\ TablesMade
    /\ stage = "pages" => Len(image) = sectors
    /\ stage = "segments" => ecx \in 1..Len(headers) /\ Placed(Len(headers) - ecx)
    /\ stage = "kernel" => Placed(Len(headers))

LEMMA Half == DWORD \div 2 \in Nat /\ DWORD \div 2 > 0 /\ DWORD = 2 * (DWORD \div 2)
BY SMT DEF DWORD

LEMMA EndInRange ==
    ASSUME NEW a \in Area
    PROVE  end_of(a) \in 0..(DWORD - 1)
<1>1. Area \subseteq [base : 0..(DWORD - 1), length : 0..(DWORD - 1)]
  BY Zenon, AreaAssumption
<1>2. a.base \in 0..(DWORD - 1) /\ a.length \in 0..(DWORD - 1)
  BY <1>1
<1>3. PICK d \in Nat : d = DWORD /\ d > 0
  BY Half
<1>4. PICK n \in Nat : n = a.base + a.length
  BY <1>2, <1>3
<1>5. n % d \in 0..(d - 1)
  BY <1>3
<1> QED
  BY <1>3, <1>4, <1>5 DEF end_of

LEMMA EndIsNatural ==
    ASSUME NEW a \in Area
    PROVE  end_of(a) \in Nat
BY EndInRange, Half

\* jge keeps what ends above 2G out.
LEMMA ExceedsBelow ==
    ASSUME NEW new \in 0..(DWORD - 1), NEW old \in 0..(DWORD \div 2 - 1)
    PROVE  exceeds(new, old) <=> new < DWORD \div 2 /\ new > old
<1>1. PICK half \in Nat : half = DWORD \div 2 /\ half > 0 /\ DWORD = 2 * half
  BY Half
<1>2. new \in 0..(2 * half - 1) /\ old \in 0..(half - 1)
  BY <1>1
<1>3. signed(new) = (IF new < half THEN new ELSE new - 2 * half) /\ signed(old) = old
  BY <1>1, <1>2 DEF signed
<1> QED
  BY SMT, <1>1, <1>2, <1>3 DEF exceeds

LEMMA SectorsPositive == sectors \in Nat /\ sectors > 0
<1>1. sectors \in 1..255
  BY Zenon, ImageAssumption
<1> QED
  BY <1>1

LEMMA BootInvInit ==
    ASSUME BootInit
    PROVE  BootInv
<1>1. areas \in Seq(Area) \ {<< >>} /\ headers \in Seq(Header) \ {<< >>}
  <2>1. BoundedSeq(Area, MaxAreas) \subseteq Seq(Area)
    BY DEF BoundedSeq, SeqOf
  <2>2. BoundedSeq(Header, MaxHeaders) \subseteq Seq(Header)
    BY DEF BoundedSeq, SeqOf
  <2> QED
    BY <2>1, <2>2 DEF BootInit
<1>2. Len(areas) > 0 /\ Len(headers) > 0
  BY <1>1
<1>3. /\ stage = "e820" /\ ards = << >> /\ edx = 0 /\ image = << >> /\ prompt = TRUE
      /\ \A n \in Physical : memory[n] = unset
  BY DEF BootInit
<1>4. /\ ards \in Seq(Area) /\ Len(ards) = 0 /\ Len(ards) < Len(areas)
      /\ image \in Seq(Int) /\ Len(image) = 0 /\ Len(image) < sectors
  BY <1>1, <1>2, <1>3, SectorsPositive
<1>5. Len(ards) <= Len(areas) /\ Len(image) <= sectors
  BY <1>1, <1>4, SectorsPositive
<1> QED
  BY <1>1, <1>2, <1>3, <1>4, <1>5 DEF BootInv

LEMMA ReportKeepsInv ==
    ASSUME BootInv, e820_mem_get_loop
    PROVE  BootInv'
<1>1. /\ stage = "e820" /\ edx = 0 /\ Len(ards) < Len(areas)
      /\ UNCHANGED << areas, headers, edx, total_mem_bytes, image, prompt, pde, pte, memory >>
  BY DEF e820_mem_get_loop, BootInv
<1>2. CASE stage' = "e801" /\ UNCHANGED ards
  BY <1>1, <1>2 DEF BootInv
<1>3. CASE /\ ards' = Append(ards, areas[Len(ards) + 1])
           /\ stage' = IF Len(ards) = ards_room THEN "overrun"
                       ELSE IF Len(ards') = Len(areas) THEN "max" ELSE "e820"
  <2>1. areas[Len(ards) + 1] \in Area /\ Len(ards) \in Nat
    BY <1>1 DEF BootInv
  <2>2. /\ ards' \in Seq(Area) /\ Len(ards') = Len(ards) + 1
        /\ \A i \in 1..Len(ards') : ards'[i] = areas[i]
    BY <1>3, <2>1 DEF BootInv
  <2>3. Len(ards') <= Len(areas)
    BY <1>1, <2>1, <2>2 DEF BootInv
  <2>4. stage' \in {"overrun", "max", "e820"}
    BY <1>3
  <2>5. stage' = "e820" => Len(ards') < Len(areas)
    BY <1>3, <2>2, <2>3 DEF BootInv
  <2>6. stage' = "max" => Len(ards') = Len(areas) /\ ecx' = Len(ards') /\ Highest(edx, 0)'
    <3> SUFFICES ASSUME stage' = "max"
                 PROVE  Len(ards') = Len(areas) /\ ecx' = Len(ards') /\ Highest(edx, 0)'
      OBVIOUS
    <3>1. Len(ards') = Len(areas) /\ ecx' = Len(ards')
      BY <1>1, <1>3 DEF e820_mem_get_loop
    <3>2. edx' = 0
      BY <1>1
    <3> QED
      BY <3>1, <3>2, Half DEF Highest
  <2>7. stage' = "max" => ecx' \in 1..Len(ards') /\ Highest(edx, Len(areas) - ecx)'
    BY <1>1, <2>1, <2>2, <2>6
  <2> QED
    BY <1>1, <2>2, <2>3, <2>4, <2>5, <2>6, <2>7 DEF BootInv
<1> QED
  BY <1>2, <1>3 DEF e820_mem_get_loop

LEMMA HighestOfOneMore ==
    ASSUME areas \in Seq(Area), NEW n \in Nat, n + 1 \in 1..Len(areas),
           NEW m, Highest(m, n),
           NEW m2, m2 = IF exceeds(end_of(areas[n + 1]), m) THEN end_of(areas[n + 1]) ELSE m
    PROVE  Highest(m2, n + 1)
<1>1. \A i \in 1..(n + 1) : areas[i] \in Area
  OBVIOUS
<1>2. \A i \in 1..(n + 1) : end_of(areas[i]) \in Nat
  BY <1>1, EndIsNatural
<1>3. PICK half \in Nat : half = DWORD \div 2 /\ half > 0
  BY Half
<1>4. PICK eax : eax = end_of(areas[n + 1])
  OBVIOUS
<1>5. eax \in 0..(DWORD - 1) /\ eax \in Nat
  BY <1>1, <1>2, <1>4, EndInRange
<1>6. m \in 0..(half - 1)
  BY <1>3 DEF Highest
<1>7. exceeds(eax, m) <=> eax < half /\ eax > m
  BY <1>3, <1>5, <1>6, ExceedsBelow
<1>8. m2 = IF exceeds(eax, m) THEN eax ELSE m
  BY <1>4
<1>9. m2 \in 0..(half - 1) /\ m <= m2 /\ (eax < half => eax <= m2)
  BY SMT, <1>3, <1>5, <1>6, <1>7, <1>8
<1>10. m2 = 0 \/ \E i \in 1..(n + 1) : end_of(areas[i]) = m2
  <2>1. m = 0 \/ \E i \in 1..n : end_of(areas[i]) = m
    BY DEF Highest
  <2>2. 1..n \subseteq 1..(n + 1) /\ n + 1 \in 1..(n + 1)
    OBVIOUS
  <2> QED
    BY <1>4, <1>8, <2>1, <2>2
<1>11. ASSUME NEW i \in 1..(n + 1), end_of(areas[i]) < half
       PROVE  end_of(areas[i]) <= m2
  <2>1. CASE i \in 1..n
    <3>1. end_of(areas[i]) <= m
      BY <1>3, <1>11, <2>1 DEF Highest
    <3>2. PICK e \in Nat : e = end_of(areas[i])
      BY <1>2
    <3> QED
      BY SMT, <1>3, <1>6, <1>9, <3>1, <3>2
  <2>2. CASE i = n + 1
    BY <1>4, <1>9, <1>11, <2>2
  <2> QED
    BY <2>1, <2>2
<1> QED
  BY <1>3, <1>9, <1>10, <1>11 DEF Highest

LEMMA FindMaxKeepsInv ==
    ASSUME BootInv, find_max_mem_area
    PROVE  BootInv'
<1>1. /\ stage = "max" /\ ecx' = ecx - 1 /\ ecx \in 1..Len(ards) /\ Len(ards) = Len(areas)
      /\ UNCHANGED << areas, headers, ards, image, prompt, pde, pte, memory >>
  BY DEF find_max_mem_area, BootInv
<1>2. PICK n \in Nat : n = Len(areas) - ecx
  <2>1. PICK a \in Nat : a = Len(areas)
    BY DEF BootInv
  <2>2. a - ecx \in Nat
    BY ONLY <1>1, <2>1
  <2> QED
    BY <2>1, <2>2
<1>3. n + 1 \in 1..Len(areas) /\ Len(areas) \in Nat /\ Len(areas) - ecx' = n + 1
  BY <1>1, <1>2 DEF BootInv
<1>4. ards[Len(ards) - ecx + 1] = areas[n + 1]
  BY <1>1, <1>2, <1>3 DEF BootInv
<1>5. PICK m2 : m2 = edx'
  OBVIOUS
<1>6. m2 = IF exceeds(end_of(areas[n + 1]), edx) THEN end_of(areas[n + 1]) ELSE edx
  BY <1>4, <1>5 DEF find_max_mem_area
<1>7. Highest(edx, n)
  BY <1>1, <1>2 DEF BootInv
<1>8. Highest(m2, n + 1)
  BY <1>3, <1>6, <1>7, HighestOfOneMore DEF BootInv
<1>9. Highest(edx', n + 1) /\ (Highest(edx', n + 1) <=> Highest(edx, Len(areas) - ecx)')
  BY <1>1, <1>3, <1>5, <1>8 DEF Highest
<1>10. CASE ecx = 1
  <2>1. total_mem_bytes' = edx' /\ stage' = "read" /\ Len(areas) = n + 1
    BY <1>2, <1>3, <1>10 DEF find_max_mem_area
  <2>2. Highest(total_mem_bytes, Len(areas))'
    BY <1>1, <1>5, <1>8, <2>1 DEF Highest
  <2> QED
    BY <1>1, <2>1, <2>2 DEF BootInv
<1>11. CASE ecx # 1
  <2>1. stage' = stage /\ ecx' \in 1..Len(ards)
    BY <1>1, <1>11 DEF find_max_mem_area
  <2> QED
    BY <1>1, <1>9, <2>1 DEF BootInv
<1> QED
  BY <1>10, <1>11

LEMMA OtherSizesKeepInv ==
    ASSUME BootInv, e801_or_88
    PROVE  BootInv'
<1>1. /\ stage = "e801" /\ Len(ards) < Len(areas) /\ stage' \in {"read", "hlt"}
      /\ UNCHANGED << areas, headers, ards, edx, image, prompt, pde, pte, memory, ecx >>
  BY DEF e801_or_88, BootInv
<1>2. ~(Len(ards) = Len(areas))
  BY <1>1 DEF BootInv
<1> QED
  BY <1>1, <1>2 DEF BootInv

LEMMA ReadKeepsInv ==
    ASSUME BootInv, rd_disk
    PROVE  BootInv'
<1>1. /\ stage = "read" /\ stage' = IF Len(image') = sectors THEN "pages" ELSE stage
      /\ UNCHANGED << areas, headers, ards, edx, total_mem_bytes, pde, pte, memory, ecx >>
  BY DEF rd_disk
<1>2. image \in Seq(Int) /\ Len(image) \in Nat /\ Len(image) < sectors
  BY <1>1 DEF BootInv
<1>3. PICK v \in Int : image' = Append(image, v) /\ (prompt' => prompt /\ v = Len(image))
  <2>1. CASE image' = Append(image, Len(image)) /\ UNCHANGED prompt
    BY <1>2, <2>1
  <2>2. CASE image' = Append(image, unset) /\ prompt' = FALSE
    BY <2>2 DEF unset
  <2> QED
    BY <2>1, <2>2 DEF rd_disk
<1>4. prompt' \in BOOLEAN
  BY DEF rd_disk, BootInv
<1>5. image' \in Seq(Int) /\ Len(image') = Len(image) + 1 /\ Len(image') <= sectors
  BY <1>2, <1>3, SectorsPositive
<1>6. prompt' => \A i \in 1..Len(image') : image'[i] = i - 1
  BY <1>2, <1>3, <1>5 DEF BootInv
<1>7. stage' = "read" => Len(image') < sectors
  BY <1>1, <1>5, SectorsPositive
<1>8. stage' = "pages" => Len(image') = sectors
  BY <1>1
<1>9. Len(ards) = Len(areas) => Highest(total_mem_bytes, Len(areas))'
  BY <1>1 DEF BootInv, Highest
<1>10. stage' \in {"read", "pages"}
  BY <1>1
<1> QED
  BY <1>1, <1>4, <1>5, <1>6, <1>7, <1>8, <1>9, <1>10 DEF BootInv

LEMMA PagesKeepInv ==
    ASSUME BootInv, setup_page
    PROVE  BootInv'
<1>1. /\ stage = "pages" /\ stage' = "segments" /\ ecx' = Len(headers)
      /\ UNCHANGED << areas, headers, ards, edx, total_mem_bytes, image, prompt, memory >>
  BY DEF setup_page
<1>2. /\ kernel_pde \in Nat /\ kernel_pde >= 1 /\ kernel_pde <= entries - 2 /\ entries \in Nat
      /\ low_pages \in Nat /\ low_pages <= entries
  BY TableAssumption
<1>3. \A n \in kernel_pde..(entries - 1) :
         pde'[n] = IF n = entries - 1 THEN directory ELSE table(n - kernel_pde)
  BY <1>2 DEF setup_page
<1>4. pde'[0] = table(0)
  BY <1>2 DEF setup_page
<1>5. ASSUME NEW m \in kernel_pde..(entries - 1), NEW n \in kernel_pde..(entries - 1)
      PROVE  pde'[m] # no_table /\ (pde'[m] = pde'[n] => m = n)
  <2>1. table(m - kernel_pde) # directory /\ table(n - kernel_pde) # directory
        /\ table(m - kernel_pde) # no_table /\ directory # no_table
    BY DEF table, directory, no_table
  <2>2. table(m - kernel_pde) = table(n - kernel_pde) => m = n
    <3>1. m - kernel_pde \in Int /\ n - kernel_pde \in Int
      BY <1>2
    <3>2. table(m - kernel_pde)[2] = m - kernel_pde /\ table(n - kernel_pde)[2] = n - kernel_pde
      BY DEF table
    <3> QED
      BY <1>2, <3>1, <3>2
  <2> QED
    BY <1>3, <2>1, <2>2
<1>6. \A n \in 0..(low_pages - 1) : pde'[0] = pde'[kernel_pde] /\ pte'[n] = n
  <2>1. pde'[kernel_pde] = table(0)
    BY <1>2, <1>3
  <2>2. \A n \in 0..(low_pages - 1) : pte'[n] = n
    BY <1>2 DEF setup_page
  <2> QED
    BY <1>4, <2>1, <2>2
<1>7. TablesMade'
  BY <1>5, <1>6 DEF TablesMade
<1>8. Placed(Len(headers) - ecx)'
  <2>1. Len(headers') - ecx' = 0
    BY <1>1 DEF BootInv
  <2>2. \A n \in Physical : PlacedBy(0, n)'
    BY <1>1 DEF PlacedBy, BootInv
  <2> QED
    BY <2>1, <2>2 DEF Placed
<1>9. ecx' \in 1..Len(headers)
  BY <1>1 DEF BootInv
<1>10. Len(ards) = Len(areas) => Highest(total_mem_bytes, Len(areas))'
  BY <1>1 DEF BootInv, Highest
<1> QED
  BY <1>1, <1>7, <1>8, <1>9, <1>10 DEF BootInv

\* A segment that is read promptly is in its place once it has been copied.
LEMMA SegmentPlaced ==
    ASSUME BootInv, each_segment, prompt, NEW m \in Nat, m = Len(headers) - ecx,
           m + 1 \in 1..Len(headers), NEW n \in Physical, PlacedBy(m, n),
           Len(image) = sectors
    PROVE  PlacedBy(m + 1, n)'
<1>1. PICK h \in Header : h = headers[m + 1]
  BY DEF BootInv
<1>2. headers' = headers /\ memory' = IF h.used THEN copied(h) ELSE memory
  <2>1. Len(headers) - ecx + 1 = m + 1
    OBVIOUS
  <2> QED
    BY <1>1, <2>1 DEF each_segment
<1>3. h.offset \in Nat /\ h.size \in Nat /\ h.address \in Nat /\ n \in Nat
  BY ImageAssumption
<1>4. covers(m + 1, n) <=> h.used /\ n \in h.address..(h.address + h.size - 1)
  BY <1>1 DEF covers
<1>5. \A i \in 1..(m + 1) : covers(i, n)' <=> covers(i, n)
  BY <1>2 DEF covers
<1>6. CASE covers(m + 1, n)
  <2>1. PICK i \in 0..(h.size - 1) : n = h.address + i
    <3>1. n - h.address \in 0..(h.size - 1) /\ n = h.address + (n - h.address)
      BY <1>3, <1>4, <1>6
    <3> QED
      BY <3>1
  <2>2. h.offset + i \in 0..(sectors - 1)
    BY <2>1, ImageAssumption
  <2>3. n - h.address + h.offset + 1 = h.offset + i + 1 /\ h.offset + i + 1 \in 1..Len(image)
    <3>1. PICK a \in Nat, o \in Nat : a = h.address /\ o = h.offset
      BY <1>3
    <3>2. i \in Nat /\ n = a + i /\ o + i \in 0..(sectors - 1)
      BY <1>3, <2>1, <2>2, <3>1
    <3>3. n - a + o + 1 = o + i + 1
      BY <3>2
    <3>4. o + i + 1 \in 1..sectors
      BY <3>2, SectorsPositive
    <3> QED
      BY <3>1, <3>3, <3>4
  <2>4. image[h.offset + i + 1] = h.offset + i
    BY <1>3, <2>1, <2>3 DEF BootInv
  <2>5. memory'[n] = image[n - h.address + h.offset + 1]
    BY <1>2, <1>4, <1>6 DEF copied
  <2>6. memory'[n] = h.offset + n - h.address
    BY <1>3, <2>1, <2>3, <2>4, <2>5
  <2>7. covers(m + 1, n)' /\ \A k \in (m + 2)..(m + 1) : ~covers(k, n)'
    BY <1>5, <1>6
  <2>8. memory'[n] = headers'[m + 1].offset + n - headers'[m + 1].address
    BY <1>1, <1>2, <2>6
  <2> QED
    BY <2>7, <2>8 DEF PlacedBy
<1>7. CASE ~covers(m + 1, n)
  <2>1. memory'[n] = memory[n]
    BY <1>2, <1>4, <1>7 DEF copied
  <2>2. \A i \in 1..m : covers(i, n)' <=> covers(i, n)
    BY <1>5
  <2>3. CASE (\A i \in 1..m : ~covers(i, n)) /\ memory[n] = unset
    <3>1. \A i \in 1..(m + 1) : ~covers(i, n)'
      BY <1>5, <1>7, <2>3
    <3> QED
      BY <2>1, <2>3, <3>1 DEF PlacedBy
  <2>4. CASE \E i \in 1..m : /\ covers(i, n) /\ \A k \in (i + 1)..m : ~covers(k, n)
                             /\ memory[n] = headers[i].offset + n - headers[i].address
    <3>1. PICK i \in 1..m : /\ covers(i, n) /\ \A k \in (i + 1)..m : ~covers(k, n)
                            /\ memory[n] = headers[i].offset + n - headers[i].address
      BY <2>4
    <3>2. i \in 1..(m + 1) /\ covers(i, n)'
      BY <1>5, <3>1
    <3>3. \A k \in (i + 1)..(m + 1) : ~covers(k, n)'
      BY <1>5, <1>7, <3>1
    <3>4. memory'[n] = headers'[i].offset + n - headers'[i].address
      BY <1>2, <2>1, <3>1
    <3> QED
      BY <3>2, <3>3, <3>4 DEF PlacedBy
  <2> QED
    BY <2>3, <2>4 DEF PlacedBy
<1> QED
  BY <1>6, <1>7

LEMMA SegmentKeepsInv ==
    ASSUME BootInv, each_segment
    PROVE  BootInv'
<1>1. /\ stage = "segments" /\ ecx' = ecx - 1 /\ ecx \in 1..Len(headers)
      /\ stage' = (IF ecx = 1 THEN "kernel" ELSE stage) /\ Len(image) = sectors /\ TablesMade
      /\ UNCHANGED << areas, headers, ards, edx, total_mem_bytes, image, prompt, pde, pte >>
  BY DEF each_segment, BootInv
<1>2. PICK m \in Nat : m = Len(headers) - ecx
  BY <1>1 DEF BootInv
<1>3. Len(headers) \in Nat /\ m + 1 \in 1..Len(headers) /\ Len(headers) - ecx' = m + 1
  BY <1>1, <1>2 DEF BootInv
<1>4. prompt => \A n \in Physical : PlacedBy(m + 1, n)'
  <2> SUFFICES ASSUME prompt, NEW n \in Physical
               PROVE  PlacedBy(m + 1, n)'
    OBVIOUS
  <2>1. PlacedBy(m, n)
    BY <1>1, <1>2 DEF BootInv, Placed
  <2> QED
    BY <1>1, <1>2, <1>3, <2>1, SegmentPlaced
<1>6. TablesMade'
  BY <1>1 DEF TablesMade
<1>7. Len(ards) = Len(areas) => Highest(total_mem_bytes, Len(areas))'
  BY <1>1 DEF BootInv, Highest
<1>8. CASE ecx = 1
  <2>1. stage' = "kernel" /\ Len(headers') = m + 1
    BY <1>1, <1>2, <1>3, <1>8
  <2>2. Placed(Len(headers))'
    BY <1>1, <1>4, <2>1 DEF Placed
  <2> QED
    BY <1>1, <1>6, <1>7, <2>1, <2>2 DEF BootInv
<1>9. CASE ecx # 1
  <2>1. stage' = "segments" /\ ecx' \in 1..Len(headers)
    BY <1>1, <1>3, <1>9
  <2>2. Placed(Len(headers) - ecx)'
    BY <1>1, <1>3, <1>4 DEF Placed
  <2> QED
    BY <1>1, <1>6, <1>7, <2>1, <2>2 DEF BootInv
<1> QED
  BY <1>8, <1>9

LEMMA BootInvNext ==
    ASSUME BootInv, [BootNext]_bootvars
    PROVE  BootInv'
<1>1. CASE UNCHANGED bootvars
  BY <1>1 DEF BootInv, Highest, Placed, PlacedBy, covers, TablesMade, bootvars
<1> QED
  BY <1>1, ReportKeepsInv, FindMaxKeepsInv, OtherSizesKeepInv, ReadKeepsInv, PagesKeepInv,
     SegmentKeepsInv DEF BootNext

LEMMA CapacityFollows ==
    ASSUME BootInv, stage = "kernel"
    PROVE  CapacityExact
<1> DEFINE ends == {areas[i].base + areas[i].length : i \in DOMAIN areas}
<1> SUFFICES ASSUME ards = areas, \A e \in ends : e < DWORD \div 2
             PROVE  total_mem_bytes \in ends /\ \A e \in ends : e <= total_mem_bytes
  BY DEF CapacityExact
<1>1. DOMAIN areas = 1..Len(areas) /\ Len(areas) > 0 /\ Len(areas) \in Nat
  BY DEF BootInv
<1>2. Highest(total_mem_bytes, Len(areas))
  BY DEF BootInv
<1>3. PICK half \in Nat : half = DWORD \div 2 /\ DWORD = 2 * half
  BY Half
<1>4. ASSUME NEW i \in 1..Len(areas)
      PROVE  /\ end_of(areas[i]) = areas[i].base + areas[i].length
             /\ end_of(areas[i]) \in ends /\ end_of(areas[i]) \in Nat
             /\ end_of(areas[i]) < DWORD \div 2
  <2>1. areas[i] \in Area
    BY DEF BootInv
  <2>2. Area \subseteq [base : 0..(DWORD - 1), length : 0..(DWORD - 1)]
    BY Zenon, AreaAssumption
  <2>3. areas[i].base \in 0..(DWORD - 1) /\ areas[i].length \in 0..(DWORD - 1)
    BY <2>1, <2>2
  <2>4. PICK n \in Nat : n = areas[i].base + areas[i].length
    BY <1>3, <2>3
  <2>5. n \in ends
    BY <1>1, <2>4
  <2>6. n < half
    BY <1>3, <2>5
  <2>7. n % (2 * half) = n
    BY <1>3, <2>4, <2>6
  <2>8. end_of(areas[i]) = n
    BY <1>3, <2>4, <2>7 DEF end_of
  <2> QED
    BY <1>3, <2>4, <2>5, <2>6, <2>8
<1>5. ASSUME NEW i \in 1..Len(areas)
      PROVE  end_of(areas[i]) <= total_mem_bytes
  BY <1>2, <1>4 DEF Highest
<1>6. total_mem_bytes \in ends
  <2>1. CASE \E i \in 1..Len(areas) : end_of(areas[i]) = total_mem_bytes
    BY <1>4, <2>1
  <2>2. CASE total_mem_bytes = 0
    <3>1. 1 \in 1..Len(areas)
      BY <1>1
    <3>2. end_of(areas[1]) <= 0 /\ end_of(areas[1]) \in Nat /\ end_of(areas[1]) \in ends
      BY <1>4, <1>5, <2>2, <3>1
    <3> QED
      BY <2>2, <3>2
  <2> QED
    BY <1>2, <2>1, <2>2 DEF Highest
<1>7. \A e \in ends : e <= total_mem_bytes
  BY <1>1, <1>4, <1>5
<1> QED
  BY <1>6, <1>7

LEMMA PlacesFollow ==
    ASSUME BootInv, stage = "kernel"
    PROVE  SegmentsPlaced
<1> SUFFICES ASSUME prompt, NEW n \in Physical
             PROVE  LET over == {i \in DOMAIN headers :
                                   /\ headers[i].used
                                   /\ n \in headers[i].address..(headers[i].address
                                                                   + headers[i].size - 1)}
                    IN  IF over = {} THEN memory[n] = unset
                        ELSE LET i == CHOOSE j \in over : \A k \in over : k <= j
                             IN  memory[n] = headers[i].offset + n - headers[i].address
  BY DEF SegmentsPlaced
<1> DEFINE over == {i \in DOMAIN headers :
                      /\ headers[i].used
                      /\ n \in headers[i].address..(headers[i].address + headers[i].size - 1)}
<1>1. PICK m \in Nat : m = Len(headers) /\ DOMAIN headers = 1..m
  BY DEF BootInv
<1>2. PlacedBy(m, n)
  BY <1>1 DEF BootInv, Placed
<1>3. over = {i \in 1..m : covers(i, n)}
  BY <1>1 DEF covers
<1> HIDE DEF over
<1>4. CASE over = {}
  BY <1>2, <1>3, <1>4 DEF PlacedBy, over
<1>5. CASE over # {}
  <2>1. PICK i \in 1..m : /\ covers(i, n) /\ \A k \in (i + 1)..m : ~covers(k, n)
                          /\ memory[n] = headers[i].offset + n - headers[i].address
    BY <1>2, <1>3, <1>5 DEF PlacedBy
  <2>2. \A k \in over : k <= i
    BY <1>1, <1>3, <2>1
  <2>3. i \in over
    BY <1>3, <2>1
  <2>4. \A j \in over : (\A k \in over : k <= j) => j = i
    BY <1>1, <1>3, <2>2, <2>3
  <2>5. (CHOOSE j \in over : \A k \in over : k <= j) = i
    BY <2>2, <2>3, <2>4
  <2> QED
    BY <1>5, <2>1, <2>5 DEF over
<1> QED
  BY <1>4, <1>5 DEF over

\* The kernel starts with its memory, unless an area ends above 2G, its segments in
\* their places and page tables for all of its half: KernelStarts holds for every
\* map of memory, image and size of the tables.
THEOREM LoaderPreparesKernel == BootSpec => []KernelStarts
<1>1. BootInv => KernelStarts
  BY CapacityFollows, PlacesFollow DEF KernelStarts, BootInv, TablesMade
<1> QED
  BY <1>1, BootInvInit, BootInvNext, PTL DEF BootSpec

-----------------------------------------------------------------------------
\* The screen

LEMMA Sizes ==
    /\ COLS \in Nat /\ COLS > 0 /\ ROWS \in Nat /\ ROWS > 0 /\ BYTE \in Nat /\ BYTE > 0
    /\ CELLS \in Nat /\ CELLS = COLS * ROWS /\ CELLS >= COLS
    /\ WORD \in Nat /\ WORD \div 2 \in Nat /\ WORD = 2 * (WORD \div 2)
    /\ CELLS + COLS < WORD \div 2
<1>1. COLS \in Nat /\ COLS > 0 /\ ROWS \in Nat /\ ROWS > 0 /\ BYTE \in Nat /\ BYTE > 0
  BY PrintAssumption
<1>2. CELLS \in Nat /\ CELLS = COLS * ROWS /\ CELLS >= COLS
  BY <1>1 DEF CELLS
<1>3. PICK half \in Nat : BYTE = 2 * half
  <2>1. BYTE % 2 = 0
    BY PrintAssumption
  <2>2. BYTE \div 2 \in Nat /\ BYTE = 2 * (BYTE \div 2)
    BY <1>1, <2>1
  <2> QED
    BY <2>2
<1>4. WORD = 2 * (half * BYTE) /\ half * BYTE \in Nat
  BY <1>1, <1>3 DEF WORD
<1>5. WORD \div 2 = half * BYTE
  BY <1>4
<1> QED
  BY <1>1, <1>2, <1>4, <1>5, PrintAssumption

\* In the lower half of the words, shl and jl do what they seem to.
LEMMA WordOf ==
    ASSUME NEW n \in Nat, n < WORD \div 2
    PROVE  /\ word(n) = n
           /\ cell(n) = n
           /\ is_below_end(n) <=> n < CELLS
<1>1. PICK half \in Nat : half = WORD \div 2 /\ WORD = 2 * half /\ n < half
  BY Sizes
<1>2. n % (2 * half) = n /\ (2 * n) % (2 * half) = 2 * n
  <2>1. n \in 0..(2 * half - 1) /\ 2 * n \in 0..(2 * half - 1)
    BY <1>1
  <2> QED
    BY <1>1, <2>1
<1> QED
  BY <1>1, <1>2 DEF word, cell, is_below_end

LEMMA RowsAreOrdered ==
    ASSUME NEW a \in Nat, NEW b \in Nat, a <= b
    PROVE  a * COLS \in Nat /\ b * COLS \in Nat /\ a * COLS <= b * COLS
           /\ (a + 1) * COLS = a * COLS + COLS
BY Sizes

\* The place of a cell: its line and its column
LEMMA PlaceOf ==
    ASSUME NEW n \in 0..(CELLS - 1)
    PROVE  /\ n \div COLS \in 0..(ROWS - 1) /\ n % COLS \in 0..(COLS - 1)
           /\ n = (n \div COLS) * COLS + (n % COLS)
<1>1. n \in Nat /\ n < CELLS
  BY Sizes
<1>2. PICK q \in Nat : q = n \div COLS
  BY <1>1, Sizes
<1>3. PICK m \in 0..(COLS - 1) : m = n % COLS
  BY <1>1, Sizes
<1>4. n = COLS * q + m
  BY <1>1, <1>2, <1>3, Sizes
<1>5. COLS * q = q * COLS
  BY <1>2, Sizes
<1>6. q < ROWS
  <2>1. CASE q >= ROWS
    <3>1. ROWS * COLS <= q * COLS
      BY <2>1, <1>2, RowsAreOrdered, Sizes
    <3>2. COLS * ROWS = ROWS * COLS
      BY Sizes
    <3> QED
      BY <1>1, <1>3, <1>4, <1>5, <3>1, <3>2, Sizes, RowsAreOrdered
  <2> QED
    BY <2>1, <1>2, Sizes
<1> QED
  BY <1>2, <1>3, <1>4, <1>5, <1>6, Sizes

LEMMA CellOf ==
    ASSUME NEW r \in 0..(ROWS - 1), NEW k \in 0..(COLS - 1)
    PROVE  /\ r * COLS + k \in 0..(CELLS - 1)
           /\ (r * COLS + k) \div COLS = r /\ (r * COLS + k) % COLS = k
<1>1. r \in Nat /\ k \in Nat /\ r * COLS \in Nat /\ r * COLS + k \in Nat
  BY Sizes
<1>2. PICK n \in Nat : n = r * COLS + k
  BY <1>1
<1>3. n < CELLS
  <2>1. (r + 1) * COLS <= ROWS * COLS /\ ROWS * COLS = COLS * ROWS
    BY <1>1, RowsAreOrdered, Sizes
  <2>2. (r + 1) * COLS = r * COLS + COLS
    BY <1>1, RowsAreOrdered
  <2> QED
    BY <1>1, <1>2, <2>1, <2>2, Sizes
<1>4. PICK q \in Nat : q = n \div COLS
  BY Sizes
<1>5. PICK m \in 0..(COLS - 1) : m = n % COLS
  BY Sizes
<1>6. n = q * COLS + m
  BY <1>4, <1>5, Sizes
<1>7. q = r
  <2>1. CASE q < r
    <3>1. (q + 1) * COLS <= r * COLS /\ (q + 1) * COLS = q * COLS + COLS
      BY <2>1, <1>1, RowsAreOrdered
    <3> QED
      BY <1>1, <1>2, <1>5, <1>6, <3>1, Sizes
  <2>2. CASE r < q
    <3>1. (r + 1) * COLS <= q * COLS /\ (r + 1) * COLS = r * COLS + COLS
      BY <2>2, <1>1, RowsAreOrdered
    <3> QED
      BY <1>1, <1>2, <1>5, <1>6, <3>1, Sizes
  <2> QED
    BY <2>1, <2>2, <1>1
<1>8. m = k
  BY <1>1, <1>2, <1>5, <1>6, <1>7, Sizes
<1> QED
  BY <1>1, <1>2, <1>3, <1>4, <1>5, <1>7, <1>8, Sizes

\* Video memory, and what a character does to what nobody sees of it
Video == [0..(WORD \div 2 - 1) -> Nat]

StaysOnScreen(v, after) ==
    /\ after[1] \in Video /\ after[2] \in 0..(CELLS - 1)
    /\ \A i \in 0..(WORD \div 2 - 1) : i >= CELLS => after[1][i] = v[i]

LEMMA NextLine ==
    ASSUME NEW b \in 0..CELLS
    PROVE  /\ next_line(b) \in Nat /\ next_line(b) = (b \div COLS) * COLS + COLS
           /\ is_below_end(next_line(b)) <=> next_line(b) < CELLS
<1>1. b \in Nat /\ b <= CELLS
  BY Sizes
<1>2. PICK q \in Nat, m \in 0..(COLS - 1) :
         q = b \div COLS /\ b = COLS * q + m /\ COLS * q = q * COLS
  <2>1. b \div COLS \in Nat /\ b % COLS \in 0..(COLS - 1)
        /\ b = COLS * (b \div COLS) + (b % COLS)
    BY <1>1, Sizes
  <2>2. COLS * (b \div COLS) = (b \div COLS) * COLS
    BY <2>1, Sizes
  <2> QED
    BY <2>1, <2>2
<1>3. q * COLS \in Nat /\ q * COLS <= CELLS
  BY <1>1, <1>2, Sizes
<1>4. q * COLS + COLS \in Nat /\ q * COLS + COLS < WORD \div 2
  BY <1>3, Sizes
<1> QED
  BY <1>2, <1>4, WordOf DEF next_line

LEMMA FeedStays ==
    ASSUME NEW v \in Video, NEW b \in 0..CELLS
    PROVE  StaysOnScreen(v, feed(v, b))
<1>1. CASE is_below_end(next_line(b))
  <2>1. next_line(b) \in 0..(CELLS - 1)
    BY <1>1, NextLine, Sizes
  <2>2. feed(v, b) = << v, next_line(b) >>
    BY <1>1 DEF feed
  <2> QED
    BY <2>1, <2>2 DEF StaysOnScreen
<1>2. CASE ~is_below_end(next_line(b))
  <2>1. feed(v, b) = << rolled(v), CELLS - COLS >>
    BY <1>2 DEF feed
  <2>2. CELLS - COLS \in 0..(CELLS - 1)
    BY Sizes
  <2>3. DOMAIN v = 0..(WORD \div 2 - 1)
    BY DEF Video
  <2>4. ASSUME NEW i \in 0..(WORD \div 2 - 1)
        PROVE  rolled(v)[i] \in Nat /\ (i >= CELLS => rolled(v)[i] = v[i])
    <3>1. v[i] \in Nat
      BY DEF Video
    <3>2. i < CELLS - COLS => v[i + COLS] \in Nat
      <4>1. i < CELLS - COLS => i + COLS \in 0..(WORD \div 2 - 1)
        BY Sizes
      <4> QED
        BY <4>1 DEF Video
    <3>3. rolled(v)[i] = IF i < CELLS - COLS THEN v[i + COLS]
                         ELSE IF i < CELLS THEN blank ELSE v[i]
      BY <2>3 DEF rolled
    <3>4. i >= CELLS => ~(i < CELLS - COLS) /\ ~(i < CELLS)
      BY Sizes
    <3> QED
      BY <3>1, <3>2, <3>3, <3>4 DEF blank
  <2>5. rolled(v) \in Video
    <3>1. rolled(v) = [i \in 0..(WORD \div 2 - 1) |-> rolled(v)[i]]
      BY <2>3 DEF rolled
    <3> QED
      BY <2>4, <3>1 DEF Video
  <2> QED
    BY <2>1, <2>2, <2>4, <2>5 DEF StaysOnScreen
<1> QED
  BY <1>1, <1>2

LEMMA DrawnStays ==
    ASSUME NEW v \in Video, NEW b \in 0..(CELLS - 1), NEW c \in Nat,
           ~(c = backspace /\ b = 0)
    PROVE  StaysOnScreen(v, drawn(v, b, c))
<1>1. b \in Nat /\ b < CELLS /\ b \in 0..CELLS /\ b \in 0..(WORD \div 2 - 1)
  BY Sizes
<1>2. cell(b) = b
  BY <1>1, WordOf, Sizes
<1>3. ASSUME NEW i \in 0..(CELLS - 1), NEW d \in Nat
      PROVE  [v EXCEPT ![i] = d] \in Video
             /\ \A j \in 0..(WORD \div 2 - 1) : j >= CELLS => [v EXCEPT ![i] = d][j] = v[j]
  BY Sizes DEF Video
<1>4. CASE c = line_feed
  BY <1>1, <1>4, FeedStays DEF drawn
<1>5. CASE c # line_feed /\ c = backspace
  <2>1. b - 1 \in Nat /\ b - 1 \in 0..(CELLS - 1) /\ b - 1 < WORD \div 2
    BY <1>1, <1>5, Sizes
  <2>2. cell(word(b - 1)) = b - 1
    BY <2>1, WordOf
  <2>3. drawn(v, b, c) = << [v EXCEPT ![b - 1] = blank], b - 1 >>
    BY <1>5, <2>2 DEF drawn
  <2>4. [v EXCEPT ![b - 1] = blank] \in Video
        /\ \A j \in 0..(WORD \div 2 - 1) :
              j >= CELLS => [v EXCEPT ![b - 1] = blank][j] = v[j]
    BY <1>3, <2>1 DEF blank
  <2> QED
    BY <2>1, <2>3, <2>4 DEF StaysOnScreen
<1>6. CASE c # line_feed /\ c # backspace
  <2>1. PICK after : after = [v EXCEPT ![b] = c]
    OBVIOUS
  <2>2. after \in Video /\ \A j \in 0..(WORD \div 2 - 1) : j >= CELLS => after[j] = v[j]
    BY <1>3, <2>1
  <2>3. drawn(v, b, c) = IF is_below_end(b + 1) THEN << after, b + 1 >>
                         ELSE feed(after, b + 1)
    BY <1>2, <1>6, <2>1 DEF drawn
  <2>4. b + 1 \in Nat /\ b + 1 \in 0..CELLS /\ b + 1 < WORD \div 2
    BY <1>1, Sizes
  <2>5. is_below_end(b + 1) => b + 1 \in 0..(CELLS - 1)
    BY <2>4, WordOf, Sizes
  <2>6. StaysOnScreen(after, feed(after, b + 1))
    BY <2>2, <2>4, FeedStays
  <2> QED
    BY <2>2, <2>3, <2>5, <2>6 DEF StaysOnScreen
<1> QED
  BY <1>4, <1>5, <1>6

LEMMA CursorBytes ==
    ASSUME NEW b \in Nat
    PROVE  b \div BYTE \in Nat /\ b % BYTE \in Nat /\ (b \div BYTE) * BYTE + (b % BYTE) = b
<1>1. b \div BYTE \in Nat /\ b % BYTE \in 0..(BYTE - 1)
      /\ b = BYTE * (b \div BYTE) + (b % BYTE)
  BY Sizes
<1>2. BYTE * (b \div BYTE) = (b \div BYTE) * BYTE
  BY <1>1, Sizes
<1> QED
  BY <1>1, <1>2, Sizes

LEMMA BaseIsNumber == BASE \in Nat /\ BASE >= 2 /\ DIGITS \in Nat /\ DIGITS >= 1
BY PrintAssumption

\* What a turn of put_int's loop leaves
LEMMA RestOf ==
    ASSUME NEW n \in Nat
    PROVE  /\ rest(n)[0] = n
           /\ \A k \in 1..DIGITS : rest(n)[k] = rest(n)[k - 1] \div BASE
           /\ \A k \in 0..DIGITS : rest(n)[k] \in Nat
<1> DEFINE is_rest(e, m) == e = [k \in 0..m |-> IF k = 0 THEN n ELSE e[k - 1] \div BASE]
           S == {m \in Nat : \E e : is_rest(e, m)}
<1>1. 0 \in S
  <2>1. is_rest([k \in 0..0 |-> n], 0)
    OBVIOUS
  <2> QED
    BY <2>1
<1>2. ASSUME NEW m \in Nat, m \in S
      PROVE  m + 1 \in S
  <2>1. PICK e : is_rest(e, m)
    BY <1>2
  <2>2. PICK f : f = [k \in 0..(m + 1) |-> IF k = 0 THEN n ELSE e[k - 1] \div BASE]
    OBVIOUS
  <2>3. \A k \in 0..m : f[k] = e[k]
    BY <2>1, <2>2
  <2>4. \A k \in 0..(m + 1) : k # 0 => k - 1 \in 0..m
    OBVIOUS
  <2>5. f = [k \in 0..(m + 1) |-> IF k = 0 THEN n ELSE f[k - 1] \div BASE]
    BY <2>2, <2>3, <2>4, Zenon
  <2> QED
    BY <2>5
<1>3. \A m \in Nat : m \in S
  <2> HIDE DEF S
  <2> QED
    BY <1>1, <1>2, NumberInduction
<1>4. \E e : is_rest(e, DIGITS)
  BY <1>3, BaseIsNumber
<1>5. rest(n) = CHOOSE e : is_rest(e, DIGITS)
  BY DEF rest
<1>6. is_rest(rest(n), DIGITS)
  <2> HIDE DEF is_rest
  <2> QED
    BY <1>4, <1>5
<1>7. rest(n)[0] = n /\ \A k \in 1..DIGITS : rest(n)[k] = rest(n)[k - 1] \div BASE
  BY <1>6, BaseIsNumber
<1>8. \A k \in 0..DIGITS : rest(n)[k] \in Nat
  <2> DEFINE V == {k \in Nat : k <= DIGITS => rest(n)[k] \in Nat}
  <2>1. 0 \in V
    BY <1>7
  <2>2. ASSUME NEW k \in Nat, k \in V
        PROVE  k + 1 \in V
    <3>1. k + 1 <= DIGITS => rest(n)[k] \in Nat
      BY <2>2, BaseIsNumber
    <3>2. k + 1 <= DIGITS => rest(n)[k + 1] = rest(n)[k] \div BASE
      BY <1>7, BaseIsNumber
    <3> QED
      BY <3>1, <3>2, BaseIsNumber
  <2>3. \A k \in Nat : k \in V
    <3> HIDE DEF V
    <3> QED
      BY <2>1, <2>2, NumberInduction
  <2> QED
    BY <2>3, BaseIsNumber
<1> QED
  BY <1>7, <1>8

LEMMA Quotient ==
    ASSUME NEW k \in Nat
    PROVE  /\ k \div BASE \in Nat /\ k % BASE \in Nat /\ k % BASE < BASE
           /\ k = BASE * (k \div BASE) + (k % BASE)
           /\ k >= BASE => k \div BASE >= 1 /\ k \div BASE < k
           /\ k < BASE => k % BASE = k /\ k \div BASE = 0
           /\ k \div BASE <= k
           /\ k \div BASE >= 1 => k >= BASE
<1>1. PICK q \in Nat, m \in Nat :
         q = k \div BASE /\ m = k % BASE /\ m < BASE /\ k = BASE * q + m
  BY BaseIsNumber
<1>2. BASE * q \in Nat /\ BASE * q >= 2 * q /\ (q >= 1 => BASE * q >= BASE)
  BY <1>1, BaseIsNumber
<1>3. k >= BASE => q >= 1
  <2>1. q = 0 => BASE * q = 0
    BY BaseIsNumber
  <2> QED
    BY <1>1, <2>1, BaseIsNumber
<1>4. q <= k /\ (k >= BASE => q < k)
  BY <1>1, <1>2, <1>3, BaseIsNumber
<1>5. k < BASE => q = 0 /\ m = k
  <2>1. q = 0 => BASE * q = 0
    BY BaseIsNumber
  <2> QED
    BY <1>1, <1>2, <2>1, BaseIsNumber
<1>6. q >= 1 => k >= BASE
  BY <1>1, <1>2, BaseIsNumber
<1> QED
  BY <1>1, <1>3, <1>4, <1>5, <1>6

LEMMA NumberOf ==
    ASSUME NEW n \in Nat
    PROVE  \E w : /\ number(n) = w[n]
                  /\ \A k \in 0..n : w[k] = IF k < BASE THEN << digit(k) >>
                                            ELSE Append(w[k \div BASE], digit(k % BASE))
<1> DEFINE line(e, k) == IF k < BASE THEN << digit(k) >>
                         ELSE Append(e[k \div BASE], digit(k % BASE))
           is_written(e, m) == e = [k \in 0..m |-> line(e, k)]
           S == {m \in Nat : \E e : is_written(e, m)}
<1>1. 0 \in S
  <2>1. is_written([k \in 0..0 |-> << digit(0) >>], 0)
    BY BaseIsNumber
  <2> QED
    BY <2>1
<1>2. ASSUME NEW m \in Nat, m \in S
      PROVE  m + 1 \in S
  <2>1. PICK e : is_written(e, m)
    BY <1>2
  <2>2. PICK f : f = [k \in 0..(m + 1) |-> line(e, k)]
    OBVIOUS
  <2>3. \A k \in 0..m : f[k] = e[k]
    <3> HIDE DEF line
    <3> QED
      BY <2>1, <2>2
  <2>4. \A k \in 0..(m + 1) : k < BASE \/ k \div BASE \in 0..m
    BY Quotient, BaseIsNumber
  <2>5. \A k \in 0..(m + 1) : line(e, k) = line(f, k)
    BY <2>3, <2>4, Zenon
  <2>6. f = [k \in 0..(m + 1) |-> line(f, k)]
    <3> HIDE DEF line
    <3> QED
      BY <2>2, <2>5
  <2>7. is_written(f, m + 1)
    BY <2>6
  <2> QED
    <3> HIDE DEF is_written
    <3> QED
      BY <2>7
<1>3. \A m \in Nat : m \in S
  <2> HIDE DEF S
  <2> QED
    BY <1>1, <1>2, NumberInduction
<1>4. \E e : is_written(e, n)
  BY <1>3
<1>5. PICK w : w = (CHOOSE e : is_written(e, n))
  OBVIOUS
<1>6. is_written(w, n)
  <2> HIDE DEF is_written
  <2> QED
    BY <1>4, <1>5
<1>7. number(n) = w[n]
  BY <1>5 DEF number
<1> QED
  BY <1>6, <1>7

\* The zeros that put_int skips end.
LEMMA SkippedOf ==
    ASSUME NEW n \in Nat
    PROVE  /\ skipped(n) \in 0..(DIGITS - 1)
           /\ \A j \in 0..(skipped(n) - 1) : buffer(n)[j] = 0
           /\ skipped(n) < DIGITS - 1 => buffer(n)[skipped(n)] # 0
<1> DEFINE first(i) == /\ \A j \in 0..(i - 1) : buffer(n)[j] = 0
                       /\ i < DIGITS - 1 => buffer(n)[i] # 0
           Z == {i \in Nat : i <= DIGITS - 1 => \A j \in 0..(i - 1) : buffer(n)[j] = 0}
<1>1. ASSUME \A i \in 0..(DIGITS - 1) : ~first(i)
      PROVE  FALSE
  <2>1. 0 \in Z
    OBVIOUS
  <2>2. ASSUME NEW i \in Nat, i \in Z
        PROVE  i + 1 \in Z
    <3> SUFFICES ASSUME i + 1 <= DIGITS - 1, NEW j \in 0..i
                 PROVE  buffer(n)[j] = 0
      OBVIOUS
    <3>1. i \in 0..(DIGITS - 1) /\ i < DIGITS - 1
      BY BaseIsNumber
    <3>2. \A h \in 0..(i - 1) : buffer(n)[h] = 0
      BY <2>2, <3>1
    <3>3. buffer(n)[i] = 0
      BY <1>1, <3>1, <3>2
    <3> QED
      BY <3>2, <3>3
  <2>3. \A i \in Nat : i \in Z
    <3> HIDE DEF Z
    <3> QED
      BY <2>1, <2>2, NumberInduction
  <2>4. DIGITS - 1 \in Nat /\ DIGITS - 1 \in Z
    BY <2>3, BaseIsNumber
  <2>5. first(DIGITS - 1)
    BY <2>4
  <2> QED
    BY <1>1, <2>4, <2>5
<1>2. \E i \in 0..(DIGITS - 1) : first(i)
  BY <1>1
<1>3. skipped(n) = CHOOSE i \in 0..(DIGITS - 1) : first(i)
  BY DEF skipped
<1> QED
  <2>1. skipped(n) \in 0..(DIGITS - 1) /\ first(skipped(n))
    <3> HIDE DEF first
    <3> QED
      BY <1>2, <1>3
  <2> QED
    BY <2>1

\* put_int prints a number as it is written.
LEMMA PutIntWrites ==
    ASSUME NEW n \in Numbers
    PROVE  /\ put_int_text(n) = number(n)
           /\ put_int_text(n) \in Seq(Nat) /\ put_int_text(n) # << >>
<1>1. n \in Nat /\ rest(n)[DIGITS] = 0
  BY PrintAssumption, NumbersAssumption
<1>2. PICK r : r = rest(n)
  OBVIOUS
<1>3. /\ r[0] = n /\ \A k \in 0..DIGITS : r[k] \in Nat
      /\ \A k \in 1..DIGITS : r[k] = r[k - 1] \div BASE
      /\ r[DIGITS] = 0
  BY <1>1, <1>2, RestOf
<1>4. PICK L \in 1..DIGITS : skipped(n) = DIGITS - L
  <2>1. skipped(n) \in 0..(DIGITS - 1)
    BY <1>1, SkippedOf
  <2>2. DIGITS - skipped(n) \in 1..DIGITS /\ skipped(n) = DIGITS - (DIGITS - skipped(n))
    BY <2>1, BaseIsNumber
  <2> QED
    BY <2>2
<1>5. \A i \in 0..(DIGITS - 1) : buffer(n)[i] = r[DIGITS - 1 - i] % BASE
  BY <1>2 DEF buffer
<1>6. \A j \in 0..(DIGITS - L - 1) : r[DIGITS - 1 - j] % BASE = 0
  <2>1. \A j \in 0..(DIGITS - L - 1) : buffer(n)[j] = 0
    BY <1>1, <1>4, SkippedOf
  <2>2. \A j \in 0..(DIGITS - L - 1) : j \in 0..(DIGITS - 1)
    BY <1>4, BaseIsNumber
  <2> QED
    BY <1>5, <2>1, <2>2
<1>7. L # 1 => r[L - 1] % BASE # 0
  <2>1. L # 1 => DIGITS - L < DIGITS - 1 /\ DIGITS - L \in 0..(DIGITS - 1)
                 /\ DIGITS - 1 - (DIGITS - L) = L - 1
    BY <1>4, BaseIsNumber
  <2> QED
    BY <1>1, <1>4, <1>5, <2>1, SkippedOf
<1>8. r[L] = 0
  <2> DEFINE Z == {j \in Nat : j <= DIGITS - L => r[DIGITS - j] = 0}
  <2>1. 0 \in Z
    BY <1>3, BaseIsNumber
  <2>2. ASSUME NEW j \in Nat, j \in Z
        PROVE  j + 1 \in Z
    <3> SUFFICES ASSUME j + 1 <= DIGITS - L
                 PROVE  r[DIGITS - (j + 1)] = 0
      OBVIOUS
    <3>1. PICK k \in Nat : k = DIGITS - 1 - j /\ k \in 0..DIGITS /\ k + 1 \in 1..DIGITS
                           /\ k + 1 = DIGITS - j /\ DIGITS - (j + 1) = k
      BY <1>4, BaseIsNumber
    <3>2. r[k + 1] = 0
      BY <1>4, <2>2, <3>1, BaseIsNumber
    <3>3. r[k + 1] = r[k] \div BASE
      BY <1>3, <3>1
    <3>4. r[k] % BASE = 0
      BY <1>4, <1>6, <3>1, BaseIsNumber
    <3>5. r[k] \in Nat
      BY <1>3, <3>1
    <3>6. r[k] = BASE * 0 + 0
      BY <3>2, <3>3, <3>4, <3>5, Quotient
    <3> QED
      BY <3>1, <3>6, BaseIsNumber
  <2>3. \A j \in Nat : j \in Z
    <3> HIDE DEF Z
    <3> QED
      BY <2>1, <2>2, NumberInduction
  <2>4. DIGITS - L \in Nat /\ DIGITS - (DIGITS - L) = L
    BY <1>4, BaseIsNumber
  <2> QED
    BY <2>3, <2>4
<1>9. \A j \in 1..L : /\ L - j \in 0..DIGITS /\ r[L - j] \in Nat
                      /\ r[L - j + 1] = r[L - j] \div BASE
  <2>1. \A j \in 1..L : L - j \in 0..DIGITS /\ L - j + 1 \in 1..DIGITS /\ L - j + 1 - 1 = L - j
    BY <1>4, BaseIsNumber
  <2> QED
    BY <1>3, <2>1
<1>10. r[L - 1] < BASE /\ r[L - 1] \in Nat /\ r[L - 1] % BASE = r[L - 1]
       /\ (L # 1 => r[L - 1] >= 1)
  <2>1. r[L - 1] \in Nat /\ r[L - 1] \div BASE = 0
    <3>1. 1 \in 1..L /\ L - 1 + 1 = L
      BY <1>4
    <3> QED
      BY <1>8, <1>9, <3>1
  <2>2. r[L - 1] < BASE
    BY <2>1, Quotient, BaseIsNumber
  <2>3. r[L - 1] % BASE = r[L - 1]
    BY <2>1, <2>2, Quotient
  <2> QED
    BY <1>7, <2>1, <2>2, <2>3
<1>11. put_int_text(n) = [i \in 1..L |-> digit(r[L - i] % BASE)]
  <2>1. DIGITS - skipped(n) = L
    BY <1>4, BaseIsNumber
  <2>2. ASSUME NEW i \in 1..L
        PROVE  buffer(n)[skipped(n) + i - 1] = r[L - i] % BASE
    <3>1. DIGITS - L + i - 1 \in 0..(DIGITS - 1) /\ DIGITS - 1 - (DIGITS - L + i - 1) = L - i
      BY <1>4, BaseIsNumber
    <3> QED
      BY <1>4, <1>5, <3>1
  <2> QED
    BY <2>1, <2>2 DEF put_int_text
<1>12. \A i \in 1..L : digit(r[L - i] % BASE) \in Nat
  BY <1>9, Quotient DEF digit
<1>13. put_int_text(n) \in Seq(Nat) /\ put_int_text(n) # << >>
  <2>1. L \in Nat /\ L >= 1
    BY <1>4
  <2> QED
    BY <1>11, <1>12, <2>1, SMTT(30)
<1>14. PICK w : /\ number(n) = w[n]
                /\ \A k \in 0..n : w[k] = IF k < BASE THEN << digit(k) >>
                                          ELSE Append(w[k \div BASE], digit(k % BASE))
  BY <1>1, NumberOf
<1>15. \A k \in 0..DIGITS : r[k] \in 0..n
  <2> DEFINE Z == {k \in Nat : k <= DIGITS => r[k] <= n}
  <2>1. 0 \in Z
    BY <1>1, <1>3
  <2>2. ASSUME NEW k \in Nat, k \in Z
        PROVE  k + 1 \in Z
    <3> SUFFICES ASSUME k + 1 <= DIGITS
                 PROVE  r[k + 1] <= n
      OBVIOUS
    <3>1. r[k] \in Nat /\ r[k] <= n /\ r[k + 1] = r[k] \div BASE
      BY <1>3, <2>2, BaseIsNumber
    <3>2. r[k] \div BASE \in Nat /\ r[k] \div BASE <= r[k]
      BY <3>1, Quotient
    <3> QED
      BY <1>1, <3>1, <3>2
  <2>3. \A k \in Nat : k \in Z
    <3> HIDE DEF Z
    <3> QED
      BY <2>1, <2>2, NumberInduction
  <2> QED
    BY <1>1, <1>3, <2>3, BaseIsNumber
<1>16. w[r[0]] = [i \in 1..L |-> digit(r[L - i] % BASE)]
  <2> DEFINE Z == {j \in Nat : j + 1 <= L =>
                     /\ w[r[L - (j + 1)]] = [i \in 1..(j + 1) |-> digit(r[L - i] % BASE)]
                     /\ j + 1 < L => r[L - (j + 1)] >= 1}
  <2>1. 0 \in Z
    <3>1. L - 1 \in 0..DIGITS /\ L - (0 + 1) = L - 1 /\ 0 + 1 = 1
      BY <1>4, BaseIsNumber
    <3>2. w[r[L - 1]] = << digit(r[L - 1]) >>
      BY <1>10, <1>14, <1>15, <3>1
    <3>3. << digit(r[L - 1]) >> = [i \in 1..1 |-> digit(r[L - i] % BASE)]
      BY <1>10
    <3>4. 1 < L => r[L - 1] >= 1
      BY <1>4, <1>10
    <3> QED
      BY <3>1, <3>2, <3>3, <3>4
  <2>2. ASSUME NEW j \in Nat, j \in Z
        PROVE  j + 1 \in Z
    <3> SUFFICES ASSUME j + 2 <= L
                 PROVE  /\ w[r[L - (j + 2)]] = [i \in 1..(j + 2) |-> digit(r[L - i] % BASE)]
                        /\ r[L - (j + 2)] >= 1
      <4>1. j + 1 + 1 = j + 2
        OBVIOUS
      <4> QED
        BY <4>1
    <3>1. j + 1 <= L /\ j + 1 < L /\ j + 2 \in 1..L /\ L - (j + 2) + 1 = L - (j + 1)
          /\ L - (j + 2) \in 0..DIGITS
      BY <1>4, BaseIsNumber
    <3>2. PICK a : a = r[L - (j + 2)]
      OBVIOUS
    <3>3. a \in Nat /\ a \in 0..n /\ r[L - (j + 1)] = a \div BASE
      BY <1>9, <1>15, <3>1, <3>2
    <3>4. a \div BASE >= 1
      BY <2>2, <3>1, <3>3
    <3>5. a >= BASE
      BY <3>3, <3>4, Quotient
    <3>6. w[a] = Append(w[a \div BASE], digit(a % BASE))
      <4>1. w[a] = IF a < BASE THEN << digit(a) >> ELSE Append(w[a \div BASE], digit(a % BASE))
        BY <1>14, <3>3, Zenon
      <4>2. ~(a < BASE)
        BY <3>3, <3>5, BaseIsNumber
      <4> QED
        BY <4>1, <4>2, Zenon
    <3>7. w[a \div BASE] = [i \in 1..(j + 1) |-> digit(r[L - i] % BASE)]
      BY <2>2, <3>1, <3>3
    <3>8. Append([i \in 1..(j + 1) |-> digit(r[L - i] % BASE)], digit(a % BASE))
            = [i \in 1..(j + 2) |-> digit(r[L - i] % BASE)]
      <4> DEFINE d(i) == digit(r[L - i] % BASE)
      <4>1. d(j + 2) = digit(a % BASE)
        BY <3>2
      <4>2. \A i \in 1..(j + 2) : d(i) \in Nat
        BY <1>12, <3>1, <1>4
      <4> HIDE DEF d
      <4>3. Append([i \in 1..(j + 1) |-> d(i)], d(j + 2)) = [i \in 1..(j + 2) |-> d(i)]
        BY <4>2
      <4> QED
        BY <4>1, <4>3 DEF d
    <3> QED
      BY <3>2, <3>3, <3>5, <3>6, <3>7, <3>8, BaseIsNumber
  <2>3. \A j \in Nat : j \in Z
    <3> HIDE DEF Z
    <3> QED
      BY <2>1, <2>2, NumberInduction
  <2>4. L - 1 \in Nat /\ L - 1 + 1 = L /\ L - (L - 1 + 1) = 0
    BY <1>4
  <2>5. L - 1 \in Z
    BY <2>3, <2>4
  <2> QED
    BY <2>4, <2>5
<1> QED
  BY <1>3, <1>11, <1>13, <1>14, <1>16

Lines == [0..(ROWS - 1) -> [0..(COLS - 1) -> Nat]]

\* The lines ls are what is to be seen of v.
Shows(v, ls) == \A s \in 0..(ROWS - 1), h \in 0..(COLS - 1) : v[s * COLS + h] = ls[s][h]

LinesOK ==
    /\ lines \in Lines
    /\ row \in 0..(ROWS - 1) /\ col \in 0..(COLS - 1)

Agrees(v, b) ==
    b = row * COLS + col /\ Shows(v, lines)

LEMMA CellsAreDistinct ==
    ASSUME NEW r \in 0..(ROWS - 1), NEW k \in 0..(COLS - 1),
           NEW s \in 0..(ROWS - 1), NEW h \in 0..(COLS - 1),
           r * COLS + k = s * COLS + h
    PROVE  r = s /\ k = h
<1>1. (r * COLS + k) \div COLS = r /\ (s * COLS + h) \div COLS = s
  BY CellOf
<1>2. (r * COLS + k) % COLS = k /\ (s * COLS + h) % COLS = h
  BY CellOf
<1> QED
  BY <1>1, <1>2

LEMMA RowBelow ==
    ASSUME NEW r \in 0..(ROWS - 1)
    PROVE  (r + 1) * COLS \in Nat /\ (r + 1 < ROWS <=> (r + 1) * COLS < CELLS)
<1>1. r \in Nat /\ r < ROWS /\ COLS \in Nat /\ ROWS \in Nat /\ COLS > 0
  BY Sizes
<1>2. PICK p \in Nat : p = (r + 1) * COLS
  BY <1>1, RowsAreOrdered
<1>3. ROWS * COLS = CELLS
  BY Sizes
<1>4. r + 1 < ROWS => p + COLS <= CELLS
  <2>1. (r + 1 + 1) * COLS = (r + 1) * COLS + COLS
    BY <1>1, RowsAreOrdered
  <2>2. r + 1 < ROWS => (r + 1 + 1) * COLS <= ROWS * COLS
    BY <1>1, RowsAreOrdered
  <2> QED
    BY <1>2, <1>3, <2>1, <2>2
<1>5. ~(r + 1 < ROWS) => CELLS <= p
  <2>1. ~(r + 1 < ROWS) => ROWS * COLS <= (r + 1) * COLS
    BY <1>1, RowsAreOrdered
  <2> QED
    BY <1>2, <1>3, <2>1
<1>6. p < CELLS <=> r + 1 < ROWS
  BY <1>1, <1>2, <1>4, <1>5, Sizes
<1> QED
  BY <1>2, <1>6

\* A new line when what is shown is ls, at the end or in the middle of a line
LEMMA NewLineAgrees ==
    ASSUME LinesOK, NEW v \in Video, NEW b \in 0..CELLS,
           NEW ls \in Lines,
           Shows(v, ls),
           IF row < ROWS - 1
           THEN is_below_end(next_line(b)) /\ next_line(b) = (row + 1) * COLS
           ELSE ~is_below_end(next_line(b)),
           new_line(ls)
    PROVE  LinesOK' /\ Agrees(feed(v, b)[1], feed(v, b)[2])'
<1>1. row \in Nat /\ row < ROWS /\ COLS \in Nat /\ ROWS \in Nat /\ COLS > 0
  BY Sizes DEF LinesOK
<1>3. CASE row < ROWS - 1
  <2>1. lines' = ls /\ row' = row + 1 /\ col' = 0
    BY <1>3 DEF new_line
  <2>2. is_below_end(next_line(b)) /\ next_line(b) = (row + 1) * COLS
    BY <1>3
  <2>3. feed(v, b) = << v, (row + 1) * COLS >>
    BY <2>2 DEF feed
  <2>4. LinesOK'
    BY <1>1, <1>3, <2>1 DEF LinesOK
  <2>5. (row + 1) * COLS = row' * COLS + col'
    <3>1. (row + 1) * COLS \in Nat /\ (row + 1) * COLS + 0 = (row + 1) * COLS
      BY <1>1, RowsAreOrdered
    <3> QED
      BY <2>1, <3>1
  <2> QED
    BY <2>1, <2>3, <2>4, <2>5 DEF Agrees
<1>4. CASE ~(row < ROWS - 1)
  <2>1. lines' = scrolled(ls) /\ row' = row /\ col' = 0 /\ row = ROWS - 1
    BY <1>1, <1>4 DEF new_line
  <2>2. ~is_below_end(next_line(b))
    BY <1>4
  <2>3. feed(v, b) = << rolled(v), CELLS - COLS >>
    BY <2>2 DEF feed
  <2>4. DOMAIN ls = 0..(ROWS - 1) /\ DOMAIN v = 0..(WORD \div 2 - 1)
    BY DEF Video, Lines
  <2>5. \A r \in 0..(ROWS - 1) :
           scrolled(ls)[r] = IF r < ROWS - 1 THEN ls[r + 1] ELSE [c \in 0..(COLS - 1) |-> blank]
    BY <2>4 DEF scrolled
  <2>6. scrolled(ls) \in Lines
    <3>1. \A r \in 0..(ROWS - 1) : scrolled(ls)[r] \in [0..(COLS - 1) -> Nat]
      <4>1. [c \in 0..(COLS - 1) |-> blank] \in [0..(COLS - 1) -> Nat]
        BY DEF blank
      <4>2. \A r \in 0..(ROWS - 1) : r < ROWS - 1 => r + 1 \in 0..(ROWS - 1)
        BY <1>1
      <4> QED
        BY <2>5, <4>1, <4>2 DEF Lines
    <3>2. scrolled(ls) = [r \in 0..(ROWS - 1) |-> scrolled(ls)[r]]
      BY <2>4 DEF scrolled
    <3> QED
      BY <3>1, <3>2 DEF Lines
  <2>7. LinesOK'
    BY <1>1, <2>1, <2>6 DEF LinesOK
  <2>8. CELLS - COLS = row * COLS + 0
    <3>1. (row + 1) * COLS = row * COLS + COLS /\ row * COLS \in Nat
      BY <1>1, RowsAreOrdered
    <3>2. (row + 1) * COLS = CELLS
      <4>1. row + 1 = ROWS
        BY <1>1, <2>1
      <4>2. ROWS * COLS = CELLS
        BY Sizes
      <4> QED
        BY <4>1, <4>2
    <3> QED
      BY <3>1, <3>2, <1>1, Sizes
  <2>9. ASSUME NEW r \in 0..(ROWS - 1), NEW k \in 0..(COLS - 1)
        PROVE  rolled(v)[r * COLS + k] = scrolled(ls)[r][k]
    <3>1. PICK n \in 0..(CELLS - 1) : n = r * COLS + k
      BY CellOf
    <3>2. n \in DOMAIN v /\ n < CELLS
      BY <2>4, Sizes
    <3>3. r * COLS \in Nat /\ (r + 1) * COLS = r * COLS + COLS /\ k < COLS /\ k \in Nat
      BY RowsAreOrdered, <1>1
    <3>4. CASE r < ROWS - 1
      <4>1. (r + 1) * COLS <= row * COLS
        BY <1>1, <2>1, <3>4, RowsAreOrdered
      <4>2. n < CELLS - COLS
        <5>1. PICK p \in Nat : p = row * COLS
          BY <1>1, RowsAreOrdered
        <5>2. PICK q \in Nat : q = r * COLS
          BY <3>3
        <5>3. CELLS - COLS = p + 0 /\ n = q + k /\ q + COLS <= p
          BY <2>8, <3>1, <3>3, <4>1, <5>1, <5>2
        <5> QED
          BY <1>1, <3>3, <5>3, Sizes
      <4>3. n + COLS = (r + 1) * COLS + k
        BY <3>1, <3>3, <1>1
      <4>4. rolled(v)[n] = v[n + COLS]
        BY <3>2, <4>2 DEF rolled
      <4>5. v[(r + 1) * COLS + k] = ls[r + 1][k]
        <5>1. r + 1 \in 0..(ROWS - 1)
          BY <1>1, <3>4
        <5> QED
          BY <5>1 DEF Shows
      <4> QED
        BY <2>5, <3>1, <3>4, <4>3, <4>4, <4>5
    <3>5. CASE ~(r < ROWS - 1)
      <4>1. r = row
        BY <1>1, <2>1, <3>5
      <4>2. ~(n < CELLS - COLS)
        <5>1. PICK p \in Nat : p = row * COLS
          BY <1>1, RowsAreOrdered
        <5>2. CELLS - COLS = p + 0 /\ n = p + k
          BY <2>8, <3>1, <4>1, <5>1
        <5> QED
          BY <3>3, <5>2, Sizes
      <4>3. rolled(v)[n] = blank
        BY <3>2, <4>2 DEF rolled
      <4>4. scrolled(ls)[r] = [c \in 0..(COLS - 1) |-> blank]
        BY <2>5, <3>5
      <4>5. scrolled(ls)[r][k] = blank
        BY <4>4
      <4> QED
        BY <3>1, <4>3, <4>5
    <3> QED
      BY <3>4, <3>5
  <2> QED
    BY <2>1, <2>3, <2>7, <2>8, <2>9 DEF Agrees, Shows
<1> QED
  BY <1>3, <1>4

LEMMA CellAgrees ==
    ASSUME NEW v \in Video, NEW c \in Nat,
           NEW ls \in Lines,
           NEW r \in 0..(ROWS - 1), NEW k \in 0..(COLS - 1), NEW i, i = r * COLS + k,
           Shows(v, ls)
    PROVE  /\ [v EXCEPT ![i] = c] \in Video
           /\ [ls EXCEPT ![r][k] = c] \in Lines
           /\ Shows([v EXCEPT ![i] = c], [ls EXCEPT ![r][k] = c])
<1>1. [v EXCEPT ![i] = c] \in Video
  BY DEF Video
<1>2. [ls EXCEPT ![r][k] = c] \in Lines
  BY DEF Lines
<1>3. ASSUME NEW s \in 0..(ROWS - 1), NEW h \in 0..(COLS - 1)
      PROVE  [v EXCEPT ![i] = c][s * COLS + h] = [ls EXCEPT ![r][k] = c][s][h]
  <2>1. DOMAIN v = 0..(WORD \div 2 - 1) /\ s * COLS + h \in 0..(WORD \div 2 - 1)
    <3>1. s * COLS + h \in 0..(CELLS - 1)
      BY CellOf
    <3> QED
      BY <3>1, Sizes DEF Video
  <2>2. [v EXCEPT ![i] = c][s * COLS + h]
          = IF s * COLS + h = i THEN c ELSE v[s * COLS + h]
    BY <2>1
  <2>3. [ls EXCEPT ![r][k] = c][s][h] = IF s = r /\ h = k THEN c ELSE ls[s][h]
    BY DEF Lines
  <2>4. s * COLS + h = i <=> s = r /\ h = k
    BY CellsAreDistinct
  <2>5. v[s * COLS + h] = ls[s][h]
    BY DEF Shows
  <2> QED
    BY <2>2, <2>3, <2>4, <2>5
<1> QED
  BY <1>1, <1>2, <1>3 DEF Shows

\* A character does to video memory and cursor what it does to the lines.
LEMMA ShowAgrees ==
    ASSUME LinesOK, NEW v \in Video, NEW b \in 0..(CELLS - 1), Agrees(v, b),
           NEW c \in Nat, ~(c = backspace /\ b = 0), show(c)
    PROVE  LinesOK' /\ Agrees(drawn(v, b, c)[1], drawn(v, b, c)[2])'
<1>1. /\ row \in Nat /\ row < ROWS /\ col \in Nat /\ col < COLS
      /\ COLS \in Nat /\ ROWS \in Nat /\ COLS > 0
  BY Sizes DEF LinesOK
<1>2. PICK p \in Nat : p = row * COLS /\ (row + 1) * COLS = p + COLS /\ b = p + col
  BY <1>1, RowsAreOrdered DEF Agrees
<1>9. b = row * COLS + col
  BY DEF Agrees
<1>3. b \in Nat /\ b < CELLS /\ cell(b) = b
  BY WordOf, Sizes
<1>4. /\ lines \in Lines
      /\ row \in 0..(ROWS - 1) /\ col \in 0..(COLS - 1)
      /\ Shows(v, lines)
  BY DEF LinesOK, Agrees
<1>5. p + COLS \in Nat /\ (row < ROWS - 1 <=> p + COLS < CELLS)
  <2>1. row + 1 < ROWS <=> (row + 1) * COLS < CELLS
    BY <1>4, RowBelow
  <2>2. row + 1 < ROWS <=> p + COLS < CELLS
    BY <1>2, <2>1, Zenon
  <2> QED
    BY <1>1, <2>2
<1>6. CASE c = line_feed
  <2>1. drawn(v, b, c) = feed(v, b) /\ new_line(lines)
    BY <1>6 DEF drawn, show
  <2>2. next_line(b) = p + COLS
    <3>1. b \div COLS = row
      BY <1>2, <1>4, CellOf
    <3>2. b \in 0..CELLS
      BY <1>3, Sizes
    <3>3. next_line(b) = row * COLS + COLS
      BY <3>1, <3>2, NextLine
    <3> QED
      BY <1>2, <3>3
  <2>3. is_below_end(next_line(b)) <=> p + COLS < CELLS
    BY <1>3, <2>2, NextLine, Sizes
  <2>4. b \in 0..CELLS
    BY <1>3, Sizes
  <2>5. IF row < ROWS - 1
        THEN is_below_end(next_line(b)) /\ next_line(b) = (row + 1) * COLS
        ELSE ~is_below_end(next_line(b))
    <3>1. next_line(b) = (row + 1) * COLS
      BY <1>2, <2>2
    <3> QED
      BY <1>5, <2>3, <3>1, Zenon
  <2> QED
    BY <1>4, <2>1, <2>4, <2>5, NewLineAgrees
<1>7. CASE c = backspace /\ c # line_feed
  <2>1. b - 1 \in Nat /\ b - 1 \in 0..(CELLS - 1) /\ b - 1 < WORD \div 2
    BY <1>3, <1>7, Sizes
  <2>2. cell(word(b - 1)) = b - 1
    BY <2>1, WordOf
  <2>3. drawn(v, b, c) = << [v EXCEPT ![b - 1] = blank], b - 1 >>
    BY <1>7, <2>2 DEF drawn
  <2>4. PICK r \in 0..(ROWS - 1), k \in 0..(COLS - 1) :
           /\ b - 1 = r * COLS + k
           /\ lines' = [lines EXCEPT ![r][k] = blank] /\ row' = r /\ col' = k
    <3>1. CASE col = 0
      <4>1. row # 0
        BY <1>2, <1>7, <3>1, Sizes
      <4>2. row - 1 \in Nat /\ row - 1 \in 0..(ROWS - 1) /\ COLS - 1 \in 0..(COLS - 1)
        BY <1>1, <4>1
      <4>3. b - 1 = (row - 1) * COLS + (COLS - 1)
        <5>1. (row - 1 + 1) * COLS = (row - 1) * COLS + COLS /\ (row - 1) * COLS \in Nat
          BY <4>2, RowsAreOrdered
        <5>2. row - 1 + 1 = row
          BY <1>1
        <5>3. PICK q \in Nat : q = (row - 1) * COLS /\ p = q + COLS
          BY <1>2, <5>1, <5>2
        <5> QED
          BY <1>1, <1>2, <3>1, <5>3
      <4>4. lines' = [lines EXCEPT ![row - 1][COLS - 1] = blank] /\ row' = row - 1
            /\ col' = COLS - 1
        BY <1>7, <3>1, <4>2 DEF show
      <4> QED
        BY <4>2, <4>3, <4>4
    <3>2. CASE col # 0
      <4>1. col - 1 \in 0..(COLS - 1) /\ b - 1 = row * COLS + (col - 1)
        BY <1>1, <1>2, <3>2
      <4>2. lines' = [lines EXCEPT ![row][col - 1] = blank] /\ row' = row /\ col' = col - 1
        BY <1>1, <1>7, <3>2 DEF show
      <4> QED
        BY <1>4, <4>1, <4>2
    <3> QED
      BY <3>1, <3>2
  <2>5. /\ lines' \in Lines
        /\ Shows([v EXCEPT ![b - 1] = blank], lines')
    <3>1. blank \in Nat
      BY DEF blank
    <3>2. /\ [lines EXCEPT ![r][k] = blank] \in Lines
          /\ Shows([v EXCEPT ![b - 1] = blank], [lines EXCEPT ![r][k] = blank])
      BY <1>4, <2>4, <3>1, CellAgrees
    <3> QED
      BY <2>4, <3>2
  <2>6. LinesOK'
    BY <2>4, <2>5 DEF LinesOK
  <2>7. Agrees([v EXCEPT ![b - 1] = blank], b - 1)'
    BY <2>4, <2>5 DEF Agrees
  <2> QED
    BY <2>3, <2>6, <2>7
<1>8. CASE c # line_feed /\ c # backspace
  <2>1. PICK after : after = [v EXCEPT ![b] = c]
    OBVIOUS
  <2>2. PICK ls : ls = [lines EXCEPT ![row][col] = c]
    OBVIOUS
  <2>3. /\ after \in Video /\ ls \in Lines
        /\ Shows(after, ls)
    BY <1>9, <1>4, <2>1, <2>2, CellAgrees
  <2>4. drawn(v, b, c) = IF is_below_end(b + 1) THEN << after, b + 1 >>
                         ELSE feed(after, b + 1)
    BY <1>3, <1>8, <2>1 DEF drawn
  <2>5. b + 1 \in Nat /\ b + 1 \in 0..CELLS /\ (is_below_end(b + 1) <=> b + 1 < CELLS)
    BY <1>3, WordOf, Sizes
  <2>6. CASE col = COLS - 1
    <3>1. new_line(ls) /\ b + 1 = p + COLS
      BY <1>1, <1>2, <1>8, <2>2, <2>6 DEF show
    <3>2. CASE is_below_end(b + 1)
      <4>1. lines' = ls /\ row' = row + 1 /\ col' = 0 /\ row < ROWS - 1
        BY <1>5, <2>5, <3>1, <3>2 DEF new_line
      <4>2. drawn(v, b, c)[1] = after /\ drawn(v, b, c)[2] = p + COLS
        BY <2>4, <3>1, <3>2
      <4>3. p + COLS = row' * COLS + col'
        BY <1>2, <1>5, <4>1
      <4>4. LinesOK'
        BY <1>1, <2>3, <4>1 DEF LinesOK
      <4> QED
        BY <2>3, <4>1, <4>2, <4>3, <4>4 DEF Agrees
    <3>3. CASE ~is_below_end(b + 1)
      <4>1. b + 1 = CELLS /\ ~(row < ROWS - 1)
        BY <1>3, <1>5, <2>5, <3>1, <3>3, Sizes
      <4>2. ~is_below_end(next_line(b + 1))
        <5>1. (b + 1) \div COLS = ROWS
          BY <4>1, Sizes
        <5>2. next_line(b + 1) = ROWS * COLS + COLS
          BY <2>5, <5>1, NextLine
        <5>3. ROWS * COLS = CELLS
          BY Sizes
        <5>4. ~(next_line(b + 1) < CELLS)
          BY <5>2, <5>3, Sizes
        <5> QED
          BY <2>5, <5>4, NextLine
      <4>3. drawn(v, b, c) = feed(after, b + 1)
        BY <2>4, <3>3
      <4> QED
        BY <2>3, <2>5, <3>1, <4>1, <4>2, <4>3, NewLineAgrees
    <3> QED
      BY <3>2, <3>3
  <2>7. CASE col # COLS - 1
    <3>1. lines' = ls /\ row' = row /\ col' = col + 1
      BY <1>8, <2>2, <2>7 DEF show
    <3>2. b + 1 < CELLS
      <4>1. p + COLS <= CELLS
        <5>1. (row + 1) * COLS <= ROWS * COLS /\ ROWS * COLS = CELLS
          BY <1>1, RowsAreOrdered, Sizes
        <5> QED
          BY <1>2, <5>1
      <4> QED
        BY <1>1, <1>2, <2>7, <4>1, Sizes
    <3>3. drawn(v, b, c) = << after, b + 1 >>
      BY <2>4, <2>5, <3>2
    <3>4. b + 1 = row' * COLS + col'
      BY <1>1, <1>2, <3>1
    <3>5. LinesOK'
      BY <1>1, <2>3, <2>7, <3>1, <1>4 DEF LinesOK
    <3> QED
      BY <2>3, <3>1, <3>3, <3>4, <3>5 DEF Agrees
  <2> QED
    BY <2>6, <2>7
<1> QED
  BY <1>6, <1>7, <1>8

\* The character is drawn, but the cursor is still where it was.
After == {"high_select_out", "high_out", "low_select_out", "low_out"}

Places == {"idle", "high_select", "high_in", "low_select", "low_in", "draw"} \cup After

\* What the thread has read of the cursor and what is still to be written to it
\* go together, whatever has been echoed between two characters.
PortsInv ==
    /\ index \in {"low", "high"}
    /\ cursor_high \in Nat /\ cursor_low \in Nat /\ high \in Nat /\ low \in Nat /\ bx \in Nat
    /\ video \in Video
    /\ \A i \in 0..(WORD \div 2 - 1) : i >= CELLS => video[i] = blank
    /\ todo \in Seq(Nat) /\ (pc = "idle" <=> todo = << >>)
    /\ pc \in Places
    /\ pc \in {"high_in", "high_out"} => index = "high"
    /\ pc \in {"low_in", "low_out"} => index = "low"
    /\ pc \in {"low_select", "low_in"} => high = cursor_high
    /\ pc = "draw" => high * BYTE + low < CELLS
    /\ pc \in After => bx < CELLS
    /\ pc \in {"low_select_out", "low_out"} => cursor_high = bx \div BYTE
    /\ pc \notin {"low_select_out", "low_out"} => cursor < CELLS

\* The terminal shows what the screen shows, until a character is drawn; then
\* the screen shows it already, and the terminal is going to.
TerminalInv ==
    /\ LinesOK
    /\ due = todo
    /\ pc = "draw" => high * BYTE + low = cursor
    /\ pc \notin After => Agrees(video, cursor)
    /\ pc \in After =>
          \E v \in Video, b \in 0..(CELLS - 1) :
              /\ Agrees(v, b)
              /\ ~(Head(todo) = backspace /\ b = 0)
              /\ video = drawn(v, b, Head(todo))[1] /\ bx = drawn(v, b, Head(todo))[2]

PrintInv ==
    /\ goes_on => PortsInv
    /\ goes_on /\ tear = "none" => TerminalInv

LEMMA PrintInvInit ==
    ASSUME PrintInit
    PROVE  PrintInv
<1>1. /\ index = "low" /\ cursor_high = 0 /\ cursor_low = 0 /\ pc = "idle" /\ todo = << >>
      /\ high = 0 /\ low = 0 /\ bx = 0 /\ row = 0 /\ col = 0 /\ due = << >>
      /\ video = [i \in 0..(WORD \div 2 - 1) |-> blank]
      /\ lines = [r \in 0..(ROWS - 1) |-> [c \in 0..(COLS - 1) |-> blank]]
  BY DEF PrintInit
<1>2. cursor = 0
  <2>1. 0 * BYTE + 0 = 0
    BY Sizes
  <2> QED
    BY <1>1, <2>1 DEF cursor
<1>3. 0 < CELLS
  BY Sizes
<1>4. video \in Video /\ \A i \in 0..(WORD \div 2 - 1) : i >= CELLS => video[i] = blank
  BY <1>1 DEF Video, blank
<1>5. PortsInv
  BY <1>1, <1>2, <1>3, <1>4 DEF PortsInv, Places, After
<1>6. LinesOK
  <2>1. lines \in Lines
    BY <1>1 DEF Lines, blank
  <2> QED
    BY <1>1, <2>1, Sizes DEF LinesOK
<1>7. Agrees(video, cursor)
  <2>1. \A s \in 0..(ROWS - 1), h \in 0..(COLS - 1) : s * COLS + h \in 0..(WORD \div 2 - 1)
    <3>1. \A s \in 0..(ROWS - 1), h \in 0..(COLS - 1) : s * COLS + h \in 0..(CELLS - 1)
      BY CellOf
    <3>2. 0..(CELLS - 1) \subseteq 0..(WORD \div 2 - 1)
      BY Sizes
    <3> QED
      BY <3>1, <3>2
  <2>2. Shows(video, lines)
    BY <1>1, <2>1 DEF Shows
  <2>3. 0 = 0 * COLS + 0
    BY Sizes
  <2> QED
    BY <1>1, <1>2, <2>2, <2>3 DEF Agrees
<1> QED
  BY <1>1, <1>5, <1>6, <1>7 DEF PrintInv, TerminalInv, After

LEMMA PrintKeepsInv ==
    ASSUME PrintInv, goes_on, NEW text \in Seq(Nat), text # << >>, print(text, text)
    PROVE  PrintInv'
<1>1. /\ pc = "idle" /\ todo' = text /\ pc' = "high_select"
      /\ due' = (IF tear = "none" THEN text ELSE << >>)
      /\ UNCHANGED << crtc, video, high, low, bx, tear, underrun, screen >>
  BY DEF print
<1>2. UNCHANGED << index, cursor_high, cursor_low, lines, row, col >>
  BY <1>1 DEF crtc, screen
<1>3. PortsInv'
  BY <1>1, <1>2 DEF PrintInv, PortsInv, Places, After, cursor
<1>4. tear' = "none" => TerminalInv'
  BY <1>1, <1>2 DEF PrintInv, TerminalInv, After, LinesOK, Agrees, cursor
<1> QED
  BY <1>3, <1>4 DEF PrintInv

LEMMA SelectKeepsInv ==
    ASSUME PrintInv, goes_on,
           \/ out_index("high_select", "high", "high_in")
           \/ out_index("low_select", "low", "low_in")
           \/ out_index("high_select_out", "high", "high_out")
           \/ out_index("low_select_out", "low", "low_out")
    PROVE  PrintInv'
<1>1. /\ << pc, index', pc' >> \in {<< "high_select", "high", "high_in" >>,
                                    << "low_select", "low", "low_in" >>,
                                    << "high_select_out", "high", "high_out" >>,
                                    << "low_select_out", "low", "low_out" >>}
      /\ UNCHANGED << cursor_high, cursor_low, video, todo, high, low, bx, tear,
                      underrun, lines, row, col, due >>
  BY DEF out_index, port, terminal, screen
<1>2. PortsInv'
  BY <1>1 DEF PrintInv, PortsInv, Places, After, cursor
<1>3. (pc' \in After <=> pc \in After) /\ pc' # "draw"
  BY <1>1 DEF After
<1>4. tear' = "none" => TerminalInv'
  BY <1>1, <1>3 DEF PrintInv, TerminalInv, LinesOK, Agrees, cursor
<1> QED
  BY <1>2, <1>4 DEF PrintInv

LEMMA InKeepsInv ==
    ASSUME PrintInv, goes_on, in_high \/ in_low
    PROVE  PrintInv'
<1>1. UNCHANGED << index, cursor_high, cursor_low, video, todo, bx, tear, underrun, lines,
                   row, col, due >>
  BY DEF in_high, in_low, crtc, terminal, screen
<1>2. CASE in_high
  <2>1. pc = "high_in" /\ pc' = "low_select" /\ high' = cursor_high /\ low' = low
    BY <1>2 DEF in_high, port, data, PrintInv, PortsInv
  <2>2. PortsInv'
    BY <1>1, <2>1 DEF PrintInv, PortsInv, Places, After, cursor
  <2>3. tear' = "none" => TerminalInv'
    BY <1>1, <2>1 DEF PrintInv, TerminalInv, After, LinesOK, Agrees, cursor
  <2> QED
    BY <2>2, <2>3 DEF PrintInv
<1>3. CASE in_low
  <2>1. pc = "low_in" /\ pc' = "draw" /\ low' = cursor_low /\ high' = high
        /\ high = cursor_high
    BY <1>3 DEF in_low, port, data, PrintInv, PortsInv
  <2>2. (high * BYTE + low)' = cursor /\ cursor' = cursor
    BY <1>1, <2>1 DEF cursor
  <2>3. PortsInv'
    BY <1>1, <2>1, <2>2 DEF PrintInv, PortsInv, Places, After
  <2>4. tear' = "none" => TerminalInv'
    BY <1>1, <2>1, <2>2 DEF PrintInv, TerminalInv, After, LinesOK, Agrees
  <2> QED
    BY <2>3, <2>4 DEF PrintInv
<1> QED
  BY <1>2, <1>3

LEMMA DrawKeepsInv ==
    ASSUME PrintInv, goes_on, draw
    PROVE  PrintInv'
<1>1. PICK b, c : b = high * BYTE + low /\ c = Head(todo)
  OBVIOUS
<1>2. /\ pc = "draw" /\ pc' = "high_select_out"
      /\ video' = drawn(video, b, c)[1] /\ bx' = drawn(video, b, c)[2]
      /\ underrun' = (c = backspace /\ b = 0) /\ high' = 0 /\ low' = 0
      /\ UNCHANGED << index, cursor_high, cursor_low, todo, tear, lines, row, col, due >>
  BY <1>1 DEF draw, port, crtc, terminal, screen
<1> SUFFICES ASSUME goes_on'
             PROVE  PortsInv' /\ (tear' = "none" => TerminalInv')
  BY DEF PrintInv
<1>3. PortsInv /\ (tear = "none" => TerminalInv)
  BY DEF PrintInv
<1>4. ~(c = backspace /\ b = 0)
  BY <1>2 DEF goes_on
<1>5. b \in 0..(CELLS - 1) /\ c \in Nat
  <2>1. b \in Nat
    BY <1>1, <1>3, Sizes DEF PortsInv
  <2>2. b < CELLS
    BY <1>1, <1>2, <1>3 DEF PortsInv
  <2>3. todo \in Seq(Nat) /\ todo # << >>
    BY <1>2, <1>3 DEF PortsInv
  <2> QED
    BY <1>1, <2>1, <2>2, <2>3, Sizes
<1>6. StaysOnScreen(video, drawn(video, b, c))
  BY <1>3, <1>4, <1>5, DrawnStays DEF PortsInv
<1>7. /\ video' \in Video /\ bx' \in Nat /\ bx' < CELLS
      /\ \A i \in 0..(WORD \div 2 - 1) : i >= CELLS => video'[i] = blank
  BY <1>2, <1>3, <1>6, Sizes DEF StaysOnScreen, PortsInv
<1>8. PortsInv'
  BY <1>2, <1>3, <1>7 DEF PortsInv, Places, After, cursor
<1>9. ASSUME tear' = "none"
      PROVE  TerminalInv'
  <2>1. TerminalInv
    BY <1>2, <1>3, <1>9
  <2>2. Agrees(video, b) /\ due = todo /\ LinesOK
    BY <1>1, <1>2, <2>1 DEF TerminalInv, After
  <2>3. PICK v \in Video : v = video
    BY <1>3 DEF PortsInv
  <2>4. Agrees(v, b)'
    BY <1>2, <2>2, <2>3 DEF Agrees
  <2>5. /\ ~(Head(todo') = backspace /\ b = 0)
        /\ video' = drawn(v, b, Head(todo'))[1] /\ bx' = drawn(v, b, Head(todo'))[2]
    BY <1>1, <1>2, <1>4, <2>3
  <2>6. LinesOK' /\ due' = todo' /\ pc' # "draw" /\ pc' \in After
    BY <1>2, <2>2 DEF LinesOK, After
  <2> QED
    BY <1>5, <2>4, <2>5, <2>6 DEF TerminalInv
<1> QED
  BY <1>8, <1>9

LEMMA OutHighKeepsInv ==
    ASSUME PrintInv, goes_on, out_high
    PROVE  PrintInv'
<1>1. PortsInv /\ (tear = "none" => TerminalInv)
  BY DEF PrintInv
<1>2. /\ pc = "high_out" /\ pc' = "low_select_out" /\ cursor_high' = bx \div BYTE
      /\ UNCHANGED << index, cursor_low, video, todo, high, low, bx, tear, underrun, lines,
                      row, col, due >>
  BY <1>1 DEF out_high, port, write_data, PortsInv, terminal, screen
<1>3. bx \div BYTE \in Nat
  BY <1>1, CursorBytes DEF PortsInv
<1>4. PortsInv'
  BY <1>1, <1>2, <1>3 DEF PortsInv, Places, After
<1>5. ASSUME tear' = "none"
      PROVE  TerminalInv'
  <2>1. TerminalInv
    BY <1>1, <1>2, <1>5
  <2>2. PICK v \in Video, b \in 0..(CELLS - 1) :
           /\ Agrees(v, b) /\ ~(Head(todo) = backspace /\ b = 0)
           /\ video = drawn(v, b, Head(todo))[1] /\ bx = drawn(v, b, Head(todo))[2]
    BY <1>2, <2>1 DEF TerminalInv, After
  <2>3. /\ Agrees(v, b)' /\ ~(Head(todo') = backspace /\ b = 0)
        /\ video' = drawn(v, b, Head(todo'))[1] /\ bx' = drawn(v, b, Head(todo'))[2]
    BY <1>2, <2>2 DEF Agrees
  <2>4. LinesOK' /\ due' = todo' /\ pc' # "draw" /\ pc' \in After
    BY <1>2, <2>1 DEF TerminalInv, LinesOK, After
  <2> QED
    BY <2>3, <2>4 DEF TerminalInv
<1> QED
  BY <1>4, <1>5 DEF PrintInv

LEMMA OutLowKeepsInv ==
    ASSUME PrintInv, goes_on, out_low
    PROVE  PrintInv'
<1>1. PortsInv /\ (tear = "none" => TerminalInv)
  BY DEF PrintInv
<1>2. /\ pc = "low_out" /\ cursor_low' = bx % BYTE /\ cursor_high' = cursor_high /\ bx' = 0
      /\ cursor_high = bx \div BYTE /\ bx \in Nat /\ bx < CELLS
      /\ todo' = Tail(todo) /\ pc' = (IF Tail(todo) = << >> THEN "idle" ELSE "high_select")
      /\ UNCHANGED << index, video, high, low, tear, underrun >>
  BY <1>1 DEF out_low, port, write_data, PortsInv, After
<1>3. cursor' = bx /\ bx % BYTE \in Nat
  BY <1>2, CursorBytes DEF cursor
<1>4. todo \in Seq(Nat) /\ todo # << >> /\ Tail(todo) \in Seq(Nat) /\ Head(todo) \in Nat
  BY <1>1, <1>2 DEF PortsInv
<1>5. PortsInv'
  BY <1>1, <1>2, <1>3, <1>4 DEF PortsInv, Places, After
<1>6. ASSUME tear' = "none"
      PROVE  TerminalInv'
  <2>1. TerminalInv /\ tear = "none"
    BY <1>1, <1>2, <1>6
  <2>2. PICK v \in Video, b \in 0..(CELLS - 1) :
           /\ Agrees(v, b) /\ ~(Head(todo) = backspace /\ b = 0)
           /\ video = drawn(v, b, Head(todo))[1] /\ bx = drawn(v, b, Head(todo))[2]
    BY <1>2, <2>1 DEF TerminalInv, After
  <2>3. due = todo /\ LinesOK
    BY <2>1 DEF TerminalInv
  <2>4. show(Head(todo)) /\ due' = Tail(todo)
    BY <1>4, <2>1, <2>3 DEF out_low, shows
  <2>5. PICK c, v2, b2 : /\ c \in Nat /\ c = Head(todo)
                         /\ v2 = drawn(v, b, c)[1] /\ b2 = drawn(v, b, c)[2]
    BY <1>4
  <2>6. LinesOK' /\ Agrees(drawn(v, b, c)[1], drawn(v, b, c)[2])'
    BY <2>2, <2>3, <2>4, <2>5, ShowAgrees
  <2>7. Agrees(v2, b2)' /\ v2 = video' /\ b2 = cursor'
    BY <1>2, <1>3, <2>2, <2>5, <2>6
  <2>8. Agrees(video, cursor)'
    BY <2>7 DEF Agrees
  <2>9. pc' \notin After /\ pc' # "draw"
    BY <1>2 DEF After
  <2> QED
    BY <1>2, <2>4, <2>6, <2>8, <2>9 DEF TerminalInv
<1> QED
  BY <1>5, <1>6 DEF PrintInv

LEMMA EchoKeepsInv ==
    ASSUME PrintInv, NEW c \in Nat, echo(c)
    PROVE  PrintInv'
<1> SUFFICES ASSUME goes_on'
             PROVE  PortsInv' /\ (tear' = "none" => TerminalInv')
  BY DEF PrintInv
<1>1. goes_on /\ PortsInv /\ (tear = "none" => TerminalInv)
  BY DEF PrintInv, echo
<1>2. PICK b, v2, b2 : b = cursor /\ v2 = drawn(video, b, c)[1] /\ b2 = drawn(video, b, c)[2]
  OBVIOUS
<1>3. /\ video' = v2 /\ index' = "low"
      /\ cursor_high' = b2 \div BYTE /\ cursor_low' = b2 % BYTE
      /\ underrun' = (c = backspace /\ b = 0) /\ tear' = tear_here
      /\ UNCHANGED << pc, todo, high, low, bx >>
  BY <1>2 DEF echo, printer
<1>4. ~(c = backspace /\ b = 0) /\ tear_here # "split"
  BY <1>3 DEF goes_on
<1>5. pc \in {"idle", "high_select", "draw", "high_select_out"}
  BY <1>4 DEF tear_here
<1>6. b \in 0..(CELLS - 1)
  <2>1. b \in Nat
    BY <1>1, <1>2, Sizes DEF PortsInv, cursor
  <2>2. b < CELLS
    BY <1>1, <1>2, <1>5 DEF PortsInv
  <2> QED
    BY <2>1, <2>2, Sizes
<1>7. StaysOnScreen(video, drawn(video, b, c))
  BY <1>1, <1>4, <1>6, DrawnStays DEF PortsInv
<1>8. /\ v2 \in Video /\ b2 \in Nat /\ b2 < CELLS
      /\ \A i \in 0..(WORD \div 2 - 1) : i >= CELLS => v2[i] = blank
  BY <1>1, <1>2, <1>7, Sizes DEF StaysOnScreen, PortsInv
<1>9. cursor' = b2 /\ cursor_high' \in Nat /\ cursor_low' \in Nat
  BY <1>3, <1>8, CursorBytes DEF cursor
<1>10. PortsInv'
  BY <1>1, <1>3, <1>5, <1>8, <1>9 DEF PortsInv, Places, After
<1>11. ASSUME tear' = "none"
       PROVE  TerminalInv'
  <2>1. tear = "none" /\ pc \in {"idle", "high_select"}
    BY <1>3, <1>5, <1>11 DEF tear_here
  <2>2. TerminalInv /\ show(c) /\ due' = due
    BY <1>1, <1>11, <2>1 DEF echo
  <2>3. LinesOK /\ Agrees(video, b) /\ due = todo
    BY <1>2, <2>1, <2>2 DEF TerminalInv, After
  <2>4. PICK v \in Video : v = video
    BY <1>1 DEF PortsInv
  <2>5. LinesOK' /\ Agrees(drawn(v, b, c)[1], drawn(v, b, c)[2])'
    BY <1>4, <1>6, <2>2, <2>3, <2>4, ShowAgrees
  <2>6. Agrees(v2, b2)'
    BY <1>2, <2>4, <2>5
  <2>7. Agrees(video, cursor)'
    BY <1>3, <1>9, <2>6 DEF Agrees
  <2>8. pc' \notin After /\ pc' # "draw"
    BY <1>3, <2>1 DEF After
  <2> QED
    BY <1>3, <2>2, <2>3, <2>5, <2>7, <2>8 DEF TerminalInv
<1> QED
  BY <1>10, <1>11

LEMMA PrintInvNext ==
    ASSUME PrintInv, [PrintNext]_printvars
    PROVE  PrintInv'
<1>1. CASE UNCHANGED printvars
  <2>1. UNCHANGED << index, cursor_high, cursor_low, video, pc, todo, high, low, bx, tear,
                     underrun, lines, row, col, due >>
    BY <1>1 DEF printvars, crtc, printer, terminal, screen
  <2>2. goes_on' = goes_on
    BY <2>1 DEF goes_on
  <2>3. PortsInv => PortsInv'
    BY <2>1 DEF PortsInv, cursor
  <2>4. TerminalInv => TerminalInv'
    BY <2>1 DEF TerminalInv, LinesOK, Agrees, cursor
  <2> QED
    BY <2>1, <2>2, <2>3, <2>4 DEF PrintInv
<1>2. ASSUME NEW s \in Texts, put_str(s)
      PROVE  PrintInv'
  <2>1. s \in Seq(Nat) /\ s # << >> /\ print(s, s)
    BY <1>2, PrintAssumption DEF put_str
  <2>2. goes_on
    BY <2>1 DEF print
  <2> QED
    BY <2>1, <2>2, PrintKeepsInv
<1>3. ASSUME NEW n \in Numbers, put_int(n)
      PROVE  PrintInv'
  <2>1. PICK s : s = put_int_text(n)
    OBVIOUS
  <2>2. s \in Seq(Nat) /\ s # << >> /\ s = number(n)
    BY <2>1, PutIntWrites
  <2>3. print(s, s)
    BY <1>3, <2>1, <2>2 DEF put_int
  <2>4. goes_on
    BY <2>3 DEF print
  <2> QED
    BY <2>2, <2>3, <2>4, PrintKeepsInv
<1>4. CASE put_char
  <2>1. goes_on
    BY <1>4 DEF put_char, out_index, in_high, in_low, draw, out_high, out_low, port
  <2> QED
    BY <1>4, <2>1, SelectKeepsInv, InKeepsInv, DrawKeepsInv, OutHighKeepsInv, OutLowKeepsInv
    DEF put_char
<1>5. ASSUME NEW c \in Echoed, echo(c)
      PROVE  PrintInv'
  BY <1>5, EchoKeepsInv, PrintAssumption
<1> QED
  BY <1>1, <1>2, <1>3, <1>4, <1>5 DEF PrintNext

\* put_char: as long as no echo comes between the accesses to the index and the
\* data port, and no backspace in the first cell, nothing is written behind the
\* screen and the cursor stays on it, for every size of the screen.
THEOREM CursorStaysOnScreen == PrintSpec => []OnScreen
<1>1. PrintInv => OnScreen
  <2>1. PortsInv => /\ pc \notin {"low_select_out", "low_out"} => cursor < CELLS
                    /\ \A i \in DOMAIN video : i >= CELLS => video[i] = blank
    BY DEF PortsInv, Video
  <2> QED
    BY <2>1 DEF PrintInv, OnScreen
<1> QED
  BY <1>1, PrintInvInit, PrintInvNext, PTL DEF PrintSpec

\* put_str, put_int and the echo: as long as no echo comes inside a character,
\* the screen shows what a terminal of lines shows, and numbers as they are
\* written, for every size of the screen, text and number.
THEOREM ScreenShowsText == PrintSpec => []ScreenExact
<1>1. PrintInv => ScreenExact
  <2> SUFFICES ASSUME PrintInv, tear = "none", ~underrun, pc = "idle"
               PROVE  /\ due = << >> /\ cursor = row * COLS + col
                      /\ \A i \in 0..(CELLS - 1) : video[i] = in_lines[i]
    BY DEF ScreenExact
  <2>1. goes_on /\ PortsInv /\ TerminalInv
    BY DEF PrintInv, goes_on
  <2>2. due = << >> /\ Agrees(video, cursor)
    BY <2>1 DEF PortsInv, TerminalInv, After
  <2>3. ASSUME NEW i \in 0..(CELLS - 1)
        PROVE  video[i] = in_lines[i]
    <3>1. PICK r \in 0..(ROWS - 1), k \in 0..(COLS - 1) :
             r = i \div COLS /\ k = i % COLS /\ i = r * COLS + k
      BY PlaceOf
    <3>2. video[r * COLS + k] = lines[r][k]
      BY <2>2 DEF Agrees, Shows
    <3>3. in_lines[i] = lines[i \div COLS][i % COLS]
      BY DEF in_lines
    <3> QED
      BY <3>1, <3>2, <3>3
  <2> QED
    BY <2>2, <2>3 DEF Agrees
<1> QED
  BY <1>1, PrintInvInit, PrintInvNext, PTL DEF PrintSpec

=============================================================================
