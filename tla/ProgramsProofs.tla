--------------------------- MODULE ProgramsProofs ---------------------------
(***************************************************************************)
(* The debugger keeps its table and the debug registers in agreement, for  *)
(* any threads that come and go, and never takes an int3 of its own for    *)
(* the program's byte; the scanner finds the tokens of any text; the       *)
(* operations of list, its stable merge sort among them, leave what they   *)
(* promise in proper rings, for any number of lists, nodes and elements.   *)
(***************************************************************************)
EXTENDS Debugger, Scanner, StlList, Induction, SequenceTheorems

-----------------------------------------------------------------------------
\* The debugger

Register == [address : Addr \cup {None}, enabled : BOOLEAN, condition : SUBSET {0, 1}]

\* ahead(t): the list that bp_set_hw or bp_del_hw goes through still holds t.
ahead(t) == \E n \in DOMAIN todo : todo[n] = t

\* A register that stops its thread is in the table as it is.
exact(t, i) ==
    dr[t][i].enabled =>
        /\ hardware_breakpoints[i] # None
        /\ dr[t][i] = register(hardware_breakpoints[i][1], TRUE, hardware_breakpoints[i][2])

DbgTypeOK ==
    /\ hardware_breakpoints \in [Slot -> Hardware \cup {None}]
    /\ doing \in {"run", "script", "single_step", "bp_set_hw", "bp_del_hw", "bp_set_soft",
                  "bp_set_mem", "crashed"}
    /\ todo \in Seq(Tid)
    /\ main \in alive /\ alive \in SUBSET Tid
    /\ dr \in [Tid -> [Slot -> Register]]
    /\ dr6 \in [Tid -> SUBSET Slot]

\* What is not enabled has been cleared, so that a condition never outlives its
\* breakpoint, and a thread begins with nothing set.
ClearedOrEnabled ==
    \A t \in Tid, i \in Slot : (dr[t][i].enabled /\ t \in alive) \/ dr[t][i] = unused

\* A register that nobody is setting or deleting is in agreement with the table.
SettledExact ==
    doing # "crashed" =>
        \A i \in Slot : (i = bp_index /\ doing \in {"bp_set_hw", "bp_del_hw"}) \/
            /\ \A t \in alive \ refused : exact(t, i)
            /\ hardware_breakpoints[i] # None /\ main \notin refused => dr[main][i].enabled

\* While a breakpoint is set, those threads that have it have it as it is going
\* to be in the table, and the main thread has it or is still to get it.
SettingExact ==
    doing = "bp_set_hw" =>
        /\ bp_index \in Slot /\ bp \in Hardware
        /\ hardware_breakpoints[bp_index] \in {None, bp}
        /\ \A t \in alive \ refused : exact(t, bp_index)
        /\ ahead(main) \/ main \in refused \/ dr[main][bp_index].enabled

\* While one is deleted, those threads that are done with do not have it any
\* more, and the table has it only before the first of them.
DeletingExact ==
    doing = "bp_del_hw" =>
        /\ bp_index \in Slot
        /\ \A t \in alive \ refused : ahead(t) \/ ~dr[t][bp_index].enabled
        /\ hardware_breakpoints[bp_index] # None => ahead(main)

RegistersInv ==
    DbgTypeOK /\ ClearedOrEnabled /\ SettledExact /\ SettingExact /\ DeletingExact

\* The list of a finite set's elements holds all of them.
LEMMA SetToSeqHoldsAll ==
    ASSUME NEW S, IsFiniteSet(S)
    PROVE  /\ SetToSeq(S) \in Seq(S)
           /\ \A t \in S : \E n \in DOMAIN SetToSeq(S) : SetToSeq(S)[n] = t
<1> DEFINE n == Cardinality(S)
<1>1. n \in Nat /\ \E f \in Injection(1..n, S) : TRUE
  BY FS_CardinalityType DEF ExistsBijection, Bijection
<1>2. \E f \in [1..n -> S] : IsInjective(f)
  BY <1>1 DEF Injection
<1>3. SetToSeq(S) \in [1..n -> S] /\ IsInjective(SetToSeq(S))
  BY <1>2 DEF SetToSeq
<1>4. SetToSeq(S) \in Injection(1..n, S)
  BY <1>3 DEF Injection
<1>5. IsFiniteSet(1..n) /\ Cardinality(1..n) = n
  BY <1>1, FS_Interval
<1>6. SetToSeq(S) \in Surjection(1..n, S)
  BY <1>4, <1>5, FS_Injection
<1>7. \A t \in S : \E k \in 1..n : SetToSeq(S)[k] = t
  BY <1>6 DEF Surjection
<1> QED
  BY <1>1, <1>3, <1>7

LEMMA TodoHoldsAlive ==
    ASSUME DbgTypeOK
    PROVE  /\ SetToSeq(alive) \in Seq(Tid)
           /\ \A t \in alive : \E n \in DOMAIN SetToSeq(alive) : SetToSeq(alive)[n] = t
<1>1. IsFiniteSet(alive)
  BY DebuggerAssumption, FS_Subset DEF DbgTypeOK
<1>2. SetToSeq(alive) \in Seq(alive)
  BY <1>1, SetToSeqHoldsAll
<1>3. SetToSeq(alive) \in Seq(Tid)
  BY <1>2 DEF DbgTypeOK
<1> QED
  BY <1>1, <1>3, SetToSeqHoldsAll

\* There are four debug registers at most: the first of some exists.
LEMMA MinSlot ==
    ASSUME NEW slots \in SUBSET Slot, slots # {}
    PROVE  min_slot(slots) \in slots
<1>1. slots \subseteq 0..3
  BY DebuggerAssumption
<1>2. \E i \in slots : \A j \in slots : i <= j
  <2>1. CASE 0 \in slots
    BY <1>1, <2>1
  <2>2. CASE 0 \notin slots /\ 1 \in slots
    BY <1>1, <2>2
  <2>3. CASE 0 \notin slots /\ 1 \notin slots /\ 2 \in slots
    BY <1>1, <2>3
  <2>4. CASE 0 \notin slots /\ 1 \notin slots /\ 2 \notin slots
    <3>1. \A i \in slots : i = 3
      BY <1>1, <2>4
    <3> QED
      BY <3>1
  <2> QED
    BY <2>1, <2>2, <2>3, <2>4
<1> QED
  BY <1>2 DEF min_slot

LEMMA RegistersInvInit ==
    ASSUME DbgInit
    PROVE  RegistersInv
<1>1. unused \in Register
  BY DEF unused, register, Register
<1>2. DbgTypeOK
  BY <1>1, DebuggerAssumption DEF DbgInit, DbgTypeOK
<1>3. ClearedOrEnabled
  BY DEF DbgInit, ClearedOrEnabled
<1>4. SettledExact
  BY DebuggerAssumption DEF DbgInit, SettledExact, exact, unused, register
<1>5. SettingExact /\ DeletingExact
  BY DEF DbgInit, SettingExact, DeletingExact
<1> QED
  BY <1>2, <1>3, <1>4, <1>5 DEF RegistersInv

\* Nothing that the debuggee does to itself but starting and ending threads
\* concerns the registers and the table.
LEMMA DebuggeeKeepsRegisters ==
    ASSUME RegistersInv,
           UNCHANGED << hardware_breakpoints, doing, bp_index, todo, bp, alive, dr, refused >>,
           dr6' \in [Tid -> SUBSET Slot]
    PROVE  RegistersInv'
<1>1. DbgTypeOK'
  BY DEF RegistersInv, DbgTypeOK
<1>2. ClearedOrEnabled'
  BY DEF RegistersInv, ClearedOrEnabled
<1>3. SettledExact'
  BY DEF RegistersInv, SettledExact, exact, ahead
<1>4. SettingExact'
  BY DEF RegistersInv, SettingExact, exact, ahead
<1>5. DeletingExact'
  BY DEF RegistersInv, DeletingExact, exact, ahead
<1> QED
  BY <1>1, <1>2, <1>3, <1>4, <1>5 DEF RegistersInv

\* The script and the handlers go from one of the places where nothing is being
\* set or deleted to another.
LEMMA ScriptKeepsRegisters ==
    ASSUME RegistersInv,
           doing \in {"run", "script", "single_step", "bp_set_soft", "bp_set_mem"},
           doing' \in {"run", "script", "single_step", "bp_set_soft", "bp_set_mem", "crashed"},
           UNCHANGED << hardware_breakpoints, todo, alive, dr, dr6, refused >>
    PROVE  RegistersInv'
<1>1. DbgTypeOK'
  BY DEF RegistersInv, DbgTypeOK
<1>2. ClearedOrEnabled'
  BY DEF RegistersInv, ClearedOrEnabled
<1>3. SettledExact'
  BY DEF RegistersInv, SettledExact, exact
<1>4. SettingExact' /\ DeletingExact'
  BY DEF SettingExact, DeletingExact
<1> QED
  BY <1>1, <1>2, <1>3, <1>4 DEF RegistersInv

LEMMA StartThreadKeepsRegisters ==
    ASSUME RegistersInv, NEW t \in Tid, start_thread(t)
    PROVE  RegistersInv'
<1>a. \A i \in Slot : ~dr[t][i].enabled
  BY DEF RegistersInv, ClearedOrEnabled, start_thread, unused, register
<1>1. DbgTypeOK'
  BY DEF RegistersInv, DbgTypeOK, start_thread, books, script, locals, history
<1>2. ClearedOrEnabled'
  BY DEF RegistersInv, ClearedOrEnabled, start_thread
<1>3. SettledExact'
  BY <1>a DEF RegistersInv, SettledExact, exact, start_thread, books, script, locals, history
<1>4. SettingExact'
  BY <1>a DEF RegistersInv, SettingExact, exact, ahead, start_thread, books, script, locals, history
<1>5. DeletingExact'
  BY <1>a DEF RegistersInv, DeletingExact, ahead, start_thread, books, script, locals, history
<1> QED
  BY <1>1, <1>2, <1>3, <1>4, <1>5 DEF RegistersInv

\* What a thread that exits had in its registers is gone.
LEMMA ExitThreadKeepsRegisters ==
    ASSUME RegistersInv, NEW t \in Tid, exit_thread(t)
    PROVE  RegistersInv'
<1>1. /\ doing' = doing /\ todo' = todo /\ bp_index' = bp_index /\ bp' = bp
      /\ hardware_breakpoints' = hardware_breakpoints
      /\ alive' = alive \ {t} /\ refused' = refused \ {t} /\ t # main
      /\ doing \in {"run", "script", "bp_set_hw", "bp_set_soft", "bp_set_mem"}
  BY DEF exit_thread, runs, books, script, locals
<1>2. unused \in Register /\ ~unused.enabled
  BY DEF unused, register, Register
<1>3. /\ \A i \in Slot : dr'[t][i] = unused
      /\ \A u \in Tid \ {t} : dr'[u] = dr[u]
      /\ dr' \in [Tid -> [Slot -> Register]]
  BY <1>2 DEF exit_thread, RegistersInv, DbgTypeOK
<1>4. DbgTypeOK'
  BY <1>1, <1>3 DEF RegistersInv, DbgTypeOK, exit_thread
<1>5. ClearedOrEnabled'
  BY <1>1, <1>3 DEF RegistersInv, ClearedOrEnabled
<1>6. main \in Tid /\ alive \in SUBSET Tid
  BY DEF RegistersInv, DbgTypeOK
<1>7. SettledExact'
  BY <1>1, <1>3, <1>6 DEF RegistersInv, SettledExact, exact
<1>8. SettingExact'
  BY <1>1, <1>3, <1>6 DEF RegistersInv, SettingExact, exact, ahead
<1>9. DeletingExact'
  BY <1>1 DEF DeletingExact
<1> QED
  BY <1>4, <1>5, <1>7, <1>8, <1>9 DEF RegistersInv

LEMMA BeginDeleteKeepsRegisters ==
    ASSUME RegistersInv, exception_handler_single_step
    PROVE  RegistersInv'
<1>1. PICK t \in seen_by_handler :
          LET reported == IF t = None THEN {}
                          ELSE {i \in dr6[t] : hardware_breakpoints[i] # None}
          IN  IF reported = {}
              THEN doing' = "crashed" /\ UNCHANGED << bp_index, todo >>
              ELSE /\ doing' = "bp_del_hw"
                   /\ bp_index' = min_slot(reported)
                   /\ todo' = SetToSeq(alive)
  BY DEF exception_handler_single_step
<1> DEFINE reported == IF t = None THEN {}
                       ELSE {i \in dr6[t] : hardware_breakpoints[i] # None}
<1>2. doing = "single_step" /\ UNCHANGED << hardware_breakpoints, alive, dr, dr6, refused >>
  BY DEF exception_handler_single_step, books, debuggee, history
<1>3. CASE reported = {}
  BY <1>1, <1>2, <1>3, ScriptKeepsRegisters
<1>4. CASE reported # {}
  <2>1. doing' = "bp_del_hw" /\ bp_index' = min_slot(reported) /\ todo' = SetToSeq(alive)
    BY <1>1, <1>4
  <2>2. reported \in SUBSET Slot
    BY DEF seen_by_handler, RegistersInv, DbgTypeOK
  <2>3. bp_index' \in Slot
    BY <1>4, <2>1, <2>2, MinSlot
  <2>4. todo' \in Seq(Tid) /\ \A u \in alive : ahead(u)'
    BY <2>1, TodoHoldsAlive DEF RegistersInv, ahead
  <2>5. DbgTypeOK'
    BY <1>2, <2>1, <2>4 DEF RegistersInv, DbgTypeOK
  <2>6. ClearedOrEnabled'
    BY <1>2 DEF RegistersInv, ClearedOrEnabled
  <2>7. SettledExact'
    BY <1>2, <2>1 DEF RegistersInv, SettledExact, exact
  <2>8. SettingExact'
    BY <2>1 DEF SettingExact
  <2>9. DeletingExact'
    BY <1>2, <2>1, <2>3, <2>4 DEF RegistersInv, DbgTypeOK, DeletingExact
  <2> QED
    BY <2>5, <2>6, <2>7, <2>8, <2>9 DEF RegistersInv
<1> QED
  BY <1>3, <1>4

\* SetThreadContext changes one register of one thread, or nothing.
LEMMA SetContext ==
    ASSUME RegistersInv, NEW t \in Tid, bp_index \in Slot, NEW value \in Register,
           set_context(t, value)
    PROVE  /\ dr' \in [Tid -> [Slot -> Register]]
           /\ \A u \in Tid, i \in Slot :
                 dr'[u][i] = dr[u][i] \/ (u = t /\ i = bp_index /\ dr'[u][i] = value)
           /\ dr'[t][bp_index] = value \/ t \in refused'
           /\ refused \subseteq refused'
<1>1. dr \in [Tid -> [Slot -> Register]]
  BY DEF RegistersInv, DbgTypeOK
<1>2. CASE dr' = [dr EXCEPT ![t][bp_index] = value] /\ UNCHANGED refused
  <2>1. /\ dr' \in [Tid -> [Slot -> Register]]
        /\ dr'[t] = [dr[t] EXCEPT ![bp_index] = value]
        /\ \A u \in Tid \ {t} : dr'[u] = dr[u]
    BY <1>1, <1>2
  <2>2. dr'[t][bp_index] = value /\ \A i \in Slot \ {bp_index} : dr'[t][i] = dr[t][i]
    BY <1>1, <2>1
  <2> QED
    BY <1>2, <2>1, <2>2
<1>3. CASE refused' = refused \cup {t} /\ UNCHANGED dr
  BY <1>1, <1>3
<1> QED
  BY <1>2, <1>3 DEF set_context

LEMMA HeadOfTodo ==
    ASSUME DbgTypeOK, todo # << >>, todo' = Tail(todo)
    PROVE  /\ Head(todo) \in Tid
           /\ todo' \in Seq(Tid)
           /\ \A t \in Tid : ahead(t) => t = Head(todo) \/ ahead(t)'
<1>1. todo \in Seq(Tid) /\ Len(todo) \in Nat /\ Len(todo) > 0
  BY DEF DbgTypeOK
<1>2. Len(todo') = Len(todo) - 1 /\ \A n \in 1..Len(todo') : todo'[n] = todo[n + 1]
  BY <1>1
<1>3. ASSUME NEW t \in Tid, ahead(t), t # Head(todo)
      PROVE  ahead(t)'
  <2>1. PICK n \in 1..Len(todo) : todo[n] = t
    BY <1>1, <1>3 DEF ahead
  <2>2. n # 1
    BY <1>1, <1>3, <2>1
  <2>3. n - 1 \in 1..Len(todo') /\ todo'[n - 1] = t
    BY <1>1, <1>2, <2>1, <2>2
  <2>4. DOMAIN (todo') = 1..Len(todo')
    BY <1>1
  <2> QED
    BY <2>3, <2>4 DEF ahead
<1> QED
  BY <1>1, <1>3

LEMMA ExactKept ==
    ASSUME NEW t, NEW i, exact(t, i), dr'[t][i] = dr[t][i],
           hardware_breakpoints'[i] = hardware_breakpoints[i]
    PROVE  exact(t, i)'
BY DEF exact

LEMMA UnusedIsRegister == unused \in Register /\ ~unused.enabled
BY DEF unused, register, Register

LEMMA DeleteKeepsRegisters ==
    ASSUME RegistersInv, bp_del_hw
    PROVE  RegistersInv'
<1>1. /\ doing = "bp_del_hw" /\ todo # << >> /\ todo' = Tail(todo)
      /\ set_context(Head(todo), unused)
      /\ hardware_breakpoints' = [hardware_breakpoints EXCEPT ![bp_index] = None]
      /\ doing' = IF hardware_breakpoints[bp_index] = None THEN "crashed" ELSE doing
      /\ UNCHANGED << bp_index, bp, alive, dr6 >>
  BY DEF bp_del_hw, deleted
<1>2. bp_index \in Slot
  BY <1>1 DEF RegistersInv, DeletingExact
<1>3. /\ Head(todo) \in Tid
      /\ todo' \in Seq(Tid)
      /\ \A t \in Tid : ahead(t) => t = Head(todo) \/ ahead(t)'
  BY <1>1, HeadOfTodo DEF RegistersInv
<1>4. PICK h \in Tid : h = Head(todo)
  BY <1>3
<1>5. /\ dr' \in [Tid -> [Slot -> Register]]
      /\ \A u \in Tid, i \in Slot :
            dr'[u][i] = dr[u][i] \/ (u = h /\ i = bp_index /\ dr'[u][i] = unused)
      /\ dr'[h][bp_index] = unused \/ h \in refused'
      /\ refused \subseteq refused'
  BY <1>1, <1>2, <1>4, UnusedIsRegister, SetContext
<1>6. DbgTypeOK'
  BY <1>1, <1>2, <1>3, <1>5 DEF RegistersInv, DbgTypeOK
<1>7. ClearedOrEnabled'
  BY <1>1, <1>5 DEF RegistersInv, ClearedOrEnabled
<1>8. SettledExact'
  <2>1. \A i \in Slot \ {bp_index} : hardware_breakpoints'[i] = hardware_breakpoints[i]
    BY <1>1, <1>2 DEF RegistersInv, DbgTypeOK
  <2>2. alive \in SUBSET Tid /\ main \in Tid
    BY DEF RegistersInv, DbgTypeOK
  <2>3. \A i \in Slot \ {bp_index}, t \in Tid : dr'[t][i] = dr[t][i]
    BY <1>5
  <2>4. \A i \in Slot \ {bp_index} :
          /\ \A t \in alive \ refused : exact(t, i)
          /\ hardware_breakpoints[i] # None /\ main \notin refused => dr[main][i].enabled
    BY <1>1 DEF RegistersInv, SettledExact
  <2>5. \A i \in Slot \ {bp_index} :
          /\ \A t \in alive' \ refused' : exact(t, i)'
          /\ hardware_breakpoints'[i] # None /\ main \notin refused' => dr'[main][i].enabled
    <3> SUFFICES ASSUME NEW i \in Slot \ {bp_index}
                 PROVE  /\ \A t \in alive \ refused' : exact(t, i)'
                        /\ hardware_breakpoints'[i] # None /\ main \notin refused' =>
                                dr'[main][i].enabled
      BY <1>1
    <3>1. \A t \in alive \ refused' : exact(t, i)'
      <4> SUFFICES ASSUME NEW t \in alive \ refused' PROVE exact(t, i)'
        OBVIOUS
      <4> QED
        BY <1>5, <2>1, <2>2, <2>3, <2>4, ExactKept
    <3> QED
      BY <1>5, <2>1, <2>2, <2>3, <2>4, <3>1
  <2> QED
    BY <1>1, <2>5 DEF SettledExact
<1>9. SettingExact'
  BY <1>1 DEF SettingExact
<1>10. DeletingExact'
  <2>1. hardware_breakpoints'[bp_index] = None
    BY <1>1, <1>2 DEF RegistersInv, DbgTypeOK
  <2>2. \A t \in alive \ refused : ahead(t) \/ ~dr[t][bp_index].enabled
    BY <1>1 DEF RegistersInv, DeletingExact
  <2>3. alive \in SUBSET Tid
    BY DEF RegistersInv, DbgTypeOK
  <2>4. \A t \in alive \ refused' : ahead(t)' \/ ~dr'[t][bp_index].enabled
    BY <1>2, <1>3, <1>4, <1>5, <2>2, <2>3, UnusedIsRegister
  <2> QED
    BY <1>1, <1>2, <2>1, <2>4 DEF DeletingExact
<1> QED
  BY <1>6, <1>7, <1>8, <1>9, <1>10 DEF RegistersInv

LEMMA EndDeleteKeepsRegisters ==
    ASSUME RegistersInv, bp_del_hw_done
    PROVE  RegistersInv'
<1>1. /\ doing = "bp_del_hw" /\ todo = << >> /\ doing' = "script"
      /\ UNCHANGED << hardware_breakpoints, todo, alive, dr, dr6, refused >>
  BY DEF bp_del_hw_done, books, history
<1>2. \A t \in Tid : ~ahead(t)
  BY <1>1 DEF ahead
<1>3. DbgTypeOK'
  BY <1>1 DEF RegistersInv, DbgTypeOK
<1>4. ClearedOrEnabled'
  BY <1>1 DEF RegistersInv, ClearedOrEnabled
<1>5. hardware_breakpoints[bp_index] = None /\ \A t \in alive \ refused : exact(t, bp_index)
  BY <1>1, <1>2, DebuggerAssumption DEF RegistersInv, DbgTypeOK, DeletingExact, exact
<1>6. SettledExact'
  BY <1>1, <1>5 DEF RegistersInv, SettledExact, exact
<1> QED
  BY <1>1, <1>3, <1>4, <1>6 DEF RegistersInv, SettingExact, DeletingExact

LEMMA BeginSetKeepsRegisters ==
    ASSUME RegistersInv, NEW wanted \in Hardware, bp_set_hw(wanted)
    PROVE  RegistersInv'
<1> DEFINE available == {i \in Slot : hardware_breakpoints[i] = None}
<1>1. /\ doing = "script" /\ available # {} /\ bp_index' = min_slot(available) /\ bp' = wanted
      /\ todo' = SetToSeq(alive) /\ doing' = "bp_set_hw"
      /\ UNCHANGED << hardware_breakpoints, alive, dr, dr6, refused >>
  BY DEF bp_set_hw, books, debuggee, history
<1>2. bp_index' \in available
  BY <1>1, MinSlot
<1>3. todo' \in Seq(Tid) /\ \A u \in alive : ahead(u)'
  BY <1>1, TodoHoldsAlive DEF RegistersInv, ahead
<1>4. DbgTypeOK'
  BY <1>1, <1>3 DEF RegistersInv, DbgTypeOK
<1>5. ClearedOrEnabled'
  BY <1>1 DEF RegistersInv, ClearedOrEnabled
<1>6. SettledExact'
  BY <1>1 DEF RegistersInv, SettledExact, exact
<1>7. SettingExact'
  <2>1. \A t \in alive \ refused : exact(t, bp_index')
    BY <1>1, <1>2 DEF RegistersInv, SettledExact
  <2>2. main \in alive
    BY DEF RegistersInv, DbgTypeOK
  <2> QED
    BY <1>1, <1>2, <1>3, <2>1, <2>2 DEF SettingExact, exact
<1> QED
  BY <1>1, <1>4, <1>5, <1>6, <1>7 DEF RegistersInv, DeletingExact

LEMMA EndSetKeepsRegisters ==
    ASSUME RegistersInv, bp_set_hw_done
    PROVE  RegistersInv'
<1>1. /\ doing = "bp_set_hw" /\ todo = << >> /\ doing' = "script"
      /\ UNCHANGED << hardware_breakpoints, todo, alive, dr, dr6, refused >>
  BY DEF bp_set_hw_done, books, debuggee, history
<1>2. \A t \in Tid : ~ahead(t)
  BY <1>1 DEF ahead
<1>3. DbgTypeOK'
  BY <1>1 DEF RegistersInv, DbgTypeOK
<1>4. ClearedOrEnabled'
  BY <1>1 DEF RegistersInv, ClearedOrEnabled
<1>5. /\ \A t \in alive \ refused : exact(t, bp_index)
      /\ main \in refused \/ dr[main][bp_index].enabled
  BY <1>1, <1>2, DebuggerAssumption DEF RegistersInv, SettingExact
<1>6. SettledExact'
  BY <1>1, <1>5 DEF RegistersInv, SettledExact, exact
<1> QED
  BY <1>1, <1>3, <1>4, <1>6 DEF RegistersInv, SettingExact, DeletingExact

\* What is added to the condition of a register was cleared before, or is the
\* same condition.
LEMMA SetKeepsRegisters ==
    ASSUME RegistersInv, bp_set_hw_thread
    PROVE  RegistersInv'
<1>1. doing = "bp_set_hw" /\ todo # << >> /\ todo' = Tail(todo)
      /\ UNCHANGED << bp_index, bp, alive, dr6 >>
  BY DEF bp_set_hw_thread
<1>2. bp_index \in Slot /\ bp \in Hardware
  BY <1>1 DEF RegistersInv, SettingExact
<1>3. /\ Head(todo) \in Tid
      /\ todo' \in Seq(Tid)
      /\ \A t \in Tid : ahead(t) => t = Head(todo) \/ ahead(t)'
  BY <1>1, HeadOfTodo DEF RegistersInv
<1>4. PICK h \in Tid : h = Head(todo)
  BY <1>3
<1>5. alive \in SUBSET Tid /\ main \in alive
  BY DEF RegistersInv, DbgTypeOK
<1>6. CASE h \notin alive
  <2>1. doing' = "crashed" /\ UNCHANGED << hardware_breakpoints, dr, refused >>
    BY <1>4, <1>6 DEF bp_set_hw_thread
  <2>2. DbgTypeOK'
    BY <1>1, <1>3, <2>1 DEF RegistersInv, DbgTypeOK
  <2>3. ClearedOrEnabled'
    BY <1>1, <2>1 DEF RegistersInv, ClearedOrEnabled
  <2> QED
    BY <2>1, <2>2, <2>3 DEF RegistersInv, SettledExact, SettingExact, DeletingExact
<1>7. CASE h \in alive
  <2> DEFINE old == dr[h][bp_index]
             value == register(bp[1], TRUE, old.condition \cup bp[2])
  <2>1. /\ set_context(h, value)
        /\ hardware_breakpoints' = [hardware_breakpoints EXCEPT ![bp_index] = bp]
        /\ doing' = "bp_set_hw"
    BY <1>1, <1>4, <1>7 DEF bp_set_hw_thread
  <2>2. old \in Register
    BY <1>2 DEF RegistersInv, DbgTypeOK
  <2>3. bp[1] \in Addr /\ bp[2] \in SUBSET {0, 1}
    BY <1>2, DebuggerAssumption DEF HW_ACCESS, HW_WRITE, HW_EXECUTE
  <2>4. value \in Register
    BY <2>2, <2>3 DEF Register, register
  <2>5. /\ dr' \in [Tid -> [Slot -> Register]]
        /\ \A u \in Tid, i \in Slot :
              dr'[u][i] = dr[u][i] \/ (u = h /\ i = bp_index /\ dr'[u][i] = value)
        /\ dr'[h][bp_index] = value \/ h \in refused'
        /\ refused \subseteq refused'
    BY <1>2, <2>1, <2>4, SetContext
  <2>6. value.enabled
    BY DEF register
  <2>7. h \notin refused => value = register(bp[1], TRUE, bp[2])
    <3>1. CASE old = unused
      BY <3>1 DEF unused, register
    <3>2. CASE old # unused /\ h \notin refused
      <4>1. old.enabled
        BY <1>2, <3>2 DEF RegistersInv, ClearedOrEnabled
      <4>2. exact(h, bp_index) /\ hardware_breakpoints[bp_index] \in {None, bp}
        BY <1>1, <1>7, <3>2 DEF RegistersInv, SettingExact
      <4>3. old = register(bp[1], TRUE, bp[2])
        BY <4>1, <4>2 DEF exact
      <4>4. old.condition \cup bp[2] = bp[2]
        BY <4>3 DEF register
      <4> QED
        BY <4>4
    <3> QED
      BY <3>1, <3>2
  <2> HIDE DEF value, old
  <2>8. /\ hardware_breakpoints'[bp_index] = bp
        /\ \A i \in Slot \ {bp_index} : hardware_breakpoints'[i] = hardware_breakpoints[i]
        /\ hardware_breakpoints' \in [Slot -> Hardware \cup {None}]
    BY <1>2, <2>1 DEF RegistersInv, DbgTypeOK
  <2>9. DbgTypeOK'
    BY <1>1, <1>3, <2>1, <2>5, <2>8 DEF RegistersInv, DbgTypeOK
  <2>10. ClearedOrEnabled'
    BY <1>1, <1>7, <2>5, <2>6 DEF RegistersInv, ClearedOrEnabled
  <2>11. SettledExact'
    <3>1. \A i \in Slot \ {bp_index} :
            /\ \A t \in alive \ refused : exact(t, i)
            /\ hardware_breakpoints[i] # None /\ main \notin refused => dr[main][i].enabled
      BY <1>1 DEF RegistersInv, SettledExact
    <3>2. \A i \in Slot \ {bp_index}, t \in Tid : dr'[t][i] = dr[t][i]
      BY <2>5
    <3>3. ASSUME NEW i \in Slot \ {bp_index}
          PROVE  /\ \A t \in alive \ refused' : exact(t, i)'
                 /\ hardware_breakpoints'[i] # None /\ main \notin refused' =>
                        dr'[main][i].enabled
      <4>1. \A t \in alive \ refused' : exact(t, i)'
        <5> SUFFICES ASSUME NEW t \in alive \ refused' PROVE exact(t, i)'
          OBVIOUS
        <5> QED
          BY <1>5, <2>5, <2>8, <3>1, <3>2, ExactKept
      <4> QED
        BY <1>5, <2>5, <2>8, <3>1, <3>2, <4>1
    <3> QED
      BY <1>1, <2>1, <3>3 DEF SettledExact
  <2>12. SettingExact'
    <3>1. \A t \in alive \ refused' : exact(t, bp_index)'
      <4> SUFFICES ASSUME NEW t \in alive \ refused', dr'[t][bp_index].enabled
                   PROVE  dr'[t][bp_index] = register(bp[1], TRUE, bp[2])
        BY <1>1, <1>2, <2>8, DebuggerAssumption DEF exact
      <4>1. CASE dr'[t][bp_index] = value /\ t = h
        BY <2>5, <2>7, <4>1
      <4>2. CASE dr'[t][bp_index] = dr[t][bp_index]
        <5>1. exact(t, bp_index) /\ hardware_breakpoints[bp_index] \in {None, bp}
          BY <1>1, <2>5 DEF RegistersInv, SettingExact
        <5> QED
          BY <4>2, <5>1 DEF exact
      <4> QED
        BY <1>2, <1>5, <2>5, <4>1, <4>2
    <3>2. ahead(main)' \/ main \in refused' \/ dr'[main][bp_index].enabled
      <4>1. ahead(main) \/ main \in refused \/ dr[main][bp_index].enabled
        BY <1>1 DEF RegistersInv, SettingExact
      <4> QED
        BY <1>2, <1>3, <1>4, <1>5, <2>5, <2>6, <4>1
    <3> QED
      BY <1>1, <1>2, <2>8, <3>1, <3>2 DEF SettingExact
  <2> QED
    BY <2>1, <2>9, <2>10, <2>11, <2>12 DEF RegistersInv, DeletingExact
<1> QED
  BY <1>6, <1>7

LEMMA RegistersInvNext ==
    ASSUME RegistersInv, [DbgNext]_dbgvars
    PROVE  RegistersInv'
<1>1. ASSUME NEW t \in Tid, NEW a \in Addr, reach(t, a)
      PROVE  RegistersInv'
  <2>1. UNCHANGED << hardware_breakpoints, doing, bp_index, todo, bp, alive, dr, refused >>
    BY <1>1 DEF reach, books, script, locals, history
  <2>2. hits(t, a) \in SUBSET Slot
    BY DEF hits
  <2>3. dr6' \in [Tid -> SUBSET Slot]
    BY <1>1, <2>2 DEF reach, RegistersInv, DbgTypeOK
  <2> QED
    BY <2>1, <2>3, DebuggeeKeepsRegisters
<1>2. ASSUME NEW t \in Tid, NEW e \in {"single_step", "access_violation"}, faults(t, e)
      PROVE  RegistersInv'
  <2>1. UNCHANGED << hardware_breakpoints, doing, bp_index, todo, bp, alive, dr, refused >>
    BY <1>2 DEF faults, books, script, locals, history
  <2>2. dr6' \in [Tid -> SUBSET Slot]
    BY <1>2 DEF faults, RegistersInv, DbgTypeOK
  <2> QED
    BY <2>1, <2>2, DebuggeeKeepsRegisters
<1>3. ASSUME NEW t \in Tid, get_debug_event(t)
      PROVE  RegistersInv'
  <2>1. /\ doing = "run" /\ doing' \in {"run", "script", "single_step"}
        /\ UNCHANGED << hardware_breakpoints, todo, alive, dr, dr6, refused >>
    BY <1>3 DEF get_debug_event, books, history
  <2> QED
    BY <2>1, ScriptKeepsRegisters
<1>4. ASSUME run
      PROVE  RegistersInv'
  <2>1. /\ doing = "script" /\ doing' = "run"
        /\ UNCHANGED << hardware_breakpoints, todo, alive, dr, dr6, refused >>
    BY <1>4 DEF run, books, locals, debuggee, history
  <2> QED
    BY <2>1, ScriptKeepsRegisters
<1>5. ASSUME \/ \E a \in Addr : bp_set_soft(a)
             \/ bp_set_soft_done
             \/ \E a \in Addr, bytes \in Size : bp_set_mem(a, bytes)
             \/ bp_set_mem_done
      PROVE  RegistersInv'
  <2>1. /\ doing \in {"script", "bp_set_soft", "bp_set_mem"}
        /\ doing' \in {"script", "bp_set_soft", "bp_set_mem"}
        /\ UNCHANGED << hardware_breakpoints, todo, alive, dr, dr6, refused >>
    BY <1>5 DEF bp_set_soft, bp_set_soft_done, bp_set_mem, bp_set_mem_done, books, debuggee,
                history
  <2> QED
    BY <2>1, ScriptKeepsRegisters
<1>6. ASSUME bp_set_mem_page
      PROVE  RegistersInv'
  <2>1. /\ doing = "bp_set_mem" /\ doing' \in {"script", "bp_set_mem"}
        /\ UNCHANGED << hardware_breakpoints, todo, alive, dr, dr6, refused >>
    BY <1>6 DEF bp_set_mem_page
  <2> QED
    BY <2>1, ScriptKeepsRegisters
<1>7. CASE UNCHANGED dbgvars
  <2>1. UNCHANGED << hardware_breakpoints, doing, bp_index, todo, bp, alive, dr, dr6, refused >>
    BY <1>7 DEF dbgvars, books, script, locals, debuggee, history
  <2> QED
    BY <2>1, DebuggeeKeepsRegisters DEF RegistersInv, DbgTypeOK
<1> QED
  BY <1>1, <1>2, <1>3, <1>4, <1>5, <1>6, <1>7, StartThreadKeepsRegisters,
     ExitThreadKeepsRegisters, BeginDeleteKeepsRegisters, DeleteKeepsRegisters,
     EndDeleteKeepsRegisters, BeginSetKeepsRegisters, SetKeepsRegisters, EndSetKeepsRegisters
  DEF DbgNext, Handle, Script, Debuggee

\* Whatever threads come, go, refuse their context and hit breakpoints while the
\* list of them is gone through, and whatever was set and deleted before, the
\* table and the registers agree whenever nothing is being set or deleted.
THEOREM TableMatchesRegisters == DbgSpec => []BreakpointsExact
<1>1. RegistersInv => BreakpointsExact
  BY DEF RegistersInv, SettledExact, exact, BreakpointsExact
<1> QED
  BY <1>1, RegistersInvInit, RegistersInvNext, PTL DEF DbgSpec

\* The page that bp_set_mem has come to, with those before it, is on record, and
\* it is in the range unless bp_set_mem is through with it.
PagesInv ==
    doing = "bp_set_mem" =>
        /\ bp[1] \in Addr /\ bp[2] \in Size /\ bp[3] \in Int
        /\ page(bp[1]) <= bp[3]
        /\ page(bp[1])..(bp[3] - 1) \subseteq guarded_pages
        /\ bp[3] # page(bp[1]) => bp[1] \in cut /\ memory_breakpoints[bp[1]] = bp[2]

\* The byte that bp_set_soft has read is good for the table.
ByteInv ==
    doing = "bp_set_soft" =>
        /\ bp[1] \in Addr /\ bp[2] \in {"False", "own", "int3"}
        /\ bp[1] \notin blind => bp[2] = "own"

OriginalsInv ==
    /\ breakpoints \in [Addr -> {None, "False", "own", "int3"}]
    /\ memory_breakpoints \in [Addr -> Size \cup {None}]
    /\ code \in [Addr -> {"own", "int3"}]
    /\ OriginalsKept
    /\ ByteInv
    /\ PagesInv

\* What lies before an address is not on a later page.
LEMMA PageMonotonic ==
    ASSUME NEW a \in Nat, NEW b \in Nat, a <= b
    PROVE  page(a) \in Nat /\ page(b) \in Nat /\ page(a) <= page(b)
<1> DEFINE p == page_size
<1>1. p \in Nat /\ p > 0
  BY DebuggerAssumption
<1>2. /\ a \div p \in Nat /\ b \div p \in Nat
      /\ p * (a \div p) <= a /\ b < p * (b \div p) + p
  BY <1>1
<1> HIDE DEF p
<1>3. ASSUME NEW m \in Nat, NEW n \in Nat, p * m <= a, b < p * n + p
      PROVE  m <= n
  <2>1. p * m < p * (n + 1)
    BY <1>1, <1>3
  <2> QED
    BY <1>1, <2>1
<1> QED
  BY <1>2, <1>3 DEF page, p

\* Only bp_set_soft and bp_set_mem touch what OriginalsKept speaks of; the debuggee
\* and the handlers leave them where they are.
LEMMA OriginalsUntouched ==
    ASSUME OriginalsInv,
           UNCHANGED << breakpoints, memory_breakpoints, guarded_pages, code, blind, cut >>,
           \/ UNCHANGED << doing, bp >>
           \/ /\ doing \notin {"bp_set_soft", "bp_set_mem"}
              /\ doing' \notin {"bp_set_soft", "bp_set_mem"}
    PROVE  OriginalsInv'
<1>1. (OriginalsKept)'
  BY DEF OriginalsInv, OriginalsKept
<1>2. ByteInv' /\ PagesInv'
  BY DEF OriginalsInv, ByteInv, PagesInv
<1> QED
  BY <1>1, <1>2 DEF OriginalsInv

LEMMA SetSoftKeepsOriginals ==
    ASSUME OriginalsInv, NEW a \in Addr, bp_set_soft(a)
    PROVE  OriginalsInv'
<1>1. /\ breakpoints[a] \in {None, "False"}
      /\ code' \in {code, [code EXCEPT ![a] = "int3"]}
      /\ doing = "script" /\ doing' = "bp_set_soft"
      /\ UNCHANGED << breakpoints, memory_breakpoints, guarded_pages, cut >>
  BY DEF bp_set_soft, is_set, books
<1>2. code[a] = "int3" => a \in blind
  BY <1>1, DebuggerAssumption DEF OriginalsInv, OriginalsKept
<1>3. code[a] \in {"own", "int3"}
  BY DEF OriginalsInv
<1>4. \/ bp' = << a, "False" >> /\ blind' = blind \cup {a}
      \/ bp' = << a, code[a] >> /\ UNCHANGED blind
  BY DEF bp_set_soft
<1>5. /\ bp'[1] = a /\ bp'[2] \in {"False", "own", "int3"}
      /\ a \notin blind' => bp'[2] = "own"
      /\ blind \subseteq blind'
  BY <1>2, <1>3, <1>4
<1>6. code' \in [Addr -> {"own", "int3"}] /\ \A b \in Addr \ {a} : code'[b] = code[b]
  BY <1>1 DEF OriginalsInv
<1>7. OriginalsKept'
  <2> SUFFICES ASSUME NEW b \in Addr
               PROVE  /\ b \notin blind' => breakpoints[b] \in {None, "own"}
                      /\ code'[b] = "int3" => breakpoints[b] # None \/ b = a
                      /\ memory_breakpoints[b] # None =>
                            /\ page(b) \in guarded_pages
                            /\ b \notin cut =>
                                  page(b)..page(b + memory_breakpoints[b] - 1) \subseteq guarded_pages
    BY <1>1, <1>5 DEF OriginalsKept
  <2>1. /\ b \notin blind => breakpoints[b] \in {None, "own"}
        /\ code[b] = "int3" => breakpoints[b] # None
        /\ memory_breakpoints[b] # None =>
              /\ page(b) \in guarded_pages
              /\ b \notin cut =>
                    page(b)..page(b + memory_breakpoints[b] - 1) \subseteq guarded_pages
    BY <1>1 DEF OriginalsInv, OriginalsKept
  <2> QED
    BY <1>5, <1>6, <2>1
<1>8. ByteInv' /\ PagesInv'
  BY <1>1, <1>5 DEF ByteInv, PagesInv
<1> QED
  BY <1>1, <1>6, <1>7, <1>8 DEF OriginalsInv

LEMMA EnterSoftKeepsOriginals ==
    ASSUME OriginalsInv, bp_set_soft_done
    PROVE  OriginalsInv'
<1>1. /\ breakpoints' = [breakpoints EXCEPT ![bp[1]] = bp[2]]
      /\ doing = "bp_set_soft" /\ doing' = "script"
      /\ UNCHANGED << memory_breakpoints, guarded_pages, code, blind, cut >>
  BY DEF bp_set_soft_done, debuggee, history
<1>2. /\ bp[1] \in Addr /\ bp[2] \in {"False", "own", "int3"}
      /\ bp[1] \notin blind => bp[2] = "own"
  BY <1>1 DEF OriginalsInv, ByteInv
<1>3. /\ breakpoints' \in [Addr -> {None, "False", "own", "int3"}]
      /\ breakpoints'[bp[1]] = bp[2]
      /\ \A b \in Addr \ {bp[1]} : breakpoints'[b] = breakpoints[b]
  BY <1>1, <1>2 DEF OriginalsInv
<1>4. bp[2] # None
  BY <1>2, DebuggerAssumption
<1>5. OriginalsKept'
  <2> SUFFICES ASSUME NEW b \in Addr
               PROVE  /\ b \notin blind => breakpoints'[b] \in {None, "own"}
                      /\ code[b] = "int3" => breakpoints'[b] # None
                      /\ memory_breakpoints[b] # None =>
                            /\ page(b) \in guarded_pages
                            /\ b \notin cut =>
                                  page(b)..page(b + memory_breakpoints[b] - 1) \subseteq guarded_pages
    BY <1>1 DEF OriginalsKept
  <2>1. /\ b \notin blind => breakpoints[b] \in {None, "own"}
        /\ code[b] = "int3" => breakpoints[b] # None \/ bp[1] = b
        /\ memory_breakpoints[b] # None =>
              /\ page(b) \in guarded_pages
              /\ b \notin cut =>
                    page(b)..page(b + memory_breakpoints[b] - 1) \subseteq guarded_pages
    BY DEF OriginalsInv, OriginalsKept
  <2>2. CASE b = bp[1]
    BY <1>2, <1>3, <1>4, <2>1, <2>2
  <2>3. CASE b # bp[1]
    BY <1>3, <2>1, <2>3
  <2> QED
    BY <2>2, <2>3
<1>6. ByteInv' /\ PagesInv'
  BY <1>1 DEF ByteInv, PagesInv
<1> QED
  BY <1>1, <1>3, <1>5, <1>6 DEF OriginalsInv

LEMMA BeginMemKeepsOriginals ==
    ASSUME OriginalsInv, NEW a \in Addr, NEW bytes \in Size, bp_set_mem(a, bytes)
    PROVE  OriginalsInv'
<1>1. /\ bp' = << a, bytes, page(a) >> /\ doing = "script" /\ doing' = "bp_set_mem"
      /\ UNCHANGED << breakpoints, memory_breakpoints, guarded_pages, code, blind, cut >>
  BY DEF bp_set_mem, books, debuggee, history
<1>2. bp'[1] = a /\ bp'[2] = bytes /\ bp'[3] = page(a)
  BY <1>1
<1>3. page(a) \in Nat
  BY DebuggerAssumption, PageMonotonic
<1>4. PagesInv'
  BY <1>1, <1>2, <1>3 DEF PagesInv
<1>5. ByteInv'
  BY <1>1 DEF ByteInv
<1>6. OriginalsKept'
  BY <1>1 DEF OriginalsInv, OriginalsKept
<1> QED
  BY <1>1, <1>4, <1>5, <1>6 DEF OriginalsInv

LEMMA MemPageKeepsOriginals ==
    ASSUME OriginalsInv, bp_set_mem_page
    PROVE  OriginalsInv'
<1>1. /\ doing = "bp_set_mem"
      /\ guarded_pages' = guarded_pages \cup {bp[3]}
      /\ UNCHANGED << breakpoints, code, blind >>
  BY DEF bp_set_mem_page
<1>2. /\ bp[1] \in Addr /\ bp[2] \in Size /\ bp[3] \in Int
      /\ page(bp[1]) <= bp[3]
      /\ page(bp[1])..(bp[3] - 1) \subseteq guarded_pages
      /\ bp[3] # page(bp[1]) => bp[1] \in cut /\ memory_breakpoints[bp[1]] = bp[2]
  BY <1>1 DEF OriginalsInv, PagesInv
<1>3. page(bp[1]) \in Nat
  <2>1. bp[1] \in Nat
    BY <1>2, DebuggerAssumption
  <2> QED
    BY <2>1, PageMonotonic
<1>4. page(bp[1])..bp[3] \subseteq guarded_pages'
  BY <1>1, <1>2, <1>3
<1>5. ASSUME NEW b \in Addr
      PROVE  /\ b \notin blind => breakpoints[b] \in {None, "own"}
             /\ code[b] = "int3" => breakpoints[b] # None
             /\ memory_breakpoints[b] # None =>
                   /\ page(b) \in guarded_pages'
                   /\ b \notin cut =>
                         page(b)..page(b + memory_breakpoints[b] - 1) \subseteq guarded_pages'
  BY <1>1 DEF OriginalsInv, OriginalsKept
<1>6. CASE /\ doing' = "script"
           /\ UNCHANGED << memory_breakpoints, cut >>
  <2>1. OriginalsKept'
    BY <1>1, <1>5, <1>6 DEF OriginalsKept
  <2>2. ByteInv' /\ PagesInv'
    BY <1>6 DEF ByteInv, PagesInv
  <2> QED
    BY <1>1, <1>6, <2>1, <2>2 DEF OriginalsInv
<1>7. CASE /\ memory_breakpoints' = [memory_breakpoints EXCEPT ![bp[1]] = bp[2]]
           /\ bp' = << bp[1], bp[2], bp[3] + 1 >>
           /\ cut' = cut \cup {bp[1]}
           /\ UNCHANGED doing
  <2>1. /\ memory_breakpoints' \in [Addr -> Size \cup {None}]
        /\ memory_breakpoints'[bp[1]] = bp[2]
        /\ \A b \in Addr \ {bp[1]} : memory_breakpoints'[b] = memory_breakpoints[b]
    BY <1>2, <1>7 DEF OriginalsInv
  <2>2. bp'[1] = bp[1] /\ bp'[2] = bp[2] /\ bp'[3] = bp[3] + 1
    BY <1>7
  <2>3. page(bp[1]) \in guarded_pages'
    BY <1>2, <1>3, <1>4
  <2>4. OriginalsKept'
    <3> SUFFICES ASSUME NEW b \in Addr
                 PROVE  /\ b \notin blind => breakpoints[b] \in {None, "own"}
                        /\ code[b] = "int3" => breakpoints[b] # None
                        /\ memory_breakpoints'[b] # None =>
                              /\ page(b) \in guarded_pages'
                              /\ b \notin cut' =>
                                    page(b)..page(b + memory_breakpoints'[b] - 1)
                                        \subseteq guarded_pages'
      BY <1>1 DEF OriginalsKept
    <3>1. CASE b = bp[1]
      BY <1>5, <1>7, <2>3, <3>1
    <3>2. CASE b # bp[1]
      BY <1>5, <1>7, <2>1, <3>2
    <3> QED
      BY <3>1, <3>2
  <2>5. PagesInv'
    <3>1. page(bp[1])' = page(bp[1]')
      BY DEF page
    <3>2. bp[3] + 1 - 1 = bp[3] /\ page(bp[1]) <= bp[3] + 1 /\ bp[3] + 1 \in Int
      BY <1>2, <1>3
    <3> QED
      BY <1>2, <1>4, <1>7, <2>1, <2>2, <3>1, <3>2 DEF PagesInv
  <2>6. ByteInv'
    BY <1>1, <1>7 DEF ByteInv
  <2> QED
    BY <1>1, <2>1, <2>4, <2>5, <2>6 DEF OriginalsInv
<1> QED
  BY <1>6, <1>7 DEF bp_set_mem_page

LEMMA EndMemKeepsOriginals ==
    ASSUME OriginalsInv, bp_set_mem_done
    PROVE  OriginalsInv'
<1>1. /\ doing = "bp_set_mem" /\ doing' = "script"
      /\ bp[3] \notin guard_pages(bp[1], bp[2])
      /\ cut' = cut \ {bp[1]}
      /\ UNCHANGED << breakpoints, memory_breakpoints, guarded_pages, code, blind >>
  BY DEF bp_set_mem_done, books, debuggee
<1>2. /\ bp[1] \in Addr /\ bp[2] \in Size /\ bp[3] \in Int
      /\ page(bp[1]) <= bp[3]
      /\ page(bp[1])..(bp[3] - 1) \subseteq guarded_pages
      /\ bp[3] # page(bp[1]) => bp[1] \in cut /\ memory_breakpoints[bp[1]] = bp[2]
  BY <1>1 DEF OriginalsInv, PagesInv
<1>3. bp[1] \in Nat /\ bp[2] \in Nat \ {0}
  BY <1>2, DebuggerAssumption
<1>4. /\ page(bp[1]) \in Nat /\ page(bp[1]) <= page(bp[1] + bp[2])
      /\ page(bp[1] + bp[2] - 1) \in Nat /\ page(bp[1] + bp[2]) \in Nat
      /\ page(bp[1] + bp[2] - 1) <= page(bp[1] + bp[2])
  BY <1>3, PageMonotonic
<1>5. page(bp[1] + bp[2]) < bp[3]
  BY <1>1, <1>2, <1>4 DEF guard_pages
<1>6. memory_breakpoints[bp[1]] = bp[2]
  BY <1>2, <1>4, <1>5
<1>7. page(bp[1])..page(bp[1] + bp[2] - 1) \subseteq guarded_pages
  BY <1>2, <1>4, <1>5
<1>8. OriginalsKept'
  <2> SUFFICES ASSUME NEW b \in Addr
               PROVE  /\ b \notin blind => breakpoints[b] \in {None, "own"}
                      /\ code[b] = "int3" => breakpoints[b] # None
                      /\ memory_breakpoints[b] # None =>
                            /\ page(b) \in guarded_pages
                            /\ b \notin cut' =>
                                  page(b)..page(b + memory_breakpoints[b] - 1) \subseteq guarded_pages
    BY <1>1 DEF OriginalsKept
  <2>1. /\ b \notin blind => breakpoints[b] \in {None, "own"}
        /\ code[b] = "int3" => breakpoints[b] # None
        /\ memory_breakpoints[b] # None =>
              /\ page(b) \in guarded_pages
              /\ b \notin cut =>
                    page(b)..page(b + memory_breakpoints[b] - 1) \subseteq guarded_pages
    BY <1>1 DEF OriginalsInv, OriginalsKept
  <2>2. CASE b = bp[1]
    BY <1>6, <1>7, <2>1, <2>2
  <2>3. CASE b # bp[1]
    BY <1>1, <2>1, <2>3
  <2> QED
    BY <2>2, <2>3
<1>9. ByteInv' /\ PagesInv'
  BY <1>1 DEF ByteInv, PagesInv
<1> QED
  BY <1>1, <1>8, <1>9 DEF OriginalsInv

LEMMA OriginalsInvNext ==
    ASSUME OriginalsInv, [DbgNext]_dbgvars
    PROVE  OriginalsInv'
<1>1. CASE Handle
  <2>1. /\ UNCHANGED << breakpoints, memory_breakpoints, guarded_pages, code, blind, cut >>
        /\ doing \notin {"bp_set_soft", "bp_set_mem"}
        /\ doing' \notin {"bp_set_soft", "bp_set_mem"}
    <3>1. CASE \E t \in Tid : get_debug_event(t)
      BY <3>1 DEF get_debug_event, books, history
    <3>2. CASE exception_handler_single_step
      BY <3>2 DEF exception_handler_single_step, books, debuggee, history
    <3>3. CASE bp_del_hw \/ bp_del_hw_done
      BY <3>3 DEF bp_del_hw, bp_del_hw_done, books, history
    <3> QED
      BY <1>1, <3>1, <3>2, <3>3 DEF Handle
  <2> QED
    BY <2>1, OriginalsUntouched
<1>2. CASE Debuggee
  <2>1. UNCHANGED << breakpoints, memory_breakpoints, guarded_pages, code, blind, cut, doing, bp >>
    BY <1>2 DEF Debuggee, reach, faults, start_thread, exit_thread, books, script, locals, history
  <2> QED
    BY <2>1, OriginalsUntouched
<1>3. CASE \/ run \/ bp_set_hw_thread \/ bp_set_hw_done
           \/ \E wanted \in Hardware : bp_set_hw(wanted)
  <2>1. /\ UNCHANGED << breakpoints, memory_breakpoints, guarded_pages, code, blind, cut >>
        /\ doing \notin {"bp_set_soft", "bp_set_mem"}
        /\ doing' \notin {"bp_set_soft", "bp_set_mem"}
    BY <1>3 DEF run, bp_set_hw, bp_set_hw_thread, bp_set_hw_done, books, debuggee, history
  <2> QED
    BY <2>1, OriginalsUntouched
<1>4. CASE UNCHANGED dbgvars
  <2>1. UNCHANGED << breakpoints, memory_breakpoints, guarded_pages, code, blind, cut, doing, bp >>
    BY <1>4 DEF dbgvars, books, script, locals, debuggee, history
  <2> QED
    BY <2>1, OriginalsUntouched
<1> QED
  BY <1>1, <1>2, <1>3, <1>4, SetSoftKeepsOriginals, EnterSoftKeepsOriginals,
     BeginMemKeepsOriginals, MemPageKeepsOriginals, EndMemKeepsOriginals DEF DbgNext, Script

\* However often a breakpoint is set at an address, whatever the debuggee does in
\* between, and however many reads and writes of its memory fail, no int3 of the
\* debugger's own is ever kept as the program's byte unless a read at that address
\* failed, and no int3 is without its record once bp_set_soft has returned; a memory
\* breakpoint on record has its first page on record, and all of its pages unless
\* the last setting of it was refused one.
THEOREM OriginalsStayKept == DbgSpec => []OriginalsKept
<1>1. DbgInit => OriginalsInv
  <2> SUFFICES ASSUME DbgInit PROVE OriginalsInv
    OBVIOUS
  <2>1. OriginalsKept
    BY DEF DbgInit, OriginalsKept
  <2>2. ByteInv /\ PagesInv
    BY DEF DbgInit, ByteInv, PagesInv
  <2> QED
    BY <2>1, <2>2 DEF DbgInit, OriginalsInv
<1>2. OriginalsInv => OriginalsKept
  BY DEF OriginalsInv
<1> QED
  BY <1>1, <1>2, OriginalsInvNext, PTL DEF DbgSpec

-----------------------------------------------------------------------------
\* The scanner

\* The positions of tokens and of new lines among the first n characters
token_positions(n) == {i \in 1..n : text[i] \in operator \cup Digit}

newline_positions(n) == {i \in 1..n : text[i] = newline}

ScannerTypeOK ==
    /\ text \in Seq(Char)
    /\ offset \in 0..Len(text)
    /\ Putback \in {newline, no_char}
    /\ Putback = newline => offset = 0
    /\ Line \in Nat
    /\ tokens \in Seq({token(c) : c \in Char})
    /\ exited \in {"no", "end", "unrecognised"}

\* What is true of the tokens and of the line is true all along.
ScannerInv ==
    /\ ScannerTypeOK
    /\ Len(tokens) = Cardinality(token_positions(offset))
    /\ \A i \in token_positions(offset) :
          tokens[Cardinality(token_positions(i))] = token(text[i])
    /\ Line = 1 + Cardinality(newline_positions(offset))
    /\ exited = "no" => \A i \in 1..offset : text[i] \notin Other
    /\ exited = "end" => offset = Len(text) /\ \A i \in 1..offset : text[i] \notin Other
    /\ exited = "unrecognised" =>
            /\ offset # 0 /\ text[offset] \in Other
            /\ \A i \in 1..(offset - 1) : text[i] \notin Other

\* The next character adds its own position or none.
LEMMA NextPosition ==
    ASSUME NEW n \in Nat
    PROVE  /\ IsFiniteSet(token_positions(n)) /\ Cardinality(token_positions(n)) \in Nat
           /\ token_positions(n + 1) = IF text[n + 1] \in operator \cup Digit
                THEN token_positions(n) \cup {n + 1} ELSE token_positions(n)
           /\ Cardinality(token_positions(n + 1)) =
                Cardinality(token_positions(n)) + (IF text[n + 1] \in operator \cup Digit THEN 1 ELSE 0)
           /\ Cardinality(newline_positions(n)) \in Nat
           /\ Cardinality(newline_positions(n + 1)) =
                Cardinality(newline_positions(n)) + (IF text[n + 1] = newline THEN 1 ELSE 0)
<1>1. IsFiniteSet(1..n)
  BY FS_Interval
<1>2. token_positions(n) \in SUBSET (1..n) /\ newline_positions(n) \in SUBSET (1..n)
  BY DEF token_positions, newline_positions
<1>3. IsFiniteSet(token_positions(n)) /\ IsFiniteSet(newline_positions(n))
  BY <1>1, <1>2, FS_Subset
<1>4. Cardinality(token_positions(n)) \in Nat /\ Cardinality(newline_positions(n)) \in Nat
  BY <1>3, FS_CardinalityType
<1>5. n + 1 \notin token_positions(n) /\ n + 1 \notin newline_positions(n)
  BY <1>2
<1>6. 1..(n + 1) = (1..n) \cup {n + 1}
  OBVIOUS
<1>7. token_positions(n + 1) = IF text[n + 1] \in operator \cup Digit
        THEN token_positions(n) \cup {n + 1} ELSE token_positions(n)
  BY <1>6 DEF token_positions
<1>8. newline_positions(n + 1) = IF text[n + 1] = newline
        THEN newline_positions(n) \cup {n + 1} ELSE newline_positions(n)
  BY <1>6 DEF newline_positions
<1>9. Cardinality(token_positions(n) \cup {n + 1}) = Cardinality(token_positions(n)) + 1
  BY <1>3, <1>5, FS_AddElement
<1>10. Cardinality(newline_positions(n) \cup {n + 1}) = Cardinality(newline_positions(n)) + 1
  BY <1>3, <1>5, FS_AddElement
<1> QED
  BY <1>3, <1>4, <1>7, <1>8, <1>9, <1>10

\* The k-th of the positions has k positions up to it: no more than there are.
LEMMA RankInRange ==
    ASSUME NEW n \in Nat, NEW i \in token_positions(n)
    PROVE  Cardinality(token_positions(i)) \in 1..Cardinality(token_positions(n))
<1>1. i \in 1..n /\ text[i] \in operator \cup Digit
  BY DEF token_positions
<1>2. i \in token_positions(i) /\ token_positions(i) \in SUBSET token_positions(n)
  BY <1>1 DEF token_positions
<1>3. IsFiniteSet(token_positions(n)) /\ IsFiniteSet(token_positions(i))
  <2>1. i \in Nat
    BY <1>1
  <2> QED
    BY <2>1, NextPosition
<1>4. Cardinality(token_positions(i)) <= Cardinality(token_positions(n))
  BY <1>2, <1>3, FS_Subset
<1>5. Cardinality(token_positions(i)) # 0
  BY <1>2, <1>3, FS_EmptySet
<1>6. Cardinality(token_positions(i)) \in Nat /\ Cardinality(token_positions(n)) \in Nat
  BY <1>3, FS_CardinalityType
<1> QED
  BY <1>4, <1>5, <1>6

LEMMA ScannerInvInit ==
    ASSUME ScanInit
    PROVE  ScannerInv
<1>1. text \in Seq(Char)
  BY ScannerAssumption DEF ScanInit, BoundedSeq, SeqOf
<1>2. offset = 0 /\ tokens = << >> /\ Line = 1 /\ exited = "no" /\ Putback = newline
  BY DEF ScanInit
<1>3. token_positions(0) = {} /\ newline_positions(0) = {}
  BY DEF token_positions, newline_positions
<1>4. Cardinality({}) = 0
  BY FS_EmptySet
<1>5. Len(tokens) = Cardinality(token_positions(offset))
  BY <1>2, <1>3, <1>4
<1>6. Line = 1 + Cardinality(newline_positions(offset))
  <2>1. newline_positions(offset) = {}
    BY <1>2, <1>3
  <2>2. Line = 1 + 0
    BY <1>2
  <2> QED
    BY <1>4, <2>1, <2>2
<1>7. ScannerTypeOK
  BY <1>1, <1>2 DEF ScannerTypeOK
<1>8. \A i \in token_positions(offset) : tokens[Cardinality(token_positions(i))] = token(text[i])
  BY <1>2, <1>3
<1>9. exited = "no" /\ \A i \in 1..offset : text[i] \notin Other
  BY <1>2
<1> QED
  BY <1>5, <1>6, <1>7, <1>8, <1>9 DEF ScannerInv

\* The kinds of characters have nothing in common, and are not EOF.
LEMMA CharKinds ==
    /\ newline \in blank /\ newline # no_char
    /\ \A c \in blank : c \notin operator \cup Digit \cup Other
    /\ \A c \in Other : c \notin operator \cup Digit
    /\ \A c \in Char : c # EOF /\ c # no_char
    /\ operator \cup Digit \cup blank \cup Other = Char
    /\ newline \in Char
BY ScannerAssumption DEF newline, blank, operator, EOF, no_char, Char

LEMMA ScannerInvNext ==
    ASSUME ScannerInv, [ScanNext]_scanvars
    PROVE  ScannerInv'
<1>1. CASE UNCHANGED scanvars
  BY <1>1 DEF scanvars, ScannerInv, ScannerTypeOK, token_positions, newline_positions
<1>2. CASE ScanNext /\ Putback = newline
  <2>1. /\ upcoming = newline /\ exited = "no" /\ offset = 0
        /\ next_char /\ ~is_new_line
        /\ UNCHANGED << text, tokens, exited >>
    <3>1. upcoming = newline /\ Putback # no_char
      BY <1>2, CharKinds DEF upcoming
    <3>2. newline \notin operator \cup Digit \cup Other /\ newline # EOF
      BY CharKinds
    <3> QED
      BY <1>2, <3>1, <3>2 DEF ScanNext, skip, scan_token, scan_end, scan_unrecognised,
                              is_new_line, ScannerInv, ScannerTypeOK
  <2>2. Putback' = no_char /\ offset' = offset /\ Line' = Line
    BY <1>2, <2>1, CharKinds DEF next_char
  <2> QED
    BY <2>1, <2>2 DEF ScannerInv, ScannerTypeOK, token_positions, newline_positions
<1>3. CASE ScanNext /\ Putback = no_char /\ offset = Len(text)
  <2>1. upcoming = EOF /\ fgetc = EOF
    BY <1>3 DEF upcoming, fgetc, ScannerInv, ScannerTypeOK
  <2>2. EOF \notin Char /\ EOF # newline
    BY CharKinds
  <2>3. /\ exited = "no" /\ exited' = "end" /\ next_char
        /\ UNCHANGED << text, tokens >>
    BY <1>3, <2>1, <2>2, CharKinds DEF ScanNext, skip, scan_token, scan_end, scan_unrecognised
  <2>4. Putback' = no_char /\ offset' = offset /\ Line' = Line
    BY <1>3, <2>1, <2>2, <2>3 DEF next_char, is_new_line
  <2>5. ScannerTypeOK'
    BY <2>3, <2>4 DEF ScannerInv, ScannerTypeOK
  <2> QED
    BY <1>3, <2>3, <2>4, <2>5 DEF ScannerInv, token_positions, newline_positions
<1>4. CASE ScanNext /\ Putback = no_char /\ offset < Len(text)
  <2> DEFINE c == text[offset + 1]
  <2>1. /\ offset \in Nat /\ Len(text) \in Nat /\ offset + 1 \in 1..Len(text) /\ c \in Char
        /\ text \in Seq(Char)
    BY <1>4 DEF ScannerInv, ScannerTypeOK
  <2>2. c # EOF /\ upcoming = c /\ fgetc = c
    BY <1>4, <2>1, CharKinds DEF upcoming, fgetc
  <2>3. exited = "no" /\ next_char /\ text' = text
    BY <1>4 DEF ScanNext, skip, scan_token, scan_end, scan_unrecognised
  <2>4. Putback' = no_char /\ offset' = offset + 1 /\ Line' = IF c = newline THEN Line + 1 ELSE Line
    BY <1>4, <2>2, <2>3 DEF next_char, is_new_line
  <2>5. \/ /\ c \in operator \cup Digit /\ tokens' = Append(tokens, token(c)) /\ exited' = "no"
           /\ c \notin Other
        \/ /\ c \notin operator \cup Digit /\ tokens' = tokens
           /\ \/ c \in Other /\ exited' = "unrecognised"
              \/ c \notin Other /\ exited' = "no"
    BY <1>4, <2>2, <2>3, CharKinds
    DEF ScanNext, skip, scan_token, scan_end, scan_unrecognised
  <2>6. ScannerTypeOK'
    <3>1. tokens' \in Seq({token(d) : d \in Char})
      <4> DEFINE Tokens == {token(d) : d \in Char}
      <4>1. token(c) \in Tokens /\ tokens \in Seq(Tokens)
        BY <2>1 DEF ScannerInv, ScannerTypeOK
      <4> HIDE DEF Tokens
      <4>2. tokens' \in Seq(Tokens)
        BY <2>5, <4>1
      <4> QED
        BY <4>2 DEF Tokens
    <3>2. exited' \in {"no", "unrecognised"}
      BY <2>5
    <3>3. offset' \in 0..Len(text') /\ Line' \in Nat
      BY <2>1, <2>3, <2>4 DEF ScannerInv, ScannerTypeOK
    <3> QED
      BY <2>1, <2>3, <2>4, <3>1, <3>2, <3>3, CharKinds DEF ScannerTypeOK
  <2>7. /\ \A n : token_positions(n)' = token_positions(n)
        /\ \A n : newline_positions(n)' = newline_positions(n)
    BY <2>3 DEF token_positions, newline_positions
  <2>8. /\ Cardinality(token_positions(offset)) \in Nat
        /\ token_positions(offset + 1) = IF c \in operator \cup Digit
             THEN token_positions(offset) \cup {offset + 1} ELSE token_positions(offset)
        /\ Cardinality(token_positions(offset + 1)) =
             Cardinality(token_positions(offset)) + (IF c \in operator \cup Digit THEN 1 ELSE 0)
        /\ Cardinality(newline_positions(offset)) \in Nat
        /\ Cardinality(newline_positions(offset + 1)) =
             Cardinality(newline_positions(offset)) + (IF c = newline THEN 1 ELSE 0)
    BY <2>1, NextPosition
  <2> HIDE DEF c
  <2>9. (Line = 1 + Cardinality(newline_positions(offset)))'
    BY <2>4, <2>7, <2>8 DEF ScannerInv
  <2>10. (Len(tokens) = Cardinality(token_positions(offset)))'
    BY <2>4, <2>5, <2>7, <2>8 DEF ScannerInv, ScannerTypeOK
  <2>11. (\A i \in token_positions(offset) :
            tokens[Cardinality(token_positions(i))] = token(text[i]))'
    <3> SUFFICES ASSUME NEW i \in token_positions(offset + 1)
                 PROVE  tokens'[Cardinality(token_positions(i))] = token(text[i])
      BY <2>3, <2>4, <2>7
    <3>1. CASE i \in token_positions(offset)
      <4>1. tokens[Cardinality(token_positions(i))] = token(text[i])
        BY <3>1 DEF ScannerInv
      <4>2. Cardinality(token_positions(i)) \in 1..Len(tokens)
        BY <2>1, <3>1, RankInRange DEF ScannerInv
      <4> QED
        BY <2>5, <4>1, <4>2 DEF ScannerInv, ScannerTypeOK
    <3>2. CASE i = offset + 1 /\ c \in operator \cup Digit
      <4>1. Cardinality(token_positions(i)) = Len(tokens) + 1
        BY <2>8, <3>2 DEF ScannerInv
      <4>2. tokens' = Append(tokens, token(c))
        BY <2>5, <3>2
      <4>3. token(c) = token(text[i])
        BY <3>2 DEF c
      <4> QED
        BY <4>1, <4>2, <4>3 DEF ScannerInv, ScannerTypeOK
    <3> QED
      BY <2>8, <3>1, <3>2
  <2>12. /\ (exited = "no" => \A i \in 1..offset : text[i] \notin Other)'
         /\ (exited = "unrecognised" =>
                /\ offset # 0 /\ text[offset] \in Other
                /\ \A i \in 1..(offset - 1) : text[i] \notin Other)'
    <3>1. \A i \in 1..offset : text[i] \notin Other
      BY <2>3 DEF ScannerInv
    <3>2. text[offset + 1] = c
      BY DEF c
    <3> QED
      BY <2>1, <2>3, <2>4, <2>5, <3>1, <3>2
  <2>13. exited' # "end"
    BY <2>5
  <2> QED
    BY <2>6, <2>9, <2>10, <2>11, <2>12, <2>13 DEF ScannerInv
<1> QED
  BY <1>1, <1>2, <1>3, <1>4 DEF ScannerInv, ScannerTypeOK

\* Whatever the text, and however long, every operator and whatever digits stand
\* together have their tokens, in order, up to the end or to the first character
\* that is none, and the line that the message names is the one of that
\* character.  What it makes of the digits is a token for each.
THEOREM ScannerReadsAll == ScanSpec => []TokensExact
<1>1. ScannerInv => TokensExact
  <2> SUFFICES ASSUME ScannerInv, exited # "no"
               PROVE  TokensExact
    BY DEF TokensExact
  <2>1. /\ text \in Seq(Char) /\ offset \in 0..Len(text) /\ Len(text) \in Nat
        /\ consumed = SubSeq(text, 1, offset)
    BY DEF ScannerInv, ScannerTypeOK, consumed
  <2>2. /\ DOMAIN consumed = 1..offset /\ Len(consumed) = offset
        /\ \A i \in 1..offset : consumed[i] = text[i]
    BY <2>1
  <2>3. is_token = token_positions(offset)
    BY <2>2 DEF is_token, token_positions
  <2>4. \A i \in is_token : is_token \cap 1..i = token_positions(i)
    BY <2>1, <2>3 DEF token_positions
  <2>5. {i \in DOMAIN consumed : consumed[i] = newline} = newline_positions(offset)
    BY <2>2 DEF newline_positions
  <2>6. \E begins \in SUBSET is_token : begins_token \subseteq begins /\ tokens_at(begins)
    <3>1. \A i \in is_token : tokens[Cardinality(is_token \cap 1..i)] = token(consumed[i])
      BY <2>2, <2>3, <2>4 DEF ScannerInv, token_positions
    <3>2. \A c : token(c)[1] = kind(c)
      BY DEF token
    <3>3. tokens_at(is_token)
      BY <2>3, <3>1, <3>2 DEF ScannerInv, tokens_at
    <3> QED
      BY <3>3 DEF begins_token
  <2>7. CASE exited = "end"
    <3>1. offset = Len(text) /\ \A i \in 1..Len(text) : text[i] \notin Other
      BY <2>7 DEF ScannerInv
    <3>2. consumed = text
      BY <2>1, <2>2, <3>1
    <3>3. Range(text) \cap Other = {}
      BY <2>1, <3>1 DEF Range
    <3> QED
      BY <2>3, <2>5, <2>6, <2>7, <3>2, <3>3 DEF ScannerInv, TokensExact
  <2>8. CASE exited = "unrecognised"
    <3>1. {i \in DOMAIN consumed : consumed[i] \in Other} = {offset}
      BY <2>1, <2>2, <2>8 DEF ScannerInv
    <3> QED
      BY <2>3, <2>5, <2>6, <2>8, <3>1 DEF ScannerInv, TokensExact
  <2> QED
    BY <2>7, <2>8 DEF ScannerInv, ScannerTypeOK
<1> QED
  BY <1>1, ScannerInvInit, ScannerInvNext, PTL DEF ScanSpec

-----------------------------------------------------------------------------
\* The lists: sequences of nodes, and the paths of pointers along them

\* b is the successor of a, and a the predecessor of b.
Linked(nx, pv, a, b) == nx[a] = b /\ pv[b] = a

\* What comes after a position in front of t, and before one behind it
Fst(t, b) == IF t = << >> THEN b ELSE t[1]

Lst(a, t) == IF t = << >> THEN a ELSE t[Len(t)]

Inner(nx, pv, t) == \A i \in 1..(Len(t) - 1) : Linked(nx, pv, t[i], t[i + 1])

\* The nodes t are what is between a and b.
Path(nx, pv, a, t, b) ==
    Inner(nx, pv, t) /\ Linked(nx, pv, a, Fst(t, b)) /\ Linked(nx, pv, Lst(a, t), b)

\* What a sequence of nodes is, index by index
LEMMA SeqFacts ==
    ASSUME NEW t \in Seq(Node)
    PROVE  /\ Len(t) \in Nat /\ DOMAIN t = 1..Len(t)
           /\ (t = << >>) <=> (Len(t) = 0)
           /\ \A i \in 1..Len(t) : t[i] \in Node
           /\ Range(t) = {t[i] : i \in 1..Len(t)}
           /\ Range(t) \subseteq Node
BY EmptySeq DEF Range

\* Two sequences of nodes, one after the other
LEMMA ConcatFacts ==
    ASSUME NEW s \in Seq(Node), NEW t \in Seq(Node)
    PROVE  /\ s \o t \in Seq(Node)
           /\ Len(s \o t) = Len(s) + Len(t)
           /\ \A i \in 1..Len(s) : (s \o t)[i] = s[i]
           /\ \A i \in 1..Len(t) : (s \o t)[i + Len(s)] = t[i]
           /\ Range(s \o t) = Range(s) \cup Range(t)
           /\ s \o t = << >> <=> s = << >> /\ t = << >>
           /\ s \o << >> = s /\ << >> \o s = s
<1>1. /\ s \o t \in Seq(Node)
      /\ Len(s \o t) = Len(s) + Len(t)
      /\ \A i \in 1 .. Len(s) + Len(t) : (s \o t)[i] = IF i <= Len(s) THEN s[i] ELSE t[i - Len(s)]
  BY ConcatProperties, Zenon
<1>2. Len(s) \in Nat /\ Len(t) \in Nat
  BY SeqFacts
<1>3. \A i \in 1..Len(s) : (s \o t)[i] = s[i]
  BY <1>1, <1>2
<1>4. \A i \in 1..Len(t) : (s \o t)[i + Len(s)] = t[i]
  <2> SUFFICES ASSUME NEW i \in 1..Len(t)
               PROVE  (s \o t)[i + Len(s)] = t[i]
    OBVIOUS
  <2>1. PICK j : j = i + Len(s)
    OBVIOUS
  <2>2. j \in 1..(Len(s) + Len(t)) /\ ~(j <= Len(s)) /\ j - Len(s) = i
    BY <1>2, <2>1
  <2> QED
    BY <1>1, <2>1, <2>2
<1>5. Range(s \o t) = Range(s) \cup Range(t)
  BY RangeConcatenation
<1>6. s \o t = << >> <=> s = << >> /\ t = << >>
  BY ConcatEqualIffEmpty
<1>7. s \o << >> = s /\ << >> \o s = s
  BY ConcatEmptySeq
<1> QED
  BY <1>1, <1>3, <1>4, <1>5, <1>6, <1>7

\* Three of them may be grouped either way.
LEMMA Associative ==
    ASSUME NEW s \in Seq(Node), NEW t \in Seq(Node), NEW u \in Seq(Node)
    PROVE  (s \o t) \o u = s \o (t \o u)
BY ConcatAssociative

\* No node is in s \o t twice: not in s, not in t and not in both.
LEMMA InjectiveConcat ==
    ASSUME NEW s \in Seq(Node), NEW t \in Seq(Node)
    PROVE  IsInjective(s \o t) <=>
              IsInjective(s) /\ IsInjective(t) /\ Range(s) \cap Range(t) = {}
<1> DEFINE n == Len(s)
           m == Len(t)
<1>1. /\ n \in Nat /\ m \in Nat /\ DOMAIN s = 1..n /\ DOMAIN t = 1..m
      /\ DOMAIN (s \o t) = 1..(n + m)
  BY SeqFacts, ConcatFacts
<1>2. \A i \in 1..n : (s \o t)[i] = s[i]
  BY ConcatFacts
<1>3. \A i \in 1..m : (s \o t)[i + n] = t[i]
  BY ConcatFacts
<1>4. Range(s) = {s[i] : i \in 1..n} /\ Range(t) = {t[i] : i \in 1..m}
  BY SeqFacts
<1>5. ASSUME IsInjective(s \o t)
      PROVE  IsInjective(s) /\ IsInjective(t) /\ Range(s) \cap Range(t) = {}
  <2>0. \A i, j \in 1..(n + m) : (s \o t)[i] = (s \o t)[j] => i = j
    BY <1>1, <1>5 DEF IsInjective
  <2>1. IsInjective(s)
    <3>1. \A i, j \in 1..n : s[i] = s[j] => i = j
      BY <1>1, <1>2, <2>0
    <3> QED
      BY <1>1, <3>1 DEF IsInjective
  <2>2. IsInjective(t)
    <3>1. ASSUME NEW i \in 1..m, NEW j \in 1..m, t[i] = t[j]
          PROVE  i = j
      <4>1. i + n \in 1..(n + m) /\ j + n \in 1..(n + m)
        BY <1>1
      <4>2. i + n = j + n
        BY <1>3, <2>0, <3>1, <4>1
      <4> QED
        BY <1>1, <4>2
    <3> QED
      BY <1>1, <3>1 DEF IsInjective
  <2>3. ASSUME NEW i \in 1..n, NEW j \in 1..m, s[i] = t[j]
        PROVE  FALSE
    <3>1. i \in 1..(n + m) /\ j + n \in 1..(n + m) /\ i # j + n
      BY <1>1
    <3>2. (s \o t)[i] = (s \o t)[j + n]
      BY <1>2, <1>3, <2>3
    <3> QED
      BY <2>0, <3>1, <3>2
  <2> QED
    BY <1>4, <2>1, <2>2, <2>3
<1>6. ASSUME IsInjective(s), IsInjective(t), Range(s) \cap Range(t) = {}
      PROVE  IsInjective(s \o t)
  <2>1. ASSUME NEW i \in 1..(n + m)
        PROVE  \/ i \in 1..n /\ (s \o t)[i] = s[i] /\ s[i] \in Range(s)
               \/ i - n \in 1..m /\ (s \o t)[i] = t[i - n] /\ t[i - n] \in Range(t)
    <3>1. CASE i \in 1..n
      BY <1>2, <1>4, <3>1
    <3>2. CASE i \notin 1..n
      <4>1. PICK k \in 1..m : i = k + n /\ i - n = k
        <5>1. i - n \in 1..m /\ i = i - n + n
          BY <1>1, <3>2
        <5> QED
          BY <5>1
      <4> QED
        BY <1>3, <1>4, <4>1
    <3> QED
      BY <3>1, <3>2
  <2>2. ASSUME NEW i \in 1..(n + m), NEW j \in 1..(n + m), (s \o t)[i] = (s \o t)[j]
        PROVE  i = j
    <3>1. CASE i \in 1..n /\ j \in 1..n /\ (s \o t)[i] = s[i] /\ (s \o t)[j] = s[j]
      BY <1>1, <1>6, <2>2, <3>1 DEF IsInjective
    <3>2. CASE /\ i - n \in 1..m /\ j - n \in 1..m
               /\ (s \o t)[i] = t[i - n] /\ (s \o t)[j] = t[j - n]
      <4>1. i - n = j - n
        BY <1>1, <1>6, <2>2, <3>2 DEF IsInjective
      <4> QED
        BY <1>1, <4>1
    <3> QED
      BY <1>6, <2>1, <2>2, <3>1, <3>2
  <2> QED
    BY <1>1, <2>2 DEF IsInjective
<1> QED
  BY <1>5, <1>6

\* What s \o t begins and ends with
LEMMA EndsConcat ==
    ASSUME NEW s \in Seq(Node), NEW t \in Seq(Node), NEW a, NEW b
    PROVE  /\ Fst(s \o t, b) = Fst(s, Fst(t, b))
           /\ Lst(a, s \o t) = Lst(Lst(a, s), t)
<1>1. CASE s = << >>
  <2>1. s \o t = t
    BY <1>1, ConcatFacts
  <2> QED
    BY <1>1, <2>1 DEF Fst, Lst
<1>2. CASE s # << >> /\ t = << >>
  <2>1. s \o t = s
    BY <1>2, ConcatFacts
  <2> QED
    BY <1>2, <2>1 DEF Fst, Lst
<1>3. CASE s # << >> /\ t # << >>
  <2>1. 1 \in 1..Len(s) /\ Len(t) \in 1..Len(t) /\ Len(s) \in Nat /\ Len(t) \in Nat
    BY <1>3, SeqFacts
  <2>2. s \o t # << >> /\ Len(s \o t) = Len(t) + Len(s)
    BY <1>3, <2>1, ConcatFacts
  <2>3. (s \o t)[1] = s[1] /\ (s \o t)[Len(t) + Len(s)] = t[Len(t)]
    BY <2>1, ConcatFacts
  <2> QED
    BY <1>3, <2>2, <2>3 DEF Fst, Lst
<1> QED
  BY <1>1, <1>2, <1>3

\* s \o t is linked inside when both are, and where they meet.
LEMMA InnerConcat ==
    ASSUME NEW s \in Seq(Node), NEW t \in Seq(Node), NEW nx, NEW pv
    PROVE  Inner(nx, pv, s \o t) <=>
              /\ Inner(nx, pv, s) /\ Inner(nx, pv, t)
              /\ s # << >> /\ t # << >> => Linked(nx, pv, s[Len(s)], t[1])
<1> DEFINE n == Len(s)
           m == Len(t)
<1>1. /\ n \in Nat /\ m \in Nat /\ Len(s \o t) = n + m
      /\ (s = << >> <=> n = 0) /\ (t = << >> <=> m = 0)
  BY SeqFacts, ConcatFacts
<1>2. \A i \in 1..n : (s \o t)[i] = s[i]
  BY ConcatFacts
<1>3. \A i \in 1..m : (s \o t)[i + n] = t[i]
  BY ConcatFacts
<1> HIDE DEF n, m
<1> DEFINE L(a, b) == Linked(nx, pv, a, b)
<1>4. Inner(nx, pv, s \o t) <=> \A i \in 1..(n + m - 1) : L((s \o t)[i], (s \o t)[i + 1])
  <2>1. PICK k : k = n + m - 1
    OBVIOUS
  <2>2. Len(s \o t) - 1 = k
    BY <1>1, <2>1
  <2>3. Inner(nx, pv, s \o t) <=> \A i \in 1..k : L((s \o t)[i], (s \o t)[i + 1])
    BY ONLY <2>2, Zenon DEF Inner, L
  <2> QED
    BY <2>1, <2>3
<1>5. Inner(nx, pv, s) <=> \A i \in 1..(n - 1) : L(s[i], s[i + 1])
  BY DEF Inner, n
<1>6. Inner(nx, pv, t) <=> \A i \in 1..(m - 1) : L(t[i], t[i + 1])
  BY DEF Inner, m
<1>7. (s # << >> /\ t # << >> => Linked(nx, pv, s[Len(s)], t[1])) <=>
         (n # 0 /\ m # 0 => L(s[n], t[1]))
  BY <1>1 DEF n
<1> HIDE DEF L
<1>8. \A i \in 1..(n - 1) : (s \o t)[i] = s[i] /\ (s \o t)[i + 1] = s[i + 1] /\ i \in 1..(n + m - 1)
  BY <1>1, <1>2
<1>9. \A i \in 1..(m - 1) : /\ (s \o t)[i + n] = t[i] /\ (s \o t)[i + n + 1] = t[i + 1]
                            /\ i + n \in 1..(n + m - 1)
  <2> SUFFICES ASSUME NEW i \in 1..(m - 1)
               PROVE  /\ (s \o t)[i + n] = t[i] /\ (s \o t)[i + n + 1] = t[i + 1]
                      /\ i + n \in 1..(n + m - 1)
    OBVIOUS
  <2>1. i \in 1..m /\ i + 1 \in 1..m /\ i + n + 1 = i + 1 + n /\ i + n \in 1..(n + m - 1)
    BY <1>1
  <2>2. (s \o t)[i + 1 + n] = t[i + 1]
    BY <1>3, <2>1
  <2> QED
    BY <1>3, <2>1, <2>2
<1>10. n # 0 /\ m # 0 => (s \o t)[n] = s[n] /\ (s \o t)[n + 1] = t[1] /\ n \in 1..(n + m - 1)
  <2> SUFFICES ASSUME n # 0, m # 0
               PROVE  (s \o t)[n] = s[n] /\ (s \o t)[n + 1] = t[1] /\ n \in 1..(n + m - 1)
    OBVIOUS
  <2>1. n \in 1..n /\ 1 \in 1..m /\ n + 1 = 1 + n /\ n \in 1..(n + m - 1)
    BY <1>1
  <2>2. (s \o t)[1 + n] = t[1]
    BY <1>3, <2>1
  <2> QED
    BY <1>2, <2>1, <2>2
<1>11. \A i \in 1..(n + m - 1) : \/ i \in 1..(n - 1) \/ (i = n /\ n # 0 /\ m # 0)
                                 \/ (\E j \in 1..(m - 1) : i = j + n)
  <2> SUFFICES ASSUME NEW i \in 1..(n + m - 1), i \notin 1..(n - 1), ~(i = n /\ n # 0 /\ m # 0)
               PROVE  \E j \in 1..(m - 1) : i = j + n
    OBVIOUS
  <2>1. i - n \in 1..(m - 1) /\ i = i - n + n
    BY <1>1
  <2> QED
    BY <2>1
<1>12. (\A i \in 1..(n + m - 1) : L((s \o t)[i], (s \o t)[i + 1])) =>
           /\ \A i \in 1..(n - 1) : L(s[i], s[i + 1])
           /\ \A i \in 1..(m - 1) : L(t[i], t[i + 1])
           /\ (n # 0 /\ m # 0 => L(s[n], t[1]))
  <2> SUFFICES ASSUME \A i \in 1..(n + m - 1) : L((s \o t)[i], (s \o t)[i + 1])
               PROVE  /\ \A i \in 1..(n - 1) : L(s[i], s[i + 1])
                      /\ \A i \in 1..(m - 1) : L(t[i], t[i + 1])
                      /\ (n # 0 /\ m # 0 => L(s[n], t[1]))
    OBVIOUS
  <2>1. \A i \in 1..(n - 1) : L(s[i], s[i + 1])
    BY <1>8
  <2>2. \A i \in 1..(m - 1) : L(t[i], t[i + 1])
    <3> SUFFICES ASSUME NEW i \in 1..(m - 1)
                 PROVE  L(t[i], t[i + 1])
      OBVIOUS
    <3>1. L((s \o t)[i + n], (s \o t)[i + n + 1])
      BY <1>9
    <3> QED
      BY <1>9, <3>1
  <2>3. n # 0 /\ m # 0 => L(s[n], t[1])
    BY <1>10
  <2> QED
    BY <2>1, <2>2, <2>3
<1>13. ASSUME \A i \in 1..(n - 1) : L(s[i], s[i + 1]),
              \A i \in 1..(m - 1) : L(t[i], t[i + 1]),
              n # 0 /\ m # 0 => L(s[n], t[1])
       PROVE  \A i \in 1..(n + m - 1) : L((s \o t)[i], (s \o t)[i + 1])
  <2> SUFFICES ASSUME NEW i \in 1..(n + m - 1)
               PROVE  L((s \o t)[i], (s \o t)[i + 1])
    OBVIOUS
  <2>1. CASE i \in 1..(n - 1)
    BY <1>8, <1>13, <2>1
  <2>2. CASE i = n /\ n # 0 /\ m # 0
    BY <1>10, <1>13, <2>2
  <2>3. CASE \E j \in 1..(m - 1) : i = j + n
    BY <1>9, <1>13, <2>3
  <2> QED
    BY <1>11, <2>1, <2>2, <2>3
<1> QED
  BY <1>4, <1>5, <1>6, <1>7, <1>12, <1>13

\* A path may be cut anywhere, and two that meet are one: what transfer() lives on
LEMMA PathConcat ==
    ASSUME NEW s \in Seq(Node), NEW t \in Seq(Node), NEW nx, NEW pv, NEW a, NEW b
    PROVE  Path(nx, pv, a, s \o t, b) <=>
              Path(nx, pv, a, s, Fst(t, b)) /\ Path(nx, pv, Lst(a, s), t, b)
<1>1. /\ Fst(s \o t, b) = Fst(s, Fst(t, b))
      /\ Lst(a, s \o t) = Lst(Lst(a, s), t)
  BY EndsConcat
<1>2. Inner(nx, pv, s \o t) <=>
         /\ Inner(nx, pv, s) /\ Inner(nx, pv, t)
         /\ s # << >> /\ t # << >> => Linked(nx, pv, s[Len(s)], t[1])
  BY InnerConcat
<1>3. s # << >> => Lst(a, s) = s[Len(s)] /\ Fst(s, Fst(t, b)) = s[1]
  BY DEF Lst, Fst
<1>4. t # << >> => Fst(t, b) = t[1] /\ Lst(Lst(a, s), t) = t[Len(t)]
  BY DEF Lst, Fst
<1>5. s = << >> => Lst(a, s) = a /\ Fst(s, Fst(t, b)) = Fst(t, b)
  BY DEF Lst, Fst
<1>6. t = << >> => Fst(t, b) = b /\ Lst(Lst(a, s), t) = Lst(a, s)
  BY DEF Lst, Fst
<1>7. CASE s = << >>
  BY <1>1, <1>2, <1>5, <1>7 DEF Path
<1>8. CASE t = << >>
  BY <1>1, <1>2, <1>6, <1>8 DEF Path
<1>9. CASE s # << >> /\ t # << >>
  BY <1>1, <1>2, <1>3, <1>4, <1>9 DEF Path
<1> QED
  BY <1>7, <1>8, <1>9

\* The ends of a path that is not empty are nodes of it.
LEMMA Ends ==
    ASSUME NEW t \in Seq(Node), NEW a, NEW b
    PROVE  /\ t = << >> => Fst(t, b) = b /\ Lst(a, t) = a /\ Range(t) = {}
           /\ t # << >> => /\ Fst(t, b) = t[1] /\ Lst(a, t) = t[Len(t)]
                           /\ Fst(t, b) \in Range(t) /\ Lst(a, t) \in Range(t)
<1>1. t = << >> => Range(t) = {}
  <2>1. t = << >> => 1..Len(t) = {}
    BY SeqFacts
  <2> QED
    BY <2>1, SeqFacts
<1>2. t # << >> => t[1] \in Range(t) /\ t[Len(t)] \in Range(t)
  <2>1. t # << >> => 1 \in 1..Len(t) /\ Len(t) \in 1..Len(t)
    BY SeqFacts
  <2> QED
    BY <2>1, SeqFacts
<1> QED
  BY <1>1, <1>2 DEF Fst, Lst

\* Pointers that change at the ends of t only
LEMMA InnerFrame ==
    ASSUME NEW t \in Seq(Node), IsInjective(t), NEW nx, NEW pv, Inner(nx, pv, t), NEW nx2, NEW pv2,
           \A p \in Range(t) : p # t[Len(t)] => nx2[p] = nx[p],
           \A p \in Range(t) : p # t[1] => pv2[p] = pv[p]
    PROVE  Inner(nx2, pv2, t)
<1>1. Len(t) \in Nat /\ \A i, j \in 1..Len(t) : t[i] = t[j] => i = j
  BY SeqFacts DEF IsInjective
<1>2. \A i \in 1..Len(t) : t[i] \in Range(t)
  BY SeqFacts
<1>3. ASSUME NEW i \in 1..(Len(t) - 1)
      PROVE  nx2[t[i]] = nx[t[i]] /\ pv2[t[i + 1]] = pv[t[i + 1]]
  <2>1. i \in 1..Len(t) /\ i + 1 \in 1..Len(t) /\ i # Len(t) /\ i + 1 # 1
        /\ 1 \in 1..Len(t) /\ Len(t) \in 1..Len(t)
    BY <1>1
  <2>2. t[i] # t[Len(t)] /\ t[i + 1] # t[1]
    BY <1>1, <2>1
  <2> QED
    BY <1>2, <2>1, <2>2
<1> QED
  BY <1>3 DEF Inner, Linked

\* A path depends on the links of its own nodes and of its ends only.
LEMMA PathFrame ==
    ASSUME NEW t \in Seq(Node), NEW nx, NEW pv, NEW a, NEW b, Path(nx, pv, a, t, b), NEW nx2, NEW pv2,
           \A p \in {a} \cup Range(t) : nx2[p] = nx[p],
           \A p \in {b} \cup Range(t) : pv2[p] = pv[p]
    PROVE  Path(nx2, pv2, a, t, b)
<1>1. \A i \in 1..(Len(t) - 1) : i \in 1..Len(t) /\ i + 1 \in 1..Len(t)
  BY SeqFacts
<1>2. \A i \in 1..Len(t) : t[i] \in Range(t)
  BY SeqFacts
<1>3. Inner(nx2, pv2, t)
  BY <1>1, <1>2 DEF Path, Inner, Linked
<1>4. Fst(t, b) \in {b} \cup Range(t) /\ Lst(a, t) \in {a} \cup Range(t)
  BY Ends
<1> QED
  BY <1>3, <1>4 DEF Path, Linked

-----------------------------------------------------------------------------
Used(q, R, n) == n \in Range(R) \/ \E l \in ListObject : n \in Range(q[l])

Apart(q, R) ==
    /\ q \in [ListObject -> Seq(Node)] /\ R \in Seq(Node)
    /\ \A l \in ListObject : IsInjective(q[l]) /\ Range(q[l]) \cap Range(R) = {}
    /\ \A l, m \in ListObject : l # m => Range(q[l]) \cap Range(q[m]) = {}
    /\ IsInjective(R)

\* The rings of the lists are those of q; the nodes R are cut out.
Shape(nx, pv, q, R) ==
    /\ Apart(q, R)
    /\ nx \in [Place -> Place \cup {NULL}] /\ pv \in [Place -> Place \cup {NULL}]
    /\ \A l \in ListObject : Path(nx, pv, l, q[l], l)
    /\ Inner(nx, pv, R)
    /\ \A n \in Node : Used(q, R, n) \/ (nx[n] = NULL /\ pv[n] = NULL)

\* A place is a node or a header, and NULL is neither.
LEMMA Kinds ==
    /\ Node \subseteq Place /\ ListObject \subseteq Place
    /\ \A l \in ListObject : l \notin Node
    /\ NULL \notin Place /\ NULL \notin Node /\ NULL \notin ListObject
BY StlListAssumption DEF Place

\* The middle taken out of a sequence of three parts, and put back
LEMMA Apart3 ==
    ASSUME NEW A \in Seq(Node), NEW B \in Seq(Node), NEW C \in Seq(Node)
    PROVE  /\ A \o (B \o C) \in Seq(Node) /\ B \o C \in Seq(Node)
           /\ A \o C \in Seq(Node)
           /\ Range(A \o (B \o C)) = Range(A) \cup Range(B) \cup Range(C)
           /\ Range(A \o C) = Range(A) \cup Range(C)
           /\ IsInjective(A \o (B \o C)) <=>
                 /\ IsInjective(A \o C) /\ IsInjective(B)
                 /\ Range(A \o C) \cap Range(B) = {}
           /\ IsInjective(A \o C) => /\ IsInjective(A) /\ IsInjective(C)
                                     /\ Range(A) \cap Range(C) = {}
<1>1. B \o C \in Seq(Node) /\ A \o C \in Seq(Node)
  BY ConcatFacts
<1>2. A \o (B \o C) \in Seq(Node)
  BY <1>1, ConcatFacts
<1>3. /\ Range(B \o C) = Range(B) \cup Range(C) /\ Range(A \o C) = Range(A) \cup Range(C)
      /\ Range(A \o (B \o C)) = Range(A) \cup Range(B \o C)
  BY <1>1, ConcatFacts
<1>4. IsInjective(A \o (B \o C)) <=>
         IsInjective(A) /\ IsInjective(B \o C) /\ Range(A) \cap Range(B \o C) = {}
  BY <1>1, InjectiveConcat
<1>5. IsInjective(B \o C) <=>
         IsInjective(B) /\ IsInjective(C) /\ Range(B) \cap Range(C) = {}
  BY InjectiveConcat
<1>6. IsInjective(A \o C) <=>
         IsInjective(A) /\ IsInjective(C) /\ Range(A) \cap Range(C) = {}
  BY InjectiveConcat
<1> QED
  BY <1>1, <1>2, <1>3, <1>4, <1>5, <1>6

\* Cut the nodes R out of the list x.
LEMMA CutKeeps ==
    ASSUME NEW nx, NEW pv, NEW q, Shape(nx, pv, q, << >>), NEW x \in ListObject,
           NEW C \in Seq(Node), NEW R \in Seq(Node), NEW D \in Seq(Node),
           q[x] = C \o (R \o D), R # << >>
    PROVE  /\ nx[Lst(x, C)] = R[1] /\ pv[R[1]] = Lst(x, C)
           /\ nx[R[Len(R)]] = Fst(D, x) /\ pv[Fst(D, x)] = R[Len(R)]
           /\ Shape([nx EXCEPT ![Lst(x, C)] = Fst(D, x)], [pv EXCEPT ![Fst(D, x)] = Lst(x, C)],
                    [q EXCEPT ![x] = C \o D], R)
<1>1. /\ q \in [ListObject -> Seq(Node)]
      /\ nx \in [Place -> Place \cup {NULL}] /\ pv \in [Place -> Place \cup {NULL}]
      /\ Path(nx, pv, x, q[x], x) /\ IsInjective(q[x])
  BY DEF Shape, Apart
<1>2. /\ C \o D \in Seq(Node) /\ R \o D \in Seq(Node)
      /\ Range(q[x]) = Range(C) \cup Range(R) \cup Range(D)
      /\ Range(C \o D) = Range(C) \cup Range(D)
      /\ IsInjective(C \o D) /\ IsInjective(R)
      /\ Range(C \o D) \cap Range(R) = {}
      /\ IsInjective(C) /\ IsInjective(D) /\ Range(C) \cap Range(D) = {}
  BY <1>1, Apart3
<1>3. Path(nx, pv, x, C, Fst(R \o D, x)) /\ Path(nx, pv, Lst(x, C), R \o D, x)
  BY <1>1, <1>2, PathConcat
<1>4. Path(nx, pv, Lst(x, C), R, Fst(D, x)) /\ Path(nx, pv, Lst(Lst(x, C), R), D, x)
  BY <1>3, PathConcat
<1>5. /\ Fst(R, Fst(D, x)) = R[1] /\ Lst(Lst(x, C), R) = R[Len(R)]
      /\ Fst(R \o D, x) = R[1]
  <2>1. Fst(R \o D, x) = Fst(R, Fst(D, x))
    BY EndsConcat
  <2>2. Fst(R, Fst(D, x)) = R[1] /\ Lst(Lst(x, C), R) = R[Len(R)]
    BY DEF Fst, Lst
  <2> QED
    BY <2>1, <2>2
<1>6. /\ nx[Lst(x, C)] = R[1] /\ pv[R[1]] = Lst(x, C)
      /\ nx[R[Len(R)]] = Fst(D, x) /\ pv[Fst(D, x)] = R[Len(R)]
  BY <1>4, <1>5 DEF Path, Linked
<1>7. PICK a, b : a = Lst(x, C) /\ b = Fst(D, x)
  OBVIOUS
<1>8. PICK nx2, pv2, q2 : /\ nx2 = [nx EXCEPT ![a] = b] /\ pv2 = [pv EXCEPT ![b] = a]
                          /\ q2 = [q EXCEPT ![x] = C \o D]
  OBVIOUS
<1>9. /\ Range(C) \subseteq Node /\ Range(D) \subseteq Node /\ Range(R) \subseteq Node
      /\ Range(q[x]) \subseteq Node
  BY <1>1, SeqFacts
<1>10. /\ C = << >> => a = x
       /\ C # << >> => a = C[Len(C)] /\ a \in Range(C) /\ \A z : Fst(C, z) = C[1] /\ C[1] \in Range(C)
       /\ D = << >> => b = x
       /\ D # << >> => b = D[1] /\ b \in Range(D) /\ \A z : Lst(z, D) = D[Len(D)] /\ D[Len(D)] \in Range(D)
  BY <1>7, Ends
<1>11. a \in {x} \cup Range(C) /\ b \in {x} \cup Range(D) /\ a \in Place /\ b \in Place /\ x \notin Node
  BY <1>9, <1>10, Kinds
<1>12. /\ nx2 \in [Place -> Place \cup {NULL}] /\ pv2 \in [Place -> Place \cup {NULL}]
       /\ nx2[a] = b /\ pv2[b] = a
       /\ \A p \in Place : (p # a => nx2[p] = nx[p]) /\ (p # b => pv2[p] = pv[p])
  BY <1>1, <1>8, <1>11
<1>13. Inner(nx2, pv2, C)
  <2>1. \A p \in Range(C) : (p # C[Len(C)] => nx2[p] = nx[p]) /\ (p # C[1] => pv2[p] = pv[p])
    BY <1>2, <1>9, <1>10, <1>11, <1>12, Kinds
  <2> QED
    BY <1>2, <1>3, <2>1, InnerFrame DEF Path
<1>14. Inner(nx2, pv2, D)
  <2>1. \A p \in Range(D) : (p # D[Len(D)] => nx2[p] = nx[p]) /\ (p # D[1] => pv2[p] = pv[p])
    BY <1>2, <1>9, <1>10, <1>11, <1>12, Kinds
  <2> QED
    BY <1>2, <1>4, <2>1, InnerFrame DEF Path
<1>15. Inner(nx2, pv2, R)
  <2>1. \A p \in Range(R) : (p # R[Len(R)] => nx2[p] = nx[p]) /\ (p # R[1] => pv2[p] = pv[p])
    BY <1>2, <1>9, <1>10, <1>11, <1>12, Kinds
  <2> QED
    BY <1>2, <1>4, <2>1, InnerFrame DEF Path
<1>16. Path(nx2, pv2, x, C, b)
  <2>1. CASE C = << >>
    BY <1>10, <1>12, <1>13, <2>1, Ends DEF Path, Linked
  <2>2. CASE C # << >>
    <3>1. Linked(nx, pv, x, C[1]) /\ C[1] \in Node
      BY <1>3, <1>9, <1>10, <2>2 DEF Path
    <3>2. x # a /\ C[1] # b
      BY <1>2, <1>9, <1>10, <1>11, <2>2
    <3>3. Linked(nx2, pv2, x, C[1])
      BY <1>12, <3>1, <3>2, Kinds DEF Linked
    <3> QED
      BY <1>7, <1>10, <1>12, <1>13, <2>2, <3>3 DEF Path, Linked
  <2> QED
    BY <2>1, <2>2
<1>17. Path(nx2, pv2, a, D, x)
  <2>1. CASE D = << >>
    BY <1>10, <1>12, <1>14, <2>1, Ends DEF Path, Linked
  <2>2. CASE D # << >>
    <3>1. Linked(nx, pv, D[Len(D)], x) /\ D[Len(D)] \in Node
      BY <1>4, <1>9, <1>10, <2>2 DEF Path
    <3>2. x # b /\ D[Len(D)] # a
      BY <1>2, <1>9, <1>10, <1>11, <2>2
    <3>3. Linked(nx2, pv2, D[Len(D)], x)
      BY <1>12, <3>1, <3>2, Kinds DEF Linked
    <3>4. Fst(D, x) = b /\ Lst(a, D) = D[Len(D)]
      BY <1>7, <1>10, <2>2
    <3> QED
      BY <1>12, <1>14, <3>3, <3>4 DEF Path, Linked
  <2> QED
    BY <2>1, <2>2
<1>18. Path(nx2, pv2, x, C \o D, x)
  BY <1>7, <1>16, <1>17, PathConcat
<1>19. /\ q2 \in [ListObject -> Seq(Node)] /\ q2[x] = C \o D
       /\ \A m \in ListObject : m # x => q2[m] = q[m]
  BY <1>1, <1>2, <1>8
<1>20. \A m \in ListObject : m # x => Range(q[m]) \cap Range(q[x]) = {} /\ IsInjective(q[m])
  BY DEF Shape, Apart
<1>21. Apart(q2, R)
  <2>1. \A l \in ListObject : IsInjective(q2[l]) /\ Range(q2[l]) \cap Range(R) = {}
    BY <1>2, <1>19, <1>20
  <2>2. Range(q2[x]) \subseteq Range(q[x])
    BY <1>2, <1>19
  <2>3. \A l, m \in ListObject : l # m => Range(q[l]) \cap Range(q[m]) = {}
    BY DEF Shape, Apart
  <2>4. \A l, m \in ListObject : l # m => Range(q2[l]) \cap Range(q2[m]) = {}
    BY <1>19, <2>2, <2>3
  <2> QED
    BY <1>2, <1>19, <2>1, <2>4 DEF Apart
<1>22. ASSUME NEW m \in ListObject, m # x
       PROVE  Path(nx2, pv2, m, q2[m], m)
  <2>1. Path(nx, pv, m, q[m], m) /\ q[m] \in Seq(Node) /\ Range(q[m]) \subseteq Node
    BY <1>1, SeqFacts DEF Shape
  <2>2. m \notin Node /\ m \in Place
    BY Kinds
  <2>3. \A p \in {m} \cup Range(q[m]) : p \in Place /\ p # a /\ p # b
    BY <1>2, <1>9, <1>11, <1>20, <1>22, <2>1, <2>2, Kinds
  <2>4. Path(nx2, pv2, m, q[m], m)
    <3>1. \A p \in {m} \cup Range(q[m]) : nx2[p] = nx[p] /\ pv2[p] = pv[p]
      BY <1>12, <2>3
    <3> HIDE <1>12
    <3> QED
      BY <2>1, <3>1, PathFrame
  <2> QED
    BY <1>19, <1>22, <2>4
<1>23. \A n \in Node : Used(q2, R, n) \/ (nx2[n] = NULL /\ pv2[n] = NULL)
  <2> SUFFICES ASSUME NEW n \in Node, ~Used(q2, R, n)
               PROVE  nx2[n] = NULL /\ pv2[n] = NULL
    OBVIOUS
  <2>1. n \notin Range(R) /\ \A l \in ListObject : n \notin Range(q2[l])
    BY DEF Used
  <2>2. n \notin Range(C) /\ n \notin Range(D) /\ \A l \in ListObject : n \notin Range(q[l])
    BY <1>2, <1>19, <2>1
  <2>3. ~Used(q, << >>, n)
    BY <2>2, Ends, EmptySeq DEF Used
  <2>4. nx[n] = NULL /\ pv[n] = NULL
    BY <2>3 DEF Shape
  <2>5. n # a /\ n # b /\ n \in Place
    BY <1>11, <2>2, Kinds
  <2> QED
    BY <1>12, <2>4, <2>5
<1>24. Shape(nx2, pv2, q2, R)
  BY <1>12, <1>15, <1>18, <1>19, <1>21, <1>22, <1>23 DEF Shape
<1> QED
  BY <1>6, <1>7, <1>8, <1>24

\* The empty sequence of nodes
LEMMA EmptyFacts == << >> \in Seq(Node) /\ IsInjective(<< >>) /\ Range(<< >>) = {} /\ Len(<< >>) = 0
<1>1. << >> \in Seq(Node) /\ Len(<< >>) = 0
  BY EmptySeq
<1>2. DOMAIN << >> = {}
  BY <1>1, SeqFacts
<1> QED
  BY <1>1, <1>2 DEF IsInjective, Range

\* Link the nodes R, which are in no list, into the list l.
LEMMA PasteKeeps ==
    ASSUME NEW nx, NEW pv, NEW q, NEW R, Shape(nx, pv, q, R), NEW l \in ListObject,
           NEW A \in Seq(Node), NEW B \in Seq(Node), q[l] = A \o B, R # << >>
    PROVE  /\ nx[Lst(l, A)] = Fst(B, l) /\ pv[Fst(B, l)] = Lst(l, A)
           /\ Shape([nx EXCEPT ![R[Len(R)]] = Fst(B, l), ![Lst(l, A)] = R[1]],
                    [pv EXCEPT ![R[1]] = Lst(l, A), ![Fst(B, l)] = R[Len(R)]],
                    [q EXCEPT ![l] = A \o (R \o B)], << >>)
<1>1. /\ q \in [ListObject -> Seq(Node)] /\ R \in Seq(Node)
      /\ nx \in [Place -> Place \cup {NULL}] /\ pv \in [Place -> Place \cup {NULL}]
      /\ Path(nx, pv, l, q[l], l) /\ IsInjective(q[l])
      /\ Inner(nx, pv, R) /\ IsInjective(R) /\ Range(q[l]) \cap Range(R) = {}
  BY DEF Shape, Apart
<1>2. /\ R \o B \in Seq(Node) /\ A \o (R \o B) \in Seq(Node)
      /\ Range(q[l]) = Range(A) \cup Range(B)
      /\ Range(A \o (R \o B)) = Range(A) \cup Range(R) \cup Range(B)
      /\ IsInjective(A \o (R \o B))
      /\ IsInjective(A) /\ IsInjective(B) /\ Range(A) \cap Range(B) = {}
  BY <1>1, Apart3
<1>3. Path(nx, pv, l, A, Fst(B, l)) /\ Path(nx, pv, Lst(l, A), B, l)
  BY <1>1, PathConcat
<1>4. PICK a, b, f, g : a = Lst(l, A) /\ b = Fst(B, l) /\ f = R[1] /\ g = R[Len(R)]
  OBVIOUS
<1>5. /\ f \in Range(R) /\ g \in Range(R)
      /\ \A z : Fst(R, z) = f /\ Lst(z, R) = g
  BY <1>1, <1>4, Ends, ZenonT(30)
<1>6. nx[a] = b /\ pv[b] = a
  <2>1. A = << >> => Lst(l, A) = l /\ Fst(A, Fst(B, l)) = Fst(B, l)
    BY Ends
  <2> QED
    BY <1>3, <1>4 DEF Path, Linked
<1>7. /\ Range(A) \subseteq Node /\ Range(B) \subseteq Node /\ Range(R) \subseteq Node
      /\ Range(q[l]) \subseteq Node
  BY <1>1, SeqFacts
<1>8. /\ A = << >> => a = l
      /\ A # << >> => a = A[Len(A)] /\ a \in Range(A) /\ \A z : Fst(A, z) = A[1] /\ A[1] \in Range(A)
      /\ B = << >> => b = l
      /\ B # << >> => b = B[1] /\ b \in Range(B) /\ \A z : Lst(z, B) = B[Len(B)] /\ B[Len(B)] \in Range(B)
  BY <1>4, Ends
<1>9. /\ a \in {l} \cup Range(A) /\ b \in {l} \cup Range(B) /\ l \notin Node
      /\ a \in Place /\ b \in Place /\ f \in Place /\ g \in Place /\ a # g /\ b # f
  BY <1>1, <1>2, <1>5, <1>7, <1>8, Kinds
<1>10. PICK nx2, pv2, q2 : /\ nx2 = [nx EXCEPT ![g] = b, ![a] = f]
                           /\ pv2 = [pv EXCEPT ![f] = a, ![b] = g]
                           /\ q2 = [q EXCEPT ![l] = A \o (R \o B)]
  OBVIOUS
<1>11. /\ nx2 \in [Place -> Place \cup {NULL}] /\ pv2 \in [Place -> Place \cup {NULL}]
       /\ nx2[a] = f /\ nx2[g] = b /\ pv2[b] = g /\ pv2[f] = a
       /\ \A p \in Place : (p # a /\ p # g => nx2[p] = nx[p]) /\ (p # b /\ p # f => pv2[p] = pv[p])
  BY <1>1, <1>9, <1>10
<1>12. Inner(nx2, pv2, A)
  <2>1. \A p \in Range(A) : (p # A[Len(A)] => nx2[p] = nx[p]) /\ (p # A[1] => pv2[p] = pv[p])
    BY <1>1, <1>2, <1>5, <1>7, <1>8, <1>9, <1>11, Kinds, SMTT(30)
  <2> QED
    BY <1>2, <1>3, <2>1, InnerFrame DEF Path
<1>13. Inner(nx2, pv2, B)
  <2>1. \A p \in Range(B) : (p # B[Len(B)] => nx2[p] = nx[p]) /\ (p # B[1] => pv2[p] = pv[p])
    <3> SUFFICES ASSUME NEW p \in Range(B)
                 PROVE  (p # B[Len(B)] => nx2[p] = nx[p]) /\ (p # B[1] => pv2[p] = pv[p])
      OBVIOUS
    <3>1. p \in Place /\ p # a /\ p # f /\ p # g
      BY <1>1, <1>2, <1>5, <1>7, <1>9, Kinds
    <3>2. B # << >>
      BY EmptyFacts
    <3> QED
      BY <1>8, <1>11, <3>1, <3>2
  <2> QED
    BY <1>2, <1>3, <2>1, InnerFrame DEF Path
<1>14. Inner(nx2, pv2, R)
  <2>1. \A p \in Range(R) : (p # R[Len(R)] => nx2[p] = nx[p]) /\ (p # R[1] => pv2[p] = pv[p])
    BY <1>1, <1>2, <1>4, <1>7, <1>9, <1>11, Kinds
  <2> QED
    BY <1>1, <2>1, InnerFrame
<1>15. Path(nx2, pv2, l, A, f)
  <2>1. CASE A = << >>
    BY <1>8, <1>11, <1>12, <2>1, Ends DEF Path, Linked
  <2>2. CASE A # << >>
    <3>1. Linked(nx, pv, l, A[1]) /\ A[1] \in Node
      BY <1>3, <1>7, <1>8, <2>2 DEF Path
    <3>2. l # a /\ A[1] # b /\ l # g /\ A[1] # f
      BY <1>1, <1>2, <1>5, <1>7, <1>8, <1>9, <2>2
    <3>3. Linked(nx2, pv2, l, A[1])
      BY <1>11, <3>1, <3>2, Kinds DEF Linked
    <3>4. Fst(A, f) = A[1] /\ Lst(l, A) = a
      BY <1>4, <1>8, <2>2
    <3> QED
      BY <1>11, <1>12, <3>3, <3>4 DEF Path, Linked
  <2> QED
    BY <2>1, <2>2
<1>16. Path(nx2, pv2, g, B, l)
  <2>1. CASE B = << >>
    BY <1>8, <1>11, <1>13, <2>1, Ends DEF Path, Linked
  <2>2. CASE B # << >>
    <3>1. Linked(nx, pv, B[Len(B)], l) /\ B[Len(B)] \in Node
      BY <1>3, <1>7, <1>8, <2>2 DEF Path
    <3>2. l # b /\ B[Len(B)] # a /\ l # f /\ B[Len(B)] # g
      BY <1>1, <1>2, <1>5, <1>7, <1>8, <1>9, <2>2
    <3>3. Linked(nx2, pv2, B[Len(B)], l)
      BY <1>11, <3>1, <3>2, Kinds DEF Linked
    <3>4. Fst(B, l) = b /\ Lst(g, B) = B[Len(B)]
      BY <1>4, <1>8, <2>2
    <3> QED
      BY <1>11, <1>13, <3>3, <3>4 DEF Path, Linked
  <2> QED
    BY <2>1, <2>2
<1>17. Path(nx2, pv2, a, R, b)
  BY <1>5, <1>11, <1>14 DEF Path, Linked
<1>18. Path(nx2, pv2, a, R \o B, l)
  <2>1. Lst(a, R) = g /\ Fst(B, l) = b
    BY <1>4, <1>5
  <2> QED
    BY <1>1, <1>16, <1>17, <2>1, PathConcat
<1>19. Path(nx2, pv2, l, A \o (R \o B), l)
  <2>1. Fst(R \o B, l) = f
    <3>1. Fst(R \o B, l) = Fst(R, Fst(B, l))
      BY <1>1, EndsConcat, ZenonT(30)
    <3> QED
      BY <1>5, <3>1
  <2>2. Lst(l, A) = a
    BY <1>4
  <2> QED
    BY <1>2, <1>15, <1>18, <2>1, <2>2, PathConcat
<1>20. /\ q2 \in [ListObject -> Seq(Node)] /\ q2[l] = A \o (R \o B)
       /\ \A m \in ListObject : m # l => q2[m] = q[m]
  BY <1>1, <1>2, <1>10
<1>21. \A m \in ListObject : /\ m # l => Range(q[m]) \cap Range(q[l]) = {}
                             /\ IsInjective(q[m]) /\ Range(q[m]) \cap Range(R) = {}
  BY DEF Shape, Apart
<1>22. << >> \in Seq(Node) /\ IsInjective(<< >>) /\ Range(<< >>) = {}
  BY EmptyFacts
<1>23. Apart(q2, << >>)
  <2>1. \A h \in ListObject : IsInjective(q2[h]) /\ Range(q2[h]) \cap Range(<< >>) = {}
    BY <1>2, <1>20, <1>21, <1>22
  <2>2. Range(q2[l]) = Range(q[l]) \cup Range(R)
    BY <1>2, <1>20
  <2>3. \A h, m \in ListObject : h # m => Range(q[h]) \cap Range(q[m]) = {}
    BY DEF Shape, Apart
  <2>4. \A h, m \in ListObject : h # m => Range(q2[h]) \cap Range(q2[m]) = {}
    BY <1>20, <1>21, <2>2, <2>3
  <2> QED
    BY <1>20, <1>22, <2>1, <2>4 DEF Apart
<1>24. ASSUME NEW m \in ListObject, m # l
       PROVE  Path(nx2, pv2, m, q2[m], m)
  <2>1. Path(nx, pv, m, q[m], m) /\ q[m] \in Seq(Node) /\ Range(q[m]) \subseteq Node
    BY <1>1, SeqFacts DEF Shape
  <2>2. m \notin Node /\ m \in Place
    BY Kinds
  <2>3. \A p \in {m} \cup Range(q[m]) : p \in Place /\ p # a /\ p # b /\ p # f /\ p # g
    BY <1>2, <1>5, <1>7, <1>9, <1>21, <1>24, <2>1, <2>2, Kinds
  <2>4. Path(nx2, pv2, m, q[m], m)
    <3>1. \A p \in {m} \cup Range(q[m]) : nx2[p] = nx[p] /\ pv2[p] = pv[p]
      BY <1>11, <2>3
    <3> HIDE <1>11
    <3> QED
      BY <2>1, <3>1, PathFrame
  <2> QED
    BY <1>20, <1>24, <2>4
<1>25. \A n \in Node : Used(q2, << >>, n) \/ (nx2[n] = NULL /\ pv2[n] = NULL)
  <2> SUFFICES ASSUME NEW n \in Node, ~Used(q2, << >>, n)
               PROVE  nx2[n] = NULL /\ pv2[n] = NULL
    OBVIOUS
  <2>1. \A h \in ListObject : n \notin Range(q2[h])
    BY DEF Used
  <2>2. n \notin Range(R) /\ n \notin Range(A) /\ n \notin Range(B)
        /\ \A h \in ListObject : n \notin Range(q[h])
    BY <1>2, <1>20, <2>1
  <2>3. nx[n] = NULL /\ pv[n] = NULL
    BY <2>2 DEF Shape, Used
  <2>4. n # a /\ n # b /\ n # f /\ n # g /\ n \in Place
    BY <1>5, <1>9, <2>2, Kinds
  <2> QED
    BY <1>11, <2>3, <2>4
<1>26. Inner(nx2, pv2, << >>)
  <2>1. 1..(Len(<< >>) - 1) = {}
    BY EmptySeq
  <2> QED
    BY <2>1 DEF Inner
<1>27. Shape(nx2, pv2, q2, << >>)
  BY <1>11, <1>19, <1>20, <1>23, <1>24, <1>25, <1>26 DEF Shape
<1> QED
  BY <1>4, <1>6, <1>10, <1>27

\* Give the nodes R, which are in no list, back.
LEMMA FreeKeeps ==
    ASSUME NEW nx, NEW pv, NEW q, NEW R, Shape(nx, pv, q, R)
    PROVE  Shape([p \in Place |-> IF p \in Range(R) THEN NULL ELSE nx[p]],
                 [p \in Place |-> IF p \in Range(R) THEN NULL ELSE pv[p]], q, << >>)
<1>1. /\ q \in [ListObject -> Seq(Node)] /\ R \in Seq(Node)
      /\ nx \in [Place -> Place \cup {NULL}] /\ pv \in [Place -> Place \cup {NULL}]
      /\ \A l \in ListObject : /\ Path(nx, pv, l, q[l], l) /\ IsInjective(q[l])
                               /\ Range(q[l]) \cap Range(R) = {}
      /\ \A l, m \in ListObject : l # m => Range(q[l]) \cap Range(q[m]) = {}
  BY DEF Shape, Apart
<1>2. PICK nx2, pv2 : /\ nx2 = [p \in Place |-> IF p \in Range(R) THEN NULL ELSE nx[p]]
                      /\ pv2 = [p \in Place |-> IF p \in Range(R) THEN NULL ELSE pv[p]]
  OBVIOUS
<1>3. /\ nx2 \in [Place -> Place \cup {NULL}] /\ pv2 \in [Place -> Place \cup {NULL}]
      /\ \A p \in Place : p \notin Range(R) => nx2[p] = nx[p] /\ pv2[p] = pv[p]
      /\ \A p \in Place : p \in Range(R) => nx2[p] = NULL /\ pv2[p] = NULL
  BY <1>1, <1>2
<1>4. << >> \in Seq(Node) /\ IsInjective(<< >>) /\ Range(<< >>) = {}
  BY EmptyFacts
<1>5. Apart(q, << >>)
  BY <1>1, <1>4 DEF Apart
<1>6. Inner(nx2, pv2, << >>)
  <2>1. 1..(Len(<< >>) - 1) = {}
    BY EmptySeq
  <2> QED
    BY <2>1 DEF Inner
<1>7. ASSUME NEW m \in ListObject
      PROVE  Path(nx2, pv2, m, q[m], m)
  <2>1. /\ Path(nx, pv, m, q[m], m) /\ q[m] \in Seq(Node) /\ Range(q[m]) \subseteq Node
        /\ Range(R) \subseteq Node /\ Range(q[m]) \cap Range(R) = {}
    BY <1>1, SeqFacts
  <2>2. \A p \in {m} \cup Range(q[m]) : p \in Place /\ p \notin Range(R)
    BY <2>1, Kinds
  <2>3. \A p \in {m} \cup Range(q[m]) : nx2[p] = nx[p] /\ pv2[p] = pv[p]
    BY <1>3, <2>2
  <2> QED
    BY <2>1, <2>3, PathFrame
<1>8. \A n \in Node : Used(q, << >>, n) \/ (nx2[n] = NULL /\ pv2[n] = NULL)
  BY <1>3, <1>4, Kinds DEF Shape, Used
<1> QED
  BY <1>2, <1>3, <1>5, <1>6, <1>7, <1>8 DEF Shape

-----------------------------------------------------------------------------
\* The first j nodes of t
Beginning(t, j) == SubSeq(t, 1, j)

\* Beginning(t, j) grows by one node at a time to all of t.
LEMMA Fronts ==
    ASSUME NEW t \in Seq(Node), NEW j \in 0..Len(t)
    PROVE  /\ Beginning(t, j) \in Seq(Node) /\ Len(Beginning(t, j)) = j
           /\ \A i \in 1..j : Beginning(t, j)[i] = t[i]
           /\ j < Len(t) => Beginning(t, j + 1) = Append(Beginning(t, j), t[j + 1])
           /\ Beginning(t, 0) = << >> /\ Beginning(t, Len(t)) = t
<1>1. Len(t) \in Nat /\ \A i \in 1..Len(t) : t[i] \in Node
  BY SeqFacts
<1>2. /\ SubSeq(t, 1, j) \in Seq(Node)
      /\ Len(SubSeq(t, 1, j)) = IF 1 <= j THEN j - 1 + 1 ELSE 0
      /\ \A i \in 1..(j - 1 + 1) : SubSeq(t, 1, j)[i] = t[1 + i - 1]
  <2>1. 1 \in Int /\ j \in Int /\ \A i \in 1..j : t[i] \in Node
    BY <1>1
  <2> QED
    BY <2>1, SubSeqProperties
<1>3. Beginning(t, j) \in Seq(Node) /\ Len(Beginning(t, j)) = j /\ \A i \in 1..j : Beginning(t, j)[i] = t[i]
  BY <1>1, <1>2 DEF Beginning
<1>4. ASSUME j < Len(t)
      PROVE  Beginning(t, j + 1) = Append(Beginning(t, j), t[j + 1])
  <2>1. 1 \in 1..Len(t) /\ j + 1 \in 1..Len(t) /\ j + 1 - 1 = j /\ t[j + 1] \in Node
    BY <1>1, <1>4
  <2>2. SubSeq(t, 1, j + 1) = SubSeq(t, 1, j + 1 - 1) \o << t[j + 1] >>
    BY <2>1, SubSeqRecursiveSecond
  <2>3. Append(Beginning(t, j), t[j + 1]) = Beginning(t, j) \o << t[j + 1] >>
    BY <1>3, <2>1, AppendIsConcat
  <2> QED
    BY <2>1, <2>2, <2>3 DEF Beginning
<1>5. Beginning(t, 0) = << >>
  BY SubSeqEmpty DEF Beginning
<1>6. Beginning(t, Len(t)) = t
  BY SubSeqFull DEF Beginning
<1> QED
  BY <1>3, <1>4, <1>5, <1>6

\* No list is longer than the number of nodes.
LEMMA NodesAreFew ==
    ASSUME NEW t \in Seq(Node), IsInjective(t)
    PROVE  longest \in Nat /\ Len(t) <= longest
<1>1. Len(t) \in Nat /\ \A i \in 1..Len(t) : t[i] \in Node
  BY SeqFacts
<1>2. IsFiniteSet(Node) /\ Cardinality(Node) \in Nat
  BY StlListAssumption, FS_CardinalityType
<1>3. PICK n \in Nat : n = Len(t)
  BY <1>1
<1>4. PICK S : S = 1..n
  OBVIOUS
<1>5. IsFiniteSet(S) /\ Cardinality(S) = n
  <2>1. IsFiniteSet(1..n) /\ Cardinality(1..n) = IF 1 > n THEN 0 ELSE n - 1 + 1
    BY FS_Interval
  <2> QED
    BY <1>4, <2>1
<1>6. [i \in S |-> t[i]] \in Injection(S, Node)
  <2>1. \A i \in S : t[i] \in Node
    BY <1>1, <1>3, <1>4
  <2>2. \A i, j \in S : t[i] = t[j] => i = j
    BY <1>3, <1>4, SeqFacts DEF IsInjective
  <2> QED
    BY <2>1, <2>2 DEF Injection, IsInjective
<1>7. Cardinality(S) <= Cardinality(Node)
  BY <1>2, <1>5, <1>6, FS_Injection
<1> QED
  BY <1>2, <1>3, <1>5, <1>7 DEF longest

\* What a loop over a ring sees
LEMMA ContentsOf ==
    ASSUME NEW l \in ListObject, NEW t \in Seq(Node), IsInjective(t), NEW pv, Path(next, pv, l, t, l)
    PROVE  contents(l) = t
<1>1. PICK n \in Nat : n = Len(t) /\ n <= longest /\ longest \in Nat
  BY SeqFacts, NodesAreFew
<1> DEFINE min(k) == IF k < n THEN k ELSE n
           f(k) == Beginning(t, min(k))
           go(before) ==
               LET p == next[IF before = << >> THEN l ELSE before[Len(before)]]
               IN  IF p \in {end(l), NULL} THEN before ELSE Append(before, p)
           step(e, k) == IF k = 0 THEN << >> ELSE go(e[k - 1])
           is_seen(e) == e = [k \in 0..(longest + 1) |-> step(e, k)]
<1>2. \A j \in 0..n : Beginning(t, j) = << >> <=> j = 0
  BY <1>1, Fronts, EmptySeq
<1>3. ASSUME NEW j \in 0..n
      PROVE  next[IF Beginning(t, j) = << >> THEN l ELSE Beginning(t, j)[Len(Beginning(t, j))]]
                = IF j = n THEN l ELSE t[j + 1]
  <2>1. CASE j = 0 /\ n = 0
    <3>1. t = << >>
      BY <1>1, <2>1, SeqFacts
    <3> QED
      BY <1>2, <2>1, <3>1 DEF Path, Linked, Fst
  <2>2. CASE j = 0 /\ n # 0
    <3>1. t # << >>
      BY <1>1, <2>2, SeqFacts
    <3> QED
      BY <1>2, <2>2, <3>1 DEF Path, Linked, Fst
  <2>3. CASE j # 0
    <3>1. /\ Beginning(t, j) # << >> /\ j \in 1..j /\ Len(Beginning(t, j)) = j /\ Beginning(t, j)[j] = t[j]
          /\ t # << >>
      BY <1>1, <1>2, <2>3, Fronts, SeqFacts
    <3>2. CASE j = n
      BY <1>1, <3>1, <3>2 DEF Path, Linked, Lst
    <3>3. CASE j # n
      <4>1. j \in 1..(Len(t) - 1)
        BY <1>1, <2>3, <3>3
      <4>2. next[t[j]] = t[j + 1]
        BY <4>1 DEF Path, Inner, Linked
      <4> QED
        BY <3>1, <3>3, <4>2
    <3> QED
      BY <3>2, <3>3
  <2> QED
    BY <2>1, <2>2, <2>3
<1>4. ASSUME NEW j \in 0..n
      PROVE  go(Beginning(t, j)) = IF j = n THEN Beginning(t, n) ELSE Beginning(t, j + 1)
  <2>1. j # n => /\ j < Len(t) /\ t[j + 1] \in Node /\ t[j + 1] \notin {end(l), NULL}
                 /\ Beginning(t, j + 1) = Append(Beginning(t, j), t[j + 1])
    <3>1. j # n => j + 1 \in 1..Len(t) /\ j < Len(t)
      BY <1>1
    <3>2. l \notin Node /\ NULL \notin Node
      BY Kinds
    <3>3. j # n => t[j + 1] \in Node
      BY <3>1, SeqFacts
    <3> QED
      BY <1>1, <3>1, <3>2, <3>3, Fronts DEF end
  <2> QED
    BY <1>3, <2>1 DEF end
<1> HIDE DEF go
<1>5. \A k \in Nat : k # 0 => go(f(k - 1)) = f(k)
  <2> SUFFICES ASSUME NEW k \in Nat, k # 0
               PROVE  go(f(k - 1)) = f(k)
    OBVIOUS
  <2>1. CASE k - 1 < n
    <3>1. k - 1 \in 0..n /\ k - 1 # n /\ min(k - 1) = k - 1 /\ min(k) = k - 1 + 1
      BY <2>1
    <3> QED
      BY <1>4, <3>1
  <2>2. CASE ~(k - 1 < n)
    <3>1. n \in 0..n /\ min(k - 1) = n /\ min(k) = n
      BY <2>2
    <3> QED
      BY <1>4, <3>1
  <2> QED
    BY <2>1, <2>2
<1>6. f(0) = << >> /\ f(longest + 1) = t
  <2>1. min(0) = 0 /\ min(longest + 1) = n /\ 0 \in 0..Len(t)
    BY <1>1
  <2> QED
    BY <1>1, <2>1, Fronts
<1> HIDE DEF f
<1>7. \E e : is_seen(e)
  <2>1. PICK e : e = [k \in 0..(longest + 1) |-> f(k)]
    OBVIOUS
  <2>2. \A k \in 0..(longest + 1) : f(k) = step(e, k)
    <3> SUFFICES ASSUME NEW k \in 0..(longest + 1)
                 PROVE  f(k) = step(e, k)
      OBVIOUS
    <3>1. CASE k = 0
      BY <1>6, <3>1
    <3>2. CASE k # 0
      <4>1. k - 1 \in 0..(longest + 1) /\ k \in Nat
        BY <1>1, <3>2
      <4>2. e[k - 1] = f(k - 1)
        BY <2>1, <4>1
      <4>3. step(e, k) = go(f(k - 1))
        BY <3>2, <4>2
      <4> QED
        BY <1>5, <3>2, <4>1, <4>3
    <3> QED
      BY <3>1, <3>2
  <2>3. e = [k \in 0..(longest + 1) |-> step(e, k)]
    <3> HIDE DEF step
    <3> QED
      BY <2>1, <2>2
  <2> QED
    BY <2>3
<1>8. contents(l) = (CHOOSE e : is_seen(e))[longest + 1]
  BY DEF contents, go
<1>9. PICK e : is_seen(e) /\ contents(l) = e[longest + 1]
  <2> HIDE DEF is_seen
  <2> QED
    BY <1>7, <1>8
<1>10. \A k \in 0..(longest + 1) : e[k] = step(e, k)
  <2> HIDE DEF step
  <2> QED
    BY <1>9
<1>11. \A k \in 0..(longest + 1) : e[k] = f(k)
  <2> DEFINE S == {k \in Nat : k <= longest + 1 => e[k] = f(k)}
  <2>1. 0 \in S
    BY <1>1, <1>6, <1>10
  <2>2. ASSUME NEW k \in Nat, k \in S
        PROVE  k + 1 \in S
    <3> SUFFICES ASSUME k + 1 <= longest + 1
                 PROVE  e[k + 1] = f(k + 1)
      OBVIOUS
    <3>1. /\ k <= longest + 1 /\ k + 1 \in 0..(longest + 1) /\ k + 1 # 0 /\ k + 1 - 1 = k
          /\ k + 1 \in Nat
      BY <1>1
    <3>2. e[k] = f(k)
      BY <2>2, <3>1
    <3>3. e[k + 1] = step(e, k + 1)
      <4> HIDE DEF step
      <4> QED
        BY <1>10, <3>1
    <3>4. e[k + 1] = go(e[k])
      BY <3>1, <3>3
    <3>5. go(f(k + 1 - 1)) = f(k + 1)
      BY <1>5, <3>1
    <3> QED
      BY <3>1, <3>2, <3>4, <3>5
  <2>3. \A k \in Nat : k \in S
    <3> HIDE DEF S
    <3> QED
      BY <2>1, <2>2, NumberInduction
  <2> QED
    BY <1>1, <2>3
<1>12. longest + 1 \in 0..(longest + 1)
  BY <1>1
<1> QED
  BY <1>6, <1>9, <1>11, <1>12

-----------------------------------------------------------------------------
\* What is left of a sequence, element by element

\* A node put behind a sequence
LEMMA Appended ==
    ASSUME NEW s \in Seq(Node), NEW t \in Seq(Node), NEW n \in Node
    PROVE  /\ << n >> \in Seq(Node) /\ Append(t, n) \in Seq(Node) /\ Append(t, n) = t \o << n >>
           /\ Len(Append(t, n)) = Len(t) + 1 /\ Append(t, n)[Len(t) + 1] = n
           /\ \A i \in 1..Len(t) : Append(t, n)[i] = t[i]
           /\ s \o Append(t, n) = Append(s \o t, n)
           /\ Range(<< n >>) = {n} /\ Len(<< n >>) = 1 /\ << n >>[1] = n /\ << n >> # << >>
           /\ IsInjective(<< n >>)
<1>1. /\ Append(t, n) \in Seq(Node) /\ Append(t, n) = t \o << n >>
      /\ Len(Append(t, n)) = Len(t) + 1 /\ Append(t, n)[Len(t) + 1] = n
      /\ \A i \in 1..Len(t) : Append(t, n)[i] = t[i]
  BY AppendProperties, AppendIsConcat
<1>2. << n >> \in Seq(Node) /\ Len(<< n >>) = 1 /\ << n >>[1] = n /\ << n >> # << >>
  OBVIOUS
<1>3. s \o Append(t, n) = Append(s \o t, n)
  <2>1. s \o t \in Seq(Node)
    BY ConcatFacts
  <2>2. Append(s \o t, n) = (s \o t) \o << n >>
    BY <2>1, AppendIsConcat
  <2> QED
    BY <1>1, <1>2, <2>2, Associative
<1>4. Range(<< n >>) = {n} /\ IsInjective(<< n >>)
  <2>1. DOMAIN << n >> = {1}
    BY <1>2, SeqFacts
  <2> QED
    BY <1>2, <2>1 DEF Range, IsInjective
<1> QED
  BY <1>1, <1>2, <1>3, <1>4

keep(e, t, S, k) ==
    IF k = 0 THEN << >> ELSE IF t[k] \in S THEN e[k - 1] ELSE Append(e[k - 1], t[k])

is_kept(e, t, S) == e = [k \in 0..Len(t) |-> keep(e, t, S, k)]

\* The recursion of without() has a value for every sequence.
LEMMA KeptExists ==
    ASSUME NEW t \in Seq(Node), NEW S
    PROVE  \E e : is_kept(e, t, S)
<1>1. Len(t) \in Nat
  BY SeqFacts
<1> DEFINE P(n) == \E e : e = [k \in 0..n |-> keep(e, t, S, k)]
           W == {n \in Nat : P(n)}
<1>2. 0 \in W
  <2>1. PICK e : e = [k \in 0..0 |-> << >>]
    OBVIOUS
  <2>2. \A k \in 0..0 : keep(e, t, S, k) = << >>
    BY DEF keep
  <2> QED
    BY <2>1, <2>2
<1>3. ASSUME NEW n \in Nat, n \in W
      PROVE  n + 1 \in W
  <2>1. PICK e : e = [k \in 0..n |-> keep(e, t, S, k)]
    BY <1>3
  <2>2. PICK f : f = [k \in 0..(n + 1) |-> IF k <= n THEN e[k] ELSE keep(e, t, S, n + 1)]
    OBVIOUS
  <2>3. \A k \in 0..(n + 1) : f[k] = keep(f, t, S, k)
    <3> SUFFICES ASSUME NEW k \in 0..(n + 1)
                 PROVE  f[k] = keep(f, t, S, k)
      OBVIOUS
    <3>1. CASE k = 0
      BY <2>1, <2>2, <3>1 DEF keep
    <3>2. CASE k # 0
      <4>1. k - 1 \in 0..n /\ k - 1 \in 0..(n + 1) /\ k - 1 <= n
        BY <3>2
      <4>2. f[k - 1] = e[k - 1]
        BY <2>2, <4>1
      <4>3. keep(f, t, S, k) = keep(e, t, S, k)
        BY <3>2, <4>2 DEF keep
      <4>4. k \in 0..n => e[k] = keep(e, t, S, k)
        <5> HIDE DEF keep
        <5> QED
          BY <2>1
      <4>5. k \notin 0..n => k = n + 1 /\ ~(k <= n)
        OBVIOUS
      <4>6. k \in 0..n => k <= n
        OBVIOUS
      <4> QED
        BY <2>2, <4>3, <4>4, <4>5, <4>6
    <3> QED
      BY <3>1, <3>2
  <2>4. f = [k \in 0..(n + 1) |-> keep(f, t, S, k)]
    BY <2>2, <2>3
  <2> QED
    BY <2>4
<1>4. \A n \in Nat : n \in W
  <2> HIDE DEF W
  <2> QED
    BY <1>2, <1>3, NumberInduction
<1> QED
  BY <1>1, <1>4 DEF is_kept

\* without() keeps what its recursion keeps of each beginning.
LEMMA WithoutIs ==
    ASSUME NEW t \in Seq(Node), NEW S
    PROVE  \E e : /\ without(t, S) = e[Len(t)]
                  /\ \A k \in 0..Len(t) : e[k] = keep(e, t, S, k)
<1>1. without(t, S) = (CHOOSE e : is_kept(e, t, S))[Len(t)]
  BY DEF without, is_kept, keep
<1>2. is_kept((CHOOSE e : is_kept(e, t, S)), t, S)
  BY KeptExists
<1>3. PICK e : is_kept(e, t, S) /\ without(t, S) = e[Len(t)]
  BY <1>1, <1>2
<1>4. \A k \in 0..Len(t) : e[k] = keep(e, t, S, k)
  BY <1>3 DEF is_kept
<1> QED
  BY <1>3, <1>4

\* Nothing is left of nothing.
LEMMA WithoutEmpty == ASSUME NEW S PROVE without(<< >>, S) = << >>
<1>1. PICK t \in Seq(Node) : t = << >> /\ Len(t) = 0
  BY EmptyFacts
<1>2. PICK e : without(t, S) = e[Len(t)] /\ \A k \in 0..Len(t) : e[k] = keep(e, t, S, k)
  BY WithoutIs
<1>3. e[0] = keep(e, t, S, 0)
  BY <1>1, <1>2
<1> QED
  BY <1>1, <1>2, <1>3 DEF keep

\* without() decides about each node by itself.
LEMMA WithoutAppend ==
    ASSUME NEW t \in Seq(Node), NEW S, NEW n \in Node
    PROVE  without(Append(t, n), S) = IF n \in S THEN without(t, S) ELSE Append(without(t, S), n)
<1>2. PICK u : u = Append(t, n)
  OBVIOUS
<1>3. PICK m \in Nat : m = Len(t)
  BY SeqFacts
<1>4. /\ u \in Seq(Node) /\ Len(u) = m + 1 /\ u[m + 1] = n /\ \A i \in 1..m : u[i] = t[i]
  BY <1>2, <1>3, Appended
<1>5. PICK e : without(t, S) = e[m] /\ \A k \in 0..m : e[k] = keep(e, t, S, k)
  BY <1>3, WithoutIs
<1>6. PICK f : without(u, S) = f[m + 1] /\ \A k \in 0..(m + 1) : f[k] = keep(f, u, S, k)
  BY <1>4, WithoutIs
<1>7. \A k \in 0..m : f[k] = e[k]
  <2> DEFINE W == {k \in Nat : k <= m => f[k] = e[k]}
  <2>1. 0 \in W
    BY <1>3, <1>5, <1>6 DEF keep
  <2>2. ASSUME NEW k \in Nat, k \in W
        PROVE  k + 1 \in W
    <3> SUFFICES ASSUME k + 1 <= m
                 PROVE  f[k + 1] = e[k + 1]
      OBVIOUS
    <3>1. /\ k + 1 \in 0..m /\ k + 1 \in 0..(m + 1) /\ k + 1 \in 1..m /\ k + 1 # 0
          /\ k + 1 - 1 = k /\ k <= m
      BY <1>3
    <3>2. f[k] = e[k] /\ u[k + 1] = t[k + 1]
      BY <1>4, <2>2, <3>1
    <3>3. e[k + 1] = keep(e, t, S, k + 1) /\ f[k + 1] = keep(f, u, S, k + 1)
      BY <1>5, <1>6, <3>1
    <3> QED
      BY <3>1, <3>2, <3>3 DEF keep
  <2>3. \A k \in Nat : k \in W
    <3> HIDE DEF W
    <3> QED
      BY <2>1, <2>2, NumberInduction
  <2> QED
    BY <2>3
<1>8. f[m + 1] = IF n \in S THEN f[m] ELSE Append(f[m], n)
  <2>1. m + 1 \in 0..(m + 1) /\ m + 1 # 0 /\ m + 1 - 1 = m
    BY <1>3
  <2>2. f[m + 1] = keep(f, u, S, m + 1)
    BY <1>6, <2>1
  <2> QED
    BY <1>4, <2>1, <2>2 DEF keep
<1>9. f[m] = e[m]
  BY <1>3, <1>7
<1> QED
  BY <1>2, <1>5, <1>6, <1>8, <1>9

\* Induction along a sequence: T is the set of those of which the claim holds.
LEMMA SeqInduction ==
    ASSUME NEW T, << >> \in T,
           \A t \in Seq(Node), n \in Node : t \in T => Append(t, n) \in T
    PROVE  \A t \in Seq(Node) : t \in T
<1> SUFFICES ASSUME NEW t \in Seq(Node)
             PROVE  t \in T
  OBVIOUS
<1>1. Len(t) \in Nat /\ \A i \in 1..Len(t) : t[i] \in Node
  BY SeqFacts
<1> DEFINE W == {j \in Nat : j <= Len(t) => Beginning(t, j) \in T}
<1>2. 0 \in W
  <2>1. 0 \in 0..Len(t)
    BY <1>1
  <2> QED
    BY <2>1, Fronts
<1>3. ASSUME NEW j \in Nat, j \in W
      PROVE  j + 1 \in W
  <2> SUFFICES ASSUME j + 1 <= Len(t)
               PROVE  Beginning(t, j + 1) \in T
    OBVIOUS
  <2>1. j \in 0..Len(t) /\ j < Len(t) /\ j <= Len(t) /\ j + 1 \in 1..Len(t)
    BY <1>1
  <2>2. Beginning(t, j) \in T /\ Beginning(t, j) \in Seq(Node) /\ t[j + 1] \in Node
    BY <1>1, <1>3, <2>1, Fronts
  <2>3. Beginning(t, j + 1) = Append(Beginning(t, j), t[j + 1])
    BY <2>1, Fronts
  <2> QED
    BY <2>2, <2>3
<1>4. \A j \in Nat : j \in W
  <2> HIDE DEF W
  <2> QED
    BY <1>2, <1>3, NumberInduction
<1>5. Beginning(t, Len(t)) \in T /\ Len(t) \in 0..Len(t)
  BY <1>1, <1>4
<1> QED
  BY <1>5, Fronts

\* What remove and unique take out: it depends on the nodes of t only, part by part
LEMMA WithoutFacts ==
    ASSUME NEW S
    PROVE  \A t \in Seq(Node) :
              /\ without(t, S) \in Seq(Node)
              /\ Range(t) \cap S = {} => without(t, S) = t
              /\ Range(t) \subseteq S => without(t, S) = << >>
              /\ \A U : (\A n \in Range(t) : n \in S <=> n \in U) => without(t, U) = without(t, S)
              /\ \A s \in Seq(Node) : without(s, S) \in Seq(Node) =>
                    without(s \o t, S) = without(s, S) \o without(t, S)
<1> DEFINE P(t) ==
              /\ without(t, S) \in Seq(Node)
              /\ Range(t) \cap S = {} => without(t, S) = t
              /\ Range(t) \subseteq S => without(t, S) = << >>
              /\ \A U : (\A n \in Range(t) : n \in S <=> n \in U) => without(t, U) = without(t, S)
              /\ \A s \in Seq(Node) : without(s, S) \in Seq(Node) =>
                    without(s \o t, S) = without(s, S) \o without(t, S)
           T == {t \in Seq(Node) : P(t)}
<1>1. << >> \in T
  <2>1. \A s \in Seq(Node) : s \o << >> = s
    BY ConcatFacts, EmptyFacts
  <2>2. \A s \in Seq(Node) : without(s, S) \in Seq(Node) => without(s, S) \o << >> = without(s, S)
    BY <2>1
  <2> QED
    BY <2>1, <2>2, EmptyFacts, WithoutEmpty
<1>2. ASSUME NEW t \in Seq(Node), NEW n \in Node, t \in T
      PROVE  Append(t, n) \in T
  <2>1. Range(Append(t, n)) = Range(t) \cup {n} /\ Append(t, n) \in Seq(Node)
    <3>1. Append(t, n) = t \o << n >> /\ << n >> \in Seq(Node) /\ Range(<< n >>) = {n}
      BY Appended
    <3>2. PICK u \in Seq(Node) : u = << n >> /\ Range(u) = {n}
      BY <3>1
    <3>3. t \o u \in Seq(Node) /\ Range(t \o u) = Range(t) \cup Range(u)
      BY ConcatFacts
    <3> QED
      BY <3>1, <3>2, <3>3
  <2>2. \A U : without(Append(t, n), U) = IF n \in U THEN without(t, U) ELSE Append(without(t, U), n)
    BY WithoutAppend
  <2>3. without(t, S) \in Seq(Node)
    BY <1>2
  <2>4. Append(without(t, S), n) \in Seq(Node)
    BY <2>3, Appended
  <2>5. \A s \in Seq(Node) : without(s, S) \in Seq(Node) =>
                    without(s \o Append(t, n), S) = without(s, S) \o without(Append(t, n), S)
    <3> SUFFICES ASSUME NEW s \in Seq(Node), without(s, S) \in Seq(Node)
                 PROVE  without(s \o Append(t, n), S) = without(s, S) \o without(Append(t, n), S)
      OBVIOUS
    <3>1. s \o Append(t, n) = Append(s \o t, n) /\ s \o t \in Seq(Node)
      BY Appended, ConcatFacts
    <3>2. without(Append(s \o t, n), S)
             = IF n \in S THEN without(s \o t, S) ELSE Append(without(s \o t, S), n)
      <4>1. PICK u \in Seq(Node) : u = s \o t
        BY <3>1
      <4>2. without(Append(u, n), S) = IF n \in S THEN without(u, S) ELSE Append(without(u, S), n)
        BY WithoutAppend
      <4> QED
        BY <4>1, <4>2
    <3>3. without(s \o t, S) = without(s, S) \o without(t, S)
      BY <1>2
    <3>4. without(s, S) \o Append(without(t, S), n) = Append(without(s, S) \o without(t, S), n)
      BY <2>3, Appended
    <3> QED
      BY <2>2, <3>1, <3>2, <3>3, <3>4
  <2>6. Range(t) \cup {n} \subseteq S => without(Append(t, n), S) = << >>
    BY <1>2, <2>2
  <2>7. (Range(t) \cup {n}) \cap S = {} => without(Append(t, n), S) = Append(t, n)
    BY <1>2, <2>2
  <2>8. \A U : (\A p \in Range(t) \cup {n} : p \in S <=> p \in U) =>
                  without(Append(t, n), U) = without(Append(t, n), S)
    BY <1>2, <2>2
  <2> QED
    BY <2>1, <2>2, <2>3, <2>4, <2>5, <2>6, <2>7, <2>8
<1> HIDE DEF T
<1>3. \A t \in Seq(Node) : t \in T
  BY <1>1, <1>2, SeqInduction
<1> QED
  BY <1>3 DEF T

-----------------------------------------------------------------------------
\* A sequence of different nodes in two pieces

\* The two parts of A \o B, cut out of it again
LEMMA Pieces ==
    ASSUME NEW A \in Seq(Node), NEW B \in Seq(Node)
    PROVE  /\ SubSeq(A \o B, 1, Len(A)) = A
           /\ SubSeq(A \o B, Len(A) + 1, Len(A \o B)) = B
<1>1. PICK n \in Nat, m \in Nat : n = Len(A) /\ m = Len(B)
  BY SeqFacts
<1>2. PICK t \in Seq(Node) : t = A \o B
  BY ConcatFacts
<1>3. /\ Len(t) = n + m /\ \A i \in 1..n : t[i] = A[i]
      /\ \A i \in 1..m : t[i + n] = B[i]
      /\ \A i \in 1..(n + m) : t[i] \in Node
  BY <1>1, <1>2, ConcatFacts, SeqFacts
<1>4. SubSeq(t, 1, n) = A
  <2>1. 1 \in Int /\ n \in Int /\ \A i \in 1..n : t[i] \in Node
    BY <1>1, <1>3
  <2>2. /\ SubSeq(t, 1, n) \in Seq(Node) /\ Len(SubSeq(t, 1, n)) = IF 1 <= n THEN n - 1 + 1 ELSE 0
        /\ \A i \in 1..(n - 1 + 1) : SubSeq(t, 1, n)[i] = t[1 + i - 1]
    BY <2>1, SubSeqProperties
  <2>3. Len(SubSeq(t, 1, n)) = n /\ \A i \in 1..n : SubSeq(t, 1, n)[i] = A[i]
    BY <1>1, <1>3, <2>2
  <2> QED
    BY <1>1, <2>2, <2>3, SeqEqual
<1>5. SubSeq(t, n + 1, n + m) = B
  <2>1. n + 1 \in Int /\ n + m \in Int /\ \A i \in (n + 1)..(n + m) : t[i] \in Node
    BY <1>1, <1>3
  <2>2. /\ SubSeq(t, n + 1, n + m) \in Seq(Node)
        /\ Len(SubSeq(t, n + 1, n + m)) =
              IF n + 1 <= n + m THEN n + m - (n + 1) + 1 ELSE 0
        /\ \A i \in 1..(n + m - (n + 1) + 1) : SubSeq(t, n + 1, n + m)[i] = t[n + 1 + i - 1]
    BY <2>1, SubSeqProperties
  <2>3. n + m - (n + 1) + 1 = m /\ \A i \in 1..m : n + 1 + i - 1 = i + n
    BY <1>1
  <2>4. Len(SubSeq(t, n + 1, n + m)) = m
    BY <1>1, <2>2, <2>3
  <2>5. \A i \in 1..m : SubSeq(t, n + 1, n + m)[i] = B[i]
    <3> SUFFICES ASSUME NEW i \in 1..m
                 PROVE  SubSeq(t, n + 1, n + m)[i] = B[i]
      OBVIOUS
    <3>1. SubSeq(t, n + 1, n + m)[i] = t[n + 1 + i - 1]
      BY <2>2, <2>3
    <3> QED
      BY <1>3, <2>3, <3>1
  <2> QED
    BY <1>1, <2>2, <2>4, <2>5, SeqEqual
<1> QED
  BY <1>1, <1>2, <1>3, <1>4, <1>5

\* An iterator at the beginning of B inserts behind A.
LEMMA IndexOf ==
    ASSUME NEW A \in Seq(Node), NEW B \in Seq(Node), IsInjective(A \o B), NEW l \in ListObject
    PROVE  place_of(A \o B, Fst(B, l)) = Len(A) + 1
<1>1. PICK n \in Nat, m \in Nat : n = Len(A) /\ m = Len(B)
  BY SeqFacts
<1>2. PICK t \in Seq(Node) : t = A \o B
  BY ConcatFacts
<1>3. /\ Len(t) = n + m /\ \A i \in 1..m : t[i + n] = B[i]
      /\ DOMAIN t = 1..(n + m) /\ Range(t) = {t[i] : i \in 1..(n + m)}
  <2>1. Len(t) = n + m /\ \A i \in 1..m : t[i + n] = B[i]
    BY <1>1, <1>2, ConcatFacts
  <2>2. DOMAIN t = 1..Len(t) /\ Range(t) = {t[i] : i \in 1..Len(t)}
    BY SeqFacts
  <2> QED
    BY <2>1, <2>2
<1>4. CASE m = 0
  <2>1. Fst(B, l) = l /\ l \notin Range(t)
    BY <1>1, <1>4, SeqFacts, Kinds DEF Fst
  <2> QED
    BY <1>1, <1>2, <1>3, <1>4, <2>1 DEF place_of
<1>5. CASE m # 0
  <2>1. Fst(B, l) = B[1] /\ 1 \in 1..m /\ n + 1 \in 1..(n + m) /\ 1 + n = n + 1
    BY <1>1, <1>5, SeqFacts DEF Fst
  <2>2. t[n + 1] = B[1]
    BY <1>3, <2>1
  <2>3. \A k \in DOMAIN t : t[k] = B[1] => k = n + 1
    BY <1>2, <1>3, <2>1, <2>2 DEF IsInjective
  <2>4. (CHOOSE k \in DOMAIN t : t[k] = B[1]) = n + 1
    BY <1>3, <2>1, <2>2, <2>3
  <2> QED
    BY <1>1, <1>2, <1>3, <2>1, <2>2, <2>4 DEF place_of
<1> QED
  BY <1>1, <1>4, <1>5

\* insert_at() is a concatenation of three parts.
LEMMA InsertAtIs ==
    ASSUME NEW s, NEW k, NEW t
    PROVE  insert_at(s, k, t) = (SubSeq(s, 1, k - 1) \o t) \o SubSeq(s, k, Len(s))
BY DEF insert_at

\* What is inserted in front of B ends up between A and B.
LEMMA InsertedAt ==
    ASSUME NEW A \in Seq(Node), NEW B \in Seq(Node), IsInjective(A \o B), NEW l \in ListObject,
           NEW U \in Seq(Node)
    PROVE  insert_at(A \o B, place_of(A \o B, Fst(B, l)), U) = A \o (U \o B)
<1>1. place_of(A \o B, Fst(B, l)) = Len(A) + 1 /\ Len(A) \in Nat /\ Len(A) + 1 - 1 = Len(A)
  BY IndexOf, SeqFacts
<1>2. PICK s, k : s = A \o B /\ k = place_of(s, Fst(B, l))
  OBVIOUS
<1>3. k = Len(A) + 1 /\ k - 1 = Len(A)
  BY <1>1, <1>2
<1>4. SubSeq(s, 1, k - 1) = A /\ SubSeq(s, k, Len(s)) = B
  <2>1. SubSeq(A \o B, 1, Len(A)) = A /\ SubSeq(A \o B, Len(A) + 1, Len(A \o B)) = B
    BY Pieces
  <2> QED
    BY ONLY <1>2, <1>3, <2>1
<1>5. insert_at(s, k, U) = (A \o U) \o B
  BY <1>4, InsertAtIs
<1>6. insert_at(s, k, U) = A \o (U \o B)
  BY <1>5, Associative
<1> QED
  BY ONLY <1>2, <1>6, Zenon

\* t in two pieces of which the second begins at p, or has n in front of it
SplitsAt(t, l, p) == \E A \in Seq(Node), B \in Seq(Node) : t = A \o B /\ p = Fst(B, l)

SplitsAround(t, n) == \E A \in Seq(Node), B \in Seq(Node) : t = A \o (<< n >> \o B)

\* Every position of a list cuts it in two.
LEMMA SplitAt ==
    ASSUME NEW t \in Seq(Node), NEW l \in ListObject, NEW p
    PROVE  /\ p \in {l} \cup Range(t) => SplitsAt(t, l, p)
           /\ p \in Range(t) => SplitsAround(t, p) /\ p \in Node
<1>1. Len(t) \in Nat /\ \A i \in 1..Len(t) : t[i] \in Node
  BY SeqFacts
<1>2. ASSUME NEW k \in 1..Len(t), p = t[k]
      PROVE  \E A \in Seq(Node), B \in Seq(Node) :
                t = A \o (<< p >> \o B) /\ << p >> \in Seq(Node)
  <2>1. /\ 1 \in 1..(Len(t) + 1) /\ k - 1 \in (1 - 1)..Len(t) /\ Len(t) \in (k - 1)..Len(t)
        /\ k - 1 + 1 = k
    BY <1>1
  <2>2. SubSeq(t, 1, k - 1) \o SubSeq(t, k - 1 + 1, Len(t)) = SubSeq(t, 1, Len(t))
    BY <2>1, ConcatAdjacentSubSeq
  <2>3. k \in 1..(Len(t) + 1) /\ k \in (k - 1)..Len(t) /\ Len(t) \in k..Len(t)
    BY <1>1
  <2>4. SubSeq(t, k, k) \o SubSeq(t, k + 1, Len(t)) = SubSeq(t, k, Len(t))
    BY <2>3, ConcatAdjacentSubSeq
  <2>5. SubSeq(t, 1, k - 1) \in Seq(Node)
    <3>1. 1 \in Int /\ k - 1 \in Int /\ \A i \in 1..(k - 1) : t[i] \in Node
      BY <1>1
    <3> QED
      BY <3>1, SubSeqProperties
  <2>6. SubSeq(t, k + 1, Len(t)) \in Seq(Node)
    <3>1. k + 1 \in Int /\ Len(t) \in Int /\ \A i \in (k + 1)..Len(t) : t[i] \in Node
      BY <1>1
    <3> QED
      BY <3>1, SubSeqProperties
  <2>7. SubSeq(t, k, k) = << p >> /\ << p >> \in Seq(Node)
    <3>1. k \in Int /\ \A i \in k..k : t[i] \in Node
      BY <1>1
    <3>2. /\ SubSeq(t, k, k) \in Seq(Node) /\ Len(SubSeq(t, k, k)) = IF k <= k THEN k - k + 1 ELSE 0
          /\ \A i \in 1..(k - k + 1) : SubSeq(t, k, k)[i] = t[k + i - 1]
      BY <3>1, SubSeqProperties
    <3>3. k - k + 1 = 1 /\ 1 \in 1..1 /\ k + 1 - 1 = k
      OBVIOUS
    <3>4. Len(SubSeq(t, k, k)) = 1 /\ SubSeq(t, k, k)[1] = t[k]
      BY <3>2, <3>3
    <3>5. << p >> \in Seq(Node) /\ Len(<< p >>) = 1 /\ << p >>[1] = t[k]
      BY <1>1, <1>2
    <3>6. \A i \in 1..Len(<< p >>) : SubSeq(t, k, k)[i] = << p >>[i]
      BY <3>4, <3>5
    <3> QED
      BY <3>2, <3>4, <3>5, <3>6, SeqEqual
  <2>8. SubSeq(t, 1, Len(t)) = t
    BY SubSeqFull
  <2> QED
    BY <2>1, <2>2, <2>4, <2>5, <2>6, <2>7, <2>8
<1>3. p \in Range(t) =>
         \E A \in Seq(Node), B \in Seq(Node) : t = A \o (<< p >> \o B) /\ << p >> \in Seq(Node)
  <2>1. p \in Range(t) => \E k \in 1..Len(t) : p = t[k]
    BY SeqFacts
  <2> QED
    BY <1>2, <2>1, Zenon
<1>4. p \in Range(t) => \E A \in Seq(Node), B \in Seq(Node) : t = A \o B /\ p = Fst(B, l)
  <2> SUFFICES ASSUME p \in Range(t)
               PROVE  \E A \in Seq(Node), B \in Seq(Node) : t = A \o B /\ p = Fst(B, l)
    OBVIOUS
  <2>1. PICK A \in Seq(Node), B \in Seq(Node) : t = A \o (<< p >> \o B) /\ << p >> \in Seq(Node)
    BY <1>3
  <2>2. << p >> \o B \in Seq(Node) /\ Fst(<< p >> \o B, l) = Fst(<< p >>, Fst(B, l))
    <3>1. PICK u \in Seq(Node) : u = << p >>
      BY <2>1
    <3>2. u \o B \in Seq(Node) /\ Fst(u \o B, l) = Fst(u, Fst(B, l))
      BY ConcatFacts, EndsConcat, ZenonT(30)
    <3> QED
      BY <3>1, <3>2
  <2>3. Fst(<< p >>, Fst(B, l)) = p
    BY DEF Fst
  <2> QED
    BY <2>1, <2>2, <2>3
<1>5. p = l => \E A \in Seq(Node), B \in Seq(Node) : t = A \o B /\ p = Fst(B, l)
  <2>1. t = t \o << >> /\ << >> \in Seq(Node) /\ Fst(<< >>, l) = l
    BY EmptyFacts, ConcatFacts DEF Fst
  <2> QED
    BY <2>1
<1>6. p \in Range(t) => p \in Node
  BY SeqFacts
<1> QED
  BY <1>3, <1>4, <1>5, <1>6, Zenon DEF SplitsAt, SplitsAround

\* Where a sequence of different nodes is cut is where what follows begins.
LEMMA SamePieces ==
    ASSUME NEW A \in Seq(Node), NEW B \in Seq(Node), NEW C \in Seq(Node), NEW D \in Seq(Node),
           A \o B = C \o D, IsInjective(A \o B), NEW l \in ListObject, Fst(B, l) = Fst(D, l)
    PROVE  A = C /\ B = D
<1>1. place_of(A \o B, Fst(B, l)) = Len(A) + 1 /\ place_of(A \o B, Fst(B, l)) = Len(C) + 1
  BY IndexOf
<1>2. Len(A) = Len(C)
  <2>1. Len(A) \in Nat /\ Len(C) \in Nat
    BY SeqFacts
  <2> QED
    BY <1>1, <2>1
<1>3. SubSeq(A \o B, 1, Len(A)) = A /\ SubSeq(A \o B, Len(A) + 1, Len(A \o B)) = B
  BY Pieces
<1>4. SubSeq(C \o D, 1, Len(C)) = C /\ SubSeq(C \o D, Len(C) + 1, Len(C \o D)) = D
  BY Pieces
<1> QED
  BY ONLY <1>2, <1>3, <1>4, A \o B = C \o D, Zenon

-----------------------------------------------------------------------------
\* What the loops keep true of the rings: q is what the lists hold, without
\* a look at the pointers.

\* The order that the list W puts its nodes in
Lt(W, a, b) == \E i, j \in 1..Len(W) : i < j /\ a = W[i] /\ b = W[j]

Before(W, s, t) == \A a \in Range(s), b \in Range(t) : Lt(W, a, b)

Ascends(W, t) == \A i, j \in 1..Len(t) : i < j => Lt(W, t[i], t[j])

\* W keeps equal elements in the order in which s and t have them.
Stable(W, s, t) == \A a \in Range(s), b \in Range(t) : data[a] = data[b] => Lt(W, a, b)

InOrder(W, t) == \A i, j \in 1..Len(t) : i < j /\ data[t[i]] = data[t[j]] => Lt(W, t[i], t[j])

\* W is sorted by its elements.
Goal(W) ==
    /\ W \in Seq(Node) /\ IsInjective(W)
    /\ \A i, j \in 1..Len(W) : i < j => data[W[i]] <= data[W[j]]

InUse(q) == \A n \in Node : data[n] = NULL <=> ~Used(q, << >>, n)

Holds(q) == Shape(next, prev, q, << >>) /\ InUse(q)

Others(q, S) == \A l \in Object \ S : q[l] = want[l]

Spare(q) == \A t \in Temporary : q[t] = << >>

Idle(q) == Holds(q) /\ pc = "idle" /\ local = no_local /\ Others(q, {}) /\ Spare(q)

Having(v) == {n \in Node : data[n] = v}

\* remove: K stays, T is still to be looked at.
RemovesAt(q, l, v, K, T) ==
    /\ local = [no_local EXCEPT !.this = l, !.first = Fst(T, l), !.value = v]
    /\ q[l] = K \o T /\ want[l] = K \o without(T, Having(v))

Removing(q) ==
    /\ Holds(q) /\ pc = "remove" /\ Spare(q)
    /\ \E l \in Object, v \in Key : Others(q, {l}) /\
          \E K \in Seq(Node), T \in Seq(Node) : RemovesAt(q, l, v, K, T)

\* unique: f is the last one that stays so far.
UniqueAt(q, l, f, K, T) ==
    /\ local = [no_local EXCEPT !.this = l, !.first = f]
    /\ q[l] = K \o (<< f >> \o T)
    /\ want[l] = K \o without(<< f >> \o T, uniques(<< f >> \o T))

Uniquing(q) ==
    /\ Holds(q) /\ pc = "unique" /\ Spare(q)
    /\ \E l \in Object, f \in Node : Others(q, {l}) /\
          \E K \in Seq(Node), T \in Seq(Node) : UniqueAt(q, l, f, K, T)

\* reverse: in D the pointers nx and pv are exchanged.
Turned(nx, pv, D) ==
    /\ next = [p \in Place |-> IF p \in D THEN pv[p] ELSE nx[p]]
    /\ prev = [p \in Place |-> IF p \in D THEN nx[p] ELSE pv[p]]

ReverseAt(nx, pv, q, l, K, T) ==
    /\ q[l] = K \o T /\ want[l] = reversed(q[l])
    /\ \/ K = << >> /\ Turned(nx, pv, {})
          /\ local = [no_local EXCEPT !.this = l, !.first = l]
       \/ T # << >> /\ Turned(nx, pv, {l} \cup Range(K))
          /\ local = [no_local EXCEPT !.this = l, !.first = T[1]]

Reversing(nx, pv, q) ==
    /\ Shape(nx, pv, q, << >>) /\ InUse(q) /\ pc = "reverse" /\ Spare(q)
    /\ \E l \in Object : Others(q, {l}) /\
          \E K \in Seq(Node), T \in Seq(Node) : ReverseAt(nx, pv, q, l, K, T)

\* merge: K is what is done of this, T and U are what is left of this and x.
MergeAt(q, W, K, T, U) ==
    /\ local.this # local.x
    /\ q[local.this] = K \o T /\ q[local.x] = U
    /\ local.first = Fst(T, local.this) /\ local.first2 = Fst(U, local.x)
    /\ Before(W, K, U)

Pair(q, W) ==
    /\ \E K \in Seq(Node), T \in Seq(Node), U \in Seq(Node) : MergeAt(q, W, K, T, U)
    /\ Goal(W) /\ Range(q[local.this]) \cup Range(q[local.x]) \subseteq Range(W)
    /\ Ascends(W, q[local.this]) /\ Ascends(W, q[local.x])
    /\ Stable(W, q[local.this], q[local.x])

Merging(q) ==
    /\ Holds(q) /\ pc = "merge" /\ local.ret = "idle" /\ local.fill = 0 /\ Spare(q)
    /\ local.this \in Object /\ local.x \in Object
    /\ Others(q, {local.this, local.x}) /\ want[local.x] = << >>
    /\ Pair(q, want[local.this])
    /\ Range(want[local.this]) = Range(q[local.this]) \cup Range(q[local.x])

\* sort: of the lists that hold the nodes of the goal the higher counters, the
\* lower ones, the carry and the list l itself follow each other in age.
Older(l, u, v) ==
    v \in {l, carry} \/ \E i, j \in 0..MaxFill : i < j /\ u = counter(j) /\ v = counter(i)

Ages(q, W, l) ==
    /\ InOrder(W, q[l])
    /\ \A t \in Temporary : Ascends(W, q[t])
    /\ \A u \in Temporary, v \in Temporary \cup {l} :
          u # v /\ Older(l, u, v) => Stable(W, q[u], q[v])

Sortable(q, W, l, fill) ==
    /\ Goal(W) /\ Range(W) = {n \in Node : \E m \in Temporary \cup {l} : n \in Range(q[m])}
    /\ Ages(q, W, l)
    /\ fill \in 0..(MaxFill + 1) /\ \A j \in 0..MaxFill : j >= fill => q[counter(j)] = << >>

Sorting(q) ==
    /\ Holds(q) /\ sortee \in Object /\ Others(q, {sortee})
    /\ Sortable(q, want[sortee], sortee, local.fill)

\* The counters below k are empty.
LowEmpty(q, k) == \A j \in 0..MaxFill : j < k => q[counter(j)] = << >>

Powers(q, S) == \A j \in 0..MaxFill : j \notin S => Len(q[counter(j)]) \in {0, power[j]}

Taking(q) ==
    /\ Sorting(q) /\ pc = "take" /\ q[carry] = << >> /\ Powers(q, {})
    /\ local.fill = 0 => q[sortee] # << >>

Carrying(q) ==
    /\ Sorting(q) /\ pc = "carry" /\ local.i \in 0..local.fill
    /\ Len(q[carry]) = power[local.i] /\ LowEmpty(q, local.i) /\ Powers(q, {})

CarryMerging(q) ==
    /\ Sorting(q) /\ pc = "merge" /\ local.ret = "carried" /\ local.i \in 0..(local.fill - 1)
    /\ local.this = counter(local.i) /\ local.x = carry /\ Pair(q, want[sortee])
    /\ Len(q[local.this]) + Len(q[carry]) = power[local.i + 1]
    /\ LowEmpty(q, local.i) /\ Powers(q, {local.i})

Carried(q) ==
    /\ Sorting(q) /\ pc = "carried" /\ local.i \in 0..(local.fill - 1)
    /\ q[carry] = << >> /\ Len(q[counter(local.i)]) = power[local.i + 1]
    /\ LowEmpty(q, local.i) /\ Powers(q, {local.i})

Collecting(q) ==
    /\ Sorting(q) /\ pc = "collect" /\ local.i \in 1..local.fill
    /\ q[carry] = << >> /\ q[sortee] = << >> /\ LowEmpty(q, local.i - 1)

CollectMerging(q) ==
    /\ Sorting(q) /\ pc = "merge" /\ local.ret = "collect" /\ local.i \in 2..local.fill
    /\ local.this = counter(local.i - 1) /\ local.x = counter(local.i - 2)
    /\ Pair(q, want[sortee])
    /\ q[carry] = << >> /\ q[sortee] = << >> /\ LowEmpty(q, local.i - 2)

Doing(q) ==
    \/ Idle(q) \/ Removing(q) \/ Uniquing(q) \/ Merging(q)
    \/ Taking(q) \/ Carrying(q) \/ CarryMerging(q) \/ Carried(q)
    \/ Collecting(q) \/ CollectMerging(q)

Locals == [this : ListObject \cup {NULL}, x : ListObject \cup {NULL},
           first : Place \cup {NULL}, first2 : Place \cup {NULL},
           value : Key \cup Object \cup {NULL}, i : Nat, fill : Nat,
           ret : {"idle", "carried", "collect"}]

Types ==
    /\ data \in [Node -> Key \cup {NULL}]
    /\ want \in [Object -> Seq(Node)]
    /\ local \in Locals

Loops == (\E q : Doing(q)) \/ (\E nx, pv, q : Reversing(nx, pv, q))

ListsInv == Types /\ Loops

-----------------------------------------------------------------------------
\* Where the ends of a piece of a list are
LEMMA EndsAre ==
    ASSUME NEW t \in Seq(Node), NEW p
    PROVE  Fst(t, p) \in {p} \cup Range(t) /\ Lst(p, t) \in {p} \cup Range(t)
BY Ends

\* Assignments to different places may be exchanged.
LEMMA Exchange ==
    ASSUME NEW S, NEW T, NEW f \in [S -> T], NEW a, NEW b, NEW c, NEW u, NEW v, NEW w, a # b
    PROVE  /\ [f EXCEPT ![a] = u, ![b] = v, ![c] = w] = [f EXCEPT ![b] = v, ![a] = u, ![c] = w]
           /\ a # c /\ b # c =>
                 [f EXCEPT ![a] = u, ![b] = v, ![c] = w] = [f EXCEPT ![b] = v, ![c] = w, ![a] = u]
OBVIOUS

\* The first node of [first, last) in front of position: a piece of one list is
\* put into another one, or elsewhere into the same.
LEMMA TransferKeeps ==
    ASSUME NEW q, Shape(next, prev, q, << >>), NEW x \in ListObject, NEW l \in ListObject,
           NEW A \in Seq(Node), NEW B \in Seq(Node),
           NEW C \in Seq(Node), NEW R \in Seq(Node), NEW D \in Seq(Node),
           q[x] = C \o (R \o D), R # << >>, NEW qc, qc = [q EXCEPT ![x] = C \o D],
           qc[l] = A \o B, transfer(Fst(B, l), R[1], Fst(D, x))
    PROVE  Shape(next', prev', [qc EXCEPT ![l] = A \o (R \o B)], << >>)
<1>1. PICK r1, rl, lc, fd, la, fb :
         r1 = R[1] /\ rl = R[Len(R)] /\ lc = Lst(x, C) /\ fd = Fst(D, x) /\ la = Lst(l, A) /\ fb = Fst(B, l)
  OBVIOUS
<1>2. /\ next[lc] = r1 /\ prev[r1] = lc /\ next[rl] = fd /\ prev[fd] = rl
      /\ Shape([next EXCEPT ![lc] = fd], [prev EXCEPT ![fd] = lc], qc, R)
  <2>1. /\ next[Lst(x, C)] = R[1] /\ prev[R[1]] = Lst(x, C)
        /\ next[R[Len(R)]] = Fst(D, x) /\ prev[Fst(D, x)] = R[Len(R)]
        /\ Shape([next EXCEPT ![Lst(x, C)] = Fst(D, x)], [prev EXCEPT ![Fst(D, x)] = Lst(x, C)],
                 [q EXCEPT ![x] = C \o D], R)
    BY CutKeeps
  <2> QED
    BY ONLY <1>1, <2>1, qc = [q EXCEPT ![x] = C \o D]
<1>3. PICK n1, p1 : n1 = [next EXCEPT ![lc] = fd] /\ p1 = [prev EXCEPT ![fd] = lc]
  OBVIOUS
<1>4. /\ n1[la] = fb /\ p1[fb] = la
      /\ Shape([n1 EXCEPT ![rl] = fb, ![la] = r1], [p1 EXCEPT ![r1] = la, ![fb] = rl],
               [qc EXCEPT ![l] = A \o (R \o B)], << >>)
  <2>1. Shape(n1, p1, qc, R)
    BY <1>2, <1>3
  <2>2. /\ n1[Lst(l, A)] = Fst(B, l) /\ p1[Fst(B, l)] = Lst(l, A)
        /\ Shape([n1 EXCEPT ![R[Len(R)]] = Fst(B, l), ![Lst(l, A)] = R[1]],
                 [p1 EXCEPT ![R[1]] = Lst(l, A), ![Fst(B, l)] = R[Len(R)]],
                 [qc EXCEPT ![l] = A \o (R \o B)], << >>)
    <3>1. /\ l \in ListObject /\ A \in Seq(Node) /\ B \in Seq(Node)
          /\ qc[l] = A \o B /\ R # << >>
      OBVIOUS
    <3> QED
      BY ONLY <2>1, <3>1, PasteKeeps
  <2> QED
    BY ONLY <1>1, <2>2
<1>5. /\ q \in [ListObject -> Seq(Node)] /\ qc \in [ListObject -> Seq(Node)]
      /\ next \in [Place -> Place \cup {NULL}] /\ prev \in [Place -> Place \cup {NULL}]
      /\ \A m \in ListObject : IsInjective(qc[m]) /\ Range(qc[m]) \cap Range(R) = {}
      /\ \A m, k \in ListObject : m # k => Range(qc[m]) \cap Range(qc[k]) = {}
  BY <1>2 DEF Shape, Apart
<1>6. CASE fb = fd
  <2>1. UNCHANGED << next, prev >>
    BY <1>1, <1>6 DEF transfer
  <2>2. qc[x] = C \o D
    BY <1>5
  <2>3. l = x
    <3>1. fb \in {l} \cup Range(B) /\ fd \in {x} \cup Range(D)
      BY <1>1, EndsAre
    <3>2. Range(B) \subseteq Node /\ Range(D) \subseteq Node
      BY SeqFacts
    <3>3. Range(A \o B) = Range(A) \cup Range(B) /\ Range(C \o D) = Range(C) \cup Range(D)
      BY ConcatFacts
    <3>4. PICK in_l, in_x : in_l = Range(qc[l]) /\ in_x = Range(qc[x])
      OBVIOUS
    <3>5. Range(B) \subseteq in_l /\ Range(D) \subseteq in_x
      BY ONLY <2>2, <3>3, <3>4, qc[l] = A \o B
    <3>6. l # x => in_l \cap in_x = {}
      BY <1>5, <3>4
    <3> QED
      BY ONLY <1>6, <3>1, <3>2, <3>5, <3>6, Kinds, l \in ListObject, x \in ListObject
  <2>4. A = C /\ B = D
    <3>1. A \o B = C \o D
      BY <2>2, <2>3
    <3>2. IsInjective(A \o B)
      BY ONLY <1>5, qc[l] = A \o B, l \in ListObject
    <3>3. Fst(B, l) = Fst(D, l)
      BY ONLY <1>1, <1>6, <2>3
    <3>4. l \in ListObject /\ A \in Seq(Node) /\ B \in Seq(Node) /\ C \in Seq(Node) /\ D \in Seq(Node)
      OBVIOUS
    <3> QED
      BY ONLY <3>1, <3>2, <3>3, <3>4, SamePieces
  <2>5. [qc EXCEPT ![l] = A \o (R \o B)] = q
    <3>1. PICK whole_list : whole_list = A \o (R \o B)
      OBVIOUS
    <3>2. q[x] = whole_list
      BY <2>4, <3>1
    <3>3. [qc EXCEPT ![l] = whole_list] = q
      BY <1>5, <2>3, <3>2
    <3> QED
      BY <3>1, <3>3
  <2> QED
    BY <2>1, <2>5
<1>7. CASE fb # fd
  <2>1. prev[fb] = la
    BY <1>3, <1>4, <1>5, <1>7
  <2>2. /\ next' = [next EXCEPT ![rl] = fb, ![lc] = fd, ![la] = r1]
        /\ prev' = [prev EXCEPT ![fb] = rl, ![fd] = lc, ![r1] = la]
    BY <1>1, <1>2, <1>7, <2>1 DEF transfer
  <2>3. /\ Range(qc[l]) = Range(A) \cup Range(B) /\ Range(qc[x]) = Range(C) \cup Range(D)
        /\ fb \in {l} \cup Range(B) /\ fd \in {x} \cup Range(D) /\ lc \in {x} \cup Range(C)
        /\ r1 \in Range(R) /\ rl \in Range(R) /\ Range(R) \subseteq Node
    <3>1. qc[x] = C \o D
      BY <1>5
    <3>2. fb \in {l} \cup Range(B) /\ fd \in {x} \cup Range(D) /\ lc \in {x} \cup Range(C)
      BY <1>1, EndsAre
    <3>3. r1 \in Range(R) /\ rl \in Range(R) /\ Range(R) \subseteq Node
      <4>1. r1 = Fst(R, x) /\ rl = Lst(x, R) /\ Fst(R, x) \in Range(R) /\ Lst(x, R) \in Range(R)
        BY <1>1, Ends
      <4> QED
        BY <4>1, SeqFacts
    <3>4. Range(A \o B) = Range(A) \cup Range(B) /\ Range(C \o D) = Range(C) \cup Range(D)
      BY ConcatFacts
    <3> QED
      BY ONLY <3>1, <3>2, <3>3, <3>4, qc[l] = A \o B
  <2>4. rl # lc /\ r1 # fb /\ r1 # fd
    BY <1>5, <2>3, Kinds
  <2>5. /\ next' = [n1 EXCEPT ![rl] = fb, ![la] = r1]
        /\ prev' = [p1 EXCEPT ![r1] = la, ![fb] = rl]
    <3>1. next' = [next EXCEPT ![lc] = fd, ![rl] = fb, ![la] = r1]
      BY <1>5, <2>2, <2>4, Exchange
    <3>2. prev' = [prev EXCEPT ![fd] = lc, ![r1] = la, ![fb] = rl]
      BY <1>5, <1>7, <2>2, <2>4, Exchange
    <3> QED
      BY <1>3, <3>1, <3>2
  <2> QED
    BY <1>4, <2>5
<1> QED
  BY <1>6, <1>7

\* A list of one node
LEMMA OneNode ==
    ASSUME NEW n \in Node
    PROVE  /\ << n >> \in Seq(Node) /\ Range(<< n >>) = {n} /\ << n >> # << >>
           /\ Len(<< n >>) = 1 /\ << n >>[1] = n /\ << n >>[Len(<< n >>)] = n /\ IsInjective(<< n >>)
<1>1. << >> \in Seq(Node)
  BY EmptyFacts
<1>2. << n >> \in Seq(Node) /\ Range(<< n >>) = {n} /\ Len(<< n >>) = 1 /\ << n >>[1] = n
      /\ << n >> # << >> /\ IsInjective(<< n >>)
  BY <1>1, Appended
<1> QED
  BY <1>2

\* The node n is between the places a and b.
Around(nx, pv, a, n, b) ==
    nx[a] = n /\ pv[n] = a /\ nx[n] = b /\ pv[b] = n

\* What a node in a ring is linked to: the end of A and the beginning of B
LEMMA Neighbours ==
    ASSUME NEW nx, NEW pv, NEW q, Shape(nx, pv, q, << >>), NEW l \in ListObject, NEW n \in Node,
           NEW A \in Seq(Node), NEW B \in Seq(Node), q[l] = A \o (<< n >> \o B)
    PROVE  Around(nx, pv, Lst(l, A), n, Fst(B, l))
<1>1. PICK R : R = << n >>
  OBVIOUS
<1>2. R \in Seq(Node) /\ R # << >> /\ R[1] = n /\ R[Len(R)] = n /\ q[l] = A \o (R \o B)
  BY <1>1, OneNode
<1>3. /\ Shape(nx, pv, q, << >>) /\ l \in ListObject /\ A \in Seq(Node) /\ B \in Seq(Node)
  OBVIOUS
<1>4. /\ nx[Lst(l, A)] = R[1] /\ pv[R[1]] = Lst(l, A)
      /\ nx[R[Len(R)]] = Fst(B, l) /\ pv[Fst(B, l)] = R[Len(R)]
      /\ Shape([nx EXCEPT ![Lst(l, A)] = Fst(B, l)], [pv EXCEPT ![Fst(B, l)] = Lst(l, A)],
               [q EXCEPT ![l] = A \o B], R)
  BY ONLY <1>2, <1>3, CutKeeps
<1> QED
  BY ONLY <1>2, <1>4 DEF Around

\* Whatever precedes or follows in a ring is a place.
LEMMA EndPlaces ==
    ASSUME NEW t \in Seq(Node), NEW l \in ListObject
    PROVE  Fst(t, l) \in Place /\ Lst(l, t) \in Place
<1>1. Lst(l, t) \in {l} \cup Range(t) /\ Fst(t, l) \in {l} \cup Range(t)
  BY EndsAre
<1>2. Range(t) \subseteq Place /\ l \in Place
  BY SeqFacts, Kinds
<1> QED
  BY <1>1, <1>2

\* The nodes in use are those with links, and those that some list holds.
LEMMA UsedMeans ==
    ASSUME NEW nx, NEW pv, NEW q, Shape(nx, pv, q, << >>), NEW n \in Node
    PROVE  /\ Used(q, << >>, n) <=> nx[n] # NULL
           /\ Used(q, << >>, n) <=> pv[n] # NULL
           /\ Used(q, << >>, n) <=> \E l \in ListObject : n \in Range(q[l])
<1>1. Used(q, << >>, n) <=> \E l \in ListObject : n \in Range(q[l])
  BY EmptyFacts DEF Used
<1>2. ~Used(q, << >>, n) => nx[n] = NULL /\ pv[n] = NULL
  BY DEF Shape
<1>3. Used(q, << >>, n) => nx[n] # NULL /\ pv[n] # NULL
  <2> SUFFICES ASSUME NEW l \in ListObject, n \in Range(q[l])
               PROVE  nx[n] # NULL /\ pv[n] # NULL
    BY <1>1
  <2>1. PICK t \in Seq(Node) : t = q[l]
    BY DEF Shape, Apart
  <2>2. SplitsAround(t, n)
    BY <2>1, SplitAt
  <2> PICK A \in Seq(Node), B \in Seq(Node) : t = A \o (<< n >> \o B)
    BY <2>2 DEF SplitsAround
  <2>3. Around(nx, pv, Lst(l, A), n, Fst(B, l))
    <3>1. q[l] = A \o (<< n >> \o B)
      BY <2>1
    <3> QED
      BY <3>1, Neighbours
  <2>4. Fst(B, l) # NULL /\ Lst(l, A) # NULL
    BY EndPlaces, Kinds
  <2> QED
    BY <2>3, <2>4 DEF Around
<1> QED
  BY <1>1, <1>2, <1>3

\* A node is put between two others.
LEMMA LinkKeeps ==
    ASSUME NEW q, Shape(next, prev, q, << >>), NEW l \in ListObject, NEW n \in Node, next[n] = NULL,
           NEW A \in Seq(Node), NEW B \in Seq(Node), q[l] = A \o B, link(n, Fst(B, l))
    PROVE  /\ Shape(next', prev', [q EXCEPT ![l] = A \o (<< n >> \o B)], << >>)
           /\ \A m \in ListObject : n \notin Range(q[m])
<1>1. PICK R : R = << n >>
  OBVIOUS
<1>2. R \in Seq(Node) /\ R # << >> /\ R[1] = n /\ R[Len(R)] = n /\ Range(R) = {n}
      /\ IsInjective(R) /\ Len(R) = 1
  BY <1>1, OneNode
<1>3. \A m \in ListObject : n \notin Range(q[m])
  BY UsedMeans
<1>4. Shape(next, prev, q, R)
  <2>1. Apart(q, R)
    BY <1>2, <1>3 DEF Apart, Shape
  <2>2. Inner(next, prev, R)
    BY <1>2 DEF Inner
  <2>3. \A m \in Node : Used(q, R, m) \/ (next[m] = NULL /\ prev[m] = NULL)
    BY EmptyFacts DEF Used, Shape
  <2> QED
    BY <2>1, <2>2, <2>3 DEF Shape
<1>5. l \in ListObject /\ A \in Seq(Node) /\ B \in Seq(Node) /\ q[l] = A \o B
  OBVIOUS
<1>6. /\ next[Lst(l, A)] = Fst(B, l) /\ prev[Fst(B, l)] = Lst(l, A)
      /\ Shape([next EXCEPT ![R[Len(R)]] = Fst(B, l), ![Lst(l, A)] = R[1]],
               [prev EXCEPT ![R[1]] = Lst(l, A), ![Fst(B, l)] = R[Len(R)]],
               [q EXCEPT ![l] = A \o (R \o B)], << >>)
  BY ONLY <1>2, <1>4, <1>5, PasteKeeps
<1>7. /\ next' = [next EXCEPT ![n] = Fst(B, l), ![prev[Fst(B, l)]] = n]
      /\ prev' = [prev EXCEPT ![n] = prev[Fst(B, l)], ![Fst(B, l)] = n]
  BY DEF link
<1>8. Shape(next', prev', [q EXCEPT ![l] = A \o (<< n >> \o B)], << >>)
  BY ONLY <1>1, <1>2, <1>6, <1>7
<1> QED
  BY <1>3, <1>8

\* A node is taken out of its list and freed.
LEMMA UnlinkKeeps ==
    ASSUME NEW q, Shape(next, prev, q, << >>), NEW l \in ListObject, NEW n \in Node,
           NEW A \in Seq(Node), NEW B \in Seq(Node), q[l] = A \o (<< n >> \o B), unlink(n)
    PROVE  Shape(next', prev', [q EXCEPT ![l] = A \o B], << >>)
<1>1. PICK R : R = << n >>
  OBVIOUS
<1>2. R \in Seq(Node) /\ R # << >> /\ R[1] = n /\ R[Len(R)] = n /\ Range(R) = {n}
      /\ q[l] = A \o (R \o B)
  BY <1>1, OneNode
<1>3. /\ Shape(next, prev, q, << >>) /\ l \in ListObject /\ A \in Seq(Node) /\ B \in Seq(Node)
  OBVIOUS
<1>4. PICK a, b : a = Lst(l, A) /\ b = Fst(B, l)
  OBVIOUS
<1>5. /\ next[a] = n /\ prev[n] = a /\ next[n] = b /\ prev[b] = n
      /\ Shape([next EXCEPT ![a] = b], [prev EXCEPT ![b] = a], [q EXCEPT ![l] = A \o B], R)
  <2>1. /\ next[Lst(l, A)] = R[1] /\ prev[R[1]] = Lst(l, A)
        /\ next[R[Len(R)]] = Fst(B, l) /\ prev[Fst(B, l)] = R[Len(R)]
        /\ Shape([next EXCEPT ![Lst(l, A)] = Fst(B, l)], [prev EXCEPT ![Fst(B, l)] = Lst(l, A)],
                 [q EXCEPT ![l] = A \o B], R)
    BY ONLY <1>2, <1>3, CutKeeps
  <2> QED
    BY ONLY <1>2, <1>4, <2>1
<1>6. PICK n1, p1, q1 : n1 = [next EXCEPT ![a] = b] /\ p1 = [prev EXCEPT ![b] = a]
                        /\ q1 = [q EXCEPT ![l] = A \o B]
  OBVIOUS
<1>7. Shape(n1, p1, q1, R)
  BY ONLY <1>5, <1>6
<1>8. Shape([p \in Place |-> IF p \in Range(R) THEN NULL ELSE n1[p]],
            [p \in Place |-> IF p \in Range(R) THEN NULL ELSE p1[p]], q1, << >>)
  BY ONLY <1>7, FreeKeeps
<1>9. /\ next' = [next EXCEPT ![a] = b, ![n] = NULL]
      /\ prev' = [prev EXCEPT ![b] = a, ![n] = NULL]
  BY <1>5 DEF unlink
<1>10. next \in [Place -> Place \cup {NULL}] /\ prev \in [Place -> Place \cup {NULL}] /\ n \in Place
  BY Kinds DEF Shape
<1>11. /\ next' = [p \in Place |-> IF p \in Range(R) THEN NULL ELSE n1[p]]
       /\ prev' = [p \in Place |-> IF p \in Range(R) THEN NULL ELSE p1[p]]
  BY ONLY <1>2, <1>6, <1>9, <1>10
<1> QED
  BY ONLY <1>6, <1>8, <1>11

\* All the nodes of a list are freed.
LEMMA ClearKeeps ==
    ASSUME NEW nx, NEW pv, NEW q, Shape(nx, pv, q, << >>), NEW l \in ListObject,
           NEW n2, n2 = [p \in Place |-> IF p = l THEN l ELSE IF p \in Range(q[l]) THEN NULL ELSE nx[p]],
           NEW p2, p2 = [p \in Place |-> IF p = l THEN l ELSE IF p \in Range(q[l]) THEN NULL ELSE pv[p]]
    PROVE  Shape(n2, p2, [q EXCEPT ![l] = << >>], << >>)
<1>1. /\ nx \in [Place -> Place \cup {NULL}] /\ pv \in [Place -> Place \cup {NULL}]
      /\ q \in [ListObject -> Seq(Node)] /\ l \in Place /\ Path(nx, pv, l, q[l], l)
  BY Kinds DEF Shape, Apart
<1>2. PICK R \in Seq(Node) : R = q[l]
  BY <1>1
<1>3. PICK none : none = << >>
  OBVIOUS
<1>4. /\ none \in Seq(Node) /\ Fst(none, l) = l /\ Lst(l, none) = l /\ none \o none = none
      /\ q[l] = none \o (R \o none) /\ Range(none) = {}
  <2>1. none \in Seq(Node) /\ Fst(none, l) = l /\ Lst(l, none) = l /\ Range(none) = {}
    BY <1>3, EmptyFacts DEF Fst, Lst
  <2>2. R \o none = R /\ none \o R = R /\ none \o none = none
    BY <1>3, <2>1, ConcatFacts
  <2> QED
    BY <1>2, <2>1, <2>2
<1>5. CASE R = << >>
  <2>1. nx[l] = l /\ pv[l] = l
    BY <1>1, <1>2, <1>5 DEF Path, Linked, Fst, Lst
  <2>2. Range(R) = {}
    BY <1>5, EmptyFacts
  <2>3. n2 = nx /\ p2 = pv
    BY <1>1, <1>2, <2>1, <2>2
  <2>4. [q EXCEPT ![l] = << >>] = q
    BY <1>1, <1>2, <1>5
  <2> QED
    BY <2>3, <2>4
<1>6. CASE R # << >>
  <2>1. PICK n1, p1, q1 : n1 = [nx EXCEPT ![l] = l] /\ p1 = [pv EXCEPT ![l] = l]
                          /\ q1 = [q EXCEPT ![l] = none]
    OBVIOUS
  <2>2. Shape(n1, p1, q1, R)
    <3>1. Shape([nx EXCEPT ![Lst(l, none)] = Fst(none, l)], [pv EXCEPT ![Fst(none, l)] = Lst(l, none)],
                [q EXCEPT ![l] = none \o none], R)
      BY <1>4, <1>6, CutKeeps
    <3> QED
      BY ONLY <1>4, <2>1, <3>1
  <2>3. Shape([p \in Place |-> IF p \in Range(R) THEN NULL ELSE n1[p]],
              [p \in Place |-> IF p \in Range(R) THEN NULL ELSE p1[p]], q1, << >>)
    BY ONLY <2>2, FreeKeeps
  <2>4. l \notin Range(R)
    BY SeqFacts, Kinds
  <2>5. /\ n2 = [p \in Place |-> IF p \in Range(R) THEN NULL ELSE n1[p]]
        /\ p2 = [p \in Place |-> IF p \in Range(R) THEN NULL ELSE p1[p]]
    BY <1>1, <1>2, <2>1, <2>4
  <2> QED
    BY ONLY <1>3, <2>1, <2>3, <2>5
<1> QED
  BY <1>5, <1>6

-----------------------------------------------------------------------------
\* swap: a and b change their names.
Partner(a, b, p) == IF p = a THEN b ELSE IF p = b THEN a ELSE p

Renamed(f, a, b) == [p \in Place |-> Partner(a, b, f[Partner(a, b, p)])]

\* Exchanging the names of two headers is its own inverse and leaves nodes alone.
LEMMA OtherFacts ==
    ASSUME NEW a \in ListObject, NEW b \in ListObject
    PROVE  /\ \A p \in Place : Partner(a, b, p) \in Place /\ Partner(a, b, Partner(a, b, p)) = p
           /\ \A p \in Place \cup {NULL} : Partner(a, b, p) \in Place \cup {NULL}
           /\ \A n \in Node : Partner(a, b, n) = n
           /\ \A l \in ListObject : Partner(a, b, l) \in ListObject
           /\ Partner(a, b, NULL) = NULL
BY Kinds DEF Partner

\* swap() takes the links along with the names,
LEMMA RenamedLink ==
    ASSUME NEW nx, NEW pv, NEW a \in ListObject, NEW b \in ListObject, NEW u \in Place, NEW v \in Place,
           Linked(nx, pv, u, v)
    PROVE  Linked(Renamed(nx, a, b), Renamed(pv, a, b), Partner(a, b, u), Partner(a, b, v))
<1>1. /\ Partner(a, b, u) \in Place /\ Partner(a, b, Partner(a, b, u)) = u
      /\ Partner(a, b, v) \in Place /\ Partner(a, b, Partner(a, b, v)) = v
  BY OtherFacts
<1>2. nx[u] = v /\ pv[v] = u
  BY DEF Linked
<1>3. Renamed(nx, a, b)[Partner(a, b, u)] = Partner(a, b, nx[Partner(a, b, Partner(a, b, u))])
  BY <1>1 DEF Renamed
<1>4. Renamed(pv, a, b)[Partner(a, b, v)] = Partner(a, b, pv[Partner(a, b, Partner(a, b, v))])
  BY <1>1 DEF Renamed
<1> QED
  BY <1>1, <1>2, <1>3, <1>4 DEF Linked

\* and so the paths,
LEMMA RenamedPath ==
    ASSUME NEW nx, NEW pv, NEW a \in ListObject, NEW b \in ListObject, NEW l \in ListObject,
           NEW t \in Seq(Node), Path(nx, pv, l, t, l)
    PROVE  Path(Renamed(nx, a, b), Renamed(pv, a, b), Partner(a, b, l), t, Partner(a, b, l))
<1>1. PICK n2, p2, m : n2 = Renamed(nx, a, b) /\ p2 = Renamed(pv, a, b) /\ m = Partner(a, b, l)
  OBVIOUS
<1>2. \A u, v \in Place : Linked(nx, pv, u, v) => Linked(n2, p2, Partner(a, b, u), Partner(a, b, v))
  BY <1>1, RenamedLink
<1>3. Inner(n2, p2, t)
  <2> SUFFICES ASSUME NEW i \in 1..(Len(t) - 1)
               PROVE  Linked(n2, p2, t[i], t[i + 1])
    BY DEF Inner
  <2>1. Linked(nx, pv, t[i], t[i + 1])
    BY DEF Path, Inner
  <2>2. t[i] \in Node /\ t[i + 1] \in Node
    BY SeqFacts
  <2>3. Partner(a, b, t[i]) = t[i] /\ Partner(a, b, t[i + 1]) = t[i + 1]
    BY <2>2, OtherFacts
  <2> QED
    BY <1>2, <2>1, <2>2, <2>3, Kinds
<1>4. /\ Linked(nx, pv, l, Fst(t, l)) /\ Linked(nx, pv, Lst(l, t), l)
  BY DEF Path
<1>5. l \in Place /\ Fst(t, l) \in Place /\ Lst(l, t) \in Place
  BY EndPlaces, Kinds
<1>6. Partner(a, b, Fst(t, l)) = Fst(t, m) /\ Partner(a, b, Lst(l, t)) = Lst(m, t)
  <2>1. CASE t = << >>
    BY <1>1, <2>1 DEF Fst, Lst
  <2>2. CASE t # << >>
    <3>1. 1 \in 1..Len(t) /\ Len(t) \in 1..Len(t)
      BY <2>2, SeqFacts
    <3>2. t[1] \in Node /\ t[Len(t)] \in Node
      BY <3>1, SeqFacts
    <3>3. Partner(a, b, t[1]) = t[1] /\ Partner(a, b, t[Len(t)]) = t[Len(t)]
      BY <3>2, OtherFacts
    <3> QED
      BY <2>2, <3>3 DEF Fst, Lst
  <2> QED
    BY <2>1, <2>2
<1>7. Linked(n2, p2, m, Fst(t, m)) /\ Linked(n2, p2, Lst(m, t), m)
  BY <1>1, <1>2, <1>4, <1>5, <1>6
<1>8. Path(n2, p2, m, t, m)
  BY <1>3, <1>7 DEF Path
<1> QED
  BY <1>1, <1>8

\* and so every ring: the two lists have exchanged what they hold.
LEMMA SwapKeeps ==
    ASSUME NEW nx, NEW pv, NEW q, Shape(nx, pv, q, << >>), NEW a \in ListObject, NEW b \in ListObject, a # b
    PROVE  Shape(Renamed(nx, a, b), Renamed(pv, a, b), [q EXCEPT ![a] = q[b], ![b] = q[a]], << >>)
<1>1. PICK n2, p2, r : n2 = Renamed(nx, a, b) /\ p2 = Renamed(pv, a, b)
                       /\ r = [q EXCEPT ![a] = q[b], ![b] = q[a]]
  OBVIOUS
<1>2. /\ nx \in [Place -> Place \cup {NULL}] /\ pv \in [Place -> Place \cup {NULL}]
      /\ q \in [ListObject -> Seq(Node)] /\ Apart(q, << >>)
      /\ \A l \in ListObject : Path(nx, pv, l, q[l], l)
      /\ \A n \in Node : Used(q, << >>, n) \/ (nx[n] = NULL /\ pv[n] = NULL)
  BY DEF Shape, Apart
<1>3. /\ r \in [ListObject -> Seq(Node)]
      /\ \A l \in ListObject : r[l] = q[Partner(a, b, l)] /\ Partner(a, b, l) \in ListObject
      /\ \A l, m \in ListObject : l # m => Partner(a, b, l) # Partner(a, b, m)
  BY <1>1, <1>2 DEF Partner
<1>4. Apart(r, << >>)
  BY <1>2, <1>3 DEF Apart
<1>5. n2 \in [Place -> Place \cup {NULL}] /\ p2 \in [Place -> Place \cup {NULL}]
  <2>1. \A p \in Place : Partner(a, b, nx[Partner(a, b, p)]) \in Place \cup {NULL}
                         /\ Partner(a, b, pv[Partner(a, b, p)]) \in Place \cup {NULL}
    BY <1>2, OtherFacts
  <2> QED
    BY <1>1, <2>1 DEF Renamed
<1>6. ASSUME NEW l \in ListObject
      PROVE  Path(n2, p2, l, r[l], l)
  <2>1. PICK m \in ListObject : m = Partner(a, b, l)
    BY <1>3
  <2>2. Partner(a, b, m) = l
    BY <2>1, OtherFacts, Kinds
  <2>3. PICK t \in Seq(Node) : t = q[m]
    BY <1>2
  <2>4. Path(nx, pv, m, t, m)
    BY <1>2, <2>3
  <2>5. Path(Renamed(nx, a, b), Renamed(pv, a, b), Partner(a, b, m), t, Partner(a, b, m))
    BY <2>4, RenamedPath
  <2> QED
    BY ONLY <1>1, <1>3, <2>1, <2>2, <2>3, <2>5
<1>7. Inner(n2, p2, << >>)
  BY EmptyFacts DEF Inner
<1>8. ASSUME NEW n \in Node
      PROVE  Used(r, << >>, n) \/ (n2[n] = NULL /\ p2[n] = NULL)
  <2>1. Used(q, << >>, n) => Used(r, << >>, n)
    <3>1. \A l \in ListObject : q[l] = r[Partner(a, b, l)] /\ Partner(a, b, l) \in ListObject
      BY <1>3 DEF Partner
    <3> QED
      BY <3>1 DEF Used
  <2>2. nx[n] = NULL /\ pv[n] = NULL => n2[n] = NULL /\ p2[n] = NULL
    <3>1. Partner(a, b, n) = n /\ Partner(a, b, NULL) = NULL /\ n \in Place
      BY OtherFacts, Kinds
    <3> QED
      BY <1>1, <3>1 DEF Renamed
  <2> QED
    BY <1>2, <2>1, <2>2
<1>9. Shape(n2, p2, r, << >>)
  BY <1>4, <1>5, <1>6, <1>7, <1>8 DEF Shape
<1> QED
  BY <1>1, <1>9

-----------------------------------------------------------------------------
\* reverse: a list read backwards, through pointers that are exchanged

\* reversed() has the same nodes, from behind.
LEMMA ReversedFacts ==
    ASSUME NEW t \in Seq(Node)
    PROVE  /\ reversed(t) \in Seq(Node) /\ Len(reversed(t)) = Len(t) /\ Range(reversed(t)) = Range(t)
           /\ \A i \in 1..Len(t) : reversed(t)[i] = t[Len(t) + 1 - i]
           /\ IsInjective(t) => IsInjective(reversed(t))
<1>1. PICK n \in Nat : n = Len(t) /\ DOMAIN t = 1..n
  BY SeqFacts
<1>2. \A i \in 1..n : n + 1 - i \in 1..n /\ n + 1 - (n + 1 - i) = i
  OBVIOUS
<1>3. reversed(t) = [i \in 1..n |-> t[n + 1 - i]]
  BY <1>1 DEF reversed
<1>4. \A i \in 1..n : t[n + 1 - i] \in Node
  BY <1>1, <1>2, SeqFacts
<1>5. reversed(t) \in Seq(Node)
  <2>1. reversed(t) \in [1..n -> Node]
    BY <1>3, <1>4
  <2> QED
    BY <2>1, SeqDef
<1>6. Len(reversed(t)) = n
  BY <1>3, <1>5
<1>7. \A i \in 1..n : reversed(t)[i] = t[n + 1 - i]
  BY <1>3
<1>8. Range(reversed(t)) = Range(t)
  <2>1. Range(reversed(t)) = {reversed(t)[i] : i \in 1..n} /\ Range(t) = {t[i] : i \in 1..n}
    BY <1>1, <1>5, <1>6, SeqFacts
  <2> QED
    BY <1>2, <1>7, <2>1
<1>9. IsInjective(t) => IsInjective(reversed(t))
  <2> SUFFICES ASSUME IsInjective(t), NEW i \in 1..n, NEW j \in 1..n, reversed(t)[i] = reversed(t)[j]
               PROVE  i = j
    BY <1>3 DEF IsInjective
  <2>1. n + 1 - i \in DOMAIN t /\ n + 1 - j \in DOMAIN t /\ t[n + 1 - i] = t[n + 1 - j]
    BY <1>1, <1>2, <1>7
  <2>2. n + 1 - i = n + 1 - j
    BY <2>1 DEF IsInjective
  <2> QED
    BY <2>2
<1> QED
  BY <1>1, <1>5, <1>6, <1>7, <1>8, <1>9

\* A ring seen through prev for next is the ring of the reversed list.
LEMMA ReversedPath ==
    ASSUME NEW nx, NEW pv, NEW l, NEW t \in Seq(Node), Path(nx, pv, l, t, l)
    PROVE  Path(pv, nx, l, reversed(t), l)
<1>1. PICK n \in Nat, r \in Seq(Node) : n = Len(t) /\ r = reversed(t)
  BY SeqFacts, ReversedFacts
<1>2. Len(r) = n /\ \A i \in 1..n : r[i] = t[n + 1 - i]
  BY <1>1, ReversedFacts
<1>3. Inner(pv, nx, r)
  <2> SUFFICES ASSUME NEW i \in 1..(n - 1)
               PROVE  Linked(pv, nx, r[i], r[i + 1])
    BY <1>2 DEF Inner
  <2>1. PICK j : j = n - i
    OBVIOUS
  <2>2. j \in 1..(n - 1) /\ n + 1 - i = j + 1 /\ n + 1 - (i + 1) = j /\ i \in 1..n /\ i + 1 \in 1..n
    BY <2>1
  <2>3. r[i] = t[j + 1] /\ r[i + 1] = t[j]
    BY <1>2, <2>2
  <2>4. Linked(nx, pv, t[j], t[j + 1])
    BY <1>1, <2>2 DEF Path, Inner
  <2> QED
    BY <2>3, <2>4 DEF Linked
<1>4. Fst(r, l) = Lst(l, t) /\ Lst(l, r) = Fst(t, l)
  <2>1. CASE n = 0
    <3>1. t = << >> /\ r = << >>
      BY <1>1, <1>2, <2>1, SeqFacts
    <3> QED
      BY <3>1 DEF Fst, Lst
  <2>2. CASE n # 0
    <3>1. t # << >> /\ r # << >>
      BY <1>1, <1>2, <2>2, SeqFacts
    <3>2. 1 \in 1..n /\ n \in 1..n /\ n + 1 - 1 = n /\ n + 1 - n = 1
      BY <2>2
    <3>3. r[1] = t[n] /\ r[n] = t[1]
      BY <1>2, <3>2
    <3> QED
      BY <1>1, <1>2, <3>1, <3>3 DEF Fst, Lst
  <2> QED
    BY <2>1, <2>2
<1>5. Path(pv, nx, l, r, l)
  BY <1>3, <1>4 DEF Path, Linked
<1> QED
  BY <1>1, <1>5

\* In D the pointers are exchanged.
TurnedTo(nx, pv, D, n2, p2) ==
    /\ n2 = [p \in Place |-> IF p \in D THEN pv[p] ELSE nx[p]]
    /\ p2 = [p \in Place |-> IF p \in D THEN nx[p] ELSE pv[p]]

\* When every place of a ring has exchanged its links, the list is reversed.
LEMMA ReverseKeeps ==
    ASSUME NEW nx, NEW pv, NEW q, Shape(nx, pv, q, << >>), NEW l \in ListObject,
           NEW D, D = {l} \cup Range(q[l]), NEW n2, NEW p2, TurnedTo(nx, pv, D, n2, p2)
    PROVE  Shape(n2, p2, [q EXCEPT ![l] = reversed(q[l])], << >>)
<1>0. /\ n2 = [p \in Place |-> IF p \in D THEN pv[p] ELSE nx[p]]
      /\ p2 = [p \in Place |-> IF p \in D THEN nx[p] ELSE pv[p]]
  BY DEF TurnedTo
<1>1. PICK t, r : t = q[l] /\ r = [q EXCEPT ![l] = reversed(t)]
  OBVIOUS
<1>2. /\ nx \in [Place -> Place \cup {NULL}] /\ pv \in [Place -> Place \cup {NULL}]
      /\ q \in [ListObject -> Seq(Node)] /\ Apart(q, << >>) /\ t \in Seq(Node)
      /\ \A m \in ListObject : Path(nx, pv, m, q[m], m)
      /\ \A n \in Node : Used(q, << >>, n) \/ (nx[n] = NULL /\ pv[n] = NULL)
  BY <1>1 DEF Shape, Apart
<1>3. PICK u \in Seq(Node) : u = reversed(t)
  BY <1>2, ReversedFacts
<1>4. Range(u) = Range(t) /\ (IsInjective(t) => IsInjective(u))
  BY <1>2, <1>3, ReversedFacts
<1>5. /\ r \in [ListObject -> Seq(Node)] /\ r[l] = u
      /\ \A m \in ListObject : m # l => r[m] = q[m]
      /\ \A m \in ListObject : Range(r[m]) = Range(q[m])
  BY <1>1, <1>2, <1>3, <1>4
<1>6. Apart(r, << >>)
  BY <1>1, <1>2, <1>4, <1>5 DEF Apart
<1>7. n2 \in [Place -> Place \cup {NULL}] /\ p2 \in [Place -> Place \cup {NULL}]
  BY <1>0, <1>2
<1>8. \A p \in D : n2[p] = pv[p] /\ p2[p] = nx[p]
  <2>1. D \subseteq Place
    BY <1>1, <1>2, SeqFacts, Kinds
  <2> QED
    BY <1>0, <2>1
<1>9. Path(n2, p2, l, u, l)
  <2>1. Path(nx, pv, l, t, l)
    BY <1>1, <1>2
  <2>2. Path(pv, nx, l, u, l)
    BY <1>2, <1>3, <2>1, ReversedPath
  <2>3. \A p \in {l} \cup Range(u) : n2[p] = pv[p] /\ p2[p] = nx[p]
    BY <1>1, <1>4, <1>8
  <2>4. \A p \in {l} \cup Range(u) : n2[p] = pv[p]
    BY <2>3
  <2>5. \A p \in {l} \cup Range(u) : p2[p] = nx[p]
    BY <2>3
  <2> QED
    BY ONLY <2>2, <2>4, <2>5, u \in Seq(Node), PathFrame
<1>10. ASSUME NEW m \in ListObject, m # l
       PROVE  Path(n2, p2, m, r[m], m)
  <2>1. PICK s \in Seq(Node) : s = q[m]
    BY <1>2
  <2>2. Path(nx, pv, m, s, m)
    BY <1>2, <2>1
  <2>3. \A p \in {m} \cup Range(s) : p \notin D /\ p \in Place
    <3>1. Range(s) \cap Range(t) = {} /\ Range(s) \subseteq Node /\ Range(t) \subseteq Node
      <4>1. Range(s) \cap Range(t) = {}
        BY <1>1, <1>2, <1>10, <2>1 DEF Apart
      <4> QED
        BY <1>2, <4>1, SeqFacts
    <3> QED
      BY <1>1, <1>10, <3>1, Kinds
  <2>4. \A p \in {m} \cup Range(s) : n2[p] = nx[p] /\ p2[p] = pv[p]
    BY <1>0, <2>3
  <2>5. Path(n2, p2, m, s, m)
    BY <2>2, <2>4, PathFrame
  <2> QED
    BY <1>5, <1>10, <2>1, <2>5
<1>11. Inner(n2, p2, << >>)
  BY EmptyFacts DEF Inner
<1>12. ASSUME NEW n \in Node
       PROVE  Used(r, << >>, n) \/ (n2[n] = NULL /\ p2[n] = NULL)
  <2>1. Used(q, << >>, n) => Used(r, << >>, n)
    BY <1>5 DEF Used
  <2>2. nx[n] = NULL /\ pv[n] = NULL => n2[n] = NULL /\ p2[n] = NULL
    BY <1>0, Kinds
  <2> QED
    BY <1>2, <2>1, <2>2
<1>13. Shape(n2, p2, r, << >>)
  BY <1>5, <1>6, <1>7, <1>9, <1>10, <1>11, <1>12 DEF Shape
<1> QED
  BY <1>1, <1>13

-----------------------------------------------------------------------------
\* The rings and the elements in their nodes

\* The nodes in use when the list l is replaced by t
LEMMA UsedBy ==
    ASSUME NEW q \in [ListObject -> Seq(Node)], NEW l \in ListObject, NEW t \in Seq(Node), NEW n
    PROVE  Used([q EXCEPT ![l] = t], << >>, n) <=>
              n \in Range(t) \/ \E m \in ListObject \ {l} : n \in Range(q[m])
<1>1. Used([q EXCEPT ![l] = t], << >>, n) <=> \E m \in ListObject : n \in Range([q EXCEPT ![l] = t][m])
  BY EmptyFacts DEF Used
<1>2. \A m \in ListObject : [q EXCEPT ![l] = t][m] = IF m = l THEN t ELSE q[m]
  OBVIOUS
<1> QED
  BY <1>1, <1>2

\* What Holds says of q: the rings are those of q, apart, of distinct nodes with data
LEMMA HeldLists ==
    ASSUME NEW q, Holds(q)
    PROVE  /\ q \in [ListObject -> Seq(Node)]
           /\ \A l \in ListObject : q[l] \in Seq(Node) /\ IsInjective(q[l])
           /\ \A l, m \in ListObject : l # m => Range(q[l]) \cap Range(q[m]) = {}
           /\ \A l \in ListObject : Path(next, prev, l, q[l], l)
           /\ \A n \in Node : data[n] = NULL <=> next[n] = NULL
           /\ \A n \in Node : data[n] = NULL <=> ~\E l \in ListObject : n \in Range(q[l])
<1>1. Shape(next, prev, q, << >>) /\ InUse(q)
  BY DEF Holds
<1>2. /\ \A n \in Node : data[n] = NULL <=> next[n] = NULL
      /\ \A n \in Node : data[n] = NULL <=> ~\E l \in ListObject : n \in Range(q[l])
  BY <1>1, UsedMeans DEF InUse
<1> QED
  BY <1>1, <1>2 DEF Shape, Apart

\* insert(): a free node linked in front of B is between A and B.
LEMMA HoldsInsert ==
    ASSUME Types, NEW q, Holds(q), NEW l \in ListObject, NEW n \in Node, next[n] = NULL,
           NEW A \in Seq(Node), NEW B \in Seq(Node), q[l] = A \o B, link(n, Fst(B, l)),
           NEW v \in Key, data' = [data EXCEPT ![n] = v]
    PROVE  Holds([q EXCEPT ![l] = A \o (<< n >> \o B)])'
<1>1. PICK t, r : t \in Seq(Node) /\ t = A \o (<< n >> \o B) /\ r = [q EXCEPT ![l] = t]
  <2>1. A \o (<< n >> \o B) \in Seq(Node)
    BY OneNode, Apart3
  <2> QED
    BY <2>1
<1>2. Shape(next, prev, q, << >>) /\ InUse(q)
  BY DEF Holds
<1>3. Shape(next', prev', r, << >>)
  BY <1>1, <1>2, LinkKeeps
<1>4. q \in [ListObject -> Seq(Node)]
  BY HeldLists
<1>5. Range(t) = {n} \cup Range(q[l])
  <2>1. PICK R \in Seq(Node) : R = << n >> /\ Range(R) = {n}
    BY OneNode
  <2>2. Range(A \o (R \o B)) = Range(A) \cup Range(R) \cup Range(B) /\ Range(A \o B) = Range(A) \cup Range(B)
    BY Apart3
  <2> QED
    BY <1>1, <2>1, <2>2
<1>6. ASSUME NEW m \in Node
      PROVE  data'[m] = NULL <=> ~Used(r, << >>, m)
  <2>1. Used(r, << >>, m) <=> m = n \/ \E k \in ListObject : m \in Range(q[k])
    BY <1>1, <1>4, <1>5, UsedBy
  <2>2. data[m] = NULL <=> ~\E k \in ListObject : m \in Range(q[k])
    BY HeldLists
  <2>3. data'[m] = IF m = n THEN v ELSE data[m]
    BY DEF Types
  <2> QED
    BY <2>1, <2>2, <2>3, StlListAssumption
<1> QED
  BY <1>1, <1>3, <1>6 DEF Holds, InUse

\* erase(): a node unlinked is gone from its list and from no other.
LEMMA HoldsUnlink ==
    ASSUME Types, NEW q, Holds(q), NEW l \in ListObject, NEW n \in Node,
           NEW A \in Seq(Node), NEW B \in Seq(Node), q[l] = A \o (<< n >> \o B), unlink(n)
    PROVE  Holds([q EXCEPT ![l] = A \o B])'
<1>1. PICK t, r : t \in Seq(Node) /\ t = A \o B /\ r = [q EXCEPT ![l] = t]
  BY ConcatFacts
<1>2. Shape(next, prev, q, << >>) /\ InUse(q)
  BY DEF Holds
<1>3. Shape(next', prev', r, << >>)
  BY <1>1, <1>2, UnlinkKeeps
<1>4. q \in [ListObject -> Seq(Node)] /\ IsInjective(q[l])
      /\ \A k \in ListObject : k # l => Range(q[k]) \cap Range(q[l]) = {}
  BY HeldLists
<1>5. Range(q[l]) = {n} \cup Range(t) /\ n \notin Range(t)
  <2>1. PICK R \in Seq(Node) : R = << n >> /\ Range(R) = {n}
    BY OneNode
  <2>2. Range(A \o (R \o B)) = Range(A) \cup Range(R) \cup Range(B) /\ Range(A \o B) = Range(A) \cup Range(B)
    BY Apart3
  <2>3. Range(A \o B) \cap Range(R) = {}
    <3>1. IsInjective(A \o (R \o B))
      BY <1>4, <2>1
    <3> QED
      BY <3>1, Apart3
  <2> QED
    BY <1>1, <2>1, <2>2, <2>3
<1>6. ASSUME NEW m \in Node
      PROVE  data'[m] = NULL <=> ~Used(r, << >>, m)
  <2>1. Used(r, << >>, m) <=> m \in Range(t) \/ \E k \in ListObject \ {l} : m \in Range(q[k])
    BY <1>1, <1>4, UsedBy
  <2>2. data[m] = NULL <=> ~\E k \in ListObject : m \in Range(q[k])
    BY HeldLists
  <2>3. data'[m] = IF m = n THEN NULL ELSE data[m]
    BY DEF Types, unlink
  <2> QED
    BY <1>4, <1>5, <2>1, <2>2, <2>3
<1> QED
  BY <1>1, <1>3, <1>6 DEF Holds, InUse

\* clear() leaves an empty ring and frees its nodes.
LEMMA HoldsClear ==
    ASSUME Types, NEW q, Holds(q), NEW l \in ListObject,
           next' = [p \in Place |-> IF p = l THEN l ELSE IF p \in Range(q[l]) THEN NULL ELSE next[p]],
           prev' = [p \in Place |-> IF p = l THEN l ELSE IF p \in Range(q[l]) THEN NULL ELSE prev[p]],
           data' = [n \in Node |-> IF n \in Range(q[l]) THEN NULL ELSE data[n]]
    PROVE  Holds([q EXCEPT ![l] = << >>])'
<1>1. PICK t, r : t \in Seq(Node) /\ t = << >> /\ r = [q EXCEPT ![l] = t]
  BY EmptyFacts
<1>2. Shape(next, prev, q, << >>) /\ InUse(q)
  BY DEF Holds
<1>3. Shape(next', prev', r, << >>)
  BY <1>1, <1>2, ClearKeeps, ZenonT(30)
<1>4. q \in [ListObject -> Seq(Node)] /\ Range(t) = {}
      /\ \A k \in ListObject : k # l => Range(q[k]) \cap Range(q[l]) = {}
  BY <1>1, HeldLists, EmptyFacts
<1>5. ASSUME NEW m \in Node
      PROVE  data'[m] = NULL <=> ~Used(r, << >>, m)
  <2>1. Used(r, << >>, m) <=> m \in Range(t) \/ \E k \in ListObject \ {l} : m \in Range(q[k])
    BY <1>1, <1>4, UsedBy
  <2>2. data[m] = NULL <=> ~\E k \in ListObject : m \in Range(q[k])
    BY HeldLists
  <2>3. data'[m] = IF m \in Range(q[l]) THEN NULL ELSE data[m]
    OBVIOUS
  <2> QED
    BY <1>4, <2>1, <2>2, <2>3
<1> QED
  BY <1>1, <1>3, <1>5 DEF Holds, InUse

\* transfer(): the nodes R leave the list x and arrive in l, in order; l may be x.
LEMMA HoldsTransfer ==
    ASSUME NEW q, Holds(q), NEW x \in ListObject, NEW l \in ListObject,
           NEW A \in Seq(Node), NEW B \in Seq(Node),
           NEW C \in Seq(Node), NEW R \in Seq(Node), NEW D \in Seq(Node),
           q[x] = C \o (R \o D), R # << >>, NEW qc, qc = [q EXCEPT ![x] = C \o D],
           qc[l] = A \o B, transfer(Fst(B, l), R[1], Fst(D, x)), UNCHANGED data
    PROVE  Holds([qc EXCEPT ![l] = A \o (R \o B)])'
<1>1. PICK t, r : t \in Seq(Node) /\ t = A \o (R \o B) /\ r = [qc EXCEPT ![l] = t]
  <2>1. A \o (R \o B) \in Seq(Node)
    BY Apart3
  <2> QED
    BY <2>1
<1>2. Shape(next, prev, q, << >>) /\ InUse(q)
  BY DEF Holds
<1>3. Shape(next', prev', r, << >>)
  BY <1>1, <1>2, TransferKeeps
<1>4. q \in [ListObject -> Seq(Node)]
  BY HeldLists
<1>5. PICK u \in Seq(Node) : u = C \o D
  BY ConcatFacts
<1>6. qc \in [ListObject -> Seq(Node)] /\ qc[x] = u /\ \A k \in ListObject : k # x => qc[k] = q[k]
  BY <1>4, <1>5
<1>7. /\ Range(t) = Range(R) \cup Range(qc[l])
      /\ Range(q[x]) = Range(R) \cup Range(u)
  <2>1. /\ Range(A \o (R \o B)) = Range(A) \cup Range(R) \cup Range(B)
        /\ Range(A \o B) = Range(A) \cup Range(B)
    BY Apart3
  <2>2. /\ Range(C \o (R \o D)) = Range(C) \cup Range(R) \cup Range(D)
        /\ Range(C \o D) = Range(C) \cup Range(D)
    BY Apart3
  <2> QED
    BY ONLY <1>1, <1>5, <2>1, <2>2, qc[l] = A \o B, q[x] = C \o (R \o D)
<1>8. ASSUME NEW m \in Node
      PROVE  data'[m] = NULL <=> ~Used(r, << >>, m)
  <2>1. Used(r, << >>, m) <=> m \in Range(t) \/ \E k \in ListObject \ {l} : m \in Range(qc[k])
    BY <1>1, <1>6, UsedBy
  <2>2. data[m] = NULL <=> ~\E k \in ListObject : m \in Range(q[k])
    BY HeldLists
  <2>3. (\E k \in ListObject : m \in Range(q[k])) <=> m \in Range(R) \/ \E k \in ListObject : m \in Range(qc[k])
    BY <1>6, <1>7
  <2> QED
    BY <1>7, <2>1, <2>2, <2>3
<1> QED
  BY <1>1, <1>3, <1>8 DEF Holds, InUse

\* Nothing is held otherwise when the heap is as it was.
LEMMA HoldsSame ==
    ASSUME NEW q, Holds(q), UNCHANGED heap
    PROVE  Holds(q)'
BY DEF Holds, InUse, heap, Shape, Apart, Used

\* swap() exchanges what two lists hold.
LEMMA HoldsSwap ==
    ASSUME NEW q, Holds(q), NEW a \in ListObject, NEW b \in ListObject, a # b, swap(a, b)
    PROVE  Holds([q EXCEPT ![a] = q[b], ![b] = q[a]])'
<1>1. PICK r : r = [q EXCEPT ![a] = q[b], ![b] = q[a]]
  OBVIOUS
<1>2. Shape(next, prev, q, << >>) /\ InUse(q)
  BY DEF Holds
<1>3. next' = Renamed(next, a, b) /\ prev' = Renamed(prev, a, b) /\ data' = data
  BY DEF swap, Renamed, Partner
<1>4. Shape(next', prev', r, << >>)
  BY <1>1, <1>2, <1>3, SwapKeeps
<1>5. \A n \in Node : Used(r, << >>, n) <=> Used(q, << >>, n)
  <2>1. q \in [ListObject -> Seq(Node)]
    BY HeldLists
  <2>2. \A k \in ListObject : r[k] = q[Partner(a, b, k)] /\ q[k] = r[Partner(a, b, k)] /\ Partner(a, b, k) \in ListObject
    BY <1>1, <2>1 DEF Partner
  <2> QED
    BY <2>2 DEF Used
<1> QED
  BY <1>1, <1>2, <1>3, <1>4, <1>5 DEF Holds, InUse

\* What a loop from begin() to end() sees is what the list holds.
LEMMA HeldContents ==
    ASSUME NEW q, Holds(q), NEW l \in ListObject
    PROVE  /\ contents(l) = q[l] /\ nodes(l) = Range(q[l]) /\ size_of(l) = Len(q[l])
           /\ places(l) = {l} \cup Range(q[l])
           /\ next[l] = Fst(q[l], l)
           /\ empty(l) <=> q[l] = << >>
<1>1. PICK t \in Seq(Node) : t = q[l]
  BY HeldLists
<1>2. IsInjective(t) /\ Path(next, prev, l, t, l)
  BY <1>1, HeldLists
<1>3. contents(l) = t
  BY <1>2, ContentsOf
<1>4. next[l] = Fst(t, l)
  BY <1>2 DEF Path, Linked
<1>5. empty(l) <=> t = << >>
  <2>1. t # << >> => t[1] \in Node
    BY SeqFacts
  <2> QED
    BY <1>4, <2>1, Kinds DEF empty, Fst
<1> QED
  BY <1>1, <1>3, <1>4, <1>5 DEF nodes, size_of, places, end

\* Where an operation in the list l takes place
LEMMA AtPlace ==
    ASSUME NEW q, Holds(q), NEW l \in ListObject, NEW p \in places(l)
    PROVE  SplitsAt(q[l], l, p)
<1>1. PICK t \in Seq(Node) : t = q[l] /\ p \in {l} \cup Range(t)
  BY HeldLists, HeldContents
<1>2. SplitsAt(t, l, p)
  BY <1>1, SplitAt
<1> QED
  BY <1>1, <1>2

\* A node a loop sees splits its list around it.
LEMMA AtNode ==
    ASSUME NEW q, Holds(q), NEW l \in ListObject, NEW n \in nodes(l)
    PROVE  n \in Node /\ SplitsAround(q[l], n)
<1>1. PICK t \in Seq(Node) : t = q[l] /\ n \in Range(t)
  BY HeldLists, HeldContents
<1>2. SplitsAround(t, n) /\ n \in Node
  BY <1>1, SplitAt
<1> QED
  BY <1>1, <1>2

\* A loop may end when the lists hold what was wanted and sort() left nothing behind.
LEMMA ToIdle ==
    ASSUME NEW r, Holds(r)', pc' = "idle", local' = no_local,
           \A l \in Object : r[l] = want'[l], \A t \in Temporary : r[t] = << >>
    PROVE  Loops'
<1>1. Idle(r)'
  BY DEF Idle, Others, Spare
<1> QED
  BY <1>1 DEF Loops, Doing

\* The program's lists are none of sort()'s, and both are lists.
LEMMA ObjectKinds ==
    /\ \A l \in Object : l \in ListObject /\ l \notin Temporary
    /\ \A t \in Temporary : t \in ListObject /\ t \notin Object
BY StlListAssumption DEF ListObject

\* insert() does at once what it promises.
LEMMA InsertIdle ==
    ASSUME Types, NEW q, Idle(q), NEW l \in Object, NEW p \in places(l), NEW v \in Key, insert(l, p, v)
    PROVE  Types' /\ Loops'
<1>1. /\ Holds(q) /\ q[l] = want[l] /\ l \in ListObject /\ local = no_local
      /\ \A m \in Object : q[m] = want[m]
      /\ \A t \in Temporary : q[t] = << >>
  BY ObjectKinds DEF Idle, Others, Spare
<1>2. PICK A \in Seq(Node), B \in Seq(Node) : q[l] = A \o B /\ p = Fst(B, l)
  <2>1. SplitsAt(q[l], l, p)
    BY <1>1, AtPlace
  <2> QED
    BY <2>1 DEF SplitsAt
<1>3. PICK n \in Node : n = new_node /\ next[n] = NULL
  BY DEF insert, new_node
<1>4. link(n, Fst(B, l)) /\ data' = [data EXCEPT ![n] = v] /\ UNCHANGED << pc, local >>
  BY <1>2, <1>3 DEF insert
<1>5. PICK t, r : t \in Seq(Node) /\ t = A \o (<< n >> \o B) /\ r = [q EXCEPT ![l] = t]
  BY OneNode, Apart3
<1>6. Holds(r)'
  BY <1>1, <1>2, <1>3, <1>4, <1>5, HoldsInsert
<1>7. want' = [want EXCEPT ![l] = t]
  <2>1. insert_at(A \o B, place_of(A \o B, Fst(B, l)), << n >>) = t
    <3>1. PICK U \in Seq(Node) : U = << n >>
      BY OneNode
    <3>2. IsInjective(q[l])
      BY <1>1, HeldLists
    <3>3. IsInjective(A \o B) /\ l \in ListObject
      BY <1>1, <1>2, <3>2
    <3>4. insert_at(A \o B, place_of(A \o B, Fst(B, l)), U) = A \o (U \o B)
      BY <3>3, InsertedAt
    <3> QED
      BY <1>5, <3>1, <3>4
  <2>2. want' = [want EXCEPT ![l] = insert_at(want[l], place_of(want[l], p), << n >>)]
    BY <1>3 DEF insert
  <2> QED
    BY ONLY <1>1, <1>2, <2>1, <2>2
<1>8. Loops'
  <2>1. q \in [ListObject -> Seq(Node)] /\ want \in [Object -> Seq(Node)]
    BY <1>1, HeldLists DEF Types
  <2>2. \A m \in Object : r[m] = want'[m]
    BY <1>1, <1>5, <1>7, <2>1, ObjectKinds
  <2>3. \A s \in Temporary : r[s] = << >>
    BY <1>1, <1>5, <2>1, ObjectKinds
  <2>4. pc' = "idle" /\ local' = no_local
    BY <1>1, <1>4 DEF Idle
  <2> QED
    BY <1>6, <2>2, <2>3, <2>4, ToIdle
<1>9. Types'
  BY <1>4, <1>5, <1>7 DEF Types, Locals
<1> QED
  BY <1>8, <1>9

-----------------------------------------------------------------------------
\* without() is a sequence of nodes.
LEMMA WithoutSeq ==
    ASSUME NEW t \in Seq(Node), NEW S
    PROVE  without(t, S) \in Seq(Node)
BY WithoutFacts

\* without() of two parts, one after the other
LEMMA WithoutConcat ==
    ASSUME NEW s \in Seq(Node), NEW t \in Seq(Node), NEW S
    PROVE  without(s \o t, S) = without(s, S) \o without(t, S)
BY WithoutFacts

\* Nothing or everything is taken out.
LEMMA WithoutNone ==
    ASSUME NEW t \in Seq(Node), NEW S
    PROVE  /\ Range(t) \cap S = {} => without(t, S) = t
           /\ Range(t) \subseteq S => without(t, S) = << >>
BY WithoutFacts

\* A piece of a list taken out of it
LEMMA WithoutMiddle ==
    ASSUME NEW A \in Seq(Node), NEW R \in Seq(Node), NEW B \in Seq(Node), IsInjective(A \o (R \o B))
    PROVE  without(A \o (R \o B), Range(R)) = A \o B
<1>1. PICK S : S = Range(R)
  OBVIOUS
<1>2. /\ IsInjective(A \o B) /\ Range(A \o B) \cap Range(R) = {}
      /\ Range(A \o B) = Range(A) \cup Range(B) /\ R \o B \in Seq(Node)
  BY Apart3
<1>3. without(A, S) = A /\ without(B, S) = B /\ without(R, S) = << >>
  <2>1. Range(A) \cap S = {} /\ Range(B) \cap S = {} /\ Range(R) \subseteq S
    BY <1>1, <1>2
  <2> QED
    BY <2>1, WithoutNone
<1>4. without(R \o B, S) = without(R, S) \o without(B, S)
  BY WithoutConcat
<1>5. without(A \o (R \o B), S) = without(A, S) \o without(R \o B, S)
  <2>1. PICK u \in Seq(Node) : u = R \o B
    BY <1>2
  <2>2. without(A \o u, S) = without(A, S) \o without(u, S)
    <3>1. A \in Seq(Node) /\ u \in Seq(Node)
      OBVIOUS
    <3> QED
      BY ONLY <3>1, WithoutConcat
  <2> QED
    BY <2>1, <2>2
<1>6. << >> \o B = B
  BY ConcatFacts
<1> QED
  BY <1>1, <1>3, <1>4, <1>5, <1>6

\* erase() does at once what it promises.
LEMMA EraseIdle ==
    ASSUME Types, NEW q, Idle(q), NEW l \in Object, NEW n \in nodes(l), erase(l, n)
    PROVE  Types' /\ Loops'
<1>1. /\ Holds(q) /\ q[l] = want[l] /\ l \in ListObject /\ local = no_local
      /\ \A m \in Object : q[m] = want[m]
      /\ \A t \in Temporary : q[t] = << >>
  BY ObjectKinds DEF Idle, Others, Spare
<1>2. n \in Node /\ SplitsAround(q[l], n)
  BY <1>1, AtNode
<1>3. PICK A \in Seq(Node), B \in Seq(Node) : q[l] = A \o (<< n >> \o B)
  BY <1>2 DEF SplitsAround
<1>4. unlink(n) /\ UNCHANGED << pc, local >>
  BY DEF erase
<1>5. PICK t, r : t \in Seq(Node) /\ t = A \o B /\ r = [q EXCEPT ![l] = t]
  BY ConcatFacts
<1>6. Holds(r)'
  BY <1>1, <1>2, <1>3, <1>4, <1>5, HoldsUnlink
<1>7. want' = [want EXCEPT ![l] = t]
  <2>1. PICK R \in Seq(Node) : R = << n >> /\ Range(R) = {n}
    BY <1>2, OneNode
  <2>2. IsInjective(A \o (R \o B))
    <3>1. IsInjective(q[l])
      BY <1>1, HeldLists
    <3> QED
      BY <1>3, <2>1, <3>1
  <2>3. without(A \o (R \o B), Range(R)) = A \o B
    BY <2>2, WithoutMiddle
  <2>4. want' = [want EXCEPT ![l] = without(want[l], {n})]
    BY DEF erase
  <2> QED
    BY ONLY <1>1, <1>3, <1>5, <2>1, <2>3, <2>4
<1>8. Loops'
  <2>1. q \in [ListObject -> Seq(Node)] /\ want \in [Object -> Seq(Node)]
    BY <1>1, HeldLists DEF Types
  <2>2. \A m \in Object : r[m] = want'[m]
    BY <1>1, <1>5, <1>7, <2>1, ObjectKinds
  <2>3. \A s \in Temporary : r[s] = << >>
    BY <1>1, <1>5, <2>1, ObjectKinds
  <2>4. pc' = "idle" /\ local' = no_local
    BY <1>1, <1>4 DEF Idle
  <2> QED
    BY <1>6, <2>2, <2>3, <2>4, ToIdle
<1>9. Types'
  BY <1>4, <1>5, <1>7 DEF Types, Locals, unlink
<1> QED
  BY <1>8, <1>9

\* clear() does at once what it promises.
LEMMA ClearIdle ==
    ASSUME Types, NEW q, Idle(q), NEW l \in Object, clear(l)
    PROVE  Types' /\ Loops'
<1>1. /\ Holds(q) /\ q[l] = want[l] /\ l \in ListObject /\ local = no_local
      /\ \A m \in Object : q[m] = want[m]
      /\ \A t \in Temporary : q[t] = << >>
  BY ObjectKinds DEF Idle, Others, Spare
<1>2. nodes(l) = Range(q[l])
  BY <1>1, HeldContents
<1>3. PICK t, r : t \in Seq(Node) /\ t = << >> /\ r = [q EXCEPT ![l] = t]
  BY EmptyFacts
<1>4. Holds(r)'
  <2>1. /\ next' = [p \in Place |-> IF p = l THEN l ELSE IF p \in Range(q[l]) THEN NULL ELSE next[p]]
        /\ prev' = [p \in Place |-> IF p = l THEN l ELSE IF p \in Range(q[l]) THEN NULL ELSE prev[p]]
        /\ data' = [n \in Node |-> IF n \in Range(q[l]) THEN NULL ELSE data[n]]
    BY <1>2 DEF clear
  <2> QED
    BY <1>1, <1>3, <2>1, HoldsClear
<1>5. want' = [want EXCEPT ![l] = t] /\ UNCHANGED << pc, local >>
  BY <1>3 DEF clear
<1>6. Loops'
  <2>1. q \in [ListObject -> Seq(Node)] /\ want \in [Object -> Seq(Node)]
    BY <1>1, HeldLists DEF Types
  <2>2. \A m \in Object : r[m] = want'[m]
    BY <1>1, <1>3, <1>5, <2>1, ObjectKinds
  <2>3. \A s \in Temporary : r[s] = << >>
    BY <1>1, <1>3, <2>1, ObjectKinds
  <2>4. pc' = "idle" /\ local' = no_local
    BY <1>1, <1>5 DEF Idle
  <2> QED
    BY <1>4, <2>2, <2>3, <2>4, ToIdle
<1>7. Types'
  BY <1>3, <1>5 DEF Types, Locals, clear
<1> QED
  BY <1>6, <1>7

InsertsAt(A, B, l, U) == insert_at(A \o B, place_of(A \o B, Fst(B, l)), U) = A \o (U \o B)

\* InsertedAt, in the form in which splice() is proved
LEMMA Inserted ==
    ASSUME NEW A \in Seq(Node), NEW B \in Seq(Node), IsInjective(A \o B), NEW l \in ListObject,
           NEW U \in Seq(Node)
    PROVE  InsertsAt(A, B, l, U)
<1>1. insert_at(A \o B, place_of(A \o B, Fst(B, l)), U) = A \o (U \o B)
  BY InsertedAt
<1> QED
  BY <1>1 DEF InsertsAt

\* The nodes R of the list x are moved in front of position.
Moves(l, position, x, C, R, D) ==
    LET rest == [want EXCEPT ![x] = C \o D]
    IN  /\ transfer(position, R[1], Fst(D, x))
        /\ want' = [rest EXCEPT ![l] = insert_at(rest[l], place_of(rest[l], position), R)]
        /\ UNCHANGED << data, pc, local >>

\* All three forms of splice() move R in front of a position outside R.
LEMMA MoveIdle ==
    ASSUME Types, NEW q, Idle(q), NEW l \in Object, NEW x \in Object, NEW position \in places(l),
           NEW C \in Seq(Node), NEW R \in Seq(Node), NEW D \in Seq(Node),
           q[x] = C \o (R \o D), R # << >>, position \notin Range(R),
           Moves(l, position, x, C, R, D)
    PROVE  Types' /\ Loops'
<1> PICK rest : rest = [want EXCEPT ![x] = C \o D]
  OBVIOUS
<1>0. /\ transfer(position, R[1], Fst(D, x))
      /\ want' = [rest EXCEPT ![l] = insert_at(rest[l], place_of(rest[l], position), R)]
      /\ UNCHANGED << data, pc, local >>
  BY DEF Moves
<1>1. /\ Holds(q) /\ l \in ListObject /\ x \in ListObject /\ local = no_local
      /\ \A m \in Object : q[m] = want[m]
      /\ \A t \in Temporary : q[t] = << >>
  BY ObjectKinds DEF Idle, Others, Spare
<1>2. PICK u, qc : u \in Seq(Node) /\ u = C \o D /\ qc = [q EXCEPT ![x] = u]
  BY ConcatFacts
<1>3. /\ q \in [ListObject -> Seq(Node)] /\ want \in [Object -> Seq(Node)]
      /\ IsInjective(q[x]) /\ IsInjective(q[l])
      /\ places(l) = {l} \cup Range(q[l])
  BY <1>1, HeldLists, HeldContents DEF Types
<1>4. IsInjective(u) /\ Range(q[x]) = Range(u) \cup Range(R)
  <2>1. /\ Range(C \o (R \o D)) = Range(C) \cup Range(R) \cup Range(D)
        /\ Range(C \o D) = Range(C) \cup Range(D)
        /\ IsInjective(C \o (R \o D)) => IsInjective(C \o D)
    BY Apart3
  <2> QED
    BY ONLY <1>2, <1>3, <2>1, q[x] = C \o (R \o D)
<1>5. PICK s \in Seq(Node) : s = qc[l] /\ s = rest[l] /\ IsInjective(s) /\ position \in {l} \cup Range(s)
  <2>1. qc \in [ListObject -> Seq(Node)] /\ qc[l] = IF l = x THEN u ELSE q[l]
    BY <1>1, <1>2, <1>3
  <2>2. rest[l] = IF l = x THEN u ELSE want[l]
    BY <1>2, <1>3
  <2> QED
    BY <1>1, <1>3, <1>4, <2>1, <2>2
<1>6. SplitsAt(s, l, position)
  BY <1>1, <1>5, SplitAt
<1>7. PICK A \in Seq(Node), B \in Seq(Node) : s = A \o B /\ position = Fst(B, l)
  BY <1>6 DEF SplitsAt
<1>8. PICK t, r : t \in Seq(Node) /\ t = A \o (R \o B) /\ r = [qc EXCEPT ![l] = t]
  <2>1. A \o (R \o B) \in Seq(Node)
    BY Apart3
  <2> QED
    BY <2>1
<1>9. Holds(r)'
  <2>1. qc[l] = A \o B /\ transfer(Fst(B, l), R[1], Fst(D, x)) /\ UNCHANGED data
    BY <1>0, <1>5, <1>7
  <2>2. qc = [q EXCEPT ![x] = C \o D]
    BY <1>2
  <2>3. Holds([qc EXCEPT ![l] = A \o (R \o B)])'
    BY <1>1, <2>1, <2>2, HoldsTransfer
  <2> QED
    BY <1>8, <2>3
<1>10. want' = [rest EXCEPT ![l] = t]
  <2>1. insert_at(A \o B, place_of(A \o B, Fst(B, l)), R) = A \o (R \o B)
    <3>1. IsInjective(A \o B) /\ A \in Seq(Node) /\ B \in Seq(Node) /\ R \in Seq(Node) /\ l \in ListObject
      BY <1>1, <1>5, <1>7
    <3>2. InsertsAt(A, B, l, R)
      BY ONLY <3>1, Inserted
    <3> QED
      BY <3>2 DEF InsertsAt
  <2>2. want' = [rest EXCEPT ![l] = insert_at(rest[l], place_of(rest[l], position), R)]
    BY <1>0
  <2> QED
    BY ONLY <1>5, <1>7, <1>8, <2>1, <2>2
<1>11. Loops'
  <2>1. \A m \in Object : r[m] = want'[m]
    BY <1>1, <1>2, <1>3, <1>8, <1>10, ObjectKinds
  <2>2. \A m \in Temporary : r[m] = << >>
    BY <1>1, <1>2, <1>3, <1>8, ObjectKinds
  <2>3. pc' = "idle" /\ local' = no_local
    BY <1>0, <1>1 DEF Idle
  <2> QED
    BY <1>9, <2>1, <2>2, <2>3, ToIdle
<1>12. Types'
  <2>1. rest \in [Object -> Seq(Node)]
    BY ONLY <1>2, <1>3, rest = [want EXCEPT ![x] = C \o D]
  <2>2. want' \in [Object -> Seq(Node)]
    BY ONLY <1>8, <1>10, <2>1
  <2>3. data' = data /\ local' = local
    BY <1>0
  <2> QED
    BY ONLY <2>2, <2>3, Types DEF Types, Locals
<1> QED
  BY <1>11, <1>12

\* splice(position, x): all of x
LEMMA SpliceIdle ==
    ASSUME Types, NEW q, Idle(q), NEW l \in Object, NEW x \in Object \ {l}, NEW position \in places(l),
           splice(l, position, x)
    PROVE  Types' /\ Loops'
<1>1. /\ Holds(q) /\ l \in ListObject /\ x \in ListObject
      /\ \A m \in Object : q[m] = want[m]
      /\ want \in [Object -> Seq(Node)]
  BY ObjectKinds DEF Idle, Others, Types
<1>2. PICK R \in Seq(Node), none \in Seq(Node) : R = q[x] /\ none = << >>
  BY <1>1, HeldLists, EmptyFacts
<1>3. none \o none = none /\ R \o none = R /\ none \o R = R
  BY <1>2, ConcatFacts
<1>4. R # << >> /\ begin(x) = R[1] /\ end(x) = Fst(none, x)
  <2>1. R # << >>
    BY <1>1, <1>2, HeldContents DEF splice
  <2>2. next[x] = Fst(R, x)
    BY <1>1, <1>2, HeldContents
  <2> QED
    BY <1>2, <2>1, <2>2 DEF Fst, begin, end
<1>5. position \notin Range(R)
  <2>1. position \in {l} \cup Range(q[l])
    BY <1>1, HeldContents
  <2>2. Range(q[l]) \cap Range(R) = {}
    BY <1>1, <1>2, HeldLists
  <2> QED
    BY <1>1, <2>1, <2>2, SeqFacts, Kinds
<1>6. Moves(l, position, x, none, R, none)
  <2>1. PICK rest : rest = [want EXCEPT ![x] = none \o none]
    OBVIOUS
  <2>2. transfer(position, R[1], Fst(none, x)) /\ UNCHANGED << data, pc, local >>
    BY <1>4 DEF splice
  <2>3. rest[l] = want[l] /\ want[x] = R
    BY <1>1, <1>2, <2>1
  <2>4. want' = [want EXCEPT ![l] = insert_at(want[l], place_of(want[l], position), want[x]), ![x] = << >>]
    BY DEF splice
  <2>5. PICK u : u = insert_at(want[l], place_of(want[l], position), R)
    OBVIOUS
  <2>6. want' = [want EXCEPT ![l] = u, ![x] = none]
    BY ONLY <1>2, <2>3, <2>4, <2>5
  <2>7. want' = [rest EXCEPT ![l] = u]
    BY <1>1, <1>3, <2>1, <2>6
  <2>8. want' = [rest EXCEPT ![l] = insert_at(rest[l], place_of(rest[l], position), R)]
    BY ONLY <2>3, <2>5, <2>7
  <2> QED
    BY <2>1, <2>2, <2>8 DEF Moves
<1>7. q[x] = none \o (R \o none)
  BY <1>2, <1>3
<1> QED
  BY <1>4, <1>5, <1>6, <1>7, MoveIdle

\* splice(position, x, i): one node, and nothing when it is there already
LEMMA SpliceOneIdle ==
    ASSUME Types, NEW q, Idle(q), NEW l \in Object, NEW x \in Object, NEW position \in places(l),
           NEW n \in nodes(x), splice_one(l, position, x, n)
    PROVE  Types' /\ Loops'
<1>1. /\ Holds(q) /\ l \in ListObject /\ x \in ListObject /\ local = no_local
      /\ \A m \in Object : q[m] = want[m]
      /\ want \in [Object -> Seq(Node)]
  BY ObjectKinds DEF Idle, Others, Types
<1>2. n \in Node /\ SplitsAround(q[x], n)
  BY <1>1, AtNode
<1>3. PICK C \in Seq(Node), D \in Seq(Node) : q[x] = C \o (<< n >> \o D)
  BY <1>2 DEF SplitsAround
<1>4. PICK R \in Seq(Node) : R = << n >> /\ R # << >> /\ Range(R) = {n} /\ R[1] = n
  BY <1>2, OneNode
<1>5. next[n] = Fst(D, x)
  <2>1. Around(next, prev, Lst(x, C), n, Fst(D, x))
    BY <1>1, <1>2, <1>3, Neighbours DEF Holds
  <2> QED
    BY <2>1 DEF Around
<1>6. CASE position = n
  <2>1. UNCHANGED << next, prev, data, pc, local, want >>
    BY <1>6 DEF splice_one
  <2>2. Holds(q)'
    BY <1>1, <2>1, HoldsSame DEF heap
  <2>3. Loops'
    BY <1>1, <2>1, <2>2, ToIdle DEF Idle, Spare
  <2> QED
    BY <2>1, <2>3 DEF Types
<1>7. CASE position # n
  <2>1. transfer(position, R[1], Fst(D, x)) /\ UNCHANGED << data, pc, local >>
    BY <1>4, <1>5, <1>7 DEF splice_one, transfer
  <2>2. without(want[x], {n}) = C \o D
    <3>0. IsInjective(q[x])
      BY <1>1, HeldLists
    <3>1. IsInjective(C \o (R \o D))
      BY <1>3, <1>4, <3>0
    <3>2. without(C \o (R \o D), Range(R)) = C \o D
      BY <3>1, WithoutMiddle
    <3> QED
      BY <1>1, <1>3, <1>4, <3>2
  <2>3. PICK rest : rest = [want EXCEPT ![x] = C \o D]
    OBVIOUS
  <2>4. want' = [rest EXCEPT ![l] = insert_at(rest[l], place_of(rest[l], position), R)]
    <3>1. PICK old : old = [want EXCEPT ![x] = without(want[x], {n})]
      OBVIOUS
    <3>2. want' = [old EXCEPT ![l] = insert_at(old[l], place_of(old[l], position), << n >>)]
      BY <1>7, <3>1 DEF splice_one
    <3>3. old = rest
      BY ONLY <2>2, <2>3, <3>1
    <3> QED
      BY ONLY <1>4, <3>2, <3>3
  <2>5. Moves(l, position, x, C, R, D)
    BY <2>1, <2>3, <2>4 DEF Moves
  <2>6. q[x] = C \o (R \o D) /\ position \notin Range(R)
    BY <1>3, <1>4, <1>7
  <2> QED
    BY <1>4, <2>5, <2>6, MoveIdle
<1> QED
  BY <1>6, <1>7

\* The beginning of a concatenation
LEMMA FstConcat ==
    ASSUME NEW s \in Seq(Node), NEW t \in Seq(Node), NEW b
    PROVE  Fst(s \o t, b) = Fst(s, Fst(t, b))
<1>1. ASSUME NEW a
      PROVE  /\ Fst(s \o t, b) = Fst(s, Fst(t, b))
             /\ Lst(a, s \o t) = Lst(Lst(a, s), t)
  BY EndsConcat
<1> QED
  BY <1>1

\* The end of a concatenation
LEMMA LstConcat ==
    ASSUME NEW s \in Seq(Node), NEW t \in Seq(Node), NEW a
    PROVE  Lst(a, s \o t) = Lst(Lst(a, s), t)
<1>1. ASSUME NEW b
      PROVE  /\ Fst(s \o t, b) = Fst(s, Fst(t, b))
             /\ Lst(a, s \o t) = Lst(Lst(a, s), t)
  BY EndsConcat
<1> QED
  BY <1>1

\* What is between two places of a list
Between(t, C, R, D, E) ==
    R \in Seq(Node) /\ R # << >> /\ t = C \o (R \o D) /\ \A b : Fst(E, b) = R[1]

\* Of two positions in a list, the second cuts what the first one leaves.
LEMMA RangeSplit ==
    ASSUME NEW t \in Seq(Node), NEW C \in Seq(Node), NEW E \in Seq(Node), NEW F \in Seq(Node),
           NEW D \in Seq(Node), t = C \o E, t = F \o D, Len(C) < Len(F),
           NEW R, R = SubSeq(t, Len(C) + 1, Len(F))
    PROVE  Between(t, C, R, D, E)
<1>1. PICK c \in Nat, f \in Nat, n \in Nat : c = Len(C) /\ f = Len(F) /\ n = Len(t)
  BY SeqFacts
<1>2. c < f /\ f <= n /\ \A i \in 1..n : t[i] \in Node
  <2>1. Len(D) \in Nat /\ Len(F \o D) = Len(F) + Len(D)
    BY SeqFacts, ConcatFacts
  <2> QED
    BY <1>1, <2>1, SeqFacts
<1>3. SubSeq(t, c + 1, n) = E /\ SubSeq(t, f + 1, n) = D
  <2>1. SubSeq(C \o E, Len(C) + 1, Len(C \o E)) = E
    BY Pieces
  <2>2. SubSeq(F \o D, Len(F) + 1, Len(F \o D)) = D
    BY Pieces
  <2> QED
    BY ONLY <1>1, <2>1, <2>2, t = C \o E, t = F \o D
<1>4. SubSeq(t, c + 1, f) \o SubSeq(t, f + 1, n) = SubSeq(t, c + 1, n)
  <2>1. c + 1 \in 1..(Len(t) + 1) /\ f \in (c + 1 - 1)..Len(t) /\ n \in f..Len(t)
    BY ONLY <1>1, <1>2
  <2> QED
    BY ONLY <2>1, t \in Seq(Node), ConcatAdjacentSubSeq
<1>5. R = SubSeq(t, c + 1, f)
  BY <1>1
<1>6. R \in Seq(Node) /\ R # << >>
  <2>1. c + 1 \in Int /\ f \in Int /\ \A i \in (c + 1)..f : t[i] \in Node
    BY ONLY <1>2
  <2>2. /\ SubSeq(t, c + 1, f) \in Seq(Node)
        /\ Len(SubSeq(t, c + 1, f)) = IF c + 1 <= f THEN f - (c + 1) + 1 ELSE 0
    BY <2>1, SubSeqProperties
  <2>3. PICK u : u = SubSeq(t, c + 1, f)
    OBVIOUS
  <2>4. Len(u) = f - c /\ f - c # 0
    <3>1. Len(u) = IF c + 1 <= f THEN f - (c + 1) + 1 ELSE 0
      BY <2>2, <2>3
    <3> QED
      BY ONLY <1>2, <3>1
  <2>5. u \in Seq(Node) /\ u # << >>
    BY <2>2, <2>3, <2>4, EmptyFacts
  <2> QED
    BY ONLY <1>5, <2>3, <2>5
<1>7. R \o D = E
  BY <1>3, <1>4, <1>5
<1>8. ASSUME NEW b
      PROVE  Fst(E, b) = R[1]
  <2>1. Fst(R \o D, b) = Fst(R, Fst(D, b))
    <3>1. R \in Seq(Node) /\ D \in Seq(Node)
      BY <1>6
    <3> QED
      BY ONLY <3>1, FstConcat
  <2>2. Fst(R, Fst(D, b)) = R[1]
    BY <1>6 DEF Fst
  <2> QED
    BY <1>7, <2>1, <2>2
<1> QED
  BY <1>6, <1>7, <1>8 DEF Between

\* splice(position, x, first, last): the nodes from first up to last
LEMMA SpliceRangeIdle ==
    ASSUME Types, NEW q, Idle(q), NEW l \in Object, NEW x \in Object, NEW position \in places(l),
           NEW first \in nodes(x), NEW last \in places(x), splice_range(l, position, x, first, last)
    PROVE  Types' /\ Loops'
<1>1. /\ Holds(q) /\ l \in ListObject /\ x \in ListObject
      /\ \A m \in Object : q[m] = want[m]
      /\ want \in [Object -> Seq(Node)]
  BY ObjectKinds DEF Idle, Others, Types
<1>2. PICK t \in Seq(Node) : t = q[x] /\ t = want[x] /\ IsInjective(t)
  BY <1>1, HeldLists
<1>3. SplitsAt(t, x, first) /\ SplitsAt(t, x, last)
  <2>1. first \in places(x)
    BY <1>1, HeldContents
  <2>2. SplitsAt(q[x], x, first) /\ SplitsAt(q[x], x, last)
    BY <1>1, <2>1, AtPlace
  <2> QED
    BY <1>2, <2>2
<1>4. PICK C \in Seq(Node), E \in Seq(Node) : t = C \o E /\ first = Fst(E, x)
  BY <1>3 DEF SplitsAt
<1>5. PICK F \in Seq(Node), D \in Seq(Node) : t = F \o D /\ last = Fst(D, x)
  BY <1>3 DEF SplitsAt
<1>6. place_of(t, first) = Len(C) + 1 /\ place_of(t, last) = Len(F) + 1
  <2>1. place_of(C \o E, Fst(E, x)) = Len(C) + 1
    <3>1. IsInjective(C \o E)
      BY <1>2, <1>4
    <3> QED
      BY <1>1, <3>1, IndexOf
  <2>2. place_of(F \o D, Fst(D, x)) = Len(F) + 1
    <3>1. IsInjective(F \o D)
      BY <1>2, <1>5
    <3> QED
      BY <1>1, <3>1, IndexOf
  <2> QED
    BY <1>4, <1>5, <2>1, <2>2
<1>7. Len(C) \in Nat /\ Len(F) \in Nat /\ Len(C) < Len(F) /\ place_of(t, last) - 1 = Len(F)
  <2>1. Len(C) \in Nat /\ Len(F) \in Nat
    BY SeqFacts
  <2>2. place_of(t, first) < place_of(t, last)
    BY <1>2 DEF splice_range
  <2> QED
    BY <1>6, <2>1, <2>2
<1>8. PICK R : R = SubSeq(t, Len(C) + 1, Len(F))
  OBVIOUS
<1>9. R \in Seq(Node) /\ R # << >> /\ t = C \o (R \o D) /\ first = R[1]
  <2>1. Between(t, C, R, D, E)
    BY <1>4, <1>5, <1>7, <1>8, RangeSplit
  <2> QED
    BY <1>4, <2>1 DEF Between
<1>10. SubSeq(want[x], place_of(want[x], first), place_of(want[x], last) - 1) = R
  BY <1>2, <1>6, <1>7, <1>8
<1>11. without(t, Range(R)) = C \o D
  <2>1. IsInjective(C \o (R \o D))
    BY <1>2, <1>9
  <2>2. without(C \o (R \o D), Range(R)) = C \o D
    BY <1>9, <2>1, WithoutMiddle
  <2> QED
    BY <1>9, <2>2
<1>12. position \notin Range(R) /\ transfer(position, R[1], Fst(D, x)) /\ UNCHANGED << data, pc, local >>
  BY <1>5, <1>9, <1>10 DEF splice_range
<1>13. PICK rest : rest = [want EXCEPT ![x] = C \o D]
  OBVIOUS
<1>14. want' = [rest EXCEPT ![l] = insert_at(rest[l], place_of(rest[l], position), R)]
  <2>1. PICK old : old = [want EXCEPT ![x] = without(want[x], Range(R))]
    OBVIOUS
  <2>2. want' = [old EXCEPT ![l] = insert_at(old[l], place_of(old[l], position), R)]
    BY <1>10, <2>1 DEF splice_range
  <2>3. old = rest
    BY ONLY <1>2, <1>11, <1>13, <2>1
  <2> QED
    BY ONLY <2>2, <2>3
<1>15. Moves(l, position, x, C, R, D)
  BY <1>12, <1>13, <1>14 DEF Moves
<1>16. q[x] = C \o (R \o D)
  BY <1>2, <1>9
<1> QED
  BY <1>9, <1>12, <1>15, <1>16, MoveIdle

-----------------------------------------------------------------------------
\* The first node of a sequence and the others
Heads(t, f, T) == f \in Node /\ T \in Seq(Node) /\ t = << f >> \o T /\ f = t[1]

\* A sequence that is not empty has a first node and the others.
LEMMA HeadAndRest ==
    ASSUME NEW t \in Seq(Node), t # << >>
    PROVE  \E f, T : Heads(t, f, T)
<1>1. PICK n \in Nat : n = Len(t) /\ n >= 1 /\ \A i \in 1..n : t[i] \in Node
  BY SeqFacts
<1>2. SubSeq(t, 1, 1) \o SubSeq(t, 2, n) = SubSeq(t, 1, n)
  <2>1. 1 \in 1..(Len(t) + 1) /\ 1 \in (1 - 1)..Len(t) /\ n \in 1..Len(t) /\ 1 + 1 = 2
    BY ONLY <1>1
  <2>2. SubSeq(t, 1, 1) \o SubSeq(t, 1 + 1, n) = SubSeq(t, 1, n)
    BY ONLY <2>1, t \in Seq(Node), ConcatAdjacentSubSeq
  <2> QED
    BY <2>1, <2>2
<1>3. SubSeq(t, 1, n) = t
  BY <1>1, SubSeqFull
<1>4. SubSeq(t, 2, n) \in Seq(Node)
  <2>1. 2 \in Int /\ n \in Int /\ \A i \in 2..n : t[i] \in Node
    BY ONLY <1>1
  <2> QED
    BY <2>1, SubSeqProperties
<1>5. SubSeq(t, 1, 1) = << t[1] >>
  <2>1. 1 \in Int /\ \A i \in 1..1 : t[i] \in Node
    BY ONLY <1>1
  <2>2. /\ SubSeq(t, 1, 1) \in Seq(Node) /\ Len(SubSeq(t, 1, 1)) = IF 1 <= 1 THEN 1 - 1 + 1 ELSE 0
        /\ \A i \in 1..(1 - 1 + 1) : SubSeq(t, 1, 1)[i] = t[1 + i - 1]
    BY <2>1, SubSeqProperties
  <2>3. 1 - 1 + 1 = 1 /\ 1 \in 1..1 /\ 1 + 1 - 1 = 1
    OBVIOUS
  <2>4. Len(SubSeq(t, 1, 1)) = 1 /\ SubSeq(t, 1, 1)[1] = t[1]
    BY <2>2, <2>3
  <2>5. << t[1] >> \in Seq(Node) /\ Len(<< t[1] >>) = 1 /\ << t[1] >>[1] = t[1]
    BY <1>1
  <2>6. \A i \in 1..Len(<< t[1] >>) : SubSeq(t, 1, 1)[i] = << t[1] >>[i]
    BY <2>4, <2>5
  <2> QED
    BY <2>2, <2>4, <2>5, <2>6, SeqEqual
<1>6. t[1] \in Node
  BY <1>1
<1>7. Heads(t, t[1], SubSeq(t, 2, n))
  BY <1>2, <1>3, <1>4, <1>5, <1>6 DEF Heads
<1> QED
  BY <1>7

\* What without() does with the first node
LEMMA DropsHead ==
    ASSUME NEW f \in Node, NEW T \in Seq(Node), NEW S, f \in S
    PROVE  without(<< f >> \o T, S) = without(T, S)
<1>1. PICK R \in Seq(Node) : R = << f >> /\ Range(R) = {f}
  BY OneNode
<1>2. without(R \o T, S) = without(R, S) \o without(T, S)
  BY WithoutConcat
<1>3. without(R, S) = << >>
  BY <1>1, WithoutNone
<1>4. << >> \o without(T, S) = without(T, S)
  BY WithoutSeq, ConcatFacts
<1> QED
  BY <1>1, <1>2, <1>3, <1>4

\* A first node that is kept
LEMMA KeepsHead ==
    ASSUME NEW f \in Node, NEW T \in Seq(Node), NEW S, f \notin S
    PROVE  without(<< f >> \o T, S) = << f >> \o without(T, S)
<1>1. PICK R \in Seq(Node) : R = << f >> /\ Range(R) = {f}
  BY OneNode
<1>2. without(R \o T, S) = without(R, S) \o without(T, S)
  BY WithoutConcat
<1>3. without(R, S) = R
  BY <1>1, WithoutNone
<1> QED
  BY <1>1, <1>2, <1>3

\* What is taken out of t depends on the nodes of t only.
LEMMA WithoutSame ==
    ASSUME NEW t \in Seq(Node), NEW S, NEW U, \A n \in Range(t) : n \in S <=> n \in U
    PROVE  without(t, S) = without(t, U)
BY WithoutFacts

\* Taking the first node of the second piece to the first one
LEMMA Regroup ==
    ASSUME NEW K \in Seq(Node), NEW f \in Node, NEW T \in Seq(Node)
    PROVE  /\ K \o << f >> \in Seq(Node) /\ << f >> \o T \in Seq(Node)
           /\ K \o (<< f >> \o T) = (K \o << f >>) \o T
           /\ \A b : Fst(<< f >> \o T, b) = f
<1>1. PICK R \in Seq(Node) : R = << f >> /\ R # << >> /\ R[1] = f
  BY OneNode
<1>2. K \o R \in Seq(Node) /\ R \o T \in Seq(Node)
  BY ConcatFacts
<1>3. (K \o R) \o T = K \o (R \o T)
  BY Associative
<1>4. ASSUME NEW b PROVE Fst(R \o T, b) = f
  <2>1. Fst(R \o T, b) = Fst(R, Fst(T, b))
    BY FstConcat
  <2>2. Fst(R, Fst(T, b)) = f
    BY <1>1 DEF Fst
  <2> QED
    BY <2>1, <2>2
<1> QED
  BY <1>1, <1>2, <1>3, <1>4

\* The node that a loop is at joins those it has passed.
LEMMA RegroupIs ==
    ASSUME NEW K \in Seq(Node), NEW f \in Node, NEW T \in Seq(Node)
    PROVE  K \o (<< f >> \o T) = (K \o << f >>) \o T
BY Regroup

\* remove() begins: nothing is passed yet.
LEMMA RemoveStarts ==
    ASSUME Types, NEW q, Idle(q), NEW l \in Object, NEW v \in Key, remove(l, v)
    PROVE  Types' /\ Loops'
<1>1. /\ Holds(q) /\ l \in ListObject /\ Spare(q)
      /\ \A m \in Object : q[m] = want[m]
      /\ want \in [Object -> Seq(Node)]
  BY ObjectKinds DEF Idle, Others, Types
<1>2. PICK T \in Seq(Node), none \in Seq(Node) : T = q[l] /\ T = want[l] /\ none = << >>
  BY <1>1, EmptyFacts
<1>3. none \o T = T
  BY <1>2, ConcatFacts
<1>4. PICK W \in Seq(Node) : W = without(T, Having(v)) /\ none \o W = W
  <2>1. without(T, Having(v)) \in Seq(Node)
    BY WithoutSeq
  <2> QED
    BY <1>2, <2>1, ConcatFacts
<1>5. want' = [want EXCEPT ![l] = W] /\ pc' = "remove" /\ UNCHANGED heap
  BY <1>2, <1>4 DEF remove, call, Having
<1>6. local' = [no_local EXCEPT !.this = l, !.first = Fst(T, l), !.value = v]
  <2>1. begin(l) = Fst(T, l)
    BY <1>1, <1>2, HeldContents DEF begin
  <2> QED
    BY <2>1 DEF remove, call
<1>7. Holds(q)'
  BY <1>1, <1>5, HoldsSame
<1>8. RemovesAt(q, l, v, none, T)'
  <2>1. Having(v)' = Having(v)
    BY <1>5 DEF Having, heap
  <2>2. want'[l] = W
    BY <1>1, <1>5
  <2>3. q[l] = none \o T /\ want'[l] = none \o W
    BY ONLY <1>2, <1>3, <1>4, <2>2
  <2>4. W = without(T, Having(v))
    BY <1>4
  <2> QED
    BY <1>6, <2>1, <2>3, <2>4 DEF RemovesAt
<1>9. Others(q, {l})' /\ Spare(q)'
  BY <1>1, <1>5 DEF Others, Spare
<1>10. Removing(q)'
  BY <1>5, <1>7, <1>8, <1>9 DEF Removing
<1>11. Loops'
  BY <1>10 DEF Loops, Doing
<1>12. Types'
  <2>1. local' \in Locals
    <3>1. Fst(T, l) \in Place /\ l \in ListObject
      BY <1>1, EndPlaces
    <3> QED
      BY <1>6, <3>1 DEF Locals, no_local
  <2>2. want' \in [Object -> Seq(Node)] /\ data' = data
    BY <1>1, <1>5 DEF heap
  <2> QED
    BY <2>1, <2>2 DEF Types, Locals
<1> QED
  BY <1>11, <1>12

\* The fields of local while remove runs
LEMMA RemoveLocals ==
    ASSUME NEW q, NEW l, NEW v, NEW K, NEW T, RemovesAt(q, l, v, K, T)
    PROVE  local.this = l /\ local.first = Fst(T, l) /\ local.value = v
BY DEF RemovesAt, no_local

\* remove()'s loop is at end(): what is left is what was wanted.
LEMMA RemovePassEnd ==
    ASSUME Types, NEW q, Holds(q), pc = "remove", Spare(q), NEW l \in Object, NEW v \in Key, Others(q, {l}),
           NEW K \in Seq(Node), NEW T \in Seq(Node), RemovesAt(q, l, v, K, T), T = << >>, remove_pass
    PROVE  Types' /\ Loops'
<1>1. local.this = l /\ local.first = l
  BY RemoveLocals DEF Fst
<1>2. UNCHANGED heap /\ pc' = "idle" /\ local' = no_local /\ want' = want
  BY <1>1 DEF remove_pass, end, return
<1>3. q[l] = want[l]
  <2>1. T \o << >> = T /\ K \o << >> = K /\ without(T, Having(v)) = << >>
    BY ConcatFacts, WithoutEmpty
  <2>2. q[l] = K \o T /\ want[l] = K \o without(T, Having(v))
    BY DEF RemovesAt
  <2> QED
    BY ONLY <2>1, <2>2, T = << >>
<1>4. \A m \in Object : q[m] = want'[m]
  BY <1>2, <1>3 DEF Others
<1>5. Holds(q)'
  BY <1>2, HoldsSame
<1>6. Loops'
  BY <1>2, <1>4, <1>5, ToIdle DEF Spare
<1>7. no_local \in Locals
  BY DEF no_local, Locals
<1> QED
  BY <1>2, <1>6, <1>7 DEF Types, heap, Locals

\* remove()'s loop erases a node that has the value, or passes it.
LEMMA RemovePassNext ==
    ASSUME Types, NEW q, Holds(q), pc = "remove", Spare(q), NEW l \in Object, NEW v \in Key, Others(q, {l}),
           NEW K \in Seq(Node), NEW T \in Seq(Node), RemovesAt(q, l, v, K, T), T # << >>, remove_pass
    PROVE  Types' /\ Loops'
<1>1. PICK f, T2 : Heads(T, f, T2)
  BY HeadAndRest
<1>2. f \in Node /\ T2 \in Seq(Node) /\ T = << f >> \o T2
  BY <1>1 DEF Heads
<1>3. local.this = l /\ local.first = f /\ local.value = v /\ f # l /\ l \in ListObject
  <2>1. Fst(T, l) = f
    BY <1>2, Regroup
  <2> QED
    BY <1>2, <2>1, RemoveLocals, ObjectKinds, Kinds
<1>4. q[l] = K \o (<< f >> \o T2) /\ want[l] = K \o without(T, Having(v))
  BY <1>2 DEF RemovesAt
<1>5. next[f] = Fst(T2, l)
  <2>1. Around(next, prev, Lst(l, K), f, Fst(T2, l))
    BY <1>2, <1>3, <1>4, Neighbours DEF Holds
  <2> QED
    BY <2>1 DEF Around
<1>6. pc' = "remove" /\ want' = want /\ local' = [no_local EXCEPT !.this = l, !.first = Fst(T2, l), !.value = v]
  <2>1. UNCHANGED << pc, want >> /\ local' = [local EXCEPT !.first = next[f]]
    BY <1>3 DEF remove_pass, end, again
  <2>2. local = [no_local EXCEPT !.this = l, !.first = Fst(T, l), !.value = v]
    BY DEF RemovesAt
  <2> QED
    BY <1>5, <2>1, <2>2 DEF no_local
<1>7. Types'
  <2>1. local' \in Locals
    <3>1. Fst(T2, l) \in Place
      BY <1>2, <1>3, EndPlaces
    <3> QED
      BY <1>3, <1>6, <3>1 DEF Locals, no_local
  <2>2. data' \in [Node -> Key \cup {NULL}]
    BY <1>3 DEF Types, remove_pass, end, unlink, heap
  <2> QED
    BY <1>6, <2>1, <2>2 DEF Types, Locals
<1>8. CASE data[f] = v
  <2>1. unlink(f)
    BY <1>3, <1>8 DEF remove_pass, end
  <2>2. PICK t, r : t \in Seq(Node) /\ t = K \o T2 /\ r = [q EXCEPT ![l] = t]
    BY <1>2, ConcatFacts, ZenonT(30)
  <2>3. Holds(r)'
    BY <1>2, <1>3, <1>4, <2>1, <2>2, HoldsUnlink
  <2>4. r[l] = t /\ \A m \in ListObject : m # l => r[m] = q[m]
    BY <1>3, <2>2, HeldLists
  <2>5. want[l] = K \o without(T2, Having(v))
    <3>1. f \in Having(v)
      BY <1>2, <1>8 DEF Having
    <3>2. without(<< f >> \o T2, Having(v)) = without(T2, Having(v))
      BY <1>2, <3>1, DropsHead
    <3> QED
      BY <1>2, <1>4, <3>2
  <2>6. without(T2, Having(v)) = without(T2, Having(v)')
    <3>1. f \notin Range(T2)
      <4>1. IsInjective(q[l])
        BY <1>3, HeldLists
      <4>2. PICK R \in Seq(Node) : R = << f >> /\ Range(R) = {f}
        BY <1>2, OneNode
      <4>3. IsInjective(K \o (R \o T2))
        BY <1>4, <4>1, <4>2
      <4>4. Range(K \o T2) \cap Range(R) = {} /\ Range(K \o T2) = Range(K) \cup Range(T2)
        BY <1>2, <4>3, Apart3
      <4> QED
        BY <4>2, <4>4
    <3>2. data' = [data EXCEPT ![f] = NULL]
      BY <2>1 DEF unlink
    <3>3. Range(T2) \subseteq Node
      BY <1>2, SeqFacts
    <3>4. \A n \in Range(T2) : n \in Having(v) <=> n \in Having(v)'
      BY <3>1, <3>2, <3>3 DEF Having, Types
    <3>5. PICK S, U : S = Having(v) /\ U = Having(v)'
      OBVIOUS
    <3>6. without(T2, S) = without(T2, U)
      BY <1>2, <3>4, <3>5, WithoutSame
    <3> QED
      BY <3>5, <3>6
  <2>7. RemovesAt(r, l, v, K, T2)'
    BY <1>6, <2>2, <2>4, <2>5, <2>6 DEF RemovesAt
  <2>8. Others(r, {l})' /\ Spare(r)'
    BY <1>3, <1>6, <2>4, ObjectKinds DEF Others, Spare
  <2>9. Removing(r)'
    BY <1>2, <1>6, <2>3, <2>7, <2>8 DEF Removing
  <2> QED
    BY <1>7, <2>9 DEF Loops, Doing
<1>9. CASE data[f] # v
  <2>1. UNCHANGED heap
    BY <1>3, <1>9 DEF remove_pass, end
  <2>2. Holds(q)'
    BY <2>1, HoldsSame
  <2>3. PICK K2 \in Seq(Node) : K2 = K \o << f >>
    BY <1>2, Regroup
  <2>4. q[l] = K2 \o T2
    BY <1>2, <1>4, <2>3, Regroup
  <2>5. want[l] = K2 \o without(T2, Having(v))
    <3>1. f \notin Having(v)
      BY <1>2, <1>9 DEF Having
    <3>2. without(<< f >> \o T2, Having(v)) = << f >> \o without(T2, Having(v))
      BY <1>2, <3>1, KeepsHead
    <3>3. PICK W \in Seq(Node) : W = without(T2, Having(v))
      BY <1>2, WithoutSeq
    <3>4. K \o (<< f >> \o W) = (K \o << f >>) \o W
      BY <1>2, Regroup
    <3> QED
      BY ONLY <1>2, <1>4, <2>3, <3>2, <3>3, <3>4
  <2>6. Having(v)' = Having(v)
    BY <2>1 DEF Having, heap
  <2>7. RemovesAt(q, l, v, K2, T2)'
    BY <1>6, <2>4, <2>5, <2>6 DEF RemovesAt
  <2>8. Others(q, {l})' /\ Spare(q)'
    BY <1>6 DEF Others, Spare
  <2>9. Removing(q)'
    BY <1>2, <1>6, <2>2, <2>7, <2>8 DEF Removing
  <2> QED
    BY <1>7, <2>9 DEF Loops, Doing
<1> QED
  BY <1>8, <1>9

\* Every pass of remove() leads to the next, or to what was wanted.
LEMMA RemovePass ==
    ASSUME Types, NEW q, Removing(q), remove_pass
    PROVE  Types' /\ Loops'
<1>1. Holds(q) /\ pc = "remove" /\ Spare(q)
  BY DEF Removing
<1>2. PICK l \in Object, v \in Key : Others(q, {l}) /\
          \E K \in Seq(Node), T \in Seq(Node) : RemovesAt(q, l, v, K, T)
  BY DEF Removing
<1>3. PICK K \in Seq(Node), T \in Seq(Node) : RemovesAt(q, l, v, K, T)
  BY <1>2
<1> QED
  BY <1>1, <1>2, <1>3, RemovePassEnd, RemovePassNext

-----------------------------------------------------------------------------
\* The nodes of s that have the same element as the one before
Doubles(d, s) == {s[k] : k \in {j \in DOMAIN s : j > 1 /\ d[s[j - 1]] = d[s[j]]}}

\* A node is double when the node in front of it has an equal element.
LEMMA DoublesIs ==
    ASSUME NEW d, NEW s \in Seq(Node), NEW n
    PROVE  n \in Doubles(d, s) <=> \E k \in 2..Len(s) : n = s[k] /\ d[s[k - 1]] = d[s[k]]
<1>1. DOMAIN s = 1..Len(s) /\ Len(s) \in Nat
  BY SeqFacts
<1>2. \A j : j \in 1..Len(s) /\ j > 1 <=> j \in 2..Len(s)
  BY <1>1
<1> QED
  BY <1>1, <1>2 DEF Doubles

\* The doubles of s are nodes of s, and depend on their elements only.
LEMMA DoublesIn ==
    ASSUME NEW d, NEW e, NEW s \in Seq(Node), \A n \in Range(s) : d[n] = e[n]
    PROVE  Doubles(d, s) = Doubles(e, s) /\ Doubles(d, s) \subseteq Range(s)
<1>1. \A k \in 2..Len(s) : s[k] \in Range(s) /\ s[k - 1] \in Range(s)
  <2>1. Range(s) = {s[i] : i \in 1..Len(s)} /\ Len(s) \in Nat
    BY SeqFacts
  <2>2. \A k \in 2..Len(s) : k \in 1..Len(s) /\ k - 1 \in 1..Len(s)
    BY <2>1
  <2> QED
    BY <2>1, <2>2
<1>2. \A k \in 2..Len(s) : d[s[k - 1]] = e[s[k - 1]] /\ d[s[k]] = e[s[k]]
  BY <1>1
<1>3. \A n : n \in Doubles(d, s) <=> \E k \in 2..Len(s) : n = s[k] /\ d[s[k - 1]] = d[s[k]]
  BY DoublesIs
<1>4. \A n : n \in Doubles(e, s) <=> \E k \in 2..Len(s) : n = s[k] /\ e[s[k - 1]] = e[s[k]]
  BY DoublesIs
<1>5. Doubles(d, s) \subseteq Range(s)
  BY <1>1, <1>3
<1> HIDE DEF Doubles
<1>6. \A n : n \in Doubles(d, s) <=> n \in Doubles(e, s)
  BY ONLY <1>2, <1>3, <1>4
<1> QED
  BY <1>5, <1>6

\* The doubles behind a first node
LEMMA DoublesHead ==
    ASSUME NEW d, NEW f \in Node, NEW t \in Seq(Node)
    PROVE  /\ t = << >> => Doubles(d, << f >> \o t) = {}
           /\ t # << >> => Doubles(d, << f >> \o t) =
                              Doubles(d, t) \cup (IF d[f] = d[t[1]] THEN {t[1]} ELSE {})
<1>1. PICK R \in Seq(Node) : R = << f >> /\ Len(R) = 1 /\ R[1] = f
  BY OneNode
<1>2. PICK s \in Seq(Node), m \in Nat : s = R \o t /\ m = Len(t)
  BY ConcatFacts, SeqFacts
<1>3. Len(s) = m + 1 /\ s[1] = f /\ \A i \in 1..m : s[i + 1] = t[i]
  <2>1. Len(s) = Len(R) + Len(t) /\ (\A i \in 1..Len(R) : s[i] = R[i])
        /\ \A i \in 1..Len(t) : s[i + Len(R)] = t[i]
    BY <1>2, ConcatFacts
  <2> QED
    BY <1>1, <1>2, <2>1
<1>4. \A n : n \in Doubles(d, s) <=> \E k \in 2..(m + 1) : n = s[k] /\ d[s[k - 1]] = d[s[k]]
  <2>1. \A n : n \in Doubles(d, s) <=> \E k \in 2..Len(s) : n = s[k] /\ d[s[k - 1]] = d[s[k]]
    BY DoublesIs
  <2> QED
    BY ONLY <1>3, <2>1
<1>5. \A n : n \in Doubles(d, t) <=> \E k \in 2..m : n = t[k] /\ d[t[k - 1]] = d[t[k]]
  <2>1. \A n : n \in Doubles(d, t) <=> \E k \in 2..Len(t) : n = t[k] /\ d[t[k - 1]] = d[t[k]]
    BY DoublesIs
  <2> QED
    BY ONLY <1>2, <2>1
<1>6. CASE t = << >>
  <2>1. m = 0
    BY <1>2, <1>6, SeqFacts
  <2>2. Doubles(d, s) = {}
    BY <1>4, <2>1
  <2> QED
    BY <1>1, <1>2, <1>6, <2>2
<1>7. CASE t # << >>
  <2>1. m >= 1
    BY <1>2, <1>7, SeqFacts
  <2>2. s[2] = t[1] /\ s[2 - 1] = f /\ 2 \in 2..(m + 1)
    <3>1. 1 \in 1..m /\ 1 + 1 = 2 /\ 2 - 1 = 1
      BY <2>1
    <3>2. s[1 + 1] = t[1]
      BY ONLY <1>3, <3>1
    <3> QED
      BY ONLY <1>3, <2>1, <3>1, <3>2
  <2>3. \A k \in 2..m : s[k + 1] = t[k] /\ s[k + 1 - 1] = t[k - 1] /\ k + 1 \in 2..(m + 1)
    <3> SUFFICES ASSUME NEW k \in 2..m
                 PROVE  s[k + 1] = t[k] /\ s[k + 1 - 1] = t[k - 1] /\ k + 1 \in 2..(m + 1)
      OBVIOUS
    <3>1. k \in 1..m /\ k - 1 \in 1..m /\ k + 1 - 1 = k - 1 + 1 /\ k + 1 \in 2..(m + 1)
      OBVIOUS
    <3> QED
      BY ONLY <1>3, <3>1
  <2>4. \A k \in 2..(m + 1) : k = 2 \/ (k - 1 \in 2..m /\ k - 1 + 1 = k)
    OBVIOUS
  <2>5. ASSUME NEW n
        PROVE  n \in Doubles(d, s) <=> n \in Doubles(d, t) \/ (n = t[1] /\ d[f] = d[t[1]])
    <3>1. n \in Doubles(d, t) => n \in Doubles(d, s)
      <4> SUFFICES ASSUME NEW k \in 2..m, n = t[k] /\ d[t[k - 1]] = d[t[k]]
                   PROVE  n \in Doubles(d, s)
        BY <1>5
      <4>1. PICK j : j = k + 1
        OBVIOUS
      <4>2. j \in 2..(m + 1) /\ n = s[j] /\ d[s[j - 1]] = d[s[j]]
        BY <2>3, <4>1
      <4> QED
        BY <1>4, <4>2
    <3>2. n = t[1] /\ d[f] = d[t[1]] => n \in Doubles(d, s)
      BY <1>4, <2>2
    <3>3. n \in Doubles(d, s) => n \in Doubles(d, t) \/ (n = t[1] /\ d[f] = d[t[1]])
      <4> SUFFICES ASSUME NEW k \in 2..(m + 1), n = s[k] /\ d[s[k - 1]] = d[s[k]]
                   PROVE  n \in Doubles(d, t) \/ (n = t[1] /\ d[f] = d[t[1]])
        BY <1>4
      <4>1. CASE k = 2
        BY <2>2, <4>1
      <4>2. CASE k # 2
        <5>1. PICK j : j = k - 1
          OBVIOUS
        <5>2. j \in 2..m /\ j + 1 = k /\ k - 1 = j + 1 - 1
          BY <2>4, <4>2, <5>1
        <5>3. s[k] = t[j] /\ s[k - 1] = t[j - 1]
          BY ONLY <2>3, <5>2
        <5> QED
          BY <1>5, <5>2, <5>3
      <4> QED
        BY <4>1, <4>2
    <3> QED
      BY <3>1, <3>2, <3>3
  <2>6. Doubles(d, s) = Doubles(d, t) \cup (IF d[f] = d[t[1]] THEN {t[1]} ELSE {})
    BY ONLY <2>5
  <2> QED
    BY <1>1, <1>2, <1>7, <2>6
<1> QED
  BY <1>6, <1>7

\* The same without the double g of f
LEMMA DoublesDrop ==
    ASSUME NEW d, NEW f \in Node, NEW g \in Node, NEW t \in Seq(Node), d[f] = d[g]
    PROVE  Doubles(d, << f >> \o t) = Doubles(d, << g >> \o t)
<1>1. /\ t = << >> => Doubles(d, << f >> \o t) = {}
      /\ t # << >> => Doubles(d, << f >> \o t) =
                         Doubles(d, t) \cup (IF d[f] = d[t[1]] THEN {t[1]} ELSE {})
  BY DoublesHead
<1>2. /\ t = << >> => Doubles(d, << g >> \o t) = {}
      /\ t # << >> => Doubles(d, << g >> \o t) =
                         Doubles(d, t) \cup (IF d[g] = d[t[1]] THEN {t[1]} ELSE {})
  BY DoublesHead
<1> QED
  BY ONLY <1>1, <1>2, d[f] = d[g]

\* uniques() is Doubles with the elements as they are,
LEMMA UniquesAre == ASSUME NEW s PROVE uniques(s) = Doubles(data, s)
BY DEF uniques, Doubles

\* and as they are after a step.
LEMMA UniquesAreNow == \A s : uniques(s)' = Doubles(data', s)
BY DEF uniques, Doubles

\* unique() begins: its first node is passed.
LEMMA UniqueStarts ==
    ASSUME Types, NEW q, Idle(q), NEW l \in Object, unique(l)
    PROVE  Types' /\ Loops'
<1>1. /\ Holds(q) /\ l \in ListObject /\ Spare(q)
      /\ \A m \in Object : q[m] = want[m]
      /\ want \in [Object -> Seq(Node)]
  BY ObjectKinds DEF Idle, Others, Types
<1>2. PICK t \in Seq(Node) : t = q[l] /\ t = want[l] /\ t # << >>
  <2>1. q[l] # << >>
    BY <1>1, HeldContents DEF unique
  <2> QED
    BY <1>1, <2>1
<1>3. PICK f, T : Heads(t, f, T)
  BY <1>2, HeadAndRest
<1>4. f \in Node /\ T \in Seq(Node) /\ t = << f >> \o T
  BY <1>3 DEF Heads
<1>5. PICK none \in Seq(Node) : none = << >>
  BY EmptyFacts
<1>6. PICK W \in Seq(Node) : W = without(t, uniques(t))
  BY WithoutSeq
<1>7. none \o t = t /\ none \o W = W
  BY <1>5, ConcatFacts
<1>8. want' = [want EXCEPT ![l] = W] /\ pc' = "unique" /\ UNCHANGED heap
  BY <1>2, <1>6 DEF unique, call
<1>9. local' = [no_local EXCEPT !.this = l, !.first = f]
  <2>1. begin(l) = Fst(t, l)
    BY <1>1, <1>2, HeldContents DEF begin
  <2>2. Fst(t, l) = f
    BY <1>4, Regroup
  <2> QED
    BY <2>1, <2>2 DEF unique, call
<1>10. Holds(q)'
  BY <1>1, <1>8, HoldsSame
<1>11. W = without(t, uniques(t)')
  <2>1. uniques(t)' = Doubles(data', t) /\ uniques(t) = Doubles(data, t)
    BY UniquesAre, UniquesAreNow
  <2>2. data' = data
    BY <1>8 DEF heap
  <2> QED
    BY ONLY <1>6, <2>1, <2>2
<1>12. UniqueAt(q, l, f, none, T)'
  <2>1. want'[l] = W
    BY <1>1, <1>8
  <2>2. q[l] = none \o (<< f >> \o T) /\ want'[l] = none \o without(<< f >> \o T, uniques(<< f >> \o T)')
    BY ONLY <1>2, <1>4, <1>7, <1>11, <2>1
  <2> QED
    BY <1>9, <2>2 DEF UniqueAt
<1>13. Others(q, {l})' /\ Spare(q)'
  BY <1>1, <1>8 DEF Others, Spare
<1>14. Uniquing(q)'
  BY <1>4, <1>8, <1>10, <1>12, <1>13 DEF Uniquing
<1>15. Loops'
  BY <1>14 DEF Loops, Doing
<1>16. Types'
  <2>1. local' \in Locals
    <3>1. f \in Place /\ l \in ListObject
      BY <1>1, <1>4, Kinds
    <3> QED
      BY <1>9, <3>1 DEF Locals, no_local
  <2>2. want' \in [Object -> Seq(Node)] /\ data' = data
    BY <1>1, <1>8 DEF heap
  <2> QED
    BY <2>1, <2>2 DEF Types, Locals
<1> QED
  BY <1>15, <1>16

\* unique()'s iterator is at the node f.
LEMMA UniqueLocals ==
    ASSUME NEW q, NEW l, NEW f, NEW K, NEW T, UniqueAt(q, l, f, K, T)
    PROVE  local.this = l /\ local.first = f
BY DEF UniqueAt, no_local

\* unique()'s loop is at end(): what is left is what was wanted.
LEMMA UniquePassEnd ==
    ASSUME Types, NEW q, Holds(q), pc = "unique", Spare(q), NEW l \in Object, NEW f \in Node, Others(q, {l}),
           NEW K \in Seq(Node), NEW T \in Seq(Node), UniqueAt(q, l, f, K, T), T = << >>, unique_pass
    PROVE  Types' /\ Loops'
<1>1. local.this = l /\ local.first = f /\ l \in ListObject
  BY UniqueLocals, ObjectKinds
<1>2. next[f] = l
  <2>1. Around(next, prev, Lst(l, K), f, Fst(T, l))
    BY <1>1, Neighbours DEF Holds, UniqueAt
  <2> QED
    BY <2>1 DEF Around, Fst
<1>3. UNCHANGED heap /\ pc' = "idle" /\ local' = no_local /\ want' = want
  BY <1>1, <1>2 DEF unique_pass, end, return
<1>4. q[l] = want[l]
  <2>1. PICK t \in Seq(Node) : t = << f >> \o T
    BY Regroup
  <2>2. uniques(t) = {}
    BY <2>1, UniquesAre, DoublesHead
  <2>3. without(t, {}) = t
    BY WithoutNone
  <2>4. q[l] = K \o (<< f >> \o T) /\ want[l] = K \o without(<< f >> \o T, uniques(<< f >> \o T))
    BY DEF UniqueAt
  <2> QED
    BY ONLY <2>1, <2>2, <2>3, <2>4
<1>5. \A m \in Object : q[m] = want'[m]
  BY <1>3, <1>4 DEF Others
<1>6. Holds(q)'
  BY <1>3, HoldsSame
<1>7. Loops'
  BY <1>3, <1>5, <1>6, ToIdle DEF Spare
<1>8. no_local \in Locals
  BY DEF no_local, Locals
<1> QED
  BY <1>3, <1>7, <1>8 DEF Types, heap, Locals

\* The two nodes that unique() compares are not the same and not among the rest.
LEMMA TwoHeads ==
    ASSUME NEW K \in Seq(Node), NEW f \in Node, NEW g \in Node, NEW T \in Seq(Node),
           IsInjective(K \o (<< f >> \o (<< g >> \o T)))
    PROVE  f \notin Range(<< g >> \o T) /\ g \notin Range(T) /\ f # g /\ f \notin Range(T)
<1>1. PICK F \in Seq(Node) : F = << f >> /\ Range(F) = {f}
  BY OneNode
<1>2. PICK G \in Seq(Node) : G = << g >> /\ Range(G) = {g}
  BY OneNode
<1>3. PICK u \in Seq(Node) : u = G \o T /\ Range(u) = {g} \cup Range(T)
  <2>1. G \o T \in Seq(Node) /\ Range(G \o T) = Range(G) \cup Range(T)
    BY ConcatFacts
  <2> QED
    BY <1>2, <2>1
<1>4. PICK v \in Seq(Node) : v = F \o u
  BY ConcatFacts
<1>5. IsInjective(K \o v)
  BY ONLY <1>1, <1>2, <1>3, <1>4, IsInjective(K \o (<< f >> \o (<< g >> \o T)))
<1>6. IsInjective(v)
  BY <1>5, InjectiveConcat
<1>7. IsInjective(F \o u)
  BY ONLY <1>4, <1>6
<1>8. IsInjective(u) /\ Range(F) \cap Range(u) = {}
  BY <1>7, InjectiveConcat
<1>9. IsInjective(G \o T)
  BY ONLY <1>3, <1>8
<1>10. Range(G) \cap Range(T) = {}
  BY <1>9, InjectiveConcat
<1>11. u = << g >> \o T
  BY <1>2, <1>3
<1> QED
  BY ONLY <1>1, <1>2, <1>3, <1>8, <1>10, <1>11

\* unique()'s loop erases the second of two equal nodes, or passes the first.
LEMMA UniquePassNext ==
    ASSUME Types, NEW q, Holds(q), pc = "unique", Spare(q), NEW l \in Object, NEW f \in Node, Others(q, {l}),
           NEW K \in Seq(Node), NEW T \in Seq(Node), UniqueAt(q, l, f, K, T), T # << >>, unique_pass
    PROVE  Types' /\ Loops'
<1>1. PICK g, T2 : Heads(T, g, T2)
  BY HeadAndRest
<1>2. g \in Node /\ T2 \in Seq(Node) /\ T = << g >> \o T2 /\ g = T[1]
  BY <1>1 DEF Heads
<1>3. local.this = l /\ local.first = f /\ g # l /\ l \in ListObject
  BY <1>2, UniqueLocals, ObjectKinds, Kinds
<1>4. PICK t \in Seq(Node) : t = << f >> \o T /\ q[l] = K \o t /\ want[l] = K \o without(t, Doubles(data, t))
  <2>1. PICK t \in Seq(Node) : t = << f >> \o T
    BY Regroup
  <2>2. uniques(t) = Doubles(data, t)
    BY UniquesAre
  <2> QED
    BY <2>1, <2>2 DEF UniqueAt
<1>5. next[f] = g
  <2>1. Around(next, prev, Lst(l, K), f, Fst(T, l))
    BY <1>3, <1>4, Neighbours DEF Holds
  <2>2. Fst(T, l) = g
    BY <1>2, Regroup
  <2> QED
    BY <2>1, <2>2 DEF Around
<1>6. f \notin Range(T) /\ g \notin Range(T2) /\ f # g /\ f \notin Range(T2)
  <2>1. IsInjective(q[l])
    BY <1>3, HeldLists
  <2>2. IsInjective(K \o (<< f >> \o (<< g >> \o T2)))
    BY ONLY <1>2, <1>4, <2>1
  <2> QED
    BY <1>2, <2>2, TwoHeads
<1>7. Doubles(data, t) = Doubles(data, T) \cup (IF data[f] = data[g] THEN {g} ELSE {})
  <2>1. T # << >> => Doubles(data, << f >> \o T) =
                              Doubles(data, T) \cup (IF data[f] = data[T[1]] THEN {T[1]} ELSE {})
    BY DoublesHead
  <2> QED
    BY ONLY <1>2, <1>4, <2>1, T # << >>
<1>8. Doubles(data, T) \subseteq Range(T)
  BY DoublesIn
<1>9. without(t, Doubles(data, t)) = << f >> \o without(T, Doubles(data, t))
  <2>1. f \notin Doubles(data, t)
    BY <1>6, <1>7, <1>8
  <2> QED
    BY <1>4, <2>1, KeepsHead
<1>10. pc' = "unique" /\ want' = want
  BY <1>3, <1>5 DEF unique_pass, end, again
<1>11. CASE data[f] = data[g]
  <2>1. unlink(g) /\ local' = local
    BY <1>3, <1>5, <1>11 DEF unique_pass, end, again
  <2>2. PICK Kf \in Seq(Node) : Kf = K \o << f >>
    BY Regroup
  <2>3. q[l] = Kf \o (<< g >> \o T2)
    <3>1. K \o (<< f >> \o T) = (K \o << f >>) \o T
      BY Regroup
    <3> QED
      BY ONLY <1>2, <1>4, <2>2, <3>1
  <2>4. PICK t2 \in Seq(Node) : t2 = << f >> \o T2
    BY <1>2, Regroup
  <2>5. PICK s \in Seq(Node) : s = K \o t2
    BY ConcatFacts
  <2>6. Kf \o T2 = s
    <3>1. K \o (<< f >> \o T2) = (K \o << f >>) \o T2
      BY <1>2, RegroupIs
    <3> QED
      BY ONLY <2>2, <2>4, <2>5, <3>1
  <2>7. PICK r : r = [q EXCEPT ![l] = s]
    OBVIOUS
  <2>8. Holds(r)'
    BY <1>2, <1>3, <2>1, <2>3, <2>6, <2>7, HoldsUnlink
  <2>9. r[l] = s /\ \A m \in ListObject : m # l => r[m] = q[m]
    BY <1>3, <2>7, HeldLists
  <2>10. Doubles(data, T) = Doubles(data, t2)
    BY <1>2, <1>11, <2>4, DoublesDrop
  <2>11. Doubles(data, t2) = Doubles(data', t2) /\ Range(t2) = {f} \cup Range(T2)
    <3>1. Range(t2) = {f} \cup Range(T2)
      <4>1. PICK R \in Seq(Node) : R = << f >> /\ Range(R) = {f}
        BY OneNode
      <4>2. Range(R \o T2) = Range(R) \cup Range(T2)
        BY <1>2, ConcatFacts
      <4> QED
        BY <2>4, <4>1, <4>2
    <3>2. data' = [data EXCEPT ![g] = NULL]
      BY <2>1 DEF unlink
    <3>3. \A n \in Range(t2) : data[n] = data'[n]
      BY <1>2, <1>6, <3>1, <3>2, SeqFacts DEF Types
    <3> QED
      BY <3>1, <3>3, DoublesIn
  <2>12. without(t, Doubles(data, t)) = without(t2, Doubles(data', t2))
    <3>1. without(T, Doubles(data, t)) = without(T2, Doubles(data, t))
      <4>1. g \in Doubles(data, t)
        BY <1>7, <1>11
      <4> QED
        BY <1>2, <4>1, DropsHead
    <3>2. without(T2, Doubles(data, t)) = without(T2, Doubles(data, t2))
      <4>1. PICK S, U : S = Doubles(data, t) /\ U = Doubles(data, t2)
        OBVIOUS
      <4>2. S = U \cup {g}
        BY <1>7, <1>11, <2>10, <4>1
      <4>3. \A n \in Range(T2) : n \in S <=> n \in U
        BY <1>6, <4>2
      <4>4. without(T2, S) = without(T2, U)
        BY <1>2, <4>3, WithoutSame
      <4> QED
        BY <4>1, <4>4
    <3>3. without(t2, Doubles(data, t2)) = << f >> \o without(T2, Doubles(data, t2))
      <4>1. f \notin Doubles(data, t2)
        BY <1>6, <1>8, <2>10
      <4> QED
        BY <1>2, <2>4, <4>1, KeepsHead
    <3> QED
      BY ONLY <1>9, <2>11, <3>1, <3>2, <3>3
  <2>13. UniqueAt(r, l, f, K, T2)'
    <3>1. local' = [no_local EXCEPT !.this = l, !.first = f]
      BY <2>1 DEF UniqueAt
    <3>2. uniques(t2)' = Doubles(data', t2)
      BY UniquesAreNow
    <3>3. want'[l] = K \o without(t2, uniques(t2)')
      BY ONLY <1>4, <1>10, <2>12, <3>2
    <3>4. r[l] = K \o (<< f >> \o T2) /\ want'[l] = K \o without(<< f >> \o T2, uniques(<< f >> \o T2)')
      BY ONLY <2>4, <2>5, <2>9, <3>3
    <3> QED
      BY <3>1, <3>4 DEF UniqueAt
  <2>14. Others(r, {l})' /\ Spare(r)'
    BY <1>3, <1>10, <2>9, ObjectKinds DEF Others, Spare
  <2>15. Uniquing(r)'
    BY <1>2, <1>10, <2>8, <2>13, <2>14 DEF Uniquing
  <2>16. data' \in [Node -> Key \cup {NULL}]
    BY <2>1 DEF unlink, Types
  <2> QED
    BY <1>10, <2>1, <2>15, <2>16 DEF Loops, Doing, Types, Locals
<1>12. CASE data[f] # data[g]
  <2>1. UNCHANGED heap /\ local' = [local EXCEPT !.first = g]
    BY <1>3, <1>5, <1>12 DEF unique_pass, end, again
  <2>2. Holds(q)'
    BY <2>1, HoldsSame
  <2>3. PICK Kf \in Seq(Node) : Kf = K \o << f >>
    BY Regroup
  <2>4. q[l] = Kf \o T
    BY <1>4, <2>3, Regroup
  <2>5. want[l] = Kf \o without(T, Doubles(data', T))
    <3>1. Doubles(data, t) = Doubles(data, T) /\ data' = data
      BY <1>7, <1>12, <2>1 DEF heap
    <3>2. PICK W \in Seq(Node) : W = without(T, Doubles(data, T))
      BY WithoutSeq
    <3>3. K \o (<< f >> \o W) = (K \o << f >>) \o W
      BY Regroup
    <3> QED
      BY ONLY <1>4, <1>9, <2>3, <3>1, <3>2, <3>3
  <2>6. UniqueAt(q, l, g, Kf, T2)'
    <3>1. local' = [no_local EXCEPT !.this = l, !.first = g]
      <4>1. local = [no_local EXCEPT !.this = l, !.first = f]
        BY DEF UniqueAt
      <4> QED
        BY <2>1, <4>1 DEF no_local
    <3>2. uniques(T)' = Doubles(data', T)
      BY UniquesAreNow
    <3>3. want'[l] = Kf \o without(T, uniques(T)')
      BY ONLY <1>10, <2>5, <3>2
    <3>4. q[l] = Kf \o (<< g >> \o T2) /\ want'[l] = Kf \o without(<< g >> \o T2, uniques(<< g >> \o T2)')
      BY ONLY <1>2, <2>4, <3>3
    <3> QED
      BY <3>1, <3>4 DEF UniqueAt
  <2>7. Others(q, {l})' /\ Spare(q)'
    BY <1>10 DEF Others, Spare
  <2>8. Uniquing(q)'
    BY <1>2, <1>10, <2>2, <2>6, <2>7 DEF Uniquing
  <2>9. local' \in Locals
    BY <1>2, <2>1, Kinds DEF Types, Locals
  <2> QED
    BY <1>10, <2>1, <2>8, <2>9 DEF Loops, Doing, Types, heap, Locals
<1> QED
  BY <1>11, <1>12

\* Every pass of unique() leads to the next, or to what was wanted.
LEMMA UniquePass ==
    ASSUME Types, NEW q, Uniquing(q), unique_pass
    PROVE  Types' /\ Loops'
<1>1. Holds(q) /\ pc = "unique" /\ Spare(q)
  BY DEF Uniquing
<1>2. PICK l \in Object, f \in Node : Others(q, {l}) /\
          \E K \in Seq(Node), T \in Seq(Node) : UniqueAt(q, l, f, K, T)
  BY DEF Uniquing
<1>3. PICK K \in Seq(Node), T \in Seq(Node) : UniqueAt(q, l, f, K, T)
  BY <1>2
<1> QED
  BY <1>1, <1>2, <1>3, UniquePassEnd, UniquePassNext

-----------------------------------------------------------------------------
\* reverse() begins: no place has been turned.
LEMMA ReverseStarts ==
    ASSUME Types, NEW q, Idle(q), NEW l \in Object, reverse(l)
    PROVE  Types' /\ Loops'
<1>1. /\ Holds(q) /\ l \in ListObject /\ Spare(q)
      /\ \A m \in Object : q[m] = want[m]
      /\ want \in [Object -> Seq(Node)]
  BY ObjectKinds DEF Idle, Others, Types
<1>2. PICK t \in Seq(Node) : t = q[l] /\ t = want[l]
  BY <1>1
<1>3. PICK none \in Seq(Node) : none = << >>
  BY EmptyFacts
<1>4. none \o t = t
  BY <1>3, ConcatFacts
<1>5. /\ want' = [want EXCEPT ![l] = reversed(t)] /\ pc' = "reverse" /\ UNCHANGED heap
      /\ local' = [no_local EXCEPT !.this = l, !.first = l]
  BY <1>2 DEF reverse, call
<1>6. PICK nx, pv : nx = next /\ pv = prev
  OBVIOUS
<1>7. Shape(nx, pv, q, << >>) /\ InUse(q)'
  BY <1>1, <1>5, <1>6 DEF Holds, InUse, heap
<1>8. Turned(nx, pv, {})'
  BY <1>5, <1>6, <1>7 DEF Turned, Shape, heap
<1>9. ReverseAt(nx, pv, q, l, none, t)'
  <2>1. want'[l] = reversed(t)
    BY <1>1, <1>5
  <2>2. q[l] = none \o t /\ want'[l] = reversed(q[l])
    BY ONLY <1>2, <1>4, <2>1
  <2> QED
    BY <1>3, <1>5, <1>8, <2>2 DEF ReverseAt, reversed
<1>10. Others(q, {l})' /\ Spare(q)'
  BY <1>1, <1>5 DEF Others, Spare
<1>11. Reversing(nx, pv, q)'
  BY <1>5, <1>7, <1>9, <1>10 DEF Reversing
<1>12. Loops'
  BY <1>11 DEF Loops
<1>13. Types'
  <2>1. local' \in Locals
    BY <1>1, <1>5, Kinds DEF Locals, no_local
  <2>2. reversed(t) \in Seq(Node)
    BY ReversedFacts
  <2>3. want' \in [Object -> Seq(Node)] /\ data' = data
    BY <1>1, <1>5, <2>2 DEF heap
  <2> QED
    BY <2>1, <2>3 DEF Types, Locals
<1> QED
  BY <1>12, <1>13

\* One pass turns one place, and goes where it was linked to.
LEMMA TurnsOne ==
    ASSUME NEW nx, NEW pv, NEW D, Turned(nx, pv, D), NEW p \in Place, p \notin D,
           next' = [next EXCEPT ![p] = prev[p]], prev' = [prev EXCEPT ![p] = next[p]]
    PROVE  Turned(nx, pv, D \cup {p})' /\ next[p] = nx[p]
BY DEF Turned

\* reverse()'s loop is back at the header: the ring is that of the reversed list.
LEMMA ReverseEnds ==
    ASSUME Types, NEW nx, NEW pv, NEW q, Shape(nx, pv, q, << >>), InUse(q), Spare(q),
           NEW l \in Object, Others(q, {l}), want[l] = reversed(q[l]),
           Turned(nx, pv, {l} \cup Range(q[l]))', UNCHANGED data, return
    PROVE  Types' /\ Loops'
<1>1. l \in ListObject /\ q \in [ListObject -> Seq(Node)]
  BY ObjectKinds DEF Shape, Apart
<1>2. PICK t \in Seq(Node) : t = q[l]
  BY <1>1
<1>3. PICK u \in Seq(Node) : u = reversed(t) /\ Range(u) = Range(t)
  BY ReversedFacts
<1>4. PICK r : r = [q EXCEPT ![l] = u]
  OBVIOUS
<1>5. PICK D : D = {l} \cup Range(q[l])
  OBVIOUS
<1>6. Shape(next', prev', r, << >>)
  <2>1. Turned(nx, pv, D)'
    BY <1>5
  <2>3. PICK n2, p2 : n2 = next' /\ p2 = prev'
    OBVIOUS
  <2>4. TurnedTo(nx, pv, D, n2, p2)
    BY <2>1, <2>3 DEF Turned, TurnedTo
  <2>6. Shape(n2, p2, [q EXCEPT ![l] = reversed(q[l])], << >>)
    BY <1>1, <1>5, <2>4, ReverseKeeps
  <2> QED
    BY <1>2, <1>3, <1>4, <2>3, <2>6
<1>7. InUse(r)'
  <2>1. \A n : Used(r, << >>, n) <=> Used(q, << >>, n)
    <3> TAKE n
    <3>1. Used(r, << >>, n) <=> n \in Range(u) \/ \E m \in ListObject \ {l} : n \in Range(q[m])
      BY <1>1, <1>4, UsedBy
    <3>2. Used(q, << >>, n) <=> \E m \in ListObject : n \in Range(q[m])
      BY EmptyFacts DEF Used
    <3> QED
      BY <1>1, <1>2, <1>3, <3>1, <3>2
  <2> QED
    BY <2>1 DEF InUse
<1>8. Holds(r)'
  BY <1>6, <1>7 DEF Holds
<1>9. \A m \in ListObject : r[m] = IF m = l THEN u ELSE q[m]
  BY <1>1, <1>4
<1>10. pc' = "idle" /\ local' = no_local /\ want' = want
  BY DEF return
<1>11. \A m \in Object : r[m] = want'[m]
  BY <1>2, <1>3, <1>9, <1>10, ObjectKinds DEF Others
<1>12. \A m \in Temporary : r[m] = << >>
  BY <1>9, ObjectKinds DEF Spare
<1>13. Loops'
  BY <1>8, <1>10, <1>11, <1>12, ToIdle
<1>14. no_local \in Locals
  BY DEF no_local, Locals
<1> QED
  BY <1>10, <1>13, <1>14 DEF Types, Locals

\* reverse()'s loop goes on to the next node that is not turned.
LEMMA ReverseGoes ==
    ASSUME Types, NEW nx, NEW pv, NEW q, Shape(nx, pv, q, << >>), InUse(q), Spare(q), pc = "reverse",
           NEW l \in Object, Others(q, {l}), want[l] = reversed(q[l]),
           NEW K \in Seq(Node), NEW T \in Seq(Node), q[l] = K \o T, T # << >>,
           Turned(nx, pv, {l} \cup Range(K))', UNCHANGED data,
           again([no_local EXCEPT !.this = l, !.first = T[1]])
    PROVE  Types' /\ Loops'
<1>1. local' = [no_local EXCEPT !.this = l, !.first = T[1]] /\ pc' = "reverse" /\ want' = want
  BY DEF again
<1>2. InUse(q)' /\ Spare(q)' /\ Others(q, {l})'
  BY <1>1 DEF InUse, Spare, Others
<1>3. want'[l] = reversed(q[l])
  BY <1>1
<1>4. ReverseAt(nx, pv, q, l, K, T)'
  BY <1>1, <1>3 DEF ReverseAt, reversed
<1>5. Reversing(nx, pv, q)'
  BY <1>1, <1>2, <1>4 DEF Reversing
<1>6. T[1] \in Place /\ l \in ListObject
  BY SeqFacts, Kinds, ObjectKinds
<1>7. local' \in Locals
  BY <1>1, <1>6 DEF Locals, no_local
<1> QED
  BY <1>1, <1>5, <1>7 DEF Types, Loops, Locals

\* One pass: p is turned and K with it; T is what is left.
LEMMA ReverseStep ==
    ASSUME Types, NEW nx, NEW pv, NEW q, Shape(nx, pv, q, << >>), InUse(q), Spare(q), pc = "reverse",
           NEW l \in Object, Others(q, {l}), want[l] = reversed(q[l]),
           NEW K \in Seq(Node), NEW T \in Seq(Node), q[l] = K \o T, NEW p \in Place, NEW D, p \notin D,
           D \cup {p} = {l} \cup Range(K), Turned(nx, pv, D), nx[p] = Fst(T, l),
           local = [no_local EXCEPT !.this = l, !.first = p], reverse_pass
    PROVE  Types' /\ Loops'
<1>1. local.this = l /\ local.first = p /\ l \in ListObject
  BY ObjectKinds DEF no_local
<1>2. next' = [next EXCEPT ![p] = prev[p]] /\ prev' = [prev EXCEPT ![p] = next[p]] /\ UNCHANGED data
  BY <1>1 DEF reverse_pass
<1>3. Turned(nx, pv, D \cup {p})' /\ next[p] = nx[p]
  BY <1>2, TurnsOne
<1>4. Turned(nx, pv, {l} \cup Range(K))' /\ next[p] = Fst(T, l)
  BY <1>3
<1>5. CASE T = << >>
  <2>1. return
    BY <1>1, <1>4, <1>5 DEF reverse_pass, Fst
  <2>2. q[l] = K
    BY <1>5, ConcatFacts
  <2>3. Turned(nx, pv, {l} \cup Range(q[l]))'
    BY <1>4, <2>2
  <2> QED
    BY <1>2, <2>1, <2>3, ReverseEnds
<1>6. CASE T # << >>
  <2>1. Fst(T, l) = T[1] /\ T[1] # l
    BY <1>1, <1>6, SeqFacts, Kinds DEF Fst
  <2>2. again([local EXCEPT !.first = T[1]])
    BY <1>1, <1>4, <2>1 DEF reverse_pass
  <2>3. [local EXCEPT !.first = T[1]] = [no_local EXCEPT !.this = l, !.first = T[1]]
    BY DEF no_local
  <2>4. again([no_local EXCEPT !.this = l, !.first = T[1]])
    BY ONLY <2>2, <2>3 DEF again
  <2> QED
    BY <1>2, <1>4, <1>6, <2>4, ReverseGoes
<1> QED
  BY <1>5, <1>6

\* Every pass of reverse() leads to the next, or to what was wanted.
LEMMA ReversePass ==
    ASSUME Types, NEW nx, NEW pv, NEW q, Reversing(nx, pv, q), reverse_pass
    PROVE  Types' /\ Loops'
<1>1. Shape(nx, pv, q, << >>) /\ InUse(q) /\ pc = "reverse" /\ Spare(q)
  BY DEF Reversing
<1>2. PICK l \in Object : Others(q, {l}) /\
          \E K \in Seq(Node), T \in Seq(Node) : ReverseAt(nx, pv, q, l, K, T)
  BY DEF Reversing
<1>3. PICK K \in Seq(Node), T \in Seq(Node) : ReverseAt(nx, pv, q, l, K, T)
  BY <1>2
<1>4. q[l] = K \o T /\ want[l] = reversed(q[l]) /\ l \in ListObject
  BY <1>3, ObjectKinds DEF ReverseAt
<1>5. CASE K = << >> /\ Turned(nx, pv, {}) /\ local = [no_local EXCEPT !.this = l, !.first = l]
  <2>1. nx[l] = Fst(T, l)
    <3>1. Path(nx, pv, l, q[l], l) /\ q[l] = T
      BY <1>1, <1>4, <1>5, ConcatFacts DEF Shape
    <3> QED
      BY <3>1 DEF Path, Linked
  <2>2. {} \cup {l} = {l} \cup Range(K) /\ l \in Place
    BY <1>4, <1>5, EmptyFacts, Kinds
  <2> QED
    BY <1>1, <1>2, <1>4, <1>5, <2>1, <2>2, ReverseStep
<1>6. CASE /\ T # << >> /\ Turned(nx, pv, {l} \cup Range(K))
           /\ local = [no_local EXCEPT !.this = l, !.first = T[1]]
  <2>1. PICK f, T2 : Heads(T, f, T2)
    BY <1>6, HeadAndRest
  <2>2. f \in Node /\ T2 \in Seq(Node) /\ T = << f >> \o T2 /\ f = T[1]
    BY <2>1 DEF Heads
  <2>3. PICK F \in Seq(Node) : F = << f >> /\ Range(F) = {f}
    BY <2>2, OneNode
  <2>4. PICK K2 \in Seq(Node) : K2 = K \o F /\ Range(K2) = Range(K) \cup {f}
    <3>1. K \o F \in Seq(Node) /\ Range(K \o F) = Range(K) \cup Range(F)
      BY ConcatFacts
    <3> QED
      BY <2>3, <3>1
  <2>5. q[l] = K2 \o T2
    <3>1. K \o (<< f >> \o T2) = (K \o << f >>) \o T2
      BY <2>2, RegroupIs
    <3> QED
      BY ONLY <1>4, <2>2, <2>3, <2>4, <3>1
  <2>6. nx[f] = Fst(T2, l)
    <3>1. q[l] = K \o (<< f >> \o T2)
      BY <1>4, <2>2
    <3>2. Around(nx, pv, Lst(l, K), f, Fst(T2, l))
      BY <1>1, <1>4, <2>2, <3>1, Neighbours
    <3> QED
      BY <3>2 DEF Around
  <2>7. f \notin {l} \cup Range(K) /\ f \in Place
    <3>1. IsInjective(q[l])
      BY <1>1, <1>4 DEF Shape, Apart
    <3>2. IsInjective(K2 \o T2)
      BY <2>5, <3>1
    <3>3. IsInjective(K2)
      BY <2>2, <3>2, InjectiveConcat
    <3>4. IsInjective(K \o F)
      BY <2>4, <3>3
    <3>5. Range(K) \cap Range(F) = {}
      BY <3>4, InjectiveConcat
    <3> QED
      BY <1>4, <2>2, <2>3, <3>5, Kinds
  <2>8. PICK D : D = {l} \cup Range(K)
    OBVIOUS
  <2>9. D \cup {f} = {l} \cup Range(K2) /\ f \notin D /\ Turned(nx, pv, D)
    BY <1>6, <2>4, <2>7, <2>8
  <2>10. local = [no_local EXCEPT !.this = l, !.first = f]
    BY <1>6, <2>2
  <2> QED
    BY <1>1, <1>2, <1>4, <2>2, <2>5, <2>6, <2>7, <2>9, <2>10, ReverseStep
<1> QED
  BY <1>3, <1>5, <1>6 DEF ReverseAt

-----------------------------------------------------------------------------
\* The order of the positions in a sequence of different nodes

\* Lt compares places in the goal W.
LEMMA LtIs ==
    ASSUME NEW W \in Seq(Node), IsInjective(W), NEW i \in 1..Len(W), NEW j \in 1..Len(W)
    PROVE  Lt(W, W[i], W[j]) <=> i < j
<1>1. \A k, m \in 1..Len(W) : W[k] = W[m] => k = m
  BY SeqFacts DEF IsInjective
<1> QED
  BY <1>1 DEF Lt

\* A node of W has a place in it.
LEMMA InRange ==
    ASSUME NEW W \in Seq(Node), NEW a
    PROVE  a \in Range(W) <=> \E i \in 1..Len(W) : a = W[i]
BY SeqFacts

\* Lt is a total order of the nodes of W,
LEMMA LtOrder ==
    ASSUME NEW W \in Seq(Node), IsInjective(W), NEW a \in Range(W), NEW b \in Range(W)
    PROVE  /\ Lt(W, a, b) => ~Lt(W, b, a) /\ a # b
           /\ Lt(W, a, b) \/ Lt(W, b, a) \/ a = b
<1>1. PICK i \in 1..Len(W) : a = W[i]
  BY InRange
<1>2. PICK j \in 1..Len(W) : b = W[j]
  BY InRange
<1>3. (Lt(W, a, b) <=> i < j) /\ (Lt(W, b, a) <=> j < i)
  BY <1>1, <1>2, LtIs
<1>4. a = b <=> i = j
  <2>1. \A k, m \in 1..Len(W) : W[k] = W[m] => k = m
    BY SeqFacts DEF IsInjective
  <2> QED
    BY <1>1, <1>2, <2>1
<1>5. i \in Int /\ j \in Int
  OBVIOUS
<1> QED
  BY ONLY <1>3, <1>4, <1>5

\* of no others,
LEMMA LtRange ==
    ASSUME NEW W \in Seq(Node), NEW a, NEW b, Lt(W, a, b)
    PROVE  a \in Range(W) /\ b \in Range(W)
BY InRange DEF Lt

\* and transitive.
LEMMA LtTransitive ==
    ASSUME NEW W \in Seq(Node), IsInjective(W), NEW a, NEW b, NEW c, Lt(W, a, b), Lt(W, b, c)
    PROVE  Lt(W, a, c)
<1>1. PICK i \in 1..Len(W), j \in 1..Len(W) : i < j /\ a = W[i] /\ b = W[j]
  BY DEF Lt
<1>2. PICK k \in 1..Len(W) : c = W[k]
  BY InRange, LtRange
<1>3. j < k
  BY <1>1, <1>2, LtIs
<1> QED
  BY <1>1, <1>2, <1>3 DEF Lt

\* A goal is in the order of the elements.
LEMMA LtData ==
    ASSUME NEW W, Goal(W), NEW a, NEW b, Lt(W, a, b)
    PROVE  data[a] <= data[b]
BY DEF Goal, Lt

\* Which of two nodes comes first is seen from the elements, if they are different.
LEMMA LtFirst ==
    ASSUME NEW W, Goal(W), NEW a \in Range(W), NEW b \in Range(W), a # b,
           data[a] \in Int, data[b] \in Int, data[a] = data[b] => Lt(W, a, b)
    PROVE  data[a] <= data[b] <=> Lt(W, a, b)
<1>1. /\ Lt(W, a, b) => data[a] <= data[b]
      /\ Lt(W, b, a) => data[b] <= data[a]
  BY LtData
<1>2. (Lt(W, a, b) => ~Lt(W, b, a)) /\ (Lt(W, a, b) \/ Lt(W, b, a) \/ a = b)
  BY LtOrder DEF Goal
<1> QED
  BY ONLY <1>1, <1>2, a # b, data[a] \in Int, data[b] \in Int, data[a] = data[b] => Lt(W, a, b)

\* In two pieces
LEMMA AscendsConcat ==
    ASSUME NEW W, NEW s \in Seq(Node), NEW t \in Seq(Node)
    PROVE  Ascends(W, s \o t) <=> Ascends(W, s) /\ Ascends(W, t) /\ Before(W, s, t)
<1>1. PICK n \in Nat, m \in Nat : n = Len(s) /\ m = Len(t)
  BY SeqFacts
<1>2. PICK u \in Seq(Node) : u = s \o t
  BY ConcatFacts
<1>3. Len(u) = n + m /\ (\A i \in 1..n : u[i] = s[i]) /\ \A i \in 1..m : u[i + n] = t[i]
  BY <1>1, <1>2, ConcatFacts
<1> DEFINE L(a, b) == Lt(W, a, b)
<1>4. Ascends(W, u) <=> \A i, j \in 1..(n + m) : i < j => L(u[i], u[j])
  BY <1>3 DEF Ascends
<1>5. Ascends(W, s) <=> \A i, j \in 1..n : i < j => L(s[i], s[j])
  BY <1>1 DEF Ascends
<1>6. Ascends(W, t) <=> \A i, j \in 1..m : i < j => L(t[i], t[j])
  BY <1>1 DEF Ascends
<1>7. Before(W, s, t) <=> \A i \in 1..n, j \in 1..m : L(s[i], t[j])
  <2>1. Range(s) = {s[i] : i \in 1..n} /\ Range(t) = {t[i] : i \in 1..m}
    BY <1>1, SeqFacts
  <2> QED
    BY <2>1 DEF Before
<1> HIDE DEF L
<1>8. ASSUME \A i, j \in 1..(n + m) : i < j => L(u[i], u[j])
      PROVE  /\ \A i, j \in 1..n : i < j => L(s[i], s[j])
             /\ \A i, j \in 1..m : i < j => L(t[i], t[j])
             /\ \A i \in 1..n, j \in 1..m : L(s[i], t[j])
  <2>1. \A i, j \in 1..n : i < j => L(s[i], s[j])
    BY <1>3, <1>8
  <2>2. ASSUME NEW i \in 1..m, NEW j \in 1..m, i < j
        PROVE  L(t[i], t[j])
    <3>1. i + n \in 1..(n + m) /\ j + n \in 1..(n + m) /\ i + n < j + n
      BY <2>2
    <3>2. L(u[i + n], u[j + n])
      BY <1>8, <3>1
    <3> QED
      BY <1>3, <3>2
  <2>3. ASSUME NEW i \in 1..n, NEW j \in 1..m
        PROVE  L(s[i], t[j])
    <3>1. i \in 1..(n + m) /\ j + n \in 1..(n + m) /\ i < j + n
      OBVIOUS
    <3>2. L(u[i], u[j + n])
      BY <1>8, <3>1
    <3> QED
      BY <1>3, <3>2
  <2> QED
    BY <2>1, <2>2, <2>3
<1>9. ASSUME /\ \A i, j \in 1..n : i < j => L(s[i], s[j])
             /\ \A i, j \in 1..m : i < j => L(t[i], t[j])
             /\ \A i \in 1..n, j \in 1..m : L(s[i], t[j])
      PROVE  \A i, j \in 1..(n + m) : i < j => L(u[i], u[j])
  <2> SUFFICES ASSUME NEW i \in 1..(n + m), NEW j \in 1..(n + m), i < j
               PROVE  L(u[i], u[j])
    OBVIOUS
  <2>1. CASE j \in 1..n
    <3>1. i \in 1..n
      BY <2>1
    <3> QED
      BY <1>3, <1>9, <2>1, <3>1
  <2>2. CASE j \notin 1..n
    <3>1. PICK b \in 1..m : j = b + n
      <4>1. j - n \in 1..m /\ j = j - n + n
        BY <2>2
      <4> QED
        BY <4>1
    <3>2. CASE i \in 1..n
      BY <1>3, <1>9, <3>1, <3>2
    <3>3. CASE i \notin 1..n
      <4>1. PICK a \in 1..m : i = a + n
        <5>1. i - n \in 1..m /\ i = i - n + n
          BY <3>3
        <5> QED
          BY <5>1
      <4>2. a < b
        BY <3>1, <4>1
      <4> QED
        BY <1>3, <1>9, <3>1, <4>1, <4>2
    <3> QED
      BY <3>2, <3>3
  <2> QED
    BY <2>1, <2>2
<1> QED
  BY ONLY <1>2, <1>4, <1>5, <1>6, <1>7, <1>8, <1>9

\* A sequence in the order of W that has all its nodes is W.
LEMMA AscendsAll ==
    ASSUME NEW W \in Seq(Node), IsInjective(W), NEW u \in Seq(Node), Ascends(W, u), Range(u) = Range(W)
    PROVE  u = W
<1>1. PICK n \in Nat, m \in Nat : n = Len(W) /\ m = Len(u)
  BY SeqFacts
<1>2. \A i, j \in 1..n : W[i] = W[j] => i = j
  BY <1>1, SeqFacts DEF IsInjective
<1>3. (\A i \in 1..n : \E j \in 1..m : W[i] = u[j]) /\ (\A j \in 1..m : \E i \in 1..n : u[j] = W[i])
  <2>1. Range(u) = {u[i] : i \in 1..m} /\ Range(W) = {W[i] : i \in 1..n}
    BY <1>1, SeqFacts
  <2> QED
    BY <2>1
<1>4. \A i, j \in 1..m : i < j => \E a, b \in 1..n : a < b /\ u[i] = W[a] /\ u[j] = W[b]
  BY <1>1 DEF Ascends, Lt
<1> DEFINE Q == {k \in Nat : \A i \in 1..k : i <= n => i <= m /\ u[i] = W[i]}
<1>5. 0 \in Q
  OBVIOUS
<1>6. ASSUME NEW k \in Nat, k \in Q
      PROVE  k + 1 \in Q
  <2>1. \A i \in 1..k : i <= n => i <= m /\ u[i] = W[i]
    BY <1>6
  <2> HIDE DEF Q
  <2>2. ASSUME k + 1 <= n
        PROVE  k + 1 <= m /\ u[k + 1] = W[k + 1]
    <3>1. PICK c : c = k + 1
      OBVIOUS
    <3>2. c \in 1..n
      BY <2>2, <3>1
    <3>3. \A i \in Int : 1 <= i /\ i < c => i <= m /\ u[i] = W[i] /\ i \in 1..n /\ i \in 1..m
      BY <2>1, <2>2, <3>1
    <3>4. PICK j \in 1..m : W[c] = u[j]
      BY <1>3, <3>2
    <3>5. ~(j < c)
      <4> SUFFICES ASSUME j < c
                   PROVE  FALSE
        OBVIOUS
      <4>1. u[j] = W[j] /\ j \in 1..n
        BY <3>3
      <4>2. j = c
        BY ONLY <1>2, <3>2, <3>4, <4>1
      <4> QED
        BY <4>2
    <3>6. c \in 1..m
      BY <3>2, <3>5
    <3>7. ~(c < j)
      <4> SUFFICES ASSUME c < j
                   PROVE  FALSE
        OBVIOUS
      <4>1. PICK a \in 1..n, b \in 1..n : a < b /\ u[c] = W[a] /\ u[j] = W[b]
        BY <1>4, <3>6
      <4>2. b = c
        BY ONLY <1>2, <3>2, <3>4, <4>1
      <4>3. u[a] = W[a] /\ a \in 1..m
        BY <3>3, <4>1, <4>2
      <4>4. PICK d \in 1..n, e \in 1..n : d < e /\ u[a] = W[d] /\ u[c] = W[e]
        BY <1>4, <3>6, <4>1, <4>2, <4>3
      <4>5. d = a /\ e = a
        BY ONLY <1>2, <4>1, <4>3, <4>4
      <4> QED
        BY <4>4, <4>5
    <3>8. j = c
      BY <3>2, <3>5, <3>7
    <3> QED
      BY <3>1, <3>4, <3>6, <3>8
  <2>3. \A i \in 1..(k + 1) : i <= n => i <= m /\ u[i] = W[i]
    BY <2>1, <2>2
  <2> QED
    BY <2>3 DEF Q
<1>7. \A k \in Nat : k \in Q
  <2> HIDE DEF Q
  <2> QED
    BY <1>5, <1>6, NumberInduction
<1>8. \A i \in 1..n : i <= m /\ u[i] = W[i]
  <2>1. n \in Q
    BY <1>7
  <2> QED
    BY <2>1
<1> HIDE DEF Q
<1>9. n <= m
  <2>1. n = 0 \/ n \in 1..n
    OBVIOUS
  <2> QED
    BY <1>8, <2>1
<1>10. m <= n
  <2> SUFFICES ASSUME ~(m <= n)
               PROVE  FALSE
    OBVIOUS
  <2>1. PICK c : c = n + 1
    OBVIOUS
  <2>2. c \in 1..m /\ \A i \in 1..n : i < c /\ i \in 1..m
    BY <2>1
  <2>3. PICK i \in 1..n : u[c] = W[i]
    BY <1>3, <2>2
  <2>4. u[i] = W[i]
    BY <1>8
  <2>5. PICK a \in 1..n, b \in 1..n : a < b /\ u[i] = W[a] /\ u[c] = W[b]
    BY <1>4, <2>2
  <2>6. a = i /\ b = i
    BY ONLY <1>2, <2>3, <2>4, <2>5
  <2> QED
    BY <2>5, <2>6
<1>11. m = n
  BY <1>9, <1>10
<1> QED
  BY <1>1, <1>8, <1>11, SeqEqual

\* What ascends from one node to the next ascends altogether.
LEMMA AscendingAll ==
    ASSUME NEW t \in Seq(Node), \A n \in Range(t) : data[n] \in Int,
           \A k \in 1..(Len(t) - 1) : data[t[k]] <= data[t[k + 1]],
           NEW i \in 1..Len(t), NEW j \in 1..Len(t), i < j
    PROVE  data[t[i]] <= data[t[j]]
<1>1. PICK n \in Nat : n = Len(t)
  BY SeqFacts
<1>2. PICK e : e = [k \in 1..n |-> data[t[k]]]
  OBVIOUS
<1>3. \A k \in 1..n : e[k] = data[t[k]] /\ e[k] \in Int
  BY <1>1, <1>2, SeqFacts
<1>4. \A k \in 1..(n - 1) : e[k] <= e[k + 1]
  BY <1>1, <1>3
<1> DEFINE Q == {k \in Nat : i + k <= n => e[i] <= e[i + k]}
<1>5. 0 \in Q
  BY <1>1, <1>3
<1>6. ASSUME NEW k \in Nat, k \in Q
      PROVE  k + 1 \in Q
  <2> SUFFICES ASSUME i + (k + 1) <= n
               PROVE  e[i] <= e[i + (k + 1)]
    OBVIOUS
  <2>1. PICK c : c = i + k
    OBVIOUS
  <2>2. c \in 1..(n - 1) /\ c \in 1..n /\ c + 1 \in 1..n /\ i + (k + 1) = c + 1 /\ i \in 1..n /\ i + k <= n
    BY <1>1, <2>1
  <2>3. e[i] <= e[c] /\ e[c] <= e[c + 1]
    BY <1>4, <1>6, <2>1, <2>2
  <2> QED
    BY <1>3, <2>2, <2>3
<1>7. \A k \in Nat : k \in Q
  <2> HIDE DEF Q
  <2> QED
    BY <1>5, <1>6, NumberInduction
<1>8. j - i \in Nat /\ i + (j - i) = j /\ j <= n
  BY <1>1
<1>9. e[i] <= e[j]
  <2>1. j - i \in Q
    BY <1>7, <1>8
  <2> QED
    BY <1>8, <2>1
<1> QED
  BY <1>1, <1>3, <1>9

\* Nodes that the goal has in the order they began in, with elements that ascend, ascend in the goal.
LEMMA AscendsByData ==
    ASSUME NEW W, Goal(W), NEW t \in Seq(Node), IsInjective(t), Range(t) \subseteq Range(W), InOrder(W, t),
           \A n \in Range(t) : data[n] \in Int,
           \A k \in 1..(Len(t) - 1) : data[t[k]] <= data[t[k + 1]]
    PROVE  Ascends(W, t)
<1> SUFFICES ASSUME NEW i \in 1..Len(t), NEW j \in 1..Len(t), i < j
             PROVE  Lt(W, t[i], t[j])
  BY DEF Ascends
<1>1. PICK a, b : a = t[i] /\ b = t[j]
  OBVIOUS
<1>2. a \in Range(t) /\ b \in Range(t) /\ a # b
  <2>1. Len(t) \in Nat
    BY SeqFacts
  <2> QED
    BY <1>1, <2>1, SeqFacts DEF IsInjective
<1>3. data[a] <= data[b]
  BY <1>1, AscendingAll
<1>4. data[a] = data[b] => Lt(W, a, b)
  BY <1>1 DEF InOrder
<1>5. a \in Range(W) /\ b \in Range(W) /\ data[a] \in Int /\ data[b] \in Int
  BY <1>2
<1>6. data[a] <= data[b] <=> Lt(W, a, b)
  BY <1>2, <1>4, <1>5, LtFirst
<1> QED
  BY <1>1, <1>3, <1>6

-----------------------------------------------------------------------------
\* sorted() puts the nodes in the order of their elements, and of their places in s.
Smaller(s, j, k) ==
    data[s[j]] < data[s[k]] \/ (data[s[j]] = data[s[k]] /\ j < k)

\* A stable sort puts no two elements in the same place.
LEMMA Ranks ==
    ASSUME NEW s \in Seq(Node), \A n \in Range(s) : data[n] \in Int, NEW k \in 1..Len(s)
    PROVE  /\ rank(s, k) \in 1..Len(s)
           /\ \A j \in 1..Len(s) : Smaller(s, j, k) => rank(s, j) < rank(s, k)
<1>1. PICK n \in Nat : n = Len(s) /\ DOMAIN s = 1..n
  BY SeqFacts
<1>2. \A j \in 1..n : data[s[j]] \in Int
  BY <1>1, SeqFacts
<1> DEFINE S(i) == {j \in 1..n : data[s[j]] < data[s[i]] \/ (data[s[j]] = data[s[i]] /\ j <= i)}
<1>3. \A i : rank(s, i) = Cardinality(S(i))
  BY <1>1 DEF rank
<1>4. IsFiniteSet(1..n) /\ Cardinality(1..n) = n
  <2>1. IsFiniteSet(1..n) /\ Cardinality(1..n) = IF 1 > n THEN 0 ELSE n - 1 + 1
    BY FS_Interval
  <2>2. n = IF 1 > n THEN 0 ELSE n - 1 + 1
    BY <1>1
  <2> QED
    BY <2>1, <2>2
<1>5. \A i \in 1..n : IsFiniteSet(S(i)) /\ Cardinality(S(i)) <= n /\ i \in S(i)
  <2> SUFFICES ASSUME NEW i \in 1..n
               PROVE  IsFiniteSet(S(i)) /\ Cardinality(S(i)) <= n /\ i \in S(i)
    OBVIOUS
  <2>1. S(i) \in SUBSET (1..n) /\ i \in S(i)
    BY <1>2
  <2> HIDE DEF S
  <2> QED
    BY <1>4, <2>1, FS_Subset
<1>6. \A i \in 1..n : Cardinality(S(i)) \in 1..n
  <2> SUFFICES ASSUME NEW i \in 1..n
               PROVE  Cardinality(S(i)) \in 1..n
    OBVIOUS
  <2> HIDE DEF S
  <2>1. Cardinality(S(i)) \in Nat
    BY <1>5, FS_CardinalityType
  <2>2. Cardinality(S(i)) # 0
    BY <1>5, FS_EmptySet
  <2> QED
    BY <1>5, <2>1, <2>2
<1>7. ASSUME NEW j \in 1..n, Smaller(s, j, k)
      PROVE  Cardinality(S(j)) < Cardinality(S(k))
  <2>1. k \in 1..n
    BY <1>1
  <2>2. S(j) \subseteq S(k) /\ k \notin S(j)
    BY <1>2, <1>7, <2>1 DEF Smaller
  <2> HIDE DEF S
  <2>3. S(j) \in SUBSET S(k) /\ S(k) # S(j) /\ IsFiniteSet(S(k))
    BY <1>5, <2>1, <2>2
  <2>4. Cardinality(S(j)) <= Cardinality(S(k)) /\ Cardinality(S(k)) # Cardinality(S(j))
    BY <2>3, FS_Subset
  <2>5. Cardinality(S(j)) \in Int /\ Cardinality(S(k)) \in Int
    BY <1>6, <2>1
  <2> QED
    BY <2>4, <2>5
<1> HIDE DEF S
<1> QED
  BY <1>1, <1>3, <1>6, <1>7

\* W holds the nodes of s, ascending, and equal elements as they are in s.
Sorts(s, W) ==
    /\ Goal(W) /\ Len(W) = Len(s) /\ Range(W) = Range(s) /\ InOrder(W, s)

\* sorted() has the same nodes, by their elements, and equal ones as they were.
LEMMA SortedIs ==
    ASSUME NEW s \in Seq(Node), IsInjective(s), \A n \in Range(s) : data[n] \in Int, NEW W, W = sorted(s)
    PROVE  Sorts(s, W)
<1>1. PICK n \in Nat : n = Len(s) /\ DOMAIN s = 1..n
  BY SeqFacts
<1>2. \A j \in 1..n : data[s[j]] \in Int /\ s[j] \in Node
  BY <1>1, SeqFacts
<1>3. \A i, j \in 1..n : s[i] = s[j] => i = j
  BY <1>1 DEF IsInjective
<1>4. \A k \in 1..n : rank(s, k) \in 1..n
  BY <1>1, Ranks
<1>5. \A j, k \in 1..n : Smaller(s, j, k) => rank(s, j) < rank(s, k)
  BY <1>1, Ranks
<1>6. \A j, k \in 1..n : Smaller(s, j, k) \/ Smaller(s, k, j) \/ j = k
  BY <1>2 DEF Smaller
<1>7. PICK h : h = [k \in 1..n |-> rank(s, k)]
  OBVIOUS
<1>8. h \in [1..n -> 1..n] /\ \A k \in 1..n : h[k] = rank(s, k)
  BY <1>4, <1>7
<1>9. \A j, k \in 1..n : Smaller(s, j, k) <=> h[j] < h[k]
  <2>1. \A j, k \in 1..n : Smaller(s, j, k) => h[j] < h[k]
    BY <1>5, <1>8
  <2>2. ASSUME NEW j \in 1..n, NEW k \in 1..n
        PROVE  Smaller(s, j, k) <=> h[j] < h[k]
    <3>1. h[j] \in Int /\ h[k] \in Int
      BY <1>8
    <3>2. Smaller(s, j, k) => h[j] < h[k]
      BY <2>1
    <3>3. Smaller(s, k, j) => h[k] < h[j]
      BY <2>1
    <3>4. Smaller(s, j, k) \/ Smaller(s, k, j) \/ j = k
      BY <1>6
    <3> QED
      BY ONLY <3>1, <3>2, <3>3, <3>4
  <2> QED
    BY <2>2
<1>10. \A j, k \in 1..n : h[j] = h[k] => j = k
  BY ONLY <1>6, <1>8, <1>9
<1>11. \A r \in 1..n : \E k \in 1..n : h[k] = r
  <2>1. IsFiniteSet(1..n)
    BY FS_Interval
  <2>2. h \in Injection(1..n, 1..n)
    BY <1>8, <1>10 DEF Injection, IsInjective
  <2>3. h \in Surjection(1..n, 1..n)
    BY <2>1, <2>2, FS_Injection
  <2> QED
    BY <2>3 DEF Surjection
<1>12. W = [r \in 1..n |-> s[CHOOSE k \in 1..n : rank(s, k) = r]]
  BY <1>1 DEF sorted
<1>13. \A r \in 1..n : W[r] = s[CHOOSE k \in 1..n : rank(s, k) = r]
  BY <1>12
<1>14. \A r \in 1..n : \E k \in 1..n : h[k] = r /\ W[r] = s[k]
  <2> SUFFICES ASSUME NEW r \in 1..n
               PROVE  \E k \in 1..n : h[k] = r /\ W[r] = s[k]
    OBVIOUS
  <2>1. \E k \in 1..n : rank(s, k) = r
    BY <1>8, <1>11
  <2>2. PICK k \in 1..n : k = (CHOOSE i \in 1..n : rank(s, i) = r) /\ rank(s, k) = r
    BY <2>1
  <2> QED
    BY <1>8, <1>13, <2>2
<1>15. \A k \in 1..n : W[h[k]] = s[k]
  BY <1>8, <1>10, <1>14
<1>16. W \in Seq(Node) /\ Len(W) = n /\ DOMAIN W = 1..n
  <2>1. \A r \in 1..n : W[r] \in Node
    BY <1>2, <1>14
  <2>2. W \in [1..n -> Node]
    BY <1>12, <2>1
  <2> QED
    BY <2>2
<1>17. \A i, j \in 1..n : i < j =>
          \E k, m \in 1..n : Smaller(s, k, m) /\ W[i] = s[k] /\ W[j] = s[m]
  <2> SUFFICES ASSUME NEW i \in 1..n, NEW j \in 1..n, i < j
               PROVE  \E k, m \in 1..n : Smaller(s, k, m) /\ W[i] = s[k] /\ W[j] = s[m]
    OBVIOUS
  <2>1. PICK k \in 1..n : h[k] = i /\ W[i] = s[k]
    BY <1>14
  <2>2. PICK m \in 1..n : h[m] = j /\ W[j] = s[m]
    BY <1>14
  <2> QED
    BY <1>9, <2>1, <2>2
<1>18. IsInjective(W)
  <2>1. ASSUME NEW i \in 1..n, NEW j \in 1..n, W[i] = W[j]
        PROVE  i = j
    <3>1. PICK k \in 1..n : h[k] = i /\ W[i] = s[k]
      BY <1>14
    <3>2. PICK m \in 1..n : h[m] = j /\ W[j] = s[m]
      BY <1>14
    <3>3. k = m
      BY <1>3, <2>1, <3>1, <3>2
    <3> QED
      BY <3>1, <3>2, <3>3
  <2> QED
    BY <1>16, <2>1 DEF IsInjective
<1>19. \A i, j \in 1..n : i < j => data[W[i]] <= data[W[j]]
  <2>1. \A k, m \in 1..n : Smaller(s, k, m) => data[s[k]] <= data[s[m]]
    BY <1>2 DEF Smaller
  <2>2. ASSUME NEW i \in 1..n, NEW j \in 1..n, i < j
        PROVE  data[W[i]] <= data[W[j]]
    <3>1. PICK k \in 1..n, m \in 1..n : Smaller(s, k, m) /\ W[i] = s[k] /\ W[j] = s[m]
      BY <1>17, <2>2
    <3>2. data[s[k]] <= data[s[m]]
      BY <2>1, <3>1
    <3> QED
      BY ONLY <3>1, <3>2
  <2> QED
    BY <2>2
<1>20. Goal(W)
  BY <1>16, <1>18, <1>19 DEF Goal
<1>21. Range(W) = Range(s)
  <2>1. Range(s) = {s[k] : k \in 1..n}
    BY <1>1, SeqFacts
  <2>2. Range(W) = {W[k] : k \in 1..n}
    BY <1>16, SeqFacts
  <2>3. \A r \in 1..n : W[r] \in Range(s)
    BY <1>14, <2>1
  <2>4. \A k \in 1..n : s[k] \in Range(W)
    <3> SUFFICES ASSUME NEW k \in 1..n
                 PROVE  s[k] \in Range(W)
      OBVIOUS
    <3>1. PICK r \in 1..n : r = h[k]
      BY <1>8
    <3>2. W[r] = s[k]
      BY <1>15, <3>1
    <3> QED
      BY <2>2, <3>2
  <2> QED
    BY <2>1, <2>2, <2>3, <2>4
<1>22. InOrder(W, s)
  <2> SUFFICES ASSUME NEW i \in 1..n, NEW j \in 1..n, i < j, data[s[i]] = data[s[j]]
               PROVE  Lt(W, s[i], s[j])
    BY <1>1 DEF InOrder
  <2>1. Smaller(s, i, j)
    BY DEF Smaller
  <2>2. h[i] < h[j] /\ h[i] \in 1..n /\ h[j] \in 1..n
    BY <1>8, <1>9, <2>1
  <2>3. W[h[i]] = s[i] /\ W[h[j]] = s[j]
    BY <1>15
  <2> QED
    BY <1>16, <2>2, <2>3 DEF Lt
<1> QED
  BY <1>1, <1>16, <1>20, <1>21, <1>22 DEF Sorts

-----------------------------------------------------------------------------
\* Two lists that are merged in the order of W

\* A node that a list holds has an element.
LEMMA HeldData ==
    ASSUME Types, NEW q, Holds(q), NEW l \in ListObject, NEW n \in Range(q[l])
    PROVE  data[n] \in Key /\ data[n] \in Int
<1>1. q[l] \in Seq(Node) /\ \A m \in Node : data[m] = NULL <=> ~\E k \in ListObject : m \in Range(q[k])
  BY HeldLists
<1>2. n \in Node
  BY <1>1, SeqFacts
<1>3. data[n] # NULL
  BY <1>1, <1>2
<1> QED
  BY <1>2, <1>3, StlListAssumption DEF Types

PairOf(q, W, l, x) ==
    /\ Goal(W) /\ Range(q[l]) \cup Range(q[x]) \subseteq Range(W)
    /\ Ascends(W, q[l]) /\ Ascends(W, q[x]) /\ Stable(W, q[l], q[x])

\* What merge() knows of the two lists it merges
LEMMA PairIs ==
    ASSUME NEW q, NEW W
    PROVE  Pair(q, W) <=>
              /\ PairOf(q, W, local.this, local.x)
              /\ \E K \in Seq(Node), T \in Seq(Node), U \in Seq(Node) : MergeAt(q, W, K, T, U)
BY DEF Pair, PairOf

\* merge() begins at the beginning of both lists.
LEMMA PairStarts ==
    ASSUME NEW q, Holds(q), NEW l \in ListObject, NEW x \in ListObject, l # x, NEW W, PairOf(q, W, l, x),
           UNCHANGED heap, local'.this = l, local'.x = x, local'.first = begin(l), local'.first2 = begin(x)
    PROVE  Pair(q, W)'
<1>1. PICK none \in Seq(Node) : none = << >>
  BY EmptyFacts
<1>2. q[l] \in Seq(Node) /\ q[x] \in Seq(Node)
  BY HeldLists
<1>3. none \o q[l] = q[l]
  BY <1>1, <1>2, ConcatFacts
<1>4. local'.first = Fst(q[l], l) /\ local'.first2 = Fst(q[x], x)
  BY HeldContents DEF begin
<1>5. Before(W, none, q[x])
  BY <1>1, EmptyFacts DEF Before
<1>6. MergeAt(q, W, none, q[l], q[x])'
  BY <1>3, <1>4, <1>5 DEF MergeAt, Before, Lt, Fst
<1>7. PairOf(q, W, l, x)'
  BY DEF PairOf, Goal, Stable, Ascends, Lt, heap
<1> QED
  BY <1>1, <1>2, <1>6, <1>7 DEF Pair, PairOf

\* What a pass does to the lists: nodes go from x to l.
Merges(q, r, l, x) ==
    /\ \A m \in ListObject : m # l /\ m # x => r[m] = q[m]
    /\ Range(r[l]) \cup Range(r[x]) = Range(q[l]) \cup Range(q[x])
    /\ Range(r[x]) \subseteq Range(q[x])
    /\ Len(r[l]) + Len(r[x]) = Len(q[l]) + Len(q[x])

Merged(q, W, l, x) == \E r : Holds(r)' /\ Pair(r, W)' /\ Merges(q, r, l, x)

\* No node has moved yet.
LEMMA MergesSame ==
    ASSUME NEW q, NEW l, NEW x
    PROVE  Merges(q, q, l, x)
BY DEF Merges

\* One node and others in the order of W
LEMMA AscendsHead ==
    ASSUME NEW W, NEW g \in Node, NEW t \in Seq(Node)
    PROVE  Ascends(W, << g >> \o t) <=> Ascends(W, t) /\ \A n \in Range(t) : Lt(W, g, n)
<1>1. PICK G \in Seq(Node) : G = << g >> /\ Range(G) = {g} /\ Len(G) = 1
  BY OneNode
<1>2. Ascends(W, G \o t) <=> Ascends(W, G) /\ Ascends(W, t) /\ Before(W, G, t)
  BY AscendsConcat
<1>3. Ascends(W, G)
  BY <1>1 DEF Ascends
<1>4. Before(W, G, t) <=> \A n \in Range(t) : Lt(W, g, n)
  BY <1>1 DEF Before
<1> QED
  BY <1>1, <1>2, <1>3, <1>4

\* The nodes with one in front
LEMMA HeadRange ==
    ASSUME NEW g \in Node, NEW t \in Seq(Node)
    PROVE  Range(<< g >> \o t) = {g} \cup Range(t) /\ Len(<< g >> \o t) = Len(t) + 1
<1>1. PICK G \in Seq(Node) : G = << g >> /\ Range(G) = {g} /\ Len(G) = 1
  BY OneNode
<1>2. Range(G \o t) = Range(G) \cup Range(t) /\ Len(G \o t) = Len(G) + Len(t) /\ Len(t) \in Nat
  BY ConcatFacts, SeqFacts
<1> QED
  BY <1>1, <1>2

\* The nodes with one behind
LEMMA TailRange ==
    ASSUME NEW t \in Seq(Node), NEW g \in Node
    PROVE  t \o << g >> \in Seq(Node) /\ Range(t \o << g >>) = Range(t) \cup {g}
<1>1. PICK G \in Seq(Node) : G = << g >> /\ Range(G) = {g} /\ Len(G) = 1
  BY OneNode
<1>2. Range(t \o G) = Range(t) \cup Range(G) /\ t \o G \in Seq(Node)
  BY ConcatFacts
<1> QED
  BY <1>1, <1>2

\* S is T with f in front.
Headed(S, f, T) ==
    /\ S \in Seq(Node) /\ S = << f >> \o T /\ Range(S) = {f} \cup Range(T)
    /\ Len(S) = Len(T) + 1 /\ \A b : Fst(S, b) = f

\* A node in front of a sequence is its head.
LEMMA HeadIs ==
    ASSUME NEW f \in Node, NEW T \in Seq(Node)
    PROVE  \E S \in Seq(Node) : Headed(S, f, T)
<1>1. << f >> \o T \in Seq(Node) /\ \A b : Fst(<< f >> \o T, b) = f
  BY Regroup
<1>2. Range(<< f >> \o T) = {f} \cup Range(T) /\ Len(<< f >> \o T) = Len(T) + 1
  BY HeadRange
<1> QED
  BY <1>1, <1>2 DEF Headed

\* *__first1 stays where it is.
LEMMA MergeStays ==
    ASSUME Types, NEW q, Holds(q), NEW l \in ListObject, NEW x \in ListObject, l # x,
           local.this = l, local.x = x, NEW W, PairOf(q, W, l, x),
           NEW K \in Seq(Node), NEW f \in Node, NEW T \in Seq(Node), NEW g \in Node, NEW U \in Seq(Node),
           MergeAt(q, W, K, << f >> \o T, << g >> \o U), Lt(W, f, g), next[f] = Fst(T, l),
           UNCHANGED heap, local' = [local EXCEPT !.first = next[f]]
    PROVE  Merged(q, W, l, x)
<1>1. PICK V \in Seq(Node) : V = << g >> \o U
  BY Regroup
<1>2. q[l] = K \o (<< f >> \o T) /\ q[x] = V /\ Before(W, K, V) /\ local.first2 = Fst(V, x)
  BY <1>1 DEF MergeAt
<1>3. local'.this = l /\ local'.x = x /\ local'.first = Fst(T, l) /\ local'.first2 = Fst(V, x)
  BY <1>2 DEF Types, Locals
<1>4. PICK K2 \in Seq(Node) : K2 = K \o << f >> /\ Range(K2) = Range(K) \cup {f}
  BY TailRange
<1>5. q[l] = K2 \o T
  BY <1>2, <1>4, RegroupIs
<1>6. Before(W, K2, V)
  <2>1. W \in Seq(Node) /\ IsInjective(W)
    BY DEF PairOf, Goal
  <2>2. Ascends(W, << g >> \o U) /\ Range(V) = {g} \cup Range(U)
    BY <1>1, <1>2, HeadRange DEF PairOf
  <2>3. \A n \in Range(U) : Lt(W, g, n)
    BY <2>2, AscendsHead
  <2>4. \A n \in Range(V) : Lt(W, f, n)
    <3> SUFFICES ASSUME NEW n \in Range(V)
                 PROVE  Lt(W, f, n)
      OBVIOUS
    <3>1. CASE n = g
      BY <3>1
    <3>2. CASE n \in Range(U)
      <4>1. Lt(W, g, n)
        BY <2>3, <3>2
      <4> QED
        BY <2>1, <4>1, LtTransitive
    <3> QED
      BY <2>2, <3>1, <3>2
  <2> QED
    BY <1>2, <1>4, <2>4 DEF Before
<1>7. MergeAt(q, W, K2, T, V)'
  BY <1>2, <1>3, <1>5, <1>6 DEF MergeAt, Before, Lt, Fst
<1>8. PairOf(q, W, l, x)'
  BY DEF PairOf, Goal, Stable, Ascends, Lt, heap
<1>9. Pair(q, W)'
  BY <1>3, <1>7, <1>8 DEF Pair, PairOf
<1> QED
  BY <1>9, HoldsSame, MergesSame DEF Merged

\* *__first2 goes in front of *__first1.
LEMMA MergeMoves ==
    ASSUME Types, NEW q, Holds(q), NEW l \in ListObject, NEW x \in ListObject, l # x,
           local.this = l, local.x = x, NEW W, PairOf(q, W, l, x),
           NEW K \in Seq(Node), NEW f \in Node, NEW T \in Seq(Node), NEW g \in Node, NEW U \in Seq(Node),
           MergeAt(q, W, K, << f >> \o T, << g >> \o U), Lt(W, g, f), next[g] = Fst(U, x),
           transfer(f, g, next[g]), UNCHANGED data, local' = [local EXCEPT !.first2 = next[g]]
    PROVE  Merged(q, W, l, x)
<1>1. PICK S \in Seq(Node) : S = << f >> \o T /\ Range(S) = {f} \cup Range(T) /\ \A b : Fst(S, b) = f
  <2>1. PICK S \in Seq(Node) : Headed(S, f, T)
    BY HeadIs
  <2> QED
    BY <2>1 DEF Headed
<1>2. PICK G \in Seq(Node) : G = << g >> /\ Range(G) = {g} /\ Len(G) = 1 /\ G # << >> /\ G[1] = g
  BY OneNode
<1>3. PICK V \in Seq(Node) : V = G \o U /\ Range(V) = {g} \cup Range(U) /\ Len(V) = Len(U) + 1
  <2>1. PICK V \in Seq(Node) : Headed(V, g, U)
    BY HeadIs
  <2> QED
    BY <1>2, <2>1 DEF Headed
<1>4. q[l] = K \o S /\ q[x] = V /\ Before(W, K, V) /\ local.first = f
  BY <1>1, <1>2, <1>3 DEF MergeAt
<1>5. PICK none \in Seq(Node) : none = << >>
  BY EmptyFacts
<1>6. none \o U = U /\ q[x] = none \o (G \o U)
  BY <1>3, <1>4, <1>5, ConcatFacts
<1>7. PICK qc : qc = [q EXCEPT ![x] = U]
  OBVIOUS
<1>8. q \in [ListObject -> Seq(Node)]
  BY HeldLists
<1>9. qc[l] = K \o S /\ transfer(Fst(S, l), G[1], Fst(U, x))
  BY <1>1, <1>2, <1>4, <1>7, <1>8
<1>10. PICK M \in Seq(Node) : M = G \o S
  BY ConcatFacts
<1>11. PICK Q \in Seq(Node) : Q = K \o M
  BY ConcatFacts
<1>12. PICK r : r = [qc EXCEPT ![l] = Q]
  OBVIOUS
<1>13. Holds(r)'
  <2>1. qc = [q EXCEPT ![x] = none \o U]
    BY <1>6, <1>7
  <2>2. Holds([qc EXCEPT ![l] = K \o (G \o S)])'
    BY <1>2, <1>6, <1>9, <2>1, HoldsTransfer
  <2> QED
    BY <1>10, <1>11, <1>12, <2>2
<1>14. r[l] = Q /\ r[x] = U /\ \A m \in ListObject : m # l /\ m # x => r[m] = q[m]
  BY <1>7, <1>8, <1>12
<1>15. /\ Range(M) = {g} \cup Range(S) /\ Len(M) = Len(S) + 1
       /\ Range(Q) = Range(K) \cup Range(M) /\ Len(Q) = Len(K) + Len(M)
       /\ Range(q[l]) = Range(K) \cup Range(S) /\ Len(q[l]) = Len(K) + Len(S)
  <2>1. Range(M) = {g} \cup Range(S) /\ Len(M) = Len(S) + 1
    BY <1>2, <1>10, HeadRange
  <2>2. Range(K \o M) = Range(K) \cup Range(M) /\ Len(K \o M) = Len(K) + Len(M)
    BY ConcatFacts
  <2>3. Range(K \o S) = Range(K) \cup Range(S) /\ Len(K \o S) = Len(K) + Len(S)
    BY ConcatFacts
  <2> QED
    BY ONLY <1>4, <1>11, <2>1, <2>2, <2>3
<1>16. Merges(q, r, l, x)
  <2>1. PICK a \in Nat, b \in Nat, c \in Nat : a = Len(K) /\ b = Len(S) /\ c = Len(U)
    BY SeqFacts
  <2>2. Len(r[l]) + Len(r[x]) = Len(q[l]) + Len(q[x])
    <3>1. Len(r[l]) = a + (b + 1) /\ Len(r[x]) = c
      BY ONLY <1>14, <1>15, <2>1
    <3>2. Len(q[l]) = a + b /\ Len(q[x]) = c + 1
      BY ONLY <1>3, <1>4, <1>15, <2>1
    <3>3. a + (b + 1) + c = a + b + (c + 1)
      OBVIOUS
    <3> QED
      BY ONLY <3>1, <3>2, <3>3
  <2>3. Range(r[l]) \cup Range(r[x]) = Range(q[l]) \cup Range(q[x]) /\ Range(r[x]) \subseteq Range(q[x])
    BY <1>3, <1>4, <1>14, <1>15
  <2> QED
    BY <1>14, <2>2, <2>3 DEF Merges
<1>17. W \in Seq(Node) /\ IsInjective(W)
  BY DEF PairOf, Goal
<1>18. Ascends(W, K) /\ Ascends(W, S) /\ Before(W, K, S) /\ \A n \in Range(S) : Lt(W, g, n)
  <2>1. Ascends(W, K \o S)
    BY <1>4 DEF PairOf
  <2>2. Ascends(W, K) /\ Ascends(W, S) /\ Before(W, K, S)
    BY <2>1, AscendsConcat
  <2>3. Ascends(W, << f >> \o T)
    BY <1>1, <2>2
  <2>4. \A n \in Range(T) : Lt(W, f, n)
    BY <2>3, AscendsHead
  <2>5. ASSUME NEW n \in Range(S)
        PROVE  Lt(W, g, n)
    <3>1. CASE n = f
      BY <3>1
    <3>2. CASE n \in Range(T)
      <4>1. Lt(W, f, n)
        BY <2>4, <3>2
      <4> QED
        BY <1>17, <4>1, LtTransitive
    <3> QED
      BY <1>1, <3>1, <3>2
  <2> QED
    BY <2>2, <2>5
<1>19. Ascends(W, U) /\ \A n \in Range(U) : Lt(W, g, n)
  <2>1. Ascends(W, << g >> \o U)
    BY <1>2, <1>3, <1>4 DEF PairOf
  <2> QED
    BY <2>1, AscendsHead
<1>20. Ascends(W, Q)
  <2>1. Ascends(W, << g >> \o S)
    BY <1>18, AscendsHead
  <2>2. Ascends(W, M)
    BY <1>2, <1>10, <2>1
  <2>3. Before(W, K, M)
    BY <1>3, <1>4, <1>15, <1>18 DEF Before
  <2>4. Ascends(W, K \o M)
    BY <1>18, <2>2, <2>3, AscendsConcat
  <2> QED
    BY <1>11, <2>4
<1>21. Stable(W, Q, U)
  BY <1>3, <1>4, <1>15, <1>19 DEF Stable, PairOf
<1>22. PairOf(r, W, l, x)
  BY <1>3, <1>4, <1>14, <1>15, <1>19, <1>20, <1>21 DEF PairOf
<1>23. PairOf(r, W, l, x)'
  BY <1>22 DEF PairOf, Goal, Stable, Ascends, Lt
<1>24. PICK K2 \in Seq(Node) : K2 = K \o << g >> /\ Range(K2) = Range(K) \cup {g}
  BY TailRange
<1>25. r[l] = K2 \o S
  <2>1. K \o (<< g >> \o S) = (K \o << g >>) \o S
    BY RegroupIs, SMTT(30)
  <2> QED
    BY ONLY <1>2, <1>10, <1>11, <1>14, <1>24, <2>1
<1>26. Before(W, K2, U)
  BY <1>3, <1>4, <1>19, <1>24 DEF Before
<1>27. local'.this = l /\ local'.x = x /\ local'.first = Fst(S, l) /\ local'.first2 = Fst(U, x)
  BY <1>1, <1>4 DEF Types, Locals
<1>28. MergeAt(r, W, K2, S, U)'
  BY <1>14, <1>25, <1>26, <1>27 DEF MergeAt, Before, Lt, Fst
<1>29. Pair(r, W)'
  BY <1>23, <1>27, <1>28 DEF Pair, PairOf
<1> QED
  BY <1>13, <1>16, <1>29 DEF Merged

\* A pass of merge() passes a node of its list, or moves a smaller one of x in front of it.
LEMMA MergePassMerges ==
    ASSUME Types, NEW q, Holds(q), NEW l \in ListObject, NEW x \in ListObject, local.this = l, local.x = x,
           NEW W, Pair(q, W), merge_pass
    PROVE  Merged(q, W, l, x)
<1>1. PairOf(q, W, l, x)
  BY PairIs
<1>2. PICK K \in Seq(Node), S \in Seq(Node), V \in Seq(Node) : MergeAt(q, W, K, S, V)
  BY PairIs
<1>3. /\ l # x /\ q[l] = K \o S /\ q[x] = V /\ local.first = Fst(S, l) /\ local.first2 = Fst(V, x)
  BY <1>2 DEF MergeAt
<1>4. S # << >> /\ V # << >>
  BY <1>3 DEF merge_pass, end, Fst
<1>5. PICK f, T : Heads(S, f, T)
  BY <1>4, HeadAndRest
<1>6. PICK g, U : Heads(V, g, U)
  BY <1>4, HeadAndRest
<1>7. f \in Node /\ T \in Seq(Node) /\ S = << f >> \o T /\ Fst(S, l) = f
  BY <1>4, <1>5 DEF Heads, Fst
<1>8. g \in Node /\ U \in Seq(Node) /\ V = << g >> \o U /\ Fst(V, x) = g
  BY <1>4, <1>6 DEF Heads, Fst
<1>9. MergeAt(q, W, K, << f >> \o T, << g >> \o U)
  BY <1>2, <1>7, <1>8
<1>10. local.first = f /\ local.first2 = g
  BY <1>3, <1>7, <1>8
<1>11. next[f] = Fst(T, l)
  <2>1. q[l] = K \o (<< f >> \o T)
    BY <1>3, <1>7
  <2>2. Around(next, prev, Lst(l, K), f, Fst(T, l))
    BY <1>7, <2>1, Neighbours DEF Holds
  <2> QED
    BY <2>2 DEF Around
<1>12. next[g] = Fst(U, x)
  <2>1. PICK none \in Seq(Node) : none = << >>
    BY EmptyFacts
  <2>2. q[x] = none \o (<< g >> \o U)
    <3>1. none \o V = V
      BY <2>1, ConcatFacts
    <3> QED
      BY ONLY <1>3, <1>8, <3>1
  <2>3. Around(next, prev, Lst(x, none), g, Fst(U, x))
    BY <1>8, <2>2, Neighbours DEF Holds
  <2> QED
    BY <2>3 DEF Around
<1>13. f \in Range(q[l]) /\ g \in Range(q[x]) /\ f # g
  <2>1. Range(S) = {f} \cup Range(T) /\ Range(V) = {g} \cup Range(U)
    BY <1>7, <1>8, HeadRange
  <2>2. Range(K \o S) = Range(K) \cup Range(S)
    BY ConcatFacts
  <2>3. f \in Range(q[l]) /\ g \in Range(q[x])
    BY ONLY <1>3, <2>1, <2>2
  <2>4. Range(q[l]) \cap Range(q[x]) = {}
    BY <1>3, HeldLists
  <2> QED
    BY <2>3, <2>4
<1>14. data[f] \in Int /\ data[g] \in Int
  BY <1>13, HeldData
<1>15. f \in Range(W) /\ g \in Range(W) /\ Goal(W) /\ (data[f] = data[g] => Lt(W, f, g))
  BY <1>1, <1>13 DEF PairOf, Stable
<1>16. data[f] <= data[g] <=> Lt(W, f, g)
  BY <1>13, <1>14, <1>15, LtFirst
<1>17. Lt(W, f, g) \/ Lt(W, g, f)
  BY <1>13, <1>15, LtOrder DEF Goal
<1>18. goes_first <=> ~(data[f] <= data[g])
  BY <1>10, <1>14 DEF goes_first
<1>19. CASE goes_first
  <2>1. transfer(f, g, next[g]) /\ UNCHANGED data /\ local' = [local EXCEPT !.first2 = next[g]]
    BY <1>10, <1>19 DEF merge_pass, again
  <2>2. Lt(W, g, f)
    BY <1>16, <1>17, <1>18, <1>19
  <2> QED
    BY <1>1, <1>3, <1>7, <1>8, <1>9, <1>12, <2>1, <2>2, MergeMoves
<1>20. CASE ~goes_first
  <2>1. UNCHANGED heap /\ local' = [local EXCEPT !.first = next[f]]
    BY <1>10, <1>20 DEF merge_pass, again, heap
  <2>2. Lt(W, f, g)
    BY <1>16, <1>18, <1>20
  <2> QED
    BY <1>1, <1>3, <1>7, <1>8, <1>9, <1>11, <2>1, <2>2, MergeStays
<1> QED
  BY <1>19, <1>20

\* What is left of x goes to the end of l.
Joins(q, r, W, l, x) == Merges(q, r, l, x) /\ r[x] = << >> /\ Ascends(W, r[l])

Joined(q, W, l, x) == \E r : Holds(r)' /\ Joins(q, r, W, l, x)

\* What is left of x goes behind the list: both are one, in order.
LEMMA MergeRestJoins ==
    ASSUME Types, NEW q, Holds(q), NEW l \in ListObject, NEW x \in ListObject, local.this = l, local.x = x,
           NEW W, Pair(q, W), merge_rest
    PROVE  Joined(q, W, l, x)
<1>1. PairOf(q, W, l, x)
  BY PairIs
<1>2. PICK K \in Seq(Node), T \in Seq(Node), U \in Seq(Node) : MergeAt(q, W, K, T, U)
  BY PairIs
<1>3. /\ l # x /\ q[l] = K \o T /\ q[x] = U /\ local.first = Fst(T, l) /\ local.first2 = Fst(U, x)
      /\ Before(W, K, U)
  BY <1>2 DEF MergeAt
<1>4. CASE U = << >>
  <2>1. UNCHANGED heap
    BY <1>3, <1>4 DEF merge_rest, end, heap, Fst
  <2>2. Joins(q, q, W, l, x)
    BY <1>1, <1>3, <1>4, MergesSame DEF Joins, PairOf
  <2> QED
    BY <2>1, <2>2, HoldsSame DEF Joined
<1>5. CASE U # << >>
  <2>1. Fst(U, x) = U[1] /\ U[1] # x
    BY <1>5, SeqFacts, Kinds DEF Fst
  <2>2. T = << >>
    <3>1. Fst(T, l) = l
      BY <1>3, <2>1 DEF merge_rest, end
    <3>2. T # << >> => Fst(T, l) = T[1] /\ T[1] \in Node
      BY SeqFacts DEF Fst
    <3> QED
      BY <3>1, <3>2, Kinds
  <2>3. transfer(l, U[1], x) /\ UNCHANGED data
    BY <1>3, <2>1 DEF merge_rest, end
  <2>4. PICK none \in Seq(Node) : none = << >>
    BY EmptyFacts
  <2>5. none \o none = none /\ U \o none = U /\ none \o U = U /\ K \o none = K
    BY <2>4, ConcatFacts
  <2>6. q[x] = none \o (U \o none) /\ q[l] = K \o none
    BY ONLY <1>3, <2>2, <2>4, <2>5
  <2>7. PICK qc : qc = [q EXCEPT ![x] = none]
    OBVIOUS
  <2>8. q \in [ListObject -> Seq(Node)]
    BY HeldLists
  <2>9. qc[l] = K \o none /\ transfer(Fst(none, l), U[1], Fst(none, x))
    BY <1>3, <2>3, <2>4, <2>6, <2>7, <2>8 DEF Fst
  <2>10. PICK Q \in Seq(Node) : Q = K \o U
    BY ConcatFacts
  <2>11. PICK r : r = [qc EXCEPT ![l] = Q]
    OBVIOUS
  <2>12. Holds(r)'
    <3>1. qc = [q EXCEPT ![x] = none \o none]
      BY <2>5, <2>7
    <3>2. Holds([qc EXCEPT ![l] = K \o (U \o none)])'
      BY <1>5, <2>3, <2>6, <2>9, <3>1, HoldsTransfer
    <3> QED
      BY <2>5, <2>10, <2>11, <3>2
  <2>13. r[l] = Q /\ r[x] = none /\ \A m \in ListObject : m # l /\ m # x => r[m] = q[m]
    BY <1>3, <2>7, <2>8, <2>11
  <2>14. q[l] = K
    BY <2>5, <2>6
  <2>15. Range(Q) = Range(K) \cup Range(U) /\ Len(Q) = Len(K) + Len(U) /\ Range(none) = {} /\ Len(none) = 0
    BY <2>4, <2>10, ConcatFacts, EmptyFacts
  <2>16. Merges(q, r, l, x)
    <3>1. Len(K) \in Nat /\ Len(U) \in Nat
      BY SeqFacts
    <3>2. Len(r[l]) + Len(r[x]) = Len(q[l]) + Len(q[x])
      BY ONLY <1>3, <2>13, <2>14, <2>15, <3>1
    <3> QED
      BY <1>3, <2>13, <2>14, <2>15, <3>2 DEF Merges
  <2>17. Ascends(W, Q)
    <3>1. Ascends(W, K) /\ Ascends(W, U)
      BY <1>1, <1>3, <2>14 DEF PairOf
    <3> QED
      BY <1>3, <2>10, <3>1, AscendsConcat
  <2>18. Joins(q, r, W, l, x)
    BY <2>4, <2>13, <2>16, <2>17 DEF Joins
  <2> QED
    BY <2>12, <2>18 DEF Joined
<1> QED
  BY <1>4, <1>5

-----------------------------------------------------------------------------
\* A list in order is stable wherever it is cut.
LEMMA InOrderConcat ==
    ASSUME NEW W, NEW s \in Seq(Node), NEW t \in Seq(Node), InOrder(W, s \o t)
    PROVE  InOrder(W, s) /\ InOrder(W, t) /\ Stable(W, s, t)
<1>1. PICK n \in Nat, m \in Nat : n = Len(s) /\ m = Len(t)
  BY SeqFacts
<1>2. PICK u \in Seq(Node) : u = s \o t
  BY ConcatFacts
<1>3. Len(u) = n + m /\ (\A i \in 1..n : u[i] = s[i]) /\ \A i \in 1..m : u[i + n] = t[i]
  BY <1>1, <1>2, ConcatFacts
<1> DEFINE L(a, b) == data[a] = data[b] => Lt(W, a, b)
<1>4. \A i, j \in 1..(n + m) : i < j => L(u[i], u[j])
  BY <1>2, <1>3 DEF InOrder
<1> HIDE DEF L
<1>5. \A i, j \in 1..n : i < j => L(s[i], s[j])
  BY <1>3, <1>4
<1>6. ASSUME NEW i \in 1..m, NEW j \in 1..m, i < j
      PROVE  L(t[i], t[j])
  <2>1. i + n \in 1..(n + m) /\ j + n \in 1..(n + m) /\ i + n < j + n
    BY <1>6
  <2>2. L(u[i + n], u[j + n])
    BY <1>4, <2>1
  <2> QED
    BY <1>3, <2>2
<1>7. ASSUME NEW i \in 1..n, NEW j \in 1..m
      PROVE  L(s[i], t[j])
  <2>1. i \in 1..(n + m) /\ j + n \in 1..(n + m) /\ i < j + n
    OBVIOUS
  <2>2. L(u[i], u[j + n])
    BY <1>4, <2>1
  <2> QED
    BY <1>3, <2>2
<1> USE DEF L
<1>8. InOrder(W, s)
  BY <1>1, <1>5 DEF InOrder
<1>9. InOrder(W, t)
  BY <1>1, <1>6 DEF InOrder
<1>10. Stable(W, s, t)
  <2>1. Range(s) = {s[i] : i \in 1..n} /\ Range(t) = {t[i] : i \in 1..m}
    BY <1>1, SeqFacts
  <2> QED
    BY <1>7, <2>1 DEF Stable
<1> QED
  BY <1>8, <1>9, <1>10

\* What a list that ascends() says of the nodes it holds
LEMMA AscendingMeans ==
    ASSUME NEW q, Holds(q), NEW l \in ListObject, ascending(l)
    PROVE  \A k \in 1..(Len(q[l]) - 1) : data[q[l][k]] <= data[q[l][k + 1]]
BY HeldContents DEF ascending

Joint(q, W, l, x) ==
    PairOf(q, W, l, x) /\ W \in Seq(Node) /\ Range(W) = Range(q[l]) \cup Range(q[x])

\* merge() of two lists that ascend wants both, sorted.
LEMMA MergeGoal ==
    ASSUME Types, NEW q, Holds(q), NEW l \in ListObject, NEW x \in ListObject, l # x,
           ascending(l), ascending(x), NEW W, W = sorted(q[l] \o q[x])
    PROVE  Joint(q, W, l, x)
<1>1. PICK s \in Seq(Node), t \in Seq(Node) : s = q[l] /\ t = q[x]
  BY HeldLists
<1>2. IsInjective(s) /\ IsInjective(t) /\ Range(s) \cap Range(t) = {}
  BY <1>1, HeldLists
<1>3. PICK u \in Seq(Node) : u = s \o t /\ Range(u) = Range(s) \cup Range(t)
  BY ConcatFacts
<1>4. IsInjective(u)
  BY <1>2, <1>3, InjectiveConcat
<1>5. \A n \in Range(u) : data[n] \in Int
  BY <1>1, <1>3, HeldData
<1>6. W = sorted(u)
  BY <1>1, <1>3
<1>7. Sorts(u, W)
  BY <1>4, <1>5, <1>6, SortedIs
<1>8. Goal(W) /\ Range(W) = Range(u) /\ InOrder(W, s \o t)
  BY <1>3, <1>7 DEF Sorts
<1>9. InOrder(W, s) /\ InOrder(W, t) /\ Stable(W, s, t)
  BY <1>8, InOrderConcat
<1>10. Ascends(W, s)
  <2>1. \A k \in 1..(Len(s) - 1) : data[s[k]] <= data[s[k + 1]]
    BY <1>1, AscendingMeans
  <2>2. Range(s) \subseteq Range(W) /\ \A n \in Range(s) : data[n] \in Int
    BY <1>3, <1>5, <1>8
  <2> QED
    BY <1>2, <1>8, <1>9, <2>1, <2>2, AscendsByData
<1>11. Ascends(W, t)
  <2>1. \A k \in 1..(Len(t) - 1) : data[t[k]] <= data[t[k + 1]]
    BY <1>1, AscendingMeans
  <2>2. Range(t) \subseteq Range(W) /\ \A n \in Range(t) : data[n] \in Int
    BY <1>3, <1>5, <1>8
  <2> QED
    BY <1>2, <1>8, <1>9, <2>1, <2>2, AscendsByData
<1>12. Range(W) = Range(s) \cup Range(t) /\ W \in Seq(Node)
  BY <1>3, <1>8 DEF Goal
<1> QED
  BY <1>1, <1>8, <1>9, <1>10, <1>11, <1>12 DEF PairOf, Joint

\* merge() begins.
LEMMA MergeStarts ==
    ASSUME Types, NEW q, Idle(q), NEW l \in Object, NEW x \in Object \ {l}, merge(l, x)
    PROVE  Types' /\ Loops'
<1>1. /\ Holds(q) /\ l \in ListObject /\ x \in ListObject /\ l # x /\ Spare(q)
      /\ \A m \in Object : q[m] = want[m]
      /\ want \in [Object -> Seq(Node)]
  BY ObjectKinds DEF Idle, Others, Types
<1>2. PICK W : W = sorted(q[l] \o q[x])
  OBVIOUS
<1>3. ascending(l) /\ ascending(x)
  BY DEF merge
<1>4. PairOf(q, W, l, x) /\ W \in Seq(Node) /\ Range(W) = Range(q[l]) \cup Range(q[x])
  <2>1. Joint(q, W, l, x)
    BY <1>1, <1>2, <1>3, MergeGoal
  <2> QED
    BY <2>1 DEF Joint
<1>5. want' = [want EXCEPT ![l] = W, ![x] = << >>] /\ pc' = "merge" /\ UNCHANGED heap
  BY <1>1, <1>2 DEF merge, merging
<1>6. local' = [no_local EXCEPT !.this = l, !.x = x, !.ret = "idle", !.first = begin(l), !.first2 = begin(x)]
  BY DEF merge, merging
<1>7. /\ local'.this = l /\ local'.x = x /\ local'.first = begin(l) /\ local'.first2 = begin(x)
      /\ local'.ret = "idle" /\ local'.fill = 0
  BY <1>6 DEF no_local
<1>8. Pair(q, W)'
  BY <1>1, <1>4, <1>5, <1>7, PairStarts
<1>9. want'[l] = W /\ want'[x] = << >> /\ want' \in [Object -> Seq(Node)]
  BY <1>1, <1>4, <1>5, EmptyFacts
<1>10. Pair(q, want[local.this])'
  BY <1>7, <1>8, <1>9
<1>11. Holds(q)'
  BY <1>1, <1>5, HoldsSame
<1>12. Others(q, {local.this, local.x})' /\ Spare(q)'
  BY <1>1, <1>5, <1>7 DEF Others, Spare
<1>13. Merging(q)'
  BY <1>1, <1>4, <1>5, <1>7, <1>9, <1>10, <1>11, <1>12 DEF Merging
<1>14. Loops'
  BY <1>13 DEF Loops, Doing
<1>15. local' \in Locals
  <2>1. begin(l) \in Place /\ begin(x) \in Place
    <3>1. begin(l) = Fst(q[l], l) /\ begin(x) = Fst(q[x], x) /\ q[l] \in Seq(Node) /\ q[x] \in Seq(Node)
      BY <1>1, HeldContents, HeldLists DEF begin
    <3> QED
      BY <1>1, <3>1, EndPlaces
  <2> QED
    BY <1>1, <1>6, <2>1 DEF Locals, no_local
<1>16. data' = data
  BY <1>5 DEF heap
<1> QED
  BY <1>9, <1>14, <1>15, <1>16 DEF Types, Locals

\* A pass of the program's own merge()
LEMMA MergePassIdle ==
    ASSUME Types, NEW q, Merging(q), merge_pass
    PROVE  Types' /\ Loops'
<1>1. PICK l, x : l = local.this /\ x = local.x
  OBVIOUS
<1>2. /\ Holds(q) /\ pc = "merge" /\ local.ret = "idle" /\ local.fill = 0 /\ Spare(q)
      /\ l \in Object /\ x \in Object /\ Others(q, {l, x}) /\ want[x] = << >>
      /\ Range(want[l]) = Range(q[l]) \cup Range(q[x]) /\ l \in ListObject /\ x \in ListObject
  BY <1>1, ObjectKinds DEF Merging
<1>3. PICK W : W = want[l]
  OBVIOUS
<1>4. Pair(q, W)
  BY <1>1, <1>3 DEF Merging
<1>5. Merged(q, W, l, x)
  BY <1>1, <1>2, <1>4, MergePassMerges
<1>6. PICK r : Holds(r)' /\ Pair(r, W)' /\ Merges(q, r, l, x)
  BY <1>5 DEF Merged
<1>7. /\ pc' = "merge" /\ want' = want /\ local'.this = l /\ local'.x = x /\ local'.ret = "idle"
      /\ local'.fill = 0 /\ local' \in Locals /\ data' = data
  <2>1. pc' = pc /\ want' = want /\ data' = data
    BY DEF merge_pass, again
  <2>2. local' = [local EXCEPT !.first2 = next[local.first2]] \/ local' = [local EXCEPT !.first = next[local.first]]
    BY DEF merge_pass, again
  <2>3. local.first \in Place /\ local.first2 \in Place
    <3>1. PICK K \in Seq(Node), T \in Seq(Node), U \in Seq(Node) : MergeAt(q, W, K, T, U)
      BY <1>4, PairIs
    <3>2. local.first = Fst(T, l) /\ local.first2 = Fst(U, x)
      BY <1>1, <3>1 DEF MergeAt
    <3> QED
      BY <1>2, <3>2, EndPlaces
  <2>4. next \in [Place -> Place \cup {NULL}]
    BY <1>2 DEF Holds, Shape
  <2>5. next[local.first] \in Place \cup {NULL} /\ next[local.first2] \in Place \cup {NULL}
    BY <2>3, <2>4
  <2>6. local \in Locals
    BY DEF Types
  <2> QED
    BY <1>1, <1>2, <2>1, <2>2, <2>5, <2>6 DEF Locals
<1>8. Pair(r, want[local.this])'
  BY <1>3, <1>6, <1>7
<1>9. \A m \in Object : m # l /\ m # x => r[m] = want[m]
  BY <1>2, <1>6, ObjectKinds DEF Merges, Others
<1>10. Others(r, {local.this, local.x})'
  BY <1>7, <1>9 DEF Others
<1>11. Spare(r)'
  BY <1>2, <1>6, ObjectKinds DEF Spare, Merges
<1>12. Range(want[l]) = Range(r[l]) \cup Range(r[x])
  BY <1>2, <1>6 DEF Merges
<1>13. Merging(r)'
  BY <1>2, <1>6, <1>7, <1>8, <1>10, <1>11, <1>12 DEF Merging
<1>14. Loops'
  BY <1>13 DEF Loops, Doing
<1> QED
  BY <1>7, <1>14 DEF Types, Locals

\* The end of the program's own merge(): it leaves what was wanted.
LEMMA MergeRestIdle ==
    ASSUME Types, NEW q, Merging(q), merge_rest
    PROVE  Types' /\ Loops'
<1>1. PICK l, x : l = local.this /\ x = local.x
  OBVIOUS
<1>2. /\ Holds(q) /\ pc = "merge" /\ local.ret = "idle" /\ Spare(q)
      /\ l \in Object /\ x \in Object /\ Others(q, {l, x}) /\ want[x] = << >>
      /\ Range(want[l]) = Range(q[l]) \cup Range(q[x]) /\ l \in ListObject /\ x \in ListObject
  BY <1>1, ObjectKinds DEF Merging
<1>3. PICK W : W = want[l]
  OBVIOUS
<1>4. Pair(q, W)
  BY <1>1, <1>3 DEF Merging
<1>5. Joined(q, W, l, x)
  BY <1>1, <1>2, <1>4, MergeRestJoins
<1>6. PICK r : Holds(r)' /\ Joins(q, r, W, l, x)
  BY <1>5 DEF Joined
<1>7. pc' = "idle" /\ local' = no_local /\ want' = want /\ data' = data
  BY <1>2 DEF merge_rest, merge_return
<1>8. r[l] = W
  <2>1. Goal(W)
    BY <1>4 DEF Pair
  <2>2. r \in [ListObject -> Seq(Node)]
    BY <1>6 DEF Holds, Shape, Apart
  <2>3. r[l] \in Seq(Node) /\ Ascends(W, r[l]) /\ r[x] = << >>
    BY <1>2, <1>6, <2>2 DEF Joins
  <2>4. Range(r[l]) = Range(W)
    BY <1>2, <1>3, <1>6, <2>3, EmptyFacts DEF Joins, Merges
  <2> QED
    BY <2>1, <2>3, <2>4, AscendsAll DEF Goal
<1>9. \A m \in Object : r[m] = want'[m]
  BY <1>2, <1>3, <1>6, <1>7, <1>8, ObjectKinds DEF Joins, Merges, Others
<1>10. \A t \in Temporary : r[t] = << >>
  BY <1>2, <1>6, ObjectKinds DEF Spare, Joins, Merges
<1>11. Loops'
  BY <1>6, <1>7, <1>9, <1>10, ToIdle
<1>12. no_local \in Locals
  BY DEF no_local, Locals
<1> QED
  BY <1>7, <1>11, <1>12 DEF Types, Locals

-----------------------------------------------------------------------------
\* The lists on sort's stack

\* sort()'s lists are carry and its counters, all different.
LEMMA Counters ==
    /\ MaxFill \in Nat /\ carry \in Temporary
    /\ \A i \in 0..MaxFill : counter(i) \in Temporary /\ counter(i) # carry
    /\ \A i, j \in 0..MaxFill : counter(i) = counter(j) => i = j
    /\ \A t \in Temporary : t = carry \/ \E i \in 0..MaxFill : t = counter(i)
BY StlListAssumption DEF Temporary, carry, counter

\* The age of what they hold: counters from the last to the first, then carry, then the list
LEMMA OlderIs ==
    ASSUME NEW l \in Object
    PROVE  /\ \A u \in Temporary : Older(l, u, l) /\ Older(l, u, carry)
           /\ \A i \in 0..MaxFill : ~Older(l, carry, counter(i))
           /\ \A i, j \in 0..MaxFill : Older(l, counter(j), counter(i)) <=> i < j
<1>1. \A i \in 0..MaxFill : counter(i) # l /\ counter(i) # carry
  BY Counters, ObjectKinds
<1> QED
  BY <1>1, Counters DEF Older

is_power(e, n) == e = [k \in 0..n |-> IF k = 0 THEN 1 ELSE 2 * e[k - 1]]

\* The recursion of power has a value for every exponent.
LEMMA PowerExists == \A n \in Nat : \E e : is_power(e, n)
<1> DEFINE W == {n \in Nat : \E e : is_power(e, n)}
<1>1. 0 \in W
  <2>1. PICK e : e = [k \in 0..0 |-> 1]
    OBVIOUS
  <2>2. \A k \in 0..0 : k = 0
    OBVIOUS
  <2>3. is_power(e, 0)
    BY <2>1, <2>2 DEF is_power
  <2> QED
    BY <2>3
<1>2. ASSUME NEW n \in Nat, n \in W
      PROVE  n + 1 \in W
  <2>1. PICK e : is_power(e, n)
    BY <1>2
  <2>2. \A k \in 0..n : e[k] = IF k = 0 THEN 1 ELSE 2 * e[k - 1]
    BY <2>1 DEF is_power
  <2>3. PICK f : f = [k \in 0..(n + 1) |-> IF k <= n THEN e[k] ELSE 2 * e[n]]
    OBVIOUS
  <2>4. ASSUME NEW k \in 0..(n + 1)
        PROVE  f[k] = IF k = 0 THEN 1 ELSE 2 * f[k - 1]
    <3>1. CASE k = 0
      BY <2>2, <2>3, <3>1
    <3>2. CASE k # 0 /\ k <= n
      <4>1. k - 1 \in 0..(n + 1) /\ k - 1 <= n /\ k \in 0..n
        BY <3>2
      <4>2. f[k - 1] = e[k - 1] /\ f[k] = e[k]
        BY <2>3, <3>2, <4>1
      <4> QED
        BY <2>2, <3>2, <4>1, <4>2
    <3>3. CASE ~(k <= n)
      <4>1. k = n + 1 /\ k - 1 = n /\ n \in 0..(n + 1) /\ k # 0
        BY <3>3
      <4>2. f[n] = e[n] /\ f[k] = 2 * e[n]
        BY <2>3, <3>3, <4>1
      <4> QED
        BY <4>1, <4>2
    <3> QED
      BY <3>1, <3>2, <3>3
  <2>5. f = [k \in 0..(n + 1) |-> f[k]]
    BY <2>3
  <2>6. [k \in 0..(n + 1) |-> f[k]] = [k \in 0..(n + 1) |-> IF k = 0 THEN 1 ELSE 2 * f[k - 1]]
    BY <2>4
  <2>7. is_power(f, n + 1)
    BY ONLY <2>5, <2>6 DEF is_power
  <2> QED
    BY <2>7
<1>3. \A n \in Nat : n \in W
  <2> HIDE DEF W
  <2> QED
    BY <1>1, <1>2, NumberInduction
<1> QED
  BY <1>3

\* power doubles.
LEMMA PowersAre ==
    /\ power[0] = 1
    /\ \A k \in 0..MaxFill : power[k + 1] = 2 * power[k]
    /\ \A k \in 0..(MaxFill + 1) : power[k] \in Nat /\ power[k] >= 1
<1>1. MaxFill \in Nat
  BY StlListAssumption
<1>2. PICK n \in Nat : n = MaxFill + 1
  BY <1>1
<1>3. power = CHOOSE e : is_power(e, n)
  BY <1>2, Zenon DEF power, is_power
<1>4. is_power(power, n)
  BY <1>3, PowerExists
<1>5. \A k \in 0..n : power[k] = IF k = 0 THEN 1 ELSE 2 * power[k - 1]
  BY <1>4 DEF is_power
<1>6. power[0] = 1
  BY <1>5
<1>7. \A k \in 0..MaxFill : power[k + 1] = 2 * power[k]
  <2> SUFFICES ASSUME NEW k \in 0..MaxFill
               PROVE  power[k + 1] = 2 * power[k]
    OBVIOUS
  <2>1. PICK j : j = k + 1
    OBVIOUS
  <2>2. j \in 0..n /\ j # 0 /\ j - 1 = k
    BY <1>1, <1>2, <2>1
  <2>3. power[j] = 2 * power[j - 1]
    BY <1>5, <2>2
  <2> QED
    BY <2>1, <2>2, <2>3
<1> DEFINE W == {k \in Nat : k <= n => power[k] \in Nat /\ power[k] >= 1}
<1>8. 0 \in W
  BY <1>6
<1>9. ASSUME NEW k \in Nat, k \in W
      PROVE  k + 1 \in W
  <2> SUFFICES ASSUME k + 1 <= n
               PROVE  power[k + 1] \in Nat /\ power[k + 1] >= 1
    OBVIOUS
  <2>1. k \in 0..MaxFill /\ k <= n
    BY <1>1, <1>2
  <2>2. power[k + 1] = 2 * power[k] /\ power[k] \in Nat /\ power[k] >= 1
    BY <1>7, <1>9, <2>1
  <2> QED
    BY <2>2
<1>10. \A k \in Nat : k \in W
  <2> HIDE DEF W
  <2> QED
    BY <1>8, <1>9, NumberInduction
<1>11. \A k \in 0..(MaxFill + 1) : power[k] \in Nat /\ power[k] >= 1
  <2> SUFFICES ASSUME NEW k \in 0..(MaxFill + 1)
               PROVE  power[k] \in Nat /\ power[k] >= 1
    OBVIOUS
  <2>1. k \in W /\ k <= n
    BY <1>1, <1>2, <1>10
  <2> QED
    BY <2>1
<1> QED
  BY <1>6, <1>7, <1>11

-----------------------------------------------------------------------------
\* What a step of sort() keeps of the order of the lists

\* Sortable depends on the elements only.
LEMMA SortableNow ==
    ASSUME NEW q, NEW W, NEW l, NEW fill, Sortable(q, W, l, fill), UNCHANGED data
    PROVE  Sortable(q, W, l, fill)'
BY DEF Sortable, Ages, Goal, InOrder, Ascends, Stable, Older, Lt

\* A step leads on to Sorting when its lists are sortable.
LEMMA SortingNow ==
    ASSUME NEW r, Holds(r)', NEW l \in Object, NEW W, NEW fill, Sortable(r, W, l, fill), UNCHANGED data,
           local'.value = l, local'.fill = fill, want' = want, want[l] = W,
           \A m \in Object : m # l => r[m] = want[m]
    PROVE  Sorting(r)'
<1>1. Sortable(r, W, l, fill)'
  BY SortableNow
<1>2. Sortable(r, want[sortee], sortee, local.fill)'
  BY <1>1 DEF sortee
<1>3. Others(r, {sortee})'
  BY DEF Others, sortee
<1> QED
  BY <1>2, <1>3 DEF Sorting, sortee

SameNodes(q, r, l) ==
    \A n : (\E m \in Temporary \cup {l} : n \in Range(r[m])) <=>
           (\E m \in Temporary \cup {l} : n \in Range(q[m]))

Full(r, l, fill) ==
    fill \in 0..(MaxFill + 1) /\ \A j \in 0..MaxFill : j >= fill => r[counter(j)] = << >>

\* Sortable is kept when nodes are moved and the ages stay right.
LEMMA SortableKept ==
    ASSUME NEW q, NEW W, NEW l, NEW fill, Sortable(q, W, l, fill), NEW r, SameNodes(q, r, l),
           Ages(r, W, l), NEW f2, Full(r, l, f2)
    PROVE  Sortable(r, W, l, f2)
BY DEF Sortable, SameNodes, Full

\* No list that holds something is between a and b in age.
Adjacent(q, l, a, b) ==
    /\ Older(l, a, b) /\ ~Older(l, b, a)
    /\ \A v \in Temporary \cup {l} : v # a /\ v # b /\ Older(l, a, v) => Older(l, b, v) \/ q[v] = << >>
    /\ \A u \in Temporary : u # a /\ u # b /\ Older(l, u, a) => Older(l, u, b)

\* Merging two neighbours in age keeps the ages right.
LEMMA AgesMerge ==
    ASSUME NEW q, NEW W, NEW l \in Object, Ages(q, W, l), NEW a \in Temporary, NEW b \in Temporary, a # b,
           NEW r, Merges(q, r, a, b), Ascends(W, r[a]), Ascends(W, r[b]), Stable(W, r[a], r[b]),
           Adjacent(q, l, a, b)
    PROVE  Ages(r, W, l)
<1>1. a # l /\ b # l /\ l \in ListObject /\ \A t \in Temporary : t \in ListObject /\ t # l
  BY ObjectKinds
<1>2. \A m \in Temporary \cup {l} : m # a /\ m # b => r[m] = q[m]
  BY <1>1 DEF Merges
<1>3. Range(r[a]) \subseteq Range(q[a]) \cup Range(q[b]) /\ Range(r[b]) \subseteq Range(q[b])
  BY DEF Merges
<1>4. InOrder(W, r[l])
  BY <1>1, <1>2 DEF Ages
<1>5. \A t \in Temporary : Ascends(W, r[t])
  BY <1>2 DEF Ages
<1>6. \A u \in Temporary, v \in Temporary \cup {l} :
         u # v /\ Older(l, u, v) =>
            \A c \in Range(q[u]), d \in Range(q[v]) : data[c] = data[d] => Lt(W, c, d)
  BY DEF Ages, Stable
<1>7. ASSUME NEW u \in Temporary, NEW v \in Temporary \cup {l}, u # v, Older(l, u, v)
      PROVE  Stable(W, r[u], r[v])
  <2> SUFFICES ASSUME NEW c \in Range(r[u]), NEW d \in Range(r[v]), data[c] = data[d]
               PROVE  Lt(W, c, d)
    BY DEF Stable
  <2>1. CASE u = a /\ v = b
    BY <2>1 DEF Stable
  <2>2. CASE u = a /\ v # b
    <3>1. r[v] = q[v] /\ c \in Range(q[a]) \cup Range(q[b])
      BY <1>2, <1>3, <1>7, <2>2
    <3>2. CASE c \in Range(q[a])
      BY <1>6, <1>7, <2>2, <3>1, <3>2
    <3>3. CASE c \in Range(q[b])
      <4>1. q[v] # << >>
        BY <3>1, EmptyFacts
      <4>2. Older(l, b, v)
        BY <1>7, <2>2, <4>1 DEF Adjacent
      <4> QED
        BY <1>6, <2>2, <3>1, <3>3, <4>2
    <3> QED
      BY <3>1, <3>2, <3>3
  <2>3. CASE u = b
    <3>1. v # a /\ c \in Range(q[b]) /\ r[v] = q[v]
      BY <1>2, <1>3, <1>7, <2>3 DEF Adjacent
    <3> QED
      BY <1>6, <1>7, <2>3, <3>1
  <2>4. CASE u # a /\ u # b /\ v = a
    <3>1. c \in Range(q[u]) /\ d \in Range(q[a]) \cup Range(q[b])
      BY <1>2, <1>3, <2>4
    <3>2. CASE d \in Range(q[a])
      BY <1>6, <1>7, <2>4, <3>1, <3>2
    <3>3. CASE d \in Range(q[b])
      <4>1. Older(l, u, b)
        BY <1>7, <2>4 DEF Adjacent
      <4> QED
        BY <1>6, <2>4, <3>1, <3>3, <4>1
    <3> QED
      BY <3>1, <3>2, <3>3
  <2>5. CASE u # a /\ u # b /\ v # a
    <3>1. c \in Range(q[u]) /\ d \in Range(q[v])
      BY <1>2, <1>3, <2>5
    <3> QED
      BY <1>6, <1>7, <3>1
  <2> QED
    BY <2>1, <2>2, <2>3, <2>4, <2>5
<1> QED
  BY <1>4, <1>5, <1>7 DEF Ages

\* All that a holds goes to b, which was empty.
Shifts(q, r, l, a, b) ==
    /\ \A m \in Temporary \cup {l} : m # a /\ m # b => r[m] = q[m]
    /\ q[b] = << >> /\ r[b] = q[a] /\ r[a] = << >>

\* So does moving a list to an empty neighbour.
LEMMA AgesShift ==
    ASSUME NEW q, NEW W, NEW l \in Object, Ages(q, W, l), NEW a \in Temporary, NEW b \in Temporary, a # b,
           NEW r, Shifts(q, r, l, a, b),
           \A u \in Temporary : u # a /\ u # b /\ Older(l, u, b) => Older(l, u, a) \/ q[u] = << >>,
           \A v \in Temporary \cup {l} : v # a /\ v # b /\ Older(l, b, v) => Older(l, a, v) \/ q[v] = << >>
    PROVE  Ages(r, W, l)
<1>1. a # l /\ b # l
  BY ObjectKinds
<1>2. \A m \in Temporary \cup {l} : m # a /\ m # b => r[m] = q[m]
  BY DEF Shifts
<1>3. q[b] = << >> /\ r[b] = q[a] /\ r[a] = << >>
  BY DEF Shifts
<1>4. InOrder(W, r[l])
  BY <1>1, <1>2 DEF Ages
<1>5. Ascends(W, << >>)
  BY EmptyFacts DEF Ascends
<1>6. \A t \in Temporary : Ascends(W, r[t])
  BY <1>2, <1>3, <1>5 DEF Ages
<1>7. \A u \in Temporary, v \in Temporary \cup {l} :
         u # v /\ Older(l, u, v) =>
            \A c \in Range(q[u]), d \in Range(q[v]) : data[c] = data[d] => Lt(W, c, d)
  BY DEF Ages, Stable
<1>8. ASSUME NEW u \in Temporary, NEW v \in Temporary \cup {l}, u # v, Older(l, u, v)
      PROVE  Stable(W, r[u], r[v])
  <2> SUFFICES ASSUME NEW c \in Range(r[u]), NEW d \in Range(r[v]), data[c] = data[d]
               PROVE  Lt(W, c, d)
    BY DEF Stable
  <2>1. u # a /\ v # a
    BY <1>3, EmptyFacts
  <2>2. CASE u = b
    <3>1. c \in Range(q[a]) /\ d \in Range(q[v]) /\ q[v] # << >>
      BY <1>2, <1>3, <1>8, <2>1, <2>2, EmptyFacts
    <3>2. Older(l, a, v)
      BY <1>8, <2>1, <2>2, <3>1
    <3> QED
      BY <1>7, <2>1, <3>1, <3>2
  <2>3. CASE u # b /\ v = b
    <3>1. c \in Range(q[u]) /\ d \in Range(q[a]) /\ q[u] # << >>
      BY <1>2, <1>3, <2>1, <2>3, EmptyFacts
    <3>2. Older(l, u, a)
      BY <1>8, <2>1, <2>3, <3>1
    <3> QED
      BY <1>7, <2>1, <3>1, <3>2
  <2>4. CASE u # b /\ v # b
    <3>1. c \in Range(q[u]) /\ d \in Range(q[v])
      BY <1>2, <2>1, <2>4
    <3> QED
      BY <1>7, <1>8, <3>1
  <2> QED
    BY <2>2, <2>3, <2>4
<1> QED
  BY <1>4, <1>6, <1>8 DEF Ages

\* Moving a list loses no node.
LEMMA NodesShift ==
    ASSUME NEW q, NEW l, NEW a \in Temporary, NEW b \in Temporary, NEW r, Shifts(q, r, l, a, b)
    PROVE  SameNodes(q, r, l)
BY EmptyFacts DEF Shifts, SameNodes

\* Merging two lists loses no node.
LEMMA NodesMerge ==
    ASSUME NEW q, NEW l \in Object, NEW a \in Temporary, NEW b \in Temporary, NEW r, Merges(q, r, a, b)
    PROVE  SameNodes(q, r, l)
<1>1. \A m \in Temporary \cup {l} : m # a /\ m # b => r[m] = q[m]
  BY ObjectKinds DEF Merges
<1>2. Range(r[a]) \cup Range(r[b]) = Range(q[a]) \cup Range(q[b])
  BY DEF Merges
<1> QED
  BY <1>1, <1>2 DEF SameNodes

-----------------------------------------------------------------------------
\* sort() begins with all its counters empty.
LEMMA SortStarts ==
    ASSUME Types, NEW q, Idle(q), NEW l \in Object, sort(l)
    PROVE  Types' /\ Loops'
<1>1. /\ Holds(q) /\ l \in ListObject /\ Spare(q)
      /\ \A m \in Object : q[m] = want[m]
      /\ want \in [Object -> Seq(Node)]
  BY ObjectKinds DEF Idle, Others, Types
<1>2. PICK t \in Seq(Node) : t = q[l] /\ t # << >> /\ IsInjective(t)
  BY <1>1, HeldContents, HeldLists DEF sort
<1>3. PICK W : W = sorted(t)
  OBVIOUS
<1>4. \A n \in Range(t) : data[n] \in Int
  BY <1>1, <1>2, HeldData
<1>5. Sorts(t, W)
  BY <1>2, <1>3, <1>4, SortedIs
<1>6. /\ want' = [want EXCEPT ![l] = W] /\ pc' = "take" /\ UNCHANGED heap
      /\ local' = [no_local EXCEPT !.value = l]
  BY <1>1, <1>2, <1>3 DEF sort, call
<1>7. local'.value = l /\ local'.fill = 0
  BY <1>6 DEF no_local
<1>8. \A m \in Temporary : q[m] = << >> /\ Range(q[m]) = {}
  BY <1>1, EmptyFacts DEF Spare
<1>9. Ages(q, W, l)
  <2>1. InOrder(W, q[l])
    BY <1>2, <1>5 DEF Sorts
  <2>2. Ascends(W, << >>)
    BY EmptyFacts DEF Ascends
  <2> QED
    BY <1>8, <2>1, <2>2 DEF Ages, Stable
<1>10. Sortable(q, W, l, 0)
  <2>1. Goal(W) /\ Range(W) = Range(t)
    BY <1>5 DEF Sorts
  <2>2. Range(t) \subseteq Node
    BY SeqFacts
  <2>3. Range(W) = {n \in Node : \E m \in Temporary \cup {l} : n \in Range(q[m])}
    BY <1>2, <1>8, <2>1, <2>2
  <2>4. 0 \in 0..(MaxFill + 1) /\ \A j \in 0..MaxFill : q[counter(j)] = << >>
    BY <1>8, Counters
  <2> QED
    BY <1>9, <2>1, <2>3, <2>4 DEF Sortable
<1>11. Sorting(q)'
  <2>1. Sortable(q, W, l, 0)'
    BY <1>6, <1>10, SortableNow DEF heap
  <2>2. Sortable(q, want[sortee], sortee, local.fill)'
    BY <1>1, <1>6, <1>7, <2>1 DEF sortee
  <2>3. Others(q, {sortee})'
    BY <1>1, <1>6, <1>7 DEF Others, sortee
  <2>4. Holds(q)'
    BY <1>1, <1>6, HoldsSame
  <2> QED
    BY <1>7, <2>2, <2>3, <2>4 DEF Sorting, sortee
<1>12. Taking(q)'
  <2>1. q[carry] = << >> /\ \A j \in 0..MaxFill : Len(q[counter(j)]) = 0
    BY <1>8, Counters, EmptyFacts
  <2>2. Powers(q, {})'
    BY <2>1 DEF Powers
  <2> QED
    BY <1>2, <1>6, <1>7, <1>11, <2>1, <2>2 DEF Taking, sortee
<1>13. Loops'
  BY <1>12 DEF Loops, Doing
<1>14. Types'
  <2>1. local' \in Locals
    BY <1>6 DEF Locals, no_local
  <2>2. W \in Seq(Node)
    BY <1>5 DEF Sorts, Goal
  <2>3. want' \in [Object -> Seq(Node)] /\ data' = data
    BY <1>1, <1>6, <2>2 DEF heap
  <2> QED
    BY <2>1, <2>3 DEF Types, Locals
<1> QED
  BY <1>13, <1>14

-----------------------------------------------------------------------------
\* The steps of sort()

\* q and the local variables are those of a sort of l; W is its goal.
SortOf(q, l, W, f) ==
    /\ Holds(q) /\ l \in Object /\ l \in ListObject /\ l \notin Temporary
    /\ local.value = l /\ want[l] = W /\ local.fill = f
    /\ Sortable(q, W, l, f) /\ \A m \in Object : m # l => q[m] = want[m]

\* What sort() is sorting
LEMMA SortIs ==
    ASSUME NEW q, Sorting(q)
    PROVE  \E l, W, f : SortOf(q, l, W, f)
<1>1. SortOf(q, local.value, want[local.value], local.fill)
  BY ObjectKinds DEF Sorting, SortOf, Others, sortee
<1> QED
  BY <1>1

\* A step of sort() that loses no node and keeps the ages right leads on.
LEMMA SortGoes ==
    ASSUME NEW q, NEW l, NEW W, NEW f, SortOf(q, l, W, f),
           NEW r, Holds(r)', \A m \in Object : m # l => r[m] = q[m], SameNodes(q, r, l), Ages(r, W, l),
           NEW f2, Full(r, l, f2), local'.value = l, local'.fill = f2, want' = want, UNCHANGED data
    PROVE  Sorting(r)'
<1>1. l \in Object /\ want[l] = W /\ Sortable(q, W, l, f) /\ \A m \in Object : m # l => r[m] = want[m]
  BY DEF SortOf
<1>2. Sortable(r, W, l, f2)
  BY <1>1, SortableKept
<1> QED
  BY <1>1, <1>2, SortingNow

\* The list is empty: sort() goes on to collect.
LEMMA SortTaken ==
    ASSUME Types, NEW q, Taking(q), sort_taken
    PROVE  Types' /\ Loops'
<1>1. PICK l, W, f : SortOf(q, l, W, f)
  BY SortIs DEF Taking
<1>2. /\ Holds(q) /\ l \in Object /\ l \in ListObject /\ Sortable(q, W, l, f)
      /\ local.value = l /\ local.fill = f /\ want[l] = W
      /\ \A m \in Object : m # l => q[m] = want[m]
  BY <1>1 DEF SortOf
<1>3. /\ pc' = "collect" /\ local' = [local EXCEPT !.i = 1] /\ UNCHANGED heap /\ want' = want
      /\ q[l] = << >>
  BY <1>2, HeldContents DEF sort_taken, sortee
<1>4. f \in Nat /\ f # 0 /\ q[carry] = << >>
  BY <1>2, <1>3, Counters DEF Taking, sortee, Sortable
<1>5. local'.i = 1 /\ local'.value = l /\ local'.fill = f /\ local' \in Locals
  BY <1>2, <1>3 DEF Types, Locals
<1>6. Sorting(q)'
  <2>1. Holds(q)'
    BY <1>2, <1>3, HoldsSame
  <2>2. UNCHANGED data
    BY <1>3 DEF heap
  <2> QED
    BY <1>2, <1>3, <1>5, <2>1, <2>2, SortingNow
<1>7. LowEmpty(q, 0)
  BY Counters DEF LowEmpty
<1>8. Collecting(q)'
  BY <1>3, <1>4, <1>5, <1>6, <1>7 DEF Collecting, sortee, LowEmpty
<1>9. Loops'
  BY <1>8 DEF Loops, Doing
<1> QED
  BY <1>3, <1>5, <1>9 DEF Types, Locals, heap

\* The first node of l becomes the carry.
Takes(q, r, l, g, T) ==
    /\ q[l] = << g >> \o T /\ q[carry] = << >> /\ r[l] = T /\ r[carry] = << g >>
    /\ \A m \in ListObject : m # l /\ m # carry => r[m] = q[m]

\* carry takes the first node of the list.
LEMMA TakeKeeps ==
    ASSUME Types, NEW q, Holds(q), NEW l \in Object, q[carry] = << >>, local.value = l, sort_take
    PROVE  \E r, g, T : g \in Node /\ T \in Seq(Node) /\ Takes(q, r, l, g, T) /\ Holds(r)'
<1>1. l \in ListObject /\ carry \in ListObject /\ l # carry
  BY ObjectKinds, Counters
<1>2. PICK S \in Seq(Node) : S = q[l]
  BY <1>1, HeldLists
<1>3. S # << >>
  BY <1>1, <1>2, HeldContents DEF sort_take, sortee
<1>4. PICK g, T : Heads(S, g, T)
  BY <1>3, HeadAndRest
<1>5. g \in Node /\ T \in Seq(Node) /\ S = << g >> \o T /\ Fst(S, l) = g
  BY <1>3, <1>4 DEF Heads, Fst
<1>6. PICK none \in Seq(Node) : none = << >>
  BY EmptyFacts
<1>7. PICK G \in Seq(Node) : G = << g >> /\ G # << >> /\ G[1] = g
  BY <1>5, OneNode
<1>8. none \o S = S /\ none \o none = none /\ G \o none = G /\ none \o G = G /\ none \o T = T
  BY <1>5, <1>6, ConcatFacts
<1>9. next[g] = Fst(T, l)
  <2>1. q[l] = none \o (<< g >> \o T)
    BY ONLY <1>2, <1>5, <1>8
  <2>2. Around(next, prev, Lst(l, none), g, Fst(T, l))
    BY <1>1, <1>5, <2>1, Neighbours DEF Holds
  <2> QED
    BY <2>2 DEF Around
<1>10. next[l] = g /\ next[carry] = carry
  <2>1. next[l] = Fst(q[l], l) /\ next[carry] = Fst(q[carry], carry)
    BY <1>1, HeldContents
  <2>2. Fst(q[carry], carry) = carry
    BY DEF Fst
  <2> QED
    BY <1>2, <1>5, <2>1, <2>2
<1>11. transfer(carry, g, Fst(T, l)) /\ UNCHANGED data
  BY <1>9, <1>10 DEF sort_take, begin, sortee
<1>12. PICK qc : qc = [q EXCEPT ![l] = none \o T]
  OBVIOUS
<1>13. q \in [ListObject -> Seq(Node)]
  BY HeldLists
<1>14. qc[carry] = none \o none /\ q[l] = none \o (G \o T)
  <2>1. qc[carry] = q[carry]
    BY <1>1, <1>12, <1>13
  <2>2. q[l] = G \o T
    BY <1>2, <1>5, <1>7
  <2>3. none \o (G \o T) = S
    BY <1>2, <1>8, <2>2
  <2> QED
    BY ONLY <1>2, <1>6, <1>8, <2>1, <2>3, q[carry] = << >>
<1>15. transfer(Fst(none, carry), G[1], Fst(T, l))
  BY <1>6, <1>7, <1>11 DEF Fst
<1>16. PICK r : r = [qc EXCEPT ![carry] = G]
  OBVIOUS
<1>17. Holds(r)'
  <2>1. Holds([qc EXCEPT ![carry] = none \o (G \o none)])'
    BY <1>1, <1>5, <1>7, <1>11, <1>12, <1>14, <1>15, HoldsTransfer
  <2>2. none \o (G \o none) = G
    BY ONLY <1>8
  <2> QED
    BY <1>16, <2>1, <2>2
<1>18. r[l] = T /\ r[carry] = G /\ \A m \in ListObject : m # l /\ m # carry => r[m] = q[m]
  BY <1>1, <1>8, <1>12, <1>13, <1>16
<1>19. Takes(q, r, l, g, T)
  BY <1>2, <1>5, <1>7, <1>18 DEF Takes
<1> QED
  BY <1>5, <1>17, <1>19

\* It is the oldest of the list and younger than all that the counters hold.
LEMMA AgesTake ==
    ASSUME NEW q, NEW W, NEW l \in Object, Ages(q, W, l), NEW r, NEW g \in Node, NEW T \in Seq(Node),
           Takes(q, r, l, g, T)
    PROVE  Ages(r, W, l) /\ SameNodes(q, r, l)
<1>1. /\ carry \in Temporary /\ \A t \in Temporary : t # l /\ t \in ListObject
      /\ \A t \in Temporary : t # carry => r[t] = q[t]
      /\ r[l] = T /\ r[carry] = << g >> /\ q[l] = << g >> \o T /\ q[carry] = << >>
  BY ObjectKinds, Counters DEF Takes
<1>2. PICK G \in Seq(Node) : G = << g >> /\ Range(G) = {g} /\ Len(G) = 1
  BY OneNode
<1>3. Range(q[l]) = {g} \cup Range(T)
  BY <1>1, HeadRange
<1>4. InOrder(W, T) /\ Stable(W, G, T)
  <2>1. InOrder(W, G \o T)
    BY <1>1, <1>2 DEF Ages
  <2> QED
    BY <2>1, InOrderConcat
<1>5. \A t \in Temporary : Ascends(W, r[t])
  <2>1. Ascends(W, G)
    BY <1>2 DEF Ascends
  <2> QED
    BY <1>1, <1>2, <2>1 DEF Ages
<1>6. ASSUME NEW u \in Temporary, NEW v \in Temporary \cup {l}, u # v, Older(l, u, v)
      PROVE  Stable(W, r[u], r[v])
  <2>1. CASE u = carry
    <3>1. v = l
      BY <1>6, <2>1, OlderIs, Counters
    <3> QED
      BY <1>1, <1>2, <1>4, <2>1, <3>1
  <2>2. CASE u # carry /\ v \in {carry, l}
    <3>1. Stable(W, q[u], q[l])
      BY <1>1, OlderIs DEF Ages
    <3>2. r[u] = q[u] /\ Range(r[v]) \subseteq Range(q[l])
      BY <1>1, <1>2, <1>3, <2>2
    <3> QED
      BY <3>1, <3>2 DEF Stable
  <2>3. CASE u # carry /\ v \notin {carry, l}
    BY <1>1, <1>6, <2>3 DEF Ages
  <2> QED
    BY <2>1, <2>2, <2>3
<1>7. Ages(r, W, l)
  BY <1>1, <1>4, <1>5, <1>6 DEF Ages
<1>8. SameNodes(q, r, l)
  <2>1. Range(q[carry]) = {} /\ Range(r[carry]) = {g}
    BY <1>1, <1>2, EmptyFacts
  <2> QED
    BY <1>1, <1>3, <2>1 DEF SameNodes
<1> QED
  BY <1>7, <1>8

\* sort() takes a node and begins to carry it at counter 0.
LEMMA SortTake ==
    ASSUME Types, NEW q, Taking(q), sort_take
    PROVE  Types' /\ Loops'
<1>1. PICK l, W, f : SortOf(q, l, W, f)
  BY SortIs DEF Taking
<1>2. /\ Holds(q) /\ l \in Object /\ l \in ListObject /\ Sortable(q, W, l, f)
      /\ local.value = l /\ local.fill = f /\ q[carry] = << >>
  BY <1>1 DEF SortOf, Taking
<1>3. PICK r, g, T : g \in Node /\ T \in Seq(Node) /\ Takes(q, r, l, g, T) /\ Holds(r)'
  BY <1>2, TakeKeeps
<1>4. pc' = "carry" /\ local' = [local EXCEPT !.i = 0] /\ want' = want /\ data' = data
  BY DEF sort_take
<1>5. local'.i = 0 /\ local'.value = l /\ local'.fill = f /\ local' \in Locals
  BY <1>2, <1>4 DEF Types, Locals
<1>6. Ages(r, W, l) /\ SameNodes(q, r, l)
  <2>1. Ages(q, W, l)
    BY <1>2 DEF Sortable
  <2> QED
    BY <1>2, <1>3, <2>1, AgesTake
<1>7. /\ \A m \in Object : m # l => r[m] = q[m]
      /\ \A j \in 0..MaxFill : r[counter(j)] = q[counter(j)]
  BY <1>2, <1>3, ObjectKinds, Counters DEF Takes
<1>8. Full(r, l, f)
  BY <1>2, <1>7 DEF Full, Sortable
<1>9. Sorting(r)'
  BY <1>1, <1>3, <1>4, <1>5, <1>6, <1>7, <1>8, SortGoes
<1>10. Len(r[carry]) = power[0]
  BY <1>3, OneNode, PowersAre DEF Takes
<1>11. LowEmpty(r, 0) /\ Powers(r, {})
  <2>1. Powers(q, {})
    BY DEF Taking
  <2> QED
    BY <1>7, <2>1, Counters DEF LowEmpty, Powers
<1>12. f \in Nat
  BY <1>2, Counters DEF Sortable
<1>13. Carrying(r)'
  BY <1>4, <1>5, <1>9, <1>10, <1>11, <1>12 DEF Carrying, LowEmpty, Powers
<1>14. Loops'
  BY <1>13 DEF Loops, Doing
<1> QED
  BY <1>4, <1>5, <1>14 DEF Types, Locals

\* swap() of a list and an empty one
LEMMA SwapShifts ==
    ASSUME NEW q, Holds(q), NEW l \in Object, NEW a \in Temporary, NEW b \in Temporary, a # b,
           q[b] = << >>, swap(carry, counter(local.i)),
           {a, b} = {carry, counter(local.i)}
    PROVE  \E r : Shifts(q, r, l, a, b) /\ Holds(r)' /\ \A m \in Object : r[m] = q[m]
<1>1. /\ a \in ListObject /\ b \in ListObject /\ a # l /\ b # l /\ l \in ListObject
      /\ \A m \in Object : m \in ListObject /\ m # a /\ m # b
      /\ \A t \in Temporary : t \in ListObject
  BY ObjectKinds
<1>2. PICK c \in ListObject, d \in ListObject : c = carry /\ d = counter(local.i) /\ c # d /\ {a, b} = {c, d}
  BY <1>1
<1>3. PICK r : r = [q EXCEPT ![c] = q[d], ![d] = q[c]]
  OBVIOUS
<1>4. Holds(r)'
  <2>1. swap(c, d)
    BY <1>2
  <2> QED
    BY <1>2, <1>3, <2>1, HoldsSwap
<1>5. q \in [ListObject -> Seq(Node)]
  BY HeldLists
<1>6. r[c] = q[d] /\ r[d] = q[c] /\ \A m \in ListObject : m # c /\ m # d => r[m] = q[m]
  BY <1>2, <1>3, <1>5
<1>7. r[a] = q[b] /\ r[b] = q[a] /\ \A m \in ListObject : m # a /\ m # b => r[m] = q[m]
  BY <1>2, <1>6
<1>8. Shifts(q, r, l, a, b)
  BY <1>1, <1>7 DEF Shifts
<1> QED
  BY <1>1, <1>4, <1>7, <1>8

\* carry is merged: it is counter i's now, and goes on to counter i + 1.
LEMMA SortCarried ==
    ASSUME Types, NEW q, Carried(q), sort_carried
    PROVE  Types' /\ Loops'
<1>1. PICK l, W, f : SortOf(q, l, W, f)
  BY SortIs DEF Carried
<1>2. /\ Holds(q) /\ l \in Object /\ l \in ListObject /\ l \notin Temporary /\ Sortable(q, W, l, f)
      /\ local.value = l /\ local.fill = f /\ q[carry] = << >>
  BY <1>1 DEF SortOf, Carried
<1>3. f \in 0..(MaxFill + 1) /\ (\A j \in 0..MaxFill : j >= f => q[counter(j)] = << >>) /\ Ages(q, W, l)
  BY <1>2 DEF Sortable
<1>4. PICK i \in 0..MaxFill : i = local.i /\ i < f
  BY <1>2, <1>3, Counters DEF Carried
<1>5. /\ Len(q[counter(i)]) = power[i + 1] /\ (\A j \in 0..MaxFill : j < i => q[counter(j)] = << >>)
      /\ \A j \in 0..MaxFill : j # i => Len(q[counter(j)]) \in {0, power[j]}
  BY <1>4 DEF Carried, LowEmpty, Powers
<1>6. pc' = "carry" /\ local' = [local EXCEPT !.i = local.i + 1] /\ want' = want /\ data' = data
  BY DEF sort_carried, swap
<1>7. local'.i = i + 1 /\ local'.value = l /\ local'.fill = f /\ local' \in Locals
  <2>1. PICK k \in Nat : k = i + 1 /\ k = local.i + 1
    BY <1>4, Counters
  <2>2. local' = [local EXCEPT !.i = k] /\ local \in Locals
    BY <1>6, <2>1 DEF Types
  <2>3. local'.i = k /\ local'.value = l /\ local'.fill = f /\ local' \in Locals
    BY ONLY <1>2, <2>2, k \in Nat DEF Locals
  <2> QED
    BY <2>1, <2>3
<1>8. PICK a \in Temporary : a = counter(i) /\ a # carry
  BY Counters
<1>9. PICK r : Shifts(q, r, l, a, carry) /\ Holds(r)' /\ \A m \in Object : r[m] = q[m]
  <2>1. swap(carry, counter(local.i)) /\ {a, carry} = {carry, counter(local.i)}
    BY <1>4, <1>8 DEF sort_carried
  <2> QED
    BY <1>2, <1>8, <2>1, Counters, SwapShifts
<1>10. Ages(r, W, l)
  <2>1. ASSUME NEW u \in Temporary, u # a, u # carry, Older(l, u, carry)
        PROVE  Older(l, u, a) \/ q[u] = << >>
    <3>1. PICK j \in 0..MaxFill : u = counter(j)
      BY <2>1, Counters
    <3>2. CASE j < i
      BY <1>5, <3>1, <3>2
    <3>3. CASE ~(j < i)
      <4>1. i < j
        BY <1>8, <2>1, <3>1, <3>3
      <4> QED
        BY <1>2, <1>8, <3>1, <4>1, OlderIs
    <3> QED
      BY <3>2, <3>3
  <2>2. ASSUME NEW v \in Temporary \cup {l}, v # a, v # carry, Older(l, carry, v)
        PROVE  Older(l, a, v) \/ q[v] = << >>
    <3>1. v = l
      BY <1>2, <2>2, Counters, OlderIs
    <3> QED
      BY <1>2, <3>1, OlderIs
  <2> QED
    BY <1>2, <1>3, <1>8, <1>9, <2>1, <2>2, Counters, AgesShift
<1>11. SameNodes(q, r, l)
  BY <1>8, <1>9, Counters, NodesShift
<1>12. \A j \in 0..MaxFill : r[counter(j)] = IF j = i THEN << >> ELSE q[counter(j)]
  BY <1>8, <1>9, Counters DEF Shifts
<1>13. Full(r, l, f)
  BY <1>3, <1>4, <1>12 DEF Full
<1>14. Sorting(r)'
  BY <1>1, <1>6, <1>7, <1>9, <1>10, <1>11, <1>13, SortGoes
<1>15. Len(r[carry]) = power[i + 1]
  BY <1>5, <1>8, <1>9 DEF Shifts
<1>16. LowEmpty(r, i + 1)
  BY <1>5, <1>12 DEF LowEmpty
<1>17. Powers(r, {})
  BY <1>5, <1>12, EmptyFacts DEF Powers
<1>18. i + 1 \in 0..f
  BY <1>3, <1>4
<1>19. Carrying(r)'
  BY <1>6, <1>7, <1>14, <1>15, <1>16, <1>17, <1>18 DEF Carrying, LowEmpty, Powers
<1>20. Loops'
  BY <1>19 DEF Loops, Doing
<1> QED
  BY <1>6, <1>7, <1>20 DEF Types, Locals

\* carry stays at an empty counter; there is one, for 2^fill nodes would not fit in Node.
LEMMA SortPut ==
    ASSUME Types, NEW q, Carrying(q), sort_put
    PROVE  Types' /\ Loops'
<1>1. PICK l, W, f : SortOf(q, l, W, f)
  BY SortIs DEF Carrying
<1>2. /\ Holds(q) /\ l \in Object /\ l \in ListObject /\ l \notin Temporary /\ Sortable(q, W, l, f)
      /\ local.value = l /\ local.fill = f
  BY <1>1 DEF SortOf
<1>3. f \in 0..(MaxFill + 1) /\ (\A j \in 0..MaxFill : j >= f => q[counter(j)] = << >>) /\ Ages(q, W, l)
  BY <1>2 DEF Sortable
<1>4. PICK i \in 0..(MaxFill + 1) : i = local.i /\ i <= f
  BY <1>2, <1>3, Counters DEF Carrying
<1>5. /\ Len(q[carry]) = power[i] /\ (\A j \in 0..MaxFill : j < i => q[counter(j)] = << >>)
      /\ \A j \in 0..MaxFill : Len(q[counter(j)]) \in {0, power[j]}
  BY <1>4 DEF Carrying, LowEmpty, Powers
<1>6. i \in 0..MaxFill
  <2>1. PICK t \in Seq(Node) : t = q[carry] /\ IsInjective(t)
    BY <1>2, HeldLists, Counters, ObjectKinds
  <2>2. longest \in Nat /\ power[i] <= longest
    BY <1>5, <2>1, NodesAreFew
  <2>3. longest < power[MaxFill + 1]
    BY StlListAssumption DEF longest
  <2>4. i # MaxFill + 1
    BY <2>2, <2>3, PowersAre, Counters
  <2> QED
    BY <2>4, Counters
<1>7. PICK b \in Temporary : b = counter(i) /\ b # carry
  BY <1>6, Counters
<1>8. q[b] = << >>
  <2>1. b \in ListObject
    BY ObjectKinds
  <2>2. local.i < local.fill /\ ~empty(b) => occupied
    BY <1>4, <1>7 DEF occupied
  <2>3. i < f => q[b] = << >>
    BY <1>2, <1>4, <2>1, <2>2, HeldContents DEF sort_put
  <2> QED
    BY <1>3, <1>4, <1>6, <1>7, <2>3
<1>9. PICK f2 : f2 = IF i = f THEN f + 1 ELSE f
  OBVIOUS
<1>10. f2 \in 1..(MaxFill + 1) /\ i < f2 /\ f <= f2
  BY <1>3, <1>4, <1>6, <1>9, Counters
<1>11. pc' = "take" /\ local' = [local EXCEPT !.fill = f2] /\ want' = want /\ data' = data
  BY <1>2, <1>4, <1>9 DEF sort_put, swap
<1>12. local'.value = l /\ local'.fill = f2 /\ local' \in Locals
  <2>1. f2 \in Nat /\ local \in Locals
    BY <1>10, Counters DEF Types
  <2> QED
    BY ONLY <1>2, <1>11, <2>1 DEF Locals
<1>13. PICK r : Shifts(q, r, l, carry, b) /\ Holds(r)' /\ \A m \in Object : r[m] = q[m]
  <2>1. swap(carry, counter(local.i)) /\ {carry, b} = {carry, counter(local.i)}
    BY <1>4, <1>7 DEF sort_put
  <2> QED
    BY <1>2, <1>7, <1>8, <2>1, Counters, SwapShifts
<1>14. Ages(r, W, l)
  <2>1. ASSUME NEW u \in Temporary, u # carry, u # b, Older(l, u, b)
        PROVE  Older(l, u, carry) \/ q[u] = << >>
    BY <1>2, OlderIs
  <2>2. ASSUME NEW v \in Temporary \cup {l}, v # carry, v # b, Older(l, b, v)
        PROVE  Older(l, carry, v) \/ q[v] = << >>
    <3>1. CASE v = l
      BY <1>2, <3>1, Counters, OlderIs
    <3>2. CASE v # l
      <4>1. PICK j \in 0..MaxFill : v = counter(j)
        BY <2>2, <3>2, Counters
      <4>2. j < i
        BY <1>2, <1>6, <1>7, <2>2, <4>1, OlderIs
      <4> QED
        BY <1>5, <4>1, <4>2
    <3> QED
      BY <3>1, <3>2
  <2> QED
    BY <1>2, <1>3, <1>7, <1>13, <2>1, <2>2, Counters, AgesShift
<1>15. SameNodes(q, r, l)
  BY <1>7, <1>13, Counters, NodesShift
<1>16. \A j \in 0..MaxFill : r[counter(j)] = IF j = i THEN q[carry] ELSE q[counter(j)]
  BY <1>6, <1>7, <1>13, Counters DEF Shifts
<1>17. Full(r, l, f2)
  BY <1>3, <1>10, <1>16, Counters DEF Full
<1>18. Sorting(r)'
  BY <1>1, <1>11, <1>12, <1>13, <1>14, <1>15, <1>17, SortGoes
<1>19. r[carry] = << >>
  BY <1>13 DEF Shifts
<1>20. Powers(r, {})
  BY <1>5, <1>16 DEF Powers
<1>21. Taking(r)'
  BY <1>10, <1>11, <1>12, <1>18, <1>19, <1>20 DEF Taking, Powers
<1>22. Loops'
  BY <1>21 DEF Loops, Doing
<1> QED
  BY <1>11, <1>12, <1>22 DEF Types, Locals

-----------------------------------------------------------------------------
\* The merges of sort()

\* Two of sort()'s lists, the older first, can be merged.
LEMMA SortedPair ==
    ASSUME NEW q, Holds(q), NEW W, NEW l \in Object, NEW f, Sortable(q, W, l, f),
           NEW a \in Temporary, NEW b \in Temporary, a # b, Older(l, a, b)
    PROVE  PairOf(q, W, a, b)
<1>1. Goal(W) /\ Ages(q, W, l) /\ Range(W) = {n \in Node : \E m \in Temporary \cup {l} : n \in Range(q[m])}
  BY DEF Sortable
<1>2. Ascends(W, q[a]) /\ Ascends(W, q[b]) /\ Stable(W, q[a], q[b])
  BY <1>1 DEF Ages
<1>3. \A m \in Temporary : Range(q[m]) \subseteq Node
  <2>1. ASSUME NEW m \in Temporary
        PROVE  Range(q[m]) \subseteq Node
    <3>1. q[m] \in Seq(Node)
      BY HeldLists, ObjectKinds
    <3> QED
      BY <3>1, SeqFacts
  <2> QED
    BY <2>1
<1>4. Range(q[a]) \cup Range(q[b]) \subseteq Range(W)
  BY <1>1, <1>3
<1> QED
  BY <1>1, <1>2, <1>4 DEF PairOf

\* A merge of b into a is entered.
Enters(q, a, b, k, s) ==
    /\ Sorting(q)' /\ pc' = "merge" /\ Pair(q, want[sortee])'
    /\ local'.this = a /\ local'.x = b /\ local'.ret = s /\ local'.i = k /\ local'.fill = local.fill

\* merge() begins inside sort().
LEMMA MergeEnters ==
    ASSUME Types, NEW q, NEW l, NEW W, NEW f, SortOf(q, l, W, f),
           NEW a \in Temporary, NEW b \in Temporary, a # b, Older(l, a, b),
           NEW k \in Nat, NEW s \in {"carried", "collect"},
           merging(a, b, [local EXCEPT !.i = k], s), UNCHANGED want
    PROVE  Enters(q, a, b, k, s) /\ Types'
<1>1. /\ Holds(q) /\ l \in Object /\ local.value = l /\ want[l] = W /\ local.fill = f /\ Sortable(q, W, l, f)
      /\ \A m \in Object : m # l => q[m] = want[m]
  BY DEF SortOf
<1>2. a \in ListObject /\ b \in ListObject
  BY ObjectKinds
<1>3. PICK g \in Place, h \in Place : g = begin(a) /\ h = begin(b)
  <2>1. begin(a) = Fst(q[a], a) /\ begin(b) = Fst(q[b], b) /\ q[a] \in Seq(Node) /\ q[b] \in Seq(Node)
    BY <1>1, <1>2, HeldContents, HeldLists DEF begin
  <2> QED
    BY <1>2, <2>1, EndPlaces
<1>4. local' = [local EXCEPT !.i = k, !.this = a, !.x = b, !.ret = s, !.first = g, !.first2 = h]
  BY <1>3 DEF merging
<1>5. pc' = "merge" /\ UNCHANGED heap /\ data' = data /\ want' = want
  BY DEF merging, heap
<1>6. /\ local'.this = a /\ local'.x = b /\ local'.ret = s /\ local'.first = g /\ local'.first2 = h
      /\ local'.i = k /\ local'.fill = f /\ local'.value = l /\ local' \in Locals
  <2>1. local \in Locals
    BY DEF Types
  <2>2. s \in {"idle", "carried", "collect"}
    OBVIOUS
  <2> QED
    BY ONLY <1>1, <1>2, <1>4, <2>1, <2>2, k \in Nat, g \in Place, h \in Place DEF Locals
<1>7. PairOf(q, W, a, b)
  BY <1>1, SortedPair
<1>8. Pair(q, W)'
  BY <1>1, <1>2, <1>3, <1>5, <1>6, <1>7, PairStarts
<1>9. Pair(q, want[sortee])'
  BY <1>1, <1>5, <1>6, <1>8 DEF sortee
<1>10. Sorting(q)'
  <2>1. Holds(q)'
    BY <1>1, <1>5, HoldsSame
  <2> QED
    BY <1>1, <1>5, <1>6, <2>1, SortingNow
<1>11. Types'
  BY <1>5, <1>6 DEF Types, Locals
<1> QED
  BY <1>1, <1>5, <1>6, <1>9, <1>10, <1>11 DEF Enters

\* carry meets a counter that is not empty.
LEMMA SortMerge ==
    ASSUME Types, NEW q, Carrying(q), sort_merge
    PROVE  Types' /\ Loops'
<1>1. PICK l, W, f : SortOf(q, l, W, f)
  BY SortIs DEF Carrying
<1>2. Holds(q) /\ l \in Object /\ Sortable(q, W, l, f) /\ local.fill = f
  BY <1>1 DEF SortOf
<1>3. f \in 0..(MaxFill + 1)
  BY <1>2 DEF Sortable
<1>4. PICK i \in 0..MaxFill : i = local.i /\ i < f
  BY <1>2, <1>3, Counters DEF Carrying, sort_merge, occupied
<1>5. /\ Len(q[carry]) = power[i] /\ LowEmpty(q, i)
      /\ \A j \in 0..MaxFill : Len(q[counter(j)]) \in {0, power[j]}
  BY <1>4 DEF Carrying, Powers
<1>6. PICK a \in Temporary : a = counter(i) /\ a # carry /\ a \in ListObject
  BY Counters, ObjectKinds
<1>7. q[a] # << >>
  BY <1>2, <1>4, <1>6, HeldContents DEF sort_merge, occupied
<1>8. Len(q[a]) = power[i]
  <2>1. q[a] \in Seq(Node)
    BY <1>2, <1>6, HeldLists
  <2> QED
    BY <1>5, <1>6, <1>7, <2>1, SeqFacts
<1>9. Len(q[a]) + Len(q[carry]) = power[i + 1]
  BY <1>5, <1>8, PowersAre
<1>10. merging(a, carry, [local EXCEPT !.i = i], "carried") /\ want' = want
  <2>1. local = [local EXCEPT !.i = i]
    BY <1>4 DEF Types, Locals
  <2> QED
    BY <1>4, <1>6, <2>1 DEF sort_merge
<1>11. Enters(q, a, carry, i, "carried") /\ Types'
  <2>1. Older(l, a, carry) /\ i \in Nat /\ carry \in Temporary
    BY <1>2, OlderIs, Counters
  <2> QED
    BY <1>1, <1>6, <1>10, <2>1, MergeEnters
<1>12. CarryMerging(q)'
  <2>1. i \in 0..(f - 1)
    BY <1>3, <1>4
  <2>2. Powers(q, {i})
    BY <1>5 DEF Powers
  <2> QED
    BY <1>2, <1>5, <1>6, <1>9, <1>11, <2>1, <2>2 DEF Enters, CarryMerging, LowEmpty, Powers
<1>13. Loops'
  BY <1>12 DEF Loops, Doing
<1> QED
  BY <1>11, <1>13

\* Each counter is merged with what the ones before it had.
LEMMA SortCollect ==
    ASSUME Types, NEW q, Collecting(q), sort_collect
    PROVE  Types' /\ Loops'
<1>1. PICK l, W, f : SortOf(q, l, W, f)
  BY SortIs DEF Collecting
<1>2. Holds(q) /\ l \in Object /\ Sortable(q, W, l, f) /\ local.fill = f /\ local.value = l
  BY <1>1 DEF SortOf
<1>3. f \in 0..(MaxFill + 1)
  BY <1>2 DEF Sortable
<1>4. PICK i \in 1..MaxFill : i = local.i /\ i < f
  BY <1>2, <1>3, Counters DEF Collecting, sort_collect
<1>5. LowEmpty(q, i - 1) /\ q[carry] = << >> /\ q[l] = << >>
  BY <1>2, <1>4 DEF Collecting, sortee
<1>6. i \in 0..MaxFill /\ i - 1 \in 0..MaxFill /\ i - 1 < i /\ i + 1 \in Nat
  BY Counters
<1>7. PICK a \in Temporary, b \in Temporary : a = counter(i) /\ b = counter(i - 1) /\ a # b
  BY <1>6, Counters
<1>8. Older(l, a, b)
  BY <1>2, <1>6, <1>7, OlderIs
<1>9. merging(a, b, [local EXCEPT !.i = i + 1], "collect") /\ want' = want
  BY <1>4, <1>7 DEF sort_collect
<1>10. Enters(q, a, b, i + 1, "collect") /\ Types'
  <2>1. PICK k \in Nat : k = i + 1
    BY <1>6
  <2>2. merging(a, b, [local EXCEPT !.i = k], "collect")
    BY <1>9, <2>1
  <2>3. Enters(q, a, b, k, "collect") /\ Types'
    BY <1>1, <1>7, <1>8, <1>9, <2>2, MergeEnters
  <2> QED
    BY <2>1, <2>3
<1>11. CollectMerging(q)'
  <2>1. PICK k \in Nat : k = i + 1 /\ k \in 2..f /\ k - 1 = i /\ k - 2 = i - 1
    BY <1>3, <1>4, <1>6
  <2>2. local'.i = k /\ local'.this = counter(k - 1) /\ local'.x = counter(k - 2) /\ local'.fill = f
    BY <1>2, <1>7, <1>10, <2>1 DEF Enters
  <2>3. q[local'.value] = << >>
    <3>1. local'.value = l
      BY <1>2, <1>9 DEF merging, Types, Locals
    <3> QED
      BY <1>5, <3>1
  <2>4. LowEmpty(q, k - 2)
    BY <1>5, <2>1
  <2> QED
    BY <1>5, <1>10, <2>1, <2>2, <2>3, <2>4 DEF Enters, CollectMerging, LowEmpty, sortee
<1>12. Loops'
  BY <1>11 DEF Loops, Doing
<1> QED
  BY <1>10, <1>12

\* A merge of b into a goes on.
Continues(r, a, b) ==
    /\ Sorting(r)' /\ pc' = pc /\ Pair(r, want[sortee])' /\ local'.this = a /\ local'.x = b
    /\ local'.ret = local.ret /\ local'.i = local.i /\ local'.fill = local.fill /\ local'.value = local.value

\* The counters that are not in use are other lists.
Inside(f, a, b) == \A j \in 0..MaxFill : j >= f => counter(j) # a /\ counter(j) # b

\* Merging two counters in use uses no other.
LEMMA FullMerge ==
    ASSUME NEW q, NEW W, NEW l \in Object, NEW f, Sortable(q, W, l, f), NEW a, NEW b, Inside(f, a, b),
           NEW r, Merges(q, r, a, b)
    PROVE  Full(r, l, f)
<1>1. \A j \in 0..MaxFill : counter(j) \in ListObject
  BY Counters, ObjectKinds
<1> QED
  BY <1>1 DEF Full, Sortable, Inside, Merges

\* A pass of merge() inside sort()
LEMMA MergePassSort ==
    ASSUME Types, NEW q, NEW l, NEW W, NEW f, SortOf(q, l, W, f),
           NEW a \in Temporary, NEW b \in Temporary, local.this = a, local.x = b, Pair(q, W),
           Adjacent(q, l, a, b), Inside(f, a, b), merge_pass
    PROVE  \E r : Merges(q, r, a, b) /\ Continues(r, a, b) /\ Types'
<1>1. /\ Holds(q) /\ l \in Object /\ local.value = l /\ want[l] = W /\ local.fill = f /\ Sortable(q, W, l, f)
  BY DEF SortOf
<1>2. a \in ListObject /\ b \in ListObject /\ \A m \in Object : m \in ListObject /\ m # a /\ m # b
  BY ObjectKinds
<1>3. Merged(q, W, a, b)
  BY <1>1, <1>2, MergePassMerges
<1>4. PICK r : Holds(r)' /\ Pair(r, W)' /\ Merges(q, r, a, b)
  BY <1>3 DEF Merged
<1>5. PICK K \in Seq(Node), T \in Seq(Node), U \in Seq(Node) : MergeAt(q, W, K, T, U)
  BY PairIs
<1>6. a # b /\ local.first = Fst(T, a) /\ local.first2 = Fst(U, b)
  BY <1>5 DEF MergeAt
<1>7. PICK g \in Place \cup {NULL}, h \in Place \cup {NULL} : g = next[local.first] /\ h = next[local.first2]
  <2>1. local.first \in Place /\ local.first2 \in Place
    BY <1>2, <1>6, EndPlaces
  <2>2. next \in [Place -> Place \cup {NULL}]
    BY <1>1 DEF Holds, Shape
  <2> QED
    BY <2>1, <2>2
<1>8. /\ local'.this = a /\ local'.x = b /\ local'.ret = local.ret /\ local'.i = local.i
      /\ local'.fill = local.fill /\ local'.value = local.value /\ local' \in Locals
  <2>1. local' = [local EXCEPT !.first2 = h] \/ local' = [local EXCEPT !.first = g]
    BY <1>7 DEF merge_pass, again
  <2>2. local \in Locals
    BY DEF Types
  <2> QED
    BY ONLY <2>1, <2>2, g \in Place \cup {NULL}, h \in Place \cup {NULL}, local.this = a, local.x = b DEF Locals
<1>9. pc' = pc /\ want' = want /\ data' = data
  BY DEF merge_pass, again
<1>10. Ascends(W, r[a]) /\ Ascends(W, r[b]) /\ Stable(W, r[a], r[b])
  <2>1. (Ascends(W, r[a]) /\ Ascends(W, r[b]) /\ Stable(W, r[a], r[b]))'
    BY <1>4, <1>8 DEF Pair
  <2> QED
    BY <1>9, <2>1 DEF Ascends, Stable, Lt
<1>11. Ages(r, W, l)
  <2>1. Ages(q, W, l)
    BY <1>1 DEF Sortable
  <2> QED
    BY <1>1, <1>4, <1>6, <1>10, <2>1, AgesMerge
<1>12. SameNodes(q, r, l)
  BY <1>1, <1>4, NodesMerge
<1>13. Full(r, l, f)
  BY <1>1, <1>4, FullMerge
<1>14. \A m \in Object : m # l => r[m] = q[m]
  BY <1>2, <1>4 DEF Merges
<1>15. Sorting(r)'
  BY <1>1, <1>4, <1>8, <1>9, <1>11, <1>12, <1>13, <1>14, SortGoes
<1>16. Pair(r, want[sortee])'
  BY <1>1, <1>4, <1>8, <1>9 DEF sortee
<1>17. Types'
  BY <1>8, <1>9 DEF Types, Locals
<1> QED
  BY <1>4, <1>8, <1>9, <1>15, <1>16, <1>17 DEF Continues

\* A merge of b into a is done.
Leaves(r) ==
    /\ Sorting(r)' /\ pc' = local.ret
    /\ local'.i = local.i /\ local'.fill = local.fill /\ local'.value = local.value

\* The end of merge() inside sort()
LEMMA MergeRestSort ==
    ASSUME Types, NEW q, NEW l, NEW W, NEW f, SortOf(q, l, W, f),
           NEW a \in Temporary, NEW b \in Temporary, local.this = a, local.x = b, Pair(q, W),
           Adjacent(q, l, a, b), Inside(f, a, b), local.ret # "idle", merge_rest
    PROVE  \E r : Joins(q, r, W, a, b) /\ Leaves(r) /\ Types'
<1>1. /\ Holds(q) /\ l \in Object /\ local.value = l /\ want[l] = W /\ local.fill = f /\ Sortable(q, W, l, f)
  BY DEF SortOf
<1>2. a \in ListObject /\ b \in ListObject /\ \A m \in Object : m \in ListObject /\ m # a /\ m # b
  BY ObjectKinds
<1>3. Joined(q, W, a, b)
  BY <1>1, <1>2, MergeRestJoins
<1>4. PICK r : Holds(r)' /\ Joins(q, r, W, a, b)
  BY <1>3 DEF Joined
<1>5. a # b
  <2>1. PICK K \in Seq(Node), T \in Seq(Node), U \in Seq(Node) : MergeAt(q, W, K, T, U)
    BY PairIs
  <2> QED
    BY <2>1 DEF MergeAt
<1>6. Merges(q, r, a, b) /\ r[b] = << >> /\ Ascends(W, r[a])
  BY <1>4 DEF Joins
<1>7. /\ local'.i = local.i /\ local'.fill = local.fill /\ local'.value = local.value /\ local' \in Locals
      /\ pc' = local.ret /\ want' = want /\ data' = data
  <2>1. local' = [local EXCEPT !.first = NULL, !.first2 = NULL]
    BY DEF merge_rest, merge_return
  <2>2. local \in Locals
    BY DEF Types
  <2>3. local'.i = local.i /\ local'.fill = local.fill /\ local'.value = local.value /\ local' \in Locals
    BY ONLY <2>1, <2>2 DEF Locals
  <2> QED
    BY <2>3 DEF merge_rest, merge_return
<1>8. Ascends(W, r[b]) /\ Stable(W, r[a], r[b])
  BY <1>6, EmptyFacts DEF Ascends, Stable
<1>9. Ages(r, W, l)
  <2>1. Ages(q, W, l)
    BY <1>1 DEF Sortable
  <2> QED
    BY <1>1, <1>5, <1>6, <1>8, <2>1, AgesMerge
<1>10. SameNodes(q, r, l)
  BY <1>1, <1>6, NodesMerge
<1>11. Full(r, l, f)
  BY <1>1, <1>6, FullMerge
<1>12. \A m \in Object : m # l => r[m] = q[m]
  BY <1>2, <1>6 DEF Merges
<1>13. Sorting(r)'
  BY <1>1, <1>4, <1>7, <1>9, <1>10, <1>11, <1>12, SortGoes
<1>14. Types'
  BY <1>7 DEF Types, Locals
<1> QED
  BY <1>4, <1>7, <1>13, <1>14 DEF Leaves

\* The carry is merged into the i-th counter a.
CarryAt(q, l, W, f, i, a) ==
    /\ i = local.i /\ i \in 0..MaxFill /\ i < f /\ f \in 0..(MaxFill + 1) /\ local.fill = f
    /\ a = counter(i) /\ a # carry /\ local.this = a /\ local.x = carry /\ local.ret = "carried"
    /\ Pair(q, W) /\ Adjacent(q, l, a, carry) /\ Inside(f, a, carry)
    /\ Len(q[a]) + Len(q[carry]) = power[i + 1]
    /\ \A j \in 0..MaxFill : j < i => q[counter(j)] = << >>
    /\ \A j \in 0..MaxFill : j # i => Len(q[counter(j)]) \in {0, power[j]}

\* While a counter takes in carry,
LEMMA CarryPair ==
    ASSUME NEW q, CarryMerging(q), NEW l, NEW W, NEW f, SortOf(q, l, W, f)
    PROVE  \E i, a : a \in Temporary /\ CarryAt(q, l, W, f, i, a)
<1>1. Sortable(q, W, l, f) /\ l \in Object /\ local.value = l /\ local.fill = f /\ want[l] = W
  BY DEF SortOf
<1>2. f \in 0..(MaxFill + 1)
  BY <1>1 DEF Sortable
<1>3. PICK i \in 0..MaxFill : i = local.i /\ i < f
  BY <1>1, <1>2, Counters DEF CarryMerging
<1>4. PICK a \in Temporary : a = counter(i) /\ a # carry
  BY Counters
<1>5. /\ \A j \in 0..MaxFill : j < i => q[counter(j)] = << >>
      /\ \A j \in 0..MaxFill : j # i => Len(q[counter(j)]) \in {0, power[j]}
      /\ Len(q[a]) + Len(q[carry]) = power[i + 1]
      /\ local.this = a /\ local.x = carry /\ local.ret = "carried" /\ Pair(q, W)
  BY <1>1, <1>3, <1>4 DEF CarryMerging, LowEmpty, Powers, sortee
<1>6. Adjacent(q, l, a, carry)
  <2>1. Older(l, a, carry) /\ ~Older(l, carry, a)
    BY <1>1, <1>3, <1>4, OlderIs
  <2>2. ASSUME NEW v \in Temporary \cup {l}, v # a, v # carry, Older(l, a, v)
        PROVE  Older(l, carry, v) \/ q[v] = << >>
    <3>1. CASE v = l
      BY <1>1, <3>1, OlderIs, Counters
    <3>2. CASE v # l
      <4>1. PICK j \in 0..MaxFill : v = counter(j)
        BY <2>2, <3>2, Counters
      <4>2. j < i
        BY <1>1, <1>3, <1>4, <2>2, <4>1, OlderIs
      <4> QED
        BY <1>5, <4>1, <4>2
    <3> QED
      BY <3>1, <3>2
  <2>3. \A u \in Temporary : Older(l, u, carry)
    BY <1>1, OlderIs
  <2> QED
    BY <2>1, <2>2, <2>3 DEF Adjacent
<1>7. Inside(f, a, carry)
  BY <1>2, <1>3, <1>4, Counters DEF Inside
<1>8. CarryAt(q, l, W, f, i, a)
  BY <1>1, <1>2, <1>3, <1>4, <1>5, <1>6, <1>7 DEF CarryAt
<1> QED
  BY <1>8

\* What a merge into the i-th counter a leaves of the other ones
CarryLeft(r, i, a) ==
    LowEmpty(r, i) /\ Powers(r, {i}) /\ Len(r[a]) + Len(r[carry]) = power[i + 1]

\* the other counters keep what they have,
LEMMA CarryOthers ==
    ASSUME NEW q, NEW l, NEW W, NEW f, NEW i, NEW a, CarryAt(q, l, W, f, i, a),
           NEW r, Merges(q, r, a, carry)
    PROVE  CarryLeft(r, i, a)
<1>1. /\ i \in 0..MaxFill /\ a = counter(i) /\ Len(q[a]) + Len(q[carry]) = power[i + 1]
      /\ \A j \in 0..MaxFill : j < i => q[counter(j)] = << >>
      /\ \A j \in 0..MaxFill : j # i => Len(q[counter(j)]) \in {0, power[j]}
  BY DEF CarryAt
<1>2. \A j \in 0..MaxFill : j # i => r[counter(j)] = q[counter(j)]
  <2>1. \A j \in 0..MaxFill : j # i => counter(j) \in ListObject /\ counter(j) # a /\ counter(j) # carry
    BY <1>1, Counters, ObjectKinds
  <2> QED
    BY <2>1 DEF Merges
<1>3. \A j \in 0..MaxFill : j < i => j # i
  BY <1>1, Counters
<1>4. LowEmpty(r, i) /\ Powers(r, {i})
  BY <1>1, <1>2, <1>3 DEF LowEmpty, Powers
<1>5. Len(r[a]) + Len(r[carry]) = power[i + 1]
  BY <1>1 DEF Merges
<1> QED
  BY <1>4, <1>5 DEF CarryLeft

\* in every pass,
LEMMA CarryMergePass ==
    ASSUME Types, NEW q, CarryMerging(q), merge_pass
    PROVE  Types' /\ Loops'
<1>1. PICK l, W, f : SortOf(q, l, W, f)
  BY SortIs DEF CarryMerging
<1>2. PICK i, a : a \in Temporary /\ CarryAt(q, l, W, f, i, a)
  BY <1>1, CarryPair
<1>3. /\ i = local.i /\ i \in 0..MaxFill /\ i < f /\ f \in 0..(MaxFill + 1) /\ local.fill = f
      /\ a = counter(i) /\ a # carry /\ local.this = a /\ local.x = carry /\ local.ret = "carried"
      /\ Pair(q, W) /\ Adjacent(q, l, a, carry) /\ Inside(f, a, carry)
  BY <1>2 DEF CarryAt
<1>4. PICK r : Merges(q, r, a, carry) /\ Continues(r, a, carry) /\ Types'
  BY <1>1, <1>2, <1>3, Counters, MergePassSort
<1>5. CarryLeft(r, i, a)
  BY <1>2, <1>4, CarryOthers
<1>6. i \in 0..(f - 1) /\ pc = "merge"
  BY <1>3 DEF CarryMerging
<1>7. CarryMerging(r)'
  BY <1>3, <1>4, <1>5, <1>6 DEF Continues, CarryLeft, CarryMerging, LowEmpty, Powers
<1>8. Loops'
  BY <1>7 DEF Loops, Doing
<1> QED
  BY <1>4, <1>8

\* and at the end.
LEMMA CarryMergeRest ==
    ASSUME Types, NEW q, CarryMerging(q), merge_rest
    PROVE  Types' /\ Loops'
<1>1. PICK l, W, f : SortOf(q, l, W, f)
  BY SortIs DEF CarryMerging
<1>2. PICK i, a : a \in Temporary /\ CarryAt(q, l, W, f, i, a)
  BY <1>1, CarryPair
<1>3. /\ i = local.i /\ i \in 0..MaxFill /\ i < f /\ f \in 0..(MaxFill + 1) /\ local.fill = f
      /\ a = counter(i) /\ a # carry /\ local.this = a /\ local.x = carry /\ local.ret = "carried"
      /\ Pair(q, W) /\ Adjacent(q, l, a, carry) /\ Inside(f, a, carry)
  BY <1>2 DEF CarryAt
<1>4. PICK r : Joins(q, r, W, a, carry) /\ Leaves(r) /\ Types'
  BY <1>1, <1>2, <1>3, Counters, MergeRestSort
<1>5. Merges(q, r, a, carry) /\ r[carry] = << >>
  BY <1>4 DEF Joins
<1>6. LowEmpty(r, i) /\ Powers(r, {i}) /\ Len(r[a]) + Len(r[carry]) = power[i + 1]
  <2>1. CarryLeft(r, i, a)
    BY <1>2, <1>5, CarryOthers
  <2> QED
    BY <2>1 DEF CarryLeft
<1>7. Len(r[a]) = power[i + 1]
  <2>1. Len(r[a]) \in Nat
    <3>1. Holds(r)' /\ a \in ListObject
      BY <1>2, <1>4, ObjectKinds DEF Leaves, Sorting
    <3>2. r[a] \in Seq(Node)
      BY <3>1 DEF Holds, Shape, Apart
    <3> QED
      BY <3>2, SeqFacts
  <2> QED
    BY <1>5, <1>6, <2>1, EmptyFacts
<1>8. i \in 0..(f - 1)
  BY <1>3
<1>9. Carried(r)'
  BY <1>3, <1>4, <1>5, <1>6, <1>7, <1>8 DEF Leaves, Carried, LowEmpty, Powers
<1>10. Loops'
  BY <1>9 DEF Loops, Doing
<1> QED
  BY <1>4, <1>10

\* The counter b is merged into the next one, a.
CollectAt(q, l, W, f, i, a, b) ==
    /\ i = local.i /\ i \in 2..f /\ f \in 0..(MaxFill + 1) /\ local.fill = f /\ local.value = l
    /\ i - 1 \in 0..MaxFill /\ i - 2 \in 0..MaxFill
    /\ a = counter(i - 1) /\ b = counter(i - 2) /\ local.this = a /\ local.x = b /\ local.ret = "collect"
    /\ Pair(q, W) /\ Adjacent(q, l, a, b) /\ Inside(f, a, b)
    /\ q[carry] = << >> /\ q[l] = << >>
    /\ \A j \in 0..MaxFill : j < i - 2 => q[counter(j)] = << >>

\* While a counter takes in the one before it,
LEMMA CollectPair ==
    ASSUME NEW q, CollectMerging(q), NEW l, NEW W, NEW f, SortOf(q, l, W, f)
    PROVE  \E i, a, b : a \in Temporary /\ b \in Temporary /\ CollectAt(q, l, W, f, i, a, b)
<1>1. Sortable(q, W, l, f) /\ l \in Object /\ local.value = l /\ local.fill = f /\ want[l] = W
  BY DEF SortOf
<1>2. f \in 0..(MaxFill + 1)
  BY <1>1 DEF Sortable
<1>3. PICK i \in 2..f : i = local.i
  BY <1>1 DEF CollectMerging
<1>4. PICK h \in 0..MaxFill, k \in 0..MaxFill : h = i - 1 /\ k = i - 2 /\ k < h /\ h < f
  BY <1>2, <1>3, Counters
<1>5. PICK a \in Temporary, b \in Temporary : a = counter(h) /\ b = counter(k) /\ a # b /\ a # carry /\ b # carry
  BY <1>4, Counters
<1>6. /\ \A j \in 0..MaxFill : j < k => q[counter(j)] = << >>
      /\ local.this = a /\ local.x = b /\ local.ret = "collect" /\ Pair(q, W)
      /\ q[carry] = << >> /\ q[l] = << >>
  BY <1>1, <1>3, <1>4, <1>5 DEF CollectMerging, LowEmpty, sortee
<1>7. Adjacent(q, l, a, b)
  <2>1. Older(l, a, b) /\ ~Older(l, b, a)
    BY <1>1, <1>4, <1>5, OlderIs
  <2>2. ASSUME NEW v \in Temporary \cup {l}, v # a, v # b, Older(l, a, v)
        PROVE  Older(l, b, v) \/ q[v] = << >>
    <3>1. CASE v \in {l, carry}
      BY <1>1, <3>1, OlderIs
    <3>2. CASE v \notin {l, carry}
      <4>1. PICK j \in 0..MaxFill : v = counter(j)
        BY <3>2, Counters
      <4>2. j < h /\ j # k
        BY <1>1, <1>4, <1>5, <2>2, <4>1, OlderIs
      <4>3. j < k
        BY <1>3, <1>4, <4>2
      <4> QED
        BY <1>6, <4>1, <4>3
    <3> QED
      BY <3>1, <3>2
  <2>3. ASSUME NEW u \in Temporary, u # a, u # b, Older(l, u, a)
        PROVE  Older(l, u, b)
    <3>1. u # carry
      BY <1>1, <1>4, <1>5, <2>3, OlderIs
    <3>2. PICK j \in 0..MaxFill : u = counter(j)
      BY <3>1, Counters
    <3>3. h < j
      BY <1>1, <1>4, <1>5, <2>3, <3>2, OlderIs
    <3>4. k < j
      BY <1>4, <3>3
    <3> QED
      BY <1>1, <1>4, <1>5, <3>2, <3>4, OlderIs
  <2> QED
    BY <2>1, <2>2, <2>3 DEF Adjacent
<1>8. Inside(f, a, b)
  BY <1>2, <1>4, <1>5, Counters DEF Inside
<1>9. CollectAt(q, l, W, f, i, a, b)
  BY <1>1, <1>2, <1>3, <1>4, <1>5, <1>6, <1>7, <1>8 DEF CollectAt
<1> QED
  BY <1>5, <1>9

\* What a merge of the counter b into the next one leaves of the other lists
CollectLeft(r, l, i) == r[carry] = << >> /\ r[l] = << >> /\ LowEmpty(r, i - 2)

\* carry, the list and the counters before them stay empty,
LEMMA CollectOthers ==
    ASSUME NEW q, NEW l \in Object, NEW W, NEW f, NEW i, NEW a, NEW b, CollectAt(q, l, W, f, i, a, b),
           NEW r, Merges(q, r, a, b)
    PROVE  CollectLeft(r, l, i)
<1>1. /\ i - 1 \in 0..MaxFill /\ i - 2 \in 0..MaxFill /\ i \in Int
      /\ a = counter(i - 1) /\ b = counter(i - 2) /\ q[carry] = << >> /\ q[l] = << >>
      /\ \A j \in 0..MaxFill : j < i - 2 => q[counter(j)] = << >>
  BY DEF CollectAt
<1>2. \A m \in ListObject : m # a /\ m # b => r[m] = q[m]
  BY DEF Merges
<1>3. r[carry] = << >> /\ r[l] = << >>
  BY <1>1, <1>2, Counters, ObjectKinds
<1>4. ASSUME NEW j \in 0..MaxFill, j < i - 2
      PROVE  r[counter(j)] = << >>
  <2>1. j # i - 1 /\ j # i - 2
    BY <1>1, <1>4
  <2>2. counter(j) \in ListObject /\ counter(j) # a /\ counter(j) # b
    BY <1>1, <2>1, Counters, ObjectKinds
  <2> QED
    BY <1>1, <1>2, <1>4, <2>2
<1> QED
  BY <1>3, <1>4 DEF CollectLeft, LowEmpty

\* in every pass,
LEMMA CollectMergePass ==
    ASSUME Types, NEW q, CollectMerging(q), merge_pass
    PROVE  Types' /\ Loops'
<1>1. PICK l, W, f : SortOf(q, l, W, f)
  BY SortIs DEF CollectMerging
<1>2. PICK i, a, b : a \in Temporary /\ b \in Temporary /\ CollectAt(q, l, W, f, i, a, b)
  BY <1>1, CollectPair
<1>3. /\ i = local.i /\ i \in 2..f /\ f \in 0..(MaxFill + 1) /\ local.fill = f /\ local.value = l
      /\ a = counter(i - 1) /\ b = counter(i - 2) /\ local.this = a /\ local.x = b /\ local.ret = "collect"
      /\ Pair(q, W) /\ Adjacent(q, l, a, b) /\ Inside(f, a, b)
  BY <1>2 DEF CollectAt
<1>4. PICK r : Merges(q, r, a, b) /\ Continues(r, a, b) /\ Types'
  BY <1>1, <1>2, <1>3, MergePassSort
<1>5. CollectLeft(r, l, i)
  <2>1. l \in Object
    BY <1>1 DEF SortOf
  <2> QED
    BY <1>2, <1>4, <2>1, CollectOthers
<1>6. pc = "merge"
  BY DEF merge_pass
<1>7. CollectMerging(r)'
  BY <1>3, <1>4, <1>5, <1>6 DEF Continues, CollectLeft, CollectMerging, LowEmpty, sortee
<1>8. Loops'
  BY <1>7 DEF Loops, Doing
<1> QED
  BY <1>4, <1>8

\* and at the end.
LEMMA CollectMergeRest ==
    ASSUME Types, NEW q, CollectMerging(q), merge_rest
    PROVE  Types' /\ Loops'
<1>1. PICK l, W, f : SortOf(q, l, W, f)
  BY SortIs DEF CollectMerging
<1>2. PICK i, a, b : a \in Temporary /\ b \in Temporary /\ CollectAt(q, l, W, f, i, a, b)
  BY <1>1, CollectPair
<1>3. /\ i = local.i /\ i \in 2..f /\ f \in 0..(MaxFill + 1) /\ local.fill = f /\ local.value = l
      /\ a = counter(i - 1) /\ b = counter(i - 2) /\ local.this = a /\ local.x = b /\ local.ret = "collect"
      /\ Pair(q, W) /\ Adjacent(q, l, a, b) /\ Inside(f, a, b)
  BY <1>2 DEF CollectAt
<1>4. PICK r : Joins(q, r, W, a, b) /\ Leaves(r) /\ Types'
  BY <1>1, <1>2, <1>3, MergeRestSort
<1>5. Merges(q, r, a, b) /\ r[b] = << >>
  BY <1>4 DEF Joins
<1>6. r[carry] = << >> /\ r[l] = << >> /\ \A j \in 0..MaxFill : j < i - 2 => r[counter(j)] = << >>
  <2>1. l \in Object
    BY <1>1 DEF SortOf
  <2>2. CollectLeft(r, l, i)
    BY <1>2, <1>5, <2>1, CollectOthers
  <2> QED
    BY <2>2 DEF CollectLeft, LowEmpty
<1>7. \A j \in 0..MaxFill : j < i - 1 => r[counter(j)] = << >>
  <2>1. \A j \in 0..MaxFill : j < i - 1 => j < i - 2 \/ j = i - 2
    BY <1>3, Counters
  <2> QED
    BY <1>3, <1>5, <1>6, <2>1
<1>8. i \in 1..f
  BY <1>3
<1>9. Collecting(r)'
  BY <1>3, <1>4, <1>6, <1>7, <1>8 DEF Leaves, Collecting, LowEmpty, sortee
<1>10. Loops'
  BY <1>9 DEF Loops, Doing
<1> QED
  BY <1>4, <1>10

\* The last counter is the sorted list, which sort() swaps with the program's.
LEMMA SortEnd ==
    ASSUME Types, NEW q, Collecting(q), sort_end
    PROVE  Types' /\ Loops'
<1>1. PICK l, W, f : SortOf(q, l, W, f)
  BY SortIs DEF Collecting
<1>2. /\ Holds(q) /\ l \in Object /\ l \in ListObject /\ l \notin Temporary /\ Sortable(q, W, l, f)
      /\ local.value = l /\ local.fill = f /\ want[l] = W /\ \A m \in Object : m # l => q[m] = want[m]
  BY <1>1 DEF SortOf
<1>3. /\ f \in 0..(MaxFill + 1) /\ (\A j \in 0..MaxFill : j >= f => q[counter(j)] = << >>) /\ Goal(W)
      /\ Range(W) = {n \in Node : \E m \in Temporary \cup {l} : n \in Range(q[m])} /\ Ages(q, W, l)
  BY <1>2 DEF Sortable
<1>4. local.i = f /\ f \in 1..(MaxFill + 1)
  BY <1>2, <1>3, Counters DEF Collecting, sort_end
<1>5. PICK k \in 0..MaxFill : k = f - 1
  BY <1>4, Counters
<1>6. PICK c \in Temporary : c = counter(k)
  BY Counters
<1>7. q[carry] = << >> /\ q[l] = << >> /\ \A j \in 0..MaxFill : j # k => q[counter(j)] = << >>
  <2>1. LowEmpty(q, k) /\ q[carry] = << >> /\ q[l] = << >>
    BY <1>2, <1>4, <1>5 DEF Collecting, sortee
  <2>2. \A j \in 0..MaxFill : j # k => j < k \/ j >= f
    BY <1>4, <1>5, Counters
  <2> QED
    BY <1>3, <2>1, <2>2 DEF LowEmpty
<1>8. c \in ListObject /\ c # l /\ \A m \in Object : m \in ListObject /\ m # c
  BY <1>2, ObjectKinds
<1>9. \A t \in Temporary \cup {l} : t # c => q[t] = << >>
  BY <1>6, <1>7, Counters
<1>10. PICK r : r = [q EXCEPT ![l] = q[c], ![c] = q[l]]
  OBVIOUS
<1>11. Holds(r)'
  <2>1. swap(l, c)
    BY <1>2, <1>5, <1>6 DEF sort_end, sortee
  <2> QED
    BY <1>2, <1>8, <1>10, <2>1, HoldsSwap
<1>12. r[l] = q[c] /\ r[c] = << >> /\ \A m \in ListObject : m # l /\ m # c => r[m] = q[m]
  <2>1. q \in [ListObject -> Seq(Node)]
    BY <1>2, HeldLists
  <2> QED
    BY <1>2, <1>7, <1>8, <1>10, <2>1
<1>13. q[c] = W
  <2>1. PICK t \in Seq(Node) : t = q[c]
    BY <1>2, <1>8, HeldLists
  <2>2. Ascends(W, t)
    BY <1>3, <2>1 DEF Ages
  <2>3. Range(t) = Range(W)
    <3>1. Range(t) \subseteq Node
      BY SeqFacts
    <3>2. \A m \in Temporary \cup {l} : m # c => Range(q[m]) = {}
      BY <1>9, EmptyFacts
    <3> QED
      BY <1>3, <2>1, <3>1, <3>2
  <2>4. W \in Seq(Node) /\ IsInjective(W)
    BY <1>3 DEF Goal
  <2>5. t = W
    BY <2>2, <2>3, <2>4, AscendsAll
  <2> QED
    BY <2>1, <2>5
<1>14. pc' = "idle" /\ local' = no_local /\ want' = want /\ data' = data
  BY DEF sort_end, return, swap
<1>15. \A m \in Object : r[m] = want'[m]
  BY <1>2, <1>8, <1>12, <1>13, <1>14
<1>16. \A t \in Temporary : r[t] = << >>
  BY <1>2, <1>9, <1>12, ObjectKinds
<1>17. Loops'
  BY <1>11, <1>14, <1>15, <1>16, ToIdle
<1>18. no_local \in Locals
  BY DEF no_local, Locals
<1> QED
  BY <1>14, <1>17, <1>18 DEF Types, Locals

-----------------------------------------------------------------------------
\* The invariant holds at the beginning.
LEMMA ListsInit ==
    ASSUME ListInit
    PROVE  ListsInv
<1>1. PICK q : q = [l \in ListObject |-> << >>]
  OBVIOUS
<1>2. q \in [ListObject -> Seq(Node)] /\ \A l \in ListObject : q[l] = << >> /\ Range(q[l]) = {}
  BY <1>1, EmptyFacts
<1>3. Apart(q, << >>)
  BY <1>2, EmptyFacts DEF Apart
<1>4. next \in [Place -> Place \cup {NULL}] /\ prev \in [Place -> Place \cup {NULL}]
  BY Kinds DEF ListInit
<1>5. ASSUME NEW l \in ListObject
      PROVE  Path(next, prev, l, << >>, l)
  <2>1. next[l] = l /\ prev[l] = l
    BY <1>5, Kinds DEF ListInit
  <2>2. Fst(<< >>, l) = l /\ Lst(l, << >>) = l
    BY DEF Fst, Lst
  <2>3. Inner(next, prev, << >>)
    BY EmptyFacts DEF Inner
  <2> QED
    BY <2>1, <2>2, <2>3 DEF Path, Linked
<1>6. Inner(next, prev, << >>)
  BY EmptyFacts DEF Inner
<1>7. \A n \in Node : next[n] = NULL /\ prev[n] = NULL /\ data[n] = NULL
  BY Kinds DEF ListInit
<1>8. Shape(next, prev, q, << >>)
  BY <1>2, <1>3, <1>4, <1>5, <1>6, <1>7 DEF Shape
<1>9. \A n \in Node : ~Used(q, << >>, n)
  BY <1>2, EmptyFacts DEF Used
<1>10. Holds(q)
  BY <1>7, <1>8, <1>9 DEF Holds, InUse
<1>11. Idle(q)
  BY <1>2, <1>10, ObjectKinds DEF Idle, Others, Spare, ListInit
<1>12. no_local \in Locals
  BY DEF no_local, Locals
<1>13. want \in [Object -> Seq(Node)]
  BY EmptyFacts DEF ListInit
<1> QED
  BY <1>11, <1>12, <1>13 DEF ListsInv, Types, Loops, Doing, ListInit

-----------------------------------------------------------------------------
\* The invariant is kept by every step.
LEMMA IdleSteps ==
    ASSUME Types, NEW q, Idle(q), ListNext
    PROVE  Types' /\ Loops'
<1>1. pc = "idle"
  BY DEF Idle
<1>2. ~pass
  BY <1>1 DEF pass, remove_pass, unique_pass, merge_pass, merge_rest, reverse_pass, sort_take, sort_merge,
              sort_carried, sort_put, sort_taken, sort_collect, sort_end
<1>3. PICK l \in Object :
        \/ \E v \in Key : remove(l, v) \/ \E p \in places(l) : insert(l, p, v)
        \/ \E n \in nodes(l) : erase(l, n)
        \/ clear(l) \/ unique(l) \/ reverse(l) \/ sort(l)
        \/ \E x \in Object \ {l} : merge(l, x) \/ \E p \in places(l) : splice(l, p, x)
        \/ \E x \in Object : \E p \in places(l), n \in nodes(x) :
              \/ splice_one(l, p, x, n)
              \/ \E last \in places(x) : splice_range(l, p, x, n, last)
  BY <1>2 DEF ListNext
<1>4. CASE \E v \in Key : remove(l, v) \/ \E p \in places(l) : insert(l, p, v)
  BY <1>4, RemoveStarts, InsertIdle
<1>5. CASE \E n \in nodes(l) : erase(l, n)
  BY <1>5, EraseIdle
<1>6. CASE clear(l)
  BY <1>6, ClearIdle
<1>7. CASE unique(l)
  BY <1>7, UniqueStarts
<1>8. CASE reverse(l)
  BY <1>8, ReverseStarts
<1>9. CASE sort(l)
  BY <1>9, SortStarts
<1>10. CASE \E x \in Object \ {l} : merge(l, x) \/ \E p \in places(l) : splice(l, p, x)
  <2>1. PICK x \in Object \ {l} : merge(l, x) \/ \E p \in places(l) : splice(l, p, x)
    BY <1>10
  <2>2. CASE merge(l, x)
    BY <2>2, MergeStarts
  <2>3. CASE \E p \in places(l) : splice(l, p, x)
    BY <2>3, SpliceIdle
  <2> QED
    BY <2>1, <2>2, <2>3
<1>11. CASE \E x \in Object : \E p \in places(l), n \in nodes(x) :
              \/ splice_one(l, p, x, n)
              \/ \E last \in places(x) : splice_range(l, p, x, n, last)
  <2>1. PICK x \in Object : \E p \in places(l), n \in nodes(x) :
              \/ splice_one(l, p, x, n)
              \/ \E last \in places(x) : splice_range(l, p, x, n, last)
    BY <1>11
  <2> PICK p \in places(l), n \in nodes(x) :
              \/ splice_one(l, p, x, n)
              \/ \E last \in places(x) : splice_range(l, p, x, n, last)
    BY <2>1
  <2>2. CASE splice_one(l, p, x, n)
    BY <2>2, SpliceOneIdle
  <2>3. CASE \E last \in places(x) : splice_range(l, p, x, n, last)
    BY <2>3, SpliceRangeIdle
  <2> QED
    BY <2>2, <2>3
<1> QED
  BY <1>3, <1>4, <1>5, <1>6, <1>7, <1>8, <1>9, <1>10, <1>11

\* An operation starts only when no loop is being executed.
LEMMA BusySteps ==
    ASSUME ListNext, pc # "idle"
    PROVE  pass
<1>1. \A l, v, p : ~remove(l, v) /\ ~insert(l, p, v)
  BY DEF idle, remove, insert
<1>2. \A l, n : ~erase(l, n)
  BY DEF idle, erase
<1>3. \A l : ~clear(l) /\ ~unique(l) /\ ~reverse(l) /\ ~sort(l)
  BY DEF idle, clear, unique, reverse, sort
<1>4. \A l, x, p : ~merge(l, x) /\ ~splice(l, p, x)
  BY DEF idle, merge, splice
<1>5. \A l, p, x, n : ~splice_one(l, p, x, n)
  BY DEF idle, splice_one
<1>6. \A l, p, x, n, last : ~splice_range(l, p, x, n, last)
  BY DEF idle, splice_range
<1> QED
  BY <1>1, <1>2, <1>3, <1>4, <1>5, <1>6 DEF ListNext

\* The actions of each loop
Passes ==
    /\ pc = "remove" => remove_pass
    /\ pc = "unique" => unique_pass
    /\ pc = "merge" => merge_pass \/ merge_rest
    /\ pc = "reverse" => reverse_pass
    /\ pc = "take" => sort_take \/ sort_taken
    /\ pc = "carry" => sort_merge \/ sort_put
    /\ pc = "carried" => sort_carried
    /\ pc = "collect" => sort_collect \/ sort_end

\* A pass is one of the passes of the loops.
LEMMA PassOfLoop ==
    ASSUME pass
    PROVE  Passes
BY DEF pass, Passes, remove_pass, unique_pass, merge_pass, merge_rest, reverse_pass, sort_take, sort_merge,
       sort_carried, sort_put, sort_taken, sort_collect, sort_end

\* Every operation and every pass keeps the invariant.
LEMMA ListsStep ==
    ASSUME ListsInv, ListNext
    PROVE  ListsInv'
<1>1. Types /\ Loops
  BY DEF ListsInv
<1>2. pc # "idle" => Passes
  BY BusySteps, PassOfLoop
<1>3. ASSUME NEW q, Doing(q)
      PROVE  Types' /\ Loops'
  <2>1. CASE Idle(q)
    BY <1>1, <2>1, IdleSteps
  <2>2. CASE Removing(q)
    <3>1. remove_pass
      BY <1>2, <2>2 DEF Removing, Passes
    <3> QED
      BY <1>1, <2>2, <3>1, RemovePass
  <2>3. CASE Uniquing(q)
    <3>1. unique_pass
      BY <1>2, <2>3 DEF Uniquing, Passes
    <3> QED
      BY <1>1, <2>3, <3>1, UniquePass
  <2>4. CASE Merging(q)
    <3>1. merge_pass \/ merge_rest
      BY <1>2, <2>4 DEF Merging, Passes
    <3> QED
      BY <1>1, <2>4, <3>1, MergePassIdle, MergeRestIdle
  <2>5. CASE Taking(q)
    <3>1. sort_take \/ sort_taken
      BY <1>2, <2>5 DEF Taking, Passes
    <3> QED
      BY <1>1, <2>5, <3>1, SortTake, SortTaken
  <2>6. CASE Carrying(q)
    <3>1. sort_merge \/ sort_put
      BY <1>2, <2>6 DEF Carrying, Passes
    <3> QED
      BY <1>1, <2>6, <3>1, SortMerge, SortPut
  <2>7. CASE CarryMerging(q)
    <3>1. merge_pass \/ merge_rest
      BY <1>2, <2>7 DEF CarryMerging, Passes
    <3> QED
      BY <1>1, <2>7, <3>1, CarryMergePass, CarryMergeRest
  <2>8. CASE Carried(q)
    <3>1. sort_carried
      BY <1>2, <2>8 DEF Carried, Passes
    <3> QED
      BY <1>1, <2>8, <3>1, SortCarried
  <2>9. CASE Collecting(q)
    <3>1. sort_collect \/ sort_end
      BY <1>2, <2>9 DEF Collecting, Passes
    <3> QED
      BY <1>1, <2>9, <3>1, SortCollect, SortEnd
  <2>10. CASE CollectMerging(q)
    <3>1. merge_pass \/ merge_rest
      BY <1>2, <2>10 DEF CollectMerging, Passes
    <3> QED
      BY <1>1, <2>10, <3>1, CollectMergePass, CollectMergeRest
  <2> QED
    BY <1>3, <2>1, <2>2, <2>3, <2>4, <2>5, <2>6, <2>7, <2>8, <2>9, <2>10 DEF Doing
<1>4. ASSUME NEW nx, NEW pv, NEW q, Reversing(nx, pv, q)
      PROVE  Types' /\ Loops'
  <2>1. reverse_pass
    BY <1>2, <1>4 DEF Reversing, Passes
  <2> QED
    BY <1>1, <1>4, <2>1, ReversePass
<1>5. Types' /\ Loops'
  BY <1>1, <1>3, <1>4 DEF Loops
<1> QED
  BY <1>5 DEF ListsInv

-----------------------------------------------------------------------------
\* Nothing happens.
LEMMA ListsStutter ==
    ASSUME ListsInv, UNCHANGED listvars
    PROVE  ListsInv'
<1>1. /\ next' = next /\ prev' = prev /\ data' = data /\ pc' = pc /\ local' = local /\ want' = want
  BY DEF listvars
<1>2. Types'
  BY <1>1 DEF ListsInv, Types, Locals
<1>3. \A q : Holds(q) => Holds(q)'
  BY <1>1, HoldsSame DEF heap
<1>4. \A q, S : Others(q, S) => Others(q, S)'
  BY <1>1 DEF Others
<1>5. ASSUME NEW q, Doing(q)
      PROVE  Doing(q)'
  <2>1. CASE Idle(q)
    BY <1>1, <1>3, <1>4, <2>1 DEF Idle, Spare, Doing
  <2>2. CASE Removing(q)
    <3>1. \A l, v, K, T : RemovesAt(q, l, v, K, T) => RemovesAt(q, l, v, K, T)'
      BY <1>1 DEF RemovesAt, Having
    <3>2. Removing(q)'
      BY <1>1, <1>3, <1>4, <2>2, <3>1 DEF Removing, Spare
    <3> QED
      BY <3>2 DEF Doing
  <2>3. CASE Uniquing(q)
    <3>1. \A s : uniques(s)' = uniques(s)
      BY <1>1 DEF uniques
    <3>2. ASSUME NEW l, NEW f, NEW K, NEW T, UniqueAt(q, l, f, K, T)
          PROVE  UniqueAt(q, l, f, K, T)'
      <4>1. uniques(<< f >> \o T)' = uniques(<< f >> \o T)
        BY <3>1
      <4> QED
        BY <1>1, <3>2, <4>1 DEF UniqueAt
    <3>3. Uniquing(q)'
      BY <1>1, <1>3, <1>4, <2>3, <3>2 DEF Uniquing, Spare
    <3> QED
      BY <3>3 DEF Doing
  <2>4. ASSUME NEW W, Pair(q, W)
        PROVE  Pair(q, W)'
    <3>1. \A K, T, U : MergeAt(q, W, K, T, U) => MergeAt(q, W, K, T, U)'
      BY <1>1 DEF MergeAt, Before, Lt
    <3>2. Goal(W)' /\ Stable(W, q[local.this], q[local.x])'
      BY <1>1, <2>4 DEF Pair, Goal, Stable, Lt
    <3>3. Ascends(W, q[local.this])' /\ Ascends(W, q[local.x])'
      BY <1>1, <2>4 DEF Pair, Ascends, Lt
    <3> QED
      BY <1>1, <2>4, <3>1, <3>2, <3>3 DEF Pair
  <2>5. CASE Merging(q)
    BY <1>1, <1>3, <1>4, <2>4, <2>5 DEF Merging, Spare, Doing
  <2>6. Sorting(q) => Sorting(q)'
    <3>1. \A W, l, f : Sortable(q, W, l, f) => Sortable(q, W, l, f)'
      BY <1>1, SortableNow
    <3> QED
      BY <1>1, <1>3, <1>4, <3>1 DEF Sorting, sortee
  <2>7. CASE Taking(q) \/ Carrying(q) \/ Carried(q) \/ Collecting(q)
    BY <1>1, <2>6, <2>7 DEF Taking, Carrying, Carried, Collecting, Powers, LowEmpty, sortee, Doing
  <2>8. CASE CarryMerging(q)
    BY <1>1, <2>4, <2>6, <2>8 DEF CarryMerging, Powers, LowEmpty, sortee, Doing
  <2>9. CASE CollectMerging(q)
    BY <1>1, <2>4, <2>6, <2>9 DEF CollectMerging, LowEmpty, sortee, Doing
  <2> QED
    BY <1>5, <2>1, <2>2, <2>3, <2>5, <2>7, <2>8, <2>9 DEF Doing
<1>6. ASSUME NEW nx, NEW pv, NEW q, Reversing(nx, pv, q)
      PROVE  Reversing(nx, pv, q)'
  <2>1. \A l, K, T : ReverseAt(nx, pv, q, l, K, T) => ReverseAt(nx, pv, q, l, K, T)'
    BY <1>1 DEF ReverseAt, Turned
  <2>2. InUse(q)'
    BY <1>1, <1>6 DEF Reversing, InUse
  <2> QED
    BY <1>1, <1>4, <1>6, <2>1, <2>2 DEF Reversing, Spare
<1>7. Loops'
  BY <1>5, <1>6 DEF ListsInv, Loops
<1> QED
  BY <1>2, <1>7 DEF ListsInv

\* ListsInv is an invariant.
THEOREM ListsInvariant == ListSpec => []ListsInv
<1>1. ListInit => ListsInv
  BY ListsInit
<1>2. ListsInv /\ [ListNext]_listvars => ListsInv'
  BY ListsStep, ListsStutter
<1> QED
  BY <1>1, <1>2, PTL DEF ListSpec

-----------------------------------------------------------------------------
\* What the invariant says of the rings

\* The pointers of l make a ring of its nodes both ways round.
Ring(nx, pv, l, t) ==
    \A p \in {l} \cup Range(t) : nx[p] # NULL /\ pv[nx[p]] = p /\ nx[pv[p]] = p

\* A path from a header to itself is a ring.
LEMMA RingOf ==
    ASSUME NEW nx, NEW pv, NEW l \in ListObject, NEW t \in Seq(Node), Path(nx, pv, l, t, l)
    PROVE  Ring(nx, pv, l, t)
<1>1. nx[l] # NULL /\ pv[nx[l]] = l /\ nx[pv[l]] = l
  <2>1. nx[l] = Fst(t, l) /\ pv[Fst(t, l)] = l /\ nx[Lst(l, t)] = l /\ pv[l] = Lst(l, t)
    BY DEF Path, Linked
  <2>2. Fst(t, l) # NULL
    BY EndPlaces, Kinds
  <2> QED
    BY <2>1, <2>2
<1>2. ASSUME NEW n \in Range(t)
      PROVE  nx[n] # NULL /\ pv[nx[n]] = n /\ nx[pv[n]] = n
  <2>1. n \in Node /\ SplitsAround(t, n)
    BY SplitAt
  <2>2. PICK A \in Seq(Node), B \in Seq(Node) : t = A \o (<< n >> \o B)
    BY <2>1 DEF SplitsAround
  <2>3. PICK R \in Seq(Node) : R = << n >> /\ Fst(R, Fst(B, l)) = n /\ Lst(Lst(l, A), R) = n
    BY <2>1, OneNode DEF Fst, Lst
  <2>4. PICK S \in Seq(Node) : S = R \o B
    BY ConcatFacts
  <2>5. Path(nx, pv, l, A \o S, l)
    BY <2>2, <2>3, <2>4
  <2>6. Path(nx, pv, Lst(l, A), S, l)
    BY <2>5, PathConcat
  <2>7. Path(nx, pv, Lst(l, A), R \o B, l)
    BY <2>4, <2>6
  <2>8. Path(nx, pv, Lst(l, A), R, Fst(B, l))
    BY <2>7, PathConcat
  <2>9. /\ nx[Lst(l, A)] = n /\ pv[n] = Lst(l, A)
        /\ nx[n] = Fst(B, l) /\ pv[Fst(B, l)] = n
    BY <2>3, <2>8 DEF Path, Linked
  <2>10. Fst(B, l) # NULL
    BY EndPlaces, Kinds
  <2> QED
    BY <2>9, <2>10
<1> QED
  BY <1>1, <1>2 DEF Ring

\* A loop through a whole list sees what it holds.
Sees(l, t) ==
    /\ contents(l) = t /\ nodes(l) = Range(t) /\ places(l) = {l} \cup Range(t) /\ size_of(l) = Len(t)
    /\ size_of(l) <= longest /\ Ring(next, prev, l, t)

\* A loop from begin() to end() sees the whole ring, within longest steps.
LEMMA SeesWhole ==
    ASSUME NEW l \in ListObject, NEW t \in Seq(Node), IsInjective(t), Path(next, prev, l, t, l)
    PROVE  Sees(l, t)
<1>1. contents(l) = t
  BY ContentsOf
<1>2. Ring(next, prev, l, t)
  BY RingOf
<1>3. Len(t) <= longest
  BY NodesAreFew
<1> QED
  BY <1>1, <1>2, <1>3 DEF Sees, nodes, places, size_of, end

\* RingsExact, list by list
LEMMA RingsMean ==
    ASSUME NEW q, ListTypeOK, \A l \in whole : Sees(l, q[l]),
           \A l, m \in whole : l # m => Range(q[l]) \cap Range(q[m]) = {},
           whole = ListObject => \A n \in Node : next[n] # NULL <=> \E l \in ListObject : n \in Range(q[l]),
           \A l \in ListObject : Range(q[l]) \subseteq Node
    PROVE  RingsExact
<1>1. \A l \in whole : size_of(l) <= longest
  BY DEF Sees
<1>2. ASSUME NEW l \in whole
      PROVE  /\ \A p \in places(l) : next[p] # NULL /\ prev[next[p]] = p /\ next[prev[p]] = p
             /\ \A m \in whole \ {l} : nodes(l) \cap nodes(m) = {}
  <2>1. Sees(l, q[l])
    BY <1>2
  <2>2. places(l) = {l} \cup Range(q[l]) /\ nodes(l) = Range(q[l]) /\ Ring(next, prev, l, q[l])
    BY <2>1 DEF Sees
  <2>3. \A p \in places(l) : next[p] # NULL /\ prev[next[p]] = p /\ next[prev[p]] = p
    BY <2>2 DEF Ring
  <2>4. \A m \in whole : nodes(m) = Range(q[m])
    BY DEF Sees
  <2> QED
    BY <1>2, <2>2, <2>3, <2>4
<1>3. ASSUME whole = ListObject
      PROVE  {n \in Node : next[n] # NULL} = UNION {nodes(l) : l \in ListObject}
  <2>1. \A l \in ListObject : nodes(l) = Range(q[l])
    BY <1>3 DEF Sees
  <2> QED
    BY <1>3, <2>1
<1>4. rings
  BY <1>2, <1>3 DEF rings
<1> QED
  BY <1>1, <1>4 DEF RingsExact

\* Whatever q is, the lists have their types,
LEMMA HeldTypes ==
    ASSUME Types, NEW q, Holds(q), local.fill \in 0..(MaxFill + 1)
    PROVE  ListTypeOK
<1>1. Shape(next, prev, q, << >>) /\ InUse(q)
  BY DEF Holds
<1>2. next \in [Place -> Place \cup {NULL}] /\ prev \in [Place -> Place \cup {NULL}]
  BY <1>1 DEF Shape
<1>3. \A n \in Node : (next[n] = NULL <=> data[n] = NULL) /\ (prev[n] = NULL <=> data[n] = NULL)
  BY <1>1, UsedMeans DEF InUse
<1>4. \A n \in Node : (next[n] = NULL) = (data[n] = NULL) /\ (prev[n] = NULL) = (data[n] = NULL)
  BY <1>3
<1> QED
  BY <1>2, <1>4 DEF ListTypeOK, Types

\* and their rings are exact, outside of reverse().
LEMMA HeldExact ==
    ASSUME Types, NEW q, Holds(q), pc # "reverse", local.fill \in 0..(MaxFill + 1)
    PROVE  RingsExact
<1>1. ListTypeOK
  BY HeldTypes
<1>2. whole = ListObject
  BY DEF whole
<1>3. \A l \in whole : Sees(l, q[l])
  BY <1>2, HeldLists, SeesWhole
<1>4. \A l \in ListObject : Range(q[l]) \subseteq Node
  BY HeldLists, SeqFacts
<1>5. \A l, m \in whole : l # m => Range(q[l]) \cap Range(q[m]) = {}
  BY <1>2, HeldLists
<1>6. \A n \in Node : next[n] # NULL <=> \E l \in ListObject : n \in Range(q[l])
  BY HeldLists
<1> QED
  BY <1>1, <1>3, <1>4, <1>5, <1>6, RingsMean

\* In a loop other than that of reverse(), q is what the lists hold.
LEMMA FillBounds ==
    ASSUME NEW q, Doing(q)
    PROVE  Holds(q) /\ pc # "reverse" /\ local.fill \in 0..(MaxFill + 1)
<1>1. 0 \in 0..(MaxFill + 1)
  BY Counters
<1>2. no_local.fill = 0
  BY DEF no_local
<1>3. CASE Idle(q)
  BY <1>1, <1>2, <1>3 DEF Idle
<1>4. CASE Removing(q)
  BY <1>1, <1>4 DEF Removing, RemovesAt, no_local
<1>5. CASE Uniquing(q)
  BY <1>1, <1>5 DEF Uniquing, UniqueAt, no_local
<1>6. CASE Merging(q)
  BY <1>1, <1>6 DEF Merging
<1>7. Sorting(q) => Holds(q) /\ local.fill \in 0..(MaxFill + 1)
  BY DEF Sorting, Sortable
<1>8. CASE Taking(q) \/ Carrying(q) \/ CarryMerging(q) \/ Carried(q) \/ Collecting(q) \/ CollectMerging(q)
  BY <1>7, <1>8 DEF Taking, Carrying, CarryMerging, Carried, Collecting, CollectMerging
<1> QED
  BY <1>3, <1>4, <1>5, <1>6, <1>8 DEF Doing

\* While l is being turned round, the other lists are whole.
LEMMA TurnedExact ==
    ASSUME Types, NEW nx, NEW pv, NEW q, Reversing(nx, pv, q)
    PROVE  RingsExact
<1>1. Shape(nx, pv, q, << >>) /\ InUse(q) /\ pc = "reverse"
  BY DEF Reversing
<1>2. PICK l \in Object : \E K \in Seq(Node), T \in Seq(Node) : ReverseAt(nx, pv, q, l, K, T)
  BY DEF Reversing
<1>3. PICK K \in Seq(Node), T \in Seq(Node) : ReverseAt(nx, pv, q, l, K, T)
  BY <1>2
<1>4. q[l] = K \o T /\ local.this = l /\ local.fill = 0 /\ l \in ListObject
  BY <1>3, ObjectKinds DEF ReverseAt, no_local
<1>5. PICK D : Turned(nx, pv, D) /\ D \subseteq {l} \cup Range(q[l])
  <2>1. Range(q[l]) = Range(K) \cup Range(T)
    BY <1>4, ConcatFacts
  <2> QED
    BY <1>3, <2>1 DEF ReverseAt
<1>6. /\ next = [p \in Place |-> IF p \in D THEN pv[p] ELSE nx[p]]
      /\ prev = [p \in Place |-> IF p \in D THEN nx[p] ELSE pv[p]]
  BY <1>5 DEF Turned
<1>7. nx \in [Place -> Place \cup {NULL}] /\ pv \in [Place -> Place \cup {NULL}]
  BY <1>1 DEF Shape
<1>8. ListTypeOK
  <2>1. next \in [Place -> Place \cup {NULL}] /\ prev \in [Place -> Place \cup {NULL}]
    BY <1>6, <1>7
  <2>2. \A n \in Node : (nx[n] = NULL <=> data[n] = NULL) /\ (pv[n] = NULL <=> data[n] = NULL)
    BY <1>1, UsedMeans DEF InUse
  <2>3. \A n \in Node : (next[n] = NULL <=> data[n] = NULL) /\ (prev[n] = NULL <=> data[n] = NULL)
    BY <1>6, <2>2, Kinds
  <2>4. \A n \in Node : (next[n] = NULL) = (data[n] = NULL) /\ (prev[n] = NULL) = (data[n] = NULL)
    BY <2>3
  <2>5. local.fill \in 0..(MaxFill + 1)
    BY <1>4, Counters
  <2> QED
    BY <2>1, <2>4, <2>5 DEF ListTypeOK, Types
<1>9. whole = ListObject \ {l} /\ whole # ListObject
  BY <1>1, <1>4 DEF whole
<1>10. /\ \A m \in ListObject : q[m] \in Seq(Node) /\ IsInjective(q[m])
       /\ \A m, n \in ListObject : m # n => Range(q[m]) \cap Range(q[n]) = {}
       /\ \A m \in ListObject : Path(nx, pv, m, q[m], m)
  BY <1>1 DEF Shape, Apart
<1>11. ASSUME NEW m \in whole
       PROVE  Sees(m, q[m])
  <2>1. PICK t \in Seq(Node) : t = q[m] /\ IsInjective(t) /\ Path(nx, pv, m, t, m)
    BY <1>9, <1>10
  <2>2. Range(t) \subseteq Node /\ Range(q[l]) \subseteq Node /\ m \in ListObject /\ m # l
    BY <1>4, <1>9, <1>10, SeqFacts
  <2>3. \A p \in {m} \cup Range(t) : p \in Place /\ p \notin D
    <3>1. m \notin Range(q[l]) /\ m # l /\ m \in Place
      BY <2>2, Kinds
    <3>2. Range(q[m]) \cap Range(q[l]) = {}
      BY <1>4, <1>10, <2>2
    <3>3. \A n \in Range(t) : n \in Place /\ n # l /\ n \notin Range(q[l])
      BY <1>4, <2>1, <2>2, <3>2, Kinds
    <3> QED
      BY <1>5, <3>1, <3>3
  <2>4. \A p \in {m} \cup Range(t) : next[p] = nx[p] /\ prev[p] = pv[p]
    BY <1>6, <2>3
  <2>5. Path(next, prev, m, t, m)
    BY <2>1, <2>4, PathFrame
  <2> QED
    BY <2>1, <2>2, <2>5, SeesWhole
<1>12. \A m \in ListObject : Range(q[m]) \subseteq Node
  BY <1>10, SeqFacts
<1>13. \A m, n \in whole : m # n => Range(q[m]) \cap Range(q[n]) = {}
  BY <1>9, <1>10
<1> QED
  BY <1>8, <1>9, <1>11, <1>12, <1>13, RingsMean

\* The iterators of a loop are where its state predicate has them.
LEMMA HeldIterators ==
    ASSUME NEW q, Doing(q)
    PROVE  IteratorsValid
<1>1. Holds(q)
  BY FillBounds
<1>2. ASSUME NEW W, Pair(q, W), local.this \in ListObject, local.x \in ListObject
      PROVE  local.first \in places(local.this) /\ local.first2 \in places(local.x)
  <2>1. PICK K \in Seq(Node), T \in Seq(Node), U \in Seq(Node) : MergeAt(q, W, K, T, U)
    BY <1>2 DEF Pair
  <2>2. PICK l \in ListObject, x \in ListObject : l = local.this /\ x = local.x
    BY <1>2
  <2>3. /\ q[l] = K \o T /\ q[x] = U /\ local.first = Fst(T, l) /\ local.first2 = Fst(U, x)
    BY <2>1, <2>2 DEF MergeAt
  <2>4. Fst(T, l) \in {l} \cup Range(T) /\ Fst(U, x) \in {x} \cup Range(U)
    BY EndsAre
  <2>5. Range(q[l]) = Range(K) \cup Range(T) /\ Range(q[x]) = Range(U)
    BY <2>3, ConcatFacts
  <2>6. places(l) = {l} \cup Range(q[l]) /\ places(x) = {x} \cup Range(q[x])
    BY <1>1, HeldContents
  <2> QED
    BY <2>2, <2>3, <2>4, <2>5, <2>6
<1>3. CASE Removing(q)
  <2>1. PICK l \in Object, v \in Key : \E K \in Seq(Node), T \in Seq(Node) : RemovesAt(q, l, v, K, T)
    BY <1>3 DEF Removing
  <2>2. PICK K \in Seq(Node), T \in Seq(Node) : RemovesAt(q, l, v, K, T)
    BY <2>1
  <2>3. local.this = l /\ local.first = Fst(T, l) /\ l \in ListObject /\ q[l] = K \o T
    <3>1. local.this = l /\ local.first = Fst(T, l)
      BY <2>2, RemoveLocals
    <3> QED
      BY <2>2, <3>1, ObjectKinds DEF RemovesAt
  <2>4. Fst(T, l) \in {l} \cup Range(q[l])
    BY <2>3, EndsAre, ConcatFacts
  <2>5. places(l) = {l} \cup Range(q[l])
    BY <1>1, <2>3, HeldContents
  <2> QED
    BY <1>3, <2>3, <2>4, <2>5 DEF IteratorsValid, Removing
<1>4. CASE Uniquing(q)
  <2>1. PICK l \in Object, f \in Node : \E K \in Seq(Node), T \in Seq(Node) : UniqueAt(q, l, f, K, T)
    BY <1>4 DEF Uniquing
  <2>2. PICK K \in Seq(Node), T \in Seq(Node) : UniqueAt(q, l, f, K, T)
    BY <2>1
  <2>3. local.this = l /\ local.first = f /\ l \in ListObject
    BY <2>2, UniqueLocals, ObjectKinds
  <2>4. PICK t \in Seq(Node) : t = << f >> \o T /\ q[l] = K \o t
    BY <2>2, OneNode, ConcatFacts DEF UniqueAt
  <2>5. Range(t) = {f} \cup Range(T)
    BY <2>4, HeadRange
  <2>6. Range(q[l]) = Range(K) \cup Range(t)
    <3>1. Range(K \o t) = Range(K) \cup Range(t)
      BY ConcatFacts
    <3> QED
      BY <2>4, <3>1
  <2>7. places(l) = {l} \cup Range(q[l])
    BY <1>1, <2>3, HeldContents
  <2> QED
    BY <1>4, <2>3, <2>5, <2>6, <2>7 DEF IteratorsValid, Uniquing
<1>5. CASE Merging(q)
  <2>1. local.this \in ListObject /\ local.x \in ListObject /\ Pair(q, want[local.this]) /\ pc = "merge"
    BY <1>5, ObjectKinds DEF Merging
  <2> QED
    BY <1>2, <2>1 DEF IteratorsValid
<1>6. CASE CarryMerging(q) \/ CollectMerging(q)
  <2>1. local.fill \in 0..(MaxFill + 1)
    BY FillBounds
  <2>2. local.this \in ListObject /\ local.x \in ListObject /\ Pair(q, want[sortee]) /\ pc = "merge"
    <3>1. CASE CarryMerging(q)
      <4>1. local.i \in 0..MaxFill
        BY <2>1, <3>1, Counters DEF CarryMerging
      <4> QED
        BY <3>1, <4>1, Counters, ObjectKinds DEF CarryMerging
    <3>2. CASE CollectMerging(q)
      <4>1. local.i - 1 \in 0..MaxFill /\ local.i - 2 \in 0..MaxFill
        BY <2>1, <3>2, Counters DEF CollectMerging
      <4> QED
        BY <3>2, <4>1, Counters, ObjectKinds DEF CollectMerging
    <3> QED
      BY <1>6, <3>1, <3>2
  <2> QED
    BY <1>2, <2>2 DEF IteratorsValid
<1>7. CASE Idle(q) \/ Taking(q) \/ Carrying(q) \/ Carried(q) \/ Collecting(q)
  BY <1>7 DEF Idle, Taking, Carrying, Carried, Collecting, IteratorsValid
<1> QED
  BY <1>3, <1>4, <1>5, <1>6, <1>7 DEF Doing

\* Only a sort that takes the next node is at "take".
LEMMA HeldCounters ==
    ASSUME NEW q, Doing(q)
    PROVE  CountersExact
<1>1. SUFFICES ASSUME pc = "take", NEW j \in 0..(local.fill - 1)
               PROVE  size_of(counter(j)) \in {0, power[j]}
  BY DEF CountersExact
<1>2. Taking(q)
  BY <1>1 DEF Doing, Idle, Removing, Uniquing, Merging, Carrying, CarryMerging, Carried, Collecting,
              CollectMerging
<1>3. Holds(q) /\ local.fill \in 0..(MaxFill + 1)
  BY FillBounds
<1>4. j \in 0..MaxFill
  BY <1>3, Counters
<1>5. Len(q[counter(j)]) \in {0, power[j]}
  BY <1>2, <1>4 DEF Taking, Powers
<1>6. size_of(counter(j)) = Len(q[counter(j)])
  BY <1>3, <1>4, Counters, ObjectKinds, HeldContents
<1> QED
  BY <1>5, <1>6

\* Between the operations the lists are those of the goal.
LEMMA HeldResults ==
    ASSUME NEW q, Doing(q)
    PROVE  ResultsExact
<1>1. SUFFICES ASSUME pc = "idle"
               PROVE  /\ \A l \in Object : contents(l) = want[l]
                      /\ \A l \in ListObject \ Object : empty(l)
  BY DEF ResultsExact
<1>2. Idle(q)
  BY <1>1 DEF Doing, Removing, Uniquing, Merging, Taking, Carrying, CarryMerging, Carried, Collecting,
              CollectMerging
<1>3. Holds(q) /\ (\A l \in Object : q[l] = want[l]) /\ \A t \in Temporary : q[t] = << >>
  BY <1>2 DEF Idle, Others, Spare
<1>4. ListObject \ Object \subseteq Temporary
  BY DEF ListObject
<1> QED
  BY <1>3, <1>4, ObjectKinds, HeldContents

\* The lists are proper rings, and every node in use is in one of them, once.
THEOREM ListRingsExact == ListSpec => []RingsExact
<1>1. ListsInv => RingsExact
  BY FillBounds, HeldExact, TurnedExact DEF ListsInv, Loops
<1> QED
  BY <1>1, ListsInvariant, PTL

\* The iterators of a loop never leave the lists that the loop goes through.
THEOREM ListIteratorsValid == ListSpec => []IteratorsValid
<1>1. ASSUME NEW nx, NEW pv, NEW q, Reversing(nx, pv, q)
      PROVE  IteratorsValid
  BY <1>1 DEF Reversing, IteratorsValid
<1>2. ListsInv => IteratorsValid
  BY <1>1, HeldIterators DEF ListsInv, Loops
<1> QED
  BY <1>2, ListsInvariant, PTL

\* The j-th counter of a sort holds 2^j elements or none.
THEOREM ListCountersExact == ListSpec => []CountersExact
<1>1. ASSUME NEW nx, NEW pv, NEW q, Reversing(nx, pv, q)
      PROVE  CountersExact
  BY <1>1 DEF Reversing, CountersExact
<1>2. ListsInv => CountersExact
  BY <1>1, HeldCounters DEF ListsInv, Loops
<1> QED
  BY <1>2, ListsInvariant, PTL

\* Every operation leaves in the lists what it promises; sort() and merge() are stable.
THEOREM ListResultsExact == ListSpec => []ResultsExact
<1>1. ASSUME NEW nx, NEW pv, NEW q, Reversing(nx, pv, q)
      PROVE  ResultsExact
  BY <1>1 DEF Reversing, ResultsExact
<1>2. ListsInv => ResultsExact
  BY <1>1, HeldResults DEF ListsInv, Loops
<1> QED
  BY <1>2, ListsInvariant, PTL

=============================================================================
