------------------------------ MODULE Debugger ------------------------------
(***************************************************************************)
(* The debugger of TinyPyDbg/debugger.py and a script that uses it the way *)
(* debugger_test.py does: attach, then again and again set breakpoints and *)
(* run until one is hit.  Unless an event is being handled the debuggee    *)
(* runs: its threads start, exit and hit breakpoints while bp_set_hw goes  *)
(* through the list of them that it has made, bp_set_mem through pages,    *)
(* and before bp_set_soft has entered what it has written.                 *)
(*                                                                         *)
(* The debuggee and the Windows API are external: GetThreadContext needs a *)
(* handle of a thread, memory behind PAGE_GUARD cannot be read, and any    *)
(* access to a thread or to memory may be refused.  A condition is a set   *)
(* of bits of Dr7, which |= puts in; the length field, which is treated in *)
(* the same way, is left out.                                              *)
(***************************************************************************)
EXTENDS Integers, SequencesExt

CONSTANTS
    Tid,            \* the threads the debuggee may have
    main,           \* the first one, which stays
    Slot,           \* 0..3, the debug registers
    page_size,
    Addr,           \* the addresses that breakpoints are set to
    Size,           \* the sizes of memory breakpoints
    Hardware,       \* the hardware breakpoints: addresses and conditions
    Test,           \* the kinds of breakpoints that a script uses
    None

HW_ACCESS == {0, 1}
HW_WRITE == {0}
HW_EXECUTE == {}

ASSUME DebuggerAssumption ==
    /\ main \in Tid /\ IsFiniteSet(Tid)
    /\ Slot \subseteq 0..3
    /\ page_size \in Nat \ {0}
    /\ Addr \subseteq Nat
    /\ Size \subseteq Nat \ {0}
    /\ Hardware \subseteq Addr \X {HW_ACCESS, HW_WRITE, HW_EXECUTE}
    /\ \A test \in Test : test \subseteq {"soft", "hw", "mem"}
    /\ None \notin Addr \cup Tid /\ None \notin Hardware
    /\ None \notin {"False", "own", "int3"} /\ None \notin Size

\* What a debug register holds, together with its fields of Dr7
register(address, enabled, condition) ==
    [address |-> address, enabled |-> enabled, condition |-> condition]

unused == register(None, FALSE, {})

no_bp == << None, HW_EXECUTE >>

VARIABLES
    breakpoints, hardware_breakpoints, memory_breakpoints, guarded_pages,
    test, doing,       \* the script: what it uses, and where it is
    bp_index,       \* the register that bp_set_hw or bp_del_hw deals with
    todo,           \* the threads it has yet to go through
    bp,             \* the address to set, and its condition, its original byte, or
                    \* its size and current_page
    current,        \* the thread whose event is being handled
    alive,          \* from here on the debuggee: its threads,
    dr, dr6,        \* their debug registers, what they last reported,
    code, guards,   \* the byte at an address, and the pages with PAGE_GUARD,
    pending,        \* and the exceptions that wait for WaitForDebugEvent
    refused, blind, \* threads that refused a context, addresses not readable once,
    cut             \* memory breakpoints that bp_set_mem did not get to the end of

books == << breakpoints, hardware_breakpoints, memory_breakpoints, guarded_pages >>
locals == << bp_index, todo, bp, current >>
script == << test, doing, locals >>
debuggee == << alive, dr, dr6, code, guards, pending >>
history == << refused, blind, cut >>

dbgvars == << books, script, debuggee, history >>

\* DebugActiveProcess has succeeded, and a thread stands at the breakpoint that
\* Windows puts into a debuggee.
DbgInit ==
    /\ breakpoints = [a \in Addr |-> None]
    /\ hardware_breakpoints = [i \in Slot |-> None]
    /\ memory_breakpoints = [a \in Addr |-> None]
    /\ guarded_pages = {}
    /\ test \in Test
    /\ doing = "run"
    /\ bp_index = 0
    /\ todo = << >>
    /\ bp = no_bp
    /\ current = None
    /\ alive \in {threads \in SUBSET Tid : main \in threads}
    /\ dr = [t \in Tid |-> [i \in Slot |-> unused]]
    /\ dr6 = [t \in Tid |-> {}]
    /\ code = [a \in Addr |-> "own"]
    /\ guards = {}
    /\ pending \in {[t \in Tid |-> IF t = u THEN "breakpoint" ELSE None] : u \in alive}
    /\ refused = {}
    /\ blind = {}
    /\ cut = {}

-----------------------------------------------------------------------------
\* The debuggee is suspended while one of its events is being handled.
runs(t) ==
    /\ doing \in {"run", "script", "bp_set_hw", "bp_set_soft", "bp_set_mem"}
    /\ t \in alive
    /\ pending[t] = None

page(a) == a \div page_size

hits(t, a) == {i \in Slot : dr[t][i].enabled /\ dr[t][i].address = a}

\* A thread touches an address: a guard works once, the others every time.
reach(t, a) ==
    /\ runs(t)
    /\ \E exception \in {"guard_page", "single_step", "breakpoint"} :
          /\ exception = IF page(a) \in guards THEN "guard_page"
                         ELSE IF hits(t, a) # {} THEN "single_step"
                         ELSE IF code[a] = "int3" THEN "breakpoint" ELSE None
          /\ pending' = [pending EXCEPT ![t] = exception]
          /\ guards' = guards \ {page(a)}
          /\ dr6' = IF exception = "single_step" THEN [dr6 EXCEPT ![t] = hits(t, a)] ELSE dr6
    /\ UNCHANGED << books, script, alive, dr, code, history >>

\* An exception that no breakpoint has caused
faults(t, exception) ==
    /\ runs(t)
    /\ pending' = [pending EXCEPT ![t] = exception]
    /\ dr6' = IF exception = "single_step" THEN [dr6 EXCEPT ![t] = {}] ELSE dr6
    /\ UNCHANGED << books, script, alive, dr, code, guards, history >>

start_thread(t) ==
    /\ runs(main)
    /\ t \notin alive
    /\ alive' = alive \cup {t}
    /\ UNCHANGED << books, script, dr, dr6, code, guards, pending, history >>

exit_thread(t) ==
    /\ runs(t)
    /\ t # main
    /\ alive' = alive \ {t}
    /\ dr' = [dr EXCEPT ![t] = [i \in Slot |-> unused]]
    /\ dr6' = [dr6 EXCEPT ![t] = {}]
    /\ refused' = refused \ {t}
    /\ UNCHANGED << books, script, code, guards, pending, blind, cut >>

-----------------------------------------------------------------------------
\* get_debug_event.  A breakpoint ends run, as a single step will; other events
\* are continued and run goes on.
get_debug_event(t) ==
    /\ doing = "run"
    /\ pending[t] # None
    /\ IF pending[t] = "single_step"
       THEN doing' = "single_step" /\ current' = t /\ UNCHANGED pending
       ELSE /\ pending' = [pending EXCEPT ![t] = None]
            /\ doing' = IF pending[t] = "breakpoint" THEN "script" ELSE "run"
            /\ UNCHANGED current
    /\ UNCHANGED << books, test, bp_index, todo, bp, alive, dr, dr6, code, guards, history >>

\* Whose context an event handler sees.  get_debug_event passes a handle where
\* get_thread_context expects the id of a thread: usually there is no such
\* thread, and by chance it is some thread.
seen_by_handler == alive \cup {None}

min_slot(slots) == CHOOSE i \in slots : \A j \in slots : i <= j

\* An exception of Python ends the script with the event not continued: there is
\* no context (AttributeError), or bp_index is unbound.
exception_handler_single_step ==
    /\ doing = "single_step"
    /\ \E t \in seen_by_handler :
          LET reported == IF t = None THEN {}
                          ELSE {i \in dr6[t] : hardware_breakpoints[i] # None}
          IN  IF reported = {}
              THEN doing' = "crashed" /\ UNCHANGED << bp_index, todo >>
              ELSE /\ doing' = "bp_del_hw"
                   /\ bp_index' = min_slot(reported)
                   /\ todo' = SetToSeq(alive)
    /\ UNCHANGED << books, test, bp, current, debuggee, history >>

\* SetThreadContext, which may fail; that is printed and otherwise ignored.
set_context(t, value) ==
    \/ dr' = [dr EXCEPT ![t][bp_index] = value] /\ UNCHANGED refused
    \/ refused' = refused \cup {t} /\ UNCHANGED dr

\* Faulty: the condition bits stay in Dr7.
deleted_half(old) == register(None, FALSE, old.condition)

deleted(old) == unused

\* The entry is deleted once for every thread: the second time is a KeyError.
bp_del_hw ==
    /\ doing = "bp_del_hw"
    /\ todo # << >>
    /\ set_context(Head(todo), deleted(dr[Head(todo)][bp_index]))
    /\ hardware_breakpoints' = [hardware_breakpoints EXCEPT ![bp_index] = None]
    /\ todo' = Tail(todo)
    /\ doing' = IF hardware_breakpoints[bp_index] = None THEN "crashed" ELSE doing
    /\ UNCHANGED << breakpoints, memory_breakpoints, guarded_pages, test, bp_index, bp,
                    current, alive, dr6, code, guards, pending, blind, cut >>

\* The event is continued, and run ends.
bp_del_hw_done ==
    /\ doing = "bp_del_hw"
    /\ todo = << >>
    /\ pending' = [pending EXCEPT ![current] = None]
    /\ doing' = "script"
    /\ bp_index' = 0
    /\ current' = None
    /\ UNCHANGED << books, test, todo, bp, alive, dr, dr6, code, guards, history >>

-----------------------------------------------------------------------------
\* The script: debugger_active = True, run()
run ==
    /\ doing = "script"
    /\ doing' = "run"
    /\ UNCHANGED << books, test, locals, debuggee, history >>

\* With no register left bp_set_hw returns False.
bp_set_hw(wanted) ==
    LET available == {i \in Slot : hardware_breakpoints[i] = None} IN
    /\ doing = "script" /\ "hw" \in test
    /\ available # {}
    /\ bp_index' = min_slot(available)
    /\ bp' = wanted
    /\ todo' = SetToSeq(alive)
    /\ doing' = "bp_set_hw"
    /\ UNCHANGED << books, test, current, debuggee, history >>

\* A thread that has exited since has no context: AttributeError.  The entry is
\* made before the thread's registers are set, and stays when that fails.
bp_set_hw_thread ==
    /\ doing = "bp_set_hw"
    /\ todo # << >>
    /\ todo' = Tail(todo)
    /\ IF Head(todo) \notin alive
       THEN doing' = "crashed" /\ UNCHANGED << hardware_breakpoints, dr, refused >>
       ELSE LET old == dr[Head(todo)][bp_index] IN
            /\ set_context(Head(todo), register(bp[1], TRUE, old.condition \cup bp[2]))
            /\ hardware_breakpoints' = [hardware_breakpoints EXCEPT ![bp_index] = bp]
            /\ UNCHANGED doing
    /\ UNCHANGED << breakpoints, memory_breakpoints, guarded_pages, test, bp_index, bp,
                    current, alive, dr6, code, guards, pending, blind, cut >>

bp_set_hw_done ==
    /\ doing = "bp_set_hw"
    /\ todo = << >>
    /\ doing' = "script"
    /\ bp_index' = 0
    /\ bp' = no_bp
    /\ UNCHANGED << books, test, todo, current, debuggee, history >>

\* Faulty: a breakpoint that is there is set again.
is_set_never(a) == FALSE

\* An entry that is False, from a byte that could not be read, does not count.
is_set(a) == breakpoints[a] \notin {None, "False"}

\* Neither a failed read nor a failed write is an exception: both are ignored.
\* Read and write are one step, for a guard that goes in between changes neither.
bp_set_soft(a) ==
    /\ doing = "script" /\ "soft" \in test
    /\ ~is_set(a)
    /\ \/ bp' = << a, "False" >> /\ blind' = blind \cup {a}
       \/ page(a) \notin guards /\ bp' = << a, code[a] >> /\ UNCHANGED blind
    /\ code' \in {code, [code EXCEPT ![a] = "int3"]}
    /\ doing' = "bp_set_soft"
    /\ UNCHANGED << books, test, bp_index, todo, current, alive, dr, dr6, guards, pending,
                    refused, cut >>

bp_set_soft_done ==
    /\ doing = "bp_set_soft"
    /\ breakpoints' = [breakpoints EXCEPT ![bp[1]] = bp[2]]
    /\ doing' = "script"
    /\ bp' = no_bp
    /\ UNCHANGED << hardware_breakpoints, memory_breakpoints, guarded_pages, test, bp_index,
                    todo, current, debuggee, history >>

\* The pages that bp_set_mem goes through
guard_pages(a, size) == page(a)..page(a + size)

bp_set_mem(a, size) ==
    /\ doing = "script" /\ "mem" \in test
    /\ bp' = << a, size, page(a) >>
    /\ doing' = "bp_set_mem"
    /\ UNCHANGED << books, test, bp_index, todo, current, debuggee, history >>

\* The page is on record before VirtualProtectEx is asked for size bytes from it
\* on, and the breakpoint as soon as its first page is guarded.  When a page is
\* refused, what was done so far stays.
bp_set_mem_page ==
    LET a == bp[1] size == bp[2] current_page == bp[3] IN
    /\ doing = "bp_set_mem"
    /\ current_page \in guard_pages(a, size)
    /\ guarded_pages' = guarded_pages \cup {current_page}
    /\ \/ /\ guards' = guards \cup current_page..page(current_page * page_size + size - 1)
          /\ memory_breakpoints' = [memory_breakpoints EXCEPT ![a] = size]
          /\ bp' = << a, size, current_page + 1 >>
          /\ cut' = cut \cup {a}
          /\ UNCHANGED doing
       \/ /\ doing' = "script"
          /\ bp' = no_bp
          /\ UNCHANGED << guards, memory_breakpoints, cut >>
    /\ UNCHANGED << breakpoints, hardware_breakpoints, test, bp_index, todo, current, alive,
                    dr, dr6, code, pending, refused, blind >>

bp_set_mem_done ==
    /\ doing = "bp_set_mem"
    /\ bp[3] \notin guard_pages(bp[1], bp[2])
    /\ cut' = cut \ {bp[1]}
    /\ doing' = "script"
    /\ bp' = no_bp
    /\ UNCHANGED << books, test, bp_index, todo, current, debuggee, refused, blind >>

Handle ==
    \/ \E t \in Tid : get_debug_event(t)
    \/ exception_handler_single_step \/ bp_del_hw \/ bp_del_hw_done

Script ==
    \/ run
    \/ \E wanted \in Hardware : bp_set_hw(wanted)
    \/ bp_set_hw_thread \/ bp_set_hw_done
    \/ \E a \in Addr : bp_set_soft(a)
    \/ bp_set_soft_done
    \/ \E a \in Addr, size \in Size : bp_set_mem(a, size)
    \/ bp_set_mem_page \/ bp_set_mem_done

Debuggee ==
    \/ \E t \in Tid, a \in Addr : reach(t, a)
    \/ \E t \in Tid, e \in {"single_step", "access_violation"} : faults(t, e)
    \/ \E t \in Tid : start_thread(t) \/ exit_thread(t)

DbgNext == Handle \/ Script \/ Debuggee

DbgSpec == DbgInit /\ [][DbgNext]_dbgvars

-----------------------------------------------------------------------------
\* While the script sets breakpoints or waits, the table of hardware breakpoints
\* and the registers agree: what a thread that never refused its context is
\* stopped by is in the table, with the very address and condition, whatever
\* was in the register before, and what is in the table stops the main thread.
BreakpointsExact ==
    doing \in {"run", "script"} =>
        \A i \in Slot :
            LET entry == hardware_breakpoints[i] IN
            /\ \A t \in alive \ refused :
                  dr[t][i].enabled => entry # None /\ dr[t][i] = register(entry[1], TRUE, entry[2])
            /\ entry # None /\ main \notin refused => dr[main][i].enabled

\* The byte kept for a software breakpoint is the program's own, however often
\* the breakpoint is set, unless it could not be read at some time; an int3 in
\* the program is on record, but for the one that is just being set; a memory
\* breakpoint on record has its first page on record, and every page it touches
\* unless the last setting of it was refused one.
OriginalsKept ==
    \A a \in Addr :
        /\ a \notin blind => breakpoints[a] \in {None, "own"}
        /\ code[a] = "int3" =>
              breakpoints[a] # None \/ (doing = "bp_set_soft" /\ bp[1] = a)
        /\ memory_breakpoints[a] # None =>
              /\ page(a) \in guarded_pages
              /\ a \notin cut =>
                    page(a)..page(a + memory_breakpoints[a] - 1) \subseteq guarded_pages

\* The messages of the handler, "Hit the hardware breakpoint defined by user" and
\* "Hardware breakpoint remove": when the only thread hits a breakpoint that was
\* set, the handler survives it.
HitSurvived ==
    doing = "crashed" /\ current = main /\ alive = {main} =>
        \A i \in dr6[main] : hardware_breakpoints[i] = None

=============================================================================
