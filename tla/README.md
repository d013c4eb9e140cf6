# A TLA+ development of Jimp_Learning

The repository collects what one author built while learning systems programming. This directory
holds the TLA+ specifications of its programs, the TLC configurations that check them on small
instances, and the proofs that TLAPS checks for all instances. Paths below are relative to
`src/Project/`.

The centre of the repository is **Tiny_OS**, a 32-bit teaching kernel with preemptive threads, a
recursive lock, an interrupt-driven keyboard and a page allocator. It comes first here, because it is
where behaviour is hard to see and to test: one processor, but an interrupt between any two
instructions.

## 1. The system

### Tiny_OS

| Component | State | Operations | Talks to |
|---|---|---|---|
| scheduler: `thread/thread.c`, `switch.S`, `device/timer.c` | `thread_ready_list`, `thread_all_list`; per thread `status`, `ticks`, a kernel stack that holds its registers and IF; the running thread is the one whose stack `esp` is in | `thread_start`, `schedule`/`switch_to`, `thread_block`, `thread_unblock`, `intr_timer_handler` | called by everything that sleeps; driven by IRQ0 |
| semaphore, lock: `thread/sync.c` | `value`, `waiters`; `holder`, `holder_repeat_nr` | `sema_down`, `sema_up`, `lock_acquire`, `lock_release` | masks interrupts, calls `thread_block`, `thread_unblock` |
| console: `device/console.c` | `console_lock` | `console_put_str`, `_char`, `cosole_put_int` | the lock around `print.S` |
| ring buffer: `device/ioqueue.c` | `buf`, `head`, `tail`, the sleeping `producer` and `consumer`, `qlock` | `ioq_getchar`, `ioq_putchar`, `ioq_wait`, `wakeup` | the lock and the scheduler; written by IRQ1, read by threads |
| keyboard: `device/keyboard.c` | three modifier flags, caps lock, "the last byte was 0xe0" | `intr_keyboard_handler` | `put_char`, `ioq_putchar` |
| list: `lib/kernel/list.c` | `prev`, `next` of the nodes embedded in task_structs | push, append, pop, remove, find | under scheduler and semaphore |
| bitmap: `lib/kernel/bitmap.c` | bytes, length | `bitmap_scan`, `bitmap_set`, `bitmap_scan_test` | under the memory manager |
| memory: `kernel/memory.c` | two pools of frames, the kernel heap, page tables | `mem_pool_init`, `vaddr_get`, `palloc`, `page_table_add`, `malloc_page`, `get_*` | bitmap, lock |
| interrupts: `kernel/interrupt.c`, `kernel.S` | IDT, handler table, 8259A masks, IF | `intr_enable`, `intr_disable`, `intr_set_status`, `register_handler` | everything |
| `kernel/main.c`, `init.c` | none of its own | start threads, enable interrupts; the loops `k_thread_a` to `k_thread_d` | console, ring buffer |
| text output: `lib/kernel/print.S` | CRT cursor, video memory | `put_char`, `put_str`, `put_int` | called under `console_lock` by threads, and by IRQ1 without it |
| boot: `boot/mbr.S`, `loader.S` | memory size at 0xb00, GDT, page tables, ATA registers | once | hands over to `main` with IF clear |
| TSS: `userprog/tss.c`; `lib/string.c`; `kernel/debug.c` | descriptors; none; none | `tss_init`, byte loops, `panic_spin` | |

What is hard: preemption between the steps of the lock; a thread that is resumed with somebody
else's interrupt flag; nodes that must be on one list only; wake-ups that come before, during or
after a sleep; a sleep while holding a lock; counters and indices at their ends.

What makes the parts correct:

* scheduler: every ready thread is in the ready list once, one thread is running, no thread is lost
  or starved, `schedule` always finds a thread;
* lock: exclusion, recursion, books that agree at each instruction, no lost wake-up, interrupts as
  the caller left them;
* ring buffer: a bounded FIFO across wrap-around; whoever sleeps is on record for somebody who will
  wake it; characters do not stay for ever;
* keyboard: flags follow the keys, columns follow the flags;
* list: two-way chains, no element on two lists;
* bitmap: the first run that fits, inside the map; memory: disjoint pools, bitmaps that fit, no frame
  handed out twice, nothing lost while there is something left;
* interrupts: a handler that is switched away from comes back to its own frame and IF;
* text output: what is on the screen is what was printed, with the cursor behind it;
* boot: the memory size is the BIOS's, the page directory and the image are complete.

As it stands in the repository the kernel does not link: `thread.c` calls `get_kernel_pages` where
`memory.c` has `get_kernel_page`, `keyboard.c:43` spells a type `ioqueque`, `init.c:16` calls
`console_int`, `interrupt.h` and `main.c` disagree about a few declarations, `ioq_empty` is `static`,
and nothing calls `keyboard_init`. The models take these names for what they evidently mean and are
about the code behind them.

### The other programs

| Program | State and operations | What makes it correct | Here |
|---|---|---|---|
| `stl/Jimp_STL`: vector, list, deque and support headers | three pointers and a growth policy; a ring of nodes; a map of buffers with two iterators | contents equal a sequence, iterators stay in their buffer, no node lost by splice, merge, sort; no element or block lost when a copy throws | `StlList`, `Vector`, `Deque` |
| `TinyPyDbg/debugger.py` | attached process, current event, tables of software, hardware and memory breakpoints | tables agree with the debuggee's memory and debug registers, four slots, every event continued | `Debugger` |
| `Tiny_Complier/Scanner` | input, one character of push-back, line counter | tokens in order, the line of each | `Scanner` |
| `codeql-uboot`, `CSAPP` | queries about another program, notes | | no program state |

## 2. Modules

```
List ──── Thread ──┬── Sync ─────── refines AbstractLock, Thread
  │                └── IoQueue ──── refines BoundedQueue
  └── AbstractLists ◄── LinkedList                          Interrupts  Keyboard
Bitmap      MemPool      Memory                             TextOutput  Loader
StlMemory ─┬── Vector      StlList                          Debugger    Scanner
           └── Deque
```

| Module | Models | Abstractions |
|---|---|---|
| `List` | `list.c` as its users see it: sequences | none checked here; `LinkedList` shows that the pointers do this |
| `Thread` | `thread.c`, `timer.c`, IF | stacks are reduced to `saved_intr`, the IF a thread resumes with |
| `Sync` | `sync.c` under `Thread`, one action per stretch that an interrupt cannot split | the callers are the loops of `main.c` |
| `AbstractLock` | what the lock promises | |
| `IoQueue` | `ioqueue.c` under `Thread`, keyboard interrupt included | `qlock` is its holder and its waiters |
| `BoundedQueue` | what the ring promises | |
| `Interrupts` | `interrupt.c` and `kernel.S`: the 8259A, the entries, `intr_exit`, the handlers, stacks and IF | what the handlers do besides; which thread is next |
| `Keyboard` | the scan code handler, and a keyboard in front of it | `keymap` by row, column and "is 0" |
| `TextOutput` | `print.S`, each access to the CRT controller, and a terminal beside it | a cell is its character |
| `Loader` | `boot/mbr.S`, `loader.S`: memory size, disk, page directory, segments | sizes in K; BIOS and drive are external |
| `LinkedList`, `AbstractLists` | `list.c` on its pointers; lists as sequences | an operation is one step |
| `Bitmap` | `bitmap_scan`, a step per pass of its loops, and its callers | the map is the set of bits that are 1; the neighbouring byte is part of the state |
| `MemPool` | `mem_pool_init` | addresses of bitmaps relative to 0xc009a000 |
| `Memory` | the allocators of `memory.c`, split where an interrupt can split them | `bitmap_scan` is its result; a lock is its holder and count |
| `StlList` | `stl_list.h` on its nodes; a step per pass of its loops | a list's header node is named after the object that owns it |
| `StlMemory` | allocation, construction, copying and destruction under the containers | operators on a memory; where a copy throws is chosen in advance |
| `Vector` | `stl_vector.h` | an operation is one step, made of the copies it makes |
| `Deque` | `stl_deque.h` but for insertion in the middle or of a deque's range, range erase and what uses them | the same |
| `Debugger` | `debugger.py` and a script that calls it, against a debuggee with threads | Windows is external; Dr7's length field is left out |
| `Scanner` | `scan.c` on every short text | a character stands for its kind, a digit for itself |
| `MC...` | constants for TLC; `MCStructures`, `MCDevices` and `MCPrograms` put independent parts side by side, of which a behaviour uses one; `MCIoQueue` does so with the ring and with threads that only block and wake each other | |
| `Induction`, `...Proofs` | theorems | |

### Thread

`running` is `running_thread()`. `status`, `ticks` and the lists have their names from the code;
`"TASK_NONE"` stands for a task_struct that `thread_start` has not made yet, `TASK_DIED` is never
assigned and left out. `intr` is IF. An action is code that runs with IF clear, or one instruction.

A context switch is one action. `schedule` appends a preempted thread, pops the first ready one and
makes it the running thread; the IF that `switch_to` leaves is IF of the *new* thread, which is
somewhere behind its own call of `schedule` and restores what it had saved: `iretd` after a tick,
`intr_set_status` after `thread_block`, `intr_enable` in `kernel_thread` for a new thread. Nothing can
interrupt between the switch and that instruction, so `saved_intr` carries the value over. Each
failed ASSERT sets `panicked`, after which nothing happens, as in `panic_spin`.

`Next` leaves open what the threads do: mask, unmask, block and be unblocked in any order. `Resident`
is the set of threads whose code never calls `thread_block`; `main` is one (`while(1);`), and this is
what keeps the ready list from running empty.

### Sync

`pc` is where a thread is in `lock_acquire` (`outside`, `down`, `loop`, `own`, `count`), in the critical
section (`cs`), and in `lock_release` (`unown`, `uncount`, `up`). The timer may strike between any two
of them when IF is set. `Masked` threads call with IF clear (`k_thread_a`, `k_thread_b`), the others
with IF set (`k_thread_c`, `k_thread_d` through `console_put_str`). `MaxNest` bounds the recursion, in
a guard of `lock_acquire`. The module EXTENDS `Thread`, so the scheduler's actions are its actions;
`ImplementsThread` says that it is an environment `Thread` allows.

### IoQueue

The functions ASSERT that IF is clear, so they run undivided but for their sleeps: on `qlock` in
`lock_acquire`, and in `ioq_wait` with `qlock` held. Each call is thus split at these two points, and
the condition of the `while` is evaluated again only where the code does so. That the lock may be
reduced to `qholder` and `qwaiters` is what `LockExact` and `WaitersExact` of `Sync` say.
A thread reader calls `ioq_getchar` without a test in front; `main.c` tests first, which this contains.
What `Sync` calls `pc`, `at`, `goto`, `must_wait`, `lock_release`, `Boot`, `Step` and `NULL` is `ioq_pc`,
`ioq_at`, ..., `IoqBoot`, `IoqStep` and `NONE` here, so that one module can extend both.

### Interrupts

`requests` and `in_service` are the registers of the master 8259A as `pic_init` leaves it: fully
nested, lines 0 and 1 unmasked, the slave silent. `stack` is what each thread's stack holds of
interrupt frames, `place` where the thread is: in its code, in a handler, at `intr_exit`, in a masked
stretch, in `kernel_thread`, or in `general_intr_handler`, which stops. `kernel.S` sends the end of
interrupt *before* it calls the
handler; that no line stays in service while the timer's handler switches away rests on it. What
`Thread` puts into one action, a tick with a switch and the return of another thread, is a sequence
of steps here, and `InterruptsReturn` is what `Thread` assumes of it. A spurious interrupt of the
master, 0x27, runs the same handler as every vector without one.

### Keyboard

`press` and `release` are the hardware: keys go down, repeat and go up in any order, and their bytes
wait in `wire`. `down`, `caps_on` and `overlap` are what the user knows; they are read by properties
only. A typed character may be dropped, since the ring may be full.

### TextOutput

`index`, `cursor_high` and `cursor_low` are the CRT controller, `video` is its memory. `put_char`
is divided at every access to a port: select the high byte, read it, select the low one, read it,
draw, and the same again to write. `echo` is `put_char` called from the keyboard's interrupt, which
does not take the console's lock and so may come between any two of these. `lines`, `row` and `col`
are a terminal that is given the same characters. `tear` records that an echo came inside a
character: then the thread overwrites its cursor, and if it came between an index and its data port,
the thread's next access reaches the wrong half (`"split"`). `underrun` records a backspace in the
first cell, which writes outside the screen. `ScreenExact` says what the screen shows as long as
neither has happened, `OnScreen` that only these two take the cursor off it. `put_int` is `put_str`
of its buffer of digits, with the leading zeros skipped as the code skips them; `rest` is `eax` after
each turn of its loop, and no number has digits left after the last one (`NumbersAssumption`: eight
digits of four bits hold 32).

### Loader

Stages follow the code: 0xe820, then 0xe801, then 0x88 in case of failure (`hlt` if that fails too),
`rd_disk` a sector at a time, `setup_page`, `kernel_init` a segment at a time. More areas than there is
room for end in `overrun`. `edx` is the
maximum that `find_max_mem_area` keeps, compared with a sign, as the code does. `prompt` says that
the drive had the next sector ready at once: the code waits only before the first.

### LinkedList

Operations are single steps, as all callers have IF clear. The old pointers of removed elements stay.
`ImplementsLists` is stronger than a refinement of `AbstractLists!Next`: it says that *each* operation
maps to the abstract operation of its own name. `list_remove` of an element is the removal of the
place it has in its list.

An element is pushed or appended only when it is in no list (`unlinked`). That is the kernel's protocol,
and it is assumed: the ASSERTs of the callers ask less, that it is not in the list it goes into. So
`WellFormed` says that nodes stay on one list *if* the callers keep the protocol; that the scheduler, the
semaphores and the ring do keep it is what `SchedulerInv`, `WaitersExact` and `SleepersKnown` say.

### Bitmap and MemPool

`Bitmap` keeps all locals of `bitmap_scan`. The byte behind the map is part of the state because the
code reads it and because `mem_pool_init` makes it the first byte of another bitmap; the environment
changes it freely between scans. `BITS` is 8 in the code. `MemPool` has one action and many initial
states, one per memory size.

### Memory

`location` is where a thread is in `malloc_page` and under it: `acquire`, `place` (the bit that
`get_a_page` sets), `vaddr` and `reserve` (the scan of `vaddr_get` and its bits), `palloc` and `take`,
`add`, `palloc_table` and `take_table` (a page table for `page_table_add`), `release`. A thread with
IF clear is alone until it sleeps in `lock_acquire`; any other can be preempted between a scan and the
setting of the bits. `pde` and `pte` are directories and tables; the tables of the kernel's half
are the loader's, which has not cleared them, so an entry may be left over from before (`stale`).
With `ndebug` a failed scan returns -1 and goes on as the code does: `get_user_pages` clears memory at
NULL, `get_a_page` keeps its lock, `page_table_add` uses address 0 for a page table.

`Disciplined` is a condition on the callers: all have IF clear, or all take the same lock. The code
needs it, as `get_kernel_page` takes no lock and `page_table_add` takes frames of the kernel's pool
for processes; the callers in the tree (main, before it enables interrupts, and `thread_start` under
it) meet it. Processes are taken from the code of `get_user_pages`; nothing creates one yet.

### StlList

`next`, `prev` and `data` are the nodes' fields, `NULL` in memory that is not allocated. `insert`,
`erase`, `clear` and the three `splice`s are single steps; `remove`, `unique`, `merge`, `reverse` and
`sort` take one step per pass, with the iterators they keep in `local`, so that properties see the
rings in between. `sort` calls `merge` and comes back to `local.ret`. `want` is what each list is to
hold after the operation, computed on sequences when it begins; no step of the code reads it.

`swap` exchanges the pointers of two objects to their header nodes. A ring's header is named after
its owner, so here it renames the two headers in all links. The counters of
`sort` go from 0 to `MaxFill`; the code has 64, and three are enough for the four nodes of the run.

### StlMemory, Vector and Deque

A memory is a record: `cells` of blocks, `fuel`, `thrown`, `fault`. A copy constructor or an
assignment throws when `fuel` is used up, and every call is tried with every amount of fuel, hence
with an exception at every copy, or none (`MaxCopies` is more than any call makes). After `thrown`
only catch blocks run. `fault` records what C++ leaves undefined (a cell outside its block or
without an element that is read, assigned or destroyed, an element constructed over another) and
elements that are lost without being destroyed. Arguments of type `const T&` may be references to
elements of the container, which move while the call runs.

`want` (`promised` in `Vector`) is what the container is to hold: what the call promises if it returns;
the old elements if it throws; any elements if it throws while it changes them in place.

In `Deque` `map` is what `_M_map` points to, and `start` and `finish` are the iterators with all
four pointers. `operator-` is modelled as it is written, one buffer short, wherever the code calls it: `erase`
chooses the side that moves by it, and `copy` and `copy_backward` count by it what they move
(`stl_algobase.h:82`, `:168`). What `erase` promises is therefore stated for the last element only
(`want` in `erase`); after the erasure of another one `want` is what the code has left. The insertion of a
range is the overload for pointers, which are subtracted rightly. `AnyInsert = FALSE` keeps
to the calls of `insert` that do what they should; with `TRUE` any call at an end is allowed.
Pointers that stay in the map when a buffer is given back are read by nothing and are set to null
between operations.

The headers do not compile as they are. Names are taken for what they evidently mean; each module's
head lists them, `_M_get_node(__x)` in `list::insert` (`stl_list.h:272`), taken for `_M_create_node`, among
them. In `_M_push_front_aux` and one `_M_push_back_aux` the call that reserves *elements* is
taken for the one that reserves room in the map, which the other `_M_push_back_aux` calls. In the
`catch` block of `_M_allocate_and_copy` (`stl_vector.h:482`) `_M_allocate` is taken for `_M_deallocate`.

### Debugger

The tables have the names of `debugger.py`; `doing` is the method that is running, `todo` the threads
that its loop has yet to go through. `dr`, `dr6`, `code` and `guards` are the debuggee: debug
registers, memory, guarded pages. It stands still while an event is handled and runs otherwise, also
while `bp_set_hw` goes through the list of threads that it has made, so that threads start, exit and
hit breakpoints in between. Any access may be refused (`refused`), and a read of a guarded or
refused byte gives False, which the table then keeps for the byte (`blind`). `bp_set_soft` is two steps
around the entry in the table (:126), and `bp_set_mem` takes one step per page: its entry is made after the
first page that could be guarded (:258) and stays when a later one is refused, which `cut` remembers for
the property. Like `debugger_test.py`
a script sets hardware breakpoints, or software and memory breakpoints.

### Scanner

`offset` is the position in the file, `Putback` the character that `next` hands out first. `scanfile`
stops at the end of the file or at the first character that is no token. `main.c` and `defs.h` are
taken for what they evidently mean (see below).

## 3. Runs

| Run | What it checks | Bounds, and why they are enough |
|---|---|---|
| `thread_slice` | violates `SliceRestored` | 3 threads |
| `sync` | `MutualExclusion`, `LockExact`, `WaitersExact`, `NoLostWakeup`, `InterruptDiscipline`, `ImplementsLock`, `ImplementsThread`, `WaitersWoken` | main, one masked and two unmasked lockers: two can wait while one owns; `MaxNest` 2; 5183 states |
| `ioqueue` | scheduler: `SchedulerInv`, `NoPanic`, `StarvesNobody`; ring: `SleepersKnown`, `ImplementsQueue`, `KernelTakes` | One of three uses (`use`). Scheduler: 4 threads that mask, block and wake each other at will, slices of 1, 2 and 0 ticks: preemption, blocking and overtaking by woken threads all occur, with two threads ready behind a running one. Ring: the keyboard, two readers, and a writing thread or, as in the kernel, none; two characters; a ring of 3 (two usable slots), which fills and wraps: all waits occur, on full, on empty and on `qlock`. 176418 states in all |
| `ioqueue_stuck` | violates `SomeoneAwake` | a reader and a writer, no keys |
| `devices` | keyboard: `ModifiersExact`, `TypedAsPressed`; screen: `ScreenExact`, `OnScreen`; controller: `InterruptsReturn`; loader: `KernelStarts` | ten keys, one at least of every kind that the handler tells apart, both shift keys. A screen of 2 lines of 4 cells and bytes of 6 values, so that the cursor needs both of its bytes and scrolls; a line feed, a backspace, numbers of two binary digits, and three echoes. 3 threads, lines 0, 1 and a masked one, two exceptions with an error code, of which one entry pushes a zero on top. Up to 3 areas for a buffer of 2, areas that end above 2G and behind 4G; 3 sectors, 2 segments. 692798 states in all |
| `structures` | list: `WellFormed`, `ImplementsLists`; bitmap: `FirstFit`, `ScanEnds`; pools: `PoolsDisjoint`, `BitmapsFit`; pages: `FramesExact`, `LeaksOnlyWhenExhausted`; deque: `BuffersExact`, `DequeExact` | list: 3 elements, 2 lists: front, middle and end of a list, and moves between lists. Bitmap: every content of two bytes of three bits and the byte behind them; counts 1, 2, 3 and one more than the map has. Pools: all sizes from 3M to 512M in steps of 1M, 501 sizes around 3M page by page, and half pages around 258M, where 16 bits overflow. Pages: 3 and 2 frames, spaces of two pages of which a table maps two (the page behind the space, which a scan may return, is in a second one), one caller of each kind with IF clear, or two of a kind with one lock: pools, maps and locks all reach their ends. Deque: 2 elements to a buffer, a map of 6 pointers (8 in the code), at most 4 elements, and 3 blocks, as many buffers as 4 elements can be spread over: the elements wander, the map is recentred and, with three buffers in use, grown to 14; `erase` moves elements down in it, and up only where there are six or more, which is left to the proof. 213688 states in all |
| `bitmap_bounds` | violates `InBitmap` | the bitmap of `structures` |
| `loader_largest` | violates `LargestFound` | the loader of `devices` alone; 12198 states |
| `programs` | list: `RingsExact`, `IteratorsValid`, `CountersExact`, `ResultsExact`, `OperationsEnd`; vector: `LifetimesExact`, `ContentsExact`; debugger: `BreakpointsExact`, `OriginalsKept`; scanner: `TokensExact` | list: 4 nodes, 2 lists, 2 keys: a sort of four uses three counters and merges two of its runs, equal keys show whether it is stable. Vector: at most 4 elements, 3 inserted at once, capacities up to 6: all three cases of `insert_room`, with and without room; an exception at each copy; every element as the argument. Three blocks, one more than a reallocation needs. Debugger: a debuggee of one or two threads, two debug registers, two addresses on pages of their own, memory breakpoints of two and three pages: registers run out, threads start behind the loop, and a page is refused after the entry was made. Scanner: every text of up to four characters. 905959 states in all |
| `deque_ends` | violates `StoresAtBothEnds` | the deque of `structures`, with any call of `insert` at an end, which needs a fourth block |
| `scanner_literal` | violates `LiteralHeld` | the scanner of `programs` |
| `debugger_hit` | violates `HitSurvived` | the debugger of `programs` with one thread |

`CHECK_DEADLOCK FALSE` appears where the system stops: `structures` (`mem_pool_init`
runs once, a scan of a full bitmap ends in an ASSERT), `devices` and `loader_largest` (the loader is done, an exception
stops the machine, nothing is said of a screen after an underrun), `programs`, `debugger_hit` and `scanner_literal` (the
debugger ends, the scanner exits). In the other runs a deadlock would be an error; in
`Thread` and the modules that extend it a panic leaves no action, so that absence of deadlock also
says no ASSERT fails.

### Fairness

* `Thread`: the 8259A keeps a tick that IF masks, so a timer interrupt that is enabled again and
  again is taken (SF); each `cli` of the code is followed by a `sti` (WF of `intr_enable`).
* `Sync`: a thread that gets the processor again and again executes its instructions (SF of
  its steps). Slices are 0 ticks for all but the first, and the 8253 ticks every 10 ms, so a thread
  executes many instructions each time it runs. The masked loop takes the lock twice and then restores
  IF (SF of `loop_restores`); what threads do while they own the lock ends, `console_put_str` prints a
  string (SF of `leaves`).
* `MCIoQueue`: main starts the threads (WF of `IoqBoot`), ticks come (SF of `IoqTimer`), and the *readers*
  execute their instructions when they run (SF of their steps). Nothing makes a key arrive or a writer
  write.
* `Bitmap`, `StlList`: a loop that was entered goes on (WF of its passes).

### What the runs found

* `thread/thread.c:112` reloads the slice from `pgdir` where the comment says priority. It is NULL in
  kernel threads: after its first slice a thread is preempted at each tick. Nothing breaks, as
  `StarvesNobody` shows, but priorities have no effect.
* `device/ioqueue.c:57`, `:78` sleep with `qlock` held. The next waiter sleeps on the lock, where
  no `wakeup` finds it, and does not look at the queue again when it is let in. One reader and one
  writing thread can then sleep for ever. The kernel as configured only writes from the keyboard
  interrupt; there characters are always taken eventually, though a reader can sleep while the queue
  holds some.
* `lib/kernel/bitmap.c:51` looks at one bit too many: a run may end one bit behind the map.
* `boot/loader.S:65` compares the ends of areas with a sign, and a sum behind 4G wraps: an area that ends
  at or above 2G does not count, and the memory size is that of a smaller one, against the comment at :57.
* `Tiny_Complier/Scanner/scan.c:83` keeps the code of a digit as the value of a literal, and every further
  digit is a token of its own, against the comment at `defs.h:16`: `scanint`, which has the value, is never
  called.
* `stl_deque.h:571` fills in elements in front of `_M_start` and does not set `_M_start` to them, as the
  insertion of a range at :598 does: `insert(begin(), n, t)` inserts nothing and leaks. `:1028` enters
  the buffers for elements at the back in front of `_M_finish`, over buffers in use.
* `TinyPyDbg/debugger.py:85` passes a handle where `get_thread_context` takes the id of a thread, so
  that the handler of a single step has no context and raises AttributeError on the first hit of a
  hardware breakpoint: the "unsolved riddle" of its README.

Seen on the way, without runs of their own:

* `bitmap.c:28` panics in front of `return -1`, so that the error paths of `vaddr_get` and `palloc` are
  reached only without ASSERTs. There `get_a_page` returns with its lock held, `get_user_pages` clears
  memory at NULL, and nobody tests the frame of a page table: processes then share one at address 0
  (the exception that `FramesExact` names). `LeaksOnlyWhenExhausted` says how far the damage goes.
* Left and right shift share a flag (`ModifiersExact` says exactly when that shows). The thread that
  releases a lock may take it again before the one it woke runs, so that a particular thread need not
  ever get it, and the code promises nothing else.
* `print.S`: an echo inside a character is overwritten, and one between an index and its data port can
  take the cursor off the screen. `set_cursor` is declared and defined nowhere.
* `kernel/memory.c:236` keeps the number of free pages in 16 bits: from 258M on most of the memory is in no
  pool, though the comment on `MEM_BITMAP_BASE` speaks of 512M. The truncation is also what keeps the three
  packed bitmaps below the PCB at 0xc009e000 (`BitmapsFit`).
* `loader.S`: the buffer for areas holds 12 and is not guarded; the types of areas are not looked at; tables behind the first 256 entries and
  the segments' zero-initialised data are not cleared; `rd_disk` waits for the drive before the first
  sector only; an image without program headers would be looped over 2^32 times.
* `kernel.S` pushes a zero for vector 0x0c although the processor has pushed an error code, which does
  no harm as that handler does not return.
* `debugger.py`: with two threads `bp_del_hw` deletes its entry twice and ends in KeyError (:230);
  `open_thread` compares with None what is 0 on failure; a byte that cannot be read is kept as False. A
  memory breakpoint stays in its table when one of its later pages was refused (:258, `OriginalsKept` says
  so); `VirtualProtectEx` is given the size of the breakpoint for each page and so guards pages behind it
  that are not recorded.
* `Scanner`: `putback` is never called; `main.c` defines `_extern` where `data.h` reads `extern_`, so that
  nothing is linked; a file that cannot be opened is reported and then read.

In the STL headers: `operator-` of deque iterators (`stl_deque.h:47`) adds `_M_first - _M_cur` where
`_M_last - _M_cur` is meant, so that `size()` and every distance is one buffer short. `erase` of one element
moves a buffer of elements too few: of `[a, b, c]`, `erase(begin() + 1)` leaves `[a, b]`. Only the erasure of
the last element is right. Insertion of a deque's range (:619) or in the middle, erasure of a range,
`resize` and assignment suffer too. Nothing in the repository says what they should do, so no run states it.
More slips that hide behind names that do not compile or
templates that nothing instantiates are at `stl_deque.h:216`, `:657`, `:812`, `:840`, `:857`,
`:910`, `:1032`. `list::remove(value)` (`stl_list.h:512`) compares with a freed node when `value`
refers to an element of the list; the model's `remove` takes a value.

## 4. Theorems

The proofs are for any number of threads, any priorities, any depth of nesting, any length of ring,
bitmap and address space, any number of frames, list elements, keys and memory areas, any size of
screen, any text, any memory size up to 512M, any number of STL lists with up to 2^64 - 1 nodes, vectors
of any size, and deques of any size with buffers of any size. They rest on the assumptions named in the
modules: `TaskAssumption`, `SyncAssumption`, `IoQueueAssumption`, `InterruptsAssumption`,
`KeyAssumption`, `PrintAssumption`, `NumbersAssumption`, `AreaAssumption`, `ExtendedAssumption`,
`ImageAssumption`, `TableAssumption`, `LinkedListAssumption`, `BitmapAssumption`, `MemSizeAssumption`,
`MemoryAssumption`, `DebuggerAssumption`, `ScannerAssumption`, `StlListAssumption`,
`StlMemoryAssumption`, `DequeAssumption`. `StlListAssumption` bounds the nodes by the counters that
`sort` has (fewer than 2 to the power of their number): with 64 counters no memory holds as many nodes.
`StlMemoryAssumption` says what the model's constants stand for: `malloc` does not return the null
pointer, `RAW` is no element, an element of the caller is not a pointer into a block, and there is
memory for two blocks, since a reallocation has both. `DequeAssumption` says that a buffer and the first
map have room for one element at least, and that there is a block for every buffer that `MaxSize`
elements can be spread over, that is, that `malloc` does not fail (block 1 is the one that the
constructor gets); a bound on the map is not assumed.

`Induction` is a lemma of its own. The provers cannot use the library's induction theorems, which take
an operator; `NumberInduction` is induction over a *set* of numbers, proved from the smallest number
that is not in it, and is what the proofs about loops over data rest on: `WalkOf` (what a loop over a
list sees), `PutIntWrites` (the digits that `put_int` stores are the number), `PutAll` (what a loop that
copies elements leaves in the cells), the loops of `deque` over buffers, and of what is said of
`without`, `contents` and `power` of the STL list.

* **`KernelProofs`**, three modules. It begins with lemmas about sequences: what append, push and pop do
  to the elements, and that they keep them distinct.
  * scheduler: `ThreadInv` is `TypeOK /\ SchedulerInv`. The core is a lemma about `schedule` for any
    statuses that differ from the current ones only in the running thread, used for the timer and for
    `thread_block`. `NoAssertFails` needs more: `NoPanicInv` adds that no ASSERT has failed, that main was
    started and that nobody in `Resident` is blocked; a started thread in `Resident` is then either
    running or in the ready list, so `schedule` cannot find it empty. It assumes `main_thread \in
    Resident`.
  * lock: `SyncInv` is `ThreadInv`, `NoPanic`, the books of the lock (`LockInv`: `SyncTypeOK`,
    `MutualExclusion`, `LockExact`) and the sleepers (`WaitInv`: `Located`, `WaitersExact`,
    `NoLostWakeup`). `Located` says who may be where: threads inside the lock's code were started and are
    lockers, only main is at `boot`. `LockExact` alone is not inductive: that `sema_down_takes` finds
    value 1 only when there is no owner is the equivalence of `value` and `owners`; that a blocked thread
    is nobody's owner is `WaitersExact`. `InterruptsAreDisciplined` adds `FlagInv`, which says for the
    *sleeping* threads what IF they will resume with; without it a switch tells nothing about the thread
    it lets in. `SyncImplementsThread` and `SyncImplementsLock` are proved step by step: every action is
    an action of the abstract module or leaves its variables alone.
  * ring buffer: `SleepInv` is `ThreadInv`, `NoPanic`, `SleepersExact`, which is `SleepersKnown` at any time, and who may be where: a blocked
    thread is in exactly one of `consumer`, `producer` and `qwaiters`, and whoever sleeps in `ioq_wait`
    holds `qlock`. `HandInv` says that the indices stay in the ring and what a writer has in its hand;
    with it every `store` and `take` is `Put` and `Get` of `BoundedQueue`, by arithmetic modulo `bufsize`.
* **`DevicesProofs`**, four modules:
  * interrupts: `FrameInv` says what is on the stack of each thread for the place where it is, of the
    running thread and of those that were left in the midst of a handler; no line is ever in service
    between two steps.
  * keyboard: `ModifiersExact` speaks of the times when no byte is on the wire. `KeyboardInv` says
    what holds in between, after the first byte of an extended code and for a key whose break code is
    still to come, and that `overlap` is what the user did. The arithmetic of `KeyCodes` shows that
    no break code is taken for the prefix 0xe0, which is why `KeyAssumption` excludes 0x60.
  * loader: `BootInv` carries each stage's result to the next: `Highest` for the areas compared so
    far (of those that end below 2G; `CapacityExact` is about maps with no others), `Placed` for the headers copied so far, which are the unit of the last header that covers
    it, `TablesMade` for the page tables. `exceeds` is the signed comparison, which on areas that end
    below 2G is `>`.
  * screen: `PortsInv` says at each place between two accesses what the registers hold of the
    cursor; that an echo leaves the index register as it found it or is recorded in `tear` is what
    makes it inductive. `TerminalInv` relates screen and terminal, which differ while a character is
    drawn but not yet in the cursor.
* **`MemoryProofs`**, four modules:
  * bitmap: `TypeOK /\ LoopInvariant /\ FirstFit`, one lemma per action. `LoopInvariant` is the loop
    invariant of the C code: all bits in front of the search are taken or are in runs that are too
    short, and `count` is the length of the free run in front of `next_bit`.
  * pools: the truncation leaves at most 65535 pages, so each bitmap has at most 4096 bytes; the
    rest is arithmetic.
  * lists: `ListsInv` says that there are sequences of elements, no element in two places, of which
    the pointers are the chains (`Represents`). `WellFormed` is not inductive, since it speaks of what
    loops find. `WalkOf` shows what they find from the sequences: their elements, then the tail, and
    no list is longer than the number of elements. `InsertKeeps` and `UnlinkKeeps` are the two
    pieces of code that change pointers, at any place of a list; the four operations are cases of
    them, and so `PointersImplementLists` follows operation by operation.
  * pages: `Exclusion` says what each caller has: IF clear and nobody else past the lock,
    or the lock; from it and `Disciplined` at most one thread is past the lock (`Alone`), so that what a
    scan has found (`LocalOK`) is still true when the bits are set. `FramesInv` ties bitmaps to tables:
    every frame in a table, in a directory or in a thread's hands has its bit set and is in no other
    place. Together they are `MemInv`. `LeakInv` adds the converse, that every set bit is accounted for
    as long as a pool has something left, and what a call has still to do; a scan for one frame fails
    only when all bits are set.
* **`ProgramsProofs`**, three modules:
  * debugger: `RegistersInv` says how far the loop over the threads has come while a breakpoint is set
    (`SettingExact`) or deleted (`DeletingExact`): threads that are done with agree with what the
    table is going to say, threads ahead with what it said, and threads that started behind the
    loop's back hold nothing. `OriginalsInv` adds to `OriginalsKept` the types,
    what the byte just read is good for (`ByteInv`) and, in the midst of `bp_set_mem`, which pages are
    done and that the first page of its own is on record before the entry is (`PagesInv`); that addresses of one
    memory breakpoint lie on consecutive pages is `PageMonotonic`.
  * scanner: `ScannerInv` counts tokens and lines up to `offset` at any time, not only at the end.
  * list: `RingsExact` speaks of what loops find and is not inductive. `ListsInv` says that there is
    a function `q` from lists to sequences of nodes of which the pointers are the rings (`Shape`, made
    of `Path`s, with no node in two places), and says by `q` alone where each loop is.
    `CutKeeps`, `PasteKeeps` and `TransferKeeps` are `transfer()`, which takes a path out of one ring and
    ties it into another or the same one; insertion, erasure and the three forms of `splice` are cases of
    them. `Removing` and `Uniquing` divide a list into what has been passed and what is
    still to be looked at. In the midst of `reverse` (`Reversing`) the rings are those of *older* pointers,
    of which some places have exchanged theirs; when all have, the ring is that of the reversed list.
    `Merging` and the predicates of `sort` measure everything by the goal, the sorted sequence `W`:
    the lists being merged ascend in `W`, and of equal elements those of the first list come before those
    of the second (`Stable`). In `sort` this holds of any two of the temporary lists by age: higher
    counters are older than lower ones, those older than the carry, and the carry older than what is left
    in the list (`Ages`); that only neighbours in age are merged (`Adjacent`) makes the sort stable.
    That counters hold 2^j nodes or none is part of the invariant as well, since from it follows that
    `sort` does not run out of counters (`NodesAreFew`). At the end a sequence that
    ascends in `W` and has all of its nodes is `W` (`AscendsAll`). So `ResultsExact` is proved for every
    length, the stability of `merge` and `sort` included.
* **`StlMemoryProofs`**: the memory under vector and deque. A call is one step that copies element by
  element, so the work is about loops inside a step, any of whose copies may throw. `PutAll` says, by
  induction over the items, that a loop of copies changes the cells it wrote and no others, that it
  wrote all of them if nothing was thrown and the first few otherwise, and that nothing undefined happened
  if each cell was as the loop needs it. `copy`, `copy_backward`, the copies into raw cells and their
  unwinding, and `destroy` follow; for overlapping ranges the direction decides that no element is read
  after it was overwritten.
* **`VectorProofs`**:
  * The helpers of `stl_vector.h` leave a vector in one of three ways (`Outcome`). `Moved`: nothing was
    thrown, and some elements in the middle were replaced by what the items read *before* the call, also
    when they refer to elements that the call moves. `Back`: it threw, and the vector is as
    before. `Changed`: it threw in the midst of moving elements in place, and is still a vector.
    Which of the last two is possible depends on whether there was room (`Fits`).
  * `VectorInvariant` is what is true between calls: `VectorAt`, that the three pointers are into one
    block with elements in front of `finish` and raw cells behind it and no other block in use, and that
    the elements are `promised`. `DoneKeeps` derives it for the end of a call from its `Outcome`; there is
    one lemma per call. `LifetimesExact` and `ContentsExact` follow from it at once; neither is inductive
    alone, since they do not say where the pointers are or what types the cells have.
* **`DequeProofs`**: `BuffersExact` and `DequeExact`, for the calls of `insert` that do what they should
  (`AnyInsert = FALSE`; section 3 says what the others do).
  * A cell is counted by its *address*, its distance from the first cell of node 0 of the map. An iterator
    is then one number, `operator++`, `--` and `+=` are additions (`AdvanceIs`, `IncrementIs`), and a deque
    is the addresses from `s` to `f - 1`. `operator-` is the difference less one buffer (`DifferenceIs`).
    It decides which side of an erased element moves and how many of its
    elements do (`MoveUpIs`, `MoveDownIs`): too few, but each from an element to an element,
    so that what is left is a deque (`EraseIs`). For the last element nothing has to move, and the back is
    the side that is shortened (`LastFromBack`), also where a negative size is a large `size_type`.
  * `Store` says which nodes have a buffer and which addresses an element: the buffers are blocks of their
    own and the only ones in use, there are elements at those addresses and raw cells elsewhere. It speaks
    of any set of nodes and addresses, so that it also holds in the midst of a call, when there are
    buffers without elements behind `finish` or elements that no iterator includes yet. What may change it
    are a buffer more or less (`NewNodeIs`, `DropNodeIs`), copies into cells (`WroteKeeps`, from `PutAll`), and
    a map that is moved or recentred, which adds the same number to all addresses (`StoreShifted`).
  * `DequeAt(d, s, f)` is a deque at rest: its `Store` is that of the nodes from `s` to `f`, and its
    elements those from `s` to `f - 1`. Each operation at an end has a lemma of the form `Ends`: if it
    throws, the deque holds the same elements, wherever it lies now, and otherwise those that the call
    promises; after an `erase` that throws, or of another element than the last, it is still a deque, of some
    elements. An argument may be an
    element of the deque itself, because calls at the ends move the map and not the elements. `NodesBound`
    shows that a deque never covers as many nodes as there are blocks, so that `malloc` finds one.
  * `DequeInvariant` is that there are `s` and `f` with `DequeAt(operand(0), s, f)` and that `want` is
    `Contents` there. `BuffersExact` alone is not inductive, since it says neither that the cells without an
    element are raw nor that the map is an array; `DequeExact` says nothing of what is not an element.

The theorems of `Memory` are about its atomic `bitmap_scan` and reduced locks; that these stand for
the code is what `FirstFit` and `LockExact` say.

Every safety invariant, action property and refinement that a passing run checks is a theorem. Only
model-checked is liveness, which the prover cannot treat: `StarvesNobody` (`NoStarvation` of `Thread`), `WaitersWoken`, `KernelTakes`,
`ScanEnds` and `OperationsEnd`.

## 5. Not modelled, and why

* Real time, caches and the instruction encoding: the interleaving of instructions that share state
  is what matters.
* The loader's greeting, the A20 gate, the descriptors of the GDT and the switch of modes; the TSS,
  which `main` does not set up; the 8253's set-up: straight-line writes to hardware.
* `general_intr_handler`'s messages: it prints and stops.
* `string.c`: byte loops without state; the memory they touch is abstracted by their callers.
* `main.c`'s test of `ioq_empty` in front of a print and a read, as a composition of console, queue and
  both readers: `IoQueue` allows a read at any time, and the test is made again under the lock.
* Address spaces of processes: nothing creates one. `Memory` models the allocators for them; the page
  of a user stack, which `vaddr_get` compares with in an ASSERT, is left out.
* The debugger's `load`, `detach` and `get_func_addr`: single calls of Windows.
* A multiprocessor: the kernel has no code for one.
* The other STL headers: iterator and type traits, function objects, and maps and sets that forward
  to a tree and hash table that are not in the repository. Of the modelled containers:
  `list::resize`, `assign` and `operator=`, which are loops of `insert` and `erase`, and of `deque`
  insertion of a range of a deque (:615-640) and in the middle, erasure of a range, `resize` and assignment, which all measure distances
  with the wrong `operator-`.

## 6. What is left

1. `MainLoop`: keyboard interrupt, ring buffer, console lock and the two readers over one scheduler.
2. The loops of `list` above, and `deque` in the middle, once its `operator-` is put right.
3. Processes and freeing of pages, as soon as the kernel has them: `Disciplined` is the condition that
   new callers of the allocators must keep.
