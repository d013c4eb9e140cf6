------------------------------- MODULE Memory -------------------------------
(***************************************************************************)
(* Page allocation of kernel/memory.c: the bitmaps of the two pools of     *)
(* frames and of the address spaces, and the page tables that tie them     *)
(* together.                                                               *)
(*                                                                         *)
(* Kernel threads call get_kernel_page, as thread_start does, or           *)
(* get_a_page; processes, whose address spaces the rest of the kernel is   *)
(* yet to create, call get_user_pages or get_a_page.  A caller that has    *)
(* masked interrupts runs alone until it returns or sleeps; any other can  *)
(* be preempted between a scan of a bitmap and the setting of the bits.    *)
(* Locks are reduced to holder and holder_repeat_nr (module Sync), and     *)
(* bitmap_scan to its result (module Bitmap).                              *)
(***************************************************************************)
EXTENDS Integers

CONSTANTS
    Kernel,         \* kernel threads that call get_kernel_page
    Placer,         \* kernel threads that call get_a_page
    Process,        \* threads with a page directory of their own
    kernel_frames, user_frames,     \* bits of the bitmaps of the pools
    Pages,          \* bits of the bitmap of an address space
    PerTable,       \* pages that a page table maps: 1024
    Request,        \* the numbers of pages that callers ask for
    MaxRepeat,      \* bound on holder_repeat_nr
    nobody          \* in place of the holder of a lock that is free

Thread == Kernel \cup Placer \cup Process

PF_KERNEL == "kernel_pool"
PF_USER == "user_pool"
PoolFlag == {PF_KERNEL, PF_USER}

ASSUME MemoryAssumption ==
    /\ Kernel \cap Placer = {} /\ Kernel \cap Process = {} /\ Placer \cap Process = {}
    /\ kernel_frames \in Nat \ {0} /\ user_frames \in Nat \ {0}
    /\ Pages \in Nat \ {0}
    /\ PerTable \in Nat \ {0}
    /\ Request \subseteq Nat \ {0}
    /\ MaxRepeat \in Nat \ {0}
    /\ PF_KERNEL \notin Process /\ nobody \notin Thread

frames(pool) == IF pool = PF_KERNEL THEN kernel_frames ELSE user_frames

\* An address space: the kernel's, or a process's.
Space == {PF_KERNEL} \cup Process

pool_of(t) == IF t \in Process THEN PF_USER ELSE PF_KERNEL

space_of(t) == IF t \in Process THEN t ELSE PF_KERNEL

\* A scan for several bits may return the one behind the bitmap.
Page == 0..Pages

\* Physical address 0, which palloc's NULL becomes when nobody tests it
low_frame == << "low", 0 >>

\* The loader has made the page tables of the kernel's half, and has not cleared
\* them: an entry may look present that nobody has made.
loader_table(n) == << "loader", n >>

NotPresent == << "none", 0 >>

stale == << "stale", 0 >>

Table == {loader_table(n) : n \in Page} \cup {low_frame}
            \cup {<< PF_KERNEL, i >> : i \in 0..(kernel_frames - 1)}

Slot == 0..(PerTable - 1)

no_call == "none"

VARIABLES
    ndebug,         \* whether ASSERT is compiled to nothing
    active, masked, \* the threads that allocate, and those that mask interrupts
    pool_bitmap, vaddr_bitmap,
    pde, pte,       \* the directories of the spaces, the entries of the tables
    holder, holder_repeat_nr,
    location,
    call,           \* of each thread: the function it is in
    vaddr, pg_cnt,     \* the page it maps next, and how many it still has to map
    bit_idx,        \* what its last scan has returned
    page_phyaddr,   \* the frame it is about to map
    halted

fixed == << ndebug, active, masked >>
maps == << pool_bitmap, vaddr_bitmap >>
tables == << pde, pte >>
locks == << holder, holder_repeat_nr >>
locals == << call, vaddr, pg_cnt, bit_idx, page_phyaddr >>

memvars == << fixed, maps, tables, locks, location, locals, halted >>

-----------------------------------------------------------------------------
\* What keeps all others out of kernel_pool while t takes a frame of it: the
\* page tables of processes come from there too.
guards(t) ==
    (IF t \in masked THEN {"interrupts"} ELSE {})
        \cup (IF t \in Process THEN {PF_USER} ELSE {})
        \cup (IF t \in Placer THEN {PF_KERNEL} ELSE {})

\* The only callers there are, main and the thread_start under it, have masked
\* interrupts; the locks alone do as long as all callers take the same one.
Disciplined == \E g \in {"interrupts"} \cup PoolFlag : \A t \in active : g \in guards(t)

MemInit ==
    /\ ndebug \in BOOLEAN
    /\ active \in SUBSET Thread
    /\ masked \in SUBSET active
    /\ Disciplined
    /\ pool_bitmap = [pool \in PoolFlag |-> {}]
    /\ vaddr_bitmap = [s \in Space |-> {}]
    /\ pde = [s \in Space |-> [n \in Page |->
                IF s = PF_KERNEL THEN loader_table(n) ELSE NotPresent]]
    /\ \E left \in {NotPresent, stale} :
          pte = [table \in Table |-> [n \in Slot |->
                    IF table[1] = "loader" THEN left ELSE NotPresent]]
    /\ holder = [pool \in PoolFlag |-> nobody]
    /\ holder_repeat_nr = [pool \in PoolFlag |-> 0]
    /\ location = [t \in Thread |-> "idle"]
    /\ call = [t \in Thread |-> no_call]
    /\ vaddr = [t \in Thread |-> 0]
    /\ pg_cnt = [t \in Thread |-> 0]
    /\ bit_idx = [t \in Thread |-> -1]
    /\ page_phyaddr = [t \in Thread |-> NotPresent]
    /\ halted = FALSE

\* A masked caller is alone on the processor unless it sleeps in lock_acquire.
at(t, where) ==
    /\ ~halted
    /\ location[t] = where
    /\ \A u \in masked \ {t} : location[u] \in {"idle", "acquire"}

goto(t, where) == location' = [location EXCEPT ![t] = where]

\* The first run of n free bits; a run of several may end one bit behind.
runs(bits, total, n) ==
    LET last == IF n = 1 THEN total - 1 ELSE total
    IN  {i \in 0..(total - 1) : i + n - 1 <= last /\ bits \cap i..(i + n - 1) = {}}

\* The lowest of them, or -1
first(bits, total, n) ==
    {i \in -1..(total - 1) :
        IF runs(bits, total, n) = {} THEN i = -1
        ELSE i \in runs(bits, total, n) /\ \A j \in runs(bits, total, n) : i <= j}

\* bitmap_scan (module Bitmap), by t; on a full map its ASSERT fails.
scan_for(t, bits, total, n, next) ==
    IF 0..(total - 1) \subseteq bits /\ ~ndebug
    THEN halted' = TRUE /\ UNCHANGED << bit_idx, location >>
    ELSE /\ \E i \in first(bits, total, n) : bit_idx' = [bit_idx EXCEPT ![t] = i]
         /\ goto(t, next)
         /\ UNCHANGED halted

-----------------------------------------------------------------------------
\* The call of t is over, and its locals are gone.
return(t) ==
    /\ goto(t, "idle")
    /\ call' = [call EXCEPT ![t] = no_call]
    /\ vaddr' = [vaddr EXCEPT ![t] = 0]
    /\ pg_cnt' = [pg_cnt EXCEPT ![t] = 0]
    /\ bit_idx' = [bit_idx EXCEPT ![t] = -1]
    /\ page_phyaddr' = [page_phyaddr EXCEPT ![t] = NotPresent]

enter(t, function, page, n, where) ==
    /\ t \in active
    /\ at(t, "idle")
    /\ holder_repeat_nr[pool_of(t)] < MaxRepeat
    /\ call' = [call EXCEPT ![t] = function]
    /\ vaddr' = [vaddr EXCEPT ![t] = page]
    /\ pg_cnt' = [pg_cnt EXCEPT ![t] = n]
    /\ goto(t, where)
    /\ UNCHANGED << fixed, maps, tables, locks, bit_idx, page_phyaddr, halted >>

get_kernel_page(t, n) == t \in Kernel /\ enter(t, "get_kernel_page", 0, n, "vaddr")

\* Faulty: the pool's lock is not taken.
get_user_pages_unlocked(t, n) == t \in Process /\ enter(t, "get_kernel_page", 0, n, "vaddr")

get_user_pages(t, n) == t \in Process /\ enter(t, "get_user_pages", 0, n, "acquire")

\* A process asks for a page of its own, a kernel thread for one of the heap;
\* anything else is a PANIC.
get_a_page(t, page) == t \notin Kernel /\ enter(t, "get_a_page", page, 1, "acquire")

\* A thread may hold the lock already, from a call that failed.
lock_acquire(t) ==
    LET pool == pool_of(t) IN
    /\ at(t, "acquire")
    /\ holder[pool] \in {nobody, t}
    /\ holder' = [holder EXCEPT ![pool] = t]
    /\ holder_repeat_nr' = [holder_repeat_nr EXCEPT ![pool] = @ + 1]
    /\ goto(t, IF call[t] = "get_a_page" THEN "place" ELSE "vaddr")
    /\ UNCHANGED << fixed, maps, tables, locals, halted >>

\* get_a_page marks its page, whether or not it is mapped already; page 0 fails
\* the ASSERT.
place(t) ==
    /\ at(t, "place")
    /\ IF vaddr[t] = 0 /\ ~ndebug
       THEN halted' = TRUE /\ UNCHANGED << vaddr_bitmap, location >>
       ELSE /\ vaddr_bitmap' = [vaddr_bitmap EXCEPT ![space_of(t)] = @ \cup {vaddr[t]}]
            /\ goto(t, "palloc")
            /\ UNCHANGED halted
    /\ UNCHANGED << fixed, pool_bitmap, tables, locks, locals >>

\* vaddr_get: the scan
vaddr_get(t) ==
    /\ at(t, "vaddr")
    /\ scan_for(t, vaddr_bitmap[space_of(t)], Pages, pg_cnt[t], "reserve")
    /\ UNCHANGED << fixed, maps, tables, locks, call, vaddr, pg_cnt, page_phyaddr >>

\* malloc_page returns NULL.  get_kernel_page passes it on; get_user_pages hands
\* it to memset, whose ASSERT fails, or which writes to address 0; get_a_page
\* passes it on with the lock still held.
fail(t) ==
    /\ IF call[t] = "get_user_pages"
       THEN halted' = TRUE /\ UNCHANGED << location, locals >>
       ELSE return(t) /\ UNCHANGED halted
    /\ UNCHANGED << maps, tables, locks >>

\* vaddr_get: the bits are set
reserve(t) ==
    /\ at(t, "reserve")
    /\ IF bit_idx[t] = -1
       THEN fail(t)
       ELSE /\ vaddr_bitmap' = [vaddr_bitmap EXCEPT ![space_of(t)] =
                                    @ \cup bit_idx[t]..(bit_idx[t] + pg_cnt[t] - 1)]
            /\ vaddr' = [vaddr EXCEPT ![t] = bit_idx[t]]
            /\ goto(t, "palloc")
            /\ bit_idx' = [bit_idx EXCEPT ![t] = -1]
            /\ UNCHANGED << pool_bitmap, tables, locks, call, pg_cnt, page_phyaddr, halted >>
    /\ UNCHANGED fixed

palloc_scan(t) ==
    LET pool == pool_of(t) IN
    /\ at(t, "palloc")
    /\ scan_for(t, pool_bitmap[pool], frames(pool), 1, "take")
    /\ UNCHANGED << fixed, maps, tables, locks, call, vaddr, pg_cnt, page_phyaddr >>

taken(pool, i) == pool_bitmap' = [pool_bitmap EXCEPT ![pool] = @ \cup {i}]

palloc_set(t) ==
    /\ at(t, "take")
    /\ IF bit_idx[t] = -1
       THEN fail(t)
       ELSE /\ taken(pool_of(t), bit_idx[t])
            /\ page_phyaddr' = [page_phyaddr EXCEPT ![t] = << pool_of(t), bit_idx[t] >>]
            /\ bit_idx' = [bit_idx EXCEPT ![t] = -1]
            /\ goto(t, "add")
            /\ UNCHANGED << vaddr_bitmap, tables, locks, call, vaddr, pg_cnt, halted >>
    /\ UNCHANGED fixed

\* page_table_add has mapped the page.
next_page(t) ==
    IF pg_cnt[t] = 1 /\ call[t] = "get_kernel_page" THEN return(t)
    ELSE /\ vaddr' = [vaddr EXCEPT ![t] = @ + 1]
         /\ pg_cnt' = [pg_cnt EXCEPT ![t] = @ - 1]
         /\ goto(t, IF pg_cnt[t] = 1 THEN "release" ELSE "palloc")
         /\ bit_idx' = [bit_idx EXCEPT ![t] = -1]
         /\ page_phyaddr' = [page_phyaddr EXCEPT ![t] = NotPresent]
         /\ UNCHANGED call

PDE_IDX(page) == page \div PerTable

PTE_IDX(page) == page % PerTable

table_of(t) == pde[space_of(t)][PDE_IDX(vaddr[t])]

\* page_table_add: an entry that is present fails an ASSERT, or is a PANIC.
page_table_add(t) ==
    /\ at(t, "add")
    /\ IF table_of(t) = NotPresent
       THEN goto(t, "palloc_table") /\ UNCHANGED << pte, locals, halted >>
       ELSE IF pte[table_of(t)][PTE_IDX(vaddr[t])] # NotPresent
       THEN halted' = TRUE /\ UNCHANGED << pte, location, locals >>
       ELSE /\ pte' = [pte EXCEPT ![table_of(t)][PTE_IDX(vaddr[t])] = page_phyaddr[t]]
            /\ next_page(t)
            /\ UNCHANGED halted
    /\ UNCHANGED << fixed, maps, pde, locks >>

palloc_table_scan(t) ==
    /\ at(t, "palloc_table")
    /\ scan_for(t, pool_bitmap[PF_KERNEL], kernel_frames, 1, "take_table")
    /\ UNCHANGED << fixed, maps, tables, locks, call, vaddr, pg_cnt, page_phyaddr >>

\* Faulty: the table is cleared after the entry was made.
new_table_cleared(t) == [n \in Slot |-> NotPresent]

new_table(t) == [n \in Slot |-> IF n = PTE_IDX(vaddr[t]) THEN page_phyaddr[t] ELSE NotPresent]

\* Nobody tests whether palloc has returned NULL.
palloc_table_set(t) ==
    LET none == bit_idx[t] = -1
        table == IF none THEN low_frame ELSE << PF_KERNEL, bit_idx[t] >>
    IN
    /\ at(t, "take_table")
    /\ IF none THEN UNCHANGED pool_bitmap ELSE taken(PF_KERNEL, bit_idx[t])
    /\ pde' = [pde EXCEPT ![space_of(t)][PDE_IDX(vaddr[t])] = table]
    /\ pte' = [pte EXCEPT ![table] = new_table(t)]
    /\ next_page(t)
    /\ UNCHANGED << fixed, vaddr_bitmap, locks, halted >>

lock_release(t) ==
    LET pool == pool_of(t) IN
    /\ at(t, "release")
    /\ IF holder_repeat_nr[pool] > 1
       THEN UNCHANGED holder
       ELSE holder' = [holder EXCEPT ![pool] = nobody]
    /\ holder_repeat_nr' = [holder_repeat_nr EXCEPT ![pool] = @ - 1]
    /\ return(t)
    /\ UNCHANGED << fixed, maps, tables, halted >>

Call(t) ==
    \/ \E n \in Request : get_kernel_page(t, n) \/ get_user_pages(t, n)
    \/ \E page \in 0..(Pages - 1) : get_a_page(t, page)

Work(t) ==
    \/ lock_acquire(t) \/ place(t) \/ vaddr_get(t) \/ reserve(t)
    \/ palloc_scan(t) \/ palloc_set(t) \/ page_table_add(t)
    \/ palloc_table_scan(t) \/ palloc_table_set(t) \/ lock_release(t)

MemNext == \E t \in Thread : Call(t) \/ Work(t)

MemSpec == MemInit /\ [][MemNext]_memvars

-----------------------------------------------------------------------------
\* What the page tables of a space map a page to
frame_at(s, page) ==
    LET table == pde[s][PDE_IDX(page)]
    IN  IF table = NotPresent THEN NotPresent ELSE pte[table][PTE_IDX(page)]

Mapped == {m \in Space \X Page : frame_at(m[1], m[2]) \notin {NotPresent, stale}}

\* The page directory entries that hold a frame of kernel_pool
Directory == {d \in Process \X Page : pde[d[1]][d[2]] \notin {NotPresent, low_frame}}

\* The threads that have taken a frame and not mapped it yet
Carrier == {t \in Thread : location[t] \in {"add", "palloc_table", "take_table"}}

over_low_frame(m) == pde[m[1]][PDE_IDX(m[2])] = low_frame

\* No frame is handed out twice: it is a page of one address space, or a page
\* table, or on its way there, and its bit is set.  Only when kernel_pool is
\* empty and ASSERT compiled to nothing, processes share their pages through
\* the table that page_table_add then believes to have at address 0.
FramesExact ==
    /\ \A m, n \in Mapped : frame_at(m[1], m[2]) = frame_at(n[1], n[2])
            => m = n \/ (over_low_frame(m) /\ over_low_frame(n))
    /\ \A d, e \in Directory : pde[d[1]][d[2]] = pde[e[1]][e[2]] => d = e
    /\ \A t, u \in Carrier : page_phyaddr[t] = page_phyaddr[u] => t = u
    /\ \A m \in Mapped :
          LET frame == frame_at(m[1], m[2])
          IN  /\ frame[1] = (IF m[1] = PF_KERNEL THEN PF_KERNEL ELSE PF_USER)
              /\ frame[2] \in pool_bitmap[frame[1]]
              /\ \A d \in Directory : frame # pde[d[1]][d[2]]
              /\ \A t \in Carrier : frame # page_phyaddr[t]
    /\ \A d \in Directory :
          /\ pde[d[1]][d[2]][1] = PF_KERNEL
          /\ pde[d[1]][d[2]][2] \in pool_bitmap[PF_KERNEL]
          /\ \A t \in Carrier : pde[d[1]][d[2]] # page_phyaddr[t]

exhausted(pool) == 0..(frames(pool) - 1) \subseteq pool_bitmap[pool]

in_call(s, page) ==
    \E t \in Thread : /\ call[t] # no_call /\ space_of(t) = s
                      /\ page \in vaddr[t]..(vaddr[t] + pg_cnt[t] - 1)

\* Nothing is ever given back, and what a call that fails in the middle leaves
\* behind, reserved pages without frames and a lock that it holds, is lost; but
\* then there was nothing left to be had under that lock.  Until a pool is
\* empty every reserved page is mapped or about to be, every frame that is taken
\* is in use, and a lock is held by a thread that is inside of it.
LeaksOnlyWhenExhausted ==
    /\ \A s \in Space : \A page \in vaddr_bitmap[s] :
          \/ << s, page >> \in Mapped
          \/ in_call(s, page)
          \/ exhausted(PF_KERNEL)
          \/ s # PF_KERNEL /\ exhausted(PF_USER)
    /\ \A pool \in PoolFlag : \A i \in pool_bitmap[pool] :
          \/ \E m \in Mapped : frame_at(m[1], m[2]) = << pool, i >>
          \/ \E d \in Directory : pde[d[1]][d[2]] = << pool, i >>
          \/ \E t \in Carrier : page_phyaddr[t] = << pool, i >>
          \/ exhausted(PF_KERNEL)
    /\ \A pool \in PoolFlag :
          \/ exhausted(pool)
          \/ IF holder[pool] = nobody THEN holder_repeat_nr[pool] = 0
             ELSE /\ holder_repeat_nr[pool] = 1
                  /\ location[holder[pool]] \notin {"idle", "acquire"}

=============================================================================
