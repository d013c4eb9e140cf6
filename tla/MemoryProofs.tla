---------------------------- MODULE MemoryProofs ----------------------------
(***************************************************************************)
(* The memory manager and lib/kernel, for any size.                        *)
(*                                                                         *)
(* The memory manager: with any number of callers that all mask            *)
(* interrupts, or all take the same lock, no frame is handed out twice.    *)
(*                                                                         *)
(* lib/kernel and the pools: bitmap_scan finds the first run of free bits  *)
(* among those it looks at, whatever its neighbours do; the pools' frames  *)
(* and bitmaps never overlap; the pointers of list.c link sequences, and   *)
(* its operations are those on sequences.                                  *)
(***************************************************************************)
EXTENDS Memory, Bitmap, MemPool, LinkedList, Induction, SequenceTheorems

-----------------------------------------------------------------------------
\* The memory manager

Frame == PoolFlag \X Nat

Where == {"idle", "acquire", "place", "vaddr", "reserve", "palloc", "take", "add",
          "palloc_table", "take_table", "release"}

Function == {no_call, "get_kernel_page", "get_user_pages", "get_a_page"}

LEMMA Pools ==
    /\ PF_KERNEL \in PoolFlag /\ PF_USER \in PoolFlag /\ PF_KERNEL # PF_USER
    /\ PF_KERNEL \in Space /\ PF_KERNEL \notin Process /\ Process \subseteq Space
    /\ \A t \in Thread : pool_of(t) \in PoolFlag /\ space_of(t) \in Space
    /\ kernel_frames \in Nat /\ user_frames \in Nat
    /\ \A pool \in PoolFlag : frames(pool) \in Nat
    /\ Pages \in Nat /\ nobody \notin Thread
BY SMT, MemoryAssumption DEF PF_KERNEL, PF_USER, PoolFlag, Space, pool_of, space_of, frames

LEMMA KindsDiffer ==
    /\ NotPresent \notin Frame /\ stale \notin Frame /\ low_frame \notin Frame
    /\ NotPresent \notin Table /\ low_frame \in Table /\ low_frame # NotPresent
    /\ \A n \in Page : /\ loader_table(n) \in Table /\ loader_table(n) \notin Frame
                       /\ loader_table(n)[1] = "loader"
    /\ \A m, n \in Page : loader_table(m) = loader_table(n) => m = n
    /\ low_frame[1] # "loader"
    /\ \A f \in Frame : f[1] # "loader"
    /\ \A i \in 0..(kernel_frames - 1) : << PF_KERNEL, i >> \in Table \cap Frame
BY SMT, Pools DEF Frame, PoolFlag, PF_KERNEL, PF_USER, NotPresent, stale, low_frame,
       Table, loader_table

\* The two indices say which page it is.
LEMMA Indices ==
    /\ \A page \in Page : PDE_IDX(page) \in Page /\ PTE_IDX(page) \in Slot
    /\ \A p, q \in Page : PDE_IDX(p) = PDE_IDX(q) /\ PTE_IDX(p) = PTE_IDX(q) => p = q
<1>1. ASSUME NEW page \in Page
      PROVE  /\ PDE_IDX(page) \in Page /\ PTE_IDX(page) \in Slot
             /\ page = PerTable * PDE_IDX(page) + PTE_IDX(page)
  <2>1. page \in Nat /\ page <= Pages /\ Pages \in Nat /\ PerTable \in Nat /\ PerTable > 0
    BY SMT, Pools, MemoryAssumption DEF Page
  <2>2. /\ page \div PerTable \in Nat /\ page \div PerTable <= page
        /\ page % PerTable \in 0..(PerTable - 1)
        /\ page = PerTable * (page \div PerTable) + (page % PerTable)
    BY SMT, <2>1
  <2> QED
    BY SMT, <2>1, <2>2 DEF Page, Slot, PDE_IDX, PTE_IDX
<1> QED
  BY <1>1

-----------------------------------------------------------------------------
MemTypeOK ==
    /\ masked \subseteq active /\ active \subseteq Thread
    /\ pool_bitmap \in [PoolFlag -> SUBSET Nat]
    /\ pde \in [Space -> [Page -> Table \cup {NotPresent}]]
    /\ pte \in [Table -> [Slot -> Frame \cup {NotPresent, stale}]]
    /\ holder \in [PoolFlag -> Thread \cup {nobody}]
    /\ location \in [Thread -> Where]
    /\ call \in [Thread -> Function]
    /\ vaddr \in [Thread -> Int]
    /\ pg_cnt \in [Thread -> Int]
    /\ bit_idx \in [Thread -> Int]
    /\ page_phyaddr \in [Thread -> Frame \cup {NotPresent}]

working(t) == location[t] \notin {"idle", "acquire"}

\* What keeps two threads from being past the lock at the same time
Exclusion ==
    /\ \A t \in Thread : location[t] # "idle" => t \in active
    /\ \A t \in Thread : working(t) /\ t \notin Kernel => holder[pool_of(t)] = t
    /\ \A t, u \in masked : working(t) /\ working(u) => t = u
    /\ Disciplined

\* A bit that a scan has found and nobody has set yet
found(t, pool) ==
    bit_idx[t] # -1 => bit_idx[t] \in 0..(frames(pool) - 1) \ pool_bitmap[pool]

\* How far a thread has come with its pages, and what its last scan is worth
LocalOK(t) ==
    /\ location[t] = "acquire" =>
          /\ pg_cnt[t] >= 1
          /\ call[t] = "get_a_page" => vaddr[t] \in 0..(Pages - 1) /\ pg_cnt[t] = 1
    /\ location[t] = "place" => vaddr[t] \in 0..(Pages - 1) /\ pg_cnt[t] = 1
    /\ location[t] \in {"vaddr", "reserve"} => pg_cnt[t] >= 1
    /\ location[t] = "reserve" /\ bit_idx[t] # -1 =>
          bit_idx[t] >= 0 /\ bit_idx[t] + pg_cnt[t] - 1 <= Pages
    /\ location[t] \in {"palloc", "take", "add", "palloc_table", "take_table"} =>
          pg_cnt[t] >= 1 /\ vaddr[t] >= 0 /\ vaddr[t] + pg_cnt[t] - 1 <= Pages
    /\ location[t] = "take" => found(t, pool_of(t))
    /\ location[t] \in {"palloc_table", "take_table"} =>
          t \in Process /\ table_of(t) = NotPresent
    /\ location[t] = "take_table" => found(t, PF_KERNEL)

\* The frames in the page tables
EntriesExact ==
    \A a \in Table, i \in Slot : pte[a][i] \in Frame =>
        /\ pte[a][i][1] = (IF a[1] = "loader" THEN PF_KERNEL ELSE PF_USER)
        /\ pte[a][i][2] \in pool_bitmap[pte[a][i][1]]
        /\ \A b \in Table, j \in Slot : pte[a][i] = pte[b][j] => a = b /\ i = j

\* The frames that are page tables
DirectoriesExact ==
    /\ \A n \in Page : pde[PF_KERNEL][n] = loader_table(n)
    /\ \A p \in Process, n \in Page :
          \/ pde[p][n] \in {NotPresent, low_frame}
          \/ /\ pde[p][n] \in Frame /\ pde[p][n][1] = PF_KERNEL
             /\ pde[p][n][2] \in pool_bitmap[PF_KERNEL]
             /\ \A q \in Process, m \in Page : pde[p][n] = pde[q][m] => p = q /\ n = m
             /\ \A a \in Table, i \in Slot : pte[a][i] # pde[p][n]

\* The frame that is on its way
CarriedExact ==
    \A t \in Carrier :
        /\ page_phyaddr[t] \in Frame /\ page_phyaddr[t][1] = pool_of(t)
        /\ page_phyaddr[t][2] \in pool_bitmap[pool_of(t)]
        /\ \A a \in Table, i \in Slot : pte[a][i] # page_phyaddr[t]
        /\ \A p \in Process, n \in Page : pde[p][n] # page_phyaddr[t]

FramesInv == EntriesExact /\ DirectoriesExact /\ CarriedExact

MemInv ==
    /\ MemTypeOK
    /\ Exclusion
    /\ \A t \in Thread : LocalOK(t)
    /\ FramesInv

-----------------------------------------------------------------------------
\* Whoever is past the lock is alone there: masked callers, or one lock for all
LEMMA Alone ==
    ASSUME MemTypeOK, Exclusion, NEW t \in Thread, NEW u \in Thread, working(t), working(u)
    PROVE  t = u
<1>1. t \in active /\ u \in active
  BY SMT DEF Exclusion, working
<1>2. PICK g \in {"interrupts"} \cup PoolFlag : \A v \in active : g \in guards(v)
  BY SMT DEF Exclusion, Disciplined
<1>3. g \in guards(t) /\ g \in guards(u)
  BY <1>1, <1>2
<1>4. CASE g = "interrupts"
  <2>1. t \in masked /\ u \in masked
    BY SMT, <1>3, <1>4 DEF guards, PF_KERNEL, PF_USER
  <2> QED
    BY SMT, <2>1 DEF Exclusion
<1>5. CASE g = PF_USER
  <2>1. t \in Process /\ u \in Process
    BY SMT, <1>3, <1>5 DEF guards, PF_KERNEL, PF_USER
  <2>2. t \notin Kernel /\ u \notin Kernel /\ pool_of(t) = PF_USER /\ pool_of(u) = PF_USER
    BY SMT, <2>1, MemoryAssumption DEF pool_of
  <2> QED
    BY SMT, <2>2 DEF Exclusion
<1>6. CASE g = PF_KERNEL
  <2>1. t \in Placer /\ u \in Placer
    BY SMT, <1>3, <1>6 DEF guards, PF_KERNEL, PF_USER
  <2>2. t \notin Kernel /\ u \notin Kernel /\ pool_of(t) = PF_KERNEL /\ pool_of(u) = PF_KERNEL
    BY SMT, <2>1, MemoryAssumption DEF pool_of
  <2> QED
    BY SMT, <2>2 DEF Exclusion
<1> QED
  BY SMT, <1>2, <1>4, <1>5, <1>6 DEF PoolFlag

LEMMA MemInitInv == MemInit => MemInv
<1> SUFFICES ASSUME MemInit PROVE MemInv
  OBVIOUS
<1>1. MemTypeOK
  <2>1. \A n \in Page : loader_table(n) \in Table
    BY KindsDiffer
  <2> QED
    BY SMT, <2>1, Pools DEF MemInit, MemTypeOK, Where, Function, no_call
<1>2. Exclusion /\ Carrier = {}
  BY SMT DEF MemInit, Exclusion, working, Carrier
<1>3. ASSUME NEW t \in Thread PROVE LocalOK(t)
  BY SMT, <1>3 DEF MemInit, LocalOK
<1>4. EntriesExact
  <2>1. ASSUME NEW a \in Table, NEW i \in Slot PROVE pte[a][i] \in {NotPresent, stale}
    BY SMT DEF MemInit
  <2> QED
    BY SMT, <2>1, KindsDiffer DEF EntriesExact
<1>5. DirectoriesExact
  BY SMT, Pools DEF MemInit, DirectoriesExact
<1> QED
  BY SMT, <1>1, <1>2, <1>3, <1>4, <1>5 DEF MemInv, FramesInv, CarriedExact

-----------------------------------------------------------------------------
\* What bitmap_scan may return
LEMMA Scanned ==
    ASSUME NEW t \in Thread, NEW held, NEW limit \in Nat, NEW n \in Int, n >= 1, NEW then,
           bit_idx \in [Thread -> Int], location \in [Thread -> Where], then \in Where,
           scan_for(t, held, limit, n, then)
    PROVE  \/ halted' = TRUE /\ bit_idx' = bit_idx /\ location' = location
           \/ /\ bit_idx' \in [Thread -> Int] /\ location' \in [Thread -> Where]
              /\ location' = [location EXCEPT ![t] = then]
              /\ \A u \in Thread \ {t} : bit_idx'[u] = bit_idx[u]
              /\ bit_idx'[t] # -1 => /\ bit_idx'[t] \in 0..(limit - 1) \ held
                                     /\ n = 1 => bit_idx'[t] + n - 1 <= limit - 1
                                     /\ bit_idx'[t] + n - 1 <= limit
<1>1. CASE 0..(limit - 1) \subseteq held /\ ~ndebug
  BY SMT, <1>1 DEF scan_for
<1>2. CASE ~(0..(limit - 1) \subseteq held /\ ~ndebug)
  <2>1. PICK i \in first(held, limit, n) : bit_idx' = [bit_idx EXCEPT ![t] = i]
    BY SMT, <1>2 DEF scan_for
  <2>2. location' = [location EXCEPT ![t] = then]
    BY SMT, <1>2 DEF scan_for, goto
  <2>3. i \in -1..(limit - 1) /\ (i # -1 => i \in runs(held, limit, n))
    BY SMT, <2>1 DEF first
  <2>4. i # -1 => /\ i \in 0..(limit - 1) \ held
                  /\ i + n - 1 <= (IF n = 1 THEN limit - 1 ELSE limit)
    <3> SUFFICES ASSUME i # -1
                 PROVE  i \in 0..(limit - 1) \ held /\ i + n - 1 <= (IF n = 1 THEN limit - 1 ELSE limit)
      OBVIOUS
    <3>1. /\ i \in 0..(limit - 1) /\ held \cap i..(i + n - 1) = {}
          /\ i + n - 1 <= (IF n = 1 THEN limit - 1 ELSE limit)
      BY SMT, <2>3 DEF runs
    <3>2. i \in i..(i + n - 1)
      BY SMT, <3>1
    <3> QED
      BY SMT, <3>1, <3>2
  <2> QED
    BY SMT, <2>1, <2>2, <2>3, <2>4
<1> QED
  BY <1>1, <1>2

\* The locals of a thread that another one leaves alone
Same(u) ==
    /\ location'[u] = location[u] /\ call'[u] = call[u] /\ vaddr'[u] = vaddr[u]
    /\ pg_cnt'[u] = pg_cnt[u] /\ bit_idx'[u] = bit_idx[u]
    /\ page_phyaddr'[u] = page_phyaddr[u]

LEMMA OthersKept ==
    ASSUME MemInv, NEW t \in Thread, NEW u \in Thread, u # t, Same(u),
           working(t) \/ UNCHANGED << pool_bitmap, pde >>
    PROVE  LocalOK(u)'
<1>1. LocalOK(u)
  BY DEF MemInv
<1>2. CASE working(t)
  <2>1. location[u] \in {"idle", "acquire"}
    BY SMT, <1>2, Alone DEF MemInv, working
  <2> QED
    BY SMT, <1>1, <2>1 DEF LocalOK, Same
<1>3. CASE UNCHANGED << pool_bitmap, pde >>
  BY SMT, <1>1, <1>3 DEF LocalOK, Same, found, table_of
<1> QED
  BY <1>2, <1>3

\* A step that touches neither the bits of the pools nor the tables
LEMMA FramesKept ==
    ASSUME FramesInv, UNCHANGED << pool_bitmap, pde, pte >>,
           Carrier' \subseteq Carrier, \A u \in Carrier' : page_phyaddr'[u] = page_phyaddr[u]
    PROVE  FramesInv'
<1>1. EntriesExact'
  BY SMT DEF FramesInv, EntriesExact
<1>2. DirectoriesExact'
  BY SMT DEF FramesInv, DirectoriesExact
<1>3. CarriedExact'
  BY SMT DEF FramesInv, CarriedExact
<1> QED
  BY <1>1, <1>2, <1>3 DEF FramesInv

\* A thread that is past the lock, and keeps it, may go where it likes.
LEMMA ExclusionKept ==
    ASSUME MemInv, NEW t \in Thread, working(t), UNCHANGED << fixed, holder >>,
           \A u \in Thread \ {t} : location'[u] = location[u]
    PROVE  Exclusion'
<1>1. Exclusion /\ masked \subseteq Thread
  BY DEF MemInv, MemTypeOK
<1>2. \A u \in Thread : location'[u] # "idle" => u \in active
  BY SMT, <1>1 DEF Exclusion, working
<1>3. ASSUME NEW u \in Thread, working(u)', u \notin Kernel PROVE holder[pool_of(u)] = u
  <2>1. working(u)
    BY SMT, <1>3 DEF working
  <2> QED
    BY SMT, <1>1, <1>3, <2>1 DEF Exclusion
<1>4. ASSUME NEW u \in masked, NEW v \in masked, working(u)', working(v)' PROVE u = v
  <2>1. working(u) /\ working(v)
    BY SMT, <1>1, <1>4 DEF working
  <2> QED
    BY SMT, <1>1, <2>1 DEF Exclusion
<1>5. Disciplined' /\ masked' = masked /\ active' = active
  <2>1. masked' = masked /\ active' = active
    BY SMT DEF fixed
  <2> QED
    BY SMT, <1>1, <2>1 DEF Exclusion, Disciplined, guards
<1>6. holder' = holder
  BY SMT
<1> QED
  BY SMT, <1>2, <1>3, <1>4, <1>5, <1>6 DEF Exclusion

-----------------------------------------------------------------------------
\* The locals of all threads have their types.
LocalTypes ==
    /\ location \in [Thread -> Where]
    /\ call \in [Thread -> Function]
    /\ vaddr \in [Thread -> Int]
    /\ pg_cnt \in [Thread -> Int]
    /\ bit_idx \in [Thread -> Int]
    /\ page_phyaddr \in [Thread -> Frame \cup {NotPresent}]

\* All that is left to show of a step that takes no frame and maps none
LEMMA QuietStep ==
    ASSUME MemInv, NEW t \in Thread,
           UNCHANGED << fixed, pool_bitmap, tables >>,
           holder' \in [PoolFlag -> Thread \cup {nobody}],
           LocalTypes', Exclusion', LocalOK(t)',
           \A u \in Thread \ {t} : Same(u),
           t \in Carrier' => t \in Carrier /\ page_phyaddr'[t] = page_phyaddr[t]
    PROVE  MemInv'
<1>1. MemTypeOK'
  BY SMT DEF MemInv, MemTypeOK, LocalTypes, fixed, tables
<1>2. ASSUME NEW u \in Thread PROVE LocalOK(u)'
  <2>1. CASE u = t
    BY <2>1
  <2>2. CASE u # t
    <3>1. Same(u) /\ UNCHANGED << pool_bitmap, pde >>
      BY SMT, <2>2 DEF tables
    <3> QED
      BY <2>2, <3>1, OthersKept
  <2> QED
    BY <2>1, <2>2
<1>3. FramesInv'
  <2>1. ASSUME NEW u \in Carrier' PROVE u \in Carrier /\ page_phyaddr'[u] = page_phyaddr[u]
    <3>1. u \in Thread
      BY DEF Carrier
    <3>2. CASE u = t
      BY <2>1, <3>2
    <3>3. CASE u # t
      <4>1. Same(u)
        BY <3>1, <3>3
      <4> QED
        BY SMT, <2>1, <3>1, <4>1 DEF Carrier, Same
    <3> QED
      BY <3>2, <3>3
  <2>2. UNCHANGED << pool_bitmap, pde, pte >> /\ FramesInv
    BY SMT DEF tables, MemInv
  <2> QED
    BY <2>1, <2>2, FramesKept
<1> QED
  BY <1>1, <1>2, <1>3 DEF MemInv

LEMMA Returned ==
    ASSUME MemInv, NEW t \in Thread, return(t)
    PROVE  /\ LocalTypes' /\ location'[t] = "idle" /\ LocalOK(t)' /\ t \notin Carrier'
           /\ \A u \in Thread \ {t} : Same(u)
<1>1. LocalTypes
  BY SMT DEF MemInv, MemTypeOK, LocalTypes
<1>2. /\ location' = [location EXCEPT ![t] = "idle"]
      /\ call' = [call EXCEPT ![t] = no_call]
      /\ vaddr' = [vaddr EXCEPT ![t] = 0]
      /\ pg_cnt' = [pg_cnt EXCEPT ![t] = 0]
      /\ bit_idx' = [bit_idx EXCEPT ![t] = -1]
      /\ page_phyaddr' = [page_phyaddr EXCEPT ![t] = NotPresent]
  BY SMT DEF return, goto
<1>3. LocalTypes' /\ location'[t] = "idle"
  BY SMT, <1>1, <1>2 DEF LocalTypes, Where, Function
<1>4. \A u \in Thread \ {t} : Same(u)
  BY SMT, <1>1, <1>2 DEF LocalTypes, Same
<1>5. LocalOK(t)' /\ t \notin Carrier'
  BY SMT, <1>3 DEF LocalOK, Carrier
<1> QED
  BY <1>3, <1>4, <1>5

LEMMA CallKeeps ==
    ASSUME MemInv, NEW t \in Thread, Call(t)
    PROVE  MemInv'
<1>1. PICK function \in Function, page \in Int, n \in Int, where \in {"vaddr", "acquire"} :
         /\ enter(t, function, page, n, where)
         /\ n >= 1
         /\ where = "vaddr" => t \in Kernel
         /\ function = "get_a_page" => page \in 0..(Pages - 1) /\ n = 1
  <2>1. ASSUME NEW n \in Request, get_kernel_page(t, n) \/ get_user_pages(t, n)
        PROVE  \E function \in Function, page \in Int, m \in Int, where \in {"vaddr", "acquire"} :
                  /\ enter(t, function, page, m, where)
                  /\ m >= 1
                  /\ where = "vaddr" => t \in Kernel
                  /\ function = "get_a_page" => page \in 0..(Pages - 1) /\ m = 1
    <3>1. n \in Int /\ n >= 1
      BY SMT, MemoryAssumption
    <3>2. CASE get_kernel_page(t, n)
      BY SMT, <3>1, <3>2 DEF get_kernel_page, Function
    <3>3. CASE get_user_pages(t, n)
      BY SMT, <3>1, <3>3 DEF get_user_pages, Function
    <3> QED
      BY <2>1, <3>2, <3>3
  <2>2. ASSUME NEW page \in 0..(Pages - 1), get_a_page(t, page)
        PROVE  \E function \in Function, p \in Int, m \in Int, where \in {"vaddr", "acquire"} :
                  /\ enter(t, function, p, m, where)
                  /\ m >= 1
                  /\ where = "vaddr" => t \in Kernel
                  /\ function = "get_a_page" => p \in 0..(Pages - 1) /\ m = 1
    BY SMT, <2>2, Pools DEF get_a_page, Function
  <2> QED
    BY <2>1, <2>2 DEF Call
<1>2. LocalTypes /\ Exclusion /\ masked \subseteq Thread
  BY SMT DEF MemInv, MemTypeOK, LocalTypes
<1>3. /\ t \in active /\ location[t] = "idle"
      /\ \A u \in masked \ {t} : location[u] \in {"idle", "acquire"}
      /\ location' = [location EXCEPT ![t] = where]
      /\ call' = [call EXCEPT ![t] = function]
      /\ vaddr' = [vaddr EXCEPT ![t] = page]
      /\ pg_cnt' = [pg_cnt EXCEPT ![t] = n]
      /\ UNCHANGED << fixed, pool_bitmap, tables, holder, bit_idx, page_phyaddr >>
  BY SMT, <1>1 DEF enter, at, goto, maps, locks
<1>4. LocalTypes' /\ location'[t] = where /\ call'[t] = function /\ vaddr'[t] = page /\ pg_cnt'[t] = n
  BY SMT, <1>1, <1>2, <1>3 DEF LocalTypes, Where
<1>5. \A u \in Thread \ {t} : Same(u)
  BY SMT, <1>2, <1>3 DEF LocalTypes, Same
<1>6. Exclusion'
  <2>1. \A u \in Thread : location'[u] # "idle" => u \in active
    BY SMT, <1>2, <1>3, <1>5 DEF Exclusion, Same
  <2>2. ASSUME NEW u \in Thread, working(u)', u \notin Kernel PROVE holder[pool_of(u)] = u
    <3>1. u # t
      BY SMT, <1>1, <1>4, <2>2 DEF working
    <3>2. working(u)
      BY SMT, <1>5, <2>2, <3>1 DEF working, Same
    <3> QED
      BY SMT, <1>2, <2>2, <3>2 DEF Exclusion
  <2>3. ASSUME NEW u \in masked, NEW v \in masked, working(u)', working(v)' PROVE u = v
    <3>1. ASSUME NEW w \in masked, w # t PROVE ~working(w)'
      BY SMT, <1>2, <1>3, <1>5, <3>1 DEF working, Same
    <3> QED
      BY <2>3, <3>1
  <2>4. Disciplined'
    BY SMT, <1>2, <1>3 DEF Exclusion, Disciplined, guards, fixed
  <2> QED
    BY SMT, <1>3, <2>1, <2>2, <2>3, <2>4 DEF Exclusion, fixed
<1>7. LocalOK(t)' /\ t \notin Carrier'
  BY SMT, <1>1, <1>4 DEF LocalOK, Carrier
<1> QED
  <2>1. holder' \in [PoolFlag -> Thread \cup {nobody}]
    BY SMT, <1>3 DEF MemInv, MemTypeOK
  <2> QED
    BY <1>3, <1>4, <1>5, <1>6, <1>7, <2>1, QuietStep

LEMMA AcquireKeeps ==
    ASSUME MemInv, NEW t \in Thread, lock_acquire(t)
    PROVE  MemInv'
<1> DEFINE pool == pool_of(t)
           then == IF call[t] = "get_a_page" THEN "place" ELSE "vaddr"
<1>1. LocalTypes /\ Exclusion /\ LocalOK(t) /\ masked \subseteq Thread /\ masked \subseteq active
  BY SMT DEF MemInv, MemTypeOK, LocalTypes
<1>2. /\ location[t] = "acquire"
      /\ \A u \in masked \ {t} : location[u] \in {"idle", "acquire"}
      /\ holder[pool] \in {nobody, t}
      /\ holder' = [holder EXCEPT ![pool] = t]
      /\ location' = [location EXCEPT ![t] = then]
      /\ UNCHANGED << fixed, pool_bitmap, tables, call, vaddr, pg_cnt, bit_idx, page_phyaddr >>
  BY SMT DEF lock_acquire, at, goto, maps, locals
<1>3. holder \in [PoolFlag -> Thread \cup {nobody}] /\ pool \in PoolFlag /\ nobody \notin Thread
  BY SMT, Pools DEF MemInv, MemTypeOK
<1>4. holder' \in [PoolFlag -> Thread \cup {nobody}] /\ holder'[pool] = t
  BY SMT, <1>2, <1>3
<1>5. LocalTypes' /\ location'[t] = then
  BY SMT, <1>1, <1>2 DEF LocalTypes, Where
<1>6. \A u \in Thread \ {t} : Same(u)
  BY SMT, <1>1, <1>2 DEF LocalTypes, Same
<1>7. Exclusion'
  <2>1. \A u \in Thread : location'[u] # "idle" => u \in active
    BY SMT, <1>1, <1>2, <1>6 DEF Exclusion, Same
  <2>2. ASSUME NEW u \in Thread, working(u)', u \notin Kernel PROVE holder'[pool_of(u)] = u
    <3>1. CASE u = t
      BY SMT, <1>4, <3>1
    <3>2. CASE u # t
      <4>1. working(u)
        BY SMT, <1>6, <2>2, <3>2 DEF working, Same
      <4>2. holder[pool_of(u)] = u
        BY SMT, <1>1, <2>2, <4>1 DEF Exclusion
      <4>3. pool_of(u) # pool
        BY SMT, <1>2, <1>3, <3>2, <4>2
      <4> QED
        BY SMT, <1>2, <1>3, <4>2, <4>3, Pools
    <3> QED
      BY <3>1, <3>2
  <2>3. ASSUME NEW u \in masked, NEW v \in masked, working(u)', working(v)' PROVE u = v
    <3>1. ASSUME NEW w \in masked, w # t PROVE ~working(w)'
      BY SMT, <1>1, <1>2, <1>6, <3>1 DEF working, Same
    <3> QED
      BY <2>3, <3>1
  <2>4. Disciplined'
    BY SMT, <1>1, <1>2 DEF Exclusion, Disciplined, guards, fixed
  <2> QED
    BY SMT, <1>2, <2>1, <2>2, <2>3, <2>4 DEF Exclusion, fixed
<1>8. LocalOK(t)' /\ t \notin Carrier'
  BY SMT, <1>1, <1>2, <1>5 DEF LocalOK, Carrier
<1> QED
  BY <1>2, <1>4, <1>5, <1>6, <1>7, <1>8, QuietStep

LEMMA PlaceKeeps ==
    ASSUME MemInv, NEW t \in Thread, place(t)
    PROVE  MemInv'
<1>1. LocalTypes /\ LocalOK(t)
  BY SMT DEF MemInv, MemTypeOK, LocalTypes
<1>2. /\ location[t] = "place"
      /\ location' = location \/ location' = [location EXCEPT ![t] = "palloc"]
      /\ UNCHANGED << fixed, pool_bitmap, tables, holder, locals >>
  BY SMT DEF place, at, goto, locks
<1>3. LocalTypes' /\ location'[t] \in {"place", "palloc"}
  BY SMT, <1>1, <1>2 DEF LocalTypes, Where, locals
<1>4. \A u \in Thread \ {t} : Same(u)
  BY SMT, <1>1, <1>2 DEF LocalTypes, Same, locals
<1>5. Exclusion'
  <2>1. working(t) /\ UNCHANGED << fixed, holder >> /\ \A u \in Thread \ {t} : location'[u] = location[u]
    BY SMT, <1>2, <1>4 DEF working, Same
  <2> QED
    BY <2>1, ExclusionKept
<1>6. LocalOK(t)' /\ t \notin Carrier'
  BY SMT, <1>1, <1>2, <1>3, Pools DEF LocalOK, Carrier, locals
<1>7. holder' \in [PoolFlag -> Thread \cup {nobody}] /\ UNCHANGED << fixed, pool_bitmap, tables >>
  BY SMT, <1>2 DEF MemInv, MemTypeOK
<1> QED
  BY <1>3, <1>4, <1>5, <1>6, <1>7, QuietStep

\* The scans: where from and where to, in which map
LEMMA ScanKeeps ==
    ASSUME MemInv, NEW t \in Thread, NEW where \in Where, NEW then \in Where,
           NEW held, NEW limit \in Nat, NEW n \in Int, n >= 1,
           location[t] = where, where \notin {"idle", "acquire"},
           scan_for(t, held, limit, n, then),
           UNCHANGED << fixed, maps, tables, locks, call, vaddr, pg_cnt, page_phyaddr >>,
           where \in {"palloc_table", "take_table"} <=> then \in {"palloc_table", "take_table"},
           then \notin {"idle", "acquire", "add"},
           ASSUME /\ location'[t] = then /\ location' \in [Thread -> Where]
                  /\ bit_idx'[t] \in Int
                  /\ bit_idx'[t] # -1 => /\ bit_idx'[t] \in 0..(limit - 1) \ held
                                         /\ bit_idx'[t] + n - 1 <= limit
           PROVE  LocalOK(t)'
    PROVE  MemInv'
<1>1. LocalTypes /\ LocalOK(t)
  BY SMT DEF MemInv, MemTypeOK, LocalTypes
<1>2. holder' \in [PoolFlag -> Thread \cup {nobody}] /\ UNCHANGED << fixed, pool_bitmap, pde, tables, holder >>
  BY SMT DEF MemInv, MemTypeOK, maps, locks, tables
<1>3. bit_idx \in [Thread -> Int] /\ location \in [Thread -> Where]
  BY SMT, <1>1 DEF LocalTypes
<1> DEFINE stays == bit_idx' = bit_idx /\ location' = location
           goes == /\ bit_idx' \in [Thread -> Int] /\ location' \in [Thread -> Where]
                   /\ location' = [location EXCEPT ![t] = then]
                   /\ \A u \in Thread \ {t} : bit_idx'[u] = bit_idx[u]
                   /\ bit_idx'[t] # -1 => /\ bit_idx'[t] \in 0..(limit - 1) \ held
                                          /\ n = 1 => bit_idx'[t] + n - 1 <= limit - 1
                                          /\ bit_idx'[t] + n - 1 <= limit
<1>4. stays \/ goes
  BY <1>3, Scanned
<1>5. LocalTypes'
  <2>1. location' \in [Thread -> Where] /\ bit_idx' \in [Thread -> Int]
    BY SMT, <1>3, <1>4
  <2> QED
    BY SMT, <1>1, <2>1 DEF LocalTypes
<1>6. \A u \in Thread \ {t} : Same(u)
  <2>1. \A u \in Thread \ {t} : location'[u] = location[u] /\ bit_idx'[u] = bit_idx[u]
    BY SMT, <1>3, <1>4
  <2> QED
    BY SMT, <2>1 DEF Same
<1>7. LocalOK(t)'
  <2>1. CASE stays
    BY SMT, <1>1, <1>2, <2>1 DEF LocalOK, found, table_of
  <2>2. CASE goes
    <3>1. location'[t] = then /\ bit_idx'[t] \in Int
      BY SMT, <1>3, <2>2
    <3> QED
      BY <2>2, <3>1
  <2> QED
    BY <1>4, <2>1, <2>2
<1>8. Exclusion'
  <2>1. working(t) /\ UNCHANGED << fixed, holder >> /\ \A u \in Thread \ {t} : location'[u] = location[u]
    BY SMT, <1>2, <1>6 DEF working, Same
  <2> QED
    BY <2>1, ExclusionKept
<1>9. t \in Carrier' => t \in Carrier /\ page_phyaddr'[t] = page_phyaddr[t]
  <2>1. location'[t] = location[t] \/ location'[t] = then
    BY SMT, <1>3, <1>4
  <2> QED
    BY SMT, <2>1 DEF Carrier
<1> QED
  BY <1>2, <1>5, <1>6, <1>7, <1>8, <1>9, QuietStep

LEMMA VaddrGetKeeps ==
    ASSUME MemInv, NEW t \in Thread, vaddr_get(t)
    PROVE  MemInv'
<1> DEFINE held == vaddr_bitmap[space_of(t)]
           n == pg_cnt[t]
<1>1. LocalTypes /\ LocalOK(t)
  BY SMT DEF MemInv, MemTypeOK, LocalTypes
<1>2. /\ location[t] = "vaddr" /\ n \in Int /\ n >= 1 /\ Pages \in Nat
      /\ scan_for(t, held, Pages, n, "reserve")
      /\ UNCHANGED << fixed, maps, tables, locks, call, vaddr, pg_cnt, page_phyaddr >>
  BY SMT, <1>1, Pools DEF vaddr_get, at, LocalTypes, LocalOK
<1>3. ASSUME location'[t] = "reserve", location' \in [Thread -> Where], bit_idx'[t] \in Int,
             bit_idx'[t] # -1 => /\ bit_idx'[t] \in 0..(Pages - 1) \ held
                                 /\ bit_idx'[t] + n - 1 <= Pages
      PROVE  LocalOK(t)'
  BY SMT, <1>2, <1>3 DEF LocalOK
<1> HIDE DEF held, n
<1> QED
  BY <1>2, <1>3, ScanKeeps, ZenonT(30) DEF Where

LEMMA PallocScanKeeps ==
    ASSUME MemInv, NEW t \in Thread, palloc_scan(t)
    PROVE  MemInv'
<1> DEFINE held == pool_bitmap[pool_of(t)]
           limit == frames(pool_of(t))
<1>1. LocalTypes /\ LocalOK(t)
  BY SMT DEF MemInv, MemTypeOK, LocalTypes
<1>2. /\ location[t] = "palloc" /\ limit \in Nat
      /\ scan_for(t, held, limit, 1, "take")
      /\ UNCHANGED << fixed, maps, tables, locks, call, vaddr, pg_cnt, page_phyaddr >>
  BY SMT, Pools DEF palloc_scan, at
<1>3. ASSUME location'[t] = "take", location' \in [Thread -> Where], bit_idx'[t] \in Int,
             bit_idx'[t] # -1 => bit_idx'[t] \in 0..(limit - 1) \ held
      PROVE  LocalOK(t)'
  BY SMT, <1>1, <1>2, <1>3 DEF LocalOK, found, maps
<1> HIDE DEF held, limit
<1> QED
  <2>1. 1 \in Int /\ 1 >= 1
    BY SMT
  <2> QED
    BY <1>2, <1>3, <2>1, ScanKeeps, ZenonT(30) DEF Where

LEMMA PallocTableScanKeeps ==
    ASSUME MemInv, NEW t \in Thread, palloc_table_scan(t)
    PROVE  MemInv'
<1> DEFINE held == pool_bitmap[PF_KERNEL]
<1>1. LocalTypes /\ LocalOK(t)
  BY SMT DEF MemInv, MemTypeOK, LocalTypes
<1>2. /\ location[t] = "palloc_table" /\ kernel_frames \in Nat
      /\ scan_for(t, held, kernel_frames, 1, "take_table")
      /\ UNCHANGED << fixed, maps, tables, locks, call, vaddr, pg_cnt, page_phyaddr >>
  BY SMT, Pools DEF palloc_table_scan, at
<1>3. ASSUME location'[t] = "take_table", location' \in [Thread -> Where], bit_idx'[t] \in Int,
             bit_idx'[t] # -1 => bit_idx'[t] \in 0..(kernel_frames - 1) \ held
      PROVE  LocalOK(t)'
  BY SMT, <1>1, <1>2, <1>3 DEF LocalOK, found, frames, maps, tables, table_of
<1> HIDE DEF held
<1> QED
  <2>1. 1 \in Int /\ 1 >= 1
    BY SMT
  <2> QED
    BY <1>2, <1>3, <2>1, ScanKeeps DEF Where

\* A call that fails, by a thread that carries no frame
LEMMA FailKeeps ==
    ASSUME MemInv, NEW t \in Thread, working(t), t \notin Carrier,
           fail(t), UNCHANGED fixed
    PROVE  MemInv'
<1>1. UNCHANGED << fixed, pool_bitmap, tables, holder >>
  BY SMT DEF fail, maps, locks
<1>2. /\ LocalTypes' /\ LocalOK(t)' /\ t \notin Carrier'
      /\ \A u \in Thread \ {t} : Same(u)
  <2>1. CASE return(t)
    BY <2>1, Returned
  <2>2. CASE UNCHANGED << location, locals >>
    <3>1. LocalTypes /\ LocalOK(t)
      BY SMT DEF MemInv, MemTypeOK, LocalTypes
    <3>2. LocalTypes' /\ \A u \in Thread \ {t} : Same(u)
      BY SMT, <2>2, <3>1 DEF locals, LocalTypes, Same
    <3>3. LocalOK(t)' /\ t \notin Carrier'
      BY SMT, <1>1, <2>2, <3>1 DEF locals, LocalOK, found, table_of, tables, Carrier
    <3> QED
      BY <3>2, <3>3
  <2> QED
    BY <2>1, <2>2 DEF fail
<1>3. Exclusion'
  <2>1. \A u \in Thread \ {t} : location'[u] = location[u]
    BY <1>2 DEF Same
  <2> QED
    BY SMT, <1>1, <2>1, ExclusionKept
<1>4. holder' \in [PoolFlag -> Thread \cup {nobody}]
  BY SMT, <1>1 DEF MemInv, MemTypeOK
<1> QED
  BY <1>1, <1>2, <1>3, <1>4, QuietStep

LEMMA ReserveKeeps ==
    ASSUME MemInv, NEW t \in Thread, reserve(t)
    PROVE  MemInv'
<1>1. LocalTypes /\ LocalOK(t) /\ location[t] = "reserve" /\ UNCHANGED fixed
  BY SMT DEF MemInv, MemTypeOK, LocalTypes, reserve, at
<1>2. working(t) /\ t \notin Carrier
  BY SMT, <1>1 DEF working, Carrier
<1>3. CASE bit_idx[t] = -1
  BY <1>1, <1>2, <1>3, FailKeeps DEF reserve
<1>4. CASE bit_idx[t] # -1
  <2>1. /\ location' = [location EXCEPT ![t] = "palloc"]
        /\ vaddr' = [vaddr EXCEPT ![t] = bit_idx[t]]
        /\ bit_idx' = [bit_idx EXCEPT ![t] = -1]
        /\ UNCHANGED << fixed, pool_bitmap, tables, holder, call, pg_cnt, page_phyaddr >>
    BY SMT, <1>1, <1>4 DEF reserve, goto, locks
  <2>2. LocalTypes' /\ location'[t] = "palloc" /\ vaddr'[t] = bit_idx[t] /\ pg_cnt'[t] = pg_cnt[t]
    BY SMT, <1>1, <2>1 DEF LocalTypes, Where
  <2>3. \A u \in Thread \ {t} : Same(u)
    BY SMT, <1>1, <2>1 DEF LocalTypes, Same
  <2>4. LocalOK(t)' /\ t \notin Carrier'
    BY SMT, <1>1, <1>4, <2>2 DEF LocalOK, Carrier
  <2>5. Exclusion'
    <3>1. \A u \in Thread \ {t} : location'[u] = location[u]
      BY <2>3 DEF Same
    <3> QED
      BY SMT, <1>2, <2>1, <3>1, ExclusionKept
  <2>6. holder' \in [PoolFlag -> Thread \cup {nobody}]
    BY SMT, <2>1 DEF MemInv, MemTypeOK
  <2> QED
    BY <2>1, <2>2, <2>3, <2>4, <2>5, <2>6, QuietStep
<1> QED
  BY <1>3, <1>4

LEMMA ReleaseKeeps ==
    ASSUME MemInv, NEW t \in Thread, lock_release(t)
    PROVE  MemInv'
<1>1. /\ location[t] = "release" /\ return(t)
      /\ UNCHANGED << fixed, pool_bitmap, tables >>
      /\ \/ holder' = holder
         \/ holder' = [holder EXCEPT ![pool_of(t)] = nobody]
  BY SMT DEF lock_release, at, maps
<1>2. /\ LocalTypes' /\ location'[t] = "idle" /\ LocalOK(t)' /\ t \notin Carrier'
      /\ \A u \in Thread \ {t} : Same(u)
  BY <1>1, Returned
<1>3. holder' \in [PoolFlag -> Thread \cup {nobody}]
  BY SMT, <1>1 DEF MemInv, MemTypeOK
<1>4. ASSUME NEW u \in Thread PROVE ~working(u)'
  <2>1. CASE u = t
    BY SMT, <1>2, <2>1 DEF working
  <2>2. CASE u # t
    <3>1. working(t) /\ MemTypeOK /\ Exclusion
      BY SMT, <1>1 DEF working, MemInv
    <3>2. ~working(u)
      BY <2>2, <3>1, Alone
    <3>3. Same(u)
      BY <1>2, <2>2
    <3> QED
      BY SMT, <3>2, <3>3 DEF working, Same
  <2> QED
    BY <2>1, <2>2
<1>5. Exclusion'
  <2>1. Exclusion /\ active \subseteq Thread /\ masked \subseteq active
    BY DEF MemInv, MemTypeOK
  <2>2. \A u \in Thread : location'[u] # "idle" => u \in active
    BY SMT, <1>2, <2>1 DEF Exclusion, Same
  <2>3. Disciplined' /\ masked' = masked /\ active' = active
    BY SMT, <1>1, <2>1 DEF Exclusion, Disciplined, guards, fixed
  <2>4. masked' \subseteq Thread
    BY SMT, <2>1, <2>3
  <2> QED
    BY SMT, <1>4, <2>2, <2>3, <2>4 DEF Exclusion
<1> QED
  BY <1>1, <1>2, <1>3, <1>5, QuietStep

-----------------------------------------------------------------------------
\* What is left to show of a step that takes a frame or maps one: whoever does
\* that is past the lock.
LEMMA FrameStep ==
    ASSUME MemInv, NEW t \in Thread, working(t), UNCHANGED << fixed, holder >>,
           pool_bitmap' \in [PoolFlag -> SUBSET Nat],
           pde' \in [Space -> [Page -> Table \cup {NotPresent}]],
           pte' \in [Table -> [Slot -> Frame \cup {NotPresent, stale}]],
           LocalTypes', LocalOK(t)', FramesInv',
           \A u \in Thread \ {t} : Same(u)
    PROVE  MemInv'
<1>1. MemTypeOK'
  BY SMT DEF MemInv, MemTypeOK, LocalTypes, fixed
<1>2. Exclusion'
  <2>1. \A u \in Thread \ {t} : location'[u] = location[u]
    BY DEF Same
  <2> QED
    BY <2>1, ExclusionKept
<1>3. ASSUME NEW u \in Thread PROVE LocalOK(u)'
  <2>1. CASE u = t
    BY <2>1
  <2>2. CASE u # t
    BY <2>2, OthersKept
  <2> QED
    BY <2>1, <2>2
<1> QED
  BY <1>1, <1>2, <1>3 DEF MemInv

\* After such a step nobody else carries a frame.
LEMMA NoOtherCarrier ==
    ASSUME MemInv, NEW t \in Thread, working(t), \A u \in Thread \ {t} : Same(u)
    PROVE  Carrier' \subseteq {t}
<1>1. ASSUME NEW u \in Carrier', u # t PROVE FALSE
  <2>1. u \in Thread /\ location'[u] \in {"add", "palloc_table", "take_table"}
    BY DEF Carrier
  <2>2. working(u)
    BY SMT, <1>1, <2>1 DEF Same, working
  <2> QED
    BY <1>1, <2>1, <2>2, Alone DEF MemInv
<1> QED
  BY <1>1

\* A frame whose bit is clear is nowhere.
LEMMA FreeIsNowhere ==
    ASSUME MemTypeOK, FramesInv, NEW pool \in PoolFlag, NEW i \in Nat, i \notin pool_bitmap[pool]
    PROVE  /\ \A a \in Table, j \in Slot : pte[a][j] # << pool, i >>
           /\ \A p \in Process, n \in Page : pde[p][n] # << pool, i >>
<1>1. << pool, i >> \in Frame
  BY SMT DEF Frame
<1>2. \A a \in Table, j \in Slot : pte[a][j] # << pool, i >>
  BY SMT, <1>1 DEF FramesInv, EntriesExact
<1>3. \A p \in Process, n \in Page : pde[p][n] # << pool, i >>
  BY SMT, <1>1, KindsDiffer DEF FramesInv, DirectoriesExact
<1> QED
  BY <1>2, <1>3

LEMMA PallocSetKeeps ==
    ASSUME MemInv, NEW t \in Thread, palloc_set(t)
    PROVE  MemInv'
<1> DEFINE pool == pool_of(t)
           i == bit_idx[t]
           frame == << pool, i >>
<1>1. LocalTypes /\ LocalOK(t) /\ location[t] = "take" /\ UNCHANGED fixed
  BY SMT DEF MemInv, MemTypeOK, LocalTypes, palloc_set, at
<1>2. working(t) /\ t \notin Carrier
  BY SMT, <1>1 DEF working, Carrier
<1>3. CASE i = -1
  BY <1>1, <1>2, <1>3, FailKeeps DEF palloc_set
<1>4. CASE i # -1
  <2>1. /\ pool_bitmap' = [pool_bitmap EXCEPT ![pool] = @ \cup {i}]
        /\ page_phyaddr' = [page_phyaddr EXCEPT ![t] = frame]
        /\ bit_idx' = [bit_idx EXCEPT ![t] = -1]
        /\ location' = [location EXCEPT ![t] = "add"]
        /\ UNCHANGED << fixed, pde, pte, holder, call, vaddr, pg_cnt >>
    BY SMT, <1>1, <1>4 DEF palloc_set, goto, taken, locks, tables
  <2>2. pool \in PoolFlag /\ i \in Nat /\ i \notin pool_bitmap[pool] /\ frame \in Frame
    <3>1. i \in 0..(frames(pool) - 1) /\ i \notin pool_bitmap[pool]
      BY SMT, <1>1, <1>4 DEF LocalOK, found
    <3>2. pool \in PoolFlag /\ frames(pool) \in Nat
      BY Pools
    <3> QED
      BY SMT, <3>1, <3>2 DEF Frame
  <2>3. MemTypeOK /\ FramesInv
    BY DEF MemInv
  <2>4. /\ pool_bitmap' \in [PoolFlag -> SUBSET Nat]
        /\ \A q \in PoolFlag : pool_bitmap[q] \subseteq pool_bitmap'[q]
        /\ i \in pool_bitmap'[pool]
    BY SMT, <2>1, <2>2, <2>3 DEF MemTypeOK
  <2>5. LocalTypes' /\ location'[t] = "add" /\ page_phyaddr'[t] = frame
    BY SMT, <1>1, <2>1, <2>2 DEF LocalTypes, Where
  <2>6. \A u \in Thread \ {t} : Same(u)
    BY SMT, <1>1, <2>1 DEF LocalTypes, Same
  <2>7. LocalOK(t)'
    BY SMT, <1>1, <2>1, <2>5 DEF LocalOK
  <2>8. FramesInv'
    <3>1. EntriesExact'
      BY SMT, <2>1, <2>3, <2>4 DEF FramesInv, EntriesExact, Frame
    <3>2. DirectoriesExact'
      BY SMT, <2>1, <2>3, <2>4, Pools DEF FramesInv, DirectoriesExact
    <3>3. CarriedExact'
      <4>1. Carrier' \subseteq {t}
        BY <1>2, <2>6, NoOtherCarrier
      <4>2. /\ \A a \in Table, j \in Slot : pte[a][j] # frame
            /\ \A p \in Process, n \in Page : pde[p][n] # frame
        BY <2>2, <2>3, FreeIsNowhere
      <4>3. frame[1] = pool /\ frame[2] = i
        BY SMT
      <4> HIDE DEF frame, pool, i
      <4>4. pool_of(t)' = pool
        BY DEF pool_of, pool
      <4> QED
        BY SMT, <2>1, <2>2, <2>4, <2>5, <4>1, <4>2, <4>3, <4>4 DEF CarriedExact, pool
    <3> QED
      BY <3>1, <3>2, <3>3 DEF FramesInv
  <2>9. /\ pde' \in [Space -> [Page -> Table \cup {NotPresent}]]
        /\ pte' \in [Table -> [Slot -> Frame \cup {NotPresent, stale}]]
    BY SMT, <2>1, <2>3 DEF MemTypeOK
  <2> QED
    BY <1>2, <2>1, <2>4, <2>5, <2>6, <2>7, <2>8, <2>9, FrameStep
<1> QED
  BY <1>3, <1>4

\* A thread that has mapped a page carries none, and goes on to the next if
\* there is one left.
LEMMA NextPage ==
    ASSUME MemInv, NEW t \in Thread, location[t] \in {"add", "take_table"}, next_page(t)
    PROVE  /\ LocalTypes' /\ LocalOK(t)' /\ t \notin Carrier'
           /\ \A u \in Thread \ {t} : Same(u)
<1>1. LocalTypes /\ LocalOK(t)
  BY SMT DEF MemInv, MemTypeOK, LocalTypes
<1>2. CASE return(t)
  BY <1>2, Returned
<1>3. CASE ~(pg_cnt[t] = 1 /\ call[t] = "get_kernel_page")
  <2> DEFINE then == IF pg_cnt[t] = 1 THEN "release" ELSE "palloc"
  <2>1. /\ vaddr' = [vaddr EXCEPT ![t] = @ + 1]
        /\ pg_cnt' = [pg_cnt EXCEPT ![t] = @ - 1]
        /\ location' = [location EXCEPT ![t] = then]
        /\ bit_idx' = [bit_idx EXCEPT ![t] = -1]
        /\ page_phyaddr' = [page_phyaddr EXCEPT ![t] = NotPresent]
        /\ UNCHANGED call
    BY SMT, <1>3 DEF next_page, goto
  <2>2. /\ LocalTypes' /\ location'[t] = then
        /\ vaddr'[t] = vaddr[t] + 1 /\ pg_cnt'[t] = pg_cnt[t] - 1
    BY SMT, <1>1, <2>1 DEF LocalTypes, Where
  <2>3. \A u \in Thread \ {t} : Same(u)
    BY SMT, <1>1, <2>1 DEF LocalTypes, Same
  <2>4. /\ pg_cnt[t] \in Int /\ vaddr[t] \in Int /\ pg_cnt[t] >= 1 /\ vaddr[t] >= 0
        /\ vaddr[t] + pg_cnt[t] - 1 <= Pages /\ Pages \in Nat
    BY SMT, <1>1, Pools DEF LocalTypes, LocalOK
  <2>5. LocalOK(t)' /\ t \notin Carrier'
    <3>1. CASE pg_cnt[t] = 1
      BY SMT, <2>2, <3>1 DEF LocalOK, Carrier
    <3>2. CASE pg_cnt[t] # 1
      BY SMT, <2>2, <2>4, <3>2 DEF LocalOK, Carrier
    <3> QED
      BY <3>1, <3>2
  <2> QED
    BY <2>2, <2>3, <2>5
<1> QED
  BY <1>2, <1>3 DEF next_page

\* Where a page goes
LEMMA Places ==
    ASSUME MemInv, NEW t \in Thread, location[t] \in {"add", "palloc_table", "take_table"}
    PROVE  /\ vaddr[t] \in Page /\ PDE_IDX(vaddr[t]) \in Page /\ PTE_IDX(vaddr[t]) \in Slot
           /\ space_of(t) \in Space /\ table_of(t) \in Table \cup {NotPresent}
<1>1. LocalOK(t) /\ vaddr[t] \in Int /\ pg_cnt[t] \in Int
  BY SMT DEF MemInv, MemTypeOK
<1>2. vaddr[t] \in Page
  BY SMT, <1>1, Pools DEF LocalOK, Page
<1>3. PDE_IDX(vaddr[t]) \in Page /\ PTE_IDX(vaddr[t]) \in Slot /\ space_of(t) \in Space
  BY <1>2, Indices, Pools
<1> QED
  BY SMT, <1>2, <1>3 DEF MemInv, MemTypeOK, table_of

\* Only a page of the kernel is in a table that the loader has made.
LEMMA TableKind ==
    ASSUME MemInv, NEW t \in Thread, location[t] \in {"add", "palloc_table", "take_table"},
           table_of(t) # NotPresent
    PROVE  pool_of(t) = (IF table_of(t)[1] = "loader" THEN PF_KERNEL ELSE PF_USER)
<1>1. PDE_IDX(vaddr[t]) \in Page /\ DirectoriesExact
  BY Places DEF MemInv, FramesInv
<1>2. CASE t \in Process
  <2>1. table_of(t) = low_frame \/ table_of(t) \in Frame
    BY SMT, <1>1, <1>2 DEF DirectoriesExact, table_of, space_of
  <2>2. table_of(t)[1] # "loader"
    BY <2>1, KindsDiffer
  <2> QED
    BY <1>2, <2>2 DEF pool_of
<1>3. CASE t \notin Process
  <2>1. table_of(t) = loader_table(PDE_IDX(vaddr[t]))
    BY SMT, <1>1, <1>3 DEF DirectoriesExact, table_of, space_of
  <2>2. table_of(t)[1] = "loader"
    BY <1>1, <2>1, KindsDiffer
  <2> QED
    BY <1>3, <2>2 DEF pool_of
<1> QED
  BY <1>2, <1>3

LEMMA PageTableAddKeeps ==
    ASSUME MemInv, NEW t \in Thread, page_table_add(t)
    PROVE  MemInv'
<1> DEFINE table == table_of(t)
           slot == PTE_IDX(vaddr[t])
           frame == page_phyaddr[t]
<1>1. /\ LocalTypes /\ LocalOK(t) /\ location[t] = "add"
      /\ UNCHANGED << fixed, pool_bitmap, pde, holder >>
  BY SMT DEF MemInv, MemTypeOK, LocalTypes, page_table_add, at, maps, locks
<1>2. working(t) /\ t \in Carrier
  BY SMT, <1>1 DEF working, Carrier
<1>3. CASE table = NotPresent
  <2>1. location' = [location EXCEPT ![t] = "palloc_table"] /\ UNCHANGED << pte, locals >>
    BY SMT, <1>3 DEF page_table_add, goto
  <2>2. LocalTypes' /\ location'[t] = "palloc_table"
    BY SMT, <1>1, <2>1 DEF LocalTypes, Where, locals
  <2>3. \A u \in Thread \ {t} : Same(u)
    BY SMT, <1>1, <2>1 DEF LocalTypes, Same, locals
  <2>4. t \in Process
    <3>1. PDE_IDX(vaddr[t]) \in Page /\ DirectoriesExact
      BY <1>1, Places DEF MemInv, FramesInv
    <3>2. t \notin Process => table = loader_table(PDE_IDX(vaddr[t]))
      BY SMT, <3>1 DEF DirectoriesExact, table_of, space_of
    <3> QED
      BY <1>3, <3>1, <3>2, KindsDiffer
  <2>5. LocalOK(t)'
    BY SMT, <1>1, <1>3, <2>1, <2>2, <2>4 DEF LocalOK, table_of, locals
  <2>6. Exclusion'
    <3>1. \A u \in Thread \ {t} : location'[u] = location[u]
      BY <2>3 DEF Same
    <3> QED
      BY SMT, <1>1, <1>2, <3>1, ExclusionKept
  <2>7. /\ UNCHANGED << fixed, pool_bitmap, tables >> /\ page_phyaddr'[t] = page_phyaddr[t]
        /\ holder' \in [PoolFlag -> Thread \cup {nobody}]
    BY SMT, <1>1, <2>1 DEF tables, locals, MemInv, MemTypeOK
  <2> QED
    BY <1>2, <2>2, <2>3, <2>5, <2>6, <2>7, QuietStep
<1>4. CASE table # NotPresent /\ pte[table][slot] # NotPresent
  <2>1. UNCHANGED << pte, location, locals >>
    BY SMT, <1>4 DEF page_table_add
  <2>2. LocalTypes' /\ \A u \in Thread \ {t} : Same(u)
    BY SMT, <1>1, <2>1 DEF LocalTypes, Same, locals
  <2>3. LocalOK(t)'
    BY SMT, <1>1, <2>1 DEF LocalOK, found, table_of, locals
  <2>4. Exclusion'
    BY SMT, <1>1, <1>2, <2>1, ExclusionKept
  <2>5. /\ UNCHANGED << fixed, pool_bitmap, tables >> /\ page_phyaddr'[t] = page_phyaddr[t]
        /\ holder' \in [PoolFlag -> Thread \cup {nobody}]
    BY SMT, <1>1, <2>1 DEF tables, locals, MemInv, MemTypeOK
  <2> QED
    BY <1>2, <2>2, <2>3, <2>4, <2>5, QuietStep
<1>5. CASE table # NotPresent /\ pte[table][slot] = NotPresent
  <2>1. pte' = [pte EXCEPT ![table][slot] = frame] /\ next_page(t)
    BY SMT, <1>5 DEF page_table_add
  <2>2. /\ LocalTypes' /\ LocalOK(t)' /\ t \notin Carrier'
        /\ \A u \in Thread \ {t} : Same(u)
    BY <1>1, <2>1, NextPage
  <2>3. Carrier' = {}
    BY <1>2, <2>2, NoOtherCarrier
  <2>4. table \in Table /\ slot \in Slot /\ MemTypeOK /\ FramesInv
    BY <1>1, <1>5, Places DEF MemInv
  <2>5. /\ frame \in Frame
        /\ frame[1] = (IF table[1] = "loader" THEN PF_KERNEL ELSE PF_USER)
        /\ frame[2] \in pool_bitmap[frame[1]]
        /\ \A a \in Table, j \in Slot : pte[a][j] # frame
        /\ \A p \in Process, n \in Page : pde[p][n] # frame
    <3>1. pool_of(t) = (IF table[1] = "loader" THEN PF_KERNEL ELSE PF_USER)
      BY <1>1, <1>5, TableKind
    <3> QED
      BY SMT, <1>2, <2>4, <3>1 DEF FramesInv, CarriedExact
  <2> HIDE DEF table, slot, frame
  <2>6. /\ pte' \in [Table -> [Slot -> Frame \cup {NotPresent, stale}]]
        /\ \A a \in Table, j \in Slot :
              pte'[a][j] = IF a = table /\ j = slot THEN frame ELSE pte[a][j]
    BY SMT, <2>1, <2>4, <2>5 DEF MemTypeOK
  <2>7. FramesInv'
    <3>1. EntriesExact'
      BY SMT, <1>1, <2>4, <2>5, <2>6 DEF FramesInv, EntriesExact
    <3>2. DirectoriesExact'
      BY SMT, <1>1, <2>4, <2>5, <2>6 DEF FramesInv, DirectoriesExact
    <3>3. CarriedExact'
      BY <2>3 DEF CarriedExact
    <3> QED
      BY <3>1, <3>2, <3>3 DEF FramesInv
  <2>8. /\ pool_bitmap' \in [PoolFlag -> SUBSET Nat]
        /\ pde' \in [Space -> [Page -> Table \cup {NotPresent}]]
    BY SMT, <1>1, <2>4 DEF MemTypeOK
  <2> QED
    BY <1>1, <1>2, <2>2, <2>6, <2>7, <2>8, FrameStep
<1> QED
  BY <1>3, <1>4, <1>5

LEMMA PallocTableSetKeeps ==
    ASSUME MemInv, NEW t \in Thread, palloc_table_set(t)
    PROVE  MemInv'
<1> DEFINE i == bit_idx[t]
           none == i = -1
           table == IF none THEN low_frame ELSE << PF_KERNEL, i >>
           d == PDE_IDX(vaddr[t])
           slot == PTE_IDX(vaddr[t])
           frame == page_phyaddr[t]
           new == [n \in Slot |-> IF n = slot THEN frame ELSE NotPresent]
<1>1. /\ LocalTypes /\ LocalOK(t) /\ location[t] = "take_table"
      /\ IF none THEN UNCHANGED pool_bitmap ELSE taken(PF_KERNEL, i)
      /\ pde' = [pde EXCEPT ![space_of(t)][d] = table]
      /\ pte' = [pte EXCEPT ![table] = new]
      /\ next_page(t)
      /\ UNCHANGED << fixed, holder >>
  BY SMT DEF MemInv, MemTypeOK, LocalTypes, palloc_table_set, at, locks, new_table
<1>2. working(t) /\ t \in Carrier /\ MemTypeOK /\ FramesInv
  BY SMT, <1>1 DEF working, Carrier, MemInv
<1>3. /\ LocalTypes' /\ LocalOK(t)' /\ t \notin Carrier'
      /\ \A u \in Thread \ {t} : Same(u)
  BY <1>1, NextPage
<1>4. Carrier' = {}
  BY <1>2, <1>3, NoOtherCarrier
<1>5. /\ t \in Process /\ space_of(t) = t /\ t \in Space /\ t # PF_KERNEL /\ pool_of(t) = PF_USER
      /\ d \in Page /\ slot \in Slot
  BY SMT, <1>1, Places, Pools DEF LocalOK, space_of, pool_of
<1>6. /\ table \in Table /\ table # NotPresent /\ table[1] # "loader"
      /\ \/ table = low_frame
         \/ /\ table \in Frame /\ table[1] = PF_KERNEL /\ table[2] \in Nat
            /\ table[2] \notin pool_bitmap[PF_KERNEL]
            /\ \A a \in Table, j \in Slot : pte[a][j] # table
            /\ \A p \in Process, n \in Page : pde[p][n] # table
  <2>1. CASE none
    BY <2>1, KindsDiffer
  <2>2. CASE ~none
    <3>1. i \in 0..(kernel_frames - 1) /\ i \in Nat /\ i \notin pool_bitmap[PF_KERNEL]
      BY SMT, <1>1, <2>2, Pools DEF LocalOK, found, frames
    <3>2. table = << PF_KERNEL, i >> /\ table \in Table \cap Frame
      BY <2>2, <3>1, KindsDiffer
    <3>3. /\ \A a \in Table, j \in Slot : pte[a][j] # table
          /\ \A p \in Process, n \in Page : pde[p][n] # table
      BY <1>2, <3>1, <3>2, Pools, FreeIsNowhere
    <3>4. table[1] = PF_KERNEL /\ table[2] = i
      BY SMT, <3>2
    <3>5. table # NotPresent /\ table[1] # "loader"
      BY <3>2, KindsDiffer
    <3> QED
      BY <3>1, <3>2, <3>3, <3>4, <3>5
  <2> QED
    BY <2>1, <2>2
<1>7. /\ pool_bitmap' \in [PoolFlag -> SUBSET Nat]
      /\ \A pool \in PoolFlag : pool_bitmap[pool] \subseteq pool_bitmap'[pool]
      /\ table # low_frame => table[2] \in pool_bitmap'[PF_KERNEL]
  <2>1. CASE none
    BY SMT, <1>1, <1>2, <2>1 DEF MemTypeOK
  <2>2. CASE ~none
    <3>1. pool_bitmap' = [pool_bitmap EXCEPT ![PF_KERNEL] = @ \cup {i}] /\ table[2] = i
      BY SMT, <1>1, <2>2 DEF taken
    <3>2. i \in Nat
      BY SMT, <1>1, <2>2, Pools DEF LocalOK, found, frames
    <3> QED
      BY SMT, <1>2, <3>1, <3>2, Pools DEF MemTypeOK
  <2> QED
    BY <2>1, <2>2
<1>8. /\ frame \in Frame /\ frame[1] = PF_USER /\ frame[2] \in pool_bitmap[PF_USER]
      /\ \A a \in Table, j \in Slot : pte[a][j] # frame
      /\ \A p \in Process, n \in Page : pde[p][n] # frame
  BY SMT, <1>2, <1>5 DEF FramesInv, CarriedExact
<1> HIDE DEF table, d, slot, frame, none, i
<1>9. /\ pte' \in [Table -> [Slot -> Frame \cup {NotPresent, stale}]]
      /\ \A a \in Table, j \in Slot :
            pte'[a][j] = IF a = table THEN (IF j = slot THEN frame ELSE NotPresent) ELSE pte[a][j]
  BY SMT, <1>1, <1>2, <1>6, <1>8 DEF MemTypeOK
<1>10. /\ pde' \in [Space -> [Page -> Table \cup {NotPresent}]]
       /\ \A s \in Space, n \in Page :
             pde'[s][n] = IF s = t /\ n = d THEN table ELSE pde[s][n]
  BY SMT, <1>1, <1>2, <1>5, <1>6 DEF MemTypeOK
<1>11. EntriesExact'
  <2>1. ASSUME NEW a \in Table, NEW j \in Slot, pte'[a][j] \in Frame
        PROVE  /\ pte'[a][j][1] = (IF a[1] = "loader" THEN PF_KERNEL ELSE PF_USER)
               /\ pte'[a][j][2] \in pool_bitmap'[pte'[a][j][1]]
               /\ \A b \in Table, k \in Slot : pte'[a][j] = pte'[b][k] => a = b /\ j = k
    <3>1. CASE a = table
      <4>1. j = slot /\ pte'[a][j] = frame
        BY SMT, <1>9, <2>1, <3>1, KindsDiffer
      <4>2. ASSUME NEW b \in Table, NEW k \in Slot, frame = pte'[b][k] PROVE a = b /\ j = k
        BY SMT, <1>8, <1>9, <3>1, <4>1, <4>2, KindsDiffer
      <4> QED
        BY SMT, <1>6, <1>7, <1>8, <3>1, <4>1, <4>2, Pools
    <3>2. CASE a # table
      <4>1. pte'[a][j] = pte[a][j]
        BY <1>9, <3>2
      <4>2. /\ pte[a][j][1] = (IF a[1] = "loader" THEN PF_KERNEL ELSE PF_USER)
            /\ pte[a][j][2] \in pool_bitmap[pte[a][j][1]]
            /\ \A b \in Table, k \in Slot : pte[a][j] = pte[b][k] => a = b /\ j = k
        BY SMT, <1>2, <2>1, <4>1 DEF FramesInv, EntriesExact
      <4>3. pte[a][j][1] \in PoolFlag
        BY SMT, <4>2, Pools
      <4>4. ASSUME NEW b \in Table, NEW k \in Slot, pte[a][j] = pte'[b][k] PROVE a = b /\ j = k
        <5>1. pte[a][j] # frame /\ pte[a][j] # NotPresent
          BY <1>8, <2>1, <4>1, KindsDiffer
        <5>2. b # table
          BY <1>9, <4>4, <5>1
        <5> QED
          BY <1>9, <4>2, <4>4, <5>2
      <4> QED
        BY SMT, <1>7, <4>1, <4>2, <4>3, <4>4
    <3> QED
      BY <3>1, <3>2
  <2> QED
    BY <2>1 DEF EntriesExact
<1>12. DirectoriesExact'
  <2>1. \A n \in Page : pde'[PF_KERNEL][n] = loader_table(n)
    BY SMT, <1>2, <1>5, <1>10, Pools DEF FramesInv, DirectoriesExact
  <2>2. ASSUME NEW p \in Process, NEW n \in Page
        PROVE  \/ pde'[p][n] \in {NotPresent, low_frame}
               \/ /\ pde'[p][n] \in Frame /\ pde'[p][n][1] = PF_KERNEL
                  /\ pde'[p][n][2] \in pool_bitmap'[PF_KERNEL]
                  /\ \A q \in Process, m \in Page : pde'[p][n] = pde'[q][m] => p = q /\ n = m
                  /\ \A a \in Table, j \in Slot : pte'[a][j] # pde'[p][n]
    <3>0. p \in Space /\ Process \subseteq Space /\ PF_KERNEL \in PoolFlag /\ PF_KERNEL # PF_USER
      BY Pools
    <3>1. CASE p = t /\ n = d
      <4>1. pde'[p][n] = table
        BY <1>10, <3>0, <3>1
      <4>2. CASE table = low_frame
        BY <4>1, <4>2
      <4>3. CASE table # low_frame
        <5>1. \A q \in Process, m \in Page : table = pde'[q][m] => q = t /\ m = d
          BY SMT, <1>6, <1>10, <3>0, <4>3
        <5>2. frame # table
          BY SMT, <1>6, <1>8, <3>0, <4>3
        <5>3. \A a \in Table, j \in Slot : pte'[a][j] # table
          BY SMT, <1>6, <1>9, <4>3, <5>2
        <5> QED
          BY SMT, <1>6, <1>7, <3>1, <4>1, <4>3, <5>1, <5>3
      <4> QED
        BY <4>2, <4>3
    <3>2. CASE ~(p = t /\ n = d) /\ pde[p][n] \notin {NotPresent, low_frame}
      <4>1. pde'[p][n] = pde[p][n]
        BY <1>10, <3>0, <3>2
      <4>2. /\ pde[p][n] \in Frame /\ pde[p][n][1] = PF_KERNEL
            /\ pde[p][n][2] \in pool_bitmap[PF_KERNEL]
            /\ \A q \in Process, m \in Page : pde[p][n] = pde[q][m] => p = q /\ n = m
            /\ \A a \in Table, j \in Slot : pte[a][j] # pde[p][n]
        BY SMT, <1>2, <3>2 DEF FramesInv, DirectoriesExact
      <4>3. \A q \in Process, m \in Page : pde[p][n] = pde'[q][m] => p = q /\ n = m
        <5>1. pde[p][n] # table
          BY <1>6, <3>2
        <5> QED
          BY SMT, <1>10, <3>0, <4>2, <5>1
      <4>4. \A a \in Table, j \in Slot : pte'[a][j] # pde[p][n]
        <5>1. pde[p][n] # frame
          BY <1>8
        <5> QED
          BY SMT, <1>9, <3>2, <4>2, <5>1
      <4>5. pde[p][n][2] \in pool_bitmap'[PF_KERNEL]
        BY SMT, <1>7, <3>0, <4>2
      <4> QED
        BY <4>1, <4>2, <4>3, <4>4, <4>5
    <3>3. CASE ~(p = t /\ n = d) /\ pde[p][n] \in {NotPresent, low_frame}
      BY <1>10, <3>0, <3>3
    <3> QED
      BY <3>1, <3>2, <3>3
  <2> QED
    BY <2>1, <2>2 DEF DirectoriesExact
<1>13. CarriedExact'
  BY <1>4 DEF CarriedExact
<1> QED
  BY <1>1, <1>2, <1>3, <1>7, <1>9, <1>10, <1>11, <1>12, <1>13, FrameStep DEF FramesInv

LEMMA MemNextKeeps == MemInv /\ [MemNext]_memvars => MemInv'
<1> SUFFICES ASSUME MemInv, [MemNext]_memvars PROVE MemInv'
  OBVIOUS
<1>1. ASSUME NEW t \in Thread, Call(t) PROVE MemInv'
  BY <1>1, CallKeeps
<1>2. ASSUME NEW t \in Thread, Work(t) PROVE MemInv'
  BY <1>2, AcquireKeeps, PlaceKeeps, VaddrGetKeeps, ReserveKeeps, PallocScanKeeps, PallocSetKeeps,
     PageTableAddKeeps, PallocTableScanKeeps, PallocTableSetKeeps, ReleaseKeeps DEF Work
<1>3. CASE UNCHANGED memvars
  <2>1. /\ UNCHANGED << fixed, pool_bitmap, pde, pte, holder >>
        /\ UNCHANGED << location, call, vaddr, pg_cnt, bit_idx, page_phyaddr >>
    BY SMT, <1>3 DEF memvars, maps, tables, locks, locals
  <2>2. MemTypeOK'
    BY SMT, <2>1 DEF MemInv, MemTypeOK, fixed
  <2>3. Exclusion'
    BY SMT, <2>1 DEF MemInv, Exclusion, working, Disciplined, guards, fixed
  <2>4. ASSUME NEW t \in Thread PROVE LocalOK(t)'
    BY SMT, <2>1, <2>4 DEF MemInv, LocalOK, found, table_of
  <2>5. FramesInv'
    BY SMT, <2>1, FramesKept DEF MemInv, Carrier
  <2> QED
    BY <2>2, <2>3, <2>4, <2>5 DEF MemInv
<1> QED
  BY <1>1, <1>2, <1>3 DEF MemNext

-----------------------------------------------------------------------------
\* What a page is mapped to
LEMMA MappedFrames ==
    ASSUME MemInv, NEW m \in Mapped
    PROVE  LET table == pde[m[1]][PDE_IDX(m[2])]
               slot == PTE_IDX(m[2])
           IN  /\ m[1] \in Space /\ m[2] \in Page
               /\ table \in Table /\ PDE_IDX(m[2]) \in Page /\ slot \in Slot
               /\ frame_at(m[1], m[2]) = pte[table][slot] /\ pte[table][slot] \in Frame
               /\ table[1] = "loader" <=> m[1] = PF_KERNEL
<1>1. /\ m[1] \in Space /\ m[2] \in Page /\ m = << m[1], m[2] >>
      /\ frame_at(m[1], m[2]) \notin {NotPresent, stale}
  BY SMT DEF Mapped
<1>2. PDE_IDX(m[2]) \in Page /\ PTE_IDX(m[2]) \in Slot
  BY <1>1, Indices
<1> DEFINE table == pde[m[1]][PDE_IDX(m[2])]
<1>3. table \in Table /\ frame_at(m[1], m[2]) = pte[table][PTE_IDX(m[2])]
  BY SMT, <1>1, <1>2 DEF MemInv, MemTypeOK, frame_at
<1>4. pte[table][PTE_IDX(m[2])] \in Frame
  BY SMT, <1>1, <1>2, <1>3 DEF MemInv, MemTypeOK
<1>5. table[1] = "loader" <=> m[1] = PF_KERNEL
  <2>1. CASE m[1] = PF_KERNEL
    BY <1>2, <2>1, KindsDiffer DEF MemInv, FramesInv, DirectoriesExact
  <2>2. CASE m[1] # PF_KERNEL
    <3>1. m[1] \in Process
      BY <1>1, <2>2 DEF Space
    <3>2. table = low_frame \/ table \in Frame
      BY <1>2, <1>3, <3>1, KindsDiffer DEF MemInv, FramesInv, DirectoriesExact
    <3> QED
      BY <2>2, <3>2, KindsDiffer
  <2> QED
    BY <2>1, <2>2
<1> QED
  BY <1>1, <1>2, <1>3, <1>4, <1>5

LEMMA FramesExactHolds == MemInv => FramesExact
<1> SUFFICES ASSUME MemInv PROVE FramesExact
  OBVIOUS
<1>0. EntriesExact /\ DirectoriesExact /\ CarriedExact
  BY DEF MemInv, FramesInv
<1>1. ASSUME NEW m \in Mapped, NEW n \in Mapped, frame_at(m[1], m[2]) = frame_at(n[1], n[2])
      PROVE  m = n \/ (over_low_frame(m) /\ over_low_frame(n))
  <2> DEFINE a == pde[m[1]][PDE_IDX(m[2])]
             b == pde[n[1]][PDE_IDX(n[2])]
             i == PTE_IDX(m[2])
             j == PTE_IDX(n[2])
  <2>1. /\ a \in Table /\ i \in Slot /\ pte[a][i] \in Frame /\ frame_at(m[1], m[2]) = pte[a][i]
        /\ m[1] \in Space /\ m[2] \in Page /\ PDE_IDX(m[2]) \in Page
        /\ a[1] = "loader" <=> m[1] = PF_KERNEL
    BY MappedFrames
  <2>2. /\ b \in Table /\ j \in Slot /\ pte[b][j] \in Frame /\ frame_at(n[1], n[2]) = pte[b][j]
        /\ n[1] \in Space /\ n[2] \in Page /\ PDE_IDX(n[2]) \in Page
        /\ b[1] = "loader" <=> n[1] = PF_KERNEL
    BY MappedFrames
  <2> HIDE DEF a, b, i, j
  <2>3. a = b /\ i = j
    <3>1. pte[a][i] = pte[b][j]
      BY <1>1, <2>1, <2>2
    <3> QED
      BY SMT, <1>0, <2>1, <2>2, <3>1 DEF EntriesExact
  <2>4. m = << m[1], m[2] >> /\ n = << n[1], n[2] >>
    BY SMT DEF Mapped
  <2>5. ASSUME m[1] = n[1], PDE_IDX(m[2]) = PDE_IDX(n[2]) PROVE m = n
    <3>1. PTE_IDX(m[2]) = PTE_IDX(n[2])
      BY <2>3 DEF i, j
    <3>2. m[2] = n[2]
      BY <2>1, <2>2, <2>5, <3>1, Indices
    <3> QED
      BY <2>4, <2>5, <3>2
  <2>6. CASE m[1] = PF_KERNEL
    <3>1. n[1] = PF_KERNEL
      BY <2>1, <2>2, <2>3, <2>6
    <3>2. a = loader_table(PDE_IDX(m[2])) /\ b = loader_table(PDE_IDX(n[2]))
      BY <1>0, <2>1, <2>2, <2>6, <3>1 DEF DirectoriesExact, a, b
    <3>3. PDE_IDX(m[2]) = PDE_IDX(n[2])
      BY <2>1, <2>2, <2>3, <3>2, KindsDiffer
    <3> QED
      BY <2>5, <2>6, <3>1, <3>3
  <2>7. CASE m[1] # PF_KERNEL
    <3>1. m[1] \in Process /\ n[1] \in Process
      BY <2>1, <2>2, <2>3, <2>7 DEF Space
    <3>2. CASE a = low_frame
      BY <2>3, <3>2 DEF over_low_frame, a, b
    <3>3. CASE a # low_frame
      <4>1. \A q \in Process, k \in Page : a = pde[q][k] => m[1] = q /\ PDE_IDX(m[2]) = k
        <5>1. a \notin {NotPresent, low_frame}
          BY <2>1, <3>3, KindsDiffer
        <5> QED
          BY <1>0, <2>1, <3>1, <5>1 DEF DirectoriesExact, a
      <4>2. m[1] = n[1] /\ PDE_IDX(m[2]) = PDE_IDX(n[2])
        BY <2>2, <2>3, <3>1, <4>1 DEF b
      <4> QED
        BY <2>5, <4>2
    <3> QED
      BY <3>2, <3>3
  <2> QED
    BY <2>6, <2>7
<1>2. ASSUME NEW e \in Directory
      PROVE  /\ e[1] \in Process /\ e[2] \in Page /\ e = << e[1], e[2] >>
             /\ pde[e[1]][e[2]] \in Frame /\ pde[e[1]][e[2]][1] = PF_KERNEL
             /\ pde[e[1]][e[2]][2] \in pool_bitmap[PF_KERNEL]
             /\ \A q \in Process, k \in Page : pde[e[1]][e[2]] = pde[q][k] => e[1] = q /\ e[2] = k
             /\ \A a \in Table, i \in Slot : pte[a][i] # pde[e[1]][e[2]]
  <2>1. /\ e[1] \in Process /\ e[2] \in Page /\ e = << e[1], e[2] >>
        /\ pde[e[1]][e[2]] \notin {NotPresent, low_frame}
    BY SMT DEF Directory
  <2> QED
    BY <1>0, <2>1 DEF DirectoriesExact
<1>3. ASSUME NEW e \in Directory, NEW g \in Directory, pde[e[1]][e[2]] = pde[g[1]][g[2]]
      PROVE  e = g
  <2>1. e[1] = g[1] /\ e[2] = g[2]
    BY <1>2, <1>3
  <2> QED
    BY <1>2, <2>1
<1>4. ASSUME NEW t \in Carrier, NEW u \in Carrier PROVE t = u
  <2>1. t \in Thread /\ u \in Thread /\ working(t) /\ working(u)
    BY SMT DEF Carrier, working
  <2> QED
    BY <2>1, Alone DEF MemInv
<1>5. ASSUME NEW m \in Mapped
      PROVE  LET frame == frame_at(m[1], m[2])
             IN  /\ frame[1] = (IF m[1] = PF_KERNEL THEN PF_KERNEL ELSE PF_USER)
                 /\ frame[2] \in pool_bitmap[frame[1]]
                 /\ \A e \in Directory : frame # pde[e[1]][e[2]]
                 /\ \A t \in Carrier : frame # page_phyaddr[t]
  <2> DEFINE a == pde[m[1]][PDE_IDX(m[2])]
             i == PTE_IDX(m[2])
  <2>1. /\ a \in Table /\ i \in Slot /\ pte[a][i] \in Frame /\ frame_at(m[1], m[2]) = pte[a][i]
        /\ a[1] = "loader" <=> m[1] = PF_KERNEL
    BY MappedFrames
  <2> HIDE DEF a, i
  <2>2. /\ pte[a][i][1] = (IF m[1] = PF_KERNEL THEN PF_KERNEL ELSE PF_USER)
        /\ pte[a][i][2] \in pool_bitmap[pte[a][i][1]]
    BY <1>0, <2>1 DEF EntriesExact
  <2>3. \A e \in Directory : pte[a][i] # pde[e[1]][e[2]]
    BY <1>2, <2>1
  <2>4. \A t \in Carrier : pte[a][i] # page_phyaddr[t]
    BY <1>0, <2>1 DEF CarriedExact
  <2> QED
    BY <2>1, <2>2, <2>3, <2>4
<1>6. ASSUME NEW e \in Directory, NEW t \in Carrier PROVE pde[e[1]][e[2]] # page_phyaddr[t]
  BY <1>0, <1>2 DEF CarriedExact
<1> QED
  BY <1>1, <1>2, <1>3, <1>4, <1>5, <1>6 DEF FramesExact

\* memory.c never hands a frame out twice, with any number of threads and frames
\* and any lengths of address spaces, as long as all callers mask interrupts or
\* all take the same lock.  A frame with its bit set is the page of one address
\* space, or a page table, or on its way to one of them.
THEOREM FramesAreExact == MemSpec => []FramesExact
<1>1. MemInv => FramesExact
  BY FramesExactHolds
<1> QED
  BY <1>1, MemInitInv, MemNextKeeps, PTL DEF MemSpec

-----------------------------------------------------------------------------
\* The pages that a call has reserved and not mapped yet
past(t) == location[t] \in {"palloc", "take", "add", "palloc_table", "take_table"}

about(t, s, page) ==
    past(t) /\ space_of(t) = s /\ page \in vaddr[t]..(vaddr[t] + pg_cnt[t] - 1)

PageAccounted(s, page) ==
    \/ << s, page >> \in Mapped
    \/ \E t \in Thread : about(t, s, page)
    \/ exhausted(PF_KERNEL)
    \/ s # PF_KERNEL /\ exhausted(PF_USER)

FrameAccounted(pool, i) ==
    \/ \E m \in Mapped : frame_at(m[1], m[2]) = << pool, i >>
    \/ \E d \in Directory : pde[d[1]][d[2]] = << pool, i >>
    \/ \E t \in Carrier : page_phyaddr[t] = << pool, i >>
    \/ exhausted(PF_KERNEL)

LockAccounted(pool) ==
    \/ exhausted(pool)
    \/ holder[pool] = nobody /\ holder_repeat_nr[pool] = 0
    \/ holder[pool] # nobody /\ holder_repeat_nr[pool] = 1 /\ working(holder[pool])

Accounts ==
    /\ \A s \in Space : \A page \in vaddr_bitmap[s] : PageAccounted(s, page)
    /\ \A pool \in PoolFlag : \A i \in pool_bitmap[pool] : FrameAccounted(pool, i)

LockAccounts == \A pool \in PoolFlag : LockAccounted(pool)

\* Which way a call takes, and that only an empty pool makes a scan for a frame fail
CallOK(t) ==
    /\ location[t] # "idle" => call[t] # no_call
    /\ t \in Kernel /\ location[t] # "idle" =>
          /\ call[t] = "get_kernel_page"
          /\ location[t] \notin {"acquire", "place", "release"}
    /\ t \notin Kernel => call[t] # "get_kernel_page"
    /\ location[t] \in {"vaddr", "reserve"} => call[t] # "get_a_page"
    /\ location[t] = "take" /\ bit_idx[t] = -1 => exhausted(pool_of(t))
    /\ location[t] = "take_table" /\ bit_idx[t] = -1 => exhausted(PF_KERNEL)

Holders == \A pool \in PoolFlag : holder[pool] # nobody =>
              holder[pool] \in Thread \ Kernel /\ pool_of(holder[pool]) = pool

BookTypes ==
    /\ vaddr_bitmap \in [Space -> SUBSET Int]
    /\ holder_repeat_nr \in [PoolFlag -> Int]

LeakInv ==
    /\ BookTypes /\ Holders
    /\ \A t \in Thread : CallOK(t)
    /\ Accounts /\ LockAccounts

LEMMA LeakInitInv == MemInit => LeakInv
<1> SUFFICES ASSUME MemInit PROVE LeakInv
  OBVIOUS
<1>1. BookTypes /\ Holders
  BY SMT DEF MemInit, BookTypes, Holders
<1>2. \A t \in Thread : CallOK(t)
  BY SMT DEF MemInit, CallOK, no_call
<1>3. Accounts
  BY SMT DEF MemInit, Accounts
<1>4. LockAccounts
  BY SMT DEF MemInit, LockAccounts, LockAccounted
<1> QED
  BY <1>1, <1>2, <1>3, <1>4 DEF LeakInv

\* Nothing is ever given back, so that a pool stays empty.
LEMMA StaysExhausted ==
    ASSUME NEW pool \in PoolFlag, pool_bitmap[pool] \subseteq pool_bitmap'[pool], exhausted(pool)
    PROVE  exhausted(pool)'
BY SMT DEF exhausted, frames

\* What a step of t has to show so that nothing goes missing
LEMMA AccountsKept ==
    ASSUME Accounts, NEW t \in Thread,
           \A pool \in PoolFlag : pool_bitmap[pool] \subseteq pool_bitmap'[pool],
           \A s \in Space : \A page \in vaddr_bitmap'[s] :
              page \in vaddr_bitmap[s] \/ about(t, s, page)',
           \A pool \in PoolFlag : \A i \in pool_bitmap'[pool] :
              i \in pool_bitmap[pool] \/ FrameAccounted(pool, i)',
           \/ exhausted(PF_KERNEL)'
           \/ \A m \in Mapped : m \in Mapped' /\ frame_at(m[1], m[2])' = frame_at(m[1], m[2]),
           \A d \in Directory : d \in Directory' /\ pde'[d[1]][d[2]] = pde[d[1]][d[2]],
           \A pool, i : t \in Carrier /\ page_phyaddr[t] = << pool, i >> => FrameAccounted(pool, i)',
           \A s \in Space, page \in Int : about(t, s, page) => PageAccounted(s, page)',
           \A u \in Thread \ {t} : Same(u)
    PROVE  Accounts'
<1>0. PF_KERNEL \in PoolFlag /\ PF_USER \in PoolFlag
  BY Pools
<1>1. ASSUME NEW s \in Space, NEW page \in vaddr_bitmap'[s] PROVE PageAccounted(s, page)'
  <2>1. CASE about(t, s, page)'
    BY <2>1 DEF PageAccounted
  <2>2. CASE page \in vaddr_bitmap[s]
    <3>1. PageAccounted(s, page)
      BY <2>2 DEF Accounts
    <3>2. CASE << s, page >> \in Mapped
      BY <3>2 DEF PageAccounted
    <3>3. ASSUME NEW u \in Thread, about(u, s, page) PROVE PageAccounted(s, page)'
      <4>1. CASE u = t
        <5>1. page \in Int
          BY SMT, <3>3 DEF about
        <5> QED
          BY <3>3, <4>1, <5>1
      <4>2. CASE u # t
        <5>1. Same(u)
          BY <4>2
        <5>2. about(u, s, page)'
          BY SMT, <3>3, <5>1 DEF about, past, Same, space_of
        <5> QED
          BY <5>2 DEF PageAccounted
      <4> QED
        BY <4>1, <4>2
    <3>4. CASE exhausted(PF_KERNEL)
      BY <1>0, <3>4, StaysExhausted DEF PageAccounted
    <3>5. CASE s # PF_KERNEL /\ exhausted(PF_USER)
      BY <1>0, <3>5, StaysExhausted DEF PageAccounted
    <3> QED
      BY <3>1, <3>2, <3>3, <3>4, <3>5 DEF PageAccounted
  <2> QED
    BY <2>1, <2>2
<1>2. ASSUME NEW pool \in PoolFlag, NEW i \in pool_bitmap'[pool] PROVE FrameAccounted(pool, i)'
  <2>1. CASE i \in pool_bitmap[pool]
    <3>1. FrameAccounted(pool, i)
      BY <2>1 DEF Accounts
    <3>2. ASSUME NEW m \in Mapped, frame_at(m[1], m[2]) = << pool, i >>
          PROVE  FrameAccounted(pool, i)'
      BY <3>2 DEF FrameAccounted
    <3>3. ASSUME NEW d \in Directory, pde[d[1]][d[2]] = << pool, i >>
          PROVE  FrameAccounted(pool, i)'
      BY <3>3 DEF FrameAccounted
    <3>4. ASSUME NEW u \in Carrier, page_phyaddr[u] = << pool, i >>
          PROVE  FrameAccounted(pool, i)'
      <4>1. CASE u = t
        BY <3>4, <4>1
      <4>2. CASE u # t
        <5>1. Same(u) /\ u \in Thread
          BY <4>2 DEF Carrier
        <5>2. u \in Carrier' /\ page_phyaddr'[u] = << pool, i >>
          BY SMT, <3>4, <5>1 DEF Carrier, Same
        <5> QED
          BY <5>2 DEF FrameAccounted
      <4> QED
        BY <4>1, <4>2
    <3>5. CASE exhausted(PF_KERNEL)
      BY <1>0, <3>5, StaysExhausted DEF FrameAccounted
    <3> QED
      BY <3>1, <3>2, <3>3, <3>4, <3>5 DEF FrameAccounted
  <2>2. CASE i \notin pool_bitmap[pool]
    BY <2>2
  <2> QED
    BY <2>1, <2>2
<1> QED
  BY <1>1, <1>2 DEF Accounts

\* A step that takes no frame and maps none
LEMMA QuietAccounts ==
    ASSUME LeakInv, NEW t \in Thread,
           UNCHANGED << pool_bitmap, tables >>,
           \A s \in Space : \A page \in vaddr_bitmap'[s] :
              page \in vaddr_bitmap[s] \/ about(t, s, page)',
           t \in Carrier => t \in Carrier' /\ page_phyaddr'[t] = page_phyaddr[t],
           \A s \in Space, page \in Int : about(t, s, page) => PageAccounted(s, page)',
           \A u \in Thread \ {t} : Same(u)
    PROVE  Accounts'
<1>1. pool_bitmap' = pool_bitmap /\ pde' = pde /\ pte' = pte
  BY SMT DEF tables
<1>2. ASSUME NEW m \in Mapped PROVE m \in Mapped' /\ frame_at(m[1], m[2])' = frame_at(m[1], m[2])
  BY <1>1 DEF Mapped, frame_at
<1>3. ASSUME NEW d \in Directory PROVE d \in Directory' /\ pde'[d[1]][d[2]] = pde[d[1]][d[2]]
  BY <1>1 DEF Directory
<1>4. ASSUME NEW pool, NEW i, t \in Carrier, page_phyaddr[t] = << pool, i >>
      PROVE  FrameAccounted(pool, i)'
  <2>1. t \in Carrier' /\ page_phyaddr'[t] = << pool, i >>
    BY <1>4
  <2> QED
    BY <2>1 DEF FrameAccounted
<1>5. Accounts
  BY DEF LeakInv
<1>6. \A pool \in PoolFlag : pool_bitmap[pool] \subseteq pool_bitmap'[pool]
  BY <1>1
<1>7. \A pool \in PoolFlag : \A i \in pool_bitmap'[pool] :
         i \in pool_bitmap[pool] \/ FrameAccounted(pool, i)'
  BY <1>1
<1> QED
  BY <1>2, <1>3, <1>4, <1>5, <1>6, <1>7, AccountsKept

\* A thread that stays past the lock, and what holds of the locks
LEMMA LocksKept ==
    ASSUME MemInv, LeakInv, NEW t \in Thread, working(t), working(t)', UNCHANGED locks,
           \A pool \in PoolFlag : pool_bitmap[pool] \subseteq pool_bitmap'[pool],
           \A u \in Thread \ {t} : Same(u)
    PROVE  LockAccounts' /\ Holders'
<1>1. ASSUME NEW pool \in PoolFlag PROVE LockAccounted(pool)'
  <2>1. LockAccounted(pool) /\ holder' = holder /\ holder_repeat_nr' = holder_repeat_nr
    BY SMT DEF LeakInv, LockAccounts, locks
  <2>2. CASE exhausted(pool)
    BY <2>2, StaysExhausted DEF LockAccounted
  <2>3. CASE holder[pool] = nobody /\ holder_repeat_nr[pool] = 0
    BY <2>1, <2>3 DEF LockAccounted
  <2>4. CASE holder[pool] # nobody /\ holder_repeat_nr[pool] = 1 /\ working(holder[pool])
    <3>1. holder[pool] \in Thread
      BY SMT, <2>4 DEF LeakInv, Holders
    <3>2. working(holder[pool])'
      BY SMT, <2>1, <2>4, <3>1 DEF working, Same
    <3> QED
      BY <2>1, <2>4, <3>2 DEF LockAccounted
  <2> QED
    BY <2>1, <2>2, <2>3, <2>4 DEF LockAccounted
<1>2. Holders'
  BY SMT DEF LeakInv, Holders, locks, pool_of
<1> QED
  BY <1>1, <1>2 DEF LockAccounts

\* A call that is over without the lock being touched: the thread never had it,
\* or the pool is empty.
LEMMA LocksAfterReturn ==
    ASSUME MemInv, LeakInv, NEW t \in Thread, working(t), UNCHANGED << locks, pool_bitmap >>,
           t \in Kernel \/ exhausted(pool_of(t)),
           \A u \in Thread \ {t} : Same(u)
    PROVE  LockAccounts' /\ Holders'
<1>1. ASSUME NEW pool \in PoolFlag PROVE LockAccounted(pool)'
  <2>1. LockAccounted(pool) /\ holder' = holder /\ holder_repeat_nr' = holder_repeat_nr
    BY SMT DEF LeakInv, LockAccounts, locks
  <2>2. CASE exhausted(pool)
    BY SMT, <2>2 DEF LockAccounted, exhausted, frames
  <2>3. CASE holder[pool] = nobody /\ holder_repeat_nr[pool] = 0
    BY <2>1, <2>3 DEF LockAccounted
  <2>4. CASE holder[pool] # nobody /\ working(holder[pool]) /\ ~exhausted(pool)
    <3>1. holder[pool] \in Thread \ Kernel /\ pool_of(holder[pool]) = pool
      BY <2>4 DEF LeakInv, Holders
    <3>2. holder[pool] = t
      BY <2>4, <3>1, Alone DEF MemInv
    <3> QED
      BY <2>4, <3>1, <3>2
  <2> QED
    BY <2>1, <2>2, <2>3, <2>4 DEF LockAccounted
<1>2. Holders'
  BY SMT DEF LeakInv, Holders, locks, pool_of
<1> QED
  BY <1>1, <1>2 DEF LockAccounts

LEMMA CallsKept ==
    ASSUME LeakInv, NEW t \in Thread, CallOK(t)',
           \A pool \in PoolFlag : pool_bitmap[pool] \subseteq pool_bitmap'[pool],
           \A u \in Thread \ {t} : Same(u)
    PROVE  \A u \in Thread : CallOK(u)'
<1> SUFFICES ASSUME NEW u \in Thread, u # t PROVE CallOK(u)'
  OBVIOUS
<1>1. CallOK(u) /\ Same(u)
  BY DEF LeakInv
<1>2. /\ exhausted(pool_of(u)) => exhausted(pool_of(u))'
      /\ exhausted(PF_KERNEL) => exhausted(PF_KERNEL)'
  <2>1. pool_of(u) \in PoolFlag /\ PF_KERNEL \in PoolFlag /\ pool_of(u)' = pool_of(u)
    BY Pools DEF pool_of
  <2>2. exhausted(pool_of(u)) => exhausted(pool_of(u))'
    <3> DEFINE pool == pool_of(u)
    <3>1. pool \in PoolFlag
      BY <2>1
    <3> HIDE DEF pool
    <3>2. exhausted(pool) => exhausted(pool)'
      BY SMT, <3>1 DEF exhausted, frames, pool
    <3> QED
      BY <3>2 DEF pool
  <2> QED
    BY <2>1, <2>2, StaysExhausted
<1> QED
  BY SMT, <1>1, <1>2 DEF CallOK, Same, pool_of

LEMMA LeakCallKeeps ==
    ASSUME MemInv, LeakInv, NEW t \in Thread, Call(t)
    PROVE  LeakInv'
<1>1. PICK function, page, n, where :
         /\ enter(t, function, page, n, where)
         /\ \/ t \in Kernel /\ function = "get_kernel_page" /\ where = "vaddr"
            \/ t \notin Kernel /\ function = "get_user_pages" /\ where = "acquire"
            \/ t \notin Kernel /\ function = "get_a_page" /\ where = "acquire"
  BY SMT, MemoryAssumption DEF Call, get_kernel_page, get_user_pages, get_a_page
<1>2. LocalTypes /\ BookTypes /\ Holders /\ LockAccounts /\ Accounts
  BY SMT DEF MemInv, MemTypeOK, LocalTypes, LeakInv
<1>3. /\ location[t] = "idle"
      /\ location' = [location EXCEPT ![t] = where]
      /\ call' = [call EXCEPT ![t] = function]
      /\ vaddr' = [vaddr EXCEPT ![t] = page]
      /\ pg_cnt' = [pg_cnt EXCEPT ![t] = n]
      /\ UNCHANGED << pool_bitmap, vaddr_bitmap, tables, locks, bit_idx, page_phyaddr >>
  BY SMT, <1>1 DEF enter, at, goto, maps
<1>4. /\ location'[t] = where /\ call'[t] = function
      /\ \A u \in Thread \ {t} : Same(u)
  BY SMT, <1>2, <1>3 DEF LocalTypes, Same
<1>5. CallOK(t)'
  BY SMT, <1>1, <1>4 DEF CallOK, no_call
<1>6. \A u \in Thread : CallOK(u)'
  BY <1>3, <1>4, <1>5, CallsKept
<1>7. BookTypes' /\ Holders'
  BY SMT, <1>2, <1>3 DEF BookTypes, Holders, locks, pool_of
<1>8. Accounts'
  <2>1. \A s \in Space, page_1 \in Int : ~about(t, s, page_1)
    BY SMT, <1>3 DEF about, past
  <2>2. t \notin Carrier
    BY SMT, <1>3 DEF Carrier
  <2> QED
    BY <1>3, <1>4, <2>1, <2>2, QuietAccounts
<1>9. LockAccounts'
  <2>1. ASSUME NEW pool \in PoolFlag PROVE LockAccounted(pool)'
    <3>1. LockAccounted(pool) /\ holder'[pool] = holder[pool]
          /\ holder_repeat_nr'[pool] = holder_repeat_nr[pool]
      BY SMT, <1>2, <1>3 DEF LockAccounts, locks
    <3>2. CASE exhausted(pool)
      BY SMT, <1>3, <3>2 DEF LockAccounted, exhausted, frames
    <3>3. CASE holder[pool] = nobody /\ holder_repeat_nr[pool] = 0
      BY <3>1, <3>3 DEF LockAccounted
    <3>4. CASE holder[pool] # nobody /\ holder_repeat_nr[pool] = 1 /\ working(holder[pool])
      <4>1. holder[pool] \in Thread /\ holder[pool] # t
        BY SMT, <1>2, <1>3, <3>4 DEF Holders, working
      <4>2. working(holder[pool])'
        BY SMT, <1>4, <3>1, <3>4, <4>1 DEF working, Same
      <4> QED
        BY <3>1, <3>4, <4>2 DEF LockAccounted
    <3> QED
      BY <3>1, <3>2, <3>3, <3>4 DEF LockAccounted
  <2> QED
    BY <2>1 DEF LockAccounts
<1> QED
  BY <1>6, <1>7, <1>8, <1>9 DEF LeakInv

LEMMA LeakAcquireKeeps ==
    ASSUME MemInv, LeakInv, NEW t \in Thread, lock_acquire(t)
    PROVE  LeakInv'
<1> DEFINE pool == pool_of(t)
           then == IF call[t] = "get_a_page" THEN "place" ELSE "vaddr"
<1>1. /\ LocalTypes /\ BookTypes /\ Holders /\ LockAccounts /\ Accounts /\ CallOK(t)
      /\ holder \in [PoolFlag -> Thread \cup {nobody}]
      /\ pool \in PoolFlag /\ nobody \notin Thread
  BY SMT, Pools DEF MemInv, MemTypeOK, LocalTypes, LeakInv
<1>2. /\ location[t] = "acquire"
      /\ holder[pool] \in {nobody, t}
      /\ holder' = [holder EXCEPT ![pool] = t]
      /\ holder_repeat_nr' = [holder_repeat_nr EXCEPT ![pool] = @ + 1]
      /\ location' = [location EXCEPT ![t] = then]
      /\ UNCHANGED << pool_bitmap, vaddr_bitmap, tables, call, vaddr, pg_cnt, bit_idx, page_phyaddr >>
  BY SMT DEF lock_acquire, at, goto, maps, locals
<1>3. /\ location'[t] = then
      /\ \A u \in Thread \ {t} : Same(u)
  BY SMT, <1>1, <1>2 DEF LocalTypes, Same
<1>4. CallOK(t)'
  BY SMT, <1>1, <1>2, <1>3 DEF CallOK
<1>5. \A u \in Thread : CallOK(u)'
  BY <1>2, <1>3, <1>4, CallsKept
<1>6. t \notin Kernel
  BY SMT, <1>1, <1>2 DEF CallOK
<1>7. BookTypes'
  BY SMT, <1>1, <1>2 DEF BookTypes
<1>8. ASSUME NEW p \in PoolFlag
      PROVE  holder'[p] = (IF p = pool THEN t ELSE holder[p])
             /\ holder_repeat_nr'[p] = (IF p = pool THEN holder_repeat_nr[p] + 1 ELSE holder_repeat_nr[p])
  BY SMT, <1>1, <1>2 DEF BookTypes
<1>9. Holders'
  <2>1. \A u : pool_of(u)' = pool_of(u)
    BY DEF pool_of
  <2> QED
    BY SMT, <1>1, <1>6, <1>8, <2>1 DEF Holders
<1>10. Accounts'
  <2>1. \A s \in Space, page \in Int : ~about(t, s, page)
    BY SMT, <1>2 DEF about, past
  <2>2. t \notin Carrier
    BY SMT, <1>2 DEF Carrier
  <2> QED
    BY <1>2, <1>3, <2>1, <2>2, QuietAccounts
<1>11. LockAccounts'
  <2>1. working(t)' /\ ~working(t)
    BY SMT, <1>2, <1>3 DEF working
  <2>2. ASSUME NEW p \in PoolFlag PROVE LockAccounted(p)'
    <3>1. LockAccounted(p)
      BY <1>1 DEF LockAccounts
    <3>2. CASE exhausted(p)
      BY SMT, <1>2, <3>2 DEF LockAccounted, exhausted, frames
    <3>3. CASE ~exhausted(p) /\ p = pool
      <4>1. holder[p] = nobody /\ holder_repeat_nr[p] = 0
        BY <1>2, <2>1, <3>1, <3>3 DEF LockAccounted
      <4>2. holder'[p] = t /\ holder_repeat_nr'[p] = 1
        BY SMT, <1>8, <3>3, <4>1
      <4> QED
        BY <1>1, <2>1, <4>2 DEF LockAccounted
    <3>4. CASE ~exhausted(p) /\ p # pool
      <4>1. holder'[p] = holder[p] /\ holder_repeat_nr'[p] = holder_repeat_nr[p]
        BY <1>8, <3>4
      <4>2. CASE holder[p] = nobody
        BY <3>1, <3>4, <4>1, <4>2 DEF LockAccounted
      <4>3. CASE holder[p] # nobody
        <5>1. working(holder[p]) /\ holder[p] \in Thread /\ holder_repeat_nr[p] = 1
          BY <1>1, <3>1, <3>4, <4>3 DEF LockAccounted, Holders
        <5>2. working(holder[p])'
          BY SMT, <1>3, <2>1, <4>1, <5>1 DEF working, Same
        <5> QED
          BY <4>1, <4>3, <5>1, <5>2 DEF LockAccounted
      <4> QED
        BY <4>2, <4>3
    <3> QED
      BY <3>2, <3>3, <3>4
  <2> QED
    BY <2>2 DEF LockAccounts
<1> QED
  BY <1>5, <1>7, <1>9, <1>10, <1>11 DEF LeakInv

LEMMA LeakReleaseKeeps ==
    ASSUME MemInv, LeakInv, NEW t \in Thread, lock_release(t)
    PROVE  LeakInv'
<1> DEFINE pool == pool_of(t)
<1>1. /\ BookTypes /\ Holders /\ LockAccounts /\ Accounts /\ CallOK(t)
      /\ holder \in [PoolFlag -> Thread \cup {nobody}]
      /\ pool \in PoolFlag /\ nobody \notin Thread
  BY SMT, Pools DEF MemInv, MemTypeOK, LeakInv
<1>2. /\ location[t] = "release" /\ return(t)
      /\ IF holder_repeat_nr[pool] > 1 THEN UNCHANGED holder
         ELSE holder' = [holder EXCEPT ![pool] = nobody]
      /\ holder_repeat_nr' = [holder_repeat_nr EXCEPT ![pool] = @ - 1]
      /\ UNCHANGED << pool_bitmap, vaddr_bitmap, tables >>
  BY SMT DEF lock_release, at, maps
<1>3. /\ location'[t] = "idle" /\ \A u \in Thread \ {t} : Same(u)
  BY <1>2, Returned
<1>4. working(t) /\ t \notin Kernel /\ holder[pool] = t
  BY SMT, <1>1, <1>2 DEF working, CallOK, MemInv, Exclusion
<1>5. CallOK(t)'
  <2>1. call'[t] = no_call
    BY SMT, <1>2 DEF return, MemInv, MemTypeOK
  <2> QED
    BY SMT, <1>3, <2>1 DEF CallOK, no_call
<1>6. \A u \in Thread : CallOK(u)'
  BY <1>2, <1>3, <1>5, CallsKept
<1>7. BookTypes'
  BY SMT, <1>1, <1>2 DEF BookTypes
<1>8. ASSUME NEW p \in PoolFlag, p # pool
      PROVE  holder'[p] = holder[p] /\ holder_repeat_nr'[p] = holder_repeat_nr[p]
  BY SMT, <1>1, <1>2, <1>8 DEF BookTypes
<1>9. Holders'
  <2>1. \A u : pool_of(u)' = pool_of(u)
    BY DEF pool_of
  <2>2. holder'[pool] \in {nobody, t}
    BY SMT, <1>1, <1>2, <1>4
  <2>3. ASSUME NEW p \in PoolFlag, holder'[p] # nobody
        PROVE  holder'[p] \in Thread \ Kernel /\ pool_of(holder'[p]) = p
    <3>1. CASE p = pool
      BY <1>4, <2>2, <2>3, <3>1
    <3>2. CASE p # pool
      BY <1>1, <1>8, <2>3, <3>2 DEF Holders
    <3> QED
      BY <3>1, <3>2
  <2> QED
    BY <2>1, <2>3 DEF Holders
<1>10. Accounts'
  <2>1. \A s \in Space, page \in Int : ~about(t, s, page)
    BY SMT, <1>2 DEF about, past
  <2>2. t \notin Carrier
    BY SMT, <1>2 DEF Carrier
  <2> QED
    BY <1>2, <1>3, <2>1, <2>2, QuietAccounts
<1>11. ASSUME NEW p \in PoolFlag PROVE LockAccounted(p)'
  <2>1. LockAccounted(p)
    BY <1>1 DEF LockAccounts
  <2>2. CASE exhausted(p)
    BY SMT, <1>2, <2>2 DEF LockAccounted, exhausted, frames
  <2>3. CASE ~exhausted(p) /\ p = pool
    <3>1. holder_repeat_nr[p] = 1
      BY <1>1, <1>4, <2>1, <2>3 DEF LockAccounted
    <3>2. holder'[p] = nobody /\ holder_repeat_nr'[p] = 0
      BY SMT, <1>1, <1>2, <2>3, <3>1 DEF BookTypes
    <3> QED
      BY <3>2 DEF LockAccounted
  <2>4. CASE ~exhausted(p) /\ p # pool
    <3>1. holder'[p] = holder[p] /\ holder_repeat_nr'[p] = holder_repeat_nr[p]
      BY <1>8, <2>4
    <3>2. holder[p] = nobody
      <4> SUFFICES ASSUME holder[p] # nobody PROVE FALSE
        OBVIOUS
      <4>1. working(holder[p]) /\ holder[p] \in Thread /\ pool_of(holder[p]) = p
        BY <1>1, <2>1, <2>4 DEF LockAccounted, Holders
      <4>2. holder[p] = t
        BY <1>4, <4>1, Alone DEF MemInv
      <4> QED
        BY <2>4, <4>1, <4>2
    <3> QED
      BY <2>1, <2>4, <3>1, <3>2 DEF LockAccounted
  <2> QED
    BY <2>2, <2>3, <2>4
<1> QED
  BY <1>6, <1>7, <1>9, <1>10, <1>11 DEF LeakInv, LockAccounts

LEMMA LeakPlaceKeeps ==
    ASSUME MemInv, LeakInv, NEW t \in Thread, place(t)
    PROVE  LeakInv'
<1>1. /\ LocalTypes /\ LocalOK(t) /\ BookTypes /\ CallOK(t) /\ location[t] = "place"
      /\ UNCHANGED << pool_bitmap, tables, locks, locals >>
  BY SMT DEF MemInv, MemTypeOK, LocalTypes, LeakInv, place, at
<1>2. \/ location' = location /\ vaddr_bitmap' = vaddr_bitmap
      \/ /\ location' = [location EXCEPT ![t] = "palloc"]
         /\ vaddr_bitmap' = [vaddr_bitmap EXCEPT ![space_of(t)] = @ \cup {vaddr[t]}]
  BY SMT DEF place, goto
<1>3. /\ location'[t] \in {"place", "palloc"}
      /\ \A u \in Thread \ {t} : Same(u)
  BY SMT, <1>1, <1>2 DEF LocalTypes, Same, locals
<1>4. CallOK(t)'
  BY SMT, <1>1, <1>3 DEF CallOK, locals
<1>5. \A u \in Thread : CallOK(u)'
  BY <1>1, <1>3, <1>4, CallsKept
<1>6. BookTypes'
  <2>1. vaddr[t] \in Int /\ space_of(t) \in Space
    BY SMT, <1>1, Pools DEF LocalTypes
  <2> QED
    BY SMT, <1>1, <1>2, <2>1 DEF BookTypes, locks
<1>7. Accounts'
  <2>1. ASSUME NEW s \in Space, NEW page \in vaddr_bitmap'[s]
        PROVE  page \in vaddr_bitmap[s] \/ about(t, s, page)'
    <3>1. CASE location' = location /\ vaddr_bitmap' = vaddr_bitmap
      BY <3>1
    <3>2. CASE /\ location' = [location EXCEPT ![t] = "palloc"]
               /\ vaddr_bitmap' = [vaddr_bitmap EXCEPT ![space_of(t)] = @ \cup {vaddr[t]}]
      <4>1. page \in vaddr_bitmap[s] \/ (s = space_of(t) /\ page = vaddr[t])
        BY SMT, <1>1, <2>1, <3>2 DEF BookTypes
      <4>2. /\ location'[t] = "palloc" /\ vaddr'[t] = vaddr[t] /\ pg_cnt'[t] = 1
            /\ vaddr[t] \in Int /\ space_of(t)' = space_of(t)
        BY SMT, <1>1, <3>2 DEF LocalTypes, LocalOK, locals, space_of
      <4> QED
        BY SMT, <4>1, <4>2 DEF about, past
    <3> QED
      BY <1>2, <3>1, <3>2
  <2>2. \A s \in Space, page \in Int : ~about(t, s, page)
    BY SMT, <1>1 DEF about, past
  <2>3. t \notin Carrier
    BY SMT, <1>1 DEF Carrier
  <2> QED
    BY <1>1, <1>3, <2>1, <2>2, <2>3, QuietAccounts
<1>8. LockAccounts' /\ Holders'
  <2>1. working(t) /\ working(t)'
    BY SMT, <1>1, <1>3 DEF working
  <2> QED
    BY <1>1, <1>3, <2>1, LocksKept
<1> QED
  BY <1>5, <1>6, <1>7, <1>8 DEF LeakInv

\* A scan for one bit fails only when all are set.
LEMMA ScannedNone ==
    ASSUME NEW t \in Thread, NEW held, NEW limit \in Nat, NEW then,
           bit_idx \in [Thread -> Int], scan_for(t, held, limit, 1, then)
    PROVE  \/ halted' = TRUE /\ bit_idx' = bit_idx /\ location' = location
           \/ bit_idx'[t] = -1 => 0..(limit - 1) \subseteq held
<1>1. CASE 0..(limit - 1) \subseteq held /\ ~ndebug
  BY SMT, <1>1 DEF scan_for
<1>2. CASE ~(0..(limit - 1) \subseteq held /\ ~ndebug)
  <2>1. PICK i \in first(held, limit, 1) : bit_idx' = [bit_idx EXCEPT ![t] = i]
    BY SMT, <1>2 DEF scan_for
  <2>2. bit_idx'[t] = i
    BY SMT, <2>1
  <2>3. i = -1 => runs(held, limit, 1) = {}
    BY SMT, <2>1 DEF first, runs
  <2>4. ASSUME runs(held, limit, 1) = {}, NEW j \in 0..(limit - 1) PROVE j \in held
    <3>1. j..(j + 1 - 1) = {j}
      BY SMT
    <3>2. held \cap j..(j + 1 - 1) # {}
      BY SMT, <2>4 DEF runs
    <3> QED
      BY <3>1, <3>2
  <2> QED
    BY <2>2, <2>3, <2>4
<1> QED
  BY <1>1, <1>2

LEMMA LeakScanKeeps ==
    ASSUME MemInv, LeakInv, NEW t \in Thread, NEW then,
           NEW held, NEW limit \in Nat, NEW n \in Int, n >= 1,
           scan_for(t, held, limit, n, then),
           UNCHANGED << fixed, maps, tables, locks, call, vaddr, pg_cnt, page_phyaddr >>,
           \/ location[t] = "vaddr" /\ then = "reserve"
           \/ /\ location[t] = "palloc" /\ then = "take" /\ n = 1
              /\ limit = frames(pool_of(t)) /\ held = pool_bitmap[pool_of(t)]
           \/ /\ location[t] = "palloc_table" /\ then = "take_table" /\ n = 1
              /\ limit = kernel_frames /\ held = pool_bitmap[PF_KERNEL]
    PROVE  LeakInv'
<1>1. LocalTypes /\ BookTypes /\ CallOK(t)
  BY SMT DEF MemInv, MemTypeOK, LocalTypes, LeakInv
<1>2. UNCHANGED << pool_bitmap, vaddr_bitmap, tables, locks >>
  BY SMT DEF maps
<1>3. bit_idx \in [Thread -> Int] /\ location \in [Thread -> Where]
  BY SMT, <1>1 DEF LocalTypes
<1> DEFINE stays == bit_idx' = bit_idx /\ location' = location
           goes == /\ bit_idx' \in [Thread -> Int] /\ location' \in [Thread -> Where]
                   /\ location' = [location EXCEPT ![t] = then]
                   /\ \A u \in Thread \ {t} : bit_idx'[u] = bit_idx[u]
                   /\ bit_idx'[t] # -1 => /\ bit_idx'[t] \in 0..(limit - 1) \ held
                                          /\ n = 1 => bit_idx'[t] + n - 1 <= limit - 1
                                          /\ bit_idx'[t] + n - 1 <= limit
<1>4. stays \/ goes
  <2>1. then \in Where
    BY SMT DEF Where
  <2> QED
    BY <1>3, <2>1, Scanned
<1>5. /\ location'[t] = location[t] \/ location'[t] = then
      /\ \A u \in Thread \ {t} : Same(u)
  <2>1. \A u \in Thread \ {t} : location'[u] = location[u] /\ bit_idx'[u] = bit_idx[u]
    BY SMT, <1>3, <1>4
  <2>2. location'[t] = location[t] \/ location'[t] = then
    BY SMT, <1>3, <1>4
  <2> QED
    BY SMT, <2>1, <2>2 DEF Same
<1>6. CallOK(t)'
  <2>1. CASE stays
    BY SMT, <1>1, <1>2, <2>1 DEF CallOK, exhausted, frames, pool_of
  <2>2. CASE ~stays
    <3>1. location'[t] = then
      BY SMT, <1>3, <1>4, <2>2
    <3>2. then = "take" /\ bit_idx'[t] = -1 => exhausted(pool_of(t))'
      <4> SUFFICES ASSUME then = "take", bit_idx'[t] = -1 PROVE exhausted(pool_of(t))'
        OBVIOUS
      <4>1. n = 1
        BY SMT
      <4>2. 0..(limit - 1) \subseteq held
        BY <1>3, <2>2, <4>1, ScannedNone
      <4> QED
        BY SMT, <1>2, <4>2 DEF exhausted, frames, pool_of
    <3>3. then = "take_table" /\ bit_idx'[t] = -1 => exhausted(PF_KERNEL)'
      <4> SUFFICES ASSUME then = "take_table", bit_idx'[t] = -1 PROVE exhausted(PF_KERNEL)'
        OBVIOUS
      <4>1. n = 1
        BY SMT
      <4>2. 0..(limit - 1) \subseteq held
        BY <1>3, <2>2, <4>1, ScannedNone
      <4> QED
        BY SMT, <1>2, <4>2 DEF exhausted, frames
    <3>4. pool_of(t)' = pool_of(t)
      BY DEF pool_of
    <3> QED
      BY SMT, <1>1, <3>1, <3>2, <3>3, <3>4 DEF CallOK
  <2> QED
    BY <2>1, <2>2
<1>7. \A u \in Thread : CallOK(u)'
  BY <1>2, <1>5, <1>6, CallsKept
<1>8. BookTypes'
  BY SMT, <1>1, <1>2 DEF BookTypes, locks
<1>9. Accounts'
  <2>1. ASSUME NEW s \in Space, NEW page \in Int, about(t, s, page) PROVE PageAccounted(s, page)'
    <3>1. about(t, s, page)'
      BY SMT, <1>5, <2>1 DEF about, past, space_of
    <3> QED
      BY <3>1 DEF PageAccounted
  <2>2. t \in Carrier => t \in Carrier' /\ page_phyaddr'[t] = page_phyaddr[t]
    BY SMT, <1>5 DEF Carrier
  <2> QED
    BY <1>2, <1>5, <2>1, <2>2, QuietAccounts
<1>10. LockAccounts' /\ Holders'
  <2>1. working(t) /\ working(t)'
    BY SMT, <1>5 DEF working
  <2> QED
    BY <1>2, <1>5, <2>1, LocksKept
<1> QED
  BY <1>7, <1>8, <1>9, <1>10 DEF LeakInv

LEMMA LeakVaddrGetKeeps ==
    ASSUME MemInv, LeakInv, NEW t \in Thread, vaddr_get(t)
    PROVE  LeakInv'
<1> DEFINE held == vaddr_bitmap[space_of(t)]
           n == pg_cnt[t]
<1>1. LocalTypes /\ LocalOK(t)
  BY SMT DEF MemInv, MemTypeOK, LocalTypes
<1>2. /\ location[t] = "vaddr" /\ n \in Int /\ n >= 1 /\ Pages \in Nat
      /\ scan_for(t, held, Pages, n, "reserve")
      /\ UNCHANGED << fixed, maps, tables, locks, call, vaddr, pg_cnt, page_phyaddr >>
  BY SMT, <1>1, Pools DEF vaddr_get, at, LocalTypes, LocalOK
<1> HIDE DEF held, n
<1> QED
  BY <1>2, LeakScanKeeps

LEMMA LeakPallocScanKeeps ==
    ASSUME MemInv, LeakInv, NEW t \in Thread, palloc_scan(t)
    PROVE  LeakInv'
<1> DEFINE held == pool_bitmap[pool_of(t)]
           limit == frames(pool_of(t))
<1>1. /\ location[t] = "palloc" /\ limit \in Nat
      /\ scan_for(t, held, limit, 1, "take")
      /\ UNCHANGED << fixed, maps, tables, locks, call, vaddr, pg_cnt, page_phyaddr >>
      /\ held = pool_bitmap[pool_of(t)] /\ limit = frames(pool_of(t))
  BY SMT, Pools DEF palloc_scan, at
<1> HIDE DEF held, limit
<1>2. 1 \in Int /\ 1 >= 1
  BY SMT
<1> QED
  BY <1>1, <1>2, LeakScanKeeps

LEMMA LeakPallocTableScanKeeps ==
    ASSUME MemInv, LeakInv, NEW t \in Thread, palloc_table_scan(t)
    PROVE  LeakInv'
<1> DEFINE held == pool_bitmap[PF_KERNEL]
<1>1. /\ location[t] = "palloc_table" /\ kernel_frames \in Nat
      /\ scan_for(t, held, kernel_frames, 1, "take_table")
      /\ UNCHANGED << fixed, maps, tables, locks, call, vaddr, pg_cnt, page_phyaddr >>
      /\ held = pool_bitmap[PF_KERNEL]
  BY SMT, Pools DEF palloc_table_scan, at
<1> HIDE DEF held
<1>2. 1 \in Int /\ 1 >= 1
  BY SMT
<1> QED
  BY <1>1, <1>2, LeakScanKeeps

LEMMA LeakUnchanged ==
    ASSUME LeakInv, UNCHANGED << maps, tables, locks, location, locals >>
    PROVE  LeakInv'
<1>1. UNCHANGED << pool_bitmap, vaddr_bitmap, pde, pte, holder, holder_repeat_nr, location, call,
                   vaddr, pg_cnt, bit_idx, page_phyaddr >>
  BY SMT DEF maps, tables, locks, locals
<1>2. BookTypes' /\ Holders'
  BY SMT, <1>1 DEF LeakInv, BookTypes, Holders, pool_of
<1>3. \A t \in Thread : CallOK(t)'
  BY SMT, <1>1 DEF LeakInv, CallOK, exhausted, frames, pool_of
<1>4. /\ Mapped' = Mapped /\ Directory' = Directory /\ Carrier' = Carrier
      /\ \A m \in Mapped : frame_at(m[1], m[2])' = frame_at(m[1], m[2])
      /\ \A pool : exhausted(pool)' = exhausted(pool)
      /\ \A t, s, page : about(t, s, page)' = about(t, s, page)
  BY <1>1 DEF Mapped, Directory, Carrier, frame_at, exhausted, about, past, frames, space_of
<1>5. Accounts'
  BY <1>1, <1>4 DEF LeakInv, Accounts, PageAccounted, FrameAccounted
<1>6. LockAccounts'
  BY <1>1, <1>4 DEF LeakInv, LockAccounts, LockAccounted, working
<1> QED
  BY <1>2, <1>3, <1>5, <1>6 DEF LeakInv

\* A call that fails leaves its pages, and its lock, behind only in an empty pool.
LEMMA LeakFailKeeps ==
    ASSUME MemInv, LeakInv, NEW t \in Thread, working(t), t \notin Carrier, fail(t),
           call[t] = "get_user_pages" \/ t \in Kernel \/ exhausted(pool_of(t)),
           \A s \in Space, page \in Int : about(t, s, page) => PageAccounted(s, page)'
    PROVE  LeakInv'
<1>1. UNCHANGED << maps, tables, locks >>
  BY SMT DEF fail
<1>2. CASE UNCHANGED << location, locals >>
  BY SMT, <1>1, <1>2, LeakUnchanged
<1>3. CASE return(t) /\ call[t] # "get_user_pages"
  <2>1. UNCHANGED << pool_bitmap, vaddr_bitmap, tables, locks >>
    BY SMT, <1>1 DEF maps
  <2>2. location'[t] = "idle" /\ \A u \in Thread \ {t} : Same(u)
    BY <1>3, Returned
  <2>3. call'[t] = no_call
    BY SMT, <1>3 DEF return, MemInv, MemTypeOK
  <2>4. CallOK(t)'
    BY SMT, <2>2, <2>3 DEF CallOK, no_call
  <2>5. \A u \in Thread : CallOK(u)'
    BY <2>1, <2>2, <2>4, CallsKept
  <2>6. BookTypes'
    BY SMT, <2>1 DEF LeakInv, BookTypes, locks
  <2>7. Accounts'
    BY <2>1, <2>2, QuietAccounts
  <2>8. LockAccounts' /\ Holders'
    BY <1>3, <2>1, <2>2, LocksAfterReturn
  <2> QED
    BY <2>5, <2>6, <2>7, <2>8 DEF LeakInv
<1> QED
  BY SMT, <1>2, <1>3 DEF fail

LEMMA LeakReserveKeeps ==
    ASSUME MemInv, LeakInv, NEW t \in Thread, reserve(t)
    PROVE  LeakInv'
<1>1. /\ LocalTypes /\ LocalOK(t) /\ BookTypes /\ CallOK(t) /\ location[t] = "reserve"
  BY SMT DEF MemInv, MemTypeOK, LocalTypes, LeakInv, reserve, at
<1>2. working(t) /\ t \notin Carrier
  BY SMT, <1>1 DEF working, Carrier
<1>3. \A s \in Space, page \in Int : ~about(t, s, page)
  BY SMT, <1>1 DEF about, past
<1>4. CASE bit_idx[t] = -1
  <2>1. call[t] = "get_user_pages" \/ t \in Kernel
    BY SMT, <1>1 DEF CallOK, LocalTypes, Function
  <2>2. fail(t)
    BY <1>4 DEF reserve
  <2> QED
    BY <1>2, <1>3, <2>1, <2>2, LeakFailKeeps
<1>5. CASE bit_idx[t] # -1
  <2> DEFINE range == bit_idx[t]..(bit_idx[t] + pg_cnt[t] - 1)
  <2>1. /\ location' = [location EXCEPT ![t] = "palloc"]
        /\ vaddr' = [vaddr EXCEPT ![t] = bit_idx[t]]
        /\ bit_idx' = [bit_idx EXCEPT ![t] = -1]
        /\ vaddr_bitmap' = [vaddr_bitmap EXCEPT ![space_of(t)] = @ \cup range]
        /\ UNCHANGED << pool_bitmap, tables, locks, call, pg_cnt, page_phyaddr >>
    BY SMT, <1>1, <1>5 DEF reserve, goto
  <2>2. location'[t] = "palloc" /\ vaddr'[t] = bit_idx[t] /\ pg_cnt'[t] = pg_cnt[t]
    BY SMT, <1>1, <2>1 DEF LocalTypes
  <2>3. \A u \in Thread \ {t} : Same(u)
    BY SMT, <1>1, <2>1 DEF LocalTypes, Same
  <2>4. CallOK(t)'
    BY SMT, <1>1, <2>1, <2>2 DEF CallOK
  <2>5. \A u \in Thread : CallOK(u)'
    BY <2>1, <2>3, <2>4, CallsKept
  <2>6. range \subseteq Int
    BY SMT, <1>1 DEF LocalTypes
  <2>7. BookTypes'
    <3> DEFINE space == space_of(t)
    <3>1. space \in Space
      BY Pools
    <3>2. /\ vaddr_bitmap' = [vaddr_bitmap EXCEPT ![space] = @ \cup range]
          /\ holder_repeat_nr' = holder_repeat_nr
      BY SMT, <2>1 DEF locks
    <3>3. vaddr_bitmap \in [Space -> SUBSET Int] /\ holder_repeat_nr \in [PoolFlag -> Int]
      BY <1>1 DEF BookTypes
    <3> HIDE DEF range, space
    <3>4. vaddr_bitmap[space] \cup range \in SUBSET Int
      BY <2>6, <3>1, <3>3
    <3>5. vaddr_bitmap' \in [Space -> SUBSET Int]
      BY <3>1, <3>2, <3>3, <3>4
    <3> QED
      BY <3>2, <3>3, <3>5 DEF BookTypes
  <2>8. Accounts'
    <3>1. ASSUME NEW s \in Space, NEW page \in vaddr_bitmap'[s]
          PROVE  page \in vaddr_bitmap[s] \/ about(t, s, page)'
      <4>1. page \in vaddr_bitmap[s] \/ (s = space_of(t) /\ page \in range)
        <5> HIDE DEF range
        <5> QED
          BY SMT, <1>1, <2>1, <3>1 DEF BookTypes
      <4>2. space_of(t)' = space_of(t)
        BY DEF space_of
      <4> QED
        BY SMT, <2>2, <4>1, <4>2 DEF about, past
    <3> QED
      BY <1>2, <1>3, <2>1, <2>3, <3>1, QuietAccounts
  <2>9. LockAccounts' /\ Holders'
    <3>1. working(t)'
      BY SMT, <2>2 DEF working
    <3> QED
      BY <1>2, <2>1, <2>3, <3>1, LocksKept
  <2> QED
    BY <2>5, <2>7, <2>8, <2>9 DEF LeakInv
<1> QED
  BY <1>4, <1>5

LEMMA LeakPallocSetKeeps ==
    ASSUME MemInv, LeakInv, NEW t \in Thread, palloc_set(t)
    PROVE  LeakInv'
<1> DEFINE pool == pool_of(t)
           i == bit_idx[t]
           frame == << pool, i >>
<1>1. /\ LocalTypes /\ LocalOK(t) /\ MemTypeOK /\ BookTypes /\ Accounts /\ CallOK(t)
      /\ location[t] = "take"
  BY SMT DEF MemInv, MemTypeOK, LocalTypes, LeakInv, palloc_set, at
<1>2. working(t) /\ t \notin Carrier
  BY SMT, <1>1 DEF working, Carrier
<1>3. CASE i = -1
  <2>1. exhausted(pool_of(t)) /\ fail(t)
    BY <1>1, <1>3 DEF CallOK, palloc_set
  <2>2. ASSUME NEW s \in Space, NEW page \in Int, about(t, s, page) PROVE PageAccounted(s, page)'
    <3>1. exhausted(PF_KERNEL) \/ (s # PF_KERNEL /\ exhausted(PF_USER))
      BY <2>1, <2>2, Pools DEF about, pool_of, space_of
    <3>2. pool_bitmap' = pool_bitmap
      BY SMT, <2>1 DEF fail, maps
    <3> QED
      BY SMT, <3>1, <3>2 DEF PageAccounted, exhausted, frames
  <2> QED
    BY <1>2, <2>1, <2>2, LeakFailKeeps
<1>4. CASE i # -1
  <2>1. /\ pool_bitmap' = [pool_bitmap EXCEPT ![pool] = @ \cup {i}]
        /\ page_phyaddr' = [page_phyaddr EXCEPT ![t] = frame]
        /\ bit_idx' = [bit_idx EXCEPT ![t] = -1]
        /\ location' = [location EXCEPT ![t] = "add"]
        /\ UNCHANGED << vaddr_bitmap, pde, pte, locks, call, vaddr, pg_cnt >>
    BY SMT, <1>1, <1>4 DEF palloc_set, goto, taken, tables
  <2>2. pool \in PoolFlag
    BY Pools
  <2>3. \A q \in PoolFlag : pool_bitmap'[q] = IF q = pool THEN pool_bitmap[q] \cup {i}
                                              ELSE pool_bitmap[q]
    <3>1. pool_bitmap \in [PoolFlag -> SUBSET Nat]
      BY <1>1 DEF MemTypeOK
    <3> HIDE DEF pool, i
    <3> QED
      BY <2>1, <2>2, <3>1
  <2>4. location'[t] = "add" /\ page_phyaddr'[t] = frame
    BY SMT, <1>1, <2>1 DEF LocalTypes
  <2>5. \A u \in Thread \ {t} : Same(u)
    BY SMT, <1>1, <2>1 DEF LocalTypes, Same
  <2>6. CallOK(t)'
    BY SMT, <1>1, <2>1, <2>4 DEF CallOK
  <2>7. \A q \in PoolFlag : pool_bitmap[q] \subseteq pool_bitmap'[q]
    BY <2>3
  <2>8. \A u \in Thread : CallOK(u)'
    BY <2>5, <2>6, <2>7, CallsKept
  <2>9. BookTypes'
    BY SMT, <1>1, <2>1 DEF BookTypes, locks
  <2>10. Accounts'
    <3>1. t \in Carrier'
      BY <2>4 DEF Carrier
    <3>2. ASSUME NEW q \in PoolFlag, NEW j \in pool_bitmap'[q]
          PROVE  j \in pool_bitmap[q] \/ FrameAccounted(q, j)'
      <4>1. j \in pool_bitmap[q] \/ (q = pool /\ j = i)
        BY <2>3, <3>2
      <4>2. q = pool /\ j = i => FrameAccounted(q, j)'
        BY <2>4, <3>1 DEF FrameAccounted
      <4> QED
        BY <4>1, <4>2
    <3>3. ASSUME NEW s \in Space, NEW page \in Int, about(t, s, page) PROVE PageAccounted(s, page)'
      <4>1. about(t, s, page)'
        BY <2>1, <2>4, <3>3 DEF about, past, space_of
      <4> QED
        BY <4>1 DEF PageAccounted
    <3>4. ASSUME NEW m \in Mapped
          PROVE  m \in Mapped' /\ frame_at(m[1], m[2])' = frame_at(m[1], m[2])
      BY <2>1 DEF Mapped, frame_at
    <3>5. ASSUME NEW e \in Directory PROVE e \in Directory' /\ pde'[e[1]][e[2]] = pde[e[1]][e[2]]
      BY <2>1 DEF Directory
    <3> QED
      BY <1>1, <1>2, <2>1, <2>5, <2>7, <3>2, <3>3, <3>4, <3>5, AccountsKept
  <2>11. LockAccounts' /\ Holders'
    <3>1. working(t)'
      BY SMT, <2>4 DEF working
    <3> QED
      BY <1>2, <2>1, <2>5, <2>7, <3>1, LocksKept
  <2> QED
    BY <2>8, <2>9, <2>10, <2>11 DEF LeakInv
<1> QED
  BY <1>3, <1>4

\* After a page is mapped, the call goes on with the lock or is over without one.
LEMMA LeakNextPage ==
    ASSUME MemInv, LeakInv, NEW t \in Thread, location[t] \in {"add", "take_table"}, next_page(t)
    PROVE  /\ CallOK(t)' /\ \A u \in Thread \ {t} : Same(u)
           /\ working(t)' \/ t \in Kernel
           /\ \A s \in Space, page \in Int :
                 about(t, s, page) => about(t, s, page)' \/ (s = space_of(t) /\ page = vaddr[t])
<1>1. /\ LocalTypes /\ LocalOK(t) /\ CallOK(t)
  BY SMT DEF MemInv, MemTypeOK, LocalTypes, LeakInv
<1>2. \A u \in Thread \ {t} : Same(u)
  BY NextPage
<1>3. CASE pg_cnt[t] = 1 /\ call[t] = "get_kernel_page"
  <2>1. location'[t] = "idle" /\ call'[t] = no_call
    BY SMT, <1>1, <1>3 DEF next_page, return, goto, LocalTypes
  <2>2. CallOK(t)'
    BY SMT, <2>1 DEF CallOK, no_call
  <2>3. t \in Kernel
    BY SMT, <1>1, <1>3 DEF CallOK
  <2>4. \A s \in Space, page \in Int : about(t, s, page) => s = space_of(t) /\ page = vaddr[t]
    BY SMT, <1>1, <1>3 DEF about, LocalTypes
  <2> QED
    BY <1>2, <2>2, <2>3, <2>4
<1>4. CASE ~(pg_cnt[t] = 1 /\ call[t] = "get_kernel_page")
  <2>1. /\ location'[t] = (IF pg_cnt[t] = 1 THEN "release" ELSE "palloc")
        /\ vaddr'[t] = vaddr[t] + 1 /\ pg_cnt'[t] = pg_cnt[t] - 1 /\ call'[t] = call[t]
    BY SMT, <1>1, <1>4 DEF next_page, goto, LocalTypes
  <2>2. CallOK(t)' /\ working(t)'
    BY SMT, <1>1, <1>4, <2>1 DEF CallOK, working
  <2>3. ASSUME NEW s \in Space, NEW page \in Int, about(t, s, page)
        PROVE  about(t, s, page)' \/ (s = space_of(t) /\ page = vaddr[t])
    <3>1. /\ space_of(t) = s /\ page \in vaddr[t]..(vaddr[t] + pg_cnt[t] - 1)
          /\ vaddr[t] \in Int /\ pg_cnt[t] \in Int /\ space_of(t)' = space_of(t)
      BY SMT, <1>1, <2>3 DEF about, LocalTypes, space_of
    <3>2. page # vaddr[t] =>
             pg_cnt[t] # 1 /\ page \in (vaddr[t] + 1)..((vaddr[t] + 1) + (pg_cnt[t] - 1) - 1)
      BY SMT, <3>1
    <3>3. page # vaddr[t] => about(t, s, page)'
      BY SMT, <2>1, <3>1, <3>2 DEF about, past
    <3> QED
      BY <3>1, <3>3
  <2> QED
    BY <1>2, <2>2, <2>3
<1> QED
  BY <1>3, <1>4

LEMMA LeakTableAddKeeps ==
    ASSUME MemInv, LeakInv, NEW t \in Thread, page_table_add(t)
    PROVE  LeakInv'
<1> DEFINE table == table_of(t)
           slot == PTE_IDX(vaddr[t])
           frame == page_phyaddr[t]
<1>1. /\ LocalTypes /\ MemTypeOK /\ BookTypes /\ Accounts /\ CallOK(t) /\ location[t] = "add"
      /\ UNCHANGED << pool_bitmap, vaddr_bitmap, pde, locks >>
  BY SMT DEF MemInv, MemTypeOK, LocalTypes, LeakInv, page_table_add, at, maps
<1>2. working(t) /\ t \in Carrier
  BY SMT, <1>1 DEF working, Carrier
<1>3. \A q \in PoolFlag : pool_bitmap[q] \subseteq pool_bitmap'[q]
  BY <1>1
<1>4. BookTypes'
  BY SMT, <1>1 DEF BookTypes, locks
<1>5. CASE table = NotPresent
  <2>1. location' = [location EXCEPT ![t] = "palloc_table"] /\ UNCHANGED << pte, locals >>
    BY SMT, <1>5 DEF page_table_add, goto
  <2>2. /\ location'[t] = "palloc_table" /\ page_phyaddr'[t] = page_phyaddr[t]
        /\ \A u \in Thread \ {t} : Same(u)
    BY SMT, <1>1, <2>1 DEF LocalTypes, Same, locals
  <2>3. CallOK(t)'
    BY SMT, <1>1, <2>1, <2>2 DEF CallOK, locals
  <2>4. \A u \in Thread : CallOK(u)'
    BY <1>3, <2>2, <2>3, CallsKept
  <2>5. Accounts'
    <3>1. ASSUME NEW s \in Space, NEW page \in Int, about(t, s, page) PROVE PageAccounted(s, page)'
      <4>1. about(t, s, page)'
        BY SMT, <2>1, <2>2, <3>1 DEF about, past, space_of, locals
      <4> QED
        BY <4>1 DEF PageAccounted
    <3>2. t \in Carrier'
      BY <2>2 DEF Carrier
    <3>3. UNCHANGED << pool_bitmap, tables >>
      BY SMT, <1>1, <2>1 DEF tables
    <3> QED
      BY <1>1, <2>2, <3>1, <3>2, <3>3, QuietAccounts
  <2>6. LockAccounts' /\ Holders'
    <3>1. working(t)'
      BY SMT, <2>2 DEF working
    <3> QED
      BY <1>1, <1>2, <1>3, <2>2, <3>1, LocksKept
  <2> QED
    BY <1>4, <2>4, <2>5, <2>6 DEF LeakInv
<1>6. CASE table # NotPresent /\ pte[table][slot] # NotPresent
  <2>1. UNCHANGED << maps, tables, locks, location, locals >>
    BY SMT, <1>1, <1>6 DEF page_table_add, maps, tables
  <2> QED
    BY <2>1, LeakUnchanged
<1>7. CASE table # NotPresent /\ pte[table][slot] = NotPresent
  <2>1. pte' = [pte EXCEPT ![table][slot] = frame] /\ next_page(t)
    BY SMT, <1>7 DEF page_table_add
  <2>2. /\ CallOK(t)' /\ \A u \in Thread \ {t} : Same(u)
        /\ working(t)' \/ t \in Kernel
        /\ \A s \in Space, page \in Int :
              about(t, s, page) => about(t, s, page)' \/ (s = space_of(t) /\ page = vaddr[t])
    BY <1>1, <2>1, LeakNextPage
  <2>3. \A u \in Thread : CallOK(u)'
    BY <1>3, <2>2, CallsKept
  <2>4. table \in Table /\ slot \in Slot /\ vaddr[t] \in Page /\ space_of(t) \in Space
    BY <1>1, <1>7, Places
  <2>0. PICK where \in Space \X Page : where[1] = space_of(t) /\ where[2] = vaddr[t]
    <3>1. << space_of(t), vaddr[t] >> \in Space \X Page
      BY SMT, <2>4
    <3> QED
      BY SMT, <3>1
  <2>5. frame \in Frame
    BY <1>2 DEF MemInv, FramesInv, CarriedExact
  <2>6. table = pde[where[1]][PDE_IDX(where[2])] /\ slot = PTE_IDX(where[2])
    BY <2>0 DEF table_of
  <2>7. \A a \in Table, j \in Slot :
           pte'[a][j] = IF a = table /\ j = slot THEN frame ELSE pte[a][j]
    <3> HIDE DEF table, slot, frame
    <3> QED
      BY SMT, <1>1, <2>1, <2>4, <2>5 DEF MemTypeOK
  <2>8. where \in Mapped' /\ frame_at(where[1], where[2])' = frame
    <3>1. frame \notin {NotPresent, stale}
      BY <2>5, KindsDiffer
    <3>2. frame_at(where[1], where[2])' = pte'[table][slot]
      <4> HIDE DEF table, slot
      <4> QED
        BY <1>1, <1>7, <2>6 DEF frame_at
    <3>3. pte'[table][slot] = frame
      <4> HIDE DEF table, slot, frame
      <4> QED
        BY <2>4, <2>7
    <3> HIDE DEF table, slot, frame
    <3> QED
      BY <3>1, <3>2, <3>3 DEF Mapped
  <2>9. ASSUME NEW m \in Mapped
        PROVE  m \in Mapped' /\ frame_at(m[1], m[2])' = frame_at(m[1], m[2])
    <3> DEFINE a == pde[m[1]][PDE_IDX(m[2])]
               j == PTE_IDX(m[2])
    <3>1. m \in Space \X Page /\ a # NotPresent /\ frame_at(m[1], m[2]) = pte[a][j]
      BY DEF Mapped, frame_at
    <3>2. a \in Table /\ j \in Slot
      <4>1. m[1] \in Space /\ m[2] \in Page
        BY SMT, <3>1
      <4>2. PDE_IDX(m[2]) \in Page /\ PTE_IDX(m[2]) \in Slot
        BY <4>1, Indices
      <4>3. a \in Table \cup {NotPresent}
        BY <1>1, <4>1, <4>2 DEF MemTypeOK
      <4> QED
        BY <3>1, <4>2, <4>3
    <3>3. ~(a = table /\ j = slot)
      BY <1>7, <3>1 DEF Mapped
    <3>4. pte'[a][j] = pte[a][j]
      <4> HIDE DEF a, j, table, slot, frame
      <4> QED
        BY <2>7, <3>2, <3>3
    <3>5. frame_at(m[1], m[2])' = pte'[a][j]
      BY <1>1, <3>1 DEF frame_at
    <3> QED
      BY <3>1, <3>4, <3>5 DEF Mapped
  <2>10. Accounts'
    <3>1. ASSUME NEW s \in Space, NEW page \in Int, about(t, s, page) PROVE PageAccounted(s, page)'
      <4>1. CASE about(t, s, page)'
        BY <4>1 DEF PageAccounted
      <4>2. CASE s = space_of(t) /\ page = vaddr[t]
        <5>1. where = << s, page >>
          BY SMT, <2>0, <4>2
        <5> QED
          BY <2>8, <5>1 DEF PageAccounted
      <4> QED
        BY <2>2, <3>1, <4>1, <4>2
    <3>2. ASSUME NEW pool, NEW i, page_phyaddr[t] = << pool, i >> PROVE FrameAccounted(pool, i)'
      BY <2>8, <3>2 DEF FrameAccounted
    <3>3. ASSUME NEW e \in Directory PROVE e \in Directory' /\ pde'[e[1]][e[2]] = pde[e[1]][e[2]]
      BY <1>1 DEF Directory
    <3>4. /\ \A s \in Space : \A page \in vaddr_bitmap'[s] : page \in vaddr_bitmap[s]
          /\ \A pool \in PoolFlag : \A i \in pool_bitmap'[pool] : i \in pool_bitmap[pool]
      BY <1>1
    <3> QED
      BY <1>1, <1>3, <2>2, <2>9, <3>1, <3>2, <3>3, <3>4, AccountsKept
  <2>11. LockAccounts' /\ Holders'
    <3>1. CASE working(t)'
      BY <1>1, <1>2, <1>3, <2>2, <3>1, LocksKept
    <3>2. CASE t \in Kernel
      BY <1>1, <1>2, <2>2, <3>2, LocksAfterReturn
    <3> QED
      BY <2>2, <3>1, <3>2
  <2> QED
    BY <1>4, <2>3, <2>10, <2>11 DEF LeakInv
<1> QED
  BY <1>5, <1>6, <1>7

LEMMA LeakTableSetKeeps ==
    ASSUME MemInv, LeakInv, NEW t \in Thread, palloc_table_set(t)
    PROVE  LeakInv'
<1> DEFINE i == bit_idx[t]
           none == i = -1
           table == IF none THEN low_frame ELSE << PF_KERNEL, i >>
           d == PDE_IDX(vaddr[t])
           slot == PTE_IDX(vaddr[t])
           frame == page_phyaddr[t]
           new == [n \in Slot |-> IF n = slot THEN frame ELSE NotPresent]
<1>1. /\ LocalTypes /\ LocalOK(t) /\ MemTypeOK /\ FramesInv
      /\ BookTypes /\ Accounts /\ CallOK(t) /\ location[t] = "take_table"
      /\ IF none THEN UNCHANGED pool_bitmap ELSE taken(PF_KERNEL, i)
      /\ pde' = [pde EXCEPT ![space_of(t)][d] = table]
      /\ pte' = [pte EXCEPT ![table] = new]
      /\ next_page(t)
      /\ UNCHANGED << vaddr_bitmap, locks >>
  BY SMT DEF MemInv, MemTypeOK, LocalTypes, LeakInv, palloc_table_set, at, new_table
<1>2. working(t) /\ t \in Carrier
  BY SMT, <1>1 DEF working, Carrier
<1>3. /\ CallOK(t)' /\ \A u \in Thread \ {t} : Same(u)
      /\ working(t)' \/ t \in Kernel
      /\ \A s \in Space, page \in Int :
            about(t, s, page) => about(t, s, page)' \/ (s = space_of(t) /\ page = vaddr[t])
  BY <1>1, LeakNextPage
<1>4. /\ t \in Process /\ space_of(t) = t /\ t \in Space /\ t # PF_KERNEL
      /\ vaddr[t] \in Page /\ d \in Page /\ slot \in Slot /\ pde[t][d] = NotPresent
  BY SMT, <1>1, Places, Pools DEF LocalOK, space_of, table_of
<1>5. working(t)'
  BY <1>3, <1>4, MemoryAssumption
<1>6. none => exhausted(PF_KERNEL)
  BY <1>1 DEF CallOK
<1>7. ~none => /\ i \in Nat /\ i \notin pool_bitmap[PF_KERNEL] /\ table = << PF_KERNEL, i >>
               /\ table \in Table \cap Frame /\ table[1] # "loader"
               /\ \A p \in Process, n \in Page : pde[p][n] # table
  <2> SUFFICES ASSUME ~none
               PROVE  /\ i \in Nat /\ i \notin pool_bitmap[PF_KERNEL] /\ table = << PF_KERNEL, i >>
                      /\ table \in Table \cap Frame /\ table[1] # "loader"
                      /\ \A p \in Process, n \in Page : pde[p][n] # table
    OBVIOUS
  <2>1. i \in 0..(kernel_frames - 1) /\ i \in Nat /\ i \notin pool_bitmap[PF_KERNEL]
    BY SMT, <1>1, Pools DEF LocalOK, found, frames
  <2>2. table = << PF_KERNEL, i >> /\ table \in Table \cap Frame
    BY <2>1, KindsDiffer
  <2>3. \A p \in Process, n \in Page : pde[p][n] # table
    BY <1>1, <2>1, <2>2, Pools, FreeIsNowhere
  <2> QED
    BY <2>1, <2>2, <2>3, KindsDiffer
<1>8. table \in Table /\ table # NotPresent
  BY <1>7, KindsDiffer
<1>9. /\ \A q \in PoolFlag : pool_bitmap[q] \subseteq pool_bitmap'[q]
      /\ \A q \in PoolFlag : \A j \in pool_bitmap'[q] :
            j \in pool_bitmap[q] \/ (~none /\ q = PF_KERNEL /\ j = i)
  <2>1. CASE none
    BY <1>1, <2>1
  <2>2. CASE ~none
    <3>1. pool_bitmap' = [pool_bitmap EXCEPT ![PF_KERNEL] = @ \cup {i}]
      BY SMT, <1>1, <2>2 DEF taken
    <3>2. pool_bitmap \in [PoolFlag -> SUBSET Nat] /\ PF_KERNEL \in PoolFlag
      BY <1>1, Pools DEF MemTypeOK
    <3>3. \A q \in PoolFlag : pool_bitmap'[q] =
             IF q = PF_KERNEL THEN pool_bitmap[q] \cup {i} ELSE pool_bitmap[q]
      <4> HIDE DEF i
      <4> QED
        BY <3>1, <3>2
    <3> QED
      BY <2>2, <3>3
  <2> QED
    BY <2>1, <2>2
<1>10. frame \in Frame
  BY <1>1, <1>2 DEF FramesInv, CarriedExact
<1>11. /\ \A a \in Table, j \in Slot :
             pte'[a][j] = IF a = table THEN (IF j = slot THEN frame ELSE NotPresent) ELSE pte[a][j]
       /\ \A s \in Space, n \in Page :
             pde'[s][n] = IF s = t /\ n = d THEN table ELSE pde[s][n]
  <2> HIDE DEF table, d, slot, frame, none, i
  <2> QED
    BY SMT, <1>1, <1>4, <1>8, <1>10 DEF MemTypeOK
<1>12. PICK where \in Space \X Page : where[1] = t /\ where[2] = vaddr[t]
  <2>1. << t, vaddr[t] >> \in Space \X Page
    BY SMT, <1>4
  <2> QED
    BY SMT, <2>1
<1>13. where \in Mapped' /\ frame_at(where[1], where[2])' = frame
  <2>1. pde'[where[1]][PDE_IDX(where[2])] = table
    <3>1. PDE_IDX(where[2]) = d
      BY <1>12
    <3> HIDE DEF d, table
    <3> QED
      BY <1>4, <1>11, <1>12, <3>1
  <2>2. pte'[table][PTE_IDX(where[2])] = frame
    <3>1. PTE_IDX(where[2]) = slot
      BY <1>12
    <3> HIDE DEF slot, table, frame
    <3> QED
      BY <1>4, <1>8, <1>11, <3>1
  <2>3. frame \notin {NotPresent, stale}
    BY <1>10, KindsDiffer
  <2> HIDE DEF table, frame
  <2>4. frame_at(where[1], where[2])' = frame
    BY <1>8, <2>1, <2>2 DEF frame_at
  <2> QED
    BY <2>3, <2>4 DEF Mapped
<1>14. ASSUME ~none, NEW m \in Mapped
       PROVE  m \in Mapped' /\ frame_at(m[1], m[2])' = frame_at(m[1], m[2])
  <2> DEFINE n == PDE_IDX(m[2])
             a == pde[m[1]][n]
             j == PTE_IDX(m[2])
  <2>1. m \in Space \X Page /\ a # NotPresent /\ frame_at(m[1], m[2]) = pte[a][j]
    BY DEF Mapped, frame_at
  <2>2. m[1] \in Space /\ m[2] \in Page
    BY SMT, <2>1
  <2>3. n \in Page /\ j \in Slot
    BY <2>2, Indices
  <2>4. a \in Table
    <3>1. a \in Table \cup {NotPresent}
      BY <1>1, <2>2, <2>3 DEF MemTypeOK
    <3> QED
      BY <2>1, <3>1
  <2>5. ~(m[1] = t /\ n = d)
    BY <1>4, <2>1
  <2>6. a # table
    <3>1. CASE m[1] = PF_KERNEL
      <4>1. a = loader_table(n)
        BY <1>1, <2>3, <3>1 DEF FramesInv, DirectoriesExact
      <4>2. a[1] = "loader"
        BY <2>3, <4>1, KindsDiffer
      <4> QED
        BY <1>7, <1>14, <4>2
    <3>2. CASE m[1] # PF_KERNEL
      <4>1. m[1] \in Process
        BY <2>2, <3>2 DEF Space
      <4> QED
        BY <1>7, <1>14, <2>3, <4>1
    <3> QED
      BY <3>1, <3>2
  <2>7. pde'[m[1]][n] = a
    <3> HIDE DEF n, d, table
    <3> QED
      BY <1>11, <2>2, <2>3, <2>5
  <2>8. pte'[a][j] = pte[a][j]
    <3> HIDE DEF a, j, table, slot, frame
    <3> QED
      BY <1>11, <2>3, <2>4, <2>6
  <2>9. frame_at(m[1], m[2])' = pte'[a][j]
    <3> HIDE DEF a
    <3> QED
      BY <2>1, <2>7 DEF frame_at
  <2> QED
    BY <2>1, <2>8, <2>9 DEF Mapped
<1>15. ASSUME NEW e \in Directory PROVE e \in Directory' /\ pde'[e[1]][e[2]] = pde[e[1]][e[2]]
  <2>1. e \in Process \X Page /\ pde[e[1]][e[2]] \notin {NotPresent, low_frame}
    BY DEF Directory
  <2>2. e[1] \in Space /\ e[2] \in Page
    BY SMT, <2>1, Pools
  <2>3. ~(e[1] = t /\ e[2] = d)
    BY <1>4, <2>1
  <2>4. pde'[e[1]][e[2]] = pde[e[1]][e[2]]
    <3> HIDE DEF d, table
    <3> QED
      BY <1>11, <2>2, <2>3
  <2> QED
    BY <2>1, <2>4 DEF Directory
<1>16. Accounts'
  <2>1. ASSUME NEW s \in Space, NEW page \in Int, about(t, s, page) PROVE PageAccounted(s, page)'
    <3>1. CASE about(t, s, page)'
      BY <3>1 DEF PageAccounted
    <3>2. CASE s = space_of(t) /\ page = vaddr[t]
      <4>1. where = << s, page >>
        BY SMT, <1>4, <1>12, <3>2
      <4> QED
        BY <1>13, <4>1 DEF PageAccounted
    <3> QED
      BY <1>3, <2>1, <3>1, <3>2
  <2>2. ASSUME NEW pool, NEW j, page_phyaddr[t] = << pool, j >> PROVE FrameAccounted(pool, j)'
    BY <1>13, <2>2 DEF FrameAccounted
  <2>3. ASSUME NEW pool \in PoolFlag, NEW j \in pool_bitmap'[pool]
        PROVE  j \in pool_bitmap[pool] \/ FrameAccounted(pool, j)'
    <3> SUFFICES ASSUME ~none, pool = PF_KERNEL, j = i PROVE FrameAccounted(pool, j)'
      BY <1>9, <2>3
    <3>1. PICK n \in Page : n = d
      BY <1>4
    <3>2. PICK e \in Process \X Page : e[1] = t /\ e[2] = n
      <4>1. << t, n >> \in Process \X Page
        BY SMT, <1>4
      <4> QED
        BY SMT, <4>1
    <3>3. pde'[e[1]][e[2]] = table /\ table = << pool, j >>
      <4>1. table = << pool, j >>
        BY <1>7
      <4> HIDE DEF d, table
      <4> QED
        BY <1>4, <1>11, <3>1, <3>2, <4>1
    <3>4. table \notin {NotPresent, low_frame}
      BY <1>7, KindsDiffer
    <3>5. e \in Directory' /\ pde'[e[1]][e[2]] = << pool, j >>
      BY <3>3, <3>4 DEF Directory
    <3> QED
      BY <3>5 DEF FrameAccounted
  <2>4. exhausted(PF_KERNEL)' \/ ~none
    BY <1>6, <1>9, Pools, StaysExhausted
  <2> HIDE DEF none
  <2> QED
    BY <1>1, <1>3, <1>9, <1>14, <1>15, <2>1, <2>2, <2>3, <2>4, AccountsKept
<1>17. LockAccounts' /\ Holders'
  BY <1>1, <1>2, <1>3, <1>5, <1>9, LocksKept
<1>18. \A u \in Thread : CallOK(u)'
  BY <1>3, <1>9, CallsKept
<1>19. BookTypes'
  BY SMT, <1>1 DEF BookTypes, locks
<1> QED
  BY <1>16, <1>17, <1>18, <1>19 DEF LeakInv

LEMMA LeakNextKeeps == MemInv /\ LeakInv /\ [MemNext]_memvars => LeakInv'
<1> SUFFICES ASSUME MemInv, LeakInv, [MemNext]_memvars PROVE LeakInv'
  OBVIOUS
<1>1. CASE UNCHANGED memvars
  <2>1. UNCHANGED << maps, tables, locks, location, locals >>
    BY SMT, <1>1 DEF memvars
  <2> QED
    BY <2>1, LeakUnchanged
<1>2. ASSUME NEW t \in Thread, Call(t) PROVE LeakInv'
  BY <1>2, LeakCallKeeps
<1>3. ASSUME NEW t \in Thread, Work(t) PROVE LeakInv'
  BY <1>3, LeakAcquireKeeps, LeakPlaceKeeps, LeakVaddrGetKeeps, LeakReserveKeeps,
     LeakPallocScanKeeps, LeakPallocSetKeeps, LeakTableAddKeeps, LeakPallocTableScanKeeps,
     LeakTableSetKeeps, LeakReleaseKeeps DEF Work
<1> QED
  BY <1>1, <1>2, <1>3 DEF MemNext

LEMMA LeaksOnlyWhenExhaustedHolds == LeakInv => LeaksOnlyWhenExhausted
<1> SUFFICES ASSUME LeakInv PROVE LeaksOnlyWhenExhausted
  OBVIOUS
<1>1. ASSUME NEW s \in Space, NEW page \in vaddr_bitmap[s]
      PROVE  \/ << s, page >> \in Mapped
             \/ in_call(s, page)
             \/ exhausted(PF_KERNEL)
             \/ s # PF_KERNEL /\ exhausted(PF_USER)
  <2>1. PageAccounted(s, page)
    BY DEF LeakInv, Accounts
  <2>2. ASSUME NEW t \in Thread, about(t, s, page) PROVE in_call(s, page)
    <3>1. location[t] # "idle"
      BY SMT, <2>2 DEF about, past
    <3>2. call[t] # no_call
      BY <3>1 DEF LeakInv, CallOK
    <3> QED
      BY <2>2, <3>2 DEF about, in_call
  <2> QED
    BY <2>1, <2>2 DEF PageAccounted
<1>2. ASSUME NEW pool \in PoolFlag, NEW i \in pool_bitmap[pool]
      PROVE  \/ \E m \in Mapped : frame_at(m[1], m[2]) = << pool, i >>
             \/ \E d \in Directory : pde[d[1]][d[2]] = << pool, i >>
             \/ \E t \in Carrier : page_phyaddr[t] = << pool, i >>
             \/ exhausted(PF_KERNEL)
  BY DEF LeakInv, Accounts, FrameAccounted
<1>3. ASSUME NEW pool \in PoolFlag
      PROVE  \/ exhausted(pool)
             \/ IF holder[pool] = nobody THEN holder_repeat_nr[pool] = 0
                ELSE /\ holder_repeat_nr[pool] = 1
                     /\ location[holder[pool]] \notin {"idle", "acquire"}
  BY DEF LeakInv, LockAccounts, LockAccounted, working
<1> QED
  BY <1>1, <1>2, <1>3 DEF LeaksOnlyWhenExhausted

\* What a failing call leaves behind, reserved pages without frames, frames
\* nobody uses and a lock that is never released, can only be left behind in a
\* pool that is empty, whatever the number of threads, pages and frames.
THEOREM LeaksAreLate == MemSpec => []LeaksOnlyWhenExhausted
<1>1. MemInv /\ LeakInv => LeaksOnlyWhenExhausted
  BY LeaksOnlyWhenExhaustedHolds
<1>2. MemInit => MemInv /\ LeakInv
  BY MemInitInv, LeakInitInv
<1>3. MemInv /\ LeakInv /\ [MemNext]_memvars => (MemInv /\ LeakInv)'
  BY MemNextKeeps, LeakNextKeeps
<1> QED
  BY <1>1, <1>2, <1>3, PTL DEF MemSpec

-----------------------------------------------------------------------------
\* The bitmap

BitmapInv == TypeOK /\ LoopInvariant /\ FirstFit

\* The bits of a byte of the map lie in the map, behind those of the bytes in
\* front of it.
LEMMA ByteBounds ==
    ASSUME NEW k \in 0..(btmp_bytes_len - 1)
    PROVE  /\ k * BITS \in Nat
           /\ (k + 1) * BITS = k * BITS + BITS
           /\ k * BITS + BITS <= total
           /\ total \in Nat
<1>1. k \in Nat /\ BITS \in Nat /\ btmp_bytes_len \in Nat /\ k + 1 <= btmp_bytes_len
  BY BitmapAssumption
<1>2. (k + 1) * BITS = k * BITS + BITS /\ k * BITS \in Nat
  BY <1>1
<1>3. (k + 1) * BITS <= btmp_bytes_len * BITS
  BY <1>1
<1> QED
  BY <1>1, <1>2, <1>3 DEF total

LEMMA TotalIsNat == total \in Nat \ {0}
<1>1. total \in Nat /\ 0 * BITS + BITS <= total
  BY BitmapAssumption, ByteBounds
<1> QED
  BY <1>1, BitmapAssumption

LEMMA BitmapInit == Init => BitmapInv
<1> SUFFICES ASSUME Init PROVE BitmapInv
  OBVIOUS
<1>1. panicked \in BOOLEAN
  BY Zenon DEF Init
<1>2. TypeOK
  BY <1>1, TotalIsNat, BitmapAssumption DEF Init, TypeOK
<1> QED
  BY <1>2 DEF Init, BitmapInv, LoopInvariant, FirstFit

\* The call
LEMMA CallKeepsInv ==
    ASSUME BitmapInv, NEW n \in Count, bitmap_scan(n)
    PROVE  BitmapInv'
<1>1. TypeOK'
  BY BitmapAssumption DEF BitmapInv, TypeOK, bitmap_scan
<1>2. LoopInvariant' /\ FirstFit'
  BY BitmapAssumption DEF BitmapInv, TypeOK, bitmap_scan, LoopInvariant, FirstFit
<1> QED
  BY <1>1, <1>2 DEF BitmapInv

LEMMA SkipByteKeepsInv ==
    ASSUME BitmapInv, skip_byte
    PROVE  BitmapInv'
<1>1. idx_byte \in 0..(btmp_bytes_len - 1) /\ pc = "bytes" /\ pc' = "bytes"
  BY BitmapAssumption DEF BitmapInv, TypeOK, skip_byte, next_byte
<1>2. TypeOK'
  BY <1>1, BitmapAssumption DEF BitmapInv, TypeOK, skip_byte
<1>3. ASSUME NEW i \in 0..(idx_byte' * BITS - 1)
      PROVE  i \in bits'
  <2>1. /\ idx_byte * BITS \in Nat
        /\ idx_byte' * BITS = idx_byte * BITS + BITS
        /\ bits' = bits
    BY <1>1, ByteBounds DEF skip_byte
  <2>2. CASE i < idx_byte * BITS
    BY <1>1, <2>1, <2>2 DEF BitmapInv, LoopInvariant
  <2>3. CASE i >= idx_byte * BITS
    <3> DEFINE b == i - idx_byte * BITS
    <3>1. b \in 0..(BITS - 1) /\ i = idx_byte * BITS + b
      BY <2>1, <2>3, BitmapAssumption
    <3>2. byte_full(idx_byte)
      BY DEF skip_byte, next_byte
    <3> HIDE DEF b
    <3> QED
      BY <2>1, <3>1, <3>2 DEF byte_full
  <2> QED
    BY <2>1, <2>2, <2>3
<1>4. LoopInvariant'
  BY <1>1, <1>3 DEF BitmapInv, LoopInvariant, skip_byte
<1>5. FirstFit'
  BY <1>1 DEF FirstFit
<1> QED
  BY <1>2, <1>4, <1>5 DEF BitmapInv

LEMMA FirstByteKeepsInv ==
    ASSUME BitmapInv, first_byte
    PROVE  BitmapInv'
<1>1. TypeOK'
  <2>1. panicked' \in BOOLEAN
    BY Zenon DEF BitmapInv, TypeOK, first_byte
  <2>2. idx_bit' \in 0..(BITS - 1) /\ pc' \in {"bits", "panic"}
    BY BitmapAssumption DEF BitmapInv, TypeOK, first_byte
  <2> QED
    BY <2>1, <2>2 DEF BitmapInv, TypeOK, first_byte
<1>2. LoopInvariant'
  <2>1. CASE idx_byte < btmp_bytes_len
    <3>1. ~byte_full(idx_byte)
      BY <2>1 DEF first_byte, next_byte
    <3> QED
      BY <2>1, <3>1 DEF BitmapInv, LoopInvariant, first_byte, byte_full
  <2>2. CASE ~(idx_byte < btmp_bytes_len)
    BY <2>2 DEF BitmapInv, LoopInvariant, first_byte
  <2> QED
    BY <2>1, <2>2
<1>3. FirstFit'
  BY DEF FirstFit, first_byte
<1> QED
  BY <1>1, <1>2, <1>3 DEF BitmapInv

\* The search for a bit stays within a byte that is not full.
LEMMA SkipBitKeepsInv ==
    ASSUME BitmapInv, skip_bit
    PROVE  BitmapInv'
<1>1. /\ pc = "bits" /\ pc' = "bits" /\ bits' = bits /\ idx_byte' = idx_byte
      /\ idx_bit \in 0..(BITS - 1) /\ idx_bit' = idx_bit + 1
      /\ idx_byte * BITS + idx_bit \in bits
  BY DEF BitmapInv, TypeOK, skip_bit
<1>2. \A b \in 0..idx_bit : idx_byte * BITS + b \in bits
  BY <1>1, BitmapAssumption DEF BitmapInv, LoopInvariant
<1>3. idx_bit + 1 <= BITS - 1
  <2>1. ~byte_full(idx_byte)
    BY <1>1 DEF BitmapInv, LoopInvariant
  <2>2. PICK b \in 0..(BITS - 1) : idx_byte * BITS + b \notin bits
    BY <2>1 DEF byte_full
  <2> QED
    BY <1>1, <1>2, <2>2, BitmapAssumption
<1>4. TypeOK'
  BY <1>1, <1>3, BitmapAssumption DEF BitmapInv, TypeOK, skip_bit
<1>5. LoopInvariant'
  <2>1. \A b \in 0..(idx_bit' - 1) : idx_byte' * BITS + b \in bits'
    BY <1>1, <1>2, BitmapAssumption
  <2>2. ~byte_full(idx_byte)'
    BY <1>1 DEF BitmapInv, LoopInvariant, byte_full
  <2> QED
    BY <1>1, <2>1, <2>2 DEF BitmapInv, LoopInvariant, skip_bit
<1>6. FirstFit'
  BY <1>1 DEF FirstFit
<1> QED
  BY <1>4, <1>5, <1>6 DEF BitmapInv

\* The first free bit: everything in front of it is taken.
LEMMA FirstBitKeepsInv ==
    ASSUME BitmapInv, first_bit
    PROVE  BitmapInv'
<1> DEFINE start == idx_byte * BITS + idx_bit
<1>1. /\ pc = "bits" /\ bits' = bits /\ cnt' = cnt /\ cnt \in Nat \ {0} /\ cnt \in Count
      /\ idx_byte \in 0..(btmp_bytes_len - 1) /\ idx_bit \in 0..(BITS - 1)
      /\ start \notin bits
  BY BitmapAssumption DEF BitmapInv, TypeOK, LoopInvariant, first_bit
<1>2. start \in 0..(total - 1) /\ total \in Nat /\ idx_byte * BITS \in Nat
  BY <1>1, ByteBounds, BitmapAssumption
<1>3. \A i \in 0..(start - 1) : i \in bits
  <2> SUFFICES ASSUME NEW i \in 0..(start - 1) PROVE i \in bits
    OBVIOUS
  <2>1. CASE i < idx_byte * BITS
    BY <1>1, <1>2, <2>1 DEF BitmapInv, LoopInvariant
  <2>2. CASE i >= idx_byte * BITS
    <3> DEFINE b == i - idx_byte * BITS
    <3>1. b \in 0..(idx_bit - 1) /\ i = idx_byte * BITS + b
      BY <1>1, <1>2, <2>2, BitmapAssumption
    <3> HIDE DEF b
    <3> QED
      BY <1>1, <3>1 DEF BitmapInv, LoopInvariant
  <2> QED
    BY <1>2, <2>1, <2>2
<1> HIDE DEF start
<1>4. CASE cnt = 1
  <2>1. /\ bit_idx_start' = start /\ pc' = "done"
        /\ UNCHANGED << bit_left, next_bit, count, idx_byte, idx_bit, panicked >>
    BY <1>4 DEF first_bit, start
  <2>2. TypeOK'
    BY <1>1, <1>2, <2>1 DEF BitmapInv, TypeOK
  <2>3. LoopInvariant'
    BY <1>1, <2>1 DEF LoopInvariant
  <2>4. FirstFit'
    <3>1. last_looked_at' = total - 1 /\ total' = total
      BY <1>1, <1>4 DEF last_looked_at, total
    <3>2. free_run(start, 1, total - 1)
      BY <1>1, <1>2 DEF free_run
    <3>3. \A i \in Own : free_run(i, 1, total - 1) => start <= i
      BY <1>1, <1>2, <1>3 DEF free_run, Own
    <3> QED
      BY <1>1, <1>2, <1>4, <2>1, <3>1, <3>2, <3>3 DEF FirstFit, free_run, Own
  <2> QED
    BY <2>2, <2>3, <2>4 DEF BitmapInv
<1>5. CASE cnt # 1
  <2>1. /\ bit_left' = total - start /\ next_bit' = start + 1 /\ count' = 1
        /\ bit_idx_start' = -1 /\ pc' = "run"
        /\ UNCHANGED << idx_byte, idx_bit, panicked >>
    BY <1>5 DEF first_bit, start
  <2>2. TypeOK'
    BY <1>1, <1>2, <2>1 DEF BitmapInv, TypeOK, total
  <2>3. ASSUME NEW i \in Own, i + cnt <= start + 1
        PROVE  ~free_run(i, cnt, total)
    <3>1. i \in bits /\ i \in i..(i + cnt - 1)
      BY <1>1, <1>2, <1>3, <1>5, <2>3 DEF Own
    <3> QED
      BY <3>1 DEF free_run
  <2>4. LoopInvariant'
    <3>1. total' = total
      BY DEF total
    <3>2. /\ \A i \in (next_bit' - count')..(next_bit' - 1) : i \notin bits
          /\ count' < next_bit' => next_bit' - count' - 1 \in bits
      BY <1>1, <1>2, <1>3, <2>1
    <3> QED
      BY <1>1, <1>2, <1>5, <2>1, <2>3, <3>1, <3>2 DEF LoopInvariant, Own, free_run
  <2>5. FirstFit'
    BY <2>1 DEF FirstFit
  <2> QED
    BY <2>2, <2>4, <2>5 DEF BitmapInv
<1> QED
  BY <1>4, <1>5

\* One more bit: a run that is long enough ends here, or none does.
LEMMA ExtendRunKeepsInv ==
    ASSUME BitmapInv, extend_run
    PROVE  BitmapInv'
<1>1. /\ pc = "run" /\ bits' = bits /\ cnt' = cnt /\ cnt \in Nat \ {0} /\ cnt \in Count
      /\ cnt # 1 /\ bit_idx_start = -1 /\ UNCHANGED << idx_byte, idx_bit, panicked >>
      /\ total \in Nat /\ next_bit \in 0..total /\ bit_left + next_bit = total + 1
      /\ bit_left \in 1..total /\ bit_left' = bit_left - 1
      /\ count \in Nat /\ count < cnt /\ count <= next_bit
      /\ \A i \in (next_bit - count)..(next_bit - 1) : i \notin bits
      /\ count < next_bit => next_bit - count - 1 \in bits
      /\ \A i \in Own : i + cnt <= next_bit => ~free_run(i, cnt, total)
  BY TotalIsNat, BitmapAssumption DEF BitmapInv, TypeOK, LoopInvariant, extend_run
<1>2. count' = (IF next_bit \in bits THEN 0 ELSE count + 1)
  BY DEF extend_run, extended_run, bitmap_scan_test
<1>3. CASE count' = cnt
  <2>1. /\ bit_idx_start' = next_bit + 1 - cnt /\ pc' = "done" /\ next_bit' = next_bit
        /\ next_bit \notin bits /\ cnt = count + 1
    BY <1>1, <1>2, <1>3 DEF extend_run
  <2>2. TypeOK'
    BY <1>1, <1>3, <2>1 DEF BitmapInv, TypeOK, total
  <2>3. LoopInvariant'
    BY <1>1, <2>1 DEF LoopInvariant
  <2>4. FirstFit'
    <3>1. bit_idx_start' >= 0 /\ bit_idx_start' + cnt - 1 = next_bit
      BY <1>1, <2>1
    <3>2. \A j \in bit_idx_start'..(bit_idx_start' + cnt - 1) : j \notin bits
      BY <1>1, <2>1, <3>1
    <3>3. last_looked_at' = total /\ total' = total
      BY <1>1 DEF last_looked_at, total
    <3>4. free_run(bit_idx_start', cnt, total)
      BY <1>1, <3>1, <3>2 DEF free_run
    <3>5. \A i \in Own : free_run(i, cnt, total) => bit_idx_start' <= i
      BY <1>1, <2>1 DEF Own
    <3>6. free_run(bit_idx_start, cnt, last_looked_at)'
      BY <1>1, <3>3, <3>4 DEF free_run
    <3>7. \A i \in Own' : free_run(i, cnt, last_looked_at)' => free_run(i, cnt, total)
      BY <1>1, <3>3 DEF free_run
    <3>8. Own' = Own /\ bit_idx_start' # -1
      BY <3>1, <3>3, <1>1, <2>1 DEF Own
    <3> QED
      BY <3>5, <3>6, <3>7, <3>8 DEF FirstFit
  <2> QED
    BY <2>2, <2>3, <2>4 DEF BitmapInv
<1>4. CASE count' # cnt
  <2>1. /\ next_bit' = next_bit + 1 /\ UNCHANGED << bit_idx_start, pc >>
    BY <1>4 DEF extend_run
  <2>2. TypeOK'
    BY <1>1, <1>2, <2>1 DEF BitmapInv, TypeOK, total
  <2>3. ASSUME NEW i \in Own, i + cnt <= next_bit + 1
        PROVE  ~free_run(i, cnt, total)
    <3>1. CASE i + cnt <= next_bit
      BY <1>1, <3>1
    <3>2. CASE i + cnt = next_bit + 1 /\ next_bit \in bits
      BY <1>1, <3>2 DEF free_run, Own
    <3>3. CASE i + cnt = next_bit + 1 /\ next_bit \notin bits
      <4>1. count + 1 < cnt
        BY <1>1, <1>2, <1>4, <3>3
      <4>2. next_bit - count - 1 \in i..(i + cnt - 1) /\ next_bit - count - 1 \in bits
        BY <1>1, <3>3, <4>1 DEF Own
      <4> QED
        BY <4>2 DEF free_run
    <3> QED
      BY <1>1, <2>3, <3>1, <3>2, <3>3 DEF Own
  <2>4. LoopInvariant'
    <3>1. /\ count' < cnt /\ count' <= next_bit'
          /\ \A i \in (next_bit' - count')..(next_bit' - 1) : i \notin bits
          /\ count' < next_bit' => next_bit' - count' - 1 \in bits
      BY <1>1, <1>2, <1>4, <2>1
    <3> QED
      BY <1>1, <2>1, <2>3, <3>1 DEF LoopInvariant, BitmapInv, free_run, Own, total
  <2>5. FirstFit'
    BY <1>1, <2>1 DEF FirstFit
  <2> QED
    BY <2>2, <2>4, <2>5 DEF BitmapInv
<1> QED
  BY <1>3, <1>4

LEMMA GiveUpKeepsInv ==
    ASSUME BitmapInv, give_up
    PROVE  BitmapInv'
<1>1. TypeOK'
  BY DEF BitmapInv, TypeOK, give_up, search, total, Memory
<1>2. LoopInvariant'
  BY DEF BitmapInv, LoopInvariant, give_up
<1>3. FirstFit'
  <2>1. /\ next_bit = total + 1 /\ cnt \in Nat \ {0} /\ total \in Nat /\ bits' = bits
        /\ cnt' = cnt /\ bit_idx_start' = bit_idx_start /\ bit_idx_start = -1 /\ cnt # 1
        /\ \A i \in Own : i + cnt <= next_bit => ~free_run(i, cnt, total)
    BY TotalIsNat, BitmapAssumption
    DEF BitmapInv, TypeOK, LoopInvariant, give_up, search
  <2>2. \A i \in Own : ~free_run(i, cnt, total)
    BY <2>1 DEF free_run, Own
  <2> QED
    BY <2>1, <2>2 DEF FirstFit, last_looked_at, free_run, Own, total
<1> QED
  BY <1>1, <1>2, <1>3 DEF BitmapInv

\* Only the bits the scan gave are set.
LEMMA TakeKeepsInv ==
    ASSUME BitmapInv, take
    PROVE  BitmapInv'
<1>1. pc = "done" /\ pc' = "idle" /\ cnt \in Nat \ {0} /\ total \in Nat \ {0}
  BY TotalIsNat, BitmapAssumption DEF BitmapInv, LoopInvariant, take
<1>2. bit_idx_start # -1 => given \subseteq Memory
  <2> SUFFICES ASSUME bit_idx_start # -1 PROVE given \subseteq Memory
    OBVIOUS
  <2>1. bit_idx_start \in 0..total /\ bit_idx_start + cnt - 1 <= total
    BY <1>1 DEF BitmapInv, TypeOK, FirstFit, free_run, last_looked_at
  <2> QED
    BY <1>1, <2>1, BitmapAssumption DEF given, Memory
<1>3. TypeOK'
  BY <1>1, <1>2 DEF BitmapInv, TypeOK, take, search, Memory, total
<1>4. LoopInvariant' /\ FirstFit'
  BY <1>1 DEF LoopInvariant, FirstFit
<1> QED
  BY <1>3, <1>4 DEF BitmapInv

LEMMA SetKeepsInv ==
    ASSUME BitmapInv, NEW i \in Memory, bitmap_set(i)
    PROVE  BitmapInv'
<1>1. TypeOK'
  BY DEF BitmapInv, TypeOK, bitmap_set, search, Memory, total
<1>2. LoopInvariant' /\ FirstFit'
  BY DEF BitmapInv, LoopInvariant, FirstFit, bitmap_set
<1> QED
  BY <1>1, <1>2 DEF BitmapInv

LEMMA BitmapNext == BitmapInv /\ [Next]_vars => BitmapInv'
<1> SUFFICES ASSUME BitmapInv, [Next]_vars PROVE BitmapInv'
  OBVIOUS
<1>1. ASSUME NEW n \in Count, bitmap_scan(n) PROVE BitmapInv'
  BY <1>1, CallKeepsInv
<1>2. CASE Scan
  BY <1>2, SkipByteKeepsInv, FirstByteKeepsInv, SkipBitKeepsInv, FirstBitKeepsInv,
     ExtendRunKeepsInv, GiveUpKeepsInv DEF Scan
<1>3. CASE take
  BY <1>3, TakeKeepsInv
<1>4. ASSUME NEW i \in Memory, bitmap_set(i) PROVE BitmapInv'
  BY <1>4, SetKeepsInv
<1>5. CASE UNCHANGED vars
  BY <1>5 DEF BitmapInv, TypeOK, LoopInvariant, FirstFit, vars, search, byte_full,
              free_run, last_looked_at, total, Memory, Own
<1> QED
  BY <1>1, <1>2, <1>3, <1>4, <1>5 DEF Next

\* No loop of bitmap_scan reads further than one byte behind the map, and what
\* it returns is the first run of free bits among those it looks at.
THEOREM ScanCorrect == Spec => [](TypeOK /\ LoopInvariant /\ FirstFit)
<1>1. BitmapInv => TypeOK /\ LoopInvariant /\ FirstFit
  BY DEF BitmapInv
<1> QED
  BY <1>1, BitmapInit, BitmapNext, PTL DEF Spec

-----------------------------------------------------------------------------
\* The pools

\* A bitmap has no bit for a page its pool does not have, and wastes none but
\* the remainder.
LEMMA BytesFor ==
    ASSUME NEW pages \in Nat
    PROVE  /\ bytes_for(pages) \in Nat
           /\ 8 * bytes_for(pages) <= pages
BY SMT DEF bytes_for

LEMMA Sizes == used_mem = 2097152 /\ max_mem = 536870912 /\ PG_SIZE = 4096
BY SMT DEF used_mem, page_table_size, PG_SIZE, max_mem

LEMMA FreeMemory ==
    ASSUME all_mem \in MemSize
    PROVE  all_mem \in Nat /\ free_mem \in Nat /\ used_mem + free_mem = all_mem
<1>1. all_mem \in (used_mem + 1)..max_mem
  BY SMT, MemSizeAssumption
<1>2. used_mem \in Nat /\ max_mem \in Nat
  BY SMT, Sizes
<1> QED
  BY SMT, <1>1, <1>2 DEF free_mem

\* What fits into a uint16_t, and into the memory
LEMMA FreePages ==
    ASSUME all_mem \in MemSize
    PROVE  /\ all_free_pages \in Nat /\ all_free_pages <= 65535
           /\ used_mem + all_free_pages * 4096 <= all_mem
<1> DEFINE n == free_mem \div 4096
<1>1. n \in Nat /\ n * 4096 <= free_mem
  BY SMT, FreeMemory
<1> HIDE DEF n
<1>2. all_free_pages = n % 65536
  BY SMT, Sizes DEF all_free_pages, uint16_t, n
<1>3. all_free_pages \in Nat /\ all_free_pages <= 65535 /\ all_free_pages <= n
  BY SMT, <1>1, <1>2
<1> QED
  BY SMT, <1>1, <1>3, FreeMemory, Sizes

\* The two halves
LEMMA Halves ==
    ASSUME all_mem \in MemSize
    PROVE  /\ kernel_free_pages \in Nat /\ kernel_free_pages <= 32767
           /\ user_free_pages \in Nat /\ user_free_pages <= 32768
           /\ kernel_free_pages + user_free_pages = all_free_pages
<1>1. all_free_pages \in Nat /\ all_free_pages <= 65535
  BY SMT, FreePages
<1>2. kernel_free_pages \in Nat /\ kernel_free_pages <= 32767 /\ 2 * kernel_free_pages <= all_free_pages
      /\ all_free_pages <= 2 * kernel_free_pages + 1
  BY SMT, <1>1 DEF kernel_free_pages
<1> QED
  BY SMT, <1>1, <1>2 DEF user_free_pages

LEMMA Lengths ==
    ASSUME all_mem \in MemSize
    PROVE  /\ kbm_length \in Nat /\ kbm_length <= 4095 /\ 8 * kbm_length <= kernel_free_pages
           /\ ubm_length \in Nat /\ ubm_length <= 4096 /\ 8 * ubm_length <= user_free_pages
<1>1. kernel_free_pages \in Nat /\ kernel_free_pages <= 32767 /\ user_free_pages \in Nat /\ user_free_pages <= 32768
  BY SMT, Halves
<1>2. kernel_free_pages \in Nat /\ user_free_pages \in Nat
  BY SMT, <1>1
<1>3. /\ kbm_length \in Nat /\ 8 * kbm_length <= kernel_free_pages
      /\ ubm_length \in Nat /\ 8 * ubm_length <= user_free_pages
  BY SMT, <1>2, BytesFor DEF kbm_length, ubm_length
<1> QED
  BY SMT, <1>1, <1>3

MemPoolInv == PoolsTypeOK /\ PoolsDisjoint /\ BitmapsFit

LEMMA MemPoolInit == PoolsInit => MemPoolInv
BY SMT DEF PoolsInit, MemPoolInv, PoolsTypeOK, PoolsDisjoint, BitmapsFit, no_pool, Pool

LEMMA MemPoolNext == MemPoolInv /\ [PoolsNext]_poolvars => MemPoolInv'
<1> SUFFICES ASSUME MemPoolInv, [PoolsNext]_poolvars PROVE MemPoolInv'
  OBVIOUS
<1>1. CASE UNCHANGED poolvars
  BY SMT, <1>1 DEF poolvars, MemPoolInv, PoolsTypeOK, PoolsDisjoint, BitmapsFit, frames_end, end
<1>2. CASE mem_pool_init
  <2>1. all_mem \in MemSize /\ all_mem' = all_mem /\ all_mem \in Nat
    BY SMT, <1>2, FreeMemory DEF MemPoolInv, PoolsTypeOK, mem_pool_init
  <2> DEFINE kp == kernel_free_pages
             up == user_free_pages
             kb == kbm_length
             ub == ubm_length
  <2>2. /\ kp \in Nat /\ kp <= 32767 /\ up \in Nat /\ up <= 32768
        /\ kb \in Nat /\ kb <= 4095 /\ 8 * kb <= kp
        /\ ub \in Nat /\ ub <= 4096 /\ 8 * ub <= up
        /\ used_mem + (kp + up) * 4096 <= all_mem
    BY SMT, <2>1, Halves, Lengths, FreePages
  <2>3. /\ kernel_pool' = [phy_addr_start |-> used_mem, pool_size |-> kp * 4096,
                           bits |-> 0, btmp_bytes_len |-> kb]
        /\ user_pool' = [phy_addr_start |-> used_mem + kp * 4096, pool_size |-> up * 4096,
                         bits |-> kb, btmp_bytes_len |-> ub]
        /\ kernel_vaddr' = [bits |-> kb + ub, btmp_bytes_len |-> kb]
    BY SMT, <1>2, Sizes DEF mem_pool_init, kp_start, up_start
  <2> HIDE DEF kp, up, kb, ub
  <2>4. used_mem = 2097152 /\ PG_SIZE = 4096
    BY SMT, Sizes
  <2>5. PoolsTypeOK'
    BY SMT, <2>1, <2>2, <2>3, <2>4 DEF PoolsTypeOK, Pool
  <2>6. PoolsDisjoint'
    BY SMT, <2>1, <2>2, <2>3, <2>4 DEF PoolsDisjoint, frames_end
  <2>7. BitmapsFit'
    BY SMT, <2>2, <2>3 DEF BitmapsFit, end, main_pcb
  <2> QED
    BY SMT, <2>5, <2>6, <2>7 DEF MemPoolInv
<1> QED
  BY SMT, <1>1, <1>2 DEF PoolsNext

\* From the sizes of memory the loader can report up to what mem_pool_init
\* hands to the allocators, for every such size: no frame is in both pools, none
\* below used_mem and none behind the memory.
THEOREM PoolsCorrect == PoolsSpec => []PoolsDisjoint
<1>1. MemPoolInv => PoolsDisjoint
  BY DEF MemPoolInv
<1> QED
  BY <1>1, MemPoolInit, MemPoolNext, PTL DEF PoolsSpec

\* mem_pool_init lays the three bitmaps out one behind the other, below the PCB
\* of the main thread, with no bit for a page that is not there.
THEOREM BitmapsNeverOverlap == PoolsSpec => []BitmapsFit
<1>1. MemPoolInv => BitmapsFit
  BY DEF MemPoolInv
<1> QED
  BY <1>1, MemPoolInit, MemPoolNext, PTL DEF PoolsSpec

-----------------------------------------------------------------------------
\* The linked lists

\* The k-th node of a list whose elements are those of s[l]
Chain(s, l, k) == IF k = 0 THEN head(l) ELSE IF k <= Len(s[l]) THEN s[l][k] ELSE tail(l)

\* The pointers link exactly the lists s, and no element is in two places.
Represents(s) ==
    /\ s \in [ListId -> Seq(Elem)]
    /\ \A l, m \in ListId : \A i \in 1..Len(s[l]), j \in 1..Len(s[m]) :
          s[l][i] = s[m][j] => l = m /\ i = j
    /\ PointersOK
    /\ \A l \in ListId : prev[head(l)] = NULL /\ next[tail(l)] = NULL
    /\ \A l \in ListId : \A k \in 0..Len(s[l]) :
          next[Chain(s, l, k)] = Chain(s, l, k + 1) /\ prev[Chain(s, l, k + 1)] = Chain(s, l, k)

ListsInv == \E s : Represents(s)

LEMMA Sentinels ==
    ASSUME NEW l \in ListId, NEW m \in ListId
    PROVE  /\ head(l) \in Node /\ tail(l) \in Node /\ Elem \subseteq Node /\ NULL \notin Node
           /\ head(l) \notin Elem /\ tail(l) \notin Elem /\ head(l) # tail(m)
           /\ head(l) = head(m) => l = m
           /\ tail(l) = tail(m) => l = m
<1>1. head(l) # tail(m)
  <2>1. head(l)[2] = "head" /\ tail(m)[2] = "tail"
    BY DEF head, tail
  <2> QED
    BY <2>1
<1>2. (head(l) = head(m) => l = m) /\ (tail(l) = tail(m) => l = m)
  <2>1. head(l)[1] = l /\ head(m)[1] = m /\ tail(l)[1] = l /\ tail(m)[1] = m
    BY DEF head, tail
  <2> QED
    BY <2>1
<1>3. head(l) \in Node /\ tail(l) \in Node /\ Elem \subseteq Node
  BY DEF Node
<1> QED
  BY <1>1, <1>2, <1>3, LinkedListAssumption

\* Elements are in the middle of a chain, and no node is in two places.
LEMMA ChainNodes ==
    ASSUME NEW s \in [ListId -> Seq(Elem)], NEW l \in ListId
    PROVE  /\ Len(s[l]) \in Nat
           /\ Chain(s, l, 0) = head(l) /\ Chain(s, l, Len(s[l]) + 1) = tail(l)
           /\ \A k \in 1..Len(s[l]) : Chain(s, l, k) = s[l][k] /\ Chain(s, l, k) \in Elem
           /\ \A k \in 0..(Len(s[l]) + 1) : Chain(s, l, k) \in Node
<1>1. s[l] \in Seq(Elem) /\ Len(s[l]) \in Nat
  OBVIOUS
<1>2. Chain(s, l, 0) = head(l) /\ Chain(s, l, Len(s[l]) + 1) = tail(l)
  BY <1>1 DEF Chain
<1>3. \A k \in 1..Len(s[l]) : Chain(s, l, k) = s[l][k] /\ Chain(s, l, k) \in Elem
  BY <1>1 DEF Chain
<1>4. \A k \in 0..(Len(s[l]) + 1) : k = 0 \/ k = Len(s[l]) + 1 \/ k \in 1..Len(s[l])
  BY <1>1
<1> QED
  BY <1>1, <1>2, <1>3, <1>4, Sentinels

LEMMA ChainsAreDistinct ==
    ASSUME NEW s, Represents(s), NEW l \in ListId, NEW m \in ListId,
           NEW i \in 0..(Len(s[l]) + 1), NEW j \in 0..(Len(s[m]) + 1),
           Chain(s, l, i) = Chain(s, m, j)
    PROVE  l = m /\ i = j
<1>1. s \in [ListId -> Seq(Elem)]
  BY DEF Represents
<1>2. Len(s[l]) \in Nat /\ Len(s[m]) \in Nat
  BY <1>1, ChainNodes
<1>3. i = 0 \/ i = Len(s[l]) + 1 \/ i \in 1..Len(s[l])
  BY <1>2
<1>4. j = 0 \/ j = Len(s[m]) + 1 \/ j \in 1..Len(s[m])
  BY <1>2
<1>5. i = 0 => Chain(s, l, i) = head(l)
  BY <1>1, ChainNodes
<1>6. i = Len(s[l]) + 1 => Chain(s, l, i) = tail(l)
  BY <1>1, ChainNodes
<1>7. i \in 1..Len(s[l]) => Chain(s, l, i) = s[l][i] /\ Chain(s, l, i) \in Elem
  BY <1>1, ChainNodes
<1>8. j = 0 => Chain(s, m, j) = head(m)
  BY <1>1, ChainNodes
<1>9. j = Len(s[m]) + 1 => Chain(s, m, j) = tail(m)
  BY <1>1, ChainNodes
<1>10. j \in 1..Len(s[m]) => Chain(s, m, j) = s[m][j] /\ Chain(s, m, j) \in Elem
  BY <1>1, ChainNodes
<1>11. i \in 1..Len(s[l]) /\ j \in 1..Len(s[m]) => (s[l][i] = s[m][j] => l = m /\ i = j)
  BY DEF Represents
<1>12. /\ head(l) \notin Elem /\ tail(l) \notin Elem /\ head(m) \notin Elem /\ tail(m) \notin Elem
       /\ head(l) # tail(m) /\ head(m) # tail(l)
       /\ (head(l) = head(m) => l = m) /\ (tail(l) = tail(m) => l = m)
  BY Sentinels
<1>13. CASE i = 0
  BY <1>4, <1>5, <1>8, <1>9, <1>10, <1>12, <1>13
<1>14. CASE i = Len(s[l]) + 1
  BY <1>4, <1>6, <1>8, <1>9, <1>10, <1>12, <1>14
<1>15. CASE i \in 1..Len(s[l])
  BY <1>4, <1>7, <1>8, <1>9, <1>10, <1>11, <1>12, <1>15
<1> QED
  BY <1>3, <1>13, <1>14, <1>15

\* No list is longer than the number of elements.
LEMMA ListsAreShort ==
    ASSUME NEW s, Represents(s), NEW l \in ListId
    PROVE  longest \in Nat /\ Len(s[l]) <= longest
<1>1. s[l] \in Seq(Elem) /\ Len(s[l]) \in Nat
  BY DEF Represents
<1>2. IsFiniteSet(Elem) /\ Cardinality(Elem) \in Nat
  BY LinkedListAssumption, FS_CardinalityType
<1>3. PICK n \in Nat : n = Len(s[l])
  BY <1>1
<1>4. PICK S : S = 1..n
  OBVIOUS
<1>5. IsFiniteSet(S) /\ Cardinality(S) = n
  BY <1>3, <1>4, FS_Interval
<1>6. [i \in S |-> s[l][i]] \in Injection(S, Elem)
  <2>1. \A i \in S : s[l][i] \in Elem
    BY <1>1, <1>3, <1>4
  <2>2. \A i, j \in S : s[l][i] = s[l][j] => i = j
    BY <1>3, <1>4 DEF Represents
  <2> QED
    BY <2>1, <2>2 DEF Injection, IsInjective
<1>7. Cardinality(S) <= Cardinality(Elem)
  BY <1>2, <1>5, <1>6, FS_Injection
<1> QED
  BY <1>2, <1>3, <1>5, <1>7 DEF longest

\* What a loop over a list sees: its elements, its tail and nothing else.
LEMMA WalkOf ==
    ASSUME NEW s, Represents(s), NEW l \in ListId
    PROVE  \A k \in 0..longest :
              walk(l)[k] = IF k <= Len(s[l]) THEN Chain(s, l, k + 1) ELSE NULL
<1>1. s \in [ListId -> Seq(Elem)] /\ Len(s[l]) \in Nat
  BY ChainNodes DEF Represents
<1>2. PICK n \in Nat : n = Len(s[l])
  BY <1>1
<1>3. longest \in Nat
  BY ListsAreShort
<1>4. \A k \in 0..n : next[Chain(s, l, k)] = Chain(s, l, k + 1)
  BY <1>2 DEF Represents
<1>5. Chain(s, l, 0) = head(l) /\ Chain(s, l, n + 1) = tail(l) /\ next[tail(l)] = NULL
  BY <1>1, <1>2, ChainNodes DEF Represents
<1>6. \A k \in 0..(n + 1) : Chain(s, l, k) \in Node
  BY <1>1, <1>2, ChainNodes
<1>7. NULL \notin Node
  BY LinkedListAssumption
<1> DEFINE seen(k) == IF k <= n THEN Chain(s, l, k + 1) ELSE NULL
           step(e, k) == IF k = 0 THEN next[head(l)] ELSE follow(next, e[k - 1])
           is_walk(e) == e = [k \in 0..longest |-> step(e, k)]
<1>8. next[head(l)] = seen(0)
  BY <1>4, <1>5
<1>9. \A k \in Nat : follow(next, seen(k)) = seen(k + 1)
  <2> SUFFICES ASSUME NEW k \in Nat
               PROVE  follow(next, seen(k)) = seen(k + 1)
    OBVIOUS
  <2>1. CASE k < n
    <3>1. k + 1 \in 0..n /\ k <= n /\ k + 1 <= n
      BY <2>1
    <3>2. seen(k) = Chain(s, l, k + 1) /\ seen(k + 1) = Chain(s, l, k + 1 + 1)
      BY <3>1
    <3> QED
      BY <1>4, <1>6, <3>1, <3>2 DEF follow
  <2>2. CASE k = n
    <3>1. seen(k) = tail(l) /\ seen(k + 1) = NULL /\ tail(l) \in Node
      BY <1>5, <1>6, <2>2
    <3> QED
      BY <1>5, <3>1 DEF follow
  <2>3. CASE k > n
    <3>1. seen(k) = NULL /\ seen(k + 1) = NULL
      BY <2>3
    <3> QED
      BY <1>7, <3>1 DEF follow
  <2> QED
    BY <2>1, <2>2, <2>3
<1>10. \E e : is_walk(e)
  <2>1. PICK e : e = [k \in 0..longest |-> seen(k)]
    OBVIOUS
  <2>2. \A k \in 0..longest : seen(k) = step(e, k)
    <3> SUFFICES ASSUME NEW k \in 0..longest
                 PROVE  seen(k) = step(e, k)
      OBVIOUS
    <3>1. CASE k = 0
      BY <1>8, <3>1
    <3>2. CASE k # 0
      <4>1. k - 1 \in 0..longest /\ k - 1 \in Nat /\ k - 1 + 1 = k
        BY <1>3, <3>2
      <4>2. e[k - 1] = seen(k - 1)
        BY <2>1, <4>1
      <4>3. follow(next, seen(k - 1)) = seen(k)
        <5> HIDE DEF seen
        <5>1. follow(next, seen(k - 1)) = seen(k - 1 + 1)
          BY <1>9, <4>1
        <5> QED
          BY <4>1, <5>1
      <4> QED
        BY <3>2, <4>2, <4>3
    <3> QED
      BY <3>1, <3>2
  <2>3. e = [k \in 0..longest |-> step(e, k)]
    <3> HIDE DEF seen, step
    <3> QED
      BY <2>1, <2>2
  <2> QED
    BY <2>3
<1>11. walk(l) = CHOOSE e : is_walk(e)
  BY DEF walk
<1>12. is_walk(walk(l))
  <2> HIDE DEF is_walk
  <2> QED
    BY <1>10, <1>11
<1>13. \A k \in 0..longest : walk(l)[k] = seen(k)
  <2> DEFINE S == {k \in Nat : k <= longest => walk(l)[k] = seen(k)}
  <2>1. 0 \in S
    BY <1>3, <1>8, <1>12
  <2>2. ASSUME NEW k \in Nat, k \in S
        PROVE  k + 1 \in S
    <3> SUFFICES ASSUME k + 1 <= longest
                 PROVE  walk(l)[k + 1] = seen(k + 1)
      OBVIOUS
    <3>1. k <= longest /\ k + 1 \in 0..longest /\ k + 1 # 0 /\ k + 1 - 1 = k
      BY <1>3
    <3>2. walk(l)[k] = seen(k)
      BY <2>2, <3>1
    <3>3. walk(l)[k + 1] = step(walk(l), k + 1)
      <4> HIDE DEF step
      <4> QED
        BY <1>12, <3>1
    <3>4. walk(l)[k + 1] = follow(next, walk(l)[k])
      BY <3>1, <3>3
    <3>5. follow(next, seen(k)) = seen(k + 1)
      BY <1>9
    <3> QED
      BY <3>2, <3>4, <3>5
  <2>3. \A k \in Nat : k \in S
    <3> HIDE DEF S
    <3> QED
      BY <2>1, <2>2, NumberInduction
  <2> QED
    BY <1>3, <2>3
<1> QED
  BY <1>2, <1>13

\* What the list functions find out by their loops
LEMMA LoopsFind ==
    ASSUME NEW s, Represents(s), NEW l \in ListId
    PROVE  /\ list_len(l) = Len(s[l])
           /\ walk(l)[Len(s[l])] = tail(l) /\ Len(s[l]) \in 0..longest
           /\ \A i \in 1..Len(s[l]) : walk(l)[i - 1] = s[l][i]
           /\ \A e \in Elem : elem_find(l, e) <=> \E i \in 1..Len(s[l]) : s[l][i] = e
           /\ list_empty(l) <=> Len(s[l]) = 0
           /\ next[head(l)] = Chain(s, l, 1)
<1>1. s \in [ListId -> Seq(Elem)] /\ Len(s[l]) \in Nat
  BY ChainNodes DEF Represents
<1>2. PICK n \in Nat : n = Len(s[l])
  BY <1>1
<1>3. n \in 0..longest /\ longest \in Nat
  BY <1>2, ListsAreShort
<1>4. \A k \in 0..longest : walk(l)[k] = IF k <= n THEN Chain(s, l, k + 1) ELSE NULL
  BY <1>2, WalkOf
<1>5. Chain(s, l, n + 1) = tail(l) /\ Chain(s, l, 0) = head(l)
  BY <1>1, <1>2, ChainNodes
<1>6. \A i \in 1..n : Chain(s, l, i) = s[l][i] /\ Chain(s, l, i) \in Elem
  BY <1>1, <1>2, ChainNodes
<1>7. \A k \in 0..(n - 1) : walk(l)[k] = s[l][k + 1] /\ walk(l)[k] # tail(l)
  <2> SUFFICES ASSUME NEW k \in 0..(n - 1)
               PROVE  walk(l)[k] = s[l][k + 1] /\ walk(l)[k] # tail(l)
    OBVIOUS
  <2>1. k \in 0..longest /\ k <= n /\ k + 1 \in 1..n
    BY <1>3
  <2>2. tail(l) \notin Elem
    BY LinkedListAssumption
  <2> QED
    BY <1>4, <1>6, <2>1, <2>2
<1>8. walk(l)[n] = tail(l)
  BY <1>3, <1>4, <1>5
<1>9. \A k \in 0..longest : walk(l)[k] = tail(l) => k = n
  <2> SUFFICES ASSUME NEW k \in 0..longest, walk(l)[k] = tail(l)
               PROVE  k = n
    OBVIOUS
  <2>1. ~(k < n)
    BY <1>7
  <2>2. ~(k > n)
    BY <1>3, <1>4, Sentinels
  <2> QED
    BY <1>3, <2>1, <2>2
<1>10. list_len(l) = n
  <2>1. \A k \in 0..longest :
           (walk(l)[k] = tail(l) /\ \A j \in 0..(k - 1) : walk(l)[j] # tail(l)) <=> k = n
    BY <1>7, <1>8, <1>9
  <2> QED
    BY <1>3, <2>1 DEF list_len
<1>11. \A i \in 1..n : walk(l)[i - 1] = s[l][i]
  <2> SUFFICES ASSUME NEW i \in 1..n
               PROVE  walk(l)[i - 1] = s[l][i]
    OBVIOUS
  <2>1. i - 1 \in 0..(n - 1) /\ i - 1 + 1 = i
    OBVIOUS
  <2> QED
    BY <1>7, <2>1
<1>12. ASSUME NEW e \in Elem
       PROVE  elem_find(l, e) <=> \E i \in 1..n : s[l][i] = e
  <2>1. ASSUME NEW k \in 0..(n - 1), walk(l)[k] = e
        PROVE  \E i \in 1..n : s[l][i] = e
    <3>1. k + 1 \in 1..n /\ s[l][k + 1] = e
      BY <1>7, <2>1
    <3> QED
      BY <3>1
  <2>2. ASSUME NEW i \in 1..n, s[l][i] = e
        PROVE  \E k \in 0..(n - 1) : walk(l)[k] = e
    <3>1. i - 1 \in 0..(n - 1) /\ walk(l)[i - 1] = e
      BY <1>11, <2>2
    <3> QED
      BY <3>1
  <2> QED
    BY <1>10, <2>1, <2>2 DEF elem_find
<1>13. next[head(l)] = Chain(s, l, 1)
  <2>1. 0 \in 0..Len(s[l]) /\ 0 + 1 = 1
    BY <1>1
  <2>2. next[Chain(s, l, 0)] = Chain(s, l, 0 + 1)
    BY <2>1 DEF Represents
  <2> QED
    BY <1>5, <2>1, <2>2
<1>14. list_empty(l) <=> n = 0
  <2>1. n = 0 => Chain(s, l, 1) = tail(l)
    BY <1>5
  <2>2. n # 0 => Chain(s, l, 1) \in Elem /\ tail(l) \notin Elem
    BY <1>6, LinkedListAssumption
  <2> QED
    BY <1>13, <2>1, <2>2 DEF list_empty
<1> QED
  BY <1>2, <1>3, <1>8, <1>10, <1>11, <1>12, <1>13, <1>14

\* The sequence t with e at place k, and without its k-th element
Put(t, k, e) ==
    [i \in 1..(Len(t) + 1) |-> IF i < k THEN t[i] ELSE IF i = k THEN e ELSE t[i - 1]]

Without(t, k) == [i \in 1..(Len(t) - 1) |-> IF i < k THEN t[i] ELSE t[i + 1]]

LEMMA PutOf ==
    ASSUME NEW t \in Seq(Elem), NEW k \in 1..(Len(t) + 1), NEW e \in Elem
    PROVE  /\ Put(t, k, e) \in Seq(Elem) /\ Len(Put(t, k, e)) = Len(t) + 1
           /\ \A i \in 1..(Len(t) + 1) :
                 Put(t, k, e)[i] = IF i < k THEN t[i] ELSE IF i = k THEN e ELSE t[i - 1]
<1>1. PICK n \in Nat : n = Len(t)
  OBVIOUS
<1>2. \A i \in 1..(n + 1) : /\ i < k => i \in 1..n
                            /\ ~(i < k) /\ i # k => i - 1 \in 1..n
  BY <1>1
<1>3. \A i \in 1..(n + 1) : (IF i < k THEN t[i] ELSE IF i = k THEN e ELSE t[i - 1]) \in Elem
  BY <1>1, <1>2
<1>4. Put(t, k, e) = [i \in 1..(n + 1) |-> IF i < k THEN t[i] ELSE IF i = k THEN e ELSE t[i - 1]]
  BY <1>1 DEF Put
<1> QED
  BY <1>1, <1>3, <1>4

LEMMA WithoutOf ==
    ASSUME NEW t \in Seq(Elem), NEW k \in 1..Len(t)
    PROVE  /\ Without(t, k) \in Seq(Elem) /\ Len(Without(t, k)) = Len(t) - 1
           /\ \A i \in 1..(Len(t) - 1) :
                 Without(t, k)[i] = IF i < k THEN t[i] ELSE t[i + 1]
<1>1. PICK n \in Nat : n = Len(t) /\ n # 0 /\ n - 1 \in Nat
  OBVIOUS
<1>2. \A i \in 1..(n - 1) : i \in 1..n /\ i + 1 \in 1..n
  BY <1>1
<1>3. \A i \in 1..(n - 1) : (IF i < k THEN t[i] ELSE t[i + 1]) \in Elem
  BY <1>1, <1>2
<1>4. Without(t, k) = [i \in 1..(n - 1) |-> IF i < k THEN t[i] ELSE t[i + 1]]
  BY <1>1 DEF Without
<1> QED
  BY <1>1, <1>3, <1>4

LEMMA ListsInit ==
    ASSUME list_init
    PROVE  Represents([l \in ListId |-> << >>])
<1>1. PICK s : s = [l \in ListId |-> << >>]
  OBVIOUS
<1>2. s \in [ListId -> Seq(Elem)] /\ \A l \in ListId : Len(s[l]) = 0
  BY <1>1
<1>3. ASSUME NEW n \in Node
      PROVE  prev[n] \in Node \cup {NULL} /\ next[n] \in Node \cup {NULL}
  <2>1. \A l \in ListId : head(l) \in Node /\ tail(l) \in Node
    BY Sentinels
  <2>2. prev[n] = IF \E l \in ListId : n = tail(l)
                  THEN head(CHOOSE l \in ListId : n = tail(l)) ELSE NULL
    BY DEF list_init
  <2>3. next[n] = IF \E l \in ListId : n = head(l)
                  THEN tail(CHOOSE l \in ListId : n = head(l)) ELSE NULL
    BY DEF list_init
  <2>4. (\E l \in ListId : n = tail(l)) => (CHOOSE l \in ListId : n = tail(l)) \in ListId
    OBVIOUS
  <2>5. (\E l \in ListId : n = head(l)) => (CHOOSE l \in ListId : n = head(l)) \in ListId
    OBVIOUS
  <2>6. prev[n] \in Node \cup {NULL}
    BY <2>1, <2>2, <2>4, Zenon
  <2> QED
    BY <2>1, <2>3, <2>5, <2>6, Zenon
<1>4. PointersOK
  <2>1. prev = [n \in Node |-> prev[n]] /\ next = [n \in Node |-> next[n]]
    BY DEF list_init
  <2> QED
    BY <1>3, <2>1 DEF PointersOK
<1>5. ASSUME NEW l \in ListId
      PROVE  /\ prev[head(l)] = NULL /\ next[tail(l)] = NULL
             /\ next[head(l)] = tail(l) /\ prev[tail(l)] = head(l)
  <2>1. head(l) \in Node /\ tail(l) \in Node
    BY Sentinels
  <2>2. \A m \in ListId : head(l) # tail(m) /\ head(m) # tail(l)
    BY Sentinels
  <2>3. (CHOOSE m \in ListId : head(l) = head(m)) = l
    BY Sentinels
  <2>4. (CHOOSE m \in ListId : tail(l) = tail(m)) = l
    BY Sentinels
  <2>5. prev[head(l)] = NULL /\ next[tail(l)] = NULL
    BY <2>1, <2>2 DEF list_init
  <2>6. next[head(l)] = tail(l)
    BY <2>1, <2>3 DEF list_init
  <2>7. prev[tail(l)] = head(l)
    BY <2>1, <2>4 DEF list_init
  <2> QED
    BY <2>5, <2>6, <2>7
<1>6. \A l \in ListId : \A k \in 0..Len(s[l]) :
         next[Chain(s, l, k)] = Chain(s, l, k + 1) /\ prev[Chain(s, l, k + 1)] = Chain(s, l, k)
  <2> SUFFICES ASSUME NEW l \in ListId
               PROVE  /\ next[Chain(s, l, 0)] = Chain(s, l, 0 + 1)
                      /\ prev[Chain(s, l, 0 + 1)] = Chain(s, l, 0)
    BY <1>2
  <2>1. Chain(s, l, 0) = head(l) /\ Chain(s, l, 0 + 1) = tail(l)
    BY <1>2, ChainNodes
  <2> QED
    BY <1>5, <2>1
<1>7. \A l, m \in ListId : \A i \in 1..Len(s[l]), j \in 1..Len(s[m]) :
         s[l][i] = s[m][j] => l = m /\ i = j
  BY <1>2
<1> QED
  BY <1>1, <1>2, <1>4, <1>5, <1>6, <1>7 DEF Represents

LEMMA InsertKeeps ==
    ASSUME NEW s, Represents(s), NEW l \in ListId, NEW k \in 1..(Len(s[l]) + 1), NEW e \in Elem,
           \A m \in ListId : \A i \in 1..Len(s[m]) : s[m][i] # e,
           list_insert_before(Chain(s, l, k), e),
           NEW s2, s2 = [s EXCEPT ![l] = Put(s[l], k, e)]
    PROVE  Represents(s2)'
<1>1. s \in [ListId -> Seq(Elem)] /\ PointersOK
  BY DEF Represents
<1>2. PICK n \in Nat : n = Len(s[l])
  BY <1>1, ChainNodes
<1>3. /\ s2 \in [ListId -> Seq(Elem)] /\ Len(s2[l]) = n + 1
      /\ \A i \in 1..(n + 1) :
            s2[l][i] = IF i < k THEN s[l][i] ELSE IF i = k THEN e ELSE s[l][i - 1]
      /\ \A m \in ListId : m # l => s2[m] = s[m]
  <2>1. PICK t \in Seq(Elem) : t = s[l]
    BY <1>1
  <2>2. PICK u : u = Put(t, k, e)
    OBVIOUS
  <2>3. /\ u \in Seq(Elem) /\ Len(u) = n + 1
        /\ \A i \in 1..(n + 1) : u[i] = IF i < k THEN t[i] ELSE IF i = k THEN e ELSE t[i - 1]
    <3>1. Len(t) = n /\ k \in 1..(Len(t) + 1)
      BY <1>2, <2>1
    <3>2. /\ u \in Seq(Elem) /\ Len(u) = Len(t) + 1
          /\ \A i \in 1..(Len(t) + 1) :
                u[i] = IF i < k THEN t[i] ELSE IF i = k THEN e ELSE t[i - 1]
      <4>1. /\ Put(t, k, e) \in Seq(Elem) /\ Len(Put(t, k, e)) = Len(t) + 1
            /\ \A i \in 1..(Len(t) + 1) :
                  Put(t, k, e)[i] = IF i < k THEN t[i] ELSE IF i = k THEN e ELSE t[i - 1]
        BY ONLY t \in Seq(Elem), e \in Elem, <3>1, PutOf, ZenonT(30)
      <4> QED
        BY <2>2, <4>1, Zenon
    <3> QED
      BY <3>1, <3>2
  <2>4. s2 = [s EXCEPT ![l] = u]
    BY <2>1, <2>2
  <2>5. s2[l] = u /\ s2 \in [ListId -> Seq(Elem)] /\ \A m \in ListId : m # l => s2[m] = s[m]
    BY <1>1, <2>3, <2>4
  <2> QED
    BY <2>1, <2>3, <2>5
<1>4. /\ prev[Chain(s, l, k)] = Chain(s, l, k - 1)
      /\ k \in Nat /\ k - 1 \in 0..(n + 1) /\ k \in 0..(n + 1)
  <2>1. k - 1 \in 0..n /\ k - 1 + 1 = k /\ k - 1 \in 0..(n + 1) /\ k \in Nat /\ k \in 0..(n + 1)
    BY <1>2
  <2>2. prev[Chain(s, l, k - 1 + 1)] = Chain(s, l, k - 1)
    BY <1>2, <2>1 DEF Represents
  <2> QED
    BY <2>1, <2>2
<1>5. /\ next' = [next EXCEPT ![e] = Chain(s, l, k), ![Chain(s, l, k - 1)] = e]
      /\ prev' = [prev EXCEPT ![e] = Chain(s, l, k - 1), ![Chain(s, l, k)] = e]
  BY <1>4 DEF list_insert_before
<1>6. /\ \A m \in ListId : \A i \in 0..(Len(s[m]) + 1) : Chain(s, m, i) \in Node /\ Chain(s, m, i) # e
      /\ e \in Node /\ Len(s[l]) + 1 = n + 1
  <2>1. ASSUME NEW m \in ListId, NEW i \in 0..(Len(s[m]) + 1)
        PROVE  Chain(s, m, i) \in Node /\ Chain(s, m, i) # e
    <3>1. Len(s[m]) \in Nat
      BY <1>1, ChainNodes
    <3>2. i = 0 \/ i = Len(s[m]) + 1 \/ i \in 1..Len(s[m])
      BY <3>1
    <3>3. /\ Chain(s, m, 0) = head(m) /\ Chain(s, m, Len(s[m]) + 1) = tail(m)
          /\ \A j \in 1..Len(s[m]) : Chain(s, m, j) = s[m][j]
          /\ Chain(s, m, i) \in Node
      BY <1>1, ChainNodes
    <3>4. head(m) # e /\ tail(m) # e
      BY LinkedListAssumption
    <3> QED
      BY <3>2, <3>3, <3>4
  <2> QED
    BY <1>2, <2>1, Sentinels
<1>7. PointersOK'
  BY <1>1, <1>2, <1>4, <1>5, <1>6 DEF PointersOK
\* What the pointers of the nodes are now
<1>8. next'[e] = Chain(s, l, k) /\ prev'[e] = Chain(s, l, k - 1)
  BY <1>1, <1>2, <1>4, <1>5, <1>6 DEF PointersOK
<1>9. next'[Chain(s, l, k - 1)] = e /\ prev'[Chain(s, l, k)] = e
  BY <1>1, <1>2, <1>4, <1>5, <1>6 DEF PointersOK
<1>10. \A m \in ListId : \A i \in 0..(Len(s[m]) + 1) :
          /\ ~(m = l /\ i = k - 1) => next'[Chain(s, m, i)] = next[Chain(s, m, i)]
          /\ ~(m = l /\ i = k) => prev'[Chain(s, m, i)] = prev[Chain(s, m, i)]
  <2> SUFFICES ASSUME NEW m \in ListId, NEW i \in 0..(Len(s[m]) + 1)
               PROVE  /\ ~(m = l /\ i = k - 1) => next'[Chain(s, m, i)] = next[Chain(s, m, i)]
                      /\ ~(m = l /\ i = k) => prev'[Chain(s, m, i)] = prev[Chain(s, m, i)]
    OBVIOUS
  <2>1. Chain(s, m, i) = Chain(s, l, k - 1) => m = l /\ i = k - 1
    BY <1>2, <1>4, ChainsAreDistinct
  <2>2. Chain(s, m, i) = Chain(s, l, k) => m = l /\ i = k
    BY <1>2, <1>4, ChainsAreDistinct
  <2>3. Chain(s, m, i) \in Node /\ Chain(s, m, i) # e
    BY <1>6
  <2> QED
    BY <1>1, <1>5, <2>1, <2>2, <2>3 DEF PointersOK
<1>11. \A m \in ListId : prev'[head(m)] = NULL /\ next'[tail(m)] = NULL
  <2> SUFFICES ASSUME NEW m \in ListId
               PROVE  prev'[head(m)] = NULL /\ next'[tail(m)] = NULL
    OBVIOUS
  <2>1. Chain(s, m, 0) = head(m) /\ Chain(s, m, Len(s[m]) + 1) = tail(m) /\ Len(s[m]) \in Nat
    BY <1>1, ChainNodes
  <2>2. 0 \in 0..(Len(s[m]) + 1) /\ Len(s[m]) + 1 \in 0..(Len(s[m]) + 1)
    BY <2>1
  <2>3. ~(m = l /\ 0 = k) /\ ~(m = l /\ Len(s[m]) + 1 = k - 1)
    BY <1>2, <1>4
  <2>4. prev'[head(m)] = prev[head(m)] /\ next'[tail(m)] = next[tail(m)]
    BY <1>10, <2>1, <2>2, <2>3
  <2> QED
    BY <2>4 DEF Represents
<1>12. \A m \in ListId : \A i \in 0..(Len(s[m]) + 1) : m # l => Chain(s2, m, i) = Chain(s, m, i)
  BY <1>3 DEF Chain
<1>13. \A i \in 0..(n + 2) :
          Chain(s2, l, i) = IF i < k THEN Chain(s, l, i) ELSE IF i = k THEN e
                            ELSE Chain(s, l, i - 1)
  <2> SUFFICES ASSUME NEW i \in 0..(n + 2)
               PROVE  Chain(s2, l, i) = IF i < k THEN Chain(s, l, i) ELSE IF i = k THEN e
                                        ELSE Chain(s, l, i - 1)
    OBVIOUS
  <2>1. CASE i = 0
    BY <1>4, <2>1 DEF Chain
  <2>2. CASE i = n + 2
    <3>1. ~(i < k) /\ i # k /\ i - 1 = n + 1 /\ ~(i <= n + 1) /\ i # 0 /\ ~(i - 1 <= n) /\ i - 1 # 0
      BY <1>2, <1>4, <2>2
    <3> QED
      BY <1>2, <1>3, <3>1 DEF Chain
  <2>3. CASE i \in 1..(n + 1)
    <3>1. Chain(s2, l, i) = s2[l][i]
      BY <1>3, <2>3 DEF Chain
    <3>2. i < k => Chain(s, l, i) = s[l][i]
      BY <1>2, <1>4, <2>3 DEF Chain
    <3>3. ~(i < k) /\ i # k => Chain(s, l, i - 1) = s[l][i - 1]
      BY <1>2, <1>4, <2>3 DEF Chain
    <3> QED
      BY <1>3, <2>3, <3>1, <3>2, <3>3
  <2> QED
    BY <2>1, <2>2, <2>3
<1>14. \A m \in ListId : \A i \in 0..Len(s2[m]) :
          next'[Chain(s2, m, i)] = Chain(s2, m, i + 1)
          /\ prev'[Chain(s2, m, i + 1)] = Chain(s2, m, i)
  <2> SUFFICES ASSUME NEW m \in ListId, NEW i \in 0..Len(s2[m])
               PROVE  next'[Chain(s2, m, i)] = Chain(s2, m, i + 1)
                      /\ prev'[Chain(s2, m, i + 1)] = Chain(s2, m, i)
    OBVIOUS
  <2>1. CASE m # l
    <3>1. i \in 0..Len(s[m]) /\ Len(s[m]) \in Nat
      BY <1>1, <1>3, <2>1, ChainNodes
    <3>2. i \in 0..(Len(s[m]) + 1) /\ i + 1 \in 0..(Len(s[m]) + 1)
      BY <3>1
    <3>3. Chain(s2, m, i) = Chain(s, m, i) /\ Chain(s2, m, i + 1) = Chain(s, m, i + 1)
      BY <1>12, <2>1, <3>2
    <3>4. next[Chain(s, m, i)] = Chain(s, m, i + 1) /\ prev[Chain(s, m, i + 1)] = Chain(s, m, i)
      BY <3>1 DEF Represents
    <3> QED
      BY <1>10, <2>1, <3>2, <3>3, <3>4
  <2>2. CASE m = l
    <3>1. i \in Nat /\ i \in 0..(n + 1) /\ i \in 0..(n + 2) /\ i + 1 \in 0..(n + 2)
      BY <1>3, <2>2
    <3>2. Chain(s2, l, i) = IF i < k THEN Chain(s, l, i) ELSE IF i = k THEN e
                            ELSE Chain(s, l, i - 1)
      BY <1>13, <3>1
    <3>3. Chain(s2, l, i + 1) = IF i + 1 < k THEN Chain(s, l, i + 1) ELSE IF i + 1 = k THEN e
                                ELSE Chain(s, l, i)
      <4>1. PICK j \in 0..(n + 2) : j = i + 1 /\ j - 1 = i
        BY <3>1
      <4>2. Chain(s2, l, j) = IF j < k THEN Chain(s, l, j) ELSE IF j = k THEN e
                              ELSE Chain(s, l, j - 1)
        BY <1>13
      <4> QED
        BY <4>1, <4>2
    <3>4. \A j \in 0..n : /\ next[Chain(s, l, j)] = Chain(s, l, j + 1)
                          /\ prev[Chain(s, l, j + 1)] = Chain(s, l, j)
      BY <1>2 DEF Represents
    <3>5. \A j \in 0..(n + 1) :
             /\ j # k - 1 => next'[Chain(s, l, j)] = next[Chain(s, l, j)]
             /\ j # k => prev'[Chain(s, l, j)] = prev[Chain(s, l, j)]
      BY <1>2, <1>10
    <3>6. CASE i + 1 < k
      <4>1. Chain(s2, l, i) = Chain(s, l, i) /\ Chain(s2, l, i + 1) = Chain(s, l, i + 1)
        BY <1>4, <3>1, <3>2, <3>3, <3>6
      <4>2. i \in 0..n /\ i \in 0..(n + 1) /\ i + 1 \in 0..(n + 1) /\ i # k - 1 /\ i + 1 # k
        BY <1>2, <1>4, <3>1, <3>6
      <4> QED
        BY <2>2, <3>4, <3>5, <4>1, <4>2
    <3>7. CASE i + 1 = k
      <4>1. Chain(s2, l, i) = Chain(s, l, k - 1) /\ Chain(s2, l, i + 1) = e
        BY <1>4, <3>1, <3>2, <3>3, <3>7
      <4> QED
        BY <1>8, <1>9, <2>2, <4>1
    <3>8. CASE i = k
      <4>1. Chain(s2, l, i) = e /\ Chain(s2, l, i + 1) = Chain(s, l, k)
        BY <1>4, <3>1, <3>2, <3>3, <3>8
      <4> QED
        BY <1>8, <1>9, <2>2, <4>1
    <3>9. CASE i > k
      <4>1. PICK j \in 0..n : i = j + 1 /\ j + 1 \in 0..(n + 1) /\ j \in 0..(n + 1)
                              /\ j # k - 1 /\ j + 1 # k
        <5>1. i - 1 \in 0..n /\ i = i - 1 + 1 /\ i - 1 \in 0..(n + 1) /\ i - 1 # k - 1 /\ i # k
          BY <1>2, <1>4, <3>1, <3>9
        <5> QED
          BY <3>1, <5>1
      <4>2. Chain(s2, l, i) = Chain(s, l, j) /\ Chain(s2, l, i + 1) = Chain(s, l, j + 1)
        BY <1>4, <3>1, <3>2, <3>3, <3>9, <4>1
      <4> QED
        BY <2>2, <3>4, <3>5, <4>1, <4>2
    <3> QED
      BY <1>4, <3>1, <3>6, <3>7, <3>8, <3>9
  <2> QED
    BY <2>1, <2>2
<1>15. \A m, h \in ListId : \A i \in 1..Len(s2[m]), j \in 1..Len(s2[h]) :
          s2[m][i] = s2[h][j] => m = h /\ i = j
  <2> DEFINE old(i) == IF i < k THEN i ELSE i - 1
  <2>1. \A i \in 1..(n + 1) : i # k => old(i) \in 1..n /\ s2[l][i] = s[l][old(i)]
    BY <1>2, <1>3, <1>4
  <2>2. \A i, j \in 1..(n + 1) : i # k /\ j # k /\ old(i) = old(j) => i = j
    BY <1>4
  <2>3. s2[l][k] = e
    BY <1>2, <1>3
  <2> HIDE DEF old
  <2> SUFFICES ASSUME NEW m \in ListId, NEW h \in ListId, NEW i \in 1..Len(s2[m]),
                      NEW j \in 1..Len(s2[h]), s2[m][i] = s2[h][j]
               PROVE  m = h /\ i = j
    OBVIOUS
  <2>4. \A f, g \in ListId : \A a \in 1..Len(s[f]), b \in 1..Len(s[g]) :
           s[f][a] = s[g][b] => f = g /\ a = b
    BY DEF Represents
  <2>5. CASE m # l /\ h # l
    BY <1>3, <2>4, <2>5
  <2>6. CASE m = l /\ h # l
    <3>1. j \in 1..Len(s[h]) /\ s2[h][j] = s[h][j]
      BY <1>3, <2>6
    <3>2. i \in 1..(n + 1)
      BY <1>3, <2>6
    <3>3. i # k
      BY <2>3, <2>6, <3>1
    <3> QED
      BY <1>2, <2>1, <2>4, <2>6, <3>1, <3>2, <3>3
  <2>7. CASE m # l /\ h = l
    <3>1. i \in 1..Len(s[m]) /\ s2[m][i] = s[m][i]
      BY <1>3, <2>7
    <3>2. j \in 1..(n + 1)
      BY <1>3, <2>7
    <3>3. j # k
      BY <2>3, <2>7, <3>1
    <3> QED
      BY <1>2, <2>1, <2>4, <2>7, <3>1, <3>2, <3>3, SMTT(30)
  <2>8. CASE m = l /\ h = l
    <3>1. i \in 1..(n + 1) /\ j \in 1..(n + 1)
      BY <1>3, <2>8
    <3>2. CASE i = k
      BY <1>2, <2>1, <2>3, <2>8, <3>1, <3>2
    <3>3. CASE j = k
      BY <1>2, <2>1, <2>3, <2>8, <3>1, <3>3
    <3>4. CASE i # k /\ j # k
      BY <1>2, <2>1, <2>2, <2>4, <2>8, <3>1, <3>4
    <3> QED
      BY <3>2, <3>3, <3>4
  <2> QED
    BY <2>5, <2>6, <2>7, <2>8
<1> QED
  BY <1>3, <1>7, <1>11, <1>14, <1>15 DEF Represents

LEMMA UnlinkKeeps ==
    ASSUME NEW s, Represents(s), NEW l \in ListId, NEW k \in 1..Len(s[l]),
           unlink(s[l][k]),
           NEW s2, s2 = [s EXCEPT ![l] = Without(s[l], k)]
    PROVE  Represents(s2)'
<1>1. s \in [ListId -> Seq(Elem)] /\ PointersOK
  BY DEF Represents
<1>2. PICK n \in Nat : n = Len(s[l]) /\ n # 0
  BY <1>1, ChainNodes
<1>3. /\ s2 \in [ListId -> Seq(Elem)] /\ Len(s2[l]) = n - 1
      /\ \A i \in 1..(n - 1) : s2[l][i] = IF i < k THEN s[l][i] ELSE s[l][i + 1]
      /\ \A m \in ListId : m # l => s2[m] = s[m]
  <2>1. PICK t \in Seq(Elem) : t = s[l]
    BY <1>1
  <2>2. PICK u : u = Without(t, k)
    OBVIOUS
  <2>3. /\ u \in Seq(Elem) /\ Len(u) = n - 1
        /\ \A i \in 1..(n - 1) : u[i] = IF i < k THEN t[i] ELSE t[i + 1]
    <3>1. Len(t) = n /\ k \in 1..Len(t)
      BY <1>2, <2>1
    <3>2. /\ u \in Seq(Elem) /\ Len(u) = Len(t) - 1
          /\ \A i \in 1..(Len(t) - 1) : u[i] = IF i < k THEN t[i] ELSE t[i + 1]
      BY <2>2, <3>1, WithoutOf
    <3> QED
      BY <3>1, <3>2
  <2>4. s2 = [s EXCEPT ![l] = u]
    BY <2>1, <2>2
  <2>5. s2[l] = u /\ s2 \in [ListId -> Seq(Elem)] /\ \A m \in ListId : m # l => s2[m] = s[m]
    BY <1>1, <2>3, <2>4
  <2> QED
    BY <2>1, <2>3, <2>5
<1>4. /\ k \in Nat /\ k - 1 \in 0..n /\ k \in 1..n /\ k + 1 \in 0..(n + 1) /\ k - 1 \in 0..(n + 1)
      /\ next[Chain(s, l, k)] = Chain(s, l, k + 1) /\ prev[Chain(s, l, k)] = Chain(s, l, k - 1)
      /\ Chain(s, l, k) = s[l][k]
  <2>1. /\ k \in Nat /\ k - 1 \in 0..n /\ k \in 1..n /\ k \in 0..n /\ k + 1 \in 0..(n + 1)
        /\ k - 1 \in 0..(n + 1) /\ k - 1 + 1 = k
    BY <1>2
  <2>2. prev[Chain(s, l, k - 1 + 1)] = Chain(s, l, k - 1)
    BY <1>2, <2>1 DEF Represents
  <2>3. next[Chain(s, l, k)] = Chain(s, l, k + 1)
    BY <1>2, <2>1 DEF Represents
  <2>4. Chain(s, l, k) = s[l][k]
    BY <1>1, ChainNodes
  <2> QED
    BY <2>1, <2>2, <2>3, <2>4
<1>5. /\ next' = [next EXCEPT ![Chain(s, l, k - 1)] = Chain(s, l, k + 1)]
      /\ prev' = [prev EXCEPT ![Chain(s, l, k + 1)] = Chain(s, l, k - 1)]
  BY <1>4 DEF unlink
<1>6. \A m \in ListId : \A i \in 0..(Len(s[m]) + 1) : Chain(s, m, i) \in Node
  BY <1>1, ChainNodes
<1>7. PointersOK'
  BY <1>1, <1>2, <1>4, <1>5, <1>6 DEF PointersOK
<1>8. /\ next'[Chain(s, l, k - 1)] = Chain(s, l, k + 1)
      /\ prev'[Chain(s, l, k + 1)] = Chain(s, l, k - 1)
  BY <1>1, <1>2, <1>4, <1>5, <1>6 DEF PointersOK
<1>9. \A m \in ListId : \A i \in 0..(Len(s[m]) + 1) :
          /\ ~(m = l /\ i = k - 1) => next'[Chain(s, m, i)] = next[Chain(s, m, i)]
          /\ ~(m = l /\ i = k + 1) => prev'[Chain(s, m, i)] = prev[Chain(s, m, i)]
  <2> SUFFICES ASSUME NEW m \in ListId, NEW i \in 0..(Len(s[m]) + 1)
               PROVE  /\ ~(m = l /\ i = k - 1) => next'[Chain(s, m, i)] = next[Chain(s, m, i)]
                      /\ ~(m = l /\ i = k + 1) => prev'[Chain(s, m, i)] = prev[Chain(s, m, i)]
    OBVIOUS
  <2>1. Chain(s, m, i) = Chain(s, l, k - 1) => m = l /\ i = k - 1
    BY <1>2, <1>4, ChainsAreDistinct
  <2>2. Chain(s, m, i) = Chain(s, l, k + 1) => m = l /\ i = k + 1
    BY <1>2, <1>4, ChainsAreDistinct
  <2>3. Chain(s, m, i) \in Node
    BY <1>6
  <2> QED
    BY <1>1, <1>5, <2>1, <2>2, <2>3 DEF PointersOK
<1>10. \A m \in ListId : prev'[head(m)] = NULL /\ next'[tail(m)] = NULL
  <2> SUFFICES ASSUME NEW m \in ListId
               PROVE  prev'[head(m)] = NULL /\ next'[tail(m)] = NULL
    OBVIOUS
  <2>1. Chain(s, m, 0) = head(m) /\ Chain(s, m, Len(s[m]) + 1) = tail(m) /\ Len(s[m]) \in Nat
    BY <1>1, ChainNodes
  <2>2. 0 \in 0..(Len(s[m]) + 1) /\ Len(s[m]) + 1 \in 0..(Len(s[m]) + 1)
    BY <2>1
  <2>3. ~(m = l /\ 0 = k + 1) /\ ~(m = l /\ Len(s[m]) + 1 = k - 1)
    BY <1>2, <1>4
  <2>4. prev'[head(m)] = prev[head(m)] /\ next'[tail(m)] = next[tail(m)]
    BY <1>9, <2>1, <2>2, <2>3
  <2> QED
    BY <2>4 DEF Represents
<1>11. \A m \in ListId : \A i \in 0..(Len(s[m]) + 1) : m # l => Chain(s2, m, i) = Chain(s, m, i)
  BY <1>3 DEF Chain
<1>12. \A i \in 0..n : Chain(s2, l, i) = IF i < k THEN Chain(s, l, i) ELSE Chain(s, l, i + 1)
  <2> SUFFICES ASSUME NEW i \in 0..n
               PROVE  Chain(s2, l, i) = IF i < k THEN Chain(s, l, i) ELSE Chain(s, l, i + 1)
    OBVIOUS
  <2>1. CASE i = 0
    BY <1>4, <2>1 DEF Chain
  <2>2. CASE i = n /\ i # 0
    <3>1. ~(i < k) /\ ~(i <= n - 1) /\ ~(i + 1 <= n) /\ i + 1 # 0
      BY <1>2, <1>4, <2>2
    <3> QED
      BY <1>2, <1>3, <2>2, <3>1 DEF Chain
  <2>3. CASE i \in 1..(n - 1)
    <3>1. Chain(s2, l, i) = s2[l][i]
      BY <1>3, <2>3 DEF Chain
    <3>2. i < k => Chain(s, l, i) = s[l][i]
      BY <1>2, <1>4, <2>3 DEF Chain
    <3>3. ~(i < k) => Chain(s, l, i + 1) = s[l][i + 1]
      BY <1>2, <1>4, <2>3 DEF Chain
    <3> QED
      BY <1>3, <2>3, <3>1, <3>2, <3>3
  <2> QED
    BY <1>2, <2>1, <2>2, <2>3
<1>13. \A m \in ListId : \A i \in 0..Len(s2[m]) :
          next'[Chain(s2, m, i)] = Chain(s2, m, i + 1)
          /\ prev'[Chain(s2, m, i + 1)] = Chain(s2, m, i)
  <2> SUFFICES ASSUME NEW m \in ListId, NEW i \in 0..Len(s2[m])
               PROVE  next'[Chain(s2, m, i)] = Chain(s2, m, i + 1)
                      /\ prev'[Chain(s2, m, i + 1)] = Chain(s2, m, i)
    OBVIOUS
  <2>1. CASE m # l
    <3>1. i \in 0..Len(s[m]) /\ Len(s[m]) \in Nat
      BY <1>1, <1>3, <2>1, ChainNodes
    <3>2. i \in 0..(Len(s[m]) + 1) /\ i + 1 \in 0..(Len(s[m]) + 1)
      BY <3>1
    <3>3. Chain(s2, m, i) = Chain(s, m, i) /\ Chain(s2, m, i + 1) = Chain(s, m, i + 1)
      BY <1>11, <2>1, <3>2
    <3>4. next[Chain(s, m, i)] = Chain(s, m, i + 1) /\ prev[Chain(s, m, i + 1)] = Chain(s, m, i)
      BY <3>1 DEF Represents
    <3> QED
      BY <1>9, <2>1, <3>2, <3>3, <3>4
  <2>2. CASE m = l
    <3>1. i \in Nat /\ i \in 0..(n - 1) /\ i \in 0..n
      BY <1>2, <1>3, <2>2
    <3>2. Chain(s2, l, i) = IF i < k THEN Chain(s, l, i) ELSE Chain(s, l, i + 1)
      BY <1>12, <3>1
    <3>3. PICK j \in 0..n : j = i + 1
      BY <3>1
    <3>4. Chain(s2, l, j) = IF j < k THEN Chain(s, l, j) ELSE Chain(s, l, j + 1)
      BY <1>12
    <3>5. \A h \in 0..n : /\ next[Chain(s, l, h)] = Chain(s, l, h + 1)
                          /\ prev[Chain(s, l, h + 1)] = Chain(s, l, h)
      BY <1>2 DEF Represents
    <3>6. \A h \in 0..(n + 1) :
             /\ h # k - 1 => next'[Chain(s, l, h)] = next[Chain(s, l, h)]
             /\ h # k + 1 => prev'[Chain(s, l, h)] = prev[Chain(s, l, h)]
      BY <1>2, <1>9
    <3>7. CASE j < k
      <4>1. Chain(s2, l, i) = Chain(s, l, i) /\ Chain(s2, l, j) = Chain(s, l, j)
        BY <1>4, <3>1, <3>2, <3>3, <3>4, <3>7
      <4>2. i \in 0..n /\ i \in 0..(n + 1) /\ j \in 0..(n + 1) /\ i # k - 1 /\ j # k + 1
        BY <1>4, <3>1, <3>3, <3>7
      <4>3. next[Chain(s, l, i)] = Chain(s, l, j) /\ prev[Chain(s, l, j)] = Chain(s, l, i)
        BY <3>3, <3>5, <4>2
      <4> QED
        BY <2>2, <3>3, <3>6, <4>1, <4>2, <4>3
    <3>8. CASE j = k
      <4>1. Chain(s2, l, i) = Chain(s, l, k - 1) /\ Chain(s2, l, j) = Chain(s, l, k + 1)
        <5>1. i < k /\ i = k - 1 /\ ~(j < k)
          BY <1>4, <3>1, <3>3, <3>8
        <5> QED
          BY <3>2, <3>4, <3>8, <5>1
      <4> QED
        BY <1>8, <2>2, <3>3, <4>1
    <3>9. CASE j > k
      <4>1. Chain(s2, l, i) = Chain(s, l, j) /\ Chain(s2, l, j) = Chain(s, l, j + 1)
        BY <1>4, <3>1, <3>2, <3>3, <3>4, <3>9
      <4>2. j \in 0..(n + 1) /\ j + 1 \in 0..(n + 1) /\ j # k - 1 /\ j + 1 # k + 1
        BY <1>4, <3>1, <3>3, <3>9, SMTT(30)
      <4>3. next[Chain(s, l, j)] = Chain(s, l, j + 1) /\ prev[Chain(s, l, j + 1)] = Chain(s, l, j)
        BY <3>5
      <4> QED
        BY <2>2, <3>3, <3>6, <4>1, <4>2, <4>3
    <3> QED
      BY <1>4, <3>3, <3>7, <3>8, <3>9
  <2> QED
    BY <2>1, <2>2
<1>14. \A m, h \in ListId : \A i \in 1..Len(s2[m]), j \in 1..Len(s2[h]) :
          s2[m][i] = s2[h][j] => m = h /\ i = j
  <2> DEFINE old(i) == IF i < k THEN i ELSE i + 1
  <2>1. \A i \in 1..(n - 1) : old(i) \in 1..n /\ s2[l][i] = s[l][old(i)]
    BY <1>2, <1>3, <1>4
  <2>2. \A i, j \in 1..(n - 1) : old(i) = old(j) => i = j
    BY <1>4
  <2> HIDE DEF old
  <2> SUFFICES ASSUME NEW m \in ListId, NEW h \in ListId, NEW i \in 1..Len(s2[m]),
                      NEW j \in 1..Len(s2[h]), s2[m][i] = s2[h][j]
               PROVE  m = h /\ i = j
    OBVIOUS
  <2>3. \A f, g \in ListId : \A a \in 1..Len(s[f]), b \in 1..Len(s[g]) :
           s[f][a] = s[g][b] => f = g /\ a = b
    BY DEF Represents
  <2>4. CASE m # l /\ h # l
    BY <1>3, <2>3, <2>4
  <2>5. CASE m = l /\ h # l
    <3>1. j \in 1..Len(s[h]) /\ s2[h][j] = s[h][j] /\ i \in 1..(n - 1)
      BY <1>3, <2>5
    <3> QED
      BY <1>2, <2>1, <2>3, <2>5, <3>1
  <2>6. CASE m # l /\ h = l
    <3>1. i \in 1..Len(s[m]) /\ s2[m][i] = s[m][i] /\ j \in 1..(n - 1)
      BY <1>3, <2>6
    <3> QED
      BY <1>2, <2>1, <2>3, <2>6, <3>1, SMTT(30)
  <2>7. CASE m = l /\ h = l
    <3>1. i \in 1..(n - 1) /\ j \in 1..(n - 1)
      BY <1>3, <2>7
    <3> QED
      BY <1>2, <2>1, <2>2, <2>3, <2>7, <3>1
  <2> QED
    BY <2>4, <2>5, <2>6, <2>7
<1> QED
  BY <1>3, <1>7, <1>10, <1>13, <1>14 DEF Represents

\* What the functions of list.c make of a sequence
LEMMA PlacesOf ==
    ASSUME NEW t \in Seq(Elem), NEW e \in Elem
    PROVE  /\ Put(t, 1, e) = << e >> \o t
           /\ Put(t, Len(t) + 1, e) = Append(t, e)
           /\ t # << >> => Without(t, 1) = Tail(t)
           /\ \A k \in 1..Len(t) :
                 Without(t, k) = SubSeq(t, 1, k - 1) \o SubSeq(t, k + 1, Len(t))
<1>1. PICK n \in Nat : n = Len(t)
  OBVIOUS
<1>2. Put(t, 1, e) = << e >> \o t
  <2>1. << e >> \in Seq(Elem) /\ Len(<< e >>) = 1 /\ << e >>[1] = e
    OBVIOUS
  <2>2. /\ << e >> \o t \in Seq(Elem) /\ Len(<< e >> \o t) = n + 1
        /\ \A i \in 1..(n + 1) : (<< e >> \o t)[i] = IF i <= 1 THEN << e >>[i] ELSE t[i - 1]
    BY <1>1, <2>1, ConcatProperties
  <2>3. 1 \in 1..(Len(t) + 1)
    BY <1>1
  <2>4. /\ Put(t, 1, e) \in Seq(Elem) /\ Len(Put(t, 1, e)) = n + 1
        /\ \A i \in 1..(n + 1) :
              Put(t, 1, e)[i] = IF i < 1 THEN t[i] ELSE IF i = 1 THEN e ELSE t[i - 1]
    <3>1. PICK k \in 1..(Len(t) + 1) : k = 1
      BY <2>3
    <3>2. /\ Put(t, k, e) \in Seq(Elem) /\ Len(Put(t, k, e)) = Len(t) + 1
          /\ \A i \in 1..(Len(t) + 1) :
                Put(t, k, e)[i] = IF i < k THEN t[i] ELSE IF i = k THEN e ELSE t[i - 1]
      BY PutOf
    <3> QED
      BY <1>1, <3>1, <3>2
  <2>5. ASSUME NEW i \in 1..(n + 1)
        PROVE  Put(t, 1, e)[i] = (<< e >> \o t)[i]
    <3>1. CASE i = 1
      BY <2>1, <2>2, <2>4, <3>1
    <3>2. CASE i # 1
      <4>1. ~(i < 1) /\ ~(i <= 1)
        BY <3>2
      <4>2. Put(t, 1, e)[i] = t[i - 1]
        BY <2>4, <3>2, <4>1
      <4>3. (<< e >> \o t)[i] = t[i - 1]
        BY <2>2, <4>1
      <4> QED
        BY <4>2, <4>3
    <3> QED
      BY <3>1, <3>2
  <2> QED
    BY <2>2, <2>4, <2>5, SeqEqual
<1>3. Put(t, Len(t) + 1, e) = Append(t, e)
  <2>1. /\ Append(t, e) \in Seq(Elem) /\ Len(Append(t, e)) = n + 1
        /\ \A i \in 1..n : Append(t, e)[i] = t[i]
        /\ Append(t, e)[n + 1] = e
    BY <1>1, AppendProperties
  <2>2. Len(t) + 1 \in 1..(Len(t) + 1)
    BY <1>1
  <2>3. PICK k \in 1..(Len(t) + 1) : k = n + 1
    BY <1>1, <2>2
  <2>4. /\ Put(t, k, e) \in Seq(Elem) /\ Len(Put(t, k, e)) = n + 1
        /\ \A i \in 1..(n + 1) :
              Put(t, k, e)[i] = IF i < k THEN t[i] ELSE IF i = k THEN e ELSE t[i - 1]
    BY ONLY t \in Seq(Elem), e \in Elem, n \in Nat, <1>1, <2>3, PutOf
  <2>5. \A i \in 1..(n + 1) : Put(t, k, e)[i] = Append(t, e)[i]
    <3>1. \A i \in 1..(n + 1) : (i \in 1..n /\ i < k) \/ (i = n + 1 /\ i = k /\ ~(i < k))
      BY <2>3
    <3> QED
      BY <2>1, <2>4, <3>1
  <2> QED
    BY <1>1, <2>1, <2>3, <2>4, <2>5, SeqEqual
<1>4. ASSUME NEW k \in 1..Len(t)
      PROVE  Without(t, k) = SubSeq(t, 1, k - 1) \o SubSeq(t, k + 1, Len(t))
  <2>1. PICK u : u = SubSeq(t, 1, k - 1)
    OBVIOUS
  <2>2. PICK v : v = SubSeq(t, k + 1, Len(t))
    OBVIOUS
  <2>3. u \in Seq(Elem) /\ Len(u) = k - 1 /\ \A i \in 1..(k - 1) : u[i] = t[i]
    <3>1. /\ 1 \in 1..(Len(t) + 1) /\ k - 1 \in 0..Len(t)
          /\ \A i \in 1..(k - 1) : 1 + i - 1 = i
      BY <1>1
    <3>2. /\ u \in Seq(Elem)
          /\ Len(u) = IF 1 <= k - 1 THEN (k - 1) - 1 + 1 ELSE 0
          /\ \A i \in 1..((k - 1) - 1 + 1) : u[i] = t[1 + i - 1]
      BY <2>1, <3>1, SubSeqProperties
    <3> QED
      BY <1>1, <3>1, <3>2
  <2>4. v \in Seq(Elem) /\ Len(v) = n - k /\ \A i \in 1..(n - k) : v[i] = t[k + i]
    <3>1. /\ k + 1 \in 1..(Len(t) + 1)
          /\ \A i \in 1..(n - k) : (k + 1) + i - 1 = k + i
      BY <1>1
    <3>2. /\ v \in Seq(Elem)
          /\ Len(v) = IF k + 1 <= Len(t) THEN Len(t) - (k + 1) + 1 ELSE 0
          /\ \A i \in 1..(Len(t) - (k + 1) + 1) : v[i] = t[(k + 1) + i - 1]
      BY <2>2, <3>1, SubSeqProperties
    <3> QED
      BY <1>1, <3>1, <3>2
  <2>5. /\ u \o v \in Seq(Elem) /\ Len(u \o v) = n - 1
        /\ \A i \in 1..(n - 1) : (u \o v)[i] = IF i <= k - 1 THEN u[i] ELSE v[i - (k - 1)]
    <3>1. /\ u \o v \in Seq(Elem) /\ Len(u \o v) = Len(u) + Len(v)
          /\ \A i \in 1..(Len(u) + Len(v)) :
                (u \o v)[i] = IF i <= Len(u) THEN u[i] ELSE v[i - Len(u)]
      BY <2>3, <2>4, ConcatProperties
    <3>2. Len(u) + Len(v) = n - 1
      BY <1>1, <2>3, <2>4
    <3> QED
      BY <2>3, <3>1, <3>2
  <2>6. /\ Without(t, k) \in Seq(Elem) /\ Len(Without(t, k)) = n - 1
        /\ \A i \in 1..(n - 1) : Without(t, k)[i] = IF i < k THEN t[i] ELSE t[i + 1]
    BY <1>1, WithoutOf
  <2>7. ASSUME NEW i \in 1..(n - 1)
        PROVE  Without(t, k)[i] = (u \o v)[i]
    <3>1. CASE i < k
      BY <1>1, <2>3, <2>5, <2>6, <3>1
    <3>2. CASE ~(i < k)
      <4>1. i - (k - 1) \in 1..(n - k) /\ k + (i - (k - 1)) = i + 1 /\ ~(i <= k - 1)
        BY <1>1, <3>2
      <4>2. v[i - (k - 1)] = t[i + 1]
        BY <2>4, <4>1
      <4> QED
        BY <2>5, <2>6, <3>2, <4>1, <4>2
    <3> QED
      BY <3>1, <3>2
  <2> QED
    BY <2>1, <2>2, <2>5, <2>6, <2>7, SeqEqual
<1>5. ASSUME t # << >>
      PROVE  Without(t, 1) = Tail(t)
  <2>1. /\ Tail(t) \in Seq(Elem) /\ Len(Tail(t)) = n - 1
        /\ \A i \in 1..(n - 1) : Tail(t)[i] = t[i + 1]
    BY <1>1, <1>5, HeadTailProperties
  <2>2. n # 0
    BY <1>1, <1>5, EmptySeq
  <2>3. 1 \in 1..Len(t)
    BY <1>1, <2>2
  <2>4. /\ Without(t, 1) \in Seq(Elem) /\ Len(Without(t, 1)) = n - 1
        /\ \A i \in 1..(n - 1) : Without(t, 1)[i] = IF i < 1 THEN t[i] ELSE t[i + 1]
    BY <1>1, <2>3, WithoutOf
  <2>5. \A i \in 1..(n - 1) : Without(t, 1)[i] = Tail(t)[i]
    BY <2>1, <2>4
  <2> QED
    BY <2>1, <2>4, <2>5, SeqEqual
<1> QED
  BY <1>2, <1>3, <1>4, <1>5

\* An operation on the pointers is the one of its name on sequences.
LEMMA PushKeeps ==
    ASSUME NEW s, Represents(s), NEW l \in ListId, NEW e \in Elem, list_push(l, e)
    PROVE  /\ \A m \in ListId : \A i \in 1..Len(s[m]) : s[m][i] # e
           /\ Represents([s EXCEPT ![l] = << e >> \o @])'
<1>1. \A m \in ListId : \A i \in 1..Len(s[m]) : s[m][i] # e
  BY LoopsFind DEF list_push, unlinked
<1>2. PICK t \in Seq(Elem) : t = s[l]
  BY DEF Represents
<1>3. 1 \in 1..(Len(s[l]) + 1)
  BY <1>2
<1>4. list_insert_before(Chain(s, l, 1), e)
  BY LoopsFind DEF list_push
<1>5. Put(s[l], 1, e) = << e >> \o s[l]
  BY <1>2, PlacesOf
<1>6. PICK s2 : s2 = [s EXCEPT ![l] = Put(s[l], 1, e)]
  OBVIOUS
<1>7. Represents(s2)'
  BY <1>1, <1>3, <1>4, <1>6, InsertKeeps
<1>8. s2 = [s EXCEPT ![l] = << e >> \o @]
  BY <1>5, <1>6
<1> QED
  BY <1>1, <1>7, <1>8

LEMMA AppendKeeps ==
    ASSUME NEW s, Represents(s), NEW l \in ListId, NEW e \in Elem, list_append(l, e)
    PROVE  /\ \A m \in ListId : \A i \in 1..Len(s[m]) : s[m][i] # e
           /\ Represents([s EXCEPT ![l] = Append(@, e)])'
<1>1. \A m \in ListId : \A i \in 1..Len(s[m]) : s[m][i] # e
  BY LoopsFind DEF list_append, unlinked
<1>2. PICK t \in Seq(Elem) : t = s[l]
  BY DEF Represents
<1>3. PICK k \in 1..(Len(s[l]) + 1) : k = Len(s[l]) + 1
  BY <1>2
<1>4. Chain(s, l, k) = tail(l)
  BY <1>3, ChainNodes DEF Represents
<1>5. list_insert_before(Chain(s, l, k), e)
  BY <1>4 DEF list_append
<1>6. Put(s[l], k, e) = Append(s[l], e)
  BY <1>2, <1>3, PlacesOf
<1>7. PICK s2 : s2 = [s EXCEPT ![l] = Put(s[l], k, e)]
  OBVIOUS
<1>8. Represents(s2)'
  BY <1>1, <1>5, <1>7, InsertKeeps
<1>9. s2 = [s EXCEPT ![l] = Append(@, e)]
  BY <1>6, <1>7
<1> QED
  BY <1>1, <1>8, <1>9

LEMMA PopKeeps ==
    ASSUME NEW s, Represents(s), NEW l \in ListId, list_pop(l)
    PROVE  s[l] # << >> /\ Represents([s EXCEPT ![l] = Tail(@)])'
<1>1. PICK t \in Seq(Elem) : t = s[l]
  BY DEF Represents
<1>2. t # << >> /\ 1 \in 1..Len(s[l])
  <2>1. Len(t) # 0 /\ Len(t) \in Nat
    BY <1>1, LoopsFind DEF list_pop
  <2> QED
    BY <1>1, <2>1
<1>3. unlink(s[l][1])
  <2>1. next[head(l)] = Chain(s, l, 1)
    BY LoopsFind
  <2>2. Chain(s, l, 1) = s[l][1]
    BY <1>2, ChainNodes DEF Represents
  <2> QED
    BY <2>1, <2>2 DEF list_pop
<1>4. Without(s[l], 1) = Tail(s[l])
  <2>1. \A e \in Elem : t # << >> => Without(t, 1) = Tail(t)
    BY PlacesOf
  <2>2. t[1] \in Elem
    BY <1>1, <1>2
  <2> QED
    BY <1>1, <1>2, <2>1, <2>2
<1>5. PICK s2 : s2 = [s EXCEPT ![l] = Without(s[l], 1)]
  OBVIOUS
<1>6. Represents(s2)'
  BY <1>2, <1>3, <1>5, UnlinkKeeps
<1>7. s2 = [s EXCEPT ![l] = Tail(@)]
  BY <1>4, <1>5
<1> QED
  BY <1>1, <1>2, <1>6, <1>7

LEMMA RemoveKeeps ==
    ASSUME NEW s, Represents(s), NEW e \in Elem, list_remove(e)
    PROVE  \E l \in ListId : \E k \in 1..Len(s[l]) :
              /\ s[l][k] = e
              /\ Represents([s EXCEPT ![l] = SubSeq(@, 1, k - 1) \o SubSeq(@, k + 1, Len(@))])'
<1>1. PICK l \in ListId : elem_find(l, e)
  BY DEF list_remove, unlinked
<1>2. PICK k \in 1..Len(s[l]) : s[l][k] = e
  BY <1>1, LoopsFind
<1>3. PICK t \in Seq(Elem) : t = s[l]
  BY DEF Represents
<1>4. unlink(s[l][k])
  BY <1>2 DEF list_remove
<1>5. Without(s[l], k) = SubSeq(s[l], 1, k - 1) \o SubSeq(s[l], k + 1, Len(s[l]))
  BY <1>3, PlacesOf
<1>6. PICK s2 : s2 = [s EXCEPT ![l] = Without(s[l], k)]
  OBVIOUS
<1>7. Represents(s2)'
  BY <1>4, <1>6, UnlinkKeeps
<1>8. s2 = [s EXCEPT ![l] = SubSeq(@, 1, k - 1) \o SubSeq(@, k + 1, Len(@))]
  BY <1>5, <1>6
<1>9. Represents([s EXCEPT ![l] = SubSeq(@, 1, k - 1) \o SubSeq(@, k + 1, Len(@))])'
  BY <1>7, <1>8
<1> QED
  BY <1>2, <1>9

LEMMA ListsInvNext ==
    ASSUME ListsInv, [ListsNext]_pointers
    PROVE  ListsInv'
<1>1. PICK s : Represents(s)
  BY DEF ListsInv
<1>2. ASSUME NEW l \in ListId, list_pop(l)
      PROVE  ListsInv'
  BY <1>1, <1>2, PopKeeps DEF ListsInv
<1>3. ASSUME NEW l \in ListId, NEW e \in Elem, list_push(l, e)
      PROVE  ListsInv'
  BY <1>1, <1>3, PushKeeps DEF ListsInv
<1>4. ASSUME NEW l \in ListId, NEW e \in Elem, list_append(l, e)
      PROVE  ListsInv'
  BY <1>1, <1>4, AppendKeeps DEF ListsInv
<1>5. ASSUME NEW e \in Elem, list_remove(e)
      PROVE  ListsInv'
  BY <1>1, <1>5, RemoveKeeps DEF ListsInv
<1>6. CASE UNCHANGED pointers
  <2>1. Represents(s)'
    BY <1>1, <1>6 DEF Represents, PointersOK, pointers
  <2> QED
    BY <2>1 DEF ListsInv
<1> QED
  BY <1>2, <1>3, <1>4, <1>5, <1>6 DEF ListsNext

LEMMA ListsAreWellFormed ==
    ASSUME ListsInv
    PROVE  WellFormed
<1>1. PICK s : Represents(s)
  BY DEF ListsInv
<1>2. PointersOK
  BY <1>1 DEF Represents
<1>3. LoopsEnd
  BY <1>1, LoopsFind DEF LoopsEnd
<1>4. ChainsAgree
  <2> SUFFICES ASSUME NEW l \in ListId
               PROVE  /\ prev[head(l)] = NULL /\ next[tail(l)] = NULL
                      /\ prev[next[head(l)]] = head(l)
                      /\ \A e \in Elem : elem_find(l, e) => prev[next[e]] = e /\ next[prev[e]] = e
    BY DEF ChainsAgree
  <2>1. PICK n \in Nat : n = Len(s[l])
    BY <1>1, ChainNodes DEF Represents
  <2>2. \A k \in 0..n :
           next[Chain(s, l, k)] = Chain(s, l, k + 1) /\ prev[Chain(s, l, k + 1)] = Chain(s, l, k)
    BY <1>1, <2>1 DEF Represents
  <2>3. Chain(s, l, 0) = head(l) /\ \A k \in 1..n : Chain(s, l, k) = s[l][k]
    BY <1>1, <2>1, ChainNodes DEF Represents
  <2>4. prev[next[head(l)]] = head(l)
    BY <2>2, <2>3
  <2>5. ASSUME NEW e \in Elem, elem_find(l, e)
        PROVE  prev[next[e]] = e /\ next[prev[e]] = e
    <3>1. PICK k \in 1..n : s[l][k] = e
      BY <1>1, <2>1, <2>5, LoopsFind
    <3>2. Chain(s, l, k) = e
      BY <2>3, <3>1
    <3>3. PICK j \in 0..n : k = j + 1
      <4>1. k - 1 \in 0..n /\ k = k - 1 + 1
        OBVIOUS
      <4> QED
        BY <4>1
    <3>4. k \in 0..n
      OBVIOUS
    <3> QED
      BY <2>2, <3>2, <3>3, <3>4
  <2>6. prev[head(l)] = NULL /\ next[tail(l)] = NULL
    BY <1>1 DEF Represents
  <2> QED
    BY <2>4, <2>5, <2>6
<1>5. OnOneList
  <2> SUFFICES ASSUME NEW l \in ListId, NEW m \in ListId, NEW e \in Elem,
                      elem_find(l, e), elem_find(m, e)
               PROVE  l = m
    BY DEF OnOneList
  <2>1. PICK i \in 1..Len(s[l]) : s[l][i] = e
    BY <1>1, LoopsFind
  <2>2. PICK j \in 1..Len(s[m]) : s[m][j] = e
    BY <1>1, LoopsFind
  <2> QED
    BY <1>1, <2>1, <2>2 DEF Represents
<1> QED
  BY <1>2, <1>3, <1>4, <1>5 DEF WellFormed

\* list.c: however the elements moved between the lists, every loop over a list
\* ends, the two chains of pointers agree and no element is on two lists.
THEOREM ListsStayWellFormed == ListsSpec => []WellFormed
<1>1. list_init => ListsInv
  BY ListsInit DEF ListsInv
<1>2. ListsInv /\ [ListsNext]_pointers => ListsInv'
  BY ListsInvNext
<1>3. ListsInv => WellFormed
  BY ListsAreWellFormed
<1> QED
  BY <1>1, <1>2, <1>3, PTL DEF ListsSpec

\* The lists that module AbstractLists sees
Seen == [l \in ListId |-> [i \in 1..list_len(l) |-> walk(l)[i - 1]]]

SeenExact == \A s : Represents(s) => Seen = s

LEMMA SeenAre == SeenExact
<1> SUFFICES ASSUME NEW s, Represents(s)
             PROVE  Seen = s
  BY DEF SeenExact
<1>1. s \in [ListId -> Seq(Elem)]
  BY DEF Represents
<1>2. ASSUME NEW l \in ListId
      PROVE  [i \in 1..list_len(l) |-> walk(l)[i - 1]] = s[l]
  <2>1. PICK t \in Seq(Elem) : t = s[l]
    BY <1>1
  <2>2. list_len(l) = Len(t) /\ \A i \in 1..Len(t) : walk(l)[i - 1] = t[i]
    BY <2>1, LoopsFind
  <2>3. t = [i \in 1..Len(t) |-> t[i]]
    OBVIOUS
  <2>4. [i \in 1..list_len(l) |-> walk(l)[i - 1]] = [i \in 1..Len(t) |-> t[i]]
    BY <2>2
  <2> QED
    BY <2>1, <2>3, <2>4
<1>3. s = [l \in ListId |-> s[l]]
  BY <1>1
<1> QED
  BY <1>2, <1>3 DEF Seen

LEMMA SeenAfter == ASSUME NEW s PROVE Represents(s)' => Seen' = s
<1>1. SeenExact'
  BY SeenAre, PTL
<1> QED
  BY <1>1 DEF SeenExact

LEMMA ListsAct ==
    ASSUME ListsInv
    PROVE  /\ \A l \in ListId :
                 /\ list_pop(l) => Abstract!pop(l)
                 /\ \A e \in Elem : /\ list_append(l, e) => Abstract!append(l, e)
                                    /\ list_push(l, e) => Abstract!push(l, e)
           /\ \A e \in Elem : list_remove(e) => Abstract!remove(e)
<1>1. PICK s : Represents(s)
  BY DEF ListsInv
<1>2. Seen = s
  BY <1>1, SeenAre DEF SeenExact
<1>3. ASSUME NEW l \in ListId, list_pop(l)
      PROVE  Abstract!pop(l)
  <2>1. s[l] # << >> /\ Seen' = [s EXCEPT ![l] = Tail(@)]
    BY <1>1, <1>3, PopKeeps, SeenAfter
  <2> QED
    BY <1>2, <2>1 DEF Abstract!pop, Abstract!list_pop, Abstract!list_empty, Seen
<1>4. ASSUME NEW l \in ListId, NEW e \in Elem, list_append(l, e)
      PROVE  Abstract!append(l, e)
  <2>1. /\ \A m \in ListId : \A i \in 1..Len(s[m]) : s[m][i] # e
        /\ Seen' = [s EXCEPT ![l] = Append(@, e)]
    BY <1>1, <1>4, AppendKeeps, SeenAfter
  <2> QED
    BY <1>2, <2>1 DEF Abstract!append, Abstract!list_append, Abstract!linked,
                      Abstract!elem_find, Seen
<1>5. ASSUME NEW l \in ListId, NEW e \in Elem, list_push(l, e)
      PROVE  Abstract!push(l, e)
  <2>1. /\ \A m \in ListId : \A i \in 1..Len(s[m]) : s[m][i] # e
        /\ Seen' = [s EXCEPT ![l] = << e >> \o @]
    BY <1>1, <1>5, PushKeeps, SeenAfter
  <2> QED
    BY <1>2, <2>1 DEF Abstract!push, Abstract!list_push, Abstract!linked,
                      Abstract!elem_find, Seen
<1>6. ASSUME NEW e \in Elem, list_remove(e)
      PROVE  Abstract!remove(e)
  <2>1. PICK l \in ListId : \E k \in 1..Len(s[l]) :
           /\ s[l][k] = e
           /\ Represents([s EXCEPT ![l] = SubSeq(@, 1, k - 1) \o SubSeq(@, k + 1, Len(@))])'
    BY <1>1, <1>6, RemoveKeeps
  <2>2. PICK k \in 1..Len(s[l]) :
           /\ s[l][k] = e
           /\ Represents([s EXCEPT ![l] = SubSeq(@, 1, k - 1) \o SubSeq(@, k + 1, Len(@))])'
    BY <2>1
  <2>3. Seen' = [s EXCEPT ![l] = SubSeq(@, 1, k - 1) \o SubSeq(@, k + 1, Len(@))]
    BY <2>2, SeenAfter
  <2> QED
    BY <1>2, <2>2, <2>3 DEF Abstract!remove, Seen
<1> QED
  BY <1>3, <1>4, <1>5, <1>6

LEMMA ListsStart ==
    ASSUME list_init
    PROVE  ListsInv /\ Abstract!Init
<1>1. PICK s : s = [l \in ListId |-> << >>]
  OBVIOUS
<1>2. Represents(s)
  BY <1>1, ListsInit
<1>3. Seen = s
  BY <1>2, SeenAre DEF SeenExact
<1> QED
  BY <1>1, <1>2, <1>3 DEF ListsInv, Abstract!Init, Seen

LEMMA ListsStep ==
    ASSUME ListsInv, [ListsNext]_pointers
    PROVE  [Abstract!Next]_(Seen)
<1>1. CASE ListsNext
  BY <1>1, ListsAct DEF ListsNext, Abstract!Next
<1>2. CASE UNCHANGED pointers
  <2>1. PICK s : Represents(s)
    BY DEF ListsInv
  <2>2. Represents(s)'
    BY <1>2, <2>1 DEF Represents, PointersOK, pointers
  <2>3. Seen = s /\ Seen' = s
    BY <2>1, <2>2, SeenAre, SeenAfter DEF SeenExact
  <2> QED
    BY <2>3
<1> QED
  BY <1>1, <1>2

\* list.c keeps what AbstractLists promises: on its pointers, every operation is
\* the one of its name on sequences and leaves the other lists alone.
THEOREM PointersImplementLists == ListsSpec => ImplementsLists /\ Abstract!Spec
<1> DEFINE Acts ==
       /\ \A l \in ListId :
             /\ list_pop(l) => Abstract!pop(l)
             /\ \A e \in Elem : /\ list_append(l, e) => Abstract!append(l, e)
                                /\ list_push(l, e) => Abstract!push(l, e)
       /\ \A e \in Elem : list_remove(e) => Abstract!remove(e)
<1>1. list_init => ListsInv /\ Abstract!Init
  BY ListsStart
<1>2. ListsInv /\ [ListsNext]_pointers => ListsInv'
  BY ListsInvNext
<1>3. ListsInv => Acts
  BY ListsAct
<1>4. ListsInv /\ [ListsNext]_pointers => [Abstract!Next]_Seen
  BY ListsStep
<1>5. ListsSpec => Abstract!Init /\ [][Acts]_pointers /\ [][Abstract!Next]_Seen
  <2> HIDE DEF Acts
  <2> QED
    BY <1>1, <1>2, <1>3, <1>4, PTL DEF ListsSpec
<1> QED
  BY <1>5, PTL DEF ImplementsLists, Abstract!Spec, Seen

=============================================================================
