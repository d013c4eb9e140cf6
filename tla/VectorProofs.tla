---------------------------- MODULE VectorProofs ----------------------------
(***************************************************************************)
(* vector, for any elements, any number of blocks and any bounds: whatever *)
(* is thrown and when, and whatever the arguments refer to, no element and *)
(* no block is lost, and an operation leaves what it promises.             *)
(*                                                                         *)
(* First the memory under it: what each operator of StlMemory does to the  *)
(* cells of one block.  Then the helpers of Vector, each as what it leaves *)
(* of the elements it was given, and the calls.                            *)
(***************************************************************************)
EXTENDS Vector, StlMemoryProofs

\* Block b has cap cells, the first n of them with elements; no other block is allocated.
Holds(m, b, n, cap) ==
    /\ IsMemory(m) /\ ~m.fault
    /\ b \in {0} \cup Block /\ n \in Nat /\ cap \in Nat /\ n <= cap
    /\ (b = 0) <=> (cap = 0)
    /\ DOMAIN m.cells[b] = 0..(cap - 1)
    /\ \A k \in 0..(n - 1) : m.cells[b][k] \in Value
    /\ \A k \in n..(cap - 1) : m.cells[b][k] = RAW
    /\ DOMAIN m.cells[0] = {}
    /\ \A a \in Block : a # b => m.cells[a] = no_cells

VectorAt(v, b, n, cap) ==
    /\ DOMAIN v = {"m", "start", "finish", "end_of_storage"}
    /\ v.start = << b, 0 >> /\ v.finish = << b, n >> /\ v.end_of_storage = << b, cap >>
    /\ Holds(v.m, b, n, cap)

\* m is the memory of v with a new block w of len cells, the first q of them with elements.
Built(m, v, w, q, len) ==
    /\ IsMemory(m) /\ ~m.fault
    /\ w \in Block /\ q \in Nat /\ len \in Nat /\ len # 0 /\ q <= len
    /\ v.m.cells[w] = no_cells
    /\ \A a \in {0} \cup Block : a # w => m.cells[a] = v.m.cells[a]
    /\ DOMAIN m.cells[w] = 0..(len - 1)
    /\ \A k \in 0..(q - 1) : m.cells[w][k] \in Value
    /\ \A k \in q..(len - 1) : m.cells[w][k] = RAW

\* The new block is not the old one.
LEMMA NewBlock ==
    ASSUME NEW v, NEW b, NEW n, NEW cap, VectorAt(v, b, n, cap), NEW w \in Block,
           v.m.cells[w] = no_cells
    PROVE  w # b /\ b \in {0} \cup Block /\ w # 0
<1>1. b \in {0} \cup Block /\ cap \in Nat /\ DOMAIN v.m.cells[b] = 0..(cap - 1) /\ (cap = 0 => b = 0)
  BY DEF VectorAt, Holds
<1>2. w # 0
  BY StlMemoryAssumption
<1>3. ASSUME w = b
      PROVE  FALSE
  <2>1. 0..(cap - 1) = {}
    BY <1>1, <1>3, NoCells
  <2>2. cap # 0 => 0 \in 0..(cap - 1)
    BY <1>1
  <2> QED
    BY <1>1, <1>2, <1>3, <2>1, <2>2
<1> QED
  BY <1>1, <1>2, <1>3

\* A new block is there.
LEMMA BuiltEmpty ==
    ASSUME NEW v, NEW b, NEW n, NEW cap, VectorAt(v, b, n, cap), NEW len \in Nat, len # 0
    PROVE  \E w \in Block :
              /\ allocate(v.m, len) = << w, 0 >>
              /\ Built(allocated(v.m, len), v, w, 0, len)
              /\ allocated(v.m, len).thrown = v.m.thrown
<1>1. PICK m, r : m = v.m /\ r = allocated(m, len)
  OBVIOUS
<1>2. IsMemory(m) /\ ~m.fault /\ \A a \in Block : a # b => m.cells[a] = no_cells
  BY <1>1 DEF VectorAt, Holds
<1>3. \E a \in Block : m.cells[a] = no_cells
  BY <1>2, StlMemoryAssumption
<1>4. PICK w \in Block :
              /\ m.cells[w] = no_cells /\ allocate(m, len) = << w, 0 >>
              /\ IsMemory(r) /\ ~r.fault /\ r.fuel = m.fuel /\ r.thrown = m.thrown
              /\ \A a \in {0} \cup Block : a # w => r.cells[a] = m.cells[a]
              /\ DOMAIN r.cells[w] = 0..(len - 1)
              /\ \A k \in 0..(len - 1) : r.cells[w][k] = RAW
  BY <1>1, <1>2, <1>3, AllocateIs
<1>5. Built(r, v, w, 0, len)
  <2>1. 0 \in Nat /\ 0 <= len /\ \A k \in 0..(0 - 1) : r.cells[w][k] \in Value
    OBVIOUS
  <2> QED
    BY <1>1, <1>4, <2>1 DEF Built
<1> QED
  BY <1>1, <1>4, <1>5

\* n more items are built, or something threw and nothing is changed.
MoreBuilt(m, r, v, w, q, len, n, items) ==
    /\ m.thrown => r = m
    /\ r.thrown => Built(r, v, w, q, len)
    /\ ~r.thrown => /\ Built(r, v, w, q + n, len)
                    /\ \A k \in 0..(q - 1) : r.cells[w][k] = m.cells[w][k]
                    /\ \A k \in 1..n : r.cells[w][q + (k - 1)] = read(v.m, items[k])

\* Items are put behind those there are.
LEMMA BuildMore ==
    ASSUME NEW m, NEW v, NEW w \in Block, NEW q \in Nat, NEW len \in Nat,
           Built(m, v, w, q, len), IsMemory(v.m),
           NEW n \in Nat, q + n <= len, NEW items, Readable(v.m, n, items),
           NEW r, r = uninitialized(m, n, items, << w, q >>)
    PROVE  MoreBuilt(m, r, v, w, q, len, n, items)
<1>1. /\ IsMemory(m) /\ ~m.fault /\ w \in Block /\ q \in Nat /\ len \in Nat /\ len # 0 /\ q <= len
      /\ v.m.cells[w] = no_cells
      /\ \A a \in {0} \cup Block : a # w => m.cells[a] = v.m.cells[a]
      /\ DOMAIN m.cells[w] = 0..(len - 1)
      /\ \A k \in 0..(q - 1) : m.cells[w][k] \in Value
      /\ \A k \in q..(len - 1) : m.cells[w][k] = RAW
  BY DEF Built
<1>2. ASSUME NEW k \in 1..n
      PROVE  items[k] \in Value \cup Pointer /\ read(m, items[k]) = read(v.m, items[k])
  <2>1. items[k] \in Value \cup Pointer /\ read(v.m, items[k]) \in Value
    BY DEF Readable
  <2>2. CASE items[k] \in Value
    BY <2>1, <2>2 DEF read
  <2>3. CASE items[k] \notin Value
    <3>1. PICK a \in {0} \cup Block, j \in Int : items[k] = << a, j >>
      BY <2>1, <2>3, PointerIs
    <3>2. read(v.m, items[k]) = content_of(v.m, << a, j >>) /\ read(m, items[k]) = content_of(m, << a, j >>)
      BY <2>3, <3>1 DEF read
    <3>3. a # w
      BY <1>1, <2>1, <3>2, NoCells, StlMemoryAssumption DEF content_of, in_block
    <3> QED
      BY <1>1, <2>1, <3>2, <3>3 DEF content_of, in_block
  <2> QED
    BY <2>2, <2>3
<1>3. Readable(m, n, items)
  BY <1>2 DEF Readable
<1>4. w \in {0} \cup Block /\ q \in Int /\ q..(q + n - 1) \subseteq DOMAIN m.cells[w]
      /\ \A k \in q..(q + n - 1) : m.cells[w][k] = RAW
  BY <1>1
<1>5. Constructed(m, r, w, q, n, items)
  BY <1>1, <1>3, <1>4, UninitializedIs
<1>6. /\ IsMemory(r) /\ ~r.fault /\ DOMAIN r.cells[w] = 0..(len - 1)
      /\ \A a \in {0} \cup Block : a # w => r.cells[a] = v.m.cells[a]
      /\ \A x \in 0..(len - 1) : x < q \/ q + n <= x => r.cells[w][x] = m.cells[w][x]
  <2>1. Within(m, r, w, q, q + n) /\ q \in Int /\ q + n \in Int
    BY <1>5 DEF Constructed
  <2>2. SameOutside(m, r, w, q, q + n, len)
    BY <1>1, <2>1, WithinBlock
  <2> QED
    BY <1>1, <2>2 DEF SameOutside
<1>7. ASSUME r.thrown
      PROVE  Built(r, v, w, q, len)
  <2>1. \A x \in 0..(len - 1) : r.cells[w][x] = m.cells[w][x]
    <3>1. \A x \in 0..(len - 1) : x < q \/ q <= x => r.cells[w][x] = m.cells[w][x]
      <4>1. Within(m, r, w, q, q) /\ q \in Int
        BY <1>5, <1>7 DEF Constructed
      <4>2. SameOutside(m, r, w, q, q, len)
        BY <1>1, <4>1, WithinBlock
      <4> QED
        BY <4>2 DEF SameOutside
    <3>2. \A x \in 0..(len - 1) : x < q \/ q <= x
      BY <1>1
    <3> QED
      BY <3>1, <3>2
  <2>2. ASSUME NEW k \in 0..(q - 1)
        PROVE  r.cells[w][k] \in Value
    <3>1. k \in 0..(len - 1)
      BY <1>1
    <3> QED
      BY <1>1, <2>1, <3>1
  <2>3. ASSUME NEW k \in q..(len - 1)
        PROVE  r.cells[w][k] = RAW
    <3>1. k \in 0..(len - 1)
      BY <1>1
    <3> QED
      BY <1>1, <2>1, <3>1
  <2> QED
    BY <1>1, <1>6, <2>2, <2>3 DEF Built
<1>8. ASSUME ~r.thrown
      PROVE  /\ Built(r, v, w, q + n, len)
             /\ \A k \in 0..(q - 1) : r.cells[w][k] = m.cells[w][k]
             /\ \A k \in 1..n : r.cells[w][q + (k - 1)] = read(v.m, items[k])
  <2>1. \A k \in 0..(q - 1) : r.cells[w][k] = m.cells[w][k] /\ r.cells[w][k] \in Value
    BY <1>1, <1>6
  <2>2. ASSUME NEW k \in 1..n
        PROVE  r.cells[w][q + (k - 1)] = read(v.m, items[k])
    <3>1. q + (k - 1) \in q..(q + n - 1) /\ (q + (k - 1)) - q + 1 = k
      BY <1>1
    <3> QED
      BY <1>2, <1>5, <1>8, <3>1 DEF Constructed
  <2>3. ASSUME NEW k \in 0..(q + n - 1)
        PROVE  r.cells[w][k] \in Value
    <3>1. CASE k < q
      <4>1. k \in 0..(q - 1)
        BY <3>1
      <4> QED
        BY <2>1, <4>1
    <3>2. CASE ~(k < q)
      <4>1. k - q + 1 \in 1..n /\ q + ((k - q + 1) - 1) = k
        BY <1>1, <3>2
      <4> QED
        BY <2>2, <4>1 DEF Readable
    <3> QED
      BY <3>1, <3>2
  <2>4. \A k \in (q + n)..(len - 1) : r.cells[w][k] = RAW
    BY <1>1, <1>6
  <2> QED
    <3>1. q + n \in Nat
      OBVIOUS
    <3>2. Built(r, v, w, q + n, len)
      BY <1>1, <1>6, <2>3, <2>4, <3>1 DEF Built
    <3> QED
      BY <2>1, <2>2, <3>2
<1> QED
  BY <1>5, <1>7, <1>8 DEF MoreBuilt, Constructed

\* The old block is as it was after a failed reallocation.
Back(u, v, b, n, cap) ==
    /\ VectorAt(u, b, n, cap) /\ u.m.thrown
    /\ \A k \in 0..(n - 1) : u.m.cells[b][k] = v.m.cells[b][k]

LEMMA AbandonIs ==
    ASSUME NEW v, NEW b, NEW n \in Nat, NEW cap \in Nat, VectorAt(v, b, n, cap),
           NEW m, NEW w \in Block, NEW q \in Nat, NEW len \in Nat, Built(m, v, w, q, len),
           m.thrown = TRUE,
           NEW u, u = abandon(v, m, << w, 0 >>, << w, q >>, len)
    PROVE  Back(u, v, b, n, cap)
<1>1. /\ IsMemory(m) /\ ~m.fault /\ q <= len /\ v.m.cells[w] = no_cells /\ len # 0
      /\ \A a \in {0} \cup Block : a # w => m.cells[a] = v.m.cells[a]
      /\ DOMAIN m.cells[w] = 0..(len - 1)
      /\ \A k \in 0..(q - 1) : m.cells[w][k] \in Value
      /\ \A k \in q..(len - 1) : m.cells[w][k] = RAW
  BY DEF Built
<1>2. w # b /\ b \in {0} \cup Block /\ w # 0
  BY <1>1, NewBlock
<1>3. PICK d : d = destroy(m, << w, 0 >>, << w, q >>)
  OBVIOUS
<1>4. Destroyed(m, d, w, 0, q)
  <2>1. w \in {0} \cup Block /\ 0 \in Int /\ q \in Int /\ 0 <= q /\ 0..(q - 1) \subseteq DOMAIN m.cells[w]
    BY <1>1
  <2> QED
    BY <1>1, <1>3, <2>1, DestroyIs
<1>5. /\ IsMemory(d) /\ ~d.fault /\ DOMAIN d.cells[w] = 0..(len - 1) /\ d.thrown = TRUE
      /\ \A a \in {0} \cup Block : a # w => d.cells[a] = m.cells[a]
      /\ \A k \in 0..(len - 1) : d.cells[w][k] = RAW
  <2>1. Within(m, d, w, 0, q) /\ d.thrown = m.thrown /\ \A k \in 0..(q - 1) : d.cells[w][k] = RAW
    BY <1>4 DEF Destroyed
  <2>2. /\ IsMemory(d) /\ ~d.fault /\ DOMAIN d.cells[w] = 0..(len - 1)
        /\ \A a \in {0} \cup Block : a # w => d.cells[a] = m.cells[a]
        /\ \A x \in 0..(len - 1) : x < 0 \/ q <= x => d.cells[w][x] = m.cells[w][x]
    <3>1. 0 \in Int /\ q \in Int
      OBVIOUS
    <3>2. SameOutside(m, d, w, 0, q, len)
      BY <1>1, <2>1, <3>1, WithinBlock
    <3> QED
      BY <3>2 DEF SameOutside
  <2>3. ASSUME NEW k \in 0..(len - 1)
        PROVE  d.cells[w][k] = RAW
    <3>1. CASE k < q
      BY <2>1, <3>1
    <3>2. CASE q <= k
      BY <1>1, <2>2, <3>2
    <3> QED
      BY <3>1, <3>2
  <2> QED
    BY <2>1, <2>2, <2>3
<1>6. PICK e : e = deallocate(d, << w, 0 >>, len)
  OBVIOUS
<1>7. /\ IsMemory(e) /\ ~e.fault /\ e.fuel = d.fuel /\ e.thrown = d.thrown
      /\ \A a \in {0} \cup Block : a # w => e.cells[a] = d.cells[a]
      /\ e.cells[w] = IF len = 0 THEN d.cells[w] ELSE no_cells
  <2>1. w \in {0} \cup Block
    OBVIOUS
  <2>2. Deallocated(d, e, w, len)
    BY <1>5, <1>6, <2>1, DeallocateIs
  <2> QED
    BY <2>2 DEF Deallocated
<1>8. DOMAIN v = {"m", "start", "finish", "end_of_storage"}
  BY DEF VectorAt
<1>9. /\ DOMAIN u = DOMAIN v /\ u.m = e
      /\ u.start = v.start /\ u.finish = v.finish /\ u.end_of_storage = v.end_of_storage
  BY <1>3, <1>6, <1>8 DEF abandon, with
<1>10. \A a \in {0} \cup Block : e.cells[a] = v.m.cells[a]
  BY <1>1, <1>5, <1>7
<1>11. Holds(v.m, b, n, cap)
  BY DEF VectorAt
<1>12. Holds(e, b, n, cap)
  BY <1>7, <1>10, <1>11 DEF Holds
<1>13. VectorAt(u, b, n, cap)
  BY <1>9, <1>12 DEF VectorAt
<1> QED
  BY <1>2, <1>5, <1>7, <1>9, <1>10, <1>13 DEF Back

\* The new block is the vector's.
Taken(u, m, w, q, len) ==
    /\ VectorAt(u, w, q, len) /\ ~u.m.thrown
    /\ \A k \in 0..(q - 1) : u.m.cells[w][k] = m.cells[w][k]

LEMMA ReplaceIs ==
    ASSUME NEW v, NEW b, NEW n \in Nat, NEW cap \in Nat, VectorAt(v, b, n, cap),
           NEW m, NEW w \in Block, NEW q \in Nat, NEW len \in Nat, Built(m, v, w, q, len),
           m.thrown = FALSE,
           NEW u, u = replace(v, m, << w, 0 >>, q, len)
    PROVE  Taken(u, m, w, q, len)
<1>1. /\ IsMemory(m) /\ ~m.fault /\ q <= len /\ v.m.cells[w] = no_cells /\ len # 0
      /\ \A a \in {0} \cup Block : a # w => m.cells[a] = v.m.cells[a]
      /\ DOMAIN m.cells[w] = 0..(len - 1)
      /\ \A k \in 0..(q - 1) : m.cells[w][k] \in Value
      /\ \A k \in q..(len - 1) : m.cells[w][k] = RAW
  BY DEF Built
<1>2. w # b /\ b \in {0} \cup Block /\ w # 0
  BY <1>1, NewBlock
<1>3. /\ v.start = << b, 0 >> /\ v.finish = << b, n >> /\ v.end_of_storage = << b, cap >>
      /\ Holds(v.m, b, n, cap)
  BY DEF VectorAt
<1>4. /\ n <= cap /\ DOMAIN m.cells[b] = 0..(cap - 1) /\ (cap = 0 <=> b = 0)
      /\ \A k \in 0..(n - 1) : m.cells[b][k] \in Value
      /\ \A k \in n..(cap - 1) : m.cells[b][k] = RAW
      /\ DOMAIN m.cells[0] = {}
      /\ \A a \in Block : a # b /\ a # w => m.cells[a] = no_cells
  BY <1>1, <1>2, <1>3 DEF Holds
<1>5. PICK d : d = destroy(m, << b, 0 >>, << b, n >>)
  OBVIOUS
<1>6. Destroyed(m, d, b, 0, n)
  <2>1. 0 \in Int /\ n \in Int /\ 0 <= n /\ 0..(n - 1) \subseteq DOMAIN m.cells[b]
    BY <1>4
  <2> QED
    BY <1>1, <1>2, <1>4, <1>5, <2>1, DestroyIs
<1>7. /\ IsMemory(d) /\ ~d.fault /\ DOMAIN d.cells[b] = 0..(cap - 1) /\ d.thrown = FALSE
      /\ \A a \in {0} \cup Block : a # b => d.cells[a] = m.cells[a]
      /\ \A k \in 0..(cap - 1) : d.cells[b][k] = RAW
  <2>1. Within(m, d, b, 0, n) /\ d.thrown = m.thrown /\ \A k \in 0..(n - 1) : d.cells[b][k] = RAW
    BY <1>6 DEF Destroyed
  <2>2. /\ IsMemory(d) /\ ~d.fault /\ DOMAIN d.cells[b] = 0..(cap - 1)
        /\ \A a \in {0} \cup Block : a # b => d.cells[a] = m.cells[a]
        /\ \A x \in 0..(cap - 1) : x < 0 \/ n <= x => d.cells[b][x] = m.cells[b][x]
    <3>1. 0 \in Int /\ n \in Int
      OBVIOUS
    <3>2. SameOutside(m, d, b, 0, n, cap)
      BY <1>4, <2>1, <3>1, WithinBlock
    <3> QED
      BY <3>2 DEF SameOutside
  <2>3. ASSUME NEW k \in 0..(cap - 1)
        PROVE  d.cells[b][k] = RAW
    <3>1. CASE k < n
      BY <2>1, <3>1
    <3>2. CASE n <= k
      BY <1>4, <2>2, <3>2
    <3> QED
      BY <3>1, <3>2
  <2> QED
    BY <2>1, <2>2, <2>3
<1>8. PICK e : e = deallocate(d, << b, 0 >>, cap)
  OBVIOUS
<1>9. /\ IsMemory(e) /\ ~e.fault /\ e.fuel = d.fuel /\ e.thrown = d.thrown
      /\ \A a \in {0} \cup Block : a # b => e.cells[a] = d.cells[a]
      /\ e.cells[b] = IF cap = 0 THEN d.cells[b] ELSE no_cells
  <2>1. Deallocated(d, e, b, cap)
    BY <1>2, <1>7, <1>8, DeallocateIs
  <2> QED
    BY <2>1 DEF Deallocated
<1>10. minus(<< b, cap >>, << b, 0 >>) = cap
  BY DEF minus
<1>11. /\ DOMAIN u = {"m", "start", "finish", "end_of_storage"} /\ u.m = e
       /\ u.start = << w, 0 >> /\ u.finish = << w, q >> /\ u.end_of_storage = << w, len >>
  BY <1>3, <1>5, <1>8, <1>10 DEF replace, plus
<1>12. e.cells[w] = m.cells[w]
  BY <1>2, <1>7, <1>9
<1>13. DOMAIN e.cells[0] = {} /\ \A a \in Block : a # w => e.cells[a] = no_cells
  <2>1. CASE b = 0
    <3>1. DOMAIN e.cells[0] = {}
      BY <1>2, <1>4, <1>7, <1>9, <2>1
    <3>2. \A a \in Block : a # b
      BY <2>1, StlMemoryAssumption
    <3> QED
      BY <1>4, <1>7, <1>9, <3>1, <3>2
  <2>2. CASE b # 0
    BY <1>4, <1>7, <1>9, <2>2
  <2> QED
    BY <2>1, <2>2
<1>14. Holds(e, w, q, len)
  BY <1>1, <1>2, <1>9, <1>12, <1>13 DEF Holds
<1> QED
  BY <1>7, <1>9, <1>11, <1>12, <1>14 DEF Taken, VectorAt

\* Items that refer to the elements of block b from f to l - 1
Own(m, b, f, l, items) ==
    /\ Readable(m, l - f, items)
    /\ \A k \in 1..(l - f) : read(m, items[k]) = m.cells[b][f + (k - 1)]

\* The elements from f to l - 1 of a vector, as items
LEMMA OwnItems ==
    ASSUME NEW v, NEW b, NEW n \in Nat, NEW cap \in Nat, VectorAt(v, b, n, cap),
           NEW f \in Nat, NEW l \in Nat, f <= l, l <= n,
           NEW items, items = from(<< b, f >>, l - f)
    PROVE  Own(v.m, b, f, l, items)
<1>1. /\ b \in {0} \cup Block /\ n <= cap /\ DOMAIN v.m.cells[b] = 0..(cap - 1)
      /\ \A k \in 0..(n - 1) : v.m.cells[b][k] \in Value
  BY DEF VectorAt, Holds
<1>2. ASSUME NEW k \in 1..(l - f)
      PROVE  /\ items[k] \in Value \cup Pointer /\ read(v.m, items[k]) \in Value
             /\ read(v.m, items[k]) = v.m.cells[b][f + (k - 1)]
  <2>1. items[k] = << b, f + (k - 1) >>
    BY DEF from, plus
  <2>2. f + (k - 1) \in 0..(n - 1) /\ f + (k - 1) \in 0..(cap - 1)
    BY <1>1
  <2>3. read(v.m, << b, f + (k - 1) >>) = v.m.cells[b][f + (k - 1)]
    <3>1. PICK x \in Int : x = f + (k - 1)
      OBVIOUS
    <3>2. x \in DOMAIN v.m.cells[b]
      BY <1>1, <2>2, <3>1
    <3> QED
      BY <1>1, <3>1, <3>2, ReadIs
  <2>4. << b, f + (k - 1) >> \in Pointer
    BY <1>1 DEF Pointer
  <2> QED
    BY <1>1, <2>1, <2>2, <2>3, <2>4
<1> QED
  BY <1>2 DEF Own, Readable

\* Block w of r has the first i elements of block b of m, the p items, and the elements
\* of b from j on.
Spliced(r, w, m, b, n, i, j, p, items) ==
    /\ \A k \in 0..(i - 1) : r.cells[w][k] = m.cells[b][k]
    /\ \A k \in 1..p : r.cells[w][i + (k - 1)] = read(m, items[k])
    /\ \A k \in j..(n - 1) : r.cells[w][i + p + (k - j)] = m.cells[b][k]

Moved(u, v, b, n, i, j, p, items) ==
    /\ ~u.m.thrown
    /\ \E w \in {0} \cup Block, len \in Nat :
          VectorAt(u, w, i + p + (n - j), len) /\ Spliced(u.m, w, v.m, b, n, i, j, p, items)

LEMMA MovedIs ==
    ASSUME NEW u, NEW v, NEW b, NEW n, NEW i, NEW j, NEW p, NEW items, u.m.thrown = FALSE,
           NEW w \in {0} \cup Block, NEW len \in Nat, VectorAt(u, w, i + p + (n - j), len),
           Spliced(u.m, w, v.m, b, n, i, j, p, items)
    PROVE  Moved(u, v, b, n, i, j, p, items)
  BY DEF Moved

LEMMA ThrownIs ==
    ASSUME NEW m, IsMemory(m)
    PROVE  m.thrown \in BOOLEAN
  BY DEF IsMemory

\* The reallocating insertions
LEMMA ReallocateIs ==
    ASSUME NEW v, NEW b, NEW n \in Nat, NEW cap \in Nat, VectorAt(v, b, n, cap), v.m.thrown = FALSE,
           NEW i \in Nat, i <= n, NEW items, NEW p \in Nat, p # 0, p = Len(items),
           Readable(v.m, p, items), size = n,
           NEW u, u = reallocate(v, << b, i >>, items)
    PROVE  Moved(u, v, b, n, i, i, p, items) \/ Back(u, v, b, n, cap)
<1>1. PICK len \in Nat : len = grown(p) /\ len # 0 /\ n + p <= len
  BY DEF grown, max
<1>2. /\ v.start = << b, 0 >> /\ v.finish = << b, n >> /\ IsMemory(v.m) /\ b \in {0} \cup Block
  BY DEF VectorAt, Holds
<1>3. PICK w \in Block :
              /\ allocate(v.m, len) = << w, 0 >>
              /\ Built(allocated(v.m, len), v, w, 0, len)
              /\ allocated(v.m, len).thrown = v.m.thrown
  BY <1>1, BuiltEmpty
<1>4. PICK m0 : m0 = allocated(v.m, len)
  OBVIOUS
<1>5. PICK items1 : items1 = from(<< b, 0 >>, i)
  OBVIOUS
<1>6. PICK items3 : items3 = from(<< b, i >>, n - i)
  OBVIOUS
<1>7. PICK m1 : m1 = uninitialized(m0, i, items1, << w, 0 >>)
  OBVIOUS
<1>8. PICK m2 : m2 = uninitialized(m1, p, items, << w, i >>)
  OBVIOUS
<1>9. PICK m3 : m3 = uninitialized(m2, n - i, items3, << w, i + p >>)
  OBVIOUS
<1>10. u = IF m3.thrown
           THEN abandon(v, m3, << w, 0 >>, IF m1.thrown THEN << w, 0 >>
                                           ELSE IF m2.thrown THEN << w, i >> ELSE << w, i + p >>, len)
           ELSE replace(v, m3, << w, 0 >>, n + p, len)
  <2>1. minus(<< b, i >>, << b, 0 >>) = i /\ minus(<< b, n >>, << b, i >>) = n - i
        /\ minus(<< b, n >>, << b, 0 >>) = n
    BY DEF minus
  <2>2. plus(<< w, 0 >>, i) = << w, i >> /\ plus(<< w, 0 >>, i + p) = << w, i + p >>
    BY DEF plus
  <2>3. uninitialized_copy(m0, << b, 0 >>, << b, i >>, << w, 0 >>) = m1
    BY <1>5, <1>7, <2>1 DEF uninitialized_copy
  <2>4. uninitialized_items(m1, items, << w, i >>) = m2
    BY <1>8 DEF uninitialized_items
  <2>5. uninitialized_copy(m2, << b, i >>, << b, n >>, << w, i + p >>) = m3
    BY <1>6, <1>9, <2>1 DEF uninitialized_copy
  <2>6. grown(Len(items)) = len
    BY <1>1
  <2> QED
    BY <1>2, <1>3, <1>4, <2>1, <2>2, <2>3, <2>4, <2>5, <2>6 DEF reallocate
<1>11. /\ Readable(v.m, i, items1) /\ Readable(v.m, n - i, items3)
       /\ \A k \in 1..i : read(v.m, items1[k]) = v.m.cells[b][k - 1]
       /\ \A k \in 1..(n - i) : read(v.m, items3[k]) = v.m.cells[b][i + (k - 1)]
  <2>1. 0 \in Nat /\ 0 <= i /\ i - 0 = i /\ items1 = from(<< b, 0 >>, i - 0)
    BY <1>5
  <2>2. Own(v.m, b, 0, i, items1)
    BY <2>1, OwnItems
  <2>3. Own(v.m, b, i, n, items3)
    BY <1>6, n <= n, OwnItems
  <2>4. \A k \in 1..i : 0 + (k - 1) = k - 1
    OBVIOUS
  <2> QED
    BY <2>1, <2>2, <2>3, <2>4 DEF Own
<1>12. MoreBuilt(m0, m1, v, w, 0, len, i, items1)
  <2>1. 0 \in Nat /\ 0 + i <= len /\ Built(m0, v, w, 0, len)
    BY <1>1, <1>3, <1>4
  <2> QED
    BY <1>2, <1>7, <1>11, <2>1, BuildMore
<1>13. m0.thrown = FALSE
  BY <1>3, <1>4
<1>14. ASSUME NEW q \in Nat, Built(m3, v, w, q, len), m3.thrown = TRUE,
              u = abandon(v, m3, << w, 0 >>, << w, q >>, len)
       PROVE  Back(u, v, b, n, cap)
  BY <1>14, AbandonIs
<1>15. CASE m1.thrown = TRUE
  <2>1. Built(m1, v, w, 0, len) /\ Stuck(m1)
    BY <1>12, <1>15 DEF MoreBuilt, Built, Stuck
  <2>2. m2 = m1
    BY <1>8, <2>1, ThrownConstructsNothing
  <2>3. m3 = m1
    <3>1. n - i \in Nat
      OBVIOUS
    <3> QED
      BY <1>9, <2>1, <2>2, <3>1, ThrownConstructsNothing
  <2> QED
    BY <1>10, <1>14, <1>15, <2>1, <2>3, 0 \in Nat
<1>16. CASE m1.thrown = FALSE
  <2>1. /\ Built(m1, v, w, i, len) /\ 0 + i = i
        /\ \A k \in 1..i : m1.cells[w][k - 1] = v.m.cells[b][k - 1]
    <3>1. /\ Built(m1, v, w, 0 + i, len)
          /\ \A k \in 1..i : m1.cells[w][0 + (k - 1)] = read(v.m, items1[k])
      BY <1>12, <1>16 DEF MoreBuilt
    <3>2. 0 + i = i
      OBVIOUS
    <3>3. ASSUME NEW k \in 1..i
          PROVE  m1.cells[w][k - 1] = v.m.cells[b][k - 1]
      <4>1. 0 + (k - 1) = k - 1
        OBVIOUS
      <4> QED
        BY <1>11, <3>1, <4>1
    <3> QED
      BY <3>1, <3>2, <3>3
  <2>2. MoreBuilt(m1, m2, v, w, i, len, p, items)
    <3>1. i + p <= len
      BY <1>1
    <3> QED
      BY <1>2, <1>8, <2>1, <3>1, BuildMore
  <2>3. CASE m2.thrown = TRUE
    <3>1. Built(m2, v, w, i, len) /\ Stuck(m2)
      BY <2>2, <2>3 DEF MoreBuilt, Built, Stuck
    <3>2. m3 = m2
      <4>1. n - i \in Nat
        OBVIOUS
      <4> QED
        BY <1>9, <3>1, <4>1, ThrownConstructsNothing
    <3> QED
      BY <1>10, <1>14, <1>16, <2>3, <3>1, <3>2
  <2>4. CASE m2.thrown = FALSE
    <3>1. /\ Built(m2, v, w, i + p, len)
          /\ \A k \in 0..(i - 1) : m2.cells[w][k] = m1.cells[w][k]
          /\ \A k \in 1..p : m2.cells[w][i + (k - 1)] = read(v.m, items[k])
      BY <2>2, <2>4 DEF MoreBuilt
    <3>2. MoreBuilt(m2, m3, v, w, i + p, len, n - i, items3)
      <4>1. PICK q \in Nat, l \in Nat : q = i + p /\ l = n - i
        OBVIOUS
      <4>2. q + l <= len /\ Built(m2, v, w, q, len)
        BY <1>1, <3>1, <4>1
      <4>3. m3 = uninitialized(m2, l, items3, << w, q >>) /\ Readable(v.m, l, items3)
        BY <1>9, <1>11, <4>1
      <4>4. MoreBuilt(m2, m3, v, w, q, len, l, items3)
        BY <1>2, <4>2, <4>3, BuildMore
      <4> QED
        BY <4>1, <4>4
    <3>3. CASE m3.thrown = TRUE
      <4>1. Built(m3, v, w, i + p, len) /\ i + p \in Nat
        BY <3>2, <3>3 DEF MoreBuilt
      <4> QED
        BY <1>10, <1>14, <1>16, <2>4, <3>3, <4>1
    <3>4. CASE m3.thrown = FALSE
      <4>1. /\ Built(m3, v, w, i + p + (n - i), len)
            /\ \A k \in 0..(i + p - 1) : m3.cells[w][k] = m2.cells[w][k]
            /\ \A k \in 1..(n - i) : m3.cells[w][i + p + (k - 1)] = read(v.m, items3[k])
        BY <3>2, <3>4 DEF MoreBuilt
      <4>2. PICK q \in Nat : q = n + p /\ q = i + p + (n - i)
        OBVIOUS
      <4>3. u = replace(v, m3, << w, 0 >>, q, len) /\ Built(m3, v, w, q, len)
        BY <1>10, <3>4, <4>1, <4>2
      <4>4. Taken(u, m3, w, q, len)
        BY <3>4, <4>3, ReplaceIs
      <4>5. ASSUME NEW k \in 0..(i - 1)
            PROVE  u.m.cells[w][k] = v.m.cells[b][k]
        <5>1. k \in 0..(q - 1) /\ k \in 0..(i + p - 1) /\ k + 1 \in 1..i /\ (k + 1) - 1 = k
          BY <4>2
        <5> QED
          BY <2>1, <3>1, <4>1, <4>4, <5>1 DEF Taken
      <4>6. ASSUME NEW k \in 1..p
            PROVE  u.m.cells[w][i + (k - 1)] = read(v.m, items[k])
        <5>1. i + (k - 1) \in 0..(q - 1) /\ i + (k - 1) \in 0..(i + p - 1)
          BY <4>2
        <5> QED
          BY <3>1, <4>1, <4>4, <5>1 DEF Taken
      <4>7. ASSUME NEW k \in i..(n - 1)
            PROVE  u.m.cells[w][i + p + (k - i)] = v.m.cells[b][k]
        <5>1. PICK l \in 1..(n - i) : l = k - i + 1
          OBVIOUS
        <5>2. i + p + (l - 1) = i + p + (k - i) /\ i + (l - 1) = k /\ i + p + (l - 1) \in 0..(q - 1)
          BY <4>2, <5>1
        <5>3. u.m.cells[w][i + p + (l - 1)] = v.m.cells[b][i + (l - 1)]
          BY <1>11, <4>1, <4>4, <5>2 DEF Taken
        <5> QED
          BY <5>2, <5>3
      <4>8. Spliced(u.m, w, v.m, b, n, i, i, p, items)
        BY <4>5, <4>6, <4>7 DEF Spliced
      <4>9. VectorAt(u, w, i + p + (n - i), len) /\ ~u.m.thrown
        BY <4>2, <4>4 DEF Taken
      <4> QED
        BY <4>8, <4>9 DEF Moved
    <3>5. m3.thrown \in BOOLEAN
      BY <3>2 DEF MoreBuilt, Built, IsMemory
    <3> QED
      BY <3>3, <3>4, <3>5
  <2>5. m2.thrown \in BOOLEAN
    BY <2>2 DEF MoreBuilt, Built, IsMemory
  <2> QED
    BY <2>3, <2>4, <2>5
<1>17. m1.thrown \in BOOLEAN
  BY <1>12 DEF MoreBuilt, Built, IsMemory
<1> QED
  BY <1>15, <1>16, <1>17

\* A memory that differs from m in block b only, with n2 elements there now
LEMMA HoldsAfter ==
    ASSUME NEW m, NEW b, NEW n, NEW cap, Holds(m, b, n, cap),
           NEW r, IsMemory(r), ~r.fault, DOMAIN r.cells[b] = DOMAIN m.cells[b],
           \A a \in {0} \cup Block : a # b => r.cells[a] = m.cells[a],
           NEW n2 \in Nat, n2 <= cap,
           \A k \in 0..(n2 - 1) : r.cells[b][k] \in Value,
           \A k \in n2..(cap - 1) : r.cells[b][k] = RAW
    PROVE  Holds(r, b, n2, cap)
<1>1. b \in {0} \cup Block /\ DOMAIN r.cells[0] = {}
  BY DEF Holds
<1>2. \A a \in Block : a # b => r.cells[a] = no_cells
  BY DEF Holds
<1> QED
  BY <1>1, <1>2 DEF Holds

\* The elements from lo on are those that were shift cells further, or something threw.
Shifted(m, r, b, n, cap, lo, hi, shift) ==
    /\ Holds(r, b, n, cap)
    /\ m.thrown => r.thrown
    /\ ~r.thrown => \A k \in 0..(n - 1) :
                       r.cells[b][k] = IF lo <= k /\ k < hi THEN m.cells[b][k + shift] ELSE m.cells[b][k]

LEMMA ShiftedIs ==
    ASSUME NEW m, NEW b, NEW n \in Nat, NEW cap \in Nat, Holds(m, b, n, cap), NEW r,
           NEW lo \in Nat, NEW hi \in Nat, lo <= hi, hi <= n, NEW shift, Copied(m, r, b, lo, hi, shift)
    PROVE  Shifted(m, r, b, n, cap, lo, hi, shift)
<1>1. /\ b \in {0} \cup Block /\ n <= cap /\ DOMAIN m.cells[b] = 0..(cap - 1)
      /\ \A k \in 0..(n - 1) : m.cells[b][k] \in Value
      /\ \A k \in n..(cap - 1) : m.cells[b][k] = RAW
  BY DEF Holds
<1>2. Within(m, r, b, lo, hi) /\ \A k \in lo..(hi - 1) : r.cells[b][k] \in Value
  BY DEF Copied
<1>3. /\ IsMemory(r) /\ ~r.fault /\ DOMAIN r.cells[b] = 0..(cap - 1)
      /\ \A a \in {0} \cup Block : a # b => r.cells[a] = m.cells[a]
      /\ \A x \in 0..(cap - 1) : x < lo \/ hi <= x => r.cells[b][x] = m.cells[b][x]
  <2>1. lo \in Int /\ hi \in Int
    OBVIOUS
  <2>2. SameOutside(m, r, b, lo, hi, cap)
    BY <1>1, <1>2, <2>1, WithinBlock
  <2> QED
    BY <2>2 DEF SameOutside
<1>4. \A k \in 0..(n - 1) : r.cells[b][k] \in Value
  <2> SUFFICES ASSUME NEW k \in 0..(n - 1)
               PROVE  r.cells[b][k] \in Value
    OBVIOUS
  <2>1. CASE k < lo \/ hi <= k
    BY <1>1, <1>3, <2>1
  <2>2. CASE ~(k < lo \/ hi <= k)
    BY <1>2, <2>2
  <2> QED
    BY <2>1, <2>2
<1>5. \A k \in n..(cap - 1) : r.cells[b][k] = RAW
  BY <1>1, <1>3
<1>6. Holds(r, b, n, cap)
  BY <1>1, <1>3, <1>4, <1>5, HoldsAfter
<1>7. ASSUME ~r.thrown, NEW k \in 0..(n - 1)
      PROVE  r.cells[b][k] = IF lo <= k /\ k < hi THEN m.cells[b][k + shift] ELSE m.cells[b][k]
  <2>1. CASE k < lo \/ hi <= k
    BY <1>1, <1>3, <2>1
  <2>2. CASE ~(k < lo \/ hi <= k)
    <3>1. k \in lo..(hi - 1) /\ lo <= k /\ k < hi
      BY <2>2
    <3> QED
      BY <1>7, <3>1 DEF Copied
  <2> QED
    BY <2>1, <2>2
<1>8. m.thrown => r.thrown
  BY DEF Copied
<1> QED
  BY <1>6, <1>7, <1>8 DEF Shifted

LEMMA HoldsCopy ==
    ASSUME NEW m, NEW b, NEW n \in Nat, NEW cap \in Nat, Holds(m, b, n, cap),
           NEW f \in Nat, NEW l \in Nat, NEW t \in Nat, t <= f, f <= l, l <= n,
           NEW r, r = copy(m, << b, f >>, << b, l >>, << b, t >>)
    PROVE  Shifted(m, r, b, n, cap, t, t + (l - f), f - t)
<1>1. /\ b \in {0} \cup Block /\ n <= cap /\ DOMAIN m.cells[b] = 0..(cap - 1) /\ IsMemory(m) /\ ~m.fault
      /\ \A k \in 0..(n - 1) : m.cells[b][k] \in Value
  BY DEF Holds
<1>2. /\ t..(l - 1) \subseteq DOMAIN m.cells[b] /\ \A k \in t..(l - 1) : m.cells[b][k] \in Value
      /\ t \in Int /\ f \in Int /\ l \in Int
  BY <1>1
<1>3. Copied(m, r, b, t, t + (l - f), f - t)
  BY <1>1, <1>2, CopyIs
<1>4. PICK hi \in Nat : hi = t + (l - f) /\ t <= hi /\ hi <= n
  OBVIOUS
<1> QED
  BY <1>3, <1>4, ShiftedIs

LEMMA HoldsCopyBackward ==
    ASSUME NEW m, NEW b, NEW n \in Nat, NEW cap \in Nat, Holds(m, b, n, cap),
           NEW f \in Nat, NEW l \in Nat, NEW t \in Nat, l <= t, f <= l, t <= n,
           NEW r, r = copy_backward(m, << b, f >>, << b, l >>, << b, t >>)
    PROVE  Shifted(m, r, b, n, cap, t - (l - f), t, l - t)
<1>1. /\ b \in {0} \cup Block /\ n <= cap /\ DOMAIN m.cells[b] = 0..(cap - 1) /\ IsMemory(m) /\ ~m.fault
      /\ \A k \in 0..(n - 1) : m.cells[b][k] \in Value
  BY DEF Holds
<1>2. /\ f..(t - 1) \subseteq DOMAIN m.cells[b] /\ \A k \in f..(t - 1) : m.cells[b][k] \in Value
      /\ t \in Int /\ f \in Int /\ l \in Int
  BY <1>1
<1>3. Copied(m, r, b, t - (l - f), t, l - t)
  BY <1>1, <1>2, CopyBackwardIs
<1>4. PICK lo \in Nat : lo = t - (l - f) /\ lo <= t
  OBVIOUS
<1> QED
  BY <1>3, <1>4, ShiftedIs

\* The p elements from t on are the items, or something threw.
Filled(m, r, b, n, cap, t, p, items) ==
    /\ Holds(r, b, n, cap)
    /\ m.thrown => r.thrown
    /\ ~r.thrown => \A k \in 0..(n - 1) :
                       r.cells[b][k] = IF t <= k /\ k < t + p THEN read(m, items[k - t + 1]) ELSE m.cells[b][k]

LEMMA HoldsItems ==
    ASSUME NEW m, NEW b, NEW n \in Nat, NEW cap \in Nat, Holds(m, b, n, cap),
           NEW items, NEW p \in Nat, p = Len(items), Readable(m, p, items),
           \A j, k \in 1..p : items[k] \in Value \/ items[j] = items[k],
           NEW t \in Nat, t + p <= n,
           NEW r, r = copy_items(m, items, << b, t >>)
    PROVE  Filled(m, r, b, n, cap, t, p, items)
<1>1. /\ b \in {0} \cup Block /\ n <= cap /\ DOMAIN m.cells[b] = 0..(cap - 1) /\ IsMemory(m) /\ ~m.fault
      /\ \A k \in 0..(n - 1) : m.cells[b][k] \in Value
      /\ \A k \in n..(cap - 1) : m.cells[b][k] = RAW
  BY DEF Holds
<1>2. /\ t..(t + p - 1) \subseteq DOMAIN m.cells[b] /\ \A k \in t..(t + p - 1) : m.cells[b][k] \in Value
      /\ t \in Int
  BY <1>1
<1>3. Assigned(m, r, b, t, p, items)
  BY <1>1, <1>2, CopyItemsIs
<1>4. Within(m, r, b, t, t + p) /\ \A k \in t..(t + p - 1) : r.cells[b][k] \in Value
  BY <1>3 DEF Assigned
<1>5. /\ IsMemory(r) /\ ~r.fault /\ DOMAIN r.cells[b] = 0..(cap - 1)
      /\ \A a \in {0} \cup Block : a # b => r.cells[a] = m.cells[a]
      /\ \A x \in 0..(cap - 1) : x < t \/ t + p <= x => r.cells[b][x] = m.cells[b][x]
  <2>1. t \in Int /\ t + p \in Int
    OBVIOUS
  <2>2. SameOutside(m, r, b, t, t + p, cap)
    BY <1>1, <1>4, <2>1, WithinBlock
  <2> QED
    BY <2>2 DEF SameOutside
<1>6. \A k \in 0..(n - 1) : r.cells[b][k] \in Value
  <2> SUFFICES ASSUME NEW k \in 0..(n - 1)
               PROVE  r.cells[b][k] \in Value
    OBVIOUS
  <2>1. CASE k < t \/ t + p <= k
    <3>1. k \in 0..(cap - 1) /\ r.cells[b][k] = m.cells[b][k]
      BY <1>1, <1>5, <2>1
    <3> QED
      BY <1>1, <3>1
  <2>2. CASE ~(k < t \/ t + p <= k)
    <3>1. k \in t..(t + p - 1)
      BY <2>2
    <3> QED
      BY <1>4, <3>1
  <2> QED
    BY <2>1, <2>2
<1>7. \A k \in n..(cap - 1) : r.cells[b][k] = RAW
  <2> SUFFICES ASSUME NEW k \in n..(cap - 1)
               PROVE  r.cells[b][k] = RAW
    OBVIOUS
  <2>1. k \in 0..(cap - 1) /\ t + p <= k
    BY <1>1
  <2>2. r.cells[b][k] = m.cells[b][k]
    BY <1>5, <2>1
  <2> QED
    BY <1>1, <2>2
<1>8. Holds(r, b, n, cap)
  BY <1>1, <1>5, <1>6, <1>7, HoldsAfter
<1>9. ASSUME ~r.thrown, NEW k \in 0..(n - 1)
      PROVE  r.cells[b][k] = IF t <= k /\ k < t + p THEN read(m, items[k - t + 1]) ELSE m.cells[b][k]
  <2>1. CASE k < t \/ t + p <= k
    BY <1>1, <1>5, <2>1
  <2>2. CASE ~(k < t \/ t + p <= k)
    <3>1. k \in t..(t + p - 1) /\ t <= k /\ k < t + p
      BY <2>2
    <3> QED
      BY <1>3, <1>9, <3>1 DEF Assigned
  <2> QED
    BY <2>1, <2>2
<1>10. m.thrown => r.thrown
  BY <1>3 DEF Assigned
<1> QED
  BY <1>8, <1>9, <1>10 DEF Filled

\* p items more, or something threw and the elements are as they were
Grown(m, r, b, n, cap, p, items) ==
    /\ m.thrown => r = m
    /\ r.thrown => Holds(r, b, n, cap)
    /\ \A k \in 0..(n - 1) : r.cells[b][k] = m.cells[b][k]
    /\ ~r.thrown => /\ Holds(r, b, n + p, cap)
                    /\ \A k \in 1..p : r.cells[b][n + (k - 1)] = read(m, items[k])

LEMMA HoldsUninitialized ==
    ASSUME NEW m, NEW b, NEW n \in Nat, NEW cap \in Nat, Holds(m, b, n, cap),
           NEW items, NEW p \in Nat, Readable(m, p, items), n + p <= cap,
           NEW r, r = uninitialized(m, p, items, << b, n >>)
    PROVE  Grown(m, r, b, n, cap, p, items)
<1>1. /\ b \in {0} \cup Block /\ n <= cap /\ DOMAIN m.cells[b] = 0..(cap - 1) /\ IsMemory(m) /\ ~m.fault
      /\ \A k \in 0..(n - 1) : m.cells[b][k] \in Value
      /\ \A k \in n..(cap - 1) : m.cells[b][k] = RAW
  BY DEF Holds
<1>2. /\ n..(n + p - 1) \subseteq DOMAIN m.cells[b] /\ \A k \in n..(n + p - 1) : m.cells[b][k] = RAW
      /\ n \in Int
  BY <1>1
<1>3. Constructed(m, r, b, n, p, items)
  BY <1>1, <1>2, UninitializedIs
<1>4. /\ IsMemory(r) /\ ~r.fault /\ DOMAIN r.cells[b] = 0..(cap - 1)
      /\ \A a \in {0} \cup Block : a # b => r.cells[a] = m.cells[a]
      /\ \A x \in 0..(cap - 1) : x < n \/ n + p <= x => r.cells[b][x] = m.cells[b][x]
  <2>1. Within(m, r, b, n, n + p) /\ n + p \in Int
    BY <1>3 DEF Constructed
  <2>2. SameOutside(m, r, b, n, n + p, cap)
    BY <1>1, <1>2, <2>1, WithinBlock
  <2> QED
    BY <2>2 DEF SameOutside
<1>5. \A k \in 0..(n - 1) : r.cells[b][k] = m.cells[b][k] /\ r.cells[b][k] \in Value
  <2> SUFFICES ASSUME NEW k \in 0..(n - 1)
               PROVE  r.cells[b][k] = m.cells[b][k] /\ r.cells[b][k] \in Value
    OBVIOUS
  <2>1. k \in 0..(cap - 1) /\ k < n
    BY <1>1
  <2> QED
    BY <1>1, <1>4, <2>1
<1>6. ASSUME r.thrown
      PROVE  Holds(r, b, n, cap)
  <2>1. Within(m, r, b, n, n)
    BY <1>3, <1>6 DEF Constructed
  <2>2. \A x \in 0..(cap - 1) : x < n \/ n <= x => r.cells[b][x] = m.cells[b][x]
    <3>1. SameOutside(m, r, b, n, n, cap)
      BY <1>1, <1>2, <2>1, WithinBlock
    <3> QED
      BY <3>1 DEF SameOutside
  <2>3. \A k \in n..(cap - 1) : r.cells[b][k] = RAW
    BY <1>1, <2>2
  <2> QED
    BY <1>1, <1>4, <1>5, <2>3, HoldsAfter
<1>7. ASSUME ~r.thrown
      PROVE  /\ Holds(r, b, n + p, cap)
             /\ \A k \in 1..p : r.cells[b][n + (k - 1)] = read(m, items[k])
  <2>1. ASSUME NEW k \in 1..p
        PROVE  r.cells[b][n + (k - 1)] = read(m, items[k])
    <3>1. n + (k - 1) \in n..(n + p - 1) /\ (n + (k - 1)) - n + 1 = k
      OBVIOUS
    <3> QED
      BY <1>3, <1>7, <3>1 DEF Constructed
  <2>2. ASSUME NEW k \in 0..(n + p - 1)
        PROVE  r.cells[b][k] \in Value
    <3>1. CASE k < n
      <4>1. k \in 0..(n - 1)
        BY <3>1
      <4> QED
        BY <1>5, <4>1
    <3>2. CASE ~(k < n)
      <4>1. k - n + 1 \in 1..p /\ n + ((k - n + 1) - 1) = k
        BY <3>2
      <4> QED
        BY <2>1, <4>1 DEF Readable
    <3> QED
      BY <3>1, <3>2
  <2>3. \A k \in (n + p)..(cap - 1) : r.cells[b][k] = RAW
    BY <1>1, <1>4
  <2>4. PICK q \in Nat : q = n + p
    OBVIOUS
  <2>5. (\A k \in 0..(q - 1) : r.cells[b][k] \in Value) /\ (\A k \in q..(cap - 1) : r.cells[b][k] = RAW) /\ q <= cap
    BY <2>2, <2>3, <2>4
  <2>6. Holds(r, b, q, cap)
    BY <1>1, <1>4, <2>4, <2>5, HoldsAfter
  <2> QED
    BY <2>1, <2>4, <2>6
<1>8. m.thrown => r = m
  BY <1>3 DEF Constructed
<1> QED
  BY <1>5, <1>6, <1>7, <1>8 DEF Grown

\* The elements from n2 on are destroyed.
Cut(m, r, b, n2, cap) ==
    /\ Holds(r, b, n2, cap) /\ r.thrown = m.thrown
    /\ \A k \in 0..(n2 - 1) : r.cells[b][k] = m.cells[b][k]

LEMMA HoldsDestroy ==
    ASSUME NEW m, NEW b, NEW n \in Nat, NEW cap \in Nat, Holds(m, b, n, cap),
           NEW n2 \in Nat, n2 <= n,
           NEW r, r = destroy(m, << b, n2 >>, << b, n >>)
    PROVE  Cut(m, r, b, n2, cap)
<1>1. /\ b \in {0} \cup Block /\ n <= cap /\ DOMAIN m.cells[b] = 0..(cap - 1) /\ IsMemory(m) /\ ~m.fault
      /\ \A k \in 0..(n - 1) : m.cells[b][k] \in Value
      /\ \A k \in n..(cap - 1) : m.cells[b][k] = RAW
  BY DEF Holds
<1>2. /\ n2..(n - 1) \subseteq DOMAIN m.cells[b] /\ \A k \in n2..(n - 1) : m.cells[b][k] \in Value
      /\ n \in Int /\ n2 \in Int
  BY <1>1
<1>3. Destroyed(m, r, b, n2, n)
  BY <1>1, <1>2, DestroyIs
<1>4. /\ IsMemory(r) /\ ~r.fault /\ DOMAIN r.cells[b] = 0..(cap - 1)
      /\ \A a \in {0} \cup Block : a # b => r.cells[a] = m.cells[a]
      /\ \A x \in 0..(cap - 1) : x < n2 \/ n <= x => r.cells[b][x] = m.cells[b][x]
  <2>1. Within(m, r, b, n2, n) /\ n2 \in Int /\ n \in Int /\ cap \in Nat
    BY <1>3 DEF Destroyed
  <2>2. b \in {0} \cup Block /\ DOMAIN m.cells[b] = 0..(cap - 1)
    BY <1>1
  <2>3. SameOutside(m, r, b, n2, n, cap)
    BY ONLY <2>1, <2>2, WithinBlock
  <2> QED
    BY <2>3 DEF SameOutside
<1>5. \A k \in 0..(n2 - 1) : r.cells[b][k] = m.cells[b][k] /\ r.cells[b][k] \in Value
  <2> SUFFICES ASSUME NEW k \in 0..(n2 - 1)
               PROVE  r.cells[b][k] = m.cells[b][k] /\ r.cells[b][k] \in Value
    OBVIOUS
  <2>1. k \in 0..(cap - 1) /\ k < n2 /\ k \in 0..(n - 1)
    BY <1>1
  <2> QED
    BY <1>1, <1>4, <2>1
<1>6. \A k \in n2..(cap - 1) : r.cells[b][k] = RAW
  <2> SUFFICES ASSUME NEW k \in n2..(cap - 1)
               PROVE  r.cells[b][k] = RAW
    OBVIOUS
  <2>1. CASE k < n
    BY <1>3, <2>1 DEF Destroyed
  <2>2. CASE n <= k
    <3>1. k \in 0..(cap - 1) /\ r.cells[b][k] = m.cells[b][k] /\ k \in n..(cap - 1)
      BY <1>4, <2>2
    <3> QED
      BY <1>1, <3>1
  <2> QED
    BY <2>1, <2>2
<1>7. n2 <= cap
  BY <1>1
<1>8. Holds(r, b, n2, cap)
  BY <1>1, <1>4, <1>5, <1>6, <1>7, HoldsAfter
<1> QED
  BY <1>3, <1>5, <1>8 DEF Cut, Destroyed

-----------------------------------------------------------------------------
\* x is put into cell k of block b, or the copy throws and nothing is changed.
WroteAt(m, r, b, k, x) ==
    /\ IsMemory(r) /\ ~r.fault /\ DOMAIN r.cells[b] = DOMAIN m.cells[b]
    /\ \A a \in {0} \cup Block : a # b => r.cells[a] = m.cells[a]
    /\ \A y \in DOMAIN m.cells[b] : y # k => r.cells[b][y] = m.cells[b][y]
    /\ r.cells[b][k] = IF r.thrown THEN m.cells[b][k] ELSE x

LEMMA WroteAtIs ==
    ASSUME NEW m, IsMemory(m), ~m.fault, m.thrown = FALSE,
           NEW b \in {0} \cup Block, NEW k, k \in DOMAIN m.cells[b],
           NEW x \in Value, NEW allowed, m.cells[b][k] \in allowed,
           NEW r, r = put(m, << b, k >>, x, allowed)
    PROVE  WroteAt(m, r, b, k, x)
<1>1. /\ DOMAIN m = {"cells", "fuel", "thrown", "fault"} /\ DOMAIN m.cells = {0} \cup Block
      /\ m.fuel \in Nat /\ m.fault = FALSE
  BY DEF IsMemory
<1>2. CASE m.fuel = 0
  <2>1. r = [m EXCEPT !.thrown = TRUE]
    BY <1>1, <1>2 DEF put, temporary
  <2>2. DOMAIN r = DOMAIN m /\ r.cells = m.cells /\ r.fuel = m.fuel /\ r.thrown = TRUE /\ r.fault = m.fault
    BY <1>1, <2>1
  <2> QED
    BY <1>1, <2>2 DEF WroteAt, IsMemory
<1>3. CASE m.fuel # 0
  <2>1. temporary(m) = [m EXCEPT !.fuel = m.fuel - 1]
    BY <1>1, <1>3 DEF temporary
  <2>2. PICK t : t = [m EXCEPT !.fuel = m.fuel - 1]
    OBVIOUS
  <2>3. t.thrown = FALSE /\ DOMAIN t = DOMAIN m /\ t.cells = m.cells /\ t.fault = FALSE /\ t.fuel = m.fuel - 1
    BY <1>1, <2>2
  <2>4. in_block(m, << b, k >>) /\ content_of(m, << b, k >>) \in allowed
    BY DEF in_block, content_of
  <2>5. r = [t EXCEPT !.cells = [t.cells EXCEPT ![b] = [t.cells[b] EXCEPT ![k] = x]], !.fault = FALSE]
    BY <2>1, <2>2, <2>3, <2>4 DEF put
  <2>6. /\ DOMAIN r = DOMAIN m /\ r.thrown = FALSE /\ r.fault = FALSE /\ r.fuel = m.fuel - 1
        /\ r.cells = [m.cells EXCEPT ![b] = [m.cells[b] EXCEPT ![k] = x]]
    BY <1>1, <2>3, <2>5
  <2>7. /\ DOMAIN r.cells = {0} \cup Block
        /\ \A a \in {0} \cup Block : a # b => r.cells[a] = m.cells[a]
        /\ r.cells[b] = [m.cells[b] EXCEPT ![k] = x]
    BY <1>1, <2>6
  <2>8. m.fuel - 1 \in Nat
    BY <1>1, <1>3
  <2> QED
    BY <1>1, <2>6, <2>7, <2>8 DEF WroteAt, IsMemory
<1> QED
  BY <1>2, <1>3

\* One element more, or the copy throws.
Appended(m, r, b, n, cap, x) ==
    /\ r.thrown => Holds(r, b, n, cap)
    /\ \A k \in 0..(n - 1) : r.cells[b][k] = m.cells[b][k]
    /\ ~r.thrown => Holds(r, b, n + 1, cap) /\ r.cells[b][n] = x
    /\ r.thrown \in BOOLEAN

LEMMA HoldsConstruct ==
    ASSUME NEW m, NEW b, NEW n \in Nat, NEW cap \in Nat, Holds(m, b, n, cap), m.thrown = FALSE,
           n < cap, NEW x \in Value, NEW r, r = construct(m, << b, n >>, x)
    PROVE  Appended(m, r, b, n, cap, x)
<1>1. /\ b \in {0} \cup Block /\ n <= cap /\ DOMAIN m.cells[b] = 0..(cap - 1) /\ IsMemory(m) /\ ~m.fault
      /\ \A k \in 0..(n - 1) : m.cells[b][k] \in Value
      /\ \A k \in n..(cap - 1) : m.cells[b][k] = RAW
  BY DEF Holds
<1>2. WroteAt(m, r, b, n, x)
  <2>1. n \in DOMAIN m.cells[b] /\ m.cells[b][n] \in {RAW} /\ r = put(m, << b, n >>, x, {RAW})
    BY <1>1 DEF construct
  <2> QED
    BY <1>1, <2>1, WroteAtIs
<1>3. /\ IsMemory(r) /\ ~r.fault /\ DOMAIN r.cells[b] = DOMAIN m.cells[b]
      /\ \A a \in {0} \cup Block : a # b => r.cells[a] = m.cells[a]
  BY <1>2 DEF WroteAt
<1>4. ASSUME NEW k \in 0..(cap - 1), k # n
      PROVE  r.cells[b][k] = m.cells[b][k]
  BY <1>1, <1>2, <1>4 DEF WroteAt
<1>5. \A k \in 0..(n - 1) : r.cells[b][k] = m.cells[b][k] /\ r.cells[b][k] \in Value
  BY <1>1, <1>4
<1>6. ASSUME r.thrown
      PROVE  Holds(r, b, n, cap)
  <2>1. ASSUME NEW k \in n..(cap - 1)
        PROVE  r.cells[b][k] = RAW
    <3>1. CASE k = n
      BY <1>1, <1>2, <1>6, <3>1 DEF WroteAt
    <3>2. CASE k # n
      BY <1>1, <1>4, <3>2
    <3> QED
      BY <3>1, <3>2
  <2> QED
    BY <1>1, <1>3, <1>5, <2>1, HoldsAfter
<1>7. ASSUME ~r.thrown
      PROVE  Holds(r, b, n + 1, cap) /\ r.cells[b][n] = x
  <2>1. r.cells[b][n] = x
    BY <1>2, <1>7 DEF WroteAt
  <2>2. PICK q \in Nat : q = n + 1
    OBVIOUS
  <2>3. ASSUME NEW k \in 0..(q - 1)
        PROVE  r.cells[b][k] \in Value
    <3>1. CASE k = n
      BY <2>1, <3>1
    <3>2. CASE k # n
      BY <1>5, <2>2, <3>2
    <3> QED
      BY <3>1, <3>2
  <2>4. \A k \in q..(cap - 1) : r.cells[b][k] = RAW
    BY <1>1, <1>4, <2>2
  <2>5. q <= cap
    BY <2>2
  <2>6. Holds(r, b, q, cap)
    BY <1>1, <1>3, <2>3, <2>4, <2>5, HoldsAfter
  <2> QED
    BY <2>1, <2>2, <2>6
<1> QED
  BY <1>3, <1>5, <1>6, <1>7 DEF Appended, IsMemory

\* Element i is x, or the assignment throws.
Replaced(m, r, b, n, cap, i, x) ==
    /\ Holds(r, b, n, cap)
    /\ m.thrown => r.thrown
    /\ ~r.thrown => \A k \in 0..(n - 1) : r.cells[b][k] = IF k = i THEN x ELSE m.cells[b][k]

LEMMA HoldsAssign ==
    ASSUME NEW m, NEW b, NEW n \in Nat, NEW cap \in Nat, Holds(m, b, n, cap),
           NEW i \in Nat, i < n, NEW x, m.thrown \/ x \in Value, NEW r, r = assign(m, << b, i >>, x)
    PROVE  Replaced(m, r, b, n, cap, i, x)
<1>1. /\ b \in {0} \cup Block /\ n <= cap /\ DOMAIN m.cells[b] = 0..(cap - 1) /\ IsMemory(m) /\ ~m.fault
      /\ \A k \in 0..(n - 1) : m.cells[b][k] \in Value
      /\ \A k \in n..(cap - 1) : m.cells[b][k] = RAW
  BY DEF Holds
<1>2. m.thrown \in BOOLEAN
  BY <1>1 DEF IsMemory
<1>3. CASE m.thrown = TRUE
  <2>1. r = m
    BY <1>3 DEF assign
  <2> QED
    BY <1>3, <2>1 DEF Replaced
<1>4. CASE m.thrown = FALSE
  <2>1. WroteAt(m, r, b, i, x)
    <3>1. i \in DOMAIN m.cells[b] /\ m.cells[b][i] \in Value /\ r = put(m, << b, i >>, x, Value)
      BY <1>1, <1>4 DEF assign
    <3> QED
      BY <1>1, <1>4, <3>1, WroteAtIs
  <2>2. /\ IsMemory(r) /\ ~r.fault /\ DOMAIN r.cells[b] = DOMAIN m.cells[b]
        /\ \A a \in {0} \cup Block : a # b => r.cells[a] = m.cells[a]
    BY <2>1 DEF WroteAt
  <2>3. ASSUME NEW k \in 0..(cap - 1), k # i
        PROVE  r.cells[b][k] = m.cells[b][k]
    BY <1>1, <2>1, <2>3 DEF WroteAt
  <2>4. r.cells[b][i] = IF r.thrown THEN m.cells[b][i] ELSE x
    BY <2>1 DEF WroteAt
  <2>5. ASSUME NEW k \in 0..(n - 1)
        PROVE  r.cells[b][k] \in Value
    <3>1. CASE k = i
      BY <1>1, <1>4, <2>4, <3>1
    <3>2. CASE k # i
      BY <1>1, <2>3, <3>2
    <3> QED
      BY <3>1, <3>2
  <2>6. \A k \in n..(cap - 1) : r.cells[b][k] = RAW
    BY <1>1, <2>3
  <2>7. Holds(r, b, n, cap)
    BY <1>1, <2>2, <2>5, <2>6, HoldsAfter
  <2>8. ASSUME ~r.thrown, NEW k \in 0..(n - 1)
        PROVE  r.cells[b][k] = IF k = i THEN x ELSE m.cells[b][k]
    BY <1>1, <2>3, <2>4, <2>8
  <2> QED
    BY <1>4, <2>7, <2>8 DEF Replaced
<1> QED
  BY <1>2, <1>3, <1>4

\* A temporary changes no cell.
Kept(m, r, b, n, cap) ==
    /\ Holds(r, b, n, cap) /\ r.cells = m.cells
    /\ m.thrown => r.thrown

LEMMA HoldsTemporary ==
    ASSUME NEW m, NEW b, NEW n, NEW cap, Holds(m, b, n, cap), NEW r, r = temporary(m)
    PROVE  Kept(m, r, b, n, cap)
<1>1. IsMemory(m)
  BY DEF Holds
<1>2. IsMemory(r) /\ r.cells = m.cells /\ r.fault = m.fault /\ (m.thrown => r.thrown)
  <2>1. /\ DOMAIN r = DOMAIN m /\ r.cells = m.cells /\ r.fault = m.fault
        /\ (r.thrown = m.thrown \/ r.thrown = TRUE)
    BY <1>1 DEF temporary, IsMemory
  <2>2. r.fuel \in Nat
    BY <1>1 DEF temporary, IsMemory
  <2> QED
    BY <1>1, <2>1, <2>2 DEF IsMemory
<1> QED
  BY <1>2 DEF Holds, Kept

\* An item that can be read is an element of the caller or one of the n there are.
LEMMA ReadsElement ==
    ASSUME NEW m, NEW b, NEW n \in Nat, NEW cap \in Nat, Holds(m, b, n, cap),
           NEW x, x \in Value \cup Pointer, read(m, x) \in Value
    PROVE  x \in Value \/ \E k \in 0..(n - 1) : x = << b, k >>
<1>1. /\ b \in {0} \cup Block /\ n <= cap /\ DOMAIN m.cells[b] = 0..(cap - 1)
      /\ \A k \in n..(cap - 1) : m.cells[b][k] = RAW
      /\ DOMAIN m.cells[0] = {} /\ \A a \in Block : a # b => DOMAIN m.cells[a] = {}
  BY NoCells DEF Holds
<1> SUFFICES ASSUME x \notin Value
             PROVE  \E k \in 0..(n - 1) : x = << b, k >>
  OBVIOUS
<1>2. PICK a \in {0} \cup Block, k \in Int : x = << a, k >>
  BY PointerIs
<1>3. content_of(m, << a, k >>) \in Value
  BY <1>2 DEF read
<1>4. k \in DOMAIN m.cells[a] /\ m.cells[a][k] \in Value
  BY <1>3, StlMemoryAssumption DEF content_of, in_block
<1>5. a = b
  BY <1>1, <1>4
<1>6. k \in 0..(n - 1)
  BY <1>1, <1>4, <1>5, StlMemoryAssumption
<1> QED
  BY <1>2, <1>5, <1>6

\* The n elements are the same.
SameElements(m, r, b, n) == \A k \in 0..(n - 1) : r.cells[b][k] = m.cells[b][k]

Reads(m, x) == x \in Value \cup Pointer /\ read(m, x) \in Value

\* It reads the same where the elements are the same.
LEMMA ReadsSame ==
    ASSUME NEW m, NEW b, NEW n \in Nat, NEW cap \in Nat, Holds(m, b, n, cap),
           NEW x, Reads(m, x),
           NEW r, NEW n2 \in Nat, Holds(r, b, n2, cap), n <= n2,
           SameElements(m, r, b, n)
    PROVE  read(r, x) = read(m, x)
<1>1. CASE x \in Value
  BY <1>1 DEF read
<1>2. CASE x \notin Value
  <2>1. PICK k \in 0..(n - 1) : x = << b, k >>
    BY <1>2, ReadsElement DEF Reads
  <2>2. /\ b \in {0} \cup Block /\ k \in DOMAIN m.cells[b] /\ k \in DOMAIN r.cells[b] /\ k \in Int
    BY DEF Holds
  <2>3. read(m, << b, k >>) = m.cells[b][k] /\ read(r, << b, k >>) = r.cells[b][k]
    BY <2>2, ReadIs
  <2> QED
    BY <2>1, <2>3 DEF SameElements
<1> QED
  BY <1>1, <1>2

SameReads(m, r, p, items) ==
    Readable(r, p, items) /\ \A k \in 1..p : read(r, items[k]) = read(m, items[k])

LEMMA ReadableSame ==
    ASSUME NEW m, NEW b, NEW n \in Nat, NEW cap \in Nat, Holds(m, b, n, cap),
           NEW p \in Nat, NEW items, Readable(m, p, items),
           NEW r, NEW n2 \in Nat, Holds(r, b, n2, cap), n <= n2,
           SameElements(m, r, b, n)
    PROVE  SameReads(m, r, p, items)
<1>1. ASSUME NEW k \in 1..p
      PROVE  items[k] \in Value \cup Pointer /\ read(m, items[k]) \in Value
             /\ read(r, items[k]) = read(m, items[k])
  <2>1. PICK x : x = items[k]
    OBVIOUS
  <2>2. Reads(m, x)
    BY <2>1 DEF Readable, Reads
  <2>3. read(r, x) = read(m, x)
    BY <2>2, ReadsSame
  <2> QED
    BY <2>1, <2>2, <2>3 DEF Reads
<1> QED
  BY <1>1 DEF Readable, SameReads

\* A vector, changed in place, is left with some elements by an exception.
Changed(u, b, cap) == u.m.thrown /\ \E n \in Nat : VectorAt(u, b, n, cap)

LEMMA ChangedIs ==
    ASSUME NEW v, NEW b, NEW n \in Nat, NEW cap, VectorAt(v, b, n, cap),
           NEW m, NEW n2 \in Nat, Holds(m, b, n2, cap), m.thrown,
           NEW u, (u = with(v, m) /\ n2 = n) \/ u = [with(v, m) EXCEPT !.finish = << b, n2 >>]
    PROVE  Changed(u, b, cap)
<1>1. VectorAt(u, b, n2, cap) /\ u.m = m
  BY DEF VectorAt, with
<1> QED
  BY <1>1 DEF Changed

\* _M_insert_aux with room, in front of an element
LEMMA InsertAuxIs ==
    ASSUME NEW v, NEW b, NEW n \in Nat, NEW cap \in Nat, VectorAt(v, b, n, cap), v.m.thrown = FALSE,
           n < cap, NEW i \in Nat, i < n, NEW x, Reads(v.m, x),
           NEW u, u = insert_aux(v, << b, i >>, x)
    PROVE  Moved(u, v, b, n, i, i, 1, << x >>) \/ Changed(u, b, cap)
<1>1. /\ DOMAIN v = {"m", "start", "finish", "end_of_storage"}
      /\ v.start = << b, 0 >> /\ v.finish = << b, n >> /\ v.end_of_storage = << b, cap >>
      /\ Holds(v.m, b, n, cap)
  BY DEF VectorAt
<1>2. /\ b \in {0} \cup Block /\ DOMAIN v.m.cells[b] = 0..(cap - 1)
      /\ \A k \in 0..(n - 1) : v.m.cells[b][k] \in Value
  BY <1>1 DEF Holds
<1>3. PICK y \in Value : y = v.m.cells[b][n - 1]
  BY <1>2
<1>4. PICK m1 : m1 = construct(v.m, << b, n >>, y)
  OBVIOUS
<1>5. Appended(v.m, m1, b, n, cap, y)
  BY <1>1, <1>4, HoldsConstruct
<1>6. PICK q \in Nat : q = n + 1 /\ n - 1 \in Nat
  OBVIOUS
<1>7. PICK m2 : m2 = temporary(m1)
  OBVIOUS
<1>8. PICK m3 : m3 = copy_backward(m2, << b, i >>, << b, n - 1 >>, << b, n >>)
  OBVIOUS
<1>9. PICK z : z = read(m1, x)
  OBVIOUS
<1>10. PICK m4 : m4 = assign(m3, << b, i >>, z)
  OBVIOUS
<1>11. u = IF m1.thrown THEN with(v, m1)
           ELSE IF m2.thrown THEN with([with(v, m1) EXCEPT !.finish = << b, q >>], m2)
           ELSE with([with(v, m1) EXCEPT !.finish = << b, q >>], m4)
  <2>1. plus(v.finish, -1) = << b, n - 1 >> /\ plus(v.finish, 1) = << b, q >>
        /\ plus(<< b, q >>, -2) = << b, n - 1 >> /\ plus(<< b, q >>, -1) = << b, n >>
    <3>1. n + (-1) = n - 1 /\ q + (-2) = n - 1 /\ q + (-1) = n /\ n + 1 = q
      BY <1>6
    <3> QED
      BY <1>1, <3>1 DEF plus
  <2>2. read(v.m, << b, n - 1 >>) = y
    <3>1. n - 1 \in DOMAIN v.m.cells[b] /\ n - 1 \in Int
      BY <1>2
    <3>2. PICK k \in Int : k = n - 1
      OBVIOUS
    <3> QED
      BY <1>2, <1>3, <3>1, <3>2, ReadIs
  <2>3. v.finish # v.end_of_storage
    BY <1>1
  <2>4. PICK v1 : v1 = finish_at(with(v, m1), << b, q >>)
    OBVIOUS
  <2>5. v1.m = m1 /\ (m1.thrown => v1 = with(v, m1))
        /\ (~m1.thrown => v1 = [with(v, m1) EXCEPT !.finish = << b, q >>] /\ v1.finish = << b, q >>)
    BY <1>1, <2>4 DEF finish_at, with
  <2>6. u = IF v1.m.thrown THEN v1 ELSE IF m2.thrown THEN with(v1, m2)
            ELSE with(v1, assign(copy_backward(m2, << b, i >>, plus(v1.finish, -2), plus(v1.finish, -1)),
                                 << b, i >>, read(v1.m, x)))
    BY <1>1, <1>4, <1>7, <2>1, <2>2, <2>3, <2>4, <2>5 DEF insert_aux
  <2> QED
    BY <1>8, <1>9, <1>10, <2>1, <2>5, <2>6
<1>12. CASE m1.thrown
  <2>1. Holds(m1, b, n, cap) /\ u = with(v, m1)
    BY <1>5, <1>11, <1>12 DEF Appended
  <2> QED
    BY <1>12, <2>1, ChangedIs
<1>13. CASE ~m1.thrown
  <2>1. Holds(m1, b, q, cap) /\ SameElements(v.m, m1, b, n) /\ m1.cells[b][n] = y
    BY <1>5, <1>6, <1>13 DEF Appended, SameElements
  <2>2. z = read(v.m, x)
    BY <1>1, <1>6, <1>9, <2>1, ReadsSame
  <2>3. Kept(m1, m2, b, q, cap)
    BY <1>7, <2>1, HoldsTemporary
  <2>4. Holds(m2, b, q, cap) /\ m2.cells = m1.cells
    BY <2>3 DEF Kept
  <2>5. CASE m2.thrown
    <3>1. u = [with(v, m2) EXCEPT !.finish = << b, q >>]
      BY <1>1, <1>11, <1>13, <2>5 DEF with
    <3> QED
      BY <2>4, <2>5, <3>1, ChangedIs
  <2>6. CASE ~m2.thrown
    <3>1. u = [with(v, m4) EXCEPT !.finish = << b, q >>]
      BY <1>1, <1>11, <1>13, <2>6 DEF with
    <3>2. Shifted(m2, m3, b, q, cap, n - ((n - 1) - i), n, (n - 1) - n)
      <4>1. n - 1 <= n /\ i <= n - 1 /\ n <= q
        BY <1>6
      <4> QED
        BY <1>6, <1>8, <2>4, <4>1, HoldsCopyBackward
    <3>3. z \in Value
      BY <2>2 DEF Reads
    <3>4. Replaced(m3, m4, b, q, cap, i, z)
      <4>1. Holds(m3, b, q, cap) /\ i < q
        BY <1>6, <3>2 DEF Shifted
      <4> QED
        BY <1>10, <3>3, <4>1, HoldsAssign
    <3>5. Holds(m4, b, q, cap)
      BY <3>4 DEF Replaced
    <3>6. CASE m4.thrown
      BY <3>1, <3>5, <3>6, ChangedIs
    <3>7. CASE ~m4.thrown
      <4>1. ~m3.thrown /\ \A k \in 0..(q - 1) : m4.cells[b][k] = IF k = i THEN z ELSE m3.cells[b][k]
        BY <3>4, <3>7 DEF Replaced
      <4>2. \A k \in 0..(q - 1) : m3.cells[b][k] = IF n - ((n - 1) - i) <= k /\ k < n
                                                   THEN m2.cells[b][k + ((n - 1) - n)] ELSE m2.cells[b][k]
        BY <3>2, <4>1 DEF Shifted
      <4>3. ASSUME NEW k \in 0..(i - 1)
            PROVE  m4.cells[b][k] = v.m.cells[b][k]
        <5>1. k \in 0..(q - 1) /\ k # i /\ ~(n - ((n - 1) - i) <= k) /\ k \in 0..(n - 1)
          BY <1>6
        <5> QED
          BY <2>1, <2>4, <4>1, <4>2, <5>1 DEF SameElements
      <4>4. m4.cells[b][i] = z
        <5>1. i \in 0..(q - 1)
          BY <1>6
        <5> QED
          BY <4>1, <5>1
      <4>5. ASSUME NEW k \in i..(n - 1)
            PROVE  m4.cells[b][k + 1] = v.m.cells[b][k]
        <5>1. k + 1 \in 0..(q - 1) /\ k + 1 # i /\ n - ((n - 1) - i) <= k + 1 /\ k \in 0..(n - 1)
          BY <1>6
        <5>2. CASE k + 1 < n
          <6>1. (k + 1) + ((n - 1) - n) = k
            OBVIOUS
          <6> QED
            BY <2>1, <2>4, <4>1, <4>2, <5>1, <5>2, <6>1 DEF SameElements
        <5>3. CASE k + 1 = n
          <6>1. k = n - 1 /\ ~(k + 1 < n)
            BY <5>3
          <6> QED
            BY <1>3, <2>1, <2>4, <4>1, <4>2, <5>1, <5>3, <6>1
        <5> QED
          BY <5>2, <5>3
      <4>6. Spliced(m4, b, v.m, b, n, i, i, 1, << x >>)
        <5>1. ASSUME NEW k \in 1..1
              PROVE  m4.cells[b][i + (k - 1)] = read(v.m, << x >>[k])
          <6>1. k = 1 /\ i + (k - 1) = i
            OBVIOUS
          <6> QED
            BY <2>2, <4>4, <6>1
        <5>2. ASSUME NEW k \in i..(n - 1)
              PROVE  m4.cells[b][i + 1 + (k - i)] = v.m.cells[b][k]
          <6>1. i + 1 + (k - i) = k + 1
            OBVIOUS
          <6> QED
            BY <4>5, <6>1
        <5> QED
          BY <4>3, <5>1, <5>2 DEF Spliced
      <4>7. VectorAt(u, b, i + 1 + (n - i), cap) /\ u.m = m4
        <5>1. q = i + 1 + (n - i)
          BY <1>6
        <5>2. VectorAt(u, b, q, cap) /\ u.m = m4
          BY <1>1, <3>1, <3>5 DEF VectorAt, with
        <5> QED
          BY <5>1, <5>2
      <4> QED
        BY <1>2, <3>7, <4>6, <4>7 DEF Moved
    <3> QED
      BY <3>6, <3>7
  <2> QED
    BY <2>5, <2>6
<1> QED
  BY <1>12, <1>13

\* What an operation leaves behind
Outcome(u, v, b, n, cap, i, j, p, items, changes) ==
    \/ Moved(u, v, b, n, i, j, p, items)
    \/ changes /\ Changed(u, b, cap)
    \/ ~changes /\ Back(u, v, b, n, cap)

LEMMA InsertAtEnd ==
    ASSUME NEW v, NEW b, NEW n \in Nat, NEW cap \in Nat, VectorAt(v, b, n, cap), v.m.thrown = FALSE,
           n < cap, NEW x, Reads(v.m, x),
           NEW u, u = insert_one(v, << b, n >>, x)
    PROVE  Moved(u, v, b, n, n, n, 1, << x >>) \/ Back(u, v, b, n, cap)
<1>1. /\ DOMAIN v = {"m", "start", "finish", "end_of_storage"}
      /\ v.start = << b, 0 >> /\ v.finish = << b, n >> /\ v.end_of_storage = << b, cap >>
      /\ Holds(v.m, b, n, cap)
  BY DEF VectorAt
<1>2. b \in {0} \cup Block
  BY <1>1 DEF Holds
<1>3. PICK y \in Value : y = read(v.m, x)
  BY DEF Reads
<1>4. PICK m1 : m1 = construct(v.m, << b, n >>, y)
  OBVIOUS
<1>5. Appended(v.m, m1, b, n, cap, y)
  BY <1>1, <1>4, HoldsConstruct
<1>6. PICK q \in Nat : q = n + 1
  OBVIOUS
<1>7. u = finish_at(with(v, m1), << b, q >>)
  BY <1>1, <1>3, <1>4, <1>6 DEF insert_one, plus
<1>8. CASE m1.thrown
  <2>1. VectorAt(u, b, n, cap) /\ u.m = m1
    BY <1>1, <1>5, <1>7, <1>8 DEF Appended, VectorAt, with, finish_at
  <2> QED
    BY <1>5, <1>8, <2>1 DEF Back, Appended
<1>9. CASE ~m1.thrown
  <2>1. VectorAt(u, b, q, cap) /\ u.m = m1
    <3>1. Holds(m1, b, q, cap)
      BY <1>5, <1>6, <1>9 DEF Appended
    <3>2. u = [with(v, m1) EXCEPT !.finish = << b, q >>]
      BY <1>1, <1>7, <1>9 DEF with, finish_at
    <3> QED
      BY <1>1, <3>1, <3>2 DEF VectorAt, with
  <2>2. Spliced(m1, b, v.m, b, n, n, n, 1, << x >>)
    <3>1. ASSUME NEW k \in 1..1
          PROVE  m1.cells[b][n + (k - 1)] = read(v.m, << x >>[k])
      <4>1. k = 1 /\ n + (k - 1) = n
        OBVIOUS
      <4> QED
        BY <1>3, <1>5, <1>9, <4>1 DEF Appended
    <3>2. \A k \in n..(n - 1) : m1.cells[b][n + 1 + (k - n)] = v.m.cells[b][k]
      OBVIOUS
    <3> QED
      BY <1>5, <3>1, <3>2 DEF Spliced, Appended
  <2>3. q = n + 1 + (n - n)
    BY <1>6
  <2> QED
    BY <1>2, <1>9, <2>1, <2>2, <2>3 DEF Moved
<1> QED
  BY <1>8, <1>9

\* insert and push_back of one element
LEMMA InsertOneIs ==
    ASSUME NEW v, NEW b, NEW n \in Nat, NEW cap \in Nat, VectorAt(v, b, n, cap), v.m.thrown = FALSE,
           size = n, NEW i \in Nat, i <= n, NEW x, Reads(v.m, x),
           NEW u, u = insert_one(v, << b, i >>, x),
           NEW changes \in BOOLEAN, changes <=> (n < cap /\ i < n)
    PROVE  Outcome(u, v, b, n, cap, i, i, 1, << x >>, changes)
<1>1. v.finish = << b, n >> /\ v.end_of_storage = << b, cap >> /\ n <= cap
  BY DEF VectorAt, Holds
<1>2. CASE n < cap /\ i = n
  <2>1. ~changes
    BY <1>2
  <2>2. Moved(u, v, b, n, i, i, 1, << x >>) \/ Back(u, v, b, n, cap)
    BY <1>2, InsertAtEnd
  <2> QED
    BY <2>1, <2>2 DEF Outcome
<1>3. CASE n < cap /\ i < n
  <2>1. u = insert_aux(v, << b, i >>, x)
    BY <1>1, <1>3 DEF insert_one
  <2> QED
    BY <1>3, <2>1, InsertAuxIs DEF Outcome
<1>4. CASE n = cap
  <2>1. u = reallocate(v, << b, i >>, << x >>)
    BY <1>1, <1>4 DEF insert_one, insert_aux
  <2>2. PICK items : items = << x >>
    OBVIOUS
  <2>3. Readable(v.m, 1, items) /\ 1 = Len(items) /\ 1 # 0 /\ 1 \in Nat
    BY <2>2 DEF Readable, Reads
  <2>4. Moved(u, v, b, n, i, i, 1, items) \/ Back(u, v, b, n, cap)
    <3>1. u = reallocate(v, << b, i >>, items)
      BY <2>1, <2>2
    <3> QED
      BY <2>3, <3>1, ReallocateIs
  <2> QED
    <3>1. ~changes
      BY <1>4
    <3> QED
      BY <2>2, <2>4, <3>1 DEF Outcome
<1> QED
  BY <1>1, <1>2, <1>3, <1>4

\* s is len items, behind the first off.
Part(s, items, off, len) == Len(s) = len /\ \A k \in 1..len : s[k] = items[off + k]

LEMMA PartIs ==
    ASSUME NEW S, NEW items \in Seq(S), NEW off \in Nat, NEW len \in Nat, off + len <= Len(items),
           NEW s, s = SubSeq(items, off + 1, off + len)
    PROVE  Part(s, items, off, len)
<1>1. PICK f \in Int, l \in Int : f = off + 1 /\ l = off + len
  OBVIOUS
<1>2. Len(items) \in Nat /\ \A k \in 1..Len(items) : items[k] \in S
  OBVIOUS
<1>3. \A k \in f..l : items[k] \in S
  BY <1>1, <1>2
<1>4. /\ Len(SubSeq(items, f, l)) = IF f <= l THEN l - f + 1 ELSE 0
      /\ \A k \in 1..(l - f + 1) : SubSeq(items, f, l)[k] = items[f + k - 1]
  BY ONLY <1>3, f \in Int, l \in Int, SubSeqProperties
<1>5. s = SubSeq(items, f, l)
  BY <1>1
<1>6. Len(s) = len
  BY <1>1, <1>4, <1>5
<1>7. ASSUME NEW k \in 1..len
      PROVE  s[k] = items[off + k]
  <2>1. k \in 1..(l - f + 1) /\ f + k - 1 = off + k
    BY <1>1
  <2> QED
    BY <1>4, <1>5, <2>1
<1> QED
  BY <1>6, <1>7 DEF Part

AllValues(p, items) == \A k \in 1..p : items[k] \in Value

LEMMA ValuesReadable ==
    ASSUME NEW p, NEW items, AllValues(p, items), NEW m
    PROVE  Readable(m, p, items)
  BY DEF AllValues, Readable, read

\* n + p elements: those of m up to i, the items, the others of m
InRoom(m, r, b, n, i, p, items) ==
    \A k \in 0..(n + p - 1) :
        r.cells[b][k] = IF k < i THEN m.cells[b][k]
                        ELSE IF k < i + p THEN items[k - i + 1] ELSE m.cells[b][k - p]

LEMMA InRoomMoves ==
    ASSUME NEW v, NEW b, NEW n \in Nat, NEW cap \in Nat, VectorAt(v, b, n, cap),
           NEW i \in Nat, i <= n, NEW p \in Nat, NEW items, AllValues(p, items),
           NEW r, r.thrown = FALSE, NEW q \in Nat, q = n + p, Holds(r, b, q, cap),
           InRoom(v.m, r, b, n, i, p, items),
           NEW u, u = [with(v, r) EXCEPT !.finish = << b, q >>]
    PROVE  Moved(u, v, b, n, i, i, p, items)
<1>1. /\ DOMAIN v = {"m", "start", "finish", "end_of_storage"}
      /\ v.start = << b, 0 >> /\ v.finish = << b, n >> /\ v.end_of_storage = << b, cap >>
      /\ Holds(v.m, b, n, cap)
  BY DEF VectorAt
<1>2. b \in {0} \cup Block
  BY <1>1 DEF Holds
<1>3. VectorAt(u, b, q, cap) /\ u.m = r
  BY <1>1 DEF VectorAt, with
<1>4. ASSUME NEW k \in 0..(i - 1)
      PROVE  r.cells[b][k] = v.m.cells[b][k]
  <2>1. k \in 0..(n + p - 1) /\ k < i
    OBVIOUS
  <2> QED
    BY <2>1 DEF InRoom
<1>5. ASSUME NEW k \in 1..p
      PROVE  r.cells[b][i + (k - 1)] = read(v.m, items[k])
  <2>1. PICK x \in 0..(n + p - 1) : x = i + (k - 1)
    OBVIOUS
  <2>2. ~(x < i) /\ x < i + p /\ x - i + 1 = k
    BY <2>1
  <2>3. r.cells[b][x] = items[k]
    BY <2>2 DEF InRoom
  <2> QED
    BY <2>1, <2>3 DEF AllValues, read
<1>6. ASSUME NEW k \in i..(n - 1)
      PROVE  r.cells[b][i + p + (k - i)] = v.m.cells[b][k]
  <2>1. PICK x \in 0..(n + p - 1) : x = i + p + (k - i)
    OBVIOUS
  <2>2. ~(x < i) /\ ~(x < i + p) /\ x - p = k
    BY <2>1
  <2>3. r.cells[b][x] = v.m.cells[b][k]
    BY <2>2 DEF InRoom
  <2> QED
    BY <2>1, <2>3
<1>7. Spliced(r, b, v.m, b, n, i, i, p, items)
  BY <1>4, <1>5, <1>6 DEF Spliced
<1>8. q = i + p + (n - i)
  OBVIOUS
<1> QED
  BY <1>2, <1>3, <1>7, <1>8 DEF Moved

\* insert_room with more elements behind the position than items
LEMMA InsertRoomMore ==
    ASSUME NEW v, NEW b, NEW n \in Nat, NEW cap \in Nat, VectorAt(v, b, n, cap), v.m.thrown = FALSE,
           NEW i \in Nat, i <= n, NEW p \in Nat, NEW items, p = Len(items), AllValues(p, items),
           n + p <= cap, n - i > p,
           NEW u, u = insert_room(v, << b, i >>, items)
    PROVE  Moved(u, v, b, n, i, i, p, items) \/ Changed(u, b, cap)
<1>1. /\ DOMAIN v = {"m", "start", "finish", "end_of_storage"}
      /\ v.start = << b, 0 >> /\ v.finish = << b, n >> /\ v.end_of_storage = << b, cap >>
      /\ Holds(v.m, b, n, cap)
  BY DEF VectorAt
<1>2. PICK q \in Nat : q = n + p
  OBVIOUS
<1>3. PICK f \in Nat : f = n - p
  <2>1. n - p \in Nat
    OBVIOUS
  <2> QED
    BY <2>1
<1>4. PICK its : its = from(<< b, f >>, p)
  OBVIOUS
<1>5. PICK m1 : m1 = uninitialized(v.m, p, its, << b, n >>)
  OBVIOUS
<1>6. PICK m2 : m2 = copy_backward(m1, << b, i >>, << b, f >>, << b, n >>)
  OBVIOUS
<1>7. PICK m3 : m3 = copy_items(m2, items, << b, i >>)
  OBVIOUS
<1>8. u = IF m1.thrown THEN with(v, m1) ELSE [with(v, m3) EXCEPT !.finish = << b, q >>]
  <2>1. plus(v.finish, -p) = << b, f >> /\ plus(v.finish, p) = << b, q >>
    <3>1. n + (-p) = f /\ n + p = q
      BY <1>2, <1>3
    <3> QED
      BY <1>1, <3>1 DEF plus
  <2>2. minus(v.finish, << b, i >>) = n - i /\ minus(<< b, n >>, << b, f >>) = p
    BY <1>1, <1>3 DEF minus
  <2>3. uninitialized_copy(v.m, << b, f >>, << b, n >>, << b, n >>) = m1
    BY <1>4, <1>5, <2>2 DEF uninitialized_copy
  <2>4. PICK a1 : a1 = finish_at(with(v, m1), << b, q >>)
    OBVIOUS
  <2>5. a1.m = m1 /\ (m1.thrown => a1 = with(v, m1))
        /\ (~m1.thrown => a1 = [with(v, m1) EXCEPT !.finish = << b, q >>])
    BY <1>1, <2>4 DEF finish_at, with
  <2>6. u = IF a1.m.thrown THEN a1 ELSE with(a1, copy_items(copy_backward(a1.m, << b, i >>, << b, f >>, << b, n >>), items, << b, i >>))
    BY <1>1, <2>1, <2>2, <2>3, <2>4 DEF insert_room
  <2>7. u = IF m1.thrown THEN a1 ELSE with(a1, m3)
    BY <1>6, <1>7, <2>5, <2>6
  <2> QED
    BY <1>1, <2>5, <2>7 DEF with
<1>9. Own(v.m, b, f, n, its)
  <2>1. f <= n /\ n <= n /\ n - f = p
    BY <1>3
  <2>2. its = from(<< b, f >>, n - f)
    BY <1>4, <2>1
  <2> QED
    BY <2>1, <2>2, OwnItems
<1>10. Readable(v.m, p, its) /\ \A k \in 1..p : read(v.m, its[k]) = v.m.cells[b][f + (k - 1)]
  <2>1. n - f = p
    BY <1>3
  <2> QED
    BY <1>9, <2>1 DEF Own
<1>11. Grown(v.m, m1, b, n, cap, p, its)
  BY <1>1, <1>5, <1>10, HoldsUninitialized
<1>12. CASE m1.thrown
  <2>1. Holds(m1, b, n, cap) /\ u = with(v, m1)
    BY <1>8, <1>11, <1>12 DEF Grown
  <2> QED
    BY <1>12, <2>1, ChangedIs
<1>13. CASE ~m1.thrown
  <2>1. /\ Holds(m1, b, q, cap) /\ \A k \in 0..(n - 1) : m1.cells[b][k] = v.m.cells[b][k]
        /\ \A k \in 1..p : m1.cells[b][n + (k - 1)] = read(v.m, its[k])
    BY <1>2, <1>11, <1>13 DEF Grown
  <2>2. Shifted(m1, m2, b, q, cap, n - (f - i), n, f - n)
    <3>1. f <= n /\ i <= f /\ n <= q
      BY <1>2, <1>3
    <3> QED
      BY <1>6, <2>1, <3>1, HoldsCopyBackward
  <2>3. Holds(m2, b, q, cap)
    BY <2>2 DEF Shifted
  <2>4. Filled(m2, m3, b, q, cap, i, p, items)
    <3>1. Readable(m2, p, items) /\ i + p <= q
      BY <1>2, ValuesReadable
    <3>2. \A j, k \in 1..p : items[k] \in Value \/ items[j] = items[k]
      BY DEF AllValues
    <3> QED
      BY <1>7, <2>3, <3>1, <3>2, HoldsItems
  <2>5. Holds(m3, b, q, cap) /\ u = [with(v, m3) EXCEPT !.finish = << b, q >>]
    BY <1>8, <1>13, <2>4 DEF Filled
  <2>6. CASE m3.thrown
    BY <2>5, <2>6, ChangedIs
  <2>7. CASE ~m3.thrown
    <3>1. ~m2.thrown /\ \A k \in 0..(q - 1) : m3.cells[b][k] = IF i <= k /\ k < i + p THEN read(m2, items[k - i + 1])
                                                               ELSE m2.cells[b][k]
      BY <2>4, <2>7 DEF Filled
    <3>2. \A k \in 0..(q - 1) : m2.cells[b][k] = IF n - (f - i) <= k /\ k < n THEN m1.cells[b][k + (f - n)]
                                                 ELSE m1.cells[b][k]
      BY <2>2, <3>1 DEF Shifted
    <3>3. ASSUME NEW k \in 0..(n + p - 1)
          PROVE  m3.cells[b][k] = IF k < i THEN v.m.cells[b][k]
                                  ELSE IF k < i + p THEN items[k - i + 1] ELSE v.m.cells[b][k - p]
      <4>0. k \in 0..(q - 1) /\ n - (f - i) = i + p /\ k + (f - n) = k - p /\ i + p <= n
        BY <1>2, <1>3
      <4>1. CASE k < i
        <5>1. k \in 0..(n - 1)
          BY <4>1
        <5> QED
          BY <2>1, <3>1, <3>2, <4>0, <4>1, <5>1
      <4>2. CASE i <= k /\ k < i + p
        <5>1. k - i + 1 \in 1..p
          BY <4>2
        <5>2. read(m2, items[k - i + 1]) = items[k - i + 1]
          BY <5>1 DEF AllValues, read
        <5> QED
          BY <3>1, <4>0, <4>2, <5>2
      <4>3. CASE i + p <= k /\ k < n
        <5>1. k - p \in 0..(n - 1)
          BY <4>3
        <5>2. m3.cells[b][k] = m2.cells[b][k]
          BY <3>1, <4>0, <4>3
        <5>3. m2.cells[b][k] = m1.cells[b][k - p]
          BY <3>2, <4>0, <4>3
        <5>4. ~(k < i) /\ ~(k < i + p)
          BY <4>3
        <5> QED
          BY <2>1, <5>1, <5>2, <5>3, <5>4
      <4>4. CASE n <= k
        <5>1. PICK l \in 1..p : l = k - n + 1
          BY <4>4
        <5>2. n + (l - 1) = k /\ f + (l - 1) = k - p
          BY <1>3, <5>1
        <5>3. m1.cells[b][k] = v.m.cells[b][k - p]
          BY <1>10, <2>1, <5>2
        <5>4. m3.cells[b][k] = m2.cells[b][k]
          <6>1. ~(i <= k /\ k < i + p)
            BY <4>0, <4>4
          <6> QED
            BY <3>1, <4>0, <6>1
        <5>5. m2.cells[b][k] = m1.cells[b][k]
          <6>1. ~(i + p <= k /\ k < n)
            BY <4>4
          <6> QED
            BY <3>2, <4>0, <6>1
        <5>6. ~(k < i) /\ ~(k < i + p)
          BY <4>0, <4>4
        <5> QED
          BY <5>3, <5>4, <5>5, <5>6
      <4> QED
        BY <4>1, <4>2, <4>3, <4>4
    <3>4. InRoom(v.m, m3, b, n, i, p, items)
      BY <3>3 DEF InRoom
    <3>5. m3.thrown = FALSE
      BY <2>5, <2>7, ThrownIs DEF Holds
    <3> QED
      BY <1>2, <2>5, <3>4, <3>5, InRoomMoves
  <2> QED
    BY <2>6, <2>7
<1> QED
  BY <1>12, <1>13

\* ... with as many items, or more
LEMMA InsertRoomLess ==
    ASSUME NEW v, NEW b, NEW n \in Nat, NEW cap \in Nat, VectorAt(v, b, n, cap), v.m.thrown = FALSE,
           NEW i \in Nat, i <= n, NEW p \in Nat, NEW items \in Seq(Value), p = Len(items),
           n + p <= cap, n - i <= p,
           NEW u, u = insert_room(v, << b, i >>, items)
    PROVE  Moved(u, v, b, n, i, i, p, items) \/ Changed(u, b, cap)
<1>1. /\ DOMAIN v = {"m", "start", "finish", "end_of_storage"}
      /\ v.start = << b, 0 >> /\ v.finish = << b, n >> /\ v.end_of_storage = << b, cap >>
      /\ Holds(v.m, b, n, cap)
  BY DEF VectorAt
<1>2. PICK q \in Nat : q = n + p
  OBVIOUS
<1>3. PICK e \in Nat, d \in Nat, c \in Nat : e = n - i /\ d = p - e /\ c = n + d
  <2>1. n - i \in Nat /\ p - (n - i) \in Nat /\ n + (p - (n - i)) \in Nat
    OBVIOUS
  <2> QED
    BY <2>1
<1>4. PICK items1 : items1 = SubSeq(items, 1, e)
  OBVIOUS
<1>5. PICK items2 : items2 = SubSeq(items, e + 1, p)
  OBVIOUS
<1>6. PICK its : its = from(<< b, i >>, e)
  OBVIOUS
<1>7. PICK m1 : m1 = uninitialized(v.m, d, items2, << b, n >>)
  OBVIOUS
<1>8. PICK m2 : m2 = uninitialized(m1, e, its, << b, c >>)
  OBVIOUS
<1>9. PICK m3 : m3 = copy_items(m2, items1, << b, i >>)
  OBVIOUS
<1>10. Part(items1, items, 0, e) /\ Part(items2, items, e, d)
  <2>1. 0 \in Nat /\ 0 + e <= Len(items) /\ items1 = SubSeq(items, 0 + 1, 0 + e)
    BY <1>3, <1>4
  <2>2. e + d <= Len(items) /\ items2 = SubSeq(items, e + 1, e + d)
    BY <1>3, <1>5
  <2> QED
    BY <2>1, <2>2, PartIs
<1>11. u = IF m1.thrown THEN with(v, m1)
           ELSE IF m2.thrown THEN [with(v, m2) EXCEPT !.finish = << b, c >>]
           ELSE [with(v, m3) EXCEPT !.finish = << b, q >>]
  <2>1. plus(v.finish, d) = << b, c >> /\ plus(<< b, c >>, e) = << b, q >>
    <3>1. n + d = c /\ c + e = q
      BY <1>2, <1>3
    <3> QED
      BY <1>1, <3>1 DEF plus
  <2>2. minus(v.finish, << b, i >>) = e /\ minus(<< b, n >>, << b, i >>) = e /\ p - e = d
    BY <1>1, <1>3 DEF minus
  <2>3. uninitialized_items(v.m, items2, << b, n >>) = m1
    BY <1>7, <1>10 DEF uninitialized_items, Part
  <2>4. PICK b1 : b1 = finish_at(with(v, m1), << b, c >>)
    OBVIOUS
  <2>5. b1.m = m1 /\ (m1.thrown => b1 = with(v, m1))
        /\ (~m1.thrown => b1 = [with(v, m1) EXCEPT !.finish = << b, c >>] /\ b1.finish = << b, c >>)
    BY <1>1, <2>4 DEF finish_at, with
  <2>6. uninitialized_copy(m1, << b, i >>, << b, n >>, << b, c >>) = m2
    BY <1>6, <1>8, <2>2 DEF uninitialized_copy
  <2>7. PICK b2 : b2 = finish_at(with(b1, uninitialized_copy(b1.m, << b, i >>, v.finish, b1.finish)), plus(b1.finish, e))
    OBVIOUS
  <2>8. ~(e > p)
    BY <1>3
  <2>9. u = IF b1.m.thrown THEN b1 ELSE IF b2.m.thrown THEN b2
            ELSE with(b2, copy_items(b2.m, items1, << b, i >>))
    <3>1. Len(items) = p /\ v.finish = << b, n >>
      BY <1>1
    <3>2. minus(<< b, n >>, << b, i >>) = e /\ minus(<< b, n >>, << b, n >>) = 0
      BY <2>2 DEF minus
    <3>3. finish_at(with(v, uninitialized_items(v.m, SubSeq(items, e + 1, p), << b, n >>)),
                    plus(<< b, n >>, p - e)) = b1
      BY <1>1, <1>5, <2>1, <2>2, <2>3, <2>4
    <3> QED
      BY <1>4, <2>7, <2>8, <3>1, <3>2, <3>3 DEF insert_room
  <2>10. ASSUME ~m1.thrown
         PROVE  b2.m = m2 /\ (m2.thrown => b2 = [with(v, m2) EXCEPT !.finish = << b, c >>])
                /\ (~m2.thrown => b2 = [with(v, m2) EXCEPT !.finish = << b, q >>])
    <3>1. b2 = finish_at(with(b1, m2), << b, q >>)
      BY <1>1, <2>1, <2>5, <2>6, <2>7, <2>10
    <3>2. with(b1, m2) = [with(v, m2) EXCEPT !.finish = << b, c >>]
      BY <1>1, <2>5, <2>10 DEF with
    <3> QED
      BY <1>1, <3>1, <3>2 DEF with, finish_at
  <2>11. ASSUME ~m1.thrown, ~m2.thrown
         PROVE  with(b2, m3) = [with(v, m3) EXCEPT !.finish = << b, q >>]
    BY <1>1, <2>10, <2>11 DEF with
  <2> QED
    BY <1>9, <2>5, <2>9, <2>10, <2>11
<1>12. Readable(v.m, d, items2) /\ AllValues(d, items2) /\ AllValues(e, items1)
       /\ e = Len(items1)
  <2>1. ASSUME NEW k \in 1..d
        PROVE  items2[k] \in Value
    <3>1. e + k \in 1..Len(items)
      BY <1>3
    <3> QED
      BY <1>10, <3>1 DEF Part
  <2>2. ASSUME NEW k \in 1..e
        PROVE  items1[k] \in Value
    <3>1. 0 + k \in 1..Len(items)
      BY <1>3
    <3> QED
      BY <1>10, <3>1 DEF Part
  <2>3. AllValues(d, items2) /\ AllValues(e, items1) /\ e = Len(items1)
    BY <1>10, <2>1, <2>2 DEF Part, AllValues
  <2> QED
    BY <2>3, ValuesReadable
<1>13. Grown(v.m, m1, b, n, cap, d, items2)
  <2>1. n + d <= cap
    BY <1>3
  <2> QED
    BY <1>1, <1>7, <1>12, <2>1, HoldsUninitialized
<1>14. CASE m1.thrown
  <2>1. Holds(m1, b, n, cap) /\ u = with(v, m1)
    BY <1>11, <1>13, <1>14 DEF Grown
  <2> QED
    BY <1>14, <2>1, ChangedIs
<1>15. CASE ~m1.thrown
  <2>1. /\ Holds(m1, b, c, cap) /\ SameElements(v.m, m1, b, n)
        /\ \A k \in 1..d : m1.cells[b][n + (k - 1)] = read(v.m, items2[k])
    BY <1>3, <1>13, <1>15 DEF Grown, SameElements
  <2>2. Own(v.m, b, i, n, its)
    <3>1. i <= n /\ n <= n /\ its = from(<< b, i >>, n - i)
      BY <1>3, <1>6
    <3> QED
      BY <3>1, OwnItems
  <2>3. Readable(v.m, e, its) /\ \A k \in 1..e : read(v.m, its[k]) = v.m.cells[b][i + (k - 1)]
    BY <1>3, <2>2 DEF Own
  <2>4. Readable(m1, e, its) /\ \A k \in 1..e : read(m1, its[k]) = read(v.m, its[k])
    <3>1. n <= c
      BY <1>3
    <3>2. SameReads(v.m, m1, e, its)
      BY <1>1, <2>1, <2>3, <3>1, ReadableSame
    <3> QED
      BY <3>2 DEF SameReads
  <2>5. Grown(m1, m2, b, c, cap, e, its)
    <3>1. c + e <= cap
      BY <1>2, <1>3
    <3> QED
      BY <1>8, <2>1, <2>4, <3>1, HoldsUninitialized
  <2>6. CASE m2.thrown
    <3>1. Holds(m2, b, c, cap) /\ u = [with(v, m2) EXCEPT !.finish = << b, c >>]
      BY <1>11, <1>15, <2>5, <2>6 DEF Grown
    <3> QED
      BY <2>6, <3>1, ChangedIs
  <2>7. CASE ~m2.thrown
    <3>1. /\ Holds(m2, b, q, cap) /\ \A k \in 0..(c - 1) : m2.cells[b][k] = m1.cells[b][k]
          /\ \A k \in 1..e : m2.cells[b][c + (k - 1)] = read(m1, its[k])
      <4>1. c + e = q
        BY <1>2, <1>3
      <4> QED
        BY <2>5, <2>7, <4>1 DEF Grown
    <3>2. Filled(m2, m3, b, q, cap, i, e, items1)
      <4>1. Readable(m2, e, items1) /\ i + e <= q
        BY <1>2, <1>3, <1>12, ValuesReadable
      <4>2. \A j, k \in 1..e : items1[k] \in Value \/ items1[j] = items1[k]
        BY <1>12 DEF AllValues
      <4> QED
        BY <1>9, <1>12, <3>1, <4>1, <4>2, HoldsItems
    <3>3. Holds(m3, b, q, cap) /\ u = [with(v, m3) EXCEPT !.finish = << b, q >>]
      BY <1>11, <1>15, <2>7, <3>2 DEF Filled
    <3>4. CASE m3.thrown
      BY <3>3, <3>4, ChangedIs
    <3>5. CASE ~m3.thrown
      <4>1. \A k \in 0..(q - 1) : m3.cells[b][k] = IF i <= k /\ k < i + e THEN read(m2, items1[k - i + 1])
                                                   ELSE m2.cells[b][k]
        BY <3>2, <3>5 DEF Filled
      <4>2. ASSUME NEW k \in 0..(n + p - 1)
            PROVE  m3.cells[b][k] = IF k < i THEN v.m.cells[b][k]
                                    ELSE IF k < i + p THEN items[k - i + 1] ELSE v.m.cells[b][k - p]
        <5>0. k \in 0..(q - 1) /\ i + e = n /\ c = i + p /\ n <= c
          BY <1>2, <1>3
        <5>1. CASE k < i
          <6>1. k \in 0..(n - 1) /\ k \in 0..(c - 1) /\ ~(i <= k)
            BY <5>0, <5>1
          <6> QED
            BY <2>1, <3>1, <4>1, <5>0, <5>1, <6>1 DEF SameElements
        <5>2. CASE i <= k /\ k < n
          <6>1. k - i + 1 \in 1..e /\ 0 + (k - i + 1) = k - i + 1
            BY <1>3, <5>2
          <6>2. read(m2, items1[k - i + 1]) = items1[k - i + 1]
            BY <1>12, <6>1 DEF AllValues, read
          <6>3. items1[k - i + 1] = items[k - i + 1]
            BY <1>10, <6>1 DEF Part
          <6>4. m3.cells[b][k] = read(m2, items1[k - i + 1])
            <7>1. i <= k /\ k < i + e
              BY <5>0, <5>2
            <7> QED
              BY <4>1, <5>0, <7>1
          <6>5. ~(k < i) /\ k < i + p
            BY <5>0, <5>2
          <6> QED
            BY <6>2, <6>3, <6>4, <6>5
        <5>3. CASE n <= k /\ k < i + p
          <6>1. PICK l \in 1..d : l = k - n + 1
            BY <1>3, <5>3
          <6>2. n + (l - 1) = k /\ e + l = k - i + 1 /\ k \in 0..(c - 1)
            BY <1>3, <5>0, <5>3, <6>1
          <6>3. m1.cells[b][k] = items2[l]
            <7>1. m1.cells[b][n + (l - 1)] = read(v.m, items2[l])
              BY <2>1
            <7>2. read(v.m, items2[l]) = items2[l]
              BY <1>12 DEF AllValues, read
            <7> QED
              BY <6>2, <7>1, <7>2
          <6>4. items2[l] = items[k - i + 1]
            BY <1>10, <6>2 DEF Part
          <6>5. m3.cells[b][k] = m2.cells[b][k]
            BY <4>1, <5>0, <5>3
          <6>6. m2.cells[b][k] = m1.cells[b][k]
            BY <3>1, <6>2
          <6>7. ~(k < i)
            BY <5>0, <5>3
          <6> QED
            BY <5>3, <6>3, <6>4, <6>5, <6>6, <6>7
        <5>4. CASE i + p <= k
          <6>1. PICK l \in 1..e : l = k - c + 1
            <7>1. k - c + 1 \in 1..e
              BY <1>3, <5>0, <5>4
            <7> QED
              BY <7>1
          <6>2. c + (l - 1) = k /\ i + (l - 1) = k - p
            BY <1>3, <6>1
          <6>3. m2.cells[b][k] = v.m.cells[b][k - p]
            BY <2>3, <2>4, <3>1, <6>2
          <6>4. m3.cells[b][k] = m2.cells[b][k]
            BY <4>1, <5>0, <5>4
          <6>5. ~(k < i) /\ ~(k < i + p)
            BY <5>4
          <6> QED
            BY <6>3, <6>4, <6>5
        <5> QED
          BY <5>1, <5>2, <5>3, <5>4
      <4>3. InRoom(v.m, m3, b, n, i, p, items)
        BY <4>2 DEF InRoom
      <4>4. m3.thrown = FALSE
        BY <3>3, <3>5, ThrownIs DEF Holds
      <4>5. AllValues(p, items)
        BY DEF AllValues
      <4> QED
        BY <1>2, <3>3, <4>3, <4>4, <4>5, InRoomMoves
    <3> QED
      BY <3>4, <3>5
  <2> QED
    BY <2>6, <2>7
<1> QED
  BY <1>14, <1>15

LEMMA InsertRoomIs ==
    ASSUME NEW v, NEW b, NEW n \in Nat, NEW cap \in Nat, VectorAt(v, b, n, cap), v.m.thrown = FALSE,
           NEW i \in Nat, i <= n, NEW p \in Nat, NEW items \in Seq(Value), p = Len(items),
           n + p <= cap,
           NEW u, u = insert_room(v, << b, i >>, items)
    PROVE  Moved(u, v, b, n, i, i, p, items) \/ Changed(u, b, cap)
<1>1. AllValues(p, items)
  BY DEF AllValues
<1>2. n - i > p \/ n - i <= p
  OBVIOUS
<1> QED
  BY <1>1, <1>2, InsertRoomMore, InsertRoomLess

\* Nothing is inserted.
LEMMA Unmoved ==
    ASSUME NEW v, NEW b, NEW n \in Nat, NEW cap \in Nat, VectorAt(v, b, n, cap), v.m.thrown = FALSE,
           NEW i \in Nat, i <= n, NEW items
    PROVE  Moved(v, v, b, n, i, i, 0, items)
<1>1. Spliced(v.m, b, v.m, b, n, i, i, 0, items)
  <2>1. \A k \in i..(n - 1) : i + 0 + (k - i) = k
    OBVIOUS
  <2> QED
    BY <2>1 DEF Spliced
<1>2. VectorAt(v, b, i + 0 + (n - i), cap)
  <2>1. n = i + 0 + (n - i)
    OBVIOUS
  <2> QED
    BY <2>1
<1>3. b \in {0} \cup Block
  BY DEF VectorAt, Holds
<1> QED
  BY <1>1, <1>2, <1>3 DEF Moved

\* There is room for p more elements behind n.
Fits(changes, n, p, cap) == changes <=> (n + p <= cap)

\* insert(position, first, last)
LEMMA RangeInsertIs ==
    ASSUME NEW v, NEW b, NEW n \in Nat, NEW cap \in Nat, VectorAt(v, b, n, cap), v.m.thrown = FALSE,
           size = n, NEW i \in Nat, i <= n, NEW p \in Nat, NEW items \in Seq(Value), p = Len(items),
           NEW u, u = range_insert(v, << b, i >>, items),
           NEW changes \in BOOLEAN, Fits(changes, n, p, cap)
    PROVE  Outcome(u, v, b, n, cap, i, i, p, items, changes)
<1> USE DEF Fits
<1>1. v.finish = << b, n >> /\ v.end_of_storage = << b, cap >>
  BY DEF VectorAt
<1>2. CASE items = << >>
  <2>1. u = v /\ p = 0
    BY <1>2 DEF range_insert
  <2> QED
    BY <2>1, Unmoved DEF Outcome
<1>3. CASE items # << >> /\ n + p <= cap
  <2>1. u = insert_room(v, << b, i >>, items)
    BY <1>1, <1>3 DEF range_insert, has_room, minus
  <2>2. Moved(u, v, b, n, i, i, p, items) \/ Changed(u, b, cap)
    BY <1>3, <2>1, InsertRoomIs
  <2> QED
    BY <1>3, <2>2 DEF Outcome
<1>4. CASE items # << >> /\ ~(n + p <= cap)
  <2>1. u = reallocate(v, << b, i >>, items) /\ p # 0
    BY <1>1, <1>4 DEF range_insert, has_room, minus
  <2>2. Readable(v.m, p, items)
    <3>1. AllValues(p, items)
      BY DEF AllValues
    <3> QED
      BY <3>1, ValuesReadable
  <2>3. Moved(u, v, b, n, i, i, p, items) \/ Back(u, v, b, n, cap)
    BY <2>1, <2>2, ReallocateIs
  <2>4. ~changes
    BY <1>4
  <2> QED
    BY <2>3, <2>4 DEF Outcome
<1> QED
  BY <1>2, <1>3, <1>4

LEMMA RepeatedIs ==
    ASSUME NEW p \in Nat, NEW x, NEW items, items = repeated(p, x)
    PROVE  Len(items) = p /\ (\A k \in 1..p : items[k] = x) /\ (x \in Value => items \in Seq(Value))
  BY DEF repeated

\* insert(position, n, x), also of an element of the vector itself
LEMMA FillInsertIs ==
    ASSUME NEW v, NEW b, NEW n \in Nat, NEW cap \in Nat, VectorAt(v, b, n, cap), v.m.thrown = FALSE,
           size = n, NEW i \in Nat, i <= n, NEW p \in Nat, NEW x, Reads(v.m, x),
           NEW items, items = repeated(p, x),
           NEW u, u = fill_insert(v, << b, i >>, p, x),
           NEW changes \in BOOLEAN, Fits(changes, n, p, cap)
    PROVE  Outcome(u, v, b, n, cap, i, i, p, items, changes)
<1> USE DEF Fits
<1>1. /\ DOMAIN v = {"m", "start", "finish", "end_of_storage"}
      /\ v.start = << b, 0 >> /\ v.finish = << b, n >> /\ v.end_of_storage = << b, cap >>
      /\ Holds(v.m, b, n, cap)
  BY DEF VectorAt
<1>2. Len(items) = p /\ \A k \in 1..p : items[k] = x
  BY RepeatedIs
<1>3. CASE p = 0
  <2>1. u = v
    BY <1>3 DEF fill_insert
  <2> QED
    BY <1>3, <2>1, Unmoved DEF Outcome
<1>4. CASE p # 0 /\ ~(n + p <= cap)
  <2>1. u = reallocate(v, << b, i >>, items)
    BY <1>1, <1>4 DEF fill_insert, has_room, minus
  <2>2. Readable(v.m, p, items)
    BY <1>2 DEF Readable, Reads
  <2>3. Moved(u, v, b, n, i, i, p, items) \/ Back(u, v, b, n, cap)
    BY <1>2, <1>4, <2>1, <2>2, ReallocateIs
  <2>4. ~changes
    BY <1>4
  <2> QED
    BY <2>3, <2>4 DEF Outcome
<1>5. CASE p # 0 /\ n + p <= cap
  <2>1. PICK m1 : m1 = temporary(v.m)
    OBVIOUS
  <2>2. Holds(m1, b, n, cap) /\ m1.cells = v.m.cells
    BY <1>1, <2>1, HoldsTemporary DEF Kept
  <2>3. PICK y \in Value : y = read(v.m, x)
    BY DEF Reads
  <2>4. PICK copies_of : copies_of = repeated(p, y)
    OBVIOUS
  <2>5. u = IF m1.thrown THEN with(v, m1) ELSE insert_room(with(v, m1), << b, i >>, copies_of)
    BY <1>1, <1>5, <2>1, <2>3, <2>4 DEF fill_insert, has_room, minus
  <2>6. CASE m1.thrown
    <3>1. Changed(u, b, cap)
      BY <2>2, <2>5, <2>6, ChangedIs
    <3> QED
      BY <1>5, <3>1 DEF Outcome
  <2>7. CASE ~m1.thrown
    <3>1. PICK v1 : v1 = with(v, m1)
      OBVIOUS
    <3>2. VectorAt(v1, b, n, cap) /\ v1.m = m1 /\ v1.m.thrown = FALSE
      <4>1. m1.thrown = FALSE
        BY <2>2, <2>7, ThrownIs DEF Holds
      <4>2. /\ DOMAIN v1 = {"m", "start", "finish", "end_of_storage"} /\ v1.m = m1
            /\ v1.start = << b, 0 >> /\ v1.finish = << b, n >> /\ v1.end_of_storage = << b, cap >>
        <5>1. /\ DOMAIN v = {"m", "start", "finish", "end_of_storage"}
              /\ v.start = << b, 0 >> /\ v.finish = << b, n >> /\ v.end_of_storage = << b, cap >>
          BY DEF VectorAt
        <5>2. v1 = [v EXCEPT !.m = m1]
          BY <3>1 DEF with
        <5> QED
          BY <5>1, <5>2
      <4> QED
        BY <2>2, <4>1, <4>2 DEF VectorAt
    <3>3. /\ copies_of \in Seq(Value) /\ p = Len(copies_of) /\ \A k \in 1..p : copies_of[k] = y
      <4>1. Len(copies_of) = p /\ (\A k \in 1..p : copies_of[k] = y) /\ (y \in Value => copies_of \in Seq(Value))
        BY <2>4 DEF repeated
      <4> QED
        BY <4>1
    <3>4. Moved(u, v1, b, n, i, i, p, copies_of) \/ Changed(u, b, cap)
      <4>1. u = insert_room(v1, << b, i >>, copies_of)
        BY <2>5, <2>7, <3>1
      <4> QED
        BY <1>5, <3>2, <3>3, <4>1, InsertRoomIs
    <3>5. ASSUME Moved(u, v1, b, n, i, i, p, copies_of)
          PROVE  Moved(u, v, b, n, i, i, p, items)
      <4>1. PICK w \in {0} \cup Block, len \in Nat :
                    VectorAt(u, w, i + p + (n - i), len) /\ Spliced(u.m, w, m1, b, n, i, i, p, copies_of)
        BY <3>2, <3>5 DEF Moved
      <4>2. \A k \in 1..p : read(v.m, items[k]) = read(m1, copies_of[k])
        BY <1>2, <2>3, <3>3 DEF read
      <4>3. Spliced(u.m, w, v.m, b, n, i, i, p, items)
        BY <2>2, <4>1, <4>2 DEF Spliced
      <4> QED
        BY <3>5, <4>1, <4>3 DEF Moved
    <3> QED
      BY <1>5, <3>4, <3>5 DEF Outcome
  <2> QED
    BY <2>6, <2>7
<1> QED
  BY <1>3, <1>4, <1>5

\* The insertion u of p times x into v
FillCall(v, b, n, cap, i, p, x, items, u, changes) ==
    /\ n \in Nat /\ cap \in Nat /\ VectorAt(v, b, n, cap) /\ v.m.thrown = FALSE
    /\ size = n /\ i \in Nat /\ i <= n /\ p \in Nat /\ Reads(v.m, x) /\ items = repeated(p, x)
    /\ u = fill_insert(v, << b, i >>, p, x) /\ changes \in BOOLEAN /\ Fits(changes, n, p, cap)

LEMMA FillCallIs ==
    ASSUME NEW v, NEW b, NEW n, NEW cap, NEW i, NEW p, NEW x, NEW items, NEW u, NEW changes,
           FillCall(v, b, n, cap, i, p, x, items, u, changes)
    PROVE  Outcome(u, v, b, n, cap, i, i, p, items, changes)
<1>1. /\ n \in Nat /\ cap \in Nat /\ VectorAt(v, b, n, cap) /\ v.m.thrown = FALSE
      /\ size = n /\ i \in Nat /\ i <= n /\ p \in Nat /\ Reads(v.m, x) /\ items = repeated(p, x)
      /\ u = fill_insert(v, << b, i >>, p, x) /\ changes \in BOOLEAN /\ Fits(changes, n, p, cap)
  BY DEF FillCall
<1> QED
  BY <1>1, FillInsertIs

\* erase(first, last)
LEMMA EraseIs ==
    ASSUME NEW v, NEW b, NEW n \in Nat, NEW cap \in Nat, VectorAt(v, b, n, cap), v.m.thrown = FALSE,
           NEW i \in Nat, NEW j \in Nat, i <= j, j <= n, NEW items,
           NEW u, u = erase_range(v, << b, i >>, << b, j >>)
    PROVE  Moved(u, v, b, n, i, j, 0, items) \/ Changed(u, b, cap)
<1>1. /\ DOMAIN v = {"m", "start", "finish", "end_of_storage"}
      /\ v.start = << b, 0 >> /\ v.finish = << b, n >> /\ v.end_of_storage = << b, cap >>
      /\ Holds(v.m, b, n, cap)
  BY DEF VectorAt
<1>2. PICK q \in Nat : q = i + (n - j) /\ q <= n
  OBVIOUS
<1>3. PICK m1 : m1 = copy(v.m, << b, j >>, << b, n >>, << b, i >>)
  OBVIOUS
<1>4. PICK m2 : m2 = destroy(m1, << b, q >>, << b, n >>)
  OBVIOUS
<1>5. u = IF m1.thrown THEN with(v, m1) ELSE finish_at(with(v, m2), << b, q >>)
  BY <1>1, <1>2, <1>3, <1>4 DEF erase_range, plus, minus
<1>6. Shifted(v.m, m1, b, n, cap, i, i + (n - j), j - i)
  <2>1. n <= n
    OBVIOUS
  <2> QED
    BY <1>1, <1>3, <2>1, HoldsCopy
<1>7. Holds(m1, b, n, cap)
  BY <1>6 DEF Shifted
<1>8. CASE m1.thrown
  BY <1>5, <1>7, <1>8, ChangedIs
<1>9. CASE ~m1.thrown
  <2>1. Cut(m1, m2, b, q, cap)
    BY <1>2, <1>4, <1>7, HoldsDestroy
  <2>2. /\ Holds(m2, b, q, cap) /\ m2.thrown = FALSE
        /\ \A k \in 0..(q - 1) : m2.cells[b][k] = m1.cells[b][k]
    BY <1>7, <1>9, <2>1, ThrownIs DEF Cut, Holds
  <2>3. VectorAt(u, b, q, cap) /\ u.m = m2
    <3>1. u = [with(v, m2) EXCEPT !.finish = << b, q >>]
      BY <1>1, <1>5, <1>9, <2>2 DEF with, finish_at
    <3> QED
      BY <1>1, <2>2, <3>1 DEF VectorAt, with
  <2>4. \A k \in 0..(n - 1) : m1.cells[b][k] = IF i <= k /\ k < i + (n - j) THEN v.m.cells[b][k + (j - i)]
                                               ELSE v.m.cells[b][k]
    BY <1>6, <1>9 DEF Shifted
  <2>5. ASSUME NEW k \in 0..(i - 1)
        PROVE  m2.cells[b][k] = v.m.cells[b][k]
    <3>1. k \in 0..(q - 1) /\ k \in 0..(n - 1) /\ ~(i <= k)
      BY <1>2
    <3> QED
      BY <2>2, <2>4, <3>1
  <2>6. ASSUME NEW k \in j..(n - 1)
        PROVE  m2.cells[b][i + 0 + (k - j)] = v.m.cells[b][k]
    <3>1. PICK x \in 0..(q - 1) : x = i + 0 + (k - j)
      BY <1>2
    <3>2. x \in 0..(n - 1) /\ i <= x /\ x < i + (n - j) /\ x + (j - i) = k
      BY <1>2, <3>1
    <3> QED
      BY <2>2, <2>4, <3>1, <3>2
  <2>7. Spliced(m2, b, v.m, b, n, i, j, 0, items)
    <3>1. \A k \in 1..0 : m2.cells[b][i + (k - 1)] = read(v.m, items[k])
      OBVIOUS
    <3> QED
      BY <2>5, <2>6, <3>1 DEF Spliced
  <2>8. q = i + 0 + (n - j) /\ b \in {0} \cup Block
    BY <1>1, <1>2 DEF Holds
  <2> QED
    BY <2>2, <2>3, <2>7, <2>8 DEF Moved
<1> QED
  BY <1>8, <1>9

\* _M_allocate_and_copy of items, by reserve and operator=
LEMMA RebuildIs ==
    ASSUME NEW v, NEW b, NEW n \in Nat, NEW cap \in Nat, VectorAt(v, b, n, cap), v.m.thrown = FALSE,
           NEW items, NEW p \in Nat, p = Len(items), Readable(v.m, p, items),
           NEW len \in Nat, len # 0, p <= len,
           NEW u, u = rebuild(v, items, len)
    PROVE  Moved(u, v, b, n, 0, n, p, items) \/ Back(u, v, b, n, cap)
<1>1. v.start = << b, 0 >> /\ v.finish = << b, n >> /\ IsMemory(v.m)
  BY DEF VectorAt, Holds
<1>2. PICK w \in Block :
              /\ allocate(v.m, len) = << w, 0 >>
              /\ Built(allocated(v.m, len), v, w, 0, len)
              /\ allocated(v.m, len).thrown = v.m.thrown
  BY BuiltEmpty
<1>3. PICK m0 : m0 = allocated(v.m, len)
  OBVIOUS
<1>4. PICK m1 : m1 = uninitialized(m0, p, items, << w, 0 >>)
  OBVIOUS
<1>5. u = IF m1.thrown THEN abandon(v, m1, << w, 0 >>, << w, 0 >>, len)
          ELSE replace(v, m1, << w, 0 >>, p, len)
  BY <1>2, <1>3, <1>4 DEF rebuild, uninitialized_items
<1>6. MoreBuilt(m0, m1, v, w, 0, len, p, items)
  <2>1. 0 \in Nat /\ 0 + p <= len /\ Built(m0, v, w, 0, len)
    BY <1>2, <1>3
  <2> QED
    BY <1>1, <1>4, <2>1, BuildMore
<1>7. CASE m1.thrown = TRUE
  <2>1. Built(m1, v, w, 0, len) /\ 0 \in Nat
    BY <1>6, <1>7 DEF MoreBuilt
  <2>2. u = abandon(v, m1, << w, 0 >>, << w, 0 >>, len)
    BY <1>5, <1>7
  <2> QED
    BY <1>7, <2>1, <2>2, AbandonIs
<1>8. CASE m1.thrown = FALSE
  <2>1. Built(m1, v, w, p, len) /\ \A k \in 1..p : m1.cells[w][k - 1] = read(v.m, items[k])
    <3>1. Built(m1, v, w, 0 + p, len) /\ \A k \in 1..p : m1.cells[w][0 + (k - 1)] = read(v.m, items[k])
      BY <1>6, <1>8 DEF MoreBuilt
    <3>2. 0 + p = p /\ \A k \in 1..p : 0 + (k - 1) = k - 1
      OBVIOUS
    <3> QED
      BY <3>1, <3>2
  <2>2. Taken(u, m1, w, p, len)
    <3>1. u = replace(v, m1, << w, 0 >>, p, len)
      BY <1>5, <1>8
    <3> QED
      BY <1>8, <2>1, <3>1, ReplaceIs
  <2>3. ASSUME NEW k \in 1..p
        PROVE  u.m.cells[w][0 + (k - 1)] = read(v.m, items[k])
    <3>1. 0 + (k - 1) = k - 1 /\ k - 1 \in 0..(p - 1)
      OBVIOUS
    <3> QED
      BY <2>1, <2>2, <3>1 DEF Taken
  <2>4. Spliced(u.m, w, v.m, b, n, 0, n, p, items)
    <3>1. (\A k \in 0..(0 - 1) : u.m.cells[w][k] = v.m.cells[b][k])
          /\ (\A k \in n..(n - 1) : u.m.cells[w][0 + p + (k - n)] = v.m.cells[b][k])
      OBVIOUS
    <3> QED
      BY <2>3, <3>1 DEF Spliced
  <2>5. p = 0 + p + (n - n)
    OBVIOUS
  <2>6. VectorAt(u, w, 0 + p + (n - n), len) /\ ~u.m.thrown
    BY <2>2, <2>5 DEF Taken
  <2> QED
    BY <2>4, <2>6 DEF Moved
<1>9. m1.thrown \in BOOLEAN
  BY <1>6 DEF MoreBuilt, Built, IsMemory
<1> QED
  BY <1>7, <1>8, <1>9

\* Elements of the caller, or one element again and again
Uniform(p, items) == \A j, k \in 1..p : items[k] \in Value \/ items[j] = items[k]

\* The first n of the items are assigned, the others constructed behind them.
LEMMA ExtendIs ==
    ASSUME NEW v, NEW b, NEW n \in Nat, NEW cap \in Nat, VectorAt(v, b, n, cap), v.m.thrown = FALSE,
           NEW S, NEW items \in Seq(S), NEW p \in Nat, p = Len(items), Readable(v.m, p, items),
           Uniform(p, items), n <= p, p <= cap,
           NEW u, u = overwrite_and_extend(v, items)
    PROVE  Moved(u, v, b, n, 0, n, p, items) \/ Changed(u, b, cap)
<1>1. /\ DOMAIN v = {"m", "start", "finish", "end_of_storage"}
      /\ v.start = << b, 0 >> /\ v.finish = << b, n >> /\ v.end_of_storage = << b, cap >>
      /\ Holds(v.m, b, n, cap)
  BY DEF VectorAt
<1>2. PICK d \in Nat : d = p - n
  <2>1. p - n \in Nat
    OBVIOUS
  <2> QED
    BY <2>1
<1>3. PICK items1 : items1 = SubSeq(items, 1, n)
  OBVIOUS
<1>4. PICK items2 : items2 = SubSeq(items, n + 1, p)
  OBVIOUS
<1>5. Part(items1, items, 0, n) /\ Part(items2, items, n, d)
  <2>1. 0 \in Nat /\ 0 + n <= Len(items) /\ items1 = SubSeq(items, 0 + 1, 0 + n)
    BY <1>3
  <2>2. n + d <= Len(items) /\ items2 = SubSeq(items, n + 1, n + d)
    BY <1>2, <1>4
  <2> QED
    BY <2>1, <2>2, PartIs
<1>6. PICK m1 : m1 = copy_items(v.m, items1, << b, 0 >>)
  OBVIOUS
<1>7. PICK m2 : m2 = uninitialized(m1, d, items2, << b, n >>)
  OBVIOUS
<1>8. u = IF m1.thrown THEN with(v, m1) ELSE finish_at(with(v, m2), << b, p >>)
  <2>1. minus(v.finish, v.start) = n /\ plus(v.start, p) = << b, p >>
    BY <1>1 DEF minus, plus
  <2>2. uninitialized_items(m1, items2, << b, n >>) = m2
    BY <1>5, <1>7 DEF uninitialized_items, Part
  <2> QED
    BY <1>1, <1>3, <1>4, <1>6, <2>1, <2>2 DEF overwrite_and_extend
<1>9. ASSUME NEW k \in 1..n
      PROVE  items1[k] = items[k] /\ k \in 1..p /\ Reads(v.m, items1[k])
  <2>1. 0 + k = k /\ k \in 1..p
    OBVIOUS
  <2> QED
    BY <1>5, <2>1 DEF Part, Readable, Reads
<1>10. ASSUME NEW k \in 1..d
       PROVE  items2[k] = items[n + k] /\ n + k \in 1..p /\ Reads(v.m, items2[k])
  <2>1. n + k \in 1..p
    BY <1>2
  <2> QED
    BY <1>5, <2>1 DEF Part, Readable, Reads
<1>11. Filled(v.m, m1, b, n, cap, 0, n, items1)
  <2>1. Readable(v.m, n, items1) /\ n = Len(items1) /\ 0 \in Nat /\ 0 + n <= n
    BY <1>5, <1>9 DEF Part, Readable, Reads
  <2>2. \A j, k \in 1..n : items1[k] \in Value \/ items1[j] = items1[k]
    BY <1>9 DEF Uniform
  <2> QED
    BY <1>1, <1>6, <2>1, <2>2, HoldsItems
<1>12. Holds(m1, b, n, cap)
  BY <1>11 DEF Filled
<1>13. CASE m1.thrown
  BY <1>8, <1>12, <1>13, ChangedIs
<1>14. CASE ~m1.thrown
  <2>1. ASSUME NEW k \in 0..(n - 1)
        PROVE  m1.cells[b][k] = read(v.m, items[k + 1])
    <3>1. 0 <= k /\ k < 0 + n /\ k - 0 + 1 = k + 1 /\ k + 1 \in 1..n
      OBVIOUS
    <3>2. m1.cells[b][k] = read(v.m, items1[k - 0 + 1])
      BY <1>11, <1>14, <3>1 DEF Filled
    <3> QED
      BY <1>9, <3>1, <3>2
  <2>2. ASSUME NEW k \in 1..d
        PROVE  read(m1, items2[k]) = read(v.m, items2[k]) /\ Reads(m1, items2[k])
    <3>1. CASE items2[k] \in Value
      BY <3>1 DEF read, Reads
    <3>2. CASE items2[k] \notin Value
      <4>1. PICK x : x = items2[k]
        OBVIOUS
      <4>2. x \in Value \cup Pointer /\ read(v.m, x) \in Value /\ x \notin Value
        BY <1>10, <3>2, <4>1 DEF Reads
      <4>3. PICK y \in 0..(n - 1) : x = << b, y >>
        BY <1>1, <4>2, ReadsElement
      <4>4. y + 1 \in 1..p /\ items[y + 1] = x
        <5>1. y + 1 \in 1..p /\ n + k \in 1..p /\ items[n + k] = x
          BY <1>10, <4>1
        <5>2. items[n + k] \in Value \/ items[y + 1] = items[n + k]
          BY <5>1 DEF Uniform
        <5> QED
          BY <4>2, <5>1, <5>2
      <4>5. m1.cells[b][y] = read(v.m, x)
        BY <2>1, <4>4
      <4>6. read(m1, << b, y >>) = m1.cells[b][y]
        <5>1. b \in {0} \cup Block /\ y \in Int /\ y \in DOMAIN m1.cells[b]
          BY <1>12 DEF Holds
        <5> QED
          BY <5>1, ReadIs
      <4> QED
        BY <4>1, <4>2, <4>3, <4>5, <4>6 DEF Reads
    <3> QED
      BY <3>1, <3>2
  <2>3. Readable(m1, d, items2)
    BY <2>2 DEF Readable, Reads
  <2>4. Grown(m1, m2, b, n, cap, d, items2)
    <3>1. n + d <= cap
      BY <1>2
    <3> QED
      BY <1>7, <1>12, <2>3, <3>1, HoldsUninitialized
  <2>5. CASE m2.thrown
    <3>1. Holds(m2, b, n, cap) /\ u = with(v, m2)
      BY <1>1, <1>8, <1>14, <2>4, <2>5 DEF Grown, finish_at, with
    <3> QED
      BY <2>5, <3>1, ChangedIs
  <2>6. CASE ~m2.thrown
    <3>1. n + d = p
      BY <1>2
    <3>2. /\ Holds(m2, b, p, cap) /\ \A k \in 0..(n - 1) : m2.cells[b][k] = m1.cells[b][k]
          /\ \A k \in 1..d : m2.cells[b][n + (k - 1)] = read(m1, items2[k])
      BY <2>4, <2>6, <3>1 DEF Grown
    <3>3. ASSUME NEW k \in 1..p
          PROVE  m2.cells[b][0 + (k - 1)] = read(v.m, items[k])
      <4>1. CASE k <= n
        <5>1. PICK x \in 0..(n - 1) : x = k - 1
          BY <4>1
        <5>2. m2.cells[b][x] = read(v.m, items[x + 1])
          BY <2>1, <3>2
        <5>3. x + 1 = k /\ 0 + (k - 1) = x
          BY <5>1
        <5> QED
          BY <5>2, <5>3
      <4>2. CASE n < k
        <5>1. PICK x \in 1..d : x = k - n
          BY <1>2, <4>2
        <5>2. n + (x - 1) = 0 + (k - 1) /\ n + x = k
          BY <5>1
        <5>3. read(m1, items2[x]) = read(v.m, items[n + x])
          BY <1>10, <2>2
        <5> QED
          BY <3>2, <5>2, <5>3
      <4> QED
        BY <4>1, <4>2
    <3>4. Spliced(m2, b, v.m, b, n, 0, n, p, items)
      <4>1. (\A k \in 0..(0 - 1) : m2.cells[b][k] = v.m.cells[b][k])
            /\ (\A k \in n..(n - 1) : m2.cells[b][0 + p + (k - n)] = v.m.cells[b][k])
        OBVIOUS
      <4> QED
        BY <3>3, <4>1 DEF Spliced
    <3>5. VectorAt(u, b, p, cap) /\ u.m = m2
      <4>1. u = [with(v, m2) EXCEPT !.finish = << b, p >>]
        BY <1>1, <1>8, <1>14, <2>6 DEF with, finish_at
      <4> QED
        BY <1>1, <3>2, <4>1 DEF VectorAt, with
    <3>6. p = 0 + p + (n - n) /\ b \in {0} \cup Block
      BY <1>1 DEF Holds
    <3> QED
      BY <2>6, <3>4, <3>5, <3>6 DEF Moved
  <2> QED
    BY <2>5, <2>6
<1> QED
  BY <1>13, <1>14

\* The items are assigned, the elements behind them dropped.
LEMMA DropIs ==
    ASSUME NEW v, NEW b, NEW n \in Nat, NEW cap \in Nat, VectorAt(v, b, n, cap), v.m.thrown = FALSE,
           NEW items, NEW p \in Nat, p = Len(items), Readable(v.m, p, items),
           Uniform(p, items), p <= n,
           NEW u, u = overwrite_and_drop(v, items)
    PROVE  Moved(u, v, b, n, 0, n, p, items) \/ Changed(u, b, cap)
<1>1. /\ DOMAIN v = {"m", "start", "finish", "end_of_storage"}
      /\ v.start = << b, 0 >> /\ v.finish = << b, n >> /\ v.end_of_storage = << b, cap >>
      /\ Holds(v.m, b, n, cap)
  BY DEF VectorAt
<1>2. PICK m1 : m1 = copy_items(v.m, items, << b, 0 >>)
  OBVIOUS
<1>3. PICK v1 : v1 = with(v, m1)
  OBVIOUS
<1>4. u = IF m1.thrown THEN v1 ELSE erase_range(v1, << b, p >>, << b, n >>)
  BY <1>1, <1>2, <1>3 DEF overwrite_and_drop, plus
<1>5. Filled(v.m, m1, b, n, cap, 0, p, items)
  <2>1. 0 \in Nat /\ 0 + p <= n
    OBVIOUS
  <2>2. \A j, k \in 1..p : items[k] \in Value \/ items[j] = items[k]
    BY DEF Uniform
  <2> QED
    BY <1>1, <1>2, <2>1, <2>2, HoldsItems
<1>6. Holds(m1, b, n, cap)
  BY <1>5 DEF Filled
<1>7. CASE m1.thrown
  BY <1>3, <1>4, <1>6, <1>7, ChangedIs
<1>8. CASE ~m1.thrown
  <2>1. VectorAt(v1, b, n, cap) /\ v1.m = m1 /\ v1.m.thrown = FALSE
    <3>1. m1.thrown = FALSE
      BY <1>6, <1>8, ThrownIs DEF Holds
    <3> QED
      BY <1>1, <1>3, <1>6, <3>1 DEF VectorAt, with
  <2>2. Moved(u, v1, b, n, p, n, 0, items) \/ Changed(u, b, cap)
    <3>1. u = erase_range(v1, << b, p >>, << b, n >>) /\ n <= n
      BY <1>4, <1>8
    <3> QED
      BY <2>1, <3>1, EraseIs
  <2>3. ASSUME Moved(u, v1, b, n, p, n, 0, items)
        PROVE  Moved(u, v, b, n, 0, n, p, items)
    <3>1. PICK w \in {0} \cup Block, len \in Nat :
              VectorAt(u, w, p + 0 + (n - n), len) /\ Spliced(u.m, w, m1, b, n, p, n, 0, items)
      BY <2>1, <2>3 DEF Moved
    <3>2. p + 0 + (n - n) = 0 + p + (n - n)
      OBVIOUS
    <3>3. ASSUME NEW k \in 1..p
          PROVE  u.m.cells[w][0 + (k - 1)] = read(v.m, items[k])
      <4>1. PICK x \in 0..(p - 1) : x = k - 1
        OBVIOUS
      <4>2. x \in 0..(n - 1) /\ 0 <= x /\ x < 0 + p /\ x - 0 + 1 = k /\ 0 + (k - 1) = x
        BY <4>1
      <4>3. m1.cells[b][x] = read(v.m, items[k])
        BY <1>5, <1>8, <4>2 DEF Filled
      <4>4. u.m.cells[w][x] = m1.cells[b][x]
        BY <3>1 DEF Spliced
      <4> QED
        BY <4>2, <4>3, <4>4
    <3>4. Spliced(u.m, w, v.m, b, n, 0, n, p, items)
      <4>1. (\A k \in 0..(0 - 1) : u.m.cells[w][k] = v.m.cells[b][k])
            /\ (\A k \in n..(n - 1) : u.m.cells[w][0 + p + (k - n)] = v.m.cells[b][k])
        OBVIOUS
      <4> QED
        BY <3>3, <4>1 DEF Spliced
    <3> QED
      BY <2>3, <3>1, <3>2, <3>4 DEF Moved
  <2> QED
    BY <2>2, <2>3
<1> QED
  BY <1>7, <1>8

\* operator= and assign(n, x)
LEMMA AssignItemsIs ==
    ASSUME NEW v, NEW b, NEW n \in Nat, NEW cap \in Nat, VectorAt(v, b, n, cap), v.m.thrown = FALSE,
           size = n, capacity = cap,
           NEW S, NEW items \in Seq(S), NEW p \in Nat, p = Len(items), Readable(v.m, p, items),
           Uniform(p, items),
           NEW u, u = assign_items(v, items),
           NEW changes \in BOOLEAN, changes <=> (p <= cap)
    PROVE  Outcome(u, v, b, n, cap, 0, n, p, items, changes)
<1>1. CASE p > cap
  <2>1. u = rebuild(v, items, p) /\ p # 0 /\ p <= p
    BY <1>1 DEF assign_items
  <2>2. Moved(u, v, b, n, 0, n, p, items) \/ Back(u, v, b, n, cap)
    BY <2>1, RebuildIs
  <2>3. ~changes
    BY <1>1
  <2> QED
    BY <2>2, <2>3 DEF Outcome
<1>2. CASE p <= cap /\ p > n
  <2>1. u = overwrite_and_extend(v, items) /\ n <= p
    BY <1>2 DEF assign_items
  <2>2. Moved(u, v, b, n, 0, n, p, items) \/ Changed(u, b, cap)
    BY <1>2, <2>1, ExtendIs
  <2> QED
    BY <1>2, <2>2 DEF Outcome
<1>3. CASE p <= cap /\ p <= n
  <2>1. u = overwrite_and_drop(v, items)
    BY <1>3 DEF assign_items
  <2>2. Moved(u, v, b, n, 0, n, p, items) \/ Changed(u, b, cap)
    BY <1>3, <2>1, DropIs
  <2> QED
    BY <1>3, <2>2 DEF Outcome
<1> QED
  BY <1>1, <1>2, <1>3

-----------------------------------------------------------------------------
\* pop_back
LEMMA PopBackIs ==
    ASSUME NEW v, NEW b, NEW n \in Nat, NEW cap \in Nat, VectorAt(v, b, n, cap), v.m.thrown = FALSE,
           NEW q \in Nat, q = n - 1, NEW items,
           NEW u, u = [v EXCEPT !.m = destroy(v.m, << b, q >>, << b, n >>), !.finish = << b, q >>]
    PROVE  Moved(u, v, b, n, q, n, 0, items)
<1>1. /\ DOMAIN v = {"m", "start", "finish", "end_of_storage"}
      /\ v.start = << b, 0 >> /\ v.finish = << b, n >> /\ v.end_of_storage = << b, cap >>
      /\ Holds(v.m, b, n, cap)
  BY DEF VectorAt
<1>2. PICK m1 : m1 = destroy(v.m, << b, q >>, << b, n >>)
  OBVIOUS
<1>3. Cut(v.m, m1, b, q, cap)
  <2>1. q <= n
    OBVIOUS
  <2> QED
    BY <1>1, <1>2, <2>1, HoldsDestroy
<1>4. Holds(m1, b, q, cap) /\ m1.thrown = FALSE /\ \A k \in 0..(q - 1) : m1.cells[b][k] = v.m.cells[b][k]
  BY <1>3 DEF Cut
<1>5. VectorAt(u, b, q, cap) /\ u.m = m1
  BY <1>1, <1>2, <1>4 DEF VectorAt
<1>6. Spliced(m1, b, v.m, b, n, q, n, 0, items)
  <2>1. (\A k \in 1..0 : m1.cells[b][q + (k - 1)] = read(v.m, items[k]))
        /\ (\A k \in n..(n - 1) : m1.cells[b][q + 0 + (k - n)] = v.m.cells[b][k])
    OBVIOUS
  <2> QED
    BY <1>4, <2>1 DEF Spliced
<1>7. q = q + 0 + (n - n) /\ b \in {0} \cup Block
  BY <1>1 DEF Holds
<1> QED
  BY <1>4, <1>5, <1>6, <1>7 DEF Moved

\* ~vector, and the next vector
LEMMA DestructIs ==
    ASSUME NEW v, NEW b, NEW n \in Nat, NEW cap \in Nat, VectorAt(v, b, n, cap), v.m.thrown = FALSE,
           NEW items, NEW u, u = replace(v, v.m, null, 0, 0)
    PROVE  Moved(u, v, b, n, 0, n, 0, items)
<1>1. /\ v.start = << b, 0 >> /\ v.finish = << b, n >> /\ v.end_of_storage = << b, cap >>
      /\ Holds(v.m, b, n, cap)
  BY DEF VectorAt
<1>2. PICK d : d = destroy(v.m, << b, 0 >>, << b, n >>)
  OBVIOUS
<1>3. PICK e : e = deallocate(d, << b, 0 >>, cap)
  OBVIOUS
<1>4. Cut(v.m, d, b, 0, cap)
  <2>1. 0 \in Nat /\ 0 <= n
    OBVIOUS
  <2> QED
    BY <1>1, <1>2, <2>1, HoldsDestroy
<1>5. Holds(d, b, 0, cap) /\ d.thrown = FALSE
  BY <1>4 DEF Cut
<1>6. /\ IsMemory(d) /\ ~d.fault /\ DOMAIN d.cells[b] = 0..(cap - 1) /\ b \in {0} \cup Block
      /\ \A k \in 0..(cap - 1) : d.cells[b][k] = RAW
      /\ (b = 0 <=> cap = 0) /\ DOMAIN d.cells[0] = {}
      /\ \A a \in Block : a # b => d.cells[a] = no_cells
  BY <1>5 DEF Holds
<1>7. Deallocated(d, e, b, cap)
  BY <1>3, <1>6, DeallocateIs
<1>8. /\ IsMemory(e) /\ ~e.fault /\ e.thrown = FALSE
      /\ \A a \in {0} \cup Block : a # b => e.cells[a] = d.cells[a]
      /\ e.cells[b] = IF cap = 0 THEN d.cells[b] ELSE no_cells
  BY <1>5, <1>7 DEF Deallocated
<1>9. DOMAIN e.cells[0] = {} /\ \A a \in Block : a # 0 => e.cells[a] = no_cells
  <2>1. CASE b = 0
    <3>1. \A a \in Block : a # b
      BY <2>1, StlMemoryAssumption
    <3> QED
      BY <1>6, <1>8, <2>1, <3>1
  <2>2. CASE b # 0
    BY <1>6, <1>8, <2>2
  <2> QED
    BY <2>1, <2>2
<1>10. Holds(e, 0, 0, 0)
  <2>1. /\ 0 \in {0} \cup Block /\ 0 \in Nat /\ 0 <= 0 /\ 0..(0 - 1) = {}
    OBVIOUS
  <2> QED
    BY <1>8, <1>9, <2>1 DEF Holds
<1>11. /\ DOMAIN u = {"m", "start", "finish", "end_of_storage"} /\ u.m = e
       /\ u.start = << 0, 0 >> /\ u.finish = << 0, 0 >> /\ u.end_of_storage = << 0, 0 >>
  <2>1. minus(<< b, cap >>, << b, 0 >>) = cap
    BY DEF minus
  <2> QED
    BY <1>1, <1>2, <1>3, <2>1 DEF replace, plus, null
<1>12. VectorAt(u, 0, 0, 0)
  BY <1>10, <1>11 DEF VectorAt
<1>13. Spliced(e, 0, v.m, b, n, 0, n, 0, items)
  <2>1. /\ \A k \in 0..(0 - 1) : e.cells[0][k] = v.m.cells[b][k]
        /\ \A k \in 1..0 : e.cells[0][0 + (k - 1)] = read(v.m, items[k])
        /\ \A k \in n..(n - 1) : e.cells[0][0 + 0 + (k - n)] = v.m.cells[b][k]
    OBVIOUS
  <2> QED
    BY <2>1 DEF Spliced
<1>14. 0 = 0 + 0 + (n - n) /\ 0 \in {0} \cup Block /\ 0 \in Nat
  OBVIOUS
<1> QED
  BY <1>8, <1>11, <1>12, <1>13, <1>14 DEF Moved

-----------------------------------------------------------------------------
\* Between the calls: one block at most, the elements in its first cells, and they are
\* what the calls were to leave behind.
VectorInvariant ==
    /\ VectorAt(operand(0), start[1], size, capacity)
    /\ promised = elements_in(cells, start, size)

\* Any fuel does.
LEMMA OperandIs ==
    ASSUME VectorInvariant, NEW fuel \in Nat
    PROVE  /\ VectorAt(operand(fuel), start[1], size, capacity) /\ operand(fuel).m.thrown = FALSE
           /\ operand(fuel).m.cells = cells
           /\ start[1] \in {0} \cup Block /\ size \in Nat /\ capacity \in Nat /\ size <= capacity
           /\ start = << start[1], 0 >> /\ finish = << start[1], size >>
           /\ end_of_storage = << start[1], capacity >>
<1>1. PICK b, n, cap : b = start[1] /\ n = size /\ cap = capacity
  OBVIOUS
<1>2. VectorAt(operand(0), b, n, cap)
  BY <1>1 DEF VectorInvariant
<1>3. Holds(operand(0).m, b, n, cap)
  BY <1>2 DEF VectorAt
<1>4. /\ operand(fuel).m.cells = cells /\ operand(fuel).m.thrown = FALSE /\ operand(fuel).m.fault = fault
      /\ operand(fuel).m.fuel = fuel /\ DOMAIN operand(fuel).m = {"cells", "fuel", "thrown", "fault"}
      /\ operand(0).m.cells = cells /\ operand(0).m.fault = fault
  BY DEF operand
<1>5. IsMemory(operand(fuel).m)
  BY <1>3, <1>4 DEF IsMemory, Holds
<1>6. Holds(operand(fuel).m, b, n, cap)
  BY <1>3, <1>4, <1>5 DEF Holds
<1>7. /\ operand(fuel).start = start /\ operand(fuel).finish = finish
      /\ operand(fuel).end_of_storage = end_of_storage
      /\ DOMAIN operand(fuel) = {"m", "start", "finish", "end_of_storage"}
      /\ operand(0).start = start /\ operand(0).finish = finish
      /\ operand(0).end_of_storage = end_of_storage
  BY DEF operand
<1>8. start = << b, 0 >> /\ finish = << b, n >> /\ end_of_storage = << b, cap >>
  BY <1>2, <1>7 DEF VectorAt
<1>9. VectorAt(operand(fuel), b, n, cap)
  BY <1>6, <1>7, <1>8 DEF VectorAt
<1>10. b \in {0} \cup Block /\ n \in Nat /\ cap \in Nat /\ n <= cap
  BY <1>3 DEF Holds
<1> QED
  BY <1>1, <1>4, <1>8, <1>9, <1>10

LEMMA InvariantHolds ==
    ASSUME VectorInvariant
    PROVE  LifetimesExact /\ ContentsExact
<1>1. PICK b, n, cap : b = start[1] /\ n = size /\ cap = capacity
  OBVIOUS
<1>2. /\ VectorAt(operand(0), b, n, cap) /\ n \in Nat /\ cap \in Nat /\ n <= cap
      /\ operand(0).m.cells = cells
  BY <1>1, 0 \in Nat, OperandIs
<1>3. Holds(operand(0).m, b, n, cap) /\ operand(0).m.fault = fault
  BY <1>2 DEF VectorAt, operand
<1>4. /\ ~fault /\ DOMAIN cells[b] = 0..(cap - 1)
      /\ \A k \in 0..(n - 1) : cells[b][k] \in Value
      /\ \A k \in n..(cap - 1) : cells[b][k] = RAW
      /\ DOMAIN cells[0] = {} /\ \A a \in Block : a # b => DOMAIN cells[a] = {}
  BY <1>2, <1>3, NoCells DEF Holds
<1>5. ASSUME NEW a \in {0} \cup Block
      PROVE  DOMAIN cells[a] = IF a = b THEN 0..(cap - 1) ELSE {}
  BY <1>4
<1>6. ASSUME NEW k \in DOMAIN cells[b]
      PROVE  (cells[b][k] \in Value) = (k < n)
  <2>1. CASE k < n
    <3>1. k \in 0..(n - 1)
      BY <1>2, <1>4, <2>1
    <3> QED
      BY <1>4, <2>1, <3>1
  <2>2. CASE ~(k < n)
    <3>1. k \in n..(cap - 1)
      BY <1>2, <1>4, <2>2
    <3> QED
      BY <1>4, <2>2, <3>1, StlMemoryAssumption
  <2> QED
    BY <2>1, <2>2
<1>7. LifetimesExact
  BY <1>1, <1>2, <1>4, <1>5, <1>6 DEF LifetimesExact
<1>8. ContentsExact
  BY DEF VectorInvariant, ContentsExact
<1> QED
  BY <1>7, <1>8

LEMMA InitHolds ==
    ASSUME VectorInit
    PROVE  VectorInvariant
<1>1. /\ cells = [b \in {0} \cup Block |-> no_cells] /\ start = << 0, 0 >> /\ finish = << 0, 0 >>
      /\ end_of_storage = << 0, 0 >> /\ fault = FALSE /\ promised = << >>
  BY DEF VectorInit, null
<1>2. size = 0 /\ capacity = 0 /\ start[1] = 0
  BY <1>1 DEF size, capacity, minus
<1>3. /\ operand(0).m.cells = cells /\ operand(0).m.thrown = FALSE /\ operand(0).m.fault = FALSE
      /\ operand(0).m.fuel = 0 /\ DOMAIN operand(0).m = {"cells", "fuel", "thrown", "fault"}
      /\ operand(0).start = << 0, 0 >> /\ operand(0).finish = << 0, 0 >>
      /\ operand(0).end_of_storage = << 0, 0 >>
      /\ DOMAIN operand(0) = {"m", "start", "finish", "end_of_storage"}
  BY <1>1 DEF operand
<1>4. DOMAIN cells = {0} \cup Block /\ \A a \in {0} \cup Block : cells[a] = no_cells
  BY <1>1
<1>5. IsMemory(operand(0).m)
  <2>1. PICK m : m = operand(0).m
    OBVIOUS
  <2>2. /\ DOMAIN m = {"cells", "fuel", "thrown", "fault"} /\ DOMAIN m.cells = {0} \cup Block
        /\ m.fuel \in Nat /\ m.thrown \in BOOLEAN /\ m.fault \in BOOLEAN
    <3>1. DOMAIN m = {"cells", "fuel", "thrown", "fault"}
      BY <1>3, <2>1
    <3>2. DOMAIN m.cells = {0} \cup Block
      BY <1>3, <1>4, <2>1
    <3>3. m.fuel \in Nat
      BY <1>3, <2>1
    <3>4. m.thrown \in BOOLEAN
      BY <1>3, <2>1
    <3>5. m.fault \in BOOLEAN
      BY <1>3, <2>1
    <3> QED
      BY <3>1, <3>2, <3>3, <3>4, <3>5
  <2>3. IsMemory(m)
    BY <2>2 DEF IsMemory
  <2> QED
    BY <2>1, <2>3
<1>6. Holds(operand(0).m, 0, 0, 0)
  <2>1. /\ 0 \in {0} \cup Block /\ 0 \in Nat /\ 0 <= 0 /\ 0..(0 - 1) = {}
    OBVIOUS
  <2> QED
    BY <1>3, <1>4, <1>5, <2>1, NoCells DEF Holds
<1>7. VectorAt(operand(0), 0, 0, 0)
  BY <1>3, <1>6 DEF VectorAt
<1>8. promised = elements_in(cells, start, 0)
  <2>1. 1..0 = {} /\ promised = << >>
    BY <1>1
  <2>2. elements_in(cells, start, 0) = << >>
    BY <2>1 DEF elements_in
  <2> QED
    BY <2>1, <2>2
<1> QED
  BY <1>2, <1>7, <1>8 DEF VectorInvariant

\* What the vector is to hold is a sequence of elements.
LEMMA WantIs ==
    ASSUME VectorInvariant
    PROVE  /\ promised \in Seq(Value) /\ Len(promised) = size
           /\ \A k \in 1..size : promised[k] = cells[start[1]][k - 1]
<1>1. PICK b, n, cap : b = start[1] /\ n = size /\ cap = capacity
  OBVIOUS
<1>2. /\ VectorAt(operand(0), b, n, cap) /\ n \in Nat /\ start = << b, 0 >>
      /\ operand(0).m.cells = cells
  BY <1>1, 0 \in Nat, OperandIs
<1>3. \A k \in 0..(n - 1) : cells[b][k] \in Value
  BY <1>2 DEF VectorAt, Holds
<1>4. promised = [k \in 1..n |-> cells[b][0 + k - 1]]
  BY <1>1, <1>2 DEF VectorInvariant, elements_in
<1>5. ASSUME NEW k \in 1..n
      PROVE  promised[k] = cells[b][k - 1] /\ promised[k] \in Value
  <2>1. 0 + k - 1 = k - 1 /\ k - 1 \in 0..(n - 1)
    BY <1>2
  <2>2. promised[k] = cells[b][0 + k - 1]
    BY <1>4
  <2> QED
    BY <1>3, <2>1, <2>2
<1>6. promised \in Seq(Value) /\ Len(promised) = n
  <2>1. promised \in [1..n -> Value]
    BY <1>4, <1>5
  <2> QED
    BY <1>2, <2>1
<1> QED
  BY <1>1, <1>5, <1>6

\* The state after a call
LEMMA NextIs ==
    ASSUME NEW u, NEW g, NEW changes, done(u, g, changes), NEW w, NEW q, NEW len, VectorAt(u, w, q, len)
    PROVE  /\ VectorAt(operand(0), w, q, len)'
           /\ start' = << w, 0 >> /\ size' = q /\ capacity' = len /\ cells' = u.m.cells
<1>1. /\ cells' = u.m.cells /\ start' = u.start /\ finish' = u.finish /\ end_of_storage' = u.end_of_storage
      /\ fault' = u.m.fault
  BY DEF done
<1>2. /\ u.start = << w, 0 >> /\ u.finish = << w, q >> /\ u.end_of_storage = << w, len >>
      /\ Holds(u.m, w, q, len)
  BY DEF VectorAt
<1>3. q \in Nat /\ len \in Nat
  BY <1>2 DEF Holds
<1>4. size' = q /\ capacity' = len
  BY <1>1, <1>2, <1>3 DEF size, capacity, minus
<1>5. PICK x : x = operand(0)'
  OBVIOUS
<1>6. x = [m |-> [cells |-> u.m.cells, fuel |-> 0, thrown |-> FALSE, fault |-> u.m.fault],
           start |-> << w, 0 >>, finish |-> << w, q >>, end_of_storage |-> << w, len >>]
  BY <1>1, <1>2, <1>5 DEF operand
<1>7. PICK m : m = x.m
  OBVIOUS
<1>8. /\ m.cells = u.m.cells /\ m.fuel = 0 /\ m.thrown = FALSE /\ m.fault = u.m.fault
      /\ DOMAIN m = {"cells", "fuel", "thrown", "fault"}
  BY <1>6, <1>7
<1>9. IsMemory(m)
  <2>1. IsMemory(u.m)
    BY <1>2 DEF Holds
  <2>2. m.fuel \in Nat
    BY <1>8
  <2>3. m.thrown \in BOOLEAN
    BY <1>8
  <2> QED
    BY <1>8, <2>1, <2>2, <2>3 DEF IsMemory
<1>10. Holds(m, w, q, len)
  BY <1>2, <1>8, <1>9 DEF Holds
<1>11. VectorAt(x, w, q, len)
  BY <1>6, <1>7, <1>10 DEF VectorAt
<1> QED
  BY <1>1, <1>2, <1>4, <1>5, <1>11

\* The sequence g: the first i elements, the p items, and the elements from j on
Promised(g, n, i, j, p, items) ==
    /\ g = [k \in 1..(i + p + (n - j)) |-> g[k]]
    /\ \A k \in 1..i : g[k] = promised[k]
    /\ \A k \in 1..p : g[i + k] = value(items[k])
    /\ \A k \in 1..(n - j) : g[i + p + k] = promised[j + k]

\* A call that leaves what it is to leave, the old elements or, where it changes
\* them in place, any elements keeps the invariant.
LEMMA DoneKeeps ==
    ASSUME VectorInvariant, NEW fuel \in Nat, NEW u, NEW i \in Nat, NEW j \in Nat, i <= j, j <= size,
           NEW p \in Nat, NEW items, NEW changes \in BOOLEAN, NEW g,
           Outcome(u, operand(fuel), start[1], size, capacity, i, j, p, items, changes),
           Promised(g, size, i, j, p, items), done(u, g, changes)
    PROVE  VectorInvariant'
<1>1. PICK b, n, cap : b = start[1] /\ n = size /\ cap = capacity
  OBVIOUS
<1>2. PICK v : v = operand(fuel)
  OBVIOUS
<1>3. VectorAt(v, b, n, cap) /\ v.m.cells = cells /\ n \in Nat /\ start = << b, 0 >>
  BY <1>1, <1>2, OperandIs
<1>4. promised = [k \in 1..n |-> cells[b][0 + k - 1]] /\ \A k \in 1..n : promised[k] = cells[b][k - 1]
  <2>1. promised = elements_in(cells, start, n)
    BY <1>1 DEF VectorInvariant
  <2> QED
    BY <1>1, <1>3, <2>1, WantIs DEF elements_in
<1>5. Outcome(u, v, b, n, cap, i, j, p, items, changes) /\ Promised(g, n, i, j, p, items) /\ j <= n
  BY <1>1, <1>2
<1>6. ASSUME NEW w, NEW q, NEW len, VectorAt(u, w, q, len), promised' = [k \in 1..q |-> u.m.cells[w][0 + k - 1]]
      PROVE  VectorInvariant'
  <2>1. /\ VectorAt(operand(0), w, q, len)'
        /\ start' = << w, 0 >> /\ size' = q /\ capacity' = len /\ cells' = u.m.cells
    BY <1>6, NextIs
  <2>2. promised' = elements_in(cells, start, size)'
    BY <1>6, <2>1 DEF elements_in
  <2> QED
    BY <2>1, <2>2 DEF VectorInvariant
<1>7. CASE Moved(u, v, b, n, i, j, p, items)
  <2>1. ~u.m.thrown
    BY <1>7 DEF Moved
  <2>2. PICK w \in {0} \cup Block, len \in Nat :
            VectorAt(u, w, i + p + (n - j), len) /\ Spliced(u.m, w, v.m, b, n, i, j, p, items)
    BY <1>7 DEF Moved
  <2>3. PICK q \in Nat : q = i + p + (n - j)
    BY <1>3, <1>5
  <2>4. promised' = g /\ g = [k \in 1..q |-> g[k]]
    BY <1>5, <2>1, <2>3 DEF done, Promised
  <2>5. \A k \in 1..p : value(items[k]) = read(v.m, items[k])
    <3>1. operand(0).m.cells = v.m.cells
      BY <1>3 DEF operand
    <3> QED
      BY <3>1 DEF value, read, content_of, in_block
  <2>6. ASSUME NEW k \in 1..q
        PROVE  g[k] = u.m.cells[w][0 + k - 1]
    <3>1. CASE k <= i
      <4>1. k \in 1..i /\ k \in 1..n /\ 0 + k - 1 = k - 1 /\ k - 1 \in 0..(i - 1)
        BY <1>3, <1>5, <3>1
      <4>2. g[k] = cells[b][k - 1]
        BY <1>4, <1>5, <4>1 DEF Promised
      <4>3. u.m.cells[w][k - 1] = cells[b][k - 1]
        BY <1>3, <2>2, <4>1 DEF Spliced
      <4> QED
        BY <4>1, <4>2, <4>3
    <3>2. CASE i < k /\ k <= i + p
      <4>1. PICK l \in 1..p : l = k - i
        BY <3>2
      <4>2. i + l = k /\ i + (l - 1) = 0 + k - 1
        BY <4>1
      <4>3. g[i + l] = read(v.m, items[l])
        BY <1>5, <2>5 DEF Promised
      <4>4. u.m.cells[w][i + (l - 1)] = read(v.m, items[l])
        BY <2>2 DEF Spliced
      <4> QED
        BY <4>2, <4>3, <4>4
    <3>3. CASE i + p < k
      <4>1. PICK l \in 1..(n - j) : l = k - (i + p)
        BY <1>3, <2>3, <3>3
      <4>2. PICK x \in j..(n - 1) : x = j + l - 1
        BY <1>3, <1>5
      <4>3. i + p + l = k /\ i + p + (x - j) = 0 + k - 1 /\ j + l \in 1..n /\ (j + l) - 1 = x
        BY <1>3, <4>1, <4>2
      <4>4. g[i + p + l] = promised[j + l]
        BY <1>5 DEF Promised
      <4>5. promised[j + l] = cells[b][x]
        BY <1>4, <4>3
      <4>6. u.m.cells[w][i + p + (x - j)] = cells[b][x]
        BY <1>3, <2>2 DEF Spliced
      <4> QED
        BY <4>3, <4>4, <4>5, <4>6
    <3> QED
      BY <3>1, <3>2, <3>3
  <2>7. promised' = [k \in 1..q |-> u.m.cells[w][0 + k - 1]]
    BY <2>4, <2>6
  <2> QED
    BY <1>6, <2>2, <2>3, <2>7
<1>8. CASE changes /\ Changed(u, b, cap)
  <2>1. PICK q \in Nat : VectorAt(u, b, q, cap)
    BY <1>8 DEF Changed
  <2>2. promised' = elements_in(u.m.cells, u.start, minus(u.finish, u.start))
    BY <1>8 DEF done, Changed
  <2>3. u.start = << b, 0 >> /\ minus(u.finish, u.start) = q
    BY <2>1 DEF VectorAt, minus
  <2>4. promised' = [k \in 1..q |-> u.m.cells[b][0 + k - 1]]
    BY <2>2, <2>3 DEF elements_in
  <2> QED
    BY <1>6, <2>1, <2>4
<1>9. CASE ~changes /\ Back(u, v, b, n, cap)
  <2>1. VectorAt(u, b, n, cap) /\ u.m.thrown /\ \A k \in 0..(n - 1) : u.m.cells[b][k] = cells[b][k]
    BY <1>3, <1>9 DEF Back
  <2>2. promised' = promised
    BY <1>9, <2>1 DEF done
  <2>3. ASSUME NEW k \in 1..n
        PROVE  u.m.cells[b][0 + k - 1] = cells[b][0 + k - 1]
    <3>1. 0 + k - 1 \in 0..(n - 1)
      BY <1>3
    <3> QED
      BY <2>1, <3>1
  <2>4. promised' = [k \in 1..n |-> u.m.cells[b][0 + k - 1]]
    BY <1>4, <2>2, <2>3
  <2> QED
    BY <1>6, <2>1, <2>4
<1> QED
  BY <1>5, <1>7, <1>8, <1>9 DEF Outcome

-----------------------------------------------------------------------------
\* Two sequences, one after the other
Chain(c, s, n, t, p) ==
    /\ c \in Seq(Value) /\ Len(c) = n + p
    /\ \A k \in 1..n : c[k] = s[k]
    /\ \A k \in 1..p : c[n + k] = t[k]

LEMMA ConcatIs ==
    ASSUME NEW s \in Seq(Value), NEW t \in Seq(Value), NEW n \in Nat, NEW p \in Nat, Len(s) = n, Len(t) = p,
           NEW c, c = s \o t
    PROVE  Chain(c, s, n, t, p)
<1>1. /\ c \in Seq(Value) /\ Len(c) = n + p
      /\ \A k \in 1..(n + p) : c[k] = IF k <= n THEN s[k] ELSE t[k - n]
  BY ConcatProperties
<1>2. ASSUME NEW k \in 1..p
      PROVE  c[n + k] = t[k]
  <2>1. PICK x \in 1..(n + p) : x = n + k
    OBVIOUS
  <2>2. ~(x <= n) /\ x - n = k
    BY <2>1
  <2> QED
    BY <1>1, <2>1, <2>2
<1>3. ASSUME NEW k \in 1..n
      PROVE  c[k] = s[k]
  <2>1. k \in 1..(n + p) /\ k <= n
    OBVIOUS
  <2> QED
    BY <1>1, <2>1
<1> QED
  BY <1>1, <1>2, <1>3 DEF Chain

LEMMA PartSeq ==
    ASSUME NEW items \in Seq(Value), NEW off \in Nat, NEW len \in Nat, off + len <= Len(items),
           NEW s, s = SubSeq(items, off + 1, off + len)
    PROVE  s \in Seq(Value) /\ Part(s, items, off, len)
<1>1. PICK f \in Int, l \in Int : f = off + 1 /\ l = off + len
  OBVIOUS
<1>2. Len(items) \in Nat /\ \A k \in 1..Len(items) : items[k] \in Value
  OBVIOUS
<1>3. \A k \in f..l : items[k] \in Value
  BY <1>1, <1>2
<1>4. SubSeq(items, f, l) \in Seq(Value)
  BY ONLY <1>3, f \in Int, l \in Int, SubSeqProperties
<1>5. Part(s, items, off, len)
  BY PartIs
<1> QED
  BY <1>1, <1>4, <1>5

\* The elements in front of i, t, and the elements from j on
LEMMA JoinIs ==
    ASSUME VectorInvariant, NEW i \in Nat, NEW j \in Nat, i <= j, j <= size, NEW p \in Nat, NEW items,
           NEW t \in Seq(Value), Len(t) = p, \A k \in 1..p : t[k] = value(items[k]),
           NEW g, g = SubSeq(promised, 1, i) \o t \o SubSeq(promised, j + 1, Len(promised))
    PROVE  Promised(g, size, i, j, p, items)
<1>1. PICK n \in Nat : n = size
  BY 0 \in Nat, OperandIs
<1>2. PICK s \in Seq(Value) : s = promised /\ Len(s) = n
  BY <1>1, WantIs
<1>3. PICK d \in Nat : d = n - j
  <2>1. n - j \in Nat
    BY <1>1
  <2> QED
    BY <2>1
<1>4. PICK a : a = SubSeq(s, 1, i)
  OBVIOUS
<1>5. PICK z : z = SubSeq(s, j + 1, n)
  OBVIOUS
<1>6. PICK c : c = a \o t
  OBVIOUS
<1>7. g = c \o z
  BY <1>1, <1>2, <1>4, <1>5, <1>6
<1>8. a \in Seq(Value) /\ Part(a, s, 0, i)
  <2>1. 0 \in Nat /\ 0 + i <= Len(s) /\ a = SubSeq(s, 0 + 1, 0 + i)
    BY <1>1, <1>2, <1>4
  <2> QED
    BY <2>1, PartSeq
<1>9. z \in Seq(Value) /\ Part(z, s, j, d)
  <2>1. j + d <= Len(s) /\ z = SubSeq(s, j + 1, j + d)
    BY <1>1, <1>2, <1>3, <1>5
  <2> QED
    BY <2>1, PartSeq
<1>10. PICK q \in Nat : q = i + p
  OBVIOUS
<1>11. /\ c \in Seq(Value) /\ Len(c) = q
       /\ \A k \in 1..i : c[k] = a[k]
       /\ \A k \in 1..p : c[i + k] = t[k]
  <2>1. Len(a) = i
    BY <1>8 DEF Part
  <2>2. Chain(c, a, i, t, p)
    BY <1>6, <1>8, <2>1, ConcatIs
  <2> QED
    BY <1>10, <2>2 DEF Chain
<1>12. /\ g \in Seq(Value) /\ Len(g) = q + d
       /\ \A k \in 1..q : g[k] = c[k]
       /\ \A k \in 1..d : g[q + k] = z[k]
  <2>1. Len(z) = d
    BY <1>9 DEF Part
  <2>2. Chain(g, c, q, z, d)
    BY <1>7, <1>9, <1>11, <2>1, ConcatIs
  <2> QED
    BY <2>2 DEF Chain
<1>13. g = [k \in 1..(i + p + (n - j)) |-> g[k]]
  <2>1. q + d = i + p + (n - j)
    BY <1>3, <1>10
  <2>2. g \in [1..(q + d) -> Value]
    BY <1>12, LenProperties
  <2>3. DOMAIN g = 1..(q + d) /\ g = [k \in DOMAIN g |-> g[k]]
    BY <2>2
  <2> QED
    BY <2>1, <2>3
<1>14. ASSUME NEW k \in 1..i
       PROVE  g[k] = promised[k]
  <2>1. k \in 1..q /\ 0 + k = k
    BY <1>10
  <2>2. g[k] = c[k] /\ c[k] = a[k]
    BY <1>11, <1>12, <2>1
  <2>3. a[k] = s[k]
    BY <1>8, <2>1 DEF Part
  <2> QED
    BY <1>2, <2>2, <2>3
<1>15. ASSUME NEW k \in 1..p
       PROVE  g[i + k] = value(items[k])
  <2>1. i + k \in 1..q
    BY <1>10
  <2>2. g[i + k] = c[i + k]
    BY <1>12, <2>1
  <2> QED
    BY <1>11, <2>2
<1>16. ASSUME NEW k \in 1..(n - j)
       PROVE  g[i + p + k] = promised[j + k]
  <2>1. k \in 1..d /\ q + k = i + p + k
    BY <1>3, <1>10
  <2>2. g[q + k] = z[k]
    BY <1>12, <2>1
  <2> QED
    BY <1>2, <1>9, <2>1, <2>2 DEF Part
<1>17. Promised(g, n, i, j, p, items)
  BY <1>13, <1>14, <1>15, <1>16 DEF Promised
<1> QED
  BY <1>1, <1>17

-----------------------------------------------------------------------------
LEMMA PositionIs ==
    ASSUME VectorInvariant, NEW p \in position
    PROVE  \E i \in Nat : i <= size /\ p = << start[1], i >> /\ index(p) = i
<1>1. start = << start[1], 0 >> /\ size \in Nat
  BY 0 \in Nat, OperandIs
<1>2. PICK i \in 0..size : p = at(i)
  BY DEF position
<1>3. i \in Nat /\ i <= size
  BY <1>1
<1>4. start[2] = 0
  BY <1>1
<1>5. at(i) = << start[1], i >>
  BY <1>3, <1>4 DEF at, plus
<1>6. index(p) = i
  BY <1>2, <1>3, <1>4, <1>5 DEF index, minus
<1> QED
  BY <1>2, <1>3, <1>5, <1>6

\* A reference reads an element, with any fuel the same.
LEMMA ReferenceIs ==
    ASSUME VectorInvariant, NEW fuel \in Nat, NEW r \in Reference
    PROVE  Reads(operand(fuel).m, r) /\ value(r) \in Value
<1>1. PICK b, n, cap : b = start[1] /\ n = size /\ cap = capacity
  OBVIOUS
<1>2. /\ VectorAt(operand(fuel), b, n, cap) /\ n \in Nat /\ b \in {0} \cup Block /\ start = << b, 0 >>
      /\ operand(fuel).m.cells = cells
  BY <1>1, OperandIs
<1>3. PICK m : m = operand(fuel).m
  OBVIOUS
<1>4. value(r) = read(m, r)
  <2>1. operand(0).m.cells = cells
    BY DEF operand
  <2> QED
    BY <1>2, <1>3, <2>1 DEF value, read, content_of, in_block
<1>5. CASE r \in Value
  BY <1>3, <1>4, <1>5 DEF Reads, read
<1>6. CASE r \notin Value
  <2>1. PICK k \in 0..(n - 1) : r = at(k)
    BY <1>1, <1>6 DEF Reference
  <2>2. k \in Int /\ r = << b, k >>
    BY <1>2, <2>1 DEF at, plus
  <2>3. Holds(m, b, n, cap)
    BY <1>2, <1>3 DEF VectorAt
  <2>4. k \in DOMAIN m.cells[b] /\ m.cells[b][k] \in Value
    BY <1>2, <2>1, <2>3 DEF Holds
  <2>5. read(m, << b, k >>) \in Value
    BY <1>2, <2>2, <2>4, ReadIs
  <2>6. << b, k >> \in Pointer
    BY <1>2, <2>2 DEF Pointer
  <2> QED
    BY <1>3, <1>4, <2>2, <2>5, <2>6 DEF Reads
<1> QED
  BY <1>5, <1>6

LEMMA InPlaceIs ==
    ASSUME VectorInvariant, NEW k \in Int
    PROVE  in_place(k) <=> (size + k <= capacity)
<1>1. PICK b, n, cap : b = start[1] /\ n = size /\ cap = capacity
  OBVIOUS
<1>2. n \in Nat /\ cap \in Nat /\ finish = << b, n >> /\ end_of_storage = << b, cap >>
  BY <1>1, 0 \in Nat, OperandIs
<1>3. minus(operand(0).end_of_storage, operand(0).finish) = cap - n
  BY <1>2 DEF operand, minus
<1> QED
  BY <1>1, <1>2, <1>3 DEF in_place, has_room

LEMMA DoneIs ==
    ASSUME NEW u, NEW g, NEW x, NEW changes \in BOOLEAN, changes <=> x, done(u, g, x)
    PROVE  done(u, g, changes)
  BY DEF done

LEMMA ValuesAre ==
    ASSUME NEW S, NEW items \in Seq(S), NEW p, p = Len(items), \A k \in 1..p : value(items[k]) \in Value
    PROVE  /\ values(items) \in Seq(Value) /\ Len(values(items)) = p
           /\ \A k \in 1..p : values(items)[k] = value(items[k])
<1>1. p \in Nat /\ DOMAIN items = 1..p
  OBVIOUS
<1>2. values(items) = [k \in 1..p |-> value(items[k])]
  BY <1>1 DEF values
<1>3. values(items) \in [1..p -> Value]
  BY <1>2
<1> QED
  BY <1>1, <1>2, <1>3

\* What an insertion is to leave
LEMMA InsertedIs ==
    ASSUME VectorInvariant, NEW i \in Nat, i <= size, NEW S, NEW items \in Seq(S), NEW p, p = Len(items),
           \A k \in 1..p : value(items[k]) \in Value,
           NEW at_i, index(at_i) = i, NEW g, g = inserted(at_i, items)
    PROVE  Promised(g, size, i, i, p, items)
<1>1. PICK t : t = values(items)
  OBVIOUS
<1>2. p \in Nat /\ t \in Seq(Value) /\ Len(t) = p /\ \A k \in 1..p : t[k] = value(items[k])
  BY <1>1, ValuesAre
<1>3. g = SubSeq(promised, 1, i) \o t \o SubSeq(promised, i + 1, Len(promised))
  BY <1>1 DEF inserted
<1>4. i <= i
  OBVIOUS
<1> QED
  BY <1>2, <1>3, <1>4, JoinIs

\* The elements of a call's own array
LEMMA ItemsAre ==
    ASSUME NEW items \in Items
    PROVE  items \in Seq(Value) /\ \A k \in 1..Len(items) : value(items[k]) \in Value
<1>1. PICK n \in 0..MaxItems : items \in [1..n -> Value]
  BY DEF Items
<1>2. items \in Seq(Value)
  BY <1>1
<1>3. ASSUME NEW k \in 1..Len(items)
      PROVE  value(items[k]) \in Value
  BY <1>2 DEF value, read
<1> QED
  BY <1>2, <1>3

LEMMA RepeatedReads ==
    ASSUME NEW r, NEW p \in Nat, value(r) \in Value, NEW items, items = repeated(p, r)
    PROVE  items \in Seq({r}) /\ Len(items) = p /\ \A k \in 1..p : items[k] = r /\ value(items[k]) \in Value
<1>1. items = [k \in 1..p |-> r]
  BY DEF repeated
<1> QED
  BY <1>1

-----------------------------------------------------------------------------
\* One lemma for each call: it keeps the invariant.
LEMMA PopBackStep ==
    ASSUME VectorInvariant, pop_back
    PROVE  VectorInvariant'
<1>1. PICK b, n, cap : b = start[1] /\ n = size /\ cap = capacity
  OBVIOUS
<1>2. PICK v : v = operand(0)
  OBVIOUS
<1>3. /\ VectorAt(v, b, n, cap) /\ v.m.thrown = FALSE /\ n \in Nat /\ cap \in Nat
      /\ finish = << b, n >> /\ n > 0
  BY <1>1, <1>2, 0 \in Nat, OperandIs DEF pop_back
<1>4. PICK q \in Nat : q = n - 1
  <2>1. n - 1 \in Nat
    BY <1>3
  <2> QED
    BY <2>1
<1>5. PICK u : u = [v EXCEPT !.m = destroy(v.m, << b, q >>, << b, n >>), !.finish = << b, q >>]
  OBVIOUS
<1>6. PICK g : g = SubSeq(promised, 1, n - 1)
  OBVIOUS
<1>7. done(u, g, FALSE)
  <2>1. plus(finish, -1) = << b, q >>
    BY <1>3, <1>4 DEF plus
  <2> QED
    BY <1>1, <1>2, <1>3, <1>5, <1>6, <2>1 DEF pop_back
<1>8. Moved(u, v, b, n, q, n, 0, << >>)
  BY <1>3, <1>4, <1>5, PopBackIs
<1>9. Promised(g, size, q, n, 0, << >>)
  <2>1. PICK s \in Seq(Value) : s = promised /\ Len(s) = n
    BY <1>1, WantIs
  <2>2. PICK a : a = SubSeq(s, 1, q)
    OBVIOUS
  <2>3. a \in Seq(Value)
    <3>1. 0 \in Nat /\ 0 + q <= Len(s) /\ a = SubSeq(s, 0 + 1, 0 + q)
      BY <1>3, <1>4, <2>1, <2>2
    <3> QED
      BY <2>1, <3>1, PartSeq
  <2>4. SubSeq(s, n + 1, n) = << >>
    BY <1>3, <2>1
  <2>5. a \o << >> \o << >> = a
    BY <2>3
  <2>6. g = SubSeq(promised, 1, q) \o << >> \o SubSeq(promised, n + 1, Len(promised))
    BY <1>4, <1>6, <2>1, <2>2, <2>4, <2>5
  <2>7. /\ << >> \in Seq(Value) /\ Len(<< >>) = 0 /\ 0 \in Nat /\ q <= n /\ n <= size
        /\ \A k \in 1..0 : << >>[k] = value(<< >>[k])
    BY <1>1, <1>3, <1>4
  <2> QED
    BY <1>3, <2>6, <2>7, JoinIs
<1>10. Outcome(u, v, b, n, cap, q, n, 0, << >>, FALSE)
  BY <1>8 DEF Outcome
<1>11. q <= n /\ n <= size /\ 0 \in Nat /\ FALSE \in BOOLEAN
  BY <1>1, <1>3, <1>4
<1> QED
  BY <1>1, <1>2, <1>3, <1>7, <1>9, <1>10, <1>11, DoneKeeps

LEMMA DestructStep ==
    ASSUME VectorInvariant, destruct
    PROVE  VectorInvariant'
<1>1. PICK b, n, cap : b = start[1] /\ n = size /\ cap = capacity
  OBVIOUS
<1>2. PICK v : v = operand(0)
  OBVIOUS
<1>3. VectorAt(v, b, n, cap) /\ v.m.thrown = FALSE /\ n \in Nat /\ cap \in Nat
  BY <1>1, <1>2, 0 \in Nat, OperandIs
<1>4. PICK u : u = replace(v, v.m, null, 0, 0)
  OBVIOUS
<1>5. PICK g : g = << >>
  OBVIOUS
<1>6. done(u, g, FALSE)
  BY <1>2, <1>4, <1>5 DEF destruct
<1>7. Moved(u, v, b, n, 0, n, 0, << >>)
  BY <1>3, <1>4, DestructIs
<1>8. Promised(g, n, 0, n, 0, << >>)
  <2>1. /\ 0 + 0 + (n - n) = 0 /\ 1..0 = {} /\ n - n = 0
    BY <1>3
  <2>2. g = [k \in 1..0 |-> g[k]]
    BY <1>5
  <2> QED
    BY <2>1, <2>2 DEF Promised
<1>9. Outcome(u, v, b, n, cap, 0, n, 0, << >>, FALSE)
  BY <1>7 DEF Outcome
<1>10. 0 <= n /\ n <= size /\ 0 \in Nat /\ FALSE \in BOOLEAN
  BY <1>1, <1>3
<1> QED
  BY <1>1, <1>2, <1>3, <1>6, <1>8, <1>9, <1>10, DoneKeeps

LEMMA EraseStep ==
    ASSUME VectorInvariant, NEW fuel \in Nat, NEW first \in position, NEW last \in position,
           erase_values(first, last, fuel)
    PROVE  VectorInvariant'
<1>1. PICK b, n, cap : b = start[1] /\ n = size /\ cap = capacity
  OBVIOUS
<1>2. PICK v : v = operand(fuel)
  OBVIOUS
<1>3. VectorAt(v, b, n, cap) /\ v.m.thrown = FALSE /\ n \in Nat /\ cap \in Nat
  BY <1>1, <1>2, OperandIs
<1>4. PICK i \in Nat : i <= n /\ first = << b, i >> /\ index(first) = i
  BY <1>1, PositionIs
<1>5. PICK j \in Nat : j <= n /\ last = << b, j >> /\ index(last) = j
  BY <1>1, PositionIs
<1>6. PICK u : u = erase_range(v, << b, i >>, << b, j >>)
  OBVIOUS
<1>7. PICK g : g = SubSeq(promised, 1, i) \o SubSeq(promised, j + 1, Len(promised))
  OBVIOUS
<1>8. done(u, g, TRUE) /\ i <= j
  BY <1>2, <1>4, <1>5, <1>6, <1>7 DEF erase_values
<1>9. Moved(u, v, b, n, i, j, 0, << >>) \/ Changed(u, b, cap)
  BY <1>3, <1>5, <1>6, <1>8, EraseIs
<1>10. Outcome(u, v, b, n, cap, i, j, 0, << >>, TRUE)
  BY <1>9 DEF Outcome
<1>11. Promised(g, size, i, j, 0, << >>)
  <2>1. PICK s \in Seq(Value) : s = promised /\ Len(s) = n
    BY <1>1, WantIs
  <2>2. PICK a : a = SubSeq(s, 1, i)
    OBVIOUS
  <2>3. a \in Seq(Value)
    <3>1. 0 \in Nat /\ 0 + i <= Len(s) /\ a = SubSeq(s, 0 + 1, 0 + i)
      BY <1>4, <2>1, <2>2
    <3> QED
      BY <2>1, <3>1, PartSeq
  <2>4. a \o << >> = a
    BY <2>3
  <2>5. g = SubSeq(promised, 1, i) \o << >> \o SubSeq(promised, j + 1, Len(promised))
    BY <1>7, <2>1, <2>2, <2>4
  <2>6. /\ << >> \in Seq(Value) /\ Len(<< >>) = 0 /\ 0 \in Nat /\ j <= size
        /\ \A k \in 1..0 : << >>[k] = value(<< >>[k])
    BY <1>1, <1>5
  <2> QED
    BY <1>8, <2>5, <2>6, JoinIs
<1>12. j <= size /\ 0 \in Nat /\ TRUE \in BOOLEAN
  BY <1>1, <1>5
<1> QED
  BY <1>1, <1>2, <1>8, <1>10, <1>11, <1>12, DoneKeeps

LEMMA InsertStep ==
    ASSUME VectorInvariant, NEW fuel \in Nat, NEW p \in position, NEW r \in Reference, insert_value(p, r, fuel)
    PROVE  VectorInvariant'
<1>1. PICK b, n, cap : b = start[1] /\ n = size /\ cap = capacity
  OBVIOUS
<1>2. PICK v : v = operand(fuel)
  OBVIOUS
<1>3. /\ VectorAt(v, b, n, cap) /\ v.m.thrown = FALSE /\ n \in Nat /\ cap \in Nat /\ n <= cap
      /\ finish = << b, n >>
  BY <1>1, <1>2, OperandIs
<1>4. PICK i \in Nat : i <= n /\ p = << b, i >> /\ index(p) = i
  BY <1>1, PositionIs
<1>5. Reads(v.m, r) /\ value(r) \in Value
  BY <1>2, ReferenceIs
<1>6. PICK u : u = insert_one(v, << b, i >>, r)
  OBVIOUS
<1>7. PICK items : items = << r >>
  OBVIOUS
<1>8. items \in Seq({r}) /\ 1 = Len(items) /\ \A k \in 1..1 : value(items[k]) \in Value
  BY <1>5, <1>7
<1>9. PICK g : g = inserted(p, items)
  OBVIOUS
<1>10. PICK changes \in BOOLEAN : changes <=> (n < cap /\ i < n)
  <2>1. (n < cap /\ i < n) \in BOOLEAN
    OBVIOUS
  <2> QED
    BY <2>1
<1>11. changes <=> (in_place(1) /\ p # finish)
  <2>1. in_place(1) <=> (n + 1 <= cap)
    BY <1>1, 1 \in Int, InPlaceIs
  <2>2. p # finish <=> i # n
    BY <1>3, <1>4
  <2> QED
    BY <1>3, <1>4, <1>10, <2>1, <2>2
<1>12. done(u, g, changes)
  <2>1. done(u, g, in_place(1) /\ p # finish)
    BY <1>2, <1>4, <1>6, <1>7, <1>9 DEF insert_value
  <2> QED
    BY <1>11, <2>1, DoneIs
<1>13. Outcome(u, v, b, n, cap, i, i, 1, items, changes)
  BY <1>1, <1>3, <1>4, <1>5, <1>6, <1>7, <1>10, InsertOneIs
<1>14. Promised(g, size, i, i, 1, items)
  BY <1>1, <1>4, <1>8, <1>9, InsertedIs
<1>15. i <= i /\ i <= size /\ 1 \in Nat
  BY <1>1, <1>4
<1> QED
  BY <1>1, <1>2, <1>12, <1>13, <1>14, <1>15, DoneKeeps

LEMMA InsertNStep ==
    ASSUME VectorInvariant, NEW fuel \in Nat, NEW p \in position, NEW c \in Nat, NEW r \in Reference,
           insert_n(p, c, r, fuel)
    PROVE  VectorInvariant'
<1>1. PICK b \in {0} \cup Block, n \in Nat, cap \in Nat : b = start[1] /\ n = size /\ cap = capacity
  BY 0 \in Nat, OperandIs
<1>2. PICK v : v = operand(fuel)
  OBVIOUS
<1>3. VectorAt(v, b, n, cap) /\ v.m.thrown = FALSE /\ n \in Nat /\ cap \in Nat
  BY <1>1, <1>2, OperandIs
<1>4. PICK i \in Nat : i <= n /\ p = << b, i >> /\ index(p) = i
  BY <1>1, PositionIs
<1>5. Reads(v.m, r) /\ value(r) \in Value
  BY <1>2, ReferenceIs
<1>6. PICK u : u = fill_insert(v, << b, i >>, c, r)
  OBVIOUS
<1>7. PICK items : items = repeated(c, r)
  OBVIOUS
<1>8. items \in Seq({r}) /\ c = Len(items) /\ \A k \in 1..c : value(items[k]) \in Value
  BY <1>5, <1>7, RepeatedReads
<1>9. PICK g : g = inserted(p, items)
  OBVIOUS
<1>10. PICK changes \in BOOLEAN : Fits(changes, n, c, cap)
  <2>1. (n + c <= cap) \in BOOLEAN
    OBVIOUS
  <2> QED
    BY <2>1 DEF Fits
<1>11. done(u, g, changes)
  <2>1. changes <=> in_place(c)
    BY <1>1, <1>10, InPlaceIs DEF Fits
  <2>2. done(u, g, in_place(c))
    BY <1>2, <1>4, <1>6, <1>7, <1>9 DEF insert_n
  <2> QED
    BY <2>1, <2>2, DoneIs
<1>12. Outcome(u, v, b, n, cap, i, i, c, items, changes)
  <2>1. size = n
    BY <1>1
  <2>2. i <= n
    BY <1>4
  <2>3. Reads(v.m, r)
    BY <1>5
  <2>4. VectorAt(v, b, n, cap)
    BY <1>3
  <2>5. v.m.thrown = FALSE
    BY <1>3
  <2>6. items = repeated(c, r)
    BY <1>7
  <2>7. u = fill_insert(v, << b, i >>, c, r)
    BY <1>6
  <2>8. Fits(changes, n, c, cap)
    BY <1>10
  <2> QED
    BY <2>1, <2>2, <2>3, <2>4, <2>5, <2>6, <2>7, <2>8, FillInsertIs
<1>13. Promised(g, size, i, i, c, items)
  BY <1>1, <1>4, <1>8, <1>9, InsertedIs
<1>14. i <= i /\ i <= size
  BY <1>1, <1>4
<1> QED
  BY <1>1, <1>2, <1>11, <1>12, <1>13, <1>14, DoneKeeps

\* The insertion u of the elements s into v
RangeCall(v, b, n, cap, i, s, c, u, changes) ==
    /\ n \in Nat /\ cap \in Nat /\ VectorAt(v, b, n, cap) /\ v.m.thrown = FALSE
    /\ size = n /\ i \in Nat /\ i <= n /\ s \in Seq(Value) /\ c \in Nat /\ c = Len(s)
    /\ u = range_insert(v, << b, i >>, s) /\ changes \in BOOLEAN /\ Fits(changes, n, c, cap)

LEMMA RangeCallIs ==
    ASSUME NEW v, NEW b, NEW n, NEW cap, NEW i, NEW s, NEW c, NEW u, NEW changes,
           RangeCall(v, b, n, cap, i, s, c, u, changes)
    PROVE  Outcome(u, v, b, n, cap, i, i, c, s, changes)
<1>1. /\ n \in Nat /\ cap \in Nat /\ VectorAt(v, b, n, cap) /\ v.m.thrown = FALSE
      /\ size = n /\ i \in Nat /\ i <= n /\ s \in Seq(Value) /\ c \in Nat /\ c = Len(s)
      /\ u = range_insert(v, << b, i >>, s) /\ changes \in BOOLEAN /\ Fits(changes, n, c, cap)
  BY DEF RangeCall
<1> QED
  BY <1>1, RangeInsertIs, ZenonT(60)

LEMMA InsertRangeStep ==
    ASSUME VectorInvariant, NEW fuel \in Nat, NEW p \in position, NEW items \in Items,
           insert_range(p, items, fuel)
    PROVE  VectorInvariant'
<1>1. PICK b \in {0} \cup Block, n \in Nat, cap \in Nat : b = start[1] /\ n = size /\ cap = capacity
  BY 0 \in Nat, OperandIs
<1>2. PICK v : v = operand(fuel)
  OBVIOUS
<1>3. VectorAt(v, b, n, cap) /\ v.m.thrown = FALSE /\ n \in Nat /\ cap \in Nat
  BY <1>1, <1>2, OperandIs
<1>4. PICK i \in Nat : i <= n /\ p = << b, i >> /\ index(p) = i
  BY <1>1, PositionIs
<1>5. PICK s \in Seq(Value) : s = items /\ \A k \in 1..Len(s) : value(s[k]) \in Value
  BY ItemsAre
<1>6. PICK c \in Nat : c = Len(s)
  OBVIOUS
<1>7. PICK u : u = range_insert(v, << b, i >>, s)
  OBVIOUS
<1>8. PICK g : g = inserted(p, s)
  OBVIOUS
<1>9. PICK changes \in BOOLEAN : Fits(changes, n, c, cap)
  <2>1. (n + c <= cap) \in BOOLEAN
    OBVIOUS
  <2> QED
    BY <2>1 DEF Fits
<1>10. done(u, g, changes)
  <2>1. changes <=> in_place(c)
    BY <1>1, <1>9, InPlaceIs DEF Fits
  <2>2. done(u, g, in_place(c))
    BY <1>2, <1>4, <1>5, <1>6, <1>7, <1>8 DEF insert_range
  <2> QED
    BY <2>1, <2>2, DoneIs
<1>11. Outcome(u, v, b, n, cap, i, i, c, s, changes)
  <2>1. RangeCall(v, b, n, cap, i, s, c, u, changes)
    BY <1>1, <1>3, <1>4, <1>6, <1>7, <1>9 DEF RangeCall
  <2> QED
    BY <2>1, RangeCallIs
<1>12. Promised(g, size, i, i, c, s)
  BY <1>1, <1>4, <1>5, <1>6, <1>8, InsertedIs
<1>13. i <= i /\ i <= size
  BY <1>1, <1>4
<1> QED
  BY <1>1, <1>2, <1>10, <1>11, <1>12, <1>13, DoneKeeps

LEMMA ResizeStep ==
    ASSUME VectorInvariant, NEW fuel \in Nat, NEW c \in Nat, NEW r \in Reference, resize(c, r, fuel)
    PROVE  VectorInvariant'
<1>1. PICK b \in {0} \cup Block, n \in Nat, cap \in Nat : b = start[1] /\ n = size /\ cap = capacity
  BY 0 \in Nat, OperandIs
<1>2. PICK v : v = operand(fuel)
  OBVIOUS
<1>3. /\ VectorAt(v, b, n, cap) /\ v.m.thrown = FALSE /\ n \in Nat /\ cap \in Nat /\ n <= cap
      /\ start = << b, 0 >> /\ finish = << b, n >>
  BY <1>1, <1>2, OperandIs
<1>4. in_place(c - n) <=> (n + (c - n) <= cap)
  <2>1. PICK d \in Int : d = c - n
    BY <1>3
  <2> QED
    BY <1>1, <2>1, InPlaceIs
<1>5. CASE c < n
  <2>1. PICK u : u = erase_range(v, << b, c >>, << b, n >>)
    OBVIOUS
  <2>2. PICK g : g = SubSeq(promised, 1, c)
    OBVIOUS
  <2>3. done(u, g, TRUE)
    <3>1. at(c) = << b, c >>
      BY <1>3 DEF at, plus
    <3>2. done(u, g, in_place(c - n))
      BY <1>1, <1>2, <1>3, <1>5, <2>1, <2>2, <3>1 DEF resize
    <3>3. TRUE <=> in_place(c - n)
      BY <1>3, <1>4, <1>5
    <3> QED
      BY <3>2, <3>3, TRUE \in BOOLEAN, DoneIs
  <2>4. Outcome(u, v, b, n, cap, c, n, 0, << >>, TRUE)
    <3>1. c <= n /\ n <= n
      BY <1>3, <1>5
    <3>2. Moved(u, v, b, n, c, n, 0, << >>) \/ Changed(u, b, cap)
      BY <1>3, <2>1, <3>1, EraseIs
    <3> QED
      BY <3>2 DEF Outcome
  <2>5. Promised(g, size, c, n, 0, << >>)
    <3>1. PICK s \in Seq(Value) : s = promised /\ Len(s) = n
      BY <1>1, WantIs
    <3>2. PICK a : a = SubSeq(s, 1, c)
      OBVIOUS
    <3>3. a \in Seq(Value)
      <4>1. 0 \in Nat /\ 0 + c <= Len(s) /\ a = SubSeq(s, 0 + 1, 0 + c)
        BY <1>3, <1>5, <3>1, <3>2
      <4> QED
        BY <3>1, <4>1, PartSeq
    <3>4. SubSeq(s, n + 1, n) = << >>
      BY <1>3, <3>1
    <3>5. a \o << >> \o << >> = a
      BY <3>3
    <3>6. g = SubSeq(promised, 1, c) \o << >> \o SubSeq(promised, n + 1, Len(promised))
      BY <2>2, <3>1, <3>2, <3>4, <3>5
    <3>7. /\ << >> \in Seq(Value) /\ Len(<< >>) = 0 /\ 0 \in Nat /\ c <= n /\ n <= size
          /\ \A k \in 1..0 : << >>[k] = value(<< >>[k])
      BY <1>1, <1>3, <1>5
    <3> QED
      BY <1>3, <3>6, <3>7, JoinIs
  <2>6. c <= n /\ n <= size /\ 0 \in Nat
    BY <1>1, <1>3, <1>5
  <2> QED
    BY <1>1, <1>2, <1>3, <2>3, <2>4, <2>5, <2>6, TRUE \in BOOLEAN, DoneKeeps
<1>6. CASE ~(c < n)
  <2>1. PICK d \in Nat : d = c - n
    <3>1. c - n \in Nat
      BY <1>3, <1>6
    <3> QED
      BY <3>1
  <2>2. Reads(v.m, r) /\ value(r) \in Value
    BY <1>2, ReferenceIs
  <2>3. PICK u : u = fill_insert(v, << b, n >>, d, r)
    OBVIOUS
  <2>4. PICK items : items = repeated(d, r)
    OBVIOUS
  <2>5. items \in Seq({r}) /\ d = Len(items) /\ \A k \in 1..d : value(items[k]) \in Value
    BY <2>2, <2>4, RepeatedReads
  <2>6. PICK g : g = inserted(finish, items)
    OBVIOUS
  <2>7. PICK changes \in BOOLEAN : Fits(changes, n, d, cap)
    <3>1. (n + d <= cap) \in BOOLEAN
      OBVIOUS
    <3> QED
      BY <3>1 DEF Fits
  <2>8. done(u, g, changes)
    <3>1. changes <=> in_place(d)
      BY <1>4, <2>1, <2>7 DEF Fits
    <3>2. done(u, g, in_place(d))
      BY <1>1, <1>2, <1>3, <1>6, <2>1, <2>3, <2>4, <2>6 DEF resize
    <3> QED
      BY <3>1, <3>2, DoneIs
  <2>9. n <= n /\ n <= size /\ index(finish) = n
    BY <1>1, <1>3 DEF index, minus
  <2>10. Outcome(u, v, b, n, cap, n, n, d, items, changes)
    <3>1. size = n
      BY <1>1
    <3>2. n <= n
      BY <2>9
    <3>3. Reads(v.m, r)
      BY <2>2
    <3>4. VectorAt(v, b, n, cap)
      BY <1>3
    <3>5. v.m.thrown = FALSE
      BY <1>3
    <3>6. items = repeated(d, r)
      BY <2>4
    <3>7. u = fill_insert(v, << b, n >>, d, r)
      BY <2>3
    <3>8. Fits(changes, n, d, cap)
      BY <2>7
    <3> QED
      BY <1>3, <3>1, <3>2, <3>3, <3>4, <3>5, <3>6, <3>7, <3>8, FillCallIs DEF FillCall
  <2>11. Promised(g, size, n, n, d, items)
    BY <1>3, <2>5, <2>6, <2>9, InsertedIs
  <2> QED
    BY <1>1, <1>2, <1>3, <2>8, <2>9, <2>10, <2>11, DoneKeeps
<1> QED
  BY <1>5, <1>6

LEMMA ReserveStep ==
    ASSUME VectorInvariant, NEW fuel \in Nat, NEW c \in Nat, reserve(c, fuel)
    PROVE  VectorInvariant'
<1>1. PICK b \in {0} \cup Block, n \in Nat, cap \in Nat : b = start[1] /\ n = size /\ cap = capacity
  BY 0 \in Nat, OperandIs
<1>2. PICK v : v = operand(fuel)
  OBVIOUS
<1>3. VectorAt(v, b, n, cap) /\ v.m.thrown = FALSE /\ n <= cap /\ start = << b, 0 >> /\ v.m.cells = cells
  BY <1>1, <1>2, OperandIs
<1>4. c # 0 /\ n <= c
  BY <1>1, <1>3 DEF reserve
<1>5. PICK items : items = own_items
  OBVIOUS
<1>6. PICK u : u = rebuild(v, items, c)
  OBVIOUS
<1>7. PICK g : g = promised
  OBVIOUS
<1>8. done(u, g, FALSE)
  BY <1>2, <1>5, <1>6, <1>7 DEF reserve
<1>9. n = Len(items) /\ \A k \in 1..n : items[k] = << b, k - 1 >>
  <2>1. items = [k \in 1..n |-> at(k - 1)]
    BY <1>1, <1>5 DEF own_items
  <2>2. ASSUME NEW k \in 1..n
        PROVE  at(k - 1) = << b, k - 1 >>
    <3>1. start[1] = b /\ start[2] = 0 /\ 0 + (k - 1) = k - 1
      BY <1>3
    <3> QED
      BY <3>1 DEF at, plus
  <2> QED
    BY <2>1, <2>2
<1>10. ASSUME NEW k \in 1..n
       PROVE  /\ items[k] \in Pointer
              /\ read(v.m, items[k]) = cells[b][k - 1] /\ value(items[k]) = cells[b][k - 1]
              /\ cells[b][k - 1] \in Value
  <2>1. PICK x \in 0..(n - 1) : x = k - 1
    OBVIOUS
  <2>2. items[k] = << b, x >> /\ x \in Int
    BY <1>9, <2>1
  <2>3. Holds(v.m, b, n, cap)
    BY <1>3 DEF VectorAt
  <2>4. x \in DOMAIN v.m.cells[b] /\ v.m.cells[b][x] \in Value
    BY <1>3, <2>3 DEF Holds
  <2>5. read(v.m, << b, x >>) = v.m.cells[b][x]
    BY <2>2, <2>4, ReadIs
  <2>6. read(operand(0).m, << b, x >>) = cells[b][x]
    <3>1. operand(0).m.cells = cells
      BY DEF operand
    <3>2. x \in DOMAIN operand(0).m.cells[b]
      BY <1>3, <2>4, <3>1
    <3> QED
      BY <2>2, <3>1, <3>2, ReadIs
  <2>7. << b, x >> \in Pointer
    BY <2>2 DEF Pointer
  <2> QED
    BY <1>3, <2>1, <2>2, <2>4, <2>5, <2>6, <2>7 DEF value
<1>11. Readable(v.m, n, items)
  BY <1>10 DEF Readable
<1>12. Moved(u, v, b, n, 0, n, n, items) \/ Back(u, v, b, n, cap)
  BY <1>3, <1>4, <1>6, <1>9, <1>11, RebuildIs
<1>13. Outcome(u, v, b, n, cap, 0, n, n, items, FALSE)
  BY <1>12 DEF Outcome
<1>14. Promised(g, n, 0, n, n, items)
  <2>1. promised \in Seq(Value) /\ Len(promised) = n /\ \A k \in 1..n : promised[k] = cells[b][k - 1]
    BY <1>1, WantIs
  <2>2. g = [k \in 1..n |-> g[k]]
    BY <1>7, <2>1
  <2>3. 0 + n + (n - n) = n /\ n - n = 0 /\ 1..0 = {} /\ \A k \in 1..n : 0 + k = k
    OBVIOUS
  <2>4. \A k \in 1..n : g[0 + k] = value(items[k])
    BY <1>7, <1>10, <2>1, <2>3
  <2> QED
    BY <2>2, <2>3, <2>4 DEF Promised
<1>15. 0 <= n /\ n <= size /\ 0 \in Nat /\ FALSE \in BOOLEAN
  BY <1>1
<1> QED
  BY <1>1, <1>2, <1>8, <1>13, <1>14, <1>15, DoneKeeps

\* operator= and assign: they leave the items.
LEMMA ItemsPromised ==
    ASSUME VectorInvariant, NEW S, NEW items \in Seq(S), NEW p \in Nat, p = Len(items),
           \A k \in 1..p : value(items[k]) \in Value, NEW g, g = values(items), NEW n \in Nat
    PROVE  Promised(g, n, 0, n, p, items)
<1>1. g \in Seq(Value) /\ Len(g) = p /\ \A k \in 1..p : g[k] = value(items[k])
  BY ValuesAre
<1>2. g = [k \in 1..p |-> g[k]]
  BY <1>1
<1>3. 0 + p + (n - n) = p /\ n - n = 0 /\ 1..0 = {} /\ \A k \in 1..p : 0 + k = k
  OBVIOUS
<1>4. \A k \in 1..p : g[0 + k] = value(items[k])
  BY <1>1, <1>3
<1> QED
  BY <1>2, <1>3, <1>4 DEF Promised

LEMMA AssignStep ==
    ASSUME VectorInvariant, NEW fuel \in Nat, NEW S, NEW items \in Seq(S), NEW c \in Nat, c = Len(items),
           Readable(operand(fuel).m, c, items), Uniform(c, items),
           \A k \in 1..c : value(items[k]) \in Value,
           done(assign_items(operand(fuel), items), values(items), c <= capacity)
    PROVE  VectorInvariant'
<1>1. PICK b \in {0} \cup Block, n \in Nat, cap \in Nat : b = start[1] /\ n = size /\ cap = capacity
  BY 0 \in Nat, OperandIs
<1>2. PICK v : v = operand(fuel)
  OBVIOUS
<1>3. VectorAt(v, b, n, cap) /\ v.m.thrown = FALSE
  BY <1>1, <1>2, OperandIs
<1>4. PICK u : u = assign_items(v, items)
  OBVIOUS
<1>5. PICK g : g = values(items)
  OBVIOUS
<1>6. PICK changes \in BOOLEAN : changes <=> (c <= cap)
  <2>1. (c <= cap) \in BOOLEAN
    OBVIOUS
  <2> QED
    BY <2>1
<1>7. done(u, g, changes)
  BY <1>1, <1>2, <1>4, <1>5, <1>6, DoneIs
<1>8. Outcome(u, v, b, n, cap, 0, n, c, items, changes)
  BY <1>1, <1>2, <1>3, <1>4, <1>6, AssignItemsIs
<1>9. Promised(g, n, 0, n, c, items)
  BY <1>5, ItemsPromised
<1>10. 0 <= n /\ n <= size /\ 0 \in Nat
  BY <1>1
<1> QED
  BY <1>1, <1>2, <1>7, <1>8, <1>9, <1>10, DoneKeeps

LEMMA AssignNStep ==
    ASSUME VectorInvariant, NEW fuel \in Nat, NEW c \in Nat, NEW r \in Reference, assign_n(c, r, fuel)
    PROVE  VectorInvariant'
<1>1. Reads(operand(fuel).m, r) /\ value(r) \in Value
  BY ReferenceIs
<1>2. PICK items : items = repeated(c, r)
  OBVIOUS
<1>3. items \in Seq({r}) /\ c = Len(items) /\ \A k \in 1..c : items[k] = r /\ value(items[k]) \in Value
  <2>1. items = [k \in 1..c |-> r]
    BY <1>2 DEF repeated
  <2> QED
    BY <1>1, <2>1
<1>4. Readable(operand(fuel).m, c, items)
  BY <1>1, <1>3 DEF Readable, Reads
<1>5. Uniform(c, items)
  BY <1>3 DEF Uniform
<1>6. done(assign_items(operand(fuel), items), values(items), c <= capacity)
  BY <1>2 DEF assign_n
<1> QED
  BY <1>3, <1>4, <1>5, <1>6, AssignStep

LEMMA CopyFromStep ==
    ASSUME VectorInvariant, NEW fuel \in Nat, NEW items \in Items, copy_from(items, fuel)
    PROVE  VectorInvariant'
<1>1. items \in Seq(Value) /\ \A k \in 1..Len(items) : value(items[k]) \in Value
  BY ItemsAre
<1>2. PICK c \in Nat : c = Len(items)
  BY <1>1
<1>3. \A k \in 1..c : items[k] \in Value
  BY <1>1, <1>2
<1>4. Readable(operand(fuel).m, c, items)
  BY <1>3 DEF Readable, read
<1>5. Uniform(c, items)
  BY <1>3 DEF Uniform
<1>6. done(assign_items(operand(fuel), items), values(items), c <= capacity)
  BY <1>2 DEF copy_from
<1> QED
  BY <1>1, <1>2, <1>4, <1>5, <1>6, AssignStep

-----------------------------------------------------------------------------
\* Every call keeps the invariant, whatever it throws and whatever it refers to.
LEMMA NextKeeps ==
    ASSUME VectorInvariant, [VectorNext]_vectorvars
    PROVE  VectorInvariant'
<1>1. CASE pop_back
  BY <1>1, PopBackStep
<1>2. CASE destruct
  BY <1>2, DestructStep
<1>3. ASSUME NEW fuel \in 0..MaxCopies, NEW n \in 0..MaxReserve, reserve(n, fuel)
      PROVE  VectorInvariant'
  BY <1>3, fuel \in Nat, n \in Nat, ReserveStep
<1>4. ASSUME NEW fuel \in 0..MaxCopies, NEW items \in Items, copy_from(items, fuel)
      PROVE  VectorInvariant'
  BY <1>4, fuel \in Nat, CopyFromStep
<1>5. ASSUME NEW fuel \in 0..MaxCopies, NEW p \in position, NEW q \in position, erase_values(p, q, fuel)
      PROVE  VectorInvariant'
  BY <1>5, fuel \in Nat, EraseStep
<1>6. ASSUME NEW fuel \in 0..MaxCopies, NEW p \in position, NEW items \in Items,
             insert_range(p, items, fuel)
      PROVE  VectorInvariant'
  BY <1>6, fuel \in Nat, InsertRangeStep
<1>7. ASSUME NEW fuel \in 0..MaxCopies, NEW p \in position, NEW r \in Reference, insert_value(p, r, fuel)
      PROVE  VectorInvariant'
  BY <1>7, fuel \in Nat, InsertStep
<1>8. ASSUME NEW fuel \in 0..MaxCopies, NEW p \in position, NEW r \in Reference,
             NEW n \in 0..MaxItems, insert_n(p, n, r, fuel)
      PROVE  VectorInvariant'
  BY <1>8, fuel \in Nat, n \in Nat, InsertNStep
<1>9. ASSUME NEW fuel \in 0..MaxCopies, NEW n \in 0..MaxSize, NEW r \in Reference, resize(n, r, fuel)
      PROVE  VectorInvariant'
  BY <1>9, fuel \in Nat, n \in Nat, ResizeStep
<1>10. ASSUME NEW fuel \in 0..MaxCopies, NEW n \in 0..MaxSize, NEW r \in Reference, assign_n(n, r, fuel)
       PROVE  VectorInvariant'
  BY <1>10, fuel \in Nat, n \in Nat, AssignNStep
<1>11. CASE UNCHANGED vectorvars
  <2>1. /\ cells' = cells /\ start' = start /\ finish' = finish /\ end_of_storage' = end_of_storage
        /\ fault' = fault /\ promised' = promised
    BY <1>11 DEF vectorvars
  <2>2. operand(0)' = operand(0) /\ size' = size /\ capacity' = capacity
        /\ elements_in(cells, start, size)' = elements_in(cells, start, size)
    BY <2>1 DEF operand, size, capacity, elements_in
  <2> QED
    BY <2>1, <2>2 DEF VectorInvariant, VectorAt, Holds, IsMemory
<1> QED
  BY <1>1, <1>2, <1>3, <1>4, <1>5, <1>6, <1>7, <1>8, <1>9, <1>10, <1>11 DEF VectorNext

\* vector, whatever throws and when: the cells up to finish hold elements, the cells up
\* to end_of_storage none, every other block was given back, and nothing was read,
\* assigned or destroyed that was not there.
THEOREM VectorLifetimesExact == VectorSpec => []LifetimesExact
<1>1. VectorInit => VectorInvariant
  BY InitHolds
<1>2. VectorInvariant /\ [VectorNext]_vectorvars => VectorInvariant'
  BY NextKeeps
<1>3. VectorInvariant => LifetimesExact
  BY InvariantHolds
<1> QED
  BY <1>1, <1>2, <1>3, PTL DEF VectorSpec

\* vector: an operation leaves what it promises, also when its argument refers to an
\* element that it moves; a reallocation that throws leaves the elements as they were.
THEOREM VectorContentsExact == VectorSpec => []ContentsExact
<1>1. VectorInit => VectorInvariant
  BY InitHolds
<1>2. VectorInvariant /\ [VectorNext]_vectorvars => VectorInvariant'
  BY NextKeeps
<1>3. VectorInvariant => ContentsExact
  BY InvariantHolds
<1> QED
  BY <1>1, <1>2, <1>3, PTL DEF VectorSpec

=============================================================================
