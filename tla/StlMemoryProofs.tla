-------------------------- MODULE StlMemoryProofs ---------------------------
(***************************************************************************)
(* What each operator of StlMemory does to the cells of a block, for any   *)
(* elements, any number of blocks and whenever a copy throws: the facts    *)
(* that the proofs about the containers cite.                              *)
(***************************************************************************)
EXTENDS StlMemory, Induction, SequenceTheorems

\* A memory with its four fields
IsMemory(m) ==
    /\ DOMAIN m = {"cells", "fuel", "thrown", "fault"}
    /\ DOMAIN m.cells = {0} \cup Block
    /\ m.fuel \in Nat /\ m.thrown \in BOOLEAN /\ m.fault \in BOOLEAN

Pointer == ({0} \cup Block) \X Int

LEMMA PointerIs ==
    ASSUME NEW p \in Pointer
    PROVE  \E b \in {0} \cup Block, k \in Int : p = << b, k >> /\ p[1] = b /\ p[2] = k
<1>1. p[1] \in {0} \cup Block /\ p[2] \in Int /\ p = << p[1], p[2] >>
  BY DEF Pointer
<1> QED
  BY <1>1

LEMMA NoCells == DOMAIN no_cells = {}
  BY DEF no_cells

\* An iteration of put_all
iteration(a, item, p, allowed) == IF a.thrown THEN a ELSE put(a, p, read(a, item), allowed)

is_loop(e, m, n, items, to, allowed) ==
    e = [k \in 0..n |-> IF k = 0 THEN m ELSE iteration(e[k - 1], items[k], to[k], allowed)]

\* The recursion of put_all has a value for every number of items.
LEMMA LoopExists ==
    ASSUME NEW m, NEW items, NEW to, NEW allowed
    PROVE  \A n \in Nat : \E e : is_loop(e, m, n, items, to, allowed)
<1> DEFINE W == {n \in Nat : \E e : is_loop(e, m, n, items, to, allowed)}
<1>1. 0 \in W
  <2>1. PICK e : e = [k \in 0..0 |-> m]
    OBVIOUS
  <2>2. \A k \in 0..0 : k = 0
    OBVIOUS
  <2>3. is_loop(e, m, 0, items, to, allowed)
    BY <2>1, <2>2 DEF is_loop
  <2> QED
    BY <2>3
<1>2. ASSUME NEW n \in Nat, n \in W
      PROVE  n + 1 \in W
  <2>1. PICK e : is_loop(e, m, n, items, to, allowed)
    BY <1>2
  <2>2. \A k \in 0..n : e[k] = IF k = 0 THEN m ELSE iteration(e[k - 1], items[k], to[k], allowed)
    BY <2>1 DEF is_loop
  <2>3. PICK f : f = [k \in 0..(n + 1) |-> IF k <= n THEN e[k]
                                             ELSE iteration(e[n], items[k], to[k], allowed)]
    OBVIOUS
  <2>4. ASSUME NEW k \in 0..(n + 1)
        PROVE  f[k] = IF k = 0 THEN m ELSE iteration(f[k - 1], items[k], to[k], allowed)
    <3>1. CASE k = 0
      BY <2>2, <2>3, <3>1
    <3>2. CASE k # 0 /\ k <= n
      <4>1. k - 1 \in 0..(n + 1) /\ k - 1 <= n /\ k \in 0..n
        BY <3>2
      <4>2. f[k - 1] = e[k - 1] /\ f[k] = e[k]
        BY <2>3, <3>2, <4>1
      <4> QED
        BY <2>2, <3>2, <4>1, <4>2
    <3>3. CASE ~(k <= n)
      <4>1. k = n + 1 /\ k - 1 = n /\ n \in 0..(n + 1) /\ k # 0
        BY <3>3
      <4>2. f[n] = e[n] /\ f[k] = iteration(e[n], items[k], to[k], allowed)
        BY <2>3, <3>3, <4>1
      <4> QED
        BY <4>1, <4>2
    <3> QED
      BY <3>1, <3>2, <3>3
  <2>5. f = [k \in 0..(n + 1) |-> f[k]]
    BY <2>3
  <2>6. [k \in 0..(n + 1) |-> f[k]]
        = [k \in 0..(n + 1) |-> IF k = 0 THEN m ELSE iteration(f[k - 1], items[k], to[k], allowed)]
    BY <2>4
  <2>7. is_loop(f, m, n + 1, items, to, allowed)
    BY ONLY <2>5, <2>6 DEF is_loop
  <2> QED
    BY <2>7
<1>3. \A n \in Nat : n \in W
  <2> HIDE DEF W
  <2> QED
    BY <1>1, <1>2, NumberInduction
<1> QED
  BY <1>3

\* put_all is its last iteration.
LEMMA PutAllIs ==
    ASSUME NEW m, NEW n \in Nat, NEW items, NEW to, NEW allowed
    PROVE  \E e : /\ e[0] = m
                  /\ \A k \in 1..n : e[k] = iteration(e[k - 1], items[k], to[k], allowed)
                  /\ put_all(m, n, items, to, allowed) = e[n]
<1>1. PICK e : e = CHOOSE f : is_loop(f, m, n, items, to, allowed)
  OBVIOUS
<1>2. is_loop(e, m, n, items, to, allowed)
  BY <1>1, LoopExists
<1>3. put_all(m, n, items, to, allowed) = e[n]
  <2>1. ~(n < 0)
    OBVIOUS
  <2> QED
    BY <1>1, <2>1, Zenon DEF put_all, is_loop, iteration
<1> QED
  BY <1>2, <1>3 DEF is_loop

\* The n items can be put: each is an element, or refers to one, also after those
\* before it were put; each of the cells is there and holds what is allowed.
Ready(m, n, items, to, allowed) ==
    /\ \A k \in 1..n : to[k] \in Pointer /\ in_block(m, to[k]) /\ content_of(m, to[k]) \in allowed
    /\ \A k \in 1..n : items[k] \in Value \cup Pointer /\ read(m, items[k]) \in Value
    /\ \A j, k \in 1..n : j < k => to[j] # to[k]
    /\ \A j, k \in 1..n : j < k /\ items[k] = to[j] /\ items[k] \notin Value
                           => read(m, items[j]) = read(m, items[k])

\* r is m with the first c items put.
Wrote(m, r, c, items, to) ==
    /\ IsMemory(r) /\ r.fuel = m.fuel - c /\ ~r.fault
    /\ \A b \in {0} \cup Block : DOMAIN r.cells[b] = DOMAIN m.cells[b]
    /\ \A k \in 1..c : content_of(r, to[k]) = read(m, items[k])
    /\ \A p \in Pointer : (\A k \in 1..c : to[k] # p) => content_of(r, p) = content_of(m, p)
    /\ \A b \in {0} \cup Block : (\A k \in 1..c : to[k][1] # b) => r.cells[b] = m.cells[b]

\* A copy into a cell that is there
Stored(m, r, p, v) ==
    /\ IsMemory(r) /\ r.fuel = m.fuel - 1 /\ ~r.thrown /\ ~r.fault
    /\ \A b \in {0} \cup Block : DOMAIN r.cells[b] = DOMAIN m.cells[b]
    /\ content_of(r, p) = v
    /\ \A q \in Pointer : q # p => content_of(r, q) = content_of(m, q)
    /\ \A b \in {0} \cup Block : p[1] # b => r.cells[b] = m.cells[b]

LEMMA PutIs ==
    ASSUME NEW m, IsMemory(m), ~m.fault, ~m.thrown, m.fuel # 0, NEW p \in Pointer, in_block(m, p),
           NEW v \in Value, NEW allowed, content_of(m, p) \in allowed,
           NEW r, r = put(m, p, v, allowed)
    PROVE  Stored(m, r, p, v)
<1>1. PICK b \in {0} \cup Block, k \in Int : p = << b, k >>
  BY PointerIs
<1>2. p[1] = b /\ p[2] = k /\ k \in DOMAIN m.cells[b] /\ m.cells[b][k] \in allowed
  BY <1>1 DEF in_block, content_of
<1>3. /\ r.cells = [m.cells EXCEPT ![b] = [m.cells[b] EXCEPT ![k] = v]]
      /\ r.fuel = m.fuel - 1 /\ r.thrown = FALSE /\ r.fault = FALSE
      /\ DOMAIN r = DOMAIN m
  BY <1>1, <1>2 DEF put, temporary, IsMemory, in_block, content_of
<1>4. IsMemory(r)
  <2>1. r.fuel \in Nat
    BY <1>3 DEF IsMemory
  <2>2. DOMAIN r.cells = DOMAIN m.cells
    BY <1>3
  <2> QED
    BY <1>3, <2>1, <2>2 DEF IsMemory
<1>5. DOMAIN m.cells = {0} \cup Block
  BY DEF IsMemory
<1>6. \A a \in {0} \cup Block : a # b => r.cells[a] = m.cells[a]
  BY <1>3, <1>5
<1>7. r.cells[b] = [m.cells[b] EXCEPT ![k] = v]
  BY <1>3, <1>5
<1>8. \A a \in {0} \cup Block : DOMAIN r.cells[a] = DOMAIN m.cells[a]
  BY <1>6, <1>7
<1>9. content_of(r, p) = v
  BY <1>1, <1>2, <1>7 DEF content_of, in_block
<1>10. ASSUME NEW q \in Pointer, q # p
       PROVE  content_of(r, q) = content_of(m, q)
  <2>1. PICK a \in {0} \cup Block, j \in Int : q = << a, j >>
    BY PointerIs
  <2>2. a = b => j # k
    BY <1>1, <1>10, <2>1
  <2> QED
    BY <1>6, <1>7, <2>1, <2>2 DEF content_of, in_block
<1> QED
  BY <1>2, <1>3, <1>4, <1>6, <1>8, <1>9, <1>10 DEF Stored

\* An iteration puts the next item, or throws and changes nothing.
LEMMA IterationIs ==
    ASSUME NEW m, NEW n \in Nat, NEW items, NEW to, NEW allowed, Ready(m, n, items, to, allowed),
           m.fuel \in Nat, NEW c \in 0..(n - 1), NEW a, Wrote(m, a, c, items, to), ~a.thrown,
           NEW r, r = iteration(a, items[c + 1], to[c + 1], allowed)
    PROVE  \/ r.thrown /\ Wrote(m, r, c, items, to) /\ c = m.fuel
           \/ ~r.thrown /\ Wrote(m, r, c + 1, items, to)
<1>1. c + 1 \in 1..n /\ c \in Nat
  OBVIOUS
<1>a. PICK x : x = items[c + 1]
  OBVIOUS
<1>b. PICK p \in Pointer : p = to[c + 1]
  BY <1>1 DEF Ready
<1>2. p = to[c + 1] /\ x = items[c + 1]
  BY <1>a, <1>b
<1>3. /\ in_block(m, p) /\ content_of(m, p) \in allowed
      /\ x \in Value \cup Pointer /\ read(m, x) \in Value
  BY <1>1, <1>2 DEF Ready
<1>4. \A k \in 1..c : to[k] # p
  BY <1>1, <1>2 DEF Ready
<1>5. content_of(a, p) \in allowed /\ in_block(a, p)
  <2>1. content_of(a, p) = content_of(m, p)
    BY <1>4 DEF Wrote
  <2>2. p[1] \in {0} \cup Block
    BY DEF Pointer
  <2>3. DOMAIN a.cells[p[1]] = DOMAIN m.cells[p[1]]
    BY <2>2 DEF Wrote
  <2> QED
    BY <1>3, <2>1, <2>3 DEF in_block
<1>6. read(a, x) = read(m, x)
  <2>1. CASE x \in Value
    BY <2>1 DEF read
  <2>2. CASE x \notin Value
    <3>1. x \in Pointer /\ read(m, x) = content_of(m, x) /\ read(a, x) = content_of(a, x)
      BY <1>3, <2>2 DEF read
    <3>2. CASE \E j \in 1..c : to[j] = x
      <4>1. PICK j \in 1..c : to[j] = x
        BY <3>2
      <4>2. j \in 1..n /\ j < c + 1
        BY <1>1
      <4>3. read(m, items[j]) = read(m, x)
        BY <1>1, <1>2, <2>2, <4>1, <4>2 DEF Ready
      <4>4. content_of(a, x) = read(m, items[j])
        BY <4>1 DEF Wrote
      <4> QED
        BY <3>1, <4>3, <4>4
    <3>3. CASE ~\E j \in 1..c : to[j] = x
      BY <3>1, <3>3 DEF Wrote
    <3> QED
      BY <3>2, <3>3
  <2> QED
    BY <2>1, <2>2
<1>7. r = put(a, p, read(m, x), allowed)
  BY <1>2, <1>6 DEF iteration
<1>8. IsMemory(a) /\ ~a.fault /\ a.fuel = m.fuel - c
  BY DEF Wrote
<1>9. CASE a.fuel = 0
  <2>1. r = [a EXCEPT !.thrown = TRUE]
    BY <1>7, <1>8, <1>9 DEF put, temporary, IsMemory
  <2>2. r.thrown /\ r.cells = a.cells /\ r.fuel = a.fuel /\ r.fault = a.fault /\ IsMemory(r)
    BY <1>8, <2>1 DEF IsMemory
  <2>3. \A q : content_of(r, q) = content_of(a, q)
    BY <2>2 DEF content_of, in_block
  <2>4. c = m.fuel
    BY <1>8, <1>9
  <2> QED
    BY <2>2, <2>3, <2>4 DEF Wrote
<1>10. CASE a.fuel # 0
  <2>1. /\ IsMemory(r) /\ r.fuel = a.fuel - 1 /\ ~r.thrown /\ ~r.fault
        /\ \A b \in {0} \cup Block : DOMAIN r.cells[b] = DOMAIN a.cells[b]
        /\ content_of(r, p) = read(m, x)
        /\ \A q \in Pointer : q # p => content_of(r, q) = content_of(a, q)
        /\ \A b \in {0} \cup Block : p[1] # b => r.cells[b] = a.cells[b]
    <3>1. PICK v \in Value : v = read(m, x)
      BY <1>3
    <3>2. r = put(a, p, v, allowed) /\ IsMemory(a) /\ ~a.fault /\ ~a.thrown /\ a.fuel # 0
      BY <1>7, <1>8, <1>10, <3>1
    <3>3. Stored(a, r, p, v)
      BY <1>5, <3>2, PutIs
    <3> QED
      BY <3>1, <3>3 DEF Stored
  <2>2. r.fuel = m.fuel - (c + 1)
    BY <1>8, <2>1
  <2>3. \A k \in 1..(c + 1) : k \in 1..c \/ k = c + 1
    BY <1>1
  <2>4. \A k \in 1..c : to[k] \in Pointer
    BY <1>1 DEF Ready
  <2>5. \A k \in 1..(c + 1) : content_of(r, to[k]) = read(m, items[k])
    <3>1. \A k \in 1..c : content_of(r, to[k]) = read(m, items[k])
      BY <1>4, <2>1, <2>4 DEF Wrote
    <3> QED
      BY <1>2, <2>1, <2>3, <3>1
  <2>6. \A q \in Pointer : (\A k \in 1..(c + 1) : to[k] # q) => content_of(r, q) = content_of(m, q)
    <3> SUFFICES ASSUME NEW q \in Pointer, \A k \in 1..(c + 1) : to[k] # q
                 PROVE  content_of(r, q) = content_of(m, q)
      OBVIOUS
    <3>1. q # p /\ \A k \in 1..c : to[k] # q
      BY <1>1, <1>2
    <3> QED
      BY <2>1, <3>1 DEF Wrote
  <2>7. \A b \in {0} \cup Block : (\A k \in 1..(c + 1) : to[k][1] # b) => r.cells[b] = m.cells[b]
    <3> SUFFICES ASSUME NEW b \in {0} \cup Block, \A k \in 1..(c + 1) : to[k][1] # b
                 PROVE  r.cells[b] = m.cells[b]
      OBVIOUS
    <3>1. p[1] # b /\ \A k \in 1..c : to[k][1] # b
      BY <1>1, <1>2
    <3> QED
      BY <2>1, <3>1 DEF Wrote
  <2>8. \A b \in {0} \cup Block : DOMAIN r.cells[b] = DOMAIN m.cells[b]
    BY <2>1 DEF Wrote
  <2> QED
    BY <2>1, <2>2, <2>5, <2>6, <2>7, <2>8 DEF Wrote
<1> QED
  BY <1>8, <1>9, <1>10

\* What put_all does: all of the items are put, or as many as there is fuel for.
Puts(m, r, n, items, to) ==
    \E c \in 0..n :
        /\ Wrote(m, r, c, items, to)
        /\ r.thrown => c = m.fuel /\ c < n
        /\ ~r.thrown => c = n

LEMMA PutAll ==
    ASSUME NEW m, IsMemory(m), ~m.fault, ~m.thrown, NEW n \in Nat, NEW items, NEW to, NEW allowed,
           Ready(m, n, items, to, allowed)
    PROVE  Puts(m, put_all(m, n, items, to, allowed), n, items, to)
<1>1. PICK e : /\ e[0] = m
               /\ \A k \in 1..n : e[k] = iteration(e[k - 1], items[k], to[k], allowed)
               /\ put_all(m, n, items, to, allowed) = e[n]
  BY PutAllIs
<1> DEFINE done_at(k) == \/ ~e[k].thrown /\ Wrote(m, e[k], k, items, to)
                         \/ e[k].thrown /\ m.fuel < k /\ Wrote(m, e[k], m.fuel, items, to)
           W == {k \in Nat : k <= n => done_at(k)}
<1>2. m.fuel \in Nat
  BY DEF IsMemory
<1>3. 0 \in W
  <2>1. Wrote(m, e[0], 0, items, to)
    BY <1>1, <1>2 DEF Wrote
  <2> QED
    BY <1>1, <2>1
<1>4. ASSUME NEW k \in Nat, k \in W
      PROVE  k + 1 \in W
  <2> SUFFICES ASSUME k + 1 <= n
               PROVE  done_at(k + 1)
    OBVIOUS
  <2>1. k \in 0..(n - 1) /\ k + 1 \in 1..n /\ k + 1 - 1 = k
    OBVIOUS
  <2>2. e[k + 1] = iteration(e[k], items[k + 1], to[k + 1], allowed)
    BY <1>1, <2>1
  <2>3. done_at(k)
    BY <1>4, <2>1
  <2>4. CASE e[k].thrown
    <3>1. e[k + 1] = e[k]
      BY <2>2, <2>4 DEF iteration
    <3>2. m.fuel < k + 1
      BY <1>2, <2>3, <2>4
    <3> QED
      BY <2>3, <2>4, <3>1, <3>2
  <2>5. CASE ~e[k].thrown
    <3>1. Wrote(m, e[k], k, items, to)
      BY <2>3, <2>5
    <3>2. PICK a, r : a = e[k] /\ r = e[k + 1]
      OBVIOUS
    <3>3. \/ r.thrown /\ Wrote(m, r, k, items, to) /\ k = m.fuel
          \/ ~r.thrown /\ Wrote(m, r, k + 1, items, to)
      BY <1>2, <2>1, <2>2, <2>5, <3>1, <3>2, IterationIs
    <3> QED
      BY <1>2, <3>2, <3>3
  <2> QED
    BY <2>4, <2>5
<1>5. \A k \in Nat : k \in W
  <2> HIDE DEF W
  <2> QED
    BY <1>3, <1>4, NumberInduction
<1>6. done_at(n)
  BY <1>5
<1>7. PICK r : r = e[n] /\ r = put_all(m, n, items, to, allowed)
  BY <1>1
<1>8. CASE ~r.thrown
  <2>1. Wrote(m, r, n, items, to) /\ n \in 0..n
    BY <1>6, <1>7, <1>8
  <2> QED
    BY <1>7, <1>8, <2>1 DEF Puts
<1>9. CASE r.thrown
  <2>1. m.fuel < n /\ Wrote(m, r, m.fuel, items, to) /\ m.fuel \in 0..n
    BY <1>2, <1>6, <1>7, <1>9
  <2> QED
    BY <1>7, <1>9, <2>1 DEF Puts
<1> QED
  BY <1>8, <1>9

\* After an exception nothing is put.
LEMMA ThrownPutsNothing ==
    ASSUME NEW m, IsMemory(m), m.thrown, NEW n \in Nat, NEW items, NEW to, NEW allowed
    PROVE  put_all(m, n, items, to, allowed) = m
<1>0. PICK r : r = put_all(m, n, items, to, allowed)
  OBVIOUS
<1>1. PICK e : /\ e[0] = m
               /\ \A k \in 1..n : e[k] = iteration(e[k - 1], items[k], to[k], allowed)
               /\ r = e[n]
  BY <1>0, PutAllIs
<1> DEFINE W == {k \in Nat : k <= n => e[k] = m}
<1>2. 0 \in W
  BY <1>1
<1>3. ASSUME NEW k \in Nat, k \in W
      PROVE  k + 1 \in W
  <2> SUFFICES ASSUME k + 1 <= n
               PROVE  e[k + 1] = m
    OBVIOUS
  <2>1. k + 1 \in 1..n /\ k + 1 - 1 = k /\ e[k] = m
    BY <1>3
  <2> QED
    BY <1>1, <2>1 DEF iteration
<1>4. \A k \in Nat : k \in W
  <2> HIDE DEF W
  <2> QED
    BY <1>2, <1>3, NumberInduction
<1> QED
  BY <1>0, <1>1, <1>4

\* The items are put at the places place[1], place[2], ... of block b.
PutsAt(m, r, n, items, b, place) ==
    /\ IsMemory(r) /\ ~r.fault /\ DOMAIN r.cells[b] = DOMAIN m.cells[b]
    /\ \A a \in {0} \cup Block : a # b => r.cells[a] = m.cells[a]
    /\ m.thrown => r = m
    /\ ~m.thrown =>
         \E c \in 0..n :
             /\ r.fuel = m.fuel - c
             /\ ~r.thrown => c = n
             /\ \A k \in 1..c : r.cells[b][place[k]] = read(m, items[k])
             /\ \A x \in DOMAIN m.cells[b] \cap Int :
                   (\A k \in 1..c : place[k] # x) => r.cells[b][x] = m.cells[b][x]

LEMMA PutsInBlock ==
    ASSUME NEW m, IsMemory(m), ~m.fault, NEW n \in Nat, NEW items, NEW to, NEW allowed,
           NEW b \in {0} \cup Block, NEW place,
           \A k \in 1..n : to[k] = << b, place[k] >> /\ place[k] \in Int,
           Ready(m, n, items, to, allowed),
           NEW r, r = put_all(m, n, items, to, allowed)
    PROVE  PutsAt(m, r, n, items, b, place)
<1>1. CASE m.thrown
  BY <1>1, ThrownPutsNothing DEF PutsAt
<1>2. CASE ~m.thrown
  <2>1. PICK c \in 0..n : Wrote(m, r, c, items, to) /\ (r.thrown => c = m.fuel /\ c < n)
                          /\ (~r.thrown => c = n)
    BY <1>2, PutAll DEF Puts
  <2>2. \A k \in 1..c : k \in 1..n
    BY <2>1
  <2>3. DOMAIN r.cells[b] = DOMAIN m.cells[b]
    BY <2>1 DEF Wrote
  <2>4. \A a \in {0} \cup Block : a # b => r.cells[a] = m.cells[a]
    BY <2>1, <2>2 DEF Wrote
  <2>5. ASSUME NEW k \in 1..c
        PROVE  r.cells[b][place[k]] = read(m, items[k])
    <3>1. k \in 1..n /\ to[k] = << b, place[k] >>
      BY <2>2
    <3>2. content_of(r, << b, place[k] >>) = read(m, items[k])
      BY <2>1, <3>1 DEF Wrote
    <3>3. in_block(m, << b, place[k] >>)
      BY <3>1 DEF Ready
    <3> QED
      BY <2>3, <3>2, <3>3 DEF content_of, in_block
  <2>6. ASSUME NEW x \in DOMAIN m.cells[b] \cap Int, \A k \in 1..c : place[k] # x
        PROVE  r.cells[b][x] = m.cells[b][x]
    <3>1. << b, x >> \in Pointer
      BY DEF Pointer
    <3>2. \A k \in 1..c : to[k] # << b, x >>
      BY <2>2, <2>6
    <3>3. content_of(r, << b, x >>) = content_of(m, << b, x >>)
      BY <2>1, <3>1, <3>2 DEF Wrote
    <3> QED
      BY <2>3, <3>3 DEF content_of, in_block
  <2> QED
    BY <1>2, <2>1, <2>3, <2>4, <2>5, <2>6 DEF Wrote, PutsAt
<1> QED
  BY <1>1, <1>2

\* A pointer is read by the cell it points to.
LEMMA ReadIs ==
    ASSUME NEW m, NEW b \in {0} \cup Block, NEW k \in Int
    PROVE  /\ << b, k >> \notin Value
           /\ read(m, << b, k >>) = content_of(m, << b, k >>)
           /\ k \in DOMAIN m.cells[b] => read(m, << b, k >>) = m.cells[b][k]
<1>1. << b, k >> \in Nat \X Int
  BY StlMemoryAssumption
<1>2. << b, k >> \notin Value
  BY <1>1, StlMemoryAssumption
<1> QED
  BY <1>2 DEF read, content_of, in_block

\* What r does to the cells of m at lo, ..., hi - 1 of block b, and to no others
Within(m, r, b, lo, hi) ==
    /\ IsMemory(r) /\ ~r.fault /\ DOMAIN r.cells[b] = DOMAIN m.cells[b]
    /\ \A a \in {0} \cup Block : a # b => r.cells[a] = m.cells[a]
    /\ \A x \in DOMAIN m.cells[b] : x \in Int /\ x \notin lo..(hi - 1) => r.cells[b][x] = m.cells[b][x]

\* The elements from lo on are those that were shift cells further, or something threw.
Copied(m, r, b, lo, hi, shift) ==
    /\ Within(m, r, b, lo, hi)
    /\ \A k \in lo..(hi - 1) : r.cells[b][k] \in Value
    /\ m.thrown => r.thrown
    /\ ~r.thrown => \A k \in lo..(hi - 1) : r.cells[b][k] = m.cells[b][k + shift]

\* copy to a place that is not behind the elements
LEMMA CopyIs ==
    ASSUME NEW m, IsMemory(m), ~m.fault, NEW b \in {0} \cup Block,
           NEW f \in Int, NEW l \in Int, NEW t \in Int, t <= f, f <= l,
           t..(l - 1) \subseteq DOMAIN m.cells[b],
           \A k \in t..(l - 1) : m.cells[b][k] \in Value,
           NEW r, r = copy(m, << b, f >>, << b, l >>, << b, t >>)
    PROVE  Copied(m, r, b, t, t + (l - f), f - t)
<1> SUFFICES
           /\ Within(m, r, b, t, t + (l - f))
           /\ \A k \in t..(t + (l - f) - 1) : r.cells[b][k] \in Value
           /\ m.thrown => r.thrown
           /\ ~r.thrown => \A k \in t..(t + (l - f) - 1) : r.cells[b][k] = m.cells[b][k + (f - t)]
  <2>1. PICK hi, shift : hi = t + (l - f) /\ shift = f - t
    OBVIOUS
  <2>2. /\ Within(m, r, b, t, hi)
        /\ \A k \in t..(hi - 1) : r.cells[b][k] \in Value
        /\ m.thrown => r.thrown
        /\ ~r.thrown => \A k \in t..(hi - 1) : r.cells[b][k] = m.cells[b][k + shift]
    BY <2>1
  <2>3. Copied(m, r, b, t, hi, shift)
    BY <2>2 DEF Copied
  <2> QED
    BY <2>1, <2>3
<1>1. PICK n \in Nat : n = l - f /\ minus(<< b, l >>, << b, f >>) = n
  BY DEF minus
<1>a. PICK items : items = from(<< b, f >>, n)
  OBVIOUS
<1>b. PICK to : to = from(<< b, t >>, n)
  OBVIOUS
<1>c. PICK place : place = [k \in 1..n |-> t + (k - 1)]
  OBVIOUS
<1>2. \A k \in 1..n : items[k] = << b, f + (k - 1) >> /\ to[k] = << b, t + (k - 1) >>
  BY <1>a, <1>b DEF from, plus
<1>3. ASSUME NEW k \in 1..n
      PROVE  /\ f + (k - 1) \in t..(l - 1) /\ t + (k - 1) \in t..(l - 1)
             /\ read(m, items[k]) = m.cells[b][f + (k - 1)]
             /\ content_of(m, to[k]) = m.cells[b][t + (k - 1)]
             /\ items[k] \in Pointer /\ to[k] \in Pointer /\ in_block(m, to[k])
  <2>1. f + (k - 1) \in t..(l - 1) /\ t + (k - 1) \in t..(l - 1)
    BY <1>1
  <2> QED
    BY <1>2, <2>1, ReadIs DEF content_of, in_block, Pointer
<1>4. Ready(m, n, items, to, Value)
  <2>1. \A j, k \in 1..n : j < k => to[j] # to[k] /\ items[k] # to[j]
    BY <1>2
  <2> QED
    BY <1>3, <2>1 DEF Ready
<1>5. r = put_all(m, n, items, to, Value)
  BY <1>1, <1>a, <1>b DEF copy
<1>6. \A k \in 1..n : to[k] = << b, place[k] >> /\ place[k] \in Int
  <2>1. \A k \in 1..n : place[k] = t + (k - 1)
    BY <1>c
  <2> QED
    BY <1>2, <2>1
<1>7. PutsAt(m, r, n, items, b, place)
  BY <1>4, <1>5, <1>6, PutsInBlock
<1>8. CASE m.thrown
  BY <1>7, <1>8 DEF Within, PutsAt
<1>9. CASE ~m.thrown
  <2>1. PICK c \in 0..n :
               /\ ~r.thrown => c = n
               /\ \A k \in 1..c : r.cells[b][place[k]] = read(m, items[k])
               /\ \A x \in DOMAIN m.cells[b] \cap Int :
                     (\A k \in 1..c : place[k] # x) => r.cells[b][x] = m.cells[b][x]
    BY <1>7, <1>9 DEF PutsAt
  <2>2. \A x \in t..(t + c - 1) : r.cells[b][x] = m.cells[b][x + (f - t)]
    <3> SUFFICES ASSUME NEW x \in t..(t + c - 1)
                 PROVE  r.cells[b][x] = m.cells[b][x + (f - t)]
      OBVIOUS
    <3>1. x - t + 1 \in 1..c /\ x - t + 1 \in 1..n /\ place[x - t + 1] = x
      BY <1>c
    <3>2. f + ((x - t + 1) - 1) = x + (f - t)
      OBVIOUS
    <3> QED
      BY <1>3, <2>1, <3>1, <3>2
  <2>3. \A x \in DOMAIN m.cells[b] : x \in Int /\ x \notin t..(t + c - 1) => r.cells[b][x] = m.cells[b][x]
    <3>1. \A x \in Int : x \notin t..(t + c - 1) => \A k \in 1..c : place[k] # x
      BY <1>c
    <3> QED
      BY <2>1, <3>1
  <2>4. Within(m, r, b, t, t + n)
    <3>1. \A x \in Int : x \notin t..(t + n - 1) => x \notin t..(t + c - 1)
      OBVIOUS
    <3> QED
      BY <1>7, <2>3, <3>1 DEF Within, PutsAt
  <2>5. \A k \in t..(t + n - 1) : r.cells[b][k] \in Value
    <3> SUFFICES ASSUME NEW k \in t..(t + n - 1)
                 PROVE  r.cells[b][k] \in Value
      OBVIOUS
    <3>1. k \in t..(l - 1) /\ k + (f - t) \in t..(l - 1)
      BY <1>1
    <3> QED
      BY <2>2, <2>3, <3>1
  <2> QED
    BY <1>1, <1>9, <2>1, <2>2, <2>4, <2>5
<1> QED
  BY <1>8, <1>9

\* copy_backward to a place that is not in front of the elements
LEMMA CopyBackwardIs ==
    ASSUME NEW m, IsMemory(m), ~m.fault, NEW b \in {0} \cup Block,
           NEW f \in Int, NEW l \in Int, NEW t \in Int, l <= t, f <= l,
           f..(t - 1) \subseteq DOMAIN m.cells[b],
           \A k \in f..(t - 1) : m.cells[b][k] \in Value,
           NEW r, r = copy_backward(m, << b, f >>, << b, l >>, << b, t >>)
    PROVE  Copied(m, r, b, t - (l - f), t, l - t)
<1> SUFFICES
           /\ Within(m, r, b, t - (l - f), t)
           /\ \A k \in (t - (l - f))..(t - 1) : r.cells[b][k] \in Value
           /\ m.thrown => r.thrown
           /\ ~r.thrown => \A k \in (t - (l - f))..(t - 1) : r.cells[b][k] = m.cells[b][k + (l - t)]
  BY DEF Copied
<1>1. PICK n \in Nat : n = l - f /\ minus(<< b, l >>, << b, f >>) = n
  BY DEF minus
<1>a. PICK items : items = back_from(<< b, l >>, n)
  OBVIOUS
<1>b. PICK to : to = back_from(<< b, t >>, n)
  OBVIOUS
<1>c. PICK place : place = [k \in 1..n |-> t + (-k)]
  OBVIOUS
<1>2. \A k \in 1..n : items[k] = << b, l + (-k) >> /\ to[k] = << b, t + (-k) >>
  BY <1>a, <1>b DEF back_from, plus
<1>3. ASSUME NEW k \in 1..n
      PROVE  /\ l + (-k) \in f..(t - 1) /\ t + (-k) \in f..(t - 1)
             /\ read(m, items[k]) = m.cells[b][l + (-k)]
             /\ content_of(m, to[k]) = m.cells[b][t + (-k)]
             /\ items[k] \in Pointer /\ to[k] \in Pointer /\ in_block(m, to[k])
  <2>1. l + (-k) \in f..(t - 1) /\ t + (-k) \in f..(t - 1)
    BY <1>1
  <2> QED
    BY <1>2, <2>1, ReadIs DEF content_of, in_block, Pointer
<1>4. Ready(m, n, items, to, Value)
  <2>1. \A j, k \in 1..n : j < k => to[j] # to[k] /\ items[k] # to[j]
    BY <1>2
  <2> QED
    BY <1>3, <2>1 DEF Ready
<1>5. r = put_all(m, n, items, to, Value)
  BY <1>1, <1>a, <1>b DEF copy_backward
<1>6. \A k \in 1..n : to[k] = << b, place[k] >> /\ place[k] \in Int
  <2>1. \A k \in 1..n : place[k] = t + (-k)
    BY <1>c
  <2> QED
    BY <1>2, <2>1
<1>7. PutsAt(m, r, n, items, b, place)
  BY <1>4, <1>5, <1>6, PutsInBlock
<1>8. CASE m.thrown
  BY <1>7, <1>8 DEF Within, PutsAt
<1>9. CASE ~m.thrown
  <2>1. PICK c \in 0..n :
               /\ ~r.thrown => c = n
               /\ \A k \in 1..c : r.cells[b][place[k]] = read(m, items[k])
               /\ \A x \in DOMAIN m.cells[b] \cap Int :
                     (\A k \in 1..c : place[k] # x) => r.cells[b][x] = m.cells[b][x]
    BY <1>7, <1>9 DEF PutsAt
  <2>2. \A x \in (t - c)..(t - 1) : r.cells[b][x] = m.cells[b][x + (l - t)]
    <3> SUFFICES ASSUME NEW x \in (t - c)..(t - 1)
                 PROVE  r.cells[b][x] = m.cells[b][x + (l - t)]
      OBVIOUS
    <3>1. t - x \in 1..c /\ t - x \in 1..n /\ place[t - x] = x
      BY <1>c
    <3>2. l + (-(t - x)) = x + (l - t)
      OBVIOUS
    <3> QED
      BY <1>3, <2>1, <3>1, <3>2
  <2>3. \A x \in DOMAIN m.cells[b] : x \in Int /\ x \notin (t - c)..(t - 1) => r.cells[b][x] = m.cells[b][x]
    <3>1. \A x \in Int : x \notin (t - c)..(t - 1) => \A k \in 1..c : place[k] # x
      BY <1>c
    <3> QED
      BY <2>1, <3>1
  <2>4. Within(m, r, b, t - n, t)
    <3>1. \A x \in Int : x \notin (t - n)..(t - 1) => x \notin (t - c)..(t - 1)
      OBVIOUS
    <3> QED
      BY <1>7, <2>3, <3>1 DEF Within, PutsAt
  <2>5. \A k \in (t - n)..(t - 1) : r.cells[b][k] \in Value
    <3> SUFFICES ASSUME NEW k \in (t - n)..(t - 1)
                 PROVE  r.cells[b][k] \in Value
      OBVIOUS
    <3>1. k \in f..(t - 1) /\ k + (l - t) \in f..(t - 1)
      BY <1>1
    <3> QED
      BY <2>2, <2>3, <3>1
  <2> QED
    BY <1>1, <1>9, <2>1, <2>2, <2>4, <2>5
<1> QED
  BY <1>8, <1>9

\* Each of the n items is an element or refers to one.
Readable(m, n, items) ==
    \A k \in 1..n : items[k] \in Value \cup Pointer /\ read(m, items[k]) \in Value

\* The n elements from t on are the items, or something threw.
Assigned(m, r, b, t, n, items) ==
    /\ Within(m, r, b, t, t + n)
    /\ \A k \in t..(t + n - 1) : r.cells[b][k] \in Value
    /\ m.thrown => r.thrown
    /\ ~r.thrown => \A k \in t..(t + n - 1) : r.cells[b][k] = read(m, items[k - t + 1])

\* copy and fill of elements of the caller, or of one element n times
LEMMA CopyItemsIs ==
    ASSUME NEW m, IsMemory(m), ~m.fault, NEW b \in {0} \cup Block, NEW items,
           NEW n \in Nat, n = Len(items), Readable(m, n, items),
           \A j, k \in 1..n : items[k] \in Value \/ items[j] = items[k],
           NEW t \in Int, t..(t + n - 1) \subseteq DOMAIN m.cells[b],
           \A k \in t..(t + n - 1) : m.cells[b][k] \in Value,
           NEW r, r = copy_items(m, items, << b, t >>)
    PROVE  Assigned(m, r, b, t, n, items)
<1> SUFFICES
           /\ Within(m, r, b, t, t + n)
           /\ \A k \in t..(t + n - 1) : r.cells[b][k] \in Value
           /\ m.thrown => r.thrown
           /\ ~r.thrown => \A k \in t..(t + n - 1) : r.cells[b][k] = read(m, items[k - t + 1])
  BY DEF Assigned
<1>1. PICK to : to = from(<< b, t >>, n)
  OBVIOUS
<1>2. PICK place : place = [k \in 1..n |-> t + (k - 1)]
  OBVIOUS
<1>3. \A k \in 1..n : to[k] = << b, t + (k - 1) >>
  BY <1>1 DEF from, plus
<1>4. ASSUME NEW k \in 1..n
      PROVE  /\ t + (k - 1) \in t..(t + n - 1) /\ to[k] \in Pointer /\ in_block(m, to[k])
             /\ content_of(m, to[k]) = m.cells[b][t + (k - 1)]
  <2>1. t + (k - 1) \in t..(t + n - 1)
    OBVIOUS
  <2>2. to[k] = << b, t + (k - 1) >> /\ t + (k - 1) \in DOMAIN m.cells[b]
    BY <1>3, <2>1
  <2> QED
    BY <2>1, <2>2 DEF content_of, in_block, Pointer
<1>5. Ready(m, n, items, to, Value)
  <2>1. \A j, k \in 1..n : j < k => to[j] # to[k]
    BY <1>3
  <2>2. \A j, k \in 1..n : items[k] \notin Value => read(m, items[j]) = read(m, items[k])
    OBVIOUS
  <2>3. \A k \in 1..n : to[k] \in Pointer /\ in_block(m, to[k]) /\ content_of(m, to[k]) \in Value
    BY <1>4
  <2> QED
    BY <2>1, <2>2, <2>3 DEF Ready, Readable
<1>6. r = put_all(m, n, items, to, Value)
  BY <1>1 DEF copy_items
<1>7. PutsAt(m, r, n, items, b, place)
  <2>1. \A k \in 1..n : place[k] = t + (k - 1)
    BY <1>2
  <2>2. \A k \in 1..n : to[k] = << b, place[k] >> /\ place[k] \in Int
    BY <1>3, <2>1
  <2> QED
    BY <1>5, <1>6, <2>2, PutsInBlock
<1>8. CASE m.thrown
  BY <1>7, <1>8 DEF Within, PutsAt
<1>9. CASE ~m.thrown
  <2>1. PICK c \in 0..n :
               /\ ~r.thrown => c = n
               /\ \A k \in 1..c : r.cells[b][place[k]] = read(m, items[k])
               /\ \A x \in DOMAIN m.cells[b] \cap Int :
                     (\A k \in 1..c : place[k] # x) => r.cells[b][x] = m.cells[b][x]
    BY <1>7, <1>9 DEF PutsAt
  <2>2. \A x \in t..(t + c - 1) : r.cells[b][x] = read(m, items[x - t + 1]) /\ x - t + 1 \in 1..n
    <3> SUFFICES ASSUME NEW x \in t..(t + c - 1)
                 PROVE  r.cells[b][x] = read(m, items[x - t + 1]) /\ x - t + 1 \in 1..n
      OBVIOUS
    <3>1. x - t + 1 \in 1..c /\ x - t + 1 \in 1..n /\ place[x - t + 1] = x
      BY <1>2
    <3> QED
      BY <2>1, <3>1
  <2>3. \A x \in DOMAIN m.cells[b] : x \in Int /\ x \notin t..(t + c - 1) => r.cells[b][x] = m.cells[b][x]
    <3>1. \A x \in Int : x \notin t..(t + c - 1) => \A k \in 1..c : place[k] # x
      BY <1>2
    <3> QED
      BY <2>1, <3>1
  <2>4. Within(m, r, b, t, t + n)
    <3>1. \A x \in Int : x \notin t..(t + n - 1) => x \notin t..(t + c - 1)
      OBVIOUS
    <3> QED
      BY <1>7, <2>3, <3>1 DEF Within, PutsAt
  <2>5. \A k \in t..(t + n - 1) : r.cells[b][k] \in Value
    <3> SUFFICES ASSUME NEW x \in t..(t + n - 1)
                 PROVE  r.cells[b][x] \in Value
      OBVIOUS
    <3>1. CASE x \in t..(t + c - 1)
      BY <2>2, <3>1 DEF Readable
    <3>2. CASE x \notin t..(t + c - 1)
      BY <2>3, <3>2
    <3> QED
      BY <3>1, <3>2
  <2> QED
    BY <1>9, <2>1, <2>2, <2>4, <2>5
<1> QED
  BY <1>8, <1>9

Destroyed(m, r, b, f, l) ==
    /\ Within(m, r, b, f, l) /\ r.fuel = m.fuel /\ r.thrown = m.thrown
    /\ \A k \in f..(l - 1) : r.cells[b][k] = RAW

\* Elements are destroyed.
LEMMA DestroyIs ==
    ASSUME NEW m, IsMemory(m), ~m.fault, NEW b \in {0} \cup Block,
           NEW f \in Int, NEW l \in Int, f <= l, f..(l - 1) \subseteq DOMAIN m.cells[b],
           \A k \in f..(l - 1) : m.cells[b][k] \in Value,
           NEW r, r = destroy(m, << b, f >>, << b, l >>)
    PROVE  Destroyed(m, r, b, f, l)
<1> SUFFICES
           /\ Within(m, r, b, f, l) /\ r.fuel = m.fuel /\ r.thrown = m.thrown
           /\ \A k \in f..(l - 1) : r.cells[b][k] = RAW
  BY DEF Destroyed
<1>1. \A k \in 0..(minus(<< b, l >>, << b, f >>) - 1) : content_of(m, << b, f + k >>) # RAW
  <2> SUFFICES ASSUME NEW k \in 0..(l - f - 1)
               PROVE  content_of(m, << b, f + k >>) # RAW
    BY DEF minus
  <2>1. f + k \in f..(l - 1)
    OBVIOUS
  <2> QED
    BY <2>1, StlMemoryAssumption DEF content_of, in_block
<1>2. /\ DOMAIN r = DOMAIN m /\ r.fuel = m.fuel /\ r.thrown = m.thrown /\ r.fault = FALSE
      /\ r.cells = [m.cells EXCEPT ![b] = [k \in DOMAIN m.cells[b] |-> IF k \in f..(l - 1) THEN RAW
                                                                        ELSE m.cells[b][k]]]
  BY <1>1 DEF destroy, IsMemory
<1>3. DOMAIN r.cells = DOMAIN m.cells /\ DOMAIN m.cells = {0} \cup Block
  BY <1>2 DEF IsMemory
<1>4. r.cells[b] = [k \in DOMAIN m.cells[b] |-> IF k \in f..(l - 1) THEN RAW ELSE m.cells[b][k]]
  BY <1>2, <1>3
<1>5. \A a \in {0} \cup Block : a # b => r.cells[a] = m.cells[a]
  BY <1>2, <1>3
<1> QED
  BY <1>2, <1>3, <1>4, <1>5 DEF IsMemory, Within

\* The n raw cells from t on have the items, or something threw and nothing is changed.
Constructed(m, r, b, t, n, items) ==
    /\ Within(m, r, b, t, t + n)
    /\ m.thrown => r = m
    /\ r.thrown => Within(m, r, b, t, t)
    /\ ~r.thrown => \A k \in t..(t + n - 1) : r.cells[b][k] = read(m, items[k - t + 1])

\* uninitialized_copy and the like: raw cells get the items, or nothing is changed.
LEMMA UninitializedIs ==
    ASSUME NEW m, IsMemory(m), ~m.fault, NEW b \in {0} \cup Block, NEW items,
           NEW n \in Nat, Readable(m, n, items),
           NEW t \in Int, t..(t + n - 1) \subseteq DOMAIN m.cells[b],
           \A k \in t..(t + n - 1) : m.cells[b][k] = RAW,
           NEW r, r = uninitialized(m, n, items, << b, t >>)
    PROVE  Constructed(m, r, b, t, n, items)
<1> SUFFICES
           /\ Within(m, r, b, t, t + n)
           /\ m.thrown => r = m
           /\ r.thrown => Within(m, r, b, t, t)
           /\ ~r.thrown => \A k \in t..(t + n - 1) : r.cells[b][k] = read(m, items[k - t + 1])
  BY DEF Constructed
<1>1. PICK to : to = from(<< b, t >>, n)
  OBVIOUS
<1>2. PICK place : place = [k \in 1..n |-> t + (k - 1)]
  OBVIOUS
<1>3. \A k \in 1..n : to[k] = << b, t + (k - 1) >>
  BY <1>1 DEF from, plus
<1>4. ASSUME NEW k \in 1..n
      PROVE  /\ t + (k - 1) \in t..(t + n - 1) /\ to[k] \in Pointer /\ in_block(m, to[k])
             /\ content_of(m, to[k]) = RAW
  <2>1. t + (k - 1) \in t..(t + n - 1)
    OBVIOUS
  <2>2. to[k] = << b, t + (k - 1) >> /\ t + (k - 1) \in DOMAIN m.cells[b]
    BY <1>3, <2>1
  <2> QED
    BY <2>1, <2>2 DEF content_of, in_block, Pointer
<1>5. Ready(m, n, items, to, {RAW})
  <2>1. \A j, k \in 1..n : j < k => to[j] # to[k]
    BY <1>3
  <2>2. \A j, k \in 1..n : items[k] \notin Value => items[k] # to[j]
    <3> SUFFICES ASSUME NEW j \in 1..n, NEW k \in 1..n, items[k] \notin Value, items[k] = to[j]
                 PROVE  FALSE
      OBVIOUS
    <3>1. read(m, items[k]) = RAW
      BY <1>4 DEF read
    <3> QED
      BY <3>1, StlMemoryAssumption DEF Readable
  <2>3. \A k \in 1..n : to[k] \in Pointer /\ in_block(m, to[k]) /\ content_of(m, to[k]) \in {RAW}
    BY <1>4
  <2> QED
    BY <2>1, <2>2, <2>3 DEF Ready, Readable
<1>6. PICK s : s = put_all(m, n, items, to, {RAW})
  OBVIOUS
<1>7. PutsAt(m, s, n, items, b, place)
  <2>1. \A k \in 1..n : place[k] = t + (k - 1)
    BY <1>2
  <2>2. \A k \in 1..n : to[k] = << b, place[k] >> /\ place[k] \in Int
    BY <1>3, <2>1
  <2> QED
    BY <1>5, <1>6, <2>2, PutsInBlock
<1>8. r = IF ~m.thrown /\ s.thrown THEN destroy(s, << b, t >>, << b, t + (m.fuel - s.fuel) >>) ELSE s
  BY <1>1, <1>6 DEF uninitialized, copies, plus
<1>9. CASE m.thrown
  BY <1>7, <1>8, <1>9 DEF Within, PutsAt
<1>10. CASE ~m.thrown
  <2>1. PICK c \in 0..n :
               /\ s.fuel = m.fuel - c
               /\ ~s.thrown => c = n
               /\ \A k \in 1..c : s.cells[b][place[k]] = read(m, items[k])
               /\ \A x \in DOMAIN m.cells[b] \cap Int :
                     (\A k \in 1..c : place[k] # x) => s.cells[b][x] = m.cells[b][x]
    BY <1>7, <1>10 DEF PutsAt
  <2>2. ASSUME NEW x \in t..(t + c - 1)
        PROVE  s.cells[b][x] = read(m, items[x - t + 1]) /\ x - t + 1 \in 1..n
    <3>1. x - t + 1 \in 1..c /\ x - t + 1 \in 1..n /\ place[x - t + 1] = x
      BY <1>2
    <3> QED
      BY <2>1, <3>1
  <2>3. \A x \in DOMAIN m.cells[b] : x \in Int /\ x \notin t..(t + c - 1) => s.cells[b][x] = m.cells[b][x]
    <3>1. \A x \in Int : x \notin t..(t + c - 1) => \A k \in 1..c : place[k] # x
      BY <1>2
    <3> QED
      BY <2>1, <3>1
  <2>4. CASE ~s.thrown
    <3>1. r = s /\ c = n
      BY <1>8, <2>1, <2>4
    <3>2. Within(m, r, b, t, t + n)
      <4>1. \A x \in DOMAIN m.cells[b] : x \in Int /\ x \notin t..(t + n - 1) => r.cells[b][x] = m.cells[b][x]
        BY <2>3, <3>1
      <4>2. IsMemory(r) /\ ~r.fault /\ DOMAIN r.cells[b] = DOMAIN m.cells[b]
            /\ \A a \in {0} \cup Block : a # b => r.cells[a] = m.cells[a]
        BY <1>7, <3>1 DEF PutsAt
      <4> QED
        BY <4>1, <4>2 DEF Within
    <3> QED
      BY <1>10, <2>2, <2>4, <3>1, <3>2
  <2>5. CASE s.thrown
    <3>1. m.fuel - s.fuel = c /\ c \in Int
      BY <2>1 DEF IsMemory
    <3>2. r = destroy(s, << b, t >>, << b, t + c >>)
      BY <1>8, <1>10, <2>5, <3>1
    <3>3. IsMemory(s) /\ ~s.fault /\ DOMAIN s.cells[b] = DOMAIN m.cells[b]
          /\ \A a \in {0} \cup Block : a # b => s.cells[a] = m.cells[a]
      BY <1>7 DEF PutsAt
    <3>4. \A k \in t..(t + c - 1) : k \in DOMAIN s.cells[b] /\ s.cells[b][k] \in Value
      <4> SUFFICES ASSUME NEW k \in t..(t + c - 1)
                   PROVE  k \in DOMAIN s.cells[b] /\ s.cells[b][k] \in Value
        OBVIOUS
      <4>1. k \in t..(t + n - 1)
        OBVIOUS
      <4> QED
        BY <2>2, <3>3, <4>1 DEF Readable
    <3>5. t <= t + c /\ t + c \in Int /\ t..(t + c - 1) \subseteq DOMAIN s.cells[b]
      BY <3>1, <3>4
    <3>6. /\ Within(s, r, b, t, t + c) /\ r.thrown = s.thrown
          /\ \A k \in t..(t + c - 1) : r.cells[b][k] = RAW
      <4>1. PICK l \in Int : l = t + c
        BY <3>5
      <4>2. /\ r = destroy(s, << b, t >>, << b, l >>) /\ t <= l /\ t..(l - 1) \subseteq DOMAIN s.cells[b]
            /\ \A k \in t..(l - 1) : s.cells[b][k] \in Value
        BY <3>2, <3>4, <3>5, <4>1
      <4>3. Destroyed(s, r, b, t, l)
        BY <3>3, <4>2, DestroyIs
      <4> QED
        BY <4>1, <4>3 DEF Destroyed
    <3>7. \A x \in DOMAIN m.cells[b] : x \in Int => r.cells[b][x] = m.cells[b][x]
      <4> SUFFICES ASSUME NEW x \in DOMAIN m.cells[b], x \in Int
                   PROVE  r.cells[b][x] = m.cells[b][x]
        OBVIOUS
      <4>1. CASE x \in t..(t + c - 1)
        <5>1. x \in t..(t + n - 1)
          BY <4>1
        <5> QED
          BY <3>6, <4>1, <5>1
      <4>2. CASE x \notin t..(t + c - 1)
        BY <2>3, <3>3, <3>6, <4>2 DEF Within
      <4> QED
        BY <4>1, <4>2
    <3>8. Within(m, r, b, t, t) /\ Within(m, r, b, t, t + n)
      BY <3>3, <3>6, <3>7 DEF Within
    <3> QED
      BY <1>10, <2>5, <3>6, <3>8
  <2> QED
    BY <2>4, <2>5
<1> QED
  BY <1>9, <1>10

Deallocated(m, r, b, n) ==
    /\ IsMemory(r) /\ ~r.fault /\ r.fuel = m.fuel /\ r.thrown = m.thrown
    /\ \A a \in {0} \cup Block : a # b => r.cells[a] = m.cells[a]
    /\ r.cells[b] = IF n = 0 THEN m.cells[b] ELSE no_cells

\* A block is given back once its elements are destroyed.
LEMMA DeallocateIs ==
    ASSUME NEW m, IsMemory(m), ~m.fault, NEW b \in {0} \cup Block, NEW n \in Nat,
           DOMAIN m.cells[b] = 0..(n - 1), \A k \in 0..(n - 1) : m.cells[b][k] = RAW,
           NEW r, r = deallocate(m, << b, 0 >>, n)
    PROVE  Deallocated(m, r, b, n)
<1> SUFFICES
       /\ IsMemory(r) /\ ~r.fault /\ r.fuel = m.fuel /\ r.thrown = m.thrown
       /\ \A a \in {0} \cup Block : a # b => r.cells[a] = m.cells[a]
       /\ r.cells[b] = IF n = 0 THEN m.cells[b] ELSE no_cells
  BY DEF Deallocated
<1>1. CASE n = 0
  BY <1>1 DEF deallocate
<1>2. CASE n # 0
  <2>1. /\ DOMAIN r = DOMAIN m /\ r.fuel = m.fuel /\ r.thrown = m.thrown /\ r.fault = FALSE
        /\ r.cells = [m.cells EXCEPT ![b] = no_cells]
    BY <1>2 DEF deallocate, IsMemory
  <2>2. DOMAIN m.cells = {0} \cup Block
    BY DEF IsMemory
  <2> QED
    BY <1>2, <2>1, <2>2 DEF IsMemory
<1> QED
  BY <1>1, <1>2

\* malloc, as long as a block is free
LEMMA AllocateIs ==
    ASSUME NEW m, IsMemory(m), ~m.fault, NEW n \in Nat, n # 0,
           \E b \in Block : m.cells[b] = no_cells,
           NEW r, r = allocated(m, n)
    PROVE  \E b \in Block :
              /\ m.cells[b] = no_cells /\ allocate(m, n) = << b, 0 >>
              /\ IsMemory(r) /\ ~r.fault /\ r.fuel = m.fuel /\ r.thrown = m.thrown
              /\ \A a \in {0} \cup Block : a # b => r.cells[a] = m.cells[a]
              /\ DOMAIN r.cells[b] = 0..(n - 1)
              /\ \A k \in 0..(n - 1) : r.cells[b][k] = RAW
<1>1. PICK b \in Block : b = free_block(m) /\ m.cells[b] = no_cells
  BY DEF free_block
<1>2. allocate(m, n) = << b, 0 >>
  BY <1>1 DEF allocate
<1>3. /\ DOMAIN r = DOMAIN m /\ r.fuel = m.fuel /\ r.thrown = m.thrown /\ r.fault = m.fault
      /\ r.cells = [m.cells EXCEPT ![b] = [k \in 0..(n - 1) |-> RAW]]
  BY <1>1 DEF allocated, IsMemory
<1>4. DOMAIN m.cells = {0} \cup Block
  BY DEF IsMemory
<1>5. r.cells[b] = [k \in 0..(n - 1) |-> RAW] /\ \A a \in {0} \cup Block : a # b => r.cells[a] = m.cells[a]
  BY <1>3, <1>4
<1>6. IsMemory(r)
  BY <1>3, <1>4 DEF IsMemory
<1>7. DOMAIN r.cells[b] = 0..(n - 1) /\ \A k \in 0..(n - 1) : r.cells[b][k] = RAW
  BY <1>5
<1> QED
  BY <1>1, <1>2, <1>3, <1>5, <1>6, <1>7

\* ... in a block of len cells
SameOutside(m, r, b, lo, hi, len) ==
    /\ IsMemory(r) /\ ~r.fault /\ DOMAIN r.cells[b] = 0..(len - 1)
    /\ \A a \in {0} \cup Block : a # b => r.cells[a] = m.cells[a]
    /\ \A x \in 0..(len - 1) : x < lo \/ hi <= x => r.cells[b][x] = m.cells[b][x]

LEMMA WithinBlock ==
    ASSUME NEW m, NEW r, NEW b, NEW lo \in Int, NEW hi \in Int, NEW len \in Nat,
           Within(m, r, b, lo, hi), DOMAIN m.cells[b] = 0..(len - 1)
    PROVE  SameOutside(m, r, b, lo, hi, len)
<1>1. ASSUME NEW x \in 0..(len - 1), x < lo \/ hi <= x
      PROVE  r.cells[b][x] = m.cells[b][x]
  <2>1. x \in Int /\ x \notin lo..(hi - 1) /\ x \in DOMAIN m.cells[b]
    BY <1>1
  <2> QED
    BY <2>1 DEF Within
<1> QED
  BY <1>1 DEF Within, SameOutside

Stuck(m) == IsMemory(m) /\ m.thrown

\* After an exception nothing is constructed either.
LEMMA ThrownConstructsNothing ==
    ASSUME NEW m, Stuck(m), NEW n \in Nat, NEW items, NEW result,
           NEW r, r = uninitialized(m, n, items, result)
    PROVE  r = m
<1>1. PICK to, allowed : to = from(result, n) /\ allowed = {RAW}
  OBVIOUS
<1>2. put_all(m, n, items, to, allowed) = m
  BY ThrownPutsNothing DEF Stuck
<1> QED
  BY <1>1, <1>2 DEF uninitialized, Stuck

=============================================================================
