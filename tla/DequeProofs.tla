---------------------------- MODULE DequeProofs -----------------------------
(***************************************************************************)
(* The deque keeps its map, its buffers and their elements exact and holds *)
(* what its calls stored, in order, for any buffer size, any number of     *)
(* elements and blocks, whichever copy throws and whatever element of the  *)
(* deque itself a call is given.                                           *)
(*                                                                         *)
(* A cell is counted by its address, its distance from the first cell of   *)
(* node 0 of the map: an iterator is an address, its operators are         *)
(* additions, and a deque is the addresses from start to finish.  A lemma  *)
(* for each operation says at which addresses it leaves which elements.    *)
(***************************************************************************)
EXTENDS Deque, StlMemoryProofs

\* Addresses: the cells of the buffers in the order of the map

\* An address counts the cells from the first one of node 0 of the map on: this is
\* its node, and its place in the buffer there.
node_of(a) == a \div BufferSize
base(k) == BufferSize * k
offset_of(a) == a - base(node_of(a))

LEMMA AddressIs ==
    ASSUME NEW a \in Int
    PROVE  /\ node_of(a) \in Int /\ offset_of(a) \in 0..(BufferSize - 1)
           /\ offset_of(a) \in Nat /\ offset_of(a) < BufferSize
           /\ BufferSize \in Nat /\ BufferSize # 0
           /\ base(node_of(a)) \in Int /\ a = base(node_of(a)) + offset_of(a)
<1>1. PICK b \in Nat \ {0} : b = BufferSize
  BY DequeAssumption
<1>2. PICK n \in Int : n = a \div b
  BY <1>1
<1>3. b * n \in Int /\ b * n <= a /\ a < b * n + b
  BY <1>1, <1>2
<1> QED
  BY <1>1, <1>2, <1>3 DEF node_of, base, offset_of

LEMMA AddressParts ==
    ASSUME NEW a \in Int
    PROVE  \E i \in Int, o \in Nat : /\ i = node_of(a) /\ o = offset_of(a) /\ o < BufferSize
                                    /\ a = base(i) + o /\ base(i) \in Int
<1>1. PICK i, o : i = node_of(a) /\ o = offset_of(a)
  OBVIOUS
<1>2. i \in Int /\ o \in Nat /\ o < BufferSize /\ a = base(i) + o /\ base(i) \in Int
  BY <1>1, AddressIs
<1> QED
  BY <1>1, <1>2

LEMMA BaseSum ==
    ASSUME NEW i \in Int, NEW j \in Int
    PROVE  /\ base(i) \in Int /\ base(j) \in Int /\ base(i + j) = base(i) + base(j)
           /\ base(i - j) = base(i) - base(j)
           /\ base(i + 1) = base(i) + BufferSize /\ base(i - 1) = base(i) - BufferSize
           /\ base(0) = 0 /\ BufferSize \in Nat /\ BufferSize # 0
<1>1. PICK b \in Nat \ {0} : b = BufferSize
  BY DequeAssumption
<1>2. /\ b * i \in Int /\ b * j \in Int /\ b * (i + j) = b * i + b * j /\ b * (i - j) = b * i - b * j
      /\ b * (i + 1) = b * i + b /\ b * (i - 1) = b * i - b /\ b * 0 = 0
  BY <1>1
<1> QED
  BY <1>1, <1>2 DEF base

LEMMA BaseOrder ==
    ASSUME NEW i \in Int, NEW j \in Int, i < j
    PROVE  base(i) + BufferSize <= base(j)
<1>1. PICK b \in Nat \ {0} : b = BufferSize
  BY DequeAssumption
<1>2. PICK k \in Nat : j = i + (1 + k)
  <2>1. j - i - 1 \in Nat /\ j = i + (1 + (j - i - 1))
    OBVIOUS
  <2> QED
    BY <2>1
<1>3. b * j = b * i + b + b * k /\ b * k >= 0 /\ b * i \in Int
  BY <1>1, <1>2
<1> QED
  BY <1>1, <1>3 DEF base

\* A place in the buffer of a node is the address it is computed from.
LEMMA AddressOf ==
    ASSUME NEW k \in Int, NEW o \in 0..(BufferSize - 1)
    PROVE  /\ base(k) + o \in Int
           /\ node_of(base(k) + o) = k /\ offset_of(base(k) + o) = o
<1>0. base(k) \in Int /\ o \in Int
  BY BaseSum
<1>1. PICK a \in Int : a = base(k) + o
  BY <1>0
<1>2. PICK n \in Int, p \in 0..(BufferSize - 1) : n = node_of(a) /\ p = offset_of(a) /\ a = base(n) + p
  BY AddressIs
<1>3. base(k) \in Int /\ base(n) \in Int /\ BufferSize \in Nat
  BY BaseSum
<1>4. ~(n < k)
  <2>1. n < k => base(n) + BufferSize <= base(k)
    BY BaseOrder
  <2> QED
    BY <1>1, <1>2, <1>3, <2>1
<1>5. ~(k < n)
  <2>1. k < n => base(k) + BufferSize <= base(n)
    BY BaseOrder
  <2> QED
    BY <1>1, <1>2, <1>3, <2>1
<1>6. n = k
  BY <1>4, <1>5
<1> QED
  BY <1>1, <1>2, <1>3, <1>6

\* A number of buffers further on the place in the buffer is the same.
LEMMA AddressShifted ==
    ASSUME NEW a \in Int, NEW k \in Int
    PROVE  /\ a + base(k) \in Int
           /\ node_of(a + base(k)) = node_of(a) + k /\ offset_of(a + base(k)) = offset_of(a)
<1>1. PICK n \in Int, o \in 0..(BufferSize - 1) : n = node_of(a) /\ o = offset_of(a) /\ a = base(n) + o
  BY AddressIs
<1>2. a + base(k) = base(n + k) + o /\ n + k \in Int /\ base(k) \in Int
  <2>1. base(n + k) = base(n) + base(k) /\ base(n) \in Int /\ base(k) \in Int
    BY BaseSum
  <2> QED
    BY <1>1, <2>1
<1>3. base(n + k) + o \in Int /\ node_of(base(n + k) + o) = n + k /\ offset_of(base(n + k) + o) = o
  BY <1>2, AddressOf
<1> QED
  BY <1>1, <1>2, <1>3

\* The next address is in the same buffer or at the beginning of the next one.
LEMMA AddressNext ==
    ASSUME NEW a \in Int
    PROVE  /\ offset_of(a) + 1 < BufferSize
                => node_of(a + 1) = node_of(a) /\ offset_of(a + 1) = offset_of(a) + 1
           /\ offset_of(a) + 1 = BufferSize => node_of(a + 1) = node_of(a) + 1 /\ offset_of(a + 1) = 0
           /\ offset_of(a) # 0 => node_of(a - 1) = node_of(a) /\ offset_of(a - 1) = offset_of(a) - 1
           /\ offset_of(a) = 0 => /\ node_of(a - 1) = node_of(a) - 1
                                  /\ offset_of(a - 1) = BufferSize - 1
<1>1. PICK n \in Int, o \in 0..(BufferSize - 1) : n = node_of(a) /\ o = offset_of(a) /\ a = base(n) + o
  BY AddressIs
<1>2. /\ base(n) \in Int /\ base(n + 1) = base(n) + BufferSize /\ base(n - 1) = base(n) - BufferSize
      /\ BufferSize \in Nat /\ BufferSize # 0
  BY BaseSum
<1>3. ASSUME o + 1 < BufferSize
      PROVE  node_of(a + 1) = n /\ offset_of(a + 1) = o + 1
  <2>1. o + 1 \in 0..(BufferSize - 1) /\ a + 1 = base(n) + (o + 1)
    BY <1>1, <1>2, <1>3
  <2> QED
    BY <2>1, AddressOf
<1>4. ASSUME o + 1 = BufferSize
      PROVE  node_of(a + 1) = n + 1 /\ offset_of(a + 1) = 0
  <2>1. 0 \in 0..(BufferSize - 1) /\ a + 1 = base(n + 1) + 0 /\ n + 1 \in Int
    BY <1>1, <1>2, <1>4
  <2> QED
    BY <2>1, AddressOf
<1>5. ASSUME o # 0
      PROVE  node_of(a - 1) = n /\ offset_of(a - 1) = o - 1
  <2>1. o - 1 \in 0..(BufferSize - 1) /\ a - 1 = base(n) + (o - 1)
    BY <1>1, <1>2, <1>5
  <2> QED
    BY <2>1, AddressOf
<1>6. ASSUME o = 0
      PROVE  node_of(a - 1) = n - 1 /\ offset_of(a - 1) = BufferSize - 1
  <2>1. BufferSize - 1 \in 0..(BufferSize - 1) /\ a - 1 = base(n - 1) + (BufferSize - 1) /\ n - 1 \in Int
    BY <1>1, <1>2, <1>6
  <2> QED
    BY <2>1, AddressOf
<1> QED
  BY <1>1, <1>3, <1>4, <1>5, <1>6

\* Addresses and nodes have the same order, and no address lies between two of a buffer.
LEMMA AddressOrder ==
    ASSUME NEW a \in Int, NEW b \in Int, a <= b
    PROVE  /\ node_of(a) <= node_of(b)
           /\ node_of(a) = node_of(b) => offset_of(b) = offset_of(a) + (b - a)
           /\ base(node_of(b)) - base(node_of(a)) = (b - offset_of(b)) - (a - offset_of(a))
<1>1. PICK n \in Int, o \in 0..(BufferSize - 1) : n = node_of(a) /\ o = offset_of(a) /\ a = base(n) + o
  BY AddressIs
<1>2. PICK i \in Int, p \in 0..(BufferSize - 1) : i = node_of(b) /\ p = offset_of(b) /\ b = base(i) + p
  BY AddressIs
<1>3. base(n) \in Int /\ base(i) \in Int /\ BufferSize \in Nat
  BY BaseSum
<1>4. i < n => base(i) + BufferSize <= base(n)
  BY BaseOrder
<1> QED
  BY <1>1, <1>2, <1>3, <1>4

\* A deque with its four fields and a map of pointers to where blocks begin
IsDeque(d) ==
    /\ DOMAIN d = {"m", "map", "start", "finish"}
    /\ \E n \in Nat : DOMAIN d.map = 0..(n - 1)
    /\ \A k \in DOMAIN d.map : d.map[k] \in Pointer /\ d.map[k][2] = 0

block_of(d, k) == slot(d, k)[1]

\* The cell at an address, the iterator that points there, and what is stored there
cell_at(d, a) == << block_of(d, node_of(a)), offset_of(a) >>

iterator(d, a) ==
    [cur |-> cell_at(d, a), first |-> slot(d, node_of(a)),
     last |-> plus(slot(d, node_of(a)), BufferSize), node |-> node_of(a)]

content(d, a) == content_of(d.m, cell_at(d, a))

LEMMA SlotIs ==
    ASSUME NEW d, IsDeque(d), NEW k
    PROVE  /\ block_of(d, k) \in {0} \cup Block /\ slot(d, k) = << block_of(d, k), 0 >>
           /\ slot(d, k)[1] = block_of(d, k) /\ slot(d, k)[2] = 0
<1>1. PICK p : p = slot(d, k)
  OBVIOUS
<1>2. p \in Pointer /\ p[2] = 0
  <2>1. CASE k \in DOMAIN d.map
    BY <1>1, <2>1 DEF IsDeque, slot
  <2>2. CASE k \notin DOMAIN d.map
    BY <1>1, <2>2 DEF slot, null, Pointer
  <2> QED
    BY <2>1, <2>2
<1>3. PICK b \in {0} \cup Block, j \in Int : p = << b, j >> /\ p[1] = b /\ p[2] = j
  BY <1>2, PointerIs
<1> QED
  BY <1>1, <1>2, <1>3 DEF block_of

LEMMA IteratorIs ==
    ASSUME NEW d, IsDeque(d), NEW a
    PROVE  iterator(d, a) =
              [cur |-> << block_of(d, node_of(a)), offset_of(a) >>,
               first |-> << block_of(d, node_of(a)), 0 >>,
               last |-> << block_of(d, node_of(a)), BufferSize >>, node |-> node_of(a)]
<1>1. PICK i, b : i = node_of(a) /\ b = block_of(d, i)
  OBVIOUS
<1>2. slot(d, i) = << b, 0 >>
  BY <1>1, SlotIs
<1>3. plus(<< b, 0 >>, BufferSize) = << b, BufferSize >>
  BY DequeAssumption DEF plus
<1> QED
  BY <1>1, <1>2, <1>3 DEF iterator, cell_at

LEMMA SetNodeIs ==
    ASSUME NEW d, IsDeque(d), NEW k, NEW p, NEW f, NEW l, NEW i, NEW it,
           it = [cur |-> p, first |-> f, last |-> l, node |-> i]
    PROVE  set_node(d, it, k) =
              [cur |-> p, first |-> slot(d, k), last |-> plus(slot(d, k), BufferSize), node |-> k]
<1>1. PICK x, y : x = slot(d, k) /\ y = plus(slot(d, k), BufferSize)
  OBVIOUS
<1>2. set_node(d, it, k) = [it EXCEPT !.node = k, !.first = x, !.last = y]
  BY <1>1, Zenon DEF set_node
<1>3. PICK u : u = [it EXCEPT !.node = k, !.first = x, !.last = y]
  OBVIOUS
<1>4. DOMAIN u = {"cur", "first", "last", "node"} /\ u.cur = p /\ u.first = x /\ u.last = y /\ u.node = k
  BY <1>3
<1>5. u = [j \in {"cur", "first", "last", "node"} |-> u[j]]
  BY <1>3, <1>4
<1>6. u = [cur |-> p, first |-> x, last |-> y, node |-> k]
  BY <1>4, <1>5
<1> QED
  BY <1>1, <1>2, <1>3, <1>6

\* The operators on iterators compute with addresses.
LEMMA AdvanceIs ==
    ASSUME NEW d, IsDeque(d), NEW a \in Int, NEW n \in Int
    PROVE  advance(d, iterator(d, a), n) = iterator(d, a + n)
<1>1. PICK it : it = iterator(d, a)
  OBVIOUS
<1>2. PICK i \in Int, o \in Nat : /\ i = node_of(a) /\ o = offset_of(a) /\ o < BufferSize
                                  /\ a = base(i) + o /\ base(i) \in Int
  BY AddressParts
<1>3. BufferSize \in Nat /\ BufferSize # 0
  BY BaseSum
<1>4. PICK b \in {0} \cup Block : b = block_of(d, i) /\ slot(d, i) = << b, 0 >>
  BY SlotIs
<1>5. it = [cur |-> << b, o >>, first |-> << b, 0 >>, last |-> << b, BufferSize >>, node |-> i]
  BY <1>1, <1>2, <1>4, IteratorIs
<1>6. minus(it.cur, it.first) = o
  <2>1. it.cur = << b, o >> /\ it.first = << b, 0 >>
    BY <1>5
  <2>2. o - 0 = o
    BY <1>2
  <2> QED
    BY <2>1, <2>2 DEF minus
<1>7. n + o \in Int
  BY <1>2, <1>3
<1>8. PICK j \in Int, p \in Nat : /\ j = node_of(n + o) /\ p = offset_of(n + o) /\ p < BufferSize
                                  /\ n + o = base(j) + p /\ base(j) \in Int
  BY <1>7, AddressParts
<1>9. base(j) \in Int /\ base(i + j) = base(i) + base(j) /\ i + j \in Int /\ base(i + j) \in Int
  BY BaseSum
<1>10. node_of(a + n) = i + j /\ offset_of(a + n) = p
  <2>1. a + n = base(i + j) + p
    <3>1. a = base(i) + o /\ n + o = base(j) + p /\ base(i) \in Int /\ base(j) \in Int
      BY <1>2, <1>8
    <3> QED
      BY <1>9, <3>1
  <2>2. p \in 0..(BufferSize - 1)
    BY <1>3, <1>8
  <2> QED
    BY <1>9, <2>1, <2>2, AddressOf
<1>11. /\ (n + o) \div BufferSize = j
       /\ (n + o) - j * BufferSize = p
  <2>1. j * BufferSize = base(j)
    BY <1>3 DEF base
  <2>2. (n + o) \div BufferSize = j
    BY <1>8 DEF node_of
  <2> QED
    BY <1>2, <1>3, <1>8, <1>9, <2>1, <2>2
<1>12. CASE j = 0
  <2>1. advance(d, it, n) = [it EXCEPT !.cur = plus(it.cur, n)]
    BY <1>6, <1>11, <1>12 DEF advance
  <2>2. plus(it.cur, n) = << b, p >>
    <3>1. base(j) = 0
      BY <1>12, BaseSum, 0 \in Int
    <3>2. o + n = p
      BY <1>2, <1>8, <3>1
    <3> QED
      BY <1>5, <3>2 DEF plus
  <2>3. advance(d, it, n) = [cur |-> << b, p >>, first |-> << b, 0 >>, last |-> << b, BufferSize >>, node |-> i]
    BY <1>5, <2>1, <2>2
  <2>4. i + j = i
    BY <1>12
  <2>5. iterator(d, a + n) = [cur |-> << b, p >>, first |-> << b, 0 >>, last |-> << b, BufferSize >>, node |-> i]
    BY <1>4, <1>10, <2>4, IteratorIs
  <2> QED
    BY <1>1, <2>3, <2>5
<1>13. CASE j # 0
  <2>1. PICK c \in {0} \cup Block : c = block_of(d, i + j) /\ slot(d, i + j) = << c, 0 >>
    BY SlotIs
  <2>2. it.node = i
    BY <1>5
  <2>3. PICK moved : moved = set_node(d, it, i + j)
    OBVIOUS
  <2>4. moved = [cur |-> << b, o >>, first |-> << c, 0 >>, last |-> << c, BufferSize >>, node |-> i + j]
    <3>1. set_node(d, it, i + j) = [cur |-> << b, o >>, first |-> slot(d, i + j),
                                    last |-> plus(slot(d, i + j), BufferSize), node |-> i + j]
      BY <1>5, SetNodeIs
    <3> QED
      BY <1>3, <2>1, <2>3, <3>1 DEF plus
  <2>5. advance(d, it, n) = [moved EXCEPT !.cur = plus(moved.first, p)]
    BY <1>6, <1>11, <1>13, <2>2, <2>3 DEF advance
  <2>6. plus(moved.first, p) = << c, p >>
    BY <1>3, <1>8, <2>4 DEF plus
  <2>7. advance(d, it, n) = [cur |-> << c, p >>, first |-> << c, 0 >>, last |-> << c, BufferSize >>, node |-> i + j]
    BY <2>4, <2>5, <2>6
  <2>8. iterator(d, a + n) = [cur |-> << c, p >>, first |-> << c, 0 >>, last |-> << c, BufferSize >>, node |-> i + j]
    BY <1>10, <2>1, IteratorIs
  <2> QED
    BY <1>1, <2>7, <2>8
<1> QED
  BY <1>12, <1>13

LEMMA IncrementIs ==
    ASSUME NEW d, IsDeque(d), NEW a \in Int
    PROVE  increment(d, iterator(d, a)) = iterator(d, a + 1)
<1>1. PICK it : it = iterator(d, a)
  OBVIOUS
<1>2. PICK i \in Int, o \in Nat : /\ i = node_of(a) /\ o = offset_of(a) /\ o < BufferSize
                                  /\ a = base(i) + o /\ base(i) \in Int
  BY AddressParts
<1>3. BufferSize \in Nat /\ BufferSize # 0
  BY BaseSum
<1>4. PICK b \in {0} \cup Block : b = block_of(d, i) /\ slot(d, i) = << b, 0 >>
  BY SlotIs
<1>5. it = [cur |-> << b, o >>, first |-> << b, 0 >>, last |-> << b, BufferSize >>, node |-> i]
  BY <1>1, <1>2, <1>4, IteratorIs
<1>6. PICK c \in {0} \cup Block : c = block_of(d, i + 1) /\ slot(d, i + 1) = << c, 0 >>
  BY SlotIs
<1>7. PICK moved : moved = set_node(d, it, it.node + 1)
  OBVIOUS
<1>8. moved = [cur |-> << b, o >>, first |-> << c, 0 >>, last |-> << c, BufferSize >>, node |-> i + 1]
  <2>1. set_node(d, it, i + 1) = [cur |-> << b, o >>, first |-> slot(d, i + 1),
                                  last |-> plus(slot(d, i + 1), BufferSize), node |-> i + 1]
    BY <1>5, SetNodeIs
  <2>2. it.node = i
    BY <1>5
  <2> QED
    BY <1>3, <1>6, <1>7, <2>1, <2>2 DEF plus
<1>9. plus(it.cur, 1) = << b, o + 1 >> /\ it.last = << b, BufferSize >>
  BY <1>5 DEF plus
<1>10. CASE o + 1 = BufferSize
  <2>1. increment(d, it) = [moved EXCEPT !.cur = moved.first]
    BY <1>7, <1>9, <1>10 DEF increment
  <2>2. increment(d, it) = [cur |-> << c, 0 >>, first |-> << c, 0 >>, last |-> << c, BufferSize >>, node |-> i + 1]
    BY <1>8, <2>1
  <2>3. node_of(a + 1) = i + 1 /\ offset_of(a + 1) = 0
    BY <1>2, <1>10, AddressNext
  <2>4. iterator(d, a + 1) = [cur |-> << c, 0 >>, first |-> << c, 0 >>, last |-> << c, BufferSize >>, node |-> i + 1]
    BY <1>6, <2>3, IteratorIs
  <2> QED
    BY <1>1, <2>2, <2>4
<1>11. CASE o + 1 # BufferSize
  <2>1. << b, o + 1 >> # << b, BufferSize >>
    BY <1>11
  <2>2. increment(d, it) = [it EXCEPT !.cur = plus(it.cur, 1)]
    BY <1>7, <1>9, <2>1 DEF increment
  <2>3. increment(d, it) = [cur |-> << b, o + 1 >>, first |-> << b, 0 >>, last |-> << b, BufferSize >>, node |-> i]
    BY <1>5, <1>9, <2>2
  <2>4. node_of(a + 1) = i /\ offset_of(a + 1) = o + 1
    <3>1. o + 1 < BufferSize
      BY <1>2, <1>3, <1>11
    <3> QED
      BY <1>2, <3>1, AddressNext
  <2>5. iterator(d, a + 1) = [cur |-> << b, o + 1 >>, first |-> << b, 0 >>, last |-> << b, BufferSize >>, node |-> i]
    BY <1>4, <2>4, IteratorIs
  <2> QED
    BY <1>1, <2>3, <2>5
<1> QED
  BY <1>10, <1>11

-----------------------------------------------------------------------------
\* The buffers and the elements in them

\* The buffers of the nodes N are different blocks and the only ones, and there are
\* elements at the addresses E and nowhere else.
Store(d, N, E) ==
    /\ IsDeque(d) /\ IsMemory(d.m) /\ ~d.m.fault
    /\ N \subseteq DOMAIN d.map /\ N \subseteq Int
    /\ \A k \in N : block_of(d, k) \in Block /\ DOMAIN d.m.cells[block_of(d, k)] = 0..(BufferSize - 1)
    /\ \A j, k \in N : block_of(d, j) = block_of(d, k) => j = k
    /\ \A b \in {0} \cup Block : (\A k \in N : block_of(d, k) # b) => d.m.cells[b] = no_cells
    /\ E \subseteq Int /\ \A a \in E : node_of(a) \in N
    /\ \A a \in Int : node_of(a) \in N => /\ a \in E => content(d, a) \in Value
                                          /\ a \notin E => content(d, a) = RAW

\* The cell at an address of a buffer
CellThere(d, a, b, o) ==
    /\ cell_at(d, a) = << b, o >> /\ cell_at(d, a) \in Pointer /\ cell_at(d, a) \notin Value
    /\ in_block(d.m, cell_at(d, a)) /\ o \in DOMAIN d.m.cells[b]
    /\ content(d, a) = d.m.cells[b][o]

LEMMA CellIs ==
    ASSUME NEW d, NEW N, NEW E, Store(d, N, E), NEW a \in Int, node_of(a) \in N
    PROVE  \E b \in Block, o \in Nat : /\ b = block_of(d, node_of(a)) /\ o = offset_of(a)
                                       /\ o < BufferSize /\ CellThere(d, a, b, o)
<1>1. PICK i \in Int, o \in Nat : /\ i = node_of(a) /\ o = offset_of(a) /\ o < BufferSize
                                  /\ a = base(i) + o /\ base(i) \in Int
  BY AddressParts
<1>2. PICK b \in Block : b = block_of(d, i) /\ DOMAIN d.m.cells[b] = 0..(BufferSize - 1)
  BY <1>1 DEF Store
<1>3. cell_at(d, a) = << b, o >>
  BY <1>1, <1>2 DEF cell_at
<1>4. << b, o >> \in Pointer /\ << b, o >> \notin Value
  <2>1. b \in {0} \cup Block /\ o \in Int
    OBVIOUS
  <2> QED
    BY <2>1, ReadIs DEF Pointer
<1>5. o \in 0..(BufferSize - 1)
  BY <1>1, DequeAssumption
<1>6. in_block(d.m, << b, o >>) /\ content_of(d.m, << b, o >>) = d.m.cells[b][o]
  BY <1>2, <1>5 DEF in_block, content_of
<1>7. CellThere(d, a, b, o)
  BY <1>2, <1>3, <1>4, <1>5, <1>6 DEF CellThere, content
<1> QED
  BY <1>1, <1>2, <1>7

\* Different addresses are different cells.
LEMMA CellsApart ==
    ASSUME NEW d, NEW N, NEW E, Store(d, N, E), NEW a \in Int, node_of(a) \in N,
           NEW b \in Int, node_of(b) \in N, cell_at(d, a) = cell_at(d, b)
    PROVE  a = b
<1>1. PICK i \in Int, o \in Nat : /\ i = node_of(a) /\ o = offset_of(a) /\ o < BufferSize
                                  /\ a = base(i) + o /\ base(i) \in Int
  BY AddressParts
<1>2. PICK j \in Int, p \in Nat : /\ j = node_of(b) /\ p = offset_of(b) /\ p < BufferSize
                                  /\ b = base(j) + p /\ base(j) \in Int
  BY AddressParts
<1>3. << block_of(d, i), o >> = << block_of(d, j), p >>
  BY <1>1, <1>2 DEF cell_at
<1>4. block_of(d, i) = block_of(d, j) /\ o = p
  BY <1>3
<1>5. i = j
  BY <1>1, <1>2, <1>4 DEF Store
<1> QED
  BY <1>1, <1>2, <1>4, <1>5

\* r is d with another memory, in which the same blocks are allocated.
Alike(d, r) == IsDeque(r) /\ r.map = d.map /\ r.start = d.start /\ r.finish = d.finish

SameShape(m, r) ==
    /\ IsMemory(r) /\ ~r.fault
    /\ \A b \in {0} \cup Block : DOMAIN r.cells[b] = DOMAIN m.cells[b]
    /\ \A b \in {0} \cup Block : m.cells[b] = no_cells => r.cells[b] = no_cells

LEMMA AlikeCells ==
    ASSUME NEW d, NEW r, Alike(d, r), NEW a
    PROVE  /\ slot(r, a) = slot(d, a) /\ block_of(r, a) = block_of(d, a)
           /\ cell_at(r, a) = cell_at(d, a) /\ iterator(r, a) = iterator(d, a)
  BY DEF Alike, slot, block_of, cell_at, iterator

LEMMA WithIs ==
    ASSUME NEW d, IsDeque(d), NEW m, NEW r, r = with(d, m)
    PROVE  Alike(d, r) /\ r.m = m
<1>1. r.m = m /\ r.map = d.map /\ r.start = d.start /\ r.finish = d.finish
      /\ DOMAIN r = {"m", "map", "start", "finish"}
  BY DEF with, IsDeque
<1> QED
  BY <1>1 DEF Alike, IsDeque

LEMMA AlikeTrans ==
    ASSUME NEW d, NEW r, NEW s, Alike(d, r), Alike(r, s)
    PROVE  Alike(d, s)
  BY DEF Alike

LEMMA StoreAfter ==
    ASSUME NEW d, NEW N, NEW E, Store(d, N, E), NEW r, Alike(d, r), SameShape(d.m, r.m),
           NEW F, F \subseteq Int, \A a \in F : node_of(a) \in N,
           \A a \in Int : node_of(a) \in N => /\ a \in F => content(r, a) \in Value
                                              /\ a \notin F => content(r, a) = RAW
    PROVE  Store(r, N, F)
<1>1. \A k : block_of(r, k) = block_of(d, k)
  BY AlikeCells
<1>2. IsDeque(r) /\ IsMemory(r.m) /\ ~r.m.fault /\ N \subseteq DOMAIN r.map /\ N \subseteq Int
  BY DEF Store, Alike, SameShape
<1>3. \A k \in N : block_of(r, k) \in Block /\ DOMAIN r.m.cells[block_of(r, k)] = 0..(BufferSize - 1)
  BY <1>1 DEF Store, SameShape
<1>4. \A j, k \in N : block_of(r, j) = block_of(r, k) => j = k
  BY <1>1 DEF Store
<1>5. \A b \in {0} \cup Block : (\A k \in N : block_of(r, k) # b) => r.m.cells[b] = no_cells
  BY <1>1 DEF Store, SameShape
<1> QED
  BY <1>2, <1>3, <1>4, <1>5 DEF Store

\* The elements at A are the same.
Kept(d, r, A) == \A a \in A : content(r, a) = content(d, a)

\* Only the fuel and what was thrown differ.
SameCells(m, r) == IsMemory(r) /\ r.cells = m.cells /\ r.fault = m.fault

LEMMA StoreSameCells ==
    ASSUME NEW d, NEW N, NEW E, Store(d, N, E), NEW r, Alike(d, r), SameCells(d.m, r.m)
    PROVE  Store(r, N, E) /\ \A a : content(r, a) = content(d, a)
<1>1. \A a : content(r, a) = content(d, a)
  BY AlikeCells DEF content, content_of, in_block, SameCells
<1>2. SameShape(d.m, r.m)
  BY DEF SameShape, SameCells, Store
<1>3. Store(r, N, E)
  <2>1. E \subseteq Int /\ \A a \in E : node_of(a) \in N
    BY DEF Store
  <2>2. \A a \in Int : node_of(a) \in N => /\ a \in E => content(r, a) \in Value
                                           /\ a \notin E => content(r, a) = RAW
    BY <1>1 DEF Store
  <2> QED
    BY <1>2, <2>1, <2>2, StoreAfter
<1> QED
  BY <1>1, <1>3

LEMMA TemporaryIs ==
    ASSUME NEW m, IsMemory(m), ~m.thrown, NEW r, r = temporary(m)
    PROVE  /\ SameCells(m, r) /\ r.thrown \in BOOLEAN
           /\ ~r.thrown => m.fuel # 0 /\ r.fuel = m.fuel - 1
<1>1. CASE m.fuel = 0
  <2>1. r = [m EXCEPT !.thrown = TRUE]
    BY <1>1 DEF temporary
  <2>2. r.cells = m.cells /\ r.fault = m.fault /\ r.fuel = m.fuel /\ r.thrown = TRUE /\ DOMAIN r = DOMAIN m
    BY <2>1 DEF IsMemory
  <2> QED
    BY <2>2 DEF SameCells, IsMemory
<1>2. CASE m.fuel # 0
  <2>1. r = [m EXCEPT !.fuel = @ - 1]
    BY <1>2 DEF temporary
  <2>2. /\ r.cells = m.cells /\ r.fault = m.fault /\ r.fuel = m.fuel - 1 /\ r.thrown = m.thrown
        /\ DOMAIN r = DOMAIN m
    BY <2>1 DEF IsMemory
  <2>3. r.fuel \in Nat
    BY <1>2, <2>2 DEF IsMemory
  <2> QED
    BY <1>2, <2>2, <2>3 DEF SameCells, IsMemory
<1> QED
  BY <1>1, <1>2

\* A copy of v to the address a: it threw, and nothing changed, or it is there.
Constructs(d, r, N, E, a, v) ==
    /\ Alike(d, r)
    /\ r.m.thrown => Store(r, N, E) /\ \A x : content(r, x) = content(d, x)
    /\ ~r.m.thrown => Store(r, N, E \cup {a}) /\ content(r, a) = v /\ Kept(d, r, E)

LEMMA StoredKeeps ==
    ASSUME NEW d, NEW N, NEW E, Store(d, N, E), NEW a \in Int, node_of(a) \in N, NEW v \in Value,
           a \notin E, NEW r, Alike(d, r), Stored(d.m, r.m, cell_at(d, a), v)
    PROVE  Store(r, N, E \cup {a}) /\ content(r, a) = v /\ Kept(d, r, E)
<1>1. PICK b \in Block, o \in Nat : CellThere(d, a, b, o)
  BY CellIs
<1>2. /\ cell_at(d, a) = << b, o >> /\ cell_at(d, a) \in Pointer /\ o \in DOMAIN d.m.cells[b]
  BY <1>1 DEF CellThere
<1>3. SameShape(d.m, r.m)
  <2>1. d.m.cells[b] # no_cells
    BY <1>2, NoCells
  <2>2. \A c \in {0} \cup Block : b # c => r.m.cells[c] = d.m.cells[c]
    BY <1>2 DEF Stored
  <2>3. \A c \in {0} \cup Block : d.m.cells[c] = no_cells => r.m.cells[c] = no_cells
    BY <2>1, <2>2
  <2> QED
    BY <2>3 DEF Stored, SameShape
<1>4. content(r, a) = v
  BY AlikeCells DEF Stored, content
<1>5. ASSUME NEW x \in Int, node_of(x) \in N, x # a
      PROVE  content(r, x) = content(d, x)
  <2>1. cell_at(d, x) # cell_at(d, a)
    BY <1>5, CellsApart
  <2>2. cell_at(d, x) \in Pointer
    BY <1>5, CellIs DEF CellThere
  <2> QED
    BY <2>1, <2>2, AlikeCells DEF Stored, content
<1>6. \A x \in Int : node_of(x) \in N => /\ x \in E \cup {a} => content(r, x) \in Value
                                         /\ x \notin E \cup {a} => content(r, x) = RAW
  BY <1>4, <1>5 DEF Store
<1>7. E \cup {a} \subseteq Int /\ \A x \in E \cup {a} : node_of(x) \in N
  BY DEF Store
<1>8. Store(r, N, E \cup {a})
  BY <1>3, <1>6, <1>7, StoreAfter
<1>9. Kept(d, r, E)
  BY <1>5 DEF Kept, Store
<1> QED
  BY <1>4, <1>8, <1>9

LEMMA ConstructIs ==
    ASSUME NEW d, NEW N, NEW E, Store(d, N, E), ~d.m.thrown, NEW a \in Int, node_of(a) \in N,
           a \notin E, NEW v \in Value, NEW r, r = with(d, construct(d.m, cell_at(d, a), v))
    PROVE  Constructs(d, r, N, E, a, v)
<1>1. PICK m, p, n : m = d.m /\ p = cell_at(d, a) /\ n = temporary(m)
  OBVIOUS
<1>2. IsMemory(m) /\ ~m.fault /\ ~m.thrown /\ IsDeque(d)
  BY <1>1 DEF Store
<1>3. SameCells(m, n) /\ n.thrown \in BOOLEAN /\ (~n.thrown => m.fuel # 0)
  BY <1>1, <1>2, TemporaryIs
<1>4. Alike(d, r) /\ r.m = put(m, p, v, {RAW})
  <2>1. construct(m, p, v) = put(m, p, v, {RAW})
    BY <1>2 DEF construct
  <2> QED
    BY <1>1, <1>2, <2>1, WithIs
<1>5. CASE n.thrown
  <2>1. r.m = n
    BY <1>1, <1>4, <1>5 DEF put
  <2> QED
    BY <1>1, <1>3, <1>4, <1>5, <2>1, StoreSameCells DEF Constructs
<1>6. CASE ~n.thrown
  <2>1. p \in Pointer /\ in_block(m, p)
    BY <1>1, CellIs DEF CellThere
  <2>2. content_of(m, p) \in {RAW}
    BY <1>1 DEF content, Store
  <2>3. Stored(m, r.m, p, v)
    BY <1>2, <1>3, <1>4, <1>6, <2>1, <2>2, PutIs
  <2>4. ~r.m.thrown
    BY <2>3 DEF Stored
  <2> QED
    BY <1>1, <1>4, <2>3, <2>4, StoredKeeps DEF Constructs
<1> QED
  BY <1>3, <1>5, <1>6

\* The elements in front of the l-th cell of node k, from the f-th on, are destroyed.
RunOf(E, k, f, l, A) ==
    /\ f <= l /\ l <= BufferSize /\ \A o \in f..(l - 1) : base(k) + o \in E
    /\ A = (base(k) + f)..(base(k) + l - 1)

RunGone(d, r, N, E, A) ==
    Alike(d, r) /\ r.m.thrown = d.m.thrown /\ Store(r, N, E \ A) /\ Kept(d, r, E \ A)

LEMMA DestroyRun ==
    ASSUME NEW d, NEW N, NEW E, Store(d, N, E), NEW k \in N, NEW f \in Nat, NEW l \in Nat, NEW A,
           RunOf(E, k, f, l, A),
           NEW r, r = with(d, destroy(d.m, << block_of(d, k), f >>, << block_of(d, k), l >>))
    PROVE  RunGone(d, r, N, E, A)
<1>0. f <= l /\ l <= BufferSize /\ \A o \in f..(l - 1) : base(k) + o \in E
  BY DEF RunOf
<1>1. PICK m, b : m = d.m /\ b = block_of(d, k)
  OBVIOUS
<1>2. /\ IsMemory(m) /\ ~m.fault /\ IsDeque(d) /\ b \in Block /\ k \in Int
      /\ DOMAIN m.cells[b] = 0..(BufferSize - 1)
  BY <1>1 DEF Store
<1>3. BufferSize \in Nat /\ base(k) \in Int
  BY <1>2, DequeAssumption, BaseSum
<1>4. f..(l - 1) \subseteq DOMAIN m.cells[b]
  BY <1>0, <1>2, <1>3
<1>5. ASSUME NEW o \in f..(l - 1)
      PROVE  m.cells[b][o] \in Value
  <2>1. PICK x : x = base(k) + o
    OBVIOUS
  <2>2. o \in 0..(BufferSize - 1)
    BY <1>0, <1>3
  <2>3. x \in Int /\ node_of(x) = k /\ offset_of(x) = o
    BY <1>2, <2>1, <2>2, AddressOf
  <2>4. content(d, x) \in Value
    BY <1>0, <2>1, <2>3 DEF Store
  <2>5. content(d, x) = m.cells[b][o]
    BY <1>1, <2>3, CellIs DEF CellThere
  <2> QED
    BY <2>4, <2>5
<1>6. Alike(d, r) /\ r.m = destroy(m, << b, f >>, << b, l >>)
  BY <1>1, <1>2, WithIs
<1>7. Destroyed(m, r.m, b, f, l)
  <2>1. b \in {0} \cup Block /\ f \in Int /\ l \in Int
    BY <1>2
  <2>2. PICK n : n = destroy(m, << b, f >>, << b, l >>)
    OBVIOUS
  <2>3. Destroyed(m, n, b, f, l)
    BY <1>0, <1>2, <1>4, <1>5, <2>1, <2>2, DestroyIs
  <2> QED
    BY <1>6, <2>2, <2>3
<1>8. /\ Within(m, r.m, b, f, l) /\ r.m.thrown = m.thrown
      /\ \A o \in f..(l - 1) : r.m.cells[b][o] = RAW
  BY <1>7 DEF Destroyed
<1>9. /\ IsMemory(r.m) /\ ~r.m.fault /\ DOMAIN r.m.cells[b] = DOMAIN m.cells[b]
      /\ \A a \in {0} \cup Block : a # b => r.m.cells[a] = m.cells[a]
      /\ \A x \in DOMAIN m.cells[b] : x \in Int /\ x \notin f..(l - 1) => r.m.cells[b][x] = m.cells[b][x]
  BY <1>8 DEF Within
<1>10. SameShape(m, r.m)
  <2>1. m.cells[b] # no_cells
    <3>1. 0 \in DOMAIN m.cells[b]
      BY <1>2, <1>3, DequeAssumption
    <3> QED
      BY <3>1, NoCells
  <2> QED
    BY <1>9, <2>1 DEF SameShape
<1>11. PICK G : G = (base(k) + f)..(base(k) + l - 1)
  OBVIOUS
<1>12. ASSUME NEW x \in Int, node_of(x) \in N
       PROVE  /\ x \in G => content(r, x) = RAW
              /\ x \notin G => content(r, x) = content(d, x)
  <2>1. PICK c \in Block, o \in Nat : /\ c = block_of(d, node_of(x)) /\ o = offset_of(x)
                                      /\ o < BufferSize /\ CellThere(d, x, c, o)
    BY <1>12, CellIs
  <2>2. content(d, x) = m.cells[c][o] /\ o \in DOMAIN m.cells[c] /\ cell_at(d, x) = << c, o >>
    BY <1>1, <2>1 DEF CellThere
  <2>3. content(r, x) = r.m.cells[c][o]
    <3>1. cell_at(r, x) = << c, o >>
      BY <1>6, <2>2, AlikeCells
    <3>2. o \in DOMAIN r.m.cells[c]
      BY <1>10, <2>2 DEF SameShape
    <3> QED
      BY <3>1, <3>2 DEF content, content_of, in_block
  <2>4. x = base(node_of(x)) + o /\ base(node_of(x)) \in Int /\ node_of(x) \in Int
    BY <2>1, AddressIs
  <2>5. CASE c # b
    <3>1. node_of(x) # k
      BY <1>1, <2>1, <2>5
    <3>2. x \notin G
      <4>1. SUFFICES ASSUME x \in G
                     PROVE  FALSE
        OBVIOUS
      <4>2. PICK i \in Int : i = x - base(k)
        BY <1>3
      <4>3. i \in 0..(BufferSize - 1) /\ x = base(k) + i
        BY <1>0, <1>3, <1>11, <4>1, <4>2
      <4>4. node_of(x) = k
        BY <1>2, <4>3, AddressOf
      <4> QED
        BY <3>1, <4>4
    <3> QED
      BY <1>9, <2>2, <2>3, <2>5, <3>2
  <2>6. CASE c = b
    <3>1. node_of(x) = k
      BY <1>1, <1>12, <2>1, <2>6 DEF Store
    <3>2. x \in G <=> o \in f..(l - 1)
      BY <1>3, <1>11, <2>4, <3>1
    <3>3. o \in Int
      OBVIOUS
    <3> QED
      BY <1>8, <1>9, <2>2, <2>3, <2>6, <3>2, <3>3
  <2> QED
    BY <2>5, <2>6
<1>13. Store(r, N, E \ G)
  <2>1. E \ G \subseteq Int /\ \A x \in E \ G : node_of(x) \in N
    BY DEF Store
  <2>2. \A x \in Int : node_of(x) \in N => /\ x \in E \ G => content(r, x) \in Value
                                           /\ x \notin E \ G => content(r, x) = RAW
    BY <1>12 DEF Store
  <2> QED
    BY <1>1, <1>6, <1>10, <2>1, <2>2, StoreAfter
<1>14. Kept(d, r, E \ G)
  BY <1>12 DEF Kept, Store
<1>15. G = A
  BY <1>11 DEF RunOf
<1> QED
  BY <1>1, <1>6, <1>8, <1>13, <1>14, <1>15 DEF RunGone

LEMMA DestroyAtIs ==
    ASSUME NEW d, NEW N, NEW E, Store(d, N, E), NEW a \in E, NEW r, r = destroy_at(d, cell_at(d, a))
    PROVE  /\ Alike(d, r) /\ r.m.thrown = d.m.thrown
           /\ Store(r, N, E \ {a}) /\ Kept(d, r, E \ {a})
<1>1. a \in Int /\ node_of(a) \in N
  BY DEF Store
<1>2. PICK k \in Int, o \in Nat : /\ k = node_of(a) /\ o = offset_of(a) /\ o < BufferSize
                                  /\ a = base(k) + o /\ base(k) \in Int
  BY <1>1, AddressParts
<1>3. cell_at(d, a) = << block_of(d, k), o >> /\ plus(cell_at(d, a), 1) = << block_of(d, k), o + 1 >>
  BY <1>2 DEF cell_at, plus
<1>4. r = with(d, destroy(d.m, << block_of(d, k), o >>, << block_of(d, k), o + 1 >>))
  BY <1>3 DEF destroy_at
<1>5. k \in N /\ o + 1 \in Nat /\ o <= o + 1 /\ o + 1 <= BufferSize
  BY <1>1, <1>2, DequeAssumption
<1>6. \A i \in o..((o + 1) - 1) : base(k) + i \in E
  <2>1. \A i \in o..((o + 1) - 1) : i = o
    OBVIOUS
  <2> QED
    BY <1>2, <2>1
<1>7. (base(k) + o)..(base(k) + (o + 1) - 1) = {a}
  BY <1>2
<1>8. RunOf(E, k, o, o + 1, {a})
  BY <1>5, <1>6, <1>7 DEF RunOf
<1>9. RunGone(d, r, N, E, {a})
  BY <1>4, <1>5, <1>8, DestroyRun
<1> QED
  BY <1>9 DEF RunGone

\* Some block is free as long as there are fewer nodes than blocks.
LEMMA FreeBlock ==
    ASSUME NEW d, NEW N, NEW E, Store(d, N, E), IsFiniteSet(N), Cardinality(N) < Cardinality(Block)
    PROVE  \E b \in Block : d.m.cells[b] = no_cells
<1>1. SUFFICES ASSUME \A b \in Block : d.m.cells[b] # no_cells
               PROVE  FALSE
  OBVIOUS
<1>2. \A b \in Block : \E k \in N : block_of(d, k) = b
  BY <1>1 DEF Store
<1>3. PICK g : g = [b \in Block |-> CHOOSE k \in N : block_of(d, k) = b]
  OBVIOUS
<1>4. \A b \in Block : g[b] \in N /\ block_of(d, g[b]) = b
  BY <1>2, <1>3
<1>5. g \in [Block -> N]
  BY <1>3, <1>4
<1>6. IsFiniteSet(Block)
  BY DequeAssumption
<1>7. \E x, y \in Block : x # y /\ g[x] = g[y]
  BY <1>5, <1>6, FS_PigeonHole
<1> QED
  BY <1>4, <1>7

NodeAdded(d, r, N, E, k) ==
    /\ Store(r, N \cup {k}, E) /\ Kept(d, r, E)
    /\ r.start = d.start /\ r.finish = d.finish /\ r.m.thrown = d.m.thrown
    /\ DOMAIN r.map = DOMAIN d.map /\ \A j : j # k => slot(r, j) = slot(d, j)
    /\ \A p \in Pointer : in_block(d.m, p) => /\ in_block(r.m, p)
                                              /\ content_of(r.m, p) = content_of(d.m, p)

LEMMA NewNodeIs ==
    ASSUME NEW d, NEW N, NEW E, Store(d, N, E), IsFiniteSet(N), Cardinality(N) < Cardinality(Block),
           NEW k, k \in DOMAIN d.map, k \notin N, k \in Int, NEW r, r = new_node(d, k)
    PROVE  NodeAdded(d, r, N, E, k)
<1>1. PICK m, n : m = d.m /\ n = allocated(d.m, BufferSize)
  OBVIOUS
<1>2. IsDeque(d) /\ IsMemory(m) /\ ~m.fault
  BY <1>1 DEF Store
<1>3. BufferSize \in Nat /\ BufferSize # 0
  BY DequeAssumption
<1>4. \E b \in Block : m.cells[b] = no_cells
  BY <1>1, FreeBlock
<1>5. PICK b \in Block :
              /\ m.cells[b] = no_cells /\ allocate(m, BufferSize) = << b, 0 >>
              /\ IsMemory(n) /\ ~n.fault /\ n.fuel = m.fuel /\ n.thrown = m.thrown
              /\ \A a \in {0} \cup Block : a # b => n.cells[a] = m.cells[a]
              /\ DOMAIN n.cells[b] = 0..(BufferSize - 1)
              /\ \A j \in 0..(BufferSize - 1) : n.cells[b][j] = RAW
  BY <1>1, <1>2, <1>3, <1>4, AllocateIs
<1>6. PICK h : h = [n EXCEPT !.fault = @ \/ k \notin DOMAIN d.map]
  OBVIOUS
<1>7. /\ h.cells = n.cells /\ h.fuel = n.fuel /\ h.thrown = n.thrown /\ h.fault = FALSE
      /\ DOMAIN h = DOMAIN n
  BY <1>5, <1>6 DEF IsMemory
<1>8. IsMemory(h)
  BY <1>5, <1>7 DEF IsMemory
<1>9. r = [d EXCEPT !.m = h, !.map[k] = << b, 0 >>]
  BY <1>1, <1>5, <1>6, Zenon DEF new_node
<1>10. /\ r.m = h /\ r.map = [d.map EXCEPT ![k] = << b, 0 >>] /\ r.start = d.start /\ r.finish = d.finish
       /\ DOMAIN r = {"m", "map", "start", "finish"}
  BY <1>2, <1>9 DEF IsDeque
<1>11. /\ DOMAIN r.map = DOMAIN d.map /\ r.map[k] = << b, 0 >>
       /\ \A j \in DOMAIN d.map : j # k => r.map[j] = d.map[j]
  BY <1>10
<1>12. slot(r, k) = << b, 0 >> /\ \A j : j # k => slot(r, j) = slot(d, j)
  BY <1>11 DEF slot
<1>13. IsDeque(r)
  <2>1. << b, 0 >> \in Pointer /\ << b, 0 >>[2] = 0
    BY DEF Pointer
  <2>2. \A j \in DOMAIN r.map : r.map[j] \in Pointer /\ r.map[j][2] = 0
    BY <1>2, <1>11, <2>1 DEF IsDeque
  <2> QED
    BY <1>2, <1>10, <1>11, <2>2 DEF IsDeque
<1>14. block_of(r, k) = b /\ \A j \in N : block_of(r, j) = block_of(d, j) /\ block_of(d, j) # b
  <2>1. block_of(r, k) = b
    BY <1>12 DEF block_of
  <2>2. ASSUME NEW j \in N
        PROVE  block_of(r, j) = block_of(d, j) /\ block_of(d, j) # b
    <3>1. block_of(r, j) = block_of(d, j)
      BY <1>12 DEF block_of
    <3>2. 0 \in DOMAIN m.cells[block_of(d, j)]
      BY <1>1, <1>3 DEF Store
    <3> QED
      BY <1>5, <3>1, <3>2, NoCells
  <2> QED
    BY <2>1, <2>2
<1>15. \A a \in {0} \cup Block : a # b => r.m.cells[a] = m.cells[a]
  BY <1>5, <1>7, <1>10
<1>16. ASSUME NEW p \in Pointer, in_block(m, p)
       PROVE  in_block(r.m, p) /\ content_of(r.m, p) = content_of(m, p)
  <2>1. PICK a \in {0} \cup Block, j \in Int : p = << a, j >> /\ p[1] = a /\ p[2] = j
    BY PointerIs
  <2>2. j \in DOMAIN m.cells[a]
    BY <1>16, <2>1 DEF in_block
  <2>3. a # b
    BY <1>5, <2>2, NoCells
  <2>4. r.m.cells[a] = m.cells[a]
    BY <1>15, <2>3
  <2> QED
    BY <2>1, <2>2, <2>4 DEF in_block, content_of
<1>17. ASSUME NEW x \in Int, node_of(x) \in N
       PROVE  content(r, x) = content(d, x)
  <2>1. cell_at(r, x) = cell_at(d, x)
    BY <1>14, <1>17 DEF cell_at
  <2>2. cell_at(d, x) \in Pointer /\ in_block(m, cell_at(d, x))
    BY <1>1, <1>17, CellIs DEF CellThere
  <2> QED
    BY <1>1, <1>16, <2>1, <2>2 DEF content
<1>18. ASSUME NEW x \in Int, node_of(x) = k
       PROVE  content(r, x) = RAW
  <2>1. offset_of(x) \in 0..(BufferSize - 1)
    BY AddressIs
  <2>2. cell_at(r, x) = << b, offset_of(x) >>
    BY <1>14, <1>18 DEF cell_at
  <2>3. r.m.cells[b][offset_of(x)] = RAW
    BY <1>5, <1>7, <1>10, <2>1
  <2> QED
    BY <2>2, <2>3 DEF content, content_of, in_block
<1>19. Store(r, N \cup {k}, E)
  <2>1. N \cup {k} \subseteq DOMAIN r.map /\ N \cup {k} \subseteq Int
    BY <1>11 DEF Store
  <2>2. ASSUME NEW j \in N \cup {k}
        PROVE  block_of(r, j) \in Block /\ DOMAIN r.m.cells[block_of(r, j)] = 0..(BufferSize - 1)
    <3>1. CASE j = k
      BY <1>5, <1>7, <1>10, <1>14, <3>1
    <3>2. CASE j # k
      <4>1. j \in N /\ block_of(r, j) = block_of(d, j) /\ block_of(d, j) # b
        BY <1>14, <3>2
      <4>2. block_of(d, j) \in Block /\ DOMAIN m.cells[block_of(d, j)] = 0..(BufferSize - 1)
        BY <1>1, <4>1 DEF Store
      <4> QED
        BY <1>15, <4>1, <4>2
    <3> QED
      BY <3>1, <3>2
  <2>3. \A i, j \in N \cup {k} : block_of(r, i) = block_of(r, j) => i = j
    BY <1>14 DEF Store
  <2>4. ASSUME NEW a \in {0} \cup Block, \A j \in N \cup {k} : block_of(r, j) # a
        PROVE  r.m.cells[a] = no_cells
    <3>1. a # b /\ \A j \in N : block_of(d, j) # a
      BY <1>14, <2>4
    <3>2. m.cells[a] = no_cells
      BY <1>1, <3>1 DEF Store
    <3> QED
      BY <1>15, <3>1, <3>2
  <2>5. E \subseteq Int /\ \A a \in E : node_of(a) \in N
    BY DEF Store
  <2>6. ASSUME NEW x \in Int, node_of(x) \in N \cup {k}
        PROVE  /\ x \in E => content(r, x) \in Value
               /\ x \notin E => content(r, x) = RAW
    <3>1. CASE node_of(x) \in N
      BY <1>17, <3>1 DEF Store
    <3>2. CASE node_of(x) = k
      BY <1>18, <2>5, <3>2
    <3> QED
      BY <2>6, <3>1, <3>2
  <2>7. IsMemory(r.m) /\ ~r.m.fault
    BY <1>7, <1>8, <1>10
  <2> QED
    BY <1>13, <2>1, <2>2, <2>3, <2>4, <2>5, <2>6, <2>7 DEF Store
<1>20. Kept(d, r, E)
  BY <1>17 DEF Kept, Store
<1>21. r.m.thrown = d.m.thrown
  BY <1>1, <1>5, <1>7, <1>10
<1>22. \A p \in Pointer : in_block(d.m, p) => /\ in_block(r.m, p)
                                              /\ content_of(r.m, p) = content_of(d.m, p)
  BY <1>1, <1>16
<1> QED
  BY <1>10, <1>11, <1>12, <1>19, <1>20, <1>21, <1>22 DEF NodeAdded

NodeDropped(d, r, N, E, k) ==
    Alike(d, r) /\ Store(r, N \ {k}, E) /\ Kept(d, r, E) /\ r.m.thrown = d.m.thrown

LEMMA DropNodeIs ==
    ASSUME NEW d, NEW N, NEW E, Store(d, N, E), NEW k \in N, \A a \in E : node_of(a) # k,
           NEW r, r = deallocate_node(d, slot(d, k))
    PROVE  NodeDropped(d, r, N, E, k)
<1>1. PICK m, b : m = d.m /\ b = block_of(d, k)
  OBVIOUS
<1>2. /\ IsDeque(d) /\ IsMemory(m) /\ ~m.fault /\ b \in Block /\ k \in Int
      /\ DOMAIN m.cells[b] = 0..(BufferSize - 1)
  BY <1>1 DEF Store
<1>3. BufferSize \in Nat /\ BufferSize # 0
  BY DequeAssumption
<1>4. ASSUME NEW o \in 0..(BufferSize - 1)
      PROVE  m.cells[b][o] = RAW
  <2>1. PICK x : x = base(k) + o
    OBVIOUS
  <2>2. x \in Int /\ node_of(x) = k /\ offset_of(x) = o
    BY <1>2, <2>1, AddressOf
  <2>3. content(d, x) = RAW
    BY <2>2 DEF Store
  <2>4. content(d, x) = m.cells[b][o]
    BY <1>1, <2>2, CellIs DEF CellThere
  <2> QED
    BY <2>3, <2>4
<1>5. slot(d, k) = << b, 0 >>
  BY <1>1, <1>2, SlotIs
<1>6. PICK n : n = deallocate(m, << b, 0 >>, BufferSize)
  OBVIOUS
<1>7. Deallocated(m, n, b, BufferSize)
  <2>1. b \in {0} \cup Block
    BY <1>2
  <2> QED
    BY <1>2, <1>3, <1>4, <1>6, <2>1, DeallocateIs
<1>8. /\ IsMemory(n) /\ ~n.fault /\ n.thrown = m.thrown /\ n.cells[b] = no_cells
      /\ \A a \in {0} \cup Block : a # b => n.cells[a] = m.cells[a]
  BY <1>3, <1>7 DEF Deallocated
<1>9. Alike(d, r) /\ r.m = n
  <2>1. r = [d EXCEPT !.m = n]
    BY <1>1, <1>5, <1>6 DEF deallocate_node
  <2>2. r = with(d, n)
    BY <2>1 DEF with
  <2> QED
    BY <1>2, <2>2, WithIs
<1>10. \A j : block_of(r, j) = block_of(d, j) /\ cell_at(r, j) = cell_at(d, j)
  BY <1>9, AlikeCells
<1>11. \A j \in N \ {k} : block_of(d, j) # b
  BY <1>1 DEF Store
<1>12. ASSUME NEW x \in Int, node_of(x) \in N \ {k}
       PROVE  content(r, x) = content(d, x)
  <2>1. PICK c \in Block, o \in Nat : /\ c = block_of(d, node_of(x)) /\ CellThere(d, x, c, o)
    BY <1>12, CellIs
  <2>2. cell_at(r, x) = << c, o >> /\ o \in DOMAIN m.cells[c] /\ content(d, x) = m.cells[c][o]
    BY <1>1, <1>10, <2>1 DEF CellThere
  <2>3. r.m.cells[c] = m.cells[c]
    <3>1. c # b
      BY <1>11, <1>12, <2>1
    <3> QED
      BY <1>8, <1>9, <3>1
  <2> QED
    BY <2>2, <2>3 DEF content, content_of, in_block
<1>13. Store(r, N \ {k}, E)
  <2>1. N \ {k} \subseteq DOMAIN r.map /\ N \ {k} \subseteq Int
    BY <1>9 DEF Store, Alike
  <2>2. ASSUME NEW j \in N \ {k}
        PROVE  block_of(r, j) \in Block /\ DOMAIN r.m.cells[block_of(r, j)] = 0..(BufferSize - 1)
    <3>1. block_of(d, j) \in Block /\ DOMAIN m.cells[block_of(d, j)] = 0..(BufferSize - 1)
      BY <1>1 DEF Store
    <3> QED
      BY <1>8, <1>9, <1>10, <1>11, <3>1
  <2>3. \A i, j \in N \ {k} : block_of(r, i) = block_of(r, j) => i = j
    BY <1>10 DEF Store
  <2>4. ASSUME NEW a \in {0} \cup Block, \A j \in N \ {k} : block_of(r, j) # a
        PROVE  r.m.cells[a] = no_cells
    <3>1. CASE a = b
      BY <1>8, <1>9, <3>1
    <3>2. CASE a # b
      <4>1. \A j \in N : block_of(d, j) # a
        BY <1>1, <1>10, <2>4, <3>2
      <4>2. m.cells[a] = no_cells
        BY <1>1, <4>1 DEF Store
      <4> QED
        BY <1>8, <1>9, <3>2, <4>2
    <3> QED
      BY <3>1, <3>2
  <2>5. E \subseteq Int /\ \A a \in E : node_of(a) \in N \ {k}
    BY DEF Store
  <2>6. \A x \in Int : node_of(x) \in N \ {k} => /\ x \in E => content(r, x) \in Value
                                                 /\ x \notin E => content(r, x) = RAW
    BY <1>12 DEF Store
  <2>7. IsDeque(r) /\ IsMemory(r.m) /\ ~r.m.fault
    BY <1>8, <1>9 DEF Alike
  <2> QED
    BY <2>1, <2>2, <2>3, <2>4, <2>5, <2>6, <2>7 DEF Store
<1>14. Kept(d, r, E)
  BY <1>12 DEF Kept, Store
<1> QED
  BY <1>1, <1>8, <1>9, <1>13, <1>14 DEF NodeDropped

\* The first c of the items are to go, or are, in the cells at y[1], y[2], ...
Places(d, N, c, y, items, to) ==
    \A k \in 1..c : y[k] \in Int /\ node_of(y[k]) \in N /\ to[k] = cell_at(d, y[k])
                    /\ read(d.m, items[k]) \in Value

Written(d, r, N, E, c, y, items) ==
    /\ Store(r, N, E \cup {y[k] : k \in 1..c})
    /\ \A k \in 1..c : content(r, y[k]) = read(d.m, items[k])
    /\ \A x \in Int : node_of(x) \in N /\ (\A k \in 1..c : y[k] # x) => content(r, x) = content(d, x)

LEMMA WroteKeeps ==
    ASSUME NEW d, NEW N, NEW E, Store(d, N, E), NEW c \in Nat, NEW y, NEW items, NEW to,
           Places(d, N, c, y, items, to), NEW r, Alike(d, r), Wrote(d.m, r.m, c, items, to)
    PROVE  Written(d, r, N, E, c, y, items)
<1> SUFFICES
       ASSUME \A k \in 1..c : y[k] \in Int /\ node_of(y[k]) \in N /\ to[k] = cell_at(d, y[k])
                               /\ read(d.m, items[k]) \in Value
       PROVE  /\ Store(r, N, E \cup {y[k] : k \in 1..c})
              /\ \A k \in 1..c : content(r, y[k]) = read(d.m, items[k])
              /\ \A x \in Int : node_of(x) \in N /\ (\A k \in 1..c : y[k] # x)
                                 => content(r, x) = content(d, x)
  BY DEF Places, Written
<1>1. PICK F : F = {y[k] : k \in 1..c}
  OBVIOUS
<1>2. SameShape(d.m, r.m)
  <2>1. ASSUME NEW b \in {0} \cup Block, d.m.cells[b] = no_cells
        PROVE  r.m.cells[b] = no_cells
    <3>1. ASSUME NEW k \in 1..c
          PROVE  to[k][1] # b
      <4>1. PICK e \in Block, o \in Nat : CellThere(d, y[k], e, o)
        BY CellIs
      <4>2. to[k] = << e, o >> /\ o \in DOMAIN d.m.cells[e]
        BY <4>1 DEF CellThere
      <4>3. e # b
        BY <2>1, <4>2, NoCells
      <4> QED
        BY <4>2, <4>3
    <3> QED
      BY <2>1, <3>1 DEF Wrote
  <2> QED
    BY <2>1 DEF Wrote, SameShape
<1>3. ASSUME NEW k \in 1..c
      PROVE  content(r, y[k]) = read(d.m, items[k])
  <2>1. content_of(r.m, to[k]) = read(d.m, items[k])
    BY DEF Wrote
  <2> QED
    BY <2>1, AlikeCells DEF content
<1>4. ASSUME NEW x \in Int, node_of(x) \in N, \A k \in 1..c : y[k] # x
      PROVE  content(r, x) = content(d, x)
  <2>1. cell_at(d, x) \in Pointer
    BY <1>4, CellIs DEF CellThere
  <2>2. \A k \in 1..c : to[k] # cell_at(d, x)
    <3>1. SUFFICES ASSUME NEW k \in 1..c, to[k] = cell_at(d, x)
                   PROVE  FALSE
      OBVIOUS
    <3>2. y[k] = x
      BY <1>4, <3>1, CellsApart
    <3> QED
      BY <1>4, <3>2
  <2>3. content_of(r.m, cell_at(d, x)) = content_of(d.m, cell_at(d, x))
    BY <2>1, <2>2 DEF Wrote
  <2> QED
    BY <2>3, AlikeCells DEF content
<1>5. E \cup F \subseteq Int /\ \A x \in E \cup F : node_of(x) \in N
  BY <1>1 DEF Store
<1>6. ASSUME NEW x \in Int, node_of(x) \in N
      PROVE  /\ x \in E \cup F => content(r, x) \in Value
             /\ x \notin E \cup F => content(r, x) = RAW
  <2>1. CASE x \in F
    <3>1. PICK k \in 1..c : x = y[k]
      BY <1>1, <2>1
    <3> QED
      BY <1>3, <2>1, <3>1
  <2>2. CASE x \notin F
    <3>1. content(r, x) = content(d, x)
      BY <1>1, <1>4, <1>6, <2>2
    <3> QED
      BY <1>6, <2>2, <3>1 DEF Store
  <2> QED
    BY <2>1, <2>2
<1>7. Store(r, N, E \cup F)
  BY <1>2, <1>5, <1>6, StoreAfter
<1> QED
  BY <1>1, <1>3, <1>4, <1>7

\* The same blocks at other nodes of a map
Shifted(d, r, N, E, z, M, F) ==
    /\ IsDeque(r) /\ r.m = d.m
    /\ M \subseteq DOMAIN r.map /\ M \subseteq Int /\ \A k \in Int : k \in M <=> k - z \in N
    /\ \A k \in N : block_of(r, k + z) = block_of(d, k)
    /\ F \subseteq Int /\ \A a \in Int : a \in F <=> a - base(z) \in E

LEMMA StoreShifted ==
    ASSUME NEW d, NEW N, NEW E, Store(d, N, E), NEW r, NEW z \in Int, NEW M, NEW F,
           Shifted(d, r, N, E, z, M, F)
    PROVE  /\ Store(r, M, F)
           /\ \A a \in Int : node_of(a) \in N => content(r, a + base(z)) = content(d, a)
<1>0. /\ IsDeque(r) /\ r.m = d.m
      /\ M \subseteq DOMAIN r.map /\ M \subseteq Int /\ \A k \in Int : k \in M <=> k - z \in N
      /\ \A k \in N : block_of(r, k + z) = block_of(d, k)
      /\ F \subseteq Int /\ \A a \in Int : a \in F <=> a - base(z) \in E
  BY DEF Shifted
<1>1. base(z) \in Int /\ N \subseteq Int /\ E \subseteq Int
  BY BaseSum DEF Store
<1>2. ASSUME NEW a \in Int, node_of(a) \in N
      PROVE  content(r, a + base(z)) = content(d, a)
  <2>1. node_of(a + base(z)) = node_of(a) + z /\ offset_of(a + base(z)) = offset_of(a)
    BY AddressShifted
  <2>2. cell_at(r, a + base(z)) = cell_at(d, a)
    BY <1>0, <1>2, <2>1 DEF cell_at
  <2> QED
    BY <1>0, <2>2 DEF content
<1>3. ASSUME NEW k \in M
      PROVE  \E j \in N : k = j + z /\ block_of(r, k) = block_of(d, j)
  <2>1. k \in Int /\ k - z \in N /\ k = (k - z) + z
    BY <1>0
  <2> QED
    BY <1>0, <2>1
<1>4. ASSUME NEW k \in M
      PROVE  block_of(r, k) \in Block /\ DOMAIN r.m.cells[block_of(r, k)] = 0..(BufferSize - 1)
  <2>1. PICK j \in N : block_of(r, k) = block_of(d, j)
    BY <1>3
  <2>2. block_of(d, j) \in Block /\ DOMAIN d.m.cells[block_of(d, j)] = 0..(BufferSize - 1)
    BY DEF Store
  <2> QED
    BY <1>0, <2>1, <2>2
<1>5. \A j, k \in M : block_of(r, j) = block_of(r, k) => j = k
  BY <1>0, <1>3 DEF Store
<1>6. ASSUME NEW b \in {0} \cup Block, \A k \in M : block_of(r, k) # b
      PROVE  r.m.cells[b] = no_cells
  <2>1. ASSUME NEW k \in N
        PROVE  block_of(d, k) # b
    <3>1. k + z \in Int /\ (k + z) - z = k
      BY <1>1
    <3>2. k + z \in M
      BY <1>0, <3>1
    <3> QED
      BY <1>0, <1>6, <3>2
  <2> QED
    BY <1>0, <2>1 DEF Store
<1>7. ASSUME NEW x \in Int
      PROVE  /\ x - base(z) \in Int /\ (x - base(z)) + base(z) = x
             /\ node_of(x) \in M <=> node_of(x - base(z)) \in N
             /\ x \in F <=> x - base(z) \in E
  <2>1. PICK a \in Int : a = x - base(z) /\ a + base(z) = x
    BY <1>1
  <2>2. node_of(x) = node_of(a) + z /\ node_of(a) \in Int
    BY <2>1, AddressShifted, AddressIs
  <2>3. node_of(x) \in Int /\ node_of(x) - z = node_of(a)
    BY <2>2
  <2>4. node_of(x) \in M <=> node_of(a) \in N
    BY <1>0, <2>3
  <2> QED
    BY <1>0, <2>1, <2>4
<1>8. \A x \in F : node_of(x) \in M
  BY <1>0, <1>7 DEF Store
<1>9. ASSUME NEW x \in Int, node_of(x) \in M
      PROVE  /\ x \in F => content(r, x) \in Value
             /\ x \notin F => content(r, x) = RAW
  <2>1. PICK a \in Int : a = x - base(z) /\ a + base(z) = x
    BY <1>1
  <2>2. node_of(a) \in N /\ (x \in F <=> a \in E)
    BY <1>7, <1>9, <2>1
  <2>3. content(r, x) = content(d, a)
    BY <1>2, <2>1, <2>2
  <2> QED
    BY <2>2, <2>3 DEF Store
<1>10. Store(r, M, F)
  BY <1>0, <1>4, <1>5, <1>6, <1>8, <1>9 DEF Store
<1> QED
  BY <1>2, <1>10

\* A deque whose elements are at the addresses from s to f - 1
DequeAt(d, s, f) ==
    /\ s \in Int /\ f \in Int /\ s <= f
    /\ d.start = iterator(d, s) /\ d.finish = iterator(d, f)
    /\ Store(d, node_of(s)..node_of(f), s..(f - 1))

\* r is d with its nodes z further on in its map, which has the nodes lo..hi.
MapMoved(d, r, s, f, z, lo, hi) ==
    /\ r.m = d.m /\ z \in Int /\ DequeAt(r, s + base(z), f + base(z)) /\ lo..hi \subseteq DOMAIN r.map
    /\ \A a \in s..(f - 1) : content(r, a + base(z)) = content(d, a)

LEMMA DequeNodes ==
    ASSUME NEW d, NEW s, NEW f, DequeAt(d, s, f)
    PROVE  /\ s \in Int /\ f \in Int /\ s <= f /\ IsDeque(d) /\ IsMemory(d.m) /\ ~d.m.fault
           /\ node_of(s) \in Nat /\ node_of(f) \in Nat /\ node_of(s) <= node_of(f)
           /\ d.start.node = node_of(s) /\ d.finish.node = node_of(f)
           /\ node_of(s)..node_of(f) \subseteq DOMAIN d.map
           /\ \A a \in s..f : a \in Int /\ node_of(a) \in node_of(s)..node_of(f)
<1>1. /\ s \in Int /\ f \in Int /\ s <= f /\ d.start = iterator(d, s) /\ d.finish = iterator(d, f)
      /\ IsDeque(d) /\ IsMemory(d.m) /\ ~d.m.fault /\ node_of(s)..node_of(f) \subseteq DOMAIN d.map
  BY DEF DequeAt, Store
<1>2. node_of(s) \in Int /\ node_of(f) \in Int /\ node_of(s) <= node_of(f)
  BY <1>1, AddressIs, AddressOrder
<1>3. PICK n \in Nat : DOMAIN d.map = 0..(n - 1)
  BY <1>1 DEF IsDeque
<1>4. node_of(s) \in Nat /\ node_of(f) \in Nat
  <2>1. node_of(s) \in node_of(s)..node_of(f) /\ node_of(f) \in node_of(s)..node_of(f)
    BY <1>2
  <2> QED
    BY <1>1, <1>3, <2>1
<1>5. d.start.node = node_of(s) /\ d.finish.node = node_of(f)
  BY <1>1 DEF iterator
<1>6. ASSUME NEW a \in s..f
      PROVE  a \in Int /\ node_of(a) \in node_of(s)..node_of(f)
  <2>1. a \in Int /\ s <= a /\ a <= f
    BY <1>1
  <2>2. node_of(a) \in Int /\ node_of(s) <= node_of(a) /\ node_of(a) <= node_of(f)
    BY <1>1, <2>1, AddressIs, AddressOrder
  <2> QED
    BY <1>2, <2>1, <2>2
<1> QED
  BY <1>1, <1>2, <1>4, <1>5, <1>6

-----------------------------------------------------------------------------
\* The map, moved or replaced

\* The map in which a reallocation enters the nodes lo, lo + 1, ... of d from nstart on
moved_map(d, lo, old, nstart, size_new, stays) ==
    [k \in 0..(size_new - 1) |->
        IF k \in nstart..(nstart + old - 1) THEN d.map[lo + k - nstart]
        ELSE IF stays THEN d.map[k] ELSE null]

MoveCall(d, s, f, z, w, stays, moved, r) ==
    /\ stays => DOMAIN d.map = 0..(w - 1)
    /\ 0 <= node_of(s) + z /\ node_of(f) + z < w
    /\ moved = [d EXCEPT !.map = moved_map(d, node_of(s), node_of(f) - node_of(s) + 1,
                                           node_of(s) + z, w, stays)]
    /\ r = [moved EXCEPT !.start = set_node(moved, @, node_of(s) + z),
                         !.finish = set_node(moved, @, node_of(f) + z)]

LEMMA MovedMapIs ==
    ASSUME NEW d, NEW s, NEW f, DequeAt(d, s, f), NEW z \in Int, NEW w \in Nat, NEW stays \in BOOLEAN,
           NEW moved, NEW r, MoveCall(d, s, f, z, w, stays, moved, r)
    PROVE  /\ r.m = d.m /\ DequeAt(r, s + base(z), f + base(z)) /\ DOMAIN r.map = 0..(w - 1)
           /\ \A a \in s..(f - 1) : content(r, a + base(z)) = content(d, a)
<1>0. /\ stays => DOMAIN d.map = 0..(w - 1)
      /\ 0 <= node_of(s) + z /\ node_of(f) + z < w
      /\ moved = [d EXCEPT !.map = moved_map(d, node_of(s), node_of(f) - node_of(s) + 1,
                                             node_of(s) + z, w, stays)]
      /\ r = [moved EXCEPT !.start = set_node(moved, @, node_of(s) + z),
                           !.finish = set_node(moved, @, node_of(f) + z)]
  BY DEF MoveCall
<1>1. PICK lo \in Nat, hi \in Nat, b \in Int : lo = node_of(s) /\ hi = node_of(f) /\ lo <= hi /\ b = lo + z
  BY DequeNodes
<1>2. /\ s \in Int /\ f \in Int /\ s <= f /\ IsDeque(d) /\ lo..hi \subseteq DOMAIN d.map
      /\ \A a \in s..f : a \in Int /\ node_of(a) \in lo..hi
  BY <1>1, DequeNodes
<1>3. Store(d, lo..hi, s..(f - 1)) /\ d.start = iterator(d, s) /\ d.finish = iterator(d, f)
  BY <1>1 DEF DequeAt
<1>4. 0 <= b /\ hi + z < w /\ hi + z = b + (hi - lo + 1) - 1
  BY <1>0, <1>1
<1>5. PICK g : g = moved_map(d, lo, hi - lo + 1, b, w, stays)
  OBVIOUS
<1>6. /\ moved.m = d.m /\ moved.map = g /\ moved.start = d.start /\ moved.finish = d.finish
      /\ DOMAIN moved = {"m", "map", "start", "finish"}
  BY <1>0, <1>1, <1>2, <1>5 DEF IsDeque
<1>7. DOMAIN g = 0..(w - 1)
  BY <1>5 DEF moved_map
<1>8. ASSUME NEW k \in b..(hi + z)
      PROVE  k \in DOMAIN g /\ k - z \in lo..hi /\ g[k] = d.map[k - z]
  <2>1. k \in 0..(w - 1) /\ k \in b..(b + (hi - lo + 1) - 1) /\ lo + k - b = k - z /\ k - z \in lo..hi
    BY <1>1, <1>4
  <2> QED
    BY <1>5, <1>7, <2>1 DEF moved_map
<1>9. \A k \in DOMAIN g : g[k] \in Pointer /\ g[k][2] = 0
  <2>1. SUFFICES ASSUME NEW k \in 0..(w - 1)
                 PROVE  g[k] \in Pointer /\ g[k][2] = 0
    BY <1>7
  <2>2. CASE k \in b..(hi + z)
    BY <1>2, <1>8, <2>2 DEF IsDeque
  <2>3. CASE k \notin b..(hi + z)
    <3>1. g[k] = IF stays THEN d.map[k] ELSE null
      BY <1>4, <1>5, <2>3 DEF moved_map
    <3>2. null \in Pointer /\ null[2] = 0
      BY DEF null, Pointer
    <3> QED
      BY <1>0, <1>2, <3>1, <3>2 DEF IsDeque
  <2> QED
    BY <2>2, <2>3
<1>10. IsDeque(moved)
  BY <1>6, <1>7, <1>9 DEF IsDeque
<1>11. /\ r.m = d.m /\ r.map = g /\ DOMAIN r = {"m", "map", "start", "finish"}
       /\ r.start = set_node(moved, d.start, b) /\ r.finish = set_node(moved, d.finish, hi + z)
  BY <1>0, <1>1, <1>6
<1>12. IsDeque(r)
  BY <1>6, <1>10, <1>11 DEF IsDeque
<1>13. \A k : slot(r, k) = slot(moved, k)
  BY <1>6, <1>11 DEF slot
<1>14. ASSUME NEW k \in lo..hi
       PROVE  slot(r, k + z) = slot(d, k) /\ block_of(r, k + z) = block_of(d, k)
  <2>1. k + z \in b..(hi + z) /\ (k + z) - z = k
    BY <1>1
  <2>2. k + z \in DOMAIN g /\ g[k + z] = d.map[k] /\ k \in DOMAIN d.map
    BY <1>2, <1>8, <2>1
  <2> QED
    BY <1>11, <2>2 DEF slot, block_of
<1>15. ASSUME NEW a \in s..f
       PROVE  set_node(moved, iterator(d, a), node_of(a) + z) = iterator(r, a + base(z))
  <2>1. PICK k \in lo..hi : k = node_of(a) /\ a \in Int
    BY <1>2
  <2>2. node_of(a + base(z)) = k + z /\ offset_of(a + base(z)) = offset_of(a)
    BY <2>1, AddressShifted
  <2>3. PICK e : e = block_of(d, k) /\ block_of(r, k + z) = e
    BY <1>14
  <2>4. slot(moved, k + z) = << e, 0 >>
    BY <1>12, <1>13, <2>3, SlotIs
  <2>5. iterator(d, a) = [cur |-> << e, offset_of(a) >>, first |-> << e, 0 >>,
                          last |-> << e, BufferSize >>, node |-> k]
    BY <1>2, <2>1, <2>3, IteratorIs
  <2>6. set_node(moved, iterator(d, a), k + z) =
           [cur |-> << e, offset_of(a) >>, first |-> slot(moved, k + z),
            last |-> plus(slot(moved, k + z), BufferSize), node |-> k + z]
    BY <1>10, <2>5, SetNodeIs
  <2>7. plus(<< e, 0 >>, BufferSize) = << e, BufferSize >>
    BY DequeAssumption DEF plus
  <2>8. iterator(r, a + base(z)) = [cur |-> << e, offset_of(a) >>, first |-> << e, 0 >>,
                                    last |-> << e, BufferSize >>, node |-> k + z]
    BY <1>12, <2>2, <2>3, IteratorIs
  <2> QED
    BY <2>1, <2>4, <2>6, <2>7, <2>8
<1>16. base(z) \in Int
  BY BaseSum
<1>17. node_of(s + base(z)) = b /\ node_of(f + base(z)) = hi + z
  BY <1>1, <1>2, AddressShifted
<1>18. r.start = iterator(r, s + base(z)) /\ r.finish = iterator(r, f + base(z))
  <2>1. s \in s..f /\ f \in s..f
    BY <1>2
  <2> QED
    BY <1>1, <1>3, <1>11, <1>15, <2>1
<1>19. /\ Store(r, b..(hi + z), (s + base(z))..(f + base(z) - 1))
       /\ \A a \in Int : node_of(a) \in lo..hi => content(r, a + base(z)) = content(d, a)
  <2>1. b..(hi + z) \subseteq DOMAIN r.map /\ b..(hi + z) \subseteq Int
    BY <1>8, <1>11
  <2>2. \A k \in Int : k \in b..(hi + z) <=> k - z \in lo..hi
    BY <1>1
  <2>3. /\ (s + base(z))..(f + base(z) - 1) \subseteq Int
        /\ \A a \in Int : a \in (s + base(z))..(f + base(z) - 1) <=> a - base(z) \in s..(f - 1)
    BY <1>2, <1>16
  <2>4. Shifted(d, r, lo..hi, s..(f - 1), z, b..(hi + z), (s + base(z))..(f + base(z) - 1))
    BY <1>11, <1>12, <1>14, <2>1, <2>2, <2>3 DEF Shifted
  <2> QED
    BY <1>3, <2>4, StoreShifted
<1>20. DequeAt(r, s + base(z), f + base(z))
  BY <1>2, <1>16, <1>17, <1>18, <1>19 DEF DequeAt
<1>21. \A a \in s..(f - 1) : content(r, a + base(z)) = content(d, a)
  BY <1>2, <1>19
<1> QED
  BY <1>7, <1>11, <1>20, <1>21

LEMMA ReallocateMapIs ==
    ASSUME NEW d, NEW s, NEW f, DequeAt(d, s, f), NEW n \in Nat, n # 0, NEW front \in BOOLEAN,
           NEW r, r = reallocate_map(d, n, front)
    PROVE  \E z \in Int :
              MapMoved(d, r, s, f, z, node_of(s) + z - (IF front THEN n ELSE 0),
                       node_of(f) + z + (IF front THEN 0 ELSE n))
<1>1. PICK lo \in Nat, hi \in Nat : /\ lo = node_of(s) /\ hi = node_of(f) /\ lo <= hi
                                    /\ d.start.node = lo /\ d.finish.node = hi
                                    /\ lo..hi \subseteq DOMAIN d.map /\ IsDeque(d)
  BY DequeNodes
<1>2. PICK u \in Nat : DOMAIN d.map = 0..(u - 1)
  BY <1>1 DEF IsDeque
<1>3. hi < u
  <2>1. hi \in lo..hi
    BY <1>1
  <2> QED
    BY <1>1, <1>2, <2>1
<1>4. Cardinality(DOMAIN d.map) = u
  <2>1. Cardinality(0..(u - 1)) = IF 0 > u - 1 THEN 0 ELSE (u - 1) - 0 + 1
    BY FS_Interval
  <2> QED
    BY <1>2, <1>3, <2>1
<1>5. PICK old \in Nat : old = hi - lo + 1
  BY <1>1
<1>6. PICK stays \in BOOLEAN : stays <=> u > 2 * (old + n)
  OBVIOUS
<1>7. PICK w \in Nat : /\ w = IF u > 2 * (old + n) THEN u ELSE u + max(u, n) + 2
                       /\ old + n <= w /\ (stays => w = u)
  <2>1. max(u, n) \in Nat /\ u <= max(u, n) /\ n <= max(u, n)
    BY DEF max
  <2>2. old <= u
    BY <1>1, <1>3, <1>5
  <2> QED
    BY <1>6, <2>1, <2>2
<1>8. PICK room \in Nat : room = (IF front THEN n ELSE 0) /\ room <= n
  OBVIOUS
<1>9. PICK b \in Nat : b = new_nstart(w, old + n, n, front) /\ room <= b /\ b + old + (n - room) <= w
  <2>1. PICK h \in Nat : h = (w - (old + n)) \div 2 /\ 2 * h <= w - (old + n)
    BY <1>7
  <2>2. h + room = new_nstart(w, old + n, n, front)
    BY <1>8, <2>1 DEF new_nstart
  <2>3. h + room \in Nat /\ room <= h + room /\ (h + room) + old + (n - room) <= w
    BY <1>7, <1>8, <2>1
  <2> QED
    BY <2>2, <2>3
<1>10. PICK z \in Int : z = b - lo
  OBVIOUS
<1>11. PICK moved : moved = [d EXCEPT !.map = moved_map(d, lo, old, b, w, stays)]
  OBVIOUS
<1>12. r = [moved EXCEPT !.start = set_node(moved, @, b), !.finish = set_node(moved, @, b + old - 1)]
  <2>1. moved_map(d, lo, old, b, w, stays) =
           [k \in 0..(w - 1) |-> IF k \in b..(b + old - 1) THEN d.map[lo + k - b]
                                 ELSE IF u > 2 * (old + n) THEN d.map[k] ELSE null]
    BY <1>6 DEF moved_map
  <2> HIDE DEF moved_map
  <2>2. moved = [d EXCEPT !.map =
           [k \in 0..(w - 1) |-> IF k \in b..(b + old - 1) THEN d.map[lo + k - b]
                                 ELSE IF u > 2 * (old + n) THEN d.map[k] ELSE null]]
    BY <1>11, <2>1
  <2> QED
    BY <1>1, <1>4, <1>5, <1>7, <1>9, <2>2, Zenon DEF reallocate_map
<1>13. b = lo + z /\ b + old - 1 = hi + z /\ hi + z < w /\ 0 <= lo + z
  BY <1>1, <1>5, <1>8, <1>9, <1>10
<1>14. moved = [d EXCEPT !.map = moved_map(d, node_of(s), node_of(f) - node_of(s) + 1, node_of(s) + z, w, stays)]
  BY <1>1, <1>5, <1>11, <1>13
<1>15. r = [moved EXCEPT !.start = set_node(moved, @, node_of(s) + z),
                         !.finish = set_node(moved, @, node_of(f) + z)]
  BY <1>1, <1>12, <1>13
<1>16. /\ r.m = d.m /\ DequeAt(r, s + base(z), f + base(z)) /\ DOMAIN r.map = 0..(w - 1)
       /\ \A a \in s..(f - 1) : content(r, a + base(z)) = content(d, a)
  <2>1. stays => DOMAIN d.map = 0..(w - 1)
    BY <1>2, <1>7
  <2>2. 0 <= node_of(s) + z /\ node_of(f) + z < w
    BY <1>1, <1>13
  <2>3. MoveCall(d, s, f, z, w, stays, moved, r)
    BY <1>14, <1>15, <2>1, <2>2, Zenon DEF MoveCall
  <2> QED
    BY <2>3, MovedMapIs
<1>17. (lo + z - room)..(hi + z + (n - room)) \subseteq 0..(w - 1)
  BY <1>1, <1>8, <1>9, <1>13
<1>18. MapMoved(d, r, s, f, z, lo + z - room, hi + z + (n - room))
  BY <1>16, <1>17 DEF MapMoved
<1>19. n - room = IF front THEN 0 ELSE n
  BY <1>8
<1> QED
  BY <1>1, <1>8, <1>18, <1>19

\* A deque that is where it was is a map that was moved by nothing.
LEMMA NotMoved ==
    ASSUME NEW d, NEW s, NEW f, DequeAt(d, s, f), NEW lo, NEW hi, lo..hi \subseteq DOMAIN d.map
    PROVE  MapMoved(d, d, s, f, 0, lo, hi)
<1>1. base(0) = 0 /\ s \in Int /\ f \in Int
  BY BaseSum, 0 \in Int DEF DequeAt
<1>2. s + base(0) = s /\ f + base(0) = f /\ \A a \in s..(f - 1) : a + base(0) = a
  BY <1>1
<1> QED
  BY <1>2 DEF MapMoved

\* There is room behind finish, or made in front of start.
LEMMA ReserveBackIs ==
    ASSUME NEW d, NEW s, NEW f, DequeAt(d, s, f), NEW n \in Nat, n # 0,
           NEW r, r = reserve_map_at_back(d, n)
    PROVE  \E z \in Int : MapMoved(d, r, s, f, z, node_of(s) + z, node_of(f) + z + n)
<1>1. PICK lo \in Nat, hi \in Nat : /\ lo = node_of(s) /\ hi = node_of(f) /\ lo <= hi
                                    /\ d.finish.node = hi
                                    /\ lo..hi \subseteq DOMAIN d.map /\ IsDeque(d)
  BY DequeNodes
<1>2. PICK u \in Nat : DOMAIN d.map = 0..(u - 1)
  BY <1>1 DEF IsDeque
<1>3. hi < u
  <2>1. hi \in lo..hi
    BY <1>1
  <2> QED
    BY <1>1, <1>2, <2>1
<1>4. Cardinality(DOMAIN d.map) = u
  <2>1. Cardinality(0..(u - 1)) = IF 0 > u - 1 THEN 0 ELSE (u - 1) - 0 + 1
    BY FS_Interval
  <2> QED
    BY <1>2, <1>3, <2>1
<1>5. CASE n + 1 > u - hi
  <2>1. r = reallocate_map(d, n, FALSE)
    BY <1>1, <1>4, <1>5 DEF reserve_map_at_back
  <2>2. \E z \in Int :
              MapMoved(d, r, s, f, z, node_of(s) + z - (IF FALSE THEN n ELSE 0),
                       node_of(f) + z + (IF FALSE THEN 0 ELSE n))
    BY <2>1, ReallocateMapIs
  <2>3. PICK z \in Int : MapMoved(d, r, s, f, z, node_of(s) + z - 0, node_of(f) + z + n)
    BY <2>2
  <2>4. node_of(s) + z - 0 = node_of(s) + z
    BY <1>1
  <2> QED
    BY <2>3, <2>4
<1>6. CASE ~(n + 1 > u - hi)
  <2>1. r = d
    BY <1>1, <1>4, <1>6 DEF reserve_map_at_back
  <2>2. lo..(hi + n) \subseteq DOMAIN d.map
    BY <1>1, <1>2, <1>6
  <2>3. MapMoved(d, r, s, f, 0, lo, hi + n)
    BY <2>1, <2>2, NotMoved
  <2>4. lo + 0 = lo /\ hi + 0 + n = hi + n
    BY <1>1
  <2> QED
    BY <1>1, <2>3, <2>4
<1> QED
  BY <1>5, <1>6

LEMMA ReserveFrontIs ==
    ASSUME NEW d, NEW s, NEW f, DequeAt(d, s, f), NEW n \in Nat, n # 0,
           NEW r, r = reserve_map_at_front(d, n)
    PROVE  \E z \in Int : MapMoved(d, r, s, f, z, node_of(s) + z - n, node_of(f) + z)
<1>1. PICK lo \in Nat, hi \in Nat : /\ lo = node_of(s) /\ hi = node_of(f) /\ lo <= hi
                                    /\ d.start.node = lo
                                    /\ lo..hi \subseteq DOMAIN d.map /\ IsDeque(d)
  BY DequeNodes
<1>2. PICK u \in Nat : DOMAIN d.map = 0..(u - 1)
  BY <1>1 DEF IsDeque
<1>3. hi < u
  <2>1. hi \in lo..hi
    BY <1>1
  <2> QED
    BY <1>1, <1>2, <2>1
<1>4. CASE n > lo
  <2>1. r = reallocate_map(d, n, TRUE)
    BY <1>1, <1>4 DEF reserve_map_at_front
  <2>2. \E z \in Int :
              MapMoved(d, r, s, f, z, node_of(s) + z - (IF TRUE THEN n ELSE 0),
                       node_of(f) + z + (IF TRUE THEN 0 ELSE n))
    BY <2>1, ReallocateMapIs
  <2>3. PICK z \in Int : MapMoved(d, r, s, f, z, node_of(s) + z - n, node_of(f) + z + 0)
    BY <2>2
  <2>4. node_of(f) + z + 0 = node_of(f) + z
    BY <1>1
  <2> QED
    BY <2>3, <2>4
<1>5. CASE ~(n > lo)
  <2>1. r = d
    BY <1>1, <1>5 DEF reserve_map_at_front
  <2>2. (lo - n)..hi \subseteq DOMAIN d.map
    BY <1>1, <1>2, <1>3, <1>5
  <2>3. MapMoved(d, r, s, f, 0, lo - n, hi)
    BY <2>1, <2>2, NotMoved
  <2>4. lo + 0 - n = lo - n /\ hi + 0 = hi
    BY <1>1
  <2> QED
    BY <1>1, <2>3, <2>4
<1> QED
  BY <1>4, <1>5

-----------------------------------------------------------------------------
\* A deque and what it holds

\* There are blocks for the nodes of MaxSize elements.
LEMMA NodesBound ==
    ASSUME NEW a \in Int, NEW b \in Int, a <= b, b - a <= MaxSize
    PROVE  /\ Cardinality(Block) \in Nat /\ node_of(b) - node_of(a) < Cardinality(Block)
           /\ node_of(a) \in Int /\ node_of(b) \in Int
<1>1. PICK i \in Int, o \in Nat : /\ i = node_of(a) /\ o = offset_of(a) /\ o < BufferSize
                                  /\ a = base(i) + o /\ base(i) \in Int
  BY AddressParts
<1>2. PICK j \in Int, p \in Nat : /\ j = node_of(b) /\ p = offset_of(b) /\ p < BufferSize
                                  /\ b = base(j) + p /\ base(j) \in Int
  BY AddressParts
<1>3. PICK x \in Int : x = MaxSize + BufferSize - 1
  BY DequeAssumption
<1>4. PICK k \in Int, q \in Nat : /\ k = node_of(x) /\ q = offset_of(x) /\ q < BufferSize
                                  /\ x = base(k) + q /\ base(k) \in Int
  BY AddressParts
<1>5. Cardinality(Block) \in Nat
  BY DequeAssumption, FS_CardinalityType
<1>6. k < Cardinality(Block)
  <2>1. k = (MaxSize + BufferSize - 1) \div BufferSize
    BY <1>3, <1>4 DEF node_of
  <2>2. Cardinality(Block) > (MaxSize + BufferSize - 1) \div BufferSize
    BY DequeAssumption
  <2> QED
    BY <1>4, <1>5, <2>1, <2>2
<1>7. j - i <= k
  <2>1. SUFFICES ASSUME k < j - i
                 PROVE  FALSE
    BY <1>1, <1>2, <1>4
  <2>2. base(k) + BufferSize <= base(j - i) /\ base(j - i) = base(j) - base(i)
    <3>1. PICK n \in Int : n = j - i
      OBVIOUS
    <3>2. base(k) + BufferSize <= base(n)
      BY <2>1, <3>1, BaseOrder
    <3>3. base(j - i) = base(j) - base(i)
      BY BaseSum
    <3> QED
      BY <3>1, <3>2, <3>3
  <2>3. BufferSize \in Nat /\ MaxSize \in Nat
    BY DequeAssumption
  <2> QED
    BY <1>1, <1>2, <1>3, <1>4, <2>2, <2>3
<1> QED
  BY <1>1, <1>2, <1>4, <1>5, <1>6, <1>7

\* One more node has a block as long as the elements it is for are not too many.
LEMMA NodesFinite ==
    ASSUME NEW i \in Int, NEW j \in Int, j - i + 1 < Cardinality(Block)
    PROVE  IsFiniteSet(i..j) /\ Cardinality(i..j) < Cardinality(Block)
<1>1. IsFiniteSet(i..j) /\ Cardinality(i..j) = IF i > j THEN 0 ELSE j - i + 1
  BY FS_Interval
<1>2. Cardinality(Block) \in Nat /\ 0 < Cardinality(Block)
  <2>1. PICK a \in Int : a = 0 /\ a - a <= MaxSize
    BY DequeAssumption
  <2>2. Cardinality(Block) \in Nat /\ node_of(a) - node_of(a) < Cardinality(Block) /\ node_of(a) \in Int
    BY <2>1, NodesBound
  <2> QED
    BY <2>2
<1> QED
  BY <1>1, <1>2

\* The same memory and map, whatever the iterators are
SameStore(x, r) == IsDeque(r) /\ r.m = x.m /\ r.map = x.map

LEMMA SameStoreIs ==
    ASSUME NEW x, NEW N, NEW E, Store(x, N, E), NEW r, SameStore(x, r)
    PROVE  Store(r, N, E) /\ \A a : /\ content(r, a) = content(x, a) /\ cell_at(r, a) = cell_at(x, a)
                                    /\ iterator(r, a) = iterator(x, a)
                                    /\ slot(r, a) = slot(x, a)
<1>1. \A a : slot(r, a) = slot(x, a) /\ block_of(r, a) = block_of(x, a)
  BY DEF SameStore, slot, block_of
<1>2. \A a : cell_at(r, a) = cell_at(x, a) /\ iterator(r, a) = iterator(x, a)
  BY <1>1 DEF cell_at, iterator
<1>3. \A a : content(r, a) = content(x, a)
  BY <1>2 DEF SameStore, content
<1>4. Store(r, N, E)
  BY <1>1, <1>3 DEF Store, SameStore
<1> QED
  BY <1>1, <1>2, <1>3, <1>4

EndsAt(x, r, s, f) ==
    /\ s <= f /\ Store(x, node_of(s)..node_of(f), s..(f - 1)) /\ SameStore(x, r)
    /\ r.start = iterator(x, s) /\ r.finish = iterator(x, f)

LEMMA EndsAre ==
    ASSUME NEW s \in Int, NEW f \in Int, NEW x, NEW r, EndsAt(x, r, s, f)
    PROVE  DequeAt(r, s, f) /\ \A a : content(r, a) = content(x, a)
  BY SameStoreIs DEF DequeAt, EndsAt

\* The elements in their order
Contents(d, s, f) == [k \in 1..(f - s) |-> content(d, s + k - 1)]

\* r is a deque that holds q.
Leaves(r, q) == \E s, f \in Int : DequeAt(r, s, f) /\ q = Contents(r, s, f)

LEMMA ContentsAre ==
    ASSUME NEW d, NEW s, NEW f, DequeAt(d, s, f)
    PROVE  /\ Contents(d, s, f) \in Seq(Value) /\ Len(Contents(d, s, f)) = f - s /\ f - s \in Nat
           /\ \A k \in 1..(f - s) : Contents(d, s, f)[k] = content(d, s + k - 1)
<1>1. PICK q, n : q = Contents(d, s, f) /\ n = f - s
  OBVIOUS
<1>2. s \in Int /\ f \in Int /\ s <= f /\ Store(d, node_of(s)..node_of(f), s..(f - 1))
  BY DEF DequeAt
<1>3. n \in Nat
  BY <1>1, <1>2
<1>4. q = [k \in 1..n |-> content(d, s + k - 1)]
  BY <1>1 DEF Contents
<1>5. ASSUME NEW k \in 1..n
      PROVE  q[k] = content(d, s + k - 1) /\ q[k] \in Value
  <2>1. s + k - 1 \in s..(f - 1)
    BY <1>1, <1>2
  <2>2. content(d, s + k - 1) \in Value
    BY <1>2, <2>1 DEF Store
  <2> QED
    BY <1>4, <2>2
<1>6. q \in [1..n -> Value]
  BY <1>4, <1>5
<1>7. q \in Seq(Value) /\ Len(q) = n
  BY <1>3, <1>6
<1> QED
  BY <1>1, <1>3, <1>5, <1>7

\* The same contents, wherever they are
SameElements(d, s, f, r, t, g) ==
    g - t = f - s /\ \A a \in s..(f - 1) : content(r, a + (t - s)) = content(d, a)

LEMMA ContentsEqual ==
    ASSUME NEW d, NEW s \in Int, NEW f \in Int, NEW r, NEW t \in Int, NEW g \in Int,
           SameElements(d, s, f, r, t, g)
    PROVE  Contents(r, t, g) = Contents(d, s, f)
<1>1. ASSUME NEW k \in 1..(f - s)
      PROVE  content(r, t + k - 1) = content(d, s + k - 1)
  <2>1. s + k - 1 \in s..(f - 1) /\ (s + k - 1) + (t - s) = t + k - 1
    OBVIOUS
  <2> QED
    BY <2>1 DEF SameElements
<1> QED
  BY <1>1 DEF Contents, SameElements

LEMMA LeavesMoved ==
    ASSUME NEW d, NEW s, NEW f, DequeAt(d, s, f), NEW r, NEW z, NEW lo, NEW hi,
           MapMoved(d, r, s, f, z, lo, hi)
    PROVE  /\ s + base(z) \in Int /\ f + base(z) \in Int /\ base(z) \in Int /\ z \in Int
           /\ DequeAt(r, s + base(z), f + base(z))
           /\ Contents(r, s + base(z), f + base(z)) = Contents(d, s, f)
           /\ node_of(s + base(z)) = node_of(s) + z /\ node_of(f + base(z)) = node_of(f) + z
           /\ offset_of(s + base(z)) = offset_of(s) /\ offset_of(f + base(z)) = offset_of(f)
<1>1. s \in Int /\ f \in Int /\ z \in Int
  BY DEF DequeAt, MapMoved
<1>2. base(z) \in Int
  BY <1>1, BaseSum
<1>3. PICK t \in Int, g \in Int : t = s + base(z) /\ g = f + base(z)
  BY <1>1, <1>2
<1>4. DequeAt(r, t, g) /\ \A a \in s..(f - 1) : content(r, a + base(z)) = content(d, a)
  BY <1>3 DEF MapMoved
<1>5. g - t = f - s /\ t - s = base(z)
  BY <1>1, <1>2, <1>3
<1>6. Contents(r, t, g) = Contents(d, s, f)
  <2>1. \A a \in s..(f - 1) : content(r, a + (t - s)) = content(d, a)
    BY <1>4, <1>5
  <2>2. SameElements(d, s, f, r, t, g)
    BY <1>5, <2>1 DEF SameElements
  <2> QED
    BY <1>1, <2>2, ContentsEqual
<1>7. /\ node_of(t) = node_of(s) + z /\ node_of(g) = node_of(f) + z
      /\ offset_of(t) = offset_of(s) /\ offset_of(g) = offset_of(f)
  BY <1>1, <1>3, AddressShifted
<1> QED
  BY <1>1, <1>2, <1>3, <1>4, <1>6, <1>7

\* A call that threw before it changed anything, or only made room
LEMMA LeavesAlike ==
    ASSUME NEW d, NEW s, NEW f, DequeAt(d, s, f), NEW r, Alike(d, r), SameCells(d.m, r.m)
    PROVE  DequeAt(r, s, f) /\ Contents(r, s, f) = Contents(d, s, f)
<1>1. /\ s \in Int /\ f \in Int /\ s <= f /\ d.start = iterator(d, s) /\ d.finish = iterator(d, f)
      /\ Store(d, node_of(s)..node_of(f), s..(f - 1))
  BY DEF DequeAt
<1>2. Store(r, node_of(s)..node_of(f), s..(f - 1)) /\ \A a : content(r, a) = content(d, a)
  BY <1>1, StoreSameCells
<1>3. r.start = iterator(r, s) /\ r.finish = iterator(r, f)
  BY <1>1, AlikeCells DEF Alike
<1>4. DequeAt(r, s, f)
  BY <1>1, <1>2, <1>3 DEF DequeAt
<1>5. Contents(r, s, f) = Contents(d, s, f)
  BY <1>2 DEF Contents
<1> QED
  BY <1>4, <1>5

\* The iterators of neighbours in a buffer, and into the next and the last one
LEMMA NeighboursAre ==
    ASSUME NEW d, IsDeque(d), NEW a \in Int
    PROVE  /\ node_of(a + 1) = node_of(a) =>
                [iterator(d, a) EXCEPT !.cur = plus(@, 1)] = iterator(d, a + 1)
           /\ node_of(a - 1) = node_of(a) =>
                /\ [iterator(d, a) EXCEPT !.cur = plus(@, -1)] = iterator(d, a - 1)
                /\ plus(cell_at(d, a), -1) = cell_at(d, a - 1)
<1>1. PICK i \in Int, o \in Nat : /\ i = node_of(a) /\ o = offset_of(a) /\ o < BufferSize
                                  /\ a = base(i) + o /\ base(i) \in Int
  BY AddressParts
<1>2. PICK b : b = block_of(d, i)
  OBVIOUS
<1>3. iterator(d, a) = [cur |-> << b, o >>, first |-> << b, 0 >>, last |-> << b, BufferSize >>, node |-> i]
  BY <1>1, <1>2, IteratorIs
<1>4. ASSUME node_of(a + 1) = i
      PROVE  [iterator(d, a) EXCEPT !.cur = plus(@, 1)] = iterator(d, a + 1)
  <2>1. offset_of(a + 1) = o + 1
    <3>1. a <= a + 1 /\ a + 1 \in Int
      OBVIOUS
    <3>2. offset_of(a + 1) = offset_of(a) + ((a + 1) - a)
      BY <1>1, <1>4, <3>1, AddressOrder
    <3> QED
      BY <1>1, <3>2
  <2>2. iterator(d, a + 1) = [cur |-> << b, o + 1 >>, first |-> << b, 0 >>, last |-> << b, BufferSize >>, node |-> i]
    BY <1>2, <1>4, <2>1, IteratorIs
  <2>3. plus(<< b, o >>, 1) = << b, o + 1 >>
    BY DEF plus
  <2> QED
    BY <1>3, <2>2, <2>3
<1>5. ASSUME node_of(a - 1) = i
      PROVE  /\ [iterator(d, a) EXCEPT !.cur = plus(@, -1)] = iterator(d, a - 1)
             /\ plus(cell_at(d, a), -1) = cell_at(d, a - 1)
  <2>1. offset_of(a - 1) = o - 1
    <3>1. a - 1 <= a /\ a - 1 \in Int
      OBVIOUS
    <3>2. offset_of(a) = offset_of(a - 1) + (a - (a - 1)) /\ offset_of(a - 1) \in Nat
      BY <1>1, <1>5, <3>1, AddressOrder, AddressIs
    <3> QED
      BY <1>1, <3>2
  <2>2. iterator(d, a - 1) = [cur |-> << b, o - 1 >>, first |-> << b, 0 >>, last |-> << b, BufferSize >>, node |-> i]
    BY <1>2, <1>5, <2>1, IteratorIs
  <2>3. plus(<< b, o >>, -1) = << b, o - 1 >>
    BY DEF plus
  <2>4. cell_at(d, a) = << b, o >> /\ cell_at(d, a - 1) = << b, o - 1 >>
    BY <1>1, <1>2, <1>5, <2>1 DEF cell_at
  <2> QED
    BY <1>3, <2>2, <2>3, <2>4
<1> QED
  BY <1>1, <1>4, <1>5

at_first(it) == [it EXCEPT !.cur = it.first]
at_last(it) == [it EXCEPT !.cur = plus(it.last, -1)]

LEMMA OtherBuffer ==
    ASSUME NEW d, IsDeque(d), NEW a \in Int, NEW k \in Int, NEW there,
           there = set_node(d, iterator(d, a), k)
    PROVE  /\ at_first(there) = iterator(d, base(k))
           /\ at_last(there) = iterator(d, base(k) + (BufferSize - 1))
           /\ node_of(base(k)) = k /\ offset_of(base(k)) = 0 /\ base(k) \in Int
           /\ node_of(base(k) + (BufferSize - 1)) = k
           /\ offset_of(base(k) + (BufferSize - 1)) = BufferSize - 1
<1>1. PICK e : e = block_of(d, k) /\ slot(d, k) = << e, 0 >>
  BY SlotIs
<1>2. BufferSize \in Nat /\ BufferSize # 0 /\ base(k) \in Int
  BY DequeAssumption, BaseSum
<1>3. plus(<< e, 0 >>, BufferSize) = << e, BufferSize >> /\ plus(<< e, BufferSize >>, -1) = << e, BufferSize - 1 >>
  BY <1>2 DEF plus
<1>4. there = [cur |-> cell_at(d, a), first |-> << e, 0 >>, last |-> << e, BufferSize >>, node |-> k]
  <2>1. iterator(d, a) = [cur |-> cell_at(d, a), first |-> slot(d, node_of(a)),
                          last |-> plus(slot(d, node_of(a)), BufferSize), node |-> node_of(a)]
    BY DEF iterator
  <2>2. set_node(d, iterator(d, a), k) =
           [cur |-> cell_at(d, a), first |-> slot(d, k), last |-> plus(slot(d, k), BufferSize), node |-> k]
    BY <2>1, SetNodeIs
  <2> QED
    BY <1>1, <1>3, <2>2
<1>5. node_of(base(k)) = k /\ offset_of(base(k)) = 0
  <2>1. 0 \in 0..(BufferSize - 1) /\ base(k) + 0 = base(k)
    BY <1>2
  <2> QED
    BY <2>1, AddressOf
<1>6. /\ node_of(base(k) + (BufferSize - 1)) = k
      /\ offset_of(base(k) + (BufferSize - 1)) = BufferSize - 1
  <2>1. BufferSize - 1 \in 0..(BufferSize - 1)
    BY <1>2
  <2> QED
    BY <2>1, AddressOf
<1>7. iterator(d, base(k)) = [cur |-> << e, 0 >>, first |-> << e, 0 >>, last |-> << e, BufferSize >>, node |-> k]
  BY <1>1, <1>5, IteratorIs
<1>8. iterator(d, base(k) + (BufferSize - 1)) =
         [cur |-> << e, BufferSize - 1 >>, first |-> << e, 0 >>, last |-> << e, BufferSize >>, node |-> k]
  BY <1>1, <1>6, IteratorIs
<1> QED
  BY <1>2, <1>3, <1>4, <1>5, <1>6, <1>7, <1>8 DEF at_first, at_last

\* A sequence of elements, and one with the same length and the same elements
LEMMA SameSeq ==
    ASSUME NEW p \in Seq(Value), NEW q \in Seq(Value), Len(p) = Len(q),
           \A k \in 1..Len(p) : p[k] = q[k]
    PROVE  p = q
  BY SeqEqual

\* One more element behind, or in front of, those that were there
LEMMA AppendedIs ==
    ASSUME NEW d, NEW s, NEW f, DequeAt(d, s, f), NEW r, NEW v \in Value,
           DequeAt(r, s, f + 1), content(r, f) = v, Kept(d, r, s..(f - 1))
    PROVE  Leaves(r, Append(Contents(d, s, f), v))
<1>0. s \in Int /\ f \in Int /\ f + 1 \in Int /\ s <= f
  BY DEF DequeAt
<1>1. PICK p : p = Contents(d, s, f)
  OBVIOUS
<1>2. PICK q : q = Contents(r, s, f + 1)
  OBVIOUS
<1>3. /\ p \in Seq(Value) /\ Len(p) = f - s /\ f - s \in Nat
      /\ \A k \in 1..(f - s) : p[k] = content(d, s + k - 1)
  BY <1>1, ContentsAre
<1>4. /\ q \in Seq(Value) /\ Len(q) = f + 1 - s
      /\ \A k \in 1..(f + 1 - s) : q[k] = content(r, s + k - 1)
  <2>1. PICK g \in Int : g = f + 1
    BY <1>0
  <2>2. /\ q \in Seq(Value) /\ Len(q) = g - s
        /\ \A k \in 1..(g - s) : q[k] = content(r, s + k - 1)
    BY <1>2, <2>1, ContentsAre
  <2> QED
    BY <1>0, <2>1, <2>2
<1>5. PICK a : a = Append(p, v)
  OBVIOUS
<1>6. /\ a \in Seq(Value) /\ Len(a) = f - s + 1 /\ a[f - s + 1] = v
      /\ \A k \in 1..(f - s) : a[k] = p[k]
  BY <1>3, <1>5, AppendProperties
<1>7. a = q
  <2>1. ASSUME NEW k \in 1..(f - s)
        PROVE  a[k] = q[k]
    <3>1. s + k - 1 \in s..(f - 1) /\ k \in 1..(f + 1 - s)
      BY <1>0
    <3>2. content(r, s + k - 1) = content(d, s + k - 1)
      BY <3>1 DEF Kept
    <3> QED
      BY <1>3, <1>4, <1>6, <3>1, <3>2
  <2>2. a[f - s + 1] = q[f - s + 1]
    <3>1. f - s + 1 \in 1..(f + 1 - s) /\ s + (f - s + 1) - 1 = f
      BY <1>0
    <3> QED
      BY <1>4, <1>6, <3>1
  <2>3. Len(a) = Len(q) /\ \A k \in 1..Len(a) : k \in 1..(f - s) \/ k = f - s + 1
    BY <1>0, <1>4, <1>6
  <2> QED
    BY <1>4, <1>6, <2>1, <2>2, <2>3, SameSeq
<1> QED
  BY <1>0, <1>1, <1>2, <1>5, <1>7 DEF Leaves

LEMMA PrependedIs ==
    ASSUME NEW d, NEW s, NEW f, DequeAt(d, s, f), NEW r, NEW v \in Value,
           DequeAt(r, s - 1, f), content(r, s - 1) = v, Kept(d, r, s..(f - 1))
    PROVE  Leaves(r, << v >> \o Contents(d, s, f))
<1>0. s \in Int /\ f \in Int /\ s - 1 \in Int /\ s <= f
  BY DEF DequeAt
<1>1. PICK p : p = Contents(d, s, f)
  OBVIOUS
<1>2. PICK q : q = Contents(r, s - 1, f)
  OBVIOUS
<1>3. /\ p \in Seq(Value) /\ Len(p) = f - s /\ f - s \in Nat
      /\ \A k \in 1..(f - s) : p[k] = content(d, s + k - 1)
  BY <1>1, ContentsAre
<1>4. /\ q \in Seq(Value) /\ Len(q) = f - (s - 1)
      /\ \A k \in 1..(f - (s - 1)) : q[k] = content(r, (s - 1) + k - 1)
  BY <1>2, ContentsAre
<1>5. PICK a : a = << v >> \o p
  OBVIOUS
<1>6. /\ a \in Seq(Value) /\ Len(a) = 1 + (f - s) /\ a[1] = v
      /\ \A k \in 2..(1 + (f - s)) : a[k] = p[k - 1]
  <2>1. << v >> \in Seq(Value) /\ Len(<< v >>) = 1 /\ << v >>[1] = v
    OBVIOUS
  <2>2. /\ a \in Seq(Value) /\ Len(a) = 1 + (f - s)
        /\ \A k \in 1..(1 + (f - s)) : a[k] = IF k <= 1 THEN << v >>[k] ELSE p[k - 1]
    BY <1>3, <1>5, <2>1, ConcatProperties
  <2>3. 1 \in 1..(1 + (f - s)) /\ \A k \in 2..(1 + (f - s)) : k \in 1..(1 + (f - s)) /\ ~(k <= 1)
    BY <1>3
  <2> QED
    BY <2>1, <2>2, <2>3
<1>7. a = q
  <2>1. ASSUME NEW k \in 2..(1 + (f - s))
        PROVE  a[k] = q[k]
    <3>1. (s - 1) + k - 1 \in s..(f - 1) /\ k \in 1..(f - (s - 1)) /\ k - 1 \in 1..(f - s)
          /\ (s - 1) + k - 1 = s + (k - 1) - 1
      BY <1>0
    <3>2. content(r, (s - 1) + k - 1) = content(d, s + (k - 1) - 1)
      BY <3>1 DEF Kept
    <3> QED
      BY <1>3, <1>4, <1>6, <3>1, <3>2
  <2>2. a[1] = q[1]
    <3>1. 1 \in 1..(f - (s - 1)) /\ (s - 1) + 1 - 1 = s - 1
      BY <1>0
    <3> QED
      BY <1>4, <1>6, <3>1
  <2>3. Len(a) = Len(q) /\ \A k \in 1..Len(a) : k \in 2..(1 + (f - s)) \/ k = 1
    BY <1>0, <1>4, <1>6
  <2> QED
    BY <1>4, <1>6, <2>1, <2>2, <2>3, SameSeq
<1> QED
  BY <1>0, <1>1, <1>2, <1>5, <1>7 DEF Leaves

\* The elements are the same and in the same places.
LEMMA KeptContents ==
    ASSUME NEW d, NEW s, NEW f, DequeAt(d, s, f), NEW r, DequeAt(r, s, f), Kept(d, r, s..(f - 1))
    PROVE  Leaves(r, Contents(d, s, f)) /\ Contents(r, s, f) = Contents(d, s, f)
<1>1. s \in Int /\ f \in Int
  BY DEF DequeAt
<1>2. SameElements(d, s, f, r, s, f)
  <2>1. \A a \in s..(f - 1) : a + (s - s) = a
    BY <1>1
  <2> QED
    BY <2>1 DEF SameElements, Kept
<1>3. Contents(r, s, f) = Contents(d, s, f)
  BY <1>1, <1>2, ContentsEqual
<1> QED
  BY <1>1, <1>3 DEF Leaves

\* A new node does not move the iterators to others.
LEMMA AddedKeeps ==
    ASSUME NEW d, NEW r, NEW N, NEW E, NEW k, NodeAdded(d, r, N, E, k), NEW a, node_of(a) # k
    PROVE  iterator(r, a) = iterator(d, a) /\ cell_at(r, a) = cell_at(d, a)
<1>1. slot(r, node_of(a)) = slot(d, node_of(a))
  BY DEF NodeAdded
<1> QED
  BY <1>1 DEF iterator, cell_at, block_of

-----------------------------------------------------------------------------
\* Calls at the ends

\* The call that made r of a deque throws and leaves its contents, or leaves q.
Ends(d, s, f, r, q) ==
    /\ r.m.thrown => Leaves(r, Contents(d, s, f))
    /\ ~r.m.thrown => Leaves(r, q)

LEMMA TemporaryAt ==
    ASSUME NEW d, NEW s, NEW f, DequeAt(d, s, f), ~d.m.thrown,
           NEW r, r = with(d, temporary(d.m))
    PROVE  /\ DequeAt(r, s, f) /\ Contents(r, s, f) = Contents(d, s, f) /\ r.m = temporary(d.m)
           /\ r.m.cells = d.m.cells
<1>1. IsDeque(d) /\ IsMemory(d.m)
  BY DequeNodes
<1>2. PICK n : n = temporary(d.m)
  OBVIOUS
<1>3. SameCells(d.m, n)
  BY <1>1, <1>2, TemporaryIs
<1>4. Alike(d, r) /\ r.m = n
  BY <1>1, <1>2, WithIs
<1>5. DequeAt(r, s, f) /\ Contents(r, s, f) = Contents(d, s, f)
  BY <1>3, <1>4, LeavesAlike
<1>6. n.cells = d.m.cells
  BY <1>3 DEF SameCells
<1> QED
  BY <1>2, <1>4, <1>5, <1>6

\* An element is added in the buffer of finish.
LEMMA PushBackHere ==
    ASSUME NEW d, NEW s, NEW f, DequeAt(d, s, f), ~d.m.thrown, node_of(f + 1) = node_of(f),
           NEW v \in Value, NEW c, c = with(d, construct(d.m, d.finish.cur, v)),
           NEW r, r = IF c.m.thrown THEN c ELSE [c EXCEPT !.finish.cur = plus(@, 1)]
    PROVE  Ends(d, s, f, r, Append(Contents(d, s, f), v))
<1>0. /\ s \in Int /\ f \in Int /\ f + 1 \in Int /\ s <= f /\ s <= f + 1 /\ IsDeque(d)
      /\ f \notin s..(f - 1) /\ s..(f + 1 - 1) = s..(f - 1) \cup {f}
      /\ d.start = iterator(d, s) /\ d.finish = iterator(d, f)
      /\ node_of(f) \in node_of(s)..node_of(f)
      /\ Store(d, node_of(s)..node_of(f), s..(f - 1))
  <2>1. s \in Int /\ f \in Int /\ s <= f
    BY DEF DequeAt
  <2>2. node_of(f) \in node_of(s)..node_of(f)
    BY <2>1, DequeNodes
  <2> QED
    BY <2>1, <2>2, DequeNodes DEF DequeAt
<1>1. d.finish.cur = cell_at(d, f)
  BY <1>0 DEF iterator
<1>2. Constructs(d, c, node_of(s)..node_of(f), s..(f - 1), f, v)
  <2>1. c = with(d, construct(d.m, cell_at(d, f), v))
    BY <1>1
  <2> QED
    BY <1>0, <2>1, ConstructIs
<1>3. Alike(d, c) /\ c.start = iterator(c, s) /\ c.finish = iterator(c, f) /\ IsDeque(c)
  <2>1. Alike(d, c)
    BY <1>2 DEF Constructs
  <2>2. iterator(c, s) = iterator(d, s) /\ iterator(c, f) = iterator(d, f)
    BY <2>1, AlikeCells
  <2> QED
    BY <1>0, <2>1, <2>2 DEF Alike
<1>4. CASE c.m.thrown
  <2>1. r = c /\ Store(c, node_of(s)..node_of(f), s..(f - 1)) /\ \A x : content(c, x) = content(d, x)
    BY <1>2, <1>4 DEF Constructs
  <2>2. DequeAt(r, s, f) /\ Kept(d, r, s..(f - 1))
    BY <1>0, <1>3, <2>1 DEF DequeAt, Kept
  <2>3. Leaves(r, Contents(d, s, f))
    BY <2>2, KeptContents
  <2> QED
    BY <1>4, <2>1, <2>3 DEF Ends
<1>5. CASE ~c.m.thrown
  <2>1. r = [c EXCEPT !.finish.cur = plus(@, 1)] /\ Store(c, node_of(s)..node_of(f), s..(f - 1) \cup {f})
        /\ content(c, f) = v /\ Kept(d, c, s..(f - 1))
    BY <1>2, <1>5 DEF Constructs
  <2>2. r.finish = iterator(c, f + 1) /\ r.start = iterator(c, s) /\ r.m = c.m /\ r.map = c.map
        /\ DOMAIN r = DOMAIN c
    <3>1. [iterator(c, f) EXCEPT !.cur = plus(@, 1)] = iterator(c, f + 1)
      BY <1>0, <1>3, NeighboursAre
    <3>2. DOMAIN c = {"m", "map", "start", "finish"}
      BY <1>3 DEF IsDeque
    <3> QED
      BY <1>3, <2>1, <3>1, <3>2
  <2>3. SameStore(c, r)
    BY <1>3, <2>2 DEF SameStore, IsDeque
  <2>4. PICK g \in Int : g = f + 1
    BY <1>0
  <2>5. DequeAt(r, s, g) /\ \A a : content(r, a) = content(c, a)
    <3>1. s..(g - 1) = s..(f - 1) \cup {f} /\ s <= g /\ s \in Int
      BY <1>0, <2>4
    <3>2. Store(c, node_of(s)..node_of(g), s..(g - 1))
      BY <2>1, <2>4, <3>1
    <3>3. r.finish = iterator(c, g) /\ r.start = iterator(c, s)
      BY <2>2, <2>4
    <3>4. EndsAt(c, r, s, g)
      BY <2>3, <3>1, <3>2, <3>3 DEF EndsAt
    <3> QED
      BY <2>4, <3>1, <3>4, EndsAre
  <2>6. DequeAt(r, s, f + 1) /\ content(r, f) = v /\ Kept(d, r, s..(f - 1))
    BY <2>1, <2>4, <2>5 DEF Kept
  <2>7. Leaves(r, Append(Contents(d, s, f), v))
    BY <2>6, AppendedIs
  <2> QED
    BY <1>5, <2>2, <2>7 DEF Ends
<1> QED
  BY <1>4, <1>5

\* There is a block for one more node behind finish, or in front of start.
LEMMA RoomForNode ==
    ASSUME NEW s \in Int, NEW f \in Int, NEW i \in Int, NEW j \in Int, s <= f, f - s <= MaxSize,
           j - i + 1 = node_of(f) - node_of(s)
    PROVE  IsFiniteSet(i..j) /\ Cardinality(i..j) < Cardinality(Block)
<1>1. /\ Cardinality(Block) \in Nat /\ node_of(f) - node_of(s) < Cardinality(Block)
      /\ node_of(s) \in Int /\ node_of(f) \in Int
  BY NodesBound
<1>2. j - i + 1 < Cardinality(Block)
  BY <1>1
<1> QED
  BY <1>2, NodesFinite

\* d with a new node behind finish, and an element in the last cell of the buffer
\* of finish: in the node t, s or none of it stays.
AddBack(d, d2, c, r, v, k) ==
    LET there == set_node(d2, d2.finish, k)
    IN  /\ d2 = new_node(d, k)
        /\ c = with(d2, construct(d2.m, d2.finish.cur, v))
        /\ r = IF c.m.thrown THEN deallocate_node(c, slot(d2, k))
               ELSE [c EXCEPT !.finish = [there EXCEPT !.cur = there.first]]

LEMMA PushBackNode ==
    ASSUME NEW d, NEW s, NEW f, DequeAt(d, s, f), ~d.m.thrown, NEW v \in Value,
           f + 1 - s <= MaxSize, offset_of(f) = BufferSize - 1, NEW k, k = node_of(f) + 1,
           k \in DOMAIN d.map, NEW d2, NEW c, NEW r, AddBack(d, d2, c, r, v, k)
    PROVE  Ends(d, s, f, r, Append(Contents(d, s, f), v))
<1> DEFINE N == node_of(s)..node_of(f)
           E == s..(f - 1)
<1>0. /\ s \in Int /\ f \in Int /\ s <= f /\ IsDeque(d)
      /\ d.start = iterator(d, s) /\ d.finish = iterator(d, f) /\ Store(d, N, E)
      /\ node_of(s) \in Nat /\ node_of(f) \in Nat /\ node_of(s) <= node_of(f)
  BY DequeNodes DEF DequeAt
<1>1. PICK g \in Int : g = f + 1
  BY <1>0
<1>2. /\ f \notin E /\ s..(g - 1) = E \cup {f} /\ s <= g /\ k \in Int /\ k \notin N
      /\ node_of(f) \in N /\ N \cup {k} = node_of(s)..k /\ N = (N \cup {k}) \ {k}
  BY <1>0, <1>1
<1>3. base(k) = g /\ node_of(g) = k
  <2>1. node_of(f + 1) = node_of(f) + 1
    <3>1. offset_of(f) + 1 = BufferSize
      BY DequeAssumption
    <3> QED
      BY <1>0, <3>1, AddressNext
  <2>2. f = base(node_of(f)) + offset_of(f) /\ base(node_of(f) + 1) = base(node_of(f)) + BufferSize
        /\ base(node_of(f)) \in Int /\ BufferSize \in Nat
    BY <1>0, AddressIs, BaseSum
  <2> QED
    BY <1>0, <1>1, <2>1, <2>2
<1>4. NodeAdded(d, d2, N, E, k)
  <2>1. PICK i \in Int, j \in Int : i = node_of(s) /\ j = node_of(f)
    BY <1>0
  <2>2. j - i + 1 = node_of(g) - node_of(s) /\ g - s <= MaxSize
    <3>1. MaxSize \in Nat /\ g - s = f + 1 - s
      BY <1>0, <1>1, DequeAssumption
    <3>2. j - i + 1 = (j + 1) - i
      BY <2>1
    <3> QED
      BY <1>3, <2>1, <3>1, <3>2
  <2>3. IsFiniteSet(i..j) /\ Cardinality(i..j) < Cardinality(Block)
    BY <1>0, <1>1, <1>2, <2>1, <2>2, RoomForNode
  <2>4. d2 = new_node(d, k)
    BY DEF AddBack
  <2> QED
    <3>1. IsFiniteSet(N) /\ Cardinality(N) < Cardinality(Block)
      BY <2>1, <2>3
    <3>2. Store(d, N, E) /\ k \notin N /\ k \in Int
      BY <1>0, <1>2
    <3> HIDE DEF N, E
    <3> QED
      BY <2>4, <3>1, <3>2, NewNodeIs
<1> HIDE DEF N, E
<1>5. /\ Store(d2, N \cup {k}, E) /\ Kept(d, d2, E) /\ d2.start = d.start /\ d2.finish = d.finish
      /\ ~d2.m.thrown /\ IsDeque(d2)
  BY <1>4 DEF NodeAdded, Store
<1>6. d2.start = iterator(d2, s) /\ d2.finish = iterator(d2, f)
  <2>1. node_of(s) # k /\ node_of(f) # k
    BY <1>0
  <2>2. iterator(d2, s) = iterator(d, s) /\ iterator(d2, f) = iterator(d, f)
    BY <1>4, <2>1, AddedKeeps
  <2> QED
    BY <1>0, <1>5, <2>2
<1>7. Constructs(d2, c, N \cup {k}, E, f, v)
  <2>1. d2.finish.cur = cell_at(d2, f)
    BY <1>6 DEF iterator
  <2>2. c = with(d2, construct(d2.m, cell_at(d2, f), v))
    BY <2>1 DEF AddBack
  <2>3. node_of(f) \in N \cup {k}
    BY <1>2
  <2> QED
    BY <1>0, <1>2, <1>5, <2>2, <2>3, ConstructIs
<1>8. Alike(d2, c) /\ IsDeque(c) /\ c.start = iterator(c, s) /\ c.finish = iterator(c, f)
      /\ slot(c, k) = slot(d2, k)
  <2>1. Alike(d2, c)
    BY <1>7 DEF Constructs
  <2>2. iterator(c, s) = iterator(d2, s) /\ iterator(c, f) = iterator(d2, f) /\ slot(c, k) = slot(d2, k)
    BY <2>1, AlikeCells
  <2> QED
    BY <1>6, <2>1, <2>2 DEF Alike
<1>9. CASE c.m.thrown
  <2>1. /\ Store(c, N \cup {k}, E) /\ \A x : content(c, x) = content(d2, x)
        /\ r = deallocate_node(c, slot(c, k))
    BY <1>7, <1>8, <1>9 DEF Constructs, AddBack
  <2>2. \A a \in E : node_of(a) # k
    BY <1>0, <1>2 DEF Store
  <2>3. k \in N \cup {k}
    OBVIOUS
  <2>4. NodeDropped(c, r, N \cup {k}, E, k)
    BY <2>1, <2>2, <2>3, DropNodeIs
  <2>5. Alike(c, r) /\ Store(r, N, E) /\ Kept(c, r, E) /\ r.m.thrown
    BY <1>2, <1>9, <2>4 DEF NodeDropped
  <2>6. r.start = iterator(r, s) /\ r.finish = iterator(r, f)
    BY <1>8, <2>5, AlikeCells DEF Alike
  <2>7. DequeAt(r, s, f) /\ Kept(d, r, E)
    BY <1>0, <1>5, <2>1, <2>5, <2>6 DEF DequeAt, Kept, N, E
  <2>8. Leaves(r, Contents(d, s, f))
    BY <2>7, KeptContents DEF E
  <2> QED
    BY <2>5, <2>8 DEF Ends
<1>10. CASE ~c.m.thrown
  <2>1. /\ Store(c, N \cup {k}, E \cup {f}) /\ content(c, f) = v /\ Kept(d2, c, E)
    BY <1>7, <1>10 DEF Constructs
  <2>2. PICK there : there = set_node(d2, d2.finish, k)
    OBVIOUS
  <2>3. r = [c EXCEPT !.finish = [there EXCEPT !.cur = there.first]]
    BY <1>10, <2>2 DEF AddBack
  <2>4. [there EXCEPT !.cur = there.first] = iterator(c, g)
    <3>1. at_first(there) = iterator(d2, base(k))
      <4>1. there = set_node(d2, iterator(d2, f), k) /\ IsDeque(d2) /\ f \in Int /\ k \in Int
        BY <1>0, <1>2, <1>5, <1>6, <2>2
      <4> QED
        BY <4>1, OtherBuffer
    <3>2. iterator(c, g) = iterator(d2, g)
      BY <1>8, AlikeCells
    <3> QED
      BY <1>3, <3>1, <3>2 DEF at_first
  <2>5. r.finish = iterator(c, g) /\ r.start = iterator(c, s) /\ r.m = c.m /\ r.map = c.map
        /\ DOMAIN r = DOMAIN c
    <3>1. DOMAIN c = {"m", "map", "start", "finish"}
      BY <1>8 DEF IsDeque
    <3> QED
      BY <1>8, <2>3, <2>4, <3>1
  <2>6. SameStore(c, r)
    BY <1>8, <2>5 DEF SameStore, IsDeque
  <2>7. Store(c, node_of(s)..node_of(g), s..(g - 1))
    BY <1>2, <1>3, <2>1
  <2>8. EndsAt(c, r, s, g)
    BY <1>2, <2>5, <2>6, <2>7 DEF EndsAt
  <2>9. DequeAt(r, s, g) /\ \A a : content(r, a) = content(c, a)
    BY <1>0, <1>1, <2>8, EndsAre
  <2>10. DequeAt(r, s, f + 1) /\ content(r, f) = v /\ Kept(d, r, E)
    BY <1>1, <1>5, <2>1, <2>9 DEF Kept
  <2>11. Leaves(r, Append(Contents(d, s, f), v))
    BY <2>10, AppendedIs DEF E
  <2> QED
    BY <1>10, <2>5, <2>11 DEF Ends
<1> QED
  BY <1>9, <1>10

\* push_back: one more element at the end, or nothing changed
LEMMA PushBackIs ==
    ASSUME NEW d, NEW s, NEW f, DequeAt(d, s, f), ~d.m.thrown, f + 1 - s <= MaxSize,
           NEW t, read(d.m, t) \in Value, NEW r, r = push_back_at(d, t)
    PROVE  Ends(d, s, f, r, Append(Contents(d, s, f), read(d.m, t)))
<1>0. s \in Int /\ f \in Int /\ s <= f /\ IsDeque(d) /\ d.finish = iterator(d, f)
  BY DequeNodes DEF DequeAt
<1>1. PICK v \in Value : v = read(d.m, t)
  OBVIOUS
<1>2. PICK i \in Int, o \in Nat : /\ i = node_of(f) /\ o = offset_of(f) /\ o < BufferSize
                                  /\ f = base(i) + o /\ base(i) \in Int
  BY <1>0, AddressParts
<1>3. d.finish.cur = plus(d.finish.last, -1) <=> o = BufferSize - 1
  <2>1. PICK b : b = block_of(d, i)
    OBVIOUS
  <2>2. d.finish = [cur |-> << b, o >>, first |-> << b, 0 >>, last |-> << b, BufferSize >>, node |-> i]
    BY <1>0, <1>2, <2>1, IteratorIs
  <2>3. plus(<< b, BufferSize >>, -1) = << b, BufferSize - 1 >>
    BY DequeAssumption DEF plus
  <2> QED
    BY <2>2, <2>3
<1>4. CASE o # BufferSize - 1
  <2>1. node_of(f + 1) = node_of(f)
    <3>1. offset_of(f) + 1 < BufferSize
      BY <1>2, <1>4, DequeAssumption
    <3> QED
      BY <1>0, <3>1, AddressNext
  <2>2. PICK c : c = with(d, construct(d.m, d.finish.cur, v))
    OBVIOUS
  <2>3. c.m = construct(d.m, d.finish.cur, v)
    BY <1>0, <2>2, WithIs
  <2>4. r = IF c.m.thrown THEN c ELSE [c EXCEPT !.finish.cur = plus(@, 1)]
    BY <1>1, <1>3, <1>4, <2>2, <2>3 DEF push_back_at
  <2>5. Ends(d, s, f, r, Append(Contents(d, s, f), v))
    BY <2>1, <2>2, <2>4, PushBackHere
  <2> QED
    BY <1>1, <2>5
<1>5. CASE o = BufferSize - 1
  <2>1. r = push_back_aux(d, t)
    BY <1>3, <1>5 DEF push_back_at
  <2>2. PICK m0 : m0 = temporary(d.m)
    OBVIOUS
  <2>3. PICK e : e = with(d, m0)
    OBVIOUS
  <2>4. DequeAt(e, s, f) /\ Contents(e, s, f) = Contents(d, s, f) /\ e.m = m0
    BY <2>2, <2>3, TemporaryAt
  <2>5. CASE m0.thrown
    <3>1. r = e
      BY <2>1, <2>2, <2>3, <2>5 DEF push_back_aux
    <3>2. Leaves(r, Contents(d, s, f))
      BY <1>0, <2>4, <3>1 DEF Leaves
    <3> QED
      BY <2>4, <2>5, <3>1, <3>2 DEF Ends
  <2>6. CASE ~m0.thrown
    <3>1. PICK d1 : d1 = reserve_map_at_back(e, 1)
      OBVIOUS
    <3>2. PICK z \in Int : MapMoved(e, d1, s, f, z, node_of(s) + z, node_of(f) + z + 1)
      BY <2>4, <3>1, ReserveBackIs
    <3>3. PICK x \in Int, y \in Int : x = s + base(z) /\ y = f + base(z) /\ base(z) \in Int
      <4>1. base(z) \in Int
        BY BaseSum
      <4> QED
        BY <1>0, <4>1
    <3>4. /\ DequeAt(d1, x, y) /\ Contents(d1, x, y) = Contents(e, s, f)
          /\ node_of(x) = node_of(s) + z /\ node_of(y) = node_of(f) + z
          /\ offset_of(y) = offset_of(f)
      BY <2>4, <3>2, <3>3, LeavesMoved
    <3>5. d1.m = m0 /\ d1.finish = iterator(d1, y)
      BY <2>4, <3>2, <3>4 DEF MapMoved, DequeAt
    <3>6. PICK k \in Int : k = node_of(y) + 1
      BY <1>2, <3>4
    <3>7. d1.finish.node + 1 = k
      BY <3>5, <3>6 DEF iterator
    <3>8. PICK d2 : d2 = new_node(d1, k)
      OBVIOUS
    <3>9. d2.finish = d1.finish
      BY <3>8 DEF new_node
    <3>10. PICK m3 : m3 = construct(d2.m, d2.finish.cur, v)
      OBVIOUS
    <3>11. PICK c : c = with(d2, m3)
      OBVIOUS
    <3>12. c.m = m3
      BY <3>8, <3>11 DEF with, new_node
    <3>13. d2.finish.node + 1 = k
      BY <3>7, <3>9
    <3>14. AddBack(d1, d2, c, r, v, k)
      <4>1. d2 = new_node(d1, d1.finish.node + 1) /\ m3 = construct(d2.m, d2.finish.cur, read(d.m, t))
        BY <1>1, <3>7, <3>8, <3>10
      <4>2. PICK there : there = set_node(d2, d2.finish, d2.finish.node + 1)
        OBVIOUS
      <4>3. r = IF m3.thrown THEN deallocate_node(with(d2, m3), slot(d2, d2.finish.node + 1))
                ELSE [with(d2, m3) EXCEPT !.finish = [there EXCEPT !.cur = there.first]]
        BY <2>1, <2>2, <2>3, <2>6, <3>1, <4>1, <4>2 DEF push_back_aux
      <4>4. there = set_node(d2, d2.finish, k)
        BY <3>13, <4>2
      <4>5. r = IF c.m.thrown THEN deallocate_node(c, slot(d2, k))
                ELSE [c EXCEPT !.finish = [there EXCEPT !.cur = there.first]]
        BY <3>11, <3>12, <3>13, <4>3
      <4> QED
        BY <3>8, <3>10, <3>11, <4>4, <4>5 DEF AddBack
    <3>15. k \in DOMAIN d1.map
      <4>1. k \in (node_of(s) + z)..(node_of(f) + z + 1)
        <5>1. node_of(s) <= node_of(f) /\ node_of(s) \in Nat /\ node_of(f) \in Nat
          BY DequeNodes
        <5> QED
          BY <3>4, <3>6, <5>1
      <4> QED
        BY <3>2, <4>1 DEF MapMoved
    <3>16. y + 1 - x <= MaxSize /\ offset_of(y) = BufferSize - 1 /\ ~d1.m.thrown
      <4>1. MaxSize \in Nat /\ y + 1 - x = f + 1 - s
        BY <1>0, <3>3, DequeAssumption
      <4> QED
        BY <1>2, <1>5, <2>6, <3>4, <3>5, <4>1
    <3>17. Ends(d1, x, y, r, Append(Contents(d1, x, y), v))
      BY <3>4, <3>6, <3>14, <3>15, <3>16, PushBackNode
    <3>18. Contents(d1, x, y) = Contents(d, s, f)
      BY <2>4, <3>4
    <3> QED
      BY <1>1, <3>17, <3>18 DEF Ends
  <2>7. m0.thrown \in BOOLEAN
    BY <2>4, DequeNodes DEF IsMemory
  <2> QED
    BY <2>5, <2>6, <2>7
<1> QED
  BY <1>4, <1>5

\* An element is added in the buffer of start.
LEMMA PushFrontHere ==
    ASSUME NEW d, NEW s, NEW f, DequeAt(d, s, f), ~d.m.thrown, node_of(s - 1) = node_of(s),
           NEW v \in Value, NEW c, c = with(d, construct(d.m, plus(d.start.cur, -1), v)),
           NEW r, r = IF c.m.thrown THEN c ELSE [c EXCEPT !.start.cur = plus(@, -1)]
    PROVE  Ends(d, s, f, r, << v >> \o Contents(d, s, f))
<1> DEFINE N == node_of(s)..node_of(f)
           E == s..(f - 1)
<1>0. /\ s \in Int /\ f \in Int /\ s <= f /\ IsDeque(d)
      /\ d.start = iterator(d, s) /\ d.finish = iterator(d, f) /\ Store(d, N, E)
      /\ node_of(s) \in Nat /\ node_of(f) \in Nat /\ node_of(s) <= node_of(f)
  BY DequeNodes DEF DequeAt
<1>1. PICK g \in Int : g = s - 1
  BY <1>0
<1>2. /\ g \notin E /\ g..(f - 1) = E \cup {g} /\ g <= f /\ node_of(g) \in N /\ node_of(g) = node_of(s)
      /\ N = node_of(g)..node_of(f)
  BY <1>0, <1>1
<1>3. plus(d.start.cur, -1) = cell_at(d, g)
  <2>1. d.start.cur = cell_at(d, s)
    BY <1>0 DEF iterator
  <2>2. plus(cell_at(d, s), -1) = cell_at(d, s - 1)
    BY <1>0, NeighboursAre
  <2> QED
    BY <1>1, <2>1, <2>2
<1> HIDE DEF N, E
<1>4. Constructs(d, c, N, E, g, v)
  <2>1. c = with(d, construct(d.m, cell_at(d, g), v))
    BY <1>3
  <2> QED
    BY <1>0, <1>2, <2>1, ConstructIs
<1>5. Alike(d, c) /\ c.start = iterator(c, s) /\ c.finish = iterator(c, f) /\ IsDeque(c)
  <2>1. Alike(d, c)
    BY <1>4 DEF Constructs
  <2>2. iterator(c, s) = iterator(d, s) /\ iterator(c, f) = iterator(d, f)
    BY <2>1, AlikeCells
  <2> QED
    BY <1>0, <2>1, <2>2 DEF Alike
<1>6. CASE c.m.thrown
  <2>1. r = c /\ Store(c, N, E) /\ \A x : content(c, x) = content(d, x)
    BY <1>4, <1>6 DEF Constructs
  <2>2. DequeAt(r, s, f) /\ Kept(d, r, E)
    BY <1>0, <1>5, <2>1 DEF DequeAt, Kept, N, E
  <2>3. Leaves(r, Contents(d, s, f))
    BY <2>2, KeptContents DEF E
  <2> QED
    BY <1>6, <2>1, <2>3 DEF Ends
<1>7. CASE ~c.m.thrown
  <2>1. r = [c EXCEPT !.start.cur = plus(@, -1)] /\ Store(c, N, E \cup {g})
        /\ content(c, g) = v /\ Kept(d, c, E)
    BY <1>4, <1>7 DEF Constructs
  <2>2. r.start = iterator(c, g) /\ r.finish = iterator(c, f) /\ r.m = c.m /\ r.map = c.map
        /\ DOMAIN r = DOMAIN c
    <3>1. [iterator(c, s) EXCEPT !.cur = plus(@, -1)] = iterator(c, s - 1)
      BY <1>0, <1>5, NeighboursAre
    <3>2. DOMAIN c = {"m", "map", "start", "finish"}
      BY <1>5 DEF IsDeque
    <3> QED
      BY <1>1, <1>5, <2>1, <3>1, <3>2
  <2>3. SameStore(c, r)
    BY <1>5, <2>2 DEF SameStore, IsDeque
  <2>4. Store(c, node_of(g)..node_of(f), g..(f - 1))
    BY <1>2, <2>1
  <2>5. EndsAt(c, r, g, f)
    BY <1>2, <2>2, <2>3, <2>4 DEF EndsAt
  <2>6. DequeAt(r, g, f) /\ \A a : content(r, a) = content(c, a)
    BY <1>0, <2>5, EndsAre
  <2>7. DequeAt(r, s - 1, f) /\ content(r, s - 1) = v /\ Kept(d, r, E)
    BY <1>1, <2>1, <2>6 DEF Kept
  <2>8. Leaves(r, << v >> \o Contents(d, s, f))
    BY <2>7, PrependedIs DEF E
  <2> QED
    BY <1>7, <2>2, <2>8 DEF Ends
<1> QED
  BY <1>6, <1>7

\* d with a new node in front of start, and an element in its last cell, or none
AddFront(d, d2, d3, c, r, v, k) ==
    /\ d2 = new_node(d, k)
    /\ d3 = [d2 EXCEPT !.start = at_last(set_node(d2, d2.start, k))]
    /\ c = with(d3, construct(d3.m, d3.start.cur, v))
    /\ r = IF c.m.thrown THEN push_front_unwound(d3, c.m) ELSE c

LEMMA PushFrontNode ==
    ASSUME NEW d, NEW s, NEW f, DequeAt(d, s, f), ~d.m.thrown, NEW v \in Value,
           f - (s - 1) <= MaxSize, offset_of(s) = 0, NEW k, k = node_of(s) - 1,
           k \in DOMAIN d.map, NEW d2, NEW d3, NEW c, NEW r, AddFront(d, d2, d3, c, r, v, k)
    PROVE  Ends(d, s, f, r, << v >> \o Contents(d, s, f))
<1> DEFINE N == node_of(s)..node_of(f)
           E == s..(f - 1)
<1>0. /\ s \in Int /\ f \in Int /\ s <= f /\ IsDeque(d)
      /\ d.start = iterator(d, s) /\ d.finish = iterator(d, f) /\ Store(d, N, E)
      /\ node_of(s) \in Nat /\ node_of(f) \in Nat /\ node_of(s) <= node_of(f)
  BY DequeNodes DEF DequeAt
<1>1. PICK g \in Int : g = s - 1
  BY <1>0
<1>2. /\ g \notin E /\ g..(f - 1) = E \cup {g} /\ g <= f /\ k \in Int /\ k \notin N
      /\ k \in N \cup {k} /\ N \cup {k} = k..node_of(f) /\ N = (N \cup {k}) \ {k}
  BY <1>0, <1>1
<1>3. base(k) + (BufferSize - 1) = g /\ node_of(g) = k
  <2>1. node_of(s - 1) = node_of(s) - 1
    BY <1>0, AddressNext
  <2>2. s = base(node_of(s)) + offset_of(s) /\ base(node_of(s) - 1) = base(node_of(s)) - BufferSize
        /\ base(node_of(s)) \in Int /\ BufferSize \in Nat
    BY <1>0, AddressIs, BaseSum
  <2> QED
    BY <1>0, <1>1, <2>1, <2>2
<1>4. NodeAdded(d, d2, N, E, k)
  <2>1. PICK i \in Int, j \in Int : i = node_of(s) /\ j = node_of(f)
    BY <1>0
  <2>2. j - i + 1 = node_of(f) - node_of(g) /\ f - g <= MaxSize
    <3>1. MaxSize \in Nat /\ f - g = f - (s - 1)
      BY <1>0, <1>1, DequeAssumption
    <3>2. j - i + 1 = j - (i - 1)
      BY <2>1
    <3> QED
      BY <1>3, <2>1, <3>1, <3>2
  <2>3. IsFiniteSet(i..j) /\ Cardinality(i..j) < Cardinality(Block)
    BY <1>0, <1>1, <1>2, <2>1, <2>2, RoomForNode
  <2>4. d2 = new_node(d, k)
    BY DEF AddFront
  <2>5. IsFiniteSet(N) /\ Cardinality(N) < Cardinality(Block)
    BY <2>1, <2>3
  <2>6. Store(d, N, E) /\ k \notin N /\ k \in Int
    BY <1>0, <1>2
  <2> HIDE DEF N, E
  <2> QED
    BY <2>4, <2>5, <2>6, NewNodeIs
<1>a. \A a \in E : node_of(a) # k
  BY <1>0, <1>2 DEF Store
<1> HIDE DEF N, E
<1>5. /\ Store(d2, N \cup {k}, E) /\ Kept(d, d2, E) /\ d2.start = d.start /\ d2.finish = d.finish
      /\ ~d2.m.thrown /\ IsDeque(d2)
  BY <1>4 DEF NodeAdded, Store
<1>6. d2.start = iterator(d2, s) /\ d2.finish = iterator(d2, f)
  <2>1. node_of(s) # k /\ node_of(f) # k
    BY <1>0
  <2>2. iterator(d2, s) = iterator(d, s) /\ iterator(d2, f) = iterator(d, f)
    BY <1>4, <2>1, AddedKeeps
  <2> QED
    BY <1>0, <1>5, <2>2
<1>7. /\ d3.start = iterator(d3, g) /\ d3.finish = iterator(d3, f) /\ ~d3.m.thrown
      /\ Store(d3, N \cup {k}, E) /\ IsDeque(d3) /\ Kept(d, d3, E)
  <2>1. PICK there : there = set_node(d2, iterator(d2, s), k)
    OBVIOUS
  <2>2. at_last(there) = iterator(d2, base(k) + (BufferSize - 1))
    BY <1>0, <1>2, <1>5, <2>1, OtherBuffer
  <2>3. d3 = [d2 EXCEPT !.start = at_last(there)]
    BY <1>6, <2>1 DEF AddFront
  <2>4. DOMAIN d2 = {"m", "map", "start", "finish"}
    BY <1>5 DEF IsDeque
  <2>5. /\ d3.start = iterator(d2, g) /\ d3.finish = d2.finish /\ d3.m = d2.m /\ d3.map = d2.map
        /\ DOMAIN d3 = DOMAIN d2
    BY <1>3, <2>2, <2>3, <2>4
  <2>6. SameStore(d2, d3)
    BY <1>5, <2>5 DEF SameStore, IsDeque
  <2>7. Store(d3, N \cup {k}, E) /\ \A a : content(d3, a) = content(d2, a) /\ iterator(d3, a) = iterator(d2, a)
    BY <1>5, <2>6, SameStoreIs
  <2> QED
    BY <1>5, <1>6, <2>5, <2>6, <2>7 DEF SameStore, Kept
<1>8. Constructs(d3, c, N \cup {k}, E, g, v)
  <2>1. d3.start.cur = cell_at(d3, g)
    BY <1>7 DEF iterator
  <2>2. c = with(d3, construct(d3.m, cell_at(d3, g), v))
    BY <2>1 DEF AddFront
  <2>3. node_of(g) \in N \cup {k}
    BY <1>2, <1>3
  <2> QED
    BY <1>0, <1>2, <1>7, <2>2, <2>3, ConstructIs
<1>9. Alike(d3, c) /\ IsDeque(c) /\ c.start = iterator(c, g) /\ c.finish = iterator(c, f)
      /\ slot(c, k) = slot(d3, k) /\ iterator(c, s) = iterator(d3, s)
  <2>1. Alike(d3, c)
    BY <1>8 DEF Constructs
  <2>2. iterator(c, g) = iterator(d3, g) /\ iterator(c, f) = iterator(d3, f) /\ slot(c, k) = slot(d3, k)
        /\ iterator(c, s) = iterator(d3, s)
    BY <2>1, AlikeCells
  <2> QED
    BY <1>7, <2>1, <2>2 DEF Alike
<1>10. CASE c.m.thrown
  <2>1. PICK back : back = iterator(c, s)
    OBVIOUS
  <2>2. increment(d3, d3.start) = back /\ back.node - 1 = k
    <3>1. increment(d3, iterator(d3, g)) = iterator(d3, g + 1)
      BY <1>1, <1>7, IncrementIs
    <3>2. g + 1 = s /\ iterator(c, s).node = node_of(s)
      BY <1>0, <1>1 DEF iterator
    <3> QED
      BY <1>7, <1>9, <2>1, <3>1, <3>2
  <2>3. PICK e : e = [c EXCEPT !.start = back]
    OBVIOUS
  <2>4. with(d3, c.m) = c
    <3>1. PICK n : n = construct(d3.m, d3.start.cur, v)
      OBVIOUS
    <3>2. c = with(d3, n)
      BY <3>1 DEF AddFront
    <3>3. c.m = n
      BY <1>7, <3>2, WithIs
    <3> QED
      BY <3>2, <3>3
  <2>5. r = deallocate_node(e, slot(d3, k))
    BY <1>10, <2>2, <2>3, <2>4 DEF AddFront, push_front_unwound
  <2>6. DOMAIN c = {"m", "map", "start", "finish"}
    BY <1>9 DEF IsDeque
  <2>7. /\ e.start = iterator(c, s) /\ e.finish = c.finish /\ e.m = c.m /\ e.map = c.map
        /\ DOMAIN e = DOMAIN c
    BY <2>1, <2>3, <2>6
  <2>8. SameStore(c, e)
    BY <1>9, <2>7 DEF SameStore, IsDeque
  <2>9. Store(c, N \cup {k}, E) /\ \A x : content(c, x) = content(d3, x)
    BY <1>8, <1>10 DEF Constructs
  <2>10. Store(e, N \cup {k}, E) /\ \A a : /\ content(e, a) = content(c, a)
                                          /\ iterator(e, a) = iterator(c, a) /\ slot(e, a) = slot(c, a)
    BY <2>8, <2>9, SameStoreIs
  <2>11. r = deallocate_node(e, slot(e, k))
    BY <1>9, <2>5, <2>10
  <2>12. NodeDropped(e, r, N \cup {k}, E, k)
    BY <1>2, <1>a, <2>10, <2>11, DropNodeIs
  <2>13. Alike(e, r) /\ Store(r, N, E) /\ Kept(e, r, E) /\ r.m.thrown
    BY <1>2, <1>10, <2>7, <2>12 DEF NodeDropped
  <2>14. r.start = iterator(r, s) /\ r.finish = iterator(r, f)
    <3>1. iterator(r, s) = iterator(e, s) /\ iterator(r, f) = iterator(e, f)
      BY <2>13, AlikeCells
    <3> QED
      BY <1>9, <2>7, <2>10, <2>13, <3>1 DEF Alike
  <2>15. DequeAt(r, s, f) /\ Kept(d, r, E)
    BY <1>0, <1>7, <2>9, <2>10, <2>13, <2>14 DEF DequeAt, Kept, N, E
  <2>16. Leaves(r, Contents(d, s, f))
    BY <2>15, KeptContents DEF E
  <2> QED
    BY <2>13, <2>16 DEF Ends
<1>11. CASE ~c.m.thrown
  <2>1. r = c /\ Store(c, N \cup {k}, E \cup {g}) /\ content(c, g) = v /\ Kept(d3, c, E)
    BY <1>8, <1>11 DEF Constructs, AddFront
  <2>2. Store(c, node_of(g)..node_of(f), g..(f - 1))
    BY <1>2, <1>3, <2>1
  <2>3. DequeAt(r, g, f)
    BY <1>0, <1>2, <1>9, <2>1, <2>2 DEF DequeAt
  <2>4. DequeAt(r, s - 1, f) /\ content(r, s - 1) = v /\ Kept(d, r, E)
    BY <1>1, <1>7, <2>1, <2>3 DEF Kept
  <2>5. Leaves(r, << v >> \o Contents(d, s, f))
    BY <2>4, PrependedIs DEF E
  <2> QED
    BY <1>11, <2>1, <2>5 DEF Ends
<1> QED
  BY <1>10, <1>11

\* push_front: one more element in front, or nothing changed
LEMMA PushFrontIs ==
    ASSUME NEW d, NEW s, NEW f, DequeAt(d, s, f), ~d.m.thrown, f + 1 - s <= MaxSize,
           NEW t, read(d.m, t) \in Value, NEW r, r = push_front_at(d, t)
    PROVE  Ends(d, s, f, r, << read(d.m, t) >> \o Contents(d, s, f))
<1>0. s \in Int /\ f \in Int /\ s <= f /\ IsDeque(d) /\ d.start = iterator(d, s)
  BY DequeNodes DEF DequeAt
<1>1. PICK v \in Value : v = read(d.m, t)
  OBVIOUS
<1>2. PICK i \in Int, o \in Nat : /\ i = node_of(s) /\ o = offset_of(s) /\ o < BufferSize
                                  /\ s = base(i) + o /\ base(i) \in Int
  BY <1>0, AddressParts
<1>3. d.start.cur = d.start.first <=> o = 0
  <2>1. PICK b : b = block_of(d, i)
    OBVIOUS
  <2>2. d.start = [cur |-> << b, o >>, first |-> << b, 0 >>, last |-> << b, BufferSize >>, node |-> i]
    BY <1>0, <1>2, <2>1, IteratorIs
  <2> QED
    BY <2>2
<1>4. CASE o # 0
  <2>1. node_of(s - 1) = node_of(s)
    BY <1>0, <1>2, <1>4, AddressNext
  <2>2. PICK c : c = with(d, construct(d.m, plus(d.start.cur, -1), v))
    OBVIOUS
  <2>3. c.m = construct(d.m, plus(d.start.cur, -1), v)
    BY <1>0, <2>2, WithIs
  <2>4. r = IF c.m.thrown THEN c ELSE [c EXCEPT !.start.cur = plus(@, -1)]
    BY <1>1, <1>3, <1>4, <2>2, <2>3 DEF push_front_at
  <2>5. Ends(d, s, f, r, << v >> \o Contents(d, s, f))
    BY <2>1, <2>2, <2>4, PushFrontHere
  <2> QED
    BY <1>1, <2>5
<1>5. CASE o = 0
  <2>1. r = push_front_aux(d, t)
    BY <1>3, <1>5 DEF push_front_at
  <2>2. PICK m0 : m0 = temporary(d.m)
    OBVIOUS
  <2>3. PICK e : e = with(d, m0)
    OBVIOUS
  <2>4. DequeAt(e, s, f) /\ Contents(e, s, f) = Contents(d, s, f) /\ e.m = m0
    BY <2>2, <2>3, TemporaryAt
  <2>5. CASE m0.thrown
    <3>1. r = e
      BY <2>1, <2>2, <2>3, <2>5 DEF push_front_aux
    <3>2. Leaves(r, Contents(d, s, f))
      BY <1>0, <2>4, <3>1 DEF Leaves
    <3> QED
      BY <2>4, <2>5, <3>1, <3>2 DEF Ends
  <2>6. CASE ~m0.thrown
    <3>1. PICK d1 : d1 = reserve_map_at_front(e, 1)
      OBVIOUS
    <3>2. PICK z \in Int : MapMoved(e, d1, s, f, z, node_of(s) + z - 1, node_of(f) + z)
      BY <2>4, <3>1, ReserveFrontIs
    <3>3. PICK x \in Int, y \in Int : x = s + base(z) /\ y = f + base(z) /\ base(z) \in Int
      <4>1. base(z) \in Int
        BY BaseSum
      <4> QED
        BY <1>0, <4>1
    <3>4. /\ DequeAt(d1, x, y) /\ Contents(d1, x, y) = Contents(e, s, f)
          /\ node_of(x) = node_of(s) + z /\ node_of(y) = node_of(f) + z
          /\ offset_of(x) = offset_of(s)
      BY <2>4, <3>2, <3>3, LeavesMoved
    <3>5. d1.m = m0 /\ d1.start = iterator(d1, x) /\ IsDeque(d1)
      BY <2>4, <3>2, <3>4, DequeNodes DEF MapMoved, DequeAt
    <3>6. PICK k \in Int : k = node_of(x) - 1
      BY <1>2, <3>4
    <3>7. d1.start.node - 1 = k
      BY <3>5, <3>6 DEF iterator
    <3>8. PICK d2 : d2 = new_node(d1, k)
      OBVIOUS
    <3>9. d2.start = d1.start
      BY <3>8 DEF new_node
    <3>10. d2.start.node - 1 = k
      BY <3>7, <3>9
    <3>11. PICK there : there = set_node(d2, d2.start, k)
      OBVIOUS
    <3>12. PICK d3 : d3 = [d2 EXCEPT !.start = at_last(there)]
      OBVIOUS
    <3>13. PICK m4 : m4 = construct(d3.m, d3.start.cur, v)
      OBVIOUS
    <3>14. PICK c : c = with(d3, m4)
      OBVIOUS
    <3>15. c.m = m4
      <4>1. "m" \in DOMAIN d2
        BY <3>5, <3>8 DEF IsDeque, new_node
      <4>2. DOMAIN d3 = DOMAIN d2
        BY <3>12
      <4> QED
        BY <3>14, <4>1, <4>2 DEF with
    <3>16. AddFront(d1, d2, d3, c, r, v, k)
      <4>1. d2 = new_node(d1, d1.start.node - 1) /\ m4 = construct(d3.m, d3.start.cur, read(d.m, t))
            /\ there = set_node(d2, d2.start, d2.start.node - 1)
            /\ d3 = [d2 EXCEPT !.start = [there EXCEPT !.cur = plus(there.last, -1)]]
        BY <1>1, <3>7, <3>8, <3>10, <3>11, <3>12, <3>13 DEF at_last
      <4>2. r = IF m4.thrown THEN push_front_unwound(d3, m4) ELSE with(d3, m4)
        BY <2>1, <2>2, <2>3, <2>6, <3>1, <4>1 DEF push_front_aux
      <4>3. r = IF c.m.thrown THEN push_front_unwound(d3, c.m) ELSE c
        BY <3>14, <3>15, <4>2
      <4>4. d3 = [d2 EXCEPT !.start = at_last(set_node(d2, d2.start, k))]
        BY <3>11, <3>12
      <4> QED
        BY <3>8, <3>13, <3>14, <4>3, <4>4 DEF AddFront
    <3>17. k \in DOMAIN d1.map
      <4>1. k \in (node_of(s) + z - 1)..(node_of(f) + z)
        <5>1. node_of(s) <= node_of(f) /\ node_of(s) \in Nat /\ node_of(f) \in Nat
          BY DequeNodes
        <5> QED
          BY <3>4, <3>6, <5>1
      <4> QED
        BY <3>2, <4>1 DEF MapMoved
    <3>18. y - (x - 1) <= MaxSize /\ offset_of(x) = 0 /\ ~d1.m.thrown
      <4>1. MaxSize \in Nat /\ y - (x - 1) = f + 1 - s
        BY <1>0, <3>3, DequeAssumption
      <4> QED
        BY <1>2, <1>5, <2>6, <3>4, <3>5, <4>1
    <3>19. Ends(d1, x, y, r, << v >> \o Contents(d1, x, y))
      BY <3>4, <3>6, <3>16, <3>17, <3>18, PushFrontNode
    <3>20. Contents(d1, x, y) = Contents(d, s, f)
      BY <2>4, <3>4
    <3> QED
      BY <1>1, <3>19, <3>20 DEF Ends
  <2>7. m0.thrown \in BOOLEAN
    BY <2>4, DequeNodes DEF IsMemory
  <2> QED
    BY <2>5, <2>6, <2>7
<1> QED
  BY <1>4, <1>5

\* One element less at the end, or in front
LEMMA LastRemoved ==
    ASSUME NEW d, NEW s, NEW f, DequeAt(d, s, f), s < f, NEW r, DequeAt(r, s, f - 1),
           Kept(d, r, s..(f - 2))
    PROVE  Leaves(r, SubSeq(Contents(d, s, f), 1, f - s - 1))
<1>0. s \in Int /\ f \in Int /\ f - s \in Nat
  BY DEF DequeAt
<1>1. PICK p : p = Contents(d, s, f)
  OBVIOUS
<1>2. PICK g \in Int, n \in Int : g = f - 1 /\ n = f - s - 1
  BY <1>0
<1>3. PICK q : q = Contents(r, s, g)
  OBVIOUS
<1>4. /\ p \in Seq(Value) /\ Len(p) = f - s
      /\ \A k \in 1..(f - s) : p[k] = content(d, s + k - 1)
  BY <1>1, ContentsAre
<1>5. /\ q \in Seq(Value) /\ Len(q) = g - s
      /\ \A k \in 1..(g - s) : q[k] = content(r, s + k - 1)
  BY <1>2, <1>3, ContentsAre
<1>6. PICK a : a = SubSeq(p, 1, n)
  OBVIOUS
<1>7. a \in Seq(Value) /\ Len(a) = n /\ \A k \in 1..n : a[k] = p[k]
  <2>1. \A k \in 1..n : p[k] \in Value
    <3>1. \A k \in 1..Len(p) : p[k] \in Value
      BY <1>4
    <3> QED
      BY <1>0, <1>2, <1>4, <3>1
  <2>2. 1 \in Int /\ n \in Int
    OBVIOUS
  <2>3. /\ a \in Seq(Value) /\ Len(a) = IF 1 <= n THEN n - 1 + 1 ELSE 0
        /\ \A k \in 1..(n - 1 + 1) : a[k] = p[1 + k - 1]
    BY ONLY <1>6, <2>1, <2>2, SubSeqProperties
  <2>4. \A k \in 1..n : k \in 1..(n - 1 + 1) /\ 1 + k - 1 = k
    OBVIOUS
  <2>5. n \in Nat
    BY <1>0, <1>2
  <2> QED
    BY <2>3, <2>4, <2>5
<1>8. a = q
  <2>1. ASSUME NEW k \in 1..n
        PROVE  a[k] = q[k]
    <3>1. s + k - 1 \in s..(f - 2) /\ k \in 1..(g - s) /\ k \in 1..(f - s)
      BY <1>0, <1>2
    <3>2. content(r, s + k - 1) = content(d, s + k - 1)
      BY <3>1 DEF Kept
    <3> QED
      BY <1>4, <1>5, <1>7, <3>1, <3>2
  <2>2. Len(a) = Len(q)
    BY <1>0, <1>2, <1>5, <1>7
  <2> QED
    BY <1>5, <1>7, <2>1, <2>2, SameSeq
<1>9. DequeAt(r, s, g) /\ a = SubSeq(Contents(d, s, f), 1, f - s - 1)
  BY <1>1, <1>2, <1>6
<1> QED
  BY <1>0, <1>3, <1>8, <1>9 DEF Leaves

LEMMA FirstRemoved ==
    ASSUME NEW d, NEW s, NEW f, DequeAt(d, s, f), s < f, NEW r, DequeAt(r, s + 1, f),
           Kept(d, r, (s + 1)..(f - 1))
    PROVE  Leaves(r, Tail(Contents(d, s, f)))
<1>0. s \in Int /\ f \in Int /\ f - s \in Nat /\ f - s # 0
  BY DEF DequeAt
<1>1. PICK p : p = Contents(d, s, f)
  OBVIOUS
<1>2. PICK g \in Int : g = s + 1
  BY <1>0
<1>3. PICK q : q = Contents(r, g, f)
  OBVIOUS
<1>4. /\ p \in Seq(Value) /\ Len(p) = f - s
      /\ \A k \in 1..(f - s) : p[k] = content(d, s + k - 1)
  BY <1>1, ContentsAre
<1>5. /\ q \in Seq(Value) /\ Len(q) = f - g
      /\ \A k \in 1..(f - g) : q[k] = content(r, g + k - 1)
  BY <1>2, <1>3, ContentsAre
<1>6. PICK a : a = Tail(p)
  OBVIOUS
<1>7. a \in Seq(Value) /\ Len(a) = f - s - 1 /\ \A k \in 1..(f - s - 1) : a[k] = p[k + 1]
  <2>1. p # << >>
    BY <1>0, <1>4
  <2> QED
    BY <1>4, <1>6, <2>1, HeadTailProperties
<1>8. a = q
  <2>1. ASSUME NEW k \in 1..(f - s - 1)
        PROVE  a[k] = q[k]
    <3>1. g + k - 1 \in (s + 1)..(f - 1) /\ k \in 1..(f - g) /\ k + 1 \in 1..(f - s)
          /\ g + k - 1 = s + (k + 1) - 1
      BY <1>0, <1>2
    <3>2. content(r, g + k - 1) = content(d, g + k - 1)
      BY <3>1 DEF Kept
    <3> QED
      BY <1>4, <1>5, <1>7, <3>1, <3>2
  <2>2. Len(a) = Len(q)
    BY <1>0, <1>2, <1>5, <1>7
  <2> QED
    BY <1>5, <1>7, <2>1, <2>2, SameSeq
<1>9. DequeAt(r, g, f) /\ a = Tail(Contents(d, s, f))
  BY <1>1, <1>2, <1>6
<1> QED
  BY <1>0, <1>2, <1>3, <1>8, <1>9 DEF Leaves

\* r is x, which holds the elements E in the nodes N, with another finish, or start.
FinishSet(x, r, s, f, N, E) ==
    /\ IsDeque(x) /\ x.start = iterator(x, s) /\ s <= f
    /\ Store(x, N, E) /\ N = node_of(s)..node_of(f) /\ E = s..(f - 1)
    /\ DOMAIN r = DOMAIN x /\ r.m = x.m /\ r.map = x.map /\ r.start = x.start
    /\ r.finish = iterator(x, f)

LEMMA FinishIs ==
    ASSUME NEW x, NEW r, NEW s \in Int, NEW f \in Int, NEW N, NEW E, FinishSet(x, r, s, f, N, E)
    PROVE  DequeAt(r, s, f) /\ r.m = x.m /\ \A a : content(r, a) = content(x, a)
<1>1. SameStore(x, r) /\ r.m = x.m
  BY DEF SameStore, FinishSet, IsDeque
<1>2. EndsAt(x, r, s, f)
  BY <1>1 DEF EndsAt, FinishSet
<1> QED
  BY <1>1, <1>2, EndsAre

StartSet(x, r, s, f, N, E) ==
    /\ IsDeque(x) /\ x.finish = iterator(x, f) /\ s <= f
    /\ Store(x, N, E) /\ N = node_of(s)..node_of(f) /\ E = s..(f - 1)
    /\ DOMAIN r = DOMAIN x /\ r.m = x.m /\ r.map = x.map /\ r.finish = x.finish
    /\ r.start = iterator(x, s)

LEMMA StartIs ==
    ASSUME NEW x, NEW r, NEW s \in Int, NEW f \in Int, NEW N, NEW E, StartSet(x, r, s, f, N, E)
    PROVE  DequeAt(r, s, f) /\ r.m = x.m /\ \A a : content(r, a) = content(x, a)
<1>1. SameStore(x, r) /\ r.m = x.m
  BY DEF SameStore, StartSet, IsDeque
<1>2. EndsAt(x, r, s, f)
  BY <1>1 DEF EndsAt, StartSet
<1> QED
  BY <1>1, <1>2, EndsAre

\* pop_back: the last element is destroyed, and a buffer that is then empty given back.
LEMMA PopBackIs ==
    ASSUME NEW d, NEW s, NEW f, DequeAt(d, s, f), s < f, NEW r, r = pop_back_at(d)
    PROVE  r.m.thrown = d.m.thrown /\ Leaves(r, SubSeq(Contents(d, s, f), 1, f - s - 1))
<1> DEFINE N == node_of(s)..node_of(f)
           E == s..(f - 1)
<1>0. /\ s \in Int /\ f \in Int /\ s <= f /\ IsDeque(d)
      /\ d.start = iterator(d, s) /\ d.finish = iterator(d, f) /\ Store(d, N, E)
      /\ node_of(s) \in Nat /\ node_of(f) \in Nat /\ node_of(s) <= node_of(f)
  BY DequeNodes DEF DequeAt
<1>1. PICK g \in Int : g = f - 1
  BY <1>0
<1>2. g \in E /\ s..(g - 1) = E \ {g} /\ s <= g /\ s..(g - 1) = s..(f - 2)
  BY <1>0, <1>1
<1>3. PICK i \in Int, o \in Nat : /\ i = node_of(f) /\ o = offset_of(f) /\ o < BufferSize
                                  /\ f = base(i) + o /\ base(i) \in Int
  BY <1>0, AddressParts
<1>4. PICK b : b = block_of(d, i) /\ slot(d, i) = << b, 0 >>
  BY <1>0, SlotIs
<1>5. d.finish = [cur |-> << b, o >>, first |-> << b, 0 >>, last |-> << b, BufferSize >>, node |-> i]
  BY <1>0, <1>3, <1>4, IteratorIs
<1>6. ASSUME DequeAt(r, s, g), r.m.thrown = d.m.thrown, Kept(d, r, E \ {g})
      PROVE  r.m.thrown = d.m.thrown /\ Leaves(r, SubSeq(Contents(d, s, f), 1, f - s - 1))
  <2>1. DequeAt(r, s, f - 1) /\ Kept(d, r, s..(f - 2))
    BY <1>1, <1>2, <1>6
  <2> QED
    BY <1>6, <2>1, LastRemoved
<1> HIDE DEF N, E
<1>7. CASE o # 0
  <2>1. node_of(g) = i /\ plus(cell_at(d, f), -1) = cell_at(d, g)
    BY <1>0, <1>1, <1>3, <1>7, AddressNext, NeighboursAre
  <2>2. d.finish.cur = cell_at(d, f) /\ d.finish.cur # d.finish.first
    BY <1>0, <1>5, <1>7 DEF iterator
  <2>3. PICK e : e = destroy_at(d, cell_at(d, g))
    OBVIOUS
  <2>4. r = [e EXCEPT !.finish.cur = plus(@, -1)]
    BY <2>1, <2>2, <2>3 DEF pop_back_at
  <2>5. Alike(d, e) /\ e.m.thrown = d.m.thrown /\ Store(e, N, E \ {g}) /\ Kept(d, e, E \ {g})
    BY <1>0, <1>2, <2>3, DestroyAtIs
  <2>6. IsDeque(e) /\ e.start = iterator(e, s) /\ e.finish = iterator(e, f)
    <3>1. iterator(e, s) = iterator(d, s) /\ iterator(e, f) = iterator(d, f)
      BY <2>5, AlikeCells
    <3> QED
      BY <1>0, <2>5, <3>1 DEF Alike
  <2>7. DOMAIN r = DOMAIN e /\ r.m = e.m /\ r.map = e.map /\ r.start = e.start /\ r.finish = iterator(e, g)
    <3>1. node_of(f - 1) = node_of(f)
      BY <1>1, <1>3, <2>1
    <3>2. [iterator(e, f) EXCEPT !.cur = plus(@, -1)] = iterator(e, f - 1)
      BY <1>0, <2>6, <3>1, NeighboursAre
    <3>3. DOMAIN e = {"m", "map", "start", "finish"}
      BY <2>6 DEF IsDeque
    <3> QED
      BY <1>1, <2>4, <2>6, <3>2, <3>3
  <2>8. N = node_of(s)..node_of(g) /\ E \ {g} = s..(g - 1)
    BY <1>2, <1>3, <2>1 DEF N
  <2>a. FinishSet(e, r, s, g, N, E \ {g})
    BY <1>2, <2>5, <2>6, <2>7, <2>8 DEF FinishSet
  <2>9. DequeAt(r, s, g) /\ r.m = e.m /\ \A a : content(r, a) = content(e, a)
    BY <1>0, <1>1, <2>a, FinishIs
  <2>10. r.m.thrown = d.m.thrown /\ Kept(d, r, E \ {g})
    BY <2>5, <2>9 DEF Kept
  <2> QED
    BY <1>6, <2>9, <2>10
<1>8. CASE o = 0
  <2>1. PICK k \in Int : k = i - 1
    BY <1>3
  <2>2. node_of(g) = k /\ base(k) + (BufferSize - 1) = g
    <3>1. node_of(f - 1) = node_of(f) - 1
      BY <1>0, <1>3, <1>8, AddressNext
    <3>2. base(i - 1) = base(i) - BufferSize /\ BufferSize \in Nat
      BY <1>3, BaseSum
    <3>3. PICK j \in Int : j = base(i - 1) /\ f = j + BufferSize
      BY <1>3, <1>8, <3>2
    <3>4. node_of(g) = k
      BY <1>1, <1>3, <2>1, <3>1
    <3>5. base(k) = j /\ j + (BufferSize - 1) = f - 1
      BY <2>1, <3>2, <3>3
    <3> QED
      BY <1>1, <3>4, <3>5
  <2>3. N \ {i} = node_of(s)..node_of(g) /\ i \in N /\ node_of(g) \in N \ {i}
    <3>1. node_of(s) <= node_of(g)
      BY <1>0, <1>1, <1>2, AddressOrder
    <3>2. PICK p \in Int : p = node_of(s)
      BY <1>0
    <3>3. N = p..i /\ node_of(s)..node_of(g) = p..k /\ p <= k /\ k = i - 1
      BY <1>3, <2>1, <2>2, <3>1, <3>2 DEF N
    <3>4. p..i \ {i} = p..k /\ i \in p..i /\ k \in p..k
      BY <3>3
    <3> QED
      BY <2>2, <3>3, <3>4
  <2>4. PICK last : last = at_last(set_node(d, d.finish, k))
    OBVIOUS
  <2>5. last = iterator(d, g) /\ last.cur = cell_at(d, g)
    <3>1. last = at_last(set_node(d, iterator(d, f), k))
      BY <1>0, <2>4
    <3>2. last = iterator(d, base(k) + (BufferSize - 1))
      BY <1>0, <3>1, OtherBuffer
    <3> QED
      BY <2>2, <3>2 DEF iterator
  <2>6. PICK e1 : e1 = deallocate_node(d, slot(d, i))
    OBVIOUS
  <2>7. PICK e : e = destroy_at(e1, cell_at(d, g))
    OBVIOUS
  <2>8. r = [e EXCEPT !.finish = last]
    <3>1. d.finish.cur = d.finish.first /\ d.finish.first = slot(d, i) /\ d.finish.node - 1 = k
      BY <1>4, <1>5, <1>8, <2>1
    <3>2. last = [set_node(d, d.finish, d.finish.node - 1) EXCEPT
                     !.cur = plus(set_node(d, d.finish, d.finish.node - 1).last, -1)]
      BY <2>4, <3>1 DEF at_last
    <3> QED
      BY <2>5, <2>6, <2>7, <3>1, <3>2 DEF pop_back_at
  <2>9. \A a \in E : node_of(a) # i
    <3>1. ASSUME NEW a \in E
          PROVE  node_of(a) # i
      <4>1. a \in Int /\ a <= g
        BY <1>0, <1>1 DEF E
      <4>2. node_of(a) <= node_of(g) /\ node_of(a) \in Int
        BY <4>1, AddressOrder, AddressIs
      <4> QED
        BY <2>1, <2>2, <4>2
    <3> QED
      BY <3>1
  <2>10. Alike(d, e1) /\ Store(e1, N \ {i}, E) /\ Kept(d, e1, E) /\ e1.m.thrown = d.m.thrown
    <3>1. NodeDropped(d, e1, N, E, i)
      BY <1>0, <2>3, <2>6, <2>9, DropNodeIs
    <3> QED
      BY <3>1 DEF NodeDropped
  <2>11. e = destroy_at(e1, cell_at(e1, g))
    BY <2>7, <2>10, AlikeCells
  <2>12. Alike(e1, e) /\ e.m.thrown = d.m.thrown /\ Store(e, N \ {i}, E \ {g}) /\ Kept(e1, e, E \ {g})
    BY <1>2, <2>10, <2>11, DestroyAtIs
  <2>13. Alike(d, e)
    BY <2>10, <2>12, AlikeTrans
  <2>14. IsDeque(e) /\ e.start = iterator(e, s) /\ last = iterator(e, g)
    <3>1. iterator(e, s) = iterator(d, s) /\ iterator(e, g) = iterator(d, g)
      BY <2>13, AlikeCells
    <3> QED
      BY <1>0, <2>5, <2>13, <3>1 DEF Alike
  <2>15. FinishSet(e, r, s, g, N \ {i}, E \ {g})
    <3>1. DOMAIN e = {"m", "map", "start", "finish"}
      BY <2>14 DEF IsDeque
    <3>2. E \ {g} = s..(g - 1)
      BY <1>2
    <3> QED
      BY <1>2, <2>3, <2>8, <2>12, <2>14, <3>1, <3>2 DEF FinishSet
  <2>16. DequeAt(r, s, g) /\ r.m = e.m /\ \A a : content(r, a) = content(e, a)
    BY <1>0, <1>1, <2>15, FinishIs
  <2>17. r.m.thrown = d.m.thrown /\ Kept(d, r, E \ {g})
    BY <2>10, <2>12, <2>16 DEF Kept
  <2> QED
    BY <1>6, <2>16, <2>17
<1> QED
  BY <1>7, <1>8

\* pop_front: the first element is destroyed, and a buffer that is then empty given back.
LEMMA PopFrontIs ==
    ASSUME NEW d, NEW s, NEW f, DequeAt(d, s, f), s < f, NEW r, r = pop_front_at(d)
    PROVE  r.m.thrown = d.m.thrown /\ Leaves(r, Tail(Contents(d, s, f)))
<1> DEFINE N == node_of(s)..node_of(f)
           E == s..(f - 1)
<1>0. /\ s \in Int /\ f \in Int /\ s <= f /\ IsDeque(d)
      /\ d.start = iterator(d, s) /\ d.finish = iterator(d, f) /\ Store(d, N, E)
      /\ node_of(s) \in Nat /\ node_of(f) \in Nat /\ node_of(s) <= node_of(f)
  BY DequeNodes DEF DequeAt
<1>1. PICK g \in Int : g = s + 1
  BY <1>0
<1>2. s \in E /\ g..(f - 1) = E \ {s} /\ g <= f /\ g..(f - 1) = (s + 1)..(f - 1)
  BY <1>0, <1>1
<1>3. PICK i \in Int, o \in Nat : /\ i = node_of(s) /\ o = offset_of(s) /\ o < BufferSize
                                  /\ s = base(i) + o /\ base(i) \in Int
  BY <1>0, AddressParts
<1>4. PICK b : b = block_of(d, i) /\ slot(d, i) = << b, 0 >>
  BY <1>0, SlotIs
<1>5. d.start = [cur |-> << b, o >>, first |-> << b, 0 >>, last |-> << b, BufferSize >>, node |-> i]
  BY <1>0, <1>3, <1>4, IteratorIs
<1>6. d.start.cur = plus(d.start.last, -1) <=> o = BufferSize - 1
  <2>1. plus(<< b, BufferSize >>, -1) = << b, BufferSize - 1 >>
    BY DequeAssumption DEF plus
  <2> QED
    BY <1>5, <2>1
<1>7. ASSUME DequeAt(r, g, f), r.m.thrown = d.m.thrown, Kept(d, r, E \ {s})
      PROVE  r.m.thrown = d.m.thrown /\ Leaves(r, Tail(Contents(d, s, f)))
  <2>1. DequeAt(r, s + 1, f) /\ Kept(d, r, (s + 1)..(f - 1))
    BY <1>1, <1>2, <1>7
  <2> QED
    BY <1>7, <2>1, FirstRemoved
<1>8. d.start.cur = cell_at(d, s) /\ d.start.first = slot(d, i) /\ d.start.node = i
  BY <1>0, <1>4, <1>5 DEF iterator
<1> HIDE DEF N, E
<1>9. PICK e : e = destroy_at(d, cell_at(d, s))
  OBVIOUS
<1>10. Alike(d, e) /\ e.m.thrown = d.m.thrown /\ Store(e, N, E \ {s}) /\ Kept(d, e, E \ {s})
  <2>1. Store(d, N, E) /\ s \in E
    BY <1>0, <1>2
  <2> QED
    BY <1>9, <2>1, DestroyAtIs
<1>11. IsDeque(e) /\ e.start = iterator(e, s) /\ e.finish = iterator(e, f) /\ slot(e, i) = slot(d, i)
  <2>1. iterator(e, s) = iterator(d, s) /\ iterator(e, f) = iterator(d, f) /\ slot(e, i) = slot(d, i)
    BY <1>10, AlikeCells
  <2> QED
    BY <1>0, <1>10, <2>1 DEF Alike
<1>12. CASE o # BufferSize - 1
  <2>1. node_of(s + 1) = node_of(s) /\ node_of(g) = i
    <3>1. offset_of(s) + 1 < BufferSize
      BY <1>3, <1>12, DequeAssumption
    <3>2. node_of(s + 1) = node_of(s)
      BY <1>0, <3>1, AddressNext
    <3> QED
      BY <1>1, <1>3, <3>2
  <2>2. r = [e EXCEPT !.start.cur = plus(@, 1)]
    BY <1>6, <1>8, <1>9, <1>12 DEF pop_front_at
  <2>3. DOMAIN r = DOMAIN e /\ r.m = e.m /\ r.map = e.map /\ r.finish = e.finish /\ r.start = iterator(e, g)
    <3>1. [iterator(e, s) EXCEPT !.cur = plus(@, 1)] = iterator(e, s + 1)
      BY <1>0, <1>11, <2>1, NeighboursAre
    <3>2. DOMAIN e = {"m", "map", "start", "finish"}
      BY <1>11 DEF IsDeque
    <3> QED
      BY <1>1, <1>11, <2>2, <3>1, <3>2
  <2>4. N = node_of(g)..node_of(f) /\ E \ {s} = g..(f - 1)
    BY <1>2, <1>3, <2>1 DEF N
  <2>5. StartSet(e, r, g, f, N, E \ {s})
    BY <1>2, <1>10, <1>11, <2>3, <2>4 DEF StartSet
  <2>6. DequeAt(r, g, f) /\ r.m = e.m /\ \A a : content(r, a) = content(e, a)
    BY <1>0, <1>1, <2>5, StartIs
  <2>7. r.m.thrown = d.m.thrown /\ Kept(d, r, E \ {s})
    BY <1>10, <2>6 DEF Kept
  <2> QED
    BY <1>7, <2>6, <2>7
<1>13. CASE o = BufferSize - 1
  <2>1. PICK k \in Int : k = i + 1
    BY <1>3
  <2>2. node_of(g) = k /\ base(k) = g
    <3>1. node_of(s + 1) = node_of(s) + 1
      <4>1. offset_of(s) + 1 = BufferSize
        BY <1>3, <1>13, DequeAssumption
      <4> QED
        BY <1>0, <4>1, AddressNext
    <3>2. base(i + 1) = base(i) + BufferSize /\ BufferSize \in Nat
      BY <1>3, BaseSum
    <3>3. node_of(g) = k
      BY <1>1, <1>3, <2>1, <3>1
    <3>4. base(i) + BufferSize = s + 1
      BY <1>3, <1>13, <3>2
    <3> QED
      BY <1>1, <2>1, <3>2, <3>3, <3>4
  <2>3. N \ {i} = node_of(g)..node_of(f) /\ i \in N
    <3>1. node_of(g) <= node_of(f)
      BY <1>0, <1>1, <1>2, AddressOrder
    <3>2. PICK p \in Int : p = node_of(f)
      BY <1>0
    <3>3. N = i..p /\ node_of(g)..node_of(f) = k..p /\ k <= p /\ k = i + 1
      BY <1>3, <2>1, <2>2, <3>1, <3>2 DEF N
    <3>4. i..p \ {i} = k..p /\ i \in i..p
      BY <3>3
    <3> QED
      BY <3>3, <3>4
  <2>4. PICK there : there = set_node(d, d.start, k)
    OBVIOUS
  <2>5. at_first(there) = iterator(d, g)
    <3>1. there = set_node(d, iterator(d, s), k)
      BY <1>0, <2>4
    <3>2. at_first(there) = iterator(d, base(k))
      BY <1>0, <3>1, OtherBuffer
    <3> QED
      BY <2>2, <3>2
  <2>6. PICK x : x = deallocate_node(e, slot(e, i))
    OBVIOUS
  <2>7. r = [x EXCEPT !.start = at_first(there)]
    <3>1. d.start.node + 1 = k /\ d.start.cur = plus(d.start.last, -1)
      BY <1>6, <1>8, <1>13, <2>1
    <3>2. there = set_node(d, d.start, d.start.node + 1)
      BY <2>4, <3>1
    <3>3. x = deallocate_node(destroy_at(d, d.start.cur), d.start.first)
      BY <1>8, <1>9, <1>11, <2>6
    <3>4. r = [x EXCEPT !.start = [there EXCEPT !.cur = there.first]]
      BY <3>1, <3>2, <3>3 DEF pop_front_at
    <3> QED
      BY <3>4 DEF at_first
  <2>8. \A a \in E \ {s} : node_of(a) # i
    <3>1. ASSUME NEW a \in E, a # s
          PROVE  node_of(a) # i
      <4>1. a \in Int /\ g <= a
        BY <1>0, <1>1, <3>1 DEF E
      <4>2. node_of(g) <= node_of(a) /\ node_of(a) \in Int
        BY <4>1, AddressOrder, AddressIs
      <4> QED
        BY <2>1, <2>2, <4>2
    <3> QED
      BY <3>1
  <2>9. Alike(e, x) /\ Store(x, N \ {i}, E \ {s}) /\ Kept(e, x, E \ {s}) /\ x.m.thrown = d.m.thrown
    <3>1. NodeDropped(e, x, N, E \ {s}, i)
      BY <1>10, <2>3, <2>6, <2>8, DropNodeIs
    <3> QED
      BY <1>10, <3>1 DEF NodeDropped
  <2>10. Alike(d, x)
    BY <1>10, <2>9, AlikeTrans
  <2>11. IsDeque(x) /\ x.finish = iterator(x, f) /\ at_first(there) = iterator(x, g)
    <3>1. iterator(x, f) = iterator(d, f) /\ iterator(x, g) = iterator(d, g)
      BY <2>10, AlikeCells
    <3> QED
      BY <1>0, <2>5, <2>10, <3>1 DEF Alike
  <2>12. StartSet(x, r, g, f, N \ {i}, E \ {s})
    <3>1. DOMAIN x = {"m", "map", "start", "finish"}
      BY <2>11 DEF IsDeque
    <3>2. E \ {s} = g..(f - 1)
      BY <1>2
    <3> QED
      BY <1>2, <2>3, <2>7, <2>9, <2>11, <3>1, <3>2 DEF StartSet
  <2>13. DequeAt(r, g, f) /\ r.m = x.m /\ \A a : content(r, a) = content(x, a)
    BY <1>0, <1>1, <2>12, StartIs
  <2>14. r.m.thrown = d.m.thrown /\ Kept(d, r, E \ {s})
    BY <1>10, <2>9, <2>13 DEF Kept
  <2> QED
    BY <1>7, <2>13, <2>14
<1> QED
  BY <1>12, <1>13

-----------------------------------------------------------------------------
\* erase

\* The elements at x[1], x[2], ... are copied over those at y[1], y[2], ..., none of
\* them after it was written over.
Moves(E, n, x, y) ==
    /\ \A k \in 1..n : x[k] \in E /\ y[k] \in E
    /\ \A j, k \in 1..n : j < k => y[j] # y[k] /\ x[k] # y[j]

Moved(d, r, N, E, n, x, y) ==
    /\ Alike(d, r) /\ Store(r, N, E) /\ r.m.thrown \in BOOLEAN
    /\ ~r.m.thrown => /\ \A k \in 1..n : content(r, y[k]) = content(d, x[k])
                      /\ \A a \in E : (\A k \in 1..n : y[k] # a) => content(r, a) = content(d, a)

LEMMA MovesIs ==
    ASSUME NEW d, NEW N, NEW E, Store(d, N, E), ~d.m.thrown, NEW n \in Nat, NEW x, NEW y,
           Moves(E, n, x, y), NEW items, NEW to,
           \A k \in 1..n : items[k] = cell_at(d, x[k]) /\ to[k] = cell_at(d, y[k]),
           NEW r, r = with(d, put_all(d.m, n, items, to, Value))
    PROVE  Moved(d, r, N, E, n, x, y)
<1>0. IsMemory(d.m) /\ ~d.m.fault /\ IsDeque(d) /\ E \subseteq Int /\ \A a \in E : node_of(a) \in N
  BY DEF Store
<1>1. ASSUME NEW a \in E
      PROVE  /\ cell_at(d, a) \in Pointer /\ cell_at(d, a) \notin Value /\ in_block(d.m, cell_at(d, a))
             /\ content_of(d.m, cell_at(d, a)) = content(d, a)
             /\ read(d.m, cell_at(d, a)) = content(d, a) /\ content(d, a) \in Value
  <2>1. PICK b \in Block, o \in Nat : CellThere(d, a, b, o)
    BY <1>0, CellIs
  <2>2. content(d, a) \in Value
    BY <1>0 DEF Store
  <2> QED
    BY <2>1, <2>2 DEF CellThere, read, content
<1>2. Ready(d.m, n, items, to, Value)
  <2>1. ASSUME NEW k \in 1..n
        PROVE  /\ to[k] \in Pointer /\ in_block(d.m, to[k]) /\ content_of(d.m, to[k]) \in Value
               /\ items[k] \in Pointer /\ read(d.m, items[k]) \in Value
    <3>1. x[k] \in E /\ y[k] \in E
      BY DEF Moves
    <3> QED
      BY <1>1, <3>1
  <2>2. ASSUME NEW j \in 1..n, NEW k \in 1..n, j < k
        PROVE  to[j] # to[k] /\ items[k] # to[j]
    <3>1. x[k] \in E /\ y[k] \in E /\ y[j] \in E /\ y[j] # y[k] /\ x[k] # y[j]
      BY <2>2 DEF Moves
    <3>2. cell_at(d, y[j]) # cell_at(d, y[k]) /\ cell_at(d, x[k]) # cell_at(d, y[j])
      BY <1>0, <3>1, CellsApart
    <3> QED
      BY <3>2
  <2> QED
    BY <2>1, <2>2 DEF Ready
<1>3. PICK m : m = put_all(d.m, n, items, to, Value)
  OBVIOUS
<1>4. Alike(d, r) /\ r.m = m
  BY <1>0, <1>3, WithIs
<1>5. PICK c \in 0..n : Wrote(d.m, r.m, c, items, to) /\ (~r.m.thrown => c = n)
  <2>1. Puts(d.m, m, n, items, to)
    BY <1>0, <1>2, <1>3, PutAll
  <2> QED
    BY <1>4, <2>1 DEF Puts
<1>6. c \in Nat /\ \A k \in 1..c : k \in 1..n
  OBVIOUS
<1>7. \A k \in 1..c : y[k] \in Int /\ node_of(y[k]) \in N /\ to[k] = cell_at(d, y[k])
                      /\ read(d.m, items[k]) \in Value
  <2>1. ASSUME NEW k \in 1..c
        PROVE  y[k] \in Int /\ node_of(y[k]) \in N /\ to[k] = cell_at(d, y[k])
               /\ read(d.m, items[k]) \in Value
    <3>1. k \in 1..n /\ x[k] \in E /\ y[k] \in E
      BY <1>6 DEF Moves
    <3> QED
      BY <1>0, <1>1, <3>1
  <2> QED
    BY <2>1
<1>8. /\ Store(r, N, E \cup {y[k] : k \in 1..c})
      /\ \A k \in 1..c : content(r, y[k]) = read(d.m, items[k])
      /\ \A a \in Int : node_of(a) \in N /\ (\A k \in 1..c : y[k] # a) => content(r, a) = content(d, a)
  <2>1. Places(d, N, c, y, items, to)
    BY <1>7 DEF Places
  <2>2. Written(d, r, N, E, c, y, items)
    BY <1>4, <1>5, <1>6, <2>1, WroteKeeps
  <2> QED
    BY <2>2 DEF Written
<1>9. Store(r, N, E)
  <2>1. E \cup {y[k] : k \in 1..c} = E
    BY <1>6 DEF Moves
  <2> QED
    BY <1>8, <2>1
<1>10. ASSUME ~r.m.thrown
       PROVE  /\ \A k \in 1..n : content(r, y[k]) = content(d, x[k])
              /\ \A a \in E : (\A k \in 1..n : y[k] # a) => content(r, a) = content(d, a)
  <2>1. c = n
    BY <1>5, <1>10
  <2>2. ASSUME NEW k \in 1..n
        PROVE  content(r, y[k]) = content(d, x[k])
    <3>1. x[k] \in E /\ k \in 1..c
      BY <2>1 DEF Moves
    <3>2. content(r, y[k]) = read(d.m, items[k])
      BY <1>8, <3>1
    <3> QED
      BY <1>1, <3>1, <3>2
  <2>3. ASSUME NEW a \in E, \A k \in 1..n : y[k] # a
        PROVE  content(r, a) = content(d, a)
    BY <1>0, <1>8, <2>1, <2>3
  <2> QED
    BY <2>2, <2>3
<1>11. r.m.thrown \in BOOLEAN
  BY <1>5 DEF Wrote, IsMemory
<1> QED
  BY <1>4, <1>9, <1>10, <1>11 DEF Moved

\* How far an address is from another, as the code computes it
LEMMA DistanceIs ==
    ASSUME NEW a \in Int, NEW b \in Int, NEW i, NEW j, NEW o, NEW p,
           i = node_of(a), j = node_of(b), o = offset_of(a), p = offset_of(b)
    PROVE  BufferSize * (j - i) + p - o = b - a
<1>1. PICK k \in Int, q \in Nat : /\ k = node_of(a) /\ q = offset_of(a) /\ q < BufferSize
                                  /\ a = base(k) + q /\ base(k) \in Int
  BY AddressParts
<1>2. PICK l \in Int, t \in Nat : /\ l = node_of(b) /\ t = offset_of(b) /\ t < BufferSize
                                  /\ b = base(l) + t /\ base(l) \in Int
  BY AddressParts
<1>3. BufferSize * (l - k) = base(l - k)
  BY DEF base
<1>4. base(l - k) = base(l) - base(k)
  BY BaseSum
<1>5. BufferSize * (j - i) = base(l) - base(k)
  BY <1>1, <1>2, <1>3, <1>4
<1> QED
  BY <1>1, <1>2, <1>5

\* What an iterator says of its place
LEMMA PlaceIs ==
    ASSUME NEW d, IsDeque(d), NEW a \in Int, NEW it, it = iterator(d, a)
    PROVE  it.node = node_of(a) /\ minus(it.cur, it.first) = offset_of(a) /\ it.cur = cell_at(d, a)
<1>1. PICK b : b = block_of(d, node_of(a))
  OBVIOUS
<1>2. PICK o \in Nat : o = offset_of(a)
  BY AddressIs
<1>3. it = [cur |-> << b, o >>, first |-> << b, 0 >>, last |-> << b, BufferSize >>, node |-> node_of(a)]
  BY <1>1, <1>2, IteratorIs
<1>4. minus(<< b, o >>, << b, 0 >>) = o
  BY DEF minus
<1>5. cell_at(d, a) = << b, o >>
  BY <1>1, <1>2 DEF cell_at
<1> QED
  BY <1>2, <1>3, <1>4, <1>5

LEMMA LengthIs ==
    ASSUME NEW d, NEW s, NEW f, DequeAt(d, s, f)
    PROVE  length(d) = f - s
<1>1. /\ s \in Int /\ f \in Int /\ IsDeque(d) /\ d.start = iterator(d, s) /\ d.finish = iterator(d, f)
  BY DequeNodes DEF DequeAt
<1>2. /\ d.start.node = node_of(s) /\ minus(d.start.cur, d.start.first) = offset_of(s)
      /\ d.finish.node = node_of(f) /\ minus(d.finish.cur, d.finish.first) = offset_of(f)
  BY <1>1, PlaceIs
<1>3. BufferSize * (node_of(f) - node_of(s)) + offset_of(f) - offset_of(s) = f - s
  BY <1>1, DistanceIs
<1> QED
  BY <1>2, <1>3 DEF length

LEMMA ContentsOfIs ==
    ASSUME NEW d, NEW s, NEW f, DequeAt(d, s, f)
    PROVE  contents_of(d) = Contents(d, s, f) /\ Leaves(d, contents_of(d))
<1>1. s \in Int /\ f \in Int /\ IsDeque(d) /\ d.start = iterator(d, s)
  BY DequeNodes DEF DequeAt
<1>2. length(d) = f - s
  BY LengthIs
<1>3. ASSUME NEW k \in 1..(f - s)
      PROVE  content_of(d.m, advance(d, d.start, k - 1).cur) = content(d, s + k - 1)
  <2>1. PICK n \in Int, a \in Int : n = k - 1 /\ a = s + n /\ a = s + k - 1
    BY <1>1
  <2>2. advance(d, d.start, n) = iterator(d, a)
    BY <1>1, <2>1, AdvanceIs
  <2>3. iterator(d, a).cur = cell_at(d, a)
    BY DEF iterator
  <2> QED
    BY <2>1, <2>2, <2>3 DEF content
<1>4. contents_of(d) = [k \in 1..(f - s) |-> content(d, s + k - 1)]
  BY <1>2, <1>3 DEF contents_of
<1> QED
  BY <1>1, <1>4 DEF Contents, Leaves

\* Some of the elements in front of p move up by one.
LEMMA MoveUpIs ==
    ASSUME NEW d, NEW s, NEW f, DequeAt(d, s, f), ~d.m.thrown, NEW p \in Int, s <= p, p < f,
           NEW n \in Nat, n <= p - s, NEW items, NEW to,
           items = [k \in 1..n |-> advance(d, iterator(d, p), -k).cur],
           to = [k \in 1..n |-> advance(d, iterator(d, p), 1 - k).cur],
           NEW r, r = with(d, put_all(d.m, n, items, to, Value))
    PROVE  DequeAt(r, s, f) /\ r.m.thrown \in BOOLEAN
<1> DEFINE N == node_of(s)..node_of(f)
           E == s..(f - 1)
           x == [k \in 1..n |-> p - k]
           y == [k \in 1..n |-> p + 1 - k]
<1>0. /\ s \in Int /\ f \in Int /\ s <= f /\ IsDeque(d)
      /\ d.start = iterator(d, s) /\ d.finish = iterator(d, f) /\ Store(d, N, E)
  BY DequeNodes DEF DequeAt
<1>1. ASSUME NEW k \in 1..n
      PROVE  items[k] = cell_at(d, x[k]) /\ to[k] = cell_at(d, y[k])
  <2>1. PICK i \in Int, j \in Int, a \in Int, b \in Int :
           i = -k /\ j = 1 - k /\ a = p + i /\ b = p + j /\ a = x[k] /\ b = y[k]
    <3>1. -k \in Int /\ 1 - k \in Int /\ p + (-k) \in Int /\ p + (1 - k) \in Int
          /\ p + (-k) = p - k /\ p + (1 - k) = p + 1 - k
      OBVIOUS
    <3> QED
      BY <3>1
  <2>2. advance(d, iterator(d, p), i) = iterator(d, a) /\ advance(d, iterator(d, p), j) = iterator(d, b)
    BY <1>0, <2>1, AdvanceIs
  <2>3. iterator(d, a).cur = cell_at(d, a) /\ iterator(d, b).cur = cell_at(d, b)
    BY DEF iterator
  <2> QED
    BY <2>1, <2>2, <2>3
<1>2. Moves(E, n, x, y)
  <2>1. ASSUME NEW k \in 1..n
        PROVE  x[k] \in E /\ y[k] \in E
    BY <1>0
  <2>2. ASSUME NEW j \in 1..n, NEW k \in 1..n, j < k
        PROVE  y[j] # y[k] /\ x[k] # y[j]
    BY <1>0, <2>2
  <2> QED
    BY <2>1, <2>2 DEF Moves
<1> HIDE DEF N, E, x, y
<1>m. Moved(d, r, N, E, n, x, y)
  BY <1>0, <1>1, <1>2, MovesIs
<1>3. Alike(d, r) /\ Store(r, N, E) /\ r.m.thrown \in BOOLEAN
  BY <1>m DEF Moved
<1>4. iterator(r, s) = iterator(d, s) /\ iterator(r, f) = iterator(d, f)
  BY <1>3, AlikeCells
<1> QED
  BY <1>0, <1>3, <1>4 DEF DequeAt, Alike, N, E

\* Some of the elements behind p move down by one, or none.
LEMMA MoveDownIs ==
    ASSUME NEW d, NEW s, NEW f, DequeAt(d, s, f), ~d.m.thrown, NEW p \in Int, s <= p, p < f,
           NEW n \in Nat, n <= f - p - 1, NEW items, NEW to,
           items = [k \in 1..n |-> advance(d, iterator(d, p), k).cur],
           to = [k \in 1..n |-> advance(d, iterator(d, p), k - 1).cur],
           NEW r, r = with(d, put_all(d.m, n, items, to, Value))
    PROVE  /\ DequeAt(r, s, f) /\ r.m.thrown \in BOOLEAN
           /\ n = 0 /\ ~r.m.thrown => Kept(d, r, s..(f - 1))
<1> DEFINE N == node_of(s)..node_of(f)
           E == s..(f - 1)
           x == [k \in 1..n |-> p + k]
           y == [k \in 1..n |-> p + k - 1]
<1>0. /\ s \in Int /\ f \in Int /\ s <= f /\ IsDeque(d)
      /\ d.start = iterator(d, s) /\ d.finish = iterator(d, f) /\ Store(d, N, E)
  BY DequeNodes DEF DequeAt
<1>1. ASSUME NEW k \in 1..n
      PROVE  items[k] = cell_at(d, x[k]) /\ to[k] = cell_at(d, y[k])
  <2>1. PICK i \in Int, j \in Int, a \in Int, b \in Int :
           i = k /\ j = k - 1 /\ a = p + i /\ b = p + j /\ a = x[k] /\ b = y[k]
    <3>1. k \in Int /\ k - 1 \in Int /\ p + k \in Int /\ p + (k - 1) \in Int
          /\ p + (k - 1) = p + k - 1
      OBVIOUS
    <3> QED
      BY <3>1
  <2>2. advance(d, iterator(d, p), i) = iterator(d, a) /\ advance(d, iterator(d, p), j) = iterator(d, b)
    BY <1>0, <2>1, AdvanceIs
  <2>3. iterator(d, a).cur = cell_at(d, a) /\ iterator(d, b).cur = cell_at(d, b)
    BY DEF iterator
  <2> QED
    BY <2>1, <2>2, <2>3
<1>2. Moves(E, n, x, y)
  <2>1. ASSUME NEW k \in 1..n
        PROVE  x[k] \in E /\ y[k] \in E
    BY <1>0
  <2>2. ASSUME NEW j \in 1..n, NEW k \in 1..n, j < k
        PROVE  y[j] # y[k] /\ x[k] # y[j]
    BY <1>0, <2>2
  <2> QED
    BY <2>1, <2>2 DEF Moves
<1>a. E = s..(f - 1)
  OBVIOUS
<1> HIDE DEF N, E, x, y
<1>m. Moved(d, r, N, E, n, x, y)
  BY <1>0, <1>1, <1>2, MovesIs
<1>3. /\ Alike(d, r) /\ Store(r, N, E) /\ r.m.thrown \in BOOLEAN
      /\ ~r.m.thrown => \A a \in E : (\A k \in 1..n : y[k] # a) => content(r, a) = content(d, a)
  BY <1>m DEF Moved
<1>4. iterator(r, s) = iterator(d, s) /\ iterator(r, f) = iterator(d, f)
  BY <1>3, AlikeCells
<1>5. DequeAt(r, s, f)
  BY <1>0, <1>3, <1>4 DEF DequeAt, Alike, N, E
<1>6. ASSUME n = 0, ~r.m.thrown
      PROVE  Kept(d, r, s..(f - 1))
  <2>1. \A k \in 1..n : FALSE
    BY <1>6
  <2> QED
    BY <1>3, <1>6, <1>a, <2>1 DEF Kept
<1> QED
  BY <1>3, <1>5, <1>6

\* A remainder is one more than that of the number before, unless it is zero.
LEMMA Remainder ==
    ASSUME NEW m \in Nat \ {0}, NEW a \in Int
    PROVE  a % m \in 0..(m - 1) /\ a \div m \in Int /\ a = m * (a \div m) + (a % m)
<1>1. a % m \in 0..(m - 1)
  BY SMTT(30)
<1>2. a \div m \in Int
  BY SMTT(30)
<1>3. a = m * (a \div m) + (a % m)
  BY SMTT(30)
<1> QED
  BY <1>1, <1>2, <1>3

LEMMA RemainderBefore ==
    ASSUME NEW m \in Nat \ {0}, NEW a \in Int, NEW e \in Int, e = a - 1, a % m # 0
    PROVE  e % m = (a % m) - 1
<1>1. PICK q, h : q = a \div m /\ h = a % m
  OBVIOUS
<1>2. PICK t, g : t = e \div m /\ g = e % m
  OBVIOUS
<1>3. q \in Int /\ h \in 0..(m - 1) /\ a = m * q + h
  BY <1>1, Remainder
<1>4. t \in Int /\ g \in 0..(m - 1) /\ e = m * t + g
  BY <1>2, Remainder
<1>5. m * q \in Int /\ m * t \in Int /\ m * (q - t) = m * q - m * t
  BY <1>3, <1>4
<1>6. m * (q - t) = g - (h - 1)
  BY <1>3, <1>4, <1>5
<1>7. q = t
  <2>1. CASE q > t
    <3>1. PICK k \in Nat : q - t = k + 1
      <4>1. q - t - 1 \in Nat /\ q - t = (q - t - 1) + 1
        BY <1>3, <1>4, <2>1
      <4> QED
        BY <4>1
    <3>2. m * (k + 1) = m * k + m /\ m * k \in Nat
      OBVIOUS
    <3> QED
      BY <1>1, <1>3, <1>4, <1>6, <3>1, <3>2
  <2>2. CASE q < t
    <3>1. PICK k \in Nat : q - t = -(k + 1)
      <4>1. t - q - 1 \in Nat /\ q - t = -((t - q - 1) + 1)
        BY <1>3, <1>4, <2>2
      <4> QED
        BY <4>1
    <3>2. m * (-(k + 1)) = -(m * k + m) /\ m * k \in Nat
      OBVIOUS
    <3> QED
      BY <1>1, <1>3, <1>4, <1>6, <3>1, <3>2
  <2> QED
    BY <1>3, <1>4, <2>1, <2>2
<1>8. m * (q - t) = 0
  BY <1>3, <1>7
<1> QED
  BY <1>1, <1>2, <1>3, <1>4, <1>6, <1>8

\* operator- between the iterators of two addresses
LEMMA DifferenceIs ==
    ASSUME NEW d, IsDeque(d), NEW a \in Int, NEW b \in Int, NEW n, n = difference(iterator(d, a), iterator(d, b))
    PROVE  n = a - b - BufferSize /\ n \in Int
<1>1. PICK x, y : x = iterator(d, a) /\ y = iterator(d, b)
  OBVIOUS
<1>2. PICK i \in Int, j \in Int, o \in Int, p \in Int :
         i = node_of(a) /\ j = node_of(b) /\ o = offset_of(a) /\ p = offset_of(b)
  <2>1. node_of(a) \in Int /\ node_of(b) \in Int /\ offset_of(a) \in Int /\ offset_of(b) \in Int
    BY AddressIs
  <2> QED
    BY <2>1
<1>3. x.node = i /\ y.node = j /\ minus(x.cur, x.first) = o /\ minus(y.cur, y.first) = p
  BY <1>1, <1>2, PlaceIs
<1>4. minus(y.first, y.cur) = -p
  <2>1. y.first[2] \in Int /\ y.cur[2] \in Int
    <3>1. PICK c : c = block_of(d, node_of(b))
      OBVIOUS
    <3>2. PICK t \in Nat : t = offset_of(b)
      BY AddressIs
    <3>3. y.cur = << c, t >> /\ y.first = << c, 0 >>
      BY <1>1, <3>1, <3>2, IteratorIs
    <3> QED
      BY <3>3
  <2> QED
    BY <1>3, <2>1 DEF minus
<1>5. BufferSize * (i - j) + o - p = a - b
  BY <1>2, DistanceIs
<1>6. PICK w \in Int : w = BufferSize * (i - j)
  BY DequeAssumption
<1>7. BufferSize * (i - j - 1) = w - BufferSize /\ BufferSize \in Nat
  BY <1>6, DequeAssumption
<1>8. n = w - BufferSize + o - p
  BY <1>1, <1>3, <1>4, <1>7 DEF difference
<1>9. w + o - p = a - b
  BY <1>5, <1>6
<1> QED
  BY <1>7, <1>8, <1>9

\* For the last element the front does not move, even where the sizes wrap.
LEMMA LastFromBack ==
    ASSUME NEW a \in Int, NEW e \in Int, e = a - 1
    PROVE  ~(size_type(e) < size_type(a) \div 2)
<1>1. PICK m \in Nat \ {0} : m = SizeLimit
  BY DequeAssumption
<1>2. PICK h, g : h = a % m /\ g = e % m
  OBVIOUS
<1>3. h \in 0..(m - 1) /\ g \in 0..(m - 1)
  BY <1>2, Remainder
<1>4. h # 0 => g = h - 1
  BY <1>2, RemainderBefore
<1>5. ~(g < h \div 2)
  <2>1. CASE h = 0
    BY <1>3, <2>1
  <2>2. CASE h # 0
    BY <1>3, <1>4, <2>2
  <2> QED
    BY <2>1, <2>2
<1> QED
  BY <1>1, <1>2, <1>5 DEF size_type

\* What a deque leaves behind is what it holds.
LEMMA LeavesContents ==
    ASSUME NEW r, NEW q, Leaves(r, q)
    PROVE  Leaves(r, contents_of(r))
<1>1. PICK s \in Int, f \in Int : DequeAt(r, s, f)
  BY DEF Leaves
<1> QED
  BY <1>1, ContentsOfIs

\* erase of the element at p leaves a deque, whatever it holds; the last element
\* goes and the others stay.
LEMMA EraseIs ==
    ASSUME NEW d, NEW s, NEW f, DequeAt(d, s, f), ~d.m.thrown, NEW p \in Int, s <= p, p < f,
           NEW r, r = erase_at(d, iterator(d, p))
    PROVE  /\ Leaves(r, contents_of(r))
           /\ p = f - 1 /\ ~r.m.thrown => Leaves(r, SubSeq(Contents(d, s, f), 1, f - s - 1))
<1>a. /\ s \in Int /\ f \in Int /\ s <= f /\ IsDeque(d)
      /\ d.start = iterator(d, s) /\ d.finish = iterator(d, f)
  BY DequeNodes DEF DequeAt
<1>b. s < f
  BY <1>a
<1>0. /\ s \in Int /\ f \in Int /\ s <= f /\ IsDeque(d) /\ s < f
      /\ d.start = iterator(d, s) /\ d.finish = iterator(d, f)
      /\ BufferSize \in Nat /\ BufferSize # 0
  BY <1>a, <1>b, DequeAssumption
<1>1. PICK pos : pos = iterator(d, p)
  OBVIOUS
<1>2. PICK g \in Int : g = p + 1
  OBVIOUS
<1>3. PICK next : next = increment(d, pos)
  OBVIOUS
<1>4. next = iterator(d, g)
  BY <1>0, <1>1, <1>2, <1>3, IncrementIs
<1>5. PICK i : i = difference(pos, d.start)
  OBVIOUS
<1>6. i = p - s - BufferSize /\ i \in Int
  BY <1>0, <1>1, <1>5, DifferenceIs
<1>7. PICK j : j = difference(d.finish, next)
  OBVIOUS
<1>8. j = f - g - BufferSize /\ j \in Int
  BY <1>0, <1>4, <1>7, DifferenceIs
<1>9. PICK n : n = max(0, i)
  OBVIOUS
<1>10. n \in Nat /\ n <= p - s
  BY <1>0, <1>6, <1>9 DEF max
<1>11. PICK l : l = max(0, j)
  OBVIOUS
<1>12. l \in Nat /\ l <= f - p - 1 /\ (p = f - 1 => l = 0)
  BY <1>0, <1>2, <1>8, <1>11 DEF max
<1>13. PICK up : up = put_all(d.m, n, [k \in 1..n |-> advance(d, pos, -k).cur],
                              [k \in 1..n |-> advance(d, pos, 1 - k).cur], Value)
  OBVIOUS
<1>14. PICK down : down = put_all(d.m, l, [k \in 1..l |-> advance(d, pos, k).cur],
                                  [k \in 1..l |-> advance(d, pos, k - 1).cur], Value)
  OBVIOUS
<1>15. PICK front_moves \in BOOLEAN : front_moves <=> size_type(i) < size(d) \div 2
  OBVIOUS
<1>16. PICK moved : moved = with(d, IF front_moves THEN up ELSE down)
  OBVIOUS
<1>17. r = IF moved.m.thrown THEN moved
           ELSE IF front_moves THEN pop_front_at(moved) ELSE pop_back_at(moved)
  BY <1>1, <1>3, <1>5, <1>7, <1>9, <1>11, <1>13, <1>14, <1>15, <1>16 DEF erase_at
<1>18. ASSUME p = f - 1
       PROVE  ~front_moves
  <2>1. PICK a : a = difference(d.finish, d.start)
    OBVIOUS
  <2>2. a = f - s - BufferSize /\ a \in Int
    BY <1>0, <2>1, DifferenceIs
  <2>3. i = a - 1
    BY <1>0, <1>6, <1>18, <2>2
  <2>4. ~(size_type(i) < size_type(a) \div 2)
    BY <1>6, <2>2, <2>3, LastFromBack
  <2> QED
    BY <1>15, <2>1, <2>4 DEF size
<1>19. CASE front_moves
  <2>1. moved = with(d, up)
    BY <1>16, <1>19
  <2>2. DequeAt(moved, s, f) /\ moved.m.thrown \in BOOLEAN
    BY <1>1, <1>10, <1>13, <2>1, MoveUpIs
  <2>3. CASE moved.m.thrown
    <3>1. r = moved
      BY <1>17, <2>3
    <3> QED
      BY <1>18, <1>19, <2>2, <3>1, ContentsOfIs
  <2>4. CASE ~moved.m.thrown
    <3>1. r = pop_front_at(moved)
      BY <1>17, <1>19, <2>4
    <3>2. Leaves(r, Tail(Contents(moved, s, f)))
      BY <1>0, <2>2, <3>1, PopFrontIs
    <3> QED
      BY <1>18, <1>19, <3>2, LeavesContents
  <2> QED
    BY <2>2, <2>3, <2>4
<1>20. CASE ~front_moves
  <2>1. moved = with(d, down)
    BY <1>16, <1>20
  <2>2. /\ DequeAt(moved, s, f) /\ moved.m.thrown \in BOOLEAN
        /\ l = 0 /\ ~moved.m.thrown => Kept(d, moved, s..(f - 1))
    BY <1>1, <1>12, <1>14, <2>1, MoveDownIs
  <2>3. CASE moved.m.thrown
    <3>1. r = moved
      BY <1>17, <2>3
    <3> QED
      BY <2>2, <2>3, <3>1, ContentsOfIs
  <2>4. CASE ~moved.m.thrown
    <3>1. r = pop_back_at(moved)
      BY <1>17, <1>20, <2>4
    <3>2. Leaves(r, SubSeq(Contents(moved, s, f), 1, f - s - 1))
      BY <1>0, <2>2, <3>1, PopBackIs
    <3>3. ASSUME p = f - 1
          PROVE  Contents(moved, s, f) = Contents(d, s, f)
      <4>1. Kept(d, moved, s..(f - 1))
        BY <1>12, <2>2, <2>4, <3>3
      <4>2. \A k \in 1..(f - s) : content(moved, s + k - 1) = content(d, s + k - 1)
        <5>1. \A k \in 1..(f - s) : s + k - 1 \in s..(f - 1)
          BY <1>0
        <5> QED
          BY <4>1, <5>1 DEF Kept
      <4> QED
        BY <4>2 DEF Contents
    <3> QED
      BY <3>2, <3>3, LeavesContents
  <2> QED
    BY <2>2, <2>3, <2>4
<1> QED
  BY <1>19, <1>20

-----------------------------------------------------------------------------
\* clear

\* The loop of destroy_nodes
is_drop_loop(e, d, n, i) ==
    e = [k \in 0..n |-> IF k = 0 THEN d ELSE deallocate_node(e[k - 1], slot(d, i + k - 1))]

LEMMA DropLoopExists ==
    ASSUME NEW d, NEW i
    PROVE  \A n \in Nat : \E e : is_drop_loop(e, d, n, i)
<1> DEFINE W == {n \in Nat : \E e : is_drop_loop(e, d, n, i)}
<1>1. 0 \in W
  <2>1. PICK e : e = [k \in 0..0 |-> d]
    OBVIOUS
  <2>2. \A k \in 0..0 : k = 0
    OBVIOUS
  <2>3. is_drop_loop(e, d, 0, i)
    BY <2>1, <2>2 DEF is_drop_loop
  <2> QED
    BY <2>3
<1>2. ASSUME NEW n \in Nat, n \in W
      PROVE  n + 1 \in W
  <2>1. PICK e : is_drop_loop(e, d, n, i)
    BY <1>2
  <2>2. \A k \in 0..n : e[k] = IF k = 0 THEN d ELSE deallocate_node(e[k - 1], slot(d, i + k - 1))
    BY <2>1 DEF is_drop_loop
  <2>3. PICK f : f = [k \in 0..(n + 1) |-> IF k <= n THEN e[k]
                                             ELSE deallocate_node(e[n], slot(d, i + k - 1))]
    OBVIOUS
  <2>4. ASSUME NEW k \in 0..(n + 1)
        PROVE  f[k] = IF k = 0 THEN d ELSE deallocate_node(f[k - 1], slot(d, i + k - 1))
    <3>1. CASE k = 0
      BY <2>2, <2>3, <3>1
    <3>2. CASE k # 0 /\ k <= n
      <4>1. k - 1 \in 0..(n + 1) /\ k - 1 <= n /\ k \in 0..n
        BY <3>2
      <4>2. f[k - 1] = e[k - 1] /\ f[k] = e[k]
        BY <2>3, <3>2, <4>1
      <4> QED
        BY <2>2, <3>2, <4>1, <4>2
    <3>3. CASE ~(k <= n)
      <4>1. k = n + 1 /\ k - 1 = n /\ n \in 0..(n + 1) /\ k # 0
        BY <3>3
      <4>2. f[n] = e[n] /\ f[k] = deallocate_node(e[n], slot(d, i + k - 1))
        BY <2>3, <3>3, <4>1
      <4> QED
        BY <4>1, <4>2
    <3> QED
      BY <3>1, <3>2, <3>3
  <2>5. f = [k \in 0..(n + 1) |-> f[k]]
    BY <2>3
  <2>6. [k \in 0..(n + 1) |-> f[k]]
        = [k \in 0..(n + 1) |-> IF k = 0 THEN d ELSE deallocate_node(f[k - 1], slot(d, i + k - 1))]
    BY <2>4
  <2>7. is_drop_loop(f, d, n + 1, i)
    BY ONLY <2>5, <2>6 DEF is_drop_loop
  <2> QED
    BY <2>7
<1>3. \A n \in Nat : n \in W
  <2> HIDE DEF W
  <2> QED
    BY <1>1, <1>2, NumberInduction
<1> QED
  BY <1>3

\* destroy_nodes is its last iteration.
DropRun(e, d, n, i) ==
    e[0] = d /\ \A k \in 1..n : e[k] = deallocate_node(e[k - 1], slot(d, i + k - 1))

LEMMA DropLoopIs ==
    ASSUME NEW d, NEW i, NEW j, NEW n \in Nat, n = IF j > i THEN j - i ELSE 0
    PROVE  \E e : DropRun(e, d, n, i) /\ destroy_nodes(d, i, j) = e[n]
<1>1. PICK e : e = CHOOSE f : is_drop_loop(f, d, n, i)
  OBVIOUS
<1>2. is_drop_loop(e, d, n, i)
  BY <1>1, DropLoopExists
<1>3. destroy_nodes(d, i, j) = e[n]
  BY <1>1, Zenon DEF destroy_nodes, is_drop_loop
<1>4. ASSUME NEW k \in 1..n
      PROVE  e[k] = deallocate_node(e[k - 1], slot(d, i + k - 1))
  <2>1. k \in 0..n /\ k # 0
    OBVIOUS
  <2> QED
    BY <1>2, <2>1 DEF is_drop_loop
<1>5. e[0] = d
  <2>1. 0 \in 0..n
    OBVIOUS
  <2> QED
    BY <1>2, <2>1 DEF is_drop_loop
<1> QED
  BY <1>3, <1>4, <1>5 DEF DropRun

\* The buffers of the nodes M were given back.
Dropped(d, r, N, E, M) ==
    Alike(d, r) /\ Store(r, N \ M, E) /\ Kept(d, r, E) /\ r.m.thrown = d.m.thrown

LEMMA DestroyNodesIs ==
    ASSUME NEW d, NEW N, NEW E, Store(d, N, E), NEW i \in Int, NEW j \in Int, i <= j,
           NEW M, M = i..(j - 1), M \subseteq N, \A a \in E : node_of(a) \notin M,
           NEW r, r = destroy_nodes(d, i, j)
    PROVE  Dropped(d, r, N, E, M)
<1>1. PICK n \in Nat : n = j - i
  OBVIOUS
<1>a. n = IF j > i THEN j - i ELSE 0
  BY <1>1
<1>b. PICK e : DropRun(e, d, n, i) /\ destroy_nodes(d, i, j) = e[n]
  BY <1>a, DropLoopIs
<1>2. /\ e[0] = d
      /\ \A k \in 1..n : e[k] = deallocate_node(e[k - 1], slot(d, i + k - 1))
      /\ destroy_nodes(d, i, j) = e[n]
  BY <1>b DEF DropRun
<1> DEFINE W == {k \in Nat : k <= n => Dropped(d, e[k], N, E, i..(i + k - 1))}
<1>3. 0 \in W
  <2>1. i..(i + 0 - 1) = {}
    OBVIOUS
  <2>2. Alike(d, d)
    BY DEF Alike, Store
  <2>3. N \ {} = N
    OBVIOUS
  <2>4. Kept(d, d, E)
    BY DEF Kept
  <2>5. Dropped(d, d, N, E, {})
    BY <2>2, <2>3, <2>4 DEF Dropped
  <2> QED
    BY <1>2, <2>1, <2>5
<1>4. ASSUME NEW k \in Nat, k \in W
      PROVE  k + 1 \in W
  <2>1. SUFFICES ASSUME k + 1 <= n
                 PROVE  Dropped(d, e[k + 1], N, E, i..(i + (k + 1) - 1))
    OBVIOUS
  <2>2. PICK x, y : x = e[k] /\ y = e[k + 1]
    OBVIOUS
  <2>3. PICK l \in Int : l = i + k
    OBVIOUS
  <2>4. PICK O : O = i..(i + k - 1)
    OBVIOUS
  <2>5. k <= n
    BY <2>1
  <2>6. Dropped(d, x, N, E, O)
    BY <1>4, <2>2, <2>4, <2>5
  <2>7. Alike(d, x) /\ Store(x, N \ O, E) /\ Kept(d, x, E) /\ x.m.thrown = d.m.thrown
    BY <2>6 DEF Dropped
  <2>8. y = deallocate_node(x, slot(d, l))
    <3>1. k + 1 \in 1..n /\ k + 1 - 1 = k /\ i + (k + 1) - 1 = l
      BY <2>1, <2>3
    <3>2. e[k + 1] = deallocate_node(e[k + 1 - 1], slot(d, i + (k + 1) - 1))
      BY <1>2, <3>1
    <3> QED
      BY <2>2, <3>1, <3>2
  <2>9. slot(x, l) = slot(d, l)
    BY <2>7, AlikeCells
  <2>10. l \in M /\ l \notin O /\ i..(i + (k + 1) - 1) = O \cup {l}
    BY <1>1, <2>1, <2>3, <2>4
  <2>11. NodeDropped(x, y, N \ O, E, l)
    <3>1. l \in N \ O /\ \A a \in E : node_of(a) # l
      BY <2>10
    <3>2. y = deallocate_node(x, slot(x, l))
      BY <2>8, <2>9
    <3> QED
      BY <2>7, <3>1, <3>2, DropNodeIs
  <2>12. Alike(x, y) /\ Store(y, (N \ O) \ {l}, E) /\ Kept(x, y, E) /\ y.m.thrown = x.m.thrown
    BY <2>11 DEF NodeDropped
  <2>13. (N \ O) \ {l} = N \ (O \cup {l})
    OBVIOUS
  <2>14. Alike(d, y) /\ Kept(d, y, E)
    BY <2>7, <2>12, AlikeTrans DEF Kept
  <2>15. Dropped(d, y, N, E, O \cup {l})
    BY <2>7, <2>12, <2>13, <2>14 DEF Dropped
  <2> QED
    BY <2>2, <2>10, <2>15
<1>5. n \in W
  <2> HIDE DEF W
  <2> QED
    BY <1>3, <1>4, NumberInduction
<1>6. Dropped(d, e[n], N, E, i..(i + n - 1))
  BY <1>5
<1>7. i..(i + n - 1) = M
  BY <1>1
<1> QED
  BY <1>2, <1>6, <1>7

\* The elements in the nodes M are destroyed.
emptied_cells(d, M) ==
    [k \in DOMAIN d.m.cells |->
        IF \E node \in M : slot(d, node)[1] = k
        THEN [j \in 0..(BufferSize - 1) |-> RAW] ELSE d.m.cells[k]]

emptied(d, M) == [d EXCEPT !.m.cells = emptied_cells(d, M)]

Outside(E, M) == {a \in E : node_of(a) \notin M}

LEMMA EmptiedIs ==
    ASSUME NEW d, NEW N, NEW E, Store(d, N, E), NEW M, M \subseteq N,
           NEW r, r = emptied(d, M)
    PROVE  /\ Alike(d, r) /\ r.m.thrown = d.m.thrown
           /\ Store(r, N, Outside(E, M)) /\ Kept(d, r, Outside(E, M))
<1>0. IsDeque(d) /\ IsMemory(d.m) /\ ~d.m.fault /\ N \subseteq Int
  BY DEF Store
<1>1. PICK m : m = d.m
  OBVIOUS
<1>2. PICK x : x = emptied_cells(d, M)
  OBVIOUS
<1>3. PICK n : n = [m EXCEPT !.cells = x]
  OBVIOUS
<1>4. Alike(d, r) /\ r.m = n
  <2>1. r = with(d, n)
    BY <1>1, <1>2, <1>3 DEF emptied, with
  <2> QED
    BY <1>0, <2>1, WithIs
<1>5. /\ n.cells = x /\ n.fuel = m.fuel /\ n.thrown = m.thrown /\ n.fault = m.fault
      /\ DOMAIN n = DOMAIN m
  BY <1>0, <1>1, <1>3 DEF IsMemory
<1>6. DOMAIN x = {0} \cup Block
  BY <1>0, <1>2 DEF emptied_cells, IsMemory
<1>7. IsMemory(n) /\ ~n.fault
  BY <1>0, <1>1, <1>5, <1>6 DEF IsMemory
<1>8. ASSUME NEW b \in {0} \cup Block
      PROVE  /\ (\A k \in M : block_of(d, k) # b) => x[b] = m.cells[b]
             /\ \A k \in M : block_of(d, k) = b => x[b] = [j \in 0..(BufferSize - 1) |-> RAW]
  <2>1. DOMAIN d.m.cells = {0} \cup Block
    BY <1>0 DEF IsMemory
  <2>2. x[b] = IF \E node \in M : slot(d, node)[1] = b
               THEN [j \in 0..(BufferSize - 1) |-> RAW] ELSE d.m.cells[b]
    BY <1>2, <2>1 DEF emptied_cells
  <2>3. CASE \E node \in M : slot(d, node)[1] = b
    BY <2>2, <2>3 DEF block_of
  <2>4. CASE ~\E node \in M : slot(d, node)[1] = b
    BY <1>1, <2>2, <2>4 DEF block_of
  <2> QED
    BY <2>3, <2>4
<1>9. SameShape(m, n)
  <2>1. ASSUME NEW b \in {0} \cup Block
        PROVE  DOMAIN n.cells[b] = DOMAIN m.cells[b] /\ (m.cells[b] = no_cells => n.cells[b] = no_cells)
    <3>1. CASE \A k \in M : block_of(d, k) # b
      BY <1>5, <1>8, <3>1
    <3>2. CASE ~(\A k \in M : block_of(d, k) # b)
      <4>1. PICK k \in M : block_of(d, k) = b
        BY <3>2
      <4>2. x[b] = [j \in 0..(BufferSize - 1) |-> RAW]
        BY <1>8, <4>1
      <4>3. DOMAIN x[b] = 0..(BufferSize - 1)
        BY <4>2
      <4>4. DOMAIN m.cells[b] = 0..(BufferSize - 1)
        BY <1>1, <4>1 DEF Store
      <4>5. 0 \in 0..(BufferSize - 1)
        BY DequeAssumption
      <4>6. m.cells[b] # no_cells
        BY <4>4, <4>5, NoCells
      <4> QED
        BY <1>5, <4>3, <4>4, <4>6
    <3> QED
      BY <3>1, <3>2
  <2> QED
    BY <1>7, <2>1 DEF SameShape
<1>10. ASSUME NEW a \in Int, node_of(a) \in N
       PROVE  content(r, a) = IF node_of(a) \in M THEN RAW ELSE content(d, a)
  <2>1. PICK b \in Block, o \in Nat : /\ b = block_of(d, node_of(a)) /\ o = offset_of(a)
                                      /\ o < BufferSize /\ CellThere(d, a, b, o)
    BY <1>10, CellIs
  <2>2. content(d, a) = m.cells[b][o] /\ o \in DOMAIN m.cells[b] /\ cell_at(d, a) = << b, o >>
    BY <1>1, <2>1 DEF CellThere
  <2>3. content(r, a) = x[b][o]
    <3>1. cell_at(r, a) = << b, o >>
      BY <1>4, <2>2, AlikeCells
    <3>2. o \in DOMAIN n.cells[b]
      BY <1>9, <2>2 DEF SameShape
    <3> QED
      BY <1>4, <1>5, <3>1, <3>2 DEF content, content_of, in_block
  <2>4. CASE node_of(a) \in M
    <3>1. x[b] = [j \in 0..(BufferSize - 1) |-> RAW]
      BY <1>8, <2>1, <2>4
    <3>2. o \in 0..(BufferSize - 1)
      BY <2>1, DequeAssumption
    <3>3. x[b][o] = RAW
      BY <3>1, <3>2
    <3> QED
      BY <2>3, <2>4, <3>3
  <2>5. CASE node_of(a) \notin M
    <3>1. \A k \in M : block_of(d, k) # b
      BY <1>10, <2>1, <2>5 DEF Store
    <3>2. x[b] = m.cells[b]
      BY <1>8, <3>1
    <3> QED
      BY <2>2, <2>3, <2>5, <3>2
  <2> QED
    BY <2>4, <2>5
<1>11. PICK F : F = Outside(E, M)
  OBVIOUS
<1>12. Store(r, N, F)
  <2>1. F \subseteq Int /\ \A a \in F : node_of(a) \in N
    BY <1>11 DEF Outside, Store
  <2>2. ASSUME NEW a \in Int, node_of(a) \in N
        PROVE  (a \in F => content(r, a) \in Value) /\ (a \notin F => content(r, a) = RAW)
    <3>1. (a \in E => content(d, a) \in Value) /\ (a \notin E => content(d, a) = RAW)
      BY <2>2 DEF Store
    <3>2. a \in F <=> a \in E /\ node_of(a) \notin M
      BY <1>11 DEF Outside
    <3> QED
      BY <1>10, <2>2, <3>1, <3>2
  <2>3. SameShape(d.m, r.m)
    BY <1>1, <1>4, <1>9
  <2> QED
    BY <1>4, <2>1, <2>2, <2>3, StoreAfter
<1>13. Kept(d, r, F)
  <2>1. ASSUME NEW a \in F
        PROVE  content(r, a) = content(d, a)
    <3>1. a \in Int /\ node_of(a) \in N /\ node_of(a) \notin M
      BY <1>11 DEF Outside, Store
    <3> QED
      BY <1>10, <3>1
  <2> QED
    BY <2>1 DEF Kept
<1> QED
  BY <1>1, <1>4, <1>5, <1>11, <1>12, <1>13

\* A deque without elements is where its iterators are the same.
LEMMA EmptyIs ==
    ASSUME NEW x, NEW r, NEW s \in Int, IsDeque(x), NEW N, Store(x, N, {}), N = node_of(s)..node_of(s),
           SameStore(x, r), r.start = iterator(x, s), r.finish = iterator(x, s)
    PROVE  Leaves(r, << >>)
<1>1. s..(s - 1) = {} /\ s <= s
  OBVIOUS
<1>2. EndsAt(x, r, s, s)
  BY <1>1 DEF EndsAt
<1>3. DequeAt(r, s, s)
  BY <1>2, EndsAre
<1>4. PICK q : q = Contents(r, s, s)
  OBVIOUS
<1>5. q \in Seq(Value) /\ Len(q) = s - s
  BY <1>3, <1>4, ContentsAre
<1>6. q = << >>
  BY <1>5
<1> QED
  BY <1>3, <1>4, <1>6 DEF Leaves

\* clear of a deque in one buffer, and of one in several
LEMMA ClearOne ==
    ASSUME NEW d, NEW s, NEW f, DequeAt(d, s, f), node_of(s) = node_of(f),
           NEW x, x = with(d, destroy(d.m, d.start.cur, d.finish.cur)),
           NEW r, r = [x EXCEPT !.finish = d.start]
    PROVE  r.m.thrown = d.m.thrown /\ Leaves(r, << >>)
<1>0. /\ s \in Int /\ f \in Int /\ s <= f /\ IsDeque(d)
      /\ d.start = iterator(d, s) /\ d.finish = iterator(d, f)
  BY DequeNodes DEF DequeAt
<1>1. PICK k \in Int, o \in Nat : /\ k = node_of(s) /\ o = offset_of(s) /\ o < BufferSize
                                  /\ s = base(k) + o /\ base(k) \in Int
  BY <1>0, AddressParts
<1>2. PICK p \in Nat : p = offset_of(f) /\ p < BufferSize /\ f = base(k) + p
  BY <1>0, <1>1, AddressParts
<1>3. d.start.cur = << block_of(d, k), o >> /\ d.finish.cur = << block_of(d, k), p >>
  BY <1>0, <1>1, <1>2, IteratorIs
<1>4. PICK N, E : N = node_of(s)..node_of(f) /\ E = s..(f - 1)
  OBVIOUS
<1>5. Store(d, N, E) /\ k \in N /\ N = node_of(s)..node_of(s)
  <2>1. Store(d, N, E)
    BY <1>4 DEF DequeAt
  <2>2. N = k..k /\ k \in Int
    BY <1>1, <1>4
  <2> QED
    BY <1>1, <2>1, <2>2
<1>a. PICK u \in Int : u = base(k)
  BY <1>1
<1>b. BufferSize \in Nat /\ E = (u + o)..(u + p - 1)
  <2>1. s = u + o /\ f = u + p
    BY <1>1, <1>2, <1>a
  <2> QED
    BY <1>4, <2>1, DequeAssumption
<1>e. o <= p
  BY <1>0, <1>1, <1>2, <1>a
<1>6. RunOf(E, k, o, p, E)
  <2>1. o <= p /\ p <= BufferSize
    BY <1>2, <1>b, <1>e
  <2>2. \A i \in o..(p - 1) : u + i \in E
    BY <1>b
  <2> QED
    BY <1>a, <1>b, <2>1, <2>2 DEF RunOf
<1>c. x = with(d, destroy(d.m, << block_of(d, k), o >>, << block_of(d, k), p >>))
  BY <1>3
<1>d. RunGone(d, x, N, E, E)
  BY <1>5, <1>6, <1>c, DestroyRun
<1>8. E \ E = {}
  OBVIOUS
<1>7. Alike(d, x) /\ x.m.thrown = d.m.thrown /\ Store(x, N, {})
  BY <1>8, <1>d DEF RunGone
<1>9. IsDeque(x) /\ x.start = d.start /\ iterator(x, s) = iterator(d, s)
  BY <1>7, AlikeCells DEF Alike
<1>10. r.m = x.m /\ r.map = x.map /\ r.start = x.start /\ r.finish = d.start /\ IsDeque(r)
  BY <1>9 DEF IsDeque
<1>11. SameStore(x, r)
  BY <1>10 DEF SameStore
<1>12. Leaves(r, << >>)
  BY <1>0, <1>5, <1>7, <1>9, <1>10, <1>11, EmptyIs
<1> QED
  BY <1>7, <1>10, <1>12

ClearCall(d, e, d1, d2, r) ==
    /\ e = emptied(d, (d.start.node + 1)..(d.finish.node - 1))
    /\ d1 = destroy_nodes(e, d.start.node + 1, d.finish.node)
    /\ d2 = with(d1, destroy(destroy(d1.m, d.start.cur, d.start.last),
                             d.finish.first, d.finish.cur))
    /\ r = [deallocate_node(d2, d.finish.first) EXCEPT !.finish = d.start]

\* After the buffers between them only the elements in those of start and finish are left.
LEMMA ClearMiddle ==
    ASSUME NEW d, NEW s, NEW f, DequeAt(d, s, f), NEW i \in Int, i = node_of(s),
           NEW j \in Int, j = node_of(f), i < j,
           NEW e, NEW d1, NEW d2, NEW r, ClearCall(d, e, d1, d2, r)
    PROVE  /\ Alike(d, d1) /\ d1.m.thrown = d.m.thrown
           /\ Store(d1, {i, j}, Outside(s..(f - 1), (i + 1)..(j - 1)))
<1>1. PICK M, N, E : M = (i + 1)..(j - 1) /\ N = i..j /\ E = s..(f - 1)
  OBVIOUS
<1>2. Store(d, N, E) /\ d.start.node = i /\ d.finish.node = j
  BY <1>1, DequeNodes DEF DequeAt
<1>3. M \subseteq N /\ N \ M = {i, j}
  BY <1>1
<1>4. e = emptied(d, M)
  BY <1>1, <1>2 DEF ClearCall
<1>5. PICK F : F = Outside(E, M)
  OBVIOUS
<1>6. Alike(d, e) /\ e.m.thrown = d.m.thrown /\ Store(e, N, F)
  <2>1. Alike(d, e) /\ e.m.thrown = d.m.thrown /\ Store(e, N, Outside(E, M))
    BY <1>2, <1>3, <1>4, EmptiedIs
  <2> QED
    BY <1>5, <2>1
<1>7. PICK l \in Int : l = i + 1
  OBVIOUS
<1>8. l <= j /\ M = l..(j - 1)
  BY <1>1, <1>7
<1>9. \A a \in F : node_of(a) \notin M
  BY <1>5 DEF Outside
<1>10. d1 = destroy_nodes(e, l, j)
  BY <1>2, <1>7 DEF ClearCall
<1>11. Dropped(e, d1, N, F, M)
  BY <1>3, <1>6, <1>8, <1>9, <1>10, DestroyNodesIs
<1>12. Alike(e, d1) /\ Store(d1, {i, j}, F) /\ d1.m.thrown = e.m.thrown
  BY <1>3, <1>11 DEF Dropped
<1> QED
  BY <1>1, <1>5, <1>6, <1>12, AlikeTrans

LEMMA ClearMore ==
    ASSUME NEW d, NEW s, NEW f, DequeAt(d, s, f), NEW i \in Int, i = node_of(s),
           NEW j \in Int, j = node_of(f), i < j,
           NEW e, NEW d1, NEW d2, NEW r, ClearCall(d, e, d1, d2, r)
    PROVE  r.m.thrown = d.m.thrown /\ Leaves(r, << >>)
<1>0. /\ s \in Int /\ f \in Int /\ s <= f /\ IsDeque(d)
      /\ d.start = iterator(d, s) /\ d.finish = iterator(d, f)
  BY DequeNodes DEF DequeAt
<1>1. PICK o \in Nat : o = offset_of(s) /\ o < BufferSize /\ s = base(i) + o /\ base(i) \in Int
  BY <1>0, AddressParts
<1>2. PICK p \in Nat : p = offset_of(f) /\ p < BufferSize /\ f = base(j) + p /\ base(j) \in Int
  BY <1>0, AddressParts
<1>3. base(i) + BufferSize <= base(j) /\ BufferSize \in Nat
  BY BaseOrder, DequeAssumption
<1>b. PICK u \in Int, v \in Int : u = base(i) /\ v = base(j)
  BY <1>1, <1>2
<1>c. s = u + o /\ f = v + p /\ u + BufferSize <= v
  BY <1>1, <1>2, <1>3, <1>b
<1>4. /\ d.start.cur = << block_of(d, i), o >> /\ d.start.last = << block_of(d, i), BufferSize >>
      /\ d.finish.first = << block_of(d, j), 0 >> /\ d.finish.cur = << block_of(d, j), p >>
  BY <1>0, <1>1, <1>2, IteratorIs
<1>5. PICK F : F = Outside(s..(f - 1), (i + 1)..(j - 1))
  OBVIOUS
<1>6. Alike(d, d1) /\ d1.m.thrown = d.m.thrown /\ Store(d1, {i, j}, F)
  BY <1>5, ClearMiddle
<1>7. \A k \in o..(BufferSize - 1) : base(i) + k \in F
  <2>1. SUFFICES ASSUME NEW k \in o..(BufferSize - 1)
                 PROVE  base(i) + k \in F
    OBVIOUS
  <2>2. k \in 0..(BufferSize - 1)
    BY <1>1, <2>1
  <2>3. node_of(base(i) + k) = i
    BY <2>2, AddressOf
  <2>4. base(i) + k \in s..(f - 1)
    BY <1>0, <1>1, <1>2, <1>3, <1>b, <1>c, <2>1
  <2> QED
    BY <1>5, <2>3, <2>4 DEF Outside
<1>8. \A k \in 0..(p - 1) : base(j) + k \in F
  <2>1. SUFFICES ASSUME NEW k \in 0..(p - 1)
                 PROVE  base(j) + k \in F
    OBVIOUS
  <2>2. k \in 0..(BufferSize - 1)
    BY <1>2, <1>3, <2>1
  <2>3. node_of(base(j) + k) = j
    BY <2>2, AddressOf
  <2>4. base(j) + k \in s..(f - 1)
    BY <1>0, <1>1, <1>2, <1>3, <1>b, <1>c, <2>1
  <2> QED
    BY <1>5, <2>3, <2>4 DEF Outside
<1>9. PICK x : x = with(d1, destroy(d1.m, << block_of(d1, i), o >>, << block_of(d1, i), BufferSize >>))
  OBVIOUS
<1>10. PICK A, B : A = (u + o)..(u + BufferSize - 1) /\ B = v..(v + p - 1)
  OBVIOUS
<1>11. Alike(d1, x) /\ x.m.thrown = d1.m.thrown /\ Store(x, {i, j}, F \ A)
  <2>1. o <= BufferSize /\ BufferSize <= BufferSize /\ i \in {i, j}
    BY <1>1, <1>3
  <2>2. RunOf(F, i, o, BufferSize, A)
    BY <1>7, <1>10, <1>b, <2>1 DEF RunOf
  <2>3. RunGone(d1, x, {i, j}, F, A)
    BY <1>3, <1>6, <1>9, <2>1, <2>2, DestroyRun
  <2> QED
    BY <2>3 DEF RunGone
<1>12. x = with(d1, destroy(d1.m, d.start.cur, d.start.last))
  BY <1>4, <1>6, <1>9, AlikeCells
<1>13. d2 = with(x, destroy(x.m, << block_of(x, j), 0 >>, << block_of(x, j), p >>))
  <2>1. block_of(x, j) = block_of(d, j)
    BY <1>6, <1>11, AlikeCells
  <2>2. x = with(d1, x.m) /\ x.m = destroy(d1.m, d.start.cur, d.start.last)
    BY <1>6, <1>12, WithIs DEF Alike
  <2>3. \A m : with(x, m) = with(d1, m)
    BY <1>12 DEF with
  <2>4. d2 = with(d1, destroy(x.m, d.finish.first, d.finish.cur))
    BY <2>2 DEF ClearCall
  <2> QED
    BY <1>4, <2>1, <2>3, <2>4
<1>14. Alike(x, d2) /\ d2.m.thrown = x.m.thrown /\ Store(d2, {i, j}, (F \ A) \ B)
  <2>1. 0 \in Nat /\ 0 <= p /\ p <= BufferSize /\ j \in {i, j}
    BY <1>2, <1>3
  <2>2. ASSUME NEW k \in 0..(p - 1)
        PROVE  base(j) + k \in F \ A
    <3>1. v + k \in F
      BY <1>8, <1>b, <2>2
    <3>2. v + k \notin A
      BY <1>3, <1>10, <1>c, <2>2
    <3> QED
      BY <1>b, <3>1, <3>2
  <2>3. B = (v + 0)..(v + p - 1)
    BY <1>10
  <2>4. RunOf(F \ A, j, 0, p, B)
    BY <1>b, <2>1, <2>2, <2>3 DEF RunOf
  <2>5. RunGone(x, d2, {i, j}, F \ A, B)
    BY <1>11, <1>13, <2>1, <2>4, DestroyRun
  <2> QED
    BY <2>5 DEF RunGone
<1>15. (F \ A) \ B = {}
  <2>1. SUFFICES ASSUME NEW a \in F, a \notin A
                 PROVE  a \in B
    OBVIOUS
  <2>2. a \in Int /\ s <= a /\ a < f /\ node_of(a) \notin (i + 1)..(j - 1)
    BY <1>0, <1>5, <2>1 DEF Outside
  <2>3. PICK k \in Int, q \in Nat : k = node_of(a) /\ q < BufferSize /\ a = base(k) + q
    BY <2>2, AddressParts
  <2>4. i <= k /\ k <= j
    BY <1>0, <2>2, <2>3, AddressOrder
  <2>5. k # i
    <3>1. ASSUME k = i
          PROVE  FALSE
      <4>1. a = u + q
        BY <1>b, <2>3, <3>1
      <4> QED
        <5>1. s = u + o /\ s <= a /\ a \in Int /\ a = u + q /\ q < BufferSize /\ BufferSize \in Nat
          BY <1>3, <1>c, <2>2, <2>3, <4>1
        <5>2. a \in (u + o)..(u + BufferSize - 1)
          BY ONLY <5>1, u \in Int, o \in Nat, q \in Nat
        <5> QED
          BY <1>10, <2>1, <5>2
    <3> QED
      BY <3>1
  <2>6. k = j
    BY <2>2, <2>3, <2>4, <2>5
  <2>7. a = v + q
    BY <1>b, <2>3, <2>6
  <2>8. f = v + p /\ a < f /\ a \in Int
    BY <1>c, <2>2
  <2>9. a \in v..(v + p - 1)
    BY ONLY <2>7, <2>8, v \in Int, p \in Nat, q \in Nat
  <2> QED
    BY <1>10, <2>9
<1>16. PICK y : y = deallocate_node(d2, d.finish.first)
  OBVIOUS
<1>17. Alike(d, d2) /\ d2.m.thrown = d.m.thrown /\ Store(d2, {i, j}, {})
  BY <1>6, <1>11, <1>14, <1>15, AlikeTrans
<1>18. y = deallocate_node(d2, slot(d2, j))
  <2>1. slot(d2, j) = slot(d, j)
    BY <1>17, AlikeCells
  <2>2. d.finish.first = slot(d, j)
    BY <1>0, <1>4, SlotIs
  <2> QED
    BY <1>16, <2>1, <2>2
<1>19. NodeDropped(d2, y, {i, j}, {}, j)
  BY <1>17, <1>18, DropNodeIs
<1>20. Alike(d2, y) /\ Store(y, i..i, {}) /\ y.m.thrown = d2.m.thrown
  <2>1. {i, j} \ {j} = i..i
    OBVIOUS
  <2> QED
    BY <1>19, <2>1 DEF NodeDropped
<1>21. Alike(d, y) /\ IsDeque(y) /\ y.start = d.start /\ iterator(y, s) = iterator(d, s)
  <2>1. Alike(d, y)
    BY <1>17, <1>20, AlikeTrans
  <2> QED
    BY <2>1, AlikeCells DEF Alike
<1>22. r = [y EXCEPT !.finish = d.start]
  BY <1>16 DEF ClearCall
<1>23. r.m = y.m /\ r.map = y.map /\ r.start = y.start /\ r.finish = d.start /\ IsDeque(r)
  BY <1>21, <1>22 DEF IsDeque
<1>24. SameStore(y, r)
  BY <1>23 DEF SameStore
<1>25. Leaves(r, << >>)
  <2>1. i..i = node_of(s)..node_of(s)
    OBVIOUS
  <2> QED
    BY <1>0, <1>20, <1>21, <1>23, <1>24, <2>1, EmptyIs
<1> QED
  BY <1>17, <1>20, <1>23, <1>25

\* clear: no elements are left, and only the buffer of start.
LEMMA ClearIs ==
    ASSUME NEW d, NEW s, NEW f, DequeAt(d, s, f), NEW r, r = clear_all(d)
    PROVE  r.m.thrown = d.m.thrown /\ Leaves(r, << >>)
<1>1. PICK e : e = emptied(d, (d.start.node + 1)..(d.finish.node - 1))
  OBVIOUS
<1>2. PICK d1 : d1 = destroy_nodes(e, d.start.node + 1, d.finish.node)
  OBVIOUS
<1>3. PICK d2 : d2 = with(d1, destroy(destroy(d1.m, d.start.cur, d.start.last),
                                      d.finish.first, d.finish.cur))
  OBVIOUS
<1>4. PICK w : w = [deallocate_node(d2, d.finish.first) EXCEPT !.finish = d.start]
  OBVIOUS
<1>5. ClearCall(d, e, d1, d2, w)
  BY <1>1, <1>2, <1>3, <1>4 DEF ClearCall
<1>6. PICK x : x = with(d, destroy(d.m, d.start.cur, d.finish.cur))
  OBVIOUS
<1>7. r = IF d.start.node = d.finish.node THEN [x EXCEPT !.finish = d.start] ELSE w
  BY <1>1, <1>2, <1>3, <1>4, <1>6, Zenon DEF clear_all, emptied, emptied_cells
<1>8. PICK i \in Int, j \in Int : i = node_of(s) /\ j = node_of(f) /\ i <= j
  BY DequeNodes
<1>9. d.start.node = i /\ d.finish.node = j
  BY <1>8, DequeNodes
<1>10. CASE i = j
  <2>1. r = [x EXCEPT !.finish = d.start] /\ node_of(s) = node_of(f)
    BY <1>7, <1>8, <1>9, <1>10
  <2> QED
    BY <1>6, <2>1, ClearOne
<1>11. CASE i # j
  <2>1. r = w /\ i < j
    BY <1>7, <1>8, <1>9, <1>11
  <2> QED
    BY <1>5, <1>8, <2>1, ClearMore
<1> QED
  BY <1>10, <1>11

-----------------------------------------------------------------------------
\* insert

\* The loop of with_nodes
is_node_loop(e, d, n, node) ==
    e = [k \in 0..n |-> IF k = 0 THEN d ELSE new_node(e[k - 1], node - k)]

LEMMA NodeLoopExists ==
    ASSUME NEW d, NEW node
    PROVE  \A n \in Nat : \E e : is_node_loop(e, d, n, node)
<1> DEFINE W == {n \in Nat : \E e : is_node_loop(e, d, n, node)}
<1>1. 0 \in W
  <2>1. PICK e : e = [k \in 0..0 |-> d]
    OBVIOUS
  <2>2. \A k \in 0..0 : k = 0
    OBVIOUS
  <2>3. is_node_loop(e, d, 0, node)
    BY <2>1, <2>2 DEF is_node_loop
  <2> QED
    BY <2>3
<1>2. ASSUME NEW n \in Nat, n \in W
      PROVE  n + 1 \in W
  <2>1. PICK e : is_node_loop(e, d, n, node)
    BY <1>2
  <2>2. \A k \in 0..n : e[k] = IF k = 0 THEN d ELSE new_node(e[k - 1], node - k)
    BY <2>1 DEF is_node_loop
  <2>3. PICK f : f = [k \in 0..(n + 1) |-> IF k <= n THEN e[k] ELSE new_node(e[n], node - k)]
    OBVIOUS
  <2>4. ASSUME NEW k \in 0..(n + 1)
        PROVE  f[k] = IF k = 0 THEN d ELSE new_node(f[k - 1], node - k)
    <3>1. CASE k = 0
      BY <2>2, <2>3, <3>1
    <3>2. CASE k # 0 /\ k <= n
      <4>1. k - 1 \in 0..(n + 1) /\ k - 1 <= n /\ k \in 0..n
        BY <3>2
      <4>2. f[k - 1] = e[k - 1] /\ f[k] = e[k]
        BY <2>3, <3>2, <4>1
      <4> QED
        BY <2>2, <3>2, <4>1, <4>2
    <3>3. CASE ~(k <= n)
      <4>1. k = n + 1 /\ k - 1 = n /\ n \in 0..(n + 1) /\ k # 0
        BY <3>3
      <4>2. f[n] = e[n] /\ f[k] = new_node(e[n], node - k)
        BY <2>3, <3>3, <4>1
      <4> QED
        BY <4>1, <4>2
    <3> QED
      BY <3>1, <3>2, <3>3
  <2>5. f = [k \in 0..(n + 1) |-> f[k]]
    BY <2>3
  <2>6. [k \in 0..(n + 1) |-> f[k]]
        = [k \in 0..(n + 1) |-> IF k = 0 THEN d ELSE new_node(f[k - 1], node - k)]
    BY <2>4
  <2>7. is_node_loop(f, d, n + 1, node)
    BY ONLY <2>5, <2>6 DEF is_node_loop
  <2> QED
    BY <2>7
<1>3. \A n \in Nat : n \in W
  <2> HIDE DEF W
  <2> QED
    BY <1>1, <1>2, NumberInduction
<1> QED
  BY <1>3

\* with_nodes is its last iteration.
NodeRun(e, d, n, node) ==
    e[0] = d /\ \A k \in 1..n : e[k] = new_node(e[k - 1], node - k)

LEMMA NodeLoopIs ==
    ASSUME NEW d, NEW node, NEW n \in Nat
    PROVE  \E e : NodeRun(e, d, n, node) /\ with_nodes(d, n, node) = e[n]
<1>1. PICK e : e = CHOOSE f : is_node_loop(f, d, n, node)
  OBVIOUS
<1>2. is_node_loop(e, d, n, node)
  BY <1>1, NodeLoopExists
<1>3. with_nodes(d, n, node) = e[n]
  BY <1>1, Zenon DEF with_nodes, is_node_loop
<1>4. ASSUME NEW k \in 1..n
      PROVE  e[k] = new_node(e[k - 1], node - k)
  <2>1. k \in 0..n /\ k # 0
    OBVIOUS
  <2> QED
    BY <1>2, <2>1 DEF is_node_loop
<1>5. e[0] = d
  <2>1. 0 \in 0..n
    OBVIOUS
  <2> QED
    BY <1>2, <2>1 DEF is_node_loop
<1> QED
  BY <1>3, <1>4, <1>5 DEF NodeRun

\* r is d with buffers for the nodes from lo on that are in front of node.
NodesAdded(d, r, N, E, lo, node) ==
    /\ Store(r, N, E) /\ Kept(d, r, E)
    /\ r.start = d.start /\ r.finish = d.finish /\ r.m.thrown = d.m.thrown
    /\ DOMAIN r.map = DOMAIN d.map /\ \A j : j \notin lo..(node - 1) => slot(r, j) = slot(d, j)
    /\ \A p \in Pointer : in_block(d.m, p) => /\ in_block(r.m, p)
                                              /\ content_of(r.m, p) = content_of(d.m, p)

\* The nodes from lo to hi are to have buffers, of which those from node on have one.
NodesCall(d, N, lo, hi, node, n) ==
    /\ N = node..hi /\ lo = node - n /\ node <= hi
    /\ lo..hi \subseteq DOMAIN d.map
    /\ Cardinality(Block) \in Nat /\ hi - lo < Cardinality(Block)

LEMMA WithNodesIs ==
    ASSUME NEW d, NEW N, NEW E, Store(d, N, E), NEW node \in Int, NEW hi \in Int, NEW lo \in Int,
           NEW n \in Nat, NodesCall(d, N, lo, hi, node, n), NEW r, r = with_nodes(d, n, node)
    PROVE  NodesAdded(d, r, lo..hi, E, lo, node)
<1>0. /\ N = node..hi /\ lo = node - n /\ node <= hi
      /\ lo..hi \subseteq DOMAIN d.map
      /\ Cardinality(Block) \in Nat /\ hi - lo < Cardinality(Block)
  BY DEF NodesCall
<1>1. PICK e : NodeRun(e, d, n, node) /\ r = e[n]
  BY NodeLoopIs
<1>2. e[0] = d /\ \A k \in 1..n : e[k] = new_node(e[k - 1], node - k)
  BY <1>1 DEF NodeRun
<1> DEFINE W == {k \in Nat : k <= n => NodesAdded(d, e[k], (node - k)..hi, E, node - k, node)}
<1>3. 0 \in W
  <2>1. (node - 0)..hi = N /\ node - 0 = node
    BY <1>0
  <2>2. Kept(d, d, E)
    BY DEF Kept
  <2>3. NodesAdded(d, d, N, E, node, node)
    BY <2>2 DEF NodesAdded
  <2> QED
    BY <1>2, <2>1, <2>3
<1>4. ASSUME NEW k \in Nat, k \in W
      PROVE  k + 1 \in W
  <2>1. SUFFICES ASSUME k + 1 <= n
                 PROVE  NodesAdded(d, e[k + 1], (node - (k + 1))..hi, E, node - (k + 1), node)
    OBVIOUS
  <2>2. PICK x, y : x = e[k] /\ y = e[k + 1]
    OBVIOUS
  <2>3. PICK i \in Int, l \in Int : i = node - k /\ l = node - (k + 1)
    OBVIOUS
  <2>4. PICK M : M = i..hi
    OBVIOUS
  <2>5. l = i - 1 /\ l \notin M /\ l \in lo..hi /\ l..hi = M \cup {l} /\ M \subseteq Int
    BY <1>0, <2>1, <2>3, <2>4
  <2>6. NodesAdded(d, x, M, E, i, node)
    <3>1. k <= n
      BY <2>1
    <3> QED
      BY <1>4, <2>2, <2>3, <2>4, <3>1
  <2>7. /\ Store(x, M, E) /\ Kept(d, x, E)
        /\ x.start = d.start /\ x.finish = d.finish /\ x.m.thrown = d.m.thrown
        /\ DOMAIN x.map = DOMAIN d.map /\ \A j : j \notin i..(node - 1) => slot(x, j) = slot(d, j)
        /\ \A p \in Pointer : in_block(d.m, p) => /\ in_block(x.m, p)
                                                  /\ content_of(x.m, p) = content_of(d.m, p)
    BY <2>6 DEF NodesAdded
  <2>8. y = new_node(x, l)
    <3>1. k + 1 \in 1..n /\ k + 1 - 1 = k
      BY <2>1
    <3>2. e[k + 1] = new_node(e[k + 1 - 1], node - (k + 1))
      BY <1>2, <3>1
    <3> QED
      BY <2>2, <2>3, <3>1, <3>2
  <2>9. NodeAdded(x, y, M, E, l)
    <3>1. hi - i + 1 < Cardinality(Block)
      BY <1>0, <2>3, <2>5, SMTT(30)
    <3>2. IsFiniteSet(M) /\ Cardinality(M) < Cardinality(Block)
      BY <2>4, <3>1, NodesFinite
    <3>3. l \in DOMAIN x.map
      BY <1>0, <2>5, <2>7
    <3> QED
      BY <2>5, <2>7, <2>8, <3>2, <3>3, NewNodeIs
  <2>10. /\ Store(y, l..hi, E) /\ Kept(x, y, E)
         /\ y.start = x.start /\ y.finish = x.finish /\ y.m.thrown = x.m.thrown
         /\ DOMAIN y.map = DOMAIN x.map /\ \A j : j # l => slot(y, j) = slot(x, j)
         /\ \A p \in Pointer : in_block(x.m, p) => /\ in_block(y.m, p)
                                                   /\ content_of(y.m, p) = content_of(x.m, p)
    BY <2>5, <2>9 DEF NodeAdded
  <2>11. \A j : j \notin l..(node - 1) => slot(y, j) = slot(d, j)
    <3>1. l..(node - 1) = i..(node - 1) \cup {l}
      BY <2>3, <2>5
    <3> QED
      BY <2>7, <2>10, <3>1
  <2>12. Kept(d, y, E)
    BY <2>7, <2>10 DEF Kept
  <2>13. \A p \in Pointer : in_block(d.m, p) => /\ in_block(y.m, p)
                                                /\ content_of(y.m, p) = content_of(d.m, p)
    BY <2>7, <2>10
  <2>14. NodesAdded(d, y, l..hi, E, l, node)
    BY <2>7, <2>10, <2>11, <2>12, <2>13 DEF NodesAdded
  <2> QED
    BY <2>2, <2>3, <2>14
<1>5. n \in W
  <2> HIDE DEF W
  <2> QED
    BY <1>3, <1>4, NumberInduction
<1>6. NodesAdded(d, e[n], (node - n)..hi, E, node - n, node)
  BY <1>5
<1> QED
  BY <1>0, <1>1, <1>6

\* The loop of build that destroys what was built
is_undo_loop(e, d, it, b, n) ==
    e = [k \in 0..n |->
            IF k = 0 THEN b
            ELSE IF k > copies(d.m, b) THEN e[k - 1]
            ELSE destroy(e[k - 1], advance(d, it, k - 1).cur, plus(advance(d, it, k - 1).cur, 1))]

undone(d, it, b, x, k) ==
    IF k > copies(d.m, b) THEN x
    ELSE destroy(x, advance(d, it, k - 1).cur, plus(advance(d, it, k - 1).cur, 1))

LEMMA UndoLoopExists ==
    ASSUME NEW d, NEW it, NEW b
    PROVE  \A n \in Nat : \E e : is_undo_loop(e, d, it, b, n)
<1> DEFINE W == {n \in Nat : \E e : e = [k \in 0..n |-> IF k = 0 THEN b ELSE undone(d, it, b, e[k - 1], k)]}
<1>1. 0 \in W
  <2>1. PICK e : e = [k \in 0..0 |-> b]
    OBVIOUS
  <2>2. \A k \in 0..0 : k = 0
    OBVIOUS
  <2>3. e = [k \in 0..0 |-> IF k = 0 THEN b ELSE undone(d, it, b, e[k - 1], k)]
    BY <2>1, <2>2
  <2> QED
    BY <2>3
<1>2. ASSUME NEW n \in Nat, n \in W
      PROVE  n + 1 \in W
  <2>1. PICK e : e = [k \in 0..n |-> IF k = 0 THEN b ELSE undone(d, it, b, e[k - 1], k)]
    BY <1>2
  <2>2. \A k \in 0..n : e[k] = IF k = 0 THEN b ELSE undone(d, it, b, e[k - 1], k)
    BY <2>1
  <2>3. PICK f : f = [k \in 0..(n + 1) |-> IF k <= n THEN e[k] ELSE undone(d, it, b, e[n], k)]
    OBVIOUS
  <2>4. ASSUME NEW k \in 0..(n + 1)
        PROVE  f[k] = IF k = 0 THEN b ELSE undone(d, it, b, f[k - 1], k)
    <3>1. CASE k = 0
      BY <2>2, <2>3, <3>1
    <3>2. CASE k # 0 /\ k <= n
      <4>1. k - 1 \in 0..(n + 1) /\ k - 1 <= n /\ k \in 0..n
        BY <3>2
      <4>2. f[k - 1] = e[k - 1] /\ f[k] = e[k]
        BY <2>3, <3>2, <4>1
      <4> QED
        BY <2>2, <3>2, <4>1, <4>2
    <3>3. CASE ~(k <= n)
      <4>1. k = n + 1 /\ k - 1 = n /\ n \in 0..(n + 1) /\ k # 0
        BY <3>3
      <4>2. f[n] = e[n] /\ f[k] = undone(d, it, b, e[n], k)
        BY <2>3, <3>3, <4>1
      <4> QED
        BY <4>1, <4>2
    <3> QED
      BY <3>1, <3>2, <3>3
  <2>5. f = [k \in 0..(n + 1) |-> f[k]]
    BY <2>3
  <2>6. [k \in 0..(n + 1) |-> f[k]]
        = [k \in 0..(n + 1) |-> IF k = 0 THEN b ELSE undone(d, it, b, f[k - 1], k)]
    BY <2>4
  <2>7. f = [k \in 0..(n + 1) |-> IF k = 0 THEN b ELSE undone(d, it, b, f[k - 1], k)]
    BY ONLY <2>5, <2>6
  <2> QED
    BY <2>7
<1>3. \A n \in Nat : n \in W
  <2> HIDE DEF W
  <2> QED
    BY <1>1, <1>2, NumberInduction
<1> QED
  BY <1>3, Zenon DEF is_undo_loop, undone

UndoRun(e, d, it, b, n) ==
    e[0] = b /\ \A k \in 1..n : e[k] = undone(d, it, b, e[k - 1], k)

\* build is what put_all makes, or the last iteration of the loop.
built_from(d, it, items) ==
    put_all(d.m, Len(items), items, [k \in 1..Len(items) |-> advance(d, it, k - 1).cur], {RAW})

LEMMA BuildRun ==
    ASSUME NEW d, NEW it, NEW items, Len(items) \in Nat, NEW b, b = built_from(d, it, items)
    PROVE  \E e : /\ UndoRun(e, d, it, b, Len(items))
                  /\ build(d, it, items) = with(d, IF b.thrown THEN e[Len(items)] ELSE b)
<1>1. PICK e : e = CHOOSE f : is_undo_loop(f, d, it, b, Len(items))
  OBVIOUS
<1>2. is_undo_loop(e, d, it, b, Len(items))
  BY <1>1, UndoLoopExists
<1>3. build(d, it, items) = with(d, IF b.thrown THEN e[Len(items)] ELSE b)
  <2>1. build(d, it, items)
        = with(d, IF built_from(d, it, items).thrown
                  THEN (CHOOSE f : is_undo_loop(f, d, it, built_from(d, it, items), Len(items)))
                          [Len(items)]
                  ELSE built_from(d, it, items))
    BY ONLY Zenon DEF build, is_undo_loop, built_from
  <2> QED
    BY <1>1, <2>1
<1>4. ASSUME NEW k \in 1..Len(items)
      PROVE  e[k] = undone(d, it, b, e[k - 1], k)
  <2>1. k \in 0..Len(items) /\ k # 0
    OBVIOUS
  <2> QED
    BY <1>2, <2>1 DEF is_undo_loop, undone
<1>5. e[0] = b
  <2>1. 0 \in 0..Len(items)
    OBVIOUS
  <2> QED
    BY <1>2, <2>1 DEF is_undo_loop
<1> QED
  BY <1>3, <1>4, <1>5 DEF UndoRun

\* The items go to addresses from a on, in buffers and without elements.
Buildable(d, N, E, a, n, items) ==
    /\ \A k \in 1..n : node_of(a + k - 1) \in N /\ a + k - 1 \notin E
    /\ Readable(d.m, n, items)

LEMMA ItemsReady ==
    ASSUME NEW d, NEW N, NEW E, Store(d, N, E), NEW a \in Int, NEW n \in Nat, NEW items, NEW to,
           Buildable(d, N, E, a, n, items), \A k \in 1..n : to[k] = cell_at(d, a + k - 1)
    PROVE  Ready(d.m, n, items, to, {RAW})
<1>1. ASSUME NEW k \in 1..n
      PROVE  /\ a + k - 1 \in Int /\ node_of(a + k - 1) \in N
             /\ to[k] = cell_at(d, a + k - 1) /\ to[k] \in Pointer /\ to[k] \notin Value
             /\ in_block(d.m, to[k]) /\ content_of(d.m, to[k]) = RAW
  <2>1. PICK x \in Int : x = a + k - 1
    OBVIOUS
  <2>2. node_of(x) \in N /\ x \notin E
    BY <2>1 DEF Buildable
  <2>3. cell_at(d, x) \in Pointer /\ cell_at(d, x) \notin Value /\ in_block(d.m, cell_at(d, x))
    BY <2>2, CellIs DEF CellThere
  <2>4. content_of(d.m, cell_at(d, x)) = RAW
    BY <2>2 DEF Store, content
  <2> QED
    BY <2>1, <2>2, <2>3, <2>4
<1>2. ASSUME NEW j \in 1..n, NEW k \in 1..n, j < k
      PROVE  to[j] # to[k]
  <2>1. PICK x \in Int, y \in Int : x = a + j - 1 /\ y = a + k - 1 /\ x # y
    BY <1>2
  <2>2. node_of(x) \in N /\ node_of(y) \in N /\ to[j] = cell_at(d, x) /\ to[k] = cell_at(d, y)
    BY <1>1, <2>1
  <2> QED
    BY <2>1, <2>2, CellsApart
<1>3. \A k \in 1..n : items[k] \in Value \cup Pointer /\ read(d.m, items[k]) \in Value
  BY DEF Buildable, Readable
<1>4. ASSUME NEW j \in 1..n, NEW k \in 1..n, items[k] = to[j]
      PROVE  FALSE
  <2>1. read(d.m, to[j]) = RAW
    BY <1>1 DEF read
  <2> QED
    BY <1>3, <1>4, <2>1, StlMemoryAssumption
<1>5. \A k \in 1..n : to[k] \in Pointer /\ in_block(d.m, to[k]) /\ content_of(d.m, to[k]) \in {RAW}
  BY <1>1
<1> QED
  BY <1>2, <1>3, <1>4, <1>5 DEF Ready

\* The items are at F, or something threw and nothing was changed.
Built(d, r, N, E, F, a, n, items) ==
    /\ Alike(d, r) /\ r.m.thrown \in BOOLEAN /\ Kept(d, r, E)
    /\ r.m.thrown => Store(r, N, E)
    /\ ~r.m.thrown => /\ Store(r, N, E \cup F)
                      /\ \A k \in 1..n : content(r, a + k - 1) = read(d.m, items[k])

\* While what was built is destroyed, what is left of it is at G.
Undone(d, r, N, E, G) ==
    Alike(d, r) /\ r.m.thrown /\ Store(r, N, E \cup G) /\ Kept(d, r, E)

ToUndo(d, b, E, a, n, c, G) ==
    c <= n /\ c = copies(d.m, b) /\ G = a..(a + c - 1) /\ \A k \in 1..n : a + k - 1 \notin E

LEMMA UndoIs ==
    ASSUME NEW d, NEW N, NEW E, Store(d, N, E), NEW a \in Int, NEW n \in Nat, NEW c \in Nat,
           NEW b, NEW G, ToUndo(d, b, E, a, n, c, G),
           NEW it, it = iterator(d, a), NEW e, UndoRun(e, d, it, b, n),
           Undone(d, with(d, b), N, E, G)
    PROVE  Undone(d, with(d, e[n]), N, E, {})
<1>a. c <= n /\ c = copies(d.m, b) /\ G = a..(a + c - 1) /\ \A k \in 1..n : a + k - 1 \notin E
  BY DEF ToUndo
<1>0. IsDeque(d)
  BY DEF Store
<1>1. e[0] = b /\ \A k \in 1..n : e[k] = undone(d, it, b, e[k - 1], k)
  BY DEF UndoRun
<1> DEFINE W == {k \in Nat : k <= n => Undone(d, with(d, e[k]), N, E, (a + k)..(a + c - 1))}
<1>2. 0 \in W
  <2>1. (a + 0)..(a + c - 1) = G
    BY <1>a
  <2> QED
    BY <1>1, <2>1
<1>3. ASSUME NEW k \in Nat, k \in W
      PROVE  k + 1 \in W
  <2>1. SUFFICES ASSUME k + 1 <= n
                 PROVE  Undone(d, with(d, e[k + 1]), N, E, (a + (k + 1))..(a + c - 1))
    OBVIOUS
  <2>2. PICK x, y : x = with(d, e[k]) /\ y = with(d, e[k + 1])
    OBVIOUS
  <2>3. PICK p \in Int : p = a + k
    OBVIOUS
  <2>4. PICK H, I : H = (a + k)..(a + c - 1) /\ I = (a + (k + 1))..(a + c - 1)
    OBVIOUS
  <2>5. Undone(d, x, N, E, H)
    <3>1. k <= n
      BY <2>1
    <3> QED
      BY <1>3, <2>2, <2>4, <3>1
  <2>6. Alike(d, x) /\ x.m.thrown /\ Store(x, N, E \cup H) /\ Kept(d, x, E)
    BY <2>5 DEF Undone
  <2>7. e[k + 1] = undone(d, it, b, e[k], k + 1)
    <3>1. k + 1 \in 1..n /\ k + 1 - 1 = k
      BY <2>1
    <3>2. e[k + 1] = undone(d, it, b, e[k + 1 - 1], k + 1)
      BY <1>1, <3>1
    <3> QED
      BY <3>1, <3>2
  <2>8. CASE k + 1 > c
    <3>1. H = {} /\ I = {}
      BY <2>4, <2>8
    <3>2. e[k + 1] = e[k]
      BY <1>a, <2>7, <2>8 DEF undone
    <3> QED
      BY <2>2, <2>4, <2>5, <3>1, <3>2
  <2>9. CASE ~(k + 1 > c)
    <3>1. p \in H /\ H \ {p} = I
      BY <2>3, <2>4, <2>9
    <3>2. p \notin E
      <4>1. k + 1 \in 1..n /\ a + (k + 1) - 1 = p
        BY <2>1, <2>3
      <4> QED
        BY <1>a, <4>1
    <3>3. (E \cup H) \ {p} = E \cup I
      BY <3>1, <3>2
    <3>4. advance(d, it, k + 1 - 1).cur = cell_at(x, p)
      <4>1. k + 1 - 1 = k /\ k \in Int
        OBVIOUS
      <4>2. advance(d, it, k) = iterator(d, p)
        BY <1>0, <2>3, AdvanceIs
      <4>3. iterator(d, p).cur = cell_at(d, p)
        BY DEF iterator
      <4> QED
        BY <2>6, <4>1, <4>2, <4>3, AlikeCells
    <3>5. e[k + 1] = destroy(e[k], cell_at(x, p), plus(cell_at(x, p), 1))
      BY <1>a, <2>7, <2>9, <3>4 DEF undone
    <3>6. y = destroy_at(x, cell_at(x, p))
      <4>1. x.m = e[k]
        BY <1>0, <2>2, WithIs
      <4>2. \A m : with(x, m) = with(d, m)
        BY <2>2 DEF with
      <4> QED
        BY <2>2, <3>5, <4>1, <4>2 DEF destroy_at
    <3>7. /\ Alike(x, y) /\ y.m.thrown = x.m.thrown
          /\ Store(y, N, (E \cup H) \ {p}) /\ Kept(x, y, (E \cup H) \ {p})
      <4>1. p \in E \cup H
        BY <3>1
      <4> QED
        BY <2>6, <3>6, <4>1, DestroyAtIs
    <3>8. Kept(d, y, E)
      BY <2>6, <3>2, <3>7 DEF Kept
    <3>9. Alike(d, y)
      BY <2>6, <3>7, AlikeTrans
    <3>10. Undone(d, y, N, E, I)
      BY <2>6, <3>3, <3>7, <3>8, <3>9 DEF Undone
    <3> QED
      BY <2>2, <2>4, <3>10
  <2> QED
    BY <2>8, <2>9
<1>4. n \in W
  <2> HIDE DEF W
  <2> QED
    BY <1>2, <1>3, NumberInduction
<1>5. Undone(d, with(d, e[n]), N, E, (a + n)..(a + c - 1))
  BY <1>4
<1>6. (a + n)..(a + c - 1) = {}
  BY <1>a
<1> QED
  BY <1>5, <1>6

\* build: the items are constructed one behind the other, or it leaves nothing.
LEMMA BuildIs ==
    ASSUME NEW d, NEW N, NEW E, Store(d, N, E), ~d.m.thrown, NEW a \in Int, NEW n \in Nat,
           NEW items, n = Len(items), Buildable(d, N, E, a, n, items),
           NEW F, F = a..(a + n - 1), NEW r, r = build(d, iterator(d, a), items)
    PROVE  Built(d, r, N, E, F, a, n, items)
<1>0. IsDeque(d) /\ IsMemory(d.m) /\ ~d.m.fault
  BY DEF Store
<1>1. PICK it : it = iterator(d, a)
  OBVIOUS
<1>2. PICK b : b = built_from(d, it, items)
  OBVIOUS
<1>3. PICK e : UndoRun(e, d, it, b, n) /\ r = with(d, IF b.thrown THEN e[n] ELSE b)
  BY <1>1, <1>2, BuildRun
<1>4. PICK to : to = [k \in 1..n |-> advance(d, it, k - 1).cur]
  OBVIOUS
<1>5. ASSUME NEW k \in 1..n
      PROVE  to[k] = cell_at(d, a + k - 1)
  <2>1. PICK i \in Int, x \in Int : i = k - 1 /\ x = a + k - 1 /\ x = a + i
    OBVIOUS
  <2>2. advance(d, it, i) = iterator(d, x)
    BY <1>0, <1>1, <2>1, AdvanceIs
  <2>3. iterator(d, x).cur = cell_at(d, x)
    BY DEF iterator
  <2>4. to[k] = advance(d, it, i).cur
    BY <1>4, <2>1
  <2> QED
    BY <2>1, <2>2, <2>3, <2>4
<1>6. Puts(d.m, b, n, items, to)
  <2>1. b = put_all(d.m, n, items, to, {RAW})
    BY <1>2, <1>4 DEF built_from
  <2>2. Ready(d.m, n, items, to, {RAW})
    BY <1>5, ItemsReady
  <2> QED
    BY <1>0, <2>1, <2>2, PutAll
<1>7. PICK c \in 0..n : /\ Wrote(d.m, b, c, items, to)
                        /\ b.thrown => c = d.m.fuel /\ c < n
                        /\ ~b.thrown => c = n
  BY <1>6 DEF Puts
<1>8. PICK x : x = with(d, b)
  OBVIOUS
<1>9. Alike(d, x) /\ x.m = b
  BY <1>0, <1>8, WithIs
<1>10. PICK y : y = [k \in 1..n |-> a + k - 1]
  OBVIOUS
<1>11. PICK G : G = a..(a + c - 1)
  OBVIOUS
<1>12. {y[k] : k \in 1..c} = G
  <2>1. \A k \in 1..c : y[k] = a + k - 1 /\ a + k - 1 \in G
    BY <1>10, <1>11
  <2>2. ASSUME NEW z \in G
        PROVE  \E k \in 1..c : z = y[k]
    <3>1. PICK k \in 1..c : k = z - a + 1
      BY <1>11
    <3>2. z = a + k - 1
      BY <1>11, <3>1
    <3> QED
      BY <2>1, <3>2
  <2>3. PICK Y : Y = {y[k] : k \in 1..c}
    OBVIOUS
  <2>4. \A z \in Y : z \in G
    BY <2>1, <2>3
  <2>5. \A z \in G : z \in Y
    BY <2>2, <2>3
  <2> QED
    BY <2>3, <2>4, <2>5
<1>13. Written(d, x, N, E, c, y, items)
  <2>1. ASSUME NEW k \in 1..c
        PROVE  y[k] \in Int /\ node_of(y[k]) \in N /\ to[k] = cell_at(d, y[k])
               /\ read(d.m, items[k]) \in Value
    <3>1. k \in 1..n
      OBVIOUS
    <3>2. y[k] = a + k - 1
      BY <1>10, <3>1
    <3> QED
      BY <1>5, <3>1, <3>2 DEF Buildable, Readable
  <2>2. Places(d, N, c, y, items, to)
    BY <2>1 DEF Places
  <2>3. c \in Nat
    OBVIOUS
  <2> QED
    BY <1>7, <1>9, <2>2, <2>3, WroteKeeps
<1>14. /\ Store(x, N, E \cup G)
       /\ \A k \in 1..c : content(x, y[k]) = read(d.m, items[k])
       /\ \A z \in Int : node_of(z) \in N /\ (\A k \in 1..c : y[k] # z) => content(x, z) = content(d, z)
  BY <1>12, <1>13 DEF Written
<1>15. \A k \in 1..n : a + k - 1 \notin E
  BY DEF Buildable
<1>16. Kept(d, x, E)
  <2>1. ASSUME NEW z \in E
        PROVE  content(x, z) = content(d, z)
    <3>1. z \in Int /\ node_of(z) \in N
      BY DEF Store
    <3>2. \A k \in 1..c : y[k] # z
      BY <1>10, <1>15
    <3> QED
      BY <1>14, <3>1, <3>2
  <2> QED
    BY <2>1 DEF Kept
<1>17. b.thrown \in BOOLEAN
  BY <1>7 DEF Wrote, IsMemory
<1>18. CASE ~b.thrown
  <2>1. r = x /\ c = n /\ G = F
    BY <1>3, <1>7, <1>8, <1>11, <1>18
  <2>2. \A k \in 1..n : content(r, a + k - 1) = read(d.m, items[k])
    BY <1>10, <1>14, <2>1
  <2> QED
    BY <1>9, <1>14, <1>16, <1>17, <1>18, <2>1, <2>2 DEF Built
<1>19. CASE b.thrown
  <2>1. r = with(d, e[n])
    BY <1>3, <1>19
  <2>2. c = copies(d.m, b) /\ c \in Nat /\ c <= n
    <3>1. b.fuel = d.m.fuel - c /\ d.m.fuel \in Nat
      BY <1>0, <1>7 DEF Wrote, IsMemory
    <3> QED
      BY <3>1 DEF copies
  <2>3. Undone(d, with(d, b), N, E, G)
    BY <1>8, <1>9, <1>14, <1>16, <1>19 DEF Undone
  <2>a. ToUndo(d, b, E, a, n, c, G)
    BY <1>11, <1>15, <2>2 DEF ToUndo
  <2>4. Undone(d, r, N, E, {})
    BY <1>1, <1>3, <2>1, <2>2, <2>3, <2>a, UndoIs
  <2>5. E \cup {} = E
    OBVIOUS
  <2>6. Alike(d, r) /\ r.m.thrown /\ Store(r, N, E) /\ Kept(d, r, E)
    BY <2>4, <2>5 DEF Undone
  <2>7. r.m.thrown = TRUE
    <3>1. r.m.thrown \in BOOLEAN
      BY <2>6 DEF Store, IsMemory
    <3> QED
      BY <2>6, <3>1
  <2> QED
    BY <2>6, <2>7 DEF Built
<1> QED
  BY <1>17, <1>18, <1>19

\* The elements from address a on are those of q.
Holds(r, a, n, q) == \A k \in 1..n : content(r, a + k - 1) = q[k]

\* What the items refer to
values_of(m, n, items) == [k \in 1..n |-> read(m, items[k])]

LEMMA ValuesAre ==
    ASSUME NEW m, NEW n \in Nat, NEW items, Readable(m, n, items)
    PROVE  /\ values_of(m, n, items) \in Seq(Value) /\ Len(values_of(m, n, items)) = n
           /\ \A k \in 1..n : values_of(m, n, items)[k] = read(m, items[k])
<1>1. \A k \in 1..n : read(m, items[k]) \in Value
  BY DEF Readable
<1>2. PICK q : q = [k \in 1..n |-> read(m, items[k])]
  OBVIOUS
<1>3. q \in Seq(Value) /\ Len(q) = n /\ \A k \in 1..n : q[k] = read(m, items[k])
  BY <1>1, <1>2
<1> QED
  BY <1>2, <1>3 DEF values_of

\* A number of elements more behind, or in front of, those that were there
LEMMA JoinedBack ==
    ASSUME NEW d, NEW s, NEW f, DequeAt(d, s, f), NEW n \in Nat, NEW v \in Seq(Value), Len(v) = n,
           NEW r, NEW g \in Int, g = f + n, DequeAt(r, s, g), Holds(r, f, n, v), Kept(d, r, s..(f - 1))
    PROVE  Leaves(r, Contents(d, s, f) \o v)
<1>0. s \in Int /\ f \in Int /\ s <= f
  BY DEF DequeAt
<1>1. PICK p : p = Contents(d, s, f)
  OBVIOUS
<1>2. PICK q : q = Contents(r, s, g)
  OBVIOUS
<1>a. PICK l \in Nat : l = f - s
  BY <1>0
<1>3. p \in Seq(Value) /\ Len(p) = l /\ \A k \in 1..l : p[k] = content(d, s + k - 1)
  BY <1>1, <1>a, ContentsAre
<1>b. g - s = l + n
  BY <1>0, <1>a
<1>4. /\ q \in Seq(Value) /\ Len(q) = l + n
      /\ \A k \in 1..(l + n) : q[k] = content(r, s + k - 1)
  <2>1. /\ q \in Seq(Value) /\ Len(q) = g - s
        /\ \A k \in 1..(g - s) : q[k] = content(r, s + k - 1)
    BY <1>2, ContentsAre
  <2> QED
    BY <1>b, <2>1
<1>5. PICK a : a = p \o v
  OBVIOUS
<1>6. /\ a \in Seq(Value) /\ Len(a) = l + n
      /\ \A k \in 1..(l + n) : a[k] = IF k <= l THEN p[k] ELSE v[k - l]
  BY <1>3, <1>5, ConcatProperties
<1>7. ASSUME NEW k \in 1..(l + n)
      PROVE  a[k] = q[k]
  <2>1. CASE k <= l
    <3>1. s + k - 1 \in s..(f - 1) /\ k \in 1..l
      BY <1>0, <1>a, <2>1
    <3>2. content(r, s + k - 1) = content(d, s + k - 1)
      BY <3>1 DEF Kept
    <3> QED
      BY <1>3, <1>4, <1>6, <2>1, <3>1, <3>2
  <2>2. CASE ~(k <= l)
    <3>1. PICK i \in 1..n : i = k - l
      BY <2>2
    <3>2. s + k - 1 = f + i - 1
      BY <1>0, <1>a, <3>1
    <3>3. content(r, f + i - 1) = v[i]
      BY DEF Holds
    <3> QED
      BY <1>4, <1>6, <2>2, <3>1, <3>2, <3>3
  <2> QED
    BY <2>1, <2>2
<1>8. a = q
  BY <1>4, <1>6, <1>7, SameSeq
<1> QED
  BY <1>0, <1>1, <1>2, <1>5, <1>8 DEF Leaves

LEMMA JoinedFront ==
    ASSUME NEW d, NEW s, NEW f, DequeAt(d, s, f), NEW n \in Nat, NEW v \in Seq(Value), Len(v) = n,
           NEW r, NEW x \in Int, NEW y \in Int, SameElements(d, s, f, r, x, y),
           NEW t \in Int, t = x - n, DequeAt(r, t, y), Holds(r, t, n, v)
    PROVE  Leaves(r, v \o Contents(d, s, f))
<1>0. s \in Int /\ f \in Int /\ s <= f
  BY DEF DequeAt
<1>1. PICK p : p = Contents(d, s, f)
  OBVIOUS
<1>c. y - x = f - s /\ \A a \in s..(f - 1) : content(r, a + (x - s)) = content(d, a)
  BY DEF SameElements
<1>2. PICK q : q = Contents(r, t, y)
  OBVIOUS
<1>a. PICK l \in Nat : l = f - s
  BY <1>0
<1>3. p \in Seq(Value) /\ Len(p) = l /\ \A k \in 1..l : p[k] = content(d, s + k - 1)
  BY <1>1, <1>a, ContentsAre
<1>b. y - t = n + l
  BY <1>0, <1>a, <1>c
<1>4. /\ q \in Seq(Value) /\ Len(q) = n + l
      /\ \A k \in 1..(n + l) : q[k] = content(r, t + k - 1)
  <2>1. /\ q \in Seq(Value) /\ Len(q) = y - t
        /\ \A k \in 1..(y - t) : q[k] = content(r, t + k - 1)
    <3>1. Contents(r, t, y) \in Seq(Value) /\ Len(Contents(r, t, y)) = y - t
      BY ContentsAre
    <3>2. \A k \in 1..(y - t) : Contents(r, t, y)[k] = content(r, t + k - 1)
      BY ContentsAre
    <3> QED
      BY <1>2, <3>1, <3>2
  <2> QED
    BY <1>b, <2>1
<1>5. PICK a : a = v \o p
  OBVIOUS
<1>6. /\ a \in Seq(Value) /\ Len(a) = n + l
      /\ \A k \in 1..(n + l) : a[k] = IF k <= n THEN v[k] ELSE p[k - n]
  BY <1>3, <1>5, ConcatProperties
<1>7. ASSUME NEW k \in 1..(n + l)
      PROVE  a[k] = q[k]
  <2>1. CASE k <= n
    <3>1. k \in 1..n
      BY <2>1
    <3>2. content(r, t + k - 1) = v[k]
      BY <3>1 DEF Holds
    <3> QED
      BY <1>4, <1>6, <2>1, <3>2
  <2>2. CASE ~(k <= n)
    <3>1. PICK i \in 1..l : i = k - n
      BY <2>2
    <3>2. t + k - 1 = (s + i - 1) + (x - s) /\ s + i - 1 \in s..(f - 1)
      BY <1>0, <1>a, <3>1
    <3>3. content(r, (s + i - 1) + (x - s)) = content(d, s + i - 1)
      BY <1>c, <3>2
    <3> QED
      BY <1>3, <1>4, <1>6, <2>2, <3>1, <3>2, <3>3
  <2> QED
    BY <2>1, <2>2
<1>8. a = q
  BY <1>4, <1>6, <1>7, SameSeq
<1> QED
  BY <1>0, <1>1, <1>2, <1>5, <1>8 DEF Leaves

\* Places in the buffer of an address
LEMMA SameBuffer ==
    ASSUME NEW a \in Int, NEW k \in Int, NEW o \in Int, o = offset_of(a), 0 <= o + k, o + k < BufferSize
    PROVE  node_of(a + k) = node_of(a) /\ offset_of(a + k) = o + k
<1>1. PICK i \in Int : i = node_of(a) /\ o < BufferSize /\ a = base(i) + o /\ base(i) \in Int
  BY AddressParts
<1>2. PICK p \in Int : p = o + k /\ p \in 0..(BufferSize - 1)
  BY <1>1, DequeAssumption
<1>3. node_of(base(i) + p) = i /\ offset_of(base(i) + p) = p
  BY <1>2, AddressOf
<1>4. base(i) + p = a + k
  <2>1. PICK u \in Int : u = base(i)
    BY <1>1
  <2>2. a = u + o /\ p = o + k
    BY <1>1, <1>2, <2>1
  <2>3. u + p = a + k
    BY ONLY <2>2, a \in Int, u \in Int, o \in Int, k \in Int, p \in Int
  <2> QED
    BY <2>1, <2>3
<1> QED
  BY <1>1, <1>2, <1>3, <1>4

\* insert at the end, of as many elements as there is room for in the last buffer
LEMMA InsertBackIs ==
    ASSUME NEW d, NEW s, NEW f, DequeAt(d, s, f), ~d.m.thrown, NEW n \in Nat, NEW items, n = Len(items),
           Readable(d.m, n, items), n <= vacancies_at_back(d), NEW r, r = insert_back(d, items)
    PROVE  Ends(d, s, f, r, Contents(d, s, f) \o values_of(d.m, n, items))
<1> DEFINE N == node_of(s)..node_of(f)
           E == s..(f - 1)
<1>0. /\ s \in Int /\ f \in Int /\ s <= f /\ IsDeque(d)
      /\ d.start = iterator(d, s) /\ d.finish = iterator(d, f) /\ Store(d, N, E)
      /\ node_of(s) \in Nat /\ node_of(f) \in Nat /\ node_of(s) <= node_of(f)
  BY DequeNodes DEF DequeAt
<1>1. PICK i \in Int, o \in Nat : /\ i = node_of(f) /\ o = offset_of(f) /\ o < BufferSize
                                  /\ f = base(i) + o /\ base(i) \in Int
  BY <1>0, AddressParts
<1>2. vacancies_at_back(d) = BufferSize - o - 1
  BY <1>0, <1>1, IteratorIs, DequeAssumption DEF vacancies_at_back, minus
<1>3. PICK g \in Int : g = f + n
  BY <1>0
<1>4. ASSUME NEW k \in 0..n
      PROVE  node_of(f + k) = i
  <2>1. n <= BufferSize - o - 1
    BY <1>2
  <2>2. 0 <= o + k /\ o + k < BufferSize /\ k \in Int /\ o \in Int
    BY <2>1, DequeAssumption
  <2> QED
    BY <1>0, <1>1, <2>2, SameBuffer
<1>5. node_of(g) = i
  BY <1>3, <1>4
<1>6. i \in N
  BY <1>0, <1>1
<1>7. Buildable(d, N, E, f, n, items)
  <2>1. ASSUME NEW k \in 1..n
        PROVE  node_of(f + k - 1) \in N /\ f + k - 1 \notin E
    <3>1. PICK l \in 0..n : l = k - 1 /\ f + l = f + k - 1
      BY <1>0
    <3>2. f + l \notin E
      BY <1>0
    <3> QED
      BY <1>4, <1>6, <3>1, <3>2
  <2> QED
    BY <2>1 DEF Buildable
<1>8. PICK F : F = f..(f + n - 1)
  OBVIOUS
<1>9. PICK e : e = build(d, iterator(d, f), items)
  OBVIOUS
<1>10. Built(d, e, N, E, F, f, n, items)
  <2> HIDE DEF N, E
  <2> QED
    BY <1>0, <1>7, <1>8, <1>9, BuildIs
<1>11. PICK h : h = iterator(d, g)
  OBVIOUS
<1>12. advance(d, d.finish, n) = h
  BY <1>0, <1>3, <1>11, AdvanceIs
<1>13. r = IF e.m.thrown THEN destroy_nodes(e, e.finish.node + 1, h.node + 1)
           ELSE [e EXCEPT !.finish = h]
  <2>1. reserve_elements_at_back(d, Len(items)) = d
    BY DEF reserve_elements_at_back
  <2> QED
    BY <1>0, <1>9, <1>12, <2>1 DEF insert_back
<1>14. Alike(d, e) /\ e.m.thrown \in BOOLEAN /\ Kept(d, e, E)
  BY <1>10 DEF Built
<1>15. IsDeque(e) /\ e.start = iterator(e, s) /\ e.finish = iterator(e, f) /\ h = iterator(e, g)
  BY <1>0, <1>11, <1>14, AlikeCells DEF Alike
<1>16. CASE e.m.thrown
  <2>1. Store(e, N, E)
    BY <1>10, <1>16 DEF Built
  <2>2. PICK j \in Int : j = i + 1
    OBVIOUS
  <2>3. e.finish.node + 1 = j /\ h.node + 1 = j
    <3>1. e.finish.node = node_of(f) /\ h.node = node_of(g)
      BY <1>15 DEF iterator
    <3> QED
      BY <1>1, <1>5, <2>2, <3>1
  <2>4. r = destroy_nodes(e, j, j)
    BY <1>13, <1>16, <2>3
  <2>5. PICK M : M = j..(j - 1)
    OBVIOUS
  <2>6. M = {}
    BY <2>5
  <2>7. Dropped(e, r, N, E, M)
    <3> HIDE DEF N, E
    <3>1. j <= j /\ M \subseteq N /\ \A a \in E : node_of(a) \notin M
      BY <2>6
    <3> QED
      BY <2>1, <2>4, <2>5, <3>1, DestroyNodesIs
  <2>8. Alike(e, r) /\ Store(r, N, E) /\ Kept(e, r, E) /\ r.m.thrown = e.m.thrown
    <3>1. N \ M = N
      BY <2>6
    <3> QED
      BY <2>7, <3>1 DEF Dropped
  <2>9. DequeAt(r, s, f)
    <3>1. r.start = iterator(r, s) /\ r.finish = iterator(r, f)
      BY <1>15, <2>8, AlikeCells DEF Alike
    <3> QED
      BY <1>0, <2>8, <3>1 DEF DequeAt
  <2>10. Kept(d, r, E)
    BY <1>14, <2>8 DEF Kept
  <2>11. Leaves(r, Contents(d, s, f))
    BY <2>9, <2>10, KeptContents
  <2> QED
    BY <1>16, <2>8, <2>11 DEF Ends
<1>17. CASE ~e.m.thrown
  <2>1. r = [e EXCEPT !.finish = h]
    BY <1>13, <1>17
  <2>2. /\ Store(e, N, E \cup F)
        /\ \A k \in 1..n : content(e, f + k - 1) = read(d.m, items[k])
    BY <1>10, <1>17 DEF Built
  <2>3. N = node_of(s)..node_of(g) /\ E \cup F = s..(g - 1) /\ s <= g
    <3>1. E \cup F = s..(g - 1) /\ s <= g
      BY <1>0, <1>3, <1>8
    <3> QED
      BY <1>1, <1>5, <3>1
  <2>4. DOMAIN r = DOMAIN e /\ r.m = e.m /\ r.map = e.map /\ r.start = e.start
        /\ r.finish = iterator(e, g)
    BY <1>15, <2>1 DEF IsDeque
  <2>5. FinishSet(e, r, s, g, N, E \cup F)
    <3> HIDE DEF N, E
    <3> QED
      BY <1>15, <2>2, <2>3, <2>4 DEF FinishSet
  <2>6. DequeAt(r, s, g) /\ r.m = e.m /\ \A a : content(r, a) = content(e, a)
    BY <1>0, <2>5, FinishIs
  <2>7. Kept(d, r, E)
    BY <1>14, <2>6 DEF Kept
  <2>8. PICK v : v = values_of(d.m, n, items)
    OBVIOUS
  <2>9. v \in Seq(Value) /\ Len(v) = n /\ \A k \in 1..n : v[k] = read(d.m, items[k])
    BY <2>8, ValuesAre
  <2>10. Holds(r, f, n, v)
    BY <2>2, <2>6, <2>9 DEF Holds
  <2>11. Leaves(r, Contents(d, s, f) \o v)
    BY <1>3, <2>6, <2>7, <2>9, <2>10, JoinedBack
  <2> QED
    BY <1>17, <2>6, <2>8, <2>11 DEF Ends
<1> QED
  BY <1>14, <1>16, <1>17

\* The nodes for a number of elements have room for them, and none is for none.
LEMMA NodesForIs ==
    ASSUME NEW w \in Int, 0 < w
    PROVE  /\ nodes_for(w) \in Nat /\ nodes_for(w) # 0
           /\ base(nodes_for(w)) - w \in 0..(BufferSize - 1) /\ base(nodes_for(w)) \in Int
<1>0. BufferSize \in Nat /\ BufferSize # 0
  BY DequeAssumption
<1>1. PICK a \in Int : a = w + BufferSize - 1
  BY <1>0
<1>2. PICK q \in Int, o \in Nat : /\ q = node_of(a) /\ o = offset_of(a) /\ o < BufferSize
                                  /\ a = base(q) + o /\ base(q) \in Int
  BY AddressParts
<1>3. nodes_for(w) = q
  BY <1>1, <1>2 DEF nodes_for, node_of
<1>4. PICK u \in Int : u = base(q)
  BY <1>2
<1>5. u = w + (BufferSize - 1 - o)
  BY <1>0, <1>1, <1>2, <1>4
<1>6. 0 < q
  <2>1. CASE q = 0
    <3>1. u = 0
      BY <1>4, <2>1, BaseSum
    <3> QED
      BY <1>0, <1>2, <1>5, <3>1
  <2>2. CASE q < 0
    <3>1. base(q) + BufferSize <= base(0) /\ base(0) = 0
      BY <2>2, BaseOrder, BaseSum
    <3> QED
      BY <1>0, <1>2, <1>4, <1>5, <3>1
  <2> QED
    BY <2>1, <2>2
<1>7. u - w \in 0..(BufferSize - 1)
  <2>1. o < BufferSize
    BY <1>2
  <2> QED
    BY ONLY <1>0, <1>5, <2>1, o \in Nat, w \in Int
<1>8. base(nodes_for(w)) = u
  BY <1>3, <1>4
<1>9. base(nodes_for(w)) - w \in 0..(BufferSize - 1)
  BY <1>7, <1>8
<1>10. q \in Nat /\ q # 0
  BY <1>6
<1> QED
  BY <1>3, <1>8, <1>9, <1>10

\* That many addresses in front of s is that many nodes in front of its node.
LEMMA NodesInFront ==
    ASSUME NEW s \in Int, NEW n \in Nat, NEW v, v = offset_of(s), v < n, NEW q, q = nodes_for(n - v)
    PROVE  q \in Nat /\ q # 0 /\ node_of(s - n) = node_of(s) - q
<1>1. PICK i \in Int, o \in Nat : /\ i = node_of(s) /\ o = offset_of(s) /\ o < BufferSize
                                  /\ s = base(i) + o /\ base(i) \in Int
  BY AddressParts
<1>2. PICK w \in Int : w = n - o /\ 0 < w
  BY <1>1
<1>3. q \in Nat /\ q # 0 /\ base(q) - w \in 0..(BufferSize - 1) /\ base(q) \in Int
  BY <1>1, <1>2, NodesForIs
<1>4. PICK u \in Int, t \in Int : u = base(q) /\ t = base(i)
  BY <1>1, <1>3
<1>5. PICK p \in Int : p = u - w /\ p \in 0..(BufferSize - 1)
  BY <1>3, <1>4
<1>6. PICK j \in Int : j = i - q
  BY <1>3
<1>7. base(j) = t - u
  BY <1>3, <1>4, <1>6, BaseSum
<1>8. node_of(base(j) + p) = j
  BY <1>5, AddressOf
<1>9. base(j) + p = s - n
  <2>1. s = t + o
    BY <1>1, <1>4
  <2>2. (t - u) + p = s - n
    BY ONLY <1>2, <1>5, <2>1, t \in Int, u \in Int, o \in Nat, n \in Nat
  <2> QED
    BY <1>7, <2>2
<1> QED
  BY <1>1, <1>3, <1>6, <1>8, <1>9

\* The deque is where it was, or further on, with buffers for n elements in front.
FrontReserved(d, r, s, f, n, x, y) ==
    /\ IsDeque(r) /\ r.start = iterator(r, x) /\ r.finish = iterator(r, y)
    /\ r.m.thrown = d.m.thrown /\ SameElements(d, s, f, r, x, y) /\ x <= y
    /\ Store(r, node_of(x - n)..node_of(y), x..(y - 1))

LEMMA ReserveNone ==
    ASSUME NEW d, NEW s, NEW f, DequeAt(d, s, f), NEW n \in Nat, NEW v, v = offset_of(s), n <= v
    PROVE  FrontReserved(d, d, s, f, n, s, f)
<1>0. s \in Int /\ f \in Int /\ s <= f /\ IsDeque(d)
  BY DequeNodes
<1>1. PICK o \in Nat : o = offset_of(s) /\ o < BufferSize
  BY <1>0, AddressParts
<1>2. PICK k \in Int : k = -n
  OBVIOUS
<1>3. 0 <= o + k /\ o + k < BufferSize /\ o \in Int /\ s + k = s - n
  BY <1>0, <1>1, <1>2, DequeAssumption
<1>4. node_of(s + k) = node_of(s)
  BY <1>0, <1>1, <1>3, SameBuffer
<1>5. node_of(s - n) = node_of(s)
  BY <1>3, <1>4
<1>6. SameElements(d, s, f, d, s, f)
  <2>1. \A a \in s..(f - 1) : a + (s - s) = a
    BY <1>0
  <2> QED
    BY <2>1 DEF SameElements
<1> QED
  BY <1>0, <1>5, <1>6 DEF FrontReserved, DequeAt

LEMMA ReserveSome ==
    ASSUME NEW d, NEW s, NEW f, DequeAt(d, s, f), NEW n \in Nat, f - s + n <= MaxSize,
           NEW v, v = offset_of(s), v < n, NEW q, q = nodes_for(n - v),
           NEW e, e = reserve_map_at_front(d, q), NEW r, r = with_nodes(e, q, e.start.node)
    PROVE  \E x, y \in Int : FrontReserved(d, r, s, f, n, x, y)
<1>0. s \in Int /\ f \in Int /\ s <= f /\ IsDeque(d)
  BY DequeNodes
<1>1. q \in Nat /\ q # 0 /\ node_of(s - n) = node_of(s) - q
  BY <1>0, NodesInFront
<1>2. PICK z \in Int : MapMoved(d, e, s, f, z, node_of(s) + z - q, node_of(f) + z)
  BY <1>1, ReserveFrontIs
<1>3. PICK x \in Int, y \in Int : x = s + base(z) /\ y = f + base(z) /\ base(z) \in Int
  <2>1. base(z) \in Int
    BY BaseSum
  <2> QED
    BY <1>0, <2>1
<1>4. /\ DequeAt(e, x, y) /\ node_of(x) = node_of(s) + z /\ node_of(y) = node_of(f) + z
  BY <1>2, <1>3, LeavesMoved
<1>5. /\ e.m = d.m /\ (node_of(s) + z - q)..(node_of(f) + z) \subseteq DOMAIN e.map
      /\ \A a \in s..(f - 1) : content(e, a + base(z)) = content(d, a)
  BY <1>2 DEF MapMoved
<1>6. PICK w \in Int : w = x - n
  OBVIOUS
<1>7. node_of(w) = node_of(x) - q
  <2>1. PICK a \in Int : a = s - n
    BY <1>0
  <2>2. node_of(a + base(z)) = node_of(a) + z
    BY AddressShifted
  <2>3. a + base(z) = w
    <3>1. PICK u \in Int : u = base(z)
      BY <1>3
    <3> QED
      BY <1>0, <1>3, <1>6, <2>1, <3>1
  <2>4. node_of(s) \in Int /\ node_of(a) = node_of(s) - q
    BY <1>0, <1>1, <2>1, AddressIs
  <2> QED
    BY <1>1, <1>4, <2>2, <2>3, <2>4
<1>8. PICK i \in Int, j \in Int, h \in Int : i = node_of(w) /\ j = node_of(x) /\ h = node_of(y)
  BY AddressIs
<1>9. PICK N, E : N = j..h /\ E = x..(y - 1)
  OBVIOUS
<1>10. Store(e, N, E) /\ e.start = iterator(e, x) /\ e.finish = iterator(e, y)
       /\ e.start.node = j /\ j <= h /\ x <= y
  BY <1>4, <1>8, <1>9, DequeNodes DEF DequeAt
<1>11. NodesCall(e, N, i, h, j, q)
  <2>1. i..h \subseteq DOMAIN e.map
    <3>1. node_of(s) + z - q = i /\ node_of(f) + z = h
      <4>1. node_of(s) + z = j /\ node_of(f) + z = h
        BY <1>4, <1>8
      <4>2. i = j - q
        BY <1>7, <1>8
      <4>3. PICK a \in Int : a = node_of(s)
        BY <1>0, AddressIs
      <4>4. a + z - q = i
        BY <1>1, <4>1, <4>2, <4>3
      <4> QED
        BY <4>1, <4>3, <4>4
    <3> QED
      BY <1>5, <3>1
  <2>2. w <= y /\ y - w <= MaxSize
    <3>1. y - w = f - s + n
      <4>1. PICK u \in Int : u = base(z)
        BY <1>3
      <4> QED
        BY <1>0, <1>3, <1>6, <4>1
    <3> QED
      BY <1>6, <1>10, <3>1
  <2>3. Cardinality(Block) \in Nat /\ h - i < Cardinality(Block)
    BY <1>8, <2>2, NodesBound
  <2> QED
    BY <1>7, <1>8, <1>9, <1>10, <2>1, <2>3 DEF NodesCall
<1>12. NodesAdded(e, r, i..h, E, i, j)
  <2>1. r = with_nodes(e, q, j)
    BY <1>10
  <2> QED
    BY <1>1, <1>10, <1>11, <2>1, WithNodesIs
<1>13. /\ Store(r, i..h, E) /\ Kept(e, r, E) /\ r.start = e.start /\ r.finish = e.finish
       /\ r.m.thrown = e.m.thrown /\ \A k : k \notin i..(j - 1) => slot(r, k) = slot(e, k)
  BY <1>12 DEF NodesAdded
<1>14. r.start = iterator(r, x) /\ r.finish = iterator(r, y)
  <2>1. slot(r, j) = slot(e, j) /\ slot(r, h) = slot(e, h)
    BY <1>10, <1>13
  <2>2. iterator(r, x) = iterator(e, x) /\ iterator(r, y) = iterator(e, y)
    BY <1>8, <2>1 DEF iterator, cell_at, block_of
  <2> QED
    BY <1>10, <1>13, <2>2
<1>15. SameElements(d, s, f, r, x, y)
  <2>1. y - x = f - s /\ x - s = base(z)
    <3>1. PICK u \in Int : u = base(z)
      BY <1>3
    <3> QED
      BY <1>0, <1>3, <3>1
  <2>2. ASSUME NEW a \in s..(f - 1)
        PROVE  content(r, a + (x - s)) = content(d, a)
    <3>1. a + base(z) \in E
      <4>1. PICK u \in Int : u = base(z)
        BY <1>3
      <4>2. a + u \in x..(y - 1)
        BY <1>0, <1>3, <4>1
      <4> QED
        BY <1>9, <4>1, <4>2
    <3> QED
      BY <1>5, <1>13, <2>1, <3>1 DEF Kept
  <2> QED
    BY <2>1, <2>2 DEF SameElements
<1>16. FrontReserved(d, r, s, f, n, x, y)
  <2>1. Store(r, node_of(x - n)..node_of(y), x..(y - 1))
    BY <1>6, <1>8, <1>9, <1>13
  <2>2. IsDeque(r)
    BY <2>1 DEF Store
  <2> QED
    BY <1>5, <1>10, <1>13, <1>14, <1>15, <2>1, <2>2 DEF FrontReserved
<1> QED
  BY <1>16

\* Elements are reserved in front of start.
LEMMA ReserveElementsIs ==
    ASSUME NEW d, NEW s, NEW f, DequeAt(d, s, f), NEW n \in Nat, f - s + n <= MaxSize,
           NEW r, r = reserve_elements_at_front(d, n)
    PROVE  \E x, y \in Int : FrontReserved(d, r, s, f, n, x, y)
<1>0. s \in Int /\ f \in Int /\ IsDeque(d) /\ d.start = iterator(d, s)
  BY DequeNodes DEF DequeAt
<1>1. PICK v \in Nat : v = offset_of(s)
  BY <1>0, AddressParts
<1>2. minus(d.start.cur, d.start.first) = v
  BY <1>0, <1>1, PlaceIs
<1>3. PICK q : q = nodes_for(n - v)
  OBVIOUS
<1>4. PICK e : e = reserve_map_at_front(d, q)
  OBVIOUS
<1>5. r = IF n <= v THEN d ELSE with_nodes(e, q, e.start.node)
  BY <1>2, <1>3, <1>4 DEF reserve_elements_at_front
<1>6. CASE n <= v
  <2>1. FrontReserved(d, r, s, f, n, s, f)
    BY <1>1, <1>5, <1>6, ReserveNone
  <2> QED
    BY <1>0, <2>1
<1>7. CASE ~(n <= v)
  <2>1. v < n /\ r = with_nodes(e, q, e.start.node)
    BY <1>5, <1>7
  <2> QED
    BY <1>1, <1>3, <1>4, <2>1, ReserveSome
<1> QED
  BY <1>6, <1>7

\* Elements of the caller are built in the cells reserved in front of start.
FrontCall(e, b, r, x, n, items) ==
    /\ b = build(e, iterator(e, x - n), items)
    /\ r = IF b.m.thrown THEN destroy_nodes(b, node_of(x - n), node_of(x))
           ELSE [b EXCEPT !.start = iterator(e, x - n)]

LEMMA BuildFrontIs ==
    ASSUME NEW d, NEW s, NEW f, DequeAt(d, s, f), ~d.m.thrown,
           NEW items \in Seq(Value), NEW n \in Nat, n = Len(items),
           NEW x \in Int, NEW y \in Int, NEW e, FrontReserved(d, e, s, f, n, x, y),
           NEW b, NEW r, FrontCall(e, b, r, x, n, items)
    PROVE  Ends(d, s, f, r, items \o Contents(d, s, f))
<1>1. PICK w \in Int : w = x - n
  OBVIOUS
<1>2. PICK i \in Int, j \in Int, h \in Int : i = node_of(w) /\ j = node_of(x) /\ h = node_of(y)
  BY AddressIs
<1>3. PICK N, E, F : N = i..h /\ E = x..(y - 1) /\ F = w..(w + n - 1)
  OBVIOUS
<1>4. /\ IsDeque(e) /\ e.start = iterator(e, x) /\ e.finish = iterator(e, y)
      /\ e.m.thrown = d.m.thrown /\ SameElements(d, s, f, e, x, y) /\ x <= y /\ Store(e, N, E)
  BY <1>1, <1>2, <1>3 DEF FrontReserved
<1>5. w <= x /\ i <= j /\ j <= h
  <2>1. w <= x
    BY <1>1
  <2> QED
    BY <1>2, <1>4, <2>1, AddressOrder
<1>6. /\ b = build(e, iterator(e, w), items)
      /\ r = IF b.m.thrown THEN destroy_nodes(b, i, j) ELSE [b EXCEPT !.start = iterator(e, w)]
  BY <1>1, <1>2 DEF FrontCall
<1>7. Readable(e.m, n, items) /\ \A k \in 1..n : read(e.m, items[k]) = items[k]
  <2>1. \A k \in 1..n : items[k] \in Value
    OBVIOUS
  <2> QED
    BY <2>1 DEF Readable, read
<1>8. Buildable(e, N, E, w, n, items)
  <2>1. ASSUME NEW k \in 1..n
        PROVE  node_of(w + k - 1) \in N /\ w + k - 1 \notin E
    <3>1. PICK a \in Int : a = w + k - 1
      OBVIOUS
    <3>2. w <= a /\ a <= x /\ a < x
      BY <1>1, <3>1
    <3>3. PICK c \in Int : c = node_of(a)
      BY AddressIs
    <3>4. i <= c /\ c <= j
      BY <1>2, <3>2, <3>3, AddressOrder
    <3>5. c \in N /\ a \notin E
      BY <1>3, <1>5, <3>2, <3>4
    <3> QED
      BY <3>1, <3>3, <3>5
  <2> QED
    BY <1>7, <2>1 DEF Buildable
<1>9. Built(e, b, N, E, F, w, n, items)
  BY <1>3, <1>4, <1>6, <1>8, BuildIs
<1>10. Alike(e, b) /\ b.m.thrown \in BOOLEAN /\ Kept(e, b, E)
  BY <1>9 DEF Built
<1>11. /\ IsDeque(b) /\ b.start = iterator(b, x) /\ b.finish = iterator(b, y)
       /\ iterator(e, w) = iterator(b, w)
  BY <1>4, <1>10, AlikeCells DEF Alike
<1>12. y - x = f - s /\ \A a \in s..(f - 1) : content(e, a + (x - s)) = content(d, a)
  BY <1>4 DEF SameElements
<1>13. s \in Int /\ f \in Int /\ \A a \in s..(f - 1) : a + (x - s) \in E
  BY <1>3, <1>12, DequeNodes, SMTT(30)
<1>14. CASE b.m.thrown
  <2>1. Store(b, N, E) /\ r = destroy_nodes(b, i, j)
    BY <1>6, <1>9, <1>14 DEF Built
  <2>2. PICK M : M = i..(j - 1)
    OBVIOUS
  <2>3. M \subseteq N /\ N \ M = j..h
    BY <1>3, <1>5, <2>2
  <2>4. ASSUME NEW a \in E
        PROVE  node_of(a) \notin M
    <3>1. a \in Int /\ x <= a
      BY <1>3
    <3>2. node_of(a) \in Int /\ j <= node_of(a)
      BY <1>2, <3>1, AddressOrder, AddressIs
    <3> QED
      BY <2>2, <3>2
  <2>5. Dropped(b, r, N, E, M)
    BY <1>5, <2>1, <2>2, <2>3, <2>4, DestroyNodesIs
  <2>6. Alike(b, r) /\ Store(r, j..h, E) /\ Kept(b, r, E) /\ r.m.thrown = b.m.thrown
    BY <2>3, <2>5 DEF Dropped
  <2>7. DequeAt(r, x, y)
    <3>1. r.start = iterator(r, x) /\ r.finish = iterator(r, y)
      BY <1>11, <2>6, AlikeCells DEF Alike
    <3> QED
      BY <1>2, <1>3, <1>4, <2>6, <3>1 DEF DequeAt
  <2>8. SameElements(d, s, f, r, x, y)
    BY <1>10, <1>12, <1>13, <2>6 DEF SameElements, Kept
  <2>9. Contents(r, x, y) = Contents(d, s, f)
    BY <1>13, <2>8, ContentsEqual
  <2>10. Leaves(r, Contents(d, s, f))
    BY <2>7, <2>9 DEF Leaves
  <2> QED
    BY <1>14, <2>6, <2>10 DEF Ends
<1>15. CASE ~b.m.thrown
  <2>1. r = [b EXCEPT !.start = iterator(b, w)]
    BY <1>6, <1>11, <1>15
  <2>2. /\ Store(b, N, E \cup F)
        /\ \A k \in 1..n : content(b, w + k - 1) = read(e.m, items[k])
    BY <1>9, <1>15 DEF Built
  <2>3. N = node_of(w)..node_of(y) /\ E \cup F = w..(y - 1) /\ w <= y
    <3>1. E \cup F = w..(y - 1) /\ w <= y
      BY <1>1, <1>3, <1>4
    <3> QED
      BY <1>2, <1>3, <3>1
  <2>4. DOMAIN r = DOMAIN b /\ r.m = b.m /\ r.map = b.map /\ r.finish = b.finish
        /\ r.start = iterator(b, w)
    BY <1>11, <2>1 DEF IsDeque
  <2>5. StartSet(b, r, w, y, N, E \cup F)
    BY <1>11, <2>2, <2>3, <2>4 DEF StartSet
  <2>6. DequeAt(r, w, y) /\ r.m = b.m /\ \A a : content(r, a) = content(b, a)
    BY <2>5, StartIs
  <2>7. SameElements(d, s, f, r, x, y)
    BY <1>10, <1>12, <1>13, <2>6 DEF SameElements, Kept
  <2>8. Holds(r, w, n, items)
    BY <1>7, <2>2, <2>6 DEF Holds
  <2>9. Leaves(r, items \o Contents(d, s, f))
    BY <1>1, <2>6, <2>7, <2>8, JoinedFront
  <2> QED
    BY <1>15, <2>6, <2>9 DEF Ends
<1> QED
  BY <1>10, <1>14, <1>15

\* insert of a range at the front
LEMMA RangeInsertFrontIs ==
    ASSUME NEW d, NEW s, NEW f, DequeAt(d, s, f), ~d.m.thrown,
           NEW items \in Seq(Value), NEW n \in Nat, n = Len(items), f - s + n <= MaxSize,
           NEW r, r = range_insert_front(d, items)
    PROVE  Ends(d, s, f, r, items \o Contents(d, s, f))
<1>1. PICK e : e = reserve_elements_at_front(d, n)
  OBVIOUS
<1>2. PICK x \in Int, y \in Int : FrontReserved(d, e, s, f, n, x, y)
  BY <1>1, ReserveElementsIs
<1>3. IsDeque(e) /\ e.start = iterator(e, x)
  BY <1>2 DEF FrontReserved
<1>4. PICK it : it = iterator(e, x - n)
  OBVIOUS
<1>5. advance(e, e.start, -n) = it
  <2>1. PICK k \in Int : k = -n /\ x + k = x - n
    OBVIOUS
  <2>2. advance(e, iterator(e, x), k) = iterator(e, x + k)
    BY <1>3, AdvanceIs
  <2> QED
    BY <1>3, <1>4, <2>1, <2>2
<1>6. PICK b : b = build(e, it, items)
  OBVIOUS
<1>7. r = IF b.m.thrown THEN destroy_nodes(b, it.node, b.start.node) ELSE [b EXCEPT !.start = it]
  BY <1>1, <1>5, <1>6 DEF range_insert_front
<1>8. it.node = node_of(x - n) /\ b.start.node = node_of(x)
  <2>1. b.start = e.start
    BY <1>6 DEF build, with
  <2> QED
    BY <1>3, <1>4, <2>1 DEF iterator
<1>9. FrontCall(e, b, r, x, n, items)
  BY <1>4, <1>6, <1>7, <1>8 DEF FrontCall
<1> QED
  BY <1>2, <1>9, BuildFrontIs

\* _M_fill_insert of no elements at the front changes nothing.
LEMMA FillNoneIs ==
    ASSUME NEW d, NEW s, NEW f, DequeAt(d, s, f), ~d.m.thrown, f - s <= MaxSize,
           NEW items \in Seq(Value), Len(items) = 0, NEW r, r = fill_insert_front(d, items)
    PROVE  Ends(d, s, f, r, items \o Contents(d, s, f))
<1>0. s \in Int /\ f \in Int
  BY DequeNodes
<1>1. PICK n \in Nat, k \in Int : n = 0 /\ k = 0 /\ k = -n
  OBVIOUS
<1>2. n = Len(items) /\ f - s + n <= MaxSize
  BY <1>0, <1>1, DequeAssumption
<1>3. PICK e : e = reserve_elements_at_front(d, n)
  OBVIOUS
<1>4. PICK x \in Int, y \in Int : FrontReserved(d, e, s, f, n, x, y)
  BY <1>2, <1>3, ReserveElementsIs
<1>5. IsDeque(e) /\ e.start = iterator(e, x)
  BY <1>4 DEF FrontReserved
<1>6. advance(e, e.start, k) = e.start
  <2>1. x + k = x
    BY <1>1
  <2>2. advance(e, iterator(e, x), k) = iterator(e, x + k)
    BY <1>5, AdvanceIs
  <2> QED
    BY <1>5, <2>1, <2>2
<1>7. advance(e, e.start, -Len(items)) = e.start
  BY <1>1, <1>2, <1>6
<1>8. PICK b : b = build(e, e.start, items)
  OBVIOUS
<1>9. PICK m : b = with(e, m)
  BY <1>8 DEF build
<1>10. b.start = e.start /\ [b EXCEPT !.start = e.start] = b
  <2>1. b.start = e.start
    BY <1>9 DEF with
  <2>2. b = [i \in DOMAIN e |-> b[i]]
    BY <1>9 DEF with
  <2>3. [b EXCEPT !.start = b.start] = b
    BY <2>2
  <2> QED
    BY <2>1, <2>3
<1>11. PICK w : w = range_insert_front(d, items)
  OBVIOUS
<1>12. w = IF b.m.thrown THEN destroy_nodes(b, e.start.node, b.start.node)
           ELSE [b EXCEPT !.start = e.start]
  BY <1>2, <1>3, <1>7, <1>8, <1>11 DEF range_insert_front
<1>13. r = IF b.m.thrown THEN destroy_nodes(b, e.start.node, b.start.node) ELSE b
  BY <1>2, <1>3, <1>7, <1>8 DEF fill_insert_front
<1>14. r = w
  BY <1>10, <1>12, <1>13
<1>15. Ends(d, s, f, w, items \o Contents(d, s, f))
  BY <1>2, <1>11, RangeInsertFrontIs
<1> QED
  BY <1>14, <1>15

-----------------------------------------------------------------------------
\* The invariant between calls

\* What the next call finds: nothing is thrown, and only the pointers in use are in the map.
settled(d) ==
    [m |-> [cells |-> d.m.cells, fuel |-> 0, thrown |-> FALSE, fault |-> d.m.fault],
     map |-> in_use(d), start |-> d.start, finish |-> d.finish]

LEMMA SettledIs ==
    ASSUME NEW d, NEW s, NEW f, DequeAt(d, s, f)
    PROVE  DequeAt(settled(d), s, f) /\ Contents(settled(d), s, f) = Contents(d, s, f)
<1>1. /\ s \in Int /\ f \in Int /\ s <= f /\ IsDeque(d) /\ IsMemory(d.m) /\ ~d.m.fault
      /\ d.start.node = node_of(s) /\ d.finish.node = node_of(f)
      /\ node_of(s)..node_of(f) \subseteq DOMAIN d.map
      /\ node_of(s) \in Nat /\ node_of(f) \in Nat /\ node_of(s) <= node_of(f)
  BY DequeNodes
<1>2. /\ d.start = iterator(d, s) /\ d.finish = iterator(d, f)
      /\ Store(d, node_of(s)..node_of(f), s..(f - 1))
  BY DEF DequeAt
<1>3. PICK x : x = [d EXCEPT !.map = in_use(d)]
  OBVIOUS
<1>4. /\ DOMAIN x = {"m", "map", "start", "finish"} /\ x.m = d.m /\ x.map = in_use(d)
      /\ x.start = d.start /\ x.finish = d.finish
  BY <1>1, <1>3 DEF IsDeque
<1>5. PICK N : N = node_of(s)..node_of(f)
  OBVIOUS
<1>6. PICK E : E = s..(f - 1)
  OBVIOUS
<1>7. /\ DOMAIN x.map = DOMAIN d.map
      /\ \A k \in DOMAIN d.map : x.map[k] = IF k \in N THEN d.map[k] ELSE null
  BY <1>1, <1>4, <1>5 DEF in_use
<1>8. N \subseteq DOMAIN d.map /\ Store(d, N, E) /\ N \subseteq Int /\ E \subseteq Int
  BY <1>1, <1>2, <1>5, <1>6
<1>9. null \in Pointer /\ null[2] = 0
  BY DEF null, Pointer
<1>10. IsDeque(x)
  BY <1>1, <1>4, <1>7, <1>9 DEF IsDeque
<1>11. \A k \in N : slot(x, k) = slot(d, k)
  BY <1>7, <1>8 DEF slot
<1>12. Shifted(d, x, N, E, 0, N, E)
  <2>1. \A k \in Int : k - 0 = k
    OBVIOUS
  <2>2. \A k \in Int : k + 0 = k
    OBVIOUS
  <2>3. base(0) = 0
    BY BaseSum
  <2>4. \A k \in N : block_of(x, k + 0) = block_of(d, k)
    BY <1>8, <1>11, <2>2 DEF block_of
  <2>5. N \subseteq DOMAIN x.map
    BY <1>7, <1>8
  <2> QED
    BY <1>4, <1>8, <1>10, <2>1, <2>3, <2>4, <2>5 DEF Shifted
<1>13. Store(x, N, E) /\ \A a \in Int : node_of(a) \in N => content(x, a + base(0)) = content(d, a)
  BY <1>8, <1>12, StoreShifted
<1>14. node_of(s) \in N /\ node_of(f) \in N
  BY <1>1, <1>5
<1>15. x.start = iterator(x, s) /\ x.finish = iterator(x, f)
  BY <1>2, <1>4, <1>11, <1>14 DEF iterator, cell_at, block_of
<1>16. DequeAt(x, s, f)
  BY <1>1, <1>5, <1>6, <1>13, <1>15 DEF DequeAt
<1>17. Contents(x, s, f) = Contents(d, s, f)
  <2>1. \A a \in s..(f - 1) : content(x, a) = content(d, a)
    <3> SUFFICES ASSUME NEW a \in s..(f - 1) PROVE content(x, a) = content(d, a)
      OBVIOUS
    <3>1. a \in Int /\ a \in s..f
      BY <1>1
    <3>2. node_of(a) \in N
      BY <3>1, <1>5, DequeNodes
    <3>3. base(0) = 0 /\ a + 0 = a
      BY <3>1, BaseSum
    <3> QED
      BY <3>1, <3>2, <3>3, <1>13
  <2>2. Kept(d, x, s..(f - 1))
    BY <2>1 DEF Kept
  <2> QED
    BY <2>2, <1>16, KeptContents
<1>18. PICK r : r = settled(d)
  OBVIOUS
<1>19. /\ DOMAIN r = {"m", "map", "start", "finish"} /\ r.map = in_use(d) /\ r.start = d.start
       /\ r.finish = d.finish /\ r.m.cells = d.m.cells /\ r.m.fuel = 0 /\ r.m.thrown = FALSE
       /\ r.m.fault = d.m.fault /\ DOMAIN r.m = {"cells", "fuel", "thrown", "fault"}
  BY <1>18 DEF settled
<1>20. Alike(x, r)
  BY <1>4, <1>10, <1>19 DEF Alike, IsDeque
<1>21. SameCells(x.m, r.m)
  <2>1. DOMAIN r.m.cells = {0} \cup Block /\ r.m.fault \in BOOLEAN
    BY <1>1, <1>19 DEF IsMemory
  <2>2. r.m.thrown \in BOOLEAN
    BY <1>19, Zenon
  <2>3. r.m.fuel \in Nat
    BY <1>19
  <2>4. IsMemory(r.m)
    BY <1>19, <2>1, <2>2, <2>3 DEF IsMemory
  <2> QED
    BY <1>4, <1>19, <2>4 DEF SameCells
<1> QED
  BY <1>16, <1>17, <1>18, <1>20, <1>21, LeavesAlike

-----------------------------------------------------------------------------
\* The elements are where the iterators say, each in a buffer of its own node; they are
\* those that the deque is to hold.
DequeInvariant ==
    \E s, f \in Int : DequeAt(operand(0), s, f) /\ want = Contents(operand(0), s, f)

\* A call finds the deque at these addresses.
Found(fuel, s, f) ==
    /\ s \in Int /\ f \in Int
    /\ DequeAt(operand(fuel), s, f) /\ want = Contents(operand(fuel), s, f)
    /\ DequeAt(operand(0), s, f)
    /\ operand(fuel).m.thrown = FALSE
    /\ want \in Seq(Value) /\ Len(want) = f - s /\ s <= f

LEMMA OperandIs ==
    ASSUME DequeInvariant, NEW fuel \in Nat
    PROVE  \E s, f \in Int : Found(fuel, s, f)
<1>1. PICK s \in Int, f \in Int : DequeAt(operand(0), s, f) /\ want = Contents(operand(0), s, f)
  BY DEF DequeInvariant
<1>2. PICK d : d = operand(0)
  OBVIOUS
<1>3. PICK r : r = operand(fuel)
  OBVIOUS
<1>4. IsDeque(d) /\ IsMemory(d.m) /\ s <= f
  BY <1>1, <1>2, DequeNodes
<1>5. Alike(d, r)
  BY <1>2, <1>3, <1>4 DEF Alike, IsDeque, operand
<1>6. SameCells(d.m, r.m) /\ r.m.thrown = FALSE
  BY <1>2, <1>3, <1>4 DEF SameCells, IsMemory, operand
<1>7. DequeAt(r, s, f) /\ Contents(r, s, f) = Contents(d, s, f)
  BY <1>1, <1>2, <1>5, <1>6, LeavesAlike
<1>8. want \in Seq(Value) /\ Len(want) = f - s
  BY <1>1, ContentsAre
<1>9. Found(fuel, s, f)
  BY <1>1, <1>2, <1>3, <1>4, <1>6, <1>7, <1>8 DEF Found
<1> QED
  BY <1>9

\* Whatever a call leaves is what the next one finds.
LEMMA SettledLeaves ==
    ASSUME NEW d, NEW q, Leaves(d, q)
    PROVE  Leaves(settled(d), q)
<1>1. PICK s \in Int, f \in Int : DequeAt(d, s, f) /\ q = Contents(d, s, f)
  BY DEF Leaves
<1>2. DequeAt(settled(d), s, f) /\ Contents(settled(d), s, f) = Contents(d, s, f)
  BY <1>1, SettledIs
<1> QED
  BY <1>1, <1>2 DEF Leaves

LEMMA DoneKeeps ==
    ASSUME NEW d, NEW goal, NEW in_place \in BOOLEAN, done(d, goal, in_place),
           ~d.m.thrown => Leaves(d, goal),
           d.m.thrown /\ in_place => Leaves(d, contents_of(d)),
           d.m.thrown /\ ~in_place => Leaves(d, want)
    PROVE  DequeInvariant'
<1>1. Leaves(d, want')
  <2>1. CASE ~d.m.thrown
    BY <2>1 DEF done
  <2>2. CASE d.m.thrown /\ in_place
    BY <2>2 DEF done
  <2>3. CASE d.m.thrown /\ ~in_place
    BY <2>3 DEF done
  <2> QED
    BY <2>1, <2>2, <2>3
<1>2. operand(0)' = settled(d)
  BY DEF done, operand, settled
<1>3. Leaves(settled(d), want')
  BY <1>1, SettledLeaves
<1>4. PICK s \in Int, f \in Int : DequeAt(settled(d), s, f) /\ want' = Contents(settled(d), s, f)
  BY <1>3 DEF Leaves
<1>5. PICK e : e = [m |-> [cells |-> cells', fuel |-> 0, thrown |-> FALSE, fault |-> fault'],
                    map |-> map', start |-> start', finish |-> finish']
  OBVIOUS
<1>6. \E t, g \in Int : DequeAt(e, t, g) /\ want' = Contents(e, t, g)
  BY <1>2, <1>4, <1>5 DEF operand
<1> QED
  BY <1>5, <1>6 DEF DequeInvariant, operand

\* A call that throws and leaves the deque as it was
LEMMA DoneAtEnds ==
    ASSUME NEW fuel, NEW s, NEW f, Found(fuel, s, f), NEW d, NEW goal, done(d, goal, FALSE),
           Ends(operand(fuel), s, f, d, goal)
    PROVE  DequeInvariant'
<1>1. ~d.m.thrown => Leaves(d, goal)
  BY DEF Ends
<1>2. d.m.thrown => Leaves(d, want)
  BY DEF Ends, Found
<1> QED
  BY <1>1, <1>2, DoneKeeps

-----------------------------------------------------------------------------
\* One lemma for each call: it keeps the invariant

LEMMA PositionIs ==
    ASSUME NEW fuel, NEW s, NEW f, Found(fuel, s, f), NEW k \in Int
    PROVE  /\ position(k) = iterator(operand(fuel), s + k)
           /\ position(k).cur = cell_at(operand(fuel), s + k)
<1>1. s \in Int /\ DequeAt(operand(0), s, f) /\ DequeAt(operand(fuel), s, f)
  BY DEF Found
<1>2. PICK d : d = operand(0)
  OBVIOUS
<1>3. PICK r : r = operand(fuel)
  OBVIOUS
<1>4. IsDeque(d) /\ d.start = iterator(d, s) /\ d.start = start
  BY <1>1, <1>2, DequeNodes DEF DequeAt, operand
<1>5. IsDeque(r) /\ r.start = start
  BY <1>1, <1>3, DequeNodes DEF operand
<1>6. Alike(d, r)
  BY <1>2, <1>3, <1>5 DEF Alike, operand
<1>7. PICK a \in Int : a = s + k
  BY <1>1
<1>8. advance(d, iterator(d, s), k) = iterator(d, a)
  BY <1>1, <1>4, <1>7, AdvanceIs
<1>9. iterator(r, a) = iterator(d, a)
  BY <1>6, AlikeCells
<1>10. position(k) = iterator(r, a)
  BY <1>2, <1>4, <1>8, <1>9 DEF position
<1>11. position(k).cur = cell_at(r, a)
  BY <1>5, <1>10, PlaceIs
<1> QED
  BY <1>3, <1>7, <1>10, <1>11

\* A reference reads an element, with any fuel the same.
LEMMA ReferenceIs ==
    ASSUME NEW fuel, NEW s, NEW f, Found(fuel, s, f), NEW t \in Reference
    PROVE  /\ value(t) \in Value /\ value(t) = read(operand(fuel).m, t)
           /\ t \in Value \cup Pointer
<1>1. s \in Int /\ f \in Int /\ DequeAt(operand(0), s, f) /\ DequeAt(operand(fuel), s, f)
  BY DEF Found
<1>2. PICK r : r = operand(fuel)
  OBVIOUS
<1>3. r.m.cells = operand(0).m.cells
  BY <1>2 DEF operand
<1>4. value(t) = read(r.m, t)
  BY <1>3 DEF value, read, content_of, in_block
<1>5. CASE t \in Value
  BY <1>2, <1>4, <1>5 DEF read
<1>6. CASE t \notin Value
  <2>1. length(operand(0)) = f - s
    BY <1>1, LengthIs
  <2>2. PICK k \in 0..(f - s - 1) : t = position(k).cur
    BY <1>6, <2>1 DEF Reference
  <2>3. k \in Int /\ k >= 0 /\ k < f - s
    BY <1>1, <2>2
  <2>4. PICK a \in Int : a = s + k
    BY <1>1, <2>3
  <2>5. t = cell_at(r, a)
    BY <1>2, <2>2, <2>3, <2>4, PositionIs
  <2>6. a \in s..f /\ a \in s..(f - 1)
    BY <1>1, <2>3, <2>4
  <2>7. node_of(a) \in node_of(s)..node_of(f)
    BY <1>1, <2>6, DequeNodes
  <2>8. Store(r, node_of(s)..node_of(f), s..(f - 1))
    BY <1>1, <1>2 DEF DequeAt
  <2>9. PICK b \in Block, o \in Nat : CellThere(r, a, b, o)
    BY <2>4, <2>7, <2>8, CellIs
  <2>10. t \in Pointer
    BY <2>5, <2>9 DEF CellThere
  <2>11. content(r, a) \in Value
    BY <2>4, <2>6, <2>7, <2>8 DEF Store
  <2>12. read(r.m, t) = content(r, a)
    BY <1>6, <2>5 DEF read, content
  <2> QED
    BY <1>2, <1>4, <2>10, <2>11, <2>12
<1> QED
  BY <1>5, <1>6

-----------------------------------------------------------------------------
LEMMA PushBackStep ==
    ASSUME DequeInvariant, NEW fuel \in Nat, NEW t \in Reference, push_back(t, fuel)
    PROVE  DequeInvariant'
<1>1. PICK s \in Int, f \in Int : Found(fuel, s, f)
  BY OperandIs
<1>2. PICK d : d = push_back_at(operand(fuel), t)
  OBVIOUS
<1>3. done(d, Append(want, value(t)), FALSE) /\ Len(want) < MaxSize
  BY <1>2 DEF push_back
<1>4. /\ DequeAt(operand(fuel), s, f) /\ ~operand(fuel).m.thrown /\ Len(want) = f - s
      /\ want = Contents(operand(fuel), s, f)
  BY <1>1 DEF Found
<1>5. f + 1 - s <= MaxSize
  BY <1>3, <1>4, DequeAssumption
<1>6. read(operand(fuel).m, t) \in Value /\ value(t) = read(operand(fuel).m, t)
  BY <1>1, ReferenceIs
<1>7. Ends(operand(fuel), s, f, d, Append(Contents(operand(fuel), s, f), read(operand(fuel).m, t)))
  BY <1>2, <1>4, <1>5, <1>6, PushBackIs
<1>8. Ends(operand(fuel), s, f, d, Append(want, value(t)))
  BY <1>4, <1>6, <1>7
<1> QED
  BY <1>1, <1>3, <1>8, DoneAtEnds

LEMMA PushFrontStep ==
    ASSUME DequeInvariant, NEW fuel \in Nat, NEW t \in Reference, push_front(t, fuel)
    PROVE  DequeInvariant'
<1>1. PICK s \in Int, f \in Int : Found(fuel, s, f)
  BY OperandIs
<1>2. PICK d : d = push_front_at(operand(fuel), t)
  OBVIOUS
<1>3. done(d, << value(t) >> \o want, FALSE) /\ Len(want) < MaxSize
  BY <1>2 DEF push_front
<1>4. /\ DequeAt(operand(fuel), s, f) /\ ~operand(fuel).m.thrown /\ Len(want) = f - s
      /\ want = Contents(operand(fuel), s, f)
  BY <1>1 DEF Found
<1>5. f + 1 - s <= MaxSize
  BY <1>3, <1>4, DequeAssumption
<1>6. read(operand(fuel).m, t) \in Value /\ value(t) = read(operand(fuel).m, t)
  BY <1>1, ReferenceIs
<1>7. Ends(operand(fuel), s, f, d, << read(operand(fuel).m, t) >> \o Contents(operand(fuel), s, f))
  BY <1>2, <1>4, <1>5, <1>6, PushFrontIs
<1>8. Ends(operand(fuel), s, f, d, << value(t) >> \o want)
  BY <1>4, <1>6, <1>7
<1> QED
  BY <1>1, <1>3, <1>8, DoneAtEnds

LEMMA PopBackStep ==
    ASSUME DequeInvariant, pop_back
    PROVE  DequeInvariant'
<1>1. PICK s \in Int, f \in Int : Found(0, s, f)
  BY 0 \in Nat, OperandIs
<1>2. PICK d : d = pop_back_at(operand(0))
  OBVIOUS
<1>3. done(d, SubSeq(want, 1, Len(want) - 1), FALSE) /\ want # << >>
  BY <1>2 DEF pop_back
<1>4. /\ DequeAt(operand(0), s, f) /\ operand(0).m.thrown = FALSE /\ Len(want) = f - s
      /\ want = Contents(operand(0), s, f) /\ want \in Seq(Value) /\ s <= f
  BY <1>1 DEF Found
<1>5. s < f
  BY <1>3, <1>4
<1>6. d.m.thrown = FALSE /\ Leaves(d, SubSeq(Contents(operand(0), s, f), 1, f - s - 1))
  BY <1>2, <1>4, <1>5, PopBackIs
<1>7. Leaves(d, SubSeq(want, 1, Len(want) - 1))
  BY <1>4, <1>6
<1> QED
  BY <1>3, <1>6, <1>7, DoneKeeps

LEMMA PopFrontStep ==
    ASSUME DequeInvariant, pop_front
    PROVE  DequeInvariant'
<1>1. PICK s \in Int, f \in Int : Found(0, s, f)
  BY 0 \in Nat, OperandIs
<1>2. PICK d : d = pop_front_at(operand(0))
  OBVIOUS
<1>3. done(d, Tail(want), FALSE) /\ want # << >>
  BY <1>2 DEF pop_front
<1>4. /\ DequeAt(operand(0), s, f) /\ operand(0).m.thrown = FALSE /\ Len(want) = f - s
      /\ want = Contents(operand(0), s, f) /\ want \in Seq(Value) /\ s <= f
  BY <1>1 DEF Found
<1>5. s < f
  BY <1>3, <1>4
<1>6. d.m.thrown = FALSE /\ Leaves(d, Tail(Contents(operand(0), s, f)))
  BY <1>2, <1>4, <1>5, PopFrontIs
<1> QED
  BY <1>3, <1>4, <1>6, DoneKeeps

LEMMA ClearStep ==
    ASSUME DequeInvariant, clear
    PROVE  DequeInvariant'
<1>1. PICK s \in Int, f \in Int : Found(0, s, f)
  BY 0 \in Nat, OperandIs
<1>2. PICK d : d = clear_all(operand(0))
  OBVIOUS
<1>3. done(d, << >>, FALSE)
  BY <1>2 DEF clear
<1>4. DequeAt(operand(0), s, f) /\ operand(0).m.thrown = FALSE
  BY <1>1 DEF Found
<1>5. d.m.thrown = FALSE /\ Leaves(d, << >>)
  BY <1>2, <1>4, ClearIs
<1> QED
  BY <1>3, <1>5, DoneKeeps

LEMMA EraseStep ==
    ASSUME DequeInvariant, NEW fuel \in Nat, NEW k \in DOMAIN want, erase(k, fuel)
    PROVE  DequeInvariant'
<1>1. PICK s \in Int, f \in Int : Found(fuel, s, f)
  BY OperandIs
<1>2. PICK d : d = erase_at(operand(fuel), position(k - 1))
  OBVIOUS
<1>3. PICK goal : goal = IF k = Len(want) THEN SubSeq(want, 1, k - 1) ELSE contents_of(d)
  OBVIOUS
<1>4. done(d, goal, TRUE)
  BY <1>2, <1>3 DEF erase
<1>5. /\ DequeAt(operand(fuel), s, f) /\ ~operand(fuel).m.thrown /\ Len(want) = f - s
      /\ want = Contents(operand(fuel), s, f) /\ want \in Seq(Value) /\ s <= f
  BY <1>1 DEF Found
<1>6. k \in Int /\ 1 <= k /\ k <= f - s
  BY <1>5
<1>7. PICK i \in Int, p \in Int : i = k - 1 /\ p = s + i
  BY <1>6
<1>8. s <= p /\ p < f /\ (k = Len(want) <=> p = f - 1)
  BY <1>5, <1>6, <1>7
<1>9. position(i) = iterator(operand(fuel), p)
  BY <1>1, <1>7, PositionIs
<1>10. d = erase_at(operand(fuel), iterator(operand(fuel), p))
  BY <1>2, <1>7, <1>9
<1>11. /\ Leaves(d, contents_of(d))
       /\ p = f - 1 /\ ~d.m.thrown => Leaves(d, SubSeq(Contents(operand(fuel), s, f), 1, f - s - 1))
  BY <1>5, <1>8, <1>10, EraseIs
<1>12. ~d.m.thrown => Leaves(d, goal)
  <2>1. CASE k = Len(want)
    <3>1. p = f - 1 /\ k - 1 = f - s - 1
      BY <1>5, <1>6, <1>8, <2>1
    <3>2. goal = SubSeq(want, 1, f - s - 1)
      BY <1>3, <2>1, <3>1
    <3> QED
      BY <1>5, <1>11, <3>1, <3>2
  <2>2. CASE k # Len(want)
    BY <1>3, <1>11, <2>2
  <2> QED
    BY <2>1, <2>2
<1> QED
  BY <1>4, <1>11, <1>12, DoneKeeps

LEMMA VacanciesAre ==
    ASSUME NEW fuel, NEW s, NEW f, Found(fuel, s, f)
    PROVE  /\ vacancies_at_back(operand(0)) = vacancies_at_back(operand(fuel))
           /\ 0 <= vacancies_at_back(operand(fuel))
<1>1. f \in Int /\ DequeAt(operand(fuel), s, f)
  BY DEF Found
<1>2. PICK r : r = operand(fuel)
  OBVIOUS
<1>3. IsDeque(r) /\ r.finish = iterator(r, f)
  BY <1>1, <1>2, DequeNodes DEF DequeAt
<1>4. PICK o \in Nat : o = offset_of(f) /\ o < BufferSize
  BY <1>1, AddressIs
<1>5. PICK b : b = block_of(r, node_of(f))
  OBVIOUS
<1>6. r.finish.cur = << b, o >> /\ r.finish.last = << b, BufferSize >>
  BY <1>3, <1>4, <1>5, IteratorIs
<1>7. vacancies_at_back(r) = BufferSize - o - 1
  BY <1>6 DEF vacancies_at_back, minus
<1>8. 0 <= vacancies_at_back(r)
  BY <1>4, <1>7, DequeAssumption
<1> QED
  BY <1>2, <1>8 DEF vacancies_at_back, operand

LEMMA ItemsAre ==
    ASSUME NEW items \in Items
    PROVE  items \in Seq(Value) /\ Len(items) \in Nat
<1>1. PICK n \in 0..MaxItems : items \in [1..n -> Value]
  BY DEF Items
<1> QED
  BY <1>1

LEMMA InsertRangeFrontStep ==
    ASSUME DequeInvariant, NEW fuel \in Nat, NEW items \in Items, insert_range_front(items, fuel)
    PROVE  DequeInvariant'
<1>1. PICK s \in Int, f \in Int : Found(fuel, s, f)
  BY OperandIs
<1>2. PICK d : d = range_insert_front(operand(fuel), items)
  OBVIOUS
<1>3. done(d, items \o want, FALSE) /\ Len(want) + Len(items) <= MaxSize
  BY <1>2 DEF insert_range_front
<1>4. /\ DequeAt(operand(fuel), s, f) /\ ~operand(fuel).m.thrown /\ Len(want) = f - s
      /\ want = Contents(operand(fuel), s, f)
  BY <1>1 DEF Found
<1>5. items \in Seq(Value)
  BY ItemsAre
<1>6. PICK n \in Nat : n = Len(items)
  BY ItemsAre
<1>7. f - s + n <= MaxSize
  BY <1>3, <1>4, <1>6, DequeAssumption
<1>8. Ends(operand(fuel), s, f, d, items \o Contents(operand(fuel), s, f))
  BY <1>2, <1>4, <1>5, <1>6, <1>7, RangeInsertFrontIs
<1>9. Ends(operand(fuel), s, f, d, items \o want)
  BY <1>4, <1>8
<1> QED
  BY <1>1, <1>3, <1>9, DoneAtEnds

\* Elements for which there is room in the buffer of finish, by values or references
LEMMA InsertedBack ==
    ASSUME NEW fuel, NEW s, NEW f, Found(fuel, s, f), NEW n \in Nat, NEW items, n = Len(items),
           Readable(operand(fuel).m, n, items), n <= vacancies_at_back(operand(0)),
           NEW q, q = values_of(operand(fuel).m, n, items),
           done(insert_back(operand(fuel), items), want \o q, FALSE)
    PROVE  DequeInvariant'
<1>1. PICK d : d = insert_back(operand(fuel), items)
  OBVIOUS
<1>2. /\ DequeAt(operand(fuel), s, f) /\ ~operand(fuel).m.thrown
      /\ want = Contents(operand(fuel), s, f)
  BY DEF Found
<1>3. n <= vacancies_at_back(operand(fuel))
  BY VacanciesAre
<1>4. Ends(operand(fuel), s, f, d, Contents(operand(fuel), s, f) \o values_of(operand(fuel).m, n, items))
  BY <1>1, <1>2, <1>3, InsertBackIs
<1>5. Ends(operand(fuel), s, f, d, want \o q)
  BY <1>2, <1>4
<1>6. done(d, want \o q, FALSE)
  BY <1>1
<1> QED
  BY <1>5, <1>6, DoneAtEnds

LEMMA InsertRangeBackStep ==
    ASSUME AnyInsert = FALSE, DequeInvariant, NEW fuel \in Nat, NEW items \in Items,
           insert_range_back(items, fuel)
    PROVE  DequeInvariant'
<1>1. PICK s \in Int, f \in Int : Found(fuel, s, f)
  BY OperandIs
<1>2. items \in Seq(Value)
  BY ItemsAre
<1>3. PICK n \in Nat : n = Len(items)
  BY ItemsAre
<1>4. PICK m : m = operand(fuel).m
  OBVIOUS
<1>5. /\ done(insert_back(operand(fuel), items), want \o items, FALSE)
      /\ n <= vacancies_at_back(operand(0))
  BY <1>3 DEF insert_range_back
<1>6. \A k \in 1..n : items[k] \in Value /\ read(m, items[k]) = items[k]
  BY <1>2, <1>3 DEF read
<1>7. Readable(m, n, items)
  BY <1>6 DEF Readable
<1>8. items = values_of(m, n, items)
  <2>1. PICK q : q = values_of(m, n, items)
    OBVIOUS
  <2>2. q \in Seq(Value) /\ Len(q) = n /\ \A k \in 1..n : q[k] = read(m, items[k])
    BY <1>7, <2>1, ValuesAre
  <2>3. \A k \in 1..Len(items) : items[k] = q[k]
    BY <1>3, <1>6, <2>2
  <2> QED
    BY <1>2, <1>3, <2>1, <2>2, <2>3, SameSeq
<1> QED
  BY <1>1, <1>3, <1>4, <1>5, <1>7, <1>8, InsertedBack

LEMMA InsertNStep ==
    ASSUME AnyInsert = FALSE, DequeInvariant, NEW fuel \in Nat, NEW t \in Reference,
           NEW front \in BOOLEAN, NEW n \in 0..MaxItems, insert_n(front, n, t, fuel)
    PROVE  DequeInvariant'
<1>1. PICK s \in Int, f \in Int : Found(fuel, s, f)
  BY OperandIs
<1>2. n \in Nat
  OBVIOUS
<1>3. PICK items : items = [k \in 1..n |-> t]
  OBVIOUS
<1>4. PICK copied : copied = [k \in 1..n |-> value(t)]
  OBVIOUS
<1>5. /\ Len(want) + n <= MaxSize
      /\ n = 0 \/ (~front /\ n <= vacancies_at_back(operand(0)))
      /\ IF front THEN done(fill_insert_front(operand(fuel), items), copied \o want, FALSE)
         ELSE done(insert_back(operand(fuel), items), want \o copied, FALSE)
  BY <1>3, <1>4 DEF insert_n
<1>6. /\ value(t) \in Value /\ value(t) = read(operand(fuel).m, t) /\ t \in Value \cup Pointer
  BY <1>1, ReferenceIs
<1>7. CASE front
  <2>1. n = 0 /\ done(fill_insert_front(operand(fuel), items), copied \o want, FALSE)
    BY <1>5, <1>7
  <2>2. 1..n = {}
    BY <2>1
  <2>3. items = << >> /\ copied = << >>
    BY <1>3, <1>4, <2>2
  <2>4. items \in Seq(Value) /\ Len(items) = 0 /\ copied = items
    BY <2>3
  <2>5. PICK d : d = fill_insert_front(operand(fuel), items)
    OBVIOUS
  <2>6. /\ DequeAt(operand(fuel), s, f) /\ ~operand(fuel).m.thrown /\ Len(want) = f - s
        /\ want = Contents(operand(fuel), s, f)
    BY <1>1 DEF Found
  <2>7. f - s <= MaxSize
    BY <1>5, <2>1, <2>6, DequeAssumption
  <2>8. Ends(operand(fuel), s, f, d, items \o Contents(operand(fuel), s, f))
    BY <2>4, <2>5, <2>6, <2>7, FillNoneIs
  <2>9. Ends(operand(fuel), s, f, d, copied \o want) /\ done(d, copied \o want, FALSE)
    BY <2>1, <2>4, <2>5, <2>6, <2>8
  <2> QED
    BY <1>1, <2>9, DoneAtEnds
<1>8. CASE ~front
  <2>1. done(insert_back(operand(fuel), items), want \o copied, FALSE)
    BY <1>5, <1>8
  <2>2. 0 <= vacancies_at_back(operand(0))
    BY <1>1, VacanciesAre
  <2>3. n <= vacancies_at_back(operand(0))
    BY <1>5, <2>2
  <2>4. Len(items) = n /\ \A k \in 1..n : items[k] = t
    BY <1>2, <1>3
  <2>5. PICK m : m = operand(fuel).m
    OBVIOUS
  <2>6. Readable(m, n, items)
    BY <1>6, <2>4, <2>5 DEF Readable
  <2>7. copied = values_of(m, n, items)
    BY <1>4, <1>6, <2>4, <2>5 DEF values_of
  <2> QED
    BY <1>1, <1>2, <2>1, <2>3, <2>4, <2>5, <2>6, <2>7, InsertedBack
<1> QED
  BY <1>7, <1>8

-----------------------------------------------------------------------------
LEMMA NextKeeps ==
    ASSUME AnyInsert = FALSE, DequeInvariant, [DequeNext]_dequevars
    PROVE  DequeInvariant'
<1>1. CASE pop_back \/ pop_front \/ clear
  BY <1>1, PopBackStep, PopFrontStep, ClearStep
<1>2. ASSUME NEW fuel \in 0..MaxCopies, NEW t \in Reference,
             \/ push_back(t, fuel) \/ push_front(t, fuel)
             \/ \E front \in BOOLEAN, n \in 0..MaxItems : insert_n(front, n, t, fuel)
      PROVE  DequeInvariant'
  <2>1. fuel \in Nat
    OBVIOUS
  <2>2. CASE push_back(t, fuel)
    BY <2>1, <2>2, PushBackStep
  <2>3. CASE push_front(t, fuel)
    BY <2>1, <2>3, PushFrontStep
  <2>4. ASSUME NEW front \in BOOLEAN, NEW n \in 0..MaxItems, insert_n(front, n, t, fuel)
        PROVE  DequeInvariant'
    BY <2>1, <2>4, InsertNStep
  <2> QED
    BY <1>2, <2>2, <2>3, <2>4
<1>3. ASSUME NEW fuel \in 0..MaxCopies, NEW k \in DOMAIN want, erase(k, fuel)
      PROVE  DequeInvariant'
  <2>1. fuel \in Nat
    OBVIOUS
  <2> QED
    BY <1>3, <2>1, EraseStep
<1>4. ASSUME NEW fuel \in 0..MaxCopies, NEW items \in Items,
             insert_range_front(items, fuel) \/ insert_range_back(items, fuel)
      PROVE  DequeInvariant'
  <2>1. fuel \in Nat
    OBVIOUS
  <2> QED
    BY <1>4, <2>1, InsertRangeFrontStep, InsertRangeBackStep
<1>5. CASE UNCHANGED dequevars
  <2>1. /\ cells' = cells /\ map' = map /\ start' = start /\ finish' = finish /\ fault' = fault
        /\ want' = want
    BY <1>5 DEF dequevars
  <2> QED
    BY <2>1 DEF DequeInvariant, operand
<1> QED
  BY <1>1, <1>2, <1>3, <1>4, <1>5 DEF DequeNext

-----------------------------------------------------------------------------
\* The start, and what the invariant says

LEMMA InitHolds ==
    ASSUME DequeInit
    PROVE  DequeInvariant
<1>1. PICK j \in Int : j = (InitialMapSize - 1) \div 2
  BY DequeAssumption
<1>2. 0 <= j /\ j < InitialMapSize
  BY <1>1, DequeAssumption
<1>3. PICK w \in Nat : w = InitialMapSize
  BY DequeAssumption
<1>4. PICK it : it = [cur |-> << 1, 0 >>, first |-> << 1, 0 >>, last |-> << 1, BufferSize >>, node |-> j]
  OBVIOUS
<1>5. plus(<< 1, 0 >>, BufferSize) = << 1, BufferSize >>
  BY DequeAssumption DEF plus
<1>6. /\ map = [k \in 0..(w - 1) |-> IF k = j THEN << 1, 0 >> ELSE null]
      /\ cells = [b \in {0} \cup Block |-> IF b = 1 THEN [k \in 0..(BufferSize - 1) |-> RAW]
                                           ELSE no_cells]
      /\ start = it /\ finish = it /\ fault = FALSE /\ want = << >>
  BY <1>1, <1>3, <1>4, <1>5 DEF DequeInit
<1>7. PICK d : d = operand(0)
  OBVIOUS
<1>8. /\ DOMAIN d = {"m", "map", "start", "finish"} /\ d.map = map /\ d.start = it /\ d.finish = it
      /\ d.m.cells = cells /\ d.m.fuel = 0 /\ d.m.thrown = FALSE /\ d.m.fault = FALSE
      /\ DOMAIN d.m = {"cells", "fuel", "thrown", "fault"}
  BY <1>6, <1>7 DEF operand
<1>9. IsDeque(d)
  <2>1. \A k \in 0..(w - 1) : map[k] = << 1, 0 >> \/ map[k] = << 0, 0 >>
    BY <1>6 DEF null
  <2>2. << 1, 0 >> \in Pointer /\ << 0, 0 >> \in Pointer
    BY DequeAssumption DEF Pointer
  <2>3. DOMAIN d.map = 0..(w - 1)
    BY <1>6, <1>8
  <2>4. \A k \in 0..(w - 1) : d.map[k] \in Pointer /\ d.map[k][2] = 0
    BY <1>8, <2>1, <2>2
  <2> QED
    BY <1>8, <2>3, <2>4 DEF IsDeque
<1>10. IsMemory(d.m)
  <2>1. DOMAIN d.m.cells = {0} \cup Block
    BY <1>6, <1>8
  <2>2. d.m.thrown \in BOOLEAN
    BY <1>8, Zenon
  <2>3. d.m.fault \in BOOLEAN
    BY <1>8, Zenon
  <2>4. d.m.fuel \in Nat
    BY <1>8
  <2> QED
    BY <1>8, <2>1, <2>2, <2>3, <2>4 DEF IsMemory
<1>11. j \in DOMAIN d.map /\ slot(d, j) = << 1, 0 >> /\ block_of(d, j) = 1
  <2>1. j \in 0..(w - 1)
    BY <1>2, <1>3
  <2> QED
    BY <1>6, <1>8, <2>1 DEF slot, block_of
<1>12. /\ d.m.cells[1] = [k \in 0..(BufferSize - 1) |-> RAW]
       /\ \A b \in {0} \cup Block : b # 1 => d.m.cells[b] = no_cells
  BY <1>6, <1>8, DequeAssumption
<1>13. PICK s \in Int : s = base(j)
  BY BaseSum
<1>14. node_of(s) = j /\ offset_of(s) = 0
  <2>1. 0 \in 0..(BufferSize - 1) /\ base(j) + 0 = base(j)
    BY <1>13, DequeAssumption
  <2> QED
    BY <1>13, <2>1, AddressOf
<1>15. iterator(d, s) = it
  BY <1>4, <1>9, <1>11, <1>14, IteratorIs
<1>16. \A k : k \in node_of(s)..node_of(s) <=> k = j
  BY <1>14
<1>17. \A a \in Int : node_of(a) = j => content(d, a) = RAW
  <2> SUFFICES ASSUME NEW a \in Int, node_of(a) = j PROVE content(d, a) = RAW
    OBVIOUS
  <2>1. PICK o \in Nat : o = offset_of(a) /\ o < BufferSize
    BY AddressIs
  <2>2. cell_at(d, a) = << 1, o >>
    BY <1>11, <2>1 DEF cell_at
  <2>3. o \in 0..(BufferSize - 1)
    BY <2>1, DequeAssumption
  <2>4. d.m.cells[1][o] = RAW
    BY <1>12, <2>3
  <2>5. PICK p : p = << 1, o >>
    OBVIOUS
  <2>6. p[1] = 1 /\ p[2] = o
    BY <2>5
  <2>7. content_of(d.m, p) = RAW
    BY <2>4, <2>6 DEF content_of
  <2> QED
    BY <2>2, <2>5, <2>7 DEF content
<1>18. PICK N : N = node_of(s)..node_of(s)
  OBVIOUS
<1>19. \A k : k \in N <=> k = j
  BY <1>16, <1>18
<1>20. Store(d, N, {})
  <2>1. N \subseteq DOMAIN d.map /\ N \subseteq Int
    BY <1>11, <1>19
  <2>2. DOMAIN d.m.cells[1] = 0..(BufferSize - 1)
    BY <1>12
  <2>3. \A k \in N : block_of(d, k) \in Block /\ DOMAIN d.m.cells[block_of(d, k)] = 0..(BufferSize - 1)
    BY <1>11, <1>19, <2>2, DequeAssumption
  <2>4. \A i, k \in N : block_of(d, i) = block_of(d, k) => i = k
    BY <1>19
  <2>5. \A b \in {0} \cup Block : (\A k \in N : block_of(d, k) # b) => d.m.cells[b] = no_cells
    BY <1>11, <1>12, <1>19
  <2>6. \A a \in Int : node_of(a) \in N => content(d, a) = RAW
    BY <1>17, <1>19
  <2> QED
    BY <1>8, <1>9, <1>10, <2>1, <2>3, <2>4, <2>5, <2>6 DEF Store
<1>21. s..(s - 1) = {} /\ s <= s
  OBVIOUS
<1>22. DequeAt(d, s, s)
  BY <1>8, <1>15, <1>18, <1>20, <1>21 DEF DequeAt
<1>23. Contents(d, s, s) = << >>
  BY <1>22, ContentsAre
<1> QED
  BY <1>6, <1>7, <1>22, <1>23 DEF DequeInvariant

-----------------------------------------------------------------------------
\* The parts of BuffersExact, for the deque at the addresses from s to f - 1
Operand == operand(0)

LEMMA OperandFields ==
    /\ Operand.m.cells = cells /\ Operand.map = map /\ Operand.start = start
    /\ Operand.finish = finish /\ Operand.m.fault = fault
  BY DEF Operand, operand

LEMMA PointsWell ==
    ASSUME IsDeque(Operand), NEW a \in Int, node_of(a) \in DOMAIN map,
           NEW it, it = iterator(Operand, a)
    PROVE  points_well(it)
<1>1. PICK b : b = block_of(Operand, node_of(a))
  OBVIOUS
<1>2. PICK o \in Nat : o = offset_of(a) /\ o < BufferSize
  BY AddressIs
<1>3. /\ it.cur = << b, o >> /\ it.first = << b, 0 >> /\ it.last = << b, BufferSize >>
      /\ it.node = node_of(a)
  BY <1>1, <1>2, IteratorIs
<1>4. slot(Operand, node_of(a)) = << b, 0 >>
  BY <1>1, SlotIs
<1>5. map[node_of(a)] = << b, 0 >>
  BY <1>4, OperandFields DEF slot
<1>6. plus(it.first, BufferSize) = it.last
  BY <1>3, DequeAssumption DEF plus
<1>7. minus(it.cur, it.first) = o /\ it.cur[1] = it.first[1]
  BY <1>3 DEF minus
<1> QED
  BY <1>2, <1>3, <1>5, <1>6, <1>7 DEF points_well

\* Different nodes have different buffers, so that there are as many.
LEMMA BuffersApart ==
    ASSUME NEW N, IsFiniteSet(N), NEW E, Store(Operand, N, E)
    PROVE  Cardinality({map[k] : k \in N}) = Cardinality(N)
<1>1. PICK T : T = {map[k] : k \in N}
  OBVIOUS
<1>2. PICK g : g = [k \in N |-> map[k]]
  OBVIOUS
<1>3. \A i, k \in N : g[i] = g[k] => i = k
  <2> SUFFICES ASSUME NEW i \in N, NEW k \in N, g[i] = g[k] PROVE i = k
    OBVIOUS
  <2>1. map[i] = map[k]
    BY <1>2
  <2>2. i \in DOMAIN map /\ k \in DOMAIN map
    BY OperandFields DEF Store
  <2>3. slot(Operand, i) = slot(Operand, k)
    BY <2>1, <2>2, OperandFields DEF slot
  <2>4. block_of(Operand, i) = block_of(Operand, k)
    BY <2>3 DEF block_of
  <2> QED
    BY <2>4 DEF Store
<1>4. g \in [N -> T] /\ \A t \in T : \E k \in N : g[k] = t
  BY <1>1, <1>2
<1>5. g \in Surjection(N, T)
  BY <1>4 DEF Surjection
<1>6. g \in Injection(N, T)
  BY <1>3, <1>4 DEF Injection, IsInjective
<1>7. Cardinality(T) = Cardinality(N)
  BY <1>5, <1>6, FS_Surjection
<1> QED
  BY <1>1, <1>7

\* The buffers of the nodes are the only blocks.
LEMMA OnlyBuffers ==
    ASSUME NEW N, NEW E, Store(Operand, N, E), NEW b \in {0} \cup Block
    PROVE  DOMAIN cells[b] = IF \E k \in N : map[k] = << b, 0 >> THEN 0..(BufferSize - 1) ELSE {}
<1>1. IsDeque(Operand) /\ N \subseteq DOMAIN map
  BY OperandFields DEF Store
<1>2. \A k \in N : map[k] = << block_of(Operand, k), 0 >>
  <2> SUFFICES ASSUME NEW k \in N PROVE map[k] = << block_of(Operand, k), 0 >>
    OBVIOUS
  <2>1. slot(Operand, k) = << block_of(Operand, k), 0 >>
    BY <1>1, SlotIs
  <2> QED
    BY <1>1, <2>1, OperandFields DEF slot
<1>3. CASE \E k \in N : map[k] = << b, 0 >>
  <2>1. PICK k \in N : map[k] = << b, 0 >>
    BY <1>3
  <2>2. block_of(Operand, k) = b
    BY <1>2, <2>1
  <2>3. DOMAIN cells[b] = 0..(BufferSize - 1)
    BY <2>2, OperandFields DEF Store
  <2> QED
    BY <1>3, <2>3
<1>4. CASE ~\E k \in N : map[k] = << b, 0 >>
  <2>1. \A k \in N : block_of(Operand, k) # b
    BY <1>2, <1>4
  <2>2. cells[b] = no_cells
    BY <2>1, OperandFields DEF Store
  <2> QED
    BY <1>4, <2>2, NoCells
<1> QED
  BY <1>3, <1>4

\* An element is in a cell just when its address is from s to f - 1.
LEMMA LiveCells ==
    ASSUME NEW s, NEW f, Found(0, s, f), NEW b \in Block, NEW k \in DOMAIN cells[b]
    PROVE  (cells[b][k] \in Value)
               = (<< b, k >> \in {position(i).cur : i \in 0..(length(operand(0)) - 1)})
<1> DEFINE N == node_of(s)..node_of(f)
           E == s..(f - 1)
<1>1. s \in Int /\ f \in Int /\ DequeAt(operand(0), s, f)
  BY DEF Found
<1>2. Store(Operand, N, E)
  BY <1>1 DEF DequeAt, Operand
<1>3. length(operand(0)) = f - s
  BY <1>1, LengthIs
<1>a. E \subseteq Int /\ \A a \in E : node_of(a) \in N
  BY <1>2 DEF Store
<1>b. \A a \in Int : a \in E <=> s <= a /\ a < f
  BY <1>1
<1> HIDE DEF N, E
<1>4. (\E j \in N : map[j] = << b, 0 >>) /\ k \in 0..(BufferSize - 1)
  <2>1. DOMAIN cells[b] = IF \E j \in N : map[j] = << b, 0 >> THEN 0..(BufferSize - 1) ELSE {}
    BY <1>2, OnlyBuffers
  <2> QED
    BY <2>1
<1>5. PICK j \in N : map[j] = << b, 0 >>
  BY <1>4
<1>6. j \in DOMAIN map /\ j \in Int
  BY <1>2, OperandFields DEF Store
<1>7. block_of(Operand, j) = b
  BY <1>5, <1>6, OperandFields DEF block_of, slot
<1>8. k \in Nat /\ k < BufferSize
  BY <1>4, DequeAssumption
<1>9. PICK a \in Int : a = base(j) + k /\ node_of(a) = j /\ offset_of(a) = k
  BY <1>4, <1>6, AddressOf
<1>10. cell_at(Operand, a) = << b, k >>
  BY <1>7, <1>9 DEF cell_at
<1>11. PICK c \in Block, o \in Nat : CellThere(Operand, a, c, o)
  BY <1>2, <1>5, <1>9, CellIs
<1>12. content(Operand, a) = cells[b][k]
  <2>1. << c, o >> = << b, k >> /\ content(Operand, a) = cells[c][o]
    BY <1>10, <1>11, OperandFields DEF CellThere
  <2>2. c = b /\ o = k
    BY <2>1
  <2> QED
    BY <2>1, <2>2
<1>13. CASE a \in E
  <2>1. cells[b][k] \in Value
    BY <1>2, <1>9, <1>12, <1>13, <1>5 DEF Store
  <2>2. PICK i \in Int : i = a - s
    BY <1>1
  <2>3. i \in 0..(f - s - 1) /\ s + i = a
    BY <1>1, <1>b, <1>13, <2>2
  <2>4. position(i).cur = << b, k >>
    BY <1>1, <1>10, <2>3, PositionIs DEF Operand
  <2>5. << b, k >> \in {position(x).cur : x \in 0..(length(operand(0)) - 1)}
    BY <1>3, <2>3, <2>4
  <2> QED
    BY <2>1, <2>5
<1>14. CASE a \notin E
  <2>1. cells[b][k] \notin Value
    BY <1>2, <1>9, <1>12, <1>14, <1>5, StlMemoryAssumption DEF Store
  <2>2. << b, k >> \notin {position(x).cur : x \in 0..(length(operand(0)) - 1)}
    <3> SUFFICES ASSUME NEW i \in 0..(length(operand(0)) - 1), position(i).cur = << b, k >>
                 PROVE  FALSE
      OBVIOUS
    <3>1. i \in Int /\ 0 <= i /\ i < f - s
      BY <1>1, <1>3
    <3>2. PICK x \in Int : x = s + i
      BY <1>1, <3>1
    <3>3. cell_at(Operand, x) = << b, k >>
      BY <3>1, <3>2, PositionIs DEF Operand
    <3>4. x \in E
      BY <1>1, <1>b, <3>1, <3>2
    <3>5. node_of(x) \in N
      BY <1>a, <3>4
    <3>6. node_of(a) \in N
      BY <1>5, <1>9
    <3>7. x = a
      BY <1>2, <1>10, <3>3, <3>5, <3>6, CellsApart
    <3> QED
      BY <1>14, <3>4, <3>7
  <2> QED
    BY <2>1, <2>2
<1> QED
  BY <1>13, <1>14

LEMMA InvariantHolds ==
    ASSUME DequeInvariant
    PROVE  BuffersExact /\ DequeExact
<1>1. PICK s \in Int, f \in Int : Found(0, s, f)
  BY 0 \in Nat, OperandIs
<1>2. DequeAt(operand(0), s, f) /\ want = Contents(operand(0), s, f) /\ s <= f
  BY <1>1 DEF Found
<1>3. DequeExact
  BY <1>2, ContentsOfIs DEF DequeExact, contents
<1>4. /\ IsDeque(Operand) /\ ~fault /\ start = iterator(Operand, s) /\ finish = iterator(Operand, f)
      /\ start.node = node_of(s) /\ finish.node = node_of(f)
      /\ node_of(s) \in Nat /\ node_of(f) \in Nat /\ node_of(s) <= node_of(f)
      /\ node_of(s)..node_of(f) \subseteq DOMAIN map
      /\ Store(Operand, node_of(s)..node_of(f), s..(f - 1))
  <2>1. DequeAt(Operand, s, f)
    BY <1>2 DEF Operand
  <2> QED
    BY <2>1, DequeNodes, OperandFields DEF DequeAt
<1>5. points_well(start) /\ points_well(finish)
  <2>1. node_of(s) \in DOMAIN map /\ node_of(f) \in DOMAIN map
    BY <1>4
  <2>2. points_well(start)
    BY <1>4, <2>1, PointsWell
  <2>3. points_well(finish)
    BY <1>4, <2>1, PointsWell
  <2> QED
    BY <2>2, <2>3
<1>6. length(operand(0)) = f - s
  BY <1>2, LengthIs
<1>7. PICK N : N = node_of(s)..node_of(f)
  OBVIOUS
<1>8. N = start.node..finish.node /\ IsFiniteSet(N) /\ Store(Operand, N, s..(f - 1))
  BY <1>4, <1>7, FS_Interval
<1>9. Cardinality({map[k] : k \in N}) = Cardinality(N)
  BY <1>8, BuffersApart
<1>10. ASSUME NEW b \in {0} \cup Block
       PROVE  DOMAIN cells[b] = IF \E k \in N : map[k] = << b, 0 >> THEN 0..(BufferSize - 1) ELSE {}
  BY <1>8, OnlyBuffers
<1>11. ASSUME NEW b \in Block, NEW k \in DOMAIN cells[b]
       PROVE  (cells[b][k] \in Value)
                  = (<< b, k >> \in {position(i).cur : i \in 0..(length(operand(0)) - 1)})
  BY <1>1, LiveCells
<1>12. start.node <= finish.node /\ length(operand(0)) >= 0
  BY <1>2, <1>4, <1>6
<1>13. BuffersExact
  BY <1>4, <1>5, <1>8, <1>9, <1>10, <1>11, <1>12 DEF BuffersExact
<1> QED
  BY <1>3, <1>13

-----------------------------------------------------------------------------
\* As long as insert() is only called where it does what it should (AnyInsert), whatever
\* calls are made, with elements of the deque itself too, erase of any element among them,
\* and whichever copy throws: both iterators agree with the map, every node from start to
\* finish has a buffer of its own, and there is an element in every cell between the two
\* and in no other.  It does not say which element: erase moves too few of them.
THEOREM DequeBuffersExact == AnyInsert = FALSE => (DequeSpec => []BuffersExact)
<1> SUFFICES ASSUME AnyInsert = FALSE PROVE DequeSpec => []BuffersExact
  OBVIOUS
<1>1. DequeInit => DequeInvariant
  BY InitHolds
<1>2. DequeInvariant /\ [DequeNext]_dequevars => DequeInvariant'
  BY NextKeeps
<1>3. DequeInvariant => BuffersExact
  BY InvariantHolds
<1> QED
  BY <1>1, <1>2, <1>3, PTL DEF DequeSpec

\* With the same calls, the deque holds what was stored at both ends, in order, also after
\* the last element was erased; a call at an end that throws leaves it as it was.  Of an
\* erase of another element nothing is said but that the calls after it go on from what
\* it left.
THEOREM DequeContentsExact == AnyInsert = FALSE => (DequeSpec => []DequeExact)
<1> SUFFICES ASSUME AnyInsert = FALSE PROVE DequeSpec => []DequeExact
  OBVIOUS
<1>1. DequeInit => DequeInvariant
  BY InitHolds
<1>2. DequeInvariant /\ [DequeNext]_dequevars => DequeInvariant'
  BY NextKeeps
<1>3. DequeInvariant => DequeExact
  BY InvariantHolds
<1> QED
  BY <1>1, <1>2, <1>3, PTL DEF DequeSpec

=============================================================================
