-------------------------------- MODULE Deque --------------------------------
(***************************************************************************)
(* deque of stl/Jimp_STL/stl_deque.h: a map, an array of pointers to       *)
(* buffers, and two iterators into the buffers.  An operation is one step; *)
(* any copy of an element inside it may throw.                             *)
(*                                                                         *)
(* Names that do not compile are taken for what they evidently mean:       *)
(* _M_set_mode, destory, and in _M_push_front_aux and the second           *)
(* _M_push_back_aux the reservation of elements for that of the map.       *)
(***************************************************************************)
EXTENDS StlMemory, FiniteSets

CONSTANTS
    BufferSize,     \* elements in a buffer
    InitialMapSize, \* 8 in the code
    SizeLimit,      \* bound: the number of values of a size_t
    MaxSize,        \* bound: elements in the deque
    MaxMap,         \* bound: pointers in the map
    MaxItems,       \* bound: elements inserted by one call
    MaxCopies,      \* bound: copies until one throws; more than any call makes
    AnyInsert       \* FALSE: only the calls of insert() that do what they should

ASSUME DequeAssumption ==
    /\ BufferSize \in Nat \ {0} /\ InitialMapSize \in Nat \ {0} /\ 1 \in Block
    /\ MaxSize \in Nat /\ MaxItems \in Nat /\ MaxCopies \in Nat /\ SizeLimit \in Nat \ {0}
    /\ IsFiniteSet(Block)               \* malloc does not fail: there is a block for every
    /\ Cardinality(Block) > (MaxSize + BufferSize - 1) \div BufferSize   \* buffer of MaxSize

VARIABLES
    cells,
    map,            \* what _M_map points to, 0.._M_map_size - 1
    start, finish,
    thrown, fault,
    want            \* what the deque is to hold

dequevars == << cells, map, start, finish, thrown, fault, want >>

-----------------------------------------------------------------------------
\* A deque during an operation: its memory, map and iterators.  An iterator is
\* the record of _M_cur, _M_first, _M_last and _M_node, an index into the map.
operand(fuel) ==
    [m |-> [cells |-> cells, fuel |-> fuel, thrown |-> FALSE, fault |-> fault],
     map |-> map, start |-> start, finish |-> finish]

slot(d, node) == IF node \in DOMAIN d.map THEN d.map[node] ELSE null

set_node(d, it, node) ==
    [it EXCEPT !.node = node, !.first = slot(d, node), !.last = plus(slot(d, node), BufferSize)]

\* Faulty: the new buffer is entered at its end.
increment_late(d, it) ==
    LET moved == set_node(d, it, it.node + 1)
    IN  IF plus(it.cur, 1) = it.last THEN [moved EXCEPT !.cur = moved.last]
        ELSE [it EXCEPT !.cur = plus(@, 1)]

increment(d, it) ==
    LET moved == set_node(d, it, it.node + 1)
    IN  IF plus(it.cur, 1) = it.last THEN [moved EXCEPT !.cur = moved.first]
        ELSE [it EXCEPT !.cur = plus(@, 1)]

\* operator+=; \div rounds down, which is what the two divisions amount to.
advance(d, it, n) ==
    LET offset == n + minus(it.cur, it.first)
        node_offset == offset \div BufferSize
        moved == set_node(d, it, it.node + node_offset)
    IN  IF node_offset = 0 THEN [it EXCEPT !.cur = plus(@, n)]
        ELSE [moved EXCEPT !.cur = plus(moved.first, offset - node_offset * BufferSize)]

\* operator- as it is written: it adds _M_first - _M_cur of the second iterator
\* where _M_last - _M_cur is meant, and is one buffer short.
difference(i, j) ==
    BufferSize * (i.node - j.node - 1) + minus(i.cur, i.first) + minus(j.first, j.cur)

size_type(n) == n % SizeLimit

size(d) == size_type(difference(d.finish, d.start))

-----------------------------------------------------------------------------
\* _M_initialize_map for no elements
DequeInit ==
    LET nstart == (InitialMapSize - 1) \div 2
        buffer == << 1, 0 >>
        it == [cur |-> buffer, first |-> buffer, last |-> plus(buffer, BufferSize), node |-> nstart]
    IN  /\ map = [k \in 0..(InitialMapSize - 1) |-> IF k = nstart THEN buffer ELSE null]
        /\ cells = [b \in {0} \cup Block |-> IF b = 1 THEN [k \in 0..(BufferSize - 1) |-> RAW]
                                             ELSE no_cells]
        /\ start = it
        /\ finish = it
        /\ thrown = FALSE
        /\ fault = FALSE
        /\ want = << >>

\* _M_allocate_node, and its buffer in the map
new_node(d, node) ==
    LET m == allocated(d.m, BufferSize)
    IN  [d EXCEPT !.m = [m EXCEPT !.fault = @ \/ node \notin DOMAIN d.map],
                  !.map[node] = allocate(d.m, BufferSize)]

deallocate_node(d, p) == [d EXCEPT !.m = deallocate(d.m, p, BufferSize)]

\* _M_destroy_nodes: the buffers of nstart..(nfinish - 1)
destroy_nodes(d, nstart, nfinish) ==
    LET after[k \in 0..(IF nfinish > nstart THEN nfinish - nstart ELSE 0)] ==
            IF k = 0 THEN d ELSE deallocate_node(after[k - 1], slot(d, nstart + k - 1))
    IN  after[IF nfinish > nstart THEN nfinish - nstart ELSE 0]

max(a, b) == IF a < b THEN b ELSE a

\* The middle of the map, with the room for the nodes to be added
new_nstart(map_size, num_nodes, nodes_to_add, add_at_front) ==
    (map_size - num_nodes) \div 2 + (IF add_at_front THEN nodes_to_add ELSE 0)

\* _M_reallocate_map: within the map if it is less than half full, or else into
\* a larger one.  Copying up or down, no pointer is overwritten before it moved.
reallocate_map(d, nodes_to_add, add_at_front) ==
    LET old_num_nodes == d.finish.node - d.start.node + 1
        num_nodes == old_num_nodes + nodes_to_add
        map_size == Cardinality(DOMAIN d.map)
        stays == map_size > 2 * num_nodes
        new_size == IF stays THEN map_size ELSE map_size + max(map_size, nodes_to_add) + 2
        nstart == new_nstart(new_size, num_nodes, nodes_to_add, add_at_front)
        moved == [d EXCEPT !.map =
                     [k \in 0..(new_size - 1) |->
                         IF k \in nstart..(nstart + old_num_nodes - 1)
                         THEN d.map[d.start.node + k - nstart]
                         ELSE IF stays THEN d.map[k] ELSE null]]
    IN  [moved EXCEPT !.start = set_node(moved, @, nstart),
                      !.finish = set_node(moved, @, nstart + old_num_nodes - 1)]

reserve_map_at_back(d, nodes_to_add) ==
    IF nodes_to_add + 1 > Cardinality(DOMAIN d.map) - d.finish.node
    THEN reallocate_map(d, nodes_to_add, FALSE) ELSE d

reserve_map_at_front(d, nodes_to_add) ==
    IF nodes_to_add > d.start.node THEN reallocate_map(d, nodes_to_add, TRUE) ELSE d

-----------------------------------------------------------------------------
with(d, m) == [d EXCEPT !.m = m]

\* _M_push_back_aux: the last cell of a buffer is only used with the next
\* buffer in place, so that finish always points into one.
push_back_aux(d, t) ==
    LET m0 == temporary(d.m)
        d1 == reserve_map_at_back(with(d, m0), 1)
        d2 == new_node(d1, d1.finish.node + 1)
        m3 == construct(d2.m, d2.finish.cur, read(d.m, t))
        there == set_node(d2, d2.finish, d2.finish.node + 1)
    IN  IF m0.thrown THEN with(d, m0)
        ELSE IF m3.thrown THEN deallocate_node(with(d2, m3), slot(d2, d2.finish.node + 1))
        ELSE [with(d2, m3) EXCEPT !.finish = [there EXCEPT !.cur = there.first]]

push_back_at(d, t) ==
    LET m1 == construct(d.m, d.finish.cur, read(d.m, t))
    IN  IF d.finish.cur = plus(d.finish.last, -1) THEN push_back_aux(d, t)
        ELSE IF m1.thrown THEN with(d, m1)
        ELSE [with(d, m1) EXCEPT !.finish.cur = plus(@, 1)]

\* Faulty: start stays in the buffer that is given back.
push_front_unwound_half(d, m) == deallocate_node(with(d, m), slot(d, d.start.node))

\* catch(...): ++_M_start, then the buffer in front of it is given back.
push_front_unwound(d, m) ==
    LET back == increment(d, d.start)
    IN  deallocate_node([with(d, m) EXCEPT !.start = back], slot(d, back.node - 1))

push_front_aux(d, t) ==
    LET m0 == temporary(d.m)
        d1 == reserve_map_at_front(with(d, m0), 1)
        d2 == new_node(d1, d1.start.node - 1)
        there == set_node(d2, d2.start, d2.start.node - 1)
        d3 == [d2 EXCEPT !.start = [there EXCEPT !.cur = plus(there.last, -1)]]
        m4 == construct(d3.m, d3.start.cur, read(d.m, t))
    IN  IF m0.thrown THEN with(d, m0)
        ELSE IF m4.thrown THEN push_front_unwound(d3, m4) ELSE with(d3, m4)

push_front_at(d, t) ==
    LET m1 == construct(d.m, plus(d.start.cur, -1), read(d.m, t))
    IN  IF d.start.cur = d.start.first THEN push_front_aux(d, t)
        ELSE IF m1.thrown THEN with(d, m1)
        ELSE [with(d, m1) EXCEPT !.start.cur = plus(@, -1)]

destroy_at(d, p) == with(d, destroy(d.m, p, plus(p, 1)))

\* pop_back and _M_pop_back_aux
pop_back_at(d) ==
    LET there == set_node(d, d.finish, d.finish.node - 1)
        last == [there EXCEPT !.cur = plus(there.last, -1)]
    IN  IF d.finish.cur # d.finish.first
        THEN [destroy_at(d, plus(d.finish.cur, -1)) EXCEPT !.finish.cur = plus(@, -1)]
        ELSE [destroy_at(deallocate_node(d, d.finish.first), last.cur) EXCEPT !.finish = last]

\* pop_front and _M_pop_front_aux
pop_front_at(d) ==
    LET there == set_node(d, d.start, d.start.node + 1)
    IN  IF d.start.cur # plus(d.start.last, -1)
        THEN [destroy_at(d, d.start.cur) EXCEPT !.start.cur = plus(@, 1)]
        ELSE [deallocate_node(destroy_at(d, d.start.cur), d.start.first)
                 EXCEPT !.start = [there EXCEPT !.cur = there.first]]

\* erase: one side moves and the element at its end goes.  Which side, and how
\* many of its elements move, is what operator- says: copy_backward and copy
\* (stl_algobase.h) count with it, and so move a buffer too few.
erase_at(d, pos) ==
    LET next == increment(d, pos)
        cell(k) == advance(d, pos, k).cur
        moved_up == max(0, difference(pos, d.start))
        moved_down == max(0, difference(d.finish, next))
        up == put_all(d.m, moved_up, [k \in 1..moved_up |-> cell(-k)],
                      [k \in 1..moved_up |-> cell(1 - k)], Value)
        down == put_all(d.m, moved_down, [k \in 1..moved_down |-> cell(k)],
                        [k \in 1..moved_down |-> cell(k - 1)], Value)
        front_moves == size_type(difference(pos, d.start)) < size(d) \div 2
        moved == with(d, IF front_moves THEN up ELSE down)
    IN  IF moved.m.thrown THEN moved
        ELSE IF front_moves THEN pop_front_at(moved) ELSE pop_back_at(moved)

\* clear: the buffer of start stays.
clear_all(d) ==
    LET middle == (d.start.node + 1)..(d.finish.node - 1)
        emptied == [k \in DOMAIN d.m.cells |->
                       IF \E node \in middle : slot(d, node)[1] = k
                       THEN [j \in 0..(BufferSize - 1) |-> RAW] ELSE d.m.cells[k]]
        d1 == destroy_nodes([d EXCEPT !.m.cells = emptied], d.start.node + 1, d.finish.node)
        d2 == with(d1, destroy(destroy(d1.m, d.start.cur, d.start.last),
                               d.finish.first, d.finish.cur))
    IN  IF d.start.node = d.finish.node
        THEN [with(d, destroy(d.m, d.start.cur, d.finish.cur)) EXCEPT !.finish = d.start]
        ELSE [deallocate_node(d2, d.finish.first) EXCEPT !.finish = d.start]

-----------------------------------------------------------------------------
nodes_for(n) == (n + BufferSize - 1) \div BufferSize

\* d with buffers for the n nodes in front of a node
with_nodes(d, n, node) ==
    LET after[k \in 0..n] == IF k = 0 THEN d ELSE new_node(after[k - 1], node - k)
    IN  after[n]

\* _M_reserve_elements_at_front and _M_new_elements_at_front
reserve_elements_at_front(d, n) ==
    LET vacancies == minus(d.start.cur, d.start.first)
        d1 == reserve_map_at_front(d, nodes_for(n - vacancies))
    IN  IF n <= vacancies THEN d
        ELSE with_nodes(d1, nodes_for(n - vacancies), d1.start.node)

\* ... at_back.  _M_new_elements_at_back enters the new buffers in front of
\* finish where they belong behind it.
vacancies_at_back(d) == minus(d.finish.last, d.finish.cur) - 1

reserve_elements_at_back(d, n) ==
    LET nodes == nodes_for(n - vacancies_at_back(d))
        d1 == reserve_map_at_back(d, nodes)
    IN  IF n <= vacancies_at_back(d) THEN d
        ELSE with_nodes(d1, nodes, d1.finish.node)

\* Construct items from it on; what was built goes when one throws.
build(d, it, items) ==
    LET cell(k) == advance(d, it, k).cur
        built == put_all(d.m, Len(items), items, [k \in 1..Len(items) |-> cell(k - 1)], {RAW})
        unbuilt[k \in 0..Len(items)] ==
            IF k = 0 THEN built
            ELSE IF k > copies(d.m, built) THEN unbuilt[k - 1]
            ELSE destroy(unbuilt[k - 1], cell(k - 1), plus(cell(k - 1), 1))
    IN  with(d, IF built.thrown THEN unbuilt[Len(items)] ELSE built)

\* Faulty: new_start is counted from begin(), which the map may have left behind.
range_insert_front_stale(d, items) ==
    LET d1 == reserve_elements_at_front(d, Len(items))
        new_start == advance(d1, d.start, -Len(items))
        d2 == build(d1, new_start, items)
    IN  IF d2.m.thrown THEN destroy_nodes(d2, new_start.node, d2.start.node)
        ELSE [d2 EXCEPT !.start = new_start]

\* insert() of a range at the front
range_insert_front(d, items) ==
    LET d1 == reserve_elements_at_front(d, Len(items))
        new_start == advance(d1, d1.start, -Len(items))
        d2 == build(d1, new_start, items)
    IN  IF d2.m.thrown THEN destroy_nodes(d2, new_start.node, d2.start.node)
        ELSE [d2 EXCEPT !.start = new_start]

\* insert() of a range and _M_fill_insert at the back
insert_back(d, items) ==
    LET d1 == reserve_elements_at_back(d, Len(items))
        new_finish == advance(d1, d1.finish, Len(items))
        d2 == build(d1, d1.finish, items)
    IN  IF d2.m.thrown THEN destroy_nodes(d2, d2.finish.node + 1, new_finish.node + 1)
        ELSE [d2 EXCEPT !.finish = new_finish]

\* _M_fill_insert at the front does not set _M_start to the new elements.
fill_insert_front(d, items) ==
    LET d1 == reserve_elements_at_front(d, Len(items))
        new_start == advance(d1, d1.start, -Len(items))
        d2 == build(d1, new_start, items)
    IN  IF d2.m.thrown THEN destroy_nodes(d2, new_start.node, d2.start.node) ELSE d2

-----------------------------------------------------------------------------
\* How many elements there are, counted in buffers, and where they are
length(d) ==
    BufferSize * (d.finish.node - d.start.node) + minus(d.finish.cur, d.finish.first)
        - minus(d.start.cur, d.start.first)

position(k) == advance(operand(0), start, k)

contents_of(d) ==
    [k \in 1..length(d) |-> content_of(d.m, advance(d, d.start, k - 1).cur)]

contents == contents_of(operand(0))

Reference == Value \cup {position(k).cur : k \in 0..(length(operand(0)) - 1)}

value(r) == read(operand(0).m, r)

\* Pointers to buffers that were given back stay in the map; nothing reads them.
in_use(d) ==
    [k \in DOMAIN d.map |-> IF k \in d.start.node..d.finish.node THEN d.map[k] ELSE null]

\* The call that made d ends.  It is to leave goal behind; if it throws, the old
\* elements, or, where it changes them in place, any elements.
done(d, goal, in_place) ==
    /\ Cardinality(DOMAIN d.map) <= MaxMap
    /\ cells' = d.m.cells
    /\ map' = in_use(d)
    /\ start' = d.start
    /\ finish' = d.finish
    /\ thrown' = d.m.thrown
    /\ fault' = d.m.fault
    /\ want' = IF ~d.m.thrown THEN goal ELSE IF in_place THEN contents_of(d) ELSE want

\* insert(begin(), t) and insert(end(), t) are calls of the two.
push_back(t, fuel) ==
    Len(want) < MaxSize /\ done(push_back_at(operand(fuel), t), Append(want, value(t)), FALSE)

push_front(t, fuel) ==
    /\ Len(want) < MaxSize
    /\ done(push_front_at(operand(fuel), t), << value(t) >> \o want, FALSE)

pop_back ==
    /\ want # << >>
    /\ done(pop_back_at(operand(0)), SubSeq(want, 1, Len(want) - 1), FALSE)

pop_front == want # << >> /\ done(pop_front_at(operand(0)), Tail(want), FALSE)

\* Only of the last element does erase do what it should; otherwise too few
\* elements move, and which ones are left is whatever the code leaves.
erase(k, fuel) ==
    LET d == erase_at(operand(fuel), position(k - 1))
    IN  done(d, IF k = Len(want) THEN SubSeq(want, 1, k - 1) ELSE contents_of(d), TRUE)

clear == done(clear_all(operand(0)), << >>, FALSE)

Items == UNION {[1..n -> Value] : n \in 0..MaxItems}

\* insert(pos, first, last) of a range given by pointers, which are subtracted
\* rightly.  In an empty deque begin() is end(), and the front comes first.
insert_range_front(items, fuel) ==
    /\ Len(want) + Len(items) <= MaxSize
    /\ done(range_insert_front(operand(fuel), items), items \o want, FALSE)

insert_range_back(items, fuel) ==
    /\ start.cur # finish.cur
    /\ Len(want) + Len(items) <= MaxSize
    /\ AnyInsert \/ Len(items) <= vacancies_at_back(operand(0))
    /\ done(insert_back(operand(fuel), items), want \o items, FALSE)

\* insert(pos, n, t)
insert_n(front, n, t, fuel) ==
    LET items == [k \in 1..n |-> t]
        copied == [k \in 1..n |-> value(t)]
    IN  /\ front \/ start.cur # finish.cur
        /\ Len(want) + n <= MaxSize
        /\ AnyInsert \/ n = 0 \/ (~front /\ n <= vacancies_at_back(operand(0)))
        /\ IF front THEN done(fill_insert_front(operand(fuel), items), copied \o want, FALSE)
           ELSE done(insert_back(operand(fuel), items), want \o copied, FALSE)

DequeNext ==
    \/ pop_back \/ pop_front \/ clear
    \/ \E fuel \in 0..MaxCopies :
        \/ \E t \in Reference :
              \/ push_back(t, fuel) \/ push_front(t, fuel)
              \/ \E front \in BOOLEAN, n \in 0..MaxItems : insert_n(front, n, t, fuel)
        \/ \E k \in DOMAIN want : erase(k, fuel)
        \/ \E items \in Items : insert_range_front(items, fuel) \/ insert_range_back(items, fuel)

DequeSpec == DequeInit /\ [][DequeNext]_dequevars

-----------------------------------------------------------------------------
points_well(it) ==
    /\ it.node \in DOMAIN map
    /\ it.first = map[it.node] /\ it.last = plus(it.first, BufferSize)
    /\ it.cur[1] = it.first[1]
    /\ 0 <= minus(it.cur, it.first) /\ minus(it.cur, it.first) < BufferSize

\* Both iterators are in their buffers and agree with the map, wherever it was
\* moved; the buffers from start to finish are different blocks and the only
\* ones in use; elements are in the cells between start and finish and nowhere
\* else; whatever threw and when, and whichever element was erased.
BuffersExact ==
    LET used == start.node..finish.node
        live == {position(k).cur : k \in 0..(length(operand(0)) - 1)}
    IN  /\ ~fault
        /\ points_well(start) /\ points_well(finish)
        /\ start.node <= finish.node /\ length(operand(0)) >= 0
        /\ Cardinality({map[k] : k \in used}) = Cardinality(used)
        /\ \A b \in {0} \cup Block :
              DOMAIN cells[b] = IF \E k \in used : map[k] = << b, 0 >>
                                THEN 0..(BufferSize - 1) ELSE {}
        /\ \A b \in Block : \A k \in DOMAIN cells[b] :
              (cells[b][k] \in Value) = (<< b, k >> \in live)

\* Elements are stored at both ends, in order, and taken from both ends; a call
\* at an end that throws leaves the deque as it was.  An erase of an element that
\* is not the last leaves elements nobody asked for, and the calls after it are
\* held to those.
DequeExact == contents = want

\* stl/README.md: a deque can store data at both ends.
StoresAtBothEnds == ~thrown => contents = want

=============================================================================
