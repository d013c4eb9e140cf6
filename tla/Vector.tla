------------------------------- MODULE Vector -------------------------------
(***************************************************************************)
(* vector of stl/Jimp_STL/stl_vector.h: three pointers into one block of   *)
(* cells.  An operation is one step; inside it the elements are copied one *)
(* by one, any copy may throw, and an argument may be a reference to an    *)
(* element of the vector itself.                                           *)
(***************************************************************************)
EXTENDS StlMemory

CONSTANTS
    MaxSize,    \* bound: elements in the vector
    MaxItems,   \* bound: elements inserted by one call
    MaxReserve, \* bound: reserve()
    MaxCopies   \* bound: copies until one throws; more than any call makes

VARIABLES
    cells,
    start, finish, end_of_storage,
    thrown,     \* the last call ended with an exception
    fault,
    promised        \* what the vector is to hold

vectorvars == << cells, start, finish, end_of_storage, thrown, fault, promised >>

VectorInit ==
    /\ cells = [b \in {0} \cup Block |-> no_cells]
    /\ start = null /\ finish = null /\ end_of_storage = null
    /\ thrown = FALSE
    /\ fault = FALSE
    /\ promised = << >>

-----------------------------------------------------------------------------
size == minus(finish, start)

capacity == minus(end_of_storage, start)

at(k) == plus(start, k)

elements_in(c, first, n) == [k \in 1..n |-> c[first[1]][first[2] + k - 1]]

\* What a const _Tp& argument can refer to
Reference == Value \cup {at(k) : k \in 0..(size - 1)}

position == {at(k) : k \in 0..size}

\* A vector during an operation: its memory and its pointers
operand(fuel) ==
    [m |-> [cells |-> cells, fuel |-> fuel, thrown |-> FALSE, fault |-> fault],
     start |-> start, finish |-> finish, end_of_storage |-> end_of_storage]

with(v, m) == [v EXCEPT !.m = m]

\* ++_M_finish and the like, where no exception left before
finish_at(v, p) == IF v.m.thrown THEN v ELSE [v EXCEPT !.finish = p]

\* The call that made v ends.  It is to leave goal behind; if it throws, the
\* old elements, or, where it changes them in place, any elements.
done(v, goal, in_place) ==
    /\ cells' = v.m.cells
    /\ start' = v.start
    /\ finish' = v.finish
    /\ end_of_storage' = v.end_of_storage
    /\ thrown' = v.m.thrown
    /\ fault' = v.m.fault
    /\ promised' = IF ~v.m.thrown THEN goal
               ELSE IF in_place THEN elements_in(v.m.cells, v.start, minus(v.finish, v.start))
               ELSE promised

-----------------------------------------------------------------------------
\* Give up the block of v for one built at p in memory m.
replace(v, m, p, n, len) ==
    [m |-> deallocate(destroy(m, v.start, v.finish), v.start, minus(v.end_of_storage, v.start)),
     start |-> p, finish |-> plus(p, n), end_of_storage |-> plus(p, len)]

\* Faulty: a new block is not given back when a copy throws.
abandon_block(v, m, first, last, len) == with(v, destroy(m, first, last))

\* catch(...): the elements of the new block go, then the block.
abandon(v, m, first, last, len) == with(v, deallocate(destroy(m, first, last), first, len))

max(a, b) == IF a < b THEN b ELSE a

\* The capacity after an insertion of n elements into a full vector
grown(n) == size + max(size, n)

\* The three reallocating insertions: the elements in front of pos, the new
\* ones, the others.
reallocate(v, pos, items) ==
    LET len == grown(Len(items))
        new == allocate(v.m, len)
        before == minus(pos, v.start)
        m1 == uninitialized_copy(allocated(v.m, len), v.start, pos, new)
        m2 == uninitialized_items(m1, items, plus(new, before))
        m3 == uninitialized_copy(m2, pos, v.finish, plus(new, before + Len(items)))
        built == IF m1.thrown THEN new
                 ELSE IF m2.thrown THEN plus(new, before)
                 ELSE plus(new, before + Len(items))
    IN  IF m3.thrown THEN abandon(v, m3, new, built, len)
        ELSE replace(v, m3, new, minus(v.finish, v.start) + Len(items), len)

\* Faulty: the argument is read again after the elements have moved.
insert_aux_late(v, pos, r) ==
    LET v1 == finish_at(with(v, construct(v.m, v.finish, read(v.m, plus(v.finish, -1)))),
                        plus(v.finish, 1))
        m3 == copy_backward(v1.m, pos, plus(v1.finish, -2), plus(v1.finish, -1))
    IN  IF v.finish = v.end_of_storage THEN reallocate(v, pos, << r >>)
        ELSE IF v1.m.thrown THEN v1
        ELSE with(v1, assign(m3, pos, read(m3, r)))

\* _M_insert_aux: move the elements behind pos, the last into a raw cell.
insert_aux(v, pos, r) ==
    LET v1 == finish_at(with(v, construct(v.m, v.finish, read(v.m, plus(v.finish, -1)))),
                        plus(v.finish, 1))
        x_copy == read(v1.m, r)
        m2 == temporary(v1.m)
        m3 == copy_backward(m2, pos, plus(v1.finish, -2), plus(v1.finish, -1))
    IN  IF v.finish = v.end_of_storage THEN reallocate(v, pos, << r >>)
        ELSE IF v1.m.thrown THEN v1
        ELSE IF m2.thrown THEN with(v1, m2)
        ELSE with(v1, assign(m3, pos, x_copy))

\* Insert at the end or elsewhere; push_back is the insertion at end().
insert_one(v, pos, r) ==
    IF v.finish # v.end_of_storage /\ pos = v.finish
    THEN finish_at(with(v, construct(v.m, v.finish, read(v.m, r))), plus(v.finish, 1))
    ELSE insert_aux(v, pos, r)

\* There is room: items replace the elements behind pos, which move back, those
\* that go behind the old finish into raw cells.
insert_room(v, pos, items) ==
    LET n == Len(items)
        elems_after == minus(v.finish, pos)
        \* more elements behind pos than items
        a1 == finish_at(with(v, uninitialized_copy(v.m, plus(v.finish, -n), v.finish, v.finish)),
                        plus(v.finish, n))
        a2 == copy_backward(a1.m, pos, plus(v.finish, -n), v.finish)
        \* the last items behind the old finish
        b1 == finish_at(with(v, uninitialized_items(v.m, SubSeq(items, elems_after + 1, n),
                                                    v.finish)),
                        plus(v.finish, n - elems_after))
        b2 == finish_at(with(b1, uninitialized_copy(b1.m, pos, v.finish, b1.finish)),
                        plus(b1.finish, elems_after))
    IN  IF elems_after > n
        THEN IF a1.m.thrown THEN a1 ELSE with(a1, copy_items(a2, items, pos))
        ELSE IF b1.m.thrown THEN b1
        ELSE IF b2.m.thrown THEN b2
        ELSE with(b2, copy_items(b2.m, SubSeq(items, 1, elems_after), pos))

\* Faulty: the last cell is never used.
has_room_strict(v, n) == minus(v.end_of_storage, v.finish) > n

has_room(v, n) == minus(v.end_of_storage, v.finish) >= n

range_insert(v, pos, items) ==
    IF items = << >> THEN v
    ELSE IF has_room(v, Len(items)) THEN insert_room(v, pos, items)
    ELSE reallocate(v, pos, items)

repeated(n, r) == [k \in 1..n |-> r]

\* Faulty: the elements are filled in from the argument, not from a copy.
fill_insert_uncopied(v, pos, n, r) == range_insert(v, pos, repeated(n, r))

\* _M_fill_insert copies its argument only where elements move in place.
fill_insert(v, pos, n, r) ==
    LET x_copy == read(v.m, r)
        m1 == temporary(v.m)
    IN  IF n = 0 THEN v
        ELSE IF ~has_room(v, n) THEN reallocate(v, pos, repeated(n, r))
        ELSE IF m1.thrown THEN with(v, m1)
        ELSE insert_room(with(v, m1), pos, repeated(n, x_copy))

\* erase(first, last); erase(position) and clear() are calls of it.
erase_range(v, first, last) ==
    LET m1 == copy(v.m, last, v.finish, first)
        new_finish == plus(first, minus(v.finish, last))
    IN  IF m1.thrown THEN with(v, m1)
        ELSE finish_at(with(v, destroy(m1, new_finish, v.finish)), new_finish)

\* _M_allocate_and_copy of items into a block of len cells, which replaces v's
rebuild(v, items, len) ==
    LET new == allocate(v.m, len)
        m1 == uninitialized_items(allocated(v.m, len), items, new)
    IN  IF m1.thrown THEN abandon(v, m1, new, new, len)
        ELSE replace(v, m1, new, Len(items), len)

own_items == [k \in 1..size |-> at(k - 1)]

\* Overwrite the elements there are, construct the others behind them.
overwrite_and_extend(v, items) ==
    LET n == minus(v.finish, v.start)
        m1 == copy_items(v.m, SubSeq(items, 1, n), v.start)
    IN  IF m1.thrown THEN with(v, m1)
        ELSE finish_at(with(v, uninitialized_items(m1, SubSeq(items, n + 1, Len(items)), v.finish)),
                       plus(v.start, Len(items)))

\* Overwrite the first elements, drop the others.
overwrite_and_drop(v, items) ==
    LET m1 == copy_items(v.m, items, v.start)
    IN  IF m1.thrown THEN with(v, m1)
        ELSE erase_range(with(v, m1), plus(v.start, Len(items)), v.finish)

\* operator= and _M_fill_assign, which fills with one reference
assign_items(v, items) ==
    IF Len(items) > capacity THEN rebuild(v, items, Len(items))
    ELSE IF Len(items) > size THEN overwrite_and_extend(v, items)
    ELSE overwrite_and_drop(v, items)

-----------------------------------------------------------------------------
\* What the operations promise, on sequences of elements
value(r) == read(operand(0).m, r)

values(items) == [k \in DOMAIN items |-> value(items[k])]

index(p) == minus(p, start)

inserted(p, items) ==
    SubSeq(promised, 1, index(p)) \o values(items) \o SubSeq(promised, index(p) + 1, Len(promised))

in_place(n) == has_room(operand(0), n)

insert_value(p, r, fuel) ==
    /\ size < MaxSize
    /\ done(insert_one(operand(fuel), p, r), inserted(p, << r >>),
            in_place(1) /\ p # finish)

insert_n(p, n, r, fuel) ==
    /\ size + n <= MaxSize
    /\ done(fill_insert(operand(fuel), p, n, r), inserted(p, repeated(n, r)), in_place(n))

insert_range(p, items, fuel) ==
    /\ size + Len(items) <= MaxSize
    /\ done(range_insert(operand(fuel), p, items), inserted(p, items), in_place(Len(items)))

erase_values(first, last, fuel) ==
    /\ index(first) <= index(last)
    /\ done(erase_range(operand(fuel), first, last),
            SubSeq(promised, 1, index(first)) \o SubSeq(promised, index(last) + 1, Len(promised)), TRUE)

pop_back ==
    /\ size > 0
    /\ LET v == operand(0)
       IN  done([v EXCEPT !.m = destroy(v.m, plus(finish, -1), finish), !.finish = plus(finish, -1)],
                SubSeq(promised, 1, size - 1), FALSE)

resize(n, r, fuel) ==
    done(IF n < size THEN erase_range(operand(fuel), at(n), finish)
         ELSE fill_insert(operand(fuel), finish, n - size, r),
         IF n < size THEN SubSeq(promised, 1, n) ELSE inserted(finish, repeated(n - size, r)),
         in_place(n - size))

reserve(n, fuel) ==
    /\ capacity < n
    /\ done(rebuild(operand(fuel), own_items, n), promised, FALSE)

assign_n(n, r, fuel) ==
    done(assign_items(operand(fuel), repeated(n, r)), values(repeated(n, r)), n <= capacity)

copy_from(items, fuel) ==
    done(assign_items(operand(fuel), items), values(items), Len(items) <= capacity)

\* The vector goes out of scope; the next one starts empty.
destruct ==
    done(replace(operand(0), operand(0).m, null, 0, 0), << >>, FALSE)

Items == UNION {[1..n -> Value] : n \in 0..MaxItems}

VectorNext ==
    \/ pop_back \/ destruct
    \/ \E fuel \in 0..MaxCopies :
        \/ \E n \in 0..MaxReserve : reserve(n, fuel)
        \/ \E items \in Items : copy_from(items, fuel)
        \/ \E p \in position :
            \/ \E q \in position : erase_values(p, q, fuel)
            \/ \E items \in Items : insert_range(p, items, fuel)
            \/ \E r \in Reference :
                  insert_value(p, r, fuel) \/ \E n \in 0..MaxItems : insert_n(p, n, r, fuel)
        \/ \E n \in 0..MaxSize, r \in Reference : resize(n, r, fuel) \/ assign_n(n, r, fuel)

VectorSpec == VectorInit /\ [][VectorNext]_vectorvars

-----------------------------------------------------------------------------
\* Whatever threw and when, the cells up to finish hold elements, the cells up
\* to end_of_storage none, every other block was given back, and nothing was
\* read, assigned or destroyed that was not there.
LifetimesExact ==
    /\ ~fault
    /\ 0 <= size /\ size <= capacity
    /\ \A b \in {0} \cup Block :
          DOMAIN cells[b] = IF b = start[1] THEN 0..(capacity - 1) ELSE {}
    /\ \A k \in DOMAIN cells[start[1]] : (cells[start[1]][k] \in Value) = (k < size)

\* An operation leaves what it promises, also when its argument is a reference
\* to an element that it moves; a reallocation that throws leaves the elements
\* as they were.
ContentsExact == elements_in(cells, start, size) = promised

=============================================================================
