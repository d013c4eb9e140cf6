----------------------------- MODULE StlMemory ------------------------------
(***************************************************************************)
(* The memory under the containers of stl/Jimp_STL: blocks of cells in     *)
(* which elements are constructed, assigned and destroyed (stl_alloc.h,    *)
(* stl_construct.h, stl_uninitialized.h, stl_algobase.h).                  *)
(*                                                                         *)
(* An operator maps a memory m to the memory after it.  m.fuel counts the  *)
(* elements that can still be copied before a copy constructor or an       *)
(* assignment throws.  When m.thrown, what follows in a try block does not *)
(* run; m.fault records what C++ leaves undefined, and elements that are   *)
(* lost without being destroyed.                                           *)
(*                                                                         *)
(* Slips that do not compile are taken for what they evidently mean:       *)
(* construct and destroy are defined as _Construct and _Destroy, and       *)
(* uninitialized_copy does not pass its result on.                         *)
(***************************************************************************)
EXTENDS Integers, Sequences

CONSTANTS
    Block,      \* what malloc can return: blocks 1 and up; 0 is the null pointer
    Value,      \* the elements
    RAW         \* a cell without an element

ASSUME StlMemoryAssumption ==
    /\ Block \subseteq Nat \ {0}
    /\ RAW \notin Value
    /\ Value \cap (Nat \X Int) = {}     \* an element of the caller is no pointer
    /\ \E a, b \in Block : a # b        \* a reallocation needs a block beside the old one

null == << 0, 0 >>

no_cells == << >>

plus(p, k) == << p[1], p[2] + k >>

minus(p, q) == p[2] - q[2]

in_block(m, p) == p[2] \in DOMAIN m.cells[p[1]]

content_of(m, p) == IF in_block(m, p) THEN m.cells[p[1]][p[2]] ELSE RAW

\* A reference is an element of the caller or a pointer into a block.
read(m, r) == IF r \in Value THEN r ELSE content_of(m, r)

\* The n pointers from p on
from(p, n) == [k \in 1..n |-> plus(p, k - 1)]

\* The n pointers in front of p, from the last one down
back_from(p, n) == [k \in 1..n |-> plus(p, -k)]

-----------------------------------------------------------------------------
free_block(m) == CHOOSE b \in Block : m.cells[b] = no_cells

allocate(m, n) == IF n = 0 THEN null ELSE << free_block(m), 0 >>

allocated(m, n) ==
    IF n = 0 THEN m ELSE [m EXCEPT !.cells[free_block(m)] = [k \in 0..(n - 1) |-> RAW]]

\* Elements in a block that is given back are lost.
deallocate(m, p, n) ==
    IF n = 0 THEN m
    ELSE [m EXCEPT !.cells[p[1]] = no_cells,
                   !.fault = @ \/ DOMAIN m.cells[p[1]] # 0..(n - 1)
                               \/ \E k \in DOMAIN m.cells[p[1]] : m.cells[p[1]][k] # RAW]

\* Any copy of an element, a temporary among them, may throw.
temporary(m) ==
    IF m.fuel = 0 THEN [m EXCEPT !.thrown = TRUE] ELSE [m EXCEPT !.fuel = @ - 1]

put(m, p, v, allowed) ==
    LET copied == temporary(m)
    IN  IF copied.thrown THEN copied
        ELSE [copied EXCEPT !.cells[p[1]][p[2]] = v,
                            !.fault = @ \/ ~in_block(m, p) \/ v \notin Value
                                        \/ content_of(m, p) \notin allowed]

construct(m, p, v) == IF m.thrown THEN m ELSE put(m, p, v, {RAW})

assign(m, p, v) == IF m.thrown THEN m ELSE put(m, p, v, Value)

\* Runs in catch blocks too.
destroy(m, first, last) ==
    LET cell(k) == << first[1], first[2] + k >>
        n == minus(last, first)
    IN  [m EXCEPT !.cells[first[1]] =
                      [k \in DOMAIN @ |-> IF k \in first[2]..(last[2] - 1) THEN RAW ELSE @[k]],
                  !.fault = @ \/ \E k \in 0..(n - 1) : content_of(m, cell(k)) = RAW]

-----------------------------------------------------------------------------
\* The elements copied between two memories of one operation
copies(m, n) == m.fuel - n.fuel

\* The items, or what they refer to, are put into the cells that to points to,
\* the first n, in this order, as far as nothing throws.
put_all(m, n, items, to, allowed) ==
    LET after[k \in 0..n] ==
            IF k = 0 THEN m
            ELSE LET before == after[k - 1]
                 IN  IF before.thrown THEN before
                     ELSE put(before, to[k], read(before, items[k]), allowed)
    IN  IF n < 0 THEN [m EXCEPT !.fault = TRUE] ELSE after[n]

\* uninitialized_copy and uninitialized_fill_n, destroying the new elements
\* when one of them throws
uninitialized(m, n, items, result) ==
    LET built == put_all(m, n, items, from(result, n), {RAW})
    IN  IF ~m.thrown /\ built.thrown
        THEN destroy(built, result, plus(result, copies(m, built)))
        ELSE built

uninitialized_copy(m, first, last, result) ==
    LET n == minus(last, first) IN uninitialized(m, n, from(first, n), result)

\* ... from an array of the caller, or of references to one element
uninitialized_items(m, items, result) == uninitialized(m, Len(items), items, result)

copy(m, first, last, result) ==
    LET n == minus(last, first) IN put_all(m, n, from(first, n), from(result, n), Value)

\* Faulty: from the front, over elements still to be copied
copy_backward_forward(m, first, last, result) ==
    copy(m, first, last, plus(result, -minus(last, first)))

copy_backward(m, first, last, result) ==
    LET n == minus(last, first)
    IN  put_all(m, n, back_from(last, n), back_from(result, n), Value)

\* copy from an array of the caller; fill and fill_n, whose items are the same
copy_items(m, items, result) ==
    put_all(m, Len(items), items, from(result, Len(items)), Value)

=============================================================================
