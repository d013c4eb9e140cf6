------------------------------ MODULE StlList -------------------------------
(***************************************************************************)
(* list of stl/Jimp_STL/stl_list.h on its nodes: rings that are cut and    *)
(* joined by transfer().  insert, erase, clear and splice are one step;    *)
(* the loops of remove, unique, merge, reverse and sort take one step for  *)
(* each pass, with the iterators they keep.                                *)
(*                                                                         *)
(* A ring's header node is named after the list object that owns it, so    *)
(* swap() of two headers renames them: no iterator outlives an operation.  *)
(*                                                                         *)
(* insert() gets its node from _M_get_node(__x) (:272), which takes no     *)
(* argument and builds no element; _M_create_node(__x) is taken for it.    *)
(***************************************************************************)
EXTENDS Integers, Sequences, FiniteSets, Functions

CONSTANTS
    Object,     \* the program's list objects
    Node,       \* the nodes malloc can return
    Key,        \* the elements
    MaxFill,    \* the last of the counters of sort(); the code has 64
    NULL

carry == << "carry" >>

counter(k) == << "counter", k >>

\* The lists sort() has on its stack
Temporary == {carry} \cup {counter(k) : k \in 0..MaxFill}

ListObject == Object \cup Temporary

Place == ListObject \cup Node

\* The powers of two
power[k \in 0..(MaxFill + 1)] == IF k = 0 THEN 1 ELSE 2 * power[k - 1]

ASSUME StlListAssumption ==
    /\ IsFiniteSet(Node)
    /\ Key \subseteq Int
    /\ MaxFill \in Nat
    /\ NULL \notin Place /\ NULL \notin Key
    /\ ListObject \cap Node = {} /\ Object \cap Temporary = {}
    /\ Cardinality(Node) < power[MaxFill + 1]

VARIABLES
    next, prev,     \* _M_next, _M_prev; NULL in nodes that are free
    data,           \* _M_data; NULL in nodes that are free
    pc,             \* the loop being executed, or "idle"
    local,          \* its local variables
    want            \* what the lists are to hold when it is done

heap == << next, prev, data >>

listvars == << next, prev, data, pc, local, want >>

no_local == [this |-> NULL, x |-> NULL, first |-> NULL, first2 |-> NULL,
             value |-> NULL, i |-> 0, fill |-> 0, ret |-> "idle"]

\* Every list object is constructed empty: _List_base(const allocator_type&)
ListInit ==
    /\ next = [p \in Place |-> IF p \in ListObject THEN p ELSE NULL]
    /\ prev = next
    /\ data = [n \in Node |-> NULL]
    /\ pc = "idle"
    /\ local = no_local
    /\ want = [l \in Object |-> << >>]

-----------------------------------------------------------------------------
begin(l) == next[l]

end(l) == l

empty(l) == next[l] = l

\* The nodes a loop from begin() to end() sees.  No list is longer than longest
\* unless its loop never gets to end(); then they are cut off there.
longest == Cardinality(Node)

contents(l) ==
    LET seen[k \in 0..(longest + 1)] ==
            IF k = 0 THEN << >>
            ELSE LET before == seen[k - 1]
                     p == next[IF before = << >> THEN l ELSE before[Len(before)]]
                 IN  IF p \in {end(l), NULL} THEN before ELSE Append(before, p)
    IN  seen[longest + 1]

size_of(l) == Len(contents(l))

nodes(l) == Range(contents(l))

places(l) == nodes(l) \cup {end(l)}

idle(l) == pc = "idle" /\ l \in Object

-----------------------------------------------------------------------------
\* What the operations promise, on sequences of nodes
\* The index in front of which an iterator at p inserts
place_of(s, p) == IF p \in Range(s) THEN CHOOSE k \in DOMAIN s : s[k] = p ELSE Len(s) + 1

insert_at(s, k, t) == SubSeq(s, 1, k - 1) \o t \o SubSeq(s, k, Len(s))

without(s, S) ==
    LET kept[k \in 0..Len(s)] ==
            IF k = 0 THEN << >>
            ELSE IF s[k] \in S THEN kept[k - 1] ELSE Append(kept[k - 1], s[k])
    IN  kept[Len(s)]

\* Where a stable sort puts the k-th element
rank(s, k) ==
    Cardinality({j \in DOMAIN s : \/ data[s[j]] < data[s[k]]
                                  \/ data[s[j]] = data[s[k]] /\ j <= k})

sorted(s) == [r \in DOMAIN s |-> s[CHOOSE k \in DOMAIN s : rank(s, k) = r]]

uniques(s) ==
    {s[k] : k \in {j \in DOMAIN s : j > 1 /\ data[s[j - 1]] = data[s[j]]}}

reversed(s) == [k \in DOMAIN s |-> s[Len(s) + 1 - k]]

-----------------------------------------------------------------------------
\* __tmp between __position and its predecessor
link(n, position) ==
    /\ next' = [next EXCEPT ![n] = position, ![prev[position]] = n]
    /\ prev' = [prev EXCEPT ![n] = prev[position], ![position] = n]

\* _M_create_node: which free node malloc returns makes no difference.
new_node == CHOOSE n \in Node : next[n] = NULL

\* push_front, push_back and the insertion of a range or of copies are
\* repeated calls of this.
insert(l, position, v) ==
    /\ idle(l)
    /\ \E n \in Node : next[n] = NULL
    /\ link(new_node, position)
    /\ data' = [data EXCEPT ![new_node] = v]
    /\ want' = [want EXCEPT ![l] = insert_at(@, place_of(@, position), << new_node >>)]
    /\ UNCHANGED << pc, local >>

\* Unlink n, destroy its element and give the node back.
unlink(n) ==
    /\ next' = [next EXCEPT ![prev[n]] = next[n], ![n] = NULL]
    /\ prev' = [prev EXCEPT ![next[n]] = prev[n], ![n] = NULL]
    /\ data' = [data EXCEPT ![n] = NULL]

\* pop_front and pop_back are calls of this.
erase(l, n) ==
    /\ idle(l)
    /\ unlink(n)
    /\ want' = [want EXCEPT ![l] = without(@, {n})]
    /\ UNCHANGED << pc, local >>

clear(l) ==
    /\ idle(l)
    /\ next' = [p \in Place |-> IF p = l THEN l ELSE IF p \in nodes(l) THEN NULL ELSE next[p]]
    /\ prev' = [p \in Place |-> IF p = l THEN l ELSE IF p \in nodes(l) THEN NULL ELSE prev[p]]
    /\ data' = [n \in Node |-> IF n \in nodes(l) THEN NULL ELSE data[n]]
    /\ want' = [want EXCEPT ![l] = << >>]
    /\ UNCHANGED << pc, local >>

\* Faulty: the node in front of __last keeps its next pointer.
transfer_open(position, first, last) ==
    IF position = last THEN UNCHANGED << next, prev >>
    ELSE /\ next' = [next EXCEPT ![prev[first]] = last, ![prev[position]] = first]
         /\ prev' = [prev EXCEPT ![position] = prev[last],
                                 ![last] = prev[first], ![first] = prev[position]]

\* Move the nodes of [first, last) in front of position.
transfer(position, first, last) ==
    IF position = last THEN UNCHANGED << next, prev >>
    ELSE /\ next' = [next EXCEPT ![prev[last]] = position,
                                 ![prev[first]] = last, ![prev[position]] = first]
         /\ prev' = [prev EXCEPT ![position] = prev[last],
                                 ![last] = prev[first], ![first] = prev[position]]

\* splice of a whole list
splice(l, position, x) ==
    /\ idle(l)
    /\ ~empty(x)
    /\ transfer(position, begin(x), end(x))
    /\ want' = [want EXCEPT ![l] = insert_at(@, place_of(@, position), want[x]), ![x] = << >>]
    /\ UNCHANGED << data, pc, local >>

\* splice of one element, which may come from the same list
splice_one(l, position, x, n) ==
    /\ idle(l)
    /\ IF position \in {n, next[n]} THEN UNCHANGED << next, prev >>
       ELSE transfer(position, n, next[n])
    /\ want' =
         IF position = n THEN want
         ELSE LET rest == [want EXCEPT ![x] = without(@, {n})]
              IN  [rest EXCEPT ![l] = insert_at(@, place_of(@, position), << n >>)]
    /\ UNCHANGED << data, pc, local >>

\* splice of a range that position is not in
splice_range(l, position, x, first, last) ==
    LET range == SubSeq(want[x], place_of(want[x], first), place_of(want[x], last) - 1)
        rest == [want EXCEPT ![x] = without(@, Range(range))]
    IN  /\ idle(l)
        /\ first # last
        /\ place_of(want[x], first) < place_of(want[x], last)
        /\ position \notin Range(range)
        /\ transfer(position, first, last)
        /\ want' = [rest EXCEPT ![l] = insert_at(@, place_of(@, position), range)]
        /\ UNCHANGED << data, pc, local >>

-----------------------------------------------------------------------------
\* Enter a loop: what it has to achieve, its pc and its local variables.
call(goal, loop, variables) ==
    /\ want' = goal
    /\ pc' = loop
    /\ local' = variables

\* A loop's next pass
again(variables) == local' = variables /\ UNCHANGED << pc, want >>

return == pc' = "idle" /\ local' = no_local /\ UNCHANGED want

remove(l, v) ==
    /\ idle(l)
    /\ call([want EXCEPT ![l] = without(@, {n \in Node : data[n] = v})], "remove",
            [no_local EXCEPT !.this = l, !.first = begin(l), !.value = v])
    /\ UNCHANGED heap

\* Faulty: an element that stays is looked at again.
remove_pass_stuck ==
    /\ pc = "remove"
    /\ IF local.first = end(local.this) THEN return /\ UNCHANGED heap
       ELSE IF data[local.first] = local.value
       THEN unlink(local.first) /\ again([local EXCEPT !.first = next[local.first]])
       ELSE UNCHANGED heap /\ again(local)

\* Faulty: the successor is read from the node after it was given back.
remove_pass_late ==
    /\ pc = "remove"
    /\ IF local.first = end(local.this) THEN return /\ UNCHANGED heap
       ELSE /\ IF data[local.first] = local.value THEN unlink(local.first) ELSE UNCHANGED heap
            /\ again([local EXCEPT !.first = next'[local.first]])

remove_pass ==
    /\ pc = "remove"
    /\ IF local.first = end(local.this) THEN return /\ UNCHANGED heap
       ELSE /\ IF data[local.first] = local.value THEN unlink(local.first) ELSE UNCHANGED heap
            /\ again([local EXCEPT !.first = next[local.first]])

unique(l) ==
    /\ idle(l)
    /\ ~empty(l)
    /\ call([want EXCEPT ![l] = without(@, uniques(@))], "unique",
            [no_local EXCEPT !.this = l, !.first = begin(l)])
    /\ UNCHANGED heap

\* __next is always the successor of __first.
unique_pass ==
    LET following == next[local.first]
    IN  /\ pc = "unique"
        /\ IF following = end(local.this) THEN return /\ UNCHANGED heap
           ELSE IF data[local.first] = data[following] THEN unlink(following) /\ again(local)
           ELSE UNCHANGED heap /\ again([local EXCEPT !.first = following])

-----------------------------------------------------------------------------
\* merge() of x into this, to go on at ret
merging(l, x, variables, ret) ==
    /\ pc' = "merge"
    /\ local' = [variables EXCEPT !.this = l, !.x = x, !.ret = ret,
                                  !.first = begin(l), !.first2 = begin(x)]
    /\ UNCHANGED heap

ascending(l) ==
    \A k \in 1..(size_of(l) - 1) : data[contents(l)[k]] <= data[contents(l)[k + 1]]

\* Both lists have to be sorted.
merge(l, x) ==
    /\ idle(l)
    /\ ascending(l) /\ ascending(x)
    /\ merging(l, x, no_local, "idle")
    /\ want' = [want EXCEPT ![l] = sorted(@ \o want[x]), ![x] = << >>]

merge_return ==
    /\ pc' = local.ret
    /\ local' = IF local.ret = "idle" THEN no_local
                ELSE [local EXCEPT !.first = NULL, !.first2 = NULL]

\* Faulty: of equal elements the one of x comes first.
goes_first_equal == data[local.first2] <= data[local.first]

\* *__first2 < *__first1
goes_first == data[local.first2] < data[local.first]

merge_pass ==
    /\ pc = "merge"
    /\ local.first # end(local.this) /\ local.first2 # end(local.x)
    /\ IF goes_first
       THEN /\ transfer(local.first, local.first2, next[local.first2])
            /\ again([local EXCEPT !.first2 = next[local.first2]])
       ELSE /\ UNCHANGED << next, prev >>
            /\ again([local EXCEPT !.first = next[local.first]])
    /\ UNCHANGED data

\* What is left of x goes to the end.
merge_rest ==
    /\ pc = "merge"
    /\ local.first = end(local.this) \/ local.first2 = end(local.x)
    /\ IF local.first2 # end(local.x)
       THEN transfer(end(local.this), local.first2, end(local.x))
       ELSE UNCHANGED << next, prev >>
    /\ merge_return
    /\ UNCHANGED << data, want >>

reverse(l) ==
    /\ idle(l)
    /\ call([want EXCEPT ![l] = reversed(@)], "reverse",
            [no_local EXCEPT !.this = l, !.first = l])
    /\ UNCHANGED heap

\* __List_base_reverse: exchange the pointers of a node, go to its successor.
reverse_pass ==
    LET tmp == local.first
    IN  /\ pc = "reverse"
        /\ next' = [next EXCEPT ![tmp] = prev[tmp]]
        /\ prev' = [prev EXCEPT ![tmp] = next[tmp]]
        /\ IF next[tmp] = local.this THEN return ELSE again([local EXCEPT !.first = next[tmp]])
        /\ UNCHANGED data

-----------------------------------------------------------------------------
\* Exchange what two list objects hold.
swap(a, b) ==
    LET other(p) == IF p = a THEN b ELSE IF p = b THEN a ELSE p
    IN  /\ next' = [p \in Place |-> other(next[other(p)])]
        /\ prev' = [p \in Place |-> other(prev[other(p)])]
        /\ UNCHANGED data

\* A merge sort with a carry and counters, as in the addition of binary numbers
sort(l) ==
    /\ idle(l)
    /\ ~empty(l) /\ next[begin(l)] # end(l)
    /\ call([want EXCEPT ![l] = sorted(@)], "take", [no_local EXCEPT !.value = l])
    /\ UNCHANGED heap

\* The list being sorted; this and x are the arguments of the inner merges.
sortee == local.value

\* __carry.splice(__carry.begin(), *this, begin())
sort_take ==
    /\ pc = "take"
    /\ ~empty(sortee)
    /\ transfer(begin(carry), begin(sortee), next[begin(sortee)])
    /\ pc' = "carry"
    /\ local' = [local EXCEPT !.i = 0]
    /\ UNCHANGED << data, want >>

\* Faulty: the counter that is merged into is not tested for its end.
occupied_any == local.i < local.fill

\* __i < __fill && !__counter[__i].empty()
occupied == local.i < local.fill /\ ~empty(counter(local.i))

sort_merge ==
    /\ pc = "carry"
    /\ occupied
    /\ merging(counter(local.i), carry, local, "carried")
    /\ UNCHANGED want

sort_carried ==
    /\ pc = "carried"
    /\ swap(carry, counter(local.i))
    /\ pc' = "carry"
    /\ local' = [local EXCEPT !.i = @ + 1]
    /\ UNCHANGED want

sort_put ==
    /\ pc = "carry"
    /\ ~occupied
    /\ swap(carry, counter(local.i))
    /\ pc' = "take"
    /\ local' = [local EXCEPT !.fill = IF local.i = @ THEN @ + 1 ELSE @]
    /\ UNCHANGED want

sort_taken ==
    /\ pc = "take"
    /\ empty(sortee)
    /\ pc' = "collect"
    /\ local' = [local EXCEPT !.i = 1]
    /\ UNCHANGED << heap, want >>

sort_collect ==
    /\ pc = "collect"
    /\ local.i < local.fill
    /\ merging(counter(local.i), counter(local.i - 1), [local EXCEPT !.i = @ + 1], "collect")
    /\ UNCHANGED want

\* swap(__counter[__fill - 1]); the destructors of carry and the counters
\* free what they hold.
sort_end ==
    /\ pc = "collect"
    /\ local.i >= local.fill
    /\ swap(sortee, counter(local.fill - 1))
    /\ return

-----------------------------------------------------------------------------
pass ==
    \/ remove_pass \/ unique_pass \/ merge_pass \/ merge_rest \/ reverse_pass
    \/ sort_take \/ sort_merge \/ sort_carried \/ sort_put \/ sort_taken
    \/ sort_collect \/ sort_end

ListNext ==
    \/ pass
    \/ \E l \in Object :
        \/ \E v \in Key : remove(l, v) \/ \E p \in places(l) : insert(l, p, v)
        \/ \E n \in nodes(l) : erase(l, n)
        \/ clear(l) \/ unique(l) \/ reverse(l) \/ sort(l)
        \/ \E x \in Object \ {l} : merge(l, x) \/ \E p \in places(l) : splice(l, p, x)
        \/ \E x \in Object : \E p \in places(l), n \in nodes(x) :
              \/ splice_one(l, p, x, n)
              \/ \E last \in places(x) : splice_range(l, p, x, n, last)

ListSpec == ListInit /\ [][ListNext]_listvars /\ WF_listvars(pass)

-----------------------------------------------------------------------------
ListTypeOK ==
    /\ next \in [Place -> Place \cup {NULL}]
    /\ prev \in [Place -> Place \cup {NULL}]
    /\ data \in [Node -> Key \cup {NULL}]
    /\ \A n \in Node : (next[n] = NULL) = (data[n] = NULL) /\ (prev[n] = NULL) = (data[n] = NULL)
    /\ local.fill \in 0..(MaxFill + 1)

\* The list that reverse() works on is half turned; the others are whole.
whole == {l \in ListObject : ~(pc = "reverse" /\ l = local.this)}

rings ==
    /\ \A l \in whole :
          /\ \A p \in places(l) : next[p] # NULL /\ prev[next[p]] = p /\ next[prev[p]] = p
          /\ \A m \in whole \ {l} : nodes(l) \cap nodes(m) = {}
    /\ whole = ListObject =>
          {n \in Node : next[n] # NULL} = UNION {nodes(l) : l \in ListObject}

\* Between any two passes, and in the midst of a sort, the lists are proper
\* rings both ways round, and every node in use, and no other, is in one of
\* them and only once, wherever transfer() cut and joined them.
RingsExact == ListTypeOK /\ (\A l \in whole : size_of(l) <= longest) /\ rings

\* The iterators of a loop are in the list they go through, never in a node
\* that was given back or moved to another list.
IteratorsValid ==
    /\ pc \in {"remove", "unique", "merge"} => local.first \in places(local.this)
    /\ pc = "merge" => local.first2 \in places(local.x)

\* The j-th counter holds 2^j elements or none: this is why 64 are enough.
CountersExact ==
    pc = "take" => \A j \in 0..(local.fill - 1) : size_of(counter(j)) \in {0, power[j]}

\* When an operation is done each list holds what the operation promises,
\* sort() and merge() being stable, and sort() leaves nothing in the temporary
\* lists for their destructors.
ResultsExact ==
    pc = "idle" =>
        /\ \A l \in Object : contents(l) = want[l]
        /\ \A l \in ListObject \ Object : empty(l)

\* No ring is ever tied so that a loop turns round in it for ever.
OperationsEnd == pc # "idle" ~> pc = "idle"

=============================================================================
