----------------------------- MODULE LinkedList -----------------------------
(***************************************************************************)
(* The doubly linked lists of lib/kernel/list.c on their pointers.  Every  *)
(* list has a head and a tail sentinel; the elements are embedded in their *)
(* owners (general_tag) and keep their pointers when they are removed.     *)
(* Every caller runs with interrupts disabled, so an operation is one      *)
(* step; its statements are kept in their order.                           *)
(***************************************************************************)
EXTENDS Naturals, FiniteSets

CONSTANTS
    ListId,     \* the lists, for instance thread_ready_list and sema.waiters
    Elem,
    NULL

head(l) == << l, "head" >>

tail(l) == << l, "tail" >>

Node == Elem \cup {head(l) : l \in ListId} \cup {tail(l) : l \in ListId}

ASSUME LinkedListAssumption ==
    /\ IsFiniteSet(Elem)
    /\ NULL \notin Node
    /\ \A l \in ListId : head(l) \notin Elem /\ tail(l) \notin Elem

VARIABLES prev, next

pointers == << prev, next >>

\* list_init for every list; a task_struct starts as zeros
list_init ==
    /\ prev = [n \in Node |-> IF \E l \in ListId : n = tail(l)
                              THEN head(CHOOSE l \in ListId : n = tail(l)) ELSE NULL]
    /\ next = [n \in Node |-> IF \E l \in ListId : n = head(l)
                              THEN tail(CHOOSE l \in ListId : n = head(l)) ELSE NULL]

-----------------------------------------------------------------------------
\* The k-th node a loop "elem = elem->next" sees.  No chain is longer than
\* longest unless it has a cycle, in which the loop would run for ever.
longest == Cardinality(Elem)

follow(pointer, n) == IF n \in Node THEN pointer[n] ELSE NULL

walk(l) ==
    LET node[k \in 0..longest] ==
            IF k = 0 THEN next[head(l)] ELSE follow(next, node[k - 1])
    IN  node

\* The number of elements in front of the tail
list_len(l) ==
    CHOOSE k \in 0..longest :
        walk(l)[k] = tail(l) /\ \A j \in 0..(k - 1) : walk(l)[j] # tail(l)

elem_find(l, e) == \E k \in 0..(list_len(l) - 1) : walk(l)[k] = e

list_empty(l) == next[head(l)] = tail(l)

\* Faulty: before->prev = elem is missing.
list_insert_before_forward(before, e) ==
    /\ next' = [next EXCEPT ![e] = before, ![prev[before]] = e]
    /\ prev' = [prev EXCEPT ![e] = prev[before]]

\* elem->next = before; elem->prev = before->prev; before->prev->next = elem;
\* before->prev = elem
list_insert_before(before, e) ==
    /\ next' = [next EXCEPT ![e] = before, ![prev[before]] = e]
    /\ prev' = [prev EXCEPT ![e] = prev[before], ![before] = e]

unlinked(e) == \A l \in ListId : ~elem_find(l, e)

\* The protocol of the kernel, which its callers keep: an element is in no list
\* when it is inserted.  thread.c and sync.c ASSERT less, that it is not in the
\* list it is inserted into.
list_push(l, e) == unlinked(e) /\ list_insert_before(next[head(l)], e)

\* Faulty: the element goes to the other end.
list_append_first(l, e) == unlinked(e) /\ list_insert_before(next[head(l)], e)

list_append(l, e) == unlinked(e) /\ list_insert_before(tail(l), e)

unlink(e) ==
    /\ prev' = [prev EXCEPT ![next[e]] = prev[e]]
    /\ next' = [next EXCEPT ![prev[e]] = next[e]]

list_remove(e) == ~unlinked(e) /\ unlink(e)

list_pop(l) == ~list_empty(l) /\ unlink(next[head(l)])

ListsNext ==
    \/ \E l \in ListId : list_pop(l) \/ \E e \in Elem : list_push(l, e) \/ list_append(l, e)
    \/ \E e \in Elem : list_remove(e)

ListsSpec == list_init /\ [][ListsNext]_pointers

-----------------------------------------------------------------------------
PointersOK == prev \in [Node -> Node \cup {NULL}] /\ next \in [Node -> Node \cup {NULL}]

\* A loop over a list ends: it reaches the tail of the list it started in.
LoopsEnd == \A l \in ListId : \E k \in 0..longest : walk(l)[k] = tail(l)

\* The chain of prev pointers is the chain of next pointers read backwards,
\* up to the sentinels, whatever pointers the removed elements still hold.
ChainsAgree ==
    \A l \in ListId :
        /\ prev[head(l)] = NULL
        /\ next[tail(l)] = NULL
        /\ prev[next[head(l)]] = head(l)
        /\ \A e \in Elem : elem_find(l, e) => prev[next[e]] = e /\ next[prev[e]] = e

\* No element is on two lists.
OnOneList == \A l, m \in ListId, e \in Elem : elem_find(l, e) /\ elem_find(m, e) => l = m

\* However the elements moved between the lists before.
WellFormed == PointersOK /\ LoopsEnd /\ ChainsAgree /\ OnOneList

Abstract ==
    INSTANCE AbstractLists WITH
        lists <- [l \in ListId |-> [i \in 1..list_len(l) |-> walk(l)[i - 1]]]

\* Every operation on the pointers is the one of its name on sequences, and
\* leaves the other lists alone.
ImplementsLists ==
    /\ Abstract!Init
    /\ [][/\ \A l \in ListId :
                /\ list_pop(l) => Abstract!pop(l)
                /\ \A e \in Elem : /\ list_append(l, e) => Abstract!append(l, e)
                                   /\ list_push(l, e) => Abstract!push(l, e)
          /\ \A e \in Elem : list_remove(e) => Abstract!remove(e)]_pointers

=============================================================================
