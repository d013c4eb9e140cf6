--------------------------- MODULE AbstractLists ----------------------------
(***************************************************************************)
(* What lib/kernel/list.c promises: lists that share a set of elements,    *)
(* every element on at most one of them, changed by the operations that    *)
(* module List defines on sequences.                                       *)
(***************************************************************************)
EXTENDS List

CONSTANTS ListId, Elem

VARIABLE lists

linked(e) == \E l \in ListId : elem_find(lists[l], e)

Init == lists = [l \in ListId |-> << >>]

append(l, e) == ~linked(e) /\ lists' = [lists EXCEPT ![l] = list_append(@, e)]

push(l, e) == ~linked(e) /\ lists' = [lists EXCEPT ![l] = list_push(@, e)]

pop(l) == ~list_empty(lists[l]) /\ lists' = [lists EXCEPT ![l] = list_pop(@)]

remove(e) ==
    \E l \in ListId : \E i \in 1..Len(lists[l]) :
        /\ lists[l][i] = e
        /\ lists' = [lists EXCEPT ![l] = SubSeq(@, 1, i - 1) \o SubSeq(@, i + 1, Len(@))]

Next ==
    \/ \E l \in ListId : pop(l) \/ \E e \in Elem : append(l, e) \/ push(l, e)
    \/ \E e \in Elem : remove(e)

Spec == Init /\ [][Next]_lists

=============================================================================
