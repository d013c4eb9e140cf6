-------------------------------- MODULE List --------------------------------
(***************************************************************************)
(* The lists of lib/kernel/list.c seen by their users: a list is the       *)
(* sequence of the elements between its head and tail sentinels.  Module   *)
(* LinkedList holds the same operations on prev/next pointers.             *)
(***************************************************************************)
EXTENDS Naturals, Sequences

elem_find(l, e) == \E i \in 1..Len(l) : l[i] = e

list_empty(l) == l = << >>

\* insert_before(&plist->tail, elem)
list_append(l, e) == Append(l, e)

\* insert_before(plist->head.next, elem)
list_push(l, e) == << e >> \o l

\* list_pop returns the first element ...
list_front(l) == Head(l)

\* ... and unlinks it
list_pop(l) == Tail(l)

-----------------------------------------------------------------------------
\* The elements linked into a list, and that none is linked twice
elements(l) == {l[i] : i \in 1..Len(l)}

NoDuplicates(l) == \A i, j \in 1..Len(l) : l[i] = l[j] => i = j

=============================================================================
