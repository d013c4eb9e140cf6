---------------------------- MODULE BoundedQueue ----------------------------
(***************************************************************************)
(* What device/ioqueue.c promises: a queue of at most capacity characters  *)
(* that gives every character to one consumer, in the order of arrival.    *)
(***************************************************************************)
EXTENDS Naturals, Sequences

CONSTANTS Producers, Consumers, Char, capacity, NULL

Client == Producers \cup Consumers

VARIABLES
    items,      \* the characters put and not yet got
    hand        \* the character a client got last, or is about to put

vars == << items, hand >>

Init == items = << >> /\ hand = [t \in Client |-> NULL]

\* An interrupt handler puts a character
arrive(c) == Len(items) < capacity /\ items' = Append(items, c) /\ UNCHANGED hand

\* A thread makes up its mind what to put, and puts it
choose(t, c) == hand' = [hand EXCEPT ![t] = c] /\ UNCHANGED items

put(t) ==
    /\ hand[t] # NULL
    /\ Len(items) < capacity
    /\ items' = Append(items, hand[t])
    /\ hand' = [hand EXCEPT ![t] = NULL]

get(t) ==
    /\ items # << >>
    /\ hand' = [hand EXCEPT ![t] = Head(items)]
    /\ items' = Tail(items)

\* A consumer is done with the character it got
drop(t) == hand' = [hand EXCEPT ![t] = NULL] /\ UNCHANGED items

Next ==
    \/ \E c \in Char : arrive(c)
    \/ \E t \in Producers : put(t) \/ \E c \in Char : choose(t, c)
    \/ \E t \in Consumers : get(t) \/ drop(t)

Spec == Init /\ [][Next]_vars

=============================================================================
