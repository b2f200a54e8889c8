------------------------------ MODULE LinkedList ------------------------------
(***************************************************************************)
(* cLinkedNode and cLinkedList of NetLib/NetLib/LinkedList.h as operators  *)
(* on a value [prev, next, data]: what the three pointers of every node    *)
(* hold.  The list is a circle through its head, a node like the others;   *)
(* a node that is in no list points to itself.                             *)
(***************************************************************************)
EXTENDS Integers, Sequences, FiniteSets

CONSTANTS Nodes,  \* every node there may be
          Data,   \* what nodes carry
          Head0,  \* &m_Head
          Null    \* nullptr

ASSUME LinkedListAssumption ==
    /\ Head0 \notin Nodes
    /\ Null \notin Nodes \cup Data \cup {Head0}

Places == Nodes \cup {Head0}

Links == [prev : [Places -> Places \cup {Null}],
          next : [Places -> Places \cup {Null}],
          data : [Nodes -> Data \cup {Null}]]

\* Memory before any node is constructed, but for the head of the list.
NewList ==
    [prev |-> [p \in Places |-> IF p = Head0 THEN Head0 ELSE Null],
     next |-> [p \in Places |-> IF p = Head0 THEN Head0 ELSE Null],
     data |-> [n \in Nodes |-> Null]]

TieOff(l, p) == [l EXCEPT !.prev[p] = p, !.next[p] = p]
SetData(l, n, d) == [l EXCEPT !.data[n] = d]

\* The constructor and the destructor of a node.
Constructed(l, n) == SetData(TieOff(l, n), n, Null)
Destructed(l, n) == [l EXCEPT !.prev[n] = Null, !.next[n] = Null, !.data[n] = Null]

\* Links node n, which points to both neighbours first, between p and q.
Between(l, p, n, q) ==
    [l EXCEPT !.prev = [@ EXCEPT ![n] = p, ![q] = n],
              !.next = [@ EXCEPT ![n] = q, ![p] = n]]

\* Mutant: the neighbour behind does not point back.
AddAfterOneWay(l, p, n) ==
    [l EXCEPT !.prev[n] = p, !.next = [@ EXCEPT ![n] = l.next[p], ![p] = n]]

\* add_after and add_before.
AddAfter(l, p, n) == Between(l, p, n, l.next[p])

AddBefore(l, q, n) == Between(l, l.prev[q], n, q)

\* remove: the neighbours point to each other, the node to itself.
Unlinked(l, p) ==
    [l EXCEPT !.next[l.prev[p]] = l.next[p], !.prev[l.next[p]] = l.prev[p]]
Remove(l, p) == TieOff(Unlinked(l, p), p)

IsTieOff(l, p) == l.prev[p] = p /\ l.next[p] = p

\* The list: begin, empty, push_front, push_back.
Begin(l) == l.next[Head0]
Empty(l) == IsTieOff(l, Head0)
PushFront(l, n) == AddAfter(l, Head0, n)
PushBack(l, n) == AddBefore(l, Head0, n)

\* Following next from the head meets the nodes of s in order and comes back to
\* the head; following prev meets them backwards.
Circle(s) == <<Head0>> \o s
After(c, i) == c[IF i = Len(c) THEN 1 ELSE i + 1]
Linked(l, s) ==
    \A i \in 1 .. Len(s) + 1 :
        /\ l.next[Circle(s)[i]] = After(Circle(s), i)
        /\ l.prev[After(Circle(s), i)] = Circle(s)[i]
==============================================================================
