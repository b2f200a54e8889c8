------------------------------- MODULE NodeList -------------------------------
(***************************************************************************)
(* Any sequence of calls on one cLinkedList of LinkedList.h by callers     *)
(* that keep its (compiled out) assertions: they insert a node that is in  *)
(* no list, next to one that is in the list, and erase one that is.  Every *)
(* node has been constructed.                                              *)
(***************************************************************************)
EXTENDS LinkedList

VARIABLES chain,    \* the pointers
          clearing, \* a caller is in clear()
          order     \* history: the nodes in the order the callers asked for

listVars == <<chain, clearing, order>>

\* What the callers know: the node has been inserted and not erased since.  (The
\* assertions ask is_in_list, which looks for a node with the same data.)
InList(n) == \E i \in DOMAIN order : order[i] = n

\* The sequence s with n behind its first i elements, and without its i-th.
InsertedAt(s, i, n) == SubSeq(s, 1, i) \o <<n>> \o SubSeq(s, i + 1, Len(s))
RemovedAt(s, i) == SubSeq(s, 1, i - 1) \o SubSeq(s, i + 1, Len(s))

ListInit ==
    /\ chain = [prev |-> [p \in Places |-> p], next |-> [p \in Places |-> p],
                data |-> [n \in Nodes |-> Null]]
    /\ clearing = FALSE
    /\ order = <<>>

\* push_front and push_back.
Push(n) ==
    /\ ~InList(n)
    /\ \/ chain' = PushFront(chain, n) /\ order' = InsertedAt(order, 0, n)
       \/ chain' = PushBack(chain, n) /\ order' = InsertedAt(order, Len(order), n)
    /\ UNCHANGED clearing

\* insert_after and insert_before, at the i-th node.
Insert(i, n) ==
    /\ ~InList(n)
    /\ \/ chain' = AddAfter(chain, order[i], n) /\ order' = InsertedAt(order, i, n)
       \/ chain' = AddBefore(chain, order[i], n) /\ order' = InsertedAt(order, i - 1, n)
    /\ UNCHANGED clearing

\* erase, by node or by iterator.
Erase(i) ==
    /\ chain' = Remove(chain, order[i])
    /\ order' = RemovedAt(order, i)
    /\ UNCHANGED clearing

\* clear: removes the first node until the list is empty, then its head.
ClearBegin == clearing' = TRUE /\ UNCHANGED <<chain, order>>
ClearStep ==
    /\ clearing
    /\ IF Empty(chain)
       THEN chain' = Remove(chain, Head0) /\ clearing' = FALSE /\ UNCHANGED order
       ELSE chain' = Remove(chain, Begin(chain)) /\ order' = Tail(order) /\ UNCHANGED clearing

ListNext ==
    \/ /\ ~clearing
       /\ \/ \E n \in Nodes : Push(n) \/ \E i \in DOMAIN order : Insert(i, n)
          \/ \E i \in DOMAIN order : Erase(i)
          \/ ClearBegin
    \/ ClearStep

ListSpec == ListInit /\ [][ListNext]_listVars

\* Whatever the calls, the pointers form one circle through the head, in both
\* directions, with exactly the nodes that were inserted and not erased, once
\* each and in the order asked for; all other nodes point to themselves and can
\* be inserted again.
ListExact ==
    /\ \A i \in DOMAIN order : order[i] \in Nodes
    /\ \A i, j \in DOMAIN order : order[i] = order[j] => i = j
    /\ Linked(chain, order)
    /\ \A n \in Nodes : ~InList(n) => IsTieOff(chain, n)
==============================================================================
