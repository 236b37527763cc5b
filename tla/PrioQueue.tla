------------------------------ MODULE PrioQueue ------------------------------
(***************************************************************************)
(* The generic priority queue of lib/include/queue.h, as operators.        *)
(*                                                                         *)
(* The code keeps a circular doubly linked list whose head is not an       *)
(* element.  A queue is modelled by the sequence of its elements from      *)
(* head->next to head->prev, that is in the order queue_for_each visits    *)
(* them: increasing priority, the element that leaves first at the end.    *)
(* key is the function that gives every element its priority field (prio,  *)
(* or wake_time for the sleeping processes).                               *)
(***************************************************************************)
EXTENDS Integers, Sequences, FiniteSetsExt, Functions

(* Where the scan of queue_add stops: at the first element whose priority  *)
(* is not below the new one's, or at the head after a full turn.           *)
InsertionPoint(q, e, key) ==
  CHOOSE i \in 1..Len(q)+1 :
    /\ i <= Len(q) => key[q[i]] >= key[e]
    /\ \A j \in 1..i-1 : key[q[j]] < key[e]

(* queue_add links the element just before the point where it stopped.     *)
(* Its assertion that the element is not linked yet is the absence of      *)
(* duplicates, an invariant of every module that uses the queue.           *)
queue_add(q, e, key) ==
  LET i == InsertionPoint(q, e, key)
  IN  SubSeq(q, 1, i-1) \o <<e>> \o SubSeq(q, i, Len(q))

queue_empty(q) == q = << >>

(* The element with the highest priority is the last one.                  *)
queue_top(q) == q[Len(q)]

(* What is left once queue_out has unlinked queue_top.                     *)
queue_out(q) == SubSeq(q, 1, Len(q)-1)

(* queue_del finds the queue through the links of the element itself.      *)
queue_del(q, e) ==
  LET i == CHOOSE k \in DOMAIN q : q[k] = e
  IN  SubSeq(q, 1, i-1) \o SubSeq(q, i+1, Len(q))

Linked(q, e) == e \in Range(q)

SortedBy(q, key) ==
  \A i, j \in DOMAIN q : i < j => key[q[i]] <= key[q[j]]
==============================================================================
