----------------------------- MODULE MPSCQueue ------------------------------
(***************************************************************************)
(* MPSCQueueIntrusive of src/src/common/Threading/MPSCQueue.h: a linked    *)
(* list to which any thread appends without a lock and from which one      *)
(* thread takes.  An element is a node of the list; when the list would    *)
(* become empty a dummy node, the queue's own, is appended to take over.   *)
(*                                                                         *)
(* Every load, store and exchange of what threads share is a step of its   *)
(* own, but for the store into the link of a node that no other thread     *)
(* knows yet.  _tail is the consumer's alone.                              *)
(***************************************************************************)
CONSTANTS
  Nodes,                \* the elements
  Dummy,                \* _dummy
  Null,
  Threads,
  Consumer              \* the one thread that calls Dequeue

ASSUME MPSCAssumption ==
  /\ Dummy \notin Nodes /\ Null \notin Nodes \cup {Dummy}
  /\ Consumer \in Threads

VARIABLES
  link,                 \* node -> its IntrusiveLink
  head, tail,           \* _head, _tail
  push,                 \* thread -> its Enqueue between the exchange and the link
  deqAt                 \* where the consumer is in Dequeue

mpscVars == <<link, head, tail, push, deqAt>>

Cells == Nodes \cup {Dummy}
NoPush == [node |-> Null, prevHead |-> Null]
Pushing(t) == push[t] # NoPush

MPSCTypeOK ==
  /\ link \in [Cells -> Cells \cup {Null}]
  /\ head \in Cells /\ tail \in Cells
  /\ push \in [Threads -> [node : Cells, prevHead : Cells] \cup {NoPush}]
  /\ deqAt \in {"load", "head", "dummy", "again"}

MPSCInit ==
  /\ link = [n \in Cells |-> Null]
  /\ head = Dummy /\ tail = Dummy
  /\ push = [t \in Threads |-> NoPush]
  /\ deqAt = "load"

-----------------------------------------------------------------------------
(* Enqueue.                                                                *)

Exchange(t, n) ==
  /\ ~Pushing(t)
  /\ link' = [link EXCEPT ![n] = Null]
  /\ head' = n
  /\ push' = [push EXCEPT ![t] = [node |-> n, prevHead |-> head]]

Link(t) ==
  /\ Pushing(t)
  /\ link' = [link EXCEPT ![push[t].prevHead] = push[t].node]
  /\ push' = [push EXCEPT ![t] = NoPush]
  /\ UNCHANGED <<head, tail, deqAt>>

-----------------------------------------------------------------------------
(* Dequeue: the consumer takes Pops(n), which returns n, or GiveUp, which  *)
(* returns that there is nothing, after some of the steps between.         *)

\* The dummy in front is passed over.
SkipDummy ==
  /\ deqAt = "load"
  /\ tail = Dummy
  /\ link[tail] # Null
  /\ tail' = link[tail]
  /\ UNCHANGED <<link, head, push, deqAt>>

\* An element without a successor: is it the head?
NoSuccessor ==
  /\ deqAt = "load"
  /\ tail # Dummy
  /\ link[tail] = Null
  /\ deqAt' = "head"
  /\ UNCHANGED <<link, head, tail, push>>

\* Mutant of IsHead: that it is the head is taken for granted.
IsHead_Always ==
  /\ deqAt = "head"
  /\ deqAt' = "dummy"
  /\ UNCHANGED <<link, head, tail, push>>

\* It is, and the dummy has to follow it.
IsHead ==
  /\ deqAt = "head"
  /\ tail = head
  /\ deqAt' = "dummy"
  /\ UNCHANGED <<link, head, tail, push>>

EnqueueDummy ==
  /\ deqAt = "dummy"
  /\ Exchange(Consumer, Dummy)
  /\ deqAt' = "again"
  /\ UNCHANGED tail

Pops(n) ==
  /\ deqAt \in {"load", "again"}
  /\ ~Pushing(Consumer)
  /\ n = tail
  /\ tail # Dummy
  /\ link[tail] # Null
  /\ tail' = link[tail]
  /\ deqAt' = "load"
  /\ UNCHANGED <<link, head, push>>

\* Nothing there; or a thread has put a node behind the last one and not linked
\* it yet, before the comparison or after it.
GiveUp ==
  /\ ~Pushing(Consumer)
  /\ \/ deqAt = "load" /\ tail = Dummy /\ link[tail] = Null
     \/ deqAt = "head" /\ tail # head
     \/ deqAt = "again" /\ link[tail] = Null
  /\ deqAt' = "load"
  /\ UNCHANGED <<link, head, tail, push>>
=============================================================================
