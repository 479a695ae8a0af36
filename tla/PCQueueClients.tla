--------------------------- MODULE PCQueueClients ---------------------------
(***************************************************************************)
(* Threads that use one ProducerConsumerQueue the way the map updater and  *)
(* the database pool do: producers push, consumers loop in WaitAndPop, one *)
(* owner calls Cancel once.  What the loops do with an element is left to  *)
(* the modules of those components; here it is only remembered.            *)
(***************************************************************************)
EXTENDS ProducerConsumerQueue, Integers

CONSTANTS
  MaxPushes             \* bound: elements pushed in a behaviour

ASSUME ConsumersAssumption == IsFiniteSet(Consumers)
ASSUME MaxPushesAssumption == MaxPushes \in Nat

VARIABLES
  pushed,               \* history: the values pushed, in order
  taken,                \* history: the values WaitAndPop returned, in order
  deleted,              \* history: the values Cancel deleted, in order
  at                    \* consumer -> "calling" WaitAndPop | "busy" | "gone"

vars == <<queue, shutdown, sleeping, pushed, taken, deleted, at>>

\* A value is its serial number, so that two equal values never meet.
Values == 1 .. MaxPushes

Init ==
  /\ PCQInit
  /\ pushed = <<>> /\ taken = <<>> /\ deleted = <<>>
  /\ at = [c \in Consumers |-> "calling"]

Produce ==
  /\ Len(pushed) < MaxPushes
  /\ Push(Len(pushed) + 1)
  /\ pushed' = Append(pushed, Len(pushed) + 1)
  /\ UNCHANGED <<taken, deleted, at>>

GoToSleep(c) ==
  /\ at[c] = "calling"
  /\ Sleep(c)
  /\ UNCHANGED <<pushed, taken, deleted, at>>

WakeForNothing(c) == SpuriousWake(c) /\ UNCHANGED <<pushed, taken, deleted, at>>

Receive(c) ==
  /\ at[c] = "calling"
  /\ Take(c, Head(queue))
  /\ taken' = Append(taken, Head(queue))
  /\ at' = [at EXCEPT ![c] = "busy"]
  /\ UNCHANGED <<pushed, deleted>>

CallAgain(c) ==
  /\ at[c] = "busy"
  /\ at' = [at EXCEPT ![c] = "calling"]
  /\ UNCHANGED <<queue, shutdown, sleeping, pushed, taken, deleted>>

Leave(c) ==
  /\ at[c] = "calling"
  /\ GiveUp(c)
  /\ at' = [at EXCEPT ![c] = "gone"]
  /\ UNCHANGED <<pushed, taken, deleted>>

\* The owner cancels once; a producer that pushes later leaves its element
\* in the queue.
CancelOnce ==
  /\ ~shutdown
  /\ Cancel
  /\ deleted' = deleted \o queue
  /\ UNCHANGED <<pushed, taken, at>>

ConsumerStep(c) == GoToSleep(c) \/ Receive(c) \/ CallAgain(c) \/ Leave(c)

Next ==
  \/ Produce
  \/ \E c \in Consumers : ConsumerStep(c) \/ WakeForNothing(c)
  \/ CancelOnce

Spec == Init /\ [][Next]_vars

\* A consumer thread that is not asleep is scheduled.
FairSpec == Spec /\ \A c \in Consumers : WF_vars(ConsumerStep(c))

-----------------------------------------------------------------------------
\* Every variable has its type.
TypeOK ==
  /\ queue \in Seq(Values)
  /\ pushed \in Seq(Values) /\ taken \in Seq(Values) /\ deleted \in Seq(Values)
  /\ shutdown \in BOOLEAN
  /\ sleeping \subseteq Consumers
  /\ at \in [Consumers -> {"calling", "busy", "gone"}]

\* Elements leave the queue in the order they entered it, none twice, none
\* unaccounted for: what was pushed is what was taken, then what Cancel
\* deleted, then what is still queued.
FIFO == pushed = taken \o deleted \o queue

\* notify_one is enough: while somebody sleeps, at least as many consumers
\* are awake as there are elements to take.
WakeupsSuffice ==
  sleeping # {} => Len(queue) <= Cardinality(Consumers \ sleeping)

Among(v, seq) == \E i \in 1 .. Len(seq) : seq[i] = v

\* Every element pushed is taken or deleted, unless it came after Cancel.
EveryElementLeaves ==
  \A v \in Values :
    Among(v, queue) /\ ~shutdown ~> Among(v, taken \o deleted)
=============================================================================
