----------------------- MODULE ProducerConsumerQueue -----------------------
(***************************************************************************)
(* The queue of src/src/common/Threading/PCQueue.h: a std::queue guarded   *)
(* by one mutex, a condition variable and a shutdown flag.  Each critical  *)
(* section of the class is one action; a thread that waits on the          *)
(* condition has left the critical section and is a member of sleeping.    *)
(*                                                                         *)
(* WaitAndPop is its loop, step by step: a thread inside the call either   *)
(* goes to sleep (Sleep), returns with the front element (Take) or returns *)
(* with its out-parameter untouched (GiveUp).  Which threads are inside    *)
(* the call is known to the module that instantiates this one.             *)
(***************************************************************************)
EXTENDS Sequences, FiniteSets

CONSTANT Consumers      \* the threads that may call WaitAndPop

VARIABLES
  queue,                \* _queue
  shutdown,             \* _shutdown
  sleeping              \* threads blocked in _condition.wait

pcqVars == <<queue, shutdown, sleeping>>

PCQInit ==
  /\ queue = <<>>
  /\ shutdown = FALSE
  /\ sleeping = {}

\* _condition.notify_one(): wakes one sleeper, any of them, if there is one.
NotifyOne ==
  \/ sleeping = {} /\ sleeping' = {}
  \/ \E c \in sleeping : sleeping' = sleeping \ {c}

\* Mutants of Push: a stack; no notify; a notify only for the first element.
Push_Front(value) == queue' = <<value>> \o queue /\ NotifyOne /\ UNCHANGED shutdown
Push_NoNotify(value) == queue' = Append(queue, value) /\ UNCHANGED <<shutdown, sleeping>>
Push_NotifyFirst(value) ==
  /\ queue' = Append(queue, value)
  /\ IF queue = <<>> THEN NotifyOne ELSE UNCHANGED sleeping
  /\ UNCHANGED shutdown

Push(value) ==
  /\ queue' = Append(queue, value)
  /\ NotifyOne
  /\ UNCHANGED shutdown

\* The loop condition of WaitAndPop holds: release the mutex and wait.
Sleep(c) ==
  /\ c \notin sleeping
  /\ queue = <<>>
  /\ ~shutdown
  /\ sleeping' = sleeping \cup {c}
  /\ UNCHANGED <<queue, shutdown>>

\* A condition variable may wake a thread that nobody notified.
SpuriousWake(c) ==
  /\ c \in sleeping
  /\ sleeping' = sleeping \ {c}
  /\ UNCHANGED <<queue, shutdown>>

\* The loop is left with an element: WaitAndPop, or a successful Pop.
Take(c, value) ==
  /\ c \notin sleeping
  /\ ~shutdown
  /\ queue # <<>>
  /\ value = Head(queue)
  /\ queue' = Tail(queue)
  /\ UNCHANGED <<shutdown, sleeping>>

\* The loop is left because of the shutdown: no element, no value.
GiveUp(c) ==
  /\ c \notin sleeping
  /\ shutdown
  /\ UNCHANGED pcqVars

\* Mutant of Cancel: notify_one.
Cancel_NotifyOne == queue' = <<>> /\ shutdown' = TRUE /\ NotifyOne

\* Cancel deletes what is queued, then lets every sleeper go.
Cancel ==
  /\ queue' = <<>>
  /\ shutdown' = TRUE
  /\ sleeping' = {}
============================================================================
