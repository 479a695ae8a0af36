---------------------------- MODULE DatabasePool ----------------------------
(***************************************************************************)
(* DatabaseWorkerPool of one database: the asynchronous connections with   *)
(* their DatabaseWorker threads on one shared queue, the queries' futures, *)
(* and the AsyncCallbackProcessor with which the world thread collects the *)
(* results.  Close destroys the asynchronous connections one by one; the   *)
(* first DatabaseWorker to go cancels the queue they all share.            *)
(*                                                                         *)
(* An operation is its serial number in the order of Enqueue: a one-way    *)
(* statement or transaction (a write), or a query with a future.           *)
(***************************************************************************)
EXTENDS Integers, Sequences, FiniteSets

CONSTANTS
  Workers,              \* the asynchronous connections, one worker thread each
  MaxOps,               \* bound: operations enqueued in a behaviour
  MaxChain,             \* bound: callbacks chained on one QueryCallback
  NoOp,                 \* a null SQLOperation*
  NoWorker

ASSUME WorkersAssumption == Workers # {} /\ IsFiniteSet(Workers) /\ NoWorker \notin Workers
ASSUME BoundsAssumption == MaxOps \in Nat /\ MaxChain \in Nat \ {0} /\ NoOp \notin 1 .. MaxOps

VARIABLES
  queue, shutdown, sleeping,    \* _queue
  enqueued,                     \* operations enqueued so far
  writes,                       \* those that are writes
  token,                        \* worker -> its _cancelationToken
  worker,                       \* worker -> where it is, the operation it holds
  started,                      \* history: operations begun, in order
  done,                         \* history: operations executed, in order
  future,                       \* query -> "pending", "ready" or "broken"
  callbacks,                    \* AsyncCallbackProcessor::_callbacks
  batch,                        \* updateCallbacks: those still to be polled
  kept,                         \* updateCallbacks: those polled and not finished
  invoked,                      \* history: queries whose callback ran, in order
  world,                        \* where the world thread is
  leaving,                      \* the worker whose connection Close destroys
  joined                        \* the workers whose thread is joined

INSTANCE ProducerConsumerQueue WITH Consumers <- Workers

Ops == 1 .. MaxOps

\* A QueryCallback: the query it waits for and the callbacks left on it.
Callbacks == [query : Ops, left : 1 .. MaxChain]

pool == <<enqueued, writes, token, worker, started, done, future,
          leaving, joined>>
processor == <<callbacks, batch, kept, invoked>>
vars == <<queue, shutdown, sleeping, enqueued, writes, token, worker, started,
          done, future, callbacks, batch, kept, invoked, world, leaving,
          joined>>

Last(op) == op = enqueued + 1 /\ op \in Ops

-----------------------------------------------------------------------------
(* The world thread.                                                       *)

\* Execute, CommitTransaction: one-way.
EnqueueWrite ==
  /\ world = "update"
  /\ \E op \in Ops :
       /\ Last(op)
       /\ Push(op)
       /\ enqueued' = op
       /\ writes' = writes \cup {op}
  /\ UNCHANGED <<token, worker, started, done, future, leaving, joined, processor,
                 world>>

\* AsyncQuery, DelayQueryHolder: the future is taken before the operation is
\* in the queue, where a worker could execute and delete it.
EnqueueQuery(op) ==
  /\ Last(op)
  /\ Push(op)
  /\ enqueued' = op
  /\ future' = [future EXCEPT ![op] = "pending"]
  /\ UNCHANGED <<writes, token, worker, started, done, leaving, joined>>

\* AddCallback, with a chain of callbacks.
AsyncQuery ==
  /\ world = "update"
  /\ \E op \in Ops, n \in 1 .. MaxChain :
       /\ EnqueueQuery(op)
       /\ callbacks' = Append(callbacks, [query |-> op, left |-> n])
  /\ UNCHANGED <<batch, kept, invoked, world>>

\* ProcessReadyCallbacks moves the vector out ...
BeginPoll ==
  /\ world = "update"
  /\ callbacks # <<>>
  /\ batch' = callbacks
  /\ callbacks' = <<>>
  /\ world' = "poll"
  /\ UNCHANGED <<queue, shutdown, sleeping, pool, kept, invoked>>

\* ... polls each element: not ready, it stays;
KeepPending ==
  /\ world = "poll"
  /\ batch # <<>>
  /\ future[Head(batch).query] = "pending"
  /\ batch' = Tail(batch)
  /\ kept' = Append(kept, Head(batch))
  /\ UNCHANGED <<queue, shutdown, sleeping, pool, callbacks, invoked, world>>

Ready ==
  /\ world = "poll"
  /\ batch # <<>>
  /\ future[Head(batch).query] = "ready"
  /\ batch' = Tail(batch)
  /\ invoked' = Append(invoked, Head(batch).query)

\* ready: its callback runs, and it is the last, or sets no next query, which
\* ends the chain;
InvokeAndFinish ==
  /\ Ready
  /\ UNCHANGED <<queue, shutdown, sleeping, pool, callbacks, kept, world>>

\* Mutant of InvokeAndChain: the continuing callback is dropped.
InvokeAndChain_Drop ==
  /\ Ready
  /\ Head(batch).left > 1
  /\ \E op \in Ops : EnqueueQuery(op)
  /\ UNCHANGED <<callbacks, kept, world>>

\* ready: its callback sets the next query, and the chain goes on with it;
InvokeAndChain ==
  /\ Ready
  /\ Head(batch).left > 1
  /\ \E op \in Ops :
       /\ EnqueueQuery(op)
       /\ kept' = Append(kept, [query |-> op, left |-> Head(batch).left - 1])
  /\ UNCHANGED <<callbacks, world>>

\* ready: its callback adds a query of its own to the processor.
InvokeAndAdd ==
  /\ Ready
  /\ \E op \in Ops :
       /\ EnqueueQuery(op)
       /\ callbacks' = Append(callbacks, [query |-> op, left |-> 1])
  /\ UNCHANGED <<kept, world>>

\* Mutant of EndPoll: what the callbacks added is overwritten.
EndPoll_Assign ==
  /\ world = "poll"
  /\ batch = <<>>
  /\ callbacks' = kept
  /\ kept' = <<>>
  /\ world' = "update"
  /\ UNCHANGED <<queue, shutdown, sleeping, pool, batch, invoked>>

\* ... and puts the unfinished ones behind what the callbacks added.
EndPoll ==
  /\ world = "poll"
  /\ batch = <<>>
  /\ callbacks' = callbacks \o kept
  /\ kept' = <<>>
  /\ world' = "update"
  /\ UNCHANGED <<queue, shutdown, sleeping, pool, batch, invoked>>

-----------------------------------------------------------------------------
(* Close: the asynchronous connections are destroyed one after the other.  *)

\* ~DatabaseWorker sets its own token ...
DestroyWorker(w) ==
  /\ world \in {"update", "next"}
  /\ w \notin joined
  /\ leaving' = w
  /\ token' = [token EXCEPT ![w] = TRUE]
  /\ world' = "cancel"
  /\ UNCHANGED <<queue, shutdown, sleeping, enqueued, writes, worker, started,
                 done, future, processor, joined>>

\* ... cancels the queue of all: what is queued is deleted, the futures of
\* the queries among it are broken ...
CancelQueue ==
  /\ world = "cancel"
  /\ Cancel
  /\ world' = "join"
  /\ future' = [op \in Ops |-> IF \E i \in 1 .. Len(queue) : queue[i] = op
                                THEN IF op \in writes THEN future[op] ELSE "broken"
                                ELSE future[op]]
  /\ UNCHANGED <<enqueued, writes, token, worker, started, done, leaving, joined,
                 processor>>

\* ... and joins its thread.
JoinWorker(w) ==
  /\ world = "join"
  /\ leaving = w
  /\ world' = "next"
  /\ worker[w].at = "gone"
  /\ joined' = joined \cup {w}
  /\ leaving' = NoWorker
  /\ UNCHANGED <<queue, shutdown, sleeping, enqueued, writes, token, worker, started,
                 done, future, processor>>

-----------------------------------------------------------------------------
(* A worker thread: DatabaseWorker::WorkerThread.                          *)

GoToSleep(w) ==
  /\ worker[w].at = "calling"
  /\ Sleep(w)
  /\ UNCHANGED <<pool, processor, world>>

WakeForNothing(w) == SpuriousWake(w) /\ UNCHANGED <<pool, processor, world>>

Receive(w) ==
  /\ worker[w].at = "calling"
  /\ \/ /\ Take(w, Head(queue))
        /\ worker' = [worker EXCEPT ![w] = [at |-> "popped", op |-> Head(queue)]]
     \/ /\ GiveUp(w)
        /\ worker' = [worker EXCEPT ![w].at = "popped"]
  /\ UNCHANGED <<enqueued, writes, token, started, done, future, leaving, joined,
                 processor, world>>

\* The thread ends with its own token, or empty-handed.  An operation popped
\* by then is neither executed nor deleted.
Exit(w) ==
  /\ worker[w].at = "popped"
  /\ token[w] \/ worker[w].op = NoOp
  /\ worker' = [worker EXCEPT ![w].at = "gone"]
  /\ UNCHANGED <<queue, shutdown, sleeping, enqueued, writes, token, started,
                 done, future, leaving, joined, processor,
                 world>>

Start(w) ==
  /\ worker[w].at = "popped"
  /\ ~token[w]
  /\ worker[w].op # NoOp
  /\ worker' = [worker EXCEPT ![w].at = "executing"]
  /\ started' = Append(started, worker[w].op)
  /\ UNCHANGED <<queue, shutdown, sleeping, enqueued, writes, token, done,
                 future, leaving, joined, processor, world>>

\* Mutant of Finish: an executed operation is queued again.
Finish_Requeue(w) ==
  /\ worker[w].at = "executing"
  /\ done' = Append(done, worker[w].op)
  /\ future' = [future EXCEPT ![worker[w].op] = IF @ = "pending" THEN "ready" ELSE @]
  /\ Push(worker[w].op)
  /\ worker' = [worker EXCEPT ![w] = [at |-> "calling", op |-> NoOp]]
  /\ UNCHANGED <<enqueued, writes, token, started, leaving, joined, processor, world>>

\* The statement is executed, its promise set, the operation deleted.
Finish(w) ==
  /\ worker[w].at = "executing"
  /\ done' = Append(done, worker[w].op)
  /\ future' = [future EXCEPT ![worker[w].op] = IF @ = "pending" THEN "ready" ELSE @]
  /\ worker' = [worker EXCEPT ![w] = [at |-> "calling", op |-> NoOp]]
  /\ UNCHANGED <<queue, shutdown, sleeping, enqueued, writes, token, started,
                 leaving, joined, processor, world>>

-----------------------------------------------------------------------------
Init ==
  /\ PCQInit
  /\ enqueued = 0
  /\ writes = {}
  /\ token = [w \in Workers |-> FALSE]
  /\ worker = [w \in Workers |-> [at |-> "calling", op |-> NoOp]]
  /\ started = <<>> /\ done = <<>>
  /\ future = [op \in Ops |-> "none"]
  /\ callbacks = <<>> /\ batch = <<>> /\ kept = <<>> /\ invoked = <<>>
  /\ world = "update"
  /\ leaving = NoWorker
  /\ joined = {}

Poll == BeginPoll \/ KeepPending \/ InvokeAndFinish \/ InvokeAndChain
        \/ InvokeAndAdd \/ EndPoll

Close == (\E w \in Workers : DestroyWorker(w) \/ JoinWorker(w)) \/ CancelQueue

WorkerStep(w) == GoToSleep(w) \/ Receive(w) \/ Exit(w) \/ Start(w) \/ Finish(w)

Next ==
  \/ EnqueueWrite \/ AsyncQuery \/ Poll \/ Close
  \/ \E w \in Workers : WorkerStep(w) \/ WakeForNothing(w)

Spec == Init /\ [][Next]_vars

\* Close has begun.
Closing == world \in {"cancel", "join", "next"}

\* The worker threads run, the world thread goes on polling, and a Close once
\* begun goes on; nothing forces an operation or a Close to begin.
FairSpec ==
  /\ Spec
  /\ \A w \in Workers : WF_vars(WorkerStep(w))
  /\ WF_vars(Poll)
  /\ WF_vars(Closing /\ Close)

-----------------------------------------------------------------------------
Among(x, seq) == \E i \in 1 .. Len(seq) : seq[i] = x
Occurrences(x, seq) == Cardinality({i \in 1 .. Len(seq) : seq[i] = x})

\* The callbacks that wait for a query, or have run with its result.
Queries(seq) == [i \in 1 .. Len(seq) |-> seq[i].query]
Calls(op) ==
  Occurrences(op, Queries(callbacks)) + Occurrences(op, Queries(batch))
  + Occurrences(op, Queries(kept)) + Occurrences(op, invoked)

\* Every variable has its type.
TypeOK ==
  /\ queue \in Seq(Ops)
  /\ shutdown \in BOOLEAN
  /\ sleeping \subseteq Workers
  /\ enqueued \in 0 .. MaxOps
  /\ writes \subseteq Ops
  /\ token \in [Workers -> BOOLEAN]
  /\ worker \in [Workers -> [at : {"calling", "popped", "executing", "gone"},
                             op : Ops \cup {NoOp}]]
  /\ started \in Seq(Ops) /\ done \in Seq(Ops) /\ invoked \in Seq(Ops)
  /\ future \in [Ops -> {"none", "pending", "ready", "broken"}]
  /\ callbacks \in Seq(Callbacks) /\ batch \in Seq(Callbacks) /\ kept \in Seq(Callbacks)
  /\ world \in {"update", "poll", "cancel", "join", "next"}
  /\ leaving \in Workers \cup {NoWorker}
  /\ joined \subseteq Workers

\* However many workers share the queue, an operation is executed once, and
\* every operation older than one that was begun is executed or in another
\* worker's hands.  With the single worker of the default configuration the
\* database sees the operations in the order of Enqueue.
NoOvertaking ==
  /\ \A i, j \in 1 .. Len(done) : done[i] = done[j] => i = j
  /\ \A i \in 1 .. Len(started) : \A op \in 1 .. started[i] :
       Among(op, done) \/ \E w \in Workers : worker[w].op = op
  /\ Cardinality(Workers) = 1 => \A i \in 1 .. Len(done) : done[i] = i

\* Every query that was given a callback waits in the processor or was
\* answered, once: no callback is lost and none runs twice, also when the
\* callbacks themselves add queries while the processor polls; and each ran
\* after its query was executed.
CallbackOnce ==
  /\ \A i \in 1 .. Len(invoked) : Among(invoked[i], done)
  /\ \A op \in 1 .. enqueued : Calls(op) = IF op \in writes THEN 0 ELSE 1

\* The comment at the shutdown of the worldserver: "save and kick all
\* players".  Every write enqueued before Close would be in the database when
\* Close returns.
SavedOnShutdown == joined = Workers => \A op \in writes : Among(op, done)

\* A query enqueued while the server runs gets its callback, unless Close begins.
CallbackRuns ==
  \A op \in Ops : future[op] = "pending" ~> Among(op, invoked) \/ Closing

\* Close returns.
CloseReturns == Closing ~> joined = Workers
=============================================================================
