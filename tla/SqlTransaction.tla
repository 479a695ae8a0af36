--------------------------- MODULE SqlTransaction ---------------------------
(***************************************************************************)
(* How one SQL transaction gets to the database: TransactionTask and       *)
(* TransactionWithResultTask on the asynchronous worker threads and        *)
(* DirectCommitTransaction on synchronous connections, over                *)
(* MySQLConnection::ExecuteTransaction with its retries after a deadlock   *)
(* and its reconnect after a lost connection.  The MySQL server (external) *)
(* is one session per connection: outside START TRANSACTION it commits     *)
(* each statement by itself (mysql_autocommit(m_Mysql, 1)).                *)
(*                                                                         *)
(* Every thread has one transaction, of statements 1 .. Length[t].         *)
(***************************************************************************)
EXTENDS Integers, Sequences, FiniteSets

CONSTANTS
  Async,                \* worker threads, executing a TransactionWithResultTask
  Sync,                 \* threads in DirectCommitTransaction
  Length,               \* thread -> statements in its transaction
  LoopBreaker,          \* retries of DirectCommitTransaction
  MaxTries,             \* bound: tries within DEADLOCK_MAX_RETRY_TIME_MS
  MaxLosses,            \* bound: thread -> losses of its connection
  NoThread

Threads == Async \cup Sync

ASSUME ThreadsAssumption ==
  Async \cap Sync = {} /\ NoThread \notin Threads /\ Length \in [Threads -> Nat]
ASSUME TriesAssumption ==
  LoopBreaker \in Nat \ {0} /\ MaxTries \in Nat \ {0} /\ MaxLosses \in [Threads -> Nat]

VARIABLES
  pc,                   \* thread -> where it is in the task
  next,                 \* thread -> the statement to execute next
  retry,                \* thread -> tries after the first one
  error,                \* thread -> the errno ExecuteTransaction returns
  result,               \* thread -> what m_result was set to
  deadlockLock,         \* TransactionTask::_deadlockLock: its holder
  inTransaction,        \* server: the connection's session is in a transaction
  uncommitted,          \* server: statements executed in that transaction
  committed,            \* server: statements durable, in order
  losses                \* thread -> how often its connection was lost

vars == <<pc, next, retry, error, result, deadlockLock, inTransaction,
          uncommitted, committed, losses>>
server == <<inTransaction, uncommitted, committed>>

Upto(n) == [i \in 1 .. n |-> i]
Goto(t, place) == pc' = [pc EXCEPT ![t] = place]

-----------------------------------------------------------------------------
(* MySQLConnection.                                                        *)

\* _HandleMySQLErrno: the server rolls the session back; Open starts another
\* one, with autocommit, and the call is repeated.
Reconnect(t) ==
  /\ losses[t] < MaxLosses[t]
  /\ losses' = [losses EXCEPT ![t] = @ + 1]
  /\ inTransaction' = [inTransaction EXCEPT ![t] = FALSE]
  /\ uncommitted' = [uncommitted EXCEPT ![t] = <<>>]

\* Mutant of ExecuteTransaction: no START TRANSACTION.
ExecuteTransaction_Autocommit(t) ==
  /\ pc[t] = "execute"
  /\ IF Length[t] = 0
       THEN /\ error' = [error EXCEPT ![t] = "empty"]
            /\ Goto(t, "failed")
            /\ UNCHANGED <<next, inTransaction, uncommitted>>
       ELSE /\ next' = [next EXCEPT ![t] = 1]
            /\ Goto(t, "statements")
            /\ UNCHANGED <<error, inTransaction, uncommitted>>
  /\ UNCHANGED <<retry, result, deadlockLock, committed, losses>>

\* ExecuteTransaction: nothing to do is an error; else START TRANSACTION,
\* which ends a transaction the session might still have open.
ExecuteTransaction(t) ==
  /\ pc[t] = "execute"
  /\ IF Length[t] = 0
       THEN /\ error' = [error EXCEPT ![t] = "empty"]
            /\ Goto(t, "failed")
            /\ UNCHANGED <<next, inTransaction, uncommitted, committed>>
       ELSE /\ committed' = [committed EXCEPT ![t] = @ \o uncommitted[t]]
            /\ inTransaction' = [inTransaction EXCEPT ![t] = TRUE]
            /\ uncommitted' = [uncommitted EXCEPT ![t] = <<>>]
            /\ next' = [next EXCEPT ![t] = 1]
            /\ Goto(t, "statements")
            /\ UNCHANGED error
  /\ UNCHANGED <<retry, result, deadlockLock, losses>>

\* Mutant of StatementDone: the statement sent again after it was executed.
StatementDone_Again(t) ==
  /\ pc[t] = "statements"
  /\ Len(committed[t]) < 5
  /\ IF inTransaction[t]
       THEN uncommitted' = [uncommitted EXCEPT ![t] = Append(@, next[t])] /\ UNCHANGED committed
       ELSE committed' = [committed EXCEPT ![t] = @ \o <<next[t], next[t]>>] /\ UNCHANGED uncommitted
  /\ next' = [next EXCEPT ![t] = @ + 1]
  /\ IF next[t] = Length[t] THEN Goto(t, "commit") ELSE UNCHANGED pc
  /\ UNCHANGED <<retry, error, result, deadlockLock, inTransaction, losses>>

\* The server executes the statement; the last one is followed by COMMIT.
StatementDone(t) ==
  /\ pc[t] = "statements"
  /\ IF inTransaction[t]
       THEN uncommitted' = [uncommitted EXCEPT ![t] = Append(@, next[t])] /\ UNCHANGED committed
       ELSE committed' = [committed EXCEPT ![t] = Append(@, next[t])] /\ UNCHANGED uncommitted
  /\ next' = [next EXCEPT ![t] = @ + 1]
  /\ IF next[t] = Length[t] THEN Goto(t, "commit") ELSE UNCHANGED pc
  /\ UNCHANGED <<retry, error, result, deadlockLock, inTransaction, losses>>

\* A deadlock: the server has rolled the transaction back.
StatementDeadlock(t) ==
  /\ pc[t] = "statements"
  /\ error' = [error EXCEPT ![t] = "deadlock"]
  /\ inTransaction' = [inTransaction EXCEPT ![t] = FALSE]
  /\ uncommitted' = [uncommitted EXCEPT ![t] = <<>>]
  /\ Goto(t, "rollback")
  /\ UNCHANGED <<next, retry, result, deadlockLock, committed, losses>>

\* Any other error (a duplicate key, say) has no effect of its own.
StatementError(t) ==
  /\ pc[t] = "statements"
  /\ error' = [error EXCEPT ![t] = "other"]
  /\ Goto(t, "rollback")
  /\ UNCHANGED <<next, retry, result, deadlockLock, server, losses>>

\* The connection is lost before the answer to a statement: outside a
\* transaction the server may have committed it.  It is executed again.
StatementLost(t) ==
  /\ pc[t] = "statements"
  /\ Reconnect(t)
  /\ \/ UNCHANGED committed
     \/ /\ ~inTransaction[t]
        /\ committed' = [committed EXCEPT ![t] = Append(@, next[t])]
  /\ UNCHANGED <<pc, next, retry, error, result, deadlockLock>>

Rollback(t) ==
  /\ pc[t] = "rollback"
  /\ inTransaction' = [inTransaction EXCEPT ![t] = FALSE]
  /\ uncommitted' = [uncommitted EXCEPT ![t] = <<>>]
  /\ Goto(t, "failed")
  /\ UNCHANGED <<next, retry, error, result, deadlockLock, committed, losses>>

Commit(t) ==
  /\ pc[t] = "commit"
  /\ committed' = [committed EXCEPT ![t] = @ \o uncommitted[t]]
  /\ uncommitted' = [uncommitted EXCEPT ![t] = <<>>]
  /\ inTransaction' = [inTransaction EXCEPT ![t] = FALSE]
  /\ Goto(t, "succeeded")
  /\ UNCHANGED <<next, retry, error, result, deadlockLock, losses>>

\* The connection is lost before the answer to COMMIT, which the server may
\* have executed.  The COMMIT is sent again, on the new session.
CommitLost(t) ==
  /\ pc[t] = "commit"
  /\ Reconnect(t)
  /\ \/ UNCHANGED committed
     \/ committed' = [committed EXCEPT ![t] = @ \o uncommitted[t]]
  /\ UNCHANGED <<pc, next, retry, error, result, deadlockLock>>

-----------------------------------------------------------------------------
(* TransactionWithResultTask::Execute.                                     *)

Retrying(t) == retry[t] > 0
Unlock(t) == deadlockLock' = IF deadlockLock = t THEN NoThread ELSE deadlockLock

\* The first try met a deadlock: retry, one thread at a time.
TakeDeadlockLock(t) ==
  /\ t \in Async
  /\ pc[t] = "failed"
  /\ error[t] = "deadlock"
  /\ ~Retrying(t)
  /\ deadlockLock = NoThread
  /\ deadlockLock' = t
  /\ retry' = [retry EXCEPT ![t] = 1]
  /\ Goto(t, "execute")
  /\ UNCHANGED <<next, error, result, server, losses>>

\* There is time left: any error is retried now, not only a deadlock.
RetryAgain(t) ==
  /\ t \in Async
  /\ pc[t] = "failed"
  /\ Retrying(t)
  /\ retry[t] < MaxTries
  /\ retry' = [retry EXCEPT ![t] = @ + 1]
  /\ Goto(t, "execute")
  /\ UNCHANGED <<next, error, result, deadlockLock, server, losses>>

\* Mutant of GiveUp: the lock is kept.
GiveUp_KeepLock(t) ==
  /\ t \in Async
  /\ pc[t] = "failed"
  /\ Retrying(t) \/ error[t] # "deadlock"
  /\ result' = [result EXCEPT ![t] = "false"]
  /\ Goto(t, "done")
  /\ UNCHANGED <<next, retry, error, deadlockLock, server, losses>>

\* Another error, or the time is up: CleanupOnFailure, m_result(false).
GiveUp(t) ==
  /\ t \in Async
  /\ pc[t] = "failed"
  /\ Retrying(t) \/ error[t] # "deadlock"
  /\ result' = [result EXCEPT ![t] = "false"]
  /\ Unlock(t)
  /\ Goto(t, "done")
  /\ UNCHANGED <<next, retry, error, server, losses>>

\* Mutant of Succeed: the result of a retry falls through to the failure.
Succeed_OnlyFirst(t) ==
  /\ t \in Async
  /\ pc[t] = "succeeded"
  /\ result' = [result EXCEPT ![t] = IF Retrying(t) THEN "false" ELSE "true"]
  /\ Unlock(t)
  /\ Goto(t, "done")
  /\ UNCHANGED <<next, retry, error, server, losses>>

Succeed(t) ==
  /\ t \in Async
  /\ pc[t] = "succeeded"
  /\ result' = [result EXCEPT ![t] = "true"]
  /\ Unlock(t)
  /\ Goto(t, "done")
  /\ UNCHANGED <<next, retry, error, server, losses>>

-----------------------------------------------------------------------------
(* DatabaseWorkerPool::DirectCommitTransaction: no lock, no result.        *)

\* Mutant of DirectRetry: the synchronous callers take the workers' lock.
DirectRetry_Lock(t) ==
  /\ t \in Sync
  /\ pc[t] = "failed"
  /\ error[t] = "deadlock" \/ Retrying(t)
  /\ retry[t] < LoopBreaker
  /\ deadlockLock' = t
  /\ retry' = [retry EXCEPT ![t] = @ + 1]
  /\ Goto(t, "execute")
  /\ UNCHANGED <<next, error, result, server, losses>>

DirectRetry(t) ==
  /\ t \in Sync
  /\ pc[t] = "failed"
  /\ error[t] = "deadlock" \/ Retrying(t)
  /\ retry[t] < LoopBreaker
  /\ retry' = [retry EXCEPT ![t] = @ + 1]
  /\ Goto(t, "execute")
  /\ UNCHANGED <<next, error, result, deadlockLock, server, losses>>

DirectEnd(t) ==
  /\ t \in Sync
  /\ \/ pc[t] = "succeeded"
     \/ pc[t] = "failed" /\ (retry[t] = LoopBreaker \/ (error[t] # "deadlock" /\ ~Retrying(t)))
  /\ Goto(t, "done")
  /\ UNCHANGED <<next, retry, error, result, deadlockLock, server, losses>>

-----------------------------------------------------------------------------
Init ==
  /\ pc = [t \in Threads |-> "execute"]
  /\ next = [t \in Threads |-> 1]
  /\ retry = [t \in Threads |-> 0]
  /\ error = [t \in Threads |-> "none"]
  /\ result = [t \in Threads |-> "none"]
  /\ deadlockLock = NoThread
  /\ inTransaction = [t \in Threads |-> FALSE]
  /\ uncommitted = [t \in Threads |-> <<>>]
  /\ committed = [t \in Threads |-> <<>>]
  /\ losses = [t \in Threads |-> 0]

Step(t) ==
  \/ ExecuteTransaction(t)
  \/ StatementDone(t) \/ StatementDeadlock(t) \/ StatementError(t) \/ StatementLost(t)
  \/ Rollback(t)
  \/ Commit(t) \/ CommitLost(t)
  \/ TakeDeadlockLock(t) \/ RetryAgain(t) \/ GiveUp(t) \/ Succeed(t)
  \/ DirectRetry(t) \/ DirectEnd(t)

Next == \E t \in Threads : Step(t)

Spec == Init /\ [][Next]_vars
\* Every thread that can step runs.
FairSpec == Spec /\ \A t \in Threads : WF_vars(Step(t))

-----------------------------------------------------------------------------
Places == {"execute", "statements", "rollback", "commit", "failed", "succeeded", "done"}

\* Every variable has its type.
TypeOK ==
  /\ pc \in [Threads -> Places]
  /\ next \in [Threads -> Nat \ {0}]
  /\ retry \in [Threads -> Nat]
  /\ error \in [Threads -> {"none", "empty", "deadlock", "other"}]
  /\ result \in [Threads -> {"none", "true", "false"}]
  /\ deadlockLock \in Async \cup {NoThread}
  /\ inTransaction \in [Threads -> BOOLEAN]
  /\ uncommitted \in [Threads -> Seq(Nat)]
  /\ committed \in [Threads -> Seq(Nat)]
  /\ losses \in [Threads -> Nat]

\* The threads that kept their connection.
Connected == {t \in Threads : losses[t] = 0}

\* However often it is retried, a transaction is in the database whole and in
\* order, or not at all, at every moment, unless its connection is lost.
Atomic == \A t \in Connected : committed[t] \in {<<>>, Upto(Length[t])}

\* m_result tells what is in the database.
ResultHonest ==
  \A t \in Async \cap Connected :
    /\ result[t] = "true"  => committed[t] = Upto(Length[t])
    /\ result[t] = "false" => committed[t] = <<>>

\* ExecuteTransaction leaves no session in a transaction and nothing behind
\* that the next transaction on the connection would commit, even when the
\* connection was lost in it.
NothingLeftOpen ==
  \A t \in Threads : pc[t] \in {"failed", "succeeded", "done"} =>
    ~inTransaction[t] /\ uncommitted[t] = <<>>

\* "Make sure only 1 async thread retries a transaction so they don't keep
\* dead-locking each other".
RetryAlone ==
  \A t, u \in Async : Retrying(t) /\ Retrying(u) /\ pc[t] # "done" /\ pc[u] # "done" => t = u

\* A lost connection can make the server apply a statement again, but only once
\* for each time this thread lost it.
DamageBounded ==
  \A t \in Threads : \A n \in 1 .. Length[t] :
    Cardinality({i \in 1 .. Len(committed[t]) : committed[t][i] = n}) <= 1 + losses[t]

\* Every task ends, and with it the wait for the deadlock lock.
EveryTaskEnds == \A t \in Threads : <>(pc[t] = "done")

=============================================================================
