------------------------ MODULE SqlTransactionProofs ------------------------
(***************************************************************************)
(* For any number of threads, any lengths and any number of retries: the   *)
(* transaction of a thread that keeps its connection is atomic, and the    *)
(* result its task reports is the truth; and with connections lost or not, *)
(* no session is left in a transaction, and the retries of the worker      *)
(* threads exclude each other.                                             *)
(***************************************************************************)
EXTENDS SqlTransaction, FiniteSetTheorems, SequenceTheorems, TLAPS

\* The statements 1 to n are a sequence.
LEMMA UptoIsSeq ==
  ASSUME NEW n \in Nat
  PROVE  Upto(n) \in Seq(Nat)
BY DEF Upto

\* Before the first statement nothing is written.
LEMMA UptoZero == Upto(0) = <<>>
BY DEF Upto

\* The next statement makes the prefix one longer.
LEMMA UptoAppend ==
  ASSUME NEW n \in Nat \ {0}
  PROVE  Append(Upto(n - 1), n) = Upto(n)
<1> DEFINE s == Append(Upto(n - 1), n)
<1>1. Upto(n - 1) \in Seq(Nat) /\ Len(Upto(n - 1)) = n - 1
  BY DEF Upto
<1>2. s \in Seq(Nat) /\ Len(s) = n
  BY <1>1
<1>3. Upto(n) \in Seq(Nat) /\ Len(Upto(n)) = n
  BY DEF Upto
<1>4. \A i \in 1 .. n : s[i] = Upto(n)[i]
  <2> TAKE i \in 1 .. n
  <2>1. CASE i = n
    BY <1>1, <2>1 DEF Upto
  <2>2. CASE i # n
    <3>1. i \in 1 .. n - 1
      BY <2>2
    <3>2. s[i] = Upto(n - 1)[i]
      BY <1>1, <3>1
    <3> QED BY <3>1, <3>2 DEF Upto
  <2> QED BY <2>1, <2>2
<1> QED BY <1>2, <1>3, <1>4, SeqEqual

\* Committing into an empty log leaves the writes themselves.
LEMMA EmptyConcat ==
  ASSUME NEW S, NEW s \in Seq(S)
  PROVE  <<>> \o s = s /\ s \o <<>> = s
BY ConcatEmptySeq

-----------------------------------------------------------------------------
(* Types.                                                                  *)

\* A task taken from the queue has the types.
LEMMA TypeInit == Init => TypeOK
<1> SUFFICES ASSUME Init PROVE TypeOK
  OBVIOUS
<1>1. <<>> \in Seq(Nat)
  BY EmptySeq
<1>2. inTransaction \in [Threads -> BOOLEAN]
  BY Zenon DEF Init
<1> QED BY <1>1, <1>2, TriesAssumption DEF Init, TypeOK, Places

\* Every step keeps the types of the server's sessions.
LEMMA ServerTypeStep ==
  ASSUME TypeOK, [Next]_vars
  PROVE  /\ inTransaction' \in [Threads -> BOOLEAN]
         /\ uncommitted' \in [Threads -> Seq(Nat)]
         /\ committed' \in [Threads -> Seq(Nat)]
<1> USE ThreadsAssumption, TriesAssumption
<1>0. <<>> \in Seq(Nat) /\ TRUE \in BOOLEAN /\ FALSE \in BOOLEAN
  BY EmptySeq
<1>1. CASE UNCHANGED vars
  BY <1>1 DEF TypeOK, vars
<1>2. ASSUME NEW t \in Threads, Step(t)
      PROVE  /\ inTransaction' \in [Threads -> BOOLEAN]
             /\ uncommitted' \in [Threads -> Seq(Nat)]
             /\ committed' \in [Threads -> Seq(Nat)]
  <2>0. next[t] \in Nat /\ uncommitted[t] \in Seq(Nat) /\ committed[t] \in Seq(Nat)
    BY DEF TypeOK
  <2>1. /\ committed[t] \o uncommitted[t] \in Seq(Nat)
        /\ Append(uncommitted[t], next[t]) \in Seq(Nat)
        /\ Append(committed[t], next[t]) \in Seq(Nat)
    BY <2>0
  <2>2. inTransaction' \in [Threads -> BOOLEAN]
    <3>1. \/ inTransaction' = inTransaction
          \/ inTransaction' = [inTransaction EXCEPT ![t] = TRUE]
          \/ inTransaction' = [inTransaction EXCEPT ![t] = FALSE]
      BY <1>2, Zenon DEF Step, ExecuteTransaction, StatementDone, StatementDeadlock, StatementError,
             StatementLost, Reconnect, Rollback, Commit, CommitLost, TakeDeadlockLock,
             RetryAgain, GiveUp, Succeed, DirectRetry, DirectEnd, server
    <3> QED BY <1>0, <3>1, Zenon DEF TypeOK
  <2>3. uncommitted' \in [Threads -> Seq(Nat)]
    <3>1. \/ uncommitted' = uncommitted
          \/ uncommitted' = [uncommitted EXCEPT ![t] = <<>>]
          \/ uncommitted' = [uncommitted EXCEPT ![t] = Append(@, next[t])]
      BY <1>2, Zenon DEF Step, ExecuteTransaction, StatementDone, StatementDeadlock, StatementError,
             StatementLost, Reconnect, Rollback, Commit, CommitLost, TakeDeadlockLock,
             RetryAgain, GiveUp, Succeed, DirectRetry, DirectEnd, server
    <3> QED BY <1>0, <2>1, <3>1 DEF TypeOK
  <2>4. committed' \in [Threads -> Seq(Nat)]
    <3>1. \/ committed' = committed
          \/ committed' = [committed EXCEPT ![t] = @ \o uncommitted[t]]
          \/ committed' = [committed EXCEPT ![t] = Append(@, next[t])]
      BY <1>2, Zenon DEF Step, ExecuteTransaction, StatementDone, StatementDeadlock, StatementError,
             StatementLost, Reconnect, Rollback, Commit, CommitLost, TakeDeadlockLock,
             RetryAgain, GiveUp, Succeed, DirectRetry, DirectEnd, server
    <3> QED BY <2>1, <3>1 DEF TypeOK
  <2> QED BY <2>2, <2>3, <2>4
<1> QED BY <1>1, <1>2 DEF Next

\* The types of the variables that are not the server's.
TaskTypeOK ==
  /\ pc \in [Threads -> Places]
  /\ next \in [Threads -> Nat \ {0}]
  /\ retry \in [Threads -> Nat]
  /\ error \in [Threads -> {"none", "empty", "deadlock", "other"}]
  /\ result \in [Threads -> {"none", "true", "false"}]
  /\ deadlockLock \in Async \cup {NoThread}
  /\ losses \in [Threads -> Nat]

\* Every step keeps the types of the tasks' own state.
LEMMA TaskTypeStep ==
  ASSUME TaskTypeOK, NEW t \in Threads, Step(t)
  PROVE  TaskTypeOK'
<1> USE TriesAssumption DEF TaskTypeOK, Places, Goto
<1>1. CASE ExecuteTransaction(t)
  <2>1. CASE Length[t] = 0
    BY <1>1, <2>1 DEF ExecuteTransaction
  <2>2. CASE Length[t] # 0
    <3>1. /\ pc' = [pc EXCEPT ![t] = "statements"] /\ next' = [next EXCEPT ![t] = 1]
          /\ UNCHANGED <<retry, error, result, deadlockLock, losses>>
      BY <1>1, <2>2, Zenon DEF ExecuteTransaction
    <3> QED BY <3>1
  <2> QED BY <2>1, <2>2
<1>2. CASE StatementDone(t)
  <2>1. pc' = pc \/ pc' = [pc EXCEPT ![t] = "commit"]
    BY <1>2 DEF StatementDone
  <2>2. next' \in [Threads -> Nat \ {0}]
    BY <1>2 DEF StatementDone
  <2>3. UNCHANGED <<retry, error, result, deadlockLock, losses>>
    BY <1>2 DEF StatementDone
  <2> QED BY <2>1, <2>2, <2>3
<1>3. CASE StatementDeadlock(t)
  BY <1>3 DEF StatementDeadlock
<1>4. CASE StatementError(t)
  BY <1>4 DEF StatementError
<1>5. CASE StatementLost(t)
  BY <1>5 DEF StatementLost, Reconnect
<1>6. CASE Rollback(t)
  BY <1>6 DEF Rollback
<1>7. CASE Commit(t)
  BY <1>7 DEF Commit
<1>8. CASE CommitLost(t)
  BY <1>8 DEF CommitLost, Reconnect
<1>9. CASE TakeDeadlockLock(t)
  BY <1>9 DEF TakeDeadlockLock
<1>10. CASE RetryAgain(t)
  BY <1>10 DEF RetryAgain
<1>11. CASE GiveUp(t)
  BY <1>11 DEF GiveUp, Unlock
<1>12. CASE Succeed(t)
  BY <1>12 DEF Succeed, Unlock
<1>13. CASE DirectRetry(t)
  BY <1>13 DEF DirectRetry
<1>14. CASE DirectEnd(t)
  BY <1>14 DEF DirectEnd
<1> QED BY <1>1, <1>2, <1>3, <1>4, <1>5, <1>6, <1>7, <1>8, <1>9, <1>10, <1>11, <1>12,
           <1>13, <1>14 DEF Step

\* Every step keeps every type.
LEMMA TypeStep == TypeOK /\ [Next]_vars => TypeOK'
<1> SUFFICES ASSUME TypeOK, [Next]_vars PROVE TypeOK'
  OBVIOUS
<1>1. CASE UNCHANGED vars
  BY <1>1 DEF TypeOK, vars
<1>2. CASE Next
  <2>1. TaskTypeOK
    BY DEF TypeOK, TaskTypeOK
  <2>2. TaskTypeOK'
    BY <1>2, <2>1, TaskTypeStep DEF Next
  <2> QED BY <2>2, ServerTypeStep, Zenon DEF TypeOK, TaskTypeOK
<1> QED BY <1>1, <1>2

\* Every reachable state has the types.
THEOREM TypeCorrect == Spec => []TypeOK
BY TypeInit, TypeStep, PTL DEF Spec

\* A step of one thread leaves what belongs to the others alone.
LEMMA OthersUnchanged ==
  ASSUME TypeOK, NEW t \in Threads, Step(t), NEW u \in Threads, u # t
  PROVE  /\ pc'[u] = pc[u] /\ next'[u] = next[u] /\ result'[u] = result[u]
         /\ inTransaction'[u] = inTransaction[u]
         /\ uncommitted'[u] = uncommitted[u] /\ committed'[u] = committed[u]
         /\ losses'[u] = losses[u]
<1> USE DEF TypeOK, Goto, server
<1>1. CASE ExecuteTransaction(t)
  BY <1>1 DEF ExecuteTransaction
<1>2. CASE StatementDone(t)
  BY <1>2 DEF StatementDone
<1>3. CASE StatementDeadlock(t) \/ StatementError(t)
  BY <1>3 DEF StatementDeadlock, StatementError
<1>4. CASE StatementLost(t) \/ CommitLost(t)
  BY <1>4 DEF StatementLost, CommitLost, Reconnect
<1>5. CASE Rollback(t) \/ Commit(t)
  BY <1>5 DEF Rollback, Commit
<1>6. CASE TakeDeadlockLock(t) \/ RetryAgain(t) \/ GiveUp(t) \/ Succeed(t)
  BY <1>6 DEF TakeDeadlockLock, RetryAgain, GiveUp, Succeed
<1>7. CASE DirectRetry(t) \/ DirectEnd(t)
  BY <1>7 DEF DirectRetry, DirectEnd
<1> QED BY <1>1, <1>2, <1>3, <1>4, <1>5, <1>6, <1>7 DEF Step

-----------------------------------------------------------------------------
(* The retries.                                                            *)

\* A worker thread retries only while it holds _deadlockLock.
RetryHolds == \A t \in Async : Retrying(t) /\ pc[t] # "done" => deadlockLock = t

\* Taking and releasing _deadlockLock keeps the retries with its holder.
LEMMA RetryHoldsStep == TypeOK /\ RetryHolds /\ [Next]_vars => RetryHolds'
<1> SUFFICES ASSUME TypeOK, RetryHolds, [Next]_vars, NEW u \in Async,
                    Retrying(u)', pc'[u] # "done"
             PROVE  deadlockLock' = u
  BY DEF RetryHolds
<1> USE ThreadsAssumption DEF Retrying
<1>0. u \in Threads /\ u # NoThread
  BY DEF Threads
<1>1. CASE UNCHANGED vars
  BY <1>1 DEF RetryHolds, vars
<1>2. ASSUME NEW t \in Threads, Step(t)
      PROVE  deadlockLock' = u
  <2> USE <1>0 DEF TaskTypeOK, Goto
  <2>0. TaskTypeOK
    BY DEF TypeOK, TaskTypeOK
  <2>1. CASE TakeDeadlockLock(t)
    BY <2>0, <2>1 DEF TakeDeadlockLock, RetryHolds
  <2>2. CASE RetryAgain(t)
    BY <2>0, <2>2 DEF RetryAgain, RetryHolds
  <2>3. CASE GiveUp(t)
    BY <2>0, <2>3 DEF GiveUp, Unlock, RetryHolds
  <2>4. CASE Succeed(t)
    BY <2>0, <2>4 DEF Succeed, Unlock, RetryHolds
  <2>5. CASE DirectRetry(t)
    BY <2>0, <2>5 DEF DirectRetry, RetryHolds
  <2>6. CASE DirectEnd(t)
    BY <2>0, <2>6 DEF DirectEnd, RetryHolds
  <2>7. CASE ExecuteTransaction(t) \/ Rollback(t) \/ Commit(t) \/ CommitLost(t)
    <3>1. pc[t] # "done" /\ UNCHANGED <<retry, deadlockLock>>
      BY <2>7, Zenon DEF ExecuteTransaction, Rollback, Commit, CommitLost
    <3>2. u # t => pc'[u] = pc[u]
      BY <1>2, OthersUnchanged
    <3> QED BY <3>1, <3>2 DEF RetryHolds
  <2>8. CASE StatementDone(t) \/ StatementDeadlock(t) \/ StatementError(t) \/ StatementLost(t)
    BY <2>0, <2>8 DEF StatementDone, StatementDeadlock, StatementError, StatementLost, Reconnect,
                      server, RetryHolds
  <2> QED BY <1>2, <2>1, <2>2, <2>3, <2>4, <2>5, <2>6, <2>7, <2>8 DEF Step
<1> QED BY <1>1, <1>2 DEF Next

\* Never do two worker threads retry at a time: they do not deadlock each other
\* in the retry loop of TransactionWithResultTask::Execute.
THEOREM RetriesExclude == Spec => []RetryAlone
<1>1. Init => RetryHolds
  BY DEF Init, RetryHolds, Retrying, Threads
<1>2. RetryHolds => RetryAlone
  BY DEF RetryHolds, RetryAlone
<1> QED BY <1>1, <1>2, TypeCorrect, RetryHoldsStep, PTL DEF Spec

-----------------------------------------------------------------------------
(* The sessions.                                                           *)

\* Outside ExecuteTransaction's statements the session is in no transaction.
Closed(t) ==
  pc[t] \in {"execute", "failed", "succeeded", "done"} =>
    ~inTransaction[t] /\ uncommitted[t] = <<>>

\* A step that reaches such a place has ended the transaction.
LEMMA ClosedStep ==
  ASSUME TypeOK, NEW t \in Threads, Closed(t), Step(t)
  PROVE  Closed(t)'
<1> USE DEF Goto, TypeOK, Closed
<1>1. CASE ExecuteTransaction(t)
  BY <1>1 DEF ExecuteTransaction
<1>2. CASE StatementDone(t)
  <2>1. pc'[t] \in {"statements", "commit"}
    BY <1>2 DEF StatementDone
  <2> QED BY <2>1
<1>3. CASE StatementDeadlock(t) \/ StatementError(t)
  BY <1>3 DEF StatementDeadlock, StatementError
<1>4. CASE StatementLost(t) \/ CommitLost(t)
  BY <1>4 DEF StatementLost, CommitLost
<1>5. CASE Rollback(t) \/ Commit(t)
  BY <1>5 DEF Rollback, Commit
<1>6. CASE TakeDeadlockLock(t) \/ RetryAgain(t) \/ GiveUp(t) \/ Succeed(t)
  BY <1>6 DEF TakeDeadlockLock, RetryAgain, GiveUp, Succeed, server
<1>7. CASE DirectRetry(t) \/ DirectEnd(t)
  BY <1>7 DEF DirectRetry, DirectEnd, server
<1> QED BY <1>1, <1>2, <1>3, <1>4, <1>5, <1>6, <1>7 DEF Step

\* So it is in every reachable state.
LEMMA ClosedInvariant == Spec => []\A t \in Threads : Closed(t)
<1> DEFINE AllClosed == \A t \in Threads : Closed(t)
<1>1. Init => AllClosed
  BY DEF Init, Closed
<1>2. TypeOK /\ AllClosed /\ [Next]_vars => AllClosed'
  <2> SUFFICES ASSUME TypeOK, AllClosed, [Next]_vars, NEW u \in Threads
               PROVE  Closed(u)'
    OBVIOUS
  <2>1. CASE UNCHANGED vars
    BY <2>1 DEF Closed, vars
  <2>2. ASSUME NEW t \in Threads, Step(t)
        PROVE  Closed(u)'
    <3>1. CASE u = t
      BY <2>2, <3>1, ClosedStep
    <3>2. CASE u # t
      BY <2>2, <3>2, OthersUnchanged DEF Closed
    <3> QED BY <3>1, <3>2
  <2> QED BY <2>1, <2>2 DEF Next
<1> HIDE DEF AllClosed
<1>3. Spec => []AllClosed
  BY <1>1, <1>2, TypeCorrect, PTL DEF Spec
<1> QED BY <1>3 DEF AllClosed

-----------------------------------------------------------------------------
(* Atomicity.                                                              *)

\* While its connection is kept, where a thread is in its task tells what its session and the database hold.
Written(t) ==
  /\ pc[t] \in {"execute", "rollback", "failed"} => committed[t] = <<>>
  /\ pc[t] \in {"execute", "failed", "succeeded", "done"} =>
       ~inTransaction[t] /\ uncommitted[t] = <<>>
  /\ pc[t] = "statements" =>
       /\ inTransaction[t] /\ committed[t] = <<>>
       /\ next[t] <= Length[t] /\ uncommitted[t] = Upto(next[t] - 1)
  /\ pc[t] = "commit" => committed[t] = <<>> /\ uncommitted[t] = Upto(Length[t])
  /\ pc[t] = "succeeded" => committed[t] = Upto(Length[t])
  /\ pc[t] = "done" => committed[t] \in {<<>>, Upto(Length[t])}

\* A result is set by the last step of the task, to what was committed.
Reported(t) ==
  /\ result[t] = "none" \/ pc[t] = "done"
  /\ result[t] = "true" => committed[t] = Upto(Length[t])
  /\ result[t] = "false" => committed[t] = <<>>

Whole == \A t \in Connected : Written(t) /\ Reported(t)

\* A step of a thread that keeps its connection keeps what is written and what
\* is reported in agreement with the place in the task.
LEMMA WholeStep ==
  ASSUME TypeOK, Whole, NEW t \in Threads, Step(t), losses'[t] = 0
  PROVE  Written(t)' /\ Reported(t)'
<1> USE ThreadsAssumption DEF Goto
<1>01. losses[t] \in Nat
  BY DEF TypeOK
<1>02. losses' = losses \/ losses' = [losses EXCEPT ![t] = @ + 1]
  BY Zenon DEF Step, ExecuteTransaction, StatementDone, StatementDeadlock, StatementError,
         StatementLost, Reconnect, Rollback, Commit, CommitLost, TakeDeadlockLock,
         RetryAgain, GiveUp, Succeed, DirectRetry, DirectEnd, server
<1>03. losses[t] = 0
  BY <1>01, <1>02 DEF TypeOK
<1>0. /\ Written(t) /\ Reported(t)
      /\ next[t] \in Nat \ {0} /\ Length[t] \in Nat
      /\ uncommitted[t] \in Seq(Nat) /\ committed[t] \in Seq(Nat)
  BY <1>03 DEF Whole, Connected, TypeOK
<1>1. CASE ExecuteTransaction(t)
  <2>1. CASE Length[t] = 0
    BY <1>0, <1>1, <2>1 DEF ExecuteTransaction, TypeOK, Written, Reported
  <2>2. CASE Length[t] # 0
    <3>1. committed[t] = <<>> /\ uncommitted[t] = <<>> /\ pc[t] = "execute"
      BY <1>0, <1>1 DEF ExecuteTransaction, Written
    <3>2. committed'[t] = <<>>
      <4>1. committed'[t] = committed[t] \o uncommitted[t]
        BY <1>1, <2>2 DEF ExecuteTransaction, TypeOK
      <4> QED BY <1>0, <3>1, <4>1, EmptyConcat
    <3>3. pc'[t] = "statements" /\ inTransaction'[t] = TRUE /\ next'[t] = 1 /\ uncommitted'[t] = <<>>
      BY <1>1, <2>2 DEF ExecuteTransaction, TypeOK
    <3>4. Written(t)'
      BY <1>0, <2>2, <3>2, <3>3, UptoZero DEF Written
    <3>5. Reported(t)'
      BY <1>0, <1>1, <3>1 DEF ExecuteTransaction, Reported
    <3> QED BY <3>4, <3>5
  <2> QED BY <2>1, <2>2
<1>2. CASE StatementDone(t)
  <2>1. /\ pc[t] = "statements" /\ inTransaction[t] /\ committed[t] = <<>>
        /\ next[t] <= Length[t] /\ uncommitted[t] = Upto(next[t] - 1)
    BY <1>0, <1>2 DEF StatementDone, Written
  <2>2. uncommitted'[t] = Upto(next[t]) /\ committed' = committed
    <3>1. uncommitted'[t] = Append(uncommitted[t], next[t]) /\ committed' = committed
      BY <1>2, <2>1 DEF StatementDone, TypeOK
    <3> QED BY <1>0, <2>1, <3>1, UptoAppend
  <2>3. next'[t] = next[t] + 1 /\ inTransaction' = inTransaction /\ result' = result
    BY <1>2 DEF StatementDone, TypeOK
  <2>4. CASE next[t] = Length[t]
    <3>1. pc'[t] = "commit"
      BY <1>2, <2>4 DEF StatementDone, TypeOK
    <3> QED BY <1>0, <2>1, <2>2, <2>3, <2>4, <3>1 DEF Written, Reported
  <2>5. CASE next[t] # Length[t]
    <3>1. pc'[t] = "statements"
      BY <1>2, <2>1, <2>5 DEF StatementDone
    <3>2. next'[t] <= Length[t] /\ next'[t] - 1 = next[t]
      BY <1>0, <2>1, <2>3, <2>5
    <3> QED BY <1>0, <2>1, <2>2, <2>3, <3>1, <3>2 DEF Written, Reported
  <2> QED BY <2>4, <2>5
<1>3. CASE StatementDeadlock(t) \/ StatementError(t)
  BY <1>0, <1>3 DEF StatementDeadlock, StatementError, server, TypeOK, Written, Reported
<1>4. CASE StatementLost(t) \/ CommitLost(t)
  <2>1. losses'[t] = losses[t] + 1
    BY <1>4 DEF StatementLost, CommitLost, Reconnect, TypeOK
  <2> QED BY <1>01, <2>1
<1>5. CASE Rollback(t)
  BY <1>0, <1>5 DEF Rollback, TypeOK, Written, Reported
<1>6. CASE Commit(t)
  <2>1. committed'[t] = Upto(Length[t])
    <3>1. committed[t] = <<>> /\ uncommitted[t] = Upto(Length[t])
      BY <1>0, <1>6 DEF Commit, Written
    <3>2. committed'[t] = committed[t] \o uncommitted[t]
      BY <1>6 DEF Commit, TypeOK
    <3> QED BY <1>0, <3>1, <3>2, EmptyConcat
  <2>2. pc'[t] = "succeeded" /\ inTransaction'[t] = FALSE /\ uncommitted'[t] = <<>> /\ pc[t] = "commit"
    BY <1>6 DEF Commit, TypeOK
  <2>3. result' = result /\ result[t] = "none"
    BY <1>0, <1>6 DEF Commit, Reported
  <2> QED BY <2>1, <2>2, <2>3 DEF Written, Reported
<1>7. CASE TakeDeadlockLock(t) \/ RetryAgain(t) \/ DirectRetry(t)
  BY <1>0, <1>7 DEF TakeDeadlockLock, RetryAgain, DirectRetry, server, TypeOK, Written, Reported
<1>8. CASE GiveUp(t) \/ Succeed(t)
  BY <1>0, <1>8 DEF GiveUp, Succeed, server, TypeOK, Written, Reported
<1>9. CASE DirectEnd(t)
  <2>1. /\ pc[t] \in {"failed", "succeeded"} /\ pc'[t] = "done"
        /\ inTransaction' = inTransaction /\ uncommitted' = uncommitted
        /\ committed' = committed /\ result' = result
    BY <1>9 DEF DirectEnd, server, TypeOK
  <2> QED BY <1>0, <2>1 DEF Written, Reported
<1> QED BY <1>1, <1>2, <1>3, <1>4, <1>5, <1>6, <1>7, <1>8, <1>9 DEF Step

\* So it holds in every reachable state.
LEMMA WholeInvariant == Spec => []Whole
<1>1. Init => Whole
  BY DEF Init, Whole, Connected, Written, Reported
<1>2. TypeOK /\ Whole /\ [Next]_vars => Whole'
  <2> SUFFICES ASSUME TypeOK, Whole, [Next]_vars, NEW u \in Threads, losses'[u] = 0
               PROVE  Written(u)' /\ Reported(u)'
    BY DEF Whole, Connected
  <2>1. CASE UNCHANGED vars
    BY <2>1 DEF Whole, Connected, Written, Reported, vars
  <2>2. ASSUME NEW t \in Threads, Step(t)
        PROVE  Written(u)' /\ Reported(u)'
    <3>1. CASE u = t
      BY <2>2, <3>1, WholeStep
    <3>2. CASE u # t
      <4>1. /\ pc'[u] = pc[u] /\ next'[u] = next[u] /\ result'[u] = result[u]
            /\ inTransaction'[u] = inTransaction[u]
            /\ uncommitted'[u] = uncommitted[u] /\ committed'[u] = committed[u]
            /\ losses'[u] = losses[u]
        BY <2>2, <3>2, OthersUnchanged
      <4>2. Written(u) /\ Reported(u)
        BY <4>1 DEF Whole, Connected
      <4> QED BY <4>1, <4>2 DEF Written, Reported
    <3> QED BY <3>1, <3>2
  <2> QED BY <2>1, <2>2 DEF Next
<1> QED BY <1>1, <1>2, TypeCorrect, PTL DEF Spec

\* Whatever deadlocks and errors a transaction meets and however often it is
\* executed again: while its connection is kept, the database holds the whole
\* of it or nothing.
THEOREM TransactionsAtomic == Spec => []Atomic
<1>1. TypeOK /\ Whole => Atomic
  BY DEF TypeOK, Places, Whole, Connected, Written, Atomic
<1> QED BY <1>1, TypeCorrect, WholeInvariant, PTL

\* While the connection is kept, m_result tells what is in the database.
THEOREM ResultsHonest == Spec => []ResultHonest
<1>1. Whole => ResultHonest
  BY DEF Whole, Reported, ResultHonest
<1> QED BY <1>1, WholeInvariant, PTL

\* ExecuteTransaction leaves its session outside any transaction, whether it
\* succeeds or fails, and also when its connection was lost.
THEOREM SessionsClosed == Spec => []NothingLeftOpen
<1>1. (\A t \in Threads : Closed(t)) => NothingLeftOpen
  BY DEF Closed, NothingLeftOpen
<1> QED BY <1>1, ClosedInvariant, PTL

-----------------------------------------------------------------------------
(* What a lost connection can do.                                          *)

\* How often statement n is in the log s.
Times(n, s) == Cardinality({i \in 1 .. Len(s) : s[i] = n})

\* A log is finite.
LEMMA TimesIsNat ==
  ASSUME NEW s \in Seq(Nat), NEW n
  PROVE  IsFiniteSet({i \in 1 .. Len(s) : s[i] = n}) /\ Times(n, s) \in Nat
<1>1. IsFiniteSet(1 .. Len(s))
  BY FS_Interval
<1>2. IsFiniteSet({i \in 1 .. Len(s) : s[i] = n})
  BY <1>1, FS_Subset
<1> QED BY <1>2, FS_CardinalityType DEF Times

\* An empty log has no statement.
LEMMA TimesEmpty == \A n : Times(n, <<>>) = 0
<1>1. \A n : {i \in 1 .. Len(<<>>) : <<>>[i] = n} = {}
  OBVIOUS
<1> QED BY <1>1, FS_EmptySet DEF Times

\* One statement more.
LEMMA TimesAppend ==
  ASSUME NEW s \in Seq(Nat), NEW e \in Nat, NEW n
  PROVE  Times(n, Append(s, e)) = Times(n, s) + (IF e = n THEN 1 ELSE 0)
<1> DEFINE A == {i \in 1 .. Len(s) : s[i] = n}
           B == {i \in 1 .. Len(Append(s, e)) : Append(s, e)[i] = n}
<1>1. /\ Len(s) \in Nat /\ Len(Append(s, e)) = Len(s) + 1
      /\ \A i \in 1 .. Len(s) + 1 : Append(s, e)[i] = IF i = Len(s) + 1 THEN e ELSE s[i]
  OBVIOUS
<1>2. IsFiniteSet(A) /\ Cardinality(A) \in Nat
  BY TimesIsNat DEF Times
<1>3. CASE e = n
  <2>1. B = A \cup {Len(s) + 1} /\ Len(s) + 1 \notin A
    BY <1>1, <1>3
  <2>2. Cardinality(A \cup {Len(s) + 1}) = Cardinality(A) + 1
    BY <1>2, <2>1, FS_AddElement
  <2> HIDE DEF A, B
  <2>3. Cardinality(B) = Cardinality(A) + 1
    BY <2>1, <2>2
  <2> QED BY <1>3, <2>3 DEF A, B, Times
<1>4. CASE e # n
  <2>1. B = A
    BY <1>1, <1>4
  <2> HIDE DEF A, B
  <2>2. Cardinality(B) = Cardinality(A) + 0
    BY <1>2, <2>1
  <2> QED BY <1>4, <2>2 DEF A, B, Times
<1> QED BY <1>3, <1>4

\* A whole transaction has each of its statements once.
LEMMA TimesUpto ==
  ASSUME NEW s \in Seq(Nat), NEW k \in Nat, NEW n
  PROVE  Times(n, s \o Upto(k)) <= Times(n, s) + 1
<1> DEFINE A == {i \in 1 .. Len(s) : s[i] = n}
           B == {i \in 1 .. Len(s \o Upto(k)) : (s \o Upto(k))[i] = n}
<1>1. Upto(k) \in Seq(Nat) /\ Len(Upto(k)) = k /\ \A i \in 1 .. k : Upto(k)[i] = i
  BY DEF Upto
<1>2. /\ Len(s) \in Nat /\ Len(s \o Upto(k)) = Len(s) + k
      /\ \A i \in 1 .. Len(s) + k :
           (s \o Upto(k))[i] = IF i <= Len(s) THEN s[i] ELSE Upto(k)[i - Len(s)]
  <2> DEFINE u == Upto(k)
  <2>1. u \in Seq(Nat) /\ Len(u) = k /\ Len(s) \in Nat
    BY <1>1
  <2> HIDE DEF u
  <2>2. /\ Len(s \o u) = Len(s) + k
        /\ \A i \in 1 .. Len(s) + k : (s \o u)[i] = IF i <= Len(s) THEN s[i] ELSE u[i - Len(s)]
    <3>1. /\ Len(s \o u) = Len(s) + Len(u)
          /\ \A i \in 1 .. Len(s) + Len(u) :
               (s \o u)[i] = IF i <= Len(s) THEN s[i] ELSE u[i - Len(s)]
      BY <2>1, ConcatProperties
    <3> QED BY <2>1, <3>1
  <2> QED BY <2>1, <2>2 DEF u
<1>3. \A i \in B : i \in A \/ i - Len(s) = n
  <2> SUFFICES ASSUME NEW i \in 1 .. Len(s) + k, (s \o Upto(k))[i] = n, i > Len(s)
               PROVE  i - Len(s) = n
    BY <1>2
  <2>1. i - Len(s) \in 1 .. k
    BY <1>2
  <2> QED BY <1>1, <1>2, <2>1
<1>4. PICK x : B \subseteq A \cup {x}
  <2>1. CASE \E i \in B : i \notin A
    <3>1. PICK x \in B : x - Len(s) = n
      BY <1>3, <2>1
    <3>2. \A i \in B : i \in A \/ i = x
      <4>1. \A i \in B : i \in Nat
        BY <1>2
      <4> QED BY <1>2, <1>3, <3>1, <4>1
    <3> QED BY <3>2
  <2>2. CASE \A i \in B : i \in A
    BY <2>2
  <2> QED BY <2>1, <2>2
<1>5. IsFiniteSet(A) /\ Cardinality(A) \in Nat
  BY TimesIsNat DEF Times
<1> HIDE DEF A, B
<1>6. /\ IsFiniteSet(A \cup {x})
      /\ Cardinality(A \cup {x}) = Cardinality(A) \/ Cardinality(A \cup {x}) = Cardinality(A) + 1
  <2>1. x \in A => A \cup {x} = A
    OBVIOUS
  <2> QED BY <1>5, <2>1, FS_AddElement
<1>7. Cardinality(B) <= Cardinality(A \cup {x}) /\ Cardinality(B) \in Nat
  BY <1>4, <1>6, FS_Subset, FS_CardinalityType
<1>8. Cardinality(B) <= Cardinality(A) + 1
  BY <1>5, <1>6, <1>7
<1> QED BY <1>8 DEF A, B, Times

\* What was applied more often than it was sent was sent again after a loss:
\* in a session that is in no transaction, the statements still to come have
\* been applied once less than the connection was lost.
Damage(t) ==
  /\ \A n \in 1 .. Length[t] :
       /\ Times(n, committed[t])
            <= losses[t] + (IF pc[t] \in {"succeeded", "done"} THEN 1 ELSE 0)
       /\ pc[t] = "statements" /\ ~inTransaction[t] /\ n >= next[t] =>
            Times(n, committed[t]) < losses[t]
  /\ pc[t] = "statements" =>
       uncommitted[t] = IF inTransaction[t] THEN Upto(next[t] - 1) ELSE <<>>
  /\ pc[t] = "commit" =>
       uncommitted[t] = IF inTransaction[t] THEN Upto(Length[t]) ELSE <<>>

\* How often a statement was applied, by the place of its thread.
LEMMA DamageSays ==
  ASSUME NEW t \in Threads, Damage(t), NEW n \in 1 .. Length[t],
         losses[t] \in Nat, Times(n, committed[t]) \in Nat
  PROVE  /\ Times(n, committed[t]) <= losses[t] + 1
         /\ pc[t] \notin {"succeeded", "done"} => Times(n, committed[t]) <= losses[t]
<1>1. Times(n, committed[t]) <= losses[t] + (IF pc[t] \in {"succeeded", "done"} THEN 1 ELSE 0)
  BY DEF Damage
<1> QED BY <1>1

\* Outside the statements and the commit only the count is to be kept.
LEMMA DamageOutside ==
  ASSUME NEW t \in Threads, losses'[t] \in Nat,
         \A n \in 1 .. Length[t] : Times(n, committed'[t]) \in Nat,
         \/ /\ pc'[t] \in {"execute", "rollback", "failed"}
            /\ \A n \in 1 .. Length[t] : Times(n, committed'[t]) <= losses'[t]
         \/ /\ pc'[t] \in {"succeeded", "done"}
            /\ \A n \in 1 .. Length[t] : Times(n, committed'[t]) <= losses'[t] + 1
  PROVE  Damage(t)'
<1>1. CASE /\ pc'[t] \in {"execute", "rollback", "failed"}
           /\ \A n \in 1 .. Length[t] : Times(n, committed'[t]) <= losses'[t]
  <2>1. pc'[t] \notin {"statements", "commit", "succeeded", "done"}
    BY <1>1
  <2> QED BY <1>1, <2>1 DEF Damage
<1>2. CASE /\ pc'[t] \in {"succeeded", "done"}
           /\ \A n \in 1 .. Length[t] : Times(n, committed'[t]) <= losses'[t] + 1
  <2>1. pc'[t] \notin {"statements", "commit"}
    BY <1>2
  <2> QED BY <1>2, <2>1 DEF Damage
<1> QED BY <1>1, <1>2

\* A step loses nothing it did not count.
LEMMA DamageStep ==
  ASSUME TypeOK, NEW t \in Threads, Damage(t), Closed(t), Step(t)
  PROVE  Damage(t)'
<1>0. /\ next[t] \in Nat \ {0} /\ Length[t] \in Nat /\ losses[t] \in Nat
      /\ uncommitted[t] \in Seq(Nat) /\ committed[t] \in Seq(Nat)
      /\ \A n : Times(n, committed[t]) \in Nat
  BY ThreadsAssumption, TimesIsNat DEF TypeOK
<1> USE DEF Goto
<1>1. CASE ExecuteTransaction(t)
  <2>1. CASE Length[t] = 0
    <3>1. pc'[t] = "failed"
      BY <1>1, <2>1 DEF ExecuteTransaction, TypeOK
    <3> QED BY <2>1, <3>1 DEF Damage
  <2>2. CASE Length[t] # 0
    <3>1. /\ committed'[t] = committed[t] \o uncommitted[t]
          /\ pc[t] = "execute" /\ pc'[t] = "statements" /\ inTransaction'[t] = TRUE
          /\ next'[t] = 1 /\ uncommitted'[t] = <<>> /\ losses'[t] = losses[t]
      BY <1>1, <2>2 DEF ExecuteTransaction, TypeOK
    <3>2. committed'[t] = committed[t]
      BY <1>0, <3>1, EmptyConcat DEF Closed
    <3>3. \A n \in 1 .. Length[t] : Times(n, committed[t]) <= losses[t]
      BY <1>0, <3>1, DamageSays
    <3>4. uncommitted'[t] = Upto(next'[t] - 1)
      BY <3>1, UptoZero
    <3> QED BY <1>0, <3>1, <3>2, <3>3, <3>4 DEF Damage
  <2> QED BY <2>1, <2>2
<1>2. CASE StatementDone(t)
  <2>1. /\ pc[t] = "statements" /\ next'[t] = next[t] + 1
        /\ inTransaction'[t] = inTransaction[t] /\ losses'[t] = losses[t]
        /\ pc'[t] = IF next[t] = Length[t] THEN "commit" ELSE "statements"
    BY <1>2 DEF StatementDone, TypeOK
  <2>2. CASE inTransaction[t]
    <3>1. uncommitted'[t] = Append(uncommitted[t], next[t]) /\ committed'[t] = committed[t]
      BY <1>2, <2>2 DEF StatementDone, TypeOK
    <3>2. uncommitted'[t] = Upto(next[t])
      BY <1>0, <2>1, <2>2, <3>1, UptoAppend DEF Damage
    <3>3. \A n \in 1 .. Length[t] : Times(n, committed[t]) <= losses[t]
      BY <1>0, <2>1, DamageSays
    <3>4. next'[t] - 1 = next[t]
      BY <1>0, <2>1
    <3> QED BY <1>0, <2>1, <2>2, <3>1, <3>2, <3>3, <3>4 DEF Damage
  <2>3. CASE ~inTransaction[t]
    <3>1. uncommitted'[t] = uncommitted[t] /\ committed'[t] = Append(committed[t], next[t])
      BY <1>2, <2>3 DEF StatementDone, TypeOK
    <3>2. \A n \in 1 .. Length[t] :
            /\ Times(n, committed[t]) <= losses[t]
            /\ n >= next[t] => Times(n, committed[t]) < losses[t]
      BY <1>0, <2>1, <2>3 DEF Damage
    <3>3. uncommitted[t] = <<>>
      BY <1>0, <2>1, <2>3 DEF Damage
    <3>4. \A n : Times(n, committed'[t])
                   = Times(n, committed[t]) + (IF next[t] = n THEN 1 ELSE 0)
      BY <1>0, <3>1, TimesAppend
    <3>5. \A n \in 1 .. Length[t] :
            /\ Times(n, committed'[t]) <= losses[t]
            /\ n >= next[t] + 1 => Times(n, committed'[t]) < losses[t]
      BY <1>0, <3>2, <3>4
    <3> QED BY <1>0, <2>1, <2>3, <3>1, <3>3, <3>5 DEF Damage
  <2> QED BY <2>2, <2>3
<1>3. CASE StatementDeadlock(t) \/ StatementError(t)
  <2>1. /\ pc[t] = "statements" /\ pc'[t] = "rollback"
        /\ committed'[t] = committed[t] /\ losses'[t] = losses[t]
    BY <1>3 DEF StatementDeadlock, StatementError, server, TypeOK
  <2>2. \A n \in 1 .. Length[t] : Times(n, committed[t]) <= losses[t]
    BY <1>0, <2>1, DamageSays
  <2>3. /\ \A n \in 1 .. Length[t] : Times(n, committed'[t]) <= losses'[t]
        /\ \A n \in 1 .. Length[t] : Times(n, committed'[t]) \in Nat
    BY <1>0, <2>1, <2>2
  <2>4. losses'[t] \in Nat
    BY <1>0, <2>1
  <2> QED BY <2>1, <2>3, <2>4, DamageOutside
<1>4. CASE StatementLost(t)
  <2>1. /\ pc[t] = "statements" /\ pc'[t] = "statements" /\ next'[t] = next[t]
        /\ inTransaction'[t] = FALSE /\ uncommitted'[t] = <<>> /\ losses'[t] = losses[t] + 1
    BY <1>4 DEF StatementLost, Reconnect, TypeOK
  <2>2. \/ committed'[t] = committed[t]
        \/ /\ ~inTransaction[t]
           /\ committed'[t] = Append(committed[t], next[t])
    BY <1>4 DEF StatementLost, TypeOK
  <2>3. \A n \in 1 .. Length[t] :
          /\ Times(n, committed[t]) <= losses[t]
          /\ ~inTransaction[t] /\ n >= next[t] => Times(n, committed[t]) < losses[t]
    BY <1>0, <2>1 DEF Damage
  <2>4. CASE committed'[t] = committed[t]
    BY <1>0, <2>1, <2>3, <2>4 DEF Damage
  <2>5. CASE ~inTransaction[t] /\ committed'[t] = Append(committed[t], next[t])
    <3>1. \A n : Times(n, committed'[t])
                   = Times(n, committed[t]) + (IF next[t] = n THEN 1 ELSE 0)
      BY <1>0, <2>5, TimesAppend
    <3>2. ASSUME NEW n \in 1 .. Length[t]
          PROVE  Times(n, committed'[t]) <= losses[t]
      <4>1. CASE next[t] = n
        <5>1. n >= next[t]
          BY <1>0, <4>1
        <5> QED BY <1>0, <2>3, <2>5, <3>1, <4>1, <5>1
      <4>2. CASE next[t] # n
        BY <1>0, <2>3, <3>1, <4>2
      <4> QED BY <4>1, <4>2
    <3>3. \A n : Times(n, committed'[t]) \in Nat
      BY <1>0, <3>1
    <3> QED BY <1>0, <2>1, <3>2, <3>3 DEF Damage
  <2> QED BY <2>2, <2>4, <2>5
<1>5. CASE Rollback(t)
  <2>1. /\ pc[t] = "rollback" /\ pc'[t] = "failed"
        /\ committed'[t] = committed[t] /\ losses'[t] = losses[t]
    BY <1>5 DEF Rollback, TypeOK
  <2>2. \A n \in 1 .. Length[t] : Times(n, committed[t]) <= losses[t]
    BY <1>0, <2>1, DamageSays
  <2>3. /\ \A n \in 1 .. Length[t] : Times(n, committed'[t]) <= losses'[t]
        /\ \A n \in 1 .. Length[t] : Times(n, committed'[t]) \in Nat
    BY <1>0, <2>1, <2>2
  <2>4. losses'[t] \in Nat
    BY <1>0, <2>1
  <2> QED BY <2>1, <2>3, <2>4, DamageOutside
<1>6. CASE Commit(t) \/ CommitLost(t)
  <2>1. /\ pc[t] = "commit"
        /\ committed'[t] = committed[t] \/ committed'[t] = committed[t] \o uncommitted[t]
        /\ \/ pc'[t] = "succeeded" /\ losses'[t] = losses[t]
           \/ /\ pc'[t] = "commit" /\ losses'[t] = losses[t] + 1
              /\ inTransaction'[t] = FALSE /\ uncommitted'[t] = <<>>
    BY <1>6 DEF Commit, CommitLost, Reconnect, TypeOK
  <2>2. \A n \in 1 .. Length[t] : Times(n, committed'[t]) <= losses[t] + 1
    <3>1. \A n \in 1 .. Length[t] : Times(n, committed[t]) <= losses[t]
      BY <1>0, <2>1, DamageSays
    <3>2. uncommitted[t] = Upto(Length[t]) \/ uncommitted[t] = <<>>
      BY <1>0, <2>1 DEF Damage
    <3>3. CASE committed'[t] = committed[t]
      BY <1>0, <3>1, <3>3
    <3>4. CASE committed'[t] = committed[t] \o Upto(Length[t])
      <4>1. \A n : Times(n, committed'[t]) <= Times(n, committed[t]) + 1
        BY <1>0, <3>4, TimesUpto
      <4>2. \A n : Times(n, committed'[t]) \in Nat
        BY <1>0, <3>4, UptoIsSeq, TimesIsNat, ConcatProperties
      <4> QED BY <1>0, <3>1, <4>1, <4>2
    <3>5. CASE committed'[t] = committed[t] \o <<>>
      BY <1>0, <3>1, <3>5, EmptyConcat
    <3> QED BY <2>1, <3>2, <3>3, <3>4, <3>5
  <2>3. CASE pc'[t] = "succeeded" /\ losses'[t] = losses[t]
    <3>1. \A n \in 1 .. Length[t] : Times(n, committed'[t]) \in Nat
      BY <1>0, <2>1, TimesIsNat, ConcatProperties
    <3> QED BY <1>0, <2>2, <2>3, <3>1, DamageOutside
  <2>4. CASE /\ pc'[t] = "commit" /\ losses'[t] = losses[t] + 1
             /\ inTransaction'[t] = FALSE /\ uncommitted'[t] = <<>>
    <3>1. losses'[t] + (IF pc'[t] \in {"succeeded", "done"} THEN 1 ELSE 0) = losses[t] + 1
      BY <1>0, <2>4
    <3> QED BY <2>2, <2>4, <3>1 DEF Damage
  <2> QED BY <2>1, <2>3, <2>4
<1>7. CASE TakeDeadlockLock(t) \/ RetryAgain(t) \/ DirectRetry(t)
  <2>1. /\ pc[t] = "failed" /\ pc'[t] = "execute"
        /\ committed'[t] = committed[t] /\ losses'[t] = losses[t]
    BY <1>7 DEF TakeDeadlockLock, RetryAgain, DirectRetry, server, TypeOK
  <2>2. \A n \in 1 .. Length[t] : Times(n, committed[t]) <= losses[t]
    BY <1>0, <2>1, DamageSays
  <2>3. /\ \A n \in 1 .. Length[t] : Times(n, committed'[t]) <= losses'[t]
        /\ \A n \in 1 .. Length[t] : Times(n, committed'[t]) \in Nat
    BY <1>0, <2>1, <2>2
  <2>4. losses'[t] \in Nat
    BY <1>0, <2>1
  <2> QED BY <2>1, <2>3, <2>4, DamageOutside
<1>8. CASE GiveUp(t) \/ Succeed(t) \/ DirectEnd(t)
  <2>1. /\ pc[t] \in {"failed", "succeeded"} /\ pc'[t] = "done"
        /\ committed'[t] = committed[t] /\ losses'[t] = losses[t]
    BY <1>8 DEF GiveUp, Succeed, DirectEnd, server, TypeOK
  <2>2. \A n \in 1 .. Length[t] : Times(n, committed[t]) <= losses[t] + 1
    BY <1>0, DamageSays
  <2>3. /\ \A n \in 1 .. Length[t] : Times(n, committed'[t]) <= losses'[t] + 1
        /\ \A n \in 1 .. Length[t] : Times(n, committed'[t]) \in Nat
    BY <1>0, <2>1, <2>2
  <2>4. losses'[t] \in Nat
    BY <1>0, <2>1
  <2> QED BY <2>1, <2>3, <2>4, DamageOutside
<1> QED BY <1>1, <1>2, <1>3, <1>4, <1>5, <1>6, <1>7, <1>8 DEF Step

\* However long the transactions, and however often a connection is lost and
\* opened again in the middle of one: a statement is applied at most once more
\* than its thread lost the connection.
THEOREM DamageIsBounded == Spec => []DamageBounded
<1> DEFINE AllDamage == \A t \in Threads : Damage(t)
           AllClosed == \A t \in Threads : Closed(t)
<1>1. Init => AllDamage
  BY TimesEmpty DEF Init, Damage
<1>2. TypeOK /\ AllClosed /\ AllDamage /\ [Next]_vars => AllDamage'
  <2> SUFFICES ASSUME TypeOK, AllClosed, AllDamage, [Next]_vars, NEW u \in Threads
               PROVE  Damage(u)'
    OBVIOUS
  <2>1. CASE UNCHANGED vars
    BY <2>1 DEF Damage, vars
  <2>2. ASSUME NEW t \in Threads, Step(t)
        PROVE  Damage(u)'
    <3>1. CASE u = t
      BY <2>2, <3>1, DamageStep
    <3>2. CASE u # t
      <4>1. /\ pc'[u] = pc[u] /\ next'[u] = next[u] /\ losses'[u] = losses[u]
            /\ inTransaction'[u] = inTransaction[u]
            /\ uncommitted'[u] = uncommitted[u] /\ committed'[u] = committed[u]
        BY <2>2, <3>2, OthersUnchanged
      <4>2. Damage(u)
        OBVIOUS
      <4> QED BY <4>1, <4>2 DEF Damage
    <3> QED BY <3>1, <3>2
  <2> QED BY <2>1, <2>2 DEF Next
<1>3. TypeOK /\ AllDamage => DamageBounded
  <2> SUFFICES ASSUME TypeOK, AllDamage, NEW t \in Threads, NEW n \in 1 .. Length[t]
               PROVE  Times(n, committed[t]) <= 1 + losses[t]
    BY DEF DamageBounded, Times
  <2>1. /\ committed[t] \in Seq(Nat) /\ losses[t] \in Nat
        /\ Times(n, committed[t])
             <= losses[t] + (IF pc[t] \in {"succeeded", "done"} THEN 1 ELSE 0)
    BY DEF TypeOK, Damage
  <2>2. Times(n, committed[t]) \in Nat
    BY <2>1, TimesIsNat
  <2> QED BY <2>1, <2>2
<1>4. Spec => []AllClosed
  BY ClosedInvariant
<1> HIDE DEF AllDamage, AllClosed
<1> QED BY <1>1, <1>2, <1>3, <1>4, TypeCorrect, PTL DEF Spec
=============================================================================
