------------------------ MODULE WorldSessionsProofs ------------------------
(***************************************************************************)
(* The sessions for any accounts, limit and configuration: each session    *)
(* has one owner, the queue holds sessions that are alive and wait, the    *)
(* limit holds and no room is left unused, a character is in the world     *)
(* once, and the shutdown logs everybody out.                              *)
(***************************************************************************)
EXTENDS WorldSessions, FiniteSetTheorems, SequenceTheorems, TLAPS

-----------------------------------------------------------------------------
(* The inductive invariant.                                                *)

In(x, q) == \E i \in 1 .. Len(q) : q[i] = x
Distinct(q) == \A i, j \in 1 .. Len(q) : q[i] = q[j] => i = j

\* A session the world thread has not seen has done nothing yet.
Fresh(x) ==
  /\ x.account \in Accounts /\ x.socket # "none" /\ ~x.kicked /\ ~x.inQueue /\ ~x.loading
  /\ x.holder = NoChar /\ x.player = NoChar /\ ~x.away

\* What is handed over was created, is fresh and nowhere else.
HandedInv ==
  /\ Distinct(addSessQueue)
  /\ \A s \in Sessions : In(s, addSessQueue) =>
       s <= created /\ Fresh(session[s])
       /\ \A a \in Accounts : sessions[a] # s /\ offline[a] # s

\* The maps hold sessions of their accounts, with a socket and without.
MapsInv ==
  \A a \in Accounts :
    /\ sessions[a] # NoSession =>
         session[sessions[a]].account = a /\ session[sessions[a]].socket # "none"
    /\ offline[a] # NoSession =>
         /\ session[offline[a]].account = a /\ session[offline[a]].socket = "none"
         /\ ~session[offline[a]].inQueue /\ session[offline[a]].holder = NoChar

\* A session that is nowhere is destroyed, or not yet created.
PlacedInv ==
  \A s \in Sessions :
    /\ s > created => session[s] = Destroyed
    /\ session[s] = Destroyed
       \/ /\ session[s].account \in Accounts
          /\ \/ In(s, addSessQueue)
             \/ sessions[session[s].account] = s
             \/ offline[session[s].account] = s

\* The account whose session runs, and the accounts still to visit.
LoopInv ==
  /\ current # NoSession =>
       /\ phase = "sessions" /\ session[current].account \in Accounts
       /\ sessions[session[current].account] = current
       /\ session[current].account \notin todo
  /\ phase \in {"idle", "add"} => todo = {}
  /\ phase = "sessions" => todo \subseteq Has(sessions)
  /\ phase = "offline" => todo \subseteq Has(offline)

\* What a session is doing excludes the rest.
LoginInv ==
  \A s \in Sessions :
    /\ session[s].holder # NoChar => session[s].player = NoChar /\ session[s].loading
    /\ session[s].inQueue => session[s].holder = NoChar /\ session[s].player = NoChar
    /\ session[s].kicked => session[s].socket # "open"

QueueInv ==
  /\ Distinct(queued)
  /\ \A s \in Sessions : In(s, queued) =>
       session[s].inQueue /\ \E a \in Accounts : sessions[a] = s
  /\ shutdown \in {"running", "stopping"} =>
       \A s \in Sessions : session[s].inQueue => In(s, queued)

\* The account's session has not the character of its offline session.
CharInv ==
  \A a \in Accounts :
    sessions[a] # NoSession /\ offline[a] # NoSession
    /\ session[offline[a]].player # NoChar =>
      /\ session[sessions[a]].player # session[offline[a]].player
      /\ session[sessions[a]].holder # session[offline[a]].player

Playing(s) == session[s].player # NoChar \/ session[s].holder # NoChar
Doomed(s) == session[s].player = NoChar \/ session[s].kicked

\* A session that has a character, or loads one, next to an offline session:
\* the update has still to drop the offline one.
OneInv ==
  \A a \in Accounts :
    sessions[a] # NoSession /\ offline[a] # NoSession /\ Playing(sessions[a]) =>
      /\ phase \in {"sessions", "offline"}
      /\ phase = "offline" => a \in todo
      /\ Doomed(offline[a])

\* Who was kicked is still to be visited.
KickedInv ==
  /\ \A a \in Accounts : sessions[a] # NoSession /\ session[sessions[a]].kicked =>
       /\ phase = "sessions" => a \in todo \/ sessions[a] = current
       /\ phase # "offline" /\ shutdown # "halted"
  /\ \A a \in Accounts : offline[a] # NoSession /\ Stopped /\ shutdown # "stopping" =>
       /\ shutdown = "kicked" /\ session[offline[a]].kicked
       /\ phase = "offline" => a \in todo
  /\ shutdown = "halted" => phase = "idle"

\* How many sessions do not wait.
ActiveCount == Cardinality(Has(sessions)) - Len(queued)

LimitInv ==
  /\ ~Tolerance => disconnects = {}
  /\ LimitHolds

RoomInv == queued # <<>> => Limit > 0 /\ ActiveCount >= Limit

Inv ==
  /\ TypeOK
  /\ HandedInv /\ MapsInv /\ PlacedInv
  /\ LoopInv /\ LoginInv
  /\ QueueInv
  /\ CharInv /\ OneInv /\ KickedInv
  /\ LimitInv /\ RoomInv

-----------------------------------------------------------------------------
(* Sequences without repetition.                                           *)

\* The rest of a sequence has all its elements but the first.
LEMMA TailFacts ==
  ASSUME NEW S, NEW q \in Seq(S), q # <<>>
  PROVE  /\ Head(q) \in S /\ In(Head(q), q)
         /\ Tail(q) \in Seq(S) /\ Len(Tail(q)) = Len(q) - 1
         /\ \A i \in 1 .. Len(Tail(q)) : Tail(q)[i] = q[i + 1]
         /\ Distinct(q) => /\ Distinct(Tail(q))
                           /\ \A x : In(x, Tail(q)) <=> In(x, q) /\ x # Head(q)
<1>1. /\ Head(q) \in S /\ Tail(q) \in Seq(S) /\ Len(Tail(q)) = Len(q) - 1
      /\ Len(q) \in Nat \ {0} /\ Head(q) = q[1]
      /\ \A i \in 1 .. Len(Tail(q)) : Tail(q)[i] = q[i + 1]
  OBVIOUS
<1>2. In(Head(q), q)
  BY <1>1 DEF In
<1>3. ASSUME Distinct(q)
      PROVE  /\ Distinct(Tail(q))
             /\ \A x : In(x, Tail(q)) <=> In(x, q) /\ x # Head(q)
  <2>1. Distinct(Tail(q))
    BY <1>1, <1>3 DEF Distinct
  <2>2. ASSUME NEW x, In(x, Tail(q))
        PROVE  In(x, q) /\ x # Head(q)
    BY <1>1, <1>3, <2>2 DEF Distinct, In
  <2>3. ASSUME NEW x, In(x, q), x # Head(q)
        PROVE  In(x, Tail(q))
    <3>1. PICK i \in 1 .. Len(q) : q[i] = x
      BY <2>3 DEF In
    <3>2. i - 1 \in 1 .. Len(Tail(q)) /\ Tail(q)[i - 1] = x
      BY <1>1, <2>3, <3>1
    <3> QED BY <3>2 DEF In
  <2> QED BY <2>1, <2>2, <2>3
<1> QED BY <1>1, <1>2, <1>3

\* Append adds one element.
LEMMA AppendFacts ==
  ASSUME NEW S, NEW q \in Seq(S), NEW e \in S
  PROVE  /\ Append(q, e) \in Seq(S) /\ Len(Append(q, e)) = Len(q) + 1
         /\ Append(q, e) # <<>>
         /\ \A x : In(x, Append(q, e)) <=> In(x, q) \/ x = e
         /\ Distinct(q) /\ ~In(e, q) => Distinct(Append(q, e))
<1>1. /\ Append(q, e) \in Seq(S) /\ Len(Append(q, e)) = Len(q) + 1
      /\ Append(q, e) # <<>>
      /\ Len(q) \in Nat /\ Append(q, e)[Len(q) + 1] = e
      /\ \A i \in 1 .. Len(q) : Append(q, e)[i] = q[i]
  BY AppendProperties
<1>2. ASSUME NEW x
      PROVE  In(x, Append(q, e)) <=> In(x, q) \/ x = e
  <2>1. 1 .. Len(q) + 1 = 1 .. Len(q) \cup {Len(q) + 1}
    BY <1>1
  <2> QED BY <1>1, <2>1 DEF In
<1>3. ASSUME Distinct(q), ~In(e, q)
      PROVE  Distinct(Append(q, e))
  <2>1. ASSUME NEW i \in 1 .. Len(q) + 1, NEW j \in 1 .. Len(q) + 1,
               Append(q, e)[i] = Append(q, e)[j]
        PROVE  i = j
    <3>1. CASE i \in 1 .. Len(q) /\ j \in 1 .. Len(q)
      BY <1>1, <1>3, <2>1, <3>1 DEF Distinct
    <3>2. CASE i = Len(q) + 1 \/ j = Len(q) + 1
      BY <1>1, <1>3, <2>1, <3>2 DEF In
    <3> QED BY <1>1, <3>1, <3>2
  <2> QED BY <1>1, <2>1 DEF Distinct
<1> QED BY <1>1, <1>2, <1>3

\* What is left of a sequence when the element at place k is removed.
LEMMA RemoveAtFacts ==
  ASSUME NEW S, NEW q \in Seq(S), Distinct(q), NEW k \in 1 .. Len(q)
  PROVE  /\ RemoveAt(q, k) \in Seq(S) /\ Len(RemoveAt(q, k)) = Len(q) - 1
         /\ Distinct(RemoveAt(q, k))
         /\ \A x : In(x, RemoveAt(q, k)) <=> In(x, q) /\ x # q[k]
<1> DEFINE r == RemoveAt(q, k)
<1>1. Len(q) \in Nat /\ \A i \in 1 .. Len(q) : q[i] \in S
  BY ElementOfSeq
<1>2. /\ SubSeq(q, 1, k - 1) \in Seq(S) /\ Len(SubSeq(q, 1, k - 1)) = k - 1
      /\ \A i \in 1 .. k - 1 : SubSeq(q, 1, k - 1)[i] = q[i]
  <2>1. \A i \in 1 .. k - 1 : q[i] \in S
    BY <1>1
  <2> QED BY <1>1, <2>1, SubSeqProperties
<1>3. /\ SubSeq(q, k + 1, Len(q)) \in Seq(S) /\ Len(SubSeq(q, k + 1, Len(q))) = Len(q) - k
      /\ \A i \in 1 .. Len(q) - k : SubSeq(q, k + 1, Len(q))[i] = q[k + i]
  <2>1. \A i \in k + 1 .. Len(q) : q[i] \in S
    BY <1>1
  <2>2. /\ SubSeq(q, k + 1, Len(q)) \in Seq(S)
        /\ Len(SubSeq(q, k + 1, Len(q))) = IF k + 1 <= Len(q) THEN Len(q) - (k + 1) + 1 ELSE 0
        /\ \A i \in 1 .. Len(q) - (k + 1) + 1 : SubSeq(q, k + 1, Len(q))[i] = q[k + 1 + i - 1]
    BY <1>1, <2>1, SubSeqProperties
  <2> QED BY <1>1, <2>2
<1>4. /\ r \in Seq(S) /\ Len(r) = Len(q) - 1
      /\ \A i \in 1 .. Len(q) - 1 : r[i] = IF i < k THEN q[i] ELSE q[i + 1]
  <2>1. /\ r \in Seq(S) /\ Len(r) = (k - 1) + (Len(q) - k)
        /\ \A i \in 1 .. (k - 1) + (Len(q) - k) :
             r[i] = IF i <= k - 1 THEN SubSeq(q, 1, k - 1)[i]
                    ELSE SubSeq(q, k + 1, Len(q))[i - (k - 1)]
    <3> DEFINE u == SubSeq(q, 1, k - 1)
               v == SubSeq(q, k + 1, Len(q))
    <3>1. r = u \o v
      BY DEF RemoveAt
    <3>2. /\ u \in Seq(S) /\ Len(u) = k - 1
          /\ v \in Seq(S) /\ Len(v) = Len(q) - k
      BY <1>2, <1>3
    <3> HIDE DEF u, v, r
    <3>3. /\ u \o v \in Seq(S) /\ Len(u \o v) = Len(u) + Len(v)
          /\ \A i \in 1 .. Len(u) + Len(v) :
               (u \o v)[i] = IF i <= Len(u) THEN u[i] ELSE v[i - Len(u)]
      BY <3>2, ConcatProperties
    <3>4. /\ r \in Seq(S) /\ Len(r) = (k - 1) + (Len(q) - k)
          /\ \A i \in 1 .. (k - 1) + (Len(q) - k) :
               r[i] = IF i <= k - 1 THEN u[i] ELSE v[i - (k - 1)]
      BY <3>1, <3>2, <3>3
    <3> QED BY <3>4 DEF u, v
  <2>2. ASSUME NEW i \in 1 .. Len(q) - 1
        PROVE  r[i] = IF i < k THEN q[i] ELSE q[i + 1]
    <3>1. CASE i < k
      BY <1>1, <1>2, <2>1, <3>1
    <3>2. CASE i >= k
      <4>1. r[i] = SubSeq(q, k + 1, Len(q))[i - (k - 1)] /\ i - (k - 1) \in 1 .. Len(q) - k
        BY <1>1, <2>1, <3>2
      <4>2. r[i] = q[k + (i - (k - 1))]
        BY <1>3, <4>1
      <4> QED BY <1>1, <3>2, <4>2
    <3> QED BY <1>1, <3>1, <3>2
  <2> QED BY <1>1, <2>1, <2>2
<1> HIDE DEF r
<1>5. Distinct(r)
  BY <1>1, <1>4 DEF Distinct
<1>6. ASSUME NEW x, In(x, r)
      PROVE  In(x, q) /\ x # q[k]
  BY <1>1, <1>4, <1>6 DEF In, Distinct
<1>7. ASSUME NEW x, In(x, q), x # q[k]
      PROVE  In(x, r)
  <2>1. PICK i \in 1 .. Len(q) : q[i] = x
    BY <1>7 DEF In
  <2>2. CASE i < k
    BY <1>1, <1>4, <2>1, <2>2 DEF In
  <2>3. CASE i > k
    <3>1. i - 1 \in 1 .. Len(r) /\ r[i - 1] = x
      BY <1>1, <1>4, <2>1, <2>3
    <3> QED BY <3>1 DEF In
  <2> QED BY <1>7, <2>1, <2>2, <2>3
<1> QED BY <1>4, <1>5, <1>6, <1>7 DEF r

\* A sequence without repetition has as many elements as places.
LEMMA CountIn ==
  ASSUME NEW S, NEW q \in Seq(S), Distinct(q)
  PROVE  /\ IsFiniteSet({x \in S : In(x, q)})
         /\ Cardinality({x \in S : In(x, q)}) = Len(q)
<1> DEFINE T == {x \in S : In(x, q)}
           f == [i \in 1 .. Len(q) |-> q[i]]
<1>1. Len(q) \in Nat /\ \A i \in 1 .. Len(q) : q[i] \in S
  BY ElementOfSeq
<1>2. IsFiniteSet(1 .. Len(q)) /\ Cardinality(1 .. Len(q)) = Len(q)
  BY <1>1, FS_Interval
<1>3. f \in [1 .. Len(q) -> T] /\ \A x \in T : \E i \in 1 .. Len(q) : f[i] = x
  BY <1>1 DEF In
<1>4. \A i, j \in 1 .. Len(q) : f[i] = f[j] => i = j
  BY DEF Distinct
<1>5. f \in Bijection(1 .. Len(q), T)
  <2> HIDE DEF f, T
  <2> QED BY <1>3, <1>4 DEF Bijection, Injection, Surjection, IsInjective
<1> QED BY <1>2, <1>5, FS_Bijection DEF ExistsBijection

-----------------------------------------------------------------------------
(* The admission queue.                                                    *)

\* s leaves the queue, the others keep their places.
LEMMA RestFacts ==
  ASSUME queued \in Seq(Sessions), Distinct(queued), NEW s
  PROVE  /\ Rest(s) \in Seq(Sessions) /\ Distinct(Rest(s))
         /\ Len(Rest(s)) = IF In(s, queued) THEN Len(queued) - 1 ELSE Len(queued)
         /\ \A x : In(x, Rest(s)) <=> In(x, queued) /\ x # s
<1>1. CASE In(s, queued)
  <2> DEFINE k == CHOOSE i \in 1 .. Len(queued) : queued[i] = s
  <2>1. k \in 1 .. Len(queued) /\ queued[k] = s
    BY <1>1 DEF In
  <2>2. Rest(s) = RemoveAt(queued, k)
    BY <1>1 DEF Rest, Queued, In
  <2> HIDE DEF k
  <2> QED BY <1>1, <2>1, <2>2, RemoveAtFacts
<1>2. CASE ~In(s, queued)
  BY <1>2 DEF Rest, Queued, In
<1> QED BY <1>1, <1>2

\* Who is still in the queue when s was removed: all but s and who is admitted.
LEMMA AfterFacts ==
  ASSUME queued \in Seq(Sessions), Distinct(queued), NEW s
  PROVE  /\ AfterRemove(s) \in Seq(Sessions) /\ Distinct(AfterRemove(s))
         /\ Len(AfterRemove(s)) = Len(Rest(s)) - (IF Admits(s) THEN 1 ELSE 0)
         /\ \A x : In(x, AfterRemove(s))
                     <=> In(x, queued) /\ x # s /\ ~(Admits(s) /\ x = Head(Rest(s)))
         /\ Admits(s) => In(Head(Rest(s)), queued) /\ Head(Rest(s)) # s
<1>1. /\ Rest(s) \in Seq(Sessions) /\ Distinct(Rest(s))
      /\ \A x : In(x, Rest(s)) <=> In(x, queued) /\ x # s
  BY RestFacts
<1>2. CASE Admits(s)
  <2>1. Rest(s) # <<>> /\ AfterRemove(s) = Tail(Rest(s))
    BY <1>2 DEF Admits, AfterRemove
  <2> QED BY <1>1, <1>2, <2>1, TailFacts
<1>3. CASE ~Admits(s)
  <2>1. AfterRemove(s) = Rest(s)
    BY <1>3 DEF AfterRemove
  <2> QED BY <1>1, <1>3, <2>1
<1> QED BY <1>2, <1>3

-----------------------------------------------------------------------------
(* How many sessions are active.                                           *)

Members == {s \in Sessions : \E a \in Accounts : sessions[a] = s}

\* The active sessions when s is gone and the first in the queue admitted.
Left(s) == {t \in Members : t # s /\ ~In(t, AfterRemove(s))}

LEMMA AccountsFinite == IsFiniteSet(Has(sessions)) /\ IsFiniteSet(Sessions)
<1>1. IsFiniteSet(Accounts) /\ Has(sessions) \subseteq Accounts
  BY AccountsAssumption DEF Has
<1>2. IsFiniteSet(Sessions)
  BY NumbersAssumption, FS_Interval DEF Sessions
<1> QED BY <1>1, <1>2, FS_Subset

\* An account has one session, and a session one account.
LEMMA MembersCount ==
  ASSUME TypeOK, MapsInv
  PROVE  IsFiniteSet(Members) /\ Cardinality(Members) = Cardinality(Has(sessions))
<1> DEFINE f == [a \in Has(sessions) |-> sessions[a]]
<1>1. f \in [Has(sessions) -> Members] /\ \A s \in Members : \E a \in Has(sessions) : f[a] = s
  BY DEF TypeOK, Has, Members, NoSession, Sessions
<1>2. \A a, b \in Has(sessions) : f[a] = f[b] => a = b
  BY DEF MapsInv, Has
<1>3. f \in Bijection(Has(sessions), Members)
  <2> HIDE DEF f
  <2> QED BY <1>1, <1>2 DEF Bijection, Injection, Surjection, IsInjective
<1> QED BY <1>3, AccountsFinite, FS_Bijection DEF ExistsBijection

LEMMA WaitingCount ==
  ASSUME NEW q \in Seq(Sessions), Distinct(q), NEW M \in SUBSET Sessions,
         \A s \in Sessions : In(s, q) => s \in M
  PROVE  /\ IsFiniteSet({s \in M : ~In(s, q)})
         /\ Cardinality({s \in M : ~In(s, q)}) = Cardinality(M) - Len(q)
<1> DEFINE W == {s \in Sessions : In(s, q)}
           A == {s \in M : ~In(s, q)}
<1>1. IsFiniteSet(W) /\ Cardinality(W) = Len(q)
  BY CountIn
<1>2. IsFiniteSet(M) /\ IsFiniteSet(A)
  BY AccountsFinite, FS_Subset
<1>3. M = A \cup W /\ A \cap W = {}
  OBVIOUS
<1>4. Cardinality(A \cup W) = Cardinality(A) + Cardinality(W) - Cardinality(A \cap W)
  BY <1>1, <1>2, FS_Union
<1>5. Cardinality({}) = 0 /\ Cardinality(A) \in Nat /\ Cardinality(W) \in Nat
  BY <1>1, <1>2, FS_EmptySet, FS_CardinalityType
<1> HIDE DEF A, W
<1>6. Cardinality(A \cap W) = 0 /\ Cardinality(M) = Cardinality(A \cup W)
  BY <1>3, <1>5, Zenon
<1>7. Cardinality(A) = Cardinality(M) - Len(q)
  BY <1>1, <1>4, <1>5, <1>6
<1> QED BY <1>2, <1>7 DEF A

\* GetActiveSessionCount.
LEMMA ActiveFacts ==
  ASSUME TypeOK, MapsInv, QueueInv
  PROVE  /\ Active = {s \in Members : ~In(s, queued)}
         /\ IsFiniteSet(Active) /\ Cardinality(Active) = ActiveCount
         /\ ActiveCount \in Nat
<1>1. Active = {s \in Members : ~In(s, queued)}
  BY DEF Active, Members, In, Queued
<1>2. queued \in Seq(Sessions) /\ Distinct(queued) /\ Members \in SUBSET Sessions
      /\ \A s \in Sessions : In(s, queued) => s \in Members
  BY DEF TypeOK, QueueInv, Members
<1>3. /\ IsFiniteSet(Active)
      /\ Cardinality(Active) = Cardinality(Members) - Len(queued)
  BY <1>1, <1>2, WaitingCount
<1> QED BY <1>1, <1>3, MembersCount, FS_CardinalityType DEF ActiveCount

\* The same when s is removed.
LEMMA LeftFacts ==
  ASSUME TypeOK, MapsInv, QueueInv, NEW s \in Members
  PROVE  /\ IsFiniteSet(Left(s))
         /\ Cardinality(Left(s)) = Cardinality(Has(sessions)) - 1 - Len(AfterRemove(s))
<1>1. queued \in Seq(Sessions) /\ Distinct(queued)
  BY DEF TypeOK, QueueInv
<1>2. AfterRemove(s) \in Seq(Sessions) /\ Distinct(AfterRemove(s))
      /\ \A x : In(x, AfterRemove(s)) => In(x, queued) /\ x # s
  BY <1>1, AfterFacts
<1> DEFINE M == Members \ {s}
<1>3. IsFiniteSet(Members) /\ Cardinality(Members) = Cardinality(Has(sessions))
  BY MembersCount
<1>4. Cardinality(M) = Cardinality(Has(sessions)) - 1
  BY <1>3, FS_RemoveElement
<1>5. M \in SUBSET Sessions /\ \A t \in Sessions : In(t, AfterRemove(s)) => t \in M
  BY <1>2 DEF Members, QueueInv
<1>6. Left(s) = {t \in M : ~In(t, AfterRemove(s))}
  BY DEF Left
<1> HIDE DEF M
<1> QED BY <1>2, <1>4, <1>5, <1>6, WaitingCount

\* Whoever is left in the queue has no room.
LEMMA LeftRoom ==
  ASSUME TypeOK, MapsInv, QueueInv, RoomInv, NEW s \in Members, AfterRemove(s) # <<>>
  PROVE  Limit > 0 /\ Cardinality(Left(s)) >= Limit
<1>1. queued \in Seq(Sessions) /\ Distinct(queued)
  BY DEF TypeOK, QueueInv
<1> DEFINE n == Cardinality(Has(sessions))
<1>2. n \in Nat /\ Limit \in Nat /\ Len(queued) \in Nat
  BY <1>1, AccountsFinite, FS_CardinalityType, NumbersAssumption
<1>3. Len(Rest(s)) = IF In(s, queued) THEN Len(queued) - 1 ELSE Len(queued)
  BY <1>1, RestFacts
<1>4. Len(AfterRemove(s)) = Len(Rest(s)) - (IF Admits(s) THEN 1 ELSE 0)
  BY <1>1, AfterFacts
<1>5. AfterRemove(s) \in Seq(Sessions) /\ Rest(s) \in Seq(Sessions)
  BY <1>1, RestFacts, AfterFacts
<1>6. Len(AfterRemove(s)) > 0 /\ Len(AfterRemove(s)) \in Nat /\ Len(Rest(s)) \in Nat
  BY <1>5
<1>7. Len(queued) > 0 /\ Len(Rest(s)) > 0
  BY <1>2, <1>3, <1>4, <1>6
<1>8. queued # <<>> /\ Rest(s) # <<>>
  BY <1>1, <1>5, <1>7
<1>9. Limit > 0 /\ n - Len(queued) >= Limit
  BY <1>8 DEF RoomInv, ActiveCount
<1>10. Admits(s) <=> n - Len(queued) - (IF In(s, queued) THEN 0 ELSE 1) < Limit
  BY <1>2, <1>8, <1>9 DEF Admits, In, Queued
<1>11. Cardinality(Left(s)) = n - 1 - Len(AfterRemove(s))
  BY LeftFacts
<1> HIDE DEF n
<1> QED BY <1>2, <1>3, <1>4, <1>9, <1>10, <1>11

Bound(S) == {s \in S : session[s].account \notin Exempt}

\* The limit holds when s is gone.
LEMMA LeftLimit ==
  ASSUME TypeOK, MapsInv, QueueInv, LimitInv, NEW s \in Members,
         Limit > 0, ~Tolerance, shutdown \in {"running", "stopping"}
  PROVE  Cardinality(Bound(Left(s))) <= Limit
<1>1. queued \in Seq(Sessions) /\ Distinct(queued)
  BY DEF TypeOK, QueueInv
<1> DEFINE n == Cardinality(Has(sessions))
<1>2. n \in Nat /\ Limit \in Nat /\ Len(queued) \in Nat
  BY <1>1, AccountsFinite, FS_CardinalityType, NumbersAssumption
<1>3. /\ IsFiniteSet(Left(s)) /\ Cardinality(Left(s)) = n - 1 - Len(AfterRemove(s))
      /\ Cardinality(Left(s)) \in Nat
  BY LeftFacts, FS_CardinalityType
<1>4. /\ IsFiniteSet(Bound(Left(s))) /\ Cardinality(Bound(Left(s))) <= Cardinality(Left(s))
      /\ Cardinality(Bound(Left(s))) \in Nat
  <2>1. Bound(Left(s)) \in SUBSET Left(s)
    BY DEF Bound
  <2> QED BY <1>3, <2>1, FS_Subset, FS_CardinalityType
<1>5. CASE Admits(s)
  <2>1. n - Len(queued) - (IF In(s, queued) THEN 0 ELSE 1) < Limit
    BY <1>5 DEF Admits, In, Queued
  <2>2. Len(Rest(s)) = IF In(s, queued) THEN Len(queued) - 1 ELSE Len(queued)
    BY <1>1, RestFacts
  <2>3. Len(AfterRemove(s)) = Len(Rest(s)) - 1
    <3>1. Len(AfterRemove(s)) = Len(Rest(s)) - (IF Admits(s) THEN 1 ELSE 0)
      BY <1>1, AfterFacts
    <3> QED BY <1>5, <3>1
  <2> HIDE DEF n
  <2> QED BY <1>2, <1>3, <1>4, <2>1, <2>2, <2>3
<1>6. CASE ~Admits(s)
  <2>1. \A x : In(x, AfterRemove(s)) <=> In(x, queued) /\ x # s
    BY <1>1, <1>6, AfterFacts
  <2>2. Left(s) \subseteq Active
    BY <2>1, ActiveFacts DEF Left
  <2>3. Bound(Left(s)) \in SUBSET Bound(Active) /\ Bound(Active) \in SUBSET Active
    BY <2>2 DEF Bound
  <2>4. IsFiniteSet(Bound(Active))
    BY <2>3, ActiveFacts, FS_Subset
  <2>5. /\ Cardinality(Bound(Left(s))) <= Cardinality(Bound(Active))
        /\ Cardinality(Bound(Active)) \in Nat
    BY <2>3, <2>4, FS_Subset, FS_CardinalityType
  <2>6. Cardinality(Bound(Active)) <= Limit
    BY DEF LimitInv, LimitHolds, Bound
  <2> QED BY <1>2, <1>4, <2>5, <2>6
<1> QED BY <1>5, <1>6

\* One account more, or less.
LEMMA HasFacts ==
  ASSUME TypeOK, NEW a \in Accounts, NEW s \in Sessions
  PROVE  /\ Has([sessions EXCEPT ![a] = s]) = Has(sessions) \cup {a}
         /\ Has([sessions EXCEPT ![a] = NoSession]) = Has(sessions) \ {a}
         /\ Cardinality(Has(sessions) \cup {a})
              = IF sessions[a] = NoSession THEN Cardinality(Has(sessions)) + 1
                ELSE Cardinality(Has(sessions))
         /\ Cardinality(Has(sessions) \ {a})
              = IF sessions[a] = NoSession THEN Cardinality(Has(sessions))
                ELSE Cardinality(Has(sessions)) - 1
<1>1. /\ Has([sessions EXCEPT ![a] = s]) = Has(sessions) \cup {a}
      /\ Has([sessions EXCEPT ![a] = NoSession]) = Has(sessions) \ {a}
  BY DEF TypeOK, Has, Sessions, NoSession
<1>2. a \in Has(sessions) <=> sessions[a] # NoSession
  BY DEF Has
<1> QED BY <1>1, <1>2, AccountsFinite, FS_AddElement, FS_RemoveElement

-----------------------------------------------------------------------------
(* The initial states, and the steps that change one session where it is.  *)

LEMMA InvInit == Init => Inv
<1> SUFFICES ASSUME Init PROVE Inv
  OBVIOUS
<1> USE NumbersAssumption, AccountsAssumption DEF Init
<1>1. TypeOK
  BY DEF TypeOK, Destroyed, NoSession, NoChar
<1>2. HandedInv /\ MapsInv /\ PlacedInv
  BY DEF HandedInv, Distinct, In, MapsInv, PlacedInv
<1>3. LoopInv /\ LoginInv /\ CharInv /\ OneInv /\ KickedInv
  BY DEF LoopInv, LoginInv, Destroyed, CharInv, OneInv, KickedInv, Stopped
<1>4. QueueInv
  BY DEF QueueInv, Distinct, In, Destroyed
<1>5. LimitInv
  <2>1. Active = {}
    BY DEF Active, Sessions, NoSession
  <2>2. {s \in Active : session[s].account \notin Exempt} = {}
    BY <2>1
  <2>3. Cardinality({s \in Active : session[s].account \notin Exempt}) = 0
    BY <2>2, FS_EmptySet, Zenon
  <2> QED BY <2>3 DEF LimitInv, LimitHolds
<1>6. RoomInv
  BY DEF RoomInv
<1> QED BY <1>1, <1>2, <1>3, <1>4, <1>5, <1>6 DEF Inv

SessionSet == [account : Accounts \cup {NoAccount}, socket : {"none", "open", "closed"},
               kicked : BOOLEAN, inQueue : BOOLEAN, loading : BOOLEAN,
               holder : 0 .. NumChars, player : 0 .. NumChars, away : BOOLEAN]

\* A field that gets a value of its type.
LEMMA FieldTypes ==
  ASSUME NEW s \in Sessions
  PROVE  \A f \in [Sessions -> SessionSet] :
           /\ \A c \in 0 .. NumChars :
                /\ [f EXCEPT ![s].holder = c] \in [Sessions -> SessionSet]
                /\ [f EXCEPT ![s].player = c] \in [Sessions -> SessionSet]
           /\ \A b \in BOOLEAN :
                /\ [f EXCEPT ![s].loading = b] \in [Sessions -> SessionSet]
                /\ [f EXCEPT ![s].kicked = b] \in [Sessions -> SessionSet]
                /\ [f EXCEPT ![s].inQueue = b] \in [Sessions -> SessionSet]
                /\ [f EXCEPT ![s].away = b] \in [Sessions -> SessionSet]
<1> SUFFICES ASSUME NEW f \in [Sessions -> SessionSet],
                    NEW c \in 0 .. NumChars, NEW b \in BOOLEAN
             PROVE  /\ [f EXCEPT ![s].holder = c] \in [Sessions -> SessionSet]
                    /\ [f EXCEPT ![s].player = c] \in [Sessions -> SessionSet]
                    /\ [f EXCEPT ![s].loading = b] \in [Sessions -> SessionSet]
                    /\ [f EXCEPT ![s].kicked = b] \in [Sessions -> SessionSet]
                    /\ [f EXCEPT ![s].inQueue = b] \in [Sessions -> SessionSet]
                    /\ [f EXCEPT ![s].away = b] \in [Sessions -> SessionSet]
  <2>1. 0 \in 0 .. NumChars
    BY NumbersAssumption
  <2> QED BY <2>1
<1>1. [f EXCEPT ![s].holder = c] \in [Sessions -> SessionSet]
  BY DEF SessionSet
<1>2. [f EXCEPT ![s].player = c] \in [Sessions -> SessionSet]
  BY DEF SessionSet
<1>3. [f EXCEPT ![s].loading = b] \in [Sessions -> SessionSet]
  BY DEF SessionSet
<1>4. [f EXCEPT ![s].kicked = b] \in [Sessions -> SessionSet]
  BY DEF SessionSet
<1>5. [f EXCEPT ![s].inQueue = b] \in [Sessions -> SessionSet]
  BY DEF SessionSet
<1>6. [f EXCEPT ![s].away = b] \in [Sessions -> SessionSet]
  BY DEF SessionSet
<1> QED BY <1>1, <1>2, <1>3, <1>4, <1>5, <1>6

\* A step that changes the sessions only.
LEMMA SessionType ==
  /\ TypeOK => session \in [Sessions -> SessionSet]
  /\ /\ TypeOK /\ session' \in [Sessions -> SessionSet]
     /\ UNCHANGED <<created, addSessQueue, sessions, offline, queued, disconnects, online,
                    phase, todo, current, shutdown>>
     => TypeOK'
<1>1. TypeOK => session \in [Sessions -> SessionSet]
  BY DEF TypeOK, SessionSet
<1>2. ASSUME TypeOK, session' \in [Sessions -> SessionSet],
             UNCHANGED <<created, addSessQueue, sessions, offline, queued, disconnects,
                         online, phase, todo, current, shutdown>>
      PROVE  TypeOK'
  BY <1>2 DEF TypeOK, SessionSet
<1> QED BY <1>1, <1>2

\* Sessions change, but not who has them nor what they wait for.
LEMMA SameShape ==
  ASSUME Inv, TypeOK',
         \A t \in Sessions :
           /\ session'[t].account = session[t].account
           /\ session'[t].socket = "none" <=> session[t].socket = "none"
           /\ session'[t].inQueue = session[t].inQueue
           /\ session[t].socket = "none" => session'[t].holder = session[t].holder
           /\ session[t] = Destroyed => session'[t] = Destroyed
           /\ In(t, addSessQueue) => Fresh(session'[t]),
         UNCHANGED <<created, addSessQueue, sessions, offline, queued, disconnects, world>>
  PROVE  HandedInv' /\ MapsInv' /\ PlacedInv' /\ LoopInv' /\ QueueInv' /\ LimitInv' /\ RoomInv'
<1>1. HandedInv'
  BY DEF Inv, HandedInv
<1>2. MapsInv'
  BY DEF Inv, TypeOK, MapsInv
<1>3. PlacedInv'
  BY DEF Inv, PlacedInv
<1>4. LoopInv'
  BY DEF Inv, TypeOK, LoopInv, Has, world
<1>5. QueueInv'
  BY DEF Inv, QueueInv, world
<1>6. LimitInv'
  <2>1. Active' = Active
    BY DEF Active, Queued
  <2>2. {t \in Active : session[t].account \notin Exempt}'
          = {t \in Active : session[t].account \notin Exempt}
    BY <2>1 DEF Active
  <2>3. LimitInv
    BY DEF Inv
  <2> QED BY <2>2, <2>3 DEF LimitInv, LimitHolds, world
<1>7. RoomInv'
  BY DEF Inv, RoomInv, ActiveCount, Has
<1> QED BY <1>1, <1>2, <1>3, <1>4, <1>5, <1>6, <1>7

\* One session does.
LEMMA InPlace ==
  ASSUME Inv, TypeOK', NEW s \in Sessions,
         session[s].account \in Accounts, session'[s].account = session[s].account,
         session'[s].socket = "none" <=> session[s].socket = "none",
         session'[s].inQueue = session[s].inQueue,
         session[s].socket = "none" => session'[s].holder = session[s].holder,
         In(s, addSessQueue) => Fresh(session'[s]),
         \A t \in Sessions : t # s => session'[t] = session[t],
         UNCHANGED <<created, addSessQueue, sessions, offline, queued, disconnects, world>>
  PROVE  HandedInv' /\ MapsInv' /\ PlacedInv' /\ LoopInv' /\ QueueInv' /\ LimitInv' /\ RoomInv'
<1>1. session[s] # Destroyed
  BY AccountsAssumption DEF Destroyed
<1>2. \A t \in Sessions : In(t, addSessQueue) => Fresh(session[t])
  BY DEF Inv, HandedInv
<1>3. \A t \in Sessions :
        /\ session'[t].account = session[t].account
        /\ session'[t].socket = "none" <=> session[t].socket = "none"
        /\ session'[t].inQueue = session[t].inQueue
        /\ session[t].socket = "none" => session'[t].holder = session[t].holder
        /\ session[t] = Destroyed => session'[t] = Destroyed
        /\ In(t, addSessQueue) => Fresh(session'[t])
  BY <1>1, <1>2
<1> QED BY <1>3, SameShape

\* A session that is somewhere was created for an account.
LEMMA OwnerFacts ==
  ASSUME TypeOK, HandedInv, MapsInv, PlacedInv, NEW a \in Accounts
  PROVE  /\ sessions[a] # NoSession =>
              /\ sessions[a] \in Sessions /\ session[sessions[a]].account = a
              /\ ~In(sessions[a], addSessQueue) /\ session[sessions[a]] # Destroyed
         /\ offline[a] # NoSession =>
              /\ offline[a] \in Sessions /\ session[offline[a]].account = a
              /\ ~In(offline[a], addSessQueue) /\ session[offline[a]] # Destroyed
         /\ \A b \in Accounts : offline[b] # NoSession => offline[b] # sessions[a]
<1>1. Destroyed.account \notin Accounts
  BY AccountsAssumption DEF Destroyed
<1> QED BY <1>1 DEF TypeOK, HandedInv, MapsInv

LEMMA SocketClosesStep ==
  ASSUME Inv, NEW s \in Sessions, SocketCloses(s)
  PROVE  Inv'
<1>1. TypeOK'
  BY DEF Inv, TypeOK, SocketCloses, world
<1>2. session[s].account \in Accounts
  BY DEF SocketCloses, Inv, PlacedInv, Destroyed
<1>3. In(s, addSessQueue) => Fresh(session'[s])
  BY DEF SocketCloses, Inv, TypeOK, HandedInv, Fresh
<1>4. HandedInv' /\ MapsInv' /\ PlacedInv' /\ LoopInv' /\ QueueInv' /\ LimitInv' /\ RoomInv'
  BY <1>1, <1>2, <1>3, InPlace DEF SocketCloses, Inv, TypeOK
<1>5. \A t \in Sessions : /\ session'[t].player = session[t].player
                          /\ session'[t].holder = session[t].holder
                          /\ session'[t].loading = session[t].loading
                          /\ session'[t].inQueue = session[t].inQueue
                          /\ session'[t].kicked = session[t].kicked
                          /\ session'[t].socket \in {session[t].socket, "closed"}
  BY DEF SocketCloses, Inv, TypeOK
<1>6. LoginInv'
  BY <1>5 DEF Inv, LoginInv
<1>7. CharInv' /\ OneInv' /\ KickedInv'
  BY <1>5 DEF SocketCloses, Inv, TypeOK, CharInv, OneInv, Playing, Doomed, KickedInv, Stopped, world
<1> QED BY <1>1, <1>4, <1>6, <1>7 DEF Inv

LEMMA TravelStep ==
  ASSUME Inv, NEW s \in Sessions, Travel(s)
  PROVE  Inv'
<1>1. TypeOK'
  BY DEF Inv, TypeOK, Travel, world
<1>2. session[s].account \in Accounts /\ ~In(s, addSessQueue)
  BY DEF Travel, Inv, PlacedInv, Destroyed, HandedInv, Fresh
<1>3. HandedInv' /\ MapsInv' /\ PlacedInv' /\ LoopInv' /\ QueueInv' /\ LimitInv' /\ RoomInv'
  BY <1>1, <1>2, InPlace DEF Travel, Inv, TypeOK
<1>4. \A t \in Sessions : /\ session'[t].player = session[t].player
                          /\ session'[t].holder = session[t].holder
                          /\ session'[t].loading = session[t].loading
                          /\ session'[t].inQueue = session[t].inQueue
                          /\ session'[t].kicked = session[t].kicked
                          /\ session'[t].socket = session[t].socket
  BY DEF Travel, Inv, TypeOK
<1>5. LoginInv'
  BY <1>4 DEF Inv, LoginInv
<1>6. CharInv' /\ OneInv' /\ KickedInv'
  BY <1>4 DEF Travel, Inv, TypeOK, CharInv, OneInv, Playing, Doomed, KickedInv, Stopped, world
<1> QED BY <1>1, <1>3, <1>5, <1>6 DEF Inv

LEMMA KickPlayerStep ==
  ASSUME Inv, NEW s \in Sessions, KickPlayer(s)
  PROVE  Inv'
<1> DEFINE end == IF session[s].socket = "none" THEN "none" ELSE "closed"
<1>k1. /\ session' = [session EXCEPT ![s].kicked = TRUE, ![s].socket = end]
       /\ end \in {"none", "closed"} /\ (end = "none" <=> session[s].socket = "none")
       /\ UNCHANGED <<created, addSessQueue, sessions, offline, queued, disconnects, online,
                      phase, todo, current, shutdown>>
       /\ ~session[s].kicked /\ phase = "idle" /\ shutdown \in {"running", "stopping"}
  BY DEF KickPlayer, world
<1> HIDE DEF end
<1>k2. /\ session'[s] = [session[s] EXCEPT !.kicked = TRUE, !.socket = end]
       /\ \A t \in Sessions : t # s => session'[t] = session[t]
  BY <1>k1 DEF Inv, TypeOK
<1>k3. /\ session'[s].account = session[s].account /\ session'[s].inQueue = session[s].inQueue
       /\ session'[s].loading = session[s].loading /\ session'[s].away = session[s].away
       /\ session'[s].holder = session[s].holder /\ session'[s].player = session[s].player
       /\ session'[s].kicked = TRUE /\ session'[s].socket = end
  BY <1>k1, <1>k2 DEF Inv, TypeOK
<1>1. TypeOK'
  <2>1. session[s] \in [account : Accounts \cup {NoAccount},
                       socket : {"none", "open", "closed"}, kicked : BOOLEAN,
                       inQueue : BOOLEAN, loading : BOOLEAN,
                       holder : 0 .. NumChars, player : 0 .. NumChars,
                       away : BOOLEAN]
    BY DEF Inv, TypeOK
  <2>2. session'[s] \in [account : Accounts \cup {NoAccount},
                        socket : {"none", "open", "closed"}, kicked : BOOLEAN,
                        inQueue : BOOLEAN, loading : BOOLEAN,
                        holder : 0 .. NumChars, player : 0 .. NumChars,
                        away : BOOLEAN]
    <3>1. session'[s] = [account |-> session[s].account, socket |-> end, kicked |-> TRUE,
                         inQueue |-> session[s].inQueue, loading |-> session[s].loading,
                         holder |-> session[s].holder, player |-> session[s].player,
                         away |-> session[s].away]
      BY <1>k2, <2>1
    <3>2. end \in {"none", "open", "closed"}
      BY <1>k1
    <3>3. /\ session[s].account \in Accounts \cup {NoAccount} /\ session[s].inQueue \in BOOLEAN
          /\ session[s].loading \in BOOLEAN /\ session[s].away \in BOOLEAN
          /\ session[s].holder \in 0 .. NumChars /\ session[s].player \in 0 .. NumChars
      BY <2>1
    <3> QED BY <3>1, <3>2, <3>3
  <2>3. session' = [session EXCEPT ![s] = session'[s]]
    BY <1>k1, <1>k2 DEF Inv, TypeOK
  <2> QED BY <1>k1, <2>2, <2>3 DEF Inv, TypeOK
<1>2. session[s].account \in Accounts /\ ~In(s, addSessQueue)
  <2>1. PICK a \in Accounts : s \in {sessions[a], offline[a]}
    BY DEF KickPlayer
  <2>2. s # NoSession
    BY DEF Sessions, NoSession
  <2> QED BY <2>1, <2>2, OwnerFacts DEF Inv
<1>3. HandedInv' /\ MapsInv' /\ PlacedInv' /\ LoopInv' /\ QueueInv' /\ LimitInv' /\ RoomInv'
  <2>1. /\ session'[s].account = session[s].account /\ session'[s].inQueue = session[s].inQueue
        /\ session'[s].socket = "none" <=> session[s].socket = "none"
        /\ session'[s].holder = session[s].holder
    BY <1>k1, <1>k2 DEF Inv, TypeOK
  <2> QED BY <1>k1, <1>k2, <1>1, <1>2, <2>1, InPlace DEF world
<1>4. \A t \in Sessions : /\ session'[t].player = session[t].player
                          /\ session'[t].holder = session[t].holder
                          /\ session'[t].loading = session[t].loading
                          /\ session'[t].inQueue = session[t].inQueue
                          /\ session[t].kicked => session'[t].kicked
                          /\ session'[t].kicked # session[t].kicked => session'[t].socket # "open"
                          /\ session'[t].kicked = session[t].kicked => session'[t] = session[t]
  BY <1>k1, <1>k2, <1>k3
<1>5. LoginInv'
  BY <1>k1, <1>4 DEF Inv, TypeOK, LoginInv
<1>6. CharInv' /\ OneInv'
  BY <1>k1, <1>4 DEF Inv, TypeOK, CharInv, OneInv, Playing, Doomed
<1>7. KickedInv'
  BY <1>k1, <1>4 DEF Inv, TypeOK, KickedInv, Stopped
<1> QED BY <1>1, <1>3, <1>5, <1>6, <1>7 DEF Inv

\* The world thread's packets are those of the session whose Update runs.
LEMMA CurrentFacts ==
  ASSUME Inv, NEW s \in Sessions, s = current
  PROVE  /\ session[s].account \in Accounts /\ sessions[session[s].account] = s
         /\ session[s].account \notin todo /\ phase = "sessions"
         /\ ~In(s, addSessQueue) /\ session[s] # Destroyed /\ session[s].socket # "none"
         /\ \A a \in Accounts : sessions[a] = s => a = session[s].account
         /\ \A a \in Accounts : offline[a] # s
<1>1. s # NoSession
  BY DEF Sessions, NoSession
<1>2. session[s].account \in Accounts /\ sessions[session[s].account] = s
      /\ session[s].account \notin todo /\ phase = "sessions"
  BY <1>1 DEF Inv, LoopInv
<1> QED BY <1>1, <1>2, OwnerFacts DEF Inv, MapsInv

\* The offline session of the same account.
LEMMA OfflineFacts ==
  ASSUME Inv, NEW s \in Sessions, s = current, OfflineOf(s) # NoSession
  PROVE  /\ OfflineOf(s) \in Sessions /\ OfflineOf(s) # s
         /\ offline[session[s].account] = OfflineOf(s)
         /\ ~In(OfflineOf(s), addSessQueue) /\ session[OfflineOf(s)] # Destroyed
         /\ session[OfflineOf(s)].account = session[s].account
         /\ session[OfflineOf(s)].socket = "none"
         /\ \A a \in Accounts : offline[a] = OfflineOf(s) => a = session[s].account
         /\ \A a \in Accounts : sessions[a] # OfflineOf(s)
<1>1. session[s].account \in Accounts /\ sessions[session[s].account] = s
      /\ \A a \in Accounts : offline[a] # s
  BY CurrentFacts
<1> QED BY <1>1, OwnerFacts DEF Inv, MapsInv, OfflineOf

LEMMA LoginRefusedStep ==
  ASSUME Inv, NEW s \in Sessions, LoginRefused(s)
  PROVE  Inv'
<1>1. s = current /\ session' = [session EXCEPT ![s].loading = TRUE]
      /\ session[s].account \in Accounts /\ ~In(s, addSessQueue)
      /\ UNCHANGED <<created, addSessQueue, sessions, offline, queued, disconnects, online,
                     phase, todo, current, shutdown>>
  BY CurrentFacts DEF LoginRefused, LogsIn, world
<1>2. TypeOK'
  <2>1. session \in [Sessions -> SessionSet]
    BY SessionType DEF Inv
  <2>2. \A f \in [Sessions -> SessionSet] :
          [f EXCEPT ![s].loading = TRUE] \in [Sessions -> SessionSet]
    BY DEF SessionSet
  <2> QED BY <1>1, <2>1, <2>2, SessionType DEF Inv
<1>3. HandedInv' /\ MapsInv' /\ PlacedInv' /\ LoopInv' /\ QueueInv' /\ LimitInv' /\ RoomInv'
  BY <1>1, <1>2, InPlace DEF Inv, TypeOK, world
<1>4. \A t \in Sessions : /\ session'[t].player = session[t].player
                          /\ session'[t].holder = session[t].holder
                          /\ session[t].loading => session'[t].loading
                          /\ session'[t].inQueue = session[t].inQueue
                          /\ session'[t].kicked = session[t].kicked
                          /\ session'[t].socket = session[t].socket
  BY <1>1 DEF Inv, TypeOK
<1>5. LoginInv'
  BY <1>4 DEF Inv, LoginInv
<1>6. CharInv' /\ OneInv' /\ KickedInv'
  BY <1>1, <1>4 DEF Inv, TypeOK, CharInv, OneInv, Playing, Doomed, KickedInv, Stopped
<1> QED BY <1>2, <1>3, <1>5, <1>6 DEF Inv

LEMMA LoginLoadStep ==
  ASSUME Inv, NEW s \in Sessions, LoginLoad(s)
  PROVE  Inv'
<1>1. PICK c \in 1 .. NumChars :
        session' = [session EXCEPT ![s].loading = TRUE, ![s].holder = c]
  BY DEF LoginLoad
<1>2. /\ s = current /\ offline[session[s].account] = NoSession
      /\ session[s].account \in Accounts /\ sessions[session[s].account] = s
      /\ ~In(s, addSessQueue) /\ session[s].socket # "none"
      /\ \A a \in Accounts : sessions[a] = s => a = session[s].account
      /\ \A a \in Accounts : offline[a] # s
      /\ session[s].player = NoChar /\ ~session[s].inQueue
      /\ UNCHANGED <<created, addSessQueue, sessions, offline, queued, disconnects, online,
                     phase, todo, current, shutdown>>
  BY CurrentFacts DEF LoginLoad, LogsIn, OfflineOf, world
<1>3. TypeOK'
  <2>1. session \in [Sessions -> SessionSet] /\ c \in 0 .. NumChars
    BY NumbersAssumption, SessionType DEF Inv
  <2>2. session' \in [Sessions -> SessionSet]
    BY <1>1, <2>1 DEF SessionSet
  <2> QED BY <1>2, <2>2, SessionType DEF Inv
<1>4. HandedInv' /\ MapsInv' /\ PlacedInv' /\ LoopInv' /\ QueueInv' /\ LimitInv' /\ RoomInv'
  BY <1>1, <1>2, <1>3, InPlace DEF Inv, TypeOK, world
<1>5. \A t \in Sessions : /\ session'[t].player = session[t].player
                          /\ t # s => session'[t].holder = session[t].holder
                          /\ session[t].loading => session'[t].loading
                          /\ session'[t].inQueue = session[t].inQueue
                          /\ session'[t].kicked = session[t].kicked
                          /\ session'[t].socket = session[t].socket
  BY <1>1 DEF Inv, TypeOK
<1>6. LoginInv'
  BY <1>1, <1>2, <1>5 DEF Inv, TypeOK, LoginInv
<1>7. ASSUME NEW a \in Accounts, sessions[a] # NoSession, offline[a] # NoSession
      PROVE  /\ sessions[a] \in Sessions /\ session'[sessions[a]].holder = session[sessions[a]].holder
             /\ session'[sessions[a]].player = session[sessions[a]].player
             /\ offline[a] \in Sessions /\ session'[offline[a]].player = session[offline[a]].player
             /\ session'[offline[a]].kicked = session[offline[a]].kicked
  BY <1>2, <1>5, <1>7 DEF Inv, TypeOK
<1>9. CharInv' /\ OneInv'
  BY <1>2, <1>7 DEF Inv, CharInv, OneInv, Playing, Doomed
<1>8. KickedInv'
  BY <1>2, <1>5 DEF Inv, TypeOK, KickedInv, Stopped
<1> QED BY <1>3, <1>4, <1>6, <1>8, <1>9 DEF Inv

LEMMA LoadedStep ==
  ASSUME Inv, NEW s \in Sessions, Loaded(s)
  PROVE  Inv'
<1>1. session' = [session EXCEPT ![s].player = session[s].holder, ![s].holder = NoChar,
                                 ![s].loading = FALSE]
      /\ session[s].holder # NoChar
  BY DEF Loaded
<1>2. /\ s = current
      /\ session[s].account \in Accounts /\ sessions[session[s].account] = s
      /\ ~In(s, addSessQueue) /\ session[s].socket # "none"
      /\ \A a \in Accounts : sessions[a] = s => a = session[s].account
      /\ \A a \in Accounts : offline[a] # s
      /\ UNCHANGED <<created, addSessQueue, sessions, offline, queued, disconnects, online,
                     phase, todo, current, shutdown>>
  BY CurrentFacts DEF Loaded, world
<1>3. TypeOK'
  <2>1. session \in [Sessions -> SessionSet] /\ 0 \in 0 .. NumChars
    BY NumbersAssumption, SessionType DEF Inv
  <2>2. session' \in [Sessions -> SessionSet]
    BY <1>1, <2>1 DEF SessionSet, NoChar
  <2> QED BY <1>2, <2>2, SessionType DEF Inv
<1>4. HandedInv' /\ MapsInv' /\ PlacedInv' /\ LoopInv' /\ QueueInv' /\ LimitInv' /\ RoomInv'
  BY <1>1, <1>2, <1>3, InPlace DEF Inv, TypeOK, world
<1>5. \A t \in Sessions : /\ t # s => session'[t] = session[t]
                          /\ session'[t].inQueue = session[t].inQueue
                          /\ session'[t].kicked = session[t].kicked
                          /\ session'[t].socket = session[t].socket
  BY <1>1 DEF Inv, TypeOK
<1>6. session'[s].player = session[s].holder /\ session'[s].holder = NoChar
  BY <1>1 DEF Inv, TypeOK
<1>7. LoginInv'
  BY <1>1, <1>5, <1>6 DEF Inv, TypeOK, LoginInv
<1>8. CharInv' /\ OneInv'
  BY <1>1, <1>2, <1>5, <1>6 DEF Inv, TypeOK, CharInv, OneInv, Playing, Doomed
<1>9. KickedInv'
  BY <1>2, <1>5 DEF Inv, TypeOK, KickedInv, Stopped
<1> QED BY <1>3, <1>4, <1>7, <1>8, <1>9 DEF Inv

LEMMA LoadFailedStep ==
  ASSUME Inv, NEW s \in Sessions, LoadFailed(s)
  PROVE  Inv'
<1>1. session' = [session EXCEPT ![s].holder = NoChar, ![s].loading = FALSE,
                                 ![s].kicked = TRUE, ![s].socket = "closed"]
      /\ session[s].holder # NoChar
  BY DEF LoadFailed
<1>2. /\ s = current /\ phase = "sessions"
      /\ session[s].account \in Accounts /\ sessions[session[s].account] = s
      /\ ~In(s, addSessQueue) /\ session[s].socket # "none"
      /\ \A a \in Accounts : sessions[a] = s => a = session[s].account
      /\ \A a \in Accounts : offline[a] # s
      /\ UNCHANGED <<created, addSessQueue, sessions, offline, queued, disconnects, online,
                     phase, todo, current, shutdown>>
  BY CurrentFacts DEF LoadFailed, world
<1>3. TypeOK'
  <2>1. session \in [Sessions -> SessionSet] /\ 0 \in 0 .. NumChars
    BY NumbersAssumption, SessionType DEF Inv
  <2>2. session' \in [Sessions -> SessionSet]
    <3>1. [session EXCEPT ![s].holder = NoChar, ![s].loading = FALSE]
            \in [Sessions -> SessionSet]
      BY <2>1 DEF SessionSet, NoChar
    <3>2. \A f \in [Sessions -> SessionSet] :
            [f EXCEPT ![s].kicked = TRUE, ![s].socket = "closed"] \in [Sessions -> SessionSet]
      BY DEF SessionSet
    <3>3. session' = [[session EXCEPT ![s].holder = NoChar, ![s].loading = FALSE]
                        EXCEPT ![s].kicked = TRUE, ![s].socket = "closed"]
      BY <1>1
    <3> QED BY <3>1, <3>2, <3>3
  <2> QED BY <1>2, <2>2, SessionType DEF Inv
<1>4. HandedInv' /\ MapsInv' /\ PlacedInv' /\ LoopInv' /\ QueueInv' /\ LimitInv' /\ RoomInv'
  <2>1. session \in [Sessions -> SessionSet]
    BY SessionType DEF Inv
  <2>2. session'[s] = [session[s] EXCEPT !.holder = NoChar, !.loading = FALSE,
                                         !.kicked = TRUE, !.socket = "closed"]
        /\ \A t \in Sessions : t # s => session'[t] = session[t]
    BY <1>1, <2>1
  <2>3. /\ session'[s].account = session[s].account /\ session'[s].inQueue = session[s].inQueue
        /\ session'[s].socket = "closed"
    <3>1. session[s] \in SessionSet
      BY <2>1
    <3> QED BY <2>2, <3>1 DEF SessionSet
  <2> QED BY <1>2, <1>3, <2>2, <2>3, InPlace DEF world
<1>5. \A t \in Sessions : /\ t # s => session'[t] = session[t]
                          /\ session'[t].inQueue = session[t].inQueue
                          /\ session'[t].player = session[t].player
  BY <1>1 DEF Inv, TypeOK
<1>6. session'[s].holder = NoChar /\ session'[s].socket = "closed"
  BY <1>1 DEF Inv, TypeOK
<1>7. LoginInv'
  BY <1>1, <1>5, <1>6 DEF Inv, TypeOK, LoginInv
<1>8. CharInv' /\ OneInv'
  <2>1. session[s].player = NoChar
    BY <1>1 DEF Inv, LoginInv
  <2>2. ASSUME NEW a \in Accounts, sessions[a] # NoSession, offline[a] # NoSession
        PROVE  /\ sessions[a] \in Sessions /\ offline[a] \in Sessions
               /\ session'[offline[a]] = session[offline[a]]
               /\ session'[sessions[a]].player = session[sessions[a]].player
               /\ session'[sessions[a]].holder \in {NoChar, session[sessions[a]].holder}
    BY <1>2, <1>5, <1>6, <2>2 DEF Inv, TypeOK
  <2> QED BY <1>2, <2>2 DEF Inv, CharInv, OneInv, Playing, Doomed
<1>9. KickedInv'
  <2>1. shutdown # "halted"
    BY <1>2 DEF Inv, KickedInv
  <2> QED BY <1>2, <1>5, <2>1 DEF Inv, TypeOK, KickedInv, Stopped
<1> QED BY <1>3, <1>4, <1>7, <1>8, <1>9 DEF Inv

LEMMA LogoutStep ==
  ASSUME Inv, NEW s \in Sessions, Logout(s)
  PROVE  Inv'
<1>1. session' = [session EXCEPT ![s].player = NoChar, ![s].away = FALSE]
      /\ session[s].player # NoChar
  BY DEF Logout
<1>2. /\ s = current
      /\ session[s].account \in Accounts /\ sessions[session[s].account] = s
      /\ ~In(s, addSessQueue) /\ session[s].socket # "none"
      /\ \A a \in Accounts : sessions[a] = s => a = session[s].account
      /\ \A a \in Accounts : offline[a] # s
      /\ UNCHANGED <<created, addSessQueue, sessions, offline, queued, disconnects, online,
                     phase, todo, current, shutdown>>
  BY CurrentFacts DEF Logout, world
<1>3. TypeOK'
  <2>1. session \in [Sessions -> SessionSet] /\ 0 \in 0 .. NumChars
    BY NumbersAssumption, SessionType DEF Inv
  <2>2. session' \in [Sessions -> SessionSet]
    BY <1>1, <2>1 DEF SessionSet, NoChar
  <2> QED BY <1>2, <2>2, SessionType DEF Inv
<1>4. HandedInv' /\ MapsInv' /\ PlacedInv' /\ LoopInv' /\ QueueInv' /\ LimitInv' /\ RoomInv'
  BY <1>1, <1>2, <1>3, InPlace DEF Inv, TypeOK, world
<1>5. \A t \in Sessions : /\ t # s => session'[t] = session[t]
                          /\ session'[t].inQueue = session[t].inQueue
                          /\ session'[t].holder = session[t].holder
                          /\ session'[t].loading = session[t].loading
                          /\ session'[t].kicked = session[t].kicked
                          /\ session'[t].socket = session[t].socket
  BY <1>1 DEF Inv, TypeOK
<1>6. session'[s].player = NoChar /\ session[s].holder = NoChar
  BY <1>1 DEF Inv, TypeOK, LoginInv
<1>7. LoginInv'
  BY <1>1, <1>5, <1>6 DEF Inv, TypeOK, LoginInv
<1>8. CharInv' /\ OneInv'
  BY <1>1, <1>2, <1>5, <1>6 DEF Inv, TypeOK, CharInv, OneInv, Playing, Doomed
<1>9. KickedInv'
  BY <1>2, <1>5 DEF Inv, TypeOK, KickedInv, Stopped
<1> QED BY <1>3, <1>4, <1>7, <1>8, <1>9 DEF Inv

LEMMA LoginTakeoverStep ==
  ASSUME Inv, NEW s \in Sessions, LoginTakeover(s)
  PROVE  Inv'
<1> DEFINE o == OfflineOf(s)
<1>1. /\ session' = [session EXCEPT ![s].player = session[o].player, ![s].loading = FALSE,
                                    ![o].player = NoChar, ![o].away = FALSE]
      /\ session[o].player # NoChar /\ o # NoSession
      /\ s = current /\ ~session[s].inQueue /\ session[s].holder = NoChar
      /\ UNCHANGED <<created, addSessQueue, sessions, offline, queued, disconnects, online,
                     phase, todo, current, shutdown>>
  BY DEF LoginTakeover, LogsIn, world
<1>2. /\ ~In(s, addSessQueue) /\ session[s] # Destroyed /\ session[s].socket # "none"
      /\ \A a \in Accounts : offline[a] # s
  BY <1>1, CurrentFacts
<1>3. /\ o \in Sessions /\ o # s /\ ~In(o, addSessQueue) /\ session[o] # Destroyed
      /\ session[o].socket = "none"
      /\ \A a \in Accounts : sessions[a] # o
  BY <1>1, OfflineFacts
<1> HIDE DEF o
<1>4. session \in [Sessions -> SessionSet] /\ 0 \in 0 .. NumChars
      /\ session[o].player \in 0 .. NumChars
  <2>1. session \in [Sessions -> SessionSet]
    BY SessionType DEF Inv
  <2>2. session[o] \in SessionSet
    BY <1>3, <2>1
  <2> QED BY <2>1, <2>2, NumbersAssumption DEF SessionSet
<1>5. TypeOK'
  <2>1. [session EXCEPT ![s].player = session[o].player, ![s].loading = FALSE]
          \in [Sessions -> SessionSet]
    BY <1>4 DEF SessionSet
  <2>2. \A f \in [Sessions -> SessionSet] :
          [f EXCEPT ![o].player = NoChar, ![o].away = FALSE] \in [Sessions -> SessionSet]
    <3>1. ASSUME NEW f \in [Sessions -> SessionSet]
          PROVE  [f EXCEPT ![o].player = NoChar, ![o].away = FALSE] \in [Sessions -> SessionSet]
      <4>1. [f EXCEPT ![o].player = NoChar] \in [Sessions -> SessionSet]
        BY <1>3, <1>4, FieldTypes DEF NoChar
      <4>2. [[f EXCEPT ![o].player = NoChar] EXCEPT ![o].away = FALSE]
              \in [Sessions -> SessionSet]
        BY <1>3, <4>1, FieldTypes
      <4>3. [f EXCEPT ![o].player = NoChar, ![o].away = FALSE]
              = [[f EXCEPT ![o].player = NoChar] EXCEPT ![o].away = FALSE]
        OBVIOUS
      <4> QED BY <4>2, <4>3
    <3> QED BY <3>1
  <2>3. session' = [[session EXCEPT ![s].player = session[o].player, ![s].loading = FALSE]
                      EXCEPT ![o].player = NoChar, ![o].away = FALSE]
    BY <1>1
  <2>4. session' \in [Sessions -> SessionSet]
    BY <2>1, <2>2, <2>3
  <2> QED BY <1>1, <2>4, SessionType DEF Inv
<1>6. /\ session'[s] = [session[s] EXCEPT !.player = session[o].player, !.loading = FALSE]
      /\ session'[o] = [session[o] EXCEPT !.player = NoChar, !.away = FALSE]
      /\ \A t \in Sessions \ {s, o} : session'[t] = session[t]
  BY <1>1, <1>3, <1>4
<1>7. /\ session'[s].account = session[s].account /\ session'[s].socket = session[s].socket
      /\ session'[s].kicked = session[s].kicked /\ session'[s].inQueue = session[s].inQueue
      /\ session'[s].holder = session[s].holder /\ session'[s].player = session[o].player
  BY <1>4, <1>6 DEF SessionSet
<1>8. /\ session'[o].account = session[o].account /\ session'[o].socket = session[o].socket
      /\ session'[o].kicked = session[o].kicked /\ session'[o].inQueue = session[o].inQueue
      /\ session'[o].holder = session[o].holder /\ session'[o].player = NoChar
      /\ session'[o].loading = session[o].loading
  BY <1>3, <1>4, <1>6 DEF SessionSet
<1>9. HandedInv' /\ MapsInv' /\ PlacedInv' /\ LoopInv' /\ QueueInv' /\ LimitInv' /\ RoomInv'
  <2>1. \A t \in Sessions : In(t, addSessQueue) => Fresh(session[t])
    BY DEF Inv, HandedInv
  <2>2. \A t \in Sessions :
          /\ session'[t].account = session[t].account
          /\ session'[t].socket = "none" <=> session[t].socket = "none"
          /\ session'[t].inQueue = session[t].inQueue
          /\ session[t].socket = "none" => session'[t].holder = session[t].holder
          /\ session[t] = Destroyed => session'[t] = Destroyed
          /\ In(t, addSessQueue) => Fresh(session'[t])
    BY <1>2, <1>3, <1>6, <1>7, <1>8, <2>1
  <2> QED BY <1>1, <1>5, <2>2, SameShape DEF world
<1>10. LoginInv'
  <2>1. session[o].holder = NoChar
    BY <1>1, <1>3 DEF Inv, LoginInv
  <2>2. LoginInv
    BY DEF Inv
  <2>3. ASSUME NEW t \in Sessions
        PROVE  /\ session'[t].holder # NoChar => session'[t].player = NoChar /\ session'[t].loading
               /\ session'[t].inQueue => session'[t].holder = NoChar /\ session'[t].player = NoChar
               /\ session'[t].kicked => session'[t].socket # "open"
    <3>1. CASE t = s
      BY <1>1, <1>7, <2>2, <3>1 DEF LoginInv
    <3>2. CASE t = o
      BY <1>1, <1>3, <1>8, <2>1, <2>2, <3>2 DEF LoginInv
    <3>3. CASE t # s /\ t # o
      BY <1>6, <2>2, <3>3 DEF LoginInv
    <3> QED BY <3>1, <3>2, <3>3
  <2> QED BY <2>3 DEF LoginInv
<1>11. ASSUME NEW a \in Accounts, sessions[a] # NoSession, offline[a] # NoSession,
              session'[offline[a]].player # NoChar
       PROVE  /\ session'[offline[a]] = session[offline[a]]
              /\ session'[sessions[a]] = session[sessions[a]]
  <2>1. sessions[a] \in Sessions /\ offline[a] \in Sessions
    BY <1>11 DEF Inv, TypeOK
  <2>2. offline[a] # o /\ offline[a] # s /\ sessions[a] # o
    BY <1>2, <1>3, <1>8, <1>11
  <2>3. sessions[a] # s
    <3>1. sessions[a] = s => a = session[s].account
      BY <1>1, CurrentFacts
    <3> QED BY <2>2, <3>1 DEF o, OfflineOf
  <2> QED BY <1>6, <2>1, <2>2, <2>3
<1>12. CharInv'
  BY <1>1, <1>11 DEF Inv, CharInv
<1>13. OneInv'
  <2>1. ASSUME NEW a \in Accounts, sessions[a] # NoSession, offline[a] # NoSession,
               Playing(sessions[a])'
        PROVE  /\ phase \in {"sessions", "offline"}
               /\ phase = "offline" => a \in todo
               /\ Doomed(offline[a])'
    <3>1. sessions[a] \in Sessions /\ offline[a] \in Sessions
      BY <2>1 DEF Inv, TypeOK
    <3>2. CASE sessions[a] = s
      <4>1. a = session[s].account /\ phase = "sessions"
        BY <1>1, <3>2, CurrentFacts
      <4>2. offline[a] = o
        BY <4>1 DEF o, OfflineOf
      <4> QED BY <1>1, <1>8, <4>1, <4>2 DEF Doomed
    <3>3. CASE sessions[a] # s
      <4>1. session'[sessions[a]] = session[sessions[a]]
        BY <1>3, <1>6, <3>1, <3>3
      <4>2. /\ phase \in {"sessions", "offline"}
            /\ phase = "offline" => a \in todo
            /\ Doomed(offline[a])
        BY <1>1, <2>1, <4>1 DEF Inv, OneInv, Playing
      <4>3. session'[offline[a]].kicked = session[offline[a]].kicked
            /\ session'[offline[a]].player \in {NoChar, session[offline[a]].player}
        BY <1>2, <1>6, <1>8, <3>1
      <4> QED BY <1>1, <4>2, <4>3 DEF Doomed
    <3> QED BY <3>2, <3>3
  <2> QED BY <1>1, <2>1 DEF OneInv
<1>14. KickedInv'
  <2>1. \A t \in Sessions : session'[t].kicked = session[t].kicked
    BY <1>6, <1>7, <1>8
  <2> QED BY <1>1, <2>1 DEF Inv, TypeOK, KickedInv, Stopped
<1> QED BY <1>5, <1>9, <1>10, <1>12, <1>13, <1>14 DEF Inv

LEMMA LoginOtherStep ==
  ASSUME Inv, NEW s \in Sessions, LoginOther(s)
  PROVE  Inv'
<1> DEFINE o == OfflineOf(s)
<1>1. PICK c \in 1 .. NumChars \ {session[o].player} :
        session' = [session EXCEPT ![s].loading = TRUE, ![s].holder = c, ![o].kicked = TRUE]
  BY DEF LoginOther
<1>0. /\ session[o].player # NoChar /\ o # NoSession
      /\ s = current /\ ~session[s].inQueue /\ session[s].holder = NoChar
      /\ session[s].player = NoChar
      /\ UNCHANGED <<created, addSessQueue, sessions, offline, queued, disconnects, online,
                     phase, todo, current, shutdown>>
  BY DEF LoginOther, LogsIn, world
<1>2. /\ ~In(s, addSessQueue) /\ session[s] # Destroyed /\ session[s].socket # "none"
      /\ \A a \in Accounts : offline[a] # s
  BY <1>0, CurrentFacts
<1>3. /\ o \in Sessions /\ o # s /\ ~In(o, addSessQueue) /\ session[o] # Destroyed
      /\ session[o].socket = "none"
      /\ \A a \in Accounts : sessions[a] # o
  BY <1>0, OfflineFacts
<1> HIDE DEF o
<1>4. session \in [Sessions -> SessionSet] /\ c \in 0 .. NumChars
  BY SessionType, NumbersAssumption DEF Inv
<1>5. TypeOK'
  <2>1. [session EXCEPT ![s].loading = TRUE, ![s].holder = c] \in [Sessions -> SessionSet]
    BY <1>4 DEF SessionSet
  <2>2. \A f \in [Sessions -> SessionSet] :
          [f EXCEPT ![o].kicked = TRUE] \in [Sessions -> SessionSet]
    BY DEF SessionSet
  <2>3. session' = [[session EXCEPT ![s].loading = TRUE, ![s].holder = c]
                      EXCEPT ![o].kicked = TRUE]
    BY <1>1
  <2> QED BY <1>0, <2>1, <2>2, <2>3, SessionType DEF Inv
<1>6. /\ session'[s] = [session[s] EXCEPT !.loading = TRUE, !.holder = c]
      /\ session'[o] = [session[o] EXCEPT !.kicked = TRUE]
      /\ \A t \in Sessions \ {s, o} : session'[t] = session[t]
  BY <1>1, <1>3, <1>4
<1>7. /\ session'[s].account = session[s].account /\ session'[s].socket = session[s].socket
      /\ session'[s].kicked = session[s].kicked /\ session'[s].inQueue = session[s].inQueue
      /\ session'[s].holder = c /\ session'[s].player = session[s].player
      /\ session'[s].loading
  BY <1>4, <1>6 DEF SessionSet
<1>8. /\ session'[o].account = session[o].account /\ session'[o].socket = session[o].socket
      /\ session'[o].kicked /\ session'[o].inQueue = session[o].inQueue
      /\ session'[o].holder = session[o].holder /\ session'[o].player = session[o].player
      /\ session'[o].loading = session[o].loading
  BY <1>3, <1>4, <1>6 DEF SessionSet
<1>9. HandedInv' /\ MapsInv' /\ PlacedInv' /\ LoopInv' /\ QueueInv' /\ LimitInv' /\ RoomInv'
  <2>1. \A t \in Sessions : In(t, addSessQueue) => Fresh(session[t])
    BY DEF Inv, HandedInv
  <2>2. \A t \in Sessions :
          /\ session'[t].account = session[t].account
          /\ session'[t].socket = "none" <=> session[t].socket = "none"
          /\ session'[t].inQueue = session[t].inQueue
          /\ session[t].socket = "none" => session'[t].holder = session[t].holder
          /\ session[t] = Destroyed => session'[t] = Destroyed
          /\ In(t, addSessQueue) => Fresh(session'[t])
    <3>1. session'[s].account = session[s].account /\ session'[s].socket = session[s].socket
          /\ session'[s].inQueue = session[s].inQueue
      BY <1>7
    <3>2. session'[o].account = session[o].account /\ session'[o].socket = session[o].socket
          /\ session'[o].inQueue = session[o].inQueue /\ session'[o].holder = session[o].holder
      BY <1>8
    <3> QED BY <1>2, <1>3, <1>6, <2>1, <3>1, <3>2
  <2> QED BY <1>0, <1>5, <2>2, SameShape DEF world
<1>10. LoginInv'
  <2>1. LoginInv
    BY DEF Inv
  <2>2. ASSUME NEW t \in Sessions
        PROVE  /\ session'[t].holder # NoChar => session'[t].player = NoChar /\ session'[t].loading
               /\ session'[t].inQueue => session'[t].holder = NoChar /\ session'[t].player = NoChar
               /\ session'[t].kicked => session'[t].socket # "open"
    <3>1. CASE t = s
      BY <1>0, <1>7, <2>1, <3>1 DEF LoginInv
    <3>2. CASE t = o
      BY <1>0, <1>3, <1>8, <2>1, <2>1, <3>2 DEF LoginInv
    <3>3. CASE t # s /\ t # o
      BY <1>6, <2>1, <3>3 DEF LoginInv
    <3> QED BY <3>1, <3>2, <3>3
  <2> QED BY <2>2 DEF LoginInv
<1>11. ASSUME NEW a \in Accounts, sessions[a] # NoSession, offline[a] # NoSession
       PROVE  /\ sessions[a] \in Sessions /\ offline[a] \in Sessions
              /\ session'[offline[a]].player = session[offline[a]].player
              /\ session[offline[a]].kicked => session'[offline[a]].kicked
              /\ sessions[a] = s => a = session[s].account /\ offline[a] = o /\ phase = "sessions"
              /\ sessions[a] # s => session'[sessions[a]] = session[sessions[a]]
  <2>1. sessions[a] \in Sessions /\ offline[a] \in Sessions
    BY <1>11 DEF Inv, TypeOK
  <2>2. sessions[a] = s => a = session[s].account /\ phase = "sessions"
    BY <1>0, CurrentFacts
  <2> QED BY <1>2, <1>3, <1>6, <1>8, <2>1, <2>2 DEF o, OfflineOf
<1>12. CharInv'
  <2>1. CharInv
    BY DEF Inv
  <2>2. c # session[o].player
    OBVIOUS
  <2> QED BY <1>0, <1>7, <1>11, <2>1, <2>2 DEF CharInv
<1>13. OneInv'
  <2>1. OneInv
    BY DEF Inv
  <2> QED BY <1>0, <1>8, <1>11, <2>1 DEF OneInv, Playing, Doomed
<1>14. KickedInv'
  <2>1. \A t \in Sessions : t # o => session'[t].kicked = session[t].kicked
    BY <1>6, <1>7
  <2>2. KickedInv
    BY DEF Inv
  <2>3. \A a \in Accounts : sessions[a] # NoSession => sessions[a] \in Sessions /\ sessions[a] # o
    BY <1>3 DEF Inv, TypeOK
  <2>4. \A a \in Accounts : offline[a] # NoSession => offline[a] \in Sessions
    BY DEF Inv, TypeOK
  <2> QED BY <1>0, <1>8, <2>1, <2>2, <2>3, <2>4 DEF KickedInv, Stopped
<1> QED BY <1>0, <1>5, <1>9, <1>10, <1>12, <1>13, <1>14 DEF Inv

-----------------------------------------------------------------------------
(* The steps that change no session.                                       *)

LEMMA Still ==
  ASSUME Inv, UNCHANGED <<session, created, addSessQueue, sessions, offline, queued>>,
         disconnects' \subseteq disconnects,
         shutdown' \in {"running", "stopping"} => shutdown \in {"running", "stopping"}
  PROVE  /\ HandedInv' /\ MapsInv' /\ PlacedInv' /\ LoginInv' /\ CharInv'
         /\ QueueInv' /\ LimitInv' /\ RoomInv'
<1>1. HandedInv' /\ MapsInv' /\ PlacedInv'
  BY DEF Inv, HandedInv, MapsInv, PlacedInv
<1>2. LoginInv' /\ CharInv'
  BY DEF Inv, LoginInv, CharInv
<1>3. QueueInv'
  BY DEF Inv, QueueInv
<1>4. LimitInv'
  <2>1. Active' = Active
    BY DEF Active, Queued
  <2>2. {t \in Active : session[t].account \notin Exempt}'
          = {t \in Active : session[t].account \notin Exempt}
    BY <2>1
  <2>3. LimitInv
    BY DEF Inv
  <2> QED BY <2>2, <2>3 DEF LimitInv, LimitHolds
<1>5. RoomInv'
  BY DEF Inv, RoomInv, ActiveCount, Has
<1> QED BY <1>1, <1>2, <1>3, <1>4, <1>5

LEMMA BeginUpdateStep == Inv /\ BeginUpdate => Inv'
<1> SUFFICES ASSUME Inv, BeginUpdate PROVE Inv'
  OBVIOUS
<1>1. TypeOK'
  BY DEF Inv, TypeOK, BeginUpdate
<1>2. LoopInv' /\ OneInv' /\ KickedInv'
  BY DEF BeginUpdate, Inv, LoopInv, OneInv, Playing, Doomed, KickedInv, Stopped
<1> QED BY <1>1, <1>2, Still DEF BeginUpdate, Inv

LEMMA AllAddedStep == Inv /\ AllAdded => Inv'
<1> SUFFICES ASSUME Inv, AllAdded PROVE Inv'
  OBVIOUS
<1>1. TypeOK'
  BY DEF Inv, TypeOK, AllAdded, Has
<1>2. LoopInv' /\ OneInv'
  BY DEF AllAdded, Inv, LoopInv, OneInv, Playing, Doomed, Has
<1>3. KickedInv'
  BY DEF AllAdded, Inv, KickedInv, Stopped, Has
<1> QED BY <1>1, <1>2, <1>3, Still DEF AllAdded, Inv

LEMMA StartSessionStep ==
  ASSUME Inv, NEW a \in Accounts, StartSession(a)
  PROVE  Inv'
<1>1. TypeOK'
  BY DEF Inv, TypeOK, StartSession
<1>2. sessions[a] # NoSession
  BY DEF StartSession, Inv, LoopInv, Has
<1>3. LoopInv'
  BY <1>2 DEF StartSession, Inv, LoopInv, MapsInv
<1>4. OneInv'
  BY DEF StartSession, Inv, OneInv, Playing, Doomed
<1>5. KickedInv'
  BY DEF StartSession, Inv, KickedInv, Stopped
<1> QED BY <1>1, <1>3, <1>4, <1>5, Still DEF StartSession, Inv

LEMMA KeepSessionStep ==
  ASSUME Inv, NEW s \in Sessions, KeepSession(s)
  PROVE  Inv'
<1>1. TypeOK'
  BY DEF Inv, TypeOK, KeepSession
<1>2. LoopInv' /\ OneInv'
  BY DEF KeepSession, Inv, LoopInv, OneInv, Playing, Doomed
<1>3. ~session[s].kicked
  BY DEF KeepSession, Inv, LoginInv
<1>4. KickedInv'
  BY <1>3 DEF KeepSession, Inv, KickedInv, Stopped
<1> QED BY <1>1, <1>2, <1>4, Still DEF KeepSession, Inv

LEMMA AllUpdatedStep == Inv /\ AllUpdated => Inv'
<1> SUFFICES ASSUME Inv, AllUpdated PROVE Inv'
  OBVIOUS
<1>1. TypeOK'
  BY DEF Inv, TypeOK, AllUpdated, Has
<1>2. LoopInv' /\ OneInv'
  BY DEF AllUpdated, Inv, LoopInv, OneInv, Playing, Doomed, Has
<1>3. KickedInv'
  BY DEF AllUpdated, Inv, KickedInv, Stopped, Has
<1> QED BY <1>1, <1>2, <1>3, Still DEF AllUpdated, Inv

LEMMA KeepOfflineStep ==
  ASSUME Inv, NEW a \in Accounts, KeepOffline(a)
  PROVE  Inv'
<1>1. TypeOK'
  BY DEF Inv, TypeOK, KeepOffline
<1>2. LoopInv'
  BY DEF KeepOffline, Inv, LoopInv
<1>3. OneInv'
  BY DEF KeepOffline, Inv, OneInv, Playing, Doomed
<1>4. KickedInv'
  BY DEF KeepOffline, Inv, KickedInv, Stopped
<1> QED BY <1>1, <1>2, <1>3, <1>4, Still DEF KeepOffline, Inv

\* The last account was visited: nobody kicked is left.
LEMMA EndUpdateStep == Inv /\ EndUpdate => Inv'
<1> SUFFICES ASSUME Inv, EndUpdate PROVE Inv'
  OBVIOUS
<1>1. TypeOK'
  BY DEF Inv, TypeOK, EndUpdate
<1>2. LoopInv' /\ OneInv'
  BY DEF EndUpdate, Inv, LoopInv, OneInv, Playing, Doomed
<1>3. KickedInv'
  BY DEF EndUpdate, Inv, KickedInv, Stopped
<1>4. shutdown' \in {"running", "stopping"} => shutdown \in {"running", "stopping"}
  BY DEF EndUpdate
<1> QED BY <1>1, <1>2, <1>3, <1>4, Still DEF EndUpdate, Inv

LEMMA StopStep == Inv /\ Stop => Inv'
<1> SUFFICES ASSUME Inv, Stop PROVE Inv'
  OBVIOUS
<1>1. TypeOK'
  BY DEF Inv, TypeOK, Stop
<1>2. LoopInv' /\ OneInv' /\ KickedInv'
  BY DEF Stop, Inv, LoopInv, OneInv, Playing, Doomed, KickedInv, Stopped
<1> QED BY <1>1, <1>2, Still DEF Stop, Inv

LEMMA ForgetStep ==
  ASSUME Inv, NEW a \in Accounts, Forget(a)
  PROVE  Inv'
<1>1. TypeOK'
  BY DEF Inv, TypeOK, Forget, world
<1>2. LoopInv' /\ OneInv' /\ KickedInv'
  BY DEF Forget, Inv, LoopInv, OneInv, Playing, Doomed, KickedInv, Stopped, world, Has
<1> QED BY <1>1, <1>2, Still DEF Forget, Inv, world

-----------------------------------------------------------------------------
(* The steps that create and destroy sessions outside m_sessions.          *)

\* The sessions of the map neither change account nor wait otherwise.
LEMMA QueueStill ==
  ASSUME Inv, UNCHANGED <<sessions, queued, disconnects>>,
         shutdown' \in {"running", "stopping"} => shutdown \in {"running", "stopping"},
         \A t \in Members : /\ session'[t].account = session[t].account
                            /\ session'[t].inQueue = session[t].inQueue,
         \A t \in Sessions \ Members : ~session'[t].inQueue
  PROVE  QueueInv' /\ LimitInv' /\ RoomInv'
<1>1. \A t \in Sessions : In(t, queued) => t \in Members
  BY DEF Inv, QueueInv, Members
<1>2. QueueInv'
  BY <1>1 DEF Inv, QueueInv, Members
<1>3. LimitInv'
  <2>1. Active' = Active /\ Active \subseteq Members
    BY DEF Active, Queued, Members
  <2>2. {t \in Active : session[t].account \notin Exempt}'
          = {t \in Active : session[t].account \notin Exempt}
    BY <2>1
  <2>3. LimitInv
    BY DEF Inv
  <2> QED BY <2>2, <2>3 DEF LimitInv, LimitHolds
<1>4. RoomInv'
  BY DEF Inv, RoomInv, ActiveCount, Has
<1> QED BY <1>2, <1>3, <1>4

\* Who is not in m_sessions does not wait.
LEMMA OutsideWaits ==
  ASSUME Inv, NEW t \in Sessions, t \notin Members
  PROVE  ~session[t].inQueue
<1>1. CASE session[t] = Destroyed
  BY <1>1 DEF Destroyed
<1>2. CASE session[t] # Destroyed
  <2>1. PICK a \in Accounts : In(t, addSessQueue) \/ sessions[a] = t \/ offline[a] = t
    BY <1>2 DEF Inv, PlacedInv
  <2>2. t # NoSession /\ sessions[a] # t
    BY DEF Sessions, NoSession, Members
  <2> QED BY <2>1, <2>2 DEF Inv, HandedInv, Fresh, MapsInv
<1> QED BY <1>1, <1>2

LEMMA NewConnectionStep == Inv /\ NewConnection => Inv'
<1> SUFFICES ASSUME Inv, NewConnection PROVE Inv'
  OBVIOUS
<1> DEFINE n == created + 1
<1>1. PICK a \in Accounts : /\ session' = [session EXCEPT ![n] = Created(a)]
                            /\ online' = [online EXCEPT ![a] = 1]
  BY DEF NewConnection
<1>2. /\ n \in Sessions /\ created' = n /\ n > created /\ created \in Nat
      /\ session[n] = Destroyed
      /\ addSessQueue' = Append(addSessQueue, n)
      /\ UNCHANGED <<sessions, offline, queued, disconnects, phase, todo, current, shutdown>>
  <2>1. n \in Sessions /\ created' = n /\ n > created /\ created \in Nat
        /\ addSessQueue' = Append(addSessQueue, n)
        /\ UNCHANGED <<sessions, offline, queued, disconnects, phase, todo, current, shutdown>>
    BY NumbersAssumption DEF NewConnection, world, Inv, TypeOK, Sessions
  <2> QED BY <2>1 DEF Inv, PlacedInv
<1>3. /\ ~In(n, addSessQueue)
      /\ \A b \in Accounts : sessions[b] # n /\ offline[b] # n
  BY <1>2, AccountsAssumption DEF Inv, HandedInv, Fresh, MapsInv, Destroyed, Sessions, NoSession
<1>4. addSessQueue \in Seq(Sessions) /\ session \in [Sessions -> SessionSet]
  BY SessionType DEF Inv, TypeOK
<1>5. /\ addSessQueue' \in Seq(Sessions)
      /\ \A x : In(x, addSessQueue') <=> In(x, addSessQueue) \/ x = n
      /\ Distinct(addSessQueue')
  <2>1. Distinct(addSessQueue)
    BY DEF Inv, HandedInv
  <2> QED BY <1>2, <1>3, <1>4, <2>1, AppendFacts
<1>6. Created(a) \in SessionSet /\ Fresh(Created(a)) /\ Created(a).account = a
      /\ Created(a).holder = NoChar /\ Created(a).player = NoChar
  <2>1. NoChar \in 0 .. NumChars
    BY NumbersAssumption DEF NoChar
  <2>2. Created(a) \in SessionSet
    BY <2>1 DEF Created, Destroyed, SessionSet
  <2>3. /\ Created(a).account = a /\ Created(a).socket = "open" /\ ~Created(a).kicked
        /\ ~Created(a).inQueue /\ ~Created(a).loading /\ ~Created(a).away
        /\ Created(a).holder = NoChar /\ Created(a).player = NoChar
    BY DEF Created, Destroyed
  <2> QED BY <2>2, <2>3 DEF Fresh
<1> HIDE DEF n
<1>7. session'[n] = Created(a) /\ \A t \in Sessions : t # n => session'[t] = session[t]
  BY <1>1, <1>2, <1>4
<1>8. TypeOK'
  <2>1. session' \in [Sessions -> SessionSet]
    BY <1>1, <1>2, <1>4, <1>6
  <2>2. online' \in [Accounts -> 0 .. 1] /\ created' \in 0 .. MaxSessions
    BY <1>1, <1>2 DEF Inv, TypeOK, Sessions
  <2> QED BY <1>2, <1>5, <2>1, <2>2 DEF Inv, TypeOK, SessionSet
<1>9. HandedInv'
  BY <1>2, <1>3, <1>5, <1>6, <1>7 DEF Inv, HandedInv, Sessions
<1>10. MapsInv'
  BY <1>2, <1>3, <1>7 DEF Inv, TypeOK, MapsInv
<1>11. PlacedInv'
  <2>1. ASSUME NEW s \in Sessions
        PROVE  /\ s > created' => session'[s] = Destroyed
               /\ session'[s] = Destroyed
                  \/ /\ session'[s].account \in Accounts
                     /\ \/ In(s, addSessQueue')
                        \/ sessions[session'[s].account] = s
                        \/ offline[session'[s].account] = s
    <3>1. CASE s = n
      BY <1>2, <1>5, <1>6, <1>7, <3>1 DEF Sessions
    <3>2. CASE s # n
      <4>1. s > n => s > created
        BY <1>2 DEF Sessions
      <4> QED BY <1>2, <1>5, <1>7, <3>2, <4>1 DEF Inv, PlacedInv
    <3> QED BY <3>1, <3>2
  <2> QED BY <1>2, <2>1 DEF PlacedInv
<1>12. LoopInv'
  <2>1. current # n
    BY <1>2, AccountsAssumption DEF Inv, LoopInv, Destroyed, Sessions, NoSession
  <2> QED BY <1>2, <1>7, <2>1 DEF Inv, TypeOK, LoopInv, Has
<1>13. LoginInv'
  <2>1. ~Created(a).inQueue /\ ~Created(a).kicked
    BY DEF Created, Destroyed
  <2> QED BY <1>6, <1>7, <2>1 DEF Inv, LoginInv
<1>14. QueueInv' /\ LimitInv' /\ RoomInv'
  <2>1. \A t \in Members : t # n
    BY <1>3 DEF Members
  <2>2. \A t \in Members : session'[t] = session[t]
    BY <1>7, <2>1 DEF Members
  <2>3. \A t \in Sessions \ Members : ~session'[t].inQueue
    BY <1>6, <1>7, OutsideWaits DEF Fresh
  <2> QED BY <1>2, <2>2, <2>3, QueueStill
<1>15. CharInv' /\ OneInv' /\ KickedInv'
  <2>1. ASSUME NEW b \in Accounts
        PROVE  /\ sessions[b] # NoSession => session'[sessions[b]] = session[sessions[b]]
               /\ offline[b] # NoSession => session'[offline[b]] = session[offline[b]]
    BY <1>3, <1>7 DEF Inv, TypeOK
  <2>2. CharInv'
    BY <1>2, <2>1 DEF Inv, CharInv
  <2>3. OneInv'
    BY <1>2, <2>1 DEF Inv, OneInv, Playing, Doomed
  <2>4. KickedInv'
    BY <1>2, <2>1 DEF Inv, KickedInv, Stopped
  <2> QED BY <2>2, <2>3, <2>4
<1> QED BY <1>8, <1>9, <1>10, <1>11, <1>12, <1>13, <1>14, <1>15 DEF Inv

\* What the first of the handed over sessions is.
LEMMA HeadFacts ==
  ASSUME Inv, addSessQueue # <<>>
  PROVE  LET s == Head(addSessQueue)
         IN  /\ s \in Sessions /\ s <= created /\ In(s, addSessQueue) /\ Fresh(session[s])
             /\ \A a \in Accounts : sessions[a] # s /\ offline[a] # s
             /\ Tail(addSessQueue) \in Seq(Sessions) /\ Distinct(Tail(addSessQueue))
             /\ \A x : In(x, Tail(addSessQueue)) <=> In(x, addSessQueue) /\ x # s
<1>1. addSessQueue \in Seq(Sessions) /\ Distinct(addSessQueue)
  BY DEF Inv, TypeOK, HandedInv
<1>2. Head(addSessQueue) \in Sessions /\ In(Head(addSessQueue), addSessQueue)
  BY <1>1, TailFacts
<1>3. /\ Tail(addSessQueue) \in Seq(Sessions) /\ Distinct(Tail(addSessQueue))
      /\ \A x : In(x, Tail(addSessQueue)) <=> In(x, addSessQueue) /\ x # Head(addSessQueue)
  BY <1>1, TailFacts
<1> QED BY <1>2, <1>3 DEF Inv, HandedInv

LEMMA AddRefusedStep == Inv /\ AddRefused => Inv'
<1> SUFFICES ASSUME Inv, AddRefused PROVE Inv'
  OBVIOUS
<1> DEFINE s == Head(addSessQueue)
           a == session[s].account
<1>1. /\ s \in Sessions /\ In(s, addSessQueue) /\ Fresh(session[s]) /\ a \in Accounts
      /\ \A b \in Accounts : sessions[b] # s /\ offline[b] # s
      /\ Tail(addSessQueue) \in Seq(Sessions) /\ Distinct(Tail(addSessQueue))
      /\ \A x : In(x, Tail(addSessQueue)) <=> In(x, addSessQueue) /\ x # s
  BY HeadFacts DEF AddRefused, Fresh
<1>2. /\ session' = [session EXCEPT ![s] = Destroyed]
      /\ online' = [online EXCEPT ![a] = 0]
      /\ addSessQueue' = Tail(addSessQueue) /\ phase = "add"
      /\ UNCHANGED <<created, sessions, offline, queued, disconnects, phase, todo, current,
                     shutdown>>
  BY DEF AddRefused, world
<1> HIDE DEF s, a
<1>3. session \in [Sessions -> SessionSet] /\ Destroyed \in SessionSet
  BY SessionType, NumbersAssumption DEF Inv, SessionSet, Destroyed, NoChar
<1>4. session'[s] = Destroyed /\ \A t \in Sessions : t # s => session'[t] = session[t]
  BY <1>1, <1>2, <1>3
<1>5. TypeOK'
  <2>1. session' \in [Sessions -> SessionSet]
    BY <1>2, <1>3
  <2>2. online \in [Accounts -> 0 .. 1]
    BY DEF Inv, TypeOK
  <2>3. online' \in [Accounts -> 0 .. 1]
    BY <1>1, <1>2, <2>2
  <2> QED BY <1>1, <1>2, <2>1, <2>3 DEF Inv, TypeOK, SessionSet
<1>6. HandedInv'
  BY <1>1, <1>2, <1>4 DEF Inv, HandedInv
<1>7. MapsInv'
  BY <1>1, <1>2, <1>4 DEF Inv, TypeOK, MapsInv
<1>8. PlacedInv'
  BY <1>1, <1>2, <1>4 DEF Inv, PlacedInv
<1>9. LoopInv'
  BY <1>2 DEF Inv, LoopInv, Has
<1>10. LoginInv'
  BY <1>4 DEF Inv, LoginInv, Destroyed
<1>11. QueueInv' /\ LimitInv' /\ RoomInv'
  <2>1. \A t \in Members : session'[t] = session[t]
    BY <1>1, <1>4 DEF Members
  <2>2. \A t \in Sessions \ Members : ~session'[t].inQueue
    BY <1>4, OutsideWaits DEF Destroyed
  <2> QED BY <1>2, <2>1, <2>2, QueueStill
<1>12. CharInv' /\ OneInv' /\ KickedInv'
  <2>1. ASSUME NEW b \in Accounts
        PROVE  /\ sessions[b] # NoSession => session'[sessions[b]] = session[sessions[b]]
               /\ offline[b] # NoSession => session'[offline[b]] = session[offline[b]]
    BY <1>1, <1>4 DEF Inv, TypeOK
  <2>2. CharInv'
    BY <1>2, <2>1 DEF Inv, CharInv
  <2>3. OneInv'
    BY <1>2, <2>1 DEF Inv, OneInv, Playing, Doomed
  <2>4. KickedInv'
    BY <1>2, <2>1 DEF Inv, KickedInv, Stopped
  <2> QED BY <2>2, <2>3, <2>4
<1> QED BY <1>5, <1>6, <1>7, <1>8, <1>9, <1>10, <1>11, <1>12 DEF Inv

LEMMA DropOfflineStep ==
  ASSUME Inv, NEW a \in Accounts, DropOffline(a)
  PROVE  Inv'
<1> DEFINE o == offline[a]
<1>1. /\ phase = "offline" /\ a \in todo
      /\ session' = [session EXCEPT ![o] = Destroyed]
      /\ offline' = [offline EXCEPT ![a] = NoSession]
      /\ online' = [online EXCEPT ![a] = IF sessions[a] = NoSession THEN 0 ELSE @]
      /\ todo' = todo \ {a}
      /\ UNCHANGED <<created, addSessQueue, sessions, queued, disconnects, phase, current,
                     shutdown>>
  BY DEF DropOffline
<1>2. /\ o \in Sessions /\ session[o].account = a /\ ~In(o, addSessQueue) /\ o # NoSession
      /\ \A b \in Accounts : sessions[b] # o /\ (offline[b] = o => b = a)
  <2>1. o # NoSession
    BY <1>1 DEF Inv, LoopInv, Has
  <2> QED BY <2>1, OwnerFacts DEF Inv, MapsInv
<1> HIDE DEF o
<1>3. session \in [Sessions -> SessionSet] /\ Destroyed \in SessionSet
  BY SessionType, NumbersAssumption DEF Inv, SessionSet, Destroyed, NoChar
<1>4. session'[o] = Destroyed /\ \A t \in Sessions : t # o => session'[t] = session[t]
  BY <1>1, <1>2, <1>3
<1>5. TypeOK'
  <2>1. session' \in [Sessions -> SessionSet]
    BY <1>1, <1>3
  <2>2. online \in [Accounts -> 0 .. 1] /\ offline \in [Accounts -> Sessions \cup {NoSession}]
    BY DEF Inv, TypeOK
  <2>3. online' \in [Accounts -> 0 .. 1]
    BY <1>1, <2>2
  <2>4. offline' \in [Accounts -> Sessions \cup {NoSession}]
    BY <1>1, <2>2
  <2> QED BY <1>1, <2>1, <2>3, <2>4 DEF Inv, TypeOK, SessionSet
<1>6. /\ offline'[a] = NoSession
      /\ \A b \in Accounts : b # a => offline'[b] = offline[b] /\ offline[b] # o
  BY <1>1, <1>2 DEF Inv, TypeOK
<1>7. HandedInv'
  <2>1. \A t \in Sessions : In(t, addSessQueue) => session'[t] = session[t]
    BY <1>2, <1>4
  <2>2. \A t \in Sessions : t # NoSession
    BY DEF Sessions, NoSession
  <2> QED BY <1>1, <1>6, <2>1, <2>2 DEF Inv, HandedInv
<1>8. MapsInv'
  BY <1>1, <1>2, <1>4, <1>6 DEF Inv, TypeOK, MapsInv
<1>9. PlacedInv'
  BY <1>1, <1>2, <1>4, <1>6 DEF Inv, PlacedInv, o
<1>10. LoopInv'
  <2>1. current = NoSession
    BY <1>1 DEF Inv, LoopInv
  <2> QED BY <1>1, <1>6, <2>1 DEF Inv, LoopInv, Has
<1>11. LoginInv'
  BY <1>4 DEF Inv, LoginInv, Destroyed
<1>12. QueueInv' /\ LimitInv' /\ RoomInv'
  <2>1. \A t \in Members : session'[t] = session[t]
    BY <1>2, <1>4 DEF Members
  <2>2. \A t \in Sessions \ Members : ~session'[t].inQueue
    BY <1>4, OutsideWaits DEF Destroyed
  <2> QED BY <1>1, <2>1, <2>2, QueueStill
<1>13. CharInv' /\ OneInv' /\ KickedInv'
  <2>1. ASSUME NEW b \in Accounts
        PROVE  /\ sessions[b] # NoSession => session'[sessions[b]] = session[sessions[b]]
               /\ offline'[b] # NoSession => b # a /\ offline'[b] = offline[b]
                                             /\ session'[offline[b]] = session[offline[b]]
    BY <1>2, <1>4, <1>6 DEF Inv, TypeOK
  <2>2. CharInv'
    BY <1>1, <2>1 DEF Inv, CharInv
  <2>3. OneInv'
    BY <1>1, <2>1 DEF Inv, OneInv, Playing, Doomed
  <2>4. KickedInv'
    BY <1>1, <2>1 DEF Inv, KickedInv, Stopped
  <2> QED BY <2>2, <2>3, <2>4
<1> QED BY <1>5, <1>7, <1>8, <1>9, <1>10, <1>11, <1>12, <1>13 DEF Inv

LEMMA KickAllStep == Inv /\ KickAll => Inv'
<1> SUFFICES ASSUME Inv, KickAll PROVE Inv'
  OBVIOUS
<1> DEFINE On(s) == \E a \in Accounts : s = sessions[a]
           Off(s) == \E a \in Accounts : s = offline[a]
<1>1. /\ phase = "idle" /\ shutdown' = "kicked" /\ queued' = <<>>
      /\ UNCHANGED <<created, addSessQueue, sessions, offline, disconnects, online,
                     phase, todo, current>>
  BY DEF KickAll
<1>0. /\ \A s \in Sessions :
           session'[s] = IF On(s) THEN [session[s] EXCEPT !.kicked = TRUE, !.socket = "closed"]
                         ELSE IF Off(s) THEN [session[s] EXCEPT !.kicked = TRUE]
                         ELSE session[s]
      /\ session' = [s \in Sessions |-> session'[s]]
  BY DEF KickAll
<1>2. session \in [Sessions -> SessionSet]
  BY SessionType DEF Inv
<1>3. \A s \in Sessions : On(s) => ~Off(s)
  <2>1. \A a \in Accounts, b \in Accounts : offline[b] # NoSession => offline[b] # sessions[a]
    BY OwnerFacts DEF Inv
  <2>2. \A s \in Sessions : s # NoSession
    BY DEF Sessions, NoSession
  <2> QED BY <2>1, <2>2
<1> HIDE DEF On, Off
<1>4. ASSUME NEW s \in Sessions
      PROVE  /\ session'[s] \in SessionSet
             /\ session'[s].account = session[s].account
             /\ session'[s].inQueue = session[s].inQueue
             /\ session'[s].loading = session[s].loading
             /\ session'[s].holder = session[s].holder
             /\ session'[s].player = session[s].player
             /\ On(s) => session'[s].kicked /\ session'[s].socket = "closed"
             /\ Off(s) => session'[s].kicked /\ session'[s].socket = session[s].socket
             /\ ~On(s) /\ ~Off(s) => session'[s] = session[s]
  <2>1. session[s] \in SessionSet
    BY <1>2
  <2>2. CASE On(s)
    <3>1. session'[s] = [session[s] EXCEPT !.kicked = TRUE, !.socket = "closed"] /\ ~Off(s)
      BY <1>0, <1>3, <2>2
    <3> QED BY <2>1, <2>2, <3>1 DEF SessionSet
  <2>3. CASE ~On(s) /\ Off(s)
    <3>1. session'[s] = [session[s] EXCEPT !.kicked = TRUE]
      BY <1>0, <2>3
    <3> QED BY <2>1, <2>3, <3>1 DEF SessionSet
  <2>4. CASE ~On(s) /\ ~Off(s)
    <3>1. session'[s] = session[s]
      BY <1>0, <2>4
    <3> QED BY <2>1, <2>4, <3>1
  <2> QED BY <2>2, <2>3, <2>4
<1>5. /\ \A a \in Accounts : sessions[a] # NoSession => sessions[a] \in Sessions /\ On(sessions[a])
      /\ \A a \in Accounts : offline[a] # NoSession => offline[a] \in Sessions /\ Off(offline[a])
  BY DEF Inv, TypeOK, On, Off
<1>6. TypeOK'
  <2>1. session' \in [Sessions -> SessionSet]
    BY <1>0, <1>4
  <2> QED BY <1>1, <2>1 DEF Inv, TypeOK, SessionSet
<1>7. HandedInv'
  <2>1. \A s \in Sessions : In(s, addSessQueue) => ~On(s) /\ ~Off(s)
    BY DEF Inv, HandedInv, On, Off
  <2> QED BY <1>1, <1>4, <2>1 DEF Inv, HandedInv
<1>8. MapsInv'
  BY <1>1, <1>4, <1>5 DEF Inv, MapsInv
<1>9. PlacedInv'
  <2>1. ASSUME NEW s \in Sessions, session[s] = Destroyed
        PROVE  ~On(s) /\ ~Off(s)
    <3>1. session[s].account \notin Accounts /\ s # NoSession
      BY <2>1, AccountsAssumption DEF Destroyed, Sessions, NoSession
    <3> QED BY <3>1 DEF Inv, MapsInv, On, Off
  <2> QED BY <1>1, <1>4, <2>1 DEF Inv, PlacedInv
<1>10. LoopInv'
  <2>1. current = NoSession
    BY <1>1 DEF Inv, LoopInv
  <2> QED BY <1>1, <2>1 DEF Inv, LoopInv
<1>11. LoginInv'
  <2>1. ASSUME NEW s \in Sessions
        PROVE  session'[s].kicked => session'[s].socket # "open"
    <3>1. Off(s) => session[s].socket = "none"
      <4>1. s # NoSession
        BY DEF Sessions, NoSession
      <4> QED BY <4>1 DEF Off, Inv, MapsInv
    <3> QED BY <1>4, <3>1 DEF Inv, LoginInv
  <2> QED BY <1>4, <2>1 DEF Inv, LoginInv
<1>12. QueueInv'
  BY <1>1 DEF QueueInv, Distinct, In
<1>13. LimitInv' /\ RoomInv'
  BY <1>1 DEF Inv, LimitInv, LimitHolds, RoomInv
<1>14. CharInv' /\ OneInv'
  BY <1>1, <1>4, <1>5 DEF Inv, CharInv, OneInv, Playing
<1>15. KickedInv'
  BY <1>1, <1>4, <1>5 DEF KickedInv, Stopped
<1> QED BY <1>6, <1>7, <1>8, <1>9, <1>10, <1>11, <1>12, <1>13, <1>14, <1>15 DEF Inv

-----------------------------------------------------------------------------
(* The steps in which a session leaves m_sessions.                         *)

\* The sessions when s was removed from the queue.
LEMMA ClearedFacts ==
  ASSUME Inv, NEW s \in Members
  PROVE  \A t \in Sessions :
           /\ Cleared(s)[t] \in SessionSet
           /\ Cleared(s)[t].account = session[t].account
           /\ Cleared(s)[t].socket = session[t].socket
           /\ Cleared(s)[t].kicked = session[t].kicked
           /\ Cleared(s)[t].loading = session[t].loading
           /\ Cleared(s)[t].holder = session[t].holder
           /\ Cleared(s)[t].player = session[t].player
           /\ Cleared(s)[t].inQueue
                <=> session[t].inQueue /\ t # s /\ ~(Admits(s) /\ t = Head(Rest(s)))
           /\ t \notin Members => Cleared(s)[t] = session[t]
<1>1. session \in [Sessions -> SessionSet]
  BY SessionType DEF Inv
<1> SUFFICES ASSUME NEW t \in Sessions
             PROVE  /\ Cleared(s)[t] \in SessionSet
                    /\ Cleared(s)[t].account = session[t].account
                    /\ Cleared(s)[t].socket = session[t].socket
                    /\ Cleared(s)[t].kicked = session[t].kicked
                    /\ Cleared(s)[t].loading = session[t].loading
                    /\ Cleared(s)[t].holder = session[t].holder
                    /\ Cleared(s)[t].player = session[t].player
                    /\ Cleared(s)[t].inQueue
                         <=> session[t].inQueue /\ t # s /\ ~(Admits(s) /\ t = Head(Rest(s)))
                    /\ t \notin Members => Cleared(s)[t] = session[t]
  OBVIOUS
<1>2. session[t] \in SessionSet
  BY <1>1
<1>3. CASE t = s \/ (Admits(s) /\ t = Head(Rest(s)))
  <2>1. Cleared(s)[t] = [session[t] EXCEPT !.inQueue = FALSE]
    BY <1>3 DEF Cleared
  <2>2. t \in Members
    <3>1. Admits(s) => In(Head(Rest(s)), queued)
      BY AfterFacts DEF Inv, TypeOK, QueueInv
    <3> QED BY <1>3, <3>1 DEF Inv, QueueInv, Members
  <2> QED BY <1>2, <1>3, <2>1, <2>2 DEF SessionSet
<1>4. CASE ~(t = s \/ (Admits(s) /\ t = Head(Rest(s))))
  <2>1. Cleared(s)[t] = session[t]
    BY <1>4 DEF Cleared
  <2> QED BY <1>2, <1>4, <2>1
<1> QED BY <1>3, <1>4

\* The queue, the limit and the room when the session of account a is gone.
LEMMA Removed ==
  ASSUME Inv, NEW a \in Accounts, NEW s \in Sessions, sessions[a] = s,
         queued' = AfterRemove(s), sessions' = [sessions EXCEPT ![a] = NoSession],
         disconnects' = disconnects \cup Remembered(s), shutdown' = shutdown,
         \A t \in Sessions :
           session'[t].inQueue
             <=> session[t].inQueue /\ t # s /\ ~(Admits(s) /\ t = Head(Rest(s))),
         \A t \in Members : t # s => session'[t].account = session[t].account
  PROVE  /\ QueueInv' /\ LimitInv' /\ RoomInv'
         /\ queued' \in Seq(Sessions) /\ disconnects' \subseteq Accounts
         /\ sessions' \in [Accounts -> Sessions \cup {NoSession}]
<1>1. /\ queued \in Seq(Sessions) /\ Distinct(queued) /\ s \in Members
      /\ sessions \in [Accounts -> Sessions \cup {NoSession}]
  BY DEF Inv, TypeOK, QueueInv, Members
<1>2. /\ queued' \in Seq(Sessions) /\ Distinct(queued')
      /\ \A x : In(x, queued')
                  <=> In(x, queued) /\ x # s /\ ~(Admits(s) /\ x = Head(Rest(s)))
  BY <1>1, AfterFacts
<1>3. \A b \in Accounts : sessions'[b] = IF b = a THEN NoSession ELSE sessions[b]
  BY <1>1
<1>4. Members' = Members \ {s}
  <2>1. \A b \in Accounts : sessions[b] = s => b = a
    BY DEF Inv, MapsInv, Sessions, NoSession
  <2>2. \A t \in Sessions : t # NoSession
    BY DEF Sessions, NoSession
  <2> QED BY <1>3, <2>1, <2>2 DEF Members
<1>5. QueueInv'
  <2>1. \A t \in Sessions : In(t, queued') => session'[t].inQueue /\ t \in Members'
    BY <1>2, <1>4 DEF Inv, QueueInv, Members
  <2>2. shutdown \in {"running", "stopping"} =>
          \A t \in Sessions : session'[t].inQueue => In(t, queued')
    BY <1>2 DEF Inv, QueueInv
  <2> QED BY <1>2, <2>1, <2>2 DEF QueueInv, Members
<1>6. Active' = Left(s)
  <2>1. Active' = {t \in Members' : ~In(t, queued')}
    BY DEF Active, Members, Queued, In
  <2> QED BY <1>4, <2>1 DEF Left
<1>7. LimitInv'
  <2>1. ~Tolerance => disconnects' = {}
    BY DEF Remembered, Inv, LimitInv
  <2>2. ASSUME Limit > 0, ~Tolerance, shutdown \in {"running", "stopping"}
        PROVE  Cardinality({t \in Active' : session'[t].account \notin Exempt}) <= Limit
    <3>1. Cardinality(Bound(Left(s))) <= Limit
      BY <1>1, <2>2, LeftLimit DEF Inv
    <3>2. {t \in Active' : session'[t].account \notin Exempt} = Bound(Left(s))
      BY <1>6 DEF Left, Bound
    <3> QED BY <3>1, <3>2
  <2> QED BY <2>1, <2>2 DEF LimitInv, LimitHolds
<1>8. RoomInv'
  <2>1. Cardinality(Has(sessions'))  = Cardinality(Has(sessions)) - 1
    <3>1. sessions[a] # NoSession
      BY DEF Sessions, NoSession
    <3> QED BY <3>1, HasFacts DEF Inv
  <2>2. Cardinality(Left(s)) = Cardinality(Has(sessions)) - 1 - Len(queued')
    BY <1>1, LeftFacts DEF Inv
  <2>3. queued' # <<>> => Limit > 0 /\ Cardinality(Left(s)) >= Limit
    BY <1>1, LeftRoom DEF Inv
  <2>4. Has(sessions)' = Has(sessions')
    BY DEF Has
  <2> QED BY <2>1, <2>2, <2>3, <2>4 DEF RoomInv, ActiveCount
<1>9. Remembered(s) \subseteq Accounts /\ disconnects \subseteq Accounts
  BY DEF Remembered, Inv, TypeOK, MapsInv, Sessions, NoSession
<1> QED BY <1>1, <1>2, <1>5, <1>7, <1>8, <1>9

LEMMA GoOfflineStep ==
  ASSUME Inv, NEW a \in Accounts, GoOffline(a)
  PROVE  Inv'
<1> DEFINE s == sessions[a]
           o == offline[a]
<1>1. /\ phase = "sessions" /\ current = NoSession /\ a \in todo
      /\ Closable(s)
      /\ queued' = AfterRemove(s)
      /\ disconnects' = disconnects \cup Remembered(s)
      /\ offline' = [offline EXCEPT ![a] = s]
      /\ sessions' = [sessions EXCEPT ![a] = NoSession]
      /\ todo' = todo \ {a}
      /\ UNCHANGED <<created, addSessQueue, online, phase, current, shutdown>>
  BY DEF GoOffline
<1>2. session' = [t \in Sessions |->
        IF t = s THEN [session[t] EXCEPT !.socket = "none"]
        ELSE IF t = o THEN Destroyed
        ELSE Cleared(s)[t]]
  BY DEF GoOffline
<1>3. /\ s \in Sessions /\ session[s].account = a /\ ~In(s, addSessQueue)
      /\ \A b \in Accounts : offline[b] # s /\ (sessions[b] = s => b = a)
      /\ \A b \in Accounts : sessions[b] # NoSession => sessions[b] # o
      /\ \A b \in Accounts : offline[b] # NoSession /\ offline[b] = o => b = a
      /\ ~In(o, addSessQueue) \/ o \notin Sessions
      /\ s \in Members /\ s # NoSession
  <2>1. s # NoSession
    BY <1>1 DEF Inv, LoopInv, Has
  <2> QED BY <2>1, OwnerFacts DEF Inv, MapsInv, Members, Sessions, NoSession
<1>4. /\ session[s].player # NoChar /\ session[s].holder = NoChar
      /\ ~session[s].inQueue /\ ~session[s].kicked /\ shutdown = "running"
  BY <1>1, <1>3 DEF Closable, StaysInWorld, Stopped, Inv, LoginInv
<1> HIDE DEF s, o
<1>5. session \in [Sessions -> SessionSet] /\ Destroyed \in SessionSet
  BY SessionType, NumbersAssumption DEF Inv, SessionSet, Destroyed, NoChar
<1>6. /\ session'[s] \in SessionSet
      /\ session'[s].account = a /\ session'[s].socket = "none" /\ ~session'[s].inQueue
      /\ session'[s].holder = NoChar /\ session'[s].player = session[s].player
      /\ ~session'[s].kicked
  <2>1. session'[s] = [session[s] EXCEPT !.socket = "none"]
    BY <1>2, <1>3
  <2>2. session[s] \in SessionSet
    BY <1>3, <1>5
  <2> QED BY <1>3, <1>4, <2>1, <2>2 DEF SessionSet
<1>7. o \in Sessions => session'[o] = Destroyed /\ session'[o] \in SessionSet
  BY <1>2, <1>3, <1>5 DEF o
<1>8. \A t \in Sessions : t # s /\ t # o =>
        /\ session'[t] \in SessionSet
        /\ session'[t].account = session[t].account /\ session'[t].socket = session[t].socket
        /\ session'[t].kicked = session[t].kicked /\ session'[t].loading = session[t].loading
        /\ session'[t].holder = session[t].holder /\ session'[t].player = session[t].player
        /\ session'[t].inQueue
             <=> session[t].inQueue /\ t # s /\ ~(Admits(s) /\ t = Head(Rest(s)))
        /\ t \notin Members => session'[t] = session[t]
  <2>1. \A t \in Sessions : t # s /\ t # o => session'[t] = Cleared(s)[t]
    BY <1>2
  <2> QED BY <1>3, <2>1, ClearedFacts
<1>9. /\ QueueInv' /\ LimitInv' /\ RoomInv'
      /\ queued' \in Seq(Sessions) /\ disconnects' \subseteq Accounts
      /\ sessions' \in [Accounts -> Sessions \cup {NoSession}]
  <2>1. \A t \in Sessions :
          session'[t].inQueue
            <=> session[t].inQueue /\ t # s /\ ~(Admits(s) /\ t = Head(Rest(s)))
    <3>1. o \in Sessions => ~session'[o].inQueue /\ ~session[o].inQueue
      BY <1>7 DEF Destroyed, Inv, MapsInv, o, Sessions, NoSession
    <3> QED BY <1>6, <1>8, <3>1
  <2>2. \A t \in Members : t # s => session'[t].account = session[t].account
    BY <1>3, <1>8 DEF Members, Sessions, NoSession
  <2> QED BY <1>1, <1>3, <2>1, <2>2, Removed DEF s
<1>10. TypeOK'
  <2>1. session' \in [Sessions -> SessionSet]
    <3>1. \A t \in Sessions : session'[t] \in SessionSet
      BY <1>6, <1>7, <1>8
    <3>2. session' = [t \in Sessions |-> session'[t]]
      BY <1>2
    <3> QED BY <3>1, <3>2
  <2>2. offline \in [Accounts -> Sessions \cup {NoSession}]
    BY DEF Inv, TypeOK
  <2>3. offline' \in [Accounts -> Sessions \cup {NoSession}]
    BY <1>1, <1>3, <2>2
  <2> QED BY <1>1, <1>9, <2>1, <2>3 DEF Inv, TypeOK, SessionSet
<1>11. /\ sessions'[a] = NoSession /\ offline'[a] = s
       /\ \A b \in Accounts : b # a => sessions'[b] = sessions[b] /\ offline'[b] = offline[b]
  BY <1>1 DEF Inv, TypeOK
<1>12. ASSUME NEW b \in Accounts, b # a
       PROVE  /\ sessions[b] # NoSession =>
                   sessions[b] \in Sessions /\ sessions[b] # s /\ sessions[b] # o
              /\ offline[b] # NoSession =>
                   offline[b] \in Sessions /\ offline[b] # s /\ offline[b] # o
  BY <1>3, <1>12 DEF Inv, TypeOK
<1>13. HandedInv'
  <2>1. ASSUME NEW t \in Sessions, In(t, addSessQueue)
        PROVE  /\ t <= created /\ Fresh(session'[t])
               /\ \A b \in Accounts : sessions'[b] # t /\ offline'[b] # t
    <3>1. t # s /\ t # o /\ t \notin Members /\ t # NoSession
      BY <1>3, <2>1 DEF Inv, HandedInv, Members, Sessions, NoSession
    <3> QED BY <1>8, <1>11, <2>1, <3>1 DEF Inv, HandedInv
  <2> QED BY <1>1, <2>1 DEF Inv, HandedInv
<1>14. MapsInv'
  <2>1. ASSUME NEW b \in Accounts
        PROVE  /\ sessions'[b] # NoSession =>
                    session'[sessions'[b]].account = b /\ session'[sessions'[b]].socket # "none"
               /\ offline'[b] # NoSession =>
                    /\ session'[offline'[b]].account = b /\ session'[offline'[b]].socket = "none"
                    /\ ~session'[offline'[b]].inQueue /\ session'[offline'[b]].holder = NoChar
    <3>1. CASE b = a
      BY <1>6, <1>11, <3>1
    <3>2. CASE b # a
      BY <1>8, <1>11, <1>12, <3>2 DEF Inv, MapsInv
    <3> QED BY <3>1, <3>2
  <2> QED BY <2>1 DEF MapsInv
<1>15. PlacedInv'
  <2>1. ASSUME NEW t \in Sessions
        PROVE  /\ t > created => session'[t] = Destroyed
               /\ session'[t] = Destroyed
                  \/ /\ session'[t].account \in Accounts
                     /\ \/ In(t, addSessQueue)
                        \/ sessions'[session'[t].account] = t
                        \/ offline'[session'[t].account] = t
    <3>1. CASE t = s
      <4>1. session[s] # Destroyed
        BY <1>3, AccountsAssumption DEF Destroyed
      <4> QED BY <1>3, <1>6, <1>11, <3>1, <4>1 DEF Inv, PlacedInv
    <3>2. CASE t # s /\ t = o
      BY <1>7, <3>2
    <3>3. CASE t # s /\ t # o
      <4>1. CASE session[t] = Destroyed
        <5>1. t \notin Members
          BY <4>1, AccountsAssumption DEF Destroyed, Members, Inv, MapsInv, Sessions, NoSession
        <5> QED BY <1>8, <3>3, <4>1, <5>1
      <4>2. CASE session[t] # Destroyed
        <5>1. /\ ~(t > created) /\ session[t].account \in Accounts
              /\ \/ In(t, addSessQueue)
                 \/ sessions[session[t].account] = t
                 \/ offline[session[t].account] = t
          BY <4>2 DEF Inv, PlacedInv
        <5>2. sessions[session[t].account] = t \/ offline[session[t].account] = t
              => session[t].account # a
          BY <3>3 DEF s, o
        <5> QED BY <1>8, <1>11, <3>3, <5>1, <5>2
      <4> QED BY <4>1, <4>2
    <3> QED BY <3>1, <3>2, <3>3
  <2> QED BY <1>1, <2>1 DEF PlacedInv
<1>16. LoopInv'
  BY <1>1, <1>11 DEF Inv, LoopInv, Has
<1>17. LoginInv'
  <2>1. ASSUME NEW t \in Sessions
        PROVE  /\ session'[t].holder # NoChar =>
                    session'[t].player = NoChar /\ session'[t].loading
               /\ session'[t].inQueue =>
                    session'[t].holder = NoChar /\ session'[t].player = NoChar
               /\ session'[t].kicked => session'[t].socket # "open"
    <3>1. CASE t = s
      BY <1>6, <3>1
    <3>2. CASE t # s /\ t = o
      BY <1>7, <3>2 DEF Destroyed
    <3>3. CASE t # s /\ t # o
      BY <1>8, <3>3 DEF Inv, LoginInv
    <3> QED BY <3>1, <3>2, <3>3
  <2> QED BY <2>1 DEF LoginInv
<1>18. CharInv' /\ OneInv' /\ KickedInv'
  <2>1. CharInv'
    BY <1>8, <1>11, <1>12 DEF Inv, CharInv
  <2>2. OneInv'
    BY <1>1, <1>8, <1>11, <1>12 DEF Inv, OneInv, Playing, Doomed
  <2>3. KickedInv'
    BY <1>1, <1>4, <1>8, <1>11, <1>12 DEF Inv, KickedInv, Stopped
  <2> QED BY <2>1, <2>2, <2>3
<1> QED BY <1>9, <1>10, <1>13, <1>14, <1>15, <1>16, <1>17, <1>18 DEF Inv

LEMMA DropSessionStep ==
  ASSUME Inv, NEW s \in Sessions, DropSession(s)
  PROVE  Inv'
<1> DEFINE a == session[s].account
<1>1. /\ s = current
      /\ queued' = AfterRemove(s)
      /\ disconnects' = disconnects \cup Remembered(s)
      /\ sessions' = [sessions EXCEPT ![a] = NoSession]
      /\ online' = [online EXCEPT ![a] = IF offline[a] = NoSession THEN 0 ELSE @]
      /\ session' = [Cleared(s) EXCEPT ![s] = Destroyed]
      /\ current' = NoSession
      /\ UNCHANGED <<created, addSessQueue, offline, phase, todo, shutdown>>
  BY DEF DropSession
<1>2. /\ a \in Accounts /\ sessions[a] = s /\ a \notin todo /\ phase = "sessions"
      /\ ~In(s, addSessQueue) /\ session[s] # Destroyed
      /\ \A b \in Accounts : offline[b] # s /\ (sessions[b] = s => b = a)
      /\ s \in Members /\ s # NoSession
  BY <1>1, CurrentFacts DEF Members, Sessions, NoSession
<1> HIDE DEF a
<1>3. session \in [Sessions -> SessionSet] /\ Destroyed \in SessionSet
  BY SessionType, NumbersAssumption DEF Inv, SessionSet, Destroyed, NoChar
<1>4. session'[s] = Destroyed /\ \A t \in Sessions : t # s => session'[t] = Cleared(s)[t]
  BY <1>1 DEF Cleared
<1>5. \A t \in Sessions : t # s =>
        /\ session'[t] \in SessionSet
        /\ session'[t].account = session[t].account /\ session'[t].socket = session[t].socket
        /\ session'[t].kicked = session[t].kicked /\ session'[t].loading = session[t].loading
        /\ session'[t].holder = session[t].holder /\ session'[t].player = session[t].player
        /\ session'[t].inQueue
             <=> session[t].inQueue /\ t # s /\ ~(Admits(s) /\ t = Head(Rest(s)))
        /\ t \notin Members => session'[t] = session[t]
  BY <1>2, <1>4, ClearedFacts
<1>6. /\ QueueInv' /\ LimitInv' /\ RoomInv'
      /\ queued' \in Seq(Sessions) /\ disconnects' \subseteq Accounts
      /\ sessions' \in [Accounts -> Sessions \cup {NoSession}]
  <2>1. \A t \in Sessions :
          session'[t].inQueue
            <=> session[t].inQueue /\ t # s /\ ~(Admits(s) /\ t = Head(Rest(s)))
    BY <1>4, <1>5 DEF Destroyed
  <2>2. \A t \in Members : t # s => session'[t].account = session[t].account
    BY <1>5 DEF Members
  <2> QED BY <1>1, <1>2, <2>1, <2>2, Removed
<1>7. TypeOK'
  <2>1. session' \in [Sessions -> SessionSet]
    <3>1. \A t \in Sessions : session'[t] \in SessionSet
      BY <1>3, <1>4, <1>5
    <3>2. session' = [t \in Sessions |-> session'[t]]
      BY <1>1 DEF Cleared
    <3> QED BY <3>1, <3>2
  <2>2. online \in [Accounts -> 0 .. 1]
    BY DEF Inv, TypeOK
  <2>3. online' \in [Accounts -> 0 .. 1]
    BY <1>1, <1>2, <2>2
  <2> QED BY <1>1, <1>6, <2>1, <2>3 DEF Inv, TypeOK, SessionSet
<1>8. /\ sessions'[a] = NoSession
      /\ \A b \in Accounts : b # a => sessions'[b] = sessions[b]
  BY <1>1, <1>2 DEF Inv, TypeOK
<1>9. ASSUME NEW b \in Accounts
      PROVE  /\ sessions'[b] # NoSession =>
                  b # a /\ sessions'[b] = sessions[b] /\ sessions[b] \in Sessions
                  /\ sessions[b] # s
             /\ offline[b] # NoSession => offline[b] \in Sessions /\ offline[b] # s
  BY <1>2, <1>8 DEF Inv, TypeOK
<1>10. HandedInv'
  <2>1. ASSUME NEW t \in Sessions, In(t, addSessQueue)
        PROVE  /\ t <= created /\ Fresh(session'[t])
               /\ \A b \in Accounts : sessions'[b] # t /\ offline[b] # t
    <3>1. t # s /\ t \notin Members /\ t # NoSession
      BY <1>2, <2>1 DEF Inv, HandedInv, Members, Sessions, NoSession
    <3> QED BY <1>5, <1>8, <2>1, <3>1 DEF Inv, HandedInv
  <2> QED BY <1>1, <2>1 DEF Inv, HandedInv
<1>11. MapsInv'
  BY <1>1, <1>5, <1>9 DEF Inv, MapsInv
<1>12. PlacedInv'
  <2>1. ASSUME NEW t \in Sessions
        PROVE  /\ t > created => session'[t] = Destroyed
               /\ session'[t] = Destroyed
                  \/ /\ session'[t].account \in Accounts
                     /\ \/ In(t, addSessQueue)
                        \/ sessions'[session'[t].account] = t
                        \/ offline[session'[t].account] = t
    <3>1. CASE t = s
      BY <1>4, <3>1
    <3>2. CASE t # s
      <4>1. CASE session[t] = Destroyed
        <5>1. t \notin Members
          BY <4>1, AccountsAssumption DEF Destroyed, Members, Inv, MapsInv, Sessions, NoSession
        <5> QED BY <1>5, <3>2, <4>1, <5>1
      <4>2. CASE session[t] # Destroyed
        <5>1. /\ ~(t > created) /\ session[t].account \in Accounts
              /\ \/ In(t, addSessQueue)
                 \/ sessions[session[t].account] = t
                 \/ offline[session[t].account] = t
          BY <4>2 DEF Inv, PlacedInv
        <5>2. sessions[session[t].account] = t => session[t].account # a
          BY <1>2, <3>2
        <5> QED BY <1>5, <1>8, <3>2, <5>1, <5>2
      <4> QED BY <4>1, <4>2
    <3> QED BY <3>1, <3>2
  <2> QED BY <1>1, <2>1 DEF PlacedInv
<1>13. LoopInv'
  BY <1>1, <1>2, <1>8 DEF Inv, LoopInv, Has
<1>14. LoginInv'
  <2>1. ASSUME NEW t \in Sessions
        PROVE  /\ session'[t].holder # NoChar =>
                    session'[t].player = NoChar /\ session'[t].loading
               /\ session'[t].inQueue =>
                    session'[t].holder = NoChar /\ session'[t].player = NoChar
               /\ session'[t].kicked => session'[t].socket # "open"
    <3>1. CASE t = s
      BY <1>4, <3>1 DEF Destroyed
    <3>2. CASE t # s
      BY <1>5, <3>2 DEF Inv, LoginInv
    <3> QED BY <3>1, <3>2
  <2> QED BY <2>1 DEF LoginInv
<1>15. CharInv' /\ OneInv' /\ KickedInv'
  <2>1. CharInv'
    BY <1>1, <1>5, <1>9 DEF Inv, CharInv
  <2>2. OneInv'
    BY <1>1, <1>5, <1>9 DEF Inv, OneInv, Playing, Doomed
  <2>3. KickedInv'
    BY <1>1, <1>5, <1>9 DEF Inv, KickedInv, Stopped
  <2> QED BY <2>1, <2>2, <2>3
<1> QED BY <1>6, <1>7, <1>10, <1>11, <1>12, <1>13, <1>14, <1>15 DEF Inv

-----------------------------------------------------------------------------
(* The steps that add a session to m_sessions.                             *)

\* Session s is added for account a, whose session so far, if any, has left: q is
\* what is left of the queue, others are the active sessions that stay, of n.
Replaces(a, s, others, q, remembered, n) ==
  LET M == Members \ {sessions[a]}
  IN  /\ s \notin Members /\ others \subseteq M
      /\ n = Cardinality(M) /\ Cardinality(others) = n - Len(q)
      /\ \A t \in M : t \in others <=> ~In(t, q)
      /\ Distinct(q) /\ \A t \in Sessions : In(t, q) => t \in M
      /\ remembered \subseteq Accounts /\ (~Tolerance => remembered = {})

\* The limit and the room, before s is added.
HoldsFor(others, q, n) ==
  /\ Limit > 0 /\ ~Tolerance /\ shutdown \in {"running", "stopping"} =>
       Cardinality(Bound(others)) <= Limit
  /\ q # <<>> => Limit > 0 /\ n - Len(q) >= Limit

\* What the step makes of the queue and of the sessions.
Adds(a, s, q, remembered, waits) ==
  /\ queued' = IF waits THEN Append(q, s) ELSE q
  /\ sessions' = [sessions EXCEPT ![a] = s]
  /\ disconnects' = remembered /\ shutdown' = shutdown
  /\ \A t \in Members \ {sessions[a]} : session'[t].account = session[t].account
  /\ session'[s].account = a
  /\ session'[s].inQueue <=> waits
  /\ \A t \in Sessions : In(t, q) => session'[t].inQueue
  /\ shutdown \in {"running", "stopping"} =>
       \A t \in Sessions : t # s /\ session'[t].inQueue => In(t, q)

\* The queue, the limit and the room hold when it was added.
LEMMA Admitted ==
  ASSUME Inv, NEW a \in Accounts, NEW s \in Sessions, NEW others, NEW q \in Seq(Sessions),
         NEW remembered, NEW n \in Nat,
         Replaces(a, s, others, q, remembered, n), HoldsFor(others, q, n),
         Adds(a, s, q, remembered, MustWait(a, n, remembered))
  PROVE  /\ QueueInv' /\ LimitInv' /\ RoomInv'
         /\ queued' \in Seq(Sessions) /\ disconnects' \subseteq Accounts
         /\ sessions' \in [Accounts -> Sessions \cup {NoSession}]
<1> DEFINE waits == MustWait(a, n, remembered)
           M == Members \ {sessions[a]}
<1>0. /\ s \notin Members /\ others \subseteq M
      /\ n = Cardinality(M) /\ Cardinality(others) = n - Len(q)
      /\ \A t \in M : t \in others <=> ~In(t, q)
      /\ Distinct(q) /\ \A t \in Sessions : In(t, q) => t \in M
      /\ remembered \subseteq Accounts /\ (~Tolerance => remembered = {})
      /\ waits \in BOOLEAN
  BY DEF Replaces, MustWait
<1>13. /\ queued' = IF waits THEN Append(q, s) ELSE q
       /\ sessions' = [sessions EXCEPT ![a] = s]
       /\ disconnects' = remembered /\ shutdown' = shutdown
       /\ \A t \in M : session'[t].account = session[t].account
       /\ session'[s].account = a
       /\ session'[s].inQueue <=> waits
       /\ \A t \in Sessions : In(t, q) => session'[t].inQueue
       /\ shutdown \in {"running", "stopping"} =>
            \A t \in Sessions : t # s /\ session'[t].inQueue => In(t, q)
  BY DEF Adds
<1> HIDE DEF waits
<1>1. sessions \in [Accounts -> Sessions \cup {NoSession}] /\ NoSession \notin Sessions
  BY DEF Inv, TypeOK, Sessions, NoSession
<1>2. \A b \in Accounts : sessions'[b] = IF b = a THEN s ELSE sessions[b]
  BY <1>13, <1>1
<1>3. Members' = M \cup {s}
  <2>1. \A b \in Accounts : b # a /\ sessions[b] # NoSession => sessions[b] # sessions[a]
    BY DEF Inv, MapsInv
  <2> QED BY <1>1, <1>2, <2>1 DEF Members
<1>4. ~In(s, q) /\ s \notin M
  BY <1>0
<1>5. /\ queued' \in Seq(Sessions) /\ Distinct(queued')
      /\ \A x : In(x, queued') <=> In(x, q) \/ (waits /\ x = s)
      /\ Len(queued') = Len(q) + (IF waits THEN 1 ELSE 0)
  <2>1. CASE waits
    BY <1>0, <1>13, <1>4, <2>1, AppendFacts
  <2>2. CASE ~waits
    BY <1>0, <1>13, <2>2
  <2> QED BY <1>0, <2>1, <2>2
<1> HIDE DEF M
<1>6. QueueInv'
  <2>1. \A t \in Sessions : In(t, queued') => session'[t].inQueue /\ t \in Members'
    BY <1>0, <1>13, <1>3, <1>5 DEF M
  <2>2. shutdown \in {"running", "stopping"} =>
          \A t \in Sessions : session'[t].inQueue => In(t, queued')
    BY <1>13, <1>5
  <2> QED BY <1>13, <1>5, <2>1, <2>2 DEF QueueInv, Members
<1>7. Active' = IF waits THEN others ELSE others \cup {s}
  <2>1. Active' = {t \in Members' : ~In(t, queued')}
    BY DEF Active, Members, Queued, In
  <2>2. \A t \in M : t \in others <=> ~In(t, q)
    BY <1>0
  <2>3. others \subseteq M
    BY <1>0
  <2> QED BY <1>3, <1>4, <1>5, <2>1, <2>2, <2>3
<1>8. IsFiniteSet(M) /\ IsFiniteSet(others) /\ Members \subseteq Sessions
  <2>1. M \in SUBSET Sessions /\ others \in SUBSET Sessions
    BY <1>0 DEF M, Members
  <2> QED BY <2>1, AccountsFinite, FS_Subset DEF Members
<1>9. LimitInv'
  <2>1. ASSUME Limit > 0, ~Tolerance, shutdown \in {"running", "stopping"}
        PROVE  Cardinality({t \in Active' : session'[t].account \notin Exempt}) <= Limit
    <3> DEFINE B == {t \in Active' : session'[t].account \notin Exempt}
    <3>1. \A t \in others : session'[t].account = session[t].account
      BY <1>0, <1>13
    <3>2. CASE waits \/ a \in Exempt
      <4>1. ASSUME NEW t \in Active', session'[t].account \notin Exempt
            PROVE  t \in others
        BY <1>7, <1>13, <3>2, <4>1
      <4>2. others \subseteq Active'
        BY <1>7
      <4>3. B = Bound(others)
        BY <3>1, <4>1, <4>2 DEF Bound
      <4> QED BY <2>1, <4>3 DEF HoldsFor
    <3>3. CASE ~waits /\ a \notin Exempt
      <4>1. n < Limit
        BY <1>0, <2>1, <3>3, NumbersAssumption DEF MustWait, waits
      <4>2. B \in SUBSET (M \cup {s})
        BY <1>0, <1>7
      <4>3. IsFiniteSet(M \cup {s}) /\ Cardinality(M \cup {s}) = n + 1
        <5>1. s \notin M /\ Cardinality(M) = n
          BY <1>0, <1>4
        <5> QED BY <1>8, <5>1, FS_AddElement
      <4>4. Cardinality(B) <= n + 1 /\ Cardinality(B) \in Nat
        BY <4>2, <4>3, FS_Subset, FS_CardinalityType
      <4>5. Cardinality(B) <= Limit
        <5> HIDE DEF B
        <5> QED BY <4>1, <4>4, NumbersAssumption
      <4> QED BY <4>5
    <3> QED BY <3>2, <3>3
  <2> QED BY <1>0, <1>13, <2>1 DEF LimitInv, LimitHolds
<1>10. Cardinality(Has(sessions')) = n + 1
  <2>1. Cardinality(Members) = Cardinality(Has(sessions)) /\ IsFiniteSet(Members)
    BY MembersCount DEF Inv
  <2>2. Cardinality(M) = IF sessions[a] \in Members THEN Cardinality(Members) - 1
                         ELSE Cardinality(Members)
    BY <2>1, FS_RemoveElement DEF M
  <2>3. sessions[a] \in Members <=> sessions[a] # NoSession
    BY <1>1 DEF Members
  <2>4. Cardinality(Has(sessions')) = IF sessions[a] = NoSession THEN Cardinality(Has(sessions)) + 1
                                      ELSE Cardinality(Has(sessions))
    BY <1>13, HasFacts DEF Inv
  <2>5. Cardinality(Has(sessions)) \in Nat /\ n = Cardinality(M)
    BY <1>0, AccountsFinite, FS_CardinalityType
  <2> QED BY <2>1, <2>2, <2>3, <2>4, <2>5
<1>11. RoomInv'
  <2>1. Len(q) \in Nat /\ (q = <<>> <=> Len(q) = 0)
    OBVIOUS
  <2>2. ActiveCount' = n + 1 - Len(queued')
    BY <1>10 DEF ActiveCount, Has
  <2>3. CASE waits
    <3>1. Limit > 0 /\ n >= Limit
      BY <2>3 DEF MustWait, waits
    <3>2. n - Len(q) >= Limit
      BY <2>1, <3>1 DEF HoldsFor
    <3>3. ActiveCount' = n - Len(q)
      BY <1>5, <2>1, <2>2, <2>3
    <3> QED BY <3>1, <3>2, <3>3 DEF RoomInv
  <2>4. CASE ~waits
    <3>1. queued' = q /\ ActiveCount' = n + 1 - Len(q)
      BY <1>13, <2>2, <2>4
    <3> QED BY <2>1, <3>1, NumbersAssumption DEF RoomInv, HoldsFor
  <2> QED BY <2>3, <2>4
<1>12. sessions' \in [Accounts -> Sessions \cup {NoSession}]
  BY <1>13, <1>1
<1> QED BY <1>0, <1>13, <1>5, <1>6, <1>9, <1>11, <1>12

LEMMA AddSessionStep == Inv /\ AddSession => Inv'
<1> SUFFICES ASSUME Inv, AddSession PROVE Inv'
  OBVIOUS
<1> DEFINE s == Head(addSessQueue)
           a == session[s].account
           waits == MustWait(a, Cardinality(Has(sessions)), disconnects)
<1>1. /\ s \in Sessions /\ In(s, addSessQueue) /\ Fresh(session[s]) /\ a \in Accounts
      /\ s <= created
      /\ \A b \in Accounts : sessions[b] # s /\ offline[b] # s
      /\ Tail(addSessQueue) \in Seq(Sessions) /\ Distinct(Tail(addSessQueue))
      /\ \A x : In(x, Tail(addSessQueue)) <=> In(x, addSessQueue) /\ x # s
  BY HeadFacts DEF AddSession, Fresh
<1>2. /\ phase = "add" /\ sessions[a] = NoSession
      /\ sessions' = [sessions EXCEPT ![a] = s]
      /\ queued' = IF waits THEN Append(queued, s) ELSE queued
      /\ session' = IF waits THEN [session EXCEPT ![s].inQueue = TRUE] ELSE session
      /\ addSessQueue' = Tail(addSessQueue)
      /\ UNCHANGED <<created, offline, disconnects, online, phase, todo, current, shutdown>>
  BY DEF AddSession, world
<1> HIDE DEF s, a
<1>3. waits \in BOOLEAN
  BY DEF MustWait
<1>4. session \in [Sessions -> SessionSet] /\ s # NoSession
  BY <1>1, SessionType DEF Inv, Sessions, NoSession
<1>5. session' \in [Sessions -> SessionSet]
  BY <1>1, <1>2, <1>4, FieldTypes
<1>6. /\ session'[s].account = a /\ session'[s].socket = session[s].socket
      /\ session'[s].holder = NoChar /\ session'[s].player = NoChar /\ ~session'[s].kicked
      /\ session'[s].inQueue <=> waits
      /\ \A t \in Sessions : t # s => session'[t] = session[t]
  <2> HIDE DEF waits
  <2>1. CASE waits
    <3>1. session'[s] = [session[s] EXCEPT !.inQueue = TRUE]
          /\ \A t \in Sessions : t # s => session'[t] = session[t]
      BY <1>1, <1>2, <1>4, <2>1
    <3>2. session[s] \in SessionSet
      BY <1>1, <1>4
    <3> QED BY <1>1, <2>1, <3>1, <3>2 DEF SessionSet, Fresh, a
  <2>2. CASE ~waits
    BY <1>1, <1>2, <2>2 DEF Fresh, a
  <2> QED BY <2>1, <2>2
<1>7. /\ QueueInv' /\ LimitInv' /\ RoomInv'
      /\ queued' \in Seq(Sessions) /\ disconnects' \subseteq Accounts
      /\ sessions' \in [Accounts -> Sessions \cup {NoSession}]
  <2>1. Members \ {sessions[a]} = Members /\ s \notin Members
    BY <1>1, <1>2 DEF Members, Sessions, NoSession
  <2>2. /\ Active = {t \in Members : ~In(t, queued)}
        /\ Cardinality(Active) = Cardinality(Has(sessions)) - Len(queued)
    BY ActiveFacts DEF Inv, ActiveCount
  <2>3. Cardinality(Members) = Cardinality(Has(sessions)) /\ Cardinality(Has(sessions)) \in Nat
    BY MembersCount, AccountsFinite, FS_CardinalityType DEF Inv
  <2>4. queued \in Seq(Sessions) /\ Distinct(queued) /\ disconnects \subseteq Accounts
        /\ (~Tolerance => disconnects = {})
    BY DEF Inv, TypeOK, QueueInv, LimitInv
  <2>5. Limit > 0 /\ ~Tolerance /\ shutdown \in {"running", "stopping"} =>
          Cardinality(Bound(Active)) <= Limit
    BY DEF Inv, LimitInv, LimitHolds, Bound
  <2>6. queued # <<>> => Limit > 0 /\ Cardinality(Has(sessions)) - Len(queued) >= Limit
    BY DEF Inv, RoomInv, ActiveCount
  <2>7. /\ \A t \in Sessions : In(t, queued) => t \in Members /\ t # s /\ session'[t].inQueue
        /\ shutdown \in {"running", "stopping"} =>
             \A t \in Sessions : t # s /\ session'[t].inQueue => In(t, queued)
    BY <1>6, <2>1 DEF Inv, QueueInv, Members
  <2>8. \A t \in Members : session'[t].account = session[t].account
    BY <1>6, <2>1 DEF Members
  <2>9. Active \in SUBSET (Members \ {sessions[a]})
        /\ \A t \in Members \ {sessions[a]} : t \in Active <=> ~In(t, queued)
    BY <2>1, <2>2
  <2>10. disconnects' = disconnects /\ shutdown' = shutdown
         /\ sessions' = [sessions EXCEPT ![a] = s]
         /\ queued' = IF waits THEN Append(queued, s) ELSE queued
    BY <1>2
  <2> DEFINE n == Cardinality(Has(sessions))
  <2>11. /\ n \in Nat /\ n = Cardinality(Members \ {sessions[a]})
         /\ Cardinality(Active) = n - Len(queued)
         /\ queued # <<>> => Limit > 0 /\ n - Len(queued) >= Limit
         /\ waits = MustWait(a, n, disconnects)
    BY <2>1, <2>2, <2>3, <2>6
  <2> HIDE DEF n
  <2>12. Replaces(a, s, Active, queued, disconnects, n)
    BY <2>1, <2>4, <2>7, <2>9, <2>11 DEF Replaces
  <2>13. HoldsFor(Active, queued, n)
    BY <2>5, <2>11 DEF HoldsFor
  <2>14. Adds(a, s, queued, disconnects, MustWait(a, n, disconnects))
    BY <1>6, <2>1, <2>7, <2>8, <2>10, <2>11 DEF Adds
  <2> QED BY <1>1, <2>4, <2>11, <2>12, <2>13, <2>14, Admitted
<1> HIDE DEF waits
<1>8. TypeOK'
  BY <1>1, <1>2, <1>5, <1>7 DEF Inv, TypeOK, SessionSet
<1>9. /\ sessions'[a] = s
      /\ \A b \in Accounts : b # a => sessions'[b] = sessions[b]
  BY <1>1, <1>2 DEF Inv, TypeOK
<1>10. \A b \in Accounts : /\ sessions[b] # NoSession =>
                                sessions[b] \in Sessions /\ sessions[b] # s /\ b # a
                           /\ offline[b] # NoSession => offline[b] \in Sessions /\ offline[b] # s
  BY <1>1, <1>2 DEF Inv, TypeOK
<1>11. HandedInv'
  BY <1>1, <1>2, <1>6, <1>9 DEF Inv, HandedInv
<1>12. MapsInv'
  <2>1. session[s].socket # "none"
    BY <1>1 DEF Fresh
  <2> QED BY <1>2, <1>6, <1>9, <1>10, <2>1 DEF Inv, MapsInv
<1>13. PlacedInv'
  <2>1. ASSUME NEW t \in Sessions
        PROVE  /\ t > created => session'[t] = Destroyed
               /\ session'[t] = Destroyed
                  \/ /\ session'[t].account \in Accounts
                     /\ \/ In(t, addSessQueue')
                        \/ sessions'[session'[t].account] = t
                        \/ offline[session'[t].account] = t
    <3>1. CASE t = s
      BY <1>1, <1>6, <1>9, <3>1 DEF Inv, TypeOK, Sessions
    <3>2. CASE t # s
      <4>1. session'[t] = session[t]
        BY <1>6, <3>2
      <4>2. sessions[session[t].account] = t => session[t].account # a
        BY <1>2 DEF Sessions, NoSession
      <4> QED BY <1>1, <1>2, <1>9, <3>2, <4>1, <4>2 DEF Inv, PlacedInv
    <3> QED BY <3>1, <3>2
  <2> QED BY <1>2, <2>1 DEF PlacedInv
<1>14. LoopInv'
  BY <1>2 DEF Inv, LoopInv
<1>15. LoginInv'
  BY <1>6 DEF Inv, LoginInv
<1>16. CharInv' /\ OneInv' /\ KickedInv'
  <2>1. CharInv'
    BY <1>2, <1>6, <1>9, <1>10 DEF Inv, CharInv
  <2>2. OneInv'
    BY <1>2, <1>6, <1>9, <1>10 DEF Inv, OneInv, Playing, Doomed
  <2>3. KickedInv'
    BY <1>2, <1>6, <1>9, <1>10 DEF Inv, KickedInv, Stopped
  <2> QED BY <2>1, <2>2, <2>3
<1> QED BY <1>7, <1>8, <1>11, <1>12, <1>13, <1>14, <1>15, <1>16 DEF Inv

LEMMA AddSessionInsteadStep == Inv /\ AddSessionInstead => Inv'
<1> SUFFICES ASSUME Inv, AddSessionInstead PROVE Inv'
  OBVIOUS
<1> DEFINE s == Head(addSessQueue)
           a == session[s].account
           old == sessions[a]
           o == offline[a]
           stays == StaysInWorld(old)
           remembered == disconnects \cup Remembered(old)
           waits == MustWait(a, Cardinality(Has(sessions)) - 1, remembered)
<1>1. /\ s \in Sessions /\ In(s, addSessQueue) /\ Fresh(session[s]) /\ a \in Accounts
      /\ s <= created
      /\ \A b \in Accounts : sessions[b] # s /\ offline[b] # s
      /\ Tail(addSessQueue) \in Seq(Sessions) /\ Distinct(Tail(addSessQueue))
      /\ \A x : In(x, Tail(addSessQueue)) <=> In(x, addSessQueue) /\ x # s
  BY HeadFacts DEF AddSessionInstead, Fresh
<1>2. /\ phase = "add" /\ old # NoSession
      /\ sessions' = [sessions EXCEPT ![a] = s]
      /\ offline' = [offline EXCEPT ![a] = IF stays THEN old ELSE @]
      /\ disconnects' = remembered
      /\ queued' = IF waits THEN Append(AfterRemove(old), s) ELSE AfterRemove(old)
      /\ addSessQueue' = Tail(addSessQueue)
      /\ UNCHANGED <<created, online, phase, todo, current, shutdown>>
  BY DEF AddSessionInstead, world
<1>3. session' = [t \in Sessions |->
        IF t = old THEN IF stays THEN [session[t] EXCEPT !.socket = "none"] ELSE Destroyed
        ELSE IF t = s THEN [session[t] EXCEPT !.inQueue = waits]
        ELSE IF stays /\ t = o THEN Destroyed
        ELSE Cleared(old)[t]]
  BY DEF AddSessionInstead
<1>4. /\ old \in Sessions /\ session[old].account = a /\ ~In(old, addSessQueue) /\ old # s
      /\ \A b \in Accounts : offline[b] # old /\ (sessions[b] = old => b = a)
      /\ \A b \in Accounts : sessions[b] # NoSession => sessions[b] # o
      /\ \A b \in Accounts : offline[b] # NoSession /\ offline[b] = o => b = a
      /\ ~In(o, addSessQueue) \/ o \notin Sessions
      /\ old \in Members /\ old # NoSession
  <2>1. a \in Accounts /\ old # NoSession /\ old # s
    BY <1>1, <1>2
  <2> QED BY <2>1, OwnerFacts DEF Inv, MapsInv, Members, Sessions, NoSession
<1>5. stays \in BOOLEAN /\ waits \in BOOLEAN
      /\ (stays => /\ session[old].player # NoChar /\ session[old].holder = NoChar
                   /\ ~session[old].inQueue /\ ~session[old].kicked /\ shutdown = "running")
  <2>1. stays => session[old].player # NoChar /\ ~session[old].kicked /\ shutdown = "running"
    BY DEF StaysInWorld, Stopped
  <2>2. stays \in BOOLEAN /\ waits \in BOOLEAN
    BY DEF StaysInWorld, MustWait
  <2> QED BY <1>4, <2>1, <2>2 DEF Inv, LoginInv
<1> HIDE DEF s, a, old, o, stays, waits, remembered
<1>6. session \in [Sessions -> SessionSet] /\ Destroyed \in SessionSet /\ s # NoSession
  BY <1>1, SessionType, NumbersAssumption
     DEF Inv, SessionSet, Destroyed, NoChar, Sessions, NoSession
<1>7. /\ session'[old] \in SessionSet /\ ~session'[old].inQueue
      /\ ~stays => session'[old] = Destroyed
      /\ stays => /\ session'[old].account = a /\ session'[old].socket = "none"
                  /\ session'[old].holder = NoChar
                  /\ session'[old].player = session[old].player
                  /\ ~session'[old].kicked
  <2>1. CASE stays
    <3>1. session'[old] = [session[old] EXCEPT !.socket = "none"]
      BY <1>3, <1>4, <2>1
    <3>2. session[old] \in SessionSet
      BY <1>4, <1>6
    <3> QED BY <1>4, <1>5, <2>1, <3>1, <3>2 DEF SessionSet
  <2>2. CASE ~stays
    <3>1. session'[old] = Destroyed
      BY <1>3, <1>4, <2>2
    <3> QED BY <1>6, <2>2, <3>1 DEF Destroyed
  <2> QED BY <2>1, <2>2
<1>8. /\ session'[s] \in SessionSet
      /\ session'[s].account = a /\ session'[s].socket # "none" /\ ~session'[s].kicked
      /\ session'[s].holder = NoChar /\ session'[s].player = NoChar
      /\ session'[s].inQueue <=> waits
  <2>1. session'[s] = [session[s] EXCEPT !.inQueue = waits]
    BY <1>1, <1>3, <1>4
  <2>2. session[s] \in SessionSet
    BY <1>1, <1>6
  <2> QED BY <1>1, <1>5, <2>1, <2>2 DEF SessionSet, Fresh, a
<1>9. o \in Sessions /\ stays => session'[o] = Destroyed /\ o # old /\ o # s
  BY <1>1, <1>3, <1>4 DEF o
<1>10. \A t \in Sessions : t # old /\ t # s /\ ~(stays /\ t = o) =>
        /\ session'[t] \in SessionSet
        /\ session'[t].account = session[t].account /\ session'[t].socket = session[t].socket
        /\ session'[t].kicked = session[t].kicked /\ session'[t].loading = session[t].loading
        /\ session'[t].holder = session[t].holder /\ session'[t].player = session[t].player
        /\ session'[t].inQueue
             <=> session[t].inQueue /\ t # old /\ ~(Admits(old) /\ t = Head(Rest(old)))
        /\ t \notin Members => session'[t] = session[t]
  <2>1. \A t \in Sessions : t # old /\ t # s /\ ~(stays /\ t = o) =>
          session'[t] = Cleared(old)[t]
    BY <1>3
  <2> QED BY <1>4, <2>1, ClearedFacts
<1>11. /\ QueueInv' /\ LimitInv' /\ RoomInv'
       /\ queued' \in Seq(Sessions) /\ disconnects' \subseteq Accounts
       /\ sessions' \in [Accounts -> Sessions \cup {NoSession}]
  <2> DEFINE q == AfterRemove(old)
             M == Members \ {sessions[a]}
             n == Cardinality(M)
  <2>1. queued \in Seq(Sessions) /\ Distinct(queued) /\ sessions[a] = old
    BY DEF Inv, TypeOK, QueueInv, old
  <2>2. /\ q \in Seq(Sessions) /\ Distinct(q)
        /\ \A x : In(x, q) <=> In(x, queued) /\ x # old /\ ~(Admits(old) /\ x = Head(Rest(old)))
    BY <2>1, AfterFacts
  <2>3. /\ IsFiniteSet(M) /\ n = Cardinality(Has(sessions)) - 1 /\ n \in Nat
        /\ s \notin Members
    <3>1. Cardinality(Members) = Cardinality(Has(sessions)) /\ IsFiniteSet(Members)
      BY MembersCount DEF Inv
    <3>2. IsFiniteSet(M) /\ n = Cardinality(Members) - 1
      BY <1>4, <2>1, <3>1, FS_RemoveElement
    <3>3. s \notin Members
      BY <1>1 DEF Members
    <3> QED BY <3>1, <3>2, <3>3, FS_CardinalityType
  <2>4. /\ Left(old) \in SUBSET M
        /\ \A t \in M : t \in Left(old) <=> ~In(t, q)
    BY <2>1 DEF Left
  <2>5. Cardinality(Left(old)) = n - Len(q)
    BY <1>4, <2>3, LeftFacts DEF Inv
  <2>6. Limit > 0 /\ ~Tolerance /\ shutdown \in {"running", "stopping"} =>
          Cardinality(Bound(Left(old))) <= Limit
    BY <1>4, LeftLimit DEF Inv
  <2>7. q # <<>> => Limit > 0 /\ n - Len(q) >= Limit
    BY <1>4, <2>5, LeftRoom DEF Inv
  <2>8. /\ remembered \in SUBSET Accounts /\ disconnects \subseteq remembered
        /\ ~Tolerance => remembered = {}
    BY <1>1, <1>4 DEF remembered, Remembered, Inv, TypeOK, LimitInv
  <2>9. \A t \in Sessions : In(t, q) => t \in M /\ session'[t].inQueue
    <3>1. \A t \in Sessions : In(t, q) => t \in Members /\ t # old /\ session[t].inQueue
      BY <2>2 DEF Inv, QueueInv, Members
    <3>2. \A t \in Members : t # s /\ t # o
      BY <1>1, <1>4 DEF Members, Sessions, NoSession
    <3> QED BY <1>10, <2>1, <2>2, <3>1, <3>2
  <2>10. shutdown \in {"running", "stopping"} =>
           \A t \in Sessions : t # s /\ session'[t].inQueue => In(t, q)
    <3>1. ASSUME NEW t \in Sessions, t # s, session'[t].inQueue
          PROVE  session[t].inQueue /\ t # old /\ ~(Admits(old) /\ t = Head(Rest(old)))
      BY <1>7, <1>9, <1>10, <3>1 DEF Destroyed
    <3> QED BY <2>2, <3>1 DEF Inv, QueueInv
  <2>11. \A t \in M : session'[t].account = session[t].account
    <3>1. \A t \in M : t # old /\ t # s /\ t # o /\ t \in Sessions
      BY <1>1, <1>4, <2>1 DEF Members, Sessions, NoSession
    <3> QED BY <1>10, <3>1
  <2>12. /\ disconnects' = remembered /\ shutdown' = shutdown
         /\ sessions' = [sessions EXCEPT ![a] = s]
         /\ queued' = IF waits THEN Append(q, s) ELSE q
         /\ waits = MustWait(a, n, remembered)
    BY <1>2, <2>3 DEF waits
  <2>13. n = Cardinality(M)
    OBVIOUS
  <2> HIDE DEF q, n
  <2>14. Replaces(a, s, Left(old), q, remembered, n)
    BY <2>2, <2>3, <2>4, <2>5, <2>8, <2>9, <2>13 DEF Replaces
  <2>15. HoldsFor(Left(old), q, n)
    BY <2>6, <2>7 DEF HoldsFor
  <2>16. Adds(a, s, q, remembered, MustWait(a, n, remembered))
    BY <1>8, <2>9, <2>10, <2>11, <2>12 DEF Adds
  <2> QED BY <1>1, <2>2, <2>3, <2>14, <2>15, <2>16, Admitted
<1>12. TypeOK'
  <2>1. session' \in [Sessions -> SessionSet]
    <3>1. \A t \in Sessions : session'[t] \in SessionSet
      BY <1>6, <1>7, <1>8, <1>9, <1>10
    <3>2. session' = [t \in Sessions |-> session'[t]]
      BY <1>3
    <3> QED BY <3>1, <3>2
  <2>2. offline \in [Accounts -> Sessions \cup {NoSession}]
    BY DEF Inv, TypeOK
  <2>3. offline' \in [Accounts -> Sessions \cup {NoSession}]
    BY <1>1, <1>2, <1>4, <2>2
  <2> QED BY <1>1, <1>2, <1>11, <2>1, <2>3 DEF Inv, TypeOK, SessionSet
<1>13. /\ sessions'[a] = s /\ offline'[a] = IF stays THEN old ELSE o
       /\ \A b \in Accounts : b # a => sessions'[b] = sessions[b] /\ offline'[b] = offline[b]
  BY <1>1, <1>2 DEF Inv, TypeOK, o
<1>14. ASSUME NEW b \in Accounts, b # a
       PROVE  /\ sessions[b] # NoSession =>
                   /\ sessions[b] \in Sessions /\ sessions[b] # s /\ sessions[b] # o
                   /\ sessions[b] # old
              /\ offline[b] # NoSession =>
                   /\ offline[b] \in Sessions /\ offline[b] # s /\ offline[b] # o
                   /\ offline[b] # old
  BY <1>1, <1>4, <1>14 DEF Inv, TypeOK
<1>15. ~stays /\ o # NoSession => o \in Sessions /\ o # s /\ o # old
  BY <1>1, <1>4 DEF Inv, TypeOK, o
<1>16. HandedInv'
  <2>1. ASSUME NEW t \in Sessions, In(t, addSessQueue), t # s
        PROVE  /\ t <= created /\ Fresh(session'[t])
               /\ \A b \in Accounts : sessions'[b] # t /\ offline'[b] # t
    <3>1. /\ t # old /\ t # o /\ t \notin Members /\ t # NoSession
          /\ t <= created /\ Fresh(session[t])
          /\ \A b \in Accounts : sessions[b] # t /\ offline[b] # t
      BY <1>4, <2>1 DEF Inv, HandedInv, Members, Sessions, NoSession
    <3> QED BY <1>10, <1>13, <2>1, <3>1
  <2> QED BY <1>1, <1>2, <2>1 DEF HandedInv
<1>17. MapsInv'
  <2>1. ASSUME NEW b \in Accounts
        PROVE  /\ sessions'[b] # NoSession =>
                    session'[sessions'[b]].account = b /\ session'[sessions'[b]].socket # "none"
               /\ offline'[b] # NoSession =>
                    /\ session'[offline'[b]].account = b /\ session'[offline'[b]].socket = "none"
                    /\ ~session'[offline'[b]].inQueue /\ session'[offline'[b]].holder = NoChar
    <3>1. CASE b = a /\ stays
      BY <1>7, <1>8, <1>13, <3>1
    <3>2. CASE b = a /\ ~stays
      <4>1. o # NoSession =>
              /\ session[o].account = a /\ session[o].socket = "none"
              /\ ~session[o].inQueue /\ session[o].holder = NoChar
        BY <1>1 DEF Inv, MapsInv, o
      <4> QED BY <1>8, <1>10, <1>13, <1>15, <3>2, <4>1
    <3>3. CASE b # a
      BY <1>10, <1>13, <1>14, <3>3 DEF Inv, MapsInv
    <3> QED BY <3>1, <3>2, <3>3
  <2> QED BY <2>1 DEF MapsInv
<1>18. PlacedInv'
  <2>1. ASSUME NEW t \in Sessions
        PROVE  /\ t > created => session'[t] = Destroyed
               /\ session'[t] = Destroyed
                  \/ /\ session'[t].account \in Accounts
                     /\ \/ In(t, addSessQueue')
                        \/ sessions'[session'[t].account] = t
                        \/ offline'[session'[t].account] = t
    <3>1. CASE t = s
      BY <1>1, <1>8, <1>13, <3>1 DEF Inv, TypeOK, Sessions
    <3>2. CASE t = old
      <4>1. session[old] # Destroyed
        BY <1>1, <1>4, AccountsAssumption DEF Destroyed
      <4>2. ~(old > created)
        BY <1>4, <4>1 DEF Inv, PlacedInv
      <4> QED BY <1>1, <1>7, <1>13, <3>2, <4>2
    <3>3. CASE stays /\ t = o
      BY <1>9, <3>3
    <3>4. CASE t # s /\ t # old /\ ~(stays /\ t = o)
      <4>1. CASE session[t] = Destroyed
        <5>1. t \notin Members
          BY <4>1, AccountsAssumption DEF Destroyed, Members, Inv, MapsInv, Sessions, NoSession
        <5> QED BY <1>10, <3>4, <4>1, <5>1
      <4>2. CASE session[t] # Destroyed
        <5>1. /\ ~(t > created) /\ session[t].account \in Accounts
              /\ \/ In(t, addSessQueue)
                 \/ sessions[session[t].account] = t
                 \/ offline[session[t].account] = t
          BY <4>2 DEF Inv, PlacedInv
        <5>2. /\ sessions[session[t].account] = t => session[t].account # a
              /\ offline[session[t].account] = t =>
                   session[t].account # a \/ (~stays /\ t = o)
          BY <3>4 DEF old, o
        <5> QED BY <1>1, <1>2, <1>10, <1>13, <3>4, <5>1, <5>2
      <4> QED BY <4>1, <4>2
    <3> QED BY <3>1, <3>2, <3>3, <3>4
  <2> QED BY <1>2, <2>1 DEF PlacedInv
<1>19. LoopInv'
  <2>1. current = NoSession /\ todo = {}
    BY <1>2 DEF Inv, LoopInv
  <2> QED BY <1>2, <2>1 DEF LoopInv
<1>20. LoginInv'
  <2>1. ASSUME NEW t \in Sessions
        PROVE  /\ session'[t].holder # NoChar =>
                    session'[t].player = NoChar /\ session'[t].loading
               /\ session'[t].inQueue =>
                    session'[t].holder = NoChar /\ session'[t].player = NoChar
               /\ session'[t].kicked => session'[t].socket # "open"
    <3>1. CASE t = s
      BY <1>8, <3>1
    <3>2. CASE t = old
      BY <1>7, <3>2 DEF Destroyed
    <3>3. CASE stays /\ t = o
      BY <1>9, <3>3 DEF Destroyed
    <3>4. CASE t # s /\ t # old /\ ~(stays /\ t = o)
      BY <1>10, <3>4 DEF Inv, LoginInv
    <3> QED BY <3>1, <3>2, <3>3, <3>4
  <2> QED BY <2>1 DEF LoginInv
<1>21. CharInv' /\ OneInv' /\ KickedInv'
  <2>1. ASSUME NEW b \in Accounts
        PROVE  /\ sessions'[b] # NoSession =>
                    \/ /\ b = a /\ ~session'[sessions'[b]].kicked
                       /\ session'[sessions'[b]].player = NoChar
                       /\ session'[sessions'[b]].holder = NoChar
                    \/ /\ b # a /\ sessions'[b] = sessions[b]
                       /\ session'[sessions[b]].kicked = session[sessions[b]].kicked
                       /\ session'[sessions[b]].player = session[sessions[b]].player
                       /\ session'[sessions[b]].holder = session[sessions[b]].holder
               /\ offline'[b] # NoSession =>
                    \/ /\ b = a /\ shutdown = "running"
                    \/ /\ offline'[b] = offline[b]
                       /\ session'[offline[b]].kicked = session[offline[b]].kicked
                       /\ session'[offline[b]].player = session[offline[b]].player
    <3>1. CASE b = a
      BY <1>5, <1>8, <1>10, <1>13, <1>15, <3>1 DEF o
    <3>2. CASE b # a
      BY <1>10, <1>13, <1>14, <3>2
    <3> QED BY <3>1, <3>2
  <2>2. CharInv'
    BY <1>2, <2>1 DEF Inv, CharInv
  <2>3. OneInv'
    BY <1>2, <2>1 DEF Inv, OneInv, Playing, Doomed
  <2>4. KickedInv'
    BY <1>2, <2>1 DEF Inv, KickedInv, Stopped
  <2> QED BY <2>2, <2>3, <2>4
<1> QED BY <1>11, <1>12, <1>16, <1>17, <1>18, <1>19, <1>20, <1>21 DEF Inv

-----------------------------------------------------------------------------
(* The invariant holds.                                                    *)

LEMMA StutterStep == Inv /\ UNCHANGED vars => Inv'
<1> SUFFICES ASSUME Inv, UNCHANGED vars PROVE Inv'
  OBVIOUS
<1>1. TypeOK'
  BY DEF Inv, TypeOK, vars
<1>2. LoopInv' /\ OneInv' /\ KickedInv'
  BY DEF Inv, LoopInv, OneInv, KickedInv, Playing, Doomed, Stopped, Has, vars
<1> QED BY <1>1, <1>2, Still DEF vars, Inv

LEMMA ProgressStep == Inv /\ Progress => Inv'
<1> SUFFICES ASSUME Inv, Progress PROVE Inv'
  OBVIOUS
<1>1. CASE BeginUpdate
  BY <1>1, BeginUpdateStep
<1>2. CASE AddRefused
  BY <1>2, AddRefusedStep
<1>3. CASE AddSession
  BY <1>3, AddSessionStep
<1>4. CASE AddSessionInstead
  BY <1>4, AddSessionInsteadStep
<1>5. CASE AllAdded
  BY <1>5, AllAddedStep
<1>6. CASE \E a \in Accounts : GoOffline(a) \/ StartSession(a)
  BY <1>6, GoOfflineStep, StartSessionStep
<1>7. CASE \E s \in Sessions : KeepSession(s) \/ DropSession(s)
  BY <1>7, KeepSessionStep, DropSessionStep
<1>8. CASE AllUpdated
  BY <1>8, AllUpdatedStep
<1>9. CASE \E a \in Accounts : KeepOffline(a) \/ DropOffline(a)
  BY <1>9, KeepOfflineStep, DropOfflineStep
<1>10. CASE EndUpdate
  BY <1>10, EndUpdateStep
<1>11. CASE KickAll
  BY <1>11, KickAllStep
<1> QED BY <1>1, <1>2, <1>3, <1>4, <1>5, <1>6, <1>7, <1>8, <1>9, <1>10, <1>11 DEF Progress

LEMMA PacketStep ==
  ASSUME Inv, NEW s \in Sessions, Packet(s)
  PROVE  Inv'
BY LoginRefusedStep, LoginTakeoverStep, LoginOtherStep, LoginLoadStep, LoadedStep,
   LoadFailedStep, LogoutStep DEF Packet

\* The conjunction of everything below is inductive: no connection, packet,
\* update or command breaks it.
THEOREM Invariant == Spec => []Inv
<1>1. Inv /\ [Next]_vars => Inv'
  <2> SUFFICES ASSUME Inv, [Next]_vars PROVE Inv'
    OBVIOUS
  <2>1. CASE Progress
    BY <2>1, ProgressStep
  <2>2. CASE NewConnection
    BY <2>2, NewConnectionStep
  <2>3. CASE Stop
    BY <2>3, StopStep
  <2>4. CASE \E s \in Sessions : SocketCloses(s) \/ Travel(s) \/ KickPlayer(s) \/ Packet(s)
    BY <2>4, SocketClosesStep, TravelStep, KickPlayerStep, PacketStep
  <2>5. CASE \E a \in Accounts : Forget(a)
    BY <2>5, ForgetStep
  <2>6. CASE UNCHANGED vars
    BY <2>6, StutterStep
  <2> QED BY <2>1, <2>2, <2>3, <2>4, <2>5, <2>6 DEF Next
<1> QED BY InvInit, <1>1, PTL DEF Spec

-----------------------------------------------------------------------------
(* What it says.                                                           *)

\* Every variable keeps its type.
THEOREM TypeCorrect == Spec => []TypeOK
<1>1. Inv => TypeOK
  BY DEF Inv
<1> QED BY Invariant, <1>1, PTL

\* m_QueuedPlayer holds pointers, and no session is deleted, or leaves
\* m_sessions, while one of them points to it.
THEOREM QueueIsAlive == Spec => []QueueAlive
<1>1. Inv => QueueAlive
  <2> SUFFICES ASSUME Inv PROVE QueueAlive
    OBVIOUS
  <2>1. \A i \in 1 .. Len(queued) : queued[i] \in Sessions /\ In(queued[i], queued)
    BY DEF Inv, TypeOK, In
  <2>2. \A s \in Sessions : In(s, queued) => Queued(s)
    BY DEF In, Queued
  <2> QED BY <2>1, <2>2 DEF Inv, QueueInv, QueueAlive, Distinct
<1> QED BY Invariant, <1>1, PTL

\* A session is handed over, in m_sessions or in m_offlineSessions, in exactly
\* one of them, until it is deleted: none is leaked.
THEOREM NobodyLeaked == Spec => []OneOwner
<1>1. Inv => OneOwner
  <2> SUFFICES ASSUME Inv, NEW s \in Sessions, session[s] # Destroyed
               PROVE  Cardinality({i \in 1 .. Len(addSessQueue) : addSessQueue[i] = s})
                      + Cardinality({a \in Accounts :
                                      sessions[a] = s /\ session[s].account = a})
                      + Cardinality({a \in Accounts :
                                      offline[a] = s /\ session[s].account = a}) = 1
    BY DEF OneOwner
  <2> DEFINE b == session[s].account
             H == {i \in 1 .. Len(addSessQueue) : addSessQueue[i] = s}
             M == {a \in Accounts : sessions[a] = s /\ b = a}
             O == {a \in Accounts : offline[a] = s /\ b = a}
  <2>1. b \in Accounts /\ (In(s, addSessQueue) \/ sessions[b] = s \/ offline[b] = s)
    BY DEF Inv, PlacedInv
  <2>2. s # NoSession
    BY DEF Sessions, NoSession
  <2>3. Cardinality({}) = 0 /\ \A x : Cardinality({x}) = 1
    BY FS_EmptySet, FS_Singleton
  <2> HIDE DEF b
  <2>4. CASE In(s, addSessQueue)
    <3>1. PICK i \in 1 .. Len(addSessQueue) : addSessQueue[i] = s
      BY <2>4 DEF In
    <3>2. H = {i}
      BY <3>1 DEF Inv, HandedInv, Distinct
    <3>3. M = {} /\ O = {}
      BY <2>4 DEF Inv, HandedInv
    <3> HIDE DEF H, M, O
    <3>4. Cardinality(H) = 1 /\ Cardinality(M) = 0 /\ Cardinality(O) = 0
      BY <2>3, <3>2, <3>3
    <3>5. Cardinality(H) + Cardinality(M) + Cardinality(O) = 1
      BY <3>4
    <3> QED BY <3>5 DEF H, M, O, b
  <2>5. CASE sessions[b] = s
    <3>1. ~In(s, addSessQueue) /\ offline[b] # s
      BY <2>1, <2>2, <2>5 DEF Inv, HandedInv, MapsInv
    <3>2. H = {} /\ M = {b} /\ O = {}
      BY <2>1, <2>5, <3>1 DEF In
    <3> HIDE DEF H, M, O
    <3>3. Cardinality(H) = 0 /\ Cardinality(M) = 1 /\ Cardinality(O) = 0
      BY <2>3, <3>2
    <3>4. Cardinality(H) + Cardinality(M) + Cardinality(O) = 1
      BY <3>3
    <3> QED BY <3>4 DEF H, M, O, b
  <2>6. CASE offline[b] = s
    <3>1. ~In(s, addSessQueue) /\ sessions[b] # s
      BY <2>1, <2>2, <2>6 DEF Inv, HandedInv, MapsInv
    <3>2. H = {} /\ M = {} /\ O = {b}
      BY <2>1, <2>6, <3>1 DEF In
    <3> HIDE DEF H, M, O
    <3>3. Cardinality(H) = 0 /\ Cardinality(M) = 0 /\ Cardinality(O) = 1
      BY <2>3, <3>2
    <3>4. Cardinality(H) + Cardinality(M) + Cardinality(O) = 1
      BY <3>3
    <3> QED BY <3>4 DEF H, M, O, b
  <2> QED BY <2>1, <2>4, <2>5, <2>6
<1> QED BY Invariant, <1>1, PTL

\* A character is never in the world twice, nor read from the database while a
\* session of its account still has it.
THEOREM CharacterIsOnce == Spec => []CharacterOnce
<1>1. Inv => CharacterOnce
  <2> SUFFICES ASSUME Inv, NEW s \in Sessions, NEW t \in Sessions, s # t,
                      session[s].account = session[t].account,
                      session[s].player # NoChar
               PROVE  /\ session[t].player # session[s].player
                      /\ session[t].holder # session[s].player
    BY DEF CharacterOnce
  <2> DEFINE a == session[s].account
  <2>1. a \in Accounts /\ (sessions[a] = s \/ offline[a] = s)
    BY DEF Inv, PlacedInv, HandedInv, Fresh, Destroyed
  <2>2. session[t] # Destroyed
    BY <2>1, AccountsAssumption DEF Destroyed
  <2>3. CASE In(t, addSessQueue)
    BY <2>3 DEF Inv, HandedInv, Fresh
  <2>4. CASE ~In(t, addSessQueue)
    <3>1. sessions[a] = t \/ offline[a] = t
      BY <2>2, <2>4 DEF Inv, PlacedInv
    <3>2. s # NoSession /\ t # NoSession
      BY DEF Sessions, NoSession
    <3>3. offline[a] = t => session[t].holder = NoChar
      BY <2>1, <3>2 DEF Inv, MapsInv
    <3> QED BY <2>1, <3>1, <3>2, <3>3 DEF Inv, CharInv
  <2> QED BY <2>3, <2>4
<1> QED BY Invariant, <1>1, PTL

\* Between two updates no account has a player in its session and a session
\* without a connection beside it.
THEOREM OnePlayer == Spec => []OnePlayerPerAccount
<1>1. Inv => OnePlayerPerAccount
  BY DEF Inv, OneInv, Playing, OnePlayerPerAccount
<1> QED BY Invariant, <1>1, PTL

\* While the server runs, without the tolerance, the sessions that do not wait
\* and whose accounts have to queue are never more than the limit.
THEOREM LimitKept == Spec => []LimitHolds
<1>1. Inv => LimitHolds
  BY DEF Inv, LimitInv
<1> QED BY Invariant, <1>1, PTL

\* Nobody waits in the queue while fewer sessions than the limit are active.
THEOREM RoomUsed == Spec => []NoRoomUnused
<1>1. Inv => NoRoomUnused
  BY ActiveFacts DEF Inv, RoomInv, NoRoomUnused
<1> QED BY Invariant, <1>1, PTL

\* KickAll and one UpdateSessions leave no session offline, and no kicked
\* session with a player.
THEOREM EverybodyLoggedOut == Spec => []AllLoggedOut
<1>1. Inv => AllLoggedOut
  <2> SUFFICES ASSUME Inv, shutdown = "halted" PROVE Has(offline) = {} /\
                 \A s \in Sessions : session[s].kicked => session[s].player = NoChar
    BY DEF AllLoggedOut
  <2>1. \A a \in Accounts : offline[a] = NoSession
    BY DEF Inv, KickedInv, Stopped
  <2>2. ASSUME NEW s \in Sessions, session[s].kicked
        PROVE  session[s].player = NoChar
    <3>1. s # NoSession
      BY DEF Sessions, NoSession
    <3>2. \A a \in Accounts : sessions[a] # s /\ offline[a] # s
      BY <2>1, <2>2, <3>1 DEF Inv, KickedInv
    <3> QED BY <2>2, <3>2 DEF Inv, PlacedInv, HandedInv, Fresh, Destroyed
  <2> QED BY <2>1, <2>2 DEF Has
<1> QED BY Invariant, <1>1, PTL
=============================================================================
