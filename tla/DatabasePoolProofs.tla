------------------------- MODULE DatabasePoolProofs -------------------------
(***************************************************************************)
(* The database workers for any number of workers and operations: what is  *)
(* taken from the queue is an initial segment of what was enqueued, each   *)
(* operation of it executed or in the hands of one worker; and every query *)
(* is in one of the processor's lists or answered.                         *)
(***************************************************************************)
EXTENDS DatabasePool, FiniteSetTheorems, SequenceTheorems, TLAPS

-----------------------------------------------------------------------------
(* The inductive invariant.                                                *)

Taken == {op \in Ops : Among(op, done) \/ \E w \in Workers : worker[w].op = op}

\* The first n operations were taken, the others are queued unless Cancel came.
Segment(n) ==
  /\ Taken = 1 .. n
  /\ shutdown => queue = <<>>
  /\ ~shutdown => Len(queue) = enqueued - n /\ \A i \in 1 .. Len(queue) : queue[i] = n + i

\* What a worker holds is held by it alone and not yet executed.
HandsInv ==
  \A w \in Workers :
    /\ worker[w].at = "calling" => worker[w].op = NoOp
    /\ worker[w].at = "executing" => worker[w].op # NoOp
    /\ worker[w].op # NoOp =>
         /\ ~Among(worker[w].op, done)
         /\ \A v \in Workers : worker[v].op = worker[w].op => v = w

DoneInv ==
  /\ \A i, j \in 1 .. Len(done) : done[i] = done[j] => i = j
  /\ Cardinality(Workers) = 1 => \A i \in 1 .. Len(done) : done[i] = i
  /\ \A i \in 1 .. Len(started) : started[i] \in Taken

\* Answers are of executed operations.
AnswerInv ==
  /\ \A op \in Ops : future[op] = "ready" => Among(op, done)
  /\ \A i \in 1 .. Len(invoked) : Among(invoked[i], done)

\* The lists of the processor are in use only while it polls.
PollInv ==
  /\ world # "poll" => batch = <<>> /\ kept = <<>>
  /\ world \in {"update", "poll"} => ~shutdown
  /\ writes \subseteq 1 .. enqueued
  /\ \A op \in Ops : Calls(op) = IF op <= enqueued /\ op \notin writes THEN 1 ELSE 0

Inv ==
  /\ TypeOK
  /\ \E n \in 0 .. enqueued : Segment(n)
  /\ HandsInv
  /\ DoneInv
  /\ AnswerInv
  /\ PollInv

-----------------------------------------------------------------------------
(* Occurrences in sequences.                                               *)

\* Moving a set of positions does not change how many they are.
LEMMA Shifted ==
  ASSUME NEW n \in Nat, NEW P \in SUBSET (1 .. n), NEW k \in Nat
  PROVE  Cardinality({i + k : i \in P}) = Cardinality(P)
<1> DEFINE Q == {i + k : i \in P}
           f == [i \in P |-> i + k]
<1>1. IsFiniteSet(P)
  <2>1. IsFiniteSet(1 .. n)
    BY FS_Interval
  <2> QED BY <2>1, FS_Subset
<1>2. f \in Bijection(P, Q)
  <2>1. f \in [P -> Q] /\ \A q \in Q : \E i \in P : f[i] = q
    OBVIOUS
  <2>2. \A i, j \in P : f[i] = f[j] => i = j
    OBVIOUS
  <2> HIDE DEF f, Q
  <2> QED BY <2>1, <2>2 DEF Bijection, Injection, Surjection, IsInjective
<1> QED BY <1>1, <1>2, FS_Bijection DEF ExistsBijection

\* The places of a value in a sequence can be counted.
LEMMA OccurrencesType ==
  ASSUME NEW S, NEW s \in Seq(S), NEW x
  PROVE  /\ IsFiniteSet({i \in 1 .. Len(s) : s[i] = x})
         /\ Occurrences(x, s) \in Nat
         /\ Occurrences(x, s) = 0 <=> ~Among(x, s)
<1>1. Len(s) \in Nat
  OBVIOUS
<1> DEFINE A == {i \in 1 .. Len(s) : s[i] = x}
<1>2. IsFiniteSet(A)
  <2>1. IsFiniteSet(1 .. Len(s))
    BY <1>1, FS_Interval
  <2> QED BY <2>1, FS_Subset
<1>3. A = {} <=> ~Among(x, s)
  BY DEF Among
<1>4. Cardinality(A) \in Nat /\ (Cardinality(A) = 0 <=> A = {})
  BY <1>2, FS_CardinalityType, FS_EmptySet
<1> QED BY <1>2, <1>3, <1>4 DEF Occurrences

\* Occurrences in a concatenation add up.
LEMMA OccurrencesConcat ==
  ASSUME NEW S, NEW s \in Seq(S), NEW t \in Seq(S), NEW x
  PROVE  Occurrences(x, s \o t) = Occurrences(x, s) + Occurrences(x, t)
<1> DEFINE A == {i \in 1 .. Len(s) : s[i] = x}
           B == {i \in 1 .. Len(t) : t[i] = x}
           C == {i + Len(s) : i \in B}
           D == {i \in 1 .. Len(s \o t) : (s \o t)[i] = x}
<1>1. Len(s) \in Nat /\ Len(t) \in Nat /\ Len(s \o t) = Len(s) + Len(t)
  BY ConcatProperties
<1>2. \A i \in 1 .. Len(s) + Len(t) : (s \o t)[i] = IF i <= Len(s) THEN s[i] ELSE t[i - Len(s)]
  BY ConcatProperties
<1>3. D \subseteq A \cup C
  <2> SUFFICES ASSUME NEW i \in D, i \notin A PROVE i \in C
    OBVIOUS
  <2>1. i \in Int /\ i > Len(s) /\ i <= Len(s) + Len(t)
    BY <1>1, <1>2
  <2>2. i - Len(s) \in 1 .. Len(t) /\ t[i - Len(s)] = x
    BY <1>1, <1>2, <2>1
  <2>3. i = (i - Len(s)) + Len(s)
    BY <1>1, <2>1
  <2> QED BY <2>2, <2>3
<1>4. A \subseteq D /\ C \subseteq D /\ A \cap C = {}
  BY <1>1, <1>2
<1>5. IsFiniteSet(A) /\ IsFiniteSet(B) /\ IsFiniteSet(D) /\ IsFiniteSet(C)
  <2>1. IsFiniteSet(A) /\ IsFiniteSet(B) /\ IsFiniteSet(D)
    <3>1. s \o t \in Seq(S)
      BY ConcatProperties
    <3> HIDE DEF C
    <3> QED BY <3>1, OccurrencesType
  <2> HIDE DEF A, B, C, D
  <2> QED BY <1>4, <2>1, FS_Subset
<1>6. Cardinality(C) = Cardinality(B)
  BY <1>1, Shifted
<1>7. D = A \cup C
  BY <1>3, <1>4
<1> HIDE DEF A, B, C, D
<1>8. Cardinality(D) = Cardinality(A) + Cardinality(C) - Cardinality({})
  BY <1>4, <1>5, <1>7, FS_Union
<1>9. Cardinality(A) \in Nat /\ Cardinality(B) \in Nat /\ Cardinality({}) = 0
  BY <1>5, FS_CardinalityType, FS_EmptySet
<1>10. Cardinality(D) = Cardinality(A) + Cardinality(B)
  BY <1>6, <1>8, <1>9
<1> QED BY <1>10 DEF Occurrences, A, B, D

\* One value, once.
LEMMA OccurrencesOne ==
  ASSUME NEW x, NEW y
  PROVE  Occurrences(x, <<y>>) = IF x = y THEN 1 ELSE 0
<1>1. CASE x = y
  <2>1. {i \in 1 .. Len(<<y>>) : <<y>>[i] = x} = {1}
    BY <1>1
  <2> QED BY <1>1, <2>1, FS_Singleton DEF Occurrences
<1>2. CASE x # y
  <2>1. {i \in 1 .. Len(<<y>>) : <<y>>[i] = x} = {}
    BY <1>2
  <2> QED BY <1>2, <2>1, FS_EmptySet DEF Occurrences
<1> QED BY <1>1, <1>2

LEMMA OccurrencesAppend ==
  ASSUME NEW S, NEW s \in Seq(S), NEW y \in S, NEW x
  PROVE  /\ Occurrences(x, Append(s, y)) = Occurrences(x, s) + (IF x = y THEN 1 ELSE 0)
         /\ Among(x, Append(s, y)) <=> x = y \/ Among(x, s)
<1>1. <<y>> \in Seq(S) /\ Append(s, y) = s \o <<y>>
  OBVIOUS
<1>2. Among(x, Append(s, y)) <=> x = y \/ Among(x, s)
  BY DEF Among
<1>3. Occurrences(x, s \o <<y>>) = Occurrences(x, s) + Occurrences(x, <<y>>)
  BY <1>1, OccurrencesConcat
<1>4. Occurrences(x, <<y>>) = IF x = y THEN 1 ELSE 0
  BY OccurrencesOne
<1> QED BY <1>1, <1>2, <1>3, <1>4

LEMMA OccurrencesTail ==
  ASSUME NEW S, NEW s \in Seq(S), s # <<>>, NEW x
  PROVE  Occurrences(x, s) = Occurrences(x, Tail(s)) + (IF x = Head(s) THEN 1 ELSE 0)
<1>1. <<Head(s)>> \in Seq(S) /\ Tail(s) \in Seq(S) /\ s = <<Head(s)>> \o Tail(s)
  <2>1. Head(s) \in S /\ Tail(s) \in Seq(S) /\ Len(Tail(s)) = Len(s) - 1 /\ Len(s) \in Nat
        /\ \A i \in 1 .. Len(Tail(s)) : Tail(s)[i] = s[i + 1]
    BY HeadTailProperties
  <2>2. <<Head(s)>> \in Seq(S) /\ Len(<<Head(s)>>) = 1 /\ <<Head(s)>>[1] = s[1]
    BY <2>1
  <2>3. /\ <<Head(s)>> \o Tail(s) \in Seq(S) /\ Len(<<Head(s)>> \o Tail(s)) = Len(s)
        /\ \A i \in 1 .. Len(s) : (<<Head(s)>> \o Tail(s))[i] = IF i <= 1 THEN <<Head(s)>>[i] ELSE Tail(s)[i - 1]
    BY <2>1, <2>2, ConcatProperties
  <2>4. \A i \in 1 .. Len(s) : (<<Head(s)>> \o Tail(s))[i] = s[i]
    BY <2>1, <2>2, <2>3
  <2> QED BY <2>1, <2>2, <2>3, <2>4, SeqEqual
<1>2. Occurrences(x, <<Head(s)>> \o Tail(s)) = Occurrences(x, <<Head(s)>>) + Occurrences(x, Tail(s))
  BY <1>1, OccurrencesConcat
<1>3. Occurrences(x, Tail(s)) \in Nat
  BY <1>1, OccurrencesType
<1>4. Occurrences(x, <<Head(s)>>) = IF x = Head(s) THEN 1 ELSE 0
  BY OccurrencesOne
<1>5. Occurrences(x, s) = Occurrences(x, <<Head(s)>> \o Tail(s))
  BY <1>1
<1> QED BY <1>2, <1>3, <1>4, <1>5

\* The queries of a list of callbacks, as the list grows and is taken from.
LEMMA QueriesType ==
  ASSUME NEW s \in Seq(Callbacks)
  PROVE  /\ Queries(s) \in Seq(Ops) /\ Len(Queries(s)) = Len(s)
         /\ \A i \in 1 .. Len(s) : Queries(s)[i] = s[i].query
<1>1. ASSUME NEW i \in 1 .. Len(s) PROVE s[i].query \in Ops
  <2>1. s[i] \in Callbacks
    BY ElementOfSeq
  <2> QED BY <2>1 DEF Callbacks
<1>2. Len(s) \in Nat
  OBVIOUS
<1>3. Queries(s) \in Seq(Ops)
  BY <1>1, <1>2, IsASeq DEF Queries
<1> QED BY <1>2, <1>3 DEF Queries

LEMMA QueriesAppend ==
  ASSUME NEW s \in Seq(Callbacks), NEW c \in Callbacks
  PROVE  Queries(Append(s, c)) = Append(Queries(s), c.query)
<1> DEFINE a == Append(s, c)
<1>1. a \in Seq(Callbacks) /\ Len(a) = Len(s) + 1 /\ c.query \in Ops
      /\ \A i \in 1 .. Len(a) : a[i] = IF i = Len(a) THEN c ELSE s[i]
  BY DEF Callbacks
<1>2. Queries(s) \in Seq(Ops) /\ Len(Queries(s)) = Len(s)
      /\ \A i \in 1 .. Len(s) : Queries(s)[i] = s[i].query
  BY QueriesType
<1>3. Queries(a) \in Seq(Ops) /\ Len(Queries(a)) = Len(a)
      /\ \A i \in 1 .. Len(a) : Queries(a)[i] = a[i].query
  BY <1>1, QueriesType
<1> HIDE DEF a
<1>4. Append(Queries(s), c.query) \in Seq(Ops) /\ Len(Append(Queries(s), c.query)) = Len(a)
      /\ \A i \in 1 .. Len(a) : Append(Queries(s), c.query)[i]
                                = IF i = Len(a) THEN c.query ELSE Queries(s)[i]
  BY <1>1, <1>2
<1>5. \A i \in 1 .. Len(a) : Queries(a)[i] = Append(Queries(s), c.query)[i]
  BY <1>1, <1>2, <1>3, <1>4
<1> QED BY <1>3, <1>4, <1>5, SeqEqual DEF a

LEMMA QueriesTail ==
  ASSUME NEW s \in Seq(Callbacks), s # <<>>
  PROVE  /\ Queries(s) # <<>> /\ Head(Queries(s)) = Head(s).query
         /\ Queries(Tail(s)) = Tail(Queries(s)) /\ Head(s).query \in Ops
<1>1. Head(s) \in Callbacks /\ Tail(s) \in Seq(Callbacks) /\ Len(Tail(s)) = Len(s) - 1
      /\ Len(s) \in Nat \ {0} /\ \A i \in 1 .. Len(Tail(s)) : Tail(s)[i] = s[i + 1]
  BY HeadTailProperties, EmptySeq
<1>2. Queries(s) \in Seq(Ops) /\ Len(Queries(s)) = Len(s)
      /\ \A i \in 1 .. Len(s) : Queries(s)[i] = s[i].query
  BY QueriesType
<1>3. Queries(Tail(s)) \in Seq(Ops) /\ Len(Queries(Tail(s))) = Len(s) - 1
      /\ \A i \in 1 .. Len(s) - 1 : Queries(Tail(s))[i] = s[i + 1].query
  BY <1>1, QueriesType
<1>4. Queries(s) # <<>>
  BY <1>1, <1>2
<1>5. Tail(Queries(s)) \in Seq(Ops) /\ Len(Tail(Queries(s))) = Len(s) - 1
      /\ \A i \in 1 .. Len(s) - 1 : Tail(Queries(s))[i] = Queries(s)[i + 1]
  BY <1>2, <1>4, HeadTailProperties
<1>6. \A i \in 1 .. Len(s) - 1 : Queries(Tail(s))[i] = Tail(Queries(s))[i]
  BY <1>1, <1>2, <1>3, <1>5
<1>7. Head(Queries(s)) = Head(s).query /\ Head(s).query \in Ops
  BY <1>1, <1>2, <1>4 DEF Callbacks
<1> QED BY <1>3, <1>4, <1>5, <1>6, <1>7, SeqEqual

LEMMA QueriesConcat ==
  ASSUME NEW s \in Seq(Callbacks), NEW t \in Seq(Callbacks)
  PROVE  Queries(s \o t) = Queries(s) \o Queries(t)
<1>1. /\ s \o t \in Seq(Callbacks) /\ Len(s \o t) = Len(s) + Len(t)
      /\ \A i \in 1 .. Len(s) + Len(t) : (s \o t)[i] = IF i <= Len(s) THEN s[i] ELSE t[i - Len(s)]
  BY ConcatProperties
<1>2. /\ Queries(s) \in Seq(Ops) /\ Len(Queries(s)) = Len(s)
      /\ \A i \in 1 .. Len(s) : Queries(s)[i] = s[i].query
      /\ Queries(t) \in Seq(Ops) /\ Len(Queries(t)) = Len(t)
      /\ \A i \in 1 .. Len(t) : Queries(t)[i] = t[i].query
  BY QueriesType
<1>3. /\ Queries(s \o t) \in Seq(Ops) /\ Len(Queries(s \o t)) = Len(s) + Len(t)
      /\ \A i \in 1 .. Len(s) + Len(t) : Queries(s \o t)[i] = (s \o t)[i].query
  BY <1>1, QueriesType
<1> DEFINE q == Queries(s)
           r == Queries(t)
<1>4. /\ q \o r \in Seq(Ops) /\ Len(q \o r) = Len(s) + Len(t)
      /\ \A i \in 1 .. Len(s) + Len(t) : (q \o r)[i] = IF i <= Len(s) THEN q[i] ELSE r[i - Len(s)]
  <2>1. q \in Seq(Ops) /\ r \in Seq(Ops) /\ Len(q) = Len(s) /\ Len(r) = Len(t)
    BY <1>2
  <2> HIDE DEF q, r
  <2>2. /\ q \o r \in Seq(Ops) /\ Len(q \o r) = Len(q) + Len(r)
        /\ \A i \in 1 .. Len(q) + Len(r) : (q \o r)[i] = IF i <= Len(q) THEN q[i] ELSE r[i - Len(q)]
    BY <2>1, ConcatProperties
  <2> QED BY <2>1, <2>2
<1>5. ASSUME NEW i \in 1 .. Len(s) + Len(t)
      PROVE  Queries(s \o t)[i] = (q \o r)[i]
  <2>1. Len(s) \in Nat /\ Len(t) \in Nat
    OBVIOUS
  <2>2. Queries(s \o t)[i] = (s \o t)[i].query
    BY <1>3
  <2>3. CASE i <= Len(s)
    <3>1. q[i] = s[i].query /\ (s \o t)[i] = s[i] /\ (q \o r)[i] = q[i]
      BY <1>1, <1>2, <1>4, <2>1, <2>3
    <3> QED BY <2>2, <3>1
  <2>4. CASE i > Len(s)
    <3>1. i - Len(s) \in 1 .. Len(t) /\ ~(i <= Len(s))
      BY <2>1, <2>4
    <3>2. r[i - Len(s)] = t[i - Len(s)].query /\ (s \o t)[i] = t[i - Len(s)]
      BY <1>1, <1>2, <3>1
    <3>3. (q \o r)[i] = r[i - Len(s)]
      BY <1>4, <3>1
    <3> QED BY <2>2, <3>2, <3>3
  <2>5. i \in Int /\ (i <= Len(s) \/ i > Len(s))
    BY <2>1
  <2> HIDE DEF q, r, Queries
  <2> QED BY <2>3, <2>4, <2>5
<1> HIDE DEF Queries
<1> QED BY <1>3, <1>4, <1>5, SeqEqual

-----------------------------------------------------------------------------
(* Types.                                                                  *)

LEMMA TypeInit == Init => TypeOK
<1> SUFFICES ASSUME Init PROVE TypeOK
  OBVIOUS
<1>1. /\ queue \in Seq(Ops) /\ started \in Seq(Ops) /\ done \in Seq(Ops) /\ invoked \in Seq(Ops)
      /\ callbacks \in Seq(Callbacks) /\ batch \in Seq(Callbacks) /\ kept \in Seq(Callbacks)
  BY EmptySeq DEF Init, PCQInit
<1>2. /\ worker \in [Workers -> [at : {"calling", "popped", "executing", "gone"},
                                 op : Ops \cup {NoOp}]]
      /\ future \in [Ops -> {"none", "pending", "ready", "broken"}]
  BY DEF Init
<1>3. token \in [Workers -> BOOLEAN]
  BY DEF Init
<1>4. sleeping \subseteq Workers /\ enqueued \in 0 .. MaxOps
      /\ writes \subseteq Ops /\ joined \subseteq Workers /\ leaving \in Workers \cup {NoWorker}
  BY BoundsAssumption DEF Init, PCQInit
<1>5. shutdown \in BOOLEAN
  BY Zenon DEF Init, PCQInit
<1>6. world \in {"update", "poll", "cancel", "join", "next"}
  BY DEF Init
<1> QED BY <1>1, <1>2, <1>3, <1>4, <1>5, <1>6 DEF TypeOK

\* Enqueue adds one operation to the queue and to the count.
LEMMA EnqueueTypes ==
  ASSUME TypeOK, NEW op \in Ops, Last(op), Push(op), enqueued' = op
  PROVE  /\ queue' \in Seq(Ops) /\ sleeping' \subseteq Workers /\ shutdown' \in BOOLEAN
         /\ enqueued' \in 0 .. MaxOps /\ op = enqueued + 1
BY BoundsAssumption DEF TypeOK, Last, Push, NotifyOne, Ops

LEMMA EnqueueQueryTypes ==
  ASSUME TypeOK, NEW op \in Ops, EnqueueQuery(op)
  PROVE  /\ queue' \in Seq(Ops) /\ sleeping' \subseteq Workers /\ shutdown' \in BOOLEAN
         /\ enqueued' \in 0 .. MaxOps
         /\ future' \in [Ops -> {"none", "pending", "ready", "broken"}]
BY EnqueueTypes DEF EnqueueQuery, TypeOK

\* What the processor polls next.
LEMMA HeadTypes ==
  ASSUME TypeOK, batch # <<>>
  PROVE  /\ Head(batch) \in Callbacks /\ Tail(batch) \in Seq(Callbacks)
         /\ Head(batch).query \in Ops /\ Head(batch).left \in 1 .. MaxChain
<1>1. Head(batch) \in Callbacks /\ Tail(batch) \in Seq(Callbacks)
  BY HeadTailProperties DEF TypeOK
<1> QED BY <1>1 DEF Callbacks

LEMMA TypeStep == TypeOK /\ HandsInv /\ [Next]_vars => TypeOK'
<1> SUFFICES ASSUME TypeOK, HandsInv, [Next]_vars PROVE TypeOK'
  OBVIOUS
<1>1. CASE EnqueueWrite
  <2>1. PICK op \in Ops : Last(op) /\ Push(op) /\ enqueued' = op /\ writes' = writes \cup {op}
    BY <1>1 DEF EnqueueWrite
  <2>2. /\ queue' \in Seq(Ops) /\ sleeping' \subseteq Workers /\ shutdown' \in BOOLEAN
        /\ enqueued' \in 0 .. MaxOps
    BY <2>1, EnqueueTypes
  <2>3. writes' \subseteq Ops
    BY <2>1 DEF TypeOK
  <2> QED BY <1>1, <2>2, <2>3 DEF EnqueueWrite, processor, TypeOK
<1>2. CASE AsyncQuery
  <2>1. PICK op \in Ops, n \in 1 .. MaxChain :
          EnqueueQuery(op) /\ callbacks' = Append(callbacks, [query |-> op, left |-> n])
    BY <1>2 DEF AsyncQuery
  <2>2. callbacks' \in Seq(Callbacks)
    BY <2>1 DEF TypeOK, Callbacks
  <2> QED BY <1>2, <2>1, <2>2, EnqueueQueryTypes DEF AsyncQuery, EnqueueQuery, TypeOK
<1>3. CASE BeginPoll
  BY <1>3, EmptySeq DEF BeginPoll, pool, TypeOK
<1>4. CASE KeepPending
  <2>1. batch' \in Seq(Callbacks) /\ kept' \in Seq(Callbacks)
    BY <1>4, HeadTypes DEF KeepPending, TypeOK
  <2> QED BY <1>4, <2>1 DEF KeepPending, pool, TypeOK
<1>5. ASSUME Ready PROVE batch' \in Seq(Callbacks) /\ invoked' \in Seq(Ops)
  BY <1>5, HeadTypes DEF Ready, TypeOK
<1>6. CASE InvokeAndFinish
  <2>1. batch' \in Seq(Callbacks) /\ invoked' \in Seq(Ops)
    BY <1>5, <1>6 DEF InvokeAndFinish
  <2> QED BY <1>6, <2>1 DEF InvokeAndFinish, pool, TypeOK
<1>7. CASE InvokeAndChain
  <2>1. batch' \in Seq(Callbacks) /\ invoked' \in Seq(Ops)
    BY <1>5, <1>7 DEF InvokeAndChain
  <2>2. PICK op \in Ops :
          EnqueueQuery(op) /\ kept' = Append(kept, [query |-> op, left |-> Head(batch).left - 1])
    BY <1>7 DEF InvokeAndChain
  <2>3. Head(batch).left \in 1 .. MaxChain /\ Head(batch).left > 1
    BY <1>7, HeadTypes DEF InvokeAndChain, Ready
  <2>4. Head(batch).left - 1 \in 1 .. MaxChain
    BY <2>3, BoundsAssumption
  <2>5. kept' \in Seq(Callbacks)
    BY <2>2, <2>4 DEF TypeOK, Callbacks
  <2> QED BY <1>7, <2>1, <2>2, <2>5, EnqueueQueryTypes DEF InvokeAndChain, EnqueueQuery, TypeOK
<1>8. CASE InvokeAndAdd
  <2>1. batch' \in Seq(Callbacks) /\ invoked' \in Seq(Ops)
    BY <1>5, <1>8 DEF InvokeAndAdd
  <2>2. PICK op \in Ops :
          EnqueueQuery(op) /\ callbacks' = Append(callbacks, [query |-> op, left |-> 1])
    BY <1>8 DEF InvokeAndAdd
  <2>3. callbacks' \in Seq(Callbacks)
    BY <2>2, BoundsAssumption DEF TypeOK, Callbacks
  <2> QED BY <1>8, <2>1, <2>2, <2>3, EnqueueQueryTypes DEF InvokeAndAdd, Ready, EnqueueQuery, TypeOK
<1>9. CASE EndPoll
  <2>1. callbacks' \in Seq(Callbacks) /\ kept' \in Seq(Callbacks)
    BY <1>9, EmptySeq, ConcatProperties DEF EndPoll, TypeOK
  <2> QED BY <1>9, <2>1 DEF EndPoll, pool, TypeOK
<1>10. ASSUME NEW w \in Workers, DestroyWorker(w) PROVE TypeOK'
  BY <1>10 DEF DestroyWorker, processor, TypeOK
<1>11. CASE CancelQueue
  <2>1. future' \in [Ops -> {"none", "pending", "ready", "broken"}]
    BY <1>11 DEF CancelQueue, TypeOK
  <2> QED BY <1>11, <2>1, EmptySeq DEF CancelQueue, Cancel, processor, TypeOK
<1>12. ASSUME NEW w \in Workers, JoinWorker(w) PROVE TypeOK'
  BY <1>12 DEF JoinWorker, processor, TypeOK
<1>13. ASSUME NEW w \in Workers, GoToSleep(w) \/ WakeForNothing(w) PROVE TypeOK'
  BY <1>13 DEF GoToSleep, WakeForNothing, Sleep, SpuriousWake, pool, processor, TypeOK
<1>14. ASSUME NEW w \in Workers, Receive(w) PROVE TypeOK'
  <2>1. CASE Take(w, Head(queue)) /\ worker' = [worker EXCEPT ![w] = [at |-> "popped", op |-> Head(queue)]]
    <3>1. Head(queue) \in Ops /\ Tail(queue) \in Seq(Ops)
      BY <2>1, HeadTailProperties DEF Take, TypeOK
    <3> QED BY <1>14, <2>1, <3>1 DEF Receive, Take, processor, TypeOK
  <2>2. CASE GiveUp(w) /\ worker' = [worker EXCEPT ![w].at = "popped"]
    BY <1>14, <2>2 DEF Receive, GiveUp, pcqVars, processor, TypeOK
  <2> QED BY <1>14, <2>1, <2>2 DEF Receive
<1>15. ASSUME NEW w \in Workers, Exit(w) PROVE TypeOK'
  BY <1>15 DEF Exit, processor, TypeOK
<1>16. ASSUME NEW w \in Workers, Start(w) PROVE TypeOK'
  <2>1. started' \in Seq(Ops)
    BY <1>16 DEF Start, TypeOK
  <2> QED BY <1>16, <2>1 DEF Start, processor, TypeOK
<1>17. ASSUME NEW w \in Workers, Finish(w) PROVE TypeOK'
  <2>1. worker[w].op \in Ops
    BY <1>17 DEF Finish, HandsInv, TypeOK
  <2>2. done' \in Seq(Ops)
    BY <1>17, <2>1 DEF Finish, TypeOK
  <2> QED BY <1>17, <2>2 DEF Finish, processor, TypeOK
<1>18. CASE UNCHANGED vars
  BY <1>18 DEF vars, TypeOK
<1> QED BY <1>1, <1>2, <1>3, <1>4, <1>6, <1>7, <1>8, <1>9, <1>10, <1>11, <1>12, <1>13, <1>14,
           <1>15, <1>16, <1>17, <1>18 DEF Next, Poll, Close, WorkerStep

-----------------------------------------------------------------------------
(* The processor's lists: every query is in one of them or was answered.   *)

\* The numbers a list contributes.
LEMMA CallsTypes ==
  ASSUME TypeOK, NEW op \in Ops
  PROVE  /\ Occurrences(op, Queries(callbacks)) \in Nat /\ Occurrences(op, Queries(batch)) \in Nat
         /\ Occurrences(op, Queries(kept)) \in Nat /\ Occurrences(op, invoked) \in Nat
<1>1. /\ Queries(callbacks) \in Seq(Ops) /\ Queries(batch) \in Seq(Ops)
      /\ Queries(kept) \in Seq(Ops) /\ invoked \in Seq(Ops)
  BY QueriesType DEF TypeOK
<1> QED BY <1>1, OccurrencesType

\* An empty list contributes nothing.
LEMMA NoCalls == ASSUME NEW op PROVE Occurrences(op, Queries(<<>>)) = 0
<1>1. Queries(<<>>) \in Seq(Ops) /\ Len(Queries(<<>>)) = 0
  BY QueriesType, EmptySeq
<1>2. ~Among(op, Queries(<<>>))
  BY <1>1 DEF Among
<1> QED BY <1>1, <1>2, OccurrencesType

\* A list contributes one more for a callback appended, one less without its head.
LEMMA CallsAppend ==
  ASSUME NEW s \in Seq(Callbacks), NEW c \in Callbacks, NEW op
  PROVE  Occurrences(op, Queries(Append(s, c)))
           = Occurrences(op, Queries(s)) + (IF op = c.query THEN 1 ELSE 0)
<1>1. Queries(s) \in Seq(Ops) /\ c.query \in Ops
  BY QueriesType DEF Callbacks
<1>2. Occurrences(op, Append(Queries(s), c.query))
        = Occurrences(op, Queries(s)) + (IF op = c.query THEN 1 ELSE 0)
  BY <1>1, OccurrencesAppend
<1> QED BY <1>2, QueriesAppend

LEMMA CallsTail ==
  ASSUME NEW s \in Seq(Callbacks), s # <<>>, NEW op
  PROVE  Occurrences(op, Queries(s))
           = Occurrences(op, Queries(Tail(s))) + (IF op = Head(s).query THEN 1 ELSE 0)
<1>1. /\ Queries(s) \in Seq(Ops) /\ Queries(s) # <<>> /\ Head(Queries(s)) = Head(s).query
      /\ Queries(Tail(s)) = Tail(Queries(s))
  BY QueriesType, QueriesTail
<1>2. Occurrences(op, Queries(s))
        = Occurrences(op, Tail(Queries(s))) + (IF op = Head(Queries(s)) THEN 1 ELSE 0)
  BY <1>1, OccurrencesTail
<1> QED BY <1>1, <1>2

Counted(op) == Calls(op) = IF op <= enqueued /\ op \notin writes THEN 1 ELSE 0

\* An answered callback leaves the batch and is counted among the invoked.
LEMMA ReadyCalls ==
  ASSUME TypeOK, Ready, NEW op \in Ops
  PROVE  /\ Occurrences(op, Queries(batch)) + Occurrences(op, invoked)
              = Occurrences(op, Queries(batch')) + Occurrences(op, invoked')
         /\ Occurrences(op, Queries(batch')) \in Nat /\ Occurrences(op, invoked') \in Nat
<1>1. batch \in Seq(Callbacks) /\ batch # <<>> /\ batch' = Tail(batch)
      /\ invoked' = Append(invoked, Head(batch).query) /\ Head(batch).query \in Ops
      /\ invoked \in Seq(Ops) /\ Tail(batch) \in Seq(Callbacks)
  BY HeadTypes DEF Ready, TypeOK
<1>2. Occurrences(op, Queries(batch))
        = Occurrences(op, Queries(batch')) + (IF op = Head(batch).query THEN 1 ELSE 0)
  BY <1>1, CallsTail
<1>3. Occurrences(op, invoked')
        = Occurrences(op, invoked) + (IF op = Head(batch).query THEN 1 ELSE 0)
  BY <1>1, OccurrencesAppend
<1>4. Occurrences(op, Queries(batch')) \in Nat /\ Occurrences(op, invoked) \in Nat
  <2>1. Queries(batch') \in Seq(Ops)
    BY <1>1, QueriesType
  <2> QED BY <1>1, <2>1, OccurrencesType
<1> QED BY <1>2, <1>3, <1>4

\* A query of the current count is new: nothing waits for it and it is no write.
LEMMA NewQuery ==
  ASSUME TypeOK, PollInv, NEW op \in Ops, Last(op)
  PROVE  /\ op = enqueued + 1 /\ op \notin writes
         /\ \A x \in Ops : x <= op <=> x <= enqueued \/ x = op
BY DEF TypeOK, PollInv, Last, Ops

\* What every query's count needs of a step that enqueues one with a callback.
LEMMA CountedQuery ==
  ASSUME TypeOK, PollInv, NEW op \in Ops, EnqueueQuery(op),
         \A x \in Ops : Calls(x)' = Calls(x) + (IF x = op THEN 1 ELSE 0)
  PROVE  /\ \A x \in Ops : Counted(x)'
         /\ writes' \subseteq 1 .. enqueued'
<1>1. Last(op) /\ enqueued' = op /\ writes' = writes
  BY DEF EnqueueQuery
<1>2. op = enqueued + 1 /\ op \notin writes /\ \A x \in Ops : x <= op <=> x <= enqueued \/ x = op
  BY <1>1, NewQuery
<1>3. writes' \subseteq 1 .. enqueued'
  BY <1>1, <1>2 DEF PollInv, TypeOK
<1>4. ASSUME NEW x \in Ops PROVE Counted(x)'
  <2>1. Calls(x)' = Calls(x) + (IF x = op THEN 1 ELSE 0)
    OBVIOUS
  <2>2. Calls(x) = IF x <= enqueued /\ x \notin writes THEN 1 ELSE 0
    BY DEF PollInv
  <2>3. ~(op <= enqueued)
    BY <1>2 DEF TypeOK
  <2> QED BY <1>1, <1>2, <2>1, <2>2, <2>3 DEF Counted
<1> QED BY <1>3, <1>4

LEMMA PollInit == Init => PollInv
<1> SUFFICES ASSUME Init PROVE PollInv
  OBVIOUS
<1>1. \A op : Occurrences(op, Queries(<<>>)) = 0 /\ Occurrences(op, <<>>) = 0
  <2>1. <<>> \in Seq({}) /\ \A op : ~Among(op, <<>>)
    BY EmptySeq DEF Among
  <2> QED BY <2>1, NoCalls, OccurrencesType
<1>2. \A op \in Ops : Calls(op) = 0
  BY <1>1 DEF Init, Calls
<1>3. \A op \in Ops : ~(op <= enqueued)
  BY DEF Init, Ops
<1> QED BY <1>2, <1>3 DEF Init, PCQInit, PollInv

LEMMA PollStep == TypeOK /\ PollInv /\ [Next]_vars => PollInv'
<1> SUFFICES ASSUME TypeOK, PollInv, [Next]_vars PROVE PollInv'
  OBVIOUS
<1>0. ASSUME UNCHANGED <<callbacks, batch, kept, invoked, enqueued, writes>>
      PROVE  (\A op \in Ops : Counted(op)') /\ writes' \subseteq 1 .. enqueued'
  BY <1>0 DEF PollInv, Calls, Counted
<1>1. CASE EnqueueWrite
  <2>1. PICK op \in Ops : Last(op) /\ Push(op) /\ enqueued' = op /\ writes' = writes \cup {op}
    BY <1>1 DEF EnqueueWrite
  <2>2. op = enqueued + 1 /\ op \notin writes /\ \A x \in Ops : x <= op <=> x <= enqueued \/ x = op
    BY <2>1, NewQuery
  <2>3. writes' \subseteq 1 .. enqueued'
    BY <2>1, <2>2 DEF PollInv, TypeOK
  <2>4. ASSUME NEW x \in Ops PROVE Counted(x)'
    <3>1. Calls(x)' = Calls(x)
      BY <1>1 DEF EnqueueWrite, processor, Calls
    <3>2. Calls(x) = IF x <= enqueued /\ x \notin writes THEN 1 ELSE 0
      BY DEF PollInv
    <3>3. ~(op <= enqueued)
      BY <2>2 DEF TypeOK
    <3> QED BY <2>1, <2>2, <3>1, <3>2, <3>3 DEF Counted
  <2> QED BY <1>1, <2>1, <2>3, <2>4 DEF EnqueueWrite, processor, Push, PollInv, Counted
<1>2. CASE AsyncQuery
  <2>1. PICK op \in Ops, n \in 1 .. MaxChain :
          EnqueueQuery(op) /\ callbacks' = Append(callbacks, [query |-> op, left |-> n])
    BY <1>2 DEF AsyncQuery
  <2>2. ASSUME NEW x \in Ops PROVE Calls(x)' = Calls(x) + (IF x = op THEN 1 ELSE 0)
    <3>1. Occurrences(x, Queries(callbacks'))
            = Occurrences(x, Queries(callbacks)) + (IF x = op THEN 1 ELSE 0)
      <4>1. [query |-> op, left |-> n] \in Callbacks
        BY DEF Callbacks
      <4> QED BY <2>1, <4>1, CallsAppend DEF TypeOK
    <3>2. UNCHANGED <<batch, kept, invoked>>
      BY <1>2 DEF AsyncQuery
    <3> QED BY <3>1, <3>2, CallsTypes DEF Calls
  <2>3. (\A x \in Ops : Counted(x)') /\ writes' \subseteq 1 .. enqueued'
    BY <2>1, <2>2, CountedQuery
  <2> QED BY <1>2, <2>1, <2>3 DEF AsyncQuery, EnqueueQuery, Push, PollInv, Counted
<1>3. CASE BeginPoll
  <2>1. batch = <<>> /\ batch' = callbacks /\ callbacks' = batch
        /\ UNCHANGED <<kept, invoked, enqueued, writes, shutdown>>
    BY <1>3 DEF BeginPoll, PollInv, pool
  <2>2. ASSUME NEW x \in Ops PROVE Calls(x)' = Calls(x)
    BY <2>1, CallsTypes DEF Calls
  <2> QED BY <1>3, <2>1, <2>2 DEF BeginPoll, PollInv
<1>4. CASE KeepPending
  <2>1. /\ batch # <<>> /\ batch' = Tail(batch) /\ kept' = Append(kept, Head(batch))
        /\ UNCHANGED <<callbacks, invoked, enqueued, writes, shutdown>>
        /\ Head(batch) \in Callbacks /\ batch \in Seq(Callbacks) /\ kept \in Seq(Callbacks)
        /\ batch' \in Seq(Callbacks)
    BY <1>4, HeadTypes DEF KeepPending, pool, TypeOK
  <2>2. ASSUME NEW x \in Ops PROVE Calls(x)' = Calls(x)
    <3>1. Occurrences(x, Queries(kept'))
            = Occurrences(x, Queries(kept)) + (IF x = Head(batch).query THEN 1 ELSE 0)
      BY <2>1, CallsAppend
    <3>2. Occurrences(x, Queries(batch))
            = Occurrences(x, Queries(batch')) + (IF x = Head(batch).query THEN 1 ELSE 0)
      BY <2>1, CallsTail
    <3>3. Occurrences(x, Queries(batch')) \in Nat
      BY <2>1, QueriesType, OccurrencesType
    <3> QED BY <2>1, <3>1, <3>2, <3>3, CallsTypes DEF Calls
  <2> QED BY <1>4, <2>1, <2>2 DEF KeepPending, PollInv
<1>5. CASE InvokeAndFinish
  <2>1. ASSUME NEW x \in Ops PROVE Calls(x)' = Calls(x)
    <3>1. Occurrences(x, Queries(batch)) + Occurrences(x, invoked)
            = Occurrences(x, Queries(batch')) + Occurrences(x, invoked')
          /\ Occurrences(x, Queries(batch')) \in Nat /\ Occurrences(x, invoked') \in Nat
      BY <1>5, ReadyCalls DEF InvokeAndFinish
    <3>2. UNCHANGED <<callbacks, kept>>
      BY <1>5 DEF InvokeAndFinish, Ready
    <3> QED BY <3>1, <3>2, CallsTypes DEF Calls
  <2> QED BY <1>5, <2>1 DEF InvokeAndFinish, Ready, pool, PollInv
<1>6. CASE InvokeAndChain
  <2>1. PICK op \in Ops :
          EnqueueQuery(op) /\ kept' = Append(kept, [query |-> op, left |-> Head(batch).left - 1])
    BY <1>6 DEF InvokeAndChain
  <2>2. ASSUME NEW x \in Ops PROVE Calls(x)' = Calls(x) + (IF x = op THEN 1 ELSE 0)
    <3>1. Occurrences(x, Queries(batch)) + Occurrences(x, invoked)
            = Occurrences(x, Queries(batch')) + Occurrences(x, invoked')
          /\ Occurrences(x, Queries(batch')) \in Nat /\ Occurrences(x, invoked') \in Nat
      BY <1>6, ReadyCalls DEF InvokeAndChain
    <3>2. UNCHANGED callbacks
      BY <1>6 DEF InvokeAndChain, Ready
    <3>3. Occurrences(x, Queries(kept'))
            = Occurrences(x, Queries(kept)) + (IF x = op THEN 1 ELSE 0)
      <4>1. Head(batch).left - 1 \in 1 .. MaxChain
        BY <1>6, HeadTypes, BoundsAssumption DEF InvokeAndChain, Ready
      <4>2. [query |-> op, left |-> Head(batch).left - 1] \in Callbacks
        BY <4>1 DEF Callbacks
      <4> QED BY <2>1, <4>2, CallsAppend DEF TypeOK
    <3> QED BY <3>1, <3>2, <3>3, CallsTypes DEF Calls
  <2>3. (\A x \in Ops : Counted(x)') /\ writes' \subseteq 1 .. enqueued'
    BY <2>1, <2>2, CountedQuery
  <2> QED BY <1>6, <2>1, <2>3 DEF InvokeAndChain, Ready, EnqueueQuery, Push, PollInv, Counted
<1>7. CASE InvokeAndAdd
  <2>1. PICK op \in Ops :
          EnqueueQuery(op) /\ callbacks' = Append(callbacks, [query |-> op, left |-> 1])
    BY <1>7 DEF InvokeAndAdd
  <2>2. ASSUME NEW x \in Ops PROVE Calls(x)' = Calls(x) + (IF x = op THEN 1 ELSE 0)
    <3>1. Occurrences(x, Queries(batch)) + Occurrences(x, invoked)
            = Occurrences(x, Queries(batch')) + Occurrences(x, invoked')
          /\ Occurrences(x, Queries(batch')) \in Nat /\ Occurrences(x, invoked') \in Nat
      BY <1>7, ReadyCalls DEF InvokeAndAdd
    <3>2. UNCHANGED kept
      BY <1>7 DEF InvokeAndAdd, Ready
    <3>3. Occurrences(x, Queries(callbacks'))
            = Occurrences(x, Queries(callbacks)) + (IF x = op THEN 1 ELSE 0)
      <4>1. [query |-> op, left |-> 1] \in Callbacks
        BY BoundsAssumption DEF Callbacks
      <4> QED BY <2>1, <4>1, CallsAppend DEF TypeOK
    <3> QED BY <3>1, <3>2, <3>3, CallsTypes DEF Calls
  <2>3. (\A x \in Ops : Counted(x)') /\ writes' \subseteq 1 .. enqueued'
    BY <2>1, <2>2, CountedQuery
  <2> QED BY <1>7, <2>1, <2>3 DEF InvokeAndAdd, Ready, EnqueueQuery, Push, PollInv, Counted
<1>8. CASE EndPoll
  <2>1. /\ batch = <<>> /\ batch' = <<>> /\ kept' = <<>> /\ callbacks' = callbacks \o kept
        /\ UNCHANGED <<invoked, enqueued, writes, shutdown>> /\ world = "poll" /\ world' = "update"
        /\ callbacks \in Seq(Callbacks) /\ kept \in Seq(Callbacks)
    BY <1>8 DEF EndPoll, pool, TypeOK
  <2>2. ASSUME NEW x \in Ops PROVE Calls(x)' = Calls(x)
    <3>1. Occurrences(x, Queries(callbacks')) = Occurrences(x, Queries(callbacks)) + Occurrences(x, Queries(kept))
      <4>1. Queries(callbacks') = Queries(callbacks) \o Queries(kept)
        BY <2>1, QueriesConcat
      <4>2. Queries(callbacks) \in Seq(Ops) /\ Queries(kept) \in Seq(Ops)
        BY <2>1, QueriesType
      <4> QED BY <4>1, <4>2, OccurrencesConcat
    <3> QED BY <2>1, <3>1, CallsTypes, NoCalls DEF Calls
  <2> QED BY <2>1, <2>2 DEF PollInv
<1>9. ASSUME NEW w \in Workers, DestroyWorker(w) \/ JoinWorker(w) PROVE PollInv'
  BY <1>0, <1>9 DEF DestroyWorker, JoinWorker, processor, PollInv, Counted
<1>10. CASE CancelQueue
  BY <1>0, <1>10 DEF CancelQueue, processor, PollInv, Counted
<1>11. ASSUME NEW w \in Workers, WorkerStep(w) \/ WakeForNothing(w) PROVE PollInv'
  <2>1. UNCHANGED <<callbacks, batch, kept, invoked, enqueued, writes, world, shutdown>>
    BY <1>11 DEF WorkerStep, WakeForNothing, GoToSleep, Receive, Exit, Start, Finish,
                 Sleep, SpuriousWake, Take, GiveUp, pcqVars, pool, processor
  <2> QED BY <1>0, <2>1 DEF PollInv, Counted
<1>12. CASE UNCHANGED vars
  BY <1>0, <1>12 DEF vars, PollInv, Counted
<1> QED BY <1>1, <1>2, <1>3, <1>4, <1>5, <1>6, <1>7, <1>8, <1>9, <1>10, <1>11, <1>12
        DEF Next, Poll, Close

-----------------------------------------------------------------------------
(* Answers.                                                                *)

LEMMA AnswerStep == TypeOK /\ HandsInv /\ AnswerInv /\ [Next]_vars => AnswerInv'
<1> SUFFICES ASSUME TypeOK, HandsInv, AnswerInv, [Next]_vars PROVE AnswerInv'
  OBVIOUS
<1>1. ASSUME done' = done, future' = future, invoked' = invoked PROVE AnswerInv'
  BY <1>1 DEF AnswerInv
<1>2. ASSUME done' = done, NEW op \in Ops, EnqueueQuery(op)
      PROVE  \A x \in Ops : future'[x] = "ready" => Among(x, done')
  BY <1>2 DEF EnqueueQuery, AnswerInv, TypeOK
<1>3. ASSUME done' = done, Ready PROVE \A i \in 1 .. Len(invoked') : Among(invoked'[i], done')
  <2>1. Head(batch).query \in Ops /\ Among(Head(batch).query, done)
    BY <1>3, HeadTypes DEF Ready, AnswerInv
  <2>2. \A i \in 1 .. Len(invoked') :
          invoked'[i] = Head(batch).query \/ \E j \in 1 .. Len(invoked) : invoked'[i] = invoked[j]
    BY <1>3, <2>1 DEF Ready, TypeOK
  <2> QED BY <1>3, <2>1, <2>2 DEF AnswerInv
<1>4. CASE EnqueueWrite
  BY <1>1, <1>4 DEF EnqueueWrite, processor
<1>5. CASE AsyncQuery
  <2>1. PICK op \in Ops : EnqueueQuery(op)
    BY <1>5 DEF AsyncQuery
  <2>2. done' = done /\ invoked' = invoked
    BY <1>5, <2>1 DEF AsyncQuery, EnqueueQuery
  <2> QED BY <1>2, <2>1, <2>2 DEF AnswerInv
<1>6. CASE BeginPoll \/ KeepPending \/ EndPoll
  BY <1>1, <1>6 DEF BeginPoll, KeepPending, EndPoll, pool
<1>7. CASE InvokeAndFinish
  <2>1. done' = done /\ future' = future
    BY <1>7 DEF InvokeAndFinish, pool
  <2> QED BY <1>3, <1>7, <2>1 DEF InvokeAndFinish, AnswerInv
<1>8. CASE InvokeAndChain \/ InvokeAndAdd
  <2>1. PICK op \in Ops : EnqueueQuery(op)
    BY <1>8 DEF InvokeAndChain, InvokeAndAdd
  <2>2. done' = done /\ Ready
    BY <1>8, <2>1 DEF InvokeAndChain, InvokeAndAdd, EnqueueQuery
  <2> QED BY <1>2, <1>3, <2>1, <2>2 DEF AnswerInv
<1>9. ASSUME NEW w \in Workers, DestroyWorker(w) \/ JoinWorker(w) PROVE AnswerInv'
  BY <1>1, <1>9 DEF DestroyWorker, JoinWorker, processor
<1>10. CASE CancelQueue
  <2>1. \A op \in Ops : future'[op] = "ready" => future[op] = "ready"
    BY <1>10 DEF CancelQueue
  <2>2. done' = done /\ invoked' = invoked
    BY <1>10 DEF CancelQueue, processor
  <2> QED BY <2>1, <2>2 DEF AnswerInv
<1>11. ASSUME NEW w \in Workers,
              GoToSleep(w) \/ WakeForNothing(w) \/ Receive(w) \/ Exit(w) \/ Start(w)
       PROVE  AnswerInv'
  BY <1>1, <1>11 DEF GoToSleep, WakeForNothing, Receive, Exit, Start, pool, processor
<1>12. ASSUME NEW w \in Workers, Finish(w) PROVE AnswerInv'
  <2>1. worker[w].op \in Ops /\ done \in Seq(Ops) /\ done' = Append(done, worker[w].op)
    BY <1>12 DEF Finish, HandsInv, TypeOK
  <2>2. \A x : Among(x, done') <=> x = worker[w].op \/ Among(x, done)
    BY <2>1, OccurrencesAppend
  <2>3. invoked' = invoked /\ \A x \in Ops : future'[x] = "ready" =>
          x = worker[w].op \/ future[x] = "ready"
    BY <1>12, <2>1 DEF Finish, processor, TypeOK
  <2> QED BY <2>2, <2>3 DEF AnswerInv
<1>13. CASE UNCHANGED vars
  BY <1>1, <1>13 DEF vars
<1> QED BY <1>4, <1>5, <1>6, <1>7, <1>8, <1>9, <1>10, <1>11, <1>12, <1>13
        DEF Next, Poll, Close, WorkerStep

-----------------------------------------------------------------------------
(* The order of the operations.                                            *)

Work == (\E n \in 0 .. enqueued : Segment(n)) /\ HandsInv /\ DoneInv

LEMMA WorkInit == Init => Work
<1> SUFFICES ASSUME Init PROVE Work
  OBVIOUS
<1>1. Taken = {}
  BY BoundsAssumption DEF Init, Taken, Among, Ops
<1>2. Segment(0)
  BY <1>1, EmptySeq DEF Init, PCQInit, Segment
<1>3. HandsInv
  BY DEF Init, HandsInv
<1>4. DoneInv
  BY EmptySeq DEF Init, DoneInv
<1> QED BY <1>2, <1>3, <1>4 DEF Work, Init

\* A step that touches neither the workers nor what was done.
LEMMA WorkEnqueue ==
  ASSUME TypeOK, Work, UNCHANGED <<worker, done, started>>, ~shutdown,
         NEW op \in Ops, Last(op), Push(op), enqueued' = op
  PROVE  Work'
<1>1. PICK n \in 0 .. enqueued : Segment(n)
  BY DEF Work
<1>2. op = enqueued + 1 /\ enqueued \in Nat /\ queue \in Seq(Ops)
      /\ queue' = Append(queue, op) /\ shutdown' = shutdown
  BY DEF Last, Push, TypeOK
<1>3. Segment(n)'
  <2>1. Taken' = Taken
    BY DEF Taken
  <2>2. Len(queue') = enqueued' - n
    <3>1. Len(queue) = enqueued - n /\ Len(queue') = Len(queue) + 1
      BY <1>1, <1>2 DEF Segment
    <3> QED BY <1>2, <3>1
  <2>3. \A i \in 1 .. Len(queue') : queue'[i] = n + i
    <3>1. /\ Len(queue) = enqueued - n /\ \A i \in 1 .. Len(queue) : queue[i] = n + i
          /\ Len(queue') = Len(queue) + 1
      BY <1>1, <1>2 DEF Segment
    <3>2. \A i \in 1 .. Len(queue') : queue'[i] = IF i = Len(queue) + 1 THEN op ELSE queue[i]
      BY <1>2
    <3> QED BY <1>2, <3>1, <3>2
  <2> QED BY <1>1, <1>2, <2>1, <2>2, <2>3 DEF Segment
<1>4. n \in 0 .. enqueued'
  BY <1>2
<1> QED BY <1>3, <1>4 DEF Work, HandsInv, DoneInv, Taken

LEMMA WorkSame ==
  ASSUME Work, UNCHANGED <<worker, done, started, queue, shutdown, enqueued>>
  PROVE  Work'
BY DEF Work, Segment, Taken, HandsInv, DoneInv

\* The next operation goes from the queue into the hands of a worker.
LEMMA WorkTake ==
  ASSUME TypeOK, Work, NEW w \in Workers, worker[w].at = "calling", Take(w, Head(queue)),
         worker' = [worker EXCEPT ![w] = [at |-> "popped", op |-> Head(queue)]],
         UNCHANGED <<done, started, enqueued>>
  PROVE  Work'
<1>1. PICK n \in 0 .. enqueued : Segment(n)
  BY DEF Work
<1>2. /\ ~shutdown /\ ~shutdown' /\ queue # <<>> /\ queue' = Tail(queue) /\ queue \in Seq(Ops)
      /\ worker[w].op = NoOp
  BY Zenon DEF Take, TypeOK, Work, HandsInv
<1>3. /\ Head(queue) = n + 1 /\ n + 1 \in Ops /\ n + 1 \in 0 .. enqueued
      /\ Len(queue') = enqueued - (n + 1) /\ \A i \in 1 .. Len(queue') : queue'[i] = (n + 1) + i
  <2>1. /\ Len(queue) \in Nat \ {0} /\ Head(queue) = queue[1] /\ Head(queue) \in Ops
        /\ Len(queue') = Len(queue) - 1 /\ \A i \in 1 .. Len(queue') : queue'[i] = queue[i + 1]
    BY <1>2, HeadTailProperties, EmptySeq
  <2>2. Len(queue) = enqueued - n /\ \A i \in 1 .. Len(queue) : queue[i] = n + i
    BY <1>1, <1>2 DEF Segment
  <2>3. enqueued \in Nat
    BY DEF TypeOK
  <2> QED BY <2>1, <2>2, <2>3
<1>4. Taken = 1 .. n /\ n + 1 \notin Taken
  BY <1>1 DEF Segment
<1>5. Taken' = Taken \cup {n + 1}
  <2>1. \A v \in Workers : worker'[v].op = IF v = w THEN n + 1 ELSE worker[v].op
    BY <1>3 DEF TypeOK
  <2>2. ASSUME NEW op \in Ops PROVE op \in Taken' <=> op \in Taken \/ op = n + 1
    <3>1. op # NoOp
      BY BoundsAssumption DEF Ops
    <3> QED BY <1>2, <2>1, <3>1 DEF Taken
  <2>3. Taken' \subseteq Ops /\ Taken \subseteq Ops
    BY DEF Taken
  <2> QED BY <1>3, <2>2, <2>3
<1>6. Segment(n + 1)'
  <2>1. 1 .. n + 1 = (1 .. n) \cup {n + 1}
    BY <1>1
  <2> QED BY <1>2, <1>3, <1>4, <1>5, <2>1 DEF Segment
<1>7. HandsInv'
  <2>1. \A v \in Workers : worker'[v] = IF v = w THEN [at |-> "popped", op |-> n + 1] ELSE worker[v]
    BY <1>3 DEF TypeOK
  <2>2. ~Among(n + 1, done) /\ \A v \in Workers : worker[v].op # n + 1
    BY <1>3, <1>4 DEF Taken
  <2> QED BY <2>1, <2>2 DEF Work, HandsInv
<1>8. DoneInv'
  BY <1>5 DEF Work, DoneInv
<1>9. (\E m \in 0 .. enqueued : Segment(m))'
  BY <1>3, <1>6
<1> QED BY <1>7, <1>8, <1>9 DEF Work

\* An operation goes from the hands of a worker to the executed ones.
LEMMA WorkFinish ==
  ASSUME TypeOK, Work, NEW w \in Workers, Finish(w)
  PROVE  Work'
<1> DEFINE op == worker[w].op
<1>1. /\ op \in Ops /\ done \in Seq(Ops) /\ done' = Append(done, op) /\ op # NoOp
      /\ ~Among(op, done) /\ \A v \in Workers : worker[v].op = op => v = w
  BY BoundsAssumption DEF Finish, Work, HandsInv, TypeOK, Ops
<1>2. \A v \in Workers : worker'[v] = IF v = w THEN [at |-> "calling", op |-> NoOp] ELSE worker[v]
  BY DEF Finish, TypeOK
<1>3. UNCHANGED <<queue, shutdown, enqueued, started>>
  BY DEF Finish
<1>4. \A x : Among(x, done') <=> x = op \/ Among(x, done)
  BY <1>1, OccurrencesAppend
<1>5. Len(done) \in Nat /\ Len(done') = Len(done) + 1
      /\ \A i \in 1 .. Len(done') : done'[i] = IF i = Len(done) + 1 THEN op ELSE done[i]
  BY <1>1
<1>6. op \in Taken
  BY <1>1 DEF Taken
<1>7. Taken' = Taken
  <2>1. ASSUME NEW x \in Ops PROVE x \in Taken' <=> x \in Taken
    <3>1. x # NoOp
      BY BoundsAssumption DEF Ops
    <3>2. (\E v \in Workers : worker'[v].op = x) <=> \E v \in Workers : v # w /\ worker[v].op = x
      BY <1>2, <3>1
    <3> QED BY <1>4, <1>6, <3>2 DEF Taken
  <2> QED BY <2>1 DEF Taken
<1> HIDE DEF op
<1>8. HandsInv'
  BY <1>1, <1>2, <1>4 DEF Work, HandsInv
<1>9. DoneInv'
  <2>1. \A i \in 1 .. Len(done) : done[i] # op
    BY <1>1 DEF Among
  <2>2. ASSUME NEW i \in 1 .. Len(done'), NEW j \in 1 .. Len(done'), done'[i] = done'[j] PROVE i = j
    BY <1>5, <2>1, <2>2 DEF Work, DoneInv
  <2>3. ASSUME Cardinality(Workers) = 1, NEW i \in 1 .. Len(done') PROVE done'[i] = i
    <3>1. PICK n \in 0 .. enqueued : Taken = 1 .. n
      BY DEF Work, Segment
    <3>2. Workers = {w}
      BY <2>3, WorkersAssumption, FS_Singleton
    <3>3. \A k \in 1 .. Len(done) : done[k] = k
      BY <2>3 DEF Work, DoneInv
    <3>4. \A x \in Ops : x \in Taken <=> x \in 1 .. Len(done) \/ x = op
      BY <3>2, <3>3 DEF Taken, Among, op
    <3>5. op \in Nat \ {0} /\ ~(op \in 1 .. Len(done)) /\ op \in 1 .. n /\ 1 .. n \subseteq Ops
      BY <1>1, <1>6, <3>1, <3>3 DEF Among, Ops, Taken
    <3>6. op = Len(done) + 1
      <4> SUFFICES ASSUME op > Len(done) + 1 PROVE FALSE
        BY <1>5, <3>5
      <4>1. Len(done) + 1 \in 1 .. n
        BY <1>5, <3>1, <3>5
      <4> QED BY <1>5, <3>1, <3>4, <3>5, <4>1
    <3> QED BY <1>5, <3>3, <3>6
  <2> QED BY <1>3, <1>7, <2>2, <2>3 DEF Work, DoneInv
<1>10. (\E n \in 0 .. enqueued : Segment(n))'
  BY <1>3, <1>7 DEF Work, Segment
<1> QED BY <1>8, <1>9, <1>10 DEF Work

LEMMA WorkStep == TypeOK /\ PollInv /\ Work /\ [Next]_vars => Work'
<1> SUFFICES ASSUME TypeOK, PollInv, Work, [Next]_vars PROVE Work'
  OBVIOUS
<1>1. CASE EnqueueWrite
  <2>1. PICK op \in Ops : Last(op) /\ Push(op) /\ enqueued' = op
    BY <1>1 DEF EnqueueWrite
  <2>2. ~shutdown /\ UNCHANGED <<worker, done, started>>
    BY <1>1 DEF EnqueueWrite, PollInv
  <2> QED BY <2>1, <2>2, WorkEnqueue
<1>2. CASE AsyncQuery \/ InvokeAndChain \/ InvokeAndAdd
  <2>1. PICK op \in Ops : EnqueueQuery(op)
    BY <1>2 DEF AsyncQuery, InvokeAndChain, InvokeAndAdd
  <2>2. ~shutdown /\ UNCHANGED <<worker, done, started>>
    BY <1>2, <2>1 DEF AsyncQuery, InvokeAndChain, InvokeAndAdd, Ready, EnqueueQuery, PollInv
  <2> QED BY <2>1, <2>2, WorkEnqueue DEF EnqueueQuery
<1>3. CASE BeginPoll \/ KeepPending \/ InvokeAndFinish \/ EndPoll
  BY <1>3, WorkSame DEF BeginPoll, KeepPending, InvokeAndFinish, EndPoll, pool
<1>4. ASSUME NEW w \in Workers, DestroyWorker(w) \/ JoinWorker(w) PROVE Work'
  BY <1>4, WorkSame DEF DestroyWorker, JoinWorker
<1>5. CASE CancelQueue
  <2>1. /\ UNCHANGED <<worker, done, started, enqueued>> /\ queue' = <<>> /\ shutdown' = TRUE
    BY <1>5 DEF CancelQueue, Cancel
  <2>2. PICK n \in 0 .. enqueued : Segment(n)
    BY DEF Work
  <2>3. Segment(n)'
    BY <2>1, <2>2 DEF Segment, Taken
  <2> QED BY <2>1, <2>3 DEF Work, HandsInv, DoneInv, Taken
<1>6. ASSUME NEW w \in Workers, GoToSleep(w) \/ WakeForNothing(w) PROVE Work'
  BY <1>6, WorkSame DEF GoToSleep, WakeForNothing, Sleep, SpuriousWake, pool
<1>7. ASSUME NEW w \in Workers, Receive(w) PROVE Work'
  <2>1. CASE Take(w, Head(queue)) /\ worker' = [worker EXCEPT ![w] = [at |-> "popped", op |-> Head(queue)]]
    BY <1>7, <2>1, WorkTake DEF Receive
  <2>2. CASE GiveUp(w) /\ worker' = [worker EXCEPT ![w].at = "popped"]
    <3>1. UNCHANGED <<queue, shutdown, enqueued, done, started>>
      BY <1>7, <2>2 DEF Receive, GiveUp, pcqVars
    <3>2. \A v \in Workers : worker'[v].op = worker[v].op
                             /\ worker'[v].at = IF v = w THEN "popped" ELSE worker[v].at
      BY <2>2 DEF TypeOK
    <3> QED BY <3>1, <3>2 DEF Work, Segment, Taken, HandsInv, DoneInv
  <2> QED BY <1>7, <2>1, <2>2 DEF Receive
<1>8. ASSUME NEW w \in Workers, Exit(w) PROVE Work'
  <2>1. UNCHANGED <<queue, shutdown, enqueued, done, started>>
    BY <1>8 DEF Exit
  <2>2. \A v \in Workers : worker'[v].op = worker[v].op
                           /\ worker'[v].at = IF v = w THEN "gone" ELSE worker[v].at
    BY <1>8 DEF Exit, TypeOK
  <2> QED BY <2>1, <2>2 DEF Work, Segment, Taken, HandsInv, DoneInv
<1>9. ASSUME NEW w \in Workers, Start(w) PROVE Work'
  <2>1. UNCHANGED <<queue, shutdown, enqueued, done>> /\ started' = Append(started, worker[w].op)
        /\ worker[w].op \in Ops /\ worker[w].op # NoOp /\ started \in Seq(Ops)
    BY <1>9 DEF Start, TypeOK
  <2>2. \A v \in Workers : worker'[v].op = worker[v].op
                           /\ worker'[v].at = IF v = w THEN "executing" ELSE worker[v].at
    BY <1>9 DEF Start, TypeOK
  <2>3. Taken' = Taken /\ worker[w].op \in Taken
    BY <2>1, <2>2 DEF Taken
  <2>4. \A i \in 1 .. Len(started') : started'[i] \in Taken
    BY <2>1, <2>3 DEF Work, DoneInv
  <2>5. HandsInv'
    BY <2>1, <2>2 DEF Work, HandsInv
  <2> QED BY <2>1, <2>3, <2>4, <2>5 DEF Work, Segment, DoneInv
<1>10. ASSUME NEW w \in Workers, Finish(w) PROVE Work'
  BY <1>10, WorkFinish
<1>11. CASE UNCHANGED vars
  BY <1>11, WorkSame DEF vars
<1> QED BY <1>1, <1>2, <1>3, <1>4, <1>5, <1>6, <1>7, <1>8, <1>9, <1>10, <1>11
        DEF Next, Poll, Close, WorkerStep

-----------------------------------------------------------------------------
\* Every behaviour of the pool keeps the inductive invariant.
THEOREM Invariant == Spec => []Inv
<1>1. Init => Inv
  BY TypeInit, WorkInit, PollInit, EmptySeq DEF Init, Inv, Work, AnswerInv
<1>2. Inv /\ [Next]_vars => Inv'
  <2>1. Inv => TypeOK /\ HandsInv /\ AnswerInv /\ PollInv /\ Work
    BY DEF Inv, Work
  <2>2. TypeOK' /\ AnswerInv' /\ PollInv' /\ Work' => Inv'
    BY DEF Inv, Work
  <2> QED BY <2>1, <2>2, TypeStep, AnswerStep, PollStep, WorkStep
<1> QED BY <1>1, <1>2, PTL DEF Spec

\* The queue, the workers and the lists of the processor keep their types, for any number
\* of workers and operations.
THEOREM TypeCorrect == Spec => []TypeOK
<1>1. Inv => TypeOK
  BY DEF Inv
<1> QED BY <1>1, Invariant, PTL

\* However many workers share the queue, no operation is executed twice, and none is begun
\* while an older one is neither executed nor in a worker's hands; one worker alone
\* executes them in the order of Enqueue.
THEOREM NothingOvertakes == Spec => []NoOvertaking
<1>1. Inv => NoOvertaking
  <2> SUFFICES ASSUME Inv PROVE NoOvertaking
    OBVIOUS
  <2>1. PICK n \in 0 .. enqueued : Taken = 1 .. n
    BY DEF Inv, Segment
  <2>2. ASSUME NEW i \in 1 .. Len(started), NEW op \in 1 .. started[i] PROVE op \in Taken
    <3>1. started[i] \in 1 .. n
      BY <2>1 DEF Inv, DoneInv
    <3> QED BY <2>1, <2>2, <3>1
  <2> QED BY <2>2 DEF Inv, DoneInv, NoOvertaking, Taken
<1> QED BY <1>1, Invariant, PTL

\* A query given a callback is waited for in exactly one list of the processor or was
\* answered once, after its execution, whatever the callbacks add while they are polled.
THEOREM CallbacksOnce == Spec => []CallbackOnce
<1>1. Inv => CallbackOnce
  <2> SUFFICES ASSUME Inv PROVE CallbackOnce
    OBVIOUS
  <2>1. ASSUME NEW op \in 1 .. enqueued PROVE Calls(op) = IF op \in writes THEN 0 ELSE 1
    <3>1. op \in Ops /\ op <= enqueued
      BY BoundsAssumption DEF Inv, TypeOK, Ops
    <3> QED BY <3>1 DEF Inv, PollInv
  <2> QED BY <2>1 DEF Inv, AnswerInv, CallbackOnce
<1> QED BY <1>1, Invariant, PTL
=============================================================================
