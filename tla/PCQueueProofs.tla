--------------------------- MODULE PCQueueProofs ---------------------------
(***************************************************************************)
(* The producer/consumer queue for any number of consumers: elements leave *)
(* it in the order of their pushes, and one notify per push wakes enough   *)
(* of them.                                                                *)
(***************************************************************************)
EXTENDS PCQueueClients, FiniteSetTheorems, SequenceTheorems, TLAPS

\* What Cancel deletes stays empty until the shutdown, so a later Take never
\* follows a deletion.
Inv == TypeOK /\ FIFO /\ (~shutdown => deleted = <<>>)

\* Every variable keeps its type.
THEOREM TypeCorrect == Spec => []TypeOK
<1> USE MaxPushesAssumption DEF TypeOK, Values
<1>1. Init => TypeOK
  BY EmptySeq DEF Init, PCQInit
<1>2. TypeOK /\ [Next]_vars => TypeOK'
  <2> SUFFICES ASSUME TypeOK, [Next]_vars PROVE TypeOK'
    OBVIOUS
  <2>1. CASE Produce
    BY <2>1 DEF Produce, Push, NotifyOne
  <2>2. ASSUME NEW c \in Consumers, GoToSleep(c) \/ WakeForNothing(c) PROVE TypeOK'
    BY <2>2 DEF GoToSleep, WakeForNothing, Sleep, SpuriousWake
  <2>3. ASSUME NEW c \in Consumers, Receive(c) PROVE TypeOK'
    <3>1. Head(queue) \in Values /\ Tail(queue) \in Seq(Values)
      BY <2>3, HeadTailProperties DEF Receive, Take
    <3> QED
      BY <2>3, <3>1 DEF Receive, Take
  <2>4. ASSUME NEW c \in Consumers, CallAgain(c) \/ Leave(c) PROVE TypeOK'
    BY <2>4 DEF CallAgain, Leave, GiveUp, pcqVars
  <2>5. CASE CancelOnce
    <3>1. deleted' \in Seq(Values) /\ queue' \in Seq(Values)
      BY <2>5, ConcatProperties, EmptySeq DEF CancelOnce, Cancel
    <3> QED
      BY <2>5, <3>1 DEF CancelOnce, Cancel
  <2>6. CASE UNCHANGED vars
    BY <2>6 DEF vars
  <2> QED
    BY <2>1, <2>2, <2>3, <2>4, <2>5, <2>6 DEF Next, ConsumerStep
<1> QED
  BY <1>1, <1>2, PTL DEF Spec

-----------------------------------------------------------------------------
\* Appending at the end of a concatenation.
LEMMA ConcatAppend ==
  ASSUME NEW S, NEW s \in Seq(S), NEW t \in Seq(S), NEW e \in S
  PROVE  s \o Append(t, e) = Append(s \o t, e)
BY SeqEqual, ConcatProperties

\* Moving the head of the second part to the end of the first.
LEMMA MoveHead ==
  ASSUME NEW S, NEW s \in Seq(S), NEW t \in Seq(S), t # <<>>
  PROVE  Append(s, Head(t)) \o Tail(t) = s \o t
<1>1. Head(t) \in S /\ Tail(t) \in Seq(S) /\ Len(Tail(t)) = Len(t) - 1
  BY HeadTailProperties
<1>2. Append(s, Head(t)) \in Seq(S)
  BY <1>1
<1>3. Append(s, Head(t)) \o Tail(t) \in Seq(S) /\ s \o t \in Seq(S)
  BY <1>1, <1>2, ConcatProperties
<1>4. Len(Append(s, Head(t)) \o Tail(t)) = Len(s \o t)
  BY <1>1, <1>2, ConcatProperties
<1>5. ASSUME NEW i \in 1 .. Len(s \o t)
      PROVE  (Append(s, Head(t)) \o Tail(t))[i] = (s \o t)[i]
  BY <1>1, <1>2, <1>5, ConcatProperties
<1> QED
  BY <1>3, <1>4, <1>5, SeqEqual

\* First in, first out; nothing twice, nothing unaccounted for.
THEOREM FIFOHolds == Spec => []FIFO
<1>1. Init => Inv
  <2> SUFFICES ASSUME Init PROVE Inv
    OBVIOUS
  <2>1. TypeOK
    BY EmptySeq DEF Init, PCQInit, TypeOK
  <2>2. <<>> \o <<>> \o <<>> = <<>>
    BY EmptySeq, ConcatEmptySeq
  <2> QED
    BY <2>1, <2>2 DEF Inv, Init, PCQInit, FIFO
<1>2. Inv /\ TypeOK' /\ [Next]_vars => Inv'
  <2> SUFFICES ASSUME Inv, TypeOK', [Next]_vars
               PROVE  FIFO' /\ (~shutdown => deleted = <<>>)'
    BY DEF Inv
  <2> USE DEF Inv
  <2>1. CASE Produce
    <3> DEFINE v == Len(pushed) + 1
    <3>1. v \in Values
      BY <2>1, MaxPushesAssumption DEF Produce, Values, TypeOK
    <3>2. taken \o deleted \in Seq(Values)
      BY ConcatProperties DEF TypeOK
    <3> HIDE DEF v
    <3>3. (taken \o deleted) \o Append(queue, v) = Append((taken \o deleted) \o queue, v)
      BY <3>1, <3>2, ConcatAppend DEF TypeOK
    <3>4. pushed' = Append(pushed, v) /\ queue' = Append(queue, v)
      BY <2>1 DEF Produce, Push, v
    <3> QED
      BY <2>1, <3>3, <3>4 DEF Produce, Push, FIFO
  <2>2. ASSUME NEW c \in Consumers, Receive(c)
        PROVE  FIFO' /\ (~shutdown => deleted = <<>>)'
    <3>1. deleted = <<>> /\ queue # <<>>
      BY <2>2 DEF Receive, Take
    <3>2. taken' \o queue' = taken \o queue
      BY <2>2, <3>1, MoveHead DEF Receive, Take, TypeOK
    <3>3. taken \o deleted = taken /\ taken' \o deleted' = taken'
      BY <2>2, <3>1, ConcatEmptySeq DEF Receive, TypeOK
    <3> QED
      BY <2>2, <3>1, <3>2, <3>3 DEF Receive, Take, FIFO
  <2>3. CASE CancelOnce
    <3>1. deleted' = queue /\ queue' = <<>> /\ shutdown' /\ UNCHANGED <<taken, pushed>>
      BY <2>3, ConcatEmptySeq DEF CancelOnce, Cancel, TypeOK
    <3>2. taken \o deleted = taken
      BY <2>3, ConcatEmptySeq DEF CancelOnce, TypeOK
    <3>3. taken \o queue \in Seq(Values)
      BY ConcatProperties DEF TypeOK
    <3>4. (taken \o queue) \o <<>> = taken \o queue
      BY <3>3, ConcatEmptySeq
    <3> QED
      BY <3>1, <3>2, <3>4 DEF FIFO
  <2>4. ASSUME NEW c \in Consumers,
               GoToSleep(c) \/ WakeForNothing(c) \/ CallAgain(c) \/ Leave(c)
        PROVE  FIFO' /\ (~shutdown => deleted = <<>>)'
    BY <2>4 DEF GoToSleep, WakeForNothing, CallAgain, Leave, Sleep, SpuriousWake,
                GiveUp, pcqVars, FIFO
  <2>5. CASE UNCHANGED vars
    BY <2>5 DEF vars, FIFO
  <2> QED
    BY <2>1, <2>2, <2>3, <2>4, <2>5 DEF Next, ConsumerStep
<1> QED
  BY <1>1, <1>2, TypeCorrect, PTL DEF Spec, Inv

-----------------------------------------------------------------------------
\* A sleeper that wakes is one more consumer awake.
LEMMA OneMoreAwake ==
  ASSUME TypeOK, NEW c \in sleeping
  PROVE  Cardinality(Consumers \ (sleeping \ {c})) = Cardinality(Consumers \ sleeping) + 1
<1>1. c \in Consumers
  BY DEF TypeOK
<1>2. Consumers \ (sleeping \ {c}) = (Consumers \ sleeping) \cup {c}
  BY <1>1
<1>3. IsFiniteSet(Consumers \ sleeping) /\ c \notin Consumers \ sleeping
  BY ConsumersAssumption, FS_Subset
<1> QED
  BY <1>2, <1>3, FS_AddElement

\* While somebody sleeps, the consumers awake are enough for the queue.
THEOREM WakeupsHold == Spec => []WakeupsSuffice
<1>1. Init => WakeupsSuffice
  BY DEF Init, PCQInit, WakeupsSuffice
<1>2. TypeOK /\ WakeupsSuffice /\ [Next]_vars => WakeupsSuffice'
  <2> SUFFICES ASSUME TypeOK, WakeupsSuffice, [Next]_vars, sleeping' # {}
               PROVE  Len(queue') <= Cardinality(Consumers \ sleeping')
    BY DEF WakeupsSuffice
  <2>0. /\ Len(queue) \in Nat
        /\ Cardinality(Consumers \ sleeping) \in Nat
        /\ Cardinality(Consumers \ sleeping') \in Nat
    <3>1. IsFiniteSet(Consumers \ sleeping) /\ IsFiniteSet(Consumers \ sleeping')
      BY ConsumersAssumption, FS_Subset
    <3> QED
      BY <3>1, FS_CardinalityType DEF TypeOK
  <2>1. CASE Produce
    <3>1. PICK c \in sleeping : sleeping' = sleeping \ {c}
      BY <2>1 DEF Produce, Push, NotifyOne
    <3>2. Len(queue') = Len(queue) + 1
      BY <2>1 DEF Produce, Push, TypeOK
    <3> QED
      <4>1. Cardinality(Consumers \ sleeping') = Cardinality(Consumers \ sleeping) + 1
        BY <3>1, OneMoreAwake
      <4>2. Len(queue) <= Cardinality(Consumers \ sleeping)
        BY <3>1 DEF WakeupsSuffice
      <4> QED
        BY <2>0, <3>2, <4>1, <4>2
  <2>2. ASSUME NEW c \in Consumers, GoToSleep(c)
        PROVE  Len(queue') <= Cardinality(Consumers \ sleeping')
    BY <2>0, <2>2, EmptySeq DEF GoToSleep, Sleep
  <2>3. ASSUME NEW c \in Consumers, WakeForNothing(c)
        PROVE  Len(queue') <= Cardinality(Consumers \ sleeping')
    <3>1. c \in sleeping /\ sleeping' = sleeping \ {c} /\ queue' = queue
      BY <2>3 DEF WakeForNothing, SpuriousWake
    <3>2. Cardinality(Consumers \ sleeping') = Cardinality(Consumers \ sleeping) + 1
      BY <3>1, OneMoreAwake
    <3>3. Len(queue) <= Cardinality(Consumers \ sleeping)
      BY <3>1 DEF WakeupsSuffice
    <3> QED
      BY <2>0, <3>1, <3>2, <3>3
  <2>4. ASSUME NEW c \in Consumers, Receive(c)
        PROVE  Len(queue') <= Cardinality(Consumers \ sleeping')
    BY <2>0, <2>4, HeadTailProperties DEF Receive, Take, WakeupsSuffice, TypeOK
  <2>5. ASSUME NEW c \in Consumers, CallAgain(c) \/ Leave(c)
        PROVE  Len(queue') <= Cardinality(Consumers \ sleeping')
    BY <2>5 DEF CallAgain, Leave, GiveUp, pcqVars, WakeupsSuffice
  <2>6. CASE CancelOnce
    BY <2>6 DEF CancelOnce, Cancel
  <2>7. CASE UNCHANGED vars
    BY <2>7 DEF vars, WakeupsSuffice
  <2> QED
    BY <2>1, <2>2, <2>3, <2>4, <2>5, <2>6, <2>7 DEF Next, ConsumerStep
<1> QED
  BY <1>1, <1>2, TypeCorrect, PTL DEF Spec
=============================================================================
