---------------------------- MODULE MapMgrProofs ----------------------------
(***************************************************************************)
(* The barrier of the map updater, for any number of workers, maps and     *)
(* instances: when the world thread is past wait(), nobody else works on a *)
(* map.  The argument is a count: pending_requests is exactly the number   *)
(* of requests queued or held (PendingCountsWork), wait() returns only at  *)
(* zero, and from zero no worker can raise it again, because a request is  *)
(* scheduled from inside a running one.  The shutdown adds that an empty-  *)
(* handed worker only gets past WaitAndPop once the token is set.          *)
(***************************************************************************)
EXTENDS MapUpdater, MapUpdateCycle, FiniteSetTheorems, SequenceTheorems, TLAPS

USE DEF Requests, Maps, maps

\* The part of the state a worker's place says about its request.
WorkerInv ==
  \A w \in Workers :
    /\ worker[w].at = "calling" => worker[w].req = NoRequest
    /\ worker[w].at = "running" => worker[w].req # NoRequest
    /\ worker[w].at = "popped" /\ worker[w].req = NoRequest => token
    /\ worker[w].at = "exited" => token

\* The shutdown goes forward: token, then queue.
ShutdownInv ==
  /\ shutdown => token
  /\ token <=> main.at \in {"drain", "drainAsleep", "cancel", "join", "done"}

\* The inductive invariant.
Inv ==
  /\ TypeOK
  /\ PendingCountsWork
  /\ ~Updating => pending = 0
  /\ WorkerInv
  /\ ShutdownInv

-----------------------------------------------------------------------------
\* The workers that hold a request are finitely many, so they can be counted.
LEMMA BusyFinite == IsFiniteSet(Busy) /\ Cardinality(Busy) \in Nat
BY WorkersAssumption, FS_Subset, FS_CardinalityType DEF Busy

\* The server before activate() has the types.
LEMMA InitTypeOK == Init => TypeOK
<1> SUFFICES ASSUME Init PROVE TypeOK
  OBVIOUS
<1>1. queue \in Seq(Requests)
  BY EmptySeq DEF Init, PCQInit
<1>2. main \in [at : MainPlaces, todo : SUBSET BaseMaps]
  BY DEF Init, MainPlaces
<1>3. worker \in [Workers -> [at   : {"calling", "popped", "running", "exited"},
                               req  : Requests \cup {NoRequest},
                               todo : SUBSET Instances]]
  BY DEF Init, Idle
<1>4. updates \in [Requests -> Nat] /\ tick \in Nat /\ pending \in Int
  BY DEF Init
<1>5. shutdown \in BOOLEAN /\ token \in BOOLEAN
  BY Zenon DEF Init, PCQInit
<1>6. loaded \subseteq BaseMaps /\ live \subseteq Instances /\ held \subseteq Instances
        /\ sleeping \subseteq Workers
  BY DEF Init, PCQInit
<1> QED
  BY <1>1, <1>2, <1>3, <1>4, <1>5, <1>6 DEF TypeOK

\* Every variable keeps its type.
THEOREM TypeCorrect == Spec => []TypeOK
<1>1. Init => TypeOK
  BY InitTypeOK
<1>2. TypeOK /\ [Next]_vars => TypeOK'
  <2> SUFFICES ASSUME TypeOK, [Next]_vars
               PROVE  TypeOK'
    OBVIOUS
  <2> USE DEF TypeOK, MainPlaces
  <2>1. ASSUME NEW map \in Maps, CreateMap(map) PROVE TypeOK'
    BY <2>1 DEF CreateMap
  <2>2. CASE BeginTick
    BY <2>2 DEF BeginTick, Schedule, Push, NotifyOne
  <2>3. CASE UnloadAll
    BY <2>3 DEF UnloadAll
  <2>4. CASE WakeMainForNothing
    BY <2>4 DEF WakeMainForNothing
  <2>5. ASSUME NEW map \in BaseMaps, ScheduleMap(map) PROVE TypeOK'
    <3>1. main' \in [at : MainPlaces, todo : SUBSET BaseMaps]
      BY <2>5 DEF ScheduleMap
    <3>2. queue' \in Seq(Requests) /\ pending' \in Int /\ sleeping' \subseteq Workers
      BY <2>5 DEF ScheduleMap, Schedule, Push, NotifyOne
    <3> QED
      BY <2>5, <3>1, <3>2 DEF ScheduleMap, Schedule, Push
  <2>6. CASE AllScheduled \/ WaitForMaps \/ DelayedUpdate
    BY <2>6 DEF AllScheduled, WaitForMaps, DelayedUpdate, Wait
  <2>7. CASE SetToken \/ Drain \/ Join
    BY <2>7 DEF SetToken, Drain, Join, Wait
  <2>16. CASE CancelQueue
    BY <2>16, EmptySeq DEF CancelQueue, Cancel
  <2>8. ASSUME NEW w \in Workers, GoToSleep(w) \/ WakeForNothing(w) PROVE TypeOK'
    BY <2>8 DEF GoToSleep, WakeForNothing, Sleep, SpuriousWake
  <2>9. ASSUME NEW w \in Workers, Receive(w) PROVE TypeOK'
    <3>1. CASE Take(w, Head(queue)) /\ worker' = [worker EXCEPT ![w].at = "popped", ![w].req = Head(queue)]
      <4>1. Head(queue) \in Requests /\ Tail(queue) \in Seq(Requests)
        BY <3>1, HeadTailProperties DEF Take
      <4>2. worker' \in [Workers -> [at   : {"calling", "popped", "running", "exited"},
                             req  : Requests \cup {NoRequest},
                             todo : SUBSET Instances]]
        BY <3>1, <4>1
      <4> QED BY <2>9, <3>1, <4>1, <4>2 DEF Receive, Take
    <3>2. CASE GiveUp(w) /\ worker' = [worker EXCEPT ![w].at = "popped"]
      BY <2>9, <3>2 DEF Receive, GiveUp, pcqVars
    <3> QED BY <2>9, <3>1, <3>2 DEF Receive
  <2>10. ASSUME NEW w \in Workers, Exit(w) PROVE TypeOK'
    BY <2>10 DEF Exit
  <2>11. ASSUME NEW w \in Workers, Call(w) PROVE TypeOK'
    <3>1. worker' \in [Workers -> [at   : {"calling", "popped", "running", "exited"},
                             req  : Requests \cup {NoRequest},
                             todo : SUBSET Instances]]
      BY <2>11 DEF Call, Children
    <3>2. updates' \in [Requests -> Nat]
      BY <2>11 DEF Call
    <3> QED BY <2>11, <3>1, <3>2 DEF Call
  <2>12. ASSUME NEW w \in Workers, NEW i \in Instances, DestroyInstance(w, i)
         PROVE  TypeOK'
    BY <2>12 DEF DestroyInstance
  <2>13. ASSUME NEW w \in Workers, NEW i \in Instances, ScheduleInstance(w, i)
         PROVE  TypeOK'
    BY <2>13 DEF ScheduleInstance, Schedule, Push, NotifyOne
  <2>14. ASSUME NEW w \in Workers, Finish(w) PROVE TypeOK'
    <3>1. worker' \in [Workers -> [at   : {"calling", "popped", "running", "exited"},
                             req  : Requests \cup {NoRequest},
                             todo : SUBSET Instances]]
      BY <2>14 DEF Finish, Idle
    <3>2. main' \in [at : MainPlaces, todo : SUBSET BaseMaps] /\ pending' \in Int
      BY <2>14 DEF Finish, UpdateFinished
    <3> QED BY <2>14, <3>1, <3>2 DEF Finish
  <2>15. CASE UNCHANGED vars
    BY <2>15 DEF vars
  <2> QED
    BY <2>1, <2>2, <2>3, <2>4, <2>5, <2>6, <2>7, <2>8, <2>9, <2>10, <2>11,
       <2>12, <2>13, <2>14, <2>15, <2>16 DEF Next, TickStep, StopStep, WorkerStep
<1> QED
  BY <1>1, <1>2, PTL DEF Spec

-----------------------------------------------------------------------------
\* One worker's request changes: so does the set of busy workers.
LEMMA BusyChange ==
  ASSUME NEW w \in Workers,
         \A v \in Workers \ {w} : worker'[v].req = worker[v].req
  PROVE  /\ worker'[w].req # NoRequest => Busy' = Busy \cup {w}
         /\ worker'[w].req = NoRequest => Busy' = Busy \ {w}
BY DEF Busy

\* A new request keeps the count when pending_requests is raised with it.
LEMMA ScheduleCounts ==
  ASSUME TypeOK, PendingCountsWork, NEW r \in Requests, Schedule(r), Busy' = Busy
  PROVE  PendingCountsWork'
BY BusyFinite DEF TypeOK, PendingCountsWork, Schedule, Push

\* The step invariant.
LEMMA InvStep == Inv /\ TypeOK' /\ [Next]_vars => Inv'
<1> SUFFICES ASSUME Inv, TypeOK', [Next]_vars
             PROVE  PendingCountsWork' /\ (~Updating => pending = 0)' /\ WorkerInv' /\ ShutdownInv'
  BY DEF Inv
<1> USE DEF Inv
<1>0. IsFiniteSet(Busy) /\ Cardinality(Busy) \in Nat /\ Len(queue) \in Nat
  BY BusyFinite DEF TypeOK
<1>1. ~Updating => queue = <<>> /\ Busy = {}
  <2>1. pending = 0 => Len(queue) = 0 /\ Cardinality(Busy) = 0
    BY <1>0 DEF PendingCountsWork, TypeOK
  <2> QED
    BY <1>0, <2>1, FS_EmptySet, EmptySeq DEF TypeOK
<1>2. ASSUME UNCHANGED <<queue, worker, token, shutdown, pending>>,
             (~Updating)' => ~Updating \/ pending = 0,
             token <=> main'.at \in {"drain", "drainAsleep", "cancel", "join", "done"}
      PROVE  PendingCountsWork' /\ (~Updating => pending = 0)' /\ WorkerInv' /\ ShutdownInv'
  BY <1>2 DEF PendingCountsWork, Busy, WorkerInv, ShutdownInv
<1>3. ASSUME NEW map \in Maps, CreateMap(map)
      PROVE  PendingCountsWork' /\ (~Updating => pending = 0)' /\ WorkerInv' /\ ShutdownInv'
  BY <1>2, <1>3 DEF CreateMap, Updating, ShutdownInv
<1>4. CASE BeginTick
  <2>1. Busy' = Busy
    BY <1>4 DEF BeginTick, Busy
  <2>2. Updating'
    BY <1>4 DEF BeginTick, Updating, TypeOK
  <2> QED
    BY <1>4, <2>1, <2>2, ScheduleCounts
    DEF BeginTick, Schedule, Push, WorkerInv, ShutdownInv
<1>5. CASE UnloadAll \/ WakeMainForNothing \/ AllScheduled \/ WaitForMaps \/ DelayedUpdate
  <2>1. UNCHANGED <<queue, worker, token, shutdown, pending>>
    BY <1>5 DEF UnloadAll, WakeMainForNothing, AllScheduled, WaitForMaps, DelayedUpdate
  <2>2. (~Updating)' => ~Updating \/ pending = 0
    <3>1. pending >= 0
      BY <1>0 DEF PendingCountsWork
    <3> QED
      BY <3>1, <1>5 DEF UnloadAll, WakeMainForNothing, AllScheduled, WaitForMaps, DelayedUpdate,
                Wait, Updating, TypeOK
  <2>3. ~token /\ main'.at \notin {"drain", "drainAsleep", "cancel", "join", "done"}
    <3>1. main.at \notin {"drain", "drainAsleep", "cancel", "join", "done"}
      BY <1>5 DEF UnloadAll, WakeMainForNothing, AllScheduled, WaitForMaps, DelayedUpdate, Wait
    <3>2. main'.at \notin {"drain", "drainAsleep", "cancel", "join", "done"}
      BY <1>5 DEF UnloadAll, WakeMainForNothing, AllScheduled, WaitForMaps, DelayedUpdate, Wait, TypeOK
    <3> QED
      BY <3>1, <3>2, Zenon DEF ShutdownInv
  <2> QED
    BY <1>2, <2>1, <2>2, <2>3
<1>6. ASSUME NEW map \in BaseMaps, ScheduleMap(map)
      PROVE  PendingCountsWork' /\ (~Updating => pending = 0)' /\ WorkerInv' /\ ShutdownInv'
  <2>1. Busy' = Busy
    BY <1>6 DEF ScheduleMap, Busy
  <2>2. Updating'
    BY <1>6 DEF ScheduleMap, Updating, TypeOK
  <2> QED
    BY <1>6, <2>1, <2>2, ScheduleCounts
    DEF ScheduleMap, Schedule, Push, WorkerInv, ShutdownInv, TypeOK, Updating
<1>7. CASE SetToken \/ Drain \/ Join
  <2>1. UNCHANGED <<queue, worker, shutdown, pending>> /\ (~Updating)'
    BY <1>7 DEF SetToken, Drain, Join, Wait, Updating, TypeOK
  <2>2. pending = 0
    BY <1>7 DEF SetToken, Drain, Join, Wait, Updating
  <2>3. WorkerInv' /\ ShutdownInv'
    BY <1>7, <2>1 DEF SetToken, Drain, Join, Wait, WorkerInv, ShutdownInv, TypeOK
  <2> QED
    BY <2>1, <2>2, <2>3 DEF PendingCountsWork, Busy
<1>8. CASE CancelQueue
  <2>1. queue = <<>>
    BY <1>1, <1>8 DEF CancelQueue, Updating
  <2>2. UNCHANGED <<queue, worker, token, pending>> /\ Busy' = Busy
    BY <1>8, <2>1 DEF CancelQueue, Cancel, Busy
  <2>3. token /\ main'.at = "join" /\ pending = 0
    <3>1. main.at = "cancel" /\ main'.at = "join"
      BY <1>8 DEF CancelQueue, TypeOK
    <3>2. pending = 0
      BY <3>1 DEF Updating
    <3>3. token
      BY <3>1, Zenon DEF ShutdownInv
    <3> QED
      BY <3>1, <3>2, <3>3
  <2> QED
    BY <2>2, <2>3 DEF PendingCountsWork, WorkerInv, ShutdownInv
<1>9. ASSUME NEW w \in Workers, GoToSleep(w) \/ WakeForNothing(w)
      PROVE  PendingCountsWork' /\ (~Updating => pending = 0)' /\ WorkerInv' /\ ShutdownInv'
  BY <1>2, <1>9 DEF GoToSleep, WakeForNothing, Sleep, SpuriousWake, Updating, ShutdownInv
<1>17. CASE UNCHANGED vars
  BY <1>2, <1>17 DEF vars, Updating, ShutdownInv
<1>10. ASSUME NEW w \in Workers, Receive(w)
       PROVE  PendingCountsWork' /\ (~Updating => pending = 0)' /\ WorkerInv' /\ ShutdownInv'
  <2>1. ShutdownInv' /\ (~Updating => pending = 0)'
    BY <1>10 DEF Receive, Take, GiveUp, pcqVars, ShutdownInv, Updating
  <2>2. CASE Take(w, Head(queue)) /\ worker' = [worker EXCEPT ![w].at = "popped", ![w].req = Head(queue)]
    <3>1. Head(queue) \in Requests /\ Len(queue') = Len(queue) - 1
      BY <2>2, HeadTailProperties DEF Take, TypeOK
    <3>2. w \notin Busy /\ Busy' = Busy \cup {w}
      <4>1. worker'[w].req # NoRequest
        BY <2>2, <3>1, MapsAssumption DEF TypeOK
      <4>2. \A v \in Workers \ {w} : worker'[v].req = worker[v].req
        BY <2>2 DEF TypeOK
      <4> QED
        BY <1>10, <4>1, <4>2, BusyChange DEF Receive, WorkerInv, Busy
    <3>3. PendingCountsWork'
      <4>1. Cardinality(Busy') = Cardinality(Busy) + 1
        BY <1>0, <3>2, FS_AddElement
      <4>2. pending' = pending
        BY <1>10 DEF Receive
      <4> QED
        BY <1>0, <3>1, <4>1, <4>2 DEF PendingCountsWork
    <3>4. WorkerInv'
      BY <1>10, <2>2, <3>1, MapsAssumption DEF WorkerInv, Receive, TypeOK
    <3> QED
      BY <2>1, <3>3, <3>4
  <2>3. CASE GiveUp(w) /\ worker' = [worker EXCEPT ![w].at = "popped"]
    <3>1. Busy' = Busy
      BY <2>3 DEF Busy, TypeOK
    <3>2. WorkerInv'
      BY <1>10, <2>3 DEF GiveUp, WorkerInv, ShutdownInv, Receive, TypeOK
    <3> QED
      BY <1>10, <2>1, <2>3, <3>1, <3>2 DEF PendingCountsWork, GiveUp, pcqVars, Receive
  <2> QED
    BY <1>10, <2>2, <2>3 DEF Receive
<1>11. ASSUME NEW w \in Workers, Exit(w) \/ Call(w)
       PROVE  PendingCountsWork' /\ (~Updating => pending = 0)' /\ WorkerInv' /\ ShutdownInv'
  <2>1. \A v \in Workers : worker'[v].req = worker[v].req
    BY <1>11 DEF Exit, Call, TypeOK
  <2>2. UNCHANGED <<queue, token, shutdown, pending, main>>
    BY <1>11 DEF Exit, Call
  <2>3. WorkerInv'
    BY <1>11, <2>1 DEF Exit, Call, WorkerInv, TypeOK
  <2> QED
    BY <2>1, <2>2, <2>3 DEF PendingCountsWork, Busy, ShutdownInv, Updating
<1>12. ASSUME NEW w \in Workers, NEW i \in Instances, DestroyInstance(w, i)
       PROVE  PendingCountsWork' /\ (~Updating => pending = 0)' /\ WorkerInv' /\ ShutdownInv'
  <2>1. \A v \in Workers : worker'[v].req = worker[v].req /\ worker'[v].at = worker[v].at
    BY <1>12 DEF DestroyInstance, TypeOK
  <2>2. UNCHANGED <<queue, token, shutdown, pending, main>>
    BY <1>12 DEF DestroyInstance
  <2> QED
    BY <2>1, <2>2 DEF PendingCountsWork, Busy, WorkerInv, ShutdownInv, Updating
<1>13. ASSUME NEW w \in Workers, NEW i \in Instances, ScheduleInstance(w, i)
       PROVE  PendingCountsWork' /\ (~Updating => pending = 0)' /\ WorkerInv' /\ ShutdownInv'
  <2>1. \A v \in Workers : worker'[v].req = worker[v].req /\ worker'[v].at = worker[v].at
    BY <1>13 DEF ScheduleInstance, TypeOK
  <2>2. w \in Busy
    BY <1>13 DEF ScheduleInstance, WorkerInv, Busy
  <2>3. Updating' /\ UNCHANGED <<token, shutdown, main>>
    BY <1>1, <1>13, <2>2 DEF ScheduleInstance, Schedule, Push, Updating
  <2>4. PendingCountsWork'
    BY <1>13, <2>1, ScheduleCounts DEF ScheduleInstance, Busy
  <2> QED
    BY <2>1, <2>3, <2>4 DEF WorkerInv, ShutdownInv
<1>14. ASSUME NEW w \in Workers, Finish(w)
       PROVE  PendingCountsWork' /\ (~Updating => pending = 0)' /\ WorkerInv' /\ ShutdownInv'
  <2>1. w \in Busy /\ Busy' = Busy \ {w}
    <3>1. w \in Busy
      BY <1>14 DEF Finish, WorkerInv, Busy
    <3>2. worker'[w] = Idle /\ \A v \in Workers \ {w} : worker'[v] = worker[v]
      BY <1>14 DEF Finish, TypeOK
    <3> QED
      BY <3>1, <3>2, BusyChange DEF Idle
  <2>2. PendingCountsWork'
    <3>1. Cardinality(Busy') = Cardinality(Busy) - 1
      BY <1>0, <2>1, FS_RemoveElement
    <3>2. pending' = pending - 1 /\ queue' = queue
      BY <1>14 DEF Finish, UpdateFinished
    <3> QED
      BY <1>0, <3>1, <3>2 DEF PendingCountsWork
  <2>3. Updating'
    BY <1>1, <1>14, <2>1 DEF Finish, UpdateFinished, Updating, TypeOK
  <2>4. WorkerInv'
    BY <1>14 DEF Finish, Idle, WorkerInv, TypeOK
  <2>5. ShutdownInv'
    <3>1. Updating /\ UNCHANGED <<shutdown, token>>
      BY <1>1, <1>14, <2>1 DEF Finish
    <3> QED
      BY <2>3, <3>1, Zenon DEF ShutdownInv, Updating
  <2> QED
    BY <2>2, <2>3, <2>4, <2>5
<1> QED
  BY <1>3, <1>4, <1>5, <1>6, <1>7, <1>8, <1>9, <1>10, <1>11, <1>12, <1>13, <1>14, <1>17
  DEF Next, TickStep, StopStep, WorkerStep

\* The inductive invariant holds in every reachable state of the server.
THEOREM InvCorrect == Spec => []Inv
<1>1. Init => Inv
  <2> SUFFICES ASSUME Init PROVE Inv
    OBVIOUS
  <2>1. TypeOK
    BY InitTypeOK
  <2>2. Busy = {} /\ Len(queue) = 0
    BY EmptySeq DEF Init, PCQInit, Idle, Busy
  <2> QED
    BY <2>1, <2>2, FS_EmptySet
    DEF Inv, Init, PCQInit, Idle, PendingCountsWork, WorkerInv, ShutdownInv
<1>2. Inv /\ TypeOK' /\ [Next]_vars => Inv'
  BY InvStep
<1> QED
  BY <1>1, <1>2, TypeCorrect, PTL DEF Spec

\* Past wait() the world thread has the maps to itself.
THEOREM BarrierHolds == Spec => []Barrier
<1>1. Inv => Barrier
  <2> SUFFICES ASSUME Inv, ~Updating PROVE queue = <<>> /\ Busy = {}
    BY DEF Barrier
  <2>1. Len(queue) \in Nat /\ Len(queue) = 0 /\ Cardinality(Busy) = 0
    BY BusyFinite DEF Inv, TypeOK, PendingCountsWork
  <2> QED
    BY <2>1, BusyFinite, FS_EmptySet, EmptySeq DEF Inv, TypeOK
<1> QED
  BY <1>1, InvCorrect, PTL

\* pending_requests counts the work queued and the work in hand.
THEOREM PendingHolds == Spec => []PendingCountsWork
<1>1. Inv => PendingCountsWork
  BY DEF Inv
<1> QED
  BY <1>1, InvCorrect, PTL

\* No worker calls through a null request, and none ends with a request it
\* popped and did not run.
THEOREM WorkersSafe == Spec => [](NoNullCall /\ NoRequestDropped)
<1>1. Inv /\ Barrier => NoNullCall /\ NoRequestDropped
  BY DEF Inv, WorkerInv, ShutdownInv, Barrier, NoNullCall, NoRequestDropped, Busy, Updating
<1> QED
  BY <1>1, InvCorrect, BarrierHolds, PTL

-----------------------------------------------------------------------------
(* The turns of MapMgr::Update (MapUpdateCycle).  For every interval and   *)
(* every length of the ticks: no kind of map loses time or is given time   *)
(* twice, and while the configuration is not reloaded the time a kind      *)
(* waits is bounded.                                                       *)

\* A timer set to the remainder by Reset is a natural number again.
LEMMA ResetType ==
  ASSUME NEW a \in Nat, NEW b \in Nat \ {0}
  PROVE  a % b \in Nat
OBVIOUS

\* The start of MapMgr has the types.
LEMMA CycleTypeInit == CycleInit => CycleTypeOK
BY DiffAssumption, IntervalAssumption DEF CycleInit, CycleTypeOK, Kinds

\* An update and a reload keep every variable in its type.
LEMMA CycleTypeStep == CycleTypeOK /\ [CycleNext]_cycleVars => CycleTypeOK'
<1> SUFFICES ASSUME CycleTypeOK, [CycleNext]_cycleVars PROVE CycleTypeOK'
  OBVIOUS
<1> USE DiffAssumption, IntervalAssumption
<1>1. ASSUME NEW diff \in 0 .. MaxDiff, Update(diff)
      PROVE  CycleTypeOK'
  <2>1. timer' \in [Kinds -> Nat] /\ received' \in [Kinds -> Nat]
    BY <1>1 DEF Update, Turn, CycleTypeOK, Kinds
  <2>2. mapUpdateStep' \in 0 .. 3 /\ total' \in Nat /\ elapsed' \in Nat
    BY <1>1 DEF Update, NextStep, CycleTypeOK
  <2> QED BY <1>1, <2>1, <2>2 DEF Update, CycleTypeOK
<1>2. ASSUME NEW t \in MinInterval .. MaxInterval, SetMapUpdateInterval(t)
      PROVE  CycleTypeOK'
  <2>1. total' \in Nat
    BY <1>2, ResetType DEF SetMapUpdateInterval, CycleTypeOK
  <2> QED BY <1>2, <2>1 DEF SetMapUpdateInterval, CycleTypeOK
<1>3. CASE UNCHANGED cycleVars
  BY <1>3 DEF cycleVars, CycleTypeOK
<1> QED BY <1>1, <1>2, <1>3 DEF CycleNext

\* Every reachable state has the types.
THEOREM CycleTypeCorrect == CycleSpec => []CycleTypeOK
BY CycleTypeInit, CycleTypeStep, PTL DEF CycleSpec

\* The three timers of MapMgr::Update hand out all the time, and only that, also
\* across reloads of the interval.
THEOREM TimeKept == CycleSpec => []NoTimeLost
<1>1. CycleInit => NoTimeLost
  BY DEF CycleInit, NoTimeLost, Kinds
<1>2. CycleTypeOK /\ NoTimeLost /\ [CycleNext]_cycleVars => NoTimeLost'
  <2> SUFFICES ASSUME CycleTypeOK, NoTimeLost, [CycleNext]_cycleVars, NEW k \in Kinds
               PROVE  received'[k] + timer'[k] = elapsed'
    BY DEF NoTimeLost
  <2>1. received[k] + timer[k] = elapsed /\ received[k] \in Nat /\ timer[k] \in Nat
    BY DEF NoTimeLost, CycleTypeOK
  <2>2. ASSUME NEW diff \in 0 .. MaxDiff, Update(diff)
        PROVE  received'[k] + timer'[k] = elapsed'
    BY <2>1, <2>2, DiffAssumption DEF Update, Turn
  <2>3. ASSUME NEW t \in MinInterval .. MaxInterval, SetMapUpdateInterval(t)
        PROVE  received'[k] + timer'[k] = elapsed'
    BY <2>1, <2>3 DEF SetMapUpdateInterval
  <2>4. CASE UNCHANGED cycleVars
    BY <2>1, <2>4 DEF cycleVars
  <2> QED BY <2>2, <2>3, <2>4 DEF CycleNext
<1> QED BY <1>1, <1>2, CycleTypeCorrect, PTL DEF CycleSpec

-----------------------------------------------------------------------------
\* How long the cycle has lasted, by its step.
TotalBounded ==
  /\ mapUpdateStep = 0 => total = 0
  /\ mapUpdateStep = 1 => total <= MaxDiff
  /\ mapUpdateStep = 2 => total <= 2 * MaxDiff
  /\ mapUpdateStep = 3 => total < interval

\* A kind that had its turn has waited since then, at most the whole cycle; one
\* that had not has waited for the last cycle besides.
WaitInv ==
  /\ TotalBounded
  /\ \A k \in Kinds : timer[k] <= IF k < mapUpdateStep THEN total ELSE Cycle + total

\* An update of MapMgr keeps the bounds on the cycle and on the waits.
LEMMA WaitStep ==
  ASSUME CycleTypeOK, WaitInv, NEW diff \in 0 .. MaxDiff, Update(diff)
  PROVE  WaitInv'
<1> USE DiffAssumption, IntervalAssumption
<1>1. /\ total \in Nat /\ diff \in 0 .. MaxDiff /\ MaxDiff \in Nat /\ total + diff \in Nat
      /\ mapUpdateStep \in 0 .. 3
      /\ MaxInterval \in Nat /\ interval \in 1 .. MaxInterval /\ interval' = interval
  BY DEF CycleTypeOK, Update
<1>a. /\ mapUpdateStep = 0 => total = 0
      /\ mapUpdateStep = 1 => total <= MaxDiff
      /\ mapUpdateStep = 2 => total <= 2 * MaxDiff
      /\ mapUpdateStep = 3 => total < interval
  BY DEF WaitInv, TotalBounded
<1>b. NextStep(total + diff) = IF mapUpdateStep < 2 THEN mapUpdateStep + 1
                               ELSE IF total + diff >= interval THEN 0 ELSE 3
  BY <1>1 DEF NextStep
<1>c. /\ mapUpdateStep' = NextStep(total + diff)
      /\ total' = IF NextStep(total + diff) = 0 THEN 0 ELSE total + diff
  BY DEF Update
<1>2. ASSUME mapUpdateStep \in {2, 3} PROVE total + diff <= Cycle
  <2>1. total + diff <= MaxInterval - 1 + MaxDiff \/ total + diff <= 3 * MaxDiff
    BY <1>1, <1>a, <1>2
  <2> QED BY <1>1, <2>1 DEF Cycle
<1>3. TotalBounded'
  <2>1. CASE mapUpdateStep \in {0, 1}
    BY <1>1, <1>a, <1>b, <1>c, <2>1 DEF TotalBounded
  <2>2. CASE mapUpdateStep \in {2, 3} /\ total + diff >= interval
    BY <1>1, <1>b, <1>c, <2>2 DEF TotalBounded
  <2>3. CASE mapUpdateStep \in {2, 3} /\ ~(total + diff >= interval)
    BY <1>1, <1>b, <1>c, <2>3 DEF TotalBounded
  <2> QED BY <1>1, <2>1, <2>2, <2>3
<1>4. ASSUME NEW k \in Kinds
      PROVE  timer'[k] <= IF k < mapUpdateStep' THEN total' ELSE Cycle + total'
  <2>1. timer[k] \in Nat /\ k \in 0 .. 2 /\ Cycle \in Nat
    BY DEF CycleTypeOK, Kinds, Cycle
  <2>2. timer'[k] = IF k = mapUpdateStep THEN 0 ELSE timer[k] + diff
    BY DEF Update, Turn
  <2>3. timer[k] <= IF k < mapUpdateStep THEN total ELSE Cycle + total
    BY DEF WaitInv
  <2>4. CASE NextStep(total + diff) = 0
    <3>1. mapUpdateStep \in {2, 3}
      BY <1>1, <1>b, <2>4
    <3>2. timer'[k] <= total + diff
      BY <1>1, <2>1, <2>2, <2>3, <3>1
    <3>3. timer'[k] <= Cycle
      BY <1>1, <1>2, <2>1, <2>2, <3>1, <3>2
    <3> QED BY <1>c, <2>1, <2>4, <3>3
  <2>5. CASE NextStep(total + diff) # 0
    <3>1. mapUpdateStep' = (IF mapUpdateStep < 3 THEN mapUpdateStep + 1 ELSE 3) /\ total' = total + diff
      BY <1>1, <1>b, <1>c, <2>5
    <3> QED BY <1>1, <2>1, <2>2, <2>3, <3>1
  <2> QED BY <2>4, <2>5
<1> QED BY <1>3, <1>4 DEF WaitInv

\* While the configuration is not reloaded, no kind of map waits for its turn
\* longer than the longest cycle and the ticks before its turn.
THEOREM WaitsBounded == CycleSpec => []WaitBounded
<1> DEFINE NotReloadedInv == reloads = 0 => WaitInv
<1> USE DiffAssumption, IntervalAssumption
<1>1. CycleInit => NotReloadedInv
  BY DEF CycleInit, WaitInv, TotalBounded, Kinds, Cycle
<1>2. CycleTypeOK /\ NotReloadedInv /\ [CycleNext]_cycleVars => NotReloadedInv'
  <2> SUFFICES ASSUME CycleTypeOK, NotReloadedInv, [CycleNext]_cycleVars, reloads' = 0 PROVE WaitInv'
    OBVIOUS
  <2>1. ASSUME NEW t \in MinInterval .. MaxInterval, SetMapUpdateInterval(t)
        PROVE  FALSE
    BY <2>1 DEF SetMapUpdateInterval, CycleTypeOK
  <2>2. CASE UNCHANGED cycleVars
    BY <2>2 DEF cycleVars, WaitInv, TotalBounded
  <2>3. ASSUME NEW diff \in 0 .. MaxDiff, Update(diff)
        PROVE  WaitInv'
    <3>1. WaitInv
      BY <2>3 DEF Update
    <3> QED BY <2>3, <3>1, WaitStep
  <2> QED BY <2>1, <2>2, <2>3 DEF CycleNext
<1>3. CycleTypeOK /\ NotReloadedInv => WaitBounded
  <2> SUFFICES ASSUME CycleTypeOK, WaitInv, NEW k \in Kinds
               PROVE  timer[k] <= Cycle + k * MaxDiff
    BY DEF WaitBounded
  <2>1. /\ timer[k] \in Nat /\ total \in Nat /\ mapUpdateStep \in 0 .. 3
        /\ interval \in 1 .. MaxInterval
        /\ Cycle \in Nat /\ timer[k] <= IF k < mapUpdateStep THEN total ELSE Cycle + total
    BY DEF CycleTypeOK, Cycle, WaitInv
  <2>2. total <= Cycle
    BY <2>1 DEF WaitInv, TotalBounded, Cycle
  <2>3. CASE k = 0
    BY <2>1, <2>2, <2>3 DEF WaitInv, TotalBounded
  <2>4. CASE k = 1
    BY <2>1, <2>2, <2>4 DEF WaitInv, TotalBounded
  <2>5. CASE k = 2
    BY <2>1, <2>2, <2>5 DEF WaitInv, TotalBounded
  <2> QED BY <2>3, <2>4, <2>5 DEF Kinds
<1> QED BY <1>1, <1>2, <1>3, CycleTypeCorrect, PTL DEF CycleSpec

-----------------------------------------------------------------------------
(* The updater implements MapTick: what makes a request be updated once.   *)

InHand(r) == \E w \in Workers : worker[w].req = r
NoRepeats(q) == \A i, j \in 1 .. Len(q) : q[i] = q[j] => i = j

\* A request is in one place at a time, and is there before its update has
\* begun; an instance comes after the map it belongs to, in whose iteration it
\* is met once.
OnceInv ==
  /\ NoRepeats(queue)
  /\ \A w, v \in Workers :
       worker[w].req = worker[v].req /\ worker[w].req # NoRequest => w = v
  /\ \A r \in Waiting : ~InHand(r) /\ updates[r] = 0
  /\ main.at = "schedule" =>
       \A r \in main.todo : r \notin Waiting /\ ~InHand(r) /\ updates[r] = 0
  /\ \A w \in Workers :
       /\ worker[w].at = "popped" /\ worker[w].req # NoRequest => updates[worker[w].req] = 0
       /\ worker[w].at = "running" =>
            /\ updates[worker[w].req] > 0
            /\ \A i \in worker[w].todo :
                 Parent[i] = worker[w].req /\ i \notin Waiting /\ ~InHand(i) /\ updates[i] = 0
  /\ \A i \in Instances :
       i \in Waiting \/ InHand(i) \/ updates[i] > 0 => updates[Parent[i]] > 0

\* A push adds one request to those that wait.
LEMMA PushFacts ==
  ASSUME queue \in Seq(Requests), NEW r \in Requests, queue' = Append(queue, r)
  PROVE  /\ Waiting' = Waiting \cup {r}
         /\ NoRepeats(queue) /\ r \notin Waiting => NoRepeats(queue')
<1>1. /\ Len(queue) \in Nat /\ Len(queue') = Len(queue) + 1
      /\ \A i \in 1 .. Len(queue) + 1 : queue'[i] = IF i = Len(queue) + 1 THEN r ELSE queue[i]
  OBVIOUS
<1>2. Waiting' = Waiting \cup {r}
  <2>1. 1 .. Len(queue) + 1 = 1 .. Len(queue) \cup {Len(queue) + 1}
    BY <1>1
  <2>2. \A i \in 1 .. Len(queue) : i # Len(queue) + 1
    BY <1>1
  <2> QED BY <1>1, <2>1, <2>2 DEF Waiting
<1>3. ASSUME NoRepeats(queue), r \notin Waiting
      PROVE  NoRepeats(queue')
  <2> SUFFICES ASSUME NEW i \in 1 .. Len(queue) + 1, NEW j \in 1 .. Len(queue) + 1,
                      queue'[i] = queue'[j]
               PROVE  i = j
    BY <1>1 DEF NoRepeats
  <2>1. CASE i = Len(queue) + 1 \/ j = Len(queue) + 1
    BY <1>1, <1>3, <2>1 DEF Waiting
  <2>2. CASE i \in 1 .. Len(queue) /\ j \in 1 .. Len(queue)
    BY <1>1, <1>3, <2>2 DEF NoRepeats
  <2> QED BY <1>1, <2>1, <2>2
<1> QED BY <1>2, <1>3

\* A pop takes the first one away.
LEMMA PopFacts ==
  ASSUME queue \in Seq(Requests), queue # <<>>, queue' = Tail(queue)
  PROVE  /\ Head(queue) \in Requests /\ Waiting = Waiting' \cup {Head(queue)}
         /\ NoRepeats(queue) => NoRepeats(queue') /\ Head(queue) \notin Waiting'
<1>1. /\ Len(queue) \in Nat \ {0} /\ Len(queue') = Len(queue) - 1 /\ Head(queue) = queue[1]
      /\ Head(queue) \in Requests /\ \A i \in 1 .. Len(queue') : queue'[i] = queue[i + 1]
  OBVIOUS
<1>2. Waiting = Waiting' \cup {Head(queue)}
  <2>1. ASSUME NEW i \in 1 .. Len(queue)
        PROVE  queue[i] \in Waiting' \cup {Head(queue)}
    <3>1. CASE i = 1
      BY <1>1, <3>1
    <3>2. CASE i # 1
      <4>1. i - 1 \in 1 .. Len(queue') /\ queue'[i - 1] = queue[i]
        BY <1>1, <3>2
      <4> QED BY <4>1 DEF Waiting
    <3> QED BY <3>1, <3>2
  <2>2. \A i \in 1 .. Len(queue') : i + 1 \in 1 .. Len(queue)
    BY <1>1
  <2>3. 1 \in 1 .. Len(queue)
    BY <1>1
  <2> QED BY <1>1, <2>1, <2>2, <2>3 DEF Waiting
<1>3. ASSUME NoRepeats(queue)
      PROVE  NoRepeats(queue') /\ Head(queue) \notin Waiting'
  BY <1>1, <1>3 DEF NoRepeats, Waiting
<1> QED BY <1>1, <1>2, <1>3

\* Before the world thread's first tick nothing is anywhere.
LEMMA OnceInit == Init => OnceInv
<1> SUFFICES ASSUME Init PROVE OnceInv
  OBVIOUS
<1>1. queue = <<>> /\ Waiting = {}
  BY DEF Init, PCQInit, Waiting
<1>2. \A w \in Workers : worker[w] = Idle
  BY DEF Init
<1>3. \A r \in Requests : ~InHand(r) /\ updates[r] = 0
  BY <1>2, MapsAssumption DEF Init, Idle, InHand
<1>4. main.at # "schedule"
  BY DEF Init
<1> QED BY <1>1, <1>2, <1>3, <1>4 DEF OnceInv, NoRepeats, Idle

\* A step that moves no request.
LEMMA OnceSame ==
  ASSUME OnceInv, UNCHANGED <<queue, worker, updates>>,
         main'.at = "schedule" => main.at = "schedule" /\ main'.todo \subseteq main.todo
  PROVE  OnceInv'
BY DEF OnceInv, Waiting, InHand

LEMMA OnceBeginTick == Inv /\ Barrier /\ BeginTick => OnceInv'
<1> SUFFICES ASSUME Inv, Barrier, BeginTick PROVE OnceInv'
  OBVIOUS
<1>1. queue = <<>> /\ Busy = {}
  BY DEF Barrier, Updating, BeginTick
<1>2. /\ queue' = Append(queue, Lfg) /\ worker' = worker
      /\ main' = [at |-> "schedule", todo |-> loaded] /\ loaded \subseteq BaseMaps
      /\ updates' = [r \in Requests |-> 0]
  BY DEF BeginTick, Schedule, Push, Inv, TypeOK
<1>3. Waiting' = {Lfg} /\ NoRepeats(queue')
  BY <1>1, <1>2, PushFacts DEF Inv, TypeOK, Waiting, NoRepeats
<1>4. \A w \in Workers : worker'[w].req = NoRequest /\ worker'[w].at # "running"
  BY <1>1, <1>2 DEF Busy, Inv, WorkerInv
<1>5. \A r \in Requests : ~InHand(r)' /\ updates'[r] = 0
  BY <1>2, <1>4, MapsAssumption DEF InHand
<1> QED BY <1>2, <1>3, <1>4, <1>5, MapsAssumption DEF OnceInv

\* A request that is nowhere, and not updated yet, is scheduled.
LEMMA OncePush ==
  ASSUME Inv, OnceInv, NEW r \in Requests, queue' = Append(queue, r), updates' = updates,
         r \notin Waiting, ~InHand(r), updates[r] = 0,
         r \in Instances => updates[Parent[r]] > 0,
         \A w \in Workers :
           /\ worker'[w].at = worker[w].at /\ worker'[w].req = worker[w].req
           /\ worker'[w].todo \subseteq worker[w].todo
           /\ worker'[w].at = "running" => r \notin worker'[w].todo,
         main'.at = "schedule" =>
           main.at = "schedule" /\ main'.todo \subseteq main.todo /\ r \notin main'.todo
  PROVE  OnceInv'
<1>1. Waiting' = Waiting \cup {r} /\ NoRepeats(queue')
  BY PushFacts DEF Inv, TypeOK, OnceInv
<1>2. \A x : InHand(x)' <=> InHand(x)
  BY DEF InHand
<1>3. \A w, v \in Workers :
        worker'[w].req = worker'[v].req /\ worker'[w].req # NoRequest => w = v
  BY DEF OnceInv
<1>4. \A x \in Waiting' : ~InHand(x)' /\ updates'[x] = 0
  BY <1>1, <1>2 DEF OnceInv
<1>5. main'.at = "schedule" =>
        \A x \in main'.todo : x \notin Waiting' /\ ~InHand(x)' /\ updates'[x] = 0
  BY <1>1, <1>2 DEF OnceInv
<1>6. ASSUME NEW w \in Workers
      PROVE  /\ worker'[w].at = "popped" /\ worker'[w].req # NoRequest =>
                  updates'[worker'[w].req] = 0
             /\ worker'[w].at = "running" =>
                  /\ updates'[worker'[w].req] > 0
                  /\ \A i \in worker'[w].todo :
                       Parent[i] = worker'[w].req /\ i \notin Waiting' /\ ~InHand(i)'
                       /\ updates'[i] = 0
  BY <1>1, <1>2 DEF OnceInv
<1>7. \A i \in Instances :
        i \in Waiting' \/ InHand(i)' \/ updates'[i] > 0 => updates'[Parent[i]] > 0
  BY <1>1, <1>2 DEF OnceInv
<1> QED BY <1>1, <1>3, <1>4, <1>5, <1>6, <1>7 DEF OnceInv

LEMMA OnceScheduleMap ==
  ASSUME Inv, OnceInv, NEW map \in BaseMaps, ScheduleMap(map)
  PROVE  OnceInv'
<1>1. /\ main.at = "schedule" /\ map \in main.todo /\ queue' = Append(queue, map)
      /\ UNCHANGED <<worker, updates>>
      /\ main'.at = "schedule" /\ main'.todo = main.todo \ {map}
  BY DEF ScheduleMap, Schedule, Push, Inv, TypeOK
<1>2. map \notin Waiting /\ ~InHand(map) /\ updates[map] = 0
  BY <1>1 DEF OnceInv
<1>3. \A w \in Workers : worker[w].todo \subseteq Instances
  BY DEF Inv, TypeOK
<1>4. map \notin Instances
  BY MapsAssumption
<1> QED BY <1>1, <1>2, <1>3, <1>4, OncePush

LEMMA OnceScheduleInstance ==
  ASSUME Inv, OnceInv, NEW w \in Workers, NEW i \in Instances, ScheduleInstance(w, i)
  PROVE  OnceInv'
<1>1. /\ worker[w].at = "running" /\ i \in worker[w].todo /\ queue' = Append(queue, i)
      /\ updates' = updates /\ main' = main
      /\ worker' = [worker EXCEPT ![w].todo = @ \ {i}]
  BY DEF ScheduleInstance, Schedule, Push
<1>2. /\ Parent[i] = worker[w].req /\ i \notin Waiting /\ ~InHand(i) /\ updates[i] = 0
      /\ updates[worker[w].req] > 0 /\ worker[w].req # NoRequest
  BY <1>1 DEF OnceInv, Inv, WorkerInv
<1>3. \A v \in Workers : /\ worker'[v].at = worker[v].at /\ worker'[v].req = worker[v].req
                         /\ v # w => worker'[v].todo = worker[v].todo
  BY <1>1 DEF Inv, TypeOK
<1>4. worker'[w].todo = worker[w].todo \ {i}
  BY <1>1 DEF Inv, TypeOK
<1>5. \A v \in Workers : v # w /\ worker[v].at = "running" => i \notin worker[v].todo
  BY <1>2 DEF OnceInv
<1>6. main.at = "schedule" => i \notin main.todo
  BY MapsAssumption DEF Inv, TypeOK
<1> QED BY <1>1, <1>2, <1>3, <1>4, <1>5, <1>6, OncePush

LEMMA OnceReceive ==
  ASSUME Inv, OnceInv, NEW w \in Workers, Receive(w)
  PROVE  OnceInv'
<1>1. UNCHANGED <<main, updates>> /\ worker[w].at = "calling" /\ worker[w].req = NoRequest
  BY DEF Receive, Inv, WorkerInv
<1>2. CASE /\ Take(w, Head(queue))
           /\ worker' = [worker EXCEPT ![w].at = "popped", ![w].req = Head(queue)]
  <2> DEFINE h == Head(queue)
  <2>1. /\ h \in Requests /\ Waiting = Waiting' \cup {h}
        /\ NoRepeats(queue') /\ h \notin Waiting'
    BY <1>2, PopFacts DEF Take, Inv, TypeOK, OnceInv
  <2>2. h \in Waiting /\ ~InHand(h) /\ updates[h] = 0
    BY <2>1 DEF OnceInv
  <2>3. /\ worker'[w].req = h /\ worker'[w].at = "popped"
        /\ \A v \in Workers : v # w => worker'[v] = worker[v]
    BY <1>2 DEF Inv, TypeOK
  <2> HIDE DEF h
  <2>4. \A x \in Requests : InHand(x)' <=> InHand(x) \/ x = h
    BY <1>1, <2>3, MapsAssumption DEF InHand
  <2>5. \A v, u \in Workers :
          worker'[v].req = worker'[u].req /\ worker'[v].req # NoRequest => v = u
    BY <2>2, <2>3 DEF OnceInv, InHand
  <2>6. Waiting \subseteq Requests
    BY DEF Waiting, Inv, TypeOK
  <2>7. \A x \in Waiting' : ~InHand(x)' /\ updates'[x] = 0
    BY <1>1, <2>1, <2>4, <2>6 DEF OnceInv
  <2>8. main'.at = "schedule" =>
          \A x \in main'.todo : x \notin Waiting' /\ ~InHand(x)' /\ updates'[x] = 0
    <3>1. main.todo \subseteq Requests
      BY DEF Inv, TypeOK
    <3> QED BY <1>1, <2>1, <2>4, <3>1 DEF OnceInv
  <2>9. ASSUME NEW v \in Workers
        PROVE  /\ worker'[v].at = "popped" /\ worker'[v].req # NoRequest =>
                    updates'[worker'[v].req] = 0
               /\ worker'[v].at = "running" =>
                    /\ updates'[worker'[v].req] > 0
                    /\ \A i \in worker'[v].todo :
                         Parent[i] = worker'[v].req /\ i \notin Waiting' /\ ~InHand(i)'
                         /\ updates'[i] = 0
    <3>1. CASE v = w
      BY <1>1, <2>2, <2>3, <3>1
    <3>2. CASE v # w
      <4>1. worker[v].todo \subseteq Requests
        BY DEF Inv, TypeOK
      <4> QED BY <1>1, <2>1, <2>2, <2>3, <2>4, <3>2, <4>1 DEF OnceInv
    <3> QED BY <3>1, <3>2
  <2>10. \A i \in Instances :
           i \in Waiting' \/ InHand(i)' \/ updates'[i] > 0 => updates'[Parent[i]] > 0
    BY <1>1, <2>1, <2>4 DEF OnceInv
  <2> QED BY <2>1, <2>5, <2>7, <2>8, <2>9, <2>10 DEF OnceInv
<1>3. CASE GiveUp(w) /\ worker' = [worker EXCEPT ![w].at = "popped"]
  <2>1. /\ queue' = queue /\ worker'[w].req = NoRequest /\ worker'[w].at = "popped"
        /\ \A v \in Workers : v # w => worker'[v] = worker[v]
    BY <1>1, <1>3 DEF GiveUp, pcqVars, Inv, TypeOK
  <2>2. \A x : InHand(x)' <=> InHand(x)
    BY <1>1, <2>1 DEF InHand
  <2>3. Waiting' = Waiting
    BY <2>1 DEF Waiting
  <2> QED BY <1>1, <2>1, <2>2, <2>3 DEF OnceInv
<1> QED BY <1>2, <1>3 DEF Receive

LEMMA OnceExit ==
  ASSUME Inv, OnceInv, NEW w \in Workers, Exit(w)
  PROVE  OnceInv'
<1>1. /\ UNCHANGED <<queue, main, updates>> /\ worker'[w].at = "exited"
      /\ \A v \in Workers : worker'[v].req = worker[v].req /\ (v # w => worker'[v] = worker[v])
  BY DEF Exit, Inv, TypeOK
<1>2. Waiting' = Waiting /\ \A x : InHand(x)' <=> InHand(x)
  BY <1>1 DEF Waiting, InHand
<1> QED BY <1>1, <1>2 DEF OnceInv

LEMMA OnceCall ==
  ASSUME Inv, OnceInv, NEW w \in Workers, Call(w)
  PROVE  OnceInv'
<1> DEFINE r == worker[w].req
<1>1. /\ UNCHANGED <<queue, main>> /\ worker[w].at = "popped" /\ r # NoRequest
      /\ updates' = [x \in Requests |-> updates[x] + IF x = r THEN 1 ELSE 0]
  BY DEF Call, Inv, WorkerInv
<1>2. /\ worker'[w].at = "running" /\ worker'[w].todo = Children(r)
      /\ \A v \in Workers : worker'[v].req = worker[v].req /\ (v # w => worker'[v] = worker[v])
  BY DEF Call, Inv, TypeOK
<1>3. Waiting' = Waiting /\ \A x : InHand(x)' <=> InHand(x)
  BY <1>1, <1>2 DEF Waiting, InHand
<1>4. /\ r \in Requests /\ InHand(r) /\ updates[r] = 0
      /\ updates \in [Requests -> Nat]
  BY <1>1 DEF Inv, TypeOK, OnceInv, InHand
<1> HIDE DEF r
<1>5. \A x \in Requests : updates'[x] = IF x = r THEN 1 ELSE updates[x]
  BY <1>1, <1>4
<1>6. Waiting \subseteq Requests
  BY DEF Waiting, Inv, TypeOK
<1>7. \A x \in Waiting' : ~InHand(x)' /\ updates'[x] = 0
  BY <1>3, <1>4, <1>5, <1>6 DEF OnceInv
<1>8. main'.at = "schedule" =>
        \A x \in main'.todo : x \notin Waiting' /\ ~InHand(x)' /\ updates'[x] = 0
  <2>1. main.todo \subseteq Requests
    BY DEF Inv, TypeOK
  <2> QED BY <1>1, <1>3, <1>4, <1>5, <2>1 DEF OnceInv
<1>9. \A i \in Instances : Parent[i] \in BaseMaps /\ i \notin BaseMaps
  BY MapsAssumption
<1>10. ASSUME NEW v \in Workers
       PROVE  /\ worker'[v].at = "popped" /\ worker'[v].req # NoRequest =>
                   updates'[worker'[v].req] = 0
              /\ worker'[v].at = "running" =>
                   /\ updates'[worker'[v].req] > 0
                   /\ \A i \in worker'[v].todo :
                        Parent[i] = worker'[v].req /\ i \notin Waiting' /\ ~InHand(i)'
                        /\ updates'[i] = 0
  <2>1. CASE v = w
    <3>1. worker'[v].req = r
      BY <1>2, <2>1 DEF r
    <3>2. \A i \in Children(r) : Parent[i] = r /\ i \in Instances /\ i # r
      BY <1>9 DEF Children, Inv, TypeOK
    <3>3. \A i \in Children(r) : i \notin Waiting /\ ~InHand(i) /\ updates[i] = 0
      <4>1. \A i \in Instances : Parent[i] = r =>
              ~(i \in Waiting \/ InHand(i) \/ updates[i] > 0)
        BY <1>4 DEF OnceInv
      <4> QED BY <1>4, <3>2, <4>1
    <3> QED BY <1>2, <1>3, <1>4, <1>5, <2>1, <3>1, <3>2, <3>3
  <2>2. CASE v # w
    <3>1. worker'[v] = worker[v] /\ worker[v].todo \subseteq Requests
      BY <1>2, <2>2 DEF Inv, TypeOK
    <3>2. worker[v].req # NoRequest => worker[v].req # r /\ worker[v].req \in Requests
      BY <1>1, <2>2 DEF OnceInv, Inv, TypeOK, r
    <3>3. worker[v].at = "running" => worker[v].req # NoRequest
      BY DEF Inv, WorkerInv
    <3>4. worker[v].at = "running" => \A i \in worker[v].todo : i # r
      BY <1>4 DEF OnceInv
    <3> QED BY <1>3, <1>5, <3>1, <3>2, <3>3, <3>4 DEF OnceInv
  <2> QED BY <2>1, <2>2
<1>11. \A i \in Instances :
         i \in Waiting' \/ InHand(i)' \/ updates'[i] > 0 => updates'[Parent[i]] > 0
  <2> SUFFICES ASSUME NEW i \in Instances, i \in Waiting \/ InHand(i) \/ updates'[i] > 0
               PROVE  updates'[Parent[i]] > 0
    BY <1>3
  <2>1. i \in Waiting \/ InHand(i) \/ updates[i] > 0
    BY <1>4, <1>5
  <2>2. updates[Parent[i]] > 0 /\ Parent[i] \in Requests
    BY <1>9, <2>1 DEF OnceInv
  <2> QED BY <1>5, <2>2
<1>12. \A v, u \in Workers :
         worker'[v].req = worker'[u].req /\ worker'[v].req # NoRequest => v = u
  BY <1>2 DEF OnceInv
<1> QED BY <1>1, <1>7, <1>8, <1>10, <1>11, <1>12 DEF OnceInv

LEMMA OnceDestroyInstance ==
  ASSUME Inv, OnceInv, NEW w \in Workers, NEW i \in Instances, DestroyInstance(w, i)
  PROVE  OnceInv'
<1>1. /\ UNCHANGED <<queue, main, updates>>
      /\ \A v \in Workers : /\ worker'[v].req = worker[v].req /\ worker'[v].at = worker[v].at
                            /\ worker'[v].todo \subseteq worker[v].todo
  BY DEF DestroyInstance, Inv, TypeOK
<1>2. Waiting' = Waiting /\ \A x : InHand(x)' <=> InHand(x)
  BY <1>1 DEF Waiting, InHand
<1> QED BY <1>1, <1>2 DEF OnceInv

LEMMA OnceFinish ==
  ASSUME Inv, OnceInv, NEW w \in Workers, Finish(w)
  PROVE  OnceInv'
<1>1. /\ UNCHANGED <<queue, updates>> /\ main'.todo = main.todo
      /\ main'.at = "schedule" => main.at = "schedule"
      /\ worker'[w] = Idle /\ \A v \in Workers : v # w => worker'[v] = worker[v]
  BY DEF Finish, UpdateFinished, Inv, TypeOK
<1>2. Waiting' = Waiting /\ \A x \in Requests : InHand(x)' => InHand(x)
  BY <1>1, MapsAssumption DEF Waiting, InHand, Idle
<1>3. /\ Waiting \subseteq Requests /\ main.todo \subseteq Requests
      /\ \A v \in Workers : worker[v].todo \subseteq Requests
  BY DEF Waiting, Inv, TypeOK
<1>4. worker'[w].req = NoRequest /\ worker'[w].at = "calling"
  BY <1>1 DEF Idle
<1>5. \A v, u \in Workers :
        worker'[v].req = worker'[u].req /\ worker'[v].req # NoRequest => v = u
  BY <1>1, <1>4 DEF OnceInv
<1> QED BY <1>1, <1>2, <1>3, <1>4, <1>5 DEF OnceInv

LEMMA OnceStep == Inv /\ Barrier /\ OnceInv /\ [Next]_vars => OnceInv'
<1> SUFFICES ASSUME Inv, Barrier, OnceInv, [Next]_vars PROVE OnceInv'
  OBVIOUS
<1>1. ASSUME NEW map \in Maps, CreateMap(map) PROVE OnceInv'
  BY <1>1, OnceSame DEF CreateMap
<1>2. CASE BeginTick
  BY <1>2, OnceBeginTick
<1>3. CASE UnloadAll \/ WakeMainForNothing \/ AllScheduled \/ WaitForMaps \/ DelayedUpdate
           \/ SetToken \/ Drain \/ Join
  <2>1. UNCHANGED <<queue, worker, updates>>
    BY <1>3 DEF UnloadAll, WakeMainForNothing, AllScheduled, WaitForMaps, DelayedUpdate,
                SetToken, Drain, Join
  <2>2. main'.at # "schedule"
    BY <1>3 DEF UnloadAll, WakeMainForNothing, AllScheduled, WaitForMaps, DelayedUpdate,
                SetToken, Drain, Join, Wait, Inv, TypeOK
  <2> QED BY <2>1, <2>2, OnceSame
<1>4. ASSUME NEW map \in BaseMaps, ScheduleMap(map) PROVE OnceInv'
  BY <1>4, OnceScheduleMap
<1>5. CASE CancelQueue
  <2>1. queue = <<>>
    BY <1>5 DEF CancelQueue, Barrier, Updating
  <2>2. UNCHANGED <<queue, worker, updates>> /\ main'.at # "schedule"
    BY <1>5, <2>1 DEF CancelQueue, Cancel, Inv, TypeOK
  <2> QED BY <2>2, OnceSame
<1>6. ASSUME NEW w \in Workers, GoToSleep(w) \/ WakeForNothing(w) PROVE OnceInv'
  BY <1>6, OnceSame DEF GoToSleep, WakeForNothing, Sleep, SpuriousWake
<1>7. ASSUME NEW w \in Workers, Receive(w) \/ Exit(w) \/ Call(w) \/ Finish(w) PROVE OnceInv'
  BY <1>7, OnceReceive, OnceExit, OnceCall, OnceFinish
<1>8. ASSUME NEW w \in Workers, NEW i \in Instances,
             DestroyInstance(w, i) \/ ScheduleInstance(w, i)
      PROVE  OnceInv'
  BY <1>8, OnceDestroyInstance, OnceScheduleInstance
<1>9. CASE UNCHANGED vars
  BY <1>9, OnceSame DEF vars
<1> QED BY <1>1, <1>2, <1>3, <1>4, <1>5, <1>6, <1>7, <1>8, <1>9
        DEF Next, TickStep, StopStep, WorkerStep

-----------------------------------------------------------------------------
(* The refinement mapping, step by step.                                   *)

\* A step that leaves the four mapped values alone is a stutter of MapTick.
LEMMA TickStutter ==
  ASSUME Updating' <=> Updating, Due' = Due, Running' = Running, Updated' = Updated
  PROVE  UNCHANGED Tick!tickVars
BY DEF Tick!tickVars

\* Nothing is in hand: no request is popped or run.
LEMMA NothingInHand == Inv /\ Busy = {} => Popped = {} /\ Running = {}
BY DEF Busy, Popped, Running, Inv, WorkerInv

\* A request is popped, or run, by the worker that holds it.
LEMMA PopRun ==
  /\ \A r : r \in Running <=> \E w \in Workers : worker[w].at = "running" /\ worker[w].req = r
  /\ \A r : r \in Popped <=> \E w \in Workers : /\ worker[w].at = "popped" /\ worker[w].req = r
                                                /\ r # NoRequest
BY DEF Popped, Running, Busy

\* The workers' places are what they were: so are the requests in their hands.
LEMMA SameHands ==
  ASSUME \A w \in Workers : worker'[w].at = worker[w].at /\ worker'[w].req = worker[w].req
  PROVE  Running' = Running /\ Popped' = Popped
BY DEF Popped, Running, Busy

\* Init maps to Init.
LEMMA TickInit == Init => Tick!Init
<1> SUFFICES ASSUME Init PROVE Tick!Init
  OBVIOUS
<1>1. Waiting = {} /\ Left = {} /\ ~Updating
  BY DEF Init, PCQInit, Waiting, Left, Updating
<1>2. \A w \in Workers : worker[w].req = NoRequest /\ worker[w].at = "calling"
  BY DEF Init, Idle
<1>3. Popped = {} /\ Running = {}
  BY <1>2 DEF Popped, Running, Busy
<1>4. {r \in Requests : updates[r] > 0} = {}
  BY DEF Init
<1> QED BY <1>1, <1>3, <1>4 DEF Tick!Init, Due, Updated

\* The world thread hands the maps over.
LEMMA TickBegin ==
  ASSUME Inv, Barrier, Inv', BeginTick
  PROVE  Tick!HandOver
<1>1. queue = <<>> /\ Busy = {} /\ ~Updating
  BY DEF Barrier, Updating, BeginTick
<1>2. /\ worker' = worker /\ main' = [at |-> "schedule", todo |-> loaded]
      /\ updates' = [r \in Requests |-> 0]
  BY DEF BeginTick
<1>3. Running' = {} /\ Running = {} /\ Popped' = {}
  BY <1>1, <1>2, NothingInHand, SameHands
<1>4. {r \in Requests : updates'[r] > 0} = {}
  BY <1>2
<1>5. Updating'
  BY <1>2 DEF Updating
<1>6. Due' \in SUBSET Requests
  <2>1. Waiting' \subseteq Requests
    BY DEF Waiting, Inv, TypeOK
  <2>2. Left' \subseteq Requests
    BY DEF Left, Inv, TypeOK
  <2> QED BY <1>3, <2>1, <2>2 DEF Due
<1> QED BY <1>1, <1>3, <1>4, <1>5, <1>6 DEF Tick!HandOver, Updated

\* The world thread finds pending_requests at zero: it has the maps back.
LEMMA TickWait ==
  ASSUME Inv, Barrier', WaitForMaps
  PROVE  [Tick!TakeBack]_(Tick!tickVars)
<1>1. UNCHANGED <<queue, worker, updates>> /\ main.at = "wait"
  BY DEF WaitForMaps, Wait
<1>2. Running' = Running /\ Popped' = Popped /\ Waiting' = Waiting /\ Updated' = Updated
  BY <1>1, SameHands DEF Waiting, Updated
<1>3. Left = {}
  BY <1>1 DEF Left
<1>4. CASE pending > 0
  <2>1. main'.at = "waitAsleep"
    BY <1>4 DEF WaitForMaps, Wait, Inv, TypeOK
  <2>2. Left' = {} /\ (Updating' <=> Updating)
    BY <1>1, <2>1 DEF Left, Updating
  <2> QED BY <1>2, <1>3, <2>2, TickStutter DEF Due
<1>5. CASE ~(pending > 0)
  <2>1. main'.at = "delayed"
    BY <1>5 DEF WaitForMaps, Wait, Inv, TypeOK
  <2>2. Left' = {} /\ ~Updating' /\ Updating
    BY <1>1, <2>1 DEF Left, Updating
  <2>3. queue = <<>> /\ Busy = {}
    BY <1>1, <2>2 DEF Barrier, Busy
  <2>4. Waiting = {} /\ Popped = {} /\ Running = {}
    BY <2>3, NothingInHand DEF Waiting
  <2>5. Tick!TakeBack
    BY <1>2, <1>3, <2>2, <2>4 DEF Tick!TakeBack, Due
  <2> QED BY <2>5
<1> QED BY <1>4, <1>5

\* A worker takes a request from the queue: it is due as before.
LEMMA TickReceive ==
  ASSUME Inv, OnceInv, NEW w \in Workers, Receive(w)
  PROVE  UNCHANGED Tick!tickVars
<1>1. /\ UNCHANGED <<main, updates>> /\ worker[w].at = "calling" /\ worker'[w].at = "popped"
      /\ \A v \in Workers : v # w => worker'[v] = worker[v]
  BY DEF Receive, Inv, TypeOK
<1>3. Running' = Running
  BY <1>1 DEF Running
<1>4. \A r : r \in Popped' <=> \E v \in Workers : /\ worker'[v].at = "popped"
                                                  /\ worker'[v].req = r /\ r # NoRequest
  BY DEF Popped, Busy
<1>5. CASE /\ Take(w, Head(queue))
           /\ worker' = [worker EXCEPT ![w].at = "popped", ![w].req = Head(queue)]
  <2> DEFINE h == Head(queue)
  <2>1. h \in Requests /\ Waiting = Waiting' \cup {h}
    BY <1>5, PopFacts DEF Take, Inv, TypeOK, OnceInv
  <2>2. worker'[w].req = h /\ h # NoRequest
    BY <1>5, <2>1, MapsAssumption DEF Inv, TypeOK
  <2> HIDE DEF h
  <2>3. Popped' = Popped \cup {h}
    BY <1>1, <1>4, <2>2, PopRun
  <2> QED BY <1>1, <1>3, <2>1, <2>3, TickStutter DEF Due, Left, Updated, Updating
<1>6. CASE GiveUp(w) /\ worker' = [worker EXCEPT ![w].at = "popped"]
  <2>1. queue' = queue /\ worker'[w].req = NoRequest
    BY <1>1, <1>6 DEF GiveUp, pcqVars, Inv, TypeOK, WorkerInv
  <2>2. Popped' = Popped
    BY <1>1, <2>1 DEF Popped, Busy
  <2> QED BY <1>1, <1>3, <2>1, <2>2, TickStutter DEF Due, Waiting, Left, Updated, Updating
<1> QED BY <1>5, <1>6 DEF Receive

\* A worker leaves: the world thread is past wait(), nothing was in hand.
LEMMA TickExit ==
  ASSUME Inv, Barrier, NEW w \in Workers, Exit(w)
  PROVE  UNCHANGED Tick!tickVars
<1>1. /\ UNCHANGED <<queue, main, updates>> /\ worker'[w].at = "exited"
      /\ \A v \in Workers : worker'[v].req = worker[v].req /\ (v # w => worker'[v] = worker[v])
  BY DEF Exit, Inv, TypeOK
<1>2. Busy = {}
  BY DEF Exit, Inv, ShutdownInv, Barrier, Updating
<1>3. \A v \in Workers : worker'[v].req = NoRequest /\ worker'[v].at # "running"
  BY <1>1, <1>2 DEF Busy, Inv, WorkerInv
<1>4. Popped = {} /\ Running = {} /\ Popped' = {} /\ Running' = {}
  BY <1>2, <1>3, NothingInHand DEF Busy, Popped, Running
<1> QED BY <1>1, <1>4, TickStutter DEF Due, Waiting, Left, Updated, Updating

\* A worker calls the request it holds: the update starts.
LEMMA TickCall ==
  ASSUME Inv, OnceInv, NEW w \in Workers, Call(w)
  PROVE  Tick!StartUpdate(worker[w].req) /\ worker[w].req \in Requests
<1> DEFINE r == worker[w].req
<1>1. /\ UNCHANGED <<queue, main>> /\ worker[w].at = "popped" /\ r # NoRequest
      /\ updates' = [x \in Requests |-> updates[x] + IF x = r THEN 1 ELSE 0]
  BY DEF Call, Inv, WorkerInv
<1>2. /\ worker'[w].at = "running" /\ worker'[w].req = r
      /\ \A v \in Workers : v # w => worker'[v] = worker[v]
  BY DEF Call, Inv, TypeOK
<1>3. /\ r \in Requests /\ InHand(r) /\ updates[r] = 0
      /\ updates \in [Requests -> Nat]
  BY <1>1 DEF Inv, TypeOK, OnceInv, InHand
<1>4. \A v \in Workers : v # w => worker[v].req # r
  BY <1>1 DEF OnceInv
<1>5. r \in Popped
  BY <1>1, PopRun
<1> HIDE DEF r
<1>6. \A x : x \in Running' <=> \E v \in Workers : worker'[v].at = "running" /\ worker'[v].req = x
  BY DEF Running
<1>7. \A x : x \in Popped' <=> \E v \in Workers : /\ worker'[v].at = "popped"
                                                  /\ worker'[v].req = x /\ x # NoRequest
  BY DEF Popped, Busy
<1>8. Running' = Running \cup {r}
  BY <1>1, <1>2, <1>6, PopRun DEF r
<1>9. Popped' = Popped \ {r}
  BY <1>1, <1>2, <1>4, <1>7, PopRun DEF r
<1>10. Waiting' = Waiting /\ r \notin Waiting /\ Left' = Left /\ r \notin Left
  BY <1>1, <1>3 DEF Waiting, Left, OnceInv
<1>11. \A x \in Requests : updates'[x] = IF x = r THEN 1 ELSE updates[x]
  BY <1>1, <1>3
<1>12. Updated' = Updated
  BY <1>3, <1>8, <1>11 DEF Updated
<1>13. Due' = Due \ {r} /\ r \in Due
  BY <1>5, <1>9, <1>10 DEF Due
<1>14. Tick!StartUpdate(r)
  BY <1>1, <1>8, <1>12, <1>13 DEF Tick!StartUpdate, Updating
<1> QED BY <1>3, <1>14 DEF r

\* A worker schedules an instance: it becomes due, and was nothing before.
LEMMA TickInstance ==
  ASSUME Inv, OnceInv, NEW w \in Workers, NEW i \in Instances, ScheduleInstance(w, i)
  PROVE  Tick!FindInstance(i)
<1>1. /\ worker[w].at = "running" /\ i \in worker[w].todo /\ queue' = Append(queue, i)
      /\ updates' = updates /\ main' = main
      /\ worker' = [worker EXCEPT ![w].todo = @ \ {i}]
  BY DEF ScheduleInstance, Schedule, Push
<1>2. i \notin Waiting /\ ~InHand(i) /\ updates[i] = 0
  BY <1>1 DEF OnceInv
<1>3. \A v \in Workers : worker'[v].at = worker[v].at /\ worker'[v].req = worker[v].req
  BY <1>1 DEF Inv, TypeOK
<1>4. Running' = Running /\ Popped' = Popped
  BY <1>3, SameHands
<1>5. Waiting' = Waiting \cup {i}
  BY <1>1, PushFacts DEF Inv, TypeOK
<1>6. i \notin Popped /\ i \notin Running /\ Running # {}
  BY <1>1, <1>2, PopRun DEF InHand
<1>7. Left' = Left /\ i \notin Left
  BY <1>1, MapsAssumption DEF Left, Inv, TypeOK
<1>8. Updated' = Updated /\ i \notin Updated
  BY <1>1, <1>2, <1>4 DEF Updated
<1>9. Due' = Due \cup {i} /\ i \notin Due
  BY <1>2, <1>4, <1>5, <1>6, <1>7 DEF Due
<1> QED BY <1>1, <1>4, <1>6, <1>8, <1>9 DEF Tick!FindInstance, Updating

\* A worker is done with its request: the update finishes.
LEMMA TickFinish ==
  ASSUME Inv, OnceInv, NEW w \in Workers, Finish(w)
  PROVE  Tick!FinishUpdate(worker[w].req) /\ worker[w].req \in Requests
<1> DEFINE r == worker[w].req
<1>1. /\ UNCHANGED <<queue, updates>> /\ worker[w].at = "running" /\ r # NoRequest
      /\ worker'[w] = Idle /\ \A v \in Workers : v # w => worker'[v] = worker[v]
  BY DEF Finish, Inv, TypeOK, WorkerInv
<1>2. (Updating' <=> Updating) /\ Left' = Left
  BY DEF Finish, UpdateFinished, Inv, TypeOK, Updating, Left
<1>3. /\ r \in Requests /\ updates[r] > 0 /\ r \in Running
      /\ \A v \in Workers : v # w => worker[v].req # r
  BY <1>1, PopRun DEF Inv, TypeOK, OnceInv
<1> HIDE DEF r
<1>4. worker'[w].at = "calling" /\ worker'[w].req = NoRequest
  BY <1>1 DEF Idle
<1>5. \A x : x \in Running' <=> \E v \in Workers : worker'[v].at = "running" /\ worker'[v].req = x
  BY DEF Running
<1>7. Running' = Running \ {r}
  BY <1>1, <1>3, <1>4, <1>5, PopRun DEF r
<1>8. Popped' = Popped
  BY <1>1, <1>4 DEF Popped, Busy
<1>9. Updated' = Updated \cup {r}
  BY <1>1, <1>3, <1>7 DEF Updated
<1>10. Due' = Due
  BY <1>1, <1>2, <1>8 DEF Due, Waiting
<1>11. Tick!FinishUpdate(r)
  BY <1>2, <1>3, <1>7, <1>9, <1>10 DEF Tick!FinishUpdate
<1> QED BY <1>3, <1>11 DEF r

\* Every step maps to a step or a stutter.
LEMMA TickStepMaps ==
  Inv /\ Inv' /\ Barrier /\ Barrier' /\ OnceInv /\ [Next]_vars => [Tick!Next]_(Tick!tickVars)
<1> SUFFICES ASSUME Inv, Inv', Barrier, Barrier', OnceInv, [Next]_vars
             PROVE  [Tick!Next]_(Tick!tickVars)
  OBVIOUS
<1>1. ASSUME UNCHANGED <<queue, worker, updates>>, Updating' <=> Updating, Left' = Left
      PROVE  UNCHANGED Tick!tickVars
  <2>1. Running' = Running /\ Popped' = Popped
    BY <1>1, SameHands
  <2> QED BY <1>1, <2>1, TickStutter DEF Due, Waiting, Updated
<1>2. ASSUME NEW map \in Maps, CreateMap(map) PROVE UNCHANGED Tick!tickVars
  BY <1>1, <1>2 DEF CreateMap, Updating, Left
<1>3. CASE BeginTick
  BY <1>3, TickBegin DEF Tick!Next
<1>4. CASE UnloadAll \/ WakeMainForNothing \/ AllScheduled \/ DelayedUpdate
           \/ SetToken \/ Drain \/ Join
  <2>1. UNCHANGED <<queue, worker, updates>>
    BY <1>4 DEF UnloadAll, WakeMainForNothing, AllScheduled, DelayedUpdate,
                SetToken, Drain, Join
  <2>2. (Updating' <=> Updating) /\ Left' = Left
    BY <1>4 DEF UnloadAll, WakeMainForNothing, AllScheduled, DelayedUpdate,
                SetToken, Drain, Join, Wait, Inv, TypeOK, Updating, Left
  <2> QED BY <1>1, <2>1, <2>2
<1>5. CASE WaitForMaps
  BY <1>5, TickWait DEF Tick!Next
<1>6. ASSUME NEW map \in BaseMaps, ScheduleMap(map) PROVE UNCHANGED Tick!tickVars
  <2>1. /\ main.at = "schedule" /\ map \in main.todo /\ queue' = Append(queue, map)
        /\ UNCHANGED <<worker, updates>>
        /\ main'.at = "schedule" /\ main'.todo = main.todo \ {map}
    BY <1>6 DEF ScheduleMap, Schedule, Push, Inv, TypeOK
  <2>2. Waiting' = Waiting \cup {map}
    BY <2>1, PushFacts DEF Inv, TypeOK
  <2>3. Left = Left' \cup {map}
    BY <2>1 DEF Left
  <2>4. Running' = Running /\ Popped' = Popped
    BY <2>1, SameHands
  <2> QED BY <2>1, <2>2, <2>3, <2>4, TickStutter DEF Due, Updated, Updating
<1>7. CASE CancelQueue
  <2>1. queue = <<>>
    BY <1>7 DEF CancelQueue, Barrier, Updating
  <2>2. UNCHANGED <<queue, worker, updates>> /\ (Updating' <=> Updating) /\ Left' = Left
    BY <1>7, <2>1 DEF CancelQueue, Cancel, Inv, TypeOK, Updating, Left
  <2> QED BY <1>1, <2>2
<1>8. ASSUME NEW w \in Workers, GoToSleep(w) \/ WakeForNothing(w) PROVE UNCHANGED Tick!tickVars
  BY <1>1, <1>8 DEF GoToSleep, WakeForNothing, Sleep, SpuriousWake, Updating, Left
<1>9. ASSUME NEW w \in Workers, Receive(w) \/ Exit(w) PROVE UNCHANGED Tick!tickVars
  BY <1>9, TickReceive, TickExit
<1>10. ASSUME NEW w \in Workers, Call(w) \/ Finish(w) PROVE Tick!Next
  <2>1. CASE Call(w)
    <3>1. \E r \in Requests : Tick!StartUpdate(r)
      BY <2>1, TickCall
    <3> QED BY <3>1 DEF Tick!Next
  <2>2. CASE Finish(w)
    <3>1. \E r \in Requests : Tick!FinishUpdate(r)
      BY <2>2, TickFinish
    <3> QED BY <3>1 DEF Tick!Next
  <2> QED BY <1>10, <2>1, <2>2
<1>11. ASSUME NEW w \in Workers, NEW i \in Instances, DestroyInstance(w, i)
       PROVE  UNCHANGED Tick!tickVars
  <2>1. UNCHANGED <<queue, main, updates>>
    BY <1>11 DEF DestroyInstance
  <2>2. \A v \in Workers : worker'[v].at = worker[v].at /\ worker'[v].req = worker[v].req
    BY <1>11 DEF DestroyInstance, Inv, TypeOK
  <2>3. Running' = Running /\ Popped' = Popped
    BY <2>2, SameHands
  <2> QED BY <2>1, <2>3, TickStutter DEF Due, Waiting, Left, Updated, Updating
<1>12. ASSUME NEW w \in Workers, NEW i \in Instances, ScheduleInstance(w, i) PROVE Tick!Next
  BY <1>12, TickInstance DEF Tick!Next
<1>13. CASE UNCHANGED vars
  BY <1>1, <1>13 DEF vars, Updating, Left
<1> QED BY <1>2, <1>3, <1>4, <1>5, <1>6, <1>7, <1>8, <1>9, <1>10, <1>11, <1>12, <1>13
        DEF Next, TickStep, StopStep, WorkerStep

\* The queue, the counter, the two condition variables and the threads amount
\* to MapTick: the maps are handed over, each is updated once, by one worker at
\* a time, the instances are found while a map is updated, and the world thread
\* has all back only when nothing is left to do.
THEOREM TickHolds == Spec => TickRefined
<1>1. Init => OnceInv /\ Tick!Init
  BY OnceInit, TickInit
<1>2. Inv /\ Barrier /\ OnceInv /\ [Next]_vars => OnceInv'
  BY OnceStep
<1>3. Inv /\ Inv' /\ Barrier /\ Barrier' /\ OnceInv /\ [Next]_vars => [Tick!Next]_(Tick!tickVars)
  BY TickStepMaps
<1> QED
  BY <1>1, <1>2, <1>3, InvCorrect, BarrierHolds, PTL DEF Spec, TickRefined, Tick!Spec
=============================================================================
