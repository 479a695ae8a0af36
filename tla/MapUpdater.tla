----------------------------- MODULE MapUpdater -----------------------------
(***************************************************************************)
(* One world tick over all maps: MapMgr::Update on the world thread, the   *)
(* worker threads of MapUpdater, and MapInstanced::Update, which runs on a *)
(* worker and schedules the instances of its map.  The world thread waits  *)
(* for all of it before it touches a map again.                            *)
(*                                                                         *)
(* A request is the map it updates, or Lfg for the LFG request.  Every     *)
(* section of MapUpdater under _lock is one action: schedule_update holds  *)
(* it over the counter and the push, so the queue's own lock nests inside. *)
(***************************************************************************)
EXTENDS Integers, Sequences, FiniteSets

CONSTANTS
  Workers,              \* _workerThreads
  BaseMaps,             \* what i_maps may hold
  Instances,            \* what the m_InstancedMaps of the base maps may hold
  Parent,               \* instance -> the base map that owns it
  Lfg,                  \* the LFGUpdateRequest
  NoRequest,            \* a null UpdateRequest*
  MaxTicks              \* bound: world ticks in a behaviour

ASSUME WorkersAssumption == Workers # {} /\ IsFiniteSet(Workers)
ASSUME MapsAssumption ==
  /\ IsFiniteSet(BaseMaps)
  /\ Parent \in [Instances -> BaseMaps]
  /\ BaseMaps \cap Instances = {}
  /\ Lfg \notin BaseMaps \cup Instances
  /\ NoRequest \notin BaseMaps \cup Instances \cup {Lfg}
ASSUME MaxTicksAssumption == MaxTicks \in Nat

VARIABLES
  queue, shutdown, sleeping,    \* MapUpdater::_queue
  pending,                      \* pending_requests
  token,                        \* _cancelationToken
  loaded,                       \* i_maps
  live,                         \* the instances in all the m_InstancedMaps
  main,                         \* the world thread: where it is, maps left
  worker,                       \* worker -> where it is, request, instances left
  updates,                      \* request -> calls started in this tick
  held,                         \* instances DestroyInstance left alone in this tick
  tick                          \* ticks begun

INSTANCE ProducerConsumerQueue WITH Consumers <- Workers

vars == <<queue, shutdown, sleeping, pending, token, loaded, live, main,
          worker, updates, held, tick>>
maps == <<loaded, live>>

Maps == BaseMaps \cup Instances
Requests == Maps \cup {Lfg}
Children(map) == {i \in live : Parent[i] = map}

-----------------------------------------------------------------------------
(* MapUpdater's operations.                                                *)

\* schedule_update, schedule_lfg_update
Schedule(request) == pending' = pending + 1 /\ Push(request)

\* Mutant of UpdateFinished: no notify_all.
UpdateFinished_NoNotify == pending' = pending - 1 /\ UNCHANGED main

\* update_finished: the notify_all lets the world thread test again.
UpdateFinished ==
  /\ pending' = pending - 1
  /\ main' = IF main.at = "waitAsleep" THEN [main EXCEPT !.at = "wait"]
             ELSE IF main.at = "drainAsleep" THEN [main EXCEPT !.at = "drain"]
             ELSE main

\* wait: one test of the loop, from "here"; go on to "there" or sleep.
Wait(here, asleep, there) ==
  /\ main.at = here
  /\ main' = [main EXCEPT !.at = IF pending > 0 THEN asleep ELSE there]

-----------------------------------------------------------------------------
(* The world thread.                                                       *)

\* Between two updates players create maps and instances (CreateBaseMap,
\* CreateInstance, CreateBattleground).
CreateMap(map) ==
  /\ main.at = "free"
  /\ tick < MaxTicks
  /\ \/ map \in BaseMaps \ loaded /\ loaded' = loaded \cup {map} /\ live' = live
     \/ /\ map \in Instances \ live /\ Parent[map] \in loaded
        /\ live' = live \cup {map} /\ loaded' = loaded
  /\ UNCHANGED <<queue, shutdown, sleeping, pending, token, main, worker,
                 updates, held, tick>>

\* MapMgr::Update: the LFG request goes first.
BeginTick ==
  /\ main.at = "free"
  /\ tick < MaxTicks
  /\ tick' = tick + 1
  /\ main' = [at |-> "schedule", todo |-> loaded]
  /\ updates' = [r \in Requests |-> 0]
  /\ held' = {}
  /\ Schedule(Lfg)
  /\ UNCHANGED <<token, worker, maps>>

ScheduleMap(map) ==
  /\ main.at = "schedule"
  /\ map \in main.todo
  /\ Schedule(map)
  /\ main' = [main EXCEPT !.todo = @ \ {map}]
  /\ UNCHANGED <<token, worker, updates, held, tick, maps>>

AllScheduled ==
  /\ main.at = "schedule"
  /\ main.todo = {}
  /\ main' = [main EXCEPT !.at = "wait"]
  /\ UNCHANGED <<queue, shutdown, sleeping, pending, token, worker, updates, held,
                 tick, maps>>

WaitForMaps ==
  /\ Wait("wait", "waitAsleep", "delayed")
  /\ UNCHANGED <<queue, shutdown, sleeping, pending, token, worker, updates, held,
                 tick, maps>>

\* Mutant of WakeMainForNothing: "if" in place of "while" in wait().
WakeMainForNothing_If ==
  /\ main.at = "waitAsleep"
  /\ main' = [main EXCEPT !.at = "delayed"]
  /\ UNCHANGED <<queue, shutdown, sleeping, pending, token, worker, updates, held,
                 tick, maps>>

\* The condition variable may wake the world thread for nothing.
WakeMainForNothing ==
  /\ main.at = "waitAsleep"
  /\ main' = [main EXCEPT !.at = "wait"]
  /\ UNCHANGED <<queue, shutdown, sleeping, pending, token, worker, updates, held,
                 tick, maps>>

\* The DelayedUpdate of every map whose turn it is, on the world thread.
DelayedUpdate ==
  /\ main.at = "delayed"
  /\ main' = [main EXCEPT !.at = "free"]
  /\ UNCHANGED <<queue, shutdown, sleeping, pending, token, worker, updates, held,
                 tick, maps>>

\* MapMgr::UnloadAll after the last tick, then MapUpdater::deactivate.
UnloadAll ==
  /\ main.at = "free"
  /\ loaded' = {} /\ live' = {}
  /\ main' = [main EXCEPT !.at = "unloaded"]
  /\ UNCHANGED <<queue, shutdown, sleeping, pending, token, worker, updates, held,
                 tick>>

SetToken ==
  /\ main.at = "unloaded"
  /\ token' = TRUE
  /\ main' = [main EXCEPT !.at = "drain"]
  /\ UNCHANGED <<queue, shutdown, sleeping, pending, worker, updates, held, tick, maps>>

Drain ==
  /\ Wait("drain", "drainAsleep", "cancel")
  /\ UNCHANGED <<queue, shutdown, sleeping, pending, token, worker, updates, held,
                 tick, maps>>

CancelQueue ==
  /\ main.at = "cancel"
  /\ Cancel
  /\ main' = [main EXCEPT !.at = "join"]
  /\ UNCHANGED <<pending, token, worker, updates, held, tick, maps>>

Join ==
  /\ main.at = "join"
  /\ \A w \in Workers : worker[w].at = "exited"
  /\ main' = [main EXCEPT !.at = "done"]
  /\ UNCHANGED <<queue, shutdown, sleeping, pending, token, worker, updates, held,
                 tick, maps>>

-----------------------------------------------------------------------------
(* A worker thread: WorkerThread, MapUpdateRequest::call and               *)
(* LFGUpdateRequest::call.                                                 *)

Idle == [at |-> "calling", req |-> NoRequest, todo |-> {}]

GoToSleep(w) ==
  /\ worker[w].at = "calling"
  /\ Sleep(w)
  /\ UNCHANGED <<pending, token, main, worker, updates, held, tick, maps>>

WakeForNothing(w) ==
  /\ SpuriousWake(w)
  /\ UNCHANGED <<pending, token, main, worker, updates, held, tick, maps>>

\* WaitAndPop returns, with a request or without.
Receive(w) ==
  /\ worker[w].at = "calling"
  /\ \/ /\ Take(w, Head(queue))
        /\ worker' = [worker EXCEPT ![w].at = "popped", ![w].req = Head(queue)]
     \/ /\ GiveUp(w)
        /\ worker' = [worker EXCEPT ![w].at = "popped"]
  /\ UNCHANGED <<pending, token, main, updates, held, tick, maps>>

\* The token is tested after the pop: a request popped by then is dropped.
Exit(w) ==
  /\ worker[w].at = "popped"
  /\ token
  /\ worker' = [worker EXCEPT ![w].at = "exited"]
  /\ UNCHANGED <<queue, shutdown, sleeping, pending, token, main, updates, held,
                 tick, maps>>

\* request->call(): Map::Update for a map.  The instances are visited later.
Call(w) ==
  /\ worker[w].at = "popped"
  /\ ~token
  /\ worker' = [worker EXCEPT ![w].at = "running",
                              ![w].todo = Children(worker[w].req)]
  /\ updates' = [r \in Requests |->
                   updates[r] + IF r = worker[w].req THEN 1 ELSE 0]
  /\ UNCHANGED <<queue, shutdown, sleeping, pending, token, main, held, tick, maps>>

\* MapInstanced::Update visits an instance.  CanUnload holds: DestroyInstance
\* deletes it, or leaves it alone while players are still being teleported
\* out; it is not updated in this tick then.
DestroyInstance(w, i) ==
  /\ worker[w].at = "running"
  /\ i \in worker[w].todo
  /\ \/ live' = live \ {i} /\ held' = held
     \/ held' = held \cup {i} /\ live' = live
  /\ worker' = [worker EXCEPT ![w].todo = @ \ {i}]
  /\ UNCHANGED <<queue, shutdown, sleeping, pending, token, main, updates, tick,
                 loaded>>

\* Mutant of ScheduleInstance: the iterator is not advanced.
ScheduleInstance_Again(w, i) ==
  /\ worker[w].at = "running"
  /\ i \in worker[w].todo
  /\ Len(queue) < 4
  /\ Schedule(i)
  /\ UNCHANGED <<worker, token, main, updates, held, tick, maps>>

\* CanUnload does not hold: schedule_update, before its own request is finished.
ScheduleInstance(w, i) ==
  /\ worker[w].at = "running"
  /\ i \in worker[w].todo
  /\ Schedule(i)
  /\ worker' = [worker EXCEPT ![w].todo = @ \ {i}]
  /\ UNCHANGED <<token, main, updates, held, tick, maps>>

Finish(w) ==
  /\ worker[w].at = "running"
  /\ worker[w].todo = {}
  /\ UpdateFinished
  /\ worker' = [worker EXCEPT ![w] = Idle]
  /\ UNCHANGED <<queue, shutdown, sleeping, token, updates, held, tick, maps>>

-----------------------------------------------------------------------------
Init ==
  /\ PCQInit
  /\ pending = 0
  /\ token = FALSE
  /\ loaded = {} /\ live = {}
  /\ main = [at |-> "free", todo |-> {}]
  /\ worker = [w \in Workers |-> Idle]
  /\ updates = [r \in Requests |-> 0]
  /\ held = {}
  /\ tick = 0

TickStep ==
  \/ \E map \in BaseMaps : ScheduleMap(map)
  \/ AllScheduled \/ WaitForMaps \/ DelayedUpdate

StopStep == SetToken \/ Drain \/ CancelQueue \/ Join

WorkerStep(w) ==
  \/ GoToSleep(w) \/ Receive(w) \/ Exit(w) \/ Call(w) \/ Finish(w)
  \/ \E i \in Instances : DestroyInstance(w, i) \/ ScheduleInstance(w, i)

Next ==
  \/ \E map \in Maps : CreateMap(map)
  \/ BeginTick \/ UnloadAll \/ WakeMainForNothing
  \/ TickStep \/ StopStep
  \/ \E w \in Workers : WorkerStep(w) \/ WakeForNothing(w)

Spec == Init /\ [][Next]_vars

\* Every thread that can step is scheduled.  The world loop need not begin
\* another tick, and nothing need stop it.
FairSpec ==
  /\ Spec
  /\ WF_vars(TickStep \/ StopStep)
  /\ \A w \in Workers : WF_vars(WorkerStep(w))

-----------------------------------------------------------------------------
(* What the updater promises.                                              *)

MainPlaces == {"free", "schedule", "wait", "waitAsleep", "delayed", "unloaded",
               "drain", "drainAsleep", "cancel", "join", "done"}

\* The world thread is inside MapMgr::Update, not yet past wait().
Updating == main.at \in {"schedule", "wait", "waitAsleep"}

\* The workers that hold a request.
Busy == {w \in Workers : worker[w].req # NoRequest}

\* Every variable has its type.
TypeOK ==
  /\ queue \in Seq(Requests)
  /\ shutdown \in BOOLEAN
  /\ sleeping \subseteq Workers
  /\ pending \in Int
  /\ token \in BOOLEAN
  /\ loaded \subseteq BaseMaps
  /\ live \subseteq Instances
  /\ main \in [at : MainPlaces, todo : SUBSET BaseMaps]
  /\ worker \in [Workers -> [at   : {"calling", "popped", "running", "exited"},
                             req  : Requests \cup {NoRequest},
                             todo : SUBSET Instances]]
  /\ updates \in [Requests -> Nat]
  /\ held \subseteq Instances
  /\ tick \in Nat

\* pending_requests is the number of requests queued or in a worker's hands:
\* a request counts from before its push until after its call.
PendingCountsWork == pending = Len(queue) + Cardinality(Busy)

\* Once wait() has returned the world thread has the maps to itself: no
\* request is queued and no worker holds one, through DelayedUpdate, the
\* sessions, the scripts, the unloading and the shutdown.
Barrier == ~Updating => queue = <<>> /\ Busy = {}

\* No worker ever calls through the null pointer WaitAndPop leaves it with
\* when the queue is shut down.
NoNullCall == \A w \in Workers : worker[w].at = "running" => w \in Busy

\* No thread leaves with a request it popped and did not run (it would be
\* lost, and pending_requests would never return to zero).
NoRequestDropped == \A w \in Workers : worker[w].at = "exited" => w \notin Busy

Running == {worker[w].req : w \in {v \in Workers : worker[v].at = "running"}}
Popped == {worker[w].req : w \in {v \in Busy : worker[v].at = "popped"}}

\* The requests that wait in the queue, that the world thread has yet to put
\* there, that are due for their update, and that had it.
Waiting == {queue[i] : i \in 1 .. Len(queue)}
Left == IF main.at = "schedule" THEN main.todo ELSE {}
Due == Waiting \cup Popped \cup Left
Updated == {r \in Requests : updates[r] > 0} \ Running

Tick == INSTANCE MapTick WITH
  handedOver <- Updating,
  due <- Due,
  updating <- Running,
  finished <- Updated

\* The queue, the counter and the two condition variables amount to handing
\* the maps over and taking them back: no map is updated twice in a tick or by
\* two workers, and the instances are found only while a map is updated.
TickRefined == Tick!Spec

\* Every tick comes to its end, however often the instances are scheduled
\* from inside, and threads are woken for nothing.
TickCompletes == Updating ~> main.at = "free"

\* deactivate() returns, with every worker thread ended.
ShutdownCompletes ==
  main.at = "unloaded" ~> main.at = "done" /\ \A w \in Workers : worker[w].at = "exited"
=============================================================================
