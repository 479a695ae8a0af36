------------------------------- MODULE MapTick -------------------------------
(***************************************************************************)
(* What the map updater promises to the rest of the server, whatever       *)
(* threads and queues it is made of.  In each tick the world thread hands  *)
(* the maps over and takes them back.  In between each of them is updated, *)
(* by whom and in whatever order, but never by two at a time and never     *)
(* twice; an update may find more maps to update, the instances.  The      *)
(* world thread has them back only when all of that has come to its end.   *)
(***************************************************************************)
EXTENDS FiniteSets

CONSTANT Requests

VARIABLES
  handedOver,           \* do the maps belong to the updates now?
  due,                  \* waiting for their update
  updating,             \* being updated
  finished              \* updated in this tick

tickVars == <<handedOver, due, updating, finished>>

Init ==
  /\ handedOver = FALSE
  /\ due = {} /\ updating = {} /\ finished = {}

HandOver ==
  /\ ~handedOver
  /\ handedOver' = TRUE
  /\ due' \in SUBSET Requests
  /\ finished' = {}
  /\ UNCHANGED updating

StartUpdate(r) ==
  /\ r \in due
  /\ due' = due \ {r}
  /\ updating' = updating \cup {r}
  /\ UNCHANGED <<handedOver, finished>>

FindInstance(r) ==
  /\ updating # {}
  /\ r \notin due \cup updating \cup finished
  /\ due' = due \cup {r}
  /\ UNCHANGED <<handedOver, updating, finished>>

FinishUpdate(r) ==
  /\ r \in updating
  /\ updating' = updating \ {r}
  /\ finished' = finished \cup {r}
  /\ UNCHANGED <<handedOver, due>>

TakeBack ==
  /\ handedOver
  /\ due = {} /\ updating = {}
  /\ handedOver' = FALSE
  /\ UNCHANGED <<due, updating, finished>>

Next ==
  \/ HandOver \/ TakeBack
  \/ \E r \in Requests : StartUpdate(r) \/ FindInstance(r) \/ FinishUpdate(r)

Spec == Init /\ [][Next]_tickVars
=============================================================================
