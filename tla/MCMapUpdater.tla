---------------------------- MODULE MCMapUpdater ----------------------------
(* A continent and a dungeon map; the instances are the dungeon's.         *)
EXTENDS MapUpdater

CONSTANTS continent, dungeon

MCParent == [i \in Instances |-> dungeon]
=============================================================================
