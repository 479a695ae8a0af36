--------------------------- MODULE MCWorldSocket ----------------------------
(* Packets of one byte and one that is bigger than the buffer of two. *)
EXTENDS WorldSocket

CONSTANTS w1, w2

MCSize == [n \in Nodes |-> IF n = 3 THEN 3 ELSE 1]
=============================================================================
