------------------------------ MODULE MCTrade ------------------------------
(* Two players who trade and a third who may come between.                 *)
EXTENDS Trade, TLC

CONSTANTS p1, p2, p3, i1, i2

MCFirstOwner == (i1 :> p1 @@ i2 :> p2)
MCFirstMoney == [p \in Players |-> IF p = p3 THEN 0 ELSE 1]
MCRoom == [p \in Players |-> IF p = p2 THEN 2 ELSE 1]
=============================================================================
