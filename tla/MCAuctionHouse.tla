--------------------------- MODULE MCAuctionHouse ---------------------------
(* A seller with two items and two players with money.                     *)
EXTENDS AuctionHouse

CONSTANTS p1, p2, p3, i1, i2

MCFirstOwner == [i \in Items |-> p1]
MCFirstMoney == [p \in Players |-> IF p = p1 THEN 1 ELSE 2]
MCMailMoney == [p \in Players |-> 2]
MCRoom == [p \in Players |-> 2]
=============================================================================
