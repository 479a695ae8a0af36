-------------------------- MODULE MCSqlTransaction --------------------------
(* Worker threads and a synchronous caller: one of the transactions has    *)
(* two statements, one is empty.                                           *)
EXTENDS SqlTransaction, TLC

CONSTANTS a1, a2, a3, s1

MCLength == (a1 :> 2 @@ a2 :> 1 @@ a3 :> 0 @@ s1 :> 1)
MCMaxLosses == [t \in Threads |-> IF t = a1 THEN 1 ELSE 0]
=============================================================================
