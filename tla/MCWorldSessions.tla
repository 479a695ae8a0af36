--------------------------- MODULE MCWorldSessions ---------------------------
(* Few accounts with few connections; accounts of one kind are             *)
(* interchangeable when no temporal property is checked.                   *)
EXTENDS WorldSessions, TLC

CONSTANTS a1, a2, a3

MCAccounts == {a1, a2, a3}
AccountSymmetry == Permutations({a1, a2})
=============================================================================
