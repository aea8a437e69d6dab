---------------------------- MODULE MCNicTables -----------------------------
(* At most two adapters, one group and "lo", by the order of their names. *)
EXTENDS NicTables, TLC

CONSTANTS n1, n2, b1, lo

ByName ==
  [i \in Interface |-> ((b1 :> 0) @@ (n1 :> 1) @@ (n2 :> 2) @@ (lo :> 3))[i]]
=============================================================================
