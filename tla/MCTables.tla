------------------------------ MODULE MCTables -------------------------------
(***************************************************************************)
(* Instances for TLC of the library's two tables that threads share: the   *)
(* streams (StreamTable) and the thread-specific keys (ThreadKeys).  A     *)
(* behaviour is about one of them.                                         *)
(***************************************************************************)
EXTENDS StreamTable, ThreadKeys, TLC

CONSTANT MaxHarmed    \* a bound on the slots _dup2 and _dup may harm

VARIABLE shared

(* Threads are interchangeable in both, and so are native handles and the  *)
(* slots of the kernel, for which the same names are used.                 *)
ASSUME Users = Threads /\ Keys = Handles

Symmetry == Permutations(Threads) \union Permutations(Handles)

TablesInit == shared \in {"streams", "keys"} /\ Init /\ KeysInit

TablesNext ==
  \/ /\ shared = "streams" /\ Next /\ UNCHANGED <<shared, keyvars>>
     /\ Cardinality(harmed') <= MaxHarmed
  \/ shared = "keys" /\ KeysNext /\ UNCHANGED <<shared, vars>>

TablesSpec == TablesInit /\ [][TablesNext]_<<shared, vars, keyvars>>
=============================================================================
