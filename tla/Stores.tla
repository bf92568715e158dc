------------------------------- MODULE Stores -------------------------------
(***************************************************************************)
(* The three stores of a VM beside its heap: collections, the intern table *)
(* and the node pools.  They call each other but share no state: a         *)
(* collection gets a node or an interned key by one call that returns      *)
(* before it goes on, and nothing of its own can change meanwhile.  So a   *)
(* behaviour exercises one of them, chosen at the start, and the others    *)
(* rest.                                                                   *)
(***************************************************************************)
EXTENDS HashTable, StringInterner, MemoryPool

VARIABLE focus

vars == <<hashVars, internVars, poolVars, focus>>

Init ==
  /\ HashInit /\ InternInit /\ PoolInit
  /\ focus \in {"collection", "strings", "pool"}

Collections ==
  focus = "collection" /\ HashNext /\ UNCHANGED <<internVars, poolVars, focus>>
Strings ==
  focus = "strings" /\ InternNext /\ UNCHANGED <<hashVars, poolVars, focus>>
Pools ==
  focus = "pool" /\ PoolNext /\ UNCHANGED <<hashVars, internVars, focus>>

Next == Collections \/ Strings \/ Pools

Spec == Init /\ [][Next]_vars

=============================================================================
