----------------------------- MODULE MCContexts -----------------------------
(***************************************************************************)
(* Small instances of Contexts for TLC.  Pool nodes are interchangeable.   *)
(***************************************************************************)
EXTENDS Contexts, TLC

Symmetry == Permutations(Ctx)

=============================================================================
