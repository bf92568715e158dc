----------------------------- MODULE MCAsyncHttp -----------------------------
(***************************************************************************)
(* Small instances of AsyncHttp for TLC.  Nodes and IDs are                *)
(* interchangeable.                                                        *)
(***************************************************************************)
EXTENDS AsyncHttp, TLC

Symmetry == Permutations(Req) \cup Permutations(Worker)

=============================================================================
