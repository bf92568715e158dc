----------------------------- MODULE MCNeoHeap -----------------------------
(***************************************************************************)
(* Small instances of NeoHeap for TLC: which pool each node belongs to.    *)
(***************************************************************************)
EXTENDS NeoHeap, TLC

CONSTANTS o1, o2, o3, f1, f2, g, x

AllMaps == [o \in Obj |-> Maps]
AsyncClosure == (o1 :> Asyncs) @@ (o2 :> Closures)
CoroutineMapClosure == (o1 :> Coroutines) @@ (o2 :> Maps) @@ (o3 :> Closures)

Symmetry == Permutations(Obj)

=============================================================================
