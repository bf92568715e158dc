----------------------------- MODULE MCCaptures -----------------------------
(* Two lambdas, the main context and one coroutine.                        *)
EXTENDS Captures, TLC

\* Three frames on the main context: a lambda may be below and above another
\* one.  Two on the coroutine: a lambda may be parked there under itself.
Room == [x \in Ctx |-> IF x = Main THEN 3 ELSE 2]

\* Neither lambdas nor values are told apart.
Symmetry == Permutations(Closure) \cup Permutations(Value)

=============================================================================
