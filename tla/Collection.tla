----------------------------- MODULE Collection -----------------------------
(***************************************************************************)
(* What a script may rely on of a map or a set: a finite set of keys, and  *)
(* a foreach over it that either gives every key once or ends with an      *)
(* error after a change.  Buckets, order and capacity do not appear.       *)
(***************************************************************************)
CONSTANT Key

VARIABLES
  keys,   \* the keys the collection holds
  each    \* one foreach: its phase, the keys it has given, whether it is stale

vars == <<keys, each>>

Stale == [each EXCEPT !.stale = @ \/ each.phase = "on"]
Ended(phase) == [phase |-> phase, given |-> {}, stale |-> FALSE]

\* A key that is there already changes nothing and disturbs no foreach.
Insert(k) ==
  /\ k \notin keys
  /\ keys' = keys \cup {k}
  /\ each' = [Stale EXCEPT !.given = {}]

Remove(k) ==
  /\ k \in keys
  /\ keys' = keys \ {k}
  /\ each' = [Stale EXCEPT !.given = {}]

Clear ==
  /\ keys # {}
  /\ keys' = {}
  /\ each' = [Stale EXCEPT !.given = {}]

\* Making room keeps the keys; a foreach need not survive it.
Reserve ==
  /\ each' = [Stale EXCEPT !.given = {}]
  /\ UNCHANGED keys

First ==
  /\ each.phase # "on"
  /\ \E k \in keys : each' = [phase |-> "on", given |-> {k}, stale |-> FALSE]
  /\ UNCHANGED keys

Give ==
  /\ each.phase = "on" /\ ~each.stale
  /\ \E k \in keys \ each.given : each' = [each EXCEPT !.given = @ \cup {k}]
  /\ UNCHANGED keys

\* It ends by itself only when it has given every key there is.
Done ==
  /\ \/ each.phase = "on" /\ ~each.stale /\ each.given = keys
     \/ each.phase # "on" /\ keys = {}
  /\ each' = Ended("done")
  /\ UNCHANGED keys

Fail ==
  /\ each.phase = "on" /\ each.stale
  /\ each' = Ended("failed")
  /\ UNCHANGED keys

Break ==
  /\ each.phase = "on"
  /\ each' = Ended("broken")
  /\ UNCHANGED keys

Init == keys = {} /\ each = Ended("done")

Next ==
  \/ \E k \in Key : Insert(k) \/ Remove(k)
  \/ Clear \/ Reserve
  \/ First \/ Give \/ Done \/ Fail \/ Break

Spec == Init /\ [][Next]_vars

=============================================================================
