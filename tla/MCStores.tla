------------------------------ MODULE MCStores ------------------------------
(***************************************************************************)
(* A small instance of Stores for TLC.  Three keys share a primary slot at *)
(* one capacity or another; the strings form a cluster that runs around    *)
(* the end of the table.                                                   *)
(***************************************************************************)
EXTENDS Stores

CONSTANTS k1, k2, k3, k4, k5, k6, s1, s2, s3, s4, s5, s6, s7

Hashes ==
  [k \in Key |-> CASE k = k1 -> 0 [] k = k2 -> 8 [] k = k3 -> 4
                   [] k = k4 -> 12 [] k = k5 -> 1 [] k = k6 -> 7]

StrHashes ==
  [s \in Str |-> CASE s = s1 -> 7 [] s = s2 -> 15 [] s = s3 -> 6 [] s = s4 -> 0
                   [] s = s5 -> 3 [] s = s6 -> 11 [] s = s7 -> 2]

=============================================================================
