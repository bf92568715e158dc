--------------------------- MODULE StringInterner ---------------------------
(***************************************************************************)
(* The intern table of a VM (NeoVM.cpp): open addressing with linear       *)
(* probing.  Map and set keys are compared by pointer, so there must be    *)
(* one interned node per content.  Removal leaves no tombstones: the rest  *)
(* of the probe cluster, which may run around the end of the table, is     *)
(* placed again.                                                           *)
(***************************************************************************)
EXTENDS Integers, FiniteSets, Sequences, SequencesExt

CONSTANTS
  Str, NoStr,
  StrHash,      \* GetHashCode of each content
  MinCapacity   \* 64 slots

\* 1, doubled e times.
Doubled[e \in Nat] == IF e = 0 THEN 1 ELSE 2 * Doubled[e - 1]

ASSUME InternerAssumption ==
  /\ NoStr \notin Str
  /\ StrHash \in [Str -> Nat]
  /\ MinCapacity \in Nat /\ \E e \in 1 .. MinCapacity : MinCapacity = Doubled[e]

VARIABLES
  slots,       \* m_sStringIntern, a function on its indices
  internCount, \* m_sStringInternCount
  interned,    \* the contents that have a StringInfo with _interned set
  work         \* the loop under way: of RehashStringIntern over the slots it
               \* replaces, with the string to insert after it, or of
               \* RemoveInternedString over the rest of the cluster

internVars == <<slots, internCount, interned, work>>

Size(t) == Cardinality(DOMAIN t)
FreshSlots(n) == [i \in 0 .. n - 1 |-> NoStr]

Home(t, s) == StrHash[s] % Size(t)
Behind(t, i) == IF i + 1 = Size(t) THEN 0 ELSE i + 1

\* The slots from i to j, around the end when j is before i.
Way(t, i, j) ==
  {k \in DOMAIN t : IF i <= j THEN i <= k /\ k <= j ELSE i <= k \/ k <= j}

\* The first slot from i on that is empty or holds s.
Probe(t, i, s) ==
  CHOOSE j \in DOMAIN t :
    t[j] \in {NoStr, s} /\ \A k \in Way(t, i, j) : t[k] \in {NoStr, s} => k = j

FindInternedString(t, s) ==
  IF Size(t) = 0 THEN NoStr ELSE t[Probe(t, Home(t, s), s)]

Placed(t, s) == [t EXCEPT ![Probe(t, Home(t, s), NoStr)] = s]

\* The smallest power of two that is enough.
PowerOfTwo(n) == Doubled[Min({e \in 0 .. n : Doubled[e] >= n})]

\* MinCapacity, doubled until n strings fill at most three quarters.
DesiredCapacity(n) == PowerOfTwo(Max({MinCapacity, (n * 4 + 2) \div 3}))

-----------------------------------------------------------------------------
Done == [op |-> "none", at |-> 0, old |-> <<>>, string |-> NoStr]

\* RehashStringIntern starts: the new slots are empty.
RehashStringIntern(capacity, s) ==
  /\ slots' = FreshSlots(PowerOfTwo(Max({capacity, MinCapacity})))
  /\ internCount' = 0
  /\ work' = [op |-> "rehash", at |-> 0, old |-> slots, string |-> s]

\* The next of the old slots.
Rehash ==
  /\ work.op = "rehash" /\ work.at < Size(work.old)
  /\ LET s == work.old[work.at]
     IN IF s = NoStr THEN UNCHANGED <<slots, internCount>>
        ELSE slots' = Placed(slots, s) /\ internCount' = internCount + 1
  /\ work' = [work EXCEPT !.at = @ + 1]
  /\ UNCHANGED interned

\* The old slots are through: the string that needed the room is inserted.
EndRehash ==
  /\ work.op = "rehash" /\ work.at = Size(work.old)
  /\ IF work.string = NoStr THEN UNCHANGED <<slots, internCount>>
     ELSE slots' = Placed(slots, work.string) /\ internCount' = internCount + 1
  /\ work' = Done
  /\ UNCHANGED interned

\* StringIntern of a content that is not found allocates a node for it and
\* inserts it, in a table twice as large if this one is tight.
StringIntern(s) ==
  /\ work.op = "none"
  /\ FindInternedString(slots, s) # s
  /\ interned' = interned \cup {s}
  /\ IF Size(slots) = 0 \/ (internCount + 1) * 4 > Size(slots) * 3
     THEN RehashStringIntern(2 * Size(slots), s)
     ELSE /\ slots' = Placed(slots, s)
          /\ internCount' = internCount + 1
          /\ UNCHANGED work

\* FreeString of an interned string: its last reference is gone.  Its slot is
\* emptied; a node the probe does not reach stays in the table.
FreeString(s) ==
  /\ work.op = "none"
  /\ s \in interned
  /\ interned' = interned \ {s}
  /\ IF FindInternedString(slots, s) = s
     THEN LET i == Probe(slots, Home(slots, s), s)
          IN /\ slots' = [slots EXCEPT ![i] = NoStr]
             /\ internCount' = internCount - 1
             /\ work' = [op |-> "close", at |-> Behind(slots, i), old |-> <<>>, string |-> NoStr]
     ELSE UNCHANGED <<slots, internCount, work>>

\* The next string of the cluster is taken out and placed again.
CloseHole ==
  /\ work.op = "close" /\ slots[work.at] # NoStr
  /\ slots' = Placed([slots EXCEPT ![work.at] = NoStr], slots[work.at])
  /\ work' = [work EXCEPT !.at = Behind(slots, @)]
  /\ UNCHANGED <<internCount, interned>>

\* The table shrinks when it is more than twice too large.
Shrink ==
  IF DesiredCapacity(internCount) < Size(slots) \div 2
  THEN RehashStringIntern(DesiredCapacity(internCount), NoStr)
  ELSE work' = Done /\ UNCHANGED <<slots, internCount>>

\* Mutant of HoleClosed: the cluster may be taken to end with the table.
HoleClosedAtEnd ==
  /\ work.op = "close" /\ (slots[work.at] = NoStr \/ work.at = 0)
  /\ Shrink /\ UNCHANGED interned

\* The cluster ends at an empty slot.
HoleClosed ==
  /\ work.op = "close" /\ slots[work.at] = NoStr
  /\ Shrink /\ UNCHANGED interned

InternInit == slots = FreshSlots(0) /\ internCount = 0 /\ interned = {} /\ work = Done

InternNext ==
  \/ \E s \in Str : StringIntern(s) \/ FreeString(s)
  \/ Rehash \/ EndRehash \/ CloseHole \/ HoleClosed

-----------------------------------------------------------------------------
(* Properties                                                              *)

Full(t) == {i \in DOMAIN t : t[i] # NoStr}
Contents(t) == {t[i] : i \in Full(t)}

\* The slots from i on up to the next empty one.
Cluster(t, i) == {j \in DOMAIN t : \A k \in Way(t, i, j) : t[k] # NoStr}

\* The old slots that are still to be moved.
Unmoved == {i \in Full(work.old) : work.at <= i}

InternTyped ==
  /\ Size(slots) \in Nat /\ slots \in [0 .. Size(slots) - 1 -> Str \cup {NoStr}]
  /\ work.op \in {"none", "close", "rehash"}
  /\ work.string \in Str \cup {NoStr}
  /\ work.op = "close" => work.at \in DOMAIN slots
  /\ work.op = "rehash" =>
       /\ Size(work.old) \in Nat /\ work.old \in [0 .. Size(work.old) - 1 -> Str \cup {NoStr}]
       /\ work.at \in 0 .. Size(work.old)

\* Between its primary slot and a string there is no empty slot, but for those
\* of a cluster that is still to be placed again.  No string is there twice.
PlacesSound ==
  /\ \A i \in Full(slots) :
       \/ \A k \in Way(slots, Home(slots, slots[i]), i) : slots[k] # NoStr
       \/ work.op = "close" /\ i \in Cluster(slots, work.at)
  /\ \A i, j \in Full(slots) : slots[i] = slots[j] => i = j

\* The strings in the slots, and those that a rehash still has to place, are the
\* ones with a node, each once.
NoneLost ==
  IF work.op = "rehash"
  THEN LET pending == {work.old[i] : i \in Unmoved} \cup ({work.string} \ {NoStr})
       IN /\ interned = Contents(slots) \cup pending
          /\ Contents(slots) \cap pending = {}
          /\ \A i \in Unmoved : work.old[i] # work.string
          /\ \A i, j \in Unmoved : work.old[i] = work.old[j] => i = j
  ELSE interned = Contents(slots)

\* The table always has room for the strings to come and an empty slot to end
\* a probe; and one that has emptied keeps no more than twice what it needs.
RoomSound ==
  LET n == IF work.op = "rehash"
           THEN internCount + Cardinality(Unmoved) + IF work.string = NoStr THEN 0 ELSE 1
           ELSE internCount
  IN /\ internCount = Cardinality(Full(slots))
     /\ n * 4 <= Size(slots) * 3
     /\ Size(slots) # 0 => Size(slots) = PowerOfTwo(Size(slots)) /\ Size(slots) >= MinCapacity
     /\ work.op # "none" => Size(slots) # 0
     /\ work.op # "close" => Size(slots) <= 2 * DesiredCapacity(n)

\* Interning a content that has a node gives that node, and none that is freed.
AllFound ==
  work.op = "none" => \A s \in Str : FindInternedString(slots, s) = s <=> s \in interned

OneNodePerString == InternTyped /\ PlacesSound /\ NoneLost /\ RoomSound /\ AllFound

=============================================================================
