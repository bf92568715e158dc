----------------------------- MODULE HashTable -----------------------------
(***************************************************************************)
(* MapInfo (NeoVMMap.cpp); SetInfo (NeoVMSet.cpp) is the same algorithm.   *)
(* One array of nodes holds all collision chains: a node that is not in    *)
(* its primary slot lies in some free slot and is reached from there.      *)
(* lastFree looks for such a slot and only moves down, so holes above it   *)
(* are found again by rebuilding the array.                                *)
(*                                                                         *)
(* The pooled key and value of a node travel with it and are one thing     *)
(* here, the key.  _mutationVersion is only compared with the copy a       *)
(* foreach took, so what is kept of it is whether it has moved since.      *)
(*                                                                         *)
(* The walk along a chain is one step; the copying of a rebuild goes node  *)
(* by node, so that what it keeps can be stated of each.                   *)
(***************************************************************************)
EXTENDS Integers, FiniteSets, Sequences, SequencesExt

CONSTANTS
  Key, NoKey,
  HashOf,        \* the hash of each key
  MaxCapacity,   \* MAX_HASH_CAPACITY
  Reservations   \* the sizes scripts reserve

Capacities == {c \in 2 .. MaxCapacity : \E e \in 1 .. c : c = 2 ^ e}

ASSUME HashTableAssumption ==
  /\ NoKey \notin Key
  /\ HashOf \in [Key -> Nat]
  /\ MaxCapacity \in Nat /\ MaxCapacity \in Capacities
  /\ Reservations \subseteq Nat

VARIABLES
  table,   \* _BucketCapa, _Bucket, as a function on its indices, and _lastFree
  items,   \* _itemCount
  loop,    \* one foreach: its phase, its node pointer, and whether
           \* _mutationVersion differs from the copy it took
  call     \* the call that rebuilds the array: for which key and why, the new
           \* array and the index ReMap has come to

hashVars == <<table, items, loop, call>>

END   == -1
EMPTY == -2

ClearNode == [key |-> NoKey, next |-> EMPTY]
NewTable(capacity) ==
  [capacity |-> capacity, node |-> [i \in 0 .. capacity - 1 |-> ClearNode],
   lastFree |-> capacity - 1]

Used(t) == {i \in 0 .. t.capacity - 1 : t.node[i].next # EMPTY}
KeysIn(t, S) == {t.node[i].key : i \in S}
Main(t, k) == HashOf[k] % t.capacity

\* No next leads out of S.
Shut(t, S) == \A i \in S : t.node[i].next \in S \cup {END}

\* The nodes a search for k visits: its primary slot, if that is in use, and
\* what next leads to from there.
Chain(t, k) ==
  IF t.capacity = 0 THEN {}
  ELSE IF Main(t, k) \notin Used(t) THEN {}
  ELSE {i \in Used(t) : \A S \in SUBSET Used(t) : Main(t, k) \in S /\ Shut(t, S) => i \in S}

FindNodeIndex(t, k) ==
  LET found == {i \in Chain(t, k) : t.node[i].key = k}
  IN IF found = {} THEN END ELSE CHOOSE i \in found : TRUE

\* The node before i on its chain.
Previous(t, i) == CHOOSE p \in Used(t) : t.node[p].next = i

FindFreeNodeIndex(t) == Max({END} \cup (0 .. t.lastFree \ Used(t)))

\* Mutant of InsertNewNode: a displaced node's predecessor is not relinked.
InsertNewNodeUnlinked(t, k) ==
  LET main     == Main(t, k)
      free     == FindFreeNodeIndex(t)
      scanned  == [t EXCEPT !.lastFree = IF free = END THEN END ELSE free - 1]
      resident == t.node[main]
      head     == [key |-> NoKey, next |-> END]
  IN CASE main \notin Used(t) ->
            [table |-> [t EXCEPT !.node[main] = head], at |-> main]
       [] main \in Used(t) /\ free = END ->
            [table |-> scanned, at |-> END]
       [] main \in Used(t) /\ free # END /\ Main(t, resident.key) # main ->
            [table |-> [scanned EXCEPT !.node = [@ EXCEPT ![free] = resident, ![main] = head]],
             at |-> main]
       [] OTHER ->
            [table |-> [scanned EXCEPT !.node = [@ EXCEPT
                          ![free] = [head EXCEPT !.next = resident.next],
                          ![main].next = free]],
             at |-> free]

\* A slot for a new node with k's hash: the primary slot if it is free; else,
\* when a displaced node of another chain sits there, that node moves to a
\* free slot and its predecessor is relinked; else a free slot linked behind
\* the head.  END if the cursor finds none.
InsertNewNode(t, k) ==
  LET main     == Main(t, k)
      free     == FindFreeNodeIndex(t)
      scanned  == [t EXCEPT !.lastFree = IF free = END THEN END ELSE free - 1]
      resident == t.node[main]
      head     == [key |-> NoKey, next |-> END]
  IN CASE main \notin Used(t) ->
            [table |-> [t EXCEPT !.node[main] = head], at |-> main]
       [] main \in Used(t) /\ free = END ->
            [table |-> scanned, at |-> END]
       [] main \in Used(t) /\ free # END /\ Main(t, resident.key) # main ->
            [table |-> [scanned EXCEPT !.node = [@ EXCEPT
                          ![free] = resident, ![Previous(t, main)].next = free, ![main] = head]],
             at |-> main]
       [] OTHER ->
            [table |-> [scanned EXCEPT !.node = [@ EXCEPT
                          ![free] = [head EXCEPT !.next = resident.next],
                          ![main].next = free]],
             at |-> free]

Filled(slot, k) == [slot.table EXCEPT !.node[slot.at].key = k]

\* GrowHashCapacity throws when the limit is passed, before anything changed.
CanGrow(capacity) == capacity <= MaxCapacity \div 2
GrowHashCapacity(capacity) == IF capacity = 0 THEN 2 ELSE 2 * capacity
HashCapacityForItems(n) == Min({c \in Capacities : c * 3 >= n * 4})

Bumped == [loop EXCEPT !.moved = @ \/ loop.phase = "on"]

-----------------------------------------------------------------------------
\* ReMap.  Every caller asks for the next capacity it doubles to, or for the
\* present one.
NoCall == [op |-> "none", key |-> NoKey, to |-> NewTable(0), from |-> 0]
Idle == call.op = "none"
ReMap(op, k, capacity) == [op |-> op, key |-> k, to |-> NewTable(capacity), from |-> 0]

\* The used nodes that ReMap has still to copy.
Rest == {i \in Used(table) : i >= call.from}

\* The next node moves to the new array.  If that has no slot, the old one is
\* kept.
Transfer ==
  /\ ~Idle
  /\ \E i \in Rest :
       /\ \A j \in Rest : i <= j
       /\ LET k    == table.node[i].key
              slot == InsertNewNode(call.to, k)
          IN call' = IF slot.at = END THEN NoCall
                     ELSE [call EXCEPT !.to = Filled(slot, k), !.from = i + 1]
  /\ UNCHANGED <<table, items, loop>>

\* A further key would make the load more than 3/4.
Tight == table.capacity = 0 \/ (items + 1) * 4 > table.capacity * 3

\* Mutant of Put: an exhausted cursor is taken for a full table.
PutOnce(t, k, op) ==
  LET slot == InsertNewNode(t, k) IN
  /\ table' = IF slot.at = END THEN slot.table ELSE Filled(slot, k)
  /\ items' = IF slot.at = END THEN items ELSE items + 1
  /\ loop' = Bumped
  /\ call' = NoCall

\* The new key goes to its slot in t.  If the cursor is exhausted, ReMap is
\* called once more, for a larger array only if this one is full.
Put(t, k, op) ==
  LET slot == InsertNewNode(t, k)
      full == items + 1 >= t.capacity
  IN IF slot.at # END
     THEN /\ table' = Filled(slot, k)
          /\ items' = items + 1
          /\ loop' = Bumped
          /\ call' = NoCall
     ELSE /\ table' = slot.table
          /\ loop' = IF Idle THEN loop ELSE Bumped
          /\ call' = IF op = "again" THEN NoCall
                     ELSE ReMap("again", k, IF full THEN GrowHashCapacity(t.capacity)
                                                    ELSE t.capacity)
          /\ UNCHANGED items

\* Insert of a key that is not there.
Insert(k) ==
  /\ Idle
  /\ FindNodeIndex(table, k) = END
  /\ Tight => CanGrow(table.capacity)
  /\ IF Tight
     THEN /\ call' = ReMap("load", k, GrowHashCapacity(table.capacity))
          /\ UNCHANGED <<table, items, loop>>
     ELSE Put(table, k, "load")

\* Mutant of EndReMap: the version stays, as no key came or went.
EndReMapQuietly ==
  /\ ~Idle /\ Rest = {}
  /\ IF call.op = "reserve"
     THEN /\ table' = call.to
          /\ call' = NoCall
          /\ UNCHANGED <<items, loop>>
     ELSE Put(call.to, call.key, call.op)

\* The old array is freed; an Insert goes on in the new one.
EndReMap ==
  /\ ~Idle /\ Rest = {}
  /\ IF call.op = "reserve"
     THEN /\ table' = call.to
          /\ loop' = Bumped
          /\ call' = NoCall
          /\ UNCHANGED items
     ELSE Put(call.to, call.key, call.op)

\* The node leaves its chain; a head with followers takes the next node's
\* place in the array, so that the primary slot stays in use.
Unlinked(t, k) ==
  LET i    == FindNodeIndex(t, k)
      next == t.node[i].next
  IN IF i # Main(t, k)
     THEN [t EXCEPT !.node = [@ EXCEPT ![Previous(t, i)].next = next, ![i] = ClearNode]]
     ELSE IF next = END
     THEN [t EXCEPT !.node[i] = ClearNode]
     ELSE [t EXCEPT !.node = [@ EXCEPT ![i] = t.node[next], ![next] = ClearNode]]

RemoveKey(k) ==
  /\ Idle
  /\ FindNodeIndex(table, k) # END
  /\ table' = Unlinked(table, k)
  /\ items' = items - 1
  /\ loop' = Bumped
  /\ UNCHANGED call

\* The capacity is kept.
Clear ==
  /\ Idle
  /\ items # 0
  /\ table' = NewTable(table.capacity)
  /\ items' = 0
  /\ loop' = Bumped
  /\ UNCHANGED call

\* Throws (no change) beyond the items that MaxCapacity can take.
Reserve(n) ==
  /\ Idle
  /\ n <= (MaxCapacity \div 4) * 3
  /\ HashCapacityForItems(n) > table.capacity
  /\ call' = ReMap("reserve", NoKey, HashCapacityForItems(n))
  /\ UNCHANGED <<table, items, loop>>

Loop(phase) == [phase |-> phase, at |-> END, moved |-> FALSE]

\* The next used slot from i on; none ends the loop.
Reach(i) ==
  LET rest == {j \in Used(table) : j >= i}
  IN IF rest = {} THEN Loop("done") ELSE [phase |-> "on", at |-> Min(rest), moved |-> FALSE]

ForEachFirst ==
  /\ Idle
  /\ loop.phase # "on"
  /\ loop' = IF items = 0 THEN Loop("done") ELSE Reach(0)
  /\ UNCHANGED <<table, items, call>>

\* The node pointer is an address: it is read only while the version has not
\* moved.
ForEachNext ==
  /\ Idle
  /\ loop.phase = "on"
  /\ loop' = IF loop.moved THEN Loop("failed") ELSE Reach(loop.at + 1)
  /\ UNCHANGED <<table, items, call>>

Break ==
  /\ Idle
  /\ loop.phase = "on"
  /\ loop' = Loop("broken")
  /\ UNCHANGED <<table, items, call>>

HashInit ==
  /\ table = NewTable(0)
  /\ items = 0
  /\ loop = Loop("done")
  /\ call = NoCall

HashNext ==
  \/ \E k \in Key : Insert(k) \/ RemoveKey(k)
  \/ Transfer \/ EndReMap
  \/ Clear
  \/ \E n \in Reservations : Reserve(n)
  \/ ForEachFirst \/ ForEachNext \/ Break

-----------------------------------------------------------------------------
(* Properties                                                              *)

\* Chains do not mix: what next leads to has the same primary slot, it is
\* never that slot, and no two nodes lead to it.  A free slot names nothing.
LinksSound(t) ==
  /\ \A i \in 0 .. t.capacity - 1 : i \notin Used(t) => t.node[i] = ClearNode
  /\ \A i \in Used(t) :
       LET main == Main(t, t.node[i].key)
           next == t.node[i].next
       IN next # END => /\ next \in Used(t) /\ next # main
                        /\ Main(t, t.node[next].key) = main
  /\ \A i, j \in Used(t) : t.node[i].next = t.node[j].next /\ t.node[i].next # END => i = j

\* Every key is there once, and found from its primary slot, which its own
\* chain occupies.
KeysSound(t) ==
  /\ \A i \in Used(t) :
       LET k == t.node[i].key IN
       /\ k \in Key /\ i \in Chain(t, k)
       /\ Main(t, t.node[Main(t, k)].key) = Main(t, k)
  /\ \A i, j \in Used(t) : t.node[i].key = t.node[j].key => i = j

TableTyped(t) ==
  /\ t.capacity \in 0 .. MaxCapacity
  /\ t \in [capacity : {t.capacity}, lastFree : END .. t.capacity - 1,
            node : [0 .. t.capacity - 1 -> [key : Key \cup {NoKey}, next : Int]]]

TableSound(t) == TableTyped(t) /\ LinksSound(t) /\ KeysSound(t)

\* The new array holds what ReMap has come past, each node once, has room for
\* the rest and for the new key, and no hole behind its cursor.
ReMapSound ==
  /\ call \in [op : {"none", "load", "again", "reserve"}, key : Key \cup {NoKey},
               to : {call.to}, from : Nat]
  /\ ~Idle =>
       /\ TableSound(call.to)
       /\ call.to.capacity >= 2 /\ call.to.capacity >= table.capacity
       /\ KeysIn(call.to, Used(call.to)) = KeysIn(table, Used(table) \ Rest)
       /\ Cardinality(Used(call.to)) = Cardinality(Used(table) \ Rest)
       /\ \A i \in 0 .. call.to.capacity - 1 : i > call.to.lastFree => i \in Used(call.to)
       /\ call.op # "reserve" =>
            /\ call.key \in Key \ KeysIn(table, Used(table))
            /\ (items + 1) * 4 <= call.to.capacity * 3

\* In the array, and in the one a rebuild fills, every node in use is found,
\* and nothing else is; the count and the load are those Insert decides by.
ChainsSound ==
  /\ TableSound(table)
  /\ items = Cardinality(Used(table)) /\ items * 4 <= table.capacity * 3
  /\ loop \in [phase : {"done", "on", "failed", "broken"}, at : END .. MaxCapacity, moved : BOOLEAN]
  /\ ReMapSound

\* After a step, the insert of k has ended with k in the table, or goes on.
OnItsWay(k) ==
  IF call'.op = "none" THEN k \in KeysIn(table', Used(table'))
  ELSE call'.op \in {"load", "again"} /\ call'.key = k

\* However often keys came and went, an insert that the limit does not refuse
\* finds a slot, at once or after a rebuild, and a Reserve ends with the array
\* it asked for: no rebuild fails half-way.
RoomIsFound ==
  [][/\ \A k \in Key : Insert(k) => OnItsWay(k)
     /\ call.op \in {"load", "again"} => OnItsWay(call.key)
     /\ call.op = "reserve" =>
          IF call'.op = "none" THEN table'.capacity = call.to.capacity
          ELSE call'.op = "reserve" /\ call'.to.capacity = call.to.capacity]_hashVars

\* The table implements a set of keys (all of which ChainsSound makes Find
\* find): rebuilding loses and duplicates nothing, and a foreach that ends
\* without an error has given every key once.
Contract == INSTANCE Collection WITH
  keys <- KeysIn(table, Used(table)),
  each <- [phase |-> loop.phase, stale |-> loop.moved,
           given |-> IF loop.phase = "on" /\ ~loop.moved
                     THEN KeysIn(table, {j \in Used(table) : j <= loop.at})
                     ELSE {}]
ImplementsCollection == Contract!Spec

=============================================================================
