---------------------------- MODULE StoresProofs ----------------------------
(***************************************************************************)
(* Proofs about the stores, for every set of keys, every hash function and *)
(* every limit.  A chain, of nodes or of pages, is the least set around    *)
(* its first element that no next leads out of; so that an element is      *)
(* still in it after a change is shown by turning a set that is shut after *)
(* it into one that was shut before.                                       *)
(***************************************************************************)
EXTENDS Stores, DataFacts

-----------------------------------------------------------------------------
(* One table                                                               *)

\* The primary slot of a key is an index of the array.
LEMMA MainIn ==
  ASSUME NEW t, t.capacity \in Nat, t.capacity > 0, NEW k \in Key
  PROVE  Main(t, k) \in 0 .. t.capacity - 1
<1>1. HashOf[k] \in Nat
  BY HashTableAssumption
<1> QED  BY <1>1 DEF Main

\* What is used of a typed table is a finite set of its indices.
LEMMA UsedIn ==
  ASSUME NEW t, TableTyped(t)
  PROVE  /\ t.capacity \in Nat
         /\ Used(t) \subseteq 0 .. t.capacity - 1
         /\ IsFiniteSet(Used(t)) /\ Cardinality(Used(t)) \in Nat
         /\ Cardinality(Used(t)) <= t.capacity
<1>1. t.capacity \in Nat
  BY HashTableAssumption DEF TableTyped
<1>2. Used(t) \subseteq 0 .. t.capacity - 1
  BY DEF Used
<1>3. IsFiniteSet(0 .. t.capacity - 1) /\ Cardinality(0 .. t.capacity - 1) = t.capacity
  <2>1. 0 \in Int /\ t.capacity - 1 \in Int
    BY <1>1
  <2>2. /\ IsFiniteSet(0 .. t.capacity - 1)
        /\ Cardinality(0 .. t.capacity - 1) =
             IF 0 > t.capacity - 1 THEN 0 ELSE (t.capacity - 1) - 0 + 1
    BY <2>1, FS_Interval
  <2> QED  BY <1>1, <2>2
<1> QED  BY <1>1, <1>2, <1>3, FS_Subset, FS_CardinalityType

\* What soundness says of the links, node by node.
LEMMA Unpack ==
  ASSUME NEW t, TableSound(t), NEW i \in Used(t)
  PROVE  /\ t.capacity > 0 /\ t.node[i].key \in Key
         /\ t.node[i] = [key |-> t.node[i].key, next |-> t.node[i].next]
         /\ t.node[i].next \in Int /\ t.node[i].next # EMPTY
         /\ t.node[i].next \in Used(t) \cup {END}
         /\ Main(t, t.node[i].key) \in Used(t)
         /\ t.node[i].next # Main(t, t.node[i].key)
         /\ Main(t, t.node[Main(t, t.node[i].key)].key) = Main(t, t.node[i].key)
         /\ t.node[i].next # END =>
              Main(t, t.node[t.node[i].next].key) = Main(t, t.node[i].key)
<1>1. TableTyped(t) /\ LinksSound(t) /\ KeysSound(t)
  BY DEF TableSound
<1>2. i \in 0 .. t.capacity - 1 /\ t.capacity \in Nat
  BY <1>1, UsedIn
<1>3. t.node[i] \in [key : Key \cup {NoKey}, next : Int]
  BY <1>1, <1>2 DEF TableTyped
<1>4. t.node[i].key \in Key /\ i \in Chain(t, t.node[i].key)
      /\ Main(t, t.node[Main(t, t.node[i].key)].key) = Main(t, t.node[i].key)
  BY <1>1 DEF KeysSound
<1>5. Main(t, t.node[i].key) \in Used(t)
  BY <1>4 DEF Chain
<1>6. t.node[i].next # EMPTY
  BY DEF Used
<1>7. 0 <= i /\ i <= t.capacity - 1
  BY <1>2
<1>8. t.capacity > 0
  BY <1>2, <1>7
<1>9. t.node[i].next # END =>
        /\ t.node[i].next \in Used(t)
        /\ t.node[i].next # Main(t, t.node[i].key)
        /\ Main(t, t.node[t.node[i].next].key) = Main(t, t.node[i].key)
  BY <1>1 DEF LinksSound
<1>10. t.node[i].next = END => t.node[i].next # Main(t, t.node[i].key)
  <2>1. Main(t, t.node[i].key) \in 0 .. t.capacity - 1
    BY <1>2, <1>4, <1>8, MainIn
  <2>2. END \notin 0 .. t.capacity - 1
    BY <1>2 DEF END
  <2> QED  BY <2>1, <2>2
<1> QED  BY <1>3, <1>4, <1>5, <1>6, <1>8, <1>9, <1>10

\* A node in use is in every shut set around its primary slot.
LEMMA ChainHolds ==
  ASSUME NEW t, TableSound(t), NEW i \in Used(t), NEW S \in SUBSET Used(t),
         Main(t, t.node[i].key) \in S, Shut(t, S)
  PROVE  i \in S
<1>1. i \in Chain(t, t.node[i].key)
  BY DEF TableSound, KeysSound
<1> QED  BY <1>1 DEF Chain

\* No two links lead to one node, and no key is there twice.
LEMMA Apart ==
  ASSUME NEW t, TableSound(t), NEW i \in Used(t), NEW j \in Used(t)
  PROVE  /\ t.node[i].next = t.node[j].next /\ t.node[i].next # END => i = j
         /\ t.node[i].key = t.node[j].key => i = j
BY DEF TableSound, LinksSound, KeysSound

\* A node outside its primary slot has one before it.
LEMMA PreviousFacts ==
  ASSUME NEW t, TableSound(t), NEW i \in Used(t), i # Main(t, t.node[i].key)
  PROVE  /\ Previous(t, i) \in Used(t) /\ Previous(t, i) # i
         /\ t.node[Previous(t, i)].next = i
<1> DEFINE S == Used(t) \ {i}
<1>1. S \in SUBSET Used(t) /\ Main(t, t.node[i].key) \in S /\ i \notin S
  BY Unpack
<1>2. ~Shut(t, S)
  BY <1>1, ChainHolds
<1>3. PICK p \in S : t.node[p].next \notin S \cup {END}
  BY <1>2 DEF Shut
<1>4. t.node[p].next \in Used(t) \cup {END}
  BY <1>3, Unpack
<1>5. p \in Used(t) /\ p # i /\ t.node[p].next = i
  BY <1>3, <1>4
<1>6. Previous(t, i) \in Used(t) /\ t.node[Previous(t, i)].next = i
  BY <1>5 DEF Previous
<1>7. i # END
  <2>1. TableTyped(t)
    BY DEF TableSound
  <2>2. i \in 0 .. t.capacity - 1 /\ t.capacity \in Nat
    BY <2>1, UsedIn
  <2> QED  BY <2>2 DEF END
<1>8. Previous(t, i) = p
  BY <1>5, <1>6, <1>7, Apart
<1> QED  BY <1>5, <1>6, <1>8

\* A search finds the node of a key that is there, and nothing otherwise.
LEMMA FindFacts ==
  ASSUME NEW t, TableSound(t), NEW k
  PROVE  /\ FindNodeIndex(t, k) # END =>
              FindNodeIndex(t, k) \in Used(t) /\ t.node[FindNodeIndex(t, k)].key = k
         /\ FindNodeIndex(t, k) = END <=> k \notin KeysIn(t, Used(t))
<1> DEFINE found == {i \in Chain(t, k) : t.node[i].key = k}
<1>1. Chain(t, k) \subseteq Used(t)
  BY DEF Chain
<1>2. found # {} => FindNodeIndex(t, k) \in found
  BY DEF FindNodeIndex
<1>3. found = {} => FindNodeIndex(t, k) = END
  BY DEF FindNodeIndex
<1>4. END \notin Used(t)
  <2>1. TableTyped(t)
    BY DEF TableSound
  <2>2. Used(t) \subseteq 0 .. t.capacity - 1 /\ t.capacity \in Nat
    BY <2>1, UsedIn
  <2>3. END \notin 0 .. t.capacity - 1
    BY <2>2 DEF END
  <2> QED  BY <2>2, <2>3
<1>5. k \in KeysIn(t, Used(t)) => found # {}
  <2> SUFFICES ASSUME k \in KeysIn(t, Used(t))
               PROVE  found # {}
    OBVIOUS
  <2>1. PICK i \in Used(t) : t.node[i].key = k
    BY DEF KeysIn
  <2>2. i \in Chain(t, k)
    BY <2>1 DEF TableSound, KeysSound
  <2> QED  BY <2>1, <2>2
<1>6. found # {} => k \in KeysIn(t, Used(t))
  BY <1>1 DEF KeysIn
<1> QED  BY <1>1, <1>2, <1>3, <1>4, <1>5, <1>6

\* The cursor stops at the next free slot below it, or at the end.
LEMMA FreeFacts ==
  ASSUME NEW t, TableTyped(t)
  PROVE  \/ /\ FindFreeNodeIndex(t) = END
            /\ \A i \in 0 .. t.capacity - 1 : i <= t.lastFree => i \in Used(t)
         \/ /\ FindFreeNodeIndex(t) \in 0 .. t.capacity - 1 /\ FindFreeNodeIndex(t) \notin Used(t)
            /\ FindFreeNodeIndex(t) <= t.lastFree
            /\ \A i \in 0 .. t.capacity - 1 :
                 i > FindFreeNodeIndex(t) /\ i <= t.lastFree => i \in Used(t)
<1>1. t.capacity \in Nat /\ t.lastFree \in END .. t.capacity - 1
  BY UsedIn DEF TableTyped
<1>2. t.lastFree \in Int /\ t.lastFree >= -1 /\ t.lastFree <= t.capacity - 1
  BY <1>1 DEF END
<1> DEFINE S == {END} \cup (0 .. t.lastFree \ Used(t))
           T == {i + 2 : i \in S}
<1>3. \A i \in S : i \in Int /\ i >= -1 /\ i <= t.lastFree
  BY <1>2 DEF END
<1>4. T \subseteq 1 .. t.lastFree + 2 /\ T # {} /\ t.lastFree + 2 \in Nat
  <2>1. \A i \in S : i + 2 \in 1 .. t.lastFree + 2
    BY <1>2, <1>3
  <2> QED  BY <2>1, <1>2
<1>5. Max(T) \in T /\ \A j \in T : Max(T) >= j
  BY <1>4, MaxFacts
<1>6. PICK f \in S : Max(T) = f + 2
  BY <1>5
<1>7. \A i \in S : f >= i
  <2> SUFFICES ASSUME NEW i \in S
               PROVE  f >= i
    OBVIOUS
  <2>1. f + 2 >= i + 2
    BY <1>5, <1>6
  <2> QED  BY <2>1, <1>3
<1>8. FindFreeNodeIndex(t) \in S /\ \A i \in S : FindFreeNodeIndex(t) >= i
  BY <1>7 DEF FindFreeNodeIndex, Max
<1> DEFINE g == FindFreeNodeIndex(t)
<1>9. g = f
  BY <1>3, <1>7, <1>8
<1>10. \A i \in 0 .. t.capacity - 1 : i > f /\ i <= t.lastFree => i \in Used(t)
  <2> SUFFICES ASSUME NEW i \in 0 .. t.capacity - 1, i > f, i <= t.lastFree, i \notin Used(t)
               PROVE  FALSE
    OBVIOUS
  <2>1. i \in 0 .. t.lastFree
    BY <1>1, <1>2
  <2> QED  BY <2>1, <1>7, <1>3
<1>11. f = END \/ (f \in 0 .. t.capacity - 1 /\ f \notin Used(t) /\ f <= t.lastFree)
  <2>1. f = END \/ (f \in 0 .. t.lastFree /\ f \notin Used(t))
    OBVIOUS
  <2> QED  BY <2>1, <1>1, <1>2
<1>12. f = END => \A i \in 0 .. t.capacity - 1 : i > f
  BY <1>1 DEF END
<1> QED  BY <1>9, <1>10, <1>11, <1>12

\* What makes a table sound, with the chains as shut sets.
LEMMA Packed ==
  ASSUME NEW u, TableTyped(u), u.capacity > 0,
         \A i \in 0 .. u.capacity - 1 : i \notin Used(u) => u.node[i] = ClearNode,
         \A i \in Used(u) : /\ u.node[i].key \in Key
                            /\ Main(u, u.node[i].key) \in Used(u)
                            /\ Main(u, u.node[Main(u, u.node[i].key)].key) = Main(u, u.node[i].key),
         \A i \in Used(u) : u.node[i].next # END =>
           /\ u.node[i].next \in Used(u)
           /\ u.node[i].next # Main(u, u.node[i].key)
           /\ Main(u, u.node[u.node[i].next].key) = Main(u, u.node[i].key),
         \A i, j \in Used(u) : u.node[i].next = u.node[j].next /\ u.node[i].next # END => i = j,
         \A i, j \in Used(u) : u.node[i].key = u.node[j].key => i = j,
         \A i \in Used(u) : \A S \in SUBSET Used(u) :
           Main(u, u.node[i].key) \in S /\ Shut(u, S) => i \in S
  PROVE  TableSound(u)
<1>1. LinksSound(u)
  BY DEF LinksSound
<1>2. \A i \in Used(u) : i \in Chain(u, u.node[i].key)
  BY DEF Chain
<1>3. KeysSound(u)
  BY <1>2 DEF KeysSound
<1> QED  BY <1>1, <1>3 DEF TableSound

\* A new array holds nothing.
LEMMA NewTableSound ==
  ASSUME NEW c \in 0 .. MaxCapacity
  PROVE  /\ TableSound(NewTable(c)) /\ NewTable(c).capacity = c
         /\ Used(NewTable(c)) = {} /\ KeysIn(NewTable(c), Used(NewTable(c))) = {}
         /\ NewTable(c).lastFree = c - 1
<1> DEFINE u == NewTable(c)
<1>1. c \in Nat
  BY HashTableAssumption
<1>2. u.capacity = c /\ u.lastFree = c - 1 /\ u.node = [i \in 0 .. c - 1 |-> ClearNode]
  BY DEF NewTable
<1>3. ClearNode \in [key : Key \cup {NoKey}, next : Int]
  BY DEF ClearNode, EMPTY
<1>4. c - 1 \in END .. c - 1
  BY <1>1 DEF END
<1>5. TableTyped(u)
  BY <1>3, <1>4 DEF TableTyped, NewTable
<1>6. Used(u) = {}
  BY <1>2 DEF Used, ClearNode
<1>7. LinksSound(u) /\ KeysSound(u)
  BY <1>2, <1>6 DEF LinksSound, KeysSound
<1> QED  BY <1>2, <1>5, <1>6, <1>7 DEF TableSound, KeysIn

\* A free primary slot takes the new node.
LEMMA PlacedFree ==
  ASSUME NEW t, TableSound(t), t.capacity > 0, NEW k \in Key, k \notin KeysIn(t, Used(t)),
         NEW m, m = Main(t, k), m \notin Used(t),
         NEW u, TableTyped(u), u.capacity = t.capacity,
         u.node[m] = [key |-> k, next |-> END],
         \A i \in 0 .. t.capacity - 1 : i # m => u.node[i] = t.node[i]
  PROVE  TableSound(u) /\ Used(u) = Used(t) \cup {m}
<1>1. \A x : Main(u, x) = Main(t, x)
  BY DEF Main
<1>2. t.capacity \in Nat /\ m \in 0 .. t.capacity - 1 /\ Used(t) \subseteq 0 .. t.capacity - 1
  BY UsedIn, MainIn DEF TableSound
<1>3. Used(u) = Used(t) \cup {m}
  BY <1>2 DEF Used, END, EMPTY
<1>4. /\ \A i \in Used(t) : u.node[i] = t.node[i]
      /\ u.node[m].key = k /\ u.node[m].next = END
  BY <1>2
<1>5. \A i \in 0 .. u.capacity - 1 : i \notin Used(u) => u.node[i] = ClearNode
  BY <1>3 DEF TableSound, LinksSound
<1>6. \A i \in Used(u) :
        /\ u.node[i].key \in Key
        /\ Main(u, u.node[i].key) \in Used(u)
        /\ Main(u, u.node[Main(u, u.node[i].key)].key) = Main(u, u.node[i].key)
  <2> SUFFICES ASSUME NEW i \in Used(u)
               PROVE  /\ u.node[i].key \in Key
                      /\ Main(t, u.node[i].key) \in Used(u)
                      /\ Main(t, u.node[Main(t, u.node[i].key)].key) = Main(t, u.node[i].key)
    BY <1>1
  <2>1. CASE i = m
    BY <2>1, <1>3, <1>4
  <2>2. CASE i # m
    <3>1. i \in Used(t) /\ u.node[i] = t.node[i]
      BY <2>2, <1>3, <1>4
    <3>2. /\ t.node[i].key \in Key /\ Main(t, t.node[i].key) \in Used(t)
          /\ Main(t, t.node[Main(t, t.node[i].key)].key) = Main(t, t.node[i].key)
      BY <3>1, Unpack
    <3> QED  BY <3>1, <3>2, <1>3, <1>4
  <2> QED  BY <2>1, <2>2
<1>7. \A i \in Used(u) : u.node[i].next # END =>
        /\ u.node[i].next \in Used(u)
        /\ u.node[i].next # Main(u, u.node[i].key)
        /\ Main(u, u.node[u.node[i].next].key) = Main(u, u.node[i].key)
  <2> SUFFICES ASSUME NEW i \in Used(u), u.node[i].next # END
               PROVE  /\ u.node[i].next \in Used(u)
                      /\ u.node[i].next # Main(t, u.node[i].key)
                      /\ Main(t, u.node[u.node[i].next].key) = Main(t, u.node[i].key)
    BY <1>1
  <2>1. i \in Used(t) /\ u.node[i] = t.node[i]
    BY <1>3, <1>4
  <2>2. /\ t.node[i].next # END => t.node[i].next \in Used(t)
        /\ t.node[i].next # Main(t, t.node[i].key)
        /\ t.node[i].next # END => Main(t, t.node[t.node[i].next].key) = Main(t, t.node[i].key)
    BY <2>1, Unpack
  <2>3. t.node[i].next # END /\ u.node[t.node[i].next] = t.node[t.node[i].next]
    BY <2>1, <2>2, <1>4
  <2> QED  BY <2>1, <2>2, <2>3, <1>3
<1>8. \A i, j \in Used(u) : u.node[i].next = u.node[j].next /\ u.node[i].next # END => i = j
  BY <1>3, <1>4, Apart
<1>9. \A i, j \in Used(u) : u.node[i].key = u.node[j].key => i = j
  BY <1>3, <1>4, Apart DEF KeysIn
<1>10. \A i \in Used(u) : \A S \in SUBSET Used(u) :
         Main(u, u.node[i].key) \in S /\ Shut(u, S) => i \in S
  <2> SUFFICES ASSUME NEW i \in Used(u), NEW S \in SUBSET Used(u),
                      Main(u, u.node[i].key) \in S, Shut(u, S), i # m
               PROVE  i \in S
    BY <1>1, <1>4
  <2> DEFINE T == S \ {m}
  <2>1. i \in Used(t) /\ T \in SUBSET Used(t)
    BY <1>3
  <2>2. Main(t, t.node[i].key) \in T
    BY <2>1, <1>1, <1>4, Unpack
  <2>3. \A j \in T : t.node[j].next \in T \cup {END}
    <3> SUFFICES ASSUME NEW j \in T
                 PROVE  t.node[j].next \in T \cup {END}
      OBVIOUS
    <3>1. j \in Used(t) /\ u.node[j].next \in S \cup {END} /\ u.node[j] = t.node[j]
      BY <2>1, <1>4 DEF Shut
    <3> QED  BY <3>1, Unpack
  <2>4. Shut(t, T)
    BY <2>3 DEF Shut
  <2> QED  BY <2>1, <2>2, <2>4, ChainHolds
<1> QED  BY <1>3, <1>5, <1>6, <1>7, <1>8, <1>9, <1>10, Packed

\* Behind the head of its chain, the new node is linked to what the head was.
LEMMA PlacedBehind ==
  ASSUME NEW t, TableSound(t), NEW k \in Key, k \notin KeysIn(t, Used(t)),
         NEW m, m = Main(t, k), m \in Used(t), Main(t, t.node[m].key) = m,
         NEW f \in 0 .. t.capacity - 1, f \notin Used(t),
         NEW u, TableTyped(u), u.capacity = t.capacity,
         u.node[f] = [key |-> k, next |-> t.node[m].next],
         u.node[m] = [key |-> t.node[m].key, next |-> f],
         \A i \in 0 .. t.capacity - 1 : i # m /\ i # f => u.node[i] = t.node[i]
  PROVE  TableSound(u) /\ Used(u) = Used(t) \cup {f}
<1>1. \A x : Main(u, x) = Main(t, x)
  BY DEF Main
<1>2. t.capacity \in Nat /\ Used(t) \subseteq 0 .. t.capacity - 1 /\ f # m
  BY UsedIn DEF TableSound
<1>3. f # EMPTY /\ f # END
  BY <1>2 DEF EMPTY, END
<1>4. t.node[m].next # EMPTY /\ t.node[m].next \in Used(t) \cup {END}
  BY Unpack
<1>5. Used(u) = Used(t) \cup {f}
  BY <1>2, <1>3, <1>4 DEF Used
<1>6. /\ \A i \in Used(t) : i # m => u.node[i] = t.node[i]
      /\ u.node[f].key = k /\ u.node[f].next = t.node[m].next
      /\ u.node[m].key = t.node[m].key /\ u.node[m].next = f
  BY <1>2
<1>7. \A i \in 0 .. u.capacity - 1 : i \notin Used(u) => u.node[i] = ClearNode
  BY <1>5 DEF TableSound, LinksSound
<1>8. \A i \in Used(t) : u.node[i].key = t.node[i].key
  BY <1>6
<1>9. \A i \in Used(u) :
        /\ u.node[i].key \in Key
        /\ Main(u, u.node[i].key) \in Used(u)
        /\ Main(u, u.node[Main(u, u.node[i].key)].key) = Main(u, u.node[i].key)
  <2> SUFFICES ASSUME NEW i \in Used(u)
               PROVE  /\ u.node[i].key \in Key
                      /\ Main(t, u.node[i].key) \in Used(u)
                      /\ Main(t, u.node[Main(t, u.node[i].key)].key) = Main(t, u.node[i].key)
    BY <1>1
  <2>1. CASE i = f
    BY <2>1, <1>5, <1>6
  <2>2. CASE i # f
    <3>1. i \in Used(t)
      BY <2>2, <1>5
    <3>2. /\ t.node[i].key \in Key /\ Main(t, t.node[i].key) \in Used(t)
          /\ Main(t, t.node[Main(t, t.node[i].key)].key) = Main(t, t.node[i].key)
      BY <3>1, Unpack
    <3> QED  BY <3>1, <3>2, <1>5, <1>8
  <2> QED  BY <2>1, <2>2
<1>10. \A i \in Used(u) : u.node[i].next # END =>
        /\ u.node[i].next \in Used(u)
        /\ u.node[i].next # Main(u, u.node[i].key)
        /\ Main(u, u.node[u.node[i].next].key) = Main(u, u.node[i].key)
  <2> SUFFICES ASSUME NEW i \in Used(u), u.node[i].next # END
               PROVE  /\ u.node[i].next \in Used(u)
                      /\ u.node[i].next # Main(t, u.node[i].key)
                      /\ Main(t, u.node[u.node[i].next].key) = Main(t, u.node[i].key)
    BY <1>1
  <2>0. \A j \in Used(t) : t.node[j].next # END =>
          /\ t.node[j].next \in Used(t)
          /\ t.node[j].next # Main(t, t.node[j].key)
          /\ Main(t, t.node[t.node[j].next].key) = Main(t, t.node[j].key)
    BY Unpack
  <2>1. CASE i = f
    <3>1. t.node[m].next # END
      BY <2>1, <1>6
    <3>2. /\ t.node[m].next \in Used(t) /\ t.node[m].next # m
          /\ Main(t, t.node[t.node[m].next].key) = m
      BY <2>0, <3>1
    <3>3. u.node[t.node[m].next].key = t.node[t.node[m].next].key
      BY <3>2, <1>8
    <3>4. u.node[i].next = t.node[m].next /\ u.node[i].key = k
      BY <2>1, <1>6
    <3> QED  BY <3>2, <3>3, <3>4, <1>5
  <2>2. CASE i = m
    BY <2>2, <1>5, <1>6, <1>2
  <2>3. CASE i # f /\ i # m
    <3>1. i \in Used(t) /\ u.node[i] = t.node[i]
      BY <2>3, <1>5, <1>6
    <3> QED  BY <2>0, <3>1, <1>5, <1>8
  <2> QED  BY <2>1, <2>2, <2>3
<1>11. \A i, j \in Used(u) : u.node[i].next = u.node[j].next /\ u.node[i].next # END => i = j
  <2>1. \A i \in Used(t) : t.node[i].next # f
    BY Unpack, <1>3
  <2>2. \A i, j \in Used(t) : t.node[i].next = t.node[j].next /\ t.node[i].next # END => i = j
    BY Apart
  <2>3. \A i \in Used(t) : i # m => u.node[i].next = t.node[i].next
    BY <1>6
  <2> QED  BY <2>1, <2>2, <2>3, <1>2, <1>5, <1>6
<1>12. \A i, j \in Used(u) : u.node[i].key = u.node[j].key => i = j
  BY <1>5, <1>6, <1>8, Apart DEF KeysIn
<1>13. \A i \in Used(u) : \A S \in SUBSET Used(u) :
         Main(u, u.node[i].key) \in S /\ Shut(u, S) => i \in S
  <2> SUFFICES ASSUME NEW i \in Used(u), NEW S \in SUBSET Used(u),
                      Main(t, u.node[i].key) \in S, Shut(u, S)
               PROVE  i \in S
    BY <1>1
  <2>1. m \in S => f \in S
    BY <1>3, <1>6 DEF Shut
  <2>2. CASE i = f
    BY <2>1, <2>2, <1>6
  <2>3. CASE i # f
    <3> DEFINE T == S \ {f}
    <3>1. i \in Used(t) /\ T \in SUBSET Used(t)
      BY <2>3, <1>5
    <3>2. Main(t, t.node[i].key) \in T
      <4>1. Main(t, t.node[i].key) \in Used(t)
        BY <3>1, Unpack
      <4>2. u.node[i].key = t.node[i].key
        BY <3>1, <1>8
      <4> QED  BY <4>1, <4>2
    <3>3. \A j \in T : t.node[j].next \in T \cup {END}
      <4> SUFFICES ASSUME NEW j \in T
                   PROVE  t.node[j].next \in T \cup {END}
        OBVIOUS
      <4>1. j \in Used(t) /\ t.node[j].next \in Used(t) \cup {END}
        BY <3>1, Unpack
      <4>2. CASE j = m
        <5>1. u.node[f].next \in S \cup {END}
          BY <2>1, <4>2 DEF Shut
        <5> QED  BY <5>1, <4>1, <4>2, <1>6
      <4>3. CASE j # m
        <5>1. u.node[j].next \in S \cup {END}
          BY DEF Shut
        <5> QED  BY <5>1, <4>1, <4>3, <1>6
      <4> QED  BY <4>2, <4>3
    <3>4. Shut(t, T)
      BY <3>3 DEF Shut
    <3>5. i \in T
      BY <3>1, <3>2, <3>4, ChainHolds
    <3> QED  BY <3>5
  <2> QED  BY <2>2, <2>3
<1>14. u.capacity > 0
  BY Unpack
<1> QED  BY <1>5, <1>7, <1>9, <1>10, <1>11, <1>12, <1>13, <1>14, Packed

\* A node of another chain gives up the primary slot and moves to a free one,
\* where the node before it finds it.
LEMMA PlacedInstead ==
  ASSUME NEW t, TableSound(t), NEW k \in Key, k \notin KeysIn(t, Used(t)),
         NEW m, m = Main(t, k), m \in Used(t), Main(t, t.node[m].key) # m,
         NEW f \in 0 .. t.capacity - 1, f \notin Used(t),
         NEW p, p = Previous(t, m),
         NEW u, TableTyped(u), u.capacity = t.capacity,
         u.node[f] = t.node[m],
         u.node[p] = [key |-> t.node[p].key, next |-> f],
         u.node[m] = [key |-> k, next |-> END],
         \A i \in 0 .. t.capacity - 1 : i \notin {m, f, p} => u.node[i] = t.node[i]
  PROVE  TableSound(u) /\ Used(u) = Used(t) \cup {f}
<1>1. \A x : Main(u, x) = Main(t, x)
  BY DEF Main
<1>2. t.capacity \in Nat /\ Used(t) \subseteq 0 .. t.capacity - 1 /\ f # m
  BY UsedIn DEF TableSound
<1>3. f # EMPTY /\ f # END /\ END # EMPTY
  BY <1>2 DEF EMPTY, END
<1>4. p \in Used(t) /\ p # m /\ p # f /\ t.node[p].next = m
  BY PreviousFacts
<1>u. \A j \in Used(t) :
        /\ t.node[j].key \in Key /\ Main(t, t.node[j].key) \in Used(t)
        /\ Main(t, t.node[Main(t, t.node[j].key)].key) = Main(t, t.node[j].key)
        /\ t.node[j].next # EMPTY /\ t.node[j].next \in Used(t) \cup {END}
        /\ t.node[j].next # Main(t, t.node[j].key)
        /\ t.node[j].next # END =>
             Main(t, t.node[t.node[j].next].key) = Main(t, t.node[j].key)
  BY Unpack
<1>5. Used(u) = Used(t) \cup {f}
  <2>1. \A j \in 0 .. t.capacity - 1 : u.node[j].next # EMPTY <=> j \in Used(t) \/ j = f
    <3> SUFFICES ASSUME NEW j \in 0 .. t.capacity - 1
                 PROVE  u.node[j].next # EMPTY <=> j \in Used(t) \/ j = f
      OBVIOUS
    <3>1. CASE j = f
      BY <3>1, <1>u
    <3>2. CASE j = p
      BY <3>2, <1>3, <1>4, <1>2
    <3>3. CASE j = m
      BY <3>3, <1>3
    <3>4. CASE j \notin {m, f, p}
      BY <3>4 DEF Used
    <3> QED  BY <3>1, <3>2, <3>3, <3>4
  <2> QED  BY <2>1, <1>2 DEF Used
<1>6. /\ \A i \in Used(t) : i # m /\ i # p => u.node[i] = t.node[i]
      /\ u.node[f].key = t.node[m].key /\ u.node[f].next = t.node[m].next
      /\ u.node[p].key = t.node[p].key /\ u.node[p].next = f
      /\ u.node[m].key = k /\ u.node[m].next = END
  BY <1>2
<1>7. \A i \in 0 .. u.capacity - 1 : i \notin Used(u) => u.node[i] = ClearNode
  BY <1>4, <1>5 DEF TableSound, LinksSound
<1>8. \A i \in Used(t) : i # m => u.node[i].key = t.node[i].key
  BY <1>6
<1>9. \A i \in Used(t) : Main(t, t.node[i].key) # m
  BY <1>u
<1>10. \A i, j \in Used(t) : t.node[i].next = t.node[j].next /\ t.node[i].next # END => i = j
  BY Apart
<1>11. m # END
  BY <1>2 DEF END
<1>12. \A i \in Used(t) : i # p => t.node[i].next # m
  BY <1>4, <1>10, <1>11
<1>13. \A i \in Used(u) :
        /\ u.node[i].key \in Key
        /\ Main(u, u.node[i].key) \in Used(u)
        /\ Main(u, u.node[Main(u, u.node[i].key)].key) = Main(u, u.node[i].key)
  <2> SUFFICES ASSUME NEW i \in Used(u)
               PROVE  /\ u.node[i].key \in Key
                      /\ Main(t, u.node[i].key) \in Used(u)
                      /\ Main(t, u.node[Main(t, u.node[i].key)].key) = Main(t, u.node[i].key)
    BY <1>1
  <2>1. CASE i = f
    <3>1. /\ t.node[m].key \in Key /\ Main(t, t.node[m].key) \in Used(t)
          /\ Main(t, t.node[Main(t, t.node[m].key)].key) = Main(t, t.node[m].key)
      BY <1>u
    <3>2. u.node[Main(t, t.node[m].key)].key = t.node[Main(t, t.node[m].key)].key
      BY <3>1, <1>8
    <3>3. u.node[i].key = t.node[m].key
      BY <2>1, <1>6
    <3> QED  BY <3>1, <3>2, <3>3, <1>5
  <2>2. CASE i = m
    BY <2>2, <1>5, <1>6
  <2>3. CASE i # f /\ i # m
    BY <2>3, <1>5, <1>8, <1>9, <1>u
  <2> QED  BY <2>1, <2>2, <2>3
<1>14. \A i \in Used(u) : u.node[i].next # END =>
        /\ u.node[i].next \in Used(u)
        /\ u.node[i].next # Main(u, u.node[i].key)
        /\ Main(u, u.node[u.node[i].next].key) = Main(u, u.node[i].key)
  <2> SUFFICES ASSUME NEW i \in Used(u), u.node[i].next # END
               PROVE  /\ u.node[i].next \in Used(u)
                      /\ u.node[i].next # Main(t, u.node[i].key)
                      /\ Main(t, u.node[u.node[i].next].key) = Main(t, u.node[i].key)
    BY <1>1
  <2>1. CASE i = f
    <3>1. t.node[m].next \in Used(t) /\ t.node[m].next # m
      BY <2>1, <1>6, <1>u, <1>4, <1>12
    <3>2. u.node[t.node[m].next].key = t.node[t.node[m].next].key
      BY <3>1, <1>8
    <3>3. /\ t.node[m].next # Main(t, t.node[m].key)
          /\ Main(t, t.node[t.node[m].next].key) = Main(t, t.node[m].key)
      BY <3>1, <1>u, <1>3, <1>11, <2>1, <1>6
    <3>4. u.node[i].next = t.node[m].next /\ u.node[i].key = t.node[m].key
      BY <2>1, <1>6
    <3> QED  BY <3>1, <3>2, <3>3, <3>4, <1>5
  <2>2. CASE i = p
    <3>1. Main(t, t.node[m].key) = Main(t, t.node[p].key)
      BY <1>4, <1>u, <1>11
    <3>2. f # Main(t, t.node[p].key)
      BY <1>4, <1>u
    <3> QED  BY <3>1, <3>2, <2>2, <1>5, <1>6
  <2>3. CASE i # f /\ i # p
    <3>1. i \in Used(t) /\ u.node[i] = t.node[i] /\ i # m
      BY <2>3, <1>5, <1>6
    <3>2. t.node[i].next \in Used(t) /\ t.node[i].next # m
      BY <2>3, <3>1, <1>u, <1>12
    <3>3. u.node[t.node[i].next].key = t.node[t.node[i].next].key
      BY <3>2, <1>8
    <3>4. t.node[i].next # END /\ t.node[i].next # Main(t, t.node[i].key)
          /\ Main(t, t.node[t.node[i].next].key) = Main(t, t.node[i].key)
      BY <3>1, <3>2, <1>u, <1>2, <1>3
    <3> QED  BY <3>1, <3>2, <3>3, <3>4, <1>5
  <2> QED  BY <2>1, <2>2, <2>3
<1>15. \A i, j \in Used(u) : u.node[i].next = u.node[j].next /\ u.node[i].next # END => i = j
  <2>1. \A i \in Used(t) : t.node[i].next # f
    BY <1>u, <1>3
  <2>2. \A i \in Used(t) : i # m /\ i # p => u.node[i].next = t.node[i].next
    BY <1>6
  <2> QED  BY <2>1, <2>2, <1>2, <1>4, <1>5, <1>6, <1>10
<1>16. \A i, j \in Used(u) : u.node[i].key = u.node[j].key => i = j
  <2>1. \A i, j \in Used(t) : t.node[i].key = t.node[j].key => i = j
    BY Apart
  <2>2. \A i \in Used(t) : t.node[i].key # k
    BY DEF KeysIn
  <2> QED  BY <2>1, <2>2, <1>5, <1>6, <1>8
<1>17. \A i \in Used(u) : \A S \in SUBSET Used(u) :
         Main(u, u.node[i].key) \in S /\ Shut(u, S) => i \in S
  <2> SUFFICES ASSUME NEW i \in Used(u), NEW S \in SUBSET Used(u),
                      Main(t, u.node[i].key) \in S, Shut(u, S), i # m
               PROVE  i \in S
    BY <1>1, <1>6
  <2> DEFINE T == (S \ {f, m}) \cup (IF f \in S THEN {m} ELSE {})
             o == IF i = f THEN m ELSE i
  <2>1. o \in Used(t) /\ T \in SUBSET Used(t)
    BY <1>5
  <2>2. u.node[i].key = t.node[o].key
    BY <1>5, <1>6, <1>8
  <2>3. Main(t, t.node[o].key) \in T
    BY <2>1, <2>2, <1>9, <1>u
  <2>4. \A j \in T : t.node[j].next \in T \cup {END}
    <3> SUFFICES ASSUME NEW j \in T
                 PROVE  t.node[j].next \in T \cup {END}
      OBVIOUS
    <3>1. j \in Used(t) /\ t.node[j].next \in Used(t) \cup {END}
      BY <2>1, <1>u
    <3>2. \A x \in S : u.node[x].next \in S \cup {END}
      BY DEF Shut
    <3>3. CASE j = m
      <4>1. f \in S
        BY <3>3
      <4>2. t.node[m].next \in S \cup {END} /\ t.node[m].next # m /\ t.node[m].next # f
        <5>1. u.node[f].next \in S \cup {END} /\ u.node[f].next = t.node[m].next
          BY <4>1, <3>2, <1>6
        <5>2. t.node[m].next # m
          BY <1>4, <1>12
        <5>3. t.node[m].next # f
          BY <3>1, <3>3, <1>3
        <5> QED  BY <5>1, <5>2, <5>3
      <4> QED  BY <4>2, <3>3
    <3>4. CASE j = p
      <4>1. p \in S
        BY <3>4, <1>4
      <4>2. f \in S
        BY <4>1, <3>2, <1>3, <1>6
      <4> QED  BY <4>2, <3>4, <1>4
    <3>5. CASE j # m /\ j # p
      <4>1. j \in S /\ u.node[j] = t.node[j]
        BY <3>5, <3>1, <1>6
      <4>2. t.node[j].next # m /\ t.node[j].next # f
        BY <3>1, <3>5, <1>12, <1>3
      <4> QED  BY <4>1, <4>2, <3>2
    <3> QED  BY <3>3, <3>4, <3>5
  <2>5. Shut(t, T)
    BY <2>4 DEF Shut
  <2> HIDE DEF T, o
  <2>6. o \in T
    BY <2>1, <2>3, <2>5, ChainHolds
  <2> QED  BY <2>6, <1>5 DEF T, o
<1>18. u.capacity > 0
  BY Unpack
<1> QED  BY <1>5, <1>7, <1>13, <1>14, <1>15, <1>16, <1>17, <1>18, Packed

\* u is t with a node for k, and has no hole behind its cursor if t has none.
Placement(t, k, u) ==
  /\ TableSound(u) /\ u.capacity = t.capacity
  /\ KeysIn(u, Used(u)) = KeysIn(t, Used(t)) \cup {k}
  /\ Cardinality(Used(u)) = Cardinality(Used(t)) + 1
  /\ (\A i \in 0 .. t.capacity - 1 : i > t.lastFree => i \in Used(t)) =>
       \A i \in 0 .. u.capacity - 1 : i > u.lastFree => i \in Used(u)

\* The cursor of t has come to its end: there is no free slot below it.
Exhausted(t, slot) ==
  /\ slot.at = END /\ slot.table = [t EXCEPT !.lastFree = END]
  /\ \A i \in 0 .. t.capacity - 1 : i <= t.lastFree => i \in Used(t)

\* A table with other nodes and another cursor is typed if these are.
LEMMA StoredTyped ==
  ASSUME NEW t, TableTyped(t), NEW l \in END .. t.capacity - 1,
         NEW node \in [0 .. t.capacity - 1 -> [key : Key \cup {NoKey}, next : Int]],
         NEW u, u = [capacity |-> t.capacity, lastFree |-> l, node |-> node]
  PROVE  TableTyped(u) /\ u.capacity = t.capacity /\ u.lastFree = l /\ u.node = node
<1>1. u.capacity = t.capacity /\ u.lastFree = l /\ u.node = node
  OBVIOUS
<1>2. u \in [capacity : {t.capacity}, lastFree : END .. t.capacity - 1,
             node : [0 .. t.capacity - 1 -> [key : Key \cup {NoKey}, next : Int]]]
  OBVIOUS
<1> QED  BY <1>1, <1>2 DEF TableTyped

\* The form of a typed table, and what storing a key in it gives.
LEMMA TableForm ==
  ASSUME NEW t, TableTyped(t)
  PROVE  t = [capacity |-> t.capacity, lastFree |-> t.lastFree, node |-> t.node]
BY DEF TableTyped

\* What writing the key into the slot of a new node leaves.
LEMMA KeyStored ==
  ASSUME NEW c, NEW l, NEW n, NEW m, NEW k, NEW slot,
         slot = [table |-> [capacity |-> c, lastFree |-> l, node |-> n], at |-> m]
  PROVE  Filled(slot, k) = [capacity |-> c, lastFree |-> l, node |-> [n EXCEPT ![m].key = k]]
BY DEF Filled

\* The keys and the number of the nodes when one was added.
LEMMA OneMore ==
  ASSUME NEW t, TableSound(t), NEW u, NEW k, NEW x, x \notin Used(t),
         Used(u) = Used(t) \cup {x},
         \A i \in Used(t) : \E j \in Used(u) : u.node[j].key = t.node[i].key,
         \E j \in Used(u) : u.node[j].key = k,
         \A j \in Used(u) : u.node[j].key = k \/ \E i \in Used(t) : u.node[j].key = t.node[i].key
  PROVE  /\ KeysIn(u, Used(u)) = KeysIn(t, Used(t)) \cup {k}
         /\ Cardinality(Used(u)) = Cardinality(Used(t)) + 1
<1>1. IsFiniteSet(Used(t))
  BY UsedIn DEF TableSound
<1> DEFINE T == Used(t)
<1>a. IsFiniteSet(T) /\ x \notin T /\ Used(u) = T \cup {x}
  BY <1>1
<1> HIDE DEF T
<1>b. Cardinality(T \cup {x}) = Cardinality(T) + 1
  BY <1>a, FS_AddElement
<1>2. Cardinality(Used(u)) = Cardinality(Used(t)) + 1
  BY <1>a, <1>b DEF T
<1>3. KeysIn(u, Used(u)) \subseteq KeysIn(t, Used(t)) \cup {k}
  BY DEF KeysIn
<1>4. KeysIn(t, Used(t)) \cup {k} \subseteq KeysIn(u, Used(u))
  BY DEF KeysIn
<1> QED  BY <1>2, <1>3, <1>4

\* InsertNewNode finds a slot and leaves the table sound, or the cursor is at
\* its end and there was no free slot below it.
LEMMA PlacedFacts ==
  ASSUME NEW t, TableSound(t), t.capacity > 0, NEW k \in Key, k \notin KeysIn(t, Used(t))
  PROVE  \/ Exhausted(t, InsertNewNode(t, k))
         \/ /\ InsertNewNode(t, k).at # END
            /\ Placement(t, k, Filled(InsertNewNode(t, k), k))
<1> DEFINE m == Main(t, k)
           f == FindFreeNodeIndex(t)
           p == Previous(t, m)
           l == IF f = END THEN END ELSE f - 1
           head == [key |-> NoKey, next |-> END]
           new  == [key |-> k, next |-> END]
           u    == Filled(InsertNewNode(t, k), k)
           Slot0 == 0 .. t.capacity - 1
           Nodes0 == [key : Key \cup {NoKey}, next : Int]
<1>1. TableTyped(t)
  BY DEF TableSound
<1>2. t.capacity \in Nat /\ m \in Slot0 /\ Used(t) \subseteq Slot0
  BY <1>1, UsedIn, MainIn
<1>3. /\ t \in [capacity : {t.capacity}, lastFree : END .. t.capacity - 1, node : [Slot0 -> Nodes0]]
      /\ t.lastFree \in END .. t.capacity - 1 /\ t.node \in [Slot0 -> Nodes0]
  BY <1>1 DEF TableTyped
<1>4. END \notin Slot0 /\ END \in Int
  BY <1>2 DEF END
<1>5. m # END
  BY <1>2, <1>4
<1>6. new \in Nodes0
  BY <1>4
<1>7. CASE m \notin Used(t)
  <2>1. InsertNewNode(t, k) = [table |-> [t EXCEPT !.node[m] = head], at |-> m]
    BY <1>7 DEF InsertNewNode
  <2> DEFINE node == [t.node EXCEPT ![m] = new]
             n0   == [t.node EXCEPT ![m] = head]
  <2>a. t = [capacity |-> t.capacity, lastFree |-> t.lastFree, node |-> t.node]
    BY <1>1, TableForm
  <2>b. [t EXCEPT !.node[m] = head] = [capacity |-> t.capacity, lastFree |-> t.lastFree, node |-> n0]
    BY <2>a
  <2>c. u = [capacity |-> t.capacity, lastFree |-> t.lastFree, node |-> [n0 EXCEPT ![m].key = k]]
    <3> HIDE DEF n0, m
    <3> QED  BY <2>1, <2>b, KeyStored
  <2>d. [n0 EXCEPT ![m].key = k] = node
    BY <1>2, <1>3
  <2>2. u = [capacity |-> t.capacity, lastFree |-> t.lastFree, node |-> node]
    BY <2>c, <2>d
  <2>3. node \in [Slot0 -> Nodes0] /\ node[m] = new /\ \A i \in Slot0 : i # m => node[i] = t.node[i]
    BY <1>2, <1>3, <1>6
  <2> HIDE DEF u, node
  <2>4. TableTyped(u) /\ u.capacity = t.capacity /\ u.lastFree = t.lastFree /\ u.node = node
    BY <1>1, <1>3, <2>2, <2>3, StoredTyped
  <2> HIDE DEF m
  <2>5. TableSound(u) /\ Used(u) = Used(t) \cup {m}
    <3>1. m = Main(t, k)
      BY DEF m
    <3>2. /\ u.node[m] = [key |-> k, next |-> END]
          /\ \A i \in 0 .. t.capacity - 1 : i # m => u.node[i] = t.node[i]
      BY <2>3, <2>4
    <3> QED  BY <1>7, <2>4, <3>1, <3>2, PlacedFree
  <2>6. \A i \in Used(t) : u.node[i] = t.node[i]
    BY <1>2, <1>7, <2>3, <2>4
  <2>7. u.node[m].key = k
    BY <2>3, <2>4
  <2>8. /\ KeysIn(u, Used(u)) = KeysIn(t, Used(t)) \cup {k}
        /\ Cardinality(Used(u)) = Cardinality(Used(t)) + 1
    <3>1. \A i \in Used(t) : \E j \in Used(u) : u.node[j].key = t.node[i].key
      BY <2>5, <2>6
    <3>2. \E j \in Used(u) : u.node[j].key = k
      BY <2>5, <2>7
    <3>3. \A j \in Used(u) : u.node[j].key = k \/ \E i \in Used(t) : u.node[j].key = t.node[i].key
      BY <2>5, <2>6, <2>7
    <3> HIDE DEF u
    <3> QED  BY <1>7, <2>5, <3>1, <3>2, <3>3, OneMore
  <2>9. Placement(t, k, u)
    BY <2>4, <2>5, <2>8 DEF Placement
  <2> QED  BY <2>1, <2>9, <1>5 DEF u
<1>8. CASE m \in Used(t) /\ f = END
  <2>1. InsertNewNode(t, k) = [table |-> [t EXCEPT !.lastFree = END], at |-> END]
    BY <1>8 DEF InsertNewNode
  <2>2. \A i \in 0 .. t.capacity - 1 : i <= t.lastFree => i \in Used(t)
    BY <1>1, <1>4, <1>8, FreeFacts
  <2> QED  BY <2>1, <2>2 DEF Exhausted
<1>9. CASE m \in Used(t) /\ f # END
  <2>1. /\ f \in Slot0 /\ f \notin Used(t) /\ f <= t.lastFree
        /\ \A i \in Slot0 : i > f /\ i <= t.lastFree => i \in Used(t)
    BY <1>1, <1>9, FreeFacts
  <2>2. l = f - 1 /\ l \in END .. t.capacity - 1 /\ \A i \in Slot0 : i > l => i > f \/ i = f
    BY <2>1, <1>2, <1>9 DEF END
  <2>3. t.node[m] \in Nodes0 /\ t.node[m] = [key |-> t.node[m].key, next |-> t.node[m].next]
    BY <1>2, <1>3
  <2>4. f \in Int /\ f # m
    BY <1>2, <1>9, <2>1
  <2>7. (\A i \in Slot0 : i > t.lastFree => i \in Used(t)) =>
           \A i \in Slot0 : i > l => i \in Used(t) \cup {f}
    BY <1>3, <2>1, <2>2
  <2>5. CASE Main(t, t.node[m].key) # m
    <3>1. p \in Used(t) /\ p # m /\ p # f /\ t.node[p].next = m /\ p \in Slot0
      BY <1>2, <1>9, <2>1, <2>5, PreviousFacts
    <3> DEFINE node == [t.node EXCEPT ![f] = t.node[m], ![p].next = f, ![m] = new]
    <3>2. InsertNewNode(t, k) =
            [table |-> [[t EXCEPT !.lastFree = l] EXCEPT !.node = [@ EXCEPT
                ![f] = t.node[m], ![p].next = f, ![m] = head]], at |-> m]
      BY <1>9, <2>5 DEF InsertNewNode
    <3> DEFINE n0 == [t.node EXCEPT ![f] = t.node[m], ![p].next = f, ![m] = head]
    <3>a. t = [capacity |-> t.capacity, lastFree |-> t.lastFree, node |-> t.node]
      BY <1>1, TableForm
    <3>b. [[t EXCEPT !.lastFree = l] EXCEPT !.node = [@ EXCEPT
                ![f] = t.node[m], ![p].next = f, ![m] = head]]
            = [capacity |-> t.capacity, lastFree |-> l, node |-> n0]
      <4> DEFINE s == [t EXCEPT !.lastFree = l]
      <4> HIDE DEF l, f, m, p, head
      <4>1. s = [capacity |-> t.capacity, lastFree |-> l, node |-> t.node]
        BY <3>a
      <4> HIDE DEF s
      <4>2. s.node = t.node
        BY <4>1
      <4>3. [s EXCEPT !.node = n0] = [capacity |-> t.capacity, lastFree |-> l, node |-> n0]
        <5> HIDE DEF n0
        <5> QED  BY <4>1
      <4> QED  BY <4>2, <4>3 DEF s
    <3>c. u = [capacity |-> t.capacity, lastFree |-> l, node |-> [n0 EXCEPT ![m].key = k]]
      <4> HIDE DEF n0, m, l
      <4> QED  BY <3>2, <3>b, KeyStored
    <3>d. [n0 EXCEPT ![m].key = k] = node
      <4>1. [head EXCEPT !.key = k] = new
        OBVIOUS
      <4> HIDE DEF m, f, p, new, head
      <4> DEFINE n1 == [t.node EXCEPT ![f] = t.node[m], ![p].next = f]
      <4>2. n1 \in [Slot0 -> Nodes0]
        BY <1>3, <2>3, <2>4, <3>1
      <4> HIDE DEF n1
      <4>3. [[n1 EXCEPT ![m] = head] EXCEPT ![m].key = k] = [n1 EXCEPT ![m] = [head EXCEPT !.key = k]]
        BY <4>2, <1>2
      <4> QED  BY <4>1, <4>3 DEF n1
    <3>3. u = [capacity |-> t.capacity, lastFree |-> l, node |-> node]
      BY <3>c, <3>d
    <3>4. t.node[p] \in Nodes0
      BY <3>1, <1>3
    <3>5. node \in [Slot0 -> Nodes0]
      BY <1>2, <1>3, <1>6, <2>1, <2>3, <2>4, <3>1, <3>4
    <3>6. /\ node[m] = new /\ node[f] = t.node[m]
          /\ node[p] = [key |-> t.node[p].key, next |-> f]
          /\ \A i \in Slot0 : i \notin {m, f, p} => node[i] = t.node[i]
      BY <1>2, <1>3, <2>1, <2>4, <3>1, <3>4
    <3> HIDE DEF u, node, l
    <3>7. TableTyped(u) /\ u.capacity = t.capacity /\ u.lastFree = l /\ u.node = node
      BY <1>1, <2>2, <3>3, <3>5, StoredTyped
    <3> HIDE DEF m, f, p
    <3>8. TableSound(u) /\ Used(u) = Used(t) \cup {f}
      <4>1. m = Main(t, k) /\ p = Previous(t, m)
        BY DEF m, p
      <4> QED  BY <1>9, <2>1, <2>5, <3>6, <3>7, <4>1, PlacedInstead
    <3>9. /\ u.node[m].key = k /\ u.node[f].key = t.node[m].key
          /\ \A i \in Used(t) : i # m => u.node[i].key = t.node[i].key
      BY <1>2, <2>1, <3>1, <3>6, <3>7
    <3>10. /\ KeysIn(u, Used(u)) = KeysIn(t, Used(t)) \cup {k}
           /\ Cardinality(Used(u)) = Cardinality(Used(t)) + 1
      <4>1. \A i \in Used(t) : \E j \in Used(u) : u.node[j].key = t.node[i].key
        BY <3>8, <3>9
      <4>2. \E j \in Used(u) : u.node[j].key = k
        BY <1>9, <3>8, <3>9
      <4>3. \A j \in Used(u) : u.node[j].key = k \/ \E i \in Used(t) : u.node[j].key = t.node[i].key
        BY <1>9, <3>8, <3>9
      <4> QED  BY <2>1, <3>8, <4>1, <4>2, <4>3, OneMore
    <3>11. Placement(t, k, u)
      BY <2>7, <3>7, <3>8, <3>10 DEF Placement
    <3> QED  BY <3>2, <3>11, <1>5 DEF u
  <2>6. CASE Main(t, t.node[m].key) = m
    <3> DEFINE node == [t.node EXCEPT ![f] = [key |-> k, next |-> t.node[m].next], ![m].next = f]
    <3>2. InsertNewNode(t, k) =
            [table |-> [[t EXCEPT !.lastFree = l] EXCEPT !.node = [@ EXCEPT
                ![f] = [head EXCEPT !.next = t.node[m].next], ![m].next = f]], at |-> f]
      BY <1>9, <2>6 DEF InsertNewNode
    <3> DEFINE n0 == [t.node EXCEPT ![f] = [head EXCEPT !.next = t.node[m].next], ![m].next = f]
    <3>a. t = [capacity |-> t.capacity, lastFree |-> t.lastFree, node |-> t.node]
      BY <1>1, TableForm
    <3>b. [[t EXCEPT !.lastFree = l] EXCEPT !.node = [@ EXCEPT
                ![f] = [head EXCEPT !.next = t.node[m].next], ![m].next = f]]
            = [capacity |-> t.capacity, lastFree |-> l, node |-> n0]
      <4> DEFINE s == [t EXCEPT !.lastFree = l]
      <4> HIDE DEF l, f, m, head
      <4>1. s = [capacity |-> t.capacity, lastFree |-> l, node |-> t.node]
        BY <3>a
      <4> HIDE DEF s
      <4>2. s.node = t.node
        BY <4>1
      <4>3. [s EXCEPT !.node = n0] = [capacity |-> t.capacity, lastFree |-> l, node |-> n0]
        <5> HIDE DEF n0
        <5> QED  BY <4>1
      <4> QED  BY <4>2, <4>3 DEF s
    <3>c. u = [capacity |-> t.capacity, lastFree |-> l, node |-> [n0 EXCEPT ![f].key = k]]
      <4> HIDE DEF n0, f, l
      <4> QED  BY <3>2, <3>b, KeyStored
    <3>d. [n0 EXCEPT ![f].key = k] = node
      <4> HIDE DEF m, f
      <4> QED  BY <1>2, <1>3, <2>1, <2>4
    <3>3. u = [capacity |-> t.capacity, lastFree |-> l, node |-> node]
      BY <3>c, <3>d
    <3>4. t.node[m].next \in Int
      BY <2>3
    <3>5. node \in [Slot0 -> Nodes0]
      BY <1>2, <1>3, <2>1, <2>3, <2>4, <3>4
    <3>6. /\ node[m] = [key |-> t.node[m].key, next |-> f]
          /\ node[f] = [key |-> k, next |-> t.node[m].next]
          /\ \A i \in Slot0 : i # m /\ i # f => node[i] = t.node[i]
      BY <1>2, <1>3, <2>1, <2>3, <2>4
    <3> HIDE DEF u, node, l
    <3>7. TableTyped(u) /\ u.capacity = t.capacity /\ u.lastFree = l /\ u.node = node
      BY <1>1, <2>2, <3>3, <3>5, StoredTyped
    <3> HIDE DEF m, f, p
    <3>8. TableSound(u) /\ Used(u) = Used(t) \cup {f}
      <4>1. m = Main(t, k)
        BY DEF m
      <4> QED  BY <1>9, <2>1, <2>6, <3>6, <3>7, <4>1, PlacedBehind
    <3>9. /\ u.node[f].key = k
          /\ \A i \in Used(t) : u.node[i].key = t.node[i].key
      BY <1>2, <2>1, <3>6, <3>7
    <3>10. /\ KeysIn(u, Used(u)) = KeysIn(t, Used(t)) \cup {k}
           /\ Cardinality(Used(u)) = Cardinality(Used(t)) + 1
      <4>1. \A i \in Used(t) : \E j \in Used(u) : u.node[j].key = t.node[i].key
        BY <3>8, <3>9
      <4>2. \E j \in Used(u) : u.node[j].key = k
        BY <3>8, <3>9
      <4>3. \A j \in Used(u) : u.node[j].key = k \/ \E i \in Used(t) : u.node[j].key = t.node[i].key
        BY <3>8, <3>9
      <4> QED  BY <2>1, <3>8, <4>1, <4>2, <4>3, OneMore
    <3>11. Placement(t, k, u)
      BY <2>7, <3>7, <3>8, <3>10 DEF Placement
    <3> QED  BY <3>2, <3>11, <1>9 DEF u
  <2> QED  BY <2>5, <2>6
<1> HIDE DEF m, f, p, l, head, new, u, Slot0, Nodes0
<1> QED  BY <1>7, <1>8, <1>9

\* A node behind another leaves its chain.
LEMMA UnlinkedInside ==
  ASSUME NEW t, TableSound(t), NEW i \in Used(t), i # Main(t, t.node[i].key),
         NEW p, p = Previous(t, i),
         NEW u, TableTyped(u), u.capacity = t.capacity,
         u.node[p] = [key |-> t.node[p].key, next |-> t.node[i].next],
         u.node[i] = ClearNode,
         \A j \in 0 .. t.capacity - 1 : j # i /\ j # p => u.node[j] = t.node[j]
  PROVE  /\ TableSound(u) /\ Used(u) = Used(t) \ {i}
         /\ \A j \in Used(u) : u.node[j].key = t.node[j].key
<1>1. \A x : Main(u, x) = Main(t, x)
  BY DEF Main
<1>2. t.capacity \in Nat /\ Used(t) \subseteq 0 .. t.capacity - 1
  BY UsedIn DEF TableSound
<1>3. i # END /\ END # EMPTY
  BY <1>2 DEF END, EMPTY
<1>4. p \in Used(t) /\ p # i /\ t.node[p].next = i
  BY PreviousFacts
<1>u. \A j \in Used(t) :
        /\ t.node[j].key \in Key /\ Main(t, t.node[j].key) \in Used(t)
        /\ Main(t, t.node[Main(t, t.node[j].key)].key) = Main(t, t.node[j].key)
        /\ t.node[j].next # EMPTY /\ t.node[j].next \in Used(t) \cup {END}
        /\ t.node[j].next # Main(t, t.node[j].key)
        /\ t.node[j].next # END =>
             Main(t, t.node[t.node[j].next].key) = Main(t, t.node[j].key)
  BY Unpack
<1>n. ClearNode.next = EMPTY
  BY DEF ClearNode
<1>5. Used(u) = Used(t) \ {i}
  BY <1>2, <1>4, <1>u, <1>n DEF Used
<1>6. /\ \A j \in Used(u) : j # p => u.node[j] = t.node[j]
      /\ u.node[p].key = t.node[p].key /\ u.node[p].next = t.node[i].next
  BY <1>2, <1>5
<1>7. \A j \in 0 .. u.capacity - 1 : j \notin Used(u) => u.node[j] = ClearNode
  BY <1>4, <1>5 DEF TableSound, LinksSound
<1>8. \A j \in Used(u) : u.node[j].key = t.node[j].key
  BY <1>6
<1>9. \A x, y \in Used(t) : t.node[x].next = t.node[y].next /\ t.node[x].next # END => x = y
  BY Apart
<1>10. \A j \in Used(u) : j # p => t.node[j].next # i
  BY <1>3, <1>4, <1>5, <1>9
<1>11. t.node[i].next # i
  BY <1>3, <1>4, <1>9
<1>12. \A j \in Used(t) : Main(t, t.node[j].key) # i
  BY <1>u
<1>13. \A j \in Used(u) :
        /\ u.node[j].key \in Key
        /\ Main(u, u.node[j].key) \in Used(u)
        /\ Main(u, u.node[Main(u, u.node[j].key)].key) = Main(u, u.node[j].key)
  BY <1>1, <1>5, <1>8, <1>12, <1>u
<1>14. \A j \in Used(u) : u.node[j].next # END =>
        /\ u.node[j].next \in Used(u)
        /\ u.node[j].next # Main(u, u.node[j].key)
        /\ Main(u, u.node[u.node[j].next].key) = Main(u, u.node[j].key)
  <2> SUFFICES ASSUME NEW j \in Used(u), u.node[j].next # END
               PROVE  /\ u.node[j].next \in Used(u)
                      /\ u.node[j].next # Main(t, u.node[j].key)
                      /\ Main(t, u.node[u.node[j].next].key) = Main(t, u.node[j].key)
    BY <1>1
  <2>1. CASE j = p
    <3>1. Main(t, t.node[i].key) = Main(t, t.node[p].key)
      BY <1>3, <1>4, <1>u
    <3>2. u.node[j].next = t.node[i].next /\ t.node[i].next # END
      BY <2>1, <1>6
    <3>3. /\ t.node[i].next \in Used(u)
          /\ t.node[i].next # Main(t, t.node[i].key)
          /\ Main(t, t.node[t.node[i].next].key) = Main(t, t.node[i].key)
      BY <3>2, <1>u, <1>11, <1>5
    <3>4. u.node[t.node[i].next].key = t.node[t.node[i].next].key
      BY <3>3, <1>8
    <3> QED  BY <2>1, <3>1, <3>2, <3>3, <3>4, <1>6
  <2>2. CASE j # p
    <3>1. j \in Used(t) /\ u.node[j] = t.node[j]
      BY <2>2, <1>5, <1>6
    <3>2. /\ t.node[j].next \in Used(u)
          /\ t.node[j].next # Main(t, t.node[j].key)
          /\ Main(t, t.node[t.node[j].next].key) = Main(t, t.node[j].key)
      BY <2>2, <3>1, <1>u, <1>10, <1>5
    <3>3. u.node[t.node[j].next].key = t.node[t.node[j].next].key
      BY <3>2, <1>8
    <3> QED  BY <3>1, <3>2, <3>3
  <2> QED  BY <2>1, <2>2
<1>15. \A x, y \in Used(u) : u.node[x].next = u.node[y].next /\ u.node[x].next # END => x = y
  <2>1. \A x \in Used(u) : x # p => u.node[x].next = t.node[x].next
    BY <1>6
  <2> QED  BY <2>1, <1>5, <1>6, <1>9
<1>16. \A x, y \in Used(u) : u.node[x].key = u.node[y].key => x = y
  BY <1>5, <1>8, Apart
<1>17. \A j \in Used(u) : \A S \in SUBSET Used(u) :
         Main(u, u.node[j].key) \in S /\ Shut(u, S) => j \in S
  <2> SUFFICES ASSUME NEW j \in Used(u), NEW S \in SUBSET Used(u),
                      Main(t, t.node[j].key) \in S, Shut(u, S)
               PROVE  j \in S
    BY <1>1, <1>8
  <2> DEFINE T == IF p \in S THEN S \cup {i} ELSE S
  <2>1. j \in Used(t) /\ j # i /\ T \in SUBSET Used(t) /\ Main(t, t.node[j].key) \in T
    BY <1>5
  <2>2. \A x \in T : t.node[x].next \in T \cup {END}
    <3> SUFFICES ASSUME NEW x \in T
                 PROVE  t.node[x].next \in T \cup {END}
      OBVIOUS
    <3>1. \A y \in S : u.node[y].next \in S \cup {END}
      BY DEF Shut
    <3>2. CASE x = i
      <4>1. p \in S
        BY <3>2, <1>5
      <4> QED  BY <4>1, <3>1, <3>2, <1>6
    <3>3. CASE x = p
      BY <3>3, <1>4
    <3>4. CASE x # i /\ x # p
      <4>1. x \in S /\ x \in Used(u) /\ u.node[x] = t.node[x]
        BY <3>4, <1>6
      <4> QED  BY <4>1, <3>1
    <3> QED  BY <3>2, <3>3, <3>4
  <2>3. Shut(t, T)
    BY <2>2 DEF Shut
  <2> HIDE DEF T
  <2>4. j \in T
    BY <2>1, <2>3, ChainHolds
  <2> QED  BY <2>1, <2>4 DEF T
<1>18. u.capacity > 0
  BY Unpack
<1> QED  BY <1>5, <1>7, <1>8, <1>13, <1>14, <1>15, <1>16, <1>17, <1>18, Packed

\* A head without followers leaves its slot free.
LEMMA UnlinkedAlone ==
  ASSUME NEW t, TableSound(t), NEW i \in Used(t), i = Main(t, t.node[i].key),
         t.node[i].next = END,
         NEW u, TableTyped(u), u.capacity = t.capacity,
         u.node[i] = ClearNode,
         \A j \in 0 .. t.capacity - 1 : j # i => u.node[j] = t.node[j]
  PROVE  /\ TableSound(u) /\ Used(u) = Used(t) \ {i}
         /\ \A j \in Used(u) : u.node[j].key = t.node[j].key
<1>1. \A x : Main(u, x) = Main(t, x)
  BY DEF Main
<1>2. t.capacity \in Nat /\ Used(t) \subseteq 0 .. t.capacity - 1
  BY UsedIn DEF TableSound
<1>3. i # END
  BY <1>2 DEF END
<1>u. \A j \in Used(t) :
        /\ t.node[j].key \in Key /\ Main(t, t.node[j].key) \in Used(t)
        /\ Main(t, t.node[Main(t, t.node[j].key)].key) = Main(t, t.node[j].key)
        /\ t.node[j].next # EMPTY /\ t.node[j].next \in Used(t) \cup {END}
        /\ t.node[j].next # Main(t, t.node[j].key)
        /\ t.node[j].next # END =>
             Main(t, t.node[t.node[j].next].key) = Main(t, t.node[j].key)
  BY Unpack
<1>n. ClearNode.next = EMPTY
  BY DEF ClearNode
<1>5. Used(u) = Used(t) \ {i}
  BY <1>2, <1>u, <1>n DEF Used
<1>6. \A j \in Used(u) : u.node[j] = t.node[j]
  BY <1>2, <1>5
<1>7. \A j \in 0 .. u.capacity - 1 : j \notin Used(u) => u.node[j] = ClearNode
  BY <1>5 DEF TableSound, LinksSound
<1>8. \A j \in Used(u) : Main(t, t.node[j].key) # i
  <2> SUFFICES ASSUME NEW j \in Used(u), Main(t, t.node[j].key) = i
               PROVE  FALSE
    OBVIOUS
  <2> DEFINE T == {i}
  <2>1. T \in SUBSET Used(t) /\ Main(t, t.node[j].key) \in T /\ j \in Used(t) /\ j \notin T
    BY <1>5
  <2>2. Shut(t, T)
    BY DEF Shut
  <2> HIDE DEF T
  <2> QED  BY <2>1, <2>2, ChainHolds
<1>9. \A j \in Used(u) : t.node[j].next # i
  <2> SUFFICES ASSUME NEW j \in Used(u), t.node[j].next = i
               PROVE  FALSE
    OBVIOUS
  <2>1. j \in Used(t)
    BY <1>5
  <2>2. Main(t, t.node[i].key) = Main(t, t.node[j].key) /\ i # Main(t, t.node[j].key)
    BY <2>1, <1>3, <1>u
  <2> QED  BY <2>2
<1>13. \A j \in Used(u) :
        /\ u.node[j].key \in Key
        /\ Main(u, u.node[j].key) \in Used(u)
        /\ Main(u, u.node[Main(u, u.node[j].key)].key) = Main(u, u.node[j].key)
  BY <1>1, <1>5, <1>6, <1>8, <1>u
<1>14. \A j \in Used(u) : u.node[j].next # END =>
        /\ u.node[j].next \in Used(u)
        /\ u.node[j].next # Main(u, u.node[j].key)
        /\ Main(u, u.node[u.node[j].next].key) = Main(u, u.node[j].key)
  <2> SUFFICES ASSUME NEW j \in Used(u), u.node[j].next # END
               PROVE  /\ u.node[j].next \in Used(u)
                      /\ u.node[j].next # Main(t, u.node[j].key)
                      /\ Main(t, u.node[u.node[j].next].key) = Main(t, u.node[j].key)
    BY <1>1
  <2>1. j \in Used(t) /\ u.node[j] = t.node[j]
    BY <1>5, <1>6
  <2>2. /\ t.node[j].next \in Used(u)
        /\ t.node[j].next # Main(t, t.node[j].key)
        /\ Main(t, t.node[t.node[j].next].key) = Main(t, t.node[j].key)
    BY <2>1, <1>u, <1>9, <1>5
  <2>3. u.node[t.node[j].next] = t.node[t.node[j].next]
    BY <2>2, <1>6
  <2> QED  BY <2>1, <2>2, <2>3
<1>15. \A x, y \in Used(u) : u.node[x].next = u.node[y].next /\ u.node[x].next # END => x = y
  BY <1>5, <1>6, Apart
<1>16. \A x, y \in Used(u) : u.node[x].key = u.node[y].key => x = y
  BY <1>5, <1>6, Apart
<1>17. \A j \in Used(u) : \A S \in SUBSET Used(u) :
         Main(u, u.node[j].key) \in S /\ Shut(u, S) => j \in S
  <2> SUFFICES ASSUME NEW j \in Used(u), NEW S \in SUBSET Used(u),
                      Main(t, t.node[j].key) \in S, Shut(u, S)
               PROVE  j \in S
    BY <1>1, <1>6
  <2>1. j \in Used(t) /\ S \in SUBSET Used(t)
    BY <1>5
  <2>2. \A x \in S : u.node[x] = t.node[x]
    BY <1>6
  <2>3. Shut(t, S)
    BY <2>2 DEF Shut
  <2> QED  BY <2>1, <2>3, ChainHolds
<1>18. u.capacity > 0
  BY Unpack
<1> QED  BY <1>5, <1>6, <1>7, <1>13, <1>14, <1>15, <1>16, <1>17, <1>18, Packed

\* A head with followers gives its slot to the next node.
LEMMA UnlinkedHead ==
  ASSUME NEW t, TableSound(t), NEW i \in Used(t), i = Main(t, t.node[i].key),
         NEW n, n = t.node[i].next, n # END,
         NEW u, TableTyped(u), u.capacity = t.capacity,
         u.node[i] = t.node[n], u.node[n] = ClearNode,
         \A j \in 0 .. t.capacity - 1 : j # i /\ j # n => u.node[j] = t.node[j]
  PROVE  /\ TableSound(u) /\ Used(u) = Used(t) \ {n} /\ n \in Used(t) /\ n # i
         /\ u.node[i].key = t.node[n].key
         /\ \A j \in Used(u) : j # i => u.node[j].key = t.node[j].key
<1>1. \A x : Main(u, x) = Main(t, x)
  BY DEF Main
<1>2. t.capacity \in Nat /\ Used(t) \subseteq 0 .. t.capacity - 1
  BY UsedIn DEF TableSound
<1>3. i # END
  BY <1>2 DEF END
<1>u. \A j \in Used(t) :
        /\ t.node[j].key \in Key /\ Main(t, t.node[j].key) \in Used(t)
        /\ Main(t, t.node[Main(t, t.node[j].key)].key) = Main(t, t.node[j].key)
        /\ t.node[j].next # EMPTY /\ t.node[j].next \in Used(t) \cup {END}
        /\ t.node[j].next # Main(t, t.node[j].key)
        /\ t.node[j].next # END =>
             Main(t, t.node[t.node[j].next].key) = Main(t, t.node[j].key)
  BY Unpack
<1>4. n \in Used(t) /\ n # i /\ Main(t, t.node[n].key) = i
  BY <1>u
<1>n. ClearNode.next = EMPTY
  BY DEF ClearNode
<1>5. Used(u) = Used(t) \ {n}
  <2>1. \A j \in 0 .. t.capacity - 1 : u.node[j].next # EMPTY <=> j \in Used(t) /\ j # n
    <3> SUFFICES ASSUME NEW j \in 0 .. t.capacity - 1
                 PROVE  u.node[j].next # EMPTY <=> j \in Used(t) /\ j # n
      OBVIOUS
    <3>1. CASE j = n
      BY <3>1, <1>n
    <3>2. CASE j = i
      <4>1. u.node[i].next # EMPTY
        <5>1. t.node[n].next # EMPTY
          BY <1>4 DEF Used
        <5> QED  BY <5>1
      <4> QED  BY <3>2, <4>1, <1>4
    <3>3. CASE j # i /\ j # n
      BY <3>3 DEF Used
    <3> QED  BY <3>1, <3>2, <3>3
  <2> QED  BY <2>1, <1>2 DEF Used
<1>6. /\ \A j \in Used(u) : j # i => u.node[j] = t.node[j]
      /\ u.node[i].key = t.node[n].key /\ u.node[i].next = t.node[n].next
  BY <1>2, <1>5
<1>7. \A j \in 0 .. u.capacity - 1 : j \notin Used(u) => u.node[j] = ClearNode
  BY <1>4, <1>5 DEF TableSound, LinksSound
<1>8. \A j \in Used(u) : Main(t, u.node[j].key) = Main(t, t.node[j].key)
  BY <1>4, <1>6
<1>9. \A x, y \in Used(t) : t.node[x].next = t.node[y].next /\ t.node[x].next # END => x = y
  BY Apart
<1>10. \A j \in Used(t) : j # i => t.node[j].next # n
  BY <1>9
<1>11. \A j \in Used(t) : Main(t, t.node[j].key) # n
  BY <1>4, <1>u
<1>12. \A j \in Used(t) : t.node[j].next # i
  <2> SUFFICES ASSUME NEW j \in Used(t), t.node[j].next = i
               PROVE  FALSE
    OBVIOUS
  <2>1. Main(t, t.node[i].key) = Main(t, t.node[j].key) /\ i # Main(t, t.node[j].key)
    BY <1>3, <1>u
  <2> QED  BY <2>1
<1>13. \A j \in Used(u) :
        /\ u.node[j].key \in Key
        /\ Main(u, u.node[j].key) \in Used(u)
        /\ Main(u, u.node[Main(u, u.node[j].key)].key) = Main(u, u.node[j].key)
  <2> SUFFICES ASSUME NEW j \in Used(u)
               PROVE  /\ u.node[j].key \in Key
                      /\ Main(t, u.node[j].key) \in Used(u)
                      /\ Main(t, u.node[Main(t, u.node[j].key)].key) = Main(t, u.node[j].key)
    BY <1>1
  <2>1. u.node[j].key \in Key
    BY <1>4, <1>5, <1>6, <1>u
  <2>2. Main(t, t.node[j].key) \in Used(u)
    BY <1>5, <1>11, <1>u
  <2>3. Main(t, u.node[Main(t, t.node[j].key)].key) = Main(t, t.node[j].key)
    BY <2>2, <1>5, <1>8, <1>u
  <2> QED  BY <2>1, <2>2, <2>3, <1>8
<1>14. \A j \in Used(u) : u.node[j].next # END =>
        /\ u.node[j].next \in Used(u)
        /\ u.node[j].next # Main(u, u.node[j].key)
        /\ Main(u, u.node[u.node[j].next].key) = Main(u, u.node[j].key)
  <2> SUFFICES ASSUME NEW j \in Used(u), u.node[j].next # END
               PROVE  /\ u.node[j].next \in Used(u)
                      /\ u.node[j].next # Main(t, u.node[j].key)
                      /\ Main(t, u.node[u.node[j].next].key) = Main(t, u.node[j].key)
    BY <1>1
  <2> DEFINE o == IF j = i THEN n ELSE j
  <2>1. o \in Used(t) /\ u.node[j].next = t.node[o].next /\ o # i
    BY <1>4, <1>5, <1>6
  <2>2. Main(t, t.node[o].key) = Main(t, t.node[j].key)
    BY <1>4
  <2> HIDE DEF o
  <2>3. /\ t.node[o].next \in Used(t) /\ t.node[o].next # n
        /\ t.node[o].next # Main(t, t.node[o].key)
        /\ Main(t, t.node[t.node[o].next].key) = Main(t, t.node[o].key)
    BY <2>1, <1>u, <1>10
  <2>4. t.node[o].next \in Used(u)
    BY <2>3, <1>5
  <2>5. Main(t, u.node[t.node[o].next].key) = Main(t, t.node[t.node[o].next].key)
    BY <2>4, <1>8
  <2>6. Main(t, u.node[j].key) = Main(t, t.node[j].key)
    BY <1>8
  <2> QED  BY <2>1, <2>2, <2>3, <2>4, <2>5, <2>6
<1>15. \A x, y \in Used(u) : u.node[x].next = u.node[y].next /\ u.node[x].next # END => x = y
  <2>1. \A x \in Used(u) : x # i => u.node[x].next = t.node[x].next
    BY <1>6
  <2> QED  BY <2>1, <1>4, <1>5, <1>6, <1>9
<1>16. \A x, y \in Used(u) : u.node[x].key = u.node[y].key => x = y
  <2>1. \A x, y \in Used(t) : t.node[x].key = t.node[y].key => x = y
    BY Apart
  <2>2. \A x \in Used(u) : x # i => u.node[x].key = t.node[x].key
    BY <1>6
  <2> QED  BY <2>1, <2>2, <1>4, <1>5, <1>6
<1>17. \A j \in Used(u) : \A S \in SUBSET Used(u) :
         Main(u, u.node[j].key) \in S /\ Shut(u, S) => j \in S
  <2> SUFFICES ASSUME NEW j \in Used(u), NEW S \in SUBSET Used(u),
                      Main(t, t.node[j].key) \in S, Shut(u, S)
               PROVE  j \in S
    BY <1>1, <1>8
  <2> DEFINE T == IF i \in S THEN S \cup {n} ELSE S
  <2>1. j \in Used(t) /\ j # n /\ T \in SUBSET Used(t) /\ Main(t, t.node[j].key) \in T
    BY <1>4, <1>5
  <2>2. \A x \in T : t.node[x].next \in T \cup {END}
    <3> SUFFICES ASSUME NEW x \in T
                 PROVE  t.node[x].next \in T \cup {END}
      OBVIOUS
    <3>1. \A y \in S : u.node[y].next \in S \cup {END}
      BY DEF Shut
    <3>2. CASE x = n
      <4>1. i \in S
        BY <3>2, <1>5
      <4> QED  BY <4>1, <3>1, <3>2, <1>6
    <3>3. CASE x = i
      <4>1. i \in S
        BY <3>3, <1>4
      <4> QED  BY <4>1, <3>3
    <3>4. CASE x # n /\ x # i
      <4>1. x \in S /\ x \in Used(u) /\ u.node[x] = t.node[x]
        BY <3>4, <1>6
      <4> QED  BY <4>1, <3>1
    <3> QED  BY <3>2, <3>3, <3>4
  <2>3. Shut(t, T)
    BY <2>2 DEF Shut
  <2> HIDE DEF T
  <2>4. j \in T
    BY <2>1, <2>3, ChainHolds
  <2> QED  BY <2>1, <2>4 DEF T
<1>18. u.capacity > 0
  BY Unpack
<1> QED  BY <1>4, <1>5, <1>6, <1>7, <1>13, <1>14, <1>15, <1>16, <1>17, <1>18, Packed

\* u lacks the key of node i of t.
OneKeyLess(t, u, i) ==
  /\ KeysIn(u, Used(u)) = KeysIn(t, Used(t)) \ {t.node[i].key}
  /\ Cardinality(Used(u)) = Cardinality(Used(t)) - 1

\* The keys and the number of the nodes when one was taken away.
LEMMA OneLess ==
  ASSUME NEW t, TableSound(t), NEW i \in Used(t), NEW u, NEW x \in Used(t),
         \A y : y \in Used(u) <=> y \in Used(t) /\ y # x,
         \A j \in Used(t) : j # i => \E y \in Used(u) : u.node[y].key = t.node[j].key,
         \A y \in Used(u) : \E j \in Used(t) : j # i /\ u.node[y].key = t.node[j].key
  PROVE  OneKeyLess(t, u, i)
<1> DEFINE T == Used(t)
<1>0. Used(u) = T \ {x}
  OBVIOUS
<1>1. IsFiniteSet(T) /\ x \in T /\ Used(u) = T \ {x}
  BY <1>0, UsedIn DEF TableSound
<1> HIDE DEF T
<1>2. Cardinality(T \ {x}) = Cardinality(T) - 1
  BY <1>1, FS_RemoveElement
<1>3. Cardinality(Used(u)) = Cardinality(Used(t)) - 1
  BY <1>1, <1>2 DEF T
<1>4. \A j \in Used(t) : j # i => t.node[j].key # t.node[i].key
  BY Apart
<1>5. KeysIn(u, Used(u)) \subseteq KeysIn(t, Used(t)) \ {t.node[i].key}
  BY <1>4 DEF KeysIn
<1>6. KeysIn(t, Used(t)) \ {t.node[i].key} \subseteq KeysIn(u, Used(u))
  BY DEF KeysIn
<1> QED  BY <1>3, <1>5, <1>6 DEF OneKeyLess

\* Remove takes one key and leaves the rest where it is found.
LEMMA Removed ==
  ASSUME NEW t, TableSound(t), NEW k, FindNodeIndex(t, k) # END
  PROVE  /\ TableSound(Unlinked(t, k)) /\ Unlinked(t, k).capacity = t.capacity
         /\ KeysIn(Unlinked(t, k), Used(Unlinked(t, k))) = KeysIn(t, Used(t)) \ {k}
         /\ Cardinality(Used(Unlinked(t, k))) = Cardinality(Used(t)) - 1
<1> DEFINE i == FindNodeIndex(t, k)
           n == t.node[i].next
           p == Previous(t, i)
           u == Unlinked(t, k)
           Slot0 == 0 .. t.capacity - 1
           Nodes0 == [key : Key \cup {NoKey}, next : Int]
<1>1. TableTyped(t) /\ i \in Used(t) /\ t.node[i].key = k
  BY FindFacts DEF TableSound
<1>2. t.capacity \in Nat /\ Used(t) \subseteq Slot0
  BY <1>1, UsedIn
<1>3. t.lastFree \in END .. t.capacity - 1 /\ t.node \in [Slot0 -> Nodes0]
  BY <1>1 DEF TableTyped
<1>4. t = [capacity |-> t.capacity, lastFree |-> t.lastFree, node |-> t.node]
  BY <1>1, TableForm
<1>5. ClearNode \in Nodes0
  BY DEF ClearNode, EMPTY
<1>6. t.node[i] \in Nodes0 /\ n \in Int /\ n \in Used(t) \cup {END}
  BY <1>1, <1>2, <1>3, Unpack
<1>c. ASSUME NEW node, [t EXCEPT !.node = node] = u, node \in [Slot0 -> Nodes0]
      PROVE  TableTyped(u) /\ u.capacity = t.capacity /\ u.node = node
  <2>1. u = [capacity |-> t.capacity, lastFree |-> t.lastFree, node |-> node]
    <3> HIDE DEF u
    <3> QED  BY <1>4, <1>c
  <2> HIDE DEF u
  <2> QED  BY <2>1, <1>1, <1>3, <1>c, StoredTyped
<1>7. CASE i # Main(t, k)
  <2> DEFINE node == [t.node EXCEPT ![p].next = n, ![i] = ClearNode]
  <2>1. p \in Used(t) /\ p # i /\ p \in Slot0 /\ i \in Slot0
    BY <1>1, <1>2, <1>7, PreviousFacts
  <2>2. u = [t EXCEPT !.node = node]
    BY <1>7 DEF Unlinked
  <2>3. t.node[p] \in Nodes0
    BY <2>1, <1>3
  <2>4. node \in [Slot0 -> Nodes0]
    <3> HIDE DEF n, i, p
    <3> QED  BY <1>3, <1>5, <1>6, <2>1, <2>3
  <2>5. /\ node[p] = [key |-> t.node[p].key, next |-> n] /\ node[i] = ClearNode
        /\ \A j \in Slot0 : j # i /\ j # p => node[j] = t.node[j]
    <3> HIDE DEF n, i, p
    <3> QED  BY <1>3, <2>1, <2>3
  <2> HIDE DEF u, node
  <2>6. TableTyped(u) /\ u.capacity = t.capacity /\ u.node = node
    BY <1>c, <2>2, <2>4
  <2>7. /\ TableSound(u) /\ Used(u) = Used(t) \ {i}
        /\ \A j \in Used(u) : u.node[j].key = t.node[j].key
    <3>1. n = t.node[i].next /\ p = Previous(t, i) /\ i # Main(t, t.node[i].key)
      BY <1>1, <1>7
    <3>2. /\ u.node[p] = [key |-> t.node[p].key, next |-> t.node[i].next]
          /\ u.node[i] = ClearNode
          /\ \A j \in 0 .. t.capacity - 1 : j # i /\ j # p => u.node[j] = t.node[j]
      BY <2>5, <2>6
    <3> HIDE DEF i, p, n
    <3> QED  BY <1>1, <2>6, <3>1, <3>2, UnlinkedInside
  <2>8. /\ KeysIn(u, Used(u)) = KeysIn(t, Used(t)) \ {t.node[i].key}
        /\ Cardinality(Used(u)) = Cardinality(Used(t)) - 1
    <3> HIDE DEF i
    <3>1. \A j \in Used(t) : j # i => \E y \in Used(u) : u.node[y].key = t.node[j].key
      BY <2>7
    <3>2. \A y \in Used(u) : \E j \in Used(t) : j # i /\ u.node[y].key = t.node[j].key
      BY <2>7
    <3>3. \A y : y \in Used(u) <=> y \in Used(t) /\ y # i
      BY <2>7
    <3>4. OneKeyLess(t, u, i)
      BY <1>1, <2>7, <3>1, <3>2, <3>3, OneLess
    <3> QED  BY <3>4 DEF OneKeyLess
  <2> QED  BY <1>1, <2>6, <2>7, <2>8 DEF u
<1>8. CASE i = Main(t, k) /\ n = END
  <2> DEFINE node == [t.node EXCEPT ![i] = ClearNode]
  <2>2. u = [t EXCEPT !.node = node]
    <3>1. u = [t EXCEPT !.node[i] = ClearNode]
      BY <1>8 DEF Unlinked
    <3> HIDE DEF u, i
    <3>2. [t EXCEPT !.node[i] = ClearNode] = [t EXCEPT !.node = [t.node EXCEPT ![i] = ClearNode]]
      BY <1>4
    <3> QED  BY <3>1, <3>2
  <2>4. /\ node \in [Slot0 -> Nodes0] /\ node[i] = ClearNode
        /\ \A j \in Slot0 : j # i => node[j] = t.node[j]
    BY <1>1, <1>2, <1>3, <1>5
  <2> HIDE DEF u, node
  <2>6. TableTyped(u) /\ u.capacity = t.capacity /\ u.node = node
    BY <1>c, <2>2, <2>4
  <2>7. /\ TableSound(u) /\ Used(u) = Used(t) \ {i}
        /\ \A j \in Used(u) : u.node[j].key = t.node[j].key
    <3>1. t.node[i].next = END /\ i = Main(t, t.node[i].key)
      BY <1>1, <1>8
    <3>2. /\ u.node[i] = ClearNode
          /\ \A j \in 0 .. t.capacity - 1 : j # i => u.node[j] = t.node[j]
      BY <2>4, <2>6
    <3> HIDE DEF i, n
    <3> QED  BY <1>1, <2>6, <3>1, <3>2, UnlinkedAlone
  <2>8. /\ KeysIn(u, Used(u)) = KeysIn(t, Used(t)) \ {t.node[i].key}
        /\ Cardinality(Used(u)) = Cardinality(Used(t)) - 1
    <3> HIDE DEF i
    <3>1. \A j \in Used(t) : j # i => \E y \in Used(u) : u.node[y].key = t.node[j].key
      BY <2>7
    <3>2. \A y \in Used(u) : \E j \in Used(t) : j # i /\ u.node[y].key = t.node[j].key
      BY <2>7
    <3>3. \A y : y \in Used(u) <=> y \in Used(t) /\ y # i
      BY <2>7
    <3>4. OneKeyLess(t, u, i)
      BY <1>1, <2>7, <3>1, <3>2, <3>3, OneLess
    <3> QED  BY <3>4 DEF OneKeyLess
  <2> QED  BY <1>1, <2>6, <2>7, <2>8 DEF u
<1>9. CASE i = Main(t, k) /\ n # END
  <2> DEFINE node == [t.node EXCEPT ![i] = t.node[n], ![n] = ClearNode]
  <2>2. u = [t EXCEPT !.node = node]
    BY <1>9 DEF Unlinked
  <2>3. i \in Slot0 /\ n \in Slot0 /\ n # i /\ t.node[n] \in Nodes0
    <3>1. n # i
      <4>1. t.node[i].next # Main(t, t.node[i].key)
        BY <1>1, Unpack
      <4> QED  BY <4>1, <1>1, <1>9
    <3> QED  BY <3>1, <1>1, <1>2, <1>3, <1>6, <1>9
  <2>4. /\ node \in [Slot0 -> Nodes0] /\ node[i] = t.node[n] /\ node[n] = ClearNode
        /\ \A j \in Slot0 : j # i /\ j # n => node[j] = t.node[j]
    <3> HIDE DEF i, n
    <3> QED  BY <1>3, <1>5, <2>3
  <2> HIDE DEF u, node
  <2>6. TableTyped(u) /\ u.capacity = t.capacity /\ u.node = node
    BY <1>c, <2>2, <2>4
  <2>7. /\ TableSound(u) /\ Used(u) = Used(t) \ {n} /\ n \in Used(t) /\ n # i
        /\ u.node[i].key = t.node[n].key
        /\ \A j \in Used(u) : j # i => u.node[j].key = t.node[j].key
    <3>1. n = t.node[i].next /\ n # END /\ i = Main(t, t.node[i].key)
      BY <1>1, <1>9
    <3>2. /\ u.node[i] = t.node[n] /\ u.node[n] = ClearNode
          /\ \A j \in 0 .. t.capacity - 1 : j # i /\ j # n => u.node[j] = t.node[j]
      BY <2>4, <2>6
    <3> HIDE DEF i, n
    <3> QED  BY <1>1, <2>6, <3>1, <3>2, UnlinkedHead
  <2>8. /\ KeysIn(u, Used(u)) = KeysIn(t, Used(t)) \ {t.node[i].key}
        /\ Cardinality(Used(u)) = Cardinality(Used(t)) - 1
    <3> HIDE DEF i, n
    <3>1. \A j \in Used(t) : j # i => \E y \in Used(u) : u.node[y].key = t.node[j].key
      BY <1>1, <2>7
    <3>2. \A y \in Used(u) : \E j \in Used(t) : j # i /\ u.node[y].key = t.node[j].key
      BY <2>7
    <3>3. \A y : y \in Used(u) <=> y \in Used(t) /\ y # n
      BY <2>7
    <3>4. OneKeyLess(t, u, i)
      BY <1>1, <2>7, <3>1, <3>2, <3>3, OneLess
    <3> QED  BY <3>4 DEF OneKeyLess
  <2> QED  BY <1>1, <2>6, <2>7, <2>8 DEF u
<1> QED  BY <1>7, <1>8, <1>9

-----------------------------------------------------------------------------
(* The steps.  Sound is ChainsSound of any values of the variables.        *)

Loops == [phase : {"done", "on", "failed", "broken"}, at : END .. MaxCapacity, moved : BOOLEAN]
RestOf(t, c) == {i \in Used(t) : i >= c.from}
NoHole(t) == \A i \in 0 .. t.capacity - 1 : i > t.lastFree => i \in Used(t)

CallTyped(c) ==
  c \in [op : {"none", "load", "again", "reserve"}, key : Key \cup {NoKey}, to : {c.to}, from : Nat]

CallSound(t, n, c) ==
  /\ CallTyped(c)
  /\ c.op # "none" =>
       /\ TableSound(c.to)
       /\ c.to.capacity >= 2 /\ c.to.capacity >= t.capacity
       /\ KeysIn(c.to, Used(c.to)) = KeysIn(t, Used(t) \ RestOf(t, c))
       /\ Cardinality(Used(c.to)) = Cardinality(Used(t) \ RestOf(t, c))
       /\ NoHole(c.to)
       /\ c.op # "reserve" =>
            /\ c.key \in Key \ KeysIn(t, Used(t))
            /\ (n + 1) * 4 <= c.to.capacity * 3

Sound(t, n, l, c) ==
  /\ TableSound(t) /\ n = Cardinality(Used(t)) /\ n * 4 <= t.capacity * 3
  /\ l \in Loops
  /\ CallSound(t, n, c)

\* The invariant as one statement about the four variables.
LEMMA ChainsSoundIs ==
  ChainsSound <=> Sound(table, items, loop, call)
BY DEF ChainsSound, ReMapSound, Idle, Rest, Sound, Loops, CallSound, CallTyped, RestOf, NoHole

\* The same for the next state.
LEMMA ChainsSoundThen ==
  ChainsSound' <=> Sound(table', items', loop', call')
BY DEF ChainsSound, ReMapSound, Idle, Rest, Sound, Loops, CallSound, CallTyped, RestOf, NoHole

\* A table without a free slot has as many nodes as slots.
LEMMA FullTable ==
  ASSUME NEW t, TableTyped(t), \A i \in 0 .. t.capacity - 1 : i \in Used(t)
  PROVE  Cardinality(Used(t)) = t.capacity
<1>1. t.capacity \in Nat /\ Used(t) = 0 .. t.capacity - 1
  BY UsedIn
<1>2. 0 \in Int /\ t.capacity - 1 \in Int
  BY <1>1
<1>3. Cardinality(0 .. t.capacity - 1) = IF 0 > t.capacity - 1 THEN 0 ELSE (t.capacity - 1) - 0 + 1
  BY <1>2, FS_Interval
<1> QED  BY <1>1, <1>3

\* An exhausted table without a hole has as many nodes as slots.
LEMMA ExhaustedFull ==
  ASSUME NEW t, TableSound(t), NoHole(t), NEW slot, Exhausted(t, slot)
  PROVE  Cardinality(Used(t)) = t.capacity
<1>1. TableTyped(t) /\ t.capacity \in Nat /\ t.lastFree \in END .. t.capacity - 1
  BY UsedIn DEF TableSound, TableTyped
<1>2. t.lastFree \in Int
  BY <1>1 DEF END
<1>3. \A i \in 0 .. t.capacity - 1 : i \in Used(t)
  BY <1>2 DEF NoHole, Exhausted
<1> QED  BY <1>1, <1>3, FullTable

\* The cursor is no part of the links.
LEMMA CursorMoved ==
  ASSUME NEW t, TableSound(t), NEW u, u = [t EXCEPT !.lastFree = END]
  PROVE  /\ TableSound(u) /\ u.capacity = t.capacity
         /\ Used(u) = Used(t) /\ \A S : KeysIn(u, S) = KeysIn(t, S)
<1>1. TableTyped(t) /\ t = [capacity |-> t.capacity, lastFree |-> t.lastFree, node |-> t.node]
  BY TableForm DEF TableSound
<1>2. u = [capacity |-> t.capacity, lastFree |-> END, node |-> t.node]
  BY <1>1
<1>3. END \in END .. t.capacity - 1
  BY <1>1, UsedIn DEF END
<1>4. t.node \in [0 .. t.capacity - 1 -> [key : Key \cup {NoKey}, next : Int]]
  BY <1>1 DEF TableTyped
<1>5. TableTyped(u) /\ u.capacity = t.capacity /\ u.node = t.node
  BY <1>1, <1>2, <1>3, <1>4, StoredTyped
<1>6. Used(u) = Used(t) /\ \A k : Main(u, k) = Main(t, k)
  BY <1>5 DEF Used, Main
<1>7. \A S : Shut(u, S) <=> Shut(t, S)
  BY <1>5 DEF Shut
<1>8. \A k : Chain(u, k) = Chain(t, k)
  BY <1>5, <1>6, <1>7 DEF Chain
<1>9. LinksSound(u) /\ KeysSound(u)
  BY <1>5, <1>6, <1>8 DEF TableSound, LinksSound, KeysSound
<1>10. \A S : KeysIn(u, S) = KeysIn(t, S)
  BY <1>5 DEF KeysIn
<1> QED  BY <1>5, <1>6, <1>9, <1>10 DEF TableSound

\* A rebuild starts with nothing copied and the cursor at the top.
LEMMA ReMapStarts ==
  ASSUME NEW t, TableSound(t), NEW n, NEW k \in Key \cup {NoKey},
         NEW op \in {"load", "again", "reserve"},
         NEW c \in 2 .. MaxCapacity, c >= t.capacity,
         op # "reserve" => k \in Key \ KeysIn(t, Used(t)) /\ (n + 1) * 4 <= c * 3
  PROVE  CallSound(t, n, ReMap(op, k, c))
<1> DEFINE r == ReMap(op, k, c)
<1>1. MaxCapacity \in Nat /\ c \in 0 .. MaxCapacity /\ c >= 2
  BY HashTableAssumption
<1>2. r.op = op /\ r.key = k /\ r.to = NewTable(c) /\ r.from = 0
  BY DEF ReMap
<1>3. CallTyped(r)
  BY DEF ReMap, CallTyped
<1>4. /\ TableSound(r.to) /\ r.to.capacity = c /\ Used(r.to) = {}
      /\ KeysIn(r.to, Used(r.to)) = {} /\ r.to.lastFree = c - 1
  BY <1>1, <1>2, NewTableSound
<1>5. Used(t) \subseteq 0 .. t.capacity - 1 /\ t.capacity \in Nat
  BY UsedIn DEF TableSound
<1>6. Used(t) \ RestOf(t, r) = {}
  BY <1>2, <1>5 DEF RestOf
<1>7. KeysIn(t, {}) = {} /\ Cardinality({}) = 0
  BY FS_EmptySet DEF KeysIn
<1>8. NoHole(r.to)
  BY <1>1, <1>4 DEF NoHole
<1> HIDE DEF r
<1>9. Cardinality(Used(r.to)) = Cardinality(Used(t) \ RestOf(t, r))
  BY <1>4, <1>6
<1>10. KeysIn(r.to, Used(r.to)) = KeysIn(t, Used(t) \ RestOf(t, r))
  BY <1>4, <1>6, <1>7
<1>11. CallSound(t, n, r)
  BY <1>1, <1>2, <1>3, <1>4, <1>8, <1>9, <1>10 DEF CallSound
<1> QED  BY <1>11 DEF r

\* No call: nothing is asked of the array that a rebuild fills.
LEMMA NoCallSound ==
  ASSUME NEW t, NEW n
  PROVE  CallSound(t, n, NoCall) /\ NoCall.op = "none"
<1>1. CallTyped(NoCall) /\ NoCall.op = "none"
  BY DEF CallTyped, NoCall
<1> QED  BY <1>1 DEF CallSound

\* A change keeps the loop a loop.
LEMMA BumpedTyped ==
  ASSUME loop \in Loops
  PROVE  Bumped \in Loops
BY DEF Loops, Bumped

\* Put into a table with room: the key goes in, or a rebuild for it starts.
\* A table that was rebuilt for it has a slot.
LEMMA PutSound ==
  ASSUME NEW t, TableSound(t), NEW k \in Key, k \notin KeysIn(t, Used(t)),
         items = Cardinality(Used(t)), (items + 1) * 4 <= t.capacity * 3,
         loop \in Loops, NEW op \in {"load", "again"}, op = "again" => NoHole(t),
         Put(t, k, op)
  PROVE  /\ Sound(table', items', loop', call')
         /\ \/ /\ KeysIn(table', Used(table')) = KeysIn(t, Used(t)) \cup {k}
               /\ items' = items + 1 /\ loop' = Bumped /\ call' = NoCall
            \/ /\ KeysIn(table', Used(table')) = KeysIn(t, Used(t))
               /\ \A S : KeysIn(table', S) = KeysIn(t, S)
               /\ Used(table') = Used(t)
               /\ op = "load" /\ items' = items /\ call'.op = "again" /\ call'.key = k
               /\ loop' = IF Idle THEN loop ELSE Bumped
<1> DEFINE slot == InsertNewNode(t, k)
<1>1. /\ items \in Nat /\ t.capacity \in Nat /\ t.capacity >= 2 /\ t.capacity <= MaxCapacity
      /\ TableTyped(t) /\ MaxCapacity \in Nat
  <2>1. Cardinality(Used(t)) \in Nat /\ t.capacity \in Nat /\ TableTyped(t)
    BY UsedIn DEF TableSound
  <2> QED  BY <2>1, HashTableAssumption DEF TableTyped
<1>2. \/ Exhausted(t, slot)
      \/ slot.at # END /\ Placement(t, k, Filled(slot, k))
  BY <1>1, PlacedFacts
<1>b. Bumped \in Loops
  BY BumpedTyped
<1>3. CASE slot.at # END /\ Placement(t, k, Filled(slot, k))
  <2>1. table' = Filled(slot, k) /\ items' = items + 1 /\ loop' = Bumped /\ call' = NoCall
    BY <1>3 DEF Put
  <2>2. /\ TableSound(table') /\ table'.capacity = t.capacity
        /\ KeysIn(table', Used(table')) = KeysIn(t, Used(t)) \cup {k}
        /\ Cardinality(Used(table')) = items + 1
    BY <1>3, <2>1 DEF Placement
  <2>3. CallSound(table', items', call')
    BY <2>1, NoCallSound
  <2>4. Sound(table', items', loop', call')
    BY <1>1, <1>b, <2>1, <2>2, <2>3 DEF Sound
  <2> QED  BY <2>1, <2>2, <2>4
<1>4. CASE Exhausted(t, slot)
  <2>1. slot.at = END /\ slot.table = [t EXCEPT !.lastFree = END]
    BY <1>4 DEF Exhausted
  <2>2. op = "load"
    <3> SUFFICES ASSUME op = "again"
                 PROVE  FALSE
      OBVIOUS
    <3>1. Cardinality(Used(t)) = t.capacity
      BY <1>4, ExhaustedFull
    <3> QED  BY <3>1, <1>1
  <2>3. ~(items + 1 >= t.capacity)
    BY <1>1
  <2>4. /\ table' = slot.table
        /\ loop' = IF Idle THEN loop ELSE Bumped
        /\ call' = ReMap("again", k, t.capacity)
        /\ items' = items
    BY <2>1, <2>2, <2>3 DEF Put
  <2>5. /\ TableSound(table') /\ table'.capacity = t.capacity
        /\ Used(table') = Used(t) /\ \A S : KeysIn(table', S) = KeysIn(t, S)
    BY <2>1, <2>4, CursorMoved
  <2>6. CallSound(table', items', call')
    <3>1. t.capacity \in 2 .. MaxCapacity /\ t.capacity >= table'.capacity
      BY <1>1, <2>5
    <3>2. k \in Key \ KeysIn(table', Used(table')) /\ (items' + 1) * 4 <= t.capacity * 3
      BY <2>4, <2>5
    <3> QED  BY <2>4, <2>5, <3>1, <3>2, ReMapStarts
  <2>7. loop' \in Loops
    BY <2>4, <1>b
  <2>8. items' * 4 <= table'.capacity * 3
    BY <1>1, <2>4, <2>5
  <2>9. Sound(table', items', loop', call')
    BY <2>4, <2>5, <2>6, <2>7, <2>8 DEF Sound
  <2>10. call'.op = "again" /\ call'.key = k
    BY <2>4 DEF ReMap
  <2> QED  BY <2>2, <2>4, <2>5, <2>9, <2>10
<1> QED  BY <1>2, <1>3, <1>4

\* What Tight says: room for one more, or a larger array that has it.
LEMMA InsertSound ==
  ASSUME Sound(table, items, loop, call), NEW k \in Key, Insert(k)
  PROVE  /\ Sound(table', items', loop', call')
         /\ k \notin KeysIn(table, Used(table))
         /\ \/ /\ KeysIn(table', Used(table')) = KeysIn(table, Used(table)) \cup {k}
               /\ loop' = Bumped /\ call' = NoCall
            \/ /\ \A S : KeysIn(table', S) = KeysIn(table, S)
               /\ Used(table') = Used(table)
               /\ loop' = loop /\ call'.op \in {"load", "again"} /\ call'.key = k
<1>1. /\ TableSound(table) /\ items = Cardinality(Used(table)) /\ loop \in Loops
      /\ items * 4 <= table.capacity * 3
  BY DEF Sound
<1>2. k \notin KeysIn(table, Used(table))
  BY <1>1, FindFacts DEF Insert
<1>3. /\ items \in Nat /\ table.capacity \in Nat /\ table.capacity <= MaxCapacity
      /\ MaxCapacity \in Nat /\ MaxCapacity >= 2
  <2>1. Cardinality(Used(table)) \in Nat /\ table.capacity \in Nat /\ TableTyped(table)
    BY <1>1, UsedIn DEF TableSound
  <2>2. MaxCapacity \in 2 .. MaxCapacity
    BY HashTableAssumption DEF Capacities
  <2> QED  BY <1>1, <2>1, <2>2, HashTableAssumption DEF TableTyped
<1>4. Idle
  BY DEF Insert
<1>5. CASE Tight
  <2> DEFINE c == GrowHashCapacity(table.capacity)
  <2>1. call' = ReMap("load", k, c) /\ UNCHANGED <<table, items, loop>>
    BY <1>5 DEF Insert
  <2>2. table.capacity <= MaxCapacity \div 2
    BY <1>5 DEF Insert, CanGrow
  <2>3. c \in 2 .. MaxCapacity /\ c >= table.capacity /\ (items + 1) * 4 <= c * 3
    <3>1. CASE table.capacity = 0
      BY <3>1, <1>1, <1>3 DEF GrowHashCapacity
    <3>2. CASE table.capacity > 0
      <4>1. c = 2 * table.capacity
        BY <3>2, <1>3 DEF GrowHashCapacity
      <4>2. 2 * table.capacity <= MaxCapacity
        BY <2>2, <1>3
      <4>3. items * 4 <= table.capacity * 3 /\ table.capacity >= 1
        BY <1>1, <1>3, <3>2
      <4>4. CASE table.capacity >= 2
        BY <4>1, <4>2, <4>3, <4>4, <1>3
      <4>5. CASE table.capacity = 1
        BY <4>1, <4>2, <4>3, <4>5, <1>3
      <4> QED  BY <4>3, <4>4, <4>5, <1>3
    <3> QED  BY <3>1, <3>2, <1>3
  <2> HIDE DEF c
  <2>4. CallSound(table', items', call')
    BY <2>1, <2>3, <1>1, <1>2, ReMapStarts
  <2>5. Sound(table', items', loop', call')
    BY <2>1, <2>4, <1>1 DEF Sound
  <2>6. call'.op = "load" /\ call'.key = k
    BY <2>1 DEF ReMap
  <2> QED  BY <2>1, <2>5, <2>6, <1>2
<1>6. CASE ~Tight
  <2>1. Put(table, k, "load")
    BY <1>6 DEF Insert
  <2>2. (items + 1) * 4 <= table.capacity * 3
    BY <1>6, <1>3 DEF Tight
  <2> QED  BY <2>1, <2>2, <1>1, <1>2, <1>4, PutSound
<1> QED  BY <1>5, <1>6

\* One node more is copied: the new array has the room that the old one has.
LEMMA TransferSound ==
  ASSUME Sound(table, items, loop, call), Transfer
  PROVE  /\ Sound(table', items', loop', call')
         /\ call'.op = call.op /\ call'.key = call.key /\ call'.to.capacity = call.to.capacity
         /\ call.op # "none" /\ UNCHANGED <<table, items, loop>>
<1>1. /\ TableSound(table) /\ items = Cardinality(Used(table)) /\ loop \in Loops
      /\ items * 4 <= table.capacity * 3 /\ CallSound(table, items, call)
  BY DEF Sound
<1>2. PICK i \in Rest :
        /\ \A j \in Rest : i <= j
        /\ call' = IF InsertNewNode(call.to, table.node[i].key).at = END THEN NoCall
                   ELSE [call EXCEPT !.to = Filled(InsertNewNode(call.to, table.node[i].key),
                                                   table.node[i].key), !.from = i + 1]
  BY DEF Transfer
<1>3. UNCHANGED <<table, items, loop>> /\ call.op # "none"
  BY DEF Transfer, Idle
<1> DEFINE k    == table.node[i].key
           t    == call.to
           done == Used(table) \ Rest
<1>4. /\ TableSound(t) /\ t.capacity >= 2 /\ t.capacity >= table.capacity
      /\ KeysIn(t, Used(t)) = KeysIn(table, done)
      /\ Cardinality(Used(t)) = Cardinality(done)
      /\ NoHole(t)
      /\ call.op # "reserve" =>
            /\ call.key \in Key \ KeysIn(table, Used(table))
            /\ (items + 1) * 4 <= t.capacity * 3
  BY <1>1, <1>3 DEF CallSound, Rest, RestOf
<1>5. /\ Used(table) \subseteq 0 .. table.capacity - 1 /\ IsFiniteSet(Used(table))
      /\ table.capacity \in Nat /\ t.capacity \in Nat
  BY <1>1, <1>4, UsedIn DEF TableSound
<1>6. i \in Used(table) /\ i \notin done /\ i \in Nat
  BY <1>5 DEF Rest
<1>7. k \in Key /\ k \notin KeysIn(t, Used(t))
  <2>1. k \in Key
    BY <1>1, <1>6, Unpack
  <2>2. \A j \in Used(table) : table.node[j].key = k => j = i
    BY <1>1, <1>6, Apart
  <2>3. k \notin KeysIn(table, done)
    BY <2>2, <1>6 DEF KeysIn
  <2> QED  BY <2>1, <2>3, <1>4
<1>8. /\ IsFiniteSet(done) /\ Cardinality(done) \in Nat
      /\ Cardinality(done \cup {i}) = Cardinality(done) + 1
      /\ Cardinality(done) < table.capacity
  <2>1. IsFiniteSet(done) /\ Cardinality(done) \in Nat
    BY <1>5, FS_Subset, FS_CardinalityType
  <2>2. Cardinality(done \cup {i}) = Cardinality(done) + 1
    <3> HIDE DEF done
    <3> QED  BY <2>1, <1>6, FS_AddElement
  <2>3. Cardinality(done \cup {i}) <= Cardinality(Used(table))
    <3>1. done \cup {i} \subseteq Used(table)
      BY <1>6
    <3> HIDE DEF done
    <3> QED  BY <3>1, <1>5, FS_Subset
  <2>4. Cardinality(Used(table)) <= table.capacity /\ Cardinality(Used(table)) \in Nat
    BY <1>1, UsedIn DEF TableSound
  <2>5. Cardinality(done \cup {i}) \in Nat
    BY <2>1, <2>2
  <2> HIDE DEF done
  <2> QED  BY <2>1, <2>2, <2>3, <2>4, <2>5, <1>5
<1> DEFINE slot == InsertNewNode(t, k)
           u    == Filled(slot, k)
<1>9. slot.at # END /\ Placement(t, k, u)
  <2>1. \/ Exhausted(t, slot)
        \/ slot.at # END /\ Placement(t, k, u)
    <3> HIDE DEF k, t
    <3> QED  BY <1>4, <1>5, <1>7, PlacedFacts
  <2>2. ~Exhausted(t, slot)
    <3> SUFFICES ASSUME Exhausted(t, slot)
                 PROVE  FALSE
      OBVIOUS
    <3> HIDE DEF k, t, done, slot
    <3>1. Cardinality(Used(t)) = t.capacity
      BY <1>4, ExhaustedFull
    <3> QED  BY <3>1, <1>4, <1>5, <1>8
  <2> QED  BY <2>1, <2>2
<1>10. call' = [call EXCEPT !.to = u, !.from = i + 1]
  BY <1>2, <1>9
<1>11. CallTyped(call)
  BY <1>1 DEF CallSound
<1>12. /\ call'.op = call.op /\ call'.key = call.key /\ call'.to = u /\ call'.from = i + 1
       /\ CallTyped(call')
  <2> HIDE DEF u
  <2>1. /\ call = [op |-> call.op, key |-> call.key, to |-> call.to, from |-> call.from]
        /\ call.op \in {"none", "load", "again", "reserve"} /\ call.key \in Key \cup {NoKey}
    BY <1>11 DEF CallTyped
  <2>2. call' = [op |-> call.op, key |-> call.key, to |-> u, from |-> i + 1]
    BY <1>10, <2>1
  <2>3. /\ call'.op = call.op /\ call'.key = call.key /\ call'.to = u /\ call'.from = i + 1
    BY <2>2
  <2>4. CallTyped(call')
    BY <1>6, <2>1, <2>2 DEF CallTyped
  <2> QED  BY <2>3, <2>4
<1>13. Used(table) \ RestOf(table, call') = done \cup {i}
  <2>1. call.from \in Nat
    BY <1>11 DEF CallTyped
  <2>2. \A j \in Used(table) : j \in Nat
    BY <1>5
  <2> QED  BY <2>1, <2>2, <1>2, <1>6, <1>12 DEF RestOf, Rest
<1>14. KeysIn(table, done \cup {i}) = KeysIn(table, done) \cup {k}
  BY DEF KeysIn
<1>15. /\ TableSound(u) /\ u.capacity = t.capacity
       /\ KeysIn(u, Used(u)) = KeysIn(table, done) \cup {k}
       /\ Cardinality(Used(u)) = Cardinality(done) + 1 /\ NoHole(u)
  BY <1>4, <1>9 DEF Placement, NoHole
<1> HIDE DEF u, t, done, k, slot
<1>16. CallSound(table, items, call')
  BY <1>3, <1>4, <1>8, <1>12, <1>13, <1>14, <1>15 DEF CallSound
<1>17. Sound(table', items', loop', call')
  BY <1>1, <1>3, <1>16 DEF Sound
<1>18. call'.to.capacity = call.to.capacity
  BY <1>12, <1>15 DEF t
<1> QED  BY <1>3, <1>12, <1>17, <1>18

\* The new array takes the old one's place with all its keys.
LEMMA EndReMapSound ==
  ASSUME Sound(table, items, loop, call), EndReMap
  PROVE  /\ Sound(table', items', loop', call')
         /\ loop' = Bumped
         /\ \/ /\ call.op = "reserve" /\ call' = NoCall
               /\ table' = call.to
               /\ KeysIn(table', Used(table')) = KeysIn(table, Used(table))
            \/ /\ call.op # "reserve" /\ call' = NoCall
               /\ call.key \in Key \ KeysIn(table, Used(table))
               /\ KeysIn(table', Used(table')) = KeysIn(table, Used(table)) \cup {call.key}
            \/ /\ call.op # "reserve" /\ call'.op = "again" /\ call'.key = call.key
               /\ KeysIn(table', Used(table')) = KeysIn(table, Used(table))
<1>1. /\ TableSound(table) /\ items = Cardinality(Used(table)) /\ loop \in Loops
      /\ items * 4 <= table.capacity * 3 /\ CallSound(table, items, call)
  BY DEF Sound
<1>2. call.op # "none" /\ Rest = {}
  BY DEF EndReMap, Idle
<1>3. Used(table) \ RestOf(table, call) = Used(table)
  BY <1>2 DEF Rest, RestOf
<1>4. /\ TableSound(call.to) /\ call.to.capacity >= 2 /\ call.to.capacity >= table.capacity
      /\ KeysIn(call.to, Used(call.to)) = KeysIn(table, Used(table))
      /\ Cardinality(Used(call.to)) = Cardinality(Used(table))
      /\ NoHole(call.to)
      /\ call.op # "reserve" =>
            /\ call.key \in Key \ KeysIn(table, Used(table))
            /\ (items + 1) * 4 <= call.to.capacity * 3
  BY <1>1, <1>2, <1>3 DEF CallSound
<1>5. CASE call.op = "reserve"
  <2>1. table' = call.to /\ call' = NoCall /\ loop' = Bumped /\ items' = items
    BY <1>5 DEF EndReMap
  <2>2. items' * 4 <= table'.capacity * 3
    <3>1. items \in Nat /\ table.capacity \in Nat /\ call.to.capacity \in Nat
      BY <1>1, <1>4, UsedIn DEF TableSound
    <3> QED  BY <3>1, <1>1, <1>4, <2>1
  <2>3. CallSound(table', items', call')
    BY <2>1, NoCallSound
  <2>4. loop' \in Loops
    BY <1>1, <2>1, BumpedTyped
  <2>5. Sound(table', items', loop', call')
    BY <1>1, <1>4, <2>1, <2>2, <2>3, <2>4 DEF Sound
  <2> QED  BY <1>4, <1>5, <2>1, <2>5
<1>6. CASE call.op # "reserve"
  <2>1. Put(call.to, call.key, call.op)
    BY <1>6 DEF EndReMap
  <2>2. call.op \in {"load", "again"}
    BY <1>1, <1>2, <1>6 DEF CallSound, CallTyped
  <2>3. /\ call.key \in Key /\ call.key \notin KeysIn(call.to, Used(call.to))
        /\ items = Cardinality(Used(call.to))
    BY <1>1, <1>4, <1>6
  <2> DEFINE t == call.to
             k == call.key
             op == call.op
  <2>4. /\ TableSound(t) /\ k \in Key /\ k \notin KeysIn(t, Used(t))
        /\ items = Cardinality(Used(t)) /\ (items + 1) * 4 <= t.capacity * 3
        /\ op \in {"load", "again"} /\ NoHole(t) /\ Put(t, k, op)
    BY <1>4, <1>6, <2>1, <2>2, <2>3
  <2> HIDE DEF t, k, op
  <2>5. /\ Sound(table', items', loop', call')
        /\ \/ /\ KeysIn(table', Used(table')) = KeysIn(t, Used(t)) \cup {k}
              /\ items' = items + 1 /\ loop' = Bumped /\ call' = NoCall
           \/ /\ KeysIn(table', Used(table')) = KeysIn(t, Used(t))
              /\ \A S : KeysIn(table', S) = KeysIn(t, S)
              /\ Used(table') = Used(t)
              /\ op = "load" /\ items' = items /\ call'.op = "again" /\ call'.key = k
              /\ loop' = IF Idle THEN loop ELSE Bumped
    BY <2>4, <1>1, PutSound
  <2>6. loop' = Bumped
    BY <2>5, <1>2 DEF Idle
  <2>7. KeysIn(t, Used(t)) = KeysIn(table, Used(table))
    BY <1>4 DEF t
  <2>8. \/ /\ KeysIn(table', Used(table')) = KeysIn(table, Used(table)) \cup {call.key}
           /\ call' = NoCall
        \/ /\ KeysIn(table', Used(table')) = KeysIn(table, Used(table))
           /\ call'.op = "again" /\ call'.key = call.key
    BY <2>5, <2>7 DEF k
  <2> QED  BY <1>4, <1>6, <2>5, <2>6, <2>8
<1> QED  BY <1>5, <1>6

\* Remove keeps the invariant.
LEMMA RemoveSound ==
  ASSUME Sound(table, items, loop, call), NEW k \in Key, RemoveKey(k)
  PROVE  /\ Sound(table', items', loop', call')
         /\ k \in KeysIn(table, Used(table))
         /\ KeysIn(table', Used(table')) = KeysIn(table, Used(table)) \ {k}
         /\ loop' = Bumped /\ call' = call /\ call.op = "none"
<1>1. /\ TableSound(table) /\ items = Cardinality(Used(table)) /\ loop \in Loops
      /\ items * 4 <= table.capacity * 3 /\ CallSound(table, items, call)
  BY DEF Sound
<1>2. /\ FindNodeIndex(table, k) # END /\ call.op = "none"
      /\ table' = Unlinked(table, k) /\ items' = items - 1 /\ loop' = Bumped /\ call' = call
  BY DEF RemoveKey, Idle
<1>3. /\ TableSound(table') /\ table'.capacity = table.capacity
      /\ KeysIn(table', Used(table')) = KeysIn(table, Used(table)) \ {k}
      /\ Cardinality(Used(table')) = Cardinality(Used(table)) - 1
  <2>1. /\ TableSound(Unlinked(table, k)) /\ Unlinked(table, k).capacity = table.capacity
        /\ KeysIn(Unlinked(table, k), Used(Unlinked(table, k))) = KeysIn(table, Used(table)) \ {k}
        /\ Cardinality(Used(Unlinked(table, k))) = Cardinality(Used(table)) - 1
    BY <1>1, <1>2, Removed
  <2> QED  BY <2>1, <1>2
<1>4. items' * 4 <= table'.capacity * 3
  <2>1. items \in Nat /\ table.capacity \in Nat
    BY <1>1, UsedIn DEF TableSound
  <2> QED  BY <2>1, <1>1, <1>2, <1>3
<1>5. CallSound(table', items', call')
  BY <1>1, <1>2 DEF CallSound
<1>6. Sound(table', items', loop', call')
  BY <1>1, <1>2, <1>3, <1>4, <1>5, BumpedTyped DEF Sound
<1>7. k \in KeysIn(table, Used(table))
  BY <1>1, <1>2, FindFacts
<1> QED  BY <1>2, <1>3, <1>6, <1>7

\* So does Clear.
LEMMA ClearSound ==
  ASSUME Sound(table, items, loop, call), Clear
  PROVE  /\ Sound(table', items', loop', call')
         /\ KeysIn(table, Used(table)) # {} /\ KeysIn(table', Used(table')) = {}
         /\ loop' = Bumped /\ call' = call /\ call.op = "none"
<1>1. /\ TableSound(table) /\ items = Cardinality(Used(table)) /\ loop \in Loops
      /\ CallSound(table, items, call)
  BY DEF Sound
<1>2. /\ items # 0 /\ call.op = "none" /\ table' = NewTable(table.capacity)
      /\ items' = 0 /\ loop' = Bumped /\ call' = call
  BY DEF Clear, Idle
<1>3. table.capacity \in 0 .. MaxCapacity /\ table.capacity \in Nat
  BY <1>1, UsedIn DEF TableSound, TableTyped
<1>4. /\ TableSound(table') /\ table'.capacity = table.capacity
      /\ Used(table') = {} /\ KeysIn(table', Used(table')) = {}
  BY <1>2, <1>3, NewTableSound
<1>5. Cardinality(Used(table')) = 0 /\ items' * 4 <= table'.capacity * 3
  BY <1>2, <1>3, <1>4, FS_EmptySet
<1>6. CallSound(table', items', call')
  BY <1>1, <1>2 DEF CallSound
<1>7. Sound(table', items', loop', call')
  BY <1>1, <1>2, <1>4, <1>5, <1>6, BumpedTyped DEF Sound
<1>8. Used(table) # {}
  BY <1>1, <1>2, FS_EmptySet
<1>9. KeysIn(table, Used(table)) # {}
  BY <1>8 DEF KeysIn
<1> QED  BY <1>2, <1>4, <1>7, <1>9

\* Reserve starts a rebuild, or throws.
LEMMA ReserveSound ==
  ASSUME Sound(table, items, loop, call), NEW n \in Reservations, Reserve(n)
  PROVE  /\ Sound(table', items', loop', call')
         /\ UNCHANGED <<table, items, loop>> /\ call.op = "none" /\ call'.op # "none"
<1>1. /\ TableSound(table) /\ items = Cardinality(Used(table)) /\ loop \in Loops
      /\ items * 4 <= table.capacity * 3
  BY DEF Sound
<1> DEFINE c == HashCapacityForItems(n)
           C == {x \in Capacities : x * 3 >= n * 4}
<1>2. /\ n <= (MaxCapacity \div 4) * 3 /\ c > table.capacity /\ call.op = "none"
      /\ call' = ReMap("reserve", NoKey, c) /\ UNCHANGED <<table, items, loop>>
  BY DEF Reserve, Idle
<1>3. n \in Nat /\ MaxCapacity \in Nat /\ MaxCapacity \in Capacities
  BY HashTableAssumption
<1>4. Capacities \subseteq 2 .. MaxCapacity
  BY DEF Capacities
<1>5. MaxCapacity * 3 >= n * 4
  <2>1. (MaxCapacity \div 4) * 4 <= MaxCapacity /\ MaxCapacity \div 4 \in Nat
    BY <1>3
  <2> QED  BY <2>1, <1>2, <1>3
<1>6. C # {} /\ C \subseteq Nat /\ C \subseteq 2 .. MaxCapacity
  <2>1. MaxCapacity \in C
    BY <1>3, <1>5
  <2>2. C \subseteq 2 .. MaxCapacity
    BY <1>4
  <2>3. \A x \in 2 .. MaxCapacity : x \in Nat
    BY <1>3
  <2> HIDE DEF C
  <2> QED  BY <2>1, <2>2, <2>3
<1>7. c \in C
  <2>1. Min(C) \in C
    BY <1>6, MinFacts
  <2> QED  BY <2>1 DEF HashCapacityForItems
<1>8. c \in 2 .. MaxCapacity /\ c >= table.capacity
  <2>1. table.capacity \in Nat
    BY <1>1, UsedIn DEF TableSound
  <2> HIDE DEF c
  <2> QED  BY <2>1, <1>2, <1>6, <1>7
<1> HIDE DEF c
<1>9. CallSound(table, items, call')
  BY <1>1, <1>2, <1>8, ReMapStarts
<1>10. Sound(table', items', loop', call')
  BY <1>1, <1>2, <1>9 DEF Sound
<1>11. call'.op # "none"
  BY <1>2 DEF ReMap
<1> QED  BY <1>2, <1>10, <1>11

\* What a foreach comes to is a node, and it has passed those before it.
LEMMA ReachFacts ==
  ASSUME TableSound(table), NEW i \in Nat
  PROVE  /\ Reach(i) \in Loops /\ ~Reach(i).moved
         /\ \/ Reach(i) = Loop("done") /\ \A j \in Used(table) : j < i
            \/ /\ Reach(i).phase = "on" /\ Reach(i).at \in Used(table) /\ Reach(i).at >= i
               /\ \A j \in Used(table) : j >= i => Reach(i).at <= j
<1> DEFINE rest == {j \in Used(table) : j >= i}
<1>1. /\ Used(table) \subseteq 0 .. table.capacity - 1 /\ table.capacity \in Nat
      /\ table.capacity \in 0 .. MaxCapacity /\ MaxCapacity \in Nat
  BY UsedIn, HashTableAssumption DEF TableSound, TableTyped
<1>2. CASE rest = {}
  <2>1. Reach(i) = Loop("done")
    BY <1>2 DEF Reach
  <2>2. Loop("done") \in Loops /\ ~Loop("done").moved
    BY <1>1 DEF Loop, Loops, END
  <2>3. \A j \in Used(table) : j < i
    <3>1. \A j \in Used(table) : ~(j >= i) /\ j \in Nat
      BY <1>1, <1>2
    <3> QED  BY <3>1
  <2> QED  BY <2>1, <2>2, <2>3
<1>3. CASE rest # {}
  <2>1. rest \subseteq Nat
    BY <1>1
  <2>2. Min(rest) \in rest /\ \A j \in rest : Min(rest) <= j
    BY <1>3, <2>1, MinFacts
  <2>3. Reach(i) = [phase |-> "on", at |-> Min(rest), moved |-> FALSE]
    BY <1>3 DEF Reach
  <2>4. Min(rest) \in END .. MaxCapacity
    BY <1>1, <2>2 DEF END
  <2>5. Reach(i) \in Loops /\ ~Reach(i).moved /\ Reach(i).phase = "on" /\ Reach(i).at = Min(rest)
    <3> HIDE DEF rest
    <3> QED  BY <2>3, <2>4 DEF Loops
  <2> QED  BY <2>2, <2>5
<1> QED  BY <1>2, <1>3

\* So do the steps of a foreach.
LEMMA ForEachSound ==
  ASSUME Sound(table, items, loop, call), ForEachFirst \/ ForEachNext \/ Break
  PROVE  /\ Sound(table', items', loop', call')
         /\ UNCHANGED <<table, items, call>> /\ call.op = "none"
<1>1. TableSound(table) /\ loop \in Loops /\ MaxCapacity \in Nat
  BY HashTableAssumption DEF Sound
<1>2. UNCHANGED <<table, items, call>> /\ call.op = "none"
  BY DEF ForEachFirst, ForEachNext, Break, Idle
<1>3. \A x \in {"done", "failed", "broken"} : Loop(x) \in Loops
  BY <1>1 DEF Loop, Loops, END
<1>4. 0 \in Nat /\ (loop.at + 1) \in Nat
  BY <1>1 DEF Loops, END
<1>5. Reach(0) \in Loops /\ Reach(loop.at + 1) \in Loops
  <2> DEFINE n == loop.at + 1
  <2> HIDE DEF n
  <2>1. n \in Nat => Reach(n) \in Loops
    BY <1>1, ReachFacts
  <2>2. Reach(0) \in Loops
    BY <1>1, <1>4, ReachFacts
  <2> QED  BY <2>1, <2>2, <1>4 DEF n
<1>6. loop' \in Loops
  <2>1. CASE ForEachFirst
    BY <2>1, <1>3, <1>5 DEF ForEachFirst
  <2>2. CASE ForEachNext
    BY <2>2, <1>3, <1>5 DEF ForEachNext
  <2>3. CASE Break
    BY <2>3, <1>3 DEF Break
  <2> QED  BY <2>1, <2>2, <2>3
<1>7. Sound(table', items', loop', call')
  BY <1>2, <1>6 DEF Sound
<1> QED  BY <1>2, <1>7

-----------------------------------------------------------------------------
(* The theorems about the hash table                                       *)

\* The empty table is sound.
LEMMA ChainsInit ==
  Init => ChainsSound
<1> SUFFICES ASSUME Init
             PROVE  Sound(table, items, loop, call)
  BY ChainsSoundIs
<1>1. table = NewTable(0) /\ items = 0 /\ loop = Loop("done") /\ call = NoCall
  BY DEF Init, HashInit
<1>2. 0 \in 0 .. MaxCapacity /\ MaxCapacity \in Nat
  BY HashTableAssumption
<1>3. TableSound(table) /\ table.capacity = 0 /\ Used(table) = {}
  BY <1>1, <1>2, NewTableSound
<1>4. items = Cardinality(Used(table)) /\ items * 4 <= table.capacity * 3
  BY <1>1, <1>3, FS_EmptySet
<1>5. loop \in Loops
  BY <1>1, <1>2 DEF Loop, Loops, END
<1> QED  BY <1>1, <1>3, <1>4, <1>5, NoCallSound DEF Sound

\* What each step of the table does to the keys, the loop and the call.
HashStep ==
  \/ \E k \in Key : Insert(k)
  \/ \E k \in Key : RemoveKey(k)
  \/ Transfer \/ EndReMap \/ Clear
  \/ \E n \in Reservations : Reserve(n)
  \/ ForEachFirst \/ ForEachNext \/ Break

\* A step of Stores is one of the table, or leaves it alone.
LEMMA StepOrRest ==
  [Next]_vars => HashStep \/ UNCHANGED hashVars
BY DEF Next, vars, Collections, Strings, Pools, HashNext, HashStep

\* Every step keeps the invariant.
LEMMA ChainsStep ==
  ChainsSound /\ [Next]_vars => ChainsSound'
<1> SUFFICES ASSUME Sound(table, items, loop, call), HashStep \/ UNCHANGED hashVars
             PROVE  Sound(table', items', loop', call')
  BY ChainsSoundIs, ChainsSoundThen, StepOrRest
<1>1. CASE \E k \in Key : Insert(k)
  BY <1>1, InsertSound
<1>2. CASE \E k \in Key : RemoveKey(k)
  BY <1>2, RemoveSound
<1>3. CASE Transfer
  BY <1>3, TransferSound
<1>4. CASE EndReMap
  BY <1>4, EndReMapSound
<1>5. CASE Clear
  BY <1>5, ClearSound
<1>6. CASE \E n \in Reservations : Reserve(n)
  BY <1>6, ReserveSound
<1>7. CASE ForEachFirst \/ ForEachNext \/ Break
  BY <1>7, ForEachSound
<1>8. CASE UNCHANGED hashVars
  BY <1>8 DEF hashVars
<1> QED  BY <1>1, <1>2, <1>3, <1>4, <1>5, <1>6, <1>7, <1>8 DEF HashStep

\* In the array and in the one that a rebuild fills, chains do not mix and
\* every key that is there is found, once, by the walk of FindNodeIndex.
THEOREM EveryKeyIsFound == Spec => []ChainsSound
BY ChainsInit, ChainsStep, PTL DEF Spec

\* An Insert that the limit of growth does not refuse ends with its key in the
\* table, and a Reserve with the array it asked for: the cursor never leaves a
\* rebuilt array without a slot.
THEOREM InsertFindsRoom == Spec => RoomIsFound
<1> DEFINE A == /\ \A k \in Key : Insert(k) => OnItsWay(k)
                /\ call.op \in {"load", "again"} => OnItsWay(call.key)
                /\ call.op = "reserve" =>
                     IF call'.op = "none" THEN table'.capacity = call.to.capacity
                     ELSE call'.op = "reserve" /\ call'.to.capacity = call.to.capacity
<1>1. ASSUME ChainsSound, [Next]_vars
      PROVE  [A]_hashVars
  <2> SUFFICES ASSUME Sound(table, items, loop, call), HashStep
               PROVE  A
    BY <1>1, ChainsSoundIs, StepOrRest
  <2>1. \A k \in Key : Insert(k) => OnItsWay(k)
    BY InsertSound DEF OnItsWay, NoCall
  <2>2. /\ call.op \in {"load", "again"} => OnItsWay(call.key)
        /\ call.op = "reserve" =>
             IF call'.op = "none" THEN table'.capacity = call.to.capacity
             ELSE call'.op = "reserve" /\ call'.to.capacity = call.to.capacity
    <3>1. CASE EndReMap
      <4>1. \/ call.op = "reserve" /\ table' = call.to /\ call' = NoCall
            \/ /\ call.op # "reserve" /\ call' = NoCall
               /\ KeysIn(table', Used(table')) = KeysIn(table, Used(table)) \cup {call.key}
            \/ call.op # "reserve" /\ call'.op = "again" /\ call'.key = call.key
        BY <3>1, EndReMapSound
      <4>2. NoCall.op = "none"
        BY DEF NoCall
      <4> QED  BY <4>1, <4>2 DEF OnItsWay
    <3>2. CASE Transfer
      BY <3>2, TransferSound DEF OnItsWay
    <3>3. CASE \/ \E k \in Key : Insert(k) \/ RemoveKey(k)
               \/ Clear \/ (\E n \in Reservations : Reserve(n))
               \/ ForEachFirst \/ ForEachNext \/ Break
      BY <3>3 DEF Insert, RemoveKey, Clear, Reserve, ForEachFirst, ForEachNext, Break, Idle
    <3> QED  BY <3>1, <3>2, <3>3 DEF HashStep
  <2> QED  BY <2>1, <2>2
<1>2. RoomIsFound <=> [][A]_hashVars
  BY DEF RoomIsFound
<1> HIDE DEF A
<1> QED  BY <1>1, <1>2, EveryKeyIsFound, PTL DEF Spec

\* The foreach of the collection that a table and a loop stand for.
Given(t, l) ==
  IF l.phase = "on" /\ ~l.moved THEN KeysIn(t, {j \in Used(t) : j <= l.at}) ELSE {}
EachOf(t, l) == [phase |-> l.phase, stale |-> l.moved, given |-> Given(t, l)]

\* What an EXCEPT makes of a foreach written out field by field.
LEMMA GivenReplaced ==
  \A p, m, g, h : [[phase |-> p, stale |-> m, given |-> g] EXCEPT !.given = h]
                     = [phase |-> p, stale |-> m, given |-> h]
OBVIOUS

\* The same of the mark that a change leaves.
LEMMA StaleReplaced ==
  \A p, m, g, h : [[phase |-> p, stale |-> m, given |-> g] EXCEPT !.stale = h]
                     = [phase |-> p, stale |-> h, given |-> g]
OBVIOUS

\* A change makes a foreach stale.
LEMMA BumpedIsStale ==
  ASSUME loop \in Loops, loop' = Bumped
  PROVE  EachOf(table', loop') =
           [[EachOf(table, loop) EXCEPT !.stale = @ \/ EachOf(table, loop).phase = "on"]
             EXCEPT !.given = {}]
<1>1. loop = [phase |-> loop.phase, at |-> loop.at, moved |-> loop.moved] /\ loop.moved \in BOOLEAN
  BY DEF Loops
<1>2. loop' = [phase |-> loop.phase, at |-> loop.at, moved |-> (loop.moved \/ loop.phase = "on")]
  BY <1>1 DEF Bumped
<1>3. /\ loop'.phase = loop.phase /\ loop'.moved = (loop.moved \/ loop.phase = "on")
  BY <1>2
<1>4. Given(table', loop') = {}
  BY <1>3 DEF Given
<1>5. EachOf(table', loop') =
        [phase |-> loop.phase, stale |-> (loop.moved \/ loop.phase = "on"), given |-> {}]
  BY <1>3, <1>4 DEF EachOf
<1> DEFINE e == EachOf(table, loop)
           b == loop.moved \/ loop.phase = "on"
           p == loop.phase
           m == loop.moved
           g == Given(table, loop)
<1>6. e = [phase |-> p, stale |-> m, given |-> g]
  BY DEF EachOf
<1>7. (e.stale \/ e.phase = "on") = b
  BY <1>6
<1>8. EachOf(table', loop') = [phase |-> p, stale |-> b, given |-> {}]
  BY <1>5
<1> HIDE DEF e, b, p, m, g
<1>9. [e EXCEPT !.stale = b] = [phase |-> p, stale |-> b, given |-> g]
  BY <1>6, StaleReplaced
<1>10. [[e EXCEPT !.stale = b] EXCEPT !.given = {}] = [phase |-> p, stale |-> b, given |-> {}]
  <2>1. [[phase |-> p, stale |-> b, given |-> g] EXCEPT !.given = {}] = [phase |-> p, stale |-> b, given |-> {}]
    BY GivenReplaced
  <2> QED  BY <1>9, <2>1, Zenon
<1>11. [e EXCEPT !.stale = @ \/ e.phase = "on"] = [e EXCEPT !.stale = b]
  BY <1>7
<1> USE DEF e
<1> QED  BY <1>8, <1>10, <1>11

\* A loop that is not on a node, or is stale, has given nothing to go by.
LEMMA EndedEach ==
  ASSUME NEW x \in {"done", "failed", "broken"}, NEW t
  PROVE  EachOf(t, Loop(x)) = [phase |-> x, given |-> {}, stale |-> FALSE]
<1>1. Loop(x).phase = x /\ Loop(x).moved = FALSE /\ x # "on"
  BY DEF Loop
<1>2. Given(t, Loop(x)) = {}
  BY <1>1 DEF Given
<1> QED  BY <1>1, <1>2 DEF EachOf

\* The loop goes on to the first node: one key is given.
LEMMA FirstGives ==
  ASSUME Sound(table, items, loop, call), ForEachFirst
  PROVE  Contract!First \/ Contract!Done
<1>1. TableSound(table) /\ items = Cardinality(Used(table)) /\ loop \in Loops
  BY DEF Sound
<1>2. /\ Used(table) \subseteq 0 .. table.capacity - 1 /\ IsFiniteSet(Used(table))
      /\ table.capacity \in Nat
  BY <1>1, UsedIn DEF TableSound
<1>3. loop.phase # "on" /\ table' = table /\ KeysIn(table', Used(table')) = KeysIn(table, Used(table))
  BY DEF ForEachFirst
<1>4. CASE items = 0
  <2>1. Used(table) = {}
    BY <1>1, <1>2, <1>4, FS_EmptySet
  <2>2. KeysIn(table, Used(table)) = {}
    BY <2>1 DEF KeysIn
  <2>3. loop' = Loop("done")
    BY <1>4 DEF ForEachFirst
  <2>4. EachOf(table', loop') = [phase |-> "done", given |-> {}, stale |-> FALSE]
    BY <2>3, EndedEach
  <2>5. Contract!Done
    BY <1>3, <2>2, <2>4 DEF Contract!Done, Contract!Ended, EachOf, Given
  <2> QED  BY <2>5
<1>5. CASE items # 0
  <2>1. loop' = Reach(0)
    BY <1>5 DEF ForEachFirst
  <2>2. Used(table) # {}
    BY <1>1, <1>5, FS_EmptySet
  <2>3. /\ loop' \in Loops /\ ~loop'.moved
        /\ \/ \A j \in Used(table) : j < 0
           \/ /\ loop'.phase = "on" /\ loop'.at \in Used(table)
              /\ \A j \in Used(table) : j >= 0 => loop'.at <= j
    BY <1>1, <2>1, ReachFacts
  <2>4. \A j \in Used(table) : j >= 0 /\ j \in Nat
    BY <1>2
  <2>5. loop'.phase = "on" /\ loop'.at \in Used(table) /\ \A j \in Used(table) : loop'.at <= j
    BY <2>2, <2>3, <2>4
  <2>6. {j \in Used(table) : j <= loop'.at} = {loop'.at}
    BY <2>4, <2>5
  <2>7. Given(table', loop') = {table.node[loop'.at].key}
    BY <1>3, <2>3, <2>5, <2>6 DEF Given, KeysIn
  <2>8. loop'.moved = FALSE
    BY <2>3 DEF Loops
  <2>9. EachOf(table', loop') = [phase |-> "on", given |-> {table.node[loop'.at].key}, stale |-> FALSE]
    BY <2>5, <2>7, <2>8 DEF EachOf
  <2>10. table.node[loop'.at].key \in KeysIn(table, Used(table))
    BY <2>5 DEF KeysIn
  <2>11. Contract!First
    BY <1>3, <2>9, <2>10 DEF Contract!First, EachOf, Given
  <2> QED  BY <2>11
<1> QED  BY <1>4, <1>5

\* Each later step gives one key more, or ends after the last, or fails.
LEMMA NextGives ==
  ASSUME Sound(table, items, loop, call), ForEachNext
  PROVE  Contract!Give \/ Contract!Done \/ Contract!Fail
<1>1. TableSound(table) /\ loop \in Loops
  BY DEF Sound
<1>2. Used(table) \subseteq 0 .. table.capacity - 1 /\ table.capacity \in Nat
  BY <1>1, UsedIn DEF TableSound
<1>3. loop.phase = "on" /\ table' = table /\ KeysIn(table', Used(table')) = KeysIn(table, Used(table))
  BY DEF ForEachNext
<1>4. CASE loop.moved
  <2>1. loop' = Loop("failed")
    BY <1>4 DEF ForEachNext
  <2>2. EachOf(table', loop') = [phase |-> "failed", given |-> {}, stale |-> FALSE]
    BY <2>1, EndedEach
  <2>3. Contract!Fail
    BY <1>3, <1>4, <2>2 DEF Contract!Fail, Contract!Ended, EachOf, Given
  <2> QED  BY <2>3
<1>5. CASE ~loop.moved
  <2> DEFINE n == loop.at + 1
  <2>1. loop' = Reach(n)
    BY <1>5 DEF ForEachNext
  <2>2. n \in Nat /\ loop.at \in Int
    BY <1>1 DEF Loops, END
  <2>3. \A j \in Used(table) : j \in Int /\ (j < n <=> j <= loop.at)
    BY <1>2, <2>2
  <2> HIDE DEF n
  <2>4. /\ Reach(n) \in Loops /\ ~Reach(n).moved
        /\ \/ Reach(n) = Loop("done") /\ \A j \in Used(table) : j < n
           \/ /\ Reach(n).phase = "on" /\ Reach(n).at \in Used(table) /\ Reach(n).at >= n
              /\ \A j \in Used(table) : j >= n => Reach(n).at <= j
    BY <1>1, <2>2, ReachFacts
  <2> DEFINE past == {j \in Used(table) : j <= loop.at}
  <2>5. Given(table, loop) = KeysIn(table, past) /\ loop.moved = FALSE
    BY <1>1, <1>3, <1>5 DEF Given, Loops
  <2>6. CASE Reach(n) = Loop("done") /\ \A j \in Used(table) : j < n
    <3>1. past = Used(table)
      BY <2>3, <2>6
    <3>2. EachOf(table', loop') = [phase |-> "done", given |-> {}, stale |-> FALSE]
      BY <2>1, <2>6, EndedEach
    <3>3. Given(table, loop) = KeysIn(table, Used(table))
      BY <2>5, <3>1
    <3>4. EachOf(table, loop).given = KeysIn(table, Used(table))
      BY <3>3 DEF EachOf
    <3>5. Contract!Done
      BY <1>3, <1>5, <3>2, <3>4 DEF Contract!Done, Contract!Ended, EachOf, Given
    <3> QED  BY <3>5
  <2>7. CASE /\ Reach(n).phase = "on" /\ Reach(n).at \in Used(table) /\ Reach(n).at >= n
             /\ \A j \in Used(table) : j >= n => Reach(n).at <= j
    <3> DEFINE a == Reach(n).at
               k == table.node[a].key
    <3>1. loop'.phase = "on" /\ loop'.at = a /\ loop'.moved = FALSE /\ a \in Used(table)
      BY <2>1, <2>4, <2>7 DEF Loops
    <3>2. {j \in Used(table) : j <= a} = past \cup {a}
      <4>1. \A j \in Used(table) : j <= a <=> j <= loop.at \/ j = a
        <5> SUFFICES ASSUME NEW j \in Used(table)
                     PROVE  j <= a <=> j <= loop.at \/ j = a
          OBVIOUS
        <5>1. j \in Int /\ a \in Int /\ (j < n <=> j <= loop.at) /\ a >= n
          BY <2>3, <2>7
        <5>2. j >= n => a <= j
          BY <2>7
        <5> HIDE DEF a
        <5> QED  BY <5>1, <5>2, <2>2
      <4> QED  BY <4>1, <3>1
    <3>3. a \notin past
      BY <2>3, <2>7, <2>2
    <3> HIDE DEF a, past
    <3>4. Given(table', loop') = KeysIn(table, past) \cup {k}
      BY <1>3, <3>1, <3>2 DEF Given, KeysIn
    <3>5. k \notin KeysIn(table, past)
      <4>1. \A j \in Used(table) : table.node[j].key = table.node[a].key => j = a
        BY <1>1, <3>1, Apart
      <4>2. past \subseteq Used(table)
        BY DEF past
      <4> QED  BY <4>1, <4>2, <3>3 DEF KeysIn
    <3>6. k \in KeysIn(table, Used(table))
      BY <3>1 DEF KeysIn
    <3> HIDE DEF k
    <3> DEFINE G == KeysIn(table, past)
    <3>7. EachOf(table, loop) = [phase |-> "on", stale |-> FALSE, given |-> G]
      BY <1>3, <2>5 DEF EachOf
    <3>8. EachOf(table', loop') = [phase |-> "on", stale |-> FALSE, given |-> G \cup {k}]
      BY <3>1, <3>4 DEF EachOf
    <3> HIDE DEF G
    <3>9. EachOf(table', loop') = [EachOf(table, loop) EXCEPT !.given = @ \cup {k}]
      <4> DEFINE H == G \cup {k}
      <4>1. EachOf(table', loop') = [phase |-> "on", stale |-> FALSE, given |-> H]
        BY <3>8
      <4>2. EachOf(table, loop).given \cup {k} = H
        BY <3>7
      <4> HIDE DEF H
      <4>3. [EachOf(table, loop) EXCEPT !.given = H] = [phase |-> "on", stale |-> FALSE, given |-> H]
        <5>1. [[phase |-> "on", stale |-> FALSE, given |-> G] EXCEPT !.given = H]
                = [phase |-> "on", stale |-> FALSE, given |-> H]
          BY GivenReplaced
        <5> QED  BY <3>7, <5>1, Zenon
      <4> QED  BY <4>1, <4>2, <4>3
    <3>10. /\ EachOf(table, loop).phase = "on" /\ ~EachOf(table, loop).stale
           /\ k \in KeysIn(table, Used(table)) \ EachOf(table, loop).given
      BY <3>5, <3>6, <3>7 DEF G
    <3>11. Contract!Give
      BY <1>3, <3>9, <3>10 DEF Contract!Give, EachOf, Given
    <3> QED  BY <3>11
  <2> QED  BY <2>4, <2>6, <2>7
<1> QED  BY <1>4, <1>5

\* Each step of the table is one of the collection, or none.
LEMMA CollectionStep ==
  ASSUME Sound(table, items, loop, call), HashStep
  PROVE  [Contract!Next]_(Contract!vars)
<1> DEFINE keys0 == KeysIn(table, Used(table))
           keys1 == KeysIn(table', Used(table'))
           each0 == EachOf(table, loop)
           each1 == EachOf(table', loop')
<1>1. loop \in Loops
  BY DEF Sound
<1>2. loop' = Bumped =>
        each1 = [[each0 EXCEPT !.stale = @ \/ each0.phase = "on"] EXCEPT !.given = {}]
  BY <1>1, BumpedIsStale
<1>3. keys1 = keys0 /\ each1 = each0 => UNCHANGED Contract!vars
  BY DEF Contract!vars, EachOf, Given
<1>4. keys1 = keys0 /\ loop' = Bumped => Contract!Reserve
  BY <1>2 DEF Contract!Reserve, Contract!Stale, EachOf, Given
<1>5. ASSUME NEW k \in Key, k \notin keys0, keys1 = keys0 \cup {k}, loop' = Bumped
      PROVE  Contract!Next
  <2>1. Contract!Insert(k)
    BY <1>2, <1>5 DEF Contract!Insert, Contract!Stale, EachOf, Given
  <2> QED  BY <2>1 DEF Contract!Next
<1>6. CASE \E k \in Key : Insert(k)
  <2>1. PICK k \in Key : Insert(k)
    BY <1>6
  <2>2. /\ k \notin keys0
        /\ \/ keys1 = keys0 \cup {k} /\ loop' = Bumped
           \/ (\A S : KeysIn(table', S) = KeysIn(table, S)) /\ Used(table') = Used(table) /\ loop' = loop
    BY <2>1, InsertSound
  <2>3. CASE (\A S : KeysIn(table', S) = KeysIn(table, S)) /\ Used(table') = Used(table) /\ loop' = loop
    <3>1. keys1 = keys0 /\ Given(table', loop') = Given(table, loop)
      BY <2>3 DEF Given
    <3>2. each1 = each0
      BY <2>3, <3>1 DEF EachOf
    <3> QED  BY <1>3, <3>1, <3>2
  <2> QED  BY <1>5, <2>2, <2>3
<1>7. CASE \E k \in Key : RemoveKey(k)
  <2>1. PICK k \in Key : RemoveKey(k)
    BY <1>7
  <2>2. k \in keys0 /\ keys1 = keys0 \ {k} /\ loop' = Bumped
    BY <2>1, RemoveSound
  <2>3. Contract!Remove(k)
    BY <1>2, <2>2 DEF Contract!Remove, Contract!Stale, EachOf, Given
  <2> QED  BY <2>3 DEF Contract!Next
<1>8. CASE Transfer \/ \E n \in Reservations : Reserve(n)
  <2>1. table' = table /\ loop' = loop
    BY <1>8, TransferSound, ReserveSound
  <2> QED  BY <1>3, <2>1
<1>9. CASE EndReMap
  <2>1. /\ loop' = Bumped
        /\ \/ keys1 = keys0
           \/ call.key \in Key \ keys0 /\ keys1 = keys0 \cup {call.key}
    BY <1>9, EndReMapSound
  <2>2. CASE keys1 = keys0
    BY <1>4, <2>1, <2>2 DEF Contract!Next
  <2>3. CASE call.key \in Key \ keys0 /\ keys1 = keys0 \cup {call.key}
    BY <1>5, <2>1, <2>3
  <2> QED  BY <2>1, <2>2, <2>3
<1>10. CASE Clear
  <2>1. keys0 # {} /\ keys1 = {} /\ loop' = Bumped
    BY <1>10, ClearSound
  <2>2. Contract!Clear
    BY <1>2, <2>1 DEF Contract!Clear, Contract!Stale, EachOf, Given
  <2> QED  BY <2>2 DEF Contract!Next
<1>11. CASE ForEachFirst
  BY <1>11, FirstGives DEF Contract!Next
<1>12. CASE ForEachNext
  BY <1>12, NextGives DEF Contract!Next
<1>13. CASE Break
  <2>1. loop.phase = "on" /\ loop' = Loop("broken") /\ table' = table
    BY <1>13 DEF Break
  <2>2. each1 = [phase |-> "broken", given |-> {}, stale |-> FALSE]
    BY <2>1, EndedEach
  <2>3. Contract!Break
    BY <2>1, <2>2 DEF Contract!Break, Contract!Ended, EachOf, Given
  <2> QED  BY <2>3 DEF Contract!Next
<1> QED  BY <1>6, <1>7, <1>8, <1>9, <1>10, <1>11, <1>12, <1>13 DEF HashStep

\* A map or a set is a set of keys to the script: no rebuild, move or removal
\* loses one or brings it twice, and a foreach gives every key once or fails.
THEOREM TableImplementsCollection == Spec => ImplementsCollection
<1>1. Init => Contract!Init
  <2> SUFFICES ASSUME Init
               PROVE  Contract!Init
    OBVIOUS
  <2>1. table = NewTable(0) /\ loop = Loop("done")
    BY DEF Init, HashInit
  <2>2. 0 \in 0 .. MaxCapacity
    BY HashTableAssumption
  <2>3. KeysIn(table, Used(table)) = {}
    BY <2>1, <2>2, NewTableSound
  <2>4. EachOf(table, loop) = [phase |-> "done", given |-> {}, stale |-> FALSE]
    BY <2>1, EndedEach
  <2> QED  BY <2>3, <2>4 DEF Contract!Init, Contract!Ended, EachOf, Given
<1>2. ChainsSound /\ [Next]_vars => [Contract!Next]_(Contract!vars)
  <2> SUFFICES ASSUME Sound(table, items, loop, call), HashStep \/ UNCHANGED hashVars
               PROVE  [Contract!Next]_(Contract!vars)
    BY ChainsSoundIs, StepOrRest
  <2>1. CASE HashStep
    BY <2>1, CollectionStep
  <2>2. CASE UNCHANGED hashVars
    BY <2>2 DEF hashVars, Contract!vars
  <2> QED  BY <2>1, <2>2
<1> QED  BY <1>1, <1>2, EveryKeyIsFound, PTL DEF Spec, ImplementsCollection, Contract!Spec

-----------------------------------------------------------------------------
(* The chains of pages                                                     *)

Ends(f) == f \in [Slots -> Slots \cup {NoPage}]

\* A null page is none of the slots.
LEMMA NoPageApart == NoPage \notin Slots
BY PoolAssumption DEF Slots

\* What a changed field holds.
LEMMA LinkFacts ==
  ASSUME NEW f, NEW s, NEW v
  PROVE  /\ \A x \in Slots : x # s => Link(f, s, v)[x] = f[x]
         /\ s \in Slots => Link(f, s, v)[s] = v
         /\ Ends(f) /\ v \in Slots \cup {NoPage} => Ends(Link(f, s, v))
BY DEF Link, Ends

\* What next leads to from a is closed, and in every closed set around a.
LEMMA FromFacts ==
  ASSUME NEW f, Ends(f), NEW a \in Slots
  PROVE  /\ From(f, a) \subseteq Slots /\ a \in From(f, a)
         /\ \A s \in From(f, a) : f[s] \in From(f, a) \cup {NoPage}
<1>1. From(f, a) \subseteq Slots /\ a \in From(f, a)
  BY NoPageApart DEF From
<1>2. ASSUME NEW s \in From(f, a), f[s] # NoPage
      PROVE  f[s] \in From(f, a)
  <2>1. f[s] \in Slots
    BY <1>1, <1>2 DEF Ends
  <2>2. ASSUME NEW S \in SUBSET Slots, a \in S, \A x \in S : f[x] \in S \cup {NoPage}
        PROVE  f[s] \in S
    <3>1. s \in S
      BY <2>2 DEF From
    <3> QED  BY <3>1, <2>2, <1>2
  <2> QED  BY <2>1, <2>2, NoPageApart DEF From
<1> QED  BY <1>1, <1>2

LEMMA FromLeast ==
  ASSUME NEW f, NEW a, NEW S, S \subseteq Slots, a \in S, \A x \in S : f[x] \in S \cup {NoPage}
  PROVE  From(f, a) \subseteq S
BY DEF From

LEMMA FromNone ==
  ASSUME NEW f
  PROVE  From(f, NoPage) = {}
BY DEF From

\* In a sound chain each page but the head has one before it.
LEMMA ChainFacts ==
  ASSUME NEW c, NEW S, ChainSound(c, S)
  PROVE  /\ Ends(c.next) /\ Ends(c.prev) /\ S \subseteq Slots
         /\ c.head = NoPage <=> S = {}
         /\ c.head # NoPage => c.head \in S
         /\ \A s \in S : /\ c.next[s] \in S \cup {NoPage} /\ c.prev[s] \in S \cup {NoPage}
                         /\ c.prev[s] = NoPage <=> s = c.head
                         /\ c.prev[s] # NoPage => c.next[c.prev[s]] = s
                         /\ c.next[s] # s /\ c.prev[s] # s
         /\ \A x, s \in S : c.next[x] = s <=> c.prev[s] = x
<1>1. /\ Ends(c.next) /\ Ends(c.prev) /\ c.head \in Slots \cup {NoPage}
      /\ From(c.next, c.head) = S
      /\ c.head # NoPage => c.prev[c.head] = NoPage
      /\ \A s \in S : c.next[s] # NoPage => c.prev[c.next[s]] = s
  BY DEF ChainSound, Ends
<1>2. S \subseteq Slots /\ (c.head = NoPage <=> S = {}) /\ (c.head # NoPage => c.head \in S)
      /\ \A s \in S : c.next[s] \in S \cup {NoPage}
  <2>1. CASE c.head = NoPage
    BY <2>1, <1>1, FromNone
  <2>2. CASE c.head # NoPage
    BY <2>2, <1>1, FromFacts
  <2> QED  BY <2>1, <2>2
<1>3. ASSUME NEW s \in S, s # c.head
      PROVE  \E x \in S : c.next[x] = s /\ x # s
  <2> SUFFICES ASSUME \A x \in S : x # s => c.next[x] # s
               PROVE  FALSE
    OBVIOUS
  <2> DEFINE T == S \ {s}
  <2>1. \A x \in T : c.next[x] \in T \cup {NoPage}
    BY <1>2
  <2>2. c.head \in T
    BY <1>2, <1>3
  <2>3. From(c.next, c.head) \subseteq T
    BY <2>1, <2>2, <1>2, FromLeast
  <2> QED  BY <2>3, <1>1
<1>4. \A x, s \in S : c.next[x] = s => c.prev[s] = x
  BY <1>1, <1>2, NoPageApart
<1>5. ASSUME NEW s \in S
      PROVE  /\ c.prev[s] \in S \cup {NoPage}
             /\ c.prev[s] = NoPage <=> s = c.head
             /\ c.prev[s] # NoPage => c.next[c.prev[s]] = s
             /\ c.next[s] # s /\ c.prev[s] # s
  <2>1. CASE s = c.head
    <3>1. c.prev[s] = NoPage
      BY <2>1, <1>1, <1>2, NoPageApart
    <3> QED  BY <3>1, <2>1, <1>4, <1>2, NoPageApart
  <2>2. CASE s # c.head
    <3>1. PICK x \in S : c.next[x] = s /\ x # s
      BY <1>3, <2>2
    <3>2. c.prev[s] = x /\ x # NoPage
      BY <3>1, <1>4, <1>2, NoPageApart
    <3>3. c.next[s] # s
      BY <3>1, <3>2, <1>4
    <3> QED  BY <3>1, <3>2, <3>3, <2>2
  <2> QED  BY <2>1, <2>2
<1>6. \A x, s \in S : c.prev[s] = x => c.next[x] = s
  BY <1>5, <1>2, NoPageApart
<1> QED  BY <1>1, <1>2, <1>4, <1>5, <1>6

\* A page joins at the head.
LEMMA PushedFront ==
  ASSUME NEW c, NEW S, ChainSound(c, S), NEW s \in Slots, s \notin S,
         NEW u, u.head = s, u.next = Link(c.next, s, c.head),
         u.prev = Link(Link(c.prev, s, NoPage), c.head, s)
  PROVE  ChainSound(u, S \cup {s})
<1>1. /\ Ends(c.next) /\ Ends(c.prev) /\ S \subseteq Slots
      /\ c.head = NoPage <=> S = {}
      /\ c.head # NoPage => c.head \in S
      /\ c.head \in Slots \cup {NoPage}
      /\ \A x \in S : c.next[x] \in S \cup {NoPage}
      /\ \A x \in S : c.next[x] # NoPage => c.prev[c.next[x]] = x
      /\ \A x \in S : c.next[x] # c.head \/ c.head = NoPage
  <2>1. c.head \in Slots \cup {NoPage} /\ (c.head # NoPage => c.prev[c.head] = NoPage)
        /\ \A x \in S : c.next[x] # NoPage => c.prev[c.next[x]] = x
    BY DEF ChainSound
  <2>2. /\ Ends(c.next) /\ Ends(c.prev) /\ S \subseteq Slots
        /\ c.head = NoPage <=> S = {}
        /\ c.head # NoPage => c.head \in S
        /\ \A x \in S : c.next[x] \in S \cup {NoPage}
    BY ChainFacts
  <2>3. ASSUME NEW x \in S, c.next[x] = c.head, c.head # NoPage
        PROVE  FALSE
    BY <2>1, <2>2, <2>3, NoPageApart
  <2> QED  BY <2>1, <2>2, <2>3
<1>2. /\ Ends(u.next) /\ u.next[s] = c.head
      /\ \A x \in S : u.next[x] = c.next[x]
  BY <1>1, LinkFacts
<1>3. /\ Ends(u.prev) /\ u.prev[s] = NoPage
      /\ c.head # NoPage => u.prev[c.head] = s
      /\ \A x \in S : x # c.head => u.prev[x] = c.prev[x]
  <2> DEFINE q == Link(c.prev, s, NoPage)
  <2>1. Ends(q) /\ q[s] = NoPage /\ \A x \in S : q[x] = c.prev[x]
    BY <1>1, LinkFacts
  <2> HIDE DEF q
  <2>2. u.prev = Link(q, c.head, s)
    BY DEF q
  <2>3. s # c.head
    BY <1>1, NoPageApart
  <2> QED  BY <1>1, <2>1, <2>2, <2>3, LinkFacts
<1> DEFINE F == From(u.next, s)
<1>4. /\ F \subseteq Slots /\ s \in F /\ \A x \in F : u.next[x] \in F \cup {NoPage}
  BY <1>2, FromFacts
<1>5. F \subseteq S \cup {s}
  <2> DEFINE T == S \cup {s}
  <2>1. \A x \in T : u.next[x] \in T \cup {NoPage}
    BY <1>1, <1>2
  <2>2. s \in T /\ T \subseteq Slots
    BY <1>1
  <2> HIDE DEF T
  <2>3. From(u.next, s) \subseteq T
    BY <2>1, <2>2, FromLeast
  <2> QED  BY <2>3 DEF T
<1> HIDE DEF F
<1>6. S \subseteq F
  <2>1. CASE S = {}
    BY <2>1
  <2>2. CASE S # {}
    <3> DEFINE T == F \ {s}
    <3>1. c.head \in T
      BY <2>2, <1>1, <1>2, <1>4
    <3>2. \A x \in T : c.next[x] \in T \cup {NoPage}
      BY <1>1, <1>2, <1>4, <1>5
    <3>3. From(c.next, c.head) \subseteq T
      BY <3>1, <3>2, <1>4, FromLeast
    <3> QED  BY <3>3 DEF ChainSound
  <2> QED  BY <2>1, <2>2
<1>7. From(u.next, u.head) = S \cup {s}
  BY <1>4, <1>5, <1>6 DEF F
<1>8. \A x \in S \cup {s} : u.next[x] # NoPage => u.prev[u.next[x]] = x
  <2> SUFFICES ASSUME NEW x \in S \cup {s}, u.next[x] # NoPage
               PROVE  u.prev[u.next[x]] = x
    OBVIOUS
  <2>1. CASE x = s
    BY <2>1, <1>1, <1>2, <1>3
  <2>2. CASE x # s
    BY <2>2, <1>1, <1>2, <1>3
  <2> QED  BY <2>1, <2>2
<1> QED  BY <1>2, <1>3, <1>7, <1>8 DEF ChainSound, Ends

\* The chain u is the chain c of S with s behind its last page t.
JoinedBack(c, S, s, t, u) ==
  /\ ChainSound(u, S \cup {s})
  /\ \A x \in S \cup {s} : u.next[x] = NoPage <=> x = s
  /\ \A x \in S : u.next[x] = IF x = t THEN s ELSE c.next[x]
  /\ From(u.next, s) = {s}
  /\ \A a \in S : t \in From(c.next, a) => From(u.next, a) = From(c.next, a) \cup {s}

\* A page joins at the tail.
LEMMA PushedBack ==
  ASSUME NEW c, NEW S, ChainSound(c, S), NEW s \in Slots, s \notin S,
         NEW t, t = NoPage <=> S = {}, t # NoPage => t \in S,
         \A x \in S : c.next[x] = NoPage <=> x = t,
         NEW u, u.head = IF t = NoPage THEN s ELSE c.head,
         u.next = Link(Link(c.next, s, NoPage), t, s), u.prev = Link(c.prev, s, t)
  PROVE  JoinedBack(c, S, s, t, u)
<1>1. /\ Ends(c.next) /\ Ends(c.prev) /\ S \subseteq Slots
      /\ c.head = NoPage <=> S = {}
      /\ c.head # NoPage => c.head \in S
      /\ \A x \in S : c.next[x] \in S \cup {NoPage}
  BY ChainFacts
<1>2. /\ c.head \in Slots \cup {NoPage} /\ (c.head # NoPage => c.prev[c.head] = NoPage)
      /\ \A x \in S : c.next[x] # NoPage => c.prev[c.next[x]] = x
      /\ From(c.next, c.head) = S
  BY DEF ChainSound
<1>3. s # NoPage /\ s # t /\ t \in Slots \cup {NoPage}
  BY <1>1, NoPageApart
<1>4. /\ Ends(u.next) /\ u.next[s] = NoPage
      /\ \A x \in S : u.next[x] = IF x = t THEN s ELSE c.next[x]
  <2> DEFINE q == Link(c.next, s, NoPage)
  <2>1. Ends(q) /\ q[s] = NoPage /\ \A x \in S : q[x] = c.next[x]
    BY <1>1, LinkFacts
  <2> HIDE DEF q
  <2>2. u.next = Link(q, t, s)
    BY DEF q
  <2>3. Ends(u.next) /\ \A x \in Slots : x # t => u.next[x] = q[x]
    BY <2>1, <2>2, LinkFacts
  <2>4. t # NoPage => u.next[t] = s
    BY <2>2, <1>3, LinkFacts
  <2> QED  BY <2>1, <2>3, <2>4, <1>1, <1>3, NoPageApart
<1>5. /\ Ends(u.prev) /\ u.prev[s] = t
      /\ \A x \in S : u.prev[x] = c.prev[x]
  BY <1>1, <1>3, LinkFacts
<1>6. ASSUME NEW a \in S, t \in From(c.next, a)
      PROVE  From(u.next, a) = From(c.next, a) \cup {s}
  <2> DEFINE F == From(c.next, a)
             G == From(u.next, a)
  <2>1. F \subseteq Slots /\ a \in F /\ \A x \in F : c.next[x] \in F \cup {NoPage}
    BY <1>1, <1>6, FromFacts
  <2>2. G \subseteq Slots /\ a \in G /\ \A x \in G : u.next[x] \in G \cup {NoPage}
    BY <1>1, <1>4, <1>6, FromFacts
  <2>3. F \subseteq S
    BY <1>1, <1>6, FromLeast
  <2>4. t \in F
    BY <1>6
  <2> HIDE DEF F, G
  <2>5. G \subseteq F \cup {s}
    <3> DEFINE T == F \cup {s}
    <3>1. a \in T /\ T \subseteq Slots
      BY <2>1
    <3>2. \A x \in T : u.next[x] \in T \cup {NoPage}
      BY <2>1, <2>3, <1>4
    <3> HIDE DEF T
    <3>3. From(u.next, a) \subseteq T
      BY <3>1, <3>2, FromLeast
    <3> QED  BY <3>3 DEF T, G
  <2>6. F \subseteq G \ {s}
    <3> DEFINE T == G \ {s}
    <3>1. a \in T /\ T \subseteq Slots
      BY <2>2, <1>6
    <3>2. \A x \in T : x \in F => c.next[x] \in T \cup {NoPage}
      BY <2>2, <2>3, <1>1, <1>4
    <3> DEFINE W == T \cap F
    <3>3. a \in W /\ W \subseteq Slots
      BY <3>1, <2>1
    <3>4. \A x \in W : c.next[x] \in W \cup {NoPage}
      BY <3>2, <2>1
    <3> HIDE DEF T, W
    <3>5. From(c.next, a) \subseteq W
      BY <3>3, <3>4, FromLeast
    <3> QED  BY <3>5 DEF F, T, W
  <2>7. s \in G
    BY <2>2, <2>4, <2>6, <2>3, <1>3, <1>4
  <2> QED  BY <2>5, <2>6, <2>7 DEF F, G
<1>7. From(u.next, s) = {s}
  <2>1. s \in From(u.next, s)
    BY <1>4, FromFacts
  <2> DEFINE T == {s}
  <2>2. s \in T /\ T \subseteq Slots /\ \A x \in T : u.next[x] \in T \cup {NoPage}
    BY <1>4
  <2> HIDE DEF T
  <2>3. From(u.next, s) \subseteq T
    BY <2>2, FromLeast
  <2> QED  BY <2>1, <2>3 DEF T
<1>8. From(u.next, u.head) = S \cup {s}
  <2>1. CASE t = NoPage
    BY <2>1, <1>7
  <2>2. CASE t # NoPage
    <3>1. c.head \in S /\ t \in From(c.next, c.head) /\ u.head = c.head
      BY <2>2, <1>1, <1>2
    <3> QED  BY <3>1, <1>2, <1>6
  <2> QED  BY <2>1, <2>2
<1>9. \A x \in S \cup {s} : u.next[x] # NoPage => u.prev[u.next[x]] = x
  <2> SUFFICES ASSUME NEW x \in S, u.next[x] # NoPage
               PROVE  u.prev[u.next[x]] = x
    BY <1>4
  <2>1. CASE x = t
    BY <2>1, <1>4, <1>5
  <2>2. CASE x # t
    BY <2>2, <1>1, <1>2, <1>4, <1>5
  <2> QED  BY <2>1, <2>2
<1>10. u.head \in Slots \cup {NoPage} /\ u.prev[u.head] = NoPage
  <2>1. CASE t = NoPage
    BY <2>1, <1>5
  <2>2. CASE t # NoPage
    BY <2>2, <1>1, <1>2, <1>5
  <2> QED  BY <2>1, <2>2
<1>11. \A x \in S \cup {s} : u.next[x] = NoPage <=> x = s
  BY <1>1, <1>3, <1>4
<1>12. ChainSound(u, S \cup {s})
  BY <1>4, <1>5, <1>8, <1>9, <1>10 DEF ChainSound, Ends
<1> QED  BY <1>4, <1>6, <1>7, <1>11, <1>12 DEF JoinedBack

\* What next leads to from a when page s is cut out.
LEMMA CutFrom ==
  ASSUME NEW c, NEW S, ChainSound(c, S), NEW s \in S, NEW a \in S,
         NEW g, g = Link(c.next, c.prev[s], c.next[s])
  PROVE  From(g, IF a = s THEN c.next[s] ELSE a) = From(c.next, a) \ {s}
<1>1. /\ Ends(c.next) /\ Ends(c.prev) /\ S \subseteq Slots
      /\ \A x \in S : c.next[x] \in S \cup {NoPage} /\ c.prev[x] \in S \cup {NoPage} /\ c.next[x] # x
      /\ \A x, y \in S : c.next[x] = y <=> c.prev[y] = x
  BY ChainFacts
<1> DEFINE p == c.prev[s]
           n == c.next[s]
           b == IF a = s THEN n ELSE a
           F == From(c.next, a)
           G == From(g, b)
<1>2. n \in S \cup {NoPage} /\ n # s /\ p \in S \cup {NoPage}
  BY <1>1
<1>3. Ends(g) /\ (\A x \in Slots : x # p => g[x] = c.next[x]) /\ (p # NoPage => g[p] = n)
  BY <1>1, <1>2, LinkFacts
<1>4. \A x \in S : c.next[x] = s <=> x = p
  BY <1>1
<1>5. F \subseteq Slots /\ a \in F /\ \A x \in F : c.next[x] \in F \cup {NoPage}
  BY <1>1, FromFacts
<1>6. F \subseteq S
  BY <1>1, FromLeast
<1>7. b \in S \cup {NoPage} /\ b # s
  BY <1>2, NoPageApart, <1>1
<1>8. b # NoPage => G \subseteq Slots /\ b \in G /\ \A x \in G : g[x] \in G \cup {NoPage}
  BY <1>1, <1>3, <1>7, FromFacts
<1>9. b = NoPage => G = {}
  BY FromNone
<1>b. (a = s => b = n) /\ (a # s => b = a)
  OBVIOUS
<1>p. p = NoPage \/ p \in Slots
  BY <1>1, <1>2
<1> HIDE DEF b, p, n, F, G
<1>10. G \subseteq F \ {s}
  <2>1. CASE b = NoPage
    BY <2>1, <1>9
  <2>2. CASE b # NoPage
    <3> DEFINE T == F \ {s}
    <3>1. b \in T
      <4>1. CASE a = s
        BY <4>1, <1>5, <1>7, <1>b, <2>2 DEF n
      <4>2. CASE a # s
        BY <4>2, <1>5, <1>b
      <4> QED  BY <4>1, <4>2
    <3>2. \A x \in T : g[x] \in T \cup {NoPage}
      <4> SUFFICES ASSUME NEW x \in F, x # s
                   PROVE  g[x] \in T \cup {NoPage}
        OBVIOUS
      <4>1. CASE x = p
        <5>1. s \in F
          BY <4>1, <1>4, <1>5, <1>6, NoPageApart, <1>1
        <5>2. n \in F \cup {NoPage}
          BY <5>1, <1>5 DEF n
        <5>3. g[x] = n
          BY <4>1, <1>3, <1>6, <1>1, NoPageApart
        <5> QED  BY <5>2, <5>3, <1>2
      <4>2. CASE x # p
        <5>1. g[x] = c.next[x]
          BY <4>2, <1>3, <1>5
        <5>2. c.next[x] # s
          BY <4>2, <1>4, <1>6
        <5> QED  BY <5>1, <5>2, <1>5
      <4> QED  BY <4>1, <4>2
    <3>3. T \subseteq Slots
      BY <1>5
    <3> HIDE DEF T
    <3>4. From(g, b) \subseteq T
      BY <3>1, <3>2, <3>3, FromLeast
    <3> QED  BY <3>4 DEF T, G
  <2> QED  BY <2>1, <2>2
<1>11. F \ {s} \subseteq G
  <2>1. CASE a = s \/ p \in G
    <3> DEFINE T == G \cup {s}
    <3>1. a \in T /\ T \subseteq Slots
      BY <2>1, <1>1, <1>7, <1>8, <1>9, <1>b, NoPageApart
    <3>2. n \in T \cup {NoPage}
      <4>1. CASE a = s
        BY <4>1, <1>b, <1>8
      <4>2. CASE a # s
        <5>1. p \in G /\ b # NoPage /\ p # NoPage
          BY <4>2, <2>1, <1>8, <1>9, NoPageApart
        <5> QED  BY <5>1, <1>3, <1>8
      <4> QED  BY <4>1, <4>2
    <3>3. \A x \in T : c.next[x] \in T \cup {NoPage}
      <4> SUFFICES ASSUME NEW x \in T
                   PROVE  c.next[x] \in T \cup {NoPage}
        OBVIOUS
      <4>1. CASE x = s
        BY <4>1, <3>2 DEF n
      <4>2. CASE x # s /\ x = p
        BY <4>2, <1>4, <1>1, <1>2, <3>1, NoPageApart
      <4>3. CASE x # s /\ x # p
        <5>1. x \in G /\ b # NoPage
          BY <4>3, <1>9
        <5> QED  BY <5>1, <4>3, <1>3, <1>8
      <4> QED  BY <4>1, <4>2, <4>3
    <3> HIDE DEF T
    <3>4. From(c.next, a) \subseteq T
      BY <3>1, <3>3, FromLeast
    <3> QED  BY <3>4 DEF T, F
  <2>2. CASE a # s /\ p \notin G
    <3>1. b = a /\ b # NoPage
      BY <2>2, <1>b, <1>1, NoPageApart
    <3>2. a \in G /\ G \subseteq Slots /\ \A x \in G : c.next[x] \in G \cup {NoPage}
      BY <3>1, <2>2, <1>3, <1>8
    <3>3. From(c.next, a) \subseteq G
      BY <3>2, FromLeast
    <3> QED  BY <3>3 DEF F
  <2> QED  BY <2>1, <2>2
<1>12. G = F \ {s}
  BY <1>10, <1>11
<1> QED  BY <1>12 DEF G, F, b, n

\* A page leaves a chain.
LEMMA CutOut ==
  ASSUME NEW c, NEW S, ChainSound(c, S), NEW s \in S,
         NEW u, u.head = IF c.prev[s] = NoPage THEN c.next[s] ELSE c.head,
         u.next = Link(c.next, c.prev[s], c.next[s]), u.prev = Link(c.prev, c.next[s], c.prev[s])
  PROVE  /\ ChainSound(u, S \ {s})
         /\ \A x \in S \ {s} : u.next[x] = IF c.next[x] = s THEN c.next[s] ELSE c.next[x]
<1>1. /\ Ends(c.next) /\ Ends(c.prev) /\ S \subseteq Slots
      /\ c.head = NoPage <=> S = {}
      /\ c.head # NoPage => c.head \in S
      /\ \A x \in S : /\ c.next[x] \in S \cup {NoPage} /\ c.prev[x] \in S \cup {NoPage}
                      /\ c.next[x] # x /\ c.prev[x] # x
                      /\ c.prev[x] = NoPage <=> x = c.head
      /\ \A x, y \in S : c.next[x] = y <=> c.prev[y] = x
  BY ChainFacts
<1> DEFINE p == c.prev[s]
           n == c.next[s]
<1>2. /\ n \in S \cup {NoPage} /\ n # s /\ p \in S \cup {NoPage} /\ p # s
      /\ s \in Slots /\ c.head \in S
  BY <1>1
<1>3. Ends(u.next) /\ (\A x \in Slots : x # p => u.next[x] = c.next[x]) /\ (p # NoPage => u.next[p] = n)
  BY <1>1, <1>2, LinkFacts
<1>4. Ends(u.prev) /\ (\A x \in Slots : x # n => u.prev[x] = c.prev[x]) /\ (n # NoPage => u.prev[n] = p)
  BY <1>1, <1>2, LinkFacts
<1>5. (\A x \in S : c.next[x] = s <=> x = p) /\ (\A x \in S : c.prev[x] = s <=> x = n)
      /\ (p = NoPage <=> s = c.head)
  BY <1>1
<1>6. u.head = IF c.head = s THEN c.next[s] ELSE c.head
  BY <1>5
<1>7. From(c.next, c.head) = S
  BY DEF ChainSound
<1>8. From(u.next, u.head) = S \ {s}
  BY <1>2, <1>6, <1>7, CutFrom
<1>9. \A x \in S \ {s} : u.next[x] = IF c.next[x] = s THEN c.next[s] ELSE c.next[x]
  BY <1>1, <1>3, <1>5, NoPageApart
<1>n. (n # NoPage => n \in S) /\ (p # NoPage => p \in S) /\ NoPage \notin S
  BY <1>1, <1>2, NoPageApart
<1>h. u.head \in S \cup {NoPage} /\ (p = NoPage => u.head = n) /\ (p # NoPage => u.head = c.head)
  BY <1>1, <1>2
<1> HIDE DEF p, n
<1>10. u.head # NoPage => u.prev[u.head] = NoPage
  <2>1. CASE p = NoPage
    BY <2>1, <1>4, <1>h
  <2>2. CASE p # NoPage
    <3>1. c.head # n
      <4> SUFFICES ASSUME c.head = n
                   PROVE  FALSE
        OBVIOUS
      <4>1. c.prev[n] = s /\ c.prev[c.head] = NoPage
        BY <1>1, <1>2, <1>5, <1>n
      <4> QED  BY <4>1, <1>1, NoPageApart
    <3> QED  BY <2>2, <3>1, <1>1, <1>2, <1>4, <1>h
  <2> QED  BY <2>1, <2>2
<1>11. \A x \in S \ {s} : u.next[x] # NoPage => u.prev[u.next[x]] = x
  <2> SUFFICES ASSUME NEW x \in S, x # s, u.next[x] # NoPage
               PROVE  u.prev[u.next[x]] = x
    OBVIOUS
  <2>1. CASE x = p
    BY <2>1, <1>3, <1>4, <1>n
  <2>2. CASE x # p
    <3>1. u.next[x] = c.next[x] /\ c.next[x] \in S
      BY <2>2, <1>1, <1>3
    <3>2. c.next[x] # n
      <4> SUFFICES ASSUME c.next[x] = n
                   PROVE  FALSE
        OBVIOUS
      <4>1. n \in S /\ c.prev[n] = x /\ c.prev[n] = s
        BY <3>1, <1>1, <1>5
      <4> QED  BY <4>1
    <3>3. c.prev[c.next[x]] = x
      BY <3>1, <1>1
    <3> QED  BY <3>1, <3>2, <3>3, <1>1, <1>4
  <2> QED  BY <2>1, <2>2
<1>12. ChainSound(u, S \ {s})
  BY <1>1, <1>3, <1>4, <1>8, <1>10, <1>11, <1>h DEF ChainSound, Ends
<1> QED  BY <1>9, <1>12

-----------------------------------------------------------------------------
(* The empty chain                                                         *)

Stamps == [Slots -> 0 .. HoldTime]

\* EmptyChainSound of a chain c of the pages E.
EmptyOk(c, E, age, quiet) ==
  /\ ChainSound(c, E)
  /\ c.tail = NoPage => c.head = NoPage
  /\ \A s \in E : c.next[s] = NoPage <=> s = c.tail
  /\ c.tail # NoPage => c.tail \in E
  /\ c.unstamped # NoPage => c.unstamped \in E /\ c.tail \in From(c.next, c.unstamped)
  /\ \A s \in E \ From(c.next, c.unstamped) :
       /\ quiet[s] >= age[s]
       /\ \A x \in E : c.next[x] = s => age[x] >= age[s]

\* A page that empties joins the end, where nothing has its stamp yet.
LEMMA EmptyPushed ==
  ASSUME NEW c, NEW E, NEW age, NEW quiet, EmptyOk(c, E, age, quiet),
         NEW s \in Slots, s \notin E
  PROVE  EmptyOk(PushEmpty(c, s), E \cup {s}, age, quiet)
<1> DEFINE u == PushEmpty(c, s)
           t == c.tail
           D == E \cup {s}
<1>1. /\ u.head = (IF t = NoPage THEN s ELSE c.head) /\ u.tail = s
      /\ u.unstamped = (IF c.unstamped = NoPage THEN s ELSE c.unstamped)
      /\ u.next = Link(Link(c.next, s, NoPage), t, s) /\ u.prev = Link(c.prev, s, t)
  BY DEF PushEmpty
<1>2. /\ ChainSound(c, E)
      /\ t = NoPage => c.head = NoPage
      /\ \A x \in E : c.next[x] = NoPage <=> x = t
      /\ t # NoPage => t \in E
      /\ c.unstamped # NoPage => c.unstamped \in E /\ t \in From(c.next, c.unstamped)
      /\ \A x \in E \ From(c.next, c.unstamped) :
           /\ quiet[x] >= age[x]
           /\ \A y \in E : c.next[y] = x => age[y] >= age[x]
  BY DEF EmptyOk
<1>3. E \subseteq Slots /\ (c.head = NoPage <=> E = {}) /\ s # NoPage /\ NoPage \notin E
  BY <1>2, ChainFacts, NoPageApart
<1>4. t = NoPage <=> E = {}
  BY <1>2, <1>3
<1> HIDE DEF u, t
<1>5. /\ ChainSound(u, D)
      /\ \A x \in D : u.next[x] = NoPage <=> x = s
      /\ \A x \in E : u.next[x] = IF x = t THEN s ELSE c.next[x]
      /\ From(u.next, s) = {s}
      /\ \A a \in E : t \in From(c.next, a) => From(u.next, a) = From(c.next, a) \cup {s}
  <2>1. t = NoPage <=> E = {}
    BY <1>4
  <2>2. t # NoPage => t \in E
    BY <1>2
  <2>3. \A x \in E : c.next[x] = NoPage <=> x = t
    BY <1>2
  <2>4. ChainSound(c, E)
    BY <1>2
  <2>5. JoinedBack(c, E, s, t, u)
    BY <1>1, <2>1, <2>2, <2>3, <2>4, PushedBack
  <2> QED  BY <2>5 DEF JoinedBack
<1>6. From(u.next, u.unstamped) = From(c.next, c.unstamped) \cup {s}
  <2>1. CASE c.unstamped = NoPage
    BY <2>1, <1>1, <1>5, FromNone
  <2>2. CASE c.unstamped # NoPage
    BY <2>2, <1>1, <1>2, <1>5
  <2> QED  BY <2>1, <2>2
<1>7. ASSUME NEW x \in D \ From(u.next, u.unstamped)
      PROVE  /\ quiet[x] >= age[x]
             /\ \A y \in D : u.next[y] = x => age[y] >= age[x]
  <2>1. x \in E \ From(c.next, c.unstamped) /\ x # s
    BY <1>6, <1>7
  <2>2. ASSUME NEW y \in D, u.next[y] = x
        PROVE  age[y] >= age[x]
    <3>1. y # s /\ y # t
      BY <2>1, <2>2, <1>3, <1>5
    <3>2. y \in E /\ c.next[y] = x
      BY <2>2, <3>1, <1>5
    <3> QED  BY <3>2, <2>1, <1>2
  <2> QED  BY <2>1, <2>2, <1>2
<1>8. u.unstamped # NoPage => u.unstamped \in D /\ u.tail \in From(u.next, u.unstamped)
  BY <1>1, <1>2, <1>6
<1>9. (u.tail = NoPage => u.head = NoPage) /\ u.tail \in D
  BY <1>1, <1>3
<1>10. \A x \in D : u.next[x] = NoPage <=> x = u.tail
  BY <1>1, <1>5
<1> HIDE DEF D
<1>11. EmptyOk(u, D, age, quiet)
  BY <1>5, <1>7, <1>8, <1>9, <1>10 DEF EmptyOk
<1> QED  BY <1>11 DEF u, D

\* A page that is used again, or given back, leaves the chain.
LEMMA EmptyCut ==
  ASSUME NEW c, NEW E, NEW age \in Stamps, NEW quiet, EmptyOk(c, E, age, quiet),
         NEW s \in E, NEW age1, NEW quiet1,
         \A x \in E : x # s => age1[x] = age[x] /\ quiet1[x] = quiet[x]
  PROVE  EmptyOk(UnlinkEmpty(c, s), E \ {s}, age1, quiet1)
<1> DEFINE u == UnlinkEmpty(c, s)
           p == c.prev[s]
           n == c.next[s]
           D == E \ {s}
           U == From(c.next, c.unstamped)
<1>1. /\ u.head = (IF p = NoPage THEN n ELSE c.head)
      /\ u.tail = (IF n = NoPage THEN p ELSE c.tail)
      /\ u.unstamped = (IF c.unstamped = s THEN n ELSE c.unstamped)
      /\ u.next = Link(c.next, p, n) /\ u.prev = Link(c.prev, n, p)
  BY DEF UnlinkEmpty
<1>2. /\ ChainSound(c, E)
      /\ c.tail = NoPage => c.head = NoPage
      /\ \A x \in E : c.next[x] = NoPage <=> x = c.tail
      /\ c.tail # NoPage => c.tail \in E
      /\ c.unstamped # NoPage => c.unstamped \in E /\ c.tail \in U
      /\ \A x \in E \ U :
           /\ quiet[x] >= age[x]
           /\ \A y \in E : c.next[y] = x => age[y] >= age[x]
  BY DEF EmptyOk
<1>3. /\ E \subseteq Slots /\ (c.head = NoPage <=> E = {}) /\ (c.head # NoPage => c.head \in E)
      /\ Ends(c.next)
      /\ \A x \in E : /\ c.next[x] \in E \cup {NoPage} /\ c.prev[x] \in E \cup {NoPage}
                      /\ c.next[x] # x /\ c.prev[x] # x
                      /\ c.prev[x] = NoPage <=> x = c.head
      /\ \A x, y \in E : c.next[x] = y <=> c.prev[y] = x
  BY <1>2, ChainFacts
<1>4. NoPage \notin E /\ s # NoPage
  BY <1>3, NoPageApart
<1>5. /\ n \in E \cup {NoPage} /\ p \in E \cup {NoPage} /\ n # s /\ p # s
      /\ n = NoPage <=> s = c.tail
      /\ p # NoPage => c.next[p] = s
      /\ \A x \in E : c.next[x] = s => x = p
  BY <1>2, <1>3, <1>4
<1>6. ChainSound(u, D) /\ \A x \in D : u.next[x] = IF c.next[x] = s THEN n ELSE c.next[x]
  BY <1>1, <1>2, CutOut
<1>7. From(u.next, u.unstamped) = U \ {s}
  <2>1. CASE c.unstamped = NoPage
    <3>1. u.unstamped = NoPage
      BY <2>1, <1>1, <1>4
    <3> QED  BY <2>1, <3>1, FromNone
  <2>2. CASE c.unstamped # NoPage
    <3>1. c.unstamped \in E
      BY <2>2, <1>2
    <3> QED  BY <3>1, <1>1, <1>2, CutFrom
  <2> QED  BY <2>1, <2>2
<1>8. \A x \in U : c.next[x] \in U \cup {NoPage}
  <2>1. CASE c.unstamped = NoPage
    BY <2>1, FromNone
  <2>2. CASE c.unstamped # NoPage
    <3>1. c.unstamped \in Slots
      BY <2>2, <1>2, <1>3
    <3> QED  BY <3>1, <1>3, FromFacts
  <2> QED  BY <2>1, <2>2
<1> HIDE DEF u, p, n, U
<1>9. ASSUME NEW x \in D \ From(u.next, u.unstamped)
      PROVE  /\ quiet1[x] >= age1[x]
             /\ \A y \in D : u.next[y] = x => age1[y] >= age1[x]
  <2>1. x \in E \ U /\ x # s
    BY <1>7, <1>9
  <2>2. ASSUME NEW y \in D, u.next[y] = x
        PROVE  age1[y] >= age1[x]
    <3>1. y \in E /\ y # s /\ age1[y] = age[y] /\ age1[x] = age[x]
      BY <2>1, <2>2
    <3>2. CASE c.next[y] # s
      <4>1. c.next[y] = x
        BY <3>1, <3>2, <2>2, <1>6
      <4> QED  BY <4>1, <3>1, <2>1, <1>2
    <3>3. CASE c.next[y] = s
      <4>1. n = x /\ s \notin U
        BY <3>1, <3>3, <2>1, <2>2, <1>6, <1>8, <1>4 DEF n
      <4>2. age[y] >= age[s] /\ age[s] >= age[x]
        BY <4>1, <3>1, <3>3, <2>1, <1>2 DEF n
      <4>3. age[y] \in Int /\ age[s] \in Int /\ age[x] \in Int
        BY <3>1, <2>1, <1>3 DEF Stamps
      <4> QED  BY <4>2, <4>3, <3>1
    <3> QED  BY <3>2, <3>3
  <2> QED  BY <2>1, <2>2, <1>2
<1>10. \A x \in D : u.next[x] = NoPage <=> x = u.tail
  <2> SUFFICES ASSUME NEW x \in E, x # s
               PROVE  u.next[x] = NoPage <=> x = u.tail
    OBVIOUS
  <2>1. u.next[x] = IF x = p THEN n ELSE c.next[x]
    <3>1. c.next[x] = s <=> x = p
      BY <1>4, <1>5
    <3>2. u.next[x] = IF c.next[x] = s THEN n ELSE c.next[x]
      BY <1>6
    <3> QED  BY <3>1, <3>2
  <2>2. CASE n = NoPage
    <3>1. u.tail = p /\ s = c.tail
      BY <2>2, <1>1, <1>5
    <3> QED  BY <2>1, <2>2, <3>1, <1>2
  <2>3. CASE n # NoPage
    <3>1. u.tail = c.tail /\ p # c.tail
      <4>1. u.tail = c.tail
        BY <2>3, <1>1
      <4>2. ASSUME p = c.tail
            PROVE  FALSE
        <5>1. c.tail # NoPage
          BY <1>2, <1>3
        <5>2. c.next[p] = s /\ c.next[c.tail] = NoPage
          BY <5>1, <4>2, <1>2, <1>5
        <5> QED  BY <5>2, <4>2, <1>4
      <4> QED  BY <4>1, <4>2
    <3> QED  BY <2>1, <2>3, <3>1, <1>2
  <2> QED  BY <2>2, <2>3
<1>11. u.tail # NoPage => u.tail \in D
  BY <1>1, <1>2, <1>5
<1>12. u.tail = NoPage => u.head = NoPage
  <2> SUFFICES ASSUME u.tail = NoPage
               PROVE  u.head = NoPage
    OBVIOUS
  <2>1. n = NoPage
    BY <1>1, <1>2, <1>3
  <2>2. p = NoPage
    BY <2>1, <1>1
  <2> QED  BY <2>1, <2>2, <1>1
<1>13. u.unstamped # NoPage => u.unstamped \in D /\ u.tail \in From(u.next, u.unstamped)
  <2> SUFFICES ASSUME u.unstamped # NoPage
               PROVE  u.unstamped \in D /\ u.tail \in U \ {s}
    BY <1>7
  <2>1. c.unstamped # NoPage /\ c.unstamped \in E /\ c.tail \in U
    BY <1>1, <1>2, <1>4
  <2>2. u.unstamped \in D
    BY <2>1, <1>1, <1>5
  <2>3. u.tail \in U \ {s}
    <3>1. CASE n # NoPage
      BY <3>1, <2>1, <1>1, <1>5
    <3>2. CASE n = NoPage
      <4>1. u.unstamped \in U \ {s}
        <5>1. Ends(u.next) /\ u.unstamped \in Slots
          BY <2>2, <1>3, <1>6 DEF ChainSound, Ends
        <5> QED  BY <5>1, <1>7, FromFacts
      <4>2. \E x \in U \ {s} : u.next[x] = NoPage
        <5> SUFFICES ASSUME \A x \in U \ {s} : u.next[x] # NoPage
                     PROVE  FALSE
          OBVIOUS
        <5> DEFINE T == U \ {s}
        <5>1. p \notin T
          <6> SUFFICES ASSUME p \in T
                       PROVE  FALSE
            OBVIOUS
          <6>1. p \in E
            BY <1>5, <1>3, NoPageApart DEF U, From
          <6>2. u.next[p] = NoPage
            BY <6>1, <1>5, <1>6, <3>2, <1>4
          <6> QED  BY <6>2
        <5>2. U \subseteq E
          <6>1. \A x \in E : c.next[x] \in E \cup {NoPage}
            BY <1>3
          <6> QED  BY <6>1, <2>1, <1>3, FromLeast DEF U
        <5>3. \A x \in T : c.next[x] \in T \cup {NoPage}
          BY <5>1, <5>2, <1>5, <1>8
        <5>4. c.unstamped \in T
          BY <4>1, <3>2, <1>1, <2>2, <1>4
        <5>5. T \subseteq Slots
          BY <5>2, <1>3
        <5> HIDE DEF T
        <5>6. U \subseteq T
          BY <5>3, <5>4, <5>5, FromLeast DEF U
        <5>7. s = c.tail
          BY <3>2, <1>5
        <5> QED  BY <5>6, <5>7, <2>1 DEF T
      <4>3. PICK x \in U \ {s} : u.next[x] = NoPage
        BY <4>2
      <4>4. U \subseteq E
        <5>1. \A y \in E : c.next[y] \in E \cup {NoPage}
          BY <1>3
        <5> QED  BY <5>1, <2>1, <1>3, FromLeast DEF U
      <4>5. x = u.tail
        BY <4>3, <4>4, <1>10
      <4> QED  BY <4>3, <4>5
    <3> QED  BY <3>1, <3>2
  <2> QED  BY <2>2, <2>3
<1> HIDE DEF D
<1>14. EmptyOk(u, D, age1, quiet1)
  BY <1>6, <1>9, <1>10, <1>11, <1>12, <1>13 DEF EmptyOk
<1> QED  BY <1>14 DEF u, D

\* Only the stamps and the times of pages on the chain matter.
LEMMA EmptySame ==
  ASSUME NEW c, NEW E, NEW age, NEW quiet, EmptyOk(c, E, age, quiet),
         NEW age1, NEW quiet1, \A x \in E : age1[x] = age[x] /\ quiet1[x] = quiet[x]
  PROVE  EmptyOk(c, E, age1, quiet1)
BY DEF EmptyOk

\* The page that has been empty for longest comes first.
LEMMA HeadOldest ==
  ASSUME NEW c, NEW E, NEW age \in Stamps, NEW quiet, EmptyOk(c, E, age, quiet),
         c.unstamped = NoPage
  PROVE  \A s \in E : age[c.head] >= age[s] /\ quiet[s] >= age[s]
<1>1. /\ ChainSound(c, E) /\ From(c.next, c.head) = E
      /\ \A s \in E : /\ quiet[s] >= age[s]
                      /\ \A x \in E : c.next[x] = s => age[x] >= age[s]
  BY FromNone DEF EmptyOk, ChainSound
<1>2. /\ E \subseteq Slots /\ (c.head = NoPage <=> E = {}) /\ (c.head # NoPage => c.head \in E)
      /\ \A s \in E : c.next[s] \in E \cup {NoPage}
  BY <1>1, ChainFacts
<1> SUFFICES ASSUME E # {}
             PROVE  \A s \in E : age[c.head] >= age[s]
  BY <1>1
<1> DEFINE T == {s \in E : age[c.head] >= age[s]}
<1>3. \A s \in E : age[s] \in Int
  BY <1>2 DEF Stamps
<1>4. c.head \in T
  BY <1>2, <1>3
<1>5. \A x \in T : c.next[x] \in T \cup {NoPage}
  <2> SUFFICES ASSUME NEW x \in T, c.next[x] # NoPage
               PROVE  c.next[x] \in T
    OBVIOUS
  <2>1. c.next[x] \in E /\ age[x] >= age[c.next[x]] /\ age[c.head] >= age[x]
    BY <1>1, <1>2
  <2> QED  BY <2>1, <1>2, <1>3
<1>6. T \subseteq Slots
  BY <1>2
<1> HIDE DEF T
<1>7. E \subseteq T
  BY <1>1, <1>4, <1>5, <1>6, FromLeast
<1> QED  BY <1>7 DEF T

-----------------------------------------------------------------------------
(* PagesSound, part by part                                                *)

Unused(p) == {s \in p.data : p.used[s] = 0}
InUse(h, s) == {n \in Nodes : <<s, n>> \in h}

PagesTyped(p, q) ==
  /\ p.made \in 0 .. MaxPages /\ p.freeSlots \in Seq(Slots)
  /\ p.used \in [Slots -> 0 .. BlockSize]
  /\ p.age \in Stamps /\ q \in Stamps

AvailOk(c, free) ==
  ChainSound(c, c.pages) /\ \A s \in Slots : s \in c.pages <=> free[s] # {}

HeldOk(p, h) ==
  /\ h \subseteq p.data \X Nodes
  /\ \A s \in Slots :
       /\ p.free[s] = IF s \in p.data THEN Nodes \ InUse(h, s) ELSE {}
       /\ s \in p.data => p.used[s] = Cardinality(InUse(h, s))

SlotsOk(p) ==
  /\ p.data \subseteq 0 .. p.made - 1 /\ Distinct(p.freeSlots)
  /\ ToSet(p.freeSlots) = (0 .. p.made - 1) \ p.data

\* PagesSound without the trim: pages p, nodes h in use, pages idle for q.
PagesOk(p, h, q) ==
  /\ PagesTyped(p, q) /\ EmptyOk(p.empty, Unused(p), p.age, q)
  /\ AvailOk(p.avail, p.free) /\ HeldOk(p, h) /\ SlotsOk(p)

TrimTypes == [on : BOOLEAN, hold : {0, HoldTime}, left : Nat, due : SUBSET Slots]

TrimOk(p, t) ==
  t.on =>
    /\ p.empty.unstamped = NoPage
    /\ \A s \in t.due \cap Unused(p) : p.age[s] >= t.hold
    /\ t.hold = 0 => Cardinality(Unused(p)) <= t.left

LEMMA PagesSoundIs ==
  ASSUME PagesSound
  PROVE  PagesOk(pool, held, idle) /\ trim \in TrimTypes /\ TrimOk(pool, trim)
<1>1. PoolTyped /\ EmptyChainSound /\ NodesSound /\ TrimSound
  BY DEF PagesSound
<1>u. EmptyPages = Unused(pool)
  BY DEF EmptyPages, Unused
<1>2. PagesTyped(pool, idle) /\ trim \in TrimTypes
  BY <1>1 DEF PoolTyped, PagesTyped, TrimTypes, Stamps
<1>3. EmptyOk(pool.empty, Unused(pool), pool.age, idle)
  BY <1>1, <1>u DEF EmptyChainSound, EmptyOk
<1>4. HeldOk(pool, held)
  BY <1>1 DEF NodesSound, HeldOk, InUse
<1>5. SlotsOk(pool)
  BY <1>1 DEF NodesSound, SlotsOk, Distinct, IsInjective
<1>6. AvailOk(pool.avail, pool.free)
  BY <1>1 DEF NodesSound, AvailOk
<1>7. TrimOk(pool, trim)
  BY <1>1, <1>u DEF TrimSound, TrimOk
<1> QED  BY <1>2, <1>3, <1>4, <1>5, <1>6, <1>7 DEF PagesOk

LEMMA PagesSoundIf ==
  ASSUME PagesOk(pool, held, idle), trim \in TrimTypes, TrimOk(pool, trim)
  PROVE  PagesSound
<1>1. /\ PagesTyped(pool, idle) /\ EmptyOk(pool.empty, Unused(pool), pool.age, idle)
      /\ AvailOk(pool.avail, pool.free) /\ HeldOk(pool, held) /\ SlotsOk(pool)
  BY DEF PagesOk
<1>u. EmptyPages = Unused(pool)
  BY DEF EmptyPages, Unused
<1>2. PoolTyped
  BY <1>1 DEF PoolTyped, PagesTyped, TrimTypes, Stamps
<1>3. EmptyChainSound
  BY <1>1, <1>u DEF EmptyChainSound, EmptyOk
<1>4. pool.avail.pages = {s \in Slots : pool.free[s] # {}} /\ ChainSound(pool.avail, pool.avail.pages)
  <2>1. ChainSound(pool.avail, pool.avail.pages)
    BY <1>1 DEF AvailOk
  <2>2. pool.avail.pages \subseteq Slots
    BY <2>1, ChainFacts
  <2> QED  BY <1>1, <2>1, <2>2 DEF AvailOk
<1>5. NodesSound
  BY <1>1, <1>4 DEF NodesSound, HeldOk, InUse, SlotsOk, Distinct, IsInjective
<1>6. TrimSound
  BY <1>u DEF TrimSound, TrimOk
<1> QED  BY <1>2, <1>3, <1>5, <1>6 DEF PagesSound

LEMMA PagesSoundThen ==
  ASSUME PagesOk(pool', held', idle'), trim' \in TrimTypes, TrimOk(pool', trim')
  PROVE  PagesSound'
<1>1. /\ PagesTyped(pool', idle') /\ EmptyOk(pool'.empty, Unused(pool'), pool'.age, idle')
      /\ AvailOk(pool'.avail, pool'.free) /\ HeldOk(pool', held') /\ SlotsOk(pool')
  BY DEF PagesOk
<1>u. EmptyPages' = Unused(pool')
  BY DEF EmptyPages, Unused
<1>2. PoolTyped'
  BY <1>1 DEF PoolTyped, PagesTyped, TrimTypes, Stamps
<1>3. EmptyChainSound'
  BY <1>1, <1>u DEF EmptyChainSound, EmptyOk
<1>4. /\ pool'.avail.pages = {s \in Slots : pool'.free[s] # {}}
      /\ ChainSound(pool'.avail, pool'.avail.pages)
  <2>1. ChainSound(pool'.avail, pool'.avail.pages)
    BY <1>1 DEF AvailOk
  <2>2. pool'.avail.pages \subseteq Slots
    BY <2>1, ChainFacts
  <2> QED  BY <1>1, <2>1, <2>2 DEF AvailOk
<1>5. NodesSound'
  BY <1>1, <1>4 DEF NodesSound, HeldOk, InUse, SlotsOk, Distinct, IsInjective
<1>6. TrimSound'
  BY <1>u DEF TrimSound, TrimOk
<1> QED  BY <1>2, <1>3, <1>5, <1>6 DEF PagesSound

\* A page has a node in use as often as used says, at most BlockSize times.
LEMMA InUseFacts ==
  ASSUME NEW h, NEW s
  PROVE  /\ IsFiniteSet(InUse(h, s)) /\ Cardinality(InUse(h, s)) \in 0 .. BlockSize
         /\ Cardinality(InUse(h, s)) = 0 <=> InUse(h, s) = {}
<1>1. IsFiniteSet(Nodes) /\ Cardinality(Nodes) = BlockSize
  BY PoolAssumption, FS_Interval DEF Nodes
<1>2. InUse(h, s) \subseteq Nodes
  BY DEF InUse
<1>3. /\ IsFiniteSet(InUse(h, s)) /\ Cardinality(InUse(h, s)) <= BlockSize
      /\ Cardinality(InUse(h, s)) \in Nat
  BY <1>1, <1>2, FS_Subset, FS_CardinalityType
<1> QED  BY <1>3, FS_EmptySet, PoolAssumption

\* The slots and pages the parts of PagesOk speak of.
LEMMA PageFacts ==
  ASSUME NEW p, NEW h, NEW q, PagesOk(p, h, q)
  PROVE  /\ p.data \subseteq Slots /\ Unused(p) \subseteq Slots /\ Unused(p) \subseteq p.data
         /\ p.avail.pages \subseteq Slots
         /\ p.avail.head = NoPage <=> p.avail.pages = {}
         /\ p.avail.head # NoPage => p.avail.head \in p.avail.pages
         /\ \A s \in p.avail.pages : s \in p.data /\ p.free[s] # {}
         /\ \A s \in p.data : p.used[s] = 0 <=> InUse(h, s) = {}
         /\ p.empty.head = NoPage <=> Unused(p) = {}
         /\ p.empty.head # NoPage => p.empty.head \in Unused(p)
<1>1. /\ PagesTyped(p, q) /\ EmptyOk(p.empty, Unused(p), p.age, q)
      /\ AvailOk(p.avail, p.free) /\ HeldOk(p, h) /\ SlotsOk(p)
  BY DEF PagesOk
<1>2. p.data \subseteq Slots
  BY <1>1, PoolAssumption DEF PagesTyped, SlotsOk, Slots
<1>3. /\ p.avail.pages \subseteq Slots
      /\ p.avail.head = NoPage <=> p.avail.pages = {}
      /\ p.avail.head # NoPage => p.avail.head \in p.avail.pages
  BY <1>1, ChainFacts DEF AvailOk
<1>4. \A s \in p.avail.pages : s \in p.data /\ p.free[s] # {}
  BY <1>1, <1>3 DEF AvailOk, HeldOk
<1>5. \A s \in p.data : p.used[s] = 0 <=> InUse(h, s) = {}
  BY <1>1, <1>2, InUseFacts DEF HeldOk
<1>6. /\ p.empty.head = NoPage <=> Unused(p) = {}
      /\ p.empty.head # NoPage => p.empty.head \in Unused(p)
  BY <1>1, ChainFacts DEF EmptyOk
<1> QED  BY <1>2, <1>3, <1>4, <1>5, <1>6 DEF Unused

\* The slot of a new page.
Slot(p) == IF p.freeSlots # <<>> THEN Last(p.freeSlots) ELSE p.made

\* A new page takes a slot without a page.
LEMMA SlotFacts ==
  ASSUME NEW p, NEW q, PagesTyped(p, q), SlotsOk(p), CanAlloc(p), NEW u, u = Alloc(p)
  PROVE  /\ Slot(p) \in Slots /\ Slot(p) \notin p.data /\ SlotsOk(u)
         /\ u.made \in 0 .. MaxPages /\ u.freeSlots \in Seq(Slots)
         /\ u.data = p.data \cup {Slot(p)}
<1> DEFINE s == Slot(p)
           f == p.freeSlots
<1>1. /\ p.made \in 0 .. MaxPages /\ f \in Seq(Slots) /\ MaxPages \in Nat
      /\ p.data \subseteq 0 .. p.made - 1 /\ Distinct(f)
      /\ ToSet(f) = (0 .. p.made - 1) \ p.data
  BY PoolAssumption DEF PagesTyped, SlotsOk
<1>2. /\ u.data = p.data \cup {s}
      /\ u.freeSlots = (IF f # <<>> THEN Front(f) ELSE <<>>)
      /\ u.made = (IF f # <<>> THEN p.made ELSE p.made + 1)
  BY DEF Alloc, Slot
<1>3. CASE f # <<>>
  <2>1. /\ Front(f) \in Seq(Slots) /\ s \in ToSet(f) /\ Distinct(Front(f)) /\ s \notin ToSet(Front(f))
        /\ ToSet(Front(f)) \subseteq ToSet(f) /\ ToSet(f) \subseteq ToSet(Front(f)) \cup {s}
    <3>1. s = Last(f)
      BY <1>3 DEF Slot
    <3> HIDE DEF s, f
    <3> QED  BY <3>1, <1>1, <1>3, FrontFacts
  <2>2. s \in Slots /\ s \notin p.data /\ s \in 0 .. p.made - 1
    BY <2>1, <1>1 DEF Slots
  <2>3. u.made = p.made /\ u.freeSlots = Front(f)
    BY <1>2, <1>3
  <2> HIDE DEF s, f
  <2>4. SlotsOk(u)
    BY <2>1, <2>2, <2>3, <1>1, <1>2 DEF SlotsOk
  <2> QED  BY <2>1, <2>2, <2>3, <2>4, <1>1, <1>2 DEF s
<1>4. CASE f = <<>>
  <2>1. p.made < MaxPages /\ s = p.made
    BY <1>4 DEF CanAlloc, Slot
  <2>2. ToSet(f) = {}
    BY <1>4 DEF ToSet
  <2>3. u.made = p.made + 1 /\ u.freeSlots = <<>> /\ ToSet(u.freeSlots) = {} /\ Distinct(u.freeSlots)
        /\ u.freeSlots \in Seq(Slots)
    BY <1>1, <1>2, <1>4 DEF ToSet, Distinct
  <2> HIDE DEF s, f
  <2>4. s \in Slots /\ s \notin p.data /\ 0 .. u.made - 1 = (0 .. p.made - 1) \cup {s}
    BY <2>1, <2>3, <1>1 DEF Slots
  <2>5. SlotsOk(u)
    BY <2>2, <2>3, <2>4, <1>1, <1>2 DEF SlotsOk
  <2>6. u.made \in 0 .. MaxPages
    BY <2>1, <2>3, <1>1
  <2> QED  BY <2>3, <2>4, <2>5, <2>6, <1>2 DEF s
<1> QED  BY <1>3, <1>4

\* A new page is empty.
LEMMA AllocKeeps ==
  ASSUME NEW p, NEW h, NEW q, PagesOk(p, h, q), p.avail.head = NoPage, CanAlloc(p),
         NEW u, u = Alloc(p)
  PROVE  /\ PagesOk(u, h, q) /\ u.avail.head # NoPage
         /\ p.data \subseteq u.data
<1> DEFINE s == Slot(p)
<1>1. /\ PagesTyped(p, q) /\ EmptyOk(p.empty, Unused(p), p.age, q)
      /\ AvailOk(p.avail, p.free) /\ HeldOk(p, h) /\ SlotsOk(p)
  BY DEF PagesOk
<1>2. /\ s \in Slots /\ s \notin p.data /\ SlotsOk(u)
      /\ u.made \in 0 .. MaxPages /\ u.freeSlots \in Seq(Slots)
      /\ u.data = p.data \cup {s}
  BY <1>1, SlotFacts
<1>3. /\ p.data \subseteq Slots /\ p.avail.pages = {}
      /\ Unused(p) \subseteq p.data /\ Unused(p) \subseteq Slots
  BY PageFacts
<1>4. /\ u.free = Link(p.free, s, Nodes) /\ u.used = Link(p.used, s, 0) /\ u.age = p.age
      /\ u.avail = PushAvail(p.avail, s) /\ u.empty = PushEmpty(p.empty, s)
  BY DEF Alloc, Slot
<1> HIDE DEF s
<1>5. /\ u.free[s] = Nodes /\ u.used[s] = 0
      /\ \A x \in Slots : x # s => u.free[x] = p.free[x] /\ u.used[x] = p.used[x]
  BY <1>2, <1>4, LinkFacts
<1>6. PagesTyped(u, q)
  <2>1. u.used \in [Slots -> 0 .. BlockSize]
    BY <1>1, <1>4, PoolAssumption DEF PagesTyped, Link
  <2> QED  BY <2>1, <1>1, <1>2, <1>4 DEF PagesTyped
<1>7. Unused(u) = Unused(p) \cup {s}
  BY <1>2, <1>3, <1>5 DEF Unused
<1>8. EmptyOk(u.empty, Unused(u), u.age, q)
  <2>1. s \notin Unused(p)
    BY <1>2, <1>3
  <2>2. EmptyOk(PushEmpty(p.empty, s), Unused(p) \cup {s}, p.age, q)
    BY <2>1, <1>1, <1>2, EmptyPushed
  <2> QED  BY <2>2, <1>4, <1>7
<1>9. AvailOk(u.avail, u.free) /\ u.avail.head = s
  <2> DEFINE c == p.avail
             d == u.avail
  <2>1. /\ d.head = s /\ d.pages = c.pages \cup {s}
        /\ d.next = Link(c.next, s, c.head) /\ d.prev = Link(Link(c.prev, s, NoPage), c.head, s)
    BY <1>4 DEF PushAvail
  <2>2. ChainSound(c, c.pages) /\ s \notin c.pages
    BY <1>1, <1>3 DEF AvailOk
  <2> HIDE DEF c, d
  <2>3. ChainSound(d, c.pages \cup {s})
    BY <2>1, <2>2, <1>2, PushedFront
  <2>4. Nodes # {}
    BY PoolAssumption DEF Nodes
  <2>5. \A x \in Slots : x \in d.pages <=> u.free[x] # {}
    BY <2>1, <2>4, <1>1, <1>5 DEF AvailOk, c
  <2>6. AvailOk(d, u.free)
    BY <2>1, <2>3, <2>5 DEF AvailOk
  <2> QED  BY <2>1, <2>6 DEF d
<1>10. HeldOk(u, h)
  <2>1. InUse(h, s) = {}
    BY <1>1, <1>2 DEF HeldOk, InUse
  <2>2. Cardinality(InUse(h, s)) = 0
    BY <2>1, FS_EmptySet
  <2>3. h \subseteq u.data \X Nodes
    BY <1>1, <1>2 DEF HeldOk
  <2>4. ASSUME NEW x \in Slots
        PROVE  /\ u.free[x] = IF x \in u.data THEN Nodes \ InUse(h, x) ELSE {}
               /\ x \in u.data => u.used[x] = Cardinality(InUse(h, x))
    <3>1. CASE x = s
      BY <3>1, <2>1, <2>2, <1>2, <1>5
    <3>2. CASE x # s
      BY <3>2, <1>1, <1>2, <1>5 DEF HeldOk
    <3> QED  BY <3>1, <3>2
  <2> QED  BY <2>3, <2>4 DEF HeldOk
<1>11. PagesOk(u, h, q)
  BY <1>2, <1>6, <1>8, <1>9, <1>10 DEF PagesOk
<1> QED  BY <1>2, <1>9, <1>11, NoPageApart

\* A free node of the first page with room is handed out.
LEMMA TakenKeeps ==
  ASSUME NEW p, NEW h, NEW q, PagesOk(p, h, q), p.avail.head # NoPage,
         NEW n \in p.free[p.avail.head], NEW u, u = Taken(p, n),
         NEW h1, h1 = h \cup {<<p.avail.head, n>>}, NEW q1, q1 = Link(q, p.avail.head, 0)
  PROVE  PagesOk(u, h1, q1) /\ u.data = p.data
<1> DEFINE s == p.avail.head
           rest == p.free[s] \ {n}
<1>1. /\ PagesTyped(p, q) /\ EmptyOk(p.empty, Unused(p), p.age, q)
      /\ AvailOk(p.avail, p.free) /\ HeldOk(p, h) /\ SlotsOk(p)
  BY DEF PagesOk
<1>2. /\ p.data \subseteq Slots /\ s \in p.avail.pages /\ s \in p.data /\ s \in Slots
      /\ Unused(p) \subseteq p.data /\ Unused(p) \subseteq Slots
  BY PageFacts
<1>3. /\ u.free = Link(p.free, s, rest) /\ u.used = Link(p.used, s, p.used[s] + 1)
      /\ u.age = (IF p.used[s] = 0 THEN Link(p.age, s, HoldTime) ELSE p.age)
      /\ u.avail = (IF rest = {} THEN UnlinkAvail(p.avail, s) ELSE p.avail)
      /\ u.empty = (IF p.used[s] = 0 THEN UnlinkEmpty(p.empty, s) ELSE p.empty)
      /\ u.freeSlots = p.freeSlots /\ u.made = p.made /\ u.data = p.data
  BY DEF Taken
<1>4. n \in Nodes /\ n \notin InUse(h, s) /\ p.used[s] = Cardinality(InUse(h, s))
      /\ p.free[s] = Nodes \ InUse(h, s) /\ n \in p.free[s]
  <2>1. n \in p.free[s]
    OBVIOUS
  <2> HIDE DEF s
  <2>2. p.free[s] = Nodes \ InUse(h, s) /\ p.used[s] = Cardinality(InUse(h, s))
    BY <1>1, <1>2 DEF HeldOk
  <2> QED  BY <2>1, <2>2
<1>5. InUse(h1, s) = InUse(h, s) \cup {n} /\ \A x \in Slots : x # s => InUse(h1, x) = InUse(h, x)
  <2>1. \A x, m : <<x, m>> \in h1 <=> <<x, m>> \in h \/ (x = s /\ m = n)
    OBVIOUS
  <2> HIDE DEF s
  <2> QED  BY <2>1, <1>4 DEF InUse
<1> HIDE DEF rest
<1>6. /\ u.free[s] = rest /\ u.used[s] = p.used[s] + 1
      /\ \A x \in Slots : x # s => u.free[x] = p.free[x] /\ u.used[x] = p.used[x]
      /\ q1[s] = 0 /\ \A x \in Slots : x # s => q1[x] = q[x]
      /\ \A x \in Slots : x # s => u.age[x] = p.age[x]
  BY <1>2, <1>3, LinkFacts
<1>7. u.used[s] = Cardinality(InUse(h1, s)) /\ u.used[s] \in 0 .. BlockSize /\ u.used[s] # 0
  <2>1. Cardinality(InUse(h, s) \cup {n}) = Cardinality(InUse(h, s)) + 1
    BY <1>4, InUseFacts, FS_AddElement
  <2>2. u.used[s] = Cardinality(InUse(h1, s))
    BY <2>1, <1>4, <1>5, <1>6
  <2> QED  BY <2>2, <1>4, <1>6, InUseFacts, PoolAssumption
<1>8. PagesTyped(u, q1)
  <2>1. u.used \in [Slots -> 0 .. BlockSize]
    <3>1. \A x \in Slots : u.used[x] \in 0 .. BlockSize
      BY <1>1, <1>6, <1>7 DEF PagesTyped
    <3> QED  BY <3>1, <1>3 DEF Link
  <2>2. u.age \in Stamps /\ q1 \in Stamps
    BY <1>1, <1>3, PoolAssumption DEF PagesTyped, Stamps, Link
  <2> QED  BY <2>1, <2>2, <1>1, <1>3 DEF PagesTyped
<1>9. Unused(u) = Unused(p) \ {s}
  BY <1>2, <1>3, <1>6, <1>7 DEF Unused
<1>10. EmptyOk(u.empty, Unused(u), u.age, q1)
  <2>1. CASE p.used[s] = 0
    <3>1. s \in Unused(p)
      BY <2>1, <1>2 DEF Unused
    <3>2. p.age \in Stamps
      BY <1>1 DEF PagesTyped
    <3>3. \A x \in Unused(p) : x # s => u.age[x] = p.age[x] /\ q1[x] = q[x]
      BY <1>2, <1>6
    <3>4. EmptyOk(UnlinkEmpty(p.empty, s), Unused(p) \ {s}, u.age, q1)
      BY <3>1, <3>2, <3>3, <1>1, EmptyCut
    <3> QED  BY <3>4, <2>1, <1>3, <1>9
  <2>2. CASE p.used[s] # 0
    <3>1. s \notin Unused(p) /\ Unused(u) = Unused(p)
      BY <2>2, <1>9 DEF Unused
    <3>2. \A x \in Unused(p) : u.age[x] = p.age[x] /\ q1[x] = q[x]
      BY <3>1, <1>2, <1>6
    <3>3. EmptyOk(p.empty, Unused(p), u.age, q1)
      BY <3>2, <1>1, EmptySame
    <3> QED  BY <3>1, <3>3, <2>2, <1>3
  <2> QED  BY <2>1, <2>2
<1>11. AvailOk(u.avail, u.free)
  <2> DEFINE c == p.avail
             d == u.avail
  <2>1. CASE rest = {}
    <3>1. /\ d.head = (IF c.prev[s] = NoPage THEN c.next[s] ELSE c.head) /\ d.pages = c.pages \ {s}
          /\ d.next = Link(c.next, c.prev[s], c.next[s]) /\ d.prev = Link(c.prev, c.next[s], c.prev[s])
      BY <2>1, <1>2, <1>3 DEF UnlinkAvail
    <3>2. ChainSound(c, c.pages) /\ s \in c.pages
      BY <1>1, <1>2 DEF AvailOk
    <3>3. \A x \in Slots : x \in c.pages <=> p.free[x] # {}
      BY <1>1 DEF AvailOk
    <3> HIDE DEF c, d, s
    <3>4. ChainSound(d, c.pages \ {s})
      BY <3>1, <3>2, CutOut
    <3>5. \A x \in Slots : x \in d.pages <=> u.free[x] # {}
      BY <2>1, <3>1, <3>3, <1>6
    <3>6. AvailOk(d, u.free)
      BY <3>1, <3>4, <3>5 DEF AvailOk
    <3> QED  BY <3>6 DEF d
  <2>2. CASE rest # {}
    <3>1. \A x \in Slots : p.free[x] # {} <=> u.free[x] # {}
      BY <2>2, <1>4, <1>6
    <3> QED  BY <2>2, <3>1, <1>1, <1>3 DEF AvailOk
  <2> QED  BY <2>1, <2>2
<1>12. HeldOk(u, h1)
  <2>1. h1 \subseteq u.data \X Nodes
    BY <1>1, <1>2, <1>3, <1>4 DEF HeldOk
  <2>2. ASSUME NEW x \in Slots
        PROVE  /\ u.free[x] = IF x \in u.data THEN Nodes \ InUse(h1, x) ELSE {}
               /\ x \in u.data => u.used[x] = Cardinality(InUse(h1, x))
    <3>1. CASE x = s
      <4>1. u.free[s] = Nodes \ InUse(h1, s)
        BY <1>4, <1>5, <1>6 DEF rest
      <4> QED  BY <3>1, <4>1, <1>2, <1>3, <1>7
    <3>2. CASE x # s
      <4>1. /\ p.free[x] = IF x \in p.data THEN Nodes \ InUse(h, x) ELSE {}
            /\ x \in p.data => p.used[x] = Cardinality(InUse(h, x))
        BY <1>1 DEF HeldOk
      <4> QED  BY <3>2, <4>1, <1>3, <1>5, <1>6
    <3> QED  BY <3>1, <3>2
  <2> QED  BY <2>1, <2>2 DEF HeldOk
<1>13. SlotsOk(u)
  BY <1>1, <1>3 DEF SlotsOk
<1>14. PagesOk(u, h1, q1)
  BY <1>8, <1>10, <1>11, <1>12, <1>13 DEF PagesOk
<1> QED  BY <1>3, <1>14

\* A node is given back.
LEMMA ReturnedKeeps ==
  ASSUME NEW p, NEW h, NEW q, PagesOk(p, h, q), NEW s, NEW n, <<s, n>> \in h,
         NEW u, u = Returned(p, s, n), NEW h1, h1 = h \ {<<s, n>>}
  PROVE  PagesOk(u, h1, q) /\ u.data = p.data
<1>1. /\ PagesTyped(p, q) /\ EmptyOk(p.empty, Unused(p), p.age, q)
      /\ AvailOk(p.avail, p.free) /\ HeldOk(p, h) /\ SlotsOk(p)
  BY DEF PagesOk
<1>2. /\ p.data \subseteq Slots /\ Unused(p) \subseteq p.data /\ Unused(p) \subseteq Slots
  BY PageFacts
<1>3. /\ u.free = Link(p.free, s, p.free[s] \cup {n}) /\ u.used = Link(p.used, s, p.used[s] - 1)
      /\ u.age = p.age
      /\ u.avail = (IF p.free[s] = {} /\ s \notin p.avail.pages THEN PushAvail(p.avail, s) ELSE p.avail)
      /\ u.empty = (IF p.used[s] - 1 = 0 THEN PushEmpty(p.empty, s) ELSE p.empty)
      /\ u.freeSlots = p.freeSlots /\ u.made = p.made /\ u.data = p.data
  BY DEF Returned
<1>4. s \in p.data /\ s \in Slots /\ n \in Nodes /\ n \in InUse(h, s)
  BY <1>1, <1>2 DEF HeldOk, InUse
<1>5. p.free[s] = Nodes \ InUse(h, s) /\ p.used[s] = Cardinality(InUse(h, s))
  BY <1>1, <1>4 DEF HeldOk
<1>6. InUse(h1, s) = InUse(h, s) \ {n} /\ \A x \in Slots : x # s => InUse(h1, x) = InUse(h, x)
  <2>1. \A x, m : <<x, m>> \in h1 <=> <<x, m>> \in h /\ ~(x = s /\ m = n)
    OBVIOUS
  <2> QED  BY <2>1 DEF InUse
<1>7. /\ u.free[s] = p.free[s] \cup {n} /\ u.used[s] = p.used[s] - 1
      /\ \A x \in Slots : x # s => u.free[x] = p.free[x] /\ u.used[x] = p.used[x]
  BY <1>3, <1>4, LinkFacts
<1>8. u.used[s] = Cardinality(InUse(h1, s)) /\ u.used[s] \in 0 .. BlockSize /\ p.used[s] # 0
      /\ p.used[s] \in Int
  <2>1. Cardinality(InUse(h, s) \ {n}) = Cardinality(InUse(h, s)) - 1
    BY <1>4, InUseFacts, FS_RemoveElement
  <2>2. u.used[s] = Cardinality(InUse(h1, s))
    BY <2>1, <1>5, <1>6, <1>7
  <2>3. p.used[s] # 0 /\ p.used[s] \in Int
    BY <1>4, <1>5, InUseFacts, PoolAssumption
  <2> QED  BY <2>2, <2>3, InUseFacts
<1>9. PagesTyped(u, q)
  <2>1. u.used \in [Slots -> 0 .. BlockSize]
    <3>1. \A x \in Slots : u.used[x] \in 0 .. BlockSize
      BY <1>1, <1>7, <1>8 DEF PagesTyped
    <3> QED  BY <3>1, <1>3 DEF Link
  <2> QED  BY <2>1, <1>1, <1>3 DEF PagesTyped
<1>10. EmptyOk(u.empty, Unused(u), u.age, q)
  <2>1. s \notin Unused(p)
    BY <1>8 DEF Unused
  <2>2. CASE p.used[s] - 1 = 0
    <3>1. Unused(u) = Unused(p) \cup {s}
      BY <2>2, <1>2, <1>3, <1>4, <1>7 DEF Unused
    <3>2. EmptyOk(PushEmpty(p.empty, s), Unused(p) \cup {s}, p.age, q)
      BY <2>1, <1>1, <1>4, EmptyPushed
    <3> QED  BY <3>1, <3>2, <2>2, <1>3
  <2>3. CASE p.used[s] - 1 # 0
    <3>1. Unused(u) = Unused(p)
      BY <2>1, <2>3, <1>2, <1>3, <1>4, <1>7 DEF Unused
    <3> QED  BY <3>1, <2>3, <1>1, <1>3
  <2> QED  BY <2>2, <2>3
<1>11. AvailOk(u.avail, u.free)
  <2> DEFINE c == p.avail
             d == u.avail
  <2>1. ChainSound(c, c.pages) /\ (\A x \in Slots : x \in c.pages <=> p.free[x] # {})
    BY <1>1 DEF AvailOk
  <2>2. CASE p.free[s] = {}
    <3>1. s \notin c.pages
      BY <2>1, <2>2, <1>4
    <3>2. /\ d.head = s /\ d.pages = c.pages \cup {s}
          /\ d.next = Link(c.next, s, c.head) /\ d.prev = Link(Link(c.prev, s, NoPage), c.head, s)
      BY <2>2, <3>1, <1>3 DEF PushAvail
    <3> HIDE DEF c, d
    <3>3. ChainSound(d, c.pages \cup {s})
      BY <3>1, <3>2, <2>1, <1>4, PushedFront
    <3>4. \A x \in Slots : x \in d.pages <=> u.free[x] # {}
      BY <3>2, <2>1, <1>7
    <3>5. AvailOk(d, u.free)
      BY <3>2, <3>3, <3>4 DEF AvailOk
    <3> QED  BY <3>5 DEF d
  <2>3. CASE p.free[s] # {}
    <3>1. \A x \in Slots : p.free[x] # {} <=> u.free[x] # {}
      BY <2>3, <1>7
    <3>2. u.avail = p.avail
      BY <2>3, <1>3
    <3> QED  BY <3>1, <3>2, <1>1 DEF AvailOk
  <2> QED  BY <2>2, <2>3
<1>12. HeldOk(u, h1)
  <2>1. h1 \subseteq u.data \X Nodes
    BY <1>1, <1>3 DEF HeldOk
  <2>2. ASSUME NEW x \in Slots
        PROVE  /\ u.free[x] = IF x \in u.data THEN Nodes \ InUse(h1, x) ELSE {}
               /\ x \in u.data => u.used[x] = Cardinality(InUse(h1, x))
    <3>1. CASE x = s
      <4>1. u.free[s] = Nodes \ InUse(h1, s)
        BY <1>4, <1>5, <1>6, <1>7
      <4> QED  BY <3>1, <4>1, <1>3, <1>4, <1>8
    <3>2. CASE x # s
      <4>1. /\ p.free[x] = IF x \in p.data THEN Nodes \ InUse(h, x) ELSE {}
            /\ x \in p.data => p.used[x] = Cardinality(InUse(h, x))
        BY <1>1 DEF HeldOk
      <4> QED  BY <3>2, <4>1, <1>3, <1>6, <1>7
    <3> QED  BY <3>1, <3>2
  <2> QED  BY <2>1, <2>2 DEF HeldOk
<1>13. SlotsOk(u)
  BY <1>1, <1>3 DEF SlotsOk
<1>14. PagesOk(u, h1, q)
  BY <1>9, <1>10, <1>11, <1>12, <1>13 DEF PagesOk
<1> QED  BY <1>3, <1>14

\* The pages that emptied since the last call get their stamp.
LEMMA StampedKeeps ==
  ASSUME NEW p, NEW h, NEW q, PagesOk(p, h, q), NEW u, u = Stamped(p)
  PROVE  /\ PagesOk(u, h, q) /\ u.data = p.data /\ Unused(u) = Unused(p)
         /\ u.empty.unstamped = NoPage
         /\ \A s \in Unused(p) : s \notin From(p.empty.next, p.empty.unstamped) => u.age[s] = p.age[s]
<1> DEFINE c == p.empty
           d == u.empty
           E == Unused(p)
           U == From(c.next, c.unstamped)
<1>1. /\ PagesTyped(p, q) /\ EmptyOk(c, E, p.age, q)
      /\ AvailOk(p.avail, p.free) /\ HeldOk(p, h) /\ SlotsOk(p)
  BY DEF PagesOk
<1>2. /\ u.data = p.data /\ u.free = p.free /\ u.used = p.used /\ u.avail = p.avail
      /\ u.freeSlots = p.freeSlots /\ u.made = p.made
  BY DEF Stamped
<1>3. u.age = [s \in Slots |-> IF s \in U THEN 0 ELSE p.age[s]]
  BY DEF Stamped
<1>4. /\ d.head = c.head /\ d.tail = c.tail /\ d.next = c.next /\ d.prev = c.prev
      /\ d.unstamped = NoPage
  BY DEF Stamped
<1>5. E \subseteq Slots /\ Unused(u) = E
  BY <1>2, PageFacts DEF Unused
<1> HIDE DEF c, d, E
<1>6. /\ ChainSound(c, E)
      /\ c.tail = NoPage => c.head = NoPage
      /\ \A s \in E : c.next[s] = NoPage <=> s = c.tail
      /\ c.tail # NoPage => c.tail \in E
      /\ c.unstamped # NoPage => c.unstamped \in E
      /\ \A s \in E \ U : /\ q[s] >= p.age[s]
                          /\ \A x \in E : c.next[x] = s => p.age[x] >= p.age[s]
  BY <1>1 DEF EmptyOk
<1>7. \A x \in U : c.next[x] \in U \cup {NoPage}
  <2>1. CASE c.unstamped = NoPage
    BY <2>1, FromNone
  <2>2. CASE c.unstamped # NoPage
    <3>1. c.unstamped \in Slots
      BY <2>2, <1>5, <1>6
    <3>2. Ends(c.next)
      BY <1>6, ChainFacts
    <3> QED  BY <3>1, <3>2, FromFacts
  <2> QED  BY <2>1, <2>2
<1>8. ChainSound(d, E)
  BY <1>4, <1>6 DEF ChainSound
<1> HIDE DEF U
<1>9. u.age \in Stamps /\ p.age \in Stamps /\ q \in Stamps
  BY <1>1, <1>3, PoolAssumption DEF PagesTyped, Stamps
<1>10. ASSUME NEW s \in E
       PROVE  /\ q[s] >= u.age[s]
              /\ \A x \in E : c.next[x] = s => u.age[x] >= u.age[s]
  <2>1. u.age[s] = (IF s \in U THEN 0 ELSE p.age[s]) /\ q[s] \in Nat
    BY <1>3, <1>5, <1>9 DEF Stamps
  <2>2. CASE s \in U
    <3>1. \A x \in E : u.age[x] \in Nat
      BY <1>5, <1>9 DEF Stamps
    <3> QED  BY <3>1, <2>1, <2>2
  <2>3. CASE s \notin U
    <3>1. \A x \in E : c.next[x] = s => x \notin U
      BY <2>3, <1>5, <1>7, NoPageApart
    <3>2. \A x \in E : x \notin U => u.age[x] = p.age[x]
      BY <1>3, <1>5
    <3> QED  BY <3>1, <3>2, <2>1, <2>3, <1>6
  <2> QED  BY <2>2, <2>3
<1>11. EmptyOk(d, E, u.age, q)
  BY <1>4, <1>6, <1>8, <1>10 DEF EmptyOk
<1>12. PagesTyped(u, q) /\ HeldOk(u, h) /\ SlotsOk(u) /\ AvailOk(u.avail, u.free)
  BY <1>1, <1>2, <1>9 DEF PagesTyped, HeldOk, SlotsOk
<1>13. PagesOk(u, h, q)
  BY <1>5, <1>11, <1>12 DEF PagesOk, d
<1>14. \A s \in E : s \notin U => u.age[s] = p.age[s]
  BY <1>3, <1>5
<1> QED  BY <1>2, <1>4, <1>5, <1>13, <1>14 DEF E, U, c, d

\* A page without a node in use is given back.
LEMMA ReleaseKeeps ==
  ASSUME NEW p, NEW h, NEW q, PagesOk(p, h, q), NEW s \in Unused(p), NEW u, u = ReleasePage(p, s),
         NEW q1, q1 = Link(q, s, 0)
  PROVE  /\ PagesOk(u, h, q1) /\ Unused(u) = Unused(p) \ {s} /\ u.data = p.data \ {s}
         /\ \A x \in Unused(u) : u.age[x] = p.age[x]
         /\ p.empty.unstamped = NoPage => u.empty.unstamped = NoPage
<1>1. /\ PagesTyped(p, q) /\ EmptyOk(p.empty, Unused(p), p.age, q)
      /\ AvailOk(p.avail, p.free) /\ HeldOk(p, h) /\ SlotsOk(p)
  BY DEF PagesOk
<1>2. /\ p.data \subseteq Slots /\ Unused(p) \subseteq p.data /\ Unused(p) \subseteq Slots
      /\ s \in Slots /\ s \in p.data /\ InUse(h, s) = {}
  BY PageFacts DEF Unused
<1>3. /\ u.data = p.data \ {s} /\ u.free = Link(p.free, s, {}) /\ u.used = p.used
      /\ u.age = Link(p.age, s, HoldTime) /\ u.avail = UnlinkAvail(p.avail, s)
      /\ u.empty = UnlinkEmpty(p.empty, s) /\ u.freeSlots = Append(p.freeSlots, s)
      /\ u.made = p.made
  BY DEF ReleasePage
<1>4. /\ u.free[s] = {} /\ \A x \in Slots : x # s => u.free[x] = p.free[x]
      /\ \A x \in Slots : x # s => u.age[x] = p.age[x] /\ q1[x] = q[x]
  BY <1>2, <1>3, LinkFacts
<1>5. p.free[s] = Nodes /\ Nodes # {}
  <2>1. Nodes # {}
    BY PoolAssumption DEF Nodes
  <2> QED  BY <2>1, <1>1, <1>2 DEF HeldOk
<1>6. /\ u.freeSlots \in Seq(Slots) /\ ToSet(u.freeSlots) = ToSet(p.freeSlots) \cup {s}
      /\ Distinct(u.freeSlots)
  <2>1. p.freeSlots \in Seq(Slots) /\ Distinct(p.freeSlots) /\ s \notin ToSet(p.freeSlots)
    BY <1>1, <1>2 DEF PagesTyped, SlotsOk
  <2> QED  BY <2>1, <1>2, <1>3, AppendFacts
<1>7. PagesTyped(u, q1)
  <2>1. u.age \in Stamps /\ q1 \in Stamps
    BY <1>1, <1>3, PoolAssumption DEF PagesTyped, Stamps, Link
  <2> QED  BY <2>1, <1>1, <1>3, <1>6 DEF PagesTyped
<1>8. Unused(u) = Unused(p) \ {s}
  BY <1>3 DEF Unused
<1>9. EmptyOk(u.empty, Unused(u), u.age, q1)
  <2>1. p.age \in Stamps /\ EmptyOk(p.empty, Unused(p), p.age, q)
    BY <1>1 DEF PagesTyped
  <2>2. \A x \in Unused(p) : x # s => u.age[x] = p.age[x] /\ q1[x] = q[x]
    BY <1>2, <1>4
  <2>3. EmptyOk(UnlinkEmpty(p.empty, s), Unused(p) \ {s}, u.age, q1)
    BY <2>1, <2>2, EmptyCut
  <2> QED  BY <2>3, <1>3, <1>8
<1>10. AvailOk(u.avail, u.free)
  <2> DEFINE c == p.avail
             d == u.avail
  <2>1. ChainSound(c, c.pages) /\ s \in c.pages /\ \A x \in Slots : x \in c.pages <=> p.free[x] # {}
    BY <1>1, <1>2, <1>5 DEF AvailOk
  <2>2. /\ d.head = (IF c.prev[s] = NoPage THEN c.next[s] ELSE c.head) /\ d.pages = c.pages \ {s}
        /\ d.next = Link(c.next, c.prev[s], c.next[s]) /\ d.prev = Link(c.prev, c.next[s], c.prev[s])
    BY <2>1, <1>3 DEF UnlinkAvail
  <2> HIDE DEF c, d
  <2>3. ChainSound(d, c.pages \ {s})
    BY <2>1, <2>2, CutOut
  <2>4. \A x \in Slots : x \in d.pages <=> u.free[x] # {}
    BY <2>1, <2>2, <1>4
  <2>5. AvailOk(d, u.free)
    BY <2>2, <2>3, <2>4 DEF AvailOk
  <2> QED  BY <2>5 DEF d
<1>11. HeldOk(u, h)
  <2>1. \A n : <<s, n>> \notin h
    BY <1>1, <1>2 DEF HeldOk, InUse
  <2>2. h \subseteq u.data \X Nodes
    BY <2>1, <1>1, <1>3 DEF HeldOk
  <2>3. ASSUME NEW x \in Slots
        PROVE  /\ u.free[x] = IF x \in u.data THEN Nodes \ InUse(h, x) ELSE {}
               /\ x \in u.data => u.used[x] = Cardinality(InUse(h, x))
    <3>1. CASE x = s
      BY <3>1, <1>3, <1>4
    <3>2. CASE x # s
      BY <3>2, <1>1, <1>3, <1>4 DEF HeldOk
    <3> QED  BY <3>1, <3>2
  <2> QED  BY <2>2, <2>3 DEF HeldOk
<1>12. SlotsOk(u)
  <2>1. s \in 0 .. p.made - 1
    BY <1>1, <1>2 DEF SlotsOk
  <2> QED  BY <2>1, <1>1, <1>3, <1>6 DEF SlotsOk
<1>13. p.empty.unstamped = NoPage => u.empty.unstamped = NoPage
  BY <1>2, <1>3, NoPageApart DEF UnlinkEmpty
<1>14. PagesOk(u, h, q1)
  BY <1>7, <1>9, <1>10, <1>11, <1>12 DEF PagesOk
<1>15. \A x \in Unused(u) : u.age[x] = p.age[x]
  BY <1>2, <1>4, <1>8
<1> QED  BY <1>3, <1>8, <1>13, <1>14, <1>15

\* A stamp grows up to HoldTime, and the greater one stays the greater.
LEMMA OlderFacts ==
  /\ \A n \in 0 .. HoldTime : Older(n) \in 0 .. HoldTime
  /\ \A m, n \in 0 .. HoldTime : m >= n => Older(m) >= Older(n)
<1>1. ASSUME NEW n \in 0 .. HoldTime
      PROVE  Older(n) = IF n = HoldTime THEN HoldTime ELSE n + 1
  <2> DEFINE S == {HoldTime, n + 1}
  <2>1. HoldTime \in Nat /\ n + 1 \in Nat
    BY PoolAssumption
  <2>2. S \subseteq Nat /\ S # {} /\ \A k : k \in S <=> k = HoldTime \/ k = n + 1
    BY <2>1
  <2>3. HoldTime \in S /\ n + 1 \in S
    OBVIOUS
  <2>4. Older(n) = Min(S)
    BY DEF Older
  <2> HIDE DEF S
  <2>5. Min(S) \in S /\ Min(S) <= HoldTime /\ Min(S) <= n + 1
    BY <2>2, <2>3, MinFacts
  <2> QED  BY <2>1, <2>2, <2>4, <2>5
<1> QED  BY <1>1, PoolAssumption

\* Time passes.
LEMMA TickKeeps ==
  ASSUME NEW p, NEW h, NEW q, PagesOk(p, h, q),
         NEW u, u = [p EXCEPT !.age = [s \in Slots |-> Older(@[s])]],
         NEW q1, q1 = [s \in Slots |-> IF s \in Unused(p) THEN Older(q[s]) ELSE 0]
  PROVE  PagesOk(u, h, q1) /\ u.data = p.data
<1>1. /\ PagesTyped(p, q) /\ EmptyOk(p.empty, Unused(p), p.age, q)
      /\ AvailOk(p.avail, p.free) /\ HeldOk(p, h) /\ SlotsOk(p)
  BY DEF PagesOk
<1>2. /\ u.data = p.data /\ u.free = p.free /\ u.used = p.used /\ u.avail = p.avail
      /\ u.empty = p.empty /\ u.freeSlots = p.freeSlots /\ u.made = p.made
  OBVIOUS
<1>3. u.age = [s \in Slots |-> Older(p.age[s])]
  OBVIOUS
<1>4. Unused(u) = Unused(p) /\ Unused(p) \subseteq Slots
  BY <1>2, PageFacts DEF Unused
<1>5. p.age \in Stamps /\ q \in Stamps /\ u.age \in Stamps /\ q1 \in Stamps
  BY <1>1, <1>3, OlderFacts, PoolAssumption DEF PagesTyped, Stamps
<1>6. EmptyOk(p.empty, Unused(p), u.age, q1)
  <2> DEFINE E == Unused(p)
             c == p.empty
  <2>1. \A s \in E : /\ p.age[s] \in 0 .. HoldTime /\ q[s] \in 0 .. HoldTime
                     /\ u.age[s] = Older(p.age[s]) /\ q1[s] = Older(q[s])
    BY <1>3, <1>4, <1>5 DEF Stamps
  <2> HIDE DEF E, c
  <2>2. EmptyOk(c, E, p.age, q)
    BY <1>1 DEF E, c
  <2>3. ASSUME NEW s \in E, q[s] >= p.age[s]
        PROVE  q1[s] >= u.age[s]
    BY <2>1, <2>3, OlderFacts
  <2>4. ASSUME NEW s \in E, NEW x \in E, p.age[x] >= p.age[s]
        PROVE  u.age[x] >= u.age[s]
    BY <2>1, <2>4, OlderFacts
  <2>5. EmptyOk(c, E, u.age, q1)
    BY <2>2, <2>3, <2>4 DEF EmptyOk
  <2> QED  BY <2>5 DEF E, c
<1>7. PagesTyped(u, q1) /\ HeldOk(u, h) /\ SlotsOk(u)
  BY <1>1, <1>2, <1>5 DEF PagesTyped, HeldOk, SlotsOk
<1> QED  BY <1>1, <1>2, <1>4, <1>6, <1>7 DEF PagesOk

-----------------------------------------------------------------------------
(* The steps of the pool                                                   *)

\* PagesSound as the lemmas have it.
PoolSound == PagesOk(pool, held, idle) /\ trim \in TrimTypes /\ TrimOk(pool, trim)

LEMMA ReceiveSound ==
  ASSUME PoolSound, NEW n \in Nodes, Receive(n)
  PROVE  PoolSound' /\ pool.data \subseteq pool'.data
<1> DEFINE p == IF pool.avail.head = NoPage THEN Alloc(pool) ELSE pool
           s == p.avail.head
<1>1. /\ ~trim.on /\ (pool.avail.head = NoPage => CanAlloc(pool)) /\ n \in p.free[s]
      /\ pool' = Taken(p, n) /\ held' = held \cup {<<s, n>>} /\ idle' = Link(idle, s, 0)
      /\ trim' = trim
  BY DEF Receive
<1>2. PagesOk(p, held, idle) /\ s # NoPage /\ pool.data \subseteq p.data
  <2>1. CASE pool.avail.head = NoPage
    <3>1. p = Alloc(pool)
      BY <2>1
    <3> HIDE DEF p
    <3> QED  BY <2>1, <3>1, <1>1, AllocKeeps DEF PoolSound
  <2>2. CASE pool.avail.head # NoPage
    <3>1. p = pool
      BY <2>2
    <3> QED  BY <2>2, <3>1 DEF PoolSound
  <2> QED  BY <2>1, <2>2
<1> HIDE DEF p
<1>3. PagesOk(pool', held', idle') /\ pool'.data = p.data
  BY <1>1, <1>2, TakenKeeps
<1> QED  BY <1>1, <1>2, <1>3 DEF PoolSound, TrimOk

LEMMA ConferSound ==
  ASSUME PoolSound, NEW s, NEW n, Confer(s, n)
  PROVE  PoolSound' /\ pool.data \subseteq pool'.data
<1>1. /\ ~trim.on /\ <<s, n>> \in held /\ pool' = Returned(pool, s, n)
      /\ held' = held \ {<<s, n>>} /\ idle' = idle /\ trim' = trim
  BY DEF Confer
<1>2. PagesOk(pool', held', idle') /\ pool'.data = pool.data
  BY <1>1, ReturnedKeeps DEF PoolSound
<1> QED  BY <1>1, <1>2 DEF PoolSound, TrimOk

\* There are no more empty pages than pages.
LEMMA FewEmpty ==
  ASSUME NEW p, NEW h, NEW q, PagesOk(p, h, q)
  PROVE  /\ IsFiniteSet(Unused(p)) /\ Cardinality(Unused(p)) \in Nat
         /\ Cardinality(Unused(p)) <= MaxPages
         /\ Cardinality(Unused(p)) = 0 <=> Unused(p) = {}
<1>1. IsFiniteSet(Slots) /\ Cardinality(Slots) = MaxPages
  BY PoolAssumption, FS_Interval DEF Slots
<1>2. Unused(p) \subseteq Slots
  BY PageFacts
<1> QED  BY <1>1, <1>2, FS_Subset, FS_CardinalityType, FS_EmptySet

\* Collect stamps the pages, and notes which were due.
LEMMA CollectSound ==
  ASSUME PoolSound, NEW hold \in {0, HoldTime}, NEW budget \in Nat, hold = 0 => budget = MaxPages,
         Collect(hold, budget)
  PROVE  PoolSound' /\ pool.data \subseteq pool'.data /\ trim'.on
<1> DEFINE due == {s \in EmptyPages :
                     \/ hold = 0
                     \/ /\ s \notin From(pool.empty.next, pool.empty.unstamped)
                        /\ pool.age[s] >= hold}
<1>1. /\ pool' = Stamped(pool) /\ held' = held /\ idle' = idle
      /\ trim' = [on |-> TRUE, hold |-> hold, left |-> budget, due |-> due]
  BY DEF Collect
<1>2. /\ PagesOk(pool', held, idle) /\ pool'.data = pool.data /\ Unused(pool') = Unused(pool)
      /\ pool'.empty.unstamped = NoPage
      /\ \A s \in Unused(pool) : s \notin From(pool.empty.next, pool.empty.unstamped)
                                   => pool'.age[s] = pool.age[s]
  BY <1>1, StampedKeeps DEF PoolSound
<1>3. Unused(pool) \subseteq Slots /\ EmptyPages = Unused(pool)
  BY PageFacts DEF PoolSound, EmptyPages, Unused
<1>4. \A s \in due : \/ hold = 0
                     \/ /\ s \notin From(pool.empty.next, pool.empty.unstamped)
                        /\ pool.age[s] >= hold
  OBVIOUS
<1>5. due \subseteq Unused(pool)
  BY <1>3
<1> HIDE DEF due
<1>6. trim' \in TrimTypes
  BY <1>1, <1>3, <1>5 DEF TrimTypes
<1>7. \A s \in due : pool'.age[s] >= hold
  <2>1. \A s \in due : pool'.age[s] \in Nat
    BY <1>2, <1>3, <1>5 DEF PagesOk, PagesTyped, Stamps
  <2> QED  BY <2>1, <1>2, <1>4, <1>5
<1>8. hold = 0 => Cardinality(Unused(pool')) <= budget
  BY <1>2, FewEmpty
<1>9. trim'.on /\ trim'.due = due /\ trim'.hold = hold /\ trim'.left = budget
  BY <1>1
<1>10. TrimOk(pool', trim')
  BY <1>2, <1>7, <1>8, <1>9 DEF TrimOk
<1> QED  BY <1>1, <1>2, <1>6, <1>9, <1>10 DEF PoolSound

\* The page given back had no node in use and was empty for long enough.
LEMMA GiveBackSound ==
  ASSUME PoolSound, GiveBack
  PROVE  /\ PoolSound' /\ trim'.on
         /\ \A s \in pool.data \ pool'.data : /\ \A n \in Nodes : <<s, n>> \notin held
                                              /\ idle[s] >= HoldTime \/ trim.hold = 0
<1> DEFINE s == pool.empty.head
<1>1. /\ trim.on /\ trim.left > 0 /\ s # NoPage /\ pool.age[s] >= trim.hold
      /\ pool' = ReleasePage(pool, s) /\ trim' = [trim EXCEPT !.left = @ - 1]
      /\ idle' = Link(idle, s, 0) /\ held' = held
  BY DEF GiveBack, HeadIsDue
<1>2. PagesOk(pool, held, idle) /\ trim \in TrimTypes /\ TrimOk(pool, trim)
  BY DEF PoolSound
<1>3. s \in Unused(pool) /\ s \in Slots /\ InUse(held, s) = {}
  BY <1>1, <1>2, PageFacts DEF Unused
<1> HIDE DEF s
<1>4. /\ PagesOk(pool', held', idle') /\ Unused(pool') = Unused(pool) \ {s}
      /\ pool'.data = pool.data \ {s} /\ \A x \in Unused(pool') : pool'.age[x] = pool.age[x]
      /\ pool.empty.unstamped = NoPage => pool'.empty.unstamped = NoPage
  <2>1. PagesOk(pool, held, idle)
    BY <1>2
  <2> QED  BY <2>1, <1>1, <1>3, ReleaseKeeps
<1>5. /\ pool.empty.unstamped = NoPage
      /\ \A x \in trim.due \cap Unused(pool) : pool.age[x] >= trim.hold
      /\ trim.hold = 0 => Cardinality(Unused(pool)) <= trim.left
  BY <1>1, <1>2 DEF TrimOk
<1>6. /\ trim' \in TrimTypes /\ trim'.on = trim.on /\ trim'.hold = trim.hold /\ trim'.due = trim.due
      /\ trim'.left = trim.left - 1 /\ trim.left \in Nat /\ trim.hold \in {0, HoldTime}
  <2>1. trim.left \in Nat /\ trim.hold \in {0, HoldTime}
    BY <1>2 DEF TrimTypes
  <2>2. /\ trim'.on = trim.on /\ trim'.hold = trim.hold /\ trim'.due = trim.due
        /\ trim'.left = trim.left - 1
    BY <1>1, <1>2 DEF TrimTypes
  <2>3. trim.left - 1 \in Nat
    BY <2>1, <1>1
  <2>4. trim' \in TrimTypes
    BY <2>3, <1>1, <1>2 DEF TrimTypes
  <2> QED  BY <2>1, <2>2, <2>4
<1>7. Cardinality(Unused(pool')) = Cardinality(Unused(pool)) - 1
  BY <1>2, <1>3, <1>4, FewEmpty, FS_RemoveElement
<1>8. Cardinality(Unused(pool)) \in Nat
  BY <1>2, FewEmpty
<1>9. TrimOk(pool', trim')
  BY <1>4, <1>5, <1>6, <1>7, <1>8 DEF TrimOk
<1>10. idle[s] >= pool.age[s] /\ pool.age[s] \in Int /\ idle[s] \in Int
  <2>1. EmptyOk(pool.empty, Unused(pool), pool.age, idle) /\ pool.age \in Stamps /\ idle \in Stamps
    BY <1>2 DEF PagesOk, PagesTyped
  <2>2. idle[s] >= pool.age[s]
    BY <2>1, <1>3, <1>5, HeadOldest
  <2> QED  BY <2>1, <2>2, <1>3 DEF Stamps
<1>11. idle[s] >= HoldTime \/ trim.hold = 0
  BY <1>1, <1>6, <1>10, PoolAssumption
<1>12. \A n \in Nodes : <<s, n>> \notin held
  BY <1>3 DEF InUse
<1>13. \A x \in pool.data \ pool'.data : x = s
  BY <1>4
<1> QED  BY <1>1, <1>4, <1>6, <1>9, <1>11, <1>12, <1>13 DEF PoolSound

\* At the end no page is left behind that was due when the call was made.
LEMMA TrimEndsSound ==
  ASSUME PoolSound, TrimEnds
  PROVE  /\ PoolSound' /\ pool' = pool
         /\ trim.left > 0 => trim.due \cap EmptyPages = {}
         /\ trim.hold = 0 => EmptyPages = {}
<1>1. trim.on /\ ~HeadIsDue /\ trim' = NoTrim /\ pool' = pool /\ held' = held /\ idle' = idle
  BY DEF TrimEnds
<1>2. PagesOk(pool, held, idle) /\ trim \in TrimTypes /\ TrimOk(pool, trim)
  BY DEF PoolSound
<1>3. EmptyPages = Unused(pool)
  BY DEF EmptyPages, Unused
<1>4. /\ pool.empty.unstamped = NoPage
      /\ \A x \in trim.due \cap Unused(pool) : pool.age[x] >= trim.hold
      /\ trim.hold = 0 => Cardinality(Unused(pool)) <= trim.left
  BY <1>1, <1>2 DEF TrimOk
<1>5. /\ pool.empty.head = NoPage <=> Unused(pool) = {}
      /\ pool.empty.head # NoPage => pool.empty.head \in Unused(pool)
      /\ Unused(pool) \subseteq Slots
  BY <1>2, PageFacts
<1>6. \A s \in Unused(pool) : pool.age[pool.empty.head] >= pool.age[s] /\ pool.age[s] \in Nat
  <2>1. EmptyOk(pool.empty, Unused(pool), pool.age, idle) /\ pool.age \in Stamps
    BY <1>2 DEF PagesOk, PagesTyped
  <2>2. \A s \in Unused(pool) : pool.age[pool.empty.head] >= pool.age[s]
    BY <2>1, <1>4, HeadOldest
  <2> QED  BY <2>1, <2>2, <1>5 DEF Stamps
<1>7. trim.left \in Nat /\ trim.hold \in Nat
  BY <1>2, PoolAssumption DEF TrimTypes
<1>8. ASSUME trim.left > 0, Unused(pool) # {}
      PROVE  pool.age[pool.empty.head] < trim.hold
  BY <1>1, <1>5, <1>6, <1>7, <1>8 DEF HeadIsDue
<1>9. trim.left > 0 => trim.due \cap Unused(pool) = {}
  <2> SUFFICES ASSUME trim.left > 0, NEW s \in trim.due \cap Unused(pool)
               PROVE  FALSE
    OBVIOUS
  <2>1. pool.age[s] >= trim.hold /\ pool.age[pool.empty.head] >= pool.age[s]
        /\ pool.age[pool.empty.head] < trim.hold
    BY <1>4, <1>6, <1>8
  <2>2. pool.age[pool.empty.head] \in Nat /\ pool.age[s] \in Nat
    BY <1>5, <1>6
  <2> QED  BY <2>1, <2>2, <1>7
<1>10. trim.hold = 0 => Unused(pool) = {}
  <2> SUFFICES ASSUME trim.hold = 0, Unused(pool) # {}
               PROVE  FALSE
    OBVIOUS
  <2>1. Cardinality(Unused(pool)) \in Nat /\ Cardinality(Unused(pool)) # 0
    BY <1>2, FewEmpty
  <2>2. trim.left > 0
    BY <2>1, <1>4, <1>7
  <2>3. pool.age[pool.empty.head] < 0 /\ pool.age[pool.empty.head] \in Nat
    BY <2>2, <1>5, <1>6, <1>8
  <2> QED  BY <2>3
<1>11. NoTrim \in TrimTypes /\ ~NoTrim.on
  BY DEF NoTrim, TrimTypes
<1> QED  BY <1>1, <1>2, <1>3, <1>9, <1>10, <1>11 DEF PoolSound, TrimOk

LEMMA TickSound ==
  ASSUME PoolSound, Tick
  PROVE  PoolSound' /\ pool.data \subseteq pool'.data
<1>1. /\ ~trim.on /\ held' = held /\ trim' = trim
      /\ pool' = [pool EXCEPT !.age = [s \in Slots |-> Older(@[s])]]
      /\ idle' = [s \in Slots |-> IF s \in EmptyPages THEN Older(idle[s]) ELSE 0]
  BY DEF Tick
<1>2. EmptyPages = Unused(pool)
  BY DEF EmptyPages, Unused
<1>3. PagesOk(pool', held', idle') /\ pool'.data = pool.data
  BY <1>1, <1>2, TickKeeps DEF PoolSound
<1> QED  BY <1>1, <1>3 DEF PoolSound, TrimOk

-----------------------------------------------------------------------------
(* The theorems about the pools                                            *)

\* At the start there is no page.
LEMMA PagesInit ==
  Init => PagesSound
<1> SUFFICES ASSUME PoolInit
             PROVE  PoolSound
  BY PagesSoundIf DEF Init, PoolSound
<1> DEFINE nowhere == [s \in Slots |-> NoPage]
           none == [s \in Slots |-> {}]
<1>1. /\ pool.data = {} /\ pool.free = none /\ pool.used = [s \in Slots |-> 0]
      /\ pool.age = [s \in Slots |-> HoldTime] /\ pool.freeSlots = <<>> /\ pool.made = 0
      /\ pool.avail.head = NoPage /\ pool.avail.pages = {}
      /\ pool.avail.next = nowhere /\ pool.avail.prev = nowhere
      /\ pool.empty.head = NoPage /\ pool.empty.tail = NoPage /\ pool.empty.unstamped = NoPage
      /\ pool.empty.next = nowhere /\ pool.empty.prev = nowhere
      /\ held = {} /\ idle = [s \in Slots |-> 0] /\ trim = NoTrim
  BY DEF PoolInit
<1>2. nowhere \in [Slots -> Slots \cup {NoPage}]
  OBVIOUS
<1>3. PagesTyped(pool, idle)
  BY <1>1, PoolAssumption DEF PagesTyped, Stamps
<1>4. Unused(pool) = {}
  BY <1>1 DEF Unused
<1>5. ChainSound(pool.avail, {}) /\ ChainSound(pool.empty, {})
  <2> HIDE DEF nowhere
  <2> QED  BY <1>1, <1>2, FromNone DEF ChainSound
<1>6. EmptyOk(pool.empty, Unused(pool), pool.age, idle)
  BY <1>1, <1>4, <1>5 DEF EmptyOk
<1>7. AvailOk(pool.avail, pool.free)
  BY <1>1, <1>5 DEF AvailOk
<1>8. HeldOk(pool, held)
  BY <1>1 DEF HeldOk
<1>9. SlotsOk(pool)
  BY <1>1 DEF SlotsOk, Distinct, ToSet
<1>10. NoTrim \in TrimTypes /\ ~NoTrim.on
  BY DEF NoTrim, TrimTypes
<1> QED  BY <1>1, <1>3, <1>6, <1>7, <1>8, <1>9, <1>10 DEF PoolSound, PagesOk, TrimOk

\* A step of Stores is one of the pool, or leaves it alone.
PoolStep ==
  \/ \E n \in Nodes : Receive(n) \/ \E s \in Slots : Confer(s, n)
  \/ \E hold \in {0, HoldTime}, budget \in Nat :
       (hold = 0 => budget = MaxPages) /\ Collect(hold, budget)
  \/ GiveBack \/ TrimEnds \/ Tick

LEMMA PoolStepOrRest ==
  [Next]_vars => PoolStep \/ UNCHANGED poolVars
<1>1. Trim \/ TrimAll => \E hold \in {0, HoldTime}, budget \in Nat :
                           (hold = 0 => budget = MaxPages) /\ Collect(hold, budget)
  BY PoolAssumption DEF Trim, TrimAll
<1> QED  BY <1>1 DEF Next, vars, Collections, Strings, Pools, PoolNext, PoolStep

\* What a step of the pool does to the invariant, to the pages and to the trim.
LEMMA PoolStepFacts ==
  ASSUME PagesSound, PoolStep
  PROVE  /\ PagesSound'
         /\ \A s \in pool.data \ pool'.data : /\ \A n \in Nodes : <<s, n>> \notin held
                                              /\ idle[s] >= HoldTime \/ trim.hold = 0
         /\ trim.on /\ ~trim'.on =>
              /\ trim.left > 0 => trim.due \cap EmptyPages = {}
              /\ trim.hold = 0 => EmptyPages = {}
<1>1. PoolSound
  BY PagesSoundIs DEF PoolSound
<1>2. PoolSound' => PagesSound'
  BY PagesSoundThen DEF PoolSound
<1>3. CASE \E n \in Nodes : Receive(n)
  <2> PICK n \in Nodes : Receive(n)
    BY <1>3
  <2>1. ~trim.on
    BY DEF Receive
  <2> QED  BY <2>1, <1>1, <1>2, ReceiveSound
<1>4. CASE \E n \in Nodes : \E s \in Slots : Confer(s, n)
  <2> PICK n \in Nodes, s \in Slots : Confer(s, n)
    BY <1>4
  <2>1. ~trim.on
    BY DEF Confer
  <2> QED  BY <2>1, <1>1, <1>2, ConferSound
<1>5. CASE \E hold \in {0, HoldTime}, budget \in Nat :
             (hold = 0 => budget = MaxPages) /\ Collect(hold, budget)
  <2> PICK hold \in {0, HoldTime}, budget \in Nat :
             (hold = 0 => budget = MaxPages) /\ Collect(hold, budget)
    BY <1>5
  <2>1. PoolSound' /\ pool.data \subseteq pool'.data /\ trim'.on
    BY <1>1, CollectSound
  <2> QED  BY <2>1, <1>2
<1>6. CASE GiveBack
  BY <1>6, <1>1, <1>2, GiveBackSound
<1>7. CASE TrimEnds
  BY <1>7, <1>1, <1>2, TrimEndsSound
<1>8. CASE Tick
  <2>1. ~trim.on
    BY <1>8 DEF Tick
  <2> QED  BY <2>1, <1>8, <1>1, <1>2, TickSound
<1> QED  BY <1>3, <1>4, <1>5, <1>6, <1>7, <1>8 DEF PoolStep

\* Every step keeps the invariant.
LEMMA PagesStep ==
  PagesSound /\ [Next]_vars => PagesSound'
<1> SUFFICES ASSUME PagesSound, UNCHANGED poolVars
             PROVE  PagesSound'
  BY PoolStepOrRest, PoolStepFacts
<1>1. pool' = pool /\ held' = held /\ idle' = idle /\ trim' = trim
  BY DEF poolVars
<1> QED  BY <1>1, PagesSoundIs, PagesSoundThen

\* The chains of the pool have the pages they should, each once and linked both
\* ways, the empty one by age; a node is free or in use, never both; and no page
\* is handed a slot that another one has.
THEOREM PagesAreSound == Spec => []PagesSound
BY PagesInit, PagesStep, PTL DEF Spec

\* A page goes back to the system only without a node in use and, unless the
\* host forces it, after the whole hold time.
THEOREM PagesHeldLongEnough == Spec => HoldRespected
<1> DEFINE A == \A s \in pool.data \ pool'.data :
                  /\ \A n \in Nodes : <<s, n>> \notin held
                  /\ idle[s] >= HoldTime \/ trim.hold = 0
<1>1. PagesSound /\ [Next]_vars => [A]_poolVars
  BY PoolStepOrRest, PoolStepFacts
<1>2. HoldRespected <=> [][A]_poolVars
  BY DEF HoldRespected
<1> HIDE DEF A
<1> QED  BY <1>1, <1>2, PagesAreSound, PTL DEF Spec

\* A call of TrimMemory gives back the pages whose time is up, and a forced one
\* every empty page.
THEOREM DuePagesGoBack == Spec => TrimGivesBack
<1> DEFINE A == trim.on /\ ~trim'.on =>
                  /\ trim.left > 0 => trim.due \cap EmptyPages = {}
                  /\ trim.hold = 0 => EmptyPages = {}
<1>1. PagesSound /\ [Next]_vars => [A]_poolVars
  BY PoolStepOrRest, PoolStepFacts
<1>2. TrimGivesBack <=> [][A]_poolVars
  BY DEF TrimGivesBack
<1> HIDE DEF A
<1> QED  BY <1>1, <1>2, PagesAreSound, PTL DEF Spec

-----------------------------------------------------------------------------
(* Powers of two                                                           *)

\* h doubles from one on, up to its index n.
Doubles(h, n) ==
  h \in [0 .. n -> Nat] /\ h[0] = 1 /\ \A i \in 1 .. n : h[i] = 2 * h[i - 1]

LEMMA DoublesExist == \A n \in Nat : \E h : Doubles(h, n)
<1> DEFINE B == {n \in Nat : ~\E h : Doubles(h, n)}
<1> SUFFICES ASSUME B # {}
             PROVE  FALSE
  OBVIOUS
<1>1. PICK m \in B : \A k \in B : m <= k
  <2>1. B \subseteq Nat
    OBVIOUS
  <2> HIDE DEF B
  <2> QED  BY <2>1, MinFacts
<1>2. m \in Nat /\ ~\E h : Doubles(h, m)
  OBVIOUS
<1>3. CASE m = 0
  <2> DEFINE h == [i \in 0 .. 0 |-> 1]
  <2>1. h \in [0 .. 0 -> Nat] /\ h[0] = 1 /\ \A i \in 1 .. 0 : h[i] = 2 * h[i - 1]
    OBVIOUS
  <2> HIDE DEF h
  <2>2. Doubles(h, m)
    BY <2>1, <1>3 DEF Doubles
  <2> QED  BY <2>2, <1>2
<1>4. CASE m # 0
  <2>1. m - 1 \in Nat /\ m - 1 \notin B
    <3>1. m - 1 \in Nat /\ ~(m <= m - 1)
      BY <1>2, <1>4
    <3> HIDE DEF B
    <3> QED  BY <3>1, <1>1
  <2>2. PICK g : Doubles(g, m - 1)
    BY <2>1
  <2> DEFINE h == [i \in 0 .. m |-> IF i = m THEN 2 * g[m - 1] ELSE g[i]]
  <2>3. /\ g[0] = 1 /\ \A i \in 0 .. m - 1 : g[i] \in Nat
        /\ \A i \in 1 .. m - 1 : g[i] = 2 * g[i - 1]
    BY <2>2 DEF Doubles
  <2>4. m - 1 \in 0 .. m - 1 /\ g[m - 1] \in Nat
    BY <2>1, <2>3
  <2>5. \A i \in 0 .. m : i # m => i \in 0 .. m - 1
    BY <1>2
  <2>6. h \in [0 .. m -> Nat]
    <3>1. 2 * g[m - 1] \in Nat
      BY <2>4
    <3> QED  BY <3>1, <2>3, <2>5
  <2>7. h[0] = 1 /\ h[m] = 2 * g[m - 1] /\ h[m - 1] = g[m - 1]
    BY <1>2, <1>4, <2>3
  <2>8. \A i \in 1 .. m : h[i] = 2 * h[i - 1]
    <3> SUFFICES ASSUME NEW i \in 1 .. m, i # m
                 PROVE  h[i] = 2 * h[i - 1]
      BY <2>7
    <3>1. i \in 1 .. m - 1 /\ i - 1 \in 0 .. m /\ i - 1 # m /\ i \in 0 .. m
      BY <1>2
    <3>2. h[i] = g[i] /\ h[i - 1] = g[i - 1]
      BY <3>1
    <3> HIDE DEF h
    <3> QED  BY <3>1, <3>2, <2>3
  <2> HIDE DEF h
  <2>9. Doubles(h, m)
    BY <2>6, <2>7, <2>8 DEF Doubles
  <2> QED  BY <2>9, <1>2
<1> QED  BY <1>3, <1>4

LEMMA DoublesAgree ==
  ASSUME NEW m \in Nat, NEW n \in Nat, NEW g, NEW h, Doubles(g, m), Doubles(h, n), m <= n
  PROVE  \A i \in 0 .. m : g[i] = h[i]
<1> DEFINE B == {i \in 0 .. m : g[i] # h[i]}
<1> SUFFICES ASSUME B # {}
             PROVE  FALSE
  OBVIOUS
<1>1. PICK b \in B : \A k \in B : b <= k
  <2>1. B \subseteq Nat
    OBVIOUS
  <2> HIDE DEF B
  <2> QED  BY <2>1, MinFacts
<1>2. b \in 0 .. m /\ g[b] # h[b]
  OBVIOUS
<1>3. b # 0
  BY <1>2 DEF Doubles
<1>4. b - 1 \in 0 .. m /\ b \in 1 .. m /\ b \in 1 .. n /\ ~(b <= b - 1)
  BY <1>2, <1>3
<1>5. b - 1 \notin B
  <2> HIDE DEF B
  <2> QED  BY <1>1, <1>4
<1>6. g[b - 1] = h[b - 1]
  BY <1>4, <1>5
<1>7. g[b] = 2 * g[b - 1] /\ h[b] = 2 * h[b - 1]
  BY <1>4 DEF Doubles
<1> QED  BY <1>2, <1>6, <1>7

\* What the definition of Doubled says.
LEMMA DoubledIs ==
  /\ Doubled[0] = 1
  /\ \A e \in Nat : Doubled[e] \in Nat /\ Doubled[e + 1] = 2 * Doubled[e]
<1> DEFINE Up(e) == CHOOSE h : Doubles(h, e)
           F == [e \in Nat |-> Up(e)[e]]
<1>1. \A e \in Nat : Doubles(Up(e), e)
  BY DoublesExist
<1> HIDE DEF Up
<1>2. \A e \in Nat : F[e] = Up(e)[e]
  OBVIOUS
<1>3. F[0] = 1
  BY <1>1 DEF Doubles
<1>4. ASSUME NEW e \in Nat, e # 0
      PROVE  F[e] = 2 * F[e - 1]
  <2>1. e - 1 \in Nat /\ e \in 1 .. e /\ e - 1 \in 0 .. e - 1 /\ e - 1 <= e
    BY <1>4
  <2>2. Up(e)[e] = 2 * Up(e)[e - 1]
    BY <2>1, <1>1 DEF Doubles
  <2>3. Up(e - 1)[e - 1] = Up(e)[e - 1]
    BY <2>1, <1>1, DoublesAgree
  <2> QED  BY <2>1, <2>2, <2>3, <1>2
<1>5. F = [e \in Nat |-> IF e = 0 THEN 1 ELSE 2 * F[e - 1]]
  <2>1. \A e \in Nat : F[e] = IF e = 0 THEN 1 ELSE 2 * F[e - 1]
    BY <1>3, <1>4
  <2>2. F = [e \in Nat |-> F[e]]
    OBVIOUS
  <2> HIDE DEF F
  <2> QED  BY <2>1, <2>2
<1> HIDE DEF F
<1>6. Doubled = CHOOSE f : f = [e \in Nat |-> IF e = 0 THEN 1 ELSE 2 * f[e - 1]]
  BY DEF Doubled
<1>7. Doubled = [e \in Nat |-> IF e = 0 THEN 1 ELSE 2 * Doubled[e - 1]]
  BY <1>5, <1>6
<1>8. Doubled[0] = 1
  BY <1>7
<1>9. \A e \in Nat : Doubled[e + 1] = 2 * Doubled[e]
  <2> TAKE e \in Nat
  <2>1. e + 1 \in Nat /\ e + 1 # 0 /\ (e + 1) - 1 = e
    OBVIOUS
  <2> QED  BY <2>1, <1>7
<1>10. \A e \in Nat : Doubled[e] \in Nat
  <2> DEFINE B == {e \in Nat : Doubled[e] \notin Nat}
  <2> SUFFICES ASSUME B # {}
               PROVE  FALSE
    OBVIOUS
  <2>1. PICK b \in B : \A k \in B : b <= k
    <3>1. B \subseteq Nat
      OBVIOUS
    <3> HIDE DEF B
    <3> QED  BY <3>1, MinFacts
  <2>2. b \in Nat /\ b # 0 /\ Doubled[b] \notin Nat
    BY <1>8
  <2>3. b - 1 \in Nat /\ ~(b <= b - 1) /\ (b - 1) + 1 = b
    BY <2>2
  <2>4. b - 1 \notin B
    <3> HIDE DEF B
    <3> QED  BY <2>1, <2>3
  <2>5. Doubled[b - 1] \in Nat
    BY <2>3, <2>4
  <2>6. Doubled[b] = 2 * Doubled[b - 1]
    BY <2>3, <1>9
  <2> QED  BY <2>2, <2>5, <2>6
<1> QED  BY <1>8, <1>9, <1>10

LEMMA DoubledGrows ==
  /\ \A e \in Nat : Doubled[e] \in Nat /\ Doubled[e] >= e + 1
  /\ \A d, e \in Nat : d <= e => Doubled[d] <= Doubled[e]
<1>1. \A e \in Nat : Doubled[e] >= e + 1
  <2> DEFINE B == {e \in Nat : ~(Doubled[e] >= e + 1)}
  <2> SUFFICES ASSUME B # {}
               PROVE  FALSE
    OBVIOUS
  <2>1. PICK b \in B : \A k \in B : b <= k
    <3>1. B \subseteq Nat
      OBVIOUS
    <3> HIDE DEF B
    <3> QED  BY <3>1, MinFacts
  <2>2. b \in Nat /\ b # 0 /\ ~(Doubled[b] >= b + 1)
    BY DoubledIs
  <2>3. b - 1 \in Nat /\ ~(b <= b - 1) /\ (b - 1) + 1 = b
    BY <2>2
  <2>4. b - 1 \notin B
    <3> HIDE DEF B
    <3> QED  BY <2>1, <2>3
  <2>5. Doubled[b - 1] >= (b - 1) + 1 /\ Doubled[b - 1] \in Nat
    BY <2>3, <2>4, DoubledIs
  <2>6. Doubled[b] = 2 * Doubled[b - 1]
    BY <2>3, DoubledIs
  <2> QED  BY <2>2, <2>5, <2>6
<1>2. ASSUME NEW d \in Nat, NEW e \in Nat, d <= e
      PROVE  Doubled[d] <= Doubled[e]
  <2> DEFINE B == {k \in Nat : d <= k /\ ~(Doubled[d] <= Doubled[k])}
  <2> SUFFICES ASSUME B # {}
               PROVE  FALSE
    BY <1>2
  <2>1. PICK b \in B : \A k \in B : b <= k
    <3>1. B \subseteq Nat
      OBVIOUS
    <3> HIDE DEF B
    <3> QED  BY <3>1, MinFacts
  <2>2. b \in Nat /\ d <= b /\ ~(Doubled[d] <= Doubled[b]) /\ b # d
    BY DoubledIs
  <2>3. b - 1 \in Nat /\ ~(b <= b - 1) /\ (b - 1) + 1 = b /\ d <= b - 1
    BY <2>2
  <2>4. b - 1 \notin B
    <3> HIDE DEF B
    <3> QED  BY <2>1, <2>3
  <2>5. Doubled[d] <= Doubled[b - 1] /\ Doubled[b - 1] \in Nat /\ Doubled[d] \in Nat
    BY <2>3, <2>4, DoubledIs
  <2>6. Doubled[b] = 2 * Doubled[b - 1]
    BY <2>3, DoubledIs
  <2> QED  BY <2>2, <2>5, <2>6
<1> QED  BY <1>1, <1>2, DoubledIs

\* PowerOfTwo gives the least power that is enough.
LEMMA LeastPower ==
  ASSUME NEW n \in Nat
  PROVE  \E e \in Nat : /\ PowerOfTwo(n) = Doubled[e] /\ Doubled[e] >= n
                        /\ \A d \in Nat : Doubled[d] >= n => Doubled[e] <= Doubled[d]
<1> DEFINE E == {e \in 0 .. n : Doubled[e] >= n}
<1>1. E \subseteq Nat /\ E # {}
  <2>1. n \in E
    BY DoubledGrows
  <2> QED  BY <2>1
<1>2. \A e \in E : e \in Nat /\ Doubled[e] >= n
  OBVIOUS
<1>3. \A d \in Nat : Doubled[d] >= n /\ d \notin E => d > n
  OBVIOUS
<1>4. PowerOfTwo(n) = Doubled[Min(E)]
  BY DEF PowerOfTwo
<1>5. n \in E
  BY DoubledGrows
<1> HIDE DEF E
<1>6. Min(E) \in E /\ \A d \in E : Min(E) <= d
  BY <1>1, MinFacts
<1>7. ASSUME NEW d \in Nat, Doubled[d] >= n
      PROVE  Doubled[Min(E)] <= Doubled[d]
  <2>1. Min(E) \in Nat /\ Min(E) <= n
    BY <1>2, <1>5, <1>6
  <2>2. Min(E) <= d
    BY <2>1, <1>3, <1>6, <1>7
  <2> QED  BY <2>1, <2>2, DoubledGrows
<1> QED  BY <1>2, <1>4, <1>6, <1>7

\* c is a power of two.
IsPower(c) == \E e \in Nat : c = Doubled[e]

LEMMA PowerFacts ==
  /\ \A n \in Nat : PowerOfTwo(n) \in Nat /\ PowerOfTwo(n) >= n /\ IsPower(PowerOfTwo(n))
  /\ \A m, n \in Nat : m <= n => PowerOfTwo(m) <= PowerOfTwo(n)
  /\ \A c : IsPower(c) => /\ c \in Nat /\ c > 0 /\ PowerOfTwo(c) = c /\ IsPower(2 * c)
                          /\ c = 1 \/ \E h \in Nat : c = 2 * h
<1>1. ASSUME NEW n \in Nat
      PROVE  PowerOfTwo(n) \in Nat /\ PowerOfTwo(n) >= n /\ IsPower(PowerOfTwo(n))
  <2> PICK e \in Nat : PowerOfTwo(n) = Doubled[e] /\ Doubled[e] >= n
    BY LeastPower
  <2> QED  BY DoubledIs DEF IsPower
<1>2. ASSUME NEW m \in Nat, NEW n \in Nat, m <= n
      PROVE  PowerOfTwo(m) <= PowerOfTwo(n)
  <2>1. PICK e \in Nat : /\ PowerOfTwo(m) = Doubled[e]
                         /\ \A d \in Nat : Doubled[d] >= m => Doubled[e] <= Doubled[d]
    BY LeastPower
  <2>2. PICK f \in Nat : PowerOfTwo(n) = Doubled[f] /\ Doubled[f] >= n
    BY LeastPower
  <2>3. Doubled[f] >= m
    <3>1. Doubled[f] \in Nat
      BY DoubledIs
    <3> QED  BY <3>1, <2>2, <1>2
  <2> QED  BY <2>1, <2>2, <2>3
<1>3. ASSUME NEW c, IsPower(c)
      PROVE  /\ c \in Nat /\ c > 0 /\ PowerOfTwo(c) = c /\ IsPower(2 * c)
             /\ c = 1 \/ \E h \in Nat : c = 2 * h
  <2>1. PICK e \in Nat : c = Doubled[e]
    BY <1>3 DEF IsPower
  <2>2. c \in Nat /\ c > 0
    BY <2>1, DoubledGrows
  <2>3. PowerOfTwo(c) = c
    <3>1. PICK f \in Nat : /\ PowerOfTwo(c) = Doubled[f] /\ Doubled[f] >= c
                           /\ \A d \in Nat : Doubled[d] >= c => Doubled[f] <= Doubled[d]
      BY <2>2, LeastPower
    <3>2. Doubled[f] <= Doubled[e] /\ Doubled[f] \in Nat
      BY <2>1, <2>2, <3>1, DoubledIs
    <3> QED  BY <2>1, <2>2, <3>1, <3>2
  <2>4. IsPower(2 * c)
    <3>1. e + 1 \in Nat /\ Doubled[e + 1] = 2 * c
      BY <2>1, DoubledIs
    <3> QED  BY <3>1 DEF IsPower
  <2>5. c = 1 \/ \E h \in Nat : c = 2 * h
    <3>1. CASE e = 0
      BY <3>1, <2>1, DoubledIs
    <3>2. CASE e # 0
      <4>1. e - 1 \in Nat /\ (e - 1) + 1 = e
        BY <3>2
      <4>2. Doubled[e - 1] \in Nat /\ Doubled[e] = 2 * Doubled[e - 1]
        BY <4>1, DoubledIs
      <4> QED  BY <4>2, <2>1
    <3> QED  BY <3>1, <3>2
  <2> QED  BY <2>2, <2>3, <2>4, <2>5
<1> QED  BY <1>1, <1>2, <1>3

\* The capacity for n strings is enough for them, and grows with n.
LEMMA DesiredFacts ==
  /\ \A n \in Nat : LET d == DesiredCapacity(n)
                    IN /\ IsPower(d) /\ d \in Nat /\ d >= MinCapacity /\ n * 4 <= d * 3
  /\ \A m, n \in Nat : m <= n => DesiredCapacity(m) <= DesiredCapacity(n)
<1> DEFINE need(n) == (n * 4 + 2) \div 3
           most(n) == Max({MinCapacity, need(n)})
<1>1. MinCapacity \in Nat
  BY InternerAssumption
<1>2. \A n \in Nat : need(n) \in Nat /\ need(n) * 3 >= n * 4
  OBVIOUS
<1>3. \A m, n \in Nat : m <= n => need(m) <= need(n)
  OBVIOUS
<1>4. \A n \in Nat : DesiredCapacity(n) = PowerOfTwo(most(n))
  BY DEF DesiredCapacity
<1> HIDE DEF need
<1>5. \A n \in Nat : most(n) = IF MinCapacity >= need(n) THEN MinCapacity ELSE need(n)
  <2> TAKE n \in Nat
  <2>1. need(n) \in Nat
    BY <1>2
  <2>2. \A a, b \in Nat : Max({a, b}) = IF a >= b THEN a ELSE b
    BY DEF Max
  <2> QED  BY <1>1, <2>1, <2>2
<1> HIDE DEF most
<1>6. \A n \in Nat : most(n) \in Nat /\ most(n) >= MinCapacity /\ most(n) * 3 >= n * 4
  BY <1>1, <1>2, <1>5
<1>7. ASSUME NEW m \in Nat, NEW n \in Nat, m <= n
      PROVE  most(m) <= most(n)
  <2>1. need(m) \in Nat /\ need(n) \in Nat
    BY <1>2
  <2>2. need(m) <= need(n)
    BY <1>3, <1>7
  <2>3. /\ most(m) = IF MinCapacity >= need(m) THEN MinCapacity ELSE need(m)
        /\ most(n) = IF MinCapacity >= need(n) THEN MinCapacity ELSE need(n)
    BY <1>5
  <2> QED  BY <2>1, <2>2, <2>3, <1>1
<1>8. ASSUME NEW n \in Nat
      PROVE  /\ IsPower(DesiredCapacity(n)) /\ DesiredCapacity(n) \in Nat
             /\ DesiredCapacity(n) >= MinCapacity /\ n * 4 <= DesiredCapacity(n) * 3
  <2>1. /\ IsPower(DesiredCapacity(n)) /\ DesiredCapacity(n) \in Nat
        /\ DesiredCapacity(n) >= most(n)
    BY <1>4, <1>6, PowerFacts
  <2> QED  BY <2>1, <1>1, <1>6
<1>9. ASSUME NEW m \in Nat, NEW n \in Nat, m <= n
      PROVE  DesiredCapacity(m) <= DesiredCapacity(n)
  BY <1>4, <1>6, <1>7, <1>9, PowerFacts
<1> QED  BY <1>8, <1>9

-----------------------------------------------------------------------------
(* One intern table                                                        *)

IsTable(t) == Size(t) \in Nat /\ t \in [0 .. Size(t) - 1 -> Str \cup {NoStr}]

\* No slot from h to j is empty.
Unbroken(t, h, j) == \A k \in Way(t, h, j) : t[k] # NoStr
AtPlace(t, i) == Unbroken(t, Home(t, t[i]), i)
Unique(t) == \A i, j \in Full(t) : t[i] = t[j] => i = j

\* The capacities are powers of two from MinCapacity on.
LEMMA MinFits == IsPower(MinCapacity) /\ MinCapacity \in Nat /\ MinCapacity >= 2
<1>1. PICK e \in 1 .. MinCapacity : MinCapacity = Doubled[e]
  BY InternerAssumption
<1>2. e \in Nat /\ e >= 1 /\ MinCapacity \in Nat
  BY InternerAssumption
<1>3. Doubled[e] >= e + 1 /\ Doubled[e] \in Nat
  BY <1>2, DoubledGrows
<1> QED  BY <1>1, <1>2, <1>3 DEF IsPower

LEMMA SizeFacts ==
  ASSUME NEW n \in Nat, NEW t, DOMAIN t = 0 .. n - 1
  PROVE  Size(t) = n
<1>1. Cardinality(0 .. n - 1) = IF 0 > n - 1 THEN 0 ELSE (n - 1) - 0 + 1
  BY FS_Interval
<1> QED  BY <1>1 DEF Size

\* The slots in use are finitely many, and when they are fewer than the slots
\* one is empty.
LEMMA FullFacts ==
  ASSUME NEW t, IsTable(t)
  PROVE  /\ DOMAIN t = 0 .. Size(t) - 1 /\ Full(t) \subseteq DOMAIN t
         /\ IsFiniteSet(Full(t)) /\ Cardinality(Full(t)) \in Nat
         /\ Cardinality(Full(t)) < Size(t) => \E i \in DOMAIN t : t[i] = NoStr
         /\ \A i \in Full(t) : t[i] \in Str
<1>1. DOMAIN t = 0 .. Size(t) - 1 /\ Size(t) = Cardinality(DOMAIN t) /\ Size(t) \in Nat
  BY DEF IsTable, Size
<1>2. IsFiniteSet(DOMAIN t)
  BY <1>1, FS_Interval
<1>3. Full(t) \subseteq DOMAIN t
  BY DEF Full
<1>4. IsFiniteSet(Full(t)) /\ Cardinality(Full(t)) \in Nat
  BY <1>2, <1>3, FS_Subset, FS_CardinalityType
<1>5. (\A i \in DOMAIN t : t[i] # NoStr) => Full(t) = DOMAIN t
  BY DEF Full
<1>6. Cardinality(Full(t)) < Size(t) => \E i \in DOMAIN t : t[i] = NoStr
  BY <1>1, <1>4, <1>5
<1>7. \A i \in Full(t) : t[i] \in Str
  BY DEF Full, IsTable
<1> QED  BY <1>1, <1>3, <1>4, <1>6, <1>7

LEMMA HomeIn ==
  ASSUME NEW t, IsTable(t), Size(t) # 0, NEW s \in Str
  PROVE  Home(t, s) \in DOMAIN t
<1>1. StrHash[s] \in Nat /\ Size(t) \in Nat /\ Size(t) > 0
  BY InternerAssumption DEF IsTable
<1>2. StrHash[s] % Size(t) \in 0 .. Size(t) - 1
  BY <1>1
<1> QED  BY <1>2, FullFacts DEF Home

\* Around the table.
LEMMA WayFacts ==
  ASSUME NEW t, IsTable(t), NEW h \in DOMAIN t, NEW j \in DOMAIN t
  PROVE  /\ h \in Way(t, h, j) /\ j \in Way(t, h, j) /\ Way(t, h, j) \subseteq DOMAIN t
         /\ \A i \in DOMAIN t : i \in Way(t, h, j) \/ j \in Way(t, h, i)
         /\ \A i \in DOMAIN t : Behind(t, i) \in DOMAIN t
         /\ \A i \in Way(t, h, j) : i # j =>
              \A k \in Way(t, Behind(t, i), j) : k \in Way(t, h, j) /\ k # i
<1>1. DOMAIN t = 0 .. Size(t) - 1 /\ Size(t) \in Nat
  BY FullFacts DEF IsTable
<1>2. /\ h \in Way(t, h, j) /\ j \in Way(t, h, j) /\ Way(t, h, j) \subseteq DOMAIN t
      /\ \A i \in DOMAIN t : i \in Way(t, h, j) \/ j \in Way(t, h, i)
  BY <1>1 DEF Way
<1>3. \A i \in DOMAIN t : Behind(t, i) \in DOMAIN t
  BY <1>1 DEF Behind
<1>4. ASSUME NEW i \in Way(t, h, j), i # j, NEW k \in Way(t, Behind(t, i), j)
      PROVE  k \in Way(t, h, j) /\ k # i
  <2>1. i \in 0 .. Size(t) - 1 /\ k \in 0 .. Size(t) - 1
    BY <1>1, <1>4 DEF Way
  <2>2. CASE i + 1 = Size(t)
    <3>1. Behind(t, i) = 0
      BY <2>2 DEF Behind
    <3> QED  BY <3>1, <2>1, <2>2, <1>1, <1>4 DEF Way
  <2>3. CASE i + 1 # Size(t)
    <3>1. Behind(t, i) = i + 1
      BY <2>3 DEF Behind
    <3> QED  BY <3>1, <2>1, <2>3, <1>1, <1>4 DEF Way
  <2> QED  BY <2>2, <2>3
<1> QED  BY <1>2, <1>3, <1>4

\* Probe stops at the first slot that is empty or holds the string.
LEMMA ProbeFacts ==
  ASSUME NEW t, IsTable(t), NEW i \in DOMAIN t, NEW s, \E j \in DOMAIN t : t[j] \in {NoStr, s},
         NEW p, p = Probe(t, i, s)
  PROVE  /\ p \in DOMAIN t /\ t[p] \in {NoStr, s}
         /\ \A k \in Way(t, i, p) : t[k] \in {NoStr, s} => k = p
<1>1. DOMAIN t = 0 .. Size(t) - 1 /\ Size(t) \in Nat
  BY FullFacts DEF IsTable
<1> DEFINE T == {j \in DOMAIN t : t[j] \in {NoStr, s}}
           U == {j \in T : i <= j}
<1>2. T \subseteq Nat /\ T # {} /\ U \subseteq Nat /\ \A j : j \in U <=> j \in T /\ i <= j
  BY <1>1
<1>3. \A j : j \in T <=> j \in DOMAIN t /\ t[j] \in {NoStr, s}
  OBVIOUS
<1> HIDE DEF T, U
<1>4. \E j \in DOMAIN t : /\ t[j] \in {NoStr, s}
                          /\ \A k \in Way(t, i, j) : t[k] \in {NoStr, s} => k = j
  <2>1. CASE U # {}
    <3>1. Min(U) \in U /\ \A k \in U : Min(U) <= k
      BY <2>1, <1>2, MinFacts
    <3>2. ASSUME NEW k \in Way(t, i, Min(U)), k \in T
          PROVE  k = Min(U)
      <4>1. i <= Min(U) /\ Min(U) \in Nat /\ k \in Nat
        BY <3>1, <3>2, <1>2
      <4>2. i <= k /\ k <= Min(U)
        BY <4>1, <3>2 DEF Way
      <4>3. Min(U) <= k
        BY <4>2, <3>1, <3>2, <1>2
      <4> QED  BY <4>1, <4>2, <4>3
    <3>3. Min(U) \in T
      BY <3>1, <1>2
    <3>4. \A k \in Way(t, i, Min(U)) : k \in DOMAIN t
      BY DEF Way
    <3> QED  BY <3>2, <3>3, <3>4, <1>3
  <2>2. CASE U = {}
    <3>1. Min(T) \in T /\ \A k \in T : Min(T) <= k
      BY <1>2, MinFacts
    <3>2. ASSUME NEW k \in Way(t, i, Min(T)), k \in T
          PROVE  k = Min(T)
      <4>1. ~(i <= Min(T)) /\ ~(i <= k) /\ Min(T) \in Nat /\ k \in Nat
        BY <2>2, <3>1, <3>2, <1>2
      <4>2. k <= Min(T)
        BY <4>1, <3>2 DEF Way
      <4>3. Min(T) <= k
        BY <3>1, <3>2
      <4> QED  BY <4>1, <4>2, <4>3
    <3>3. \A k \in Way(t, i, Min(T)) : k \in DOMAIN t
      BY DEF Way
    <3> QED  BY <3>1, <3>2, <3>3, <1>3
  <2> QED  BY <2>1, <2>2
<1> QED  BY <1>4 DEF Probe

\* The size decides where strings belong.
LEMMA SameSize ==
  ASSUME NEW t, NEW u, DOMAIN u = DOMAIN t
  PROVE  /\ Size(u) = Size(t) /\ \A i : Behind(u, i) = Behind(t, i)
         /\ \A s : Home(u, s) = Home(t, s)
         /\ \A i, j : Way(u, i, j) = Way(t, i, j)
BY Zenon DEF Size, Behind, Home, Way

\* s goes to p, the first empty slot from its primary one on, which gives u.
PlacedAt(t, s, p, u) ==
  /\ p \in DOMAIN t /\ t[p] = NoStr /\ u = [t EXCEPT ![p] = s]
  /\ \A k \in Way(t, Home(t, s), p) : k # p => t[k] # NoStr

LEMMA PlacedIs ==
  ASSUME NEW t, IsTable(t), Size(t) # 0, NEW s \in Str, \E i \in DOMAIN t : t[i] = NoStr
  PROVE  \E p : PlacedAt(t, s, p, Placed(t, s))
<1> DEFINE p == Probe(t, Home(t, s), NoStr)
<1>1. Home(t, s) \in DOMAIN t
  BY HomeIn
<1>2. \E j \in DOMAIN t : t[j] \in {NoStr, NoStr}
  OBVIOUS
<1>3. /\ p \in DOMAIN t /\ t[p] \in {NoStr, NoStr}
      /\ \A k \in Way(t, Home(t, s), p) : t[k] \in {NoStr, NoStr} => k = p
  <2> DEFINE h == Home(t, s)
  <2>1. h \in DOMAIN t
    BY <1>1
  <2> HIDE DEF h
  <2>2. ASSUME NEW q, q = Probe(t, h, NoStr)
        PROVE  /\ q \in DOMAIN t /\ t[q] \in {NoStr, NoStr}
               /\ \A k \in Way(t, h, q) : t[k] \in {NoStr, NoStr} => k = q
    BY <2>1, <2>2, <1>2, ProbeFacts
  <2> QED  BY <2>2 DEF h
<1>4. Placed(t, s) = [t EXCEPT ![p] = s]
  BY DEF Placed
<1> HIDE DEF p
<1>5. PlacedAt(t, s, p, Placed(t, s))
  BY <1>3, <1>4 DEF PlacedAt
<1> QED  BY <1>5

\* u is t with s in the slot p, which was empty.
PlacedIn(t, s, p, u) ==
  /\ IsTable(u) /\ DOMAIN u = DOMAIN t /\ Size(u) = Size(t)
  /\ u[p] = s /\ p \in DOMAIN t /\ p \notin Full(t)
  /\ \A i \in DOMAIN t : i # p => u[i] = t[i]
  /\ \A i : i \in Full(u) <=> i \in Full(t) \/ i = p
  /\ \A x : x \in Contents(u) <=> x \in Contents(t) \/ x = s
  /\ Cardinality(Full(u)) = Cardinality(Full(t)) + 1
  /\ \A h, j : Unbroken(t, h, j) => Unbroken(u, h, j)
  /\ AtPlace(u, p)
  /\ Unique(t) /\ s \notin Contents(t) => Unique(u)

LEMMA PlacedIsIn ==
  ASSUME NEW t, IsTable(t), NEW s \in Str, NEW p, NEW u, PlacedAt(t, s, p, u)
  PROVE  PlacedIn(t, s, p, u)
<1>1. DOMAIN t = 0 .. Size(t) - 1 /\ Size(t) \in Nat /\ t \in [0 .. Size(t) - 1 -> Str \cup {NoStr}]
  BY FullFacts DEF IsTable
<1>2. /\ p \in DOMAIN t /\ t[p] = NoStr /\ u = [t EXCEPT ![p] = s] /\ s # NoStr
      /\ \A k \in Way(t, Home(t, s), p) : k # p => t[k] # NoStr
  BY InternerAssumption DEF PlacedAt
<1>3. DOMAIN u = DOMAIN t /\ u[p] = s /\ \A i \in DOMAIN t : i # p => u[i] = t[i]
  BY <1>1, <1>2
<1>4. Size(u) = Size(t)
  BY <1>3, SameSize
<1>5. IsTable(u)
  BY <1>1, <1>2, <1>4 DEF IsTable
<1>6. p \notin Full(t) /\ \A i : i \in Full(u) <=> i \in Full(t) \/ i = p
  BY <1>2, <1>3 DEF Full
<1>7. \A x : x \in Contents(u) <=> x \in Contents(t) \/ x = s
  <2>1. \A i \in Full(t) : i \in DOMAIN t /\ i # p
    BY <1>6 DEF Full
  <2> QED  BY <2>1, <1>3, <1>6 DEF Contents
<1>8. Cardinality(Full(u)) = Cardinality(Full(t)) + 1
  <2>1. Full(u) = Full(t) \cup {p}
    BY <1>6
  <2>2. IsFiniteSet(Full(t))
    BY FullFacts
  <2>3. Cardinality(Full(t) \cup {p}) = IF p \in Full(t) THEN Cardinality(Full(t)) ELSE Cardinality(Full(t)) + 1
    BY <2>2, FS_AddElement
  <2> QED  BY <2>1, <2>3, <1>6
<1>9. \A i, j : Way(u, i, j) = Way(t, i, j)
  BY <1>3, SameSize
<1>10. \A i, j : \A k \in Way(t, i, j) : k \in DOMAIN t
  BY DEF Way
<1>11. ASSUME NEW h, NEW j, Unbroken(t, h, j)
       PROVE  Unbroken(u, h, j)
  <2>1. \A k \in Way(t, h, j) : u[k] # NoStr
    BY <1>2, <1>3, <1>10, <1>11 DEF Unbroken
  <2> QED  BY <2>1, <1>9 DEF Unbroken
<1>12. AtPlace(u, p)
  <2>1. Home(u, u[p]) = Home(t, s)
    BY <1>3, SameSize
  <2>2. Way(u, Home(u, u[p]), p) = Way(t, Home(t, s), p)
    BY <2>1, <1>9
  <2>3. \A k \in Way(t, Home(t, s), p) : u[k] # NoStr
    BY <1>2, <1>3, <1>10
  <2> QED  BY <2>2, <2>3 DEF AtPlace, Unbroken
<1>13. ASSUME Unique(t), s \notin Contents(t)
       PROVE  Unique(u)
  <2>1. \A i \in Full(t) : i # p /\ t[i] = u[i] /\ u[i] # s
    BY <1>3, <1>6, <1>13 DEF Full, Contents
  <2> QED  BY <2>1, <1>3, <1>6, <1>13 DEF Unique
<1> QED  BY <1>1, <1>2, <1>3, <1>4, <1>5, <1>6, <1>7, <1>8, <1>11, <1>12, <1>13 DEF PlacedIn

\* u is t with the slot c emptied.
Emptied(t, c, u) ==
  /\ IsTable(u) /\ DOMAIN u = DOMAIN t /\ Size(u) = Size(t)
  /\ u[c] = NoStr /\ c \in DOMAIN t
  /\ \A i \in DOMAIN t : i # c => u[i] = t[i]
  /\ \A i : i \in Full(u) <=> i \in Full(t) /\ i # c
  /\ Cardinality(Full(u)) = Cardinality(Full(t)) - 1
  /\ Unique(t) => /\ Unique(u)
                  /\ \A x : x \in Contents(u) <=> x \in Contents(t) /\ x # t[c]
  /\ \A h, j \in DOMAIN t : Unbroken(t, h, j) /\ j # c =>
       Unbroken(u, h, j) \/ Unbroken(u, Behind(t, c), j)

LEMMA EmptiedFacts ==
  ASSUME NEW t, IsTable(t), NEW c \in Full(t), NEW u, u = [t EXCEPT ![c] = NoStr]
  PROVE  Emptied(t, c, u)
<1>1. DOMAIN t = 0 .. Size(t) - 1 /\ Size(t) \in Nat /\ t \in [0 .. Size(t) - 1 -> Str \cup {NoStr}]
  BY FullFacts DEF IsTable
<1>2. c \in DOMAIN t /\ t[c] # NoStr
  BY DEF Full
<1>3. DOMAIN u = DOMAIN t /\ u[c] = NoStr /\ \A i \in DOMAIN t : i # c => u[i] = t[i]
  BY <1>1, <1>2
<1>4. Size(u) = Size(t)
  BY <1>3, SameSize
<1>5. IsTable(u)
  BY <1>1, <1>2, <1>4 DEF IsTable
<1>6. \A i : i \in Full(u) <=> i \in Full(t) /\ i # c
  BY <1>2, <1>3 DEF Full
<1>7. Cardinality(Full(u)) = Cardinality(Full(t)) - 1
  <2>1. Full(u) = Full(t) \ {c}
    BY <1>6
  <2> QED  BY <2>1, FullFacts, FS_RemoveElement
<1>8. ASSUME Unique(t)
      PROVE  /\ Unique(u)
             /\ \A x : x \in Contents(u) <=> x \in Contents(t) /\ x # t[c]
  <2>1. \A i \in Full(u) : i \in Full(t) /\ i # c /\ u[i] = t[i]
    BY <1>3, <1>6 DEF Full
  <2>2. Unique(u)
    BY <2>1, <1>8 DEF Unique
  <2>3. \A i \in Full(t) : t[i] = t[c] => i = c
    BY <1>8 DEF Unique
  <2>4. \A x : x \in Contents(u) <=> x \in Contents(t) /\ x # t[c]
    BY <2>1, <2>3, <1>6 DEF Contents
  <2> QED  BY <2>2, <2>4
<1>9. \A i, j : Way(u, i, j) = Way(t, i, j)
  <2>1. DOMAIN u = DOMAIN t
    BY <1>3
  <2> QED  BY <2>1, <1>4 DEF Way
<1>10. ASSUME NEW h \in DOMAIN t, NEW j \in DOMAIN t, Unbroken(t, h, j), j # c
       PROVE  Unbroken(u, h, j) \/ Unbroken(u, Behind(t, c), j)
  <2>1. \A k \in Way(t, h, j) : k \in DOMAIN t /\ t[k] # NoStr
    BY <1>10 DEF Unbroken, Way
  <2>2. CASE c \notin Way(t, h, j)
    <3>1. \A k \in Way(t, h, j) : u[k] # NoStr
      BY <2>1, <2>2, <1>3
    <3> QED  BY <3>1, <1>9 DEF Unbroken
  <2>3. CASE c \in Way(t, h, j)
    <3>1. \A k \in Way(t, Behind(t, c), j) : k \in Way(t, h, j) /\ k # c
      BY <2>3, <1>10, WayFacts
    <3>2. \A k \in Way(t, Behind(t, c), j) : u[k] # NoStr
      BY <3>1, <2>1, <1>3
    <3> QED  BY <3>2, <1>9 DEF Unbroken
  <2> QED  BY <2>2, <2>3
<1> QED  BY <1>2, <1>3, <1>4, <1>5, <1>6, <1>7, <1>8, <1>10 DEF Emptied

\* When every string can be reached, the probe finds those that are there.
LEMMA ProbeFinds ==
  ASSUME NEW t, IsTable(t), \A i \in Full(t) : AtPlace(t, i),
         Size(t) # 0 => \E i \in DOMAIN t : t[i] = NoStr, NEW s \in Str
  PROVE  /\ FindInternedString(t, s) = s <=> s \in Contents(t)
         /\ s \in Contents(t) => /\ Size(t) # 0
                                 /\ Probe(t, Home(t, s), s) \in Full(t)
                                 /\ t[Probe(t, Home(t, s), s)] = s
<1>1. DOMAIN t = 0 .. Size(t) - 1 /\ Size(t) \in Nat
  BY FullFacts DEF IsTable
<1>2. s # NoStr
  BY InternerAssumption
<1>3. CASE Size(t) = 0
  <2>1. DOMAIN t = {}
    BY <1>1, <1>3
  <2>2. s \notin Contents(t)
    BY <2>1 DEF Contents, Full
  <2>3. FindInternedString(t, s) = NoStr
    BY <1>3 DEF FindInternedString
  <2> QED  BY <2>2, <2>3, <1>2
<1>4. CASE Size(t) # 0
  <2> DEFINE h == Home(t, s)
             p == Probe(t, h, s)
  <2>1. h \in DOMAIN t
    BY <1>4, HomeIn
  <2>2. FindInternedString(t, s) = t[p]
    BY <1>4 DEF FindInternedString
  <2> SUFFICES /\ t[p] = s <=> s \in Contents(t)
               /\ s \in Contents(t) => p \in Full(t) /\ t[p] = s
    BY <2>2, <1>4
  <2>3. \E j \in DOMAIN t : t[j] \in {NoStr, s}
    BY <1>4
  <2>4. \A i \in Full(t) : t[i] = s => Unbroken(t, h, i)
    BY DEF AtPlace
  <2> HIDE DEF h
  <2>5. ASSUME NEW q, q = Probe(t, h, s)
        PROVE  /\ q \in DOMAIN t /\ t[q] \in {NoStr, s}
               /\ \A k \in Way(t, h, q) : t[k] \in {NoStr, s} => k = q
    BY <2>1, <2>3, <2>5, ProbeFacts
  <2>6. /\ p \in DOMAIN t /\ t[p] \in {NoStr, s}
        /\ \A k \in Way(t, h, p) : t[k] \in {NoStr, s} => k = p
    BY <2>5
  <2> HIDE DEF p
  <2>7. t[p] = s => p \in Full(t) /\ s \in Contents(t)
    BY <2>6, <1>2 DEF Full, Contents
  <2>8. ASSUME s \in Contents(t)
        PROVE  t[p] = s
    <3>1. PICK i \in Full(t) : t[i] = s
      BY <2>8 DEF Contents
    <3>2. i \in DOMAIN t /\ Unbroken(t, h, i)
      BY <3>1, <2>4 DEF Full
    <3>3. p \in Way(t, h, i) \/ i \in Way(t, h, p)
      BY <3>2, <2>1, <2>6, WayFacts
    <3>4. CASE p \in Way(t, h, i)
      BY <3>2, <3>4, <2>6 DEF Unbroken
    <3>5. CASE i \in Way(t, h, p)
      BY <3>1, <3>5, <2>6
    <3> QED  BY <3>3, <3>4, <3>5
  <2> QED  BY <2>7, <2>8
<1> QED  BY <1>3, <1>4

-----------------------------------------------------------------------------
(* The invariant of the interner                                           *)

TableOk(t) ==
  /\ IsTable(t) /\ Unique(t)
  /\ Size(t) # 0 => IsPower(Size(t)) /\ Size(t) >= MinCapacity

\* The slots of a rehash that are still to be moved, what waits to be placed,
\* and how many strings that are.
Left(w) == {i \in Full(w.old) : w.at <= i}
Waiting(w, x) == x # NoStr /\ (x = w.string \/ \E i \in Left(w) : w.old[i] = x)
Due(w) == Cardinality(Left(w)) + IF w.string = NoStr THEN 0 ELSE 1

\* n strings leave an empty slot, and do not need a table half as large.
Roomy(size, n) == n \in Nat /\ n * 4 <= size * 3
Slim(size, n) == size <= 2 * DesiredCapacity(n)

IdleOk(t, c, N, w) ==
  /\ w = Done
  /\ \A i \in Full(t) : AtPlace(t, i)
  /\ \A x : x \in N <=> x \in Contents(t)
  /\ Roomy(Size(t), c) /\ Slim(Size(t), c)

CloseOk(t, c, N, w) ==
  /\ w = [op |-> "close", at |-> w.at, old |-> <<>>, string |-> NoStr]
  /\ w.at \in DOMAIN t /\ Size(t) # 0
  /\ \A i \in Full(t) : AtPlace(t, i) \/ Unbroken(t, w.at, i)
  /\ \A x : x \in N <=> x \in Contents(t)
  /\ Roomy(Size(t), c)

RehashOk(t, c, N, w) ==
  /\ w = [op |-> "rehash", at |-> w.at, old |-> w.old, string |-> w.string]
  /\ IsTable(w.old) /\ Unique(w.old) /\ w.at \in 0 .. Size(w.old)
  /\ w.string \in Str \cup {NoStr} /\ Size(t) # 0
  /\ \A i \in Full(t) : AtPlace(t, i)
  /\ \A i \in Left(w) : w.old[i] # w.string
  /\ \A x : x \in N <=> x \in Contents(t) \/ Waiting(w, x)
  /\ \A x : x \in Contents(t) => ~Waiting(w, x)
  /\ Roomy(Size(t), c + Due(w)) /\ Slim(Size(t), c + Due(w))

InternOk(t, c, N, w) ==
  /\ TableOk(t) /\ c = Cardinality(Full(t))
  /\ IdleOk(t, c, N, w) \/ CloseOk(t, c, N, w) \/ RehashOk(t, c, N, w)

LEMMA EmptySlot ==
  ASSUME NEW t, IsTable(t), Size(t) # 0, NEW c, c = Cardinality(Full(t)), Roomy(Size(t), c)
  PROVE  \E i \in DOMAIN t : t[i] = NoStr
<1>1. c \in Nat /\ Size(t) \in Nat
  BY FullFacts DEF IsTable
<1>2. c < Size(t)
  BY <1>1 DEF Roomy
<1> QED  BY <1>2, FullFacts

LEMMA FreshFacts ==
  ASSUME NEW n \in Nat, NEW t, t = FreshSlots(n)
  PROVE  /\ IsTable(t) /\ Unique(t) /\ Size(t) = n /\ Cardinality(Full(t)) = 0
         /\ \A i : i \notin Full(t)
         /\ \A x : x \notin Contents(t)
<1>1. DOMAIN t = 0 .. n - 1 /\ \A i \in DOMAIN t : t[i] = NoStr
  BY DEF FreshSlots
<1>2. Size(t) = n
  BY <1>1, SizeFacts
<1>3. IsTable(t)
  BY <1>1, <1>2 DEF IsTable, FreshSlots
<1>4. Full(t) = {}
  BY <1>1 DEF Full
<1>5. Cardinality(Full(t)) = 0
  BY <1>4, FS_EmptySet
<1> QED  BY <1>2, <1>3, <1>4, <1>5 DEF Unique, Contents

\* Everything waits at the start of a rehash.
LEMMA RehashStarts ==
  ASSUME NEW t, TableOk(t), NEW x \in Str \cup {NoStr}, x \notin Contents(t),
         NEW C, IsPower(C), C >= MinCapacity, NEW u, u = FreshSlots(C),
         NEW w, w = [op |-> "rehash", at |-> 0, old |-> t, string |-> x],
         NEW n, n = Cardinality(Full(t)) + IF x = NoStr THEN 0 ELSE 1,
         Roomy(C, n), Slim(C, n),
         NEW N, \A y : y \in N <=> y \in Contents(t) \/ (y # NoStr /\ y = x)
  PROVE  InternOk(u, 0, N, w)
<1>1. C \in Nat /\ C > 0
  BY PowerFacts
<1>2. /\ IsTable(u) /\ Unique(u) /\ Size(u) = C /\ Cardinality(Full(u)) = 0
      /\ \A i : i \notin Full(u)
      /\ \A y : y \notin Contents(u)
  BY <1>1, FreshFacts
<1>3. TableOk(u)
  BY <1>2 DEF TableOk
<1>4. w.op = "rehash" /\ w.at = 0 /\ w.old = t /\ w.string = x
  OBVIOUS
<1>5. IsTable(t) /\ Unique(t) /\ Size(t) \in Nat /\ Full(t) \subseteq 0 .. Size(t) - 1
  BY FullFacts DEF TableOk, IsTable
<1>6. Left(w) = Full(t)
  BY <1>4, <1>5 DEF Left
<1>7. 0 + Due(w) = n
  <2>1. Cardinality(Full(t)) \in Nat
    BY <1>5, FullFacts
  <2>2. Due(w) = n
    BY <1>4, <1>6 DEF Due
  <2>3. n \in Nat
    BY DEF Roomy
  <2> QED  BY <2>2, <2>3
<1>8. \A y : Waiting(w, y) <=> y \in Contents(t) \/ (y # NoStr /\ y = x)
  BY <1>4, <1>6 DEF Waiting, Contents, Full
<1>9. \A i \in Left(w) : w.old[i] # w.string
  BY <1>4, <1>6 DEF Contents
<1>10. RehashOk(u, 0, N, w)
  <2>1. w.at \in 0 .. Size(w.old)
    BY <1>4, <1>5
  <2>2. w = [op |-> "rehash", at |-> w.at, old |-> w.old, string |-> w.string]
    BY <1>4
  <2>3. Roomy(Size(u), 0 + Due(w)) /\ Slim(Size(u), 0 + Due(w))
    BY <1>2, <1>7
  <2>4. Size(u) # 0 /\ \A i \in Full(u) : AtPlace(u, i)
    BY <1>1, <1>2
  <2>5. /\ \A y : y \in N <=> y \in Contents(u) \/ Waiting(w, y)
        /\ \A y : y \in Contents(u) => ~Waiting(w, y)
    BY <1>2, <1>8
  <2> QED  BY <2>1, <2>2, <2>3, <2>4, <2>5, <1>4, <1>5, <1>9 DEF RehashOk
<1> QED  BY <1>2, <1>3, <1>10 DEF InternOk

\* The larger table of a string that does not fit.
LEMMA LargerFits ==
  ASSUME NEW size \in Nat, size = 0 \/ IsPower(size), size # 0 => size >= MinCapacity,
         NEW c, Roomy(size, c), ~((c + 1) * 4 <= size * 3) \/ size = 0,
         NEW C, C = PowerOfTwo(Max({2 * size, MinCapacity}))
  PROVE  IsPower(C) /\ C >= MinCapacity /\ Roomy(C, c + 1) /\ Slim(C, c + 1)
<1>1. c \in Nat /\ c * 4 <= size * 3 /\ c + 1 \in Nat
  BY DEF Roomy
<1>2. IsPower(MinCapacity) /\ MinCapacity \in Nat /\ MinCapacity >= 2
  BY MinFits
<1>3. Max({2 * size, MinCapacity}) = IF 2 * size >= MinCapacity THEN 2 * size ELSE MinCapacity
  <2>1. \A a, b \in Nat : Max({a, b}) = IF a >= b THEN a ELSE b
    BY DEF Max
  <2> QED  BY <2>1, <1>2
<1> DEFINE D == DesiredCapacity(c + 1)
<1>4. D \in Nat /\ D >= MinCapacity /\ (c + 1) * 4 <= D * 3
  <2>1. \A n \in Nat : /\ DesiredCapacity(n) \in Nat /\ DesiredCapacity(n) >= MinCapacity
                       /\ n * 4 <= DesiredCapacity(n) * 3
    BY DesiredFacts
  <2> QED  BY <2>1, <1>1
<1>5. Slim(C, c + 1) <=> C <= 2 * D
  BY DEF Slim
<1> HIDE DEF D
<1>6. CASE size = 0
  <2>1. C = MinCapacity
    BY <1>2, <1>3, <1>6, PowerFacts
  <2> QED  BY <2>1, <1>1, <1>2, <1>4, <1>5, <1>6 DEF Roomy
<1>7. CASE size # 0
  <2>1. 2 * size >= MinCapacity /\ IsPower(2 * size) /\ PowerOfTwo(2 * size) = 2 * size
    BY <1>2, <1>7, PowerFacts
  <2>2. C = 2 * size
    BY <2>1, <1>3
  <2>3. Roomy(C, c + 1)
    BY <2>2, <1>1, <1>2, <1>7 DEF Roomy
  <2>4. C <= 2 * D
    BY <2>2, <1>1, <1>4, <1>7
  <2> QED  BY <2>1, <2>2, <2>3, <2>4, <1>5
<1> QED  BY <1>6, <1>7

\* The smaller table of a shrink.
LEMMA SmallerFits ==
  ASSUME NEW c \in Nat, NEW C, C = PowerOfTwo(Max({DesiredCapacity(c), MinCapacity}))
  PROVE  IsPower(C) /\ C >= MinCapacity /\ Roomy(C, c) /\ Slim(C, c)
<1> DEFINE D == DesiredCapacity(c)
<1>1. IsPower(D) /\ D \in Nat /\ D >= MinCapacity /\ c * 4 <= D * 3
  BY DesiredFacts
<1>2. MinCapacity \in Nat
  BY MinFits
<1>3. Slim(C, c) <=> C <= 2 * D
  BY DEF Slim
<1>4. C = PowerOfTwo(Max({D, MinCapacity}))
  OBVIOUS
<1> HIDE DEF D
<1>5. Max({D, MinCapacity}) = D
  <2>1. \A a, b \in Nat : Max({a, b}) = IF a >= b THEN a ELSE b
    BY DEF Max
  <2> QED  BY <2>1, <1>1, <1>2
<1>6. C = D
  BY <1>1, <1>4, <1>5, PowerFacts
<1> QED  BY <1>1, <1>3, <1>6 DEF Roomy

\* Placing a string keeps the others at their places, and the table in order.
LEMMA PlacedKeeps ==
  ASSUME NEW t, NEW s, NEW p, NEW u, PlacedIn(t, s, p, u)
  PROVE  /\ \A i \in Full(u) : i # p =>
              /\ i \in Full(t) /\ u[i] = t[i]
              /\ AtPlace(t, i) => AtPlace(u, i)
         /\ (\A i \in Full(t) : AtPlace(t, i)) => \A i \in Full(u) : AtPlace(u, i)
         /\ TableOk(t) /\ s \notin Contents(t) => TableOk(u)
<1>1. DOMAIN u = DOMAIN t /\ AtPlace(u, p) /\ Size(u) = Size(t)
  BY DEF PlacedIn
<1>2. ASSUME NEW i \in Full(u), i # p
      PROVE  /\ i \in Full(t) /\ u[i] = t[i]
             /\ AtPlace(t, i) => AtPlace(u, i)
  <2>1. i \in Full(t)
    BY <1>2 DEF PlacedIn
  <2>2. i \in DOMAIN t
    BY <2>1 DEF Full
  <2>3. u[i] = t[i]
    BY <1>2, <2>2 DEF PlacedIn
  <2>4. Home(u, u[i]) = Home(t, t[i])
    BY <1>1, <2>3, SameSize
  <2>5. \A h, j : Unbroken(t, h, j) => Unbroken(u, h, j)
    BY DEF PlacedIn
  <2> QED  BY <2>1, <2>3, <2>4, <2>5 DEF AtPlace
<1>3. ASSUME \A i \in Full(t) : AtPlace(t, i)
      PROVE  \A i \in Full(u) : AtPlace(u, i)
  BY <1>1, <1>2, <1>3
<1>4. ASSUME TableOk(t), s \notin Contents(t)
      PROVE  TableOk(u)
  <2>1. Unique(u) /\ IsTable(u)
    BY <1>4 DEF PlacedIn, TableOk
  <2> QED  BY <2>1, <1>1, <1>4 DEF TableOk
<1> QED  BY <1>2, <1>3, <1>4

\* A string goes into a table that has room.
LEMMA InternKeeps ==
  ASSUME NEW t, NEW c, NEW N, NEW w, TableOk(t), c = Cardinality(Full(t)), IdleOk(t, c, N, w),
         NEW s \in Str, s \notin N, Size(t) # 0, (c + 1) * 4 <= Size(t) * 3,
         NEW M, \A x : x \in M <=> x \in N \/ x = s,
         NEW u, u = Placed(t, s)
  PROVE  InternOk(u, c + 1, M, w)
<1>1. /\ \A i \in Full(t) : AtPlace(t, i)
      /\ \A x : x \in N <=> x \in Contents(t)
      /\ Roomy(Size(t), c) /\ Slim(Size(t), c) /\ w = Done
  BY DEF IdleOk
<1>2. IsTable(t) /\ Size(t) \in Nat /\ c \in Nat
  BY <1>1 DEF TableOk, IsTable, Roomy
<1>3. \E i \in DOMAIN t : t[i] = NoStr
  BY <1>1, <1>2, EmptySlot
<1>4. PICK p : PlacedAt(t, s, p, u)
  BY <1>2, <1>3, PlacedIs
<1>5. PlacedIn(t, s, p, u)
  BY <1>2, <1>4, PlacedIsIn
<1>6. s \notin Contents(t)
  BY <1>1
<1>7. TableOk(u) /\ \A i \in Full(u) : AtPlace(u, i)
  BY <1>1, <1>5, <1>6, PlacedKeeps
<1>8. Size(u) = Size(t) /\ c + 1 = Cardinality(Full(u)) /\ \A x : x \in M <=> x \in Contents(u)
  BY <1>1, <1>5 DEF PlacedIn
<1>9. Roomy(Size(u), c + 1)
  BY <1>2, <1>8 DEF Roomy
<1>10. Slim(Size(u), c + 1)
  <2>1. DesiredCapacity(c) <= DesiredCapacity(c + 1)
    BY <1>2, DesiredFacts
  <2>2. DesiredCapacity(c) \in Nat /\ DesiredCapacity(c + 1) \in Nat
    BY <1>2, DesiredFacts
  <2> QED  BY <2>1, <2>2, <1>1, <1>2, <1>8 DEF Slim
<1>11. IdleOk(u, c + 1, M, w)
  BY <1>1, <1>7, <1>8, <1>9, <1>10 DEF IdleOk
<1> QED  BY <1>7, <1>8, <1>11 DEF InternOk

\* The slot i is emptied, which gives u, and v closes the hole.
Hole(t, i, u, v) ==
  /\ u = [t EXCEPT ![i] = NoStr]
  /\ v = [op |-> "close", at |-> Behind(t, i), old |-> <<>>, string |-> NoStr]

\* What follows in the cluster of the hole may have lost its way.
LEMMA FreeKeeps ==
  ASSUME NEW t, NEW c, NEW N, NEW w, TableOk(t), c = Cardinality(Full(t)), IdleOk(t, c, N, w),
         NEW s \in Str, NEW i \in Full(t), t[i] = s,
         NEW M, \A x : x \in M <=> x \in N /\ x # s,
         NEW u, NEW v, Hole(t, i, u, v),
         NEW d, d = c - 1
  PROVE  InternOk(u, d, M, v)
<1>1. /\ \A j \in Full(t) : AtPlace(t, j)
      /\ \A x : x \in N <=> x \in Contents(t)
      /\ Roomy(Size(t), c)
  BY DEF IdleOk
<1>2. IsTable(t) /\ Unique(t) /\ Size(t) \in Nat /\ c \in Nat
  BY <1>1 DEF TableOk, IsTable, Roomy
<1>3. Emptied(t, i, u)
  <2>1. u = [t EXCEPT ![i] = NoStr]
    BY DEF Hole
  <2> QED  BY <2>1, <1>2, EmptiedFacts
<1>4. i \in DOMAIN t /\ DOMAIN t = 0 .. Size(t) - 1 /\ \A j \in Full(t) : j \in DOMAIN t /\ t[j] \in Str
  BY <1>2, FullFacts DEF Full
<1>5. /\ IsTable(u) /\ Unique(u) /\ DOMAIN u = DOMAIN t /\ Size(u) = Size(t)
      /\ Cardinality(Full(u)) = d
      /\ \A x : x \in Contents(u) <=> x \in Contents(t) /\ x # s
      /\ \A j : j \in Full(u) <=> j \in Full(t) /\ j # i
      /\ \A j \in DOMAIN t : j # i => u[j] = t[j]
      /\ \A h, j \in DOMAIN t : Unbroken(t, h, j) /\ j # i =>
           Unbroken(u, h, j) \/ Unbroken(u, Behind(t, i), j)
  BY <1>2, <1>3 DEF Emptied
<1>6. TableOk(u)
  BY <1>5 DEF TableOk
<1>7. Size(t) # 0 /\ d \in Nat
  <2>1. Size(t) # 0
    BY <1>2, <1>4
  <2>2. Cardinality(Full(u)) \in Nat
    BY <1>5, FullFacts
  <2> QED  BY <2>1, <2>2, <1>5
<1>8. v.op = "close" /\ v.at = Behind(t, i) /\ v.old = <<>> /\ v.string = NoStr
  BY DEF Hole
<1>9. v.at \in DOMAIN u
  BY <1>2, <1>4, <1>5, <1>8, WayFacts
<1>10. ASSUME NEW j \in Full(u)
       PROVE  AtPlace(u, j) \/ Unbroken(u, v.at, j)
  <2>1. j \in Full(t) /\ j # i /\ j \in DOMAIN t /\ t[j] \in Str
    BY <1>4, <1>5
  <2>2. Unbroken(t, Home(t, t[j]), j) /\ u[j] = t[j]
    BY <2>1, <1>1, <1>5 DEF AtPlace
  <2>3. Home(t, t[j]) \in DOMAIN t
    BY <2>1, <1>2, <1>7, HomeIn
  <2>4. Unbroken(u, Home(t, t[j]), j) \/ Unbroken(u, Behind(t, i), j)
    BY <2>1, <2>2, <2>3, <1>5
  <2>5. Home(u, u[j]) = Home(t, t[j])
    <3>1. Size(u) = Size(t)
      BY <1>5
    <3> QED  BY <3>1, <2>2 DEF Home
  <2> QED  BY <2>4, <2>5, <1>8 DEF AtPlace
<1>11. Roomy(Size(u), d)
  BY <1>1, <1>2, <1>5, <1>7 DEF Roomy
<1>12. \A x : x \in M <=> x \in Contents(u)
  BY <1>1, <1>5
<1>13. CloseOk(u, d, M, v)
  BY <1>5, <1>7, <1>8, <1>9, <1>10, <1>11, <1>12 DEF CloseOk, Hole
<1> QED  BY <1>5, <1>6, <1>13 DEF InternOk

\* The next string of the cluster goes where a probe for it will look.
LEMMA CloseKeeps ==
  ASSUME NEW t, NEW c, NEW N, NEW w, TableOk(t), c = Cardinality(Full(t)), CloseOk(t, c, N, w),
         t[w.at] # NoStr,
         NEW u, u = Placed([t EXCEPT ![w.at] = NoStr], t[w.at]),
         NEW v, v = [w EXCEPT !.at = Behind(t, @)]
  PROVE  InternOk(u, c, N, v)
<1> DEFINE i == w.at
           s == t[i]
           e == [t EXCEPT ![i] = NoStr]
<1>1. /\ w = [op |-> "close", at |-> i, old |-> <<>>, string |-> NoStr]
      /\ i \in DOMAIN t /\ Size(t) # 0
      /\ \A j \in Full(t) : AtPlace(t, j) \/ Unbroken(t, i, j)
      /\ \A x : x \in N <=> x \in Contents(t)
      /\ Roomy(Size(t), c)
  BY DEF CloseOk
<1>2. v = [op |-> "close", at |-> Behind(t, i), old |-> <<>>, string |-> NoStr]
  BY <1>1
<1>3. u = Placed(e, s) /\ e = [t EXCEPT ![i] = NoStr] /\ s = t[i] /\ s # NoStr
  OBVIOUS
<1> HIDE DEF i, s, e
<1>4. IsTable(t) /\ Unique(t) /\ Size(t) \in Nat /\ c \in Nat
  BY <1>1 DEF TableOk, IsTable, Roomy
<1>5. i \in Full(t)
  BY <1>1, <1>3 DEF Full
<1>6. /\ s \in Str /\ \A j \in Full(t) : j \in DOMAIN t /\ t[j] \in Str
  BY <1>3, <1>4, <1>5, FullFacts DEF Full
<1>7. Emptied(t, i, e)
  BY <1>3, <1>4, <1>5, EmptiedFacts
<1>8. /\ IsTable(e) /\ Unique(e) /\ DOMAIN e = DOMAIN t /\ Size(e) = Size(t) /\ e[i] = NoStr
      /\ Cardinality(Full(e)) = c - 1
      /\ \A x : x \in Contents(e) <=> x \in Contents(t) /\ x # s
      /\ \A j : j \in Full(e) <=> j \in Full(t) /\ j # i
      /\ \A j \in DOMAIN t : j # i => e[j] = t[j]
      /\ \A h, j \in DOMAIN t : Unbroken(t, h, j) /\ j # i =>
           Unbroken(e, h, j) \/ Unbroken(e, Behind(t, i), j)
  BY <1>3, <1>4, <1>7 DEF Emptied
<1>9. \E j \in DOMAIN e : e[j] = NoStr
  BY <1>1, <1>8
<1>10. Size(e) # 0
  BY <1>1, <1>8
<1>11. PICK p : PlacedAt(e, s, p, u)
  <2>1. \E p : PlacedAt(e, s, p, Placed(e, s))
    BY <1>6, <1>8, <1>9, <1>10, PlacedIs
  <2> QED  BY <2>1, <1>3
<1>12. PlacedIn(e, s, p, u)
  BY <1>6, <1>8, <1>11, PlacedIsIn
<1>13. s \notin Contents(e)
  BY <1>8
<1>14. TableOk(e)
  BY <1>8 DEF TableOk
<1>15. /\ TableOk(u)
       /\ \A j \in Full(u) : j # p => /\ j \in Full(e) /\ u[j] = e[j]
                                      /\ AtPlace(e, j) => AtPlace(u, j)
  <2>1. /\ \A j \in Full(u) : j # p => /\ j \in Full(e) /\ u[j] = e[j]
                                       /\ AtPlace(e, j) => AtPlace(u, j)
        /\ TableOk(e) /\ s \notin Contents(e) => TableOk(u)
    BY <1>12, PlacedKeeps
  <2> QED  BY <2>1, <1>13, <1>14
<1>16. /\ Size(u) = Size(e) /\ DOMAIN u = DOMAIN e /\ AtPlace(u, p)
       /\ Cardinality(Full(u)) = Cardinality(Full(e)) + 1
       /\ \A h, j : Unbroken(e, h, j) => Unbroken(u, h, j)
       /\ \A x : x \in Contents(u) <=> x \in Contents(e) \/ x = s
  BY <1>12 DEF PlacedIn
<1>17. c = Cardinality(Full(u)) /\ Size(u) = Size(t) /\ DOMAIN u = DOMAIN t
  BY <1>4, <1>8, <1>16
<1>18. s \in Contents(t)
  BY <1>3, <1>5 DEF Contents
<1>19. \A x : x \in N <=> x \in Contents(u)
  BY <1>1, <1>8, <1>16, <1>18
<1>20. v.op = "close" /\ v.at = Behind(t, i) /\ v.old = <<>> /\ v.string = NoStr
  BY <1>2
<1>21. v.at \in DOMAIN u
  BY <1>1, <1>4, <1>17, <1>20, WayFacts
<1>22. ASSUME NEW j \in Full(u)
       PROVE  AtPlace(u, j) \/ Unbroken(u, v.at, j)
  <2>1. CASE j = p
    BY <2>1, <1>16
  <2>2. CASE j # p
    <3>1. j \in Full(e) /\ (AtPlace(e, j) => AtPlace(u, j))
      BY <2>2, <1>15
    <3>2. j \in Full(t) /\ j # i /\ j \in DOMAIN t /\ t[j] \in Str
      BY <3>1, <1>6, <1>8
    <3>3. e[j] = t[j]
      BY <3>2, <1>8
    <3>4. Home(t, t[j]) \in DOMAIN t
      BY <3>2, <1>1, <1>4, HomeIn
    <3>5. Unbroken(t, Home(t, t[j]), j) \/ Unbroken(t, i, j)
      BY <3>2, <1>1 DEF AtPlace
    <3>6. Unbroken(e, Home(t, t[j]), j) \/ Unbroken(e, i, j) \/ Unbroken(e, Behind(t, i), j)
      BY <3>2, <3>4, <3>5, <1>1, <1>8
    <3>7. ~Unbroken(e, i, j)
      <4>1. i \in Way(t, i, j)
        BY <3>2, <1>1, <1>4, WayFacts
      <4>2. Way(e, i, j) = Way(t, i, j)
        BY <1>8 DEF Way
      <4> QED  BY <4>1, <4>2, <1>8 DEF Unbroken
    <3>8. Home(e, e[j]) = Home(t, t[j])
      <4>1. Size(e) = Size(t)
        BY <1>8
      <4> QED  BY <4>1, <3>3 DEF Home
    <3>9. AtPlace(e, j) \/ Unbroken(e, v.at, j)
      BY <3>6, <3>7, <3>8, <1>20 DEF AtPlace
    <3> QED  BY <3>1, <3>9, <1>16
  <2> QED  BY <2>1, <2>2
<1>23. CloseOk(u, c, N, v)
  BY <1>1, <1>2, <1>17, <1>19, <1>20, <1>21, <1>22 DEF CloseOk
<1> QED  BY <1>15, <1>17, <1>23 DEF InternOk

\* The hole is closed when the next slot is empty: every string is at its place.
LEMMA CloseEnds ==
  ASSUME NEW t, NEW c, NEW N, NEW w, TableOk(t), c = Cardinality(Full(t)), CloseOk(t, c, N, w),
         t[w.at] = NoStr
  PROVE  /\ \A i \in Full(t) : AtPlace(t, i)
         /\ c \in Nat /\ Size(t) \in Nat
         /\ ~(DesiredCapacity(c) < Size(t) \div 2) => InternOk(t, c, N, Done)
<1>1. /\ w.at \in DOMAIN t /\ Size(t) # 0
      /\ \A i \in Full(t) : AtPlace(t, i) \/ Unbroken(t, w.at, i)
      /\ \A x : x \in N <=> x \in Contents(t)
      /\ Roomy(Size(t), c)
  BY DEF CloseOk
<1>2. IsTable(t) /\ Size(t) \in Nat /\ c \in Nat /\ IsPower(Size(t)) /\ Size(t) >= MinCapacity
  BY <1>1 DEF TableOk, IsTable, Roomy
<1>3. ASSUME NEW i \in Full(t)
      PROVE  AtPlace(t, i)
  <2>1. i \in DOMAIN t
    BY DEF Full
  <2>2. w.at \in Way(t, w.at, i)
    BY <2>1, <1>1, <1>2, WayFacts
  <2>3. ~Unbroken(t, w.at, i)
    BY <2>2 DEF Unbroken
  <2> QED  BY <2>3, <1>1
<1>4. ASSUME ~(DesiredCapacity(c) < Size(t) \div 2)
      PROVE  InternOk(t, c, N, Done)
  <2>1. DesiredCapacity(c) \in Nat
    BY <1>2, DesiredFacts
  <2>2. Size(t) # 1
    BY <1>2, MinFits
  <2>3. PICK h \in Nat : Size(t) = 2 * h
    BY <2>2, <1>2, PowerFacts
  <2>4. Size(t) \div 2 = h
    BY <2>3
  <2>5. Slim(Size(t), c)
    BY <2>1, <2>3, <2>4, <1>4 DEF Slim
  <2>6. IdleOk(t, c, N, Done)
    BY <2>5, <1>1, <1>3 DEF IdleOk
  <2> QED  BY <2>6 DEF InternOk
<1> QED  BY <1>2, <1>3, <1>4

\* The next of the old slots is no longer left.
LEMMA LeftFacts ==
  ASSUME NEW w, NEW v, IsTable(w.old), v.old = w.old, v.string = w.string,
         w.at \in 0 .. Size(w.old)
  PROVE  /\ Left(w) \subseteq Full(w.old) /\ IsFiniteSet(Left(w)) /\ Cardinality(Left(w)) \in Nat
         /\ w.at = Size(w.old) => Left(w) = {}
         /\ v.at = w.at + 1 =>
              /\ w.at \notin Full(w.old) => Left(v) = Left(w)
              /\ w.at \in Full(w.old) =>
                   /\ w.at \in Left(w) /\ \A i : i \in Left(v) <=> i \in Left(w) /\ i # w.at
                   /\ Cardinality(Left(v)) = Cardinality(Left(w)) - 1
<1>1. /\ Full(w.old) \subseteq 0 .. Size(w.old) - 1 /\ IsFiniteSet(Full(w.old))
      /\ Size(w.old) \in Nat
  BY FullFacts DEF IsTable
<1>2. Left(w) \subseteq Full(w.old)
  BY DEF Left
<1>3. IsFiniteSet(Left(w)) /\ Cardinality(Left(w)) \in Nat
  BY <1>1, <1>2, FS_Subset, FS_CardinalityType
<1>4. w.at = Size(w.old) => Left(w) = {}
  BY <1>1 DEF Left
<1>5. ASSUME v.at = w.at + 1
      PROVE  \A i : i \in Left(v) <=> i \in Left(w) /\ i # w.at
  BY <1>1, <1>5 DEF Left
<1>6. w.at \in Full(w.old) => w.at \in Left(w)
  BY <1>1 DEF Left
<1>7. ASSUME v.at = w.at + 1, w.at \notin Full(w.old)
      PROVE  Left(v) = Left(w)
  BY <1>5, <1>7, <1>2
<1>8. ASSUME v.at = w.at + 1, w.at \in Full(w.old)
      PROVE  Cardinality(Left(v)) = Cardinality(Left(w)) - 1
  <2>1. Left(v) = Left(w) \ {w.at}
    BY <1>5, <1>8
  <2> DEFINE L == Left(w)
             a == w.at
  <2>2. IsFiniteSet(L) /\ a \in L
    BY <1>3, <1>6, <1>8
  <2> HIDE DEF L, a
  <2>3. Cardinality(L \ {a}) = Cardinality(L) - 1
    BY <2>2, FS_RemoveElement
  <2> QED  BY <2>1, <2>3 DEF L, a
<1> QED  BY <1>2, <1>3, <1>4, <1>5, <1>6, <1>7, <1>8

\* What InternOk says while a rehash is under way.
LEMMA RehashFacts ==
  ASSUME NEW t, NEW c, NEW N, NEW w, InternOk(t, c, N, w), w.op = "rehash"
  PROVE  /\ TableOk(t) /\ c = Cardinality(Full(t)) /\ RehashOk(t, c, N, w)
         /\ IsTable(t) /\ c \in Nat /\ Size(t) \in Nat
         /\ Due(w) \in Nat
         /\ Due(w) # 0 => \E i \in DOMAIN t : t[i] = NoStr
<1>1. TableOk(t) /\ c = Cardinality(Full(t)) /\ RehashOk(t, c, N, w)
  BY DEF InternOk, IdleOk, CloseOk, Done
<1>2. IsTable(t) /\ Size(t) \in Nat
  BY <1>1 DEF TableOk, IsTable
<1>3. c \in Nat
  BY <1>1, <1>2, FullFacts
<1>4. Due(w) \in Nat
  <2>1. IsTable(w.old) /\ w.at \in 0 .. Size(w.old)
    BY <1>1 DEF RehashOk
  <2>2. Cardinality(Left(w)) \in Nat
    BY <2>1, LeftFacts
  <2> QED  BY <2>2 DEF Due
<1>5. ASSUME Due(w) # 0
      PROVE  \E i \in DOMAIN t : t[i] = NoStr
  <2>1. Size(t) # 0 /\ Roomy(Size(t), c + Due(w))
    BY <1>1 DEF RehashOk
  <2>2. Roomy(Size(t), c)
    BY <2>1, <1>2, <1>3, <1>4 DEF Roomy
  <2> QED  BY <2>1, <2>2, <1>1, <1>2, EmptySlot
<1> QED  BY <1>1, <1>2, <1>3, <1>4, <1>5

\* An old slot that is empty.
LEMMA RehashSkips ==
  ASSUME NEW t, NEW c, NEW N, NEW w, InternOk(t, c, N, w), w.op = "rehash",
         w.at < Size(w.old), w.old[w.at] = NoStr,
         NEW v, v = [w EXCEPT !.at = @ + 1]
  PROVE  InternOk(t, c, N, v)
<1>1. /\ TableOk(t) /\ c = Cardinality(Full(t)) /\ RehashOk(t, c, N, w)
  BY RehashFacts
<1>2. /\ w = [op |-> "rehash", at |-> w.at, old |-> w.old, string |-> w.string]
      /\ IsTable(w.old) /\ Size(w.old) \in Nat /\ w.at \in 0 .. Size(w.old)
  BY <1>1 DEF RehashOk, IsTable
<1>3. v = [op |-> "rehash", at |-> w.at + 1, old |-> w.old, string |-> w.string]
  BY <1>2
<1>4. v.op = "rehash" /\ v.at = w.at + 1 /\ v.old = w.old /\ v.string = w.string
  BY <1>3
<1>5. w.at \notin Full(w.old)
  BY DEF Full
<1>6. Left(v) = Left(w)
  BY <1>2, <1>4, <1>5, LeftFacts
<1>7. Due(v) = Due(w) /\ \A x : Waiting(v, x) <=> Waiting(w, x)
  BY <1>4, <1>6 DEF Due, Waiting
<1>8. v.at \in 0 .. Size(v.old)
  BY <1>2, <1>4
<1>9. RehashOk(t, c, N, v)
  BY <1>1, <1>2, <1>3, <1>4, <1>6, <1>7, <1>8 DEF RehashOk
<1> QED  BY <1>1, <1>9 DEF InternOk

\* The string of an old slot gets its slot in the new table.
LEMMA RehashMoves ==
  ASSUME NEW t, NEW c, NEW N, NEW w, InternOk(t, c, N, w), w.op = "rehash",
         w.at < Size(w.old), w.old[w.at] # NoStr,
         NEW u, u = Placed(t, w.old[w.at]),
         NEW v, v = [w EXCEPT !.at = @ + 1]
  PROVE  InternOk(u, c + 1, N, v)
<1> DEFINE s == w.old[w.at]
<1>1. /\ TableOk(t) /\ c = Cardinality(Full(t)) /\ RehashOk(t, c, N, w)
      /\ IsTable(t) /\ c \in Nat /\ Size(t) \in Nat /\ Due(w) \in Nat
      /\ Due(w) # 0 => \E i \in DOMAIN t : t[i] = NoStr
  BY RehashFacts
<1>2. /\ w = [op |-> "rehash", at |-> w.at, old |-> w.old, string |-> w.string]
      /\ IsTable(w.old) /\ Unique(w.old) /\ Size(w.old) \in Nat /\ w.at \in 0 .. Size(w.old)
      /\ w.string \in Str \cup {NoStr} /\ Size(t) # 0
      /\ \A i \in Full(t) : AtPlace(t, i)
      /\ \A i \in Left(w) : w.old[i] # w.string
      /\ \A x : x \in N <=> x \in Contents(t) \/ Waiting(w, x)
      /\ \A x : x \in Contents(t) => ~Waiting(w, x)
      /\ Roomy(Size(t), c + Due(w)) /\ Slim(Size(t), c + Due(w))
  BY <1>1 DEF RehashOk, IsTable
<1>3. v = [op |-> "rehash", at |-> w.at + 1, old |-> w.old, string |-> w.string]
  BY <1>2
<1>4. v.op = "rehash" /\ v.at = w.at + 1 /\ v.old = w.old /\ v.string = w.string
  BY <1>3
<1>5. w.at \in Full(w.old)
  <2>1. w.at \in DOMAIN w.old
    BY <1>2, FullFacts
  <2> QED  BY <2>1 DEF Full
<1>6. s \in Str /\ s # NoStr
  BY <1>2, <1>5, FullFacts
<1>7. /\ Left(w) \subseteq Full(w.old) /\ w.at \in Left(w)
      /\ \A i : i \in Left(v) <=> i \in Left(w) /\ i # w.at
      /\ Cardinality(Left(v)) = Cardinality(Left(w)) - 1 /\ Cardinality(Left(w)) \in Nat
  BY <1>2, <1>4, <1>5, LeftFacts
<1>8. \A i \in Left(v) : v.old[i] # s /\ v.old[i] # v.string
  BY <1>2, <1>4, <1>5, <1>7 DEF Unique
<1>9. s # w.string
  BY <1>2, <1>7
<1>10. Due(w) = Due(v) + 1 /\ Due(v) \in Nat
  <2>1. Due(v) = Cardinality(Left(w)) - 1 + IF w.string = NoStr THEN 0 ELSE 1
    BY <1>4, <1>7 DEF Due
  <2>2. Cardinality(Left(v)) \in Nat
    <3>1. v.at \in 0 .. Size(v.old) /\ IsTable(v.old)
      BY <1>2, <1>4
    <3> QED  BY <3>1, LeftFacts
  <2>3. Due(v) \in Nat
    BY <2>2 DEF Due
  <2> QED  BY <2>1, <2>3, <1>7 DEF Due
<1>11. Waiting(w, s)
  BY <1>6, <1>7 DEF Waiting
<1>12. \A x : Waiting(w, x) <=> Waiting(v, x) \/ x = s
  <2>1. \A i \in Left(w) : i = w.at \/ i \in Left(v)
    BY <1>7
  <2> QED  BY <2>1, <1>4, <1>6, <1>7 DEF Waiting
<1>13. ~Waiting(v, s)
  BY <1>4, <1>8, <1>9 DEF Waiting
<1> HIDE DEF s
<1>14. u = Placed(t, s)
  BY DEF s
<1>15. \E i \in DOMAIN t : t[i] = NoStr
  BY <1>1, <1>10
<1>16. PICK p : PlacedAt(t, s, p, u)
  <2>1. \E p : PlacedAt(t, s, p, Placed(t, s))
    BY <1>1, <1>2, <1>6, <1>15, PlacedIs
  <2> QED  BY <2>1, <1>14
<1>17. PlacedIn(t, s, p, u)
  BY <1>1, <1>6, <1>16, PlacedIsIn
<1>18. s \notin Contents(t)
  BY <1>2, <1>11
<1>19. TableOk(u) /\ \A i \in Full(u) : AtPlace(u, i)
  <2>1. /\ TableOk(t) /\ s \notin Contents(t) => TableOk(u)
        /\ (\A i \in Full(t) : AtPlace(t, i)) => \A i \in Full(u) : AtPlace(u, i)
    BY <1>17, PlacedKeeps
  <2> QED  BY <2>1, <1>1, <1>2, <1>18
<1>20. /\ Size(u) = Size(t) /\ Cardinality(Full(u)) = c + 1
       /\ \A x : x \in Contents(u) <=> x \in Contents(t) \/ x = s
  BY <1>1, <1>17 DEF PlacedIn
<1>21. (c + 1) + Due(v) = c + Due(w)
  BY <1>1, <1>10
<1>22. Roomy(Size(u), (c + 1) + Due(v)) /\ Slim(Size(u), (c + 1) + Due(v))
  BY <1>2, <1>20, <1>21
<1>23. /\ \A x : x \in N <=> x \in Contents(u) \/ Waiting(v, x)
       /\ \A x : x \in Contents(u) => ~Waiting(v, x)
  BY <1>2, <1>12, <1>13, <1>20
<1>24. v.at \in 0 .. Size(v.old)
  BY <1>2, <1>4
<1>25. RehashOk(u, c + 1, N, v)
  <2>1. v = [op |-> "rehash", at |-> v.at, old |-> v.old, string |-> v.string]
    BY <1>3
  <2>2. Size(u) # 0 /\ IsTable(v.old) /\ Unique(v.old) /\ v.string \in Str \cup {NoStr}
    BY <1>2, <1>4, <1>20
  <2>3. \A i \in Left(v) : v.old[i] # v.string
    BY <1>8
  <2> QED  BY <2>1, <2>2, <2>3, <1>19, <1>22, <1>23, <1>24 DEF RehashOk
<1> QED  BY <1>19, <1>20, <1>25 DEF InternOk

\* The end of a rehash: the string that needed the room, if there is one, gets its slot.
LEMMA RehashEnds ==
  ASSUME NEW t, NEW c, NEW N, NEW w, InternOk(t, c, N, w), w.op = "rehash", w.at = Size(w.old)
  PROVE  /\ w.string = NoStr => InternOk(t, c, N, Done)
         /\ w.string # NoStr => InternOk(Placed(t, w.string), c + 1, N, Done)
<1> DEFINE s == w.string
           u == Placed(t, s)
<1>1. /\ TableOk(t) /\ c = Cardinality(Full(t)) /\ RehashOk(t, c, N, w)
      /\ IsTable(t) /\ c \in Nat /\ Size(t) \in Nat /\ Due(w) \in Nat
      /\ Due(w) # 0 => \E i \in DOMAIN t : t[i] = NoStr
  BY RehashFacts
<1>2. /\ IsTable(w.old) /\ w.at \in 0 .. Size(w.old)
      /\ s \in Str \cup {NoStr} /\ Size(t) # 0
      /\ \A i \in Full(t) : AtPlace(t, i)
      /\ \A x : x \in N <=> x \in Contents(t) \/ Waiting(w, x)
      /\ \A x : x \in Contents(t) => ~Waiting(w, x)
      /\ Roomy(Size(t), c + Due(w)) /\ Slim(Size(t), c + Due(w))
  BY <1>1 DEF RehashOk
<1>3. Left(w) = {}
  BY <1>2, LeftFacts
<1>4. Due(w) = IF s = NoStr THEN 0 ELSE 1
  BY <1>3, FS_EmptySet DEF Due
<1>5. \A x : Waiting(w, x) <=> x # NoStr /\ x = s
  BY <1>3 DEF Waiting
<1> HIDE DEF s
<1>6. ASSUME s = NoStr
      PROVE  InternOk(t, c, N, Done)
  <2>1. c + Due(w) = c
    BY <1>1, <1>4, <1>6
  <2>2. IdleOk(t, c, N, Done)
    BY <2>1, <1>2, <1>5, <1>6 DEF IdleOk
  <2> QED  BY <2>2, <1>1 DEF InternOk
<1>7. ASSUME s # NoStr
      PROVE  InternOk(u, c + 1, N, Done)
  <2>1. s \in Str /\ Due(w) = 1
    BY <1>2, <1>4, <1>7
  <2>2. PICK p : PlacedAt(t, s, p, u)
    BY <2>1, <1>1, <1>2, PlacedIs
  <2> HIDE DEF u
  <2>3. PlacedIn(t, s, p, u)
    BY <2>1, <2>2, <1>1, PlacedIsIn
  <2>4. s \notin Contents(t)
    BY <1>2, <1>5, <1>7
  <2>5. TableOk(u) /\ \A i \in Full(u) : AtPlace(u, i)
    <3>1. /\ TableOk(t) /\ s \notin Contents(t) => TableOk(u)
          /\ (\A i \in Full(t) : AtPlace(t, i)) => \A i \in Full(u) : AtPlace(u, i)
      BY <2>3, PlacedKeeps
    <3> QED  BY <3>1, <2>4, <1>1, <1>2
  <2>6. /\ Size(u) = Size(t) /\ Cardinality(Full(u)) = c + 1
        /\ \A x : x \in Contents(u) <=> x \in Contents(t) \/ x = s
    BY <2>3, <1>1 DEF PlacedIn
  <2>7. Roomy(Size(u), c + 1) /\ Slim(Size(u), c + 1)
    BY <2>1, <2>6, <1>2
  <2>8. \A x : x \in N <=> x \in Contents(u)
    BY <2>6, <1>2, <1>5, <1>7
  <2>9. IdleOk(u, c + 1, N, Done)
    BY <2>5, <2>7, <2>8 DEF IdleOk
  <2> QED  BY <2>5, <2>6, <2>9 DEF InternOk
<1> QED  BY <1>6, <1>7 DEF s, u

-----------------------------------------------------------------------------
(* The interner's steps                                                    *)

Interner == InternOk(slots, internCount, interned, work)

\* In an idle table the probe finds exactly the strings with a node.
LEMMA IdleFinds ==
  ASSUME NEW t, NEW c, NEW N, NEW w, InternOk(t, c, N, w), w.op = "none", NEW s \in Str
  PROVE  /\ TableOk(t) /\ c = Cardinality(Full(t)) /\ IdleOk(t, c, N, w)
         /\ FindInternedString(t, s) = s <=> s \in N
         /\ s \in N => /\ Size(t) # 0
                       /\ Probe(t, Home(t, s), s) \in Full(t)
                       /\ t[Probe(t, Home(t, s), s)] = s
<1>1. TableOk(t) /\ c = Cardinality(Full(t)) /\ IdleOk(t, c, N, w)
  BY DEF InternOk, CloseOk, RehashOk
<1>2. IsTable(t) /\ (\A i \in Full(t) : AtPlace(t, i)) /\ \A x : x \in N <=> x \in Contents(t)
  BY <1>1 DEF TableOk, IdleOk
<1>3. Size(t) # 0 => \E i \in DOMAIN t : t[i] = NoStr
  BY <1>1, <1>2, EmptySlot DEF IdleOk
<1>4. /\ FindInternedString(t, s) = s <=> s \in Contents(t)
      /\ s \in Contents(t) => /\ Size(t) # 0
                              /\ Probe(t, Home(t, s), s) \in Full(t)
                              /\ t[Probe(t, Home(t, s), s)] = s
  BY <1>2, <1>3, ProbeFinds
<1> QED  BY <1>1, <1>2, <1>4

LEMMA InternStart == InternInit => Interner
<1> SUFFICES ASSUME InternInit
             PROVE  Interner
  OBVIOUS
<1>1. slots = FreshSlots(0) /\ internCount = 0 /\ interned = {} /\ work = Done
  BY DEF InternInit
<1>2. /\ IsTable(slots) /\ Unique(slots) /\ Size(slots) = 0 /\ Cardinality(Full(slots)) = 0
      /\ \A i : i \notin Full(slots)
      /\ \A x : x \notin Contents(slots)
  BY <1>1, FreshFacts
<1>3. TableOk(slots)
  BY <1>2 DEF TableOk
<1>4. Roomy(0, 0) /\ Slim(0, 0)
  <2>1. DesiredCapacity(0) \in Nat
    BY DesiredFacts
  <2> QED  BY <2>1 DEF Roomy, Slim
<1>5. IdleOk(slots, internCount, interned, work)
  BY <1>1, <1>2, <1>4 DEF IdleOk
<1> QED  BY <1>1, <1>2, <1>3, <1>5 DEF Interner, InternOk

LEMMA InternStep ==
  ASSUME Interner, NEW s \in Str, StringIntern(s)
  PROVE  Interner'
<1>1. /\ work.op = "none" /\ FindInternedString(slots, s) # s
      /\ interned' = interned \cup {s}
  BY DEF StringIntern
<1>2. /\ TableOk(slots) /\ internCount = Cardinality(Full(slots))
      /\ IdleOk(slots, internCount, interned, work)
      /\ FindInternedString(slots, s) = s <=> s \in interned
  BY <1>1, IdleFinds DEF Interner
<1>3. s \notin interned /\ \A x : x \in interned' <=> x \in interned \/ x = s
  BY <1>1, <1>2
<1>4. /\ \A x : x \in interned <=> x \in Contents(slots)
      /\ Roomy(Size(slots), internCount)
  BY <1>2 DEF IdleOk
<1>5. Size(slots) \in Nat /\ internCount \in Nat
  BY <1>2, <1>4 DEF TableOk, IsTable, Roomy
<1>6. CASE Size(slots) = 0 \/ (internCount + 1) * 4 > Size(slots) * 3
  <2> DEFINE C == PowerOfTwo(Max({2 * Size(slots), MinCapacity}))
  <2>1. /\ slots' = FreshSlots(C) /\ internCount' = 0
        /\ work' = [op |-> "rehash", at |-> 0, old |-> slots, string |-> s]
    BY <1>6 DEF StringIntern, RehashStringIntern
  <2>2. Size(slots) = 0 \/ IsPower(Size(slots))
    BY <1>2 DEF TableOk
  <2>3. Size(slots) # 0 => Size(slots) >= MinCapacity
    BY <1>2 DEF TableOk
  <2>4. ~((internCount + 1) * 4 <= Size(slots) * 3) \/ Size(slots) = 0
    BY <1>5, <1>6
  <2>5. IsPower(C) /\ C >= MinCapacity /\ Roomy(C, internCount + 1) /\ Slim(C, internCount + 1)
    <3> DEFINE z == Size(slots)
    <3>1. /\ z \in Nat /\ (z = 0 \/ IsPower(z)) /\ (z # 0 => z >= MinCapacity)
          /\ Roomy(z, internCount) /\ (~((internCount + 1) * 4 <= z * 3) \/ z = 0)
          /\ C = PowerOfTwo(Max({2 * z, MinCapacity}))
      BY <1>4, <1>5, <2>2, <2>3, <2>4
    <3> HIDE DEF C, z
    <3> QED  BY <3>1, LargerFits
  <2>6. s \in Str \cup {NoStr} /\ s \notin Contents(slots) /\ s # NoStr
    BY <1>3, <1>4, InternerAssumption
  <2>7. internCount + 1 = Cardinality(Full(slots)) + IF s = NoStr THEN 0 ELSE 1
    BY <1>2, <2>6
  <2>8. \A y : y \in interned' <=> y \in Contents(slots) \/ (y # NoStr /\ y = s)
    BY <1>3, <1>4, <2>6
  <2> HIDE DEF C
  <2>9. InternOk(slots', 0, interned', work')
    <3> DEFINE n == internCount + 1
    <3>1. /\ n = Cardinality(Full(slots)) + IF s = NoStr THEN 0 ELSE 1
          /\ Roomy(C, n) /\ Slim(C, n)
      BY <2>5, <2>7
    <3> HIDE DEF n
    <3> QED  BY <3>1, <1>2, <2>1, <2>5, <2>6, <2>8, RehashStarts
  <2> QED  BY <2>1, <2>9 DEF Interner
<1>7. CASE ~(Size(slots) = 0 \/ (internCount + 1) * 4 > Size(slots) * 3)
  <2>1. slots' = Placed(slots, s) /\ internCount' = internCount + 1 /\ work' = work
    BY <1>7 DEF StringIntern
  <2>2. Size(slots) # 0 /\ (internCount + 1) * 4 <= Size(slots) * 3
    BY <1>5, <1>7
  <2>3. InternOk(slots', internCount + 1, interned', work)
    BY <2>1, <2>2, <1>2, <1>3, InternKeeps
  <2> QED  BY <2>1, <2>3 DEF Interner
<1> QED  BY <1>6, <1>7

LEMMA FreeStep ==
  ASSUME Interner, NEW s \in Str, FreeString(s)
  PROVE  Interner'
<1>1. work.op = "none" /\ s \in interned /\ interned' = interned \ {s}
  BY DEF FreeString
<1> DEFINE i == Probe(slots, Home(slots, s), s)
<1>2. /\ TableOk(slots) /\ internCount = Cardinality(Full(slots))
      /\ IdleOk(slots, internCount, interned, work)
      /\ FindInternedString(slots, s) = s /\ i \in Full(slots) /\ slots[i] = s
  <2>1. InternOk(slots, internCount, interned, work)
    BY DEF Interner
  <2> QED  BY <2>1, <1>1, IdleFinds
<1>3. /\ slots' = [slots EXCEPT ![i] = NoStr]
      /\ internCount' = internCount - 1
      /\ work' = [op |-> "close", at |-> Behind(slots, i), old |-> <<>>, string |-> NoStr]
  BY <1>2 DEF FreeString
<1>4. \A x : x \in interned' <=> x \in interned /\ x # s
  BY <1>1
<1> HIDE DEF i
<1>5. InternOk(slots', internCount', interned', work')
  <2>1. TableOk(slots) /\ internCount = Cardinality(Full(slots))
    BY <1>2
  <2>2. IdleOk(slots, internCount, interned, work)
    BY <1>2
  <2>3. i \in Full(slots) /\ slots[i] = s
    BY <1>2
  <2>4. Hole(slots, i, slots', work')
    BY <1>3 DEF Hole
  <2> QED  BY <2>1, <2>2, <2>3, <2>4, <1>3, <1>4, FreeKeeps
<1> QED  BY <1>5 DEF Interner

LEMMA CloseHoleStep ==
  ASSUME Interner, CloseHole
  PROVE  Interner'
<1>1. /\ work.op = "close" /\ slots[work.at] # NoStr
      /\ slots' = Placed([slots EXCEPT ![work.at] = NoStr], slots[work.at])
      /\ work' = [work EXCEPT !.at = Behind(slots, @)]
      /\ internCount' = internCount /\ interned' = interned
  BY DEF CloseHole
<1>2. /\ TableOk(slots) /\ internCount = Cardinality(Full(slots))
      /\ CloseOk(slots, internCount, interned, work)
  BY <1>1 DEF Interner, InternOk, IdleOk, RehashOk, Done
<1>3. InternOk(slots', internCount, interned, work')
  BY <1>1, <1>2, CloseKeeps
<1> QED  BY <1>1, <1>3 DEF Interner

LEMMA HoleClosedStep ==
  ASSUME Interner, HoleClosed
  PROVE  Interner'
<1>1. work.op = "close" /\ slots[work.at] = NoStr /\ Shrink /\ interned' = interned
  BY DEF HoleClosed
<1>2. /\ TableOk(slots) /\ internCount = Cardinality(Full(slots))
      /\ CloseOk(slots, internCount, interned, work)
  BY <1>1 DEF Interner, InternOk, IdleOk, RehashOk, Done
<1>3. /\ internCount \in Nat
      /\ ~(DesiredCapacity(internCount) < Size(slots) \div 2) =>
           InternOk(slots, internCount, interned, Done)
  BY <1>1, <1>2, CloseEnds
<1>4. CASE DesiredCapacity(internCount) < Size(slots) \div 2
  <2> DEFINE C == PowerOfTwo(Max({DesiredCapacity(internCount), MinCapacity}))
             n == internCount
  <2>1. /\ slots' = FreshSlots(C) /\ internCount' = 0
        /\ work' = [op |-> "rehash", at |-> 0, old |-> slots, string |-> NoStr]
    BY <1>1, <1>4 DEF Shrink, RehashStringIntern
  <2>2. IsPower(C) /\ C >= MinCapacity /\ Roomy(C, n) /\ Slim(C, n)
    <3>1. C = PowerOfTwo(Max({DesiredCapacity(n), MinCapacity})) /\ n \in Nat
      BY <1>3
    <3> HIDE DEF C, n
    <3> QED  BY <3>1, SmallerFits
  <2>3. NoStr \in Str \cup {NoStr} /\ NoStr \notin Contents(slots)
    BY DEF Contents, Full
  <2>4. n = Cardinality(Full(slots)) + IF NoStr = NoStr THEN 0 ELSE 1
    BY <1>2, <1>3
  <2>5. \A y : y \in interned' <=> y \in Contents(slots) \/ (y # NoStr /\ y = NoStr)
    BY <1>1, <1>2 DEF CloseOk
  <2> HIDE DEF C, n
  <2>6. InternOk(slots', 0, interned', work')
    BY <1>2, <2>1, <2>2, <2>3, <2>4, <2>5, RehashStarts
  <2> QED  BY <2>1, <2>6 DEF Interner
<1>5. CASE ~(DesiredCapacity(internCount) < Size(slots) \div 2)
  <2>1. work' = Done /\ slots' = slots /\ internCount' = internCount
    BY <1>1, <1>5 DEF Shrink
  <2> QED  BY <2>1, <1>1, <1>3, <1>5 DEF Interner
<1> QED  BY <1>4, <1>5

LEMMA RehashStep ==
  ASSUME Interner, Rehash
  PROVE  Interner'
<1>1. /\ work.op = "rehash" /\ work.at < Size(work.old)
      /\ work' = [work EXCEPT !.at = @ + 1] /\ interned' = interned
  BY DEF Rehash
<1>2. InternOk(slots, internCount, interned, work)
  BY DEF Interner
<1>3. CASE work.old[work.at] = NoStr
  <2>1. slots' = slots /\ internCount' = internCount
    BY <1>3 DEF Rehash
  <2>2. InternOk(slots, internCount, interned, work')
    BY <1>1, <1>2, <1>3, RehashSkips
  <2> QED  BY <2>1, <2>2, <1>1 DEF Interner
<1>4. CASE work.old[work.at] # NoStr
  <2>1. slots' = Placed(slots, work.old[work.at]) /\ internCount' = internCount + 1
    BY <1>4 DEF Rehash
  <2>2. InternOk(slots', internCount + 1, interned, work')
    BY <2>1, <1>1, <1>2, <1>4, RehashMoves
  <2> QED  BY <2>1, <2>2, <1>1 DEF Interner
<1> QED  BY <1>3, <1>4

LEMMA EndRehashStep ==
  ASSUME Interner, EndRehash
  PROVE  Interner'
<1>1. work.op = "rehash" /\ work.at = Size(work.old) /\ work' = Done /\ interned' = interned
  BY DEF EndRehash
<1>2. /\ work.string = NoStr => InternOk(slots, internCount, interned, Done)
      /\ work.string # NoStr =>
           InternOk(Placed(slots, work.string), internCount + 1, interned, Done)
  BY <1>1, RehashEnds DEF Interner
<1>3. CASE work.string = NoStr
  <2>1. slots' = slots /\ internCount' = internCount
    BY <1>3 DEF EndRehash
  <2> QED  BY <2>1, <1>1, <1>2, <1>3 DEF Interner
<1>4. CASE work.string # NoStr
  <2>1. slots' = Placed(slots, work.string) /\ internCount' = internCount + 1
    BY <1>4 DEF EndRehash
  <2> QED  BY <2>1, <1>1, <1>2, <1>4 DEF Interner
<1> QED  BY <1>3, <1>4

LEMMA InternerStep == Interner /\ [Next]_vars => Interner'
<1> SUFFICES ASSUME Interner, [Next]_vars
             PROVE  Interner'
  OBVIOUS
<1>1. CASE Strings
  <2>1. InternNext
    BY <1>1 DEF Strings
  <2> QED  BY <2>1, InternStep, FreeStep, CloseHoleStep, HoleClosedStep, RehashStep,
              EndRehashStep DEF InternNext
<1>2. CASE UNCHANGED internVars
  <2>1. slots' = slots /\ internCount' = internCount /\ interned' = interned /\ work' = work
    BY <1>2 DEF internVars
  <2> QED  BY Zenon, <2>1 DEF Interner
<1>3. Strings \/ UNCHANGED internVars
  BY Zenon DEF Next, vars, Collections, Pools
<1> QED  BY <1>1, <1>2, <1>3

\* The invariant says what the property does.
LEMMA InternerSound == Interner => OneNodePerString
<1> SUFFICES ASSUME Interner
             PROVE  OneNodePerString
  OBVIOUS
<1>1. /\ TableOk(slots) /\ internCount = Cardinality(Full(slots))
      /\ \/ IdleOk(slots, internCount, interned, work)
         \/ CloseOk(slots, internCount, interned, work)
         \/ RehashOk(slots, internCount, interned, work)
  BY DEF Interner, InternOk
<1>2. /\ IsTable(slots) /\ Unique(slots) /\ Size(slots) \in Nat
      /\ Size(slots) # 0 => Size(slots) = PowerOfTwo(Size(slots)) /\ Size(slots) >= MinCapacity
  <2>1. /\ IsTable(slots) /\ Unique(slots)
        /\ Size(slots) # 0 => IsPower(Size(slots)) /\ Size(slots) >= MinCapacity
    BY <1>1 DEF TableOk
  <2>2. Size(slots) # 0 => PowerOfTwo(Size(slots)) = Size(slots)
    BY <2>1, PowerFacts
  <2> QED  BY <2>1, <2>2 DEF IsTable
<1>3. internCount \in Nat
  BY <1>1, <1>2, FullFacts
<1>4. Unmoved = Left(work)
  BY Zenon DEF Unmoved, Left
<1>5. CASE IdleOk(slots, internCount, interned, work)
  <2>1. /\ work = Done /\ \A i \in Full(slots) : AtPlace(slots, i)
        /\ \A x : x \in interned <=> x \in Contents(slots)
        /\ Roomy(Size(slots), internCount) /\ Slim(Size(slots), internCount)
    BY <1>5 DEF IdleOk
  <2>2. work.op = "none" /\ work.string = NoStr
    BY <2>1 DEF Done
  <2>3. InternTyped
    BY <1>2, <2>2 DEF InternTyped, IsTable
  <2>4. PlacesSound
    BY <1>2, <2>1 DEF PlacesSound, AtPlace, Unbroken, Unique
  <2>5. NoneLost
    <3>1. interned = Contents(slots)
      BY <2>1
    <3> QED  BY <3>1, <2>2 DEF NoneLost
  <2>6. RoomSound
    BY <1>1, <1>2, <2>1, <2>2 DEF RoomSound, Roomy, Slim
  <2>7. AllFound
    <3>1. InternOk(slots, internCount, interned, work)
      BY DEF Interner
    <3>2. \A s \in Str : FindInternedString(slots, s) = s <=> s \in interned
      BY <3>1, <2>2, IdleFinds
    <3> QED  BY <3>2 DEF AllFound
  <2> QED  BY <2>3, <2>4, <2>5, <2>6, <2>7 DEF OneNodePerString
<1>6. CASE CloseOk(slots, internCount, interned, work)
  <2>1. /\ work = [op |-> "close", at |-> work.at, old |-> <<>>, string |-> NoStr]
        /\ work.at \in DOMAIN slots /\ Size(slots) # 0
        /\ \A i \in Full(slots) : AtPlace(slots, i) \/ Unbroken(slots, work.at, i)
        /\ \A x : x \in interned <=> x \in Contents(slots)
        /\ Roomy(Size(slots), internCount)
    BY <1>6 DEF CloseOk
  <2>2. work.op = "close" /\ work.string = NoStr
    BY <2>1
  <2>3. InternTyped
    BY <1>2, <2>1, <2>2 DEF InternTyped, IsTable
  <2>4. PlacesSound
    <3>1. ASSUME NEW i \in Full(slots)
          PROVE  \/ \A k \in Way(slots, Home(slots, slots[i]), i) : slots[k] # NoStr
                 \/ work.op = "close" /\ i \in Cluster(slots, work.at)
      <4>1. i \in DOMAIN slots
        BY DEF Full
      <4>2. CASE AtPlace(slots, i)
        BY <4>2 DEF AtPlace, Unbroken
      <4>3. CASE Unbroken(slots, work.at, i)
        BY <4>1, <4>3, <2>2 DEF Cluster, Unbroken
      <4> QED  BY <4>2, <4>3, <2>1
    <3> QED  BY <3>1, <1>2 DEF PlacesSound, Unique
  <2>5. NoneLost
    <3>1. interned = Contents(slots)
      BY <2>1
    <3> QED  BY <3>1, <2>2 DEF NoneLost
  <2>6. RoomSound
    BY <1>1, <1>2, <2>1, <2>2 DEF RoomSound, Roomy
  <2>7. AllFound
    BY <2>2 DEF AllFound
  <2> QED  BY <2>3, <2>4, <2>5, <2>6, <2>7 DEF OneNodePerString
<1>7. CASE RehashOk(slots, internCount, interned, work)
  <2>1. /\ work = [op |-> "rehash", at |-> work.at, old |-> work.old, string |-> work.string]
        /\ IsTable(work.old) /\ Unique(work.old) /\ work.at \in 0 .. Size(work.old)
        /\ work.string \in Str \cup {NoStr} /\ Size(slots) # 0
        /\ \A i \in Full(slots) : AtPlace(slots, i)
        /\ \A i \in Left(work) : work.old[i] # work.string
        /\ \A x : x \in interned <=> x \in Contents(slots) \/ Waiting(work, x)
        /\ \A x : x \in Contents(slots) => ~Waiting(work, x)
        /\ Roomy(Size(slots), internCount + Due(work))
        /\ Slim(Size(slots), internCount + Due(work))
    BY <1>7 DEF RehashOk
  <2>2. work.op = "rehash"
    BY <2>1
  <2>3. InternTyped
    BY <1>2, <2>1, <2>2 DEF InternTyped, IsTable
  <2>4. PlacesSound
    BY <1>2, <2>1 DEF PlacesSound, AtPlace, Unbroken, Unique
  <2>5. Left(work) \subseteq Full(work.old) /\ Cardinality(Left(work)) \in Nat
    BY <2>1, LeftFacts
  <2>6. NoneLost
    <3> DEFINE pending == {work.old[i] : i \in Unmoved} \cup ({work.string} \ {NoStr})
    <3>1. \A x : x \in pending <=> Waiting(work, x)
      <4>1. \A i \in Unmoved : work.old[i] # NoStr
        BY <1>4, <2>5 DEF Full
      <4> QED  BY <1>4, <4>1 DEF Waiting
    <3> HIDE DEF pending
    <3>2. interned = Contents(slots) \cup pending
      BY <2>1, <3>1
    <3>3. Contents(slots) \cap pending = {}
      BY <2>1, <3>1
    <3>4. /\ \A i \in Unmoved : work.old[i] # work.string
          /\ \A i, j \in Unmoved : work.old[i] = work.old[j] => i = j
      BY <1>4, <2>1, <2>5 DEF Unique
    <3> QED  BY <3>2, <3>3, <3>4, <2>2 DEF NoneLost, pending
  <2>7. RoomSound
    <3> DEFINE n == internCount + Cardinality(Unmoved) + IF work.string = NoStr THEN 0 ELSE 1
    <3>1. n = internCount + Due(work)
      BY <1>3, <1>4, <2>5 DEF Due
    <3>2. n * 4 <= Size(slots) * 3 /\ Size(slots) <= 2 * DesiredCapacity(n)
      <4> HIDE DEF n
      <4> QED  BY <2>1, <3>1 DEF Roomy, Slim
    <3> HIDE DEF n
    <3>3. /\ internCount = Cardinality(Full(slots))
          /\ n * 4 <= Size(slots) * 3
          /\ Size(slots) # 0 => Size(slots) = PowerOfTwo(Size(slots)) /\ Size(slots) >= MinCapacity
          /\ work.op # "none" => Size(slots) # 0
          /\ work.op # "close" => Size(slots) <= 2 * DesiredCapacity(n)
      BY <1>1, <1>2, <2>1, <3>2
    <3> QED  BY <3>3, <2>2 DEF RoomSound, n
  <2>8. AllFound
    BY <2>2 DEF AllFound
  <2> QED  BY <2>3, <2>4, <2>6, <2>7, <2>8 DEF OneNodePerString
<1> QED  BY <1>1, <1>5, <1>6, <1>7

\* There is one node for each interned content, in the table once and where a
\* probe finds it: the table is right at every step of the loops that move its
\* strings, when a hole is closed and when it grows or shrinks.
THEOREM OneNodeEach == Spec => []OneNodePerString
<1>1. Init => Interner
  BY InternStart DEF Init
<1> QED  BY <1>1, InternerStep, InternerSound, PTL DEF Spec

=============================================================================
