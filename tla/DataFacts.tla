----------------------------- MODULE DataFacts -----------------------------
(***************************************************************************)
(* Facts about sequences and counts the proofs of this project share.      *)
(***************************************************************************)
EXTENDS Integers, Sequences, FiniteSets, SequencesExt, TLAPS, FiniteSetTheorems, SequenceTheorems,
        WellFoundedInduction

\* No element occurs twice.
Distinct(s) == \A i, j \in DOMAIN s : s[i] = s[j] => i = j

\* Append adds one element at the end.
LEMMA AppendFacts ==
  ASSUME NEW S, NEW s \in Seq(S), NEW e \in S
  PROVE  /\ Append(s, e) \in Seq(S)
         /\ ToSet(Append(s, e)) = ToSet(s) \cup {e}
         /\ Distinct(s) /\ e \notin ToSet(s) => Distinct(Append(s, e))
<1> DEFINE t == Append(s, e)
<1>1. /\ t \in Seq(S) /\ Len(t) = Len(s) + 1
      /\ \A i \in 1 .. Len(s) : t[i] = s[i]
      /\ t[Len(s) + 1] = e
      /\ Len(s) \in Nat /\ DOMAIN s = 1 .. Len(s) /\ DOMAIN t = 1 .. Len(t)
  OBVIOUS
<1> HIDE DEF t
<1>2. ToSet(t) = ToSet(s) \cup {e}
  BY <1>1 DEF ToSet
<1>3. Distinct(s) /\ e \notin ToSet(s) => Distinct(t)
  BY <1>1 DEF ToSet, Distinct
<1> QED  BY <1>1, <1>2, <1>3 DEF t

\* Front drops the last element.
LEMMA FrontFacts ==
  ASSUME NEW S, NEW s \in Seq(S), s # <<>>
  PROVE  /\ Front(s) \in Seq(S)
         /\ Last(s) \in S
         /\ Last(s) \in ToSet(s)
         /\ Len(s) \in DOMAIN s /\ Last(s) = s[Len(s)]
         /\ DOMAIN Front(s) = 1 .. Len(s) - 1
         /\ \A i \in DOMAIN Front(s) : i \in DOMAIN s /\ Front(s)[i] = s[i] /\ i < Len(s)
         /\ ToSet(Front(s)) \subseteq ToSet(s)
         /\ ToSet(s) \subseteq ToSet(Front(s)) \cup {Last(s)}
         /\ Distinct(s) => Distinct(Front(s)) /\ Last(s) \notin ToSet(Front(s))
<1> DEFINE t == Front(s)
<1>1. /\ t \in Seq(S) /\ Len(t) = Len(s) - 1
      /\ \A i \in 1 .. Len(t) : t[i] = s[i]
      /\ Len(s) \in Nat /\ Len(s) > 0
      /\ DOMAIN s = 1 .. Len(s) /\ DOMAIN t = 1 .. Len(t)
  <2>1. /\ Len(s) \in Nat /\ Len(s) > 0 /\ DOMAIN s = 1 .. Len(s)
        /\ \A i \in 1 .. Len(s) : s[i] \in S
    BY EmptySeq, LenProperties
  <2>2. /\ t \in Seq(S) /\ Len(t) = Len(s) - 1
        /\ \A i \in 1 .. Len(s) - 1 : t[i] = s[i]
    BY <2>1, SubSeqProperties DEF Front
  <2> HIDE DEF t
  <2> QED  BY <2>1, <2>2
<1> HIDE DEF t
<1>2. Last(s) = s[Len(s)] /\ Len(s) \in DOMAIN s /\ Last(s) \in S
  BY <1>1 DEF Last
<1>3. ToSet(t) \subseteq ToSet(s) /\ Last(s) \in ToSet(s)
  BY <1>1, <1>2 DEF ToSet
<1>4. ToSet(s) \subseteq ToSet(t) \cup {Last(s)}
  BY <1>1, <1>2 DEF ToSet
<1>5. Distinct(s) => Distinct(t) /\ Last(s) \notin ToSet(t)
  BY <1>1, <1>2 DEF ToSet, Distinct
<1> QED  BY <1>1, <1>2, <1>3, <1>4, <1>5 DEF t

\* Tail drops the first element.
LEMMA TailFacts ==
  ASSUME NEW S, NEW s \in Seq(S), s # <<>>
  PROVE  /\ Tail(s) \in Seq(S)
         /\ Head(s) \in S
         /\ Head(s) \in ToSet(s)
         /\ ToSet(Tail(s)) \subseteq ToSet(s)
         /\ ToSet(s) \subseteq ToSet(Tail(s)) \cup {Head(s)}
         /\ Distinct(s) => Distinct(Tail(s)) /\ Head(s) \notin ToSet(Tail(s))
<1> DEFINE t == Tail(s)
<1>1. /\ t \in Seq(S) /\ Len(t) = Len(s) - 1
      /\ \A i \in 1 .. Len(t) : t[i] = s[i + 1]
      /\ Head(s) = s[1]
      /\ Len(s) \in Nat /\ Len(s) > 0
      /\ DOMAIN s = 1 .. Len(s) /\ DOMAIN t = 1 .. Len(t)
  OBVIOUS
<1> HIDE DEF t
<1>2. Head(s) \in S /\ 1 \in DOMAIN s
  BY <1>1
<1>3. ToSet(t) \subseteq ToSet(s) /\ Head(s) \in ToSet(s)
  BY <1>1, <1>2 DEF ToSet
<1>4. ASSUME NEW i \in DOMAIN s
      PROVE  s[i] \in ToSet(t) \cup {Head(s)}
  <2>1. CASE i = 1
    BY <2>1, <1>1
  <2>2. CASE i # 1
    <3>1. i - 1 \in DOMAIN t /\ t[i - 1] = s[i]
      BY <2>2, <1>1
    <3> QED  BY <3>1 DEF ToSet
  <2> QED  BY <2>1, <2>2
<1>5. Distinct(s) => Distinct(t) /\ Head(s) \notin ToSet(t)
  <2>1. \A i \in DOMAIN t : i + 1 \in DOMAIN s /\ t[i] = s[i + 1] /\ i + 1 # 1
    BY <1>1
  <2>2. Distinct(s) => Distinct(t)
    BY <2>1, <1>1 DEF Distinct
  <2>3. Distinct(s) => \A i \in DOMAIN t : t[i] # Head(s)
    BY <2>1, <1>1, <1>2 DEF Distinct
  <2> QED  BY <2>2, <2>3 DEF ToSet
<1> QED  BY <1>1, <1>2, <1>3, <1>4, <1>5 DEF t, ToSet

\* RemoveAt drops the element at one index.
LEMMA RemoveAtFacts ==
  ASSUME NEW S, NEW s \in Seq(S), NEW n \in DOMAIN s
  PROVE  /\ RemoveAt(s, n) \in Seq(S)
         /\ ToSet(RemoveAt(s, n)) \subseteq ToSet(s)
         /\ ToSet(s) \subseteq ToSet(RemoveAt(s, n)) \cup {s[n]}
         /\ Distinct(s) => Distinct(RemoveAt(s, n)) /\ s[n] \notin ToSet(RemoveAt(s, n))
<1> DEFINE t == RemoveAt(s, n)
           a == SubSeq(s, 1, n - 1)
           b == SubSeq(s, n + 1, Len(s))
<1>1. Len(s) \in Nat /\ DOMAIN s = 1 .. Len(s) /\ \A i \in 1 .. Len(s) : s[i] \in S
  OBVIOUS
<1>2. a \in Seq(S) /\ Len(a) = n - 1 /\ \A i \in 1 .. n - 1 : a[i] = s[i]
  BY <1>1, SubSeqProperties
<1>3. b \in Seq(S) /\ Len(b) = Len(s) - n /\ \A i \in 1 .. Len(s) - n : b[i] = s[n + i]
  BY <1>1, SubSeqProperties
<1>4. t = a \o b
  BY DEF RemoveAt
<1> HIDE DEF a, b, t
<1>5. /\ t \in Seq(S) /\ Len(t) = Len(s) - 1
      /\ \A i \in 1 .. Len(s) - 1 : t[i] = IF i <= n - 1 THEN a[i] ELSE b[i - (n - 1)]
  <2>1. /\ t \in Seq(S) /\ Len(t) = Len(a) + Len(b)
        /\ \A i \in 1 .. Len(a) + Len(b) : t[i] = IF i <= Len(a) THEN a[i] ELSE b[i - Len(a)]
    BY <1>2, <1>3, <1>4, ConcatProperties
  <2>2. Len(a) = n - 1 /\ Len(a) + Len(b) = Len(s) - 1
    BY <1>1, <1>2, <1>3
  <2> QED  BY <2>1, <2>2
<1>6. ASSUME NEW i \in 1 .. Len(s) - 1
      PROVE  t[i] = IF i < n THEN s[i] ELSE s[i + 1]
  <2>1. CASE i < n
    <3>1. i \in 1 .. n - 1 /\ i <= n - 1
      BY <2>1, <1>1
    <3> QED  BY <3>1, <2>1, <1>2, <1>5
  <2>2. CASE ~(i < n)
    <3>1. ~(i <= n - 1) /\ i - (n - 1) \in 1 .. Len(s) - n /\ n + (i - (n - 1)) = i + 1
      BY <2>2, <1>1
    <3> QED  BY <3>1, <2>2, <1>3, <1>5
  <2> QED  BY <2>1, <2>2
<1>7. DOMAIN t = 1 .. Len(s) - 1
  BY <1>5
<1>8. ToSet(t) \subseteq ToSet(s)
  BY <1>1, <1>6, <1>7 DEF ToSet
<1>9. ASSUME NEW i \in DOMAIN s, i # n
      PROVE  s[i] \in ToSet(t)
  <2>1. CASE i < n
    BY <2>1, <1>1, <1>6, <1>7 DEF ToSet
  <2>2. CASE i > n
    <3>1. i - 1 \in DOMAIN t /\ t[i - 1] = s[i]
      BY <2>2, <1>1, <1>6, <1>7
    <3> QED  BY <3>1 DEF ToSet
  <2> QED  BY <2>1, <2>2, <1>1, <1>9
<1>10. Distinct(s) => Distinct(t) /\ s[n] \notin ToSet(t)
  <2> DEFINE at(i) == IF i < n THEN i ELSE i + 1
  <2>1. \A i \in DOMAIN t : at(i) \in DOMAIN s /\ at(i) # n /\ t[i] = s[at(i)]
    BY <1>1, <1>6, <1>7
  <2>2. \A i, j \in DOMAIN t : at(i) = at(j) => i = j
    BY <1>1, <1>7
  <2> HIDE DEF at
  <2>3. Distinct(s) => Distinct(t)
    BY <2>1, <2>2 DEF Distinct
  <2>4. Distinct(s) => \A i \in DOMAIN t : t[i] # s[n]
    BY <2>1 DEF Distinct
  <2> QED  BY <2>3, <2>4 DEF ToSet
<1> QED  BY <1>5, <1>8, <1>9, <1>10 DEF t, ToSet

\* A set of natural numbers has a least element.
LEMMA MinFacts ==
  ASSUME NEW S, S \subseteq Nat, S # {}
  PROVE  Min(S) \in S /\ \A n \in S : Min(S) <= n
<1> DEFINE R == {p \in Nat \X Nat : p[1] < p[2]}
<1>1. IsWellFoundedOn(R, Nat)
  BY NatLessThanWellFounded DEF OpToRel
<1>2. \A m, n \in Nat : n < m => <<n, m>> \in R
  OBVIOUS
<1> HIDE DEF R
<1>3. \E m \in S : \A n \in S : ~(<<n, m>> \in R)
  BY <1>1, WFMin
<1>4. \E m \in S : \A n \in S : m <= n
  <2> PICK m \in S : \A n \in S : ~(<<n, m>> \in R)
    BY <1>3
  <2>1. \A n \in S : ~(n < m)
    BY <1>2
  <2>2. \A n \in S : n \in Int /\ m \in Int
    OBVIOUS
  <2> QED  BY <2>1, <2>2
<1> QED  BY <1>4 DEF Min

\* How often the values of a function are v.
Count(f, S, v) == Cardinality({s \in S : f[s] = v})

\* Storing a value moves one unit from the old value's count to the new one's.
LEMMA CountStore ==
  ASSUME NEW S, IsFiniteSet(S), NEW f, NEW g, NEW v,
         NEW s \in S, \A t \in S : t # s => g[t] = f[t]
  PROVE  Count(g, S, v) =
           Count(f, S, v) + (IF g[s] = v THEN 1 ELSE 0) - (IF f[s] = v THEN 1 ELSE 0)
<1> DEFINE A == {t \in S : f[t] = v}
           B == {t \in S : g[t] = v}
<1>1. IsFiniteSet(A) /\ Cardinality(A) \in Nat
  BY FS_Subset, FS_CardinalityType
<1>3. B = IF g[s] = v THEN (A \ {s}) \cup {s} ELSE A \ {s}
  OBVIOUS
<1>4. /\ IsFiniteSet(A \ {s})
      /\ Cardinality(A \ {s}) = IF f[s] = v THEN Cardinality(A) - 1 ELSE Cardinality(A)
  BY <1>1, FS_RemoveElement
<1>5. Cardinality((A \ {s}) \cup {s}) = Cardinality(A \ {s}) + 1
  BY <1>4, FS_AddElement
<1> HIDE DEF A, B
<1>6. Cardinality(B) = Cardinality(A) + (IF g[s] = v THEN 1 ELSE 0) - (IF f[s] = v THEN 1 ELSE 0)
  BY <1>1, <1>3, <1>4, <1>5
<1> QED  BY <1>6 DEF A, B, Count

\* A value that is not taken has the count zero.
LEMMA CountZero ==
  ASSUME NEW S, IsFiniteSet(S), NEW f, NEW v
  PROVE  /\ Count(f, S, v) \in Nat
         /\ Count(f, S, v) = 0 <=> \A s \in S : f[s] # v
<1> DEFINE A == {s \in S : f[s] = v}
<1>1. IsFiniteSet(A) /\ Cardinality(A) \in Nat
  BY FS_Subset, FS_CardinalityType
<1>2. Cardinality(A) = 0 <=> A = {}
  BY <1>1, FS_EmptySet
<1> QED  BY <1>1, <1>2 DEF Count

\* A set of natural numbers up to n has a greatest element.
LEMMA MaxFacts ==
  ASSUME NEW n \in Nat, NEW S, S \subseteq 1 .. n, S # {}
  PROVE  Max(S) \in S /\ \A m \in S : Max(S) >= m
<1> DEFINE T == {n - m : m \in S}
<1>1. T \subseteq Nat /\ T # {}
  <2>1. \A m \in S : n - m \in Nat
    OBVIOUS
  <2> QED  BY <2>1
<1>2. Min(T) \in T /\ \A k \in T : Min(T) <= k
  BY <1>1, MinFacts
<1>3. PICK m \in S : Min(T) = n - m
  BY <1>2
<1>4. \A k \in S : m >= k
  <2> SUFFICES ASSUME NEW k \in S
               PROVE  m >= k
    OBVIOUS
  <2>1. n - m <= n - k
    BY <1>2, <1>3
  <2> QED  BY <2>1
<1> QED  BY <1>4 DEF Max

\* RemoveFirst drops an element that occurs once, and keeps the last one.
LEMMA RemoveFirstFacts ==
  ASSUME NEW S, NEW s \in Seq(S), Distinct(s), NEW e
  PROVE  /\ RemoveFirst(s, e) \in Seq(S)
         /\ Distinct(RemoveFirst(s, e))
         /\ \A x : x \in ToSet(RemoveFirst(s, e)) <=> x \in ToSet(s) /\ x # e
         /\ s # <<>> /\ Last(s) # e => RemoveFirst(s, e) # <<>> /\ Last(RemoveFirst(s, e)) = Last(s)
<1> DEFINE I == {i \in 1 .. Len(s) : s[i] = e}
           t == RemoveFirst(s, e)
<1>1. Len(s) \in Nat /\ DOMAIN s = 1 .. Len(s)
  BY LenProperties
<1>2. CASE I = {}
  <2>1. t = s
    BY <1>2 DEF RemoveFirst
  <2>2. e \notin ToSet(s)
    BY <1>1, <1>2 DEF ToSet
  <2> QED  BY <2>1, <2>2
<1>3. CASE I # {}
  <2> DEFINE n == Min(I)
  <2>1. n \in I
    <3>1. I \subseteq Nat
      BY <1>1
    <3> QED  BY <3>1, <1>3, MinFacts
  <2>2. t = RemoveAt(s, n)
    BY <1>3 DEF RemoveFirst, SelectInSeq
  <2> HIDE DEF t, n
  <2>3. n \in DOMAIN s /\ s[n] = e
    BY <2>1, <1>1
  <2>4. /\ t \in Seq(S) /\ ToSet(t) \subseteq ToSet(s) /\ ToSet(s) \subseteq ToSet(t) \cup {e}
        /\ Distinct(t) /\ e \notin ToSet(t)
    BY <2>2, <2>3, RemoveAtFacts
  <2>5. ASSUME s # <<>>, Last(s) # e
        PROVE  t # <<>> /\ Last(t) = Last(s)
    <3> DEFINE a == SubSeq(s, 1, n - 1)
               b == SubSeq(s, n + 1, Len(s))
    <3>1. n \in 1 .. Len(s) - 1 /\ n \in Nat \ {0}
      BY <2>3, <2>5, <1>1 DEF Last
    <3>2. a \in Seq(S) /\ Len(a) = n - 1
      BY <3>1, <1>1, SubSeqProperties
    <3>3. b \in Seq(S) /\ Len(b) = Len(s) - n /\ b[Len(s) - n] = s[Len(s)]
      <4>1. b \in Seq(S) /\ Len(b) = Len(s) - n /\ \A i \in 1 .. Len(s) - n : b[i] = s[n + i]
        BY <3>1, <1>1, SubSeqProperties
      <4>2. Len(s) - n \in 1 .. Len(s) - n /\ n + (Len(s) - n) = Len(s)
        BY <3>1, <1>1
      <4> QED  BY <4>1, <4>2
    <3>4. t = a \o b
      BY <2>2 DEF RemoveAt
    <3> HIDE DEF a, b
    <3>5. /\ Len(t) = Len(a) + Len(b)
          /\ \A i \in 1 .. Len(a) + Len(b) : t[i] = IF i <= Len(a) THEN a[i] ELSE b[i - Len(a)]
      BY <3>2, <3>3, <3>4, ConcatProperties
    <3>6. /\ Len(a) + Len(b) = Len(s) - 1 /\ Len(s) - 1 \in 1 .. Len(s) - 1
          /\ ~(Len(s) - 1 <= Len(a)) /\ (Len(s) - 1) - Len(a) = Len(s) - n
      BY <3>1, <3>2, <3>3, <1>1
    <3>7. Len(t) = Len(s) - 1 /\ t[Len(s) - 1] = s[Len(s)]
      BY <3>3, <3>5, <3>6
    <3>8. t # <<>>
      BY <3>6, <3>7, <1>1, EmptySeq
    <3> QED  BY <3>7, <3>8 DEF Last
  <2> QED  BY <2>4, <2>5 DEF t
<1> QED  BY <1>2, <1>3

\* Of those who wait for each other, c runs and m waits furthest out.
WaitChain(S, m, c, cs) ==
  /\ c \in S /\ cs \in Seq(S) /\ Distinct(cs) /\ c \notin ToSet(cs)
  /\ IF cs = <<>> THEN c = m ELSE Last(cs) = m

\* The one that runs starts another one and waits.
LEMMA ChainPushed ==
  ASSUME NEW S, NEW m, NEW c, NEW cs, WaitChain(S, m, c, cs), NEW d \in S, d # c, d \notin ToSet(cs)
  PROVE  WaitChain(S, m, d, <<c>> \o cs) /\ ToSet(<<c>> \o cs) = ToSet(cs) \cup {c}
<1> DEFINE t == <<c>> \o cs
<1>1. c \in S /\ cs \in Seq(S) /\ Distinct(cs) /\ c \notin ToSet(cs)
  BY DEF WaitChain
<1>2. /\ t \in Seq(S) /\ Len(t) = Len(cs) + 1 /\ t[1] = c
      /\ \A i \in 1 .. Len(cs) : t[i + 1] = cs[i]
      /\ Len(cs) \in Nat /\ DOMAIN cs = 1 .. Len(cs) /\ DOMAIN t = 1 .. Len(t)
  BY <1>1
<1> HIDE DEF t
<1>3. \A i \in DOMAIN t : i = 1 \/ (i - 1 \in DOMAIN cs /\ t[i] = cs[i - 1] /\ i = (i - 1) + 1)
  BY <1>2
<1>4. ToSet(t) = ToSet(cs) \cup {c}
  <2>1. ToSet(t) \subseteq ToSet(cs) \cup {c}
    BY <1>2, <1>3 DEF ToSet
  <2>2. ToSet(cs) \subseteq ToSet(t)
    <3>1. \A i \in DOMAIN cs : i + 1 \in DOMAIN t /\ t[i + 1] = cs[i]
      BY <1>2
    <3> QED  BY <3>1 DEF ToSet
  <2>3. c \in ToSet(t)
    BY <1>2 DEF ToSet
  <2> QED  BY <2>1, <2>2, <2>3
<1>5. Distinct(t)
  <2>1. ASSUME NEW i \in DOMAIN t, NEW j \in DOMAIN t, t[i] = t[j]
        PROVE  i = j
    <3>1. CASE i = 1 /\ j = 1
      BY <3>1
    <3>2. CASE i = 1 /\ j # 1
      BY <3>2, <2>1, <1>1, <1>2, <1>3 DEF ToSet
    <3>3. CASE i # 1 /\ j = 1
      BY <3>3, <2>1, <1>1, <1>2, <1>3 DEF ToSet
    <3>4. CASE i # 1 /\ j # 1
      <4>1. i - 1 = j - 1
        BY <3>4, <2>1, <1>1, <1>3 DEF Distinct
      <4> QED  BY <4>1, <3>4, <1>3
    <3> QED  BY <3>1, <3>2, <3>3, <3>4
  <2> QED  BY <2>1 DEF Distinct
<1>6. t # <<>> /\ Last(t) = m
  <2>1. t # <<>>
    BY <1>2
  <2>2. CASE cs = <<>>
    <3>1. Len(cs) = 0 /\ c = m
      BY <2>2 DEF WaitChain
    <3> QED  BY <3>1, <2>1, <1>2 DEF Last
  <2>3. CASE cs # <<>>
    <3>1. cs[Len(cs)] = m /\ Len(cs) \in 1 .. Len(cs)
      BY <2>3, <1>1, FrontFacts DEF WaitChain, Last
    <3> QED  BY <3>1, <2>1, <1>2 DEF Last
  <2> QED  BY <2>2, <2>3
<1>7. WaitChain(S, m, d, t)
  BY <1>2, <1>4, <1>5, <1>6 DEF WaitChain
<1> QED  BY <1>4, <1>7 DEF t

\* The nearest one that waits runs again.
LEMMA ChainPopped ==
  ASSUME NEW S, NEW m, NEW c, NEW cs, WaitChain(S, m, c, cs), cs # <<>>
  PROVE  /\ WaitChain(S, m, Head(cs), Tail(cs)) /\ Head(cs) \in ToSet(cs)
         /\ ToSet(Tail(cs)) = ToSet(cs) \ {Head(cs)}
<1> DEFINE t == Tail(cs)
<1>1. c \in S /\ cs \in Seq(S) /\ Distinct(cs) /\ Last(cs) = m
  BY DEF WaitChain
<1>2. /\ t \in Seq(S) /\ Head(cs) \in S /\ Head(cs) \in ToSet(cs)
      /\ ToSet(t) = ToSet(cs) \ {Head(cs)} /\ Distinct(t)
  BY <1>1, TailFacts
<1>3. /\ Len(t) = Len(cs) - 1 /\ \A i \in 1 .. Len(t) : t[i] = cs[i + 1]
      /\ Head(cs) = cs[1] /\ Len(cs) \in Nat /\ Len(cs) > 0
  BY <1>1
<1> HIDE DEF t
<1>4. IF t = <<>> THEN Head(cs) = m ELSE Last(t) = m
  <2>1. CASE t = <<>>
    <3>1. Len(cs) = 1
      BY <2>1, <1>3
    <3> QED  BY <3>1, <2>1, <1>1, <1>3 DEF Last
  <2>2. CASE t # <<>>
    <3>1. Len(t) \in 1 .. Len(t) /\ Len(t) + 1 = Len(cs)
      BY <2>2, <1>2, <1>3, FrontFacts
    <3> QED  BY <3>1, <2>2, <1>1, <1>3 DEF Last
  <2> QED  BY <2>1, <2>2
<1>5. WaitChain(S, m, Head(cs), t)
  BY <1>2, <1>4 DEF WaitChain
<1> QED  BY <1>2, <1>5 DEF t

\* One that may wait, but not the last, is taken out.
LEMMA ChainCutOut ==
  ASSUME NEW S, NEW m, NEW c, NEW cs, WaitChain(S, m, c, cs), NEW d, d # m
  PROVE  WaitChain(S, m, c, RemoveFirst(cs, d)) /\ ToSet(RemoveFirst(cs, d)) = ToSet(cs) \ {d}
<1> DEFINE t == RemoveFirst(cs, d)
<1>1. c \in S /\ cs \in Seq(S) /\ Distinct(cs) /\ c \notin ToSet(cs)
  BY DEF WaitChain
<1>2. /\ t \in Seq(S) /\ Distinct(t) /\ \A x : x \in ToSet(t) <=> x \in ToSet(cs) /\ x # d
      /\ cs # <<>> /\ Last(cs) # d => t # <<>> /\ Last(t) = Last(cs)
  BY <1>1, RemoveFirstFacts
<1> HIDE DEF t
<1>3. ToSet(t) = ToSet(cs) \ {d}
  BY <1>2
<1>4. CASE cs = <<>>
  <2>1. ToSet(t) = {}
    BY <1>3, <1>4 DEF ToSet
  <2>2. t = <<>>
    <3>1. DOMAIN t = {} /\ DOMAIN t = 1 .. Len(t)
      BY <2>1, <1>2 DEF ToSet
    <3> QED  BY <3>1, <1>2, EmptySeq
  <2> QED  BY <2>2, <1>3, <1>4 DEF WaitChain, t
<1>5. CASE cs # <<>>
  BY <1>1, <1>2, <1>3, <1>5 DEF WaitChain, t
<1> QED  BY <1>4, <1>5

=============================================================================
