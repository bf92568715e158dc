-------------------------- MODULE CollectorProofs --------------------------
(***************************************************************************)
(* Proofs about reachability in NeoHeap.  CollectorInv is an inductive     *)
(* invariant: the collector holds only what no script can reach, and all   *)
(* garbage can be found from what is queued, being destroyed or in the     *)
(* collector's hands.  With it every step of NeoHeap is a step of GcHeap.  *)
(***************************************************************************)
EXTENDS NeoHeapProofs, FunctionTheorems

USE DEF heapVars, queueVars, freeVars, runVars, gcVars

-----------------------------------------------------------------------------
(* Reachability as a least closed set, over any assignment of slots        *)

Edges == [Slot -> Obj \cup {NoObj}]

\* No child slot leads out of T.
Shut(e, T) == \A p \in T, f \in Field : e[<<p, f>>] # NoObj => e[<<p, f>>] \in T
Reach(e, S) == {o \in Obj : \A T \in SUBSET Obj : S \subseteq T /\ Shut(e, T) => o \in T}

\* What a set of nodes reaches is shut and holds the set.
LEMMA ReachShut ==
  ASSUME NEW e \in Edges, NEW S, S \subseteq Obj
  PROVE  S \subseteq Reach(e, S) /\ Reach(e, S) \subseteq Obj /\ Shut(e, Reach(e, S))
<1>1. \A p \in Obj, f \in Field : e[<<p, f>>] \in Obj \cup {NoObj}
  BY DEF Edges, Slot, Inner
<1>2. S \subseteq Reach(e, S) /\ Reach(e, S) \subseteq Obj
  BY DEF Reach
<1>3. ASSUME NEW p \in Reach(e, S), NEW f \in Field, e[<<p, f>>] # NoObj
      PROVE  e[<<p, f>>] \in Reach(e, S)
  <2>1. e[<<p, f>>] \in Obj
    BY <1>1, <1>2, <1>3
  <2>2. ASSUME NEW T \in SUBSET Obj, S \subseteq T, Shut(e, T)
        PROVE  e[<<p, f>>] \in T
    <3>1. p \in T
      BY <2>2 DEF Reach
    <3> QED  BY <3>1, <1>3, <2>2 DEF Shut
  <2> QED  BY <2>1, <2>2 DEF Reach
<1> QED  BY <1>2, <1>3 DEF Shut

\* ... and is the smallest such set.
LEMMA ReachLeast ==
  ASSUME NEW e, NEW S, NEW T \in SUBSET Obj, S \subseteq T, Shut(e, T)
  PROVE  Reach(e, S) \subseteq T
  BY DEF Reach

\* A larger set reaches more, and what a reached set reaches was reached.
LEMMA ReachWithin ==
  ASSUME NEW e \in Edges, NEW S, NEW T, T \subseteq Obj, S \subseteq Reach(e, T)
  PROVE  Reach(e, S) \subseteq Reach(e, T)
  BY ReachShut, ReachLeast

\* A node is reached from a single member of the set.
LEMMA ReachFromOne ==
  ASSUME NEW e \in Edges, NEW S, S \subseteq Obj, NEW o \in Reach(e, S)
  PROVE  \E q \in S : o \in Reach(e, {q})
<1> DEFINE T == {p \in Obj : \E q \in S : p \in Reach(e, {q})}
<1>1. \A q \in S : q \in Reach(e, {q}) /\ Shut(e, Reach(e, {q})) /\ Reach(e, {q}) \subseteq Obj
  <2> SUFFICES ASSUME NEW q \in S
               PROVE  q \in Reach(e, {q}) /\ Shut(e, Reach(e, {q})) /\ Reach(e, {q}) \subseteq Obj
    OBVIOUS
  <2> DEFINE Q == {q}
  <2>1. Q \subseteq Obj /\ q \in Q
    OBVIOUS
  <2> HIDE DEF Q
  <2>2. q \in Reach(e, Q) /\ Shut(e, Reach(e, Q)) /\ Reach(e, Q) \subseteq Obj
    BY <2>1, ReachShut
  <2> QED  BY <2>2 DEF Q
<1>2. S \subseteq T /\ T \in SUBSET Obj
  BY <1>1
<1>3. Shut(e, T)
  BY <1>1 DEF Shut
<1> HIDE DEF T
<1>4. o \in T
  BY <1>2, <1>3, ReachLeast
<1> QED  BY <1>4 DEF T

\* Where edges are cut, what they led to has to be counted in.
LEMMA ReachCut ==
  ASSUME NEW e \in Edges, NEW d \in Edges, NEW S, NEW C, S \subseteq Obj, C \subseteq Obj,
         \A s \in Slot : e[s] # NoObj => d[s] = e[s] \/ e[s] \in C
  PROVE  Reach(e, S) \subseteq Reach(d, S \cup C)
<1> DEFINE T == Reach(d, S \cup C)
<1>1. S \cup C \subseteq T /\ T \in SUBSET Obj /\ Shut(d, T)
  BY ReachShut
<1>2. Shut(e, T)
  <2> SUFFICES ASSUME NEW p \in T, NEW f \in Field, e[<<p, f>>] # NoObj
               PROVE  e[<<p, f>>] \in T
    BY DEF Shut
  <2>1. <<p, f>> \in Slot
    BY <1>1 DEF Slot, Inner
  <2> QED  BY <1>1, <2>1 DEF Shut
<1> HIDE DEF T
<1>3. Reach(e, S) \subseteq T
  BY <1>1, <1>2, ReachLeast
<1> QED  BY <1>3 DEF T

\* A set that no edge from elsewhere leads into is not reached from elsewhere.
LEMMA ReachAvoids ==
  ASSUME NEW e \in Edges, NEW S, S \subseteq Obj, NEW W,
         S \cap W = {},
         \A p \in Obj \ W, f \in Field : e[<<p, f>>] # NoObj => e[<<p, f>>] \notin W
  PROVE  Reach(e, S) \cap W = {}
<1>1. S \subseteq Obj \ W /\ Obj \ W \in SUBSET Obj
  OBVIOUS
<1>2. Shut(e, Obj \ W)
  BY DEF Shut, Edges, Slot, Inner
<1>3. Reach(e, S) \subseteq Obj \ W
  BY <1>1, <1>2, ReachLeast
<1> QED  BY <1>3

-----------------------------------------------------------------------------
(* The mapped heap                                                         *)

\* What the script starts from: registers, globals, contexts on the resume
\* chain, requests that hold themselves, and a container not stored yet.
Locked(e, b)      == {a \in b : e[<<a, LockField>>] = a}
Roots(e, r, b, n) == ({e[s] : s \in Root} \cup ToSet(r) \cup Locked(e, b) \cup {n}) \ {NoObj}

RootsNow == Roots(slot, running, busy, move.new)
Reached  == Reach(slot, RootsNow)
Lost     == {o \in Obj : status[o] = "live"} \ Reached

\* The abstract heap's reachability is the one defined here.
LEMMA MappedHeap ==
  ASSUME TypeOK
  PROVE  /\ slot \in Edges /\ RootsNow \subseteq Obj
         /\ \A S : Abstract!Closure(S) = Reach(slot, S)
         /\ Abstract!Roots = RootsNow /\ Reachable = Reached /\ Garbage = Lost
<1>1. slot \in Edges /\ RootsNow \subseteq Obj
  BY DEF TypeOK, Edges, RootsNow, Roots, Root, Slot, Moves, ToSet, Locked
<1>2. \A T : Abstract!Closed(T) <=> Shut(slot, T)
  BY DEF Abstract!Closed, Abstract!Children, Shut
<1>3. \A S : Abstract!Closure(S) = Reach(slot, S)
  BY <1>2, Zenon DEF Abstract!Closure, Reach
<1>4. Reachable = Abstract!Closure(RootsNow)
  BY DEF Reachable, Abstract!Reachable, Abstract!Roots, RootsNow, Roots, Locked, Chained, InFlight
<1>5. Reachable = Reached
  BY <1>3, <1>4 DEF Reached
<1>6. Abstract!Roots = RootsNow
  BY DEF Abstract!Roots, RootsNow, Roots, Locked, Chained, InFlight
<1> QED  BY <1>1, <1>3, <1>5, <1>6 DEF Garbage, Reachable, Abstract!Garbage, Lost

LEMMA MappedHeapNext ==
  ASSUME TypeOK'
  PROVE  /\ slot' \in Edges /\ RootsNow' \subseteq Obj
         /\ Abstract!Closure(Externals)' = Reach(slot', Externals')
         /\ Abstract!Closure(Anchors)' = Reach(slot', Anchors')
         /\ Abstract!Roots' = RootsNow' /\ Reachable' = Reached' /\ Garbage' = Lost'
<1>1. slot' \in Edges /\ RootsNow' \subseteq Obj
  BY DEF TypeOK, Edges, RootsNow, Roots, Root, Slot, Moves, ToSet, Locked
<1>2. \A T : Abstract!Closed(T)' <=> Shut(slot', T')
  BY DEF Abstract!Closed, Abstract!Children, Shut
<1>3. /\ Abstract!Closure(Externals)' = Reach(slot', Externals')
      /\ Abstract!Closure(Anchors)' = Reach(slot', Anchors')
  BY <1>2, Zenon DEF Abstract!Closure, Reach
<1>4. Reachable' = Abstract!Closure(RootsNow)'
  BY DEF Reachable, Abstract!Reachable, Abstract!Roots, RootsNow, Roots, Locked, Chained, InFlight
<1>5. Reachable' = Reach(slot', RootsNow')
  BY <1>2, <1>4, Zenon DEF Abstract!Closure, Reach
<1>6. Reachable' = Reached'
  BY <1>5 DEF Reached
<1>7. Abstract!Roots' = RootsNow'
  BY DEF Abstract!Roots, RootsNow, Roots, Locked, Chained, InFlight
<1> QED  BY <1>1, <1>3, <1>6, <1>7 DEF Garbage, Reachable, Abstract!Garbage, Lost

-----------------------------------------------------------------------------
(* The collector's passes                                                  *)

Tracing == {"pop", "gray", "scan", "black", "white"}

\* While the collector traces, no other handler runs and the heap stands still.
LEMMA TracingSteps ==
  ASSUME HeapInv, Next, phase \in Tracing
  PROVE  /\ UNCHANGED <<slot, status, may, destroyQ, freeing, sweep, move, running, busy, mode>>
         /\ \/ \E q \in Kind : PopRoot(q)
            \/ PopEnds
            \/ \E o \in Obj : Trace(o)
            \/ TraceEnds
            \/ Scan
            \/ \E o \in Obj : Blacken(o)
            \/ BlackenEnds
            \/ \E o \in Obj : Hold(o)
            \/ HoldEnds
<1>1. mode = "run" /\ move = NoMove /\ Drained /\ phase # "idle" /\ sweep = NoObj
  BY DEF HeapInv, Staging, Tracing
<1>2. ~Quiescent
  BY <1>1 DEF Quiescent
<1>3. ~Mutator
  BY <1>2 DEF Mutator, Alloc, StartMove, Drop, Resume, Yield, AsyncRequest, AsyncDispatch
<1>4. ~Continue
  BY <1>1 DEF Continue, PopDestroy, FreeChild, FreeDone, MoveCopies, Unlock, DropCallback,
     Drained, NoMove
<1>5. ~\E all \in BOOLEAN : Collect(all)
  BY <1>2 DEF Collect
<1>6. ~Teardown
  BY <1>1, <1>2 DEF Teardown, BeginTeardown, ReleaseRoot, DiscardCompleted, RootsGone, SweepNext,
     SweepChild, SweepDone, EndTeardown, Gone
<1>7. Collector
  BY <1>3, <1>4, <1>5, <1>6 DEF Next
<1>8. \/ (\E q \in Kind : PopRoot(q)) \/ PopEnds \/ (\E o \in Obj : Trace(o)) \/ TraceEnds
      \/ Scan \/ (\E o \in Obj : Blacken(o)) \/ BlackenEnds \/ (\E o \in Obj : Hold(o)) \/ HoldEnds
  BY <1>7 DEF Collector, Tracing, ClearSlot, ClearEnds, Unhold, PassEnds
<1>9. UNCHANGED <<slot, status, may, destroyQ, freeing, sweep, move, running, busy, mode>>
  BY <1>8 DEF PopRoot, PopEnds, Trace, TraceEnds, Scan, Blacken, BlackenEnds, Hold, HoldEnds
<1> QED  BY <1>8, <1>9

\* Outside a pass nothing is coloured, and no step but the start of the next
\* pass changes that.
LEMMA RestingSteps ==
  ASSUME HeapInv, Next, phase \notin Tracing
  PROVE  /\ phase \in {"idle", "clear", "unhold"} /\ phase' \in {"idle", "clear", "unhold", "pop"}
         /\ Colored = {} /\ UNCHANGED <<color, scratch, todo>>
<1>1. phase \in {"idle", "clear", "unhold"} /\ \A o \in Obj : color[o] = "none"
  BY DEF HeapInv, TypeOK, Phases, Staging, Tracing
<1>2. CASE Mutator
  BY <1>1, <1>2 DEF Mutator, Alloc, StartMove, Drop, Resume, Yield, AsyncRequest, AsyncDispatch,
     Colored
<1>3. CASE Continue
  BY <1>1, <1>3 DEF Continue, PopDestroy, FreeChild, FreeDone, MoveCopies, Unlock, DropCallback,
     Colored
<1>4. CASE \E all \in BOOLEAN : Collect(all)
  BY <1>1, <1>4 DEF Collect, Colored
<1>5. CASE Collector
  BY <1>1, <1>5 DEF Collector, PopRoot, PopEnds, Trace, TraceEnds, Scan, Blacken, BlackenEnds,
     Hold, HoldEnds, ClearSlot, ClearEnds, Unhold, PassEnds, Colored
<1>6. CASE Teardown
  BY <1>1, <1>6 DEF Teardown, BeginTeardown, ReleaseRoot, DiscardCompleted, RootsGone, SweepNext,
     SweepChild, SweepDone, EndTeardown, Gone, vars, Colored
<1> QED  BY <1>2, <1>3, <1>4, <1>5, <1>6 DEF Next

\* Before a pass traces anything, every reference is unexplained and the count
\* is their number.
LEMMA UntracedCounts ==
  ASSUME TypeOK, RefCountExact, hold = {}, NEW o \in Obj, Traced = {}
  PROVE  rc[o] = Cardinality(Unexplained(o))
<1>1. Unexplained(o) = Refs(o)
  BY DEF Unexplained
<1>2. rc[o] = Cardinality(Refs(o)) + 0 /\ Cardinality(Refs(o)) \in Nat
  BY FS_Subset, FS_CardinalityType, SlotFinite DEF RefCountExact, Held, Refs
<1> QED  BY <1>1, <1>2

\* The edges from one node to another, as slots.
LEMMA EdgeSlots ==
  ASSUME TypeOK, NEW o \in Obj, NEW c \in Obj
  PROVE  LET links == {s \in Refs(c) : s \in {o} \X Field}
         IN  IsFiniteSet(links) /\ Cardinality(links) = EdgeCount(o, c)
<1> DEFINE fs == {f \in Field : slot[<<o, f>>] = c}
           links == {s \in Refs(c) : s \in {o} \X Field}
           g == [f \in fs |-> <<o, f>>]
<1>1. IsFiniteSet(fs)
  BY HeapAssumption, FS_Subset
<1>2. \A f \in Field : <<o, f>> \in Slot
  BY ChildSlots
<1>3. links \subseteq Slot
  BY DEF Refs
<1>4. IsFiniteSet(links)
  BY <1>3, SlotFinite, FS_Subset
<1>5. g \in Bijection(fs, links)
  <2>1. g \in [fs -> links]
    BY <1>2 DEF Refs
  <2>2. \A a, b \in fs : g[a] = g[b] => a = b
    OBVIOUS
  <2>3. \A s \in links : \E f \in fs : g[f] = s
    BY DEF Refs
  <2> HIDE DEF g, fs, links
  <2> QED  BY <2>1, <2>2, <2>3, Fun_IsBij
<1>6. Cardinality(links) = Cardinality(fs)
  <2> HIDE DEF g, fs, links
  <2> QED  BY <1>1, <1>5, FS_Bijection DEF ExistsBijection
<1> QED  BY <1>4, <1>6 DEF EdgeCount

-----------------------------------------------------------------------------
(* Trial deletion                                                          *)

\* A worklist entry explains its own edges, and nothing else.
LEMMA TraceCounts ==
  ASSUME HeapInv, TraceSound, NEW o \in Obj, Trace(o), ~NativeRoot(o),
         UNCHANGED <<slot, may, running, busy>>, NEW c \in Obj
  PROVE  /\ Traced' = Traced \cup {o} /\ o \notin Traced
         /\ c \in Kids(o) /\ may[c] =>
              Unexplained(c)' = Unexplained(c) \ {s \in Refs(c) : s \in {o} \X Field}
         /\ ~(c \in Kids(o) /\ may[c]) => Unexplained(c)' = Unexplained(c)
<1> DEFINE kids == {k \in Kids(o) : may[k]}
           new  == {k \in kids : color[k] = "none"}
<1>1. /\ phase = "gray" /\ phase' = "gray" /\ o \in todo
      /\ color' = [k \in Obj |-> IF k \in new THEN "gray" ELSE color[k]]
      /\ todo' = (todo \ {o}) \cup new
  BY DEF Trace
<1>2. color[o] # "none"
  BY <1>1 DEF TraceSound, Colored
<1>3. \A k \in Obj : NativeRoot(k)' <=> NativeRoot(k)
  BY DEF NativeRoot
<1>4. \A k \in Obj : k \in Colored' <=> k \in Colored \/ k \in new
  BY <1>1 DEF Colored
<1>5. \A k \in new : k \notin Colored
  BY DEF Colored
<1> HIDE DEF new
<1>6. \A k \in Obj : k \in Traced' <=> k \in Traced \/ k = o
  <2>1. \A k \in Obj : k \in Traced' <=> k \in Colored' /\ ~NativeRoot(k) /\ k \notin todo'
    BY <1>1, <1>3 DEF Traced, Colored
  <2>2. \A k \in Obj : k \in Traced <=> k \in Colored /\ ~NativeRoot(k) /\ k \notin todo
    BY <1>1 DEF Traced, Colored
  <2>3. o \in Colored /\ o \notin new
    BY <1>2, <1>5 DEF Colored
  <2> QED  BY <2>1, <2>2, <2>3, <1>1, <1>4, <1>5
<1>7. Traced' = Traced \cup {o} /\ o \notin Traced
  BY <1>1, <1>6 DEF Traced, Colored
<1>8. \A s \in Slot : s \in Unexplained(c)' <=>
        s \in Refs(c) /\ ~(may[c] /\ (s \in Traced \X Field \/ s \in {o} \X Field))
  BY <1>7 DEF Unexplained, Refs
<1>9. \A s \in Slot : s \in Unexplained(c) <=> s \in Refs(c) /\ ~(may[c] /\ s \in Traced \X Field)
  BY DEF Unexplained, Refs
<1>10. Refs(c) \subseteq Slot /\ Unexplained(c) \subseteq Slot /\ Unexplained(c)' \subseteq Slot
  BY DEF Unexplained, Refs
<1>11. c \in Kids(o) /\ may[c] =>
         Unexplained(c)' = Unexplained(c) \ {s \in Refs(c) : s \in {o} \X Field}
  BY <1>8, <1>9, <1>10
<1>12. ASSUME c \notin Kids(o), NEW s \in Refs(c), s \in {o} \X Field
       PROVE  FALSE
  BY <1>12, HeapAssumption DEF Refs, Kids
<1>13. ~(c \in Kids(o) /\ may[c]) => Unexplained(c)' = Unexplained(c)
  BY <1>8, <1>9, <1>10, <1>12
<1> QED  BY <1>7, <1>11, <1>13

\* ... so the trace keeps every scratch count equal to the references it has
\* not explained.
LEMMA TraceScratch ==
  ASSUME HeapInv, TraceSound, NEW o \in Obj, Trace(o), UNCHANGED <<slot, may, running, busy>>
  PROVE  \A c \in Colored' : scratch'[c] = Cardinality(Unexplained(c)')
<1> SUFFICES ASSUME NEW c \in Colored'
             PROVE  scratch'[c] = Cardinality(Unexplained(c)')
  OBVIOUS
<1> DEFINE kids == IF NativeRoot(o) THEN {} ELSE {k \in Kids(o) : may[k]}
           new  == {k \in kids : color[k] = "none"}
<1>1. /\ phase = "gray" /\ phase' = "gray" /\ o \in todo
      /\ color' = [k \in Obj |-> IF k \in new THEN "gray" ELSE color[k]]
      /\ scratch' = [k \in Obj |->
              IF k \in kids
              THEN (IF k \in new THEN rc[k] ELSE scratch[k]) - EdgeCount(o, k)
              ELSE scratch[k]]
      /\ todo' = (todo \ {o}) \cup new
  BY DEF Trace
<1>2. c \in Obj /\ (c \in Colored \/ c \in new)
  BY <1>1 DEF Colored
<1>3. o \in Colored
  BY <1>1 DEF TraceSound
<1>4. CASE c \notin kids
  <2>1. c \in Colored /\ scratch'[c] = scratch[c]
    BY <1>1, <1>2, <1>4
  <2>2. Unexplained(c)' = Unexplained(c)
    <3>1. CASE NativeRoot(o)
      <4>1. Colored' = Colored /\ todo' = todo \ {o}
        BY <3>1, <1>1 DEF Colored, HeapInv, TypeOK
      <4>2. \A k \in Obj : NativeRoot(k)' <=> NativeRoot(k)
        BY DEF NativeRoot
      <4>3. Traced' = Traced
        BY <4>1, <4>2, <3>1, <1>1 DEF Traced, Colored
      <4> QED  BY <4>3 DEF Unexplained, Refs
    <3>2. CASE ~NativeRoot(o)
      BY <3>2, <1>2, <1>4, TraceCounts
    <3> QED  BY <3>1, <3>2
  <2> QED  BY <2>1, <2>2 DEF TraceSound
<1>5. CASE c \in kids
  <2> DEFINE links == {s \in Refs(c) : s \in {o} \X Field}
  <2>1. ~NativeRoot(o) /\ c \in Kids(o) /\ may[c]
    BY <1>5
  <2>2. Unexplained(c)' = Unexplained(c) \ links /\ o \notin Traced
    BY <2>1, <1>2, TraceCounts
  <2>3. IsFiniteSet(links) /\ Cardinality(links) = EdgeCount(o, c)
    BY <1>2, EdgeSlots DEF HeapInv
  <2>4. links \subseteq Unexplained(c)
    BY <2>2 DEF Unexplained
  <2>5. IsFiniteSet(Unexplained(c))
    BY SlotFinite, FS_Subset DEF Unexplained, Refs
  <2>6. Cardinality(Unexplained(c)) = (IF c \in new THEN rc[c] ELSE scratch[c])
    <3>1. CASE c \in new
      <4>1. c \notin Colored
        BY <3>1 DEF Colored
      <4>2. \A p \in Traced : c \notin Kids(p)
        BY <2>1, <4>1 DEF TraceSound
      <4>3. \A s \in Refs(c) : s \notin Traced \X Field
        BY <4>2, <1>2, HeapAssumption DEF Refs, Kids
      <4>4. Unexplained(c) = Refs(c)
        BY <4>3 DEF Unexplained
      <4>5. hold = {}
        BY <1>1 DEF HeapInv, Staging
      <4>6. rc[c] = Cardinality(Refs(c)) + 0 /\ Cardinality(Refs(c)) \in Nat
        BY <4>4, <4>5, <2>5, <1>2, FS_CardinalityType DEF HeapInv, RefCountExact, Held
      <4> QED  BY <3>1, <4>4, <4>6
    <3>2. CASE c \notin new
      BY <3>2, <1>2 DEF TraceSound
    <3> QED  BY <3>1, <3>2
  <2>7. scratch'[c] = (IF c \in new THEN rc[c] ELSE scratch[c]) - EdgeCount(o, c)
    BY <1>1, <1>2, <1>5
  <2> HIDE DEF links, new, kids
  <2>8. Unexplained(c) \cap links = links
    BY <2>4
  <2>9. Cardinality(Unexplained(c) \ links) = Cardinality(Unexplained(c)) - Cardinality(links)
    BY <2>5, <2>8, FS_Difference
  <2> QED  BY <2>2, <2>3, <2>6, <2>7, <2>9
<1> QED  BY <1>4, <1>5

\* A traced step that leaves slots, colours and worklist as they are keeps
\* what is explained.
LEMMA SameTrace ==
  ASSUME UNCHANGED <<slot, may, running, busy, color>>,
         \A o \in Colored : phase' \in {"pop", "gray"} /\ o \in todo'
                              <=> phase \in {"pop", "gray"} /\ o \in todo
  PROVE  /\ Colored' = Colored /\ Traced' = Traced
         /\ \A o \in Obj : Unexplained(o)' = Unexplained(o) /\ Kids(o)' = Kids(o)
<1>1. \A k \in Obj : NativeRoot(k)' <=> NativeRoot(k)
  BY DEF NativeRoot
<1>2. Colored' = Colored /\ Colored \subseteq Obj
  BY DEF Colored
<1>3. Traced' = Traced
  BY <1>1, <1>2 DEF Traced
<1> QED  BY <1>2, <1>3 DEF Unexplained, Refs, Kids

LEMMA TraceStep ==
  ASSUME HeapInv, HeapInv', TraceSound, Next
  PROVE  TraceSound'
<1> USE DEF Tracing
<1>t. color \in [Obj -> Colors] /\ phase \in Phases /\ phase' \in Phases
  BY DEF HeapInv, TypeOK
<1>1. CASE Colored' = {} /\ todo' = {}
  BY <1>1 DEF TraceSound, Traced, Colored
<1>2. CASE phase \notin Tracing
  <2>1. Colored = {} /\ UNCHANGED <<color, todo>>
    BY <1>2, RestingSteps
  <2>2. Colored' = {} /\ todo' = {}
    BY <2>1 DEF TraceSound, Colored
  <2> QED  BY <2>2, <1>1
<1>3. CASE phase \in Tracing
  <2>1. UNCHANGED <<slot, may, running, busy>>
    BY <1>3, TracingSteps
  <2>2. ASSUME NEW q \in Kind, PopRoot(q)
        PROVE  TraceSound'
    <3> DEFINE o == Head(cand[q])
    <3>1. o \in Obj
      BY <2>2, TailFacts DEF PopRoot, HeapInv, TypeOK
    <3>2. /\ phase = "pop" /\ phase' = "pop" /\ color' = [color EXCEPT ![o] = "gray"]
          /\ scratch' = [scratch EXCEPT ![o] = rc[o]] /\ todo' = todo \cup {o}
          /\ scratch \in [Obj -> Int]
      BY <2>2 DEF PopRoot, HeapInv, TypeOK
    <3> HIDE DEF o
    <3>3. Colored' = Colored \cup {o}
      BY <3>1, <3>2, <1>t DEF Colored
    <3>4. todo' \subseteq Colored' /\ Colored' \subseteq todo'
      BY <3>2, <3>3 DEF TraceSound
    <3>5. Traced = {} /\ Traced' = {}
      BY <3>2, <3>4 DEF Traced, TraceSound, Colored
    <3>6. \A c \in Obj : Unexplained(c)' = Unexplained(c)
      BY <2>1, <3>5 DEF Unexplained, Refs
    <3>7. hold = {}
      BY <3>2 DEF HeapInv, Staging
    <3>8. rc[o] = Cardinality(Unexplained(o))
      BY <3>1, <3>5, <3>7, UntracedCounts DEF HeapInv
    <3>9. \A c \in Colored' : scratch'[c] = Cardinality(Unexplained(c)')
      BY <3>1, <3>2, <3>3, <3>6, <3>8 DEF TraceSound, Colored
    <3>10. \A c \in Obj : color'[c] # "black"
      BY <3>2, <1>t DEF TraceSound
    <3> QED  BY <3>2, <3>4, <3>5, <3>9, <3>10 DEF TraceSound
  <2>3. CASE PopEnds
    <3>1. phase = "pop" /\ phase' = "gray" /\ UNCHANGED <<color, scratch, todo>>
      BY <2>3 DEF PopEnds
    <3>2. /\ Colored' = Colored /\ Traced' = Traced
          /\ \A o \in Obj : Unexplained(o)' = Unexplained(o) /\ Kids(o)' = Kids(o)
      BY <2>1, <3>1, SameTrace
    <3>3. Colored \subseteq Obj
      BY DEF Colored
    <3>4. Traced \subseteq Obj
      BY DEF Traced, Colored
    <3> QED  BY <2>1, <3>1, <3>2, <3>3, <3>4 DEF TraceSound
  <2>4. ASSUME NEW o \in Obj, Trace(o)
        PROVE  TraceSound'
    <3> DEFINE kids == IF NativeRoot(o) THEN {} ELSE {k \in Kids(o) : may[k]}
               new  == {k \in kids : color[k] = "none"}
    <3>1. /\ phase = "gray" /\ phase' = "gray" /\ o \in todo
          /\ color' = [k \in Obj |-> IF k \in new THEN "gray" ELSE color[k]]
          /\ todo' = (todo \ {o}) \cup new
      BY <2>4 DEF Trace
    <3>2. kids \subseteq Obj
      BY ChildSlots DEF HeapInv
    <3>3. \A k \in Obj : k \in Colored' <=> k \in Colored \/ k \in new
      BY <3>1 DEF Colored
    <3>4. todo' \subseteq Colored' /\ \A k \in Obj : color'[k] # "black"
      BY <3>1, <3>2, <3>3 DEF TraceSound, Colored
    <3>5. \A c \in Colored' : scratch'[c] = Cardinality(Unexplained(c)')
      BY <2>1, <2>4, TraceScratch
    <3>6. ASSUME NEW p \in Traced', NEW c \in Kids(p)', may'[c]
          PROVE  c \in Colored'
      <4>1. p \in Obj /\ c \in Kids(p) /\ may[c]
        BY <2>1, <3>6 DEF Kids, Traced, Colored
      <4>2. c \in Obj
        BY <4>1, ChildSlots DEF HeapInv
      <4>3. CASE NativeRoot(o)
        <5>1. \A k \in Obj : NativeRoot(k)' <=> NativeRoot(k)
          BY <2>1 DEF NativeRoot
        <5>2. new = {}
          BY <4>3
        <5>3. p \in Traced
          BY <5>1, <5>2, <3>1, <3>3, <4>1, <4>3 DEF Traced
        <5> QED  BY <5>3, <4>1, <4>2, <3>3 DEF TraceSound
      <4>4. CASE ~NativeRoot(o) /\ p = o
        <5>1. c \in kids
          BY <4>1, <4>4
        <5>2. c \in Colored \/ c \in new
          BY <5>1, <4>2 DEF Colored
        <5> QED  BY <5>2, <4>2, <3>3
      <4>5. CASE ~NativeRoot(o) /\ p # o
        <5>1. Traced' = Traced \cup {o}
          BY <2>1, <2>4, <4>2, <4>5, TraceCounts
        <5>2. p \in Traced
          BY <5>1, <4>5
        <5> QED  BY <5>2, <4>1, <4>2, <3>3 DEF TraceSound
      <4> QED  BY <4>3, <4>4, <4>5
    <3> HIDE DEF new, kids
    <3> QED  BY <3>1, <3>4, <3>5, <3>6 DEF TraceSound
  <2>5. CASE TraceEnds
    <3>1. phase = "gray" /\ phase' = "scan" /\ todo = {} /\ UNCHANGED <<color, scratch, todo>>
      BY <2>5 DEF TraceEnds
    <3>2. /\ Colored' = Colored /\ Traced' = Traced
          /\ \A o \in Obj : Unexplained(o)' = Unexplained(o) /\ Kids(o)' = Kids(o)
      BY <2>1, <3>1, SameTrace
    <3>3. Colored \subseteq Obj /\ Traced \subseteq Obj
      BY DEF Traced, Colored
    <3> QED  BY <2>1, <3>1, <3>2, <3>3 DEF TraceSound
  <2>6. ASSUME Scan \/ \E o \in Obj : Blacken(o)
        PROVE  TraceSound'
    <3>1. /\ phase \in {"scan", "black"} /\ phase' = "black" /\ UNCHANGED scratch
          /\ \A o \in Obj : color'[o] = "none" <=> color[o] = "none"
          /\ todo' \subseteq Colored
      <4>1. CASE Scan
        <5>1. todo' \subseteq Colored
          BY <4>1 DEF Scan, Colored
        <5> QED  BY <5>1, <4>1, <1>t DEF Scan
      <4>2. ASSUME NEW o \in Obj, Blacken(o)
            PROVE  /\ phase \in {"scan", "black"} /\ phase' = "black" /\ UNCHANGED scratch
                   /\ \A k \in Obj : color'[k] = "none" <=> color[k] = "none"
                   /\ todo' \subseteq Colored
        <5> DEFINE new == IF NativeRoot(o) THEN {} ELSE {c \in Kids(o) : color[c] = "gray"}
        <5>1. new \subseteq Obj /\ \A c \in new : color[c] = "gray"
          BY ChildSlots DEF HeapInv
        <5>2. /\ phase = "black" /\ phase' = "black" /\ UNCHANGED scratch
              /\ color' = [c \in Obj |-> IF c \in new THEN "black" ELSE color[c]]
              /\ todo' = (todo \ {o}) \cup new
          BY <4>2 DEF Blacken
        <5>3. new \subseteq Colored
          BY <5>1 DEF Colored
        <5> HIDE DEF new
        <5>4. todo' \subseteq Colored
          BY <5>2, <5>3 DEF TraceSound
        <5> QED  BY <5>1, <5>2, <5>4
      <4> QED  BY <2>6, <4>1, <4>2
    <3>2. Colored' = Colored
      BY <3>1 DEF Colored
    <3>3. \A k \in Obj : NativeRoot(k)' <=> NativeRoot(k)
      BY <2>1 DEF NativeRoot
    <3>4. Traced' = Traced
      BY <3>1, <3>2, <3>3 DEF Traced, Colored
    <3>5. \A o \in Obj : Unexplained(o)' = Unexplained(o) /\ Kids(o)' = Kids(o)
      BY <2>1, <3>4 DEF Unexplained, Refs, Kids
    <3>6. Colored \subseteq Obj /\ Traced \subseteq Obj
      BY DEF Traced, Colored
    <3> QED  BY <2>1, <3>1, <3>2, <3>4, <3>5, <3>6 DEF TraceSound
  <2>7. ASSUME BlackenEnds \/ \E o \in Obj : Hold(o)
        PROVE  TraceSound'
    <3>1. /\ phase \in {"black", "white"} /\ phase' = "white" /\ UNCHANGED <<color, scratch, todo>>
          /\ todo = {}
      BY <2>7 DEF BlackenEnds, Hold, TraceSound
    <3>2. /\ Colored' = Colored /\ Traced' = Traced
          /\ \A o \in Obj : Unexplained(o)' = Unexplained(o) /\ Kids(o)' = Kids(o)
      BY <2>1, <3>1, SameTrace
    <3>3. Colored \subseteq Obj /\ Traced \subseteq Obj
      BY DEF Traced, Colored
    <3> QED  BY <2>1, <3>1, <3>2, <3>3 DEF TraceSound
  <2>8. CASE HoldEnds
    BY <2>8, <1>1 DEF HoldEnds, TraceSound, Colored
  <2> QED  BY <1>3, TracingSteps, <2>2, <2>3, <2>4, <2>5, <2>6, <2>7, <2>8
<1> QED  BY <1>2, <1>3

-----------------------------------------------------------------------------
(* Black nodes                                                             *)

BlackNodes == {o \in Obj : color[o] = "black"}
GrayNodes  == {o \in Obj : color[o] = "gray"}

\* Once the trace is over, colour spreads among the same nodes and from the
\* same externals.
LEMMA SpreadSteps ==
  ASSUME HeapInv, HeapInv', TraceSound, Next, phase' \in {"black", "white"}
  PROVE  /\ phase \in {"scan", "black", "white"}
         /\ Colored' = Colored /\ Externals' = Externals /\ UNCHANGED scratch
         /\ \A o \in Obj : NativeRoot(o)' <=> NativeRoot(o)
         /\ Scan \/ (\E o \in Obj : Blacken(o)) \/ BlackenEnds \/ (\E o \in Obj : Hold(o))
<1> USE DEF Tracing
<1>t. color \in [Obj -> Colors]
  BY DEF HeapInv, TypeOK
<1>1. phase \in Tracing
  BY RestingSteps
<1>2. Scan \/ (\E o \in Obj : Blacken(o)) \/ BlackenEnds \/ (\E o \in Obj : Hold(o))
  BY <1>1, TracingSteps DEF PopRoot, PopEnds, Trace, TraceEnds, HoldEnds
<1>3. UNCHANGED <<slot, running, busy, scratch>> /\ phase \in {"scan", "black", "white"}
  BY <1>1, <1>2, TracingSteps DEF Scan, Blacken, BlackenEnds, Hold
<1>4. \A o \in Obj : color'[o] = "none" <=> color[o] = "none"
  <2>1. CASE Scan
    BY <2>1, <1>t DEF Scan
  <2>2. ASSUME NEW o \in Obj, Blacken(o)
        PROVE  \A k \in Obj : color'[k] = "none" <=> color[k] = "none"
    BY <2>2, <1>t DEF Blacken
  <2>3. CASE BlackenEnds \/ \E o \in Obj : Hold(o)
    BY <2>3 DEF BlackenEnds, Hold
  <2> QED  BY <1>2, <2>1, <2>2, <2>3
<1>5. Colored' = Colored
  BY <1>4 DEF Colored
<1>6. \A o \in Obj : NativeRoot(o)' <=> NativeRoot(o)
  BY <1>3 DEF NativeRoot
<1>7. Externals' = Externals
  BY <1>3, <1>5, <1>6 DEF Externals, Colored
<1> QED  BY <1>2, <1>3, <1>5, <1>6, <1>7

LEMMA BlackStep ==
  ASSUME HeapInv, HeapInv', TraceSound, BlackSound, Next
  PROVE  BlackSound'
<1> SUFFICES ASSUME phase' \in {"black", "white"}
             PROVE  /\ \A o \in Obj : color'[o] = "gray" => o \notin Externals'
                    /\ \A o \in todo' : color'[o] = "black"
                    /\ \A p \in Obj \ todo' : color'[p] = "black" /\ ~NativeRoot(p)' =>
                         \A c \in Kids(p)' : color'[c] # "gray"
                    /\ BlackNodes' \subseteq Reach(slot', Externals')
  BY MappedHeapNext DEF BlackSound, HeapInv, BlackNodes
<1>t. color \in [Obj -> Colors]
  BY DEF HeapInv, TypeOK
<1>s. /\ Colored' = Colored /\ Externals' = Externals /\ slot' = slot
      /\ \A o \in Obj : NativeRoot(o)' <=> NativeRoot(o)
  BY SpreadSteps, TracingSteps DEF Tracing
<1>r. /\ Externals \subseteq Reach(slot, Externals) /\ Reach(slot, Externals) \subseteq Obj
      /\ Shut(slot, Reach(slot, Externals))
  BY MappedHeap, ReachShut DEF HeapInv, Externals, Colored
<1>k. \A p \in Obj : Kids(p)' = Kids(p) /\ Kids(p) \subseteq Obj
  BY <1>s, ChildSlots DEF Kids, HeapInv
<1>1. CASE Scan
  <2>1. /\ phase = "scan" /\ \A o \in Obj : color[o] # "black"
        /\ color' = [o \in Obj |-> IF o \in todo' THEN "black" ELSE color[o]]
        /\ todo' = {o \in Obj : color[o] = "gray" /\ (NativeRoot(o) \/ scratch[o] # 0)}
    BY <1>1 DEF Scan, TraceSound
  <2>2. todo' = Externals
    BY <2>1, <1>t DEF Externals, Colored, Colors
  <2> QED  BY <2>1, <2>2, <1>s, <1>r DEF BlackNodes
<1>2. ASSUME NEW o \in Obj, Blacken(o)
      PROVE  /\ \A c \in Obj : color'[c] = "gray" => c \notin Externals
             /\ \A c \in todo' : color'[c] = "black"
             /\ \A p \in Obj \ todo' : color'[p] = "black" /\ ~NativeRoot(p) =>
                  \A c \in Kids(p) : color'[c] # "gray"
             /\ BlackNodes' \subseteq Reach(slot, Externals)
  <2> DEFINE new == IF NativeRoot(o) THEN {} ELSE {c \in Kids(o) : color[c] = "gray"}
  <2>1. /\ phase = "black" /\ o \in todo
        /\ color' = [c \in Obj |-> IF c \in new THEN "black" ELSE color[c]]
        /\ todo' = (todo \ {o}) \cup new
    BY <1>2 DEF Blacken
  <2>2. new \subseteq Obj /\ (\A c \in new : color[c] = "gray") /\ new \subseteq Kids(o)
    BY <1>k
  <2>3. ~NativeRoot(o) => \A c \in Kids(o) : color[c] = "gray" => c \in new
    OBVIOUS
  <2> HIDE DEF new
  <2>4. /\ \A c \in Obj : color[c] = "gray" => c \notin Externals
        /\ \A c \in todo : color[c] = "black"
        /\ \A p \in Obj \ todo : color[p] = "black" /\ ~NativeRoot(p) =>
             \A c \in Kids(p) : color[c] # "gray"
        /\ BlackNodes \subseteq Reach(slot, Externals)
    BY <2>1, MappedHeap DEF BlackSound, BlackNodes, HeapInv
  <2>5. \A c \in Obj : color'[c] = "gray" => color[c] = "gray" /\ c \notin new
    BY <2>1
  <2>6. \A c \in todo' : c \in Obj /\ color'[c] = "black"
    BY <2>1, <2>2, <2>4 DEF HeapInv, TypeOK
  <2>7. ASSUME NEW p \in Obj \ todo', color'[p] = "black", ~NativeRoot(p),
               NEW c \in Kids(p), color'[c] = "gray"
        PROVE  FALSE
    <3>1. c \in Obj /\ color[c] = "gray" /\ c \notin new
      BY <1>k, <2>5, <2>7
    <3>2. p # o
      BY <2>3, <2>7, <3>1
    <3>3. p \notin todo /\ color[p] = "black"
      BY <2>1, <2>7, <3>2
    <3> QED  BY <2>4, <2>7, <3>1, <3>3
  <2>8. o \in Reach(slot, Externals)
    BY <2>1, <2>4 DEF BlackNodes
  <2>9. new \subseteq Reach(slot, Externals)
    <3>1. \A f \in Field : slot[<<o, f>>] # NoObj => slot[<<o, f>>] \in Reach(slot, Externals)
      BY <2>8, <1>r DEF Shut
    <3> QED  BY <3>1, <2>2 DEF Kids
  <2>10. BlackNodes' \subseteq BlackNodes \cup new
    BY <2>1 DEF BlackNodes
  <2> QED  BY <2>4, <2>5, <2>6, <2>7, <2>9, <2>10
<1>3. CASE BlackenEnds \/ \E o \in Obj : Hold(o)
  <2>1. phase \in {"black", "white"} /\ UNCHANGED <<color, todo>>
    BY <1>3 DEF BlackenEnds, Hold
  <2>2. BlackNodes \subseteq Reach(slot, Externals)
    BY <2>1, MappedHeap DEF BlackSound, BlackNodes, HeapInv
  <2> QED  BY <2>1, <2>2, <1>s, <1>k DEF BlackSound, BlackNodes
<1> QED  BY SpreadSteps, <1>1, <1>2, <1>3, <1>s, <1>k

-----------------------------------------------------------------------------
(* White nodes                                                             *)

\* While the collector cuts and lets go, slots are only emptied and nothing
\* that is held becomes a native root.
LEMMA CuttingSteps ==
  ASSUME HeapInv, Next, phase \in {"clear", "unhold"}
  PROVE  /\ UNCHANGED <<may, sweep, move, running, busy, mode>>
         /\ \A s \in Slot : slot'[s] # NoObj => slot'[s] = slot[s]
         /\ hold' \subseteq hold
         /\ \/ PopDestroy /\ UNCHANGED <<phase, hold>>
            \/ (\E f \in Field : FreeChild(f)) /\ UNCHANGED <<phase, hold>>
            \/ FreeDone /\ UNCHANGED <<phase, hold>>
            \/ phase = "clear" /\ (\E o \in Obj, f \in Field : ClearSlot(o, f)) /\ UNCHANGED <<phase, hold>>
            \/ phase = "clear" /\ ClearEnds /\ phase' = "unhold" /\ UNCHANGED <<slot, hold>>
            \/ phase = "unhold" /\ (\E o \in Obj : Unhold(o)) /\ UNCHANGED <<phase, slot>>
            \/ phase = "unhold" /\ PassEnds /\ phase' \in {"idle", "pop"} /\ hold = {} /\ UNCHANGED <<slot, hold>>
<1>1. mode = "run" /\ move = NoMove /\ phase # "idle" /\ sweep = NoObj
  BY DEF HeapInv, Staging
<1>2. ~Quiescent
  BY <1>1 DEF Quiescent
<1>3. ~Mutator /\ ~\E all \in BOOLEAN : Collect(all)
  BY <1>2 DEF Mutator, Alloc, StartMove, Drop, Resume, Yield, AsyncRequest, AsyncDispatch, Collect
<1>4. ~Teardown
  BY <1>1, <1>2 DEF Teardown, BeginTeardown, ReleaseRoot, DiscardCompleted, RootsGone, SweepNext,
     SweepChild, SweepDone, EndTeardown, Gone
<1>5. /\ slot \in [Slot -> Obj \cup {NoObj}]
      /\ \A o \in Obj, f \in Field : <<o, f>> \in Slot
      /\ freeing \in Obj \cup {NoObj}
  BY ChildSlots DEF HeapInv, TypeOK
<1>6. CASE Continue
  <2>1. ~MoveCopies /\ ~Unlock /\ ~DropCallback
    BY <1>1 DEF MoveCopies, Unlock, DropCallback, NoMove
  <2>2. ASSUME NEW f \in Field, FreeChild(f)
        PROVE  \A s \in Slot : slot'[s] # NoObj => slot'[s] = slot[s]
    <3>1. <<freeing, f>> \in Slot /\ slot' = [slot EXCEPT ![<<freeing, f>>] = NoObj]
      BY <2>2, <1>5 DEF FreeChild, Release
    <3> QED  BY <3>1, <1>5
  <2>3. PopDestroy \/ (\E f \in Field : FreeChild(f)) \/ FreeDone
    BY <1>6, <2>1 DEF Continue
  <2>4. UNCHANGED <<may, sweep, move, running, busy, mode, phase, hold>>
    BY <2>3 DEF PopDestroy, FreeChild, FreeDone
  <2>5. \A s \in Slot : slot'[s] # NoObj => slot'[s] = slot[s]
    BY <2>2, <2>3 DEF PopDestroy, FreeDone
  <2> QED  BY <2>3, <2>4, <2>5
<1>7. CASE Collector
  <2>1. \/ phase = "clear" /\ (\E o \in Obj, f \in Field : ClearSlot(o, f))
        \/ phase = "clear" /\ ClearEnds
        \/ phase = "unhold" /\ (\E o \in Obj : Unhold(o))
        \/ phase = "unhold" /\ PassEnds
    BY <1>7 DEF Collector, PopRoot, PopEnds, Trace, TraceEnds, Scan, Blacken, BlackenEnds, Hold,
       HoldEnds, ClearSlot, ClearEnds, Unhold, PassEnds
  <2>2. ASSUME NEW o \in Obj, NEW f \in Field, ClearSlot(o, f)
        PROVE  \A s \in Slot : slot'[s] # NoObj => slot'[s] = slot[s]
    <3>1. slot' = [slot EXCEPT ![<<o, f>>] = NoObj]
      BY <2>2 DEF ClearSlot, Release
    <3> QED  BY <3>1, <1>5
  <2>3. CASE \E o \in Obj, f \in Field : ClearSlot(o, f)
    BY <2>1, <2>2, <2>3 DEF ClearSlot
  <2>4. CASE phase = "clear" /\ ClearEnds
    BY <2>4 DEF ClearEnds
  <2>5. CASE phase = "unhold" /\ \E o \in Obj : Unhold(o)
    BY <2>5 DEF Unhold
  <2>6. CASE phase = "unhold" /\ PassEnds
    BY <2>6 DEF PassEnds
  <2> QED  BY <2>1, <2>3, <2>4, <2>5, <2>6
<1> QED  BY <1>3, <1>4, <1>6, <1>7 DEF Next

\* What the spread of black left gray is owned by gray nodes only.
LEMMA WhiteOwners ==
  ASSUME HeapInv, TraceSound, BlackSound, phase = "white"
  PROVE  \A o \in GrayNodes : ~NativeRoot(o) /\ Refs(o) \subseteq GrayNodes \X Field
<1> SUFFICES ASSUME NEW o \in GrayNodes
             PROVE  ~NativeRoot(o) /\ Refs(o) \subseteq GrayNodes \X Field
  OBVIOUS
<1>1. o \in Obj /\ o \in Colored /\ o \notin Externals
  BY DEF GrayNodes, Colored, BlackSound
<1>2. ~NativeRoot(o) /\ scratch[o] = 0
  BY <1>1 DEF Externals
<1>3. Cardinality(Unexplained(o)) = 0
  BY <1>1, <1>2 DEF TraceSound
<1>4. IsFiniteSet(Unexplained(o))
  BY SlotFinite, FS_Subset DEF Unexplained, Refs
<1>5. Unexplained(o) = {}
  BY <1>3, <1>4, FS_EmptySet
<1>6. \A s \in Refs(o) : s \in Traced \X Field
  BY <1>5 DEF Unexplained
<1>7. ASSUME NEW p \in Traced, NEW f \in Field, slot[<<p, f>>] = o
      PROVE  p \in GrayNodes
  <2>1. p \in Obj /\ color[p] # "none" /\ ~NativeRoot(p) /\ p \notin todo
    BY DEF Traced, Colored, TraceSound
  <2>2. o \in Kids(p) /\ color[o] = "gray"
    BY <1>1, <1>7, HeapAssumption DEF Kids, GrayNodes
  <2>3. color[p] # "black"
    BY <2>1, <2>2 DEF BlackSound
  <2> QED  BY <2>1, <2>3 DEF HeapInv, TypeOK, Colors, GrayNodes
<1>8. \A s \in Refs(o) : slot[s] = o
  BY DEF Refs
<1> QED  BY <1>2, <1>6, <1>7, <1>8

LEMMA WhiteStep ==
  ASSUME HeapInv, HeapInv', TraceSound, BlackSound, WhiteSound, Next
  PROVE  WhiteSound'
<1> USE DEF Tracing
<1>1. CASE hold' = {}
  BY <1>1 DEF WhiteSound
<1>2. CASE phase \in {"clear", "unhold"}
  <2>1. \A o \in Obj : NativeRoot(o)' <=> NativeRoot(o)
    BY <1>2, CuttingSteps DEF NativeRoot
  <2>2. \A o \in Obj : Refs(o)' \subseteq Refs(o)
    BY <1>2, CuttingSteps, HeapAssumption DEF Refs
  <2>3. hold \subseteq Obj /\ hold' \subseteq hold
    BY <1>2, CuttingSteps DEF HeapInv, TypeOK
  <2>4. \A o \in hold' : ~NativeRoot(o)'
    BY <2>1, <2>3 DEF WhiteSound
  <2>5. CASE phase' = phase /\ (phase = "clear" => hold' = hold)
    BY <2>2, <2>3, <2>4, <2>5, <1>2 DEF WhiteSound
  <2>6. CASE phase = "clear" /\ ClearEnds /\ phase' = "unhold" /\ UNCHANGED <<slot, hold>>
    <3>1. \A o \in hold : Kids(o) = {}
      BY <2>6 DEF ClearEnds
    <3>2. ASSUME NEW o \in hold, NEW s \in Refs(o)
          PROVE  FALSE
      <4>1. s \in hold \X Field /\ slot[s] = o /\ o # NoObj
        BY <2>3, <2>6, HeapAssumption DEF WhiteSound, Refs
      <4>2. PICK p \in hold, f \in Field : s = <<p, f>>
        BY <4>1
      <4>3. o \in Kids(p)
        BY <4>1, <4>2 DEF Kids
      <4> QED  BY <4>2, <4>3, <3>1
    <3>3. \A o \in hold' : Refs(o)' = {}
      BY <2>6, <3>2 DEF Refs
    <3> QED  BY <2>4, <2>6, <3>3 DEF WhiteSound
  <2>7. CASE phase' \in {"idle", "pop"} /\ hold = {}
    BY <2>3, <2>7, <1>1
  <2> QED  BY <1>2, CuttingSteps, <2>5, <2>6, <2>7
<1>3. CASE phase \in Tracing
  <2>1. CASE ~((\E o \in Obj : Hold(o)) \/ HoldEnds)
    <3>1. hold = {} \/ phase = "white"
      BY <1>3 DEF HeapInv, Staging
    <3>2. phase # "white" /\ UNCHANGED hold
      BY <1>3, <2>1, TracingSteps DEF PopRoot, PopEnds, Trace, TraceEnds, Scan, Blacken, BlackenEnds
    <3> QED  BY <3>1, <3>2, <1>1
  <2>2. ASSUME NEW o \in Obj, Hold(o)
        PROVE  WhiteSound'
    <3>1. /\ phase = "white" /\ phase' = "white" /\ hold' = hold \cup {o} /\ color' = color
          /\ color[o] = "gray"
      BY <2>2 DEF Hold
    <3>2. \A k \in Obj : NativeRoot(k)' <=> NativeRoot(k)
      BY <1>3, TracingSteps DEF NativeRoot
    <3>3. ~NativeRoot(o)
      BY <3>1, WhiteOwners DEF GrayNodes
    <3>4. hold \subseteq Obj
      BY DEF HeapInv, TypeOK
    <3> QED  BY <3>1, <3>2, <3>3, <3>4 DEF WhiteSound
  <2>3. CASE HoldEnds
    <3>1. /\ phase = "white" /\ phase' = "clear" /\ hold' = hold
          /\ \A o \in Obj : color[o] = "gray" => o \in hold
      BY <2>3 DEF HoldEnds
    <3>2. hold = GrayNodes
      BY <3>1 DEF WhiteSound, GrayNodes, HeapInv, TypeOK
    <3>3. \A k \in Obj : (NativeRoot(k)' <=> NativeRoot(k)) /\ Refs(k)' = Refs(k)
      BY <1>3, TracingSteps DEF NativeRoot, Refs
    <3>4. hold \subseteq Obj
      BY DEF HeapInv, TypeOK
    <3> QED  BY <3>1, <3>2, <3>3, <3>4, WhiteOwners DEF WhiteSound
  <2> QED  BY <2>1, <2>2, <2>3
<1>4. CASE phase = "idle"
  <2>1. hold = {}
    BY <1>4 DEF HeapInv, Staging
  <2>2. hold' = {}
    <3>1. CASE Mutator
      BY <2>1, <3>1 DEF Mutator, Alloc, StartMove, Drop, Resume, Yield, AsyncRequest, AsyncDispatch
    <3>2. CASE Continue
      BY <2>1, <3>2 DEF Continue, PopDestroy, FreeChild, FreeDone, MoveCopies, Unlock, DropCallback
    <3>3. CASE \E all \in BOOLEAN : Collect(all)
      BY <2>1, <3>3 DEF Collect
    <3>4. CASE Teardown
      BY <2>1, <3>4 DEF Teardown, BeginTeardown, ReleaseRoot, DiscardCompleted, RootsGone, SweepNext,
         SweepChild, SweepDone, EndTeardown, Gone, vars
    <3>5. ~Collector
      BY <1>4 DEF Collector, PopRoot, PopEnds, Trace, TraceEnds, Scan, Blacken, BlackenEnds,
         Hold, HoldEnds, ClearSlot, ClearEnds, Unhold, PassEnds
    <3> QED  BY <3>1, <3>2, <3>3, <3>4, <3>5 DEF Next
  <2> QED  BY <2>2, <1>1
<1> QED  BY <1>2, <1>3, <1>4 DEF HeapInv, TypeOK, Phases

-----------------------------------------------------------------------------
(* Requests in flight                                                      *)

\* While the VM runs, only these steps are taken.
LEMMA RunSteps ==
  ASSUME HeapInv, Next, mode' = "run"
  PROVE  mode = "run" /\ (Mutator \/ Continue \/ (\E all \in BOOLEAN : Collect(all)) \/ Collector)
<1>1. mode = "run" /\ sweep = NoObj
  BY ModeStep DEF HeapInv, Staging
<1>2. ~Teardown
  BY <1>1 DEF Teardown, BeginTeardown, ReleaseRoot, DiscardCompleted, RootsGone, SweepNext,
     SweepChild, SweepDone, EndTeardown, Gone
<1> QED  BY <1>1, <1>2 DEF Next

\* The slots an instruction names do not belong to asyncs.
LEMMA NotOfAsyncs ==
  ASSUME HeapInv, NEW a \in Obj, KindOf[a] = Asyncs, NEW f \in Field
  PROVE  <<a, f>> \notin Regs \cup Addressable
  BY AddressedOwners DEF HeapInv, Coroutines, Asyncs

\* The two slots of an async.
Shaped(a, e) ==
  /\ \A f \in Field \ {LockField, CallbackField} : e[<<a, f>>] = NoObj
  /\ e[<<a, LockField>>] \in {a, NoObj}
Unlocking(a, e) == e[<<a, LockField>>] = NoObj /\ e[<<a, CallbackField>>] # NoObj

LEMMA AsyncShape ==
  AsyncSound <=>
    (mode = "run" =>
      /\ \A o \in Obj : status[o] = "freeing" => o = freeing
      /\ \A a \in Obj : KindOf[a] = Asyncs =>
           /\ Shaped(a, slot)
           /\ Unlocking(a, slot) => freeing = a \/ move.dst = <<a, CallbackField>>
      /\ move.op = "unlock" => Drained /\ \E a \in Locked(slot, busy) : move.dst = <<a, LockField>>
      /\ move.op = "drop" => \E a \in Obj : move.dst = <<a, CallbackField>>)
  BY DEF AsyncSound, Shaped, Unlocking, Locked, InFlight

LEMMA AsyncShapeNext ==
  AsyncSound' <=>
    (mode' = "run" =>
      /\ \A o \in Obj : status'[o] = "freeing" => o = freeing'
      /\ \A a \in Obj : KindOf[a] = Asyncs =>
           /\ Shaped(a, slot')
           /\ Unlocking(a, slot') => freeing' = a \/ move'.dst = <<a, CallbackField>>
      /\ move'.op = "unlock" => Drained' /\ \E a \in Locked(slot', busy') : move'.dst = <<a, LockField>>
      /\ move'.op = "drop" => \E a \in Obj : move'.dst = <<a, CallbackField>>)
  BY DEF AsyncSound, Shaped, Unlocking, Locked, InFlight

\* Between two handlers no async is half let go of.
LEMMA NoneUnlocking ==
  ASSUME AsyncSound, Quiescent, NEW a \in Obj, KindOf[a] = Asyncs
  PROVE  ~Unlocking(a, slot)
<1>1. <<a, CallbackField>> # NoSlot
  BY HeapAssumption DEF Slot, Inner
<1> QED  BY <1>1, AsyncShape, HeapAssumption DEF Quiescent, Drained, NoMove

LEMMA AsyncStep ==
  ASSUME HeapInv, HeapInv', WhiteSound, AsyncSound, Next
  PROVE  AsyncSound'
<1> SUFFICES ASSUME mode' = "run"
             PROVE  /\ \A o \in Obj : status'[o] = "freeing" => o = freeing'
                    /\ \A a \in Obj : KindOf[a] = Asyncs =>
                         /\ Shaped(a, slot')
                         /\ Unlocking(a, slot') => freeing' = a \/ move'.dst = <<a, CallbackField>>
                    /\ move'.op = "unlock" =>
                         Drained' /\ \E a \in Locked(slot', busy') : move'.dst = <<a, LockField>>
                    /\ move'.op = "drop" => \E a \in Obj : move'.dst = <<a, CallbackField>>
  BY AsyncShapeNext
<1> DEFINE Goal1 == \A o \in Obj : status'[o] = "freeing" => o = freeing'
           Goal2 == \A a \in Obj : KindOf[a] = Asyncs =>
                      /\ Shaped(a, slot')
                      /\ Unlocking(a, slot') => freeing' = a \/ move'.dst = <<a, CallbackField>>
           Goal3 == move'.op = "unlock" =>
                      Drained' /\ \E a \in Locked(slot', busy') : move'.dst = <<a, LockField>>
           Goal4 == move'.op = "drop" => \E a \in Obj : move'.dst = <<a, CallbackField>>
<1>m. mode = "run"
  BY RunSteps
<1>o. /\ \A o \in Obj : status[o] = "freeing" => o = freeing
      /\ \A a \in Obj : KindOf[a] = Asyncs =>
           /\ Shaped(a, slot)
           /\ Unlocking(a, slot) => freeing = a \/ move.dst = <<a, CallbackField>>
      /\ move.op = "unlock" => Drained /\ \E a \in Locked(slot, busy) : move.dst = <<a, LockField>>
      /\ move.op = "drop" => \E a \in Obj : move.dst = <<a, CallbackField>>
  BY <1>m, AsyncShape
<1>t. /\ TypeOK /\ slot \in [Slot -> Obj \cup {NoObj}] /\ freeing \in Obj \cup {NoObj} /\ NoObj \notin Obj
      /\ status \in [Obj -> {"free", "live", "freeing"}]
      /\ \A a \in Obj, f \in Field : <<a, f>> \in Slot
      /\ LockField \in Field /\ CallbackField \in Field
  BY HeapAssumption, ChildSlots DEF HeapInv, TypeOK
<1>q. Quiescent => move.op = "none" /\ freeing = NoObj /\ \A a \in Obj : KindOf[a] = Asyncs => ~Unlocking(a, slot)
  BY NoneUnlocking DEF Quiescent, NoMove, Drained
\* Slots of asyncs stay, and so does what may be letting go of one.
<1>1. ASSUME \A a \in Obj, f \in Field : KindOf[a] = Asyncs => slot'[<<a, f>>] = slot[<<a, f>>],
             UNCHANGED <<freeing, move>> \/ Quiescent
      PROVE  Goal2
  <2>1. \A a \in Obj : KindOf[a] = Asyncs => (Unlocking(a, slot') <=> Unlocking(a, slot))
    BY <1>1, <1>t DEF Unlocking
  <2>2. \A a \in Obj : KindOf[a] = Asyncs => Shaped(a, slot')
    BY <1>1, <1>t, <1>o DEF Shaped
  <2> QED  BY <1>1, <2>1, <2>2, <1>o, <1>q
<1>2. ASSUME NEW s \in Slot, Release(s), \A a \in Obj, f \in Field : KindOf[a] = Asyncs => <<a, f>> # s
      PROVE  \A a \in Obj, f \in Field : KindOf[a] = Asyncs => slot'[<<a, f>>] = slot[<<a, f>>]
  BY <1>2, <1>t DEF Release
<1>3. ASSUME NEW s \in Slot, Release(s), NEW a \in Obj, KindOf[a] = Asyncs
      PROVE  /\ Shaped(a, slot')
             /\ Unlocking(a, slot') => Unlocking(a, slot) \/ s = <<a, LockField>>
  <2>1. \A f \in Field : slot'[<<a, f>>] \in {slot[<<a, f>>], NoObj}
    BY <1>3, <1>t DEF Release
  <2>2. s # <<a, LockField>> => slot'[<<a, LockField>>] = slot[<<a, LockField>>]
    BY <1>3, <1>t DEF Release
  <2> QED  BY <1>3, <2>1, <2>2, <1>o, <1>t DEF Shaped, Unlocking
<1>4. CASE Mutator
  <2>q. Quiescent
    BY <1>4 DEF Mutator, Alloc, StartMove, Drop, Resume, Yield, AsyncRequest, AsyncDispatch
  <2>1. ASSUME NEW o \in Obj, NEW d \in Slot, Alloc(o, d)
        PROVE  Goal1 /\ Goal2 /\ Goal3 /\ Goal4
    <3>1. d \in Regs /\ Release(d) /\ freeing' = freeing /\ move'.op = "new" /\ status' = [status EXCEPT ![o] = "live"]
      BY <2>1 DEF Alloc
    <3>2. \A a \in Obj, f \in Field : KindOf[a] = Asyncs => <<a, f>> # d
      BY <3>1, NotOfAsyncs
    <3>3. Goal2
      BY <1>1, <1>2, <2>q, <3>1, <3>2
    <3> QED  BY <3>1, <3>3, <1>o, <1>t
  <2>2. ASSUME NEW d \in Slot, NEW s \in Slot, StartMove(d, s)
        PROVE  Goal1 /\ Goal2 /\ Goal3 /\ Goal4
    <3>1. d \in Regs \cup Addressable /\ Release(d) /\ UNCHANGED <<freeing, status>> /\ move'.op = "copy"
      BY <2>2 DEF StartMove
    <3>2. \A a \in Obj, f \in Field : KindOf[a] = Asyncs => <<a, f>> # d
      BY <3>1, NotOfAsyncs
    <3>3. Goal2
      BY <1>1, <1>2, <2>q, <3>1, <3>2
    <3> QED  BY <3>1, <3>3, <1>o
  <2>3. ASSUME NEW s \in Slot, Drop(s)
        PROVE  Goal1 /\ Goal2 /\ Goal3 /\ Goal4
    <3>1. s \in Regs \cup Addressable /\ Release(s) /\ UNCHANGED <<freeing, status, move>>
      BY <2>3 DEF Drop
    <3>2. \A a \in Obj, f \in Field : KindOf[a] = Asyncs => <<a, f>> # s
      BY <3>1, NotOfAsyncs
    <3>3. Goal2
      BY <1>1, <1>2, <2>q, <3>1, <3>2
    <3> QED  BY <3>1, <3>3, <1>o, <1>q, <2>q
  <2>4. CASE (\E r \in Slot : Resume(r)) \/ Yield
    <3>1. UNCHANGED <<slot, status, freeing, move>>
      BY <2>4 DEF Resume, Yield
    <3>2. Goal2
      BY <1>1, <3>1
    <3> QED  BY <3>1, <3>2, <1>o, <1>q, <2>q
  <2>5. ASSUME NEW r \in Slot, NEW c \in Slot \cup {NoSlot}, AsyncRequest(r, c)
        PROVE  Goal1 /\ Goal2 /\ Goal3 /\ Goal4
    <3> DEFINE a == slot[r]
    <3>1. a \in Obj /\ KindOf[a] = Asyncs /\ a \notin busy /\ UNCHANGED <<status, freeing, move>>
      BY <2>5, <1>t DEF AsyncRequest
    <3>2. slot' = [slot EXCEPT ![<<a, CallbackField>>] = Callback(c), ![<<a, LockField>>] = a]
      BY <2>5 DEF AsyncRequest
    <3> HIDE DEF a
    <3>3. LockField # CallbackField
      BY <3>1, HeapAssumption
    <3>4. \A k \in Obj, f \in Field : k # a => slot'[<<k, f>>] = slot[<<k, f>>]
      BY <3>2, <1>t
    <3>5. slot'[<<a, LockField>>] = a
      BY <3>1, <3>2, <1>t
    <3>6. \A f \in Field \ {LockField, CallbackField} : slot'[<<a, f>>] = slot[<<a, f>>]
      BY <3>1, <3>2, <1>t
    <3>7. Shaped(a, slot') /\ ~Unlocking(a, slot')
      BY <3>1, <3>5, <3>6, <1>o, <1>t DEF Shaped, Unlocking
    <3>8. \A k \in Obj : k # a /\ KindOf[k] = Asyncs => Shaped(k, slot') /\ ~Unlocking(k, slot')
      BY <3>4, <1>o, <1>t, <1>q, <2>q DEF Shaped, Unlocking
    <3> QED  BY <3>1, <3>7, <3>8, <1>o, <1>q, <2>q
  <2>6. ASSUME NEW a \in Obj, NEW d \in Slot, AsyncDispatch(a, d)
        PROVE  Goal1 /\ Goal2 /\ Goal3 /\ Goal4
    <3>1. /\ d \in Regs /\ UNCHANGED <<busy, status, freeing, destroyQ>> /\ a \in busy
          /\ slot[<<a, LockField>>] = a
          /\ move'.op = "unlock" /\ move'.dst = <<a, LockField>>
          /\ \A s \in Slot : s # d => slot'[s] = slot[s]
      BY <2>6, AddressedSlots, <1>t DEF AsyncDispatch
    <3>2. \A k \in Obj, f \in Field : KindOf[k] = Asyncs => <<k, f>> # d
      BY <3>1, NotOfAsyncs
    <3>3. Goal2
      BY <1>1, <2>q, <3>1, <3>2, <1>t
    <3>4. KindOf[a] = Asyncs
      BY <3>1 DEF HeapInv, RequestsSound
    <3>5. slot'[<<a, LockField>>] = a /\ a \in busy'
      BY <3>1, <3>2, <3>4, <1>t
    <3>6. Drained'
      BY <3>1, <2>q DEF Quiescent, Drained
    <3> QED  BY <3>1, <3>3, <3>5, <3>6, <1>o DEF Locked
  <2> QED  BY <1>4, <2>1, <2>2, <2>3, <2>4, <2>5, <2>6 DEF Mutator
<1>5. CASE Continue
  <2>1. CASE PopDestroy
    <3>1. freeing = NoObj /\ ~Drained /\ UNCHANGED <<slot, move>>
      BY <2>1 DEF PopDestroy, Drained
    <3>2. \/ UNCHANGED <<status, freeing>>
          \/ status' = [status EXCEPT ![Last(destroyQ)] = "freeing"] /\ freeing' = Last(destroyQ)
      BY <2>1, Zenon DEF PopDestroy
    <3>3. Goal1
      BY <3>1, <3>2, <1>o, <1>t
    <3> QED  BY <3>1, <3>2, <3>3, <1>o, <1>t
  <2>2. ASSUME NEW f \in Field, FreeChild(f)
        PROVE  Goal1 /\ Goal2 /\ Goal3 /\ Goal4
    <3>1. freeing # NoObj /\ ~Drained /\ Release(<<freeing, f>>) /\ UNCHANGED <<status, freeing, move>>
      BY <2>2 DEF FreeChild, Drained
    <3>2. Goal2
      BY <3>1, <1>3, <1>o, <1>t
    <3> QED  BY <3>1, <3>2, <1>o
  <2>3. CASE FreeDone
    <3>1. /\ freeing \in Obj /\ ~Drained /\ UNCHANGED <<slot, move>> /\ Kids(freeing) = {}
          /\ status' = [status EXCEPT ![freeing] = "free"]
      BY <2>3, <1>t DEF FreeDone, Drained
    <3>2. ~Unlocking(freeing, slot)
      BY <3>1, <1>t DEF Unlocking, Kids
    <3> QED  BY <3>1, <3>2, <1>o, <1>t
  <2>4. CASE MoveCopies
    <3>1. /\ Drained /\ move.op \in {"copy", "new"} /\ move' = NoMove /\ UNCHANGED <<status, freeing>>
          /\ \A s \in Slot : s # move.dst => slot'[s] = slot[s]
          /\ move.dst \in Regs \cup Addressable
      BY <2>4, <1>t DEF MoveCopies, HeapInv, MoveSound
    <3>2. \A a \in Obj, f \in Field : KindOf[a] = Asyncs =>
            <<a, f>> # move.dst /\ slot'[<<a, f>>] = slot[<<a, f>>]
      BY <3>1, NotOfAsyncs, <1>t
    <3>3. \A a \in Obj : KindOf[a] = Asyncs =>
            ~Unlocking(a, slot) /\ (Unlocking(a, slot') <=> Unlocking(a, slot)) /\ Shaped(a, slot')
      BY <3>1, <3>2, <1>o, <1>t DEF Drained, Unlocking, Shaped
    <3> QED  BY <3>1, <3>3, <1>o DEF NoMove
  <2>5. CASE Unlock
    <3>1. PICK a \in Locked(slot, busy) : move.dst = <<a, LockField>>
      BY <2>5, <1>o DEF Unlock
    <3>2. a \in Obj /\ KindOf[a] = Asyncs
      BY <3>1 DEF Locked, HeapInv, TypeOK, RequestsSound
    <3>3. /\ Drained /\ Release(<<a, LockField>>) /\ UNCHANGED <<status, freeing>>
          /\ move'.op = "drop" /\ move'.dst = <<a, CallbackField>>
      BY <2>5, <3>1 DEF Unlock
    <3>4. move.dst # <<a, CallbackField>> /\ \A k \in Obj : k # a => move.dst # <<k, CallbackField>>
      BY <3>1, <3>2, HeapAssumption
    <3>5. \A k \in Obj : KindOf[k] = Asyncs => ~Unlocking(k, slot)
      BY <3>3, <3>4, <1>o, <1>t DEF Drained
    <3>6. \A k \in Obj : KindOf[k] = Asyncs => Shaped(k, slot') /\ (Unlocking(k, slot') => k = a)
      BY <3>2, <3>3, <3>5, <1>3, <1>t
    <3> QED  BY <3>2, <3>3, <3>6, <1>o
  <2>6. CASE DropCallback
    <3>1. PICK a \in Obj : move.dst = <<a, CallbackField>>
      BY <2>6, <1>o DEF DropCallback
    <3>2. Drained /\ Release(<<a, CallbackField>>) /\ UNCHANGED <<status, freeing>> /\ move' = NoMove
      BY <2>6, <3>1 DEF DropCallback
    <3>3. ~Unlocking(a, slot')
      BY <3>2, <1>t DEF Unlocking, Release
    <3>4. ASSUME NEW k \in Obj, KindOf[k] = Asyncs
          PROVE  Shaped(k, slot') /\ ~Unlocking(k, slot')
      <4>1. CASE LockField = CallbackField
        BY <3>4, <4>1, HeapAssumption
      <4>2. CASE LockField # CallbackField
        <5>1. Shaped(k, slot') /\ (Unlocking(k, slot') => Unlocking(k, slot))
          BY <3>2, <3>4, <4>2, <1>3, <1>t
        <5> QED  BY <5>1, <3>1, <3>2, <3>3, <3>4, <1>o, <1>t DEF Drained
      <4> QED  BY <4>1, <4>2
    <3> QED  BY <3>2, <3>4, <1>o DEF NoMove
  <2> QED  BY <1>5, <2>1, <2>2, <2>3, <2>4, <2>5, <2>6 DEF Continue
<1>6. CASE \E all \in BOOLEAN : Collect(all)
  <2>1. UNCHANGED <<slot, status, freeing, destroyQ, busy, move>>
    BY <1>6 DEF Collect
  <2> QED  BY <2>1, <1>o DEF Drained
<1>7. CASE Collector
  <2>1. move = NoMove
    BY <1>7 DEF HeapInv, Staging, Collector, PopRoot, PopEnds, Trace, TraceEnds, Scan, Blacken,
       BlackenEnds, Hold, HoldEnds, ClearSlot, ClearEnds, Unhold, PassEnds
  <2>2. UNCHANGED <<status, freeing, move>>
    BY <1>7 DEF Collector, PopRoot, PopEnds, Trace, TraceEnds, Scan, Blacken,
       BlackenEnds, Hold, HoldEnds, ClearSlot, ClearEnds, Unhold, PassEnds
  <2>3. ASSUME NEW o \in Obj, NEW f \in Field, ClearSlot(o, f)
        PROVE  \A a \in Obj, h \in Field : KindOf[a] = Asyncs => slot'[<<a, h>>] = slot[<<a, h>>]
    <3>1. slot' = [slot EXCEPT ![<<o, f>>] = NoObj] /\ o \in hold /\ slot[<<o, f>>] # NoObj
      BY <2>3 DEF ClearSlot, Release
    <3>2. ~NativeRoot(o)
      BY <3>1 DEF WhiteSound
    <3>3. KindOf[o] # Asyncs
      BY <3>1, <3>2, <1>m DEF NativeRoot, HeapInv, RequestsSound
    <3> QED  BY <3>1, <3>3, <1>t
  <2>4. (\E o \in Obj, f \in Field : ClearSlot(o, f)) \/ UNCHANGED slot
    BY <1>7 DEF Collector, PopRoot, PopEnds, Trace, TraceEnds, Scan, Blacken,
       BlackenEnds, Hold, HoldEnds, ClearEnds, Unhold, PassEnds
  <2>5. \A a \in Obj, h \in Field : KindOf[a] = Asyncs => slot'[<<a, h>>] = slot[<<a, h>>]
    BY <2>3, <2>4
  <2>6. Goal2
    BY <1>1, <2>2, <2>5
  <2> QED  BY <2>1, <2>2, <2>6, <1>o DEF NoMove
<1> QED  BY RunSteps, <1>4, <1>5, <1>6, <1>7

-----------------------------------------------------------------------------
(* All garbage can be found                                                *)

Alive == {o \in Obj : status[o] = "live"}
Hands ==
  CASE phase = "black" -> Colored \ Reach(slot, Externals)
    [] phase = "white" -> GrayNodes
    [] phase \in {"clear", "unhold"} -> hold
    [] OTHER -> Colored
Anchored == RootsNow \cup Dying \cup Queued \cup Hands
Found    == Reach(slot, Anchored)

\* Findable, stated over the slots alone.
LEMMA FindableNow ==
  ASSUME TypeOK
  PROVE  /\ Findable <=> (mode = "run" => Alive \subseteq Found)
         /\ Anchored \subseteq Obj /\ Anchored \subseteq Found /\ Found \subseteq Obj /\ Shut(slot, Found)
<1>1. InHand = Hands
  BY MappedHeap DEF InHand, Hands, GrayNodes
<1>2. Anchors = Anchored
  BY <1>1, MappedHeap DEF Anchors, Anchored
<1>3. Hands \subseteq Obj /\ Dying \subseteq Obj
  BY DEF Hands, Dying, Colored, GrayNodes, TypeOK, ToSet
<1>4. Anchored \subseteq Obj
  BY <1>3, MappedHeap, QueuedFinite DEF Anchored
<1> QED  BY <1>2, <1>4, MappedHeap, ReachShut DEF Findable, Alive, Found

LEMMA FindableNext ==
  ASSUME TypeOK'
  PROVE  /\ Findable' <=> (mode' = "run" => Alive' \subseteq Found')
         /\ Anchored' \subseteq Obj /\ Anchored' \subseteq Found' /\ Found' \subseteq Obj
         /\ Shut(slot', Found')
<1>1. InHand' = Hands'
  BY MappedHeapNext DEF InHand, Hands, GrayNodes
<1>2. Anchors' = Anchored'
  BY <1>1, MappedHeapNext DEF Anchors, Anchored
<1>3. Abstract!Closure(Anchors)' = Found'
  BY <1>2, MappedHeapNext DEF Found
<1>4. Hands' \subseteq Obj /\ Dying' \subseteq Obj /\ Queued' \subseteq Obj
  BY DEF Hands, Dying, Queued, Colored, GrayNodes, TypeOK, ToSet
<1>5. Anchored' \subseteq Obj
  BY <1>4, MappedHeapNext DEF Anchored
<1> QED  BY <1>3, <1>5, MappedHeapNext, ReachShut DEF Findable, Alive, Found

\* A step that empties no slot keeps everything in sight whose anchor is.
LEMMA KeepsFound ==
  ASSUME HeapInv, HeapInv', Findable, mode = "run", Anchored \subseteq Found',
         \A s \in Slot : slot[s] # NoObj => slot'[s] = slot[s],
         Alive' \subseteq Alive \cup Found'
  PROVE  Findable'
<1>1. slot \in Edges /\ slot' \in Edges /\ Anchored \subseteq Obj /\ Found' \subseteq Obj
  BY MappedHeap, MappedHeapNext, FindableNow, FindableNext DEF HeapInv
<1>2. Reach(slot, Anchored) \subseteq Reach(slot', Anchored \cup {})
  BY <1>1, ReachCut
<1>3. Anchored \cup {} = Anchored
  OBVIOUS
<1>4. Reach(slot', Anchored) \subseteq Found'
  BY <1>1, ReachWithin, FindableNext DEF Found, HeapInv
<1>5. Alive \subseteq Reach(slot, Anchored)
  BY FindableNow DEF Found, HeapInv
<1> QED  BY <1>2, <1>3, <1>4, <1>5, FindableNext DEF HeapInv

\* A step that empties one slot does if what the slot led to is found again,
\* or leads nowhere and has another owner.
LEMMA CutKeepsFound ==
  ASSUME HeapInv, HeapInv', Findable, mode = "run", NEW s \in Slot, NEW v \in Obj, slot[s] = v,
         \A t \in Slot : slot'[t] = IF t = s THEN NoObj ELSE slot[t],
         Anchored \subseteq Found' \cup {v},
         Alive' \subseteq Alive \cup Found',
         \/ v \in Found'
         \/ /\ \A f \in Field : slot[<<v, f>>] = NoObj
            /\ \E t \in Slot : /\ slot'[t] = v
                               /\ t \notin Root => t[1] \in Alive \cup Found'
  PROVE  Findable'
<1>1. /\ slot \in Edges /\ slot' \in Edges /\ Anchored \subseteq Obj /\ Found' \subseteq Obj
      /\ Alive \subseteq Reach(slot, Anchored) /\ NoObj \notin Obj
  BY MappedHeap, MappedHeapNext, FindableNow, FindableNext, HeapAssumption DEF HeapInv, Found
<1> DEFINE T == Found' \cup {v}
<1>2. T \in SUBSET Obj /\ Anchored \subseteq T
  BY <1>1
<1>3. ASSUME Shut(slot, T)
      PROVE  Alive \subseteq T
  BY <1>1, <1>2, <1>3, ReachLeast
<1>4. CASE v \in Found'
  <2>1. Shut(slot, T)
    <3> SUFFICES ASSUME NEW p \in Found', NEW f \in Field, slot[<<p, f>>] # NoObj
                 PROVE  slot[<<p, f>>] \in Found'
      BY <1>4 DEF Shut
    <3>1. <<p, f>> \in Slot
      BY <1>1 DEF Slot, Inner
    <3> QED  BY <3>1, <1>4, FindableNext DEF HeapInv, Shut
  <2> QED  BY <2>1, <1>3, <1>4, FindableNext DEF HeapInv
<1>5. CASE /\ \A f \in Field : slot[<<v, f>>] = NoObj
           /\ \E t \in Slot : slot'[t] = v /\ (t \notin Root => t[1] \in Alive \cup Found')
  <2>1. Shut(slot, T)
    <3> SUFFICES ASSUME NEW p \in Found', NEW f \in Field, slot[<<p, f>>] # NoObj
                 PROVE  slot[<<p, f>>] \in T
      BY <1>5 DEF Shut
    <3>1. <<p, f>> \in Slot
      BY <1>1 DEF Slot, Inner
    <3>2. CASE <<p, f>> = s
      BY <3>2
    <3>3. CASE <<p, f>> # s
      BY <3>1, <3>3, FindableNext DEF HeapInv, Shut
    <3> QED  BY <3>2, <3>3
  <2>2. Alive \subseteq T
    BY <2>1, <1>3
  <2>3. PICK t \in Slot : slot'[t] = v /\ (t \notin Root => t[1] \in Alive \cup Found')
    BY <1>5
  <2>4. v \in Found'
    <3>1. CASE t \in Root
      <4>1. v \in RootsNow'
        BY <2>3, <3>1, <1>1 DEF RootsNow, Roots
      <4> QED  BY <4>1, FindableNext DEF HeapInv, Anchored
    <3>2. CASE t \notin Root
      <4>1. PICK p \in Obj, f \in Field : t = <<p, f>>
        BY <3>2 DEF Slot, Inner
      <4>2. p \in Alive \cup Found'
        BY <2>3, <3>2, <4>1
      <4>3. slot[t] = v
        BY <2>3, <1>1
      <4>4. p # v
        BY <4>1, <4>3, <1>5, <1>1
      <4>5. p \in Found'
        BY <4>2, <4>4, <2>2
      <4> QED  BY <4>1, <4>5, <2>3, <1>1, FindableNext DEF HeapInv, Shut
    <3> QED  BY <3>1, <3>2
  <2> QED  BY <2>2, <2>4, FindableNext DEF HeapInv
<1> QED  BY <1>4, <1>5

\* Emptying one slot takes at most what it led to from the roots.
LEMMA RootsCut ==
  ASSUME HeapInv, HeapInv', NEW s \in Slot,
         \A t \in Slot : slot'[t] = IF t = s THEN NoObj ELSE slot[t],
         running' = running, Locked(slot, busy) \subseteq Locked(slot, busy'),
         move.new = NoObj \/ move'.new = move.new
  PROVE  RootsNow \subseteq Found' \cup {slot[s]}
<1>1. RootsNow' \subseteq Found'
  BY FindableNext DEF HeapInv, Anchored
<1>2. \A t \in Root : t \in Slot
  BY DEF Slot
<1>3. \A a \in Locked(slot, busy') : a \in Locked(slot', busy') \/ slot[s] = a
  <2>1. \A a \in Obj : <<a, LockField>> \in Slot
    BY HeapAssumption, ChildSlots DEF HeapInv
  <2>2. busy' \subseteq Obj
    BY DEF HeapInv, TypeOK
  <2> QED  BY <2>1, <2>2 DEF Locked
<1>4. ASSUME NEW o \in RootsNow, o # slot[s]
      PROVE  o \in RootsNow'
  <2>1. o # NoObj
    BY DEF RootsNow, Roots
  <2>2. ASSUME NEW t \in Root, o = slot[t]
        PROVE  o \in RootsNow'
    <3>1. slot'[t] = o
      BY <1>2, <1>4, <2>2
    <3> QED  BY <2>1, <2>2, <3>1 DEF RootsNow, Roots
  <2>3. CASE o \in ToSet(running) \/ o \in Locked(slot, busy) \/ o = move.new
    BY <1>3, <1>4, <2>1, <2>3 DEF RootsNow, Roots
  <2> QED  BY <2>2, <2>3 DEF RootsNow, Roots
<1> QED  BY <1>1, <1>4

\* Var_Release loses sight of nothing: what it uncounts is destroyed, gets a
\* ticket, or leads nowhere and has another owner.
LEMMA ReleaseKeepsFound ==
  ASSUME HeapInv, HeapInv', AsyncSound, Findable, mode = "run", NEW s \in Slot, Release(s),
         Hands \subseteq Found', hold \subseteq Hands, hold' = hold, freeing' = freeing,
         RootsNow \subseteq Found' \cup {slot[s]},
         Alive' \subseteq Alive \cup Found'
  PROVE  Findable'
<1>t. /\ TypeOK /\ TypeOK' /\ RefCountExact /\ slot \in [Slot -> Obj \cup {NoObj}] /\ NoObj \notin Obj
      /\ Tickets(cand) /\ RootsNow \subseteq Obj
  BY TicketsFact, MappedHeap, HeapAssumption DEF HeapInv, TypeOK
<1>a. RootsNow' \cup Dying' \cup Queued' \cup Hands' \subseteq Found'
  BY FindableNext, <1>t DEF Anchored
<1>1. CASE slot[s] = NoObj
  <2>1. slot' = slot /\ destroyQ' = destroyQ /\ cand' = cand
    BY <1>1, <1>t, ReleaseCases
  <2>2. Dying' = Dying /\ Queued' = Queued
    BY <2>1 DEF Dying, Queued
  <2>3. Anchored \subseteq Found'
    BY <1>1, <1>a, <1>t, <2>2 DEF Anchored
  <2> QED  BY <2>1, <2>3, KeepsFound
<1>2. CASE slot[s] # NoObj
  <2>1. PICK v \in Obj : v = slot[s]
    BY <1>2, <1>t
  <2>2. /\ \A t \in Slot : slot'[t] = IF t = s THEN NoObj ELSE slot[t]
        /\ rc' = [rc EXCEPT ![v] = @ - 1]
        /\ rc[v] <= 1 => destroyQ' = Append(destroyQ, v) /\ cand' = cand
        /\ rc[v] > 1 => destroyQ' = destroyQ /\ cand' = CycleCheck(v)
    BY <1>2, <2>1, <1>t, ReleaseCases
  <2>3. rc[v] \in Int /\ rc'[v] = rc[v] - 1
    BY <2>2 DEF HeapInv, TypeOK
  <2>4. Dying \subseteq Dying' /\ (rc[v] <= 1 => v \in Dying')
    <3>1. destroyQ \in Seq(Obj)
      BY <1>t DEF TypeOK
    <3>2. ToSet(Append(destroyQ, v)) = ToSet(destroyQ) \cup {v}
      BY <3>1, AppendFacts
    <3>3. CASE rc[v] <= 1
      BY <2>2, <3>2, <3>3 DEF Dying
    <3>4. CASE rc[v] > 1
      <4>1. destroyQ' = destroyQ
        BY <2>2, <3>4
      <4> QED  BY <2>3, <3>4, <4>1 DEF Dying
    <3> QED  BY <2>3, <3>3, <3>4
  <2>5. Queued \subseteq Queued'
    <3>1. \A k \in Kind : ToSet(cand[k]) \subseteq ToSet(CycleCheck(v)[k])
      BY <1>t, CycleCheckFacts
    <3> QED  BY <2>2, <2>3, <3>1 DEF Queued
  <2>6. Anchored \subseteq Found' \cup {v}
    BY <2>1, <2>4, <2>5, <1>a DEF Anchored
  <2>7. CASE rc[v] <= 1 \/ v \in hold
    <3>1. v \in Found'
      BY <2>4, <2>7, <1>a
    <3> QED  BY <2>1, <2>2, <2>6, <3>1, CutKeepsFound
  <2>8. CASE rc[v] > 1 /\ v \notin hold /\ (may[v] \/ v \in Queued)
    <3>1. v \in Queued'
      <4>1. CASE v \in Queued
        BY <4>1, <2>5
      <4>2. CASE v \notin Queued
        <5>1. KindOf[v] \in Kind /\ cand[KindOf[v]] \in Seq(Obj)
          BY HeapAssumption DEF HeapInv, TypeOK
        <5>2. cand' = [cand EXCEPT ![KindOf[v]] = Append(@, v)]
          BY <2>2, <2>8, <4>2 DEF CycleCheck
        <5>3. cand'[KindOf[v]] = Append(cand[KindOf[v]], v)
          BY <5>1, <5>2 DEF HeapInv, TypeOK
        <5>4. v \in ToSet(cand'[KindOf[v]])
          BY <5>1, <5>3, AppendFacts
        <5> QED  BY <5>1, <5>4 DEF Queued
      <4> QED  BY <4>1, <4>2
    <3> QED  BY <3>1, <1>a, <2>1, <2>2, <2>6, CutKeepsFound
  <2>9. CASE rc[v] > 1 /\ v \notin hold /\ ~may[v]
    <3>1. \A f \in Field : slot[<<v, f>>] = NoObj
      BY <2>9 DEF HeapInv, MaySound
    <3>2. rc'[v] = Cardinality(Refs(v)') + 0 /\ rc'[v] # 0
      BY <2>3, <2>9 DEF HeapInv, RefCountExact, Held
    <3>3. Refs(v)' # {}
      BY <3>2, FS_EmptySet
    <3>4. PICK t \in Slot : slot'[t] = v
      BY <3>3 DEF Refs
    <3>5. ASSUME t \notin Root
          PROVE  t[1] \in Alive \cup Found'
      <4>1. PICK p \in Obj, f \in Field : t = <<p, f>>
        BY <3>5 DEF Slot, Inner
      <4>2. slot[<<p, f>>] = v
        BY <2>2, <3>4, <4>1, <1>t
      <4>3. status[p] # "free"
        BY <4>2, <1>t DEF HeapInv, SlotsSound
      <4>4. status[p] = "live" \/ p = freeing
        BY <4>3 DEF AsyncSound, HeapInv, TypeOK
      <4>5. p = freeing => p \in Dying'
        BY <1>t DEF Dying
      <4> QED  BY <4>1, <4>4, <4>5, <1>a DEF Alive
    <3> QED  BY <2>1, <2>2, <2>6, <3>1, <3>4, <3>5, CutKeepsFound
  <2> QED  BY <2>3, <2>7, <2>8, <2>9
<1> QED  BY <1>1, <1>2

\* References that are only added take no root away.
LEMMA RootsGrow ==
  ASSUME TypeOK, \A s \in Slot : slot[s] # NoObj => slot'[s] = slot[s],
         ToSet(running) \subseteq ToSet(running'), busy \subseteq busy',
         move.new = NoObj \/ move'.new = move.new
  PROVE  RootsNow \subseteq RootsNow'
<1>1. \A t \in Root : t \in Slot
  BY DEF Slot
<1>2. Locked(slot, busy) \subseteq Locked(slot', busy')
  <2>1. \A a \in Obj : <<a, LockField>> \in Slot
    BY HeapAssumption, ChildSlots
  <2>2. busy \subseteq Obj /\ NoObj \notin Obj
    BY HeapAssumption DEF TypeOK
  <2> QED  BY <2>1, <2>2 DEF Locked
<1>3. ASSUME NEW o \in RootsNow
      PROVE  o \in RootsNow'
  <2>1. o # NoObj
    BY DEF RootsNow, Roots
  <2>2. ASSUME NEW t \in Root, o = slot[t]
        PROVE  o \in RootsNow'
    BY <1>1, <2>1, <2>2 DEF RootsNow, Roots
  <2>3. CASE o \in ToSet(running) \/ o \in Locked(slot, busy) \/ o = move.new
    BY <1>2, <2>1, <2>3 DEF RootsNow, Roots
  <2> QED  BY <2>2, <2>3 DEF RootsNow, Roots
<1> QED  BY <1>3

\* No instruction loses sight of a container.
LEMMA MutatorFinds ==
  ASSUME HeapInv, HeapInv', AsyncSound, Findable, Mutator
  PROVE  Findable'
<1>t. /\ TypeOK /\ TypeOK' /\ slot \in [Slot -> Obj \cup {NoObj}] /\ NoObj \notin Obj
      /\ Frame \subseteq Slot /\ Regs \subseteq Slot /\ Addressable \subseteq Slot
  BY HeapAssumption, AddressedSlots DEF HeapInv, TypeOK
<1>1. /\ Quiescent /\ UNCHANGED <<phase, color, hold, freeing>>
  BY DEF Mutator, Alloc, StartMove, Drop, Resume, Yield, AsyncRequest, AsyncDispatch
<1>2. mode = "run" /\ move.new = NoObj /\ phase = "idle" /\ destroyQ = <<>> /\ freeing = NoObj
  BY <1>1 DEF Quiescent, Drained, NoMove
<1>3. hold = {} /\ Colored = {} /\ Colored' = {}
  BY <1>1, <1>2 DEF HeapInv, Staging, Colored
<1>4. Hands = {} /\ Hands' = {}
  BY <1>1, <1>2, <1>3 DEF Hands
<1>5. Dying = {}
  BY <1>2 DEF Dying, ToSet
<1>6. RootsNow' \subseteq Found' /\ Queued' \subseteq Found' /\ Shut(slot', Found')
  BY FindableNext, <1>t DEF Anchored
<1>7. ASSUME NEW s \in Slot, Release(s), RootsNow \subseteq Found' \cup {slot[s]},
             Alive' \subseteq Alive \cup Found'
      PROVE  Findable'
  BY <1>1, <1>2, <1>3, <1>4, <1>7, ReleaseKeepsFound
<1>8. ASSUME \A s \in Slot : slot[s] # NoObj => slot'[s] = slot[s], UNCHANGED <<status, cand>>,
             RootsNow \subseteq Found'
      PROVE  Findable'
  <2>1. Alive' = Alive /\ Queued' = Queued
    BY <1>8 DEF Alive, Queued
  <2>2. Anchored \subseteq Found'
    BY <1>4, <1>5, <1>6, <1>8, <2>1 DEF Anchored
  <2> QED  BY <1>2, <1>8, <2>1, <2>2, KeepsFound
<1>9. ASSUME NEW o \in Obj, NEW d \in Slot, Alloc(o, d)
      PROVE  Findable'
  <2>1. /\ Release(d) /\ running' = running /\ busy' = busy \ {o} /\ status[o] = "free"
        /\ status' = [status EXCEPT ![o] = "live"] /\ move'.new = o
    BY <1>9 DEF Alloc
  <2>2. o \in RootsNow'
    BY <2>1, <1>t DEF RootsNow, Roots
  <2>3. Alive' \subseteq Alive \cup Found'
    BY <1>6, <2>1, <2>2, <1>t DEF Alive, TypeOK
  <2>4. slot[<<o, LockField>>] = NoObj
    BY <1>2, <2>1, HeapAssumption DEF HeapInv, SlotsSound
  <2>5. Locked(slot, busy) \subseteq Locked(slot, busy')
    BY <2>1, <2>4, <1>t DEF Locked
  <2>6. \A t \in Slot : slot'[t] = IF t = d THEN NoObj ELSE slot[t]
    BY <2>1, <1>t, ReleaseCases
  <2>7. RootsNow \subseteq Found' \cup {slot[d]}
    BY <1>2, <2>1, <2>5, <2>6, RootsCut
  <2> QED  BY <1>7, <2>1, <2>3, <2>7
<1>10. ASSUME NEW s \in Slot, Release(s), UNCHANGED <<running, busy, status>>
       PROVE  Findable'
  <2>1. \A t \in Slot : slot'[t] = IF t = s THEN NoObj ELSE slot[t]
    BY <1>10, <1>t, ReleaseCases
  <2>2. Locked(slot, busy) \subseteq Locked(slot, busy') /\ Alive' = Alive
    BY <1>10 DEF Locked, Alive
  <2>3. RootsNow \subseteq Found' \cup {slot[s]}
    BY <1>2, <1>10, <2>1, <2>2, RootsCut
  <2> QED  BY <1>7, <1>10, <2>2, <2>3
<1>11. ASSUME NEW d \in Slot, NEW s \in Slot, StartMove(d, s)
       PROVE  Findable'
  BY <1>10, <1>11 DEF StartMove
<1>12. ASSUME NEW s \in Slot, Drop(s)
       PROVE  Findable'
  BY <1>10, <1>12 DEF Drop
<1>13. ASSUME NEW r \in Slot, Resume(r)
       PROVE  Findable'
  <2>1. running' = Append(running, slot[r]) /\ UNCHANGED <<slot, status, busy, cand>> /\ slot[r] \in Obj
    BY <1>13, <1>t DEF Resume
  <2>2. running \in Seq(Obj)
    BY <1>t DEF TypeOK
  <2>3. ToSet(running) \subseteq ToSet(running')
    BY <2>1, <2>2, AppendFacts
  <2>4. RootsNow \subseteq RootsNow'
    BY <1>2, <1>t, <2>1, <2>3, RootsGrow
  <2> QED  BY <1>6, <1>8, <2>1, <2>4
<1>14. CASE Yield
  <2>1. running' = Front(running) /\ UNCHANGED <<slot, status, busy, cand, move>> /\ running # <<>>
    BY <1>14 DEF Yield
  <2>2. running \in Seq(Obj) /\ Len(running) \in Nat \ {0}
    BY <1>t, <2>1 DEF TypeOK
  <2> DEFINE n == Len(running)
  <2>3. ToSet(running) \subseteq ToSet(Front(running)) \cup {running[n]}
    BY <2>1, <2>2, FrontFacts DEF Last
  <2>4. ASSUME NEW i \in 1 .. n - 1
        PROVE  running[i] \in ToSet(Front(running))
    <3>1. i \in DOMAIN Front(running) /\ Front(running)[i] = running[i]
      BY <2>1, <2>2 DEF Front
    <3> HIDE DEF n
    <3> QED  BY <3>1 DEF ToSet
  <2>5. n \in DOMAIN running
    BY <2>2
  <2>6. PICK r \in FrameOf(n - 1) : slot[r] = running[n]
    BY <2>5 DEF HeapInv, ChainSound
  <2>7. running[n] \in Obj
    BY <2>2
  <2>8. running[n] \in Found'
    <3>1. CASE n = 1
      <4>1. r \in Root
        BY <2>6, <3>1 DEF FrameOf, Root
      <4>2. running[n] \in RootsNow'
        BY <2>1, <2>6, <2>7, <4>1, <1>t DEF RootsNow, Roots
      <4> QED  BY <4>2, <1>6
    <3>2. CASE n # 1
      <4> HIDE DEF n
      <4>0. n \in Nat \ {0}
        BY <2>2 DEF n
      <4>1. n - 1 \in 1 .. n - 1
        BY <4>0, <3>2
      <4>2. PICK f \in Field : r = <<running[n - 1], f>>
        BY <2>6, <4>1 DEF FrameOf
      <4>3. running[n - 1] \in ToSet(running')
        BY <2>1, <2>4, <4>1
      <4>4. running[n - 1] \in Obj
        BY <2>2, <4>1 DEF n
      <4>5. running[n - 1] \in RootsNow'
        BY <4>3, <4>4, <1>t DEF RootsNow, Roots
      <4> HIDE DEF n
      <4>6. slot'[<<running[n - 1], f>>] = running[n]
        BY <2>1, <2>6, <4>2
      <4> QED  BY <1>6, <2>7, <4>5, <4>6, <1>t DEF Shut
    <3> QED  BY <3>1, <3>2
  <2>9. RootsNow \subseteq RootsNow' \cup {running[n]}
    <3> HIDE DEF n
    <3>1. ToSet(running) \subseteq ToSet(running') \cup {running[n]}
      BY <2>1, <2>3
    <3> QED  BY <2>1, <3>1 DEF RootsNow, Roots
  <2>10. RootsNow \subseteq Found'
    BY <1>6, <2>8, <2>9
  <2> QED  BY <1>8, <2>1, <2>10
<1>15. ASSUME NEW r \in Slot, NEW c \in Slot \cup {NoSlot}, AsyncRequest(r, c)
       PROVE  Findable'
  <2> DEFINE a == slot[r]
  <2>1. /\ a \in Obj /\ KindOf[a] = Asyncs /\ a \notin busy /\ busy' = busy \cup {a}
        /\ slot' = [slot EXCEPT ![<<a, CallbackField>>] = Callback(c), ![<<a, LockField>>] = a]
        /\ UNCHANGED <<status, cand, running>>
    BY <1>15, <1>t DEF AsyncRequest
  <2> HIDE DEF a
  <2>2. slot[<<a, CallbackField>>] = NoObj /\ slot[<<a, LockField>>] = NoObj
    BY <1>2, <2>1, HeapAssumption DEF HeapInv, RequestsSound
  <2>3. \A s \in Slot : slot[s] # NoObj => slot'[s] = slot[s]
    BY <2>1, <2>2, <1>t
  <2>4. RootsNow \subseteq RootsNow'
    BY <1>2, <1>t, <2>1, <2>3, RootsGrow
  <2> QED  BY <1>6, <1>8, <2>1, <2>3, <2>4
<1>16. ASSUME NEW a \in Obj, NEW d \in Slot, AsyncDispatch(a, d)
       PROVE  Findable'
  <2>1. /\ slot' = [slot EXCEPT ![d] = slot[<<a, CallbackField>>]] /\ slot[d] = NoObj
        /\ UNCHANGED <<status, cand, running, busy>>
    BY <1>16 DEF AsyncDispatch
  <2>2. \A s \in Slot : slot[s] # NoObj => slot'[s] = slot[s]
    BY <2>1, <1>t
  <2>3. RootsNow \subseteq RootsNow'
    BY <1>2, <1>t, <2>1, <2>2, RootsGrow
  <2> QED  BY <1>6, <1>8, <2>1, <2>2, <2>3
<1> QED  BY <1>9, <1>11, <1>12, <1>13, <1>14, <1>15, <1>16 DEF Mutator

\* The rest of a handler loses sight of no container either.
LEMMA ContinueFinds ==
  ASSUME HeapInv, HeapInv', AsyncSound, Findable, WhiteSound, Continue, mode = "run"
  PROVE  Findable'
<1>t. /\ TypeOK /\ TypeOK' /\ slot \in [Slot -> Obj \cup {NoObj}] /\ NoObj \notin Obj
      /\ Frame \subseteq Slot /\ Regs \subseteq Slot /\ Addressable \subseteq Slot
      /\ destroyQ \in Seq(Obj) /\ status \in [Obj -> {"free", "live", "freeing"}]
  BY HeapAssumption, AddressedSlots DEF HeapInv, TypeOK
<1>1. UNCHANGED <<phase, color, hold, running, busy, scratch>>
  BY DEF Continue, PopDestroy, FreeChild, FreeDone, MoveCopies, Unlock, DropCallback
<1>2. phase \in {"idle", "clear", "unhold"} /\ Colored = {} /\ Colored' = {}
  <2>1. ASSUME phase \in Tracing
        PROVE  FALSE
    <3>1. move = NoMove /\ destroyQ = <<>> /\ freeing = NoObj
      BY <2>1 DEF HeapInv, Staging, Tracing, Drained
    <3> QED  BY <3>1 DEF Continue, PopDestroy, FreeChild, FreeDone, MoveCopies, Unlock,
             DropCallback, NoMove
  <2> QED  BY <1>1, <2>1 DEF HeapInv, TypeOK, Phases, Tracing, Staging, Colored
<1>3. Hands = hold /\ Hands' = hold
  <2>1. phase = "idle" => hold = {}
    BY DEF HeapInv, Staging
  <2> QED  BY <1>1, <1>2, <2>1 DEF Hands
<1>4. RootsNow' \cup Dying' \cup Queued' \cup hold \subseteq Found' /\ Shut(slot', Found')
  BY <1>3, FindableNext, <1>t DEF Anchored
<1>5. ASSUME NEW s \in Slot, Release(s), UNCHANGED <<status, freeing>>,
             move.new = NoObj \/ move' = move
      PROVE  Findable'
  <2>1. \A t \in Slot : slot'[t] = IF t = s THEN NoObj ELSE slot[t]
    BY <1>5, <1>t, ReleaseCases
  <2>2. Locked(slot, busy) \subseteq Locked(slot, busy') /\ Alive' = Alive
    BY <1>1, <1>5 DEF Locked, Alive
  <2>3. RootsNow \subseteq Found' \cup {slot[s]}
    BY <1>1, <1>5, <2>1, <2>2, RootsCut
  <2> QED  BY <1>1, <1>3, <1>4, <1>5, <2>2, <2>3, ReleaseKeepsFound
<1>6. CASE PopDestroy
  <2> DEFINE o == Last(destroyQ)
  <2>1. /\ destroyQ # <<>> /\ freeing = NoObj /\ destroyQ' = Front(destroyQ) /\ cand' = Unlinked(o)
        /\ UNCHANGED <<slot, running, busy, move>>
    BY <1>6 DEF PopDestroy
  <2>2. status[o] = "live" => status' = [status EXCEPT ![o] = "freeing"] /\ freeing' = o
    BY <1>6, Zenon DEF PopDestroy
  <2>3. o \in Obj /\ o \in ToSet(destroyQ) /\ ToSet(destroyQ) \subseteq ToSet(Front(destroyQ)) \cup {o}
    BY <2>1, <1>t, FrontFacts
  <2> HIDE DEF o
  <2>4. status[o] = "live"
    BY <2>3, DestroyFact DEF HeapInv
  <2>5. Dying \subseteq Dying' /\ o \in Dying'
    BY <2>1, <2>2, <2>3, <2>4, <1>t DEF Dying
  <2>6. Queued \subseteq Queued' \cup {o}
    <3>1. \A k \in Kind : ToSet(cand[k]) \subseteq ToSet(cand'[k]) \cup {o}
      <4>1. Tickets(cand)
        BY TicketsFact DEF HeapInv
      <4>2. \A k \in Kind : ToSet(Unlinked(o)[k]) = ToSet(cand[k]) \ {o}
        BY <1>t, <2>3, <4>1, UnlinkedFacts
      <4> QED  BY <2>1, <4>2
    <3> QED  BY <3>1 DEF Queued
  <2>7. RootsNow' = RootsNow
    BY <2>1 DEF RootsNow
  <2>8. Anchored \subseteq Found'
    BY <1>3, <1>4, <2>5, <2>6, <2>7 DEF Anchored
  <2>9. Alive' \subseteq Alive
    BY <2>2, <2>3, <2>4, <1>t DEF Alive
  <2> QED  BY <2>1, <2>8, <2>9, KeepsFound
<1>7. ASSUME NEW f \in Field, FreeChild(f)
      PROVE  Findable'
  <2>1. <<freeing, f>> \in Slot /\ Release(<<freeing, f>>) /\ UNCHANGED <<status, freeing, move>>
    BY <1>7, <1>t, ChildSlots DEF FreeChild, TypeOK
  <2> QED  BY <1>5, <2>1
<1>8. CASE FreeDone
  <2>1. /\ freeing \in Obj /\ UNCHANGED <<slot, running, busy, move, destroyQ, cand>>
        /\ Kids(freeing) = {} /\ status' = [status EXCEPT ![freeing] = "free"]
    BY <1>8, <1>t DEF FreeDone, TypeOK
  <2>2. status[freeing] = "freeing"
    BY <2>1, <1>t, DestroyFact DEF HeapInv
  <2> DEFINE T == Found' \cup {freeing}
  <2>3. Alive' \subseteq Alive /\ freeing \notin Alive
    BY <2>1, <2>2, <1>t DEF Alive
  <2>4. RootsNow' = RootsNow /\ Queued' = Queued
    BY <2>1 DEF RootsNow, Queued
  <2>5. Dying \subseteq Dying' \cup {freeing}
    BY <2>1 DEF Dying
  <2>6. Anchored \subseteq T
    BY <1>3, <1>4, <2>4, <2>5 DEF Anchored
  <2>7. \A f \in Field : slot[<<freeing, f>>] = NoObj
    BY <2>1, <1>t DEF Kids
  <2>8. Shut(slot, T)
    BY <2>1, <2>7, <1>4 DEF Shut
  <2>9. T \in SUBSET Obj
    BY <2>1, <1>t, FindableNext
  <2> HIDE DEF T
  <2>10. Found \subseteq T
    BY <2>6, <2>8, <2>9, ReachLeast DEF Found
  <2>11. Alive \subseteq Found
    BY <1>t, FindableNow
  <2>12. Alive' \subseteq Found'
    BY <2>3, <2>10, <2>11 DEF T
  <2> QED  BY <2>12, <1>t, FindableNext
<1>9. CASE MoveCopies
  <2> DEFINE d == move.dst
             v == IF move.op = "new" THEN move.new ELSE slot[move.src]
  <2>1. /\ slot' = [slot EXCEPT ![d] = v] /\ slot[d] = NoObj /\ d \in Regs \cup Addressable
        /\ UNCHANGED <<status, running, busy, destroyQ, freeing, cand>> /\ move' = NoMove
    BY <1>9 DEF MoveCopies, HeapInv, MoveSound
  <2>2. move.new = NoObj \/ (move.new = v /\ v \in Obj)
    BY <1>9 DEF MoveCopies, HeapInv, MoveSound
  <2> HIDE DEF d, v
  <2>3. d \in Slot /\ slot'[d] = v /\ \A s \in Slot : slot[s] # NoObj => slot'[s] = slot[s]
    BY <2>1, <1>t
  <2>4. \A o \in RootsNow : o = move.new \/ o \in RootsNow'
    <3>1. \A s \in Root : s \in Slot
      BY DEF Slot
    <3>2. Locked(slot, busy) \subseteq Locked(slot', busy')
      <4>1. \A a \in Obj : <<a, LockField>> \in Slot
        BY HeapAssumption, ChildSlots, <1>t
      <4>2. busy \subseteq Obj
        BY <1>t DEF TypeOK
      <4>3. \A a \in Obj : slot[<<a, LockField>>] = a => slot'[<<a, LockField>>] = a
        BY <4>1, <2>3, <1>t
      <4> QED  BY <4>2, <4>3, <2>1 DEF Locked
    <3>3. \A o \in Obj : (\E s \in Root : o = slot[s]) => o \in RootsNow'
      BY <3>1, <2>3, <1>t DEF RootsNow, Roots
    <3> QED  BY <3>2, <3>3, <2>1, <1>t, MappedHeap DEF RootsNow, Roots
  <2>5. ASSUME v \in Obj
        PROVE  v \in Found'
    <3>1. ASSUME NEW s \in Root, slot'[s] \in Obj
          PROVE  slot'[s] \in Found'
      <4>1. slot'[s] \in RootsNow'
        BY <3>1, <1>t DEF RootsNow, Roots
      <4> QED  BY <4>1, <1>4
    <3>2. ASSUME NEW o \in Found', NEW f \in Field, slot'[<<o, f>>] \in Obj
          PROVE  slot'[<<o, f>>] \in Found'
      BY <3>2, <1>4, <1>t DEF Shut
    <3>3. CASE d \in Root
      BY <2>3, <2>5, <3>1, <3>3
    <3>4. ASSUME NEW o \in Obj, NEW f \in Field, d = <<o, f>>, d \in Regs
          PROVE  v \in Found'
      <4>1. o = Last(running) /\ running # <<>> /\ running \in Seq(Obj)
        BY <3>4, <1>t, AddressedOwners DEF HeapInv, TypeOK
      <4>2. o \in ToSet(running')
        BY <4>1, <2>1, FrontFacts
      <4>3. o \in RootsNow'
        BY <4>2, <1>t DEF RootsNow, Roots
      <4> QED  BY <3>2, <3>4, <4>3, <2>3, <2>5, <1>4
    <3>5. ASSUME NEW r \in Regs, slot[r] \in Obj
          PROVE  slot[r] \in Found'
      <4>1. r \in Slot /\ slot'[r] = slot[r]
        BY <3>5, <2>3, <1>t
      <4>2. CASE r \in Root
        BY <3>1, <3>5, <4>1, <4>2
      <4>3. CASE r \notin Root
        <5>1. PICK p \in Obj, f \in Field : r = <<p, f>>
          BY <4>1, <4>3 DEF Slot, Inner
        <5>2. p = Last(running) /\ running # <<>> /\ running \in Seq(Obj)
          BY <5>1, <1>t, AddressedOwners DEF HeapInv, TypeOK
        <5>3. p \in ToSet(running')
          BY <5>2, <2>1, FrontFacts
        <5>4. p \in RootsNow'
          BY <5>3, <1>t DEF RootsNow, Roots
        <5> QED  BY <3>2, <3>5, <4>1, <5>1, <5>4, <1>4
      <4> QED  BY <4>2, <4>3
    <3>6. ASSUME NEW o \in Obj, NEW f \in Field, d = <<o, f>>, d \in Addressable
          PROVE  v \in Found'
      <4>1. PICK r \in Regs : slot[r] = o
        BY <3>6, <1>t, AddressedOwners DEF HeapInv
      <4>2. o \in Found'
        BY <3>5, <4>1
      <4> QED  BY <3>2, <3>6, <4>2, <2>3, <2>5
    <3> QED  BY <3>3, <3>4, <3>6, <2>1, <2>3 DEF Slot, Inner
  <2>6. Dying' = Dying /\ Queued' = Queued /\ Alive' = Alive
    BY <2>1 DEF Dying, Queued, Alive
  <2>7. RootsNow \subseteq Found'
    BY <2>2, <2>4, <2>5, <1>4, <1>t DEF RootsNow, Roots
  <2>8. Anchored \subseteq Found'
    BY <1>3, <1>4, <2>6, <2>7 DEF Anchored
  <2> QED  BY <2>3, <2>6, <2>8, KeepsFound
<1>10. ASSUME Release(move.dst), UNCHANGED <<status, freeing>>, move.op \in {"unlock", "drop"}
       PROVE  Findable'
  <2>1. move.new = NoObj /\ \E a \in Obj, f \in Field : move.dst = <<a, f>>
    BY <1>10 DEF HeapInv, MoveSound
  <2>2. move.dst \in Slot
    BY <2>1, <1>t, ChildSlots
  <2> QED  BY <1>5, <1>10, <2>1, <2>2
<1>11. CASE Unlock \/ DropCallback
  BY <1>10, <1>11 DEF Unlock, DropCallback
<1> QED  BY <1>6, <1>7, <1>8, <1>9, <1>11 DEF Continue

\* A native root that owns something is a root of the script's.
LEMMA NativeOwners ==
  ASSUME HeapInv, AsyncSound, mode = "run", Drained, move = NoMove,
         NEW o \in Obj, NativeRoot(o), NEW f \in Field, slot[<<o, f>>] # NoObj
  PROVE  o \in RootsNow
<1>1. NoObj \notin Obj
  BY HeapAssumption
<1>2. CASE o \in ToSet(running)
  BY <1>1, <1>2 DEF RootsNow, Roots
<1>3. CASE o \in busy
  <2>1. KindOf[o] = Asyncs
    BY <1>3 DEF HeapInv, RequestsSound
  <2>2. Shaped(o, slot) /\ (Unlocking(o, slot) => freeing = o \/ move.dst = <<o, CallbackField>>)
    BY <2>1, AsyncShape
  <2>3. freeing # o /\ move.dst # <<o, CallbackField>>
    BY <1>1, HeapAssumption DEF Drained, NoMove, Slot, Inner
  <2>4. slot[<<o, LockField>>] = o
    BY <2>2, <2>3 DEF Shaped, Unlocking
  <2> QED  BY <1>1, <1>3, <2>4 DEF RootsNow, Roots, Locked
<1> QED  BY <1>2, <1>3 DEF NativeRoot

\* What the scan leaves to external owners is found from those: an owner that
\* trial deletion has not seen has no ticket to lose.
LEMMA ScanFinds ==
  ASSUME HeapInv, HeapInv', TraceSound, AsyncSound, Findable, mode = "run", Scan
  PROVE  Findable'
<1>t. /\ TypeOK /\ TypeOK' /\ slot \in [Slot -> Obj \cup {NoObj}] /\ NoObj \notin Obj
      /\ slot \in Edges /\ RefCountExact /\ status \in [Obj -> {"free", "live", "freeing"}]
  BY HeapAssumption DEF HeapInv, TypeOK, Edges
<1>1. /\ phase = "scan" /\ phase' = "black"
      /\ UNCHANGED <<slot, status, destroyQ, freeing, running, busy, move, cand, scratch>>
      /\ color' = [o \in Obj |-> IF color[o] = "gray" /\ (NativeRoot(o) \/ scratch[o] # 0)
                                 THEN "black" ELSE color[o]]
  BY DEF Scan
<1>2. Drained /\ move = NoMove /\ hold = {} /\ todo = {} /\ Dying = {}
  BY <1>1 DEF HeapInv, Staging, TraceSound, Drained, Dying, ToSet
<1>3. Externals' = Externals /\ Colored' = Colored
  BY <1>1 DEF Externals, Colored, NativeRoot
<1>4. RootsNow' = RootsNow /\ Queued' = Queued /\ Alive' = Alive /\ Hands = Colored
  BY <1>1 DEF RootsNow, Queued, Alive, Hands
<1>5. Hands' = Colored \ Reach(slot, Externals)
  BY <1>1, <1>3 DEF Hands
<1>6. /\ RootsNow \subseteq Found' /\ Queued \subseteq Found' /\ Hands' \subseteq Found'
      /\ Shut(slot, Found') /\ Found' \subseteq Obj
  BY <1>1, <1>4, <1>t, FindableNext DEF Anchored
<1>7. \A p \in Traced : \A c \in Kids(p) : may[c] => c \in Colored
  BY DEF TraceSound
<1>8. \A p \in Colored : p \in Traced \/ NativeRoot(p)
  BY <1>1 DEF Traced
<1>9. Colored \subseteq Obj /\ \A p \in Obj, f \in Field : slot[<<p, f>>] # NoObj => may[p]
  BY DEF Colored, HeapInv, MaySound
<1>10. \A p \in Obj, f \in Field :
         <<p, f>> \in Slot /\ (slot[<<p, f>>] # NoObj => slot[<<p, f>>] \in Kids(p) /\ slot[<<p, f>>] \in Obj)
  BY <1>t, ChildSlots DEF Kids
<1>11. ASSUME NEW p \in Obj, NEW f \in Field, slot[<<p, f>>] # NoObj, NativeRoot(p)
       PROVE  p \in Found'
  BY <1>2, <1>6, <1>11, NativeOwners
<1> DEFINE T == Found' \cup Colored \cup {o \in Obj : ~may[o]}
<1>12. Alive \subseteq T
  <2>1. Anchored \subseteq T
    BY <1>2, <1>4, <1>6 DEF Anchored
  <2>2. Shut(slot, T)
    <3> SUFFICES ASSUME NEW p \in T, NEW f \in Field, slot[<<p, f>>] # NoObj
                 PROVE  slot[<<p, f>>] \in T
      BY DEF Shut
    <3>1. p \in Obj
      BY <1>6, <1>9
    <3>2. slot[<<p, f>>] \in Kids(p) /\ slot[<<p, f>>] \in Obj /\ may[p]
      BY <3>1, <1>9, <1>10
    <3>3. CASE p \in Found'
      BY <3>3, <1>6 DEF Shut
    <3>4. CASE p \in Colored
      <4>1. CASE p \in Traced
        BY <3>2, <4>1, <1>7
      <4>2. CASE NativeRoot(p)
        BY <3>1, <3>3, <4>2, <1>11
      <4> QED  BY <3>4, <4>1, <4>2, <1>8
    <3> QED  BY <3>2, <3>3, <3>4
  <2>3. T \in SUBSET Obj
    BY <1>6, <1>9
  <2> HIDE DEF T
  <2>4. Found \subseteq T
    BY <2>1, <2>2, <2>3, ReachLeast DEF Found
  <2> QED  BY <2>4, <1>t, FindableNow
<1> HIDE DEF T
<1>13. ASSUME NEW p \in Obj, NEW f \in Field, slot[<<p, f>>] # NoObj
       PROVE  p \in Alive
  BY <1>2, <1>13, <1>t DEF Alive, Drained, AsyncSound, HeapInv, SlotsSound
<1>14. ASSUME NEW x \in Externals, NEW f \in Field, slot[<<x, f>>] # NoObj
       PROVE  x \in Found'
  <2>1. x \in Colored /\ x \in Obj /\ may[x]
    BY <1>9, <1>14 DEF Externals
  <2>2. CASE NativeRoot(x)
    BY <2>1, <2>2, <1>11, <1>14
  <2>3. CASE scratch[x] # 0
    <3>1. scratch[x] = Cardinality(Unexplained(x))
      BY <2>1 DEF TraceSound
    <3>2. Unexplained(x) # {}
      BY <2>3, <3>1, FS_EmptySet
    <3>3. PICK s \in Unexplained(x) : TRUE
      BY <3>2
    <3>4. s \in Slot /\ slot[s] = x /\ s \notin Traced \X Field
      BY <2>1, <3>3 DEF Unexplained, Refs
    <3>5. CASE s \in Root
      <4>1. x \in RootsNow
        BY <2>1, <3>4, <3>5, <1>t DEF RootsNow, Roots
      <4> QED  BY <4>1, <1>6
    <3>6. CASE s \notin Root
      <4>1. PICK p \in Obj, g \in Field : s = <<p, g>>
        BY <3>4, <3>6 DEF Slot, Inner
      <4>2. slot[<<p, g>>] = x /\ slot[<<p, g>>] # NoObj /\ p \notin Traced
        BY <2>1, <3>4, <4>1, <1>t
      <4>3. may[p] /\ p \in T
        BY <4>2, <1>9, <1>12, <1>13
      <4>4. p \in Found'
        BY <4>2, <4>3, <1>8, <1>11 DEF T
      <4> QED  BY <4>2, <4>4, <1>6 DEF Shut
    <3> QED  BY <3>5, <3>6
  <2> QED  BY <2>2, <2>3, <1>14 DEF Externals
<1>15. ASSUME NEW p \in Obj, NEW f \in Field, slot[<<p, f>>] # NoObj
       PROVE  p \in Found'
  <2>1. p \in T /\ may[p]
    BY <1>9, <1>12, <1>13, <1>15
  <2>2. CASE p \in Colored /\ p \in Reach(slot, Externals)
    <3>1. Externals \subseteq Obj
      BY <1>9 DEF Externals
    <3>2. PICK x \in Externals : p \in Reach(slot, {x})
      BY <2>2, <3>1, <1>t, ReachFromOne
    <3> DEFINE X == {x}
    <3>3. X \subseteq Obj /\ X \in SUBSET Obj /\ X \subseteq X /\ p \in Reach(slot, X)
      BY <3>1, <3>2
    <3>4. CASE \A g \in Field : slot[<<x, g>>] = NoObj
      <4>1. Shut(slot, X)
        BY <3>4 DEF Shut
      <4>2. Reach(slot, X) \subseteq X
        <5> HIDE DEF X
        <5> QED  BY <3>3, <4>1, ReachLeast
      <4>3. p = x
        BY <3>3, <4>2
      <4> QED  BY <4>3, <3>4, <1>15
    <3>5. CASE \E g \in Field : slot[<<x, g>>] # NoObj
      <4>1. X \subseteq Found' /\ Found' \in SUBSET Obj
        BY <3>5, <1>14, <1>6
      <4> HIDE DEF X
      <4>2. Reach(slot, X) \subseteq Found'
        BY <4>1, <1>6, ReachLeast
      <4> QED  BY <3>3, <4>2
    <3> QED  BY <3>4, <3>5
  <2>3. CASE p \in Colored /\ p \notin Reach(slot, Externals)
    BY <2>3, <1>5, <1>6
  <2> QED  BY <2>1, <2>2, <2>3 DEF T
<1>16. ASSUME NEW o \in Alive
       PROVE  o \in Found'
  <2>1. o \in Obj /\ status[o] = "live"
    BY DEF Alive
  <2>2. rc[o] # 0
    BY <2>1, <1>2, <1>t DEF HeapInv, NoLimbo, NoMove, Drained, ToSet
  <2>3. Refs(o) # {}
    BY <2>1, <2>2, <1>2, <1>t, UncountedNodes
  <2>4. PICK s \in Slot : slot[s] = o
    BY <2>3 DEF Refs
  <2>5. CASE s \in Root
    <3>1. o \in RootsNow
      BY <2>1, <2>4, <2>5, <1>t DEF RootsNow, Roots
    <3> QED  BY <3>1, <1>6
  <2>6. CASE s \notin Root
    <3>1. PICK p \in Obj, g \in Field : s = <<p, g>>
      BY <2>6 DEF Slot, Inner
    <3>2. p \in Found'
      BY <2>1, <2>4, <3>1, <1>15, <1>t
    <3> QED  BY <2>1, <2>4, <3>1, <3>2, <1>6, <1>t DEF Shut
  <2> QED  BY <2>5, <2>6
<1> QED  BY <1>4, <1>16, <1>t, FindableNext

\* Up to the cut of the first edge the heap stands still: what leaves the
\* queues is in the collector's hands.
LEMMA PassFinds ==
  ASSUME HeapInv, HeapInv', TraceSound, BlackSound, AsyncSound, Findable, mode = "run", Next,
         phase \in Tracing
  PROVE  Findable'
<1>t. /\ TypeOK /\ TypeOK' /\ Tickets(cand) /\ cand \in [Kind -> Seq(Obj)]
      /\ color \in [Obj -> Colors]
  BY TicketsFact DEF HeapInv, TypeOK
<1>s. /\ UNCHANGED <<slot, status, may, destroyQ, freeing, sweep, move, running, busy, mode>>
      /\ \/ \E q \in Kind : PopRoot(q)
         \/ PopEnds
         \/ \E o \in Obj : Trace(o)
         \/ TraceEnds
         \/ Scan
         \/ \E o \in Obj : Blacken(o)
         \/ BlackenEnds
         \/ \E o \in Obj : Hold(o)
         \/ HoldEnds
  BY TracingSteps
<1>1. RootsNow' = RootsNow /\ Dying' = Dying /\ Alive' = Alive
  BY <1>s DEF RootsNow, Dying, Alive
<1>2. RootsNow' \cup Dying' \cup Queued' \cup Hands' \subseteq Found'
  BY <1>t, FindableNext DEF Anchored
<1>3. ASSUME Queued \cup Hands \subseteq Queued' \cup Hands'
      PROVE  Findable'
  <2>1. Anchored \subseteq Found'
    BY <1>1, <1>2, <1>3 DEF Anchored
  <2> QED  BY <2>1, <1>1, <1>s, KeepsFound
<1>4. ASSUME NEW q \in Kind, PopRoot(q)
      PROVE  Findable'
  <2> DEFINE o == Head(cand[q])
  <2>1. /\ phase = "pop" /\ phase' = "pop" /\ cand[q] # <<>> /\ cand[q] \in Seq(Obj)
        /\ cand' = [cand EXCEPT ![q] = Tail(@)] /\ color' = [color EXCEPT ![o] = "gray"]
    BY <1>4, <1>t DEF PopRoot
  <2>2. o \in Obj /\ ToSet(cand[q]) \subseteq ToSet(Tail(cand[q])) \cup {o}
    BY <2>1, TailFacts
  <2> HIDE DEF o
  <2>3. Queued \subseteq Queued' \cup {o}
    <3>1. \A k \in Kind : ToSet(cand[k]) \subseteq ToSet(cand'[k]) \cup {o}
      BY <2>1, <2>2, <1>t
    <3> QED  BY <3>1 DEF Queued
  <2>4. Colored \cup {o} \subseteq Colored'
    BY <2>1, <2>2, <1>t DEF Colored
  <2>5. Hands = Colored /\ Hands' = Colored'
    BY <2>1 DEF Hands
  <2> QED  BY <2>3, <2>4, <2>5, <1>3
<1>5. CASE PopEnds \/ TraceEnds
  <2>1. /\ phase \in {"pop", "gray"} /\ phase' \in {"gray", "scan"} /\ UNCHANGED <<color, cand>>
    BY <1>5 DEF PopEnds, TraceEnds
  <2>2. Queued' = Queued /\ Colored' = Colored /\ Hands = Colored /\ Hands' = Colored'
    BY <2>1 DEF Hands, Colored, Queued
  <2> QED  BY <2>2, <1>3
<1>6. ASSUME NEW o \in Obj, Trace(o)
      PROVE  Findable'
  <2>1. /\ phase = "gray" /\ phase' = "gray" /\ cand' = cand
        /\ \A c \in Obj : color[c] # "none" => color'[c] # "none"
    BY <1>6 DEF Trace
  <2>2. Queued' = Queued /\ Colored \subseteq Colored' /\ Hands = Colored /\ Hands' = Colored'
    BY <2>1 DEF Hands, Colored, Queued
  <2> QED  BY <2>2, <1>3
<1>7. CASE Scan
  BY <1>7, ScanFinds
<1>8. ASSUME NEW o \in Obj, Blacken(o)
      PROVE  Findable'
  <2>1. /\ phase = "black" /\ phase' = "black" /\ UNCHANGED <<cand, scratch>>
        /\ \A c \in Obj : color'[c] # "none" <=> color[c] # "none"
    BY <1>8 DEF Blacken
  <2>2. Queued' = Queued /\ Colored' = Colored
    BY <2>1 DEF Queued, Colored
  <2>3. Externals' = Externals
    BY <2>1, <2>2, <1>s DEF Externals, NativeRoot
  <2>4. Hands' = Hands
    BY <2>1, <2>2, <2>3, <1>s DEF Hands
  <2> QED  BY <2>2, <2>4, <1>3
<1>9. CASE BlackenEnds
  <2>1. /\ phase = "black" /\ phase' = "white" /\ UNCHANGED <<cand, color>>
    BY <1>9 DEF BlackenEnds
  <2>2. Queued' = Queued /\ Hands = Colored \ Reach(slot, Externals) /\ Hands' = GrayNodes
    BY <2>1 DEF Queued, Hands, GrayNodes
  <2>3. \A o \in Obj : color[o] = "black" => o \in Reach(slot, Externals)
    BY <2>1, <1>t, MappedHeap DEF BlackSound
  <2>4. Hands \subseteq Hands'
    BY <2>2, <2>3, <1>t DEF Colored, GrayNodes, Colors
  <2> QED  BY <2>2, <2>4, <1>3
<1>10. ASSUME NEW o \in Obj, Hold(o)
       PROVE  Findable'
  <2>1. /\ phase = "white" /\ phase' = "white" /\ color' = color /\ color[o] = "gray"
        /\ cand' = Unlinked(o)
    BY <1>10 DEF Hold
  <2>2. Hands = GrayNodes /\ Hands' = GrayNodes /\ o \in GrayNodes
    BY <2>1 DEF Hands, GrayNodes
  <2>3. \A k \in Kind : ToSet(Unlinked(o)[k]) = ToSet(cand[k]) \ {o}
    BY <1>t, UnlinkedFacts
  <2>4. Queued \subseteq Queued' \cup {o}
    BY <2>1, <2>3 DEF Queued
  <2> QED  BY <2>2, <2>4, <1>3
<1>11. CASE HoldEnds
  <2>1. /\ phase = "white" /\ phase' = "clear" /\ UNCHANGED <<cand, hold>>
        /\ \A o \in Obj : color[o] = "gray" => o \in hold
    BY <1>11 DEF HoldEnds
  <2>2. Queued' = Queued /\ Hands = GrayNodes /\ Hands' = hold /\ GrayNodes \subseteq hold
    BY <2>1 DEF Queued, Hands, GrayNodes
  <2> QED  BY <2>2, <1>3
<1> QED  BY <1>s, <1>4, <1>5, <1>6, <1>7, <1>8, <1>9, <1>10, <1>11

\* What the collector cuts apart it still holds, and what it lets go of is
\* destroyed.
LEMMA CutFinds ==
  ASSUME HeapInv, HeapInv', WhiteSound, AsyncSound, Findable, mode = "run", Collector,
         phase \notin Tracing
  PROVE  Findable'
<1>t. /\ TypeOK /\ TypeOK' /\ RefCountExact /\ slot \in [Slot -> Obj \cup {NoObj}] /\ NoObj \notin Obj
  BY HeapAssumption DEF HeapInv, TypeOK
<1>1. /\ (\E o \in Obj, f \in Field : ClearSlot(o, f)) \/ ClearEnds \/ (\E o \in Obj : Unhold(o)) \/ PassEnds
  BY DEF Tracing, Collector, PopRoot, PopEnds, Trace, TraceEnds, Scan, Blacken, BlackenEnds, Hold, HoldEnds
<1>2. /\ phase \in {"clear", "unhold"} /\ UNCHANGED <<status, freeing, move, running, busy, color>>
      /\ Drained
  BY <1>1 DEF ClearSlot, ClearEnds, Unhold, PassEnds
<1>3. Hands = hold /\ move = NoMove /\ Alive' = Alive /\ Colored' = {} /\ Dying = {}
  BY <1>2 DEF Hands, HeapInv, Staging, Alive, Colored, Drained, Dying, ToSet
<1>4. RootsNow' \cup Dying' \cup Queued' \cup Hands' \subseteq Found'
  BY <1>t, FindableNext DEF Anchored
<1>5. ASSUME UNCHANGED <<slot, cand>>, hold \subseteq Hands' \cup Dying'
      PROVE  Findable'
  <2>1. RootsNow' = RootsNow /\ Queued' = Queued
    BY <1>2, <1>5 DEF RootsNow, Queued
  <2>2. Anchored \subseteq Found'
    BY <1>3, <1>4, <1>5, <2>1 DEF Anchored
  <2> QED  BY <1>3, <1>5, <2>2, KeepsFound
<1>6. ASSUME NEW o \in Obj, NEW f \in Field, ClearSlot(o, f)
      PROVE  Findable'
  <2> DEFINE s == <<o, f>>
  <2>1. phase = "clear" /\ phase' = "clear" /\ hold' = hold /\ s \in Slot /\ slot[s] # NoObj
    BY <1>6, <1>t, ChildSlots DEF ClearSlot
  <2> HIDE DEF s
  <2>2. Hands' = hold
    BY <2>1 DEF Hands
  <2>3. Release(s) \/ (slot[s] \in hold /\ slot' = [slot EXCEPT ![s] = NoObj] /\ UNCHANGED <<destroyQ, cand>>)
    BY <1>6 DEF ClearSlot, s
  <2>4. \A t \in Slot : slot'[t] = IF t = s THEN NoObj ELSE slot[t]
    BY <2>1, <2>3, <1>t, ReleaseCases
  <2>5. Locked(slot, busy) \subseteq Locked(slot, busy')
    BY <1>2 DEF Locked
  <2>6. RootsNow \subseteq Found' \cup {slot[s]}
    BY <1>2, <2>1, <2>4, <2>5, RootsCut
  <2>7. CASE Release(s)
    BY <1>2, <1>3, <1>4, <2>1, <2>2, <2>6, <2>7, ReleaseKeepsFound
  <2>8. CASE slot[s] \in hold /\ UNCHANGED <<destroyQ, cand>>
    <3>1. PICK v \in Obj : slot[s] = v
      BY <2>1, <1>t
    <3>2. v \in Found'
      BY <3>1, <2>2, <2>8, <1>4
    <3>3. Queued' = Queued
      BY <2>8 DEF Queued
    <3>4. Anchored \subseteq Found' \cup {v}
      BY <1>3, <1>4, <2>2, <2>6, <3>1, <3>3 DEF Anchored
    <3> QED  BY <1>3, <2>1, <2>4, <3>1, <3>2, <3>4, CutKeepsFound
  <2> QED  BY <2>3, <2>7, <2>8
<1>7. CASE ClearEnds
  BY <1>5, <1>7 DEF ClearEnds, Hands
<1>8. ASSUME NEW o \in Obj, Unhold(o)
      PROVE  Findable'
  <2>1. phase = "unhold" /\ phase' = "unhold" /\ o \in hold /\ hold' = hold \ {o} /\ slot' = slot
    BY <1>8 DEF Unhold
  <2>2. Refs(o) = {}
    BY <2>1 DEF WhiteSound
  <2>3. rc[o] = 0 + 1
    BY <2>1, <2>2, <1>t, FS_EmptySet DEF RefCountExact, Held
  <2>4. destroyQ' = Append(destroyQ, o) /\ cand' = cand
    BY <1>8, <2>3 DEF Unhold
  <2>5. destroyQ \in Seq(Obj)
    BY <1>t DEF TypeOK
  <2>6. ToSet(destroyQ') = ToSet(destroyQ) \cup {o}
    BY <2>4, <2>5, AppendFacts
  <2>7. o \in Dying' /\ Hands' = hold \ {o}
    BY <2>1, <2>6 DEF Dying, Hands
  <2> QED  BY <1>5, <2>1, <2>4, <2>7
<1>9. CASE PassEnds
  BY <1>5, <1>9 DEF PassEnds
<1> QED  BY <1>1, <1>6, <1>7, <1>8, <1>9

LEMMA FindableStep ==
  ASSUME HeapInv, HeapInv', TraceSound, BlackSound, WhiteSound, AsyncSound, Findable, Next
  PROVE  Findable'
<1> SUFFICES ASSUME mode' = "run"
             PROVE  Findable'
  BY DEF Findable
<1>1. mode = "run" /\ (Mutator \/ Continue \/ (\E all \in BOOLEAN : Collect(all)) \/ Collector)
  BY RunSteps
<1>2. CASE \E all \in BOOLEAN : Collect(all)
  <2>1. /\ UNCHANGED <<slot, status, destroyQ, freeing, move, running, busy, cand, color>>
        /\ phase = "idle" /\ phase' = "pop"
    BY <1>2 DEF Collect, Quiescent
  <2>2. RootsNow' = RootsNow /\ Dying' = Dying /\ Alive' = Alive /\ Queued' = Queued /\ Hands' = Hands
    BY <2>1 DEF RootsNow, Dying, Alive, Queued, Hands, Colored
  <2>3. Anchored \subseteq Found'
    BY <2>2, FindableNext DEF HeapInv, Anchored
  <2> QED  BY <1>1, <2>1, <2>2, <2>3, KeepsFound
<1>3. CASE Collector /\ phase \in Tracing
  BY <1>1, <1>3, PassFinds
<1>4. CASE Collector /\ phase \notin Tracing
  BY <1>1, <1>4, CutFinds
<1> QED  BY <1>1, <1>2, <1>3, <1>4, MutatorFinds, ContinueFinds

-----------------------------------------------------------------------------
(* The theorems about the collector                                        *)

LEMMA CollectorInit == Init => CollectorInv
<1> SUFFICES ASSUME Init
             PROVE  CollectorInv
  OBVIOUS
<1>1. HeapInv
  BY HeapInit
<1>2. Colored = {} /\ hold = {} /\ todo = {} /\ phase = "idle" /\ move = NoMove
  BY DEF Init, Colored
<1>3. TraceSound
  BY <1>2 DEF TraceSound, Traced
<1>4. BlackSound /\ WhiteSound
  BY <1>2 DEF BlackSound, WhiteSound
<1>5. AsyncSound
  <2>1. \A a \in Obj, f \in Field : slot[<<a, f>>] = NoObj
    BY <1>1, ChildSlots DEF Init, HeapInv
  <2>2. \A o \in Obj : status[o] = "free"
    BY DEF Init
  <2>3. LockField \in Field /\ CallbackField \in Field
    BY HeapAssumption
  <2> QED  BY <1>2, <2>1, <2>2, <2>3 DEF AsyncSound, NoMove
<1>6. Findable
  BY DEF Init, Findable
<1> QED  BY <1>1, <1>3, <1>4, <1>5, <1>6 DEF CollectorInv

LEMMA CollectorStep == CollectorInv /\ [Next]_vars => CollectorInv'
<1> SUFFICES ASSUME CollectorInv, [Next]_vars
             PROVE  CollectorInv'
  OBVIOUS
<1> USE DEF CollectorInv
<1>1. HeapInv'
  BY HeapStep
<1>2. CASE Next
  BY <1>1, <1>2, TraceStep, BlackStep, WhiteStep, AsyncStep, FindableStep
<1>3. CASE UNCHANGED vars
  <2>1. /\ UNCHANGED <<Colored, Traced, Externals, Hands, Anchored>>
        /\ \A o : Unexplained(o)' = Unexplained(o) /\ Kids(o)' = Kids(o) /\ Refs(o)' = Refs(o)
        /\ \A o : NativeRoot(o)' <=> NativeRoot(o)
    BY <1>3 DEF vars, Colored, Traced, Externals, NativeRoot, Unexplained, Kids, Refs, Hands,
       GrayNodes, Anchored, RootsNow, Roots, Locked, Dying, Queued
  <2>2. TraceSound' /\ WhiteSound'
    BY <1>3, <2>1 DEF TraceSound, WhiteSound, vars
  <2>3. BlackSound'
    <3>1. Abstract!Closure(Externals)' = Abstract!Closure(Externals)
      BY <1>1, <1>3, <2>1, MappedHeap, MappedHeapNext DEF vars, HeapInv
    <3> QED  BY <1>3, <2>1, <3>1 DEF BlackSound, vars
  <2>4. AsyncSound'
    BY <1>3 DEF AsyncSound, Drained, InFlight, vars
  <2>5. Findable'
    <3>1. Found' = Found /\ Alive' = Alive /\ mode' = mode
      BY <1>3, <2>1 DEF Found, Alive, vars
    <3> QED  BY <1>1, <3>1, FindableNow, FindableNext DEF HeapInv
  <2> QED  BY <1>1, <2>2, <2>3, <2>4, <2>5
<1> QED  BY <1>2, <1>3

\* CollectorInv holds in every reachable state: trial deletion counts exactly
\* the references no traced edge explains, CollectCycles holds only what it
\* holds all owners of, and every container can be found again.
THEOREM CollectorInvariant == Spec => []CollectorInv
  BY CollectorInit, CollectorStep, PTL DEF Spec

\* What CollectCycles cuts apart is out of reach.
LEMMA HeldLost ==
  ASSUME CollectorInv, phase \in {"clear", "unhold"}
  PROVE  hold \cap Reached = {}
<1>t. /\ TypeOK /\ slot \in Edges /\ RootsNow \subseteq Obj /\ hold \subseteq Obj
      /\ NoObj \notin Obj /\ Root \cap Inner = {}
  BY MappedHeap, HeapAssumption DEF CollectorInv, HeapInv, TypeOK
<1>1. \A o \in hold : Refs(o) \subseteq hold \X Field /\ ~NativeRoot(o)
  BY DEF CollectorInv, WhiteSound
<1>2. \A o \in hold : \A s \in Slot : slot[s] = o => s \in hold \X Field
  BY <1>1 DEF Refs
<1>3. move.new = NoObj
  BY DEF CollectorInv, HeapInv, Staging, NoMove
<1>4. \A s \in Root : slot[s] \notin hold
  BY <1>2, <1>t DEF Slot, Inner
<1>5. RootsNow \cap hold = {}
  BY <1>1, <1>3, <1>4, <1>t DEF RootsNow, Roots, Locked, NativeRoot
<1>6. ASSUME NEW p \in Obj \ hold, NEW f \in Field, slot[<<p, f>>] # NoObj
      PROVE  slot[<<p, f>>] \notin hold
  <2>1. <<p, f>> \in Slot /\ <<p, f>> \notin hold \X Field
    BY DEF Slot, Inner
  <2> QED  BY <1>2, <2>1
<1> QED  BY <1>5, <1>6, <1>t, ReachAvoids DEF Reached

\* WhiteIsGarbage: while CollectCycles cuts edges and gives its holds back, no
\* script and no native code can reach a container it holds.
THEOREM WhiteNodesAreGarbage == Spec => []WhiteIsGarbage
<1>1. CollectorInv => WhiteIsGarbage
  BY HeldLost, MappedHeap DEF WhiteIsGarbage, CollectorInv, HeapInv
<1> QED  BY <1>1, CollectorInvariant, PTL

\* Every container is reached from a root, a ticket or the collector's hands.
LEMMA AliveIsAnchored ==
  ASSUME CollectorInv, mode = "run", Drained, move.new \in Obj \cup {NoObj}, Hands = {},
         NEW o \in Lost
  PROVE  \E q \in Queued \cap Lost : o \in Reach(slot, {q})
<1>t. /\ TypeOK /\ slot \in Edges /\ RootsNow \subseteq Obj /\ Anchored \subseteq Obj
      /\ Alive \subseteq Found /\ NoObj \notin Obj
  BY MappedHeap, FindableNow, HeapAssumption DEF CollectorInv, HeapInv
<1>1. Anchored = RootsNow \cup Queued
  BY DEF Drained, Anchored, Dying, ToSet
<1>2. o \in Reach(slot, Anchored) /\ o \notin Reached /\ o \in Obj
  BY <1>t DEF Lost, Alive, Found
<1>3. PICK q \in Anchored : o \in Reach(slot, {q})
  BY <1>2, <1>t, ReachFromOne
<1>4. q \in Obj
  BY <1>t
<1>5. q \notin Reached
  <2> DEFINE Q == {q}
  <2> SUFFICES ASSUME Q \subseteq Reach(slot, RootsNow)
               PROVE  FALSE
    BY DEF Reached
  <2> HIDE DEF Q
  <2>1. Reach(slot, Q) \subseteq Reach(slot, RootsNow)
    BY <1>t, ReachWithin
  <2> QED  BY <2>1, <1>2, <1>3 DEF Q, Reached
<1>6. q \in Queued
  BY <1>1, <1>5, <1>t, ReachShut DEF Reached
<1>7. status[q] = "live"
  BY <1>6, TicketsFact DEF CollectorInv, HeapInv
<1> QED  BY <1>3, <1>4, <1>5, <1>6, <1>7 DEF Lost

\* GarbageHasCandidate: between two instructions, what no script can reach can
\* be found from a queued container that no script can reach.
THEOREM GarbageCanBeFound == Spec => []GarbageHasCandidate
<1>1. CollectorInv => GarbageHasCandidate
  <2> SUFFICES ASSUME CollectorInv, Quiescent
               PROVE  Lost \subseteq Reach(slot, Queued \cap Lost)
    BY MappedHeap DEF GarbageHasCandidate, CollectorInv, HeapInv
  <2>t. TypeOK /\ slot \in Edges /\ Queued \subseteq Obj
    BY MappedHeap, QueuedFinite DEF CollectorInv, HeapInv
  <2>1. mode = "run" /\ Drained /\ move.new \in Obj \cup {NoObj}
    BY DEF Quiescent, NoMove
  <2>2. Hands = {}
    BY DEF Quiescent, CollectorInv, HeapInv, Staging, Hands, Colored
  <2> SUFFICES ASSUME NEW o \in Lost
               PROVE  o \in Reach(slot, Queued \cap Lost)
    OBVIOUS
  <2>3. PICK q \in Queued \cap Lost : o \in Reach(slot, {q})
    BY <2>1, <2>2, AliveIsAnchored
  <2> DEFINE Q == {q}
             S == Queued \cap Lost
  <2>4. S \subseteq Obj /\ Q \subseteq S
    BY <2>3, <2>t
  <2> HIDE DEF Q, S
  <2>5. Q \subseteq Reach(slot, S)
    BY <2>4, <2>t, ReachShut
  <2>6. Reach(slot, Q) \subseteq Reach(slot, S)
    BY <2>4, <2>5, <2>t, ReachWithin
  <2> QED  BY <2>3, <2>6 DEF Q, S
<1> QED  BY <1>1, CollectorInvariant, PTL

\* ForcedCollectionIsComplete: CollectCycles(true) returns only when no
\* unreachable container is left.
THEOREM ForcedCollectionEndsClean == Spec => ForcedCollectionIsComplete
<1>1. CollectorInv /\ [Next]_vars =>
        [phase = "unhold" /\ phase' = "idle" /\ force => Garbage = {}]_vars
  <2> SUFFICES ASSUME CollectorInv, Next, phase = "unhold", phase' = "idle", force
               PROVE  Garbage = {}
    OBVIOUS
  <2>1. PassEnds /\ hold = {}
    BY CuttingSteps DEF CollectorInv
  <2>2. CandidateCount = 0 /\ Drained /\ mode = "run" /\ move = NoMove
    BY <2>1 DEF PassEnds, CollectorInv, HeapInv, Staging
  <2>3. Queued = {}
    <3>1. IsFiniteSet(Queued)
      BY QueuedFinite, HeapAssumption, FS_Subset DEF CollectorInv, HeapInv
    <3> QED  BY <2>2, <3>1, FS_EmptySet DEF CandidateCount
  <2>4. Hands = {} /\ move.new = NoObj
    BY <2>1, <2>2 DEF Hands, NoMove
  <2>5. Lost = {}
    BY <2>2, <2>3, <2>4, AliveIsAnchored
  <2> QED  BY <2>5, MappedHeap DEF CollectorInv, HeapInv
<1>2. Spec => [][Next]_vars
  BY DEF Spec
<1> QED  BY <1>1, <1>2, CollectorInvariant, PTL DEF ForcedCollectionIsComplete

-----------------------------------------------------------------------------
(* NeoHeap implements GcHeap                                               *)

\* Whatever an instruction can name is reached from the roots.
LEMMA NamedReached ==
  ASSUME HeapInv
  PROVE  /\ RootsNow \subseteq Reached /\ Reached \subseteq Obj /\ Shut(slot, Reached)
         /\ \A s \in Regs \cup Addressable :
              /\ s \in Slot
              /\ s \in Root \/ s[1] \in Reached
              /\ slot[s] \in Reached \cup {NoObj}
<1>t. /\ TypeOK /\ slot \in [Slot -> Obj \cup {NoObj}] /\ NoObj \notin Obj /\ running \in Seq(Obj)
      /\ Regs \subseteq Slot /\ Addressable \subseteq Slot /\ Addressable \subseteq Inner
  BY HeapAssumption, AddressedSlots DEF HeapInv, TypeOK
<1>1. RootsNow \subseteq Reached /\ Reached \subseteq Obj /\ Shut(slot, Reached)
  BY <1>t, MappedHeap, ReachShut DEF Reached
<1>2. ASSUME NEW p \in Reached, NEW f \in Field
      PROVE  slot[<<p, f>>] \in Reached \cup {NoObj}
  BY <1>1 DEF Shut
<1>3. ASSUME NEW s \in Regs
      PROVE  (s \in Root \/ s[1] \in Reached) /\ slot[s] \in Reached \cup {NoObj}
  <2>1. CASE s \in Root
    <3>1. slot[s] \in RootsNow \cup {NoObj}
      BY <2>1 DEF RootsNow, Roots
    <3> QED  BY <2>1, <3>1, <1>1
  <2>2. CASE s \notin Root
    <3>1. PICK p \in Obj, f \in Field : s = <<p, f>>
      BY <2>2, <1>t DEF Slot, Inner
    <3>2. running # <<>> /\ p = Last(running)
      BY <3>1, <1>t, AddressedOwners DEF HeapInv
    <3>3. p \in ToSet(running)
      BY <3>2, <1>t, FrontFacts
    <3>4. p \in Reached
      BY <3>1, <3>3, <1>t, <1>1 DEF RootsNow, Roots
    <3> QED  BY <3>1, <3>4, <1>2
  <2> QED  BY <2>1, <2>2
<1>4. ASSUME NEW s \in Addressable
      PROVE  s[1] \in Reached /\ slot[s] \in Reached \cup {NoObj}
  <2>1. PICK p \in Obj, f \in Field : s = <<p, f>>
    BY <1>t DEF Inner
  <2>2. PICK r \in Regs : slot[r] = p
    BY <2>1, <1>t, AddressedOwners DEF HeapInv
  <2>3. p \in Reached
    BY <2>1, <2>2, <1>3, <1>t
  <2> QED  BY <2>1, <2>3, <1>2
<1> QED  BY <1>t, <1>1, <1>3, <1>4

\* A container no slot refers to is out of every script's reach.
LEMMA UnreferencedLost ==
  ASSUME HeapInv, NEW o \in Obj, Refs(o) = {}, o # move.new
  PROVE  o \notin Reached
<1> DEFINE W == {o}
<1>t. TypeOK /\ slot \in Edges /\ RootsNow \subseteq Obj /\ NoObj \notin Obj
  BY MappedHeap, HeapAssumption DEF HeapInv
<1>1. \A s \in Slot : slot[s] # o
  BY DEF Refs
<1>2. \A p \in Obj, f \in Field : <<p, f>> \in Slot
  BY <1>t, ChildSlots
<1>3. o \notin ToSet(running)
  <2> SUFFICES ASSUME o \in ToSet(running)
               PROVE  FALSE
    OBVIOUS
  <2>1. PICK i \in DOMAIN running : running[i] = o
    BY DEF ToSet
  <2> QED  BY <2>1, <1>1, <1>t, ChainNodes DEF HeapInv
<1>4. o \notin RootsNow
  <2>1. \A s \in Root : slot[s] # o
    BY <1>1 DEF Slot
  <2>2. o \notin Locked(slot, busy)
    BY <1>1, <1>2, HeapAssumption DEF Locked
  <2> QED  BY <2>1, <2>2, <1>3 DEF RootsNow, Roots
<1>5. W \subseteq Obj /\ RootsNow \cap W = {}
  BY <1>4
<1>6. \A p \in Obj \ W, f \in Field : slot[<<p, f>>] # NoObj => slot[<<p, f>>] \notin W
  BY <1>1, <1>2
<1> HIDE DEF W
<1>7. Reach(slot, RootsNow) \cap W = {}
  BY <1>t, <1>5, <1>6, ReachAvoids
<1> QED  BY <1>7 DEF W, Reached

\* The containers an instruction in progress sees through a raw pointer.
LEMMA BorrowedCases ==
  /\ move.op = "copy" => Borrowed = {slot[move.src]} \ {NoObj}
  /\ move.op = "drop" => Borrowed = {o \in {move.dst[1]} : status[o] = "live"}
  /\ move.op \notin {"copy", "drop"} => Borrowed = {}
  BY DEF Borrowed

LEMMA BorrowedNext ==
  /\ move'.op = "copy" => Borrowed' = {slot'[move'.src]} \ {NoObj}
  /\ move'.op = "drop" => Borrowed' = {o \in {move'.dst[1]} : status'[o] = "live"}
  /\ move'.op \notin {"copy", "drop"} => Borrowed' = {}
  BY DEF Borrowed

\* A step of an instruction, as the abstract heap allows it.
Executes ==
  /\ \A s \in Slot : slot'[s] # slot[s] =>
       /\ s \in Root \/ s[1] \in Reached \/ s[1] \in Borrowed
       /\ slot'[s] \in Reached \cup Borrowed \cup {NoObj}
  /\ Alive \subseteq Alive'
  /\ Alive' \ Alive \subseteq {move'.new}
  /\ move'.new \in Alive' \cup {NoObj}
  /\ move'.new # move.new => \A s \in Slot : slot[s] = NoObj \/ slot[s] # move'.new
  /\ ToSet(running') \subseteq Reached
  /\ Locked(slot', busy') \subseteq Reached
  /\ Borrowed' \subseteq Reached

\* What an instruction does to one slot it can name is such a step, when it
\* makes no container and pins nothing.
LEMMA OneSlotExecutes ==
  ASSUME HeapInv, NEW d \in Slot, \A s \in Slot : s # d => slot'[s] = slot[s],
         slot'[d] # slot[d] =>
           /\ d \in Root \/ d[1] \in Reached \/ d[1] \in Borrowed
           /\ slot'[d] \in Reached \cup Borrowed \cup {NoObj},
         slot'[d] = NoObj \/ d \in Regs \cup Addressable,
         UNCHANGED <<status, running, busy>>, move'.new = NoObj, Borrowed' \subseteq Reached
  PROVE  Executes
<1>t. RootsNow \subseteq Reached /\ busy \subseteq Obj /\ NoObj \notin Obj
  BY NamedReached, HeapAssumption DEF HeapInv, TypeOK
<1>1. Alive' = Alive
  BY DEF Alive
<1>2. ToSet(running) \subseteq Reached
  <2>1. running \in Seq(Obj)
    BY DEF HeapInv, TypeOK
  <2>2. ToSet(running) \subseteq RootsNow
    BY <2>1, <1>t DEF RootsNow, Roots, ToSet
  <2> QED  BY <2>2, <1>t
<1>3. ASSUME NEW a \in Locked(slot', busy')
      PROVE  a \in Reached
  <2>1. a \in busy /\ a \in Obj /\ slot'[<<a, LockField>>] = a /\ KindOf[a] = Asyncs
    BY <1>3, <1>t DEF Locked, HeapInv, RequestsSound
  <2>2. <<a, LockField>> \in Slot /\ <<a, LockField>> \notin Regs \cup Addressable
    BY <2>1, HeapAssumption, ChildSlots, NotOfAsyncs DEF HeapInv
  <2>3. slot[<<a, LockField>>] = a
    BY <2>1, <2>2, <1>t
  <2> QED  BY <2>1, <2>3, <1>t DEF RootsNow, Roots, Locked
<1> QED  BY <1>1, <1>2, <1>3 DEF Executes

\* Between the steps of a handler, with no release pending, only instructions
\* run.
LEMMA ExecuteStep ==
  ASSUME HeapInv, HeapInv', AsyncSound, Next, mode' = "run", Drained, phase = "idle"
  PROVE  Executes
<1>t. /\ TypeOK /\ TypeOK' /\ slot \in [Slot -> Obj \cup {NoObj}] /\ NoObj \notin Obj
      /\ running \in Seq(Obj) /\ busy \subseteq Obj /\ Regs \subseteq Slot /\ Frame \subseteq Regs
      /\ status \in [Obj -> {"free", "live", "freeing"}]
  BY HeapAssumption, AddressedSlots DEF HeapInv, TypeOK
<1>r. mode = "run" /\ (Mutator \/ Continue \/ (\E all \in BOOLEAN : Collect(all)) \/ Collector)
  BY RunSteps
<1>n. /\ RootsNow \subseteq Reached /\ Reached \subseteq Obj /\ Shut(slot, Reached)
      /\ \A s \in Regs \cup Addressable :
           s \in Slot /\ (s \in Root \/ s[1] \in Reached) /\ slot[s] \in Reached \cup {NoObj}
  BY NamedReached
<1>k. \A a \in Locked(slot, busy) : a \in Reached /\ a \in Obj /\ KindOf[a] = Asyncs
  BY <1>n, <1>t DEF RootsNow, Roots, Locked, HeapInv, RequestsSound
<1>p. \A o \in ToSet(running) : o \in Reached
  <2>1. \A o \in ToSet(running) : o \in Obj
    BY <1>t DEF ToSet
  <2> QED  BY <2>1, <1>n, <1>t DEF RootsNow, Roots
<1>1. ASSUME NEW d \in Slot, Release(d), d \in Regs \cup Addressable, UNCHANGED <<status, running, busy>>,
             move'.new = NoObj, Borrowed' \subseteq Reached
      PROVE  Executes
  <2>1. slot'[d] = NoObj /\ \A s \in Slot : s # d => slot'[s] = slot[s]
    BY <1>1, <1>t, ReleaseCases
  <2> QED  BY <1>1, <1>n, <2>1, OneSlotExecutes
<1>2. ASSUME Mutator
      PROVE  move = NoMove /\ Borrowed = {}
  <2>1. Quiescent
    BY <1>2 DEF Mutator, Alloc, StartMove, Drop, Resume, Yield, AsyncRequest, AsyncDispatch
  <2>2. move = NoMove /\ move.op = "none"
    BY <2>1 DEF Quiescent, NoMove
  <2> QED  BY <2>2, BorrowedCases
<1>3. ASSUME NEW o \in Obj, NEW d \in Slot, Alloc(o, d)
      PROVE  Executes
  <2>1. /\ d \in Regs /\ Release(d) /\ running' = running /\ busy' = busy \ {o}
        /\ status[o] = "free" /\ status' = [status EXCEPT ![o] = "live"]
        /\ move'.op = "new" /\ move'.new = o
    BY <1>3 DEF Alloc
  <2>2. slot'[d] = NoObj /\ \A s \in Slot : s # d => slot'[s] = slot[s]
    BY <2>1, <1>t, ReleaseCases
  <2>3. Alive \subseteq Alive' /\ Alive' \ Alive \subseteq {o} /\ o \in Alive'
    BY <2>1, <1>t DEF Alive
  <2>4. \A s \in Slot : slot[s] # o
    BY <2>1, <1>r, <1>t DEF HeapInv, SlotsSound
  <2>5. \A a \in Obj : <<a, LockField>> \in Slot
    BY HeapAssumption, ChildSlots, <1>t
  <2>6. Locked(slot', busy') \subseteq Locked(slot, busy)
    BY <2>1, <2>2, <2>5, <1>t DEF Locked
  <2>7. Borrowed' = {}
    BY <2>1, BorrowedNext
  <2>8. \A s \in Slot : slot'[s] # slot[s] => s \in Regs /\ slot'[s] = NoObj
    BY <2>1, <2>2
  <2> QED  BY <2>1, <2>3, <2>4, <2>6, <2>7, <2>8, <1>k, <1>n, <1>p DEF Executes
<1>4. ASSUME NEW d \in Slot, NEW s \in Slot, StartMove(d, s)
      PROVE  Executes
  <2>1. /\ d \in Regs \cup Addressable /\ s \in Regs \cup Addressable /\ d # s /\ Release(d)
        /\ UNCHANGED <<status, running, busy>>
        /\ move'.op = "copy" /\ move'.src = s /\ move'.new = NoObj
    BY <1>4 DEF StartMove
  <2>2. slot'[s] = slot[s]
    BY <2>1, <1>t, ReleaseCases
  <2>3. Borrowed' \subseteq Reached
    BY <2>1, <2>2, <1>n, BorrowedNext
  <2> QED  BY <2>1, <2>3, <1>1
<1>5. ASSUME NEW s \in Slot, Drop(s)
      PROVE  Executes
  <2>1. /\ s \in Regs \cup Addressable /\ Release(s) /\ UNCHANGED <<status, running, busy, move>>
    BY <1>5 DEF Drop
  <2>2. move'.new = NoObj /\ Borrowed' \subseteq Reached
    BY <2>1, <1>2, <1>5, BorrowedNext DEF Mutator, NoMove
  <2> QED  BY <2>1, <2>2, <1>1
<1>6. ASSUME UNCHANGED <<slot, status, busy, move>>, Mutator, ToSet(running') \subseteq Reached
      PROVE  Executes
  <2>1. Alive' = Alive /\ move.new = NoObj
    BY <1>2, <1>6 DEF Alive, NoMove
  <2>2. Borrowed' = {}
    BY <1>2, <1>6, BorrowedNext DEF NoMove
  <2>3. Locked(slot', busy') \subseteq Reached
    BY <1>6, <1>k
  <2> QED  BY <1>6, <2>1, <2>2, <2>3 DEF Executes
<1>7. ASSUME NEW r \in Slot, Resume(r)
      PROVE  Executes
  <2>1. /\ r \in Frame /\ running' = Append(running, slot[r]) /\ slot[r] # NoObj
        /\ UNCHANGED <<slot, status, busy, move>>
    BY <1>7 DEF Resume
  <2>2. slot[r] \in Reached /\ slot[r] \in Obj
    BY <2>1, <1>n, <1>t
  <2>3. ToSet(running') = ToSet(running) \cup {slot[r]}
    BY <2>1, <2>2, <1>t, AppendFacts
  <2> QED  BY <2>1, <2>2, <2>3, <1>6, <1>7, <1>p DEF Mutator
<1>8. CASE Yield
  <2>1. running # <<>> /\ running' = Front(running) /\ UNCHANGED <<slot, status, busy, move>>
    BY <1>8 DEF Yield
  <2>2. ToSet(running') \subseteq ToSet(running)
    BY <2>1, <1>t, FrontFacts
  <2> QED  BY <2>1, <2>2, <1>6, <1>8, <1>p DEF Mutator
<1>9. ASSUME NEW r \in Slot, NEW c \in Slot \cup {NoSlot}, AsyncRequest(r, c)
      PROVE  Executes
  <2> DEFINE a == slot[r]
             v == Callback(c)
  <2>1. /\ r \in Regs /\ c \in Regs \cup {NoSlot} /\ a # NoObj /\ busy' = busy \cup {a}
        /\ slot' = [slot EXCEPT ![<<a, CallbackField>>] = v, ![<<a, LockField>>] = a]
        /\ UNCHANGED <<status, running, move>>
    BY <1>9 DEF AsyncRequest
  <2>2. a \in Reached /\ v \in Reached \cup {NoObj}
    BY <2>1, <1>n DEF Callback
  <2> HIDE DEF a, v
  <2>3. \A s \in Slot : slot'[s] # slot[s] => s[1] = a /\ slot'[s] \in {a, v}
    <3>1. \A s \in Slot : slot'[s] = slot[s] \/ s = <<a, CallbackField>> \/ s = <<a, LockField>>
      BY <2>1, <1>t
    <3>2. \A s \in Slot : slot'[s] \in {a, v, slot[s]}
      BY <2>1, <1>t
    <3> QED  BY <3>1, <3>2
  <2>4. \A x \in Obj : <<x, LockField>> \in Slot
    BY HeapAssumption, ChildSlots, <1>t
  <2>5. \A x \in Locked(slot', busy') : x \in Locked(slot, busy) \/ x = a
    <3>1. \A x \in Obj : x # a => slot'[<<x, LockField>>] = slot[<<x, LockField>>]
      <4>1. \A x \in Obj : <<x, LockField>>[1] = x
        OBVIOUS
      <4> QED  BY <4>1, <2>3, <2>4
    <3>2. busy' \subseteq Obj
      BY <1>t DEF TypeOK
    <3> QED  BY <2>1, <3>1, <3>2 DEF Locked
  <2>6. Alive' = Alive /\ move.new = NoObj /\ move.op = "none"
    BY <1>2, <1>9, <2>1 DEF Alive, NoMove, Mutator
  <2>7. Borrowed' = {}
    BY <2>1, <2>6, BorrowedNext
  <2> QED  BY <2>1, <2>2, <2>3, <2>5, <2>6, <2>7, <1>k, <1>p DEF Executes
<1>10. ASSUME NEW a \in Obj, NEW d \in Slot, AsyncDispatch(a, d)
       PROVE  Executes
  <2>1. /\ a \in busy /\ slot[<<a, LockField>>] = a /\ d \in Regs
        /\ slot' = [slot EXCEPT ![d] = slot[<<a, CallbackField>>]]
        /\ UNCHANGED <<status, running, busy>> /\ move'.op = "unlock" /\ move'.new = NoObj
    BY <1>10, <1>t DEF AsyncDispatch
  <2>2. a \in Reached
    BY <2>1, <1>k DEF Locked
  <2>3. slot[<<a, CallbackField>>] \in Reached \cup {NoObj}
    BY <2>2, <1>n, HeapAssumption DEF Shut
  <2>4. Borrowed' \subseteq Reached
    BY <2>1, BorrowedNext
  <2>5. slot'[d] \in Reached \cup {NoObj} /\ \A s \in Slot : s # d => slot'[s] = slot[s]
    BY <2>1, <2>3, <1>t
  <2> QED  BY <2>1, <2>4, <2>5, <1>n, OneSlotExecutes
<1>11. CASE MoveCopies
  <2> DEFINE d == move.dst
             v == IF move.op = "new" THEN move.new ELSE slot[move.src]
  <2>1. /\ slot' = [slot EXCEPT ![d] = v] /\ d \in Regs \cup Addressable
        /\ UNCHANGED <<status, running, busy>> /\ move' = NoMove
    BY <1>11 DEF MoveCopies, HeapInv, MoveSound
  <2>2. v \in Reached \cup Borrowed \cup {NoObj}
    <3>1. CASE move.op = "new"
      <4>1. v \in RootsNow \cup {NoObj}
        BY <3>1 DEF RootsNow, Roots
      <4> QED  BY <4>1, <1>n
    <3>2. CASE move.op = "copy"
      BY <3>2, BorrowedCases
    <3> QED  BY <3>1, <3>2, <1>11 DEF MoveCopies
  <2>3. move'.new = NoObj /\ Borrowed' \subseteq Reached
    BY <2>1, BorrowedNext DEF NoMove
  <2> HIDE DEF d, v
  <2>4. slot'[d] = v /\ d \in Slot /\ \A s \in Slot : s # d => slot'[s] = slot[s]
    BY <2>1, <1>n, <1>t
  <2> QED  BY <2>1, <2>2, <2>3, <2>4, <1>n, OneSlotExecutes
<1>12. CASE Unlock
  <2>1. PICK a \in Locked(slot, busy) : move.dst = <<a, LockField>>
    BY <1>12, <1>r, AsyncShape DEF Unlock
  <2> DEFINE d == <<a, LockField>>
  <2>2. /\ Release(d) /\ UNCHANGED <<status, running, busy>>
        /\ move'.op = "drop" /\ move'.dst = <<a, CallbackField>> /\ move'.new = NoObj
    BY <1>12, <2>1 DEF Unlock
  <2>3. a \in Reached /\ d \in Slot /\ d[1] = a
    BY <1>k, <1>t, HeapAssumption, ChildSlots
  <2> HIDE DEF d
  <2>4. Borrowed' \subseteq Reached
    BY <2>2, <2>3, BorrowedNext
  <2>5. slot'[d] = NoObj /\ \A s \in Slot : s # d => slot'[s] = slot[s]
    BY <2>2, <2>3, <1>t, ReleaseCases
  <2> QED  BY <2>2, <2>3, <2>4, <2>5, OneSlotExecutes
<1>13. CASE DropCallback
  <2>1. PICK a \in Obj : move.dst = <<a, CallbackField>>
    BY <1>13, <1>r, AsyncShape DEF DropCallback
  <2> DEFINE d == <<a, CallbackField>>
  <2>2. Release(d) /\ UNCHANGED <<status, running, busy>> /\ move' = NoMove /\ move.op = "drop"
    BY <1>13, <2>1 DEF DropCallback
  <2>3. d \in Slot /\ d[1] = a
    BY <1>t, HeapAssumption, ChildSlots
  <2>4. slot[d] # NoObj => status[a] = "live"
    <3>1. slot[d] # NoObj => status[a] # "free"
      BY <1>r, HeapAssumption DEF HeapInv, SlotsSound
    <3>2. status[a] # "freeing"
      BY <1>r, <1>t DEF AsyncSound, Drained
    <3> QED  BY <3>1, <3>2, <1>t
  <2>5. Borrowed = {o \in {a} : status[o] = "live"}
    <3>1. move.dst[1] = a
      BY <2>1
    <3> QED  BY <2>2, <3>1, BorrowedCases
  <2> HIDE DEF d
  <2>6. slot[d] # NoObj => d[1] \in Borrowed
    BY <2>3, <2>4, <2>5
  <2>7. move'.new = NoObj /\ Borrowed' \subseteq Reached
    BY <2>2, BorrowedNext DEF NoMove
  <2>8. slot'[d] = NoObj /\ \A s \in Slot : s # d => slot'[s] = slot[s]
    BY <2>2, <2>3, <1>t, ReleaseCases
  <2> QED  BY <2>2, <2>3, <2>6, <2>7, <2>8, OneSlotExecutes
<1>14. CASE \E all \in BOOLEAN : Collect(all)
  <2>1. UNCHANGED <<slot, status, running, busy, move>> /\ move = NoMove
    BY <1>14 DEF Collect, Quiescent
  <2>2. Alive' = Alive /\ Borrowed' = {} /\ move.new = NoObj
    BY <2>1, BorrowedNext DEF Alive, NoMove
  <2> QED  BY <2>1, <2>2, <1>k, <1>p DEF Executes
<1>15. Continue => MoveCopies \/ Unlock \/ DropCallback
  BY DEF Continue, PopDestroy, FreeChild, FreeDone, Drained
<1>16. ~Collector
  BY DEF Collector, PopRoot, PopEnds, Trace, TraceEnds, Scan, Blacken, BlackenEnds, Hold, HoldEnds,
     ClearSlot, ClearEnds, Unhold, PassEnds
<1>17. CASE Mutator
  BY <1>17, <1>3, <1>4, <1>5, <1>7, <1>8, <1>9, <1>10 DEF Mutator
<1> QED  BY <1>r, <1>11, <1>12, <1>13, <1>14, <1>15, <1>16, <1>17

\* A step of the runtime's own, as the abstract heap allows it.
Reclaims ==
  /\ \A s \in Slot : slot'[s] # slot[s] => s \notin Root /\ s[1] \notin Reached /\ slot'[s] = NoObj
  /\ Alive' \subseteq Alive
  /\ (Alive \ Alive') \cap Reached = {}
  /\ Borrowed' \subseteq Borrowed \cap Alive'
  /\ ToSet(running') = ToSet(running)
  /\ Locked(slot', busy') = Locked(slot, busy)
  /\ move'.new = move.new

\* What destroys unreachable containers and empties their slots is such a step.
LEMMA CutReclaims ==
  ASSUME HeapInv, HeapInv', mode' = "run", UNCHANGED <<running, busy, move>>,
         \A p \in Reached, f \in Field : slot'[<<p, f>>] = slot[<<p, f>>],
         \A s \in Root : slot'[s] = slot[s],
         \A s \in Slot : slot'[s] = slot[s] \/ slot'[s] = NoObj,
         Alive' \subseteq Alive, Alive \cap Reached \subseteq Alive'
  PROVE  Reclaims
<1>t. /\ RootsNow \subseteq Reached /\ Reached \subseteq Obj /\ NoObj \notin Obj /\ busy \subseteq Obj
      /\ slot' \in [Slot -> Obj \cup {NoObj}]
  BY NamedReached, HeapAssumption DEF HeapInv, TypeOK
<1>1. \A s \in Slot : slot'[s] # slot[s] => s \notin Root /\ s[1] \notin Reached /\ slot'[s] = NoObj
  <2> SUFFICES ASSUME NEW s \in Slot, slot'[s] # slot[s]
               PROVE  s \notin Root /\ s[1] \notin Reached /\ slot'[s] = NoObj
    OBVIOUS
  <2>1. s \notin Root
    OBVIOUS
  <2>2. PICK p \in Obj, f \in Field : s = <<p, f>>
    BY <2>1 DEF Slot, Inner
  <2> QED  BY <2>1, <2>2
<1>2. Locked(slot', busy') = Locked(slot, busy)
  <2>1. ASSUME NEW a \in busy, slot[<<a, LockField>>] = a
        PROVE  slot'[<<a, LockField>>] = a
    <3>1. a \in Reached
      BY <2>1, <1>t DEF RootsNow, Roots, Locked
    <3> QED  BY <2>1, <3>1, HeapAssumption
  <2>2. ASSUME NEW a \in busy, slot'[<<a, LockField>>] = a
        PROVE  slot[<<a, LockField>>] = a
    <3>1. <<a, LockField>> \in Slot /\ a # NoObj
      BY <1>t, HeapAssumption, ChildSlots DEF HeapInv
    <3> QED  BY <2>2, <3>1
  <2> QED  BY <2>1, <2>2 DEF Locked
<1>3. Borrowed' \subseteq Borrowed \cap Alive'
  <2>1. CASE move.op = "copy"
    <3>1. move.src \in Slot
      BY <2>1 DEF HeapInv, MoveSound
    <3>2. Borrowed' = {slot'[move.src]} \ {NoObj} /\ Borrowed = {slot[move.src]} \ {NoObj}
      BY <2>1, BorrowedCases, BorrowedNext
    <3>3. slot'[move.src] # NoObj => slot'[move.src] = slot[move.src] /\ slot'[move.src] \in Alive'
      BY <3>1, <1>t DEF HeapInv, SlotsSound, Alive
    <3> QED  BY <3>2, <3>3
  <2>2. CASE move.op = "drop"
    <3>1. PICK a \in Obj : move.dst[1] = a
      BY <2>2 DEF HeapInv, MoveSound
    <3>2. Borrowed' = {o \in {a} : status'[o] = "live"} /\ Borrowed = {o \in {a} : status[o] = "live"}
      BY <2>2, <3>1, BorrowedCases, BorrowedNext
    <3> QED  BY <3>1, <3>2 DEF Alive
  <2>3. CASE move.op \notin {"copy", "drop"}
    BY <2>3, BorrowedNext
  <2> QED  BY <2>1, <2>2, <2>3
<1> QED  BY <1>1, <1>2, <1>3 DEF Reclaims

\* What a Free* works on or the destroy queue holds is out of reach.
LEMMA DyingLost ==
  ASSUME HeapInv, mode = "run", NEW o \in Dying
  PROVE  o \in Obj /\ o \notin Reached
<1>t. TypeOK /\ RefCountExact /\ NoObj \notin Obj /\ destroyQ \in Seq(Obj)
  BY HeapAssumption DEF HeapInv, TypeOK
<1>1. o \in Obj /\ rc[o] = 0 /\ (o \in ToSet(destroyQ) \/ status[o] = "freeing")
  <2>1. CASE o \in ToSet(destroyQ)
    <3>1. ToSet(destroyQ) \subseteq Obj
      BY <1>t DEF ToSet
    <3> QED  BY <2>1, <3>1, DestroyFact DEF HeapInv
  <2>2. CASE o = freeing /\ freeing # NoObj
    BY <2>2, <1>t, DestroyFact DEF HeapInv, TypeOK
  <2> QED  BY <2>1, <2>2 DEF Dying
<1>2. Refs(o) = {}
  BY <1>1, <1>t, UncountedNodes
<1>3. o # move.new
  BY <1>1, <1>t DEF HeapInv, MoveSound
<1> QED  BY <1>1, <1>2, <1>3, UnreferencedLost

\* While the destroy queue drains or the collector runs, only they step.
LEMMA ReclaimStep ==
  ASSUME CollectorInv, HeapInv', Next, mode' = "run", ~Drained \/ phase # "idle"
  PROVE  Reclaims
<1>t. /\ HeapInv /\ TypeOK /\ TypeOK' /\ slot \in [Slot -> Obj \cup {NoObj}] /\ NoObj \notin Obj
      /\ destroyQ \in Seq(Obj) /\ status \in [Obj -> {"free", "live", "freeing"}]
      /\ Root \subseteq Slot /\ Root \cap Inner = {} /\ Reached \subseteq Obj
  BY HeapAssumption, NamedReached DEF CollectorInv, HeapInv, TypeOK, Slot
<1>1. mode = "run" /\ (Mutator \/ Continue \/ (\E all \in BOOLEAN : Collect(all)) \/ Collector)
  BY <1>t, RunSteps
<1>2. ~Quiescent
  BY DEF Quiescent
<1>3. ~Mutator /\ ~\E all \in BOOLEAN : Collect(all)
  BY <1>2 DEF Mutator, Alloc, StartMove, Drop, Resume, Yield, AsyncRequest, AsyncDispatch, Collect
<1>4. ~MoveCopies /\ ~Unlock /\ ~DropCallback
  <2>1. phase # "idle" => move.op = "none"
    BY <1>t DEF HeapInv, Staging, NoMove
  <2> QED  BY <2>1 DEF MoveCopies, Unlock, DropCallback
<1>5. \/ PopDestroy
      \/ \E f \in Field : FreeChild(f)
      \/ FreeDone
      \/ Collector
  BY <1>1, <1>3, <1>4 DEF Continue
<1>6. UNCHANGED <<running, busy, move>>
  BY <1>5 DEF PopDestroy, FreeChild, FreeDone, Collector, PopRoot, PopEnds, Trace, TraceEnds, Scan,
     Blacken, BlackenEnds, Hold, HoldEnds, ClearSlot, ClearEnds, Unhold, PassEnds
<1>7. ASSUME slot' = slot, Alive' \subseteq Alive, Alive \cap Reached \subseteq Alive'
      PROVE  Reclaims
  BY <1>6, <1>7, <1>t, CutReclaims
<1>8. ASSUME NEW p \in Obj \ Reached, NEW f \in Field, status' = status,
             slot' = [slot EXCEPT ![<<p, f>>] = NoObj]
      PROVE  Reclaims
  <2>1. <<p, f>> \in Slot /\ <<p, f>> \notin Root
    BY <1>t DEF Slot, Inner
  <2>2. \A q \in Reached, g \in Field : <<q, g>> \in Slot /\ <<q, g>> # <<p, f>>
    BY <1>t DEF Slot, Inner
  <2>3. Alive' = Alive
    BY <1>8 DEF Alive
  <2>4. \A s \in Slot : slot'[s] = IF s = <<p, f>> THEN NoObj ELSE slot[s]
    BY <1>8, <2>1, <1>t
  <2>5. \A q \in Reached, g \in Field : slot'[<<q, g>>] = slot[<<q, g>>]
    BY <2>2, <2>4
  <2>6. \A s \in Root : slot'[s] = slot[s]
    BY <2>1, <2>4, <1>t
  <2>7. \A s \in Slot : slot'[s] = slot[s] \/ slot'[s] = NoObj
    BY <2>4
  <2>8. Alive' \subseteq Alive /\ Alive \cap Reached \subseteq Alive'
    BY <2>3
  <2> QED  BY <1>6, <1>t, <2>5, <2>6, <2>7, <2>8, CutReclaims
<1>9. CASE PopDestroy
  <2> DEFINE o == Last(destroyQ)
  <2>1. destroyQ # <<>> /\ slot' = slot
    BY <1>9 DEF PopDestroy
  <2>2. status' = status \/ status' = [status EXCEPT ![o] = "freeing"]
    BY <1>9, Zenon DEF PopDestroy
  <2>3. o \in Obj /\ o \in ToSet(destroyQ)
    BY <2>1, <1>t, FrontFacts
  <2> HIDE DEF o
  <2>4. o \notin Reached
    BY <2>3, <1>1, <1>t, DyingLost DEF Dying
  <2>5. Alive' \subseteq Alive /\ Alive \cap Reached \subseteq Alive'
    BY <2>2, <2>3, <2>4, <1>t DEF Alive
  <2> QED  BY <2>1, <2>5, <1>7
<1>10. ASSUME NEW f \in Field, FreeChild(f)
       PROVE  Reclaims
  <2>1. freeing \in Obj /\ freeing \notin Reached
    BY <1>1, <1>10, <1>t, DyingLost DEF FreeChild, Dying, TypeOK
  <2>2. status' = status /\ Release(<<freeing, f>>) /\ <<freeing, f>> \in Slot
    BY <1>10, <2>1, <1>t, ChildSlots DEF FreeChild
  <2>3. slot' = [slot EXCEPT ![<<freeing, f>>] = NoObj]
    BY <2>2, <1>t, ReleaseCases
  <2> QED  BY <2>1, <2>2, <2>3, <1>8
<1>11. CASE FreeDone
  <2>1. freeing \in Obj /\ slot' = slot /\ status' = [status EXCEPT ![freeing] = "free"]
    BY <1>11, <1>t DEF FreeDone, TypeOK
  <2>2. status[freeing] = "freeing"
    BY <2>1, <1>1, <1>t, DestroyFact DEF HeapInv
  <2>3. Alive' = Alive
    BY <2>1, <2>2, <1>t DEF Alive
  <2> QED  BY <2>1, <2>3, <1>7
<1>12. ASSUME NEW o \in Obj, NEW f \in Field, ClearSlot(o, f)
       PROVE  Reclaims
  <2>1. phase = "clear" /\ o \in hold /\ status' = status /\ slot[<<o, f>>] # NoObj
    BY <1>12 DEF ClearSlot
  <2>2. slot' = [slot EXCEPT ![<<o, f>>] = NoObj]
    BY <1>12, <2>1 DEF ClearSlot, Release
  <2>3. o \in Obj \ Reached
    BY <2>1, HeldLost
  <2> QED  BY <2>1, <2>2, <2>3, <1>8
<1>13. CASE Collector /\ ~\E o \in Obj, f \in Field : ClearSlot(o, f)
  <2>1. UNCHANGED <<slot, status>>
    BY <1>13 DEF Collector, PopRoot, PopEnds, Trace, TraceEnds, Scan, Blacken, BlackenEnds,
       Hold, HoldEnds, ClearEnds, Unhold, PassEnds
  <2>2. Alive' = Alive
    BY <2>1 DEF Alive
  <2> QED  BY <2>1, <2>2, <1>7
<1> QED  BY <1>5, <1>9, <1>10, <1>11, <1>12, <1>13

\* Counts, tickets, the destroy queue and the colours implement the abstract
\* heap (ImplementsGcHeap): no release, no Free* and no pass of CollectCycles
\* touches what a script or native code can still reach.
THEOREM HeapImplementsGcHeap == Spec => ImplementsGcHeap
<1>1. Init => Abstract!Init
  <2> SUFFICES ASSUME Init
               PROVE  Abstract!Init
    OBVIOUS
  <2>1. Drained /\ phase = "idle" /\ mode = "run" /\ move.new = NoObj /\ move.op = "none"
    BY DEF Init, Drained, NoMove
  <2>2. Chained \cup InFlight = {}
    BY DEF Init, Chained, InFlight, ToSet
  <2>3. {o \in Obj : status[o] = "live"} = {}
    BY DEF Init
  <2>4. Borrowed = {}
    BY <2>1, BorrowedCases
  <2>5. slot = [s \in Abstract!Slot |-> NoObj]
    BY DEF Init, Slot, Inner, Abstract!Slot, Abstract!Inner
  <2> QED  BY <2>1, <2>2, <2>3, <2>4, <2>5 DEF Abstract!Init
<1>2. ASSUME CollectorInv, CollectorInv', Next, mode' = "run"
      PROVE  Abstract!Execute \/ Abstract!Reclaim
  <2>t. HeapInv /\ HeapInv' /\ AsyncSound /\ TypeOK /\ Abstract!Slot = Slot
    BY <1>2 DEF CollectorInv, HeapInv, Abstract!Slot, Abstract!Inner, Slot, Inner
  <2>1. Abstract!Reachable = Reached /\ \A s : Abstract!Owned(s) <=> s \in Root \/ s[1] \in Reached
    BY <2>t, MappedHeap DEF Reachable, Abstract!Owned
  <2>2. /\ Chained = ToSet(running) /\ InFlight = Locked(slot, busy)
        /\ Chained' = ToSet(running') /\ InFlight' = Locked(slot', busy')
    BY DEF Chained, InFlight, Locked
  <2>3. CASE Drained /\ phase = "idle"
    <3>1. Executes
      BY <1>2, <2>t, <2>3, ExecuteStep
    <3> QED  BY <2>t, <2>1, <2>2, <2>3, <3>1 DEF Executes, Abstract!Execute, Alive
  <2>4. CASE ~Drained \/ phase # "idle"
    <3>1. Reclaims
      BY <1>2, <2>t, <2>4, ReclaimStep
    <3> QED  BY <2>t, <2>1, <2>2, <2>4, <3>1 DEF Reclaims, Abstract!Reclaim, Alive
  <2> QED  BY <2>3, <2>4
<1>3. CollectorInv /\ CollectorInv' /\ [Next]_vars => [Abstract!Next]_(Abstract!gcHeapVars)
  <2>1. CASE UNCHANGED vars
    <3>1. UNCHANGED <<slot, Alive, Chained, InFlight, move, Borrowed, Drained, phase, mode>>
      BY <2>1 DEF vars, Alive, Chained, InFlight, Borrowed, Drained
    <3> QED  BY <3>1 DEF Abstract!gcHeapVars, Alive
  <2>2. ASSUME Next, mode' # "run"
        PROVE  Abstract!Next
    BY <2>2 DEF Abstract!Next
  <2>3. ASSUME CollectorInv, CollectorInv', Next, mode' = "run"
        PROVE  Abstract!Next
    BY <2>3, <1>2 DEF Abstract!Next
  <2> QED  BY <2>1, <2>2, <2>3
<1> QED  BY <1>1, <1>3, CollectorInvariant, PTL DEF Spec, ImplementsGcHeap, Abstract!Spec

=============================================================================
