--------------------------- MODULE NeoHeapProofs ---------------------------
(***************************************************************************)
(* Proofs about NeoHeap: HeapInv is an inductive invariant, and the safety *)
(* properties follow from it.                                              *)
(***************************************************************************)
EXTENDS NeoHeap, DataFacts

USE DEF heapVars, queueVars, freeVars, runVars, gcVars

-----------------------------------------------------------------------------
(* The parts the actions are made of                                       *)

LEMMA SlotFinite == IsFiniteSet(Slot)
<1>1. IsFiniteSet(Obj \X Field)
  BY HeapAssumption, FS_Product
<1>2. IsFiniteSet(Global \cup Local)
  BY HeapAssumption, FS_Union
<1> QED  BY <1>1, <1>2, FS_Union DEF Slot, Root, Inner

\* The registers and elements an instruction names are slots.
LEMMA AddressedSlots ==
  ASSUME TypeOK
  PROVE  /\ Frame \subseteq Slot /\ Regs \subseteq Slot
         /\ Addressable \subseteq Inner /\ Inner \subseteq Slot
         /\ Frame \subseteq Regs
<1>1. Inner \subseteq Slot /\ Root \subseteq Slot
  BY DEF Slot
<1>2. Frame \subseteq Slot
  <2>1. CASE running = <<>>
    BY <2>1, <1>1 DEF Frame, Root
  <2>2. CASE running # <<>>
    <3>1. Last(running) \in Obj
      BY <2>2, FrontFacts DEF TypeOK
    <3> QED  BY <3>1, <2>2, <1>1 DEF Frame, Inner
  <2> QED  BY <2>1, <2>2
<1>3. Regs \subseteq Slot /\ Frame \subseteq Regs
  BY <1>1, <1>2 DEF Regs, Root
<1>4. Elements \subseteq Inner
  <2> SUFFICES ASSUME NEW r \in Regs, slot[r] # NoObj, NEW f \in Field
               PROVE  <<slot[r], f>> \in Inner
    BY DEF Elements
  <2>1. slot[r] \in Obj
    BY <1>3 DEF TypeOK
  <2> QED  BY <2>1 DEF Inner
<1> QED  BY <1>1, <1>2, <1>3, <1>4 DEF Addressable

\* Every candidate is a node, and there are finitely many.
LEMMA QueuedFinite ==
  ASSUME TypeOK
  PROVE  Queued \subseteq Obj /\ CandidateCount \in Nat
<1>1. \A k \in Kind : ToSet(cand[k]) \subseteq Obj
  BY DEF TypeOK, ToSet
<1>2. Queued \subseteq Obj
  BY <1>1 DEF Queued
<1> QED  BY <1>2, HeapAssumption, FS_Subset, FS_CardinalityType DEF CandidateCount

\* Each queue serves one kind and holds a node once.
Tickets(c) ==
  \A k \in Kind : Distinct(c[k]) /\ \A o \in ToSet(c[k]) : KindOf[o] = k

LEMMA TicketsFact ==
  TicketsAreLive <=> Tickets(cand) /\ \A o \in Queued : status[o] = "live"
  BY DEF TicketsAreLive, Tickets, Queued, ToSet, Distinct

\* CancelCycleCandidate takes the one ticket of a node away.
LEMMA UnlinkedFacts ==
  ASSUME TypeOK, Tickets(cand), NEW o \in Obj
  PROVE  /\ Unlinked(o) \in [Kind -> Seq(Obj)]
         /\ Tickets(Unlinked(o))
         /\ \A k \in Kind : ToSet(Unlinked(o)[k]) = ToSet(cand[k]) \ {o}
<1>1. KindOf[o] \in Kind
  BY HeapAssumption
<1>2. \A k \in Kind : k # KindOf[o] => o \notin ToSet(cand[k])
  BY <1>1 DEF Tickets
<1> DEFINE q == cand[KindOf[o]]
<1>3. q \in Seq(Obj) /\ Distinct(q)
  BY <1>1 DEF TypeOK, Tickets
<1>4. CASE o \notin ToSet(q)
  BY <1>2, <1>4 DEF Unlinked, TypeOK
<1>5. CASE o \in ToSet(q)
  <2> DEFINE n == CHOOSE i \in DOMAIN q : q[i] = o
             p == RemoveAt(q, n)
  <2>1. n \in DOMAIN q /\ q[n] = o
    BY <1>5 DEF ToSet
  <2> HIDE DEF n
  <2>2. p \in Seq(Obj) /\ ToSet(p) = ToSet(q) \ {o} /\ Distinct(p)
    BY <2>1, <1>3, RemoveAtFacts
  <2>3. Unlinked(o) = [cand EXCEPT ![KindOf[o]] = p]
    BY <1>5 DEF Unlinked, n, TypeOK
  <2> HIDE DEF p
  <2>4. /\ Unlinked(o) \in [Kind -> Seq(Obj)]
        /\ \A k \in Kind : Unlinked(o)[k] = IF k = KindOf[o] THEN p ELSE cand[k]
    BY <2>2, <2>3, <1>1 DEF TypeOK
  <2>5. \A k \in Kind : ToSet(Unlinked(o)[k]) = ToSet(cand[k]) \ {o}
    BY <2>2, <2>4, <1>2
  <2>6. Tickets(Unlinked(o))
    BY <2>2, <2>4, <2>5 DEF Tickets
  <2> QED  BY <2>4, <2>5, <2>6
<1> QED  BY <1>4, <1>5

\* QueueContainerForCycleCheck adds at most the ticket of its argument.
LEMMA CycleCheckFacts ==
  ASSUME TypeOK, Tickets(cand), NEW o \in Obj
  PROVE  /\ CycleCheck(o) \in [Kind -> Seq(Obj)]
         /\ Tickets(CycleCheck(o))
         /\ \A k \in Kind : /\ ToSet(cand[k]) \subseteq ToSet(CycleCheck(o)[k])
                            /\ ToSet(CycleCheck(o)[k]) \subseteq ToSet(cand[k]) \cup {o}
<1>1. KindOf[o] \in Kind
  BY HeapAssumption
<1>2. CASE ~(mode = "run" /\ may[o] /\ o \notin Queued)
  BY <1>2 DEF CycleCheck, TypeOK
<1>3. CASE mode = "run" /\ may[o] /\ o \notin Queued
  <2> DEFINE q == cand[KindOf[o]]
             p == Append(q, o)
  <2>1. q \in Seq(Obj) /\ Distinct(q) /\ o \notin ToSet(q)
    BY <1>1, <1>3 DEF TypeOK, Tickets, Queued
  <2>2. p \in Seq(Obj) /\ ToSet(p) = ToSet(q) \cup {o} /\ Distinct(p)
    BY <2>1, AppendFacts
  <2>3. CycleCheck(o) = [cand EXCEPT ![KindOf[o]] = p]
    BY <1>3 DEF CycleCheck, TypeOK
  <2> HIDE DEF p
  <2>4. /\ CycleCheck(o) \in [Kind -> Seq(Obj)]
        /\ \A k \in Kind : CycleCheck(o)[k] = IF k = KindOf[o] THEN p ELSE cand[k]
    BY <2>2, <2>3, <1>1 DEF TypeOK
  <2>5. Tickets(CycleCheck(o))
    BY <2>2, <2>4 DEF Tickets
  <2> QED  BY <2>2, <2>4, <2>5
<1> QED  BY <1>2, <1>3

\* Child slots are slots, and children nodes.
LEMMA ChildSlots ==
  ASSUME TypeOK, NEW o \in Obj
  PROVE  /\ \A f \in Field : <<o, f>> \in Slot /\ <<o, f>> \in Inner
         /\ Kids(o) \subseteq Obj
<1>1. \A f \in Field : <<o, f>> \in Slot /\ <<o, f>> \in Inner
  BY DEF Slot, Inner
<1>2. \A f \in Field : slot[<<o, f>>] \in Obj \cup {NoObj}
  BY <1>1 DEF TypeOK
<1> QED  BY <1>1, <1>2 DEF Kids

\* What Var_Release does, case by case.
LEMMA ReleaseCases ==
  ASSUME TypeOK, NEW s \in Slot, Release(s)
  PROVE  /\ slot' = [slot EXCEPT ![s] = NoObj]
         /\ slot[s] = NoObj => rc' = rc /\ destroyQ' = destroyQ /\ cand' = cand
         /\ slot[s] # NoObj =>
              /\ slot[s] \in Obj
              /\ rc' = [rc EXCEPT ![slot[s]] = @ - 1]
              /\ rc[slot[s]] <= 1 => destroyQ' = Append(destroyQ, slot[s]) /\ cand' = cand
              /\ rc[slot[s]] > 1 => destroyQ' = destroyQ /\ cand' = CycleCheck(slot[s])
<1>1. slot[s] # NoObj => slot[s] \in Obj
  BY DEF TypeOK
<1>2. slot[s] # NoObj => rc[slot[s]] \in Int
  BY <1>1 DEF TypeOK
<1>3. slot[s] # NoObj => (rc[slot[s]] > 1 <=> ~(rc[slot[s]] <= 1))
  BY <1>2
<1> QED  BY <1>1, <1>3, Zenon DEF Release

\* Var_Release keeps the types of what it writes.
LEMMA ReleaseTypes ==
  ASSUME TypeOK, Tickets(cand), NEW s \in Slot, Release(s)
  PROVE  /\ slot' \in [Slot -> Obj \cup {NoObj}]
         /\ rc' \in [Obj -> Int]
         /\ cand' \in [Kind -> Seq(Obj)]
         /\ destroyQ' \in Seq(Obj)
         /\ Tickets(cand')
<1>1. slot' \in [Slot -> Obj \cup {NoObj}]
  BY ReleaseCases DEF TypeOK
<1>2. CASE slot[s] = NoObj
  BY <1>1, <1>2, ReleaseCases DEF TypeOK
<1>3. CASE slot[s] # NoObj
  <2> DEFINE o == slot[s]
  <2>1. o \in Obj /\ rc' = [rc EXCEPT ![o] = @ - 1] /\ rc[o] \in Int
    BY <1>3, ReleaseCases DEF TypeOK
  <2>2. rc' \in [Obj -> Int]
    BY <2>1 DEF TypeOK
  <2>3. rc[o] <= 1 => destroyQ' = Append(destroyQ, o) /\ cand' = cand
    BY <1>3, ReleaseCases
  <2>4. rc[o] > 1 => destroyQ' = destroyQ /\ cand' = CycleCheck(o)
    BY <1>3, ReleaseCases
  <2>5. destroyQ \in Seq(Obj) /\ cand \in [Kind -> Seq(Obj)]
    BY DEF TypeOK
  <2> HIDE DEF o
  <2>6. Append(destroyQ, o) \in Seq(Obj)
    BY <2>1, <2>5, AppendFacts
  <2>7. CycleCheck(o) \in [Kind -> Seq(Obj)] /\ Tickets(CycleCheck(o))
    BY <2>1, CycleCheckFacts
  <2>8. CASE rc[o] <= 1
    BY <2>8, <1>1, <2>2, <2>3, <2>5, <2>6
  <2>9. CASE rc[o] > 1
    BY <2>9, <1>1, <2>2, <2>4, <2>5, <2>7
  <2> QED  BY <2>1, <2>8, <2>9
<1> QED  BY <1>2, <1>3

-----------------------------------------------------------------------------
(* Types                                                                   *)

LEMMA TypeStep ==
  ASSUME TypeOK, TicketsAreLive, MoveSound, Next
  PROVE  TypeOK'
<1> USE AddressedSlots
<1>0. Tickets(cand)
  BY TicketsFact
<1>1. ASSUME NEW o \in Obj, NEW d \in Slot, Alloc(o, d)
      PROVE  TypeOK'
  BY <1>0, <1>1, ReleaseTypes DEF Alloc, TypeOK, Moves
<1>2. ASSUME NEW d \in Slot, NEW s \in Slot, StartMove(d, s)
      PROVE  TypeOK'
  BY <1>0, <1>2, ReleaseTypes DEF StartMove, TypeOK, Moves, Inner
<1>3. ASSUME NEW s \in Slot, Drop(s)
      PROVE  TypeOK'
  BY <1>0, <1>3, ReleaseTypes DEF Drop, TypeOK
<1>4. ASSUME NEW r \in Slot, Resume(r)
      PROVE  TypeOK'
  BY <1>4, AppendFacts DEF Resume, TypeOK
<1>5. CASE Yield
  BY <1>5, FrontFacts DEF Yield, TypeOK
<1>6. ASSUME NEW r \in Slot, NEW c \in Slot \cup {NoSlot}, AsyncRequest(r, c)
      PROVE  TypeOK'
  <2> DEFINE a == slot[r]
  <2>1. a \in Obj /\ Callback(c) \in Obj \cup {NoObj}
    BY <1>6 DEF AsyncRequest, Callback, TypeOK
  <2>2. slot' = [slot EXCEPT ![<<a, CallbackField>>] = Callback(c), ![<<a, LockField>>] = a]
    BY <1>6 DEF AsyncRequest
  <2>3. slot' \in [Slot -> Obj \cup {NoObj}]
    BY <2>1, <2>2 DEF TypeOK
  <2>4. rc' \in [Obj -> Int]
    BY <1>6 DEF AsyncRequest, TypeOK
  <2>5. may' \in [Obj -> BOOLEAN] /\ busy' \subseteq Obj
    BY <1>6, <2>1 DEF AsyncRequest, TypeOK
  <2> QED  BY <1>6, <2>3, <2>4, <2>5 DEF AsyncRequest, TypeOK
<1>7. ASSUME NEW a \in Obj, NEW d \in Slot, AsyncDispatch(a, d)
      PROVE  TypeOK'
  BY <1>7, HeapAssumption DEF AsyncDispatch, TypeOK, Moves, Inner
<1>8. CASE PopDestroy
  <2>1. Last(destroyQ) \in Obj /\ Front(destroyQ) \in Seq(Obj)
    BY <1>8, FrontFacts DEF PopDestroy, TypeOK
  <2>2. cand' \in [Kind -> Seq(Obj)]
    BY <1>0, <1>8, <2>1, UnlinkedFacts DEF PopDestroy
  <2> QED  BY <1>8, <2>1, <2>2 DEF PopDestroy, TypeOK
<1>9. ASSUME NEW f \in Field, FreeChild(f)
      PROVE  TypeOK'
  BY <1>0, <1>9, ReleaseTypes DEF FreeChild, TypeOK, Inner
<1>10. CASE FreeDone
  BY <1>10 DEF FreeDone, TypeOK
<1>11. CASE MoveCopies
  BY <1>11 DEF MoveCopies, TypeOK, MoveSound, Moves, NoMove
<1>12. CASE Unlock
  <2>1. PICK a \in Obj, f \in Field : move.dst = <<a, f>>
    BY <1>12 DEF Unlock, MoveSound
  <2>2. move.dst \in Slot /\ <<move.dst[1], CallbackField>> \in Slot
    BY <2>1, HeapAssumption DEF Inner
  <2> QED  BY <1>0, <1>12, <2>2, ReleaseTypes DEF Unlock, TypeOK, Moves
<1>13. CASE DropCallback
  <2>1. move.dst \in Slot
    BY <1>13 DEF DropCallback, MoveSound, Inner
  <2> QED  BY <1>0, <1>13, <2>1, ReleaseTypes DEF DropCallback, TypeOK, Moves, NoMove
<1>14. ASSUME NEW all \in BOOLEAN, Collect(all)
       PROVE  TypeOK'
  <2>1. PassBudget(all, CandidateCount) \in Nat
    BY QueuedFinite, HeapAssumption DEF PassBudget
  <2> QED  BY <1>14, <2>1 DEF Collect, TypeOK, Phases
<1>15. ASSUME NEW q \in Kind, PopRoot(q)
       PROVE  TypeOK'
  <2>1. Head(cand[q]) \in Obj /\ Tail(cand[q]) \in Seq(Obj)
    BY <1>15, TailFacts DEF PopRoot, TypeOK
  <2>2. (q % 7) + 1 \in Kind
    BY DEF Kind
  <2>3. rr' \in Kind /\ cand' \in [Kind -> Seq(Obj)] /\ budget' \in Nat
    BY <1>15, <2>1, <2>2 DEF PopRoot, TypeOK
  <2>4. /\ color' \in [Obj -> Colors] /\ scratch' \in [Obj -> Int]
        /\ todo' \subseteq Obj
    BY <1>15, <2>1 DEF PopRoot, TypeOK, Colors
  <2> QED  BY <1>15, <2>3, <2>4 DEF PopRoot, TypeOK
<1>16. CASE PopEnds
  BY <1>16 DEF PopEnds, TypeOK, Phases
<1>17. ASSUME NEW o \in Obj, Trace(o)
       PROVE  TypeOK'
  <2>1. \A c \in Obj : EdgeCount(o, c) \in Nat
    BY HeapAssumption, FS_Subset, FS_CardinalityType DEF EdgeCount
  <2>2. Kids(o) \subseteq Obj
    BY ChildSlots
  <2>3. color' \in [Obj -> Colors] /\ todo' \subseteq Obj
    BY <1>17, <2>2 DEF Trace, TypeOK, Colors
  <2>4. scratch' \in [Obj -> Int]
    BY <1>17, <2>1 DEF Trace, TypeOK
  <2> QED  BY <1>17, <2>3, <2>4 DEF Trace, TypeOK
<1>18. CASE TraceEnds
  BY <1>18 DEF TraceEnds, TypeOK, Phases
<1>19. CASE Scan
  BY <1>19 DEF Scan, TypeOK, Phases, Colors
<1>20. ASSUME NEW o \in Obj, Blacken(o)
       PROVE  TypeOK'
  <2>1. Kids(o) \subseteq Obj
    BY ChildSlots
  <2> QED  BY <1>20, <2>1 DEF Blacken, TypeOK, Colors
<1>21. CASE BlackenEnds
  BY <1>21 DEF BlackenEnds, TypeOK, Phases
<1>22. ASSUME NEW o \in Obj, Hold(o)
       PROVE  TypeOK'
  BY <1>0, <1>22, UnlinkedFacts DEF Hold, TypeOK
<1>23. CASE HoldEnds
  BY <1>23 DEF HoldEnds, TypeOK, Phases, Colors
<1>24. ASSUME NEW o \in Obj, NEW f \in Field, ClearSlot(o, f)
       PROVE  TypeOK'
  <2>1. <<o, f>> \in Slot
    BY DEF Inner
  <2>2. CASE slot[<<o, f>>] \in hold
    <3>1. PICK c \in Obj : c = slot[<<o, f>>]
      BY <1>24, <2>1 DEF ClearSlot, TypeOK
    <3>2. slot' = [slot EXCEPT ![<<o, f>>] = NoObj] /\ rc' = [rc EXCEPT ![c] = @ - 1]
      BY <1>24, <2>2, <3>1 DEF ClearSlot
    <3>3. slot' \in [Slot -> Obj \cup {NoObj}] /\ rc' \in [Obj -> Int]
      <4>1. rc[c] \in Int /\ rc \in [Obj -> Int] /\ slot \in [Slot -> Obj \cup {NoObj}]
        BY DEF TypeOK
      <4>2. rc' \in [Obj -> Int]
        BY <3>2, <4>1
      <4>3. slot' \in [Slot -> Obj \cup {NoObj}]
        BY <3>2, <4>1
      <4> QED  BY <4>2, <4>3
    <3> QED  BY <1>24, <2>2, <3>3 DEF ClearSlot, TypeOK
  <2>3. CASE slot[<<o, f>>] \notin hold
    BY <1>0, <1>24, <2>1, <2>3, ReleaseTypes DEF ClearSlot, TypeOK
  <2> QED  BY <2>2, <2>3
<1>25. CASE ClearEnds
  BY <1>25 DEF ClearEnds, TypeOK, Phases
<1>26. ASSUME NEW o \in Obj, Unhold(o)
       PROVE  TypeOK'
  <2>1. destroyQ' \in Seq(Obj) /\ cand' \in [Kind -> Seq(Obj)]
    <3>1. Append(destroyQ, o) \in Seq(Obj) /\ CycleCheck(o) \in [Kind -> Seq(Obj)]
      BY <1>0, AppendFacts, CycleCheckFacts DEF TypeOK
    <3>2. \/ destroyQ' = Append(destroyQ, o) /\ cand' = cand
          \/ destroyQ' = destroyQ /\ cand' = CycleCheck(o)
      BY <1>26 DEF Unhold
    <3> QED  BY <3>1, <3>2 DEF TypeOK
  <2>2. rc' \in [Obj -> Int] /\ hold' \subseteq Obj
    BY <1>26 DEF Unhold, TypeOK
  <2> QED  BY <1>26, <2>1, <2>2 DEF Unhold, TypeOK
<1>27. CASE PassEnds
  BY <1>27, QueuedFinite DEF PassEnds, TypeOK, Phases
<1>28. CASE BeginTeardown
  BY <1>28 DEF BeginTeardown, TypeOK
<1>29. ASSUME NEW s \in Slot, ReleaseRoot(s)
       PROVE  TypeOK'
  BY <1>0, <1>29, ReleaseTypes DEF ReleaseRoot, TypeOK
<1>30. ASSUME NEW a \in Obj, DiscardCompleted(a)
       PROVE  TypeOK'
  BY <1>0, <1>30, ReleaseTypes, HeapAssumption DEF DiscardCompleted, TypeOK, Inner
<1>31. CASE RootsGone
  BY <1>31 DEF RootsGone, TypeOK
<1>32. ASSUME NEW o \in Obj, SweepNext(o)
       PROVE  TypeOK'
  BY <1>32 DEF SweepNext, TypeOK
<1>33. ASSUME NEW f \in Field, SweepChild(f)
       PROVE  TypeOK'
  BY <1>0, <1>33, ReleaseTypes DEF SweepChild, TypeOK, Inner
<1>34. CASE SweepDone
  BY <1>34 DEF SweepDone, TypeOK
<1>35. CASE EndTeardown
  BY <1>35 DEF EndTeardown, TypeOK
<1>36. CASE Gone
  BY <1>36 DEF Gone, vars, TypeOK
<1> QED
  BY <1>1, <1>2, <1>3, <1>4, <1>5, <1>6, <1>7, <1>8, <1>9, <1>10, <1>11, <1>12, <1>13,
     <1>14, <1>15, <1>16, <1>17, <1>18, <1>19, <1>20, <1>21, <1>22, <1>23, <1>24, <1>25,
     <1>26, <1>27, <1>28, <1>29, <1>30, <1>31, <1>32, <1>33, <1>34, <1>35, <1>36
     DEF Next, Mutator, Continue, Collector, Teardown

-----------------------------------------------------------------------------
(* Counts                                                                  *)

\* Writing one slot changes a count by the new and by the old value.
LEMMA CountChange ==
  ASSUME NEW s \in Slot, NEW o, \A t \in Slot : t # s => slot'[t] = slot[t]
  PROVE  Count(slot', Slot, o) =
           Count(slot, Slot, o) + (IF slot'[s] = o THEN 1 ELSE 0) - (IF slot[s] = o THEN 1 ELSE 0)
<1>1. \A f, g : (\A t \in Slot : t # s => g[t] = f[t]) =>
        Count(g, Slot, o) = Count(f, Slot, o) + (IF g[s] = o THEN 1 ELSE 0) - (IF f[s] = o THEN 1 ELSE 0)
  BY SlotFinite, CountStore
<1> QED  BY <1>1

\* A slot that refers to a container is one of its references.
LEMMA CountedSlots ==
  ASSUME TypeOK, RefCountExact, NEW o \in Obj
  PROVE  /\ rc[o] \in Nat
         /\ rc[o] = Count(slot, Slot, o) + Held(o) /\ Count(slot, Slot, o) \in Nat
         /\ o \in hold => rc[o] >= 1
         /\ \A s \in Slot : slot[s] = o => rc[o] >= 1 + Held(o)
<1>1. rc[o] = Count(slot, Slot, o) + Held(o)
  BY DEF RefCountExact, Refs, Count
<1>2. /\ Count(slot, Slot, o) \in Nat
      /\ Count(slot, Slot, o) = 0 <=> \A s \in Slot : slot[s] # o
  BY CountZero, SlotFinite
<1>3. Held(o) \in {0, 1} /\ (o \in hold => Held(o) = 1)
  BY DEF Held
<1> QED  BY <1>1, <1>2, <1>3

\* What no slot refers to and the collector does not hold has the count zero.
LEMMA UncountedNodes ==
  ASSUME TypeOK, RefCountExact, NEW o \in Obj
  PROVE  rc[o] = 0 <=> Refs(o) = {} /\ o \notin hold
<1>1. Count(slot, Slot, o) = 0 <=> Refs(o) = {}
  BY CountZero, SlotFinite DEF Refs
<1>2. Held(o) = IF o \in hold THEN 1 ELSE 0
  BY DEF Held
<1> QED  BY <1>1, <1>2, CountedSlots

\* Var_Release of one slot keeps every count exact.
LEMMA ReleaseCounts ==
  ASSUME TypeOK, RefCountExact, NEW s \in Slot, Release(s), hold' = hold
  PROVE  RefCountExact'
<1> SUFFICES ASSUME NEW o \in Obj
             PROVE  rc'[o] = Count(slot', Slot, o) + Held(o)
  BY DEF RefCountExact, Refs, Count, Held
<1>1. Count(slot', Slot, o) = Count(slot, Slot, o) - (IF slot[s] = o THEN 1 ELSE 0)
  <2>1. NoObj # o /\ DOMAIN slot = Slot
    BY HeapAssumption DEF TypeOK
  <2>2. Count(slot, Slot, o) \in Nat
    BY CountedSlots
  <2>3. slot'[s] = NoObj /\ \A t \in Slot : t # s => slot'[t] = slot[t]
    BY <2>1, ReleaseCases
  <2>4. Count(slot', Slot, o) =
          Count(slot, Slot, o) + (IF slot'[s] = o THEN 1 ELSE 0) - (IF slot[s] = o THEN 1 ELSE 0)
    BY <2>3, CountChange
  <2> QED  BY <2>1, <2>2, <2>3, <2>4
<1>2. rc'[o] = rc[o] - (IF slot[s] = o THEN 1 ELSE 0)
  <2>1. rc[o] \in Int /\ NoObj # o
    BY HeapAssumption DEF TypeOK
  <2>2. CASE slot[s] = NoObj
    BY <2>1, <2>2, ReleaseCases
  <2>3. CASE slot[s] # NoObj
    <3>1. PICK c \in Obj : c = slot[s]
      BY <2>3 DEF TypeOK
    <3>2. rc' = [rc EXCEPT ![c] = @ - 1] /\ rc \in [Obj -> Int]
      BY <2>3, <3>1, ReleaseCases DEF TypeOK
    <3> QED  BY <2>1, <3>1, <3>2
  <2> QED  BY <2>2, <2>3
<1> QED  BY <1>1, <1>2, CountedSlots DEF Held

\* Storing a counted reference into an empty slot keeps every count exact.
LEMMA StoreCounts ==
  ASSUME TypeOK, RefCountExact, NEW s \in Slot, slot[s] = NoObj, hold' = hold,
         NEW v \in Obj \cup {NoObj},
         slot'[s] = v, \A t \in Slot : t # s => slot'[t] = slot[t],
         \A o \in Obj : rc'[o] = IF o = v THEN rc[o] + 1 ELSE rc[o]
  PROVE  RefCountExact'
<1> SUFFICES ASSUME NEW o \in Obj
             PROVE  rc'[o] = Count(slot', Slot, o) + Held(o)
  BY DEF RefCountExact, Refs, Count, Held
<1>1. NoObj # o /\ DOMAIN slot = Slot
  BY HeapAssumption DEF TypeOK
<1>3. Count(slot', Slot, o) =
        Count(slot, Slot, o) + (IF slot'[s] = o THEN 1 ELSE 0) - (IF slot[s] = o THEN 1 ELSE 0)
  BY CountChange
<1>4. Count(slot', Slot, o) = Count(slot, Slot, o) + (IF v = o THEN 1 ELSE 0)
  BY <1>1, <1>3, CountedSlots
<1> QED  BY <1>4, CountedSlots DEF Held

\* Both references an async request stores are counted.
LEMMA RequestCounts ==
  ASSUME TypeOK, RefCountExact, RequestsSound,
         NEW r \in Slot, NEW c \in Slot \cup {NoSlot}, AsyncRequest(r, c)
  PROVE  RefCountExact'
<1> DEFINE a == slot[r]
           v == Callback(c)
           p == <<a, CallbackField>>
           q == <<a, LockField>>
<1>1. a \in Obj /\ KindOf[a] = Asyncs /\ a \notin busy /\ mode = "run"
  BY DEF AsyncRequest, TypeOK, Quiescent
<1>2. v \in Obj \cup {NoObj} /\ v # a
  BY <1>1, HeapAssumption DEF AsyncRequest, TypeOK, Callback, Closures, Asyncs
<1>3. p # q /\ p \in Slot /\ q \in Slot
  BY <1>1, HeapAssumption, ChildSlots
<1>4. slot[p] = NoObj /\ slot[q] = NoObj
  BY <1>1, HeapAssumption DEF RequestsSound
<1>5. slot' = [slot EXCEPT ![p] = v, ![q] = a]
  BY DEF AsyncRequest
<1>6. rc' = [o \in Obj |-> IF o \in {a, v} THEN rc[o] + 1 ELSE rc[o]] /\ hold' = hold
  BY DEF AsyncRequest
<1> HIDE DEF a, v, p, q
<1> DEFINE mid == [slot EXCEPT ![p] = v]
<1>7. /\ mid[p] = v /\ mid[q] = NoObj /\ \A t \in Slot : t # p => mid[t] = slot[t]
      /\ slot'[q] = a /\ \A t \in Slot : t # q => slot'[t] = mid[t]
  BY <1>3, <1>4, <1>5 DEF TypeOK
<1> HIDE DEF mid
<1> SUFFICES ASSUME NEW o \in Obj
             PROVE  rc'[o] = Count(slot', Slot, o) + Held(o)
  BY <1>6 DEF RefCountExact, Refs, Count, Held
<1>8. NoObj # o /\ rc[o] = Count(slot, Slot, o) + Held(o) /\ Count(slot, Slot, o) \in Nat
  BY HeapAssumption, CountedSlots
<1>9. Count(mid, Slot, o) = Count(slot, Slot, o) + (IF v = o THEN 1 ELSE 0)
  <2>1. Count(mid, Slot, o) =
          Count(slot, Slot, o) + (IF mid[p] = o THEN 1 ELSE 0) - (IF slot[p] = o THEN 1 ELSE 0)
    BY <1>3, <1>7, SlotFinite, CountStore
  <2> QED  BY <2>1, <1>4, <1>7, <1>8
<1>10. Count(slot', Slot, o) = Count(mid, Slot, o) + (IF a = o THEN 1 ELSE 0)
  <2>1. Count(slot', Slot, o) =
          Count(mid, Slot, o) + (IF slot'[q] = o THEN 1 ELSE 0) - (IF mid[q] = o THEN 1 ELSE 0)
    BY <1>3, <1>7, SlotFinite, CountStore
  <2> QED  BY <2>1, <1>7, <1>8, <1>9
<1>11. Held(o) \in Nat
  BY DEF Held
<1> QED  BY <1>2, <1>6, <1>8, <1>9, <1>10, <1>11

LEMMA CountStep ==
  ASSUME TypeOK, RefCountExact, MoveSound, RequestsSound, Next
  PROVE  RefCountExact'
<1>1. ASSUME UNCHANGED <<slot, rc, hold>>
      PROVE  RefCountExact'
  BY <1>1 DEF RefCountExact, Refs, Held
<1>2. ASSUME NEW s \in Slot, Release(s), hold' = hold
      PROVE  RefCountExact'
  BY <1>2, ReleaseCounts
<1>3. CASE Mutator
  <2>1. ASSUME NEW o \in Obj, NEW d \in Slot, Alloc(o, d)
        PROVE  RefCountExact'
    BY <2>1, <1>2 DEF Alloc
  <2>2. ASSUME NEW d \in Slot, NEW s \in Slot, StartMove(d, s)
        PROVE  RefCountExact'
    BY <2>2, <1>2 DEF StartMove
  <2>3. ASSUME NEW s \in Slot, Drop(s)
        PROVE  RefCountExact'
    BY <2>3, <1>2 DEF Drop
  <2>4. CASE (\E r \in Slot : Resume(r)) \/ Yield
    BY <2>4, <1>1 DEF Resume, Yield
  <2>5. ASSUME NEW r \in Slot, NEW c \in Slot \cup {NoSlot}, AsyncRequest(r, c)
        PROVE  RefCountExact'
    BY <2>5, RequestCounts
  <2>6. ASSUME NEW a \in Obj, NEW d \in Slot, AsyncDispatch(a, d)
        PROVE  RefCountExact'
    <3> DEFINE v == slot[<<a, CallbackField>>]
    <3>1. v \in Obj \cup {NoObj}
      BY ChildSlots, HeapAssumption DEF TypeOK
    <3>2. slot[d] = NoObj /\ hold' = hold
      BY <2>6 DEF AsyncDispatch
    <3>3. slot'[d] = v /\ \A t \in Slot : t # d => slot'[t] = slot[t]
      BY <2>6 DEF AsyncDispatch, TypeOK
    <3>4. rc' = IF v = NoObj THEN rc ELSE [rc EXCEPT ![v] = @ + 1]
      BY <2>6 DEF AsyncDispatch
    <3> HIDE DEF v
    <3>5. \A o \in Obj : rc'[o] = IF o = v THEN rc[o] + 1 ELSE rc[o]
      BY <3>1, <3>4, HeapAssumption DEF TypeOK
    <3> QED  BY <3>1, <3>2, <3>3, <3>5, StoreCounts
  <2> QED  BY <1>3, <2>1, <2>2, <2>3, <2>4, <2>5, <2>6 DEF Mutator
<1>4. CASE Continue
  <2>1. CASE PopDestroy \/ FreeDone
    BY <2>1, <1>1 DEF PopDestroy, FreeDone
  <2>2. ASSUME NEW f \in Field, FreeChild(f)
        PROVE  RefCountExact'
    BY <2>2, <1>2, ChildSlots DEF FreeChild, TypeOK
  <2>3. CASE MoveCopies
    <3> DEFINE v == IF move.op = "new" THEN move.new ELSE slot[move.src]
    <3>1. v \in Obj \cup {NoObj} /\ move.dst \in Slot /\ slot[move.dst] = NoObj
      BY <2>3, AddressedSlots DEF MoveCopies, MoveSound, TypeOK
    <3>2. slot'[move.dst] = v /\ \A t \in Slot : t # move.dst => slot'[t] = slot[t]
      BY <2>3, <3>1 DEF MoveCopies, TypeOK
    <3>3. rc' = (IF v = NoObj THEN rc ELSE [rc EXCEPT ![v] = @ + 1]) /\ hold' = hold
      BY <2>3 DEF MoveCopies
    <3> HIDE DEF v
    <3>4. \A o \in Obj : rc'[o] = IF o = v THEN rc[o] + 1 ELSE rc[o]
      BY <3>1, <3>3, HeapAssumption DEF TypeOK
    <3> QED  BY <3>1, <3>2, <3>3, <3>4, StoreCounts
  <2>4. CASE Unlock \/ DropCallback
    <3>1. move.dst \in Slot
      BY <2>4, ChildSlots DEF Unlock, DropCallback, MoveSound
    <3> QED  BY <2>4, <3>1, <1>2 DEF Unlock, DropCallback
  <2> QED  BY <1>4, <2>1, <2>2, <2>3, <2>4 DEF Continue
<1>5. ASSUME NEW all \in BOOLEAN, Collect(all)
      PROVE  RefCountExact'
  BY <1>5, <1>1 DEF Collect
<1>6. CASE Collector
  <2>1. CASE (\E q \in Kind : PopRoot(q)) \/ PopEnds \/ TraceEnds \/ Scan \/ BlackenEnds
    BY <2>1, <1>1 DEF PopRoot, PopEnds, TraceEnds, Scan, BlackenEnds
  <2>2. CASE \E o \in Obj : Trace(o) \/ Blacken(o)
    BY <2>2, <1>1 DEF Trace, Blacken
  <2>3. CASE HoldEnds \/ ClearEnds \/ PassEnds
    BY <2>3, <1>1 DEF HoldEnds, ClearEnds, PassEnds
  <2>4. ASSUME NEW o \in Obj, Hold(o) \/ Unhold(o)
        PROVE  RefCountExact'
    <3>1. slot' = slot
      BY <2>4 DEF Hold, Unhold
    <3>2. \A c \in Obj : rc'[c] - Held(c)' = rc[c] - Held(c)
      <4>1. \A c \in Obj : rc[c] \in Int /\ rc \in [Obj -> Int]
        BY DEF TypeOK
      <4>2. CASE Hold(o)
        BY <4>1, <4>2 DEF Hold, Held
      <4>3. CASE Unhold(o)
        BY <4>1, <4>3 DEF Unhold, Held
      <4> QED  BY <2>4, <4>2, <4>3
    <3>3. \A c \in Obj : Held(c)' \in Int /\ rc'[c] \in Int
      BY <2>4 DEF Hold, Unhold, Held, TypeOK
    <3>4. \A c \in Obj : /\ rc[c] = Count(slot, Slot, c) + Held(c)
                         /\ Count(slot, Slot, c) \in Nat /\ Held(c) \in Int
      BY CountedSlots DEF Held
    <3>5. \A c \in Obj : rc'[c] = Count(slot, Slot, c) + Held(c)'
      BY <3>2, <3>3, <3>4
    <3> QED  BY <3>1, <3>5 DEF RefCountExact, Refs, Count
  <2>5. ASSUME NEW o \in Obj, NEW f \in Field, ClearSlot(o, f)
        PROVE  RefCountExact'
    <3> DEFINE s == <<o, f>>
    <3>1. s \in Slot /\ hold' = hold
      BY <2>5, ChildSlots DEF ClearSlot
    <3>2. CASE slot[s] \notin hold
      BY <2>5, <3>1, <3>2, <1>2 DEF ClearSlot
    <3>3. CASE slot[s] \in hold
      <4>1. PICK c \in Obj : c = slot[s]
        BY <2>5, <3>1 DEF ClearSlot, TypeOK
      <4>2. slot' = [slot EXCEPT ![s] = NoObj] /\ rc' = [rc EXCEPT ![c] = @ - 1]
        BY <2>5, <3>3, <4>1 DEF ClearSlot
      <4> HIDE DEF s
      <4>3. slot'[s] = NoObj /\ \A t \in Slot : t # s => slot'[t] = slot[t]
        BY <3>1, <4>2 DEF TypeOK
      <4> SUFFICES ASSUME NEW p \in Obj
                   PROVE  rc'[p] = Count(slot', Slot, p) + Held(p)
        BY <3>1 DEF RefCountExact, Refs, Count, Held
      <4>4. Count(slot', Slot, p) =
              Count(slot, Slot, p) + (IF slot'[s] = p THEN 1 ELSE 0) - (IF slot[s] = p THEN 1 ELSE 0)
        BY <3>1, <4>3, CountChange
      <4>5. rc'[p] = IF p = c THEN rc[p] - 1 ELSE rc[p]
        BY <4>2 DEF TypeOK
      <4>6. NoObj # p
        BY HeapAssumption
      <4> QED  BY <4>1, <4>3, <4>4, <4>5, <4>6, CountedSlots DEF Held
    <3> QED  BY <3>2, <3>3
  <2> QED  BY <1>6, <2>1, <2>2, <2>3, <2>4, <2>5 DEF Collector
<1>7. CASE Teardown
  <2>1. CASE BeginTeardown \/ RootsGone \/ SweepDone \/ EndTeardown \/ Gone
    BY <2>1, <1>1 DEF BeginTeardown, RootsGone, SweepDone, EndTeardown, Gone, vars
  <2>2. CASE \E o \in Obj : SweepNext(o)
    BY <2>2, <1>1 DEF SweepNext
  <2>3. ASSUME NEW s \in Slot, ReleaseRoot(s)
        PROVE  RefCountExact'
    BY <2>3, <1>2 DEF ReleaseRoot
  <2>4. ASSUME NEW a \in Obj, DiscardCompleted(a)
        PROVE  RefCountExact'
    BY <2>4, <1>2, ChildSlots, HeapAssumption DEF DiscardCompleted
  <2>5. ASSUME NEW f \in Field, SweepChild(f)
        PROVE  RefCountExact'
    BY <2>5, <1>2, ChildSlots DEF SweepChild, TypeOK
  <2> QED  BY <1>7, <2>1, <2>2, <2>3, <2>4, <2>5 DEF Teardown
<1> QED  BY <1>3, <1>4, <1>5, <1>6, <1>7 DEF Next

-----------------------------------------------------------------------------
(* Which handler is under way                                              *)

\* While the VM is torn down nothing is filed for the collector.
LEMMA ReleaseQueues ==
  ASSUME TypeOK, Tickets(cand), NEW s \in Slot, Release(s)
  PROVE  /\ mode # "run" => cand' = cand
         /\ mode = "run" => Queued' \subseteq Queued \cup ({slot[s]} \ {NoObj})
<1>1. CASE slot[s] = NoObj
  BY <1>1, ReleaseCases DEF Queued
<1>2. CASE slot[s] # NoObj
  <2>1. slot[s] \in Obj /\ (cand' = cand \/ cand' = CycleCheck(slot[s]))
    BY <1>2, ReleaseCases DEF TypeOK
  <2>2. mode # "run" => CycleCheck(slot[s]) = cand
    BY DEF CycleCheck
  <2>3. \A k \in Kind : ToSet(CycleCheck(slot[s])[k]) \subseteq ToSet(cand[k]) \cup {slot[s]}
    BY <2>1, CycleCheckFacts
  <2> QED  BY <1>2, <2>1, <2>2, <2>3 DEF Queued
<1> QED  BY <1>1, <1>2

LEMMA StagingStep ==
  ASSUME TypeOK, TicketsAreLive, MoveSound, Staging, Next
  PROVE  Staging'
<1>0. Tickets(cand) /\ Drained \in BOOLEAN
  BY TicketsFact DEF Drained
<1> DEFINE Clean == \A o \in Obj : color[o] = "none"
<1>1. ASSUME NEW s \in Slot, Release(s), mode' = mode, phase \in {"idle", "clear", "unhold"},
             UNCHANGED <<phase, hold, color, running, sweep>>,
             move' = move \/ (mode = "run" /\ phase = "idle")
      PROVE  Staging'
  <2>1. mode # "run" => Queued' = Queued
    BY <1>0, <1>1, ReleaseQueues DEF Queued
  <2> QED  BY <1>1, <2>1 DEF Staging
<1>2. ASSUME UNCHANGED <<phase, hold, color, sweep, mode, cand, destroyQ, freeing>>,
             move' = move \/ (mode = "run" /\ phase = "idle"),
             running' = running \/ mode = "run"
      PROVE  Staging'
  BY <1>2 DEF Staging, Queued, Drained
<1>3. CASE Mutator
  <2>1. ASSUME NEW o \in Obj, NEW d \in Slot, Alloc(o, d)
        PROVE  Staging'
    BY <2>1, <1>1 DEF Alloc, Quiescent
  <2>2. ASSUME NEW d \in Slot, NEW s \in Slot, StartMove(d, s)
        PROVE  Staging'
    BY <2>2, <1>1 DEF StartMove, Quiescent
  <2>3. ASSUME NEW s \in Slot, Drop(s)
        PROVE  Staging'
    BY <2>3, <1>1 DEF Drop, Quiescent
  <2>4. CASE (\E r \in Slot : Resume(r)) \/ Yield
    BY <2>4, <1>2 DEF Resume, Yield, Quiescent
  <2>5. ASSUME NEW r \in Slot, NEW c \in Slot \cup {NoSlot}, AsyncRequest(r, c)
        PROVE  Staging'
    BY <2>5, <1>2 DEF AsyncRequest, Quiescent
  <2>6. ASSUME NEW a \in Obj, NEW d \in Slot, AsyncDispatch(a, d)
        PROVE  Staging'
    BY <2>6, <1>2 DEF AsyncDispatch, Quiescent
  <2> QED  BY <1>3, <2>1, <2>2, <2>3, <2>4, <2>5, <2>6 DEF Mutator
<1>4. CASE Continue
  <2>1. CASE PopDestroy
    <3>1. Last(destroyQ) \in Obj
      BY <2>1, FrontFacts DEF PopDestroy, TypeOK
    <3>2. \A k \in Kind : ToSet(cand'[k]) \subseteq ToSet(cand[k])
      BY <2>1, <3>1, <1>0, UnlinkedFacts DEF PopDestroy
    <3>3. Queued' \subseteq Queued
      BY <3>2 DEF Queued
    <3>4. ~Drained /\ UNCHANGED <<phase, hold, color, running, sweep, mode, move>>
      BY <2>1 DEF PopDestroy, Drained
    <3> QED  BY <3>3, <3>4 DEF Staging
  <2>2. ASSUME NEW f \in Field, FreeChild(f)
        PROVE  Staging'
    <3>1. <<freeing, f>> \in Slot /\ ~Drained
      BY <2>2, ChildSlots DEF FreeChild, TypeOK, Drained
    <3>2. phase \in {"idle", "clear", "unhold"}
      BY <3>1 DEF Staging, TypeOK, Phases
    <3> QED  BY <2>2, <3>1, <3>2, <1>1 DEF FreeChild
  <2>3. CASE FreeDone
    <3>1. ~Drained
      BY <2>3 DEF FreeDone, Drained
    <3> QED  BY <2>3, <3>1 DEF FreeDone, Staging, Queued
  <2>4. CASE MoveCopies
    <3>1. move # NoMove
      BY <2>4 DEF MoveCopies, NoMove
    <3> QED  BY <2>4, <3>1, <1>2 DEF MoveCopies, Staging
  <2>5. CASE Unlock \/ DropCallback
    <3>1. move # NoMove
      BY <2>5 DEF Unlock, DropCallback, NoMove
    <3>2. move.dst \in Slot
      BY <2>5, ChildSlots DEF Unlock, DropCallback, MoveSound
    <3> QED  BY <2>5, <3>1, <3>2, <1>1 DEF Unlock, DropCallback, Staging
  <2> QED  BY <1>4, <2>1, <2>2, <2>3, <2>4, <2>5 DEF Continue
<1>5. ASSUME NEW all \in BOOLEAN, Collect(all)
      PROVE  Staging'
  BY <1>5 DEF Collect, Quiescent, Staging, Drained
<1>6. CASE Collector
  <2>1. phase # "idle" /\ mode = "run" /\ move = NoMove /\ sweep = NoObj
    BY <1>6 DEF Collector, PopRoot, PopEnds, Trace, TraceEnds, Scan, Blacken, BlackenEnds,
       Hold, HoldEnds, ClearSlot, ClearEnds, Unhold, PassEnds, Staging
  <2>2. mode' = mode /\ move' = move /\ sweep' = sweep
    BY <1>6 DEF Collector, PopRoot, PopEnds, Trace, TraceEnds, Scan, Blacken, BlackenEnds,
       Hold, HoldEnds, ClearSlot, ClearEnds, Unhold, PassEnds
  <2>3. CASE (\E q \in Kind : PopRoot(q)) \/ PopEnds \/ TraceEnds \/ Scan \/ BlackenEnds
    BY <2>1, <2>2, <2>3 DEF PopRoot, PopEnds, TraceEnds, Scan, BlackenEnds, Staging, Drained
  <2>4. CASE \E o \in Obj : Trace(o) \/ Blacken(o) \/ Hold(o)
    BY <2>1, <2>2, <2>4 DEF Trace, Blacken, Hold, Staging, Drained
  <2>5. CASE HoldEnds \/ ClearEnds \/ PassEnds
    BY <2>1, <2>2, <2>5 DEF HoldEnds, ClearEnds, PassEnds, Staging, Drained
  <2>6. ASSUME NEW o \in Obj, Unhold(o)
        PROVE  Staging'
    BY <2>1, <2>2, <2>6 DEF Unhold, Staging
  <2>7. ASSUME NEW o \in Obj, NEW f \in Field, ClearSlot(o, f)
        PROVE  Staging'
    BY <2>1, <2>2, <2>7 DEF ClearSlot, Staging
  <2> QED  BY <1>6, <2>3, <2>4, <2>5, <2>6, <2>7 DEF Collector
<1>7. CASE Teardown
  <2>1. CASE BeginTeardown
    <3>1. \A k \in Kind : cand'[k] = <<>>
      BY <2>1 DEF BeginTeardown
    <3>2. Queued' = {}
      BY <3>1 DEF Queued, ToSet
    <3> QED  BY <2>1, <3>2 DEF BeginTeardown, Quiescent, Staging, Drained
  <2>2. BeginTeardown \/ (mode # "run" /\ phase = "idle")
    BY <1>7 DEF Teardown, ReleaseRoot, DiscardCompleted, RootsGone, SweepNext, SweepChild,
       SweepDone, EndTeardown, Gone, Staging
  <2>3. CASE RootsGone \/ SweepDone \/ EndTeardown
    BY <2>2, <2>3 DEF RootsGone, SweepDone, EndTeardown, Staging, Queued, Drained
  <2>4. CASE (\E o \in Obj : SweepNext(o)) \/ Gone
    BY <2>2, <2>4 DEF SweepNext, Gone, vars, Staging, Queued, Drained
  <2>5. ASSUME NEW s \in Slot, ReleaseRoot(s)
        PROVE  Staging'
    BY <2>5, <1>1 DEF ReleaseRoot, Staging
  <2>6. ASSUME NEW a \in Obj, DiscardCompleted(a)
        PROVE  Staging'
    BY <2>6, <1>1, ChildSlots, HeapAssumption DEF DiscardCompleted, Staging
  <2>7. ASSUME NEW f \in Field, SweepChild(f)
        PROVE  Staging'
    BY <2>7, <1>1, ChildSlots DEF SweepChild, TypeOK, Staging
  <2> QED  BY <1>7, <2>1, <2>3, <2>4, <2>5, <2>6, <2>7 DEF Teardown
<1> QED  BY <1>3, <1>4, <1>5, <1>6, <1>7 DEF Next

-----------------------------------------------------------------------------
(* The destroy queue                                                       *)

LEMMA ModeStep ==
  ASSUME Next
  PROVE  mode' = "run" => mode = "run"
<1>1. CASE Mutator \/ Continue
  BY <1>1 DEF Mutator, Continue, Alloc, StartMove, Drop, Resume, Yield, AsyncRequest,
     AsyncDispatch, PopDestroy, FreeChild, FreeDone, MoveCopies, Unlock, DropCallback
<1>2. CASE Collector \/ \E all \in BOOLEAN : Collect(all)
  BY <1>2 DEF Collector, Collect, PopRoot, PopEnds, Trace, TraceEnds, Scan, Blacken,
     BlackenEnds, Hold, HoldEnds, ClearSlot, ClearEnds, Unhold, PassEnds
<1>3. CASE Teardown
  BY <1>3 DEF Teardown, BeginTeardown, ReleaseRoot, DiscardCompleted, RootsGone, SweepNext,
     SweepChild, SweepDone, EndTeardown, Gone, vars
<1> QED  BY <1>1, <1>2, <1>3 DEF Next

LEMMA DestroyFact ==
  ASSUME mode = "run"
  PROVE  DestroySound <=>
           /\ Distinct(destroyQ)
           /\ \A o \in ToSet(destroyQ) : status[o] = "live" /\ rc[o] = 0
           /\ freeing # NoObj => status[freeing] = "freeing" /\ rc[freeing] = 0
  BY DEF DestroySound, Distinct, ToSet

\* Var_Release queues a node for destruction only when its last reference
\* went, so the queue stays a set of unreferenced live nodes.
LEMMA ReleaseDestroys ==
  ASSUME TypeOK, RefCountExact, DestroySound, SlotsSound, mode = "run",
         NEW s \in Slot, Release(s)
  PROVE  /\ Distinct(destroyQ')
         /\ \A o \in ToSet(destroyQ') : status[o] = "live" /\ rc'[o] = 0
         /\ ToSet(destroyQ) \subseteq ToSet(destroyQ')
         /\ ToSet(destroyQ') \subseteq ToSet(destroyQ) \cup ({slot[s]} \ {NoObj})
         /\ \A o \in Obj : slot[s] # o => rc'[o] = rc[o]
         /\ \A o \in Obj : rc[o] = 0 => rc'[o] = 0 /\ slot[s] # o
         /\ \A o \in Obj : rc'[o] = 0 => rc[o] = 0 \/ o \in ToSet(destroyQ')
<1>1. /\ Distinct(destroyQ) /\ destroyQ \in Seq(Obj)
      /\ \A o \in ToSet(destroyQ) : o \in Obj /\ status[o] = "live" /\ rc[o] = 0
  BY DestroyFact DEF TypeOK, ToSet
<1>2. CASE slot[s] = NoObj
  BY <1>1, <1>2, ReleaseCases, HeapAssumption
<1>3. CASE slot[s] # NoObj
  <2>1. PICK o \in Obj : o = slot[s]
    BY <1>3 DEF TypeOK
  <2>2. rc[o] \in Nat /\ rc[o] >= 1 + Held(o) /\ status[o] = "live"
    BY <1>3, <2>1, CountedSlots DEF SlotsSound
  <2>3. rc[o] >= 1
    BY <2>2 DEF Held
  <2>4. rc' = [rc EXCEPT ![o] = @ - 1]
    BY <1>3, <2>1, ReleaseCases
  <2>5. rc'[o] = rc[o] - 1 /\ \A p \in Obj : p # o => rc'[p] = rc[p]
    BY <2>4 DEF TypeOK
  <2>6. CASE rc[o] <= 1
    <3>1. destroyQ' = Append(destroyQ, o) /\ rc'[o] = 0 /\ o \notin ToSet(destroyQ)
      BY <1>1, <1>3, <2>1, <2>2, <2>3, <2>5, <2>6, ReleaseCases
    <3>2. ToSet(destroyQ') = ToSet(destroyQ) \cup {o} /\ Distinct(destroyQ')
      BY <1>1, <3>1, AppendFacts
    <3> QED  BY <1>1, <1>3, <2>1, <2>2, <2>3, <2>5, <3>1, <3>2
  <2>7. CASE rc[o] > 1
    <3>1. destroyQ' = destroyQ /\ rc'[o] # 0 /\ rc[o] # 0
      BY <1>3, <2>1, <2>2, <2>5, <2>7, ReleaseCases
    <3> QED  BY <1>1, <1>3, <2>1, <2>5, <3>1
  <2> QED  BY <2>2, <2>6, <2>7
<1> QED  BY <1>2, <1>3

LEMMA DestroyStep ==
  ASSUME TypeOK, RefCountExact, Staging, DestroySound, SlotsSound, ColorSound, MoveSound, Next
  PROVE  DestroySound'
<1> SUFFICES ASSUME mode' = "run"
             PROVE  /\ Distinct(destroyQ')
                    /\ \A o \in ToSet(destroyQ') : status'[o] = "live" /\ rc'[o] = 0
                    /\ freeing' # NoObj => status'[freeing'] = "freeing" /\ rc'[freeing'] = 0
  BY DEF DestroySound, Distinct, ToSet
<1> DEFINE Goal ==
      /\ Distinct(destroyQ')
      /\ \A o \in ToSet(destroyQ') : status'[o] = "live" /\ rc'[o] = 0
      /\ freeing' # NoObj => status'[freeing'] = "freeing" /\ rc'[freeing'] = 0
<1>1. mode = "run" /\ sweep = NoObj
  BY ModeStep DEF Staging
<1>2. /\ Distinct(destroyQ) /\ destroyQ \in Seq(Obj)
      /\ \A o \in ToSet(destroyQ) : o \in Obj /\ status[o] = "live" /\ rc[o] = 0
      /\ freeing # NoObj => status[freeing] = "freeing" /\ rc[freeing] = 0 /\ freeing \in Obj
  BY <1>1, DestroyFact DEF TypeOK, ToSet
<1>3. ASSUME NEW s \in Slot, Release(s), UNCHANGED freeing,
             \A o \in Obj : status[o] # "free" => status'[o] = status[o]
      PROVE  Goal
  <2>1. /\ Distinct(destroyQ')
        /\ \A o \in ToSet(destroyQ') : o \in Obj /\ status[o] = "live" /\ rc'[o] = 0
    <3>1. ToSet(destroyQ') \subseteq Obj
      BY <1>2, <1>3, <1>1, ReleaseDestroys DEF TypeOK
    <3> QED  BY <1>1, <1>3, <3>1, ReleaseDestroys
  <2>2. freeing # NoObj => rc'[freeing] = 0
    BY <1>1, <1>2, <1>3, ReleaseDestroys
  <2> QED  BY <1>2, <1>3, <2>1, <2>2
<1>4. ASSUME UNCHANGED <<destroyQ, freeing, status>>, rc' = rc \/ Drained
      PROVE  Goal
  <2>1. CASE rc' = rc
    BY <1>2, <1>4, <2>1
  <2>2. CASE Drained
    BY <1>4, <2>2 DEF Drained, Distinct, ToSet
  <2> QED  BY <1>4, <2>1, <2>2
<1>5. CASE Mutator
  <2>1. ASSUME NEW o \in Obj, NEW d \in Slot, Alloc(o, d)
        PROVE  Goal
    BY <2>1, <1>3 DEF Alloc, TypeOK
  <2>2. ASSUME NEW d \in Slot, NEW s \in Slot, StartMove(d, s)
        PROVE  Goal
    BY <2>2, <1>3 DEF StartMove
  <2>3. ASSUME NEW s \in Slot, Drop(s)
        PROVE  Goal
    BY <2>3, <1>3 DEF Drop
  <2>4. CASE (\E r \in Slot : Resume(r)) \/ Yield
    BY <2>4, <1>4 DEF Resume, Yield
  <2>5. ASSUME NEW r \in Slot, NEW c \in Slot \cup {NoSlot}, AsyncRequest(r, c)
        PROVE  Goal
    BY <2>5, <1>4 DEF AsyncRequest, Quiescent
  <2>6. ASSUME NEW a \in Obj, NEW d \in Slot, AsyncDispatch(a, d)
        PROVE  Goal
    BY <2>6, <1>4 DEF AsyncDispatch, Quiescent
  <2> QED  BY <1>5, <2>1, <2>2, <2>3, <2>4, <2>5, <2>6 DEF Mutator
<1>6. CASE Continue
  <2>1. CASE PopDestroy
    <3> DEFINE o == Last(destroyQ)
    <3>1. /\ o \in ToSet(destroyQ) /\ destroyQ' = Front(destroyQ) /\ rc' = rc
          /\ ToSet(Front(destroyQ)) \subseteq ToSet(destroyQ)
          /\ Distinct(Front(destroyQ)) /\ o \notin ToSet(Front(destroyQ))
      BY <2>1, <1>2, FrontFacts DEF PopDestroy
    <3>2. o \in Obj /\ status[o] = "live" /\ rc[o] = 0
      BY <1>2, <3>1
    <3>3. status' = [status EXCEPT ![o] = "freeing"] /\ freeing' = o
      BY <2>1, <3>2 DEF PopDestroy
    <3> HIDE DEF o
    <3> QED  BY <1>2, <3>1, <3>2, <3>3 DEF TypeOK
  <2>2. ASSUME NEW f \in Field, FreeChild(f)
        PROVE  Goal
    BY <2>2, <1>3, ChildSlots DEF FreeChild, TypeOK
  <2>3. CASE FreeDone
    BY <2>3, <1>2 DEF FreeDone, TypeOK
  <2>4. CASE MoveCopies
    BY <2>4, <1>4 DEF MoveCopies
  <2>5. CASE Unlock \/ DropCallback
    <3>1. move.dst \in Slot
      BY <2>5, ChildSlots DEF Unlock, DropCallback, MoveSound
    <3> QED  BY <2>5, <3>1, <1>3 DEF Unlock, DropCallback
  <2> QED  BY <1>6, <2>1, <2>2, <2>3, <2>4, <2>5 DEF Continue
<1>7. ASSUME NEW all \in BOOLEAN, Collect(all)
      PROVE  Goal
  BY <1>7, <1>4 DEF Collect
<1>8. CASE Collector
  <2>1. CASE (\E q \in Kind : PopRoot(q)) \/ PopEnds \/ TraceEnds \/ Scan \/ BlackenEnds
    BY <2>1, <1>4 DEF PopRoot, PopEnds, TraceEnds, Scan, BlackenEnds
  <2>2. CASE \E o \in Obj : Trace(o) \/ Blacken(o)
    BY <2>2, <1>4 DEF Trace, Blacken
  <2>3. CASE HoldEnds \/ ClearEnds \/ PassEnds
    BY <2>3, <1>4 DEF HoldEnds, ClearEnds, PassEnds
  <2>4. ASSUME NEW o \in Obj, Hold(o)
        PROVE  Goal
    BY <2>4, <1>4 DEF Hold, Staging
  <2>5. ASSUME NEW o \in Obj, Unhold(o)
        PROVE  Goal
    <3>1. /\ destroyQ = <<>> /\ freeing = NoObj /\ freeing' = freeing /\ status' = status
          /\ rc' = [rc EXCEPT ![o] = @ - 1] /\ status[o] = "live" /\ rc[o] \in Nat /\ rc[o] >= 1
      BY <2>5, CountedSlots DEF Unhold, Drained, ColorSound
    <3>2. CASE rc[o] <= 1
      <4>1. destroyQ' = Append(destroyQ, o) /\ rc'[o] = 0
        BY <2>5, <3>1, <3>2 DEF Unhold, TypeOK
      <4>2. ToSet(destroyQ) = {}
        BY <3>1 DEF ToSet
      <4>3. ToSet(destroyQ') = {o} /\ Distinct(destroyQ')
        BY <1>2, <4>1, <4>2, AppendFacts
      <4> QED  BY <3>1, <4>1, <4>3
    <3>3. CASE ~(rc[o] <= 1)
      BY <2>5, <3>3, <1>4 DEF Unhold
    <3> QED  BY <3>2, <3>3
  <2>6. ASSUME NEW o \in Obj, NEW f \in Field, ClearSlot(o, f)
        PROVE  Goal
    <3>1. CASE slot[<<o, f>>] \in hold
      BY <2>6, <3>1, <1>4 DEF ClearSlot
    <3>2. CASE slot[<<o, f>>] \notin hold
      BY <2>6, <3>2, <1>3, ChildSlots DEF ClearSlot
    <3> QED  BY <3>1, <3>2
  <2> QED  BY <1>8, <2>1, <2>2, <2>3, <2>4, <2>5, <2>6 DEF Collector
<1>9. ~Teardown
  BY <1>1 DEF Teardown, BeginTeardown, ReleaseRoot, DiscardCompleted, RootsGone, SweepNext,
     SweepChild, SweepDone, EndTeardown, Gone
<1> QED  BY <1>5, <1>6, <1>7, <1>8, <1>9 DEF Next

-----------------------------------------------------------------------------
(* Slots and the nodes that own them                                       *)

\* A context on the resume chain is a referenced coroutine.
LEMMA ChainNodes ==
  ASSUME TypeOK, ChainSound, NEW i \in DOMAIN running
  PROVE  /\ running[i] \in Obj /\ KindOf[running[i]] = Coroutines
         /\ FrameOf(i - 1) \subseteq Slot
         /\ \E r \in Slot : slot[r] = running[i]
<1>1. /\ \A j \in DOMAIN running : running[j] \in Obj
      /\ DOMAIN running = 1 .. Len(running) /\ Len(running) \in Nat
  BY DEF TypeOK
<1>2. FrameOf(i - 1) \subseteq Slot
  <2>1. CASE i = 1
    BY <2>1 DEF FrameOf, Slot, Root
  <2>2. CASE i # 1
    <3>1. i - 1 \in DOMAIN running /\ i - 1 # 0
      BY <2>2, <1>1
    <3>2. running[i - 1] \in Obj
      BY <3>1, <1>1
    <3> QED  BY <3>1, <3>2 DEF FrameOf, Slot, Inner
  <2> QED  BY <2>1, <2>2
<1>3. KindOf[running[i]] = Coroutines /\ \E r \in FrameOf(i - 1) : slot[r] = running[i]
  BY DEF ChainSound
<1> QED  BY <1>1, <1>2, <1>3

\* Who owns an addressed child slot: the running coroutine, or a container in
\* one of its registers.
LEMMA AddressedOwners ==
  ASSUME TypeOK, ChainSound, NEW o \in Obj, NEW f \in Field
  PROVE  /\ <<o, f>> \in Regs =>
              running # <<>> /\ o = Last(running) /\ KindOf[o] = Coroutines
         /\ <<o, f>> \in Addressable =>
              /\ KindOf[o] \notin {Coroutines, Asyncs}
              /\ \E r \in Regs : slot[r] = o
<1>1. <<o, f>> \notin Root
  BY HeapAssumption DEF Inner
<1>2. ASSUME <<o, f>> \in Regs
      PROVE  running # <<>> /\ o = Last(running) /\ KindOf[o] = Coroutines
  <2>1. running # <<>> /\ o = Last(running)
    BY <1>1, <1>2 DEF Regs, Frame, Root
  <2>2. Len(running) \in DOMAIN running /\ Last(running) = running[Len(running)]
    BY <2>1, FrontFacts DEF TypeOK
  <2> QED  BY <2>1, <2>2, ChainNodes
<1>3. ASSUME <<o, f>> \in Addressable
      PROVE  /\ KindOf[o] \notin {Coroutines, Asyncs}
             /\ \E r \in Regs : slot[r] = o
  BY <1>3 DEF Addressable, Elements
<1> QED  BY <1>2, <1>3

LEMMA AddressedLive ==
  ASSUME TypeOK, ChainSound, SlotsSound, mode = "run", NEW o \in Obj, NEW f \in Field,
         <<o, f>> \in Regs \cup Addressable
  PROVE  status[o] = "live"
<1>1. CASE <<o, f>> \in Regs
  <2>1. running # <<>> /\ o = Last(running)
    BY <1>1, AddressedOwners
  <2>2. Len(running) \in DOMAIN running /\ o = running[Len(running)]
    BY <2>1, FrontFacts DEF TypeOK
  <2>3. \E r \in Slot : slot[r] = o
    BY <2>2, ChainNodes
  <2> QED  BY <2>3, HeapAssumption DEF SlotsSound
<1>2. CASE <<o, f>> \in Addressable
  <2>1. \E r \in Slot : slot[r] = o
    BY <1>2, AddressedOwners, AddressedSlots
  <2> QED  BY <2>1, HeapAssumption DEF SlotsSound
<1> QED  BY <1>1, <1>2

LEMMA SlotsStep ==
  ASSUME TypeOK, TypeOK', RefCountExact, Staging, DestroySound, SlotsSound, MoveSound,
         ChainSound, Next
  PROVE  SlotsSound'
<1> DEFINE Goal ==
      /\ \A s \in Slot : slot'[s] # NoObj => status'[slot'[s]] = "live"
      /\ \A o \in Obj, f \in Field : status'[o] = "free" => slot'[<<o, f>>] = NoObj
<1> SUFFICES ASSUME mode' = "run"
             PROVE  Goal
  BY DEF SlotsSound
<1>1. /\ mode = "run"
      /\ \A s \in Slot : slot[s] # NoObj => status[slot[s]] = "live" /\ slot[s] \in Obj
      /\ \A o \in Obj, f \in Field : status[o] = "free" => slot[<<o, f>>] = NoObj
      /\ \A o \in Obj, f \in Field : <<o, f>> \in Slot
  BY ModeStep, ChildSlots DEF SlotsSound, TypeOK
<1>2. ASSUME \A s \in Slot : slot'[s] \in {slot[s], NoObj},
             \A o \in Obj : status[o] = "live" => status'[o] = "live",
             \A o \in Obj : status'[o] = "free" => status[o] = "free"
      PROVE  Goal
  BY <1>1, <1>2
<1>3. ASSUME NEW s \in Slot, Release(s), UNCHANGED status
      PROVE  Goal
  <2>1. \A t \in Slot : slot'[t] \in {slot[t], NoObj}
    BY <1>3, ReleaseCases DEF TypeOK
  <2> QED  BY <2>1, <1>2, <1>3
<1>4. ASSUME UNCHANGED <<slot, status>>
      PROVE  Goal
  BY <1>1, <1>4
<1>5. ASSUME NEW d \in Slot, UNCHANGED status,
             \A s \in Slot : s # d => slot'[s] = slot[s],
             slot'[d] # NoObj => status[slot'[d]] = "live",
             \A o \in Obj, f \in Field : d = <<o, f>> => status[o] = "live"
      PROVE  Goal
  BY <1>1, <1>5
<1>6. CASE Mutator
  <2>1. ASSUME NEW o \in Obj, NEW d \in Slot, Alloc(o, d)
        PROVE  Goal
    <3>1. \A s \in Slot : slot'[s] \in {slot[s], NoObj}
      BY <2>1, ReleaseCases DEF Alloc, TypeOK
    <3>2. status' = [status EXCEPT ![o] = "live"]
      BY <2>1 DEF Alloc
    <3> QED  BY <3>1, <3>2, <1>2 DEF TypeOK
  <2>2. ASSUME NEW d \in Slot, NEW s \in Slot, StartMove(d, s)
        PROVE  Goal
    BY <2>2, <1>3 DEF StartMove
  <2>3. ASSUME NEW s \in Slot, Drop(s)
        PROVE  Goal
    BY <2>3, <1>3 DEF Drop
  <2>4. CASE (\E r \in Slot : Resume(r)) \/ Yield
    BY <2>4, <1>4 DEF Resume, Yield
  <2>5. ASSUME NEW r \in Slot, NEW c \in Slot \cup {NoSlot}, AsyncRequest(r, c)
        PROVE  Goal
    <3> DEFINE a == slot[r]
               v == Callback(c)
    <3>1. a \in Obj /\ status[a] = "live" /\ status' = status
      BY <2>5, <1>1 DEF AsyncRequest
    <3>2. v = NoObj \/ (v \in Obj /\ status[v] = "live")
      BY <2>5, <1>1 DEF AsyncRequest, Callback
    <3>3. slot' = [slot EXCEPT ![<<a, CallbackField>>] = v, ![<<a, LockField>>] = a]
      BY <2>5 DEF AsyncRequest
    <3> HIDE DEF a, v
    <3>4. \A s \in Slot : slot'[s] \in {slot[s], v, a}
      BY <3>3 DEF TypeOK
    <3>5. \A o \in Obj, f \in Field : o # a => slot'[<<o, f>>] = slot[<<o, f>>]
      BY <3>3, <1>1 DEF TypeOK
    <3> QED  BY <1>1, <3>1, <3>2, <3>4, <3>5
  <2>6. ASSUME NEW a \in Obj, NEW d \in Slot, AsyncDispatch(a, d)
        PROVE  Goal
    <3>1. UNCHANGED status /\ d \in Regs
      BY <2>6, AddressedSlots DEF AsyncDispatch
    <3>2. slot' = [slot EXCEPT ![d] = slot[<<a, CallbackField>>]] /\ <<a, CallbackField>> \in Slot
      BY <2>6, <1>1, HeapAssumption DEF AsyncDispatch
    <3>3. \A o \in Obj, f \in Field : d = <<o, f>> => status[o] = "live"
      BY <3>1, <1>1, AddressedLive
    <3>4. slot'[d] = slot[<<a, CallbackField>>] /\ \A s \in Slot : s # d => slot'[s] = slot[s]
      BY <3>2 DEF TypeOK
    <3> QED  BY <3>1, <3>2, <3>3, <3>4, <1>1, <1>5
  <2> QED  BY <1>6, <2>1, <2>2, <2>3, <2>4, <2>5, <2>6 DEF Mutator
<1>7. CASE Continue
  <2>1. CASE PopDestroy
    <3> DEFINE o == Last(destroyQ)
    <3>1. o \in Obj /\ o \in ToSet(destroyQ)
      BY <2>1, FrontFacts DEF PopDestroy, TypeOK
    <3>2. rc[o] = 0 /\ status[o] = "live"
      BY <3>1, <1>1, DestroyFact
    <3>3. \A s \in Slot : slot[s] # o
      BY <3>1, <3>2, UncountedNodes DEF Refs
    <3>4. status' = [status EXCEPT ![o] = "freeing"] /\ slot' = slot
      BY <2>1, <3>2 DEF PopDestroy
    <3> HIDE DEF o
    <3> QED  BY <1>1, <3>1, <3>3, <3>4 DEF TypeOK
  <2>2. ASSUME NEW f \in Field, FreeChild(f)
        PROVE  Goal
    BY <2>2, <1>3, ChildSlots DEF FreeChild, TypeOK
  <2>3. CASE FreeDone
    <3>1. freeing \in Obj /\ status[freeing] = "freeing"
      BY <2>3, <1>1 DEF FreeDone, TypeOK, DestroySound
    <3>2. \A f \in Field : slot[<<freeing, f>>] = NoObj
      BY <2>3 DEF FreeDone, Kids
    <3>3. status' = [status EXCEPT ![freeing] = "free"] /\ slot' = slot
      BY <2>3 DEF FreeDone
    <3> QED  BY <1>1, <3>1, <3>2, <3>3 DEF TypeOK
  <2>4. CASE MoveCopies
    <3> DEFINE v == IF move.op = "new" THEN move.new ELSE slot[move.src]
    <3>1. /\ move.dst \in Slot /\ UNCHANGED status
          /\ slot' = [slot EXCEPT ![move.dst] = v]
          /\ move.dst \in Regs \cup Addressable
      BY <2>4, AddressedSlots DEF MoveCopies, MoveSound
    <3>2. v # NoObj => status[v] = "live"
      BY <2>4, <1>1 DEF MoveCopies, MoveSound
    <3>3. \A o \in Obj, f \in Field : move.dst = <<o, f>> => status[o] = "live"
      BY <3>1, <1>1, AddressedLive
    <3> HIDE DEF v
    <3>4. slot'[move.dst] = v /\ \A s \in Slot : s # move.dst => slot'[s] = slot[s]
      BY <3>1 DEF TypeOK
    <3> QED  BY <3>1, <3>2, <3>3, <3>4, <1>5
  <2>5. CASE Unlock \/ DropCallback
    <3>1. move.dst \in Slot
      BY <2>5, ChildSlots DEF Unlock, DropCallback, MoveSound
    <3> QED  BY <2>5, <3>1, <1>3 DEF Unlock, DropCallback
  <2> QED  BY <1>7, <2>1, <2>2, <2>3, <2>4, <2>5 DEF Continue
<1>8. ASSUME NEW all \in BOOLEAN, Collect(all)
      PROVE  Goal
  BY <1>8, <1>4 DEF Collect
<1>9. CASE Collector
  <2>1. CASE (\E q \in Kind : PopRoot(q)) \/ PopEnds \/ TraceEnds \/ Scan \/ BlackenEnds
    BY <2>1, <1>4 DEF PopRoot, PopEnds, TraceEnds, Scan, BlackenEnds
  <2>2. CASE \E o \in Obj : Trace(o) \/ Blacken(o) \/ Hold(o) \/ Unhold(o)
    BY <2>2, <1>4 DEF Trace, Blacken, Hold, Unhold
  <2>3. CASE HoldEnds \/ ClearEnds \/ PassEnds
    BY <2>3, <1>4 DEF HoldEnds, ClearEnds, PassEnds
  <2>4. ASSUME NEW o \in Obj, NEW f \in Field, ClearSlot(o, f)
        PROVE  Goal
    <3>1. CASE slot[<<o, f>>] \in hold
      <4>1. slot' = [slot EXCEPT ![<<o, f>>] = NoObj] /\ UNCHANGED status
        BY <2>4, <3>1 DEF ClearSlot
      <4>2. \A t \in Slot : slot'[t] \in {slot[t], NoObj}
        BY <4>1, <1>1 DEF TypeOK
      <4> QED  BY <4>1, <4>2, <1>2
    <3>2. CASE slot[<<o, f>>] \notin hold
      BY <2>4, <3>2, <1>3, ChildSlots DEF ClearSlot
    <3> QED  BY <3>1, <3>2
  <2> QED  BY <1>9, <2>1, <2>2, <2>3, <2>4 DEF Collector
<1>10. ~Teardown
  BY <1>1 DEF Staging, Teardown, BeginTeardown, ReleaseRoot, DiscardCompleted, RootsGone, SweepNext,
     SweepChild, SweepDone, EndTeardown, Gone
<1> QED  BY <1>6, <1>7, <1>8, <1>9, <1>10 DEF Next

-----------------------------------------------------------------------------
(* Candidates, colours, requests                                           *)

LEMMA TicketsStep ==
  ASSUME TypeOK, TypeOK', RefCountExact, Staging, Staging', DestroySound, SlotsSound, MoveSound,
         TicketsAreLive, ColorSound, Next
  PROVE  TicketsAreLive'
<1> DEFINE Goal == Tickets(cand') /\ \A o \in Queued' : status'[o] = "live"
<1>1. ASSUME Goal
      PROVE  TicketsAreLive'
  BY <1>1 DEF TicketsAreLive, Tickets, Queued, ToSet, Distinct
<1>2. CASE mode' # "run"
  <2>1. \A k \in Kind : ToSet(cand'[k]) = {}
    BY <1>2 DEF Staging, Queued
  <2> QED  BY <2>1 DEF TicketsAreLive, ToSet
<1>3. CASE mode' = "run"
  <2> SUFFICES Goal
    BY <1>1
  <2>1. /\ mode = "run" /\ Tickets(cand) /\ \A o \in Queued : status[o] = "live"
        /\ \A s \in Slot : slot[s] # NoObj => status[slot[s]] = "live"
    BY <1>3, ModeStep, TicketsFact DEF SlotsSound
  <2>2. ASSUME NEW s \in Slot, Release(s), \A o \in Obj : status[o] = "live" => status'[o] = "live"
        PROVE  Goal
    <3>1. Tickets(cand') /\ Queued' \subseteq Queued \cup ({slot[s]} \ {NoObj})
      BY <2>1, <2>2, ReleaseTypes, ReleaseQueues
    <3>2. \A o \in Queued' : o \in Obj /\ status[o] = "live"
      <4>1. Queued \subseteq Obj /\ (slot[s] # NoObj => slot[s] \in Obj)
        BY QueuedFinite DEF TypeOK
      <4> QED  BY <2>1, <3>1, <4>1
    <3> QED  BY <2>2, <3>1, <3>2
  <2>3. ASSUME UNCHANGED <<cand, status>>
        PROVE  Goal
    BY <2>1, <2>3 DEF Queued
  <2>4. CASE Mutator
    <3>1. ASSUME NEW o \in Obj, NEW d \in Slot, Alloc(o, d)
          PROVE  Goal
      BY <3>1, <2>2 DEF Alloc, TypeOK
    <3>2. ASSUME NEW d \in Slot, NEW s \in Slot, StartMove(d, s)
          PROVE  Goal
      BY <3>2, <2>2 DEF StartMove
    <3>3. ASSUME NEW s \in Slot, Drop(s)
          PROVE  Goal
      BY <3>3, <2>2 DEF Drop
    <3>4. CASE (\E r \in Slot : Resume(r)) \/ Yield
      BY <3>4, <2>3 DEF Resume, Yield
    <3>5. CASE \E r \in Slot, c \in Slot \cup {NoSlot} : AsyncRequest(r, c)
      BY <3>5, <2>3 DEF AsyncRequest
    <3>6. CASE \E a \in Obj, d \in Slot : AsyncDispatch(a, d)
      BY <3>6, <2>3 DEF AsyncDispatch
    <3> QED  BY <2>4, <3>1, <3>2, <3>3, <3>4, <3>5, <3>6 DEF Mutator
  <2>5. CASE Continue
    <3>1. CASE PopDestroy
      <4> DEFINE o == Last(destroyQ)
      <4>1. o \in Obj /\ cand' = Unlinked(o)
        BY <3>1, FrontFacts DEF PopDestroy, TypeOK
      <4>2. Tickets(cand') /\ \A k \in Kind : ToSet(cand'[k]) = ToSet(cand[k]) \ {o}
        BY <2>1, <4>1, UnlinkedFacts
      <4>3. Queued' = Queued \ {o}
        BY <4>2 DEF Queued
      <4>4. \A p \in Obj : p # o => status'[p] = status[p]
        BY <3>1 DEF PopDestroy, TypeOK
      <4> QED  BY <2>1, <4>2, <4>3, <4>4, QueuedFinite
    <3>2. ASSUME NEW f \in Field, FreeChild(f)
          PROVE  Goal
      BY <3>2, <2>2, ChildSlots DEF FreeChild, TypeOK
    <3>3. CASE FreeDone
      <4>1. freeing \in Obj /\ status[freeing] = "freeing" /\ cand' = cand
        BY <3>3, <2>1 DEF FreeDone, TypeOK, DestroySound
      <4>2. \A p \in Obj : p # freeing => status'[p] = status[p]
        BY <3>3 DEF FreeDone, TypeOK
      <4> QED  BY <2>1, <4>1, <4>2, QueuedFinite DEF Queued
    <3>4. CASE MoveCopies
      BY <3>4, <2>3 DEF MoveCopies
    <3>5. CASE Unlock \/ DropCallback
      <4>1. move.dst \in Slot
        BY <3>5, ChildSlots DEF Unlock, DropCallback, MoveSound
      <4> QED  BY <3>5, <4>1, <2>2 DEF Unlock, DropCallback
    <3> QED  BY <2>5, <3>1, <3>2, <3>3, <3>4, <3>5 DEF Continue
  <2>6. ASSUME NEW all \in BOOLEAN, Collect(all)
        PROVE  Goal
    BY <2>6, <2>3 DEF Collect
  <2>7. CASE Collector
    <3>1. ASSUME NEW q \in Kind, PopRoot(q)
          PROVE  Goal
      <4>1. /\ cand[q] # <<>> /\ cand[q] \in Seq(Obj) /\ status' = status
            /\ \A k \in Kind : cand'[k] = IF k = q THEN Tail(cand[q]) ELSE cand[k]
        BY <3>1 DEF PopRoot, TypeOK
      <4>2. /\ ToSet(Tail(cand[q])) \subseteq ToSet(cand[q])
            /\ Distinct(cand[q]) => Distinct(Tail(cand[q]))
        BY <4>1, TailFacts
      <4>3. Tickets(cand') /\ \A k \in Kind : ToSet(cand'[k]) \subseteq ToSet(cand[k])
        BY <2>1, <4>1, <4>2 DEF Tickets
      <4> QED  BY <2>1, <4>1, <4>3 DEF Queued
    <3>2. CASE PopEnds \/ TraceEnds \/ Scan \/ BlackenEnds
      BY <3>2, <2>3 DEF PopEnds, TraceEnds, Scan, BlackenEnds
    <3>3. CASE \E o \in Obj : Trace(o) \/ Blacken(o)
      BY <3>3, <2>3 DEF Trace, Blacken
    <3>4. CASE HoldEnds \/ ClearEnds \/ PassEnds
      BY <3>4, <2>3 DEF HoldEnds, ClearEnds, PassEnds
    <3>5. ASSUME NEW o \in Obj, Hold(o)
          PROVE  Goal
      <4>1. cand' = Unlinked(o) /\ status' = status
        BY <3>5 DEF Hold
      <4>2. Tickets(cand') /\ \A k \in Kind : ToSet(cand'[k]) = ToSet(cand[k]) \ {o}
        BY <2>1, <4>1, UnlinkedFacts
      <4> QED  BY <2>1, <4>1, <4>2 DEF Queued
    <3>6. ASSUME NEW o \in Obj, Unhold(o)
          PROVE  Goal
      <4>1. status' = status /\ status[o] = "live" /\ (cand' = cand \/ cand' = CycleCheck(o))
        BY <3>6 DEF Unhold, ColorSound
      <4>2. CASE cand' = CycleCheck(o)
        <5>1. Tickets(cand') /\ \A k \in Kind : ToSet(cand'[k]) \subseteq ToSet(cand[k]) \cup {o}
          BY <2>1, <4>2, CycleCheckFacts
        <5> QED  BY <2>1, <4>1, <5>1 DEF Queued
      <4> QED  BY <4>1, <4>2, <2>3
    <3>7. ASSUME NEW o \in Obj, NEW f \in Field, ClearSlot(o, f)
          PROVE  Goal
      <4>1. CASE slot[<<o, f>>] \in hold
        BY <3>7, <4>1, <2>3 DEF ClearSlot
      <4>2. CASE slot[<<o, f>>] \notin hold
        BY <3>7, <4>2, <2>2, ChildSlots DEF ClearSlot
      <4> QED  BY <4>1, <4>2
    <3> QED  BY <2>7, <3>1, <3>2, <3>3, <3>4, <3>5, <3>6, <3>7 DEF Collector
  <2>8. ~Teardown
    BY <1>3, <2>1 DEF Staging, Teardown, BeginTeardown, ReleaseRoot, DiscardCompleted, RootsGone,
       SweepNext, SweepChild, SweepDone, EndTeardown, Gone
  <2> QED  BY <2>4, <2>5, <2>6, <2>7, <2>8 DEF Next
<1> QED  BY <1>2, <1>3

LEMMA ColorStep ==
  ASSUME TypeOK, TypeOK', RefCountExact, Staging, Staging', DestroySound, SlotsSound,
         TicketsAreLive, ColorSound, Next
  PROVE  ColorSound'
<1>1. phase = "idle" => hold = {} /\ \A o \in Obj : color[o] = "none"
  BY DEF Staging
<1>2. ASSUME phase' = "idle"
      PROVE  ColorSound'
  BY <1>2 DEF Staging, ColorSound
<1>3. ASSUME UNCHANGED <<color, running>>, hold' \subseteq hold,
             phase' = phase \/ phase' \in {"gray", "scan", "clear", "unhold"}
                            \/ (phase = "black" /\ phase' = "white"),
             \A o \in Obj : status[o] = "live" => status'[o] = "live"
      PROVE  ColorSound'
  BY <1>3 DEF ColorSound, TypeOK
<1>4. CASE Mutator
  BY <1>2, <1>4 DEF Mutator, Alloc, StartMove, Drop, Resume, Yield, AsyncRequest, AsyncDispatch,
     Quiescent
<1>5. CASE Continue
  <2>1. CASE PopDestroy
    <3> DEFINE o == Last(destroyQ)
    <3>1. ~Drained /\ phase' = phase /\ o \in Obj /\ o \in ToSet(destroyQ)
      BY <2>1, FrontFacts DEF PopDestroy, TypeOK, Drained
    <3>2. CASE mode = "run" /\ phase # "idle"
      <4>1. rc[o] = 0
        BY <3>1, <3>2, DestroyFact
      <4>2. o \notin hold /\ \A p \in Obj : color[p] = "none"
        BY <3>1, <3>2, <4>1, UncountedNodes DEF Staging, TypeOK, Phases
      <4>3. \A p \in Obj : p # o => status'[p] = status[p]
        BY <2>1 DEF PopDestroy, TypeOK
      <4>4. UNCHANGED <<color, hold, running, phase>> /\ phase \in {"clear", "unhold"}
        BY <2>1, <3>1, <3>2 DEF PopDestroy, Staging, TypeOK, Phases
      <4> QED  BY <4>2, <4>3, <4>4 DEF ColorSound, TypeOK
    <3> QED  BY <3>1, <3>2, <1>2 DEF Staging
  <2>2. CASE \E f \in Field : FreeChild(f)
    BY <2>2, <1>3 DEF FreeChild
  <2>3. CASE FreeDone
    <3>1. ~Drained /\ phase' = phase /\ freeing \in Obj
      BY <2>3 DEF FreeDone, TypeOK, Drained
    <3>2. CASE mode = "run" /\ phase # "idle"
      <4>1. status[freeing] = "freeing"
        BY <2>3, <3>2 DEF FreeDone, DestroySound
      <4>2. \A p \in Obj : p # freeing => status'[p] = status[p]
        BY <2>3 DEF FreeDone, TypeOK
      <4>3. UNCHANGED <<color, hold, running, phase>>
        BY <2>3 DEF FreeDone
      <4> QED  BY <3>1, <4>1, <4>2, <4>3, <1>3
    <3> QED  BY <3>1, <3>2, <1>2 DEF Staging
  <2>4. CASE MoveCopies \/ Unlock \/ DropCallback
    <3>1. move # NoMove
      BY <2>4 DEF MoveCopies, Unlock, DropCallback, NoMove
    <3> QED  BY <2>4, <3>1, <1>2 DEF MoveCopies, Unlock, DropCallback, Staging
  <2> QED  BY <1>5, <2>1, <2>2, <2>3, <2>4 DEF Continue
<1>6. CASE \E all \in BOOLEAN : Collect(all)
  BY <1>6, <1>1 DEF Collect, Quiescent, ColorSound
<1>7. CASE Collector
  <2>1. ASSUME NEW q \in Kind, PopRoot(q)
        PROVE  ColorSound'
    <3>1. Head(cand[q]) \in Obj /\ Head(cand[q]) \in ToSet(cand[q])
      BY <2>1, TailFacts DEF PopRoot, TypeOK
    <3>2. status[Head(cand[q])] = "live"
      BY <3>1, TicketsFact DEF Queued
    <3>3. /\ color' = [color EXCEPT ![Head(cand[q])] = "gray"]
          /\ UNCHANGED <<status, hold, running, phase>> /\ phase = "pop"
      BY <2>1 DEF PopRoot
    <3> QED  BY <3>1, <3>2, <3>3 DEF ColorSound, TypeOK
  <2>2. ASSUME NEW o \in Obj, Trace(o)
        PROVE  ColorSound'
    <3>1. UNCHANGED <<status, hold, running, phase>> /\ phase = "gray" /\ mode = "run"
      BY <2>2 DEF Trace, Staging
    <3>2. \A c \in Kids(o) : status[c] = "live"
      BY <3>1, ChildSlots DEF Kids, SlotsSound
    <3>3. \A c \in Obj : color'[c] # "none" => color[c] # "none" \/ c \in Kids(o)
      BY <2>2 DEF Trace
    <3> QED  BY <3>1, <3>2, <3>3 DEF ColorSound
  <2>3. CASE Scan
    <3>1. UNCHANGED <<status, hold, running>> /\ phase' = "black"
      BY <2>3 DEF Scan
    <3>2. /\ \A o \in Obj : color'[o] # "none" => color[o] # "none"
          /\ \A o \in Obj : color'[o] = "gray" => color[o] = "gray" /\ ~NativeRoot(o)
      BY <2>3 DEF Scan, TypeOK
    <3> QED  BY <3>1, <3>2 DEF ColorSound, NativeRoot
  <2>4. ASSUME NEW o \in Obj, Blacken(o)
        PROVE  ColorSound'
    <3>1. UNCHANGED <<status, hold, running, phase>>
      BY <2>4 DEF Blacken
    <3>2. /\ \A c \in Obj : color'[c] # "none" => color[c] # "none"
          /\ \A c \in Obj : color'[c] = "gray" => color[c] = "gray"
      BY <2>4 DEF Blacken
    <3> QED  BY <3>1, <3>2 DEF ColorSound
  <2>5. ASSUME NEW o \in Obj, Hold(o)
        PROVE  ColorSound'
    <3>1. /\ UNCHANGED <<status, color, running, phase>> /\ hold' = hold \cup {o}
          /\ phase = "white" /\ color[o] = "gray"
      BY <2>5 DEF Hold
    <3> QED  BY <3>1 DEF ColorSound
  <2>6. CASE HoldEnds
    BY <2>6 DEF HoldEnds, ColorSound
  <2>7. CASE PopEnds \/ TraceEnds \/ BlackenEnds \/ ClearEnds
    BY <2>7, <1>3 DEF PopEnds, TraceEnds, BlackenEnds, ClearEnds
  <2>8. CASE PassEnds
    BY <2>8 DEF PassEnds, ColorSound
  <2>9. CASE \E o \in Obj : Unhold(o)
    BY <2>9, <1>3 DEF Unhold
  <2>10. CASE \E o \in Obj, f \in Field : ClearSlot(o, f)
    BY <2>10, <1>3 DEF ClearSlot
  <2> QED
    BY <1>7, <2>1, <2>2, <2>3, <2>4, <2>5, <2>6, <2>7, <2>8, <2>9, <2>10 DEF Collector
<1>8. CASE Teardown
  <2>1. phase' = phase
    BY <1>8 DEF Teardown, BeginTeardown, ReleaseRoot, DiscardCompleted, RootsGone, SweepNext,
       SweepChild, SweepDone, EndTeardown, Gone, vars
  <2>2. phase = "idle"
    BY <1>8 DEF Teardown, BeginTeardown, ReleaseRoot, DiscardCompleted, RootsGone, SweepNext,
       SweepChild, SweepDone, EndTeardown, Gone, Quiescent, Staging
  <2> QED  BY <2>1, <2>2, <1>2
<1> QED  BY <1>4, <1>5, <1>6, <1>7, <1>8 DEF Next

LEMMA RequestsStep ==
  ASSUME TypeOK, TypeOK', RefCountExact, Staging, SlotsSound, MoveSound, ChainSound,
         RequestsSound, Next
  PROVE  RequestsSound'
<1> DEFINE Empty ==
      mode' = "run" =>
        \A a \in Obj, f \in Field :
          KindOf[a] = Asyncs /\ a \notin busy' => slot'[<<a, f>>] = NoObj
<1>1. ASSUME UNCHANGED busy, \A s \in Slot : slot'[s] \in {slot[s], NoObj}
      PROVE  RequestsSound'
  BY <1>1, ModeStep, ChildSlots DEF RequestsSound
<1>2. ASSUME UNCHANGED <<busy, slot>>
      PROVE  RequestsSound'
  BY <1>2, ModeStep DEF RequestsSound
<1>3. ASSUME NEW s \in Slot, Release(s), UNCHANGED busy
      PROVE  RequestsSound'
  BY <1>1, <1>3, ReleaseCases DEF TypeOK
<1>4. CASE Mutator
  <2>1. ASSUME NEW o \in Obj, NEW d \in Slot, Alloc(o, d)
        PROVE  RequestsSound'
    <3>1. /\ mode = "run" /\ status[o] = "free" /\ busy' = busy \ {o}
          /\ \A s \in Slot : slot'[s] \in {slot[s], NoObj}
      BY <2>1, ReleaseCases DEF Alloc, Quiescent, TypeOK
    <3>2. \A f \in Field : slot[<<o, f>>] = NoObj
      BY <3>1 DEF SlotsSound
    <3> QED  BY <3>1, <3>2, ChildSlots DEF RequestsSound
  <2>2. ASSUME NEW d \in Slot, NEW s \in Slot, StartMove(d, s)
        PROVE  RequestsSound'
    BY <2>2, <1>3 DEF StartMove
  <2>3. ASSUME NEW s \in Slot, Drop(s)
        PROVE  RequestsSound'
    BY <2>3, <1>3 DEF Drop
  <2>4. CASE (\E r \in Slot : Resume(r)) \/ Yield
    BY <2>4, <1>2 DEF Resume, Yield
  <2>5. ASSUME NEW r \in Slot, NEW c \in Slot \cup {NoSlot}, AsyncRequest(r, c)
        PROVE  RequestsSound'
    <3> DEFINE a == slot[r]
    <3>1. a \in Obj /\ KindOf[a] = Asyncs /\ busy' = busy \cup {a}
      BY <2>5 DEF AsyncRequest, TypeOK
    <3>2. slot' = [slot EXCEPT ![<<a, CallbackField>>] = Callback(c), ![<<a, LockField>>] = a]
      BY <2>5 DEF AsyncRequest
    <3> HIDE DEF a
    <3>3. \A o \in Obj, f \in Field : o # a => slot'[<<o, f>>] = slot[<<o, f>>]
      BY <3>2, ChildSlots DEF TypeOK
    <3> QED  BY <3>1, <3>3, ModeStep DEF RequestsSound
  <2>6. ASSUME NEW a \in Obj, NEW d \in Slot, AsyncDispatch(a, d)
        PROVE  RequestsSound'
    <3>1. d \in Regs /\ UNCHANGED busy
      BY <2>6, AddressedSlots DEF AsyncDispatch
    <3>2. \A o \in Obj, f \in Field : KindOf[o] = Asyncs => <<o, f>> # d
      BY <3>1, AddressedOwners DEF Coroutines, Asyncs
    <3>3. \A s \in Slot : s # d => slot'[s] = slot[s]
      BY <2>6 DEF AsyncDispatch, TypeOK
    <3> QED  BY <3>1, <3>2, <3>3, ModeStep, ChildSlots DEF RequestsSound
  <2> QED  BY <1>4, <2>1, <2>2, <2>3, <2>4, <2>5, <2>6 DEF Mutator
<1>5. CASE Continue
  <2>1. CASE PopDestroy \/ FreeDone
    BY <2>1, <1>2 DEF PopDestroy, FreeDone
  <2>2. ASSUME NEW f \in Field, FreeChild(f)
        PROVE  RequestsSound'
    BY <2>2, <1>3, ChildSlots DEF FreeChild, TypeOK
  <2>3. CASE MoveCopies
    <3>1. move.dst \in Regs \cup Addressable /\ UNCHANGED busy
      BY <2>3 DEF MoveCopies, MoveSound
    <3>2. ASSUME NEW o \in Obj, NEW f \in Field, <<o, f>> = move.dst
          PROVE  KindOf[o] # Asyncs
      <4>1. CASE <<o, f>> \in Regs
        BY <4>1, AddressedOwners DEF Coroutines, Asyncs
      <4>2. CASE <<o, f>> \in Addressable
        BY <4>2, AddressedOwners
      <4> QED  BY <3>1, <3>2, <4>1, <4>2
    <3>3. \A s \in Slot : s # move.dst => slot'[s] = slot[s]
      BY <2>3 DEF MoveCopies, TypeOK
    <3> QED  BY <3>1, <3>2, <3>3, ModeStep, ChildSlots DEF RequestsSound
  <2>4. CASE Unlock \/ DropCallback
    <3>1. move.dst \in Slot
      BY <2>4, ChildSlots DEF Unlock, DropCallback, MoveSound
    <3> QED  BY <2>4, <3>1, <1>3 DEF Unlock, DropCallback
  <2> QED  BY <1>5, <2>1, <2>2, <2>3, <2>4 DEF Continue
<1>6. CASE \E all \in BOOLEAN : Collect(all)
  BY <1>6, <1>2 DEF Collect
<1>7. CASE Collector
  <2>1. CASE (\E q \in Kind : PopRoot(q)) \/ PopEnds \/ TraceEnds \/ Scan \/ BlackenEnds
    BY <2>1, <1>2 DEF PopRoot, PopEnds, TraceEnds, Scan, BlackenEnds
  <2>2. CASE \E o \in Obj : Trace(o) \/ Blacken(o) \/ Hold(o) \/ Unhold(o)
    BY <2>2, <1>2 DEF Trace, Blacken, Hold, Unhold
  <2>3. CASE HoldEnds \/ ClearEnds \/ PassEnds
    BY <2>3, <1>2 DEF HoldEnds, ClearEnds, PassEnds
  <2>4. ASSUME NEW o \in Obj, NEW f \in Field, ClearSlot(o, f)
        PROVE  RequestsSound'
    <3>1. slot' = [slot EXCEPT ![<<o, f>>] = NoObj] /\ UNCHANGED busy
      BY <2>4 DEF ClearSlot, Release
    <3>2. \A s \in Slot : slot'[s] \in {slot[s], NoObj}
      BY <3>1 DEF TypeOK
    <3> QED  BY <3>1, <3>2, <1>1
  <2> QED  BY <1>7, <2>1, <2>2, <2>3, <2>4 DEF Collector
<1>8. CASE Teardown
  <2>1. CASE BeginTeardown \/ RootsGone \/ SweepDone \/ EndTeardown \/ Gone
    BY <2>1, <1>2 DEF BeginTeardown, RootsGone, SweepDone, EndTeardown, Gone, vars
  <2>2. CASE \E o \in Obj : SweepNext(o)
    BY <2>2, <1>2 DEF SweepNext
  <2>3. ASSUME NEW s \in Slot, ReleaseRoot(s)
        PROVE  RequestsSound'
    BY <2>3, <1>3 DEF ReleaseRoot
  <2>4. ASSUME NEW a \in Obj, DiscardCompleted(a)
        PROVE  RequestsSound'
    BY <2>4, <1>3, ChildSlots, HeapAssumption DEF DiscardCompleted
  <2>5. ASSUME NEW f \in Field, SweepChild(f)
        PROVE  RequestsSound'
    BY <2>5, <1>3, ChildSlots DEF SweepChild, TypeOK
  <2> QED  BY <1>8, <2>1, <2>2, <2>3, <2>4, <2>5 DEF Teardown
<1> QED  BY <1>4, <1>5, <1>6, <1>7, <1>8 DEF Next

-----------------------------------------------------------------------------
(* Owners are marked, and nothing is lost                                  *)

LEMMA MayStep ==
  ASSUME TypeOK, TypeOK', RefCountExact, Staging, SlotsSound, MoveSound, ChainSound,
         DestroySound, RequestsSound, MaySound, Next
  PROVE  MaySound'
<1> DEFINE Goal ==
      /\ \A o \in Obj, f \in Field : slot'[<<o, f>>] # NoObj => may'[o]
      /\ \A o \in Obj : status'[o] # "free" /\ KindOf[o] = Coroutines => may'[o]
      /\ move'.op \in {"copy", "new"} =>
           \A o \in Obj, f \in Field : move'.dst = <<o, f>> => may'[o]
<1> SUFFICES ASSUME mode' = "run"
             PROVE  Goal
  BY DEF MaySound
<1>1. /\ mode = "run"
      /\ \A o \in Obj, f \in Field : <<o, f>> \in Slot
      /\ \A o \in Obj, f \in Field : slot[<<o, f>>] # NoObj => may[o]
      /\ \A o \in Obj : status[o] # "free" /\ KindOf[o] = Coroutines => may[o]
      /\ move.op \in {"copy", "new"} =>
           \A o \in Obj, f \in Field : move.dst = <<o, f>> => may[o]
  BY ModeStep, ChildSlots DEF MaySound
<1>2. ASSUME UNCHANGED may, \A s \in Slot : slot'[s] \in {slot[s], NoObj},
             \A o \in Obj : status'[o] # "free" => status[o] # "free",
             move' = move \/ move'.op \notin {"copy", "new"}
      PROVE  Goal
  BY <1>1, <1>2
<1>3. ASSUME NEW s \in Slot, Release(s), UNCHANGED <<may, status>>,
             move' = move \/ move'.op \notin {"copy", "new"}
      PROVE  Goal
  <2>1. \A t \in Slot : slot'[t] \in {slot[t], NoObj}
    BY <1>3, ReleaseCases DEF TypeOK
  <2> QED  BY <2>1, <1>2, <1>3
<1>4. ASSUME UNCHANGED <<slot, status, may, move>>
      PROVE  Goal
  BY <1>1, <1>4
\* A register slot inside a container belongs to a live coroutine.
<1>5. \A o \in Obj, f \in Field : <<o, f>> \in Regs => may[o] /\ status[o] = "live"
  BY <1>1, AddressedOwners, AddressedLive
<1>6. CASE Mutator
  <2>1. ASSUME NEW o \in Obj, NEW d \in Slot, Alloc(o, d)
        PROVE  Goal
    <3>1. /\ may' = [may EXCEPT ![o] = KindOf[o] = Coroutines]
          /\ status' = [status EXCEPT ![o] = "live"]
          /\ status[o] = "free" /\ d \in Regs /\ move'.dst = d
          /\ \A s \in Slot : slot'[s] \in {slot[s], NoObj}
      BY <2>1, ReleaseCases DEF Alloc, TypeOK
    <3>2. \A f \in Field : slot[<<o, f>>] = NoObj
      BY <1>1, <3>1 DEF SlotsSound
    <3>3. \A p \in Obj : p # o => may'[p] = may[p] /\ status'[p] = status[p]
      BY <3>1 DEF TypeOK
    <3>4. KindOf[o] = Coroutines => may'[o]
      BY <3>1 DEF TypeOK
    <3>5. \A p \in Obj, f \in Field : d = <<p, f>> => p # o /\ may[p]
      BY <3>1, <1>5
    <3> QED  BY <1>1, <3>1, <3>2, <3>3, <3>4, <3>5
  <2>2. ASSUME NEW d \in Slot, NEW s \in Slot, StartMove(d, s)
        PROVE  Goal
    <3>1. /\ may' = (IF d \in Addressable THEN [may EXCEPT ![d[1]] = TRUE] ELSE may)
          /\ status' = status /\ d \in Regs \cup Addressable /\ move'.dst = d
          /\ \A t \in Slot : slot'[t] \in {slot[t], NoObj}
      BY <2>2, ReleaseCases DEF StartMove, TypeOK
    <3>2. \A o \in Obj : may[o] => may'[o]
      BY <3>1 DEF TypeOK
    <3>3. \A o \in Obj, f \in Field : d = <<o, f>> => may'[o]
      BY <3>1, <3>2, <1>5 DEF TypeOK
    <3> QED  BY <1>1, <3>1, <3>2, <3>3
  <2>3. ASSUME NEW s \in Slot, Drop(s)
        PROVE  Goal
    BY <2>3, <1>3 DEF Drop
  <2>4. CASE (\E r \in Slot : Resume(r)) \/ Yield
    BY <2>4, <1>4 DEF Resume, Yield
  <2>5. ASSUME NEW r \in Slot, NEW c \in Slot \cup {NoSlot}, AsyncRequest(r, c)
        PROVE  Goal
    <3> DEFINE a == slot[r]
    <3>1. a \in Obj /\ may' = [may EXCEPT ![a] = TRUE] /\ UNCHANGED <<status, move>>
      BY <2>5 DEF AsyncRequest, TypeOK
    <3>2. slot' = [slot EXCEPT ![<<a, CallbackField>>] = Callback(c), ![<<a, LockField>>] = a]
      BY <2>5 DEF AsyncRequest
    <3> HIDE DEF a
    <3>3. \A o \in Obj, f \in Field : o # a => slot'[<<o, f>>] = slot[<<o, f>>]
      BY <3>2, ChildSlots DEF TypeOK
    <3>4. may'[a] /\ \A o \in Obj : may[o] => may'[o]
      BY <3>1 DEF TypeOK
    <3> QED  BY <1>1, <3>1, <3>3, <3>4
  <2>6. ASSUME NEW a \in Obj, NEW d \in Slot, AsyncDispatch(a, d)
        PROVE  Goal
    <3>1. d \in Regs /\ UNCHANGED <<may, status>> /\ move'.op = "unlock"
      BY <2>6, AddressedSlots DEF AsyncDispatch
    <3>2. \A s \in Slot : s # d => slot'[s] = slot[s]
      BY <2>6 DEF AsyncDispatch, TypeOK
    <3> QED  BY <3>1, <3>2, <1>1, <1>5
  <2> QED  BY <1>6, <2>1, <2>2, <2>3, <2>4, <2>5, <2>6 DEF Mutator
<1>7. CASE Continue
  <2>1. CASE PopDestroy
    <3> DEFINE o == Last(destroyQ)
    <3>1. o \in Obj /\ o \in ToSet(destroyQ)
      BY <2>1, FrontFacts DEF PopDestroy, TypeOK
    <3>2. status[o] = "live"
      BY <3>1, <1>1, DestroyFact
    <3>3. status' = [status EXCEPT ![o] = "freeing"] /\ UNCHANGED <<slot, may, move>>
      BY <2>1, <3>2 DEF PopDestroy
    <3> HIDE DEF o
    <3> QED  BY <1>1, <3>2, <3>3 DEF TypeOK
  <2>2. ASSUME NEW f \in Field, FreeChild(f)
        PROVE  Goal
    BY <2>2, <1>3, ChildSlots DEF FreeChild, TypeOK
  <2>3. CASE FreeDone
    BY <2>3, <1>1 DEF FreeDone, TypeOK
  <2>4. CASE MoveCopies
    <3>1. move.op \in {"copy", "new"} /\ move' = NoMove /\ UNCHANGED <<may, status>>
      BY <2>4 DEF MoveCopies
    <3>2. \A s \in Slot : s # move.dst => slot'[s] = slot[s]
      BY <2>4 DEF MoveCopies, TypeOK
    <3> QED  BY <1>1, <3>1, <3>2 DEF NoMove
  <2>5. CASE Unlock \/ DropCallback
    <3>1. move.dst \in Slot
      BY <2>5, ChildSlots DEF Unlock, DropCallback, MoveSound
    <3>2. move'.op \notin {"copy", "new"}
      BY <2>5 DEF Unlock, DropCallback, NoMove, TypeOK, Moves
    <3> QED  BY <2>5, <3>1, <3>2, <1>3 DEF Unlock, DropCallback
  <2> QED  BY <1>7, <2>1, <2>2, <2>3, <2>4, <2>5 DEF Continue
<1>8. CASE \E all \in BOOLEAN : Collect(all)
  BY <1>8, <1>4 DEF Collect
<1>9. CASE Collector
  <2>1. CASE (\E q \in Kind : PopRoot(q)) \/ PopEnds \/ TraceEnds \/ Scan \/ BlackenEnds
    BY <2>1, <1>4 DEF PopRoot, PopEnds, TraceEnds, Scan, BlackenEnds
  <2>2. CASE \E o \in Obj : Trace(o) \/ Blacken(o) \/ Hold(o) \/ Unhold(o)
    BY <2>2, <1>4 DEF Trace, Blacken, Hold, Unhold
  <2>3. CASE HoldEnds \/ ClearEnds \/ PassEnds
    BY <2>3, <1>4 DEF HoldEnds, ClearEnds, PassEnds
  <2>4. ASSUME NEW o \in Obj, NEW f \in Field, ClearSlot(o, f)
        PROVE  Goal
    <3>1. slot' = [slot EXCEPT ![<<o, f>>] = NoObj] /\ UNCHANGED <<may, status, move>>
      BY <2>4 DEF ClearSlot, Release
    <3>2. \A s \in Slot : slot'[s] \in {slot[s], NoObj}
      BY <3>1 DEF TypeOK
    <3> QED  BY <3>1, <3>2, <1>2
  <2> QED  BY <1>9, <2>1, <2>2, <2>3, <2>4 DEF Collector
<1>10. ~Teardown
  BY <1>1 DEF Staging, Teardown, BeginTeardown, ReleaseRoot, DiscardCompleted, RootsGone, SweepNext,
     SweepChild, SweepDone, EndTeardown, Gone
<1> QED  BY <1>6, <1>7, <1>8, <1>9, <1>10 DEF Next

LEMMA LimboStep ==
  ASSUME TypeOK, TypeOK', RefCountExact, Staging, DestroySound, SlotsSound, MoveSound, NoLimbo,
         Next
  PROVE  NoLimbo'
<1> DEFINE Goal ==
      \A o \in Obj : status'[o] = "live" /\ rc'[o] = 0 => o \in ToSet(destroyQ') \cup {move'.new}
<1> SUFFICES ASSUME mode' = "run"
             PROVE  Goal
  BY DEF NoLimbo
<1>1. /\ mode = "run"
      /\ \A o \in Obj : status[o] = "live" /\ rc[o] = 0 => o \in ToSet(destroyQ) \cup {move.new}
  BY ModeStep DEF NoLimbo
<1>2. ASSUME NEW s \in Slot, Release(s), UNCHANGED status, move'.new = move.new
      PROVE  Goal
  <2>1. /\ \A o \in Obj : rc'[o] = 0 => rc[o] = 0 \/ o \in ToSet(destroyQ')
        /\ ToSet(destroyQ) \subseteq ToSet(destroyQ')
    BY <1>1, <1>2, ReleaseDestroys
  <2> QED  BY <1>1, <1>2, <2>1
<1>3. ASSUME UNCHANGED <<status, destroyQ>>, move'.new = move.new,
             \A o \in Obj : rc'[o] = 0 => rc[o] = 0
      PROVE  Goal
  BY <1>1, <1>3
<1>4. CASE Mutator
  <2>1. ASSUME NEW o \in Obj, NEW d \in Slot, Alloc(o, d)
        PROVE  Goal
    <3>1. /\ Release(d) /\ move'.new = o /\ move.new = NoObj
          /\ \A p \in Obj : p # o => status'[p] = status[p]
      BY <2>1 DEF Alloc, Quiescent, NoMove, TypeOK
    <3>2. /\ \A p \in Obj : rc'[p] = 0 => rc[p] = 0 \/ p \in ToSet(destroyQ')
          /\ ToSet(destroyQ) \subseteq ToSet(destroyQ')
      BY <1>1, <3>1, ReleaseDestroys
    <3> QED  BY <1>1, <3>1, <3>2, HeapAssumption
  <2>2. ASSUME NEW d \in Slot, NEW s \in Slot, StartMove(d, s)
        PROVE  Goal
    BY <2>2, <1>2 DEF StartMove, Quiescent, NoMove
  <2>3. ASSUME NEW s \in Slot, Drop(s)
        PROVE  Goal
    BY <2>3, <1>2 DEF Drop
  <2>4. CASE (\E r \in Slot : Resume(r)) \/ Yield
    BY <2>4, <1>3 DEF Resume, Yield
  <2>5. ASSUME NEW r \in Slot, NEW c \in Slot \cup {NoSlot}, AsyncRequest(r, c)
        PROVE  Goal
    <3>1. \A o \in Obj : rc[o] \in Nat /\ rc'[o] \in {rc[o], rc[o] + 1}
      BY <2>5, CountedSlots DEF AsyncRequest
    <3>2. UNCHANGED <<status, destroyQ>> /\ move' = move
      BY <2>5 DEF AsyncRequest
    <3> QED  BY <3>1, <3>2, <1>3
  <2>6. ASSUME NEW a \in Obj, NEW d \in Slot, AsyncDispatch(a, d)
        PROVE  Goal
    <3> DEFINE v == slot[<<a, CallbackField>>]
    <3>1. v \in Obj \cup {NoObj}
      BY ChildSlots, HeapAssumption DEF TypeOK
    <3>2. rc' = IF v = NoObj THEN rc ELSE [rc EXCEPT ![v] = @ + 1]
      BY <2>6 DEF AsyncDispatch
    <3> HIDE DEF v
    <3>3. \A o \in Obj : rc[o] \in Nat /\ rc'[o] \in {rc[o], rc[o] + 1}
      BY <3>1, <3>2, CountedSlots DEF TypeOK
    <3>4. UNCHANGED <<status, destroyQ>> /\ move'.new = move.new
      BY <2>6 DEF AsyncDispatch, Quiescent, NoMove
    <3> QED  BY <3>3, <3>4, <1>3
  <2> QED  BY <1>4, <2>1, <2>2, <2>3, <2>4, <2>5, <2>6 DEF Mutator
<1>5. CASE Continue
  <2>1. CASE PopDestroy
    <3> DEFINE o == Last(destroyQ)
    <3>1. /\ o \in Obj /\ o \in ToSet(destroyQ) /\ destroyQ' = Front(destroyQ)
          /\ ToSet(destroyQ) \subseteq ToSet(Front(destroyQ)) \cup {o}
      BY <2>1, FrontFacts DEF PopDestroy, TypeOK
    <3>2. status[o] = "live"
      BY <3>1, <1>1, DestroyFact
    <3>3. status' = [status EXCEPT ![o] = "freeing"] /\ UNCHANGED <<rc, move>>
      BY <2>1, <3>2 DEF PopDestroy
    <3> HIDE DEF o
    <3> QED  BY <1>1, <3>1, <3>2, <3>3 DEF TypeOK
  <2>2. ASSUME NEW f \in Field, FreeChild(f)
        PROVE  Goal
    BY <2>2, <1>2, ChildSlots DEF FreeChild, TypeOK
  <2>3. CASE FreeDone
    BY <2>3, <1>1 DEF FreeDone, TypeOK
  <2>4. CASE MoveCopies
    <3> DEFINE v == IF move.op = "new" THEN move.new ELSE slot[move.src]
    <3>1. v \in Obj \cup {NoObj}
      BY <2>4, AddressedSlots DEF MoveCopies, MoveSound, TypeOK
    <3>2. rc' = IF v = NoObj THEN rc ELSE [rc EXCEPT ![v] = @ + 1]
      BY <2>4 DEF MoveCopies
    <3>3. move.new = v \/ move.new = NoObj
      BY <2>4 DEF MoveSound
    <3> HIDE DEF v
    <3>4. \A o \in Obj : rc[o] \in Nat /\ rc'[o] = IF o = v THEN rc[o] + 1 ELSE rc[o]
      BY <3>1, <3>2, CountedSlots, HeapAssumption DEF TypeOK
    <3>5. \A o \in Obj : rc'[o] = 0 => rc[o] = 0 /\ o # v
      BY <3>4
    <3>6. UNCHANGED <<status, destroyQ>>
      BY <2>4 DEF MoveCopies
    <3> QED  BY <1>1, <3>3, <3>5, <3>6, HeapAssumption
  <2>5. CASE Unlock \/ DropCallback
    <3>1. move.dst \in Slot
      BY <2>5, ChildSlots DEF Unlock, DropCallback, MoveSound
    <3>2. move'.new = move.new
      BY <2>5 DEF Unlock, DropCallback, NoMove, MoveSound
    <3> QED  BY <2>5, <3>1, <3>2, <1>2 DEF Unlock, DropCallback
  <2> QED  BY <1>5, <2>1, <2>2, <2>3, <2>4, <2>5 DEF Continue
<1>6. CASE \E all \in BOOLEAN : Collect(all)
  BY <1>6, <1>3 DEF Collect
<1>7. CASE Collector
  <2>1. CASE (\E q \in Kind : PopRoot(q)) \/ PopEnds \/ TraceEnds \/ Scan \/ BlackenEnds
    BY <2>1, <1>3 DEF PopRoot, PopEnds, TraceEnds, Scan, BlackenEnds
  <2>2. CASE \E o \in Obj : Trace(o) \/ Blacken(o)
    BY <2>2, <1>3 DEF Trace, Blacken
  <2>3. CASE HoldEnds \/ ClearEnds \/ PassEnds
    BY <2>3, <1>3 DEF HoldEnds, ClearEnds, PassEnds
  <2>4. ASSUME NEW o \in Obj, Hold(o)
        PROVE  Goal
    <3>1. rc' = [rc EXCEPT ![o] = @ + 1] /\ UNCHANGED <<status, destroyQ>> /\ move' = move
      BY <2>4 DEF Hold
    <3>2. \A p \in Obj : rc[p] \in Nat /\ rc'[p] \in {rc[p], rc[p] + 1}
      BY <3>1, CountedSlots DEF TypeOK
    <3> QED  BY <3>1, <3>2, <1>3
  <2>5. ASSUME NEW o \in Obj, Unhold(o)
        PROVE  Goal
    <3>1. /\ \A p \in Obj : p # o => rc'[p] = rc[p]
          /\ rc[o] \in Nat /\ rc'[o] = rc[o] - 1 /\ UNCHANGED status /\ move' = move
      BY <2>5, CountedSlots DEF Unhold, TypeOK
    <3>2. CASE rc[o] <= 1
      <4>1. destroyQ' = Append(destroyQ, o)
        BY <2>5, <3>2 DEF Unhold
      <4>2. ToSet(destroyQ') = ToSet(destroyQ) \cup {o}
        BY <4>1, AppendFacts DEF TypeOK
      <4> QED  BY <1>1, <3>1, <4>2
    <3>3. CASE ~(rc[o] <= 1)
      <4>1. destroyQ' = destroyQ
        BY <2>5, <3>3 DEF Unhold
      <4> QED  BY <1>1, <3>1, <3>3, <4>1
    <3> QED  BY <3>2, <3>3
  <2>6. ASSUME NEW o \in Obj, NEW f \in Field, ClearSlot(o, f)
        PROVE  Goal
    <3>1. CASE slot[<<o, f>>] \notin hold
      BY <2>6, <3>1, <1>2, ChildSlots DEF ClearSlot
    <3>2. CASE slot[<<o, f>>] \in hold
      <4>1. PICK c \in Obj : c = slot[<<o, f>>] /\ c \in hold
        BY <3>2 DEF TypeOK
      <4>2. rc[c] \in Nat /\ rc[c] >= 1 + Held(c) /\ Held(c) = 1
        BY <4>1, CountedSlots, ChildSlots DEF Held
      <4>3. rc' = [rc EXCEPT ![c] = @ - 1]
        BY <2>6, <3>2, <4>1 DEF ClearSlot
      <4>4. \A p \in Obj : rc'[p] = 0 => rc[p] = 0
        BY <4>2, <4>3 DEF TypeOK
      <4> QED  BY <2>6, <3>2, <4>4, <1>3 DEF ClearSlot
    <3> QED  BY <3>1, <3>2
  <2> QED  BY <1>7, <2>1, <2>2, <2>3, <2>4, <2>5, <2>6 DEF Collector
<1>8. ~Teardown
  BY <1>1 DEF Staging, Teardown, BeginTeardown, ReleaseRoot, DiscardCompleted, RootsGone, SweepNext,
     SweepChild, SweepDone, EndTeardown, Gone
<1> QED  BY <1>4, <1>5, <1>6, <1>7, <1>8 DEF Next

-----------------------------------------------------------------------------
(* The resume chain and the Move in progress                               *)

\* The registers that keep the chain alive belong to waiting contexts: the
\* running one cannot address them.
LEMMA ChainApart ==
  ASSUME TypeOK, ChainSound, NEW i \in DOMAIN running, NEW r \in FrameOf(i - 1)
  PROVE  /\ r \in Slot /\ r \notin Regs \cup Addressable
         /\ \A o \in Obj, f \in Field : r = <<o, f>> => o \in ToSet(running)
<1>1. /\ DOMAIN running = 1 .. Len(running) /\ Len(running) \in Nat /\ running # <<>>
      /\ \A j \in DOMAIN running : running[j] \in Obj
      /\ \A j, k \in DOMAIN running : running[j] = running[k] => j = k
      /\ Last(running) = running[Len(running)]
  BY DEF TypeOK, ChainSound, Last
<1>2. Frame = {<<running[Len(running)], f>> : f \in Field} /\ Regs = Global \cup Frame
  BY <1>1 DEF Frame, Regs
<1>3. CASE i = 1
  <2>1. r \in Local /\ r \notin Inner /\ r \notin Global
    BY <1>3, HeapAssumption DEF FrameOf, Root
  <2>2. Frame \subseteq Inner /\ Addressable \subseteq Inner
    BY <1>1, <1>2, AddressedSlots DEF Inner
  <2> QED  BY <1>2, <2>1, <2>2 DEF Slot, Root, Inner
<1>4. CASE i # 1
  <2>1. i - 1 \in DOMAIN running /\ i - 1 # 0 /\ i - 1 # Len(running)
    BY <1>1, <1>4
  <2>2. PICK f \in Field : r = <<running[i - 1], f>>
    BY <2>1 DEF FrameOf
  <2>3. running[i - 1] \in Obj /\ KindOf[running[i - 1]] = Coroutines
    BY <2>1, ChainNodes
  <2>4. r \in Inner /\ r \notin Global
    BY <2>2, <2>3, HeapAssumption DEF Inner, Root
  <2>5. Len(running) \in DOMAIN running
    BY <1>1
  <2>6. r \notin Frame
    BY <1>1, <1>2, <2>1, <2>2, <2>5
  <2>7. r \notin Addressable
    BY <2>2, <2>3, AddressedOwners
  <2> QED  BY <1>2, <2>1, <2>2, <2>4, <2>6, <2>7 DEF Slot, ToSet
<1> QED  BY <1>3, <1>4

LEMMA ChainStep ==
  ASSUME TypeOK, TypeOK', RefCountExact, Staging, Staging', DestroySound, MoveSound, ColorSound,
         RequestsSound, ChainSound, Next
  PROVE  ChainSound'
<1>1. ASSUME UNCHANGED running,
             \A s \in Slot : slot'[s] # slot[s] =>
               \/ s \in Regs \cup Addressable
               \/ \E o \in Obj, f \in Field : s = <<o, f>> /\ o \notin ToSet(running)
      PROVE  ChainSound'
  <2>1. \A i \in DOMAIN running : \A r \in FrameOf(i - 1) : slot'[r] = slot[r]
    BY <1>1, ChainApart
  <2> QED  BY <1>1, <2>1 DEF ChainSound, FrameOf
<1>2. ASSUME running' = <<>>
      PROVE  ChainSound'
  BY <1>2 DEF ChainSound
<1>3. ASSUME NEW s \in Slot, Release(s), UNCHANGED running, s \in Regs \cup Addressable
      PROVE  ChainSound'
  <2>1. \A t \in Slot : t # s => slot'[t] = slot[t]
    BY <1>3, ReleaseCases DEF TypeOK
  <2> QED  BY <1>1, <1>3, <2>1
<1>4. ASSUME NEW o \in Obj, NEW f \in Field, slot' = [slot EXCEPT ![<<o, f>>] = NoObj],
             UNCHANGED running, o \notin ToSet(running)
      PROVE  ChainSound'
  <2>1. \A t \in Slot : t # <<o, f>> => slot'[t] = slot[t]
    BY <1>4 DEF TypeOK
  <2> QED  BY <1>1, <1>4, <2>1
<1>5. \A o \in Obj : KindOf[o] = Asyncs => o \notin ToSet(running)
  BY ChainNodes DEF ToSet, Asyncs, Coroutines
<1>6. ASSUME UNCHANGED <<running, slot>>
      PROVE  ChainSound'
  BY <1>1, <1>6
<1>7. CASE Mutator
  <2>1. ASSUME NEW o \in Obj, NEW d \in Slot, Alloc(o, d)
        PROVE  ChainSound'
    BY <2>1, <1>3 DEF Alloc
  <2>2. ASSUME NEW d \in Slot, NEW s \in Slot, StartMove(d, s)
        PROVE  ChainSound'
    BY <2>2, <1>3 DEF StartMove
  <2>3. ASSUME NEW s \in Slot, Drop(s)
        PROVE  ChainSound'
    BY <2>3, <1>3 DEF Drop
  <2>4. ASSUME NEW r \in Slot, Resume(r)
        PROVE  ChainSound'
    <3> DEFINE c == slot[r]
    <3>0. PICK n \in Nat : n = Len(running)
      BY DEF TypeOK
    <3>1. /\ DOMAIN running = 1 .. n
          /\ c \in Obj /\ KindOf[c] = Coroutines /\ c \notin ToSet(running)
          /\ running' = Append(running, c) /\ slot' = slot /\ r \in Frame
      BY <2>4, <3>0 DEF Resume, TypeOK
    <3>2. /\ DOMAIN running' = 1 .. n + 1 /\ running'[n + 1] = c
          /\ \A i \in 1 .. n : running'[i] = running[i]
      BY <3>0, <3>1 DEF TypeOK
    <3>3. \A i \in 1 .. n : FrameOf(i - 1)' = FrameOf(i - 1)
      <4> SUFFICES ASSUME NEW i \in 1 .. n
                   PROVE  FrameOf(i - 1)' = FrameOf(i - 1)
        OBVIOUS
      <4>1. CASE i = 1
        BY <4>1 DEF FrameOf
      <4>2. CASE i # 1
        <5>1. i - 1 \in 1 .. n
          BY <4>2, <3>1
        <5>2. running'[i - 1] = running[i - 1]
          BY <5>1, <3>2
        <5> QED  BY <5>2 DEF FrameOf
      <4> QED  BY <4>1, <4>2
    <3>4. FrameOf(n)' = Frame
      <4>1. CASE running = <<>>
        <5>1. n = 0
          BY <4>1, <3>0
        <5> QED  BY <4>1, <5>1 DEF FrameOf, Frame
      <4>2. CASE running # <<>>
        <5>1. n # 0 /\ n \in 1 .. n /\ Last(running) = running[n]
          BY <4>2, <3>0, EmptySeq DEF TypeOK, Last
        <5> QED  BY <4>2, <5>1, <3>2 DEF FrameOf, Frame
      <4> QED  BY <4>1, <4>2
    <3> HIDE DEF c
    <3>5. \A i \in 1 .. n : KindOf[running[i]] = Coroutines /\ \E q \in FrameOf(i - 1) : slot[q] = running[i]
      BY <3>1 DEF ChainSound
    <3>6. \A i \in 1 .. n + 1 :
            KindOf[running'[i]] = Coroutines /\ \E q \in FrameOf(i - 1)' : slot'[q] = running'[i]
      <4> SUFFICES ASSUME NEW i \in 1 .. n + 1
                   PROVE  KindOf[running'[i]] = Coroutines /\ \E q \in FrameOf(i - 1)' : slot'[q] = running'[i]
        OBVIOUS
      <4>1. CASE i = n + 1
        <5>1. i - 1 = n
          BY <4>1, <3>1
        <5>2. running'[i] = c /\ slot'[r] = c /\ r \in FrameOf(i - 1)'
          BY <4>1, <5>1, <3>1, <3>2, <3>4 DEF c
        <5> QED  BY <5>2, <3>1
      <4>2. CASE i # n + 1
        <5>1. i \in 1 .. n
          BY <4>2, <3>1
        <5> QED  BY <5>1, <3>1, <3>2, <3>3, <3>5
      <4> QED  BY <4>1, <4>2
    <3>7. \A i, j \in 1 .. n + 1 : running'[i] = running'[j] => i = j
      <4>1. \A i, j \in 1 .. n : running[i] = running[j] => i = j
        BY <3>1 DEF ChainSound
      <4>2. \A i \in 1 .. n : running[i] # c
        BY <3>1 DEF ToSet
      <4>3. \A i \in 1 .. n + 1 : i # n + 1 => i \in 1 .. n
        BY <3>1
      <4> QED  BY <3>2, <4>1, <4>2, <4>3
    <3> QED  BY <3>2, <3>6, <3>7 DEF ChainSound
  <2>5. CASE Yield
    <3>1. /\ running # <<>> /\ running' = Front(running) /\ slot' = slot
          /\ DOMAIN running' = 1 .. Len(running) - 1 /\ Len(running) \in Nat
          /\ DOMAIN running = 1 .. Len(running)
          /\ \A i \in DOMAIN running' : i \in DOMAIN running /\ running'[i] = running[i]
      <4>1. running # <<>> /\ running' = Front(running) /\ slot' = slot
        BY <2>5 DEF Yield
      <4>2. running \in Seq(Obj) /\ Len(running) \in Nat /\ DOMAIN running = 1 .. Len(running)
        BY DEF TypeOK
      <4> QED  BY <4>1, <4>2, FrontFacts
    <3>2. \A i \in DOMAIN running' : FrameOf(i - 1)' = FrameOf(i - 1)
      <4> SUFFICES ASSUME NEW i \in DOMAIN running'
                   PROVE  FrameOf(i - 1)' = FrameOf(i - 1)
        OBVIOUS
      <4>1. CASE i = 1
        BY <4>1 DEF FrameOf
      <4>2. CASE i # 1
        <5>1. i - 1 \in DOMAIN running'
          BY <4>2, <3>1
        <5> QED  BY <5>1, <3>1 DEF FrameOf
      <4> QED  BY <4>1, <4>2
    <3> QED  BY <3>1, <3>2 DEF ChainSound
  <2>6. ASSUME NEW r \in Slot, NEW c \in Slot \cup {NoSlot}, AsyncRequest(r, c)
        PROVE  ChainSound'
    <3> DEFINE a == slot[r]
    <3>1. a \in Obj /\ KindOf[a] = Asyncs /\ UNCHANGED running
      BY <2>6 DEF AsyncRequest, TypeOK
    <3>2. slot' = [slot EXCEPT ![<<a, CallbackField>>] = Callback(c), ![<<a, LockField>>] = a]
      BY <2>6 DEF AsyncRequest
    <3> HIDE DEF a
    <3>3. \A s \in Slot : slot'[s] # slot[s] => s \in {<<a, CallbackField>>, <<a, LockField>>}
      BY <3>2 DEF TypeOK
    <3> QED  BY <3>1, <3>3, <1>1, <1>5, HeapAssumption
  <2>7. ASSUME NEW a \in Obj, NEW d \in Slot, AsyncDispatch(a, d)
        PROVE  ChainSound'
    <3>1. d \in Regs /\ UNCHANGED running
      BY <2>7, AddressedSlots DEF AsyncDispatch
    <3>2. \A s \in Slot : s # d => slot'[s] = slot[s]
      BY <2>7 DEF AsyncDispatch, TypeOK
    <3> QED  BY <3>1, <3>2, <1>1
  <2> QED  BY <1>7, <2>1, <2>2, <2>3, <2>4, <2>5, <2>6, <2>7 DEF Mutator
<1>8. CASE Continue
  <2>1. CASE PopDestroy \/ FreeDone
    BY <2>1, <1>6 DEF PopDestroy, FreeDone
  <2>2. ASSUME NEW f \in Field, FreeChild(f)
        PROVE  ChainSound'
    <3>1. /\ freeing \in Obj /\ UNCHANGED running
          /\ slot' = [slot EXCEPT ![<<freeing, f>>] = NoObj]
      BY <2>2 DEF FreeChild, Release, TypeOK
    <3>2. CASE mode = "run"
      <4>1. rc[freeing] = 0
        BY <2>2, <3>2 DEF FreeChild, DestroySound
      <4>2. \A s \in Slot : slot[s] # freeing
        BY <3>1, <4>1, UncountedNodes DEF Refs
      <4>3. freeing \notin ToSet(running)
        BY <4>2, ChainNodes DEF ToSet
      <4> QED  BY <3>1, <4>3, <1>4
    <3>3. CASE mode # "run"
      BY <3>1, <3>3, <1>2 DEF Staging
    <3> QED  BY <3>2, <3>3
  <2>3. CASE MoveCopies
    <3>1. move.dst \in Regs \cup Addressable /\ UNCHANGED running
      BY <2>3 DEF MoveCopies, MoveSound
    <3>2. \A s \in Slot : s # move.dst => slot'[s] = slot[s]
      BY <2>3 DEF MoveCopies, TypeOK
    <3> QED  BY <3>1, <3>2, <1>1
  <2>4. CASE Unlock \/ DropCallback
    <3>1. PICK a \in Obj, f \in Field : move.dst = <<a, f>> /\ KindOf[a] = Asyncs
      BY <2>4 DEF Unlock, DropCallback, MoveSound
    <3>2. slot' = [slot EXCEPT ![<<a, f>>] = NoObj] /\ UNCHANGED running
      BY <2>4, <3>1 DEF Unlock, DropCallback, Release
    <3> QED  BY <3>1, <3>2, <1>4, <1>5
  <2> QED  BY <1>8, <2>1, <2>2, <2>3, <2>4 DEF Continue
<1>9. CASE \E all \in BOOLEAN : Collect(all)
  BY <1>9, <1>6 DEF Collect
<1>10. CASE Collector
  <2>1. CASE (\E q \in Kind : PopRoot(q)) \/ PopEnds \/ TraceEnds \/ Scan \/ BlackenEnds
    BY <2>1, <1>6 DEF PopRoot, PopEnds, TraceEnds, Scan, BlackenEnds
  <2>2. CASE \E o \in Obj : Trace(o) \/ Blacken(o) \/ Hold(o) \/ Unhold(o)
    BY <2>2, <1>6 DEF Trace, Blacken, Hold, Unhold
  <2>3. CASE HoldEnds \/ ClearEnds \/ PassEnds
    BY <2>3, <1>6 DEF HoldEnds, ClearEnds, PassEnds
  <2>4. ASSUME NEW o \in Obj, NEW f \in Field, ClearSlot(o, f)
        PROVE  ChainSound'
    <3>1. /\ slot' = [slot EXCEPT ![<<o, f>>] = NoObj] /\ UNCHANGED running
          /\ o \notin ToSet(running)
      BY <2>4 DEF ClearSlot, Release, ColorSound
    <3> QED  BY <3>1, <1>4
  <2> QED  BY <1>10, <2>1, <2>2, <2>3, <2>4 DEF Collector
<1>11. CASE Teardown
  <2>1. running' = running
    BY <1>11 DEF Teardown, BeginTeardown, ReleaseRoot, DiscardCompleted, RootsGone, SweepNext,
       SweepChild, SweepDone, EndTeardown, Gone, vars
  <2>2. running = <<>>
    BY <1>11 DEF Teardown, BeginTeardown, ReleaseRoot, DiscardCompleted, RootsGone, SweepNext,
       SweepChild, SweepDone, EndTeardown, Gone, Staging
  <2> QED  BY <2>1, <2>2, <1>2
<1> QED  BY <1>7, <1>8, <1>9, <1>10, <1>11 DEF Next

LEMMA MoveStep ==
  ASSUME TypeOK, TypeOK', RefCountExact, Staging, Staging', DestroySound, SlotsSound, MoveSound,
         ColorSound, RequestsSound, ChainSound, Next
  PROVE  MoveSound'
<1>1. ASSUME move' = NoMove
      PROVE  MoveSound'
  BY <1>1 DEF MoveSound, NoMove
\* Cutting a slot no register names leaves what can be addressed alone.
<1>2. ASSUME UNCHANGED running, \A r \in Regs : slot'[r] = slot[r]
      PROVE  Regs' = Regs /\ Addressable' = Addressable
  <2>1. Regs' = Regs
    BY <1>2 DEF Regs, Frame
  <2>2. Elements' = Elements
    BY <1>2, <2>1 DEF Elements
  <2> QED  BY <2>1, <2>2 DEF Addressable
<1>3. CASE Mutator
  <2>1. ASSUME NEW o \in Obj, NEW d \in Slot, Alloc(o, d)
        PROVE  MoveSound'
    <3>1. /\ mode = "run" /\ hold = {} /\ destroyQ = <<>> /\ status[o] = "free"
          /\ d \in Regs /\ Release(d) /\ UNCHANGED running
          /\ status' = [status EXCEPT ![o] = "live"]
          /\ move' = [op |-> "new", dst |-> d, src |-> NoSlot, new |-> o]
      BY <2>1 DEF Alloc, Quiescent, Drained, Staging
    <3>2. \A s \in Slot : slot[s] # o
      BY <3>1, HeapAssumption DEF SlotsSound
    <3>3. rc[o] = 0
      BY <3>1, <3>2, UncountedNodes DEF Refs
    <3>4. rc'[o] = 0 /\ \A p \in ToSet(destroyQ') : status[p] = "live"
      BY <3>1, <3>3, ReleaseDestroys
    <3>5. d \in Regs' /\ slot'[d] = NoObj
      BY <3>1, ReleaseCases DEF Regs, Frame, TypeOK
    <3>6. status'[o] = "live" /\ o \notin ToSet(destroyQ')
      BY <3>1, <3>4 DEF TypeOK
    <3> QED  BY <3>1, <3>4, <3>5, <3>6 DEF MoveSound
  <2>2. ASSUME NEW d \in Slot, NEW s \in Slot, StartMove(d, s)
        PROVE  MoveSound'
    <3>1. /\ Release(d) /\ UNCHANGED running /\ d \in Regs \cup Addressable
          /\ move' = [op |-> "copy", dst |-> d, src |-> s, new |-> NoObj]
      BY <2>2 DEF StartMove
    <3>2. slot'[d] = NoObj /\ \A t \in Slot : t # d => slot'[t] = slot[t]
      BY <3>1, ReleaseCases DEF TypeOK
    <3>3. d \in Regs' \cup Addressable'
      <4>1. CASE d \in Regs
        BY <4>1, <3>1 DEF Regs, Frame
      <4>2. CASE d \in Addressable
        <5>1. PICK o \in Obj, f \in Field : d = <<o, f>>
          BY <4>2, AddressedSlots DEF Inner
        <5>2. d \notin Regs
          BY <4>2, <5>1, AddressedOwners
        <5>3. \A r \in Regs : slot'[r] = slot[r]
          BY <5>2, <3>2, AddressedSlots
        <5> QED  BY <4>2, <5>3, <3>1, <1>2
      <4> QED  BY <3>1, <4>1, <4>2
    <3> QED  BY <3>1, <3>2, <3>3 DEF MoveSound
  <2>3. CASE \/ \E s \in Slot : Drop(s)
             \/ \E r \in Slot : Resume(r)
             \/ Yield
             \/ \E r \in Slot, c \in Slot \cup {NoSlot} : AsyncRequest(r, c)
    BY <2>3, <1>1 DEF Drop, Resume, Yield, AsyncRequest, Quiescent
  <2>4. ASSUME NEW a \in Obj, NEW d \in Slot, AsyncDispatch(a, d)
        PROVE  MoveSound'
    <3>1. KindOf[a] = Asyncs /\ LockField \in Field
      BY <2>4, HeapAssumption DEF AsyncDispatch, RequestsSound
    <3>2. move' = [op |-> "unlock", dst |-> <<a, LockField>>, src |-> NoSlot, new |-> NoObj]
      BY <2>4 DEF AsyncDispatch
    <3> QED  BY <3>1, <3>2 DEF MoveSound
  <2> QED  BY <1>3, <2>1, <2>2, <2>3, <2>4 DEF Mutator
<1>4. ASSUME move.op \in {"copy", "new"}, UNCHANGED <<move, running>>,
             slot'[move.dst] \in {slot[move.dst], NoObj},
             \A r \in Regs : slot'[r] = slot[r],
             move.op = "new" =>
               /\ status'[move.new] = status[move.new] /\ rc'[move.new] = rc[move.new]
               /\ move.new \notin ToSet(destroyQ')
      PROVE  MoveSound'
  <2>1. move.dst \in Regs' \cup Addressable' /\ slot'[move.dst] = NoObj
    BY <1>2, <1>4 DEF MoveSound
  <2> QED  BY <1>4, <2>1 DEF MoveSound
<1>5. ASSUME move.op \notin {"copy", "new"}, UNCHANGED move
      PROVE  MoveSound'
  BY <1>5 DEF MoveSound
<1>6. CASE Continue
  <2>1. ASSUME move.op \in {"copy", "new"}
        PROVE  /\ mode = "run"
               /\ move.dst \in Slot
               /\ move.op = "new" => /\ move.new \in Obj /\ status[move.new] = "live" /\ rc[move.new] = 0
                                     /\ \A s \in Slot : slot[s] # move.new
    <3>1. mode = "run"
      BY <2>1 DEF Staging, NoMove
    <3>2. move.dst \in Slot
      BY <2>1, AddressedSlots DEF MoveSound
    <3>3. move.op = "new" => move.new \in Obj /\ status[move.new] = "live" /\ rc[move.new] = 0
      BY DEF MoveSound
    <3> QED  BY <3>1, <3>2, <3>3, UncountedNodes DEF Refs
  <2>2. CASE PopDestroy
    <3> DEFINE o == Last(destroyQ)
    <3>1. /\ o \in Obj /\ o \in ToSet(destroyQ) /\ destroyQ' = Front(destroyQ)
          /\ ToSet(Front(destroyQ)) \subseteq ToSet(destroyQ)
      BY <2>2, FrontFacts DEF PopDestroy, TypeOK
    <3>2. UNCHANGED <<slot, rc, running, move>> /\ \A p \in Obj : p # o => status'[p] = status[p]
      BY <2>2 DEF PopDestroy, TypeOK
    <3>3. CASE move.op \in {"copy", "new"}
      <4>1. move.op = "new" => move.new \notin ToSet(destroyQ)
        BY DEF MoveSound
      <4> HIDE DEF o
      <4> QED  BY <1>4, <2>1, <3>1, <3>2, <3>3, <4>1
    <3>4. CASE move.op \notin {"copy", "new"}
      BY <3>2, <3>4, <1>5
    <3> QED  BY <3>3, <3>4
  <2>3. ASSUME NEW f \in Field, FreeChild(f)
        PROVE  MoveSound'
    <3>1. CASE move.op \in {"copy", "new"}
      <4> DEFINE s == <<freeing, f>>
      <4>1. /\ freeing \in Obj /\ s \in Slot /\ Release(s) /\ mode = "run"
            /\ UNCHANGED <<status, running, move>>
        BY <2>1, <2>3, <3>1, ChildSlots DEF FreeChild, TypeOK
      <4>2. slot'[s] = NoObj /\ \A t \in Slot : t # s => slot'[t] = slot[t]
        BY <4>1, ReleaseCases DEF TypeOK
      <4>3. rc[freeing] = 0
        BY <2>3, <4>1 DEF FreeChild, DestroySound
      <4>4. freeing \notin ToSet(running)
        <5>1. \A t \in Slot : slot[t] # freeing
          BY <4>1, <4>3, UncountedNodes DEF Refs
        <5> QED  BY <5>1, ChainNodes DEF ToSet
      <4>5. s \notin Regs
        <5>1. running # <<>> => Last(running) \in ToSet(running)
          BY FrontFacts DEF TypeOK
        <5> QED  BY <4>1, <4>4, <5>1, AddressedOwners
      <4>6. \A r \in Regs : slot'[r] = slot[r]
        BY <4>2, <4>5, AddressedSlots
      <4>7. ASSUME move.op = "new"
            PROVE  rc'[move.new] = rc[move.new] /\ move.new \notin ToSet(destroyQ')
        <5>1. move.new \in Obj /\ slot[s] # move.new /\ move.new \notin ToSet(destroyQ)
          BY <2>1, <4>1, <4>7 DEF MoveSound
        <5> QED  BY <4>1, <5>1, ReleaseDestroys
      <4>8. slot'[move.dst] \in {slot[move.dst], NoObj}
        BY <2>1, <3>1, <4>2
      <4> QED  BY <1>4, <3>1, <4>1, <4>6, <4>7, <4>8
    <3>2. CASE move.op \notin {"copy", "new"}
      BY <2>3, <3>2, <1>5 DEF FreeChild
    <3> QED  BY <3>1, <3>2
  <2>4. CASE FreeDone
    <3>1. freeing \in Obj /\ UNCHANGED <<slot, rc, running, move, destroyQ>>
      BY <2>4 DEF FreeDone, TypeOK
    <3>2. \A p \in Obj : p # freeing => status'[p] = status[p]
      BY <2>4 DEF FreeDone, TypeOK
    <3>3. CASE move.op \in {"copy", "new"}
      <4>1. status[freeing] = "freeing"
        BY <2>1, <2>4, <3>3 DEF FreeDone, DestroySound
      <4>2. move.op = "new" => move.new \notin ToSet(destroyQ)
        BY DEF MoveSound
      <4> QED  BY <1>4, <2>1, <3>1, <3>2, <3>3, <4>1, <4>2
    <3>4. CASE move.op \notin {"copy", "new"}
      BY <3>1, <3>4, <1>5
    <3> QED  BY <3>3, <3>4
  <2>5. CASE MoveCopies \/ DropCallback
    BY <2>5, <1>1 DEF MoveCopies, DropCallback
  <2>6. CASE Unlock
    <3>1. PICK a \in Obj, f \in Field : move.dst = <<a, f>> /\ KindOf[a] = Asyncs
      BY <2>6 DEF Unlock, MoveSound
    <3>2. move' = [op |-> "drop", dst |-> <<a, CallbackField>>, src |-> NoSlot, new |-> NoObj]
      BY <2>6, <3>1 DEF Unlock
    <3> QED  BY <3>1, <3>2, HeapAssumption DEF MoveSound
  <2> QED  BY <1>6, <2>2, <2>3, <2>4, <2>5, <2>6 DEF Continue
<1>7. CASE \E all \in BOOLEAN : Collect(all)
  BY <1>7, <1>1 DEF Collect, Quiescent
<1>8. CASE Collector
  <2>1. move = NoMove
    BY <1>8 DEF Collector, PopRoot, PopEnds, Trace, TraceEnds, Scan, Blacken, BlackenEnds,
       Hold, HoldEnds, ClearSlot, ClearEnds, Unhold, PassEnds, Staging
  <2>2. move' = move
    BY <1>8 DEF Collector, PopRoot, PopEnds, Trace, TraceEnds, Scan, Blacken, BlackenEnds,
       Hold, HoldEnds, ClearSlot, ClearEnds, Unhold, PassEnds
  <2> QED  BY <2>1, <2>2, <1>1
<1>9. CASE Teardown
  <2>1. move = NoMove
    BY <1>9 DEF Teardown, BeginTeardown, ReleaseRoot, DiscardCompleted, RootsGone, SweepNext,
       SweepChild, SweepDone, EndTeardown, Gone, Quiescent, Staging
  <2>2. move' = move
    BY <1>9 DEF Teardown, BeginTeardown, ReleaseRoot, DiscardCompleted, RootsGone, SweepNext,
       SweepChild, SweepDone, EndTeardown, Gone, vars
  <2> QED  BY <2>1, <2>2, <1>1
<1> QED  BY <1>3, <1>6, <1>7, <1>8, <1>9 DEF Next

-----------------------------------------------------------------------------
(* The theorems                                                            *)

LEMMA HeapInit == Init => HeapInv
<1> SUFFICES ASSUME Init
             PROVE  HeapInv
  OBVIOUS
<1>1. TypeOK
  <2>1. /\ slot \in [Slot -> Obj \cup {NoObj}] /\ rc \in [Obj -> Int]
        /\ status \in [Obj -> {"free", "live", "freeing"}] /\ may \in [Obj -> BOOLEAN]
    BY DEF Init
  <2>2. cand \in [Kind -> Seq(Obj)] /\ destroyQ \in Seq(Obj) /\ running \in Seq(Obj)
    <3>1. <<>> \in Seq(Obj)
      OBVIOUS
    <3> QED  BY <3>1 DEF Init
  <2>3. rr \in Kind
    BY DEF Init, Kind
  <2>4. move \in Moves
    BY DEF Init, NoMove, Moves
  <2>5. /\ freeing \in Obj \cup {NoObj} /\ sweep \in Obj \cup {NoObj}
        /\ busy \subseteq Obj /\ todo \subseteq Obj /\ hold \subseteq Obj
        /\ mode \in {"run", "teardown", "sweep", "down"}
        /\ phase \in Phases /\ force \in BOOLEAN /\ budget \in Nat
    BY DEF Init, Phases
  <2>6. color \in [Obj -> Colors] /\ scratch \in [Obj -> Int]
    BY DEF Init, Colors
  <2> QED  BY <2>1, <2>2, <2>3, <2>4, <2>5, <2>6 DEF TypeOK
<1>2. \A o \in Obj : Refs(o) = {} /\ Held(o) = 0
  BY HeapAssumption DEF Init, Refs, Held
<1>3. RefCountExact
  <2>1. \A o \in Obj : Cardinality(Refs(o)) = 0
    BY <1>2, FS_EmptySet, Zenon
  <2>2. \A o \in Obj : rc[o] = 0
    BY DEF Init
  <2> QED  BY <1>2, <2>1, <2>2 DEF RefCountExact
<1>4. Queued = {}
  BY DEF Init, Queued, ToSet
<1>5. Staging
  BY <1>4 DEF Staging, Init, Drained
<1>6. DestroySound /\ MoveSound /\ TicketsAreLive /\ ColorSound
  BY DEF Init, DestroySound, MoveSound, TicketsAreLive, ColorSound, NoMove
<1>7. SlotsSound /\ RequestsSound /\ MaySound
  BY ChildSlots, <1>1 DEF Init, SlotsSound, RequestsSound, MaySound, NoMove
<1>8. ChainSound /\ NoLimbo
  BY DEF Init, ChainSound, NoLimbo
<1> QED  BY <1>1, <1>3, <1>5, <1>6, <1>7, <1>8 DEF HeapInv

LEMMA HeapStep == HeapInv /\ [Next]_vars => HeapInv'
<1> SUFFICES ASSUME HeapInv, [Next]_vars
             PROVE  HeapInv'
  OBVIOUS
<1> USE DEF HeapInv
<1>1. CASE Next
  <2>1. TypeOK' /\ RefCountExact' /\ Staging'
    BY <1>1, TypeStep, CountStep, StagingStep
  <2>2. DestroySound' /\ SlotsSound' /\ TicketsAreLive' /\ ColorSound'
    BY <1>1, <2>1, DestroyStep, SlotsStep, TicketsStep, ColorStep
  <2>3. MoveSound' /\ RequestsSound' /\ ChainSound'
    BY <1>1, <2>1, MoveStep, RequestsStep, ChainStep
  <2>4. MaySound' /\ NoLimbo'
    BY <1>1, <2>1, MayStep, LimboStep
  <2> QED  BY <2>1, <2>2, <2>3, <2>4
<1>2. CASE UNCHANGED vars
  <2>1. /\ UNCHANGED <<TypeOK, RefCountExact, Staging, DestroySound, SlotsSound, MoveSound>>
        /\ UNCHANGED <<TicketsAreLive, ColorSound, RequestsSound, ChainSound, MaySound, NoLimbo>>
    BY <1>2 DEF vars, TypeOK, RefCountExact, Refs, Held, Staging, Queued, Drained, DestroySound,
       SlotsSound, MoveSound, Regs, Frame, Addressable, Elements, TicketsAreLive, ColorSound,
       RequestsSound, ChainSound, FrameOf, MaySound, NoLimbo
  <2> QED  BY <2>1
<1> QED  BY <1>1, <1>2

\* HeapInv holds in every reachable state, for every set of nodes, slots and
\* fields and every assignment of kinds.
THEOREM HeapInvariant == Spec => []HeapInv
  BY HeapInit, HeapStep, PTL DEF Spec

\* Every variable keeps its type.
THEOREM HeapTypes == Spec => []TypeOK
<1>1. HeapInv => TypeOK
  BY DEF HeapInv
<1> QED  BY <1>1, HeapInvariant, PTL

\* No path of Move, Free*, the collector's uncounted white edges or the final
\* sweep loses or adds a count.
THEOREM CountsAreExact == Spec => []RefCountExact
<1>1. HeapInv => RefCountExact
  BY DEF HeapInv
<1> QED  BY <1>1, HeapInvariant, PTL

\* While the VM runs no slot refers to a node that is in the pool or inside
\* its Free*, and nothing refers to a node waiting to be destroyed.
THEOREM NothingDangles == Spec => []NoDangling
<1>1. HeapInv => NoDangling
  <2> SUFFICES ASSUME HeapInv, mode = "run"
               PROVE  /\ \A s \in Slot : slot[s] # NoObj => status[slot[s]] = "live"
                      /\ \A o \in ToSet(destroyQ) : status[o] = "live" /\ Refs(o) = {}
    BY DEF NoDangling
  <2>1. \A o \in ToSet(destroyQ) : o \in Obj /\ status[o] = "live" /\ rc[o] = 0
    BY DestroyFact DEF HeapInv, TypeOK, ToSet
  <2>2. \A o \in ToSet(destroyQ) : Refs(o) = {}
    BY <2>1, UncountedNodes DEF HeapInv
  <2> QED  BY <2>1, <2>2 DEF HeapInv, SlotsSound
<1> QED  BY <1>1, HeapInvariant, PTL

\* A live node without a reference is on its way to a slot or to the pool.
THEOREM NothingIsLost == Spec => []NoLimbo
<1>1. HeapInv => NoLimbo
  BY DEF HeapInv
<1> QED  BY <1>1, HeapInvariant, PTL

\* A candidate queue never names a node that went back to its pool, nor the
\* same node twice.
THEOREM CandidatesAreLive == Spec => []TicketsAreLive
<1>1. HeapInv => TicketsAreLive
  BY DEF HeapInv
<1> QED  BY <1>1, HeapInvariant, PTL

\* A container that holds another one is marked for the collector.
THEOREM OwnersAreMarked == Spec => []MayCoversChildren
<1>1. HeapInv => MayCoversChildren
  BY DEF HeapInv, MaySound, MayCoversChildren, Kids
<1> QED  BY <1>1, HeapInvariant, PTL

\* A coroutine a worker points at is never freed.
THEOREM ActiveContextsLive == Spec => []PinnedAlive
<1>1. HeapInv => PinnedAlive
  <2> SUFFICES ASSUME HeapInv, NEW i \in DOMAIN running
               PROVE  status[running[i]] = "live"
    BY DEF PinnedAlive
  <2>1. mode = "run"
    BY DEF HeapInv, Staging
  <2>2. running[i] \in Obj /\ \E r \in Slot : slot[r] = running[i]
    BY ChainNodes DEF HeapInv
  <2> QED  BY <2>1, <2>2, HeapAssumption DEF HeapInv, SlotsSound
<1> QED  BY <1>1, HeapInvariant, PTL

\* A pool node is handed out only when nothing refers to it, and returned
\* only once.
THEOREM ReuseIsSafe == Spec => ReusedUnreferenced
<1> DEFINE Safe == \A o \in Obj : status[o] = "free" /\ status'[o] # "free" =>
                      status'[o] = "live" /\ Refs(o) = {}
<1>1. HeapInv /\ [Next]_vars => [Safe]_vars
  <2> SUFFICES ASSUME HeapInv, Next
               PROVE  Safe
    OBVIOUS
  <2>1. ASSUME \A o \in Obj : status[o] = "free" => status'[o] = "free"
        PROVE  Safe
    BY <2>1
  <2>2. status \in [Obj -> {"free", "live", "freeing"}]
    BY DEF HeapInv, TypeOK
  <2>3. ASSUME NEW o \in Obj, NEW d \in Slot, Alloc(o, d)
        PROVE  Safe
    <3>1. mode = "run" /\ status[o] = "free" /\ status' = [status EXCEPT ![o] = "live"]
      BY <2>3 DEF Alloc, Quiescent
    <3>2. Refs(o) = {}
      BY <3>1, HeapAssumption DEF Refs, HeapInv, SlotsSound
    <3> QED  BY <2>2, <3>1, <3>2
  <2>4. CASE Mutator
    <3>1. (\E o \in Obj, d \in Slot : Alloc(o, d)) \/ UNCHANGED status
      BY <2>4 DEF Mutator, StartMove, Drop, Resume, Yield, AsyncRequest, AsyncDispatch
    <3> QED  BY <2>1, <2>3, <3>1
  <2>5. CASE Continue
    <3>1. CASE PopDestroy
      <4>1. status' = status \/ (status[Last(destroyQ)] = "live" /\
                                 status' = [status EXCEPT ![Last(destroyQ)] = "freeing"])
        BY <3>1 DEF PopDestroy
      <4> QED  BY <2>1, <2>2, <4>1
    <3>2. CASE FreeDone
      BY <2>1, <2>2, <3>2 DEF FreeDone
    <3>3. CASE (\E f \in Field : FreeChild(f)) \/ MoveCopies \/ Unlock \/ DropCallback
      BY <2>1, <3>3 DEF FreeChild, MoveCopies, Unlock, DropCallback
    <3> QED  BY <2>5, <3>1, <3>2, <3>3 DEF Continue
  <2>6. CASE (\E all \in BOOLEAN : Collect(all)) \/ Collector
    <3>1. status' = status
      BY <2>6 DEF Collect, Collector, PopRoot, PopEnds, Trace, TraceEnds, Scan, Blacken,
         BlackenEnds, Hold, HoldEnds, ClearSlot, ClearEnds, Unhold, PassEnds
    <3> QED  BY <2>1, <3>1
  <2>7. CASE Teardown
    <3>1. ASSUME NEW o \in Obj, SweepNext(o)
          PROVE  Safe
      BY <2>1, <2>2, <3>1 DEF SweepNext
    <3>2. CASE SweepDone
      BY <2>1, <2>2, <3>2 DEF SweepDone
    <3>3. (\E o \in Obj : SweepNext(o)) \/ SweepDone \/ UNCHANGED status
      BY <2>7 DEF Teardown, BeginTeardown, ReleaseRoot, DiscardCompleted, RootsGone,
         SweepChild, EndTeardown, Gone, vars
    <3> QED  BY <2>1, <3>1, <3>2, <3>3
  <2> QED  BY <2>4, <2>5, <2>6, <2>7 DEF Next
<1> QED  BY <1>1, HeapInvariant, PTL DEF Spec, ReusedUnreferenced

=============================================================================
