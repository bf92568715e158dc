------------------------------ MODULE NeoHeap ------------------------------
(***************************************************************************)
(* The reference-counted heap of one CNeoVM: Move / Var_Release, the       *)
(* iterative destroy queue, the candidate queues and the synchronous cycle *)
(* collector, and the sweep of ~CNeoVM (NeoSource/NeoVM.cpp).              *)
(*                                                                         *)
(* A container (map, list, set, coroutine, async, closure) is an Obj with  *)
(* a few child slots <<o, f>>.  Slots outside every container are roots:   *)
(* Global for script globals, Local for the registers of the main context. *)
(* Strings, vectors, numeric arrays and script modules hold no container   *)
(* that could close a cycle and are left out; a slot that holds one of     *)
(* them holds NoObj here.                                                  *)
(*                                                                         *)
(* Everything runs on the VM's thread.  A call in the code that cascades   *)
(* (Var_Release, CollectCycles, ~CNeoVM) is a chain of small steps here;   *)
(* Drained and phase keep any other handler from starting in the middle.   *)
(***************************************************************************)
EXTENDS Integers, Sequences, FiniteSets, SequencesExt

CONSTANTS
  Obj,            \* pool nodes
  NoObj,          \* a slot that holds no container
  NoSlot,         \* no slot
  Field,          \* child slots of a container
  LockField,      \* AsyncInfo::_LockReferance
  CallbackField,  \* AsyncInfo::_callback
  Global,         \* script globals and host-held values
  Local,          \* registers of the main execution context
  KindOf,         \* the VAR_TYPE of each node, as an index of Kinds
  MinBudget       \* candidates of one incremental pass (16 in the code)

Kinds == <<"map", "list", "set", "coroutine", "module", "async", "closure">>
Kind  == 1 .. 7
Closures == 7
Maps  == 1
Lists == 2
Sets  == 3
Coroutines == 4
Asyncs == 6

Root  == Global \cup Local
Inner == Obj \X Field
Slot  == Root \cup Inner

ASSUME HeapAssumption ==
  /\ IsFiniteSet(Obj) /\ IsFiniteSet(Field)
  /\ IsFiniteSet(Global) /\ IsFiniteSet(Local)
  /\ Global \cap Local = {}
  /\ NoObj \notin Obj
  /\ NoSlot \notin Slot
  /\ Root \cap Inner = {}
  /\ LockField \in Field /\ CallbackField \in Field
  /\ (\E o \in Obj : KindOf[o] = Asyncs) => LockField # CallbackField
  /\ KindOf \in [Obj -> Kind]
  /\ MinBudget \in Nat \ {0}

VARIABLES
  slot,        \* the container each slot refers to
  rc,          \* _refCount
  status,      \* "free" in the pool, "live", or "freeing" inside Free*
  may,         \* CycleState::_mayContainContainerChild
  cand,        \* the seven FIFO candidate queues
  rr,          \* _cycleQueueRoundRobin
  destroyQ,    \* _sDestroyQueue, a stack
  freeing,     \* the container a Free* of the draining loop works on
  sweep,       \* the container a Free* of ~CNeoVM works on
  move,        \* the rest of a Move / Var_Set* after its release
  running,     \* m_sCoroutines (as NORMAL callers) followed by m_pCur
  busy,        \* asyncs whose _state is not ASYNC_READY
  mode,        \* "run", or _isTearingDown: "teardown", "sweep", then "down"
  phase,       \* where CollectCycles is
  force,       \* its argument
  budget,      \* root budget left in this pass
  color,       \* _cycleColor
  scratch,     \* _cycleScratchRefCount
  todo,        \* worklist entries the cursor has not passed
  hold         \* white nodes with _cycleCollecting set and one extra count

heapVars  == <<slot, rc, status, may>>
queueVars == <<cand, rr>>
freeVars  == <<destroyQ, freeing, sweep>>
gcVars    == <<phase, force, budget, color, scratch, todo, hold>>
runVars   == <<running, busy, mode>>
vars == <<heapVars, queueVars, freeVars, move, runVars, gcVars>>

NoMove == [op |-> "none", dst |-> NoSlot, src |-> NoSlot, new |-> NoObj]
Phases == {"idle", "pop", "gray", "scan", "black", "white", "clear", "unhold"}

-----------------------------------------------------------------------------
(* Reading the heap                                                        *)

Queued    == UNION {ToSet(cand[k]) : k \in Kind}
CandidateCount == Cardinality(Queued)
Drained   == destroyQ = <<>> /\ freeing = NoObj
Quiescent == Drained /\ move = NoMove /\ phase = "idle" /\ mode = "run"

\* The registers the current frame can name: the running coroutine's stack,
\* or the main context's.
Frame == IF running = <<>> THEN Local ELSE {<<Last(running), f>> : f \in Field}
Regs  == Global \cup Frame

\* Child slots of a collection or capture store an instruction can address,
\* because a register holds the container.  The stack of a coroutine and the
\* two slots of an async are not addressable.
Elements == {<<o, f>> : o \in {slot[r] : r \in Regs} \ {NoObj}, f \in Field}
Addressable == {e \in Elements : KindOf[e[1]] \notin {Coroutines, Asyncs}}

\* Mutant of NativeRoot: requests in flight are forgotten.
ContextRoot(o) == o \in ToSet(running)

\* What IsCycleNativeRoot answers: a coroutine a worker points at, or an
\* async in flight or completed.
NativeRoot(o) == o \in ToSet(running) \/ o \in busy

Refs(o) == {s \in Slot : slot[s] = o}
Kids(o) == {slot[<<o, f>>] : f \in Field} \ {NoObj}
EdgeCount(o, c) == Cardinality({f \in Field : slot[<<o, f>>] = c})

-----------------------------------------------------------------------------
(* Releasing                                                               *)

\* QueueContainerForCycleCheck: nothing while tearing down, nothing for a
\* container that never held one, and no second ticket.
CycleCheck(o) ==
  IF mode = "run" /\ may[o] /\ o \notin Queued
  THEN [cand EXCEPT ![KindOf[o]] = Append(@, o)]
  ELSE cand

\* CancelCycleCandidate; a container has at most one ticket.
Unlinked(o) ==
  IF o \in ToSet(cand[KindOf[o]])
  THEN [cand EXCEPT ![KindOf[o]] = RemoveAt(@, CHOOSE i \in DOMAIN @ : @[i] = o)]
  ELSE cand

\* Mutant of Release: a ticket only for the last but one reference.
ReleaseLastButOne(s) ==
  /\ slot' = [slot EXCEPT ![s] = NoObj]
  /\ IF slot[s] = NoObj
     THEN UNCHANGED <<rc, destroyQ, cand>>
     ELSE /\ rc' = [rc EXCEPT ![slot[s]] = @ - 1]
          /\ destroyQ' = IF rc[slot[s]] <= 1 THEN Append(destroyQ, slot[s]) ELSE destroyQ
          /\ cand' = IF rc[slot[s]] = 2 THEN CycleCheck(slot[s]) ELSE cand

\* Var_Release of one slot: drop the count, then destroy or file a ticket.
Release(s) ==
  /\ slot' = [slot EXCEPT ![s] = NoObj]
  /\ IF slot[s] = NoObj
     THEN UNCHANGED <<rc, destroyQ, cand>>
     ELSE /\ rc' = [rc EXCEPT ![slot[s]] = @ - 1]
          /\ IF rc[slot[s]] <= 1
             THEN /\ destroyQ' = Append(destroyQ, slot[s])
                  /\ UNCHANGED cand
             ELSE /\ cand' = CycleCheck(slot[s])
                  /\ UNCHANGED destroyQ

-----------------------------------------------------------------------------
(* The destroy queue: last in, first out, one Free* at a time              *)

\* Mutant of PopDestroy: the ticket stays.
PopDestroyKeepsTicket ==
  /\ destroyQ # <<>> /\ freeing = NoObj
  /\ destroyQ' = Front(destroyQ)
  /\ status' = [status EXCEPT ![Last(destroyQ)] = "freeing"]
  /\ freeing' = Last(destroyQ)
  /\ UNCHANGED <<slot, rc, may, queueVars, sweep, move, runVars, gcVars>>

\* QueueContainerForDestroy takes the next node.  Free* unlinks its candidate
\* ticket and returns at once when _destroying is already set.
PopDestroy ==
  /\ destroyQ # <<>> /\ freeing = NoObj
  /\ LET o == Last(destroyQ) IN
       /\ destroyQ' = Front(destroyQ)
       /\ cand' = Unlinked(o)
       /\ IF status[o] = "live"
          THEN /\ status' = [status EXCEPT ![o] = "freeing"]
               /\ freeing' = o
          ELSE UNCHANGED <<status, freeing>>
  /\ UNCHANGED <<slot, rc, may, rr, sweep, move, runVars, gcVars>>

\* Free* releases one child slot.
FreeChild(f) ==
  /\ freeing # NoObj
  /\ slot[<<freeing, f>>] # NoObj
  /\ Release(<<freeing, f>>)
  /\ UNCHANGED <<status, may, rr, freeing, sweep, move, runVars, gcVars>>

\* ... and returns the node to its pool.
FreeDone ==
  /\ freeing # NoObj
  /\ Kids(freeing) = {}
  /\ status' = [status EXCEPT ![freeing] = "free"]
  /\ freeing' = NoObj
  /\ UNCHANGED <<slot, rc, may, queueVars, destroyQ, sweep, move, runVars, gcVars>>

-----------------------------------------------------------------------------
(* What a script instruction or native function does to the heap           *)

\* Alloc + Var_SetMap/List/...: the node leaves the pool with a count of 0,
\* the destination is released, then the reference is stored.
Alloc(o, d) ==
  /\ Quiescent
  /\ status[o] = "free"
  /\ d \in Regs
  /\ status' = [status EXCEPT ![o] = "live"]
  /\ may' = [may EXCEPT ![o] = KindOf[o] = Coroutines]
  /\ busy' = busy \ {o}
  /\ Release(d)
  /\ move' = [op |-> "new", dst |-> d, src |-> NoSlot, new |-> o]
  /\ UNCHANGED <<rr, freeing, sweep, running, mode, gcVars>>

\* Move(d, s) between registers and elements.  An insertion marks the
\* owner first.  The old value of d is released before s is read.
StartMove(d, s) ==
  /\ Quiescent
  /\ d # s
  /\ slot[s] # NoObj
  /\ \/ d \in Regs /\ s \in Regs \cup Addressable
     \/ d \in Addressable /\ s \in Regs
  /\ may' = IF d \in Addressable THEN [may EXCEPT ![d[1]] = TRUE] ELSE may
  /\ Release(d)
  /\ move' = [op |-> "copy", dst |-> d, src |-> s, new |-> NoObj]
  /\ UNCHANGED <<status, rr, freeing, sweep, runVars, gcVars>>

\* Storing null, removing an element, clearing a register at RET.
Drop(s) ==
  /\ Quiescent
  /\ s \in Regs \cup Addressable
  /\ slot[s] # NoObj
  /\ Release(s)
  /\ UNCHANGED <<status, may, rr, freeing, sweep, move, runVars, gcVars>>

\* Mutant of MoveCopies: the count of the copied container stays.
MoveCopiesUncounted ==
  /\ Drained
  /\ move.op \in {"copy", "new"}
  /\ LET v == IF move.op = "new" THEN move.new ELSE slot[move.src]
     IN  slot' = [slot EXCEPT ![move.dst] = v]
  /\ move' = NoMove
  /\ UNCHANGED <<rc, status, may, queueVars, freeVars, runVars, gcVars>>

\* The second half of Move: the reference is read now, after whatever the
\* release of the destination tore down.
MoveCopies ==
  /\ Drained
  /\ move.op \in {"copy", "new"}
  /\ LET v == IF move.op = "new" THEN move.new ELSE slot[move.src] IN
       /\ slot' = [slot EXCEPT ![move.dst] = v]
       /\ rc' = IF v = NoObj THEN rc ELSE [rc EXCEPT ![v] = @ + 1]
  /\ move' = NoMove
  /\ UNCHANGED <<status, may, queueVars, freeVars, runVars, gcVars>>

-----------------------------------------------------------------------------
(* Execution contexts and async requests, as far as the heap sees them     *)

\* Mutant of Resume: the caller's register gives its reference up.
ResumeTakes(r) ==
  /\ Quiescent
  /\ r \in Frame
  /\ slot[r] # NoObj
  /\ KindOf[slot[r]] = Coroutines
  /\ slot[r] \notin ToSet(running)
  /\ running' = Append(running, slot[r])
  /\ Release(r)
  /\ UNCHANGED <<status, may, rr, freeing, sweep, move, busy, mode, gcVars>>

\* StartCoroutione: the resumed context becomes m_pCur, the caller NORMAL.
\* The register that named it stays in the caller's frame, which does not
\* run until the coroutine gives control back.
Resume(r) ==
  /\ Quiescent
  /\ r \in Frame
  /\ slot[r] # NoObj
  /\ KindOf[slot[r]] = Coroutines
  /\ slot[r] \notin ToSet(running)
  /\ running' = Append(running, slot[r])
  /\ UNCHANGED <<heapVars, queueVars, freeVars, move, busy, mode, gcVars>>

\* StopCoroutine: yield, or the end of the body after its registers were
\* dropped; the caller on top of m_sCoroutines runs again.
Yield ==
  /\ Quiescent
  /\ running # <<>>
  /\ running' = Front(running)
  /\ UNCHANGED <<heapVars, queueVars, freeVars, move, busy, mode, gcVars>>

\* async.get / async.post: a closure given as callback is kept (a plain
\* function is no container: c = NoSlot), and the request holds itself until
\* its completion is dispatched.
Callback(c) == IF c = NoSlot THEN NoObj ELSE slot[c]
AsyncRequest(r, c) ==
  /\ Quiescent
  /\ r \in Regs /\ c \in Regs \cup {NoSlot}
  /\ slot[r] # NoObj /\ KindOf[slot[r]] = Asyncs /\ slot[r] \notin busy
  /\ c # NoSlot => slot[c] # NoObj /\ KindOf[slot[c]] = Closures
  /\ LET a == slot[r] IN
       /\ slot' = [slot EXCEPT ![<<a, CallbackField>>] = Callback(c),
                               ![<<a, LockField>>] = a]
       /\ rc' = [o \in Obj |-> IF o \in {a, Callback(c)} THEN rc[o] + 1 ELSE rc[o]]
       /\ may' = [may EXCEPT ![a] = TRUE]
       /\ busy' = busy \cup {a}
  /\ UNCHANGED <<status, queueVars, freeVars, move, running, mode, gcVars>>

\* handle_IDLE dispatches a completion: the callback's frame takes the closure,
\* then the request is let go of, and its callback next.  _state stays
\* ASYNC_COMPLETED.
AsyncDispatch(a, d) ==
  /\ Quiescent
  /\ a \in busy
  /\ slot[<<a, LockField>>] = a
  /\ d \in Frame /\ slot[d] = NoObj
  /\ LET v == slot[<<a, CallbackField>>] IN
       /\ slot' = [slot EXCEPT ![d] = v]
       /\ rc' = IF v = NoObj THEN rc ELSE [rc EXCEPT ![v] = @ + 1]
  /\ move' = [op |-> "unlock", dst |-> <<a, LockField>>, src |-> NoSlot, new |-> NoObj]
  /\ UNCHANGED <<status, may, queueVars, freeVars, runVars, gcVars>>

Unlock ==
  /\ Drained
  /\ move.op = "unlock"
  /\ Release(move.dst)
  /\ move' = [op |-> "drop", dst |-> <<move.dst[1], CallbackField>>, src |-> NoSlot, new |-> NoObj]
  /\ UNCHANGED <<status, may, rr, freeing, sweep, runVars, gcVars>>

DropCallback ==
  /\ Drained
  /\ move.op = "drop"
  /\ Release(move.dst)
  /\ move' = NoMove
  /\ UNCHANGED <<status, may, rr, freeing, sweep, runVars, gcVars>>

-----------------------------------------------------------------------------
(* CollectCycles                                                           *)

PassBudget(all, total) ==
  IF all THEN total
  ELSE LET share == (total + 49) \div 50
       IN  IF share > MinBudget THEN share ELSE MinBudget

Collect(all) ==
  /\ Quiescent
  /\ CandidateCount # 0
  /\ force' = all
  /\ budget' = PassBudget(all, CandidateCount)
  /\ phase' = "pop"
  /\ UNCHANGED <<heapVars, queueVars, freeVars, move, runVars, color, scratch, todo, hold>>

\* How many queues PopCycleCandidate looks at before queue q.
Turns(q) == (q - rr + 7) % 7

\* Mutant of PopRoot: every pop starts at the first queue again.
PopRootUnfair(q) ==
  /\ phase = "pop"
  /\ budget > 0
  /\ cand[q] # <<>> /\ \A k \in Kind : cand[k] # <<>> => q <= k
  /\ cand' = [cand EXCEPT ![q] = Tail(@)]
  /\ color' = [color EXCEPT ![Head(cand[q])] = "gray"]
  /\ scratch' = [scratch EXCEPT ![Head(cand[q])] = rc[Head(cand[q])]]
  /\ todo' = todo \cup {Head(cand[q])}
  /\ budget' = budget - 1
  /\ UNCHANGED <<heapVars, rr, freeVars, move, runVars, phase, force, hold>>

\* PopCycleCandidate serves the seven queues in turn, the first non-empty one
\* from the cursor; markGray colours the root.
PopRoot(q) ==
  /\ phase = "pop"
  /\ budget > 0
  /\ cand[q] # <<>> /\ \A k \in Kind : cand[k] # <<>> => Turns(q) <= Turns(k)
  /\ LET o == Head(cand[q]) IN
       /\ cand' = [cand EXCEPT ![q] = Tail(@)]
       /\ color' = [color EXCEPT ![o] = "gray"]
       /\ scratch' = [scratch EXCEPT ![o] = rc[o]]
       /\ todo' = todo \cup {o}
  /\ rr' = (q % 7) + 1
  /\ budget' = budget - 1
  /\ UNCHANGED <<heapVars, freeVars, move, runVars, phase, force, hold>>

PopEnds ==
  /\ phase = "pop"
  /\ budget = 0 \/ CandidateCount = 0
  /\ phase' = "gray"
  /\ UNCHANGED <<heapVars, queueVars, freeVars, move, runVars, force, budget, color, scratch, todo, hold>>

\* Mutant of Trace: a child is uncounted once, however many edges lead to it.
TraceOnce(o) ==
  /\ phase = "gray"
  /\ o \in todo
  /\ LET kids == IF NativeRoot(o) THEN {} ELSE {c \in Kids(o) : may[c]}
         new  == {c \in kids : color[c] = "none"}
     IN  /\ color' = [c \in Obj |-> IF c \in new THEN "gray" ELSE color[c]]
         /\ scratch' = [c \in Obj |->
              IF c \in kids
              THEN (IF c \in new THEN rc[c] ELSE scratch[c]) - 1
              ELSE scratch[c]]
         /\ todo' = (todo \ {o}) \cup new
  /\ UNCHANGED <<heapVars, queueVars, freeVars, move, runVars, phase, force, budget, hold>>

\* One worklist entry: every edge to a child that may close a cycle lowers
\* the child's scratch count, and an unseen child joins the worklist.  Native
\* roots are not expanded.
Trace(o) ==
  /\ phase = "gray"
  /\ o \in todo
  /\ LET kids == IF NativeRoot(o) THEN {} ELSE {c \in Kids(o) : may[c]}
         new  == {c \in kids : color[c] = "none"}
     IN  /\ color' = [c \in Obj |-> IF c \in new THEN "gray" ELSE color[c]]
         /\ scratch' = [c \in Obj |->
              IF c \in kids
              THEN (IF c \in new THEN rc[c] ELSE scratch[c]) - EdgeCount(o, c)
              ELSE scratch[c]]
         /\ todo' = (todo \ {o}) \cup new
  /\ UNCHANGED <<heapVars, queueVars, freeVars, move, runVars, phase, force, budget, hold>>

TraceEnds ==
  /\ phase = "gray" /\ todo = {}
  /\ phase' = "scan"
  /\ UNCHANGED <<heapVars, queueVars, freeVars, move, runVars, force, budget, color, scratch, todo, hold>>

\* A count the traced edges do not explain, or a native root, is black.
Scan ==
  /\ phase = "scan"
  /\ LET externals == {o \in Obj : color[o] = "gray" /\ (NativeRoot(o) \/ scratch[o] # 0)}
     IN  /\ color' = [o \in Obj |-> IF o \in externals THEN "black" ELSE color[o]]
         /\ todo' = externals
  /\ phase' = "black"
  /\ UNCHANGED <<heapVars, queueVars, freeVars, move, runVars, force, budget, scratch, hold>>

\* Mutant of Blacken: black does not spread.
BlackenNoSpread(o) ==
  /\ phase = "black"
  /\ o \in todo
  /\ todo' = todo \ {o}
  /\ UNCHANGED <<heapVars, queueVars, freeVars, move, runVars, phase, force, budget, color, scratch, hold>>

\* Black spreads to every gray child.
Blacken(o) ==
  /\ phase = "black"
  /\ o \in todo
  /\ LET new == IF NativeRoot(o) THEN {} ELSE {c \in Kids(o) : color[c] = "gray"}
     IN  /\ color' = [c \in Obj |-> IF c \in new THEN "black" ELSE color[c]]
         /\ todo' = (todo \ {o}) \cup new
  /\ UNCHANGED <<heapVars, queueVars, freeVars, move, runVars, phase, force, budget, scratch, hold>>

BlackenEnds ==
  /\ phase = "black" /\ todo = {}
  /\ phase' = "white"
  /\ UNCHANGED <<heapVars, queueVars, freeVars, move, runVars, force, budget, color, scratch, todo, hold>>

\* What is still gray is white.  Before any edge is cut every white node
\* loses its ticket and is held by one extra count.
Hold(o) ==
  /\ phase = "white"
  /\ color[o] = "gray" /\ o \notin hold
  /\ hold' = hold \cup {o}
  /\ rc' = [rc EXCEPT ![o] = @ + 1]
  /\ cand' = Unlinked(o)
  /\ UNCHANGED <<slot, status, may, rr, freeVars, move, runVars, phase, force, budget, color, scratch, todo>>

\* The scratch state is wiped while every touched node is still alive.
HoldEnds ==
  /\ phase = "white"
  /\ \A o \in Obj : color[o] = "gray" => o \in hold
  /\ color' = [o \in Obj |-> "none"]
  /\ scratch' = [o \in Obj |-> 0]
  /\ phase' = "clear"
  /\ UNCHANGED <<heapVars, queueVars, freeVars, move, runVars, force, budget, todo, hold>>

\* Mutant of ClearSlot: an edge between white nodes is cut but not uncounted.
ClearSlotUncounted(o, f) ==
  /\ phase = "clear" /\ Drained
  /\ o \in hold
  /\ slot[<<o, f>>] # NoObj
  /\ IF slot[<<o, f>>] \in hold
     THEN /\ slot' = [slot EXCEPT ![<<o, f>>] = NoObj]
          /\ UNCHANGED <<rc, destroyQ, cand>>
     ELSE Release(<<o, f>>)
  /\ UNCHANGED <<status, may, rr, freeing, sweep, move, runVars, gcVars>>

\* releaseVar on one slot of a white node: a reference to another white node
\* is only uncounted, any other goes through Var_Release.
ClearSlot(o, f) ==
  /\ phase = "clear" /\ Drained
  /\ o \in hold
  /\ slot[<<o, f>>] # NoObj
  /\ IF slot[<<o, f>>] \in hold
     THEN /\ slot' = [slot EXCEPT ![<<o, f>>] = NoObj]
          /\ rc' = [rc EXCEPT ![slot[<<o, f>>]] = @ - 1]
          /\ UNCHANGED <<destroyQ, cand>>
     ELSE Release(<<o, f>>)
  /\ UNCHANGED <<status, may, rr, freeing, sweep, move, runVars, gcVars>>

ClearEnds ==
  /\ phase = "clear" /\ Drained
  /\ \A o \in hold : Kids(o) = {}
  /\ phase' = "unhold"
  /\ UNCHANGED <<heapVars, queueVars, freeVars, move, runVars, force, budget, color, scratch, todo, hold>>

\* Mutant of Unhold: the count is compared before it is lowered.
UnholdEarly(o) ==
  /\ phase = "unhold" /\ Drained
  /\ o \in hold
  /\ hold' = hold \ {o}
  /\ rc' = [rc EXCEPT ![o] = @ - 1]
  /\ IF rc[o] <= 0
     THEN destroyQ' = Append(destroyQ, o) /\ UNCHANGED cand
     ELSE cand' = CycleCheck(o) /\ UNCHANGED destroyQ
  /\ UNCHANGED <<slot, status, may, rr, freeing, sweep, move, runVars, phase, force, budget, color, scratch, todo>>

\* The hold of one white node is given back.
Unhold(o) ==
  /\ phase = "unhold" /\ Drained
  /\ o \in hold
  /\ hold' = hold \ {o}
  /\ rc' = [rc EXCEPT ![o] = @ - 1]
  /\ IF rc[o] <= 1
     THEN destroyQ' = Append(destroyQ, o) /\ UNCHANGED cand
     ELSE cand' = CycleCheck(o) /\ UNCHANGED destroyQ
  /\ UNCHANGED <<slot, status, may, rr, freeing, sweep, move, runVars, phase, force, budget, color, scratch, todo>>

\* Mutant of PassEnds: the next round of a forced collection has no budget.
PassEndsNoBudget ==
  /\ phase = "unhold" /\ Drained
  /\ hold = {}
  /\ phase' = IF force /\ CandidateCount # 0 THEN "pop" ELSE "idle"
  /\ budget' = 0
  /\ UNCHANGED <<heapVars, queueVars, freeVars, move, runVars, force, color, scratch, todo, hold>>

\* CollectCycles goes round again while it is forced and tickets are left.
PassEnds ==
  /\ phase = "unhold" /\ Drained
  /\ hold = {}
  /\ IF force /\ CandidateCount # 0
     THEN phase' = "pop" /\ budget' = CandidateCount
     ELSE phase' = "idle" /\ budget' = 0
  /\ UNCHANGED <<heapVars, queueVars, freeVars, move, runVars, force, color, scratch, todo, hold>>

-----------------------------------------------------------------------------
(* ~CNeoVM                                                                 *)

\* No execution is left (CanDestroy) and the HTTP thread was joined.
BeginTeardown ==
  /\ Quiescent
  /\ running = <<>>
  /\ mode' = "teardown"
  /\ cand' = [k \in Kind |-> <<>>]
  /\ UNCHANGED <<heapVars, rr, freeVars, move, running, busy, gcVars>>

\* FreeWorker and the default values give up the roots.
ReleaseRoot(s) ==
  /\ mode = "teardown" /\ Drained
  /\ s \in Root
  /\ slot[s] # NoObj
  /\ Release(s)
  /\ UNCHANGED <<status, may, rr, freeing, sweep, move, runVars, gcVars>>

\* ... and so does a worker for each completion it was still to dispatch.  A
\* request the HTTP thread never finished keeps itself.
DiscardCompleted(a) ==
  /\ mode = "teardown" /\ Drained
  /\ a \in busy
  /\ slot[<<a, LockField>>] = a
  /\ Release(<<a, LockField>>)
  /\ UNCHANGED <<status, may, rr, freeing, sweep, move, runVars, gcVars>>

RootsGone ==
  /\ mode = "teardown" /\ Drained
  /\ \A s \in Root : slot[s] = NoObj
  /\ mode' = "sweep"
  /\ UNCHANGED <<heapVars, queueVars, freeVars, move, running, busy, gcVars>>

\* The live registry sweep calls Free* on the head of the first non-empty
\* list, whatever its count.  Coroutines and asyncs have no live list.
SweepOrder == <<Closures, Maps, Lists, Sets>>
LiveOf(k)  == {o \in Obj : KindOf[o] = k /\ status[o] = "live"}
Swept(o) ==
  \E i \in 1 .. 4 :
    /\ KindOf[o] = SweepOrder[i]
    /\ \A j \in 1 .. i - 1 : LiveOf(SweepOrder[j]) = {}
SweepNext(o) ==
  /\ mode = "sweep" /\ Drained /\ sweep = NoObj
  /\ status[o] = "live"
  /\ Swept(o)
  /\ sweep' = o
  /\ status' = [status EXCEPT ![o] = "freeing"]
  /\ UNCHANGED <<slot, rc, may, queueVars, destroyQ, freeing, move, runVars, gcVars>>

SweepChild(f) ==
  /\ sweep # NoObj /\ Drained
  /\ slot[<<sweep, f>>] # NoObj
  /\ Release(<<sweep, f>>)
  /\ UNCHANGED <<status, may, rr, freeing, sweep, move, runVars, gcVars>>

\* Mutant of SweepDone: the node is left on its live list.
SweepDoneListed ==
  /\ sweep # NoObj /\ Drained
  /\ Kids(sweep) = {}
  /\ status' = [status EXCEPT ![sweep] = "live"]
  /\ sweep' = NoObj
  /\ UNCHANGED <<slot, rc, may, queueVars, destroyQ, freeing, move, runVars, gcVars>>

SweepDone ==
  /\ sweep # NoObj /\ Drained
  /\ Kids(sweep) = {}
  /\ status' = [status EXCEPT ![sweep] = "free"]
  /\ sweep' = NoObj
  /\ UNCHANGED <<slot, rc, may, queueVars, destroyQ, freeing, move, runVars, gcVars>>

EndTeardown ==
  /\ mode = "sweep" /\ Drained /\ sweep = NoObj
  /\ \A i \in 1 .. 4 : LiveOf(SweepOrder[i]) = {}
  /\ mode' = "down"
  /\ UNCHANGED <<heapVars, queueVars, freeVars, move, running, busy, gcVars>>

\* The VM is gone.
Gone == mode = "down" /\ UNCHANGED vars

-----------------------------------------------------------------------------
Init ==
  /\ slot = [s \in Slot |-> NoObj]
  /\ rc = [o \in Obj |-> 0]
  /\ status = [o \in Obj |-> "free"]
  /\ may = [o \in Obj |-> FALSE]
  /\ cand = [k \in Kind |-> <<>>]
  /\ rr = 1
  /\ destroyQ = <<>> /\ freeing = NoObj /\ sweep = NoObj
  /\ move = NoMove
  /\ running = <<>> /\ busy = {} /\ mode = "run"
  /\ phase = "idle" /\ force = FALSE /\ budget = 0
  /\ color = [o \in Obj |-> "none"]
  /\ scratch = [o \in Obj |-> 0]
  /\ todo = {} /\ hold = {}

Mutator ==
  \/ \E o \in Obj, d \in Slot : Alloc(o, d)
  \/ \E d \in Slot, s \in Slot : StartMove(d, s)
  \/ \E s \in Slot : Drop(s)
  \/ \E r \in Slot : Resume(r)
  \/ Yield
  \/ \E r \in Slot, c \in Slot \cup {NoSlot} : AsyncRequest(r, c)
  \/ \E a \in Obj, d \in Slot : AsyncDispatch(a, d)

\* The rest of a handler once it has begun: never the caller's choice.
Continue ==
  \/ PopDestroy
  \/ \E f \in Field : FreeChild(f)
  \/ FreeDone
  \/ MoveCopies
  \/ Unlock
  \/ DropCallback

Collector ==
  \/ \E q \in Kind : PopRoot(q)
  \/ PopEnds
  \/ \E o \in Obj : Trace(o)
  \/ TraceEnds
  \/ Scan
  \/ \E o \in Obj : Blacken(o)
  \/ BlackenEnds
  \/ \E o \in Obj : Hold(o)
  \/ HoldEnds
  \/ \E o \in Obj, f \in Field : ClearSlot(o, f)
  \/ ClearEnds
  \/ \E o \in Obj : Unhold(o)
  \/ PassEnds

Teardown ==
  \/ BeginTeardown
  \/ \E s \in Slot : ReleaseRoot(s)
  \/ \E a \in Obj : DiscardCompleted(a)
  \/ RootsGone
  \/ \E o \in Obj : SweepNext(o)
  \/ \E f \in Field : SweepChild(f)
  \/ SweepDone
  \/ EndTeardown
  \/ Gone

Next ==
  \/ Mutator
  \/ Continue
  \/ \E all \in BOOLEAN : Collect(all)
  \/ Collector
  \/ Teardown

Spec == Init /\ [][Next]_vars

\* A handler that has begun runs to its end, and so do the collector and the
\* destructor.  The host calls CollectCycles(false) again and again
\* (Embedding.md).
Fairness ==
  /\ WF_vars(Continue)
  /\ WF_vars(Collector)
  /\ WF_vars(Teardown /\ mode # "run")
  /\ SF_vars(Collect(FALSE))

FairSpec == Spec /\ Fairness

-----------------------------------------------------------------------------
(* Properties                                                              *)

Colors == {"none", "gray", "black"}
Moves  == [op : {"none", "copy", "new", "unlock", "drop"}, dst : Slot \cup {NoSlot},
           src : Slot \cup {NoSlot}, new : Obj \cup {NoObj}]

\* Every variable has its type.
TypeOK ==
  /\ slot \in [Slot -> Obj \cup {NoObj}]
  /\ rc \in [Obj -> Int]
  /\ status \in [Obj -> {"free", "live", "freeing"}]
  /\ may \in [Obj -> BOOLEAN]
  /\ cand \in [Kind -> Seq(Obj)]
  /\ rr \in Kind
  /\ destroyQ \in Seq(Obj)
  /\ freeing \in Obj \cup {NoObj} /\ sweep \in Obj \cup {NoObj}
  /\ move \in Moves
  /\ running \in Seq(Obj) /\ busy \subseteq Obj
  /\ mode \in {"run", "teardown", "sweep", "down"}
  /\ phase \in Phases /\ force \in BOOLEAN /\ budget \in Nat
  /\ color \in [Obj -> Colors]
  /\ scratch \in [Obj -> Int]
  /\ todo \subseteq Obj /\ hold \subseteq Obj

Held(o) == IF o \in hold THEN 1 ELSE 0

\* In every intermediate state, _refCount is the number of slots that refer
\* to the container, plus the collector's hold: no path of Move, Free*, the
\* collector's uncounted white edges or the final sweep loses or adds one.
RefCountExact == \A o \in Obj : rc[o] = Cardinality(Refs(o)) + Held(o)

\* While the VM runs no slot refers to a node that is in the pool or inside
\* its Free*, and a node waiting in the destroy queue is referred to by none.
NoDangling ==
  mode = "run" =>
    /\ \A s \in Slot : slot[s] # NoObj => status[slot[s]] = "live"
    /\ \A o \in ToSet(destroyQ) : status[o] = "live" /\ Refs(o) = {}

\* Nothing is lost: a live node without a reference is on its way to a slot
\* or to the pool.
NoLimbo ==
  mode = "run" =>
    \A o \in Obj : status[o] = "live" /\ rc[o] = 0 =>
      o \in ToSet(destroyQ) \cup {move.new}

\* A container holding another is marked (CycleState is told of every first
\* insertion), so a trace never skips an edge into a possible cycle.
MayCoversChildren ==
  mode = "run" => \A o \in Obj : status[o] = "live" /\ Kids(o) # {} => may[o]

\* A ticket is held by a node that still exists, and by one queue only once:
\* Free* unlinks it before the node goes back to its pool.
TicketsAreLive ==
  \A k \in Kind :
    /\ \A i \in DOMAIN cand[k] : status[cand[k][i]] = "live" /\ KindOf[cand[k][i]] = k
    /\ \A i, j \in DOMAIN cand[k] : cand[k][i] = cand[k][j] => i = j

\* A coroutine a worker points at (m_pCur, m_sCoroutines) is never freed.
PinnedAlive == \A i \in DOMAIN running : status[running[i]] = "live"

\* A pool node is handed out again only when nothing refers to it.
ReusedUnreferenced ==
  [][\A o \in Obj : status[o] = "free" /\ status'[o] # "free" =>
       status'[o] = "live" /\ Refs(o) = {}]_vars

-----------------------------------------------------------------------------
(* What makes the properties above inductive                               *)

\* Which handler is under way: the collector, a Move or the destructor, one at
\* a time, and what each of them has left clean.
Staging ==
  /\ phase # "idle" => mode = "run" /\ move = NoMove
  /\ phase \in {"pop", "gray", "scan", "black", "white"} => Drained
  /\ phase \notin {"white", "clear", "unhold"} => hold = {}
  /\ phase \in {"idle", "clear", "unhold"} => \A o \in Obj : color[o] = "none"
  /\ mode # "run" => running = <<>> /\ move = NoMove /\ Queued = {}
  /\ mode = "run" => sweep = NoObj

\* The destroy queue holds each node once, live and unreferenced, and the node
\* inside Free* is unreferenced too.
DestroySound ==
  mode = "run" =>
    /\ \A i \in DOMAIN destroyQ : status[destroyQ[i]] = "live" /\ rc[destroyQ[i]] = 0
    /\ \A i, j \in DOMAIN destroyQ : destroyQ[i] = destroyQ[j] => i = j
    /\ freeing # NoObj => status[freeing] = "freeing" /\ rc[freeing] = 0

\* Slots refer to live nodes; nodes in the pool have empty slots.
SlotsSound ==
  mode = "run" =>
    /\ \A s \in Slot : slot[s] # NoObj => status[slot[s]] = "live"
    /\ \A o \in Obj, f \in Field : status[o] = "free" => slot[<<o, f>>] = NoObj

\* A Move in progress has emptied a slot the frame can still address, and its
\* new container waits outside every queue.
MoveSound ==
  /\ move.op \in {"copy", "new"} =>
       move.dst \in Regs \cup Addressable /\ slot[move.dst] = NoObj
  /\ move.op = "copy" => move.src \in Slot
  /\ move.op = "new" =>
       /\ move.new \in Obj
       /\ status[move.new] = "live" /\ rc[move.new] = 0
       /\ move.new \notin ToSet(destroyQ)
  /\ move.op # "new" => move.new = NoObj
  /\ move.op \in {"unlock", "drop"} =>
       \E a \in Obj, f \in Field : move.dst = <<a, f>> /\ KindOf[a] = Asyncs

\* Nodes the collector coloured or holds are live, and it holds no context a
\* worker points at.
ColorSound ==
  /\ \A o \in Obj : color[o] # "none" => status[o] = "live"
  /\ \A o \in hold : status[o] = "live" /\ o \notin ToSet(running)
  /\ phase \in {"black", "white"} =>
       \A o \in Obj : color[o] = "gray" => o \notin ToSet(running)

\* A request that was never sent has neither callback nor lock.
RequestsSound ==
  /\ \A a \in busy : KindOf[a] = Asyncs
  /\ mode = "run" =>
       \A a \in Obj, f \in Field :
         KindOf[a] = Asyncs /\ a \notin busy => slot[<<a, f>>] = NoObj

\* Each coroutine on the resume chain is in a register of the context that
\* resumed it.
FrameOf(i) == IF i = 0 THEN Local ELSE {<<running[i], f>> : f \in Field}
ChainSound ==
  /\ \A i \in DOMAIN running :
       KindOf[running[i]] = Coroutines /\ \E r \in FrameOf(i - 1) : slot[r] = running[i]
  /\ \A i, j \in DOMAIN running : running[i] = running[j] => i = j

\* Owners of containers are marked before the container is stored.
MaySound ==
  mode = "run" =>
    /\ \A o \in Obj, f \in Field : slot[<<o, f>>] # NoObj => may[o]
    /\ \A o \in Obj : status[o] # "free" /\ KindOf[o] = Coroutines => may[o]
    /\ move.op \in {"copy", "new"} =>
         \A o \in Obj, f \in Field : move.dst = <<o, f>> => may[o]

\* What every step of every handler keeps of counts, queues and slots.
HeapInv ==
  /\ TypeOK /\ RefCountExact /\ Staging /\ DestroySound /\ SlotsSound
  /\ MoveSound /\ TicketsAreLive /\ ColorSound /\ RequestsSound /\ ChainSound
  /\ MaySound /\ NoLimbo

-----------------------------------------------------------------------------
(* Reachability                                                            *)

\* The heap a script sees: the coroutines on the resume chain and the
\* requests that hold themselves are roots, and so is the container an Alloc
\* has not stored yet.
Chained  == ToSet(running)
InFlight == {a \in busy : slot[<<a, LockField>>] = a}
Borrowed == CASE move.op = "copy" -> {slot[move.src]} \ {NoObj}
              [] move.op = "drop" -> {o \in {move.dst[1]} : status[o] = "live"}
              [] OTHER -> {}
Abstract == INSTANCE GcHeap WITH
              edge <- slot,
              alive <- {o \in Obj : status[o] = "live"},
              pinned <- Chained \cup InFlight,
              fresh <- move.new,
              borrowed <- Borrowed,
              reclaiming <- ~Drained \/ phase # "idle",
              ended <- mode # "run"

Garbage   == Abstract!Garbage
Reachable == Abstract!Reachable

\* Counts, queues and collector implement the abstract heap: no step of theirs
\* touches what the script can still reach.
ImplementsGcHeap == Abstract!Spec

\* Between two instructions every unreachable container is reachable from an
\* unreachable one that holds a ticket, so some later pass can still find it.
GarbageHasCandidate ==
  Quiescent => Garbage \subseteq Abstract!Closure(Queued \cap Garbage)

\* A collector that found its white set holds no reachable container.
WhiteIsGarbage == phase \in {"clear", "unhold"} => hold \cap Reachable = {}

\* A forced collection leaves no garbage behind.
ForcedCollectionIsComplete ==
  [][phase = "unhold" /\ phase' = "idle" /\ force => Garbage = {}]_vars

\* CollectCycles and the destroy queue come to an end.
CollectionEnds == ~Quiescent /\ mode = "run" ~> Quiescent \/ mode # "run"

\* Every unreachable container is returned to its pool while the host keeps
\* calling CollectCycles, even with a budget of one ticket per call.
GarbageIsReclaimed ==
  \A o \in Obj : o \in Garbage ~> o \notin Garbage \/ mode # "run"

\* The destructor ends.
TeardownEnds == mode = "teardown" ~> mode = "down"

-----------------------------------------------------------------------------
(* What makes reachability inductive                                       *)

\* The nodes of a pass, those whose edges the trace has counted, and those it
\* must not touch whatever it counted.
Colored   == {o \in Obj : color[o] # "none"}
Traced    == {o \in Colored : ~NativeRoot(o) /\ (phase \in {"pop", "gray"} => o \notin todo)}
Externals == {o \in Colored : NativeRoot(o) \/ scratch[o] # 0}

\* The references to a node that no traced edge explains.
Unexplained(o) == {s \in Refs(o) : ~(may[o] /\ s \in Traced \X Field)}

\* Trial deletion: the scratch count of a coloured node is the number of its
\* unexplained references, and a traced edge leads to a coloured node.
TraceSound ==
  /\ todo \subseteq Colored
  /\ phase \notin {"pop", "gray", "black"} => todo = {}
  /\ phase = "pop" => Colored \subseteq todo
  /\ phase \in {"pop", "gray", "scan"} => \A o \in Obj : color[o] # "black"
  /\ \A o \in Colored : scratch[o] = Cardinality(Unexplained(o))
  /\ \A p \in Traced : \A c \in Kids(p) : may[c] => c \in Colored

\* What is still gray is not external, and owned by no black node whose turn
\* has come.  Black comes from an external node.
BlackSound ==
  phase \in {"black", "white"} =>
    /\ \A o \in Obj : color[o] = "gray" => o \notin Externals
    /\ \A o \in todo : color[o] = "black"
    /\ \A p \in Obj \ todo : color[p] = "black" /\ ~NativeRoot(p) =>
         \A c \in Kids(p) : color[c] # "gray"
    /\ {o \in Obj : color[o] = "black"} \subseteq Abstract!Closure(Externals)

\* What the collector holds is owned by what it holds, then by nothing.
WhiteSound ==
  /\ phase = "white" => \A o \in hold : color[o] = "gray"
  /\ \A o \in hold : ~NativeRoot(o)
  /\ phase = "clear" => \A o \in hold : Refs(o) \subseteq hold \X Field
  /\ phase = "unhold" => \A o \in hold : Refs(o) = {}

\* An async has a lock on itself and a callback, both until its completion is
\* dispatched.
AsyncSound ==
  mode = "run" =>
    /\ \A o \in Obj : status[o] = "freeing" => o = freeing
    /\ \A a \in Obj : KindOf[a] = Asyncs =>
         /\ \A f \in Field \ {LockField, CallbackField} : slot[<<a, f>>] = NoObj
         /\ slot[<<a, LockField>>] \in {a, NoObj}
         /\ slot[<<a, LockField>>] = NoObj /\ slot[<<a, CallbackField>>] # NoObj =>
              freeing = a \/ move.dst = <<a, CallbackField>>
    /\ move.op = "unlock" => Drained /\ \E a \in InFlight : move.dst = <<a, LockField>>
    /\ move.op = "drop" => \E a \in Obj : move.dst = <<a, CallbackField>>

\* Every container that exists is reached from what the script can name, from
\* a node that holds a ticket or is being destroyed, or from a node in the
\* collector's hands.  What the scan leaves to external owners is covered by
\* those.
Dying   == ToSet(destroyQ) \cup ({freeing} \ {NoObj})
InHand  == CASE phase = "black" -> Colored \ Abstract!Closure(Externals)
             [] phase = "white" -> {o \in Obj : color[o] = "gray"}
             [] phase \in {"clear", "unhold"} -> hold
             [] OTHER -> Colored
Anchors == Abstract!Roots \cup Dying \cup Queued \cup InHand
Findable ==
  mode = "run" => {o \in Obj : status[o] = "live"} \subseteq Abstract!Closure(Anchors)

\* Every step of every handler keeps all of this: counts and queues (HeapInv),
\* what a pass has counted and coloured, requests, and a way to all garbage.
CollectorInv ==
  HeapInv /\ TraceSound /\ BlackSound /\ WhiteSound /\ AsyncSound /\ Findable

\* What a Move started to copy is still there when it reads it: reading an
\* element that exists never stores null.
SourceOutlivesRelease == move.op = "copy" => slot[move.src] # NoObj

=============================================================================
