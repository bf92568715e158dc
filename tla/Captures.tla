------------------------------ MODULE Captures ------------------------------
(***************************************************************************)
(* Captured lambdas (NeoSource/NeoVMWorker.cpp, NeoVMWorker_Handlers.inl). *)
(*                                                                         *)
(* A call copies the captures of a lambda into slots of its frame; they    *)
(* are copied back when the frame ends.  A frame does not say whose body   *)
(* it runs: the worker keeps the lambda of the topmost frame               *)
(* (m_pActiveClosure), the context those of the frames below               *)
(* (m_sClosureCallStack), a context that was left the one of its topmost   *)
(* frame (_activeClosure), and a native frame that called back the one it  *)
(* interrupted.  Each holds a reference that its release gives back.       *)
(*                                                                         *)
(* calls says whose frame each one really is; the invariants compare the   *)
(* two.  A lambda has one captured variable.                               *)
(***************************************************************************)
EXTENDS Integers, Sequences, FiniteSets, SequencesExt

CONSTANTS
  Closure,       \* nodes of the closure pool
  NoClosure,     \* a named function, or a null pointer
  Main,          \* the main context
  Co,            \* coroutines
  Value,         \* what scripts assign to a captured variable
  Null,          \* the null value
  MaxFrames,     \* of a context: the frames its stack has room for
  MaxNatives     \* native frames that have called back

ASSUME CapturesAssumption ==
  /\ NoClosure \notin Closure /\ Main \notin Co /\ Null \notin Value
  /\ IsFiniteSet(Co)
  /\ MaxFrames \in [{Main} \cup Co -> Nat \ {0}] /\ MaxNatives \in Nat

Ctx == {Main} \cup Co
Callee == Closure \cup {NoClosure}

VARIABLES
  held,      \* closures that a value refers to: variables, containers, requests
  cap,       \* _captures
  exec,      \* the part of _refCount that executing frames hold
  calls,     \* of a context: the frames, and the call stack's FLAG_CLOSURE
  parked,    \* m_sClosureCallStack
  saved,     \* _activeClosure
  active,    \* m_pActiveClosure
  fn,        \* _function of a coroutine
  state,     \* _state of a coroutine, "none" while it is in the pool
  cur,       \* m_pCur (the main context when idle)
  callers,   \* m_sCoroutines, the nearest first
  natives,   \* native frames: who called back, what it interrupted, and where
  mode,      \* idle, failed (idle again after an error), in an execution, or kept: ended
             \* with the main context kept
  astray     \* history: a main context has yielded, with nobody to return to

lambdaVars == <<held, cap, exec>>
stackVars == <<calls, parked, saved, active>>
coVars == <<fn, state, cur, callers>>
vars == <<held, cap, exec, calls, parked, saved, active, fn, state, cur, callers,
          natives, mode, astray>>

-----------------------------------------------------------------------------
(* Frames                                                                  *)

Depth == Len(calls[cur])
Top == calls[cur][Depth]

\* A frame of c: its captured variable starts as the captures are now, and back
\* says that the return has a lambda to go back to.
Frame(c, b) == [closure |-> c, slot |-> IF c = NoClosure THEN Null ELSE cap[c], back |-> b]

\* What is kept of a lambda while something runs above it.
Entry(c, x, i) == IF c = NoClosure THEN <<>> ELSE <<[closure |-> c, ctx |-> x, frame |-> i]>>

\* What a context's own bookkeeping says of it, the topmost frame first.
Kept(x) == Entry(saved[x], x, Len(calls[x])) \o Reverse(parked[x])

\* SyncClosureAtFrame of each entry in turn: the last one to write stays.
Synced(cp, cl, E) ==
  [c \in Closure |->
     LET I == {i \in DOMAIN E : E[i].closure = c} IN
       IF I = {} THEN cp[c] ELSE LET e == E[Max(I)] IN cl[e.ctx][e.frame].slot]

\* References to closures that a list of entries holds.
Uses(E, c) == Cardinality({i \in DOMAIN E : E[i].closure = c})
Released(E) == [c \in Closure |-> exec[c] - Uses(E, c)]

\* The interpreter is on the stack.  Once it has mistaken one frame of a lambda
\* for another, a run is followed no further than its returns.
Running == mode = "in" /\ ~astray

Referred(c) == c \in held \/ exec[c] # 0 \/ \E x \in Co : fn[x] = c

-----------------------------------------------------------------------------
(* Values                                                                  *)

\* set_script_closure_value: a node of the pool with the captures of this moment.
Make(c, v) ==
  /\ Running
  /\ ~Referred(c)
  /\ held' = held \cup {c}
  /\ cap' = [cap EXCEPT ![c] = v]
  /\ UNCHANGED <<exec, stackVars, coVars, natives, mode, astray>>

\* The last value that refers to it goes, maybe while it runs.
Forget(c) ==
  /\ c \in held /\ ~astray
  /\ held' = held \ {c}
  /\ UNCHANGED <<cap, exec, stackVars, coVars, natives, mode, astray>>

\* The body assigns to its captured variable.
Write(v) ==
  /\ Running /\ active # NoClosure
  /\ calls' = [calls EXCEPT ![cur][Depth].slot = v]
  /\ UNCHANGED <<lambdaVars, parked, saved, active, coVars, natives, mode, astray>>

-----------------------------------------------------------------------------
(* Calls and returns                                                       *)

Holding(c, n) == IF c = NoClosure THEN exec ELSE [exec EXCEPT ![c] = @ + n]

Callable(c) == c = NoClosure \/ c \in held

\* Call, for a lambda and for a named function.
Call(c) ==
  /\ Running /\ Callable(c) /\ Depth < MaxFrames[cur]
  /\ calls' = [calls EXCEPT ![cur] = Append(@, Frame(c, active # NoClosure))]
  /\ parked' = [parked EXCEPT ![cur] = @ \o Entry(active, cur, Depth)]
  /\ active' = c
  /\ exec' = Holding(c, 1)
  /\ UNCHANGED <<held, cap, saved, coVars, natives, mode, astray>>

\* Mutant of Answers: the lambda of the first answer is not parked.
AnswersUnparked(c, d) ==
  /\ Running /\ natives = <<>> /\ Callable(c) /\ Callable(d) /\ Depth + 1 < MaxFrames[cur]
  /\ calls' = [calls EXCEPT ![cur] = @ \o <<Frame(c, active # NoClosure), Frame(d, c # NoClosure)>>]
  /\ parked' = [parked EXCEPT ![cur] = @ \o Entry(active, cur, Depth)]
  /\ active' = d
  /\ exec' = [e \in Closure |-> exec[e] + (IF c = e THEN 1 ELSE 0) + (IF d = e THEN 1 ELSE 0)]
  /\ UNCHANGED <<held, cap, saved, coVars, natives, mode, astray>>

\* handle_IDLE: the answers of one wait get their frames one upon the other
\* before any of them runs.
Answers(c, d) ==
  /\ Running /\ natives = <<>> /\ Callable(c) /\ Callable(d) /\ Depth + 1 < MaxFrames[cur]
  /\ calls' = [calls EXCEPT ![cur] = @ \o <<Frame(c, active # NoClosure), Frame(d, c # NoClosure)>>]
  /\ parked' = [parked EXCEPT ![cur] = @ \o Entry(active, cur, Depth) \o Entry(c, cur, Depth + 1)]
  /\ active' = d
  /\ exec' = [e \in Closure |-> exec[e] + (IF c = e THEN 1 ELSE 0) + (IF d = e THEN 1 ELSE 0)]
  /\ UNCHANGED <<held, cap, saved, coVars, natives, mode, astray>>

\* FinishClosureReturn: the captures go back and the reference is given up.
Finished ==
  /\ cap' = Synced(cap, calls, Entry(active, cur, Depth))
  /\ exec' = Holding(active, -1)

\* ... and the context forgets the lambda it may have been resumed with.
Unsaved == IF saved[cur] = active THEN [saved EXCEPT ![cur] = NoClosure] ELSE saved

Floor == IF natives = <<>> THEN 0 ELSE Last(natives).frame

\* RET with a caller on the same context.  It is followed astray too: what is
\* lost shows when the frame that was mistaken for another one returns.
Return ==
  /\ mode = "in" /\ Floor + 1 < Depth
  /\ Finished
  /\ calls' = [calls EXCEPT ![cur] = Front(@)]
  /\ IF Top.back
     THEN /\ active' = Last(parked[cur]).closure
          /\ parked' = [parked EXCEPT ![cur] = Front(@)]
          /\ saved' = [Unsaved EXCEPT ![cur] = active']
     ELSE /\ active' = NoClosure
          /\ saved' = Unsaved
          /\ UNCHANGED parked
  /\ UNCHANGED <<held, coVars, natives, mode, astray>>

\* Native code calls back: testCall of a comparator ("lib"), or RunHostCall
\* ("host").  The interrupted lambda is put aside.
Enter(k, c) ==
  /\ Running /\ Callable(c) /\ Depth < MaxFrames[cur] /\ Len(natives) < MaxNatives
  /\ natives' = Append(natives, [kind |-> k, closure |-> active, frame |-> Depth])
  /\ calls' = [calls EXCEPT ![cur] = Append(@, Frame(c, FALSE))]
  /\ active' = c
  /\ exec' = Holding(c, 1)
  /\ UNCHANGED <<held, cap, parked, saved, coVars, mode, astray>>

\* The callback returns, and the lambda that was interrupted goes on.
Leave ==
  /\ Running /\ natives # <<>> /\ Depth = Floor + 1
  /\ Finished
  /\ calls' = [calls EXCEPT ![cur] = Front(@)]
  /\ saved' = Unsaved
  /\ active' = Last(natives).closure
  /\ natives' = Front(natives)
  /\ UNCHANGED <<held, parked, coVars, mode, astray>>

-----------------------------------------------------------------------------
(* Coroutines                                                              *)

\* coroutine.create: the context keeps the function.
Create(x, c) ==
  /\ Running /\ state[x] = "none" /\ Callable(c)
  /\ fn' = [fn EXCEPT ![x] = c]
  /\ state' = [state EXCEPT ![x] = "suspended"]
  /\ saved' = [saved EXCEPT ![x] = NoClosure]
  /\ UNCHANGED <<lambdaVars, calls, parked, active, cur, callers, natives, mode, astray>>

\* StartCoroutione: the context that is left keeps its lambda; a first resume
\* makes the frame of the body.
Resume(x) ==
  /\ Running /\ natives = <<>> /\ state[x] = "suspended"
  /\ state' = [y \in Co |-> IF y = x THEN "running" ELSE IF y = cur THEN "normal" ELSE state[y]]
  /\ callers' = <<cur>> \o callers
  /\ cur' = x
  /\ IF calls[x] = <<>>
     THEN /\ calls' = [calls EXCEPT ![x] = <<Frame(fn[x], FALSE)>>]
          /\ saved' = [saved EXCEPT ![cur] = active, ![x] = fn[x]]
          /\ active' = fn[x]
          /\ exec' = Holding(fn[x], 1)
     ELSE /\ saved' = [saved EXCEPT ![cur] = active]
          /\ active' = saved[x]
          /\ UNCHANGED <<calls, exec>>
  /\ UNCHANGED <<held, cap, parked, fn, natives, mode, astray>>

\* StopCoroutine: the nearest caller goes on with the lambda it was left in.
Back(s) ==
  /\ natives = <<>> /\ callers # <<>>
  /\ cur' = Head(callers)
  /\ callers' = Tail(callers)
  /\ state' = [y \in Co |-> IF y = cur THEN s ELSE IF y = Head(callers) THEN "running" ELSE state[y]]
  /\ active' = saved[Head(callers)]
  /\ UNCHANGED <<held, fn, natives, mode, astray>>

Yield ==
  /\ Running /\ Back("suspended")
  /\ saved' = [saved EXCEPT ![cur] = active]
  /\ UNCHANGED <<cap, exec, calls, parked>>

\* The body returns: FinishClosureReturn and StopCoroutine(true).
BodyEnds ==
  /\ Running /\ Depth = 1 /\ Back("dead")
  /\ Finished
  /\ calls' = [calls EXCEPT ![cur] = <<>>]
  /\ saved' = [saved EXCEPT ![cur] = NoClosure]
  /\ UNCHANGED parked

\* Mutant of CloseSelf: the frames are drained from the lowest one up.
CloseSelfUpwards ==
  /\ Running /\ Back("dead")
  /\ LET E == parked[cur] \o Entry(active, cur, Depth) IN
       /\ cap' = Synced(cap, calls, E)
       /\ exec' = Released(E)
  /\ calls' = [calls EXCEPT ![cur] = <<>>]
  /\ parked' = [parked EXCEPT ![cur] = <<>>]
  /\ saved' = [saved EXCEPT ![cur] = NoClosure]

\* coroutine.close() of itself: StopCoroutine(true) drains it.
CloseSelf ==
  /\ Running /\ Back("dead")
  /\ LET E == Entry(active, cur, Depth) \o Reverse(parked[cur]) IN
       /\ cap' = Synced(cap, calls, E)
       /\ exec' = Released(E)
  /\ calls' = [calls EXCEPT ![cur] = <<>>]
  /\ parked' = [parked EXCEPT ![cur] = <<>>]
  /\ saved' = [saved EXCEPT ![cur] = NoClosure]

\* coroutine.close of another one, suspended or waiting: DrainCoroutineClosures
\* takes m_pActiveClosure for its own when the lambda is the same.
Close(x) ==
  /\ Running /\ natives = <<>> /\ state[x] \in {"suspended", "normal"}
  /\ cap' = Synced(cap, calls, Kept(x))
  /\ exec' = Released(Kept(x))
  /\ calls' = [calls EXCEPT ![x] = <<>>]
  /\ parked' = [parked EXCEPT ![x] = <<>>]
  /\ saved' = [saved EXCEPT ![x] = NoClosure]
  /\ active' = IF active = saved[x] THEN NoClosure ELSE active
  /\ astray' = (active # active')
  /\ state' = [state EXCEPT ![x] = "dead"]
  /\ callers' = RemoveFirst(callers, x)
  /\ UNCHANGED <<held, fn, cur, natives, mode>>

\* Mutant of Discard: the parked lambdas are released, the topmost one is not.
DiscardParked(x) ==
  /\ state[x] \in {"suspended", "dead"} /\ ~astray
  /\ exec' = Released(parked[x])
  /\ calls' = [calls EXCEPT ![x] = <<>>]
  /\ parked' = [parked EXCEPT ![x] = <<>>]
  /\ saved' = [saved EXCEPT ![x] = NoClosure]
  /\ fn' = [fn EXCEPT ![x] = NoClosure]
  /\ state' = [state EXCEPT ![x] = "none"]
  /\ UNCHANGED <<held, cap, active, cur, callers, natives, mode, astray>>

\* FreeCoroutine, when the last value that refers to it goes: nothing is
\* written back.
Discard(x) ==
  /\ state[x] \in {"suspended", "dead"} /\ ~astray
  /\ exec' = Released(Kept(x))
  /\ calls' = [calls EXCEPT ![x] = <<>>]
  /\ parked' = [parked EXCEPT ![x] = <<>>]
  /\ saved' = [saved EXCEPT ![x] = NoClosure]
  /\ fn' = [fn EXCEPT ![x] = NoClosure]
  /\ state' = [state EXCEPT ![x] = "none"]
  /\ UNCHANGED <<held, cap, active, cur, callers, natives, mode, astray>>

-----------------------------------------------------------------------------
(* Executions                                                              *)

\* A host call or a top-level run.  The pool does not reset _activeClosure.
Begin(c) ==
  /\ mode \in {"idle", "failed"} /\ ~astray /\ Callable(c)
  /\ calls' = [calls EXCEPT ![Main] = <<Frame(c, FALSE)>>]
  /\ parked' = [parked EXCEPT ![Main] = <<>>]
  /\ active' = c
  /\ exec' = Holding(c, 1)
  /\ mode' = "in"
  /\ UNCHANGED <<held, cap, saved, coVars, natives, astray>>

Line == {cur} \cup ToSet(callers)

\* The contexts of an execution are given up: none keeps a frame or a lambda.
GivenUp ==
  /\ calls' = [x \in Ctx |-> IF x \in Line THEN <<>> ELSE calls[x]]
  /\ parked' = [x \in Ctx |-> IF x \in Line THEN <<>> ELSE parked[x]]
  /\ saved' = [x \in Ctx |-> IF x \in Line THEN NoClosure ELSE saved[x]]
  /\ active' = NoClosure
  /\ state' = [x \in Co |-> IF x \in Line THEN "dead" ELSE state[x]]
  /\ cur' = Main /\ callers' = <<>> /\ natives' = <<>>
  /\ UNCHANGED <<held, fn>>

\* UnwindActiveClosures, which forgets the context's own pointer where it names
\* a lambda it has released; one that is left is drained like that of a
\* context that waits.
Unwound == Entry(active, cur, Depth) \o Reverse(parked[cur])
Named(E) == {E[i].closure : i \in DOMAIN E}
Left(E) == IF saved[cur] \in Named(E) THEN <<>> ELSE Entry(saved[cur], cur, Depth)

\* What each context of the line has to settle, in the order of ReleaseExecution.
Settled(E) == [i \in 1 .. Len(callers) + 1 |-> IF i = 1 THEN E ELSE Kept(callers[i - 1])]
SyncedLine(S, n) ==
  [c \in Closure |->
     LET K == {i \in 1 .. n : c \in Named(S[i])} IN
       IF K = {} THEN cap[c] ELSE Synced(cap, calls, S[Max(K)])[c]]
ReleasedLine(S) ==
  [c \in Closure |->
     exec[c] - Cardinality(UNION {{i} \X {j \in DOMAIN S[i] : S[i][j].closure = c} : i \in DOMAIN S})]

\* ReleaseExecution with write-back.
Release ==
  LET S == Settled(Unwound \o Left(Unwound)) IN
    /\ cap' = SyncedLine(S, Len(S))
    /\ exec' = ReleasedLine(S)
    /\ GivenUp
    /\ mode' = "idle"
    /\ UNCHANGED astray

\* The main function returns; its lambda is settled like a context's that is given up.
Complete ==
  /\ Running /\ natives = <<>> /\ cur = Main /\ Depth = 1
  /\ Release

\* CancelExecution of an execution that has stopped between two instructions
\* (sleep, an expired slice, the debugger; ResumeTop goes on from the same
\* state), and EndHostCall of a call whose main context yielded.
Cancel ==
  /\ mode \in {"in", "kept"} /\ ~astray /\ natives = <<>>
  /\ Release

\* The main context yields with nobody to return to, which ends the run.  A host
\* call keeps the context for its result and clears the registers of the
\* topmost frame (GC), captured slots included.
YieldMain(gc) ==
  /\ Running /\ natives = <<>> /\ callers = <<>>
  /\ saved' = [saved EXCEPT ![Main] = active]
  /\ active' = NoClosure
  /\ calls' = IF gc THEN [calls EXCEPT ![Main][Depth].slot = Null] ELSE calls
  /\ astray' = (active # NoClosure /\ (gc \/ active \in Named(parked[Main])))
  /\ mode' = "kept"
  /\ UNCHANGED <<lambdaVars, parked, coVars, natives>>

\* What native frames of one kind interrupted, the innermost first.
Interrupted(k) ==
  [i \in DOMAIN natives |->
     LET n == natives[Len(natives) - i + 1] IN
       [closure |-> IF n.kind = k THEN n.closure ELSE NoClosure, ctx |-> cur, frame |-> n.frame]]

\* A run-time error.  handle_ERROR unwinds the current context; testCall puts the
\* interrupted lambda back, to be unwound in its turn, RunHostCall drops it.  Then
\* the line is released: a top-level run drops what the waiting contexts kept,
\* a host call's EndHostCall writes it back.
Fail(sync) ==
  /\ Running
  /\ LET E == Unwound \o Interrupted("lib")
         D == Interrupted("host")
         S == Settled(E)
     IN  /\ cap' = SyncedLine(S, IF sync THEN Len(S) ELSE 1)
         /\ exec' = ReleasedLine([S EXCEPT ![1] = E \o D \o Left(E \o D)])
  /\ GivenUp
  /\ mode' = "failed"
  /\ UNCHANGED astray

-----------------------------------------------------------------------------
Init ==
  /\ held = {} /\ cap = [c \in Closure |-> Null] /\ exec = [c \in Closure |-> 0]
  /\ calls = [x \in Ctx |-> <<>>] /\ parked = [x \in Ctx |-> <<>>]
  /\ saved = [x \in Ctx |-> NoClosure] /\ active = NoClosure
  /\ fn = [x \in Co |-> NoClosure] /\ state = [x \in Co |-> "none"]
  /\ cur = Main /\ callers = <<>> /\ natives = <<>> /\ mode = "idle"
  /\ astray = FALSE

Script ==
  \/ \E c \in Closure, v \in Value : Make(c, v)
  \/ \E c \in Closure : Forget(c)
  \/ \E v \in Value : Write(v)
  \/ \E c \in Callee : Call(c)
  \/ \E c, d \in Callee : Answers(c, d)
  \/ Return
  \/ \E k \in {"lib", "host"}, c \in Callee : Enter(k, c)
  \/ Leave

Switch ==
  \/ \E x \in Co, c \in Callee : Create(x, c)
  \/ \E x \in Co : Resume(x)
  \/ Yield
  \/ BodyEnds
  \/ CloseSelf
  \/ \E x \in Co : Close(x)
  \/ \E x \in Co : Discard(x)

Host ==
  \/ \E c \in Callee : Begin(c)
  \/ Complete
  \/ Cancel
  \/ \E gc \in BOOLEAN : YieldMain(gc)
  \/ \E sync \in BOOLEAN : Fail(sync)

Next == Script \/ Switch \/ Host

Spec == Init /\ [][Next]_vars

-----------------------------------------------------------------------------
(* Properties                                                              *)

FrameOf == [closure : Callee, slot : Value \cup {Null}, back : BOOLEAN]
EntryOf == [closure : Closure, ctx : Ctx, frame : Nat \ {0}]

\* Every variable has its type, and no context has more frames than fit.
TypeOK ==
  /\ held \in SUBSET Closure
  /\ cap \in [Closure -> Value \cup {Null}]
  /\ exec \in [Closure -> Nat]
  /\ calls \in [Ctx -> Seq(FrameOf)]
  /\ \A x \in Ctx : Len(calls[x]) <= MaxFrames[x]
  /\ parked \in [Ctx -> Seq(EntryOf)]
  /\ saved \in [Ctx -> Callee]
  /\ active \in Callee
  /\ fn \in [Co -> Callee]
  /\ state \in [Co -> {"none", "suspended", "running", "normal", "dead"}]
  /\ cur \in Ctx /\ callers \in Seq(Ctx)
  /\ natives \in Seq([kind : {"lib", "host"}, closure : Callee, frame : Nat \ {0}])
  /\ mode \in {"idle", "failed", "in", "kept"}
  /\ astray \in BOOLEAN

\* The topmost frame of each context: the worker names its lambda, or the
\* context does when it does not run.
TopKnown ==
  \A x \in Ctx :
    (IF x = cur /\ mode = "in" THEN active ELSE saved[x])
      = IF calls[x] = <<>> THEN NoClosure ELSE Last(calls[x]).closure

\* What is parked are frames below the top, in their order.
ParkedKnown ==
  \A x \in Ctx : \A i \in DOMAIN parked[x] :
    LET e == parked[x][i] IN
      /\ e.ctx = x /\ e.frame < Len(calls[x]) /\ calls[x][e.frame].closure = e.closure
      /\ \A j \in DOMAIN parked[x] : i < j => e.frame < parked[x][j].frame

\* What native frames interrupted, likewise, and nothing of it is parked.
NativesKnown ==
  \A i \in DOMAIN natives :
    LET n == natives[i] IN
      /\ n.frame < Depth /\ calls[cur][n.frame].closure = n.closure
      /\ \A j \in DOMAIN natives : i < j => n.frame < natives[j].frame
      /\ \A j \in DOMAIN parked[cur] : parked[cur][j].frame # n.frame

\* No lower frame of a lambda is lost.
NoneLost ==
  \A x \in Ctx : \A i \in 1 .. Len(calls[x]) - 1 : calls[x][i].closure # NoClosure =>
    \/ \E j \in DOMAIN parked[x] : parked[x][j].frame = i
    \/ x = cur /\ \E j \in DOMAIN natives : natives[j].frame = i

FramesKnown == TopKnown /\ ParkedKnown /\ NativesKnown /\ NoneLost

\* FLAG_CLOSURE: a return pops the parked lambdas if and only if the frame it
\* goes back to is a lambda's, and no native frame holds that one.
ReturnsSound ==
  \A x \in Ctx : \A i \in DOMAIN calls[x] :
    calls[x][i].back <=>
      /\ i > 1 /\ calls[x][i - 1].closure # NoClosure
      /\ ~ (x = cur /\ \E n \in DOMAIN natives : natives[n].frame = i - 1)

\* The pointer that a context was left with is not kept past its frame, nor is
\* it that of a parked frame when the context is kept: ReleaseExecution would
\* settle it a second time, or not at all.
SavedNamed ==
  /\ mode = "in" => saved[cur] \in {NoClosure} \cup Named(Unwound)
                                     \cup {natives[i].closure : i \in DOMAIN natives}
  /\ mode = "kept" => saved[cur] \notin Named(parked[cur])

\* Who runs and who waits, and who has frames.
LineSound ==
  /\ \A x \in Co : state[x] = "running" <=> x = cur
  /\ \A x \in Co : state[x] = "normal" <=> x \in ToSet(callers)
  /\ IsInjective(callers)
  /\ IF callers = <<>> THEN cur = Main ELSE cur # Main /\ Last(callers) = Main
  /\ mode # "in" => callers = <<>> /\ active = NoClosure /\ natives = <<>>
  /\ mode \in {"idle", "failed"} => calls[Main] = <<>>
  /\ mode = "in" => \A x \in Line : calls[x] # <<>>
  /\ \A x \in Co : state[x] \in {"none", "dead"} => calls[x] = <<>>

Frames(c) == UNION {{x} \X {i \in DOMAIN calls[x] : calls[x][i].closure = c} : x \in Ctx}

\* The executing references of a lambda are as many as its frames: none is
\* given back twice (the node would be reused under a running body) and none is
\* left when a body ends by yielding, closing, failing or being cancelled.
HoldsExact == \A c \in Closure : exec[c] = Cardinality(Frames(c))

\* Through every call, callback, switch and end, the worker's one pointer, the
\* contexts' lists and the native frames together name the lambda of each frame
\* exactly once, and hold one reference for each: nothing is copied back from
\* another frame's slots, or never, and no node is reused under a running body.
\* It is said as long as the worker has not taken one frame for another (astray).
CapturesInv ==
  ~astray => TypeOK /\ FramesKnown /\ ReturnsSound /\ SavedNamed /\ LineSound /\ HoldsExact

Ended(c) == {f \in Frames(c) : f[2] > Len(calls'[f[1]])}

\* Of several frames of one lambda that end at once, the one called first: the
\* context that waits furthest out, and its lowest frame.
Rank(x) == IF x = cur THEN 0 ELSE CHOOSE i \in DOMAIN callers : callers[i] = x
Outermost(F) ==
  CHOOSE f \in F : \A g \in F : IF f[1] = g[1] THEN f[2] <= g[2] ELSE Rank(f[1]) > Rank(g[1])
Slot(f) == calls[f[1]][f[2]].slot

Failing == mode = "in" /\ mode' = "failed"

\* The frames whose variables must not be lost: all but those of a coroutine
\* nobody refers to, and, after an error, those of the contexts that wait and of
\* a frame whose host call failed.
Owed(c) ==
  {f \in Ended(c) :
     /\ ~ (f[1] \in Co /\ state'[f[1]] = "none")
     /\ Failing => /\ f[1] = cur
                   /\ ~ \E i \in DOMAIN natives : natives[i].frame = f[2] /\ natives[i].kind = "host"}

\* What a lambda remembers changes only when a frame of it ends, and then to
\* what such a frame held.  Except where an error ended them, it is what the
\* frame called first held, however many of its frames a return, a close or a
\* cancellation ends (FinishClosureReturn, DrainCoroutineClosures,
\* UnwindActiveClosures, ReleaseExecution).
EndsWriteBack ==
  [][ ~astray' =>
      \A c \in Closure :
        /\ Ended(c) = {} => cap'[c] = cap[c] \/ c \in held' \ held
        /\ cap'[c] # cap[c] /\ Ended(c) # {} => \E f \in Ended(c) : cap'[c] = Slot(f)
        /\ Owed(c) # {} =>
             IF Failing THEN \E f \in Ended(c) : cap'[c] = Slot(f)
                        ELSE cap'[c] = Slot(Outermost(Ended(c))) ]_vars

\* docs/Embedding.md:230-232: a call copies the captures into its slots and back
\* when it returns.  Said of every return to a caller on the same context.
ReturnWritesBack ==
  [][ mode = "in" /\ mode' = "in" /\ UNCHANGED <<cur, natives>>
      /\ Len(calls'[cur]) < Depth /\ Top.closure # NoClosure
      => cap'[Top.closure] = Top.slot ]_vars

=============================================================================
