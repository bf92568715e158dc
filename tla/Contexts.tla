------------------------------ MODULE Contexts ------------------------------
(***************************************************************************)
(* The execution contexts of one CNeoVMWorker: the main context of a host  *)
(* call and the coroutines, which draw from one NeoExecContextPool and are *)
(* told apart only by who points at them (NeoSource/NeoVMWorker.cpp,       *)
(* NeoLib.cpp).                                                            *)
(*                                                                         *)
(* A context's stack is a few slots, each empty or holding a coroutine.    *)
(* Reference counts are not kept: NeoHeap shows that they equal the number *)
(* of slots, so a coroutine is freed when no slot refers to it any more.   *)
(* m_pCur, m_pMainCtx and m_sCoroutines are raw pointers and count for     *)
(* nothing.                                                                *)
(***************************************************************************)
EXTENDS Integers, Sequences, FiniteSets, SequencesExt

CONSTANTS
  Ctx,           \* nodes of the context pool
  NoCtx,         \* a null pointer, or a slot that holds no coroutine
  Regs,          \* slots of a stack
  Glob,          \* script globals
  MaxDepth       \* native calls that have called back into the script

ASSUME ContextAssumption ==
  /\ IsFiniteSet(Ctx) /\ NoCtx \notin Ctx
  /\ Regs \in Nat \ {0} /\ MaxDepth \in Nat

Reg == 1 .. Regs
States == {"suspended", "running", "normal", "dead"}

VARIABLES
  owner,    \* of a node: the "pool", a worker's "main", or a "script" coroutine
  state,    \* _state
  begun,    \* _info._pCodeCurrent is set
  stack,    \* m_sVarStack
  high,     \* _info._iSP_Vars_Max2, as saved when the context was left
  glob,     \* m_sVarGlobal
  cur,      \* m_pCur
  main,     \* m_pMainCtx
  callers,  \* m_sCoroutines, the nearest caller first
  live,     \* the worker's own _iSP_Vars_Max2, of the context in cur
  bases,    \* high-water marks of the native frames that called back
  exec      \* idle, in Run, stopped (sleep, slice, debugger), result kept

ctxVars == <<owner, state, begun, stack, high, glob>>
runVars == <<cur, main, callers, live, bases, exec>>
vars == <<owner, state, begun, stack, high, glob, cur, main, callers, live, bases, exec>>

-----------------------------------------------------------------------------
(* Freeing                                                                 *)

Scripts(own) == {c \in Ctx : own[c] = "script"}

\* A coroutine some slot refers to that is not about to be cleared.
Anchored(st, gl, hi, S, c) ==
  \/ \E g \in Glob : gl[g] = c
  \/ \E x \in Ctx, i \in Reg : st[x][i] = c /\ (x \in S => i > hi[x])

\* Everything the release of the last references tears down: the least set
\* that has every coroutine referred to only from within it.
Freed(st, gl, hi, own) ==
  {c \in Scripts(own) :
     \A S \in SUBSET Scripts(own) :
       (\A d \in Scripts(own) : ~Anchored(st, gl, hi, S, d) => d \in S) => c \in S}

Cleared(st, S, hi) ==
  [c \in Ctx |-> IF c \in S
                 THEN [i \in Reg |-> IF i <= hi[c] THEN NoCtx ELSE st[c][i]]
                 ELSE st[c]]

\* Var_Release and FreeCoroutine: the unreferenced coroutines clear their
\* stacks up to the saved high-water mark and return to the pool.
Settle(st, gl, hi, own) ==
  LET F == Freed(st, gl, hi, own) IN
    /\ stack' = Cleared(st, F, hi)
    /\ glob' = gl
    /\ high' = [c \in Ctx |-> IF c \in F THEN 0 ELSE hi[c]]
    /\ owner' = [c \in Ctx |-> IF c \in F THEN "pool" ELSE own[c]]

-----------------------------------------------------------------------------
(* Host calls                                                              *)

InUse == ({cur, main} \cup ToSet(callers)) \ {NoCtx}

\* The contexts a worker points at belong to it: none is back in the pool,
\* where another call or coroutine could take it over.
ActiveKept == \A c \in InUse : owner[c] # "pool"

Idle == exec = "idle"

\* The interpreter is on the stack.  On a context of the pool it has lost its
\* registers: what the code does from there on is undefined, and the model stops.
Running == exec = "in" /\ ActiveKept

\* ExecuteTop, or BeginHostCall with RunHostCall: a pool node becomes the
\* main context.  Acquire resets it, but leaves its stack as it is.
Begin(c, h) ==
  /\ Idle
  /\ owner[c] = "pool"
  /\ owner' = [owner EXCEPT ![c] = "main"]
  /\ state' = [state EXCEPT ![c] = "running"]
  /\ begun' = [begun EXCEPT ![c] = TRUE]
  /\ main' = c /\ cur' = c /\ callers' = <<>>
  /\ live' = h
  /\ exec' = "in"
  /\ UNCHANGED <<stack, high, glob, bases>>

\* What ReleaseExecution clears of the main context: a completed host call
\* has lowered the mark to zero and left its result in the first slot.
MainMark == LET m == IF cur = main THEN live ELSE high[main]
            IN  IF cur = main /\ m < 1 THEN 1 ELSE m

\* The contexts of a chain die, the main context is cleared and returned, and
\* then what nothing refers to any more is freed.
ReleaseChain(chain, hi, e) ==
  /\ Settle(Cleared(stack, chain \cup {main}, hi), glob,
            [c \in Ctx |-> IF c \in chain \cup {main} THEN 0 ELSE hi[c]],
            [owner EXCEPT ![main] = "pool"])
  /\ state' = [c \in Ctx |-> IF c \in chain THEN "dead" ELSE state[c]]
  /\ cur' = NoCtx /\ main' = NoCtx /\ callers' = <<>>
  /\ live' = 0 /\ bases' = <<>> /\ exec' = e
  /\ UNCHANGED begun

Chain == ({cur} \cup ToSet(callers)) \ {main}

\* Mutants of Release: the running coroutine's own mark is not saved first;
\* the contexts that wait are forgotten.
ReleaseStale(e) == ReleaseChain(Chain, [high EXCEPT ![main] = MainMark], e)
ReleaseCallersForgotten(e) ==
  ReleaseChain({cur} \ {main}, [[high EXCEPT ![cur] = live] EXCEPT ![main] = MainMark], e)

\* ReleaseExecution: the running coroutine and every context waiting for it
\* belong to the discarded execution.
Release(e) ==
  ReleaseChain(Chain, [[high EXCEPT ![cur] = live] EXCEPT ![main] = MainMark], e)

\* A run-time error anywhere below ends the whole execution.
Fail == Running /\ Release("idle")

\* CancelExecution refuses while the interpreter is on the stack.
Cancel == exec \in {"stopped", "done"} /\ Release("idle")

\* EndHostCall of a call whose result was kept.
EndHostCall == exec = "done" /\ Release("idle")

\* The main function returns (or yields): ExecuteTop gives the context back ...
Complete ==
  /\ Running /\ bases = <<>> /\ cur = main
  /\ Release("idle")

\* ... a host call keeps it until the result was read, and clears all but the
\* slot of the result.  A yield with no caller has marked it suspended.
CompleteKeeping(s) ==
  /\ Running /\ bases = <<>> /\ cur = main
  /\ state' = [state EXCEPT ![main] = s]
  /\ exec' = "done"
  /\ live' = 0
  /\ Settle([stack EXCEPT ![main] = [i \in Reg |-> IF 1 < i /\ i <= live THEN NoCtx ELSE @[i]]],
            glob, high, owner)
  /\ UNCHANGED <<begun, cur, main, callers, bases>>

\* sleep, an expired slice or the debugger: the contexts stay as they are.
Stop ==
  /\ Running /\ bases = <<>>
  /\ exec' = "stopped"
  /\ UNCHANGED <<ctxVars, cur, main, callers, live, bases>>

\* ResumeTop.
Continue ==
  /\ exec = "stopped"
  /\ exec' = "in"
  /\ UNCHANGED <<ctxVars, cur, main, callers, live, bases>>

-----------------------------------------------------------------------------
(* Native code that calls the script, on the same context                  *)

Enter ==
  /\ Running /\ Len(bases) < MaxDepth
  /\ bases' = Append(bases, live)
  /\ UNCHANGED <<ctxVars, cur, main, callers, live, exec>>

\* testCall, for the comparator of a sort: registers and mark stay.
LeaveFrame ==
  /\ Running /\ bases # <<>>
  /\ bases' = Front(bases)
  /\ UNCHANGED <<ctxVars, cur, main, callers, live, exec>>

\* RunHostCall: the callee's registers are released and the mark goes back.
Leave ==
  /\ Running /\ bases # <<>>
  /\ bases' = Front(bases)
  /\ live' = Last(bases)
  /\ Settle([stack EXCEPT ![cur] = [i \in Reg |-> IF Last(bases) < i /\ i <= live THEN NoCtx ELSE @[i]]],
            glob, high, owner)
  /\ UNCHANGED <<state, begun, cur, main, callers, exec>>

-----------------------------------------------------------------------------
(* Script instructions                                                     *)

\* Mutant of Grow: the frame is taken without EnsureStackRange.
GrowPast ==
  /\ Running
  /\ live' = live + 1
  /\ UNCHANGED <<ctxVars, cur, main, callers, bases, exec>>

\* A call, or a wider argument window: more of the stack is in use.
Grow ==
  /\ Running /\ live < Regs
  /\ live' = live + 1
  /\ UNCHANGED <<ctxVars, cur, main, callers, bases, exec>>

\* coroutine.create: a pool node, reset by Acquire, referred to by a register.
Create(c, i) ==
  /\ Running
  /\ owner[c] = "pool"
  /\ i <= live
  /\ state' = [state EXCEPT ![c] = "suspended"]
  /\ begun' = [begun EXCEPT ![c] = FALSE]
  /\ Settle([stack EXCEPT ![cur][i] = c], glob, high, [owner EXCEPT ![c] = "script"])
  /\ UNCHANGED runVars

\* Register to register, to a global, from a global, and clearing either.
Copy(i, j) ==
  /\ Running /\ i <= live /\ j <= live
  /\ Settle([stack EXCEPT ![cur][j] = stack[cur][i]], glob, high, owner)
  /\ UNCHANGED <<state, begun, runVars>>
Store(i, g) ==
  /\ Running /\ i <= live
  /\ Settle(stack, [glob EXCEPT ![g] = stack[cur][i]], high, owner)
  /\ UNCHANGED <<state, begun, runVars>>
Load(g, i) ==
  /\ Running /\ i <= live
  /\ Settle([stack EXCEPT ![cur][i] = glob[g]], glob, high, owner)
  /\ UNCHANGED <<state, begun, runVars>>
Clear(i) ==
  /\ Running /\ i <= live
  /\ stack[cur][i] # NoCtx
  /\ Settle([stack EXCEPT ![cur][i] = NoCtx], glob, high, owner)
  /\ UNCHANGED <<state, begun, runVars>>

-----------------------------------------------------------------------------
(* Switching                                                               *)

\* StartCoroutione: the caller saves its registers and waits in m_sCoroutines;
\* a first resume passes an argument (a = 0: none).  The slot that named the
\* coroutine keeps its reference.
Start(c, a) ==
  /\ state' = [state EXCEPT ![cur] = "normal", ![c] = "running"]
  /\ callers' = <<cur>> \o callers
  /\ cur' = c
  /\ begun' = [begun EXCEPT ![c] = TRUE]
  /\ live' = IF begun[c] THEN high[c] ELSE 1
  /\ Settle(IF begun[c] \/ a = 0 THEN stack ELSE [stack EXCEPT ![c][1] = stack[cur][a]],
            glob, [high EXCEPT ![cur] = live], owner)
  /\ UNCHANGED <<main, bases, exec>>

\* Mutant of Resume: a finished coroutine may start again.
ResumeDead(i, a) ==
  /\ Running /\ bases = <<>> /\ i <= live /\ a <= live
  /\ stack[cur][i] # NoCtx
  /\ state[stack[cur][i]] \in {"suspended", "dead"}
  /\ Start(stack[cur][i], a)

\* coroutine.resume, which native code that was called back must not reach.
Resume(i, a) ==
  /\ Running /\ bases = <<>> /\ i <= live /\ a <= live
  /\ stack[cur][i] # NoCtx
  /\ state[stack[cur][i]] = "suspended"
  /\ Start(stack[cur][i], a)

\* The nearest caller runs again.
Back ==
  /\ cur' = Head(callers)
  /\ callers' = Tail(callers)
  /\ live' = high[Head(callers)]

\* Mutant of Yield: the mark of the context that is left is not saved.
YieldUnsaved ==
  /\ Running /\ bases = <<>>
  /\ callers # <<>> /\ state[Head(callers)] = "normal"
  /\ Back
  /\ state' = [state EXCEPT ![cur] = "suspended", ![Head(callers)] = "running"]
  /\ UNCHANGED <<owner, begun, stack, glob, main, bases, exec, high>>

\* yield and StopCoroutine(false).
Yield ==
  /\ Running /\ bases = <<>>
  /\ callers # <<>> /\ state[Head(callers)] = "normal"
  /\ Back
  /\ state' = [state EXCEPT ![cur] = "suspended", ![Head(callers)] = "running"]
  /\ high' = [high EXCEPT ![cur] = live]
  /\ UNCHANGED <<owner, begun, stack, glob, main, bases, exec>>

\* The body ends, or coroutine.close() on itself: StopCoroutine(true).
Finish ==
  /\ Running /\ bases = <<>>
  /\ callers # <<>> /\ state[Head(callers)] = "normal"
  /\ Back
  /\ state' = [state EXCEPT ![cur] = "dead", ![Head(callers)] = "running"]
  /\ Settle(Cleared(stack, {cur}, [high EXCEPT ![cur] = live]),
            glob, [high EXCEPT ![cur] = 0], owner)
  /\ UNCHANGED <<begun, main, bases, exec>>

\* DeadCoroutine: the registers are cleared up to the saved mark.
Kill(c) ==
  /\ state' = [state EXCEPT ![c] = "dead"]
  /\ Settle(Cleared(stack, {c}, high), glob, [high EXCEPT ![c] = 0], owner)

\* Mutant of CloseSuspended: a coroutine that waits is taken for a suspended one.
CloseSuspendedAny(i) ==
  /\ Running /\ bases = <<>> /\ i <= live
  /\ stack[cur][i] # NoCtx
  /\ state[stack[cur][i]] \in {"suspended", "normal"}
  /\ Kill(stack[cur][i])
  /\ UNCHANGED <<begun, runVars>>

\* coroutine.close of a suspended coroutine; of a dead one it does nothing.
CloseSuspended(i) ==
  /\ Running /\ bases = <<>> /\ i <= live
  /\ stack[cur][i] # NoCtx /\ state[stack[cur][i]] = "suspended"
  /\ Kill(stack[cur][i])
  /\ UNCHANGED <<begun, runVars>>

\* coroutine.close of a coroutine that waits for this one: it dies where it
\* is and leaves m_sCoroutines.  Nothing holds the contexts that are in use.
CloseCaller(i) ==
  /\ Running /\ bases = <<>> /\ i <= live
  /\ stack[cur][i] # NoCtx /\ state[stack[cur][i]] = "normal"
  /\ callers' = RemoveFirst(callers, stack[cur][i])
  /\ Kill(stack[cur][i])
  /\ UNCHANGED <<begun, cur, main, live, bases, exec>>

-----------------------------------------------------------------------------
Init ==
  /\ owner = [c \in Ctx |-> "pool"]
  /\ state = [c \in Ctx |-> "running"]
  /\ begun = [c \in Ctx |-> FALSE]
  /\ stack = [c \in Ctx |-> [i \in Reg |-> NoCtx]]
  /\ high = [c \in Ctx |-> 0]
  /\ glob = [g \in Glob |-> NoCtx]
  /\ cur = NoCtx /\ main = NoCtx /\ callers = <<>>
  /\ live = 0 /\ bases = <<>> /\ exec = "idle"

Host ==
  \/ \E c \in Ctx, h \in Reg : Begin(c, h)
  \/ Fail
  \/ Cancel
  \/ EndHostCall
  \/ Complete
  \/ \E s \in {"running", "suspended"} : CompleteKeeping(s)
  \/ Stop
  \/ Continue

Script ==
  \/ Enter
  \/ Leave
  \/ LeaveFrame
  \/ Grow
  \/ \E c \in Ctx, i \in Reg : Create(c, i)
  \/ \E i, j \in Reg : Copy(i, j)
  \/ \E i \in Reg, g \in Glob : Store(i, g)
  \/ \E i \in Reg, g \in Glob : Load(g, i)
  \/ \E i \in Reg : Clear(i)

Switch ==
  \/ \E i \in Reg, a \in 0 .. Regs : Resume(i, a)
  \/ Yield
  \/ Finish
  \/ \E i \in Reg : CloseSuspended(i)
  \/ \E i \in Reg : CloseCaller(i)

Next == Host \/ Script \/ Switch

Spec == Init /\ [][Next]_vars

-----------------------------------------------------------------------------
(* Properties                                                              *)

\* Every variable has its type.
TypeOK ==
  /\ owner \in [Ctx -> {"pool", "main", "script"}]
  /\ state \in [Ctx -> States]
  /\ begun \in [Ctx -> BOOLEAN]
  /\ stack \in [Ctx -> [Reg -> Ctx \cup {NoCtx}]]
  /\ high \in [Ctx -> 0 .. Regs]
  /\ glob \in [Glob -> Ctx \cup {NoCtx}]
  /\ cur \in Ctx \cup {NoCtx} /\ main \in Ctx \cup {NoCtx}
  /\ callers \in Seq(Ctx)
  /\ live \in 0 .. Regs
  /\ bases \in Seq(0 .. Regs)
  /\ exec \in {"idle", "in", "stopped", "done"}

\* Exactly the current context is running and exactly its chain of callers is
\* normal, each once, down to the main context.  An execution that was given up
\* leaves no coroutine behind that waits for one that is gone: every one a script
\* still holds can be resumed or is dead.
OneRunning ==
  /\ exec = "in" =>
       /\ \A c \in Ctx : owner[c] # "pool" =>
            /\ state[c] = "running" <=> c = cur
            /\ state[c] = "normal"  <=> c \in ToSet(callers)
       /\ \A i, j \in DOMAIN callers : callers[i] = callers[j] => i = j
       /\ IF callers = <<>> THEN cur = main ELSE Last(callers) = main
  /\ exec = "idle" =>
       \A c \in Ctx : owner[c] = "script" => state[c] \in {"suspended", "dead"}

\* A context in the pool has no reference left in its stack.  Acquire does not
\* look, so one left behind would turn up as a register of another coroutine.
\* (This and the next two are said of defined behaviour only.)
PooledClean == ActiveKept =>
  \A c \in Ctx : owner[c] = "pool" => \A i \in Reg : stack[c][i] = NoCtx

\* No reference hides above the mark up to which a context is cleared.
NothingAboveMark == ActiveKept =>
  \A c \in Ctx : \A i \in Reg :
    stack[c][i] # NoCtx =>
      i <= IF c = cur THEN (IF exec = "done" THEN 1 ELSE live) ELSE high[c]

\* A slot refers to a coroutine, never to a node in the pool or a main context.
SlotsNameCoroutines == ActiveKept =>
  /\ \A c \in Ctx, i \in Reg : stack[c][i] # NoCtx => owner[stack[c][i]] = "script"
  /\ \A g \in Glob : glob[g] # NoCtx => owner[glob[g]] = "script"

\* What each stage of an execution has settled.  A worker has at most one main
\* context; whenever the interpreter is not on the stack, no native frame is
\* below it and every context in use is kept.
StageSound ==
  /\ exec = "idle" => cur = NoCtx /\ main = NoCtx /\ callers = <<>>
  /\ exec # "idle" => cur # NoCtx /\ main # NoCtx /\ owner[main] = "main"
  /\ \A c \in Ctx : owner[c] = "main" => c = main
  /\ exec # "in" => bases = <<>> /\ ActiveKept
  /\ exec = "done" => cur = main

\* The chain of an execution, also while it is stopped.
ChainSound ==
  /\ exec # "idle" =>
       /\ IsInjective(callers) /\ cur \notin ToSet(callers)
       /\ IF callers = <<>> THEN cur = main ELSE Last(callers) = main
  /\ exec \in {"in", "stopped"} =>
       \A c \in Ctx : owner[c] # "pool" =>
         /\ state[c] = "running" <=> c = cur
         /\ state[c] = "normal"  <=> c \in ToSet(callers)
  /\ exec \in {"idle", "done"} =>
       \A c \in Ctx : owner[c] = "script" => state[c] \in {"suspended", "dead"}

\* Every context in use has been started, and a coroutine that never was has
\* nothing on its stack: its first resume sets the mark to one.
FreshClean == ActiveKept =>
  /\ \A c \in InUse : begun[c]
  /\ \A c \in Ctx : owner[c] = "script" /\ ~begun[c] => \A i \in Reg : stack[c][i] = NoCtx

\* The inductive invariant: the stages and the chain are what make the three
\* statements about stacks survive each step, and they follow from nothing less.
ContextsInv ==
  /\ TypeOK
  /\ StageSound
  /\ ChainSound
  /\ PooledClean
  /\ NothingAboveMark
  /\ SlotsNameCoroutines
  /\ FreshClean

\* Nothing holds m_pCur but the register the resumer named it by.  Resume,
\* yield, the end of a body, native callbacks, errors and cancelling leave every
\* such register and every context in use alone; only closing a waiting caller
\* breaks the chain.
ResumersHold ==
  \A i \in DOMAIN callers : \E r \in Reg :
    stack[callers[i]][r] = IF i = 1 THEN cur ELSE callers[i - 1]
OthersKeepActive ==
  [][ResumersHold => (ResumersHold /\ ActiveKept)' \/ \E i \in Reg : CloseCaller(i)]_vars

\* dead is final: a coroutine that ended or was closed never runs again.
DeadStaysDead ==
  [][\A c \in Ctx :
       owner[c] = "script" /\ state[c] = "dead" /\ owner'[c] = "script"
         => state'[c] = "dead"]_vars

=============================================================================
