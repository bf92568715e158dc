--------------------------- MODULE ContextsProofs ---------------------------
(***************************************************************************)
(* Proofs about Contexts, for every number of contexts, registers, globals *)
(* and nested natives: the inductive invariant ContextsInv, the safety     *)
(* properties that follow from it, and the two action properties.          *)
(***************************************************************************)
EXTENDS Contexts, DataFacts

-----------------------------------------------------------------------------
(* The least set of what is torn down                                      *)

\* Fewer contexts being cleared anchor more.
LEMMA AnchorMonotone ==
  ASSUME NEW st, NEW gl, NEW hi, NEW S, NEW T, T \subseteq S, NEW c,
         Anchored(st, gl, hi, S, c)
  PROVE  Anchored(st, gl, hi, T, c)
BY DEF Anchored

\* A coroutine is freed exactly if nothing but freed coroutines refer to it.
LEMMA FreedIsFixed ==
  ASSUME NEW st, NEW gl, NEW hi, NEW own
  PROVE  /\ Freed(st, gl, hi, own) \subseteq Scripts(own)
         /\ \A c \in Scripts(own) :
              c \in Freed(st, gl, hi, own)
                <=> ~Anchored(st, gl, hi, Freed(st, gl, hi, own), c)
<1> DEFINE F == Freed(st, gl, hi, own)
           Closed(S) == \A d \in Scripts(own) : ~Anchored(st, gl, hi, S, d) => d \in S
<1>1. /\ F \subseteq Scripts(own)
      /\ \A c \in Scripts(own) : c \in F <=> \A S \in SUBSET Scripts(own) : Closed(S) => c \in S
  BY DEF Freed
<1> HIDE DEF F
<1>2. ASSUME NEW c \in Scripts(own), ~Anchored(st, gl, hi, F, c)
      PROVE  c \in F
  <2>1. ASSUME NEW S \in SUBSET Scripts(own), Closed(S)
        PROVE  c \in S
    <3>1. F \subseteq S
      BY <1>1, <2>1
    <3>2. ~Anchored(st, gl, hi, S, c)
      BY <1>2, <3>1, AnchorMonotone
    <3> QED  BY <2>1, <3>2
  <2> QED  BY <1>1, <2>1
<1>3. ASSUME NEW c \in Scripts(own), c \in F, Anchored(st, gl, hi, F, c)
      PROVE  FALSE
  <2> DEFINE S == F \ {c}
  <2>1. S \in SUBSET Scripts(own) /\ S \subseteq F
    BY <1>1
  <2>2. ASSUME NEW d \in Scripts(own), ~Anchored(st, gl, hi, S, d)
        PROVE  d \in S
    <3>1. ~Anchored(st, gl, hi, F, d)
      BY <2>1, <2>2, AnchorMonotone
    <3>2. d \in F /\ d # c
      BY <1>2, <1>3, <3>1
    <3> QED  BY <3>2
  <2>3. c \in S
    BY <1>1, <1>3, <2>1, <2>2
  <2> QED  BY <2>3
<1> QED  BY <1>1, <1>2, <1>3 DEF F

\* A set of coroutines stays if each is referred to from outside what may go.
LEMMA HeldIsKept ==
  ASSUME NEW st, NEW gl, NEW hi, NEW own, NEW K \in SUBSET Ctx,
         \A d \in K : \E x \in Ctx, i \in Reg : st[x][i] = d /\ (x \in Scripts(own) => x \in K)
  PROVE  Freed(st, gl, hi, own) \cap K = {}
<1> DEFINE S == Scripts(own) \ K
<1>1. S \in SUBSET Scripts(own)
  OBVIOUS
<1>2. ASSUME NEW d \in Scripts(own), ~Anchored(st, gl, hi, S, d)
      PROVE  d \in S
  <2>1. d \in K => Anchored(st, gl, hi, S, d)
    BY DEF Anchored
  <2> QED  BY <1>2, <2>1
<1> HIDE DEF S
<1>3. Freed(st, gl, hi, own) \subseteq S
  BY <1>1, <1>2 DEF Freed
<1> QED  BY <1>3 DEF S

-----------------------------------------------------------------------------
(* A release and what follows                                              *)

Slots == [Ctx -> [Reg -> Ctx \cup {NoCtx}]]
Owners == [Ctx -> {"pool", "main", "script"}]

Clean(st, own) == \A c \in Ctx : own[c] = "pool" => \A i \in Reg : st[c][i] = NoCtx
Named(st, gl, own) ==
  /\ \A c \in Ctx, i \in Reg : st[c][i] # NoCtx => own[st[c][i]] = "script"
  /\ \A g \in Glob : gl[g] # NoCtx => own[gl[g]] = "script"

\* Only what has been started has something on its stack.
Fresh(st, own, bg) ==
  \A c \in Ctx : own[c] = "script" /\ ~bg[c] => \A i \in Reg : st[c][i] = NoCtx

\* What Settle does to owners, marks and stacks, of any context.
LEMMA SettleFacts ==
  ASSUME NEW st \in Slots, NEW gl \in [Glob -> Ctx \cup {NoCtx}],
         NEW hi \in [Ctx -> 0 .. Regs], NEW own \in Owners, Settle(st, gl, hi, own)
  PROVE  /\ stack' \in Slots /\ glob' = gl /\ high' \in [Ctx -> 0 .. Regs] /\ owner' \in Owners
         /\ \A c \in Ctx : c \in Freed(st, gl, hi, own) => own[c] = "script" /\ owner'[c] = "pool"
         /\ \A c \in Ctx : c \notin Freed(st, gl, hi, own) =>
              owner'[c] = own[c] /\ stack'[c] = st[c] /\ high'[c] = hi[c]
         /\ \A c \in Ctx : c \in Freed(st, gl, hi, own) =>
              \A i \in Reg : stack'[c][i] = IF i <= hi[c] THEN NoCtx ELSE st[c][i]
         /\ \A c \in Ctx : owner'[c] = own[c] \/ (own[c] = "script" /\ owner'[c] = "pool")
<1> DEFINE F == Freed(st, gl, hi, own)
<1>0. F \subseteq Ctx /\ \A c \in F : own[c] = "script"
  BY FreedIsFixed DEF Scripts
<1>1. /\ stack' = Cleared(st, F, hi) /\ glob' = gl
      /\ high' = [c \in Ctx |-> IF c \in F THEN 0 ELSE hi[c]]
      /\ owner' = [c \in Ctx |-> IF c \in F THEN "pool" ELSE own[c]]
  BY DEF Settle
<1> HIDE DEF F
<1>2. owner' \in Owners
  BY <1>1 DEF Owners
<1>3. high' \in [Ctx -> 0 .. Regs]
  <2>1. 0 \in 0 .. Regs
    BY ContextAssumption
  <2> QED  BY <1>1, <2>1
<1>4. stack' \in Slots
  BY <1>1 DEF Cleared, Slots
<1>5. \A c \in Ctx : c \in F => own[c] = "script" /\ owner'[c] = "pool"
  BY <1>0, <1>1
<1>6. \A c \in Ctx : c \notin F => owner'[c] = own[c] /\ stack'[c] = st[c] /\ high'[c] = hi[c]
  BY <1>1 DEF Cleared
<1>7. \A c \in Ctx : c \in F => \A i \in Reg : stack'[c][i] = IF i <= hi[c] THEN NoCtx ELSE st[c][i]
  BY <1>1 DEF Cleared
<1> QED  BY <1>1, <1>2, <1>3, <1>4, <1>5, <1>6, <1>7 DEF F

\* A step that ends in Settle leaves pooled stacks clean, marks above every
\* reference and references to coroutines, if what it settles was so.
LEMMA SettleStep ==
  ASSUME NEW st \in Slots, NEW gl \in [Glob -> Ctx \cup {NoCtx}],
         NEW hi \in [Ctx -> 0 .. Regs], NEW own \in Owners, Settle(st, gl, hi, own),
         Clean(st, own), Named(st, gl, own), Fresh(st, own, begun'),
         ActiveKept' => \A c \in InUse' : begun'[c],
         cur' \in Ctx => \A i \in Reg : st[cur'][i] # NoCtx =>
                           i <= IF exec' = "done" THEN 1 ELSE live',
         \A c \in Ctx : c # cur' => \A i \in Reg : st[c][i] # NoCtx => i <= hi[c]
  PROVE  (PooledClean /\ NothingAboveMark /\ SlotsNameCoroutines /\ FreshClean)'
<1> DEFINE F == Freed(st, gl, hi, own)
<1> SUFFICES ASSUME ActiveKept'
             PROVE  PooledClean' /\ NothingAboveMark' /\ SlotsNameCoroutines' /\ FreshClean'
  BY DEF PooledClean, NothingAboveMark, SlotsNameCoroutines, FreshClean
<1>1. /\ stack' \in Slots /\ glob' = gl
      /\ \A c \in Ctx : c \in F => own[c] = "script" /\ owner'[c] = "pool"
      /\ \A c \in Ctx : c \notin F => owner'[c] = own[c] /\ stack'[c] = st[c] /\ high'[c] = hi[c]
      /\ \A c \in Ctx : c \in F =>
           \A i \in Reg : stack'[c][i] = IF i <= hi[c] THEN NoCtx ELSE st[c][i]
  BY SettleFacts
<1>2. \A c \in Scripts(own) : c \in F <=> ~Anchored(st, gl, hi, F, c)
  BY FreedIsFixed
<1> HIDE DEF F
<1>3. \A c \in F : c \in Ctx => c # cur'
  BY <1>1, ContextAssumption DEF ActiveKept, InUse
<1>4. \A c \in Ctx : c \in F => \A i \in Reg : stack'[c][i] = NoCtx
  BY <1>1, <1>3
<1>5. Clean(stack', owner')
  BY <1>1, <1>4 DEF Clean
<1>6. Named(stack', glob', owner')
  <2>1. ASSUME NEW c \in Ctx, NEW i \in Reg, stack'[c][i] # NoCtx
        PROVE  owner'[stack'[c][i]] = "script"
    <3>1. c \notin F /\ stack'[c][i] = st[c][i]
      BY <1>1, <1>4, <2>1
    <3>2. st[c][i] \in Ctx /\ own[st[c][i]] = "script"
      BY <2>1, <3>1 DEF Named, Slots
    <3>3. Anchored(st, gl, hi, F, st[c][i])
      BY <3>1 DEF Anchored
    <3>4. st[c][i] \notin F
      BY <1>2, <3>2, <3>3 DEF Scripts
    <3> QED  BY <1>1, <3>1, <3>2, <3>4
  <2>2. ASSUME NEW g \in Glob, glob'[g] # NoCtx
        PROVE  owner'[glob'[g]] = "script"
    <3>1. gl[g] \in Ctx /\ own[gl[g]] = "script"
      BY <1>1, <2>2 DEF Named
    <3>2. gl[g] \notin F
      BY <1>2, <3>1 DEF Scripts, Anchored
    <3> QED  BY <1>1, <3>1, <3>2
  <2> QED  BY <2>1, <2>2 DEF Named
<1>7. NothingAboveMark'
  <2>1. ASSUME NEW c \in Ctx, NEW i \in Reg, stack'[c][i] # NoCtx
        PROVE  i <= IF c = cur' THEN (IF exec' = "done" THEN 1 ELSE live') ELSE high'[c]
    <3>1. c \notin F /\ stack'[c][i] = st[c][i] /\ high'[c] = hi[c]
      BY <1>1, <1>4, <2>1
    <3> QED  BY <2>1, <3>1
  <2> QED  BY <2>1 DEF NothingAboveMark
<1>8. FreshClean'
  <2>1. ASSUME NEW c \in Ctx, owner'[c] = "script", ~begun'[c], NEW i \in Reg
        PROVE  stack'[c][i] = NoCtx
    BY <2>1, <1>1, <1>4 DEF Fresh
  <2> QED  BY <2>1 DEF FreshClean
<1> QED  BY <1>5, <1>6, <1>7, <1>8 DEF PooledClean, SlotsNameCoroutines, Clean, Named

-----------------------------------------------------------------------------
(* Facts about an execution                                                *)

\* While an execution exists and is kept: who is in its chain, and in which
\* state the contexts are.
LEMMA ChainFacts ==
  ASSUME ContextsInv, exec # "idle", ActiveKept
  PROVE  /\ cur \in Ctx /\ main \in Ctx /\ cur # NoCtx /\ main # NoCtx
         /\ owner[cur] # "pool" /\ owner[main] = "main"
         /\ \A c \in ToSet(callers) : c \in Ctx /\ c # NoCtx /\ owner[c] # "pool" /\ c # cur
         /\ \A c \in Ctx : owner[c] = "main" => c = main
         /\ callers # <<>> => cur # main /\ owner[cur] = "script"
         /\ callers = <<>> => cur = main
         /\ main \in {cur} \cup ToSet(callers)
         /\ Clean(stack, owner) /\ Named(stack, glob, owner) /\ Fresh(stack, owner, begun)
         /\ begun[cur] /\ begun[main] /\ \A c \in ToSet(callers) : begun[c]
<1>1. /\ cur # NoCtx /\ main # NoCtx /\ owner[main] = "main"
      /\ \A c \in Ctx : owner[c] = "main" => c = main
  BY DEF ContextsInv, StageSound
<1>2. /\ cur \in Ctx /\ main \in Ctx /\ callers \in Seq(Ctx) /\ owner \in Owners
  BY <1>1 DEF ContextsInv, TypeOK, Owners
<1>3. /\ IsInjective(callers) /\ cur \notin ToSet(callers)
      /\ IF callers = <<>> THEN cur = main ELSE Last(callers) = main
  BY DEF ContextsInv, ChainSound
<1>4. ToSet(callers) \subseteq Ctx
  BY <1>2 DEF ToSet
<1>5. \A c \in ToSet(callers) \cup {cur} : owner[c] # "pool"
  BY <1>1, <1>2, <1>4, ContextAssumption DEF ActiveKept, InUse
<1>6. callers # <<>> => Last(callers) \in ToSet(callers)
  BY <1>2, FrontFacts
<1>7. callers # <<>> => cur # main /\ owner[cur] = "script"
  BY <1>1, <1>2, <1>3, <1>5, <1>6 DEF Owners
<1>8. Clean(stack, owner) /\ Named(stack, glob, owner) /\ Fresh(stack, owner, begun)
  BY DEF ContextsInv, PooledClean, SlotsNameCoroutines, FreshClean, Clean, Named, Fresh
<1>9. \A c \in {cur, main} \cup ToSet(callers) : begun[c]
  BY <1>1, <1>2, <1>4, ContextAssumption DEF ContextsInv, FreshClean, InUse
<1> QED  BY <1>1, <1>2, <1>3, <1>4, <1>5, <1>6, <1>7, <1>8, <1>9, ContextAssumption

\* While the interpreter runs.
LEMMA RunFacts ==
  ASSUME ContextsInv, Running
  PROVE  /\ exec = "in" /\ exec # "idle" /\ ActiveKept
         /\ \A c \in Ctx : owner[c] # "pool" =>
              /\ state[c] = "running" <=> c = cur
              /\ state[c] = "normal"  <=> c \in ToSet(callers)
         /\ \A c \in Ctx, i \in Reg : stack[c][i] # NoCtx =>
              i <= IF c = cur THEN live ELSE high[c]
<1>1. exec = "in" /\ ActiveKept
  BY DEF Running
<1>2. \A c \in Ctx : owner[c] # "pool" =>
        /\ state[c] = "running" <=> c = cur
        /\ state[c] = "normal"  <=> c \in ToSet(callers)
  BY <1>1 DEF ContextsInv, ChainSound
<1>3. NothingAboveMark /\ ActiveKept
  BY <1>1 DEF ContextsInv
<1> QED  BY <1>1, <1>2, <1>3 DEF NothingAboveMark

-----------------------------------------------------------------------------
(* Steps that settle nothing                                               *)

\* A call of the host takes a node of the pool.
LEMMA BeginStep ==
  ASSUME ContextsInv, NEW c \in Ctx, NEW h \in Reg, Begin(c, h)
  PROVE  ContextsInv'
<1>1. /\ exec = "idle" /\ owner[c] = "pool"
      /\ owner' = [owner EXCEPT ![c] = "main"] /\ state' = [state EXCEPT ![c] = "running"]
      /\ begun' = [begun EXCEPT ![c] = TRUE] /\ main' = c /\ cur' = c /\ callers' = <<>>
      /\ live' = h /\ exec' = "in"
      /\ stack' = stack /\ high' = high /\ glob' = glob /\ bases' = bases
  BY DEF Begin, Idle
<1>2. TypeOK /\ StageSound /\ ChainSound /\ ActiveKept
  BY <1>1 DEF ContextsInv, StageSound
<1>3. TypeOK'
  BY <1>1, <1>2, ContextAssumption DEF TypeOK, Reg, States
<1>4. /\ \A x \in Ctx : owner[x] # "main"
      /\ \A x \in Ctx : x # c => owner'[x] = owner[x] /\ state'[x] = state[x]
      /\ owner'[c] = "main" /\ state'[c] = "running" /\ c # NoCtx
  BY <1>1, <1>2, ContextAssumption DEF StageSound, TypeOK
<1>5. StageSound'
  BY <1>1, <1>2, <1>4 DEF StageSound
<1>6. ToSet(callers') = {} /\ IsInjective(callers')
  BY <1>1 DEF ToSet, IsInjective
<1>7. ASSUME NEW x \in Ctx, owner'[x] # "pool"
      PROVE  /\ state'[x] = "running" <=> x = cur'
             /\ state'[x] = "normal"  <=> x \in ToSet(callers')
  <2>1. CASE x = c
    BY <2>1, <1>1, <1>4, <1>6
  <2>2. CASE x # c
    <3>1. owner[x] = "script"
      BY <2>2, <1>2, <1>4, <1>7 DEF TypeOK
    <3> QED  BY <3>1, <2>2, <1>1, <1>2, <1>4, <1>6 DEF ChainSound
  <2> QED  BY <2>1, <2>2
<1>8. ChainSound'
  BY <1>1, <1>6, <1>7 DEF ChainSound
<1>9. PooledClean /\ NothingAboveMark /\ SlotsNameCoroutines
  BY DEF ContextsInv
<1>10. PooledClean'
  BY <1>1, <1>2, <1>4, <1>9 DEF PooledClean
<1>11. NothingAboveMark'
  <2>1. \A i \in Reg : stack[c][i] = NoCtx
    BY <1>1, <1>2, <1>9 DEF PooledClean
  <2>2. cur = NoCtx
    BY <1>1, <1>2 DEF StageSound
  <2> QED  BY <2>1, <2>2, <1>1, <1>2, <1>9, ContextAssumption DEF NothingAboveMark
<1>12. SlotsNameCoroutines'
  <2>1. /\ \A x \in Ctx, i \in Reg : stack[x][i] # NoCtx => stack[x][i] \in Ctx
        /\ \A g \in Glob : glob[g] # NoCtx => glob[g] \in Ctx
    BY <1>2 DEF TypeOK
  <2>2. \A x \in Ctx : owner[x] = "script" => owner'[x] = "script"
    BY <1>1, <1>4
  <2> QED  BY <2>1, <2>2, <1>1, <1>2, <1>9 DEF SlotsNameCoroutines
<1>13. FreshClean'
  <2>1. begun'[c] /\ \A x \in Ctx : x # c => begun'[x] = begun[x]
    BY <1>1, <1>2 DEF TypeOK
  <2>2. \A x \in InUse' : x = c
    BY <1>1, <1>6 DEF InUse
  <2>3. FreshClean
    BY DEF ContextsInv
  <2> QED  BY <2>1, <2>2, <2>3, <1>1, <1>2, <1>4 DEF FreshClean
<1> QED  BY <1>3, <1>5, <1>8, <1>10, <1>11, <1>12, <1>13 DEF ContextsInv

\* Nothing moves but the marks and the stage: Stop, Continue, Enter, LeaveFrame
\* and Grow.
LEMMA MarkStep ==
  ASSUME ContextsInv, ActiveKept, exec \in {"in", "stopped"},
         UNCHANGED <<ctxVars, cur, main, callers>>,
         exec' \in {"in", "stopped"}, live' \in 0 .. Regs, live <= live',
         bases' \in Seq(0 .. Regs), exec' # "in" => bases' = <<>>
  PROVE  ContextsInv'
<1>1. /\ owner' = owner /\ state' = state /\ begun' = begun /\ stack' = stack /\ high' = high
      /\ glob' = glob /\ cur' = cur /\ main' = main /\ callers' = callers
  BY DEF ctxVars
<1>2. TypeOK /\ StageSound /\ ChainSound /\ PooledClean /\ NothingAboveMark /\ SlotsNameCoroutines
      /\ FreshClean
  BY DEF ContextsInv
<1>3. TypeOK'
  BY <1>1, <1>2 DEF TypeOK
<1>4. ActiveKept'
  BY <1>1 DEF ActiveKept, InUse
<1>5. StageSound'
  BY <1>1, <1>2, <1>4 DEF StageSound
<1>6. ChainSound'
  BY <1>1, <1>2 DEF ChainSound
<1>7. PooledClean' /\ SlotsNameCoroutines' /\ FreshClean'
  <2>1. InUse' = InUse
    BY <1>1 DEF InUse
  <2> QED  BY <2>1, <1>1, <1>2, <1>4 DEF PooledClean, SlotsNameCoroutines, FreshClean, ActiveKept
<1>8. NothingAboveMark'
  <2>1. live \in Int /\ live' \in Int /\ \A i \in Reg : i \in Int
    BY <1>2, ContextAssumption DEF TypeOK, Reg
  <2>2. \A c \in Ctx, i \in Reg : stack[c][i] # NoCtx => i <= IF c = cur THEN live ELSE high[c]
    BY <1>2 DEF NothingAboveMark
  <2>3. \A c \in Ctx, i \in Reg : stack[c][i] # NoCtx => i <= IF c = cur THEN live' ELSE high[c]
    BY <2>1, <2>2
  <2> QED  BY <2>3, <1>1 DEF NothingAboveMark
<1> QED  BY <1>3, <1>5, <1>6, <1>7, <1>8 DEF ContextsInv

LEMMA StopStep == ASSUME ContextsInv, Stop  PROVE ContextsInv'
<1>1. exec = "in" /\ ActiveKept /\ exec' = "stopped" /\ live' = live /\ bases' = bases /\ bases = <<>>
      /\ UNCHANGED <<ctxVars, cur, main, callers>>
  BY DEF Stop, Running
<1>2. live \in 0 .. Regs /\ live <= live /\ bases \in Seq(0 .. Regs)
  BY ContextAssumption DEF ContextsInv, TypeOK
<1> QED  BY <1>1, <1>2, MarkStep

LEMMA ContinueStep == ASSUME ContextsInv, Continue  PROVE ContextsInv'
<1>1. exec = "stopped" /\ exec' = "in" /\ live' = live /\ bases' = bases
      /\ UNCHANGED <<ctxVars, cur, main, callers>>
  BY DEF Continue
<1>2. live \in 0 .. Regs /\ live <= live /\ bases \in Seq(0 .. Regs) /\ ActiveKept
  BY <1>1, ContextAssumption DEF ContextsInv, TypeOK, StageSound
<1> QED  BY <1>1, <1>2, MarkStep

LEMMA EnterStep == ASSUME ContextsInv, Enter  PROVE ContextsInv'
<1>1. exec = "in" /\ ActiveKept /\ exec' = exec /\ live' = live /\ bases' = Append(bases, live)
      /\ UNCHANGED <<ctxVars, cur, main, callers>>
  BY DEF Enter, Running
<1>2. live \in 0 .. Regs /\ live <= live /\ bases \in Seq(0 .. Regs)
  BY ContextAssumption DEF ContextsInv, TypeOK
<1>3. bases' \in Seq(0 .. Regs)
  BY <1>1, <1>2
<1> QED  BY <1>1, <1>2, <1>3, MarkStep

LEMMA LeaveFrameStep == ASSUME ContextsInv, LeaveFrame  PROVE ContextsInv'
<1>1. exec = "in" /\ ActiveKept /\ exec' = exec /\ live' = live /\ bases' = Front(bases) /\ bases # <<>>
      /\ UNCHANGED <<ctxVars, cur, main, callers>>
  BY DEF LeaveFrame, Running
<1>2. live \in 0 .. Regs /\ live <= live /\ bases \in Seq(0 .. Regs)
  BY ContextAssumption DEF ContextsInv, TypeOK
<1>3. bases' \in Seq(0 .. Regs)
  BY <1>1, <1>2, FrontFacts
<1> QED  BY <1>1, <1>2, <1>3, MarkStep

LEMMA GrowStep == ASSUME ContextsInv, Grow  PROVE ContextsInv'
<1>1. exec = "in" /\ ActiveKept /\ exec' = exec /\ live' = live + 1 /\ bases' = bases /\ live < Regs
      /\ UNCHANGED <<ctxVars, cur, main, callers>>
  BY DEF Grow, Running
<1>2. live \in 0 .. Regs /\ bases \in Seq(0 .. Regs)
  BY DEF ContextsInv, TypeOK
<1>3. live' \in 0 .. Regs /\ live <= live'
  BY <1>1, <1>2, ContextAssumption
<1> QED  BY <1>1, <1>2, <1>3, MarkStep

-----------------------------------------------------------------------------
(* Steps of the interpreter that release something                         *)

\* A chain of callers from the running context down to the main one.
ChainOf(c, cs) ==
  /\ c \in Ctx /\ cs \in Seq(Ctx) /\ IsInjective(cs) /\ c \notin ToSet(cs)
  /\ IF cs = <<>> THEN c = main ELSE Last(cs) = main

\* The states of the contexts in use tell the chain.
StatesOf(st, own, c, cs) ==
  /\ st \in [Ctx -> States]
  /\ \A x \in Ctx : own[x] # "pool" =>
       /\ st[x] = "running" <=> x = c
       /\ st[x] = "normal"  <=> x \in ToSet(cs)

\* No reference above the mark m of the running context or a saved one.
Marked(st, hi, c, m) ==
  \A x \in Ctx, i \in Reg : st[x][i] # NoCtx => i <= IF x = c THEN m ELSE hi[x]

\* Every context in use was started.
Started(bg, c, cs) ==
  /\ bg \in [Ctx -> BOOLEAN] /\ bg[c] /\ \A x \in ToSet(cs) : bg[x]

\* Owners with the one main context.
OneMain(own) ==
  /\ own \in Owners /\ own[main] = "main"
  /\ \A c \in Ctx : own[c] = "main" => c = main

LEMMA ChainNow ==
  ASSUME ContextsInv, Running
  PROVE  /\ ChainOf(cur, callers) /\ StatesOf(state, owner, cur, callers)
         /\ Marked(stack, high, cur, live) /\ OneMain(owner)
         /\ stack \in Slots /\ glob \in [Glob -> Ctx \cup {NoCtx}] /\ high \in [Ctx -> 0 .. Regs]
         /\ live \in 0 .. Regs /\ bases \in Seq(0 .. Regs)
         /\ Clean(stack, owner) /\ Named(stack, glob, owner) /\ Fresh(stack, owner, begun)
         /\ Started(begun, cur, callers)
<1>1. TypeOK /\ exec = "in" /\ ChainSound
  BY RunFacts DEF ContextsInv
<1>2. ChainOf(cur, callers)
  BY <1>1, ChainFacts, RunFacts DEF ChainOf, ChainSound, TypeOK
<1>3. StatesOf(state, owner, cur, callers)
  BY <1>1, RunFacts DEF StatesOf, TypeOK
<1>4. Marked(stack, high, cur, live)
  BY RunFacts DEF Marked
<1>5. OneMain(owner)
  BY <1>1, ChainFacts, RunFacts DEF OneMain, Owners, TypeOK
<1>6. Clean(stack, owner) /\ Named(stack, glob, owner) /\ Fresh(stack, owner, begun)
  BY ChainFacts, RunFacts
<1>7. Started(begun, cur, callers)
  BY <1>1, ChainFacts, RunFacts DEF Started, TypeOK
<1> QED  BY <1>1, <1>2, <1>3, <1>4, <1>5, <1>6, <1>7 DEF TypeOK, Slots

\* Whatever a step of the interpreter settles: if the chain it leaves, the
\* states, the marks and the references agree before the release, the
\* invariant holds after it.
LEMMA RunStep ==
  ASSUME ContextsInv, Running, main' = main, exec' = "in",
         NEW st \in Slots, NEW gl \in [Glob -> Ctx \cup {NoCtx}],
         NEW hi \in [Ctx -> 0 .. Regs], NEW own, Settle(st, gl, hi, own),
         ChainOf(cur', callers'), StatesOf(state', own, cur', callers'),
         Marked(st, hi, cur', live'), OneMain(own), Clean(st, own), Named(st, gl, own),
         Fresh(st, own, begun'), Started(begun', cur', callers'), live' \in 0 .. Regs, bases' \in Seq(0 .. Regs)
  PROVE  ContextsInv'
<1>0. exec = "in" /\ ActiveKept /\ main \in Ctx /\ main # NoCtx /\ own \in Owners
  BY RunFacts, ChainFacts DEF OneMain
<1>1. /\ stack' \in Slots /\ glob' = gl /\ high' \in [Ctx -> 0 .. Regs] /\ owner' \in Owners
      /\ \A c \in Ctx : owner'[c] = own[c] \/ (own[c] = "script" /\ owner'[c] = "pool")
  BY <1>0, SettleFacts
<1>2. TypeOK'
  BY <1>0, <1>1 DEF TypeOK, Slots, Owners, ChainOf, StatesOf, Started
<1>3. owner'[main] = "main" /\ \A c \in Ctx : owner'[c] = "main" => c = main
  BY <1>0, <1>1 DEF OneMain
<1>4. StageSound'
  BY <1>0, <1>3, ContextAssumption DEF StageSound, ChainOf
<1>5. \A c \in Ctx : owner'[c] # "pool" => own[c] # "pool"
  BY <1>1
<1>6. ChainSound'
  BY <1>0, <1>5 DEF ChainSound, ChainOf, StatesOf
<1>7. main \in {cur'} \cup ToSet(callers')
  BY FrontFacts DEF ChainOf
<1>8. (PooledClean /\ NothingAboveMark /\ SlotsNameCoroutines /\ FreshClean)'
  <2>1. \A i \in Reg : st[cur'][i] # NoCtx => i <= IF exec' = "done" THEN 1 ELSE live'
    BY DEF Marked, ChainOf
  <2>2. \A c \in Ctx : c # cur' => \A i \in Reg : st[c][i] # NoCtx => i <= hi[c]
    BY DEF Marked
  <2>3. \A c \in InUse' : begun'[c]
    BY <1>7 DEF Started, InUse
  <2> QED  BY <2>1, <2>2, <2>3, <1>0, SettleStep
<1> QED  BY <1>2, <1>4, <1>6, <1>8 DEF ContextsInv

\* A register of the running context gets a reference the script has, or none.
LEMMA RegisterStep ==
  ASSUME ContextsInv, Running, NEW j \in Reg, j <= live, NEW v \in Ctx \cup {NoCtx},
         v # NoCtx => owner[v] = "script",
         Settle([stack EXCEPT ![cur][j] = v], glob, high, owner),
         UNCHANGED <<state, begun, runVars>>
  PROVE  ContextsInv'
<1> DEFINE st == [stack EXCEPT ![cur][j] = v]
<1>0. UNCHANGED <<state, begun, cur, main, callers, live, bases, exec>> /\ exec = "in"
  BY RunFacts DEF runVars
<1>1. /\ ChainOf(cur, callers) /\ StatesOf(state, owner, cur, callers)
      /\ Marked(stack, high, cur, live) /\ OneMain(owner)
      /\ stack \in Slots /\ glob \in [Glob -> Ctx \cup {NoCtx}] /\ high \in [Ctx -> 0 .. Regs]
      /\ live \in 0 .. Regs /\ bases \in Seq(0 .. Regs)
      /\ Clean(stack, owner) /\ Named(stack, glob, owner) /\ Fresh(stack, owner, begun)
      /\ Started(begun, cur, callers)
  BY ChainNow
<1>2. cur \in Ctx /\ owner[cur] # "pool"
  BY RunFacts, ChainFacts
<1>3. /\ st \in Slots
      /\ \A c \in Ctx, i \in Reg : st[c][i] = IF c = cur /\ i = j THEN v ELSE stack[c][i]
  BY <1>1, <1>2 DEF Slots
<1> HIDE DEF st
<1>4. Clean(st, owner) /\ Fresh(st, owner, begun')
  <2>1. Clean(st, owner)
    BY <1>1, <1>2, <1>3 DEF Clean
  <2>2. begun[cur] /\ begun' = begun
    BY <1>0, <1>1 DEF Started
  <2>3. Fresh(st, owner, begun)
    BY <2>2, <1>1, <1>3 DEF Fresh
  <2> QED  BY <2>1, <2>2, <2>3
<1>5. Named(st, glob, owner)
  BY <1>1, <1>3 DEF Named
<1>6. Marked(st, high, cur, live)
  BY <1>1, <1>3 DEF Marked
<1>7. Settle(st, glob, high, owner)
  BY DEF st
<1>8. /\ main' = main /\ exec' = "in" /\ ChainOf(cur', callers')
      /\ StatesOf(state', owner, cur', callers') /\ Marked(st, high, cur', live')
      /\ Started(begun', cur', callers') /\ live' \in 0 .. Regs /\ bases' \in Seq(0 .. Regs)
  BY <1>0, <1>1, <1>6
<1> QED  BY <1>1, <1>3, <1>4, <1>5, <1>7, <1>8, RunStep

LEMMA CopyStep ==
  ASSUME ContextsInv, NEW i \in Reg, NEW j \in Reg, Copy(i, j)
  PROVE  ContextsInv'
<1>1. /\ Running /\ j <= live /\ Settle([stack EXCEPT ![cur][j] = stack[cur][i]], glob, high, owner)
      /\ UNCHANGED <<state, begun, runVars>>
  BY DEF Copy
<1>2. stack \in Slots /\ Named(stack, glob, owner) /\ cur \in Ctx
  BY <1>1, ChainNow, RunFacts, ChainFacts
<1>3. stack[cur][i] \in Ctx \cup {NoCtx} /\ (stack[cur][i] # NoCtx => owner[stack[cur][i]] = "script")
  BY <1>2 DEF Slots, Named
<1> QED  BY <1>1, <1>3, RegisterStep

LEMMA LoadStep ==
  ASSUME ContextsInv, NEW i \in Reg, NEW g \in Glob, Load(g, i)
  PROVE  ContextsInv'
<1>1. /\ Running /\ i <= live /\ Settle([stack EXCEPT ![cur][i] = glob[g]], glob, high, owner)
      /\ UNCHANGED <<state, begun, runVars>>
  BY DEF Load
<1>2. glob \in [Glob -> Ctx \cup {NoCtx}] /\ Named(stack, glob, owner)
  BY <1>1, ChainNow
<1>3. glob[g] \in Ctx \cup {NoCtx} /\ (glob[g] # NoCtx => owner[glob[g]] = "script")
  BY <1>2 DEF Named
<1> QED  BY <1>1, <1>3, RegisterStep

LEMMA ClearStep ==
  ASSUME ContextsInv, NEW i \in Reg, Clear(i)
  PROVE  ContextsInv'
<1>1. /\ Running /\ i <= live /\ Settle([stack EXCEPT ![cur][i] = NoCtx], glob, high, owner)
      /\ UNCHANGED <<state, begun, runVars>>
  BY DEF Clear
<1> QED  BY <1>1, RegisterStep

LEMMA StoreStep ==
  ASSUME ContextsInv, NEW i \in Reg, NEW g \in Glob, Store(i, g)
  PROVE  ContextsInv'
<1> DEFINE gl == [glob EXCEPT ![g] = stack[cur][i]]
<1>0. /\ Running /\ Settle(stack, gl, high, owner)
      /\ UNCHANGED <<state, begun, cur, main, callers, live, bases, exec>>
  BY DEF Store, runVars
<1>1. /\ ChainOf(cur, callers) /\ StatesOf(state, owner, cur, callers)
      /\ Marked(stack, high, cur, live) /\ OneMain(owner)
      /\ stack \in Slots /\ glob \in [Glob -> Ctx \cup {NoCtx}] /\ high \in [Ctx -> 0 .. Regs]
      /\ live \in 0 .. Regs /\ bases \in Seq(0 .. Regs)
      /\ Clean(stack, owner) /\ Named(stack, glob, owner) /\ Fresh(stack, owner, begun)
      /\ Started(begun, cur, callers)
  BY <1>0, ChainNow
<1>2. cur \in Ctx /\ exec = "in"
  BY <1>0, RunFacts, ChainFacts
<1>3. /\ gl \in [Glob -> Ctx \cup {NoCtx}]
      /\ \A k \in Glob : gl[k] = IF k = g THEN stack[cur][i] ELSE glob[k]
  BY <1>1, <1>2 DEF Slots
<1> HIDE DEF gl
<1>4. Named(stack, gl, owner) /\ Fresh(stack, owner, begun')
  BY <1>0, <1>1, <1>2, <1>3 DEF Named
<1>5. /\ main' = main /\ exec' = "in" /\ ChainOf(cur', callers')
      /\ StatesOf(state', owner, cur', callers') /\ Marked(stack, high, cur', live')
      /\ Started(begun', cur', callers') /\ live' \in 0 .. Regs /\ bases' \in Seq(0 .. Regs)
  BY <1>0, <1>1, <1>2
<1> QED  BY <1>0, <1>1, <1>3, <1>4, <1>5, RunStep

-----------------------------------------------------------------------------
(* Chains                                                                  *)

LEMMA ChainIs == \A c, cs : ChainOf(c, cs) <=> WaitChain(Ctx, main, c, cs)
BY DEF ChainOf, WaitChain, Distinct, IsInjective

\* The running context starts another one and waits.
LEMMA ChainGrows ==
  ASSUME NEW c, NEW cs, ChainOf(c, cs), NEW d \in Ctx, d # c, d \notin ToSet(cs)
  PROVE  ChainOf(d, <<c>> \o cs) /\ ToSet(<<c>> \o cs) = ToSet(cs) \cup {c}
BY ChainIs, ChainPushed

\* The nearest caller runs again.
LEMMA ChainShrinks ==
  ASSUME NEW c, NEW cs, ChainOf(c, cs), cs # <<>>
  PROVE  /\ ChainOf(Head(cs), Tail(cs)) /\ Head(cs) \in ToSet(cs)
         /\ ToSet(Tail(cs)) = ToSet(cs) \ {Head(cs)}
BY ChainIs, ChainPopped

\* A context that waits, and is not the main one, leaves the chain.
LEMMA ChainCut ==
  ASSUME NEW c, NEW cs, ChainOf(c, cs), NEW d \in ToSet(cs), d # main
  PROVE  ChainOf(c, RemoveFirst(cs, d)) /\ ToSet(RemoveFirst(cs, d)) = ToSet(cs) \ {d}
BY ChainIs, ChainCutOut

-----------------------------------------------------------------------------
(* More steps of the interpreter that release something                    *)

\* coroutine.create takes a node of the pool.
LEMMA CreateStep ==
  ASSUME ContextsInv, NEW c \in Ctx, NEW i \in Reg, Create(c, i)
  PROVE  ContextsInv'
<1> DEFINE st == [stack EXCEPT ![cur][i] = c]
           own == [owner EXCEPT ![c] = "script"]
<1>0. /\ Running /\ owner[c] = "pool" /\ i <= live /\ Settle(st, glob, high, own)
      /\ state' = [state EXCEPT ![c] = "suspended"] /\ begun' = [begun EXCEPT ![c] = FALSE]
      /\ UNCHANGED <<cur, main, callers, live, bases, exec>>
  BY DEF Create, runVars
<1>1. /\ ChainOf(cur, callers) /\ StatesOf(state, owner, cur, callers)
      /\ Marked(stack, high, cur, live) /\ OneMain(owner)
      /\ stack \in Slots /\ glob \in [Glob -> Ctx \cup {NoCtx}] /\ high \in [Ctx -> 0 .. Regs]
      /\ live \in 0 .. Regs /\ bases \in Seq(0 .. Regs)
      /\ Clean(stack, owner) /\ Named(stack, glob, owner) /\ Fresh(stack, owner, begun)
      /\ Started(begun, cur, callers)
  BY <1>0, ChainNow
<1>2. /\ cur \in Ctx /\ owner[cur] # "pool" /\ exec = "in" /\ c # cur /\ main # c /\ main \in Ctx
      /\ c \notin ToSet(callers) /\ c # NoCtx
  BY <1>0, RunFacts, ChainFacts, ContextAssumption
<1>3. /\ st \in Slots
      /\ \A x \in Ctx, k \in Reg : st[x][k] = IF x = cur /\ k = i THEN c ELSE stack[x][k]
  BY <1>1, <1>2 DEF Slots
<1>4. /\ own \in Owners /\ own[c] = "script"
      /\ \A x \in Ctx : x # c => own[x] = owner[x]
  BY <1>1 DEF Owners, OneMain
<1> HIDE DEF st, own
<1>5. OneMain(own)
  BY <1>1, <1>2, <1>4 DEF OneMain
<1>6. Clean(st, own) /\ Fresh(st, own, begun') /\ Started(begun', cur, callers)
  <2>1. begun' \in [Ctx -> BOOLEAN] /\ \A x \in Ctx : x # c => begun'[x] = begun[x]
    BY <1>0, <1>1 DEF Started
  <2>2. \A x \in ToSet(callers) : x \in Ctx
    BY <1>1 DEF ChainOf, ToSet
  <2>3. Started(begun', cur, callers)
    BY <2>1, <2>2, <1>1, <1>2 DEF Started
  <2>4. Clean(st, own)
    BY <1>1, <1>2, <1>3, <1>4 DEF Clean
  <2>5. ASSUME NEW x \in Ctx, own[x] = "script", ~begun'[x], NEW k \in Reg
        PROVE  st[x][k] = NoCtx
    <3>1. x # cur /\ st[x][k] = stack[x][k]
      BY <2>3, <2>5, <1>3 DEF Started
    <3>2. CASE x = c
      BY <3>1, <3>2, <1>0, <1>1 DEF Clean
    <3>3. CASE x # c
      BY <3>1, <3>3, <2>1, <2>5, <1>1, <1>4 DEF Fresh
    <3> QED  BY <3>2, <3>3
  <2> QED  BY <2>3, <2>4, <2>5 DEF Fresh
<1>7. Named(st, glob, own)
  <2>1. ASSUME NEW x \in Ctx, NEW k \in Reg, st[x][k] # NoCtx
        PROVE  own[st[x][k]] = "script"
    <3>1. CASE st[x][k] = c
      BY <3>1, <1>4
    <3>2. CASE st[x][k] # c
      <4>1. st[x][k] = stack[x][k] /\ st[x][k] \in Ctx
        BY <3>2, <2>1, <1>3 DEF Slots
      <4>2. owner[stack[x][k]] = "script"
        BY <4>1, <2>1, <1>1 DEF Named
      <4> QED  BY <3>2, <4>1, <4>2, <1>4
    <3> QED  BY <3>1, <3>2
  <2>2. ASSUME NEW g \in Glob, glob[g] # NoCtx
        PROVE  own[glob[g]] = "script"
    BY <2>2, <1>0, <1>1, <1>4 DEF Named
  <2> QED  BY <2>1, <2>2 DEF Named
<1>8. Marked(st, high, cur, live)
  BY <1>0, <1>1, <1>3 DEF Marked
<1>9. StatesOf(state', own, cur, callers)
  <2>1. /\ state \in [Ctx -> States]
        /\ \A x \in Ctx : x # c => state'[x] = state[x]
    BY <1>0, <1>1 DEF StatesOf
  <2>2. state'[c] = "suspended" /\ state' \in [Ctx -> States]
    BY <1>0, <2>1 DEF States
  <2> QED  BY <2>1, <2>2, <1>1, <1>2, <1>4 DEF StatesOf
<1>10. /\ main' = main /\ exec' = "in" /\ ChainOf(cur', callers')
       /\ StatesOf(state', own, cur', callers') /\ Marked(st, high, cur', live')
       /\ Started(begun', cur', callers') /\ live' \in 0 .. Regs /\ bases' \in Seq(0 .. Regs)
  BY <1>0, <1>1, <1>2, <1>6, <1>8, <1>9
<1> QED  BY <1>0, <1>1, <1>3, <1>5, <1>6, <1>7, <1>10, RunStep

\* A native's call of the script returns: the registers above its mark go.
LEMMA LeaveStep ==
  ASSUME ContextsInv, Leave
  PROVE  ContextsInv'
<1> DEFINE m == Last(bases)
           st == [stack EXCEPT ![cur] = [i \in Reg |-> IF m < i /\ i <= live THEN NoCtx ELSE @[i]]]
<1>0. /\ Running /\ bases # <<>> /\ Settle(st, glob, high, owner)
      /\ bases' = Front(bases) /\ live' = m
      /\ UNCHANGED <<state, begun, cur, main, callers, exec>>
  BY DEF Leave
<1>1. /\ ChainOf(cur, callers) /\ StatesOf(state, owner, cur, callers)
      /\ Marked(stack, high, cur, live) /\ OneMain(owner)
      /\ stack \in Slots /\ glob \in [Glob -> Ctx \cup {NoCtx}] /\ high \in [Ctx -> 0 .. Regs]
      /\ live \in 0 .. Regs /\ bases \in Seq(0 .. Regs)
      /\ Clean(stack, owner) /\ Named(stack, glob, owner) /\ Fresh(stack, owner, begun)
      /\ Started(begun, cur, callers)
  BY <1>0, ChainNow
<1>2. cur \in Ctx /\ exec = "in"
  BY <1>0, RunFacts, ChainFacts
<1>3. m \in 0 .. Regs /\ bases' \in Seq(0 .. Regs)
  BY <1>0, <1>1, FrontFacts
<1> HIDE DEF m
<1>4. /\ st \in Slots
      /\ \A x \in Ctx, k \in Reg :
           st[x][k] = IF x = cur /\ m < k /\ k <= live THEN NoCtx ELSE stack[x][k]
  BY <1>1, <1>2 DEF Slots
<1> HIDE DEF st
<1>5. Clean(st, owner) /\ Named(st, glob, owner) /\ Fresh(st, owner, begun')
  BY <1>0, <1>1, <1>4 DEF Clean, Named, Fresh
<1>6. Marked(st, high, cur, m)
  <2>1. ASSUME NEW x \in Ctx, NEW k \in Reg, st[x][k] # NoCtx
        PROVE  k <= IF x = cur THEN m ELSE high[x]
    <3>1. stack[x][k] # NoCtx /\ ~(x = cur /\ m < k /\ k <= live)
      BY <2>1, <1>4
    <3>2. k <= IF x = cur THEN live ELSE high[x]
      BY <3>1, <1>1 DEF Marked
    <3>3. k \in Int /\ m \in Int
      BY <1>3 DEF Reg
    <3> QED  BY <3>1, <3>2, <3>3
  <2> QED  BY <2>1 DEF Marked
<1>7. /\ main' = main /\ exec' = "in" /\ ChainOf(cur', callers')
      /\ StatesOf(state', owner, cur', callers') /\ Marked(st, high, cur', live')
      /\ Started(begun', cur', callers') /\ live' \in 0 .. Regs /\ bases' \in Seq(0 .. Regs)
  BY <1>0, <1>1, <1>2, <1>3, <1>6
<1> QED  BY <1>0, <1>1, <1>4, <1>5, <1>7, RunStep

\* coroutine.resume of a suspended coroutine.
LEMMA ResumeStep ==
  ASSUME ContextsInv, NEW i \in Reg, NEW a \in 0 .. Regs, Resume(i, a)
  PROVE  ContextsInv'
<1> DEFINE c == stack[cur][i]
           st == IF begun[c] \/ a = 0 THEN stack ELSE [stack EXCEPT ![c][1] = stack[cur][a]]
           hi == [high EXCEPT ![cur] = live]
<1>0. /\ Running /\ c # NoCtx /\ state[c] = "suspended"
      /\ state' = [state EXCEPT ![cur] = "normal", ![c] = "running"]
      /\ callers' = <<cur>> \o callers /\ cur' = c
      /\ begun' = [begun EXCEPT ![c] = TRUE]
      /\ live' = (IF begun[c] THEN high[c] ELSE 1)
      /\ Settle(st, glob, hi, owner)
      /\ UNCHANGED <<main, bases, exec>>
  BY DEF Resume, Start
<1>1. /\ ChainOf(cur, callers) /\ StatesOf(state, owner, cur, callers)
      /\ Marked(stack, high, cur, live) /\ OneMain(owner)
      /\ stack \in Slots /\ glob \in [Glob -> Ctx \cup {NoCtx}] /\ high \in [Ctx -> 0 .. Regs]
      /\ live \in 0 .. Regs /\ bases \in Seq(0 .. Regs)
      /\ Clean(stack, owner) /\ Named(stack, glob, owner) /\ Fresh(stack, owner, begun)
      /\ Started(begun, cur, callers)
  BY <1>0, ChainNow
<1>2. cur \in Ctx /\ exec = "in" /\ owner[cur] # "pool"
  BY <1>0, RunFacts, ChainFacts
<1>3. c \in Ctx /\ owner[c] = "script"
  BY <1>0, <1>1, <1>2 DEF Slots, Named
<1> HIDE DEF c
<1>4. c # cur /\ c \notin ToSet(callers)
  BY <1>0, <1>1, <1>2, <1>3 DEF StatesOf
<1>5. ChainOf(c, <<cur>> \o callers) /\ ToSet(<<cur>> \o callers) = ToSet(callers) \cup {cur}
  BY <1>1, <1>3, <1>4, ChainGrows
<1>6. StatesOf(state', owner, c, <<cur>> \o callers)
  <2>1. state \in [Ctx -> States]
    BY <1>1 DEF StatesOf
  <2>2. /\ state' \in [Ctx -> States] /\ state'[c] = "running" /\ state'[cur] = "normal"
        /\ \A x \in Ctx : x # c /\ x # cur => state'[x] = state[x]
    BY <2>1, <1>0, <1>2, <1>3, <1>4 DEF States
  <2>3. ASSUME NEW x \in Ctx, owner[x] # "pool"
        PROVE  /\ state'[x] = "running" <=> x = c
               /\ state'[x] = "normal"  <=> x \in ToSet(callers) \cup {cur}
    BY <2>2, <2>3, <1>1, <1>4 DEF StatesOf
  <2> QED  BY <2>2, <2>3, <1>5 DEF StatesOf
<1>7. /\ st \in Slots /\ (begun[c] => st = stack)
      /\ \A x \in Ctx, k \in Reg : st[x][k] = stack[x][k]
           \/ (x = c /\ k = 1 /\ a \in Reg /\ st[x][k] = stack[cur][a])
  <2>1. CASE begun[c] \/ a = 0
    BY <2>1, <1>1
  <2>2. CASE ~(begun[c] \/ a = 0)
    <3>1. a \in Reg /\ 1 \in Reg
      BY <2>2, ContextAssumption DEF Reg
    <3>2. stack[cur][a] \in Ctx \cup {NoCtx}
      BY <3>1, <1>1, <1>2 DEF Slots
    <3>3. st = [stack EXCEPT ![c][1] = stack[cur][a]]
      BY <2>2
    <3> HIDE DEF st
    <3> QED  BY <3>1, <3>2, <3>3, <2>2, <1>1, <1>3 DEF Slots
  <2> QED  BY <2>1, <2>2
<1>8. hi \in [Ctx -> 0 .. Regs] /\ hi[cur] = live /\ \A x \in Ctx : x # cur => hi[x] = high[x]
  BY <1>1, <1>2
<1> HIDE DEF st, hi
<1>9. Clean(st, owner)
  BY <1>1, <1>3, <1>7 DEF Clean
<1>14. Fresh(st, owner, begun') /\ Started(begun', c, <<cur>> \o callers)
  <2>1. begun' \in [Ctx -> BOOLEAN] /\ begun'[c] /\ \A x \in Ctx : x # c => begun'[x] = begun[x]
    BY <1>0, <1>1, <1>3 DEF Started
  <2>2. \A x \in ToSet(callers) : x \in Ctx
    BY <1>1 DEF ChainOf, ToSet
  <2>3. Started(begun', c, <<cur>> \o callers)
    BY <2>1, <2>2, <1>1, <1>2, <1>5 DEF Started
  <2> QED  BY <2>1, <2>3, <1>1, <1>7 DEF Fresh
<1>10. Named(st, glob, owner)
  BY <1>1, <1>2, <1>7 DEF Named
<1>11. live' \in 0 .. Regs
  BY <1>0, <1>1, <1>3, ContextAssumption
<1>12. Marked(st, hi, c, live')
  <2>1. ASSUME NEW x \in Ctx, NEW k \in Reg, st[x][k] # NoCtx
        PROVE  k <= IF x = c THEN live' ELSE hi[x]
    <3>1. CASE x # c
      BY <3>1, <2>1, <1>1, <1>7, <1>8 DEF Marked
    <3>2. CASE x = c /\ begun[c]
      BY <3>2, <2>1, <1>0, <1>1, <1>4, <1>7 DEF Marked
    <3>3. CASE x = c /\ ~begun[c]
      <4>1. stack[x][k] = NoCtx /\ live' = 1
        BY <3>3, <1>0, <1>1, <1>3 DEF Fresh
      <4>2. k = 1
        BY <4>1, <2>1, <1>7
      <4> QED  BY <4>1, <4>2, <3>3
    <3> QED  BY <3>1, <3>2, <3>3
  <2> QED  BY <2>1 DEF Marked
<1>13. /\ main' = main /\ exec' = "in" /\ ChainOf(cur', callers')
       /\ StatesOf(state', owner, cur', callers') /\ Marked(st, hi, cur', live')
       /\ Started(begun', cur', callers') /\ live' \in 0 .. Regs /\ bases' \in Seq(0 .. Regs)
  BY <1>0, <1>1, <1>2, <1>5, <1>6, <1>11, <1>12, <1>14
<1> QED  BY <1>0, <1>1, <1>7, <1>8, <1>9, <1>10, <1>13, <1>14, RunStep

\* yield: the nearest caller runs again, the marks are saved.
LEMMA YieldStep ==
  ASSUME ContextsInv, Yield
  PROVE  ContextsInv'
<1> DEFINE h == Head(callers)
<1>0. /\ Running /\ callers # <<>> /\ exec = "in"
      /\ cur' = h /\ callers' = Tail(callers) /\ live' = high[h]
      /\ state' = [state EXCEPT ![cur] = "suspended", ![h] = "running"]
      /\ high' = [high EXCEPT ![cur] = live]
      /\ UNCHANGED <<owner, begun, stack, glob, main, bases, exec>>
  BY RunFacts DEF Yield, Back
<1>1. /\ ChainOf(cur, callers) /\ StatesOf(state, owner, cur, callers)
      /\ Marked(stack, high, cur, live) /\ OneMain(owner)
      /\ stack \in Slots /\ glob \in [Glob -> Ctx \cup {NoCtx}] /\ high \in [Ctx -> 0 .. Regs]
      /\ live \in 0 .. Regs /\ bases \in Seq(0 .. Regs)
      /\ Clean(stack, owner) /\ Named(stack, glob, owner) /\ Fresh(stack, owner, begun)
      /\ Started(begun, cur, callers)
  BY <1>0, ChainNow
<1>2. /\ ChainOf(h, callers') /\ h \in ToSet(callers)
      /\ ToSet(callers') = ToSet(callers) \ {h} /\ h # cur /\ h \in Ctx /\ cur \in Ctx
  BY <1>0, <1>1, ChainShrinks DEF ChainOf
<1> HIDE DEF h
<1>3. /\ state' \in [Ctx -> States] /\ state'[h] = "running" /\ state'[cur] = "suspended"
      /\ \A x \in Ctx : x # h /\ x # cur => state'[x] = state[x]
  <2>1. state \in [Ctx -> States]
    BY <1>1 DEF StatesOf
  <2> QED  BY <2>1, <1>0, <1>2 DEF States
<1>4. StatesOf(state', owner, h, callers')
  <2>1. ASSUME NEW x \in Ctx, owner[x] # "pool"
        PROVE  /\ state'[x] = "running" <=> x = h
               /\ state'[x] = "normal"  <=> x \in ToSet(callers')
    BY <2>1, <1>1, <1>2, <1>3 DEF StatesOf, ChainOf
  <2> QED  BY <2>1, <1>3 DEF StatesOf
<1>5. high' \in [Ctx -> 0 .. Regs] /\ high'[cur] = live /\ \A x \in Ctx : x # cur => high'[x] = high[x]
  BY <1>0, <1>1, <1>2
<1>6. Marked(stack, high', h, live')
  <2>1. ASSUME NEW x \in Ctx, NEW k \in Reg, stack[x][k] # NoCtx
        PROVE  k <= IF x = h THEN live' ELSE high'[x]
    <3>1. k <= IF x = cur THEN live ELSE high[x]
      BY <2>1, <1>1 DEF Marked
    <3> QED  BY <3>1, <1>0, <1>2, <1>5
  <2> QED  BY <2>1 DEF Marked
<1>7. Started(begun, h, callers')
  BY <1>1, <1>2 DEF Started
<1>8. main' \in Ctx /\ main' # NoCtx /\ owner'[main'] = "main" /\ h # NoCtx /\ ActiveKept
  BY <1>0, <1>2, RunFacts, ChainFacts, ContextAssumption
<1>9. TypeOK'
  BY <1>0, <1>1, <1>2, <1>3, <1>5, <1>8 DEF TypeOK, ContextsInv, ChainOf, Slots, Started
<1>10. StageSound'
  BY <1>0, <1>1, <1>2, <1>8 DEF StageSound, OneMain
<1>11. ChainSound'
  BY <1>0, <1>2, <1>4 DEF ChainSound, ChainOf, StatesOf
<1>12. PooledClean' /\ SlotsNameCoroutines'
  BY <1>0, <1>1 DEF PooledClean, SlotsNameCoroutines, Clean, Named
<1>13. NothingAboveMark'
  BY <1>0, <1>6 DEF NothingAboveMark, Marked
<1>14. FreshClean'
  <2>1. main \in {h} \cup ToSet(callers')
    BY <1>2, FrontFacts DEF ChainOf
  <2>2. \A x \in InUse' : begun[x]
    BY <2>1, <1>0, <1>7 DEF InUse, Started
  <2> QED  BY <2>2, <1>0, <1>1 DEF FreshClean, Fresh
<1> QED  BY <1>9, <1>10, <1>11, <1>12, <1>13, <1>14 DEF ContextsInv

\* The body of a coroutine ends.
LEMMA FinishStep ==
  ASSUME ContextsInv, Finish
  PROVE  ContextsInv'
<1> DEFINE h == Head(callers)
           st == Cleared(stack, {cur}, [high EXCEPT ![cur] = live])
           hi == [high EXCEPT ![cur] = 0]
<1>0. /\ Running /\ callers # <<>> /\ exec = "in"
      /\ cur' = h /\ callers' = Tail(callers) /\ live' = high[h]
      /\ state' = [state EXCEPT ![cur] = "dead", ![h] = "running"]
      /\ Settle(st, glob, hi, owner)
      /\ UNCHANGED <<begun, main, bases, exec>>
  BY RunFacts DEF Finish, Back
<1>1. /\ ChainOf(cur, callers) /\ StatesOf(state, owner, cur, callers)
      /\ Marked(stack, high, cur, live) /\ OneMain(owner)
      /\ stack \in Slots /\ glob \in [Glob -> Ctx \cup {NoCtx}] /\ high \in [Ctx -> 0 .. Regs]
      /\ live \in 0 .. Regs /\ bases \in Seq(0 .. Regs)
      /\ Clean(stack, owner) /\ Named(stack, glob, owner) /\ Fresh(stack, owner, begun)
      /\ Started(begun, cur, callers)
  BY <1>0, ChainNow
<1>2. /\ ChainOf(h, callers') /\ h \in ToSet(callers)
      /\ ToSet(callers') = ToSet(callers) \ {h} /\ h # cur /\ h \in Ctx /\ cur \in Ctx
  BY <1>0, <1>1, ChainShrinks DEF ChainOf
<1> HIDE DEF h
<1>3. /\ state' \in [Ctx -> States] /\ state'[h] = "running" /\ state'[cur] = "dead"
      /\ \A x \in Ctx : x # h /\ x # cur => state'[x] = state[x]
  <2>1. state \in [Ctx -> States]
    BY <1>1 DEF StatesOf
  <2> QED  BY <2>1, <1>0, <1>2 DEF States
<1>4. StatesOf(state', owner, h, callers')
  <2>1. ASSUME NEW x \in Ctx, owner[x] # "pool"
        PROVE  /\ state'[x] = "running" <=> x = h
               /\ state'[x] = "normal"  <=> x \in ToSet(callers')
    BY <2>1, <1>1, <1>2, <1>3 DEF StatesOf, ChainOf
  <2> QED  BY <2>1, <1>3 DEF StatesOf
<1>5. hi \in [Ctx -> 0 .. Regs] /\ \A x \in Ctx : x # cur => hi[x] = high[x]
  <2>1. 0 \in 0 .. Regs
    BY ContextAssumption
  <2> QED  BY <2>1, <1>1, <1>2
<1>6. /\ st \in Slots
      /\ \A x \in Ctx, k \in Reg : st[x][k] = IF x = cur THEN NoCtx ELSE stack[x][k]
  <2>1. /\ st \in Slots
        /\ \A x \in Ctx, k \in Reg :
             st[x][k] = IF x = cur /\ k <= live THEN NoCtx ELSE stack[x][k]
    BY <1>1, <1>2 DEF Cleared, Slots
  <2> HIDE DEF st
  <2>2. \A k \in Reg : ~(k <= live) => stack[cur][k] = NoCtx
    BY <1>1, <1>2 DEF Marked
  <2> QED  BY <2>1, <2>2
<1> HIDE DEF st, hi
<1>7. Clean(st, owner) /\ Named(st, glob, owner) /\ Fresh(st, owner, begun)
  BY <1>1, <1>6 DEF Clean, Named, Fresh
<1>8. Marked(st, hi, h, live')
  <2>1. ASSUME NEW x \in Ctx, NEW k \in Reg, st[x][k] # NoCtx
        PROVE  k <= IF x = h THEN live' ELSE hi[x]
    <3>1. x # cur /\ stack[x][k] # NoCtx
      BY <2>1, <1>6
    <3>2. k <= high[x]
      BY <3>1, <1>1 DEF Marked
    <3> QED  BY <3>1, <3>2, <1>0, <1>5
  <2> QED  BY <2>1 DEF Marked
<1>9. Started(begun, h, callers') /\ live' \in 0 .. Regs
  BY <1>0, <1>1, <1>2 DEF Started
<1>10. /\ main' = main /\ exec' = "in" /\ ChainOf(cur', callers')
       /\ StatesOf(state', owner, cur', callers') /\ Marked(st, hi, cur', live')
       /\ Started(begun', cur', callers') /\ Fresh(st, owner, begun')
       /\ live' \in 0 .. Regs /\ bases' \in Seq(0 .. Regs)
  BY <1>0, <1>1, <1>2, <1>4, <1>7, <1>8, <1>9
<1> QED  BY <1>0, <1>1, <1>5, <1>6, <1>7, <1>10, RunStep

\* DeadCoroutine of a coroutine that does not run; the chain may lose it.
LEMMA KillStep ==
  ASSUME ContextsInv, Running, NEW c \in Ctx, c # cur, owner[c] = "script", Kill(c),
         ChainOf(cur, callers'), ToSet(callers') = ToSet(callers) \ {c},
         UNCHANGED <<begun, cur, main, live, bases, exec>>
  PROVE  ContextsInv'
<1> DEFINE st == Cleared(stack, {c}, high)
           hi == [high EXCEPT ![c] = 0]
<1>0. exec = "in" /\ Settle(st, glob, hi, owner) /\ state' = [state EXCEPT ![c] = "dead"]
  BY RunFacts DEF Kill
<1>1. /\ ChainOf(cur, callers) /\ StatesOf(state, owner, cur, callers)
      /\ Marked(stack, high, cur, live) /\ OneMain(owner)
      /\ stack \in Slots /\ glob \in [Glob -> Ctx \cup {NoCtx}] /\ high \in [Ctx -> 0 .. Regs]
      /\ live \in 0 .. Regs /\ bases \in Seq(0 .. Regs)
      /\ Clean(stack, owner) /\ Named(stack, glob, owner) /\ Fresh(stack, owner, begun)
      /\ Started(begun, cur, callers)
  BY ChainNow
<1>2. StatesOf(state', owner, cur, callers')
  <2>1. state \in [Ctx -> States]
    BY <1>1 DEF StatesOf
  <2>2. /\ state' \in [Ctx -> States] /\ state'[c] = "dead"
        /\ \A x \in Ctx : x # c => state'[x] = state[x]
    BY <2>1, <1>0 DEF States
  <2>3. ASSUME NEW x \in Ctx, owner[x] # "pool"
        PROVE  /\ state'[x] = "running" <=> x = cur
               /\ state'[x] = "normal"  <=> x \in ToSet(callers')
    BY <2>2, <2>3, <1>1 DEF StatesOf
  <2> QED  BY <2>2, <2>3 DEF StatesOf
<1>3. hi \in [Ctx -> 0 .. Regs] /\ \A x \in Ctx : x # c => hi[x] = high[x]
  <2>1. 0 \in 0 .. Regs
    BY ContextAssumption
  <2> QED  BY <2>1, <1>1
<1>4. /\ st \in Slots
      /\ \A x \in Ctx, k \in Reg : st[x][k] = IF x = c THEN NoCtx ELSE stack[x][k]
  <2>1. /\ st \in Slots
        /\ \A x \in Ctx, k \in Reg :
             st[x][k] = IF x = c /\ k <= high[c] THEN NoCtx ELSE stack[x][k]
    BY <1>1 DEF Cleared, Slots
  <2> HIDE DEF st
  <2>2. \A k \in Reg : ~(k <= high[c]) => stack[c][k] = NoCtx
    BY <1>1 DEF Marked
  <2> QED  BY <2>1, <2>2
<1> HIDE DEF st, hi
<1>5. Clean(st, owner) /\ Named(st, glob, owner) /\ Fresh(st, owner, begun)
  BY <1>1, <1>4 DEF Clean, Named, Fresh
<1>6. Marked(st, hi, cur, live)
  BY <1>1, <1>3, <1>4 DEF Marked
<1>7. Started(begun, cur, callers')
  BY <1>1 DEF Started
<1>8. /\ main' = main /\ exec' = "in" /\ ChainOf(cur', callers')
      /\ StatesOf(state', owner, cur', callers') /\ Marked(st, hi, cur', live')
      /\ Started(begun', cur', callers') /\ Fresh(st, owner, begun')
      /\ live' \in 0 .. Regs /\ bases' \in Seq(0 .. Regs)
  BY <1>0, <1>1, <1>2, <1>5, <1>6, <1>7
<1> QED  BY <1>0, <1>1, <1>3, <1>4, <1>5, <1>8, RunStep

LEMMA CloseSuspendedStep ==
  ASSUME ContextsInv, NEW i \in Reg, CloseSuspended(i)
  PROVE  ContextsInv'
<1> DEFINE c == stack[cur][i]
<1>0. /\ Running /\ c # NoCtx /\ state[c] = "suspended" /\ Kill(c)
      /\ UNCHANGED <<begun, cur, main, callers, live, bases, exec>>
  BY DEF CloseSuspended, runVars
<1>1. /\ ChainOf(cur, callers) /\ StatesOf(state, owner, cur, callers)
      /\ stack \in Slots /\ Named(stack, glob, owner) /\ cur \in Ctx
  BY <1>0, ChainNow, RunFacts, ChainFacts
<1>2. c \in Ctx /\ owner[c] = "script"
  BY <1>0, <1>1 DEF Slots, Named
<1> HIDE DEF c
<1>3. c # cur /\ c \notin ToSet(callers)
  BY <1>0, <1>1, <1>2 DEF StatesOf
<1>4. ChainOf(cur, callers') /\ ToSet(callers') = ToSet(callers) \ {c}
  BY <1>0, <1>1, <1>3
<1> QED  BY <1>0, <1>2, <1>3, <1>4, KillStep

LEMMA CloseCallerStep ==
  ASSUME ContextsInv, NEW i \in Reg, CloseCaller(i)
  PROVE  ContextsInv'
<1> DEFINE c == stack[cur][i]
<1>0. /\ Running /\ c # NoCtx /\ state[c] = "normal" /\ Kill(c)
      /\ callers' = RemoveFirst(callers, c)
      /\ UNCHANGED <<begun, cur, main, live, bases, exec>>
  BY DEF CloseCaller
<1>1. /\ ChainOf(cur, callers) /\ StatesOf(state, owner, cur, callers) /\ OneMain(owner)
      /\ stack \in Slots /\ Named(stack, glob, owner) /\ cur \in Ctx
  BY <1>0, ChainNow, RunFacts, ChainFacts
<1>2. c \in Ctx /\ owner[c] = "script" /\ c # main
  BY <1>0, <1>1 DEF Slots, Named, OneMain
<1> HIDE DEF c
<1>3. c # cur /\ c \in ToSet(callers)
  BY <1>0, <1>1, <1>2 DEF StatesOf
<1>4. ChainOf(cur, callers') /\ ToSet(callers') = ToSet(callers) \ {c}
  BY <1>0, <1>1, <1>2, <1>3, ChainCut
<1> QED  BY <1>0, <1>2, <1>3, <1>4, KillStep

-----------------------------------------------------------------------------
(* The end of an execution                                                 *)

\* A call whose result is kept: all but its slot is released.
LEMMA CompleteKeepingStep ==
  ASSUME ContextsInv, NEW s \in {"running", "suspended"}, CompleteKeeping(s)
  PROVE  ContextsInv'
<1> DEFINE st == [stack EXCEPT ![main] = [i \in Reg |-> IF 1 < i /\ i <= live THEN NoCtx ELSE @[i]]]
<1>0. /\ Running /\ bases = <<>> /\ cur = main
      /\ state' = [state EXCEPT ![main] = s] /\ exec' = "done" /\ live' = 0
      /\ Settle(st, glob, high, owner)
      /\ UNCHANGED <<begun, cur, main, callers, bases>>
  BY DEF CompleteKeeping
<1>1. /\ ChainOf(cur, callers) /\ StatesOf(state, owner, cur, callers)
      /\ Marked(stack, high, cur, live) /\ OneMain(owner)
      /\ stack \in Slots /\ glob \in [Glob -> Ctx \cup {NoCtx}] /\ high \in [Ctx -> 0 .. Regs]
      /\ live \in 0 .. Regs /\ bases \in Seq(0 .. Regs)
      /\ Clean(stack, owner) /\ Named(stack, glob, owner) /\ Fresh(stack, owner, begun)
      /\ Started(begun, cur, callers)
  BY <1>0, ChainNow
<1>2. cur \in Ctx /\ owner[cur] = "main" /\ callers = <<>> /\ cur # NoCtx /\ ToSet(callers) = {}
  <2>1. callers = <<>> /\ cur \in Ctx /\ cur # NoCtx
    BY <1>0, RunFacts, ChainFacts
  <2> QED  BY <2>1, <1>0, <1>1 DEF ToSet, OneMain
<1>3. owner \in Owners
  BY <1>1 DEF OneMain
<1>4. /\ stack' \in Slots /\ glob' = glob /\ high' \in [Ctx -> 0 .. Regs] /\ owner' \in Owners
      /\ \A c \in Ctx : owner'[c] = owner[c] \/ (owner[c] = "script" /\ owner'[c] = "pool")
      /\ st \in Slots
  <2>1. st \in Slots
    BY <1>1 DEF Slots
  <2> QED  BY <2>1, <1>0, <1>1, <1>3, SettleFacts
<1>5. /\ state' \in [Ctx -> States] /\ \A c \in Ctx : c # main => state'[c] = state[c]
  BY <1>0, <1>1 DEF StatesOf, States
<1>6. TypeOK'
  BY <1>0, <1>1, <1>2, <1>4, <1>5, ContextAssumption DEF TypeOK, Slots, Owners, ChainOf, Started
<1>7. owner'[main] = "main" /\ \A c \in Ctx : owner'[c] = "main" => c = main
  BY <1>0, <1>1, <1>2, <1>4 DEF OneMain
<1>8. InUse' = {main} /\ ActiveKept'
  <2>1. InUse' = {main}
    BY <1>0, <1>2 DEF InUse
  <2> QED  BY <2>1, <1>7 DEF ActiveKept
<1>9. StageSound'
  BY <1>0, <1>2, <1>7, <1>8 DEF StageSound
<1>10. ChainSound'
  <2>1. IsInjective(callers') /\ cur' \notin ToSet(callers') /\ callers' = <<>> /\ cur' = main'
    BY <1>0, <1>1, <1>2 DEF ChainOf
  <2>2. ASSUME NEW c \in Ctx, owner'[c] = "script"
        PROVE  state'[c] \in {"suspended", "dead"}
    <3>1. owner[c] = "script" /\ c # main
      BY <2>2, <1>4, <1>7
    <3>2. state[c] # "running" /\ state[c] # "normal" /\ state'[c] = state[c] /\ state[c] \in States
      BY <3>1, <1>0, <1>1, <1>2, <1>5 DEF StatesOf
    <3> QED  BY <3>2 DEF States
  <2> QED  BY <2>1, <2>2, <1>0 DEF ChainSound
<1>11. /\ \A x \in Ctx, k \in Reg :
            st[x][k] = IF x = cur /\ 1 < k /\ k <= live THEN NoCtx ELSE stack[x][k]
  BY <1>0, <1>1, <1>2 DEF Slots
<1> HIDE DEF st
<1>12. Clean(st, owner) /\ Named(st, glob, owner) /\ Fresh(st, owner, begun')
  BY <1>0, <1>1, <1>11 DEF Clean, Named, Fresh
<1>13. \A k \in Reg : st[cur'][k] # NoCtx => k <= IF exec' = "done" THEN 1 ELSE live'
  <2>1. ASSUME NEW k \in Reg, st[cur][k] # NoCtx
        PROVE  k <= 1
    <3>1. stack[cur][k] # NoCtx /\ ~(1 < k /\ k <= live)
      BY <2>1, <1>2, <1>11
    <3>2. k <= live
      BY <3>1, <1>1, <1>2 DEF Marked
    <3>3. k \in Int
      BY DEF Reg
    <3> QED  BY <3>1, <3>2, <3>3
  <2> QED  BY <2>1, <1>0
<1>14. \A c \in Ctx : c # cur' => \A k \in Reg : st[c][k] # NoCtx => k <= high[c]
  BY <1>0, <1>1, <1>11 DEF Marked
<1>15. \A c \in InUse' : begun'[c]
  BY <1>0, <1>1, <1>8 DEF Started
<1>16. (PooledClean /\ NothingAboveMark /\ SlotsNameCoroutines /\ FreshClean)'
  BY <1>0, <1>1, <1>3, <1>4, <1>12, <1>13, <1>14, <1>15, SettleStep
<1> QED  BY <1>6, <1>9, <1>10, <1>16 DEF ContextsInv

\* ReleaseExecution of a running, stopped or finished execution.
LEMMA ReleaseStep ==
  ASSUME ContextsInv, exec # "idle", ActiveKept, Release("idle")
  PROVE  ContextsInv'
<1> DEFINE out == Chain \cup {main}
           hi0 == [[high EXCEPT ![cur] = live] EXCEPT ![main] = MainMark]
           st == Cleared(stack, out, hi0)
           hi == [c \in Ctx |-> IF c \in out THEN 0 ELSE hi0[c]]
           own == [owner EXCEPT ![main] = "pool"]
<1>0. /\ Settle(st, glob, hi, own)
      /\ state' = [c \in Ctx |-> IF c \in Chain THEN "dead" ELSE state[c]]
      /\ cur' = NoCtx /\ main' = NoCtx /\ callers' = <<>>
      /\ live' = 0 /\ bases' = <<>> /\ exec' = "idle" /\ begun' = begun
  BY DEF Release, ReleaseChain
<1>1. TypeOK /\ StageSound /\ ChainSound /\ NothingAboveMark
  BY DEF ContextsInv
<1>2. /\ cur \in Ctx /\ main \in Ctx /\ owner[main] = "main"
      /\ \A c \in Ctx : owner[c] = "main" => c = main
      /\ \A c \in ToSet(callers) : c \in Ctx
      /\ main \in {cur} \cup ToSet(callers)
      /\ Clean(stack, owner) /\ Named(stack, glob, owner) /\ Fresh(stack, owner, begun)
  BY ChainFacts
<1>3. exec \in {"in", "stopped", "done"}
  BY <1>1 DEF TypeOK
<1>4. out = {cur} \cup ToSet(callers)
  BY <1>2 DEF Chain
<1>5. /\ MainMark \in 0 .. Regs
      /\ IF cur = main THEN live <= MainMark /\ 1 <= MainMark ELSE MainMark = high[main]
  BY <1>1, <1>2, ContextAssumption DEF MainMark, TypeOK
<1>6. /\ hi0 \in [Ctx -> 0 .. Regs] /\ hi0[main] = MainMark
      /\ cur # main => hi0[cur] = live
      /\ \A c \in Ctx : c # cur /\ c # main => hi0[c] = high[c]
  BY <1>1, <1>2, <1>5 DEF TypeOK
<1> HIDE DEF hi0
<1>7. \A x \in Ctx, k \in Reg : stack[x][k] # NoCtx => k <= hi0[x]
  <2>1. ASSUME NEW x \in Ctx, NEW k \in Reg, stack[x][k] # NoCtx
        PROVE  k <= hi0[x]
    <3>1. k <= IF x = cur THEN (IF exec = "done" THEN 1 ELSE live) ELSE high[x]
      BY <2>1, <1>1 DEF NothingAboveMark
    <3>2. exec = "done" => cur = main
      BY <1>1 DEF StageSound
    <3>3. k \in Int /\ live \in Int /\ hi0[x] \in Int
      BY <1>1, <1>6 DEF Reg, TypeOK
    <3>4. CASE x = main
      BY <3>1, <3>3, <3>4, <1>5, <1>6
    <3>5. CASE x # main
      BY <3>1, <3>2, <3>5, <1>6
    <3> QED  BY <3>4, <3>5
  <2> QED  BY <2>1
<1>8. hi \in [Ctx -> 0 .. Regs] /\ \A c \in Ctx : c \notin out => hi[c] = hi0[c]
  <2>1. 0 \in 0 .. Regs
    BY ContextAssumption
  <2> HIDE DEF out
  <2> QED  BY <2>1, <1>6
<1>9. /\ st \in Slots
      /\ \A x \in Ctx, k \in Reg : st[x][k] = IF x \in out THEN NoCtx ELSE stack[x][k]
  <2> HIDE DEF out
  <2>1. /\ st \in Slots
        /\ \A x \in Ctx, k \in Reg :
             st[x][k] = IF x \in out /\ k <= hi0[x] THEN NoCtx ELSE stack[x][k]
    BY <1>1 DEF Cleared, Slots, TypeOK
  <2> HIDE DEF st
  <2> QED  BY <2>1, <1>7
<1>10. /\ own \in Owners /\ own[main] = "pool"
       /\ \A c \in Ctx : c # main => own[c] = owner[c]
       /\ glob \in [Glob -> Ctx \cup {NoCtx}]
  BY <1>1, <1>2 DEF TypeOK, Owners
<1> HIDE DEF st, hi, own, out
<1>11. Clean(st, own)
  BY <1>2, <1>4, <1>9, <1>10 DEF Clean
<1>12. Named(st, glob, own)
  <2>1. \A d \in Ctx : owner[d] = "script" => own[d] = "script"
    BY <1>2, <1>10
  <2>2. ASSUME NEW x \in Ctx, NEW k \in Reg, st[x][k] # NoCtx
        PROVE  own[st[x][k]] = "script"
    BY <2>1, <2>2, <1>2, <1>9 DEF Named, Slots
  <2>3. ASSUME NEW g \in Glob, glob[g] # NoCtx
        PROVE  own[glob[g]] = "script"
    BY <2>1, <2>3, <1>2, <1>10 DEF Named
  <2> QED  BY <2>2, <2>3 DEF Named
<1>13. \A c \in Ctx : own[c] = "script" => owner[c] = "script" /\ c # main
  BY <1>2, <1>10
<1>14. Fresh(st, own, begun')
  BY <1>0, <1>2, <1>9, <1>13 DEF Fresh
<1>15. \A c \in Ctx : \A k \in Reg : st[c][k] # NoCtx => k <= hi[c]
  BY <1>7, <1>8, <1>9
<1>16. InUse' = {} /\ ToSet(callers') = {} /\ IsInjective(callers')
  BY <1>0 DEF InUse, ToSet, IsInjective
<1>17. /\ stack' \in Slots /\ glob' = glob /\ high' \in [Ctx -> 0 .. Regs] /\ owner' \in Owners
       /\ \A c \in Ctx : owner'[c] = own[c] \/ (own[c] = "script" /\ owner'[c] = "pool")
  BY <1>0, <1>8, <1>9, <1>10, SettleFacts
<1>18. state' \in [Ctx -> States]
  BY <1>0, <1>1 DEF TypeOK, States
<1>19. TypeOK'
  BY <1>0, <1>1, <1>16, <1>17, <1>18, ContextAssumption DEF TypeOK, Slots, Owners
<1>20. \A c \in Ctx : owner'[c] # "main"
  BY <1>2, <1>10, <1>17
<1>21. StageSound'
  BY <1>0, <1>16, <1>20 DEF StageSound, ActiveKept
<1>22. ASSUME NEW c \in Ctx, owner'[c] = "script"
       PROVE  state'[c] \in {"suspended", "dead"}
  <2>1. owner[c] = "script" /\ c # main
    BY <1>13, <1>17, <1>22
  <2>2. CASE c \in Chain
    BY <2>2, <1>0
  <2>3. CASE c \notin Chain
    <3>1. c # cur /\ c \notin ToSet(callers) /\ state'[c] = state[c]
      BY <2>1, <2>3, <1>0 DEF Chain
    <3>2. state[c] \in {"suspended", "dead"}
      BY <2>1, <3>1, <1>1, <1>3 DEF ChainSound, TypeOK, States
    <3> QED  BY <3>1, <3>2
  <2> QED  BY <2>2, <2>3
<1>23. ChainSound'
  BY <1>0, <1>22 DEF ChainSound
<1>24. cur' \notin Ctx
  BY <1>0, ContextAssumption
<1>25. (PooledClean /\ NothingAboveMark /\ SlotsNameCoroutines /\ FreshClean)'
  BY <1>0, <1>8, <1>9, <1>10, <1>11, <1>12, <1>14, <1>15, <1>16, <1>24, SettleStep
<1> QED  BY <1>19, <1>21, <1>23, <1>25 DEF ContextsInv

LEMMA EndsStep ==
  ASSUME ContextsInv, Fail \/ Cancel \/ EndHostCall \/ Complete
  PROVE  ContextsInv'
<1>1. exec # "idle" /\ ActiveKept /\ Release("idle")
  BY RunFacts DEF Fail, Cancel, EndHostCall, Complete, Running, ContextsInv, StageSound
<1> QED  BY <1>1, ReleaseStep

-----------------------------------------------------------------------------
(* The invariant                                                           *)

LEMMA InitInv == Init => ContextsInv
<1> SUFFICES ASSUME Init PROVE ContextsInv
  OBVIOUS
<1>1. /\ owner = [c \in Ctx |-> "pool"] /\ state = [c \in Ctx |-> "running"]
      /\ begun = [c \in Ctx |-> FALSE] /\ stack = [c \in Ctx |-> [i \in Reg |-> NoCtx]]
      /\ high = [c \in Ctx |-> 0] /\ glob = [g \in Glob |-> NoCtx]
      /\ cur = NoCtx /\ main = NoCtx /\ callers = <<>> /\ live = 0 /\ bases = <<>> /\ exec = "idle"
  BY DEF Init
<1>2. 0 \in 0 .. Regs
  BY ContextAssumption
<1>3. TypeOK
  BY <1>1, <1>2 DEF TypeOK, States
<1>4. InUse = {}
  BY <1>1 DEF InUse, ToSet
<1>5. StageSound /\ ChainSound
  BY <1>1, <1>4 DEF StageSound, ChainSound, ActiveKept
<1>6. PooledClean /\ NothingAboveMark /\ SlotsNameCoroutines /\ FreshClean
  BY <1>1, <1>4 DEF PooledClean, NothingAboveMark, SlotsNameCoroutines, FreshClean
<1> QED  BY <1>3, <1>5, <1>6 DEF ContextsInv

LEMMA NextInv == ContextsInv /\ [Next]_vars => ContextsInv'
<1> SUFFICES ASSUME ContextsInv, [Next]_vars PROVE ContextsInv'
  OBVIOUS
<1>1. CASE Host
  <2>1. ASSUME NEW c \in Ctx, NEW h \in Reg, Begin(c, h) PROVE ContextsInv'
    BY <2>1, BeginStep
  <2>2. ASSUME Fail \/ Cancel \/ EndHostCall \/ Complete PROVE ContextsInv'
    BY <2>2, EndsStep
  <2>3. ASSUME NEW s \in {"running", "suspended"}, CompleteKeeping(s) PROVE ContextsInv'
    BY <2>3, CompleteKeepingStep
  <2> QED  BY <1>1, <2>1, <2>2, <2>3, StopStep, ContinueStep DEF Host
<1>2. CASE Script
  <2>1. ASSUME NEW c \in Ctx, NEW i \in Reg, Create(c, i) PROVE ContextsInv'
    BY <2>1, CreateStep
  <2>2. ASSUME NEW i \in Reg, NEW j \in Reg, Copy(i, j) PROVE ContextsInv'
    BY <2>2, CopyStep
  <2>3. ASSUME NEW i \in Reg, NEW g \in Glob, Store(i, g) \/ Load(g, i) PROVE ContextsInv'
    BY <2>3, StoreStep, LoadStep
  <2>4. ASSUME NEW i \in Reg, Clear(i) PROVE ContextsInv'
    BY <2>4, ClearStep
  <2> QED  BY <1>2, <2>1, <2>2, <2>3, <2>4, EnterStep, LeaveStep, LeaveFrameStep, GrowStep DEF Script
<1>3. CASE Switch
  <2>1. ASSUME NEW i \in Reg, NEW a \in 0 .. Regs, Resume(i, a) PROVE ContextsInv'
    BY <2>1, ResumeStep
  <2>2. ASSUME NEW i \in Reg, CloseSuspended(i) \/ CloseCaller(i) PROVE ContextsInv'
    BY <2>2, CloseSuspendedStep, CloseCallerStep
  <2> QED  BY <1>3, <2>1, <2>2, YieldStep, FinishStep DEF Switch
<1>4. CASE UNCHANGED vars
  <2>1. InUse' = InUse
    BY <1>4 DEF vars, InUse
  <2>2. ActiveKept' = ActiveKept
    BY <1>4, <2>1 DEF vars, ActiveKept
  <2> QED  BY <1>4, <2>1, <2>2 DEF vars, ContextsInv, TypeOK, StageSound, ChainSound, PooledClean,
             NothingAboveMark, SlotsNameCoroutines, FreshClean
<1> QED  BY <1>1, <1>2, <1>3, <1>4 DEF Next

\* In every state of every execution the stages, the chain and the stacks of the
\* contexts agree.
THEOREM ContextInvariant == Spec => []ContextsInv
BY InitInv, NextInv, PTL DEF Spec

\* One context runs, over a chain of callers that ends at the main context; an
\* idle worker leaves no coroutine behind that waits.
THEOREM OneContextRuns == Spec => []OneRunning
<1>1. ContextsInv => OneRunning
  BY DEF ContextsInv, ChainSound, OneRunning, IsInjective
<1> QED  BY <1>1, ContextInvariant, PTL

\* A recycled context brings no reference along.
THEOREM PooledStacksAreClean == Spec => []PooledClean
<1>1. ContextsInv => PooledClean
  BY DEF ContextsInv
<1> QED  BY <1>1, ContextInvariant, PTL

\* What clears a context up to its mark misses nothing.
THEOREM MarksCoverReferences == Spec => []NothingAboveMark
<1>1. ContextsInv => NothingAboveMark
  BY DEF ContextsInv
<1> QED  BY <1>1, ContextInvariant, PTL

\* References name coroutines.
THEOREM ReferencesAreCoroutines == Spec => []SlotsNameCoroutines
<1>1. ContextsInv => SlotsNameCoroutines
  BY DEF ContextsInv
<1> QED  BY <1>1, ContextInvariant, PTL

-----------------------------------------------------------------------------
(* Who holds the contexts in use                                           *)

\* Every context that waits has the one it resumed in a register.
Holds(st, c, cs) ==
  \A i \in DOMAIN cs : \E r \in Reg : st[cs[i]][r] = IF i = 1 THEN c ELSE cs[i - 1]

LEMMA HoldsNow == ResumersHold <=> Holds(stack, cur, callers)
BY DEF ResumersHold, Holds

\* A chain whose contexts hold each other loses nothing to a release.
LEMMA HoldStep ==
  ASSUME ContextsInv, Running, main' = main,
         NEW st \in Slots, NEW gl \in [Glob -> Ctx \cup {NoCtx}],
         NEW hi \in [Ctx -> 0 .. Regs], NEW own, Settle(st, gl, hi, own),
         ChainOf(cur', callers'), OneMain(own),
         \A c \in {cur'} \cup ToSet(callers') : own[c] # "pool",
         Holds(st, cur', callers')
  PROVE  (ResumersHold /\ ActiveKept)'
<1> DEFINE all == {cur'} \cup ToSet(callers')
           K == all \ {main}
           F == Freed(st, gl, hi, own)
<1>1. cur' \in Ctx /\ callers' \in Seq(Ctx) /\ main \in Ctx /\ own \in Owners
  BY RunFacts, ChainFacts DEF ChainOf, OneMain
<1>2. Len(callers') \in Nat /\ DOMAIN callers' = 1 .. Len(callers') /\ all \subseteq Ctx
  BY <1>1 DEF ToSet
<1>3. ASSUME NEW d \in K
      PROVE  \E x \in Ctx, r \in Reg : st[x][r] = d /\ (x \in Scripts(own) => x \in K)
  <2>1. callers' # <<>> /\ callers'[Len(callers')] = main /\ Len(callers') > 0
    <3>1. callers' # <<>>
      <4>1. SUFFICES ASSUME callers' = <<>> PROVE FALSE
        OBVIOUS
      <4>2. ToSet(callers') = {} /\ cur' = main
        BY <4>1 DEF ToSet, ChainOf
      <4> QED  BY <4>2
    <3> QED  BY <3>1, <1>1, FrontFacts DEF ChainOf
  <2>2. PICK k \in DOMAIN callers' : d = IF k = 1 THEN cur' ELSE callers'[k - 1]
    <3>1. CASE d = cur'
      <4>1. 1 \in DOMAIN callers'
        BY <1>2, <2>1
      <4> QED  BY <3>1, <4>1
    <3>2. CASE d # cur'
      <4>1. PICK j \in DOMAIN callers' : d = callers'[j]
        BY <3>2 DEF ToSet
      <4>2. j # Len(callers')
        BY <4>1, <2>1
      <4>3. j + 1 \in DOMAIN callers' /\ j + 1 # 1 /\ (j + 1) - 1 = j
        BY <4>2, <1>2
      <4> QED  BY <4>1, <4>3
    <3> QED  BY <3>1, <3>2
  <2>3. PICK r \in Reg : st[callers'[k]][r] = d
    BY <2>2 DEF Holds
  <2>4. callers'[k] \in Ctx /\ (callers'[k] = main \/ callers'[k] \in K)
    BY <1>2 DEF ToSet
  <2>5. main \notin Scripts(own)
    BY DEF Scripts, OneMain
  <2> QED  BY <2>3, <2>4, <2>5
<1>4. F \cap K = {} /\ main \notin F
  <2>1. main \notin F
    BY FreedIsFixed DEF Scripts, OneMain
  <2>2. K \in SUBSET Ctx
    BY <1>2
  <2> HIDE DEF K
  <2> QED  BY <1>3, <2>1, <2>2, HeldIsKept
<1>5. \A c \in all : c \notin F
  BY <1>4
<1>6. \A c \in all : owner'[c] = own[c] /\ stack'[c] = st[c]
  <2> HIDE DEF F, all
  <2>1. \A c \in Ctx : c \notin F => owner'[c] = own[c] /\ stack'[c] = st[c]
    BY <1>1, SettleFacts DEF F
  <2> QED  BY <2>1, <1>2, <1>5
<1>7. main \in all
  BY FrontFacts DEF ChainOf
<1>8. ActiveKept'
  <2>1. InUse' \subseteq all
    BY <1>7 DEF InUse
  <2> QED  BY <2>1, <1>6 DEF ActiveKept
<1>9. Holds(stack', cur', callers')
  <2>1. \A k \in DOMAIN callers' : stack'[callers'[k]] = st[callers'[k]]
    BY <1>6 DEF ToSet
  <2> QED  BY <2>1 DEF Holds
<1>10. ResumersHold'
  BY <1>9 DEF ResumersHold, Holds
<1> QED  BY <1>8, <1>10

\* Steps on the running context alone.
LEMMA HoldOwnRegisters ==
  ASSUME ContextsInv, Running, ResumersHold, UNCHANGED <<cur, main, callers>>,
         NEW st \in Slots, NEW gl \in [Glob -> Ctx \cup {NoCtx}], NEW own,
         Settle(st, gl, high, own), \A x \in Ctx : x # cur => st[x] = stack[x],
         OneMain(own), \A x \in Ctx : owner[x] # "pool" => own[x] # "pool"
  PROVE  (ResumersHold /\ ActiveKept)'
<1>1. ChainOf(cur, callers) /\ high \in [Ctx -> 0 .. Regs]
  BY ChainNow
<1>2. \A c \in {cur} \cup ToSet(callers) : c \in Ctx /\ owner[c] # "pool"
  BY RunFacts, ChainFacts
<1>3. \A k \in DOMAIN callers : callers[k] \in Ctx /\ callers[k] # cur
  BY <1>1, <1>2 DEF ChainOf, ToSet
<1>4. Holds(st, cur, callers)
  BY <1>3, HoldsNow DEF Holds
<1>5. main' = main /\ ChainOf(cur', callers') /\ Holds(st, cur', callers')
      /\ \A c \in {cur'} \cup ToSet(callers') : own[c] # "pool"
  BY <1>1, <1>2, <1>4
<1> QED  BY <1>1, <1>5, HoldStep

LEMMA HoldRegister ==
  ASSUME ContextsInv, Running, ResumersHold, UNCHANGED runVars,
         NEW j \in Reg, NEW v \in Ctx \cup {NoCtx},
         Settle([stack EXCEPT ![cur][j] = v], glob, high, owner)
  PROVE  (ResumersHold /\ ActiveKept)'
<1> DEFINE st == [stack EXCEPT ![cur][j] = v]
<1>1. stack \in Slots /\ glob \in [Glob -> Ctx \cup {NoCtx}] /\ OneMain(owner) /\ cur \in Ctx
  BY ChainNow, RunFacts, ChainFacts
<1>2. st \in Slots /\ \A x \in Ctx : x # cur => st[x] = stack[x]
  BY <1>1 DEF Slots
<1>3. UNCHANGED <<cur, main, callers>> /\ \A x \in Ctx : owner[x] # "pool" => owner[x] # "pool"
  BY DEF runVars
<1> HIDE DEF st
<1>4. Settle(st, glob, high, owner)
  BY DEF st
<1> QED  BY <1>1, <1>2, <1>3, <1>4, HoldOwnRegisters

LEMMA HoldScript ==
  ASSUME ContextsInv, ResumersHold, Script
  PROVE  (ResumersHold /\ ActiveKept)'
<1>0. Running
  BY DEF Script, Enter, Leave, LeaveFrame, Grow, Create, Copy, Store, Load, Clear
<1>1. /\ stack \in Slots /\ glob \in [Glob -> Ctx \cup {NoCtx}] /\ OneMain(owner)
      /\ cur \in Ctx /\ ActiveKept /\ Named(stack, glob, owner)
  BY <1>0, ChainNow, RunFacts, ChainFacts
<1>2. CASE Enter \/ LeaveFrame \/ Grow
  <2>1. UNCHANGED <<owner, stack, cur, main, callers>>
    BY <1>2 DEF Enter, LeaveFrame, Grow, ctxVars
  <2> QED  BY <2>1, <1>1 DEF ResumersHold, ActiveKept, InUse
<1>3. CASE Leave
  <2> DEFINE st == [stack EXCEPT ![cur] = [i \in Reg |-> IF Last(bases) < i /\ i <= live THEN NoCtx ELSE @[i]]]
  <2>1. Settle(st, glob, high, owner) /\ UNCHANGED <<cur, main, callers>>
    BY <1>3 DEF Leave
  <2>2. st \in Slots /\ \A x \in Ctx : x # cur => st[x] = stack[x]
    BY <1>1 DEF Slots
  <2> HIDE DEF st
  <2> QED  BY <2>1, <2>2, <1>0, <1>1, HoldOwnRegisters
<1>4. ASSUME NEW c \in Ctx, NEW i \in Reg, Create(c, i)
      PROVE  (ResumersHold /\ ActiveKept)'
  <2> DEFINE st == [stack EXCEPT ![cur][i] = c]
             own == [owner EXCEPT ![c] = "script"]
  <2>1. owner[c] = "pool" /\ Settle(st, glob, high, own) /\ UNCHANGED <<cur, main, callers>>
    BY <1>4 DEF Create, runVars
  <2>2. st \in Slots /\ \A x \in Ctx : x # cur => st[x] = stack[x]
    BY <1>1 DEF Slots
  <2>3. /\ own \in Owners /\ own[c] = "script" /\ \A x \in Ctx : x # c => own[x] = owner[x]
    BY <1>1 DEF Owners, OneMain
  <2> HIDE DEF st, own
  <2>4. OneMain(own) /\ \A x \in Ctx : owner[x] # "pool" => own[x] # "pool"
    BY <2>1, <2>3, <1>0, <1>1, RunFacts, ChainFacts DEF OneMain
  <2> QED  BY <2>1, <2>2, <2>4, <1>0, <1>1, HoldOwnRegisters
<1>5. ASSUME NEW i \in Reg, NEW j \in Reg, Copy(i, j)
      PROVE  (ResumersHold /\ ActiveKept)'
  <2>1. stack[cur][i] \in Ctx \cup {NoCtx}
    BY <1>1 DEF Slots
  <2> QED  BY <2>1, <1>0, <1>5, HoldRegister DEF Copy
<1>6. ASSUME NEW i \in Reg, NEW g \in Glob, Store(i, g)
      PROVE  (ResumersHold /\ ActiveKept)'
  <2>1. /\ Settle(stack, [glob EXCEPT ![g] = stack[cur][i]], high, owner)
        /\ UNCHANGED <<cur, main, callers>>
    BY <1>6 DEF Store, runVars
  <2>2. [glob EXCEPT ![g] = stack[cur][i]] \in [Glob -> Ctx \cup {NoCtx}]
    BY <1>1 DEF Slots
  <2> QED  BY <2>1, <2>2, <1>0, <1>1, HoldOwnRegisters
<1>7. ASSUME NEW i \in Reg, NEW g \in Glob, Load(g, i)
      PROVE  (ResumersHold /\ ActiveKept)'
  <2>1. glob[g] \in Ctx \cup {NoCtx}
    BY <1>1
  <2> QED  BY <2>1, <1>0, <1>7, HoldRegister DEF Load
<1>8. ASSUME NEW i \in Reg, Clear(i)
      PROVE  (ResumersHold /\ ActiveKept)'
  BY <1>0, <1>8, HoldRegister DEF Clear
<1> QED  BY <1>2, <1>3, <1>4, <1>5, <1>6, <1>7, <1>8 DEF Script

LEMMA HoldResume ==
  ASSUME ContextsInv, ResumersHold, NEW i \in Reg, NEW a \in 0 .. Regs, Resume(i, a)
  PROVE  (ResumersHold /\ ActiveKept)'
<1> DEFINE c == stack[cur][i]
           st == IF begun[c] \/ a = 0 THEN stack ELSE [stack EXCEPT ![c][1] = stack[cur][a]]
           hi == [high EXCEPT ![cur] = live]
           cs == <<cur>> \o callers
<1>0. /\ Running /\ c # NoCtx /\ state[c] = "suspended"
      /\ callers' = cs /\ cur' = c /\ main' = main /\ Settle(st, glob, hi, owner)
  BY DEF Resume, Start
<1>1. /\ ChainOf(cur, callers) /\ StatesOf(state, owner, cur, callers) /\ OneMain(owner)
      /\ stack \in Slots /\ glob \in [Glob -> Ctx \cup {NoCtx}] /\ high \in [Ctx -> 0 .. Regs]
      /\ live \in 0 .. Regs /\ Named(stack, glob, owner)
  BY <1>0, ChainNow
<1>2. cur \in Ctx /\ \A x \in {cur} \cup ToSet(callers) : x \in Ctx /\ owner[x] # "pool"
  BY <1>0, RunFacts, ChainFacts
<1>3. c \in Ctx /\ owner[c] = "script"
  BY <1>0, <1>1, <1>2 DEF Slots, Named
<1>4. st \in Slots /\ \A x \in Ctx : x # c => st[x] = stack[x]
  <2>1. CASE begun[c] \/ a = 0
    BY <2>1, <1>1
  <2>2. CASE ~(begun[c] \/ a = 0)
    <3>1. a \in Reg /\ 1 \in Reg
      BY <2>2, ContextAssumption DEF Reg
    <3>2. stack[cur][a] \in Ctx \cup {NoCtx}
      BY <3>1, <1>1, <1>2 DEF Slots
    <3>3. st = [stack EXCEPT ![c][1] = stack[cur][a]]
      BY <2>2
    <3> HIDE DEF st, c
    <3> QED  BY <3>1, <3>2, <3>3, <1>1, <1>3 DEF Slots
  <2> QED  BY <2>1, <2>2
<1>5. stack[cur][i] = c
  OBVIOUS
<1> HIDE DEF c, st
<1>6. c # cur /\ c \notin ToSet(callers)
  BY <1>0, <1>1, <1>2, <1>3 DEF StatesOf
<1>7. ChainOf(c, cs) /\ ToSet(cs) = ToSet(callers) \cup {cur}
  BY <1>1, <1>3, <1>6, ChainGrows
<1>8. hi \in [Ctx -> 0 .. Regs]
  BY <1>1
<1>9. Holds(st, c, cs)
  <2>1. callers \in Seq(Ctx) /\ Len(callers) \in Nat /\ DOMAIN callers = 1 .. Len(callers)
    BY <1>1 DEF ChainOf
  <2>2. /\ DOMAIN cs = 1 .. Len(callers) + 1 /\ cs[1] = cur
        /\ \A k \in 1 .. Len(callers) : cs[k + 1] = callers[k]
    BY <2>1, <1>2
  <2> HIDE DEF cs
  <2>3. ASSUME NEW k \in DOMAIN cs
        PROVE  \E r \in Reg : st[cs[k]][r] = IF k = 1 THEN c ELSE cs[k - 1]
    <3>1. CASE k = 1
      BY <3>1, <2>2, <1>2, <1>4, <1>5, <1>6
    <3>2. CASE k # 1
      <4> DEFINE j == k - 1
      <4>1. j \in DOMAIN callers /\ cs[k] = callers[j]
        BY <3>2, <2>1, <2>2
      <4>2. PICK r \in Reg : stack[callers[j]][r] = IF j = 1 THEN cur ELSE callers[j - 1]
        BY <4>1, HoldsNow DEF Holds
      <4>3. cs[j] = IF j = 1 THEN cur ELSE callers[j - 1]
        <5>1. j = 1 \/ (j - 1 \in 1 .. Len(callers) /\ (j - 1) + 1 = j)
          BY <4>1, <2>1
        <5> QED  BY <5>1, <2>2
      <4>4. callers[j] \in Ctx /\ callers[j] # c
        BY <4>1, <1>2, <1>6 DEF ToSet
      <4> QED  BY <3>2, <4>1, <4>2, <4>3, <4>4, <1>4
    <3> QED  BY <3>1, <3>2
  <2> QED  BY <2>3 DEF Holds
<1>10. \A x \in {cur'} \cup ToSet(callers') : owner[x] # "pool"
  BY <1>0, <1>2, <1>3, <1>7
<1> HIDE DEF hi, cs
<1> QED  BY <1>0, <1>1, <1>4, <1>7, <1>8, <1>9, <1>10, HoldStep

\* The rest of the chain holds on when the nearest caller goes on.
LEMMA HoldsTail ==
  ASSUME NEW c, NEW cs \in Seq(Ctx), cs # <<>>, NEW st, Holds(st, c, cs)
  PROVE  Holds(st, Head(cs), Tail(cs))
<1> DEFINE t == Tail(cs)
<1>1. /\ Len(cs) \in Nat /\ DOMAIN cs = 1 .. Len(cs) /\ DOMAIN t = 1 .. Len(cs) - 1
      /\ \A k \in 1 .. Len(cs) - 1 : t[k] = cs[k + 1]
      /\ Head(cs) = cs[1]
  OBVIOUS
<1> HIDE DEF t
<1>2. ASSUME NEW k \in DOMAIN t
      PROVE  \E r \in Reg : st[t[k]][r] = IF k = 1 THEN Head(cs) ELSE t[k - 1]
  <2>1. k + 1 \in DOMAIN cs /\ k + 1 # 1 /\ (k + 1) - 1 = k /\ t[k] = cs[k + 1]
    BY <1>1
  <2>2. PICK r \in Reg : st[cs[k + 1]][r] = cs[k]
    BY <2>1 DEF Holds
  <2>3. cs[k] = IF k = 1 THEN Head(cs) ELSE t[k - 1]
    <3>1. k = 1 \/ (k - 1 \in 1 .. Len(cs) - 1 /\ (k - 1) + 1 = k)
      BY <1>1
    <3> QED  BY <3>1, <1>1
  <2> QED  BY <2>1, <2>2, <2>3
<1> QED  BY <1>2 DEF Holds, t

LEMMA HoldBack ==
  ASSUME ContextsInv, ResumersHold, Yield \/ Finish
  PROVE  (ResumersHold /\ ActiveKept)'
<1> DEFINE h == Head(callers)
<1>0. /\ Running /\ callers # <<>> /\ cur' = h /\ callers' = Tail(callers) /\ main' = main
  BY DEF Yield, Finish, Back
<1>1. /\ ChainOf(cur, callers) /\ OneMain(owner)
      /\ stack \in Slots /\ glob \in [Glob -> Ctx \cup {NoCtx}] /\ high \in [Ctx -> 0 .. Regs]
      /\ live \in 0 .. Regs /\ callers \in Seq(Ctx)
  BY <1>0, ChainNow DEF ChainOf
<1>2. cur \in Ctx /\ main \in Ctx /\ \A x \in {cur, main} \cup ToSet(callers) : x \in Ctx /\ owner[x] # "pool"
  BY <1>0, RunFacts, ChainFacts
<1>3. /\ ChainOf(h, callers') /\ h \in ToSet(callers)
      /\ ToSet(callers') = ToSet(callers) \ {h}
      /\ cur \notin ToSet(callers)
  BY <1>0, <1>1, ChainShrinks DEF ChainOf
<1>4. Holds(stack, h, callers')
  BY <1>0, <1>1, HoldsTail, HoldsNow
<1> HIDE DEF h
<1>5. CASE Yield
  <2>1. UNCHANGED <<owner, stack>>
    BY <1>5 DEF Yield
  <2>2. InUse' \subseteq {main} \cup ToSet(callers)
    BY <1>0, <1>3 DEF InUse
  <2>3. ActiveKept'
    BY <2>1, <2>2, <1>2 DEF ActiveKept
  <2>4. ResumersHold'
    BY <2>1, <1>0, <1>4 DEF ResumersHold, Holds
  <2> QED  BY <2>3, <2>4
<1>6. CASE Finish
  <2> DEFINE st == Cleared(stack, {cur}, [high EXCEPT ![cur] = live])
             hi == [high EXCEPT ![cur] = 0]
  <2>1. Settle(st, glob, hi, owner)
    BY <1>6 DEF Finish
  <2>2. st \in Slots /\ \A x \in Ctx : x # cur => st[x] = stack[x]
    BY <1>1 DEF Cleared, Slots
  <2>3. hi \in [Ctx -> 0 .. Regs]
    <3>1. 0 \in 0 .. Regs
      BY ContextAssumption
    <3> QED  BY <3>1, <1>1
  <2> HIDE DEF st, hi
  <2>4. Holds(st, h, callers')
    <3>1. \A k \in DOMAIN callers' : callers'[k] \in Ctx /\ callers'[k] # cur
      BY <1>2, <1>3 DEF ToSet
    <3> QED  BY <3>1, <2>2, <1>4 DEF Holds
  <2>5. /\ ChainOf(cur', callers') /\ Holds(st, cur', callers')
        /\ \A x \in {cur'} \cup ToSet(callers') : owner[x] # "pool"
    BY <2>4, <1>0, <1>2, <1>3
  <2> QED  BY <2>1, <2>2, <2>3, <2>5, <1>0, <1>1, HoldStep
<1> QED  BY <1>5, <1>6

LEMMA HoldClose ==
  ASSUME ContextsInv, ResumersHold, NEW i \in Reg, CloseSuspended(i)
  PROVE  (ResumersHold /\ ActiveKept)'
<1> DEFINE c == stack[cur][i]
           st == Cleared(stack, {c}, high)
           hi == [high EXCEPT ![c] = 0]
<1>0. /\ Running /\ c # NoCtx /\ state[c] = "suspended" /\ Settle(st, glob, hi, owner)
      /\ UNCHANGED <<cur, main, callers>>
  BY DEF CloseSuspended, Kill, runVars
<1>1. /\ ChainOf(cur, callers) /\ StatesOf(state, owner, cur, callers) /\ OneMain(owner)
      /\ stack \in Slots /\ glob \in [Glob -> Ctx \cup {NoCtx}] /\ high \in [Ctx -> 0 .. Regs]
      /\ Named(stack, glob, owner) /\ cur \in Ctx
      /\ \A x \in {cur} \cup ToSet(callers) : x \in Ctx /\ owner[x] # "pool"
  BY <1>0, ChainNow, RunFacts, ChainFacts
<1>2. c \in Ctx /\ owner[c] = "script"
  BY <1>0, <1>1 DEF Slots, Named
<1> HIDE DEF c
<1>3. c \notin ToSet(callers)
  BY <1>0, <1>1, <1>2 DEF StatesOf
<1>4. st \in Slots /\ \A x \in Ctx : x # c => st[x] = stack[x]
  BY <1>1 DEF Cleared, Slots
<1>5. hi \in [Ctx -> 0 .. Regs]
  <2>1. 0 \in 0 .. Regs
    BY ContextAssumption
  <2> QED  BY <2>1, <1>1
<1> HIDE DEF st, hi
<1>6. Holds(st, cur, callers)
  <2>1. \A k \in DOMAIN callers : callers[k] \in Ctx /\ callers[k] # c
    BY <1>1, <1>3 DEF ToSet
  <2> QED  BY <2>1, <1>4, HoldsNow DEF Holds
<1>7. ChainOf(cur', callers') /\ Holds(st, cur', callers')
      /\ \A x \in {cur'} \cup ToSet(callers') : owner[x] # "pool"
  BY <1>0, <1>1, <1>6
<1> QED  BY <1>0, <1>1, <1>4, <1>5, <1>7, HoldStep

LEMMA HoldHost ==
  ASSUME ContextsInv, ContextsInv', ResumersHold, Host
  PROVE  (ResumersHold /\ ActiveKept)'
<1>1. ASSUME callers' = <<>>, ActiveKept'
      PROVE  (ResumersHold /\ ActiveKept)'
  BY <1>1 DEF ResumersHold
<1>2. exec' # "in" => ActiveKept'
  BY DEF ContextsInv, StageSound
<1>3. ASSUME NEW c \in Ctx, NEW h \in Reg, Begin(c, h)
      PROVE  (ResumersHold /\ ActiveKept)'
  <2>1. callers' = <<>> /\ cur' = c /\ main' = c /\ owner' = [owner EXCEPT ![c] = "main"]
    BY <1>3 DEF Begin
  <2>2. owner'[c] = "main" /\ InUse' \subseteq {c}
    BY <2>1 DEF InUse, ToSet, ContextsInv, TypeOK
  <2> QED  BY <1>1, <2>1, <2>2 DEF ActiveKept
<1>4. CASE Fail \/ Cancel \/ EndHostCall \/ Complete
  BY <1>1, <1>2, <1>4 DEF Fail, Cancel, EndHostCall, Complete, Release, ReleaseChain
<1>5. ASSUME NEW s \in {"running", "suspended"}, CompleteKeeping(s)
      PROVE  (ResumersHold /\ ActiveKept)'
  <2>1. callers = <<>>
    BY <1>5, RunFacts, ChainFacts DEF CompleteKeeping
  <2> QED  BY <1>1, <1>2, <1>5, <2>1 DEF CompleteKeeping
<1>6. CASE Stop \/ Continue
  <2>1. UNCHANGED <<owner, stack, cur, main, callers>>
    BY <1>6 DEF Stop, Continue, ctxVars
  <2>2. ActiveKept
    BY <1>6, RunFacts DEF Stop, Continue, ContextsInv, StageSound
  <2> QED  BY <2>1, <2>2 DEF ResumersHold, ActiveKept, InUse
<1> QED  BY <1>3, <1>4, <1>5, <1>6 DEF Host

\* Nothing but closing a coroutine that waits takes the running chain apart.
THEOREM ChainKeepsItself == Spec => OthersKeepActive
<1>1. ContextsInv /\ [Next]_vars =>
        [ResumersHold => (ResumersHold /\ ActiveKept)' \/ \E i \in Reg : CloseCaller(i)]_vars
  <2> SUFFICES ASSUME ContextsInv, Next, ResumersHold
               PROVE  (ResumersHold /\ ActiveKept)' \/ \E i \in Reg : CloseCaller(i)
    OBVIOUS
  <2>1. ContextsInv'
    BY NextInv
  <2>2. CASE Host
    BY <2>1, <2>2, HoldHost
  <2>3. CASE Script
    BY <2>3, HoldScript
  <2>4. CASE Switch
    <3>1. ASSUME NEW i \in Reg, NEW a \in 0 .. Regs, Resume(i, a)
          PROVE  (ResumersHold /\ ActiveKept)'
      BY <3>1, HoldResume
    <3>2. ASSUME NEW i \in Reg, CloseSuspended(i)
          PROVE  (ResumersHold /\ ActiveKept)'
      BY <3>2, HoldClose
    <3> QED  BY <2>4, <3>1, <3>2, HoldBack DEF Switch
  <2> QED  BY <2>2, <2>3, <2>4 DEF Next
<1> QED  BY <1>1, ContextInvariant, PTL DEF Spec, OthersKeepActive

-----------------------------------------------------------------------------
(* The dead                                                                *)

\* A coroutine that ended or was closed never runs again.
THEOREM TheDeadStayDead == Spec => DeadStaysDead
<1> DEFINE Dead == \A c \in Ctx :
                     owner[c] = "script" /\ state[c] = "dead" /\ owner'[c] = "script"
                       => state'[c] = "dead"
<1>1. ContextsInv /\ [Next]_vars => [Dead]_vars
  <2> SUFFICES ASSUME ContextsInv, Next, NEW c \in Ctx,
                      owner[c] = "script", state[c] = "dead", owner'[c] = "script"
               PROVE  state'[c] = "dead"
    OBVIOUS
  <2>1. owner \in [Ctx -> {"pool", "main", "script"}] /\ state \in [Ctx -> States]
    BY DEF ContextsInv, TypeOK
  <2>2. Running => state[cur] # "dead" /\ cur \in Ctx /\ main \in Ctx /\ owner[main] = "main"
    BY RunFacts, ChainFacts
  <2>3. CASE Host
    <3>1. ASSUME NEW d \in Ctx, NEW h \in Reg, Begin(d, h) PROVE state'[c] = "dead"
      BY <3>1, <2>1 DEF Begin
    <3>2. CASE Fail \/ Cancel \/ EndHostCall \/ Complete
      BY <3>2 DEF Fail, Cancel, EndHostCall, Complete, Release, ReleaseChain
    <3>3. ASSUME NEW s \in {"running", "suspended"}, CompleteKeeping(s) PROVE state'[c] = "dead"
      BY <3>3, <2>1, <2>2 DEF CompleteKeeping
    <3>4. CASE Stop \/ Continue
      BY <3>4 DEF Stop, Continue, ctxVars
    <3> QED  BY <2>3, <3>1, <3>2, <3>3, <3>4 DEF Host
  <2>4. CASE Script
    <3>1. ASSUME NEW d \in Ctx, NEW i \in Reg, Create(d, i) PROVE state'[c] = "dead"
      BY <3>1, <2>1 DEF Create
    <3> QED  BY <2>4, <3>1
             DEF Script, Enter, Leave, LeaveFrame, Grow, Copy, Store, Load, Clear, ctxVars
  <2>5. CASE Switch
    <3>1. ASSUME NEW i \in Reg, NEW a \in 0 .. Regs, Resume(i, a) PROVE state'[c] = "dead"
      <4>1. /\ Running /\ state[stack[cur][i]] = "suspended"
            /\ state' = [state EXCEPT ![cur] = "normal", ![stack[cur][i]] = "running"]
        BY <3>1 DEF Resume, Start
      <4>2. c # cur /\ c # stack[cur][i]
        BY <4>1, <2>2
      <4> QED  BY <4>1, <4>2, <2>1
    <3>2. CASE Yield \/ Finish
      <4>1. /\ Running /\ callers # <<>> /\ state[Head(callers)] = "normal"
            /\ \/ state' = [state EXCEPT ![cur] = "suspended", ![Head(callers)] = "running"]
               \/ state' = [state EXCEPT ![cur] = "dead", ![Head(callers)] = "running"]
        BY <3>2 DEF Yield, Finish
      <4>2. c # cur /\ c # Head(callers)
        BY <4>1, <2>2
      <4> QED  BY <4>1, <4>2, <2>1
    <3>3. ASSUME NEW i \in Reg, CloseSuspended(i) \/ CloseCaller(i) PROVE state'[c] = "dead"
      BY <3>3, <2>1 DEF CloseSuspended, CloseCaller, Kill
    <3> QED  BY <2>5, <3>1, <3>2, <3>3 DEF Switch
  <2> QED  BY <2>3, <2>4, <2>5 DEF Next
<1> QED  BY <1>1, ContextInvariant, PTL DEF Spec, DeadStaysDead

=============================================================================
