----------------------------- MODULE HostCalls -----------------------------
(***************************************************************************)
(* What the host does with one instance (NeoSource/NeoScriptShim.cpp):     *)
(* prepare a call, invoke it, read its result, drop it; slices, stops,     *)
(* cancelling; reset, destruction and creation anew.  Native code that a   *)
(* script has called is the host again, one level deeper, and may do all   *)
(* of this while the handlers below it are half way through.               *)
(*                                                                         *)
(* "inst" is the InstanceRec together with what the calls see of its       *)
(* worker: who has the main execution context and what lies in the return  *)
(* slot.  "frames" is the C++ stack of the thread.  A handler that runs a  *)
(* script is two actions: up to the interpreter and from there on.         *)
(* What a host call is on the side of the contexts is module Contexts.     *)
(***************************************************************************)
EXTENDS Integers, Sequences, FiniteSets

CONSTANTS
  MaxCalls,    \* bound on the calls prepared in the life of an instance
  MaxFrames    \* bound on the nesting of host and script

ASSUME HostAssumption == MaxCalls \in Nat /\ MaxFrames \in Nat

Calls  == 1 .. MaxCalls            \* sequence numbers; 0 is "none"
None   == 0
Sliced == MaxCalls + 1             \* a run that has no Invocation
Null   == -1                       \* the return slot of an idle worker
Local  == -2                       \* a register of whoever runs
Statuses == {"Completed", "Suspended", "Cancelled", "Failed"}
HostOps  == {"read", "foreign"}    \* callbacks of the host that no script of this
                                   \* instance has called

VARIABLES
  inst,      \* the InstanceRec and its worker
  live,      \* the Invocation objects that exist (invocationCount)
  frames,    \* the C++ stack: scripts being run and host callbacks, outermost first
  bypassed   \* history: the debugger has resumed the stopped run of an Invocation

vars == <<inst, live, frames, bypassed>>

NewInst == [
  main |-> "idle",                 \* m_pMainCtx: null, bound, or retained by a stop
  exec |-> None,                   \* whose run has the main context
  slot |-> Null,                   \* what GetReturnVar points at
  lifecycleBusy |-> TRUE, gone |-> FALSE, generation |-> 0,
  callSeq |-> 0, armedSeq |-> None,
  args |-> FALSE, closure |-> FALSE,            \* callArgs, callClosure are not empty
  callStatus |-> "Failed", resultSeq |-> None,
  hostCallPending |-> FALSE, pendingBegin |-> "Acquired", pendingSeq |-> None,
  readers |-> {},                               \* whose results the reader pools hold
  suspendedHostCall |-> FALSE, suspendedResultOwnerAlive |-> FALSE,
  suspendedSeq |-> None]

\* The record has been deleted and its worker released.
Gone == [NewInst EXCEPT !.gone = TRUE]

-----------------------------------------------------------------------------
(* Who acts                                                                *)

Top == frames[Len(frames)]
Pop == SubSeq(frames, 1, Len(frames) - 1)

InterpreterRunning == \E i \in DOMAIN frames : frames[i].op \notin HostOps

HostTurn   == ~inst.gone /\ IF frames = <<>> THEN TRUE ELSE Top.native
ScriptTurn == frames # <<>> /\ ~Top.native

Frame(op, seq) ==
  [op |-> op, seq |-> seq, native |-> op \in HostOps, begin |-> "Acquired",
   retain |-> FALSE, suspended |-> FALSE, safe |-> "no", generation |-> inst.generation]

Push(f) == Len(frames) < MaxFrames /\ frames' = Append(frames, f)

-----------------------------------------------------------------------------
(* Pieces of the handlers, as functions of the record                      *)

\* ReleaseExecution as the host sees it.
Released(r) == [r EXCEPT !.main = "idle", !.exec = None, !.slot = Null]

EndHostCall(r, begin) ==
  IF begin = "Acquired" /\ r.main # "stopped" THEN Released(r) ELSE r

\* Mutant of Flushed: the owner of the context that went back is not forgotten.
FlushedOwned(r) ==
  IF r.hostCallPending
  THEN [EndHostCall(r, r.pendingBegin) EXCEPT !.hostCallPending = FALSE, !.readers = {}]
  ELSE r

\* FlushPendingCall: the borrowed return context goes back, readers with it.
Flushed(r) ==
  IF r.hostCallPending
  THEN [EndHostCall(r, r.pendingBegin) EXCEPT
          !.hostCallPending = FALSE, !.pendingSeq = None, !.readers = {}]
  ELSE r

FlushedIfOwn(r, s) == IF r.pendingSeq = s THEN Flushed(r) ELSE r

\* The return context is lent to the Invocation s.
Lent(r, s, begin) ==
  [r EXCEPT !.hostCallPending = TRUE, !.pendingBegin = begin, !.pendingSeq = s]

\* InvReturn gives s the return slot.
Readable(r, s) == r.pendingSeq = s /\ r.hostCallPending /\ r.callStatus = "Completed"

\* What the worker makes of the end of the outermost run: Run, RunSettle.
Settled(r, status, keep) ==
  CASE status = "Suspended" -> [r EXCEPT !.main = "stopped", !.slot = Local]
    [] status = "Completed" /\ keep -> [r EXCEPT !.main = "busy", !.slot = r.exec]
    [] OTHER -> Released(r)

-----------------------------------------------------------------------------
(* Prepare and drop                                                        *)

CallRefused ==
  \/ inst.lifecycleBusy /\ ~InterpreterRunning
  \/ inst.armedSeq # None
  \/ inst.main = "stopped"

\* Call.  "wrong" is a captured callback of another instance or function: it is
\* found out only after the pending call has been flushed.
Call(captured, wrong) ==
  /\ HostTurn /\ ~CallRefused /\ inst.callSeq < MaxCalls
  /\ wrong => captured
  /\ LET r == [Flushed(inst) EXCEPT !.closure = captured /\ ~wrong]
         s == inst.callSeq + 1
     IN IF wrong
        THEN inst' = r /\ live' = live
        ELSE /\ inst' = [r EXCEPT !.args = FALSE, !.callStatus = "Failed",
                                  !.callSeq = s, !.armedSeq = s]
             /\ live' = live \cup {s}
  /\ UNCHANGED <<frames, bypassed>>

\* argInt and its like.
Arg(s) ==
  /\ HostTurn /\ s \in live /\ inst.armedSeq = s
  /\ inst' = [inst EXCEPT !.args = TRUE]
  /\ UNCHANGED <<live, frames, bypassed>>

\* InvFinish, of any Invocation that is not itself being invoked.
Drop(s) ==
  /\ HostTurn /\ s \in live
  /\ \A i \in DOMAIN frames : ~(frames[i].op \in {"invoke", "read"} /\ frames[i].seq = s)
  /\ LET a == IF inst.armedSeq = s
              THEN [inst EXCEPT !.armedSeq = None, !.args = FALSE, !.closure = FALSE]
              ELSE inst
         b == FlushedIfOwn(a, s)
     IN inst' = IF b.suspendedHostCall /\ b.suspendedSeq = s
                THEN [b EXCEPT !.suspendedResultOwnerAlive = FALSE] ELSE b
  /\ live' = live \ {s}
  /\ UNCHANGED <<frames, bypassed>>

\* retMap, retList: the reader points into the value of the return slot.
Read(s) ==
  /\ HostTurn /\ s \in live /\ Readable(inst, s) /\ inst.slot # Null
  /\ inst' = [inst EXCEPT !.readers = @ \cup {s}]
  /\ UNCHANGED <<live, frames, bypassed>>

-----------------------------------------------------------------------------
(* Invocation::invoke, invokeR, invokeReadMap                              *)

\* Mutant of Invoked: what a nested call has left behind is not flushed.
InvokedOver(r, s, begin, status) ==
  LET a == [r EXCEPT !.resultSeq = s, !.callStatus = status] IN
    IF status = "Suspended"
    THEN [a EXCEPT !.suspendedHostCall = TRUE, !.suspendedResultOwnerAlive = TRUE,
                   !.suspendedSeq = s]
    ELSE IF begin = "Suspended" THEN a ELSE Lent(a, s, begin)

\* invoke from the end of RunHostCall on.  The result is the caller's now; what
\* a nested call has left behind is flushed before the context is lent on.
Invoked(r, s, begin, status) ==
  LET a == Flushed([r EXCEPT !.resultSeq = s, !.callStatus = status]) IN
    IF status = "Suspended"
    THEN [a EXCEPT !.suspendedHostCall = TRUE, !.suspendedResultOwnerAlive = TRUE,
                   !.suspendedSeq = s]
    ELSE IF begin = "Suspended" THEN a ELSE Lent(a, s, begin)

\* The part before the interpreter; BeginHostCall looks at the main context.
\* A nested call with a limit, or in a limited run, fails at once.
Invoke(s, safe, refused) ==
  /\ HostTurn /\ s \in live /\ inst.armedSeq = s
  /\ LET r == [Flushed(inst) EXCEPT !.armedSeq = None, !.args = FALSE, !.closure = FALSE]
         begin == CASE r.main = "stopped" -> "Suspended"
                    [] r.main = "idle"    -> "Acquired"
                    [] OTHER              -> "Nested"
         failed == LET a == Invoked(r, s, begin, "Failed") IN
                     IF safe = "no" THEN a ELSE FlushedIfOwn(a, s)
     IN \/ /\ begin = "Suspended" \/ (begin = "Nested" /\ refused)
           /\ inst' = failed
           /\ UNCHANGED frames
        \/ /\ begin # "Suspended" /\ ~refused
           /\ inst' = IF begin = "Acquired"
                      THEN [r EXCEPT !.main = "busy", !.exec = s, !.slot = Local]
                      ELSE [r EXCEPT !.slot = Local]
           /\ Push([Frame("invoke", s) EXCEPT !.begin = begin, !.safe = safe])
  /\ UNCHANGED <<live, bypassed>>

\* Whether the run that is ending is the outermost one of the worker.
Outermost == \A i \in 1 .. Len(frames) - 1 : frames[i].op \in HostOps

\* The run of an Invocation ends.  A failed outermost run keeps its context, too,
\* until it is flushed.  A callback of invokeReadMap is the host's turn again.
InvokeEnds(status) ==
  /\ ScriptTurn /\ Top.op = "invoke"
  /\ status = "Suspended" => Outermost
  /\ LET s == Top.seq
         r == CASE status = "Suspended" -> Settled(inst, status, TRUE)
                [] status = "Completed" -> [inst EXCEPT !.slot = s]
                [] OTHER                -> [inst EXCEPT !.slot = Local]
         a == Invoked(r, s, Top.begin, status)
     IN \/ /\ Top.safe = "no"
           /\ inst' = a /\ frames' = Pop
        \/ /\ Top.safe = "scalar" \/ (Top.safe = "read" /\ status # "Completed")
           /\ inst' = FlushedIfOwn(a, s) /\ frames' = Pop
        \/ /\ Top.safe = "read" /\ status = "Completed"
           /\ inst' = [a EXCEPT !.readers = {s}]
           /\ frames' = Append(Pop, Frame("read", s))
  /\ UNCHANGED <<live, bypassed>>

\* The callback of invokeReadMap returns.
ReadEnds ==
  /\ HostTurn /\ frames # <<>> /\ Top.op = "read"
  /\ inst' = FlushedIfOwn(inst, Top.seq)
  /\ frames' = Pop
  /\ UNCHANGED <<live, bypassed>>

-----------------------------------------------------------------------------
(* The script calls native code                                            *)

EnterNative ==
  /\ ScriptTurn
  /\ frames' = [frames EXCEPT ![Len(frames)].native = TRUE]
  /\ UNCHANGED <<inst, live, bypassed>>

\* The caller goes on; its registers are back under the stack pointer.
LeaveNative ==
  /\ HostTurn /\ frames # <<>> /\ Top.op \notin HostOps
  /\ frames' = [frames EXCEPT ![Len(frames)].native = FALSE]
  /\ inst' = [inst EXCEPT !.slot = Local]
  /\ UNCHANGED <<live, bypassed>>

\* A script of another instance calls an object of this one (MethodTrampoline,
\* PropertyTrampoline): nativeCallbackDepth is the number of these frames.  Other
\* scripts get hold of it once the global code of this one runs.
EnterForeign(generation) ==
  /\ HostTurn /\ (inst.lifecycleBusy => InterpreterRunning)
  /\ generation = inst.generation
  /\ Push(Frame("foreign", None))
  /\ UNCHANGED <<inst, live, bypassed>>

LeaveForeign ==
  /\ HostTurn /\ frames # <<>> /\ Top.op = "foreign"
  /\ frames' = Pop
  /\ UNCHANGED <<inst, live, bypassed>>

-----------------------------------------------------------------------------
(* Runs without an Invocation, resuming, cancelling                        *)

MayRun == ~inst.lifecycleBusy /\ inst.armedSeq = None /\ ~InterpreterRunning

\* ExecuteTop: the whole life of the context is inside it, unless it stops.
ExecuteTop(r) ==
  /\ inst' = [r EXCEPT !.main = "busy", !.exec = Sliced, !.slot = Local]
  /\ Push(Frame("plain", None))

\* They give way to a stopped run, or to a name unknown, only after the flush.
StartTop(found) ==
  /\ HostTurn /\ MayRun
  /\ LET r == Flushed(inst) IN
       IF r.main = "idle" /\ found THEN ExecuteTop(r) ELSE inst' = r /\ UNCHANGED frames
  /\ UNCHANGED <<live, bypassed>>

StartSliced == \E found \in BOOLEAN : StartTop(found)

RunGlobalInit == StartTop(TRUE)

\* Mutant of Resumed: the owner is taken to be alive still.
ResumedTrustingOwner(r, status, f) ==
  IF ~f.suspended THEN r
  ELSE
    LET a == Flushed([r EXCEPT !.resultSeq = f.seq, !.callStatus = status])
        b == IF status = "Completed" /\ f.retain THEN Lent(a, f.seq, "Acquired") ELSE a
    IN IF status = "Suspended" THEN a
       ELSE [b EXCEPT !.suspendedHostCall = FALSE,
                      !.suspendedResultOwnerAlive = FALSE, !.suspendedSeq = None]

\* Mutant of Resumed: what nested calls have left behind is flushed last.
ResumedFlushLast(r, status, f) ==
  IF ~f.suspended THEN r
  ELSE
    LET a == [r EXCEPT !.resultSeq = f.seq, !.callStatus = status]
        b == IF ~(status = "Completed" /\ f.retain) THEN a
             ELSE IF a.suspendedResultOwnerAlive THEN Lent(a, f.seq, "Acquired")
             ELSE EndHostCall(a, "Acquired")
    IN IF status = "Suspended" THEN Flushed(a)
       ELSE [Flushed(b) EXCEPT !.suspendedHostCall = FALSE,
                      !.suspendedResultOwnerAlive = FALSE, !.suspendedSeq = None]

\* Mutant of Resumed: nobody pays for a result whose Invocation is gone.
ResumedUnpaid(r, status, f) ==
  IF ~f.suspended THEN r
  ELSE
    LET a == Flushed([r EXCEPT !.resultSeq = f.seq, !.callStatus = status])
        b == IF status = "Completed" /\ f.retain /\ a.suspendedResultOwnerAlive
             THEN Lent(a, f.seq, "Acquired") ELSE a
    IN IF status = "Suspended" THEN a
       ELSE [b EXCEPT !.suspendedHostCall = FALSE,
                      !.suspendedResultOwnerAlive = FALSE, !.suspendedSeq = None]

\* ResumeInstanceExecution after ResumeTop.  Whether the result was to be kept
\* has been decided before; who gets it is decided now.
Resumed(r, status, f) ==
  IF ~f.suspended THEN r
  ELSE
    LET a == Flushed([r EXCEPT !.resultSeq = f.seq, !.callStatus = status])
        b == IF ~(status = "Completed" /\ f.retain) THEN a
             ELSE IF a.suspendedResultOwnerAlive THEN Lent(a, f.seq, "Acquired")
             ELSE EndHostCall(a, "Acquired")
    IN IF status = "Suspended" THEN a
       ELSE [b EXCEPT !.suspendedHostCall = FALSE,
                      !.suspendedResultOwnerAlive = FALSE, !.suspendedSeq = None]

ResumeFrame ==
  [Frame("resume", inst.suspendedSeq) EXCEPT
     !.suspended = inst.suspendedHostCall,
     !.retain = inst.suspendedHostCall /\ inst.suspendedResultOwnerAlive]

\* Resume.  On an idle worker ResumeTop is over at once and Completed.
Resume ==
  /\ HostTurn /\ MayRun /\ ~inst.hostCallPending
  /\ IF inst.main = "idle"
     THEN inst' = Resumed(inst, "Completed", ResumeFrame) /\ UNCHANGED frames
     ELSE inst' = [inst EXCEPT !.main = "busy", !.slot = Local] /\ Push(ResumeFrame)
  /\ UNCHANGED <<live, bypassed>>

\* UpdateSliced reports an idle instance as Completed and does nothing.
UpdateSliced ==
  /\ HostTurn /\ MayRun /\ ~inst.hostCallPending /\ inst.main # "idle"
  /\ inst' = [inst EXCEPT !.main = "busy", !.slot = Local]
  /\ Push(ResumeFrame)
  /\ UNCHANGED <<live, bypassed>>

\* DebuggerImpl::Run goes to ResumeTop itself, past ResumeInstanceExecution.
DebuggerRun ==
  /\ HostTurn /\ ~InterpreterRunning /\ inst.main # "idle"
  /\ ~inst.hostCallPending /\ inst.armedSeq = None
  /\ inst' = [inst EXCEPT !.main = "busy", !.slot = Local]
  /\ Push(Frame("plain", None))
  /\ bypassed' = (bypassed \/ inst.suspendedHostCall)
  /\ UNCHANGED live

\* A run that Resume, StartSliced, the debugger or LoadVM has started ends.  The
\* last of these ends a reset or a creation with it.
RunEnds(status) ==
  /\ ScriptTurn /\ Top.op \in {"plain", "resume"}
  /\ inst' = [Resumed(Settled(inst, status, Top.retain), status, Top)
                EXCEPT !.lifecycleBusy = FALSE]
  /\ frames' = Pop
  /\ UNCHANGED <<live, bypassed>>

\* Cancel drops the arguments of a prepared call, but leaves it prepared.
Cancel ==
  /\ HostTurn /\ ~inst.lifecycleBusy /\ ~InterpreterRunning
  /\ inst' = [Released(Flushed(inst)) EXCEPT
                !.args = FALSE, !.suspendedHostCall = FALSE,
                !.suspendedResultOwnerAlive = FALSE, !.suspendedSeq = None,
                !.callStatus = "Cancelled"]
  /\ UNCHANGED <<live, frames, bypassed>>

-----------------------------------------------------------------------------
(* Life of the instance                                                    *)

CanDestroyInstance ==
  /\ ~inst.lifecycleBusy /\ live = {} /\ ~InterpreterRunning
  /\ \A i \in DOMAIN frames : frames[i].op # "foreign"

\* ResetInstance up to LoadVM.  callSeq and the status of the last call stay.
ResetInstance ==
  /\ HostTurn /\ CanDestroyInstance
  /\ inst' = [NewInst EXCEPT
                !.generation = 1 - inst.generation, !.callSeq = inst.callSeq,
                !.resultSeq = inst.resultSeq]
  /\ UNCHANGED <<live, frames, bypassed>>

\* LoadVM runs the global code, or not, or fails.  Hooks of the host run before it.
LoadRuns ==
  /\ HostTurn /\ inst.lifecycleBusy /\ ~InterpreterRunning
  /\ ExecuteTop(inst)
  /\ UNCHANGED <<live, bypassed>>

LoadDone ==
  /\ HostTurn /\ inst.lifecycleBusy /\ ~InterpreterRunning
  /\ \E failed \in BOOLEAN :
       inst' = IF failed THEN Gone ELSE [inst EXCEPT !.lifecycleBusy = FALSE]
  /\ UNCHANGED <<live, frames, bypassed>>

DestroyInstance ==
  /\ HostTurn /\ CanDestroyInstance
  /\ inst' = Gone
  /\ UNCHANGED <<live, frames, bypassed>>

\* A new instance takes the place of the one that is gone.
CreateInstance ==
  /\ inst.gone /\ frames = <<>>
  /\ inst' = NewInst
  /\ bypassed' = FALSE
  /\ UNCHANGED <<live, frames>>

-----------------------------------------------------------------------------
Init == inst = NewInst /\ live = {} /\ frames = <<>> /\ bypassed = FALSE

Next ==
  \/ \E captured, wrong \in BOOLEAN : Call(captured, wrong)
  \/ \E s \in Calls : Arg(s) \/ Drop(s) \/ Read(s)
  \/ \E s \in Calls, safe \in {"no", "scalar", "read"}, refused \in BOOLEAN :
       Invoke(s, safe, refused)
  \/ \E status \in {"Completed", "Suspended", "Failed"} :
       InvokeEnds(status) \/ RunEnds(status)
  \/ ReadEnds
  \/ EnterNative
  \/ LeaveNative
  \/ \E generation \in {0, 1} : EnterForeign(generation)
  \/ LeaveForeign
  \/ StartSliced
  \/ RunGlobalInit
  \/ Resume
  \/ UpdateSliced
  \/ DebuggerRun
  \/ Cancel
  \/ ResetInstance
  \/ LoadRuns
  \/ LoadDone
  \/ DestroyInstance
  \/ CreateInstance

Spec == Init /\ [][Next]_vars

-----------------------------------------------------------------------------
(* Properties                                                              *)

InstType ==
  [main : {"idle", "busy", "stopped"}, exec : Calls \cup {None, Sliced},
   slot : Calls \cup {Sliced, Null, Local},
   lifecycleBusy : BOOLEAN, gone : BOOLEAN, generation : {0, 1},
   callSeq : 0 .. MaxCalls, armedSeq : Calls \cup {None},
   args : BOOLEAN, closure : BOOLEAN, callStatus : Statuses, resultSeq : Calls \cup {None},
   hostCallPending : BOOLEAN, pendingBegin : {"Acquired", "Nested"},
   pendingSeq : Calls \cup {None}, readers : SUBSET Calls,
   suspendedHostCall : BOOLEAN, suspendedResultOwnerAlive : BOOLEAN,
   suspendedSeq : Calls \cup {None}]

FrameType ==
  [op : {"plain", "resume", "invoke"} \cup HostOps, seq : Calls \cup {None},
   native : BOOLEAN, begin : {"Acquired", "Nested"}, retain : BOOLEAN,
   suspended : BOOLEAN, safe : {"no", "scalar", "read"}, generation : {0, 1}]

\* The record and the stack stay in shape; a context is lent to somebody or nobody.
TypeOK ==
  /\ inst \in InstType /\ frames \in Seq(FrameType) /\ bypassed \in BOOLEAN
  /\ live \subseteq 1 .. inst.callSeq /\ inst.suspendedSeq <= inst.callSeq
  /\ inst.hostCallPending <=> inst.pendingSeq # None
  /\ Len(frames) <= MaxFrames

\* Outside the interpreter a bound execution context has exactly one debtor: a
\* completed or failed call that still borrows it (FlushPendingCall pays for it),
\* or a stop, which only resuming or cancelling ends.
ContextAccounted ==
  ~InterpreterRunning =>
    /\ inst.main = "busy" => inst.hostCallPending /\ inst.pendingBegin = "Acquired"
    /\ ~bypassed =>
         /\ inst.hostCallPending /\ inst.pendingBegin = "Acquired" => inst.main = "busy"
         /\ inst.suspendedHostCall => inst.main = "stopped" /\ inst.exec = inst.suspendedSeq

\* No live Invocation is given the return slot while the result of another run lies
\* in it.  docs/Embedding.md:180, of a borrowed result: "It never exposes the result of
\* a newer call."
NeverAnothersResult ==
  \A s \in live : Readable(inst, s) => inst.slot \in {s, Null, Local}

\* An Invocation that is given the return slot of a top-level call finds its own
\* result there, and readers exist only of the call that borrows the slot.
ResultsStayApart ==
  ~bypassed =>
    /\ NeverAnothersResult
    /\ \A s \in live :
         Readable(inst, s) /\ inst.pendingBegin = "Acquired" => inst.slot = s
    /\ inst.readers \subseteq (IF inst.hostCallPending THEN {inst.pendingSeq} ELSE {})

\* Whatever is held on behalf of an Invocation is held for one that exists, and
\* every callback under way belongs to the present life of the instance.
OwnersAlive ==
  /\ {inst.armedSeq, inst.pendingSeq} \subseteq live \cup {None}
  /\ inst.suspendedResultOwnerAlive => inst.suspendedSeq \in live
  /\ \A i \in DOMAIN frames :
       /\ frames[i].generation = inst.generation /\ ~inst.gone
       /\ frames[i].op \in {"invoke", "read"} => frames[i].seq \in live

\* Arguments and a captured callback wait only for a prepared call: none is left
\* over for the next one, or for nobody to release.
ScratchOwned == inst.args \/ inst.closure => inst.armedSeq # None

(* The inductive invariant *)

\* No script runs below frame i.
Lowest(i) == \A j \in 1 .. i - 1 : frames[j].op \in HostOps

\* Only the top frame may be in the hands of a script; runs without an Invocation,
\* and calls that have acquired the context, have no script below them.
FramesSound ==
  \A i \in DOMAIN frames :
    /\ i < Len(frames) \/ frames[i].op \in HostOps => frames[i].native
    /\ frames[i].op \in {"plain", "resume"} => Lowest(i)
    /\ frames[i].op = "invoke" => (frames[i].begin = "Acquired" <=> Lowest(i))

\* While a script runs the context is its own: what is lent is lent by a nested call.
RunSound ==
  /\ InterpreterRunning =>
       inst.main = "busy" /\ (inst.hostCallPending => inst.pendingBegin = "Nested")
  /\ inst.main # "idle" => inst.exec # None
  /\ \A i \in DOMAIN frames :
       frames[i].op = "invoke" /\ Lowest(i) => inst.exec = frames[i].seq

\* What the record says of a stopped call, and what the frame that resumes it noted.
StopSound ==
  /\ inst.suspendedHostCall =>
       (inst.suspendedResultOwnerAlive <=> inst.suspendedSeq \in live)
  /\ ~inst.suspendedHostCall =>
       inst.suspendedSeq = None /\ ~inst.suspendedResultOwnerAlive
  /\ \A i \in DOMAIN frames :
       /\ frames[i].retain => frames[i].suspended
       /\ frames[i].suspended =>
            /\ frames[i].op = "resume"
            /\ inst.suspendedHostCall /\ inst.suspendedSeq = frames[i].seq
            /\ frames[i].seq \in live => frames[i].retain
            /\ ~bypassed => inst.exec = frames[i].seq
  /\ ~bypassed /\ InterpreterRunning /\ inst.suspendedHostCall =>
       \E i \in DOMAIN frames : frames[i].suspended

\* What lies in the slot that is lent, and whose readers exist.
LendSound ==
  /\ inst.readers \subseteq (IF inst.hostCallPending THEN {inst.pendingSeq} ELSE {})
  /\ ~bypassed /\ inst.hostCallPending /\ inst.callStatus = "Completed" =>
       inst.slot \in {inst.pendingSeq} \cup
                     (IF inst.pendingBegin = "Acquired" THEN {} ELSE {Null, Local})

\* An instance that is gone, or being made, has no past; only its global code runs.
BusySound ==
  /\ inst.gone => inst.lifecycleBusy
  /\ inst.lifecycleBusy =>
       IF InterpreterRunning THEN \E i \in DOMAIN frames : frames[i].op = "plain"
       ELSE /\ frames = <<>> /\ live = {} /\ inst.main = "idle" /\ inst.armedSeq = None
            /\ ~inst.hostCallPending /\ ~inst.suspendedHostCall

\* The properties of a state and what makes them inductive: at every step of the host,
\* of a script or of native code, however deep, the record agrees with the stack.
HostInv ==
  /\ TypeOK /\ FramesSound /\ RunSound /\ StopSound /\ LendSound /\ BusySound
  /\ ContextAccounted /\ OwnersAlive /\ ScratchOwned

\* When a stopped call completes, its result goes to its Invocation if that still
\* exists, whatever native code did in the meantime, and else to nobody.
ResultFollowsOwner ==
  [][ inst.suspendedHostCall /\ ~inst'.suspendedHostCall
      /\ inst'.callStatus = "Completed" /\ ~bypassed =>
        IF inst.suspendedSeq \in live
        THEN Readable(inst', inst.suspendedSeq) /\ inst'.slot = inst.suspendedSeq
        ELSE inst'.main = "idle" ]_vars

=============================================================================
