# A verification development for NeoScript

NeoScript (`src/NeoSource`) is an embeddable script language: a compiler to a
register bytecode, an interpreter, a reference-counted heap with a cycle
collector, coroutines, an HTTP thread, and a host API in C++ (with a Unity
binding on top).  This directory holds TLA+ models of the parts whose
correctness depends on long sequences of steps, the TLC runs that check them on
small instances, and proofs checked by TLAPS for every size of the instance.

## The system

| Part | State it keeps | Operations | What makes it correct |
|---|---|---|---|
| Heap (`NeoVM.cpp`, `NeoVM.h`, `NeoVMInternal.h`) | `_refCount` of every container, seven candidate queues, `_sDestroyQueue`, live lists, pools | `Move`, `Var_Release`, `*Alloc`, `Free*`, `CollectCycles`, `~CNeoVM` | exact counts, no dangling slot, every cycle is found in the end, a collector frees only what no script reaches |
| Execution contexts (`NeoVMWorker.cpp`, `NeoLib.cpp`) | `m_pCur`, `m_pMainCtx`, `m_pRegisterActive`, `m_sCoroutines`, `_state` of each context, the shared context pool | create, resume, yield, close, `BeginHostCall` / `EndHostCall`, `CancelExecution`, `ReleaseExecution` | one running context, callers form a chain, no context in the pool is still in use |
| HTTP requests (`NeoVM.cpp`, `NeoQueue.h`, `NeoLib.cpp`) | job queue, completion queue, `_asyncPendingCount`, `_orphanAsyncCount`, `_state` and event of each request | `get`, `post`, `wait`, the HTTP thread, `handle_IDLE`, discarding by worker, shutdown | each completion is dispatched once and only by its owner, no request outlives its memory, shutdown ends |
| Host API (`NeoScriptShim.cpp`) | instances, invocations, generations, nesting depth | `Begin` / `Call` / results, `Reset`, sliced execution, destruction | a result is read only while it is valid, an instance is destroyed only when idle |
| Hash tables (`NeoVMMap.cpp`, `NeoVMSet.cpp`) | buckets, chains, mutation version | insert, find, remove, grow, iterate | a finite map, iteration that notices structural change |
| String interner, memory pools (`NeoVM.cpp`, `NeoVMMemoryPool.h`) | intern table; pages, free lists, hold times | intern, release, rehash; receive, confer, trim | one node per string; no page in use is returned |
| Captured lambdas (`NeoVMWorker*.inl`, `NeoVMWorker.cpp`) | `_captures`, active closure, closure call stack | make, call, write back at RET / yield / unwind | every frame's captures are written back once, to the right closure, and its reference is given up once |
| Loader (`NeoVMProgram.cpp`) | the image | validate | no accepted image makes the interpreter leave its tables; not modelled |
| Compiler (`NeoParser.cpp`, `NeoExport.cpp`) | per compilation only | parse, resolve, emit | not modelled: a relation between programs |
| Debugger (`NeoVMWorker.cpp`, `Samples/console`) | breakpoints, pause mode | pause, step, continue | not modelled, but for stops and `DebuggerRun` |
| Standard library, JSON, regex, time, Unity binding | none that outlives a call | | not modelled |

Scripts run on the thread that calls into the host API; the one other thread is
the HTTP thread, which meets the VM at two queues.  Everything else that
interleaves does so on one thread: a release cascades into other releases, a
collection walks over what the script built, a coroutine hands the registers of
the worker over, native code calls scripts that call native code.

## Modules

### GcHeap — what the heap promises

A store of slots.  The script changes only what it can reach; the runtime may
cut and take back only what the script cannot reach.  No counts or colours.
Reachable is the least set that holds the roots and that no child slot leads out of.

### NeoHeap — how the code does it

One action per step of the code that can be observed by another step:

* `slot`, `rc`, `status`, `may` are the references, `_refCount`, where a node is
  (pool, live, inside its `Free*`) and `_mayContainContainerChild`.
* `Release` is `Var_ReleaseInternal`: a count that falls to zero pushes the node
  on the destroy queue, one that does not files a candidate ticket.
* `PopDestroy`, `FreeChild`, `FreeDone` are the draining loop of
  `QueueContainerForDestroy` and the bodies of the `Free*`.
* `StartMove` / `MoveCopies` are the two halves of `Move`, with the cascade of
  the release between them; `Alloc`, `Drop`, `Resume`, `Yield`, `AsyncRequest`,
  `AsyncDispatch` are what instructions and natives do to references.
* `Collect` to `PassEnds` are `CollectCycles` and
  `CollectUnreachableCycleCandidates`, phase by phase: pop candidates within the
  budget, trace, scan, blacken, hold the white nodes, cut, let go.
* `BeginTeardown` to `EndTeardown` are `~CNeoVM`.

The order inside one worklist or one container is left open (any pending
element may be next); the code's order is one of these.  `_mayContainContainerChild`
of asyncs, closures and coroutines is set where the code sets it.  A worker as
a *value* (`VAR_MODULE`) is not modelled: it is a native root that is never
traced.

`Resume` and `Yield` are here because the resume chain is a root of the
collector; `coroutine.close`, ends of bodies and errors are in `Contexts`.

### Contexts — who runs on which execution context

The contexts of one worker.  `owner` says who a pool node belongs to (the pool,
the worker's main context, a script), `cur`, `main` and `callers` are `m_pCur`,
`m_pMainCtx` and `m_sCoroutines`, `live` is the worker's own high-water mark and
`high` the one saved in each context, `bases` the native frames that have called
back into the script, and `exec` whether the interpreter is on the stack, stopped
or has left a result.  A stack is a few slots that may hold coroutines.

* `Begin`, `Complete`, `CompleteKeeping`, `EndHostCall`, `Stop`, `Continue`,
  `Cancel` and `Fail` are the host calls and the ways `Run` returns;
  `ReleaseChain` is `ReleaseExecution`, which kills the whole chain.
* `Enter`, `Leave` and `LeaveFrame` are natives that call the script.
* `Create`, `Resume`, `Yield`, `Finish`, `CloseSuspended` and `CloseCaller` are the
  coroutine library with `StartCoroutione`, `StopCoroutine` and `DeadCoroutine`.
* `Settle` follows each of them: whatever is no longer referred to from outside
  is cleared up to its saved mark and goes to the pool.  It takes the place of
  the counts, which `NeoHeap` shows to equal the references.

Closing a coroutine that waits may free the context the interpreter runs on (see
Findings).  What the program does from there on is undefined, so `Running`, the
guard of every step of the interpreter, includes `ActiveKept`: the model stops
there, the runs do not ask for freedom from deadlock, and three invariants are
stated under `ActiveKept`.  `OthersKeepActive` says that nothing else can break
the chain.

The lambdas whose frames are on the stacks are in `Captures`.  Left out: the
debugger, and a coroutine that reaches another worker of the same VM.

### AsyncContract — what a script may rely on; AsyncHttp — how it is done

`AsyncHttp` interleaves the thread of `ThreadFunction` with the thread that runs
the VM.  A step is an access to a queue under its lock, or what lies between two
of them; `vm` is the program counter of `wait()`, `~CNeoVMWorker` and `~CNeoVM`,
`stage` the one of the HTTP thread.

* `Get`, `Wait`, `Wake`, `PopOwn`, `OwnDone`, `DiscardOrphan` and `OrphansDone` are
  `async.get` / `post`, `async.wait` and `NOP_IDLE`, which dispatches the answers of
  the worker and throws away those whose worker is gone.
* `Take`, `Register`, `NoTransport`, `Answer` and `Publish` are the thread.
  `Register` re-reads `_job_end` under the lock that the destructor sets it under.
* `Publish` sets the event, the state and the entry of the completion queue in one
  step because the code does all three under the lock of the queue.  `wait()`
  reads `_state` without that lock, as `Wait` does at any step of the thread: a
  stale value of that one byte is the value an earlier read would have seen.
* `Spawn` and `Destroy` are the life of a worker with its discarding of requests;
  `End` to `Freed` are `~CNeoVM`.

`ImplementsContract` maps requests to phases: asked, answered, delivered,
dropped.  The contract's `Deliver(r, w)` wants the callback to run on `w`, the worker
that asked; `receiver` is a history variable for it, the worker on whose stack
`handle_IDLE` called the callback.  `Pop` writes it from the worker that waits,
whoever asked, so that the refinement rests on what `Pop_AsyncInfo` compares: with
`PopAny`, one that takes the answers of any living worker, it fails at the first wait
of a worker that did not ask.  Worker IDs do not come back in the model; in the code they wrap after
2^32 and skip the living.  The frames of several callbacks found by one wait are
left out (a callback is *called* or *dropped*).

### HostCalls — the host and one instance

`inst` is the `InstanceRec` with what the calls see of its worker: `main` is
`m_pMainCtx` (null, bound, or kept by a stop), `exec` whose run has it, `slot` what
`GetReturnVar` points at, `hostCallPending` / `pendingSeq` the call that borrows it.
`frames` is the C++ stack of the thread: scripts being run and callbacks of the
host.  A handler that runs a script is two actions, because native code that the
script calls is the host again and may call, drop, cancel or reset in between.

* `Call`, `Arg`, `Invoke` / `InvokeEnds`, `Read`, `ReadEnds`, `Drop` are `Begin`, the
  arguments, `invoke` with its variants (`safe` is `invokeR` and `invokeReadMap`),
  readers and `InvFinish`.
* `StartSliced`, `RunGlobalInit`, `Resume`, `UpdateSliced`, `DebuggerRun` with `RunEnds`
  are the runs that have no Invocation, or go on with a stopped one.
* `Cancel`, `ResetInstance`, `LoadRuns`, `LoadDone`, `DestroyInstance`,
  `CreateInstance` are the life of the instance; a reset refuses while anything of
  it is in use.
* `EnterForeign` / `LeaveForeign` are an object of this instance being called by a
  script of another one.  While an instance is being made this happens only once its
  global code runs: nobody else has its objects before.

Two things that the model shows and no run asks for, since the code's documents
can be read either way: the result of a call made inside a native callback, when
the Invocation is kept past that callback, is read from a register of the script
that called it (`LeaveNative` makes the slot `Local`; docs/Embedding.md:221 says a
result is valid until the next call on the instance); and `Cancel` drops the
arguments of a prepared call but leaves it prepared, so that it runs later
without them (docs/Embedding.md:143).

### Captures — whose frame it is

A call copies the captures of a lambda into slots of its frame, and the end of the
frame copies them back.  A frame does not say whose body it runs: `active`
(`m_pActiveClosure`) names the lambda of the topmost frame, `parked`
(`m_sClosureCallStack`) those of the frames below, `saved` (`_activeClosure`) the
topmost one of a context that was left, and `natives` what native code that called
back has interrupted.  `calls` is what the frames really are, and `CapturesInv`
compares the two.  `exec` is the part of `_refCount` that executing frames hold.

* `Make`, `Forget`, `Write` are what scripts do with lambdas as values.
* `Call`, `Return`, `Enter` / `Leave` (`testCall` and a nested `RunHostCall`) and `Answers`
  (`handle_IDLE`, which makes the frames of all answers of one wait before any of
  them runs) are the ways frames come and go.
* `Create`, `Resume`, `Yield`, `BodyEnds`, `CloseSelf`, `Close`, `Discard` are the coroutine
  library with `DrainCoroutineClosures` and `FreeCoroutine`.
* `Begin`, `Complete`, `Cancel`, `YieldMain`, `Fail` are host calls and top-level runs, and
  the ways they end: `Settled` lists what each context of the chain has to give
  back, in the order of `ReleaseExecution`.

An execution that stops and goes on (sleep, time slice, debugger) changes nothing of
this; `Cancel` may happen between any two instructions outside native code.

Two steps make the worker mistake one frame for another: `Close`, when the coroutine is
suspended in the lambda that runs (see Findings), and `YieldMain`.  They set `astray`, and
from there on only returns are followed.  `EndsWriteBack` states the copy-back order of
docs/Embedding.md:240-243: of overlapping calls of one lambda, the one that was
called first writes last and stays.

What the model shows and no run asks for, as the documents can be read either way:

* A lambda called by the host that yields with nobody to return to: `GC()`
  (`NeoVMWorker.h:522`) clears the registers above the result, captured ones included,
  and `EndHostCall` then copies the nulls back into the lambda.
* The same yield inside a recursion of the lambda: `UnwindActiveClosures` takes the
  context's pointer for the alias of a lower frame and drops it; its reference is
  never given up.
* When a host call made by native code fails, the lambda that called the native is
  released without copying back (`ReleaseDetachedClosureWithoutSync`), although an error of
  its own would have copied back; and a top-level run that fails drops what the waiting
  contexts held, while a failed host call copies it back unless the debugger saw the error.
* Two answers of one wait that call the same lambda both start from the captures as
  they were before the wait, and the answer that came first overwrites the other one.

### Collection — what a script may rely on; HashTable — how it is done

`table` is `_Bucket` with `_BucketCapa` and `_lastFree`; a node is its key and `next`.
`InsertNewNode`, `Unlinked` (`Remove`) and `Reach` (`FirstNode`, `NextNode`) are functions of
the table, the operations of a script are the actions.  A `Chain`, which the code walks
along `next`, is the least set that holds the primary slot and that no `next` leads out of.
`ReMap` goes node by node: `call` holds for which key and why the array is rebuilt, the new
array and how far it has come; `Transfer` copies one node, `EndReMap` puts the new array in
the old one's place and goes on with the `Insert` (`Put`), which may call `ReMap` a second
time.  Nothing else runs meanwhile.  `RoomIsFound` follows an insert through these steps.
`loop` is one `foreach`: its node pointer, and whether the version it
noted is still that of the table.  `ImplementsCollection` maps the nodes that the loop has
passed to the keys it has given: an end without an error has given each once.
A `foreach` keeps its collection alive in a hidden register, so the table cannot be
freed under it.  `NeoVMSet.cpp` is the same code without the values.

### StringInterner

`slots` is `m_sStringIntern`; `Probe` is the loop of every search, around the end of the table
(`Way`, `Behind`).  `interned` are the strings with `_interned` set.  `work` is the loop under
way: `CloseHole` takes out the next string behind a hole and places it again, until
`HoleClosed` finds an empty slot and shrinks the table if it is too large; `Rehash` moves the
next of the old slots, and `EndRehash` inserts the string that needed the room.  Nothing else
runs meanwhile.  `OneNodePerString` says at each of these steps where the strings are and which
of them a probe may miss, and that in an idle table it finds exactly `interned`, which is what
lets map keys compare by address.

### MemoryPool

`pool` has the headers field by field, with their two chains as they are linked in the code,
`held` the nodes handed out, `idle` a history: how long a page has had no node in use.
`Collect` is a call of that name up to its loop, `GiveBack` one round of the loop and `TrimEnds`
its end; `trim` carries the hold time and the budget through it and, as history, the pages that
were due at the call.  Nothing else moves meanwhile (`~trim.on` guards the rest).  `Trim` is
`TrimMemory(false)`, `TrimAll` is `TrimMemory(true)`.  A stamp is kept as its age up to
`HoldTime`.  A page's free list is a set: which of its nodes comes first is left open.
The pools share one budget and take turns; here there is one.  A hold time of 0 and a
budget of 0, which means no limit (NeoVM.cpp:403), are left out by `PoolAssumption`.

### Stores — the three side by side

They call each other but share no state, so one behaviour exercises one of them
(`focus`) and their states add up instead of multiplying.

## Runs

| Run | Question | Instance |
|---|---|---|
| HeapKinds | counts exact, nothing dangles, the inductive invariant `CollectorInv` (tickets, owners marked, freed once, scratch counts, colours, a way to all garbage), active contexts stay alive, the white set is garbage, nodes are reused unreferenced | coroutine, map, closure × 1 field |
| HeapReclaims | garbage is reclaimed, collections and the destructor end (liveness); garbage stays findable and a forced collection is complete, with doubled edges; implements `GcHeap` with requests in flight | request and closure × 2 fields, budget 1 |
| HeapMoveSource | *violated*: an element that exists is read | 2 maps |
| Contexts | the inductive invariant; one running context over a chain of callers, none waiting when idle; stacks in the pool are clean; only closing a waiting caller breaks the chain; the dead stay dead | 3 contexts × 2 registers, a global, one nested native |
| ContextsCloseCaller | *violated*: contexts in use stay out of the pool | the same |
| AsyncHttp | the inductive invariant; requests in one hand, counts exact, `wait()` true means taken; implements `AsyncContract`: the callback runs on the worker that asked | 2 requests, 2 workers, limited and unlimited |
| AsyncHttpLive | shutdown ends, a limited wait returns, requests are answered | 2 requests, 1 worker |
| HostCalls | the inductive invariant; a context has one debtor, results stay with their calls, nothing is held for an object that is gone, a stopped call's result goes to its owner | 3 calls, 3 frames |
| HostCallsOldResult | *violated*: an Invocation is never given the result of another run | the same |
| Captures | every frame of a lambda is known to the worker once and holds one reference; a lambda remembers what the frame called first held | 2 lambdas, a main context with 3 frames, a coroutine with 2, 1 native |
| CapturesCloseSame | *violated*: a return copies the captures back | the same |
| Stores | every key is found and given once, room is found, one node per string, pages are given back when and only when their time is up; implements `Collection` | 6 keys in 8 slots, 7 strings in up to 16, 3 pages × 2 nodes |

Bounds of the heap.  Two nodes with two fields have self loops, doubled edges and a
cut in every place; three nodes have a ring with a tail, a ring that shares a node with
another, and three candidate queues that are served in turn.  `MinBudget = 1` (16 in the code) makes an incremental pass see
part of a cycle, which is where it can go wrong; the budget formula is kept.  One
global and one register give every order of acquiring and giving up a root.
Symmetry is used where nodes are interchangeable and no liveness property is
checked.

Bounds of the contexts.  Three contexts are a main context and a chain of two, or
one and a suspended one that one of them holds; two registers allow a coroutine to
hold its parent and its child, and a mark below the top; one global lets a
coroutine outlive its stack.  `MaxDepth = 1` is one native with a callback; the
guards do not depend on the depth beyond whether it is zero.

Bounds of the requests.  Two requests can be one in the thread's hand and one in
either queue, or two answers in the wrong order; two workers make one of them
dispatch while the other's request is under way, or die with it.  With one
worker the liveness run still has its death and the shutdown at every step.

Bounds of the calls.  Three calls are an outer one, a nested one and a later one that
finds what the others left; three frames are a script, a native callback's script
and a callback in it.  Guards look at the top frame or ask whether there is any.

Bounds of the captures.  Two lambdas call each other and themselves; three frames are a
lambda, another and the first again; two on the coroutine park a lambda there under
itself, and the coroutine may run the lambda of the context that resumed it.  Two values
tell a frame's copy from the captures (they are interchangeable, so symmetry is used).

Bounds of the stores.  Six keys in eight slots reach the load at which a table of eight is
full and, with removals, the holes behind the cursor; three of them share a primary slot,
one is displaced by it.  `MaxCapacity = 8` (2^30 in the code) makes the refusal to grow
happen.  Seven strings with `MinCapacity = 4` (64) grow the table twice, shrink it, and
form clusters around its end.  Three pages have a first, a middle and a last one in
every chain; two nodes make a page full, partly used and empty; one page per call leaves
one overdue behind.

Fairness.  `Continue` and `Collector` are loops of functions that have been
entered, so weak fairness is the processor going on, and so it is for the
destructor once entered.  `SF(Collect(FALSE))` is the host's frame loop:
docs/Embedding.md:370 makes a periodic `CollectCycles` the host's duty ("This one
is not optional").  It is strong because the VM is between two instructions again
and again, not for ever.  For the requests, the HTTP thread and the VM inside
`wait()` or a destructor go on; a transport returns when its flag is set or its
limit is over, as `NeoHttp.h` asks, and is not assumed to return otherwise; and
`~CNeoVM` goes on to free its workers.  Nothing makes a script ask, wait or let go.

## Proofs

`DataFacts` has the facts about sequences, removal and counting that the library
does not state; `NeoHeapProofs` proves `Spec => []HeapInv` and its corollaries
for every finite set of nodes, slots and fields and every assignment of kinds.

`HeapInv` joins to the properties what makes them inductive: `Staging` (which
handler is under way and what it has left clean), `DestroySound` (a node is on
the destroy queue once, live, with count 0), `SlotsSound`, `MoveSound` (a Move in
progress has emptied its destination, and its owner is still addressable),
`ColorSound`, `RequestsSound`, `ChainSound` (a coroutine on the resume chain is
in a register of its resumer, which does not run meanwhile: this is why the
chain stays alive) and `MaySound`.  The proof has one lemma per conjunct and one
step per action.  `RefCountExact` is the long one: `Cardinality` of the slots
that refer to a node is followed through every update by `CountStore`.

`CollectorProofs` goes on from there to what needs reachability, and proves
`Spec => []CollectorInv`.  The installed provers cannot do the induction of a transitive
closure, so `GcHeap` says what is reached as a least set (`Closure`), and every argument is
of one of three forms: a set that holds the roots and is closed holds all that is reached
(`ReachLeast`), what is reached stays reached when edges are cut elsewhere (`ReachCut`), and a
node outside some closed set is not reached (`ReachAvoids`).  What `CollectorInv` adds to `HeapInv`:

* `TraceSound`: the scratch count of a coloured node is the number of its references that no
  traced edge explains, which is what trial deletion is meant to compute;
* `BlackSound`: what is still gray is not external and has no black owner whose turn has come;
* `WhiteSound`: what the collector holds is owned by what it holds, then by nothing.  So the
  white nodes are a set closed under owners without a root in it: `WhiteNodesAreGarbage`;
* `AsyncSound`: the lock and the callback of a request go together until it is dispatched;
* `Findable`: each live node is reached from what the script can name, from a dying node, from
  one with a ticket, or from one in the collector's hands.  Its hard step is the end of a scan
  (`ScanFinds`): a node that the pass leaves to external owners is reached from those.
  `GarbageCanBeFound` and `ForcedCollectionEndsClean` follow.

With this each step of `NeoHeap` is a step of `GcHeap`: it changes one slot of a node the
script reaches (`OneSlotExecutes`), or cuts and takes back what it does not (`CutReclaims`,
`ReclaimStep`): `HeapImplementsGcHeap`.

Nothing is assumed but `HeapAssumption`: nodes, fields, globals and locals are
finite sets, kept apart from each other and from the null values, and a request
keeps its lock and its callback in different fields.

`AsyncHttpProofs` proves `Spec => []AsyncInv` for every number of requests and workers.
`AsyncInv` joins `HandsSound` (both queues are free of repetitions and of each other, and
what is in a hand is in no queue), `StateSound` (the state, the event and the answer of a
request go with the place it is in), `StepSound` and `WaitSound` (what each program counter
implies for the lock, the hands and the flags) and `CountSound`, where the counters are
the cardinalities of the sets they count.  `InOneHand`, `CountsExact` and
`TrueMeansTaken` follow.  `AsyncImplementsContract` maps each step: `Get` asks, `Publish`
answers, a dispatching `PopOwn` delivers to the worker that waits, which is the one that
asked because `Pop` took an answer of its own; the other pops drop, the release of the last
lock forgets, `Spawn` and `Destroy` join and leave, `End` closes; all others stutter.

`HostCallsProofs` proves `Spec => []HostInv` for every number of calls and every depth of
native code.  `FramesSound` and `RunSound` say what each frame of the C++ stack keeps of the
record while scripts run above it, `StopSound` and `LendSound` what a stopped call and a
borrowed result imply, `BusySound` what may not happen to an instance in use.  Handlers that
start no run keep a common frame (`HostStep`, `KeptStep`), those that do push one
(`StartStep`), `RunEnds` and `InvokeEnds` pop it.  `ResultFollowsOwner` follows from who may
complete a stop (`StopCompletes`) and what the end of a run gives to whom (`RunEndsGives`).

`ContextsProofs` proves `Spec => []ContextsInv` for every number of contexts and registers.
`Freed` is the least set of scripts that nothing outside refers to: `FreedIsFixed` shows it is
a fixed point, `HeldIsKept` that a set whose members are each referred to from outside stays.
`OthersKeepActive` follows since the scripts without the chain of callers are one of the sets
the least one intersects, and `PooledClean` since a first resume sets the mark of a clean stack.

`CapturesProofs` proves `Spec => []CapturesInv` for every number of lambdas, coroutines,
frames and native frames; its first part is about one stack.  The inductive
invariant gives each context one `StackSound`: what is parked and what native frames
interrupted are frames below the top, in order, none of them twice, no lambda's frame
is missing, and each frame's `back` agrees with the one below.  A call, a return, a callback
and its end keep it (`Pushed`, `Popped`, `Entered`, `LeftNative`).  `CoversQuiet` and `CoversAll`
say that what a close, a cancellation or an error settles names each frame of a lambda
once; `CountEnd` and `CountLine` make of that a bijection between the entries settled and
the frames that end, so that the references given back are as many.  `SavedFrom` says
where the pointer of the running context may come from, which is why `Left` drops it
or keeps it rightly.  The coroutines are assumed to be finitely many.

From the same invariant follows `EndsWrittenBack`, which states `EndsWriteBack`.  The last
entry that names a lambda decides what it remembers (`LastSynced`), and each list that is
settled goes down the stack (`Falls`), so that entry is the lambda's lowest frame; on a
line of contexts the one furthest out writes last (`LineWrites`, `RankIs`), so it is the
frame called first (`OutermostIs`).  The one list that does not go down is that of a main context
that yielded and was cancelled: its topmost frame is settled after the parked ones, and
`SavedSound` says that none of these is the same lambda's (`UnwoundAll`).

`StoresProofs` proves `Spec => []ChainsSound` for every set of keys, every hash function and
every limit of the capacity.  As a chain is a least set, that a node is found after a change is
shown by taking any set around the primary slot that is shut after it, and turning it into
one that was shut before: adding the displaced node's new place, taking out what was unlinked
(`PlacedBehind`, `PlacedInstead`, `UnlinkedInside`, `UnlinkedHead`).  `LinksSound` is what makes the
predecessor that `InsertNewNode` looks for exist and be the only one.  `ReMapSound` is the
invariant of the copying loop: the new array holds what the loop has come past, and has no
hole behind its cursor (`NoHole`), so an exhausted cursor means a full array, which the load
excludes (`ExhaustedFull`).  From this follow `InsertFindsRoom` and, since every
step adds or removes the keys that `Collection` says, `TableImplementsCollection`.

It also proves `Spec => []PagesSound` for every number of pages and nodes, every hold time and
budget above 0.  The two
chains of pages are least sets as well, doubly linked: a page joins in front (`PushedFront`) or
behind (`PushedBack`), or is cut out (`CutOut`), and `CutFrom` follows the part of the empty
chain from `m_pUnstamped` on.  `EmptyOk` says that this part has no stamp yet and that in the rest each
page is stamped no later than the next, so that the head is the oldest (`HeadOldest`) and a loop
that stops at a young head hides no due page.  One lemma per operation (`AllocKeeps` to
`TickKeeps`) keeps the invariant, `PagesHeldLongEnough` and `DuePagesGoBack` follow.

And it proves `Spec => []OneNodePerString` for every set of strings, hash function and smallest
capacity that is a power of two from two on.  `Doubled` is what its definition says
(`DoubledIs`: a function defined by recursion exists), so `PowerOfTwo` is the least power that is
enough and monotonic.  A string is at its place when no slot from its primary one to it is
empty, around the end; `ProbeFacts` finds the first slot of the way that fits because there is an
empty one, which the load guarantees (`EmptySlot`).  Emptying a slot breaks only the ways through
it, and each string behind has then an unbroken way from the slot after the hole
(`EmptiedFacts`), so the strings that a probe may miss are always in the cluster that is still to
be placed (`CloseKeeps`, `CloseEnds`).  A rehash counts what is placed and what waits
(`Due`) against the new capacity (`LargerFits`, `SmallerFits`).

Only model-checked: the liveness properties.

## Findings

* `Move` releases its destination before it reads its source
  (`NeoVMWorker_Move.inl:11`): `y = y["next"]` where `y` held the last reference
  gives null.  Run HeapMoveSource.
* `coroutine.close` of a coroutine that waits can free the running one
  (`NeoVMWorker.cpp:2707`).  Run ContextsCloseCaller.
* The debugger's `Run` resumes a stopped call without settling it
  (`NeoScriptShim.cpp:2374`), and the old Invocation is later given the result of a newer
  run.  Run HostCallsOldResult.
* `coroutine.close` of a coroutine suspended in the lambda that runs makes the running frame
  forget its lambda (`NeoVMWorker.cpp:2279`): its return copies nothing back, and its
  reference is never given up.  Run CapturesCloseSame.

The comment of `~CNeoVM` (`NeoVM.cpp:2088`) says that its sweep removes every container by
force.  Coroutines and asyncs have no live list, so one of them in a cycle survives the
sweep, with its execution context of the process-wide pool: in the model,
`mode = "down"` does not imply that every node is free.  No run is spent on it.

## Plan

Done, in this order: the heap, the contexts and the requests; the host calls; the hash
table, the interner and the memory pool; the proofs about requests, host calls and
contexts; the captured lambdas and the proof about them; reachability, the collector's
passes and the refinement of `GcHeap`; the proofs about the three stores and about the order of
copying back.  What would come next:

1. Lists and arrays (`NeoVMList.cpp`, `NeoVMArray.h`): a slice or a `foreach` while the
   list changes.
2. The limits that the loader checks (`NeoVMProgram.cpp`) against the limits the
   interpreter relies on, and integer edges (`NeoNumeric.h`).
3. The debugger: pause, step and continue over switches of contexts.

## Not modelled

The models stand for a few thousand lines of the 142,000 in the repository.  Most of the rest are
the vendored PCRE2 and yyjson, the compiler, the wrappers of vendored parsers, the stateless
library and the bindings: their correctness is about values and text, not about sequences of
steps, and TLC cannot enumerate it.  Of the modelled parts, these are left out:

* running out of memory, which poisons a worker, and every failing allocation;
* several workers of one VM that share a coroutine or a module value;
* the wrap of worker IDs after 2^32 workers, and of the mutation version of a table;
* sorting, cloning and copying of collections, and NaN as a key;
* the mix of several memory pools under one trimming budget;
* liveness of trimming: `TrimGivesBack` says what a call that may trim does, and the host
  decides when it calls.
