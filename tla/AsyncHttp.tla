------------------------------ MODULE AsyncHttp ------------------------------
(***************************************************************************)
(* HTTP requests of one CNeoVM: scripts queue them, one thread hands them  *)
(* to the transport, and async.wait dispatches what came back through      *)
(* NOP_IDLE (NeoSource/NeoVM.cpp, NeoLib.cpp, NeoVMWorker_Handlers.inl).   *)
(*                                                                         *)
(* All but the thread's actions are steps of the one thread that runs the  *)
(* VM; vm says where it is.  Each access to a queue is one step, under the *)
(* lock of the queue.  References of the script to a request are a flag:   *)
(* NeoHeap has their counts.                                               *)
(***************************************************************************)
EXTENDS Integers, Sequences, FiniteSets, SequencesExt

CONSTANTS
  Req,        \* nodes of m_sPool_Async
  NoReq,      \* a null pointer
  Worker,     \* workers (module instances) by their ID, which does not come back
  NoWorker,
  StopJob,    \* the null job that ends the thread
  Limits      \* whether requests have a time limit: TRUE, FALSE or both

ASSUME AsyncAssumption ==
  /\ IsFiniteSet(Req) /\ NoReq \notin Req /\ StopJob \notin Req
  /\ IsFiniteSet(Worker) /\ NoWorker \notin Worker
  /\ Limits \subseteq BOOLEAN

VARIABLES
  state,     \* _state of a request, or "free" in the pool
  held,      \* a script refers to the request
  lock,      \* _LockReferance: it refers to itself
  asker,     \* _ownerWorkerId
  limited,   \* _timeout is not -1
  event,     \* _event
  fate,      \* "none" until it left the completion queue: called or dropped
  receiver,  \* the worker on whose stack handle_IDLE called the callback of a
             \* request; only the contract asks for it, no guard does
  jobs,      \* _job_queue
  completed, \* _job_completed
  stage,     \* of the thread: none, waiting, taken, sending, answered, exited
  job,       \* the request the thread has in hand
  ending,    \* _job_end
  cancel,    \* the cancellation flag of the request being sent
  workers,   \* _sVMWorkers
  unborn,    \* IDs not given out yet
  pend,      \* _asyncPendingCount
  orphans,   \* _orphanAsyncCount
  vm,        \* run, wait, orphans, own, unlock, discard, cancel, stop,
             \* join, free, ended
  wk,        \* the worker that waits
  wr,        \* the request it waits for
  res,       \* what wait() will return
  popped,    \* the request taken out of the completion queue
  back,      \* where vm goes after unlock or discard
  dying,     \* the worker whose destructor runs
  discarded, \* its requests already discarded
  dback      \* where vm goes after the destructor

reqVars == <<state, held, lock, asker, limited, event, fate, receiver>>
threadVars == <<stage, job, cancel>>
workerVars == <<workers, unborn, pend, orphans>>
waitVars == <<wk, wr, res>>
dieVars == <<dying, discarded, dback>>
vars == <<state, held, lock, asker, limited, event, fate, receiver, jobs, completed,
          stage, job, cancel, ending, workers, unborn, pend, orphans,
          vm, wk, wr, res, popped, back, dying, discarded, dback>>
-----------------------------------------------------------------------------
(* Requests                                                                *)

\* The fields of a node that is back in the pool, as AsyncAlloc finds them.
Recycle(r) ==
  /\ state' = [state EXCEPT ![r] = "free"]
  /\ asker' = [asker EXCEPT ![r] = NoWorker]
  /\ limited' = [limited EXCEPT ![r] = FALSE]
  /\ event' = [event EXCEPT ![r] = FALSE]
  /\ fate' = [fate EXCEPT ![r] = "none"]
  /\ receiver' = [receiver EXCEPT ![r] = NoWorker]

\* system.aysnc_create.
Create(r) ==
  /\ vm = "run" /\ state[r] = "free"
  /\ state' = [state EXCEPT ![r] = "ready"]
  /\ held' = [held EXCEPT ![r] = TRUE]
  /\ UNCHANGED <<lock, asker, limited, event, fate, receiver, jobs, completed, threadVars,
                 ending, workerVars, vm, waitVars, popped, back, dieVars>>

\* Mutant of Get: a request that was used before is taken again.
GetAgain(w, r, l) ==
  /\ vm = "run" /\ w \in workers
  /\ held[r] /\ state[r] \in {"ready", "completed"}
  /\ state' = [state EXCEPT ![r] = "pending"]
  /\ asker' = [asker EXCEPT ![r] = w]
  /\ limited' = [limited EXCEPT ![r] = l]
  /\ event' = [event EXCEPT ![r] = FALSE]
  /\ lock' = [lock EXCEPT ![r] = TRUE]
  /\ pend' = [pend EXCEPT ![w] = @ + 1]
  /\ jobs' = Append(jobs, r)
  /\ stage' = IF stage = "none" THEN "waiting" ELSE stage
  /\ UNCHANGED <<held, fate, receiver, completed, job, cancel, ending, workers, unborn,
                 orphans, vm, waitVars, popped, back, dieVars>>

\* get and post; the first one starts the thread.
Get(w, r, l) ==
  /\ vm = "run" /\ w \in workers
  /\ held[r] /\ state[r] = "ready"
  /\ state' = [state EXCEPT ![r] = "pending"]
  /\ asker' = [asker EXCEPT ![r] = w]
  /\ limited' = [limited EXCEPT ![r] = l]
  /\ event' = [event EXCEPT ![r] = FALSE]
  /\ lock' = [lock EXCEPT ![r] = TRUE]
  /\ pend' = [pend EXCEPT ![w] = @ + 1]
  /\ jobs' = Append(jobs, r)
  /\ stage' = IF stage = "none" THEN "waiting" ELSE stage
  /\ UNCHANGED <<held, fate, receiver, completed, job, cancel, ending, workers, unborn,
                 orphans, vm, waitVars, popped, back, dieVars>>

\* The script's last reference goes: without a request under way the node
\* returns to the pool.
Forget(r) ==
  /\ vm \in {"run", "free"}
  /\ held[r]
  /\ held' = [held EXCEPT ![r] = FALSE]
  /\ IF lock[r] THEN UNCHANGED <<state, asker, limited, event, fate, receiver>> ELSE Recycle(r)
  /\ UNCHANGED <<lock, jobs, completed, threadVars, ending, workerVars,
                 vm, waitVars, popped, back, dieVars>>

-----------------------------------------------------------------------------
(* The thread                                                              *)

\* Mutant of Take: the null job is not told from a request.
TakeNull ==
  /\ stage = "waiting" /\ jobs # <<>>
  /\ jobs' = Tail(jobs)
  /\ job' = Head(jobs)
  /\ stage' = IF ending THEN "exited" ELSE "taken"
  /\ UNCHANGED <<reqVars, completed, cancel, ending, workerVars,
                 vm, waitVars, popped, back, dieVars>>

\* ThreadFunction: the next job, unless it is the null one or the VM ends.
Take ==
  /\ stage = "waiting" /\ jobs # <<>>
  /\ jobs' = Tail(jobs)
  /\ job' = IF Head(jobs) = StopJob THEN NoReq ELSE Head(jobs)
  /\ stage' = IF Head(jobs) = StopJob \/ ending THEN "exited" ELSE "taken"
  /\ UNCHANGED <<reqVars, completed, cancel, ending, workerVars,
                 vm, waitVars, popped, back, dieVars>>

\* Mutant of Register: the end of the VM is not looked at again.
RegisterLate ==
  /\ stage = "taken"
  /\ stage' = "sending"
  /\ cancel' = "live"
  /\ UNCHANGED <<reqVars, jobs, completed, job, ending, workerVars,
                 vm, waitVars, popped, back, dieVars>>

\* The cancellation flag is registered under the lock that ~CNeoVM takes.
Register ==
  /\ stage = "taken"
  /\ IF ending THEN stage' = "exited" /\ UNCHANGED cancel
               ELSE stage' = "sending" /\ cancel' = "live"
  /\ UNCHANGED <<reqVars, jobs, completed, job, ending, workerVars,
                 vm, waitVars, popped, back, dieVars>>

\* Mutant of NoTransport: the exception ends the thread.
NoTransportDies ==
  /\ stage = "taken"
  /\ stage' = "exited"
  /\ UNCHANGED <<reqVars, jobs, completed, job, cancel, ending, workerVars,
                 vm, waitVars, popped, back, dieVars>>

\* The host gave no transport: an exception, and an answer like any other.
NoTransport ==
  /\ stage = "taken"
  /\ stage' = "answered"
  /\ UNCHANGED <<reqVars, jobs, completed, job, cancel, ending, workerVars,
                 vm, waitVars, popped, back, dieVars>>

\* Send returns: a response, an error, a timeout, or cancelled.
Answer ==
  /\ stage = "sending"
  /\ stage' = "answered"
  /\ UNCHANGED <<reqVars, jobs, completed, job, cancel, ending, workerVars,
                 vm, waitVars, popped, back, dieVars>>

\* Mutant of Publish: the event is set before the request is in the queue.
PublishEarly ==
  \/ /\ stage = "answered" /\ ~event[job]
     /\ event' = [event EXCEPT ![job] = TRUE]
     /\ UNCHANGED <<state, held, lock, asker, limited, fate, receiver, jobs, completed,
                    threadVars, ending, workerVars, vm, waitVars, popped, back, dieVars>>
  \/ /\ stage = "answered" /\ event[job]
     /\ cancel' = "none"
     /\ completed' = Append(completed, job)
     /\ state' = [state EXCEPT ![job] = "completed"]
     /\ stage' = "waiting" /\ job' = NoReq
     /\ UNCHANGED <<held, lock, asker, limited, event, fate, receiver, jobs, ending,
                    workerVars, vm, waitVars, popped, back, dieVars>>

\* PushAndPublish: state and event change under the lock of the queue.
Publish ==
  /\ stage = "answered"
  /\ cancel' = "none"
  /\ completed' = Append(completed, job)
  /\ state' = [state EXCEPT ![job] = "completed"]
  /\ event' = [event EXCEPT ![job] = TRUE]
  /\ stage' = "waiting" /\ job' = NoReq
  /\ UNCHANGED <<held, lock, asker, limited, fate, receiver, jobs, ending, workerVars,
                 vm, waitVars, popped, back, dieVars>>

-----------------------------------------------------------------------------
(* async.wait and NOP_IDLE                                                 *)

\* _state is read without a lock while the thread may be writing it, so a
\* completed request may still look pending; then its event is set already.
Wait(w, r) ==
  /\ vm = "run" /\ w \in workers
  /\ held[r] /\ state[r] \in {"pending", "completed"}
  /\ wk' = w /\ wr' = r
  /\ \/ vm' = "wait" /\ res' = FALSE
     \/ state[r] = "completed" /\ vm' = "orphans" /\ res' = TRUE
  /\ UNCHANGED <<reqVars, jobs, completed, threadVars, ending, workerVars,
                 popped, back, dieVars>>

\* Mutant of Wake: the time limit is left to the transport.
WakeOnEvent ==
  /\ vm = "wait" /\ event[wr]
  /\ vm' = "orphans" /\ res' = TRUE
  /\ UNCHANGED <<reqVars, jobs, completed, threadVars, ending, workerVars,
                 wk, wr, popped, back, dieVars>>

\* The event, or the time limit of the request.
Wake ==
  /\ vm = "wait"
  /\ event[wr] \/ limited[wr]
  /\ vm' = "orphans"
  /\ res' = event[wr]
  /\ UNCHANGED <<reqVars, jobs, completed, threadVars, ending, workerVars,
                 wk, wr, popped, back, dieVars>>

\* TryPopMatching: the first completed request of one of the workers S.  A
\* callback is called on the stack of the worker that waits, whoever asked.
Pop(S, f, b) ==
  LET i == SelectInSeq(completed, LAMBDA r : asker[r] \in S) IN
    /\ i # 0
    /\ completed' = RemoveAt(completed, i)
    /\ popped' = completed[i]
    /\ fate' = [fate EXCEPT ![completed[i]] = f]
    /\ receiver' = [receiver EXCEPT ![completed[i]] = IF f = "called" THEN wk ELSE NoWorker]
    /\ vm' = "unlock" /\ back' = b
    /\ UNCHANGED <<state, held, lock, asker, limited, event, jobs, threadVars, ending>>

None(S) == \A i \in DOMAIN completed : asker[completed[i]] \notin S

Gone == Worker \ workers

\* DiscardOrphanedAsync.
DiscardOrphan ==
  /\ vm = "orphans" /\ orphans > 0
  /\ Pop(Gone, "dropped", "orphans")
  /\ orphans' = orphans - 1
  /\ UNCHANGED <<workers, unborn, pend, waitVars, dieVars>>
OrphansDone ==
  /\ vm = "orphans"
  /\ orphans = 0 \/ None(Gone)
  /\ vm' = "own"
  /\ UNCHANGED <<reqVars, jobs, completed, threadVars, ending, workerVars,
                 waitVars, popped, back, dieVars>>

\* Mutant of PopOwn: the completion of any worker that lives will do.
PopAny(f, b) ==
  /\ vm = "own"
  /\ Pop(workers, f, b)
  /\ pend' = [pend EXCEPT ![wk] = IF @ > 0 THEN @ - 1 ELSE 0]
  /\ UNCHANGED <<workers, unborn, orphans, waitVars, dieVars>>

\* Pop_AsyncInfo and the loop of handle_IDLE: the callback gets a frame on
\* the stack.  When the stack is full the callback is dropped: for want of
\* room for its arguments the loop ends, for its frame it goes on.
PopOwn(f, b) ==
  /\ vm = "own"
  /\ Pop({wk}, f, b)
  /\ pend' = [pend EXCEPT ![wk] = IF @ > 0 THEN @ - 1 ELSE 0]
  /\ UNCHANGED <<workers, unborn, orphans, waitVars, dieVars>>
OwnDone ==
  /\ vm = "own" /\ None({wk})
  /\ vm' = "run"
  /\ UNCHANGED <<reqVars, jobs, completed, threadVars, ending, workerVars,
                 waitVars, popped, back, dieVars>>

\* Var_Release of _LockReferance: an unreferenced request is freed.
Unlock ==
  /\ vm = "unlock"
  /\ lock' = [lock EXCEPT ![popped] = FALSE]
  /\ IF held[popped] THEN UNCHANGED <<state, asker, limited, event, fate, receiver>>
                      ELSE Recycle(popped)
  /\ popped' = NoReq /\ vm' = back
  /\ UNCHANGED <<held, jobs, completed, threadVars, ending, workerVars,
                 waitVars, back, dieVars>>

-----------------------------------------------------------------------------
(* Workers and shutdown                                                    *)

Spawn(w) ==
  /\ vm = "run" /\ w \in unborn
  /\ unborn' = unborn \ {w}
  /\ workers' = workers \cup {w}
  /\ UNCHANGED <<reqVars, jobs, completed, threadVars, ending, pend, orphans,
                 vm, waitVars, popped, back, dieVars>>

\* FreeWorker: the host, the last reference to a module, which a discarded
\* request may have held, or ~CNeoVM.
Destroy(w) ==
  /\ vm \in {"run", "orphans", "free"}
  /\ w \in workers
  /\ vm = "orphans" => w # wk
  /\ workers' = workers \ {w}
  /\ dying' = w /\ discarded' = 0 /\ dback' = vm
  /\ vm' = "discard"
  /\ UNCHANGED <<reqVars, jobs, completed, threadVars, ending, unborn, pend, orphans,
                 waitVars, popped, back>>

\* DiscardAsyncByWorker.
Discard ==
  /\ vm = "discard"
  /\ Pop({dying}, "dropped", "discard")
  /\ discarded' = discarded + 1
  /\ UNCHANGED <<workerVars, waitVars, dying, dback>>

\* Mutant of DiscardDone: requests under way are forgotten.
DiscardForgets ==
  /\ vm = "discard" /\ None({dying})
  /\ pend' = [pend EXCEPT ![dying] = 0]
  /\ vm' = dback /\ dying' = NoWorker /\ discarded' = 0 /\ dback' = "run"
  /\ UNCHANGED <<reqVars, jobs, completed, threadVars, ending, workers, unborn, orphans,
                 waitVars, popped, back>>

\* What the queue did not have is still with the thread, or its jobs.
DiscardDone ==
  /\ vm = "discard" /\ None({dying})
  /\ orphans' = orphans + (IF pend[dying] > discarded THEN pend[dying] - discarded ELSE 0)
  /\ pend' = [pend EXCEPT ![dying] = 0]
  /\ vm' = dback /\ dying' = NoWorker /\ discarded' = 0 /\ dback' = "run"
  /\ UNCHANGED <<reqVars, jobs, completed, threadVars, ending, workers, unborn,
                 waitVars, popped, back>>

\* ~CNeoVM: the end is announced, the transfer under way is cancelled, the
\* thread is sent the null job and joined, the workers are freed.
End ==
  /\ vm = "run"
  /\ ending' = TRUE /\ vm' = "cancel"
  /\ UNCHANGED <<reqVars, jobs, completed, threadVars, workerVars,
                 waitVars, popped, back, dieVars>>
Cancel ==
  /\ vm = "cancel"
  /\ cancel' = IF cancel = "live" THEN "set" ELSE cancel
  /\ vm' = IF stage = "none" THEN "free" ELSE "stop"
  /\ UNCHANGED <<reqVars, jobs, completed, stage, job, ending, workerVars,
                 waitVars, popped, back, dieVars>>
PushStop ==
  /\ vm = "stop"
  /\ jobs' = Append(jobs, StopJob)
  /\ vm' = "join"
  /\ UNCHANGED <<reqVars, completed, threadVars, ending, workerVars,
                 waitVars, popped, back, dieVars>>
Join ==
  /\ vm = "join" /\ stage = "exited"
  /\ vm' = "free"
  /\ UNCHANGED <<reqVars, jobs, completed, threadVars, ending, workerVars,
                 waitVars, popped, back, dieVars>>
Freed ==
  /\ vm = "free" /\ workers = {}
  /\ vm' = "ended"
  /\ UNCHANGED <<reqVars, jobs, completed, threadVars, ending, workerVars,
                 waitVars, popped, back, dieVars>>
Ended == vm = "ended" /\ UNCHANGED vars

-----------------------------------------------------------------------------
Init ==
  /\ state = [r \in Req |-> "free"]
  /\ held = [r \in Req |-> FALSE] /\ lock = [r \in Req |-> FALSE]
  /\ asker = [r \in Req |-> NoWorker]
  /\ limited = [r \in Req |-> FALSE] /\ event = [r \in Req |-> FALSE]
  /\ fate = [r \in Req |-> "none"]
  /\ receiver = [r \in Req |-> NoWorker]
  /\ jobs = <<>> /\ completed = <<>>
  /\ stage = "none" /\ job = NoReq /\ cancel = "none"
  /\ ending = FALSE
  /\ workers = {} /\ unborn = Worker
  /\ pend = [w \in Worker |-> 0] /\ orphans = 0
  /\ vm = "run" /\ wk = NoWorker /\ wr = NoReq /\ res = FALSE
  /\ popped = NoReq /\ back = "run"
  /\ dying = NoWorker /\ discarded = 0 /\ dback = "run"

Thread == Take \/ Register \/ NoTransport \/ Answer \/ Publish

Script ==
  \/ \E r \in Req : Create(r) \/ Forget(r)
  \/ \E w \in Worker, r \in Req, l \in Limits : Get(w, r, l)
  \/ \E w \in Worker, r \in Req : Wait(w, r)
  \/ \E w \in Worker : Spawn(w) \/ Destroy(w)
  \/ End

\* What the VM thread does by itself once it is inside wait() or a destructor.
Machine ==
  \/ Wake
  \/ DiscardOrphan \/ OrphansDone
  \/ PopOwn("called", "orphans")
  \/ \E b \in {"orphans", "run"} : PopOwn("dropped", b)
  \/ OwnDone
  \/ Unlock
  \/ Discard \/ DiscardDone
  \/ Cancel \/ PushStop \/ Join \/ Freed

Next == Thread \/ Script \/ Machine \/ Ended

Spec == Init /\ [][Next]_vars

\* The thread and the VM go on; Send returns when it is cancelled or its time
\* limit is over, as NeoHttp.h asks of a transport; ~CNeoVM frees the workers.
FairSpec ==
  /\ Spec
  /\ WF_vars(Take) /\ WF_vars(Register \/ NoTransport) /\ WF_vars(Publish)
  /\ WF_vars(Answer /\ (cancel = "set" \/ limited[job]))
  /\ WF_vars(Machine)
  /\ WF_vars(vm = "free" /\ \E w \in Worker : Destroy(w))

-----------------------------------------------------------------------------
(* Properties                                                              *)

\* Every variable has its type.
TypeOK ==
  /\ state \in [Req -> {"free", "ready", "pending", "completed"}]
  /\ held \in [Req -> BOOLEAN] /\ lock \in [Req -> BOOLEAN]
  /\ asker \in [Req -> Worker \cup {NoWorker}]
  /\ limited \in [Req -> BOOLEAN] /\ event \in [Req -> BOOLEAN]
  /\ fate \in [Req -> {"none", "called", "dropped"}]
  /\ receiver \in [Req -> Worker \cup {NoWorker}]
  /\ jobs \in Seq(Req \cup {StopJob}) /\ completed \in Seq(Req)
  /\ stage \in {"none", "waiting", "taken", "sending", "answered", "exited"}
  /\ job \in Req \cup {NoReq} /\ cancel \in {"none", "live", "set"}
  /\ ending \in BOOLEAN
  /\ workers \subseteq Worker /\ unborn \subseteq Worker
  /\ pend \in [Worker -> Nat] /\ orphans \in Nat
  /\ vm \in {"run", "wait", "orphans", "own", "unlock", "discard",
             "cancel", "stop", "join", "free", "ended"}
  /\ wk \in Worker \cup {NoWorker} /\ wr \in Req \cup {NoReq} /\ res \in BOOLEAN
  /\ popped \in Req \cup {NoReq} /\ back \in {"run", "orphans", "discard"}
  /\ dying \in Worker \cup {NoWorker} /\ discarded \in Nat
  /\ dback \in {"run", "orphans", "free"}

In(s, r) == Cardinality({i \in DOMAIN s : s[i] = r})
One(b) == IF b THEN 1 ELSE 0

\* A request under way is in exactly one hand, the job queue, the thread, the
\* completion queue or the loop that took it out, and it keeps itself alive as
\* long; no queue and no thread has a node of the pool.
InOneHand ==
  \A r \in Req :
    /\ In(jobs, r) + In(completed, r) + One(job = r) + One(popped = r) = One(lock[r])
    /\ lock[r] => state[r] \in {"pending", "completed"}

Under(w) == {r \in Req : lock[r] /\ fate[r] = "none" /\ asker[r] = w}

\* _asyncPendingCount of a worker is the number of its requests that nobody
\* took out yet, and _orphanAsyncCount that of the workers that are gone: a
\* count too low would leave answers in the queue for ever.
CountsExact ==
  /\ \A w \in workers : pend[w] = Cardinality(Under(w))
  /\ dying # NoWorker => pend[dying] - discarded = Cardinality(Under(dying))
  /\ orphans = Cardinality(UNION {Under(w) : w \in Gone \ {dying}})

\* When wait() returns true to the worker that asked, the answer has been
\* handed to the callback, or thrown away for want of stack: it is not left
\* for a later wait.
TrueMeansTaken ==
  [][vm = "own" /\ vm' = "run" /\ res /\ asker[wr] = wk => fate[wr] # "none"]_vars

\* ~CNeoVM returns: it joins the thread whatever that was doing.
ShutdownEnds == ending ~> vm = "ended"

\* A wait for a request with a time limit returns.
WaitReturns == (vm = "wait" /\ limited[wr]) ~> vm = "run"

\* A request is answered, unless the VM ends, if it and all that are under way
\* with it have a limit: the thread serves them in turn and survives each.
Answered ==
  \A r \in Req :
    (state[r] = "pending" /\ \A q \in Req : state[q] = "pending" => limited[q])
      ~> (state[r] # "pending" \/ ending)

-----------------------------------------------------------------------------
(* What makes InOneHand and CountsExact inductive                          *)

Dying   == vm = "discard" \/ (vm = "unlock" /\ back = "discard")
InWait  == \/ vm \in {"wait", "orphans", "own"}
           \/ vm = "unlock" /\ back = "orphans"
           \/ Dying /\ dback = "orphans"
Stopped == vm \in {"join", "free", "ended"} \/ (Dying /\ dback = "free")

\* Each hand holds what it may, none holds what another one has, and a request
\* refers to itself just as long as one of them holds it.
HandsSound ==
  /\ IsInjective(jobs) /\ IsInjective(completed)
  /\ \A r \in Req :
       /\ lock[r] <=> r \in ToSet(jobs) \/ r \in ToSet(completed) \/ r \in {job, popped}
       /\ r \in ToSet(jobs) => r \notin ToSet(completed) /\ r \notin {job, popped}
       /\ r \in ToSet(completed) => r \notin {job, popped}
       /\ ~(job = r /\ popped = r)

\* Which state goes with which hand.
StateSound ==
  \A r \in Req :
    /\ state[r] = "pending" <=> r \in ToSet(jobs) \/ job = r
    /\ lock[r] /\ state[r] # "pending" => state[r] = "completed"
    /\ fate[r] # "none" <=> state[r] = "completed" /\ r \notin ToSet(completed)
    /\ receiver[r] # NoWorker => fate[r] = "called"
    /\ event[r] => state[r] = "completed"
    /\ asker[r] = NoWorker <=> state[r] \in {"free", "ready"}

\* Where the two threads are.
StepSound ==
  /\ stage \in {"none", "waiting"} => job = NoReq
  /\ stage \in {"taken", "sending", "answered"} => job \in Req
  /\ popped \in Req <=> vm = "unlock"
  /\ StopJob \in ToSet(jobs) => Stopped
  /\ ending <=> vm \in {"cancel", "stop"} \/ Stopped
  /\ IF Dying THEN dying \in Worker ELSE dying = NoWorker
  /\ dying \notin workers /\ unborn \cap (workers \cup {dying}) = {}

\* The request that is waited for is there, with its answer if wait() says so.
WaitSound ==
  InWait =>
    /\ wk \in workers /\ wr \in Req /\ held[wr]
    /\ state[wr] \in {"pending", "completed"}
    /\ res => state[wr] = "completed"

\* Nobody has asked in the name of a worker that is not there yet.
CountSound ==
  /\ CountsExact
  /\ \A w \in unborn : pend[w] = 0 /\ Under(w) = {}

AsyncInv == TypeOK /\ HandsSound /\ StateSound /\ StepSound /\ WaitSound /\ CountSound

-----------------------------------------------------------------------------
Phase(r) ==
  IF state[r] \in {"free", "ready"} THEN "none"
  ELSE IF fate[r] = "called" THEN "delivered"
  ELSE IF fate[r] = "dropped" THEN "dropped"
  ELSE IF state[r] = "pending" THEN "asked" ELSE "answered"

Contract == INSTANCE AsyncContract WITH
  phase <- [r \in Req |-> Phase(r)],
  alive <- workers,
  open <- ~ending

\* The queues, the thread and the counts give scripts what AsyncContract says.
ImplementsContract == Contract!Spec

=============================================================================
