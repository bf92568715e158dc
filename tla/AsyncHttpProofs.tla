-------------------------- MODULE AsyncHttpProofs --------------------------
(***************************************************************************)
(* Proofs about AsyncHttp, for every number of requests and workers: the   *)
(* inductive invariant AsyncInv, the safety properties that follow from    *)
(* it, and the refinement of AsyncContract.                                *)
(***************************************************************************)
EXTENDS AsyncHttp, DataFacts

USE DEF reqVars, threadVars, workerVars, waitVars, dieVars

-----------------------------------------------------------------------------
(* The queues                                                              *)

\* TryPopMatching takes a request of one of the workers S out of the queue.
LEMMA PopFacts ==
  ASSUME TypeOK, NEW S, NEW f, NEW b, Pop(S, f, b)
  PROVE  /\ popped' \in Req /\ popped' \in ToSet(completed) /\ asker[popped'] \in S
         /\ completed' \in Seq(Req)
         /\ IsInjective(completed) =>
              IsInjective(completed') /\ ToSet(completed') = ToSet(completed) \ {popped'}
         /\ fate' = [fate EXCEPT ![popped'] = f]
         /\ receiver' = [receiver EXCEPT ![popped'] = IF f = "called" THEN wk ELSE NoWorker]
         /\ vm' = "unlock" /\ back' = b
         /\ UNCHANGED <<state, held, lock, asker, limited, event, jobs, threadVars, ending>>
<1> DEFINE i == SelectInSeq(completed, LAMBDA r : asker[r] \in S)
<1>1. i # 0
  BY DEF Pop
<1>2. i \in DOMAIN completed /\ asker[completed[i]] \in S
  <2> DEFINE I == {n \in 1 .. Len(completed) : asker[completed[n]] \in S}
  <2>1. i = IF I # {} THEN Min(I) ELSE 0
    BY DEF SelectInSeq
  <2>2. Len(completed) \in Nat /\ DOMAIN completed = 1 .. Len(completed)
    BY DEF TypeOK
  <2>3. I \subseteq Nat
    BY <2>2
  <2>4. I # {} => Min(I) \in I
    BY <2>3, MinFacts
  <2> HIDE DEF i
  <2> QED  BY <1>1, <2>1, <2>2, <2>4
<1> HIDE DEF i
<1>3. completed \in Seq(Req) /\ completed[i] \in Req /\ completed[i] \in ToSet(completed)
  BY <1>2 DEF TypeOK, ToSet
<1>4. /\ completed' = RemoveAt(completed, i) /\ popped' = completed[i]
      /\ fate' = [fate EXCEPT ![completed[i]] = f] /\ vm' = "unlock" /\ back' = b
      /\ receiver' =
           [receiver EXCEPT ![completed[i]] = IF f = "called" THEN wk ELSE NoWorker]
      /\ UNCHANGED <<state, held, lock, asker, limited, event, jobs, threadVars, ending>>
  BY DEF Pop, i
<1>5. /\ RemoveAt(completed, i) \in Seq(Req)
      /\ ToSet(RemoveAt(completed, i)) \subseteq ToSet(completed)
      /\ ToSet(completed) \subseteq ToSet(RemoveAt(completed, i)) \cup {completed[i]}
      /\ Distinct(completed) => /\ Distinct(RemoveAt(completed, i))
                                /\ completed[i] \notin ToSet(RemoveAt(completed, i))
  BY <1>2, <1>3, RemoveAtFacts
<1>6. IsInjective(completed) =>
        IsInjective(completed') /\ ToSet(completed') = ToSet(completed) \ {popped'}
  BY <1>4, <1>5 DEF Distinct, IsInjective
<1> QED  BY <1>2, <1>3, <1>4, <1>5, <1>6

\* A request goes to the end of a queue that does not hold it.
LEMMA AppendHands ==
  ASSUME NEW S, NEW s \in Seq(S), NEW e \in S
  PROVE  /\ Append(s, e) \in Seq(S)
         /\ ToSet(Append(s, e)) = ToSet(s) \cup {e}
         /\ IsInjective(s) /\ e \notin ToSet(s) => IsInjective(Append(s, e))
BY AppendFacts DEF Distinct, IsInjective

\* The head leaves the queue.
LEMMA TailHands ==
  ASSUME NEW S, NEW s \in Seq(S), s # <<>>
  PROVE  /\ Tail(s) \in Seq(S) /\ Head(s) \in S /\ Head(s) \in ToSet(s)
         /\ IsInjective(s) => IsInjective(Tail(s)) /\ ToSet(Tail(s)) = ToSet(s) \ {Head(s)}
BY TailFacts DEF Distinct, IsInjective

\* Nothing but requests and the null job is in a queue.
LEMMA QueueElements ==
  ASSUME TypeOK
  PROVE  ToSet(jobs) \subseteq Req \cup {StopJob} /\ ToSet(completed) \subseteq Req
BY DEF TypeOK, ToSet



-----------------------------------------------------------------------------
(* Types                                                                   *)

LEMMA InitTypes == Init => TypeOK
<1>1. <<>> \in Seq(Req) /\ <<>> \in Seq(Req \cup {StopJob})
  OBVIOUS
<1> SUFFICES ASSUME Init PROVE TypeOK
  OBVIOUS
<1>2. /\ jobs \in Seq(Req \cup {StopJob}) /\ completed \in Seq(Req)
      /\ pend \in [Worker -> Nat] /\ orphans \in Nat /\ discarded \in Nat
  BY <1>1 DEF Init
<1>3. /\ state \in [Req -> {"free", "ready", "pending", "completed"}]
      /\ held \in [Req -> BOOLEAN] /\ lock \in [Req -> BOOLEAN]
      /\ asker \in [Req -> Worker \cup {NoWorker}]
      /\ limited \in [Req -> BOOLEAN] /\ event \in [Req -> BOOLEAN]
      /\ fate \in [Req -> {"none", "called", "dropped"}]
      /\ receiver \in [Req -> Worker \cup {NoWorker}]
  BY DEF Init
<1> QED  BY <1>2, <1>3 DEF Init, TypeOK

\* A node goes back to the pool.
LEMMA RecycleTypes ==
  ASSUME TypeOK, NEW r \in Req, Recycle(r)
  PROVE  /\ state' \in [Req -> {"free", "ready", "pending", "completed"}]
         /\ asker' \in [Req -> Worker \cup {NoWorker}]
         /\ limited' \in [Req -> BOOLEAN] /\ event' \in [Req -> BOOLEAN]
         /\ fate' \in [Req -> {"none", "called", "dropped"}]
         /\ receiver' \in [Req -> Worker \cup {NoWorker}]
BY DEF TypeOK, Recycle

LEMMA TypeStep ==
  ASSUME TypeOK, StepSound, WaitSound, [Next]_vars
  PROVE  TypeOK'
<1> USE DEF TypeOK
<1>1. ASSUME NEW r \in Req, Create(r)
      PROVE  TypeOK'
  BY <1>1 DEF Create
<1>2. ASSUME NEW r \in Req, Forget(r)
      PROVE  TypeOK'
  <2>1. CASE lock[r]
    BY <1>2, <2>1 DEF Forget
  <2>2. CASE ~lock[r]
    <3>1. Recycle(r)
      BY <1>2, <2>2 DEF Forget
    <3> QED  BY <1>2, <3>1, RecycleTypes DEF Forget
  <2> QED  BY <2>1, <2>2
<1>3. ASSUME NEW w \in Worker, NEW r \in Req, NEW l \in Limits, Get(w, r, l)
      PROVE  TypeOK'
  <2>1. Append(jobs, r) \in Seq(Req \cup {StopJob}) /\ l \in BOOLEAN
    BY AppendHands, AsyncAssumption
  <2> QED  BY <1>3, <2>1 DEF Get
<1>4. ASSUME NEW w \in Worker, NEW r \in Req, Wait(w, r)
      PROVE  TypeOK'
  <2>1. res' \in BOOLEAN /\ vm' \in {"wait", "orphans"}
    BY <1>4 DEF Wait
  <2> QED  BY <1>4, <2>1 DEF Wait
<1>5. ASSUME NEW w \in Worker, Spawn(w) \/ Destroy(w)
      PROVE  TypeOK'
  BY <1>5 DEF Spawn, Destroy
<1>6. CASE End
  BY <1>6 DEF End
<1>7. CASE Take
  <2>1. Tail(jobs) \in Seq(Req \cup {StopJob}) /\ Head(jobs) \in Req \cup {StopJob}
    BY <1>7, TailHands DEF Take
  <2> QED  BY <1>7, <2>1 DEF Take
<1>8. CASE Register \/ NoTransport \/ Answer
  BY <1>8 DEF Register, NoTransport, Answer
<1>9. CASE Publish
  <2>1. job \in Req
    BY <1>9 DEF Publish, StepSound
  <2>2. Append(completed, job) \in Seq(Req)
    BY <2>1, AppendHands
  <2> QED  BY <1>9, <2>1, <2>2 DEF Publish
<1>10. CASE Wake
  <2>1. wr \in Req
    BY <1>10 DEF Wake, WaitSound, InWait
  <2> QED  BY <1>10, <2>1 DEF Wake
<1>19. CASE OrphansDone \/ OwnDone
  BY <1>19 DEF OrphansDone, OwnDone
<1>11. CASE DiscardOrphan
  <2>1. Pop(Gone, "dropped", "orphans")
    BY <1>11 DEF DiscardOrphan
  <2>2. /\ popped' \in Req /\ completed' \in Seq(Req)
        /\ fate' = [fate EXCEPT ![popped'] = "dropped"]
        /\ receiver' = [receiver EXCEPT ![popped'] = NoWorker]
        /\ vm' = "unlock" /\ back' = "orphans"
        /\ UNCHANGED <<state, held, lock, asker, limited, event, jobs, threadVars, ending>>
    BY <2>1, PopFacts
  <2>3. orphans' \in Nat /\ UNCHANGED <<workers, unborn, pend, waitVars, dieVars>>
    BY <1>11 DEF DiscardOrphan
  <2> QED  BY <2>2, <2>3
<1>12. ASSUME NEW f \in {"called", "dropped"}, NEW b \in {"orphans", "run"}, PopOwn(f, b)
       PROVE  TypeOK'
  <2>1. Pop({wk}, f, b)
    BY <1>12 DEF PopOwn
  <2>2. /\ popped' \in Req /\ completed' \in Seq(Req)
        /\ fate' = [fate EXCEPT ![popped'] = f]
        /\ receiver' = [receiver EXCEPT ![popped'] = IF f = "called" THEN wk ELSE NoWorker]
        /\ vm' = "unlock" /\ back' = b
        /\ UNCHANGED <<state, held, lock, asker, limited, event, jobs, threadVars, ending>>
    BY <2>1, PopFacts
  <2>3. /\ pend' = [pend EXCEPT ![wk] = IF @ > 0 THEN @ - 1 ELSE 0]
        /\ UNCHANGED <<workers, unborn, orphans, waitVars, dieVars>>
    BY <1>12 DEF PopOwn
  <2>4. pend' \in [Worker -> Nat]
    <3>1. \A n \in Nat : (IF n > 0 THEN n - 1 ELSE 0) \in Nat
      OBVIOUS
    <3> QED  BY <2>3, <3>1
  <2> QED  BY <2>2, <2>3, <2>4
<1>13. CASE Unlock
  <2>0. popped \in Req
    BY <1>13 DEF Unlock, StepSound
  <2>1. CASE held[popped]
    BY <1>13, <2>0, <2>1 DEF Unlock
  <2>2. CASE ~held[popped]
    <3>1. Recycle(popped)
      BY <1>13, <2>2 DEF Unlock
    <3> QED  BY <1>13, <2>0, <3>1, RecycleTypes DEF Unlock
  <2> QED  BY <2>1, <2>2
<1>14. CASE Discard
  <2>1. Pop({dying}, "dropped", "discard")
    BY <1>14 DEF Discard
  <2>2. /\ popped' \in Req /\ completed' \in Seq(Req)
        /\ fate' = [fate EXCEPT ![popped'] = "dropped"]
        /\ receiver' = [receiver EXCEPT ![popped'] = NoWorker]
        /\ vm' = "unlock" /\ back' = "discard"
        /\ UNCHANGED <<state, held, lock, asker, limited, event, jobs, threadVars, ending>>
    BY <2>1, PopFacts
  <2>3. discarded' \in Nat /\ UNCHANGED <<workerVars, waitVars, dying, dback>>
    BY <1>14 DEF Discard
  <2> QED  BY <2>2, <2>3
<1>15. CASE DiscardDone
  <2>1. dying \in Worker
    BY <1>15 DEF DiscardDone, StepSound, Dying
  <2> QED  BY <1>15, <2>1 DEF DiscardDone
<1>16. CASE Cancel \/ Join \/ Freed
  BY <1>16 DEF Cancel, Join, Freed
<1>17. CASE PushStop
  <2>1. Append(jobs, StopJob) \in Seq(Req \cup {StopJob})
    BY AppendHands
  <2> QED  BY <1>17, <2>1 DEF PushStop
<1>18. CASE Ended \/ UNCHANGED vars
  BY <1>18 DEF Ended, vars
<1> QED
  BY <1>1, <1>2, <1>3, <1>4, <1>5, <1>6, <1>7, <1>8, <1>9, <1>10, <1>11, <1>12, <1>13,
     <1>14, <1>15, <1>16, <1>17, <1>18, <1>19
  DEF Next, Thread, Script, Machine


-----------------------------------------------------------------------------
(* Hands and states                                                        *)

QuietVars == <<state, lock, asker, event, fate, receiver, jobs, completed, job, popped>>

LEMMA Quiet ==
  ASSUME HandsSound, StateSound, UNCHANGED QuietVars
  PROVE  HandsSound' /\ StateSound'
BY DEF HandsSound, StateSound, QuietVars

\* A request taken out of the completion queue is in the loop's hand.
LEMMA PopStep ==
  ASSUME TypeOK, HandsSound, StateSound, NEW S, NEW f, NEW b, Pop(S, f, b),
         popped \notin Req, f # "none", UNCHANGED job
  PROVE  HandsSound' /\ StateSound'
<1>1. /\ popped' \in Req /\ popped' \in ToSet(completed)
      /\ IsInjective(completed') /\ ToSet(completed') = ToSet(completed) \ {popped'}
      /\ fate' = [fate EXCEPT ![popped'] = f]
      /\ receiver' = [receiver EXCEPT ![popped'] = IF f = "called" THEN wk ELSE NoWorker]
      /\ UNCHANGED <<state, held, lock, asker, limited, event, jobs, threadVars, ending>>
  BY PopFacts DEF HandsSound
<1>2. HandsSound'
  BY <1>1 DEF HandsSound
<1>3. \A r \in Req :
        /\ fate'[r] = IF r = popped' THEN f ELSE fate[r]
        /\ receiver'[r] # NoWorker => IF r = popped' THEN f = "called" ELSE receiver[r] # NoWorker
  BY <1>1 DEF TypeOK
<1>4. state[popped'] = "completed"
  BY <1>1 DEF HandsSound, StateSound
<1>5. StateSound'
  BY <1>1, <1>3, <1>4 DEF HandsSound, StateSound
<1> QED  BY <1>2, <1>5

\* A node that nobody holds goes back to the pool.
LEMMA RecycleStep ==
  ASSUME TypeOK, StateSound, NEW r \in Req, Recycle(r),
         r \notin ToSet(jobs), job # r, r \notin ToSet(completed), ~lock'[r],
         \A q \in Req \ {r} : lock'[q] = lock[q],
         UNCHANGED <<jobs, completed, job>>
  PROVE  StateSound'
<1>1. \A q \in Req :
        /\ state'[q] = IF q = r THEN "free" ELSE state[q]
        /\ asker'[q] = IF q = r THEN NoWorker ELSE asker[q]
        /\ event'[q] = IF q = r THEN FALSE ELSE event[q]
        /\ fate'[q] = IF q = r THEN "none" ELSE fate[q]
        /\ receiver'[q] = IF q = r THEN NoWorker ELSE receiver[q]
  BY DEF TypeOK, Recycle
<1> DEFINE Sound(q) == /\ state[q] = "pending" <=> q \in ToSet(jobs) \/ job = q
                       /\ lock[q] /\ state[q] # "pending" => state[q] = "completed"
                       /\ fate[q] # "none" <=> state[q] = "completed" /\ q \notin ToSet(completed)
                       /\ receiver[q] # NoWorker => fate[q] = "called"
                       /\ event[q] => state[q] = "completed"
                       /\ asker[q] = NoWorker <=> state[q] \in {"free", "ready"}
<1>2. Sound(r)'
  BY <1>1
<1>3. ASSUME NEW q \in Req \ {r}
      PROVE  Sound(q)'
  BY <1>1, <1>3 DEF StateSound
<1> QED  BY <1>2, <1>3 DEF StateSound

LEMMA HandsStep ==
  ASSUME TypeOK, HandsSound, StateSound, StepSound, [Next]_vars
  PROVE  HandsSound' /\ StateSound'
<1> USE QueueElements, AsyncAssumption
<1>1. ASSUME NEW r \in Req, Create(r)
      PROVE  HandsSound' /\ StateSound'
  <2>1. HandsSound'
    BY <1>1 DEF Create, HandsSound
  <2>2. /\ state[r] = "free"
        /\ \A q \in Req : state'[q] = IF q = r THEN "ready" ELSE state[q]
        /\ UNCHANGED <<lock, asker, event, fate, receiver, jobs, completed, job>>
    BY <1>1 DEF Create, TypeOK
  <2> QED  BY <2>1, <2>2 DEF StateSound
<1>2. ASSUME NEW r \in Req, Forget(r)
      PROVE  HandsSound' /\ StateSound'
  <2>1. CASE lock[r]
    BY <1>2, <2>1, Quiet DEF Forget, QuietVars
  <2>2. CASE ~lock[r]
    <3>1. Recycle(r) /\ UNCHANGED <<lock, jobs, completed, job, popped>>
      BY <1>2, <2>2 DEF Forget
    <3>2. HandsSound'
      BY <3>1 DEF HandsSound
    <3>3. r \notin ToSet(jobs) /\ job # r /\ r \notin ToSet(completed)
      BY <2>2 DEF HandsSound
    <3> QED  BY <2>2, <3>1, <3>2, <3>3, RecycleStep
  <2> QED  BY <2>1, <2>2
<1>3. ASSUME NEW w \in Worker, NEW r \in Req, NEW l \in Limits, Get(w, r, l)
      PROVE  HandsSound' /\ StateSound'
  <2>1. /\ state[r] = "ready" /\ jobs' = Append(jobs, r)
        /\ UNCHANGED <<fate, receiver, completed, job, popped>>
    BY <1>3 DEF Get
  <2>2. \A q \in Req : /\ state'[q] = IF q = r THEN "pending" ELSE state[q]
                       /\ asker'[q] = IF q = r THEN w ELSE asker[q]
                       /\ event'[q] = IF q = r THEN FALSE ELSE event[q]
                       /\ lock'[q] = IF q = r THEN TRUE ELSE lock[q]
    BY <1>3 DEF Get, TypeOK
  <2>3. ~lock[r] /\ r \notin ToSet(jobs) /\ r \notin ToSet(completed) /\ r \notin {job, popped}
    BY <2>1 DEF HandsSound, StateSound
  <2>4. ToSet(jobs') = ToSet(jobs) \cup {r} /\ IsInjective(jobs')
    BY <2>1, <2>3, AppendHands DEF TypeOK, HandsSound
  <2>5. HandsSound'
    BY <2>1, <2>2, <2>3, <2>4 DEF HandsSound
  <2>6. \A q \in Req : /\ q \in ToSet(jobs') <=> q = r \/ q \in ToSet(jobs)
                       /\ q \in ToSet(completed') <=> q \in ToSet(completed)
                       /\ q = job' <=> q = job
                       /\ fate'[q] = fate[q] /\ receiver'[q] = receiver[q]
    BY <2>1, <2>4
  <2>7. w # NoWorker
    OBVIOUS
  <2>8. fate[r] = "none" /\ receiver[r] = NoWorker
    BY <2>1 DEF StateSound
  <2>9. StateSound'
    <3> SUFFICES ASSUME NEW q \in Req
                 PROVE  /\ state'[q] = "pending" <=> q \in ToSet(jobs') \/ job' = q
                        /\ lock'[q] /\ state'[q] # "pending" => state'[q] = "completed"
                        /\ fate'[q] # "none"
                             <=> state'[q] = "completed" /\ q \notin ToSet(completed')
                        /\ receiver'[q] # NoWorker => fate'[q] = "called"
                        /\ event'[q] => state'[q] = "completed"
                        /\ asker'[q] = NoWorker <=> state'[q] \in {"free", "ready"}
      BY DEF StateSound
    <3>1. CASE q = r
      BY <2>2, <2>6, <2>7, <2>8, <3>1
    <3>2. CASE q # r
      BY <2>2, <2>6, <3>2 DEF StateSound
    <3> QED  BY <3>1, <3>2
  <2> QED  BY <2>5, <2>9
<1>4. ASSUME NEW w \in Worker, NEW r \in Req, Wait(w, r)
      PROVE  HandsSound' /\ StateSound'
  BY <1>4, Quiet DEF Wait, QuietVars
<1>5. ASSUME NEW w \in Worker, Spawn(w) \/ Destroy(w)
      PROVE  HandsSound' /\ StateSound'
  BY <1>5, Quiet DEF Spawn, Destroy, QuietVars
<1>6. CASE Take
  <2>1. /\ jobs # <<>> /\ jobs' = Tail(jobs) /\ stage = "waiting"
        /\ job' = IF Head(jobs) = StopJob THEN NoReq ELSE Head(jobs)
        /\ UNCHANGED <<state, lock, asker, event, fate, receiver, completed, popped>>
    BY <1>6 DEF Take
  <2>2. /\ Head(jobs) \in ToSet(jobs)
        /\ ToSet(jobs') = ToSet(jobs) \ {Head(jobs)} /\ IsInjective(jobs')
    BY <2>1, TailHands DEF TypeOK, HandsSound
  <2>3. job = NoReq
    BY <2>1 DEF StepSound
  <2>4. \A r \in Req : r = job' <=> r = Head(jobs)
    BY <2>1
  <2>5. HandsSound'
    BY <2>1, <2>2, <2>3, <2>4 DEF HandsSound
  <2>6. StateSound'
    BY <2>1, <2>2, <2>3, <2>4 DEF HandsSound, StateSound
  <2> QED  BY <2>5, <2>6
<1>7. CASE Publish
  <2>1. /\ stage = "answered" /\ completed' = Append(completed, job) /\ job' = NoReq
        /\ UNCHANGED <<lock, asker, fate, receiver, jobs, popped>>
    BY <1>7 DEF Publish
  <2>2. job \in Req
    BY <2>1 DEF StepSound
  <2>3. \A q \in Req : /\ state'[q] = IF q = job THEN "completed" ELSE state[q]
                       /\ event'[q] = IF q = job THEN TRUE ELSE event[q]
    BY <1>7, <2>2 DEF Publish, TypeOK
  <2>4. job \notin ToSet(jobs) /\ job \notin ToSet(completed) /\ job # popped
    BY <2>2 DEF HandsSound
  <2>5. ToSet(completed') = ToSet(completed) \cup {job} /\ IsInjective(completed')
    BY <2>1, <2>2, <2>4, AppendHands DEF TypeOK, HandsSound
  <2>6. HandsSound'
    BY <2>1, <2>2, <2>4, <2>5 DEF HandsSound
  <2>7. StateSound'
    BY <2>1, <2>2, <2>3, <2>4, <2>5 DEF StateSound
  <2> QED  BY <2>6, <2>7
<1>8. CASE Register \/ NoTransport \/ Answer
  BY <1>8, Quiet DEF Register, NoTransport, Answer, QuietVars
<1>9. CASE Wake \/ OrphansDone \/ OwnDone
  BY <1>9, Quiet DEF Wake, OrphansDone, OwnDone, QuietVars
<1>10. CASE DiscardOrphan
  <2>1. Pop(Gone, "dropped", "orphans") /\ popped \notin Req
    BY <1>10 DEF DiscardOrphan, StepSound
  <2>2. UNCHANGED job
    BY <2>1 DEF Pop
  <2> QED  BY <2>1, <2>2, PopStep
<1>11. ASSUME NEW f \in {"called", "dropped"}, NEW b \in {"orphans", "run"}, PopOwn(f, b)
       PROVE  HandsSound' /\ StateSound'
  <2>1. Pop({wk}, f, b) /\ popped \notin Req /\ f # "none"
    BY <1>11 DEF PopOwn, StepSound
  <2>2. UNCHANGED job
    BY <2>1 DEF Pop
  <2> QED  BY <2>1, <2>2, PopStep
<1>12. CASE Discard
  <2>1. Pop({dying}, "dropped", "discard") /\ popped \notin Req
    BY <1>12 DEF Discard, StepSound
  <2>2. UNCHANGED job
    BY <2>1 DEF Pop
  <2> QED  BY <2>1, <2>2, PopStep
<1>13. CASE Unlock
  <2>1. /\ popped \in Req /\ lock' = [lock EXCEPT ![popped] = FALSE] /\ popped' = NoReq
        /\ UNCHANGED <<jobs, completed, job>>
    BY <1>13 DEF Unlock, StepSound
  <2>2. \A q \in Req : lock'[q] = IF q = popped THEN FALSE ELSE lock[q]
    BY <2>1 DEF TypeOK
  <2>3. HandsSound'
    BY <2>1, <2>2 DEF HandsSound
  <2>4. popped \notin ToSet(jobs) /\ job # popped /\ popped \notin ToSet(completed)
    BY <2>1 DEF HandsSound
  <2>5. CASE held[popped]
    <3>1. UNCHANGED <<state, asker, event, fate, receiver>>
      BY <1>13, <2>5 DEF Unlock
    <3> QED  BY <2>1, <2>2, <2>3, <2>4, <3>1 DEF StateSound
  <2>6. CASE ~held[popped]
    <3>1. Recycle(popped)
      BY <1>13, <2>6 DEF Unlock
    <3> QED  BY <2>1, <2>2, <2>3, <2>4, <3>1, RecycleStep
  <2> QED  BY <2>5, <2>6
<1>14. CASE DiscardDone \/ End \/ Cancel \/ Join \/ Freed
  BY <1>14, Quiet DEF DiscardDone, End, Cancel, Join, Freed, QuietVars
<1>15. CASE PushStop
  <2>1. /\ jobs' = Append(jobs, StopJob) /\ vm = "stop"
        /\ UNCHANGED <<state, lock, asker, event, fate, receiver, completed, job, popped>>
    BY <1>15 DEF PushStop
  <2>2. StopJob \notin ToSet(jobs)
    BY <2>1 DEF StepSound, Stopped, Dying
  <2>3. ToSet(jobs') = ToSet(jobs) \cup {StopJob} /\ IsInjective(jobs')
    BY <2>1, <2>2, AppendHands DEF TypeOK, HandsSound
  <2>4. \A r \in Req : r \in ToSet(jobs') <=> r \in ToSet(jobs)
    BY <2>3
  <2> QED  BY <2>1, <2>3, <2>4 DEF HandsSound, StateSound
<1>16. CASE Ended \/ UNCHANGED vars
  BY <1>16, Quiet DEF Ended, vars, QuietVars
<1> QED
  BY <1>1, <1>2, <1>3, <1>4, <1>5, <1>6, <1>7, <1>8, <1>9, <1>10, <1>11, <1>12, <1>13,
     <1>14, <1>15, <1>16
  DEF Next, Thread, Script, Machine

-----------------------------------------------------------------------------
(* Where the threads are                                                   *)

LEMMA InitSound == Init => HandsSound /\ StateSound /\ StepSound /\ WaitSound
<1> SUFFICES ASSUME Init PROVE HandsSound /\ StateSound /\ StepSound /\ WaitSound
  OBVIOUS
<1>1. ToSet(jobs) = {} /\ ToSet(completed) = {}
  BY DEF Init, ToSet
<1>2. IsInjective(jobs) /\ IsInjective(completed)
  BY DEF Init, IsInjective
<1>3. vm = "run" /\ popped = NoReq /\ job = NoReq /\ dying = NoWorker
  BY DEF Init
<1>4. HandsSound
  BY <1>1, <1>2, <1>3, AsyncAssumption DEF Init, HandsSound
<1>5. StateSound
  BY <1>1, <1>3, AsyncAssumption DEF Init, StateSound
<1>6. StepSound
  BY <1>1, <1>3, AsyncAssumption DEF Init, StepSound, Stopped, Dying
<1>7. WaitSound
  BY <1>3 DEF WaitSound, InWait, Dying
<1> QED  BY <1>4, <1>5, <1>6, <1>7

\* The thread moves, and the VM's thread stays where it is.
LEMMA StageStep ==
  ASSUME StepSound,
         UNCHANGED <<popped, ending, vm, back, dieVars, workers, unborn>>,
         ToSet(jobs') \subseteq ToSet(jobs) \cup Req,
         stage' \in {"none", "waiting"} => job' = NoReq,
         stage' \in {"taken", "sending", "answered"} => job' \in Req
  PROVE  StepSound'
BY AsyncAssumption DEF StepSound, Stopped, Dying

\* A request leaves the completion queue.
LEMMA PopWhere ==
  ASSUME TypeOK, StepSound, NEW S, NEW f, NEW b, Pop(S, f, b),
         b = "discard" => vm = "discard", b # "discard" => vm \in {"orphans", "own"},
         UNCHANGED <<workers, unborn, dying, dback>>
  PROVE  StepSound'
<1>1. /\ popped' \in Req /\ vm' = "unlock" /\ back' = b
      /\ UNCHANGED <<jobs, stage, job, ending>>
  BY PopFacts
<1>2. CASE b = "discard"
  BY <1>1, <1>2 DEF StepSound, Stopped, Dying
<1>3. CASE b # "discard"
  BY <1>1, <1>3 DEF StepSound, Stopped, Dying
<1> QED  BY <1>2, <1>3

LEMMA StepStep ==
  ASSUME TypeOK, StepSound, [Next]_vars
  PROVE  StepSound'
<1> USE AsyncAssumption
<1>1. ASSUME NEW r \in Req, Create(r) \/ Forget(r)
      PROVE  StepSound'
  BY <1>1, StageStep DEF Create, Forget, StepSound
<1>2. ASSUME NEW w \in Worker, NEW r \in Req, NEW l \in Limits, Get(w, r, l)
      PROVE  StepSound'
  <2>1. jobs \in Seq(Req \cup {StopJob}) /\ jobs' = Append(jobs, r)
    BY <1>2 DEF Get, TypeOK
  <2>2. ToSet(jobs') = ToSet(jobs) \cup {r}
    BY <2>1, AppendHands
  <2> QED  BY <1>2, <2>2, StageStep DEF Get, StepSound
<1>3. ASSUME NEW w \in Worker, NEW r \in Req, Wait(w, r)
      PROVE  StepSound'
  BY <1>3 DEF Wait, StepSound, Stopped, Dying
<1>4. ASSUME NEW w \in Worker, Spawn(w)
      PROVE  StepSound'
  BY <1>4 DEF Spawn, StepSound, Stopped, Dying
<1>5. ASSUME NEW w \in Worker, Destroy(w)
      PROVE  StepSound'
  BY <1>5 DEF Destroy, StepSound, Stopped, Dying
<1>6. CASE Take
  <2>1. /\ jobs # <<>> /\ jobs' = Tail(jobs)
        /\ job' = IF Head(jobs) = StopJob THEN NoReq ELSE Head(jobs)
        /\ stage' = IF Head(jobs) = StopJob \/ ending THEN "exited" ELSE "taken"
    BY <1>6 DEF Take
  <2>2. Head(jobs) \in Req \cup {StopJob}
    BY <2>1, TailHands DEF TypeOK
  <2>3. ToSet(jobs') \subseteq ToSet(jobs)
    BY <2>1, TailFacts DEF TypeOK
  <2> QED  BY <1>6, <2>1, <2>2, <2>3, StageStep DEF Take
<1>7. CASE Register \/ NoTransport \/ Answer
  BY <1>7, StageStep DEF Register, NoTransport, Answer, StepSound
<1>8. CASE Publish
  BY <1>8, StageStep DEF Publish
<1>9. CASE Wake \/ OrphansDone \/ OwnDone
  BY <1>9 DEF Wake, OrphansDone, OwnDone, StepSound, Stopped, Dying
<1>10. CASE DiscardOrphan
  <2>1. Pop(Gone, "dropped", "orphans") /\ vm = "orphans"
        /\ UNCHANGED <<workers, unborn, dying, dback>>
    BY <1>10 DEF DiscardOrphan
  <2> QED  BY <2>1, PopWhere
<1>11. ASSUME NEW f \in {"called", "dropped"}, NEW b \in {"orphans", "run"}, PopOwn(f, b)
       PROVE  StepSound'
  <2>1. Pop({wk}, f, b) /\ vm = "own" /\ UNCHANGED <<workers, unborn, dying, dback>>
    BY <1>11 DEF PopOwn
  <2> QED  BY <2>1, PopWhere
<1>12. CASE Discard
  <2>1. Pop({dying}, "dropped", "discard") /\ vm = "discard"
        /\ UNCHANGED <<workers, unborn, dying, dback>>
    BY <1>12 DEF Discard
  <2> QED  BY <2>1, PopWhere
<1>13. CASE Unlock
  <2>1. /\ vm = "unlock" /\ vm' = back /\ popped' = NoReq
        /\ UNCHANGED <<jobs, threadVars, ending, workerVars, back, dieVars>>
    BY <1>13 DEF Unlock
  <2> QED  BY <2>1 DEF StepSound, Stopped, Dying, TypeOK
<1>14. CASE DiscardDone
  <2>1. /\ vm = "discard" /\ vm' = dback /\ dying' = NoWorker
        /\ UNCHANGED <<jobs, threadVars, ending, workers, unborn, popped, back>>
    BY <1>14 DEF DiscardDone
  <2> QED  BY <2>1 DEF StepSound, Stopped, Dying, TypeOK
<1>15. CASE End \/ Cancel \/ Join \/ Freed
  BY <1>15 DEF End, Cancel, Join, Freed, StepSound, Stopped, Dying
<1>16. CASE PushStop
  BY <1>16 DEF PushStop, StepSound, Stopped, Dying
<1>17. CASE Ended \/ UNCHANGED vars
  BY <1>17 DEF Ended, vars, StepSound, Stopped, Dying
<1> QED
  BY <1>1, <1>2, <1>3, <1>4, <1>5, <1>6, <1>7, <1>8, <1>9, <1>10, <1>11, <1>12, <1>13,
     <1>14, <1>15, <1>16, <1>17
  DEF Next, Thread, Script, Machine

-----------------------------------------------------------------------------
(* The wait                                                                *)

\* Nothing that a wait relies on changes.
LEMMA WaitKept ==
  ASSUME WaitSound, InWait' => InWait,
         InWait' => UNCHANGED <<waitVars, held, workers>> /\ state'[wr] = state[wr]
  PROVE  WaitSound'
BY DEF WaitSound

LEMMA WaitStep ==
  ASSUME TypeOK, HandsSound, StateSound, StepSound, WaitSound, [Next]_vars
  PROVE  WaitSound'
<1>1. ASSUME NEW r \in Req, Create(r) \/ Forget(r)
      PROVE  WaitSound'
  BY <1>1 DEF Create, Forget, WaitSound, InWait, Dying
<1>2. ASSUME NEW w \in Worker, NEW r \in Req, NEW l \in Limits, Get(w, r, l)
      PROVE  WaitSound'
  BY <1>2 DEF Get, WaitSound, InWait, Dying
<1>3. ASSUME NEW w \in Worker, NEW r \in Req, Wait(w, r)
      PROVE  WaitSound'
  BY <1>3 DEF Wait, WaitSound
<1>4. ASSUME NEW w \in Worker, Spawn(w)
      PROVE  WaitSound'
  BY <1>4 DEF Spawn, WaitSound, InWait, Dying
<1>5. ASSUME NEW w \in Worker, Destroy(w)
      PROVE  WaitSound'
  <2>1. CASE vm = "orphans"
    BY <1>5, <2>1 DEF Destroy, WaitSound, InWait, Dying
  <2>2. CASE vm # "orphans"
    BY <1>5, <2>2 DEF Destroy, WaitSound, InWait, Dying
  <2> QED  BY <2>1, <2>2
<1>6. CASE Take \/ Register \/ NoTransport \/ Answer
  BY <1>6, WaitKept DEF Take, Register, NoTransport, Answer, InWait, Dying
<1>7. CASE Publish
  <2>1. job \in Req
    BY <1>7 DEF Publish, StepSound
  <2>2. \A q \in Req : state'[q] = IF q = job THEN "completed" ELSE state[q]
    BY <1>7, <2>1 DEF Publish, TypeOK
  <2> QED  BY <1>7, <2>2 DEF Publish, WaitSound, InWait, Dying
<1>8. CASE Wake
  BY <1>8 DEF Wake, WaitSound, InWait, Dying, StateSound
<1>9. CASE OrphansDone \/ OwnDone
  BY <1>9, WaitKept DEF OrphansDone, OwnDone, InWait, Dying
<1>10. CASE DiscardOrphan
  BY <1>10, WaitKept DEF DiscardOrphan, Pop, InWait, Dying
<1>11. ASSUME NEW f \in {"called", "dropped"}, NEW b \in {"orphans", "run"}, PopOwn(f, b)
       PROVE  WaitSound'
  <2>1. vm = "own" /\ vm' = "unlock" /\ back' = b
    BY <1>11 DEF PopOwn, Pop
  <2>2. InWait' => InWait
    BY <2>1 DEF InWait, Dying
  <2>3. UNCHANGED <<waitVars, held, workers, state>>
    BY <1>11 DEF PopOwn, Pop
  <2> QED  BY <2>2, <2>3, WaitKept
<1>12. CASE Discard
  BY <1>12, WaitKept DEF Discard, Pop, InWait, Dying
<1>13. CASE Unlock
  <2>1. /\ vm = "unlock" /\ vm' = back /\ popped \in Req
        /\ UNCHANGED <<held, workers, waitVars, back, dieVars>>
    BY <1>13 DEF Unlock, StepSound
  <2>2. InWait' => InWait
    BY <2>1 DEF InWait, Dying, TypeOK
  <2>3. \A q \in Req : held[q] => state'[q] = state[q]
    <3>1. CASE held[popped]
      BY <1>13, <3>1 DEF Unlock
    <3>2. CASE ~held[popped]
      BY <1>13, <2>1, <3>2 DEF Unlock, Recycle, TypeOK
    <3> QED  BY <3>1, <3>2
  <2>4. InWait' => state'[wr] = state[wr]
    BY <2>2, <2>3 DEF WaitSound
  <2> QED  BY <2>1, <2>2, <2>4, WaitKept
<1>14. CASE DiscardDone
  <2>1. /\ vm = "discard" /\ vm' = dback
        /\ UNCHANGED <<held, workers, waitVars, state>>
    BY <1>14 DEF DiscardDone
  <2>2. InWait' => InWait
    BY <2>1 DEF InWait, Dying, TypeOK
  <2> QED  BY <2>1, <2>2, WaitKept
<1>15. CASE End \/ Cancel \/ Join \/ Freed \/ PushStop
  BY <1>15, WaitKept DEF End, Cancel, Join, Freed, PushStop, InWait, Dying
<1>16. CASE Ended \/ UNCHANGED vars
  BY <1>16, WaitKept DEF Ended, vars, InWait, Dying
<1> QED
  BY <1>1, <1>2, <1>3, <1>4, <1>5, <1>6, <1>7, <1>8, <1>9, <1>10, <1>11, <1>12, <1>13,
     <1>14, <1>15, <1>16
  DEF Next, Thread, Script, Machine

-----------------------------------------------------------------------------
(* The counts                                                              *)

Lost == UNION {Under(w) : w \in Gone \ {dying}}

LEMMA UnderFinite ==
  /\ \A w : IsFiniteSet(Under(w)) /\ Cardinality(Under(w)) \in Nat
  /\ IsFiniteSet(Lost) /\ Cardinality(Lost) \in Nat
<1>1. IsFiniteSet(Req)
  BY AsyncAssumption
<1>2. ASSUME NEW w
      PROVE  IsFiniteSet(Under(w)) /\ Cardinality(Under(w)) \in Nat
  <2>1. Under(w) \in SUBSET Req
    BY DEF Under
  <2> QED  BY <1>1, <2>1, FS_Subset, FS_CardinalityType
<1>3. Lost \in SUBSET Req
  BY DEF Lost, Under
<1>4. IsFiniteSet(Lost) /\ Cardinality(Lost) \in Nat
  BY <1>1, <1>3, FS_Subset, FS_CardinalityType
<1> QED  BY <1>2, <1>4

LEMMA InitCounts == Init => CountSound
<1> SUFFICES ASSUME Init PROVE CountSound
  OBVIOUS
<1>1. \A w : Under(w) = {}
  BY DEF Init, Under
<1>2. Lost = {} /\ dying = NoWorker /\ orphans = 0 /\ workers = {}
  BY <1>1 DEF Init, Lost
<1>3. CountsExact
  BY <1>2, FS_EmptySet DEF CountsExact, Lost
<1>4. \A w \in unborn : pend[w] = 0
  BY DEF Init
<1> QED  BY <1>1, <1>3, <1>4 DEF CountSound

\* No request comes under way, and none is taken out.
LEMMA CountKept ==
  ASSUME CountSound, UNCHANGED <<workers, unborn, pend, orphans, dying, discarded>>,
         \A w \in Worker \cup {dying} : Under(w)' = Under(w), unborn \subseteq Worker,
         workers \subseteq Worker
  PROVE  CountSound'
<1>1. Gone' = Gone
  BY DEF Gone
<1>2. \A w \in Gone \ {dying} : Under(w)' = Under(w)
  BY DEF Gone
<1>3. Lost' = Lost
  BY <1>1, <1>2 DEF Lost
<1>4. CountsExact'
  BY <1>3 DEF CountSound, CountsExact, Lost
<1>5. \A w \in unborn' : pend'[w] = 0 /\ Under(w)' = {}
  BY DEF CountSound
<1> QED  BY <1>4, <1>5 DEF CountSound

\* Nothing that makes a request count changes.
LEMMA CountQuiet ==
  ASSUME TypeOK, CountSound,
         UNCHANGED <<lock, fate, asker, workers, unborn, pend, orphans, dying, discarded>>
  PROVE  CountSound'
<1>1. \A w : Under(w)' = Under(w)
  BY DEF Under
<1> QED  BY <1>1, CountKept DEF TypeOK

\* A request that counts is taken out of the queue: it counts no more.
LEMMA PopCounts ==
  ASSUME TypeOK, HandsSound, StateSound, NEW S, NEW f, NEW b, Pop(S, f, b), f # "none"
  PROVE  /\ asker[popped'] \in S \cap Worker
         /\ popped' \in Under(asker[popped'])
         /\ \A w : Under(w)' = Under(w) \ {popped'}
         /\ \A w : w # asker[popped'] => Under(w)' = Under(w)
<1>1. /\ popped' \in Req /\ popped' \in ToSet(completed) /\ asker[popped'] \in S
      /\ fate' = [fate EXCEPT ![popped'] = f]
      /\ UNCHANGED <<lock, asker>>
  BY PopFacts
<1>2. \A r \in Req : fate'[r] = IF r = popped' THEN f ELSE fate[r]
  BY <1>1 DEF TypeOK
<1>3. lock[popped'] /\ fate[popped'] = "none" /\ asker[popped'] \in Worker
  BY <1>1, AsyncAssumption DEF HandsSound, StateSound, TypeOK
<1>4. \A w : Under(w)' = Under(w) \ {popped'}
  BY <1>1, <1>2 DEF Under
<1>5. \A w : w # asker[popped'] => popped' \notin Under(w)
  BY DEF Under
<1> QED  BY <1>1, <1>3, <1>4, <1>5 DEF Under

LEMMA DiscardOrphanCounts ==
  ASSUME TypeOK, HandsSound, StateSound, StepSound, CountSound, DiscardOrphan
  PROVE  CountSound'
<1> DEFINE r == popped'
<1>1. /\ Pop(Gone, "dropped", "orphans") /\ vm = "orphans"
      /\ orphans' = orphans - 1 /\ UNCHANGED <<workers, unborn, pend, dying, discarded>>
  BY DEF DiscardOrphan
<1>2. /\ asker[r] \in Gone /\ r \in Under(asker[r])
      /\ \A w : Under(w)' = Under(w) \ {r}
      /\ \A w : w # asker[r] => Under(w)' = Under(w)
  BY <1>1, PopCounts
<1> HIDE DEF r
<1>3. dying = NoWorker
  BY <1>1 DEF StepSound, Dying
<1>4. Lost' = Lost \ {r} /\ r \in Lost
  BY <1>1, <1>2, <1>3, AsyncAssumption DEF Lost, Gone
<1>5. Cardinality(Lost') = Cardinality(Lost) - 1
  BY <1>4, UnderFinite, FS_RemoveElement
<1>6. \A w \in workers : Under(w)' = Under(w)
  BY <1>2 DEF Gone
<1>7. CountsExact'
  BY <1>1, <1>3, <1>5, <1>6 DEF CountSound, CountsExact, Lost
<1>8. \A w \in unborn' : pend'[w] = 0 /\ Under(w)' = {}
  BY <1>1, <1>2 DEF CountSound
<1> QED  BY <1>7, <1>8 DEF CountSound

LEMMA PopOwnCounts ==
  ASSUME TypeOK, HandsSound, StateSound, StepSound, WaitSound, CountSound,
         NEW f \in {"called", "dropped"}, NEW b, PopOwn(f, b)
  PROVE  CountSound'
<1> DEFINE r == popped'
<1>1. /\ Pop({wk}, f, b) /\ vm = "own" /\ f # "none"
      /\ pend' = [pend EXCEPT ![wk] = IF @ > 0 THEN @ - 1 ELSE 0]
      /\ UNCHANGED <<workers, unborn, orphans, dying, discarded, wk>>
  BY DEF PopOwn
<1>2. /\ asker[r] = wk /\ r \in Under(wk)
      /\ \A w : Under(w)' = Under(w) \ {r}
      /\ \A w : w # wk => Under(w)' = Under(w)
  BY <1>1, PopCounts
<1> HIDE DEF r
<1>3. dying = NoWorker /\ wk \in workers /\ wk \notin unborn /\ wk \in Worker
  BY <1>1 DEF StepSound, WaitSound, Dying, InWait, TypeOK
<1>4. Cardinality(Under(wk)') = Cardinality(Under(wk)) - 1
  BY <1>1, <1>2, UnderFinite, FS_RemoveElement
<1>5. Cardinality(Under(wk)) > 0
  BY <1>2, UnderFinite, FS_EmptySet
<1>6. pend[wk] = Cardinality(Under(wk))
  BY <1>3 DEF CountSound, CountsExact
<1>7. \A w \in Worker : pend'[w] = IF w = wk THEN pend[wk] - 1 ELSE pend[w]
  BY <1>1, <1>5, <1>6, UnderFinite DEF TypeOK
<1>8. Lost' = Lost
  <2>1. Gone' = Gone /\ wk \notin Gone /\ dying' = dying
    BY <1>1, <1>3 DEF Gone
  <2> QED  BY <1>2, <2>1 DEF Lost
<1>9. \A w \in workers' : pend'[w] = Cardinality(Under(w)')
  <2>1. pend'[wk] = Cardinality(Under(wk)')
    BY <1>3, <1>4, <1>6, <1>7
  <2>2. \A w \in workers \ {wk} : pend'[w] = Cardinality(Under(w)')
    BY <1>2, <1>7 DEF CountSound, CountsExact, TypeOK
  <2> QED  BY <1>1, <2>1, <2>2
<1>10. CountsExact'
  BY <1>1, <1>3, <1>8, <1>9 DEF CountSound, CountsExact, Lost
<1>11. \A w \in unborn' : pend'[w] = 0 /\ Under(w)' = {}
  BY <1>1, <1>2, <1>3, <1>7 DEF CountSound, TypeOK
<1> QED  BY <1>10, <1>11 DEF CountSound

LEMMA DiscardCounts ==
  ASSUME TypeOK, HandsSound, StateSound, StepSound, CountSound, Discard
  PROVE  CountSound'
<1> DEFINE r == popped'
<1>1. /\ Pop({dying}, "dropped", "discard") /\ vm = "discard"
      /\ discarded' = discarded + 1 /\ UNCHANGED <<workerVars, dying>>
  BY DEF Discard
<1>2. /\ asker[r] = dying /\ r \in Under(dying)
      /\ \A w : Under(w)' = Under(w) \ {r}
      /\ \A w : w # dying => Under(w)' = Under(w)
  BY <1>1, PopCounts
<1> HIDE DEF r
<1>3. dying \in Worker /\ dying \notin workers /\ dying \notin unborn
  BY <1>1 DEF StepSound, Dying
<1>4. Cardinality(Under(dying)') = Cardinality(Under(dying)) - 1
  BY <1>1, <1>2, UnderFinite, FS_RemoveElement
<1>5. dying # NoWorker /\ pend[dying] - discarded = Cardinality(Under(dying))
  BY <1>3, AsyncAssumption DEF CountSound, CountsExact
<1>6. pend[dying] \in Nat /\ discarded \in Nat
  BY <1>3 DEF TypeOK
<1>7. pend'[dying'] - discarded' = Cardinality(Under(dying)')
  BY <1>1, <1>4, <1>5, <1>6, UnderFinite
<1>8. Lost' = Lost
  BY <1>1, <1>2 DEF Lost, Gone
<1>9. \A w \in workers' : pend'[w] = Cardinality(Under(w)')
  BY <1>1, <1>2, <1>3 DEF CountSound, CountsExact
<1>10. CountsExact'
  BY <1>1, <1>7, <1>8, <1>9 DEF CountSound, CountsExact, Lost
<1>11. \A w \in unborn' : pend'[w] = 0 /\ Under(w)' = {}
  BY <1>1, <1>2 DEF CountSound
<1> QED  BY <1>10, <1>11 DEF CountSound

\* What the dead worker had under way becomes the orphans' count.
LEMMA DiscardDoneCounts ==
  ASSUME TypeOK, StepSound, CountSound, DiscardDone
  PROVE  CountSound'
<1>1. /\ vm = "discard" /\ dying' = NoWorker
      /\ orphans' = orphans + (IF pend[dying] > discarded THEN pend[dying] - discarded ELSE 0)
      /\ pend' = [pend EXCEPT ![dying] = 0]
      /\ UNCHANGED <<lock, fate, asker, workers, unborn>>
  BY DEF DiscardDone
<1>2. dying \in Worker /\ dying \notin workers /\ dying # NoWorker
  BY <1>1, AsyncAssumption DEF StepSound, Dying
<1>3. \A w : Under(w)' = Under(w)
  BY <1>1 DEF Under
<1>4. Lost' = Lost \cup Under(dying) /\ Lost \cap Under(dying) = {}
  <2>1. Gone' \ {dying'} = (Gone \ {dying}) \cup {dying}
    BY <1>1, <1>2, AsyncAssumption DEF Gone
  <2>2. Lost' = Lost \cup Under(dying)
    BY <1>3, <2>1 DEF Lost
  <2>3. Lost \cap Under(dying) = {}
    BY DEF Lost, Under
  <2> QED  BY <2>2, <2>3
<1>5. Cardinality(Lost') = Cardinality(Lost) + Cardinality(Under(dying))
  <2>1. IsFiniteSet(Lost) /\ IsFiniteSet(Under(dying))
    BY UnderFinite
  <2>2. Cardinality(Lost \cup Under(dying)) =
          Cardinality(Lost) + Cardinality(Under(dying)) - Cardinality(Lost \cap Under(dying))
    BY <2>1, FS_Union
  <2>3. Cardinality(Lost \cap Under(dying)) = 0
    BY <1>4, FS_EmptySet
  <2>4. Cardinality(Lost) \in Nat /\ Cardinality(Under(dying)) \in Nat
    BY UnderFinite
  <2> QED  BY <1>4, <2>2, <2>3, <2>4
<1>6. pend[dying] - discarded = Cardinality(Under(dying)) /\ orphans = Cardinality(Lost)
  BY <1>2 DEF CountSound, CountsExact, Lost
<1>7. pend[dying] \in Nat /\ discarded \in Nat /\ orphans \in Nat
  BY <1>2 DEF TypeOK
<1>8. orphans' = Cardinality(Lost')
  BY <1>1, <1>5, <1>6, <1>7, UnderFinite
<1>9. \A w \in Worker : pend'[w] = IF w = dying THEN 0 ELSE pend[w]
  BY <1>1 DEF TypeOK
<1>10. CountsExact'
  BY <1>1, <1>2, <1>3, <1>8, <1>9 DEF CountSound, CountsExact, Lost, TypeOK
<1>11. \A w \in unborn' : pend'[w] = 0 /\ Under(w)' = {}
  BY <1>1, <1>3, <1>9 DEF CountSound, TypeOK
<1> QED  BY <1>10, <1>11 DEF CountSound

LEMMA GetCounts ==
  ASSUME TypeOK, HandsSound, StateSound, StepSound, CountSound,
         NEW w \in Worker, NEW r \in Req, NEW l \in Limits, Get(w, r, l)
  PROVE  CountSound'
<1>1. /\ w \in workers /\ state[r] = "ready" /\ vm = "run"
      /\ pend' = [pend EXCEPT ![w] = @ + 1]
      /\ lock' = [lock EXCEPT ![r] = TRUE] /\ asker' = [asker EXCEPT ![r] = w]
      /\ UNCHANGED <<fate, workers, unborn, orphans, dying, discarded>>
  BY DEF Get
<1>2. ~lock[r] /\ fate[r] = "none"
  BY <1>1 DEF StateSound
<1>3. \A q \in Req : /\ lock'[q] = IF q = r THEN TRUE ELSE lock[q]
                     /\ asker'[q] = IF q = r THEN w ELSE asker[q]
  BY <1>1 DEF TypeOK
<1>4. Under(w)' = Under(w) \cup {r} /\ r \notin Under(w)
  BY <1>1, <1>2, <1>3 DEF Under
<1>5. \A v : v # w => Under(v)' = Under(v)
  BY <1>1, <1>2, <1>3 DEF Under
<1>6. Cardinality(Under(w)') = Cardinality(Under(w)) + 1
  BY <1>4, UnderFinite, FS_AddElement
<1>7. \A v \in Worker : pend'[v] = IF v = w THEN pend[v] + 1 ELSE pend[v]
  BY <1>1 DEF TypeOK
<1>8. w \notin unborn /\ w \notin Gone /\ dying = NoWorker
  BY <1>1 DEF StepSound, Gone, Dying
<1>9. Lost' = Lost
  BY <1>1, <1>5, <1>8 DEF Lost, Gone
<1>10. \A v \in workers' : pend'[v] = Cardinality(Under(v)')
  BY <1>1, <1>5, <1>6, <1>7 DEF CountSound, CountsExact, TypeOK
<1>11. CountsExact'
  BY <1>1, <1>8, <1>9, <1>10 DEF CountSound, CountsExact, Lost
<1>12. \A v \in unborn' : pend'[v] = 0 /\ Under(v)' = {}
  BY <1>1, <1>5, <1>7, <1>8 DEF CountSound, TypeOK
<1> QED  BY <1>11, <1>12 DEF CountSound

LEMMA SpawnCounts ==
  ASSUME TypeOK, StepSound, CountSound, NEW w \in Worker, Spawn(w)
  PROVE  CountSound'
<1>1. /\ w \in unborn /\ vm = "run" /\ unborn' = unborn \ {w} /\ workers' = workers \cup {w}
      /\ UNCHANGED <<lock, fate, asker, pend, orphans, dying, discarded>>
  BY DEF Spawn
<1>2. \A v : Under(v)' = Under(v)
  BY <1>1 DEF Under
<1>3. pend[w] = 0 /\ Under(w) = {}
  BY <1>1 DEF CountSound
<1>4. dying = NoWorker
  BY <1>1 DEF StepSound, Dying
<1>5. Lost' = Lost
  BY <1>1, <1>2, <1>3 DEF Lost, Gone
<1>6. CountsExact'
  BY <1>1, <1>2, <1>3, <1>4, <1>5, FS_EmptySet DEF CountSound, CountsExact, Lost
<1>7. \A v \in unborn' : pend'[v] = 0 /\ Under(v)' = {}
  BY <1>1, <1>2 DEF CountSound
<1> QED  BY <1>6, <1>7 DEF CountSound

LEMMA DestroyCounts ==
  ASSUME TypeOK, StepSound, CountSound, NEW w \in Worker, Destroy(w)
  PROVE  CountSound'
<1>1. /\ w \in workers /\ vm \in {"run", "orphans", "free"}
      /\ workers' = workers \ {w} /\ dying' = w /\ discarded' = 0
      /\ UNCHANGED <<lock, fate, asker, unborn, pend, orphans>>
  BY DEF Destroy
<1>2. \A v : Under(v)' = Under(v)
  BY <1>1 DEF Under
<1>3. dying = NoWorker
  BY <1>1 DEF StepSound, Dying
<1>4. Gone' \ {dying'} = Gone \ {dying}
  BY <1>1, <1>3, AsyncAssumption DEF Gone
<1>5. Lost' = Lost
  BY <1>2, <1>4 DEF Lost
<1>6. pend[w] = Cardinality(Under(w)) /\ pend[w] \in Nat
  BY <1>1 DEF CountSound, CountsExact, TypeOK
<1>7. CountsExact'
  <2>1. \A v \in workers' : pend'[v] = Cardinality(Under(v)')
    BY <1>1, <1>2 DEF CountSound, CountsExact
  <2>2. pend'[dying'] - discarded' = Cardinality(Under(dying)')
    BY <1>1, <1>2, <1>6
  <2>3. orphans' = Cardinality(Lost')
    BY <1>1, <1>5 DEF CountSound, CountsExact, Lost
  <2> QED  BY <2>1, <2>2, <2>3 DEF CountsExact, Lost
<1>8. \A v \in unborn' : pend'[v] = 0 /\ Under(v)' = {}
  BY <1>1, <1>2 DEF CountSound
<1> QED  BY <1>7, <1>8 DEF CountSound

\* A request that does not count lets go, and may go back to the pool.
LEMMA RecycleCounts ==
  ASSUME TypeOK, CountSound, NEW r \in Req,
         \A w : r \notin Under(w), ~lock'[r], \A q \in Req \ {r} : lock'[q] = lock[q],
         UNCHANGED <<asker, fate>> \/ Recycle(r),
         UNCHANGED <<workers, unborn, pend, orphans, dying, discarded>>
  PROVE  CountSound'
<1>1. \A q \in Req \ {r} : asker'[q] = asker[q] /\ fate'[q] = fate[q]
  BY DEF Recycle, TypeOK
<1>2. \A w : Under(w)' = Under(w)
  BY <1>1 DEF Under
<1> QED  BY <1>2, CountKept DEF TypeOK

LEMMA CountStep ==
  ASSUME TypeOK, HandsSound, StateSound, StepSound, WaitSound, CountSound, [Next]_vars
  PROVE  CountSound'
<1>1. ASSUME NEW r \in Req, Create(r)
      PROVE  CountSound'
  BY <1>1, CountQuiet DEF Create
<1>2. ASSUME NEW r \in Req, Forget(r)
      PROVE  CountSound'
  <2>1. CASE lock[r]
    BY <1>2, <2>1, CountQuiet DEF Forget
  <2>2. CASE ~lock[r]
    <3>1. Recycle(r) /\ UNCHANGED <<lock, workers, unborn, pend, orphans, dying, discarded>>
      BY <1>2, <2>2 DEF Forget
    <3>2. \A w : r \notin Under(w)
      BY <2>2 DEF Under
    <3> QED  BY <2>2, <3>1, <3>2, RecycleCounts
  <2> QED  BY <2>1, <2>2
<1>3. ASSUME NEW w \in Worker, NEW r \in Req, NEW l \in Limits, Get(w, r, l)
      PROVE  CountSound'
  BY <1>3, GetCounts
<1>4. ASSUME NEW w \in Worker, NEW r \in Req, Wait(w, r)
      PROVE  CountSound'
  BY <1>4, CountQuiet DEF Wait
<1>5. ASSUME NEW w \in Worker, Spawn(w) \/ Destroy(w)
      PROVE  CountSound'
  BY <1>5, SpawnCounts, DestroyCounts
<1>6. CASE Take \/ Register \/ NoTransport \/ Answer \/ Publish
  BY <1>6, CountQuiet DEF Take, Register, NoTransport, Answer, Publish
<1>7. CASE Wake \/ OrphansDone \/ OwnDone
  BY <1>7, CountQuiet DEF Wake, OrphansDone, OwnDone
<1>8. CASE DiscardOrphan
  BY <1>8, DiscardOrphanCounts
<1>9. ASSUME NEW f \in {"called", "dropped"}, NEW b \in {"orphans", "run"}, PopOwn(f, b)
      PROVE  CountSound'
  BY <1>9, PopOwnCounts
<1>10. CASE Discard
  BY <1>10, DiscardCounts
<1>11. CASE DiscardDone
  BY <1>11, DiscardDoneCounts
<1>12. CASE Unlock
  <2>1. /\ popped \in Req /\ lock' = [lock EXCEPT ![popped] = FALSE]
        /\ UNCHANGED <<workers, unborn, pend, orphans, dying, discarded>>
        /\ UNCHANGED <<asker, fate>> \/ Recycle(popped)
    BY <1>12 DEF Unlock, StepSound
  <2>2. \A q \in Req : lock'[q] = IF q = popped THEN FALSE ELSE lock[q]
    BY <2>1 DEF TypeOK
  <2>3. fate[popped] # "none"
    BY <2>1 DEF HandsSound, StateSound
  <2>4. \A w : popped \notin Under(w)
    BY <2>3 DEF Under
  <2> QED  BY <2>1, <2>2, <2>4, RecycleCounts
<1>13. CASE End \/ Cancel \/ Join \/ Freed \/ PushStop
  BY <1>13, CountQuiet DEF End, Cancel, Join, Freed, PushStop
<1>14. CASE Ended \/ UNCHANGED vars
  BY <1>14, CountQuiet DEF Ended, vars
<1> QED
  BY <1>1, <1>2, <1>3, <1>4, <1>5, <1>6, <1>7, <1>8, <1>9, <1>10, <1>11, <1>12, <1>13, <1>14
  DEF Next, Thread, Script, Machine

-----------------------------------------------------------------------------
(* Theorems                                                                *)

\* In every state the queues, the thread and the loop that takes answers out
\* fit together: each request under way in one hand, its state with the hand,
\* and the counts of the workers and of the orphans what the hands hold.
THEOREM AsyncInvariant == Spec => []AsyncInv
<1>1. Init => AsyncInv
  BY InitTypes, InitSound, InitCounts DEF AsyncInv
<1>2. AsyncInv /\ [Next]_vars => AsyncInv'
  BY TypeStep, HandsStep, StepStep, WaitStep, CountStep DEF AsyncInv
<1> QED  BY <1>1, <1>2, PTL DEF Spec

\* A queue without doubles has a request once or not at all.
LEMMA InOnce ==
  ASSUME NEW S, NEW s \in Seq(S), IsInjective(s), NEW r
  PROVE  In(s, r) = One(r \in ToSet(s))
<1> DEFINE I == {i \in DOMAIN s : s[i] = r}
<1>1. CASE r \in ToSet(s)
  <2>1. PICK i \in DOMAIN s : s[i] = r
    BY <1>1 DEF ToSet
  <2>2. I = {i}
    BY <2>1 DEF IsInjective
  <2> QED  BY <1>1, <2>2, FS_Singleton DEF In, One
<1>2. CASE r \notin ToSet(s)
  <2>1. I = {}
    BY <1>2 DEF ToSet
  <2> QED  BY <1>2, <2>1, FS_EmptySet DEF In, One
<1> QED  BY <1>1, <1>2

\* A request under way is in exactly one hand (the job queue, the thread, the
\* completion queue, the loop that took it out) and refers to itself as long,
\* so no queue ever holds a node of the pool.
THEOREM RequestsInOneHand == Spec => []InOneHand
<1>1. AsyncInv => InOneHand
  <2> SUFFICES ASSUME AsyncInv, NEW r \in Req
               PROVE  /\ In(jobs, r) + In(completed, r) + One(job = r) + One(popped = r)
                           = One(lock[r])
                      /\ lock[r] => state[r] \in {"pending", "completed"}
    BY DEF InOneHand
  <2>1. /\ In(jobs, r) = One(r \in ToSet(jobs))
        /\ In(completed, r) = One(r \in ToSet(completed))
    BY InOnce DEF AsyncInv, TypeOK, HandsSound
  <2>2. /\ lock[r] <=> r \in ToSet(jobs) \/ r \in ToSet(completed) \/ r \in {job, popped}
        /\ r \in ToSet(jobs) => r \notin ToSet(completed) /\ r \notin {job, popped}
        /\ r \in ToSet(completed) => r \notin {job, popped}
        /\ ~(job = r /\ popped = r)
    BY DEF AsyncInv, HandsSound
  <2>3. In(jobs, r) + In(completed, r) + One(job = r) + One(popped = r) = One(lock[r])
    BY <2>1, <2>2 DEF One
  <2>4. lock[r] => state[r] \in {"pending", "completed"}
    BY DEF AsyncInv, StateSound
  <2> QED  BY <2>3, <2>4
<1> QED  BY <1>1, AsyncInvariant, PTL

\* _asyncPendingCount of each worker, and _orphanAsyncCount for those that are
\* gone, is the number of requests nobody took out yet: no answer is left over.
THEOREM RequestsCounted == Spec => []CountsExact
<1>1. AsyncInv => CountsExact
  BY DEF AsyncInv, CountSound
<1> QED  BY <1>1, AsyncInvariant, PTL

\* A wait that returns true to the worker that asked has seen the answer
\* handed to the callback, or dropped for want of stack, never left behind.
THEOREM TrueAnswersTaken == Spec => TrueMeansTaken
<1>1. AsyncInv /\ [Next]_vars =>
        [vm = "own" /\ vm' = "run" /\ res /\ asker[wr] = wk => fate[wr] # "none"]_vars
  <2> SUFFICES ASSUME AsyncInv, [Next]_vars, vm = "own", vm' = "run", res, asker[wr] = wk
               PROVE  fate[wr] # "none"
    OBVIOUS
  <2>1. None({wk})
    <3>1. ~ \E f, b : PopOwn(f, b)
      BY DEF PopOwn, Pop
    <3> QED  BY <3>1 DEF Next, Thread, Script, Machine, Ended, vars, Create, Forget, Get, Wait,
                 Spawn, Destroy, End, Take, Register, NoTransport, Answer, Publish, Wake,
                 DiscardOrphan, OrphansDone, OwnDone, Unlock, Discard, DiscardDone, Cancel,
                 PushStop, Join, Freed
  <2>2. wr \in Req /\ state[wr] = "completed"
    BY DEF AsyncInv, WaitSound, InWait
  <2>3. wr \notin ToSet(completed)
    BY <2>1 DEF None, ToSet
  <2> QED  BY <2>2, <2>3 DEF AsyncInv, StateSound
<1> QED  BY <1>1, AsyncInvariant, PTL DEF Spec, TrueMeansTaken

-----------------------------------------------------------------------------
(* AsyncContract                                                           *)

\* A request moves to phase v, the others stay.
LEMMA PhaseStore ==
  ASSUME NEW r \in Req, NEW v, \A q \in Req : Phase(q)' = IF q = r THEN v ELSE Phase(q)
  PROVE  [q \in Req |-> Phase(q)]' = [[q \in Req |-> Phase(q)] EXCEPT ![r] = v]
OBVIOUS

\* No request moves, nobody joins or leaves.
LEMMA PhaseQuiet ==
  ASSUME UNCHANGED <<asker, receiver, workers, ending>>, \A q \in Req : Phase(q)' = Phase(q)
  PROVE  UNCHANGED Contract!vars
BY DEF Contract!vars

\* The worker that waits takes an answer of its own, or somebody throws one away.
LEMMA PopPhase ==
  ASSUME AsyncInv, NEW S, NEW f \in {"called", "dropped"}, NEW b, Pop(S, f, b),
         UNCHANGED workers, f = "called" => ~ending /\ wk \in workers /\ S = {wk}
  PROVE  Contract!Next
<1>1. /\ popped' \in Req /\ popped' \in ToSet(completed) /\ asker[popped'] \in S
      /\ fate' = [fate EXCEPT ![popped'] = f] /\ UNCHANGED <<state, asker, ending>>
      /\ receiver' = [receiver EXCEPT ![popped'] = IF f = "called" THEN wk ELSE NoWorker]
  BY PopFacts DEF AsyncInv
<1> DEFINE r == popped'
           v == IF f = "called" THEN "delivered" ELSE "dropped"
<1>2. state[r] = "completed" /\ fate[r] = "none"
  BY <1>1 DEF AsyncInv, HandsSound, StateSound
<1>3. \A q \in Req : fate'[q] = IF q = r THEN f ELSE fate[q]
  BY <1>1 DEF AsyncInv, TypeOK
<1>4. Phase(r) = "answered" /\ \A q \in Req : Phase(q)' = IF q = r THEN v ELSE Phase(q)
  BY <1>1, <1>2, <1>3 DEF Phase
<1>5. [q \in Req |-> Phase(q)]' = [[q \in Req |-> Phase(q)] EXCEPT ![r] = v]
  BY <1>1, <1>4, PhaseStore
<1>6. [q \in Req |-> Phase(q)][r] = "answered"
  BY <1>1, <1>4
<1>7. CASE f = "called"
  <2>1. wk \in Worker /\ wk = asker[r] /\ wk \in workers /\ ~ending
    BY <1>1, <1>7 DEF AsyncInv, TypeOK
  <2>2. receiver' = [receiver EXCEPT ![r] = wk]
    BY <1>1, <1>7
  <2>3. Contract!Deliver(r, wk)
    BY <1>1, <1>5, <1>6, <1>7, <2>1, <2>2 DEF Contract!Deliver
  <2> QED  BY <1>1, <2>1, <2>3 DEF Contract!Next
<1>8. CASE f = "dropped"
  <2>1. receiver[r] = NoWorker
    BY <1>1, <1>2 DEF AsyncInv, StateSound
  <2>2. receiver' = receiver
    BY <1>1, <1>8, <2>1 DEF AsyncInv, TypeOK
  <2> QED  BY <1>1, <1>5, <1>6, <1>8, <2>2 DEF Contract!Next, Contract!Drop
<1> QED  BY <1>7, <1>8

\* A node goes back to the pool: its request is over, or was never made.
LEMMA RecyclePhase ==
  ASSUME AsyncInv, NEW r \in Req, Recycle(r), fate[r] # "none" \/ ~lock[r],
         UNCHANGED <<workers, ending>>
  PROVE  Contract!Next \/ UNCHANGED Contract!vars
<1>1. /\ \A q \in Req : /\ state'[q] = IF q = r THEN "free" ELSE state[q]
                        /\ fate'[q] = IF q = r THEN "none" ELSE fate[q]
      /\ asker' = [asker EXCEPT ![r] = NoWorker]
      /\ receiver' = [receiver EXCEPT ![r] = NoWorker]
  BY DEF Recycle, AsyncInv, TypeOK
<1>2. \A q \in Req : Phase(q)' = IF q = r THEN "none" ELSE Phase(q)
  BY <1>1 DEF Phase
<1>3. CASE state[r] \in {"free", "ready"}
  <2>1. Phase(r) = "none" /\ asker[r] = NoWorker /\ receiver[r] = NoWorker
    BY <1>3 DEF Phase, AsyncInv, StateSound
  <2>2. UNCHANGED <<asker, receiver>>
    BY <1>1, <2>1 DEF AsyncInv, TypeOK
  <2> QED  BY <1>2, <2>1, <2>2, PhaseQuiet
<1>4. CASE state[r] \notin {"free", "ready"}
  <2>1. fate[r] \in {"called", "dropped"}
    BY <1>4 DEF AsyncInv, TypeOK, StateSound, HandsSound
  <2>2. Phase(r) \in {"delivered", "dropped"}
    BY <1>4, <2>1 DEF Phase
  <2>3. [q \in Req |-> Phase(q)]' = [[q \in Req |-> Phase(q)] EXCEPT ![r] = "none"]
    BY <1>2, PhaseStore
  <2>4. [q \in Req |-> Phase(q)][r] \in {"delivered", "dropped"}
    BY <2>2
  <2> QED  BY <1>1, <2>3, <2>4 DEF Contract!Next, Contract!Forget
<1> QED  BY <1>3, <1>4

LEMMA ContractStep ==
  ASSUME AsyncInv, [Next]_vars
  PROVE  Contract!Next \/ UNCHANGED Contract!vars
<1> DEFINE Step == Contract!Next \/ UNCHANGED Contract!vars
<1> HIDE DEF Step
<1> SUFFICES Step
  BY DEF Step
<1>0. UNCHANGED <<state, fate, receiver, asker, workers, ending>> => Step
  <2> SUFFICES ASSUME UNCHANGED <<state, fate, receiver, asker, workers, ending>> PROVE Step
    OBVIOUS
  <2>1. \A q \in Req : Phase(q)' = Phase(q)
    BY DEF Phase
  <2> QED  BY <2>1, PhaseQuiet DEF Step
<1>1. ASSUME NEW r \in Req, Create(r)
      PROVE  Step
  <2>1. /\ state[r] = "free" /\ UNCHANGED <<fate, receiver, asker, workers, ending>>
        /\ \A q \in Req : state'[q] = IF q = r THEN "ready" ELSE state[q]
    BY <1>1 DEF Create, AsyncInv, TypeOK
  <2>2. \A q \in Req : Phase(q)' = Phase(q)
    BY <2>1 DEF Phase
  <2> QED  BY <2>1, <2>2, PhaseQuiet DEF Step
<1>2. ASSUME NEW r \in Req, Forget(r)
      PROVE  Step
  <2>1. CASE lock[r]
    BY <1>0, <1>2, <2>1 DEF Forget
  <2>2. CASE ~lock[r]
    BY <1>2, <2>2, RecyclePhase DEF Forget, Step
  <2> QED  BY <2>1, <2>2
<1>3. ASSUME NEW w \in Worker, NEW r \in Req, NEW l \in Limits, Get(w, r, l)
      PROVE  Step
  <2>1. /\ vm = "run" /\ w \in workers /\ state[r] = "ready"
        /\ asker' = [asker EXCEPT ![r] = w] /\ UNCHANGED <<fate, receiver, workers, ending>>
    BY <1>3 DEF Get
  <2>2. \A q \in Req : state'[q] = IF q = r THEN "pending" ELSE state[q]
    BY <1>3 DEF Get, AsyncInv, TypeOK
  <2>3. fate[r] = "none"
    BY <2>1 DEF AsyncInv, StateSound
  <2>4. Phase(r) = "none" /\ \A q \in Req : Phase(q)' = IF q = r THEN "asked" ELSE Phase(q)
    BY <2>1, <2>2, <2>3 DEF Phase
  <2>5. [q \in Req |-> Phase(q)]' = [[q \in Req |-> Phase(q)] EXCEPT ![r] = "asked"]
    BY <2>4, PhaseStore
  <2>6. [q \in Req |-> Phase(q)][r] = "none"
    BY <2>4
  <2>7. ~ending
    BY <2>1 DEF AsyncInv, StepSound, Stopped, Dying
  <2> QED  BY <2>1, <2>5, <2>6, <2>7 DEF Contract!Next, Contract!Ask, Step
<1>4. ASSUME NEW w \in Worker, NEW r \in Req, Wait(w, r)
      PROVE  Step
  BY <1>0, <1>4 DEF Wait
<1>5. ASSUME NEW w \in Worker, Spawn(w) \/ Destroy(w)
      PROVE  Step
  <2>1. UNCHANGED <<state, fate, receiver, asker, ending>>
    BY <1>5 DEF Spawn, Destroy
  <2>2. UNCHANGED [q \in Req |-> Phase(q)]
    BY <2>1 DEF Phase
  <2>3. CASE Spawn(w)
    <3>1. vm = "run" /\ w \notin workers /\ workers' = workers \cup {w}
      BY <2>3 DEF Spawn, AsyncInv, StepSound
    <3>2. ~ending
      BY <3>1 DEF AsyncInv, StepSound, Stopped, Dying
    <3> QED  BY <2>1, <2>2, <3>1, <3>2 DEF Contract!Next, Contract!Join, Step
  <2>4. CASE Destroy(w)
    BY <2>1, <2>2, <2>4 DEF Destroy, Contract!Next, Contract!Leave, Step
  <2> QED  BY <1>5, <2>3, <2>4
<1>6. CASE Take \/ Register \/ NoTransport \/ Answer
  BY <1>0, <1>6 DEF Take, Register, NoTransport, Answer
<1>7. CASE Publish
  <2>1. job \in Req /\ UNCHANGED <<fate, receiver, asker, workers, ending>>
    BY <1>7 DEF Publish, AsyncInv, StepSound
  <2>2. \A q \in Req : state'[q] = IF q = job THEN "completed" ELSE state[q]
    BY <1>7, <2>1 DEF Publish, AsyncInv, TypeOK
  <2>3. state[job] = "pending" /\ fate[job] = "none"
    BY <2>1 DEF AsyncInv, StateSound
  <2>4. Phase(job) = "asked" /\ \A q \in Req : Phase(q)' = IF q = job THEN "answered" ELSE Phase(q)
    BY <2>1, <2>2, <2>3 DEF Phase
  <2>5. [q \in Req |-> Phase(q)]' = [[q \in Req |-> Phase(q)] EXCEPT ![job] = "answered"]
    BY <2>1, <2>4, PhaseStore
  <2>6. [q \in Req |-> Phase(q)][job] = "asked"
    BY <2>1, <2>4
  <2> QED  BY <2>1, <2>5, <2>6 DEF Contract!Next, Contract!Answer, Step
<1>8. CASE Wake \/ OrphansDone \/ OwnDone
  BY <1>0, <1>8 DEF Wake, OrphansDone, OwnDone
<1>9. CASE DiscardOrphan
  BY <1>9, PopPhase DEF DiscardOrphan, Step
<1>10. ASSUME NEW f \in {"called", "dropped"}, NEW b \in {"orphans", "run"}, PopOwn(f, b)
       PROVE  Step
  <2>1. Pop({wk}, f, b) /\ vm = "own" /\ UNCHANGED workers
    BY <1>10 DEF PopOwn
  <2>2. ~ending /\ wk \in workers
    BY <2>1 DEF AsyncInv, StepSound, WaitSound, InWait, Stopped, Dying
  <2> QED  BY <2>1, <2>2, PopPhase DEF Step
<1>11. CASE Discard
  BY <1>11, PopPhase DEF Discard, Step
<1>12. CASE Unlock
  <2>1. popped \in Req /\ UNCHANGED <<workers, ending>>
    BY <1>12 DEF Unlock, AsyncInv, StepSound
  <2>2. CASE held[popped]
    BY <1>0, <1>12, <2>2 DEF Unlock
  <2>3. CASE ~held[popped]
    <3>1. fate[popped] # "none"
      BY <2>1 DEF AsyncInv, HandsSound, StateSound
    <3> QED  BY <1>12, <2>1, <2>3, <3>1, RecyclePhase DEF Unlock, Step
  <2> QED  BY <2>2, <2>3
<1>13. CASE DiscardDone \/ Cancel \/ Join \/ Freed \/ PushStop
  BY <1>0, <1>13 DEF DiscardDone, Cancel, Join, Freed, PushStop
<1>14. CASE End
  <2>1. vm = "run" /\ ending' = TRUE /\ UNCHANGED <<state, fate, receiver, asker, workers>>
    BY <1>14 DEF End
  <2>2. ~ending
    BY <2>1 DEF AsyncInv, StepSound, Stopped, Dying
  <2>3. UNCHANGED [q \in Req |-> Phase(q)]
    BY <2>1 DEF Phase
  <2> QED  BY <2>1, <2>2, <2>3 DEF Contract!Next, Contract!Close, Step
<1>15. CASE Ended \/ UNCHANGED vars
  BY <1>0, <1>15 DEF Ended, vars
<1> QED
  BY <1>1, <1>2, <1>3, <1>4, <1>5, <1>6, <1>7, <1>8, <1>9, <1>10, <1>11, <1>12, <1>13, <1>14,
     <1>15
  DEF Next, Thread, Script, Machine

\* The queues, the thread and the counts implement what a script may rely on:
\* one answer at most, to the callback on the worker that asked and no other,
\* while it lives, and none once the VM shuts down.
THEOREM AsyncImplementsContract == Spec => ImplementsContract
<1>1. Init => Contract!Init
  BY DEF Init, Contract!Init, Phase
<1>2. AsyncInv /\ [Next]_vars => [Contract!Next]_(Contract!vars)
  BY ContractStep
<1> QED  BY <1>1, <1>2, AsyncInvariant, PTL DEF Spec, ImplementsContract, Contract!Spec

=============================================================================
