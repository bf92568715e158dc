-------------------------- MODULE HostCallsProofs --------------------------
(***************************************************************************)
(* Proofs about HostCalls, for every number of calls and every depth of    *)
(* host, script and native code: the inductive invariant HostInv and the   *)
(* properties that follow from it.                                         *)
(***************************************************************************)
EXTENDS HostCalls, TLAPS, SequenceTheorems

-----------------------------------------------------------------------------
(* The parts of the record                                                 *)

SameContext(q, r) == q.main = r.main /\ q.exec = r.exec /\ q.slot = r.slot

SameLife(q, r) ==
  /\ q.lifecycleBusy = r.lifecycleBusy /\ q.gone = r.gone
  /\ q.generation = r.generation /\ q.callSeq = r.callSeq

SameArmed(q, r) == q.armedSeq = r.armedSeq /\ q.args = r.args /\ q.closure = r.closure

SameCall(q, r) == q.callStatus = r.callStatus /\ q.resultSeq = r.resultSeq

SameLoan(q, r) ==
  /\ q.hostCallPending = r.hostCallPending /\ q.pendingBegin = r.pendingBegin
  /\ q.pendingSeq = r.pendingSeq /\ q.readers = r.readers

SameStop(q, r) ==
  /\ q.suspendedHostCall = r.suspendedHostCall
  /\ q.suspendedResultOwnerAlive = r.suspendedResultOwnerAlive
  /\ q.suspendedSeq = r.suspendedSeq

Idle(q) == q.main = "idle" /\ q.exec = None /\ q.slot = Null

\* What every record has: a loan has a taker, and readers have a loan.
LoanSound(r) ==
  /\ r.hostCallPending <=> r.pendingSeq # None
  /\ r.readers \subseteq (IF r.hostCallPending THEN {r.pendingSeq} ELSE {})

LEMMA Numbers ==
  /\ MaxCalls \in Nat /\ MaxFrames \in Nat
  /\ None \notin Calls /\ Sliced \notin Calls \cup {None, Null, Local}
  /\ Null \notin Calls \cup {None, Local} /\ Local \notin Calls \cup {None}
  /\ Calls \subseteq Nat \ {0} /\ None = 0
BY HostAssumption DEF Calls, None, Sliced, Null, Local

LEMMA NewInstFacts ==
  /\ NewInst \in InstType /\ Gone \in InstType
  /\ Gone.gone /\ \A q \in {NewInst, Gone} :
       /\ q.main = "idle" /\ q.exec = None /\ q.slot = Null /\ q.lifecycleBusy /\ q.callSeq = 0
       /\ q.armedSeq = None /\ ~q.args /\ ~q.closure /\ q.callStatus = "Failed"
       /\ ~q.hostCallPending /\ q.pendingSeq = None /\ q.readers = {} /\ ~q.suspendedHostCall
       /\ ~q.suspendedResultOwnerAlive /\ q.suspendedSeq = None
       /\ q.resultSeq = None /\ q.generation = 0
  /\ ~NewInst.gone
<1>1. NewInst \in InstType
  BY Numbers DEF NewInst, InstType, Statuses
<1>2. Gone \in InstType /\ Gone.gone
  BY <1>1 DEF Gone, InstType
<1>3. ASSUME NEW q \in {NewInst, Gone}
      PROVE  /\ q.main = "idle" /\ q.exec = None /\ q.slot = Null /\ q.lifecycleBusy /\ q.callSeq = 0
             /\ q.armedSeq = None /\ ~q.args /\ ~q.closure /\ q.callStatus = "Failed"
             /\ ~q.hostCallPending /\ q.pendingSeq = None /\ q.readers = {}
             /\ ~q.suspendedHostCall /\ ~q.suspendedResultOwnerAlive /\ q.suspendedSeq = None
             /\ q.resultSeq = None /\ q.generation = 0
  <2>1. CASE q = NewInst
    BY <2>1 DEF NewInst
  <2>2. CASE q = Gone
    BY <2>2 DEF NewInst, Gone
  <2> QED  BY <2>1, <2>2
<1>4. ~NewInst.gone
  BY DEF NewInst
<1> QED  BY <1>1, <1>2, <1>3, <1>4

LEMMA ReleasedFacts ==
  ASSUME NEW r \in InstType
  PROVE  /\ Released(r) \in InstType /\ Idle(Released(r))
         /\ SameLife(Released(r), r) /\ SameArmed(Released(r), r) /\ SameCall(Released(r), r)
         /\ SameLoan(Released(r), r) /\ SameStop(Released(r), r)
BY DEF InstType, Released, Idle, SameLife, SameArmed, SameCall, SameLoan, SameStop

\* EndHostCall releases the context, or leaves it.
LEMMA EndFacts ==
  ASSUME NEW r \in InstType, NEW b
  PROVE  LET q == EndHostCall(r, b) IN
         /\ q \in InstType
         /\ IF b = "Acquired" /\ r.main # "stopped" THEN Idle(q) ELSE SameContext(q, r)
         /\ SameLife(q, r) /\ SameArmed(q, r) /\ SameCall(q, r)
         /\ SameLoan(q, r) /\ SameStop(q, r)
<1>1. CASE b = "Acquired" /\ r.main # "stopped"
  BY <1>1, ReleasedFacts DEF EndHostCall
<1>2. CASE ~(b = "Acquired" /\ r.main # "stopped")
  <2>1. EndHostCall(r, b) = r
    BY <1>2 DEF EndHostCall
  <2> QED  BY <1>2, <2>1 DEF SameContext, SameLife, SameArmed, SameCall, SameLoan, SameStop
<1> QED  BY <1>1, <1>2

\* The record once the loan is over.
LEMMA UnlentFacts ==
  ASSUME NEW e \in InstType
  PROVE  LET q == [e EXCEPT !.hostCallPending = FALSE, !.pendingSeq = None, !.readers = {}] IN
         /\ q \in InstType /\ ~q.hostCallPending /\ q.pendingSeq = None /\ q.readers = {}
         /\ SameContext(q, e) /\ SameLife(q, e) /\ SameArmed(q, e) /\ SameCall(q, e)
         /\ SameStop(q, e)
<1> DEFINE q == [e EXCEPT !.hostCallPending = FALSE, !.pendingSeq = None, !.readers = {}]
<1>1. q \in InstType /\ ~q.hostCallPending /\ q.pendingSeq = None /\ q.readers = {}
  BY DEF InstType
<1>2. SameContext(q, e) /\ SameLife(q, e)
  BY DEF InstType, SameContext, SameLife
<1>3. SameArmed(q, e) /\ SameCall(q, e) /\ SameStop(q, e)
  BY DEF InstType, SameArmed, SameCall, SameStop
<1> QED  BY <1>1, <1>2, <1>3

\* The flush ends the loan, and the bound context with it if it was acquired.
LEMMA FlushedFacts ==
  ASSUME NEW r \in InstType, LoanSound(r)
  PROVE  LET q == Flushed(r) IN
         /\ q \in InstType /\ LoanSound(q)
         /\ ~q.hostCallPending /\ q.pendingSeq = None /\ q.readers = {}
         /\ IF r.hostCallPending /\ r.pendingBegin = "Acquired" /\ r.main # "stopped"
            THEN Idle(q) ELSE SameContext(q, r)
         /\ SameLife(q, r) /\ SameArmed(q, r) /\ SameCall(q, r) /\ SameStop(q, r)
<1>1. CASE ~r.hostCallPending
  BY <1>1 DEF Flushed, LoanSound, SameContext, SameLife, SameArmed, SameCall, SameStop
<1>2. CASE r.hostCallPending
  <2> DEFINE e == EndHostCall(r, r.pendingBegin)
             q == [e EXCEPT !.hostCallPending = FALSE, !.pendingSeq = None, !.readers = {}]
  <2>1. /\ e \in InstType
        /\ IF r.pendingBegin = "Acquired" /\ r.main # "stopped" THEN Idle(e) ELSE SameContext(e, r)
        /\ SameLife(e, r) /\ SameArmed(e, r) /\ SameCall(e, r) /\ SameStop(e, r)
    BY EndFacts
  <2> HIDE DEF e
  <2>2. /\ q \in InstType /\ ~q.hostCallPending /\ q.pendingSeq = None /\ q.readers = {}
        /\ SameContext(q, e) /\ SameLife(q, e) /\ SameArmed(q, e) /\ SameCall(q, e)
        /\ SameStop(q, e)
    BY <2>1, UnlentFacts
  <2>3. Flushed(r) = q
    BY <1>2 DEF Flushed, e
  <2> HIDE DEF q
  <2> QED
    BY <1>2, <2>1, <2>2, <2>3
    DEF LoanSound, Idle, SameContext, SameLife, SameArmed, SameCall, SameStop
<1> QED  BY <1>1, <1>2

\* A loan to somebody.
LEMMA LentFacts ==
  ASSUME NEW r \in InstType, NEW s \in Calls, NEW b \in {"Acquired", "Nested"}, r.readers = {}
  PROVE  LET q == Lent(r, s, b) IN
         /\ q \in InstType /\ LoanSound(q)
         /\ q.hostCallPending /\ q.pendingBegin = b /\ q.pendingSeq = s /\ q.readers = {}
         /\ SameContext(q, r) /\ SameLife(q, r) /\ SameArmed(q, r) /\ SameCall(q, r)
         /\ SameStop(q, r)
<1>1. LET q == Lent(r, s, b) IN
        /\ q \in InstType
        /\ q.hostCallPending /\ q.pendingBegin = b /\ q.pendingSeq = s /\ q.readers = {}
        /\ SameContext(q, r) /\ SameLife(q, r) /\ SameArmed(q, r) /\ SameCall(q, r)
        /\ SameStop(q, r)
  BY DEF Lent, InstType, SameContext, SameLife, SameArmed, SameCall, SameStop
<1> QED  BY <1>1, Numbers DEF LoanSound

\* A record with the result of a call in it.
LEMMA ResultFacts ==
  ASSUME NEW r \in InstType, NEW s \in Calls \cup {None}, NEW status \in Statuses, LoanSound(r)
  PROVE  LET q == [r EXCEPT !.resultSeq = s, !.callStatus = status] IN
         /\ q \in InstType /\ LoanSound(q) /\ q.callStatus = status /\ q.resultSeq = s
         /\ SameContext(q, r) /\ SameLife(q, r) /\ SameArmed(q, r) /\ SameLoan(q, r)
         /\ SameStop(q, r)
<1> DEFINE q == [r EXCEPT !.resultSeq = s, !.callStatus = status]
<1>1. q \in InstType /\ q.callStatus = status /\ q.resultSeq = s
  BY DEF InstType
<1>2. SameContext(q, r) /\ SameLife(q, r) /\ SameLoan(q, r)
  BY DEF InstType, SameContext, SameLife, SameLoan
<1>3. SameArmed(q, r) /\ SameStop(q, r)
  BY DEF InstType, SameArmed, SameStop
<1>4. LoanSound(q)
  BY <1>2 DEF LoanSound, SameLoan
<1> QED  BY <1>1, <1>2, <1>3, <1>4

\* The record q is r with a result in it and no loan.
EndedAs(q, r, s, status) ==
  /\ q \in InstType /\ LoanSound(q) /\ q.callStatus = status /\ q.resultSeq = s
  /\ ~q.hostCallPending /\ q.pendingSeq = None /\ q.readers = {}
  /\ SameContext(q, r) /\ SameLife(q, r) /\ SameArmed(q, r) /\ SameStop(q, r)

\* A record that is not flushed of an acquired context keeps it.
LEMMA ResultFlushed ==
  ASSUME NEW r \in InstType, NEW s \in Calls \cup {None}, NEW status \in Statuses, LoanSound(r),
         r.hostCallPending => r.pendingBegin = "Nested"
  PROVE  EndedAs(Flushed([r EXCEPT !.resultSeq = s, !.callStatus = status]), r, s, status)
<1> DEFINE p == [r EXCEPT !.resultSeq = s, !.callStatus = status]
           q == Flushed(p)
<1>1. /\ p \in InstType /\ LoanSound(p) /\ p.callStatus = status /\ p.resultSeq = s
      /\ SameContext(p, r) /\ SameLife(p, r) /\ SameArmed(p, r) /\ SameLoan(p, r)
      /\ SameStop(p, r)
  BY ResultFacts
<1> HIDE DEF p
<1>2. /\ q \in InstType /\ LoanSound(q)
      /\ ~q.hostCallPending /\ q.pendingSeq = None /\ q.readers = {}
      /\ IF p.hostCallPending /\ p.pendingBegin = "Acquired" /\ p.main # "stopped"
         THEN Idle(q) ELSE SameContext(q, p)
      /\ SameLife(q, p) /\ SameArmed(q, p) /\ SameCall(q, p) /\ SameStop(q, p)
  BY <1>1, FlushedFacts
<1> HIDE DEF q
<1>3. SameContext(q, p)
  BY <1>1, <1>2 DEF SameLoan
<1>4. SameContext(q, r) /\ SameLife(q, r) /\ SameArmed(q, r) /\ SameStop(q, r)
  BY <1>1, <1>2, <1>3 DEF SameContext, SameLife, SameArmed, SameStop
<1>5. q.callStatus = status /\ q.resultSeq = s
  BY <1>1, <1>2 DEF SameCall
<1> QED  BY <1>2, <1>4, <1>5 DEF q, p, EndedAs

\* The record once a call has stopped.
LEMMA StoppedFacts ==
  ASSUME NEW e \in InstType, NEW s \in Calls
  PROVE  LET q == [e EXCEPT !.suspendedHostCall = TRUE, !.suspendedResultOwnerAlive = TRUE,
                            !.suspendedSeq = s] IN
         /\ q \in InstType
         /\ q.suspendedHostCall /\ q.suspendedResultOwnerAlive /\ q.suspendedSeq = s
         /\ SameContext(q, e) /\ SameLife(q, e) /\ SameArmed(q, e) /\ SameCall(q, e)
         /\ SameLoan(q, e)
<1> DEFINE q == [e EXCEPT !.suspendedHostCall = TRUE, !.suspendedResultOwnerAlive = TRUE,
                          !.suspendedSeq = s]
<1>1. q \in InstType /\ q.suspendedHostCall /\ q.suspendedResultOwnerAlive /\ q.suspendedSeq = s
  BY DEF InstType
<1>2. SameContext(q, e) /\ SameLife(q, e)
  BY DEF InstType, SameContext, SameLife
<1>3. SameArmed(q, e) /\ SameCall(q, e) /\ SameLoan(q, e)
  BY DEF InstType, SameArmed, SameCall, SameLoan
<1> QED  BY <1>1, <1>2, <1>3

\* The record once the stopped call is settled.
LEMMA UnstoppedFacts ==
  ASSUME NEW e \in InstType
  PROVE  LET q == [e EXCEPT !.suspendedHostCall = FALSE, !.suspendedResultOwnerAlive = FALSE,
                            !.suspendedSeq = None] IN
         /\ q \in InstType
         /\ ~q.suspendedHostCall /\ ~q.suspendedResultOwnerAlive /\ q.suspendedSeq = None
         /\ SameContext(q, e) /\ SameLife(q, e) /\ SameArmed(q, e) /\ SameCall(q, e)
         /\ SameLoan(q, e)
<1> DEFINE q == [e EXCEPT !.suspendedHostCall = FALSE, !.suspendedResultOwnerAlive = FALSE,
                          !.suspendedSeq = None]
<1>4. q \in InstType
  BY DEF InstType
<1>5. ~q.suspendedHostCall /\ ~q.suspendedResultOwnerAlive /\ q.suspendedSeq = None
  BY DEF InstType
<1>1. q \in InstType /\ ~q.suspendedHostCall /\ ~q.suspendedResultOwnerAlive /\ q.suspendedSeq = None
  BY <1>4, <1>5
<1>2. SameContext(q, e) /\ SameLife(q, e)
  BY DEF InstType, SameContext, SameLife
<1>3. SameArmed(q, e) /\ SameCall(q, e) /\ SameLoan(q, e)
  BY DEF InstType, SameArmed, SameCall, SameLoan
<1> QED  BY <1>1, <1>2, <1>3

\* The record q is r once the call s has ended.
InvokedAs(q, r, s, b, status) ==
  /\ q \in InstType /\ LoanSound(q) /\ q.readers = {}
  /\ q.callStatus = status /\ q.resultSeq = s
  /\ SameContext(q, r) /\ SameLife(q, r) /\ SameArmed(q, r)
  /\ IF status = "Suspended"
     THEN q.suspendedHostCall /\ q.suspendedResultOwnerAlive /\ q.suspendedSeq = s
     ELSE SameStop(q, r)
  /\ IF status # "Suspended" /\ b \in {"Acquired", "Nested"}
     THEN q.hostCallPending /\ q.pendingSeq = s /\ q.pendingBegin = b
     ELSE ~q.hostCallPending /\ q.pendingSeq = None

\* A call ends, without another one's context in the way.
LEMMA InvokedFacts ==
  ASSUME NEW r \in InstType, NEW s \in Calls,
         NEW b \in {"Acquired", "Nested", "Suspended"}, NEW status \in Statuses,
         LoanSound(r), r.hostCallPending => r.pendingBegin = "Nested"
  PROVE  InvokedAs(Invoked(r, s, b, status), r, s, b, status)
<1> DEFINE a == Flushed([r EXCEPT !.resultSeq = s, !.callStatus = status])
           q == Invoked(r, s, b, status)
           p == [a EXCEPT !.suspendedHostCall = TRUE, !.suspendedResultOwnerAlive = TRUE,
                          !.suspendedSeq = s]
<1>6. EndedAs(a, r, s, status)
  BY ResultFlushed
<1>2. q = IF status = "Suspended" THEN p ELSE IF b = "Suspended" THEN a ELSE Lent(a, s, b)
  BY DEF Invoked
<1> HIDE DEF a, q, p
<1>1. /\ a \in InstType /\ LoanSound(a) /\ a.callStatus = status /\ a.resultSeq = s
      /\ ~a.hostCallPending /\ a.pendingSeq = None /\ a.readers = {}
      /\ SameContext(a, r) /\ SameLife(a, r) /\ SameArmed(a, r) /\ SameStop(a, r)
  BY <1>6 DEF EndedAs
<1>3. CASE status = "Suspended"
  <2>1. q = p
    BY <1>2, <1>3
  <2>2. p \in InstType
    BY <1>1, StoppedFacts DEF p
  <2>8. p.suspendedHostCall /\ p.suspendedResultOwnerAlive /\ p.suspendedSeq = s
    BY <1>1, StoppedFacts DEF p
  <2>3. SameContext(p, a) /\ SameLife(p, a) /\ SameArmed(p, a)
    BY <1>1, StoppedFacts DEF p
  <2>4. SameCall(p, a) /\ SameLoan(p, a)
    BY <1>1, StoppedFacts DEF p
  <2>5. SameContext(p, r) /\ SameLife(p, r) /\ SameArmed(p, r)
    BY <1>1, <2>3 DEF SameContext, SameLife, SameArmed
  <2>6. p.callStatus = status /\ p.resultSeq = s
    BY <1>1, <2>4 DEF SameCall
  <2>7. LoanSound(p) /\ p.readers = {} /\ ~p.hostCallPending /\ p.pendingSeq = None
    BY <1>1, <2>4 DEF SameLoan, LoanSound
  <2> QED  BY <1>3, <2>1, <2>2, <2>5, <2>6, <2>7, <2>8 DEF q, InvokedAs
<1>4. CASE status # "Suspended" /\ b \in {"Acquired", "Nested"}
  <2>1. q = Lent(a, s, b)
    BY <1>2, <1>4
  <2>2. /\ q \in InstType /\ LoanSound(q)
        /\ q.hostCallPending /\ q.pendingBegin = b /\ q.pendingSeq = s /\ q.readers = {}
        /\ SameContext(q, a) /\ SameLife(q, a) /\ SameArmed(q, a) /\ SameCall(q, a)
        /\ SameStop(q, a)
    BY <1>1, <1>4, <2>1, LentFacts
  <2>3. SameContext(q, r) /\ SameLife(q, r) /\ SameArmed(q, r) /\ SameStop(q, r)
    BY <1>1, <2>2 DEF SameContext, SameLife, SameArmed, SameStop
  <2>4. q.callStatus = status /\ q.resultSeq = s
    BY <1>1, <2>2 DEF SameCall
  <2> QED  BY <1>4, <2>2, <2>3, <2>4 DEF q, InvokedAs
<1>5. CASE status # "Suspended" /\ b \notin {"Acquired", "Nested"}
  <2>1. q = a
    BY <1>2, <1>5
  <2> QED  BY <1>1, <1>5, <2>1 DEF q, InvokedAs
<1> QED  BY <1>3, <1>4, <1>5

\* The worker settles the run that ends.
LEMMA SettledFacts ==
  ASSUME NEW r \in InstType, NEW status, NEW keep \in BOOLEAN, r.exec # None
  PROVE  LET q == Settled(r, status, keep) IN
         /\ q \in InstType
         /\ SameLife(q, r) /\ SameArmed(q, r) /\ SameCall(q, r) /\ SameLoan(q, r)
         /\ SameStop(q, r)
         /\ status = "Suspended" => q.main = "stopped" /\ q.slot = Local /\ q.exec = r.exec
         /\ status = "Completed" /\ keep => q.main = "busy" /\ q.slot = r.exec /\ q.exec = r.exec
         /\ status # "Suspended" /\ ~(status = "Completed" /\ keep) => Idle(q)
<1>1. CASE status = "Suspended"
  <2>1. Settled(r, status, keep) = [r EXCEPT !.main = "stopped", !.slot = Local]
    BY <1>1 DEF Settled
  <2> QED
    BY <1>1, <2>1 DEF InstType, SameLife, SameArmed, SameCall, SameLoan, SameStop
<1>2. CASE status = "Completed" /\ keep
  <2>1. Settled(r, status, keep) = [r EXCEPT !.main = "busy", !.slot = r.exec]
    BY <1>2 DEF Settled
  <2>2. r.exec \in Calls \cup {Sliced}
    BY DEF InstType
  <2> QED
    BY <1>2, <2>1, <2>2 DEF InstType, SameLife, SameArmed, SameCall, SameLoan, SameStop
<1>3. CASE status # "Suspended" /\ ~(status = "Completed" /\ keep)
  <2>1. Settled(r, status, keep) = Released(r)
    BY <1>3 DEF Settled
  <2> QED  BY <1>3, <2>1, ReleasedFacts
<1> QED  BY <1>1, <1>2, <1>3

\* A resumed run ends: the stopped call it belongs to, if any, is settled.
LEMMA ResumedFacts ==
  ASSUME NEW r \in InstType, NEW f \in FrameType, NEW status \in Statuses, LoanSound(r),
         r.hostCallPending => r.pendingBegin = "Nested",
         f.suspended /\ r.suspendedResultOwnerAlive => f.seq \in Calls
  PROVE  LET q == Resumed(r, status, f)
             lent == status = "Completed" /\ f.retain
         IN
         /\ q \in InstType /\ LoanSound(q)
         /\ SameLife(q, r) /\ SameArmed(q, r)
         /\ ~f.suspended => q = r
         /\ f.suspended =>
              /\ q.callStatus = status /\ q.readers = {}
              /\ IF status = "Suspended" THEN SameStop(q, r)
                 ELSE /\ ~q.suspendedHostCall /\ ~q.suspendedResultOwnerAlive
                      /\ q.suspendedSeq = None
              /\ IF status # "Suspended" /\ lent /\ r.suspendedResultOwnerAlive
                 THEN /\ q.hostCallPending /\ q.pendingSeq = f.seq
                      /\ q.pendingBegin = "Acquired"
                 ELSE ~q.hostCallPending /\ q.pendingSeq = None
              /\ IF status # "Suspended" /\ lent /\ ~r.suspendedResultOwnerAlive
                    /\ r.main # "stopped"
                 THEN Idle(q) ELSE SameContext(q, r)
<1> DEFINE a == Flushed([r EXCEPT !.resultSeq = f.seq, !.callStatus = status])
           b == IF ~(status = "Completed" /\ f.retain) THEN a
                ELSE IF a.suspendedResultOwnerAlive THEN Lent(a, f.seq, "Acquired")
                ELSE EndHostCall(a, "Acquired")
           c == [b EXCEPT !.suspendedHostCall = FALSE, !.suspendedResultOwnerAlive = FALSE,
                          !.suspendedSeq = None]
           q == Resumed(r, status, f)
<1>1. CASE ~f.suspended
  <2>1. q = r
    BY <1>1 DEF Resumed
  <2> QED  BY <1>1, <2>1 DEF SameLife, SameArmed
<1>2. CASE f.suspended
  <2>1. q = IF status = "Suspended" THEN a ELSE c
    BY <1>2 DEF Resumed
  <2>2. f.seq \in Calls \cup {None}
    BY DEF FrameType
  <2>3. /\ a \in InstType /\ LoanSound(a) /\ a.callStatus = status
        /\ ~a.hostCallPending /\ a.pendingSeq = None /\ a.readers = {}
        /\ SameContext(a, r) /\ SameLife(a, r) /\ SameArmed(a, r) /\ SameStop(a, r)
    <3>1. EndedAs(a, r, f.seq, status)
      BY <2>2, ResultFlushed
    <3> HIDE DEF a
    <3> QED  BY <3>1 DEF EndedAs
  <2> HIDE DEF a, q
  <2>4. CASE status = "Suspended"
    BY <1>2, <2>1, <2>3, <2>4 DEF q
  <2>5. CASE status # "Suspended"
    <3>1. /\ b \in InstType /\ LoanSound(b) /\ b.callStatus = status /\ b.readers = {}
          /\ SameLife(b, a) /\ SameArmed(b, a)
          /\ IF status = "Completed" /\ f.retain /\ a.suspendedResultOwnerAlive
             THEN b.hostCallPending /\ b.pendingSeq = f.seq /\ b.pendingBegin = "Acquired"
             ELSE ~b.hostCallPending /\ b.pendingSeq = None
          /\ IF status = "Completed" /\ f.retain /\ ~a.suspendedResultOwnerAlive
                /\ a.main # "stopped"
             THEN Idle(b) ELSE SameContext(b, a)
      <4>1. CASE ~(status = "Completed" /\ f.retain)
        <5>1. b = a
          BY <4>1
        <5> HIDE DEF b
        <5> QED  BY <2>3, <4>1, <5>1 DEF SameLife, SameArmed, SameContext
      <4>2. CASE status = "Completed" /\ f.retain /\ a.suspendedResultOwnerAlive
        <5>1. b = Lent(a, f.seq, "Acquired")
          BY <4>2
        <5>2. f.seq \in Calls
          BY <1>2, <2>3, <4>2 DEF SameStop
        <5> HIDE DEF b
        <5> QED  BY <2>3, <4>2, <5>1, <5>2, LentFacts DEF SameCall
      <4>3. CASE status = "Completed" /\ f.retain /\ ~a.suspendedResultOwnerAlive
        <5>1. b = EndHostCall(a, "Acquired")
          BY <4>3
        <5> HIDE DEF b
        <5> QED  BY <2>3, <4>3, <5>1, EndFacts DEF SameCall, SameLoan, LoanSound
      <4> QED  BY <4>1, <4>2, <4>3
    <3> HIDE DEF b
    <3>2. /\ c \in InstType
          /\ ~c.suspendedHostCall /\ ~c.suspendedResultOwnerAlive /\ c.suspendedSeq = None
          /\ SameContext(c, b) /\ SameLife(c, b) /\ SameArmed(c, b) /\ SameCall(c, b)
          /\ SameLoan(c, b)
      BY <3>1, UnstoppedFacts
    <3> HIDE DEF c
    <3>3. SameLife(c, r) /\ SameArmed(c, r)
      BY <2>3, <3>1, <3>2 DEF SameLife, SameArmed
    <3>4. LoanSound(c) /\ c.readers = {} /\ c.callStatus = status
      BY <3>1, <3>2 DEF LoanSound, SameLoan, SameCall
    <3>5. IF status = "Completed" /\ f.retain /\ r.suspendedResultOwnerAlive
          THEN c.hostCallPending /\ c.pendingSeq = f.seq /\ c.pendingBegin = "Acquired"
          ELSE ~c.hostCallPending /\ c.pendingSeq = None
      BY <2>3, <3>1, <3>2 DEF SameLoan, SameStop
    <3>6. IF status = "Completed" /\ f.retain /\ ~r.suspendedResultOwnerAlive
             /\ r.main # "stopped"
          THEN Idle(c) ELSE SameContext(c, r)
      BY <2>3, <3>1, <3>2 DEF SameContext, SameStop, Idle
    <3>7. q = c
      BY <2>1, <2>5
    <3> QED  BY <1>2, <2>5, <3>2, <3>3, <3>4, <3>5, <3>6, <3>7 DEF q
  <2> QED  BY <2>4, <2>5
<1> QED  BY <1>1, <1>2

-----------------------------------------------------------------------------
(* The stack                                                               *)

\* The frame f has been put on the stack.
Pushed(f) ==
  /\ frames' \in Seq(FrameType) /\ Len(frames) \in Nat
  /\ Len(frames') = Len(frames) + 1 /\ Len(frames') <= MaxFrames
  /\ DOMAIN frames = 1 .. Len(frames) /\ DOMAIN frames' = 1 .. Len(frames) + 1
  /\ \A i \in 1 .. Len(frames) : frames'[i] = frames[i] /\ (Lowest(i)' <=> Lowest(i))
  /\ frames'[Len(frames) + 1] = f
  /\ \A i : i = Len(frames) + 1 => (Lowest(i)' <=> ~InterpreterRunning)
  /\ InterpreterRunning' <=> InterpreterRunning \/ f.op \notin HostOps

\* The top frame has been taken off.
Popped ==
  /\ frames' \in Seq(FrameType) /\ Len(frames) \in Nat \ {0}
  /\ Len(frames') = Len(frames) - 1 /\ Len(frames') <= MaxFrames
  /\ DOMAIN frames = 1 .. Len(frames) /\ DOMAIN frames' = 1 .. Len(frames) - 1
  /\ \A i \in 1 .. Len(frames) - 1 : frames'[i] = frames[i] /\ (Lowest(i)' <=> Lowest(i))
  /\ Lowest(Len(frames)) <=> ~InterpreterRunning'
  /\ InterpreterRunning <=> InterpreterRunning' \/ Top.op \notin HostOps
  /\ Top \in FrameType /\ Top = frames[Len(frames)]

\* The top frame has given way to the frame f of the host.
Replaced(f) ==
  /\ frames' \in Seq(FrameType) /\ Len(frames) \in Nat \ {0}
  /\ Len(frames') = Len(frames) /\ Len(frames') <= MaxFrames
  /\ DOMAIN frames = 1 .. Len(frames) /\ DOMAIN frames' = 1 .. Len(frames)
  /\ \A i \in 1 .. Len(frames) - 1 : frames'[i] = frames[i] /\ (Lowest(i)' <=> Lowest(i))
  /\ frames'[Len(frames)] = f
  /\ Lowest(Len(frames)) <=> ~InterpreterRunning'
  /\ InterpreterRunning <=> InterpreterRunning' \/ Top.op \notin HostOps
  /\ Top \in FrameType /\ Top = frames[Len(frames)]

\* Host or script has got the turn in the top frame.
Turned(b) ==
  /\ frames' \in Seq(FrameType) /\ Len(frames) \in Nat \ {0}
  /\ Len(frames') = Len(frames) /\ Len(frames') <= MaxFrames
  /\ DOMAIN frames = 1 .. Len(frames) /\ DOMAIN frames' = 1 .. Len(frames)
  /\ \A i \in 1 .. Len(frames) :
       /\ frames'[i].native = IF i = Len(frames) THEN b ELSE frames[i].native
       /\ frames'[i].op = frames[i].op /\ frames'[i].seq = frames[i].seq
       /\ frames'[i].begin = frames[i].begin /\ frames'[i].retain = frames[i].retain
       /\ frames'[i].suspended = frames[i].suspended
       /\ frames'[i].generation = frames[i].generation
       /\ Lowest(i)' <=> Lowest(i)
  /\ InterpreterRunning' <=> InterpreterRunning
  /\ Top \in FrameType /\ Top = frames[Len(frames)]

LEMMA PushFacts ==
  ASSUME TypeOK, NEW f \in FrameType, frames' = Append(frames, f), Len(frames) < MaxFrames
  PROVE  Pushed(f)
<1>1. /\ frames \in Seq(FrameType) /\ Len(frames) \in Nat /\ DOMAIN frames = 1 .. Len(frames)
      /\ MaxFrames \in Nat
  BY Numbers DEF TypeOK
<1>2. /\ frames' \in Seq(FrameType) /\ Len(frames') = Len(frames) + 1
      /\ \A i \in 1 .. Len(frames) : frames'[i] = frames[i]
      /\ frames'[Len(frames) + 1] = f
      /\ DOMAIN frames' = 1 .. Len(frames) + 1
  BY <1>1, AppendProperties
<1>3. \A i \in 1 .. Len(frames) : Lowest(i)' <=> Lowest(i)
  BY <1>1, <1>2 DEF Lowest
<1>6. ASSUME NEW n, n = Len(frames) + 1
      PROVE  Lowest(n)' <=> \A i \in 1 .. Len(frames) : frames'[i].op \in HostOps
  <2>1. 1 .. n - 1 = 1 .. Len(frames)
    BY <1>1, <1>6
  <2> QED  BY <2>1 DEF Lowest
<1>7. ~InterpreterRunning <=> \A i \in 1 .. Len(frames) : frames[i].op \in HostOps
  BY <1>1 DEF InterpreterRunning
<1>4. \A i : i = Len(frames) + 1 => (Lowest(i)' <=> ~InterpreterRunning)
  BY <1>2, <1>6, <1>7
<1>5. InterpreterRunning' <=> InterpreterRunning \/ f.op \notin HostOps
  BY <1>1, <1>2 DEF InterpreterRunning
<1> QED  BY <1>1, <1>2, <1>3, <1>4, <1>5 DEF Pushed

\* What is true of every stack that is not empty.
LEMMA TopFacts ==
  ASSUME TypeOK, frames # <<>>
  PROVE  /\ Len(frames) \in Nat \ {0} /\ DOMAIN frames = 1 .. Len(frames)
         /\ Len(frames) \in DOMAIN frames
         /\ Top \in FrameType /\ Top = frames[Len(frames)]
BY DEF TypeOK, Top

LEMMA PopFacts ==
  ASSUME TypeOK, frames # <<>>, frames' = Pop
  PROVE  Popped
<1>1. /\ frames \in Seq(FrameType) /\ Len(frames) \in Nat \ {0}
      /\ DOMAIN frames = 1 .. Len(frames) /\ MaxFrames \in Nat /\ Len(frames) <= MaxFrames
      /\ Top \in FrameType /\ Top = frames[Len(frames)]
  BY Numbers, TopFacts DEF TypeOK
<1>2. /\ frames' \in Seq(FrameType) /\ Len(frames') = Len(frames) - 1
      /\ \A i \in 1 .. Len(frames) - 1 : frames'[i] = frames[i]
      /\ DOMAIN frames' = 1 .. Len(frames) - 1
  BY <1>1, SubSeqProperties DEF Pop
<1>3. \A i \in 1 .. Len(frames) - 1 : Lowest(i)' <=> Lowest(i)
  BY <1>1, <1>2 DEF Lowest
<1>6. Lowest(Len(frames)) <=> \A i \in 1 .. Len(frames) - 1 : frames[i].op \in HostOps
  BY DEF Lowest
<1>7. ~InterpreterRunning' <=> \A i \in 1 .. Len(frames) - 1 : frames'[i].op \in HostOps
  BY <1>2 DEF InterpreterRunning
<1>4. Lowest(Len(frames)) <=> ~InterpreterRunning'
  BY <1>2, <1>6, <1>7
<1>5. InterpreterRunning <=> InterpreterRunning' \/ Top.op \notin HostOps
  BY <1>1, <1>2 DEF InterpreterRunning
<1> QED  BY <1>1, <1>2, <1>3, <1>4, <1>5 DEF Popped

LEMMA ReplacedShape ==
  ASSUME frames \in Seq(FrameType), Len(frames) \in Nat \ {0}, DOMAIN frames = 1 .. Len(frames),
         Len(frames) <= MaxFrames, Top \in FrameType, Top = frames[Len(frames)],
         NEW f \in FrameType, f.op \in HostOps,
         frames' \in Seq(FrameType), Len(frames') = Len(frames), frames'[Len(frames)] = f,
         DOMAIN frames' = 1 .. Len(frames),
         \A i \in 1 .. Len(frames) - 1 : frames'[i] = frames[i]
  PROVE  Replaced(f)
<1>1. \A i \in 1 .. Len(frames) - 1 : Lowest(i)' <=> Lowest(i)
  BY DEF Lowest
<1>2. Lowest(Len(frames)) <=> \A i \in 1 .. Len(frames) - 1 : frames[i].op \in HostOps
  BY DEF Lowest
<1>3. ~InterpreterRunning' <=> \A i \in 1 .. Len(frames) : frames'[i].op \in HostOps
  BY DEF InterpreterRunning
<1>4. ~InterpreterRunning <=> \A i \in 1 .. Len(frames) : frames[i].op \in HostOps
  BY DEF InterpreterRunning
<1>5. Lowest(Len(frames)) <=> ~InterpreterRunning'
  BY <1>2, <1>3
<1>6. InterpreterRunning <=> InterpreterRunning' \/ Top.op \notin HostOps
  BY <1>3, <1>4
<1> QED  BY <1>1, <1>5, <1>6 DEF Replaced

LEMMA ReplaceFacts ==
  ASSUME TypeOK, frames # <<>>, NEW f \in FrameType, f.op \in HostOps,
         frames' = Append(Pop, f)
  PROVE  Replaced(f)
<1>1. /\ frames \in Seq(FrameType) /\ Len(frames) \in Nat \ {0}
      /\ DOMAIN frames = 1 .. Len(frames) /\ MaxFrames \in Nat /\ Len(frames) <= MaxFrames
      /\ Top \in FrameType /\ Top = frames[Len(frames)]
  BY Numbers, TopFacts DEF TypeOK
<1>2. /\ Pop \in Seq(FrameType) /\ Len(Pop) = Len(frames) - 1
      /\ \A i \in 1 .. Len(frames) - 1 : Pop[i] = frames[i]
  BY <1>1, SubSeqProperties DEF Pop
<1>3. /\ frames' \in Seq(FrameType) /\ Len(frames') = Len(Pop) + 1
      /\ \A i \in 1 .. Len(Pop) : frames'[i] = Pop[i]
      /\ frames'[Len(Pop) + 1] = f
      /\ DOMAIN frames' = 1 .. Len(Pop) + 1
  BY <1>2, AppendProperties
<1>4. Len(Pop) + 1 = Len(frames)
  BY <1>1, <1>2
<1>5. frames' \in Seq(FrameType) /\ Len(frames') = Len(frames) /\ frames'[Len(frames)] = f
      /\ DOMAIN frames' = 1 .. Len(frames)
  BY <1>3, <1>4
<1>6. \A i \in 1 .. Len(frames) - 1 : frames'[i] = frames[i]
  BY <1>1, <1>2, <1>3
<1> QED  BY <1>1, <1>5, <1>6, ReplacedShape

LEMMA TurnFacts ==
  ASSUME TypeOK, frames # <<>>, NEW b \in BOOLEAN,
         frames' = [frames EXCEPT ![Len(frames)].native = b]
  PROVE  Turned(b)
<1>1. /\ frames \in Seq(FrameType) /\ Len(frames) \in Nat \ {0}
      /\ DOMAIN frames = 1 .. Len(frames) /\ MaxFrames \in Nat /\ Len(frames) <= MaxFrames
      /\ Top \in FrameType /\ Top = frames[Len(frames)]
  BY Numbers, TopFacts DEF TypeOK
<1> DEFINE g == [Top EXCEPT !.native = b]
<1>2. /\ g \in FrameType /\ g.native = b
      /\ g.op = Top.op /\ g.seq = Top.seq /\ g.begin = Top.begin /\ g.retain = Top.retain
      /\ g.suspended = Top.suspended /\ g.generation = Top.generation
  BY <1>1 DEF FrameType
<1>3. frames' = [frames EXCEPT ![Len(frames)] = g]
  BY <1>1
<1> HIDE DEF g
<1>4. /\ frames' \in Seq(FrameType) /\ Len(frames') = Len(frames)
      /\ DOMAIN frames' = 1 .. Len(frames)
      /\ \A i \in 1 .. Len(frames) : frames'[i] = IF i = Len(frames) THEN g ELSE frames[i]
  BY <1>1, <1>2, <1>3
<1>5. \A i \in 1 .. Len(frames) :
        /\ frames'[i].native = IF i = Len(frames) THEN b ELSE frames[i].native
        /\ frames'[i].op = frames[i].op /\ frames'[i].seq = frames[i].seq
        /\ frames'[i].begin = frames[i].begin /\ frames'[i].retain = frames[i].retain
        /\ frames'[i].suspended = frames[i].suspended
        /\ frames'[i].generation = frames[i].generation
  BY <1>1, <1>2, <1>4
<1>6. \A i \in 1 .. Len(frames) : Lowest(i)' <=> Lowest(i)
  BY <1>1, <1>5 DEF Lowest
<1>7. InterpreterRunning' <=> InterpreterRunning
  BY <1>1, <1>4, <1>5 DEF InterpreterRunning
<1> QED  BY <1>1, <1>4, <1>5, <1>6, <1>7 DEF Turned

\* The parts of the invariant that speak of frames alone.
LEMMA FramesKept ==
  ASSUME HostInv, UNCHANGED frames
  PROVE  /\ FramesSound'
         /\ InterpreterRunning' <=> InterpreterRunning
         /\ \A i : Lowest(i)' <=> Lowest(i)
         /\ frames' \in Seq(FrameType) /\ Len(frames') <= MaxFrames
         /\ DOMAIN frames' = DOMAIN frames
BY DEF HostInv, TypeOK, FramesSound, InterpreterRunning, Lowest

LEMMA FramesPushed ==
  ASSUME HostInv, NEW f \in FrameType, Pushed(f), HostTurn,
         f.op \in HostOps => f.native,
         f.op \in {"plain", "resume"} => ~InterpreterRunning,
         f.op = "invoke" => (f.begin = "Acquired" <=> ~InterpreterRunning)
  PROVE  FramesSound'
<1>1. \A i \in 1 .. Len(frames) : frames[i].native
  <2> TAKE i \in 1 .. Len(frames)
  <2>1. frames # <<>> /\ Top = frames[Len(frames)] /\ Len(frames) \in Nat
        /\ DOMAIN frames = 1 .. Len(frames)
    BY TopFacts DEF HostInv, TypeOK, Pushed
  <2>2. Top.native
    BY <2>1 DEF HostTurn
  <2> QED  BY <2>1, <2>2 DEF HostInv, FramesSound
<1> SUFFICES ASSUME NEW i \in DOMAIN frames'
             PROVE  /\ i < Len(frames') \/ frames'[i].op \in HostOps => frames'[i].native
                    /\ frames'[i].op \in {"plain", "resume"} => Lowest(i)'
                    /\ frames'[i].op = "invoke" => (frames'[i].begin = "Acquired" <=> Lowest(i)')
  BY DEF FramesSound
<1>2. CASE i \in 1 .. Len(frames)
  <2>1. i \in DOMAIN frames /\ frames'[i] = frames[i] /\ (Lowest(i)' <=> Lowest(i))
    BY <1>2 DEF Pushed
  <2> QED  BY <1>1, <1>2, <2>1 DEF HostInv, FramesSound
<1>3. CASE i = Len(frames) + 1
  <2>1. frames'[i] = f /\ (Lowest(i)' <=> ~InterpreterRunning) /\ ~(i < Len(frames'))
    BY <1>3 DEF Pushed
  <2> QED  BY <2>1
<1>4. i \in 1 .. Len(frames) \/ i = Len(frames) + 1
  BY DEF Pushed
<1> QED  BY <1>2, <1>3, <1>4

LEMMA FramesPopped ==
  ASSUME HostInv, Popped
  PROVE  FramesSound'
<1> SUFFICES ASSUME NEW i \in DOMAIN frames'
             PROVE  /\ i < Len(frames') \/ frames'[i].op \in HostOps => frames'[i].native
                    /\ frames'[i].op \in {"plain", "resume"} => Lowest(i)'
                    /\ frames'[i].op = "invoke" => (frames'[i].begin = "Acquired" <=> Lowest(i)')
  BY DEF FramesSound
<1>1. i \in DOMAIN frames /\ i < Len(frames)
      /\ frames'[i] = frames[i] /\ (Lowest(i)' <=> Lowest(i))
  BY DEF Popped
<1> QED  BY <1>1 DEF HostInv, FramesSound

LEMMA FramesReplaced ==
  ASSUME HostInv, NEW f \in FrameType, f.op \in HostOps, f.native, Replaced(f)
  PROVE  FramesSound'
<1> SUFFICES ASSUME NEW i \in DOMAIN frames'
             PROVE  /\ i < Len(frames') \/ frames'[i].op \in HostOps => frames'[i].native
                    /\ frames'[i].op \in {"plain", "resume"} => Lowest(i)'
                    /\ frames'[i].op = "invoke" => (frames'[i].begin = "Acquired" <=> Lowest(i)')
  BY DEF FramesSound
<1>1. CASE i \in 1 .. Len(frames) - 1
  <2>1. i \in DOMAIN frames /\ i < Len(frames)
        /\ frames'[i] = frames[i] /\ (Lowest(i)' <=> Lowest(i))
    BY <1>1 DEF Replaced
  <2> QED  BY <2>1 DEF HostInv, FramesSound
<1>2. CASE i = Len(frames)
  <2>1. frames'[i] = f
    BY <1>2 DEF Replaced
  <2> QED  BY <2>1 DEF HostOps
<1>3. i \in 1 .. Len(frames) - 1 \/ i = Len(frames)
  BY DEF Replaced
<1> QED  BY <1>1, <1>2, <1>3

LEMMA FramesTurned ==
  ASSUME HostInv, NEW b \in BOOLEAN, Turned(b), ~b => Top.op \notin HostOps
  PROVE  FramesSound'
<1> SUFFICES ASSUME NEW i \in DOMAIN frames'
             PROVE  /\ i < Len(frames') \/ frames'[i].op \in HostOps => frames'[i].native
                    /\ frames'[i].op \in {"plain", "resume"} => Lowest(i)'
                    /\ frames'[i].op = "invoke" => (frames'[i].begin = "Acquired" <=> Lowest(i)')
  BY DEF FramesSound
<1>1. /\ i \in DOMAIN frames /\ (Lowest(i)' <=> Lowest(i))
      /\ frames'[i].native = IF i = Len(frames) THEN b ELSE frames[i].native
      /\ frames'[i].op = frames[i].op /\ frames'[i].begin = frames[i].begin
      /\ Len(frames') = Len(frames) /\ Top = frames[Len(frames)]
  BY DEF Turned
<1> QED  BY <1>1 DEF HostInv, FramesSound

\* Frames that run scripts run them; the stopped call is one of them if it is resumed.
LEMMA ScriptFrames ==
  ASSUME HostInv, NEW i \in DOMAIN frames, frames[i].op \notin HostOps
  PROVE  /\ InterpreterRunning /\ inst.main = "busy"
         /\ inst.hostCallPending => inst.pendingBegin = "Nested"
BY DEF HostInv, RunSound, InterpreterRunning

\* The record q after a flush of a record a that has the context and loan of inst.
FlushedFrom(q, a) ==
  /\ q \in InstType /\ LoanSound(q)
  /\ ~q.hostCallPending /\ q.pendingSeq = None /\ q.readers = {}
  /\ SameLife(q, a) /\ SameArmed(q, a) /\ SameCall(q, a) /\ SameStop(q, a)
  /\ Idle(q) \/ SameContext(q, inst)
  /\ InterpreterRunning => SameContext(q, inst)
  /\ inst.main = "stopped" => SameContext(q, inst)
  /\ ~InterpreterRunning => q.main # "busy"

LEMMA LoanOfInst ==
  ASSUME HostInv
  PROVE  LoanSound(inst) /\ inst \in InstType
BY DEF HostInv, TypeOK, LendSound, LoanSound

LEMMA FlushHost ==
  ASSUME HostInv, NEW a \in InstType, SameContext(a, inst), SameLoan(a, inst)
  PROVE  FlushedFrom(Flushed(a), a)
<1> DEFINE q == Flushed(a)
<1>1. LoanSound(a)
  BY LoanOfInst DEF LoanSound, SameLoan
<1>2. /\ q \in InstType /\ LoanSound(q)
      /\ ~q.hostCallPending /\ q.pendingSeq = None /\ q.readers = {}
      /\ IF a.hostCallPending /\ a.pendingBegin = "Acquired" /\ a.main # "stopped"
         THEN Idle(q) ELSE SameContext(q, a)
      /\ SameLife(q, a) /\ SameArmed(q, a) /\ SameCall(q, a) /\ SameStop(q, a)
  BY <1>1, FlushedFacts
<1> HIDE DEF q
<1>3. IF inst.hostCallPending /\ inst.pendingBegin = "Acquired" /\ inst.main # "stopped"
      THEN Idle(q) ELSE SameContext(q, inst)
  BY <1>2 DEF SameContext, SameLoan
<1>4. InterpreterRunning => SameContext(q, inst)
  BY <1>3 DEF HostInv, RunSound
<1>5. ~InterpreterRunning => q.main # "busy"
  BY <1>3 DEF HostInv, ContextAccounted, Idle, SameContext
<1>6. (inst.main = "stopped" => SameContext(q, inst)) /\ (Idle(q) \/ SameContext(q, inst))
  BY <1>3
<1> QED  BY <1>2, <1>4, <1>5, <1>6 DEF FlushedFrom, q

-----------------------------------------------------------------------------
(* Steps that leave the stack alone                                        *)

LEMMA FieldTypes ==
  ASSUME NEW r \in InstType
  PROVE  /\ r.main \in {"idle", "busy", "stopped"} /\ r.exec \in Calls \cup {None, Sliced}
         /\ r.slot \in Calls \cup {Sliced, Null, Local}
         /\ r.lifecycleBusy \in BOOLEAN /\ r.gone \in BOOLEAN /\ r.generation \in {0, 1}
         /\ r.callSeq \in 0 .. MaxCalls /\ r.armedSeq \in Calls \cup {None}
         /\ r.args \in BOOLEAN /\ r.closure \in BOOLEAN /\ r.callStatus \in Statuses
         /\ r.hostCallPending \in BOOLEAN /\ r.pendingBegin \in {"Acquired", "Nested"}
         /\ r.pendingSeq \in Calls \cup {None} /\ r.suspendedHostCall \in BOOLEAN
         /\ r.suspendedResultOwnerAlive \in BOOLEAN /\ r.suspendedSeq \in Calls \cup {None}
         /\ r.resultSeq \in Calls \cup {None} /\ r.readers \in SUBSET Calls
BY DEF InstType

LEMMA SequenceNumbers ==
  ASSUME HostInv
  PROVE  /\ inst.callSeq \in Nat /\ inst.suspendedSeq \in Nat
         /\ inst.suspendedSeq <= inst.callSeq /\ inst.callSeq <= MaxCalls
<1>1. inst \in InstType /\ inst.suspendedSeq <= inst.callSeq
  BY DEF HostInv, TypeOK
<1>2. inst.callSeq \in 0 .. MaxCalls /\ inst.suspendedSeq \in Calls \cup {None}
  BY <1>1, FieldTypes
<1>3. inst.suspendedSeq \in Nat
  BY <1>2, HostAssumption DEF Calls, None
<1>4. inst.callSeq \in Nat /\ inst.callSeq <= MaxCalls
  BY <1>2, HostAssumption
<1> QED  BY <1>1, <1>3, <1>4

LEMMA LiveCalls ==
  ASSUME HostInv
  PROVE  live \subseteq Calls
<1>1. live \subseteq 1 .. inst.callSeq
  BY DEF HostInv, TypeOK
<1>2. 1 .. inst.callSeq \subseteq 1 .. MaxCalls
  BY SequenceNumbers, HostAssumption
<1> QED  BY <1>1, <1>2 DEF Calls

\* The frame g is the frame f, whoever has the turn in it.
SameFrame(g, f) ==
  /\ g.op = f.op /\ g.seq = f.seq /\ g.begin = f.begin /\ g.retain = f.retain
  /\ g.suspended = f.suspended /\ g.generation = f.generation

\* Frames have at most left the stack, or one of the host has come on it.
NoNewScript ==
  /\ frames' \in Seq(FrameType) /\ Len(frames') <= MaxFrames /\ FramesSound'
  /\ \A i \in DOMAIN frames' :
       \/ i \in DOMAIN frames /\ SameFrame(frames'[i], frames[i]) /\ (Lowest(i)' <=> Lowest(i))
       \/ /\ frames'[i].op \in HostOps /\ ~frames'[i].suspended /\ ~frames'[i].retain
          /\ frames'[i].generation = inst.generation
  /\ frames' # <<>> => ~inst.gone
  /\ InterpreterRunning' => InterpreterRunning
  /\ InterpreterRunning' =>
       /\ (\E i \in DOMAIN frames : frames[i].op = "plain") =>
            \E i \in DOMAIN frames' : frames'[i].op = "plain"
       /\ (\E i \in DOMAIN frames : frames[i].suspended) =>
            \E i \in DOMAIN frames' : frames'[i].suspended

\* Whoever acts acts on an instance that exists.
LEMMA NotGone ==
  ASSUME HostInv,
         live # {} \/ frames # <<>> \/ HostTurn \/ (inst.lifecycleBusy => InterpreterRunning)
  PROVE  ~inst.gone
<1>1. frames # <<>> => ~inst.gone
  <2>1. frames # <<>> => Len(frames) \in DOMAIN frames
    BY TopFacts DEF HostInv
  <2> QED  BY <2>1 DEF HostInv, OwnersAlive
<1>2. InterpreterRunning => frames # <<>>
  BY DEF InterpreterRunning
<1>3. live # {} /\ inst.gone => frames # <<>>
  BY <1>2 DEF HostInv, BusySound
<1> QED  BY <1>1, <1>2, <1>3 DEF HostTurn, HostInv, BusySound

\* What a handler has to show if it starts no run.
LEMMA HostStep ==
  ASSUME HostInv, NoNewScript, UNCHANGED bypassed,
         inst' \in InstType, LoanSound(inst'), live' \subseteq 1 .. inst'.callSeq,
         inst'.suspendedSeq <= inst'.callSeq,
         inst'.gone = inst.gone, inst'.generation = inst.generation,
         inst'.lifecycleBusy => InterpreterRunning' /\ inst.lifecycleBusy,
         \A s \in live' : s \in live \/ s > inst.callSeq,
         \A i \in DOMAIN frames' :
           frames'[i].op \in {"invoke", "read"} => frames'[i].seq \in live',
         InterpreterRunning' =>
           /\ inst'.main = inst.main /\ inst'.exec = inst.exec
           /\ inst'.hostCallPending => inst'.pendingBegin = "Nested"
           /\ inst'.suspendedHostCall = inst.suspendedHostCall
           /\ inst'.suspendedSeq = inst.suspendedSeq,
         ~inst.gone,
         ~InterpreterRunning' /\ inst'.main = "busy" =>
           inst'.hostCallPending /\ inst'.pendingBegin = "Acquired",
         inst'.main # "idle" => inst'.exec # None,
         inst'.suspendedHostCall => (inst'.suspendedResultOwnerAlive <=> inst'.suspendedSeq \in live'),
         ~inst'.suspendedHostCall => inst'.suspendedSeq = None /\ ~inst'.suspendedResultOwnerAlive,
         ~bypassed /\ inst'.hostCallPending /\ inst'.callStatus = "Completed" =>
           inst'.slot \in {inst'.pendingSeq} \cup
                          (IF inst'.pendingBegin = "Acquired" THEN {} ELSE {Null, Local}),
         ~bypassed /\ ~InterpreterRunning' =>
           /\ inst'.main = "busy" <=> inst'.hostCallPending /\ inst'.pendingBegin = "Acquired"
           /\ inst'.suspendedHostCall => inst'.main = "stopped" /\ inst'.exec = inst'.suspendedSeq,
         {inst'.armedSeq, inst'.pendingSeq} \subseteq live' \cup {None},
         inst'.args \/ inst'.closure => inst'.armedSeq # None
  PROVE  HostInv'
<1>1. TypeOK'
  BY DEF HostInv, TypeOK, LoanSound, NoNewScript
<1>2. FramesSound'
  BY DEF NoNewScript
<1>3. RunSound'
  <2>1. \A i \in DOMAIN frames' :
          frames'[i].op = "invoke" /\ Lowest(i)' => inst'.exec = frames'[i].seq
    <3> TAKE i \in DOMAIN frames'
    <3> HAVE frames'[i].op = "invoke" /\ Lowest(i)'
    <3>1. /\ i \in DOMAIN frames /\ frames[i].op = "invoke" /\ frames[i].seq = frames'[i].seq
          /\ Lowest(i)
      BY DEF NoNewScript, SameFrame, HostOps
    <3>2. InterpreterRunning'
      BY DEF InterpreterRunning, HostOps
    <3> QED  BY <3>1, <3>2 DEF HostInv, RunSound
  <2>2. InterpreterRunning' => inst'.main = "busy"
    BY DEF HostInv, RunSound, NoNewScript
  <2> QED  BY <2>1, <2>2 DEF RunSound
<1>4. StopSound'
  <2>1. ASSUME NEW i \in DOMAIN frames'
        PROVE  /\ frames'[i].retain => frames'[i].suspended
               /\ frames'[i].suspended =>
                    /\ frames'[i].op = "resume"
                    /\ inst'.suspendedHostCall /\ inst'.suspendedSeq = frames'[i].seq
                    /\ frames'[i].seq \in live' => frames'[i].retain
                    /\ ~bypassed => inst'.exec = frames'[i].seq
    <3>1. CASE ~frames'[i].suspended /\ ~frames'[i].retain
      BY <3>1
    <3>2. CASE i \in DOMAIN frames /\ SameFrame(frames'[i], frames[i])
      <4>1. /\ frames[i].retain => frames[i].suspended
            /\ frames[i].suspended =>
                 /\ frames[i].op = "resume" /\ inst.suspendedHostCall
                 /\ inst.suspendedSeq = frames[i].seq
                 /\ frames[i].seq \in live => frames[i].retain
                 /\ ~bypassed => inst.exec = frames[i].seq
        BY <3>2 DEF HostInv, StopSound
      <4>2. /\ frames'[i].op = frames[i].op /\ frames'[i].seq = frames[i].seq
            /\ frames'[i].retain = frames[i].retain /\ frames'[i].suspended = frames[i].suspended
        BY <3>2 DEF SameFrame
      <4>3. ASSUME frames[i].suspended
            PROVE  /\ inst'.exec = inst.exec
                   /\ inst'.suspendedHostCall = inst.suspendedHostCall
                   /\ inst'.suspendedSeq = inst.suspendedSeq
        <5>1. InterpreterRunning'
          BY <4>1, <4>2, <4>3 DEF InterpreterRunning, HostOps
        <5> QED  BY <5>1
      <4>4. ASSUME frames[i].suspended, frames[i].seq \in live'
            PROVE  frames[i].seq \in live
        BY <4>1, <4>4, SequenceNumbers
      <4> QED  BY <4>1, <4>2, <4>3, <4>4
    <3> QED  BY <3>1, <3>2 DEF NoNewScript
  <2>2. ~bypassed /\ InterpreterRunning' /\ inst'.suspendedHostCall =>
          \E i \in DOMAIN frames' : frames'[i].suspended
    BY DEF HostInv, StopSound, NoNewScript
  <2>3. /\ inst'.suspendedHostCall => (inst'.suspendedResultOwnerAlive <=> inst'.suspendedSeq \in live')
        /\ ~inst'.suspendedHostCall => inst'.suspendedSeq = None /\ ~inst'.suspendedResultOwnerAlive
    OBVIOUS
  <2> QED  BY <2>1, <2>2, <2>3 DEF StopSound
<1>5. LendSound'
  BY DEF LendSound, LoanSound
<1>6. BusySound'
  <2> SUFFICES ASSUME inst'.lifecycleBusy
               PROVE  InterpreterRunning' /\ \E i \in DOMAIN frames' : frames'[i].op = "plain"
    BY DEF BusySound, HostInv
  <2>1. InterpreterRunning' /\ InterpreterRunning /\ inst.lifecycleBusy
    BY DEF NoNewScript
  <2> QED  BY <2>1 DEF HostInv, BusySound, NoNewScript
<1>7. ContextAccounted'
  BY DEF ContextAccounted
<1>8. OwnersAlive'
  <2>1. \A i \in DOMAIN frames' : frames'[i].generation = inst'.generation /\ ~inst'.gone
    <3> TAKE i \in DOMAIN frames'
    <3>1. frames'[i].generation = inst.generation
      BY DEF HostInv, OwnersAlive, NoNewScript, SameFrame
    <3>2. ~inst.gone
      BY DEF NoNewScript
    <3> QED  BY <3>1, <3>2
  <2>2. inst'.suspendedResultOwnerAlive => inst'.suspendedSeq \in live'
    OBVIOUS
  <2> QED  BY <2>1, <2>2 DEF OwnersAlive
<1>9. ScratchOwned'
  BY DEF ScratchOwned
<1> QED  BY <1>1, <1>2, <1>3, <1>4, <1>5, <1>6, <1>7, <1>8, <1>9 DEF HostInv

\* The ways to change the stack without a new script.
LEMMA StackKept ==
  ASSUME HostInv, UNCHANGED frames
  PROVE  NoNewScript /\ (InterpreterRunning' <=> InterpreterRunning)
<1>1. /\ FramesSound' /\ (InterpreterRunning' <=> InterpreterRunning)
      /\ \A i : Lowest(i)' <=> Lowest(i)
      /\ frames' \in Seq(FrameType) /\ Len(frames') <= MaxFrames /\ frames' = frames
  BY FramesKept
<1>2. frames # <<>> => ~inst.gone
  <2>1. frames # <<>> => Len(frames) \in DOMAIN frames
    BY TopFacts DEF HostInv
  <2> QED  BY <2>1 DEF HostInv, OwnersAlive
<1> QED  BY <1>1, <1>2 DEF NoNewScript, SameFrame

\* What a handler has to show if it neither starts nor ends a run.
LEMMA KeptStep ==
  ASSUME HostInv, UNCHANGED <<frames, bypassed>>,
         inst' \in InstType, LoanSound(inst'), live' \subseteq 1 .. inst'.callSeq,
         inst'.suspendedSeq <= inst'.callSeq,
         inst'.gone = inst.gone, inst'.generation = inst.generation,
         inst'.lifecycleBusy => InterpreterRunning /\ inst.lifecycleBusy,
         \A s \in live' : s \in live \/ s > inst.callSeq,
         \A i \in DOMAIN frames : frames[i].op \in {"invoke", "read"} => frames[i].seq \in live',
         InterpreterRunning =>
           /\ SameContext(inst', inst) /\ (inst'.hostCallPending => inst'.pendingBegin = "Nested")
           /\ inst'.suspendedHostCall = inst.suspendedHostCall
           /\ inst'.suspendedSeq = inst.suspendedSeq,
         ~inst.gone,
         ~InterpreterRunning /\ inst'.main = "busy" =>
           inst'.hostCallPending /\ inst'.pendingBegin = "Acquired",
         inst'.main # "idle" => inst'.exec # None,
         inst'.suspendedHostCall => (inst'.suspendedResultOwnerAlive <=> inst'.suspendedSeq \in live'),
         ~inst'.suspendedHostCall => inst'.suspendedSeq = None /\ ~inst'.suspendedResultOwnerAlive,
         ~bypassed /\ inst'.hostCallPending /\ inst'.callStatus = "Completed" =>
           inst'.slot \in {inst'.pendingSeq} \cup
                          (IF inst'.pendingBegin = "Acquired" THEN {} ELSE {Null, Local}),
         ~bypassed /\ ~InterpreterRunning =>
           /\ inst'.main = "busy" <=> inst'.hostCallPending /\ inst'.pendingBegin = "Acquired"
           /\ inst'.suspendedHostCall => inst'.main = "stopped" /\ inst'.exec = inst'.suspendedSeq,
         {inst'.armedSeq, inst'.pendingSeq} \subseteq live' \cup {None},
         inst'.args \/ inst'.closure => inst'.armedSeq # None
  PROVE  HostInv'
<1>1. NoNewScript /\ (InterpreterRunning' <=> InterpreterRunning)
  BY StackKept
<1>2. \A i \in DOMAIN frames' :
        frames'[i].op \in {"invoke", "read"} => frames'[i].seq \in live'
  OBVIOUS
<1>3. InterpreterRunning' => inst'.main = inst.main /\ inst'.exec = inst.exec
  BY <1>1 DEF SameContext
<1> QED  BY <1>1, <1>2, <1>3, HostStep

\* While the instance is being made and no script runs, there are no Invocations.
LEMMA NotBusy ==
  ASSUME HostInv, inst.lifecycleBusy, live # {} \/ inst.armedSeq # None \/ frames # <<>>
  PROVE  InterpreterRunning
BY DEF HostInv, BusySound

\* A step that changes only what is prepared.
LEMMA ArmedStep ==
  ASSUME HostInv, UNCHANGED <<frames, bypassed, live>>, live # {}, inst' \in InstType,
         SameContext(inst', inst), SameLife(inst', inst), SameCall(inst', inst),
         SameLoan(inst', inst), SameStop(inst', inst),
         {inst'.armedSeq, inst'.pendingSeq} \subseteq live \cup {None},
         inst'.args \/ inst'.closure => inst'.armedSeq # None
  PROVE  HostInv'
<1>1. /\ LoanSound(inst') /\ live' \subseteq 1 .. inst'.callSeq
      /\ inst'.suspendedSeq <= inst'.callSeq
      /\ inst'.gone = inst.gone /\ inst'.generation = inst.generation
  BY LoanOfInst DEF HostInv, TypeOK, LoanSound, SameLoan, SameLife, SameStop
<1>2. inst'.lifecycleBusy => InterpreterRunning /\ inst.lifecycleBusy
  BY NotBusy DEF SameLife
<1>3. /\ \A s \in live' : s \in live \/ s > inst.callSeq
      /\ \A i \in DOMAIN frames : frames[i].op \in {"invoke", "read"} => frames[i].seq \in live'
  BY DEF HostInv, OwnersAlive
<1>4. /\ InterpreterRunning =>
           /\ SameContext(inst', inst) /\ (inst'.hostCallPending => inst'.pendingBegin = "Nested")
           /\ inst'.suspendedHostCall = inst.suspendedHostCall
           /\ inst'.suspendedSeq = inst.suspendedSeq
      /\ inst'.main # "idle" => inst'.exec # None
  BY DEF HostInv, RunSound, SameLoan, SameStop, SameContext
<1>5. /\ inst'.suspendedHostCall =>
           (inst'.suspendedResultOwnerAlive <=> inst'.suspendedSeq \in live')
      /\ ~inst'.suspendedHostCall =>
           inst'.suspendedSeq = None /\ ~inst'.suspendedResultOwnerAlive
  BY DEF HostInv, StopSound, SameStop
<1>6. ~bypassed /\ inst'.hostCallPending /\ inst'.callStatus = "Completed" =>
        inst'.slot \in {inst'.pendingSeq} \cup
                       (IF inst'.pendingBegin = "Acquired" THEN {} ELSE {Null, Local})
  BY DEF HostInv, LendSound, SameLoan, SameCall, SameContext
<1>7. ~bypassed /\ ~InterpreterRunning =>
        /\ inst'.main = "busy" <=> inst'.hostCallPending /\ inst'.pendingBegin = "Acquired"
        /\ inst'.suspendedHostCall => inst'.main = "stopped" /\ inst'.exec = inst'.suspendedSeq
  BY DEF HostInv, ContextAccounted, SameLoan, SameContext, SameStop
<1>8. {inst'.armedSeq, inst'.pendingSeq} \subseteq live' \cup {None}
  OBVIOUS
<1>9. ~InterpreterRunning /\ inst'.main = "busy" =>
        inst'.hostCallPending /\ inst'.pendingBegin = "Acquired"
  BY DEF HostInv, ContextAccounted, SameLoan, SameContext
<1> QED  BY <1>1, <1>2, <1>3, <1>4, <1>5, <1>6, <1>7, <1>8, <1>9, NotGone, KeptStep

LEMMA ArgStep ==
  ASSUME HostInv, NEW s \in Calls, Arg(s)
  PROVE  HostInv'
<1>1. inst \in InstType /\ s \in live /\ inst.armedSeq = s /\ None \notin Calls
  BY Numbers DEF HostInv, TypeOK, Arg
<1>2. inst' = [inst EXCEPT !.args = TRUE]
  BY DEF Arg
<1>3. inst' \in InstType /\ inst'.armedSeq = inst.armedSeq
  BY <1>1, <1>2 DEF InstType
<1>4. SameContext(inst', inst) /\ SameLife(inst', inst) /\ SameCall(inst', inst)
  BY <1>1, <1>2 DEF InstType, SameContext, SameLife, SameCall
<1>5. SameLoan(inst', inst) /\ SameStop(inst', inst)
  BY <1>1, <1>2 DEF InstType, SameLoan, SameStop
<1>6. {inst'.armedSeq, inst'.pendingSeq} \subseteq live \cup {None}
  BY <1>3, <1>5 DEF HostInv, OwnersAlive, SameLoan
<1>7. UNCHANGED <<frames, bypassed, live>> /\ live # {}
  BY <1>1 DEF Arg
<1> QED  BY <1>1, <1>3, <1>4, <1>5, <1>6, <1>7, ArmedStep

LEMMA ReadStep ==
  ASSUME HostInv, NEW s \in Calls, Read(s)
  PROVE  HostInv'
<1>1. inst \in InstType /\ s \in live /\ inst.pendingSeq = s /\ inst.hostCallPending
  BY DEF HostInv, TypeOK, Read, Readable
<1>2. inst' = [inst EXCEPT !.readers = @ \cup {s}] /\ UNCHANGED <<frames, bypassed, live>>
  BY DEF Read
<1>3. inst' \in InstType /\ inst'.readers = inst.readers \cup {s}
  BY <1>1, <1>2 DEF InstType
<1>4. SameContext(inst', inst) /\ SameLife(inst', inst) /\ SameCall(inst', inst)
  BY <1>1, <1>2 DEF InstType, SameContext, SameLife, SameCall
<1>5. SameArmed(inst', inst) /\ SameStop(inst', inst)
  BY <1>1, <1>2 DEF InstType, SameArmed, SameStop
<1>6. /\ inst'.hostCallPending = inst.hostCallPending /\ inst'.pendingBegin = inst.pendingBegin
      /\ inst'.pendingSeq = inst.pendingSeq
  BY <1>1, <1>2 DEF InstType
<1>7. inst'.readers \subseteq (IF inst'.hostCallPending THEN {inst'.pendingSeq} ELSE {})
  BY <1>1, <1>3, <1>6 DEF HostInv, LendSound
<1>8. FramesSound' /\ (InterpreterRunning' <=> InterpreterRunning)
      /\ (\A i : Lowest(i)' <=> Lowest(i)) /\ DOMAIN frames' = DOMAIN frames
      /\ frames' = frames /\ live' = live /\ bypassed' = bypassed
  BY <1>2, FramesKept
<1>9. TypeOK'
  BY <1>3, <1>4, <1>5, <1>6, <1>8 DEF HostInv, TypeOK, SameLife, SameStop
<1>10. RunSound'
  BY <1>4, <1>6, <1>8 DEF HostInv, RunSound, SameContext
<1>11. StopSound'
  BY <1>4, <1>5, <1>8 DEF HostInv, StopSound, SameContext, SameStop
<1>12. LendSound'
  BY <1>4, <1>6, <1>7, <1>8 DEF HostInv, LendSound, SameContext, SameCall
<1>13. BusySound'
  BY <1>1, <1>4, <1>5, <1>6, <1>8 DEF HostInv, BusySound, SameLife, SameStop, SameArmed
<1>14. ContextAccounted'
  BY <1>4, <1>5, <1>6, <1>8 DEF HostInv, ContextAccounted, SameContext, SameStop
<1>15. OwnersAlive' /\ ScratchOwned'
  BY <1>4, <1>5, <1>6, <1>8
  DEF HostInv, OwnersAlive, ScratchOwned, SameLife, SameStop, SameArmed
<1> QED
  BY <1>8, <1>9, <1>10, <1>11, <1>12, <1>13, <1>14, <1>15 DEF HostInv

\* A handler has flushed, and no more than prepared a call or dropped one.
LEMMA FlushedStep ==
  ASSUME HostInv, UNCHANGED <<frames, bypassed>>,
         NEW q, NEW a, FlushedFrom(q, a), SameLife(a, inst), SameStop(a, inst),
         inst' \in InstType, SameContext(inst', q), SameLoan(inst', q), SameStop(inst', q),
         inst'.lifecycleBusy = q.lifecycleBusy, inst'.gone = q.gone,
         inst'.generation = q.generation,
         inst.lifecycleBusy => InterpreterRunning,
         \/ inst'.callSeq = inst.callSeq /\ live' = live
         \/ inst'.callSeq = inst.callSeq + 1 /\ live' = live \cup {inst'.callSeq},
         inst'.armedSeq \in live' \cup {None},
         inst'.args \/ inst'.closure => inst'.armedSeq # None
  PROVE  HostInv'
<1>1. /\ inst.callSeq \in Nat /\ inst.suspendedSeq \in Nat /\ inst.suspendedSeq <= inst.callSeq
      /\ live \subseteq 1 .. inst.callSeq
  BY SequenceNumbers DEF HostInv, TypeOK
<1>2. /\ inst'.suspendedHostCall = inst.suspendedHostCall
      /\ inst'.suspendedResultOwnerAlive = inst.suspendedResultOwnerAlive
      /\ inst'.suspendedSeq = inst.suspendedSeq
  BY DEF FlushedFrom, SameStop
<1>3. /\ ~inst'.hostCallPending /\ inst'.pendingSeq = None /\ inst'.readers = {}
      /\ LoanSound(inst')
  BY DEF FlushedFrom, SameLoan, LoanSound
<1>4. /\ Idle(inst') \/ SameContext(inst', inst)
      /\ InterpreterRunning => SameContext(inst', inst)
      /\ inst.main = "stopped" => SameContext(inst', inst)
      /\ ~InterpreterRunning => inst'.main # "busy"
  BY DEF FlushedFrom, SameContext, Idle
<1>5. live' \subseteq 1 .. inst'.callSeq /\ inst'.suspendedSeq <= inst'.callSeq
  <2>1. CASE inst'.callSeq = inst.callSeq /\ live' = live
    BY <1>1, <1>2, <2>1
  <2>2. CASE inst'.callSeq = inst.callSeq + 1 /\ live' = live \cup {inst'.callSeq}
    <3>1. 1 .. inst.callSeq \subseteq 1 .. inst'.callSeq /\ inst'.callSeq \in 1 .. inst'.callSeq
      BY <1>1, <2>2
    <3>2. live' \subseteq 1 .. inst'.callSeq
      BY <1>1, <2>2, <3>1
    <3>3. inst'.suspendedSeq <= inst'.callSeq
      BY <1>1, <1>2, <2>2
    <3> QED  BY <3>2, <3>3
  <2> QED  BY <2>1, <2>2
<1>6. /\ inst'.gone = inst.gone /\ inst'.generation = inst.generation
      /\ inst'.lifecycleBusy = inst.lifecycleBusy
  BY DEF FlushedFrom, SameLife
<1>7. \A s \in live' : s \in live \/ s > inst.callSeq
  BY <1>1
<1>8. \A i \in DOMAIN frames : frames[i].op \in {"invoke", "read"} => frames[i].seq \in live'
  BY DEF HostInv, OwnersAlive
<1>9. inst'.main # "idle" => inst'.exec # None
  BY <1>4 DEF HostInv, RunSound, Idle, SameContext
<1>10. /\ inst'.suspendedHostCall =>
            (inst'.suspendedResultOwnerAlive <=> inst'.suspendedSeq \in live')
       /\ ~inst'.suspendedHostCall =>
            inst'.suspendedSeq = None /\ ~inst'.suspendedResultOwnerAlive
  BY <1>1, <1>2 DEF HostInv, StopSound
<1>11. ~bypassed /\ ~InterpreterRunning /\ inst'.suspendedHostCall =>
         inst'.main = "stopped" /\ inst'.exec = inst'.suspendedSeq
  BY <1>2, <1>4 DEF HostInv, ContextAccounted, SameContext
<1>12. {inst'.armedSeq, inst'.pendingSeq} \subseteq live' \cup {None}
  BY <1>3
<1>13. ~inst.gone
  BY NotGone
<1> QED
  BY <1>2, <1>3, <1>4, <1>5, <1>6, <1>7, <1>8, <1>9, <1>10, <1>11, <1>12, <1>13, KeptStep

LEMMA FlushInst ==
  ASSUME HostInv
  PROVE  FlushedFrom(Flushed(inst), inst)
BY LoanOfInst, FlushHost DEF SameContext, SameLoan

LEMMA CallStep ==
  ASSUME HostInv, NEW captured \in BOOLEAN, NEW wrong \in BOOLEAN, Call(captured, wrong)
  PROVE  HostInv'
<1> DEFINE q == Flushed(inst)
           p == [q EXCEPT !.closure = captured /\ ~wrong]
           s == inst.callSeq + 1
<1>1. FlushedFrom(q, inst)
  BY FlushInst
<1>2. /\ inst.lifecycleBusy => InterpreterRunning
      /\ inst.armedSeq = None /\ inst.callSeq < MaxCalls /\ UNCHANGED <<frames, bypassed>>
      /\ ~inst.args
  BY DEF Call, CallRefused, HostInv, ScratchOwned
<1>3. /\ wrong => inst' = p /\ live' = live
      /\ ~wrong => /\ inst' = [p EXCEPT !.args = FALSE, !.callStatus = "Failed",
                                        !.callSeq = s, !.armedSeq = s]
                   /\ live' = live \cup {s}
  BY DEF Call
<1>4. s \in Calls /\ s \in 0 .. MaxCalls
  BY <1>2, SequenceNumbers, HostAssumption DEF Calls
<1> HIDE DEF q, s
<1>5. q \in InstType
  BY <1>1 DEF FlushedFrom
<1>6. /\ p \in InstType
      /\ wrong => ~p.closure
      /\ p.args = q.args /\ p.armedSeq = q.armedSeq
  <2> DEFINE c == captured /\ ~wrong
  <2>1. c \in BOOLEAN /\ (wrong => c = FALSE)
    OBVIOUS
  <2>2. p = [q EXCEPT !.closure = c]
    OBVIOUS
  <2> HIDE DEF c, p
  <2>3. p \in InstType /\ p.closure = c
    BY <1>5, <2>1, <2>2 DEF InstType
  <2>4. p.args = q.args /\ p.armedSeq = q.armedSeq
    BY <1>5, <2>1, <2>2 DEF InstType
  <2> QED  BY <2>1, <2>3, <2>4
<1>7. SameContext(p, q) /\ SameLoan(p, q) /\ SameStop(p, q) /\ SameLife(p, q)
  <2>1. SameContext(p, q) /\ SameLoan(p, q)
    BY <1>5 DEF InstType, SameContext, SameLoan
  <2>2. SameStop(p, q) /\ SameLife(p, q)
    BY <1>5 DEF InstType, SameStop, SameLife
  <2> QED  BY <2>1, <2>2
<1> HIDE DEF p
<1>8. SameLife(q, inst) /\ q.args = inst.args /\ q.armedSeq = inst.armedSeq
  BY <1>1 DEF FlushedFrom, SameArmed
<1>9. CASE wrong
  <2>1. inst' \in InstType /\ SameContext(inst', q) /\ SameLoan(inst', q) /\ SameStop(inst', q)
    BY <1>3, <1>6, <1>7, <1>9
  <2>2. /\ inst'.lifecycleBusy = q.lifecycleBusy /\ inst'.gone = q.gone
        /\ inst'.generation = q.generation /\ inst'.callSeq = inst.callSeq /\ live' = live
    BY <1>3, <1>7, <1>8, <1>9 DEF SameLife
  <2>3. inst'.armedSeq = None /\ ~inst'.args /\ ~inst'.closure
    BY <1>2, <1>3, <1>6, <1>8, <1>9
  <2> QED
    BY <1>1, <1>2, <2>1, <2>2, <2>3, FlushedStep DEF SameLife, SameStop
<1>10. CASE ~wrong
  <2> DEFINE t == [p EXCEPT !.args = FALSE, !.callStatus = "Failed", !.callSeq = s, !.armedSeq = s]
  <2>1. t \in InstType /\ t.armedSeq = s /\ t.callSeq = s
    BY <1>4, <1>6 DEF InstType, Statuses
  <2>2. SameContext(t, p) /\ SameLoan(t, p) /\ SameStop(t, p)
    BY <1>6 DEF InstType, SameContext, SameLoan, SameStop
  <2>3. t.lifecycleBusy = p.lifecycleBusy /\ t.gone = p.gone /\ t.generation = p.generation
    BY <1>6 DEF InstType
  <2>4. inst' = t /\ live' = live \cup {s}
    BY <1>3, <1>10
  <2> HIDE DEF t
  <2>5. inst' \in InstType /\ SameContext(inst', q) /\ SameLoan(inst', q) /\ SameStop(inst', q)
    BY <1>7, <2>1, <2>2, <2>4 DEF SameContext, SameLoan, SameStop
  <2>6. /\ inst'.lifecycleBusy = q.lifecycleBusy /\ inst'.gone = q.gone
        /\ inst'.generation = q.generation
    BY <1>7, <2>3, <2>4 DEF SameLife
  <2>7. inst'.callSeq = inst.callSeq + 1 /\ live' = live \cup {inst'.callSeq}
        /\ inst'.armedSeq \in live' /\ inst'.armedSeq # None
    BY <1>4, <2>1, <2>4, Numbers DEF s
  <2> QED
    BY <1>1, <1>2, <2>5, <2>6, <2>7, FlushedStep DEF SameLife, SameStop
<1> QED  BY <1>9, <1>10

\* StartTop gives way.
LEMMA GiveWay ==
  ASSUME HostInv, MayRun, inst' = Flushed(inst), UNCHANGED <<live, frames, bypassed>>
  PROVE  HostInv'
<1>1. FlushedFrom(inst', inst)
  BY FlushInst
<1>2. inst' \in InstType /\ SameArmed(inst', inst) /\ SameLife(inst', inst)
  BY <1>1 DEF FlushedFrom
<1>3. inst'.armedSeq = None /\ ~inst'.args /\ ~inst'.closure /\ ~inst.lifecycleBusy
  BY <1>2 DEF MayRun, HostInv, ScratchOwned, SameArmed
<1> QED
  BY <1>1, <1>2, <1>3, FlushedStep DEF SameContext, SameLoan, SameStop, SameLife

LEMMA CancelStep ==
  ASSUME HostInv, Cancel
  PROVE  HostInv'
<1> DEFINE q == Flushed(inst)
           r == Released(q)
           p == [r EXCEPT !.args = FALSE, !.suspendedHostCall = FALSE,
                          !.suspendedResultOwnerAlive = FALSE, !.suspendedSeq = None,
                          !.callStatus = "Cancelled"]
<1>1. /\ inst' = p /\ UNCHANGED <<live, frames, bypassed>>
      /\ ~inst.lifecycleBusy /\ ~InterpreterRunning
  BY DEF Cancel
<1>2. FlushedFrom(q, inst)
  BY FlushInst
<1> HIDE DEF q
<1>3. /\ r \in InstType /\ Idle(r) /\ SameLife(r, q) /\ SameArmed(r, q) /\ SameLoan(r, q)
  BY <1>2, ReleasedFacts DEF FlushedFrom
<1> HIDE DEF r
<1>4. p \in InstType
  BY <1>3 DEF InstType, Statuses
<1>5. ~p.args /\ ~p.suspendedHostCall /\ ~p.suspendedResultOwnerAlive /\ p.suspendedSeq = None
  BY <1>3 DEF InstType
<1>6. Idle(p) /\ SameLife(p, r) /\ SameLoan(p, r)
  BY <1>3 DEF InstType, Idle, SameLife, SameLoan
<1>7. p.armedSeq = r.armedSeq /\ p.closure = r.closure
  BY <1>3 DEF InstType
<1> HIDE DEF p
<1>8. SameLife(inst', inst) /\ inst'.armedSeq = inst.armedSeq /\ inst'.closure = inst.closure
  BY <1>1, <1>2, <1>3, <1>6, <1>7 DEF FlushedFrom, SameLife, SameArmed
<1>9. ~inst'.hostCallPending /\ inst'.pendingSeq = None /\ LoanSound(inst')
  BY <1>1, <1>2, <1>3, <1>6 DEF FlushedFrom, LoanSound, SameLoan
<1>10. /\ live' \subseteq 1 .. inst'.callSeq /\ inst'.suspendedSeq <= inst'.callSeq
       /\ \A s \in live' : s \in live \/ s > inst.callSeq
  BY <1>1, <1>5, <1>8, SequenceNumbers DEF HostInv, TypeOK, SameLife, None
<1>11. \A i \in DOMAIN frames : frames[i].op \in {"invoke", "read"} => frames[i].seq \in live'
  BY <1>1 DEF HostInv, OwnersAlive
<1>12. {inst'.armedSeq, inst'.pendingSeq} \subseteq live' \cup {None}
  BY <1>1, <1>8, <1>9 DEF HostInv, OwnersAlive
<1>13. inst'.args \/ inst'.closure => inst'.armedSeq # None
  BY <1>1, <1>5, <1>8 DEF HostInv, ScratchOwned
<1>14. ~inst.gone
  BY <1>1, NotGone
<1> QED
  BY <1>1, <1>4, <1>5, <1>6, <1>8, <1>9, <1>10, <1>11, <1>12, <1>13, <1>14, KeptStep
  DEF SameLife, Idle

LEMMA DropStep ==
  ASSUME HostInv, NEW s \in Calls, Drop(s)
  PROVE  HostInv'
<1> DEFINE a == IF inst.armedSeq = s
                THEN [inst EXCEPT !.armedSeq = None, !.args = FALSE, !.closure = FALSE]
                ELSE inst
           b == FlushedIfOwn(a, s)
<1>1. /\ inst' = IF b.suspendedHostCall /\ b.suspendedSeq = s
                 THEN [b EXCEPT !.suspendedResultOwnerAlive = FALSE] ELSE b
      /\ live' = live \ {s} /\ UNCHANGED <<frames, bypassed>> /\ s \in live
      /\ \A i \in DOMAIN frames : ~(frames[i].op \in {"invoke", "read"} /\ frames[i].seq = s)
  BY DEF Drop
<1>2. inst \in InstType /\ LoanSound(inst)
  BY LoanOfInst
<1>3. /\ a \in InstType /\ SameContext(a, inst) /\ SameLife(a, inst) /\ SameLoan(a, inst)
      /\ SameStop(a, inst) /\ SameCall(a, inst)
      /\ IF inst.armedSeq = s THEN a.armedSeq = None /\ ~a.args /\ ~a.closure ELSE SameArmed(a, inst)
  <2>1. CASE inst.armedSeq = s
    <3>1. a = [inst EXCEPT !.armedSeq = None, !.args = FALSE, !.closure = FALSE]
      BY <2>1
    <3> HIDE DEF a
    <3>2. a \in InstType
      BY <1>2, <3>1 DEF InstType
    <3>3. a.armedSeq = None /\ ~a.args /\ ~a.closure
      BY <1>2, <3>1 DEF InstType
    <3>4. SameContext(a, inst) /\ SameLife(a, inst)
      BY <1>2, <3>1 DEF InstType, SameContext, SameLife
    <3>5. SameLoan(a, inst) /\ SameStop(a, inst) /\ SameCall(a, inst)
      BY <1>2, <3>1 DEF InstType, SameLoan, SameStop, SameCall
    <3> QED  BY <2>1, <3>2, <3>3, <3>4, <3>5
  <2>2. CASE inst.armedSeq # s
    BY <1>2, <2>2 DEF SameContext, SameLife, SameLoan, SameStop, SameCall, SameArmed
  <2> QED  BY <2>1, <2>2
<1> HIDE DEF a
<1>4. /\ b \in InstType /\ LoanSound(b)
      /\ SameLife(b, inst) /\ SameStop(b, inst) /\ SameArmed(b, a) /\ SameCall(b, inst)
      /\ IF inst.pendingSeq = s THEN ~b.hostCallPending /\ b.pendingSeq = None ELSE SameLoan(b, inst)
      /\ Idle(b) \/ SameContext(b, inst)
      /\ InterpreterRunning => SameContext(b, inst)
      /\ inst.main = "stopped" => SameContext(b, inst)
      /\ inst.pendingSeq # s => SameContext(b, inst)
      /\ ~InterpreterRunning /\ inst.pendingSeq = s => b.main # "busy"
  <2>1. CASE inst.pendingSeq = s
    <3>1. b = Flushed(a)
      BY <1>3, <2>1 DEF FlushedIfOwn, SameLoan
    <3> HIDE DEF b
    <3>2. FlushedFrom(b, a)
      BY <1>3, <3>1, FlushHost
    <3>3. SameLife(b, inst) /\ SameStop(b, inst) /\ SameArmed(b, a) /\ SameCall(b, inst)
      BY <1>3, <3>2 DEF FlushedFrom, SameLife, SameStop, SameCall
    <3> QED  BY <2>1, <3>2, <3>3 DEF FlushedFrom
  <2>2. CASE inst.pendingSeq # s
    <3>1. b = a
      BY <1>3, <2>2 DEF FlushedIfOwn, SameLoan
    <3> HIDE DEF b
    <3>2. LoanSound(b) /\ SameArmed(b, a)
      BY <1>2, <1>3, <3>1 DEF LoanSound, SameLoan, SameArmed
    <3> QED  BY <1>3, <2>2, <3>1, <3>2
  <2> QED  BY <2>1, <2>2
<1> HIDE DEF b
<1>5. /\ inst' \in InstType /\ LoanSound(inst') /\ SameContext(inst', b) /\ SameLife(inst', inst)
      /\ SameLoan(inst', b) /\ SameArmed(inst', a) /\ SameCall(inst', inst)
      /\ inst'.suspendedHostCall = inst.suspendedHostCall
      /\ inst'.suspendedSeq = inst.suspendedSeq
      /\ inst'.suspendedResultOwnerAlive =
           IF inst.suspendedHostCall /\ inst.suspendedSeq = s THEN FALSE
           ELSE inst.suspendedResultOwnerAlive
  <2>1. CASE b.suspendedHostCall /\ b.suspendedSeq = s
    <3>1. inst' = [b EXCEPT !.suspendedResultOwnerAlive = FALSE]
      BY <1>1, <2>1
    <3>2. /\ inst' \in InstType /\ inst'.suspendedHostCall = b.suspendedHostCall
          /\ inst'.suspendedSeq = b.suspendedSeq /\ inst'.suspendedResultOwnerAlive = FALSE
      BY <1>4, <3>1 DEF InstType
    <3>3. SameContext(inst', b) /\ SameLife(inst', b)
      BY <1>4, <3>1 DEF InstType, SameContext, SameLife
    <3>4. SameLoan(inst', b) /\ SameArmed(inst', b) /\ SameCall(inst', b)
      BY <1>4, <3>1 DEF InstType, SameLoan, SameArmed, SameCall
    <3>5. LoanSound(inst') /\ SameLife(inst', inst) /\ SameArmed(inst', a) /\ SameCall(inst', inst)
      BY <1>4, <3>3, <3>4 DEF LoanSound, SameLoan, SameLife, SameArmed, SameCall
    <3>6. inst.suspendedHostCall = b.suspendedHostCall /\ inst.suspendedSeq = b.suspendedSeq
      BY <1>4 DEF SameStop
    <3> QED  BY <2>1, <3>2, <3>3, <3>4, <3>5, <3>6
  <2>2. CASE ~(b.suspendedHostCall /\ b.suspendedSeq = s)
    <3>1. inst' = b
      BY <1>1, <2>2
    <3> QED  BY <1>4, <2>2, <3>1 DEF SameContext, SameLoan, SameStop
  <2> QED  BY <2>1, <2>2
<1>6. inst'.lifecycleBusy => InterpreterRunning /\ inst.lifecycleBusy
  BY <1>1, <1>5, NotBusy DEF SameLife
<1>7. /\ live' \subseteq 1 .. inst'.callSeq /\ inst'.suspendedSeq <= inst'.callSeq
      /\ \A t \in live' : t \in live \/ t > inst.callSeq
      /\ inst'.gone = inst.gone /\ inst'.generation = inst.generation
  BY <1>1, <1>5, SequenceNumbers DEF HostInv, TypeOK, SameLife
<1>8. \A i \in DOMAIN frames : frames[i].op \in {"invoke", "read"} => frames[i].seq \in live'
  BY <1>1 DEF HostInv, OwnersAlive
<1>9. /\ InterpreterRunning => /\ SameContext(inst', inst)
                               /\ inst'.hostCallPending => inst'.pendingBegin = "Nested"
      /\ inst'.main # "idle" => inst'.exec # None
  BY <1>4, <1>5 DEF HostInv, RunSound, SameContext, SameLoan, Idle
<1>10. /\ inst'.suspendedHostCall =>
            (inst'.suspendedResultOwnerAlive <=> inst'.suspendedSeq \in live')
       /\ ~inst'.suspendedHostCall =>
            inst'.suspendedSeq = None /\ ~inst'.suspendedResultOwnerAlive
  <2>1. /\ inst.suspendedHostCall =>
             (inst.suspendedResultOwnerAlive <=> inst.suspendedSeq \in live)
        /\ ~inst.suspendedHostCall =>
             inst.suspendedSeq = None /\ ~inst.suspendedResultOwnerAlive
    BY DEF HostInv, StopSound
  <2>2. CASE inst.suspendedHostCall /\ inst.suspendedSeq = s
    <3>1. inst'.suspendedSeq \notin live'
      BY <1>1, <1>5, <2>2
    <3>2. inst'.suspendedResultOwnerAlive = FALSE /\ inst'.suspendedHostCall
      BY <1>5, <2>2
    <3> QED  BY <3>1, <3>2
  <2>3. CASE inst.suspendedHostCall /\ inst.suspendedSeq # s
    <3>1. inst.suspendedSeq \in live' <=> inst.suspendedSeq \in live
      BY <1>1, <2>3
    <3>2. inst'.suspendedResultOwnerAlive = inst.suspendedResultOwnerAlive
      BY <1>5, <2>3
    <3> QED  BY <1>5, <2>1, <2>3, <3>1, <3>2
  <2>4. CASE ~inst.suspendedHostCall
    BY <1>5, <2>1, <2>4
  <2> QED  BY <2>2, <2>3, <2>4
<1>11. ~bypassed /\ inst'.hostCallPending /\ inst'.callStatus = "Completed" =>
         inst'.slot \in {inst'.pendingSeq} \cup
                        (IF inst'.pendingBegin = "Acquired" THEN {} ELSE {Null, Local})
  <2>1. SUFFICES ASSUME ~bypassed, inst'.hostCallPending, inst'.callStatus = "Completed"
                 PROVE  inst'.slot \in {inst'.pendingSeq} \cup
                        (IF inst'.pendingBegin = "Acquired" THEN {} ELSE {Null, Local})
    OBVIOUS
  <2>2. inst.pendingSeq # s
    BY <1>4, <1>5, <2>1 DEF SameLoan
  <2>3. /\ inst'.hostCallPending = inst.hostCallPending /\ inst'.pendingSeq = inst.pendingSeq
        /\ inst'.pendingBegin = inst.pendingBegin /\ inst'.slot = inst.slot
        /\ inst'.callStatus = inst.callStatus
    BY <1>4, <1>5, <2>2 DEF SameLoan, SameContext, SameCall
  <2> QED  BY <2>1, <2>3 DEF HostInv, LendSound
<1>12. ~bypassed /\ ~InterpreterRunning =>
        /\ inst'.main = "busy" <=> inst'.hostCallPending /\ inst'.pendingBegin = "Acquired"
        /\ inst'.suspendedHostCall => inst'.main = "stopped" /\ inst'.exec = inst'.suspendedSeq
  <2> SUFFICES ASSUME ~bypassed, ~InterpreterRunning
               PROVE
        /\ inst'.main = "busy" <=> inst'.hostCallPending /\ inst'.pendingBegin = "Acquired"
        /\ inst'.suspendedHostCall => inst'.main = "stopped" /\ inst'.exec = inst'.suspendedSeq
    OBVIOUS
  <2>1. /\ inst.main = "busy" <=> inst.hostCallPending /\ inst.pendingBegin = "Acquired"
        /\ inst.suspendedHostCall => inst.main = "stopped" /\ inst.exec = inst.suspendedSeq
    BY DEF HostInv, ContextAccounted
  <2>2. inst'.suspendedHostCall => inst'.main = "stopped" /\ inst'.exec = inst'.suspendedSeq
    BY <1>4, <1>5, <2>1 DEF SameContext
  <2>3. inst'.main = "busy" <=> inst'.hostCallPending /\ inst'.pendingBegin = "Acquired"
    BY <1>4, <1>5, <2>1 DEF SameContext, SameLoan
  <2> QED  BY <2>2, <2>3
<1>13. {inst'.armedSeq, inst'.pendingSeq} \subseteq live' \cup {None}
  <2>1. inst'.armedSeq # s /\ inst'.armedSeq \in {inst.armedSeq, None}
    BY <1>3, <1>5, Numbers DEF SameArmed
  <2>2. inst'.pendingSeq # s /\ inst'.pendingSeq \in {inst.pendingSeq, None}
    BY <1>4, <1>5, Numbers DEF SameLoan
  <2> QED  BY <1>1, <2>1, <2>2 DEF HostInv, OwnersAlive
<1>14. inst'.args \/ inst'.closure => inst'.armedSeq # None
  BY <1>3, <1>5 DEF HostInv, ScratchOwned, SameArmed
<1>15. ~InterpreterRunning /\ inst'.main = "busy" =>
         inst'.hostCallPending /\ inst'.pendingBegin = "Acquired"
  BY <1>4, <1>5 DEF HostInv, ContextAccounted, SameLoan, SameContext
<1>16. ~inst.gone
  BY <1>1, NotGone
<1> QED
  BY <1>1, <1>5, <1>6, <1>7, <1>8, <1>9, <1>10, <1>11, <1>12, <1>13, <1>14, <1>15, <1>16, KeptStep

-----------------------------------------------------------------------------
(* Steps in which frames of the host come or go                            *)

LEMMA StackPopped ==
  ASSUME HostInv, Popped
  PROVE  NoNewScript
<1>1. FramesSound'
  BY FramesPopped
<1>2. \A i \in DOMAIN frames' :
        i \in DOMAIN frames /\ frames'[i] = frames[i] /\ (Lowest(i)' <=> Lowest(i))
  BY DEF Popped
<1>3. ~inst.gone
  <2>1. Len(frames) \in DOMAIN frames
    BY DEF Popped
  <2> QED  BY <2>1 DEF HostInv, OwnersAlive
<1>4. InterpreterRunning' => Top.op \notin {"plain", "resume"}
  BY DEF HostInv, FramesSound, Popped
<1>5. ASSUME NEW i \in DOMAIN frames, frames[i].op \in {"plain", "resume"}, InterpreterRunning'
      PROVE  i \in DOMAIN frames' /\ frames'[i] = frames[i]
  <2>1. i # Len(frames)
    BY <1>4, <1>5 DEF Popped
  <2> QED  BY <2>1 DEF Popped
<1>6. \A i \in DOMAIN frames : frames[i].suspended => frames[i].op = "resume"
  BY DEF HostInv, StopSound
<1>7. InterpreterRunning' =>
        /\ (\E i \in DOMAIN frames : frames[i].op = "plain") =>
             \E i \in DOMAIN frames' : frames'[i].op = "plain"
        /\ (\E i \in DOMAIN frames : frames[i].suspended) =>
             \E i \in DOMAIN frames' : frames'[i].suspended
  BY <1>5, <1>6
<1> QED  BY <1>1, <1>2, <1>3, <1>7 DEF NoNewScript, Popped, SameFrame

LEMMA StackReplaced ==
  ASSUME HostInv, NEW f \in FrameType, Replaced(f), f.op \in HostOps, f.native,
         ~f.suspended, ~f.retain, f.generation = inst.generation
  PROVE  NoNewScript
<1>1. FramesSound'
  BY FramesReplaced
<1>2. \A i \in 1 .. Len(frames) - 1 :
        i \in DOMAIN frames /\ frames'[i] = frames[i] /\ (Lowest(i)' <=> Lowest(i))
  BY DEF Replaced
<1>3. ~inst.gone
  <2>1. Len(frames) \in DOMAIN frames
    BY DEF Replaced
  <2> QED  BY <2>1 DEF HostInv, OwnersAlive
<1>4. InterpreterRunning' => Top.op \notin {"plain", "resume"}
  BY DEF HostInv, FramesSound, Replaced
<1>5. ASSUME NEW i \in DOMAIN frames, frames[i].op \in {"plain", "resume"}, InterpreterRunning'
      PROVE  i \in DOMAIN frames' /\ frames'[i] = frames[i]
  <2>1. i # Len(frames)
    BY <1>4, <1>5 DEF Replaced
  <2> QED  BY <2>1 DEF Replaced
<1>6. \A i \in DOMAIN frames : frames[i].suspended => frames[i].op = "resume"
  BY DEF HostInv, StopSound
<1>7. InterpreterRunning' =>
        /\ (\E i \in DOMAIN frames : frames[i].op = "plain") =>
             \E i \in DOMAIN frames' : frames'[i].op = "plain"
        /\ (\E i \in DOMAIN frames : frames[i].suspended) =>
             \E i \in DOMAIN frames' : frames'[i].suspended
  BY <1>5, <1>6
<1>8. \A i \in DOMAIN frames' : i \in 1 .. Len(frames) - 1 \/ i = Len(frames)
  BY DEF Replaced
<1>9. frames'[Len(frames)] = f
  BY DEF Replaced
<1>10. \A i \in DOMAIN frames' :
       \/ i \in DOMAIN frames /\ SameFrame(frames'[i], frames[i]) /\ (Lowest(i)' <=> Lowest(i))
       \/ /\ frames'[i].op \in HostOps /\ ~frames'[i].suspended /\ ~frames'[i].retain
          /\ frames'[i].generation = inst.generation
  BY <1>2, <1>8, <1>9 DEF SameFrame
<1> QED  BY <1>1, <1>3, <1>7, <1>10 DEF NoNewScript, Replaced

LEMMA StackTurned ==
  ASSUME HostInv, NEW b \in BOOLEAN, Turned(b), ~b => Top.op \notin HostOps
  PROVE  NoNewScript
<1>1. FramesSound'
  BY FramesTurned
<1>2. \A i \in DOMAIN frames' :
        i \in DOMAIN frames /\ SameFrame(frames'[i], frames[i]) /\ (Lowest(i)' <=> Lowest(i))
  BY DEF Turned, SameFrame
<1>3. ~inst.gone
  <2>2. Len(frames) \in Nat \ {0} /\ DOMAIN frames = 1 .. Len(frames)
    BY DEF Turned
  <2>1. Len(frames) \in DOMAIN frames
    BY <2>2
  <2> QED  BY <2>1 DEF HostInv, OwnersAlive
<1>4. \A i \in DOMAIN frames : i \in DOMAIN frames' /\ SameFrame(frames'[i], frames[i])
  BY DEF Turned, SameFrame
<1> QED  BY <1>1, <1>2, <1>3, <1>4 DEF NoNewScript, Turned, SameFrame

LEMMA StackPushedHost ==
  ASSUME HostInv, HostTurn, NEW f \in FrameType, Pushed(f), f.op \in HostOps, f.native,
         ~f.suspended, ~f.retain, f.generation = inst.generation
  PROVE  NoNewScript
<1>1. FramesSound'
  BY FramesPushed DEF HostOps
<1>2. \A i \in 1 .. Len(frames) :
        i \in DOMAIN frames /\ frames'[i] = frames[i] /\ (Lowest(i)' <=> Lowest(i))
  BY DEF Pushed
<1>3. ~inst.gone
  BY DEF HostTurn
<1>4. \A i \in DOMAIN frames : i \in DOMAIN frames' /\ frames'[i] = frames[i]
  BY DEF Pushed
<1>5. \A i \in DOMAIN frames' : i \in 1 .. Len(frames) \/ i = Len(frames) + 1
  BY DEF Pushed
<1>6. frames'[Len(frames) + 1] = f
  BY DEF Pushed
<1>7. \A i \in DOMAIN frames' :
       \/ i \in DOMAIN frames /\ SameFrame(frames'[i], frames[i]) /\ (Lowest(i)' <=> Lowest(i))
       \/ /\ frames'[i].op \in HostOps /\ ~frames'[i].suspended /\ ~frames'[i].retain
          /\ frames'[i].generation = inst.generation
  BY <1>2, <1>5, <1>6 DEF SameFrame
<1> QED  BY <1>1, <1>3, <1>4, <1>7 DEF NoNewScript, Pushed

\* The lowest script of the stack is one.
LEMMA LowestUnique ==
  ASSUME HostInv, NEW i \in DOMAIN frames, NEW j \in DOMAIN frames, Lowest(i), Lowest(j),
         frames[i].op \notin HostOps, frames[j].op \notin HostOps
  PROVE  i = j
<1>1. i \in Nat /\ j \in Nat /\ i >= 1 /\ j >= 1
  BY DEF HostInv, TypeOK
<1>2. ~(i < j) /\ ~(j < i)
  BY <1>1 DEF Lowest
<1> QED  BY <1>1, <1>2

\* The instance is flushed, or nothing happens to it; no script comes or goes.
LEMMA HostFlushed ==
  ASSUME HostInv, NoNewScript, InterpreterRunning' <=> InterpreterRunning,
         UNCHANGED <<live, bypassed>>, FlushedFrom(inst', inst) \/ inst' = inst,
         \A i \in DOMAIN frames' :
           frames'[i].op \in {"invoke", "read"} => frames'[i].seq \in live,
         inst.lifecycleBusy => InterpreterRunning
  PROVE  HostInv'
<1>1. inst' \in InstType /\ LoanSound(inst')
  BY LoanOfInst DEF FlushedFrom
<1>2. SameLife(inst', inst) /\ SameArmed(inst', inst) /\ SameCall(inst', inst)
      /\ SameStop(inst', inst)
  BY DEF FlushedFrom, SameLife, SameArmed, SameCall, SameStop
<1>3. /\ Idle(inst') \/ SameContext(inst', inst)
      /\ InterpreterRunning => SameContext(inst', inst)
      /\ inst.main = "stopped" => SameContext(inst', inst)
      /\ \/ ~inst'.hostCallPending /\ inst'.pendingSeq = None
            /\ (~InterpreterRunning => inst'.main # "busy")
         \/ SameLoan(inst', inst) /\ SameContext(inst', inst)
  BY DEF FlushedFrom, SameContext, SameLoan
<1>4. /\ live' \subseteq 1 .. inst'.callSeq /\ inst'.suspendedSeq <= inst'.callSeq
      /\ inst'.gone = inst.gone /\ inst'.generation = inst.generation
      /\ inst'.lifecycleBusy => InterpreterRunning' /\ inst.lifecycleBusy
      /\ \A s \in live' : s \in live \/ s > inst.callSeq
  BY <1>2 DEF HostInv, TypeOK, SameLife, SameStop
<1>5. InterpreterRunning' =>
           /\ inst'.main = inst.main /\ inst'.exec = inst.exec
           /\ inst'.hostCallPending => inst'.pendingBegin = "Nested"
           /\ inst'.suspendedHostCall = inst.suspendedHostCall
           /\ inst'.suspendedSeq = inst.suspendedSeq
  BY <1>2, <1>3 DEF HostInv, RunSound, SameContext, SameLoan, SameStop
<1>6. inst'.main # "idle" => inst'.exec # None
  BY <1>3 DEF HostInv, RunSound, Idle, SameContext
<1>7. /\ inst'.suspendedHostCall =>
           (inst'.suspendedResultOwnerAlive <=> inst'.suspendedSeq \in live')
      /\ ~inst'.suspendedHostCall =>
           inst'.suspendedSeq = None /\ ~inst'.suspendedResultOwnerAlive
  BY <1>2 DEF HostInv, StopSound, SameStop
<1>8. ~bypassed /\ inst'.hostCallPending /\ inst'.callStatus = "Completed" =>
           inst'.slot \in {inst'.pendingSeq} \cup
                          (IF inst'.pendingBegin = "Acquired" THEN {} ELSE {Null, Local})
  BY <1>2, <1>3 DEF HostInv, LendSound, SameLoan, SameContext, SameCall
<1>9. ~bypassed /\ ~InterpreterRunning' =>
        /\ inst'.main = "busy" <=> inst'.hostCallPending /\ inst'.pendingBegin = "Acquired"
        /\ inst'.suspendedHostCall => inst'.main = "stopped" /\ inst'.exec = inst'.suspendedSeq
  BY <1>2, <1>3 DEF HostInv, ContextAccounted, SameLoan, SameContext, SameStop
<1>10. /\ {inst'.armedSeq, inst'.pendingSeq} \subseteq live' \cup {None}
       /\ inst'.args \/ inst'.closure => inst'.armedSeq # None
  BY <1>2, <1>3 DEF HostInv, OwnersAlive, ScratchOwned, SameArmed, SameLoan
<1>11. ~InterpreterRunning' /\ inst'.main = "busy" =>
         inst'.hostCallPending /\ inst'.pendingBegin = "Acquired"
  BY <1>3 DEF HostInv, ContextAccounted, SameLoan, SameContext
<1>12. ~inst.gone
  BY NotGone
<1> QED
  BY <1>1, <1>4, <1>5, <1>6, <1>7, <1>8, <1>9, <1>10, <1>11, <1>12, HostStep

LEMMA ReadEndsStep ==
  ASSUME HostInv, ReadEnds
  PROVE  HostInv'
<1>1. /\ frames # <<>> /\ Top.op = "read" /\ frames' = Pop /\ UNCHANGED <<live, bypassed>>
      /\ inst' = FlushedIfOwn(inst, Top.seq)
  BY DEF ReadEnds
<1>2. Popped
  BY <1>1, PopFacts DEF HostInv
<1>3. NoNewScript /\ (InterpreterRunning' <=> InterpreterRunning)
  BY <1>1, <1>2, StackPopped DEF Popped, HostOps
<1>4. FlushedFrom(inst', inst) \/ inst' = inst
  BY <1>1, FlushInst DEF FlushedIfOwn
<1>5. \A i \in DOMAIN frames' :
        frames'[i].op \in {"invoke", "read"} => frames'[i].seq \in live
  BY <1>2 DEF HostInv, OwnersAlive, Popped
<1>6. inst.lifecycleBusy => InterpreterRunning
  BY <1>1, NotBusy
<1> QED  BY <1>1, <1>3, <1>4, <1>5, <1>6, HostFlushed

LEMMA LeaveForeignStep ==
  ASSUME HostInv, LeaveForeign
  PROVE  HostInv'
<1>1. /\ frames # <<>> /\ Top.op = "foreign" /\ frames' = Pop
      /\ UNCHANGED <<inst, live, bypassed>>
  BY DEF LeaveForeign
<1>2. Popped
  BY <1>1, PopFacts DEF HostInv
<1>3. NoNewScript /\ (InterpreterRunning' <=> InterpreterRunning)
  BY <1>1, <1>2, StackPopped DEF Popped, HostOps
<1>4. \A i \in DOMAIN frames' :
        frames'[i].op \in {"invoke", "read"} => frames'[i].seq \in live
  BY <1>2 DEF HostInv, OwnersAlive, Popped
<1>5. inst.lifecycleBusy => InterpreterRunning
  BY <1>1, NotBusy
<1> QED  BY <1>1, <1>3, <1>4, <1>5, HostFlushed

LEMMA EnterForeignStep ==
  ASSUME HostInv, NEW generation \in {0, 1}, EnterForeign(generation)
  PROVE  HostInv'
<1> DEFINE f == Frame("foreign", None)
<1>1. /\ HostTurn /\ (inst.lifecycleBusy => InterpreterRunning)
      /\ UNCHANGED <<inst, live, bypassed>>
      /\ Len(frames) < MaxFrames /\ frames' = Append(frames, f)
  BY DEF EnterForeign, Push
<1>2. /\ f \in FrameType /\ f.op = "foreign" /\ f.native /\ ~f.suspended /\ ~f.retain
      /\ f.generation = inst.generation
  <2>1. inst.generation \in {0, 1}
    BY FieldTypes DEF HostInv, TypeOK
  <2> QED  BY <2>1 DEF Frame, FrameType, HostOps
<1> HIDE DEF f
<1>3. Pushed(f)
  BY <1>1, <1>2, PushFacts DEF HostInv
<1>4. NoNewScript /\ (InterpreterRunning' <=> InterpreterRunning)
  BY <1>1, <1>2, <1>3, StackPushedHost DEF Pushed, HostOps
<1>5. \A i \in DOMAIN frames' :
        frames'[i].op \in {"invoke", "read"} => frames'[i].seq \in live
  <2> TAKE i \in DOMAIN frames'
  <2>1. i \in 1 .. Len(frames) \/ i = Len(frames) + 1
    BY <1>3 DEF Pushed
  <2>2. CASE i = Len(frames) + 1
    BY <1>2, <1>3, <2>2 DEF Pushed
  <2>3. CASE i \in 1 .. Len(frames)
    BY <1>3, <2>3 DEF Pushed, HostInv, OwnersAlive
  <2> QED  BY <2>1, <2>2, <2>3
<1> QED  BY <1>1, <1>4, <1>5, HostFlushed

LEMMA EnterNativeStep ==
  ASSUME HostInv, EnterNative
  PROVE  HostInv'
<1>1. /\ frames # <<>> /\ ~Top.native /\ UNCHANGED <<inst, live, bypassed>>
      /\ frames' = [frames EXCEPT ![Len(frames)].native = TRUE]
  BY DEF EnterNative, ScriptTurn
<1>2. Turned(TRUE)
  BY <1>1, TurnFacts DEF HostInv
<1>3. NoNewScript /\ (InterpreterRunning' <=> InterpreterRunning)
  BY <1>2, StackTurned DEF Turned
<1>4. \A i \in DOMAIN frames' :
        frames'[i].op \in {"invoke", "read"} => frames'[i].seq \in live
  BY <1>2 DEF Turned, HostInv, OwnersAlive
<1>5. inst.lifecycleBusy => InterpreterRunning
  BY <1>1, NotBusy
<1> QED  BY <1>1, <1>3, <1>4, <1>5, HostFlushed

LEMMA LeaveNativeStep ==
  ASSUME HostInv, LeaveNative
  PROVE  HostInv'
<1>1. /\ frames # <<>> /\ Top.op \notin HostOps /\ UNCHANGED <<live, bypassed>>
      /\ frames' = [frames EXCEPT ![Len(frames)].native = FALSE]
      /\ inst' = [inst EXCEPT !.slot = Local]
  BY DEF LeaveNative
<1>2. Turned(FALSE)
  BY <1>1, TurnFacts DEF HostInv
<1>3. NoNewScript /\ (InterpreterRunning' <=> InterpreterRunning)
  BY <1>1, <1>2, StackTurned DEF Turned
<1>4. \A i \in DOMAIN frames' :
        frames'[i].op \in {"invoke", "read"} => frames'[i].seq \in live'
  BY <1>1, <1>2 DEF Turned, HostInv, OwnersAlive
<1>5. InterpreterRunning
  <2>1. Len(frames) \in DOMAIN frames /\ frames[Len(frames)].op \notin HostOps
    BY <1>1, <1>2 DEF Turned
  <2> QED  BY <2>1 DEF InterpreterRunning
<1>6. inst \in InstType /\ LoanSound(inst)
  BY LoanOfInst
<1>7. /\ inst' \in InstType /\ inst'.slot = Local /\ inst'.main = inst.main
      /\ inst'.exec = inst.exec
  BY <1>1, <1>6 DEF InstType
<1>8. SameLife(inst', inst) /\ SameArmed(inst', inst)
  BY <1>1, <1>6 DEF InstType, SameLife, SameArmed
<1>9. SameStop(inst', inst) /\ SameLoan(inst', inst)
  BY <1>1, <1>6 DEF InstType, SameStop, SameLoan
<1>10. inst'.hostCallPending => inst'.pendingBegin = "Nested"
  BY <1>5, <1>9 DEF HostInv, RunSound, SameLoan
<1>11. LoanSound(inst')
  BY <1>6, <1>9 DEF LoanSound, SameLoan
<1>12. /\ live' \subseteq 1 .. inst'.callSeq /\ inst'.suspendedSeq <= inst'.callSeq
       /\ inst'.gone = inst.gone /\ inst'.generation = inst.generation
       /\ inst'.lifecycleBusy => InterpreterRunning' /\ inst.lifecycleBusy
       /\ \A s \in live' : s \in live \/ s > inst.callSeq
  BY <1>1, <1>3, <1>5, <1>8, <1>9 DEF HostInv, TypeOK, SameLife, SameStop
<1>13. /\ inst'.suspendedHostCall =>
            (inst'.suspendedResultOwnerAlive <=> inst'.suspendedSeq \in live')
       /\ ~inst'.suspendedHostCall =>
            inst'.suspendedSeq = None /\ ~inst'.suspendedResultOwnerAlive
       /\ inst'.suspendedHostCall = inst.suspendedHostCall
       /\ inst'.suspendedSeq = inst.suspendedSeq
  BY <1>1, <1>9 DEF HostInv, StopSound, SameStop
<1>14. /\ {inst'.armedSeq, inst'.pendingSeq} \subseteq live' \cup {None}
       /\ inst'.args \/ inst'.closure => inst'.armedSeq # None
       /\ inst'.main # "idle" => inst'.exec # None
  BY <1>1, <1>7, <1>8, <1>9 DEF HostInv, RunSound, OwnersAlive, ScratchOwned, SameArmed, SameLoan
<1>15. ~inst.gone
  BY <1>1, NotGone
<1> QED
  BY <1>1, <1>3, <1>4, <1>5, <1>7, <1>10, <1>11, <1>12, <1>13, <1>14, <1>15, HostStep

-----------------------------------------------------------------------------
(* The end of a run                                                        *)

\* A script at the top of the stack.
LEMMA TopScript ==
  ASSUME HostInv, ScriptTurn, Top.op \notin HostOps
  PROVE  /\ frames # <<>> /\ Len(frames) \in DOMAIN frames /\ Top = frames[Len(frames)]
         /\ Top \in FrameType /\ InterpreterRunning
         /\ inst.main = "busy" /\ inst.exec # None
         /\ inst.hostCallPending => inst.pendingBegin = "Nested"
<1>1. /\ frames # <<>> /\ Len(frames) \in DOMAIN frames /\ Top = frames[Len(frames)]
      /\ Top \in FrameType
  BY TopFacts DEF HostInv, ScriptTurn
<1>2. /\ InterpreterRunning /\ inst.main = "busy"
      /\ inst.hostCallPending => inst.pendingBegin = "Nested"
  BY <1>1, ScriptFrames
<1>3. inst.exec # None
  BY <1>2 DEF HostInv, RunSound
<1> QED  BY <1>1, <1>2, <1>3

\* The frame f of a run that ends knows whether it belongs to the stopped call.
EndingFrame(f, status) ==
  /\ f.retain \in BOOLEAN /\ f.suspended \in BOOLEAN /\ status \in Statuses
  /\ f.retain => f.suspended
  /\ f.suspended =>
       /\ f.op = "resume" /\ inst.suspendedHostCall /\ inst.suspendedSeq = f.seq
       /\ f.seq \in live => f.retain
       /\ ~bypassed => inst.exec = f.seq
  /\ ~bypassed /\ inst.suspendedHostCall => f.suspended

\* The record r is inst once the worker has settled that run.
EndingRecord(r, f, status) ==
  /\ r \in InstType
  /\ SameLife(r, inst) /\ SameArmed(r, inst) /\ SameCall(r, inst) /\ SameLoan(r, inst)
  /\ SameStop(r, inst)
  /\ status = "Suspended" => r.main = "stopped" /\ r.slot = Local /\ r.exec = inst.exec
  /\ status = "Completed" /\ f.retain =>
       r.main = "busy" /\ r.slot = inst.exec /\ r.exec = inst.exec
  /\ status # "Suspended" /\ ~(status = "Completed" /\ f.retain) => Idle(r)
  /\ LoanSound(r) /\ (r.hostCallPending => r.pendingBegin = "Nested")
  /\ f.suspended /\ r.suspendedResultOwnerAlive => f.seq \in live /\ f.seq \in Calls

\* The record q is r once the stopped call is settled, too; inst' is q.
EndingResult(q, r, f, status) ==
  /\ q \in InstType /\ LoanSound(q)
  /\ SameLife(q, r) /\ SameArmed(q, r)
  /\ ~f.suspended => q = r
  /\ f.suspended =>
       /\ q.callStatus = status /\ q.readers = {}
       /\ IF status = "Suspended" THEN SameStop(q, r)
          ELSE /\ ~q.suspendedHostCall /\ ~q.suspendedResultOwnerAlive
               /\ q.suspendedSeq = None
       /\ IF status = "Completed" /\ f.retain /\ r.suspendedResultOwnerAlive
          THEN /\ q.hostCallPending /\ q.pendingSeq = f.seq
               /\ q.pendingBegin = "Acquired"
          ELSE ~q.hostCallPending /\ q.pendingSeq = None
       /\ IF status = "Completed" /\ f.retain /\ ~r.suspendedResultOwnerAlive
             /\ r.main # "stopped"
          THEN Idle(q) ELSE SameContext(q, r)
  /\ inst' \in InstType /\ ~inst'.lifecycleBusy /\ inst'.gone = q.gone
  /\ inst'.generation = q.generation /\ inst'.callSeq = q.callSeq
  /\ SameContext(inst', q) /\ SameArmed(inst', q) /\ SameStop(inst', q)
  /\ SameCall(inst', q) /\ SameLoan(inst', q)

LEMMA RunEndsFacts ==
  ASSUME HostInv, NEW status \in {"Completed", "Suspended", "Failed"}, RunEnds(status)
  PROVE  LET f == Top
             r == Settled(inst, status, f.retain)
             q == Resumed(r, status, f)
         IN EndingFrame(f, status) /\ EndingRecord(r, f, status) /\ EndingResult(q, r, f, status)
<1> DEFINE f == Top
           r == Settled(inst, status, f.retain)
           q == Resumed(r, status, f)
<1>1. /\ ScriptTurn /\ f.op \in {"plain", "resume"} /\ frames' = Pop /\ UNCHANGED <<live, bypassed>>
      /\ inst' = [q EXCEPT !.lifecycleBusy = FALSE]
  BY DEF RunEnds
<1>2. /\ frames # <<>> /\ Len(frames) \in DOMAIN frames /\ f = frames[Len(frames)]
      /\ f \in FrameType /\ InterpreterRunning /\ inst.main = "busy" /\ inst.exec # None
      /\ inst.hostCallPending => inst.pendingBegin = "Nested"
  BY <1>1, TopScript DEF HostOps
<1>3. Popped
  BY <1>1, <1>2, PopFacts DEF HostInv
<1>4. NoNewScript /\ ~InterpreterRunning' /\ Lowest(Len(frames))
  BY <1>1, <1>2, <1>3, StackPopped DEF Popped, HostInv, FramesSound
<1>5. inst \in InstType /\ LoanSound(inst)
  BY LoanOfInst
<1>6. f.retain \in BOOLEAN /\ f.suspended \in BOOLEAN /\ status \in Statuses
  BY <1>2 DEF FrameType, Statuses
<1>7. /\ f.retain => f.suspended
      /\ f.suspended =>
           /\ f.op = "resume" /\ inst.suspendedHostCall /\ inst.suspendedSeq = f.seq
           /\ f.seq \in live => f.retain
           /\ ~bypassed => inst.exec = f.seq
  BY <1>2 DEF HostInv, StopSound
<1>8. ~bypassed /\ inst.suspendedHostCall => f.suspended
  <2> SUFFICES ASSUME ~bypassed, inst.suspendedHostCall PROVE f.suspended
    OBVIOUS
  <2>1. PICK i \in DOMAIN frames : frames[i].suspended
    BY <1>2 DEF HostInv, StopSound
  <2>2. frames[i].op = "resume" /\ Lowest(i)
    BY <2>1 DEF HostInv, StopSound, FramesSound
  <2>3. i = Len(frames)
    BY <1>1, <1>2, <1>4, <2>2, LowestUnique DEF HostOps
  <2> QED  BY <1>2, <2>1, <2>3
<1> HIDE DEF f
<1>9. /\ r \in InstType
      /\ SameLife(r, inst) /\ SameArmed(r, inst) /\ SameCall(r, inst) /\ SameLoan(r, inst)
      /\ SameStop(r, inst)
      /\ status = "Suspended" => r.main = "stopped" /\ r.slot = Local /\ r.exec = inst.exec
      /\ status = "Completed" /\ f.retain =>
           r.main = "busy" /\ r.slot = inst.exec /\ r.exec = inst.exec
      /\ status # "Suspended" /\ ~(status = "Completed" /\ f.retain) => Idle(r)
  BY <1>2, <1>5, <1>6, SettledFacts
<1> HIDE DEF r
<1>10. LoanSound(r) /\ (r.hostCallPending => r.pendingBegin = "Nested")
  BY <1>2, <1>5, <1>9 DEF LoanSound, SameLoan
<1>11. f.suspended /\ r.suspendedResultOwnerAlive => f.seq \in live /\ f.seq \in Calls
  <2> SUFFICES ASSUME f.suspended, r.suspendedResultOwnerAlive
               PROVE  f.seq \in live /\ f.seq \in Calls
    OBVIOUS
  <2>1. inst.suspendedResultOwnerAlive /\ inst.suspendedSeq = f.seq
    BY <1>7, <1>9 DEF SameStop
  <2>2. f.seq \in live
    BY <2>1 DEF HostInv, OwnersAlive
  <2>3. f.seq \in Calls
    BY <2>2, LiveCalls
  <2> QED  BY <2>2, <2>3
<1>12. LET lent == status = "Completed" /\ f.retain IN
         /\ q \in InstType /\ LoanSound(q)
         /\ SameLife(q, r) /\ SameArmed(q, r)
         /\ ~f.suspended => q = r
         /\ f.suspended =>
              /\ q.callStatus = status /\ q.readers = {}
              /\ IF status = "Suspended" THEN SameStop(q, r)
                 ELSE /\ ~q.suspendedHostCall /\ ~q.suspendedResultOwnerAlive
                      /\ q.suspendedSeq = None
              /\ IF status # "Suspended" /\ lent /\ r.suspendedResultOwnerAlive
                 THEN /\ q.hostCallPending /\ q.pendingSeq = f.seq
                      /\ q.pendingBegin = "Acquired"
                 ELSE ~q.hostCallPending /\ q.pendingSeq = None
              /\ IF status # "Suspended" /\ lent /\ ~r.suspendedResultOwnerAlive
                    /\ r.main # "stopped"
                 THEN Idle(q) ELSE SameContext(q, r)
  BY <1>2, <1>6, <1>9, <1>10, <1>11, ResumedFacts
<1> HIDE DEF q
<1>13. /\ inst' \in InstType /\ ~inst'.lifecycleBusy /\ inst'.gone = q.gone
       /\ inst'.generation = q.generation /\ inst'.callSeq = q.callSeq
  BY <1>1, <1>12 DEF InstType
<1>14. SameContext(inst', q) /\ SameArmed(inst', q) /\ SameStop(inst', q)
  BY <1>1, <1>12 DEF InstType, SameContext, SameArmed, SameStop
<1>15. SameCall(inst', q) /\ SameLoan(inst', q)
  BY <1>1, <1>12 DEF InstType, SameCall, SameLoan
<1>16. EndingFrame(f, status)
  BY <1>6, <1>7, <1>8 DEF EndingFrame
<1>17. EndingRecord(r, f, status)
  BY <1>9, <1>10, <1>11 DEF EndingRecord
<1>18. EndingResult(q, r, f, status)
  BY <1>12, <1>13, <1>14, <1>15 DEF EndingResult
<1> QED  BY <1>16, <1>17, <1>18 DEF q, r, f

LEMMA RunEndsStep ==
  ASSUME HostInv, NEW status \in {"Completed", "Suspended", "Failed"}, RunEnds(status)
  PROVE  HostInv'
<1> DEFINE f == Top
           r == Settled(inst, status, f.retain)
           q == Resumed(r, status, f)
<1>1. /\ ScriptTurn /\ f.op \in {"plain", "resume"} /\ frames' = Pop /\ UNCHANGED <<live, bypassed>>
      /\ inst' = [q EXCEPT !.lifecycleBusy = FALSE]
  BY DEF RunEnds
<1>2. /\ frames # <<>> /\ Len(frames) \in DOMAIN frames /\ f = frames[Len(frames)]
      /\ f \in FrameType /\ InterpreterRunning /\ inst.main = "busy" /\ inst.exec # None
      /\ inst.hostCallPending => inst.pendingBegin = "Nested"
  BY <1>1, TopScript DEF HostOps
<1>3. Popped
  BY <1>1, <1>2, PopFacts DEF HostInv
<1>4. NoNewScript /\ ~InterpreterRunning' /\ Lowest(Len(frames))
  BY <1>1, <1>2, <1>3, StackPopped DEF Popped, HostInv, FramesSound
<1>5. EndingFrame(f, status) /\ EndingRecord(r, f, status) /\ EndingResult(q, r, f, status)
  BY RunEndsFacts
<1> HIDE DEF f, r, q
<1>7. /\ f.retain => f.suspended
      /\ f.suspended =>
           /\ f.op = "resume" /\ inst.suspendedHostCall /\ inst.suspendedSeq = f.seq
           /\ f.seq \in live => f.retain
           /\ ~bypassed => inst.exec = f.seq
  BY <1>5 DEF EndingFrame
<1>8. ~bypassed /\ inst.suspendedHostCall => f.suspended
  BY <1>5 DEF EndingFrame
<1>9. /\ r \in InstType
      /\ SameLife(r, inst) /\ SameArmed(r, inst) /\ SameCall(r, inst) /\ SameLoan(r, inst)
      /\ SameStop(r, inst)
      /\ status = "Suspended" => r.main = "stopped" /\ r.slot = Local /\ r.exec = inst.exec
      /\ status = "Completed" /\ f.retain =>
           r.main = "busy" /\ r.slot = inst.exec /\ r.exec = inst.exec
      /\ status # "Suspended" /\ ~(status = "Completed" /\ f.retain) => Idle(r)
  BY <1>5 DEF EndingRecord
<1>10. LoanSound(r) /\ (r.hostCallPending => r.pendingBegin = "Nested")
  BY <1>5 DEF EndingRecord
<1>11. f.suspended /\ r.suspendedResultOwnerAlive => f.seq \in live /\ f.seq \in Calls
  BY <1>5 DEF EndingRecord
<1>12. LET lent == status = "Completed" /\ f.retain IN
         /\ q \in InstType /\ LoanSound(q)
         /\ SameLife(q, r) /\ SameArmed(q, r)
         /\ ~f.suspended => q = r
         /\ f.suspended =>
              /\ q.callStatus = status /\ q.readers = {}
              /\ IF status = "Suspended" THEN SameStop(q, r)
                 ELSE /\ ~q.suspendedHostCall /\ ~q.suspendedResultOwnerAlive
                      /\ q.suspendedSeq = None
              /\ IF lent /\ r.suspendedResultOwnerAlive
                 THEN /\ q.hostCallPending /\ q.pendingSeq = f.seq
                      /\ q.pendingBegin = "Acquired"
                 ELSE ~q.hostCallPending /\ q.pendingSeq = None
              /\ IF lent /\ ~r.suspendedResultOwnerAlive
                    /\ r.main # "stopped"
                 THEN Idle(q) ELSE SameContext(q, r)
  BY <1>5 DEF EndingResult
<1>13. /\ inst' \in InstType /\ ~inst'.lifecycleBusy /\ inst'.gone = q.gone
       /\ inst'.generation = q.generation /\ inst'.callSeq = q.callSeq
  BY <1>5 DEF EndingResult
<1>14. SameContext(inst', q) /\ SameArmed(inst', q) /\ SameStop(inst', q)
  BY <1>5 DEF EndingResult
<1>15. SameCall(inst', q) /\ SameLoan(inst', q)
  BY <1>5 DEF EndingResult
<1>16. LoanSound(inst')
  BY <1>12, <1>15 DEF LoanSound, SameLoan
<1>17. /\ inst'.gone = inst.gone /\ inst'.generation = inst.generation
       /\ inst'.callSeq = inst.callSeq
       /\ SameArmed(inst', inst)
  BY <1>9, <1>12, <1>13, <1>14 DEF SameLife, SameArmed
<1>18. \/ SameStop(inst', inst) /\ (f.suspended => status = "Suspended")
       \/ /\ ~inst'.suspendedHostCall /\ ~inst'.suspendedResultOwnerAlive
          /\ inst'.suspendedSeq = None
  BY <1>9, <1>12, <1>14 DEF SameStop
<1>19. \A i \in DOMAIN frames' :
         frames'[i].op \in {"invoke", "read"} => frames'[i].seq \in live'
  BY <1>1, <1>3 DEF HostInv, OwnersAlive, Popped
<1>20. live' \subseteq 1 .. inst'.callSeq /\ inst'.suspendedSeq <= inst'.callSeq
       /\ \A s \in live' : s \in live \/ s > inst.callSeq
  BY <1>1, <1>17, <1>18, SequenceNumbers DEF HostInv, TypeOK, SameStop, None
<1>21. inst'.suspendedHostCall =>
         (inst'.suspendedResultOwnerAlive <=> inst'.suspendedSeq \in live')
  BY <1>1, <1>18 DEF HostInv, StopSound, SameStop
<1>22. ~inst'.suspendedHostCall => inst'.suspendedSeq = None /\ ~inst'.suspendedResultOwnerAlive
  BY <1>18 DEF HostInv, StopSound, SameStop
<1>23. Idle(inst') \/ (inst'.main = r.main /\ inst'.exec = inst.exec /\ inst'.slot = r.slot)
  BY <1>9, <1>12, <1>14 DEF Idle, SameContext
<1>24. inst'.main # "idle" => inst'.exec # None
  BY <1>2, <1>23 DEF Idle
<1>25. ~bypassed /\ inst'.hostCallPending /\ inst'.callStatus = "Completed" =>
         inst'.slot \in {inst'.pendingSeq} \cup
                        (IF inst'.pendingBegin = "Acquired" THEN {} ELSE {Null, Local})
  <2> SUFFICES ASSUME ~bypassed, inst'.hostCallPending
               PROVE  inst'.slot \in {inst'.pendingSeq} \cup
                        (IF inst'.pendingBegin = "Acquired" THEN {} ELSE {Null, Local})
    OBVIOUS
  <2>1. CASE ~f.suspended
    <3>1. SameContext(inst', r) /\ inst'.pendingBegin = "Nested"
      BY <1>10, <1>12, <1>14, <1>15, <2>1 DEF SameLoan
    <3>2. r.slot \in {Null, Local}
      BY <1>7, <1>9, <2>1 DEF Idle
    <3> QED  BY <3>1, <3>2 DEF SameContext
  <2>2. CASE f.suspended
    <3>1. /\ status = "Completed" /\ f.retain /\ r.suspendedResultOwnerAlive
          /\ inst'.pendingSeq = f.seq
      BY <1>12, <1>15, <2>2 DEF SameLoan
    <3>2. SameContext(q, r) /\ r.slot = f.seq
      BY <1>7, <1>9, <1>12, <2>2, <3>1
    <3> QED  BY <1>14, <3>1, <3>2 DEF SameContext
  <2> QED  BY <2>1, <2>2
<1>26. ~bypassed =>
        /\ inst'.main = "busy" <=> inst'.hostCallPending /\ inst'.pendingBegin = "Acquired"
        /\ inst'.suspendedHostCall => inst'.main = "stopped" /\ inst'.exec = inst'.suspendedSeq
  <2> SUFFICES ASSUME ~bypassed
               PROVE
        /\ inst'.main = "busy" <=> inst'.hostCallPending /\ inst'.pendingBegin = "Acquired"
        /\ inst'.suspendedHostCall => inst'.main = "stopped" /\ inst'.exec = inst'.suspendedSeq
    OBVIOUS
  <2>1. CASE ~f.suspended
    <3>1. /\ SameContext(inst', r) /\ (inst'.hostCallPending => inst'.pendingBegin = "Nested")
          /\ SameStop(inst', r)
      BY <1>10, <1>12, <1>14, <1>15, <2>1 DEF SameLoan
    <3>2. r.main # "busy"
      BY <1>7, <1>9, <2>1 DEF Idle
    <3>3. ~inst.suspendedHostCall
      BY <1>8, <2>1
    <3> QED  BY <1>9, <3>1, <3>2, <3>3 DEF SameContext, SameStop
  <2>2. CASE f.suspended /\ status = "Suspended"
    <3>1. SameContext(inst', r) /\ SameStop(inst', r) /\ ~inst'.hostCallPending
      BY <1>12, <1>14, <1>15, <2>2 DEF SameContext, SameStop, SameLoan
    <3> QED  BY <1>7, <1>9, <2>2, <3>1 DEF SameContext, SameStop
  <2>3. CASE f.suspended /\ status # "Suspended"
    <3>1. ~inst'.suspendedHostCall
      BY <1>12, <1>14, <2>3 DEF SameStop
    <3>2. CASE status = "Completed" /\ f.retain /\ r.suspendedResultOwnerAlive
      <4>1. /\ inst'.hostCallPending /\ inst'.pendingBegin = "Acquired"
            /\ SameContext(q, r) /\ r.main = "busy"
        BY <1>9, <1>12, <1>15, <2>3, <3>2 DEF SameLoan
      <4> QED  BY <1>14, <3>1, <4>1 DEF SameContext
    <3>3. CASE ~(status = "Completed" /\ f.retain /\ r.suspendedResultOwnerAlive)
      <4>1. ~inst'.hostCallPending
        BY <1>12, <1>15, <2>3, <3>3 DEF SameLoan
      <4>2. Idle(q)
        BY <1>9, <1>12, <2>3, <3>3 DEF Idle, SameContext
      <4> QED  BY <1>14, <3>1, <4>1, <4>2 DEF SameContext, Idle
    <3> QED  BY <3>2, <3>3
  <2> QED  BY <2>1, <2>2, <2>3
<1>27. {inst'.armedSeq, inst'.pendingSeq} \subseteq live' \cup {None}
  <2>1. inst'.pendingSeq \in {inst.pendingSeq, None} \/ inst'.pendingSeq \in live
    BY <1>9, <1>11, <1>12, <1>15 DEF SameLoan
  <2> QED  BY <1>1, <1>17, <2>1 DEF HostInv, OwnersAlive, SameArmed
<1>28. inst'.args \/ inst'.closure => inst'.armedSeq # None
  BY <1>17 DEF HostInv, ScratchOwned, SameArmed
<1>29. inst'.main = "busy" => inst'.hostCallPending /\ inst'.pendingBegin = "Acquired"
  <2> SUFFICES ASSUME inst'.main = "busy"
               PROVE  inst'.hostCallPending /\ inst'.pendingBegin = "Acquired"
    OBVIOUS
  <2>1. ~Idle(inst') /\ r.main = "busy"
    BY <1>23 DEF Idle
  <2>2. status = "Completed" /\ f.retain /\ f.suspended
    BY <1>7, <1>9, <2>1 DEF Idle
  <2>3. r.suspendedResultOwnerAlive
    <3>1. ~Idle(q)
      BY <1>14, <2>1 DEF Idle, SameContext
    <3> QED  BY <1>12, <2>1, <2>2, <3>1
  <2> QED  BY <1>12, <1>15, <2>2, <2>3 DEF SameLoan
<1>30. ~inst.gone
  BY <1>2, NotGone
<1> QED
  BY <1>1, <1>4, <1>13, <1>16, <1>17, <1>19, <1>20, <1>21, <1>22, <1>24, <1>25, <1>26, <1>27,
     <1>28, <1>29, <1>30, HostStep

\* The record once an Invocation has run to its end, before it is read or dropped.
EndsAs(a, s, status) ==
  /\ a \in InstType /\ LoanSound(a) /\ a.readers = {} /\ a.callStatus = status
  /\ SameLife(a, inst) /\ SameArmed(a, inst)
  /\ a.exec = inst.exec
  /\ IF status = "Suspended"
     THEN /\ a.main = "stopped"
          /\ a.suspendedHostCall /\ a.suspendedResultOwnerAlive /\ a.suspendedSeq = s
          /\ ~a.hostCallPending /\ a.pendingSeq = None
     ELSE /\ a.main = "busy" /\ SameStop(a, inst)
          /\ a.hostCallPending /\ a.pendingSeq = s
  /\ status = "Completed" => a.slot = s
  /\ a.pendingSeq # None =>
       (a.pendingBegin = "Acquired" <=> ~InterpreterRunning')

LEMMA InvokeEndsFacts ==
  ASSUME HostInv, NEW status \in {"Completed", "Suspended", "Failed"}, ScriptTurn,
         Top.op = "invoke", status = "Suspended" => Outermost, Popped \/ \E f : Replaced(f),
         NEW r, r = CASE status = "Suspended" -> Settled(inst, status, TRUE)
                      [] status = "Completed" -> [inst EXCEPT !.slot = Top.seq]
                      [] OTHER                -> [inst EXCEPT !.slot = Local]
  PROVE  /\ EndsAs(Invoked(r, Top.seq, Top.begin, status), Top.seq, status)
         /\ Top.seq \in live /\ Top.seq \in Calls
         /\ status = "Suspended" => ~InterpreterRunning'
         /\ ~InterpreterRunning' => inst.exec = Top.seq
         /\ ~InterpreterRunning' => ~inst.lifecycleBusy
         /\ ~InterpreterRunning' /\ ~bypassed => ~inst.suspendedHostCall
<1> DEFINE s == Top.seq
           a == Invoked(r, Top.seq, Top.begin, status)
<1>1. /\ frames # <<>> /\ Len(frames) \in DOMAIN frames /\ Top = frames[Len(frames)]
      /\ Top \in FrameType /\ InterpreterRunning /\ inst.main = "busy" /\ inst.exec # None
      /\ inst.hostCallPending => inst.pendingBegin = "Nested"
  BY TopScript DEF HostOps
<1>2. s \in live /\ s \in Calls
  BY <1>1, LiveCalls DEF HostInv, OwnersAlive
<1>3. Lowest(Len(frames)) <=> ~InterpreterRunning'
  BY DEF Popped, Replaced
<1>4. Top.begin = "Acquired" <=> ~InterpreterRunning'
  BY <1>1, <1>3 DEF HostInv, FramesSound
<1>5. status = "Suspended" => ~InterpreterRunning'
  <2>1. Outermost <=> Lowest(Len(frames))
    BY DEF Outermost, Lowest
  <2> QED  BY <1>3, <2>1
<1>6. ~InterpreterRunning' => inst.exec = s
  BY <1>1, <1>3 DEF HostInv, RunSound
<1>7. ASSUME ~InterpreterRunning', NEW i \in DOMAIN frames, frames[i].op \in {"plain", "resume"}
      PROVE  FALSE
  <2>1. Lowest(i) /\ Lowest(Len(frames))
    BY <1>3, <1>7 DEF HostInv, FramesSound
  <2>2. i = Len(frames)
    BY <1>1, <1>7, <2>1, LowestUnique DEF HostOps
  <2> QED  BY <1>1, <1>7, <2>2
<1>8. ~InterpreterRunning' => ~inst.lifecycleBusy
  BY <1>1, <1>7 DEF HostInv, BusySound
<1>9. ~InterpreterRunning' /\ ~bypassed => ~inst.suspendedHostCall
  BY <1>1, <1>7 DEF HostInv, StopSound
<1>10. inst \in InstType /\ LoanSound(inst)
  BY LoanOfInst
<1>11. Top.begin \in {"Acquired", "Nested"} /\ status \in Statuses
  BY <1>1 DEF FrameType, Statuses
<1> HIDE DEF s, a
<1>12. /\ r \in InstType /\ r.exec = inst.exec
       /\ r.main = IF status = "Suspended" THEN "stopped" ELSE "busy"
       /\ status = "Completed" => r.slot = s
       /\ SameLife(r, inst) /\ SameArmed(r, inst) /\ SameLoan(r, inst) /\ SameStop(r, inst)
  <2>1. CASE status = "Suspended"
    <3>1. r = Settled(inst, status, TRUE)
      BY <2>1
    <3>2. /\ r \in InstType /\ r.main = "stopped" /\ r.exec = inst.exec
          /\ SameLife(r, inst) /\ SameArmed(r, inst) /\ SameLoan(r, inst) /\ SameStop(r, inst)
      <4>1. r = [inst EXCEPT !.main = "stopped", !.slot = Local]
        BY <2>1, <3>1 DEF Settled
      <4>2. r \in InstType /\ r.main = "stopped" /\ r.exec = inst.exec
        BY <1>10, <4>1 DEF InstType
      <4>3. SameLife(r, inst) /\ SameArmed(r, inst)
        BY <1>10, <4>1 DEF InstType, SameLife, SameArmed
      <4>4. SameLoan(r, inst) /\ SameStop(r, inst)
        BY <1>10, <4>1 DEF InstType, SameLoan, SameStop
      <4> QED  BY <4>2, <4>3, <4>4
    <3> QED  BY <2>1, <3>2
  <2>2. ASSUME NEW x \in Calls \cup {Local}, r = [inst EXCEPT !.slot = x]
        PROVE  /\ r \in InstType /\ r.exec = inst.exec /\ r.main = inst.main /\ r.slot = x
               /\ SameLife(r, inst) /\ SameArmed(r, inst) /\ SameLoan(r, inst)
               /\ SameStop(r, inst)
    <3>1. r \in InstType /\ r.exec = inst.exec /\ r.main = inst.main /\ r.slot = x
      BY <1>10, <2>2 DEF InstType
    <3>2. SameLife(r, inst) /\ SameArmed(r, inst)
      BY <1>10, <2>2 DEF InstType, SameLife, SameArmed
    <3>3. SameLoan(r, inst) /\ SameStop(r, inst)
      BY <1>10, <2>2 DEF InstType, SameLoan, SameStop
    <3> QED  BY <3>1, <3>2, <3>3
  <2>3. CASE status = "Completed"
    <3>1. r = [inst EXCEPT !.slot = s]
      BY <2>3 DEF s
    <3> QED  BY <1>1, <1>2, <2>2, <2>3, <3>1
  <2>4. CASE status = "Failed"
    <3>1. r = [inst EXCEPT !.slot = Local]
      BY <2>4
    <3> QED  BY <1>1, <2>2, <2>4, <3>1
  <2> QED  BY <2>1, <2>3, <2>4
<1>13. LoanSound(r) /\ (r.hostCallPending => r.pendingBegin = "Nested")
  BY <1>1, <1>10, <1>12 DEF LoanSound, SameLoan
<1>14. /\ a \in InstType /\ LoanSound(a) /\ a.readers = {} /\ a.callStatus = status
       /\ SameContext(a, r) /\ SameLife(a, r) /\ SameArmed(a, r)
       /\ IF status = "Suspended"
          THEN a.suspendedHostCall /\ a.suspendedResultOwnerAlive /\ a.suspendedSeq = s
          ELSE SameStop(a, r)
       /\ IF status # "Suspended"
          THEN a.hostCallPending /\ a.pendingSeq = s /\ a.pendingBegin = Top.begin
          ELSE ~a.hostCallPending /\ a.pendingSeq = None
  <2>1. InvokedAs(Invoked(r, s, Top.begin, status), r, s, Top.begin, status)
    BY <1>2, <1>11, <1>12, <1>13, InvokedFacts
  <2>2. a = Invoked(r, s, Top.begin, status)
    BY DEF a, s
  <2>3. InvokedAs(a, r, s, Top.begin, status)
    BY <2>1, <2>2
  <2> QED  BY <1>11, <2>3 DEF InvokedAs
<1>15. SameLife(a, inst) /\ SameArmed(a, inst) /\ a.exec = inst.exec
  BY <1>12, <1>14 DEF SameLife, SameArmed, SameContext
<1>16. IF status = "Suspended"
       THEN /\ a.main = "stopped"
            /\ a.suspendedHostCall /\ a.suspendedResultOwnerAlive /\ a.suspendedSeq = s
            /\ ~a.hostCallPending /\ a.pendingSeq = None
       ELSE /\ a.main = "busy" /\ SameStop(a, inst)
            /\ a.hostCallPending /\ a.pendingSeq = s
  BY <1>12, <1>14 DEF SameContext, SameStop
<1>17. status = "Completed" => a.slot = s
  BY <1>12, <1>14 DEF SameContext
<1>18. a.pendingSeq # None => (a.pendingBegin = "Acquired" <=> ~InterpreterRunning')
  BY <1>4, <1>14
<1>19. EndsAs(a, s, status)
  BY <1>14, <1>15, <1>16, <1>17, <1>18 DEF EndsAs
<1> QED  BY <1>2, <1>5, <1>6, <1>8, <1>9, <1>19 DEF a, s

\* The same once the Invocation has been dropped at its end.
LEMMA InvokeDropped ==
  ASSUME NEW a, NEW s \in Calls, NEW status \in {"Completed", "Suspended", "Failed"},
         EndsAs(a, s, status), status = "Suspended" => ~InterpreterRunning'
  PROVE  LET q == FlushedIfOwn(a, s) IN
         /\ q \in InstType /\ LoanSound(q) /\ ~q.hostCallPending /\ q.pendingSeq = None
         /\ SameLife(q, inst) /\ SameArmed(q, inst)
         /\ IF status = "Suspended"
            THEN /\ q.main = "stopped" /\ q.exec = inst.exec
                 /\ q.suspendedHostCall /\ q.suspendedResultOwnerAlive /\ q.suspendedSeq = s
            ELSE /\ IF InterpreterRunning' THEN q.main = "busy" /\ q.exec = inst.exec ELSE Idle(q)
                 /\ SameStop(q, inst)
<1> DEFINE q == FlushedIfOwn(a, s)
<1>1. CASE status = "Suspended"
  <2>1. q = a
    BY <1>1, Numbers DEF FlushedIfOwn, EndsAs
  <2> HIDE DEF q
  <2> QED  BY <1>1, <2>1 DEF EndsAs, q
<1>2. CASE status # "Suspended"
  <2>1. q = Flushed(a) /\ a \in InstType /\ LoanSound(a) /\ a.hostCallPending /\ a.pendingSeq # None
    BY <1>2, Numbers DEF FlushedIfOwn, EndsAs
  <2> HIDE DEF q
  <2>2. /\ q \in InstType /\ LoanSound(q)
        /\ ~q.hostCallPending /\ q.pendingSeq = None
        /\ IF a.hostCallPending /\ a.pendingBegin = "Acquired" /\ a.main # "stopped"
           THEN Idle(q) ELSE SameContext(q, a)
        /\ SameLife(q, a) /\ SameArmed(q, a) /\ SameStop(q, a)
    BY <2>1, FlushedFacts
  <2>3. SameLife(q, inst) /\ SameArmed(q, inst) /\ SameStop(q, inst)
    BY <1>2, <2>2 DEF EndsAs, SameLife, SameArmed, SameStop
  <2>4. IF InterpreterRunning' THEN q.main = "busy" /\ q.exec = inst.exec ELSE Idle(q)
    BY <1>2, <2>1, <2>2 DEF EndsAs, SameContext
  <2> QED  BY <1>2, <2>2, <2>3, <2>4 DEF q
<1> QED  BY <1>1, <1>2

LEMMA InvokeEndsStep ==
  ASSUME HostInv, NEW status \in {"Completed", "Suspended", "Failed"}, InvokeEnds(status)
  PROVE  HostInv'
<1> DEFINE s == Top.seq
           r == CASE status = "Suspended" -> Settled(inst, status, TRUE)
                  [] status = "Completed" -> [inst EXCEPT !.slot = Top.seq]
                  [] OTHER                -> [inst EXCEPT !.slot = Local]
           a == Invoked(r, Top.seq, Top.begin, status)
           f == Frame("read", Top.seq)
<1>1. /\ ScriptTurn /\ Top.op = "invoke" /\ (status = "Suspended" => Outermost)
      /\ UNCHANGED <<live, bypassed>>
      /\ \/ inst' = a /\ frames' = Pop
         \/ inst' = FlushedIfOwn(a, s) /\ frames' = Pop
         \/ /\ status = "Completed" /\ inst' = [a EXCEPT !.readers = {s}]
            /\ frames' = Append(Pop, f)
  BY DEF InvokeEnds
<1>2. frames # <<>> /\ Top \in FrameType
  BY <1>1, TopScript DEF HostOps
<1>3. /\ f \in FrameType /\ f.op = "read" /\ f.native /\ ~f.suspended /\ ~f.retain
      /\ f.generation = inst.generation /\ f.seq = s
  <2>1. inst.generation \in {0, 1} /\ Top.seq \in Calls \cup {None}
    BY <1>2, FieldTypes DEF HostInv, TypeOK, FrameType
  <2> QED  BY <2>1 DEF Frame, FrameType, HostOps
<1> HIDE DEF f
<1>4. Popped \/ Replaced(f)
  BY <1>1, <1>2, <1>3, PopFacts, ReplaceFacts DEF HostInv, HostOps
<1>5. NoNewScript
  BY <1>3, <1>4, StackPopped, StackReplaced DEF HostOps
<1>6. r = CASE status = "Suspended" -> Settled(inst, status, TRUE)
            [] status = "Completed" -> [inst EXCEPT !.slot = Top.seq]
            [] OTHER                -> [inst EXCEPT !.slot = Local]
  OBVIOUS
<1> HIDE DEF r
<1>7. /\ EndsAs(a, s, status) /\ s \in live /\ s \in Calls
      /\ status = "Suspended" => ~InterpreterRunning'
      /\ ~InterpreterRunning' => inst.exec = s
      /\ ~InterpreterRunning' => ~inst.lifecycleBusy
      /\ ~InterpreterRunning' /\ ~bypassed => ~inst.suspendedHostCall
  BY <1>1, <1>4, <1>6, InvokeEndsFacts
<1> HIDE DEF a, s
<1>8. \A i \in DOMAIN frames' :
        frames'[i].op \in {"invoke", "read"} => frames'[i].seq \in live
  <2> TAKE i \in DOMAIN frames'
  <2>1. CASE i \in DOMAIN frames /\ frames'[i] = frames[i]
    BY <2>1 DEF HostInv, OwnersAlive
  <2>2. CASE frames'[i] = f
    BY <1>3, <1>7, <2>2
  <2>3. (i \in DOMAIN frames /\ frames'[i] = frames[i]) \/ frames'[i] = f
    <3>1. CASE Popped
      BY <3>1 DEF Popped
    <3>2. CASE Replaced(f)
      <4>1. i \in 1 .. Len(frames) - 1 \/ i = Len(frames)
        BY <3>2 DEF Replaced
      <4> QED  BY <3>2, <4>1 DEF Replaced
    <3> QED  BY <1>4, <3>1, <3>2
  <2> QED  BY <2>1, <2>2, <2>3
<1>9. InterpreterRunning /\ inst.main = "busy"
  BY <1>1, TopScript DEF HostOps
<1>10. /\ inst.callSeq \in Nat /\ inst.suspendedSeq <= inst.callSeq
       /\ live \subseteq 1 .. inst.callSeq
  BY SequenceNumbers DEF HostInv, TypeOK
<1>11. s <= inst.callSeq
  BY <1>7, <1>10
\* What the three cases have in common.
<1>12. ASSUME inst' \in InstType, LoanSound(inst'),
              SameLife(inst', inst), SameArmed(inst', inst),
              IF status = "Suspended"
              THEN /\ inst'.main = "stopped" /\ inst'.exec = inst.exec
                   /\ inst'.suspendedHostCall /\ inst'.suspendedResultOwnerAlive
                   /\ inst'.suspendedSeq = s /\ ~inst'.hostCallPending
              ELSE /\ IF InterpreterRunning' THEN inst'.main = "busy" /\ inst'.exec = inst.exec
                      ELSE Idle(inst') \/ (inst'.main = "busy" /\ inst'.exec = inst.exec)
                   /\ SameStop(inst', inst),
              inst'.hostCallPending =>
                /\ inst'.pendingSeq = s /\ status # "Suspended" /\ inst'.main = "busy"
                /\ inst'.pendingBegin = "Acquired" <=> ~InterpreterRunning'
                /\ inst'.callStatus = "Completed" => inst'.slot = s,
              inst'.main = "busy" /\ ~InterpreterRunning' => inst'.hostCallPending
       PROVE  HostInv'
  <2>1. inst'.suspendedSeq <= inst'.callSeq /\ live' \subseteq 1 .. inst'.callSeq
        /\ inst'.gone = inst.gone /\ inst'.generation = inst.generation
        /\ \A t \in live' : t \in live \/ t > inst.callSeq
    BY <1>1, <1>10, <1>11, <1>12 DEF SameLife, SameStop
  <2>2. inst'.lifecycleBusy => InterpreterRunning' /\ inst.lifecycleBusy
    BY <1>7, <1>12 DEF SameLife
  <2>3. inst'.pendingBegin \in {"Acquired", "Nested"}
    BY <1>12, FieldTypes
  <2>4. InterpreterRunning' =>
           /\ inst'.main = inst.main /\ inst'.exec = inst.exec
           /\ inst'.hostCallPending => inst'.pendingBegin = "Nested"
           /\ inst'.suspendedHostCall = inst.suspendedHostCall
           /\ inst'.suspendedSeq = inst.suspendedSeq
    BY <1>7, <1>9, <1>12, <2>3 DEF SameStop
  <2>5. inst.exec # None
    BY <1>9 DEF HostInv, RunSound
  <2>6. inst'.main # "idle" => inst'.exec # None
    BY <1>12, <2>5 DEF Idle
  <2>7. /\ inst'.suspendedHostCall =>
             (inst'.suspendedResultOwnerAlive <=> inst'.suspendedSeq \in live')
        /\ ~inst'.suspendedHostCall =>
             inst'.suspendedSeq = None /\ ~inst'.suspendedResultOwnerAlive
    <3>1. CASE status = "Suspended"
      BY <1>1, <1>7, <1>12, <3>1
    <3>2. CASE status # "Suspended"
      BY <1>1, <1>12, <3>2 DEF HostInv, StopSound, SameStop
    <3> QED  BY <3>1, <3>2
  <2>8. ~bypassed /\ inst'.hostCallPending /\ inst'.callStatus = "Completed" =>
           inst'.slot \in {inst'.pendingSeq} \cup
                          (IF inst'.pendingBegin = "Acquired" THEN {} ELSE {Null, Local})
    BY <1>12
  <2>9. ~bypassed /\ ~InterpreterRunning' =>
           /\ inst'.main = "busy" <=> inst'.hostCallPending /\ inst'.pendingBegin = "Acquired"
           /\ inst'.suspendedHostCall => inst'.main = "stopped" /\ inst'.exec = inst'.suspendedSeq
    <3> SUFFICES ASSUME ~bypassed, ~InterpreterRunning'
                 PROVE
           /\ inst'.main = "busy" <=> inst'.hostCallPending /\ inst'.pendingBegin = "Acquired"
           /\ inst'.suspendedHostCall => inst'.main = "stopped" /\ inst'.exec = inst'.suspendedSeq
      OBVIOUS
    <3>1. inst'.main = "busy" <=> inst'.hostCallPending /\ inst'.pendingBegin = "Acquired"
      BY <1>12
    <3>2. CASE status = "Suspended"
      BY <1>7, <1>12, <3>1, <3>2
    <3>3. CASE status # "Suspended"
      BY <1>7, <1>12, <3>1, <3>3 DEF SameStop
    <3> QED  BY <3>2, <3>3
  <2>10. {inst'.armedSeq, inst'.pendingSeq} \subseteq live' \cup {None}
    <3>1. inst'.pendingSeq \in {s, None}
      BY <1>12 DEF LoanSound
    <3>2. inst'.armedSeq = inst.armedSeq /\ inst.armedSeq \in live \cup {None}
      BY <1>12 DEF HostInv, OwnersAlive, SameArmed
    <3> QED  BY <1>1, <1>7, <3>1, <3>2
  <2>11. inst'.args \/ inst'.closure => inst'.armedSeq # None
    BY <1>12 DEF HostInv, ScratchOwned, SameArmed
  <2>12. \A i \in DOMAIN frames' :
           frames'[i].op \in {"invoke", "read"} => frames'[i].seq \in live'
    BY <1>1, <1>8
  <2>13. ~inst.gone
    BY <1>2, NotGone
  <2> QED
    BY <1>1, <1>5, <1>12, <2>1, <2>2, <2>4, <2>6, <2>7, <2>8, <2>9, <2>10, <2>11, <2>12, <2>13,
       HostStep
<1>13. CASE inst' = a
  BY <1>7, <1>12, <1>13 DEF EndsAs, LoanSound
<1>14. CASE inst' = FlushedIfOwn(a, s)
  <2>1. /\ inst' \in InstType /\ LoanSound(inst') /\ ~inst'.hostCallPending
        /\ SameLife(inst', inst) /\ SameArmed(inst', inst)
        /\ IF status = "Suspended"
           THEN /\ inst'.main = "stopped" /\ inst'.exec = inst.exec
                /\ inst'.suspendedHostCall /\ inst'.suspendedResultOwnerAlive
                /\ inst'.suspendedSeq = s
           ELSE /\ IF InterpreterRunning' THEN inst'.main = "busy" /\ inst'.exec = inst.exec
                   ELSE Idle(inst')
                /\ SameStop(inst', inst)
    BY <1>7, <1>14, InvokeDropped
  <2> QED  BY <1>7, <1>12, <2>1 DEF Idle
<1>15. CASE status = "Completed" /\ inst' = [a EXCEPT !.readers = {s}]
  <2>1. a \in InstType
    BY <1>7 DEF EndsAs
  <2>2. inst' \in InstType /\ inst'.readers = {s} /\ inst'.callStatus = a.callStatus
    BY <1>7, <1>15, <2>1 DEF InstType
  <2>3. SameContext(inst', a) /\ SameLife(inst', a)
    BY <1>15, <2>1 DEF InstType, SameContext, SameLife
  <2>4. SameArmed(inst', a) /\ SameStop(inst', a)
    BY <1>15, <2>1 DEF InstType, SameArmed, SameStop
  <2>5. /\ inst'.hostCallPending = a.hostCallPending /\ inst'.pendingSeq = a.pendingSeq
        /\ inst'.pendingBegin = a.pendingBegin
    BY <1>15, <2>1 DEF InstType
  <2>6. LoanSound(inst')
    BY <1>7, <1>15, <2>2, <2>5 DEF LoanSound, EndsAs
  <2>7. SameLife(inst', inst) /\ SameArmed(inst', inst) /\ SameStop(inst', inst)
    BY <1>7, <1>15, <2>3, <2>4 DEF EndsAs, SameLife, SameArmed, SameStop
  <2>8. /\ inst'.main = "busy" /\ inst'.exec = inst.exec /\ inst'.slot = s
        /\ inst'.hostCallPending /\ inst'.pendingSeq = s
        /\ inst'.pendingBegin = "Acquired" <=> ~InterpreterRunning'
    BY <1>7, <1>15, <2>3, <2>5 DEF EndsAs, SameContext, LoanSound
  <2> QED  BY <1>12, <1>15, <2>2, <2>6, <2>7, <2>8
<1> QED  BY <1>1, <1>13, <1>14, <1>15

-----------------------------------------------------------------------------
(* Steps that start a run                                                  *)

\* A record from which what was prepared has been taken.
LEMMA UnarmedFacts ==
  ASSUME NEW q \in InstType
  PROVE  LET r == [q EXCEPT !.armedSeq = None, !.args = FALSE, !.closure = FALSE] IN
         /\ r \in InstType /\ r.armedSeq = None /\ ~r.args /\ ~r.closure
         /\ SameContext(r, q) /\ SameLife(r, q) /\ SameCall(r, q) /\ SameLoan(r, q)
         /\ SameStop(r, q)
<1> DEFINE r == [q EXCEPT !.armedSeq = None, !.args = FALSE, !.closure = FALSE]
<1>1. r \in InstType
  BY DEF InstType
<1>2. r.armedSeq = None /\ ~r.args /\ ~r.closure
  BY DEF InstType
<1>3. SameContext(r, q) /\ SameLife(r, q)
  BY DEF InstType, SameContext, SameLife
<1>4. SameCall(r, q) /\ SameLoan(r, q) /\ SameStop(r, q)
  BY DEF InstType, SameCall, SameLoan, SameStop
<1> QED  BY <1>1, <1>2, <1>3, <1>4

\* Taking a result back that is not on an acquired context.
LEMMA TakenBackFacts ==
  ASSUME NEW a \in InstType, NEW s \in Calls, LoanSound(a),
         a.hostCallPending => a.pendingBegin = "Nested"
  PROVE  LET q == FlushedIfOwn(a, s) IN
         /\ q \in InstType /\ LoanSound(q)
         /\ SameContext(q, a) /\ SameLife(q, a) /\ SameArmed(q, a) /\ SameCall(q, a)
         /\ SameStop(q, a)
         /\ \/ ~q.hostCallPending /\ q.pendingSeq = None
            \/ q.hostCallPending = a.hostCallPending /\ q.pendingSeq = a.pendingSeq
               /\ q.pendingBegin = a.pendingBegin
<1>1. CASE a.pendingSeq = s
  <2>1. FlushedIfOwn(a, s) = Flushed(a)
    BY <1>1 DEF FlushedIfOwn
  <2> QED  BY <2>1, FlushedFacts
<1>2. CASE a.pendingSeq # s
  <2>1. FlushedIfOwn(a, s) = a
    BY <1>2 DEF FlushedIfOwn
  <2> QED  BY <2>1 DEF SameContext, SameLife, SameArmed, SameCall, SameStop
<1> QED  BY <1>1, <1>2

\* The call is refused: the main context is held by a stop or by the script below.
LEMMA InvokeRefusedStep ==
  ASSUME HostInv, NEW s \in Calls, s \in live, inst.armedSeq = s,
         NEW b \in {"Nested", "Suspended"}, NEW r, NEW safe,
         r = [Flushed(inst) EXCEPT !.armedSeq = None, !.args = FALSE, !.closure = FALSE],
         b = "Suspended" => r.main = "stopped",
         b = "Nested" => r.main \notin {"stopped", "idle"},
         inst' = LET a == Invoked(r, s, b, "Failed") IN
                   IF safe = "no" THEN a ELSE FlushedIfOwn(a, s),
         UNCHANGED <<frames, live, bypassed>>
  PROVE  HostInv'
<1> DEFINE q == Flushed(inst)
           a == Invoked(r, s, b, "Failed")
<1>1. FlushedFrom(q, inst)
  BY FlushInst
<1> HIDE DEF q
<1>2. /\ r \in InstType /\ r.armedSeq = None /\ ~r.args /\ ~r.closure
      /\ SameContext(r, q) /\ SameLife(r, q) /\ SameLoan(r, q) /\ SameStop(r, q)
  BY <1>1, UnarmedFacts DEF FlushedFrom, q
<1>3. ~r.hostCallPending /\ LoanSound(r)
  BY <1>1, <1>2 DEF FlushedFrom, SameLoan, LoanSound
<1>4. InvokedAs(a, r, s, b, "Failed")
  BY <1>2, <1>3, InvokedFacts DEF Statuses
<1>5. inst' = IF safe = "no" THEN a ELSE FlushedIfOwn(a, s)
  OBVIOUS
<1> HIDE DEF a
<1>6. /\ a \in InstType /\ LoanSound(a) /\ a.callStatus = "Failed"
      /\ SameContext(a, r) /\ SameLife(a, r) /\ SameArmed(a, r) /\ SameStop(a, r)
      /\ a.hostCallPending => a.pendingBegin = "Nested" /\ b = "Nested" /\ a.pendingSeq = s
      /\ ~a.hostCallPending => a.pendingSeq = None
  BY <1>4 DEF InvokedAs
<1>7. /\ inst' \in InstType /\ LoanSound(inst')
      /\ SameContext(inst', a) /\ SameLife(inst', a) /\ SameArmed(inst', a)
      /\ SameCall(inst', a) /\ SameStop(inst', a)
      /\ \/ ~inst'.hostCallPending /\ inst'.pendingSeq = None
         \/ inst'.hostCallPending = a.hostCallPending /\ inst'.pendingSeq = a.pendingSeq
            /\ inst'.pendingBegin = a.pendingBegin
  <2>1. CASE safe = "no"
    BY <1>5, <1>6, <2>1 DEF SameContext, SameLife, SameArmed, SameCall, SameStop
  <2>2. CASE safe # "no"
    BY <1>5, <1>6, <2>2, TakenBackFacts
  <2> QED  BY <2>1, <2>2
<1>8. /\ SameLife(inst', inst) /\ SameStop(inst', inst)
      /\ inst'.armedSeq = None /\ ~inst'.args /\ ~inst'.closure
      /\ SameContext(inst', q) /\ SameContext(inst', r)
      /\ inst'.callStatus = "Failed"
  <2>1. SameLife(inst', inst)
    BY <1>1, <1>2, <1>6, <1>7 DEF FlushedFrom, SameLife
  <2>2. SameStop(inst', inst)
    BY <1>1, <1>2, <1>6, <1>7 DEF FlushedFrom, SameStop
  <2>3. inst'.armedSeq = None /\ ~inst'.args /\ ~inst'.closure /\ inst'.callStatus = "Failed"
    BY <1>2, <1>6, <1>7 DEF SameArmed, SameCall
  <2>4. SameContext(inst', q) /\ SameContext(inst', r)
    BY <1>2, <1>6, <1>7 DEF SameContext
  <2> QED  BY <2>1, <2>2, <2>3, <2>4
<1>9. /\ inst'.hostCallPending => inst'.pendingBegin = "Nested" /\ b = "Nested" /\ inst'.pendingSeq = s
      /\ ~inst'.hostCallPending => inst'.pendingSeq = None
  BY <1>6, <1>7
<1>10. /\ Idle(q) \/ SameContext(q, inst)
       /\ InterpreterRunning => SameContext(q, inst)
       /\ inst.main = "stopped" => SameContext(q, inst)
       /\ ~InterpreterRunning => q.main # "busy"
  BY <1>1 DEF FlushedFrom
<1>11. /\ live' \subseteq 1 .. inst'.callSeq /\ inst'.suspendedSeq <= inst'.callSeq
       /\ inst'.gone = inst.gone /\ inst'.generation = inst.generation
       /\ \A t \in live' : t \in live \/ t > inst.callSeq
  BY <1>8 DEF HostInv, TypeOK, SameLife, SameStop
<1>12. inst'.lifecycleBusy => InterpreterRunning /\ inst.lifecycleBusy
  BY <1>8, NotBusy DEF SameLife
<1>13. \A i \in DOMAIN frames : frames[i].op \in {"invoke", "read"} => frames[i].seq \in live'
  BY DEF HostInv, OwnersAlive
<1>14. InterpreterRunning =>
         /\ SameContext(inst', inst) /\ (inst'.hostCallPending => inst'.pendingBegin = "Nested")
         /\ inst'.suspendedHostCall = inst.suspendedHostCall
         /\ inst'.suspendedSeq = inst.suspendedSeq
  BY <1>8, <1>9, <1>10 DEF SameContext, SameStop
<1>15. inst'.main # "idle" => inst'.exec # None
  BY <1>8, <1>10 DEF HostInv, RunSound, SameContext, Idle
<1>16. /\ inst'.suspendedHostCall =>
            (inst'.suspendedResultOwnerAlive <=> inst'.suspendedSeq \in live')
       /\ ~inst'.suspendedHostCall =>
            inst'.suspendedSeq = None /\ ~inst'.suspendedResultOwnerAlive
  BY <1>8 DEF HostInv, StopSound, SameStop
<1>17. ~(inst'.hostCallPending /\ inst'.callStatus = "Completed")
  BY <1>8
<1>18. ~bypassed /\ ~InterpreterRunning =>
         /\ inst'.main = "busy" <=> inst'.hostCallPending /\ inst'.pendingBegin = "Acquired"
         /\ inst'.suspendedHostCall => inst'.main = "stopped" /\ inst'.exec = inst'.suspendedSeq
  BY <1>8, <1>9, <1>10 DEF HostInv, ContextAccounted, SameContext, SameStop
<1>19. {inst'.armedSeq, inst'.pendingSeq} \subseteq live' \cup {None}
  BY <1>8, <1>9
<1>20. ~InterpreterRunning => inst'.main # "busy"
  BY <1>8, <1>10 DEF SameContext
<1>21. ~inst.gone
  BY NotGone
<1> QED
  BY <1>7, <1>8, <1>11, <1>12, <1>13, <1>14, <1>15, <1>16, <1>17, <1>18, <1>19, <1>20, <1>21,
     KeptStep

\* The frame of a script that the host starts.
LEMMA NewFrameFacts ==
  ASSUME HostInv, NEW op \in {"plain", "resume", "invoke"}, NEW seq \in Calls \cup {None}
  PROVE  LET g == Frame(op, seq) IN
         /\ g \in FrameType /\ g.op = op /\ g.seq = seq /\ ~g.native /\ g.begin = "Acquired"
         /\ ~g.retain /\ ~g.suspended /\ g.safe = "no" /\ g.generation = inst.generation
<1>1. inst.generation \in {0, 1}
  BY FieldTypes DEF HostInv, TypeOK
<1>2. op \notin HostOps
  BY DEF HostOps
<1> DEFINE b == op \in HostOps
<1>4. b = FALSE
  BY <1>2
<1>3. Frame(op, seq) = [op |-> op, seq |-> seq, native |-> b, begin |-> "Acquired",
                        retain |-> FALSE, suspended |-> FALSE, safe |-> "no",
                        generation |-> inst.generation]
  BY DEF Frame
<1> HIDE DEF b
<1>5. Frame(op, seq) = [op |-> op, seq |-> seq, native |-> FALSE, begin |-> "Acquired",
                        retain |-> FALSE, suspended |-> FALSE, safe |-> "no",
                        generation |-> inst.generation]
  BY <1>3, <1>4
<1>6. Frame(op, seq) \in FrameType
  BY <1>1, <1>5 DEF FrameType
<1> QED  BY <1>5, <1>6

LEMMA ResumeFrameFacts ==
  ASSUME HostInv
  PROVE  /\ ResumeFrame \in FrameType /\ ResumeFrame.op = "resume" /\ ~ResumeFrame.native
         /\ ResumeFrame.seq = inst.suspendedSeq
         /\ ResumeFrame.suspended = inst.suspendedHostCall
         /\ ResumeFrame.retain = (inst.suspendedHostCall /\ inst.suspendedResultOwnerAlive)
         /\ ResumeFrame.generation = inst.generation
<1>1. /\ inst.suspendedSeq \in Calls \cup {None} /\ inst.generation \in {0, 1}
      /\ inst.suspendedHostCall \in BOOLEAN /\ inst.suspendedResultOwnerAlive \in BOOLEAN
  BY FieldTypes DEF HostInv, TypeOK
<1> DEFINE g == Frame("resume", inst.suspendedSeq)
           b == inst.suspendedHostCall /\ inst.suspendedResultOwnerAlive
<1>2. /\ g \in FrameType /\ g.op = "resume" /\ ~g.native /\ g.seq = inst.suspendedSeq
      /\ g.generation = inst.generation
  BY <1>1, NewFrameFacts
<1>3. ResumeFrame = [g EXCEPT !.suspended = inst.suspendedHostCall, !.retain = b]
  BY DEF ResumeFrame
<1>4. b \in BOOLEAN
  OBVIOUS
<1> HIDE DEF g, b
<1>5. ResumeFrame \in FrameType
  BY <1>1, <1>2, <1>3, <1>4 DEF FrameType
<1>6. /\ ResumeFrame.op = g.op /\ ResumeFrame.native = g.native /\ ResumeFrame.seq = g.seq
      /\ ResumeFrame.generation = g.generation
  BY <1>2, <1>3 DEF FrameType
<1>7. ResumeFrame.suspended = inst.suspendedHostCall /\ ResumeFrame.retain = b
  BY <1>2, <1>3 DEF FrameType
<1> QED  BY <1>2, <1>5, <1>6, <1>7 DEF b

\* On an idle worker there is nothing to resume: a stopped call that the debugger has
\* run out from under its Invocation is settled as if it had completed.
LEMMA ResumeIdleStep ==
  ASSUME HostInv, MayRun, ~inst.hostCallPending, inst.main = "idle",
         inst' = Resumed(inst, "Completed", ResumeFrame), UNCHANGED <<live, frames, bypassed>>
  PROVE  HostInv'
<1>1. inst \in InstType /\ LoanSound(inst) /\ inst.suspendedSeq \in Calls \cup {None}
  BY LoanOfInst, FieldTypes DEF HostInv
<1>2. ~InterpreterRunning /\ ~inst.lifecycleBusy
  BY DEF MayRun
<1>3. CASE ~inst.suspendedHostCall
  <2>1. inst' = inst
    BY <1>3, ResumeFrameFacts DEF Resumed
  <2>2. NoNewScript /\ (InterpreterRunning' <=> InterpreterRunning)
    BY StackKept
  <2>3. \A i \in DOMAIN frames' :
          frames'[i].op \in {"invoke", "read"} => frames'[i].seq \in live
    BY DEF HostInv, OwnersAlive
  <2> QED  BY <1>2, <2>1, <2>2, <2>3, HostFlushed
<1>4. CASE inst.suspendedHostCall
  <2>1. bypassed
    BY <1>2, <1>4 DEF HostInv, ContextAccounted
  <2>2. inst.suspendedResultOwnerAlive => inst.suspendedSeq \in live /\ inst.suspendedSeq # None
    BY LiveCalls, Numbers DEF HostInv, OwnersAlive
  <2> DEFINE q == Resumed(inst, "Completed", ResumeFrame)
  <2>3. /\ q \in InstType /\ LoanSound(q) /\ SameLife(q, inst) /\ SameArmed(q, inst)
        /\ ~q.suspendedHostCall /\ ~q.suspendedResultOwnerAlive /\ q.suspendedSeq = None
        /\ IF inst.suspendedResultOwnerAlive
           THEN q.hostCallPending /\ q.pendingSeq = inst.suspendedSeq
           ELSE ~q.hostCallPending /\ q.pendingSeq = None
        /\ Idle(q) \/ SameContext(q, inst)
    <3>1. /\ q \in InstType /\ LoanSound(q) /\ SameLife(q, inst) /\ SameArmed(q, inst)
          /\ ~q.suspendedHostCall /\ ~q.suspendedResultOwnerAlive /\ q.suspendedSeq = None
          /\ IF ResumeFrame.retain /\ inst.suspendedResultOwnerAlive
             THEN q.hostCallPending /\ q.pendingSeq = ResumeFrame.seq
             ELSE ~q.hostCallPending /\ q.pendingSeq = None
          /\ Idle(q) \/ SameContext(q, inst)
      BY <1>1, <1>4, <2>2, ResumeFrameFacts, ResumedFacts DEF Statuses
    <3> HIDE DEF q
    <3> QED  BY <1>4, <3>1, ResumeFrameFacts
  <2>4. inst' = q
    OBVIOUS
  <2> HIDE DEF q
  <2>5. /\ live' \subseteq 1 .. inst'.callSeq
        /\ inst'.gone = inst.gone /\ inst'.generation = inst.generation /\ ~inst'.lifecycleBusy
        /\ \A t \in live' : t \in live \/ t > inst.callSeq
    BY <1>2, <2>3, <2>4 DEF HostInv, TypeOK, SameLife
  <2>6. inst'.suspendedSeq <= inst'.callSeq
    BY <2>3, <2>4, SequenceNumbers DEF SameLife, None
  <2>7. inst'.main # "idle" => inst'.exec # None
    BY <2>3, <2>4 DEF Idle, SameContext
  <2>8. \A i \in DOMAIN frames : frames[i].op \in {"invoke", "read"} => frames[i].seq \in live'
    BY DEF HostInv, OwnersAlive
  <2>9. {inst'.armedSeq, inst'.pendingSeq} \subseteq live' \cup {None}
    BY <2>2, <2>3, <2>4 DEF HostInv, OwnersAlive, SameArmed
  <2>10. inst'.args \/ inst'.closure => inst'.armedSeq # None
    BY <2>3, <2>4 DEF HostInv, ScratchOwned, SameArmed
  <2>11. inst'.main # "busy"
    BY <2>3, <2>4 DEF Idle, SameContext
  <2>12. ~inst.gone
    BY <1>2, NotGone
  <2> QED
    BY <1>2, <2>1, <2>3, <2>4, <2>5, <2>6, <2>7, <2>8, <2>9, <2>10, <2>11, <2>12, KeptStep
<1> QED  BY <1>3, <1>4

\* What a handler has to show that starts a run.
LEMMA StartStep ==
  ASSUME HostInv, HostTurn, NEW f \in FrameType, Pushed(f), f.op \notin HostOps,
         f.generation = inst.generation, bypassed' \in BOOLEAN, bypassed => bypassed',
         inst' \in InstType, LoanSound(inst'), inst'.main = "busy", inst'.exec # None,
         ~inst'.hostCallPending, live' = live, SameLife(inst', inst), SameStop(inst', inst),
         inst'.armedSeq \in live \cup {None},
         inst'.args \/ inst'.closure => inst'.armedSeq # None,
         InterpreterRunning => inst'.exec = inst.exec,
         f.op \in {"plain", "resume"} => ~InterpreterRunning,
         f.op = "invoke" =>
           /\ f.seq \in live
           /\ f.begin = "Acquired" <=> ~InterpreterRunning
           /\ ~InterpreterRunning => inst'.exec = f.seq,
         f.retain => f.suspended,
         f.suspended =>
           /\ f.op = "resume" /\ inst.suspendedHostCall /\ inst.suspendedSeq = f.seq
           /\ f.seq \in live => f.retain
           /\ ~bypassed' => inst'.exec = f.seq,
         ~bypassed' /\ ~InterpreterRunning /\ inst.suspendedHostCall => f.suspended,
         inst.lifecycleBusy => InterpreterRunning \/ f.op = "plain"
  PROVE  HostInv'
<1>1. /\ frames' \in Seq(FrameType) /\ Len(frames') <= MaxFrames /\ InterpreterRunning'
      /\ \A i \in DOMAIN frames' : i \in 1 .. Len(frames) \/ i = Len(frames) + 1
      /\ \A i \in DOMAIN frames :
           i \in DOMAIN frames' /\ frames'[i] = frames[i] /\ (Lowest(i)' <=> Lowest(i))
      /\ Len(frames) + 1 \in DOMAIN frames' /\ frames'[Len(frames) + 1] = f
      /\ \A i : i = Len(frames) + 1 => (Lowest(i)' <=> ~InterpreterRunning)
      /\ DOMAIN frames = 1 .. Len(frames)
  BY DEF Pushed
<1>2. inst'.pendingSeq = None /\ inst'.readers = {}
  BY DEF LoanSound
<1>3. TypeOK'
  <2>1. live' \subseteq 1 .. inst'.callSeq /\ inst'.suspendedSeq <= inst'.callSeq
    BY DEF HostInv, TypeOK, SameLife, SameStop
  <2> QED  BY <1>1, <1>2, <2>1 DEF TypeOK
<1>4. FramesSound'
  BY FramesPushed
<1>5. RunSound'
  <2>1. ASSUME NEW i \in DOMAIN frames', frames'[i].op = "invoke", Lowest(i)'
        PROVE  inst'.exec = frames'[i].seq
    <3>1. CASE i \in DOMAIN frames
      <4>1. frames[i].op = "invoke" /\ Lowest(i) /\ frames'[i] = frames[i]
        BY <1>1, <2>1, <3>1
      <4>2. InterpreterRunning
        BY <3>1, <4>1 DEF InterpreterRunning, HostOps
      <4> QED  BY <3>1, <4>1, <4>2 DEF HostInv, RunSound
    <3>2. CASE i = Len(frames) + 1
      BY <1>1, <2>1, <3>2
    <3> QED  BY <1>1, <3>1, <3>2
  <2> QED  BY <2>1 DEF RunSound
<1>6. StopSound'
  <2>1. ASSUME NEW i \in DOMAIN frames'
        PROVE  /\ frames'[i].retain => frames'[i].suspended
               /\ frames'[i].suspended =>
                    /\ frames'[i].op = "resume"
                    /\ inst'.suspendedHostCall /\ inst'.suspendedSeq = frames'[i].seq
                    /\ frames'[i].seq \in live' => frames'[i].retain
                    /\ ~bypassed' => inst'.exec = frames'[i].seq
    <3>1. CASE i \in DOMAIN frames
      <4>1. /\ frames[i].retain => frames[i].suspended
            /\ frames[i].suspended =>
                 /\ frames[i].op = "resume" /\ inst.suspendedHostCall
                 /\ inst.suspendedSeq = frames[i].seq
                 /\ frames[i].seq \in live => frames[i].retain
                 /\ ~bypassed => inst.exec = frames[i].seq
        BY <3>1 DEF HostInv, StopSound
      <4>2. frames[i].op = "resume" => InterpreterRunning
        BY <3>1 DEF InterpreterRunning, HostOps
      <4>3. frames'[i] = frames[i]
        BY <1>1, <3>1
      <4> QED  BY <4>1, <4>2, <4>3 DEF SameStop
    <3>2. CASE i = Len(frames) + 1
      <4>1. frames'[i] = f
        BY <1>1, <3>2
      <4> QED  BY <4>1 DEF SameStop
    <3> QED  BY <1>1, <3>1, <3>2
  <2>2. ASSUME ~bypassed', inst'.suspendedHostCall
        PROVE  \E i \in DOMAIN frames' : frames'[i].suspended
    <3>1. CASE InterpreterRunning
      <4>1. \E i \in DOMAIN frames : frames[i].suspended
        BY <2>2, <3>1 DEF HostInv, StopSound, SameStop
      <4> QED  BY <1>1, <4>1
    <3>2. CASE ~InterpreterRunning
      BY <1>1, <2>2, <3>2 DEF SameStop
    <3> QED  BY <3>1, <3>2
  <2>3. /\ inst'.suspendedHostCall =>
             (inst'.suspendedResultOwnerAlive <=> inst'.suspendedSeq \in live')
        /\ ~inst'.suspendedHostCall =>
             inst'.suspendedSeq = None /\ ~inst'.suspendedResultOwnerAlive
    BY DEF HostInv, StopSound, SameStop
  <2> QED  BY <2>1, <2>2, <2>3 DEF StopSound
<1>7. LendSound'
  BY <1>2 DEF LendSound
<1>8. BusySound'
  <2> SUFFICES ASSUME inst'.lifecycleBusy
               PROVE  \E i \in DOMAIN frames' : frames'[i].op = "plain"
    BY <1>1 DEF BusySound, HostTurn, SameLife
  <2>1. inst.lifecycleBusy
    BY DEF SameLife
  <2>2. CASE InterpreterRunning
    <3>1. \E i \in DOMAIN frames : frames[i].op = "plain"
      BY <2>1, <2>2 DEF HostInv, BusySound
    <3> QED  BY <1>1, <3>1
  <2>3. CASE f.op = "plain"
    BY <1>1, <2>3
  <2> QED  BY <2>1, <2>2, <2>3
<1>9. ContextAccounted'
  BY <1>1 DEF ContextAccounted
<1>10. OwnersAlive'
  <2>1. ASSUME NEW i \in DOMAIN frames'
        PROVE  /\ frames'[i].generation = inst'.generation /\ ~inst'.gone
               /\ frames'[i].op \in {"invoke", "read"} => frames'[i].seq \in live'
    <3>1. ~inst'.gone /\ inst'.generation = inst.generation
      BY DEF HostTurn, SameLife
    <3>2. CASE i \in DOMAIN frames
      BY <1>1, <3>1, <3>2 DEF HostInv, OwnersAlive
    <3>3. CASE i = Len(frames) + 1
      BY <1>1, <3>1, <3>3 DEF HostOps
    <3> QED  BY <1>1, <3>2, <3>3
  <2>2. inst'.suspendedResultOwnerAlive => inst'.suspendedSeq \in live'
    BY DEF HostInv, OwnersAlive, SameStop
  <2> QED  BY <1>2, <2>1, <2>2 DEF OwnersAlive
<1>11. ScratchOwned'
  BY DEF ScratchOwned
<1> QED
  BY <1>3, <1>4, <1>5, <1>6, <1>7, <1>8, <1>9, <1>10, <1>11 DEF HostInv

\* The record q is r with the worker running the run e.
RunsAs(q, r, e) ==
  /\ q \in InstType /\ LoanSound(q) /\ q.main = "busy" /\ q.exec = e
  /\ SameLife(q, r) /\ SameArmed(q, r) /\ SameLoan(q, r) /\ SameStop(q, r)

LEMMA RunsOn ==
  ASSUME NEW r \in InstType, LoanSound(r)
  PROVE  RunsAs([r EXCEPT !.main = "busy", !.slot = Local], r, r.exec)
<1> DEFINE q == [r EXCEPT !.main = "busy", !.slot = Local]
<1>1. q \in InstType /\ q.main = "busy" /\ q.exec = r.exec
  BY DEF InstType
<1>2. SameLife(q, r) /\ SameArmed(q, r)
  BY DEF InstType, SameLife, SameArmed
<1>3. SameLoan(q, r) /\ SameStop(q, r)
  BY DEF InstType, SameLoan, SameStop
<1>4. LoanSound(q)
  BY <1>3 DEF LoanSound, SameLoan
<1> QED  BY <1>1, <1>2, <1>3, <1>4 DEF RunsAs

LEMMA RunsNested ==
  ASSUME NEW r \in InstType, LoanSound(r), r.main = "busy"
  PROVE  RunsAs([r EXCEPT !.slot = Local], r, r.exec)
<1> DEFINE q == [r EXCEPT !.slot = Local]
<1>1. q \in InstType /\ q.main = "busy" /\ q.exec = r.exec
  BY DEF InstType
<1>2. SameLife(q, r) /\ SameArmed(q, r)
  BY DEF InstType, SameLife, SameArmed
<1>3. SameLoan(q, r) /\ SameStop(q, r)
  BY DEF InstType, SameLoan, SameStop
<1>4. LoanSound(q)
  BY <1>3 DEF LoanSound, SameLoan
<1> QED  BY <1>1, <1>2, <1>3, <1>4 DEF RunsAs

LEMMA RunsAnew ==
  ASSUME NEW r \in InstType, LoanSound(r), NEW e \in Calls \cup {Sliced}
  PROVE  RunsAs([r EXCEPT !.main = "busy", !.exec = e, !.slot = Local], r, e)
<1> DEFINE q == [r EXCEPT !.main = "busy", !.exec = e, !.slot = Local]
<1>1. q \in InstType /\ q.main = "busy" /\ q.exec = e
  BY DEF InstType
<1>2. SameLife(q, r) /\ SameArmed(q, r)
  BY DEF InstType, SameLife, SameArmed
<1>3. SameLoan(q, r) /\ SameStop(q, r)
  BY DEF InstType, SameLoan, SameStop
<1>4. LoanSound(q)
  BY <1>3 DEF LoanSound, SameLoan
<1> QED  BY <1>1, <1>2, <1>3, <1>4 DEF RunsAs

\* The record before a call: flushed, and with nothing prepared any more.
TakenFrom(r) ==
  /\ r \in InstType /\ LoanSound(r) /\ ~r.hostCallPending
  /\ r.armedSeq = None /\ ~r.args /\ ~r.closure
  /\ SameLife(r, inst) /\ SameStop(r, inst)
  /\ InterpreterRunning => r.main = "busy" /\ r.exec = inst.exec
  /\ inst.main = "stopped" => r.main = "stopped"
  /\ ~InterpreterRunning => r.main # "busy"

LEMMA InvokeTakes ==
  ASSUME HostInv
  PROVE  TakenFrom([Flushed(inst) EXCEPT !.armedSeq = None, !.args = FALSE, !.closure = FALSE])
<1> DEFINE q == Flushed(inst)
           r == [q EXCEPT !.armedSeq = None, !.args = FALSE, !.closure = FALSE]
<1>1. FlushedFrom(q, inst)
  BY FlushInst
<1> HIDE DEF q
<1>2. /\ r \in InstType /\ r.armedSeq = None /\ ~r.args /\ ~r.closure
      /\ SameContext(r, q) /\ SameLife(r, q) /\ SameLoan(r, q) /\ SameStop(r, q)
  BY <1>1, UnarmedFacts DEF FlushedFrom
<1> HIDE DEF r
<1>3. ~r.hostCallPending /\ LoanSound(r)
  BY <1>1, <1>2 DEF FlushedFrom, SameLoan, LoanSound
<1>4. SameLife(r, inst) /\ SameStop(r, inst)
  BY <1>1, <1>2 DEF FlushedFrom, SameLife, SameStop
<1>5. /\ InterpreterRunning => r.main = "busy" /\ r.exec = inst.exec
      /\ inst.main = "stopped" => r.main = "stopped"
      /\ ~InterpreterRunning => r.main # "busy"
  BY <1>1, <1>2 DEF HostInv, RunSound, FlushedFrom, SameContext
<1> QED  BY <1>2, <1>3, <1>4, <1>5 DEF TakenFrom, r, q

LEMMA InvokeRunsStep ==
  ASSUME HostInv, HostTurn, NEW s \in Calls, s \in live, NEW r, TakenFrom(r),
         r.main # "stopped", NEW b \in {"Acquired", "Nested"}, b = "Acquired" <=> r.main = "idle",
         NEW safe \in {"no", "scalar", "read"},
         inst' = IF b = "Acquired" THEN [r EXCEPT !.main = "busy", !.exec = s, !.slot = Local]
                 ELSE [r EXCEPT !.slot = Local],
         Push([Frame("invoke", s) EXCEPT !.begin = b, !.safe = safe]),
         UNCHANGED <<live, bypassed>>
  PROVE  HostInv'
<1> DEFINE g == Frame("invoke", s)
           f == [g EXCEPT !.begin = b, !.safe = safe]
<1>1. /\ g \in FrameType /\ g.op = "invoke" /\ g.seq = s /\ ~g.retain /\ ~g.suspended
      /\ g.generation = inst.generation
  BY NewFrameFacts
<1>2. Len(frames) < MaxFrames /\ frames' = Append(frames, f)
  BY DEF Push
<1> HIDE DEF g
<1>3. f \in FrameType /\ f.begin = b
  BY <1>1 DEF FrameType
<1>4. /\ f.op = "invoke" /\ f.seq = s /\ ~f.retain /\ ~f.suspended
      /\ f.generation = inst.generation
  BY <1>1 DEF FrameType
<1> HIDE DEF f
<1>5. Pushed(f)
  BY <1>2, <1>3, PushFacts DEF HostInv
<1>6. /\ r \in InstType /\ LoanSound(r) /\ ~r.hostCallPending
      /\ r.armedSeq = None /\ ~r.args /\ ~r.closure
      /\ SameLife(r, inst) /\ SameStop(r, inst)
      /\ InterpreterRunning => r.main = "busy" /\ r.exec = inst.exec
      /\ inst.main = "stopped" => r.main = "stopped"
      /\ ~InterpreterRunning => r.main # "busy"
  BY DEF TakenFrom
<1>7. b = "Acquired" <=> ~InterpreterRunning
  BY <1>6, FieldTypes
<1>14. RunsAs(inst', r, IF b = "Acquired" THEN s ELSE r.exec)
  <2>1. CASE b = "Acquired"
    <3>1. inst' = [r EXCEPT !.main = "busy", !.exec = s, !.slot = Local]
      BY <2>1
    <3>2. s \in Calls \cup {Sliced}
      OBVIOUS
    <3>3. RunsAs([r EXCEPT !.main = "busy", !.exec = s, !.slot = Local], r, s)
      BY <1>6, <3>2, RunsAnew
    <3>4. RunsAs(inst', r, s)
      BY <3>1, <3>3
    <3> QED  BY <2>1, <3>4
  <2>2. CASE b # "Acquired"
    <3>1. inst' = [r EXCEPT !.slot = Local]
      BY <2>2
    <3>2. r.main = "busy"
      BY <1>6, <1>7, <2>2
    <3> QED  BY <1>6, <2>2, <3>1, <3>2, RunsNested
  <2> QED  BY <2>1, <2>2
<1>8. /\ inst' \in InstType /\ LoanSound(inst') /\ inst'.main = "busy"
      /\ inst'.exec = IF b = "Acquired" THEN s ELSE r.exec
      /\ SameLife(inst', r) /\ SameArmed(inst', r) /\ SameLoan(inst', r) /\ SameStop(inst', r)
  BY <1>14 DEF RunsAs
<1>9. /\ SameLife(inst', inst) /\ SameStop(inst', inst)
      /\ inst'.armedSeq = None /\ ~inst'.args /\ ~inst'.closure /\ ~inst'.hostCallPending
  <2>1. SameLife(inst', inst) /\ SameStop(inst', inst)
    BY <1>6, <1>8 DEF SameLife, SameStop
  <2> QED  BY <1>6, <1>8, <2>1 DEF SameArmed, SameLoan
<1>10. /\ InterpreterRunning => inst'.exec = inst.exec
       /\ ~InterpreterRunning => inst'.exec = s
       /\ inst'.exec # None
  <2>1. s # None
    BY Numbers
  <2>2. InterpreterRunning => inst.exec # None
    BY DEF HostInv, RunSound
  <2> QED  BY <1>6, <1>7, <1>8, <2>1, <2>2
<1>11. ~bypassed /\ ~InterpreterRunning => ~inst.suspendedHostCall
  BY <1>6 DEF HostInv, ContextAccounted
<1>12. inst.lifecycleBusy => InterpreterRunning
  BY NotBusy
<1>13. bypassed' \in BOOLEAN /\ (bypassed => bypassed') /\ f.op \notin HostOps
       /\ f.op \notin {"plain", "resume"}
  BY <1>4 DEF HostInv, TypeOK, HostOps
<1> QED
  BY <1>3, <1>4, <1>5, <1>7, <1>8, <1>9, <1>10, <1>11, <1>12, <1>13, StartStep

LEMMA InvokeStep ==
  ASSUME HostInv, NEW s \in Calls, NEW safe \in {"no", "scalar", "read"}, NEW refused \in BOOLEAN,
         Invoke(s, safe, refused)
  PROVE  HostInv'
<1> DEFINE r == [Flushed(inst) EXCEPT !.armedSeq = None, !.args = FALSE, !.closure = FALSE]
           b == CASE r.main = "stopped" -> "Suspended"
                  [] r.main = "idle"    -> "Acquired"
                  [] OTHER              -> "Nested"
<1>1. TakenFrom(r)
  BY InvokeTakes
<1>2. /\ HostTurn /\ s \in live /\ inst.armedSeq = s /\ UNCHANGED <<live, bypassed>>
      /\ \/ /\ b = "Suspended" \/ (b = "Nested" /\ refused)
            /\ inst' = LET a == Invoked(r, s, b, "Failed") IN
                         IF safe = "no" THEN a ELSE FlushedIfOwn(a, s)
            /\ UNCHANGED frames
         \/ /\ b # "Suspended" /\ ~refused
            /\ inst' = IF b = "Acquired"
                       THEN [r EXCEPT !.main = "busy", !.exec = s, !.slot = Local]
                       ELSE [r EXCEPT !.slot = Local]
            /\ Push([Frame("invoke", s) EXCEPT !.begin = b, !.safe = safe])
  BY DEF Invoke
<1>3. /\ b = "Suspended" <=> r.main = "stopped"
      /\ b = "Acquired" <=> r.main = "idle"
      /\ b \in {"Suspended", "Acquired", "Nested"}
  OBVIOUS
<1>4. r = [Flushed(inst) EXCEPT !.armedSeq = None, !.args = FALSE, !.closure = FALSE]
  OBVIOUS
<1> HIDE DEF r, b
<1>5. CASE b = "Suspended" \/ (b = "Nested" /\ refused)
  <2>1. /\ b \in {"Nested", "Suspended"} /\ UNCHANGED <<frames, live, bypassed>>
        /\ inst' = LET a == Invoked(r, s, b, "Failed") IN
                     IF safe = "no" THEN a ELSE FlushedIfOwn(a, s)
    BY <1>2, <1>5
  <2>2. /\ b = "Suspended" => r.main = "stopped"
        /\ b = "Nested" => r.main \notin {"stopped", "idle"}
    BY <1>3
  <2> QED  BY <1>2, <1>4, <2>1, <2>2, InvokeRefusedStep
<1>6. CASE ~(b = "Suspended" \/ (b = "Nested" /\ refused))
  <2>1. /\ b \in {"Nested", "Acquired"} /\ UNCHANGED <<live, bypassed>>
        /\ inst' = IF b = "Acquired"
                   THEN [r EXCEPT !.main = "busy", !.exec = s, !.slot = Local]
                   ELSE [r EXCEPT !.slot = Local]
        /\ Push([Frame("invoke", s) EXCEPT !.begin = b, !.safe = safe])
    BY <1>2, <1>3, <1>6
  <2>2. r.main # "stopped" /\ (b = "Acquired" <=> r.main = "idle")
    BY <1>3, <1>6
  <2> QED  BY <1>1, <1>2, <2>1, <2>2, InvokeRunsStep
<1> QED  BY <1>5, <1>6

\* A run without an Invocation starts.
LEMMA ExecuteTopStep ==
  ASSUME HostInv, HostTurn, ~InterpreterRunning, NEW r \in InstType, LoanSound(r),
         ~r.hostCallPending, SameLife(r, inst), SameArmed(r, inst), SameStop(r, inst),
         ExecuteTop(r), UNCHANGED <<live, bypassed>>, ~bypassed => ~inst.suspendedHostCall
  PROVE  HostInv'
<1> DEFINE f == Frame("plain", None)
<1>1. /\ f \in FrameType /\ f.op = "plain" /\ ~f.retain /\ ~f.suspended
      /\ f.generation = inst.generation
  BY NewFrameFacts
<1>2. Len(frames) < MaxFrames /\ frames' = Append(frames, f)
      /\ inst' = [r EXCEPT !.main = "busy", !.exec = Sliced, !.slot = Local]
  BY DEF ExecuteTop, Push
<1> HIDE DEF f
<1>3. Pushed(f)
  BY <1>1, <1>2, PushFacts DEF HostInv
<1>4. RunsAs(inst', r, Sliced)
  BY <1>2, RunsAnew
<1>5. /\ inst' \in InstType /\ LoanSound(inst') /\ inst'.main = "busy" /\ inst'.exec # None
      /\ ~inst'.hostCallPending
  BY <1>4, Numbers DEF RunsAs, SameLoan
<1>6. SameLife(inst', inst) /\ SameStop(inst', inst) /\ SameArmed(inst', inst)
  BY <1>4 DEF RunsAs, SameLife, SameStop, SameArmed
<1>7. /\ inst'.armedSeq \in live \cup {None}
      /\ inst'.args \/ inst'.closure => inst'.armedSeq # None
  BY <1>6 DEF HostInv, OwnersAlive, ScratchOwned, SameArmed
<1>8. bypassed' \in BOOLEAN /\ (bypassed => bypassed') /\ f.op \notin HostOps
       /\ f.op # "invoke" /\ live' = live /\ (~bypassed' => ~inst.suspendedHostCall)
  BY <1>1 DEF HostInv, TypeOK, HostOps
<1> QED  BY <1>1, <1>3, <1>5, <1>6, <1>7, <1>8, StartStep

LEMMA StartTopStep ==
  ASSUME HostInv, NEW found \in BOOLEAN, StartTop(found)
  PROVE  HostInv'
<1> DEFINE r == Flushed(inst)
<1>1. /\ HostTurn /\ MayRun /\ UNCHANGED <<live, bypassed>>
      /\ IF r.main = "idle" /\ found THEN ExecuteTop(r) ELSE inst' = r /\ UNCHANGED frames
  BY DEF StartTop
<1>2. FlushedFrom(r, inst)
  BY FlushInst
<1>3. CASE r.main = "idle" /\ found
  <2>1. ExecuteTop(r)
    BY <1>1, <1>3
  <2> HIDE DEF r
  <2>2. ~bypassed => ~inst.suspendedHostCall
    BY <1>1, <1>2, <1>3 DEF MayRun, HostInv, ContextAccounted, FlushedFrom, SameContext
  <2>3. /\ r \in InstType /\ LoanSound(r) /\ ~r.hostCallPending /\ SameLife(r, inst)
        /\ SameArmed(r, inst) /\ SameStop(r, inst)
    BY <1>2 DEF FlushedFrom
  <2> QED  BY <1>1, <2>1, <2>2, <2>3, ExecuteTopStep DEF MayRun
<1>4. CASE ~(r.main = "idle" /\ found)
  BY <1>1, <1>4, GiveWay
<1> QED  BY <1>3, <1>4

LEMMA LoadRunsStep ==
  ASSUME HostInv, LoadRuns
  PROVE  HostInv'
<1>1. /\ HostTurn /\ inst.lifecycleBusy /\ ~InterpreterRunning /\ ExecuteTop(inst)
      /\ UNCHANGED <<live, bypassed>>
  BY DEF LoadRuns
<1>2. ~inst.hostCallPending /\ ~inst.suspendedHostCall
  BY <1>1 DEF HostInv, BusySound
<1>3. SameLife(inst, inst) /\ SameArmed(inst, inst) /\ SameStop(inst, inst)
  BY DEF SameLife, SameArmed, SameStop
<1> QED  BY <1>1, <1>2, <1>3, LoanOfInst, ExecuteTopStep

\* A stopped run goes on, with the frame f.
LEMMA GoesOnStep ==
  ASSUME HostInv, HostTurn, ~InterpreterRunning, inst.main # "idle", ~inst.hostCallPending,
         inst' = [inst EXCEPT !.main = "busy", !.slot = Local],
         NEW f \in FrameType, Push(f), live' = live, f.op \in {"plain", "resume"},
         f.generation = inst.generation, bypassed' \in BOOLEAN, bypassed => bypassed',
         f.retain => f.suspended,
         f.suspended =>
           /\ f.op = "resume" /\ inst.suspendedHostCall /\ inst.suspendedSeq = f.seq
           /\ f.seq \in live => f.retain,
         ~bypassed' /\ inst.suspendedHostCall => f.suspended,
         inst.lifecycleBusy => f.op = "plain"
  PROVE  HostInv'
<1>1. Pushed(f)
  BY PushFacts DEF Push, HostInv
<1>2. RunsAs(inst', inst, inst.exec)
  BY LoanOfInst, RunsOn
<1>3. /\ inst' \in InstType /\ LoanSound(inst') /\ inst'.main = "busy" /\ inst'.exec = inst.exec
      /\ ~inst'.hostCallPending
      /\ SameLife(inst', inst) /\ SameStop(inst', inst) /\ SameArmed(inst', inst)
  BY <1>2 DEF RunsAs, SameLoan
<1>4. inst'.exec # None
  BY <1>3 DEF HostInv, RunSound
<1>5. /\ inst'.armedSeq \in live \cup {None}
      /\ inst'.args \/ inst'.closure => inst'.armedSeq # None
  BY <1>3 DEF HostInv, OwnersAlive, ScratchOwned, SameArmed
<1>6. f.suspended /\ ~bypassed' => inst'.exec = f.seq
  BY <1>3 DEF HostInv, ContextAccounted
<1>7. f.op \notin HostOps /\ f.op # "invoke"
  BY DEF HostOps
<1> QED  BY <1>1, <1>3, <1>4, <1>5, <1>6, <1>7, StartStep

LEMMA ResumeFrameStep ==
  ASSUME HostInv, HostTurn, MayRun, ~inst.hostCallPending, inst.main # "idle",
         inst' = [inst EXCEPT !.main = "busy", !.slot = Local], Push(ResumeFrame),
         UNCHANGED <<live, bypassed>>
  PROVE  HostInv'
<1> DEFINE f == ResumeFrame
<1>1. /\ f \in FrameType /\ f.op = "resume" /\ f.seq = inst.suspendedSeq
      /\ f.suspended = inst.suspendedHostCall
      /\ f.retain = (inst.suspendedHostCall /\ inst.suspendedResultOwnerAlive)
      /\ f.generation = inst.generation
  BY ResumeFrameFacts
<1>2. Push(f)
  OBVIOUS
<1> HIDE DEF f
<1>3. f.suspended =>
        /\ f.op = "resume" /\ inst.suspendedHostCall /\ inst.suspendedSeq = f.seq
        /\ f.seq \in live => f.retain
  BY <1>1 DEF HostInv, StopSound
<1>4. /\ ~InterpreterRunning /\ ~inst.lifecycleBusy /\ bypassed' \in BOOLEAN
      /\ bypassed => bypassed'
  BY DEF MayRun, HostInv, TypeOK
<1>5. (f.retain => f.suspended) /\ (inst.suspendedHostCall => f.suspended)
  BY <1>1
<1> QED  BY <1>1, <1>2, <1>3, <1>4, <1>5, GoesOnStep

LEMMA ResumeStep ==
  ASSUME HostInv, Resume
  PROVE  HostInv'
<1>1. CASE inst.main = "idle"
  BY <1>1, ResumeIdleStep DEF Resume
<1>2. CASE inst.main # "idle"
  BY <1>2, ResumeFrameStep DEF Resume
<1> QED  BY <1>1, <1>2

LEMMA UpdateSlicedStep ==
  ASSUME HostInv, UpdateSliced
  PROVE  HostInv'
BY ResumeFrameStep DEF UpdateSliced

LEMMA DebuggerRunStep ==
  ASSUME HostInv, DebuggerRun
  PROVE  HostInv'
<1> DEFINE f == Frame("plain", None)
<1>1. /\ f \in FrameType /\ f.op = "plain" /\ ~f.retain /\ ~f.suspended
      /\ f.generation = inst.generation
  BY NewFrameFacts
<1>2. /\ HostTurn /\ ~InterpreterRunning /\ inst.main # "idle" /\ ~inst.hostCallPending
      /\ inst' = [inst EXCEPT !.main = "busy", !.slot = Local] /\ Push(f) /\ live' = live
      /\ bypassed' = (bypassed \/ inst.suspendedHostCall)
  BY DEF DebuggerRun
<1>3. bypassed' \in BOOLEAN /\ (bypassed => bypassed') /\ (~bypassed' => ~inst.suspendedHostCall)
  BY <1>2
<1> HIDE DEF f
<1> QED  BY <1>1, <1>2, <1>3, GoesOnStep

-----------------------------------------------------------------------------
(* The life of the instance                                                *)

\* An instance with nothing under way: made anew, loaded, or gone.
LEMMA QuietStep ==
  ASSUME frames' = <<>>, live' = {}, bypassed' \in BOOLEAN, inst' \in InstType,
         inst'.main = "idle", inst'.armedSeq = None, ~inst'.args, ~inst'.closure,
         ~inst'.hostCallPending, inst'.pendingSeq = None, inst'.readers = {},
         ~inst'.suspendedHostCall, ~inst'.suspendedResultOwnerAlive, inst'.suspendedSeq = None,
         inst'.gone => inst'.lifecycleBusy
  PROVE  HostInv'
<1>1. DOMAIN frames' = {} /\ Len(frames') = 0 /\ frames' \in Seq(FrameType)
  OBVIOUS
<1>2. ~InterpreterRunning'
  BY <1>1 DEF InterpreterRunning
<1>3. inst'.callSeq \in Nat
  BY FieldTypes, HostAssumption
<1>4. TypeOK'
  BY <1>1, <1>3, HostAssumption DEF TypeOK, None
<1>5. FramesSound' /\ RunSound' /\ StopSound'
  BY <1>1, <1>2 DEF FramesSound, RunSound, StopSound
<1>6. LendSound' /\ BusySound' /\ ContextAccounted'
  BY <1>1, <1>2 DEF LendSound, BusySound, ContextAccounted
<1>7. OwnersAlive' /\ ScratchOwned'
  BY <1>1 DEF OwnersAlive, ScratchOwned
<1> QED  BY <1>4, <1>5, <1>6, <1>7 DEF HostInv

\* Only the frames of a script and of foreign callers outlive the Invocations.
LEMMA CanDestroyFacts ==
  ASSUME HostInv, CanDestroyInstance
  PROVE  frames = <<>> /\ live = {} /\ ~inst.gone
<1>1. live = {} /\ ~InterpreterRunning /\ ~inst.lifecycleBusy
  BY DEF CanDestroyInstance
<1>2. ASSUME NEW i \in DOMAIN frames PROVE FALSE
  <2>1. frames[i].op \in HostOps /\ frames[i].op # "foreign"
    BY <1>1, <1>2 DEF InterpreterRunning, CanDestroyInstance
  <2>2. frames[i].op = "read"
    BY <2>1 DEF HostOps
  <2> QED  BY <1>1, <1>2, <2>2 DEF HostInv, OwnersAlive
<1>3. frames = <<>>
  BY <1>2, TopFacts DEF HostInv
<1> QED  BY <1>1, <1>3, NotGone

LEMMA ResetInstanceStep ==
  ASSUME HostInv, ResetInstance
  PROVE  HostInv'
<1> DEFINE q == [NewInst EXCEPT !.generation = 1 - inst.generation, !.callSeq = inst.callSeq,
                                !.resultSeq = inst.resultSeq]
<1>1. inst' = q /\ UNCHANGED <<live, frames, bypassed>> /\ CanDestroyInstance
  BY DEF ResetInstance
<1>2. /\ inst.callSeq \in 0 .. MaxCalls /\ inst.resultSeq \in Calls \cup {None}
      /\ 1 - inst.generation \in {0, 1} /\ bypassed \in BOOLEAN
  BY FieldTypes DEF HostInv, TypeOK
<1>3. q \in InstType
  BY <1>2, NewInstFacts DEF InstType
<1>4. /\ q.main = "idle" /\ q.armedSeq = None /\ ~q.args /\ ~q.closure
      /\ ~q.hostCallPending /\ q.pendingSeq = None /\ q.readers = {}
      /\ ~q.suspendedHostCall /\ ~q.suspendedResultOwnerAlive /\ q.suspendedSeq = None
      /\ ~q.gone
  BY <1>2, NewInstFacts DEF InstType
<1> HIDE DEF q
<1> QED  BY <1>1, <1>2, <1>3, <1>4, CanDestroyFacts, QuietStep

LEMMA DestroyInstanceStep ==
  ASSUME HostInv, DestroyInstance
  PROVE  HostInv'
<1>1. inst' = Gone /\ UNCHANGED <<live, frames, bypassed>> /\ CanDestroyInstance
  BY DEF DestroyInstance
<1>2. bypassed' \in BOOLEAN
  BY <1>1 DEF HostInv, TypeOK
<1>3. frames' = <<>> /\ live' = {}
  BY <1>1, CanDestroyFacts
<1> QED  BY <1>1, <1>2, <1>3, NewInstFacts, QuietStep

LEMMA CreateInstanceStep ==
  ASSUME HostInv, CreateInstance
  PROVE  HostInv'
<1>1. inst.gone /\ frames = <<>> /\ inst' = NewInst /\ bypassed' = FALSE /\ UNCHANGED <<live, frames>>
  BY DEF CreateInstance
<1>2. live = {}
  BY <1>1, NotGone
<1> QED  BY <1>1, <1>2, NewInstFacts, QuietStep

LEMMA LoadDoneStep ==
  ASSUME HostInv, LoadDone
  PROVE  HostInv'
<1> DEFINE q == [inst EXCEPT !.lifecycleBusy = FALSE]
<1>1. /\ HostTurn /\ inst.lifecycleBusy /\ ~InterpreterRunning
      /\ inst' = Gone \/ inst' = q
      /\ UNCHANGED <<live, frames, bypassed>>
  BY DEF LoadDone
<1>2. frames' = <<>> /\ live' = {} /\ bypassed' \in BOOLEAN
  BY <1>1 DEF HostInv, TypeOK, BusySound
<1>3. CASE inst' = Gone
  BY <1>2, <1>3, NewInstFacts, QuietStep
<1>4. CASE inst' = q
  <2>1. inst \in InstType /\ ~inst.gone
    BY <1>1 DEF HostInv, TypeOK, HostTurn
  <2>2. /\ inst.main = "idle" /\ inst.armedSeq = None /\ ~inst.args /\ ~inst.closure
        /\ ~inst.hostCallPending /\ ~inst.suspendedHostCall
    BY <1>1 DEF HostInv, BusySound, ScratchOwned
  <2>3. /\ inst.pendingSeq = None /\ inst.readers = {}
        /\ ~inst.suspendedResultOwnerAlive /\ inst.suspendedSeq = None
    BY <2>2 DEF HostInv, TypeOK, LendSound, StopSound
  <2>4. /\ q \in InstType /\ ~q.gone /\ q.main = inst.main
        /\ SameArmed(q, inst) /\ SameLoan(q, inst) /\ SameStop(q, inst)
    <3>1. q \in InstType /\ ~q.gone /\ q.main = inst.main
      BY <2>1 DEF InstType
    <3>2. SameArmed(q, inst) /\ SameLoan(q, inst) /\ SameStop(q, inst)
      BY <2>1 DEF InstType, SameArmed, SameLoan, SameStop
    <3> QED  BY <3>1, <3>2
  <2> HIDE DEF q
  <2> QED
    BY <1>2, <1>4, <2>2, <2>3, <2>4, QuietStep DEF SameArmed, SameLoan, SameStop
<1> QED  BY <1>1, <1>3, <1>4

-----------------------------------------------------------------------------
(* The invariant                                                           *)

LEMMA InitHost == Init => HostInv
<1> SUFFICES ASSUME Init PROVE HostInv
  OBVIOUS
<1>1. inst = NewInst /\ live = {} /\ frames = <<>> /\ bypassed = FALSE
  BY DEF Init
<1>2. DOMAIN frames = {} /\ Len(frames) = 0 /\ frames \in Seq(FrameType)
  BY <1>1
<1>3. ~InterpreterRunning
  BY <1>2 DEF InterpreterRunning
<1>4. /\ inst \in InstType /\ inst.main = "idle" /\ inst.armedSeq = None /\ ~inst.args
      /\ ~inst.closure /\ ~inst.hostCallPending /\ inst.pendingSeq = None /\ inst.readers = {}
      /\ ~inst.suspendedHostCall /\ ~inst.suspendedResultOwnerAlive
      /\ inst.suspendedSeq = None /\ inst.callSeq = 0 /\ ~inst.gone
  BY <1>1, NewInstFacts
<1>5. TypeOK
  <2>1. live \subseteq 1 .. inst.callSeq /\ bypassed \in BOOLEAN
    BY <1>1
  <2>2. inst.suspendedSeq <= inst.callSeq /\ Len(frames) <= MaxFrames
    BY <1>2, <1>4, HostAssumption DEF None
  <2> QED  BY <1>2, <1>4, <2>1, <2>2 DEF TypeOK
<1>6. FramesSound /\ RunSound /\ StopSound
  BY <1>2, <1>3, <1>4 DEF FramesSound, RunSound, StopSound
<1>7. LendSound /\ BusySound /\ ContextAccounted
  BY <1>1, <1>3, <1>4 DEF LendSound, BusySound, ContextAccounted
<1>8. OwnersAlive /\ ScratchOwned
  BY <1>2, <1>4 DEF OwnersAlive, ScratchOwned
<1> QED  BY <1>5, <1>6, <1>7, <1>8 DEF HostInv

LEMMA HostUnchanged ==
  ASSUME HostInv, UNCHANGED vars
  PROVE  HostInv'
BY DEF vars, HostInv, TypeOK, FramesSound, RunSound, StopSound, LendSound, BusySound,
       ContextAccounted, OwnersAlive, ScratchOwned, InterpreterRunning, Lowest

LEMMA HostNext ==
  ASSUME HostInv, Next
  PROVE  HostInv'
<1>1. CASE \E captured, wrong \in BOOLEAN : Call(captured, wrong)
  BY <1>1, CallStep
<1>2. CASE \E s \in Calls : Arg(s) \/ Drop(s) \/ Read(s)
  BY <1>2, ArgStep, DropStep, ReadStep
<1>3. CASE \E s \in Calls, safe \in {"no", "scalar", "read"}, refused \in BOOLEAN :
             Invoke(s, safe, refused)
  BY <1>3, InvokeStep
<1>4. CASE \E status \in {"Completed", "Suspended", "Failed"} :
             InvokeEnds(status) \/ RunEnds(status)
  BY <1>4, InvokeEndsStep, RunEndsStep
<1>5. CASE ReadEnds \/ EnterNative \/ LeaveNative \/ LeaveForeign
  BY <1>5, ReadEndsStep, EnterNativeStep, LeaveNativeStep, LeaveForeignStep
<1>6. CASE \E generation \in {0, 1} : EnterForeign(generation)
  BY <1>6, EnterForeignStep
<1>7. CASE StartSliced \/ RunGlobalInit
  BY <1>7, StartTopStep DEF StartSliced, RunGlobalInit
<1>8. CASE Resume \/ UpdateSliced \/ DebuggerRun \/ Cancel
  BY <1>8, ResumeStep, UpdateSlicedStep, DebuggerRunStep, CancelStep
<1>9. CASE ResetInstance \/ LoadRuns \/ LoadDone \/ DestroyInstance \/ CreateInstance
  BY <1>9, ResetInstanceStep, LoadRunsStep, LoadDoneStep, DestroyInstanceStep,
     CreateInstanceStep
<1> QED  BY <1>1, <1>2, <1>3, <1>4, <1>5, <1>6, <1>7, <1>8, <1>9 DEF Next

\* The record and the stack agree in every reachable state.
THEOREM HostInvariant == Spec => []HostInv
<1>1. HostInv /\ [Next]_vars => HostInv'
  BY HostNext, HostUnchanged
<1> QED  BY InitHost, <1>1, PTL DEF Spec

\* A bound context has one debtor (FlushPendingCall, Resume, Cancel).
THEOREM ContextIsAccounted == Spec => []ContextAccounted
<1>1. HostInv => ContextAccounted
  BY DEF HostInv
<1> QED  BY <1>1, HostInvariant, PTL

\* What is held for an Invocation is held for one that exists.
THEOREM OwnersAreAlive == Spec => []OwnersAlive
<1>1. HostInv => OwnersAlive
  BY DEF HostInv
<1> QED  BY <1>1, HostInvariant, PTL

\* Arguments and captured callbacks wait only for a prepared call.
THEOREM ScratchIsOwned == Spec => []ScratchOwned
<1>1. HostInv => ScratchOwned
  BY DEF HostInv
<1> QED  BY <1>1, HostInvariant, PTL

\* Nobody reads another call's result.
THEOREM ResultsAreApart == Spec => []ResultsStayApart
<1>1. HostInv => ResultsStayApart
  <2> SUFFICES ASSUME HostInv, ~bypassed PROVE ResultsStayApart
    BY DEF ResultsStayApart
  <2>1. ASSUME NEW s \in live, Readable(inst, s)
        PROVE  inst.slot \in {s} \cup
                             (IF inst.pendingBegin = "Acquired" THEN {} ELSE {Null, Local})
    BY <2>1 DEF HostInv, LendSound, Readable
  <2> QED  BY <2>1 DEF ResultsStayApart, NeverAnothersResult, HostInv, LendSound
<1> QED  BY <1>1, HostInvariant, PTL

-----------------------------------------------------------------------------
(* Who gets the result of a stopped call                                   *)

\* The record q is still that of a stopped call if r is.
StopKept(q, r) == q \in InstType /\ (r.suspendedHostCall => q.suspendedHostCall)

LEMMA FlushKeepsStop ==
  ASSUME NEW r \in InstType
  PROVE  /\ StopKept(Flushed(r), r)
         /\ \A s : StopKept(FlushedIfOwn(r, s), r)
<1>1. StopKept(Flushed(r), r)
  <2>1. CASE ~r.hostCallPending
    BY <2>1 DEF Flushed, StopKept
  <2>2. CASE r.hostCallPending
    <3> DEFINE e == EndHostCall(r, r.pendingBegin)
               q == [e EXCEPT !.hostCallPending = FALSE, !.pendingSeq = None, !.readers = {}]
    <3>1. e \in InstType /\ SameStop(e, r)
      BY EndFacts
    <3> HIDE DEF e
    <3>2. q \in InstType /\ SameStop(q, e)
      BY <3>1, UnlentFacts
    <3>3. Flushed(r) = q
      BY <2>2 DEF Flushed, e
    <3> HIDE DEF q
    <3> QED  BY <3>1, <3>2, <3>3 DEF SameStop, StopKept
  <2> QED  BY <2>1, <2>2
<1>2. StopKept(r, r)
  BY DEF StopKept
<1> QED  BY <1>1, <1>2 DEF FlushedIfOwn

LEMMA InvokedKeepsStop ==
  ASSUME NEW r \in InstType, NEW s \in Calls, NEW status \in Statuses,
         NEW b \in {"Acquired", "Nested", "Suspended"}
  PROVE  StopKept(Invoked(r, s, b, status), r)
<1> DEFINE p == [r EXCEPT !.resultSeq = s, !.callStatus = status]
           a == Flushed(p)
           q == [a EXCEPT !.suspendedHostCall = TRUE, !.suspendedResultOwnerAlive = TRUE,
                          !.suspendedSeq = s]
           l == Lent(a, s, b)
<1>1. p \in InstType /\ p.suspendedHostCall = r.suspendedHostCall
  BY DEF InstType
<1> HIDE DEF p
<1>2. a \in InstType /\ (r.suspendedHostCall => a.suspendedHostCall)
  BY <1>1, FlushKeepsStop DEF StopKept
<1>3. Invoked(r, s, b, status) =
        IF status = "Suspended" THEN q ELSE IF b = "Suspended" THEN a ELSE l
  BY DEF Invoked, p
<1> HIDE DEF a
<1>4. q \in InstType /\ q.suspendedHostCall
  BY <1>2, StoppedFacts
<1>5. b # "Suspended" => l \in InstType /\ l.suspendedHostCall = a.suspendedHostCall
  BY <1>2 DEF Lent, InstType
<1> HIDE DEF q, l
<1> QED  BY <1>2, <1>3, <1>4, <1>5 DEF StopKept

LEMMA CallKeepsStop ==
  ASSUME HostInv, NEW captured \in BOOLEAN, NEW wrong \in BOOLEAN, Call(captured, wrong)
  PROVE  inst.suspendedHostCall => inst'.suspendedHostCall
<1> DEFINE q == Flushed(inst)
           r == [q EXCEPT !.closure = captured /\ ~wrong]
           s == inst.callSeq + 1
<1>1. q \in InstType /\ (inst.suspendedHostCall => q.suspendedHostCall)
  BY LoanOfInst, FlushKeepsStop DEF StopKept
<1>2. \/ inst' = r
      \/ inst' = [r EXCEPT !.args = FALSE, !.callStatus = "Failed", !.callSeq = s, !.armedSeq = s]
  BY DEF Call
<1> HIDE DEF q, s
<1> QED  BY <1>1, <1>2 DEF InstType

LEMMA DropKeepsStop ==
  ASSUME HostInv, NEW s \in Calls, Drop(s)
  PROVE  inst.suspendedHostCall => inst'.suspendedHostCall
<1> DEFINE a == IF inst.armedSeq = s
                THEN [inst EXCEPT !.armedSeq = None, !.args = FALSE, !.closure = FALSE]
                ELSE inst
           b == FlushedIfOwn(a, s)
<1>1. inst' = b \/ inst' = [b EXCEPT !.suspendedResultOwnerAlive = FALSE]
  BY DEF Drop
<1>2. inst \in InstType
  BY LoanOfInst
<1> DEFINE p == [inst EXCEPT !.armedSeq = None, !.args = FALSE, !.closure = FALSE]
<1>5. p \in InstType /\ SameStop(p, inst)
  BY <1>2, UnarmedFacts
<1>6. a = IF inst.armedSeq = s THEN p ELSE inst
  OBVIOUS
<1> HIDE DEF p, a
<1>3. a \in InstType /\ a.suspendedHostCall = inst.suspendedHostCall
  BY <1>2, <1>5, <1>6 DEF SameStop
<1>4. b \in InstType /\ (a.suspendedHostCall => b.suspendedHostCall)
  BY <1>3, FlushKeepsStop DEF StopKept
<1> HIDE DEF b
<1> QED  BY <1>1, <1>3, <1>4 DEF InstType

LEMMA InvokeKeepsStop ==
  ASSUME HostInv, NEW s \in Calls, NEW safe \in {"no", "scalar", "read"}, NEW refused \in BOOLEAN,
         Invoke(s, safe, refused)
  PROVE  inst.suspendedHostCall => inst'.suspendedHostCall
<1> DEFINE r == [Flushed(inst) EXCEPT !.armedSeq = None, !.args = FALSE, !.closure = FALSE]
           b == CASE r.main = "stopped" -> "Suspended"
                  [] r.main = "idle"    -> "Acquired"
                  [] OTHER              -> "Nested"
           a == Invoked(r, s, b, "Failed")
<1>1. r \in InstType /\ SameStop(r, inst)
  BY InvokeTakes DEF TakenFrom
<1>2. b \in {"Acquired", "Nested", "Suspended"}
  OBVIOUS
<1>3. \/ inst' = a \/ inst' = FlushedIfOwn(a, s)
      \/ inst' = [r EXCEPT !.main = "busy", !.exec = s, !.slot = Local]
      \/ inst' = [r EXCEPT !.slot = Local]
  BY DEF Invoke
<1> HIDE DEF r, b
<1>4. a \in InstType /\ (r.suspendedHostCall => a.suspendedHostCall)
  BY <1>1, <1>2, InvokedKeepsStop DEF StopKept, Statuses
<1> HIDE DEF a
<1>5. a.suspendedHostCall => FlushedIfOwn(a, s).suspendedHostCall
  BY <1>4, FlushKeepsStop DEF StopKept
<1>6. /\ [r EXCEPT !.main = "busy", !.exec = s, !.slot = Local].suspendedHostCall
           = r.suspendedHostCall
      /\ [r EXCEPT !.slot = Local].suspendedHostCall = r.suspendedHostCall
  BY <1>1 DEF InstType
<1> QED  BY <1>1, <1>3, <1>4, <1>5, <1>6 DEF SameStop

LEMMA InvokeEndsKeepsStop ==
  ASSUME HostInv, NEW status \in {"Completed", "Suspended", "Failed"}, InvokeEnds(status)
  PROVE  inst.suspendedHostCall => inst'.suspendedHostCall
<1> DEFINE s == Top.seq
           r == CASE status = "Suspended" -> Settled(inst, status, TRUE)
                  [] status = "Completed" -> [inst EXCEPT !.slot = Top.seq]
                  [] OTHER                -> [inst EXCEPT !.slot = Local]
           a == Invoked(r, s, Top.begin, status)
<1>1. ScriptTurn /\ Top.op = "invoke" /\ inst \in InstType
  BY LoanOfInst DEF InvokeEnds
<1>2. /\ Len(frames) \in DOMAIN frames /\ Top = frames[Len(frames)] /\ Top \in FrameType
      /\ inst.exec # None
  BY <1>1, TopScript DEF HostOps
<1>3. s \in Calls /\ Top.begin \in {"Acquired", "Nested"} /\ status \in Statuses
  BY <1>1, <1>2, LiveCalls DEF HostInv, OwnersAlive, FrameType, Statuses
<1>4. inst' = a \/ inst' = FlushedIfOwn(a, s) \/ inst' = [a EXCEPT !.readers = {s}]
  BY DEF InvokeEnds
<1>5. r \in InstType /\ r.suspendedHostCall = inst.suspendedHostCall
  <2>1. CASE status = "Suspended"
    <3>1. r = Settled(inst, status, TRUE)
      BY <2>1
    <3> HIDE DEF r
    <3>2. /\ Settled(inst, status, TRUE) \in InstType
          /\ SameStop(Settled(inst, status, TRUE), inst)
      BY <1>1, <1>2, SettledFacts
    <3> QED  BY <3>1, <3>2 DEF SameStop
  <2>2. CASE status = "Completed"
    <3>1. r = [inst EXCEPT !.slot = Top.seq]
      BY <2>2
    <3> HIDE DEF r
    <3> QED  BY <1>1, <1>3, <3>1 DEF InstType
  <2>3. CASE status = "Failed"
    <3>1. r = [inst EXCEPT !.slot = Local]
      BY <2>3
    <3> HIDE DEF r
    <3> QED  BY <1>1, <3>1 DEF InstType
  <2> QED  BY <2>1, <2>2, <2>3
<1> HIDE DEF r
<1>6. a \in InstType /\ (r.suspendedHostCall => a.suspendedHostCall)
  BY <1>3, <1>5, InvokedKeepsStop DEF StopKept
<1> HIDE DEF a
<1>7. a.suspendedHostCall => FlushedIfOwn(a, s).suspendedHostCall
  BY <1>6, FlushKeepsStop DEF StopKept
<1>8. [a EXCEPT !.readers = {s}].suspendedHostCall = a.suspendedHostCall
  BY <1>6 DEF InstType
<1> QED  BY <1>4, <1>5, <1>6, <1>7, <1>8

\* The steps that keep the record but for the worker's part.
LEMMA WorkerKeepsStop ==
  ASSUME HostInv,
         \/ inst' = inst \/ inst' = [inst EXCEPT !.slot = Local]
         \/ inst' = [inst EXCEPT !.args = TRUE]
         \/ \E s : inst' = [inst EXCEPT !.readers = @ \cup {s}]
         \/ inst' = [inst EXCEPT !.lifecycleBusy = FALSE]
         \/ inst' = [inst EXCEPT !.main = "busy", !.slot = Local]
         \/ \E r \in InstType : StopKept(r, inst) /\ (inst' = r \/ ExecuteTop(r))
  PROVE  inst.suspendedHostCall => inst'.suspendedHostCall
<1>1. inst \in InstType
  BY LoanOfInst
<1>2. ASSUME NEW r \in InstType, StopKept(r, inst), inst' = r \/ ExecuteTop(r)
      PROVE  inst.suspendedHostCall => inst'.suspendedHostCall
  BY <1>2 DEF StopKept, ExecuteTop, InstType
<1>3. CASE \/ inst' = inst \/ inst' = [inst EXCEPT !.slot = Local]
           \/ inst' = [inst EXCEPT !.args = TRUE]
           \/ \E s : inst' = [inst EXCEPT !.readers = @ \cup {s}]
  BY <1>1, <1>3 DEF InstType
<1>4. CASE \/ inst' = [inst EXCEPT !.lifecycleBusy = FALSE]
           \/ inst' = [inst EXCEPT !.main = "busy", !.slot = Local]
  BY <1>1, <1>4 DEF InstType
<1> QED  BY <1>2, <1>3, <1>4

\* A run ends that completes the stopped call.
LEMMA RunEndsGives ==
  ASSUME HostInv, NEW status \in {"Completed", "Suspended", "Failed"}, RunEnds(status),
         inst.suspendedHostCall, ~inst'.suspendedHostCall, inst'.callStatus = "Completed", ~bypassed
  PROVE  IF inst.suspendedSeq \in live
         THEN Readable(inst', inst.suspendedSeq) /\ inst'.slot = inst.suspendedSeq
         ELSE inst'.main = "idle"
<1> DEFINE f == Top
           r == Settled(inst, status, f.retain)
           q == Resumed(r, status, f)
<1>1. EndingFrame(f, status) /\ EndingRecord(r, f, status) /\ EndingResult(q, r, f, status)
  BY RunEndsFacts
<1> HIDE DEF f, r, q
<1>2. /\ f.suspended /\ inst.suspendedSeq = f.seq /\ inst.exec = f.seq
      /\ f.seq \in live => f.retain
  BY <1>1 DEF EndingFrame
<1>3. q.callStatus = "Completed" /\ status = "Completed"
  BY <1>1, <1>2 DEF EndingResult, SameCall
<1>4. /\ SameStop(r, inst)
      /\ f.retain => r.main = "busy" /\ r.slot = inst.exec
      /\ ~f.retain => Idle(r)
  BY <1>1, <1>3 DEF EndingRecord
<1>5. r.suspendedResultOwnerAlive <=> f.seq \in live
  BY <1>2, <1>4 DEF SameStop, HostInv, StopSound
<1>6. /\ SameContext(inst', q) /\ SameLoan(inst', q)
      /\ IF f.retain /\ r.suspendedResultOwnerAlive
         THEN q.hostCallPending /\ q.pendingSeq = f.seq
         ELSE ~q.hostCallPending /\ q.pendingSeq = None
      /\ IF f.retain /\ ~r.suspendedResultOwnerAlive /\ r.main # "stopped"
         THEN Idle(q) ELSE SameContext(q, r)
  BY <1>1, <1>2, <1>3 DEF EndingResult
<1>7. CASE f.seq \in live
  BY <1>2, <1>4, <1>5, <1>6, <1>7 DEF SameContext, SameLoan, Readable
<1>8. CASE f.seq \notin live
  BY <1>2, <1>4, <1>5, <1>6, <1>8 DEF SameContext, Idle
<1> QED  BY <1>2, <1>7, <1>8

\* Only the end of the resumed run completes a stopped call.
LEMMA StopCompletes ==
  ASSUME HostInv, Next,
         inst.suspendedHostCall, ~inst'.suspendedHostCall, inst'.callStatus = "Completed", ~bypassed
  PROVE  \E status \in {"Completed", "Suspended", "Failed"} : RunEnds(status)
<1>1. ~ \E captured, wrong \in BOOLEAN : Call(captured, wrong)
  BY CallKeepsStop
<1>2. ~ \E s \in Calls : Arg(s) \/ Drop(s) \/ Read(s)
  <2>1. ASSUME NEW s \in Calls, Arg(s) \/ Read(s)
        PROVE  FALSE
    BY <2>1, WorkerKeepsStop DEF Arg, Read
  <2> QED  BY <2>1, DropKeepsStop
<1>3. ~ \E s \in Calls, safe \in {"no", "scalar", "read"}, refused \in BOOLEAN :
          Invoke(s, safe, refused)
  BY InvokeKeepsStop
<1>4. ~ \E status \in {"Completed", "Suspended", "Failed"} : InvokeEnds(status)
  BY InvokeEndsKeepsStop
<1>5. ~ReadEnds
  <2>1. StopKept(inst, inst)
    BY LoanOfInst DEF StopKept
  <2> QED  BY <2>1, LoanOfInst, FlushKeepsStop DEF ReadEnds, StopKept
<1>6. ~(EnterNative \/ LeaveNative \/ LeaveForeign \/ \E generation \in {0, 1} : EnterForeign(generation))
  BY WorkerKeepsStop DEF EnterNative, LeaveNative, LeaveForeign, EnterForeign
<1>7. ~(StartSliced \/ RunGlobalInit)
  <2>1. Flushed(inst) \in InstType /\ StopKept(Flushed(inst), inst)
    BY LoanOfInst, FlushKeepsStop DEF StopKept
  <2>2. ASSUME NEW found \in BOOLEAN, StartTop(found)
        PROVE  inst' = Flushed(inst) \/ ExecuteTop(Flushed(inst))
    BY <2>2 DEF StartTop
  <2> QED  BY <2>1, <2>2, WorkerKeepsStop DEF StartSliced, RunGlobalInit
<1>8. ~(UpdateSliced \/ DebuggerRun)
  BY WorkerKeepsStop DEF UpdateSliced, DebuggerRun
<1>9. ~Resume
  <2> SUFFICES ASSUME Resume PROVE FALSE
    OBVIOUS
  <2>1. inst.main = "idle"
    BY WorkerKeepsStop DEF Resume
  <2>2. ~InterpreterRunning
    BY DEF Resume, MayRun
  <2> QED  BY <2>1, <2>2 DEF HostInv, ContextAccounted
<1>10. ~Cancel
  <2> SUFFICES ASSUME Cancel PROVE FALSE
    OBVIOUS
  <2> DEFINE r == Released(Flushed(inst))
  <2>1. r \in InstType
    BY LoanOfInst, FlushKeepsStop, ReleasedFacts DEF StopKept
  <2>2. inst' = [r EXCEPT !.args = FALSE, !.suspendedHostCall = FALSE,
                          !.suspendedResultOwnerAlive = FALSE, !.suspendedSeq = None,
                          !.callStatus = "Cancelled"]
    BY DEF Cancel
  <2> HIDE DEF r
  <2> QED  BY <2>1, <2>2 DEF InstType
<1>11. ~ResetInstance
  BY NewInstFacts DEF ResetInstance, InstType
<1>12. ~(LoadRuns \/ LoadDone)
  <2>1. StopKept(inst, inst) /\ inst \in InstType
    BY LoanOfInst DEF StopKept
  <2>2. ~LoadRuns
    BY <2>1, WorkerKeepsStop DEF LoadRuns
  <2>3. ~LoadDone
    BY NewInstFacts, WorkerKeepsStop DEF LoadDone
  <2> QED  BY <2>2, <2>3
<1>13. ~(DestroyInstance \/ CreateInstance)
  BY NewInstFacts DEF DestroyInstance, CreateInstance
<1> QED
  BY <1>1, <1>2, <1>3, <1>4, <1>5, <1>6, <1>7, <1>8, <1>9, <1>10, <1>11, <1>12, <1>13 DEF Next

\* The result of a stopped call goes to its Invocation, or to nobody (Resume).
THEOREM ResultGoesToOwner == Spec => ResultFollowsOwner
<1>1. ASSUME HostInv, [Next]_vars
      PROVE  [ inst.suspendedHostCall /\ ~inst'.suspendedHostCall
               /\ inst'.callStatus = "Completed" /\ ~bypassed =>
                 IF inst.suspendedSeq \in live
                 THEN Readable(inst', inst.suspendedSeq) /\ inst'.slot = inst.suspendedSeq
                 ELSE inst'.main = "idle" ]_vars
  <2> SUFFICES ASSUME Next, inst.suspendedHostCall, ~inst'.suspendedHostCall,
                      inst'.callStatus = "Completed", ~bypassed
               PROVE  IF inst.suspendedSeq \in live
                      THEN Readable(inst', inst.suspendedSeq) /\ inst'.slot = inst.suspendedSeq
                      ELSE inst'.main = "idle"
    BY <1>1 DEF vars
  <2> QED  BY <1>1, StopCompletes, RunEndsGives
<1> QED  BY <1>1, HostInvariant, PTL DEF Spec, ResultFollowsOwner

=============================================================================
