--------------------------- MODULE AsyncContract ---------------------------
(***************************************************************************)
(* What a script may rely on when it asks for something over HTTP: the     *)
(* answer comes at most once, to the callback of the worker that asked and *)
(* only while that worker lives; a request is not taken for another while  *)
(* it is under way; nothing is delivered once the VM shuts down.           *)
(***************************************************************************)
CONSTANTS Req, Worker, NoWorker

VARIABLES
  phase,    \* none, asked, answered, delivered, dropped
  asker,    \* the worker that asked
  receiver, \* the worker whose callback got the answer
  alive,    \* workers
  open      \* the VM is not shutting down

vars == <<phase, asker, receiver, alive, open>>

Init ==
  /\ phase = [r \in Req |-> "none"]
  /\ asker = [r \in Req |-> NoWorker]
  /\ receiver = [r \in Req |-> NoWorker]
  /\ alive \in SUBSET Worker
  /\ open = TRUE

Ask(r, w) ==
  /\ open /\ phase[r] = "none" /\ w \in alive
  /\ phase' = [phase EXCEPT ![r] = "asked"]
  /\ asker' = [asker EXCEPT ![r] = w]
  /\ UNCHANGED <<receiver, alive, open>>

\* The transport may still answer while the VM shuts down.
Answer(r) ==
  /\ phase[r] = "asked"
  /\ phase' = [phase EXCEPT ![r] = "answered"]
  /\ UNCHANGED <<asker, receiver, alive, open>>

\* The callback runs on w, which is the worker that asked and lives.
Deliver(r, w) ==
  /\ open /\ phase[r] = "answered"
  /\ w = asker[r] /\ w \in alive
  /\ phase' = [phase EXCEPT ![r] = "delivered"]
  /\ receiver' = [receiver EXCEPT ![r] = w]
  /\ UNCHANGED <<asker, alive, open>>

Drop(r) ==
  /\ phase[r] = "answered"
  /\ phase' = [phase EXCEPT ![r] = "dropped"]
  /\ UNCHANGED <<asker, receiver, alive, open>>

\* The script let go of a request that is over.
Forget(r) ==
  /\ phase[r] \in {"delivered", "dropped"}
  /\ phase' = [phase EXCEPT ![r] = "none"]
  /\ asker' = [asker EXCEPT ![r] = NoWorker]
  /\ receiver' = [receiver EXCEPT ![r] = NoWorker]
  /\ UNCHANGED <<alive, open>>

Join(w) ==
  /\ open /\ w \in Worker \ alive
  /\ alive' = alive \cup {w}
  /\ UNCHANGED <<phase, asker, receiver, open>>
Leave(w) ==
  /\ w \in alive
  /\ alive' = alive \ {w}
  /\ UNCHANGED <<phase, asker, receiver, open>>
Close == open /\ open' = FALSE /\ UNCHANGED <<phase, asker, receiver, alive>>

Next ==
  \/ \E r \in Req, w \in Worker : Ask(r, w) \/ Deliver(r, w)
  \/ \E r \in Req : Answer(r) \/ Drop(r) \/ Forget(r)
  \/ \E w \in Worker : Join(w) \/ Leave(w)
  \/ Close

Spec == Init /\ [][Next]_vars

=============================================================================
