------------------------------- MODULE GcHeap -------------------------------
(***************************************************************************)
(* What the heap of a CNeoVM promises a script: a store whose reachable    *)
(* part only the script changes, and whose unreachable part may be taken   *)
(* back at any time the script is not running an instruction.  No counts,  *)
(* no queues, no colours.  NeoHeap implements it.                          *)
(***************************************************************************)
CONSTANTS Obj, NoObj, Field, Root

Inner == Obj \X Field
Slot  == Root \cup Inner

VARIABLES
  edge,      \* what each slot refers to
  alive,     \* containers that exist
  pinned,    \* containers native code keeps: active contexts, requests in flight
  fresh,     \* the container an instruction has made and not stored yet
  borrowed,  \* containers an instruction in progress sees through a raw pointer
  reclaiming,\* the runtime, not the script, is at work
  ended      \* the VM is being destroyed

gcHeapVars == <<edge, alive, pinned, fresh, borrowed, reclaiming, ended>>

Children(o) == {edge[<<o, f>>] : f \in Field} \ {NoObj}

\* Everything a set of nodes reaches through child slots: what is in every set
\* around S that no child slot leads out of.
Closed(T)  == \A o \in T : Children(o) \subseteq T
Closure(S) == {o \in Obj : \A T \in SUBSET Obj : S \subseteq T /\ Closed(T) => o \in T}

\* What the script or native code can name.
Roots     == ({edge[s] : s \in Root} \cup pinned \cup {fresh}) \ {NoObj}
Reachable == Closure(Roots)
Garbage   == alive \ Reachable

\* A slot the script can get at.
Owned(s) == s \in Root \/ s[1] \in Reachable

\* A step of an instruction: it rewrites slots it can get at with references
\* it can get at and makes at most one container, which nothing refers to yet.
Execute ==
  /\ ~reclaiming
  /\ \A s \in Slot :
       edge'[s] # edge[s] =>
         /\ Owned(s) \/ s[1] \in borrowed
         /\ edge'[s] \in Reachable \cup borrowed \cup {NoObj}
  /\ alive \subseteq alive'
  /\ alive' \ alive \subseteq {fresh'}
  /\ fresh' \in alive' \cup {NoObj}
  /\ fresh' # fresh => \A s \in Slot : edge[s] = NoObj \/ edge[s] # fresh'
  /\ pinned' \subseteq Reachable
  /\ borrowed' \subseteq Reachable

\* The runtime cuts slots of unreachable containers and takes some of them
\* back.  Raw pointers keep nothing alive, so they may be lost here.
Reclaim ==
  /\ reclaiming
  /\ \A s \in Slot : edge'[s] # edge[s] => ~Owned(s) /\ edge'[s] = NoObj
  /\ alive' \subseteq alive
  /\ (alive \ alive') \cap Reachable = {}
  /\ borrowed' \subseteq borrowed \cap alive'
  /\ UNCHANGED <<pinned, fresh>>

Init ==
  /\ edge = [s \in Slot |-> NoObj]
  /\ alive = {} /\ pinned = {} /\ fresh = NoObj /\ borrowed = {}
  /\ reclaiming = FALSE /\ ended = FALSE

Next == ended \/ ended' \/ (~ended' /\ (Execute \/ Reclaim))

Spec == Init /\ [][Next]_gcHeapVars

=============================================================================
