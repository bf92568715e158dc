----------------------------- MODULE MemoryPool -----------------------------
(***************************************************************************)
(* CNVMAllocPool of NeoVMMemoryPool.h; CNVMInstPool is the same algorithm. *)
(* Nodes come in pages.  A page with a free node is on the avail chain, a  *)
(* page without a used one also on the empty chain, in the order in which  *)
(* they emptied.  Confer reads no clock: Collect stamps the pages that     *)
(* emptied since its last call, then returns from the head of the chain    *)
(* those that have been empty for long enough, one per step.               *)
(*                                                                         *)
(* Time: a stamp is only compared with HoldTime, so the age of the stamp   *)
(* is kept, up to HoldTime.  MaxPages bounds the pages there are at once.  *)
(***************************************************************************)
EXTENDS Integers, FiniteSets, Sequences, SequencesExt

CONSTANTS NoPage, MaxPages, BlockSize, HoldTime, PagesPerCall

ASSUME PoolAssumption ==
  /\ MaxPages \in Nat \ {0} /\ BlockSize \in Nat \ {0}
  /\ HoldTime \in Nat \ {0} /\ PagesPerCall \in Nat \ {0}
  /\ NoPage \notin Nat

VARIABLES
  pool,   \* the pages, by field: their data, nodes and stamps; the two
          \* chains; the slots for reuse and the number of slots there are
  held,   \* the nodes handed out, as <<slot, node>>
  idle,   \* history: how long each page has been without a used node
  trim    \* the Collect under way: its hold time, what is left of its
          \* budget, and, as history, the pages whose time was up at the call

poolVars == <<pool, held, idle, trim>>

Slots == 0 .. MaxPages - 1
Nodes == 1 .. BlockSize

-----------------------------------------------------------------------------
(* The chains                                                              *)

\* f with the field of page s set to v; a null page has none.
Link(f, s, v) == [x \in Slots |-> IF x = s THEN v ELSE f[x]]

\* Mutant of PushEmpty: a page that empties again keeps its old stamp.
PushEmptyStamped(c, s) ==
  [head |-> IF c.tail = NoPage THEN s ELSE c.head, tail |-> s, unstamped |-> c.unstamped,
   next |-> Link(Link(c.next, s, NoPage), c.tail, s), prev |-> Link(c.prev, s, c.tail)]

\* At the tail, not yet stamped.
PushEmpty(c, s) ==
  [head |-> IF c.tail = NoPage THEN s ELSE c.head, tail |-> s,
   unstamped |-> IF c.unstamped = NoPage THEN s ELSE c.unstamped,
   next |-> Link(Link(c.next, s, NoPage), c.tail, s), prev |-> Link(c.prev, s, c.tail)]

\* Mutant of UnlinkEmpty: m_pUnstamped is not moved on.
UnlinkEmptyPointing(c, s) ==
  [head |-> IF c.prev[s] = NoPage THEN c.next[s] ELSE c.head,
   tail |-> IF c.next[s] = NoPage THEN c.prev[s] ELSE c.tail,
   unstamped |-> c.unstamped,
   next |-> Link(c.next, c.prev[s], c.next[s]), prev |-> Link(c.prev, c.next[s], c.prev[s])]

UnlinkEmpty(c, s) ==
  [head |-> IF c.prev[s] = NoPage THEN c.next[s] ELSE c.head,
   tail |-> IF c.next[s] = NoPage THEN c.prev[s] ELSE c.tail,
   unstamped |-> IF c.unstamped = s THEN c.next[s] ELSE c.unstamped,
   next |-> Link(c.next, c.prev[s], c.next[s]), prev |-> Link(c.prev, c.next[s], c.prev[s])]

PushAvail(c, s) ==
  [head |-> s, pages |-> c.pages \cup {s},
   next |-> Link(c.next, s, c.head), prev |-> Link(Link(c.prev, s, NoPage), c.head, s)]

UnlinkAvail(c, s) ==
  IF s \notin c.pages THEN c
  ELSE [head |-> IF c.prev[s] = NoPage THEN c.next[s] ELSE c.head, pages |-> c.pages \ {s},
        next |-> Link(c.next, c.prev[s], c.next[s]), prev |-> Link(c.prev, c.next[s], c.prev[s])]

\* The pages from a on along next.
From(next, a) ==
  {s \in Slots : /\ a # NoPage
                 /\ \A S \in SUBSET Slots :
                      a \in S /\ (\A x \in S : next[x] \in S \cup {NoPage}) => s \in S}

-----------------------------------------------------------------------------
(* The pages                                                               *)

\* A page for the slot last given up, or for a new one; empty and not stamped.
\* The free list of a page is kept as a set: any of its nodes may be the next.
Alloc(p) ==
  LET reuse == p.freeSlots # <<>>
      s     == IF reuse THEN Last(p.freeSlots) ELSE p.made
  IN [data |-> p.data \cup {s}, free |-> Link(p.free, s, Nodes), used |-> Link(p.used, s, 0),
      age |-> p.age, avail |-> PushAvail(p.avail, s), empty |-> PushEmpty(p.empty, s),
      freeSlots |-> IF reuse THEN Front(p.freeSlots) ELSE <<>>,
      made |-> IF reuse THEN p.made ELSE p.made + 1]

CanAlloc(p) == p.freeSlots # <<>> \/ p.made < MaxPages

\* Node n of the first page with room is handed out.  What is left of the
\* stamp of a page that was empty counts as long past.
Taken(p, n) ==
  LET s     == p.avail.head
      first == p.used[s] = 0
  IN [data |-> p.data, free |-> Link(p.free, s, p.free[s] \ {n}),
      used |-> Link(p.used, s, p.used[s] + 1),
      age |-> IF first THEN Link(p.age, s, HoldTime) ELSE p.age,
      avail |-> IF p.free[s] \ {n} = {} THEN UnlinkAvail(p.avail, s) ELSE p.avail,
      empty |-> IF first THEN UnlinkEmpty(p.empty, s) ELSE p.empty,
      freeSlots |-> p.freeSlots, made |-> p.made]

\* Node n of page s is given back.
Returned(p, s, n) ==
  [data |-> p.data, free |-> Link(p.free, s, p.free[s] \cup {n}),
   used |-> Link(p.used, s, p.used[s] - 1), age |-> p.age,
   avail |-> IF p.free[s] = {} /\ s \notin p.avail.pages THEN PushAvail(p.avail, s) ELSE p.avail,
   empty |-> IF p.used[s] - 1 = 0 THEN PushEmpty(p.empty, s) ELSE p.empty,
   freeSlots |-> p.freeSlots, made |-> p.made]

\* Mutant of Stamped: every empty page gets a new stamp.
StampedAgain(p) ==
  [p EXCEPT !.age = [s \in Slots |-> IF s \in From(p.empty.next, p.empty.head) THEN 0 ELSE @[s]],
            !.empty = [@ EXCEPT !.unstamped = NoPage]]

\* The pages that emptied since the last call get their stamp.
Stamped(p) ==
  LET c == p.empty IN
  [data |-> p.data, free |-> p.free, used |-> p.used,
   age |-> [s \in Slots |-> IF s \in From(c.next, c.unstamped) THEN 0 ELSE p.age[s]],
   avail |-> p.avail,
   empty |-> [head |-> c.head, tail |-> c.tail, unstamped |-> NoPage,
              next |-> c.next, prev |-> c.prev],
   freeSlots |-> p.freeSlots, made |-> p.made]

\* The slot is noted, the page leaves both chains, its data is freed.
ReleasePage(p, s) ==
  [data |-> p.data \ {s}, free |-> Link(p.free, s, {}), used |-> p.used,
   age |-> Link(p.age, s, HoldTime), avail |-> UnlinkAvail(p.avail, s),
   empty |-> UnlinkEmpty(p.empty, s), freeSlots |-> Append(p.freeSlots, s), made |-> p.made]

EmptyPages == {s \in pool.data : pool.used[s] = 0}

-----------------------------------------------------------------------------
NoTrim == [on |-> FALSE, hold |-> 0, left |-> 0, due |-> {}]

Receive(n) ==
  /\ ~trim.on
  /\ pool.avail.head = NoPage => CanAlloc(pool)
  /\ LET p == IF pool.avail.head = NoPage THEN Alloc(pool) ELSE pool
         s == p.avail.head
     IN /\ n \in p.free[s]
        /\ pool' = Taken(p, n)
        /\ held' = held \cup {<<s, n>>}
        /\ idle' = Link(idle, s, 0)
  /\ UNCHANGED trim

Confer(s, n) ==
  /\ ~trim.on
  /\ <<s, n>> \in held
  /\ pool' = Returned(pool, s, n)
  /\ held' = held \ {<<s, n>>}
  /\ UNCHANGED <<idle, trim>>

\* Collect with a hold time and a budget of pages.
Collect(hold, budget) ==
  /\ ~trim.on
  /\ pool.empty.head # NoPage
  /\ pool' = Stamped(pool)
  /\ trim' = [on |-> TRUE, hold |-> hold, left |-> budget,
              due |-> {s \in EmptyPages :
                         \/ hold = 0
                         \/ /\ s \notin From(pool.empty.next, pool.empty.unstamped)
                            /\ pool.age[s] >= hold}]
  /\ UNCHANGED <<held, idle>>

\* TrimMemory(false) in the frame loop, TrimMemory(true) at a scene change.
Trim == Collect(HoldTime, PagesPerCall)
TrimAll == Collect(0, MaxPages)

\* The page that has been empty for longest has been so for long enough.
HeadIsDue ==
  /\ trim.left > 0
  /\ pool.empty.head # NoPage
  /\ pool.age[pool.empty.head] >= trim.hold

GiveBack ==
  /\ trim.on /\ HeadIsDue
  /\ pool' = ReleasePage(pool, pool.empty.head)
  /\ trim' = [trim EXCEPT !.left = @ - 1]
  /\ idle' = Link(idle, pool.empty.head, 0)
  /\ UNCHANGED held

TrimEnds ==
  /\ trim.on /\ ~HeadIsDue
  /\ trim' = NoTrim
  /\ UNCHANGED <<pool, held, idle>>

Older(n) == Min({HoldTime, n + 1})
Tick ==
  /\ ~trim.on
  /\ pool' = [pool EXCEPT !.age = [s \in Slots |-> Older(@[s])]]
  /\ idle' = [s \in Slots |-> IF s \in EmptyPages THEN Older(idle[s]) ELSE 0]
  /\ UNCHANGED <<held, trim>>

PoolInit ==
  LET nowhere == [s \in Slots |-> NoPage] IN
  /\ pool = [data |-> {}, free |-> [s \in Slots |-> {}], used |-> [s \in Slots |-> 0],
             age |-> [s \in Slots |-> HoldTime],
             avail |-> [head |-> NoPage, pages |-> {}, next |-> nowhere, prev |-> nowhere],
             empty |-> [head |-> NoPage, tail |-> NoPage, unstamped |-> NoPage,
                        next |-> nowhere, prev |-> nowhere],
             freeSlots |-> <<>>, made |-> 0]
  /\ held = {}
  /\ idle = [s \in Slots |-> 0]
  /\ trim = NoTrim

PoolNext ==
  \/ \E n \in Nodes : Receive(n) \/ \E s \in Slots : Confer(s, n)
  \/ Trim \/ TrimAll \/ GiveBack \/ TrimEnds
  \/ Tick

-----------------------------------------------------------------------------
(* Properties                                                              *)

\* The chain that starts at c.head has the pages S and no others, each once,
\* and is linked both ways.
ChainSound(c, S) ==
  /\ c.next \in [Slots -> Slots \cup {NoPage}] /\ c.prev \in [Slots -> Slots \cup {NoPage}]
  /\ c.head \in Slots \cup {NoPage} /\ From(c.next, c.head) = S
  /\ c.head # NoPage => c.prev[c.head] = NoPage
  /\ \A s \in S : c.next[s] # NoPage => c.prev[c.next[s]] = s

\* The empty chain has the pages without a used node.  Those to stamp are its
\* end; of the others an earlier one has been empty for longer, and for as
\* long as its stamp says.
EmptyChainSound ==
  LET c       == pool.empty
      stamped == EmptyPages \ From(c.next, c.unstamped)
  IN /\ ChainSound(c, EmptyPages)
     /\ c.tail = NoPage => c.head = NoPage
     /\ \A s \in EmptyPages : c.next[s] = NoPage <=> s = c.tail
     /\ c.tail # NoPage => c.tail \in EmptyPages
     /\ c.unstamped # NoPage =>
          c.unstamped \in EmptyPages /\ c.tail \in From(c.next, c.unstamped)
     /\ \A s \in stamped :
          /\ idle[s] >= pool.age[s]
          /\ \A x \in EmptyPages : c.next[x] = s => pool.age[x] >= pool.age[s]

\* Each node of a page is either handed out or free, once; the avail chain has
\* the pages with a free node; the slots for reuse are those of the pages that
\* were given back.  A page with a node in use keeps its data.
NodesSound ==
  /\ ChainSound(pool.avail, pool.avail.pages)
  /\ pool.avail.pages = {s \in Slots : pool.free[s] # {}}
  /\ held \subseteq pool.data \X Nodes
  /\ pool.data \subseteq 0 .. pool.made - 1
  /\ \A s \in Slots :
       LET inUse == {n \in Nodes : <<s, n>> \in held}
       IN /\ pool.free[s] = IF s \in pool.data THEN Nodes \ inUse ELSE {}
          /\ s \in pool.data => pool.used[s] = Cardinality(inUse)
  /\ IsInjective(pool.freeSlots)
  /\ ToSet(pool.freeSlots) = (0 .. pool.made - 1) \ pool.data

\* While pages are given back none lacks its stamp, none that was due is
\* younger than it was, and a forced call can afford all of them.
TrimSound ==
  trim.on =>
    /\ pool.empty.unstamped = NoPage
    /\ \A s \in trim.due \cap EmptyPages : pool.age[s] >= trim.hold
    /\ trim.hold = 0 => Cardinality(EmptyPages) <= trim.left

PoolTyped ==
  /\ pool.made \in 0 .. MaxPages /\ pool.freeSlots \in Seq(Slots)
  /\ pool.used \in [Slots -> 0 .. BlockSize]
  /\ pool.age \in [Slots -> 0 .. HoldTime] /\ idle \in [Slots -> 0 .. HoldTime]
  /\ trim \in [on : BOOLEAN, hold : {0, HoldTime}, left : Nat, due : SUBSET Slots]

PagesSound == PoolTyped /\ EmptyChainSound /\ NodesSound /\ TrimSound

\* A page goes back to the system only without a node in use and, unless the
\* host forced it, after having been empty for the whole hold time.
HoldRespected ==
  [][\A s \in pool.data \ pool'.data :
       /\ \A n \in Nodes : <<s, n>> \notin held
       /\ idle[s] >= HoldTime \/ trim.hold = 0]_poolVars

\* A call of TrimMemory(false) that does not use up its budget leaves none of
\* the pages whose time was up when it was made, hidden behind a younger one;
\* TrimMemory(true) leaves no empty page.
TrimGivesBack ==
  [][trim.on /\ ~trim'.on =>
       /\ trim.left > 0 => trim.due \cap EmptyPages = {}
       /\ trim.hold = 0 => EmptyPages = {}]_poolVars

=============================================================================
