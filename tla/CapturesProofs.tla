--------------------------- MODULE CapturesProofs ---------------------------
(***************************************************************************)
(* Proofs about Captures, for every number of lambdas, coroutines and      *)
(* frames: the worker knows the lambda of every frame, the references of   *)
(* executing frames are exact, and what a frame held is not lost with it.  *)
(***************************************************************************)
EXTENDS Captures, DataFacts

-----------------------------------------------------------------------------
(* One stack                                                               *)

NativeOf == [kind : {"lib", "host"}, closure : Callee, frame : Nat \ {0}]

\* What is parked, and what native frames interrupted, on a stack of frames cs.
ParkedOn(x, cs, ps) ==
  \A i \in DOMAIN ps :
    /\ ps[i].ctx = x /\ ps[i].frame < Len(cs) /\ cs[ps[i].frame].closure = ps[i].closure
    /\ \A j \in DOMAIN ps : i < j => ps[i].frame < ps[j].frame

NativesOn(cs, ps, ns) ==
  \A i \in DOMAIN ns :
    /\ ns[i].frame < Len(cs) /\ cs[ns[i].frame].closure = ns[i].closure
    /\ \A j \in DOMAIN ns : i < j => ns[i].frame < ns[j].frame
    /\ \A j \in DOMAIN ps : ps[j].frame # ns[i].frame

NoneLostOn(cs, ps, ns) ==
  \A i \in 1 .. Len(cs) - 1 : cs[i].closure # NoClosure =>
    (\E j \in DOMAIN ps : ps[j].frame = i) \/ (\E j \in DOMAIN ns : ns[j].frame = i)

BacksOn(cs, ns) ==
  \A i \in DOMAIN cs :
    cs[i].back <=> /\ i > 1 /\ cs[i - 1].closure # NoClosure
                   /\ ~ \E j \in DOMAIN ns : ns[j].frame = i - 1

TopOf(cs) == IF cs = <<>> THEN NoClosure ELSE Last(cs).closure

StackSound(x, cs, ps, ns, top) ==
  /\ x \in Ctx /\ cs \in Seq(FrameOf) /\ ps \in Seq(EntryOf) /\ ns \in Seq(NativeOf)
  /\ top = TopOf(cs)
  /\ ParkedOn(x, cs, ps) /\ NativesOn(cs, ps, ns) /\ NoneLostOn(cs, ps, ns) /\ BacksOn(cs, ns)

LEMMA Constants ==
  /\ NoClosure \notin Closure /\ Main \notin Co /\ Null \notin Value
  /\ MaxFrames \in [Ctx -> Nat \ {0}] /\ MaxNatives \in Nat
BY CapturesAssumption DEF Ctx

\* The members of a sequence with one more at its end.
LEMMA Appended ==
  ASSUME NEW S, NEW s \in Seq(S), NEW e \in S
  PROVE  /\ Append(s, e) \in Seq(S)
         /\ Len(s) \in Nat /\ Len(Append(s, e)) = Len(s) + 1
         /\ DOMAIN s = 1 .. Len(s)
         /\ DOMAIN Append(s, e) = 1 .. Len(s) + 1
         /\ Append(s, e) # <<>>
         /\ \A i \in DOMAIN s : Append(s, e)[i] = s[i] /\ s[i] \in S
         /\ Append(s, e)[Len(s) + 1] = e
         /\ Last(Append(s, e)) = e
BY DEF Last

\* ... and with its last one gone.
LEMMA Shortened ==
  ASSUME NEW S, NEW s \in Seq(S), s # <<>>
  PROVE  /\ Front(s) \in Seq(S)
         /\ Len(s) \in Nat \ {0} /\ Len(Front(s)) = Len(s) - 1
         /\ DOMAIN s = 1 .. Len(s)
         /\ DOMAIN Front(s) = 1 .. Len(s) - 1
         /\ \A i \in DOMAIN Front(s) : Front(s)[i] = s[i]
         /\ Last(s) = s[Len(s)] /\ Last(s) \in S
         /\ Len(s) > 1 => Front(s) # <<>> /\ Last(Front(s)) = s[Len(s) - 1]
         /\ Len(s) = 1 => Front(s) = <<>>
<1>1. Len(s) \in Nat \ {0} /\ DOMAIN s = 1 .. Len(s)
  BY EmptySeq
<1>2. /\ Front(s) \in Seq(S) /\ Len(Front(s)) = Len(s) - 1
      /\ \A i \in 1 .. Len(s) - 1 : Front(s)[i] = s[i]
  BY <1>1, SubSeqProperties DEF Front
<1>3. DOMAIN Front(s) = 1 .. Len(s) - 1
  BY <1>1, <1>2
<1>4. Last(s) = s[Len(s)] /\ Last(s) \in S
  BY <1>1, ElementOfSeq DEF Last
<1>5. Len(s) = 1 => Front(s) = <<>>
  BY <1>2, EmptySeq
<1>6. Len(s) > 1 => Front(s) # <<>> /\ Last(Front(s)) = s[Len(s) - 1]
  BY <1>1, <1>2, EmptySeq DEF Last
<1> QED  BY <1>1, <1>2, <1>3, <1>4, <1>5, <1>6

\* A call: what was on top is parked, if it was a lambda's.
LEMMA Pushed ==
  ASSUME NEW x, NEW cs, NEW ps, NEW ns, NEW top, StackSound(x, cs, ps, ns, top),
         cs # <<>>, NEW f \in FrameOf, f.back <=> top # NoClosure
  PROVE  StackSound(x, Append(cs, f), ps \o Entry(top, x, Len(cs)), ns, f.closure)
<1> DEFINE ct == Append(cs, f)
           pt == ps \o Entry(top, x, Len(cs))
<1>1. /\ x \in Ctx /\ cs \in Seq(FrameOf) /\ ps \in Seq(EntryOf) /\ ns \in Seq(NativeOf)
      /\ top = cs[Len(cs)].closure
  BY DEF StackSound, TopOf, Last
<1>2. /\ ct \in Seq(FrameOf) /\ Len(cs) \in Nat \ {0} /\ Len(ct) = Len(cs) + 1
      /\ DOMAIN cs = 1 .. Len(cs) /\ DOMAIN ct = 1 .. Len(cs) + 1
      /\ ct # <<>> /\ Last(ct) = f
      /\ ct[Len(cs) + 1] = f
  BY <1>1, Appended, EmptySeq
<1>3. \A i \in 1 .. Len(cs) : ct[i] = cs[i] /\ cs[i] \in FrameOf
  BY <1>1, <1>2, Appended
<1>4. top \in Callee
  BY <1>1, <1>2, <1>3 DEF FrameOf
<1> HIDE DEF ct
<1>5. /\ \A i \in DOMAIN ps : ps[i] \in EntryOf
      /\ \A i \in DOMAIN ns : ns[i] \in NativeOf
  BY <1>1, ElementOfSeq
<1>6. /\ \A i \in DOMAIN ps : ps[i].frame \in Nat \ {0} /\ ps[i].frame < Len(cs)
      /\ \A i \in DOMAIN ns : ns[i].frame \in Nat \ {0} /\ ns[i].frame < Len(cs)
  BY <1>5 DEF StackSound, ParkedOn, NativesOn, EntryOf, NativeOf
<1>9. Len(cs) \in Nat \ {0}
  BY <1>2
<1>7. CASE top = NoClosure
  <2>1. pt = ps
    BY <1>1, <1>7, ConcatEmptySeq DEF Entry
  <2>2. ParkedOn(x, ct, ps)
    BY <1>2, <1>3, <1>6 DEF StackSound, ParkedOn
  <2>3. NativesOn(ct, ps, ns)
    BY <1>2, <1>3, <1>6 DEF StackSound, NativesOn
  <2>4. NoneLostOn(ct, ps, ns)
    <3> SUFFICES ASSUME NEW i \in 1 .. Len(cs), ct[i].closure # NoClosure
                 PROVE  (\E j \in DOMAIN ps : ps[j].frame = i) \/ (\E j \in DOMAIN ns : ns[j].frame = i)
      BY <1>2 DEF NoneLostOn
    <3>1. i # Len(cs)
      BY <1>1, <1>2, <1>3, <1>7
    <3>2. i \in 1 .. Len(cs) - 1
      BY <3>1, <1>9
    <3>3. cs[i].closure # NoClosure
      BY <1>3
    <3> QED  BY <3>2, <3>3 DEF StackSound, NoneLostOn
  <2>5. BacksOn(ct, ns)
    <3> SUFFICES ASSUME NEW i \in 1 .. Len(cs) + 1
                 PROVE  ct[i].back <=> /\ i > 1 /\ ct[i - 1].closure # NoClosure
                                       /\ ~ \E j \in DOMAIN ns : ns[j].frame = i - 1
      BY <1>2 DEF BacksOn
    <3>1. CASE i = Len(cs) + 1
      <4>1. ~ ct[i].back
        BY <3>1, <1>2, <1>7
      <4>2. ct[i - 1].closure = NoClosure
        <5>1. i - 1 = Len(cs) /\ Len(cs) \in 1 .. Len(cs)
          BY <3>1, <1>9
        <5> QED  BY <5>1, <1>1, <1>3, <1>7
      <4> QED  BY <4>1, <4>2
    <3>2. CASE i \in 1 .. Len(cs)
      <4>1. ct[i].back = cs[i].back
        BY <3>2, <1>3
      <4>2. i > 1 => ct[i - 1].closure = cs[i - 1].closure
        BY <3>2, <1>2, <1>3
      <4> QED  BY <4>1, <4>2, <3>2, <1>2 DEF StackSound, BacksOn
    <3> QED  BY <3>1, <3>2, <1>2
  <2> QED  BY <2>1, <2>2, <2>3, <2>4, <2>5, <1>1, <1>2 DEF StackSound, TopOf, ct
<1>8. CASE top # NoClosure
  <2> DEFINE e == [closure |-> top, ctx |-> x, frame |-> Len(cs)]
  <2>1. e \in EntryOf /\ e.closure = top /\ e.ctx = x /\ e.frame = Len(cs)
    BY <1>1, <1>2, <1>4, <1>8 DEF EntryOf, Callee
  <2>2. pt = Append(ps, e)
    BY <1>1, <1>8, <2>1, AppendIsConcat DEF Entry
  <2> HIDE DEF e
  <2>3. /\ pt \in Seq(EntryOf) /\ Len(ps) \in Nat /\ DOMAIN ps = 1 .. Len(ps)
        /\ DOMAIN pt = 1 .. Len(ps) + 1
        /\ pt[Len(ps) + 1] = e
    BY <1>1, <2>1, <2>2, Appended
  <2>4. \A i \in 1 .. Len(ps) : pt[i] = ps[i]
    BY <1>1, <2>1, <2>2, Appended
  <2> HIDE DEF pt
  <2>5. ParkedOn(x, ct, pt)
    <3> SUFFICES ASSUME NEW i \in 1 .. Len(ps) + 1
                 PROVE  /\ pt[i].ctx = x /\ pt[i].frame < Len(ct) /\ ct[pt[i].frame].closure = pt[i].closure
                        /\ \A j \in 1 .. Len(ps) + 1 : i < j => pt[i].frame < pt[j].frame
      BY <2>3 DEF ParkedOn
    <3>1. CASE i = Len(ps) + 1
      BY <3>1, <2>1, <2>3, <1>1, <1>2, <1>3
    <3>2. CASE i \in 1 .. Len(ps)
      <4>1. /\ ps[i].ctx = x /\ ps[i].frame < Len(cs) /\ cs[ps[i].frame].closure = ps[i].closure
            /\ \A j \in 1 .. Len(ps) : i < j => ps[i].frame < ps[j].frame
        BY <3>2, <2>3 DEF StackSound, ParkedOn
      <4>2. pt[i] = ps[i] /\ ps[i].frame \in Nat \ {0}
        BY <3>2, <2>3, <2>4, <1>6
      <4>3. ct[ps[i].frame] = cs[ps[i].frame] /\ ps[i].frame < Len(ct)
        BY <4>1, <4>2, <1>2, <1>3
      <4>4. ASSUME NEW j \in 1 .. Len(ps) + 1, i < j
            PROVE  ps[i].frame < pt[j].frame
        BY <4>1, <4>4, <2>1, <2>3, <2>4
      <4> QED  BY <4>1, <4>2, <4>3, <4>4
    <3> QED  BY <3>1, <3>2, <2>3
  <2>6. NativesOn(ct, pt, ns)
    <3> SUFFICES ASSUME NEW i \in DOMAIN ns
                 PROVE  /\ ns[i].frame < Len(ct) /\ ct[ns[i].frame].closure = ns[i].closure
                        /\ \A j \in DOMAIN ns : i < j => ns[i].frame < ns[j].frame
                        /\ \A j \in DOMAIN pt : pt[j].frame # ns[i].frame
      BY DEF NativesOn
    <3>1. /\ ns[i].frame < Len(cs) /\ cs[ns[i].frame].closure = ns[i].closure
          /\ \A j \in DOMAIN ns : i < j => ns[i].frame < ns[j].frame
          /\ \A j \in DOMAIN ps : ps[j].frame # ns[i].frame
      BY DEF StackSound, NativesOn
    <3>2. ct[ns[i].frame] = cs[ns[i].frame] /\ ns[i].frame < Len(ct) /\ ns[i].frame \in Nat
      BY <3>1, <1>2, <1>3, <1>6
    <3>3. \A j \in 1 .. Len(ps) + 1 : pt[j].frame # ns[i].frame
      BY <3>1, <3>2, <2>1, <2>3, <2>4, <1>2
    <3> QED  BY <3>1, <3>2, <3>3, <2>3
  <2>7. NoneLostOn(ct, pt, ns)
    <3> SUFFICES ASSUME NEW i \in 1 .. Len(cs), ct[i].closure # NoClosure
                 PROVE  (\E j \in DOMAIN pt : pt[j].frame = i) \/ (\E j \in DOMAIN ns : ns[j].frame = i)
      BY <1>2 DEF NoneLostOn
    <3>1. CASE i = Len(cs)
      BY <3>1, <2>1, <2>3
    <3>2. CASE i \in 1 .. Len(cs) - 1
      <4>1. (\E j \in DOMAIN ps : ps[j].frame = i) \/ (\E j \in DOMAIN ns : ns[j].frame = i)
        BY <3>2, <1>2, <1>3 DEF StackSound, NoneLostOn
      <4>2. \A j \in DOMAIN ps : j \in DOMAIN pt /\ pt[j] = ps[j]
        BY <2>3, <2>4
      <4> QED  BY <4>1, <4>2
    <3>3. i = Len(cs) \/ i \in 1 .. Len(cs) - 1
      BY <1>9
    <3> QED  BY <3>1, <3>2, <3>3
  <2>8. BacksOn(ct, ns)
    <3> SUFFICES ASSUME NEW i \in 1 .. Len(cs) + 1
                 PROVE  ct[i].back <=> /\ i > 1 /\ ct[i - 1].closure # NoClosure
                                       /\ ~ \E j \in DOMAIN ns : ns[j].frame = i - 1
      BY <1>2 DEF BacksOn
    <3>1. CASE i = Len(cs) + 1
      <4>1. ct[i].back /\ i > 1 /\ ct[i - 1].closure # NoClosure
        BY <3>1, <1>1, <1>2, <1>3, <1>8
      <4>2. \A j \in DOMAIN ns : ns[j].frame # i - 1
        BY <3>1, <1>2, <1>6
      <4> QED  BY <4>1, <4>2
    <3>2. CASE i \in 1 .. Len(cs)
      <4>1. ct[i].back = cs[i].back
        BY <3>2, <1>3
      <4>2. i > 1 => ct[i - 1].closure = cs[i - 1].closure
        BY <3>2, <1>2, <1>3
      <4> QED  BY <4>1, <4>2, <3>2, <1>2 DEF StackSound, BacksOn
    <3>3. i = Len(cs) + 1 \/ i \in 1 .. Len(cs)
      BY <1>9
    <3> QED  BY <3>1, <3>2, <3>3
  <2> QED  BY <2>3, <2>5, <2>6, <2>7, <2>8, <1>1, <1>2 DEF StackSound, TopOf, ct, pt
<1> QED  BY <1>7, <1>8

\* What the parts of StackSound say, element by element.
LEMMA StackFacts ==
  ASSUME NEW x, NEW cs, NEW ps, NEW ns, NEW top, StackSound(x, cs, ps, ns, top)
  PROVE  /\ Len(cs) \in Nat /\ DOMAIN cs = 1 .. Len(cs) /\ (cs # <<>> <=> Len(cs) # 0)
         /\ Len(ps) \in Nat /\ DOMAIN ps = 1 .. Len(ps) /\ (ps # <<>> <=> Len(ps) # 0)
         /\ Len(ns) \in Nat /\ DOMAIN ns = 1 .. Len(ns) /\ (ns # <<>> <=> Len(ns) # 0)
         /\ \A i \in DOMAIN cs : cs[i] \in FrameOf
         /\ \A i \in DOMAIN ps :
              /\ ps[i] \in EntryOf /\ ps[i].frame \in 1 .. Len(cs) - 1
              /\ ps[i].closure \in Closure /\ ps[i].closure # NoClosure
         /\ \A i \in DOMAIN ns : ns[i] \in NativeOf /\ ns[i].frame \in 1 .. Len(cs) - 1
         /\ top \in Callee
         /\ cs # <<>> => top = cs[Len(cs)].closure
<1>1. /\ cs \in Seq(FrameOf) /\ ps \in Seq(EntryOf) /\ ns \in Seq(NativeOf)
      /\ top = TopOf(cs)
  BY DEF StackSound
<1>2. /\ Len(cs) \in Nat /\ DOMAIN cs = 1 .. Len(cs) /\ (cs # <<>> <=> Len(cs) # 0)
      /\ \A i \in DOMAIN cs : cs[i] \in FrameOf
  BY <1>1, EmptySeq, ElementOfSeq
<1>3. /\ Len(ps) \in Nat /\ DOMAIN ps = 1 .. Len(ps) /\ (ps # <<>> <=> Len(ps) # 0)
      /\ \A i \in DOMAIN ps : ps[i] \in EntryOf
  BY <1>1, EmptySeq, ElementOfSeq
<1>4. /\ Len(ns) \in Nat /\ DOMAIN ns = 1 .. Len(ns) /\ (ns # <<>> <=> Len(ns) # 0)
      /\ \A i \in DOMAIN ns : ns[i] \in NativeOf
  BY <1>1, EmptySeq, ElementOfSeq
<1>5. ASSUME NEW i \in DOMAIN ps
      PROVE  ps[i].frame \in 1 .. Len(cs) - 1 /\ ps[i].closure \in Closure /\ ps[i].closure # NoClosure
  <2>1. ps[i].frame \in Nat \ {0} /\ ps[i].closure \in Closure
    BY <1>3, <1>5 DEF EntryOf
  <2>2. ps[i].frame < Len(cs)
    BY <1>5 DEF StackSound, ParkedOn
  <2> QED  BY <2>1, <2>2, <1>2, Constants
<1>6. ASSUME NEW i \in DOMAIN ns
      PROVE  ns[i].frame \in 1 .. Len(cs) - 1
  <2>1. ns[i].frame \in Nat \ {0}
    BY <1>4, <1>6 DEF NativeOf
  <2>2. ns[i].frame < Len(cs)
    BY <1>6 DEF StackSound, NativesOn
  <2> QED  BY <2>1, <2>2, <1>2
<1>7. cs # <<>> => top = cs[Len(cs)].closure
  BY <1>1 DEF TopOf, Last
<1>8. top \in Callee
  <2>1. CASE cs = <<>>
    BY <2>1, <1>1 DEF TopOf, Callee
  <2>2. CASE cs # <<>>
    <3>1. Len(cs) \in DOMAIN cs
      BY <2>2, <1>2
    <3> QED  BY <3>1, <2>2, <1>2, <1>7 DEF FrameOf
  <2> QED  BY <2>1, <2>2
<1> QED  BY <1>2, <1>3, <1>4, <1>5, <1>6, <1>7, <1>8

\* A return: the lambda below is unparked, if the frame below is a lambda's.
LEMMA Popped ==
  ASSUME NEW x, NEW cs, NEW ps, NEW ns, NEW top, StackSound(x, cs, ps, ns, top),
         Len(cs) > 1, \A i \in DOMAIN ns : ns[i].frame < Len(cs) - 1
  PROVE  IF Last(cs).back
         THEN /\ ps # <<>> /\ Last(ps).closure \in Closure
              /\ StackSound(x, Front(cs), Front(ps), ns, Last(ps).closure)
         ELSE StackSound(x, Front(cs), ps, ns, NoClosure)
<1> DEFINE n == Len(cs)
           ct == Front(cs)
           pt == Front(ps)
<1>1. /\ x \in Ctx /\ cs \in Seq(FrameOf) /\ ps \in Seq(EntryOf) /\ ns \in Seq(NativeOf)
  BY DEF StackSound
<1>2. /\ n \in Nat /\ n > 1 /\ DOMAIN cs = 1 .. n /\ cs # <<>>
      /\ Len(ps) \in Nat /\ DOMAIN ps = 1 .. Len(ps) /\ DOMAIN ns = 1 .. Len(ns)
  BY StackFacts
<1>3. /\ ct \in Seq(FrameOf) /\ Len(ct) = n - 1 /\ DOMAIN ct = 1 .. n - 1
      /\ Last(cs) = cs[n] /\ ct # <<>> /\ Last(ct) = cs[n - 1]
  BY <1>1, <1>2, Shortened
<1>4. \A i \in 1 .. n - 1 : ct[i] = cs[i]
  BY <1>1, <1>2, Shortened
<1>5. /\ \A i \in DOMAIN ps : /\ ps[i].frame \in 1 .. n - 1
                              /\ ps[i].closure \in Closure /\ ps[i].closure # NoClosure
      /\ \A i \in DOMAIN ns : ns[i].frame \in 1 .. n - 1
  BY StackFacts
<1>6. TopOf(ct) = cs[n - 1].closure
  BY <1>3 DEF TopOf
<1> HIDE DEF ct, n
<1>7. \A i \in DOMAIN ns : ns[i].frame \in 1 .. n - 2
  BY <1>2, <1>5 DEF n
<1>8. cs[n].back <=> cs[n - 1].closure # NoClosure
  <2>1. n \in DOMAIN cs /\ ~ \E j \in DOMAIN ns : ns[j].frame = n - 1
    BY <1>2, <1>7
  <2> QED  BY <2>1, <1>2 DEF StackSound, BacksOn
<1>9. BacksOn(ct, ns)
  <2> SUFFICES ASSUME NEW i \in 1 .. n - 1
               PROVE  ct[i].back <=> /\ i > 1 /\ ct[i - 1].closure # NoClosure
                                     /\ ~ \E j \in DOMAIN ns : ns[j].frame = i - 1
    BY <1>3 DEF BacksOn
  <2>1. i \in 1 .. n /\ (i > 1 => i - 1 \in 1 .. n - 1)
    BY <1>2
  <2>2. ct[i].back = cs[i].back /\ (i > 1 => ct[i - 1].closure = cs[i - 1].closure)
    BY <2>1, <1>4
  <2> QED  BY <2>1, <2>2, <1>2 DEF StackSound, BacksOn
<1>10. CASE cs[n].back
  <2>1. PICK j \in DOMAIN ps : ps[j].frame = n - 1
    <3>1. n - 1 \in 1 .. n - 1 /\ cs[n - 1].closure # NoClosure
      BY <1>2, <1>8, <1>10
    <3>2. ~ \E i \in DOMAIN ns : ns[i].frame = n - 1
      BY <1>2, <1>7
    <3> QED  BY <3>1, <3>2 DEF StackSound, NoneLostOn, n
  <2>2. ps # <<>> /\ Len(ps) \in DOMAIN ps
    BY <2>1, <1>2, StackFacts
  <2>3. j = Len(ps)
    <3>1. j < Len(ps) => ps[j].frame < ps[Len(ps)].frame
      BY <2>2 DEF StackSound, ParkedOn
    <3> QED  BY <3>1, <2>1, <2>2, <1>2, <1>5
  <2>4. /\ pt \in Seq(EntryOf) /\ DOMAIN pt = 1 .. Len(ps) - 1
        /\ Last(ps) = ps[Len(ps)]
    BY <2>2, <1>1, Shortened
  <2>5. \A i \in 1 .. Len(ps) - 1 : pt[i] = ps[i] /\ i \in DOMAIN ps
    <3>1. \A i \in DOMAIN pt : pt[i] = ps[i]
      BY <2>2, <1>1, Shortened
    <3>2. Len(ps) \in Nat
      BY <1>2
    <3>3. \A i \in 1 .. Len(ps) - 1 : i \in 1 .. Len(ps)
      BY <3>2
    <3> QED  BY <3>1, <3>3, <2>4, <1>2
  <2> HIDE DEF pt
  <2>6. Last(ps).closure = cs[n - 1].closure /\ Last(ps).closure \in Closure
    BY <2>1, <2>2, <2>3, <2>4, <1>5 DEF StackSound, ParkedOn
  <2>7. ParkedOn(x, ct, pt)
    <3> SUFFICES ASSUME NEW i \in 1 .. Len(ps) - 1
                 PROVE  /\ ps[i].ctx = x /\ ps[i].frame < n - 1 /\ ct[ps[i].frame].closure = ps[i].closure
                        /\ \A k \in 1 .. Len(ps) - 1 : i < k => ps[i].frame < ps[k].frame
      BY <2>4, <2>5, <1>3 DEF ParkedOn
    <3>1. /\ ps[i].ctx = x /\ cs[ps[i].frame].closure = ps[i].closure
          /\ \A k \in DOMAIN ps : i < k => ps[i].frame < ps[k].frame
      BY <2>5 DEF StackSound, ParkedOn
    <3>2. i < Len(ps)
      BY <1>2
    <3>3. ps[i].frame < n - 1 /\ ps[i].frame \in 1 .. n - 1
      BY <3>1, <3>2, <2>1, <2>2, <2>3, <2>5, <1>5
    <3> QED  BY <3>1, <3>3, <2>5, <1>4
  <2>8. NativesOn(ct, pt, ns)
    <3> SUFFICES ASSUME NEW i \in DOMAIN ns
                 PROVE  /\ ns[i].frame < n - 1 /\ ct[ns[i].frame].closure = ns[i].closure
                        /\ \A k \in DOMAIN ns : i < k => ns[i].frame < ns[k].frame
                        /\ \A k \in 1 .. Len(ps) - 1 : pt[k].frame # ns[i].frame
      BY <2>4, <1>3 DEF NativesOn
    <3>1. /\ cs[ns[i].frame].closure = ns[i].closure
          /\ \A k \in DOMAIN ns : i < k => ns[i].frame < ns[k].frame
          /\ \A k \in DOMAIN ps : ps[k].frame # ns[i].frame
      BY DEF StackSound, NativesOn
    <3>2. ns[i].frame \in 1 .. n - 1 /\ ns[i].frame < n - 1
      BY <1>2, <1>7
    <3> QED  BY <3>1, <3>2, <2>5, <1>4
  <2>9. NoneLostOn(ct, pt, ns)
    <3> SUFFICES ASSUME NEW i \in 1 .. n - 2, ct[i].closure # NoClosure
                 PROVE  (\E k \in DOMAIN pt : pt[k].frame = i) \/ (\E k \in DOMAIN ns : ns[k].frame = i)
      BY <1>2, <1>3 DEF NoneLostOn
    <3>1. i \in 1 .. n - 1 /\ i # n - 1
      BY <1>2
    <3>2. (\E k \in DOMAIN ps : ps[k].frame = i) \/ (\E k \in DOMAIN ns : ns[k].frame = i)
      BY <3>1, <1>4 DEF StackSound, NoneLostOn, n
    <3>3. ASSUME NEW k \in DOMAIN ps, ps[k].frame = i
          PROVE  k \in 1 .. Len(ps) - 1
      BY <3>1, <3>3, <2>1, <2>3, <1>2
    <3> QED  BY <3>2, <3>3, <2>4, <2>5
  <2> QED  BY <2>2, <2>4, <2>6, <2>7, <2>8, <2>9, <1>1, <1>3, <1>6, <1>9, <1>10 DEF StackSound, ct, pt
<1>11. CASE ~ cs[n].back
  <2>1. cs[n - 1].closure = NoClosure
    BY <1>8, <1>11
  <2>2. \A i \in DOMAIN ps : ps[i].frame < n - 1
    <3> SUFFICES ASSUME NEW i \in DOMAIN ps
                 PROVE  ps[i].frame < n - 1
      OBVIOUS
    <3>1. cs[ps[i].frame].closure = ps[i].closure
      BY DEF StackSound, ParkedOn
    <3>2. ps[i].frame # n - 1
      BY <3>1, <2>1, <1>5
    <3> QED  BY <3>2, <1>2, <1>5
  <2>3. ParkedOn(x, ct, ps)
    BY <2>2, <1>3, <1>4, <1>5 DEF StackSound, ParkedOn
  <2>4. NativesOn(ct, ps, ns)
    <3>1. \A i \in DOMAIN ns : ns[i].frame < n - 1
      BY <1>2, <1>7
    <3> QED  BY <3>1, <1>3, <1>4, <1>5 DEF StackSound, NativesOn
  <2>5. NoneLostOn(ct, ps, ns)
    <3> SUFFICES ASSUME NEW i \in 1 .. n - 2, ct[i].closure # NoClosure
                 PROVE  (\E k \in DOMAIN ps : ps[k].frame = i) \/ (\E k \in DOMAIN ns : ns[k].frame = i)
      BY <1>2, <1>3 DEF NoneLostOn
    <3>1. i \in 1 .. n - 1
      BY <1>2
    <3> QED  BY <3>1, <1>4 DEF StackSound, NoneLostOn, n
  <2> QED  BY <2>1, <2>3, <2>4, <2>5, <1>1, <1>3, <1>6, <1>9, <1>11 DEF StackSound, ct
<1> QED  BY <1>3, <1>10, <1>11

-----------------------------------------------------------------------------
(* Callbacks, and stacks that begin, end and are written to                *)

\* A native frame calls back: what was on top is put aside, not parked.
LEMMA Entered ==
  ASSUME NEW x, NEW cs, NEW ps, NEW ns, NEW top, StackSound(x, cs, ps, ns, top),
         cs # <<>>, NEW f \in FrameOf, ~ f.back,
         NEW e \in NativeOf, e.closure = top, e.frame = Len(cs)
  PROVE  StackSound(x, Append(cs, f), ps, Append(ns, e), f.closure)
<1> DEFINE ct == Append(cs, f)
           nt == Append(ns, e)
<1>1. x \in Ctx /\ cs \in Seq(FrameOf) /\ ps \in Seq(EntryOf) /\ ns \in Seq(NativeOf)
  BY DEF StackSound
<1>2. /\ ct \in Seq(FrameOf) /\ Len(ct) = Len(cs) + 1
      /\ DOMAIN cs = 1 .. Len(cs) /\ DOMAIN ct = 1 .. Len(cs) + 1
      /\ ct # <<>> /\ Last(ct) = f /\ ct[Len(cs) + 1] = f
  BY <1>1, Appended
<1>3. \A i \in 1 .. Len(cs) : ct[i] = cs[i]
  BY <1>1, <1>2, Appended
<1>4. /\ nt \in Seq(NativeOf) /\ Len(ns) \in Nat /\ DOMAIN ns = 1 .. Len(ns)
      /\ DOMAIN nt = 1 .. Len(ns) + 1 /\ nt[Len(ns) + 1] = e
  BY <1>1, Appended
<1>5. \A i \in 1 .. Len(ns) : nt[i] = ns[i]
  BY <1>1, <1>4, Appended
<1> HIDE DEF ct, nt
<1>6. Len(cs) \in Nat \ {0} /\ top = cs[Len(cs)].closure
  BY StackFacts
<1>7. /\ \A i \in DOMAIN ps : ps[i].frame \in 1 .. Len(cs) - 1
      /\ \A i \in DOMAIN ns : ns[i].frame \in 1 .. Len(cs) - 1
  BY StackFacts
<1>8. ParkedOn(x, ct, ps)
  <2> SUFFICES ASSUME NEW i \in DOMAIN ps
               PROVE  /\ ps[i].frame < Len(cs) + 1
                      /\ ct[ps[i].frame] = cs[ps[i].frame]
    BY <1>2 DEF StackSound, ParkedOn
  <2> QED  BY <1>3, <1>6, <1>7
<1>9. NativesOn(ct, ps, nt)
  <2> SUFFICES ASSUME NEW i \in 1 .. Len(ns) + 1
               PROVE  /\ nt[i].frame < Len(cs) + 1 /\ ct[nt[i].frame].closure = nt[i].closure
                      /\ \A j \in 1 .. Len(ns) + 1 : i < j => nt[i].frame < nt[j].frame
                      /\ \A j \in DOMAIN ps : ps[j].frame # nt[i].frame
    BY <1>2, <1>4 DEF NativesOn
  <2>1. CASE i = Len(ns) + 1
    <3>1. nt[i] = e /\ ct[Len(cs)] = cs[Len(cs)]
      BY <2>1, <1>3, <1>4, <1>6
    <3>2. \A j \in 1 .. Len(ns) + 1 : ~(i < j)
      BY <2>1, <1>4
    <3>3. \A j \in DOMAIN ps : ps[j].frame # Len(cs)
      BY <1>6, <1>7
    <3> QED  BY <3>1, <3>2, <3>3, <1>6
  <2>2. CASE i \in 1 .. Len(ns)
    <3>1. /\ cs[ns[i].frame].closure = ns[i].closure
          /\ \A j \in DOMAIN ns : i < j => ns[i].frame < ns[j].frame
          /\ \A j \in DOMAIN ps : ps[j].frame # ns[i].frame
      BY <2>2, <1>4 DEF StackSound, NativesOn
    <3>2. nt[i] = ns[i] /\ ns[i].frame \in 1 .. Len(cs) - 1
      BY <2>2, <1>4, <1>5, <1>7
    <3>3. ns[i].frame < Len(cs) + 1 /\ ns[i].frame < Len(cs) /\ ct[ns[i].frame] = cs[ns[i].frame]
      BY <3>2, <1>3, <1>6
    <3>4. ASSUME NEW j \in 1 .. Len(ns) + 1, i < j
          PROVE  ns[i].frame < nt[j].frame
      <4>1. CASE j = Len(ns) + 1
        BY <4>1, <3>3, <1>4
      <4>2. CASE j \in 1 .. Len(ns)
        BY <4>2, <3>1, <3>4, <1>4, <1>5
      <4> QED  BY <4>1, <4>2, <1>4
    <3> QED  BY <3>1, <3>2, <3>3, <3>4
  <2>3. i = Len(ns) + 1 \/ i \in 1 .. Len(ns)
    BY <1>4
  <2> QED  BY <2>1, <2>2, <2>3
<1>10. NoneLostOn(ct, ps, nt)
  <2> SUFFICES ASSUME NEW i \in 1 .. Len(cs), ct[i].closure # NoClosure
               PROVE  (\E j \in DOMAIN ps : ps[j].frame = i) \/ (\E j \in DOMAIN nt : nt[j].frame = i)
    <3>1. Len(ct) - 1 = Len(cs)
      BY <1>2, <1>6
    <3> QED  BY <3>1 DEF NoneLostOn
  <2>1. CASE i = Len(cs)
    BY <2>1, <1>4
  <2>2. CASE i \in 1 .. Len(cs) - 1
    <3>1. (\E j \in DOMAIN ps : ps[j].frame = i) \/ (\E j \in DOMAIN ns : ns[j].frame = i)
      BY <2>2, <1>3 DEF StackSound, NoneLostOn
    <3>2. \A j \in DOMAIN ns : j \in DOMAIN nt /\ nt[j] = ns[j]
      BY <1>4, <1>5
    <3> QED  BY <3>1, <3>2
  <2>3. i = Len(cs) \/ i \in 1 .. Len(cs) - 1
    BY <1>6
  <2> QED  BY <2>1, <2>2, <2>3
<1>11. BacksOn(ct, nt)
  <2> SUFFICES ASSUME NEW i \in 1 .. Len(cs) + 1
               PROVE  ct[i].back <=> /\ i > 1 /\ ct[i - 1].closure # NoClosure
                                     /\ ~ \E j \in DOMAIN nt : nt[j].frame = i - 1
    BY <1>2 DEF BacksOn
  <2>1. CASE i = Len(cs) + 1
    <3>1. ~ ct[i].back /\ nt[Len(ns) + 1].frame = i - 1
      BY <2>1, <1>2, <1>4, <1>6
    <3> QED  BY <3>1, <1>4
  <2>2. CASE i \in 1 .. Len(cs)
    <3>1. ct[i].back = cs[i].back
      BY <2>2, <1>3
    <3>2. i > 1 => ct[i - 1].closure = cs[i - 1].closure
      <4>1. i > 1 => i - 1 \in 1 .. Len(cs)
        BY <2>2, <1>6
      <4> QED  BY <4>1, <1>3
    <3>3. (\E j \in DOMAIN nt : nt[j].frame = i - 1) <=> (\E j \in DOMAIN ns : ns[j].frame = i - 1)
      <4>1. nt[Len(ns) + 1].frame # i - 1
        BY <2>2, <1>4, <1>6
      <4>2. \A j \in DOMAIN nt : j = Len(ns) + 1 \/ j \in DOMAIN ns
        BY <1>4
      <4>3. \A j \in DOMAIN ns : j \in DOMAIN nt /\ nt[j] = ns[j]
        BY <1>4, <1>5
      <4> QED  BY <4>1, <4>2, <4>3
    <3> QED  BY <3>1, <3>2, <3>3, <2>2, <1>2 DEF StackSound, BacksOn
  <2>3. i = Len(cs) + 1 \/ i \in 1 .. Len(cs)
    BY <1>6
  <2> QED  BY <2>1, <2>2, <2>3
<1> QED  BY <1>1, <1>2, <1>4, <1>8, <1>9, <1>10, <1>11 DEF StackSound, TopOf, ct, nt

\* The callback returns: what was put aside is on top again.
LEMMA LeftNative ==
  ASSUME NEW x, NEW cs, NEW ps, NEW ns, NEW top, StackSound(x, cs, ps, ns, top),
         ns # <<>>, Last(ns).frame = Len(cs) - 1
  PROVE  /\ Last(ns).closure \in Callee
         /\ StackSound(x, Front(cs), ps, Front(ns), Last(ns).closure)
<1> DEFINE n == Len(cs)
           m == Len(ns)
           ct == Front(cs)
           nt == Front(ns)
<1>1. x \in Ctx /\ cs \in Seq(FrameOf) /\ ps \in Seq(EntryOf) /\ ns \in Seq(NativeOf)
  BY DEF StackSound
<1>2. /\ nt \in Seq(NativeOf) /\ DOMAIN nt = 1 .. m - 1 /\ m \in Nat \ {0}
      /\ DOMAIN ns = 1 .. m /\ Last(ns) = ns[m] /\ Last(ns) \in NativeOf
  BY <1>1, Shortened
<1>3. \A i \in 1 .. m - 1 : nt[i] = ns[i]
  BY <1>1, <1>2, Shortened
<1>4. n \in Nat /\ n > 1 /\ cs # <<>>
  <2>1. n \in Nat /\ (cs # <<>> <=> n # 0) /\ ns[m].frame \in 1 .. n - 1
    BY <1>2, StackFacts
  <2> QED  BY <2>1
<1>5. /\ ct \in Seq(FrameOf) /\ Len(ct) = n - 1 /\ DOMAIN ct = 1 .. n - 1 /\ DOMAIN cs = 1 .. n
      /\ ct # <<>> /\ Last(ct) = cs[n - 1]
  BY <1>1, <1>4, Shortened
<1>6. \A i \in 1 .. n - 1 : ct[i] = cs[i]
  BY <1>1, <1>4, Shortened
<1>7. /\ \A i \in DOMAIN ps : ps[i].frame \in 1 .. n - 1
      /\ \A i \in DOMAIN ns : ns[i].frame \in 1 .. n - 1
  BY StackFacts
<1>8. /\ ns[m].frame = n - 1 /\ cs[n - 1].closure = Last(ns).closure
      /\ \A j \in DOMAIN ps : ps[j].frame # n - 1
  BY <1>2 DEF StackSound, NativesOn
<1>9. \A i \in 1 .. m - 1 : ns[i].frame < n - 1
  <2>1. \A i \in 1 .. m - 1 : i \in DOMAIN ns /\ m \in DOMAIN ns /\ i < m
    BY <1>2
  <2>2. \A i, j \in DOMAIN ns : i < j => ns[i].frame < ns[j].frame
    BY DEF StackSound, NativesOn
  <2> QED  BY <2>1, <2>2, <1>8
<1>10. Last(ns).closure \in Callee
  BY <1>2 DEF NativeOf
<1> HIDE DEF ct, nt, n, m
<1>11. ParkedOn(x, ct, ps)
  <2> SUFFICES ASSUME NEW i \in DOMAIN ps
               PROVE  ps[i].frame < n - 1 /\ ct[ps[i].frame] = cs[ps[i].frame]
    BY <1>5 DEF StackSound, ParkedOn
  <2> QED  BY <1>4, <1>6, <1>7, <1>8
<1>12. NativesOn(ct, ps, nt)
  <2> SUFFICES ASSUME NEW i \in 1 .. m - 1
               PROVE  /\ ns[i].frame < n - 1 /\ ct[ns[i].frame].closure = ns[i].closure
                      /\ \A j \in 1 .. m - 1 : i < j => ns[i].frame < ns[j].frame
                      /\ \A j \in DOMAIN ps : ps[j].frame # ns[i].frame
    BY <1>2, <1>3, <1>5 DEF NativesOn
  <2>1. i \in DOMAIN ns /\ \A j \in 1 .. m - 1 : j \in DOMAIN ns
    BY <1>2
  <2>2. /\ cs[ns[i].frame].closure = ns[i].closure
        /\ \A j \in DOMAIN ns : i < j => ns[i].frame < ns[j].frame
        /\ \A j \in DOMAIN ps : ps[j].frame # ns[i].frame
    BY <2>1 DEF StackSound, NativesOn
  <2>3. ns[i].frame \in 1 .. n - 1
    BY <2>1, <1>7
  <2> QED  BY <2>1, <2>2, <2>3, <1>6, <1>9
<1>13. NoneLostOn(ct, ps, nt)
  <2> SUFFICES ASSUME NEW i \in 1 .. n - 2, ct[i].closure # NoClosure
               PROVE  (\E j \in DOMAIN ps : ps[j].frame = i) \/ (\E j \in DOMAIN nt : nt[j].frame = i)
    <3>1. Len(ct) - 1 = n - 2
      BY <1>4, <1>5
    <3> QED  BY <3>1 DEF NoneLostOn
  <2>1. i \in 1 .. n - 1 /\ i # n - 1
    BY <1>4
  <2>2. (\E j \in DOMAIN ps : ps[j].frame = i) \/ (\E j \in DOMAIN ns : ns[j].frame = i)
    BY <2>1, <1>6 DEF StackSound, NoneLostOn, n
  <2>3. ASSUME NEW j \in DOMAIN ns, ns[j].frame = i
        PROVE  j \in DOMAIN nt /\ nt[j] = ns[j]
    <3>1. j \in 1 .. m - 1
      BY <2>1, <2>3, <1>2, <1>8
    <3> QED  BY <3>1, <1>2, <1>3
  <2> QED  BY <2>2, <2>3
<1>14. BacksOn(ct, nt)
  <2> SUFFICES ASSUME NEW i \in 1 .. n - 1
               PROVE  ct[i].back <=> /\ i > 1 /\ ct[i - 1].closure # NoClosure
                                     /\ ~ \E j \in DOMAIN nt : nt[j].frame = i - 1
    BY <1>5 DEF BacksOn
  <2>1. i \in 1 .. n /\ (i > 1 => i - 1 \in 1 .. n - 1) /\ i - 1 # n - 1
    BY <1>4
  <2>2. ct[i].back = cs[i].back /\ (i > 1 => ct[i - 1].closure = cs[i - 1].closure)
    BY <2>1, <1>6
  <2>3. (\E j \in DOMAIN nt : nt[j].frame = i - 1) <=> (\E j \in DOMAIN ns : ns[j].frame = i - 1)
    <3>1. \A j \in DOMAIN nt : j \in DOMAIN ns /\ nt[j] = ns[j]
      BY <1>2, <1>3
    <3>2. \A j \in DOMAIN ns : j \in DOMAIN nt \/ j = m
      BY <1>2
    <3> QED  BY <3>1, <3>2, <2>1, <1>8
  <2> QED  BY <2>1, <2>2, <2>3, <1>5 DEF StackSound, BacksOn
<1>15. Last(ns).closure = TopOf(ct)
  BY <1>5, <1>8 DEF TopOf
<1> QED  BY <1>1, <1>2, <1>5, <1>10, <1>11, <1>12, <1>13, <1>14, <1>15 DEF StackSound, ct, nt

\* The first frame of a stack.
LEMMA Begun ==
  ASSUME NEW x \in Ctx, NEW f \in FrameOf, ~ f.back
  PROVE  StackSound(x, <<f>>, <<>>, <<>>, f.closure)
<1>1. /\ <<f>> \in Seq(FrameOf) /\ Len(<<f>>) = 1 /\ DOMAIN <<f>> = {1} /\ <<f>> # <<>>
      /\ <<f>>[1] = f
  OBVIOUS
<1>2. /\ <<>> \in Seq(EntryOf) /\ <<>> \in Seq(NativeOf) /\ DOMAIN <<>> = {}
  OBVIOUS
<1>3. TopOf(<<f>>) = f.closure
  BY <1>1 DEF TopOf, Last
<1>4. ParkedOn(x, <<f>>, <<>>) /\ NativesOn(<<f>>, <<>>, <<>>)
  BY <1>2 DEF ParkedOn, NativesOn
<1>5. NoneLostOn(<<f>>, <<>>, <<>>)
  BY <1>1 DEF NoneLostOn
<1>6. BacksOn(<<f>>, <<>>)
  BY <1>1 DEF BacksOn
<1> QED  BY <1>1, <1>2, <1>3, <1>4, <1>5, <1>6 DEF StackSound

\* A stack without frames.
LEMMA Emptied ==
  ASSUME NEW x \in Ctx
  PROVE  StackSound(x, <<>>, <<>>, <<>>, NoClosure)
<1>1. /\ <<>> \in Seq(FrameOf) /\ <<>> \in Seq(EntryOf) /\ <<>> \in Seq(NativeOf)
      /\ DOMAIN <<>> = {} /\ Len(<<>>) = 0
  OBVIOUS
<1>2. NoneLostOn(<<>>, <<>>, <<>>)
  BY <1>1 DEF NoneLostOn
<1> QED  BY <1>1, <1>2 DEF StackSound, ParkedOn, NativesOn, BacksOn, TopOf

\* Of a stack with one frame or none, nothing is parked.
LEMMA ShortStack ==
  ASSUME NEW x, NEW cs, NEW ps, NEW ns, NEW top, StackSound(x, cs, ps, ns, top), Len(cs) <= 1
  PROVE  ps = <<>> /\ ns = <<>> /\ (cs = <<>> => top = NoClosure)
<1>1. Len(cs) = 0 \/ Len(cs) = 1
  <2>1. Len(cs) \in Nat
    BY StackFacts
  <2> QED  BY <2>1
<1>2. ps = <<>>
  <2>1. (ps # <<>> => 1 \in DOMAIN ps) /\ \A i \in DOMAIN ps : ps[i].frame \in 1 .. Len(cs) - 1
    BY StackFacts
  <2> QED  BY <2>1, <1>1
<1>3. ns = <<>>
  <2>1. (ns # <<>> => 1 \in DOMAIN ns) /\ \A i \in DOMAIN ns : ns[i].frame \in 1 .. Len(cs) - 1
    BY StackFacts
  <2> QED  BY <2>1, <1>1
<1> QED  BY <1>2, <1>3 DEF StackSound, TopOf

\* A frame's captured variable is assigned to.
LEMMA Rewritten ==
  ASSUME NEW x, NEW cs, NEW ps, NEW ns, NEW top, StackSound(x, cs, ps, ns, top),
         NEW n \in DOMAIN cs, NEW v \in Value \cup {Null}
  PROVE  StackSound(x, [cs EXCEPT ![n].slot = v], ps, ns, top)
<1>6. /\ \A i \in DOMAIN ps : ps[i].frame \in 1 .. Len(cs) - 1
      /\ \A i \in DOMAIN ns : ns[i].frame \in 1 .. Len(cs) - 1
  BY StackFacts
<1> DEFINE ct == [cs EXCEPT ![n].slot = v]
<1>1. x \in Ctx /\ cs \in Seq(FrameOf) /\ ps \in Seq(EntryOf) /\ ns \in Seq(NativeOf)
  BY DEF StackSound
<1>2. /\ Len(cs) \in Nat /\ DOMAIN cs = 1 .. Len(cs) /\ (cs # <<>> <=> Len(cs) # 0)
      /\ \A i \in DOMAIN cs : cs[i] \in FrameOf
  BY <1>1, EmptySeq, ElementOfSeq
<1>3. [cs[n] EXCEPT !.slot = v] \in FrameOf
  BY <1>2 DEF FrameOf
<1>4. ct \in Seq(FrameOf) /\ Len(ct) = Len(cs) /\ DOMAIN ct = 1 .. Len(cs)
  <2>1. ct \in [1 .. Len(cs) -> FrameOf]
    BY <1>2, <1>3
  <2> QED  BY <2>1, <1>2, IsASeq, LenProperties
<1>5. \A i \in 1 .. Len(cs) : ct[i].closure = cs[i].closure /\ ct[i].back = cs[i].back
  BY <1>2, <1>3 DEF FrameOf
<1> HIDE DEF ct
<1>7. \A i \in 1 .. Len(cs) - 1 : i \in 1 .. Len(cs)
  BY <1>2
<1>8. ParkedOn(x, ct, ps)
  BY <1>4, <1>5, <1>6, <1>7 DEF StackSound, ParkedOn
<1>9. NativesOn(ct, ps, ns)
  BY <1>4, <1>5, <1>6, <1>7 DEF StackSound, NativesOn
<1>10. NoneLostOn(ct, ps, ns)
  BY <1>4, <1>5, <1>7 DEF StackSound, NoneLostOn
<1>11. BacksOn(ct, ns)
  <2> SUFFICES ASSUME NEW i \in 1 .. Len(cs)
               PROVE  ct[i].back <=> /\ i > 1 /\ ct[i - 1].closure # NoClosure
                                     /\ ~ \E j \in DOMAIN ns : ns[j].frame = i - 1
    BY <1>4 DEF BacksOn
  <2>1. i > 1 => i - 1 \in 1 .. Len(cs)
    BY <1>2
  <2> QED  BY <2>1, <1>2, <1>5 DEF StackSound, BacksOn
<1>12. TopOf(ct) = TopOf(cs)
  <2>1. cs # <<>> /\ ct # <<>> /\ Len(cs) \in 1 .. Len(cs)
    BY <1>1, <1>2, <1>4, EmptySeq
  <2> QED  BY <2>1, <1>4, <1>5 DEF TopOf, Last
<1> QED  BY <1>1, <1>4, <1>8, <1>9, <1>10, <1>11, <1>12 DEF StackSound, ct

-----------------------------------------------------------------------------
(* The end of a stack: what is settled for its frames                      *)

SettledOf == [closure : Callee, ctx : Ctx, frame : Nat \ {0}]

\* Entries of a list name frames of one stack, none of them twice.
Names(E, x, cs) ==
  /\ E \in Seq(SettledOf)
  /\ \A i \in DOMAIN E : E[i].closure # NoClosure =>
       E[i].ctx = x /\ E[i].frame \in DOMAIN cs /\ cs[E[i].frame].closure = E[i].closure
  /\ \A i, j \in DOMAIN E :
       E[i].closure # NoClosure /\ E[j].closure # NoClosure /\ E[i].frame = E[j].frame => i = j

Reached(E) == {E[i].frame : i \in {j \in DOMAIN E : E[j].closure # NoClosure}}

\* ... and they name all frames that are lambdas'.
Covers(E, x, cs) ==
  Names(E, x, cs) /\ \A k \in DOMAIN cs : cs[k].closure # NoClosure => k \in Reached(E)

Disjoint(A, B) == A \cap B = {}

\* One list after the other.
LEMMA Joined ==
  ASSUME NEW x, NEW cs, NEW E, NEW D, Names(E, x, cs), Names(D, x, cs),
         Disjoint(Reached(E), Reached(D))
  PROVE  /\ Names(E \o D, x, cs)
         /\ \A k : k \in Reached(E \o D) <=> k \in Reached(E) \/ k \in Reached(D)
<1> DEFINE F == E \o D
           m == Len(E)
           n == Len(D)
<1>1. E \in Seq(SettledOf) /\ D \in Seq(SettledOf)
  BY DEF Names
<1>2. /\ F \in Seq(SettledOf) /\ m \in Nat /\ n \in Nat /\ DOMAIN F = 1 .. m + n
      /\ DOMAIN E = 1 .. m /\ DOMAIN D = 1 .. n
      /\ \A i \in 1 .. m + n : F[i] = IF i <= m THEN E[i] ELSE D[i - m]
  BY <1>1, ConcatProperties, LenProperties
<1> HIDE DEF F, m, n
<1>3. /\ \A i \in 1 .. m : i \in DOMAIN F /\ F[i] = E[i]
      /\ \A i \in 1 .. n : i + m \in DOMAIN F /\ F[i + m] = D[i]
      /\ \A i \in DOMAIN F : i \in 1 .. m \/ (i - m \in 1 .. n /\ (i - m) + m = i /\ F[i] = D[i - m])
  <2>1. ASSUME NEW i \in 1 .. m
        PROVE  i \in DOMAIN F /\ F[i] = E[i]
    <3>1. i \in 1 .. m + n /\ i <= m
      BY <1>2
    <3> QED  BY <3>1, <1>2
  <2>2. ASSUME NEW i \in 1 .. n
        PROVE  i + m \in DOMAIN F /\ F[i + m] = D[i]
    <3>1. i + m \in 1 .. m + n /\ ~(i + m <= m) /\ (i + m) - m = i
      BY <1>2
    <3> QED  BY <3>1, <1>2
  <2>3. ASSUME NEW i \in DOMAIN F
        PROVE  i \in 1 .. m \/ (i - m \in 1 .. n /\ (i - m) + m = i /\ F[i] = D[i - m])
    <3>1. i \in 1 .. m \/ (i - m \in 1 .. n /\ (i - m) + m = i /\ ~(i <= m))
      BY <1>2
    <3> QED  BY <3>1, <1>2
  <2> QED  BY <2>1, <2>2, <2>3
<1>4. Reached(F) = Reached(E) \cup Reached(D)
  <2>1. ASSUME NEW i \in DOMAIN F, F[i].closure # NoClosure
        PROVE  F[i].frame \in Reached(E) \cup Reached(D)
    BY <2>1, <1>2, <1>3 DEF Reached
  <2>2. ASSUME NEW i \in DOMAIN E, E[i].closure # NoClosure
        PROVE  E[i].frame \in Reached(F)
    BY <2>2, <1>2, <1>3 DEF Reached
  <2>3. ASSUME NEW i \in DOMAIN D, D[i].closure # NoClosure
        PROVE  D[i].frame \in Reached(F)
    <3>1. i + m \in DOMAIN F /\ F[i + m] = D[i]
      BY <2>3, <1>2, <1>3
    <3> QED  BY <3>1, <2>3 DEF Reached
  <2> QED  BY <2>1, <2>2, <2>3 DEF Reached
<1>5. ASSUME NEW i \in DOMAIN F, F[i].closure # NoClosure
      PROVE  F[i].ctx = x /\ F[i].frame \in DOMAIN cs /\ cs[F[i].frame].closure = F[i].closure
  BY <1>2, <1>3, <1>5 DEF Names
<1>6. ASSUME NEW i \in DOMAIN F, NEW j \in DOMAIN F,
             F[i].closure # NoClosure, F[j].closure # NoClosure, F[i].frame = F[j].frame
      PROVE  i = j
  <2>1. CASE i \in 1 .. m /\ j \in 1 .. m
    BY <2>1, <1>2, <1>3, <1>6 DEF Names
  <2>2. CASE i \notin 1 .. m /\ j \notin 1 .. m
    <3>1. i - m = j - m
      BY <2>2, <1>2, <1>3, <1>6 DEF Names
    <3> QED  BY <3>1, <2>2, <1>3
  <2>3. CASE i \in 1 .. m /\ j \notin 1 .. m
    <3>1. F[i].frame \in Reached(E) /\ F[j].frame \in Reached(D)
      BY <2>3, <1>2, <1>3, <1>6 DEF Reached
    <3> QED  BY <3>1, <1>6 DEF Disjoint
  <2>4. CASE i \notin 1 .. m /\ j \in 1 .. m
    <3>1. F[j].frame \in Reached(E) /\ F[i].frame \in Reached(D)
      BY <2>4, <1>2, <1>3, <1>6 DEF Reached
    <3> QED  BY <3>1, <1>6 DEF Disjoint
  <2> QED  BY <2>1, <2>2, <2>3, <2>4
<1> QED  BY <1>2, <1>4, <1>5, <1>6 DEF Names, F

\* The entry of the topmost frame.
LEMMA NamesTop ==
  ASSUME NEW x, NEW cs, NEW ps, NEW ns, NEW top, StackSound(x, cs, ps, ns, top)
  PROVE  /\ Names(Entry(top, x, Len(cs)), x, cs)
         /\ Reached(Entry(top, x, Len(cs))) = IF top = NoClosure THEN {} ELSE {Len(cs)}
<1> DEFINE E == Entry(top, x, Len(cs))
<1>1. CASE top = NoClosure
  <2>1. E = <<>> /\ DOMAIN E = {} /\ E \in Seq(SettledOf)
    BY <1>1 DEF Entry
  <2> HIDE DEF E
  <2> QED  BY <2>1, <1>1 DEF Names, Reached, E
<1>2. CASE top # NoClosure
  <2>1. x \in Ctx /\ top \in Callee /\ Len(cs) \in DOMAIN cs /\ Len(cs) \in Nat \ {0}
    <3>1. cs # <<>>
      BY <1>2 DEF StackSound, TopOf
    <3> QED  BY <3>1, StackFacts DEF StackSound
  <2>2. cs[Len(cs)].closure = top
    BY <1>2, StackFacts DEF StackSound, TopOf
  <2> DEFINE e == [closure |-> top, ctx |-> x, frame |-> Len(cs)]
  <2>3. e \in SettledOf /\ e.closure = top /\ e.ctx = x /\ e.frame = Len(cs)
    BY <2>1 DEF SettledOf
  <2>4. E = <<e>>
    BY <1>2 DEF Entry
  <2> HIDE DEF e
  <2>5. E \in Seq(SettledOf) /\ DOMAIN E = {1} /\ E[1] = e
    BY <2>3, <2>4
  <2> HIDE DEF E
  <2> QED  BY <2>1, <2>2, <2>3, <2>5, <1>2 DEF Names, Reached, E
<1> QED  BY <1>1, <1>2

\* What is parked, the last first.
LEMMA NamesParked ==
  ASSUME NEW x, NEW cs, NEW ps, NEW ns, NEW top, StackSound(x, cs, ps, ns, top)
  PROVE  /\ Names(Reverse(ps), x, cs)
         /\ Reached(Reverse(ps)) = {ps[j].frame : j \in DOMAIN ps}
<1> DEFINE E == Reverse(ps)
           at(i) == (Len(ps) - i) + 1
<1>1. /\ Len(ps) \in Nat /\ DOMAIN ps = 1 .. Len(ps) /\ DOMAIN cs = 1 .. Len(cs) /\ Len(cs) \in Nat
      /\ \A i \in DOMAIN ps : /\ ps[i] \in EntryOf /\ ps[i].frame \in 1 .. Len(cs) - 1
                              /\ ps[i].closure # NoClosure
  BY StackFacts
<1>2. /\ \A i \in 1 .. Len(ps) : at(i) \in 1 .. Len(ps) /\ at(at(i)) = i
      /\ \A i, j \in 1 .. Len(ps) : at(i) = at(j) => i = j
  BY <1>1
<1>3. E = [i \in 1 .. Len(ps) |-> ps[at(i)]]
  BY DEF Reverse
<1> HIDE DEF at
<1>4. \A i \in DOMAIN ps : ps[i] \in SettledOf
  BY <1>1 DEF EntryOf, SettledOf, Callee
<1>5. E \in [1 .. Len(ps) -> SettledOf]
  BY <1>1, <1>2, <1>3, <1>4
<1>6. E \in Seq(SettledOf) /\ DOMAIN E = 1 .. Len(ps) /\ \A i \in 1 .. Len(ps) : E[i] = ps[at(i)]
  BY <1>1, <1>3, <1>5, IsASeq
<1> HIDE DEF E
<1>7. \A i \in DOMAIN ps : ps[i].ctx = x /\ cs[ps[i].frame].closure = ps[i].closure
                           /\ ps[i].frame \in DOMAIN cs
  <2>1. \A i \in 1 .. Len(cs) - 1 : i \in 1 .. Len(cs)
    BY <1>1
  <2> QED  BY <2>1, <1>1 DEF StackSound, ParkedOn
<1>8. \A i, j \in DOMAIN ps : ps[i].frame = ps[j].frame => i = j
  <2>1. \A i, j \in DOMAIN ps : i < j => ps[i].frame < ps[j].frame
    BY DEF StackSound, ParkedOn
  <2>2. \A i \in DOMAIN ps : ps[i].frame \in Int /\ i \in Int
    BY <1>1
  <2> QED  BY <2>1, <2>2
<1>9. Reached(E) = {ps[j].frame : j \in DOMAIN ps}
  BY <1>1, <1>2, <1>6 DEF Reached
<1>10. Names(E, x, cs)
  BY <1>1, <1>2, <1>6, <1>7, <1>8 DEF Names
<1> QED  BY <1>9, <1>10 DEF E

\* What native frames of one kind interrupted on this stack, the innermost first.
AsideOf(k, x, ns) ==
  [i \in DOMAIN ns |->
     LET n == ns[Len(ns) - i + 1] IN
       [closure |-> IF n.kind = k THEN n.closure ELSE NoClosure, ctx |-> x, frame |-> n.frame]]

LEMMA NamesAside ==
  ASSUME NEW x, NEW cs, NEW ps, NEW ns, NEW top, StackSound(x, cs, ps, ns, top), NEW k
  PROVE  /\ Names(AsideOf(k, x, ns), x, cs)
         /\ Reached(AsideOf(k, x, ns))
              = {ns[j].frame : j \in {i \in DOMAIN ns : ns[i].kind = k /\ ns[i].closure # NoClosure}}
<1> DEFINE E == AsideOf(k, x, ns)
           at(i) == Len(ns) - i + 1
           e(i) == [closure |-> IF ns[i].kind = k THEN ns[i].closure ELSE NoClosure,
                    ctx |-> x, frame |-> ns[i].frame]
<1>1. /\ Len(ns) \in Nat /\ DOMAIN ns = 1 .. Len(ns) /\ DOMAIN cs = 1 .. Len(cs) /\ Len(cs) \in Nat
      /\ \A i \in DOMAIN ns : ns[i] \in NativeOf /\ ns[i].frame \in 1 .. Len(cs) - 1
      /\ x \in Ctx
  BY StackFacts DEF StackSound
<1>2. /\ \A i \in 1 .. Len(ns) : at(i) \in 1 .. Len(ns) /\ at(at(i)) = i
      /\ \A i, j \in 1 .. Len(ns) : at(i) = at(j) => i = j
  BY <1>1
<1>3. E = [i \in 1 .. Len(ns) |-> e(at(i))]
  BY <1>1 DEF AsideOf
<1>4. \A i \in DOMAIN ns :
        /\ e(i) \in SettledOf /\ e(i).ctx = x /\ e(i).frame = ns[i].frame
        /\ e(i).closure = IF ns[i].kind = k THEN ns[i].closure ELSE NoClosure
  BY <1>1 DEF NativeOf, SettledOf, Callee
<1> HIDE DEF at, e
<1>5. E \in [1 .. Len(ns) -> SettledOf]
  BY <1>1, <1>2, <1>3, <1>4
<1>6. E \in Seq(SettledOf) /\ DOMAIN E = 1 .. Len(ns) /\ \A i \in 1 .. Len(ns) : E[i] = e(at(i))
  BY <1>1, <1>3, <1>5, IsASeq
<1> HIDE DEF E
<1>7. \A i \in DOMAIN ns : cs[ns[i].frame].closure = ns[i].closure /\ ns[i].frame \in DOMAIN cs
  <2>1. \A i \in 1 .. Len(cs) - 1 : i \in 1 .. Len(cs)
    BY <1>1
  <2> QED  BY <2>1, <1>1 DEF StackSound, NativesOn
<1>8. \A i, j \in DOMAIN ns : ns[i].frame = ns[j].frame => i = j
  <2>1. \A i, j \in DOMAIN ns : i < j => ns[i].frame < ns[j].frame
    BY DEF StackSound, NativesOn
  <2>2. \A i \in DOMAIN ns : ns[i].frame \in Int /\ i \in Int
    BY <1>1
  <2> QED  BY <2>1, <2>2
<1>9. Reached(E) = {ns[j].frame : j \in {i \in DOMAIN ns : ns[i].kind = k /\ ns[i].closure # NoClosure}}
  <2>1. \A i \in DOMAIN E : at(i) \in DOMAIN ns /\ E[i] = e(at(i)) /\ at(at(i)) = i
    BY <1>1, <1>2, <1>6
  <2>2. \A j \in DOMAIN ns : at(j) \in DOMAIN E /\ E[at(j)] = e(j)
    BY <1>1, <1>2, <1>6
  <2>3. ASSUME NEW i \in DOMAIN E, E[i].closure # NoClosure
        PROVE  /\ at(i) \in DOMAIN ns /\ ns[at(i)].kind = k /\ ns[at(i)].closure # NoClosure
               /\ E[i].frame = ns[at(i)].frame
    BY <2>1, <2>3, <1>4
  <2>4. ASSUME NEW j \in DOMAIN ns, ns[j].kind = k, ns[j].closure # NoClosure
        PROVE  at(j) \in DOMAIN E /\ E[at(j)].closure # NoClosure /\ E[at(j)].frame = ns[j].frame
    BY <2>2, <2>4, <1>4
  <2> QED  BY <2>3, <2>4 DEF Reached
<1>10. Names(E, x, cs)
  <2>1. ASSUME NEW i \in DOMAIN E, E[i].closure # NoClosure
        PROVE  E[i].ctx = x /\ E[i].frame \in DOMAIN cs /\ cs[E[i].frame].closure = E[i].closure
    BY <2>1, <1>1, <1>2, <1>4, <1>6, <1>7
  <2>2. ASSUME NEW i \in DOMAIN E, NEW j \in DOMAIN E, E[i].frame = E[j].frame
        PROVE  i = j
    BY <2>2, <1>1, <1>2, <1>4, <1>6, <1>8
  <2> QED  BY <2>1, <2>2, <1>6 DEF Names
<1> QED  BY <1>9, <1>10 DEF E

\* No two of the lists name the same frame.
LEMMA Apart ==
  ASSUME NEW x, NEW cs, NEW ps, NEW ns, NEW top, StackSound(x, cs, ps, ns, top)
  PROVE  LET T == Reached(Entry(top, x, Len(cs)))
             P == Reached(Reverse(ps))
             L == Reached(AsideOf("lib", x, ns))
             H == Reached(AsideOf("host", x, ns))
         IN  Disjoint(T, P) /\ Disjoint(P, T) /\ Disjoint(T \cup P, L) /\ Disjoint(T \cup P \cup L, H)
<1>1. Reached(Entry(top, x, Len(cs))) \subseteq {Len(cs)}
  BY NamesTop
<1>2. Reached(Reverse(ps)) = {ps[j].frame : j \in DOMAIN ps}
  BY NamesParked
<1>3. ASSUME NEW k
      PROVE  Reached(AsideOf(k, x, ns))
               = {ns[j].frame : j \in {i \in DOMAIN ns : ns[i].kind = k /\ ns[i].closure # NoClosure}}
  BY NamesAside
<1>4. /\ \A i \in DOMAIN ps : ps[i].frame # Len(cs)
      /\ \A i \in DOMAIN ns : ns[i].frame # Len(cs)
  <2>1. /\ Len(cs) \in Nat
        /\ \A i \in DOMAIN ps : ps[i].frame \in 1 .. Len(cs) - 1
        /\ \A i \in DOMAIN ns : ns[i].frame \in 1 .. Len(cs) - 1
    BY StackFacts
  <2> QED  BY <2>1
<1>5. \A i \in DOMAIN ns, j \in DOMAIN ps : ps[j].frame # ns[i].frame
  BY DEF StackSound, NativesOn
<1>6. \A i, j \in DOMAIN ns : ns[i].frame = ns[j].frame => i = j
  <2>1. \A i, j \in DOMAIN ns : i < j => ns[i].frame < ns[j].frame
    BY DEF StackSound, NativesOn
  <2>2. \A i \in DOMAIN ns : ns[i].frame \in Int /\ i \in Int
    BY StackFacts
  <2> QED  BY <2>1, <2>2
<1>7. "lib" # "host"
  OBVIOUS
<1> QED  BY <1>1, <1>2, <1>3, <1>4, <1>5, <1>6, <1>7 DEF Disjoint

\* Every frame that is a lambda's is on top, parked, or put aside.
LEMMA Placed ==
  ASSUME NEW x, NEW cs, NEW ps, NEW ns, NEW top, StackSound(x, cs, ps, ns, top),
         NEW k \in DOMAIN cs, cs[k].closure # NoClosure
  PROVE  \/ k \in Reached(Entry(top, x, Len(cs))) \/ k \in Reached(Reverse(ps))
         \/ k \in Reached(AsideOf("lib", x, ns)) \/ k \in Reached(AsideOf("host", x, ns))
<1>1. /\ Len(cs) \in Nat /\ DOMAIN cs = 1 .. Len(cs) /\ (cs # <<>> <=> Len(cs) # 0)
      /\ \A i \in DOMAIN ns : ns[i] \in NativeOf
      /\ cs # <<>> => top = cs[Len(cs)].closure
  BY StackFacts
<1>2. CASE k = Len(cs)
  <2>1. top # NoClosure
    BY <1>1, <1>2
  <2> QED  BY <2>1, <1>2, NamesTop
<1>3. CASE k \in 1 .. Len(cs) - 1
  <2>1. (\E j \in DOMAIN ps : ps[j].frame = k) \/ (\E j \in DOMAIN ns : ns[j].frame = k)
    BY <1>3 DEF StackSound, NoneLostOn
  <2>2. CASE \E j \in DOMAIN ps : ps[j].frame = k
    BY <2>2, NamesParked
  <2>3. CASE \E j \in DOMAIN ns : ns[j].frame = k
    <3>1. PICK j \in DOMAIN ns : ns[j].frame = k
      BY <2>3
    <3>2. ns[j].closure # NoClosure
      BY <3>1 DEF StackSound, NativesOn
    <3>3. ns[j].kind = "lib" \/ ns[j].kind = "host"
      BY <1>1 DEF NativeOf
    <3> QED  BY <3>1, <3>2, <3>3, NamesAside
  <2> QED  BY <2>1, <2>2, <2>3
<1>4. k = Len(cs) \/ k \in 1 .. Len(cs) - 1
  BY <1>1
<1> QED  BY <1>2, <1>3, <1>4

\* What an error settles covers the stack, callbacks included.
LEMMA CoversAll ==
  ASSUME NEW x, NEW cs, NEW ps, NEW ns, NEW top, StackSound(x, cs, ps, ns, top)
  PROVE  LET U == Entry(top, x, Len(cs)) \o Reverse(ps)
         IN  /\ Names(U \o AsideOf("lib", x, ns), x, cs)
             /\ Covers((U \o AsideOf("lib", x, ns)) \o AsideOf("host", x, ns), x, cs)
<1> DEFINE T == Entry(top, x, Len(cs))
           P == Reverse(ps)
           L == AsideOf("lib", x, ns)
           H == AsideOf("host", x, ns)
           TP == T \o P
           TPL == TP \o L
<1>1. Names(T, x, cs) /\ Names(P, x, cs) /\ Names(L, x, cs) /\ Names(H, x, cs)
  BY NamesTop, NamesParked, NamesAside
<1>2. /\ Disjoint(Reached(T), Reached(P)) /\ Disjoint(Reached(T) \cup Reached(P), Reached(L))
      /\ Disjoint(Reached(T) \cup Reached(P) \cup Reached(L), Reached(H))
  BY Apart
<1>3. \A k \in DOMAIN cs : cs[k].closure # NoClosure =>
        k \in Reached(T) \/ k \in Reached(P) \/ k \in Reached(L) \/ k \in Reached(H)
  BY Placed
<1> HIDE DEF T, P, L, H
<1>4. Names(TP, x, cs)
  BY <1>1, <1>2, Joined
<1>5. \A k : k \in Reached(TP) <=> k \in Reached(T) \/ k \in Reached(P)
  BY <1>1, <1>2, Joined
<1> HIDE DEF TP
<1>6. Disjoint(Reached(TP), Reached(L))
  BY <1>2, <1>5 DEF Disjoint
<1>7. Names(TPL, x, cs)
  BY <1>1, <1>4, <1>6, Joined
<1>8. \A k : k \in Reached(TPL) <=> k \in Reached(TP) \/ k \in Reached(L)
  BY <1>1, <1>4, <1>6, Joined
<1> HIDE DEF TPL
<1>9. Disjoint(Reached(TPL), Reached(H))
  BY <1>2, <1>5, <1>8 DEF Disjoint
<1>10. Names(TPL \o H, x, cs)
  BY <1>1, <1>7, <1>9, Joined
<1>11. \A k : k \in Reached(TPL \o H) <=> k \in Reached(TPL) \/ k \in Reached(H)
  BY <1>1, <1>7, <1>9, Joined
<1>12. \A k \in DOMAIN cs : cs[k].closure # NoClosure => k \in Reached(TPL \o H)
  BY <1>3, <1>5, <1>8, <1>11
<1> QED  BY <1>7, <1>10, <1>12 DEF Covers, TPL, TP, T, P, L, H

\* ... and so do the topmost and the parked ones, in either order, where no
\* native frame has called back.
LEMMA CoversQuiet ==
  ASSUME NEW x, NEW cs, NEW ps, NEW top, StackSound(x, cs, ps, <<>>, top)
  PROVE  /\ Covers(Entry(top, x, Len(cs)) \o Reverse(ps), x, cs)
         /\ Covers(Reverse(ps) \o Entry(top, x, Len(cs)), x, cs)
<1> DEFINE T == Entry(top, x, Len(cs))
           P == Reverse(ps)
<1>1. Names(T, x, cs) /\ Names(P, x, cs)
  BY NamesTop, NamesParked
<1>2. Disjoint(Reached(T), Reached(P)) /\ Disjoint(Reached(P), Reached(T))
  BY Apart
<1>3. ASSUME NEW k
      PROVE  Reached(AsideOf(k, x, <<>>)) = {}
  BY DEF AsideOf, Reached
<1>4. \A k \in DOMAIN cs : cs[k].closure # NoClosure => k \in Reached(T) \/ k \in Reached(P)
  BY <1>3, Placed
<1> HIDE DEF T, P
<1>5. Names(T \o P, x, cs) /\ Names(P \o T, x, cs)
  BY <1>1, <1>2, Joined
<1>6. \A k : k \in Reached(T \o P) <=> k \in Reached(T) \/ k \in Reached(P)
  BY <1>1, <1>2, Joined
<1>7. \A k : k \in Reached(P \o T) <=> k \in Reached(P) \/ k \in Reached(T)
  BY <1>1, <1>2, Joined
<1> QED  BY <1>4, <1>5, <1>6, <1>7 DEF Covers, T, P

-----------------------------------------------------------------------------
(* Counting frames                                                         *)

FramesIn(cl, X, c) == UNION {{x} \X {i \in DOMAIN cl[x] : cl[x][i].closure = c} : x \in X}

LEMMA InFrames ==
  ASSUME NEW cl, NEW X, NEW c
  PROVE  /\ \A p : p \in FramesIn(cl, X, c) <=>
              \E x \in X : \E i \in DOMAIN cl[x] : cl[x][i].closure = c /\ p = <<x, i>>
         /\ \A x, i : <<x, i>> \in FramesIn(cl, X, c) <=>
              x \in X /\ i \in DOMAIN cl[x] /\ cl[x][i].closure = c
BY DEF FramesIn

LEMMA ContextsFinite == IsFiniteSet(Ctx)
BY CapturesAssumption, FS_Singleton, FS_Union DEF Ctx

LEMMA FramesFinite ==
  ASSUME NEW cl \in [Ctx -> Seq(FrameOf)], NEW X, X \subseteq Ctx, NEW c
  PROVE  IsFiniteSet(FramesIn(cl, X, c)) /\ Cardinality(FramesIn(cl, X, c)) \in Nat
<1> DEFINE on(x) == {x} \X {i \in DOMAIN cl[x] : cl[x][i].closure = c}
           S == {on(x) : x \in X}
<1>1. IsFiniteSet(X)
  BY ContextsFinite, FS_Subset
<1>2. ASSUME NEW x \in X
      PROVE  IsFiniteSet(on(x))
  <2>1. cl[x] \in Seq(FrameOf) /\ Len(cl[x]) \in Nat /\ DOMAIN cl[x] = 1 .. Len(cl[x])
    OBVIOUS
  <2>2. IsFiniteSet(1 .. Len(cl[x]))
    BY <2>1, FS_Interval
  <2>3. IsFiniteSet({i \in DOMAIN cl[x] : cl[x][i].closure = c})
    BY <2>1, <2>2, FS_Subset
  <2> QED  BY <2>3, FS_Singleton, FS_Product
<1> HIDE DEF on
<1>3. IsFiniteSet(S)
  <2> DEFINE f == [x \in X |-> on(x)]
  <2>1. f \in Surjection(X, S)
    BY DEF Surjection
  <2> QED  BY <2>1, <1>1, FS_Surjection
<1>4. \A T \in S : IsFiniteSet(T)
  BY <1>2
<1> HIDE DEF S
<1>5. IsFiniteSet(UNION S)
  BY <1>3, <1>4, FS_UNION
<1>6. FramesIn(cl, X, c) = UNION S
  BY DEF FramesIn, S, on
<1> QED  BY <1>5, <1>6, FS_CardinalityType

Grown(cl, dl, x, f) == dl[x] = Append(cl[x], f) /\ \A y \in Ctx : y # x => dl[y] = cl[y]

\* The frames of c are one more, if the new one is one of them.
OneMore(cl, dl, f, c) ==
  /\ f.closure = c =>
       Cardinality(FramesIn(dl, Ctx, c)) = Cardinality(FramesIn(cl, Ctx, c)) + 1
  /\ f.closure # c =>
       Cardinality(FramesIn(dl, Ctx, c)) = Cardinality(FramesIn(cl, Ctx, c))

\* One frame more on one stack.
LEMMA CountPush ==
  ASSUME NEW cl \in [Ctx -> Seq(FrameOf)], NEW dl \in [Ctx -> Seq(FrameOf)],
         NEW x \in Ctx, NEW f \in FrameOf, NEW c, Grown(cl, dl, x, f)
  PROVE  OneMore(cl, dl, f, c)
<1> DEFINE F == FramesIn(cl, Ctx, c)
           G == FramesIn(dl, Ctx, c)
           p == <<x, Len(cl[x]) + 1>>
<1>0. dl[x] = Append(cl[x], f) /\ \A y \in Ctx : y # x => dl[y] = cl[y]
  BY DEF Grown
<1>1. IsFiniteSet(F) /\ Cardinality(F) \in Nat
  BY FramesFinite
<1>2. /\ Len(cl[x]) \in Nat /\ DOMAIN cl[x] = 1 .. Len(cl[x])
      /\ DOMAIN dl[x] = 1 .. Len(cl[x]) + 1 /\ dl[x][Len(cl[x]) + 1] = f
      /\ \A i \in DOMAIN cl[x] : dl[x][i] = cl[x][i]
  BY <1>0, Appended
<1>3. \A y \in Ctx : y # x => dl[y] = cl[y]
  BY <1>0
<1>4. p \notin F
  BY <1>2, InFrames
<1>5. \A i : i \in DOMAIN dl[x] <=> i \in DOMAIN cl[x] \/ i = Len(cl[x]) + 1
  BY <1>2
<1>11. /\ \A y, i : <<y, i>> \in G <=> y \in Ctx /\ i \in DOMAIN dl[y] /\ dl[y][i].closure = c
       /\ \A q \in G : \E y \in Ctx : \E i \in DOMAIN dl[y] : dl[y][i].closure = c /\ q = <<y, i>>
  BY ONLY InFrames
<1> HIDE DEF G
<1>6. ASSUME NEW q \in F
      PROVE  q \in G
  <2>1. PICK y \in Ctx : \E i \in DOMAIN cl[y] : cl[y][i].closure = c /\ q = <<y, i>>
    BY InFrames
  <2>2. PICK i \in DOMAIN cl[y] : cl[y][i].closure = c /\ q = <<y, i>>
    BY <2>1
  <2>3. i \in DOMAIN dl[y] /\ dl[y][i] = cl[y][i]
    BY <1>2, <1>3, <1>5
  <2> QED  BY <2>2, <2>3, <1>11
<1>7. ASSUME NEW q \in G
      PROVE  q \in F \/ (q = p /\ f.closure = c)
  <2>1. PICK y \in Ctx : \E i \in DOMAIN dl[y] : dl[y][i].closure = c /\ q = <<y, i>>
    BY <1>11
  <2>2. PICK i \in DOMAIN dl[y] : dl[y][i].closure = c /\ q = <<y, i>>
    BY <2>1
  <2>3. CASE y = x /\ i = Len(cl[x]) + 1
    BY <2>2, <2>3, <1>2
  <2>4. CASE ~(y = x /\ i = Len(cl[x]) + 1)
    <3>1. i \in DOMAIN cl[y] /\ dl[y][i] = cl[y][i]
      BY <2>2, <2>4, <1>2, <1>3, <1>5
    <3> QED  BY <3>1, <2>2, InFrames
  <2> QED  BY <2>3, <2>4
<1>10. f.closure = c => p \in G
  BY <1>2, <1>5, <1>11
<1> HIDE DEF F, p
<1>8. CASE f.closure = c
  <2>1. G = F \cup {p}
    BY <1>6, <1>7, <1>8, <1>10
  <2>2. Cardinality(G) = Cardinality(F) + 1
    BY <2>1, <1>1, <1>4, FS_AddElement
  <2> QED  BY <2>2, <1>8 DEF F, G, OneMore
<1>9. CASE f.closure # c
  <2>1. G = F
    BY <1>6, <1>7, <1>9
  <2> QED  BY <2>1, <1>1, <1>9 DEF F, G, OneMore
<1> QED  BY <1>8, <1>9

\* Some stacks end, the others stay.
EndedIn(cl, dl, X) == \A y \in Ctx : dl[y] = IF y \in X THEN <<>> ELSE cl[y]

LessCounted(cl, dl, X, c) ==
  Cardinality(FramesIn(dl, Ctx, c))
    = Cardinality(FramesIn(cl, Ctx, c)) - Cardinality(FramesIn(cl, X, c))

LEMMA CountApart ==
  ASSUME NEW cl \in [Ctx -> Seq(FrameOf)], NEW dl \in [Ctx -> Seq(FrameOf)],
         NEW X, X \subseteq Ctx, NEW c, EndedIn(cl, dl, X)
  PROVE  LessCounted(cl, dl, X, c)
<1> DEFINE F == FramesIn(cl, Ctx, c)
           E == FramesIn(cl, X, c)
           G == FramesIn(dl, Ctx, c)
<1>1. IsFiniteSet(F) /\ IsFiniteSet(E)
  BY FramesFinite
<1>2. DOMAIN <<>> = {} /\ \A y \in Ctx : dl[y] = IF y \in X THEN <<>> ELSE cl[y]
  BY DEF EndedIn
<1>3. ASSUME NEW q \in G
      PROVE  q \in F /\ q \notin E
  <2>1. PICK y \in Ctx : \E i \in DOMAIN dl[y] : dl[y][i].closure = c /\ q = <<y, i>>
    BY InFrames
  <2>2. y \notin X /\ dl[y] = cl[y]
    BY <2>1, <1>2
  <2>3. PICK i \in DOMAIN cl[y] : cl[y][i].closure = c /\ q = <<y, i>>
    BY <2>1, <2>2
  <2> QED  BY <2>2, <2>3, InFrames
<1>4. ASSUME NEW q \in F, q \notin E
      PROVE  q \in G
  <2>1. PICK y \in Ctx : \E i \in DOMAIN cl[y] : cl[y][i].closure = c /\ q = <<y, i>>
    BY InFrames
  <2>2. y \notin X /\ dl[y] = cl[y]
    BY <2>1, <1>2, <1>4, InFrames
  <2>3. PICK i \in DOMAIN dl[y] : dl[y][i].closure = c /\ q = <<y, i>>
    BY <2>1, <2>2
  <2> QED  BY <2>3, InFrames
<1>5. E \subseteq F
  BY InFrames
<1> HIDE DEF F, G, E
<1>6. G = F \ E
  BY <1>3, <1>4
<1>7. F \cap E = E
  BY <1>5
<1>8. Cardinality(F \ E) = Cardinality(F) - Cardinality(F \cap E)
  BY <1>1, FS_Difference
<1> QED  BY <1>6, <1>7, <1>8 DEF LessCounted, F, G, E

\* What is settled for one stack is as much as it has frames.
LEMMA CountEnd ==
  ASSUME NEW cl \in [Ctx -> Seq(FrameOf)], NEW x \in Ctx, NEW E, Covers(E, x, cl[x]), NEW c \in Closure
  PROVE  Uses(E, c) = Cardinality(FramesIn(cl, {x}, c))
<1> DEFINE I == {i \in DOMAIN E : E[i].closure = c}
           F == FramesIn(cl, {x}, c)
           f == [i \in I |-> <<x, E[i].frame>>]
<1>1. IsFiniteSet(F)
  BY FramesFinite
<1>2. c # NoClosure
  BY Constants
<1>3. \A i \in I : <<x, E[i].frame>> \in F
  BY <1>2, InFrames DEF Covers, Names
<1>4. \A i, j \in I : <<x, E[i].frame>> = <<x, E[j].frame>> => i = j
  BY <1>2 DEF Covers, Names
<1>5. ASSUME NEW p \in F
      PROVE  \E i \in I : <<x, E[i].frame>> = p
  <2>1. PICK k \in DOMAIN cl[x] : cl[x][k].closure = c /\ p = <<x, k>>
    BY InFrames
  <2>2. PICK i \in DOMAIN E : E[i].closure # NoClosure /\ E[i].frame = k
    BY <2>1, <1>2 DEF Covers, Reached
  <2> QED  BY <2>1, <2>2 DEF Covers, Names
<1> HIDE DEF I, F
<1>6. f \in Injection(I, F)
  BY <1>3, <1>4 DEF Injection, IsInjective
<1>7. f \in Surjection(I, F)
  BY <1>3, <1>5 DEF Surjection
<1> QED  BY <1>1, <1>6, <1>7, FS_Injection DEF Uses, I, F

\* ... and for all of a line of stacks likewise.
Given(S, c) == UNION {{i} \X {j \in DOMAIN S[i] : S[i][j].closure = c} : i \in DOMAIN S}
Places(at, S) == {at[i] : i \in DOMAIN S}

LEMMA CountLine ==
  ASSUME NEW cl \in [Ctx -> Seq(FrameOf)], NEW S, NEW at \in [DOMAIN S -> Ctx],
         \A i, j \in DOMAIN S : at[i] = at[j] => i = j,
         \A i \in DOMAIN S : Covers(S[i], at[i], cl[at[i]]),
         NEW c \in Closure
  PROVE  Cardinality(Given(S, c)) = Cardinality(FramesIn(cl, Places(at, S), c))
<1> USE DEF Given, Places
<1> DEFINE A == UNION {{i} \X {j \in DOMAIN S[i] : S[i][j].closure = c} : i \in DOMAIN S}
           F == FramesIn(cl, {at[i] : i \in DOMAIN S}, c)
           g(p) == <<at[p[1]], S[p[1]][p[2]].frame>>
           f == [p \in A |-> g(p)]
<1>1. IsFiniteSet(F)
  BY FramesFinite
<1>2. c # NoClosure
  BY Constants
<1>3. \A p \in A : /\ p[1] \in DOMAIN S /\ p[2] \in DOMAIN S[p[1]] /\ p = <<p[1], p[2]>>
                   /\ S[p[1]][p[2]].closure = c
  OBVIOUS
<1>4. \A i \in DOMAIN S : \A j \in DOMAIN S[i] : S[i][j].closure = c => <<i, j>> \in A
  OBVIOUS
<1> HIDE DEF A
<1>5. ASSUME NEW p \in A
      PROVE  g(p) \in F
  <2>1. /\ S[p[1]][p[2]].frame \in DOMAIN cl[at[p[1]]]
        /\ cl[at[p[1]]][S[p[1]][p[2]].frame].closure = c
    BY <1>2, <1>3 DEF Covers, Names
  <2> QED  BY <2>1, <1>3, InFrames
<1>6. ASSUME NEW p \in A, NEW q \in A, g(p) = g(q)
      PROVE  p = q
  <2>1. p[1] = q[1]
    BY <1>3, <1>6
  <2>2. p[2] = q[2]
    BY <2>1, <1>2, <1>3, <1>6 DEF Covers, Names
  <2> QED  BY <2>1, <2>2, <1>3
<1>7. ASSUME NEW t \in F
      PROVE  \E p \in A : g(p) = t
  <2>1. PICK i \in DOMAIN S : \E k \in DOMAIN cl[at[i]] : cl[at[i]][k].closure = c /\ t = <<at[i], k>>
    BY InFrames
  <2>5. PICK k \in DOMAIN cl[at[i]] : cl[at[i]][k].closure = c /\ t = <<at[i], k>>
    BY <2>1
  <2>2. PICK j \in DOMAIN S[i] : S[i][j].closure # NoClosure /\ S[i][j].frame = k
    BY <2>5, <1>2 DEF Covers, Reached
  <2>3. S[i][j].closure = c
    BY <2>5, <2>2 DEF Covers, Names
  <2>4. <<i, j>> \in A /\ g(<<i, j>>) = t
    BY <2>5, <2>2, <2>3, <1>4
  <2> QED  BY <2>4
<1> HIDE DEF F, g
<1>8. f \in Injection(A, F)
  BY <1>5, <1>6 DEF Injection, IsInjective
<1>9. f \in Surjection(A, F)
  BY <1>5, <1>7 DEF Surjection
<1> QED  BY <1>1, <1>8, <1>9, FS_Injection DEF A, F

\* What is written back was in a slot.
LEMMA SyncedTyped ==
  ASSUME NEW cp \in [Closure -> Value \cup {Null}], NEW cl \in [Ctx -> Seq(FrameOf)],
         NEW x \in Ctx, NEW E, Names(E, x, cl[x])
  PROVE  Synced(cp, cl, E) \in [Closure -> Value \cup {Null}]
<1> SUFFICES ASSUME NEW c \in Closure
             PROVE  LET I == {i \in DOMAIN E : E[i].closure = c} IN
                      (IF I = {} THEN cp[c] ELSE cl[E[Max(I)].ctx][E[Max(I)].frame].slot)
                        \in Value \cup {Null}
  BY DEF Synced
<1> DEFINE I == {i \in DOMAIN E : E[i].closure = c}
<1>1. CASE I = {}
  BY <1>1
<1>2. CASE I # {}
  <2>1. Len(E) \in Nat /\ DOMAIN E = 1 .. Len(E)
    BY LenProperties DEF Names
  <2>2. Max(I) \in I
    BY <2>1, <1>2, MaxFacts
  <2>3. E[Max(I)].ctx = x /\ E[Max(I)].frame \in DOMAIN cl[x]
    BY <2>2, Constants DEF Names
  <2>4. \A i \in DOMAIN cl[x] : cl[x][i].slot \in Value \cup {Null}
    <3>1. \A i \in DOMAIN cl[x] : cl[x][i] \in FrameOf
      BY ElementOfSeq, LenProperties
    <3> QED  BY <3>1 DEF FrameOf
  <2> QED  BY <2>3, <2>4, <1>2
<1> QED  BY <1>1, <1>2

-----------------------------------------------------------------------------
(* The inductive invariant                                                 *)

\* What native frames of a context interrupted, and what is known of its top.
Aside(x) == IF x = cur THEN natives ELSE <<>>
Known(x) == IF x = cur /\ mode = "in" THEN active ELSE saved[x]

Stacks == \A x \in Ctx : StackSound(x, calls[x], parked[x], Aside(x), Known(x))

\* Where the pointer of the context that runs may come from.
SavedFrom(s, top, ps, ns) ==
  \/ s \in {NoClosure, top}
  \/ \E i \in DOMAIN ps : ps[i].closure = s
  \/ \E i \in DOMAIN ns : ns[i].closure = s

SavedSound ==
  /\ mode = "in" => SavedFrom(saved[cur], active, parked[cur], natives)
  /\ mode = "kept" => \A i \in DOMAIN parked[cur] : parked[cur][i].closure # saved[cur]

LineKnown ==
  /\ WaitChain(Ctx, Main, cur, callers)
  /\ \A x \in Co : state[x] = "running" <=> x = cur
  /\ \A x \in Co : state[x] = "normal" <=> x \in ToSet(callers)
  /\ mode # "in" => callers = <<>> /\ active = NoClosure /\ natives = <<>>
  /\ mode \in {"idle", "failed"} => calls[Main] = <<>>
  /\ mode = "in" => \A x \in Line : calls[x] # <<>>
  /\ \A x \in Co : state[x] \in {"none", "dead"} => calls[x] = <<>>

\* The references of executing frames are as many as the frames of these stacks.
Counted(ex, cl) == \A c \in Closure : ex[c] = Cardinality(FramesIn(cl, Ctx, c))

Sound == TypeOK /\ Stacks /\ SavedSound /\ LineKnown /\ Counted(exec, calls)

IInv == ~astray => Sound

LEMMA FramesAre == \A c : Frames(c) = FramesIn(calls, Ctx, c)
BY DEF Frames, FramesIn

\* What is above and below, said of the variables.
LEMMA Now ==
  ASSUME Sound
  PROVE  /\ held \in SUBSET Closure /\ cap \in [Closure -> Value \cup {Null}]
         /\ exec \in [Closure -> Nat] /\ calls \in [Ctx -> Seq(FrameOf)]
         /\ parked \in [Ctx -> Seq(EntryOf)] /\ saved \in [Ctx -> Callee] /\ active \in Callee
         /\ fn \in [Co -> Callee]
         /\ state \in [Co -> {"none", "suspended", "running", "normal", "dead"}]
         /\ natives \in Seq(NativeOf) /\ mode \in {"idle", "failed", "in", "kept"}
         /\ cur \in Ctx /\ callers \in Seq(Ctx) /\ cur \notin ToSet(callers)
         /\ \A x \in Ctx : Len(calls[x]) <= MaxFrames[x]
         /\ Line \subseteq Ctx
         /\ Counted(exec, calls)
         /\ Len(calls[cur]) \in Nat
BY DEF Sound, TypeOK, LineKnown, WaitChain, NativeOf, Line, ToSet

LEMMA NowStacks ==
  ASSUME Sound
  PROVE  /\ mode = "in" => StackSound(cur, calls[cur], parked[cur], natives, active) /\ calls[cur] # <<>>
         /\ mode # "in" => StackSound(cur, calls[cur], parked[cur], <<>>, saved[cur])
         /\ \A x \in Ctx : x # cur => StackSound(x, calls[x], parked[x], <<>>, saved[x])
<1>1. cur \in Ctx
  BY Now
<1>2. mode = "in" => calls[cur] # <<>>
  BY DEF Sound, LineKnown, Line
<1>3. mode # "in" => natives = <<>>
  BY DEF Sound, LineKnown
<1> QED  BY <1>1, <1>2, <1>3 DEF Sound, Stacks, Aside, Known

-----------------------------------------------------------------------------
(* References                                                              *)

\* A lambda gains an executing frame, or loses one.
Gains(ex, dx, c) ==
  /\ dx = [e \in Closure |-> dx[e]]
  /\ \A e \in Closure : (c = e => dx[e] = ex[e] + 1) /\ (c # e => dx[e] = ex[e])
Loses(ex, dx, c) == Gains(dx, ex, c) /\ dx = [e \in Closure |-> dx[e]]

LEMMA HoldingIs ==
  ASSUME exec \in [Closure -> Nat], NEW c \in Callee
  PROVE  Gains(exec, Holding(c, 1), c) /\ Loses(exec, Holding(c, -1), c)
<1>1. CASE c = NoClosure
  <2>1. \A e \in Closure : c # e
    BY <1>1, Constants
  <2> QED  BY <2>1, <1>1 DEF Holding, Gains, Loses
<1>2. CASE c # NoClosure
  <2>1. /\ c \in Closure /\ Holding(c, 1) = [exec EXCEPT ![c] = @ + 1]
        /\ Holding(c, -1) = [exec EXCEPT ![c] = @ + -1]
    BY <1>2 DEF Holding, Callee
  <2>2. \A e \in Closure : exec[e] \in Nat
    OBVIOUS
  <2>3. Gains(exec, Holding(c, 1), c)
    BY <2>1, <2>2 DEF Gains
  <2>4. Gains(Holding(c, -1), exec, c)
    <3>1. exec[c] = (exec[c] + -1) + 1
      BY <2>1, <2>2
    <3>2. Holding(c, -1)[c] = exec[c] + -1 /\ \A e \in Closure : e # c => Holding(c, -1)[e] = exec[e]
      BY <2>1
    <3> QED  BY <3>1, <3>2 DEF Gains
  <2> QED  BY <2>1, <2>3, <2>4 DEF Loses
<1> QED  BY <1>1, <1>2

LEMMA CountedPush ==
  ASSUME NEW ex \in [Closure -> Nat], NEW cl \in [Ctx -> Seq(FrameOf)], Counted(ex, cl),
         NEW dl \in [Ctx -> Seq(FrameOf)], NEW dx,
         NEW x \in Ctx, NEW f \in FrameOf, Grown(cl, dl, x, f), Gains(ex, dx, f.closure)
  PROVE  Counted(dx, dl)
<1> SUFFICES ASSUME NEW c \in Closure
             PROVE  dx[c] = Cardinality(FramesIn(dl, Ctx, c))
  BY DEF Counted
<1>1. ex[c] = Cardinality(FramesIn(cl, Ctx, c))
  BY DEF Counted
<1>2. OneMore(cl, dl, f, c)
  BY CountPush
<1>3. (f.closure = c => dx[c] = ex[c] + 1) /\ (f.closure # c => dx[c] = ex[c])
  BY DEF Gains
<1> QED  BY <1>1, <1>2, <1>3 DEF OneMore

LEMMA CountedPop ==
  ASSUME NEW ex \in [Closure -> Nat], NEW cl \in [Ctx -> Seq(FrameOf)], Counted(ex, cl),
         NEW dl \in [Ctx -> Seq(FrameOf)], NEW dx, \A e \in Closure : dx[e] \in Int,
         NEW x \in Ctx, NEW f \in FrameOf, Grown(dl, cl, x, f), Loses(ex, dx, f.closure)
  PROVE  Counted(dx, dl)
<1> SUFFICES ASSUME NEW c \in Closure
             PROVE  dx[c] = Cardinality(FramesIn(dl, Ctx, c))
  BY DEF Counted
<1>1. ex[c] = Cardinality(FramesIn(cl, Ctx, c))
  BY DEF Counted
<1>2. OneMore(dl, cl, f, c)
  BY CountPush
<1>3. (f.closure = c => ex[c] = dx[c] + 1) /\ (f.closure # c => ex[c] = dx[c])
  BY DEF Loses, Gains
<1>4. Cardinality(FramesIn(dl, Ctx, c)) \in Nat /\ dx[c] \in Int
  BY FramesFinite
<1> QED  BY <1>1, <1>2, <1>3, <1>4 DEF OneMore

\* A stack that grew, and one whose topmost frame ended.
LEMMA GrownIs ==
  ASSUME NEW cl \in [Ctx -> Seq(FrameOf)], NEW x \in Ctx, NEW f \in FrameOf,
         NEW dl, dl = [cl EXCEPT ![x] = Append(cl[x], f)]
  PROVE  dl \in [Ctx -> Seq(FrameOf)] /\ Grown(cl, dl, x, f)
BY DEF Grown

LEMMA GrownFront ==
  ASSUME NEW cl \in [Ctx -> Seq(FrameOf)], NEW x \in Ctx, cl[x] # <<>>,
         NEW dl, dl = [cl EXCEPT ![x] = Front(cl[x])]
  PROVE  dl \in [Ctx -> Seq(FrameOf)] /\ Last(cl[x]) \in FrameOf /\ Grown(dl, cl, x, Last(cl[x]))
<1> DEFINE f == Last(cl[x])
<1>1. Front(cl[x]) \in Seq(FrameOf) /\ f \in FrameOf /\ cl[x] \in Seq(FrameOf)
  BY Shortened
<1>2. dl \in [Ctx -> Seq(FrameOf)] /\ dl[x] = Front(cl[x])
  BY <1>1
<1>3. Append(dl[x], f) = cl[x]
  <2>1. /\ Len(Append(dl[x], f)) = Len(cl[x]) /\ Append(dl[x], f) \in Seq(FrameOf)
        /\ \A i \in 1 .. Len(cl[x]) : Append(dl[x], f)[i] = cl[x][i]
    <3>1. /\ Len(cl[x]) \in Nat \ {0} /\ Len(Front(cl[x])) = Len(cl[x]) - 1
          /\ f = cl[x][Len(cl[x])]
          /\ DOMAIN Front(cl[x]) = 1 .. Len(cl[x]) - 1
          /\ \A i \in DOMAIN Front(cl[x]) : Front(cl[x])[i] = cl[x][i]
      BY <1>1, Shortened
    <3>2. /\ Append(dl[x], f) \in Seq(FrameOf) /\ Len(Append(dl[x], f)) = Len(Front(cl[x])) + 1
          /\ \A i \in DOMAIN Front(cl[x]) : Append(dl[x], f)[i] = Front(cl[x])[i]
          /\ Append(dl[x], f)[Len(Front(cl[x])) + 1] = f
      BY <1>1, <1>2, Appended
    <3> HIDE DEF f
    <3>3. \A i \in 1 .. Len(cl[x]) : i \in 1 .. Len(cl[x]) - 1 \/ i = Len(Front(cl[x])) + 1
      BY <3>1
    <3>4. Len(Front(cl[x])) + 1 = Len(cl[x])
      BY <3>1
    <3> QED  BY <3>1, <3>2, <3>3, <3>4
  <2> QED  BY <2>1, <1>1, SeqEqual
<1> QED  BY <1>1, <1>2, <1>3 DEF Grown

\* A count of frames is a natural number.
LEMMA CountedTyped ==
  ASSUME NEW ex, ex = [c \in Closure |-> ex[c]], NEW cl \in [Ctx -> Seq(FrameOf)], Counted(ex, cl)
  PROVE  ex \in [Closure -> Nat]
<1>1. \A c \in Closure : ex[c] \in Nat
  BY FramesFinite DEF Counted
<1> QED  BY <1>1

-----------------------------------------------------------------------------
(* Steps on one context                                                    *)

\* Nothing but values changes.
LEMMA Stutters ==
  ASSUME Sound, held' \in SUBSET Closure, cap' \in [Closure -> Value \cup {Null}],
         UNCHANGED <<exec, stackVars, coVars, natives, mode, astray>>
  PROVE  Sound'
<1>1. UNCHANGED <<exec, calls, parked, saved, active, fn, state, cur, callers, natives, mode, astray>>
  BY DEF stackVars, coVars
<1>2. TypeOK'
  BY <1>1 DEF Sound, TypeOK
<1>3. Stacks'
  BY <1>1 DEF Sound, Stacks, Aside, Known
<1>4. SavedSound' /\ LineKnown' /\ Counted(exec', calls')
  BY <1>1 DEF Sound, SavedSound, LineKnown, Line
<1> QED  BY <1>2, <1>3, <1>4 DEF Sound

\* The context that runs goes on with other frames.
LEMMA Stays ==
  ASSUME Sound, mode = "in",
         NEW cs, NEW ps, NEW sv \in Callee,
         calls' = [calls EXCEPT ![cur] = cs], parked' = [parked EXCEPT ![cur] = ps],
         saved' = [saved EXCEPT ![cur] = sv],
         cs # <<>>, Len(cs) <= MaxFrames[cur],
         StackSound(cur, cs, ps, natives', active'),
         SavedFrom(sv, active', ps, natives'),
         cap' \in [Closure -> Value \cup {Null}],
         exec' = [c \in Closure |-> exec'[c]], Counted(exec', calls'),
         UNCHANGED <<held, fn, state, cur, callers, mode, astray>>
  PROVE  Sound'
<1>1. /\ held \in SUBSET Closure
      /\ calls \in [Ctx -> Seq(FrameOf)] /\ parked \in [Ctx -> Seq(EntryOf)] /\ saved \in [Ctx -> Callee]
      /\ cur \in Ctx /\ \A x \in Ctx : Len(calls[x]) <= MaxFrames[x]
  BY Now
<1>2. cs \in Seq(FrameOf) /\ ps \in Seq(EntryOf) /\ natives' \in Seq(NativeOf) /\ active' \in Callee
  BY StackFacts DEF StackSound
<1>3. /\ calls' \in [Ctx -> Seq(FrameOf)] /\ parked' \in [Ctx -> Seq(EntryOf)] /\ saved' \in [Ctx -> Callee]
      /\ calls'[cur] = cs /\ parked'[cur] = ps /\ saved'[cur] = sv
      /\ \A x \in Ctx : x # cur => calls'[x] = calls[x] /\ parked'[x] = parked[x] /\ saved'[x] = saved[x]
  BY <1>1, <1>2
<1>4. exec' \in [Closure -> Nat]
  BY <1>3, CountedTyped
<1>5. \A x \in Ctx : Len(calls'[x]) <= MaxFrames[x]
  BY <1>1, <1>3
<1>6. TypeOK'
  BY <1>1, <1>2, <1>3, <1>4, <1>5 DEF Sound, TypeOK, NativeOf
<1>7. Stacks'
  <2> SUFFICES ASSUME NEW x \in Ctx
               PROVE  StackSound(x, calls'[x], parked'[x], Aside(x)', Known(x)')
    BY DEF Stacks
  <2>1. CASE x = cur
    BY <2>1, <1>3 DEF Aside, Known
  <2>2. CASE x # cur
    BY <2>2, <1>3, NowStacks DEF Aside, Known
  <2> QED  BY <2>1, <2>2
<1>8. SavedSound'
  BY <1>3 DEF SavedSound
<1>9. LineKnown'
  <2>1. /\ WaitChain(Ctx, Main, cur, callers)
        /\ \A x \in Co : state[x] = "running" <=> x = cur
        /\ \A x \in Co : state[x] = "normal" <=> x \in ToSet(callers)
        /\ \A x \in Line : calls[x] # <<>>
        /\ \A x \in Co : state[x] \in {"none", "dead"} => calls[x] = <<>>
    BY DEF Sound, LineKnown
  <2>2. Line' = Line /\ Line \subseteq Ctx
    BY Now DEF Line
  <2>3. \A x \in Line : calls'[x] # <<>>
    BY <2>1, <2>2, <1>3
  <2>4. \A x \in Co : state[x] \in {"none", "dead"} => calls'[x] = <<>>
    <3>1. \A x \in Co : x \in Ctx /\ (state[x] \in {"none", "dead"} => x # cur)
      BY <2>1 DEF Ctx
    <3> QED  BY <3>1, <2>1, <1>3
  <2> QED  BY <2>1, <2>2, <2>3, <2>4 DEF LineKnown
<1> QED  BY <1>6, <1>7, <1>8, <1>9 DEF Sound

\* The pointer that is forgotten where it is the lambda's that ends.
Unsaid == IF saved[cur] = active THEN NoClosure ELSE saved[cur]

LEMMA UnsavedIs ==
  ASSUME Sound
  PROVE  Unsaved = [saved EXCEPT ![cur] = Unsaid] /\ Unsaid \in Callee
BY Now DEF Unsaved, Unsaid, Callee

LEMMA FinishedIs ==
  ASSUME Sound, mode = "in", Finished
  PROVE  /\ cap' \in [Closure -> Value \cup {Null}]
         /\ Loses(exec, exec', active) /\ exec' = [e \in Closure |-> exec'[e]]
         /\ \A e \in Closure : exec'[e] \in Int
<1>1. Names(Entry(active, cur, Depth), cur, calls[cur])
  BY NowStacks, NamesTop DEF Depth
<1>2. /\ cap \in [Closure -> Value \cup {Null}] /\ calls \in [Ctx -> Seq(FrameOf)] /\ cur \in Ctx
      /\ exec \in [Closure -> Nat] /\ active \in Callee
  BY Now
<1>3. cap' \in [Closure -> Value \cup {Null}]
  BY <1>1, <1>2, SyncedTyped DEF Finished
<1>4. Loses(exec, exec', active)
  BY <1>2, HoldingIs DEF Finished
<1>5. exec' = [e \in Closure |-> exec'[e]] /\ \A e \in Closure : exec'[e] \in Int
  <2>1. exec' = Holding(active, -1) /\ \A e \in Closure : exec[e] \in Int /\ exec[e] + -1 \in Int
    BY <1>2 DEF Finished
  <2>2. CASE active = NoClosure
    BY <2>1, <2>2, <1>2 DEF Holding
  <2>3. CASE active # NoClosure
    <3>1. exec' = [exec EXCEPT ![active] = @ + -1] /\ active \in Closure
      BY <2>1, <2>3, <1>2 DEF Holding, Callee
    <3> QED  BY <3>1, <2>1, <1>2
  <2> QED  BY <2>2, <2>3
<1> QED  BY <1>3, <1>4, <1>5

\* The topmost frame's variable is assigned to.
LEMMA SlotWritten ==
  ASSUME Sound, mode = "in", NEW v \in Value \cup {Null},
         calls' = [calls EXCEPT ![cur] = [calls[cur] EXCEPT ![Depth].slot = v]]
  PROVE  /\ calls' \in [Ctx -> Seq(FrameOf)] /\ Len(calls'[cur]) = Len(calls[cur])
         /\ StackSound(cur, calls'[cur], parked[cur], natives, active) /\ calls'[cur] # <<>>
         /\ \A y \in Ctx : y # cur => calls'[y] = calls[y]
         /\ Counted(exec, calls')
<1> DEFINE cs == [calls[cur] EXCEPT ![Depth].slot = v]
<1>1. calls' = [calls EXCEPT ![cur] = cs]
  OBVIOUS
<1>2. StackSound(cur, calls[cur], parked[cur], natives, active) /\ calls[cur] # <<>>
  BY NowStacks
<1>3. /\ Depth \in DOMAIN calls[cur] /\ Depth = Len(calls[cur]) /\ DOMAIN calls[cur] = 1 .. Depth
      /\ \A i \in DOMAIN calls[cur] : calls[cur][i] \in FrameOf
  BY <1>2, StackFacts DEF Depth
<1>4. StackSound(cur, cs, parked[cur], natives, active)
  BY <1>2, <1>3, Rewritten
<1>5. /\ cs # <<>> /\ cs \in Seq(FrameOf) /\ Len(cs) = Len(calls[cur]) /\ DOMAIN cs = DOMAIN calls[cur]
      /\ \A i \in DOMAIN cs : cs[i].closure = calls[cur][i].closure
  <2>1. DOMAIN cs = 1 .. Depth /\ cs \in Seq(FrameOf) /\ Depth \in Nat \ {0}
    BY <1>2, <1>3, <1>4, StackFacts DEF StackSound
  <2>2. Len(cs) = Depth /\ cs # <<>>
    BY <2>1, LenProperties, EmptySeq
  <2>3. \A i \in DOMAIN cs : cs[i].closure = calls[cur][i].closure
    BY <1>3 DEF FrameOf
  <2> QED  BY <2>1, <2>2, <2>3, <1>3
<1>6. calls \in [Ctx -> Seq(FrameOf)] /\ cur \in Ctx
  BY Now
<1> HIDE DEF cs
<1>7. /\ calls' \in [Ctx -> Seq(FrameOf)] /\ calls'[cur] = cs
      /\ \A y \in Ctx : y # cur => calls'[y] = calls[y]
  BY <1>1, <1>5, <1>6
<1>8. \A c : FramesIn(calls', Ctx, c) = FramesIn(calls, Ctx, c)
  <2>1. \A x \in Ctx : /\ DOMAIN calls'[x] = DOMAIN calls[x]
                       /\ \A i \in DOMAIN calls[x] : calls'[x][i].closure = calls[x][i].closure
    BY <1>5, <1>7
  <2>2. ASSUME NEW c, NEW x \in Ctx
        PROVE  {i \in DOMAIN calls'[x] : calls'[x][i].closure = c} = {i \in DOMAIN calls[x] : calls[x][i].closure = c}
    BY <2>1
  <2> QED  BY <2>2 DEF FramesIn
<1>9. Counted(exec, calls')
  BY <1>8, Now DEF Counted
<1> QED  BY <1>4, <1>5, <1>7, <1>9

LEMMA WriteStep ==
  ASSUME Sound, NEW v \in Value, Write(v)
  PROVE  Sound'
<1> DEFINE cs == [calls[cur] EXCEPT ![Depth].slot = v]
<1>1. /\ mode = "in" /\ calls' = [calls EXCEPT ![cur] = cs]
      /\ UNCHANGED <<held, cap, exec, parked, saved, active, fn, state, cur, callers, natives, mode, astray>>
  BY DEF Write, Running, lambdaVars, coVars
<1>2. /\ calls' \in [Ctx -> Seq(FrameOf)] /\ Len(calls'[cur]) = Len(calls[cur])
      /\ StackSound(cur, calls'[cur], parked[cur], natives, active) /\ calls'[cur] # <<>>
      /\ Counted(exec, calls')
  BY <1>1, SlotWritten
<1>3. calls'[cur] = cs
  BY <1>1, Now
<1> HIDE DEF cs
<1>4. parked' = [parked EXCEPT ![cur] = parked[cur]] /\ saved' = [saved EXCEPT ![cur] = saved[cur]]
  BY <1>1, Now
<1>5. SavedFrom(saved[cur], active, parked[cur], natives)
  BY <1>1 DEF Sound, SavedSound
<1>6. /\ saved[cur] \in Callee /\ Len(calls[cur]) <= MaxFrames[cur]
      /\ cap' \in [Closure -> Value \cup {Null}] /\ exec' = [c \in Closure |-> exec'[c]]
  BY <1>1, Now
<1> QED  BY <1>1, <1>2, <1>3, <1>4, <1>5, <1>6, Stays

\* The frame of a call.
LEMMA FrameTyped ==
  ASSUME Sound, NEW c \in Callee, NEW b \in BOOLEAN
  PROVE  Frame(c, b) \in FrameOf /\ Frame(c, b).closure = c /\ Frame(c, b).back = b
<1>1. (IF c = NoClosure THEN Null ELSE cap[c]) \in Value \cup {Null}
  BY Now DEF Callee
<1> QED  BY <1>1 DEF Frame, FrameOf

\* The pointer of a context whose topmost lambda is parked.
LEMMA SavedParked ==
  ASSUME NEW x, NEW cs, NEW ps, NEW ns, NEW top, StackSound(x, cs, ps, ns, top),
         NEW s, SavedFrom(s, top, ps, ns), NEW n, NEW b
  PROVE  SavedFrom(s, b, ps \o Entry(top, x, n), ns)
<1>1. ps \in Seq(EntryOf)
  BY DEF StackSound
<1>2. CASE top = NoClosure
  <2>1. ps \o Entry(top, x, n) = ps
    BY <1>1, <1>2, ConcatEmptySeq DEF Entry
  <2> QED  BY <2>1, <1>2 DEF SavedFrom
<1>3. CASE top # NoClosure
  <2> DEFINE e == [closure |-> top, ctx |-> x, frame |-> n]
  <2>1. ps \o Entry(top, x, n) = Append(ps, e) /\ e.closure = top
    BY <1>1, <1>3 DEF Entry
  <2> HIDE DEF e
  <2>2. \A i \in DOMAIN ps : i \in DOMAIN Append(ps, e) /\ Append(ps, e)[i] = ps[i]
    BY <1>1
  <2>3. Len(ps) + 1 \in DOMAIN Append(ps, e) /\ Append(ps, e)[Len(ps) + 1] = e
    BY <1>1
  <2> QED  BY <2>1, <2>2, <2>3 DEF SavedFrom
<1> QED  BY <1>2, <1>3

LEMMA CallStep ==
  ASSUME Sound, NEW c \in Callee, Call(c)
  PROVE  Sound'
<1> DEFINE f == Frame(c, active # NoClosure)
           cs == Append(calls[cur], f)
           ps == parked[cur] \o Entry(active, cur, Depth)
<1>1. /\ mode = "in" /\ Depth < MaxFrames[cur]
      /\ calls' = [calls EXCEPT ![cur] = cs] /\ parked' = [parked EXCEPT ![cur] = ps]
      /\ active' = c /\ exec' = Holding(c, 1)
      /\ UNCHANGED <<held, cap, saved, fn, state, cur, callers, natives, mode, astray>>
  BY DEF Call, Running, coVars
<1>2. StackSound(cur, calls[cur], parked[cur], natives, active) /\ calls[cur] # <<>>
  BY <1>1, NowStacks
<1>3. f \in FrameOf /\ f.closure = c /\ (f.back <=> active # NoClosure)
  BY FrameTyped
<1>4. /\ calls \in [Ctx -> Seq(FrameOf)] /\ cur \in Ctx /\ exec \in [Closure -> Nat]
      /\ Counted(exec, calls) /\ MaxFrames \in [Ctx -> Nat \ {0}]
  BY Now, Constants
<1> HIDE DEF f
<1>5. cs # <<>> /\ Len(cs) = Depth + 1 /\ Depth \in Nat
  BY <1>3, <1>4, Appended DEF Depth
<1>6. StackSound(cur, cs, ps, natives, c)
  BY <1>2, <1>3, Pushed DEF Depth
<1>7. Len(cs) <= MaxFrames[cur]
  BY <1>1, <1>4, <1>5
<1>8. Gains(exec, exec', f.closure)
  BY <1>1, <1>3, <1>4, HoldingIs
<1>9. Counted(exec', calls')
  <2>1. calls' \in [Ctx -> Seq(FrameOf)] /\ Grown(calls, calls', cur, f)
    BY <1>1, <1>3, <1>4, GrownIs
  <2> QED  BY <2>1, <1>3, <1>4, <1>8, CountedPush
<1>10. SavedFrom(saved[cur], active', ps, natives')
  BY <1>1, <1>2, SavedParked DEF Sound, SavedSound
<1>11. saved' = [saved EXCEPT ![cur] = saved[cur]] /\ saved[cur] \in Callee
       /\ cap' \in [Closure -> Value \cup {Null}] /\ exec' = [e \in Closure |-> exec'[e]]
  BY <1>1, <1>8, Now DEF Gains
<1> HIDE DEF cs, ps
<1> QED  BY <1>1, <1>5, <1>6, <1>7, <1>9, <1>10, <1>11, Stays

LEMMA EnterStep ==
  ASSUME Sound, NEW k \in {"lib", "host"}, NEW c \in Callee, Enter(k, c)
  PROVE  Sound'
<1> DEFINE f == Frame(c, FALSE)
           e == [kind |-> k, closure |-> active, frame |-> Depth]
           cs == Append(calls[cur], f)
<1>1. /\ mode = "in" /\ Depth < MaxFrames[cur] /\ natives' = Append(natives, e)
      /\ calls' = [calls EXCEPT ![cur] = cs] /\ active' = c /\ exec' = Holding(c, 1)
      /\ UNCHANGED <<held, cap, parked, saved, fn, state, cur, callers, mode, astray>>
  BY DEF Enter, Running, coVars
<1>2. StackSound(cur, calls[cur], parked[cur], natives, active) /\ calls[cur] # <<>>
  BY <1>1, NowStacks
<1>3. f \in FrameOf /\ f.closure = c /\ ~ f.back
  BY FrameTyped
<1>4. /\ calls \in [Ctx -> Seq(FrameOf)] /\ cur \in Ctx /\ exec \in [Closure -> Nat]
      /\ Counted(exec, calls) /\ MaxFrames \in [Ctx -> Nat \ {0}] /\ natives \in Seq(NativeOf)
  BY Now, Constants
<1> HIDE DEF f
<1>5. cs # <<>> /\ Len(cs) = Depth + 1 /\ Depth \in Nat \ {0}
  <2>1. Len(calls[cur]) # 0
    BY <1>2, StackFacts
  <2> QED  BY <2>1, <1>3, <1>4, Appended DEF Depth
<1>6. e \in NativeOf /\ e.closure = active /\ e.frame = Depth
  BY <1>2, <1>5, StackFacts DEF NativeOf
<1> HIDE DEF e
<1>7. StackSound(cur, cs, parked[cur], natives', c)
  BY <1>1, <1>2, <1>3, <1>6, Entered DEF Depth
<1>8. Len(cs) <= MaxFrames[cur]
  BY <1>1, <1>4, <1>5
<1>9. Gains(exec, exec', f.closure)
  BY <1>1, <1>3, <1>4, HoldingIs
<1>10. Counted(exec', calls')
  <2>1. calls' \in [Ctx -> Seq(FrameOf)] /\ Grown(calls, calls', cur, f)
    BY <1>1, <1>3, <1>4, GrownIs
  <2> QED  BY <2>1, <1>3, <1>4, <1>9, CountedPush
<1>11. SavedFrom(saved[cur], active', parked[cur], natives')
  <2>1. SavedFrom(saved[cur], active, parked[cur], natives)
    BY <1>1 DEF Sound, SavedSound
  <2>2. /\ \A i \in DOMAIN natives : i \in DOMAIN natives' /\ natives'[i] = natives[i]
        /\ Len(natives) + 1 \in DOMAIN natives' /\ natives'[Len(natives) + 1] = e
    BY <1>1, <1>4, <1>6, Appended
  <2> QED  BY <2>1, <2>2, <1>1, <1>6 DEF SavedFrom
<1>12. /\ saved' = [saved EXCEPT ![cur] = saved[cur]] /\ saved[cur] \in Callee
       /\ parked' = [parked EXCEPT ![cur] = parked[cur]]
       /\ cap' \in [Closure -> Value \cup {Null}] /\ exec' = [d \in Closure |-> exec'[d]]
  BY <1>1, <1>9, Now DEF Gains
<1> HIDE DEF cs
<1> QED  BY <1>1, <1>5, <1>7, <1>8, <1>10, <1>11, <1>12, Stays

LEMMA LeaveStep ==
  ASSUME Sound, Leave
  PROVE  Sound'
<1> DEFINE cs == Front(calls[cur])
<1>1. /\ mode = "in" /\ natives # <<>> /\ Depth = Floor + 1 /\ Finished
      /\ calls' = [calls EXCEPT ![cur] = cs] /\ saved' = Unsaved
      /\ active' = Last(natives).closure /\ natives' = Front(natives)
      /\ UNCHANGED <<held, parked, fn, state, cur, callers, mode, astray>>
  BY DEF Leave, Running, coVars
<1>2. StackSound(cur, calls[cur], parked[cur], natives, active) /\ calls[cur] # <<>>
  BY <1>1, NowStacks
<1>3. /\ calls \in [Ctx -> Seq(FrameOf)] /\ cur \in Ctx /\ exec \in [Closure -> Nat]
      /\ Counted(exec, calls) /\ Len(calls[cur]) <= MaxFrames[cur] /\ natives \in Seq(NativeOf)
      /\ MaxFrames \in [Ctx -> Nat \ {0}]
  BY Now, Constants
<1>4. Len(natives) \in DOMAIN natives /\ Last(natives) = natives[Len(natives)] /\ Last(natives).frame \in Nat
  <2>1. Last(natives) \in NativeOf /\ Len(natives) \in DOMAIN natives /\ Last(natives) = natives[Len(natives)]
    BY <1>1, <1>3, FrontFacts
  <2> QED  BY <2>1 DEF NativeOf
<1>5. Last(natives).frame = Len(calls[cur]) - 1
  BY <1>1, <1>4 DEF Floor, Depth
<1>6. StackSound(cur, cs, parked[cur], natives', active')
  BY <1>1, <1>2, <1>5, LeftNative
<1>7. cs # <<>> /\ Len(cs) <= MaxFrames[cur]
  <2>1. Len(calls[cur]) > 1
    <3>1. Last(natives).frame \in 1 .. Len(calls[cur]) - 1 /\ Len(calls[cur]) \in Nat
      BY <1>2, <1>4, StackFacts
    <3> QED  BY <3>1
  <2>4. calls[cur] \in Seq(FrameOf)
    BY <1>3
  <2>2. cs # <<>> /\ Len(cs) = Len(calls[cur]) - 1 /\ Len(calls[cur]) \in Nat
    BY <2>1, <2>4, <1>2, Shortened
  <2>3. MaxFrames[cur] \in Nat
    BY <1>3
  <2> QED  BY <2>2, <2>3, <1>3
<1>8. /\ Loses(exec, exec', active) /\ exec' = [e \in Closure |-> exec'[e]]
      /\ \A e \in Closure : exec'[e] \in Int
      /\ cap' \in [Closure -> Value \cup {Null}]
  BY <1>1, FinishedIs
<1>9. active = Last(calls[cur]).closure
  BY <1>2 DEF StackSound, TopOf
<1>10. Counted(exec', calls')
  <2>1. /\ calls' \in [Ctx -> Seq(FrameOf)] /\ Last(calls[cur]) \in FrameOf
        /\ Grown(calls', calls, cur, Last(calls[cur]))
    BY <1>1, <1>2, <1>3, GrownFront
  <2> QED  BY <2>1, <1>3, <1>8, <1>9, CountedPop
<1>11. saved' = [saved EXCEPT ![cur] = Unsaid] /\ Unsaid \in Callee
  BY <1>1, UnsavedIs
<1>12. SavedFrom(Unsaid, active', parked[cur], natives')
  <2>1. SavedFrom(saved[cur], active, parked[cur], natives)
    BY <1>1 DEF Sound, SavedSound
  <2>2. CASE saved[cur] = active
    BY <2>2 DEF SavedFrom, Unsaid
  <2>3. CASE saved[cur] # active
    <3>1. Unsaid = saved[cur]
      BY <2>3 DEF Unsaid
    <3>2. \A i \in DOMAIN natives : i = Len(natives) \/ (i \in DOMAIN natives' /\ natives'[i] = natives[i])
      <4>1. /\ Len(natives) \in Nat \ {0} /\ DOMAIN natives = 1 .. Len(natives)
            /\ DOMAIN Front(natives) = 1 .. Len(natives) - 1
            /\ \A i \in DOMAIN Front(natives) : Front(natives)[i] = natives[i]
        BY <1>1, <1>3, Shortened
      <4>3. \A n \in Nat \ {0} : \A i \in 1 .. n : i = n \/ i \in 1 .. n - 1
        OBVIOUS
      <4>2. \A i \in 1 .. Len(natives) : i = Len(natives) \/ i \in 1 .. Len(natives) - 1
        BY <4>1, <4>3
      <4> QED  BY <4>1, <4>2, <1>1
    <3> QED  BY <3>1, <3>2, <2>1, <2>3, <1>1, <1>4 DEF SavedFrom
  <2> QED  BY <2>2, <2>3
<1>13. parked' = [parked EXCEPT ![cur] = parked[cur]] /\ exec' = [e \in Closure |-> exec'[e]]
  BY <1>1, <1>8, Now
<1> HIDE DEF cs
<1> QED  BY <1>1, <1>6, <1>7, <1>8, <1>10, <1>11, <1>12, <1>13, Stays

LEMMA MakeStep ==
  ASSUME Sound, NEW c \in Closure, NEW v \in Value, Make(c, v)
  PROVE  Sound'
BY Now, Stutters DEF Make

LEMMA ForgetStep ==
  ASSUME Sound, NEW c \in Closure, Forget(c)
  PROVE  Sound'
BY Now, Stutters DEF Forget

\* Two frames at once are one upon the other.
LEMMA AnswersStep ==
  ASSUME Sound, NEW c \in Callee, NEW d \in Callee, Answers(c, d)
  PROVE  Sound'
<1> DEFINE f == Frame(c, active # NoClosure)
           g == Frame(d, c # NoClosure)
           cs == Append(calls[cur], f)
           ct == Append(cs, g)
           ps == parked[cur] \o Entry(active, cur, Depth)
           pt == ps \o Entry(c, cur, Depth + 1)
           ex == Holding(c, 1)
           cl == [calls EXCEPT ![cur] = Append(calls[cur], f)]
<1>1. /\ mode = "in" /\ Depth + 1 < MaxFrames[cur] /\ natives = <<>>
      /\ calls' = [calls EXCEPT ![cur] = @ \o <<f, g>>] /\ parked' = [parked EXCEPT ![cur] = pt]
      /\ active' = d
      /\ exec' = [e \in Closure |-> exec[e] + (IF c = e THEN 1 ELSE 0) + (IF d = e THEN 1 ELSE 0)]
      /\ UNCHANGED <<held, cap, saved, fn, state, cur, callers, natives, mode, astray>>
  BY DEF Answers, Running, coVars
<1>2. StackSound(cur, calls[cur], parked[cur], natives, active) /\ calls[cur] # <<>>
  BY <1>1, NowStacks
<1>3. /\ f \in FrameOf /\ f.closure = c /\ (f.back <=> active # NoClosure)
      /\ g \in FrameOf /\ g.closure = d /\ (g.back <=> c # NoClosure)
  BY FrameTyped
<1>4. /\ calls \in [Ctx -> Seq(FrameOf)] /\ cur \in Ctx /\ exec \in [Closure -> Nat]
      /\ Counted(exec, calls) /\ MaxFrames \in [Ctx -> Nat \ {0}] /\ calls[cur] \in Seq(FrameOf)
  BY Now, Constants
<1> HIDE DEF f, g
<1>5. cs # <<>> /\ cs \in Seq(FrameOf) /\ Len(cs) = Depth + 1 /\ Depth \in Nat
  BY <1>3, <1>4, Appended DEF Depth
<1>6. ct # <<>> /\ Len(ct) = Len(cs) + 1 /\ Len(ct) = Depth + 2
  <2>1. ct # <<>> /\ Len(ct) = Len(cs) + 1
    BY <1>3, <1>5, Appended
  <2> QED  BY <2>1, <1>5
<1>7. calls[cur] \o <<f, g>> = ct
  BY <1>3, <1>4
<1>8. StackSound(cur, cs, ps, natives, c)
  BY <1>2, <1>3, Pushed DEF Depth
<1>9. StackSound(cur, ct, pt, natives, d)
  <2> HIDE DEF cs, ps
  <2>1. StackSound(cur, Append(cs, g), ps \o Entry(c, cur, Len(cs)), natives, g.closure)
    BY <1>3, <1>5, <1>8, Pushed
  <2> QED  BY <2>1, <1>3, <1>5
<1>10. SavedFrom(saved[cur], c, ps, natives)
  BY <1>1, <1>2, SavedParked DEF Sound, SavedSound
<1>11. SavedFrom(saved[cur], active', pt, natives')
  <2> HIDE DEF cs, ps
  <2> QED  BY <1>1, <1>8, <1>10, SavedParked
<1>12. Counted(exec', calls')
  <2>1. cl \in [Ctx -> Seq(FrameOf)] /\ Grown(calls, cl, cur, f)
    BY <1>3, <1>4, GrownIs
  <2>2. Gains(exec, ex, f.closure)
    BY <1>3, <1>4, HoldingIs
  <2>3. Counted(ex, cl)
    <3> HIDE DEF ex, cl
    <3> QED  BY <2>1, <2>2, <1>3, <1>4, CountedPush
  <2>4. ex \in [Closure -> Nat]
    <3> HIDE DEF ex, cl
    <3> QED  BY <2>1, <2>2, <2>3, CountedTyped DEF Gains
  <2>5. cl[cur] = cs /\ calls' = [cl EXCEPT ![cur] = Append(cl[cur], g)]
    BY <1>1, <1>4, <1>7
  <2>6. Gains(ex, exec', g.closure)
    <3> HIDE DEF ex
    <3>1. \A e \in Closure : exec[e] \in Nat
      BY <1>4
    <3>2. \A e \in Closure : /\ c = e => ex[e] = exec[e] + 1
                             /\ c # e => ex[e] = exec[e]
      BY <2>2, <1>3 DEF Gains
    <3>3. \A e \in Closure : ex[e] = exec[e] + (IF c = e THEN 1 ELSE 0)
      BY <3>1, <3>2
    <3>4. \A e \in Closure : /\ d = e => exec'[e] = ex[e] + 1
                             /\ d # e => exec'[e] = ex[e] + 0 /\ ex[e] + 0 = ex[e]
      BY <1>1, <2>4, <3>3
    <3> QED  BY <3>4, <1>1, <1>3 DEF Gains
  <2> HIDE DEF ex, cl
  <2>7. calls' \in [Ctx -> Seq(FrameOf)] /\ Grown(cl, calls', cur, g)
    BY <2>1, <2>5, <1>3, <1>4, GrownIs
  <2> QED  BY <2>1, <2>3, <2>4, <2>6, <2>7, <1>3, <1>4, CountedPush
<1>13. Len(ct) <= MaxFrames[cur]
  BY <1>1, <1>4, <1>5, <1>6
<1>14. /\ saved' = [saved EXCEPT ![cur] = saved[cur]] /\ saved[cur] \in Callee
       /\ cap' \in [Closure -> Value \cup {Null}] /\ exec' = [e \in Closure |-> exec'[e]]
  BY <1>1, Now
<1>15. calls' = [calls EXCEPT ![cur] = ct]
  BY <1>1, <1>7
<1> HIDE DEF cs, ps, ct, pt
<1> QED  BY <1>1, <1>6, <1>9, <1>11, <1>12, <1>13, <1>14, <1>15, Stays

\* Every native frame interrupted something at the floor or below.
LEMMA FloorIs ==
  ASSUME Sound, mode = "in"
  PROVE  Floor \in Nat /\ \A i \in DOMAIN natives : natives[i].frame <= Floor
<1>1. natives \in Seq(NativeOf)
  BY Now
<1>2. \A i \in DOMAIN natives : natives[i].frame \in Nat
  <2>1. \A i \in DOMAIN natives : natives[i] \in NativeOf
    BY <1>1, ElementOfSeq, LenProperties
  <2> QED  BY <2>1 DEF NativeOf
<1>3. CASE natives = <<>>
  BY <1>3 DEF Floor
<1>4. CASE natives # <<>>
  <2>1. Len(natives) \in DOMAIN natives /\ Last(natives) = natives[Len(natives)]
    BY <1>1, <1>4, FrontFacts
  <2>2. Floor = natives[Len(natives)].frame
    BY <2>1, <1>4 DEF Floor
  <2>3. DOMAIN natives = 1 .. Len(natives) /\ Len(natives) \in Nat
    BY <1>1, LenProperties
  <2>4. \A i \in DOMAIN natives : i < Len(natives) => natives[i].frame < natives[Len(natives)].frame
    BY <2>1, NowStacks DEF StackSound, NativesOn
  <2>5. \A i \in DOMAIN natives : i < Len(natives) \/ i = Len(natives)
    BY <2>3
  <2> QED  BY <2>1, <2>2, <2>4, <2>5, <1>2
<1> QED  BY <1>3, <1>4

LEMMA ReturnStep ==
  ASSUME Sound, Return
  PROVE  Sound'
<1> DEFINE cs == Front(calls[cur])
<1>1. /\ mode = "in" /\ Floor + 1 < Depth /\ Finished /\ calls' = [calls EXCEPT ![cur] = cs]
      /\ UNCHANGED <<held, fn, state, cur, callers, natives, mode, astray>>
  BY DEF Return, coVars
<1>2. StackSound(cur, calls[cur], parked[cur], natives, active) /\ calls[cur] # <<>>
  BY <1>1, NowStacks
<1>3. /\ calls \in [Ctx -> Seq(FrameOf)] /\ cur \in Ctx /\ exec \in [Closure -> Nat]
      /\ Counted(exec, calls) /\ Len(calls[cur]) <= MaxFrames[cur] /\ Depth \in Nat
      /\ MaxFrames \in [Ctx -> Nat \ {0}] /\ calls[cur] \in Seq(FrameOf)
      /\ saved \in [Ctx -> Callee] /\ parked \in [Ctx -> Seq(EntryOf)]
  BY Now, Constants DEF Depth
<1>4. Len(calls[cur]) > 1 /\ \A i \in DOMAIN natives : natives[i].frame < Len(calls[cur]) - 1
  <2>1. Floor \in Nat /\ \A i \in DOMAIN natives : natives[i].frame \in Nat /\ natives[i].frame <= Floor
    BY <1>1, <1>2, FloorIs, StackFacts
  <2> QED  BY <2>1, <1>1, <1>3 DEF Depth
<1>5. cs # <<>> /\ Len(cs) <= MaxFrames[cur]
  <2>1. cs # <<>> /\ Len(cs) = Len(calls[cur]) - 1 /\ Len(calls[cur]) \in Nat
    BY <1>2, <1>3, <1>4, Shortened
  <2>2. MaxFrames[cur] \in Nat
    BY <1>3
  <2> QED  BY <2>1, <2>2, <1>3
<1>6. /\ Loses(exec, exec', active) /\ exec' = [e \in Closure |-> exec'[e]]
      /\ \A e \in Closure : exec'[e] \in Int
      /\ cap' \in [Closure -> Value \cup {Null}]
  BY <1>1, FinishedIs
<1>7. active = Last(calls[cur]).closure
  BY <1>2 DEF StackSound, TopOf
<1>8. Counted(exec', calls')
  <2>1. /\ calls' \in [Ctx -> Seq(FrameOf)] /\ Last(calls[cur]) \in FrameOf
        /\ Grown(calls', calls, cur, Last(calls[cur]))
    BY <1>1, <1>2, <1>3, GrownFront
  <2> QED  BY <2>1, <1>3, <1>6, <1>7, CountedPop
<1>9. Unsaved = [saved EXCEPT ![cur] = Unsaid] /\ Unsaid \in Callee
  BY UnsavedIs
<1>10. Top.back = Last(calls[cur]).back
  BY DEF Top, Depth, Last
<1>11. CASE Top.back
  <2> DEFINE ps == Front(parked[cur])
             a == Last(parked[cur]).closure
  <2>1. active' = a /\ parked' = [parked EXCEPT ![cur] = ps] /\ saved' = [Unsaved EXCEPT ![cur] = a]
    BY <1>11 DEF Return
  <2>2. saved' = [saved EXCEPT ![cur] = a]
    BY <2>1, <1>3, <1>9
  <2>3. a \in Closure /\ StackSound(cur, cs, ps, natives, a)
    BY <1>2, <1>4, <1>10, <1>11, Popped
  <2>4. a \in Callee /\ SavedFrom(a, active', ps, natives')
    BY <2>1, <2>3 DEF Callee, SavedFrom
  <2> HIDE DEF cs, ps, a
  <2> QED  BY <2>1, <2>2, <2>3, <2>4, <1>1, <1>5, <1>6, <1>8, Stays
<1>12. CASE ~ Top.back
  <2>1. active' = NoClosure /\ parked' = parked /\ saved' = [saved EXCEPT ![cur] = Unsaid]
    BY <1>9, <1>12 DEF Return
  <2>2. parked' = [parked EXCEPT ![cur] = parked[cur]]
    BY <2>1, <1>3
  <2>3. StackSound(cur, cs, parked[cur], natives, NoClosure)
    BY <1>2, <1>4, <1>10, <1>12, Popped
  <2>4. SavedFrom(Unsaid, active', parked[cur], natives')
    <3>1. SavedFrom(saved[cur], active, parked[cur], natives)
      BY <1>1 DEF Sound, SavedSound
    <3> QED  BY <3>1, <2>1, <1>1 DEF SavedFrom, Unsaid
  <2> HIDE DEF cs
  <2> QED  BY <2>1, <2>2, <2>3, <2>4, <1>1, <1>5, <1>6, <1>8, <1>9, Stays
<1> QED  BY <1>11, <1>12

-----------------------------------------------------------------------------
(* Steps from one context to another                                       *)

\* What the parts of the invariant leave of the types.
LEMMA Whole ==
  ASSUME held' \in SUBSET Closure, cap' \in [Closure -> Value \cup {Null}],
         exec' = [c \in Closure |-> exec'[c]], Counted(exec', calls'),
         calls' \in [Ctx -> Seq(FrameOf)], \A x \in Ctx : Len(calls'[x]) <= MaxFrames[x],
         parked' \in [Ctx -> Seq(EntryOf)], saved' \in [Ctx -> Callee], active' \in Callee,
         fn' \in [Co -> Callee],
         state' \in [Co -> {"none", "suspended", "running", "normal", "dead"}],
         natives' \in Seq(NativeOf), mode' \in {"idle", "failed", "in", "kept"}, astray' \in BOOLEAN,
         Stacks', SavedSound', LineKnown'
  PROVE  Sound'
<1>1. exec' \in [Closure -> Nat]
  BY CountedTyped
<1>2. cur' \in Ctx /\ callers' \in Seq(Ctx)
  BY DEF LineKnown, WaitChain
<1>3. TypeOK'
  BY <1>1, <1>2 DEF TypeOK, NativeOf
<1> QED  BY <1>3 DEF Sound

\* Who runs and who waits.
LEMMA NowLine ==
  ASSUME Sound
  PROVE  /\ WaitChain(Ctx, Main, cur, callers) /\ Main \in Line
         /\ \A x \in Co : x \in Ctx /\ x # Main
         /\ \A x \in Co : state[x] = "running" <=> x = cur
         /\ \A x \in Co : state[x] = "normal" <=> x \in ToSet(callers)
         /\ mode # "in" => callers = <<>> /\ cur = Main /\ active = NoClosure /\ natives = <<>>
         /\ mode \in {"idle", "failed"} => calls[Main] = <<>>
         /\ mode = "in" => \A x \in Line : calls[x] # <<>>
         /\ \A x \in Co : state[x] \in {"none", "dead"} => calls[x] = <<>>
<1>1. WaitChain(Ctx, Main, cur, callers)
  BY DEF Sound, LineKnown
<1>2. Main \in Line
  <2>1. CASE callers = <<>>
    BY <2>1, <1>1 DEF WaitChain, Line
  <2>2. CASE callers # <<>>
    <3>1. Last(callers) = Main /\ callers \in Seq(Ctx)
      BY <2>2, <1>1 DEF WaitChain
    <3>2. Len(callers) \in DOMAIN callers /\ Last(callers) = callers[Len(callers)]
      BY <2>2, <3>1, FrontFacts
    <3> QED  BY <3>1, <3>2 DEF ToSet, Line
  <2> QED  BY <2>1, <2>2
<1>3. \A x \in Co : x \in Ctx /\ x # Main
  BY Constants DEF Ctx
<1> QED  BY <1>1, <1>2, <1>3 DEF Sound, LineKnown, WaitChain

LEMMA CreateStep ==
  ASSUME Sound, NEW x \in Co, NEW c \in Callee, Create(x, c)
  PROVE  Sound'
<1>1. /\ mode = "in" /\ state[x] = "none" /\ fn' = [fn EXCEPT ![x] = c]
      /\ state' = [state EXCEPT ![x] = "suspended"] /\ saved' = [saved EXCEPT ![x] = NoClosure]
      /\ UNCHANGED <<held, cap, exec, calls, parked, active, cur, callers, natives, mode, astray>>
  BY DEF Create, Running, lambdaVars
<1>2. x \in Ctx /\ x # cur /\ x \notin ToSet(callers) /\ calls[x] = <<>>
  BY <1>1, NowLine
<1>3. saved' = saved
  <2>1. StackSound(x, calls[x], parked[x], <<>>, saved[x])
    BY <1>2, NowStacks
  <2>2. saved[x] = NoClosure
    BY <2>1, <1>2 DEF StackSound, TopOf
  <2> QED  BY <2>2, <1>1, Now
<1>4. Stacks' /\ SavedSound'
  BY <1>1, <1>3 DEF Sound, Stacks, SavedSound, Aside, Known
<1>5. state' \in [Co -> {"none", "suspended", "running", "normal", "dead"}] /\ fn' \in [Co -> Callee]
  BY <1>1, Now
<1>6. LineKnown'
  <2>1. \A y \in Co : state'[y] = IF y = x THEN "suspended" ELSE state[y]
    BY <1>1, Now
  <2> QED  BY <2>1, <1>1, <1>2 DEF Sound, LineKnown, Line
<1>7. /\ held' \in SUBSET Closure /\ cap' \in [Closure -> Value \cup {Null}]
      /\ exec' = [e \in Closure |-> exec'[e]] /\ Counted(exec', calls')
      /\ calls' \in [Ctx -> Seq(FrameOf)] /\ \A y \in Ctx : Len(calls'[y]) <= MaxFrames[y]
      /\ parked' \in [Ctx -> Seq(EntryOf)] /\ saved' \in [Ctx -> Callee] /\ active' \in Callee
      /\ natives' \in Seq(NativeOf) /\ mode' \in {"idle", "failed", "in", "kept"}
  BY <1>1, <1>3, Now
<1>8. astray' \in BOOLEAN
  BY <1>1 DEF Sound, TypeOK
<1> QED  BY <1>4, <1>5, <1>6, <1>7, <1>8, Whole

\* The line and the contexts after a resume.
LEMMA Resumed ==
  ASSUME Sound, NEW x \in Co, Resume(x)
  PROVE  /\ x \in Ctx /\ x # cur /\ x \notin ToSet(callers) /\ cur' = x /\ natives' = <<>> /\ mode' = "in"
         /\ WaitChain(Ctx, Main, cur', callers') /\ Line' = Line \cup {x}
         /\ state' \in [Co -> {"none", "suspended", "running", "normal", "dead"}]
         /\ \A y \in Co : state'[y] = "running" <=> y = x
         /\ \A y \in Co : state'[y] = "normal" <=> y \in ToSet(callers')
         /\ \A y \in Co : state'[y] \in {"none", "dead"} => y # x /\ calls[y] = <<>>
<1>1. /\ mode = "in" /\ natives = <<>> /\ state[x] = "suspended"
      /\ state' = [y \in Co |-> IF y = x THEN "running" ELSE IF y = cur THEN "normal" ELSE state[y]]
      /\ callers' = <<cur>> \o callers /\ cur' = x /\ UNCHANGED <<natives, mode>>
  BY DEF Resume, Running
<1>2. x \in Ctx /\ x # cur /\ x \notin ToSet(callers)
  BY <1>1, NowLine
<1>3. WaitChain(Ctx, Main, cur', callers') /\ ToSet(callers') = ToSet(callers) \cup {cur}
  <2>1. WaitChain(Ctx, Main, cur, callers)
    BY NowLine
  <2>2. /\ WaitChain(Ctx, Main, x, <<cur>> \o callers)
        /\ ToSet(<<cur>> \o callers) = ToSet(callers) \cup {cur}
    BY <2>1, <1>2, ChainPushed
  <2> QED  BY <2>2, <1>1
<1>4. Line' = Line \cup {x}
  BY <1>1, <1>3 DEF Line
<1>5. state' \in [Co -> {"none", "suspended", "running", "normal", "dead"}]
  BY <1>1, Now
<1>6. \A y \in Co : /\ state'[y] = "running" <=> y = x
                    /\ state'[y] = "normal" <=> y \in ToSet(callers')
                    /\ state'[y] \in {"none", "dead"} => y # x /\ calls[y] = <<>>
  BY <1>1, <1>2, <1>3, NowLine
<1> QED  BY <1>1, <1>2, <1>3, <1>4, <1>5, <1>6

LEMMA ResumeStep ==
  ASSUME Sound, NEW x \in Co, Resume(x)
  PROVE  Sound'
<1>1. /\ mode = "in" /\ natives = <<>> /\ UNCHANGED <<held, cap, parked, fn, natives, mode, astray>>
  BY DEF Resume, Running
<1>2. /\ x \in Ctx /\ x # cur /\ x \notin ToSet(callers) /\ cur' = x /\ natives' = <<>> /\ mode' = "in"
      /\ WaitChain(Ctx, Main, cur', callers') /\ Line' = Line \cup {x}
      /\ state' \in [Co -> {"none", "suspended", "running", "normal", "dead"}]
      /\ \A y \in Co : state'[y] = "running" <=> y = x
      /\ \A y \in Co : state'[y] = "normal" <=> y \in ToSet(callers')
      /\ \A y \in Co : state'[y] \in {"none", "dead"} => y # x /\ calls[y] = <<>>
  BY Resumed
<1>3. /\ calls \in [Ctx -> Seq(FrameOf)] /\ saved \in [Ctx -> Callee] /\ active \in Callee
      /\ exec \in [Closure -> Nat] /\ cur \in Ctx /\ fn \in [Co -> Callee] /\ Counted(exec, calls)
      /\ MaxFrames \in [Ctx -> Nat \ {0}] /\ parked \in [Ctx -> Seq(EntryOf)]
  BY Now, Constants
<1>4. /\ StackSound(cur, calls[cur], parked[cur], <<>>, active)
      /\ \A y \in Ctx : y # cur => StackSound(y, calls[y], parked[y], <<>>, saved[y])
  BY <1>1, NowStacks
<1>5. \A y \in Line : y \in Ctx /\ calls[y] # <<>>
  BY <1>1, NowLine, Now
<1>6. /\ held' \in SUBSET Closure /\ cap' \in [Closure -> Value \cup {Null}]
      /\ parked' \in [Ctx -> Seq(EntryOf)] /\ fn' \in [Co -> Callee]
      /\ natives' \in Seq(NativeOf) /\ mode' \in {"idle", "failed", "in", "kept"}
  BY <1>1, Now
<1>7. astray' \in BOOLEAN
  BY <1>1 DEF Sound, TypeOK
<1>8. CASE calls[x] = <<>>
  <2> DEFINE f == Frame(fn[x], FALSE)
  <2>1. /\ calls' = [calls EXCEPT ![x] = <<f>>] /\ saved' = [saved EXCEPT ![cur] = active, ![x] = fn[x]]
        /\ active' = fn[x] /\ exec' = Holding(fn[x], 1)
    BY <1>8 DEF Resume
  <2>2. f \in FrameOf /\ f.closure = fn[x] /\ ~ f.back /\ fn[x] \in Callee
    BY <1>3, FrameTyped
  <2> HIDE DEF f
  <2>3. parked[x] = <<>>
    <3>1. StackSound(x, calls[x], parked[x], <<>>, saved[x]) /\ Len(calls[x]) <= 1
      BY <1>2, <1>4, <1>8
    <3> QED  BY <3>1, ShortStack
  <2>4. /\ calls' \in [Ctx -> Seq(FrameOf)] /\ calls'[x] = <<f>> /\ Len(<<f>>) = 1 /\ <<f>> # <<>>
        /\ saved' \in [Ctx -> Callee] /\ saved'[x] = fn[x] /\ saved'[cur] = active
        /\ \A y \in Ctx : y # x => calls'[y] = calls[y]
        /\ \A y \in Ctx : y # x /\ y # cur => saved'[y] = saved[y]
    <3>1. <<f>> \in Seq(FrameOf) /\ Len(<<f>>) = 1 /\ <<f>> # <<>>
      BY <2>2
    <3>2. /\ calls' \in [Ctx -> Seq(FrameOf)] /\ calls'[x] = <<f>>
          /\ \A y \in Ctx : y # x => calls'[y] = calls[y]
      BY <3>1, <2>1, <1>2, <1>3
    <3>3. /\ saved' \in [Ctx -> Callee] /\ saved'[x] = fn[x] /\ saved'[cur] = active
          /\ \A y \in Ctx : y # x /\ y # cur => saved'[y] = saved[y]
      BY <2>1, <2>2, <1>2, <1>3
    <3> QED  BY <3>1, <3>2, <3>3
  <2>5. Gains(exec, exec', f.closure)
    BY <2>1, <2>2, <1>3, HoldingIs
  <2>6. Grown(calls, calls', x, f)
    <3>1. calls'[x] = Append(calls[x], f)
      BY <2>4, <1>8
    <3> QED  BY <3>1, <2>4 DEF Grown
  <2>7. Counted(exec', calls')
    BY <2>2, <2>4, <2>5, <2>6, <1>2, <1>3, CountedPush
  <2>8. \A y \in Ctx : Len(calls'[y]) <= MaxFrames[y]
    <3>1. \A y \in Ctx : Len(calls[y]) <= MaxFrames[y] /\ 1 <= MaxFrames[y]
      BY <1>3, Now
    <3> QED  BY <3>1, <2>4
  <2>9. Stacks'
    <3> SUFFICES ASSUME NEW y \in Ctx
                 PROVE  StackSound(y, calls'[y], parked'[y], Aside(y)', Known(y)')
      BY DEF Stacks
    <3>1. CASE y = x
      <4>1. Aside(y)' = <<>> /\ Known(y)' = f.closure /\ parked'[y] = <<>>
        BY <3>1, <2>1, <2>2, <2>3, <1>1, <1>2 DEF Aside, Known
      <4> QED  BY <4>1, <3>1, <2>2, <2>4, Begun
    <3>2. CASE y # x
      <4>1. Aside(y)' = <<>> /\ Known(y)' = saved'[y] /\ parked'[y] = parked[y] /\ calls'[y] = calls[y]
        BY <3>2, <2>4, <1>1, <1>2 DEF Aside, Known
      <4> QED  BY <4>1, <3>2, <2>4, <1>4
    <3> QED  BY <3>1, <3>2
  <2>10. SavedSound'
    BY <2>1, <2>4, <1>2 DEF SavedSound, SavedFrom
  <2>11. LineKnown'
    <3>1. \A y \in Line' : calls'[y] # <<>>
      BY <2>4, <1>2, <1>5
    <3>2. \A y \in Co : state'[y] \in {"none", "dead"} => calls'[y] = <<>>
      BY <2>4, <1>2 DEF Ctx
    <3> QED  BY <3>1, <3>2, <1>2 DEF LineKnown
  <2>12. exec' = [e \in Closure |-> exec'[e]] /\ active' \in Callee
    BY <2>1, <2>2, <2>5 DEF Gains
  <2> QED  BY <2>4, <2>7, <2>8, <2>9, <2>10, <2>11, <2>12, <1>2, <1>6, <1>7, Whole
<1>9. CASE calls[x] # <<>>
  <2>1. /\ saved' = [saved EXCEPT ![cur] = active] /\ active' = saved[x] /\ UNCHANGED <<calls, exec>>
    BY <1>9 DEF Resume
  <2>2. /\ saved' \in [Ctx -> Callee] /\ saved'[cur] = active /\ active' \in Callee
        /\ \A y \in Ctx : y # cur => saved'[y] = saved[y]
    BY <2>1, <1>2, <1>3
  <2>3. Stacks'
    <3> SUFFICES ASSUME NEW y \in Ctx
                 PROVE  StackSound(y, calls'[y], parked'[y], Aside(y)', Known(y)')
      BY DEF Stacks
    <3>1. Aside(y)' = <<>> /\ Known(y)' = (IF y = cur THEN active ELSE saved[y]) /\ parked'[y] = parked[y]
          /\ calls'[y] = calls[y]
      BY <2>1, <2>2, <1>1, <1>2 DEF Aside, Known
    <3> QED  BY <3>1, <1>4
  <2>4. SavedSound'
    BY <2>1, <2>2, <1>2 DEF SavedSound, SavedFrom
  <2>5. LineKnown'
    <3>1. \A y \in Line' : calls'[y] # <<>>
      BY <2>1, <1>2, <1>5, <1>9
    <3> QED  BY <3>1, <2>1, <1>2 DEF LineKnown
  <2>6. /\ exec' = [e \in Closure |-> exec'[e]] /\ Counted(exec', calls')
        /\ calls' \in [Ctx -> Seq(FrameOf)] /\ \A y \in Ctx : Len(calls'[y]) <= MaxFrames[y]
    BY <2>1, <1>3, Now
  <2> QED  BY <2>2, <2>3, <2>4, <2>5, <2>6, <1>2, <1>6, <1>7, Whole
<1> QED  BY <1>8, <1>9

\* The nearest caller goes on; what the context that was left keeps is given.
LEMMA BackStep ==
  ASSUME Sound, mode = "in", NEW s \in {"suspended", "dead"}, Back(s),
         NEW cs, NEW ps, NEW sv,
         calls' = [calls EXCEPT ![cur] = cs], parked' = [parked EXCEPT ![cur] = ps],
         saved' = [saved EXCEPT ![cur] = sv],
         StackSound(cur, cs, ps, <<>>, sv), Len(cs) <= MaxFrames[cur], s = "dead" => cs = <<>>,
         cap' \in [Closure -> Value \cup {Null}],
         exec' = [c \in Closure |-> exec'[c]], Counted(exec', calls'), UNCHANGED astray
  PROVE  Sound'
<1> DEFINE h == Head(callers)
<1>1. /\ natives = <<>> /\ callers # <<>> /\ cur' = h /\ callers' = Tail(callers)
      /\ state' = [y \in Co |-> IF y = cur THEN s ELSE IF y = h THEN "running" ELSE state[y]]
      /\ active' = saved[h] /\ UNCHANGED <<held, fn, natives, mode>>
  BY DEF Back
<1>2. WaitChain(Ctx, Main, cur, callers) /\ cur \in Ctx /\ cur \notin ToSet(callers)
  BY NowLine, Now
<1>3. /\ WaitChain(Ctx, Main, h, Tail(callers)) /\ h \in ToSet(callers)
      /\ ToSet(Tail(callers)) = ToSet(callers) \ {h}
  BY <1>1, <1>2, ChainPopped
<1>4. h \in Ctx /\ h # cur
  BY <1>2, <1>3 DEF WaitChain
<1> HIDE DEF h
<1>5. cs \in Seq(FrameOf) /\ ps \in Seq(EntryOf) /\ sv \in Callee
  BY StackFacts DEF StackSound
<1>6. /\ calls \in [Ctx -> Seq(FrameOf)] /\ parked \in [Ctx -> Seq(EntryOf)] /\ saved \in [Ctx -> Callee]
      /\ \A y \in Ctx : Len(calls[y]) <= MaxFrames[y]
  BY Now
<1>7. /\ calls' \in [Ctx -> Seq(FrameOf)] /\ calls'[cur] = cs
      /\ parked' \in [Ctx -> Seq(EntryOf)] /\ parked'[cur] = ps
      /\ saved' \in [Ctx -> Callee] /\ saved'[cur] = sv
      /\ \A y \in Ctx : y # cur => calls'[y] = calls[y] /\ parked'[y] = parked[y] /\ saved'[y] = saved[y]
  BY <1>2, <1>5, <1>6
<1>8. \A y \in Ctx : Len(calls'[y]) <= MaxFrames[y]
  BY <1>6, <1>7
<1>9. state' \in [Co -> {"none", "suspended", "running", "normal", "dead"}] /\ active' \in Callee
  BY <1>1, <1>4, Now
<1>10. Stacks'
  <2> SUFFICES ASSUME NEW y \in Ctx
               PROVE  StackSound(y, calls'[y], parked'[y], Aside(y)', Known(y)')
    BY DEF Stacks
  <2>1. Aside(y)' = <<>> /\ Known(y)' = saved'[y]
    BY <1>1, <1>4, <1>7 DEF Aside, Known
  <2>2. CASE y = cur
    BY <2>1, <2>2, <1>7
  <2>3. CASE y # cur
    BY <2>1, <2>3, <1>7, NowStacks
  <2> QED  BY <2>2, <2>3
<1>11. SavedSound'
  BY <1>1, <1>4, <1>7 DEF SavedSound, SavedFrom
<1>12. LineKnown'
  <2>1. WaitChain(Ctx, Main, cur, callers)'
    BY <1>1, <1>3
  <2>2. Line' = ToSet(callers) /\ Line = {cur} \cup ToSet(callers) /\ Line \subseteq Ctx
    BY <1>1, <1>3, Now DEF Line
  <2>3. \A y \in Co : /\ state'[y] = "running" <=> y = h
                      /\ state'[y] = "normal" <=> y \in ToSet(callers')
                      /\ state'[y] \in {"none", "dead"} => calls'[y] = <<>>
    <3> SUFFICES ASSUME NEW y \in Co
                 PROVE  /\ state'[y] = "running" <=> y = h
                        /\ state'[y] = "normal" <=> y \in ToSet(callers')
                        /\ state'[y] \in {"none", "dead"} => calls'[y] = <<>>
      OBVIOUS
    <3>1. y \in Ctx /\ (y \in ToSet(callers') <=> y \in ToSet(callers) /\ y # h)
      BY <1>1, <1>3, NowLine
    <3>2. CASE y = cur
      BY <3>1, <3>2, <1>1, <1>2, <1>4, <1>7
    <3>3. CASE y # cur
      BY <3>1, <3>3, <1>1, <1>3, <1>7, NowLine
    <3> QED  BY <3>2, <3>3
  <2>4. \A y \in Line' : calls'[y] # <<>>
    <3>1. \A y \in Line : calls[y] # <<>>
      BY NowLine
    <3> QED  BY <3>1, <2>2, <1>2, <1>7
  <2> QED  BY <2>1, <2>3, <2>4, <1>1 DEF LineKnown
<1>13. /\ held' \in SUBSET Closure /\ fn' \in [Co -> Callee] /\ natives' \in Seq(NativeOf)
       /\ mode' \in {"idle", "failed", "in", "kept"}
  BY <1>1, Now
<1>14. astray' \in BOOLEAN
  BY DEF Sound, TypeOK
<1> QED  BY <1>7, <1>8, <1>9, <1>10, <1>11, <1>12, <1>13, <1>14, Whole

\* A stack that ends with all that it has given back.
LEMMA CountedEnd ==
  ASSUME Sound, NEW x \in Ctx, NEW E, Covers(E, x, calls[x]),
         exec' = Released(E), calls' = [calls EXCEPT ![x] = <<>>]
  PROVE  /\ calls' \in [Ctx -> Seq(FrameOf)]
         /\ exec' = [c \in Closure |-> exec'[c]] /\ Counted(exec', calls')
<1> DEFINE X == {x}
<1>1. calls \in [Ctx -> Seq(FrameOf)] /\ Counted(exec, calls) /\ X \subseteq Ctx
  BY Now
<1>2. calls' \in [Ctx -> Seq(FrameOf)]
  <2>1. <<>> \in Seq(FrameOf)
    OBVIOUS
  <2> QED  BY <2>1, <1>1
<1>3. EndedIn(calls, calls', X)
  BY <1>1 DEF EndedIn
<1>4. ASSUME NEW c \in Closure
      PROVE  exec'[c] = Cardinality(FramesIn(calls', Ctx, c))
  <2>1. exec'[c] = exec[c] - Uses(E, c)
    BY DEF Released
  <2>2. exec[c] = Cardinality(FramesIn(calls, Ctx, c))
    BY <1>1 DEF Counted
  <2>3. Uses(E, c) = Cardinality(FramesIn(calls, X, c))
    BY <1>1, CountEnd
  <2>4. LessCounted(calls, calls', X, c)
    <3> HIDE DEF X
    <3> QED  BY <1>1, <1>2, <1>3, CountApart
  <2> QED  BY <2>1, <2>2, <2>3, <2>4 DEF LessCounted
<1>5. exec' = [c \in Closure |-> exec'[c]]
  BY DEF Released
<1> QED  BY <1>2, <1>4, <1>5 DEF Counted

LEMMA YieldStep ==
  ASSUME Sound, Yield
  PROVE  Sound'
<1>1. /\ mode = "in" /\ Back("suspended") /\ saved' = [saved EXCEPT ![cur] = active]
      /\ UNCHANGED <<cap, exec, calls, parked, astray>> /\ natives = <<>>
  BY DEF Yield, Running, Back
<1>2. /\ calls' = [calls EXCEPT ![cur] = calls[cur]] /\ parked' = [parked EXCEPT ![cur] = parked[cur]]
      /\ cap' \in [Closure -> Value \cup {Null}] /\ exec' = [c \in Closure |-> exec'[c]]
      /\ Counted(exec', calls') /\ Len(calls[cur]) <= MaxFrames[cur]
  BY <1>1, Now
<1>3. StackSound(cur, calls[cur], parked[cur], <<>>, active)
  BY <1>1, NowStacks
<1> QED  BY <1>1, <1>2, <1>3, BackStep

LEMMA BodyEndsStep ==
  ASSUME Sound, BodyEnds
  PROVE  Sound'
<1>1. /\ mode = "in" /\ Depth = 1 /\ Back("dead") /\ Finished /\ calls' = [calls EXCEPT ![cur] = <<>>]
      /\ saved' = [saved EXCEPT ![cur] = NoClosure] /\ UNCHANGED <<parked, astray>> /\ natives = <<>>
  BY DEF BodyEnds, Running, Back
<1>2. /\ calls \in [Ctx -> Seq(FrameOf)] /\ cur \in Ctx /\ exec \in [Closure -> Nat]
      /\ Counted(exec, calls) /\ parked \in [Ctx -> Seq(EntryOf)] /\ calls[cur] \in Seq(FrameOf)
      /\ MaxFrames \in [Ctx -> Nat \ {0}] /\ Len(calls[cur]) = 1
  BY <1>1, Now, Constants DEF Depth
<1>3. StackSound(cur, calls[cur], parked[cur], <<>>, active) /\ calls[cur] # <<>>
  BY <1>1, NowStacks
<1>4. /\ Loses(exec, exec', active) /\ exec' = [e \in Closure |-> exec'[e]]
      /\ \A e \in Closure : exec'[e] \in Int
      /\ cap' \in [Closure -> Value \cup {Null}]
  BY <1>1, FinishedIs
<1>5. active = Last(calls[cur]).closure
  BY <1>3 DEF StackSound, TopOf
<1>6. Front(calls[cur]) = <<>>
  BY <1>2, <1>3, Shortened
<1>7. Counted(exec', calls')
  <2>1. /\ calls' \in [Ctx -> Seq(FrameOf)] /\ Last(calls[cur]) \in FrameOf
        /\ Grown(calls', calls, cur, Last(calls[cur]))
    BY <1>1, <1>2, <1>3, <1>6, GrownFront
  <2> QED  BY <2>1, <1>2, <1>4, <1>5, CountedPop
<1>8. parked' = [parked EXCEPT ![cur] = <<>>]
  <2>1. parked[cur] = <<>>
    <3>1. Len(calls[cur]) <= 1
      BY <1>2
    <3> QED  BY <3>1, <1>3, ShortStack
  <2> QED  BY <2>1, <1>1, <1>2
<1>9. Len(<<>>) <= MaxFrames[cur] /\ StackSound(cur, <<>>, <<>>, <<>>, NoClosure)
  BY <1>2, Emptied
<1> QED  BY <1>1, <1>4, <1>7, <1>8, <1>9, BackStep

LEMMA CloseSelfStep ==
  ASSUME Sound, CloseSelf
  PROVE  Sound'
<1> DEFINE E == Entry(active, cur, Depth) \o Reverse(parked[cur])
<1>1. /\ mode = "in" /\ Back("dead") /\ natives = <<>>
      /\ cap' = Synced(cap, calls, E) /\ exec' = Released(E)
      /\ calls' = [calls EXCEPT ![cur] = <<>>] /\ parked' = [parked EXCEPT ![cur] = <<>>]
      /\ saved' = [saved EXCEPT ![cur] = NoClosure] /\ UNCHANGED astray
  BY DEF CloseSelf, Running, Back
<1>2. /\ calls \in [Ctx -> Seq(FrameOf)] /\ cur \in Ctx /\ cap \in [Closure -> Value \cup {Null}]
      /\ MaxFrames \in [Ctx -> Nat \ {0}]
  BY Now, Constants
<1>3. Covers(E, cur, calls[cur])
  BY <1>1, NowStacks, CoversQuiet DEF Depth
<1> HIDE DEF E
<1>4. cap' \in [Closure -> Value \cup {Null}]
  BY <1>1, <1>2, <1>3, SyncedTyped DEF Covers
<1>5. exec' = [c \in Closure |-> exec'[c]] /\ Counted(exec', calls')
  BY <1>1, <1>2, <1>3, CountedEnd
<1>6. Len(<<>>) <= MaxFrames[cur] /\ StackSound(cur, <<>>, <<>>, <<>>, NoClosure)
  BY <1>2, Emptied
<1> QED  BY <1>1, <1>4, <1>5, <1>6, BackStep

\* A context that does not run loses its stack.
LEMMA CutStep ==
  ASSUME Sound, NEW x \in Co, x # cur, state'[x] \in {"dead", "none"},
         cap' \in [Closure -> Value \cup {Null}], fn' \in [Co -> Callee],
         exec' = Released(Kept(x)),
         calls' = [calls EXCEPT ![x] = <<>>], parked' = [parked EXCEPT ![x] = <<>>],
         saved' = [saved EXCEPT ![x] = NoClosure], active' = active,
         state' = [state EXCEPT ![x] = state'[x]], callers' = RemoveFirst(callers, x),
         UNCHANGED <<held, cur, natives, mode, astray>>
  PROVE  Sound'
<1>1. x \in Ctx /\ x # Main /\ cur \in Ctx
  BY NowLine, Now
<1>2. StackSound(x, calls[x], parked[x], <<>>, saved[x])
  BY <1>1, NowStacks
<1>3. Covers(Kept(x), x, calls[x])
  BY <1>2, CoversQuiet DEF Kept
<1>4. /\ calls' \in [Ctx -> Seq(FrameOf)]
      /\ exec' = [c \in Closure |-> exec'[c]] /\ Counted(exec', calls')
  BY <1>1, <1>3, CountedEnd
<1>5. /\ calls \in [Ctx -> Seq(FrameOf)] /\ parked \in [Ctx -> Seq(EntryOf)] /\ saved \in [Ctx -> Callee]
      /\ MaxFrames \in [Ctx -> Nat \ {0}]
  BY Now, Constants
<1>6. /\ calls'[x] = <<>> /\ parked'[x] = <<>> /\ saved'[x] = NoClosure
      /\ parked' \in [Ctx -> Seq(EntryOf)] /\ saved' \in [Ctx -> Callee]
      /\ \A y \in Ctx : y # x => calls'[y] = calls[y] /\ parked'[y] = parked[y] /\ saved'[y] = saved[y]
  <2>1. <<>> \in Seq(EntryOf) /\ NoClosure \in Callee
    BY DEF Callee
  <2> QED  BY <2>1, <1>1, <1>5
<1>7. \A y \in Ctx : Len(calls'[y]) <= MaxFrames[y]
  <2>1. \A y \in Ctx : Len(calls[y]) <= MaxFrames[y] /\ Len(<<>>) <= MaxFrames[y]
    BY <1>5, Now
  <2> QED  BY <2>1, <1>6
<1>8. Stacks'
  <2> SUFFICES ASSUME NEW y \in Ctx
               PROVE  StackSound(y, calls'[y], parked'[y], Aside(y)', Known(y)')
    BY DEF Stacks
  <2>1. CASE y = x
    BY <2>1, <1>1, <1>6, Emptied DEF Aside, Known
  <2>2. CASE y # x
    <3>1. Aside(y)' = Aside(y) /\ Known(y)' = Known(y)
      BY <2>2, <1>6 DEF Aside, Known
    <3> QED  BY <3>1, <2>2, <1>6 DEF Sound, Stacks
  <2> QED  BY <2>1, <2>2
<1>9. SavedSound'
  BY <1>1, <1>6 DEF Sound, SavedSound
<1>10. LineKnown'
  <2>1. WaitChain(Ctx, Main, cur, callers)
    BY NowLine
  <2>2. /\ WaitChain(Ctx, Main, cur, RemoveFirst(callers, x))
        /\ ToSet(RemoveFirst(callers, x)) = ToSet(callers) \ {x}
    BY <2>1, <1>1, ChainCutOut
  <2>3. WaitChain(Ctx, Main, cur, callers)' /\ ToSet(callers') = ToSet(callers) \ {x}
    BY <2>2
  <2>4. \A y \in Co : state'[y] = IF y = x THEN state'[x] ELSE state[y]
    BY Now
  <2>5. \A y \in Co : /\ state'[y] = "running" <=> y = cur
                      /\ state'[y] = "normal" <=> y \in ToSet(callers')
                      /\ state'[y] \in {"none", "dead"} => calls'[y] = <<>>
    <3> SUFFICES ASSUME NEW y \in Co
                 PROVE  /\ state'[y] = "running" <=> y = cur
                        /\ state'[y] = "normal" <=> y \in ToSet(callers')
                        /\ state'[y] \in {"none", "dead"} => calls'[y] = <<>>
      OBVIOUS
    <3>1. CASE y = x
      BY <3>1, <2>3, <1>6
    <3>2. CASE y # x
      BY <3>2, <2>3, <2>4, <1>6, NowLine
    <3> QED  BY <3>1, <3>2
  <2>6. mode = "in" => \A y \in Line' : calls'[y] # <<>>
    <3>1. \A y \in Line' : y \in Line /\ y # x /\ y \in Ctx
      BY <2>3, Now DEF Line
    <3> QED  BY <3>1, <1>6, NowLine
  <2>7. /\ mode # "in" => callers' = <<>> /\ active = NoClosure /\ natives = <<>>
        /\ mode \in {"idle", "failed"} => calls'[Main] = <<>>
    <3>1. mode # "in" => callers = <<>> /\ active = NoClosure /\ natives = <<>>
      BY NowLine
    <3>2. mode # "in" => callers' = <<>>
      <4>1. RemoveFirst(<<>>, x) = <<>>
        BY DEF RemoveFirst
      <4> QED  BY <4>1, <3>1
    <3>3. Main \in Ctx
      BY DEF Ctx
    <3> QED  BY <3>1, <3>2, <3>3, <1>1, <1>6, NowLine
  <2> QED  BY <2>3, <2>5, <2>6, <2>7 DEF LineKnown
<1>11. /\ held' \in SUBSET Closure /\ active' \in Callee
       /\ natives' \in Seq(NativeOf) /\ mode' \in {"idle", "failed", "in", "kept"}
       /\ state' \in [Co -> {"none", "suspended", "running", "normal", "dead"}]
  BY Now
<1>12. astray' \in BOOLEAN
  BY DEF Sound, TypeOK
<1> QED  BY <1>4, <1>6, <1>7, <1>8, <1>9, <1>10, <1>11, <1>12, Whole

LEMMA CloseStep ==
  ASSUME Sound, NEW x \in Co, Close(x), ~ astray, ~ astray'
  PROVE  Sound'
<1>1. /\ natives = <<>> /\ state[x] \in {"suspended", "normal"}
      /\ cap' = Synced(cap, calls, Kept(x)) /\ exec' = Released(Kept(x))
      /\ calls' = [calls EXCEPT ![x] = <<>>] /\ parked' = [parked EXCEPT ![x] = <<>>]
      /\ saved' = [saved EXCEPT ![x] = NoClosure] /\ astray' = (active # active')
      /\ state' = [state EXCEPT ![x] = "dead"] /\ callers' = RemoveFirst(callers, x)
      /\ UNCHANGED <<held, fn, cur, natives, mode>>
  BY DEF Close
<1>2. x \in Ctx /\ x # cur
  BY <1>1, NowLine
<1>3. active' = active /\ astray' = astray
  BY <1>1, Zenon DEF Sound, TypeOK
<1>4. StackSound(x, calls[x], parked[x], <<>>, saved[x])
  BY <1>2, NowStacks
<1>5. Names(Kept(x), x, calls[x])
  BY <1>4, CoversQuiet DEF Kept, Covers
<1>6. cap \in [Closure -> Value \cup {Null}] /\ calls \in [Ctx -> Seq(FrameOf)]
  BY Now
<1>7. cap' \in [Closure -> Value \cup {Null}]
  BY <1>1, <1>2, <1>5, <1>6, SyncedTyped
<1>8. fn' \in [Co -> Callee] /\ state'[x] = "dead"
  BY <1>1, Now
<1> QED  BY <1>1, <1>2, <1>3, <1>7, <1>8, CutStep

LEMMA DiscardStep ==
  ASSUME Sound, NEW x \in Co, Discard(x)
  PROVE  Sound'
<1>1. /\ state[x] \in {"suspended", "dead"} /\ exec' = Released(Kept(x))
      /\ calls' = [calls EXCEPT ![x] = <<>>] /\ parked' = [parked EXCEPT ![x] = <<>>]
      /\ saved' = [saved EXCEPT ![x] = NoClosure] /\ fn' = [fn EXCEPT ![x] = NoClosure]
      /\ state' = [state EXCEPT ![x] = "none"]
      /\ UNCHANGED <<held, cap, active, cur, callers, natives, mode, astray>>
  BY DEF Discard
<1>2. x # cur /\ x \notin ToSet(callers)
  BY <1>1, NowLine
<1>3. RemoveFirst(callers, x) = callers
  <2>1. callers \in Seq(Ctx) /\ DOMAIN callers = 1 .. Len(callers)
    BY Now, LenProperties
  <2>2. {i \in 1 .. Len(callers) : callers[i] = x} = {}
    BY <2>1, <1>2 DEF ToSet
  <2> QED  BY <2>2 DEF RemoveFirst
<1>4. /\ cap' \in [Closure -> Value \cup {Null}] /\ fn' \in [Co -> Callee] /\ state'[x] = "none"
  BY <1>1, Now DEF Callee
<1> QED  BY <1>1, <1>2, <1>3, <1>4, CutStep

-----------------------------------------------------------------------------
(* Executions begin and end                                                *)

LEMMA BeginStep ==
  ASSUME Sound, NEW c \in Callee, Begin(c)
  PROVE  Sound'
<1> DEFINE f == Frame(c, FALSE)
<1>1. /\ mode \in {"idle", "failed"} /\ calls' = [calls EXCEPT ![Main] = <<f>>]
      /\ parked' = [parked EXCEPT ![Main] = <<>>] /\ active' = c /\ exec' = Holding(c, 1) /\ mode' = "in"
      /\ UNCHANGED <<held, cap, saved, fn, state, cur, callers, natives, astray>>
  BY DEF Begin, coVars
<1>2. /\ callers = <<>> /\ cur = Main /\ active = NoClosure /\ natives = <<>> /\ calls[Main] = <<>>
      /\ Main \in Ctx
  BY <1>1, NowLine DEF Ctx
<1>3. /\ calls \in [Ctx -> Seq(FrameOf)] /\ parked \in [Ctx -> Seq(EntryOf)] /\ saved \in [Ctx -> Callee]
      /\ exec \in [Closure -> Nat] /\ Counted(exec, calls) /\ MaxFrames \in [Ctx -> Nat \ {0}]
  BY Now, Constants
<1>4. f \in FrameOf /\ f.closure = c /\ ~ f.back
  BY FrameTyped
<1> HIDE DEF f
<1>5. <<f>> \in Seq(FrameOf) /\ Len(<<f>>) = 1 /\ <<f>> # <<>>
  BY <1>4
<1>6. /\ calls' \in [Ctx -> Seq(FrameOf)] /\ calls'[Main] = <<f>>
      /\ \A y \in Ctx : y # Main => calls'[y] = calls[y]
  BY <1>1, <1>2, <1>3, <1>5
<1>7. /\ parked' \in [Ctx -> Seq(EntryOf)] /\ parked'[Main] = <<>>
      /\ \A y \in Ctx : y # Main => parked'[y] = parked[y]
  <2>1. <<>> \in Seq(EntryOf)
    OBVIOUS
  <2> QED  BY <2>1, <1>1, <1>2, <1>3
<1>8. Counted(exec', calls')
  <2>1. Gains(exec, exec', f.closure)
    BY <1>1, <1>3, <1>4, HoldingIs
  <2>2. calls'[Main] = Append(calls[Main], f)
    BY <1>2, <1>6
  <2>3. Grown(calls, calls', Main, f)
    BY <2>2, <1>6 DEF Grown
  <2> QED  BY <2>1, <2>3, <1>2, <1>3, <1>4, <1>6, CountedPush
<1>9. exec' = [e \in Closure |-> exec'[e]]
  BY <1>1, <1>3, HoldingIs DEF Gains
<1>10. saved[Main] = NoClosure
  <2>1. StackSound(Main, calls[Main], parked[Main], <<>>, saved[Main])
    BY <1>1, <1>2, NowStacks
  <2> QED  BY <2>1, <1>2 DEF StackSound, TopOf
<1>11. \A y \in Ctx : Len(calls'[y]) <= MaxFrames[y]
  <2>1. \A y \in Ctx : Len(calls[y]) <= MaxFrames[y] /\ 1 <= MaxFrames[y]
    BY <1>3, Now
  <2> QED  BY <2>1, <1>5, <1>6
<1>12. Stacks'
  <2> SUFFICES ASSUME NEW y \in Ctx
               PROVE  StackSound(y, calls'[y], parked'[y], Aside(y)', Known(y)')
    BY DEF Stacks
  <2>1. CASE y = Main
    <3>1. Aside(y)' = <<>> /\ Known(y)' = f.closure
      BY <2>1, <1>1, <1>2, <1>4 DEF Aside, Known
    <3> QED  BY <3>1, <2>1, <1>4, <1>6, <1>7, Begun
  <2>2. CASE y # Main
    <3>1. Aside(y)' = <<>> /\ Known(y)' = saved[y]
      BY <2>2, <1>1, <1>2 DEF Aside, Known
    <3> QED  BY <3>1, <2>2, <1>2, <1>6, <1>7, NowStacks
  <2> QED  BY <2>1, <2>2
<1>13. SavedSound'
  BY <1>1, <1>2, <1>10 DEF SavedSound, SavedFrom
<1>14. LineKnown'
  <2>1. \A y \in Line' : y = Main
    BY <1>1, <1>2 DEF Line, ToSet
  <2>2. \A y \in Line' : calls'[y] # <<>>
    BY <2>1, <1>5, <1>6
  <2>3. \A y \in Co : y \in Ctx /\ y # Main
    BY NowLine
  <2> QED  BY <2>2, <2>3, <1>1, <1>6 DEF Sound, LineKnown
<1>15. /\ held' \in SUBSET Closure /\ cap' \in [Closure -> Value \cup {Null}]
       /\ saved' \in [Ctx -> Callee] /\ active' \in Callee /\ fn' \in [Co -> Callee]
       /\ state' \in [Co -> {"none", "suspended", "running", "normal", "dead"}]
       /\ natives' \in Seq(NativeOf) /\ mode' \in {"idle", "failed", "in", "kept"}
  BY <1>1, Now
<1>16. astray' \in BOOLEAN
  BY <1>1 DEF Sound, TypeOK
<1> QED  BY <1>6, <1>7, <1>8, <1>9, <1>11, <1>12, <1>13, <1>14, <1>15, <1>16, Whole

LEMMA YieldMainStep ==
  ASSUME Sound, NEW gc \in BOOLEAN, YieldMain(gc), ~ astray, ~ astray'
  PROVE  Sound'
<1>1. /\ mode = "in" /\ natives = <<>> /\ callers = <<>> /\ saved' = [saved EXCEPT ![Main] = active]
      /\ active' = NoClosure /\ mode' = "kept"
      /\ calls' = IF gc THEN [calls EXCEPT ![Main][Depth].slot = Null] ELSE calls
      /\ UNCHANGED <<held, cap, exec, parked, fn, state, cur, callers, natives>>
  BY DEF YieldMain, Running, lambdaVars, coVars
<1>2. cur = Main /\ Main \in Ctx
  <2>1. WaitChain(Ctx, Main, cur, callers)
    BY NowLine
  <2> QED  BY <2>1, <1>1 DEF WaitChain, Ctx
<1>3. active = NoClosure \/ active \notin Named(parked[Main])
  BY DEF YieldMain
<1>4. StackSound(Main, calls[Main], parked[Main], <<>>, active) /\ calls[Main] # <<>>
  BY <1>1, <1>2, NowStacks
<1>5. /\ calls' \in [Ctx -> Seq(FrameOf)] /\ Len(calls'[Main]) = Len(calls[Main])
      /\ StackSound(Main, calls'[Main], parked[Main], <<>>, active) /\ calls'[Main] # <<>>
      /\ \A y \in Ctx : y # Main => calls'[y] = calls[y]
      /\ Counted(exec, calls')
  <2>1. CASE gc
    <3>1. calls' = [calls EXCEPT ![cur] = [calls[cur] EXCEPT ![Depth].slot = Null]] /\ Null \in Value \cup {Null}
      BY <2>1, <1>1, <1>2, Now
    <3> QED  BY <3>1, <1>1, <1>2, SlotWritten
  <2>2. CASE ~ gc
    BY <2>2, <1>1, <1>4, Now
  <2> QED  BY <2>1, <2>2
<1>6. /\ saved' \in [Ctx -> Callee] /\ saved'[Main] = active
      /\ \A y \in Ctx : y # Main => saved'[y] = saved[y]
  BY <1>1, <1>2, Now
<1>7. Stacks'
  <2> SUFFICES ASSUME NEW y \in Ctx
               PROVE  StackSound(y, calls'[y], parked'[y], Aside(y)', Known(y)')
    BY DEF Stacks
  <2>1. Aside(y)' = <<>> /\ Known(y)' = saved'[y]
    BY <1>1, <1>2 DEF Aside, Known
  <2>2. CASE y = Main
    BY <2>1, <2>2, <1>1, <1>5, <1>6
  <2>3. CASE y # Main
    BY <2>1, <2>3, <1>1, <1>2, <1>5, <1>6, NowStacks
  <2> QED  BY <2>2, <2>3
<1>8. SavedSound'
  <2>1. \A i \in DOMAIN parked[Main] : parked[Main][i].closure # active
    <3>1. \A i \in DOMAIN parked[Main] : parked[Main][i].closure # NoClosure
      BY <1>4, StackFacts
    <3> QED  BY <3>1, <1>3 DEF Named
  <2> QED  BY <2>1, <1>1, <1>2, <1>6 DEF SavedSound
<1>9. LineKnown'
  <2>1. \A y \in Co : y \in Ctx /\ y # Main
    BY NowLine
  <2> QED  BY <2>1, <1>1, <1>5 DEF Sound, LineKnown
<1>10. \A y \in Ctx : Len(calls'[y]) <= MaxFrames[y]
  BY <1>2, <1>5, Now
<1>11. /\ held' \in SUBSET Closure /\ cap' \in [Closure -> Value \cup {Null}]
       /\ parked' \in [Ctx -> Seq(EntryOf)] /\ active' \in Callee /\ fn' \in [Co -> Callee]
       /\ state' \in [Co -> {"none", "suspended", "running", "normal", "dead"}]
       /\ natives' \in Seq(NativeOf) /\ mode' \in {"idle", "failed", "in", "kept"}
       /\ exec' = [e \in Closure |-> exec'[e]] /\ Counted(exec', calls')
  BY <1>1, <1>5, Now DEF Callee
<1>12. astray' \in BOOLEAN
  BY DEF YieldMain
<1> QED  BY <1>5, <1>6, <1>7, <1>8, <1>9, <1>10, <1>11, <1>12, Whole

\* The contexts of an execution are given up, with nothing of them left.
LEMMA GivenUpStep ==
  ASSUME Sound, GivenUp, mode' \in {"idle", "failed"}, UNCHANGED astray,
         cap' \in [Closure -> Value \cup {Null}],
         exec' = [c \in Closure |-> exec'[c]], Counted(exec', calls')
  PROVE  Sound'
<1>1. /\ calls' = [x \in Ctx |-> IF x \in Line THEN <<>> ELSE calls[x]]
      /\ parked' = [x \in Ctx |-> IF x \in Line THEN <<>> ELSE parked[x]]
      /\ saved' = [x \in Ctx |-> IF x \in Line THEN NoClosure ELSE saved[x]]
      /\ state' = [x \in Co |-> IF x \in Line THEN "dead" ELSE state[x]]
      /\ active' = NoClosure /\ cur' = Main /\ callers' = <<>> /\ natives' = <<>>
      /\ UNCHANGED <<held, fn>>
  BY DEF GivenUp
<1>2. /\ calls \in [Ctx -> Seq(FrameOf)] /\ parked \in [Ctx -> Seq(EntryOf)] /\ saved \in [Ctx -> Callee]
      /\ MaxFrames \in [Ctx -> Nat \ {0}] /\ Main \in Line /\ Main \in Ctx /\ cur \in Line
      /\ \A x \in Ctx : Len(calls[x]) <= MaxFrames[x]
  BY Now, NowLine, Constants DEF Ctx, Line
<1>3. <<>> \in Seq(FrameOf) /\ <<>> \in Seq(EntryOf) /\ Len(<<>>) = 0 /\ NoClosure \in Callee
  BY DEF Callee
<1>4. /\ calls' \in [Ctx -> Seq(FrameOf)] /\ parked' \in [Ctx -> Seq(EntryOf)] /\ saved' \in [Ctx -> Callee]
  BY <1>1, <1>2, <1>3
<1>5. \A x \in Ctx : Len(calls'[x]) <= MaxFrames[x]
  BY <1>1, <1>2, <1>3
<1>6. Stacks'
  <2> SUFFICES ASSUME NEW x \in Ctx
               PROVE  StackSound(x, calls'[x], parked'[x], Aside(x)', Known(x)')
    BY DEF Stacks
  <2>1. Aside(x)' = <<>> /\ Known(x)' = saved'[x]
    BY <1>1 DEF Aside, Known
  <2>2. CASE x \in Line
    BY <2>1, <2>2, <1>1, Emptied
  <2>3. CASE x \notin Line
    BY <2>1, <2>3, <1>1, <1>2, NowStacks
  <2> QED  BY <2>2, <2>3
<1>7. SavedSound'
  BY DEF SavedSound
<1>8. LineKnown'
  <2>1. ToSet(callers') = {}
    BY <1>1 DEF ToSet
  <2>2. WaitChain(Ctx, Main, cur, callers)'
    <3>1. <<>> \in Seq(Ctx) /\ Distinct(<<>>)
      BY DEF Distinct
    <3> QED  BY <3>1, <2>1, <1>1, <1>2 DEF WaitChain
  <2>3. \A x \in Co : /\ state'[x] = "running" <=> x = Main
                      /\ state'[x] = "normal" <=> x \in ToSet(callers')
                      /\ state'[x] \in {"none", "dead"} => calls'[x] = <<>>
    <3> SUFFICES ASSUME NEW x \in Co
                 PROVE  /\ state'[x] = "running" <=> x = Main
                        /\ state'[x] = "normal" <=> x \in ToSet(callers')
                        /\ state'[x] \in {"none", "dead"} => calls'[x] = <<>>
      OBVIOUS
    <3>1. x \in Ctx /\ x # Main
      BY NowLine
    <3>2. CASE x \in Line
      BY <3>1, <3>2, <2>1, <1>1
    <3>3. CASE x \notin Line
      <4>1. x # cur /\ x \notin ToSet(callers)
        BY <3>3 DEF Line
      <4> QED  BY <4>1, <3>1, <3>3, <2>1, <1>1, NowLine
    <3> QED  BY <3>2, <3>3
  <2>4. calls'[Main] = <<>>
    BY <1>1, <1>2
  <2> QED  BY <2>2, <2>3, <2>4, <1>1 DEF LineKnown
<1>9. /\ held' \in SUBSET Closure /\ active' \in Callee /\ fn' \in [Co -> Callee]
      /\ state' \in [Co -> {"none", "suspended", "running", "normal", "dead"}]
      /\ natives' \in Seq(NativeOf) /\ mode' \in {"idle", "failed", "in", "kept"}
  BY <1>1, <1>3, Now
<1>10. astray' \in BOOLEAN
  BY DEF Sound, TypeOK
<1> QED  BY <1>4, <1>5, <1>6, <1>7, <1>8, <1>9, <1>10, Whole

\* The contexts of the line, in the order of ReleaseExecution.
LineAt == [i \in 1 .. Len(callers) + 1 |-> IF i = 1 THEN cur ELSE callers[i - 1]]

LEMMA LineAtIs ==
  ASSUME Sound
  PROVE  /\ DOMAIN LineAt = 1 .. Len(callers) + 1 /\ 1 \in DOMAIN LineAt /\ LineAt[1] = cur
         /\ \A i \in DOMAIN LineAt : i # 1 => /\ i - 1 \in DOMAIN callers /\ LineAt[i] = callers[i - 1]
                                              /\ LineAt[i] # cur
         /\ \A i \in DOMAIN LineAt : LineAt[i] \in Ctx
         /\ \A i, j \in DOMAIN LineAt : LineAt[i] = LineAt[j] => i = j
         /\ {LineAt[i] : i \in DOMAIN LineAt} = Line
<1>1. /\ callers \in Seq(Ctx) /\ Distinct(callers) /\ cur \notin ToSet(callers) /\ cur \in Ctx
      /\ DOMAIN callers = 1 .. Len(callers) /\ Len(callers) \in Nat
  BY NowLine, Now, LenProperties DEF WaitChain
<1>2. DOMAIN LineAt = 1 .. Len(callers) + 1 /\ 1 \in DOMAIN LineAt /\ LineAt[1] = cur
  BY <1>1 DEF LineAt
<1>3. \A i \in DOMAIN LineAt : i # 1 => /\ i - 1 \in DOMAIN callers /\ LineAt[i] = callers[i - 1]
                                        /\ LineAt[i] # cur /\ i = (i - 1) + 1
  BY <1>1 DEF LineAt, ToSet
<1>4. \A i \in DOMAIN callers : i + 1 \in DOMAIN LineAt /\ LineAt[i + 1] = callers[i]
  BY <1>1 DEF LineAt
<1>5. \A i \in DOMAIN callers : callers[i] \in Ctx
  BY <1>1, ElementOfSeq
<1>6. ASSUME NEW i \in DOMAIN LineAt, NEW j \in DOMAIN LineAt, LineAt[i] = LineAt[j]
      PROVE  i = j
  <2>1. CASE i = 1 \/ j = 1
    BY <2>1, <1>2, <1>3, <1>6
  <2>2. CASE i # 1 /\ j # 1
    <3>1. i - 1 = j - 1
      BY <2>2, <1>1, <1>3, <1>6 DEF Distinct
    <3> QED  BY <3>1, <2>2, <1>3
  <2> QED  BY <2>1, <2>2
<1>7. \A x : x \in Line <=> \E i \in DOMAIN LineAt : LineAt[i] = x
  <2>1. ASSUME NEW x \in Line
        PROVE  \E i \in DOMAIN LineAt : LineAt[i] = x
    BY <1>2, <1>4 DEF Line, ToSet
  <2>2. \A i \in DOMAIN LineAt : LineAt[i] \in Line
    BY <1>2, <1>3 DEF Line, ToSet
  <2> QED  BY <2>1, <2>2
<1> HIDE DEF LineAt
<1> QED  BY <1>1, <1>2, <1>3, <1>5, <1>6, <1>7

\* What each context of the line settles names frames of its stack.
LineNamed(S) ==
  /\ DOMAIN S = DOMAIN LineAt
  /\ \A i \in DOMAIN S : Names(S[i], LineAt[i], calls[LineAt[i]])

LEMMA SettledIs ==
  ASSUME Sound, NEW E
  PROVE  /\ DOMAIN Settled(E) = DOMAIN LineAt /\ Settled(E)[1] = E
         /\ Settled(E) \in Seq({Settled(E)[i] : i \in DOMAIN Settled(E)})
         /\ \A i \in DOMAIN Settled(E) : i # 1 => Covers(Settled(E)[i], LineAt[i], calls[LineAt[i]])
<1> DEFINE S == Settled(E)
<1>1. /\ DOMAIN LineAt = 1 .. Len(callers) + 1 /\ 1 \in DOMAIN LineAt
      /\ \A i \in DOMAIN LineAt : /\ LineAt[i] \in Ctx
                                  /\ i # 1 => LineAt[i] = callers[i - 1] /\ LineAt[i] # cur
  BY LineAtIs
<1>2. DOMAIN S = DOMAIN LineAt /\ S[1] = E
  BY <1>1 DEF Settled
<1>3. \A i \in DOMAIN S : i # 1 => S[i] = Kept(LineAt[i])
  BY <1>1 DEF Settled
<1>4. ASSUME NEW i \in DOMAIN S, i # 1
      PROVE  Covers(S[i], LineAt[i], calls[LineAt[i]])
  <2> DEFINE x == LineAt[i]
  <2>1. x \in Ctx /\ x # cur /\ S[i] = Kept(x)
    BY <1>1, <1>2, <1>3, <1>4
  <2> HIDE DEF x, S
  <2>2. StackSound(x, calls[x], parked[x], <<>>, saved[x])
    BY <2>1, NowStacks
  <2>3. Covers(Kept(x), x, calls[x])
    BY <2>2, CoversQuiet DEF Kept
  <2> QED  BY <2>1, <2>3 DEF x
<1>5. S \in Seq({S[i] : i \in DOMAIN S})
  <2>1. S = [i \in 1 .. Len(callers) + 1 |-> S[i]] /\ Len(callers) + 1 \in Nat
    BY Now, LenProperties DEF Settled
  <2> HIDE DEF S
  <2>2. DOMAIN S = 1 .. Len(callers) + 1
    BY <1>1, <1>2
  <2>3. \A i \in 1 .. Len(callers) + 1 : S[i] \in {S[j] : j \in DOMAIN S}
    BY <2>2
  <2> QED  BY <2>1, <2>3
<1> QED  BY <1>2, <1>4, <1>5

\* What the line settles leaves exact counts.
LEMMA LineCounted ==
  ASSUME Sound, NEW E, Covers(E, cur, calls[cur]), exec' = ReleasedLine(Settled(E)), GivenUp
  PROVE  exec' = [c \in Closure |-> exec'[c]] /\ Counted(exec', calls')
<1> DEFINE S == Settled(E)
<1>1. /\ DOMAIN S = DOMAIN LineAt
      /\ \A i \in DOMAIN S : Covers(S[i], LineAt[i], calls[LineAt[i]])
  <2>1. DOMAIN S = DOMAIN LineAt /\ S[1] = E
        /\ \A i \in DOMAIN S : i # 1 => Covers(S[i], LineAt[i], calls[LineAt[i]])
    BY SettledIs
  <2>2. LineAt[1] = cur
    BY LineAtIs
  <2> QED  BY <2>1, <2>2
<1> HIDE DEF S
<1>2. /\ LineAt \in [DOMAIN S -> Ctx] /\ \A i, j \in DOMAIN S : LineAt[i] = LineAt[j] => i = j
  <2>1. LineAt = [i \in DOMAIN LineAt |-> LineAt[i]]
    BY DEF LineAt
  <2>2. /\ \A i \in DOMAIN LineAt : LineAt[i] \in Ctx
        /\ \A i, j \in DOMAIN LineAt : LineAt[i] = LineAt[j] => i = j
    BY LineAtIs
  <2> QED  BY <2>1, <2>2, <1>1
<1>3. Places(LineAt, S) = Line
  BY <1>1, LineAtIs DEF Places
<1>4. calls \in [Ctx -> Seq(FrameOf)] /\ Counted(exec, calls) /\ Line \subseteq Ctx
  BY Now
<1>5. calls' \in [Ctx -> Seq(FrameOf)]
  <2>1. <<>> \in Seq(FrameOf)
    OBVIOUS
  <2> QED  BY <2>1, <1>4 DEF GivenUp
<1>6. EndedIn(calls, calls', Line)
  BY DEF EndedIn, GivenUp
<1>7. exec' = [c \in Closure |-> exec'[c]]
  BY DEF ReleasedLine
<1>8. ASSUME NEW c \in Closure
      PROVE  exec'[c] = Cardinality(FramesIn(calls', Ctx, c))
  <2>1. exec'[c] = exec[c] - Cardinality(Given(S, c))
    BY DEF ReleasedLine, Given, S
  <2>2. Cardinality(Given(S, c)) = Cardinality(FramesIn(calls, Places(LineAt, S), c))
    BY <1>1, <1>2, <1>4, CountLine
  <2>3. LessCounted(calls, calls', Line, c)
    BY <1>4, <1>5, <1>6, CountApart
  <2>4. exec[c] = Cardinality(FramesIn(calls, Ctx, c))
    BY <1>4 DEF Counted
  <2> QED  BY <2>1, <2>2, <2>3, <2>4, <1>3 DEF LessCounted
<1> QED  BY <1>7, <1>8 DEF Counted

\* What the line writes back was in slots.
LEMMA LineSynced ==
  ASSUME Sound, NEW E, Names(E, cur, calls[cur]), NEW n \in 0 .. Len(Settled(E))
  PROVE  SyncedLine(Settled(E), n) \in [Closure -> Value \cup {Null}]
<1> DEFINE S == Settled(E)
<1>1. /\ DOMAIN S = DOMAIN LineAt /\ S[1] = E /\ S \in Seq({S[i] : i \in DOMAIN S})
      /\ \A i \in DOMAIN S : i # 1 => Names(S[i], LineAt[i], calls[LineAt[i]])
  BY SettledIs DEF Covers
<1>2. /\ \A i \in DOMAIN LineAt : LineAt[i] \in Ctx
      /\ LineAt[1] = cur
  BY LineAtIs
<1> HIDE DEF S
<1>3. Len(S) \in Nat /\ DOMAIN S = 1 .. Len(S) /\ n \in Nat /\ n <= Len(S)
  BY <1>1, LenProperties DEF S
<1>4. \A i \in DOMAIN S : LineAt[i] \in Ctx /\ Names(S[i], LineAt[i], calls[LineAt[i]])
  BY <1>1, <1>2
<1>5. cap \in [Closure -> Value \cup {Null}] /\ calls \in [Ctx -> Seq(FrameOf)]
  BY Now
<1> SUFFICES ASSUME NEW c \in Closure
             PROVE  LET K == {i \in 1 .. n : c \in Named(S[i])} IN
                      (IF K = {} THEN cap[c] ELSE Synced(cap, calls, S[Max(K)])[c]) \in Value \cup {Null}
  BY DEF SyncedLine, S
<1> DEFINE K == {i \in 1 .. n : c \in Named(S[i])}
<1>6. CASE K = {}
  BY <1>5, <1>6
<1>7. CASE K # {}
  <2>1. Max(K) \in 1 .. n
    BY <1>3, <1>7, MaxFacts
  <2> DEFINE m == Max(K)
  <2>2. m \in DOMAIN S
    BY <2>1, <1>3
  <2> HIDE DEF m
  <2>3. Synced(cap, calls, S[m]) \in [Closure -> Value \cup {Null}]
    BY <2>2, <1>4, <1>5, SyncedTyped
  <2> QED  BY <2>3, <1>7 DEF m
<1> QED  BY <1>6, <1>7

\* The lambdas that a list of entries names, where the topmost and the parked
\* ones come first.
LEMMA NamedFirst ==
  ASSUME NEW x, NEW cs, NEW ps, NEW ns, NEW top, StackSound(x, cs, ps, ns, top)
  PROVE  LET U == Entry(top, x, Len(cs)) \o Reverse(ps) IN
           /\ U \in Seq(SettledOf)
           /\ top # NoClosure => top \in Named(U)
           /\ \A i \in DOMAIN ps : ps[i].closure \in Named(U)
<1> DEFINE T == Entry(top, x, Len(cs))
           R == Reverse(ps)
<1>1. T \in Seq(SettledOf) /\ R \in Seq(SettledOf)
  BY NamesTop, NamesParked DEF Names
<1>2. top # NoClosure => Len(T) = 1 /\ T[1].closure = top
  BY DEF Entry
<1>3. /\ Len(ps) \in Nat /\ DOMAIN ps = 1 .. Len(ps) /\ R = [i \in 1 .. Len(ps) |-> ps[Len(ps) - i + 1]]
  BY StackFacts DEF Reverse
<1>4. \A i \in DOMAIN ps : \E j \in DOMAIN R : R[j].closure = ps[i].closure
  <2> SUFFICES ASSUME NEW i \in DOMAIN ps
               PROVE  \E j \in DOMAIN R : R[j].closure = ps[i].closure
    OBVIOUS
  <2>1. Len(ps) - i + 1 \in 1 .. Len(ps) /\ Len(ps) - (Len(ps) - i + 1) + 1 = i
    BY <1>3
  <2>2. R[Len(ps) - i + 1] = ps[i] /\ DOMAIN R = 1 .. Len(ps)
    BY <2>1, <1>3
  <2> QED  BY <2>1, <2>2
<1> HIDE DEF T, R
<1>5. /\ T \o R \in Seq(SettledOf) /\ Len(T \o R) = Len(T) + Len(R)
      /\ \A i \in 1 .. Len(T) + Len(R) : (T \o R)[i] = IF i <= Len(T) THEN T[i] ELSE R[i - Len(T)]
  BY <1>1, ConcatProperties
<1>6. /\ Len(T) \in Nat /\ Len(R) \in Nat /\ DOMAIN R = 1 .. Len(R)
      /\ DOMAIN (T \o R) = 1 .. Len(T) + Len(R)
  BY <1>1, <1>5, LenProperties
<1>7. ASSUME top # NoClosure
      PROVE  top \in Named(T \o R)
  <2>1. 1 \in DOMAIN (T \o R) /\ (T \o R)[1] = T[1]
    <3>1. Len(T) = 1 /\ Len(R) \in Nat
      BY <1>2, <1>6, <1>7
    <3>2. 1 \in 1 .. Len(T) + Len(R) /\ 1 <= Len(T)
      BY <3>1
    <3> QED  BY <3>2, <1>5, <1>6
  <2> QED  BY <2>1, <1>2, <1>7 DEF Named
<1>8. ASSUME NEW i \in DOMAIN ps
      PROVE  ps[i].closure \in Named(T \o R)
  <2>1. PICK j \in DOMAIN R : R[j].closure = ps[i].closure
    BY <1>4
  <2>2. Len(T) + j \in DOMAIN (T \o R) /\ (T \o R)[Len(T) + j] = R[j]
    BY <1>5, <1>6
  <2> QED  BY <2>1, <2>2 DEF Named
<1> QED  BY <1>5, <1>7, <1>8 DEF T, R

LEMMA NamedMore ==
  ASSUME NEW E \in Seq(SettledOf), NEW D \in Seq(SettledOf)
  PROVE  /\ E \o D \in Seq(SettledOf)
         /\ \A k : k \in Named(E) => k \in Named(E \o D)
         /\ \A i \in DOMAIN D : D[i].closure \in Named(E \o D)
<1>1. /\ E \o D \in Seq(SettledOf) /\ Len(E \o D) = Len(E) + Len(D)
      /\ \A i \in 1 .. Len(E) + Len(D) : (E \o D)[i] = IF i <= Len(E) THEN E[i] ELSE D[i - Len(E)]
  BY ConcatProperties
<1>2. /\ Len(E) \in Nat /\ Len(D) \in Nat /\ DOMAIN E = 1 .. Len(E) /\ DOMAIN D = 1 .. Len(D)
      /\ DOMAIN (E \o D) = 1 .. Len(E) + Len(D)
  BY <1>1, LenProperties
<1>3. \A i \in DOMAIN E : i \in DOMAIN (E \o D) /\ (E \o D)[i] = E[i]
  BY <1>1, <1>2
<1>4. \A i \in DOMAIN D : Len(E) + i \in DOMAIN (E \o D) /\ (E \o D)[Len(E) + i] = D[i]
  BY <1>1, <1>2
<1> DEFINE F == E \o D
<1>5. /\ \A i \in DOMAIN E : i \in DOMAIN F /\ F[i] = E[i]
      /\ \A i \in DOMAIN D : Len(E) + i \in DOMAIN F /\ F[Len(E) + i] = D[i]
  BY <1>3, <1>4
<1> HIDE DEF F
<1>6. (\A k : k \in Named(E) => k \in Named(F)) /\ \A i \in DOMAIN D : D[i].closure \in Named(F)
  BY <1>5 DEF Named
<1> QED  BY <1>1, <1>6 DEF F

\* Of one lambda's frames a list names the lowest last.
Falls(E) ==
  \A i, j \in DOMAIN E :
    i < j /\ E[i].closure = E[j].closure /\ E[i].closure # NoClosure => E[j].frame < E[i].frame

LEMMA FallsJoined ==
  ASSUME NEW E \in Seq(SettledOf), NEW D \in Seq(SettledOf), Falls(E), Falls(D),
         \A i \in DOMAIN E, j \in DOMAIN D :
           E[i].closure = D[j].closure /\ E[i].closure # NoClosure => D[j].frame < E[i].frame
  PROVE  Falls(E \o D)
<1> DEFINE F == E \o D
           m == Len(E)
           n == Len(D)
<1>1. /\ m \in Nat /\ n \in Nat /\ DOMAIN F = 1 .. m + n
      /\ DOMAIN E = 1 .. m /\ DOMAIN D = 1 .. n
      /\ \A i \in 1 .. m + n : F[i] = IF i <= m THEN E[i] ELSE D[i - m]
  BY ConcatProperties, LenProperties
<1> HIDE DEF F, m, n
<1> SUFFICES ASSUME NEW i \in DOMAIN F, NEW j \in DOMAIN F, i < j,
                    F[i].closure = F[j].closure, F[i].closure # NoClosure
             PROVE  F[j].frame < F[i].frame
  BY DEF Falls, F
<1>2. i \in 1 .. m + n /\ j \in 1 .. m + n
  BY <1>1
<1>3. CASE j <= m
  <2>1. i \in DOMAIN E /\ j \in DOMAIN E /\ F[i] = E[i] /\ F[j] = E[j]
    BY <1>1, <1>2, <1>3
  <2> QED  BY <2>1 DEF Falls
<1>4. CASE i > m
  <2>1. i - m \in DOMAIN D /\ j - m \in DOMAIN D /\ i - m < j - m /\ F[i] = D[i - m] /\ F[j] = D[j - m]
    BY <1>1, <1>2, <1>4
  <2> QED  BY <2>1 DEF Falls
<1>5. CASE i <= m /\ j > m
  <2>1. i \in DOMAIN E /\ j - m \in DOMAIN D /\ F[i] = E[i] /\ F[j] = D[j - m]
    BY <1>1, <1>2, <1>5
  <2> QED  BY <2>1
<1> QED  BY <1>1, <1>2, <1>3, <1>4, <1>5

LEMMA FallsEntry ==
  ASSUME NEW c, NEW x, NEW n
  PROVE  Falls(Entry(c, x, n))
<1>1. CASE c = NoClosure
  BY <1>1 DEF Falls, Entry
<1>2. CASE c # NoClosure
  <2> DEFINE e == [closure |-> c, ctx |-> x, frame |-> n]
  <2>1. Entry(c, x, n) = <<e>>
    BY <1>2 DEF Entry
  <2> HIDE DEF e
  <2>2. DOMAIN <<e>> = {1}
    OBVIOUS
  <2> QED  BY <2>1, <2>2 DEF Falls
<1> QED  BY <1>1, <1>2

\* What is parked, the last first, goes down the stack.
LEMMA FallsParked ==
  ASSUME NEW x, NEW cs, NEW ps, NEW ns, NEW top, StackSound(x, cs, ps, ns, top)
  PROVE  /\ Falls(Reverse(ps))
         /\ \A i \in DOMAIN Reverse(ps) :
              /\ Reverse(ps)[i].frame < Len(cs)
              /\ \E j \in DOMAIN ps : Reverse(ps)[i].closure = ps[j].closure
<1> DEFINE at(i) == (Len(ps) - i) + 1
<1>1. /\ Len(ps) \in Nat /\ DOMAIN ps = 1 .. Len(ps) /\ Len(cs) \in Nat
      /\ \A i \in DOMAIN ps : ps[i].frame \in 1 .. Len(cs) - 1
  BY StackFacts
<1>2. /\ \A i \in 1 .. Len(ps) : at(i) \in 1 .. Len(ps)
      /\ \A i, j \in 1 .. Len(ps) : i < j => at(j) < at(i)
  BY <1>1
<1>3. Reverse(ps) = [i \in 1 .. Len(ps) |-> ps[at(i)]]
  BY DEF Reverse
<1> HIDE DEF at
<1>4. DOMAIN Reverse(ps) = 1 .. Len(ps) /\ \A i \in 1 .. Len(ps) : Reverse(ps)[i] = ps[at(i)]
  BY <1>3
<1>5. \A i, j \in DOMAIN ps : i < j => ps[i].frame < ps[j].frame
  BY DEF StackSound, ParkedOn
<1>6. Falls(Reverse(ps))
  BY <1>1, <1>2, <1>4, <1>5 DEF Falls
<1>7. \A i \in DOMAIN ps : ps[i].frame < Len(cs)
  BY <1>1
<1> QED  BY <1>1, <1>2, <1>4, <1>6, <1>7

LEMMA FallsTop ==
  ASSUME NEW x, NEW cs, NEW ps, NEW ns, NEW top, StackSound(x, cs, ps, ns, top)
  PROVE  Falls(Entry(top, x, Len(cs)) \o Reverse(ps))
<1> DEFINE T == Entry(top, x, Len(cs))
           P == Reverse(ps)
<1>1. T \in Seq(SettledOf) /\ P \in Seq(SettledOf)
  BY NamesTop, NamesParked DEF Names
<1>2. Falls(T) /\ Falls(P) /\ \A i \in DOMAIN P : P[i].frame < Len(cs)
  BY FallsEntry, FallsParked
<1>3. \A i \in DOMAIN T : T[i].frame = Len(cs)
  BY DEF Entry
<1> HIDE DEF T, P
<1>4. \A i \in DOMAIN T, j \in DOMAIN P : P[j].frame < T[i].frame
  BY <1>2, <1>3
<1> QED  BY <1>1, <1>2, <1>4, FallsJoined DEF T, P

\* ... also with the topmost frame settled last, when nothing parked is its lambda's.
LEMMA FallsKept ==
  ASSUME NEW x, NEW cs, NEW ps, NEW ns, NEW top, StackSound(x, cs, ps, ns, top),
         \A i \in DOMAIN ps : ps[i].closure # top
  PROVE  Falls(Reverse(ps) \o Entry(top, x, Len(cs)))
<1> DEFINE T == Entry(top, x, Len(cs))
           P == Reverse(ps)
<1>1. T \in Seq(SettledOf) /\ P \in Seq(SettledOf)
  BY NamesTop, NamesParked DEF Names
<1>2. Falls(T) /\ Falls(P) /\ \A i \in DOMAIN P : \E j \in DOMAIN ps : P[i].closure = ps[j].closure
  BY FallsEntry, FallsParked
<1>3. \A i \in DOMAIN T : T[i].closure = top
  BY DEF Entry
<1> HIDE DEF T, P
<1>4. \A i \in DOMAIN P, j \in DOMAIN T : P[i].closure # T[j].closure
  BY <1>2, <1>3
<1> QED  BY <1>1, <1>2, <1>4, FallsJoined DEF T, P

\* Where no native frame has called back, an execution that is released settles
\* every frame of its current context, and a lambda's lowest one last.
LEMMA UnwoundAll ==
  ASSUME Sound, mode \in {"in", "kept"}, natives = <<>>
  PROVE  /\ Covers(Unwound \o Left(Unwound), cur, calls[cur])
         /\ Falls(Unwound \o Left(Unwound))
<1> DEFINE U == Unwound
           E == U \o Left(U)
<1>1. CASE mode = "in"
  <2>1. StackSound(cur, calls[cur], parked[cur], <<>>, active)
    BY <1>1, NowStacks
  <2>2. U = Entry(active, cur, Len(calls[cur])) \o Reverse(parked[cur])
    BY DEF Unwound, Depth
  <2>3. Covers(U, cur, calls[cur]) /\ Falls(U)
    BY <2>1, <2>2, CoversQuiet, FallsTop
  <2>4. U \in Seq(SettledOf) /\ (active # NoClosure => active \in Named(U))
        /\ \A i \in DOMAIN parked[cur] : parked[cur][i].closure \in Named(U)
    BY <2>1, <2>2, NamedFirst
  <2>5. SavedFrom(saved[cur], active, parked[cur], natives)
    BY <1>1 DEF Sound, SavedSound
  <2>6. saved[cur] = NoClosure \/ saved[cur] \in Named(U)
    BY <2>4, <2>5 DEF SavedFrom
  <2> HIDE DEF U
  <2>7. Left(U) = <<>>
    BY <2>6 DEF Left, Entry
  <2>8. E = U
    BY <2>4, <2>7, ConcatEmptySeq
  <2> QED  BY <2>3, <2>8 DEF U
<1>2. CASE mode = "kept"
  <2>1. StackSound(cur, calls[cur], parked[cur], <<>>, saved[cur]) /\ active = NoClosure
    BY <1>2, NowStacks, NowLine
  <2>2. U = Reverse(parked[cur])
    <3>1. Reverse(parked[cur]) \in Seq(SettledOf) /\ U = <<>> \o Reverse(parked[cur])
      BY <2>1, NamesParked DEF Names, Unwound, Entry
    <3> HIDE DEF U
    <3> QED  BY <3>1, ConcatEmptySeq
  <2>3. \A i \in DOMAIN parked[cur] : parked[cur][i].closure # saved[cur]
    BY <1>2 DEF Sound, SavedSound
  <2>4. saved[cur] \notin Named(U)
    <3>1. Len(parked[cur]) \in Nat /\ DOMAIN parked[cur] = 1 .. Len(parked[cur])
      BY <2>1, StackFacts
    <3>2. \A i \in 1 .. Len(parked[cur]) : Len(parked[cur]) - i + 1 \in 1 .. Len(parked[cur])
      BY <3>1
    <3> QED  BY <2>2, <2>3, <3>1, <3>2 DEF Named, Reverse
  <2>5. E = Reverse(parked[cur]) \o Entry(saved[cur], cur, Len(calls[cur]))
    BY <2>2, <2>4 DEF Left, Depth
  <2> HIDE DEF E
  <2>6. Covers(E, cur, calls[cur]) /\ Falls(E)
    BY <2>1, <2>3, <2>5, CoversQuiet, FallsKept
  <2> QED  BY <2>6 DEF E
<1> QED  BY <1>1, <1>2

\* A line that is released with write-back settles all of the context that runs.
LEMMA ReleaseStep ==
  ASSUME Sound, Release, mode \in {"in", "kept"}, natives = <<>>
  PROVE  Sound'
<1> DEFINE U == Unwound
           E == U \o Left(U)
           S == Settled(E)
<1>1. /\ cap' = SyncedLine(S, Len(S)) /\ exec' = ReleasedLine(S) /\ GivenUp
      /\ mode' = "idle" /\ UNCHANGED astray
  BY DEF Release
<1>2. Covers(E, cur, calls[cur])
  BY UnwoundAll
<1> HIDE DEF E
<1>3. cap' \in [Closure -> Value \cup {Null}]
  <2>1. Len(S) \in 0 .. Len(S)
    <3>1. S \in Seq({S[i] : i \in DOMAIN S})
      BY SettledIs
    <3>2. Len(S) \in Nat
      BY <3>1, LenProperties
    <3> QED  BY <3>2
  <2> QED  BY <2>1, <1>1, <1>2, LineSynced DEF Covers
<1>4. exec' = [c \in Closure |-> exec'[c]] /\ Counted(exec', calls')
  BY <1>1, <1>2, LineCounted
<1> QED  BY <1>1, <1>3, <1>4, GivenUpStep

LEMMA CompleteStep ==
  ASSUME Sound, Complete
  PROVE  Sound'
BY ReleaseStep DEF Complete, Running

LEMMA CancelStep ==
  ASSUME Sound, Cancel
  PROVE  Sound'
BY ReleaseStep DEF Cancel

\* An error settles what native frames interrupted as well.
LEMMA FailStep ==
  ASSUME Sound, NEW sync \in BOOLEAN, Fail(sync)
  PROVE  Sound'
<1> DEFINE L == Interrupted("lib")
           D == Interrupted("host")
           E == Unwound \o L
           A == E \o D
           S == Settled(E)
           n == IF sync THEN Len(S) ELSE 1
<1>1. /\ mode = "in" /\ cap' = SyncedLine(S, n) /\ exec' = ReleasedLine([S EXCEPT ![1] = E \o D \o Left(E \o D)])
      /\ GivenUp /\ mode' = "failed" /\ UNCHANGED astray
  BY DEF Fail, Running
<1>2. StackSound(cur, calls[cur], parked[cur], natives, active)
  BY <1>1, NowStacks
<1>3. /\ Unwound = Entry(active, cur, Len(calls[cur])) \o Reverse(parked[cur])
      /\ L = AsideOf("lib", cur, natives) /\ D = AsideOf("host", cur, natives)
  BY DEF Unwound, Depth, Interrupted, AsideOf
<1>4. Names(E, cur, calls[cur]) /\ Covers(A, cur, calls[cur])
  BY <1>2, <1>3, CoversAll
<1>5. /\ Unwound \in Seq(SettledOf) /\ (active # NoClosure => active \in Named(Unwound))
      /\ \A i \in DOMAIN parked[cur] : parked[cur][i].closure \in Named(Unwound)
  BY <1>2, <1>3, NamedFirst
<1>6. L \in Seq(SettledOf) /\ D \in Seq(SettledOf)
  BY <1>2, <1>3, NamesAside DEF Names
<1>7. \A i \in DOMAIN natives : natives[i].closure = NoClosure
        \/ (\E j \in DOMAIN L : L[j].closure = natives[i].closure)
        \/ (\E j \in DOMAIN D : D[j].closure = natives[i].closure)
  <2> SUFFICES ASSUME NEW i \in DOMAIN natives
               PROVE  \/ \E j \in DOMAIN L : L[j].closure = natives[i].closure
                      \/ \E j \in DOMAIN D : D[j].closure = natives[i].closure
    OBVIOUS
  <2>1. Len(natives) \in Nat /\ DOMAIN natives = 1 .. Len(natives) /\ natives[i] \in NativeOf
    BY <1>2, StackFacts
  <2>2. natives[i].kind \in {"lib", "host"}
    BY <2>1 DEF NativeOf
  <2> DEFINE j == Len(natives) - i + 1
  <2>3. j \in DOMAIN natives /\ Len(natives) - j + 1 = i
    BY <2>1
  <2>4. /\ natives[i].kind = "lib" => L[j].closure = natives[i].closure
        /\ natives[i].kind = "host" => D[j].closure = natives[i].closure
        /\ DOMAIN L = DOMAIN natives /\ DOMAIN D = DOMAIN natives
    BY <2>3 DEF Interrupted
  <2> QED  BY <2>2, <2>3, <2>4
<1>8. SavedFrom(saved[cur], active, parked[cur], natives)
  BY <1>1 DEF Sound, SavedSound
<1> HIDE DEF L, D
<1>9. /\ E \in Seq(SettledOf) /\ A \in Seq(SettledOf)
      /\ \A k : k \in Named(Unwound) => k \in Named(E)
      /\ \A k : k \in Named(E) => k \in Named(A)
      /\ \A i \in DOMAIN L : L[i].closure \in Named(E)
      /\ \A i \in DOMAIN D : D[i].closure \in Named(A)
  <2>1. /\ E \in Seq(SettledOf) /\ \A k : k \in Named(Unwound) => k \in Named(E)
        /\ \A i \in DOMAIN L : L[i].closure \in Named(E)
    BY <1>5, <1>6, NamedMore
  <2> HIDE DEF E
  <2>2. /\ A \in Seq(SettledOf) /\ \A k : k \in Named(E) => k \in Named(A)
        /\ \A i \in DOMAIN D : D[i].closure \in Named(A)
    BY <2>1, <1>6, NamedMore
  <2> QED  BY <2>1, <2>2
<1> HIDE DEF E, A
<1>10. saved[cur] = NoClosure \/ saved[cur] \in Named(A)
  <2>1. CASE saved[cur] = NoClosure
    BY <2>1
  <2>2. CASE saved[cur] = active /\ active # NoClosure
    BY <2>2, <1>5, <1>9
  <2>3. ASSUME NEW i \in DOMAIN parked[cur], parked[cur][i].closure = saved[cur]
        PROVE  saved[cur] \in Named(A)
    BY <2>3, <1>5, <1>9
  <2>4. ASSUME NEW i \in DOMAIN natives, natives[i].closure = saved[cur]
        PROVE  saved[cur] = NoClosure \/ saved[cur] \in Named(A)
    BY <2>4, <1>7, <1>9
  <2> QED  BY <2>1, <2>2, <2>3, <2>4, <1>8 DEF SavedFrom
<1>11. A \o Left(A) = A
  <2>1. Left(A) = <<>>
    BY <1>10 DEF Left, Entry
  <2> QED  BY <2>1, <1>9, ConcatEmptySeq
<1>12. /\ S \in Seq({S[i] : i \in DOMAIN S}) /\ 1 \in DOMAIN S
  <2>1. S \in Seq({S[i] : i \in DOMAIN S})
    BY SettledIs
  <2>2. DOMAIN S = DOMAIN LineAt /\ 1 \in DOMAIN LineAt
    BY SettledIs, LineAtIs
  <2> QED  BY <2>1, <2>2
<1>13. [S EXCEPT ![1] = A] = Settled(A)
  BY Now, LenProperties DEF Settled
<1>14. cap' \in [Closure -> Value \cup {Null}]
  <2>1. n \in 0 .. Len(S)
    <3>1. Len(S) \in Nat /\ 1 \in 1 .. Len(S)
      BY <1>12, LenProperties
    <3> QED  BY <3>1
  <2> HIDE DEF n
  <2> QED  BY <2>1, <1>1, <1>4, LineSynced
<1>15. exec' = ReleasedLine(Settled(A))
  BY <1>1, <1>11, <1>13 DEF A
<1>16. exec' = [c \in Closure |-> exec'[c]] /\ Counted(exec', calls')
  BY <1>1, <1>4, <1>15, LineCounted
<1> QED  BY <1>1, <1>14, <1>16, GivenUpStep

-----------------------------------------------------------------------------
(* The invariant                                                           *)

LEMMA InitSound == Init => Sound
<1> SUFFICES ASSUME Init
             PROVE  Sound
  OBVIOUS
<1>1. /\ held = {} /\ cap = [c \in Closure |-> Null] /\ exec = [c \in Closure |-> 0]
      /\ calls = [x \in Ctx |-> <<>>] /\ parked = [x \in Ctx |-> <<>>]
      /\ saved = [x \in Ctx |-> NoClosure] /\ active = NoClosure
      /\ fn = [x \in Co |-> NoClosure] /\ state = [x \in Co |-> "none"]
      /\ cur = Main /\ callers = <<>> /\ natives = <<>> /\ mode = "idle" /\ astray = FALSE
  BY DEF Init
<1>2. Main \in Ctx /\ NoClosure \in Callee /\ Main \notin Co /\ MaxFrames \in [Ctx -> Nat \ {0}]
  BY Constants DEF Ctx, Callee
<1>3. \A S : <<>> \in Seq(S) /\ Len(<<>>) = 0 /\ ToSet(<<>>) = {} /\ Distinct(<<>>)
  BY DEF ToSet, Distinct
<1>4. TypeOK
  <2>1. \A x \in Ctx : 0 <= MaxFrames[x]
    BY <1>2
  <2> QED  BY <1>1, <1>2, <1>3, <2>1 DEF TypeOK
<1>5. Stacks
  BY <1>1, Emptied DEF Stacks, Aside, Known
<1>6. SavedSound
  BY <1>1 DEF SavedSound
<1>7. LineKnown
  BY <1>1, <1>2, <1>3 DEF LineKnown, WaitChain, Ctx
<1>8. Counted(exec, calls)
  <2> SUFFICES ASSUME NEW c \in Closure
               PROVE  exec[c] = Cardinality(FramesIn(calls, Ctx, c))
    BY DEF Counted
  <2>1. FramesIn(calls, Ctx, c) = {}
    <3>1. \A x \in Ctx : DOMAIN calls[x] = {}
      BY <1>1
    <3>2. \A p : p \notin FramesIn(calls, Ctx, c)
      BY <3>1, InFrames
    <3> HIDE DEF FramesIn
    <3> QED  BY <3>2
  <2> QED  BY <2>1, <1>1, FS_EmptySet
<1> QED  BY <1>4, <1>5, <1>6, <1>7, <1>8 DEF Sound

LEMMA NextSound ==
  ASSUME Sound, Next, ~ astray, ~ astray'
  PROVE  Sound'
<1>1. CASE Script
  BY <1>1, MakeStep, ForgetStep, WriteStep, CallStep, AnswersStep, ReturnStep, EnterStep, LeaveStep
     DEF Script
<1>2. CASE Switch
  BY <1>2, CreateStep, ResumeStep, YieldStep, BodyEndsStep, CloseSelfStep, CloseStep, DiscardStep
     DEF Switch
<1>3. CASE Host
  BY <1>3, BeginStep, CompleteStep, CancelStep, YieldMainStep, FailStep DEF Host
<1> QED  BY <1>1, <1>2, <1>3 DEF Next

\* Once astray, always astray.
LEMMA Lasting ==
  ASSUME [Next]_vars, astray
  PROVE  astray'
<1>1. CASE UNCHANGED vars
  BY <1>1 DEF vars
<1>2. CASE Script
  BY <1>2 DEF Script, Make, Forget, Write, Call, Answers, Return, Enter, Leave, Running
<1>3. CASE Switch
  BY <1>3 DEF Switch, Create, Resume, Yield, BodyEnds, CloseSelf, Close, Discard, Running
<1>4. CASE Host
  BY <1>4 DEF Host, Begin, Complete, Cancel, YieldMain, Fail, Running
<1> QED  BY <1>1, <1>2, <1>3, <1>4 DEF Next

LEMMA Inductive == IInv /\ [Next]_vars => IInv'
<1> SUFFICES ASSUME IInv, [Next]_vars, ~ astray'
             PROVE  Sound'
  BY DEF IInv
<1>1. ~ astray
  BY Lasting
<1>2. Sound
  BY <1>1 DEF IInv
<1>3. CASE UNCHANGED vars
  <2>1. /\ held' \in SUBSET Closure /\ cap' \in [Closure -> Value \cup {Null}]
        /\ UNCHANGED <<exec, stackVars, coVars, natives, mode, astray>>
    BY <1>2, <1>3, Now DEF vars, stackVars, coVars
  <2> QED  BY <2>1, <1>2, Stutters
<1>4. CASE Next
  BY <1>1, <1>2, <1>4, NextSound
<1> QED  BY <1>3, <1>4

\* What is known of each stack and of the line is what the run checks.
LEMMA SoundSays ==
  ASSUME Sound
  PROVE  TypeOK /\ FramesKnown /\ ReturnsSound /\ SavedNamed /\ LineSound /\ HoldsExact
<1>1. /\ cur \in Ctx /\ callers \in Seq(Ctx) /\ calls \in [Ctx -> Seq(FrameOf)]
      /\ \A x \in Ctx : StackSound(x, calls[x], parked[x], Aside(x), Known(x))
      /\ Aside(cur) = natives
  BY Now DEF Sound, Stacks, Aside
<1>2. TopKnown
  BY <1>1 DEF StackSound, TopOf, Known, TopKnown
<1>3. ParkedKnown
  BY <1>1 DEF StackSound, ParkedOn, ParkedKnown
<1>4. NativesKnown
  <2>1. NativesOn(calls[cur], parked[cur], natives)
    BY <1>1 DEF StackSound
  <2> QED  BY <2>1 DEF NativesOn, NativesKnown, Depth
<1>5. NoneLost
  <2> SUFFICES ASSUME NEW x \in Ctx, NEW i \in 1 .. Len(calls[x]) - 1, calls[x][i].closure # NoClosure
               PROVE  \/ \E j \in DOMAIN parked[x] : parked[x][j].frame = i
                      \/ x = cur /\ \E j \in DOMAIN natives : natives[j].frame = i
    BY DEF NoneLost
  <2>1. (\E j \in DOMAIN parked[x] : parked[x][j].frame = i) \/ (\E j \in DOMAIN Aside(x) : Aside(x)[j].frame = i)
    BY <1>1 DEF StackSound, NoneLostOn
  <2>2. x # cur => DOMAIN Aside(x) = {}
    BY DEF Aside
  <2> QED  BY <2>1, <2>2, <1>1
<1>6. ReturnsSound
  <2> SUFFICES ASSUME NEW x \in Ctx, NEW i \in DOMAIN calls[x]
               PROVE  calls[x][i].back <=>
                        /\ i > 1 /\ calls[x][i - 1].closure # NoClosure
                        /\ ~ (x = cur /\ \E n \in DOMAIN natives : natives[n].frame = i - 1)
    BY DEF ReturnsSound
  <2>1. calls[x][i].back <=> /\ i > 1 /\ calls[x][i - 1].closure # NoClosure
                             /\ ~ \E j \in DOMAIN Aside(x) : Aside(x)[j].frame = i - 1
    BY <1>1 DEF StackSound, BacksOn
  <2>2. x # cur => DOMAIN Aside(x) = {}
    BY DEF Aside
  <2> QED  BY <2>1, <2>2, <1>1
<1>7. SavedNamed
  <2>1. ASSUME mode = "in"
        PROVE  saved[cur] \in {NoClosure} \cup Named(Unwound) \cup {natives[i].closure : i \in DOMAIN natives}
    <3>1. StackSound(cur, calls[cur], parked[cur], natives, active)
      BY <2>1, NowStacks
    <3>2. /\ active # NoClosure => active \in Named(Unwound)
          /\ \A i \in DOMAIN parked[cur] : parked[cur][i].closure \in Named(Unwound)
      BY <3>1, NamedFirst DEF Unwound, Depth
    <3>3. SavedFrom(saved[cur], active, parked[cur], natives)
      BY <2>1 DEF Sound, SavedSound
    <3> QED  BY <3>2, <3>3 DEF SavedFrom
  <2>2. mode = "kept" => saved[cur] \notin Named(parked[cur])
    BY DEF Sound, SavedSound, Named
  <2> QED  BY <2>1, <2>2 DEF SavedNamed
<1>8. LineSound
  <2>1. IsInjective(callers) /\ (callers # <<>> => cur # Main)
    <3>1. Distinct(callers) /\ cur \notin ToSet(callers) /\ (callers # <<>> => Last(callers) = Main)
      BY NowLine DEF WaitChain
    <3>2. IsInjective(callers)
      BY <3>1 DEF IsInjective, Distinct
    <3>3. ASSUME callers # <<>>
          PROVE  Main \in ToSet(callers)
      <4>1. Len(callers) \in DOMAIN callers /\ Last(callers) = callers[Len(callers)]
        BY <3>3, <1>1, FrontFacts
      <4> QED  BY <4>1, <3>1, <3>3 DEF ToSet
    <3> QED  BY <3>1, <3>2, <3>3
  <2> QED  BY <2>1 DEF Sound, LineKnown, WaitChain, LineSound
<1>9. HoldsExact
  BY FramesAre DEF Sound, Counted, HoldsExact
<1> QED  BY <1>2, <1>3, <1>4, <1>5, <1>6, <1>7, <1>8, <1>9 DEF Sound, FramesKnown

\* Through every call, callback, switch and end, the pointer of the worker, the
\* lists of the contexts and the native frames name the lambda of each frame
\* exactly once and hold one reference for each (m_pActiveClosure,
\* m_sClosureCallStack, _activeClosure, FinishClosureReturn, ReleaseExecution).
THEOREM CapturesSound == Spec => []CapturesInv
<1>1. Init => IInv
  BY InitSound DEF IInv
<1>2. IInv /\ [Next]_vars => IInv'
  BY Inductive
<1>3. IInv => CapturesInv
  BY SoundSays DEF IInv, CapturesInv
<1> QED  BY <1>1, <1>2, <1>3, PTL DEF Spec

-----------------------------------------------------------------------------
(* What is copied back when frames end                                     *)

\* The value is that of a frame of c, the lowest named when they fall.
CameFrom(v, cs, E, c, k) ==
  /\ cs[k].closure = c /\ k \in Nat /\ v = cs[k].slot
  /\ Falls(E) => \A i \in DOMAIN E : E[i].closure = c => k <= E[i].frame

\* What one list writes back to a lambda it names.
LEMMA LastSynced ==
  ASSUME NEW cp, NEW cl, NEW x, NEW E, Names(E, x, cl[x]), NEW c \in Closure, c \in Named(E),
         NEW v, v = Synced(cp, cl, E)[c]
  PROVE  \E k \in DOMAIN cl[x] : CameFrom(v, cl[x], E, c, k)
<1> DEFINE I == {i \in DOMAIN E : E[i].closure = c}
           m == Max(I)
           k == E[m].frame
<1>1. Len(E) \in Nat /\ DOMAIN E = 1 .. Len(E) /\ \A i \in DOMAIN E : E[i] \in SettledOf
  BY LenProperties, ElementOfSeq DEF Names
<1>2. I # {}
  BY DEF Named
<1>3. m \in I /\ \A i \in I : m >= i
  BY <1>1, <1>2, MaxFacts
<1>4. v = cl[E[m].ctx][E[m].frame].slot
  BY <1>2 DEF Synced
<1> HIDE DEF m
<1>5. m \in DOMAIN E /\ E[m].closure = c /\ c # NoClosure
  BY <1>3, Constants
<1>6. E[m].ctx = x /\ k \in DOMAIN cl[x] /\ cl[x][k].closure = c
  BY <1>5 DEF Names
<1>7. \A i \in DOMAIN E : E[i].frame \in Nat
  BY <1>1 DEF SettledOf
<1>8. ASSUME Falls(E), NEW i \in DOMAIN E, E[i].closure = c
      PROVE  k <= E[i].frame
  <2>1. i = m \/ i < m
    BY <1>1, <1>3, <1>8
  <2>2. i < m => E[m].frame < E[i].frame
    BY <1>5, <1>8 DEF Falls
  <2> QED  BY <2>1, <2>2, <1>5, <1>7
<1>9. k \in Nat
  BY <1>5, <1>7
<1>10. CameFrom(v, cl[x], E, c, k)
  BY <1>4, <1>6, <1>8, <1>9 DEF CameFrom
<1> HIDE DEF k
<1> QED  BY <1>6, <1>10 DEF k

\* Frames that such a list covers.
LEMMA CoveredBy ==
  ASSUME NEW x, NEW cs, NEW E, Covers(E, x, cs), NEW k \in DOMAIN cs, NEW c \in Closure,
         cs[k].closure = c
  PROVE  \E i \in DOMAIN E : E[i].closure = c /\ E[i].frame = k
<1>1. c # NoClosure
  BY Constants
<1>2. k \in Reached(E)
  BY <1>1 DEF Covers
<1>3. PICK i \in DOMAIN E : E[i].closure # NoClosure /\ E[i].frame = k
  BY <1>2 DEF Reached
<1> QED  BY <1>3 DEF Covers, Names

\* The frame called first, once it is known.
LEMMA OutermostIs ==
  ASSUME NEW F, NEW f \in F, F \subseteq Ctx \X Nat,
         \A g \in F : IF f[1] = g[1] THEN f[2] <= g[2] ELSE Rank(f[1]) > Rank(g[1]),
         \A g, h \in F : g[1] # h[1] => Rank(g[1]) \in Int /\ Rank(h[1]) \in Int
  PROVE  Outermost(F) = f
<1> DEFINE Least(h) == \A g \in F : IF h[1] = g[1] THEN h[2] <= g[2] ELSE Rank(h[1]) > Rank(g[1])
<1>1. Least(f)
  OBVIOUS
<1>2. Outermost(F) \in F /\ Least(Outermost(F))
  BY <1>1 DEF Outermost
<1> DEFINE h == Outermost(F)
<1> HIDE DEF h
<1>3. h \in F /\ Least(h)
  BY <1>2 DEF h
<1>4. CASE h[1] = f[1]
  <2>1. h[2] <= f[2] /\ f[2] <= h[2] /\ h[2] \in Nat /\ f[2] \in Nat
    BY <1>1, <1>3, <1>4
  <2>2. h[2] = f[2]
    BY <2>1
  <2>3. h = <<h[1], h[2]>> /\ f = <<f[1], f[2]>>
    BY <1>3
  <2> QED  BY <2>2, <2>3, <1>4 DEF h
<1>5. CASE h[1] # f[1]
  <2>1. Rank(h[1]) > Rank(f[1]) /\ Rank(f[1]) > Rank(h[1]) /\ Rank(h[1]) \in Int /\ Rank(f[1]) \in Int
    BY <1>1, <1>3, <1>5
  <2> QED  BY <2>1
<1> QED  BY <1>4, <1>5

\* How far out a context of the line waits.
LEMMA RankIs ==
  ASSUME Sound, NEW i \in DOMAIN LineAt
  PROVE  Rank(LineAt[i]) = i - 1
<1>1. /\ DOMAIN LineAt = 1 .. Len(callers) + 1 /\ LineAt[1] = cur
      /\ i # 1 => i - 1 \in DOMAIN callers /\ LineAt[i] = callers[i - 1] /\ LineAt[i] # cur
  BY LineAtIs
<1>2. Distinct(callers) /\ i \in Int
  BY <1>1, NowLine DEF WaitChain
<1>3. CASE i = 1
  BY <1>1, <1>3 DEF Rank
<1>4. CASE i # 1
  <2>1. \A j \in DOMAIN callers : callers[j] = LineAt[i] => j = i - 1
    BY <1>1, <1>2, <1>4 DEF Distinct
  <2>2. (CHOOSE j \in DOMAIN callers : callers[j] = LineAt[i]) = i - 1
    BY <2>1, <1>1, <1>4
  <2> QED  BY <2>2, <1>1, <1>4 DEF Rank
<1> QED  BY <1>3, <1>4

\* What a step owes a lambda.
WritesBack(c) ==
  /\ Ended(c) = {} => cap'[c] = cap[c] \/ c \in held' \ held
  /\ cap'[c] # cap[c] /\ Ended(c) # {} => \E f \in Ended(c) : cap'[c] = Slot(f)
  /\ Owed(c) # {} =>
       IF Failing THEN \E f \in Ended(c) : cap'[c] = Slot(f)
                  ELSE cap'[c] = Slot(Outermost(Ended(c)))

LEMMA EndedIs ==
  ASSUME Sound, NEW c
  PROVE  /\ \A f : f \in Ended(c) <=>
              \E x \in Ctx : \E k \in DOMAIN calls[x] :
                calls[x][k].closure = c /\ f = <<x, k>> /\ k > Len(calls'[x])
         /\ Ended(c) \subseteq Ctx \X Nat
         /\ Owed(c) \subseteq Ended(c)
         /\ \A x \in Ctx : Len(calls[x]) \in Nat /\ DOMAIN calls[x] = 1 .. Len(calls[x])
<1>1. \A f : f \in Frames(c) <=> \E x \in Ctx : \E k \in DOMAIN calls[x] : calls[x][k].closure = c /\ f = <<x, k>>
  BY FramesAre, InFrames
<1>2. \A x \in Ctx : Len(calls[x]) \in Nat /\ DOMAIN calls[x] = 1 .. Len(calls[x])
  BY Now, LenProperties
<1>3. ASSUME NEW f
      PROVE  f \in Ended(c) <=>
              \E x \in Ctx : \E k \in DOMAIN calls[x] :
                calls[x][k].closure = c /\ f = <<x, k>> /\ k > Len(calls'[x])
  <2>1. f \in Ended(c) <=> f \in Frames(c) /\ f[2] > Len(calls'[f[1]])
    BY DEF Ended
  <2> QED  BY <2>1, <1>1
<1>4. Ended(c) \subseteq Ctx \X Nat
  <2>1. \A x \in Ctx : \A k \in DOMAIN calls[x] : <<x, k>> \in Ctx \X Nat
    BY <1>2
  <2> QED  BY <2>1, <1>3
<1>5. Owed(c) \subseteq Ended(c)
  BY DEF Owed
<1> QED  BY <1>2, <1>3, <1>4, <1>5

\* No frame ends.
LEMMA NoneEnds ==
  ASSUME Sound, NEW c, \A x \in Ctx : Len(calls'[x]) \in Int /\ Len(calls[x]) <= Len(calls'[x]),
         cap'[c] = cap[c] \/ c \in held' \ held
  PROVE  WritesBack(c)
<1>1. Ended(c) = {}
  BY EndedIs
<1>2. Owed(c) = {}
  BY <1>1, EndedIs
<1> QED  BY <1>1, <1>2 DEF WritesBack

\* Frames of one context end, the lowest of which is f.
LEMMA SomeEnd ==
  ASSUME Sound, NEW c, NEW f \in Ended(c), cap'[c] = Slot(f),
         \A g \in Ended(c) : IF f[1] = g[1] THEN f[2] <= g[2] ELSE Rank(f[1]) > Rank(g[1]),
         \A g, h \in Ended(c) : g[1] # h[1] => Rank(g[1]) \in Int /\ Rank(h[1]) \in Int
  PROVE  WritesBack(c)
<1>1. Ended(c) \subseteq Ctx \X Nat
  BY EndedIs
<1> DEFINE F == Ended(c)
<1> HIDE DEF F
<1>2. Outermost(F) = f
  BY <1>1, OutermostIs DEF F
<1>3. \E g \in Ended(c) : cap'[c] = Slot(g)
  OBVIOUS
<1> QED  BY <1>2, <1>3 DEF WritesBack, F

\* The topmost frame of the context that runs ends.
LEMMA OneEnds ==
  ASSUME Sound, mode = "in", NEW cs, Len(cs) = Depth - 1, calls' = [calls EXCEPT ![cur] = cs],
         cap' = Synced(cap, calls, Entry(active, cur, Depth)), NEW c \in Closure
  PROVE  WritesBack(c)
<1>1. /\ StackSound(cur, calls[cur], parked[cur], natives, active) /\ calls[cur] # <<>>
      /\ calls \in [Ctx -> Seq(FrameOf)] /\ cur \in Ctx
  BY NowStacks, Now
<1>2. /\ Depth \in DOMAIN calls[cur] /\ DOMAIN calls[cur] = 1 .. Depth /\ Depth \in Nat \ {0}
      /\ calls[cur][Depth].closure = active
  BY <1>1, StackFacts DEF Depth
<1>3. Len(calls'[cur]) = Depth - 1 /\ \A x \in Ctx : x # cur => calls'[x] = calls[x]
  BY <1>1
<1>5. \A f \in Ended(c) : f = <<cur, Depth>> /\ c = active
  <2> SUFFICES ASSUME NEW x \in Ctx, NEW k \in DOMAIN calls[x], calls[x][k].closure = c,
                      k > Len(calls'[x])
               PROVE  x = cur /\ k = Depth
    BY EndedIs, <1>2
  <2>1. x = cur
    BY <1>3, EndedIs
  <2> QED  BY <2>1, <1>2, <1>3
<1>6. CASE c = active
  <2> DEFINE f == <<cur, Depth>>
  <2>1. Depth > Len(calls'[cur])
    BY <1>2, <1>3
  <2>2. f \in Ended(c)
    BY <2>1, <1>1, <1>2, <1>6, EndedIs
  <2>3. Entry(active, cur, Depth) = <<[closure |-> active, ctx |-> cur, frame |-> Depth]>>
    BY <1>6, Constants DEF Entry
  <2>6. cap'[c] = Slot(f)
    <3>1. LET E == Entry(active, cur, Depth)
              I == {i \in DOMAIN E : E[i].closure = c} IN I = {1} /\ E[1].ctx = cur /\ E[1].frame = Depth
      BY <2>3, <1>6
    <3>2. Max({1}) = 1
      <4>1. {1} \subseteq 1 .. 1 /\ {1} # {} /\ 1 \in Nat
        OBVIOUS
      <4>2. Max({1}) \in {1}
        BY <4>1, MaxFacts
      <4> QED  BY <4>2
    <3> QED  BY <3>1, <3>2 DEF Synced, Slot
  <2> HIDE DEF f
  <2>7. \A g \in Ended(c) : g = f
    BY <1>5 DEF f
  <2>8. f[2] <= f[2]
    BY <1>2 DEF f
  <2> QED  BY <2>2, <2>6, <2>7, <2>8, SomeEnd
<1>7. CASE c # active
  <2>1. Ended(c) = {} /\ Owed(c) = {}
    BY <1>5, <1>7, EndedIs
  <2>2. {i \in DOMAIN Entry(active, cur, Depth) : Entry(active, cur, Depth)[i].closure = c} = {}
    BY <1>7 DEF Entry
  <2>3. cap'[c] = cap[c]
    BY <2>2 DEF Synced
  <2> QED  BY <2>1, <2>3 DEF WritesBack
<1> QED  BY <1>6, <1>7

\* All frames of one context end, settled in falling order.
LEMMA StackEnds ==
  ASSUME Sound, NEW x \in Ctx, NEW E, Covers(E, x, calls[x]), Falls(E),
         calls' = [calls EXCEPT ![x] = <<>>], cap' = Synced(cap, calls, E), NEW c \in Closure
  PROVE  WritesBack(c)
<1>1. calls \in [Ctx -> Seq(FrameOf)]
  BY Now
<1>2. Len(calls'[x]) = 0 /\ \A y \in Ctx : y # x => calls'[y] = calls[y]
  BY <1>1
<1>3. \A f \in Ended(c) : \E k \in DOMAIN calls[x] : calls[x][k].closure = c /\ f = <<x, k>>
  <2> SUFFICES ASSUME NEW y \in Ctx, NEW k \in DOMAIN calls[y], calls[y][k].closure = c,
                      k > Len(calls'[y])
               PROVE  y = x
    BY EndedIs
  <2> QED  BY <1>2, EndedIs
<1>4. \A k \in DOMAIN calls[x] : calls[x][k].closure = c => <<x, k>> \in Ended(c)
  <2>1. \A k \in DOMAIN calls[x] : k > Len(calls'[x])
    BY <1>2, EndedIs
  <2> QED  BY <2>1, EndedIs
<1>5. CASE c \in Named(E)
  <2>0. Names(E, x, calls[x])
    BY DEF Covers
  <2> DEFINE v == cap'[c]
  <2>1. v = Synced(cap, calls, E)[c]
    OBVIOUS
  <2> HIDE DEF v
  <2>2. PICK k \in DOMAIN calls[x] : CameFrom(v, calls[x], E, c, k)
    BY <2>0, <2>1, <1>5, LastSynced
  <2>3. /\ calls[x][k].closure = c /\ k \in Nat /\ cap'[c] = calls[x][k].slot
        /\ \A i \in DOMAIN E : E[i].closure = c => k <= E[i].frame
    BY <2>2 DEF CameFrom, v
  <2> DEFINE f == <<x, k>>
  <2>4. f \in Ended(c) /\ cap'[c] = Slot(f)
    BY <2>3, <1>4 DEF Slot
  <2>5. \A g \in Ended(c) : f[1] = g[1] /\ f[2] <= g[2]
    <3> SUFFICES ASSUME NEW j \in DOMAIN calls[x], calls[x][j].closure = c
                 PROVE  k <= j
      BY <1>3
    <3>1. \E i \in DOMAIN E : E[i].closure = c /\ E[i].frame = j
      BY CoveredBy
    <3> QED  BY <3>1, <2>3
  <2>6. \A g, h \in Ended(c) : g[1] = h[1]
    BY <1>3
  <2> HIDE DEF f
  <2> QED  BY <2>4, <2>5, <2>6, SomeEnd
<1>6. CASE c \notin Named(E)
  <2>1. Ended(c) = {}
    <3>1. \A k \in DOMAIN calls[x] : calls[x][k].closure # c
      BY <1>6, CoveredBy DEF Named
    <3> QED  BY <3>1, <1>3
  <2>2. Owed(c) = {}
    BY <2>1, EndedIs
  <2>3. {i \in DOMAIN E : E[i].closure = c} = {}
    BY <1>6 DEF Named
  <2>4. cap'[c] = cap[c]
    BY <2>3 DEF Synced
  <2> QED  BY <2>1, <2>2, <2>4 DEF WritesBack
<1> QED  BY <1>5, <1>6

LEMMA SettledFalls ==
  ASSUME Sound, NEW E, NEW i \in DOMAIN LineAt, i # 1
  PROVE  Falls(Settled(E)[i])
<1> DEFINE x == LineAt[i]
<1>1. x \in Ctx /\ x # cur /\ x = callers[i - 1] /\ DOMAIN LineAt = 1 .. Len(callers) + 1
  BY LineAtIs
<1>2. Settled(E)[i] = Kept(x)
  BY <1>1 DEF Settled
<1> HIDE DEF x
<1>3. StackSound(x, calls[x], parked[x], <<>>, saved[x])
  BY <1>1, NowStacks
<1>4. Falls(Kept(x))
  BY <1>3, FallsTop DEF Kept
<1> QED  BY <1>2, <1>4

\* Of the contexts of a line that name a lambda, the one furthest out writes last.
LEMMA LineWrites ==
  ASSUME NEW S, NEW n \in Nat, NEW c \in Closure
  PROVE  \/ /\ \A i \in 1 .. n : c \notin Named(S[i])
            /\ SyncedLine(S, n)[c] = cap[c]
         \/ \E m \in 1 .. n :
              /\ c \in Named(S[m]) /\ \A i \in 1 .. n : c \in Named(S[i]) => i <= m
              /\ SyncedLine(S, n)[c] = Synced(cap, calls, S[m])[c]
<1> DEFINE K == {i \in 1 .. n : c \in Named(S[i])}
           m == Max(K)
<1>1. SyncedLine(S, n)[c] = IF K = {} THEN cap[c] ELSE Synced(cap, calls, S[m])[c]
  BY DEF SyncedLine
<1>2. CASE K = {}
  BY <1>1, <1>2
<1>3. CASE K # {}
  <2>1. m \in K /\ \A i \in K : m >= i
    BY <1>3, MaxFacts
  <2> HIDE DEF m
  <2>2. m \in 1 .. n /\ c \in Named(S[m])
    BY <2>1
  <2>3. \A i \in 1 .. n : c \in Named(S[i]) => i <= m
    BY <2>1
  <2>4. SyncedLine(S, n)[c] = Synced(cap, calls, S[m])[c]
    BY <1>1, <1>3
  <2> QED  BY <2>2, <2>3, <2>4
<1> QED  BY <1>2, <1>3

LEMMA LineEnded ==
  ASSUME Sound, GivenUp, NEW c
  PROVE  \A f : f \in Ended(c) <=>
           \E i \in DOMAIN LineAt : \E k \in DOMAIN calls[LineAt[i]] :
             calls[LineAt[i]][k].closure = c /\ f = <<LineAt[i], k>>
<1>1. /\ calls' = [x \in Ctx |-> IF x \in Line THEN <<>> ELSE calls[x]]
      /\ Line \subseteq Ctx
  BY Now DEF GivenUp
<1>2. \A x \in Ctx, k \in Int : 1 <= k /\ k <= Len(calls[x]) => (k > Len(calls'[x]) <=> x \in Line)
  <2>1. \A x \in Ctx : Len(calls[x]) \in Nat /\ (x \in Line => Len(calls'[x]) = 0) /\ (x \notin Line => calls'[x] = calls[x])
    BY <1>1, EndedIs
  <2> QED  BY <2>1
<1>3. \A x \in Ctx : \A k \in DOMAIN calls[x] : k > Len(calls'[x]) <=> x \in Line
  <2>1. \A x \in Ctx : \A k \in DOMAIN calls[x] : k \in Int /\ 1 <= k /\ k <= Len(calls[x])
    BY EndedIs
  <2> QED  BY <1>2, <2>1
<1>4. \A x : x \in Line <=> \E i \in DOMAIN LineAt : LineAt[i] = x
  <2>1. Line = {LineAt[i] : i \in DOMAIN LineAt}
    BY LineAtIs
  <2> QED  BY <2>1
<1> SUFFICES ASSUME NEW f
             PROVE  f \in Ended(c) <=>
                      \E i \in DOMAIN LineAt : \E k \in DOMAIN calls[LineAt[i]] :
                        calls[LineAt[i]][k].closure = c /\ f = <<LineAt[i], k>>
  OBVIOUS
<1>5. f \in Ended(c) <=> \E x \in Ctx : \E k \in DOMAIN calls[x] :
                           calls[x][k].closure = c /\ f = <<x, k>> /\ k > Len(calls'[x])
  BY EndedIs
<1>6. f \in Ended(c) <=> \E x \in Line : \E k \in DOMAIN calls[x] : calls[x][k].closure = c /\ f = <<x, k>>
  BY <1>1, <1>3, <1>5
<1> QED  BY <1>4, <1>6

\* The frames of a line end, settled in falling order on each context.
LEMMA LineEnds ==
  ASSUME Sound, GivenUp, NEW E, Covers(E, cur, calls[cur]), Falls(E),
         cap' = SyncedLine(Settled(E), Len(Settled(E))), NEW c \in Closure
  PROVE  WritesBack(c)
<1> DEFINE S == Settled(E)
           n == Len(S)
<1>1. /\ DOMAIN LineAt = 1 .. Len(callers) + 1 /\ LineAt[1] = cur
      /\ \A i \in DOMAIN LineAt : LineAt[i] \in Ctx
      /\ \A i, j \in DOMAIN LineAt : LineAt[i] = LineAt[j] => i = j
  BY LineAtIs
<1>2. /\ DOMAIN S = DOMAIN LineAt /\ S[1] = E
      /\ \A i \in DOMAIN S : i # 1 => Covers(S[i], LineAt[i], calls[LineAt[i]]) /\ Falls(S[i])
      /\ S \in Seq({S[i] : i \in DOMAIN S})
  BY SettledIs, SettledFalls
<1> HIDE DEF S
<1>3. n \in Nat /\ DOMAIN S = 1 .. n
  BY <1>2, LenProperties
<1> HIDE DEF n
<1>4. \A i \in 1 .. n : i \in DOMAIN LineAt /\ Covers(S[i], LineAt[i], calls[LineAt[i]]) /\ Falls(S[i])
  BY <1>1, <1>2, <1>3
<1>5. \A i \in DOMAIN LineAt : i \in 1 .. n
  BY <1>2, <1>3
<1>6. ASSUME NEW i \in DOMAIN LineAt, NEW k \in DOMAIN calls[LineAt[i]], calls[LineAt[i]][k].closure = c
      PROVE  \E j \in DOMAIN S[i] : S[i][j].closure = c /\ S[i][j].frame = k
  BY <1>4, <1>5, <1>6, CoveredBy
<1> DEFINE v == cap'[c]
<1>7. v = SyncedLine(S, n)[c]
  BY DEF S, n
<1>8. CASE \A i \in 1 .. n : c \notin Named(S[i])
  <2>1. Ended(c) = {}
    <3>1. \A i \in DOMAIN LineAt : \A k \in DOMAIN calls[LineAt[i]] : calls[LineAt[i]][k].closure # c
      BY <1>5, <1>6, <1>8 DEF Named
    <3> QED  BY <3>1, LineEnded
  <2>2. Owed(c) = {}
    BY <2>1, EndedIs
  <2>3. SyncedLine(S, n)[c] = cap[c]
    BY <1>3, <1>8, LineWrites
  <2> QED  BY <2>1, <2>2, <2>3, <1>7 DEF WritesBack
<1>9. CASE ~ \A i \in 1 .. n : c \notin Named(S[i])
  <2> HIDE DEF v
  <2>1. PICK m \in 1 .. n :
          /\ c \in Named(S[m]) /\ \A i \in 1 .. n : c \in Named(S[i]) => i <= m
          /\ SyncedLine(S, n)[c] = Synced(cap, calls, S[m])[c]
    BY <1>3, <1>9, LineWrites
  <2> DEFINE x == LineAt[m]
             D == S[m]
  <2>2. m \in DOMAIN LineAt /\ x \in Ctx /\ Covers(D, x, calls[x]) /\ Falls(D) /\ c \in Named(D)
    BY <2>1, <1>1, <1>4
  <2>3. v = Synced(cap, calls, D)[c]
    BY <2>1, <1>7
  <2>4. \A g \in Ended(c) : \/ \E k \in DOMAIN calls[x] : calls[x][k].closure = c /\ g = <<x, k>>
                            \/ g[1] # x /\ Rank(x) > Rank(g[1])
    <3> SUFFICES ASSUME NEW i \in DOMAIN LineAt, NEW k \in DOMAIN calls[LineAt[i]],
                        calls[LineAt[i]][k].closure = c, i # m
                 PROVE  LineAt[i] # x /\ Rank(x) > Rank(LineAt[i])
      BY LineEnded
    <3>1. LineAt[i] # x
      BY <1>1, <2>2
    <3>2. c \in Named(S[i])
      BY <1>6 DEF Named
    <3>3. i < m
      BY <3>2, <2>1, <1>5
    <3>4. Rank(LineAt[i]) = i - 1 /\ Rank(x) = m - 1
      BY <2>2, RankIs
    <3> QED  BY <3>1, <3>3, <3>4, <1>5
  <2>5. \A g \in Ended(c) : Rank(g[1]) \in Int
    <3>1. \A i \in DOMAIN LineAt : Rank(LineAt[i]) \in Int
      BY RankIs, <1>5
    <3> QED  BY <3>1, LineEnded
  <2> HIDE DEF D
  <2>6. Names(D, x, calls[x])
    BY <2>2 DEF Covers
  <2>7. PICK k \in DOMAIN calls[x] : CameFrom(v, calls[x], D, c, k)
    <3> HIDE DEF x
    <3> QED  BY <2>2, <2>3, <2>6, LastSynced
  <2>8. /\ calls[x][k].closure = c /\ k \in Nat /\ cap'[c] = calls[x][k].slot
        /\ \A i \in DOMAIN D : D[i].closure = c => k <= D[i].frame
    BY <2>2, <2>7 DEF CameFrom, v
  <2> DEFINE f == <<x, k>>
  <2>9. f \in Ended(c)
    BY <2>2, <2>8, LineEnded
  <2>10. cap'[c] = Slot(f)
    BY <2>8 DEF Slot
  <2>11. \A j \in DOMAIN calls[x] : calls[x][j].closure = c => k <= j
    <3> SUFFICES ASSUME NEW j \in DOMAIN calls[x], calls[x][j].closure = c
                 PROVE  k <= j
      OBVIOUS
    <3> HIDE DEF x
    <3>1. \E i \in DOMAIN D : D[i].closure = c /\ D[i].frame = j
      BY <2>2, CoveredBy
    <3> QED  BY <3>1, <2>8
  <2> HIDE DEF x
  <2>12. \A g \in Ended(c) : IF f[1] = g[1] THEN f[2] <= g[2] ELSE Rank(f[1]) > Rank(g[1])
    BY <2>4, <2>11
  <2> HIDE DEF f
  <2> QED  BY <2>5, <2>9, <2>10, <2>12, SomeEnd
<1> QED  BY <1>8, <1>9

LEMMA ReachedMore ==
  ASSUME NEW E \in Seq(SettledOf), NEW D \in Seq(SettledOf), NEW k \in Reached(E \o D)
  PROVE  k \in Reached(E) \/ k \in Reached(D)
<1> DEFINE F == E \o D
           m == Len(E)
           n == Len(D)
<1>1. /\ m \in Nat /\ n \in Nat /\ DOMAIN F = 1 .. m + n
      /\ DOMAIN E = 1 .. m /\ DOMAIN D = 1 .. n
      /\ \A i \in 1 .. m + n : F[i] = IF i <= m THEN E[i] ELSE D[i - m]
  BY ConcatProperties, LenProperties
<1> HIDE DEF F, m, n
<1>2. PICK i \in DOMAIN F : F[i].closure # NoClosure /\ F[i].frame = k
  BY DEF Reached, F
<1>3. CASE i <= m
  <2>1. i \in DOMAIN E /\ F[i] = E[i]
    BY <1>1, <1>2, <1>3
  <2> QED  BY <1>2, <2>1 DEF Reached
<1>4. CASE ~ (i <= m)
  <2>1. i \in 1 .. m + n
    BY <1>1, <1>2
  <2>2. i - m \in DOMAIN D /\ F[i] = D[i - m]
    BY <1>1, <1>4, <2>1
  <2> QED  BY <1>2, <2>2 DEF Reached
<1> QED  BY <1>3, <1>4

\* An error settles all that native code of the library put aside; what a host
\* call interrupted it does not.
LEMMA FailSettles ==
  ASSUME Sound, mode = "in", NEW k \in DOMAIN calls[cur], NEW c \in Closure, calls[cur][k].closure = c,
         ~ \E i \in DOMAIN natives : natives[i].frame = k /\ natives[i].kind = "host"
  PROVE  c \in Named(Unwound \o Interrupted("lib"))
<1> DEFINE L == Interrupted("lib")
           H == AsideOf("host", cur, natives)
           E == Unwound \o L
<1>1. StackSound(cur, calls[cur], parked[cur], natives, active)
  BY NowStacks
<1>2. /\ Unwound = Entry(active, cur, Len(calls[cur])) \o Reverse(parked[cur])
      /\ L = AsideOf("lib", cur, natives)
  BY DEF Unwound, Depth, Interrupted, AsideOf
<1>3. Names(E, cur, calls[cur]) /\ Covers(E \o H, cur, calls[cur])
  BY <1>1, <1>2, CoversAll
<1>4. Names(H, cur, calls[cur])
  BY <1>1, NamesAside
<1>5. k \notin Reached(H)
  BY <1>1, NamesAside
<1> HIDE DEF L, H, E
<1>6. E \in Seq(SettledOf) /\ H \in Seq(SettledOf)
  BY <1>3, <1>4 DEF Names
<1>7. k \in Reached(E \o H)
  <2>1. c # NoClosure
    BY Constants
  <2> QED  BY <2>1, <1>3 DEF Covers
<1>8. k \in Reached(E)
  BY <1>5, <1>6, <1>7, ReachedMore
<1>9. PICK i \in DOMAIN E : E[i].closure # NoClosure /\ E[i].frame = k
  BY <1>8 DEF Reached
<1>10. E[i].closure = c
  BY <1>3, <1>9 DEF Names
<1> QED  BY <1>10 DEF Named, E, L

\* A line ends with an error.
LEMMA FailEnds ==
  ASSUME Sound, NEW sync \in BOOLEAN, Fail(sync), NEW c \in Closure
  PROVE  WritesBack(c)
<1> DEFINE E == Unwound \o Interrupted("lib")
           S == Settled(E)
           n == IF sync THEN Len(S) ELSE 1
           v == cap'[c]
<1>1. mode = "in" /\ mode' = "failed" /\ cap' = SyncedLine(S, n) /\ GivenUp
  BY DEF Fail, Running
<1>2. StackSound(cur, calls[cur], parked[cur], natives, active)
  BY <1>1, NowStacks
<1>3. Names(E, cur, calls[cur])
  <2>1. /\ Unwound = Entry(active, cur, Len(calls[cur])) \o Reverse(parked[cur])
        /\ Interrupted("lib") = AsideOf("lib", cur, natives)
    BY DEF Unwound, Depth, Interrupted, AsideOf
  <2> QED  BY <1>2, <2>1, CoversAll
<1> HIDE DEF E
<1>4. DOMAIN LineAt = 1 .. Len(callers) + 1 /\ 1 \in DOMAIN LineAt /\ LineAt[1] = cur
  BY LineAtIs
<1>5. /\ DOMAIN S = DOMAIN LineAt /\ S[1] = E
      /\ \A i \in DOMAIN S : i # 1 => Covers(S[i], LineAt[i], calls[LineAt[i]])
      /\ S \in Seq({S[i] : i \in DOMAIN S})
  BY SettledIs
<1> HIDE DEF S
<1>6. /\ n \in Nat /\ 1 \in 1 .. n
      /\ \A i \in 1 .. n : i \in DOMAIN LineAt /\ Names(S[i], LineAt[i], calls[LineAt[i]])
  <2>1. Len(S) \in Nat /\ DOMAIN S = 1 .. Len(S) /\ 1 \in 1 .. Len(S)
    BY <1>4, <1>5, LenProperties
  <2>2. n \in Nat /\ 1 \in 1 .. n /\ \A i \in 1 .. n : i \in DOMAIN S
    BY <2>1
  <2> QED  BY <2>2, <1>3, <1>4, <1>5 DEF Covers
<1> HIDE DEF n
<1>7. v = SyncedLine(S, n)[c]
  BY <1>1
<1>8. CASE \A i \in 1 .. n : c \notin Named(S[i])
  <2>1. cap'[c] = cap[c]
    BY <1>6, <1>7, <1>8, LineWrites
  <2>2. Owed(c) = {}
    <3> SUFFICES ASSUME NEW f \in Owed(c)
                 PROVE  FALSE
      OBVIOUS
    <3>1. /\ f \in Ended(c) /\ f[1] = cur
          /\ ~ \E i \in DOMAIN natives : natives[i].frame = f[2] /\ natives[i].kind = "host"
      BY <1>1 DEF Owed, Failing
    <3>2. f[2] \in DOMAIN calls[cur] /\ calls[cur][f[2]].closure = c
      BY <1>1, <3>1, LineEnded
    <3>3. c \in Named(E)
      BY <1>1, <3>1, <3>2, FailSettles DEF E
    <3> QED  BY <3>3, <1>5, <1>6, <1>8
  <2> QED  BY <2>1, <2>2 DEF WritesBack
<1>9. CASE ~ \A i \in 1 .. n : c \notin Named(S[i])
  <2> HIDE DEF v
  <2>1. PICK m \in 1 .. n :
          /\ c \in Named(S[m]) /\ \A i \in 1 .. n : c \in Named(S[i]) => i <= m
          /\ SyncedLine(S, n)[c] = Synced(cap, calls, S[m])[c]
    BY <1>6, <1>9, LineWrites
  <2> DEFINE x == LineAt[m]
             D == S[m]
  <2>2. m \in DOMAIN LineAt /\ Names(D, x, calls[x]) /\ c \in Named(D) /\ v = Synced(cap, calls, D)[c]
    BY <2>1, <1>6, <1>7
  <2> HIDE DEF D
  <2>3. PICK k \in DOMAIN calls[x] : CameFrom(v, calls[x], D, c, k)
    <3> HIDE DEF x
    <3> QED  BY <2>2, LastSynced
  <2>4. calls[x][k].closure = c /\ cap'[c] = calls[x][k].slot
    BY <2>3 DEF CameFrom, v
  <2> DEFINE f == <<x, k>>
  <2>5. f \in Ended(c) /\ cap'[c] = Slot(f)
    BY <1>1, <2>2, <2>4, LineEnded DEF Slot
  <2>6. Failing
    BY <1>1 DEF Failing
  <2> HIDE DEF f
  <2> QED  BY <2>5, <2>6 DEF WritesBack
<1> QED  BY <1>8, <1>9

LEMMA ReleaseEnds ==
  ASSUME Sound, Release, mode \in {"in", "kept"}, natives = <<>>, NEW c \in Closure
  PROVE  WritesBack(c)
<1> DEFINE E == Unwound \o Left(Unwound)
<1>1. cap' = SyncedLine(Settled(E), Len(Settled(E))) /\ GivenUp
  BY DEF Release
<1>2. Covers(E, cur, calls[cur]) /\ Falls(E)
  BY UnwoundAll
<1> HIDE DEF E
<1> QED  BY <1>1, <1>2, LineEnds

\* Steps of the script.
LEMMA ScriptWrites ==
  ASSUME Sound, Script, NEW c \in Closure
  PROVE  WritesBack(c)
<1>1. /\ calls \in [Ctx -> Seq(FrameOf)] /\ cap \in [Closure -> Value \cup {Null}] /\ cur \in Ctx
      /\ \A x \in Ctx : Len(calls[x]) \in Nat
  BY Now, EndedIs
<1>2. ASSUME NEW d \in Closure, NEW v \in Value, Make(d, v)
      PROVE  WritesBack(c)
  <2>1. calls' = calls /\ cap' = [cap EXCEPT ![d] = v] /\ held' = held \cup {d} /\ d \notin held
    BY <1>2 DEF Make, stackVars, Referred
  <2>2. cap'[c] = cap[c] \/ c \in held' \ held
    BY <2>1, <1>1
  <2> QED  BY <2>1, <2>2, <1>1, NoneEnds
<1>3. ASSUME NEW d \in Closure, Forget(d)
      PROVE  WritesBack(c)
  BY <1>1, <1>3, NoneEnds DEF Forget, stackVars
<1>4. ASSUME NEW v \in Value, Write(v)
      PROVE  WritesBack(c)
  <2> DEFINE cs == [calls[cur] EXCEPT ![Depth].slot = v]
  <2>1. mode = "in" /\ calls' = [calls EXCEPT ![cur] = cs] /\ cap' = cap
    BY <1>4 DEF Write, Running, lambdaVars
  <2>2. Len(calls'[cur]) = Len(calls[cur]) /\ \A y \in Ctx : y # cur => calls'[y] = calls[y]
    BY <2>1, SlotWritten
  <2> QED  BY <2>1, <2>2, <1>1, NoneEnds
<1>5. ASSUME NEW d \in Callee, Call(d)
      PROVE  WritesBack(c)
  <2> DEFINE f == Frame(d, active # NoClosure)
             cs == Append(calls[cur], f)
  <2>1. calls' = [calls EXCEPT ![cur] = cs] /\ cap' = cap
    BY <1>5 DEF Call
  <2>2. f \in FrameOf
    BY FrameTyped
  <2> HIDE DEF f
  <2>3. Len(cs) = Len(calls[cur]) + 1
    BY <2>2, <1>1
  <2> HIDE DEF cs
  <2>4. \A x \in Ctx : Len(calls'[x]) \in Int /\ Len(calls[x]) <= Len(calls'[x])
    BY <2>1, <2>3, <1>1
  <2> QED  BY <2>1, <2>4, NoneEnds
<1>6. ASSUME NEW d \in Callee, NEW e \in Callee, Answers(d, e)
      PROVE  WritesBack(c)
  <2> DEFINE f == Frame(d, active # NoClosure)
             g == Frame(e, d # NoClosure)
             cs == calls[cur] \o <<f, g>>
  <2>1. calls' = [calls EXCEPT ![cur] = cs] /\ cap' = cap
    BY <1>6 DEF Answers
  <2>2. f \in FrameOf /\ g \in FrameOf
    BY FrameTyped
  <2> HIDE DEF f, g
  <2>3. Len(cs) = Len(calls[cur]) + 2
    BY <2>2, <1>1
  <2> HIDE DEF cs
  <2>4. \A x \in Ctx : Len(calls'[x]) \in Int /\ Len(calls[x]) <= Len(calls'[x])
    BY <2>1, <2>3, <1>1
  <2> QED  BY <2>1, <2>4, NoneEnds
<1>7. ASSUME Return
      PROVE  WritesBack(c)
  <2> DEFINE cs == Front(calls[cur])
  <2>1. /\ mode = "in" /\ calls' = [calls EXCEPT ![cur] = cs]
        /\ cap' = Synced(cap, calls, Entry(active, cur, Depth))
    BY <1>7 DEF Return, Finished
  <2>2. calls[cur] # <<>> /\ calls[cur] \in Seq(FrameOf)
    BY <2>1, <1>1, NowStacks
  <2>3. Len(cs) = Depth - 1
    BY <2>2, Shortened DEF Depth
  <2> HIDE DEF cs
  <2> QED  BY <2>1, <2>3, OneEnds
<1>8. ASSUME NEW k \in {"lib", "host"}, NEW d \in Callee, Enter(k, d)
      PROVE  WritesBack(c)
  <2> DEFINE f == Frame(d, FALSE)
             cs == Append(calls[cur], f)
  <2>1. calls' = [calls EXCEPT ![cur] = cs] /\ cap' = cap
    BY <1>8 DEF Enter
  <2>2. f \in FrameOf
    BY FrameTyped
  <2> HIDE DEF f
  <2>3. Len(cs) = Len(calls[cur]) + 1
    BY <2>2, <1>1
  <2> HIDE DEF cs
  <2>4. \A x \in Ctx : Len(calls'[x]) \in Int /\ Len(calls[x]) <= Len(calls'[x])
    BY <2>1, <2>3, <1>1
  <2> QED  BY <2>1, <2>4, NoneEnds
<1>9. ASSUME Leave
      PROVE  WritesBack(c)
  <2> DEFINE cs == Front(calls[cur])
  <2>1. /\ mode = "in" /\ calls' = [calls EXCEPT ![cur] = cs]
        /\ cap' = Synced(cap, calls, Entry(active, cur, Depth))
    BY <1>9 DEF Leave, Finished, Running
  <2>2. calls[cur] # <<>> /\ calls[cur] \in Seq(FrameOf)
    BY <2>1, <1>1, NowStacks
  <2>3. Len(cs) = Depth - 1
    BY <2>2, Shortened DEF Depth
  <2> HIDE DEF cs
  <2> QED  BY <2>1, <2>3, OneEnds
<1> QED  BY <1>2, <1>3, <1>4, <1>5, <1>6, <1>7, <1>8, <1>9 DEF Script

\* Steps from one context to another.
LEMMA SwitchWrites ==
  ASSUME Sound, Switch, NEW c \in Closure
  PROVE  WritesBack(c)
<1>1. /\ calls \in [Ctx -> Seq(FrameOf)] /\ cap \in [Closure -> Value \cup {Null}] /\ cur \in Ctx
      /\ \A x \in Ctx : Len(calls[x]) \in Nat
      /\ \A x \in Co : x \in Ctx
  BY Now, NowLine, EndedIs
<1>2. ASSUME calls' = calls, cap' = cap
      PROVE  WritesBack(c)
  BY <1>1, <1>2, NoneEnds
<1>3. ASSUME NEW x \in Co, NEW d \in Callee, Create(x, d)
      PROVE  WritesBack(c)
  BY <1>2, <1>3 DEF Create, lambdaVars
<1>4. ASSUME NEW x \in Co, Resume(x)
      PROVE  WritesBack(c)
  <2> DEFINE f == Frame(fn[x], FALSE)
  <2>1. cap' = cap /\ (calls[x] # <<>> => calls' = calls)
        /\ (calls[x] = <<>> => calls' = [calls EXCEPT ![x] = <<f>>])
    BY <1>4 DEF Resume
  <2> HIDE DEF f
  <2>2. Len(<<f>>) = 1 /\ (calls[x] = <<>> => Len(calls[x]) = 0)
    OBVIOUS
  <2>3. \A y \in Ctx : Len(calls'[y]) \in Int /\ Len(calls[y]) <= Len(calls'[y])
    BY <2>1, <2>2, <1>1
  <2> QED  BY <2>1, <2>3, NoneEnds
<1>5. ASSUME Yield
      PROVE  WritesBack(c)
  BY <1>2, <1>5 DEF Yield
<1>6. ASSUME BodyEnds
      PROVE  WritesBack(c)
  <2>1. /\ mode = "in" /\ Depth = 1 /\ calls' = [calls EXCEPT ![cur] = <<>>]
        /\ cap' = Synced(cap, calls, Entry(active, cur, Depth))
    BY <1>6 DEF BodyEnds, Finished, Running
  <2>2. Len(<<>>) = Depth - 1
    BY <2>1
  <2> QED  BY <2>1, <2>2, OneEnds
<1>7. ASSUME CloseSelf
      PROVE  WritesBack(c)
  <2> DEFINE E == Entry(active, cur, Depth) \o Reverse(parked[cur])
  <2>1. /\ mode = "in" /\ natives = <<>> /\ calls' = [calls EXCEPT ![cur] = <<>>]
        /\ cap' = Synced(cap, calls, E)
    BY <1>7 DEF CloseSelf, Back, Running
  <2>2. Covers(E, cur, calls[cur]) /\ Falls(E)
    BY <2>1, NowStacks, CoversQuiet, FallsTop DEF Depth
  <2> HIDE DEF E
  <2> QED  BY <2>1, <2>2, <1>1, StackEnds
<1>8. ASSUME NEW x \in Co, Close(x)
      PROVE  WritesBack(c)
  <2>1. /\ state[x] \in {"suspended", "normal"} /\ calls' = [calls EXCEPT ![x] = <<>>]
        /\ cap' = Synced(cap, calls, Kept(x))
    BY <1>8 DEF Close
  <2>2. x # cur
    BY <2>1, NowLine
  <2>3. StackSound(x, calls[x], parked[x], <<>>, saved[x])
    BY <2>2, <1>1, NowStacks
  <2>4. Covers(Kept(x), x, calls[x]) /\ Falls(Kept(x))
    BY <2>3, CoversQuiet, FallsTop DEF Kept
  <2> QED  BY <2>1, <2>4, <1>1, StackEnds
<1>9. ASSUME NEW x \in Co, Discard(x)
      PROVE  WritesBack(c)
  <2>1. /\ cap' = cap /\ calls' = [calls EXCEPT ![x] = <<>>] /\ state' = [state EXCEPT ![x] = "none"]
    BY <1>9 DEF Discard
  <2>2. state'[x] = "none"
    BY <2>1, Now
  <2>3. \A y \in Ctx : y # x => calls'[y] = calls[y]
    BY <2>1, <1>1
  <2>4. \A f \in Ended(c) : f[1] = x
    <3> SUFFICES ASSUME NEW y \in Ctx, NEW k \in DOMAIN calls[y], k > Len(calls'[y])
                 PROVE  y = x
      BY EndedIs
    <3> QED  BY <2>3, EndedIs
  <2>5. Owed(c) = {}
    BY <2>2, <2>4 DEF Owed
  <2> QED  BY <2>1, <2>5 DEF WritesBack
<1> QED  BY <1>3, <1>4, <1>5, <1>6, <1>7, <1>8, <1>9 DEF Switch

\* Steps of the host.
LEMMA HostWrites ==
  ASSUME Sound, Host, NEW c \in Closure
  PROVE  WritesBack(c)
<1>1. /\ calls \in [Ctx -> Seq(FrameOf)] /\ cap \in [Closure -> Value \cup {Null}] /\ cur \in Ctx
      /\ \A x \in Ctx : Len(calls[x]) \in Nat
      /\ Main \in Ctx
  BY Now, EndedIs DEF Ctx
<1>2. ASSUME NEW d \in Callee, Begin(d)
      PROVE  WritesBack(c)
  <2> DEFINE f == Frame(d, FALSE)
  <2>1. cap' = cap /\ calls' = [calls EXCEPT ![Main] = <<f>>] /\ mode \in {"idle", "failed"}
    BY <1>2 DEF Begin
  <2> HIDE DEF f
  <2>2. Len(<<f>>) = 1 /\ Len(calls[Main]) = 0
    BY <2>1, NowLine
  <2>3. \A y \in Ctx : Len(calls'[y]) \in Int /\ Len(calls[y]) <= Len(calls'[y])
    BY <2>1, <2>2, <1>1
  <2> QED  BY <2>1, <2>3, NoneEnds
<1>3. ASSUME Complete
      PROVE  WritesBack(c)
  BY <1>3, ReleaseEnds DEF Complete, Running
<1>4. ASSUME Cancel
      PROVE  WritesBack(c)
  BY <1>4, ReleaseEnds DEF Cancel
<1>5. ASSUME NEW gc \in BOOLEAN, YieldMain(gc)
      PROVE  WritesBack(c)
  <2>1. /\ mode = "in" /\ callers = <<>> /\ cap' = cap
        /\ calls' = IF gc THEN [calls EXCEPT ![Main][Depth].slot = Null] ELSE calls
    BY <1>5 DEF YieldMain, Running, lambdaVars
  <2>2. cur = Main
    <3>1. WaitChain(Ctx, Main, cur, callers)
      BY NowLine
    <3> QED  BY <3>1, <2>1 DEF WaitChain
  <2>3. CASE gc
    <3> DEFINE cs == [calls[cur] EXCEPT ![Depth].slot = Null]
    <3>1. calls' = [calls EXCEPT ![cur] = cs] /\ Null \in Value \cup {Null}
      BY <2>1, <2>2, <2>3, <1>1
    <3>2. Len(calls'[cur]) = Len(calls[cur]) /\ \A y \in Ctx : y # cur => calls'[y] = calls[y]
      BY <3>1, <2>1, SlotWritten
    <3> QED  BY <2>1, <3>2, <1>1, NoneEnds
  <2>4. CASE ~ gc
    BY <2>1, <2>4, <1>1, NoneEnds
  <2> QED  BY <2>3, <2>4
<1>6. ASSUME NEW sync \in BOOLEAN, Fail(sync)
      PROVE  WritesBack(c)
  BY <1>6, FailEnds
<1> QED  BY <1>2, <1>3, <1>4, <1>5, <1>6 DEF Host

\* Whichever way a frame ends (a return, a callback's, a body's, a close, a
\* cancellation, the end of an execution or an error), the lambda it ran gets
\* back what the frame held, and of several frames what the one called first
\* held (FinishClosureReturn, DrainCoroutineClosures, UnwindActiveClosures,
\* ReleaseExecution).
THEOREM EndsWrittenBack == Spec => EndsWriteBack
<1> DEFINE Backed ==
      ~astray' =>
      \A c \in Closure :
        /\ Ended(c) = {} => cap'[c] = cap[c] \/ c \in held' \ held
        /\ cap'[c] # cap[c] /\ Ended(c) # {} => \E f \in Ended(c) : cap'[c] = Slot(f)
        /\ Owed(c) # {} =>
             IF Failing THEN \E f \in Ended(c) : cap'[c] = Slot(f)
                        ELSE cap'[c] = Slot(Outermost(Ended(c)))
<1>1. Init => IInv
  BY InitSound DEF IInv
<1>2. IInv /\ [Next]_vars => IInv'
  BY Inductive
<1>3. IInv /\ [Next]_vars => [Backed]_vars
  <2> SUFFICES ASSUME IInv, Next, ~ astray'
               PROVE  \A c \in Closure : WritesBack(c)
    BY DEF WritesBack
  <2>1. ~ astray
    BY Lasting
  <2>2. Sound
    BY <2>1 DEF IInv
  <2> QED  BY <2>2, ScriptWrites, SwitchWrites, HostWrites DEF Next
<1>4. EndsWriteBack <=> [][Backed]_vars
  BY DEF EndsWriteBack
<1> HIDE DEF Backed
<1> QED  BY <1>1, <1>2, <1>3, <1>4, PTL DEF Spec

=============================================================================
