------------------------- MODULE HubObserversProofs -------------------------
(* Theorems about HubObservers, for every set of subscribers and           *)
(* goroutines and every depth of nested panic notifications.               *)
EXTENDS HubObservers, FiniteSetTheorems, SequenceTheorems, TLAPS

\* The stacks are sequences of frames.
StacksAreSeqs == stack \in [Goroutines -> Seq(Frames)]

\* The dispatches goroutine g has in progress.
FramesAt(g) == {stack[g][i] : i \in 1..Len(stack[g])}

\* Frame number d of goroutine g, counted from the outermost, so that a frame keeps
\* its number while others are pushed and popped above it.
FromBottom(g, d) == stack[g][Len(stack[g]) + 1 - d]

\* The counted callbacks of subscriber s in progress: where their frames are.
Held(s) == {x \in Goroutines \X Nat :
    /\ x[2] \in 1..Len(stack[x[1]])
    /\ FromBottom(x[1], x[2]).at = s /\ FromBottom(x[1], x[2]).guarded}

\* A frame is between subscribers or at one; only owners dispatch uncounted; a panic
\* that is about to unlist its subscriber was the one to retire it.
GoodFrame(g, f) ==
    /\ f \in Frames /\ (f.pc = "visit" <=> f.at = None)
    /\ f.guarded \/ g \in Owners
    /\ f.pc = "unlist" => retired[f.at] /\ f.at \notin active
FramesOK == \A g \in Goroutines : \A f \in FramesAt(g) : GoodFrame(g, f)

\* An owner is inside a dispatch only while Close waits for it.
OwnersLive == \A g \in Owners : stack[g] # <<>> => unit[g] = "live"

\* slot.state counts the guarded callbacks in progress.
CountsExact == \A s \in Slots : IsFiniteSet(Held(s)) /\ count[s] = Cardinality(Held(s))

\* finishClose runs in a closing hub that no owner is left in, ...
AfterOwners == closer # "idle" => closing /\ \A g \in Owners : unit[g] # "live"

\* ... tells nobody before every slot it swapped out has drained, ...
AfterDrain ==
    /\ closer \in {"tell", "done"} => \A s \in closeList : drained[s]
    /\ closer \notin {"tell", "done"} => told = {}

\* ... and tells only the slots it retired itself.
RetiredOnce ==
    /\ told \subseteq active
    /\ \A s \in active : retired[s] /\ s \notin detaching
    /\ \A s \in detaching : retired[s]

\* finishClose sweeps nothing before it has swapped the list out.
SweptAfterSwap == closer = "idle" => swept = {}

IInv ==
    /\ TypeOK /\ StacksAreSeqs /\ FramesOK /\ OwnersLive /\ CountsExact /\ DrainedIffIdle
    /\ AfterOwners /\ AfterDrain /\ RetiredOnce /\ SweptAfterSwap

-----------------------------------------------------------------------------
(* Stacks                                                                  *)

\* Replacing the innermost frame of a stack leaves the others in place.
LEMMA ReplaceHead ==
  ASSUME NEW S, NEW q \in Seq(S), q # <<>>, NEW f \in S
  PROVE  /\ <<f>> \o Tail(q) \in Seq(S) /\ Len(<<f>> \o Tail(q)) = Len(q)
         /\ (<<f>> \o Tail(q))[1] = f
         /\ \A i \in 2..Len(q) : (<<f>> \o Tail(q))[i] = q[i]
  <1>1. /\ Tail(q) \in Seq(S) /\ Len(Tail(q)) = Len(q) - 1 /\ Len(q) \in Nat
        /\ \A i \in 1..Len(Tail(q)) : Tail(q)[i] = q[i + 1]
    BY HeadTailProperties
  <1>2. <<f>> \in Seq(S) /\ Len(<<f>>) = 1 /\ <<f>>[1] = f
    OBVIOUS
  <1>3. Len(q) # 0
    BY EmptySeq
  <1>4. /\ <<f>> \o Tail(q) \in Seq(S) /\ Len(<<f>> \o Tail(q)) = 1 + Len(Tail(q))
        /\ \A i \in 1..(1 + Len(Tail(q))) : (<<f>> \o Tail(q))[i] =
               IF i <= 1 THEN <<f>>[i] ELSE Tail(q)[i - 1]
    BY <1>1, <1>2, ConcatProperties
  <1>5. QED
    BY <1>1, <1>2, <1>3, <1>4

\* Pushing a frame over a replaced one moves the others up by one.
LEMMA PushOver ==
  ASSUME NEW S, NEW q \in Seq(S), q # <<>>, NEW e \in S, NEW f \in S
  PROVE  /\ <<e, f>> \o Tail(q) \in Seq(S) /\ Len(<<e, f>> \o Tail(q)) = Len(q) + 1
         /\ (<<e, f>> \o Tail(q))[1] = e /\ (<<e, f>> \o Tail(q))[2] = f
         /\ \A i \in 2..Len(q) : (<<e, f>> \o Tail(q))[i + 1] = q[i]
  <1>1. /\ Tail(q) \in Seq(S) /\ Len(Tail(q)) = Len(q) - 1 /\ Len(q) \in Nat
        /\ \A i \in 1..Len(Tail(q)) : Tail(q)[i] = q[i + 1]
    BY HeadTailProperties
  <1>2. <<e, f>> \in Seq(S) /\ Len(<<e, f>>) = 2 /\ <<e, f>>[1] = e /\ <<e, f>>[2] = f
    OBVIOUS
  <1>3. Len(q) # 0
    BY EmptySeq
  <1>4. /\ <<e, f>> \o Tail(q) \in Seq(S) /\ Len(<<e, f>> \o Tail(q)) = 2 + Len(Tail(q))
        /\ \A i \in 1..(2 + Len(Tail(q))) : (<<e, f>> \o Tail(q))[i] =
               IF i <= 2 THEN <<e, f>>[i] ELSE Tail(q)[i - 2]
    BY <1>1, <1>2, ConcatProperties
  <1>5. \A i \in 2..Len(q) : (<<e, f>> \o Tail(q))[i + 1] = q[i]
    <2>1. SUFFICES ASSUME NEW i \in 2..Len(q) PROVE (<<e, f>> \o Tail(q))[i + 1] = q[i]
      OBVIOUS
    <2>2. (<<e, f>> \o Tail(q))[i + 1] = Tail(q)[i + 1 - 2]
      BY <1>1, <1>4
    <2>3. i + 1 - 2 \in 1..Len(Tail(q)) /\ (i + 1 - 2) + 1 = i
      BY <1>1
    <2>4. QED
      BY <1>1, <2>2, <2>3
  <1>6. QED
    BY <1>1, <1>2, <1>3, <1>4, <1>5

\* The position of the innermost frame of goroutine g.
TopAt(g) == <<g, Len(stack[g])>>

\* What is at the innermost frame: a frame of g, and held if it is counted.
LEMMA TopFrame ==
  ASSUME StacksAreSeqs, NEW g \in Goroutines, stack[g] # <<>>
  PROVE  /\ Top(g) \in Frames /\ Top(g) \in FramesAt(g) /\ TopAt(g) \in Goroutines \X Nat
         /\ \A s : TopAt(g) \in Held(s) <=> Top(g).at = s /\ Top(g).guarded
  <1>1. stack[g] \in Seq(Frames) /\ Len(stack[g]) \in Nat \ {0}
    BY EmptySeq DEF StacksAreSeqs
  <1>2. Top(g) = stack[g][1] /\ Top(g) \in Frames
    BY <1>1, HeadTailProperties DEF Top
  <1>3. Top(g) \in FramesAt(g) /\ TopAt(g) \in Goroutines \X Nat
    BY <1>1, <1>2 DEF FramesAt, TopAt
  <1>4. FromBottom(g, Len(stack[g])) = Top(g)
    BY <1>1, <1>2 DEF FromBottom
  <1>5. TopAt(g)[1] = g /\ TopAt(g)[2] = Len(stack[g]) /\ Len(stack[g]) \in 1..Len(stack[g])
    BY <1>1 DEF TopAt
  <1>6. QED
    BY <1>2, <1>3, <1>4, <1>5 DEF Held

\* The frames of a goroutine change by one that is new; those of the others do not.
Adds(g, N) ==
    /\ StacksAreSeqs'
    /\ \A h \in Goroutines : h # g => FramesAt(h)' = FramesAt(h) /\ stack'[h] = stack[h]
    /\ FramesAt(g)' \subseteq FramesAt(g) \cup N

\* SetTop changes what the innermost position holds and nothing else.
LEMMA TopReplaced ==
  ASSUME StacksAreSeqs, NEW g \in Goroutines, stack[g] # <<>>, NEW f \in Frames, SetTop(g, f)
  PROVE  /\ Adds(g, {f})
         /\ \A s, x : x \in Held(s)' <=>
                IF x = TopAt(g) THEN f.at = s /\ f.guarded ELSE x \in Held(s)
  <1>1. stack[g] \in Seq(Frames) /\ Len(stack[g]) \in Nat \ {0}
    BY EmptySeq DEF StacksAreSeqs
  <1>2. stack' = [stack EXCEPT ![g] = <<f>> \o Tail(stack[g])]
    BY DEF SetTop
  <1>3. stack'[g] = <<f>> \o Tail(stack[g]) /\ \A h \in Goroutines : h # g => stack'[h] = stack[h]
    BY <1>2 DEF StacksAreSeqs
  <1>4. /\ stack'[g] \in Seq(Frames) /\ Len(stack'[g]) = Len(stack[g])
        /\ stack'[g][1] = f /\ \A i \in 2..Len(stack[g]) : stack'[g][i] = stack[g][i]
    BY <1>1, <1>3, ReplaceHead
  <1>5. StacksAreSeqs'
    BY <1>2, <1>3, <1>4 DEF StacksAreSeqs
  <1>6. Adds(g, {f})
    BY <1>1, <1>3, <1>4, <1>5 DEF Adds, FramesAt
  <1>7. ASSUME NEW s, NEW x
        PROVE  x \in Held(s)' <=> IF x = TopAt(g) THEN f.at = s /\ f.guarded ELSE x \in Held(s)
    <2>0. TopAt(g) \in Goroutines \X Nat
      BY TopFrame
    <2>1. CASE x \notin Goroutines \X Nat
      BY <2>0, <2>1 DEF Held
    <2>2. ASSUME NEW h \in Goroutines, NEW d \in Nat, x = <<h, d>>
          PROVE  x \in Held(s)' <=> IF x = TopAt(g) THEN f.at = s /\ f.guarded ELSE x \in Held(s)
      <3>0. x[1] = h /\ x[2] = d /\ x \in Goroutines \X Nat
        BY <2>2
      <3>1. /\ x \in Held(s) <=> d \in 1..Len(stack[h]) /\ FromBottom(h, d).at = s
                                                        /\ FromBottom(h, d).guarded
            /\ x \in Held(s)' <=> d \in 1..Len(stack'[h]) /\ FromBottom(h, d)'.at = s
                                                          /\ FromBottom(h, d)'.guarded
        BY <3>0 DEF Held
      <3>2. CASE h # g
        BY <1>3, <2>2, <3>1, <3>2 DEF FromBottom, TopAt
      <3>3. CASE h = g /\ d = Len(stack[g])
        <4>1. FromBottom(g, d)' = f
          BY <1>1, <1>4, <3>3 DEF FromBottom
        <4>2. d \in 1..Len(stack'[h]) /\ x = TopAt(g)
          BY <1>1, <1>4, <2>2, <3>3 DEF TopAt
        <4>3. QED
          BY <3>1, <3>3, <4>1, <4>2
      <3>4. CASE h = g /\ d \in 1..(Len(stack[g]) - 1)
        <4>1. Len(stack[g]) + 1 - d \in 2..Len(stack[g])
          BY <1>1, <3>4
        <4>2. FromBottom(g, d)' = FromBottom(g, d)
          BY <1>4, <4>1 DEF FromBottom
        <4>3. x # TopAt(g)
          BY <1>1, <2>2, <3>4 DEF TopAt
        <4>4. QED
          BY <1>4, <3>1, <3>4, <4>2, <4>3
      <3>5. CASE h = g /\ d \notin 1..Len(stack[g])
        <4>1. x # TopAt(g)
          BY <1>1, <2>2, <3>5 DEF TopAt
        <4>2. QED
          BY <1>4, <3>1, <3>5, <4>1
      <3>6. QED
        BY <1>1, <3>2, <3>3, <3>4, <3>5
    <2>3. QED
      BY <2>1, <2>2
  <1>8. QED
    BY <1>6, <1>7

\* A nested dispatch, which is at no subscriber yet, over the frame that started it.
LEMMA Pushed ==
  ASSUME StacksAreSeqs, NEW g \in Goroutines, stack[g] # <<>>, NEW e \in Frames, NEW f \in Frames,
         stack' = [stack EXCEPT ![g] = <<e, f>> \o Tail(@)],
         e.at = None, f.at = Top(g).at, f.guarded = Top(g).guarded
  PROVE  /\ Adds(g, {e, f})
         /\ \A s \in Slots : Held(s)' = Held(s)
  <1>1. stack[g] \in Seq(Frames) /\ Len(stack[g]) \in Nat \ {0} /\ Top(g) = stack[g][1]
    BY EmptySeq, HeadTailProperties DEF StacksAreSeqs, Top
  <1>2. stack'[g] = <<e, f>> \o Tail(stack[g])
        /\ \A h \in Goroutines : h # g => stack'[h] = stack[h]
    BY DEF StacksAreSeqs
  <1>3. /\ stack'[g] \in Seq(Frames) /\ Len(stack'[g]) = Len(stack[g]) + 1
        /\ stack'[g][1] = e /\ stack'[g][2] = f
        /\ \A i \in 2..Len(stack[g]) : stack'[g][i + 1] = stack[g][i]
    BY <1>1, <1>2, PushOver
  <1>4. StacksAreSeqs'
    BY <1>2, <1>3 DEF StacksAreSeqs
  <1>5. \A i \in 1..Len(stack'[g]) : i = 1 \/ i = 2 \/ (i - 1 \in 2..Len(stack[g]) /\ (i - 1) + 1 = i)
    BY <1>1, <1>3
  <1>6. FramesAt(g)' \subseteq FramesAt(g) \cup {e, f}
    <2>1. SUFFICES ASSUME NEW i \in 1..Len(stack'[g])
                   PROVE  stack'[g][i] \in FramesAt(g) \cup {e, f}
      BY DEF FramesAt
    <2>2. CASE i - 1 \in 2..Len(stack[g]) /\ (i - 1) + 1 = i
      <3>1. stack'[g][i] = stack[g][i - 1] /\ i - 1 \in 1..Len(stack[g])
        BY <1>1, <1>3, <2>2
      <3>2. QED
        BY <3>1 DEF FramesAt
    <2>3. QED
      BY <1>3, <1>5, <2>2
  <1>7. Adds(g, {e, f})
    BY <1>2, <1>4, <1>6 DEF Adds, FramesAt
  <1>8. ASSUME NEW s \in Slots PROVE Held(s)' = Held(s)
    <2>1. SUFFICES ASSUME NEW h \in Goroutines, NEW d \in Nat
                   PROVE  <<h, d>> \in Held(s)' <=> <<h, d>> \in Held(s)
      BY DEF Held
    <2>2. /\ <<h, d>> \in Held(s) <=> d \in 1..Len(stack[h]) /\ FromBottom(h, d).at = s
                                                             /\ FromBottom(h, d).guarded
          /\ <<h, d>> \in Held(s)' <=> d \in 1..Len(stack'[h]) /\ FromBottom(h, d)'.at = s
                                                               /\ FromBottom(h, d)'.guarded
      BY DEF Held
    <2>3. CASE h # g
      BY <1>2, <2>2, <2>3 DEF FromBottom
    <2>4. CASE h = g /\ d = Len(stack[g]) + 1
      <3>0. Len(stack'[g]) = d /\ d + 1 - d = 1
        BY <1>3, <2>4
      <3>1. FromBottom(g, d)' = e
        BY <1>3, <3>0 DEF FromBottom
      <3>2. e.at # s
        BY ObserversAssumption
      <3>3. d \notin 1..Len(stack[g])
        BY <1>1, <2>4
      <3>4. QED
        BY <2>2, <2>4, <3>1, <3>2, <3>3
    <2>5. CASE h = g /\ d = Len(stack[g])
      <3>1. FromBottom(g, d)' = f /\ FromBottom(g, d) = Top(g)
        BY <1>1, <1>3, <2>5 DEF FromBottom
      <3>2. d \in 1..Len(stack[g]) /\ d \in 1..Len(stack'[g])
        BY <1>1, <1>3, <2>5
      <3>3. QED
        BY <2>2, <2>5, <3>1, <3>2
    <2>6. CASE h = g /\ d \in 1..(Len(stack[g]) - 1)
      <3>1. Len(stack[g]) + 1 - d \in 2..Len(stack[g])
            /\ (Len(stack[g]) + 1 - d) + 1 = Len(stack'[g]) + 1 - d
        BY <1>1, <1>3, <2>6
      <3>2. FromBottom(g, d)' = FromBottom(g, d)
        BY <1>3, <3>1 DEF FromBottom
      <3>3. d \in 1..Len(stack[g]) /\ d \in 1..Len(stack'[g])
        BY <1>1, <1>3, <2>6
      <3>4. QED
        BY <2>2, <2>6, <3>2, <3>3
    <2>7. CASE h = g /\ d \notin 1..Len(stack'[g])
      <3>1. d \notin 1..Len(stack[g])
        BY <1>1, <1>3, <2>7
      <3>2. QED
        BY <2>2, <2>7, <3>1
    <2>8. QED
      BY <1>1, <1>3, <2>3, <2>4, <2>5, <2>6, <2>7
  <1>9. QED
    BY <1>7, <1>8

\* A dispatch that is at no subscriber ends.
LEMMA Popped ==
  ASSUME StacksAreSeqs, NEW g \in Goroutines, stack[g] # <<>>, Top(g).at = None,
         stack' = [stack EXCEPT ![g] = Tail(@)]
  PROVE  /\ Adds(g, {})
         /\ \A s \in Slots : Held(s)' = Held(s)
  <1>1. stack[g] \in Seq(Frames) /\ Len(stack[g]) \in Nat \ {0} /\ Top(g) = stack[g][1]
    BY EmptySeq, HeadTailProperties DEF StacksAreSeqs, Top
  <1>2. stack'[g] = Tail(stack[g]) /\ \A h \in Goroutines : h # g => stack'[h] = stack[h]
    BY DEF StacksAreSeqs
  <1>3. /\ stack'[g] \in Seq(Frames) /\ Len(stack'[g]) = Len(stack[g]) - 1
        /\ \A i \in 1..Len(stack'[g]) : stack'[g][i] = stack[g][i + 1]
    <2>1. /\ Tail(stack[g]) \in Seq(Frames) /\ Len(Tail(stack[g])) = Len(stack[g]) - 1
          /\ \A i \in 1..Len(Tail(stack[g])) : Tail(stack[g])[i] = stack[g][i + 1]
      BY <1>1, HeadTailProperties
    <2>2. QED
      BY <1>2, <2>1
  <1>4. StacksAreSeqs'
    BY <1>2, <1>3 DEF StacksAreSeqs
  <1>5. FramesAt(g)' \subseteq FramesAt(g)
    BY <1>1, <1>3 DEF FramesAt
  <1>6. Adds(g, {})
    BY <1>2, <1>4, <1>5 DEF Adds, FramesAt
  <1>7. ASSUME NEW s \in Slots PROVE Held(s)' = Held(s)
    <2>1. SUFFICES ASSUME NEW h \in Goroutines, NEW d \in Nat
                   PROVE  <<h, d>> \in Held(s)' <=> <<h, d>> \in Held(s)
      BY DEF Held
    <2>2. /\ <<h, d>> \in Held(s) <=> d \in 1..Len(stack[h]) /\ FromBottom(h, d).at = s
                                                             /\ FromBottom(h, d).guarded
          /\ <<h, d>> \in Held(s)' <=> d \in 1..Len(stack'[h]) /\ FromBottom(h, d)'.at = s
                                                               /\ FromBottom(h, d)'.guarded
      BY DEF Held
    <2>3. CASE h # g
      BY <1>2, <2>2, <2>3 DEF FromBottom
    <2>4. CASE h = g /\ d = Len(stack[g])
      <3>1. FromBottom(g, d) = Top(g) /\ Top(g).at # s
        BY <1>1, <2>4, ObserversAssumption DEF FromBottom
      <3>2. d \notin 1..Len(stack'[g])
        BY <1>1, <1>3, <2>4
      <3>3. QED
        BY <2>2, <2>4, <3>1, <3>2
    <2>5. CASE h = g /\ d \in 1..(Len(stack[g]) - 1)
      <3>1. Len(stack'[g]) + 1 - d \in 1..Len(stack'[g])
            /\ (Len(stack'[g]) + 1 - d) + 1 = Len(stack[g]) + 1 - d
        BY <1>1, <1>3, <2>5
      <3>2. FromBottom(g, d)' = FromBottom(g, d)
        BY <1>3, <3>1 DEF FromBottom
      <3>3. d \in 1..Len(stack[g]) /\ d \in 1..Len(stack'[g])
        BY <1>1, <1>3, <2>5
      <3>4. QED
        BY <2>2, <2>5, <3>2, <3>3
    <2>6. CASE h = g /\ d \notin 1..Len(stack[g])
      <3>1. d \notin 1..Len(stack'[g])
        BY <1>1, <1>3, <2>6
      <3>2. QED
        BY <2>2, <2>6, <3>1
    <2>7. QED
      BY <1>1, <2>3, <2>4, <2>5, <2>6
  <1>8. QED
    BY <1>6, <1>7

\* A goroutine that is in no dispatch begins one.
LEMMA Opened ==
  ASSUME StacksAreSeqs, NEW g \in Goroutines, stack[g] = <<>>, NEW f \in Frames, f.at = None,
         stack' = [stack EXCEPT ![g] = <<f>>]
  PROVE  /\ Adds(g, {f})
         /\ \A s \in Slots : Held(s)' = Held(s)
  <1>1. stack'[g] = <<f>> /\ \A h \in Goroutines : h # g => stack'[h] = stack[h]
    BY DEF StacksAreSeqs
  <1>2. stack'[g] \in Seq(Frames) /\ Len(stack'[g]) = 1 /\ stack'[g][1] = f /\ Len(stack[g]) = 0
    BY <1>1
  <1>3. Adds(g, {f})
    <2>1. StacksAreSeqs'
      BY <1>1, <1>2 DEF StacksAreSeqs
    <2>2. QED
      BY <1>1, <1>2, <2>1 DEF Adds, FramesAt
  <1>4. ASSUME NEW s \in Slots PROVE Held(s)' = Held(s)
    <2>1. SUFFICES ASSUME NEW h \in Goroutines, NEW d \in Nat
                   PROVE  <<h, d>> \in Held(s)' <=> <<h, d>> \in Held(s)
      BY DEF Held
    <2>2. /\ <<h, d>> \in Held(s) <=> d \in 1..Len(stack[h]) /\ FromBottom(h, d).at = s
                                                             /\ FromBottom(h, d).guarded
          /\ <<h, d>> \in Held(s)' <=> d \in 1..Len(stack'[h]) /\ FromBottom(h, d)'.at = s
                                                               /\ FromBottom(h, d)'.guarded
      BY DEF Held
    <2>3. CASE h # g
      BY <1>1, <2>2, <2>3 DEF FromBottom
    <2>4. CASE h = g
      <3>1. d \notin 1..Len(stack[h])
        BY <1>2, <2>4
      <3>2. d \in 1..Len(stack'[h]) => FromBottom(h, d)' = f
        BY <1>2, <2>4 DEF FromBottom
      <3>3. f.at # s
        BY ObserversAssumption
      <3>4. QED
        BY <2>2, <3>1, <3>2, <3>3
    <2>5. QED
      BY <2>3, <2>4
  <1>5. QED
    BY <1>3, <1>4

-----------------------------------------------------------------------------
(* The words of the slots                                                  *)

\* What a step does to the words and to the callbacks they count: nothing, retire a
\* slot, count a callback in while the slot is not retired, or count one out.
SameHeld == \A s \in Slots : Held(s)' = Held(s)
Rests == SameHeld /\ UNCHANGED <<count, retired, drained>>
Retires == SameHeld /\ \E s \in Slots : ~retired[s] /\ Retire(s)
Enters == \E s \in Slots, p \in Goroutines \X Nat :
    /\ ~retired[s] /\ p \notin Held(s) /\ Held(s)' = Held(s) \cup {p}
    /\ \A r \in Slots : r # s => Held(r)' = Held(r)
    /\ count' = [count EXCEPT ![s] = @ + 1] /\ UNCHANGED <<retired, drained>>
Leaves == \E s \in Slots, p \in Goroutines \X Nat :
    /\ p \in Held(s) /\ Held(s)' = Held(s) \ {p}
    /\ \A r \in Slots : r # s => Held(r)' = Held(r)
    /\ Leave(s) /\ UNCHANGED retired
WordEffect == Rests \/ Retires \/ Enters \/ Leaves

\* What holds of the words after such a step, and that a slot is never revived.
WordsKept ==
    /\ CountsExact' /\ DrainedIffIdle'
    /\ count' \in [Slots -> Nat] /\ retired' \in [Slots -> BOOLEAN]
    /\ drained' \in [Slots -> BOOLEAN]
    /\ \A s \in Slots : (retired[s] => retired'[s]) /\ (drained[s] => drained'[s])

\* The count stays exact and drained is closed exactly when a retired slot is idle.
LEMMA WordStep ==
  ASSUME TypeOK, CountsExact, DrainedIffIdle, WordEffect
  PROVE  WordsKept
  <1>1. CASE Rests
    BY <1>1 DEF Rests, SameHeld, TypeOK, CountsExact, DrainedIffIdle, WordsKept
  <1>2. CASE Retires
    <2>1. PICK s \in Slots : ~retired[s] /\ Retire(s)
      BY <1>2 DEF Retires
    <2>2. /\ retired' = [retired EXCEPT ![s] = TRUE] /\ count' = count
          /\ drained' = [drained EXCEPT ![s] = count[s] = 0]
      BY <2>1 DEF Retire
    <2>3. CountsExact'
      BY <1>2, <2>2 DEF Retires, SameHeld, CountsExact
    <2>4. DrainedIffIdle'
      BY <2>2 DEF DrainedIffIdle, TypeOK
    <2>5. ~drained[s]
      BY <2>1 DEF DrainedIffIdle
    <2>6. QED
      BY <2>2, <2>3, <2>4, <2>5 DEF WordsKept, TypeOK
  <1>3. CASE Enters
    <2>1. PICK s \in Slots, p \in Goroutines \X Nat :
             /\ ~retired[s] /\ p \notin Held(s) /\ Held(s)' = Held(s) \cup {p}
             /\ \A r \in Slots : r # s => Held(r)' = Held(r)
             /\ count' = [count EXCEPT ![s] = @ + 1] /\ UNCHANGED <<retired, drained>>
      BY <1>3 DEF Enters
    <2>2. IsFiniteSet(Held(s)') /\ Cardinality(Held(s)') = Cardinality(Held(s)) + 1
      BY <2>1, FS_AddElement DEF CountsExact
    <2>3. CountsExact'
      BY <2>1, <2>2 DEF CountsExact, TypeOK
    <2>4. count' \in [Slots -> Nat]
      BY <2>1 DEF TypeOK
    <2>5. DrainedIffIdle'
      BY <2>1 DEF DrainedIffIdle, TypeOK
    <2>6. QED
      BY <2>1, <2>3, <2>4, <2>5 DEF WordsKept, TypeOK
  <1>4. CASE Leaves
    <2>1. PICK s \in Slots, p \in Goroutines \X Nat :
             /\ p \in Held(s) /\ Held(s)' = Held(s) \ {p}
             /\ \A r \in Slots : r # s => Held(r)' = Held(r)
             /\ Leave(s) /\ UNCHANGED retired
      BY <1>4 DEF Leaves
    <2>2. IsFiniteSet(Held(s)') /\ Cardinality(Held(s)') = Cardinality(Held(s)) - 1
      BY <2>1, FS_RemoveElement DEF CountsExact
    <2>3. count[s] \in Nat \ {0}
      <3>1. Held(s) # {} /\ IsFiniteSet(Held(s)) /\ count[s] = Cardinality(Held(s))
        BY <2>1 DEF CountsExact
      <3>2. QED
        BY <3>1, FS_EmptySet, FS_CardinalityType
    <2>4. count' = [count EXCEPT ![s] = @ - 1]
          /\ drained' = [drained EXCEPT ![s] = @ \/ (retired[s] /\ count[s] = 1)]
      BY <2>1 DEF Leave
    <2>5. CountsExact'
      BY <2>1, <2>2, <2>4 DEF CountsExact, TypeOK
    <2>6. count' \in [Slots -> Nat] /\ drained' \in [Slots -> BOOLEAN]
      BY <2>3, <2>4 DEF TypeOK
    <2>7. DrainedIffIdle'
      BY <2>1, <2>3, <2>4 DEF DrainedIffIdle, TypeOK
    <2>8. QED
      BY <2>1, <2>4, <2>5, <2>6, <2>7 DEF WordsKept, TypeOK
  <1>5. QED
    BY <1>1, <1>2, <1>3, <1>4 DEF WordEffect

\* A step that leaves the stacks alone leaves the frames and the counted callbacks.
LEMMA SameStack ==
  ASSUME StacksAreSeqs, stack' = stack
  PROVE  SameHeld /\ StacksAreSeqs' /\ \A g \in Goroutines : FramesAt(g)' = FramesAt(g)
  BY DEF SameHeld, Held, FromBottom, FramesAt, StacksAreSeqs

\* The frames stay good when the new ones are, slots are not revived and finishClose
\* retires none.
LEMMA FramesKept ==
  ASSUME FramesOK, NEW g \in Goroutines, NEW N, Adds(g, N), active' = active,
         \A s \in Slots : retired[s] => retired'[s],
         \A f \in N : GoodFrame(g, f)'
  PROVE  FramesOK'
  <1>1. SUFFICES ASSUME NEW h \in Goroutines, NEW f, f \in FramesAt(h)' PROVE GoodFrame(h, f)'
    BY DEF FramesOK
  <1>2. ASSUME f \in FramesAt(h) PROVE GoodFrame(h, f)'
    <2>1. GoodFrame(h, f)
      BY <1>2 DEF FramesOK
    <2>2. f.pc = "unlist" => f.at \in Slots
      BY <2>1 DEF GoodFrame, Frames
    <2>3. QED
      BY <2>1, <2>2 DEF GoodFrame
  <1>3. CASE h # g
    BY <1>1, <1>2, <1>3 DEF Adds
  <1>4. CASE h = g
    BY <1>1, <1>2, <1>4 DEF Adds
  <1>5. QED
    BY <1>3, <1>4

-----------------------------------------------------------------------------
(* The steps                                                               *)

\* A step of a dispatch keeps everything, once its effect on the words is known and
\* the frames it leaves are good: whatever else it does is to shorten the list.
LEMMA DispatchKeeps ==
  ASSUME IInv, NEW g \in Goroutines, NEW N, Adds(g, N), WordEffect,
         \A f \in N : GoodFrame(g, f)',
         UNCHANGED <<used, served, closing, unit, detaching, finish>>,
         list' \subseteq list, telemetry' \in {telemetry, None},
         stack[g] # <<>> \/ (g \in Owners => unit[g] = "live")
  PROVE  IInv'
  <1> USE DEF IInv
  <1>1. WordsKept
    BY WordStep
  <1>2. FramesOK'
    BY <1>1, FramesKept DEF finish, WordsKept
  <1>3. StacksAreSeqs'
    BY DEF Adds
  <1>4. TypeOK'
    <2>1. \A h \in Goroutines : \A i \in DOMAIN stack'[h] : stack'[h][i] \in Frames
      BY <1>3 DEF StacksAreSeqs
    <2>2. QED
      BY <1>1, <2>1 DEF TypeOK, WordsKept, finish
  <1>5. OwnersLive'
    BY DEF OwnersLive, Adds, Goroutines
  <1>6. AfterOwners' /\ RetiredOnce' /\ SweptAfterSwap'
    BY <1>1 DEF AfterOwners, RetiredOnce, SweptAfterSwap, WordsKept, TypeOK, finish
  <1>7. AfterDrain'
    BY <1>1 DEF AfterDrain, WordsKept, TypeOK, finish
  <1>8. QED
    BY <1>1, <1>2, <1>3, <1>4, <1>5, <1>6, <1>7 DEF WordsKept

\* The same for a step outside the dispatches, which retires at most one slot.
LEMMA StackRests ==
  ASSUME IInv, stack' = stack,
         UNCHANGED <<count, retired, drained>> \/ \E s \in Slots : ~retired[s] /\ Retire(s)
  PROVE  WordsKept /\ StacksAreSeqs' /\ (active' = active => FramesOK')
  <1> USE DEF IInv
  <1>1. SameHeld /\ StacksAreSeqs' /\ \A g \in Goroutines : FramesAt(g)' = FramesAt(g)
    BY SameStack
  <1>2. WordsKept
    BY <1>1, WordStep DEF WordEffect, Rests, Retires
  <1>3. ASSUME active' = active PROVE FramesOK'
    <2>1. SUFFICES ASSUME NEW g \in Goroutines, NEW f \in FramesAt(g) PROVE GoodFrame(g, f)'
      BY <1>1 DEF FramesOK
    <2>2. GoodFrame(g, f)
      BY <2>1 DEF FramesOK
    <2>3. f.pc = "unlist" => f.at \in Slots
      BY <2>2 DEF GoodFrame, Frames
    <2>4. QED
      BY <1>2, <1>3, <2>2, <2>3 DEF GoodFrame, WordsKept
  <1>4. QED
    BY <1>1, <1>2, <1>3

\* An empty registry has nothing to count.
LEMMA InitIInv == Init => IInv
  <1> SUFFICES ASSUME Init PROVE IInv
    OBVIOUS
  <1>1. \A g \in Goroutines : stack[g] = <<>> /\ Len(stack[g]) = 0
    BY DEF Init
  <1>2. StacksAreSeqs
    BY DEF Init, StacksAreSeqs
  <1>3. \A g \in Goroutines : FramesAt(g) = {}
    BY <1>1 DEF FramesAt
  <1>4. \A s \in Slots : Held(s) = {}
    BY <1>1 DEF Held
  <1>5. CountsExact
    BY <1>4, FS_EmptySet DEF CountsExact, Init
  <1>6. TypeOK
    <2>1. \A g \in Goroutines : \A i \in DOMAIN stack[g] : stack[g][i] \in Frames
      BY <1>2 DEF StacksAreSeqs
    <2>2. QED
      BY <2>1 DEF Init, TypeOK
  <1>7. QED
    BY <1>1, <1>2, <1>3, <1>5, <1>6
    DEF IInv, Init, FramesOK, OwnersLive, DrainedIffIdle, AfterOwners, AfterDrain, RetiredOnce,
        SweptAfterSwap, Goroutines

\* Registration, owners, the begin of the close and the application's detach.
LEMMA RegistryStep ==
  ASSUME IInv,
         \/ BeginClose
         \/ \E s \in Slots : Use(s) \/ Detach(s) \/ DetachUnlists(s)
         \/ \E g \in Owners : OwnerStarts(g) \/ OwnerLeaves(g)
  PROVE  IInv'
  <1> USE DEF IInv
  <1>1. CASE BeginClose
    <2>1. stack' = stack /\ active' = active /\ UNCHANGED <<count, retired, drained>>
      BY <1>1 DEF BeginClose, words, finish
    <2>2. WordsKept /\ StacksAreSeqs' /\ FramesOK'
      BY <2>1, StackRests
    <2>3. TypeOK'
      BY <1>1, <2>2 DEF BeginClose, TypeOK, words, finish
    <2>4. QED
      BY <1>1, <2>1, <2>2, <2>3
      DEF BeginClose, finish, OwnersLive, AfterOwners, AfterDrain, RetiredOnce, SweptAfterSwap,
          WordsKept
  <1>2. ASSUME NEW s \in Slots, Use(s) PROVE IInv'
    <2>1. stack' = stack /\ active' = active /\ UNCHANGED <<count, retired, drained>>
      BY <1>2 DEF Use, words, finish
    <2>2. WordsKept /\ StacksAreSeqs' /\ FramesOK'
      BY <2>1, StackRests
    <2>3. TypeOK'
      BY <1>2, <2>2 DEF Use, TypeOK, words, finish
    <2>4. QED
      BY <1>2, <2>1, <2>2, <2>3
      DEF Use, finish, OwnersLive, AfterOwners, AfterDrain, RetiredOnce, SweptAfterSwap,
          WordsKept
  <1>3. ASSUME NEW s \in Slots, Detach(s) PROVE IInv'
    <2>1. stack' = stack /\ active' = active /\ ~retired[s] /\ Retire(s)
      BY <1>3 DEF Detach, finish
    <2>2. WordsKept /\ StacksAreSeqs' /\ FramesOK'
      BY <2>1, StackRests
    <2>3. TypeOK'
      BY <1>3, <2>2 DEF Detach, TypeOK, hubState, finish, WordsKept
    <2>4. OwnersLive' /\ AfterOwners' /\ SweptAfterSwap'
      BY <1>3 DEF Detach, hubState, finish, OwnersLive, AfterOwners, SweptAfterSwap
    <2>5. AfterDrain'
      BY <1>3, <2>2 DEF Detach, hubState, finish, AfterDrain, WordsKept, TypeOK
    <2>6. RetiredOnce'
      <3>1. retired'[s] /\ s \notin active
        BY <2>1 DEF Retire, RetiredOnce, TypeOK
      <3>2. QED
        BY <1>3, <2>2, <3>1 DEF Detach, finish, RetiredOnce, WordsKept, TypeOK
    <2>7. QED
      BY <2>2, <2>3, <2>4, <2>5, <2>6 DEF WordsKept
  <1>4. ASSUME NEW s \in Slots, DetachUnlists(s) PROVE IInv'
    <2>1. stack' = stack /\ active' = active /\ UNCHANGED <<count, retired, drained>>
      BY <1>4 DEF DetachUnlists, words, finish
    <2>2. WordsKept /\ StacksAreSeqs' /\ FramesOK'
      BY <2>1, StackRests
    <2>3. TypeOK'
      BY <1>4, <2>2 DEF DetachUnlists, Unlist, TypeOK, words, finish
    <2>4. QED
      BY <1>4, <2>1, <2>2, <2>3
      DEF DetachUnlists, finish, OwnersLive, AfterOwners, AfterDrain, RetiredOnce, SweptAfterSwap,
          WordsKept
  <1>5. ASSUME NEW g \in Owners, OwnerStarts(g) PROVE IInv'
    <2>1. stack' = stack /\ active' = active /\ UNCHANGED <<count, retired, drained>>
      BY <1>5 DEF OwnerStarts, words, finish
    <2>2. WordsKept /\ StacksAreSeqs' /\ FramesOK'
      BY <2>1, StackRests
    <2>3. TypeOK'
      BY <1>5, <2>2 DEF OwnerStarts, TypeOK, words, finish
    <2>4. OwnersLive' /\ AfterOwners'
      BY <1>5 DEF OwnerStarts, finish, OwnersLive, AfterOwners, TypeOK
    <2>5. QED
      BY <1>5, <2>1, <2>2, <2>3, <2>4
      DEF OwnerStarts, finish, AfterDrain, RetiredOnce, SweptAfterSwap, WordsKept
  <1>6. ASSUME NEW g \in Owners, OwnerLeaves(g) PROVE IInv'
    <2>1. stack' = stack /\ active' = active /\ UNCHANGED <<count, retired, drained>>
      BY <1>6 DEF OwnerLeaves, words, finish
    <2>2. WordsKept /\ StacksAreSeqs' /\ FramesOK'
      BY <2>1, StackRests
    <2>3. TypeOK'
      BY <1>6, <2>2 DEF OwnerLeaves, TypeOK, words, finish
    <2>4. OwnersLive' /\ AfterOwners'
      BY <1>6 DEF OwnerLeaves, finish, OwnersLive, AfterOwners, TypeOK
    <2>5. QED
      BY <1>6, <2>1, <2>2, <2>3, <2>4
      DEF OwnerLeaves, finish, AfterDrain, RetiredOnce, SweptAfterSwap, WordsKept
  <1> HIDE DEF IInv
  <1>7. QED
    BY <1>1, <1>2, <1>3, <1>4, <1>5, <1>6

\* The steps of finishClose.
LEMMA CloseStep ==
  ASSUME IInv, FinishStep
  PROVE  IInv'
  <1> USE DEF IInv
  <1>1. CASE FinishSwap
    <2>1. stack' = stack /\ active' = active /\ UNCHANGED <<count, retired, drained>>
      BY <1>1 DEF FinishSwap, words
    <2>2. WordsKept /\ StacksAreSeqs' /\ FramesOK'
      BY <2>1, StackRests
    <2>3. swept = {} /\ active = {}
      BY <1>1 DEF FinishSwap, SweptAfterSwap, TypeOK
    <2>4. TypeOK'
      BY <1>1, <2>2, <2>3 DEF FinishSwap, TypeOK, words
    <2>5. QED
      BY <1>1, <2>1, <2>2, <2>4
      DEF FinishSwap, OwnersLive, AfterOwners, AfterDrain, RetiredOnce, SweptAfterSwap, WordsKept
  <1>2. ASSUME NEW s \in Slots, FinishRetires(s) PROVE IInv'
    <2>1. CASE retired[s]
      <3>1. stack' = stack /\ active' = active /\ UNCHANGED <<count, retired, drained>>
        BY <1>2, <2>1 DEF FinishRetires, words
      <3>2. WordsKept /\ StacksAreSeqs' /\ FramesOK'
        BY <3>1, StackRests
      <3>3. TypeOK'
        BY <1>2, <3>1, <3>2 DEF FinishRetires, TypeOK, hubState
      <3>4. QED
        BY <1>2, <3>1, <3>2, <3>3
        DEF FinishRetires, hubState, OwnersLive, AfterOwners, AfterDrain, RetiredOnce,
            SweptAfterSwap, WordsKept
    <2>2. CASE ~retired[s]
      <3>1. stack' = stack /\ ~retired[s] /\ Retire(s) /\ active' = active \cup {s}
        BY <1>2, <2>2 DEF FinishRetires
      <3>2. WordsKept /\ StacksAreSeqs'
        BY <3>1, StackRests
      <3>3. FramesOK'
        <4>1. SUFFICES ASSUME NEW g \in Goroutines, NEW f \in FramesAt(g) PROVE GoodFrame(g, f)'
          BY <3>1, SameStack DEF FramesOK
        <4>2. GoodFrame(g, f)
          BY <4>1 DEF FramesOK
        <4>3. f.pc = "unlist" => f.at \in Slots /\ f.at # s
          BY <3>1, <4>2 DEF GoodFrame, Frames
        <4>4. QED
          BY <3>1, <3>2, <4>2, <4>3 DEF GoodFrame, WordsKept
      <3>4. TypeOK'
        BY <1>2, <3>1, <3>2 DEF FinishRetires, TypeOK, hubState, WordsKept
      <3>5. OwnersLive' /\ AfterOwners' /\ AfterDrain' /\ SweptAfterSwap'
        BY <1>2, <3>1
        DEF FinishRetires, hubState, OwnersLive, AfterOwners, AfterDrain, SweptAfterSwap
      <3>6. RetiredOnce'
        <4>1. retired'[s] /\ s \notin detaching
          BY <3>1 DEF Retire, RetiredOnce, TypeOK
        <4>2. QED
          BY <1>2, <3>1, <3>2, <4>1 DEF FinishRetires, RetiredOnce, WordsKept, TypeOK
      <3>7. QED
        BY <3>2, <3>3, <3>4, <3>5, <3>6 DEF WordsKept
    <2>3. QED
      BY <2>1, <2>2
  <1>3. ASSUME FinishWaits \/ FinishDone \/ \E s \in Slots : FinishTells(s) PROVE IInv'
    <2>1. stack' = stack /\ active' = active /\ UNCHANGED <<count, retired, drained>>
      BY <1>3 DEF FinishWaits, FinishDone, FinishTells, words
    <2>2. WordsKept /\ StacksAreSeqs' /\ FramesOK'
      BY <2>1, StackRests
    <2>3. TypeOK'
      BY <1>3, <2>2 DEF FinishWaits, FinishDone, FinishTells, TypeOK, hubState, words
    <2>4. AfterDrain' /\ AfterOwners' /\ RetiredOnce' /\ SweptAfterSwap' /\ OwnersLive'
      BY <1>3, <2>1
      DEF FinishWaits, FinishDone, FinishTells, hubState, AfterDrain, AfterOwners, RetiredOnce,
          SweptAfterSwap, OwnersLive
    <2>5. QED
      BY <2>2, <2>3, <2>4 DEF WordsKept
  <1> HIDE DEF IInv
  <1>4. QED
    BY <1>1, <1>2, <1>3 DEF FinishStep

\* A goroutine at its innermost frame: what is known of that frame.
LEMMA AtTop ==
  ASSUME IInv, NEW g \in Goroutines, NEW l, Running(g, l)
  PROVE  /\ stack[g] # <<>> /\ Top(g).pc = l /\ GoodFrame(g, Top(g))
         /\ l # "visit" => Top(g).at \in Slots
         /\ TopAt(g) \in Goroutines \X Nat
         /\ \A s : TopAt(g) \in Held(s) <=> Top(g).at = s /\ Top(g).guarded
  <1>1. stack[g] # <<>> /\ Top(g).pc = l
    BY DEF Running
  <1>2. GoodFrame(g, Top(g))
    BY <1>1, TopFrame DEF IInv, FramesOK
  <1>3. l # "visit" => Top(g).at \in Slots
    BY <1>1, <1>2 DEF GoodFrame, Frames
  <1>4. QED
    BY <1>1, <1>2, <1>3, TopFrame DEF IInv

\* A callback ends: its frame leaves the subscriber, and its count if it has one.
LEMMA VisitDoneStep ==
  ASSUME IInv, NEW g \in Goroutines, NEW l \in {"call", "telling"}, Running(g, l), VisitDone(g),
         UNCHANGED <<hubState, retired, detaching, finish>>
  PROVE  IInv'
  <1> DEFINE f == [Top(g) EXCEPT !.at = None, !.pc = "visit"]
  <1>1. /\ stack[g] # <<>> /\ GoodFrame(g, Top(g)) /\ Top(g).at \in Slots
        /\ TopAt(g) \in Goroutines \X Nat
        /\ \A s : TopAt(g) \in Held(s) <=> Top(g).at = s /\ Top(g).guarded
    BY AtTop
  <1>2. f \in Frames /\ f.at = None /\ f.pc = "visit" /\ f.guarded = Top(g).guarded
    BY <1>1 DEF GoodFrame, Frames
  <1>3. SetTop(g, f)
    BY DEF VisitDone
  <1> HIDE DEF f
  <1>4. /\ Adds(g, {f})
        /\ \A s, x : x \in Held(s)' <=>
               IF x = TopAt(g) THEN f.at = s /\ f.guarded ELSE x \in Held(s)
    BY <1>1, <1>2, <1>3, TopReplaced DEF IInv
  <1>5. \A s \in Slots : f.at # s
    BY <1>2, ObserversAssumption
  <1>6. WordEffect
    <2>1. CASE Top(g).guarded
      <3>0. PICK r \in Slots : r = Top(g).at
        BY <1>1
      <3>1. Leave(r)
        BY <2>1, <3>0 DEF VisitDone
      <3>2. \A s \in Slots : s # r => Held(s)' = Held(s)
        BY <1>1, <1>4, <1>5, <3>0, ZenonT(30)
      <3>3. TopAt(g) \in Held(r) /\ Held(r)' = Held(r) \ {TopAt(g)}
        BY <1>1, <1>4, <1>5, <2>1, <3>0
      <3>4. Leaves
        BY <1>1, <3>1, <3>2, <3>3 DEF Leaves
      <3>5. QED
        BY <3>4 DEF WordEffect
    <2>2. CASE ~Top(g).guarded
      <3>1. UNCHANGED <<count, drained>>
        BY <2>2 DEF VisitDone
      <3>2. SameHeld
        BY <1>1, <1>4, <1>5, <2>2 DEF SameHeld
      <3>3. QED
        BY <3>1, <3>2 DEF WordEffect, Rests
    <2>3. QED
      BY <2>1, <2>2
  <1>7. \A e \in {f} : GoodFrame(g, e)'
    BY <1>1, <1>2 DEF GoodFrame
  <1>8. QED
    BY <1>1, <1>4, <1>6, <1>7, DispatchKeeps DEF hubState

\* The innermost frame moves without a change of its subscriber or its count.
LEMMA MoveStep ==
  ASSUME IInv, NEW g \in Goroutines, NEW f, stack[g] # <<>>, SetTop(g, f),
         \A e \in {f} : GoodFrame(g, e)', f.at = Top(g).at, f.guarded = Top(g).guarded,
         \/ UNCHANGED <<count, retired, drained>>
         \/ \E s \in Slots : ~retired[s] /\ Retire(s),
         UNCHANGED <<used, served, closing, unit, detaching, finish>>,
         list' \subseteq list, telemetry' \in {telemetry, None}
  PROVE  IInv'
  <1>1. f \in Frames
    BY DEF GoodFrame
  <1>2. /\ Adds(g, {f})
        /\ \A s, x : x \in Held(s)' <=>
               IF x = TopAt(g) THEN f.at = s /\ f.guarded ELSE x \in Held(s)
    BY <1>1, TopReplaced DEF IInv
  <1>3. SameHeld
    <2>1. \A s : TopAt(g) \in Held(s) <=> Top(g).at = s /\ Top(g).guarded
      BY TopFrame DEF IInv
    <2>2. \A s \in Slots : \A x : x \in Held(s)' <=> x \in Held(s)
      BY <1>2, <2>1
    <2>3. \A s \in Slots : Held(s)' = Held(s)
      BY <2>2
    <2>4. QED
      BY <2>3 DEF SameHeld
  <1>4. WordEffect
    BY <1>3 DEF WordEffect, Rests, Retires
  <1>5. QED
    BY <1>2, <1>4, DispatchKeeps

\* The callbacks, their panics and the nested notifications.
LEMMA CallbackStep ==
  ASSUME IInv, NEW g \in Goroutines, Dispatch(g) \/ DispatchStep(g) \/ Panic(g)
  PROVE  IInv'
  <1>1. CASE Dispatch(g)
    <2> DEFINE f == Dispatching(list, g \in Guests)
    <2>1. f \in Frames /\ f.at = None /\ f.pc = "visit" /\ (f.guarded \/ g \in Owners)
      <3>1. list \in SUBSET Slots /\ (g \in Guests) \in BOOLEAN /\ (g \in Guests \/ g \in Owners)
        BY DEF IInv, TypeOK, Goroutines
      <3>2. \A b \in BOOLEAN : LET e == Dispatching(list, b) IN
                e \in Frames /\ e.at = None /\ e.pc = "visit" /\ e.guarded = b
        BY <3>1 DEF Dispatching, Frames
      <3>3. QED
        BY <3>1, <3>2
    <2>2. stack[g] = <<>> /\ stack' = [stack EXCEPT ![g] = <<f>>]
      BY <1>1 DEF Dispatch
    <2> HIDE DEF f
    <2>3. Adds(g, {f}) /\ SameHeld
      BY <2>1, <2>2, Opened DEF IInv, SameHeld
    <2>4. WordEffect
      BY <1>1, <2>3 DEF WordEffect, Rests, Dispatch, words
    <2>5. \A e \in {f} : GoodFrame(g, e)'
      BY <2>1 DEF GoodFrame
    <2>6. QED
      BY <1>1, <2>3, <2>4, <2>5, DispatchKeeps DEF Dispatch, hubState
  <1>2. ASSUME NEW s \in Slots, Visit(g, s) PROVE IInv'
    <2> DEFINE f == [Top(g) EXCEPT !.todo = @ \ {s}, !.at = s, !.pc = "call"]
    <2>1. /\ stack[g] # <<>> /\ GoodFrame(g, Top(g)) /\ Top(g).at = None /\ ~retired[s]
          /\ TopAt(g) \in Goroutines \X Nat
          /\ \A r : TopAt(g) \in Held(r) <=> Top(g).at = r /\ Top(g).guarded
      BY <1>2, AtTop DEF Visit, GoodFrame
    <2>2. f \in Frames /\ f.at = s /\ f.pc = "call" /\ f.guarded = Top(g).guarded
      BY <2>1 DEF GoodFrame, Frames
    <2>3. SetTop(g, f)
      BY <1>2 DEF Visit
    <2> HIDE DEF f
    <2>4. /\ Adds(g, {f})
          /\ \A r, x : x \in Held(r)' <=>
                 IF x = TopAt(g) THEN f.at = r /\ f.guarded ELSE x \in Held(r)
      BY <2>1, <2>2, <2>3, TopReplaced DEF IInv
    <2>5. \A r \in Slots : TopAt(g) \notin Held(r)
      BY <2>1, ObserversAssumption
    <2>6. WordEffect
      <3>1. CASE Top(g).guarded
        <4>1. Held(s)' = Held(s) \cup {TopAt(g)} /\ \A r \in Slots : r # s => Held(r)' = Held(r)
          BY <2>2, <2>4, <2>5, <3>1
        <4>2. count' = [count EXCEPT ![s] = @ + 1] /\ UNCHANGED <<retired, drained>>
          BY <1>2, <3>1 DEF Visit
        <4>3. Enters
          BY <2>1, <2>5, <4>1, <4>2 DEF Enters
        <4>4. QED
          BY <4>3 DEF WordEffect
      <3>2. CASE ~Top(g).guarded
        <4>1. SameHeld
          <5>1. \A r \in Slots : \A x : x \in Held(r)' <=> x \in Held(r)
            BY <2>2, <2>4, <2>5, <3>2
          <5>2. \A r \in Slots : Held(r)' = Held(r)
            BY <5>1
          <5>3. QED
            BY <5>2 DEF SameHeld
        <4>2. QED
          BY <1>2, <3>2, <4>1 DEF WordEffect, Rests, Visit
      <3>3. QED
        BY <3>1, <3>2
    <2>7. \A e \in {f} : GoodFrame(g, e)'
      BY <2>1, <2>2, ObserversAssumption DEF GoodFrame
    <2>8. QED
      BY <1>2, <2>1, <2>4, <2>6, <2>7, DispatchKeeps DEF Visit, hubState
  <1>3. ASSUME NEW s \in Slots, Skip(g, s) PROVE IInv'
    <2> DEFINE f == [Top(g) EXCEPT !.todo = @ \ {s}]
    <2>1. stack[g] # <<>> /\ GoodFrame(g, Top(g)) /\ Top(g).pc = "visit" /\ SetTop(g, f)
      BY <1>3, AtTop DEF Skip
    <2>2. /\ f \in Frames /\ f.at = Top(g).at /\ f.pc = "visit" /\ f.guarded = Top(g).guarded
          /\ f.at = None
      BY <2>1 DEF GoodFrame, Frames
    <2> HIDE DEF f
    <2>3. \A e \in {f} : GoodFrame(g, e)'
      BY <2>1, <2>2 DEF GoodFrame
    <2>4. QED
      BY <1>3, <2>1, <2>2, <2>3, MoveStep DEF Skip, hubState, words
  <1>4. CASE Return(g)
    BY <1>4, VisitDoneStep DEF Return
  <1>5. CASE Panic(g)
    <2>1. PICK s \in Slots : s = Top(g).at /\ stack[g] # <<>> /\ GoodFrame(g, Top(g))
      BY <1>5, AtTop DEF Panic
    <2>2. CASE retired[s]
      <3> DEFINE f == [Top(g) EXCEPT !.pc = "tell"]
      <3>1. SetTop(g, f) /\ UNCHANGED words
        BY <1>5, <2>1, <2>2 DEF Panic
      <3>2. /\ f \in Frames /\ f.at = Top(g).at /\ f.pc = "tell" /\ f.guarded = Top(g).guarded
            /\ f.at # None
        BY <2>1, ObserversAssumption DEF GoodFrame, Frames
      <3> HIDE DEF f
      <3>3. \A e \in {f} : GoodFrame(g, e)'
        BY <2>1, <3>2 DEF GoodFrame
      <3>4. QED
        BY <1>5, <2>1, <3>1, <3>2, <3>3, MoveStep DEF Panic, hubState, words
    <2>3. CASE ~retired[s]
      <3> DEFINE f == [Top(g) EXCEPT !.pc = "unlist"]
      <3>1. SetTop(g, f) /\ Retire(s)
        BY <1>5, <2>1, <2>3 DEF Panic
      <3>2. /\ f \in Frames /\ f.at = Top(g).at /\ f.pc = "unlist" /\ f.guarded = Top(g).guarded
            /\ f.at = s /\ f.at # None
        BY <2>1, ObserversAssumption DEF GoodFrame, Frames
      <3> HIDE DEF f
      <3>3. retired'[s] /\ s \notin active /\ active' = active
        BY <1>5, <2>3, <3>1 DEF Panic, Retire, finish, IInv, RetiredOnce, TypeOK
      <3>4. \A e \in {f} : GoodFrame(g, e)'
        BY <2>1, <3>2, <3>3 DEF GoodFrame
      <3>5. QED
        BY <1>5, <2>1, <2>3, <3>1, <3>2, <3>4, MoveStep DEF Panic, hubState
    <2>4. QED
      BY <2>2, <2>3
  <1>6. CASE PanicUnlists(g)
    <2> DEFINE f == [Top(g) EXCEPT !.pc = "tell"]
    <2>1. stack[g] # <<>> /\ GoodFrame(g, Top(g)) /\ Top(g).at \in Slots /\ SetTop(g, f)
      BY <1>6, AtTop DEF PanicUnlists
    <2>2. /\ f \in Frames /\ f.at = Top(g).at /\ f.pc = "tell" /\ f.guarded = Top(g).guarded
          /\ f.at # None
      BY <2>1, ObserversAssumption DEF GoodFrame, Frames
    <2> HIDE DEF f
    <2>3. \A e \in {f} : GoodFrame(g, e)'
      BY <2>1, <2>2 DEF GoodFrame
    <2>4. list' \subseteq list /\ telemetry' \in {telemetry, None}
      BY <1>6 DEF PanicUnlists, Unlist
    <2>5. QED
      BY <1>6, <2>1, <2>2, <2>3, <2>4, MoveStep DEF PanicUnlists, words
  <1>7. CASE PanicTells(g)
    <2> DEFINE e == Dispatching(list, TRUE)
    <2> DEFINE f == [Top(g) EXCEPT !.pc = "telling"]
    <2>1. stack[g] # <<>> /\ GoodFrame(g, Top(g)) /\ Top(g).at \in Slots
      BY <1>7, AtTop DEF PanicTells
    <2>2. e \in Frames /\ e.at = None /\ e.pc = "visit" /\ e.guarded
      BY DEF Dispatching, Frames, IInv, TypeOK
    <2>3. /\ f \in Frames /\ f.at = Top(g).at /\ f.pc = "telling" /\ f.guarded = Top(g).guarded
          /\ f.at # None
      BY <2>1, ObserversAssumption DEF GoodFrame, Frames
    <2>4. stack' = [stack EXCEPT ![g] = <<e, f>> \o Tail(@)]
      BY <1>7 DEF PanicTells
    <2> HIDE DEF e, f
    <2>5. Adds(g, {e, f}) /\ SameHeld
      BY <2>1, <2>2, <2>3, <2>4, Pushed DEF IInv, SameHeld
    <2>6. WordEffect
      BY <1>7, <2>5 DEF WordEffect, Rests, PanicTells, words
    <2>7. \A x \in {e, f} : GoodFrame(g, x)'
      BY <2>1, <2>2, <2>3 DEF GoodFrame
    <2>8. QED
      BY <1>7, <2>1, <2>5, <2>6, <2>7, DispatchKeeps DEF PanicTells, hubState
  <1>8. CASE PanicTold(g)
    BY <1>8, VisitDoneStep DEF PanicTold
  <1>9. CASE DispatchDone(g)
    <2>1. stack[g] # <<>> /\ Top(g).at = None
      BY <1>9, AtTop DEF DispatchDone, GoodFrame
    <2>2. Adds(g, {}) /\ SameHeld
      BY <1>9, <2>1, Popped DEF DispatchDone, IInv, SameHeld
    <2>3. WordEffect
      BY <1>9, <2>2 DEF WordEffect, Rests, DispatchDone, words
    <2>4. QED
      BY <1>9, <2>1, <2>2, <2>3, DispatchKeeps DEF DispatchDone, hubState
  <1>10. QED
    BY <1>1, <1>2, <1>3, <1>4, <1>5, <1>6, <1>7, <1>8, <1>9 DEF DispatchStep

\* The inductive invariant holds in every reachable state.
LEMMA Inductive == Spec => []IInv
  <1>1. IInv /\ [Next]_vars => IInv'
    <2>1. ASSUME IInv, UNCHANGED vars PROVE IInv'
      <3>1. /\ stack' = stack /\ active' = active
            /\ UNCHANGED <<count, retired, drained>>
            /\ UNCHANGED <<list, telemetry, used, served, closing, unit, detaching>>
            /\ UNCHANGED <<closer, closeList, swept, told>>
        BY <2>1 DEF vars, hubState, words, finish
      <3>2. WordsKept /\ StacksAreSeqs' /\ FramesOK'
        BY <2>1, <3>1, StackRests
      <3>3. QED
        BY <2>1, <3>1, <3>2
        DEF IInv, TypeOK, OwnersLive, AfterOwners, AfterDrain, RetiredOnce, SweptAfterSwap,
            WordsKept
    <2>2. QED
      BY <2>1, RegistryStep, CloseStep, CallbackStep DEF Next
  <1>2. QED
    BY InitIInv, <1>1, PTL DEF Spec

-----------------------------------------------------------------------------

\* The observer registry keeps its counters: however callbacks, panics, detaches and
\* the close interleave, drained is closed exactly when a retired slot is idle, and a
\* subscriber that was detached before the close is not told Closed.
THEOREM ObserversSafe == Spec => []ObserversInv
  <1>1. IInv => ObserversInv
    <2> SUFFICES ASSUME IInv PROVE ObserversInv
      OBVIOUS
    <2>1. ASSUME NEW s \in told PROVE s \notin detaching
      BY <2>1 DEF IInv, RetiredOnce
    <2>2. ASSUME NEW s \in told, NEW g \in Goroutines, Running(g, "unlist"), Top(g).at = s
          PROVE  FALSE
      <3>1. GoodFrame(g, Top(g)) /\ Top(g).pc = "unlist"
        BY <2>2, AtTop
      <3>2. QED
        BY <2>2, <3>1 DEF GoodFrame, IInv, RetiredOnce
    <2>3. QED
      BY <2>1, <2>2 DEF IInv, ObserversInv, DetachedIsNotTold
  <1>2. QED
    BY Inductive, <1>1, PTL

\* Closed is the last callback of a subscriber: a slot is told only after it drained,
\* so no counted callback is in progress or can begin, and the owners, whose
\* callbacks are not counted, have all left.
THEOREM ClosedLast == Spec => []ClosedIsLast
  <1>1. IInv => ClosedIsLast
    <2> SUFFICES ASSUME IInv, NEW s \in told, NEW g \in Goroutines, NEW i \in DOMAIN stack[g],
                        stack[g][i].at = s, stack[g][i].pc = "call"
                 PROVE  FALSE
      BY DEF ClosedIsLast, Inside
    <2>1. s \in Slots /\ s \in closeList /\ drained[s] /\ closer # "idle"
      BY DEF IInv, TypeOK, RetiredOnce, AfterDrain
    <2>2. count[s] = 0
      BY <2>1 DEF IInv, DrainedIffIdle
    <2>3. Held(s) = {}
      BY <2>1, <2>2, FS_EmptySet DEF IInv, CountsExact
    <2>4. stack[g] \in Seq(Frames) /\ i \in 1..Len(stack[g])
      BY DEF IInv, StacksAreSeqs
    <2>5. GoodFrame(g, stack[g][i])
      BY <2>4 DEF IInv, FramesOK, FramesAt
    <2>6. CASE stack[g][i].guarded
      <3>1. PICK d \in 1..Len(stack[g]) : Len(stack[g]) + 1 - d = i
        <4>1. Len(stack[g]) + 1 - i \in 1..Len(stack[g])
              /\ Len(stack[g]) + 1 - (Len(stack[g]) + 1 - i) = i
          BY <2>4
        <4>2. QED
          BY <4>1
      <3>2. FromBottom(g, d) = stack[g][i]
        BY <3>1 DEF FromBottom
      <3>3. <<g, d>> \in Held(s)
        BY <2>4, <2>6, <3>1, <3>2 DEF Held
      <3>4. QED
        BY <2>3, <3>3
    <2>7. CASE ~stack[g][i].guarded
      <3>1. g \in Owners
        BY <2>5, <2>7 DEF GoodFrame
      <3>2. stack[g] # <<>>
        BY <2>4
      <3>3. unit[g] = "live" /\ unit[g] # "live"
        BY <2>1, <3>1, <3>2 DEF IInv, OwnersLive, AfterOwners
      <3>4. QED
        BY <3>3
    <2>8. QED
      BY <2>6, <2>7
  <1>2. QED
    BY Inductive, <1>1, PTL
=============================================================================
