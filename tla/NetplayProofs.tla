--------------------------- MODULE NetplayProofs ----------------------------
(***************************************************************************)
(* A match without a relay, for every delay, window, ring and capacity     *)
(* that NetplayBounds allows and every network that loses, delays,         *)
(* reorders and repeats packets.                                           *)
(*                                                                         *)
(* What a session promises is about frames that are confirmed, but the     *)
(* code keeps neither the inputs nor the game for ever: it has rings.      *)
(* NetInv therefore compares a session with `given`, the inputs both       *)
(* players really gave: what the rings still hold is what was given,       *)
(* the game is what those inputs give up to the first wrong prediction     *)
(* and what the recorded predictions give from the last confirmed frame    *)
(* on, saved states are beginnings of it, and every checksum, here, in     *)
(* flight or noted of the other player, is of frames both have given.      *)
(* PeerOK is needed of both players at once: how far one can be ahead      *)
(* follows from what the other one has acknowledged.                       *)
(*                                                                         *)
(* A tick is taken apart as Advance is: reading packets (Handle), repair   *)
(* by rollback (Rollback, StepFrames), checkpoints, a new frame (Simulate) *)
(* and sending.  Each loop of it is a fold, about which FoldFacts gives    *)
(* an induction over its turns.                                            *)
(*                                                                         *)
(* What the ledger shows follows from the frames a tick marks as changed.  *)
(***************************************************************************)
EXTENDS Netplay, SequenceTheorems, TLAPS

\* Induction over the loops of a session and of a link.
Tries  == INSTANCE FoldFacts WITH op <- TryCheckpoint
Frames == INSTANCE FoldFacts WITH op <- StepFrame
Takes  == INSTANCE FoldFacts WITH op <- TakeEntry
Notes  == INSTANCE FoldFacts WITH op <- OnRemoteSum
Reads  == INSTANCE FoldFacts WITH op <- Handle
Picks  == INSTANCE FoldFacts WITH op <- PickNewest
Adds   == INSTANCE FoldFacts WITH op <- AddPacket

-----------------------------------------------------------------------------
(* What the variables hold.                                                *)

FrameOrNone == Nat \cup {NoFrame}

\* One frame of a game: the inputs of both players, and the mark of a faulty build.
GameStep == (Inputs \X Inputs) \cup (Inputs \X Inputs \X {"fault"})
Game == Seq(GameStep)

Report      == [frame : Nat, sum : Game, epoch : {0}]
Hello       == [type : {"hello"}, echo : BOOLEAN]
InputPacket == [type : {"input"}, echo : BOOLEAN, frame : Nat, ack : Nat, start : Nat,
                entries : Seq(Inputs), sums : Seq(Report)]
Packet      == Hello \cup InputPacket

Ring   == [0 .. History - 1 -> Inputs]
Save   == [frame : FrameOrNone, state : Game, pair : (Inputs \X Inputs) \cup {<<>>}]
CpSlot == [frame : FrameOrNone, sum : Game, epoch : {0}, judged : BOOLEAN]
RemSum == [frame : FrameOrNone, sum : Game, epoch : {0}]

Names ==
    {"me", "status", "err", "fault", "delay", "delayKnown", "haveEcho", "haveRTT", "frame",
     "rc", "localNext", "peerAck", "firstBad", "local", "remote", "used", "game", "saved",
     "changedFrom", "ahead", "stalling", "nextCheck", "cp", "rem", "epoch", "catching",
     "catchEnd", "out"}

\* A session of a match without a relay.
Typed(s) ==
    /\ DOMAIN s = Names
    /\ s.me \in Players /\ s.status \in {"handshake", "running", "ended"}
    /\ s.err \in {"none", "disconnect", "desync"} /\ s.fault \in FrameOrNone
    /\ s.delay \in 0 .. MaxInputDelay /\ s.delayKnown \in BOOLEAN
    /\ s.haveEcho \in BOOLEAN /\ s.haveRTT \in BOOLEAN
    /\ s.frame \in Nat /\ s.rc \in Nat /\ s.localNext \in Nat /\ s.peerAck \in Nat
    /\ s.firstBad \in FrameOrNone
    /\ s.local \in Ring /\ s.remote \in Ring /\ s.used \in Ring
    /\ s.game \in Game /\ s.saved \in [0 .. NRing - 1 -> Save]
    /\ s.changedFrom \in FrameOrNone /\ s.ahead \in BOOLEAN /\ s.stalling \in BOOLEAN
    /\ s.nextCheck \in Nat \ {0} /\ s.epoch = 0 /\ s.catching = FALSE
    /\ s.cp \in [0 .. CpSlots - 1 -> CpSlot] /\ s.rem \in [0 .. CpSlots - 1 -> RemSum]
    /\ s.out \in Seq(Packet)

-----------------------------------------------------------------------------
(* A session against the inputs really given: g by its own player up to    *)
(* the start of the tick, b by the other one, whose session is q.          *)

\* The inputs of a session's own player, those of this tick included.
Said(s, g) == g \o [i \in 1 .. s.localNext - Len(g) |-> s.local[(Len(g) + i - 1) % History]]

PairAs(me, mine, theirs) == IF me = 0 THEN <<mine, theirs>> ELSE <<theirs, mine>>

\* What frame f adds to a game with a fault at frame x.
Outcome(x, f, pair) == IF f = x THEN Append(pair, "fault") ELSE pair

TrueStep(me, x, mine, theirs, f) == Outcome(x, f, PairAs(me, mine[f + 1], theirs[f + 1]))

Played(me, x, mine, theirs, n) == [i \in 1 .. n |-> TrueStep(me, x, mine, theirs, i - 1)]

\* The retained inputs are those given.
LocalOK(s, g) ==
    /\ Len(g) <= s.localNext /\ s.localNext <= Len(g) + History
    /\ \A f \in 0 .. Len(g) - 1 : f >= s.localNext - History => s.local[f % History] = g[f + 1]

RemoteOK(s, b) ==
    /\ s.rc <= Len(b)
    /\ \A f \in 0 .. s.rc - 1 : f >= s.rc - History => s.remote[f % History] = b[f + 1]

\* Frames that cannot change any more: simulated with the inputs really given.
Sure(s) == IF s.firstBad = NoFrame THEN s.rc ELSE s.firstBad

\* n frames are simulated, those before `sure` with the inputs given, and those that
\* are not confirmed with the retained predictions.
SimOK(s, n, sure, mine, b) ==
    /\ Len(s.game) = n
    /\ \A f \in 0 .. n - 1 :
          /\ f < sure => s.game[f + 1] = TrueStep(s.me, s.fault, mine, b, f)
          /\ f >= s.rc => s.game[f + 1] = Outcome(s.fault, f,
                                            PairAs(s.me, mine[f + 1], s.used[f % History]))

\* A saved state is the game at its frame, if that is simulated.
SavedOK(s) ==
    \A i \in 0 .. NRing - 1 :
        LET held == s.saved[i] IN
        held.frame # NoFrame =>
            /\ held.frame % NRing = i
            /\ held.frame < Len(s.game) =>
                  /\ held.state = SubSeq(s.game, 1, held.frame)
                  /\ held.pair = SubSeq(s.game[held.frame + 1], 1, 2)

\* The last NRing frames before n are saved.
SavedAll(s, n) == \A f \in 0 .. n - 1 : f >= n - NRing => s.saved[f % NRing].frame = f

\* The session's checkpoints, and those it knows of the other one, are of confirmed frames.
ChecksOK(s, mine, b) ==
    \A i \in 0 .. CpSlots - 1 :
        LET c == s.cp[i] IN
        c.frame # NoFrame => /\ c.frame <= s.rc /\ c.frame <= Len(mine)
                             /\ c.sum = Played(s.me, s.fault, mine, b, c.frame)

RemsOK(s, x, mine, b) ==
    \A i \in 0 .. CpSlots - 1 :
        LET r == s.rem[i] IN
        r.frame # NoFrame => /\ r.frame <= Len(mine) /\ r.frame <= Len(b)
                             /\ r.sum = Played(s.me, x, mine, b, r.frame)

DesyncOK(s, x) == s.err = "desync" => s.fault # NoFrame \/ x # NoFrame

Phase(s) ==
    /\ s.status = "running" => s.localNext = s.frame + s.delay
    /\ s.status = "handshake" => s.localNext = 0 /\ s.frame = 0 /\ s.rc = 0 /\ s.firstBad = NoFrame
    /\ s.localNext = 0 \/ s.localNext = s.frame + s.delay
    /\ s.frame <= s.localNext

\* r0 frames were confirmed when the tick began.
Bounds(s, r0) ==
    /\ r0 <= s.rc /\ s.frame - r0 <= Window
    /\ s.firstBad # NoFrame => r0 <= s.firstBad /\ s.firstBad < s.frame /\ s.firstBad < s.rc

\* The acknowledgement that came with the newest confirmed inputs.
AckOK(s, q) == s.rc <= s.peerAck + q.delay + Window /\ s.peerAck <= q.rc

Fine(s, r0, g, q, b) ==
    /\ Typed(s)
    /\ LocalOK(s, g) /\ RemoteOK(s, b) /\ SimOK(s, s.frame, Sure(s), Said(s, g), b)
    /\ SavedOK(s) /\ SavedAll(s, s.frame)
    /\ ChecksOK(s, Said(s, g), b) /\ RemsOK(s, q.fault, Said(s, g), b)
    /\ DesyncOK(s, q.fault) /\ Phase(s) /\ Bounds(s, r0) /\ AckOK(s, q)

\* A packet from the peer q, which has given b, to a player that has given g.
MessageOK(m, q, g, b) ==
    /\ m \in Packet
    /\ m.type = "input" =>
          /\ m.ack <= q.rc
          /\ m.start + Len(m.entries) <= Len(b)
          /\ m.start + Len(m.entries) <= m.ack + q.delay + Window
          /\ \A i \in 1 .. Len(m.entries) : m.entries[i] = b[m.start + i]
          /\ \A i \in 1 .. Len(m.sums) :
                LET r == m.sums[i] IN
                /\ r.frame <= Len(g) /\ r.frame <= Len(b)
                /\ r.sum = Played(q.me, q.fault, b, g, r.frame)

\* Session s of player p, that has given g; w is in flight to it.
PeerOK(p, s, q, g, b, w) ==
    /\ Fine(s, Sure(s), g, q, b)
    /\ s.me = p /\ s.delay \in Delays[p] /\ s.frame <= MaxFrame
    /\ s.out = <<>> /\ s.changedFrom = NoFrame /\ s.frame - s.rc <= Window
    /\ g \in Seq(Inputs) /\ s.localNext = Len(g)
    /\ s.firstBad # NoFrame => s.status = "ended"
    /\ s.localNext <= s.peerAck + (History - HistorySpare)
    /\ w \in Seq(Packet) /\ Len(w) <= InFlight[p]
    /\ \A i \in 1 .. Len(w) :
          MessageOK(w[i], q, g, b) /\ (w[i].type = "input" => w[i].start <= s.rc)

NetInv ==
    /\ DOMAIN session = Players /\ DOMAIN given = Players /\ DOMAIN wire = Players
    /\ session[0].fault = NoFrame
    /\ \A p \in Players :
          PeerOK(p, session[p], session[Other(p)], given[p], given[Other(p)], wire[p])

-----------------------------------------------------------------------------
(* Numbers.                                                                *)

\* What the assumptions on the constants say, as numbers.
LEMMA Consts ==
    /\ Window \in Nat \ {0} /\ K \in Nat \ {0} /\ CpSlots \in Nat \ {0}
    /\ MaxSums \in Nat \ {0} /\ MaxEntries \in Nat \ {0}
    /\ History \in Nat \ {0} /\ NRing \in Nat \ {0}
    /\ MaxInputDelay \in Nat /\ RingSpare \in Nat /\ HistorySpare \in Nat
    /\ History - HistorySpare \in Nat
    /\ Window + MaxInputDelay + RingSpare = NRing /\ Window <= NRing /\ Window <= History
    /\ MaxInputDelay <= History - HistorySpare /\ Window + 2 * MaxInputDelay <= History
    /\ HistorySpare < History /\ 0 \in Inputs
<1>1. Window + MaxInputDelay + RingSpare = NRing
  BY DEF NRing
<1> QED
  BY <1>1, NetplayAssumption

\* Two delays and a window, added up.
LEMMA DelaysAdd ==
    ASSUME NEW rc \in Nat, NEW ack \in Nat, NEW frame \in Nat, NEW d \in Nat,
           NEW most \in Nat, NEW window \in Nat,
           rc <= ack + d + window, d <= most, ack <= frame + most
    PROVE  rc <= frame + most + most + window
OBVIOUS

\* Where frame f is kept in a ring of n.
LEMMA ModRange ==
    ASSUME NEW f \in Nat, NEW n \in Nat \ {0}
    PROVE  f % n \in 0 .. n - 1
OBVIOUS

\* Frames less than n apart do not share a slot in a ring of n.
LEMMA ModApart ==
    ASSUME NEW n \in Nat \ {0}, NEW e \in Nat, NEW f \in Nat, e < f, f - e < n
    PROVE  e % n # f % n
<1> SUFFICES ASSUME e % n = f % n PROVE FALSE
  OBVIOUS
<1> DEFINE a == e \div n
           b == f \div n
           r == e % n
<1>1. e = (n * a) + r /\ f = (n * b) + r
  OBVIOUS
<1>2. a \in Nat /\ b \in Nat /\ r \in Nat
  OBVIOUS
<1> HIDE DEF a, b, r
<1>3. f - e = n * (b - a)
  BY <1>1, <1>2
<1>4. CASE b - a <= 0
  <2>1. n * (b - a) <= 0
    BY <1>2, <1>4
  <2> QED
    BY <2>1, <1>3
<1>5. CASE b - a >= 1
  <2>1. n * (b - a) >= n
    BY <1>2, <1>5
  <2> QED
    BY <2>1, <1>3
<1> QED
  BY <1>2, <1>4, <1>5

\* The slot of a checkpoint.
LEMMA SlotRange == ASSUME NEW f \in Nat PROVE Slot(f) \in 0 .. CpSlots - 1
<1>1. f \div K \in Nat
  BY Consts
<1> QED
  BY <1>1, Consts, ModRange DEF Slot

\* The checkpoints up to a limit.
LEMMA Multiples ==
    ASSUME NEW a \in Int, NEW j \in Nat, j <= a \div K
    PROVE  j * K \in Nat /\ j * K <= a
<1> DEFINE d == a \div K
           r == a % K
<1>1. a = (K * d) + r /\ d \in Int /\ r \in Nat
  BY Consts
<1> HIDE DEF d, r
<1>2. K * (d - j) >= 0
  BY <1>1, Consts DEF d
<1> DEFINE x == K * d
           y == j * K
<1>3. y \in Nat /\ x \in Int /\ K * (d - j) = x - y
  BY <1>1, Consts
<1>4. a = x + r
  BY <1>1
<1> HIDE DEF x, y
<1>5. y \in Nat /\ y <= a
  BY <1>1, <1>2, <1>3, <1>4
<1> QED
  BY <1>5 DEF y

\* Induction over 0..n for a set.
LEMMA UpTo ==
    ASSUME NEW n \in Nat, NEW S, 0 \in S, \A i \in 1 .. n : i - 1 \in S => i \in S
    PROVE  n \in S
<1> DEFINE Bad == {i \in 0 .. n : i \notin S}
<1>1. SUFFICES ASSUME n \notin S PROVE FALSE
  OBVIOUS
<1>2. Bad \in SUBSET Nat /\ n \in Bad
  BY <1>1
<1>3. PICK k \in Bad : \A m \in Bad : k <= m
  <2> HIDE DEF Bad
  <2> QED
    BY <1>2, Frames!Least
<1>4. k # 0 /\ k \in 1 .. n /\ k - 1 \in 0 .. n /\ ~(k <= k - 1)
  OBVIOUS
<1> QED
  BY <1>3, <1>4

-----------------------------------------------------------------------------
(* The inputs and the game.                                                *)

\* Sequence t continues s.
Grows(s, t) == Len(s) <= Len(t) /\ \A i \in 1 .. Len(s) : t[i] = s[i]

\* The inputs of a session's own player, those of this tick included, continue the ones
\* given before, and the ring holds the last History of them.
LEMMA SaidFacts ==
    ASSUME NEW s, Typed(s), NEW g \in Seq(Inputs), LocalOK(s, g)
    PROVE  /\ Said(s, g) \in Seq(Inputs) /\ Len(Said(s, g)) = s.localNext /\ Grows(g, Said(s, g))
           /\ \A f \in 0 .. s.localNext - 1 :
                 f >= s.localNext - History => s.local[f % History] = Said(s, g)[f + 1]
<1> DEFINE n == s.localNext - Len(g)
           new == [i \in 1 .. n |-> s.local[(Len(g) + i - 1) % History]]
<1>1. n \in Nat /\ Len(g) \in Nat /\ s.localNext \in Nat
  BY DEF Typed, LocalOK
<1>2. ASSUME NEW i \in 1 .. n PROVE new[i] \in Inputs
  <2>1. Len(g) + i - 1 \in Nat /\ History \in Nat \ {0}
    BY <1>1, Consts
  <2>2. (Len(g) + i - 1) % History \in 0 .. History - 1
    BY <2>1, ModRange
  <2> QED
    BY <2>2 DEF Typed, Ring
<1>3. new \in Seq(Inputs) /\ Len(new) = n
  <2>1. new \in [1 .. n -> Inputs]
    BY <1>2
  <2> HIDE DEF new, n
  <2>2. new \in Seq(Inputs)
    BY <1>1, <2>1, SeqDef
  <2> QED
    BY <1>1, <2>1, <2>2, LenProperties
<1>4. Said(s, g) = g \o new
  BY DEF Said
<1>5. Said(s, g) \in Seq(Inputs) /\ Len(Said(s, g)) = s.localNext
  <2>1. Len(g) + n = s.localNext
    BY <1>1
  <2> HIDE DEF new, n
  <2> QED
    BY <1>1, <1>3, <1>4, <2>1, ConcatProperties
<1>6. ASSUME NEW i \in 1 .. Len(g) PROVE Said(s, g)[i] = g[i]
  BY <1>1, <1>3, <1>4
<1>7. ASSUME NEW f \in 0 .. s.localNext - 1, f >= Len(g)
      PROVE  Said(s, g)[f + 1] = s.local[f % History]
  <2>1. Said(s, g)[f + 1] = new[f + 1 - Len(g)]
    BY <1>1, <1>3, <1>4, <1>7
  <2>2. f + 1 - Len(g) \in 1 .. n /\ Len(g) + (f + 1 - Len(g)) - 1 = f
    BY <1>1, <1>7
  <2> QED
    BY <2>1, <2>2
<1>8. ASSUME NEW f \in 0 .. s.localNext - 1, f >= s.localNext - History, f < Len(g)
      PROVE  s.local[f % History] = Said(s, g)[f + 1]
  BY <1>1, <1>6, <1>8 DEF LocalOK
<1> QED
  BY <1>1, <1>5, <1>6, <1>7, <1>8 DEF Grows, LocalOK

\* The first two elements of a sequence, taken together.
LEMMA FirstTwo ==
    ASSUME NEW S, NEW a \in S, NEW c \in S,
           NEW t \in Seq(S), Len(t) >= 2, t[1] = a, t[2] = c
    PROVE  SubSeq(t, 1, 2) = <<a, c>>
<1> DEFINE two == <<a, c>>
<1>1. two \in Seq(S) /\ Len(two) = 2 /\ two[1] = a /\ two[2] = c
  OBVIOUS
<1> HIDE DEF two
<1>2. \A i \in 1 .. 2 : t[i] \in S
  OBVIOUS
<1>3. /\ SubSeq(t, 1, 2) \in Seq(S) /\ Len(SubSeq(t, 1, 2)) = 2
      /\ \A i \in 1 .. 2 : SubSeq(t, 1, 2)[i] = t[i]
  BY <1>2, SubSeqProperties
<1>4. SubSeq(t, 1, 2) = two
  BY <1>1, <1>3, SeqEqual
<1> QED
  BY <1>4 DEF two

\* One frame of a game is that of its pair of inputs.
LEMMA OutcomePair ==
    ASSUME NEW x, NEW f, NEW pair \in Inputs \X Inputs
    PROVE  Outcome(x, f, pair) \in GameStep /\ SubSeq(Outcome(x, f, pair), 1, 2) = pair
<1>1. PICK a \in Inputs, c \in Inputs : pair = <<a, c>>
  OBVIOUS
<1> DEFINE S == Inputs \cup {"fault"}
           two == <<a, c>>
           mark == "fault"
           three == <<a, c, mark>>
<1>2. /\ two \in Seq(S) /\ Len(two) = 2 /\ two[1] = a /\ two[2] = c
      /\ three \in Seq(S) /\ Len(three) = 3 /\ three[1] = a /\ three[2] = c /\ three[3] = mark
  OBVIOUS
<1>3. a \in S /\ c \in S /\ mark \in S
  OBVIOUS
<1>4. two \in Inputs \X Inputs /\ three \in Inputs \X Inputs \X {"fault"}
  OBVIOUS
<1> HIDE DEF S, two, three, mark
<1>5. Append(two, mark) = three
  <2>0. /\ Append(two, mark) \in Seq(S) /\ Len(Append(two, mark)) = Len(two) + 1
        /\ \A i \in 1 .. Len(two) : Append(two, mark)[i] = two[i]
        /\ Append(two, mark)[Len(two) + 1] = mark
    <3>1. two \in Seq(S) /\ mark \in S
      BY <1>2, <1>3
    <3> QED
      BY <3>1, AppendProperties
  <2>1. Append(two, mark) \in Seq(S) /\ Len(Append(two, mark)) = 3
    BY <1>2, <2>0
  <2>2. \A i \in 1 .. 3 : Append(two, mark)[i] = three[i]
    BY <1>2, <2>0
  <2> QED
    BY <1>2, <2>1, <2>2, SeqEqual
<1>6. SubSeq(two, 1, 2) = <<a, c>> /\ SubSeq(three, 1, 2) = <<a, c>>
  BY <1>2, <1>3, FirstTwo
<1>7. SubSeq(two, 1, 2) = two /\ SubSeq(three, 1, 2) = two
  BY <1>6 DEF two
<1>8. pair = two
  BY <1>1 DEF two
<1> QED
  BY <1>4, <1>5, <1>7, <1>8 DEF Outcome, GameStep, mark

\* A pair of inputs is the same pair whichever player looks at it.
LEMMA PairIs ==
    ASSUME NEW me \in Players, NEW a \in Inputs, NEW c \in Inputs
    PROVE  PairAs(me, a, c) \in Inputs \X Inputs /\ PairAs(me, a, c) = PairAs(Other(me), c, a)
BY DEF PairAs, Players, Other

\* Inputs that come later do not change what was played.
LEMMA PlayedGrows ==
    ASSUME NEW me, NEW x, NEW n \in Nat, NEW a \in Seq(Inputs), NEW a2 \in Seq(Inputs),
           NEW c \in Seq(Inputs), NEW c2 \in Seq(Inputs), Grows(a, a2), Grows(c, c2),
           n <= Len(a), n <= Len(c)
    PROVE  Played(me, x, a2, c2, n) = Played(me, x, a, c, n)
<1>1. ASSUME NEW i \in 1 .. n PROVE TrueStep(me, x, a2, c2, i - 1) = TrueStep(me, x, a, c, i - 1)
  <2>1. i - 1 + 1 = i /\ i \in 1 .. Len(a) /\ i \in 1 .. Len(c)
    OBVIOUS
  <2> QED
    BY <2>1 DEF TrueStep, Grows
<1> QED
  BY <1>1 DEF Played

\* Both players see the same game.
LEMMA PlayedByBoth ==
    ASSUME NEW me \in Players, NEW x, NEW n \in Nat, NEW a \in Seq(Inputs), NEW c \in Seq(Inputs),
           n <= Len(a), n <= Len(c)
    PROVE  Played(Other(me), x, c, a, n) = Played(me, x, a, c, n)
<1>1. ASSUME NEW i \in 1 .. n PROVE TrueStep(Other(me), x, c, a, i - 1) = TrueStep(me, x, a, c, i - 1)
  <2>1. a[i - 1 + 1] \in Inputs /\ c[i - 1 + 1] \in Inputs
    OBVIOUS
  <2> QED
    BY <2>1, PairIs DEF TrueStep
<1> QED
  BY <1>1 DEF Played

\* The beginning of a sequence.
LEMMA PrefixFacts ==
    ASSUME NEW S, NEW s, NEW n \in Nat, \A i \in 1 .. n : s[i] \in S
    PROVE  /\ SubSeq(s, 1, n) \in Seq(S) /\ Len(SubSeq(s, 1, n)) = n
           /\ \A i \in 1 .. n : SubSeq(s, 1, n)[i] = s[i]
<1> DEFINE t == SubSeq(s, 1, n)
<1>1. /\ t \in Seq(S)
      /\ Len(t) = IF 1 <= n THEN n - 1 + 1 ELSE 0
      /\ \A i \in 1 .. n - 1 + 1 : t[i] = s[1 + i - 1]
  <2>1. 1 \in Int /\ n \in Int
    OBVIOUS
  <2> QED
    BY <2>1, SubSeqProperties
<1> HIDE DEF t
<1>2. n - 1 + 1 = n /\ \A i \in 1 .. n : 1 + i - 1 = i
  OBVIOUS
<1>3. Len(t) = n
  BY <1>1, <1>2
<1>4. ASSUME NEW i \in 1 .. n PROVE t[i] = s[i]
  <2>1. t[i] = s[1 + i - 1]
    BY <1>1, <1>2
  <2> QED
    BY <2>1, <1>2
<1> QED
  BY <1>1, <1>3, <1>4 DEF t

-----------------------------------------------------------------------------
(* Checksums.                                                              *)

\* What comparing checksums leaves alone.
SameMatch(s, t) ==
    /\ t.me = s.me /\ t.fault = s.fault /\ t.delay = s.delay /\ t.delayKnown = s.delayKnown
    /\ t.haveEcho = s.haveEcho /\ t.haveRTT = s.haveRTT
    /\ t.frame = s.frame /\ t.rc = s.rc /\ t.localNext = s.localNext /\ t.peerAck = s.peerAck
    /\ t.firstBad = s.firstBad /\ t.local = s.local /\ t.remote = s.remote /\ t.used = s.used
    /\ t.game = s.game /\ t.saved = s.saved /\ t.changedFrom = s.changedFrom
    /\ t.ahead = s.ahead /\ t.stalling = s.stalling /\ t.out = s.out

\* The checksums of both players are true to the inputs they gave.
ChecksTrue(s, x, mine, b) == ChecksOK(s, mine, b) /\ RemsOK(s, x, mine, b) /\ DesyncOK(s, x)

\* A match may end by it, and not otherwise.
MayEnd(s, t) ==
    \/ t.status = s.status /\ t.err = s.err
    \/ s.status # "ended" /\ t.status = "ended" /\ t.err = "desync"

\* Two comparisons of checksums in a row are like one.
LEMMA SameMatchTransitive ==
    ASSUME NEW s, NEW t, NEW u, SameMatch(s, t), SameMatch(t, u), MayEnd(s, t), MayEnd(t, u)
    PROVE  SameMatch(s, u) /\ MayEnd(s, u)
BY DEF SameMatch, MayEnd

\* judge: a desync is a difference of two true checksums, so one build is at fault.
LEMMA JudgeKeeps ==
    ASSUME NEW s, Typed(s), NEW f \in Nat, NEW x, NEW mine, NEW b, ChecksTrue(s, x, mine, b)
    PROVE  LET t == Judge(s, f) IN
           /\ Typed(t) /\ SameMatch(s, t) /\ MayEnd(s, t) /\ ChecksTrue(t, x, mine, b)
           /\ t.nextCheck = s.nextCheck
<1> DEFINE i == Slot(f)
           c == s.cp[i]
           r == s.rem[i]
           judged == [s EXCEPT !.cp[i].judged = TRUE]
<1>1. i \in 0 .. CpSlots - 1
  BY SlotRange
<1>2. c \in CpSlot /\ r \in RemSum
  BY <1>1 DEF Typed
<1> HIDE DEF i
<1>3. /\ [s.cp EXCEPT ![i].judged = TRUE] \in [0 .. CpSlots - 1 -> CpSlot]
      /\ \A j \in 0 .. CpSlots - 1 : /\ [s.cp EXCEPT ![i].judged = TRUE][j].frame = s.cp[j].frame
                                     /\ [s.cp EXCEPT ![i].judged = TRUE][j].sum = s.cp[j].sum
  BY <1>1, <1>2 DEF Typed, CpSlot
<1>4. /\ Typed(judged) /\ SameMatch(s, judged) /\ MayEnd(s, judged)
      /\ judged.nextCheck = s.nextCheck /\ judged.err = s.err /\ judged.status = s.status
      /\ judged.rem = s.rem /\ judged.cp = [s.cp EXCEPT ![i].judged = TRUE]
  BY <1>3 DEF Typed, Names, SameMatch, MayEnd
<1>5. ChecksTrue(judged, x, mine, b)
  BY <1>3, <1>4 DEF ChecksTrue, ChecksOK, RemsOK, DesyncOK, SameMatch
<1>6. CASE c.frame # f \/ r.frame # f \/ c.judged \/ c.epoch # r.epoch
  <2>1. Judge(s, f) = s
    BY <1>6 DEF Judge, i
  <2> QED
    BY <2>1 DEF SameMatch, MayEnd
<1>7. CASE ~(c.frame # f \/ r.frame # f \/ c.judged \/ c.epoch # r.epoch) /\ (c.sum = r.sum \/ Relay)
  <2>1. Judge(s, f) = judged
    BY <1>7 DEF Judge, i
  <2> QED
    BY <2>1, <1>4, <1>5
<1>8. CASE ~(c.frame # f \/ r.frame # f \/ c.judged \/ c.epoch # r.epoch) /\ c.sum # r.sum /\ ~Relay
  <2>1. Judge(s, f) = End(judged, "desync")
    BY <1>8 DEF Judge, i
  <2>2. c.sum = Played(s.me, s.fault, mine, b, f) /\ r.sum = Played(s.me, x, mine, b, f)
    <3>1. c.frame = f /\ r.frame = f /\ f # NoFrame
      BY <1>8 DEF NoFrame
    <3> QED
      BY <3>1, <1>1 DEF ChecksTrue, ChecksOK, RemsOK
  <2>3. s.fault # NoFrame \/ x # NoFrame
    BY <2>2, <1>8
  <2>4. CASE s.status = "ended"
    <3>1. Judge(s, f) = judged
      BY <2>1, <2>4, <1>4 DEF End
    <3> QED
      BY <3>1, <1>4, <1>5
  <2>5. CASE s.status # "ended"
    <3> DEFINE t == [judged EXCEPT !.status = "ended", !.err = "desync"]
    <3>1. Judge(s, f) = t
      BY <2>1, <2>5, <1>4 DEF End
    <3> HIDE DEF judged
    <3>2. /\ Typed(t) /\ SameMatch(judged, t) /\ t.status = "ended" /\ t.err = "desync"
          /\ t.nextCheck = judged.nextCheck /\ t.rem = judged.rem /\ t.cp = judged.cp
      BY <1>4 DEF Typed, Names, SameMatch
    <3> HIDE DEF t
    <3>3. SameMatch(s, t) /\ MayEnd(s, t) /\ t.nextCheck = s.nextCheck
      BY <1>4, <2>5, <3>2 DEF SameMatch, MayEnd
    <3>4. ChecksTrue(t, x, mine, b)
      BY <1>5, <2>3, <3>2, <3>3 DEF ChecksTrue, ChecksOK, RemsOK, DesyncOK, SameMatch
    <3> QED
      BY <3>1, <3>2, <3>3, <3>4
  <2> QED
    BY <2>4, <2>5
<1> QED
  BY <1>6, <1>7, <1>8

\* A session of which n frames are simulated, all confirmed ones with the inputs given.
Replayed(s, n, x, mine, b) ==
    /\ Typed(s) /\ SimOK(s, n, s.rc, mine, b) /\ SavedOK(s)
    /\ ChecksTrue(s, x, mine, b)

\* The state at a confirmed frame is what was played up to it.
LEMMA SureState ==
    ASSUME NEW s, Typed(s), NEW n \in Nat, NEW mine, NEW b, NEW sure \in Nat,
           SimOK(s, n, sure, mine, b), NEW f \in 0 .. n, f <= sure
    PROVE  SubSeq(s.game, 1, f) = Played(s.me, s.fault, mine, b, f)
<1> DEFINE t == SubSeq(s.game, 1, f)
           u == Played(s.me, s.fault, mine, b, f)
<1>1. Len(s.game) = n /\ s.game \in Seq(GameStep)
  BY DEF SimOK, Typed, Game
<1>2. ASSUME NEW i \in 1 .. f PROVE s.game[i] = u[i] /\ s.game[i] \in GameStep
  <2>1. i - 1 \in 0 .. n - 1 /\ i - 1 < sure /\ (i - 1) + 1 = i
    OBVIOUS
  <2>2. s.game[i] = TrueStep(s.me, s.fault, mine, b, i - 1)
    BY <2>1 DEF SimOK
  <2>3. i \in 1 .. Len(s.game)
    BY <1>1
  <2> QED
    BY <1>1, <2>2, <2>3 DEF Played
<1>3. /\ t \in Seq(GameStep) /\ Len(t) = f
      /\ \A i \in 1 .. f : t[i] = s.game[i]
  <2>1. \A i \in 1 .. f : s.game[i] \in GameStep
    BY <1>2
  <2> QED
    BY <2>1, PrefixFacts
<1>4. u \in [1 .. f -> GameStep]
  <2>1. \A i \in 1 .. f : u[i] \in GameStep
    BY <1>2
  <2> QED
    BY <2>1 DEF Played
<1> HIDE DEF u
<1>5. u \in Seq(GameStep) /\ Len(u) = f
  <2>1. u \in Seq(GameStep)
    BY <1>4, SeqDef
  <2> QED
    BY <1>4, <2>1, LenProperties
<1> HIDE DEF t
<1>6. \A i \in 1 .. Len(t) : t[i] = u[i]
  BY <1>2, <1>3
<1> QED
  BY <1>3, <1>5, <1>6, SeqEqual DEF t, u

\* When every confirmed frame was simulated with the inputs given, the beginning of the
\* game up to a confirmed frame is what those inputs play.
LEMMA ConfirmedState ==
    ASSUME NEW s, Typed(s), NEW n \in Nat, NEW mine, NEW b, SimOK(s, n, s.rc, mine, b),
           NEW f \in 0 .. n, f <= s.rc
    PROVE  SubSeq(s.game, 1, f) = Played(s.me, s.fault, mine, b, f)
<1>1. s.rc \in Nat
  BY DEF Typed
<1> QED
  BY <1>1, SureState

\* One turn of tryCheckpoints: it takes no checksum of a frame that rests on a prediction.
LEMMA TryCheckpointKeeps ==
    ASSUME NEW s, NEW n \in Nat, NEW x, NEW mine \in Seq(Inputs), NEW b, Replayed(s, n, x, mine, b),
           n <= Len(mine), NEW d, d.frame \in Nat, d.frame < n, d.limit \in Int
    PROVE  LET t == TryCheckpoint(s, d) IN
           Replayed(t, n, x, mine, b) /\ SameMatch(s, t) /\ MayEnd(s, t)
<1> DEFINE f == d.frame
           held == s.saved[f % NRing]
           t == TryCheckpoint(s, d)
<1>1. CASE ~(f = s.nextCheck /\ f <= s.rc /\ (d.first \/ s.status # "ended"))
  <2>1. t = s
    BY <1>1 DEF TryCheckpoint
  <2> QED
    BY <2>1 DEF SameMatch, MayEnd
<1>2. CASE f = s.nextCheck /\ f <= s.rc /\ (d.first \/ s.status # "ended")
  <2>1. t = Checkpoint(s, f, d.limit)
    BY <1>2 DEF TryCheckpoint
  <2>2. f \in Nat /\ f < n /\ f <= s.rc /\ f + K \in Nat \ {0} /\ Slot(f) \in 0 .. CpSlots - 1
        /\ f % NRing \in 0 .. NRing - 1 /\ f # NoFrame
    <3>1. f \in Nat /\ f < n /\ f <= s.rc /\ K \in Nat \ {0} /\ NRing \in Nat \ {0}
      BY <1>2, Consts
    <3> HIDE DEF f
    <3>2. f + K \in Nat \ {0} /\ f # NoFrame
      BY <3>1 DEF NoFrame
    <3> QED
      BY <3>1, <3>2, SlotRange, ModRange
  <2>3. Typed(s) /\ s.epoch = 0
    BY DEF Replayed, Typed
  <2>4. CASE held.frame # f
    <3>1. t = s \/ t = [s EXCEPT !.nextCheck = f + K]
      BY <2>1, <2>4 DEF Checkpoint
    <3> DEFINE u == [s EXCEPT !.nextCheck = f + K]
    <3>2. /\ Typed(u) /\ SameMatch(s, u) /\ MayEnd(s, u)
          /\ u.err = s.err /\ u.cp = s.cp /\ u.rem = s.rem
      BY <2>2, <2>3 DEF Typed, Names, SameMatch, MayEnd
    <3> HIDE DEF u
    <3>3. Replayed(u, n, x, mine, b)
      BY <3>2 DEF Replayed, SameMatch, SimOK, SavedOK, ChecksTrue, ChecksOK, RemsOK, DesyncOK
    <3> QED
      BY <3>1, <3>2, <3>3 DEF u, SameMatch, MayEnd
  <2>5. CASE held.frame = f
    <3> DEFINE c == [frame |-> f, sum |-> held.state, epoch |-> s.epoch, judged |-> FALSE]
               u == [s EXCEPT !.nextCheck = f + K, !.cp[Slot(f)] = c]
    <3>1. t = Judge(u, f)
      BY <2>1, <2>5 DEF Checkpoint
    <3>2. held \in Save
      BY <2>2, <2>3 DEF Typed
    <3>3. held.state = Played(s.me, s.fault, mine, b, f)
      <4>1. held.state = SubSeq(s.game, 1, f)
        BY <2>2, <2>5 DEF Replayed, SavedOK, SimOK
      <4>2. SimOK(s, n, s.rc, mine, b) /\ f <= n
        BY <2>2 DEF Replayed
      <4> HIDE DEF f, held
      <4>3. f \in 0 .. n /\ f <= s.rc
        BY <2>2
      <4>4. \A e \in 0 .. n : e <= s.rc =>
               SubSeq(s.game, 1, e) = Played(s.me, s.fault, mine, b, e)
        BY <2>3, <4>2, ConfirmedState
      <4> QED
        BY <4>1, <4>3, <4>4
    <3>4. c \in CpSlot /\ c.frame = f /\ c.sum = held.state
      BY <2>2, <2>3, <3>2 DEF CpSlot, Save, FrameOrNone
    <3> HIDE DEF c
    <3>5. /\ [s.cp EXCEPT ![Slot(f)] = c] \in [0 .. CpSlots - 1 -> CpSlot]
          /\ \A j \in 0 .. CpSlots - 1 :
                [s.cp EXCEPT ![Slot(f)] = c][j] = IF j = Slot(f) THEN c ELSE s.cp[j]
      BY <2>2, <2>3, <3>4 DEF Typed
    <3>6. /\ Typed(u) /\ SameMatch(s, u) /\ MayEnd(s, u)
          /\ u.err = s.err /\ u.cp = [s.cp EXCEPT ![Slot(f)] = c] /\ u.rem = s.rem
      BY <2>2, <2>3, <3>5 DEF Typed, Names, SameMatch, MayEnd
    <3> HIDE DEF u
    <3>7. ChecksOK(u, mine, b)
      <4>1. f <= Len(mine)
        BY <2>2
      <4> QED
        BY <2>2, <3>3, <3>4, <3>5, <3>6, <4>1 DEF Replayed, ChecksTrue, ChecksOK, SameMatch
    <3>8. ChecksTrue(u, x, mine, b)
      BY <3>6, <3>7 DEF Replayed, ChecksTrue, RemsOK, DesyncOK, SameMatch
    <3>9. Typed(t) /\ SameMatch(u, t) /\ MayEnd(u, t) /\ ChecksTrue(t, x, mine, b)
      BY <2>2, <3>1, <3>6, <3>8, JudgeKeeps
    <3> HIDE DEF t
    <3>10. SameMatch(s, t) /\ MayEnd(s, t)
      BY <3>6, <3>9, SameMatchTransitive
    <3> QED
      BY <3>9, <3>10 DEF Replayed, SimOK, SavedOK, SameMatch, t
  <2> QED
    BY <2>4, <2>5
<1> QED
  BY <1>1, <1>2

\* The loop, turn by turn.
TryAll(s, seq) == FoldLeft(TryCheckpoint, s, seq)

\* c[i] is the session after i turns, and c[n] what the loop returns.
TryTurns(c, n, s, seq) ==
    /\ c[0] = s /\ \A i \in 1 .. n : c[i] = TryCheckpoint(c[i - 1], seq[i])
    /\ TryAll(s, seq) = c[n]

\* The results of the turns of tryCheckpoints' loop are a sequence.
LEMMA TriesChain ==
    ASSUME NEW n \in Nat, NEW s, NEW seq, DOMAIN seq = 1 .. n
    PROVE  \E c : TryTurns(c, n, s, seq)
<1>1. TryAll(s, seq) = Tries!Fold(s, seq)
  BY DEF TryAll, Tries!Fold, FoldLeft, MapThenFoldSet, Max, Tries!MapThenFoldSet, Tries!Max
<1>2. PICK c : /\ c[0] = s /\ \A i \in 1 .. n : c[i] = TryCheckpoint(c[i - 1], seq[i])
               /\ Tries!Fold(s, seq) = c[n]
  BY Tries!FoldLeftChain, SMTT(30)
<1> QED
  BY <1>1, <1>2 DEF TryTurns

\* The turns of a loop over checkpoint frames that are simulated.
LEMMA TriesKeep ==
    ASSUME NEW s, NEW n \in Nat, NEW x, NEW mine \in Seq(Inputs), NEW b, Replayed(s, n, x, mine, b),
           n <= Len(mine), NEW k \in Nat, NEW due, DOMAIN due = 1 .. k,
           \A i \in 1 .. k : due[i].frame \in Nat /\ due[i].frame < n /\ due[i].limit \in Int
    PROVE  LET t == TryAll(s, due) IN
           Replayed(t, n, x, mine, b) /\ SameMatch(s, t) /\ MayEnd(s, t)
<1>1. PICK c : TryTurns(c, k, s, due)
  BY TriesChain
<1> DEFINE P(t) == Replayed(t, n, x, mine, b) /\ SameMatch(s, t) /\ MayEnd(s, t)
           S == {i \in 0 .. k : P(c[i])}
<1>2. 0 \in S
  BY <1>1 DEF SameMatch, MayEnd, TryTurns
<1>3. ASSUME NEW i \in 1 .. k, i - 1 \in S PROVE i \in S
  <2>1. P(c[i - 1])
    BY <1>3
  <2>2. c[i] = TryCheckpoint(c[i - 1], due[i])
    BY <1>1 DEF TryTurns
  <2>3. /\ Replayed(c[i], n, x, mine, b) /\ SameMatch(c[i - 1], c[i]) /\ MayEnd(c[i - 1], c[i])
    BY <2>1, <2>2, TryCheckpointKeeps
  <2>4. P(c[i])
    BY <2>1, <2>3, SameMatchTransitive
  <2> QED
    BY <2>4
<1>4. k \in S
  <2> HIDE DEF S
  <2> QED
    BY <1>2, <1>3, UpTo
<1> QED
  BY <1>1, <1>4 DEF TryTurns

\* tryCheckpoints up to a limit that is simulated.
LEMMA TryCheckpointsKeep ==
    ASSUME NEW s, NEW n \in Nat, NEW x, NEW mine \in Seq(Inputs), NEW b, Replayed(s, n, x, mine, b),
           n <= Len(mine), NEW limit \in Int, limit < n
    PROVE  LET t == TryCheckpoints(s, limit) IN
           Replayed(t, n, x, mine, b) /\ SameMatch(s, t) /\ MayEnd(s, t)
<1> DEFINE k == Most((limit - s.nextCheck) \div K + 1, 0)
           due == Due(s, limit)
<1>1. s.nextCheck \in Nat \ {0} /\ limit - s.nextCheck \in Int
  BY DEF Replayed, Typed
<1>2. (limit - s.nextCheck) \div K \in Int
  BY <1>1, Consts
<1>3. k \in Nat /\ \A i \in 1 .. k : i - 1 \in Nat /\ i - 1 <= (limit - s.nextCheck) \div K
  BY <1>2 DEF Most
<1>4. DOMAIN due = 1 .. k
  BY DEF Due
<1>5. ASSUME NEW i \in 1 .. k
      PROVE  due[i].frame \in Nat /\ due[i].frame < n /\ due[i].limit \in Int
  <2>1. due[i].frame = s.nextCheck + (i - 1) * K /\ due[i].limit = limit
    BY <1>3 DEF Due
  <2>2. i - 1 \in Nat /\ i - 1 <= (limit - s.nextCheck) \div K
    BY <1>3
  <2>3. (i - 1) * K \in Nat /\ (i - 1) * K <= limit - s.nextCheck
    <3> DEFINE a == limit - s.nextCheck
               j == i - 1
    <3>1. a \in Int /\ j \in Nat /\ j <= a \div K
      BY <1>1, <2>2
    <3> HIDE DEF a, j
    <3>2. j * K \in Nat /\ j * K <= a
      BY <3>1, Multiples
    <3> QED
      BY <3>2 DEF a, j
  <2> QED
    BY <1>1, <2>1, <2>3
<1> HIDE DEF k, due
<1>6. TryCheckpoints(s, limit) = TryAll(s, due)
  BY DEF TryCheckpoints, TryAll, due
<1>7. k \in Nat
  BY <1>3
<1> QED
  BY <1>4, <1>5, <1>6, <1>7, TriesKeep

-----------------------------------------------------------------------------
(* Simulation.                                                             *)

\* A prefix is not changed by an element put at the end.
LEMMA PrefixOfAppend ==
    ASSUME NEW S, NEW s \in Seq(S), NEW e \in S, NEW n \in 0 .. Len(s)
    PROVE  SubSeq(Append(s, e), 1, n) = SubSeq(s, 1, n) /\ SubSeq(s, 1, Len(s)) = s
<1> DEFINE t == Append(s, e)
<1>1. /\ t \in Seq(S) /\ Len(t) = Len(s) + 1
      /\ \A i \in 1 .. Len(s) : t[i] = s[i]
  BY AppendProperties
<1> HIDE DEF t
<1>2. n \in Nat /\ Len(s) \in Nat /\ \A i \in 1 .. n : i \in 1 .. Len(s)
  OBVIOUS
<1>3. \A i \in 1 .. Len(s) : s[i] \in S
  OBVIOUS
<1>4. \A i \in 1 .. n : s[i] \in S /\ t[i] \in S /\ t[i] = s[i]
  BY <1>1, <1>2, <1>3
<1>5. /\ SubSeq(s, 1, n) \in Seq(S) /\ Len(SubSeq(s, 1, n)) = n
      /\ \A i \in 1 .. n : SubSeq(s, 1, n)[i] = s[i]
  BY <1>2, <1>4, PrefixFacts
<1>6. /\ SubSeq(t, 1, n) \in Seq(S) /\ Len(SubSeq(t, 1, n)) = n
      /\ \A i \in 1 .. n : SubSeq(t, 1, n)[i] = t[i]
  BY <1>2, <1>4, PrefixFacts
<1>7. /\ SubSeq(s, 1, Len(s)) \in Seq(S) /\ Len(SubSeq(s, 1, Len(s))) = Len(s)
      /\ \A i \in 1 .. Len(s) : SubSeq(s, 1, Len(s))[i] = s[i]
  BY <1>2, <1>3, PrefixFacts
<1>8. SubSeq(t, 1, n) = SubSeq(s, 1, n)
  <2> DEFINE u == SubSeq(t, 1, n)
             v == SubSeq(s, 1, n)
  <2>1. u \in Seq(S) /\ v \in Seq(S) /\ Len(u) = Len(v) /\ \A i \in 1 .. Len(u) : u[i] = v[i]
    BY <1>4, <1>5, <1>6
  <2> HIDE DEF u, v
  <2>2. u = v
    BY <2>1, SeqEqual
  <2> QED
    BY <2>2 DEF u, v
<1>9. SubSeq(s, 1, Len(s)) = s
  <2> DEFINE u == SubSeq(s, 1, Len(s))
  <2>1. u \in Seq(S) /\ Len(u) = Len(s) /\ \A i \in 1 .. Len(u) : u[i] = s[i]
    BY <1>7
  <2> HIDE DEF u
  <2>2. u = s
    BY <2>1, SeqEqual
  <2> QED
    BY <2>2 DEF u
<1> QED
  BY <1>8, <1>9 DEF t

\* What simulating frames leaves alone.
SameInputs(s, t) ==
    /\ t.me = s.me /\ t.fault = s.fault /\ t.delay = s.delay /\ t.delayKnown = s.delayKnown
    /\ t.haveEcho = s.haveEcho /\ t.haveRTT = s.haveRTT
    /\ t.frame = s.frame /\ t.rc = s.rc /\ t.localNext = s.localNext /\ t.peerAck = s.peerAck
    /\ t.firstBad = s.firstBad /\ t.local = s.local /\ t.remote = s.remote
    /\ t.changedFrom = s.changedFrom
    /\ t.ahead = s.ahead /\ t.stalling = s.stalling /\ t.out = s.out

\* Simulating frames twice is like doing so once.
LEMMA SameInputsTransitive ==
    ASSUME NEW s, NEW t, NEW u, SameInputs(s, t), SameInputs(t, u), MayEnd(s, t), MayEnd(t, u)
    PROVE  SameInputs(s, u) /\ MayEnd(s, u)
BY DEF SameInputs, MayEnd

\* The frames from lo on, up to the first n, are saved.
SavedFrom(s, lo, n) == \A f \in 0 .. n - 1 : f >= lo => s.saved[f % NRing].frame = f

\* n frames are simulated again, of which those from lo on are saved.
Midway(s, lo, n, x, mine, b) ==
    Replayed(s, n, x, mine, b) /\ SavedFrom(s, lo, n) /\ RemoteOK(s, b)

\* The frame f whose inputs are retained.
CanStep(s, lo, f, mine) ==
    /\ f \in Nat /\ f < Len(mine) /\ f >= s.rc - History /\ f - s.rc < History
    /\ f - lo < NRing /\ s.local[f % History] = mine[f + 1]

\* The input that a frame is simulated with: the one given, if it is confirmed.
LEMMA InputUsed ==
    ASSUME NEW s, Typed(s), NEW b \in Seq(Inputs), RemoteOK(s, b), NEW f \in Nat, f >= s.rc - History
    PROVE  LET v == IF f < s.rc THEN s.remote[f % History] ELSE Predict(s) IN
           v \in Inputs /\ (f < s.rc => v = b[f + 1])
<1>1. CASE f < s.rc
  <2>1. f \in 0 .. s.rc - 1 /\ f + 1 \in 1 .. Len(b)
    BY <1>1 DEF RemoteOK, Typed
  <2>2. b[f + 1] \in Inputs
    BY <2>1
  <2> QED
    BY <1>1, <2>1, <2>2 DEF RemoteOK
<1>2. CASE ~(f < s.rc)
  <2>1. Predict(s) \in Inputs
    <3>1. CASE s.rc > 0
      <4>1. s.rc - 1 \in Nat
        BY <3>1 DEF Typed
      <4>2. (s.rc - 1) % History \in 0 .. History - 1
        BY <4>1, ModRange, Consts
      <4> QED
        BY <3>1, <4>2 DEF Predict, Typed, Ring
    <3> QED
      BY <3>1, Consts DEF Predict
  <2> QED
    BY <1>2, <2>1
<1> QED
  BY <1>1, <1>2

\* One frame, before the checkpoint after it.
Stepped(s, f, v) ==
    [s EXCEPT !.saved[f % NRing] = [frame |-> f, state |-> s.game,
                                    pair |-> PairOf(s, s.local[f % History], v)],
              !.used[f % History] = v,
              !.game = Step(s, PairOf(s, s.local[f % History], v))]

\* The fields of a session after a frame.
LEMMA SteppedFields ==
    ASSUME NEW s, Typed(s), NEW f \in Nat, Len(s.game) = f, NEW v \in Inputs
    PROVE  LET t == Stepped(s, f, v)
               pair == PairAs(s.me, s.local[f % History], v)
           IN  /\ Typed(t) /\ SameInputs(s, t) /\ MayEnd(s, t)
               /\ t.err = s.err /\ t.cp = s.cp /\ t.rem = s.rem
               /\ pair \in Inputs \X Inputs
               /\ t.saved = [s.saved EXCEPT ![f % NRing] =
                                [frame |-> f, state |-> s.game, pair |-> pair]]
               /\ t.used = [s.used EXCEPT ![f % History] = v]
               /\ t.game = Append(s.game, Outcome(s.fault, f, pair))
<1> DEFINE pair == PairAs(s.me, s.local[f % History], v)
           save == [frame |-> f, state |-> s.game, pair |-> pair]
           saved == [s.saved EXCEPT ![f % NRing] = save]
           used == [s.used EXCEPT ![f % History] = v]
           game == Append(s.game, Outcome(s.fault, f, pair))
           t == Stepped(s, f, v)
<1>1. f % NRing \in 0 .. NRing - 1 /\ f % History \in 0 .. History - 1
  BY ModRange, Consts
<1>2. pair \in Inputs \X Inputs
  <2>1. s.local[f % History] \in Inputs /\ s.me \in Players
    BY <1>1 DEF Typed, Ring
  <2> QED
    BY <2>1, PairIs
<1>3. PairOf(s, s.local[f % History], v) = pair
  BY DEF PairOf, PairAs
<1>4. s.game \in Seq(GameStep) /\ Outcome(s.fault, f, pair) \in GameStep
  BY <1>2, OutcomePair DEF Typed, Game
<1>5. Step(s, pair) = game
  BY <1>4 DEF Step, Outcome
<1> HIDE DEF pair
<1>6. game \in Game
  BY <1>4 DEF Game
<1>7. save \in Save
  BY <1>2, <1>4 DEF Save, Game, FrameOrNone
<1> HIDE DEF save, game
<1>8. saved \in [0 .. NRing - 1 -> Save] /\ used \in Ring
  BY <1>1, <1>7 DEF Typed, Ring
<1>9. t = [s EXCEPT !.saved = saved, !.used = used, !.game = game]
  BY <1>3, <1>5 DEF Stepped, save
<1> HIDE DEF saved, used, t
<1>10. /\ Typed(t) /\ SameInputs(s, t) /\ MayEnd(s, t)
       /\ t.err = s.err /\ t.cp = s.cp /\ t.rem = s.rem
       /\ t.saved = saved /\ t.used = used /\ t.game = game
  BY <1>6, <1>8, <1>9 DEF Typed, Names, SameInputs, MayEnd
<1> QED
  BY <1>2, <1>10 DEF saved, used, game, save, pair, t

\* The game after one more frame.
LEMMA SteppedGame ==
    ASSUME NEW s, NEW lo \in Int, NEW f, NEW x, NEW mine \in Seq(Inputs), NEW b \in Seq(Inputs),
           Midway(s, lo, f, x, mine, b), CanStep(s, lo, f, mine),
           NEW v, v = IF f < s.rc THEN s.remote[f % History] ELSE Predict(s)
    PROVE  LET t == Stepped(s, f, v) IN
           /\ SimOK(t, f + 1, t.rc, mine, b) /\ SavedOK(t) /\ SavedFrom(t, lo, f + 1)
<1> DEFINE t == Stepped(s, f, v)
           pair == PairAs(s.me, s.local[f % History], v)
           step == Outcome(s.fault, f, pair)
<1>1. /\ Typed(s) /\ SimOK(s, f, s.rc, mine, b) /\ SavedOK(s) /\ SavedFrom(s, lo, f)
      /\ RemoteOK(s, b)
      /\ f \in Nat /\ f < Len(mine) /\ f >= s.rc - History /\ f - s.rc < History
      /\ f - lo < NRing /\ s.local[f % History] = mine[f + 1] /\ s.rc \in Nat
  BY DEF Midway, Replayed, CanStep, Typed
<1>2. v \in Inputs /\ (f < s.rc => v = b[f + 1])
  BY <1>1, InputUsed
<1>3. /\ Typed(t) /\ SameInputs(s, t) /\ pair \in Inputs \X Inputs
      /\ t.saved = [s.saved EXCEPT ![f % NRing] = [frame |-> f, state |-> s.game, pair |-> pair]]
      /\ t.used = [s.used EXCEPT ![f % History] = v]
      /\ t.game = Append(s.game, step)
  BY <1>1, <1>2, SteppedFields DEF SimOK
<1>4. step \in GameStep /\ SubSeq(step, 1, 2) = pair
  BY <1>3, OutcomePair
<1>5. /\ s.game \in Seq(GameStep) /\ Len(s.game) = f
      /\ t.game \in Seq(GameStep) /\ Len(t.game) = f + 1 /\ t.game[f + 1] = step
      /\ \A i \in 1 .. f : t.game[i] = s.game[i]
  <2>1. s.game \in Seq(GameStep) /\ Len(s.game) = f
    BY <1>1 DEF SimOK, Typed, Game
  <2> HIDE DEF step, t
  <2>2. /\ Append(s.game, step) \in Seq(GameStep) /\ Len(Append(s.game, step)) = Len(s.game) + 1
        /\ \A i \in 1 .. Len(s.game) : Append(s.game, step)[i] = s.game[i]
        /\ Append(s.game, step)[Len(s.game) + 1] = step
    BY <1>4, <2>1, AppendProperties
  <2> QED
    BY <1>3, <2>1, <2>2
<1>6. f % NRing \in 0 .. NRing - 1 /\ f % History \in 0 .. History - 1
  BY <1>1, ModRange, Consts
<1>7. pair = PairAs(t.me, mine[f + 1], v) /\ t.me = s.me /\ t.fault = s.fault /\ t.rc = s.rc
  BY <1>1, <1>3 DEF SameInputs
<1>8. t.used[f % History] = v /\ \A e \in s.rc .. f - 1 : t.used[e % History] = s.used[e % History]
  <2>1. ASSUME NEW e \in s.rc .. f - 1 PROVE e % History # f % History
    <3>1. e \in Nat /\ e < f /\ f - e < History /\ History \in Nat \ {0}
      BY <1>1, Consts
    <3> QED
      BY <1>1, <3>1, ModApart
  <2>2. DOMAIN s.used = 0 .. History - 1
    BY <1>1 DEF Typed, Ring
  <2>3. ASSUME NEW e \in s.rc .. f - 1 PROVE e % History \in 0 .. History - 1
    <3>1. s.rc \in Nat /\ History \in Nat \ {0}
      BY <1>1, Consts
    <3>2. e \in Nat
      BY <3>1
    <3> QED
      BY <3>1, <3>2, ModRange
  <2> QED
    BY <1>3, <1>6, <2>1, <2>2, <2>3
<1> HIDE DEF t, step
<1>9. SimOK(t, f + 1, t.rc, mine, b)
  <2>1. ASSUME NEW e \in 0 .. f, e < f
        PROVE  /\ e < t.rc => t.game[e + 1] = TrueStep(t.me, t.fault, mine, b, e)
               /\ e >= t.rc => t.game[e + 1] = Outcome(t.fault, e,
                                   PairAs(t.me, mine[e + 1], t.used[e % History]))
    <3>1. e \in 0 .. f - 1 /\ e + 1 \in 1 .. f
      BY <1>1, <2>1
    <3>2. t.game[e + 1] = s.game[e + 1]
      BY <1>5, <3>1
    <3>3. e >= t.rc => t.used[e % History] = s.used[e % History]
      BY <1>7, <1>8, <3>1, <1>1
    <3> QED
      BY <1>1, <1>7, <3>1, <3>2, <3>3 DEF SimOK
  <2>2. /\ f < t.rc => t.game[f + 1] = TrueStep(t.me, t.fault, mine, b, f)
        /\ f >= t.rc => t.game[f + 1] = Outcome(t.fault, f,
                            PairAs(t.me, mine[f + 1], t.used[f % History]))
    BY <1>2, <1>5, <1>7, <1>8 DEF TrueStep, step
  <2>3. ASSUME NEW e \in 0 .. (f + 1) - 1
        PROVE  /\ e < t.rc => t.game[e + 1] = TrueStep(t.me, t.fault, mine, b, e)
               /\ e >= t.rc => t.game[e + 1] = Outcome(t.fault, e,
                                   PairAs(t.me, mine[e + 1], t.used[e % History]))
    <3>1. e \in 0 .. f /\ (e < f \/ e = f)
      BY <1>1
    <3>2. CASE e < f
      BY <2>1, <3>1, <3>2
    <3>3. CASE e = f
      BY <2>2, <3>3
    <3> QED
      BY <3>1, <3>2, <3>3
  <2>4. Len(t.game) = f + 1
    BY <1>5
  <2> QED
    BY <2>3, <2>4 DEF SimOK
<1>10. SavedOK(t)
  <2> SUFFICES ASSUME NEW i \in 0 .. NRing - 1, t.saved[i].frame # NoFrame
               PROVE  /\ t.saved[i].frame % NRing = i
                      /\ t.saved[i].frame < Len(t.game) =>
                           /\ t.saved[i].state = SubSeq(t.game, 1, t.saved[i].frame)
                           /\ t.saved[i].pair = SubSeq(t.game[t.saved[i].frame + 1], 1, 2)
    BY DEF SavedOK
  <2>0. DOMAIN s.saved = 0 .. NRing - 1
    BY <1>1 DEF Typed
  <2>1. CASE i = f % NRing
    <3>1. t.saved[i] = [frame |-> f, state |-> s.game, pair |-> pair]
      BY <1>3, <2>0, <2>1
    <3>2. SubSeq(t.game, 1, f) = s.game
      BY <1>3, <1>4, <1>5, PrefixOfAppend
    <3> QED
      BY <1>4, <1>5, <2>1, <3>1, <3>2
  <2>2. CASE i # f % NRing
    <3>1. t.saved[i] = s.saved[i]
      BY <1>3, <2>0, <2>2
    <3> DEFINE held == s.saved[i]
    <3>2. held \in Save
      BY <1>1 DEF Typed
    <3>3. held.frame \in Nat /\ held.frame % NRing = i /\ held.frame # f
          /\ (held.frame < f => /\ held.state = SubSeq(s.game, 1, held.frame)
                                /\ held.pair = SubSeq(s.game[held.frame + 1], 1, 2))
      BY <1>1, <1>5, <2>2, <3>1, <3>2 DEF SavedOK, Save, FrameOrNone
    <3> HIDE DEF held
    <3>4. CASE held.frame < f
      <4>1. SubSeq(t.game, 1, held.frame) = SubSeq(s.game, 1, held.frame)
        <5>1. held.frame \in 0 .. Len(s.game)
          BY <1>5, <3>3, <3>4
        <5> QED
          BY <1>3, <1>4, <1>5, <5>1, PrefixOfAppend
      <4>2. t.game[held.frame + 1] = s.game[held.frame + 1]
        <5>1. held.frame + 1 \in 1 .. f
          BY <1>1, <3>3, <3>4
        <5> QED
          BY <1>5, <5>1
      <4> QED
        BY <3>1, <3>3, <3>4, <4>1, <4>2 DEF held
    <3>5. CASE ~(held.frame < f)
      <4>1. ~(held.frame < Len(t.game))
        BY <1>1, <1>5, <3>3, <3>5
      <4> QED
        BY <3>1, <3>3, <4>1 DEF held
    <3> QED
      BY <3>4, <3>5
  <2> QED
    BY <2>1, <2>2
<1>11. SavedFrom(t, lo, f + 1)
  <2> SUFFICES ASSUME NEW e \in 0 .. f, e >= lo PROVE t.saved[e % NRing].frame = e
    <3>1. 0 .. (f + 1) - 1 = 0 .. f
      BY <1>1
    <3> QED
      BY <3>1 DEF SavedFrom
  <2>0. DOMAIN s.saved = 0 .. NRing - 1
    BY <1>1 DEF Typed
  <2>1. CASE e = f
    <3>1. t.saved[f % NRing] = [frame |-> f, state |-> s.game, pair |-> pair]
      BY <1>3, <1>6, <2>0
    <3> QED
      BY <2>1, <3>1
  <2>2. CASE e # f
    <3>1. e \in Nat /\ e < f /\ f - e < NRing /\ NRing \in Nat \ {0} /\ e \in 0 .. f - 1
      BY <1>1, <2>2, Consts
    <3>2. e % NRing # f % NRing /\ e % NRing \in 0 .. NRing - 1
      BY <1>1, <3>1, ModApart, ModRange
    <3>3. s.saved[e % NRing].frame = e
      BY <1>1, <3>1 DEF SavedFrom
    <3> QED
      BY <1>3, <2>0, <3>2, <3>3
  <2> QED
    BY <2>1, <2>2
<1> QED
  BY <1>9, <1>10, <1>11 DEF t

\* The first n frames are as they were.
SameStart(s, t, n) == \A i \in 1 .. n : t.game[i] = s.game[i]

\* Simulating a frame whose inputs are retained.
LEMMA StepFrameKeeps ==
    ASSUME NEW s, NEW lo \in Int, NEW f, NEW x, NEW mine \in Seq(Inputs), NEW b \in Seq(Inputs),
           Midway(s, lo, f, x, mine, b), CanStep(s, lo, f, mine)
    PROVE  LET t == StepFrame(s, f) IN
           /\ Midway(t, lo, f + 1, x, mine, b) /\ SameInputs(s, t) /\ MayEnd(s, t)
           /\ SameStart(s, t, f)
<1>0. PICK v : v = IF f < s.rc THEN s.remote[f % History] ELSE Predict(s)
  OBVIOUS
<1> DEFINE u == Stepped(s, f, v)
           t == TryCheckpoints(u, f)
<1>1. StepFrame(s, f) = t
  BY <1>0 DEF StepFrame, Stepped
<1>2. Typed(s) /\ RemoteOK(s, b) /\ f \in Nat /\ Len(s.game) = f /\ f + 1 <= Len(mine) /\ f >= s.rc - History
  BY DEF Midway, Replayed, CanStep, SimOK
<1>3. v \in Inputs
  BY <1>0, <1>2, InputUsed
<1>4. SimOK(u, f + 1, u.rc, mine, b) /\ SavedOK(u) /\ SavedFrom(u, lo, f + 1)
  BY <1>0, SteppedGame
<1>5. /\ Typed(u) /\ SameInputs(s, u) /\ MayEnd(s, u)
      /\ u.err = s.err /\ u.cp = s.cp /\ u.rem = s.rem
  <2>1. Typed(u) /\ SameInputs(s, u) /\ MayEnd(s, u)
    BY <1>2, <1>3, SteppedFields
  <2>2. u.err = s.err /\ u.cp = s.cp /\ u.rem = s.rem
    BY <1>2 DEF Stepped, Typed, Names
  <2> QED
    BY <2>1, <2>2
<1>5a. SameStart(s, u, f)
  <2> DEFINE step == Outcome(s.fault, f, PairAs(s.me, s.local[f % History], v))
  <2> DEFINE pair == PairAs(s.me, s.local[f % History], v)
  <2>1. /\ Typed(u) /\ SameInputs(s, u) /\ pair \in Inputs \X Inputs
        /\ u.saved = [s.saved EXCEPT ![f % NRing] = [frame |-> f, state |-> s.game, pair |-> pair]]
        /\ u.used = [s.used EXCEPT ![f % History] = v]
        /\ u.game = Append(s.game, step)
    BY <1>2, <1>3, SteppedFields
  <2>2. s.game \in Seq(GameStep) /\ step \in GameStep
    BY <1>2, <2>1, OutcomePair DEF Typed, Game
  <2> HIDE DEF step, u, t
  <2>3. \A i \in 1 .. Len(s.game) : Append(s.game, step)[i] = s.game[i]
    BY <2>2, AppendProperties
  <2> QED
    BY <1>2, <2>1, <2>3 DEF SameStart
<1> HIDE DEF u
<1>6. ChecksTrue(u, x, mine, b) /\ RemoteOK(u, b)
  BY <1>5 DEF Midway, Replayed, ChecksTrue, ChecksOK, RemsOK, DesyncOK, RemoteOK, SameInputs
<1>7. Replayed(u, f + 1, x, mine, b)
  BY <1>4, <1>5, <1>6 DEF Replayed
<1>8. f + 1 \in Nat /\ f \in Int /\ f < f + 1
  BY <1>2
<1>9. Replayed(t, f + 1, x, mine, b) /\ SameMatch(u, t) /\ MayEnd(u, t)
  BY <1>2, <1>7, <1>8, TryCheckpointsKeep
<1> HIDE DEF t
<1>10. SameInputs(u, t) /\ SavedFrom(t, lo, f + 1) /\ RemoteOK(t, b)
  BY <1>4, <1>6, <1>9 DEF SameMatch, SameInputs, SavedFrom, RemoteOK
<1>11. SameInputs(s, t) /\ MayEnd(s, t)
  BY <1>5, <1>9, <1>10, SameInputsTransitive
<1>12. SameStart(s, t, f)
  BY <1>5a, <1>9 DEF SameStart, SameMatch
<1> QED
  BY <1>1, <1>9, <1>10, <1>11, <1>12 DEF Midway

\* The loop over frames, turn by turn.
StepAll(s, seq) == FoldLeft(StepFrame, s, seq)

StepTurns(c, n, s, seq) ==
    /\ c[0] = s /\ \A i \in 1 .. n : c[i] = StepFrame(c[i - 1], seq[i])
    /\ StepAll(s, seq) = c[n]

\* The results of the turns of a loop over frames are a sequence.
LEMMA FramesChain ==
    ASSUME NEW n \in Nat, NEW s, NEW seq, DOMAIN seq = 1 .. n
    PROVE  \E c : StepTurns(c, n, s, seq)
<1>1. StepAll(s, seq) = Frames!Fold(s, seq)
  BY DEF StepAll, Frames!Fold, FoldLeft, MapThenFoldSet, Max, Frames!MapThenFoldSet, Frames!Max
<1>2. PICK c : /\ c[0] = s /\ \A i \in 1 .. n : c[i] = StepFrame(c[i - 1], seq[i])
               /\ Frames!Fold(s, seq) = c[n]
  BY Frames!FoldLeftChain, SMTT(30)
<1> QED
  BY <1>1, <1>2 DEF StepTurns

\* Whether a frame can be simulated depends on the inputs retained only.
LEMMA CanStepSame ==
    ASSUME NEW s, NEW t, SameInputs(s, t), NEW lo, NEW f, NEW mine, CanStep(s, lo, f, mine)
    PROVE  CanStep(t, lo, f, mine)
BY DEF CanStep, SameInputs

\* Simulating the frames up to the present whose inputs are retained.
LEMMA StepFramesKeep ==
    ASSUME NEW s, NEW lo \in Int, NEW from \in Nat, NEW to \in Nat, from <= to,
           NEW x, NEW mine \in Seq(Inputs), NEW b \in Seq(Inputs),
           Midway(s, lo, from, x, mine, b), \A f \in from .. to - 1 : CanStep(s, lo, f, mine)
    PROVE  LET t == StepFrames(s, from, to) IN
           /\ Midway(t, lo, to, x, mine, b) /\ SameInputs(s, t) /\ MayEnd(s, t)
           /\ SameStart(s, t, from)
<1> DEFINE n == to - from
           seq == [i \in 1 .. n |-> from + i - 1]
<1>1. n \in Nat /\ Most(to - from, 0) = n
  BY DEF Most
<1>2. StepFrames(s, from, to) = StepAll(s, seq)
  BY <1>1 DEF StepFrames, StepAll
<1>3. DOMAIN seq = 1 .. n /\ \A i \in 1 .. n : seq[i] = from + i - 1
  OBVIOUS
<1> HIDE DEF seq
<1>4. PICK c : StepTurns(c, n, s, seq)
  <2> HIDE DEF n
  <2> QED
    BY <1>1, <1>3, FramesChain
<1> DEFINE P(t, f) == Midway(t, lo, f, x, mine, b) /\ SameInputs(s, t) /\ MayEnd(s, t) /\ SameStart(s, t, from)
           S == {i \in 0 .. n : P(c[i], from + i)}
<1>5. 0 \in S
  <2>1. c[0] = s /\ from + 0 = from /\ 0 \in 0 .. n
    BY <1>1, <1>4 DEF StepTurns
  <2>2. P(s, from)
    BY DEF SameInputs, MayEnd, SameStart
  <2> QED
    BY <2>1, <2>2
<1>6. ASSUME NEW i \in 1 .. n, i - 1 \in S PROVE i \in S
  <2> DEFINE f == from + i - 1
             d == c[i - 1]
             e == c[i]
  <2>1. P(d, f) /\ f \in from .. to - 1 /\ f + 1 = from + i /\ f \in Nat
    <3>1. from + (i - 1) = f
      OBVIOUS
    <3> QED
      BY <1>6, <3>1
  <2>2. e = StepFrame(d, f)
    BY <1>3, <1>4 DEF StepTurns
  <2> HIDE DEF d, e, f, n
  <2>3. CanStep(d, lo, f, mine)
    BY <2>1, CanStepSame
  <2>4. /\ Midway(e, lo, f + 1, x, mine, b) /\ SameInputs(d, e) /\ MayEnd(d, e) /\ SameStart(d, e, f)
    BY <2>1, <2>2, <2>3, StepFrameKeeps
  <2>5. SameInputs(s, e) /\ MayEnd(s, e)
    BY <2>1, <2>4, SameInputsTransitive
  <2>6. SameStart(s, e, from)
    BY <2>1, <2>4 DEF SameStart
  <2>7. P(e, from + i)
    BY <2>1, <2>4, <2>5, <2>6
  <2> QED
    BY <2>7 DEF e
<1>7. n \in S
  <2> HIDE DEF S, n
  <2> QED
    BY <1>1, <1>5, <1>6, UpTo
<1>8. P(c[n], to)
  BY <1>1, <1>7
<1> QED
  BY <1>2, <1>4, <1>8 DEF StepTurns

-----------------------------------------------------------------------------
(* Repairing a wrong prediction.                                           *)

\* What a session is in the middle of a tick, whichever frames it simulates again.
SameSession(s, t) ==
    /\ t.me = s.me /\ t.fault = s.fault /\ t.delay = s.delay /\ t.frame = s.frame
    /\ t.rc = s.rc /\ t.localNext = s.localNext /\ t.peerAck = s.peerAck
    /\ t.local = s.local /\ t.remote = s.remote /\ t.out = s.out

\* Neither simulating frames nor comparing checksums makes it another session.
LEMMA SameSessionFrom ==
    ASSUME NEW s, NEW t, SameInputs(s, t) \/ SameMatch(s, t)
    PROVE  SameSession(s, t)
BY DEF SameSession, SameInputs, SameMatch

\* Nor do two such steps in a row.
LEMMA SameSessionTransitive ==
    ASSUME NEW s, NEW t, NEW u, SameSession(s, t), SameSession(t, u)
    PROVE  SameSession(s, u)
BY DEF SameSession

\* The inputs of the other player that a tick can bring are retained.
Near(b, r0) == Len(b) <= r0 + History

\* The frames that a rollback simulates again.
LEMMA RetainedFrames ==
    ASSUME NEW s, NEW r0 \in Nat, NEW g \in Seq(Inputs), NEW q, NEW b \in Seq(Inputs),
           Fine(s, r0, g, q, b), Near(b, r0), NEW f \in Nat, r0 <= f, f < s.frame
    PROVE  CanStep(s, s.frame - NRing, f, Said(s, g))
<1>1. /\ Typed(s) /\ LocalOK(s, g) /\ s.rc <= Len(b) /\ s.frame - r0 <= Window /\ r0 <= s.rc
      /\ s.localNext = s.frame + s.delay
  BY DEF Fine, RemoteOK, Bounds, Phase, Typed
<1>2. /\ s.rc \in Nat /\ s.frame \in Nat /\ s.localNext \in Nat /\ s.delay \in Nat
      /\ s.delay <= MaxInputDelay
  BY <1>1 DEF Typed
<1>3. /\ Len(Said(s, g)) = s.localNext
      /\ \A e \in 0 .. s.localNext - 1 :
            e >= s.localNext - History => s.local[e % History] = Said(s, g)[e + 1]
  BY <1>1, SaidFacts
<1>4. f < s.localNext /\ f >= s.localNext - History /\ f - (s.frame - NRing) < NRing
  BY <1>1, <1>2, Consts
<1>5. f >= s.rc - History /\ f - s.rc < History
  <2>1. s.rc <= r0 + History
    BY <1>1, <1>2, Consts DEF Near
  <2> QED
    BY <1>1, <1>2, <2>1, Consts
<1> QED
  BY <1>2, <1>3, <1>4, <1>5 DEF CanStep

\* A session is well again once its frames are simulated with what it knows.
LEMMA FineAgain ==
    ASSUME NEW s, NEW r0 \in Nat, NEW g \in Seq(Inputs), NEW q, NEW b, Fine(s, r0, g, q, b),
           NEW t, SameSession(s, t), MayEnd(s, t), Replayed(t, s.frame, q.fault, Said(s, g), b),
           SavedAll(t, s.frame), t.firstBad = NoFrame
    PROVE  Fine(t, r0, g, q, b) /\ Said(t, g) = Said(s, g)
<1>1. Said(t, g) = Said(s, g)
  BY DEF Said, SameSession
<1>2. Typed(t) /\ LocalOK(t, g) /\ RemoteOK(t, b) /\ AckOK(t, q)
  BY DEF Fine, Replayed, LocalOK, RemoteOK, AckOK, SameSession
<1>3. SimOK(t, t.frame, Sure(t), Said(t, g), b)
  BY <1>1 DEF Replayed, SameSession, Sure
<1>4. SavedOK(t) /\ SavedAll(t, t.frame)
  BY DEF Replayed, SameSession
<1>5. ChecksOK(t, Said(t, g), b) /\ RemsOK(t, q.fault, Said(t, g), b) /\ DesyncOK(t, q.fault)
  BY <1>1 DEF Replayed, ChecksTrue
<1>6. Phase(t) /\ Bounds(t, r0)
  BY DEF Fine, Phase, Bounds, SameSession, MayEnd
<1> QED
  BY <1>1, <1>2, <1>3, <1>4, <1>5, <1>6 DEF Fine

BackAt(s, f) == [s EXCEPT !.game = s.saved[f % NRing].state]

\* The state that a rollback starts from: the first f frames are right.
LEMMA GoneBack ==
    ASSUME NEW s, NEW r0 \in Nat, NEW g \in Seq(Inputs), NEW q, NEW b \in Seq(Inputs),
           Fine(s, r0, g, q, b), NEW f, f = s.firstBad, f # NoFrame
    PROVE  LET u == BackAt(s, f) IN
           /\ s.saved[f % NRing].frame = f
           /\ Midway(u, s.frame - NRing, f, q.fault, Said(s, g), b)
           /\ SameInputs(s, u) /\ MayEnd(s, u) /\ SameStart(s, u, f)
<1>0. PICK held : held = s.saved[f % NRing]
  OBVIOUS
<1> DEFINE u == [s EXCEPT !.game = held.state]
           mine == Said(s, g)
<1>1. /\ Typed(s) /\ SimOK(s, s.frame, f, mine, b) /\ SavedOK(s) /\ SavedAll(s, s.frame)
      /\ ChecksTrue(s, q.fault, mine, b) /\ RemoteOK(s, b)
      /\ f \in Nat /\ f < s.frame /\ f < s.rc /\ r0 <= f /\ s.frame - r0 <= Window
      /\ s.frame \in Nat /\ s.rc \in Nat
  BY DEF Fine, Sure, Bounds, ChecksTrue, Typed, FrameOrNone
<1>2. f >= s.frame - NRing /\ f \in 0 .. s.frame - 1 /\ f % NRing \in 0 .. NRing - 1
  <2>1. NRing \in Nat \ {0} /\ Window <= NRing /\ Window \in Nat
    BY Consts
  <2> HIDE DEF u, mine
  <2>2. f % NRing \in 0 .. NRing - 1
    BY <1>1, <2>1, ModRange
  <2> QED
    BY <1>1, <2>1, <2>2
<1>3. held.frame = f
  BY <1>0, <1>1, <1>2 DEF SavedAll
<1>4. held \in Save /\ held.state \in Game
  BY <1>0, <1>1, <1>2 DEF Typed, Save
<1>5. s.game \in Seq(GameStep) /\ Len(s.game) = s.frame
  BY <1>1 DEF Typed, Game, SimOK
<1>6. held.state = SubSeq(s.game, 1, f)
  BY <1>0, <1>1, <1>2, <1>3, <1>5 DEF SavedOK
<1>7. /\ held.state \in Seq(GameStep) /\ Len(held.state) = f
      /\ \A i \in 1 .. f : held.state[i] = s.game[i]
  <2>1. \A i \in 1 .. f : s.game[i] \in GameStep
    BY <1>1, <1>5
  <2> HIDE DEF u, mine
  <2> QED
    BY <1>1, <1>6, <2>1, PrefixFacts
<1>8. /\ Typed(u) /\ SameInputs(s, u) /\ MayEnd(s, u)
      /\ u.game = held.state /\ u.saved = s.saved /\ u.used = s.used
      /\ u.err = s.err /\ u.cp = s.cp /\ u.rem = s.rem
  BY <1>1, <1>4 DEF Typed, Names, SameInputs, MayEnd
<1> HIDE DEF u, mine
<1>9. SimOK(u, f, u.rc, mine, b)
  <2>1. ASSUME NEW e \in 0 .. f - 1
        PROVE  e < u.rc /\ u.game[e + 1] = TrueStep(u.me, u.fault, mine, b, e)
    <3>1. e \in 0 .. s.frame - 1 /\ e + 1 \in 1 .. f /\ e < f /\ e < s.rc
      BY <1>1
    <3>2. s.game[e + 1] = TrueStep(s.me, s.fault, mine, b, e)
      BY <1>1, <3>1 DEF SimOK
    <3> QED
      BY <1>7, <1>8, <3>1, <3>2 DEF SameInputs
  <2>2. u.rc = s.rc /\ Len(u.game) = f
    BY <1>7, <1>8 DEF SameInputs
  <2>3. \A e \in 0 .. f - 1 : ~(e >= s.rc)
    BY <1>1
  <2> QED
    BY <2>1, <2>2, <2>3 DEF SimOK
<1>10. SavedOK(u)
  <2> SUFFICES ASSUME NEW i \in 0 .. NRing - 1, s.saved[i].frame # NoFrame, s.saved[i].frame < f
               PROVE  /\ s.saved[i].state = SubSeq(held.state, 1, s.saved[i].frame)
                      /\ s.saved[i].pair = SubSeq(held.state[s.saved[i].frame + 1], 1, 2)
    BY <1>1, <1>7, <1>8 DEF SavedOK
  <2> DEFINE e == s.saved[i].frame
  <2>1. e \in Nat /\ e < f
    BY <1>1 DEF Typed, Save, FrameOrNone
  <2>2. s.saved[i].state = SubSeq(s.game, 1, e) /\ s.saved[i].pair = SubSeq(s.game[e + 1], 1, 2)
    <3>1. e < Len(s.game)
      BY <1>1, <1>5, <2>1
    <3> QED
      BY <1>1, <3>1 DEF SavedOK
  <2> HIDE DEF e
  <2>3. held.state[e + 1] = s.game[e + 1]
    <3>1. e + 1 \in 1 .. f
      BY <1>1, <2>1
    <3> QED
      BY <1>7, <3>1
  <2>4. SubSeq(held.state, 1, e) = SubSeq(s.game, 1, e)
    <3> DEFINE v == SubSeq(held.state, 1, e)
               w == SubSeq(s.game, 1, e)
    <3>1. \A i_1 \in 1 .. e : /\ s.game[i_1] \in GameStep /\ held.state[i_1] \in GameStep
                              /\ held.state[i_1] = s.game[i_1]
      <4>1. \A i_1 \in 1 .. e : i_1 \in 1 .. f /\ i_1 \in 1 .. Len(s.game)
        BY <1>1, <1>5, <2>1
      <4>2. \A i_1 \in 1 .. Len(s.game) : s.game[i_1] \in GameStep
        BY <1>5
      <4> QED
        BY <1>7, <4>1, <4>2
    <3>2. v \in Seq(GameStep) /\ Len(v) = e /\ \A i_1 \in 1 .. e : v[i_1] = held.state[i_1]
      BY <2>1, <3>1, PrefixFacts
    <3>3. w \in Seq(GameStep) /\ Len(w) = e /\ \A i_1 \in 1 .. e : w[i_1] = s.game[i_1]
      BY <2>1, <3>1, PrefixFacts
    <3> HIDE DEF v, w
    <3>4. \A i_1 \in 1 .. Len(v) : v[i_1] = w[i_1]
      BY <3>1, <3>2, <3>3
    <3>5. v = w
      BY <3>2, <3>3, <3>4, SeqEqual
    <3> QED
      BY <3>5 DEF v, w
  <2> QED
    BY <2>2, <2>3, <2>4 DEF e
<1>11. ChecksTrue(u, q.fault, mine, b) /\ RemoteOK(u, b)
  BY <1>1, <1>8 DEF ChecksTrue, ChecksOK, RemsOK, DesyncOK, RemoteOK, SameInputs
<1>12. SavedFrom(u, s.frame - NRing, f)
  <2>1. ASSUME NEW e \in 0 .. f - 1, e >= s.frame - NRing PROVE s.saved[e % NRing].frame = e
    <3>1. e \in 0 .. s.frame - 1
      BY <1>1
    <3> QED
      BY <1>1, <2>1, <3>1 DEF SavedAll
  <2> QED
    BY <1>8, <2>1 DEF SavedFrom
<1>13. SameStart(s, u, f)
  BY <1>7, <1>8 DEF SameStart
<1> QED
  BY <1>0, <1>3, <1>8, <1>9, <1>10, <1>11, <1>12, <1>13 DEF Midway, Replayed, u, mine, BackAt

\* The marks that a repair leaves are no part of the game.
LEMMA Marked ==
    ASSUME NEW s, NEW n, NEW x, NEW mine, NEW b, Replayed(s, n, x, mine, b), NEW a \in FrameOrNone,
           NEW t, t = [s EXCEPT !.changedFrom = a] \/ (t = [s EXCEPT !.firstBad = a])
    PROVE  /\ Replayed(t, n, x, mine, b) /\ SameSession(s, t) /\ MayEnd(s, t)
           /\ t.game = s.game /\ t.saved = s.saved
           /\ t = [s EXCEPT !.changedFrom = a] => t.changedFrom = a /\ t.firstBad = s.firstBad
           /\ t = [s EXCEPT !.firstBad = a] => t.firstBad = a /\ t.changedFrom = s.changedFrom
<1>1. Typed(s)
  BY DEF Replayed
<1>2. /\ Typed(t) /\ SameSession(s, t) /\ MayEnd(s, t)
      /\ t.game = s.game /\ t.saved = s.saved
      /\ t.cp = s.cp /\ t.rem = s.rem /\ t.err = s.err /\ t.used = s.used
  <2>1. CASE t = [s EXCEPT !.changedFrom = a]
    BY <1>1, <2>1 DEF Typed, Names, SameSession, MayEnd
  <2>2. CASE t = [s EXCEPT !.firstBad = a]
    BY <1>1, <2>2 DEF Typed, Names, SameSession, MayEnd
  <2> QED
    BY <2>1, <2>2
<1>3. /\ t = [s EXCEPT !.changedFrom = a] => t.changedFrom = a /\ t.firstBad = s.firstBad
      /\ t = [s EXCEPT !.firstBad = a] => t.firstBad = a /\ t.changedFrom = s.changedFrom
  BY <1>1 DEF Typed, Names
<1>4. Replayed(t, n, x, mine, b)
  BY <1>2 DEF Replayed, SimOK, SavedOK, ChecksTrue, ChecksOK, RemsOK, DesyncOK, SameSession
<1> QED
  BY <1>2, <1>3, <1>4

\* An end by desync between the first and the last of three states is one of the two.
LEMMA MayEndTransitive ==
    ASSUME NEW s, NEW t, NEW u, MayEnd(s, t), MayEnd(t, u)
    PROVE  MayEnd(s, u)
BY DEF MayEnd

\* A rollback simulates the frames from the wrong one on again.
LEMMA RollbackKeeps ==
    ASSUME NEW s, NEW r0 \in Nat, NEW g \in Seq(Inputs), NEW q, NEW b \in Seq(Inputs),
           Fine(s, r0, g, q, b), Near(b, r0), NEW f, f = s.firstBad, f # NoFrame
    PROVE  LET t == Rollback(s, f) IN
           /\ Replayed(t, s.frame, q.fault, Said(s, g), b) /\ SavedAll(t, s.frame)
           /\ SameSession(s, t) /\ MayEnd(s, t) /\ t.changedFrom = f /\ SameStart(s, t, f)
<1> DEFINE u == BackAt(s, f)
           mine == Said(s, g)
           lo == s.frame - NRing
           v == StepFrames(u, f, s.frame)
<1>1a. PICK t : t = [v EXCEPT !.changedFrom = f]
  OBVIOUS
<1>2. /\ s.saved[f % NRing].frame = f /\ Midway(u, lo, f, q.fault, mine, b)
      /\ SameInputs(s, u) /\ MayEnd(s, u) /\ SameStart(s, u, f)
  BY GoneBack
<1>3. Rollback(s, f) = t
  BY <1>1a, <1>2 DEF Rollback, BackAt
<1> HIDE DEF u
<1>4. /\ f \in Nat /\ f < s.frame /\ r0 <= f /\ s.frame \in Nat /\ lo \in Int
      /\ mine \in Seq(Inputs) /\ f \in FrameOrNone
  <2>1. Typed(s) /\ LocalOK(s, g) /\ Bounds(s, r0)
    BY DEF Fine
  <2>2. mine \in Seq(Inputs)
    BY <2>1, SaidFacts
  <2> HIDE DEF mine
  <2> QED
    BY <2>1, <2>2, Consts DEF Typed, Bounds, FrameOrNone
<1>5. \A e \in f .. s.frame - 1 : CanStep(u, lo, e, mine)
  <2> SUFFICES ASSUME NEW e \in f .. s.frame - 1 PROVE CanStep(u, lo, e, mine)
    OBVIOUS
  <2>1. e \in Nat /\ r0 <= e /\ e < s.frame
    BY <1>4
  <2>2. CanStep(s, lo, e, mine)
    BY <2>1, RetainedFrames
  <2> HIDE DEF mine, lo
  <2> QED
    BY <1>2, <2>2, CanStepSame
<1> HIDE DEF mine
<1>6. /\ Midway(v, lo, s.frame, q.fault, mine, b) /\ SameInputs(u, v) /\ MayEnd(u, v)
      /\ SameStart(u, v, f)
  <2> HIDE DEF lo
  <2>1. f <= s.frame
    BY <1>4
  <2> QED
    BY <1>2, <1>4, <1>5, <2>1, StepFramesKeep
<1> HIDE DEF v
<1>7. /\ Replayed(t, s.frame, q.fault, mine, b) /\ SameSession(v, t) /\ MayEnd(v, t)
      /\ t.changedFrom = f /\ t.game = v.game /\ t.saved = v.saved
  BY <1>1a, <1>4, <1>6, Marked DEF Midway
<1>8. SavedAll(t, s.frame)
  BY <1>6, <1>7 DEF Midway, SavedFrom, SavedAll
<1>9. SameSession(s, t) /\ MayEnd(s, t)
  <2>1. SameSession(s, u) /\ SameSession(u, v)
    BY <1>2, <1>6, SameSessionFrom
  <2> QED
    BY <1>2, <1>6, <1>7, <2>1, SameSessionTransitive, MayEndTransitive
<1>10. SameStart(s, t, f)
  BY <1>2, <1>6, <1>7 DEF SameStart
<1> QED
  BY <1>3, <1>7, <1>8, <1>9, <1>10 DEF mine

\* What a repair does to the game.
Repaired(s, t) ==
    /\ SameSession(s, t) /\ MayEnd(s, t) /\ t.firstBad = NoFrame
    /\ IF s.firstBad = NoFrame THEN t.changedFrom = s.changedFrom /\ t.game = s.game
       ELSE t.changedFrom = s.firstBad /\ SameStart(s, t, s.firstBad)

\* After the repair every confirmed frame is simulated with the inputs given.
LEMMA RepairKeeps ==
    ASSUME NEW s, NEW r0 \in Nat, NEW g \in Seq(Inputs), NEW q, NEW b \in Seq(Inputs),
           Fine(s, r0, g, q, b), Near(b, r0), NEW t, t = Repair(s)
    PROVE  Fine(t, r0, g, q, b) /\ Said(t, g) = Said(s, g) /\ Repaired(s, t)
<1> DEFINE mine == Said(s, g)
           f == s.firstBad
           back == IF f # NoFrame /\ f < s.frame THEN Rollback(s, f) ELSE s
<1>1. /\ Typed(s) /\ s.frame \in Nat /\ mine \in Seq(Inputs) /\ Len(mine) = s.localNext
      /\ s.frame <= s.localNext /\ (f # NoFrame => f < s.frame)
  <2>1. Typed(s) /\ LocalOK(s, g) /\ Bounds(s, r0) /\ Phase(s)
    BY DEF Fine
  <2>2. mine \in Seq(Inputs) /\ Len(mine) = s.localNext
    BY <2>1, SaidFacts
  <2> HIDE DEF mine
  <2> QED
    BY <2>1, <2>2 DEF Typed, Bounds, Phase
<1>2. /\ Replayed(back, s.frame, q.fault, mine, b) /\ SavedAll(back, s.frame)
      /\ SameSession(s, back) /\ MayEnd(s, back)
      /\ IF f = NoFrame THEN back.changedFrom = s.changedFrom /\ back.game = s.game
         ELSE back.changedFrom = f /\ SameStart(s, back, f)
  <2>1. CASE f = NoFrame
    <3>1. back = s
      BY <2>1
    <3>2. Replayed(s, s.frame, q.fault, mine, b) /\ SavedAll(s, s.frame)
      BY <2>1 DEF Fine, Replayed, Sure, ChecksTrue
    <3> QED
      BY <2>1, <3>1, <3>2 DEF SameSession, MayEnd
  <2>2. CASE f # NoFrame
    <3>1. back = Rollback(s, f)
      BY <1>1, <2>2
    <3> HIDE DEF back
    <3> QED
      BY <2>2, <3>1, RollbackKeeps
  <2> QED
    BY <2>1, <2>2
<1>3. PICK u : u = [back EXCEPT !.firstBad = NoFrame]
  OBVIOUS
<1>4. t = TryCheckpoints(u, s.frame - 1)
  BY <1>3 DEF Repair
<1> HIDE DEF back, mine
<1>5. /\ Replayed(u, s.frame, q.fault, mine, b) /\ SameSession(back, u) /\ MayEnd(back, u)
      /\ u.changedFrom = back.changedFrom /\ u.firstBad = NoFrame /\ u.game = back.game
      /\ u.saved = back.saved
  <2>1. NoFrame \in FrameOrNone
    BY DEF FrameOrNone
  <2> QED
    BY <1>2, <1>3, <2>1, Marked
<1>6. Replayed(t, s.frame, q.fault, mine, b) /\ SameMatch(u, t) /\ MayEnd(u, t)
  <2>1. s.frame - 1 \in Int /\ s.frame - 1 < s.frame /\ s.frame <= Len(mine)
    BY <1>1 DEF Typed
  <2> QED
    BY <1>1, <1>4, <1>5, <2>1, TryCheckpointsKeep
<1>7. SameSession(s, t) /\ MayEnd(s, t)
  <2>1. SameSession(u, t)
    BY <1>6, SameSessionFrom
  <2> QED
    BY <1>2, <1>5, <1>6, <2>1, SameSessionTransitive, MayEndTransitive
<1>8. SavedAll(t, s.frame) /\ t.firstBad = NoFrame
  BY <1>2, <1>5, <1>6 DEF SavedAll, SameMatch
<1>9. Repaired(s, t)
  <2>1. t.changedFrom = back.changedFrom /\ t.game = back.game
    BY <1>5, <1>6 DEF SameMatch
  <2> QED
    BY <1>2, <1>7, <1>8, <2>1 DEF Repaired, SameStart
<1>10. Fine(t, r0, g, q, b) /\ Said(t, g) = Said(s, g)
  BY <1>6, <1>7, <1>8, FineAgain DEF mine
<1> QED
  BY <1>9, <1>10

-----------------------------------------------------------------------------
(* A new frame.                                                            *)

\* The session with the input of its next frame.
Committed(s, input) ==
    [s EXCEPT !.local[(s.frame + s.delay) % History] = input,
              !.localNext = s.frame + s.delay + 1, !.stalling = FALSE]

Commits(s, input, t) == t = Committed(s, input)

\* What the other player's session q is to a session that may go on.
OtherOK(q, g) == q.rc \in Nat /\ q.rc <= Len(g) /\ q.delay \in 0 .. MaxInputDelay

\* A session that may simulate a new frame.
MayGoOn(s) ==
    s.status = "running" /\ s.firstBad = NoFrame /\ ~AtLimit(s)

CommittedOf(s, input, t) ==
    /\ Typed(t) /\ MayEnd(s, t)
    /\ t.me = s.me /\ t.fault = s.fault /\ t.delay = s.delay /\ t.frame = s.frame
    /\ t.rc = s.rc /\ t.localNext = s.frame + s.delay + 1 /\ t.peerAck = s.peerAck
    /\ t.local = [s.local EXCEPT ![(s.frame + s.delay) % History] = input]
    /\ t.remote = s.remote /\ t.out = s.out /\ t.firstBad = s.firstBad
    /\ t.changedFrom = s.changedFrom /\ t.game = s.game /\ t.used = s.used
    /\ t.saved = s.saved /\ t.cp = s.cp /\ t.rem = s.rem /\ t.err = s.err
    /\ t.status = s.status

\* What committing the input of the next frame changes, field by field.
LEMMA CommittedFields ==
    ASSUME NEW s, Typed(s), NEW input \in Inputs, NEW t, Commits(s, input, t)
    PROVE  CommittedOf(s, input, t)
<1>1. (s.frame + s.delay) % History \in 0 .. History - 1 /\ s.frame + s.delay + 1 \in Nat
  <2>1. s.frame + s.delay \in Nat /\ History \in Nat \ {0}
    BY Consts DEF Typed
  <2> QED
    BY <2>1, ModRange
<1>2. [s.local EXCEPT ![(s.frame + s.delay) % History] = input] \in Ring
  BY <1>1 DEF Typed, Ring
<1> QED
  BY <1>1, <1>2 DEF Commits, Committed, CommittedOf, Typed, Names, MayEnd

\* The input joins those the player has given.
LEMMA CommittedInputs ==
    ASSUME NEW s, NEW r0, NEW g \in Seq(Inputs), NEW q, NEW b \in Seq(Inputs),
           Fine(s, r0, g, q, b), OtherOK(q, g), MayGoOn(s),
           NEW input \in Inputs, NEW t, Commits(s, input, t)
    PROVE  /\ LocalOK(t, g) /\ Said(t, g) \in Seq(Inputs) /\ Len(Said(t, g)) = s.localNext + 1
           /\ Grows(Said(s, g), Said(t, g)) /\ Said(s, g) \in Seq(Inputs)
           /\ Len(Said(s, g)) = s.localNext
           /\ s.localNext = s.frame + s.delay
<1>1. /\ Typed(s) /\ LocalOK(s, g) /\ s.peerAck <= q.rc /\ s.localNext = s.frame + s.delay
      /\ s.localNext \in Nat /\ s.localNext - s.peerAck < History - HistorySpare
      /\ s.peerAck \in Nat /\ s.frame \in Nat /\ s.delay \in Nat
  <2>1. Typed(s) /\ LocalOK(s, g) /\ s.peerAck <= q.rc /\ s.localNext = s.frame + s.delay
    BY DEF Fine, AckOK, Phase, MayGoOn
  <2>2. s.localNext \in Nat /\ s.peerAck \in Nat /\ s.frame \in Nat /\ s.delay \in 0 .. MaxInputDelay
    BY <2>1 DEF Typed
  <2>3. s.localNext - s.peerAck < History - HistorySpare
    <3>1. ~(s.localNext - s.peerAck >= History - HistorySpare)
      BY DEF MayGoOn, AtLimit
    <3>2. s.localNext - s.peerAck \in Int /\ History - HistorySpare \in Int
      BY <2>2, Consts
    <3> QED
      BY <3>1, <3>2
  <2>4. s.delay \in Nat
    BY <2>2, Consts
  <2> QED
    BY <2>1, <2>2, <2>3, <2>4
<1>2. s.localNext < Len(g) + History /\ Len(g) <= s.localNext
  <2>1. Len(g) \in Nat /\ q.rc \in Nat /\ q.rc <= Len(g) /\ Len(g) <= s.localNext
    BY <1>1 DEF OtherOK, LocalOK
  <2>2. History \in Nat /\ HistorySpare \in Nat
    BY Consts
  <2> QED
    BY <1>1, <2>1, <2>2
<1>3. /\ Typed(t) /\ t.localNext = s.localNext + 1
      /\ t.local = [s.local EXCEPT ![s.localNext % History] = input]
  <2>1. CommittedOf(s, input, t)
    BY <1>1, CommittedFields
  <2> QED
    BY <1>1, <2>1 DEF CommittedOf
<1>4. DOMAIN s.local = 0 .. History - 1 /\ History \in Nat \ {0}
  BY <1>1, Consts DEF Typed, Ring
<1>5. ASSUME NEW f \in Nat, f < s.localNext, f >= s.localNext + 1 - History
      PROVE  t.local[f % History] = s.local[f % History]
  <2>1. f % History # s.localNext % History /\ f % History \in 0 .. History - 1
    BY <1>1, <1>4, <1>5, ModApart, ModRange
  <2> QED
    BY <1>3, <1>4, <2>1
<1>6. LocalOK(t, g)
  <2> SUFFICES ASSUME NEW f \in 0 .. Len(g) - 1, f >= s.localNext + 1 - History
               PROVE  t.local[f % History] = g[f + 1]
    <3>1. Len(g) <= t.localNext /\ t.localNext <= Len(g) + History
      BY <1>1, <1>2, <1>3, <1>4
    <3>2. ASSUME NEW f \in 0 .. Len(g) - 1, f >= t.localNext - History
          PROVE  t.local[f % History] = g[f + 1]
      <4>1. f >= s.localNext + 1 - History
        BY <1>1, <1>3, <1>4, <3>2
      <4> QED
        BY <4>1
    <3> QED
      BY <3>1, <3>2 DEF LocalOK
  <2>1. f \in Nat /\ f < s.localNext /\ f >= s.localNext - History
    BY <1>1, <1>2, <1>4
  <2>2. s.local[f % History] = g[f + 1]
    BY <1>1, <2>1 DEF LocalOK
  <2> QED
    BY <1>5, <2>1, <2>2
<1>7. /\ Said(s, g) \in Seq(Inputs) /\ Len(Said(s, g)) = s.localNext /\ Grows(g, Said(s, g))
      /\ \A f \in 0 .. s.localNext - 1 :
            f >= s.localNext - History => s.local[f % History] = Said(s, g)[f + 1]
  BY <1>1, SaidFacts
<1>8. /\ Said(t, g) \in Seq(Inputs) /\ Len(Said(t, g)) = s.localNext + 1 /\ Grows(g, Said(t, g))
      /\ \A f \in 0 .. s.localNext + 1 - 1 :
            f >= s.localNext + 1 - History => t.local[f % History] = Said(t, g)[f + 1]
  <2>1. /\ Said(t, g) \in Seq(Inputs) /\ Len(Said(t, g)) = t.localNext /\ Grows(g, Said(t, g))
        /\ \A f \in 0 .. t.localNext - 1 :
              f >= t.localNext - History => t.local[f % History] = Said(t, g)[f + 1]
    BY <1>3, <1>6, SaidFacts
  <2>2. t.localNext = s.localNext + 1 /\ s.localNext \in Nat /\ History \in Nat
    BY <1>1, <1>3, <1>4
  <2> QED
    BY <2>1, <2>2
<1>9. ASSUME NEW i \in 1 .. s.localNext PROVE Said(t, g)[i] = Said(s, g)[i]
  <2>1. CASE i <= Len(g)
    <3>1. i \in 1 .. Len(g)
      BY <2>1
    <3> QED
      BY <3>1, <1>7, <1>8 DEF Grows
  <2>2. CASE i > Len(g)
    <3> DEFINE f == i - 1
    <3>1. /\ f \in Nat /\ f < s.localNext /\ f >= s.localNext + 1 - History /\ f + 1 = i
          /\ f \in 0 .. s.localNext - 1 /\ f \in 0 .. s.localNext + 1 - 1
          /\ f >= s.localNext - History
      <4>1. Len(g) \in Nat /\ i \in Nat /\ i <= s.localNext /\ i >= 1
        BY <1>1
      <4>2. f \in Nat /\ f + 1 = i /\ f < s.localNext /\ f >= Len(g)
        BY <1>1, <2>2, <4>1
      <4>3. History \in Nat /\ s.localNext \in Nat /\ s.localNext < Len(g) + History
        BY <1>1, <1>2, <1>4
      <4> HIDE DEF f
      <4> QED
        BY <4>1, <4>2, <4>3
    <3> HIDE DEF f
    <3>2. t.local[f % History] = Said(t, g)[f + 1] /\ s.local[f % History] = Said(s, g)[f + 1]
      BY <1>7, <1>8, <3>1
    <3> QED
      BY <1>5, <3>1, <3>2
  <2> QED
    BY <2>1, <2>2
<1> QED
  BY <1>1, <1>6, <1>7, <1>8, <1>9 DEF Grows

\* What is known of a game stays true when a player gives more inputs.
LEMMA TruthGrows ==
    ASSUME NEW s, NEW t, Typed(s), Typed(t),
           t.me = s.me, t.fault = s.fault, t.rc = s.rc, t.game = s.game, t.used = s.used,
           t.saved = s.saved, t.cp = s.cp, t.rem = s.rem, t.err = s.err,
           NEW n \in Nat, NEW x, NEW a \in Seq(Inputs), NEW a2 \in Seq(Inputs), Grows(a, a2),
           NEW c \in Seq(Inputs), NEW c2 \in Seq(Inputs), Grows(c, c2),
           n <= Len(a), s.rc <= Len(c), Replayed(s, n, x, a, c)
    PROVE  Replayed(t, n, x, a2, c2)
<1>1. s.rc \in Nat /\ s.me \in Players /\ Len(a) <= Len(a2) /\ Len(c) <= Len(c2)
  BY DEF Typed, Grows
<1>2. ASSUME NEW f \in Nat, f < Len(a), f < Len(c)
      PROVE  TrueStep(s.me, s.fault, a2, c2, f) = TrueStep(s.me, s.fault, a, c, f)
  <2>1. f + 1 \in 1 .. Len(a) /\ f + 1 \in 1 .. Len(c)
    BY <1>2
  <2> QED
    BY <2>1 DEF TrueStep, Grows
<1>3. ASSUME NEW f \in Nat, f < Len(a) PROVE a2[f + 1] = a[f + 1]
  <2>1. f + 1 \in 1 .. Len(a)
    BY <1>3
  <2> QED
    BY <2>1 DEF Grows
<1>4. SimOK(t, n, t.rc, a2, c2)
  <2> SUFFICES ASSUME NEW f \in 0 .. n - 1
               PROVE  /\ f < s.rc => s.game[f + 1] = TrueStep(s.me, s.fault, a2, c2, f)
                      /\ f >= s.rc => s.game[f + 1] = Outcome(s.fault, f,
                                         PairAs(s.me, a2[f + 1], s.used[f % History]))
    BY DEF Replayed, SimOK
  <2>1. f \in Nat /\ f < Len(a)
    OBVIOUS
  <2>2. CASE f < s.rc
    <3>1. f < Len(c)
      BY <1>1, <2>1, <2>2
    <3> QED
      BY <1>1, <1>2, <2>1, <2>2, <3>1 DEF Replayed, SimOK
  <2>3. CASE f >= s.rc
    BY <1>1, <1>3, <2>1, <2>3 DEF Replayed, SimOK
  <2> QED
    BY <1>1, <2>2, <2>3
<1>5. SavedOK(t)
  BY DEF Replayed, SavedOK
<1>6. ASSUME NEW y, NEW f \in Nat, f <= Len(a), f <= Len(c)
      PROVE  Played(s.me, y, a2, c2, f) = Played(s.me, y, a, c, f)
  BY <1>6, PlayedGrows
<1>7. ChecksOK(t, a2, c2)
  <2> SUFFICES ASSUME NEW i \in 0 .. CpSlots - 1, s.cp[i].frame # NoFrame
               PROVE  /\ s.cp[i].frame <= s.rc /\ s.cp[i].frame <= Len(a2)
                      /\ s.cp[i].sum = Played(s.me, s.fault, a2, c2, s.cp[i].frame)
    BY DEF ChecksOK
  <2>1. s.cp[i].frame \in Nat
    BY DEF Typed, CpSlot, FrameOrNone
  <2>2. /\ s.cp[i].frame <= s.rc /\ s.cp[i].frame <= Len(a)
        /\ s.cp[i].sum = Played(s.me, s.fault, a, c, s.cp[i].frame)
    BY DEF Replayed, ChecksTrue, ChecksOK
  <2>3. s.cp[i].frame <= Len(c)
    BY <1>1, <2>1, <2>2
  <2> QED
    BY <1>1, <1>6, <2>1, <2>2, <2>3
<1>8. RemsOK(t, x, a2, c2)
  <2> SUFFICES ASSUME NEW i \in 0 .. CpSlots - 1, s.rem[i].frame # NoFrame
               PROVE  /\ s.rem[i].frame <= Len(a2) /\ s.rem[i].frame <= Len(c2)
                      /\ s.rem[i].sum = Played(s.me, x, a2, c2, s.rem[i].frame)
    BY DEF RemsOK
  <2>1. s.rem[i].frame \in Nat
    BY DEF Typed, RemSum, FrameOrNone
  <2>2. /\ s.rem[i].frame <= Len(c) /\ s.rem[i].frame <= Len(a)
        /\ s.rem[i].sum = Played(s.me, x, a, c, s.rem[i].frame)
    BY DEF Replayed, ChecksTrue, RemsOK
  <2> QED
    BY <1>1, <1>6, <2>1, <2>2
<1>9. DesyncOK(t, x)
  BY DEF Replayed, ChecksTrue, DesyncOK
<1> QED
  BY <1>4, <1>5, <1>7, <1>8, <1>9 DEF Replayed, ChecksTrue

Simulates(s, input, t) == t = Simulate(s, input)

\* The session after its new frame, and what the frame is for the application.
Simulated(s, t) ==
    /\ t.me = s.me /\ t.fault = s.fault /\ t.delay = s.delay /\ t.frame = s.frame + 1
    /\ t.rc = s.rc /\ t.localNext = s.localNext + 1 /\ t.peerAck = s.peerAck
    /\ t.out = s.out /\ t.firstBad = NoFrame /\ MayEnd(s, t)
    /\ t.changedFrom = IF s.changedFrom = NoFrame THEN s.frame ELSE s.changedFrom
    /\ SameStart(s, t, s.frame)

\* The new frame can be simulated: every input it needs is retained.
CanGoOn(s, g, q, b, c) ==
    /\ Midway(c, s.frame + 1 - NRing, s.frame, q.fault, Said(c, g), b)
    /\ CanStep(c, s.frame + 1 - NRing, s.frame, Said(c, g))

\* A well session below its limits retains every input its next frame needs.
LEMMA CommittedCanStep ==
    ASSUME NEW s, NEW r0 \in Nat, NEW g \in Seq(Inputs), NEW q, NEW b \in Seq(Inputs),
           Fine(s, r0, g, q, b), OtherOK(q, g), MayGoOn(s),
           NEW input \in Inputs, NEW c, Commits(s, input, c)
    PROVE  CanGoOn(s, g, q, b, c)
<1> DEFINE lo == s.frame + 1 - NRing
           mine == Said(c, g)
           old == Said(s, g)
<1>1. /\ Typed(s) /\ Replayed(s, s.frame, q.fault, old, b) /\ SavedAll(s, s.frame)
      /\ RemoteOK(s, b) /\ AckOK(s, q)
  BY DEF Fine, Replayed, Sure, ChecksTrue, MayGoOn
<1>2. /\ LocalOK(c, g) /\ mine \in Seq(Inputs) /\ Len(mine) = s.localNext + 1
      /\ Grows(old, mine) /\ old \in Seq(Inputs) /\ Len(old) = s.localNext
      /\ s.localNext = s.frame + s.delay
  BY CommittedInputs
<1>3. /\ s.frame \in Nat /\ s.rc \in Nat /\ s.localNext \in Nat /\ s.delay \in Nat
      /\ s.delay <= MaxInputDelay /\ s.peerAck \in Nat
  BY <1>1, Consts DEF Typed
<1>4. /\ Typed(c) /\ c.me = s.me /\ c.fault = s.fault /\ c.rc = s.rc /\ c.game = s.game
      /\ c.used = s.used /\ c.saved = s.saved /\ c.cp = s.cp /\ c.rem = s.rem /\ c.err = s.err
      /\ c.localNext = s.localNext + 1 /\ c.remote = s.remote
  <2>1. CommittedOf(s, input, c)
    BY <1>1, CommittedFields
  <2> QED
    BY <1>2, <1>3, <2>1 DEF CommittedOf
<1> HIDE DEF mine, old, lo
<1>5. Replayed(c, s.frame, q.fault, mine, b)
  <2>1. Grows(b, b) /\ s.frame <= Len(old) /\ s.rc <= Len(b)
    BY <1>1, <1>2, <1>3 DEF Grows, RemoteOK
  <2> QED
    BY <1>1, <1>2, <1>3, <1>4, <2>1, TruthGrows
<1>6. SavedFrom(c, lo, s.frame)
  <2>1. ASSUME NEW f \in 0 .. s.frame - 1, f >= lo PROVE s.saved[f % NRing].frame = f
    <3>1. f >= s.frame - NRing
      BY <1>3, <2>1, Consts DEF lo
    <3> QED
      BY <1>1, <3>1 DEF SavedAll
  <2> QED
    BY <1>4, <2>1 DEF SavedFrom
<1>7. RemoteOK(c, b)
  BY <1>1, <1>4 DEF RemoteOK
<1>8. s.frame - s.rc < Window
  BY <1>3, Consts DEF MayGoOn, AtLimit
<1>9. s.frame >= s.rc - History
  <2>1. s.rc <= s.peerAck + q.delay + Window /\ s.peerAck <= q.rc
    BY <1>1 DEF AckOK
  <2>2. q.rc \in Nat /\ q.rc <= Len(g) /\ q.delay \in Nat /\ q.delay <= MaxInputDelay
    BY Consts DEF OtherOK
  <2>3. Len(g) \in Nat /\ Len(g) <= s.localNext
    <3>1. LocalOK(s, g)
      BY DEF Fine
    <3> QED
      BY <3>1 DEF LocalOK
  <2>4. q.rc <= s.frame + MaxInputDelay /\ MaxInputDelay \in Nat
    <3>1. MaxInputDelay \in Nat
      BY Consts
    <3>2. q.rc <= s.localNext
      BY <1>3, <2>2, <2>3
    <3> QED
      BY <1>2, <1>3, <2>2, <3>1, <3>2
  <2>5. s.rc <= s.frame + MaxInputDelay + MaxInputDelay + Window /\ Window \in Nat
    <3>1. Window \in Nat
      BY Consts
    <3>2. s.peerAck <= s.frame + MaxInputDelay
      BY <1>3, <2>1, <2>2, <2>4
    <3>3. q.delay \in Nat /\ q.delay <= MaxInputDelay /\ MaxInputDelay \in Nat
      BY <2>2, <2>4
    <3>4. s.rc <= s.peerAck + q.delay + Window
      BY <2>1
    <3>5. s.rc \in Nat /\ s.peerAck \in Nat /\ s.frame \in Nat
      BY <1>3
    <3> QED
      BY <3>1, <3>2, <3>3, <3>4, <3>5, DelaysAdd
  <2>6. MaxInputDelay + MaxInputDelay + Window <= History /\ History \in Nat
    BY <2>4, Consts
  <2> QED
    BY <1>3, <2>4, <2>5, <2>6
<1>10. c.local[s.frame % History] = mine[s.frame + 1]
  <2>1. \A f \in 0 .. c.localNext - 1 :
           f >= c.localNext - History => c.local[f % History] = mine[f + 1]
    <3>1. Typed(c) /\ LocalOK(c, g)
      BY <1>2, <1>4
    <3> HIDE DEF mine
    <3>2. \A f \in 0 .. c.localNext - 1 :
             f >= c.localNext - History => c.local[f % History] = Said(c, g)[f + 1]
      BY <3>1, SaidFacts
    <3> QED
      BY <3>2 DEF mine
  <2>2. s.frame \in 0 .. c.localNext - 1 /\ s.frame >= c.localNext - History
    BY <1>2, <1>3, <1>4, Consts
  <2> QED
    BY <2>1, <2>2
<1>11. CanStep(c, lo, s.frame, mine)
  <2>1. s.frame < Len(mine) /\ s.frame - lo < NRing
    BY <1>2, <1>3, Consts DEF lo
  <2>2. s.frame - s.rc < History
    BY <1>3, <1>8, Consts
  <2> QED
    BY <1>3, <1>4, <1>9, <1>10, <2>1, <2>2 DEF CanStep
<1>12. Midway(c, lo, s.frame, q.fault, mine, b)
  BY <1>5, <1>6, <1>7 DEF Midway
<1> QED
  BY <1>11, <1>12 DEF lo, mine, CanGoOn

\* A new frame leaves the session well, with the input given and the frame shown.
LEMMA SimulateKeeps ==
    ASSUME NEW s, NEW r0 \in Nat, NEW g \in Seq(Inputs), NEW q, NEW b \in Seq(Inputs),
           Fine(s, r0, g, q, b), OtherOK(q, g), MayGoOn(s),
           NEW input \in Inputs, NEW t, Simulates(s, input, t)
    PROVE  Fine(t, t.rc, g, q, b) /\ Simulated(s, t) /\ Grows(Said(s, g), Said(t, g))
<1>1. PICK c : Commits(s, input, c)
  BY DEF Commits
<1>2. PICK u : u = StepFrame(c, s.frame)
  OBVIOUS
<1> DEFINE n == s.frame + 1
           lo == n - NRing
           mine == Said(c, g)
           from == IF u.changedFrom = NoFrame THEN s.frame ELSE u.changedFrom
<1>3. t = [u EXCEPT !.frame = @ + 1, !.changedFrom = IF @ = NoFrame THEN s.frame ELSE @]
  BY <1>1, <1>2 DEF Simulates, Simulate, Commits, Committed
<1>4. Typed(s) /\ RemoteOK(s, b) /\ AckOK(s, q) /\ Phase(s) /\ s.status = "running" /\ s.firstBad = NoFrame
  BY DEF Fine, MayGoOn
<1>5. /\ s.frame \in Nat /\ n \in Nat /\ lo \in Int /\ s.rc \in Nat /\ s.localNext \in Nat
      /\ s.delay \in Nat /\ s.changedFrom \in FrameOrNone
  <2>1. /\ s.frame \in Nat /\ s.rc \in Nat /\ s.localNext \in Nat
        /\ s.delay \in 0 .. MaxInputDelay /\ s.changedFrom \in FrameOrNone
    BY <1>4 DEF Typed
  <2>2. MaxInputDelay \in Nat /\ NRing \in Nat
    BY Consts
  <2> QED
    BY <2>1, <2>2
<1>6. /\ LocalOK(c, g) /\ mine \in Seq(Inputs) /\ Grows(Said(s, g), mine)
      /\ s.localNext = s.frame + s.delay
  BY <1>1, CommittedInputs
<1>7. /\ Typed(c) /\ MayEnd(s, c) /\ c.me = s.me /\ c.fault = s.fault /\ c.delay = s.delay
      /\ c.frame = s.frame /\ c.rc = s.rc /\ c.localNext = s.frame + s.delay + 1
      /\ c.peerAck = s.peerAck /\ c.remote = s.remote /\ c.out = s.out
      /\ c.firstBad = s.firstBad /\ c.changedFrom = s.changedFrom /\ c.game = s.game
      /\ c.status = s.status
  <2>1. CommittedOf(s, input, c)
    BY <1>1, <1>4, CommittedFields
  <2> QED
    BY <2>1 DEF CommittedOf
<1>8. Midway(c, lo, s.frame, q.fault, mine, b) /\ CanStep(c, lo, s.frame, mine)
  <2>1. CanGoOn(s, g, q, b, c)
    BY <1>1, CommittedCanStep
  <2>2. s.frame + 1 - NRing = lo
    BY <1>5, Consts
  <2> HIDE DEF lo, mine
  <2> QED
    BY <2>1, <2>2 DEF CanGoOn, mine
<1> HIDE DEF mine, lo
<1>9. /\ Midway(u, lo, n, q.fault, mine, b) /\ SameInputs(c, u) /\ MayEnd(c, u)
      /\ SameStart(c, u, s.frame)
  BY <1>2, <1>5, <1>6, <1>8, StepFrameKeeps
<1>10. Typed(u) /\ u.frame = s.frame /\ u.changedFrom = s.changedFrom
  BY <1>7, <1>9 DEF Midway, Replayed, SameInputs
<1> HIDE DEF n
<1>11. /\ Typed(t) /\ t.frame = n /\ t.changedFrom = from
       /\ t.me = u.me /\ t.fault = u.fault /\ t.delay = u.delay /\ t.rc = u.rc
       /\ t.localNext = u.localNext /\ t.peerAck = u.peerAck /\ t.local = u.local
       /\ t.remote = u.remote /\ t.out = u.out /\ t.firstBad = u.firstBad /\ t.game = u.game
       /\ t.used = u.used /\ t.saved = u.saved /\ t.cp = u.cp /\ t.rem = u.rem
       /\ t.err = u.err /\ t.status = u.status
  <2>1. from \in FrameOrNone /\ u.frame + 1 = n
    BY <1>5, <1>10 DEF FrameOrNone, n
  <2>2. t = [u EXCEPT !.frame = n, !.changedFrom = from]
    BY <1>3, <2>1
  <2> HIDE DEF from
  <2> QED
    BY <1>5, <1>10, <2>1, <2>2 DEF Typed, Names
<1>12. /\ t.me = s.me /\ t.fault = s.fault /\ t.delay = s.delay /\ t.rc = s.rc
       /\ t.localNext = s.localNext + 1 /\ t.peerAck = s.peerAck /\ t.remote = s.remote
       /\ t.out = s.out /\ t.firstBad = NoFrame /\ t.local = c.local /\ t.localNext = c.localNext
  BY <1>4, <1>5, <1>6, <1>7, <1>9, <1>11 DEF SameInputs
<1>13. MayEnd(s, t)
  BY <1>7, <1>9, <1>11 DEF MayEnd
<1>14. Simulated(s, t)
  <2>1. SameStart(s, t, s.frame)
    BY <1>7, <1>9, <1>11 DEF SameStart
  <2> QED
    BY <1>10, <1>11, <1>12, <1>13, <2>1 DEF Simulated, n
<1>15. Said(t, g) = mine
  BY <1>12 DEF Said, mine
<1>16. LocalOK(t, g) /\ RemoteOK(t, b) /\ AckOK(t, q)
  BY <1>4, <1>6, <1>12 DEF LocalOK, RemoteOK, AckOK
<1>17. SimOK(t, t.frame, Sure(t), Said(t, g), b) /\ SavedOK(t)
  <2>1. SimOK(u, n, u.rc, mine, b) /\ SavedOK(u)
    BY <1>9 DEF Midway, Replayed
  <2>2. Sure(t) = t.rc
    BY <1>12 DEF Sure
  <2> QED
    BY <1>11, <1>15, <2>1, <2>2 DEF SimOK, SavedOK
<1>18. SavedAll(t, t.frame)
  <2>1. SavedFrom(u, lo, n)
    BY <1>9 DEF Midway
  <2> QED
    BY <1>11, <2>1 DEF SavedFrom, SavedAll, lo
<1>19. ChecksOK(t, Said(t, g), b) /\ RemsOK(t, q.fault, Said(t, g), b) /\ DesyncOK(t, q.fault)
  BY <1>9, <1>11, <1>15 DEF Midway, Replayed, ChecksTrue, ChecksOK, RemsOK, DesyncOK
<1>20. Phase(t)
  <2>1. t.localNext = t.frame + t.delay /\ t.frame <= t.localNext /\ t.status # "handshake"
    <3>1. t.status = "running" \/ t.status = "ended"
      BY <1>4, <1>13 DEF MayEnd
    <3>2. t.localNext = t.frame + t.delay /\ t.frame <= t.localNext
      <4>1. t.frame = s.frame + 1 /\ t.delay = s.delay /\ t.localNext = s.frame + s.delay + 1
        BY <1>6, <1>11, <1>12 DEF n
      <4> QED
        BY <1>5, <4>1
    <3> QED
      BY <3>1, <3>2
  <2> QED
    BY <2>1 DEF Phase
<1>21. Bounds(t, t.rc)
  <2>1. s.frame - s.rc < Window
    BY <1>5, Consts DEF MayGoOn, AtLimit
  <2>2. t.frame - t.rc <= Window /\ t.rc <= t.rc
    BY <1>5, <1>11, <1>12, <2>1, Consts DEF n
  <2> QED
    BY <1>12, <2>2 DEF Bounds
<1>22. Fine(t, t.rc, g, q, b)
  BY <1>11, <1>16, <1>17, <1>18, <1>19, <1>20, <1>21 DEF Fine
<1> QED
  BY <1>6, <1>14, <1>15, <1>22

-----------------------------------------------------------------------------
(* Reading packets.                                                        *)

\* Continuing a sequence is reflexive and transitive.
LEMMA GrowsFacts ==
    ASSUME NEW a \in Seq(Inputs), NEW c \in Seq(Inputs), NEW d \in Seq(Inputs)
    PROVE  Grows(a, a) /\ (Grows(a, c) /\ Grows(c, d) => Grows(a, d))
<1>1. Len(a) \in Nat /\ Len(c) \in Nat /\ Len(d) \in Nat
  OBVIOUS
<1>2. Grows(a, a)
  BY <1>1 DEF Grows
<1>3. ASSUME Grows(a, c), Grows(c, d) PROVE Grows(a, d)
  <2>1. Len(a) <= Len(c) /\ Len(c) <= Len(d)
    BY <1>3 DEF Grows
  <2>2. ASSUME NEW i \in 1 .. Len(a) PROVE d[i] = a[i]
    <3>1. i \in 1 .. Len(c)
      BY <1>1, <2>1
    <3> QED
      BY <1>3, <3>1 DEF Grows
  <2> QED
    BY <1>1, <2>1, <2>2 DEF Grows
<1> QED
  BY <1>2, <1>3

\* What reading a packet does to a session: no frame is simulated.
ReadOf(s, t, g) ==
    /\ t.me = s.me /\ t.fault = s.fault /\ t.delay = s.delay /\ t.frame = s.frame
    /\ t.changedFrom = s.changedFrom /\ t.out = s.out /\ t.game = s.game
    /\ s.rc <= t.rc /\ s.peerAck <= t.peerAck
    /\ Grows(Said(s, g), Said(t, g))
    /\ s.status # "handshake" => t.status # "handshake"

\* A well session and what the other one is to it.
Well(s, r0, g, q, b) ==
    Fine(s, r0, g, q, b) /\ OtherOK(q, g) /\ q.me = Other(s.me)

\* The counters of a well session and of its peer are numbers.
LEMMA WellNumbers ==
    ASSUME NEW s, NEW r0, NEW g, NEW q, NEW b, Well(s, r0, g, q, b)
    PROVE  /\ s.peerAck \in Nat /\ s.rc \in Nat /\ s.frame \in Nat /\ s.localNext \in Nat
           /\ q.delay \in Nat /\ q.delay <= MaxInputDelay /\ q.rc \in Nat
<1>1. Typed(s) /\ q.delay \in 0 .. MaxInputDelay /\ q.rc \in Nat /\ MaxInputDelay \in Nat
  BY Consts DEF Well, Fine, OtherOK
<1> QED
  BY <1>1 DEF Typed

ReadWell(s, t, r0, g, q, b) == Well(t, r0, g, q, b) /\ ReadOf(s, t, g)

\* Reading two packets is like reading one: the session stays well.
LEMMA ReadWellTransitive ==
    ASSUME NEW s, NEW t, NEW u, NEW r0, NEW g \in Seq(Inputs), NEW q, NEW b,
           Fine(s, r0, g, q, b), ReadWell(s, t, r0, g, q, b), ReadWell(t, u, r0, g, q, b)
    PROVE  ReadWell(s, u, r0, g, q, b)
<1>1. /\ Typed(s) /\ Typed(t) /\ Typed(u) /\ LocalOK(s, g) /\ LocalOK(t, g) /\ LocalOK(u, g)
  BY DEF ReadWell, Well, Fine
<1>2. Said(s, g) \in Seq(Inputs) /\ Said(t, g) \in Seq(Inputs) /\ Said(u, g) \in Seq(Inputs)
  BY <1>1, SaidFacts
<1>3. Grows(Said(s, g), Said(u, g))
  BY <1>2, GrowsFacts DEF ReadWell, ReadOf
<1>4. /\ s.rc \in Nat /\ t.rc \in Nat /\ u.rc \in Nat
      /\ s.peerAck \in Nat /\ t.peerAck \in Nat /\ u.peerAck \in Nat
  BY <1>1 DEF Typed
<1>5. s.rc <= u.rc /\ s.peerAck <= u.peerAck
  BY <1>4 DEF ReadWell, ReadOf
<1> QED
  BY <1>3, <1>5 DEF ReadWell, ReadOf

\* Reading nothing leaves a well session well.
LEMMA ReadWellSelf ==
    ASSUME NEW s, NEW r0, NEW g \in Seq(Inputs), NEW q, NEW b, Well(s, r0, g, q, b)
    PROVE  ReadWell(s, s, r0, g, q, b)
<1>1. Typed(s) /\ LocalOK(s, g) /\ s.rc \in Nat /\ s.peerAck \in Nat
  BY DEF Well, Fine, Typed
<1>2. Said(s, g) \in Seq(Inputs)
  BY <1>1, SaidFacts
<1>3. Grows(Said(s, g), Said(s, g))
  BY <1>2, GrowsFacts
<1> QED
  BY <1>1, <1>3 DEF ReadWell, ReadOf

\* Comparing true checksums keeps a session well.
LEMMA JudgedWell ==
    ASSUME NEW s, NEW r0, NEW g \in Seq(Inputs), NEW q, NEW b, Well(s, r0, g, q, b),
           NEW t, Typed(t), SameMatch(s, t), MayEnd(s, t), ChecksTrue(t, q.fault, Said(s, g), b)
    PROVE  ReadWell(s, t, r0, g, q, b)
<1>1. Said(t, g) = Said(s, g)
  BY DEF Said, SameMatch
<1>2. LocalOK(t, g) /\ RemoteOK(t, b) /\ AckOK(t, q) /\ SavedAll(t, t.frame) /\ SavedOK(t)
  BY DEF Well, Fine, LocalOK, RemoteOK, AckOK, SavedAll, SavedOK, SameMatch
<1>3. SimOK(t, t.frame, Sure(t), Said(t, g), b)
  <2>1. SimOK(s, s.frame, Sure(s), Said(s, g), b)
    BY DEF Well, Fine
  <2>2. Sure(t) = Sure(s)
    BY DEF Sure, SameMatch
  <2> QED
    BY <1>1, <2>1, <2>2 DEF SimOK, SameMatch
<1>4. Phase(t) /\ Bounds(t, r0)
  BY DEF Well, Fine, Phase, Bounds, SameMatch, MayEnd
<1>5. Fine(t, r0, g, q, b)
  BY <1>1, <1>2, <1>3, <1>4 DEF Fine, ChecksTrue
<1>6. ReadWell(s, s, r0, g, q, b)
  BY ReadWellSelf
<1>7. ReadOf(s, t, g)
  BY <1>1, <1>6 DEF ReadWell, ReadOf, SameMatch, MayEnd
<1> QED
  BY <1>5, <1>7 DEF ReadWell, Well, SameMatch

\* A report of the other session that is true.
ReportOK(r, q, g, b) ==
    /\ r \in Report /\ r.frame <= Len(g) /\ r.frame <= Len(b)
    /\ r.sum = Played(q.me, q.fault, b, g, r.frame)

\* onRemoteSum: noting a true report, and comparing it, leaves the session well.
LEMMA OnRemoteSumKeeps ==
    ASSUME NEW s, NEW r0, NEW g \in Seq(Inputs), NEW q, NEW b \in Seq(Inputs), Well(s, r0, g, q, b),
           NEW r, ReportOK(r, q, g, b)
    PROVE  ReadWell(s, OnRemoteSum(s, r), r0, g, q, b)
<1> DEFINE mine == Said(s, g)
           i == Slot(r.frame)
           u == [s EXCEPT !.rem[i] = r]
<1>1. /\ Typed(s) /\ LocalOK(s, g) /\ ChecksTrue(s, q.fault, mine, b) /\ s.me \in Players
      /\ q.me = Other(s.me)
  BY DEF Well, Fine, ChecksTrue, Typed
<1>2. /\ r \in RemSum /\ r.frame \in Nat /\ r.frame # NoFrame /\ r.frame <= Len(g)
      /\ r.frame <= Len(b)
  BY DEF ReportOK, Report, RemSum, FrameOrNone, NoFrame
<1>3. i \in 0 .. CpSlots - 1
  BY <1>2, SlotRange
<1>4. mine \in Seq(Inputs) /\ Grows(g, mine)
  BY <1>1, SaidFacts
<1> HIDE DEF mine, i
<1>5. r.frame <= Len(mine) /\ r.sum = Played(s.me, q.fault, mine, b, r.frame)
  <2>1. r.sum = Played(Other(s.me), q.fault, b, g, r.frame)
    BY <1>1 DEF ReportOK
  <2>2. Played(Other(s.me), q.fault, b, g, r.frame) = Played(s.me, q.fault, g, b, r.frame)
    BY <1>1, <1>2, PlayedByBoth
  <2>3. Grows(b, b)
    BY GrowsFacts
  <2>4. Played(s.me, q.fault, mine, b, r.frame) = Played(s.me, q.fault, g, b, r.frame)
    BY <1>2, <1>4, <2>3, PlayedGrows
  <2>5. r.frame <= Len(mine)
    BY <1>2, <1>4 DEF Grows
  <2> QED
    BY <2>1, <2>2, <2>4, <2>5
<1>6. CASE s.rem[i].frame = r.frame /\ s.rem[i].epoch = r.epoch
  <2>1. OnRemoteSum(s, r) = s
    BY <1>6 DEF OnRemoteSum, i
  <2> QED
    BY <2>1, ReadWellSelf
<1>7. CASE ~(s.rem[i].frame = r.frame /\ s.rem[i].epoch = r.epoch)
  <2>1. OnRemoteSum(s, r) = Judge(u, r.frame)
    BY <1>7 DEF OnRemoteSum, i
  <2>2. /\ [s.rem EXCEPT ![i] = r] \in [0 .. CpSlots - 1 -> RemSum]
        /\ \A j \in 0 .. CpSlots - 1 : [s.rem EXCEPT ![i] = r][j] = IF j = i THEN r ELSE s.rem[j]
    BY <1>1, <1>2, <1>3 DEF Typed
  <2>3. /\ Typed(u) /\ SameMatch(s, u) /\ MayEnd(s, u)
        /\ u.err = s.err /\ u.cp = s.cp /\ u.rem = [s.rem EXCEPT ![i] = r]
    BY <1>1, <2>2 DEF Typed, Names, SameMatch, MayEnd
  <2> HIDE DEF u
  <2>4. RemsOK(u, q.fault, mine, b)
    BY <1>1, <1>2, <1>5, <2>2, <2>3 DEF ChecksTrue, RemsOK, SameMatch
  <2>5. ChecksTrue(u, q.fault, mine, b)
    BY <1>1, <2>3, <2>4 DEF ChecksTrue, ChecksOK, DesyncOK, SameMatch
  <2>6. /\ Typed(Judge(u, r.frame)) /\ SameMatch(u, Judge(u, r.frame))
        /\ MayEnd(u, Judge(u, r.frame)) /\ ChecksTrue(Judge(u, r.frame), q.fault, mine, b)
    BY <1>2, <2>3, <2>5, JudgeKeeps
  <2>7. SameMatch(s, Judge(u, r.frame)) /\ MayEnd(s, Judge(u, r.frame))
    BY <2>3, <2>6, SameMatchTransitive
  <2> QED
    BY <2>1, <2>6, <2>7, JudgedWell DEF mine
<1> QED
  BY <1>6, <1>7

\* noteHeader: the handshake may end, with the inputs of the delay given.
LEMMA NoteHeaderKeeps ==
    ASSUME NEW s, NEW r0 \in Nat, NEW g \in Seq(Inputs), NEW q, NEW b \in Seq(Inputs),
           Well(s, r0, g, q, b), NEW m, m.echo \in BOOLEAN
    PROVE  ReadWell(s, NoteHeader(s, m), r0, g, q, b)
<1> DEFINE h == [s EXCEPT !.haveEcho = TRUE, !.haveRTT = @ \/ m.echo]
           run == [h EXCEPT !.status = "running", !.delayKnown = TRUE, !.localNext = h.delay]
<1>1. /\ Typed(s) /\ LocalOK(s, g) /\ ChecksTrue(s, q.fault, Said(s, g), b) /\ Phase(s)
      /\ RemoteOK(s, b)
  BY DEF Well, Fine, ChecksTrue
<1>2. s.haveRTT \/ m.echo \in BOOLEAN
  BY <1>1 DEF Typed
<1>3. /\ Typed(h) /\ SameMatch([s EXCEPT !.haveEcho = h.haveEcho, !.haveRTT = h.haveRTT], h)
      /\ h.me = s.me /\ h.fault = s.fault /\ h.delay = s.delay
      /\ h.frame = s.frame /\ h.rc = s.rc /\ h.localNext = s.localNext /\ h.peerAck = s.peerAck
      /\ h.firstBad = s.firstBad /\ h.local = s.local /\ h.remote = s.remote /\ h.used = s.used
      /\ h.game = s.game /\ h.saved = s.saved /\ h.changedFrom = s.changedFrom /\ h.out = s.out
      /\ h.cp = s.cp /\ h.rem = s.rem /\ h.err = s.err /\ h.status = s.status
  <2>1. s.haveRTT \/ m.echo \in BOOLEAN
    BY <1>2
  <2> QED
    BY <1>1, <2>1 DEF Typed, Names, SameMatch
<1> HIDE DEF h
<1>4. ReadWell(s, h, r0, g, q, b)
  <2>1. Said(h, g) = Said(s, g)
    BY <1>3 DEF Said
  <2>2. LocalOK(h, g) /\ RemoteOK(h, b) /\ AckOK(h, q) /\ SavedAll(h, h.frame) /\ SavedOK(h)
    BY <1>3 DEF Well, Fine, LocalOK, RemoteOK, AckOK, SavedAll, SavedOK
  <2>3. SimOK(h, h.frame, Sure(h), Said(h, g), b)
    <3>1. SimOK(s, s.frame, Sure(s), Said(s, g), b)
      BY DEF Well, Fine
    <3>2. Sure(h) = Sure(s)
      BY <1>3 DEF Sure
    <3> QED
      BY <1>3, <2>1, <3>1, <3>2 DEF SimOK
  <2>4. Phase(h) /\ Bounds(h, r0)
    BY <1>3 DEF Well, Fine, Phase, Bounds
  <2>5. ChecksOK(h, Said(h, g), b) /\ RemsOK(h, q.fault, Said(h, g), b) /\ DesyncOK(h, q.fault)
    BY <1>1, <1>3, <2>1 DEF ChecksTrue, ChecksOK, RemsOK, DesyncOK
  <2>6. Fine(h, r0, g, q, b)
    BY <1>3, <2>1, <2>2, <2>3, <2>4, <2>5 DEF Fine
  <2>7. ReadOf(s, h, g)
    <3>1. ReadWell(s, s, r0, g, q, b)
      BY ReadWellSelf
    <3> QED
      BY <1>3, <2>1, <3>1 DEF ReadWell, ReadOf
  <2> QED
    BY <1>3, <2>6, <2>7 DEF ReadWell, Well
<1>5. CASE h.status # "handshake" \/ ~(h.delayKnown \/ h.haveRTT)
  <2>1. NoteHeader(s, m) = h
    BY <1>5 DEF NoteHeader, h
  <2> QED
    BY <1>4, <2>1
<1>6. CASE ~(h.status # "handshake" \/ ~(h.delayKnown \/ h.haveRTT))
  <2>1. NoteHeader(s, m) = run
    BY <1>6 DEF NoteHeader, h
  <2>2. h.localNext = 0 /\ h.frame = 0 /\ h.rc = 0 /\ h.firstBad = NoFrame /\ Len(g) = 0
    <3>1. s.localNext = 0 /\ s.frame = 0 /\ s.rc = 0 /\ s.firstBad = NoFrame
      BY <1>1, <1>3, <1>6 DEF Phase
    <3>2. Len(g) <= s.localNext /\ Len(g) \in Nat
      BY <1>1 DEF LocalOK
    <3> QED
      BY <1>3, <3>1, <3>2
  <2>3. h.delay \in 0 .. MaxInputDelay /\ h.delay \in Nat /\ h.delay <= MaxInputDelay
    BY <1>3, Consts DEF Typed
  <2>4. /\ Typed(run) /\ run.localNext = h.delay /\ run.status = "running"
        /\ run.me = h.me /\ run.fault = h.fault /\ run.delay = h.delay
        /\ run.frame = h.frame /\ run.rc = h.rc /\ run.peerAck = h.peerAck
        /\ run.firstBad = h.firstBad /\ run.local = h.local /\ run.remote = h.remote
        /\ run.used = h.used /\ run.game = h.game /\ run.saved = h.saved
        /\ run.changedFrom = h.changedFrom /\ run.out = h.out
        /\ run.cp = h.cp /\ run.rem = h.rem /\ run.err = h.err
    BY <1>3, <2>3 DEF Typed, Names
  <2> HIDE DEF run
  <2>5. LocalOK(run, g)
    BY <2>2, <2>3, <2>4, Consts DEF LocalOK
  <2>6. RemoteOK(run, b) /\ AckOK(run, q) /\ SavedAll(run, run.frame)
    BY <1>4, <2>4 DEF ReadWell, Well, Fine, RemoteOK, AckOK, SavedAll
  <2>7. Phase(run) /\ Bounds(run, r0)
    <3>1. Bounds(h, r0)
      BY <1>4 DEF ReadWell, Well, Fine
    <3>2. Phase(run)
      BY <2>2, <2>3, <2>4 DEF Phase
    <3> QED
      BY <2>4, <3>1, <3>2 DEF Bounds
  <2>8. /\ Said(h, g) \in Seq(Inputs) /\ Len(Said(h, g)) = h.localNext
        /\ Said(run, g) \in Seq(Inputs) /\ Len(Said(run, g)) = run.localNext
    <3>1. Typed(h) /\ LocalOK(h, g)
      BY <1>4 DEF ReadWell, Well, Fine
    <3> QED
      BY <2>4, <2>5, <3>1, SaidFacts
  <2>9. Grows(Said(h, g), Said(run, g))
    BY <2>2, <2>3, <2>4, <2>8 DEF Grows
  <2>10. Replayed(run, 0, q.fault, Said(run, g), b)
    <3>1. Replayed(h, 0, q.fault, Said(h, g), b)
      BY <1>4, <2>2 DEF ReadWell, Well, Fine, Replayed, ChecksTrue, Sure
    <3>2. Grows(b, b)
      BY GrowsFacts
    <3>3. 0 <= Len(Said(h, g)) /\ h.rc <= Len(b) /\ 0 \in Nat
      BY <2>2, <2>8
    <3> QED
      BY <1>3, <2>4, <2>8, <2>9, <3>1, <3>2, <3>3, TruthGrows
  <2>11. Fine(run, r0, g, q, b)
    <3>1. Sure(run) = run.rc
      BY <2>2, <2>4 DEF Sure
    <3> QED
      BY <2>2, <2>4, <2>5, <2>6, <2>7, <2>10, <3>1 DEF Fine, Replayed, ChecksTrue
  <2>12. ReadWell(h, run, r0, g, q, b)
    <3>1. h.rc <= h.rc /\ h.peerAck <= h.peerAck
      BY <1>3 DEF Typed
    <3> QED
      BY <1>4, <2>4, <2>9, <2>11, <3>1 DEF ReadWell, ReadOf, Well
  <2>13. Fine(s, r0, g, q, b)
    BY DEF Well
  <2> QED
    BY <1>4, <2>1, <2>12, <2>13, ReadWellTransitive
<1> QED
  BY <1>5, <1>6

\* The acknowledgement of a packet.
LEMMA AcknowledgedWell ==
    ASSUME NEW s, NEW r0 \in Nat, NEW g \in Seq(Inputs), NEW q, NEW b \in Seq(Inputs),
           Well(s, r0, g, q, b), NEW ack \in Nat, ack <= q.rc, NEW behind \in BOOLEAN
    PROVE  LET t == [s EXCEPT !.ahead = behind, !.peerAck = Most(@, ack)] IN
           ReadWell(s, t, r0, g, q, b) /\ ack <= t.peerAck
<1> DEFINE t == [s EXCEPT !.ahead = behind, !.peerAck = Most(@, ack)]
<1>1. Typed(s) /\ s.peerAck \in Nat /\ s.rc \in Nat /\ AckOK(s, q) /\ q.rc \in Nat /\ q.delay \in Nat
  BY Consts DEF Well, Fine, Typed, OtherOK
<1>2. /\ Most(s.peerAck, ack) \in Nat /\ s.peerAck <= Most(s.peerAck, ack)
      /\ ack <= Most(s.peerAck, ack) /\ Most(s.peerAck, ack) <= q.rc
  BY <1>1 DEF Most, AckOK
<1>3. /\ Typed(t) /\ t.peerAck = Most(s.peerAck, ack)
      /\ t.me = s.me /\ t.fault = s.fault /\ t.delay = s.delay
      /\ t.frame = s.frame /\ t.rc = s.rc /\ t.localNext = s.localNext
      /\ t.firstBad = s.firstBad /\ t.local = s.local /\ t.remote = s.remote /\ t.used = s.used
      /\ t.game = s.game /\ t.saved = s.saved /\ t.changedFrom = s.changedFrom /\ t.out = s.out
      /\ t.cp = s.cp /\ t.rem = s.rem /\ t.err = s.err /\ t.status = s.status
  BY <1>1, <1>2 DEF Typed, Names
<1> HIDE DEF t
<1>4. Said(t, g) = Said(s, g)
  BY <1>3 DEF Said
<1>5. LocalOK(t, g) /\ RemoteOK(t, b) /\ SavedAll(t, t.frame) /\ SavedOK(t) /\ Phase(t) /\ Bounds(t, r0)
  BY <1>3 DEF Well, Fine, LocalOK, RemoteOK, SavedAll, SavedOK, Phase, Bounds
<1>6. AckOK(t, q)
  <2>1. s.rc <= s.peerAck + q.delay + Window /\ Window \in Nat
    BY <1>1, Consts DEF AckOK
  <2> QED
    BY <1>1, <1>2, <1>3, <2>1 DEF AckOK
<1>7. SimOK(t, t.frame, Sure(t), Said(t, g), b)
  <2>1. SimOK(s, s.frame, Sure(s), Said(s, g), b)
    BY DEF Well, Fine
  <2>2. Sure(t) = Sure(s)
    BY <1>3 DEF Sure
  <2> QED
    BY <1>3, <1>4, <2>1, <2>2 DEF SimOK
<1>8. ChecksOK(t, Said(t, g), b) /\ RemsOK(t, q.fault, Said(t, g), b) /\ DesyncOK(t, q.fault)
  BY <1>3, <1>4 DEF Well, Fine, ChecksOK, RemsOK, DesyncOK
<1>9. Fine(t, r0, g, q, b)
  BY <1>3, <1>4, <1>5, <1>6, <1>7, <1>8 DEF Fine
<1>10. ReadOf(s, t, g)
  <2>1. ReadWell(s, s, r0, g, q, b)
    BY ReadWellSelf
  <2> QED
    BY <1>2, <1>3, <1>4, <2>1 DEF ReadWell, ReadOf
<1> QED
  BY <1>2, <1>3, <1>9, <1>10 DEF ReadWell, Well, t

\* An entry of a packet: an input the other player gave, and what it acknowledged
\* when it gave it.
EntryOK(e, s, q, b) ==
    /\ e.frame \in Nat /\ e.frame < Len(b) /\ e.input = b[e.frame + 1]
    /\ e.frame + 1 <= s.peerAck + q.delay + Window

\* The session that takes entry e in.
Taken(s, e) ==
    [s EXCEPT !.remote[e.frame % History] = e.input, !.rc = e.frame + 1,
              !.firstBad = IF /\ e.frame < s.frame /\ s.used[e.frame % History] # e.input
                              /\ @ = NoFrame \/ e.frame < @
                           THEN e.frame ELSE @]

TakenOf(s, e, t) ==
    /\ Typed(t) /\ t.remote = [s.remote EXCEPT ![e.frame % History] = e.input]
    /\ t.rc = e.frame + 1 /\ t.peerAck = s.peerAck
    /\ t.me = s.me /\ t.fault = s.fault /\ t.delay = s.delay
    /\ t.frame = s.frame /\ t.localNext = s.localNext
    /\ t.local = s.local /\ t.used = s.used
    /\ t.game = s.game /\ t.saved = s.saved /\ t.changedFrom = s.changedFrom /\ t.out = s.out
    /\ t.cp = s.cp /\ t.rem = s.rem /\ t.err = s.err /\ t.status = s.status
    /\ t.firstBad = IF /\ e.frame < s.frame /\ s.used[e.frame % History] # e.input
                       /\ s.firstBad = NoFrame \/ e.frame < s.firstBad
                    THEN e.frame ELSE s.firstBad

\* What taking in one entry changes, field by field.
LEMMA TakenFields ==
    ASSUME NEW s, Typed(s), NEW e, e.frame \in Nat, e.input \in Inputs
    PROVE  TakenOf(s, e, Taken(s, e))
<1>1. e.frame % History \in 0 .. History - 1 /\ e.frame + 1 \in Nat /\ e.frame \in FrameOrNone
  <2>1. e.frame \in Nat /\ History \in Nat \ {0}
    BY Consts
  <2>2. e.frame % History \in 0 .. History - 1
    BY <2>1, ModRange
  <2> QED
    BY <2>1, <2>2 DEF FrameOrNone
<1>2. [s.remote EXCEPT ![e.frame % History] = e.input] \in Ring
  BY <1>1 DEF Typed, Ring
<1> QED
  BY <1>1, <1>2 DEF Taken, TakenOf, Typed, Names

\* What was simulated with the right prediction is confirmed, and the oldest frame
\* that was not is kept for the rollback.
LEMMA TakeEntryKeeps ==
    ASSUME NEW s, NEW r0 \in Nat, NEW g \in Seq(Inputs), NEW q, NEW b \in Seq(Inputs),
           Well(s, r0, g, q, b), NEW e, EntryOK(e, s, q, b), s.status # "handshake"
    PROVE  ReadWell(s, TakeEntry(s, e), r0, g, q, b)
<1> DEFINE mine == Said(s, g)
           f == e.frame
<1>1. /\ Typed(s) /\ LocalOK(s, g) /\ RemoteOK(s, b) /\ SimOK(s, s.frame, Sure(s), mine, b)
      /\ ChecksOK(s, mine, b) /\ RemsOK(s, q.fault, mine, b) /\ DesyncOK(s, q.fault)
      /\ SavedOK(s) /\ SavedAll(s, s.frame) /\ Phase(s) /\ Bounds(s, r0) /\ AckOK(s, q)
  BY DEF Well, Fine
<1>2. /\ f \in Nat /\ f < Len(b) /\ e.input = b[f + 1] /\ e.input \in Inputs
      /\ s.rc \in Nat /\ s.frame \in Nat /\ s.peerAck \in Nat /\ History \in Nat \ {0}
      /\ s.firstBad \in FrameOrNone /\ Len(b) \in Nat
  <2>1. f \in Nat /\ f < Len(b) /\ e.input = b[f + 1]
    BY DEF EntryOK
  <2>2. f + 1 \in 1 .. Len(b)
    BY <2>1
  <2>3. b[f + 1] \in Inputs
    BY <2>2
  <2> QED
    BY <1>1, <2>1, <2>3, Consts DEF Typed
<1>3. CASE f # s.rc
  <2>1. TakeEntry(s, e) = s
    BY <1>3 DEF TakeEntry
  <2> QED
    BY <2>1, ReadWellSelf
<1>4. CASE f = s.rc
  <2>1. PICK t : t = Taken(s, e)
    OBVIOUS
  <2>2. TakeEntry(s, e) = t
    BY <1>4, <2>1 DEF TakeEntry, Taken
  <2>3. TakenOf(s, e, t)
    <3>1. TakenOf(s, e, Taken(s, e))
      <4> HIDE DEF f
      <4> QED
        BY <1>1, <1>2, TakenFields DEF f
    <3> QED
      BY <2>1, <3>1
  <2>4. /\ Typed(t) /\ t.remote = [s.remote EXCEPT ![f % History] = e.input]
        /\ t.rc = s.rc + 1 /\ t.peerAck = s.peerAck
        /\ t.me = s.me /\ t.fault = s.fault /\ t.delay = s.delay
        /\ t.frame = s.frame /\ t.localNext = s.localNext
        /\ t.local = s.local /\ t.used = s.used
        /\ t.game = s.game /\ t.saved = s.saved /\ t.changedFrom = s.changedFrom /\ t.out = s.out
        /\ t.cp = s.cp /\ t.rem = s.rem /\ t.err = s.err /\ t.status = s.status
        /\ t.firstBad = IF /\ f < s.frame /\ s.used[f % History] # e.input
                           /\ s.firstBad = NoFrame \/ f < s.firstBad
                        THEN f ELSE s.firstBad
    BY <1>4, <2>3 DEF TakenOf
  <2>5. Said(t, g) = mine
    BY <2>4 DEF Said
  <2> HIDE DEF mine, f
  <2>6. LocalOK(t, g) /\ SavedAll(t, t.frame) /\ SavedOK(t)
    BY <1>1, <2>4 DEF LocalOK, SavedAll, SavedOK
  <2>7. s.firstBad # NoFrame => r0 <= s.firstBad /\ s.firstBad < s.frame /\ s.firstBad < s.rc
    BY <1>1 DEF Bounds
  <2>8. \/ t.firstBad = s.firstBad /\ (s.firstBad # NoFrame \/ f >= s.frame \/ s.used[f % History] = e.input)
        \/ s.firstBad = NoFrame /\ t.firstBad = f /\ f < s.frame
    <3>1. s.firstBad # NoFrame => ~(f < s.firstBad)
      BY <1>2, <1>4, <2>7 DEF FrameOrNone
    <3> QED
      BY <1>2, <2>4, <3>1
  <2>9. RemoteOK(t, b)
    <3> SUFFICES ASSUME NEW k \in 0 .. t.rc - 1, k >= t.rc - History
                 PROVE  t.remote[k % History] = b[k + 1]
      <4>1. t.rc <= Len(b)
        BY <1>2, <1>4, <2>4
      <4> QED
        BY <4>1 DEF RemoteOK
    <3>0. DOMAIN s.remote = 0 .. History - 1
      BY <1>1 DEF Typed, Ring
    <3>1. CASE k = f
      <4>1. f % History \in 0 .. History - 1
        BY <1>2, ModRange
      <4> QED
        BY <1>2, <2>4, <3>0, <3>1, <4>1
    <3>2. CASE k # f
      <4>1. k \in Nat /\ k < f /\ f - k < History /\ k \in 0 .. s.rc - 1 /\ k >= s.rc - History
        <5>1. t.rc = s.rc + 1 /\ s.rc \in Nat /\ History \in Nat /\ f = s.rc
          BY <1>2, <1>4, <2>4
        <5>2. k \in Nat /\ k <= s.rc /\ k # s.rc /\ k >= s.rc + 1 - History
          BY <3>2, <5>1
        <5> QED
          BY <5>1, <5>2
      <4>2. k % History # f % History /\ k % History \in 0 .. History - 1
        BY <1>2, <4>1, ModApart, ModRange
      <4>3. s.remote[k % History] = b[k + 1]
        BY <1>1, <4>1 DEF RemoteOK
      <4> QED
        BY <2>4, <3>0, <4>2, <4>3
    <3> QED
      BY <3>1, <3>2
  <2>10. SimOK(t, t.frame, Sure(t), mine, b)
    <3> SUFFICES ASSUME NEW k \in 0 .. s.frame - 1
                 PROVE  /\ k < Sure(t) => s.game[k + 1] = TrueStep(s.me, s.fault, mine, b, k)
                        /\ k >= t.rc => s.game[k + 1] = Outcome(s.fault, k,
                                           PairAs(s.me, mine[k + 1], s.used[k % History]))
      BY <1>1, <2>4 DEF SimOK
    <3>1. /\ k < Sure(s) => s.game[k + 1] = TrueStep(s.me, s.fault, mine, b, k)
          /\ k >= s.rc => s.game[k + 1] = Outcome(s.fault, k,
                             PairAs(s.me, mine[k + 1], s.used[k % History]))
      BY <1>1 DEF SimOK
    <3>2. k >= t.rc => k >= s.rc
      BY <1>2, <2>4
    <3>3. ASSUME k < Sure(t) PROVE s.game[k + 1] = TrueStep(s.me, s.fault, mine, b, k)
      <4>1. CASE k < Sure(s)
        BY <3>1, <4>1
      <4>2. CASE ~(k < Sure(s))
        <5>1. t.firstBad = NoFrame /\ s.firstBad = NoFrame /\ k = f
          <6>1. CASE s.firstBad # NoFrame
            <7>1. t.firstBad = s.firstBad
              BY <2>8, <6>1
            <7> QED
              BY <3>3, <4>2, <6>1, <7>1 DEF Sure
          <6>2. CASE s.firstBad = NoFrame /\ t.firstBad = f /\ f < s.frame
            <7>1. Sure(s) = s.rc /\ Sure(t) = f
              BY <1>2, <6>2 DEF Sure, NoFrame
            <7> QED
              BY <1>4, <3>3, <4>2, <7>1
          <6>3. CASE s.firstBad = NoFrame /\ t.firstBad = NoFrame
            <7>1. Sure(s) = s.rc /\ Sure(t) = s.rc + 1
              BY <2>4, <6>3 DEF Sure
            <7> QED
              BY <1>2, <1>4, <3>3, <4>2, <6>3, <7>1
          <6> QED
            BY <2>8, <6>1, <6>2, <6>3
        <5>2. s.used[f % History] = e.input
          <6>1. f >= s.frame \/ s.used[f % History] = e.input
            BY <1>2, <2>8, <5>1 DEF NoFrame
          <6>2. ~(f >= s.frame)
            BY <1>2, <5>1
          <6> QED
            BY <6>1, <6>2
        <5>3. s.game[k + 1] = Outcome(s.fault, k, PairAs(s.me, mine[k + 1], s.used[k % History]))
          BY <1>2, <1>4, <3>1, <5>1
        <5> QED
          BY <1>2, <5>1, <5>2, <5>3 DEF TrueStep
      <4> QED
        BY <4>1, <4>2
    <3> QED
      BY <3>1, <3>2, <3>3
  <2>11. ChecksOK(t, mine, b)
    <3> SUFFICES ASSUME NEW i \in 0 .. CpSlots - 1, s.cp[i].frame # NoFrame
                 PROVE  /\ s.cp[i].frame <= t.rc /\ s.cp[i].frame <= Len(mine)
                        /\ s.cp[i].sum = Played(s.me, s.fault, mine, b, s.cp[i].frame)
      BY <2>4 DEF ChecksOK
    <3>1. /\ s.cp[i].frame <= s.rc /\ s.cp[i].frame <= Len(mine)
          /\ s.cp[i].sum = Played(s.me, s.fault, mine, b, s.cp[i].frame)
      BY <1>1 DEF ChecksOK
    <3>2. s.cp[i].frame \in Nat
      BY <1>1 DEF Typed, CpSlot, FrameOrNone
    <3> QED
      BY <1>2, <2>4, <3>1, <3>2
  <2>12. RemsOK(t, q.fault, mine, b) /\ DesyncOK(t, q.fault)
    BY <1>1, <2>4 DEF RemsOK, DesyncOK
  <2>13. Phase(t)
    BY <1>1, <2>4 DEF Phase
  <2>14. Bounds(t, r0)
    <3>1. r0 <= s.rc /\ s.frame - r0 <= Window
      BY <1>1 DEF Bounds
    <3>2. r0 <= t.rc /\ t.frame - r0 <= Window
      BY <1>2, <2>4, <3>1
    <3>3. t.firstBad # NoFrame => r0 <= t.firstBad /\ t.firstBad < t.frame /\ t.firstBad < t.rc
      <4>1. CASE t.firstBad = s.firstBad
        BY <1>2, <2>4, <2>7, <4>1 DEF FrameOrNone
      <4>2. CASE t.firstBad = f /\ f < s.frame
        BY <1>2, <1>4, <2>4, <3>1, <4>2
      <4> QED
        BY <2>8, <4>1, <4>2
    <3> QED
      BY <3>2, <3>3 DEF Bounds
  <2>15. AckOK(t, q)
    <3>1. f + 1 <= s.peerAck + q.delay + Window
      BY DEF EntryOK, f
    <3> QED
      BY <1>1, <1>4, <2>4, <3>1 DEF AckOK
  <2>16. Fine(t, r0, g, q, b)
    BY <2>4, <2>5, <2>6, <2>9, <2>10, <2>11, <2>12, <2>13, <2>14, <2>15 DEF Fine
  <2>17. ReadOf(s, t, g)
    <3>1. ReadWell(s, s, r0, g, q, b)
      BY ReadWellSelf
    <3>2. s.rc <= t.rc
      BY <1>2, <2>4
    <3> QED
      BY <2>4, <2>5, <3>1, <3>2 DEF ReadWell, ReadOf, mine
  <2> QED
    BY <2>2, <2>4, <2>16, <2>17 DEF ReadWell, Well
<1> QED
  BY <1>3, <1>4

\* The loops over the entries and the checksums of a packet.
TakeAll(s, seq) == FoldLeft(TakeEntry, s, seq)

TakeTurns(c, n, s, seq) ==
    /\ c[0] = s /\ \A i \in 1 .. n : c[i] = TakeEntry(c[i - 1], seq[i])
    /\ TakeAll(s, seq) = c[n]

\* The results of taking in the entries of a packet, one by one, are a sequence.
LEMMA TakesChain ==
    ASSUME NEW n \in Nat, NEW s, NEW seq, DOMAIN seq = 1 .. n
    PROVE  \E c : TakeTurns(c, n, s, seq)
<1>1. TakeAll(s, seq) = Takes!Fold(s, seq)
  BY DEF TakeAll, Takes!Fold, FoldLeft, MapThenFoldSet, Max, Takes!MapThenFoldSet, Takes!Max
<1>2. PICK c : /\ c[0] = s /\ \A i \in 1 .. n : c[i] = TakeEntry(c[i - 1], seq[i])
               /\ Takes!Fold(s, seq) = c[n]
  BY Takes!FoldLeftChain, SMTT(30)
<1> QED
  BY <1>1, <1>2 DEF TakeTurns

NoteAll(s, seq) == FoldLeft(OnRemoteSum, s, seq)

NoteTurns(c, n, s, seq) ==
    /\ c[0] = s /\ \A i \in 1 .. n : c[i] = OnRemoteSum(c[i - 1], seq[i])
    /\ NoteAll(s, seq) = c[n]

\* So are those of noting its reports.
LEMMA NotesChain ==
    ASSUME NEW n \in Nat, NEW s, NEW seq, DOMAIN seq = 1 .. n
    PROVE  \E c : NoteTurns(c, n, s, seq)
<1>1. NoteAll(s, seq) = Notes!Fold(s, seq)
  BY DEF NoteAll, Notes!Fold, FoldLeft, MapThenFoldSet, Max, Notes!MapThenFoldSet, Notes!Max
<1>2. PICK c : /\ c[0] = s /\ \A i \in 1 .. n : c[i] = OnRemoteSum(c[i - 1], seq[i])
               /\ Notes!Fold(s, seq) = c[n]
  BY Notes!FoldLeftChain, SMTT(30)
<1> QED
  BY <1>1, <1>2 DEF NoteTurns

\* All entries of a packet of true inputs leave the session well.
LEMMA TakeAllKeeps ==
    ASSUME NEW s, NEW r0 \in Nat, NEW g \in Seq(Inputs), NEW q, NEW b \in Seq(Inputs),
           Well(s, r0, g, q, b), s.status # "handshake",
           NEW n \in Nat, NEW seq, DOMAIN seq = 1 .. n, \A i \in 1 .. n : EntryOK(seq[i], s, q, b)
    PROVE  LET t == TakeAll(s, seq) IN ReadWell(s, t, r0, g, q, b) /\ t.status # "handshake"
<1>1. PICK c : TakeTurns(c, n, s, seq)
  BY TakesChain
<1> DEFINE P(t) == ReadWell(s, t, r0, g, q, b)
           S == {i \in 0 .. n : P(c[i])}
<1>2. 0 \in S
  <2>1. c[0] = s /\ 0 \in 0 .. n
    BY <1>1 DEF TakeTurns
  <2>2. P(s)
    BY ReadWellSelf
  <2> QED
    BY <2>1, <2>2
<1>3. ASSUME NEW i \in 1 .. n, i - 1 \in S PROVE i \in S
  <2> DEFINE d == c[i - 1]
             e == c[i]
             x == seq[i]
  <2>1. P(d) /\ e = TakeEntry(d, x)
    BY <1>1, <1>3 DEF TakeTurns
  <2>2. EntryOK(x, s, q, b)
    OBVIOUS
  <2> HIDE DEF d, e, x
  <2>3. d.status # "handshake" /\ s.peerAck <= d.peerAck /\ Well(d, r0, g, q, b)
    BY <2>1 DEF ReadWell, ReadOf
  <2>4. EntryOK(x, d, q, b)
    <3>1. s.peerAck \in Nat /\ d.peerAck \in Nat /\ q.delay \in Nat /\ Window \in Nat
      <4>1. Well(s, r0, g, q, b) /\ Well(d, r0, g, q, b) /\ Window \in Nat
        BY <2>3, Consts
      <4> QED
        BY <4>1, WellNumbers
    <3>2. x.frame \in Nat /\ x.frame + 1 <= s.peerAck + q.delay + Window
      BY <2>2 DEF EntryOK
    <3>3. x.frame + 1 <= d.peerAck + q.delay + Window
      BY <2>3, <3>1, <3>2
    <3> QED
      BY <2>2, <3>3 DEF EntryOK
  <2>5. ReadWell(d, e, r0, g, q, b)
    BY <2>1, <2>3, <2>4, TakeEntryKeeps
  <2>6. P(e)
    BY <2>1, <2>5, ReadWellTransitive DEF Well
  <2> QED
    BY <2>6 DEF e
<1>4. n \in S
  <2> HIDE DEF S
  <2> QED
    BY <1>2, <1>3, UpTo
<1>5. P(TakeAll(s, seq))
  BY <1>1, <1>4 DEF TakeTurns
<1> QED
  BY <1>5 DEF ReadWell, ReadOf

\* All reports of a packet leave the session well.
LEMMA NoteAllKeeps ==
    ASSUME NEW s, NEW r0 \in Nat, NEW g \in Seq(Inputs), NEW q, NEW b \in Seq(Inputs),
           Well(s, r0, g, q, b),
           NEW n \in Nat, NEW seq, DOMAIN seq = 1 .. n, \A i \in 1 .. n : ReportOK(seq[i], q, g, b)
    PROVE  ReadWell(s, NoteAll(s, seq), r0, g, q, b)
<1>1. PICK c : NoteTurns(c, n, s, seq)
  BY NotesChain
<1> DEFINE P(t) == ReadWell(s, t, r0, g, q, b)
           S == {i \in 0 .. n : P(c[i])}
<1>2. 0 \in S
  <2>1. c[0] = s /\ 0 \in 0 .. n
    BY <1>1 DEF NoteTurns
  <2>2. P(s)
    BY ReadWellSelf
  <2> QED
    BY <2>1, <2>2
<1>3. ASSUME NEW i \in 1 .. n, i - 1 \in S PROVE i \in S
  <2> DEFINE d == c[i - 1]
             e == c[i]
             x == seq[i]
  <2>1. P(d) /\ e = OnRemoteSum(d, x)
    BY <1>1, <1>3 DEF NoteTurns
  <2>2. ReportOK(x, q, g, b)
    OBVIOUS
  <2> HIDE DEF d, e, x
  <2>3. ReadWell(d, e, r0, g, q, b)
    BY <2>1, <2>2, OnRemoteSumKeeps DEF ReadWell
  <2>4. P(e)
    BY <2>1, <2>3, ReadWellTransitive DEF Well
  <2> QED
    BY <2>4 DEF e
<1>4. n \in S
  <2> HIDE DEF S
  <2> QED
    BY <1>2, <1>3, UpTo
<1> QED
  BY <1>1, <1>4 DEF NoteTurns

\* An Input packet.
LEMMA HandleInputKeeps ==
    ASSUME NEW s, NEW r0 \in Nat, NEW g \in Seq(Inputs), NEW q, NEW b \in Seq(Inputs),
           Well(s, r0, g, q, b), NEW m, MessageOK(m, q, g, b), m.type = "input"
    PROVE  ReadWell(s, HandleInput(s, m), r0, g, q, b)
<1>1. /\ m.echo \in BOOLEAN /\ m.ack \in Nat /\ m.start \in Nat /\ m.frame \in Nat
      /\ m.entries \in Seq(Inputs) /\ m.sums \in Seq(Report)
      /\ m.ack <= q.rc /\ m.start + Len(m.entries) <= Len(b)
      /\ m.start + Len(m.entries) <= m.ack + q.delay + Window
      /\ \A i \in 1 .. Len(m.entries) : m.entries[i] = b[m.start + i]
  BY DEF MessageOK, Packet, InputPacket, Hello
<1>2. \A i \in 1 .. Len(m.sums) : ReportOK(m.sums[i], q, g, b)
  <2>1. \A i \in 1 .. Len(m.sums) : m.sums[i] \in Report
    BY <1>1
  <2> QED
    BY <2>1 DEF MessageOK, ReportOK
<1>3. PICK h : h = NoteHeader(s, m)
  OBVIOUS
<1>4. ReadWell(s, h, r0, g, q, b)
  BY <1>1, <1>3, NoteHeaderKeeps
<1>5. CASE h.status = "handshake"
  <2>1. HandleInput(s, m) = h
    BY <1>3, <1>5 DEF HandleInput
  <2> QED
    BY <1>4, <2>1
<1>6. CASE h.status # "handshake"
  <2>1. PICK behind : behind = (h.ahead \/ h.frame - m.frame > 1)
    OBVIOUS
  <2>2. behind \in BOOLEAN
    BY <2>1
  <2> DEFINE acked == [h EXCEPT !.ahead = behind, !.peerAck = Most(@, m.ack)]
  <2>3. ReadWell(h, acked, r0, g, q, b) /\ m.ack <= acked.peerAck
    BY <1>1, <1>4, <2>2, AcknowledgedWell DEF ReadWell
  <2>4. HandleInput(s, m) = NoteAll(TakeAll(acked, Entries(m)), m.sums)
    BY <1>3, <1>6, <2>1 DEF HandleInput, NoteAll, TakeAll
  <2> HIDE DEF acked
  <2>5. acked.status # "handshake" /\ Well(acked, r0, g, q, b)
    BY <1>6, <2>3 DEF ReadWell, ReadOf
  <2> DEFINE n == Len(m.entries)
             seq == Entries(m)
             taken == TakeAll(acked, seq)
  <2>6. n \in Nat /\ DOMAIN seq = 1 .. n
    BY <1>1 DEF Entries
  <2>7. ASSUME NEW i \in 1 .. n PROVE EntryOK(seq[i], acked, q, b)
    <3>1. seq[i].frame = m.start + i - 1 /\ seq[i].input = m.entries[i]
      BY DEF Entries
    <3>2. acked.peerAck \in Nat /\ q.delay \in Nat /\ Window \in Nat
      <4>1. Window \in Nat
        BY Consts
      <4> QED
        BY <2>5, <4>1, WellNumbers
    <3>3. m.start + i - 1 + 1 = m.start + i /\ m.start + i - 1 \in Nat
      BY <1>1
    <3>4. m.start + i - 1 < Len(b) /\ m.start + i <= acked.peerAck + q.delay + Window
      <4> DEFINE a == m.start
                 l == Len(m.entries)
                 k == m.ack
                 d == q.delay
                 w == Window
                 p == acked.peerAck
                 z == Len(b)
      <4>1. /\ a \in Nat /\ l \in Nat /\ k \in Nat /\ z \in Nat
            /\ a + l <= z /\ a + l <= k + d + w
        BY <1>1
      <4>2. p \in Nat /\ d \in Nat /\ w \in Nat /\ k <= p
        BY <2>3, <3>2
      <4>3. i \in 1 .. l
        BY DEF n
      <4> HIDE DEF a, l, k, d, w, p, z
      <4>4. a + i - 1 < z /\ a + i <= p + d + w
        BY <4>1, <4>2, <4>3
      <4> QED
        BY <4>4 DEF a, d, w, p, z
    <3>5. m.entries[i] = b[m.start + i]
      BY <1>1
    <3> QED
      BY <3>1, <3>3, <3>4, <3>5 DEF EntryOK
  <2> HIDE DEF n, seq
  <2>8. ReadWell(acked, taken, r0, g, q, b)
    BY <2>5, <2>6, <2>7, TakeAllKeeps
  <2> HIDE DEF taken
  <2>9. ReadWell(taken, NoteAll(taken, m.sums), r0, g, q, b)
    <3>1. DOMAIN m.sums = 1 .. Len(m.sums) /\ Len(m.sums) \in Nat
      BY <1>1
    <3> QED
      BY <1>2, <2>8, <3>1, NoteAllKeeps DEF ReadWell
  <2>10. ReadWell(acked, NoteAll(taken, m.sums), r0, g, q, b)
    BY <2>5, <2>8, <2>9, ReadWellTransitive DEF Well
  <2>11. ReadWell(h, NoteAll(taken, m.sums), r0, g, q, b)
    BY <1>4, <2>3, <2>10, ReadWellTransitive DEF ReadWell, Well
  <2>12. ReadWell(s, NoteAll(taken, m.sums), r0, g, q, b)
    BY <1>4, <2>11, ReadWellTransitive DEF Well
  <2> QED
    BY <2>4, <2>12 DEF taken, seq
<1> QED
  BY <1>5, <1>6

\* A packet.
LEMMA HandleKeeps ==
    ASSUME NEW s, NEW r0 \in Nat, NEW g \in Seq(Inputs), NEW q, NEW b \in Seq(Inputs),
           Well(s, r0, g, q, b), NEW m, MessageOK(m, q, g, b)
    PROVE  ReadWell(s, Handle(s, m), r0, g, q, b)
<1>1. m \in Hello \/ m \in InputPacket
  BY DEF MessageOK, Packet
<1>2. CASE s.status = "ended"
  <2>1. Handle(s, m) = s
    BY <1>2 DEF Handle
  <2> QED
    BY <2>1, ReadWellSelf
<1>3. CASE s.status # "ended" /\ m \in Hello
  <2>1. m.type = "hello" /\ m.echo \in BOOLEAN
    BY <1>3 DEF Hello
  <2>2. Handle(s, m) = NoteHeader(s, m)
    BY <1>3, <2>1 DEF Handle
  <2> QED
    BY <2>1, <2>2, NoteHeaderKeeps
<1>4. CASE s.status # "ended" /\ m \in InputPacket
  <2>1. m.type = "input"
    BY <1>4 DEF InputPacket
  <2>2. Handle(s, m) = HandleInput(s, m)
    BY <1>4, <2>1 DEF Handle
  <2> QED
    BY <2>1, <2>2, HandleInputKeeps
<1> QED
  BY <1>1, <1>2, <1>3, <1>4

ReadAll(s, seq) == FoldLeft(Handle, s, seq)

ReadTurns(c, n, s, seq) ==
    /\ c[0] = s /\ \A i \in 1 .. n : c[i] = Handle(c[i - 1], seq[i])
    /\ ReadAll(s, seq) = c[n]

\* The results of handling the packets of a tick, one by one, are a sequence.
LEMMA ReadsChain ==
    ASSUME NEW n \in Nat, NEW s, NEW seq, DOMAIN seq = 1 .. n
    PROVE  \E c : ReadTurns(c, n, s, seq)
<1>1. ReadAll(s, seq) = Reads!Fold(s, seq)
  BY DEF ReadAll, Reads!Fold, FoldLeft, MapThenFoldSet, Max, Reads!MapThenFoldSet, Reads!Max
<1>2. PICK c : /\ c[0] = s /\ \A i \in 1 .. n : c[i] = Handle(c[i - 1], seq[i])
               /\ Reads!Fold(s, seq) = c[n]
  BY Reads!FoldLeftChain, SMTT(30)
<1> QED
  BY <1>1, <1>2 DEF ReadTurns

\* Handling all packets that arrived in a tick leaves the session well.
LEMMA ReadAllKeeps ==
    ASSUME NEW s, NEW r0 \in Nat, NEW g \in Seq(Inputs), NEW q, NEW b \in Seq(Inputs),
           Well(s, r0, g, q, b),
           NEW n \in Nat, NEW seq, DOMAIN seq = 1 .. n, \A i \in 1 .. n : MessageOK(seq[i], q, g, b)
    PROVE  ReadWell(s, ReadAll(s, seq), r0, g, q, b)
<1>1. PICK c : ReadTurns(c, n, s, seq)
  BY ReadsChain
<1> DEFINE P(t) == ReadWell(s, t, r0, g, q, b)
           S == {i \in 0 .. n : P(c[i])}
<1>2. 0 \in S
  <2>1. c[0] = s /\ 0 \in 0 .. n
    BY <1>1 DEF ReadTurns
  <2>2. P(s)
    BY ReadWellSelf
  <2> QED
    BY <2>1, <2>2
<1>3. ASSUME NEW i \in 1 .. n, i - 1 \in S PROVE i \in S
  <2> DEFINE d == c[i - 1]
             e == c[i]
             x == seq[i]
  <2>1. P(d) /\ e = Handle(d, x)
    BY <1>1, <1>3 DEF ReadTurns
  <2>2. MessageOK(x, q, g, b)
    OBVIOUS
  <2> HIDE DEF d, e, x
  <2>3. ReadWell(d, e, r0, g, q, b)
    BY <2>1, <2>2, HandleKeeps DEF ReadWell
  <2>4. P(e)
    BY <2>1, <2>3, ReadWellTransitive DEF Well
  <2> QED
    BY <2>4 DEF e
<1>4. n \in S
  <2> HIDE DEF S
  <2> QED
    BY <1>2, <1>3, UpTo
<1> QED
  BY <1>1, <1>4 DEF ReadTurns

\* The start of a tick.
Opened(s) == [s EXCEPT !.changedFrom = NoFrame, !.out = <<>>]

\* The start of a tick, which clears what the previous one sent and changed, too.
LEMMA OpenedWell ==
    ASSUME NEW s, NEW r0 \in Nat, NEW g \in Seq(Inputs), NEW q, NEW b \in Seq(Inputs),
           Well(s, r0, g, q, b), s.out = <<>>, s.changedFrom = NoFrame
    PROVE  ReadWell(s, Opened(s), r0, g, q, b)
<1> DEFINE t == Opened(s)
<1>1. Typed(s)
  BY DEF Well, Fine
<1>2. /\ Typed(t) /\ t.changedFrom = s.changedFrom /\ t.out = s.out /\ t.peerAck = s.peerAck
      /\ t.me = s.me /\ t.fault = s.fault /\ t.delay = s.delay
      /\ t.frame = s.frame /\ t.rc = s.rc /\ t.localNext = s.localNext
      /\ t.firstBad = s.firstBad /\ t.local = s.local /\ t.remote = s.remote /\ t.used = s.used
      /\ t.game = s.game /\ t.saved = s.saved
      /\ t.cp = s.cp /\ t.rem = s.rem /\ t.err = s.err /\ t.status = s.status
  BY <1>1 DEF Opened, Typed, Names
<1> HIDE DEF t
<1>3. Said(t, g) = Said(s, g)
  BY <1>2 DEF Said
<1>4. /\ LocalOK(t, g) /\ RemoteOK(t, b) /\ SavedAll(t, t.frame) /\ SavedOK(t) /\ Phase(t)
      /\ Bounds(t, r0) /\ AckOK(t, q)
  BY <1>2 DEF Well, Fine, LocalOK, RemoteOK, SavedAll, SavedOK, Phase, Bounds, AckOK
<1>5. SimOK(t, t.frame, Sure(t), Said(t, g), b)
  <2>1. SimOK(s, s.frame, Sure(s), Said(s, g), b)
    BY DEF Well, Fine
  <2>2. Sure(t) = Sure(s)
    BY <1>2 DEF Sure
  <2> QED
    BY <1>2, <1>3, <2>1, <2>2 DEF SimOK
<1>6. ChecksOK(t, Said(t, g), b) /\ RemsOK(t, q.fault, Said(t, g), b) /\ DesyncOK(t, q.fault)
  BY <1>2, <1>3 DEF Well, Fine, ChecksOK, RemsOK, DesyncOK
<1>7. Fine(t, r0, g, q, b)
  BY <1>2, <1>4, <1>5, <1>6 DEF Fine
<1>8. ReadOf(s, t, g)
  <2>1. ReadWell(s, s, r0, g, q, b)
    BY ReadWellSelf
  <2> QED
    BY <1>2, <1>3, <2>1 DEF ReadWell, ReadOf
<1> QED
  BY <1>2, <1>7, <1>8 DEF ReadWell, Well, t

\* Which frames a tick showed again: those before it are as they were.
Refreshed(s, t, r0) ==
    \/ t.changedFrom = NoFrame /\ t.game = s.game
    \/ /\ t.changedFrom \in Nat /\ r0 <= t.changedFrom /\ t.changedFrom < s.frame
       /\ SameStart(s, t, t.changedFrom)

\* The session x of a tick before it decides whether to simulate.
ReceivedOf(s, x, r0, g) ==
    /\ x.me = s.me /\ x.fault = s.fault /\ x.delay = s.delay /\ x.frame = s.frame
    /\ x.out = s.out /\ s.rc <= x.rc /\ s.peerAck <= x.peerAck
    /\ Grows(Said(s, g), Said(x, g)) /\ Refreshed(s, x, r0)
    /\ x.status # "ended" => x.firstBad = NoFrame

Hears(s, seq, x) ==
    x = IF Poll(s, seq).status = "running" /\ ~Poll(s, seq).catching
        THEN Repair(Poll(s, seq)) ELSE Poll(s, seq)

\* poll and the repair after it: the session is well, no frame in it rests on a wrong
\* input any more, and every frame that changed is marked.
LEMMA ReceivedKeeps ==
    ASSUME NEW s, NEW r0 \in Nat, NEW g \in Seq(Inputs), NEW q, NEW b \in Seq(Inputs),
           Well(s, r0, g, q, b), Near(b, r0), s.out = <<>>, s.changedFrom = NoFrame,
           NEW n \in Nat, NEW seq, DOMAIN seq = 1 .. n, \A i \in 1 .. n : MessageOK(seq[i], q, g, b),
           NEW x, Hears(s, seq, x)
    PROVE  Well(x, r0, g, q, b) /\ ReceivedOf(s, x, r0, g)
<1>1. PICK y : y = Poll(s, seq)
  OBVIOUS
<1>2. x = IF y.status = "running" /\ ~y.catching THEN Repair(y) ELSE y
  BY <1>1 DEF Hears
<1>3. y = ReadAll(Opened(s), seq)
  BY <1>1 DEF Poll, ReadAll, Opened
<1>4. ReadWell(s, y, r0, g, q, b)
  <2>1. ReadWell(s, Opened(s), r0, g, q, b)
    BY OpenedWell
  <2>2. ReadWell(Opened(s), y, r0, g, q, b)
    BY <1>3, <2>1, ReadAllKeeps DEF ReadWell
  <2> QED
    BY <2>1, <2>2, ReadWellTransitive DEF Well
<1>5. Well(y, r0, g, q, b) /\ ReadOf(s, y, g) /\ Fine(y, r0, g, q, b)
  BY <1>4 DEF ReadWell, Well
<1>6. y.catching = FALSE /\ y.status \in {"handshake", "running", "ended"}
      /\ y.firstBad \in FrameOrNone /\ y.frame \in Nat
  BY <1>5 DEF Fine, Typed
<1>7. CASE y.status # "running"
  <2>1. x = y
    BY <1>2, <1>7
  <2>2. y.status # "ended" => y.firstBad = NoFrame
    BY <1>5, <1>6, <1>7 DEF Fine, Phase
  <2> QED
    BY <1>5, <2>1, <2>2 DEF ReceivedOf, ReadOf, Refreshed
<1>8. CASE y.status = "running"
  <2>1. x = Repair(y)
    BY <1>2, <1>6, <1>8
  <2>2. Fine(x, r0, g, q, b) /\ Said(x, g) = Said(y, g) /\ Repaired(y, x)
    BY <1>5, <2>1, RepairKeeps
  <2>3. /\ SameSession(y, x) /\ x.firstBad = NoFrame
        /\ IF y.firstBad = NoFrame THEN x.changedFrom = y.changedFrom /\ x.game = y.game
           ELSE x.changedFrom = y.firstBad /\ SameStart(y, x, y.firstBad)
    BY <2>2 DEF Repaired
  <2>4. Well(x, r0, g, q, b)
    BY <1>5, <2>2, <2>3 DEF Well, SameSession
  <2>5. Refreshed(s, x, r0)
    <3>1. y.changedFrom = NoFrame /\ y.game = s.game /\ y.frame = s.frame
      BY <1>5 DEF ReadOf
    <3>2. CASE y.firstBad = NoFrame
      BY <2>3, <3>1, <3>2 DEF Refreshed
    <3>3. CASE y.firstBad # NoFrame
      <4>1. y.firstBad \in Nat /\ r0 <= y.firstBad /\ y.firstBad < s.frame
        BY <1>5, <1>6, <3>1, <3>3 DEF Fine, Bounds, FrameOrNone
      <4>2. SameStart(s, x, y.firstBad)
        BY <2>3, <3>1, <3>3 DEF SameStart
      <4> QED
        BY <2>3, <3>3, <4>1, <4>2 DEF Refreshed
    <3> QED
      BY <3>2, <3>3
  <2> QED
    BY <1>5, <2>2, <2>3, <2>4, <2>5 DEF ReceivedOf, ReadOf, SameSession
<1> QED
  BY <1>7, <1>8

-----------------------------------------------------------------------------
(* Sending.                                                                *)

\* A bounded set of numbered things has a newest one.
LEMMA HasNewest ==
    ASSUME NEW S, S # {}, NEW top \in Nat, \A c \in S : c.frame \in Nat /\ c.frame <= top
    PROVE  \E c \in S : \A d \in S : d.frame <= c.frame
<1> DEFINE T == {top - c.frame : c \in S}
<1>1. T \in SUBSET Nat
  OBVIOUS
<1>2. PICK c0 \in S : TRUE
  OBVIOUS
<1>3. top - c0.frame \in T
  OBVIOUS
<1>4. PICK k \in T : \A m \in T : k <= m
  <2> HIDE DEF T
  <2> QED
    BY <1>1, <1>3, Frames!Least
<1>5. PICK c \in S : k = top - c.frame
  OBVIOUS
<1>6. ASSUME NEW d \in S PROVE d.frame <= c.frame
  <2>1. k <= top - d.frame
    BY <1>4
  <2> QED
    BY <1>5, <2>1
<1> QED
  BY <1>6

\* PickNewest adds a member of the set it picks from, if anything.
LEMMA PickNewestKeeps ==
    ASSUME NEW S, NEW top \in Nat, \A c \in S : c.frame \in Nat /\ c.frame <= top,
           NEW picked \in Seq(S)
    PROVE  PickNewest(picked, S) \in Seq(S)
<1> DEFINE older == {c \in S : \A i \in DOMAIN picked : c.frame < picked[i].frame}
<1>1. CASE older = {}
  BY <1>1 DEF PickNewest
<1>2. CASE older # {}
  <2>1. \E c \in older : \A d \in older : d.frame <= c.frame
    <3>1. \A c \in older : c.frame \in Nat /\ c.frame <= top
      OBVIOUS
    <3> HIDE DEF older
    <3> QED
      BY <1>2, <3>1, HasNewest
  <2>2. (CHOOSE c \in older : \A d \in older : d.frame <= c.frame) \in older
    BY <2>1
  <2> DEFINE newest == CHOOSE c \in older : \A d \in older : d.frame <= c.frame
  <2>3. PickNewest(picked, S) = Append(picked, newest)
    BY <1>2 DEF PickNewest
  <2>4. newest \in S
    BY <2>2
  <2> HIDE DEF newest
  <2> QED
    BY <2>3, <2>4
<1> QED
  BY <1>1, <1>2

PickAll(seq) == FoldLeft(PickNewest, <<>>, seq)

PickTurns(c, n, seq) ==
    /\ c[0] = <<>> /\ \A i \in 1 .. n : c[i] = PickNewest(c[i - 1], seq[i])
    /\ PickAll(seq) = c[n]

\* The results of picking, turn by turn, are a sequence.
LEMMA PicksChain ==
    ASSUME NEW n \in Nat, NEW seq, DOMAIN seq = 1 .. n
    PROVE  \E c : PickTurns(c, n, seq)
<1>0. PICK s : s = <<>>
  OBVIOUS
<1>1. PickAll(seq) = Picks!Fold(s, seq)
  BY <1>0 DEF PickAll, Picks!Fold, FoldLeft, MapThenFoldSet, Max, Picks!MapThenFoldSet, Picks!Max
<1>2. PICK c : /\ c[0] = s /\ \A i \in 1 .. n : c[i] = PickNewest(c[i - 1], seq[i])
               /\ Picks!Fold(s, seq) = c[n]
  BY Picks!FoldLeftChain, SMTT(30)
<1> QED
  BY <1>0, <1>1, <1>2 DEF PickTurns

\* The reports of a session's checkpoints.
SumsOf(s) ==
    {[frame |-> c.frame, sum |-> c.sum, epoch |-> c.epoch] :
        c \in {c \in {s.cp[i] : i \in DOMAIN s.cp} : c.frame # NoFrame /\ c.epoch = s.epoch}}

\* The reports a packet carries are those of checkpoints of the session.
LEMMA NewestSumsAre ==
    ASSUME NEW s, Typed(s), NEW mine, NEW b, ChecksOK(s, mine, b)
    PROVE  NewestSums(s) \in Seq(SumsOf(s))
<1> DEFINE S == SumsOf(s)
           seq == [i \in 1 .. MaxSums |-> S]
<1>1. MaxSums \in Nat /\ s.rc \in Nat
  BY Consts DEF Typed
<1>2. \A c \in S : c.frame \in Nat /\ c.frame <= s.rc
  <2> SUFFICES ASSUME NEW i \in DOMAIN s.cp, s.cp[i].frame # NoFrame
               PROVE  s.cp[i].frame \in Nat /\ s.cp[i].frame <= s.rc
    BY DEF SumsOf
  <2>1. i \in 0 .. CpSlots - 1 /\ s.cp[i] \in CpSlot
    BY DEF Typed
  <2> QED
    BY <2>1 DEF ChecksOK, CpSlot, FrameOrNone
<1>3. NewestSums(s) = PickAll(seq)
  BY DEF NewestSums, PickAll, SumsOf
<1> HIDE DEF S
<1>4. DOMAIN seq = 1 .. MaxSums /\ \A i \in 1 .. MaxSums : seq[i] = S
  OBVIOUS
<1> HIDE DEF seq
<1>5. PICK c : PickTurns(c, MaxSums, seq)
  BY <1>1, <1>4, PicksChain
<1> DEFINE I == {i \in 0 .. MaxSums : c[i] \in Seq(S)}
<1>6. 0 \in I
  <2>1. c[0] = <<>> /\ 0 \in 0 .. MaxSums
    BY <1>1, <1>5 DEF PickTurns
  <2>2. <<>> \in Seq(S)
    OBVIOUS
  <2> QED
    BY <2>1, <2>2
<1>7. ASSUME NEW i \in 1 .. MaxSums, i - 1 \in I PROVE i \in I
  <2>1. c[i - 1] \in Seq(S) /\ c[i] = PickNewest(c[i - 1], S)
    BY <1>4, <1>5, <1>7 DEF PickTurns
  <2>2. c[i] \in Seq(S)
    BY <1>1, <1>2, <2>1, PickNewestKeeps
  <2> QED
    BY <2>2
<1>8. MaxSums \in I
  <2> HIDE DEF I
  <2> QED
    BY <1>1, <1>6, <1>7, UpTo
<1> QED
  BY <1>3, <1>5, <1>8 DEF PickTurns, S

-----------------------------------------------------------------------------

\* Sessions of which everything but the packets sent and the frames changed is equal.
Alike(s, t) ==
    /\ t.peerAck = s.peerAck /\ t.me = s.me /\ t.fault = s.fault /\ t.delay = s.delay
    /\ t.frame = s.frame /\ t.rc = s.rc /\ t.localNext = s.localNext
    /\ t.firstBad = s.firstBad /\ t.local = s.local /\ t.remote = s.remote /\ t.used = s.used
    /\ t.game = s.game /\ t.saved = s.saved
    /\ t.cp = s.cp /\ t.rem = s.rem

\* Such a session is as well, in particular if it is the one that has ended.
LEMMA AlikeFine ==
    ASSUME NEW s, NEW r0, NEW g \in Seq(Inputs), NEW q, NEW b,
           Well(s, r0, g, q, b), NEW t, Typed(t), Alike(s, t),
           \/ t.status = s.status /\ t.err = s.err
           \/ t.status = "ended" /\ t.err = "disconnect"
    PROVE  Well(t, r0, g, q, b) /\ Said(t, g) = Said(s, g)
<1>1. Said(t, g) = Said(s, g)
  BY DEF Said, Alike
<1>2. /\ LocalOK(t, g) /\ RemoteOK(t, b) /\ SavedAll(t, t.frame) /\ SavedOK(t)
      /\ Bounds(t, r0) /\ AckOK(t, q)
  BY DEF Alike, Well, Fine, LocalOK, RemoteOK, SavedAll, SavedOK, Bounds, AckOK
<1>3. SimOK(t, t.frame, Sure(t), Said(t, g), b)
  <2>1. SimOK(s, s.frame, Sure(s), Said(s, g), b)
    BY DEF Well, Fine
  <2>2. Sure(t) = Sure(s)
    BY DEF Sure, Alike
  <2> QED
    BY <1>1, <2>1, <2>2 DEF SimOK, Alike
<1>4. ChecksOK(t, Said(t, g), b) /\ RemsOK(t, q.fault, Said(t, g), b)
  BY <1>1 DEF Well, Fine, ChecksOK, RemsOK, Alike
<1>5. Phase(t)
  <2>1. Phase(s)
    BY DEF Well, Fine
  <2> QED
    BY <2>1 DEF Phase, Alike
<1>6. DesyncOK(t, q.fault)
  BY DEF Well, Fine, DesyncOK, Alike
<1> QED
  BY <1>1, <1>2, <1>3, <1>4, <1>5, <1>6 DEF Well, Fine, Alike

\* The packet that carries the session's inputs.
InputOf(s) ==
    LET start == Most(Most(s.peerAck, s.localNext - (History - HistorySpare)), 0)
        count == Most(Least(s.localNext - start, MaxEntries), 0)
    IN  [type |-> "input", echo |-> s.haveEcho, frame |-> s.frame,
         ack |-> s.rc, start |-> start,
         entries |-> [i \in 1 .. count |-> s.local[(start + i - 1) % History]],
         sums |-> NewestSums(s)]

\* The checksums it carries are those of frames that cannot change any more.
LEMMA SumsSent ==
    ASSUME NEW s, Typed(s), NEW g \in Seq(Inputs), NEW b \in Seq(Inputs),
           LocalOK(s, g), RemoteOK(s, b), ChecksOK(s, Said(s, g), b)
    PROVE  /\ NewestSums(s) \in Seq(Report)
           /\ \A i \in 1 .. Len(NewestSums(s)) :
                 ReportOK(NewestSums(s)[i], s, b, Said(s, g))
<1> DEFINE S == SumsOf(s)
           a == Said(s, g)
<1>1. NewestSums(s) \in Seq(S)
  BY NewestSumsAre
<1>2. a \in Seq(Inputs)
  BY SaidFacts
<1>3. ASSUME NEW r \in S PROVE ReportOK(r, s, b, a)
  <2>1. PICK i \in DOMAIN s.cp :
           /\ s.cp[i].frame # NoFrame /\ s.cp[i].epoch = s.epoch
           /\ r = [frame |-> s.cp[i].frame, sum |-> s.cp[i].sum, epoch |-> s.cp[i].epoch]
    BY <1>3 DEF SumsOf
  <2>2. i \in 0 .. CpSlots - 1 /\ s.cp[i] \in CpSlot /\ s.rc \in Nat
    BY DEF Typed
  <2>3. s.cp[i].frame \in Nat /\ s.cp[i].sum \in Game /\ s.cp[i].epoch \in {0}
    BY <2>1, <2>2 DEF CpSlot, FrameOrNone
  <2>4. r \in Report /\ r.frame = s.cp[i].frame /\ r.sum = s.cp[i].sum
    BY <2>1, <2>3 DEF Report
  <2>5. /\ s.cp[i].frame <= s.rc /\ s.cp[i].frame <= Len(a)
        /\ s.cp[i].sum = Played(s.me, s.fault, a, b, s.cp[i].frame)
    BY <2>1, <2>2 DEF ChecksOK
  <2>6. s.rc <= Len(b) /\ Len(b) \in Nat
    BY DEF RemoteOK
  <2> QED
    BY <2>2, <2>3, <2>4, <2>5, <2>6 DEF ReportOK
<1>4. PICK n : n = NewestSums(s)
  OBVIOUS
<1>5. n \in Seq(S)
  BY <1>1, <1>4
<1> HIDE DEF S, a
<1>6. \A i \in 1 .. Len(n) : n[i] \in S
  BY <1>5
<1>7. n \in Seq(Report)
  <2>1. \A i \in 1 .. Len(n) : n[i] \in Report
    BY <1>3, <1>6 DEF ReportOK
  <2>2. n = [i \in 1 .. Len(n) |-> n[i]] /\ Len(n) \in Nat
    BY <1>5
  <2> QED
    BY <2>1, <2>2
<1> QED
  BY <1>3, <1>4, <1>6, <1>7 DEF a

\* What a session may still send its inputs from.
Sendable(s) ==
    s.frame - s.rc <= Window /\ s.localNext <= s.peerAck + (History - HistorySpare)

\* The packet begins where the peer's inputs end.
LEMMA InputStart ==
    ASSUME NEW s, NEW r0, NEW g \in Seq(Inputs), NEW q, NEW b \in Seq(Inputs),
           Well(s, r0, g, q, b), Sendable(s)
    PROVE  \E count \in Nat :
              /\ count <= s.localNext - s.peerAck
              /\ InputOf(s) =
                    [type |-> "input", echo |-> s.haveEcho, frame |-> s.frame,
                     ack |-> s.rc, start |-> s.peerAck,
                     entries |-> [i \in 1 .. count |-> s.local[(s.peerAck + i - 1) % History]],
                     sums |-> NewestSums(s)]
<1> DEFINE spare == History - HistorySpare
           start == Most(Most(s.peerAck, s.localNext - spare), 0)
           count == Most(Least(s.localNext - start, MaxEntries), 0)
<1>1. s.peerAck \in Nat /\ s.localNext \in Nat /\ q.rc \in Nat /\ spare \in Nat /\ MaxEntries \in Nat
  BY WellNumbers, Consts
<1>2. s.localNext <= s.peerAck + spare
  BY DEF Sendable
<1>3. s.peerAck <= s.localNext
  <2>1. s.peerAck <= q.rc /\ q.rc <= Len(g) /\ Len(g) <= s.localNext /\ Len(g) \in Nat
    BY DEF Well, Fine, AckOK, OtherOK, LocalOK
  <2> QED
    BY <1>1, <2>1
<1>4. InputOf(s) = [type |-> "input", echo |-> s.haveEcho, frame |-> s.frame,
                    ack |-> s.rc, start |-> start,
                    entries |-> [i \in 1 .. count |-> s.local[(start + i - 1) % History]],
                    sums |-> NewestSums(s)]
  BY DEF InputOf
<1> HIDE DEF spare
<1>5. start = s.peerAck
  BY <1>1, <1>2 DEF Most
<1>6. count \in Nat /\ count <= s.localNext - s.peerAck
  BY <1>1, <1>3, <1>5 DEF Most, Least
<1> QED
  BY <1>4, <1>5, <1>6

\* sendInput: the packet tells the truth about the sender's inputs and checksums, and it
\* begins no later than what the peer has confirmed.
LEMMA InputSent ==
    ASSUME NEW s, NEW r0, NEW g \in Seq(Inputs), NEW q, NEW b \in Seq(Inputs),
           Well(s, r0, g, q, b), Sendable(s), NEW m, m = InputOf(s)
    PROVE  MessageOK(m, s, b, Said(s, g)) /\ m.start <= q.rc
<1> DEFINE a == Said(s, g)
<1>1. Typed(s) /\ LocalOK(s, g) /\ RemoteOK(s, b) /\ ChecksOK(s, a, b) /\ Phase(s)
  BY DEF Well, Fine
<1>2. PICK count \in Nat :
              /\ count <= s.localNext - s.peerAck
              /\ m = [type |-> "input", echo |-> s.haveEcho, frame |-> s.frame,
                     ack |-> s.rc, start |-> s.peerAck,
                     entries |-> [i \in 1 .. count |-> s.local[(s.peerAck + i - 1) % History]],
                     sums |-> NewestSums(s)]
  BY InputStart
<1>3. /\ s.peerAck \in Nat /\ s.localNext \in Nat /\ s.rc \in Nat /\ s.frame \in Nat
      /\ q.rc \in Nat /\ s.delay \in Nat /\ s.haveEcho \in BOOLEAN
      /\ History \in Nat \ {0} /\ HistorySpare \in Nat /\ MaxInputDelay \in Nat
      /\ Window \in Nat
  <2>1. s.delay \in 0 .. MaxInputDelay /\ s.haveEcho \in BOOLEAN
    BY <1>1 DEF Typed
  <2> QED
    BY <2>1, WellNumbers, Consts
<1>4. /\ a \in Seq(Inputs) /\ Len(a) = s.localNext
      /\ \A f \in 0 .. s.localNext - 1 :
            f >= s.localNext - History => s.local[f % History] = a[f + 1]
  BY <1>1, SaidFacts
<1>5. /\ m.type = "input" /\ m.echo = s.haveEcho /\ m.frame = s.frame /\ m.ack = s.rc
      /\ m.start = s.peerAck /\ m.sums = NewestSums(s)
      /\ m.entries = [i \in 1 .. count |-> s.local[(s.peerAck + i - 1) % History]]
      /\ DOMAIN m = {"type", "echo", "frame", "ack", "start", "entries", "sums"}
  BY <1>2
<1>6. Len(m.entries) = count /\ \A i \in 1 .. count : m.entries[i] = a[s.peerAck + i]
  <2>1. Len(m.entries) = count
    BY <1>5
  <2>2. ASSUME NEW i \in 1 .. count PROVE m.entries[i] = a[s.peerAck + i]
    <3>1. m.entries[i] = s.local[(s.peerAck + i - 1) % History]
      BY <1>5
    <3>2. s.peerAck + i - 1 \in 0 .. s.localNext - 1
      BY <1>2, <1>3
    <3>3. s.peerAck + i - 1 >= s.localNext - History
      BY <1>3 DEF Sendable
    <3>4. s.local[(s.peerAck + i - 1) % History] = a[s.peerAck + i - 1 + 1]
      BY <1>4, <3>2, <3>3
    <3>5. s.peerAck + i - 1 + 1 = s.peerAck + i
      BY <1>3
    <3> QED
      BY <3>1, <3>4, <3>5
  <2> QED
    BY <2>1, <2>2
<1>7. m.entries \in Seq(Inputs)
  <2>1. ASSUME NEW i \in 1 .. count PROVE m.entries[i] \in Inputs
    <3>1. s.peerAck + i \in 1 .. Len(a)
      BY <1>2, <1>3, <1>4
    <3> QED
      BY <1>4, <1>6, <3>1
  <2>2. m.entries = [i \in 1 .. count |-> m.entries[i]]
    BY <1>5
  <2> QED
    BY <2>1, <2>2
<1>8. /\ NewestSums(s) \in Seq(Report)
      /\ \A i \in 1 .. Len(NewestSums(s)) : ReportOK(NewestSums(s)[i], s, b, a)
  BY <1>1, SumsSent
<1>9. m \in InputPacket
  <2>1. m = [type |-> m.type, echo |-> m.echo, frame |-> m.frame, ack |-> m.ack,
             start |-> m.start, entries |-> m.entries, sums |-> m.sums]
    BY <1>2
  <2> QED
    BY <1>3, <1>5, <1>7, <1>8, <2>1 DEF InputPacket
<1>10. s.localNext <= s.rc + s.delay + Window
  BY <1>1, <1>3 DEF Phase, Sendable
<1>11. s.peerAck + count <= s.localNext
  BY <1>2, <1>3
<1>12. s.peerAck <= q.rc
  BY DEF Well, Fine, AckOK
<1> HIDE DEF a
<1>13. MessageOK(m, s, b, a)
  <2>1. m.ack <= s.rc /\ m.start + Len(m.entries) <= Len(a)
    BY <1>3, <1>4, <1>5, <1>6, <1>11
  <2>2. m.start + Len(m.entries) <= m.ack + s.delay + Window
    BY <1>3, <1>5, <1>6, <1>10, <1>11
  <2>3. \A i \in 1 .. Len(m.entries) : m.entries[i] = a[m.start + i]
    BY <1>5, <1>6
  <2>4. \A i \in 1 .. Len(m.sums) : ReportOK(m.sums[i], s, b, a)
    BY <1>5, <1>8
  <2> QED
    BY <1>9, <2>1, <2>2, <2>3, <2>4 DEF MessageOK, Packet, ReportOK
<1> QED
  BY <1>5, <1>12, <1>13 DEF a

-----------------------------------------------------------------------------
(* A tick.                                                                 *)

\* What a session sends in a tick.
OutOK(t, g, q, b) ==
    \/ t.out = <<>>
    \/ \E m : /\ t.out = <<m>> /\ MessageOK(m, t, b, Said(t, g))
              /\ m.type = "input" => m.start <= q.rc

\* The frames a tick changed, the new one included.
Shows(s, t, r0) ==
    \/ t.changedFrom = NoFrame /\ t.game = s.game /\ t.frame = s.frame
    \/ /\ t.changedFrom \in Nat /\ t.changedFrom <= s.frame /\ t.changedFrom < t.frame
       /\ r0 <= t.changedFrom \/ t.changedFrom = s.frame
       /\ SameStart(s, t, t.changedFrom)

\* The session t that a tick makes of s, of which r0 frames were confirmed.
Ticked(s, t, r0, g, q, b) ==
    /\ Well(t, Sure(t), g, q, b) /\ Sendable(t) /\ OutOK(t, g, q, b)
    /\ t.me = s.me /\ t.fault = s.fault /\ t.delay = s.delay
    /\ s.rc <= t.rc /\ s.peerAck <= t.peerAck /\ r0 <= Sure(t)
    /\ s.frame <= t.frame /\ t.frame <= s.frame + 1
    /\ Grows(Said(s, g), Said(t, g))
    /\ t.firstBad # NoFrame => t.status = "ended"
    /\ Shows(s, t, r0)

\* The session x that has read its packets may send, and judges by what it knows now.
LEMMA ReceivedSendable ==
    ASSUME NEW s, NEW r0 \in Nat, NEW g \in Seq(Inputs), NEW q, NEW b,
           Well(s, r0, g, q, b), Sendable(s), NEW x, Well(x, r0, g, q, b), ReceivedOf(s, x, r0, g)
    PROVE  Sendable(x) /\ Well(x, Sure(x), g, q, b) /\ r0 <= Sure(x)
<1>1. /\ Typed(s) /\ Typed(x) /\ Phase(s) /\ Phase(x) /\ Bounds(x, r0)
  BY DEF Well, Fine
<1>2. /\ s.frame \in Nat /\ s.rc \in Nat /\ s.localNext \in Nat /\ s.peerAck \in Nat
      /\ x.frame \in Nat /\ x.rc \in Nat /\ x.localNext \in Nat /\ x.peerAck \in Nat
      /\ s.delay \in 0 .. MaxInputDelay /\ x.firstBad \in FrameOrNone
  BY <1>1 DEF Typed
<1>3. /\ x.frame = s.frame /\ x.delay = s.delay /\ s.peerAck <= x.peerAck
  BY DEF ReceivedOf
<1>4. /\ Window \in Nat /\ MaxInputDelay \in Nat /\ History - HistorySpare \in Nat
      /\ MaxInputDelay <= History - HistorySpare
  BY Consts
<1>5. Sendable(x)
  <2>1. x.frame - x.rc <= Window
    BY <1>1, <1>2, <1>4 DEF Bounds
  <2>2. x.localNext <= x.peerAck + (History - HistorySpare)
    <3> DEFINE spare == History - HistorySpare
    <3>1. spare \in Nat /\ MaxInputDelay <= spare /\ s.localNext <= s.peerAck + spare
      BY <1>4 DEF Sendable
    <3> HIDE DEF spare
    <3>2. \/ x.localNext = 0
          \/ s.localNext = 0 /\ s.frame = 0 /\ x.localNext = 0 + s.delay
          \/ s.localNext = x.localNext
      <4>1. /\ x.localNext = 0 \/ x.localNext = s.frame + s.delay
            /\ s.localNext = 0 \/ s.localNext = s.frame + s.delay
            /\ s.frame <= s.localNext
        BY <1>1, <1>3 DEF Phase
      <4> QED
        BY <1>2, <4>1
    <3>3. s.delay \in Nat /\ s.delay <= spare
      BY <1>2, <1>4, <3>1
    <3>4. x.localNext <= x.peerAck + spare
      BY <1>2, <1>3, <3>1, <3>2, <3>3
    <3> QED
      BY <3>4 DEF spare
  <2> QED
    BY <2>1, <2>2 DEF Sendable
<1>6. Bounds(x, Sure(x))
  <2>1. /\ r0 <= x.rc /\ x.frame - r0 <= Window
        /\ x.firstBad # NoFrame => r0 <= x.firstBad /\ x.firstBad < x.frame /\ x.firstBad < x.rc
    BY <1>1 DEF Bounds
  <2>2. CASE x.firstBad = NoFrame
    <3>1. Sure(x) = x.rc
      BY <2>2 DEF Sure
    <3>2. Bounds(x, x.rc)
      <4>1. x.frame \in Nat /\ x.rc \in Nat /\ Window \in Nat
        BY <1>2, <1>4
      <4>2. x.frame - x.rc <= Window
        BY <2>1, <4>1
      <4> QED
        BY <2>2, <4>1, <4>2 DEF Bounds
    <3> QED
      BY <3>1, <3>2
  <2>3. CASE x.firstBad # NoFrame
    <3>1. Sure(x) = x.firstBad /\ x.firstBad \in Nat
      BY <1>2, <2>3 DEF Sure, FrameOrNone
    <3>2. Bounds(x, x.firstBad)
      <4>1. x.frame \in Nat /\ x.rc \in Nat /\ Window \in Nat
        BY <1>2, <1>4
      <4>2. x.frame - x.firstBad <= Window /\ x.firstBad <= x.rc
        BY <2>1, <2>3, <3>1, <4>1
      <4> QED
        BY <2>1, <2>3, <3>1, <4>2 DEF Bounds
    <3> QED
      BY <3>1, <3>2
  <2> QED
    BY <2>2, <2>3
<1>7. r0 <= Sure(x)
  BY <1>1 DEF Bounds, Sure
<1> QED
  BY <1>5, <1>6, <1>7 DEF Well, Fine

\* A tick without a new frame.
LEMMA QuietTick ==
    ASSUME NEW s, NEW r0 \in Nat, NEW g \in Seq(Inputs), NEW q, NEW b \in Seq(Inputs),
           Well(s, r0, g, q, b), NEW x, Well(x, r0, g, q, b), ReceivedOf(s, x, r0, g), Sendable(s),
           NEW t, Typed(t), Alike(x, t), t.changedFrom = x.changedFrom,
           \/ t.status = x.status /\ t.err = x.err
           \/ t.status = "ended" /\ t.err = "disconnect",
           OutOK(t, g, q, b)
    PROVE  Ticked(s, t, r0, g, q, b)
<1>1. Sendable(x) /\ Well(x, Sure(x), g, q, b) /\ r0 <= Sure(x)
  BY ReceivedSendable
<1>2. Well(t, Sure(x), g, q, b) /\ Said(t, g) = Said(x, g)
  BY <1>1, AlikeFine
<1>3. Sure(t) = Sure(x) /\ Sendable(t) /\ r0 <= Sure(t)
  BY <1>1 DEF Alike, Sure, Sendable
<1>4. Shows(s, t, r0)
  <2>1. Refreshed(s, x, r0) /\ x.frame = s.frame /\ s.frame \in Nat
    BY WellNumbers DEF ReceivedOf
  <2>2. t.changedFrom = x.changedFrom /\ t.game = x.game /\ t.frame = s.frame
    BY <2>1 DEF Alike
  <2> QED
    BY <2>1, <2>2 DEF Shows, Refreshed, SameStart
<1>5. t.firstBad # NoFrame => t.status = "ended"
  BY DEF ReceivedOf, Alike
<1>6. s.frame <= t.frame /\ t.frame <= s.frame + 1
  <2>1. t.frame = s.frame /\ s.frame \in Nat
    BY WellNumbers DEF Alike, ReceivedOf
  <2> QED
    BY <2>1
<1>7. /\ t.me = s.me /\ t.fault = s.fault /\ t.delay = s.delay
      /\ s.rc <= t.rc /\ s.peerAck <= t.peerAck
      /\ Grows(Said(s, g), Said(t, g))
  BY <1>2 DEF Alike, ReceivedOf
<1> QED
  BY <1>2, <1>3, <1>4, <1>5, <1>6, <1>7 DEF Ticked

\* Whether a session stalls is of no account here.
LEMMA StallingFields ==
    ASSUME NEW s, Typed(s), NEW v \in BOOLEAN, NEW t, t = [s EXCEPT !.stalling = v]
    PROVE  /\ Typed(t) /\ Alike(s, t) /\ t.changedFrom = s.changedFrom /\ t.out = s.out
           /\ t.status = s.status /\ t.err = s.err
  BY DEF Typed, Names, Alike

\* Sending a packet changes what is sent and nothing else.
LEMMA SendFields ==
    ASSUME NEW s, Typed(s), s.out = <<>>, NEW m \in Packet, NEW t, t = Send(s, m)
    PROVE  /\ Typed(t) /\ Alike(s, t) /\ t.changedFrom = s.changedFrom /\ t.out = <<m>>
           /\ t.status = s.status /\ t.err = s.err
<1>1. t = [s EXCEPT !.out = <<m>>]
  BY DEF Send, Typed, Names
<1>2. <<m>> \in Seq(Packet)
  OBVIOUS
<1> QED
  BY <1>1, <1>2 DEF Typed, Names, Alike

\* A packet of a session is one of a session that is alike.
LEMMA MessageAlike ==
    ASSUME NEW s, NEW t, Alike(s, t), NEW m, NEW a, NEW b, MessageOK(m, s, a, b)
    PROVE  MessageOK(m, t, a, b)
  BY DEF MessageOK, Alike

\* Being equal but for what is sent and marked is transitive.
LEMMA AlikeTransitive ==
    ASSUME NEW s, NEW t, NEW u, Alike(s, t), Alike(t, u)
    PROVE  Alike(s, u)
  BY DEF Alike

\* A session that sends its inputs.
Sends(s, t, r0, g, q, b) ==
    /\ Typed(t) /\ Alike(s, t) /\ t.changedFrom = s.changedFrom
    /\ t.status = s.status /\ t.err = s.err /\ OutOK(t, g, q, b)
    /\ Well(t, r0, g, q, b) /\ Said(t, g) = Said(s, g)

\* A session that sends its inputs stays as it is, and what it sends is true.
LEMMA InputOut ==
    ASSUME NEW s, NEW r0, NEW g \in Seq(Inputs), NEW q, NEW b \in Seq(Inputs),
           Well(s, r0, g, q, b), Sendable(s), s.out = <<>>, NEW t, t = SendInput(s)
    PROVE  Sends(s, t, r0, g, q, b)
<1>1. PICK m : m = InputOf(s)
  OBVIOUS
<1>2. MessageOK(m, s, b, Said(s, g)) /\ m.start <= q.rc
  BY <1>1, InputSent
<1>3. t = Send(s, m)
  BY <1>1 DEF SendInput, InputOf
<1>4. Typed(s) /\ m \in Packet
  BY <1>2 DEF Well, Fine, MessageOK
<1>5. /\ Typed(t) /\ Alike(s, t) /\ t.changedFrom = s.changedFrom /\ t.out = <<m>>
      /\ t.status = s.status /\ t.err = s.err
  BY <1>3, <1>4, SendFields
<1>6. Well(t, r0, g, q, b) /\ Said(t, g) = Said(s, g)
  BY <1>5, AlikeFine
<1>7. MessageOK(m, t, b, Said(t, g))
  BY <1>2, <1>5, <1>6, MessageAlike
<1>8. OutOK(t, g, q, b)
  BY <1>2, <1>5, <1>7 DEF OutOK
<1> QED
  BY <1>5, <1>6, <1>8 DEF Sends

\* A tick that stalls or waits.
LEMMA HeldTick ==
    ASSUME NEW s, NEW r0 \in Nat, NEW g \in Seq(Inputs), NEW q, NEW b \in Seq(Inputs),
           Well(s, r0, g, q, b), NEW x, Well(x, r0, g, q, b), ReceivedOf(s, x, r0, g), Sendable(s),
           s.out = <<>>, NEW v \in BOOLEAN, NEW t, t = SendInput([x EXCEPT !.stalling = v])
    PROVE  Ticked(s, t, r0, g, q, b)
<1>1. Typed(x) /\ x.out = <<>> /\ Sendable(x)
  BY ReceivedSendable DEF Well, Fine, ReceivedOf
<1>2. PICK y : y = [x EXCEPT !.stalling = v]
  OBVIOUS
<1>3. /\ Typed(y) /\ Alike(x, y) /\ y.changedFrom = x.changedFrom /\ y.out = <<>>
      /\ y.status = x.status /\ y.err = x.err
  BY <1>1, <1>2, StallingFields
<1>4. Well(y, r0, g, q, b) /\ Sendable(y)
  BY <1>1, <1>3, AlikeFine DEF Sendable, Alike
<1>5. /\ Typed(t) /\ Alike(y, t) /\ t.changedFrom = y.changedFrom
      /\ t.status = y.status /\ t.err = y.err /\ OutOK(t, g, q, b)
  <2>1. t = SendInput(y)
    BY <1>2
  <2>2. Sends(y, t, r0, g, q, b)
    BY <1>3, <1>4, <2>1, InputOut
  <2> QED
    BY <2>2 DEF Sends
<1>6. Alike(x, t)
  BY <1>3, <1>5, AlikeTransitive
<1> QED
  BY <1>3, <1>5, <1>6, QuietTick

\* A tick before the match begins.
LEMMA HandshakeTick ==
    ASSUME NEW s, NEW r0 \in Nat, NEW g \in Seq(Inputs), NEW q, NEW b \in Seq(Inputs),
           Well(s, r0, g, q, b), NEW x, Well(x, r0, g, q, b), ReceivedOf(s, x, r0, g), Sendable(s),
           s.out = <<>>, NEW t, t = SendHello(x)
    PROVE  Ticked(s, t, r0, g, q, b)
<1>1. Typed(x) /\ x.out = <<>> /\ x.haveEcho \in BOOLEAN
  BY DEF Well, Fine, ReceivedOf, Typed
<1>2. PICK m : m = [type |-> "hello", echo |-> x.haveEcho]
  OBVIOUS
<1>3. m \in Packet /\ m.type = "hello"
  BY <1>1, <1>2 DEF Packet, Hello
<1>4. t = Send(x, m)
  BY <1>2 DEF SendHello
<1>5. /\ Typed(t) /\ Alike(x, t) /\ t.changedFrom = x.changedFrom /\ t.out = <<m>>
      /\ t.status = x.status /\ t.err = x.err
  BY <1>1, <1>3, <1>4, SendFields
<1>6. OutOK(t, g, q, b)
  <2>1. MessageOK(m, t, b, Said(t, g))
    BY <1>3 DEF MessageOK
  <2> QED
    BY <1>3, <1>5, <2>1 DEF OutOK
<1> QED
  BY <1>5, <1>6, QuietTick

\* A tick in which the session ends, or finds itself ended.
LEMMA EndTick ==
    ASSUME NEW s, NEW r0 \in Nat, NEW g \in Seq(Inputs), NEW q, NEW b \in Seq(Inputs),
           Well(s, r0, g, q, b), NEW x, Well(x, r0, g, q, b), ReceivedOf(s, x, r0, g), Sendable(s),
           s.out = <<>>, NEW t, t = x \/ (t = End(x, "disconnect"))
    PROVE  Ticked(s, t, r0, g, q, b)
<1>1. Typed(x) /\ x.out = <<>>
  BY DEF Well, Fine, ReceivedOf
<1>2. /\ Typed(t) /\ Alike(x, t) /\ t.changedFrom = x.changedFrom /\ t.out = x.out
      /\ \/ t.status = x.status /\ t.err = x.err
         \/ t.status = "ended" /\ t.err = "disconnect"
  <2>1. CASE t = x
    BY <1>1, <2>1 DEF Alike
  <2>2. CASE t = [x EXCEPT !.status = "ended", !.err = "disconnect"]
    BY <1>1, <2>2 DEF Typed, Names, Alike
  <2> QED
    BY <2>1, <2>2 DEF End
<1>3. OutOK(t, g, q, b)
  BY <1>1, <1>2 DEF OutOK
<1> QED
  BY <1>2, <1>3, QuietTick

\* One more frame, below the window, is within it.
LEMMA OneMore ==
    ASSUME NEW m \in Nat, NEW n \in Nat, NEW limit \in Nat, m - n < limit
    PROVE  m + 1 - n <= limit /\ m + 1 <= n + limit
  OBVIOUS

\* A tick with a new frame.
LEMMA FrameTick ==
    ASSUME NEW s, NEW r0 \in Nat, NEW g \in Seq(Inputs), NEW q, NEW b \in Seq(Inputs),
           Well(s, r0, g, q, b), NEW x, Well(x, r0, g, q, b), ReceivedOf(s, x, r0, g), Sendable(s),
           s.out = <<>>, x.status = "running", ~AtLimit(x), NEW input \in Inputs,
           NEW t, t = SendInput(Simulate(x, input))
    PROVE  Ticked(s, t, r0, g, q, b) /\ t.frame = s.frame + 1
<1>1. PICK y : y = Simulate(x, input)
  OBVIOUS
<1>2. MayGoOn(x) /\ Fine(x, r0, g, q, b) /\ OtherOK(q, g) /\ q.me = Other(x.me)
  BY DEF MayGoOn, ReceivedOf, Well
<1>3. Fine(y, y.rc, g, q, b) /\ Simulated(x, y) /\ Grows(Said(x, g), Said(y, g))
  BY <1>1, <1>2, SimulateKeeps DEF Simulates
<1>4. /\ y.me = x.me /\ y.fault = x.fault /\ y.delay = x.delay /\ y.frame = x.frame + 1
      /\ y.rc = x.rc /\ y.localNext = x.localNext + 1 /\ y.peerAck = x.peerAck
      /\ y.out = x.out /\ y.firstBad = NoFrame
      /\ y.changedFrom = IF x.changedFrom = NoFrame THEN x.frame ELSE x.changedFrom
      /\ SameStart(x, y, x.frame)
  BY <1>3 DEF Simulated
<1>5. Well(y, y.rc, g, q, b) /\ y.out = <<>>
  BY <1>2, <1>3, <1>4 DEF Well, ReceivedOf
<1>6. /\ x.frame \in Nat /\ x.rc \in Nat /\ x.localNext \in Nat /\ x.peerAck \in Nat
      /\ Window \in Nat /\ History - HistorySpare \in Nat
  BY WellNumbers, Consts
<1>7. Sendable(y)
  <2> DEFINE spare == History - HistorySpare
  <2>1. /\ spare \in Nat /\ x.frame - x.rc < Window
        /\ x.localNext - x.peerAck < spare
    <3>1. spare \in Nat /\ ~(x.frame - x.rc >= Window) /\ ~(x.localNext - x.peerAck >= spare)
      BY <1>6 DEF AtLimit
    <3> HIDE DEF spare
    <3> QED
      BY <1>6, <3>1
  <2> HIDE DEF spare
  <2>2. y.frame - y.rc <= Window /\ y.localNext <= y.peerAck + spare
    <3>1. /\ y.frame = x.frame + 1 /\ y.rc = x.rc /\ y.localNext = x.localNext + 1
          /\ y.peerAck = x.peerAck
      BY <1>4
    <3>2. /\ x.frame \in Nat /\ x.rc \in Nat /\ x.localNext \in Nat /\ x.peerAck \in Nat
          /\ Window \in Nat
      BY <1>6
    <3>3. x.frame + 1 - x.rc <= Window
      BY <2>1, <3>2, OneMore
    <3>4. x.localNext + 1 <= x.peerAck + spare
      BY <2>1, <3>2, OneMore
    <3> QED
      BY <2>1, <3>1, <3>2, <3>3, <3>4
  <2> QED
    BY <2>2 DEF spare, Sendable
<1>8. /\ Typed(t) /\ Alike(y, t) /\ t.changedFrom = y.changedFrom
      /\ OutOK(t, g, q, b) /\ Well(t, y.rc, g, q, b) /\ Said(t, g) = Said(y, g)
  <2>1. t = SendInput(y)
    BY <1>1
  <2>2. Sends(y, t, y.rc, g, q, b)
    BY <1>5, <1>7, <2>1, InputOut
  <2> QED
    BY <2>2 DEF Sends
<1>9. Sure(t) = y.rc /\ Sendable(t) /\ t.firstBad = NoFrame
  BY <1>4, <1>7, <1>8 DEF Sure, Alike, Sendable
<1>10. /\ Typed(s) /\ Typed(x) /\ Typed(y) /\ LocalOK(s, g) /\ LocalOK(x, g) /\ LocalOK(y, g)
       /\ s.frame \in Nat
  BY <1>3, WellNumbers DEF Well, Fine
<1>11. Grows(Said(s, g), Said(t, g))
  <2>1. Said(s, g) \in Seq(Inputs) /\ Said(x, g) \in Seq(Inputs) /\ Said(y, g) \in Seq(Inputs)
    BY <1>10, SaidFacts
  <2>2. Grows(Said(s, g), Said(x, g))
    BY DEF ReceivedOf
  <2> QED
    BY <1>3, <1>8, <2>1, <2>2, GrowsFacts
<1>12. Shows(s, t, r0)
  <2>1. Refreshed(s, x, r0) /\ x.frame = s.frame
    BY DEF ReceivedOf
  <2>2. t.game = y.game /\ t.frame = s.frame + 1 /\ t.changedFrom = y.changedFrom
    BY <1>4, <1>8, <2>1 DEF Alike
  <2>3. CASE x.changedFrom = NoFrame
    <3>1. t.changedFrom = s.frame /\ x.game = s.game
      BY <1>4, <2>1, <2>2, <2>3 DEF Refreshed, NoFrame
    <3>2. SameStart(s, t, s.frame)
      BY <1>4, <2>1, <2>2, <3>1 DEF SameStart
    <3> QED
      BY <1>10, <2>2, <3>1, <3>2 DEF Shows
  <2>4. CASE x.changedFrom # NoFrame
    <3>1. /\ x.changedFrom \in Nat /\ r0 <= x.changedFrom /\ x.changedFrom < s.frame
          /\ SameStart(s, x, x.changedFrom) /\ t.changedFrom = x.changedFrom
      BY <1>4, <2>1, <2>2, <2>4 DEF Refreshed
    <3>2. SameStart(s, t, x.changedFrom)
      BY <1>4, <1>10, <2>1, <2>2, <3>1 DEF SameStart
    <3> QED
      BY <1>10, <2>2, <3>1, <3>2 DEF Shows
  <2> QED
    BY <2>3, <2>4
<1>13. /\ t.me = s.me /\ t.fault = s.fault /\ t.delay = s.delay /\ t.frame = s.frame + 1
       /\ s.rc <= t.rc /\ s.peerAck <= t.peerAck
       /\ s.frame <= t.frame /\ t.frame <= s.frame + 1
  BY <1>4, <1>8, <1>10 DEF Alike, ReceivedOf
<1>14. r0 <= Sure(t)
  <2>1. r0 <= x.rc
    BY DEF Well, Fine, Bounds
  <2> QED
    BY <1>4, <1>9, <2>1
<1> QED
  BY <1>8, <1>9, <1>11, <1>12, <1>13, <1>14 DEF Ticked

-----------------------------------------------------------------------------
(* The end of a tick.                                                      *)

\* A session between two ticks.
Closed(t) == [t EXCEPT !.out = <<>>, !.changedFrom = NoFrame]

\* With all its inputs given, it is as well as before.
LEMMA ClosedFine ==
    ASSUME NEW t, NEW g \in Seq(Inputs), NEW q, NEW b \in Seq(Inputs),
           Well(t, Sure(t), g, q, b), NEW u, u = Closed(t), NEW a, a = Said(t, g)
    PROVE  /\ Alike(t, u) /\ u.status = t.status /\ u.err = t.err
           /\ u.out = <<>> /\ u.changedFrom = NoFrame
           /\ a \in Seq(Inputs) /\ Len(a) = u.localNext /\ Said(u, a) = a
           /\ Fine(u, Sure(u), a, q, b)
<1>1. Typed(t) /\ LocalOK(t, g) /\ Fine(t, Sure(t), g, q, b)
  BY DEF Well, Fine
<1>2. /\ Typed(u) /\ Alike(t, u) /\ u.status = t.status /\ u.err = t.err
      /\ u.out = <<>> /\ u.changedFrom = NoFrame
  BY <1>1 DEF Closed, Typed, Names, Alike, FrameOrNone
<1>3. Well(u, Sure(t), g, q, b) /\ Said(u, g) = a
  BY <1>2, AlikeFine
<1>4. Sure(u) = Sure(t) /\ u.localNext = t.localNext /\ u.local = t.local
  BY <1>2 DEF Sure, Alike
<1>5. /\ a \in Seq(Inputs) /\ Len(a) = u.localNext /\ u.localNext \in Nat
      /\ \A f \in 0 .. u.localNext - 1 :
            f >= u.localNext - History => u.local[f % History] = a[f + 1]
  <2>1. t.localNext \in Nat
    BY <1>1 DEF Typed
  <2> QED
    BY <1>1, <1>4, <2>1, SaidFacts
<1>6. Said(u, a) = a
  <2>1. Said(u, a) = a \o [i \in 1 .. 0 |-> u.local[(Len(a) + i - 1) % History]]
    <3>1. u.localNext - Len(a) = 0
      BY <1>5
    <3>2. PICK n : n = u.localNext - Len(a)
      OBVIOUS
    <3>3. Said(u, a) = a \o [i \in 1 .. n |-> u.local[(Len(a) + i - 1) % History]]
      BY <3>2 DEF Said
    <3> QED
      BY <3>1, <3>2, <3>3
  <2>2. [i \in 1 .. 0 |-> u.local[(Len(a) + i - 1) % History]] = <<>>
    OBVIOUS
  <2> QED
    BY <1>5, <2>1, <2>2
<1>7. LocalOK(u, a)
  BY <1>5, Consts DEF LocalOK
<1>8. Fine(u, Sure(u), a, q, b)
  BY <1>3, <1>4, <1>6, <1>7 DEF Well, Fine
<1> QED
  BY <1>2, <1>5, <1>6, <1>8

\* A session s of the peer that has become t, which has confirmed no less.
Later(s, t) == t.me = s.me /\ t.fault = s.fault /\ t.delay = s.delay /\ s.rc <= t.rc

\* What a player knows of the other one stays true.
LEMMA FineSeen ==
    ASSUME NEW q, NEW b \in Seq(Inputs), NEW s, NEW g \in Seq(Inputs), Fine(q, Sure(q), b, s, g),
           NEW t, s.rc \in Nat, t.rc \in Nat, Later(s, t), NEW a \in Seq(Inputs), Grows(g, a)
    PROVE  Fine(q, Sure(q), b, t, a)
<1> DEFINE mine == Said(q, b)
<1>1. /\ Typed(q) /\ LocalOK(q, b) /\ RemoteOK(q, g) /\ SimOK(q, q.frame, Sure(q), mine, g)
      /\ ChecksOK(q, mine, g) /\ RemsOK(q, s.fault, mine, g) /\ Bounds(q, Sure(q)) /\ AckOK(q, s)
  BY DEF Fine
<1>2. /\ q.rc \in Nat /\ q.frame \in Nat /\ q.peerAck \in Nat /\ q.firstBad \in FrameOrNone
      /\ q.cp \in [0 .. CpSlots - 1 -> CpSlot] /\ q.rem \in [0 .. CpSlots - 1 -> RemSum]
  BY <1>1 DEF Typed
<1>3. /\ Len(g) \in Nat /\ Len(a) \in Nat /\ Len(g) <= Len(a)
      /\ \A i \in 1 .. Len(g) : a[i] = g[i]
  BY DEF Grows
<1>4. mine \in Seq(Inputs)
  BY <1>1, SaidFacts
<1> HIDE DEF mine
<1>5. q.rc <= Len(g)
  BY <1>1 DEF RemoteOK
<1>6. \A f \in Nat : f < q.rc => a[f + 1] = g[f + 1]
  BY <1>2, <1>3, <1>5
<1>7. RemoteOK(q, a)
  BY <1>1, <1>2, <1>3, <1>5, <1>6 DEF RemoteOK
<1>8. SimOK(q, q.frame, Sure(q), mine, a)
  <2>1. Sure(q) <= q.rc /\ Sure(q) \in Nat
    BY <1>1, <1>2 DEF Bounds, Sure, FrameOrNone
  <2>2. ASSUME NEW f \in 0 .. q.frame - 1, f < Sure(q)
        PROVE  TrueStep(q.me, q.fault, mine, a, f) = TrueStep(q.me, q.fault, mine, g, f)
    <3>1. a[f + 1] = g[f + 1]
      BY <1>2, <1>6, <2>1, <2>2
    <3> QED
      BY <3>1 DEF TrueStep
  <2> QED
    BY <1>1, <2>2 DEF SimOK
<1>9. ChecksOK(q, mine, a)
  <2> SUFFICES ASSUME NEW i \in 0 .. CpSlots - 1, q.cp[i].frame # NoFrame
               PROVE  /\ q.cp[i].frame <= q.rc /\ q.cp[i].frame <= Len(mine)
                      /\ q.cp[i].sum = Played(q.me, q.fault, mine, a, q.cp[i].frame)
    BY DEF ChecksOK
  <2>1. q.cp[i].frame \in Nat
    BY <1>2 DEF CpSlot, FrameOrNone
  <2>2. /\ q.cp[i].frame <= q.rc /\ q.cp[i].frame <= Len(mine)
        /\ q.cp[i].sum = Played(q.me, q.fault, mine, g, q.cp[i].frame)
    BY <1>1 DEF ChecksOK
  <2>3. q.cp[i].frame <= Len(g) /\ Grows(mine, mine)
    BY <1>2, <1>3, <1>4, <1>5, <2>1, <2>2, GrowsFacts
  <2>4. Played(q.me, q.fault, mine, a, q.cp[i].frame) = Played(q.me, q.fault, mine, g, q.cp[i].frame)
    BY <1>4, <2>1, <2>2, <2>3, PlayedGrows
  <2> QED
    BY <2>2, <2>4
<1>10. RemsOK(q, t.fault, mine, a)
  <2> SUFFICES ASSUME NEW i \in 0 .. CpSlots - 1, q.rem[i].frame # NoFrame
               PROVE  /\ q.rem[i].frame <= Len(mine) /\ q.rem[i].frame <= Len(a)
                      /\ q.rem[i].sum = Played(q.me, t.fault, mine, a, q.rem[i].frame)
    BY DEF RemsOK
  <2>1. q.rem[i].frame \in Nat
    BY <1>2 DEF RemSum, FrameOrNone
  <2>2. /\ q.rem[i].frame <= Len(mine) /\ q.rem[i].frame <= Len(g)
        /\ q.rem[i].sum = Played(q.me, s.fault, mine, g, q.rem[i].frame)
    BY <1>1 DEF RemsOK
  <2>3. q.rem[i].frame <= Len(a) /\ Grows(mine, mine)
    BY <1>3, <1>4, <2>1, <2>2, GrowsFacts
  <2>4. Played(q.me, s.fault, mine, a, q.rem[i].frame) = Played(q.me, s.fault, mine, g, q.rem[i].frame)
    BY <1>4, <2>1, <2>2, <2>3, PlayedGrows
  <2> QED
    BY <2>2, <2>3, <2>4 DEF Later
<1>11. AckOK(q, t) /\ DesyncOK(q, t.fault)
  BY <1>1, <1>2 DEF Fine, AckOK, Later, DesyncOK
<1> QED
  BY <1>7, <1>8, <1>9, <1>10, <1>11 DEF Fine, mine

\* So do the packets in flight.
LEMMA MessageSeen ==
    ASSUME NEW s, NEW g \in Seq(Inputs), NEW b \in Seq(Inputs), NEW m, MessageOK(m, s, g, b),
           NEW t, s.rc \in Nat, t.rc \in Nat, Later(s, t),
           NEW g2 \in Seq(Inputs), Grows(g, g2), NEW b2 \in Seq(Inputs), Grows(b, b2)
    PROVE  MessageOK(m, t, g2, b2)
<1>1. m \in Packet
  BY DEF MessageOK
<1>2. CASE m.type = "input"
  <2>1. /\ m.ack \in Nat /\ m.start \in Nat /\ m.entries \in Seq(Inputs) /\ m.sums \in Seq(Report)
    BY <1>1, <1>2 DEF Packet, Hello, InputPacket
  <2>2. /\ Len(g) \in Nat /\ Len(g2) \in Nat /\ Len(g) <= Len(g2)
        /\ Len(b) \in Nat /\ Len(b2) \in Nat /\ Len(b) <= Len(b2) /\ Len(m.entries) \in Nat
        /\ \A i \in 1 .. Len(b) : b2[i] = b[i]
    BY <2>1 DEF Grows
  <2>3. /\ m.ack <= s.rc /\ m.start + Len(m.entries) <= Len(b)
        /\ m.start + Len(m.entries) <= m.ack + s.delay + Window
        /\ \A i \in 1 .. Len(m.entries) : m.entries[i] = b[m.start + i]
    BY <1>2 DEF MessageOK
  <2>4. m.ack <= t.rc /\ m.start + Len(m.entries) <= Len(b2)
    BY <2>1, <2>2, <2>3 DEF Later
  <2>5. ASSUME NEW i \in 1 .. Len(m.entries) PROVE m.entries[i] = b2[m.start + i]
    <3>1. m.start + i \in 1 .. Len(b)
      BY <2>1, <2>2, <2>3
    <3> QED
      BY <2>2, <2>3, <3>1
  <2>6. ASSUME NEW i \in 1 .. Len(m.sums)
        PROVE  /\ m.sums[i].frame <= Len(g2) /\ m.sums[i].frame <= Len(b2)
               /\ m.sums[i].sum = Played(t.me, t.fault, b2, g2, m.sums[i].frame)
    <3>1. m.sums[i].frame \in Nat
      <4>1. m.sums[i] \in Report
        BY <2>1
      <4> QED
        BY <4>1 DEF Report
    <3>2. /\ m.sums[i].frame <= Len(g) /\ m.sums[i].frame <= Len(b)
          /\ m.sums[i].sum = Played(s.me, s.fault, b, g, m.sums[i].frame)
      BY <1>2 DEF MessageOK
    <3>3. Played(s.me, s.fault, b2, g2, m.sums[i].frame) = Played(s.me, s.fault, b, g, m.sums[i].frame)
      BY <3>1, <3>2, PlayedGrows
    <3> QED
      BY <2>2, <3>1, <3>2, <3>3 DEF Later
  <2>7. m.start + Len(m.entries) <= m.ack + t.delay + Window
    BY <2>3 DEF Later
  <2> QED
    BY <1>1, <2>4, <2>5, <2>6, <2>7 DEF MessageOK
<1>3. CASE m.type # "input"
  BY <1>1, <1>3 DEF MessageOK
<1> QED
  BY <1>2, <1>3

\* A packet to the player that has confirmed rc inputs of the sender s.
Coming(s, rc, g, b) ==
    {m \in Packet : MessageOK(m, s, g, b) /\ (m.type = "input" => m.start <= rc)}

\* A sequence of packets coming to a player is one of which each tells the truth and
\* begins no later than what the player has confirmed.
LEMMA ComingSeq ==
    ASSUME NEW w \in Seq(Packet), NEW s, NEW rc, NEW g, NEW b
    PROVE  w \in Seq(Coming(s, rc, g, b)) <=>
              \A i \in 1 .. Len(w) :
                  MessageOK(w[i], s, g, b) /\ (w[i].type = "input" => w[i].start <= rc)
<1>1. Len(w) \in Nat /\ \A i \in 1 .. Len(w) : w[i] \in Packet
  OBVIOUS
<1>2. ASSUME w \in Seq(Coming(s, rc, g, b)), NEW i \in 1 .. Len(w)
      PROVE  MessageOK(w[i], s, g, b) /\ (w[i].type = "input" => w[i].start <= rc)
  <2>1. w[i] \in Coming(s, rc, g, b)
    BY <1>2
  <2> QED
    BY <2>1 DEF Coming
<1>3. ASSUME \A i \in 1 .. Len(w) :
                 MessageOK(w[i], s, g, b) /\ (w[i].type = "input" => w[i].start <= rc)
      PROVE  w \in Seq(Coming(s, rc, g, b))
  <2>1. \A i \in 1 .. Len(w) : w[i] \in Coming(s, rc, g, b)
    BY <1>1, <1>3 DEF Coming
  <2>2. w = [i \in 1 .. Len(w) |-> w[i]]
    OBVIOUS
  <2> QED
    BY <1>1, <2>1, <2>2
<1> QED
  BY <1>2, <1>3

\* Both players after a tick of one of them; v is in flight to the other one.
LEMMA TickedPeers ==
    ASSUME NEW p \in Players, NEW z, z = Other(p), NEW s, NEW q, NEW g, NEW b, NEW w, NEW v0,
           PeerOK(p, s, q, g, b, w), PeerOK(z, q, s, b, g, v0),
           NEW t, Ticked(s, t, Sure(s), g, q, b), t.frame <= MaxFrame,
           NEW u, u = Closed(t), NEW a, a = Said(t, g),
           NEW v \in Seq(Coming(t, q.rc, b, a)), Len(v) <= InFlight[z]
    PROVE  PeerOK(p, u, q, a, b, w) /\ PeerOK(z, q, u, b, a, v)
<1>1. /\ g \in Seq(Inputs) /\ b \in Seq(Inputs) /\ Fine(s, Sure(s), g, q, b)
      /\ Fine(q, Sure(q), b, s, g) /\ Typed(s) /\ Typed(q) /\ s.localNext = Len(g)
  BY DEF PeerOK, Fine
<1>2. /\ Well(t, Sure(t), g, q, b) /\ Sendable(t) /\ Typed(t)
      /\ t.me = s.me /\ t.fault = s.fault /\ t.delay = s.delay
      /\ s.rc <= t.rc /\ Grows(Said(s, g), Said(t, g))
      /\ t.firstBad # NoFrame => t.status = "ended"
  BY DEF Ticked, Well, Fine
<1>3. /\ Alike(t, u) /\ u.status = t.status /\ u.err = t.err
      /\ u.out = <<>> /\ u.changedFrom = NoFrame
      /\ a \in Seq(Inputs) /\ Len(a) = u.localNext /\ Said(u, a) = a
      /\ Fine(u, Sure(u), a, q, b)
  BY <1>1, <1>2, ClosedFine
<1>4. s.rc \in Nat /\ t.rc \in Nat /\ u.rc \in Nat /\ q.rc \in Nat /\ u.rc = t.rc
  BY <1>1, <1>2, <1>3 DEF Typed, Alike
<1>5. Grows(g, a)
  <2>1. Said(s, g) \in Seq(Inputs) /\ Grows(g, Said(s, g))
    BY <1>1, SaidFacts DEF Fine
  <2> QED
    BY <1>1, <1>2, <1>3, <2>1, GrowsFacts
<1>6. Later(s, u) /\ Later(t, u)
  BY <1>2, <1>3, <1>4 DEF Later, Alike
<1>7. Grows(a, a) /\ Grows(b, b)
  BY <1>1, <1>3, GrowsFacts
<1>8. PeerOK(p, u, q, a, b, w)
  <2>1. /\ u.me = p /\ u.delay \in Delays[p] /\ u.frame <= MaxFrame /\ u.frame - u.rc <= Window
        /\ u.localNext <= u.peerAck + (History - HistorySpare)
        /\ u.firstBad # NoFrame => u.status = "ended"
    BY <1>2, <1>3 DEF PeerOK, Alike, Sendable
  <2>2. w \in Seq(Packet) /\ Len(w) <= InFlight[p]
    BY DEF PeerOK
  <2>3. ASSUME NEW i \in 1 .. Len(w)
        PROVE  MessageOK(w[i], q, a, b) /\ (w[i].type = "input" => w[i].start <= u.rc)
    <3>1. MessageOK(w[i], q, g, b) /\ (w[i].type = "input" => w[i].start <= s.rc)
      BY DEF PeerOK
    <3>2. Later(q, q)
      BY <1>4 DEF Later
    <3>3. MessageOK(w[i], q, a, b)
      BY <1>1, <1>3, <1>4, <1>5, <1>7, <3>1, <3>2, MessageSeen
    <3>4. w[i].type = "input" => w[i].start \in Nat
      <4>1. w[i] \in Packet
        BY <2>2
      <4> QED
        BY <4>1 DEF Packet, Hello, InputPacket
    <3> QED
      BY <1>2, <1>4, <3>1, <3>3, <3>4
  <2> QED
    BY <1>3, <2>1, <2>2, <2>3 DEF PeerOK
<1>9. PeerOK(z, q, u, b, a, v)
  <2>1. Fine(q, Sure(q), b, u, a)
    BY <1>1, <1>3, <1>4, <1>5, <1>6, FineSeen
  <2>2. v \in Seq(Packet)
    BY DEF Coming
  <2>3. ASSUME NEW i \in 1 .. Len(v)
        PROVE  MessageOK(v[i], u, b, a) /\ (v[i].type = "input" => v[i].start <= q.rc)
    <3>1. MessageOK(v[i], t, b, a) /\ (v[i].type = "input" => v[i].start <= q.rc)
      BY <2>2, ComingSeq
    <3> QED
      BY <1>1, <1>3, <1>4, <1>6, <1>7, <3>1, MessageSeen
  <2>4. /\ q.me = z /\ q.delay \in Delays[z] /\ q.frame <= MaxFrame
        /\ q.out = <<>> /\ q.changedFrom = NoFrame /\ q.frame - q.rc <= Window
        /\ q.localNext = Len(b)
        /\ q.firstBad # NoFrame => q.status = "ended"
        /\ q.localNext <= q.peerAck + (History - HistorySpare)
    BY DEF PeerOK
  <2> QED
    BY <1>1, <2>1, <2>2, <2>3, <2>4 DEF PeerOK
<1> QED
  BY <1>8, <1>9

\* A link keeps packets of its kind, and no more than its bound.
LEMMA AddPacketKeeps ==
    ASSUME NEW S, NEW w \in Seq(S), NEW m \in S
    PROVE  AddPacket(w, m) \in Seq(S)
  BY DEF AddPacket

AddAll(w, sent) == FoldLeft(AddPacket, w, sent)

AddTurns(c, n, w, sent) ==
    /\ c[0] = w /\ \A i \in 1 .. n : c[i] = AddPacket(c[i - 1], sent[i])
    /\ AddAll(w, sent) = c[n]

\* The results of adding packets to a link, one by one, are a sequence.
LEMMA AddsChain ==
    ASSUME NEW n \in Nat, NEW w, NEW sent, DOMAIN sent = 1 .. n
    PROVE  \E c : AddTurns(c, n, w, sent)
<1>1. AddAll(w, sent) = Adds!Fold(w, sent)
  BY DEF AddAll, Adds!Fold, FoldLeft, MapThenFoldSet, Max, Adds!MapThenFoldSet, Adds!Max
<1>2. PICK c : /\ c[0] = w /\ \A i \in 1 .. n : c[i] = AddPacket(c[i - 1], sent[i])
               /\ Adds!Fold(w, sent) = c[n]
  BY Adds!FoldLeftChain, SMTT(30)
<1> QED
  BY <1>1, <1>2 DEF AddTurns

\* A link still holds packets of its kind, and no more than its bound.
LEMMA TransmitKeeps ==
    ASSUME NEW S, NEW l, wire[l] \in Seq(S), InFlight[l] \in Nat \ {0},
           NEW sent, sent = <<>> \/ \E m \in S : sent = <<m>>
    PROVE  Transmit(l, sent) \in Seq(S) /\ Len(Transmit(l, sent)) <= InFlight[l]
<1>1. PICK all : all = AddAll(wire[l], sent)
  OBVIOUS
<1>2. all \in Seq(S)
  <2>1. CASE sent = <<>>
    <3>1. DOMAIN sent = 1 .. 0
      BY <2>1
    <3>2. PICK c : AddTurns(c, 0, wire[l], sent)
      BY <3>1, AddsChain
    <3>3. all = wire[l]
      BY <1>1, <3>2 DEF AddTurns
    <3> QED
      BY <3>3
  <2>2. CASE \E m \in S : sent = <<m>>
    <3>1. PICK m \in S : sent = <<m>>
      BY <2>2
    <3>2. DOMAIN sent = 1 .. 1 /\ sent[1] = m
      BY <3>1
    <3>3. PICK c : AddTurns(c, 1, wire[l], sent)
      BY <3>2, AddsChain
    <3>4. all = AddPacket(wire[l], m)
      <4>1. 1 \in 1 .. 1 /\ 1 - 1 = 0
        OBVIOUS
      <4>2. c[1] = AddPacket(c[1 - 1], sent[1])
        BY <3>3, <4>1 DEF AddTurns
      <4> QED
        BY <1>1, <3>2, <3>3, <4>1, <4>2 DEF AddTurns
    <3> QED
      BY <3>4, AddPacketKeeps
  <2> QED
    BY <2>1, <2>2
<1>3. PICK n : n = Least(Len(all), InFlight[l])
  OBVIOUS
<1>4. n \in Nat /\ n <= Len(all) /\ n <= InFlight[l]
  BY <1>2, <1>3 DEF Least
<1>5. Transmit(l, sent) = SubSeq(all, Len(all) - n + 1, Len(all))
  BY <1>1, <1>3 DEF Transmit, AddAll
<1>6. SubSeq(all, Len(all) - n + 1, Len(all)) \in Seq(S)
      /\ Len(SubSeq(all, Len(all) - n + 1, Len(all))) = n
  BY <1>2, <1>4
<1> QED
  BY <1>4, <1>5, <1>6

-----------------------------------------------------------------------------
(* The two players together.                                               *)

\* There are two players, each the other one of the other.
LEMMA TwoPlayers ==
    ASSUME NEW p \in Players
    PROVE  /\ Other(p) \in Players /\ Other(p) # p /\ Other(Other(p)) = p
           /\ \A z \in Players : z = p \/ z = Other(p)
  BY DEF Players, Other

\* What arrives is in flight.
LEMMA ArrivedFrom ==
    ASSUME NEW p \in Players, wire[p] \in Seq(Packet), NEW arrived \in Arrivals(p)
    PROVE  \E n \in Nat : /\ DOMAIN arrived = 1 .. n
                          /\ \A i \in 1 .. n : \E j \in 1 .. Len(wire[p]) : arrived[i] = wire[p][j]
<1>1. PICK w : w = wire[p]
  OBVIOUS
<1>2. w \in Seq(Packet) /\ DOMAIN w = 1 .. Len(w) /\ Len(w) \in Nat
  BY <1>1
<1>3. \/ arrived = <<>>
      \/ \E i \in 1 .. Len(w) : arrived = <<w[i]>>
      \/ \E i \in 1 .. Len(w), j \in 1 .. Len(w) : arrived = <<w[i], w[j]>>
  BY <1>1, <1>2 DEF Arrivals
<1>4. CASE arrived = <<>>
  <2>1. DOMAIN arrived = 1 .. 0 /\ 0 \in Nat /\ \A i \in 1 .. 0 : FALSE
    BY <1>4
  <2> QED
    BY <2>1
<1>5. CASE \E i \in 1 .. Len(w) : arrived = <<w[i]>>
  <2>1. PICK k \in 1 .. Len(w) : arrived = <<w[k]>>
    BY <1>5
  <2>2. DOMAIN arrived = 1 .. 1 /\ 1 \in Nat /\ arrived[1] = w[k]
    BY <2>1
  <2>3. \A i \in 1 .. 1 : arrived[i] = w[k]
    BY <2>2
  <2> QED
    BY <1>1, <2>2, <2>3
<1>6. CASE \E i \in 1 .. Len(w), j \in 1 .. Len(w) : arrived = <<w[i], w[j]>>
  <2>1. PICK k \in 1 .. Len(w), l \in 1 .. Len(w) : arrived = <<w[k], w[l]>>
    BY <1>6
  <2>2. DOMAIN arrived = 1 .. 2 /\ 2 \in Nat /\ arrived[1] = w[k] /\ arrived[2] = w[l]
    BY <2>1
  <2>3. \A i \in 1 .. 2 : arrived[i] = w[k] \/ arrived[i] = w[l]
    BY <2>2
  <2> QED
    BY <1>1, <2>2, <2>3
<1> QED
  BY <1>3, <1>4, <1>5, <1>6

\* What a session and its peer are to each other.
LEMMA PeersWell ==
    ASSUME NEW p \in Players, NEW s, NEW q, NEW g, NEW b, NEW w, NEW v,
           PeerOK(p, s, q, g, b, w), PeerOK(Other(p), q, s, b, g, v)
    PROVE  /\ Well(s, Sure(s), g, q, b) /\ Sure(s) \in Nat /\ Sendable(s)
           /\ g \in Seq(Inputs) /\ b \in Seq(Inputs)
           /\ s.status # "ended" => Near(b, Sure(s))
<1>1. /\ g \in Seq(Inputs) /\ b \in Seq(Inputs) /\ Fine(s, Sure(s), g, q, b)
      /\ Fine(q, Sure(q), b, s, g) /\ Typed(s) /\ Typed(q) /\ AckOK(q, s) /\ RemoteOK(q, g)
  BY DEF PeerOK, Fine
<1>2. /\ s.rc \in Nat /\ q.rc \in Nat /\ q.delay \in 0 .. MaxInputDelay /\ q.peerAck \in Nat
      /\ s.firstBad \in FrameOrNone /\ q.localNext \in Nat
  BY <1>1 DEF Typed
<1>3. OtherOK(q, g) /\ q.me = Other(s.me)
  BY <1>1, <1>2 DEF RemoteOK, OtherOK, PeerOK
<1>4. Sure(s) \in Nat
  BY <1>2 DEF Sure, FrameOrNone
<1>5. Sendable(s)
  BY DEF PeerOK, Sendable
<1>6. ASSUME s.status # "ended" PROVE Near(b, Sure(s))
  <2>1. Sure(s) = s.rc
    BY <1>6 DEF PeerOK, Sure
  <2>2. q.peerAck <= s.rc
    BY <1>1 DEF AckOK
  <2>3. /\ Len(b) = q.localNext /\ q.localNext <= q.peerAck + (History - HistorySpare)
    BY DEF PeerOK
  <2>4. History \in Nat /\ HistorySpare \in Nat
    BY Consts
  <2>5. Len(b) <= s.rc + History
    BY <1>2, <2>2, <2>3, <2>4
  <2> QED
    BY <2>1, <2>5 DEF Near
<1> QED
  BY <1>1, <1>3, <1>4, <1>5, <1>6 DEF Well

\* The session that has read what arrived.
LEMMA TickBegins ==
    ASSUME NetInv, NEW p \in Players, session[p].status # "ended", NEW arrived \in Arrivals(p),
           NEW x, x = Received(p, arrived),
           NEW s, s = session[p], NEW q, q = session[Other(p)],
           NEW g, g = given[p], NEW b, b = given[Other(p)]
    PROVE  /\ Well(s, Sure(s), g, q, b) /\ Sure(s) \in Nat /\ Sendable(s) /\ s.out = <<>>
           /\ g \in Seq(Inputs) /\ b \in Seq(Inputs)
           /\ Well(x, Sure(s), g, q, b) /\ ReceivedOf(s, x, Sure(s), g)
<1>1. PICK w : w = wire[p]
  OBVIOUS
<1>2. PeerOK(p, s, q, g, b, w) /\ PeerOK(Other(p), q, s, b, g, wire[Other(p)])
  BY <1>1, TwoPlayers DEF NetInv
<1>3. /\ Well(s, Sure(s), g, q, b) /\ Sure(s) \in Nat /\ Sendable(s)
      /\ g \in Seq(Inputs) /\ b \in Seq(Inputs) /\ Near(b, Sure(s))
  BY <1>2, PeersWell
<1>4. /\ s.out = <<>> /\ s.changedFrom = NoFrame /\ w \in Seq(Packet)
      /\ \A j \in 1 .. Len(w) : MessageOK(w[j], q, g, b)
  BY <1>2 DEF PeerOK
<1>5. PICK n \in Nat : /\ DOMAIN arrived = 1 .. n
                       /\ \A i \in 1 .. n : \E j \in 1 .. Len(w) : arrived[i] = w[j]
  BY <1>1, <1>4, ArrivedFrom
<1>6. \A i \in 1 .. n : MessageOK(arrived[i], q, g, b)
  BY <1>4, <1>5
<1>7. Hears(s, arrived, x)
  BY DEF Received, Hears
<1>8. Well(x, Sure(s), g, q, b) /\ ReceivedOf(s, x, Sure(s), g)
  BY <1>3, <1>4, <1>5, <1>6, <1>7, ReceivedKeeps
<1> QED
  BY <1>3, <1>4, <1>8

\* One tick of player p, as the session it leaves behind.
TickTo(p, t) ==
    /\ Ticked(session[p], t, Sure(session[p]), given[p], session[Other(p)], given[Other(p)])
    /\ t.frame <= MaxFrame /\ Become(p, t)

\* Advance: every outcome of a tick leaves a session as Ticked says.
LEMMA AdvanceTicks ==
    ASSUME NetInv, NEW p \in Players, Advance(p)
    PROVE  \E t : TickTo(p, t)
<1>1. PICK arrived \in Arrivals(p) : \E x \in {Received(p, arrived)} :
         /\ session[p].status # "ended"
         /\ \/ Handshake(p, x) \/ Ends(p, x) \/ Stall(p, x) \/ NewFrame(p, x)
            \/ TimesOut(p, x) \/ Wait(p, x)
  BY DEF Advance
<1>0. PICK x : /\ x = Received(p, arrived) /\ session[p].status # "ended"
               /\ \/ Handshake(p, x) \/ Ends(p, x) \/ Stall(p, x) \/ NewFrame(p, x)
                  \/ TimesOut(p, x) \/ Wait(p, x)
  BY <1>1
<1>2. PICK s, q, g, b : s = session[p] /\ q = session[Other(p)] /\ g = given[p] /\ b = given[Other(p)]
  OBVIOUS
<1>3. /\ Well(s, Sure(s), g, q, b) /\ Sure(s) \in Nat /\ Sendable(s) /\ s.out = <<>>
      /\ g \in Seq(Inputs) /\ b \in Seq(Inputs)
      /\ Well(x, Sure(s), g, q, b) /\ ReceivedOf(s, x, Sure(s), g)
  BY <1>0, <1>2, TickBegins
<1>4. s.frame \in Nat /\ s.frame <= MaxFrame /\ MaxFrame \in Nat /\ x.frame = s.frame
  <2>1. PeerOK(p, s, q, g, b, wire[p])
    BY <1>2 DEF NetInv
  <2>2. MaxFrame \in Nat
    BY NetplayBounds
  <2> QED
    BY <1>3, <2>1, <2>2, WellNumbers DEF PeerOK, ReceivedOf
<1> DEFINE T(t) == Ticked(s, t, Sure(s), g, q, b)
<1>5. ASSUME NEW t, T(t), t.frame <= MaxFrame, Become(p, t) PROVE TickTo(p, t)
  BY <1>2, <1>5 DEF TickTo
<1>6. \A t : T(t) /\ t.frame = s.frame => t.frame <= MaxFrame
  BY <1>4
<1>7. ASSUME NEW t, Alike(x, t) PROVE t.frame = s.frame
  BY <1>4, <1>7 DEF Alike
<1>8. Typed(x) /\ x.out = <<>> /\ Sendable(x) /\ Well(x, Sure(s), g, q, b)
  BY <1>3, ReceivedSendable DEF Well, Fine, ReceivedOf
<1>9. CASE Handshake(p, x)
  <2>1. PICK t : t = SendHello(x)
    OBVIOUS
  <2>2. T(t)
    BY <1>3, <2>1, HandshakeTick
  <2>3. t.frame = x.frame /\ Become(p, t)
    BY <1>8, <1>9, <2>1 DEF Handshake, SendHello, Send, Typed, Names
  <2> QED
    BY <1>4, <1>5, <2>2, <2>3
<1>10. CASE Ends(p, x)
  <2>1. T(x)
    BY <1>3, EndTick
  <2> QED
    BY <1>4, <1>5, <1>10, <2>1 DEF Ends
<1>11. CASE TimesOut(p, x)
  <2>1. PICK t : t = End(x, "disconnect")
    OBVIOUS
  <2>2. T(t)
    BY <1>3, <2>1, EndTick
  <2>3. t.frame = x.frame /\ Become(p, t)
    BY <1>8, <1>11, <2>1 DEF TimesOut, End, Typed, Names
  <2> QED
    BY <1>4, <1>5, <2>2, <2>3
<1>12. CASE Stall(p, x)
  <2>1. PICK t : t = SendInput([x EXCEPT !.stalling = TRUE])
    OBVIOUS
  <2>2. T(t)
    BY <1>3, <2>1, HeldTick
  <2>3. t.frame = x.frame /\ Become(p, t)
    BY <1>8, <1>12, <2>1 DEF Stall, SendInput, Send, Typed, Names
  <2> QED
    BY <1>4, <1>5, <2>2, <2>3
<1>13. CASE Wait(p, x)
  <2>1. PICK t : t = SendInput([x EXCEPT !.stalling = FALSE])
    OBVIOUS
  <2>2. T(t)
    BY <1>3, <2>1, HeldTick
  <2>3. t.frame = x.frame /\ Become(p, t)
    BY <1>8, <1>13, <2>1 DEF Wait, SendInput, Send, Typed, Names
  <2> QED
    BY <1>4, <1>5, <2>2, <2>3
<1>14. CASE NewFrame(p, x)
  <2>1. PICK input \in Inputs : Become(p, SendInput(Simulate(x, input)))
    BY <1>14, Consts DEF NewFrame
  <2>2. PICK t : t = SendInput(Simulate(x, input))
    OBVIOUS
  <2>3. x.status = "running" /\ ~AtLimit(x) /\ x.frame < MaxFrame
    BY <1>14 DEF NewFrame
  <2>4. T(t) /\ t.frame = s.frame + 1
    BY <1>3, <2>2, <2>3, FrameTick
  <2>5. t.frame <= MaxFrame
    BY <1>4, <2>3, <2>4
  <2> QED
    BY <1>5, <2>1, <2>2, <2>4, <2>5
<1> QED
  BY <1>0, <1>9, <1>10, <1>11, <1>12, <1>13, <1>14

\* What Become does with the session t.
TickMakes(p, t) ==
    /\ session' = [session EXCEPT ![p] = Closed(t)]
    /\ given' = [given EXCEPT ![p] = Said(t, given[p])]
    /\ wire' = [wire EXCEPT ![Other(p)] = Transmit(Other(p), t.out)]

\* What the variables are after a tick that leaves the session t.
LEMMA BecomeMakes ==
    ASSUME ~Relay, NetInv, NEW p \in Players, NEW t, Become(p, t)
    PROVE  TickMakes(p, t)
<1>1. DOMAIN given = Players /\ Link(p) = Other(p)
  BY DEF NetInv, Link
<1>2. /\ session' = [session EXCEPT ![p] = [t EXCEPT !.out = <<>>, !.changedFrom = NoFrame]]
      /\ wire' = [wire EXCEPT ![Link(p)] = Transmit(Link(p), t.out)]
      /\ given' = [given EXCEPT ![p] = @ \o NewInputs(p, t)]
  BY DEF Become
<1>3. given[p] \o NewInputs(p, t) = Said(t, given[p])
  BY DEF NewInputs, Said
<1> QED
  BY <1>1, <1>2, <1>3 DEF TickMakes, Closed

\* A tick of one player keeps the invariant for both.
LEMMA TickNext ==
    ASSUME ~Relay, NetInv, NEW p \in Players, NEW t, TickTo(p, t)
    PROVE  NetInv'
<1>1. PICK s, q, g, b, z, w :
         /\ s = session[p] /\ q = session[Other(p)] /\ g = given[p] /\ b = given[Other(p)]
         /\ z = Other(p) /\ w = wire[Other(p)]
  OBVIOUS
<1>2. /\ z \in Players /\ z # p /\ Other(z) = p /\ \A x \in Players : x = p \/ x = z
  BY <1>1, TwoPlayers
<1>3. /\ PeerOK(p, s, q, g, b, wire[p]) /\ PeerOK(z, q, s, b, g, w)
      /\ DOMAIN session = Players /\ DOMAIN given = Players /\ DOMAIN wire = Players
      /\ session[0].fault = NoFrame
  BY <1>1, <1>2 DEF NetInv
<1>4. Ticked(s, t, Sure(s), g, q, b) /\ t.frame <= MaxFrame /\ Become(p, t)
  BY <1>1 DEF TickTo
<1>5. PICK u, a, v : u = Closed(t) /\ a = Said(t, g) /\ v = Transmit(z, t.out)
  OBVIOUS
<1>6. /\ session' = [session EXCEPT ![p] = u] /\ given' = [given EXCEPT ![p] = a]
      /\ wire' = [wire EXCEPT ![z] = v]
  BY <1>1, <1>4, <1>5, BecomeMakes DEF TickMakes
<1>7. /\ g \in Seq(Inputs) /\ b \in Seq(Inputs) /\ Fine(s, Sure(s), g, q, b)
      /\ Typed(s) /\ LocalOK(s, g) /\ w \in Seq(Packet)
      /\ \A i \in 1 .. Len(w) :
            MessageOK(w[i], s, b, g) /\ (w[i].type = "input" => w[i].start <= q.rc)
  BY <1>3 DEF PeerOK, Fine
<1>8. Well(t, Sure(t), g, q, b) /\ OutOK(t, g, q, b) /\ Later(s, t) /\ Typed(t) /\ LocalOK(t, g)
      /\ Grows(Said(s, g), a)
  BY <1>4, <1>5 DEF Ticked, Well, Fine, Later
<1>9. a \in Seq(Inputs) /\ Grows(g, a) /\ Grows(b, b) /\ s.rc \in Nat /\ t.rc \in Nat
  <2>1. Said(s, g) \in Seq(Inputs) /\ Grows(g, Said(s, g)) /\ a \in Seq(Inputs)
    BY <1>5, <1>7, <1>8, SaidFacts
  <2>2. Grows(g, a) /\ Grows(b, b)
    BY <1>7, <1>8, <2>1, GrowsFacts
  <2> QED
    BY <1>7, <1>8, <2>1, <2>2 DEF Typed
<1>10. w \in Seq(Coming(t, q.rc, b, a))
  <2>1. ASSUME NEW i \in 1 .. Len(w) PROVE MessageOK(w[i], t, b, a)
    BY <1>7, <1>8, <1>9, MessageSeen
  <2> QED
    BY <1>7, <2>1, ComingSeq
<1>11. t.out = <<>> \/ \E m \in Coming(t, q.rc, b, a) : t.out = <<m>>
  BY <1>5, <1>8 DEF OutOK, Coming, MessageOK
<1>12. InFlight[z] \in Nat \ {0}
  BY <1>2, NetplayBounds DEF Links
<1>13. v \in Seq(Coming(t, q.rc, b, a)) /\ Len(v) <= InFlight[z]
  BY <1>1, <1>5, <1>10, <1>11, <1>12, TransmitKeeps
<1>14. PeerOK(p, u, q, a, b, wire[p]) /\ PeerOK(z, q, u, b, a, v)
  BY <1>1, <1>3, <1>4, <1>5, <1>13, TickedPeers
<1>15. /\ session'[p] = u /\ session'[z] = q /\ given'[p] = a /\ given'[z] = b
       /\ wire'[p] = wire[p] /\ wire'[z] = v
       /\ DOMAIN session' = Players /\ DOMAIN given' = Players /\ DOMAIN wire' = Players
  BY <1>1, <1>2, <1>3, <1>6
<1>16. session'[0].fault = NoFrame
  <2>1. u.fault = s.fault
    BY <1>5, <1>8, ClosedFine, <1>7 DEF Later, Alike
  <2>2. 0 = p \/ 0 = z
    BY <1>2 DEF Players
  <2> QED
    BY <1>1, <1>3, <1>15, <2>1, <2>2
<1>17. ASSUME NEW x \in Players
       PROVE  PeerOK(x, session'[x], session'[Other(x)], given'[x], given'[Other(x)], wire'[x])
  BY <1>1, <1>2, <1>14, <1>15
<1> QED
  BY <1>15, <1>16, <1>17 DEF NetInv

\* A session that has given all its inputs.
LEMMA SaidNothing ==
    ASSUME NEW s, NEW g \in Seq(Inputs), s.localNext = Len(g)
    PROVE  Said(s, g) = g
<1>1. PICK n : n = s.localNext - Len(g)
  OBVIOUS
<1>2. n = 0
  BY <1>1
<1>3. Said(s, g) = g \o [i \in 1 .. n |-> s.local[(Len(g) + i - 1) % History]]
  BY <1>1 DEF Said
<1>4. [i \in 1 .. 0 |-> s.local[(Len(g) + i - 1) % History]] = <<>>
  OBVIOUS
<1> QED
  BY <1>2, <1>3, <1>4

FreshSession(s, p, delay, fault) ==
    /\ Typed(s) /\ s.me = p /\ s.delay = delay /\ s.fault = fault
    /\ s.status = "handshake" /\ s.err = "none"
    /\ s.frame = 0 /\ s.rc = 0 /\ s.localNext = 0 /\ s.peerAck = 0 /\ s.firstBad = NoFrame
    /\ s.game = <<>> /\ s.out = <<>> /\ s.changedFrom = NoFrame
    /\ \A i \in 0 .. NRing - 1 : s.saved[i].frame = NoFrame
    /\ \A i \in 0 .. CpSlots - 1 : s.cp[i].frame = NoFrame /\ s.rem[i].frame = NoFrame

\* A new session, field by field.
LEMMA SessionTyped ==
    ASSUME NEW p \in Players, NEW delay \in 0 .. MaxInputDelay, NEW auto \in BOOLEAN,
           NEW fault \in FrameOrNone, NEW s, s = NewSession(p, delay, auto, fault)
    PROVE  FreshSession(s, p, delay, fault)
<1>1. K \in Nat \ {0} /\ 0 \in Inputs
  BY Consts
<1>2. NoSave \in Save /\ NoCp \in CpSlot /\ NoSum \in RemSum
      /\ NoSave.frame = NoFrame /\ NoCp.frame = NoFrame /\ NoSum.frame = NoFrame
  BY DEF NoSave, Save, NoCp, CpSlot, NoSum, RemSum, FrameOrNone, Game
<1>3. [i \in 0 .. History - 1 |-> 0] \in Ring /\ [i \in 0 .. NRing - 1 |-> NoSave] \in [0 .. NRing - 1 -> Save]
      /\ [i \in 0 .. CpSlots - 1 |-> NoCp] \in [0 .. CpSlots - 1 -> CpSlot]
      /\ [i \in 0 .. CpSlots - 1 |-> NoSum] \in [0 .. CpSlots - 1 -> RemSum]
  BY <1>1, <1>2 DEF Ring
<1>4. NoFrame \in FrameOrNone /\ <<>> \in Game /\ <<>> \in Seq(Packet) /\ (~auto) \in BOOLEAN
  BY DEF FrameOrNone, Game
<1>5. PICK r0, saved, cp, rem, known :
         /\ r0 = [i \in 0 .. History - 1 |-> 0] /\ saved = [i \in 0 .. NRing - 1 |-> NoSave]
         /\ cp = [i \in 0 .. CpSlots - 1 |-> NoCp] /\ rem = [i \in 0 .. CpSlots - 1 |-> NoSum]
         /\ known = ~auto
  OBVIOUS
<1>6. s = [me |-> p, status |-> "handshake", err |-> "none", fault |-> fault,
           delay |-> delay, delayKnown |-> known, haveEcho |-> FALSE, haveRTT |-> FALSE,
           frame |-> 0, rc |-> 0, localNext |-> 0, peerAck |-> 0, firstBad |-> NoFrame,
           local |-> r0, remote |-> r0, used |-> r0, game |-> <<>>, saved |-> saved,
           changedFrom |-> NoFrame, ahead |-> FALSE, stalling |-> FALSE,
           nextCheck |-> K, cp |-> cp, rem |-> rem, epoch |-> 0,
           catching |-> FALSE, catchEnd |-> 0, out |-> <<>>]
  BY <1>5 DEF NewSession
<1>7. /\ r0 \in Ring /\ saved \in [0 .. NRing - 1 -> Save] /\ cp \in [0 .. CpSlots - 1 -> CpSlot]
      /\ rem \in [0 .. CpSlots - 1 -> RemSum] /\ known \in BOOLEAN
      /\ \A i \in 0 .. NRing - 1 : saved[i].frame = NoFrame
      /\ \A i \in 0 .. CpSlots - 1 : cp[i].frame = NoFrame /\ rem[i].frame = NoFrame
  BY <1>2, <1>3, <1>4, <1>5
<1>8. Typed(s)
  BY <1>1, <1>4, <1>6, <1>7 DEF Typed, Names
<1> QED
  BY <1>6, <1>7, <1>8 DEF FreshSession

\* A new session against a peer's.
LEMMA NewSessionFine ==
    ASSUME NEW s, NEW p, NEW delay, NEW fault, FreshSession(s, p, delay, fault),
           NEW q, q.rc = 0, q.delay \in 0 .. MaxInputDelay
    PROVE  Fine(s, Sure(s), <<>>, q, <<>>)
<1>0. /\ Typed(s) /\ s.status = "handshake" /\ s.err = "none"
      /\ s.frame = 0 /\ s.rc = 0 /\ s.localNext = 0 /\ s.peerAck = 0 /\ s.firstBad = NoFrame
      /\ s.game = <<>> /\ \A i \in 0 .. NRing - 1 : s.saved[i].frame = NoFrame
      /\ \A i \in 0 .. CpSlots - 1 : s.cp[i].frame = NoFrame /\ s.rem[i].frame = NoFrame
  BY DEF FreshSession
<1>1. Said(s, <<>>) = <<>> /\ Sure(s) = 0
  <2>1. <<>> \in Seq(Inputs) /\ Len(<<>>) = 0
    OBVIOUS
  <2> QED
    BY <1>0, <2>1, SaidNothing DEF Sure
<1>2. Window \in Nat /\ History \in Nat /\ q.delay \in Nat
  <2>1. Window \in Nat /\ History \in Nat /\ MaxInputDelay \in Nat
    BY Consts
  <2> QED
    BY <2>1
<1>3. LocalOK(s, <<>>) /\ RemoteOK(s, <<>>)
  BY <1>0, <1>2 DEF LocalOK, RemoteOK
<1>4. SimOK(s, s.frame, Sure(s), Said(s, <<>>), <<>>) /\ SavedAll(s, s.frame)
  BY <1>0 DEF SimOK, SavedAll
<1>5. SavedOK(s) /\ ChecksOK(s, Said(s, <<>>), <<>>) /\ RemsOK(s, q.fault, Said(s, <<>>), <<>>)
  BY <1>0 DEF SavedOK, ChecksOK, RemsOK
<1>6. DesyncOK(s, q.fault) /\ Phase(s)
  BY <1>0 DEF DesyncOK, Phase
<1>7. Bounds(s, Sure(s)) /\ AckOK(s, q)
  BY <1>0, <1>1, <1>2 DEF Bounds, AckOK
<1> QED
  BY <1>0, <1>3, <1>4, <1>5, <1>6, <1>7 DEF Fine

\* The invariant holds of two new sessions and an empty network.
LEMMA NetInit ==
    ASSUME ~Relay, Init
    PROVE  NetInv
<1>1. PICK delay \in [Players -> 0 .. MaxInputDelay], fault \in Faults \cup {NoFrame} :
         /\ \A p \in Players : delay[p] \in Delays[p]
         /\ session = [p \in Players |-> NewSession(p, delay[p], p \in AutoDelayed,
                                                    IF p = 1 THEN fault ELSE NoFrame)]
  BY DEF Init
<1>2. wire = [l \in Players |-> <<>>] /\ given = [p \in Players |-> <<>>]
  BY DEF Init, Links
<1>3. Faults \subseteq Nat /\ MaxFrame \in Nat /\ InFlight \in [Players -> Nat \ {0}]
  BY NetplayBounds DEF Links
<1>4. Window \in Nat /\ History - HistorySpare \in Nat
  BY Consts
<1> DEFINE Fresh(p, s) ==
       s.delay \in Delays[p] /\ \E d, f : FreshSession(s, p, d, f) /\ (p = 0 => f = NoFrame)
<1>5. ASSUME NEW p \in Players PROVE Fresh(p, session[p])
  <2>1. PICK d, a, f : d = delay[p] /\ a = (p \in AutoDelayed) /\ f = IF p = 1 THEN fault ELSE NoFrame
    OBVIOUS
  <2>2. d \in 0 .. MaxInputDelay /\ a \in BOOLEAN /\ f \in FrameOrNone /\ d \in Delays[p]
    BY <1>1, <1>3, <2>1 DEF FrameOrNone
  <2>3. session[p] = NewSession(p, d, a, f)
    BY <1>1, <2>1
  <2>4. PICK s : s = session[p]
    OBVIOUS
  <2>5. Fresh(p, s)
    <3>1. FreshSession(s, p, d, f)
      BY <2>2, <2>3, <2>4, SessionTyped
    <3>2. s.delay = d /\ (p = 0 => f = NoFrame)
      BY <2>1, <3>1 DEF FreshSession
    <3> QED
      BY <2>2, <3>1, <3>2
  <2> QED
    BY <2>4, <2>5
<1>6. ASSUME NEW p \in Players
      PROVE  PeerOK(p, session[p], session[Other(p)], given[p], given[Other(p)], wire[p])
  <2>1. PICK s, q : s = session[p] /\ q = session[Other(p)]
    OBVIOUS
  <2>2. Fresh(p, s) /\ Fresh(Other(p), q)
    BY <1>5, <2>1, TwoPlayers
  <2>3. q.delay \in 0 .. MaxInputDelay /\ q.rc = 0
    BY <2>2 DEF FreshSession, Typed
  <2>4. /\ s.me = p /\ s.frame = 0 /\ s.rc = 0 /\ s.localNext = 0 /\ s.peerAck = 0
        /\ s.firstBad = NoFrame /\ s.out = <<>> /\ s.changedFrom = NoFrame
        /\ s.delay \in Delays[p]
    BY <2>2 DEF FreshSession
  <2>5. Fine(s, Sure(s), <<>>, q, <<>>)
    BY <2>2, <2>3, NewSessionFine
  <2>6. given[p] = <<>> /\ given[Other(p)] = <<>> /\ wire[p] = <<>>
    BY <1>2, TwoPlayers
  <2>7. /\ <<>> \in Seq(Inputs) /\ <<>> \in Seq(Packet) /\ Len(<<>>) = 0 /\ InFlight[p] \in Nat
    BY <1>3
  <2>8. PeerOK(p, s, q, <<>>, <<>>, <<>>)
    <3>1. s.frame <= MaxFrame /\ s.frame - s.rc <= Window /\ Len(<<>>) <= InFlight[p]
          /\ s.localNext <= s.peerAck + (History - HistorySpare)
      BY <1>3, <1>4, <2>4, <2>7
    <3> QED
      BY <2>4, <2>5, <2>7, <3>1 DEF PeerOK
  <2> QED
    BY <2>1, <2>6, <2>8
<1>7. session[0].fault = NoFrame
  <2>1. Fresh(0, session[0])
    BY <1>5 DEF Players
  <2> QED
    BY <2>1 DEF FreshSession
<1> QED
  BY <1>1, <1>2, <1>6, <1>7 DEF NetInv

\* The sessions and the packets in flight, in a match without a relay: the inductive
\* invariant from which the properties follow.
THEOREM NetInductive ==
    ASSUME ~Relay
    PROVE  Spec => []NetInv
<1>1. Init => NetInv
  BY NetInit
<1>2. NetInv /\ [Next]_vars => NetInv'
  <2> SUFFICES ASSUME NetInv, [Next]_vars PROVE NetInv'
    OBVIOUS
  <2>1. CASE UNCHANGED vars
    BY <2>1 DEF vars, NetInv
  <2>2. CASE Next
    <3>1. PICK p \in Players : Advance(p)
      BY <2>2 DEF Next
    <3>2. PICK t : TickTo(p, t)
      BY <3>1, AdvanceTicks
    <3> QED
      BY <3>2, TickNext
  <2> QED
    BY <2>1, <2>2
<1> QED
  BY <1>1, <1>2, PTL DEF Spec

-----------------------------------------------------------------------------
(* What is promised.                                                       *)

\* The game of Lockstep is the one that the sessions are compared with.
LEMMA Marking ==
    ASSUME NEW x, NEW y, NEW mark
    PROVE  Append(<<x, y>>, mark) = <<x, y, mark>>
<1> DEFINE S == {x, y, mark}
<1>1. <<x, y>> \in Seq(S) /\ Len(<<x, y>>) = 2 /\ mark \in S
  OBVIOUS
<1>2. /\ Append(<<x, y>>, mark) \in Seq(S) /\ Len(Append(<<x, y>>, mark)) = 3
      /\ Append(<<x, y>>, mark)[1] = x /\ Append(<<x, y>>, mark)[2] = y
      /\ Append(<<x, y>>, mark)[3] = mark
  BY <1>1
<1>3. /\ <<x, y, mark>> \in Seq(S) /\ Len(<<x, y, mark>>) = 3
  OBVIOUS
<1>4. \A i \in 1 .. 3 : Append(<<x, y>>, mark)[i] = <<x, y, mark>>[i]
  BY <1>2
<1> QED
  BY <1>2, <1>3, <1>4, SeqEqual

RunOf(x, all, n) ==
    [i \in 1 .. n |-> IF i - 1 = x THEN <<all[0][i], all[1][i], "fault">>
                                   ELSE <<all[0][i], all[1][i]>>]

\* What is played is the run over both inputs, seen from either side.
LEMMA PlayedRun ==
    ASSUME NEW p \in Players, NEW x, NEW n \in Nat, NEW all, NEW g, g = all[p],
           NEW b, b = all[Other(p)]
    PROVE  Played(p, x, g, b, n) = RunOf(x, all, n)
<1>1. ASSUME NEW i \in 1 .. n
      PROVE  TrueStep(p, x, g, b, i - 1) =
               IF i - 1 = x THEN <<all[0][i], all[1][i], "fault">> ELSE <<all[0][i], all[1][i]>>
  <2>1. (i - 1) + 1 = i
    OBVIOUS
  <2>2. PairAs(p, g[i], b[i]) = <<all[0][i], all[1][i]>>
    BY DEF PairAs, Players, Other
  <2>3. Append(<<all[0][i], all[1][i]>>, "fault") = <<all[0][i], all[1][i], "fault">>
    BY Marking
  <2> QED
    BY <2>1, <2>2, <2>3 DEF TrueStep, Outcome
<1> QED
  BY <1>1 DEF Played, RunOf

\* The run of the abstract game is what the session is compared with.
LEMMA RunIsPlayed ==
    ASSUME NEW p \in Players, NEW s, s = session[p], s.me = p, NEW n \in Nat,
           NEW g, g = given[p], NEW b, b = given[Other(p)]
    PROVE  Lock!Run(p, n) = Played(s.me, s.fault, g, b, n)
<1>1. PICK all, x : all = given /\ x = s.fault
  OBVIOUS
<1>2. Played(p, x, g, b, n) = RunOf(x, all, n)
  BY <1>1, PlayedRun
<1>3. Lock!Run(p, n) = RunOf(x, all, n)
  BY <1>1 DEF Lock!Run, RunOf
<1> QED
  BY <1>1, <1>2, <1>3

\* What the invariant says of a player, in the terms of the properties.
PeerFacts(p) ==
    LET s == session[p]
        q == session[Other(p)]
        g == given[p]
        b == given[Other(p)]
    IN  /\ Typed(s) /\ Typed(q) /\ s.me = p /\ g \in Seq(Inputs) /\ b \in Seq(Inputs)
        /\ Fine(s, Sure(s), g, q, b) /\ RemoteOK(q, g) /\ Said(s, g) = g
        /\ PeerOK(p, s, q, g, b, wire[p]) /\ PeerOK(Other(p), q, s, b, g, wire[Other(p)])

\* What the invariant says of one player.
LEMMA InvFacts ==
    ASSUME NetInv, NEW p \in Players
    PROVE  PeerFacts(p)
<1>1. PICK s, q, g, b : s = session[p] /\ q = session[Other(p)] /\ g = given[p] /\ b = given[Other(p)]
  OBVIOUS
<1>2. PeerOK(p, s, q, g, b, wire[p]) /\ PeerOK(Other(p), q, s, b, g, wire[Other(p)])
  BY <1>1, TwoPlayers DEF NetInv
<1>3. /\ Typed(s) /\ Typed(q) /\ s.me = p /\ g \in Seq(Inputs) /\ b \in Seq(Inputs)
      /\ Fine(s, Sure(s), g, q, b) /\ RemoteOK(q, g) /\ s.localNext = Len(g)
  BY <1>2 DEF PeerOK, Fine
<1>4. Said(s, g) = g
  BY <1>3, SaidNothing
<1> QED
  BY <1>1, <1>2, <1>3, <1>4 DEF PeerFacts

\* The invariant gives the types.
LEMMA InvTypeOK ==
    ASSUME NetInv
    PROVE  TypeOK
<1> SUFFICES ASSUME NEW p \in Players, NEW s, s = session[p]
             PROVE  /\ s.status \in {"handshake", "running", "ended"}
                    /\ s.err \in {"none", "disconnect", "desync"}
                    /\ s.delay \in Delays[p]
                    /\ {s.frame, s.rc, s.localNext, s.peerAck} \subseteq Nat
                    /\ s.frame <= MaxFrame /\ Len(s.game) = s.frame
                    /\ s.localNext = Len(given[p])
                    /\ Len(wire[p]) <= InFlight[p]
  BY DEF TypeOK
<1>1. PICK q, g, b : q = session[Other(p)] /\ g = given[p] /\ b = given[Other(p)]
  OBVIOUS
<1>2. /\ Typed(s) /\ Fine(s, Sure(s), g, q, b) /\ PeerOK(p, s, q, g, b, wire[p])
  BY <1>1, InvFacts DEF PeerFacts
<1>3. Len(s.game) = s.frame
  BY <1>2 DEF Fine, SimOK
<1> QED
  BY <1>1, <1>2, <1>3 DEF PeerOK, Typed

\* A desync is the work of a faulty build: a healthy match is never called one.
LEMMA InvNoFalseDesync ==
    ASSUME NetInv
    PROVE  NoFalseDesync
<1> SUFFICES ASSUME NEW p \in Players, session[p].err = "desync" PROVE session[1].fault # NoFrame
  BY DEF NoFalseDesync
<1>1. DesyncOK(session[p], session[Other(p)].fault)
  BY InvFacts DEF PeerFacts, Fine
<1>2. session[p].fault # NoFrame \/ session[Other(p)].fault # NoFrame
  BY <1>1 DEF DesyncOK
<1> QED
  BY <1>2 DEF NetInv, Players, Other

\* The checkpoints of a session hold what the inputs given play.
LEMMA InvCheckpoints ==
    ASSUME NetInv
    PROVE  CheckpointsAreTrue
<1> SUFFICES ASSUME NEW p \in Players, NEW s, s = session[p], NEW i \in DOMAIN s.cp,
                    NEW c, c = s.cp[i], c.frame # NoFrame
             PROVE  /\ \A x \in Players : c.frame <= Len(given[x])
                    /\ c.sum = Lock!Run(p, c.frame)
  BY DEF CheckpointsAreTrue
<1>1. PICK q, g, b : q = session[Other(p)] /\ g = given[p] /\ b = given[Other(p)]
  OBVIOUS
<1>2. /\ Typed(s) /\ s.me = p /\ g \in Seq(Inputs) /\ b \in Seq(Inputs)
      /\ Fine(s, Sure(s), g, q, b) /\ Said(s, g) = g
  BY <1>1, InvFacts DEF PeerFacts
<1>3. i \in 0 .. CpSlots - 1 /\ c \in CpSlot /\ s.rc \in Nat
  BY <1>2 DEF Typed
<1>4. c.frame \in Nat
  BY <1>3 DEF CpSlot, FrameOrNone
<1>5. /\ c.frame <= s.rc /\ c.frame <= Len(g)
      /\ c.sum = Played(s.me, s.fault, g, b, c.frame)
  BY <1>2, <1>3 DEF Fine, ChecksOK
<1>6. s.rc <= Len(b)
  BY <1>2 DEF Fine, RemoteOK
<1>7. c.frame <= Len(b)
  BY <1>2, <1>3, <1>4, <1>5, <1>6
<1>8. Lock!Run(p, c.frame) = Played(s.me, s.fault, g, b, c.frame)
  BY <1>1, <1>2, <1>4, RunIsPlayed
<1>9. \A x \in Players : c.frame <= Len(given[x])
  BY <1>1, <1>5, <1>7, TwoPlayers
<1> QED
  BY <1>5, <1>8, <1>9

\* Every input the peer may still need is in the ring that sendInput reads.
LEMMA InvHistoryKept ==
    ASSUME NetInv
    PROVE  HistoryKept
<1> SUFFICES ASSUME NEW p \in Players, NEW s, s = session[p], NEW q, q = session[Other(p)]
             PROVE  /\ s.peerAck <= q.rc /\ q.rc <= s.localNext
                    /\ s.localNext - s.peerAck <= 2 * Window + s.delay + q.delay
                    /\ \A i \in DOMAIN wire[Other(p)] :
                          LET m == wire[Other(p)][i] IN
                          m.type = "input" =>
                             /\ m.start <= q.rc
                             /\ m.entries = SubSeq(given[p], m.start + 1, m.start + Len(m.entries))
  BY DEF HistoryKept
<1>1. PICK g, b, w : g = given[p] /\ b = given[Other(p)] /\ w = wire[Other(p)]
  OBVIOUS
<1>2. /\ Typed(s) /\ Typed(q) /\ g \in Seq(Inputs) /\ b \in Seq(Inputs)
      /\ Fine(s, Sure(s), g, q, b) /\ RemoteOK(q, g) /\ PeerOK(p, s, q, g, b, wire[p])
      /\ PeerOK(Other(p), q, s, b, g, w)
  BY <1>1, InvFacts DEF PeerFacts
<1>3. /\ s.frame \in Nat /\ s.rc \in Nat /\ s.localNext \in Nat /\ s.peerAck \in Nat /\ q.rc \in Nat
      /\ s.delay \in 0 .. MaxInputDelay /\ q.delay \in 0 .. MaxInputDelay
  BY <1>2 DEF Typed
<1>4. Window \in Nat /\ s.delay \in Nat /\ q.delay \in Nat
  BY <1>3, Consts
<1>5. s.peerAck <= q.rc /\ s.rc <= s.peerAck + q.delay + Window
  BY <1>2 DEF Fine, AckOK
<1>6. q.rc <= s.localNext
  BY <1>2 DEF RemoteOK, PeerOK
<1>7. s.localNext - s.peerAck <= 2 * Window + s.delay + q.delay
  <2>1. s.localNext = 0 \/ s.localNext = s.frame + s.delay
    BY <1>2 DEF Fine, Phase
  <2>2. s.frame - s.rc <= Window
    BY <1>2 DEF PeerOK
  <2> QED
    BY <1>3, <1>4, <1>5, <2>1, <2>2
<1>8. ASSUME NEW i \in DOMAIN w, NEW m, m = w[i], m.type = "input"
      PROVE  m.start <= q.rc /\ m.entries = SubSeq(g, m.start + 1, m.start + Len(m.entries))
  <2>1. w \in Seq(Packet) /\ i \in 1 .. Len(w)
    BY <1>2, <1>8 DEF PeerOK
  <2>2. MessageOK(m, s, b, g) /\ m.start <= q.rc /\ m \in Packet
    BY <1>2, <1>8, <2>1 DEF PeerOK
  <2>3. m.entries \in Seq(Inputs) /\ m.start \in Nat
    BY <1>8, <2>2 DEF Packet, Hello, InputPacket
  <2>4. /\ m.start + Len(m.entries) <= Len(g)
        /\ \A k \in 1 .. Len(m.entries) : m.entries[k] = g[m.start + k]
    BY <1>8, <2>2 DEF MessageOK
  <2>5. PICK e, from, n : e = m.entries /\ from = m.start /\ n = Len(e)
    OBVIOUS
  <2>6. e = SubSeq(g, from + 1, from + n)
    <3>1. e \in Seq(Inputs) /\ from \in Nat /\ n \in Nat /\ from + n <= Len(g) /\ Len(e) = n
          /\ \A k \in 1 .. n : e[k] = g[from + k]
      BY <2>3, <2>4, <2>5
    <3>2. /\ SubSeq(g, from + 1, from + n) \in Seq(Inputs)
          /\ Len(SubSeq(g, from + 1, from + n)) = n
          /\ \A k \in 1 .. n : SubSeq(g, from + 1, from + n)[k] = g[from + k]
      BY <1>2, <3>1
    <3> QED
      BY <3>1, <3>2, SeqEqual
  <2> QED
    BY <2>2, <2>5, <2>6
<1> QED
  BY <1>1, <1>5, <1>6, <1>7, <1>8

\* Whatever the network loses, delays, reorders or repeats: the checkpoints hold no
\* prediction, only a fault makes a match end in a desync, and every input a peer may
\* still need is retained and sent without a gap (session.go: Advance, handleInput,
\* sendInput, tryCheckpoints, judge).
THEOREM SessionSafe ==
    ASSUME ~Relay
    PROVE  Spec => []SessionInv
<1>1. NetInv => SessionInv
  BY InvTypeOK, InvNoFalseDesync, InvCheckpoints, InvHistoryKept DEF SessionInv
<1> QED
  BY <1>1, NetInductive, PTL

-----------------------------------------------------------------------------
(* Prediction and rollback are invisible.                                  *)

\* The frames of a session that are simulated and cannot change any more.
SureFrames(s) == Least(Sure(s), s.frame)

ConfirmedOf(s) ==
    IF Sure(s) >= s.frame THEN s.game ELSE s.saved[Sure(s) % NRing].state

\* A whole sequence as its own beginning.
LEMMA PrefixOfAll ==
    ASSUME NEW S, NEW s \in Seq(S)
    PROVE  SubSeq(s, 1, Len(s)) = s
<1>1. /\ SubSeq(s, 1, Len(s)) \in Seq(S) /\ Len(SubSeq(s, 1, Len(s))) = Len(s)
      /\ \A i \in 1 .. Len(s) : SubSeq(s, 1, Len(s))[i] = s[i]
  OBVIOUS
<1> QED
  BY <1>1, SeqEqual

\* The confirmed part of a session's game is what the inputs given play, and both
\* players have given those inputs.
LEMMA ConfirmedIsPlayed ==
    ASSUME NEW p \in Players, NEW s, NEW q, NEW g, NEW b, NEW w, NEW v,
           PeerOK(p, s, q, g, b, w), PeerOK(Other(p), q, s, b, g, v),
           NEW n, n = SureFrames(s)
    PROVE  /\ n \in Nat /\ n <= Sure(s) /\ n <= s.frame /\ n <= Len(g) /\ n <= Len(b)
           /\ ConfirmedOf(s) = Played(p, s.fault, g, b, n) /\ Sure(s) \in Nat /\ s.frame \in Nat
<1>1. /\ Typed(s) /\ Fine(s, Sure(s), g, q, b) /\ s.me = p /\ g \in Seq(Inputs)
      /\ b \in Seq(Inputs) /\ s.localNext = Len(g) /\ s.frame - s.rc <= Window
  BY DEF PeerOK, Fine
<1>2. /\ s.frame \in Nat /\ s.rc \in Nat /\ s.localNext \in Nat /\ s.firstBad \in FrameOrNone
      /\ s.saved \in [0 .. NRing - 1 -> Save]
  BY <1>1 DEF Typed
<1>3. Sure(s) \in Nat /\ Sure(s) <= s.rc /\ s.frame - Sure(s) <= Window
  BY <1>1, <1>2 DEF Fine, Bounds, Sure, FrameOrNone
<1>4. Said(s, g) = g
  BY <1>1, SaidNothing
<1>5. /\ SimOK(s, s.frame, Sure(s), g, b) /\ SavedOK(s) /\ SavedAll(s, s.frame)
      /\ s.rc <= Len(b) /\ s.frame <= s.localNext
  BY <1>1, <1>4 DEF Fine, RemoteOK, Phase
<1>6. n \in Nat /\ n <= Sure(s) /\ n <= s.frame
  BY <1>2, <1>3 DEF SureFrames, Least
<1>7. n <= Len(g) /\ n <= Len(b)
  BY <1>1, <1>2, <1>3, <1>5, <1>6
<1>8. SubSeq(s.game, 1, n) = Played(s.me, s.fault, g, b, n)
  BY <1>1, <1>2, <1>3, <1>5, <1>6, SureState
<1>9. ConfirmedOf(s) = SubSeq(s.game, 1, n)
  <2>1. Len(s.game) = s.frame /\ s.game \in Seq(GameStep)
    BY <1>1, <1>5 DEF SimOK, Typed, Game
  <2>2. CASE Sure(s) >= s.frame
    <3>1. n = Len(s.game) /\ ConfirmedOf(s) = s.game
      BY <1>2, <1>3, <2>1, <2>2 DEF SureFrames, Least, ConfirmedOf
    <3> QED
      BY <2>1, <3>1, PrefixOfAll
  <2>3. CASE Sure(s) < s.frame
    <3>1. n = Sure(s) /\ ConfirmedOf(s) = s.saved[n % NRing].state
      BY <1>2, <1>3, <2>3 DEF SureFrames, Least, ConfirmedOf
    <3>2. NRing \in Nat \ {0} /\ Window <= NRing /\ Window \in Nat
      BY Consts
    <3>3. n \in 0 .. s.frame - 1 /\ n >= s.frame - NRing
      BY <1>2, <1>3, <2>3, <3>1, <3>2
    <3>4. s.saved[n % NRing].frame = n
      BY <1>5, <3>3 DEF SavedAll
    <3>5. n % NRing \in 0 .. NRing - 1
      BY <1>6, <3>2, ModRange
    <3>6. s.saved[n % NRing].state = SubSeq(s.game, 1, n)
      BY <1>5, <1>6, <2>1, <3>3, <3>4, <3>5 DEF SavedOK, NoFrame
    <3> QED
      BY <3>1, <3>6
  <2> QED
    BY <1>2, <1>3, <2>2, <2>3
<1> QED
  BY <1>1, <1>2, <1>3, <1>6, <1>7, <1>8, <1>9

\* n frames played are n frames.
LEMMA PlayedLength ==
    ASSUME NEW me, NEW x, NEW a, NEW c, NEW n \in Nat
    PROVE  Len(Played(me, x, a, c, n)) = n
  BY DEF Played

\* What the step of a player makes of both.
TickSteps(p, t, u, a) ==
    /\ session'[p] = u /\ session'[Other(p)] = session[Other(p)]
    /\ given'[p] = a /\ given'[Other(p)] = given[Other(p)]
    /\ PeerOK(p, u, session[Other(p)], a, given[Other(p)], wire'[p])
    /\ PeerOK(Other(p), session[Other(p)], u, given[Other(p)], a, wire'[Other(p)])
    /\ Ticked(session[p], t, Sure(session[p]), given[p], session[Other(p)], given[Other(p)])
    /\ Alike(t, u) /\ Grows(given[p], a)

\* What one tick does to the confirmed parts of both games.
LEMMA TickStepsBoth ==
    ASSUME ~Relay, NetInv, NEW p \in Players, NEW t, TickTo(p, t),
           NEW u, u = Closed(t), NEW a, a = Said(t, given[p])
    PROVE  TickSteps(p, t, u, a)
<1>1. PICK s, q, g, b, z : /\ s = session[p] /\ q = session[Other(p)] /\ g = given[p]
                           /\ b = given[Other(p)] /\ z = Other(p)
  OBVIOUS
<1>2. z \in Players /\ z # p /\ Other(z) = p
  BY <1>1, TwoPlayers
<1>3. NetInv'
  BY TickNext
<1>4. /\ session' = [session EXCEPT ![p] = u] /\ given' = [given EXCEPT ![p] = a]
      /\ DOMAIN session = Players /\ DOMAIN given = Players
  BY BecomeMakes DEF TickTo, TickMakes, NetInv
<1>5. session'[p] = u /\ session'[z] = q /\ given'[p] = a /\ given'[z] = b
  BY <1>1, <1>2, <1>4
<1>6. PeerOK(p, u, q, a, b, wire'[p]) /\ PeerOK(z, q, u, b, a, wire'[z])
  BY <1>1, <1>2, <1>3, <1>5 DEF NetInv
<1>7. Ticked(s, t, Sure(s), g, q, b) /\ g \in Seq(Inputs) /\ b \in Seq(Inputs)
      /\ Fine(s, Sure(s), g, q, b)
  BY <1>1, <1>2 DEF TickTo, NetInv, PeerOK
<1>8. Well(t, Sure(t), g, q, b) /\ Grows(Said(s, g), a)
  BY <1>1, <1>7 DEF Ticked
<1>9. Alike(t, u) /\ a \in Seq(Inputs)
  BY <1>1, <1>7, <1>8, ClosedFine
<1>10. Grows(g, a)
  <2>1. Said(s, g) \in Seq(Inputs) /\ Grows(g, Said(s, g))
    BY <1>7, SaidFacts DEF Fine
  <2> QED
    BY <1>7, <1>8, <1>9, <2>1, GrowsFacts
<1> QED
  BY <1>1, <1>5, <1>6, <1>7, <1>9, <1>10 DEF TickSteps

\* A sequence is a prefix of one that continues it.
LEMMA PrefixIs ==
    ASSUME NEW g \in Seq(Inputs), NEW a \in Seq(Inputs), Grows(g, a)
    PROVE  Lock!IsPrefix(g, a)
<1>1. Len(g) \in Nat /\ Len(a) \in Nat /\ Len(g) <= Len(a) /\ \A i \in 1 .. Len(g) : a[i] = g[i]
  BY DEF Grows
<1>2. /\ SubSeq(a, 1, Len(g)) \in Seq(Inputs) /\ Len(SubSeq(a, 1, Len(g))) = Len(g)
      /\ \A i \in 1 .. Len(g) : SubSeq(a, 1, Len(g))[i] = g[i]
  BY <1>1
<1>3. SubSeq(a, 1, Len(g)) = g
  BY <1>2, SeqEqual
<1>4. SubSeq(g, 1, Len(g)) = g
  BY PrefixOfAll
<1> QED
  BY <1>1, <1>3, <1>4 DEF Lock!IsPrefix

\* A tick of a session is a step of the lockstep game: inputs are added, and the confirmed
\* part of the game grows to a longer run.
LEMMA LockTick ==
    ASSUME ~Relay, NetInv, NEW p \in Players, NEW t, TickTo(p, t)
    PROVE  Lock!Tick(p)
<1>1. PICK s, q, g, b, z, u, a :
         /\ s = session[p] /\ q = session[Other(p)] /\ g = given[p] /\ b = given[Other(p)]
         /\ z = Other(p) /\ u = Closed(t) /\ a = Said(t, given[p])
  OBVIOUS
<1>2. z \in Players /\ z # p /\ Other(z) = p /\ \A x \in Players : x = p \/ x = z
  BY <1>1, TwoPlayers
<1>3. /\ session'[p] = u /\ session'[z] = q /\ given'[p] = a /\ given'[z] = b
      /\ PeerOK(p, u, q, a, b, wire'[p]) /\ PeerOK(z, q, u, b, a, wire'[z])
      /\ Ticked(s, t, Sure(s), g, q, b) /\ Alike(t, u) /\ Grows(g, a)
  <2>1. TickSteps(p, t, u, a)
    BY <1>1, TickStepsBoth
  <2> QED
    BY <1>1, <2>1 DEF TickSteps
<1>4. PeerOK(p, s, q, g, b, wire[p]) /\ PeerOK(z, q, s, b, g, wire[z])
  BY <1>1, <1>2 DEF NetInv
<1>5. g \in Seq(Inputs) /\ a \in Seq(Inputs) /\ u.me = p /\ s.me = p /\ u.fault = s.fault
  <2>1. u.fault = s.fault
    BY <1>3 DEF Ticked, Alike
  <2> QED
    BY <1>3, <1>4, <2>1 DEF PeerOK
<1>6. PICK n, m : n = SureFrames(s) /\ m = SureFrames(u)
  OBVIOUS
<1>7. /\ n \in Nat /\ ConfirmedOf(s) = Played(p, s.fault, g, b, n)
      /\ Sure(s) \in Nat /\ s.frame \in Nat
  BY <1>1, <1>4, <1>6, ConfirmedIsPlayed
<1>8. /\ m \in Nat /\ m <= Len(a) /\ m <= Len(b)
      /\ ConfirmedOf(u) = Played(p, u.fault, a, b, m) /\ Sure(u) \in Nat /\ u.frame \in Nat
  BY <1>1, <1>3, <1>6, ConfirmedIsPlayed
<1>9. n <= m
  <2>1. Sure(s) <= Sure(u) /\ s.frame <= u.frame
    BY <1>3 DEF Ticked, Alike, Sure
  <2> QED
    BY <1>6, <1>7, <1>8, <2>1 DEF SureFrames, Least
<1>10. Confirmed(p) = ConfirmedOf(s) /\ Confirmed(p)' = ConfirmedOf(u) /\ Confirmed(z)' = Confirmed(z)
  BY <1>1, <1>3 DEF Confirmed, ConfirmedOf, Sure
<1>11. Len(Confirmed(p)) = n
  BY <1>7, <1>10, PlayedLength
<1>12. Confirmed(p)' = RunOf(u.fault, given', m)
  <2>1. PICK all, x : all = given' /\ x = u.fault
    OBVIOUS
  <2>2. Played(p, x, a, b, m) = RunOf(x, all, m)
    BY <1>1, <1>3, <1>8, <2>1, PlayedRun
  <2> QED
    BY <1>8, <1>10, <2>1, <2>2
<1>13. [x \in Players |-> session'[x].fault] = [x \in Players |-> session[x].fault]
  BY <1>1, <1>2, <1>3, <1>5
<1>14. \A x \in Players \ {p} : given'[x] = given[x] /\ Confirmed(x)' = Confirmed(x)
  BY <1>1, <1>2, <1>3, <1>10
<1>15. Lock!IsPrefix(given[p], given'[p])
  BY <1>1, <1>3, <1>5, PrefixIs
<1>16. m \in n .. Len(given'[p]) /\ \A x \in Players : m <= Len(given'[x])
  <2>1. Len(a) \in Nat
    BY <1>5
  <2> QED
    BY <1>2, <1>3, <1>7, <1>8, <1>9, <2>1
<1>17. Lock!Run(p, m)' = RunOf(u.fault, given', m)
  BY <1>3 DEF Lock!Run, RunOf
<1>18. ASSUME NEW x \in Players
       PROVE  /\ [y \in Players |-> Confirmed(y)][x] = Confirmed(x)
              /\ [y \in Players |-> Confirmed(y)]'[x] = Confirmed(x)'
  OBVIOUS
<1>19. [x \in Players |-> session[x].fault]' = [x \in Players |-> session[x].fault]
  BY <1>13
<1>20. \A x \in Players \ {p} :
         /\ given'[x] = given[x]
         /\ [y \in Players |-> Confirmed(y)]'[x] = [y \in Players |-> Confirmed(y)][x]
  BY <1>14, <1>18
<1>21. /\ m \in Len([y \in Players |-> Confirmed(y)][p]) .. Len(given'[p])
       /\ [y \in Players |-> Confirmed(y)]'[p] = Lock!Run(p, m)'
  BY <1>11, <1>12, <1>16, <1>17, <1>18
<1> QED
  BY <1>15, <1>16, <1>19, <1>20, <1>21 DEF Lock!Tick

\* Two new sessions are a new lockstep game.
LEMMA LockInit ==
    ASSUME ~Relay, Init
    PROVE  Lock!Init
<1>1. NetInv
  BY NetInit
<1>2. given = [p \in Players |-> <<>>]
  BY DEF Init
<1>3. ASSUME NEW p \in Players PROVE session[p].fault \in Nat \cup {-1} /\ Confirmed(p) = <<>>
  <2>1. PICK s, q, g, b, n : /\ s = session[p] /\ q = session[Other(p)] /\ g = given[p]
                             /\ b = given[Other(p)] /\ n = SureFrames(s)
    OBVIOUS
  <2>2. PeerOK(p, s, q, g, b, wire[p]) /\ PeerOK(Other(p), q, s, b, g, wire[Other(p)])
    BY <1>1, <2>1, TwoPlayers DEF NetInv
  <2>3. /\ n \in Nat /\ n <= Len(g) /\ ConfirmedOf(s) = Played(p, s.fault, g, b, n)
    BY <2>1, <2>2, ConfirmedIsPlayed
  <2>4. g = <<>>
    BY <1>2, <2>1
  <2>5. n = 0
    BY <2>3, <2>4
  <2>6. ConfirmedOf(s) = <<>>
    BY <2>3, <2>5 DEF Played
  <2>7. s.fault \in FrameOrNone
    BY <2>2 DEF PeerOK, Fine, Typed
  <2> QED
    BY <2>1, <2>6, <2>7 DEF Confirmed, ConfirmedOf, Sure, FrameOrNone, NoFrame
<1> QED
  BY <1>2, <1>3 DEF Lock!Init

\* Prediction and rollback are invisible: whatever the network does, each peer's
\* confirmed state is the game run over the inputs both players gave, and it only moves
\* forward (doc.go: "keeps both peers' confirmed state identical").
THEOREM SessionsRefineLockstep ==
    ASSUME ~Relay
    PROVE  Spec => RefinesLockstep
<1>1. Init => Lock!Init
  BY LockInit
<1>2. NetInv /\ [Next]_vars => [Lock!Next]_(Lock!vars)
  <2> SUFFICES ASSUME NetInv, [Next]_vars PROVE Lock!Next \/ UNCHANGED Lock!vars
    OBVIOUS
  <2>1. CASE UNCHANGED vars
    <3>1. session' = session /\ given' = given
      BY <2>1 DEF vars
    <3>2. [p \in Players |-> session'[p].fault] = [p \in Players |-> session[p].fault]
      BY <3>1
    <3>3. \A p \in Players : Confirmed(p)' = Confirmed(p)
      BY <3>1 DEF Confirmed
    <3>4. [p \in Players |-> Confirmed(p)]' = [p \in Players |-> Confirmed(p)]
      BY <3>3
    <3> QED
      BY <3>1, <3>2, <3>4 DEF Lock!vars
  <2>2. CASE Next
    <3>1. PICK p \in Players : Advance(p)
      BY <2>2 DEF Next
    <3>2. PICK t : TickTo(p, t)
      BY <3>1, AdvanceTicks
    <3>3. Lock!Tick(p)
      BY <3>2, LockTick
    <3> QED
      BY <3>3 DEF Lock!Next
  <2> QED
    BY <2>1, <2>2
<1> QED
  BY <1>1, <1>2, NetInductive, PTL DEF Spec, RefinesLockstep, Lock!Spec

-----------------------------------------------------------------------------
(* The effects on screen.                                                  *)

\* The events of a session's frames, as they are now simulated.
EventsOf(s) ==
    {e \in [frame : 0 .. s.frame - 1, data : Inputs \X Inputs] :
       /\ e.frame >= s.frame - Retain /\ e.data # <<0, 0>>
       /\ e.data = SubSeq(s.game[e.frame + 1], 1, 2)}

\* What the application tracks after a tick that leaves t, if it tracked `live`.
Screen(live, t) ==
    IF t.changedFrom = NoFrame THEN live
    ELSE Reconcile(live, t.changedFrom, t.frame, EventsFrom(t, t.changedFrom))

\* The inputs of a simulated frame.
LEMMA PairOfFrame ==
    ASSUME NEW s, Typed(s), Len(s.game) = s.frame, NEW f \in Nat, f < s.frame
    PROVE  SubSeq(s.game[f + 1], 1, 2) \in Inputs \X Inputs
<1>1. s.game[f + 1] \in GameStep
  <2>1. s.game \in Seq(GameStep) /\ f + 1 \in 1 .. Len(s.game)
    BY DEF Typed, Game
  <2> QED
    BY <2>1
<1> DEFINE mark == "fault"
           S == Inputs \cup {mark}
           step == s.game[f + 1]
<1>2. PICK a \in Inputs, c \in Inputs : step = <<a, c>> \/ step = <<a, c, mark>>
  BY <1>1 DEF GameStep
<1>3. step \in Seq(S) /\ Len(step) >= 2 /\ step[1] = a /\ step[2] = c
  <2> DEFINE two == <<a, c>>
             three == <<a, c, mark>>
  <2>1. /\ two \in Seq(S) /\ Len(two) = 2 /\ two[1] = a /\ two[2] = c
        /\ three \in Seq(S) /\ Len(three) = 3 /\ three[1] = a /\ three[2] = c
    OBVIOUS
  <2>2. step = two \/ step = three
    BY <1>2
  <2> HIDE DEF S, step, two, three
  <2> QED
    BY <2>1, <2>2
<1>4. a \in S /\ c \in S
  OBVIOUS
<1> HIDE DEF S, step
<1>5. SubSeq(step, 1, 2) = <<a, c>>
  BY <1>3, <1>4, FirstTwo
<1> QED
  BY <1>5 DEF step

\* EventsFrom: the frames a rollback can reach are all retained, and their events are
\* those of the game as it is now.
LEMMA EventsAre ==
    ASSUME NEW t, Typed(t), Len(t.game) = t.frame, SavedOK(t), SavedAll(t, t.frame),
           NEW from \in Nat, t.frame - from < NRing
    PROVE  EventsFrom(t, from) =
              {e \in [frame : from .. t.frame - 1, data : Inputs \X Inputs] :
                 e.data # <<0, 0>> /\ e.data = SubSeq(t.game[e.frame + 1], 1, 2)}
<1>1. t.frame \in Nat /\ NRing \in Nat \ {0}
  BY Consts DEF Typed
<1>2. Most(Most(from, t.frame - NRing + 1), 0) = from
  <2>1. t.frame - NRing + 1 <= from /\ 0 <= from
    BY <1>1
  <2>2. Most(from, t.frame - NRing + 1) = from
    BY <1>1, <2>1 DEF Most
  <2> QED
    BY <2>1, <2>2 DEF Most
<1>3. ASSUME NEW f \in from .. t.frame - 1
      PROVE  /\ t.saved[f % NRing].frame = f
             /\ t.saved[f % NRing].pair = SubSeq(t.game[f + 1], 1, 2)
             /\ t.saved[f % NRing].pair \in Inputs \X Inputs
  <2>1. f \in Nat /\ f < t.frame /\ f >= t.frame - NRing /\ f # NoFrame /\ f \in 0 .. t.frame - 1
    <3>1. f \in Int /\ f >= from /\ f <= t.frame - 1 /\ t.frame - from < NRing
      BY <1>1
    <3> QED
      BY <1>1, <3>1 DEF NoFrame
  <2>2. t.saved[f % NRing].frame = f
    BY <2>1 DEF SavedAll
  <2>3. f % NRing \in 0 .. NRing - 1
    BY <1>1, <2>1, ModRange
  <2>4. t.saved[f % NRing].pair = SubSeq(t.game[f + 1], 1, 2)
    BY <2>1, <2>2, <2>3 DEF SavedOK
  <2> QED
    BY <2>1, <2>2, <2>4, PairOfFrame
<1>4. EventsFrom(t, from) =
         {[frame |-> f, data |-> t.saved[f % NRing].pair] :
            f \in {g \in from .. t.frame - 1 :
                     t.saved[g % NRing].frame = g /\ t.saved[g % NRing].pair # <<0, 0>>}}
  BY <1>2 DEF EventsFrom
<1> DEFINE R == {e \in [frame : from .. t.frame - 1, data : Inputs \X Inputs] :
                   e.data # <<0, 0>> /\ e.data = SubSeq(t.game[e.frame + 1], 1, 2)}
<1>5. ASSUME NEW e \in EventsFrom(t, from) PROVE e \in R
  BY <1>3, <1>4
<1>6. ASSUME NEW e \in R PROVE e \in EventsFrom(t, from)
  <2>1. e.frame \in from .. t.frame - 1 /\ e = [frame |-> e.frame, data |-> e.data]
    OBVIOUS
  <2>2. /\ t.saved[e.frame % NRing].frame = e.frame
        /\ t.saved[e.frame % NRing].pair = e.data /\ e.data # <<0, 0>>
    BY <1>3, <2>1
  <2> QED
    BY <1>4, <2>1, <2>2
<1> QED
  BY <1>5, <1>6

\* Reconcile, after a tick: events before the first changed frame stay, as their frames
\* did, and the others are replaced.
LEMMA ScreenIsRight ==
    ASSUME NEW s, Typed(s), Len(s.game) = s.frame,
           NEW t, Typed(t), Len(t.game) = t.frame, SavedOK(t), SavedAll(t, t.frame),
           NEW r0 \in Nat, s.frame - r0 <= Window, Window + 2 <= NRing,
           s.frame <= t.frame, t.frame <= s.frame + 1, Shows(s, t, r0)
    PROVE  Screen(EventsOf(s), t) = EventsOf(t)
<1>1. s.frame \in Nat /\ t.frame \in Nat /\ Retain \in Nat /\ Window \in Nat /\ NRing \in Nat
  BY Consts, NetplayBounds DEF Typed
<1>2. CASE t.changedFrom = NoFrame
  <2>1. t.game = s.game /\ t.frame = s.frame
    BY <1>2 DEF Shows, NoFrame
  <2> QED
    BY <1>2, <2>1 DEF Screen, EventsOf
<1>3. CASE t.changedFrom # NoFrame
  <2>1. PICK c : c = t.changedFrom
    OBVIOUS
  <2>2. /\ c \in Nat /\ c <= s.frame /\ c < t.frame
        /\ r0 <= c \/ c = s.frame
        /\ \A i \in 1 .. c : t.game[i] = s.game[i]
    BY <1>3, <2>1 DEF Shows, SameStart
  <2>3. t.frame - c < NRing /\ c \in Nat /\ c <= s.frame /\ c < t.frame
    <3>1. s.frame - c <= Window
      BY <1>1, <2>2
    <3> QED
      BY <1>1, <2>2, <3>1
  <2>4. PICK events :
          /\ events = EventsFrom(t, c)
          /\ events = {e \in [frame : c .. t.frame - 1, data : Inputs \X Inputs] :
                         e.data # <<0, 0>> /\ e.data = SubSeq(t.game[e.frame + 1], 1, 2)}
    BY <2>3, EventsAre
  <2>5. Screen(EventsOf(s), t) =
          {e \in {e \in EventsOf(s) : ~(e.frame \in c .. t.frame - 1)}
                   \cup {e \in events : e.frame \in c .. t.frame - 1} :
             e.frame >= t.frame - Retain}
    BY <1>3, <2>1, <2>4 DEF Screen, Reconcile
  <2>6. ASSUME NEW e \in Screen(EventsOf(s), t) PROVE e \in EventsOf(t)
    <3>1. e.frame >= t.frame - Retain
      BY <2>5
    <3>2. CASE e \in EventsOf(s) /\ ~(e.frame \in c .. t.frame - 1)
      <4>1. e \in [frame : 0 .. s.frame - 1, data : Inputs \X Inputs] /\ e.frame \in 0 .. s.frame - 1
            /\ e.data # <<0, 0>> /\ e.data = SubSeq(s.game[e.frame + 1], 1, 2)
        BY <3>2 DEF EventsOf
      <4>2. e.frame + 1 \in 1 .. c /\ e.frame \in 0 .. t.frame - 1
        <5>1. PICK f : f = e.frame
          OBVIOUS
        <5>2. f \in 0 .. s.frame - 1 /\ ~(f \in c .. t.frame - 1)
          BY <3>2, <4>1, <5>1
        <5>3. f \in Nat /\ f < c /\ f < t.frame
          <6>1. f \in Nat /\ f <= s.frame - 1
            BY <1>1, <5>2
          <6>2. f <= t.frame - 1
            BY <1>1, <6>1
          <6>3. ~(c <= f)
            BY <1>1, <2>3, <5>2, <6>1, <6>2
          <6> QED
            BY <1>1, <2>3, <6>1, <6>2, <6>3
        <5>4. f + 1 \in 1 .. c /\ f \in 0 .. t.frame - 1
          BY <1>1, <2>3, <5>3
        <5> QED
          BY <5>1, <5>4
      <4>3. t.game[e.frame + 1] = s.game[e.frame + 1]
        BY <2>2, <4>2
      <4>4. e \in [frame : 0 .. t.frame - 1, data : Inputs \X Inputs]
        BY <4>1, <4>2
      <4> QED
        BY <3>1, <4>1, <4>3, <4>4 DEF EventsOf
    <3>3. CASE e \in events
      <4>1. e \in [frame : c .. t.frame - 1, data : Inputs \X Inputs] /\ e.frame \in c .. t.frame - 1
            /\ e.data # <<0, 0>> /\ e.data = SubSeq(t.game[e.frame + 1], 1, 2)
        BY <2>4, <3>3
      <4>2. e.frame \in 0 .. t.frame - 1
        BY <2>3, <4>1
      <4>3. e \in [frame : 0 .. t.frame - 1, data : Inputs \X Inputs]
        BY <4>1, <4>2
      <4> QED
        BY <3>1, <4>1, <4>3 DEF EventsOf
    <3> QED
      BY <2>5, <3>2, <3>3
  <2>7. ASSUME NEW e \in EventsOf(t) PROVE e \in Screen(EventsOf(s), t)
    <3>1. /\ e \in [frame : 0 .. t.frame - 1, data : Inputs \X Inputs] /\ e.frame \in 0 .. t.frame - 1
          /\ e.frame >= t.frame - Retain
          /\ e.data # <<0, 0>> /\ e.data = SubSeq(t.game[e.frame + 1], 1, 2)
      BY DEF EventsOf
    <3>2. CASE e.frame >= c
      <4>1. e.frame \in c .. t.frame - 1
        BY <2>3, <3>1, <3>2
      <4>2. e \in [frame : c .. t.frame - 1, data : Inputs \X Inputs]
        BY <3>1, <4>1
      <4> QED
        BY <2>4, <2>5, <3>1, <4>1, <4>2
    <3>3. CASE ~(e.frame >= c)
      <4>1. /\ ~(e.frame \in c .. t.frame - 1) /\ e.frame + 1 \in 1 .. c
            /\ e.frame \in 0 .. s.frame - 1 /\ e.frame >= s.frame - Retain
        <5>1. PICK f : f = e.frame
          OBVIOUS
        <5>2. f \in 0 .. t.frame - 1 /\ f >= t.frame - Retain /\ ~(f >= c)
          BY <3>1, <3>3, <5>1
        <5>3. f \in Nat /\ f < c
          BY <1>1, <2>3, <5>2
        <5>4. f + 1 \in 1 .. c /\ f \in 0 .. s.frame - 1 /\ ~(f \in c .. t.frame - 1)
          BY <1>1, <2>3, <5>3
        <5>5. f >= s.frame - Retain
          BY <1>1, <5>2, <5>3
        <5> QED
          BY <5>1, <5>4, <5>5
      <4>2. t.game[e.frame + 1] = s.game[e.frame + 1]
        BY <2>2, <4>1
      <4>3. e \in [frame : 0 .. s.frame - 1, data : Inputs \X Inputs]
        BY <3>1, <4>1
      <4>4. e \in EventsOf(s)
        BY <3>1, <4>1, <4>2, <4>3 DEF EventsOf
      <4> QED
        BY <2>5, <3>1, <4>1, <4>4
    <3> QED
      BY <3>2, <3>3
  <2> QED
    BY <2>6, <2>7
<1> QED
  BY <1>2, <1>3

\* The ledger of each player tracks the events of its frames.
ScreenInv == shown = [p \in Players |-> EventsOf(session[p])]

\* A tick with its Reconcile keeps the ledger of the player up to date.
LEMMA ScreenStep ==
    ASSUME ~Relay, MaxInputDelay + RingSpare >= 2, NetInv, ScreenInv,
           NEW p \in Players, NEW t, TickTo(p, t)
    PROVE  ScreenInv'
<1>1. PICK s, q, g, b, u : s = session[p] /\ q = session[Other(p)] /\ g = given[p]
                           /\ b = given[Other(p)] /\ u = Closed(t)
  OBVIOUS
<1>2. /\ Ticked(s, t, Sure(s), g, q, b) /\ PeerOK(p, s, q, g, b, wire[p])
      /\ Fine(s, Sure(s), g, q, b) /\ Well(t, Sure(t), g, q, b) /\ Fine(t, Sure(t), g, q, b)
      /\ g \in Seq(Inputs)
  BY <1>1 DEF TickTo, NetInv, PeerOK, Ticked, Well
<1>3. /\ Typed(s) /\ Len(s.game) = s.frame /\ Typed(t) /\ Len(t.game) = t.frame
      /\ SavedOK(t) /\ SavedAll(t, t.frame) /\ s.frame - Sure(s) <= Window
      /\ s.frame <= t.frame /\ t.frame <= s.frame + 1 /\ Shows(s, t, Sure(s))
  BY <1>2 DEF Fine, SimOK, Bounds, Ticked
<1>4. Sure(s) \in Nat
  BY <1>2, <1>3 DEF Fine, Bounds, Sure, Typed, FrameOrNone, NoFrame
<1>5. Window + 2 <= NRing
  BY Consts
<1>6. Screen(EventsOf(s), t) = EventsOf(t)
  BY <1>3, <1>4, <1>5, ScreenIsRight
<1>7. u.game = t.game /\ u.frame = t.frame
  BY <1>1, <1>3 DEF Closed, Typed, Names
<1>8. EventsOf(u) = EventsOf(t)
  BY <1>7 DEF EventsOf
<1>9. shown' = [shown EXCEPT ![p] = Screen(shown[p], t)]
  <2>1. shown' = IF t.changedFrom = NoFrame THEN shown
                 ELSE [shown EXCEPT ![p] = Reconcile(@, t.changedFrom, t.frame,
                                                     EventsFrom(t, t.changedFrom))]
    BY DEF TickTo, Become
  <2>2. shown = [shown EXCEPT ![p] = shown[p]]
    <3>1. shown = [z \in Players |-> EventsOf(session[z])]
      BY DEF ScreenInv
    <3> QED
      BY <3>1
  <2> QED
    BY <2>1, <2>2 DEF Screen
<1>10. session' = [session EXCEPT ![p] = u] /\ DOMAIN session = Players
  BY <1>1, BecomeMakes DEF TickTo, TickMakes, NetInv
<1>11. ASSUME NEW z \in Players PROVE shown'[z] = EventsOf(session'[z])
  <2>1. CASE z = p
    BY <1>1, <1>6, <1>8, <1>9, <1>10, <2>1 DEF ScreenInv
  <2>2. CASE z # p
    BY <1>9, <1>10, <2>2 DEF ScreenInv
  <2> QED
    BY <2>1, <2>2
<1>12. \A z \in Players : EventsOf(session[z])' = EventsOf(session'[z])
  BY DEF EventsOf
<1>13. shown' = [z \in Players |-> shown'[z]]
  BY <1>9 DEF ScreenInv
<1>14. shown' = [z \in Players |-> EventsOf(session'[z])]
  BY <1>11, <1>13
<1> QED
  BY <1>12, <1>14 DEF ScreenInv

\* Before the first frame there are no events.
LEMMA ScreenInit ==
    ASSUME Init
    PROVE  ScreenInv
<1>1. shown = [p \in Players |-> {}]
  BY DEF Init
<1>2. ASSUME NEW p \in Players PROVE session[p].frame = 0
  BY DEF Init, NewSession
<1>3. ASSUME NEW p \in Players PROVE EventsOf(session[p]) = {}
  <2>1. 0 .. session[p].frame - 1 = {}
    BY <1>2
  <2>2. [frame : 0 .. session[p].frame - 1, data : Inputs \X Inputs] = {}
    BY <2>1
  <2> QED
    BY <2>2 DEF EventsOf
<1> QED
  BY <1>1, <1>3 DEF ScreenInv

\* After every tick the effects on screen are those of the frames as they are now
\* simulated, whichever frames the tick rolled back (ledger.go: Reconcile), provided
\* that the frames a tick can change, a window and the new one, are all retained.
THEOREM EffectsAreCurrent ==
    ASSUME ~Relay, MaxInputDelay + RingSpare >= 2
    PROVE  Spec => []EffectsMatch
<1>1. Init => ScreenInv
  BY ScreenInit
<1>2. NetInv /\ ScreenInv /\ [Next]_vars => ScreenInv'
  <2> SUFFICES ASSUME NetInv, ScreenInv, [Next]_vars PROVE ScreenInv'
    OBVIOUS
  <2>1. CASE UNCHANGED vars
    BY <2>1 DEF vars, ScreenInv, EventsOf
  <2>2. CASE Next
    <3>1. PICK p \in Players : Advance(p)
      BY <2>2 DEF Next
    <3>2. PICK t : TickTo(p, t)
      BY <3>1, AdvanceTicks
    <3> QED
      BY <3>2, ScreenStep
  <2> QED
    BY <2>1, <2>2
<1>3. ScreenInv => EffectsMatch
  BY DEF ScreenInv, EffectsMatch, EventsOf
<1> QED
  BY <1>1, <1>2, <1>3, NetInductive, PTL DEF Spec
=============================================================================
