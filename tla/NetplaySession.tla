------------------------- MODULE NetplaySession -------------------------
(***************************************************************************)
(* One peer of a two-player rollback match (netplay/session.go), as        *)
(* operators on the record that stands for its Session.                    *)
(*                                                                         *)
(* Abstractions.  A game state is the sequence of input pairs it was       *)
(* stepped with, so two states are equal only if their histories are: this *)
(* is also their checksum (a collision of the 64-bit hash is ignored).     *)
(* Clocks and round trips are not kept: the callers choose when a deadline *)
(* has passed.  Of the smoothed frame advantage only this is kept: it can  *)
(* exceed one frame once some packet showed the peer that far behind.      *)
(* The fragments of a resync blob count as one packet, which arrives when  *)
(* the last of them has.  Packets are well formed and of one identity.     *)
(***************************************************************************)
EXTENDS Integers, Sequences, FiniteSets, SequencesExt

CONSTANTS
    Inputs,           \* the inputs a player can hold, the zero input among them
    Window,           \* Config.PredictionWindow
    MaxInputDelay,    \* Config.MaxInputDelay
    RingSpare,        \* saved states kept beyond Window + MaxInputDelay: 4
    History,          \* historyFrames: retained inputs, 256
    HistorySpare,     \* unacknowledged inputs stall this far below History: 16
    MaxEntries,       \* maxEntries: inputs that fit in one packet
    K,                \* Config.ChecksumInterval
    CpSlots,          \* cpSlots: checkpoints kept
    MaxSums,          \* maxSums: checksums in one packet
    CatchUpPerTick,   \* frames re-simulated per tick after a resync
    Relay             \* Config.Relay: a relay arbitrates desyncs

ASSUME NetplayAssumption ==
    /\ 0 \in Inputs
    /\ {Window, MaxEntries, K, CpSlots, MaxSums, CatchUpPerTick} \subseteq Nat \ {0}
    /\ {MaxInputDelay, RingSpare, HistorySpare} \subseteq Nat
    /\ History \in Nat /\ HistorySpare < History
    /\ MaxInputDelay <= History - HistorySpare
    /\ Window + 2 * MaxInputDelay <= History
    /\ Relay \in BOOLEAN

Least(a, b) == IF a < b THEN a ELSE b
Most(a, b)  == IF a > b THEN a ELSE b

Players == {0, 1}
Other(p) == 1 - p

NoFrame == -1

NRing == Window + MaxInputDelay + RingSpare

\* The empty slots of the three rings.
NoSave == [frame |-> NoFrame, state |-> <<>>, pair |-> <<>>]
NoCp   == [frame |-> NoFrame, sum |-> <<>>, epoch |-> 0, judged |-> FALSE]
NoSum  == [frame |-> NoFrame, sum |-> <<>>, epoch |-> 0]

\* A session before its handshake.  `fault` is the game frame that this
\* peer's build simulates wrongly, or NoFrame.
NewSession(p, delay, auto, fault) ==
    [me |-> p, status |-> "handshake", err |-> "none", fault |-> fault,
     delay |-> delay, delayKnown |-> ~auto, haveEcho |-> FALSE, haveRTT |-> FALSE,
     frame |-> 0, rc |-> 0, localNext |-> 0, peerAck |-> 0, firstBad |-> NoFrame,
     local |-> [i \in 0 .. History - 1 |-> 0],
     remote |-> [i \in 0 .. History - 1 |-> 0],
     used |-> [i \in 0 .. History - 1 |-> 0],
     game |-> <<>>, saved |-> [i \in 0 .. NRing - 1 |-> NoSave],
     changedFrom |-> NoFrame, ahead |-> FALSE, stalling |-> FALSE,
     nextCheck |-> K, cp |-> [i \in 0 .. CpSlots - 1 |-> NoCp],
     rem |-> [i \in 0 .. CpSlots - 1 |-> NoSum], epoch |-> 0,
     catching |-> FALSE, catchEnd |-> 0, out |-> <<>>]

End(s, why) ==
    IF s.status = "ended" THEN s ELSE [s EXCEPT !.status = "ended", !.err = why]

Send(s, m) == [s EXCEPT !.out = Append(@, m)]

---------------------------------------------------------------------------
\* Checksums.

Slot(f) == (f \div K) % CpSlots

\* A plausible slip: a mismatch ends the match like a departure, without its error.
JudgeWithoutError(s, f) ==
    LET c == s.cp[Slot(f)]
        r == s.rem[Slot(f)]
        judged == [s EXCEPT !.cp[Slot(f)].judged = TRUE]
    IN  IF c.frame # f \/ r.frame # f \/ c.judged \/ c.epoch # r.epoch THEN s
        ELSE IF c.sum = r.sum \/ Relay THEN judged
        ELSE End(judged, "none")

\* judge: the two checksums of frame f are compared once both are known and
\* of one epoch.
Judge(s, f) ==
    LET c == s.cp[Slot(f)]
        r == s.rem[Slot(f)]
        judged == [s EXCEPT !.cp[Slot(f)].judged = TRUE]
    IN  IF c.frame # f \/ r.frame # f \/ c.judged \/ c.epoch # r.epoch THEN s
        ELSE IF c.sum = r.sum \/ Relay THEN judged
        ELSE End(judged, "desync")

\* The checkpoint of frame f, from the state saved at its start.
Checkpoint(s, f, limit) ==
    LET held == s.saved[f % NRing] IN
    IF held.frame = f
    THEN Judge([s EXCEPT !.nextCheck = f + K,
                         !.cp[Slot(f)] = [frame |-> f, sum |-> held.state,
                                          epoch |-> s.epoch, judged |-> FALSE]], f)
    ELSE IF limit - f >= NRing THEN [s EXCEPT !.nextCheck = f + K] ELSE s

\* The turns of tryCheckpoints' loop: the checkpoint frames from nextCheck up to limit.
Due(s, limit) ==
    [i \in 1 .. Most((limit - s.nextCheck) \div K + 1, 0) |->
        [frame |-> s.nextCheck + (i - 1) * K, first |-> i = 1, limit |-> limit]]

\* A plausible slip: a checkpoint is taken as soon as its frame is simulated.
TryCheckpointUnconfirmed(s, d) ==
    IF d.frame = s.nextCheck /\ (d.first \/ s.status # "ended")
    THEN Checkpoint(s, d.frame, d.limit) ELSE s

\* One turn, for a frame that is both simulated and confirmed; after an earlier turn
\* the session may have ended.
TryCheckpoint(s, d) ==
    IF d.frame = s.nextCheck /\ d.frame <= s.rc /\ (d.first \/ s.status # "ended")
    THEN Checkpoint(s, d.frame, d.limit) ELSE s

TryCheckpoints(s, limit) == FoldLeft(TryCheckpoint, s, Due(s, limit))

OnRemoteSum(s, r) ==
    LET held == s.rem[Slot(r.frame)] IN
    IF held.frame = r.frame /\ held.epoch = r.epoch THEN s
    ELSE Judge([s EXCEPT !.rem[Slot(r.frame)] = r], r.frame)

---------------------------------------------------------------------------
\* Simulation.

\* RepeatLast: the last confirmed remote input.
Predict(s) == IF s.rc > 0 THEN s.remote[(s.rc - 1) % History] ELSE 0

PairOf(s, mine, theirs) == IF s.me = 0 THEN <<mine, theirs>> ELSE <<theirs, mine>>

\* The game's own Step: a faulty build corrupts the state at its fault frame.
Step(s, pair) ==
    IF Len(s.game) = s.fault THEN Append(s.game, Append(pair, "fault"))
                             ELSE Append(s.game, pair)

StepFrame(s, g) ==
    LET v    == IF g < s.rc THEN s.remote[g % History] ELSE Predict(s)
        pair == PairOf(s, s.local[g % History], v)
    IN  TryCheckpoints([s EXCEPT !.saved[g % NRing] =
                                    [frame |-> g, state |-> s.game, pair |-> pair],
                                 !.used[g % History] = v,
                                 !.game = Step(s, pair)], g)

StepFrames(s, from, to) ==
    FoldLeft(StepFrame, s, [i \in 1 .. Most(to - from, 0) |-> from + i - 1])

\* rollback: load the state saved at the start of f, simulate up to the present.
Rollback(s, f) ==
    LET held == s.saved[f % NRing] IN
    IF held.frame # f THEN End(s, "internal")
    ELSE [StepFrames([s EXCEPT !.game = held.state], f, s.frame)
            EXCEPT !.changedFrom = f]

\* The part of Advance between polling and deciding whether to simulate.
Repair(s) ==
    LET back == IF s.firstBad # NoFrame /\ s.firstBad < s.frame
                THEN Rollback(s, s.firstBad) ELSE s
    IN  TryCheckpoints([back EXCEPT !.firstBad = NoFrame], s.frame - 1)

\* Advance stalls at the prediction window, or when the inputs the peer has
\* not acknowledged would outrun the retained ones.
AtLimit(s) ==
    \/ s.frame - s.rc >= Window
    \/ s.localNext - s.peerAck >= History - HistorySpare

\* A plausible slip: the new frame hides the older one that a rollback changed.
SimulateForgetsRollback(s, input) ==
    LET g == s.frame + s.delay
        t == StepFrame([s EXCEPT !.local[g % History] = input,
                                 !.localNext = g + 1, !.stalling = FALSE], s.frame)
    IN  [t EXCEPT !.frame = @ + 1, !.changedFrom = s.frame]

\* The new frame of a tick that neither stalls nor waits.
Simulate(s, input) ==
    LET g == s.frame + s.delay
        t == StepFrame([s EXCEPT !.local[g % History] = input,
                                 !.localNext = g + 1, !.stalling = FALSE], s.frame)
    IN  [t EXCEPT !.frame = @ + 1,
                  !.changedFrom = IF @ = NoFrame THEN s.frame ELSE @]

---------------------------------------------------------------------------
\* Sending.

SendHello(s) == Send(s, [type |-> "hello", echo |-> s.haveEcho])

\* The newest of the checkpoints `from` that are older than the picked ones.
PickNewest(picked, from) ==
    LET older == {c \in from : \A i \in DOMAIN picked : c.frame < picked[i].frame}
    IN  IF older = {} THEN picked
        ELSE Append(picked, CHOOSE c \in older : \A d \in older : d.frame <= c.frame)

\* The newest checkpoints of the current epoch, newest first.
NewestSums(s) ==
    LET valid == {c \in {s.cp[i] : i \in DOMAIN s.cp} :
                    c.frame # NoFrame /\ c.epoch = s.epoch}
        sums  == {[frame |-> c.frame, sum |-> c.sum, epoch |-> c.epoch] : c \in valid}
    IN  FoldLeft(PickNewest, <<>>, [i \in 1 .. MaxSums |-> sums])

\* A plausible slip: only the newest input is sent.
SendInputNewest(s) ==
    LET start == s.localNext - 1
        count == Least(s.localNext, 1)
    IN  Send(s, [type |-> "input", echo |-> s.haveEcho, frame |-> s.frame,
                 ack |-> s.rc, start |-> Most(start, 0),
                 entries |-> [i \in 1 .. count |-> s.local[(start + i - 1) % History]],
                 sums |-> NewestSums(s)])

\* sendInput: every retained input the peer has not acknowledged, oldest first.
SendInput(s) ==
    LET start == Most(Most(s.peerAck, s.localNext - (History - HistorySpare)), 0)
        count == Most(Least(s.localNext - start, MaxEntries), 0)
    IN  Send(s, [type |-> "input", echo |-> s.haveEcho, frame |-> s.frame,
                 ack |-> s.rc, start |-> start,
                 entries |-> [i \in 1 .. count |-> s.local[(start + i - 1) % History]],
                 sums |-> NewestSums(s)])

\* catchUp: a bounded number of frames after a resync; the caller decides
\* whether the deadline has passed.
CatchUp(s, late) ==
    LET to   == Least(s.frame + CatchUpPerTick, s.catchEnd)
        sent == SendInput([StepFrames(s, s.frame, to) EXCEPT !.frame = to])
    IN  IF to >= s.catchEnd
        THEN [sent EXCEPT !.catching = FALSE,
                          !.changedFrom = Most(s.catchEnd - NRing + 1, 0)]
        ELSE IF late THEN End(sent, "catchup") ELSE sent

---------------------------------------------------------------------------
\* Receiving.

\* noteHeader and maybeStart: an automatic delay waits for a round trip.
NoteHeader(s, m) ==
    LET h == [s EXCEPT !.haveEcho = TRUE, !.haveRTT = @ \/ m.echo] IN
    IF h.status # "handshake" \/ ~(h.delayKnown \/ h.haveRTT) THEN h
    ELSE [h EXCEPT !.status = "running", !.delayKnown = TRUE, !.localNext = h.delay]

\* A plausible slip: a late input is taken in without looking at what was
\* used for its frame.
TakeEntryUnchecked(s, e) ==
    IF e.frame # s.rc THEN s
    ELSE [s EXCEPT !.remote[e.frame % History] = e.input, !.rc = e.frame + 1]

\* One entry of an Input packet: known frames and gaps are ignored.
TakeEntry(s, e) ==
    IF e.frame # s.rc THEN s
    ELSE [s EXCEPT !.remote[e.frame % History] = e.input, !.rc = e.frame + 1,
                   !.firstBad = IF /\ e.frame < s.frame /\ s.used[e.frame % History] # e.input
                                   /\ @ = NoFrame \/ e.frame < @
                                THEN e.frame ELSE @]

Entries(m) ==
    [i \in 1 .. Len(m.entries) |-> [frame |-> m.start + i - 1, input |-> m.entries[i]]]

HandleInput(s, m) ==
    LET h == NoteHeader(s, m)
        acked == [h EXCEPT !.ahead = @ \/ h.frame - m.frame > 1, !.peerAck = Most(@, m.ack)]
        taken == FoldLeft(TakeEntry, acked, Entries(m))
    IN  IF h.status = "handshake" THEN h ELSE FoldLeft(OnRemoteSum, taken, m.sums)

\* applyResync: continue from the relay's state of frame m.frame.
ApplyResync(s, m) ==
    LET c == m.frame
        Void(t) == [t EXCEPT !.cp = [i \in DOMAIN @ |-> NoCp],
                             !.rem = [i \in DOMAIN @ |-> NoSum],
                             !.saved = [i \in DOMAIN @ |->
                                          IF @[i].frame >= c THEN [@[i] EXCEPT !.frame = NoFrame]
                                                             ELSE @[i]]]
    IN  IF c <= 0 \/ c > s.frame \/ s.frame - c >= History - HistorySpare
        THEN End(s, "badresync")
        ELSE Send([Void(s) EXCEPT !.game = m.state, !.epoch = m.epoch, !.frame = c,
                                  !.catchEnd = s.frame, !.catching = TRUE,
                                  !.firstBad = NoFrame, !.nextCheck = c + K],
                  [type |-> "ack", epoch |-> m.epoch])

HandleResync(s, m) ==
    IF s.status # "running" \/ m.epoch < s.epoch THEN s
    ELSE IF m.epoch = s.epoch THEN Send(s, [type |-> "ack", epoch |-> s.epoch])
    ELSE ApplyResync(s, m)

\* handle: nothing more is read once the session has ended.
Handle(s, m) ==
    IF s.status = "ended" THEN s
    ELSE CASE m.type = "hello"  -> NoteHeader(s, m)
           [] m.type = "input"  -> HandleInput(s, m)
           [] m.type = "resync" -> HandleResync(s, m)
           [] m.type = "end"    -> End(s, "remoteended")

\* poll: the packets that arrived since the last tick, in their order.
Poll(s, arrived) ==
    FoldLeft(Handle, [s EXCEPT !.changedFrom = NoFrame, !.out = <<>>], arrived)
===========================================================================
