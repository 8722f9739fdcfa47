----------------------------- MODULE HubSnapshot -----------------------------
(***************************************************************************)
(* Package hub, snapshot.go: the snapshot lane of one connected client.    *)
(*                                                                         *)
(* Producers offer a baseline per epoch and deltas against it; the client  *)
(* keeps at most one pending baseline and the newest delta, and a one-slot *)
(* channel wakes the writer, which alternates snapshot frames with the     *)
(* frames of the reliable queues (send and binarySend, one counter here).  *)
(* A section under c.mu is one atomic step, a channel operation another.   *)
(***************************************************************************)
EXTENDS Integers

CONSTANTS
    MaxEpoch,   \* bounds the epochs offered
    Deltas,     \* delta payloads
    QueueCap,   \* slots of the reliable queue
    None        \* a nil snapshot, payload or frame

Epochs == 1..MaxEpoch
Payloads == Deltas \cup {None}

\* binarySnapshot; the baseline is a flag, an epoch has only one.
Lanes == [epoch : Epochs, baseline : BOOLEAN, delta : Payloads]

\* outboundFrame; a reliable one stands for any text or binary message.
Frames == [kind : {"reliable"}] \cup
          [kind : {"baseline", "delta"}, epoch : Epochs, delta : Payloads]

LaneParameters ==
    /\ MaxEpoch \in Nat \ {0} /\ QueueCap \in Nat \ {0}
    /\ None \notin Deltas /\ None \notin Lanes /\ None \notin Frames

ASSUME SnapshotAssumption == LaneParameters

VARIABLES
    snapshot,   \* c.snapshot
    wake,       \* a token is in c.snapshotWake
    queue,      \* frames in c.send and c.binarySend
    closed,     \* c.closed
    pc,         \* where nextOutbound or its caller writePump is
    prefer,     \* preferSnapshot
    frame,      \* the frame writePump is writing
    newest,     \* history: the newest delta accepted for the pending epoch
    sent        \* history: epoch of the last baseline written, 0 before

lane == <<snapshot, wake, newest>>
writer == <<pc, prefer, frame, sent>>
vars == <<lane, queue, closed, writer>>

\* A frame is pending: wakeSnapshotLocked's condition.
Pending(s) == s # None /\ (s.baseline \/ s.delta # None)

Init ==
    /\ snapshot = None /\ wake = FALSE /\ newest = None
    /\ queue = 0 /\ closed = FALSE
    /\ pc = "turn" /\ prefer = FALSE /\ frame = None /\ sent = 0

-----------------------------------------------------------------------------
(* Producers                                                               *)

\* wakeSnapshotLocked, after the lane has become s.
WakeLocked(s) == wake' = (wake \/ Pending(s))

OfferedKeepsFirst(e, d) ==
    IF snapshot = None \/ e > snapshot.epoch
    THEN [epoch |-> e, baseline |-> TRUE, delta |-> d]
    ELSE [snapshot EXCEPT !.delta = IF @ # None THEN @ ELSE d]

\* The lane after an offer: a new epoch replaces everything, a duplicate of the
\* epoch replaces the delta unless it brings none.
Offered(e, d) ==
    IF snapshot = None \/ e > snapshot.epoch
    THEN [epoch |-> e, baseline |-> TRUE, delta |-> d]
    ELSE [snapshot EXCEPT !.delta = IF d = None THEN @ ELSE d]

\* An offer for an epoch older than the lane's is refused.
Stale(e) == snapshot # None /\ e < snapshot.epoch

\* offerSnapshot of an offer that is accepted; refused ones change nothing.
Offer(e, d) ==
    /\ ~closed /\ ~Stale(e)
    /\ snapshot' = Offered(e, d)
    /\ WakeLocked(snapshot')
    /\ newest' = IF snapshot = None \/ e > snapshot.epoch \/ d # None THEN d ELSE newest
    /\ UNCHANGED <<queue, closed, writer>>

\* enqueue on the reliable queues by anyone.
Enqueue ==
    /\ ~closed /\ queue < QueueCap
    /\ queue' = queue + 1
    /\ UNCHANGED <<lane, closed, writer>>

\* removeClient: closes the channels and forgets the snapshot.
RemoveClient ==
    /\ ~closed
    /\ closed' = TRUE /\ snapshot' = None
    /\ UNCHANGED <<wake, newest, queue, writer>>

-----------------------------------------------------------------------------
(* The writer: nextOutbound                                                *)

\* Receive from a reliable queue that is not empty.
TakeReliable ==
    /\ queue > 0 /\ queue' = queue - 1
    /\ pc' = "write" /\ frame' = [kind |-> "reliable"]
    /\ UNCHANGED <<lane, closed, prefer, sent>>

\* Receive from a closed queue: the other one may still hold frames.
TakeClosed ==
    /\ closed
    /\ pc' = "gone"
    /\ UNCHANGED <<lane, queue, closed, prefer, frame, sent>>

\* The first select of the loop, when it is the reliable queues' turn.
TurnReliable == pc = "turn" /\ ~prefer /\ (TakeReliable \/ TakeClosed)

\* Receive the token, on the snapshot's turn or in the second select.
TakeWake(l) ==
    /\ wake /\ wake' = FALSE
    /\ pc' = l
    /\ UNCHANGED <<snapshot, newest, queue, closed, prefer, frame, sent>>

TurnSnapshot == pc = "turn" /\ prefer /\ TakeWake("takeOnTurn")

\* The default case of the first select.
TurnPasses ==
    /\ pc = "turn"
    /\ IF prefer THEN ~wake ELSE queue = 0 /\ ~closed
    /\ pc' = "select"
    /\ UNCHANGED <<lane, queue, closed, prefer, frame, sent>>

SelectReliable == pc = "select" /\ (TakeReliable \/ TakeClosed)

SelectSnapshot == pc = "select" /\ TakeWake("take")

\* A timer tick that leads to no disconnect: the writer may ping and goes on.
\* (A tick in the first select leads back to it: a stuttering step.)
SelectTick ==
    /\ pc = "select"
    /\ pc' = "turn"
    /\ UNCHANGED <<lane, queue, closed, prefer, frame, sent>>

\* The frame takeSnapshot returns: a delta carries its payload.
FrameOf(s, baseline) ==
    [kind |-> IF baseline THEN "baseline" ELSE "delta", epoch |-> s.epoch,
     delta |-> IF baseline THEN None ELSE s.delta]

\* What it leaves in the lane.
Without(s, baseline) ==
    IF baseline THEN [s EXCEPT !.baseline = FALSE] ELSE [s EXCEPT !.delta = None]

TakeSnapshotDeltaFirst ==
    /\ pc \in {"takeOnTurn", "take"} /\ Pending(snapshot)
    /\ frame' = FrameOf(snapshot, snapshot.delta = None)
    /\ snapshot' = Without(snapshot, snapshot.delta = None)
    /\ WakeLocked(snapshot')
    /\ pc' = "write"
    /\ UNCHANGED <<newest, queue, closed, prefer, sent>>

\* takeSnapshot: the baseline first, then the delta; another token if one is left.
TakeSnapshot ==
    /\ pc \in {"takeOnTurn", "take"} /\ Pending(snapshot)
    /\ frame' = FrameOf(snapshot, snapshot.baseline)
    /\ snapshot' = Without(snapshot, snapshot.baseline)
    /\ WakeLocked(snapshot')
    /\ pc' = "write"
    /\ UNCHANGED <<newest, queue, closed, prefer, sent>>

\* A spurious token: the client left, or the frame was taken with an earlier token.
TakeNothing ==
    /\ pc \in {"takeOnTurn", "take"} /\ ~Pending(snapshot)
    /\ pc' = IF pc = "take" THEN "turn" ELSE "select"
    /\ UNCHANGED <<lane, queue, closed, prefer, frame, sent>>

NextPreferReliable == FALSE

\* preferSnapshot = !frame.snapshot
NextPrefer == frame.kind = "reliable"

\* writePump: the write succeeds.
Written ==
    /\ pc = "write"
    /\ pc' = "turn" /\ prefer' = NextPrefer /\ frame' = None
    /\ sent' = IF frame.kind = "baseline" THEN frame.epoch ELSE sent
    /\ UNCHANGED <<lane, queue, closed>>

\* The write fails or misses its deadline, a ping fails, or a slow client is evicted.
WriterFails ==
    /\ pc \in {"write", "select", "turn"}
    /\ pc' = "gone"
    /\ UNCHANGED <<lane, queue, closed, prefer, frame, sent>>

-----------------------------------------------------------------------------

WriterStep ==
    \/ TurnReliable \/ TurnSnapshot \/ TurnPasses \/ SelectReliable \/ SelectSnapshot
    \/ TakeSnapshot \/ TakeNothing \/ Written

Next ==
    \/ \E e \in Epochs, d \in Payloads : Offer(e, d)
    \/ Enqueue \/ RemoveClient \/ WriterStep \/ SelectTick \/ WriterFails

Spec == Init /\ [][Next]_vars

\* The writer runs, and a select that meets a ready case again and again does not
\* always take the timer, which ticks at most every 100 ms.  Producers may stop or
\* never stop.
Fairness ==
    /\ WF_vars(WriterStep)
    /\ SF_vars(SelectReliable) /\ SF_vars(SelectSnapshot)

FairSpec == Spec /\ Fairness

-----------------------------------------------------------------------------
(* Properties                                                              *)

\* Every variable keeps its type.
TypeOK ==
    /\ snapshot \in Lanes \cup {None} /\ wake \in BOOLEAN
    /\ queue \in 0..QueueCap /\ closed \in BOOLEAN
    /\ pc \in {"turn", "select", "takeOnTurn", "take", "write", "gone"}
    /\ prefer \in BOOLEAN /\ newest \in Payloads /\ sent \in 0..MaxEpoch
    /\ frame \in Frames \cup {None}

\* "Taking a baseline commits its ordering before any delta for that epoch": when a
\* delta goes out, the last baseline written is that of its own epoch, although
\* offers may replace the lane at any moment.
BaselineBeforeDelta ==
    pc = "write" /\ frame.kind = "delta" => sent = frame.epoch

\* "Stale epochs are ignored per client": the wire never goes back to an epoch.
EpochsNeverGoBack ==
    pc = "write" /\ frame.kind = "baseline" => frame.epoch > sent

\* No lost wake-up: while a frame is pending, the writer has a token to find or is
\* about to look.
NoLostWake == Pending(snapshot) => wake \/ pc \in {"takeOnTurn", "take"}

\* The snapshot lane in every state: no delta before its baseline, no epoch after a
\* later one, and no pending frame that the writer could sleep on.
SnapshotInv == TypeOK /\ BaselineBeforeDelta /\ EpochsNeverGoBack /\ NoLostWake

\* A delta that is taken is the newest one accepted for its epoch.
NewestDeltaWins ==
    [][frame' # frame /\ frame' # None /\ frame'.kind = "delta" => frame'.delta = newest]_vars

WritingSnapshot == pc = "write" /\ frame.kind \in {"baseline", "delta"}
WritingReliable == pc = "write" /\ frame.kind = "reliable"
Ended == closed \/ pc = "gone"

\* "Both categories get a bounded turn": a pending snapshot is written however much
\* reliable traffic there is ...
SnapshotServed == Pending(snapshot) ~> WritingSnapshot \/ Ended

\* ... and the other way round.
ReliableServed == queue > 0 ~> WritingReliable \/ Ended

\* nextOutbound starves neither lane.
LanesServed == SnapshotServed /\ ReliableServed
=============================================================================
