---------------------------- MODULE Netplay -----------------------------
(***************************************************************************)
(* Two rollback sessions over an unreliable network, and the ledger        *)
(* through which each application shows the events of its frames           *)
(* (netplay/session.go, ledger.go, transport.go).  Next is a match the two *)
(* play directly; NetplayRelay puts a relay between them.                  *)
(*                                                                         *)
(* The network may lose, delay, reorder and duplicate: it holds the newest *)
(* InFlight packets sent to each peer, and a tick reads any of them in any *)
(* order, any number of times.                                             *)
(***************************************************************************)
EXTENDS NetplaySession

CONSTANTS
    Busy,             \* Busy[p]: the frames in which player p may hold a button
    AutoDelayed,      \* the players configured with AutoDelay
    Delays,           \* Delays[p]: the input delays player p may end up with
    Faults,           \* the frames player 1's build may simulate wrongly
    MayTimeOut,       \* whether StallTimeout may pass
    Retain,           \* frames the ledger retains
    InFlight,         \* bound: InFlight[l] packets in flight on link l
    MaxFrame          \* bound: frames simulated

\* Link p leads to peer p.  With a relay, link 2 + p leads from p to it.
Links == IF Relay THEN 0 .. 3 ELSE Players
Link(p) == IF Relay THEN 2 + p ELSE Other(p)

ASSUME NetplayBounds ==
    /\ AutoDelayed \subseteq Players /\ Faults \subseteq Nat
    /\ \A p \in Players : Busy[p] \subseteq Nat /\ Delays[p] \subseteq 0 .. MaxInputDelay
    /\ MayTimeOut \in BOOLEAN
    /\ {Retain, MaxFrame} \subseteq Nat
    /\ InFlight \in [Links -> Nat \ {0}]

VARIABLES
    session,          \* session[p]: peer p's Session
    wire,             \* wire[l]: packets in flight on link l, newest last
    shown,            \* shown[p]: the events peer p's ledger tracks
    given,            \* given[p]: every input player p committed, by frame
    fresh             \* the peer that last read the newest packet and played on

vars == <<session, wire, shown, given, fresh>>

Init ==
    /\ \E delay \in {d \in [Players -> 0 .. MaxInputDelay] : \A p \in Players : d[p] \in Delays[p]},
          fault \in Faults \cup {NoFrame} :
          session = [p \in Players |-> NewSession(p, delay[p], p \in AutoDelayed,
                                                  IF p = 1 THEN fault ELSE NoFrame)]
    /\ wire = [l \in Links |-> <<>>]
    /\ shown = [p \in Players |-> {}]
    /\ given = [p \in Players |-> <<>>]
    /\ fresh = 1

---------------------------------------------------------------------------
\* The application's side of a tick.

\* EventsFrom: a frame emits one event unless both players are idle.
EventsFrom(s, from) ==
    {[frame |-> f, data |-> s.saved[f % NRing].pair] :
        f \in {g \in Most(Most(from, s.frame - NRing + 1), 0) .. s.frame - 1 :
                 s.saved[g % NRing].frame = g /\ s.saved[g % NRing].pair # <<0, 0>>}}

\* Reconcile: the tracked events of [from, to) become the emitted ones.
Reconcile(live, from, to, events) ==
    {e \in {e \in live : ~(e.frame \in from .. to - 1)}
             \cup {e \in events : e.frame \in from .. to - 1} :
        e.frame >= to - Retain}

\* The inputs a session committed that `given` does not have yet.
NewInputs(p, s) ==
    [i \in 1 .. s.localNext - Len(given[p]) |-> s.local[(Len(given[p]) + i - 1) % History]]

\* A repetition adds nothing new.
AddPacket(q, m) == IF Contains(q, m) THEN q ELSE Append(q, m)

\* Link l keeps the newest packets.
Transmit(l, sent) ==
    LET all == FoldLeft(AddPacket, wire[l], sent)
    IN  SubSeq(all, Len(all) - Least(Len(all), InFlight[l]) + 1, Len(all))

\* The end of every tick: what was sent, committed and shown.
Become(p, next) == \E s \in {next} :
    /\ session' = [session EXCEPT ![p] = [s EXCEPT !.out = <<>>, !.changedFrom = NoFrame]]
    /\ wire' = [wire EXCEPT ![Link(p)] = Transmit(Link(p), s.out)]
    /\ given' = [given EXCEPT ![p] = @ \o NewInputs(p, s)]
    /\ shown' = IF s.changedFrom = NoFrame THEN shown
                ELSE [shown EXCEPT ![p] = Reconcile(@, s.changedFrom, s.frame,
                                                    EventsFrom(s, s.changedFrom))]

---------------------------------------------------------------------------
\* Advance: one tick of peer p, by its outcome.  s is the session once the
\* arrived packets are read and, if it runs, a wrong prediction is repaired.

Handshake(p, s) ==
    /\ s.status = "handshake"
    /\ Become(p, SendHello(s))

\* A desync, found while reading packets or by a checkpoint after it.
Ends(p, s) ==
    /\ s.status = "ended"
    /\ Become(p, s)

TimesOut(p, s) ==
    /\ MayTimeOut
    /\ s.status = "handshake" \/ (s.status = "running" /\ s.stalling /\ AtLimit(s))
    /\ Become(p, End(s, "disconnect"))

\* The bound on frames also holds a peer back.
Stall(p, s) ==
    /\ s.status = "running"
    /\ AtLimit(s) \/ s.frame = MaxFrame
    /\ Become(p, SendInput([s EXCEPT !.stalling = TRUE]))

\* A peer that believes itself ahead skips a frame.
Wait(p, s) ==
    /\ s.status = "running" /\ ~AtLimit(s) /\ s.ahead
    /\ Become(p, SendInput([s EXCEPT !.stalling = FALSE]))

NewFrame(p, s) ==
    /\ s.status = "running" /\ ~AtLimit(s)
    /\ s.frame < MaxFrame
    /\ \E input \in IF s.frame \in Busy[p] THEN Inputs ELSE {0} :
          Become(p, SendInput(Simulate(s, input)))

\* The session of peer p after reading what arrived.
Received(p, arrived) ==
    LET s == Poll(session[p], arrived) IN
    IF s.status = "running" /\ ~s.catching THEN Repair(s) ELSE s

\* What a tick may have received: up to two of the packets in flight.
Arrivals(p) ==
    LET W == DOMAIN wire[p] IN
    {<<>>} \cup {<<wire[p][i]>> : i \in W}
           \cup {<<wire[p][i[1]], wire[p][i[2]]>> : i \in {x \in W \X W : x[1] # x[2]}}

\* Whether the newest packet, if there is any, is among them.  This matters
\* for fairness alone and is not followed through a relay.
UpToDate(p, arrived) ==
    ~Relay /\ (wire[p] = <<>> \/ Contains(arrived, Last(wire[p])))

Advance(p) ==
    /\ session[p].status # "ended"
    /\ \E arrived \in Arrivals(p) :
          \E s \in {Received(p, arrived)} :
          /\ ~(s.status = "running" /\ s.catching)
          /\ \/ /\ Handshake(p, s) \/ Ends(p, s) \/ Stall(p, s) \/ NewFrame(p, s)
                /\ fresh' = IF UpToDate(p, arrived) THEN p ELSE fresh
             \/ /\ TimesOut(p, s) \/ Wait(p, s)
                /\ UNCHANGED fresh

Next == \E p \in Players : Advance(p)

Spec == Init /\ [][Next]_vars

\* The application ticks at the frame rate and every tick sends a packet, some
\* of which arrive; a peer waits for balance at most every SyncInterval ticks.
\* So time and again each peer reads the newest packet and plays on, which is
\* always possible until its session ends.
Fairness ==
    \A p \in Players : WF_fresh(session[p].status # "ended" /\ fresh # p /\ fresh' = p)

FairSpec == Spec /\ Fairness

---------------------------------------------------------------------------
\* Properties.

\* The newest state of peer p that no later input can change.
Confirmed(p) ==
    LET s == session[p]
        n == IF s.firstBad = NoFrame THEN s.rc ELSE s.firstBad
    IN  IF n >= s.frame THEN s.game ELSE s.saved[n % NRing].state

Lock == INSTANCE Lockstep WITH
            Peers <- Players,
            fault <- [p \in Players |-> session[p].fault],
            confirmed <- [p \in Players |-> Confirmed(p)]

\* Every variable keeps its type; the game has one step per frame, a rollback
\* included, and the inputs committed are the ones numbered so far.
TypeOK ==
    \A p \in Players :
        LET s == session[p] IN
        /\ s.status \in {"handshake", "running", "ended"}
        /\ s.err \in {"none", "disconnect", "desync"}
        /\ s.delay \in Delays[p]
        /\ {s.frame, s.rc, s.localNext, s.peerAck} \subseteq Nat
        /\ s.frame <= MaxFrame /\ Len(s.game) = s.frame
        /\ s.localNext = Len(given[p])
        /\ Len(wire[p]) <= InFlight[p]

\* A match ends in a desync only if one build really simulated a frame
\* differently (DesyncError: "a checksum mismatch on a confirmed frame"),
\* whatever the network did, and a rollback always finds its saved state.
NoFalseDesync ==
    \A p \in Players : session[p].err = "desync" => session[1].fault # NoFrame

\* Every checkpoint kept is that of the inputs both players gave: a checksum
\* is never taken of a frame that still rests on a prediction.
CheckpointsAreTrue ==
    \A p \in Players : \A i \in DOMAIN session[p].cp :
        LET c == session[p].cp[i] IN
        c.frame # NoFrame =>
            /\ \A q \in Players : c.frame <= Len(given[q])
            /\ c.sum = Lock!Run(p, c.frame)

\* The inputs a peer may still have to send are retained: what is unconfirmed
\* is bounded by the two windows and delays, so a packet in flight never
\* leaves a gap, and its entries are the ones that were committed.
HistoryKept ==
    \A p \in Players :
        LET s == session[p]
            q == session[Other(p)]
        IN  /\ s.peerAck <= q.rc /\ q.rc <= s.localNext
            /\ s.localNext - s.peerAck <= 2 * Window + s.delay + q.delay
            /\ \A i \in DOMAIN wire[Other(p)] :
                  LET m == wire[Other(p)][i] IN
                  m.type = "input" =>
                     /\ m.start <= q.rc
                     /\ m.entries = SubSeq(given[p], m.start + 1, m.start + Len(m.entries))

\* The two sessions in every state, whatever the network did: checkpoints hold no
\* prediction, a desync is reported only after a fault, and every input a peer may
\* still ask for is in the ring.
SessionInv == TypeOK /\ NoFalseDesync /\ CheckpointsAreTrue /\ HistoryKept

\* After every tick the effects on screen are those of the frames as they
\* are now simulated: none survives the rollback that undid it.
EffectsMatch ==
    \A p \in Players :
        LET s == session[p] IN
        shown[p] = {e \in [frame : 0 .. s.frame - 1, data : Inputs \X Inputs] :
                      /\ e.frame >= s.frame - Retain /\ e.data # <<0, 0>>
                      /\ e.data = SubSeq(s.game[e.frame + 1], 1, 2)}

\* Prediction and rollback are invisible: what a peer has confirmed is the
\* game run over both players' inputs, and only ever grows.
RefinesLockstep == Lock!Spec

\* As long as packets get through, the match is played: whatever was lost,
\* every input is simulated and confirmed by both peers, unless a peer gave
\* up waiting or a build was at fault.
MatchIsPlayed ==
    session[1].fault = NoFrame =>
        <>(\/ \E p \in Players : session[p].err = "disconnect"
           \/ \A p \in Players : /\ session[p].frame = MaxFrame
                                 /\ session[p].rc = Len(given[Other(p)]))

\* A build that simulates a frame differently is found out.
FaultIsFound ==
    session[1].fault # NoFrame =>
        <>(\E p \in Players : session[p].err \in {"desync", "disconnect"})
===========================================================================
