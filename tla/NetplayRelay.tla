-------------------------- MODULE NetplayRelay --------------------------
(***************************************************************************)
(* The two sessions of Netplay with a relay between them                   *)
(* (netplay/relay.go).  The relay forwards what it receives, logs the      *)
(* inputs, simulates a native copy of the game over the confirmed frames,  *)
(* compares the checksums the peers report with its own, and repairs a     *)
(* peer that differs by sending its state.                                 *)
(*                                                                         *)
(* Left out: the late-input statistics, the spectators and the rate limit  *)
(* on resending a blob.                                                    *)
(***************************************************************************)
EXTENDS Netplay

CONSTANTS
    RelaySlots,       \* relayCPSlots: checkpoints kept, 16
    RelayPerTick      \* RelayConfig.CatchUpPerTick: frames simulated per tick

ASSUME RelayAssumption == {RelaySlots, RelayPerTick} \subseteq Nat \ {0}

VARIABLE relay        \* the Relay

relayVars == <<vars, relay>>

NoBlob   == [frame |-> NoFrame, sum |-> <<>>]
NoReport == [frame |-> NoFrame, sum |-> <<>>, epoch |-> 0, judged |-> FALSE]
NoResync == [active |-> FALSE, epoch |-> 0, frame |-> 0, state |-> <<>>]

NewRelay ==
    [log |-> [p \in Players |-> <<>>], game |-> <<>>,
     cps |-> [i \in 0 .. RelaySlots - 1 |-> NoBlob],
     reported |-> [p \in Players |-> [i \in 0 .. RelaySlots - 1 |-> NoReport]],
     sentEpoch |-> [p \in Players |-> 0], ackedEpoch |-> [p \in Players |-> 0],
     rs |-> [p \in Players |-> NoResync], desyncs |-> {}, ended |-> FALSE,
     out |-> [p \in Players |-> <<>>]]

RelayInit == Init /\ relay = NewRelay

RelaySlot(f) == (f \div K) % RelaySlots

\* endMatch: both peers are told, in this tick and in ten more.
EndMatch(r) ==
    [r EXCEPT !.ended = TRUE, !.rs = [p \in Players |-> [@[p] EXCEPT !.active = FALSE]],
              !.out = [p \in Players |-> Append(@[p], [type |-> "end"])]]

\* A plausible slip: reports made before a resync are judged after it.
RelayJudgeAnyEpoch(r, p, f) ==
    LET c     == r.cps[RelaySlot(f)]
        rep   == r.reported[p][RelaySlot(f)]
        known == [r EXCEPT !.reported[p][RelaySlot(f)].judged = TRUE,
                           !.desyncs = IF rep.sum = c.sum THEN @ ELSE @ \cup {f}]
    IN  IF \/ c.frame # f \/ rep.frame # f \/ rep.judged
        THEN r
        ELSE IF rep.sum = c.sum THEN known
        ELSE IF Cardinality(known.desyncs) >= 2 THEN EndMatch(known)
        ELSE [known EXCEPT !.sentEpoch[p] = @ + 1,
                           !.rs[p] = [active |-> TRUE, epoch |-> r.sentEpoch[p] + 1,
                                      frame |-> f, state |-> c.sum]]

\* judge: peer p's report of frame f against the native copy.  The first
\* frame in which a peer differs is repaired, a second one ends the match.
RelayJudge(r, p, f) ==
    LET c     == r.cps[RelaySlot(f)]
        rep   == r.reported[p][RelaySlot(f)]
        known == [r EXCEPT !.reported[p][RelaySlot(f)].judged = TRUE,
                           !.desyncs = IF rep.sum = c.sum THEN @ ELSE @ \cup {f}]
    IN  IF \/ c.frame # f \/ rep.frame # f \/ rep.judged
           \/ r.sentEpoch[p] # r.ackedEpoch[p] \/ rep.epoch # r.ackedEpoch[p]
        THEN r
        ELSE IF rep.sum = c.sum THEN known
        ELSE IF Cardinality(known.desyncs) >= 2 THEN EndMatch(known)
        ELSE [known EXCEPT !.sentEpoch[p] = @ + 1,
                           !.rs[p] = [active |-> TRUE, epoch |-> r.sentEpoch[p] + 1,
                                      frame |-> f, state |-> c.sum]]

\* onReport
OnReport(r, p, m) ==
    LET held == r.reported[p][RelaySlot(m.frame)] IN
    IF held.frame = m.frame /\ held.epoch = m.epoch THEN r
    ELSE RelayJudge([r EXCEPT !.reported[p][RelaySlot(m.frame)] =
                        [frame |-> m.frame, sum |-> m.sum, epoch |-> m.epoch,
                         judged |-> FALSE]], p, m.frame)

\* A plausible slip: the entries are appended without looking at their frame.
LogInputsBlindly(r, p, m) == [r EXCEPT !.log[p] = @ \o m.entries]

\* logInputs: the first copy of each frame's input, without gaps.
LogInputs(r, p, m) ==
    LET n == Len(r.log[p]) IN
    IF m.start > n THEN r
    ELSE [r EXCEPT !.log[p] = @ \o SubSeq(m.entries, n - m.start + 1, Len(m.entries))]

RelayForward(r, p, m) == [r EXCEPT !.out[Other(p)] = Append(@, m)]

OnResyncAck(r, p, m) ==
    IF ~(r.rs[p].active /\ m.epoch = r.rs[p].epoch) THEN r
    ELSE [r EXCEPT !.rs[p].active = FALSE, !.ackedEpoch[p] = m.epoch,
                   !.reported[p] = [i \in DOMAIN @ |-> [@[i] EXCEPT !.frame = NoFrame]]]

\* handle: one packet from peer p; nothing more is read once the match ended.
RelayHandle(r, p, m) ==
    LET Report(t, x) == OnReport(t, p, x) IN
    CASE r.ended -> r
      [] m.type = "hello" -> RelayForward(r, p, m)
      [] m.type = "input" ->
            RelayForward(FoldLeft(Report, LogInputs(r, p, m), m.sums), p, m)
      [] m.type = "ack" -> OnResyncAck(r, p, m)

\* simulate and saveCP: one frame of the native copy.
RelayStep(r, f) ==
    LET n     == f + 1
        state == Append(r.game, <<r.log[0][n], r.log[1][n]>>)
        saved == [r EXCEPT !.game = state,
                           !.cps[RelaySlot(n)] = [frame |-> n, sum |-> state]]
    IN  IF r.ended THEN r
        ELSE IF n % K # 0 THEN [r EXCEPT !.game = state]
        ELSE RelayJudge(RelayJudge(saved, 0, n), 1, n)

RelaySimulate(r) ==
    LET to == Least(Len(r.game) + RelayPerTick, Least(Len(r.log[0]), Len(r.log[1])))
    IN  FoldLeft(RelayStep, r,
                 [i \in 1 .. Most(to - Len(r.game), 0) |-> Len(r.game) + i - 1])

\* sendResyncs: a blob is sent again until its peer acknowledges it.
SendResyncs(r) ==
    [r EXCEPT !.out = [p \in Players |->
        IF r.rs[p].active
        THEN Append(@[p], [type |-> "resync", epoch |-> r.rs[p].epoch,
                           frame |-> r.rs[p].frame, state |-> r.rs[p].state])
        ELSE @[p]]]

\* Tick: the packets that arrived from either peer, then the native copy and
\* the resyncs, unless one of the packets ended the match.
RelayTick(arrived) ==
    LET From(r, p) == LET Read(t, m) == RelayHandle(t, p, m)
                      IN  FoldLeft(Read, r, arrived[p])
        heard == From(From(relay, 0), 1)
    IN  IF heard.ended THEN heard ELSE SendResyncs(RelaySimulate(heard))

\* What a tick may have received: nothing, or a packet of one peer.
Uploads ==
    {[p \in Players |-> <<>>]} \cup
    UNION {{[p \in Players |-> IF p = q THEN <<wire[2 + q][i]>> ELSE <<>>] :
              i \in DOMAIN wire[2 + q]} : q \in Players}

Tick ==
    /\ ~relay.ended
    /\ \E arrived \in Uploads :
          \E r \in {RelayTick(arrived)} :
             /\ relay' = [r EXCEPT !.out = [p \in Players |-> <<>>]]
             /\ wire' = [l \in Links |-> IF l \in Players THEN Transmit(l, r.out[l])
                                                          ELSE wire[l]]
             /\ UNCHANGED <<session, shown, given, fresh>>

\* A tick of a peer that a resync set back.
CatchesUp(p) ==
    /\ session[p].status # "ended"
    /\ \E arrived \in Arrivals(p), late \in BOOLEAN :
          \E s \in {Received(p, arrived)} :
             /\ s.status = "running" /\ s.catching
             /\ late => MayTimeOut
             /\ Become(p, CatchUp(s, late))
    /\ UNCHANGED <<fresh, relay>>

RelayNext ==
    \/ Tick
    \/ \E p \in Players : Advance(p) /\ UNCHANGED relay
    \/ \E p \in Players : CatchesUp(p)

RelaySpec == RelayInit /\ [][RelayNext]_relayVars

---------------------------------------------------------------------------
\* Properties.

\* The game over the first n inputs given, by a build without a fault.
Clean(n) == [i \in 1 .. n |-> <<given[0][i], given[1][i]>>]

\* Every variable keeps its type, and a resync is being repeated to a player
\* exactly while its epoch is unacknowledged (Relay.judge, the resync ack).
RelayTypeOK ==
    /\ \A p \in Players :
          /\ session[p].err \in {"none", "disconnect", "catchup", "remoteended"}
          /\ Len(session[p].game) = session[p].frame
          /\ relay.ackedEpoch[p] \in {relay.sentEpoch[p] - 1, relay.sentEpoch[p]}
          /\ relay.rs[p].active = (relay.sentEpoch[p] # relay.ackedEpoch[p] /\ ~relay.ended)
    /\ relay.desyncs \subseteq {f \in 1 .. MaxFrame : f % K = 0}
    /\ relay.ended \in BOOLEAN
    /\ \A l \in Links : Len(wire[l]) <= InFlight[l]

\* However packets to the relay were lost, repeated or reordered, what it
\* logged is what the players committed, and its own copy is the game over it.
RelayIsTrue ==
    /\ \A p \in Players : IsPrefix(relay.log[p], given[p])
    /\ relay.game = Clean(Len(relay.game))

\* The relay in every state: well-formed, with the players' own inputs in its log.
RelayInv == RelayTypeOK /\ RelayIsTrue

\* One fault is one desync: neither the reports that were in flight when the
\* blob was sent, nor those of the frames simulated again, make the relay end
\* the match as if there had been a second one.
OneFaultIsRepaired == ~relay.ended

\* docs/netplay.md: checksums are "computed on confirmed frames".  Every checkpoint a
\* peer keeps, which is what it reports, is its build's game over the inputs given,
\* and once it was repaired, the game without the fault.
ReportsAreConfirmed ==
    \A p \in Players : \A i \in DOMAIN session[p].cp :
        LET c == session[p].cp[i] IN
        c.frame # NoFrame =>
            /\ \A q \in Players : c.frame <= Len(given[q])
            /\ c.sum = IF c.epoch = 0 THEN Lock!Run(p, c.frame) ELSE Clean(c.frame)
===========================================================================
