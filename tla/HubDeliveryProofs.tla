-------------------------- MODULE HubDeliveryProofs --------------------------
(***************************************************************************)
(* What the hub delivers to a client, for every set of clients, calls,     *)
(* epochs and deltas and every size of a queue: first the latched topic of *)
(* HubLatch, then the snapshot lane of HubSnapshot.                        *)
(*                                                                         *)
(* The latch: whoever is registered will be sent the latched payload, and  *)
(* NobodyForgotten says by which step it is still under way.               *)
(*                                                                         *)
(* The lane: its wire properties are not inductive, since whether the next *)
(* frame may go out depends on what the lane holds and on the frame being  *)
(* written.  Ordered relates the three: the epochs on the wire, in the     *)
(* writer's hand and in the lane only grow, and a lane without its         *)
(* baseline is one whose baseline has been written or is in the hand.      *)
(* An instance brings no assumption with it, so the lane's are a           *)
(* hypothesis of its theorems; QueueCap, the slots of a client's queue, is *)
(* the same in both.                                                       *)
(***************************************************************************)
EXTENDS HubLatch, SequenceTheorems, TLAPS

\* The lane's constants and variables; its `queue` counts frames, so it is `ready` here.
CONSTANTS MaxEpoch, Deltas, None
VARIABLES snapshot, wake, ready, closed, pc, prefer, frame, newest, sent

Lane == INSTANCE HubSnapshot WITH queue <- ready

-----------------------------------------------------------------------------
(* The latched topic                                                       *)

\* The queues are sequences of payloads.
QueuesAreSeqs == queue \in [Clients -> Seq(Calls)]

\* Only BroadcastWhere sends a filtered payload: it is in no latch and no replay,
\* its fanout stays in scope, and so do the queues.
ScopeKept ==
    /\ latched \notin Filtered
    /\ \A c \in Clients : replay[c] \notin Filtered
    /\ \A b \in Filtered : call[b] \notin {"look", "latch", "latched"} /\ todo[b] \subseteq Scope
    /\ FilteredStaysInScope

\* The clients registered are those whose join has begun.
ClientsExact == clients = {c \in Clients : join[c] # "new"}

\* Client c will be sent the latched payload, or has lost a payload.
Due(c) ==
    \/ dropped[c]
    \/ latched \in ToSet(queue[c])
    \/ call[latched] = "latched"
    \/ call[latched] = "fanout" /\ c \in todo[latched]
    \/ join[c] = "registered"
    \/ join[c] = "replay" /\ replay[c] = latched

\* Nobody registered falls between the latch and the fanout.
NobodyForgotten == latched \in Calls => \A c \in clients : Due(c)

IInv == TypeOK /\ QueuesAreSeqs /\ ScopeKept /\ ClientsExact /\ NobodyForgotten

-----------------------------------------------------------------------------

\* What enqueueing one payload does to the elements of a queue.
LEMMA AppendElements ==
  ASSUME NEW q \in Seq(Calls), NEW p \in Calls
  PROVE  /\ Append(q, p) \in Seq(Calls) /\ Len(Append(q, p)) = Len(q) + 1
         /\ ToSet(Append(q, p)) = ToSet(q) \cup {p}
  <1>1. Append(q, p) \in Seq(Calls) /\ Len(Append(q, p)) = Len(q) + 1
    BY AppendProperties
  <1>2. DOMAIN q = 1..Len(q) /\ DOMAIN Append(q, p) = 1..(Len(q) + 1) /\ Len(q) \in Nat
    BY <1>1
  <1>3. /\ \A i \in 1..Len(q) : Append(q, p)[i] = q[i]
        /\ Append(q, p)[Len(q) + 1] = p
    BY AppendProperties
  <1>4. QED
    BY <1>1, <1>2, <1>3 DEF ToSet

\* The payloads are no states of an empty latch.
LEMMA Payloads ==
  /\ Undeclared \notin Calls /\ Empty \notin Calls /\ Filtered \subseteq Calls
  /\ Scope \subseteq Clients /\ QueueCap \in Nat \ {0}
  BY LatchAssumption

\* trySend appends the payload to the queue of one client, or drops it.
LEMMA TrySendEffect ==
  ASSUME TypeOK, QueuesAreSeqs, NEW c \in Clients, NEW p \in Calls, TrySend(c, p)
  PROVE  /\ queue' \in [Clients -> Seq(Calls)]
         /\ dropped' \in [Clients -> BOOLEAN]
         /\ \A d \in Clients : Len(queue'[d]) <= QueueCap /\ ToSet(queue'[d]) \subseteq Calls
         /\ \A d \in Clients : d # c => queue'[d] = queue[d] /\ dropped'[d] = dropped[d]
         /\ ToSet(queue[c]) \subseteq ToSet(queue'[c])
         /\ ToSet(queue'[c]) \subseteq ToSet(queue[c]) \cup {p}
         /\ dropped[c] => dropped'[c]
         /\ dropped'[c] \/ p \in ToSet(queue'[c])
  <1>1. queue[c] \in Seq(Calls)
    BY DEF QueuesAreSeqs
  <1>2. CASE Len(queue[c]) < QueueCap
    <2>1. queue' = [queue EXCEPT ![c] = Append(queue[c], p)] /\ dropped' = dropped
      BY <1>2 DEF TrySend
    <2>2. queue'[c] = Append(queue[c], p)
      BY <2>1 DEF QueuesAreSeqs
    <2>3. ToSet(queue'[c]) = ToSet(queue[c]) \cup {p} /\ Len(queue'[c]) = Len(queue[c]) + 1
      BY <1>1, <2>2, AppendElements
    <2>4. queue' \in [Clients -> Seq(Calls)]
      BY <1>1, <2>1, AppendElements DEF QueuesAreSeqs
    <2>5. Len(queue'[c]) <= QueueCap
      BY <1>1, <1>2, <2>3, Payloads
    <2>6. \A d \in Clients : d # c => queue'[d] = queue[d]
      BY <2>1 DEF QueuesAreSeqs
    <2>7. \A d \in Clients : Len(queue'[d]) <= QueueCap /\ ToSet(queue'[d]) \subseteq Calls
      BY <2>3, <2>5, <2>6 DEF TypeOK
    <2>8. dropped' \in [Clients -> BOOLEAN]
      BY <2>1 DEF TypeOK
    <2>9. QED
      BY <2>1, <2>3, <2>4, <2>6, <2>7, <2>8
  <1>3. CASE ~(Len(queue[c]) < QueueCap)
    BY <1>3 DEF TrySend, TypeOK, QueuesAreSeqs
  <1>4. QED
    BY <1>2, <1>3

\* A new hub has latched and sent nothing.
LEMMA InitIInv == Init => IInv
  <1> SUFFICES ASSUME Init PROVE IInv
    OBVIOUS
  <1>1. \A c \in Clients : queue[c] = <<>> /\ ToSet(queue[c]) = {} /\ Len(queue[c]) = 0
    BY DEF Init, ToSet
  <1>2. TypeOK
    BY <1>1, Payloads DEF Init, TypeOK
  <1>3. QED
    BY <1>1, <1>2, Payloads
    DEF Init, IInv, QueuesAreSeqs, ScopeKept, FilteredStaysInScope, ClientsExact,
        NobodyForgotten

\* The queues change only in FanoutSends and Replay; every other step keeps what
\* is said of them.
LEMMA TypeStep == IInv /\ [Next]_vars => TypeOK' /\ QueuesAreSeqs'
  <1> SUFFICES ASSUME IInv, [Next]_vars PROVE TypeOK' /\ QueuesAreSeqs'
    OBVIOUS
  <1> USE Payloads
  <1>t. TypeOK /\ QueuesAreSeqs
    BY DEF IInv
  <1>1. CASE Latch
    BY <1>t, <1>1 DEF TypeOK, QueuesAreSeqs, Latch, caller, joiner
  <1>2. ASSUME NEW b \in Calls, BroadcastLooks(b) PROVE TypeOK' /\ QueuesAreSeqs'
    BY <1>t, <1>2 DEF TypeOK, QueuesAreSeqs, BroadcastLooks, joiner
  <1>3. ASSUME NEW b \in Calls, BroadcastMoves(b) PROVE TypeOK' /\ QueuesAreSeqs'
    BY <1>t, <1>3 DEF TypeOK, QueuesAreSeqs, BroadcastMoves, joiner
  <1>4. ASSUME NEW b \in Calls, BroadcastLatches(b) PROVE TypeOK' /\ QueuesAreSeqs'
    BY <1>t, <1>4 DEF TypeOK, QueuesAreSeqs, BroadcastLatches, joiner
  <1>5. ASSUME NEW b \in Calls, BroadcastFansOut(b) PROVE TypeOK' /\ QueuesAreSeqs'
    BY <1>t, <1>5 DEF TypeOK, QueuesAreSeqs, BroadcastFansOut, FanoutTo, joiner
  <1>6. ASSUME NEW b \in Calls, WhereFansOut(b) PROVE TypeOK' /\ QueuesAreSeqs'
    BY <1>t, <1>6 DEF TypeOK, QueuesAreSeqs, WhereFansOut, FanoutTo, joiner
  <1>7. ASSUME NEW b \in Calls, FanoutDone(b) PROVE TypeOK' /\ QueuesAreSeqs'
    BY <1>t, <1>7 DEF TypeOK, QueuesAreSeqs, FanoutDone, joiner
  <1>8. ASSUME NEW b \in Calls, NEW c \in Clients, FanoutSends(b, c)
        PROVE TypeOK' /\ QueuesAreSeqs'
    <2>1. TrySend(c, b)
      BY <1>8 DEF FanoutSends
    <2>2. /\ queue' \in [Clients -> Seq(Calls)]
          /\ dropped' \in [Clients -> BOOLEAN]
          /\ \A d \in Clients : Len(queue'[d]) <= QueueCap /\ ToSet(queue'[d]) \subseteq Calls
      BY <1>t, <2>1, TrySendEffect
    <2>3. todo' \in [Calls -> SUBSET clients']
      BY <1>t, <1>8 DEF TypeOK, FanoutSends
    <2>4. QED
      BY <1>t, <1>8, <2>2, <2>3 DEF TypeOK, QueuesAreSeqs, FanoutSends, joiner
  <1>9. ASSUME NEW c \in Clients, Register(c) PROVE TypeOK' /\ QueuesAreSeqs'
    BY <1>t, <1>9 DEF TypeOK, QueuesAreSeqs, Register, caller
  <1>10. ASSUME NEW c \in Clients, ReadLatch(c) PROVE TypeOK' /\ QueuesAreSeqs'
    BY <1>t, <1>10 DEF TypeOK, QueuesAreSeqs, ReadLatch, caller
  <1>11. ASSUME NEW c \in Clients, Replay(c) PROVE TypeOK' /\ QueuesAreSeqs'
    <2>1. CASE replay[c] \in Calls
      <3>1. TrySend(c, replay[c])
        BY <1>11, <2>1 DEF Replay
      <3>2. /\ queue' \in [Clients -> Seq(Calls)]
            /\ dropped' \in [Clients -> BOOLEAN]
            /\ \A d \in Clients : Len(queue'[d]) <= QueueCap /\ ToSet(queue'[d]) \subseteq Calls
        BY <1>t, <2>1, <3>1, TrySendEffect
      <3>3. QED
        BY <1>t, <1>11, <3>2 DEF TypeOK, QueuesAreSeqs, Replay, caller
    <2>2. CASE replay[c] \notin Calls
      BY <1>t, <1>11, <2>2 DEF TypeOK, QueuesAreSeqs, Replay, caller
    <2>3. QED
      BY <2>1, <2>2
  <1>12. CASE UNCHANGED vars
    BY <1>t, <1>12 DEF TypeOK, QueuesAreSeqs, vars, caller, joiner
  <1>13. QED
    BY <1>1, <1>2, <1>3, <1>4, <1>5, <1>6, <1>7, <1>8, <1>9, <1>10, <1>11, <1>12 DEF Next

\* A filtered payload is sent by the fanout of its own call alone.
LEMMA ScopeStep == IInv /\ [Next]_vars => ScopeKept' /\ ClientsExact'
  <1> SUFFICES ASSUME IInv, [Next]_vars PROVE ScopeKept' /\ ClientsExact'
    OBVIOUS
  <1> USE Payloads
  <1>t. TypeOK /\ QueuesAreSeqs /\ ScopeKept /\ ClientsExact
    BY DEF IInv
  <1>s. ASSUME NEW c \in Clients, NEW p \in Calls, TrySend(c, p), p \in Filtered => c \in Scope
        PROVE  FilteredStaysInScope'
    <2>1. /\ \A d \in Clients : d # c => queue'[d] = queue[d]
          /\ ToSet(queue'[c]) \subseteq ToSet(queue[c]) \cup {p}
      BY <1>t, <1>s, TrySendEffect
    <2>2. \A d \in Clients : ToSet(queue[d]) \cap Filtered # {} => d \in Scope
      BY <1>t DEF ScopeKept, FilteredStaysInScope
    <2>3. \A d \in Clients : ToSet(queue'[d]) \cap Filtered # {} => d \in Scope
      <3>1. SUFFICES ASSUME NEW d \in Clients, NEW q \in ToSet(queue'[d]), q \in Filtered
                     PROVE  d \in Scope
        OBVIOUS
      <3>2. CASE d # c
        BY <2>1, <2>2, <3>1, <3>2
      <3>3. CASE d = c
        BY <1>s, <2>1, <2>2, <3>1, <3>3
      <3>4. QED
        BY <3>2, <3>3
    <2>4. QED
      BY <2>3 DEF FilteredStaysInScope
  <1>1. CASE Latch
    BY <1>t, <1>1 DEF TypeOK, ScopeKept, FilteredStaysInScope, ClientsExact, Latch, caller, joiner
  <1>2. ASSUME NEW b \in Calls, BroadcastLooks(b) PROVE ScopeKept' /\ ClientsExact'
    BY <1>t, <1>2 DEF TypeOK, ScopeKept, FilteredStaysInScope, ClientsExact, BroadcastLooks, joiner
  <1>3. ASSUME NEW b \in Calls, BroadcastMoves(b) PROVE ScopeKept' /\ ClientsExact'
    BY <1>t, <1>3 DEF TypeOK, ScopeKept, FilteredStaysInScope, ClientsExact, BroadcastMoves, joiner
  <1>4. ASSUME NEW b \in Calls, BroadcastLatches(b) PROVE ScopeKept' /\ ClientsExact'
    BY <1>t, <1>4
    DEF TypeOK, ScopeKept, FilteredStaysInScope, ClientsExact, BroadcastLatches, joiner
  <1>5. ASSUME NEW b \in Calls, BroadcastFansOut(b) PROVE ScopeKept' /\ ClientsExact'
    BY <1>t, <1>5
    DEF TypeOK, ScopeKept, FilteredStaysInScope, ClientsExact, BroadcastFansOut, FanoutTo, joiner
  <1>6. ASSUME NEW b \in Calls, WhereFansOut(b) PROVE ScopeKept' /\ ClientsExact'
    BY <1>t, <1>6
    DEF TypeOK, ScopeKept, FilteredStaysInScope, ClientsExact, WhereFansOut, FanoutTo, joiner
  <1>7. ASSUME NEW b \in Calls, FanoutDone(b) PROVE ScopeKept' /\ ClientsExact'
    BY <1>t, <1>7 DEF TypeOK, ScopeKept, FilteredStaysInScope, ClientsExact, FanoutDone, joiner
  <1>8. ASSUME NEW b \in Calls, NEW c \in Clients, FanoutSends(b, c)
        PROVE ScopeKept' /\ ClientsExact'
    <2>1. TrySend(c, b) /\ (b \in Filtered => c \in Scope)
      BY <1>t, <1>8 DEF FanoutSends, ScopeKept
    <2>2. FilteredStaysInScope'
      BY <1>s, <2>1
    <2>3. \A d \in Calls : todo'[d] \subseteq todo[d]
      BY <1>t, <1>8 DEF TypeOK, FanoutSends
    <2>4. QED
      BY <1>t, <1>8, <2>2, <2>3 DEF ScopeKept, ClientsExact, FanoutSends, joiner
  <1>9. ASSUME NEW c \in Clients, Register(c) PROVE ScopeKept' /\ ClientsExact'
    BY <1>t, <1>9 DEF TypeOK, ScopeKept, FilteredStaysInScope, ClientsExact, Register, caller
  <1>10. ASSUME NEW c \in Clients, ReadLatch(c) PROVE ScopeKept' /\ ClientsExact'
    BY <1>t, <1>10 DEF TypeOK, ScopeKept, FilteredStaysInScope, ClientsExact, ReadLatch, caller
  <1>11. ASSUME NEW c \in Clients, Replay(c) PROVE ScopeKept' /\ ClientsExact'
    <2>1. FilteredStaysInScope'
      <3>1. CASE replay[c] \in Calls
        <4>1. TrySend(c, replay[c]) /\ replay[c] \notin Filtered
          BY <1>t, <1>11, <3>1 DEF Replay, ScopeKept
        <4>2. QED
          BY <1>s, <3>1, <4>1
      <3>2. CASE replay[c] \notin Calls
        BY <1>t, <1>11, <3>2 DEF Replay, ScopeKept, FilteredStaysInScope
      <3>3. QED
        BY <3>1, <3>2
    <2>2. QED
      BY <1>t, <1>11, <2>1 DEF TypeOK, ScopeKept, ClientsExact, Replay, caller
  <1>12. CASE UNCHANGED vars
    BY <1>t, <1>12 DEF ScopeKept, FilteredStaysInScope, ClientsExact, vars, caller, joiner
  <1>13. QED
    BY <1>1, <1>2, <1>3, <1>4, <1>5, <1>6, <1>7, <1>8, <1>9, <1>10, <1>11, <1>12 DEF Next

\* A call that has latched its payload and not begun its fanout will reach every
\* registered client; one that registers later reads the latch after that.
LEMMA DueStep == IInv /\ [Next]_vars => NobodyForgotten'
  <1> SUFFICES ASSUME IInv, [Next]_vars PROVE NobodyForgotten'
    OBVIOUS
  <1> USE Payloads
  <1>t. TypeOK /\ QueuesAreSeqs /\ ClientsExact /\ NobodyForgotten
    BY DEF IInv
  <1>1. CASE Latch
    BY <1>t, <1>1 DEF TypeOK, NobodyForgotten, Due, Latch, caller, joiner
  <1>2. ASSUME NEW b \in Calls, BroadcastLooks(b) PROVE NobodyForgotten'
    BY <1>t, <1>2 DEF TypeOK, ClientsExact, NobodyForgotten, Due, BroadcastLooks, Starts, joiner
  <1>3. ASSUME NEW b \in Calls, BroadcastMoves(b) PROVE NobodyForgotten'
    BY <1>t, <1>3 DEF TypeOK, ClientsExact, NobodyForgotten, Due, BroadcastMoves, joiner
  <1>4. ASSUME NEW b \in Calls, BroadcastLatches(b) PROVE NobodyForgotten'
    BY <1>t, <1>4 DEF TypeOK, ClientsExact, NobodyForgotten, Due, BroadcastLatches, joiner
  <1>5. ASSUME NEW b \in Calls, BroadcastFansOut(b) PROVE NobodyForgotten'
    BY <1>t, <1>5 DEF TypeOK, ClientsExact, NobodyForgotten, Due, BroadcastFansOut, FanoutTo, joiner
  <1>6. ASSUME NEW b \in Calls, WhereFansOut(b) PROVE NobodyForgotten'
    BY <1>t, <1>6 DEF TypeOK, ClientsExact, NobodyForgotten, Due, WhereFansOut, Starts, FanoutTo, joiner
  <1>7. ASSUME NEW b \in Calls, FanoutDone(b) PROVE NobodyForgotten'
    BY <1>t, <1>7 DEF TypeOK, ClientsExact, NobodyForgotten, Due, FanoutDone, joiner
  <1>8. ASSUME NEW b \in Calls, NEW c \in Clients, FanoutSends(b, c) PROVE NobodyForgotten'
    <2>1. TrySend(c, b)
      BY <1>8 DEF FanoutSends
    <2>2. /\ \A d \in Clients : d # c => queue'[d] = queue[d] /\ dropped'[d] = dropped[d]
          /\ ToSet(queue[c]) \subseteq ToSet(queue'[c])
          /\ dropped[c] => dropped'[c]
          /\ dropped'[c] \/ b \in ToSet(queue'[c])
      BY <1>t, <2>1, TrySendEffect
    <2>3. /\ \A e \in Calls : e # b => todo'[e] = todo[e]
          /\ todo'[b] = todo[b] \ {c}
      BY <1>t, <1>8 DEF TypeOK, FanoutSends
    <2>4. SUFFICES ASSUME latched \in Calls, NEW d \in clients PROVE Due(d)'
      BY <1>8 DEF FanoutSends, NobodyForgotten
    <2>5. Due(d) /\ d \in Clients
      BY <1>t, <2>4 DEF TypeOK, NobodyForgotten
    <2>6. CASE d # c
      BY <1>8, <2>2, <2>3, <2>4, <2>5, <2>6 DEF Due, FanoutSends, joiner
    <2>7. CASE d = c
      BY <1>8, <2>2, <2>3, <2>4, <2>5, <2>7 DEF Due, FanoutSends, joiner
    <2>8. QED
      BY <2>6, <2>7
  <1>9. ASSUME NEW c \in Clients, Register(c) PROVE NobodyForgotten'
    BY <1>t, <1>9 DEF TypeOK, ClientsExact, NobodyForgotten, Due, Register, caller
  <1>10. ASSUME NEW c \in Clients, ReadLatch(c) PROVE NobodyForgotten'
    BY <1>t, <1>10 DEF TypeOK, ClientsExact, NobodyForgotten, Due, ReadLatch, caller
  <1>11. ASSUME NEW c \in Clients, Replay(c) PROVE NobodyForgotten'
    <2>1. SUFFICES ASSUME latched \in Calls, NEW d \in clients PROVE Due(d)'
      BY <1>11 DEF Replay, NobodyForgotten
    <2>2. Due(d) /\ d \in Clients
      BY <1>t, <2>1 DEF TypeOK, NobodyForgotten
    <2>3. CASE replay[c] \in Calls
      <3>1. TrySend(c, replay[c])
        BY <1>11, <2>3 DEF Replay
      <3>2. /\ \A e \in Clients : e # c => queue'[e] = queue[e] /\ dropped'[e] = dropped[e]
            /\ ToSet(queue[c]) \subseteq ToSet(queue'[c])
            /\ dropped[c] => dropped'[c]
            /\ dropped'[c] \/ replay[c] \in ToSet(queue'[c])
        BY <1>t, <2>3, <3>1, TrySendEffect
      <3>3. CASE d # c
        BY <1>t, <1>11, <2>1, <2>2, <3>2, <3>3 DEF TypeOK, Due, Replay, caller
      <3>4. CASE d = c
        BY <1>11, <2>1, <2>2, <3>2, <3>4 DEF Due, Replay, caller
      <3>5. QED
        BY <3>3, <3>4
    <2>4. CASE replay[c] \notin Calls
      BY <1>t, <1>11, <2>1, <2>2, <2>4 DEF TypeOK, Due, Replay, caller
    <2>5. QED
      BY <2>3, <2>4
  <1>12. CASE UNCHANGED vars
    BY <1>t, <1>12 DEF NobodyForgotten, Due, vars, caller, joiner
  <1>13. QED
    BY <1>1, <1>2, <1>3, <1>4, <1>5, <1>6, <1>7, <1>8, <1>9, <1>10, <1>11, <1>12 DEF Next

\* The inductive invariant holds in every reachable state.
LEMMA Inductive == Spec => []IInv
  <1>1. IInv /\ [Next]_vars => IInv'
    BY TypeStep, ScopeStep, DueStep DEF IInv
  <1>2. QED
    BY InitIInv, <1>1, PTL DEF Spec

-----------------------------------------------------------------------------

\* However joins, latches, broadcasts and filtered broadcasts interleave, every
\* queue stays within its capacity and a filtered payload never reaches a client
\* outside its predicate, for any number of clients and calls.
THEOREM LatchSafe == Spec => []LatchInv
  <1>1. IInv => LatchInv
    BY DEF IInv, ScopeKept, LatchInv
  <1>2. QED
    BY Inductive, <1>1, PTL

\* No gap between replay and broadcast: when no call is under way, a client that
\* has joined and lost nothing to a full queue holds the latched payload.
THEOREM NothingMissed == Spec => []LatestNeverMissed
  <1>1. IInv => LatestNeverMissed
    <2>1. SUFFICES ASSUME IInv, NEW c \in Clients, Settled(c), latched \in Calls, ~dropped[c]
                   PROVE  latched \in ToSet(queue[c])
      BY DEF LatestNeverMissed
    <2>2. call[latched] \in {"new", "done"} /\ join[c] = "joined"
      BY <2>1 DEF Settled, InFlight
    <2>3. c \in clients
      BY <2>1, <2>2 DEF IInv, ClientsExact
    <2>4. Due(c)
      BY <2>1, <2>3 DEF IInv, NobodyForgotten
    <2>5. QED
      BY <2>1, <2>2, <2>4 DEF Due
  <1>2. QED
    BY Inductive, <1>1, PTL

-----------------------------------------------------------------------------
(* The snapshot lane                                                       *)

\* The epoch of the last baseline that left the lane: in the hand or on the wire.
Committed == IF pc = "write" /\ frame.kind = "baseline" THEN frame.epoch ELSE sent

\* The writer holds a frame exactly while it writes one.
HoldsFrame == (pc = "write") => frame # None

\* The lane never falls behind what left it, and a pending baseline is a new one.
Ordered ==
    /\ pc # "gone" /\ snapshot # None =>
          IF snapshot.baseline THEN Committed < snapshot.epoch
                               ELSE Committed = snapshot.epoch
    /\ pc # "gone" /\ snapshot = None /\ ~closed => Committed = 0

LaneInv ==
    /\ Lane!LaneParameters /\ Lane!TypeOK /\ HoldsFrame /\ Ordered
    /\ Lane!BaselineBeforeDelta /\ Lane!EpochsNeverGoBack /\ Lane!NoLostWake

-----------------------------------------------------------------------------

\* An epoch is a positive integer, and None is neither a lane nor a frame.
LEMMA Domains ==
    Lane!LaneParameters =>
    /\ \A e \in Lane!Epochs : e \in Int /\ e > 0
    /\ \A s \in Lane!Lanes : s # None /\ s.epoch \in Lane!Epochs /\ s.baseline \in BOOLEAN
                               /\ s.delta \in Lane!Payloads
    /\ \A f \in Lane!Frames : f # None /\ f.kind \in {"reliable", "baseline", "delta"}
                               /\ (f.kind # "reliable" => f.epoch \in Lane!Epochs)
BY DEF Lane!LaneParameters, Lane!Epochs, Lane!Lanes, Lane!Frames

\* The writer starts with an empty lane and an empty wire.
LEMMA InitLaneInv == Lane!LaneParameters /\ Lane!Init => LaneInv
<1> SUFFICES ASSUME Lane!LaneParameters, Lane!Init PROVE LaneInv
  OBVIOUS
<1>1. Lane!TypeOK
  <2>1. ready \in 0..QueueCap /\ sent \in 0..MaxEpoch
    BY DEF Lane!LaneParameters, Lane!Init
  <2>2. QED
    BY <2>1 DEF Lane!Init, Lane!TypeOK, Lane!Payloads
<1>2. HoldsFrame /\ Ordered
  BY DEF Lane!Init, HoldsFrame, Ordered, Committed
<1>3. Lane!BaselineBeforeDelta /\ Lane!EpochsNeverGoBack /\ Lane!NoLostWake
  BY DEF Lane!Init, Lane!BaselineBeforeDelta, Lane!EpochsNeverGoBack, Lane!NoLostWake,
      Lane!Pending
<1>4. QED BY <1>1, <1>2, <1>3 DEF LaneInv

\* An offer changes only the lane: it keeps it ahead of what has left it.
LEMMA OfferKeeps ==
    ASSUME LaneInv, NEW e \in Lane!Epochs, NEW d \in Lane!Payloads, Lane!Offer(e, d)
    PROVE LaneInv'
<1>1. Lane!Offered(e, d) \in Lane!Lanes
  BY Domains DEF LaneInv, Lane!TypeOK, Lane!Offered, Lane!Lanes, Lane!Offer
<1>2. Lane!TypeOK'
  BY <1>1 DEF LaneInv, Lane!TypeOK, Lane!Offer, Lane!WakeLocked, Lane!Pending,
      Lane!Lanes, Lane!writer
<1>3. Lane!NoLostWake'
  BY DEF LaneInv, Lane!NoLostWake, Lane!Offer, Lane!WakeLocked, Lane!writer
<1>4. Committed' = Committed /\ pc' = pc /\ frame' = frame /\ sent' = sent
  BY DEF Lane!Offer, Lane!writer, Committed
<1>5. Committed \in Int
  BY Domains DEF LaneInv, Lane!TypeOK, HoldsFrame, Committed
<1>6. Ordered'
  <2>1. snapshot' # None /\ closed' = FALSE /\ snapshot' = Lane!Offered(e, d)
    BY <1>1, Domains DEF Lane!Offer, LaneInv, Lane!TypeOK
  <2>2. CASE snapshot = None \/ e > snapshot.epoch
    BY <2>1, <2>2, <1>4, <1>5, Domains
    DEF Lane!Offered, LaneInv, Lane!TypeOK, Ordered, Lane!Offer
  <2>3. CASE ~(snapshot = None \/ e > snapshot.epoch)
    BY <2>1, <2>3, <1>4, <1>5, Domains
    DEF Lane!Offered, LaneInv, Lane!TypeOK, Ordered, Lane!Offer, Lane!Lanes
  <2>4. QED BY <2>2, <2>3
<1>7. QED
  BY <1>2, <1>3, <1>4, <1>6
  DEF LaneInv, HoldsFrame, Lane!BaselineBeforeDelta, Lane!EpochsNeverGoBack

\* Taking a frame out of the lane commits its epoch.
LEMMA TakeKeeps == LaneInv /\ Lane!TakeSnapshot => LaneInv'
<1> SUFFICES ASSUME LaneInv, Lane!TakeSnapshot PROVE LaneInv'
  OBVIOUS
<1> USE Domains
<1>1. snapshot \in Lane!Lanes
  BY DEF LaneInv, Lane!TypeOK, Lane!TakeSnapshot, Lane!Pending
<1>2. /\ Lane!FrameOf(snapshot, snapshot.baseline) \in Lane!Frames
      /\ Lane!Without(snapshot, snapshot.baseline) \in Lane!Lanes
  BY <1>1 DEF Lane!LaneParameters, Lane!FrameOf, Lane!Without, Lane!Frames, Lane!Lanes,
      Lane!Payloads
<1>3. Lane!TypeOK'
  BY <1>2 DEF LaneInv, Lane!TypeOK, Lane!TakeSnapshot, Lane!WakeLocked, Lane!Pending
<1>4. Lane!NoLostWake'
  BY DEF Lane!NoLostWake, Lane!TakeSnapshot, Lane!WakeLocked
<1>5. HoldsFrame'
  BY <1>2 DEF LaneInv, HoldsFrame, Lane!TakeSnapshot
<1>6. Committed = sent
  BY DEF Lane!TakeSnapshot, Committed
<1>7. CASE snapshot.baseline
  BY <1>1, <1>2, <1>3, <1>4, <1>5, <1>6, <1>7
  DEF LaneInv, Lane!TypeOK, Ordered, Committed, Lane!BaselineBeforeDelta,
      Lane!EpochsNeverGoBack,
      Lane!TakeSnapshot, Lane!FrameOf, Lane!Without, Lane!Lanes
<1>8. CASE ~snapshot.baseline
  BY <1>1, <1>2, <1>3, <1>4, <1>5, <1>6, <1>8
  DEF LaneInv, Lane!TypeOK, Ordered, Committed, Lane!BaselineBeforeDelta,
      Lane!EpochsNeverGoBack,
      Lane!TakeSnapshot, Lane!FrameOf, Lane!Without, Lane!Lanes
<1>9. QED BY <1>1, <1>7, <1>8

\* The end of a write moves the epoch from the writer's hand to the wire.
LEMMA WrittenKeeps == LaneInv /\ Lane!Written => LaneInv'
<1> SUFFICES ASSUME LaneInv, Lane!Written PROVE LaneInv'
  OBVIOUS
<1> USE Domains
<1>1. frame \in Lane!Frames
  BY DEF LaneInv, Lane!TypeOK, HoldsFrame, Lane!Written
<1>2. Lane!TypeOK'
  BY <1>1 DEF LaneInv, Lane!TypeOK, Lane!Written, Lane!NextPrefer, Lane!lane, Lane!Epochs
<1>3. Committed' = Committed
  BY <1>1 DEF Lane!Written, Committed
<1>4. Ordered'
  BY <1>3 DEF LaneInv, Ordered, Lane!Written, Lane!lane
<1>5. QED
  BY <1>2, <1>4
  DEF LaneInv, HoldsFrame, Lane!BaselineBeforeDelta, Lane!EpochsNeverGoBack,
      Lane!NoLostWake, Lane!Pending,
      Lane!Written, Lane!lane

\* Every other step of the writer, of a sender or of the reader leaves the order of
\* the epochs alone.
LEMMA OthersKeep ==
    ASSUME LaneInv,
           \/ Lane!Enqueue \/ Lane!RemoveClient
           \/ Lane!TurnReliable \/ Lane!TurnSnapshot \/ Lane!TurnPasses
           \/ Lane!SelectReliable \/ Lane!SelectSnapshot \/ Lane!SelectTick \/ Lane!TakeNothing
           \/ Lane!WriterFails \/ UNCHANGED Lane!vars
    PROVE LaneInv'
<1> USE Domains
<1>1. CASE Lane!Enqueue
  BY <1>1 DEF Lane!LaneParameters, Lane!Enqueue, LaneInv, Lane!TypeOK, HoldsFrame,
      Ordered, Committed, Lane!BaselineBeforeDelta,
      Lane!EpochsNeverGoBack, Lane!NoLostWake, Lane!Pending, Lane!lane, Lane!writer
<1>2. CASE Lane!RemoveClient
  BY <1>2 DEF Lane!RemoveClient, LaneInv, Lane!TypeOK, HoldsFrame, Ordered, Committed,
      Lane!BaselineBeforeDelta, Lane!EpochsNeverGoBack, Lane!NoLostWake, Lane!Pending,
      Lane!writer
<1>3. CASE Lane!TurnReliable \/ Lane!SelectReliable
  <2>1. [kind |-> "reliable"] \in Lane!Frames
    BY DEF Lane!Frames
  <2>2. CASE Lane!TakeReliable
    BY <1>3, <2>1, <2>2 DEF Lane!LaneParameters, Lane!TurnReliable, Lane!SelectReliable,
        Lane!TakeReliable, LaneInv, Lane!TypeOK,
        HoldsFrame, Ordered, Committed, Lane!BaselineBeforeDelta, Lane!EpochsNeverGoBack,
        Lane!NoLostWake, Lane!Pending, Lane!lane
  <2>3. CASE Lane!TakeClosed
    BY <1>3, <2>3 DEF Lane!TurnReliable, Lane!SelectReliable, Lane!TakeClosed, LaneInv,
        Lane!TypeOK,
        HoldsFrame, Ordered, Committed, Lane!BaselineBeforeDelta, Lane!EpochsNeverGoBack,
        Lane!NoLostWake, Lane!Pending, Lane!lane
  <2>4. QED BY <1>3, <2>2, <2>3 DEF Lane!TurnReliable, Lane!SelectReliable
<1>4. CASE Lane!TurnSnapshot \/ Lane!SelectSnapshot
  BY <1>4 DEF Lane!TurnSnapshot, Lane!SelectSnapshot, Lane!TakeWake, LaneInv,
      Lane!TypeOK, HoldsFrame, Ordered,
      Committed, Lane!BaselineBeforeDelta, Lane!EpochsNeverGoBack, Lane!NoLostWake,
      Lane!Pending
<1>5. CASE Lane!TurnPasses \/ Lane!SelectTick
  BY <1>5 DEF Lane!TurnPasses, Lane!SelectTick, LaneInv, Lane!TypeOK, HoldsFrame, Ordered,
      Committed, Lane!BaselineBeforeDelta, Lane!EpochsNeverGoBack, Lane!NoLostWake,
      Lane!Pending, Lane!lane
<1>6. CASE Lane!TakeNothing
  BY <1>6 DEF Lane!TakeNothing, LaneInv, Lane!TypeOK, HoldsFrame, Ordered,
      Committed, Lane!BaselineBeforeDelta, Lane!EpochsNeverGoBack, Lane!NoLostWake,
      Lane!Pending, Lane!lane
<1>7. CASE Lane!WriterFails
  BY <1>7 DEF Lane!WriterFails, LaneInv, Lane!TypeOK, HoldsFrame, Ordered,
      Committed, Lane!BaselineBeforeDelta, Lane!EpochsNeverGoBack, Lane!NoLostWake,
      Lane!Pending, Lane!lane
<1>8. CASE UNCHANGED Lane!vars
  BY <1>8 DEF Lane!vars, Lane!lane, Lane!writer, LaneInv, Lane!TypeOK, HoldsFrame, Ordered,
      Committed, Lane!BaselineBeforeDelta, Lane!EpochsNeverGoBack, Lane!NoLostWake,
      Lane!Pending
<1>9. QED BY <1>1, <1>2, <1>3, <1>4, <1>5, <1>6, <1>7, <1>8

\* The lane keeps its types, never loses a wake-up, and puts epochs on the wire in
\* order, each delta after its own baseline, whatever the producers offer and
\* whenever the client leaves.
THEOREM SnapshotOrder ==
  ASSUME Lane!LaneParameters
  PROVE  Lane!Spec => []Lane!SnapshotInv
<1>1. LaneInv /\ [Lane!Next]_(Lane!vars) => LaneInv'
  BY OfferKeeps, TakeKeeps, WrittenKeeps, OthersKeep DEF Lane!Next, Lane!WriterStep
<1>2. LaneInv => Lane!SnapshotInv
  BY DEF LaneInv, Lane!SnapshotInv
<1>3. QED
  BY InitLaneInv, <1>1, <1>2, PTL DEF Lane!Spec

\* A delta in the lane is the newest one accepted.
LaneHoldsNewest == snapshot # None /\ snapshot.delta # None => snapshot.delta = newest

\* Nothing but an offer puts a delta into the lane.
LEMMA NewestKept == LaneInv /\ LaneHoldsNewest /\ [Lane!Next]_(Lane!vars) => LaneHoldsNewest'
<1> SUFFICES ASSUME LaneInv, LaneHoldsNewest, [Lane!Next]_(Lane!vars) PROVE LaneHoldsNewest'
  OBVIOUS
<1> USE Domains DEF LaneHoldsNewest
<1>1. ASSUME NEW e \in Lane!Epochs, NEW d \in Lane!Payloads, Lane!Offer(e, d)
      PROVE  LaneHoldsNewest'
  BY <1>1 DEF Lane!Offer, Lane!Offered, LaneInv, Lane!TypeOK, Lane!Lanes
<1>2. CASE Lane!TakeSnapshot
  BY <1>2 DEF Lane!TakeSnapshot, Lane!Without, Lane!Pending, LaneInv, Lane!TypeOK,
      Lane!Lanes
<1>3. CASE Lane!RemoveClient
  BY <1>3 DEF Lane!RemoveClient
<1>4. CASE UNCHANGED Lane!lane
  BY <1>4 DEF Lane!lane
<1>5. CASE Lane!TurnSnapshot \/ Lane!SelectSnapshot
  BY <1>5 DEF Lane!TurnSnapshot, Lane!SelectSnapshot, Lane!TakeWake
<1>6. QED
  BY <1>1, <1>2, <1>3, <1>4, <1>5
  DEF Lane!Next, Lane!WriterStep, Lane!vars, Lane!Enqueue, Lane!TurnReliable,
      Lane!SelectReliable, Lane!TakeReliable,
      Lane!TakeClosed, Lane!TurnPasses, Lane!SelectTick, Lane!TakeNothing, Lane!Written,
      Lane!WriterFails

\* A delta the writer takes is the newest one accepted for its epoch: an older one
\* has been replaced in the lane, never queued behind it.
THEOREM NewestDelta ==
  ASSUME Lane!LaneParameters
  PROVE  Lane!Spec => Lane!NewestDeltaWins
<1> DEFINE Fresh == frame' # frame /\ frame' # None /\ frame'.kind = "delta"
                        => frame'.delta = newest
<1>1. Lane!Init => LaneHoldsNewest
  BY DEF Lane!Init, LaneHoldsNewest
<1>2. LaneInv /\ LaneHoldsNewest /\ [Lane!Next]_(Lane!vars) => [Fresh]_(Lane!vars)
  <2> SUFFICES ASSUME LaneInv, LaneHoldsNewest, Lane!Next PROVE Fresh
    OBVIOUS
  <2>1. CASE Lane!TakeSnapshot
    BY <2>1, Domains
    DEF Lane!TakeSnapshot, Lane!FrameOf, Lane!Pending, LaneHoldsNewest, LaneInv, Lane!TypeOK
  <2>2. CASE frame' = frame \/ frame' = None
    BY <2>2
  <2>3. CASE Lane!TurnReliable \/ Lane!SelectReliable
    BY <2>3 DEF Lane!TurnReliable, Lane!SelectReliable, Lane!TakeReliable, Lane!TakeClosed
  <2>4. QED
    BY <2>1, <2>2, <2>3
    DEF Lane!Next, Lane!WriterStep, Lane!Offer, Lane!Enqueue, Lane!RemoveClient,
        Lane!writer, Lane!TurnSnapshot,
        Lane!SelectSnapshot, Lane!TakeWake, Lane!TurnPasses, Lane!SelectTick,
        Lane!TakeNothing, Lane!Written, Lane!WriterFails
<1>3. LaneInv /\ [Lane!Next]_(Lane!vars) => LaneInv'
  BY OfferKeeps, TakeKeeps, WrittenKeeps, OthersKeep DEF Lane!Next, Lane!WriterStep
<1>4. QED
  BY InitLaneInv, NewestKept, <1>1, <1>2, <1>3, PTL DEF Lane!Spec, Lane!NewestDeltaWins
=============================================================================
