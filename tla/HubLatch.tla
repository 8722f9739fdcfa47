------------------------------- MODULE HubLatch -------------------------------
(***************************************************************************)
(* Package hub: a latched topic, its broadcasts and the replay to a client *)
(* that joins.                                                             *)
(*                                                                         *)
(* h.latched and h.clients are under different locks, and each client's    *)
(* queue is under its own, so Broadcast (latch, then fan out) and          *)
(* ServeHTTPWithMetadata (register, read the latch, then enqueue) overlap  *)
(* in several steps.  fanout holds h.mu for reading throughout: clients    *)
(* cannot register meanwhile.  A payload is the call that broadcasts it.   *)
(* Leaving and welcoming are in Hub; the writer, which could only make     *)
(* room in a queue, is left out, so a queue holds all a client was sent.   *)
(***************************************************************************)
EXTENDS Integers, FiniteSets, Sequences, SequencesExt

CONSTANTS
    Clients,     \* joining clients
    Calls,       \* calls of Broadcast and BroadcastWhere on the topic
    Filtered,    \* the calls of BroadcastWhere
    Scope,       \* the clients its predicate accepts
    QueueCap,    \* slots of Client.send
    Serialized,  \* the application makes one call at a time
    Undeclared, Empty  \* states of the latch without a payload

ASSUME LatchAssumption ==
    /\ Filtered \subseteq Calls /\ Scope \subseteq Clients /\ QueueCap \in Nat \ {0}
    /\ Serialized \in BOOLEAN /\ Undeclared # Empty /\ {Undeclared, Empty} \cap Calls = {}

VARIABLES
    latched,   \* h.latched[topic]: Undeclared, Empty (nil) or a payload
    clients,   \* h.clients
    queue,     \* payloads of the topic enqueued to each client so far
    dropped,   \* the client lost a payload to a full queue
    call,      \* where each call is
    known,     \* whether it saw the topic declared
    todo,      \* clients its fanout has still to visit
    join,      \* where each join is
    replay     \* the payload its replay has read

caller == <<call, known, todo>>
joiner == <<join, replay>>
vars == <<latched, clients, queue, dropped, caller, joiner>>

InFlight == {b \in Calls : call[b] \notin {"new", "done"}}
FanningOut == {b \in Calls : call[b] = "fanout"}

Init ==
    /\ latched = Undeclared /\ clients = {}
    /\ queue = [c \in Clients |-> <<>>]
    /\ dropped = [c \in Clients |-> FALSE]
    /\ call = [b \in Calls |-> "new"]
    /\ known = [b \in Calls |-> FALSE]
    /\ todo = [b \in Calls |-> {}]
    /\ join = [c \in Clients |-> "new"]
    /\ replay = [c \in Clients |-> Empty]

\* trySend: non-blocking, a full queue drops the payload.
TrySend(c, p) ==
    IF Len(queue[c]) < QueueCap
    THEN queue' = [queue EXCEPT ![c] = Append(@, p)] /\ UNCHANGED dropped
    ELSE dropped' = [dropped EXCEPT ![c] = TRUE] /\ UNCHANGED queue

\* Latch: idempotent.
Latch ==
    /\ latched = Undeclared
    /\ latched' = Empty
    /\ UNCHANGED <<clients, queue, dropped, caller, joiner>>

-----------------------------------------------------------------------------
(* Broadcast and BroadcastWhere                                            *)

Starts(b) ==
    /\ call[b] = "new"
    /\ Serialized => InFlight = {}

\* Broadcast looks whether the topic is latched ...
BroadcastLooks(b) ==
    /\ Starts(b) /\ b \notin Filtered
    /\ known' = [known EXCEPT ![b] = latched # Undeclared]
    /\ call' = [call EXCEPT ![b] = "look"]
    /\ UNCHANGED <<latched, clients, queue, dropped, todo, joiner>>

\* ... and returns early if it is not and nobody is connected.
BroadcastMoves(b) ==
    /\ call[b] = "look"
    /\ call' = [call EXCEPT ![b] = IF clients = {} /\ ~known[b] THEN "done" ELSE "latch"]
    /\ UNCHANGED <<latched, clients, queue, dropped, known, todo, joiner>>

\* Start of fanout: h.mu.RLock, over all clients or those the predicate accepts.
FanoutTo(b, S) ==
    /\ call' = [call EXCEPT ![b] = "fanout"]
    /\ todo' = [todo EXCEPT ![b] = S]

\* The latch is updated before the fanout, if the topic is declared by now.
BroadcastLatches(b) ==
    /\ call[b] = "latch"
    /\ latched' = IF latched = Undeclared THEN latched ELSE b
    /\ call' = [call EXCEPT ![b] = "latched"]
    /\ UNCHANGED <<clients, queue, dropped, known, todo, joiner>>

BroadcastFansOutToJoined(b) ==
    /\ call[b] = "latched"
    /\ FanoutTo(b, {c \in clients : join[c] = "joined"})
    /\ UNCHANGED <<latched, clients, queue, dropped, known, joiner>>

\* Every registered client is sent the payload, one still joining too.
BroadcastFansOut(b) ==
    /\ call[b] = "latched"
    /\ FanoutTo(b, clients)
    /\ UNCHANGED <<latched, clients, queue, dropped, known, joiner>>

WhereFansOutLatched(b) ==
    /\ Starts(b) /\ b \in Filtered
    /\ FanoutTo(b, clients \cap Scope)
    /\ latched' = IF latched = Undeclared THEN latched ELSE b
    /\ UNCHANGED <<clients, queue, dropped, known, joiner>>

\* BroadcastWhere goes straight to its fanout: a filtered payload is not latched.
WhereFansOut(b) ==
    /\ Starts(b) /\ b \in Filtered
    /\ FanoutTo(b, clients \cap Scope)
    /\ UNCHANGED <<latched, clients, queue, dropped, known, joiner>>

FanoutSends(b, c) ==
    /\ call[b] = "fanout" /\ c \in todo[b]
    /\ TrySend(c, b)
    /\ todo' = [todo EXCEPT ![b] = @ \ {c}]
    /\ UNCHANGED <<latched, clients, call, known, joiner>>

\* h.mu.RUnlock; the observers' callbacks are in HubObservers.
FanoutDone(b) ==
    /\ call[b] = "fanout" /\ todo[b] = {}
    /\ call' = [call EXCEPT ![b] = "done"]
    /\ UNCHANGED <<latched, clients, queue, dropped, known, todo, joiner>>

-----------------------------------------------------------------------------
(* Joining                                                                 *)

\* h.clients[clientID] = client, under h.mu for writing.
Register(c) ==
    /\ join[c] = "new" /\ FanningOut = {}
    /\ clients' = clients \cup {c}
    /\ join' = [join EXCEPT ![c] = "registered"]
    /\ UNCHANGED <<latched, queue, dropped, caller, replay>>

\* The payloads to replay are collected under latchedMu ...
ReadLatch(c) ==
    /\ join[c] = "registered"
    /\ replay' = [replay EXCEPT ![c] = latched]
    /\ join' = [join EXCEPT ![c] = "replay"]
    /\ UNCHANGED <<latched, clients, queue, dropped, caller>>

\* ... and enqueued after it is released.
Replay(c) ==
    /\ join[c] = "replay"
    /\ IF replay[c] \in Calls THEN TrySend(c, replay[c]) ELSE UNCHANGED <<queue, dropped>>
    /\ join' = [join EXCEPT ![c] = "joined"]
    /\ UNCHANGED <<latched, clients, caller, replay>>

-----------------------------------------------------------------------------

Next ==
    \/ Latch
    \/ \E b \in Calls :
          \/ BroadcastLooks(b) \/ BroadcastMoves(b) \/ BroadcastLatches(b)
          \/ BroadcastFansOut(b) \/ WhereFansOut(b) \/ FanoutDone(b)
          \/ \E c \in Clients : FanoutSends(b, c)
    \/ \E c \in Clients : Register(c) \/ ReadLatch(c) \/ Replay(c)

Spec == Init /\ [][Next]_vars

-----------------------------------------------------------------------------
(* Properties                                                              *)

\* Every variable keeps its type.
TypeOK ==
    /\ latched \in Calls \cup {Undeclared, Empty} /\ clients \subseteq Clients
    /\ \A c \in Clients : ToSet(queue[c]) \subseteq Calls /\ Len(queue[c]) <= QueueCap
    /\ dropped \in [Clients -> BOOLEAN] /\ known \in [Calls -> BOOLEAN]
    /\ call \in [Calls -> {"new", "look", "latch", "latched", "fanout", "done"}]
    /\ todo \in [Calls -> SUBSET clients]
    /\ join \in [Clients -> {"new", "registered", "replay", "joined"}]
    /\ replay \in [Clients -> Calls \cup {Undeclared, Empty}]

\* A client that has joined, when no call is under way.
Settled(c) == join[c] = "joined" /\ InFlight = {}

\* No gap between replay and broadcast: once things settle, a client that lost
\* nothing to a full queue has been sent the latched payload, whichever way its
\* registration fell between the latch and the fanout of the call.
LatestNeverMissed ==
    \A c \in Clients :
        Settled(c) /\ latched \in Calls /\ ~dropped[c] => latched \in ToSet(queue[c])

\* "Replaying one scoped payload to a later unauthorized client would cross the
\* authorization boundary": a filtered payload stays inside its predicate.
FilteredStaysInScope ==
    \A c \in Clients : ToSet(queue[c]) \cap Filtered # {} => c \in Scope

\* However joins and broadcasts interleave: queues within their capacity, and no
\* filtered payload with a client outside its predicate, live or replayed.
LatchInv == TypeOK /\ FilteredStaysInScope

\* "Replay latched payloads to this client so it sees current state": once things
\* settle, the last payload the client was sent is the latched one.
ReplayIsCurrent ==
    \A c \in Clients :
        Settled(c) /\ latched \in Calls /\ ~dropped[c] /\ Filtered = {} =>
            Last(queue[c]) = latched
=============================================================================
