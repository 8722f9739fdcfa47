--------------------------------- MODULE Hub ---------------------------------
(***************************************************************************)
(* Package hub: the life of WebSocket clients on a hub and its shutdown.   *)
(*                                                                         *)
(* A connection is served by the goroutine of its HTTP handler (serve),    *)
(* which reserves a slot, upgrades, registers the client and greets it,    *)
(* and then by two pumps (reader, writer).  Any goroutine may broadcast,   *)
(* disconnect a client or close the hub.  A section under h.mu or c.mu is  *)
(* one atomic step.  What the messages say is in HubLatch and HubSnapshot, *)
(* here only how many are queued; the socket is external: a read or write  *)
(* may fail at any time and fails once the connection is closed.           *)
(***************************************************************************)
EXTENDS Integers, FiniteSets

CONSTANTS
    Conns,       \* upgrade requests, each with its goroutines
    Limits,      \* values of Hub.MaxClients, 0 for unlimited
    QueueCap,    \* slots of Client.send (256 in the code)
    MaxCasts     \* bounds the number of messages broadcast

ASSUME HubAssumption ==
    /\ IsFiniteSet(Conns)
    /\ Limits \subseteq Nat /\ MaxCasts \in Nat /\ QueueCap \in Nat \ {0}

VARIABLES
    clients,            \* h.clients
    pendingClients,     \* h.pendingClients
    pumps,              \* h.pumps
    closing,            \* h.closing
    closingConnections, \* h.closingConnections
    finalizing,         \* h.finalizing
    closeDone,          \* h.closeDone is closed
    toClose,            \* clients closeConnections has still to close
    closer,             \* where the goroutine of closeConnections is
    presence,           \* h.presence.members
    serve,              \* where the handler of each request is
    reader, writer,     \* where the pumps of each client are
    conn,               \* the socket
    closed,             \* Client.closed; send and binarySend are closed with it
    queue,              \* messages in Client.send
    casts,              \* messages broadcast so far
    maxClients          \* h.MaxClients, set before the hub is used

registry == <<clients, pendingClients, pumps>>
shutdown == <<closing, closingConnections, finalizing, closeDone, toClose, closer>>
traffic == <<queue, casts>>
vars == <<registry, shutdown, presence, serve, reader, writer, conn, closed, traffic>>

ServeStates == {"new", "reserved", "failed", "refused", "rejected", "registered",
                "welcome", "replay", "pumps", "served"}
ReaderStates == {"none", "running", "remove", "delete", "leave", "close", "finish", "gone"}
WriterStates == {"none", "running", "finish", "gone"}

Registered == {"registered", "welcome", "replay", "pumps", "served"}

Init ==
    /\ clients = {} /\ pendingClients = 0 /\ pumps = 0
    /\ closing = FALSE /\ closingConnections = FALSE /\ finalizing = FALSE
    /\ closeDone = FALSE /\ toClose = {} /\ closer = "idle"
    /\ presence = {}
    /\ serve = [c \in Conns |-> "new"]
    /\ reader = [c \in Conns |-> "none"]
    /\ writer = [c \in Conns |-> "none"]
    /\ conn = [c \in Conns |-> "none"]
    /\ closed = [c \in Conns |-> FALSE]
    /\ queue = [c \in Conns |-> 0]
    /\ casts = 0
    /\ maxClients \in Limits

Goto(f, c, l) == [f EXCEPT ![c] = l]

\* net.Conn.Close: idempotent.
CloseConn(c) == conn' = [conn EXCEPT ![c] = "closed"]

-----------------------------------------------------------------------------
(* Shutdown bookkeeping, under h.mu                                        *)

MayFinishIgnoringUpgrades(flag, pend, pump) == closing /\ ~flag /\ pump = 0

\* The condition of finishCloseLocked, on the values the caller leaves behind.
MayFinish(flag, pend, pump) == closing /\ ~flag /\ pend = 0 /\ pump = 0

\* finishCloseLocked: exactly one caller wins and runs finishClose.
FinishCloseLocked(flag, pend, pump) ==
    finalizing' = (finalizing \/ MayFinish(flag, pend, pump))

\* beginClose: the first Close, Drain or SignalShutdown starts closeConnections.
BeginClose ==
    /\ ~closing
    /\ closing' = TRUE /\ closingConnections' = TRUE
    /\ closer' = "snapshot"
    /\ UNCHANGED <<registry, finalizing, closeDone, toClose, presence, serve,
                   reader, writer, conn, closed, traffic>>

CloserSnapshot ==
    /\ closer = "snapshot"
    /\ toClose' = clients /\ closer' = "closing"
    /\ UNCHANGED <<registry, closing, closingConnections, finalizing, closeDone,
                   presence, serve, reader, writer, conn, closed, traffic>>

\* c.conn.Close() of one client of the snapshot.
CloserCloses(c) ==
    /\ closer = "closing" /\ c \in toClose
    /\ toClose' = toClose \ {c}
    /\ CloseConn(c)
    /\ UNCHANGED <<registry, closing, closingConnections, finalizing, closeDone,
                   closer, presence, serve, reader, writer, closed, traffic>>

CloserDone ==
    /\ closer = "closing" /\ toClose = {}
    /\ closer' = "done" /\ closingConnections' = FALSE
    /\ FinishCloseLocked(FALSE, pendingClients, pumps)
    /\ UNCHANGED <<registry, closing, closeDone, toClose, presence, serve, reader,
                   writer, conn, closed, traffic>>

\* finishClose; the observers it retires are the subject of HubObservers.
FinishClose ==
    /\ finalizing /\ ~closeDone
    /\ closeDone' = TRUE
    /\ UNCHANGED <<registry, closing, closingConnections, finalizing, toClose,
                   closer, presence, serve, reader, writer, conn, closed, traffic>>

-----------------------------------------------------------------------------
(* Serving an upgrade request                                              *)

HasRoomForRegistered == maxClients > 0 => Cardinality(clients) < maxClients

HasRoom == maxClients > 0 => Cardinality(clients) + pendingClients < maxClients

\* reserveClientSlot; a request it turns down never reaches the hub.
Reserve(c) ==
    /\ serve[c] = "new" /\ ~closing /\ HasRoom
    /\ pendingClients' = pendingClients + 1
    /\ serve' = Goto(serve, c, "reserved")
    /\ UNCHANGED <<clients, pumps, shutdown, presence, reader, writer, conn,
                   closed, traffic>>

Refuse(c) ==
    /\ serve[c] = "new" /\ (closing \/ ~HasRoom)
    /\ serve' = Goto(serve, c, "rejected")
    /\ UNCHANGED <<registry, shutdown, presence, reader, writer, conn, closed,
                   traffic>>

\* A failed upgrade or connection setup: the deferred releaseClientSlot.
UpgradeFails(c) ==
    /\ serve[c] = "reserved"
    /\ pendingClients' = pendingClients - 1
    /\ FinishCloseLocked(closingConnections, pendingClients - 1, pumps)
    /\ serve' = Goto(serve, c, "rejected")
    /\ UNCHANGED <<clients, pumps, closing, closingConnections, closeDone, toClose,
                   closer, presence, reader, writer, conn, closed, traffic>>

\* The upgrade succeeded: the reservation becomes a live slot and two pumps.
Register(c) ==
    /\ serve[c] = "reserved" /\ ~closing
    /\ pendingClients' = pendingClients - 1
    /\ clients' = clients \cup {c} /\ pumps' = pumps + 2
    /\ conn' = [conn EXCEPT ![c] = "open"]
    /\ serve' = Goto(serve, c, "registered")
    /\ UNCHANGED <<shutdown, presence, reader, writer, closed, traffic>>

\* The upgrade succeeded but the hub began closing meanwhile.
RegisterRefused(c) ==
    /\ serve[c] = "reserved" /\ closing
    /\ pendingClients' = pendingClients - 1
    /\ FinishCloseLocked(closingConnections, pendingClients - 1, pumps)
    /\ conn' = [conn EXCEPT ![c] = "open"]
    /\ serve' = Goto(serve, c, "refused")
    /\ UNCHANGED <<clients, pumps, closing, closingConnections, closeDone, toClose,
                   closer, presence, reader, writer, closed, traffic>>

\* reserved = false: the deferred release does not run for a refused client.
RefusedCloses(c) ==
    /\ serve[c] = "refused"
    /\ CloseConn(c)
    /\ serve' = Goto(serve, c, "rejected")
    /\ UNCHANGED <<registry, shutdown, presence, reader, writer, closed, traffic>>

AddPresence(c) ==
    /\ serve[c] = "registered"
    /\ presence' = presence \cup {c}
    /\ serve' = Goto(serve, c, "welcome")
    /\ UNCHANGED <<registry, shutdown, reader, writer, conn, closed, traffic>>

\* client.send <- welcome: a blocking send, no writer drains the queue yet.
Welcome(c) ==
    /\ serve[c] = "welcome" /\ queue[c] < QueueCap
    /\ queue' = [queue EXCEPT ![c] = @ + 1]
    /\ serve' = Goto(serve, c, "replay")
    /\ UNCHANGED <<registry, shutdown, presence, reader, writer, conn, closed,
                   casts>>

EnqueueUnchecked(S) ==
    queue' = [c \in Conns |->
                 IF c \in S /\ queue[c] < QueueCap THEN queue[c] + 1 ELSE queue[c]]

\* enqueue, for the set of clients S: skips a closed client, drops at the limit.
Enqueue(S) ==
    queue' = [c \in Conns |->
                 IF c \in S /\ ~closed[c] /\ queue[c] < QueueCap
                 THEN queue[c] + 1 ELSE queue[c]]

\* Latch replay, if a latched topic has a payload, then the join handler.
Replay(c) ==
    /\ serve[c] = "replay"
    /\ \E S \in SUBSET {c} : Enqueue(S)
    /\ serve' = Goto(serve, c, "pumps")
    /\ UNCHANGED <<registry, shutdown, presence, reader, writer, conn, closed, casts>>

StartPumps(c) ==
    /\ serve[c] = "pumps"
    /\ reader' = Goto(reader, c, "running") /\ writer' = Goto(writer, c, "running")
    /\ serve' = Goto(serve, c, "served")
    /\ UNCHANGED <<registry, shutdown, presence, conn, closed, traffic>>

-----------------------------------------------------------------------------
(* Messages and disconnects                                                *)

\* Broadcast and BroadcastWhere: fanout under h.mu.RLock to the clients accepted.
Broadcast ==
    /\ casts < MaxCasts
    /\ \E S \in SUBSET clients : S # {} /\ Enqueue(S)
    /\ casts' = casts + 1
    /\ UNCHANGED <<registry, shutdown, presence, serve, reader, writer, conn, closed>>

\* Send: the client may have left since it was looked up under h.mu.
Send(c) ==
    /\ casts < MaxCasts /\ serve[c] \in Registered
    /\ Enqueue({c})
    /\ casts' = casts + 1
    /\ UNCHANGED <<registry, shutdown, presence, serve, reader, writer, conn, closed>>

\* Disconnect closes the socket of a client looked up earlier; the peer, or the
\* network, may close it as well (external).
Disconnect(c) ==
    /\ serve[c] \in Registered /\ conn[c] = "open"
    /\ CloseConn(c)
    /\ UNCHANGED <<registry, shutdown, presence, serve, reader, writer, closed, traffic>>

-----------------------------------------------------------------------------
(* The pumps                                                               *)

\* ReadMessage or SetReadDeadline fails, or the client exceeded its rate: the
\* read loop breaks.  On a closed connection it must fail.
ReaderBreaks(c) ==
    /\ reader[c] = "running"
    /\ reader' = Goto(reader, c, "remove")
    /\ UNCHANGED <<registry, shutdown, presence, serve, writer, conn, closed, traffic>>

\* removeClient under c.mu: no send can follow, and the channels are closed.
RemoveCloses(c) ==
    /\ reader[c] = "remove"
    /\ closed' = [closed EXCEPT ![c] = TRUE]
    /\ reader' = Goto(reader, c, "delete")
    /\ UNCHANGED <<registry, shutdown, presence, serve, writer, conn, traffic>>

\* removeClient under h.mu.
RemoveDeletes(c) ==
    /\ reader[c] = "delete"
    /\ clients' = clients \ {c}
    /\ reader' = Goto(reader, c, "leave")
    /\ UNCHANGED <<pendingClients, pumps, shutdown, presence, serve, writer, conn,
                   closed, traffic>>

\* presence.remove, then the leave handler.
RemoveLeaves(c) ==
    /\ reader[c] = "leave"
    /\ presence' = presence \ {c}
    /\ reader' = Goto(reader, c, "close")
    /\ UNCHANGED <<registry, shutdown, serve, writer, conn, closed, traffic>>

\* c.conn.Close() in readPump's defer.
ReaderCloses(c) ==
    /\ reader[c] = "close"
    /\ CloseConn(c)
    /\ reader' = Goto(reader, c, "finish")
    /\ UNCHANGED <<registry, shutdown, presence, serve, writer, closed, traffic>>

\* The writer takes a queued message and writes it to an open connection.
WriterSends(c) ==
    /\ writer[c] = "running" /\ queue[c] > 0 /\ conn[c] = "open"
    /\ queue' = [queue EXCEPT ![c] = @ - 1]
    /\ UNCHANGED <<registry, shutdown, presence, serve, reader, writer, conn, closed,
                   casts>>

WriterReturnsKeepsConn(c) ==
    /\ writer[c] = "running"
    /\ \/ queue[c] > 0 /\ queue' = [queue EXCEPT ![c] = @ - 1]
       \/ UNCHANGED queue
    /\ writer' = Goto(writer, c, "finish")
    /\ UNCHANGED <<registry, shutdown, presence, serve, reader, conn, closed, casts>>

\* The writer returns: the write of a message it took or of a ping failed, the
\* slow-client policy evicted the client, or the drained queue was closed.
WriterReturns(c) ==
    /\ writer[c] = "running"
    /\ \/ queue[c] > 0 /\ queue' = [queue EXCEPT ![c] = @ - 1]
       \/ UNCHANGED queue
    /\ CloseConn(c)
    /\ writer' = Goto(writer, c, "finish")
    /\ UNCHANGED <<registry, shutdown, presence, serve, reader, closed, casts>>

PumpFinishedSilently ==
    /\ pumps' = pumps - 1
    /\ UNCHANGED finalizing

\* pumpFinished, deferred by both pumps.
PumpFinished ==
    /\ pumps' = pumps - 1
    /\ FinishCloseLocked(closingConnections, pendingClients, pumps - 1)

ReaderFinishes(c) ==
    /\ reader[c] = "finish"
    /\ PumpFinished
    /\ reader' = Goto(reader, c, "gone")
    /\ UNCHANGED <<clients, pendingClients, closing, closingConnections, closeDone,
                   toClose, closer, presence, serve, writer, conn, closed, traffic>>

WriterFinishes(c) ==
    /\ writer[c] = "finish"
    /\ PumpFinished
    /\ writer' = Goto(writer, c, "gone")
    /\ UNCHANGED <<clients, pendingClients, closing, closingConnections, closeDone,
                   toClose, closer, presence, serve, reader, conn, closed, traffic>>

-----------------------------------------------------------------------------

ServeStep(c) ==
    \/ Reserve(c) \/ Refuse(c) \/ UpgradeFails(c) \/ Register(c)
    \/ RegisterRefused(c) \/ RefusedCloses(c) \/ AddPresence(c) \/ Welcome(c)
    \/ Replay(c) \/ StartPumps(c)

ReaderStep(c) ==
    \/ RemoveCloses(c) \/ RemoveDeletes(c) \/ RemoveLeaves(c) \/ ReaderCloses(c)
    \/ ReaderFinishes(c)

CloserStep == CloserSnapshot \/ (\E c \in Conns : CloserCloses(c)) \/ CloserDone

Next ==
    \/ BeginClose \/ CloserStep \/ FinishClose
    \/ Broadcast
    \/ \E c \in Conns :
          \/ ServeStep(c) \/ Send(c) \/ Disconnect(c)
          \/ ReaderBreaks(c) \/ ReaderStep(c)
          \/ WriterSends(c) \/ WriterReturns(c) \/ WriterFinishes(c)

Spec == Init /\ [][Next /\ UNCHANGED maxClients]_<<vars, maxClients>>

\* Goroutines that can run do; a read on a closed connection fails; a writer
\* that holds a message for a closed connection, or finds its queue closed,
\* returns.  Nobody has to connect, send, disconnect or close the hub.
Fairness ==
    /\ WF_vars(CloserStep) /\ WF_vars(FinishClose)
    /\ \A c \in Conns :
          /\ WF_vars(serve[c] # "new" /\ ServeStep(c))
          /\ WF_vars(ReaderStep(c)) /\ WF_vars(WriterFinishes(c))
          /\ WF_vars(conn[c] = "closed" /\ ReaderBreaks(c))
          /\ WF_vars(WriterSends(c))
          /\ WF_vars((IF closed[c] THEN conn[c] = "closed" \/ queue[c] = 0
                                   ELSE conn[c] = "closed" /\ queue[c] > 0)
                     /\ WriterReturns(c))

FairSpec == Spec /\ Fairness

-----------------------------------------------------------------------------
(* Properties                                                              *)

\* Every variable keeps its type.
TypeOK ==
    /\ clients \subseteq Conns /\ toClose \subseteq Conns /\ presence \subseteq Conns
    /\ pendingClients \in Nat /\ pumps \in Nat /\ casts \in 0..MaxCasts
    /\ closing \in BOOLEAN /\ closingConnections \in BOOLEAN
    /\ finalizing \in BOOLEAN /\ closeDone \in BOOLEAN
    /\ closer \in {"idle", "snapshot", "closing", "done"}
    /\ serve \in [Conns -> ServeStates]
    /\ reader \in [Conns -> ReaderStates]
    /\ writer \in [Conns -> WriterStates]
    /\ conn \in [Conns -> {"none", "open", "closed"}]
    /\ closed \in [Conns -> BOOLEAN]
    /\ queue \in [Conns -> 0..QueueCap]

\* What Close waits for: reservations, both pumps of every client, its own goroutine.
Reservations == {c \in Conns : serve[c] = "reserved"}
Readers == {c \in Conns : serve[c] \in Registered /\ reader[c] # "gone"}
Writers == {c \in Conns : serve[c] \in Registered /\ writer[c] # "gone"}

Units == ({"serve", "read", "write"} \X Conns) \cup {<<"closer">>}

Live == ({"serve"} \X Reservations) \cup ({"read"} \X Readers) \cup ({"write"} \X Writers)
           \cup (IF closingConnections THEN {<<"closer">>} ELSE {})

\* The hub keeps the promise of DrainGate: a registration that raced the close is
\* refused, and exactly one goroutine, the last one to leave, finishes the close.
Gate == INSTANCE DrainGate WITH
            live <- Live, stopping <- closing, drained <- finalizing

RefinesDrainGate == Gate!Spec

\* MaxClients is never exceeded, however many upgrades are in flight at once.
WithinCapacity == maxClients > 0 => Cardinality(clients) + pendingClients <= maxClients

\* When Close returns nil, no client is registered or present, and every accepted
\* connection is closed.
ClosedHubIsEmpty ==
    closeDone =>
        /\ clients = {} /\ presence = {}
        /\ \A c \in Conns : serve[c] \in Registered =>
              conn[c] = "closed" /\ reader[c] = "gone" /\ writer[c] = "gone"

\* A departed client leaves no ghost in the client map or in presence, although
\* presence is added outside the lock that registers the client.
NoGhosts ==
    \A c \in Conns : reader[c] \in {"close", "finish", "gone"} => c \notin clients /\ c \notin presence

\* Pumps exist exactly for a served connection.
PumpsFollowServe ==
    \A c \in Conns : /\ serve[c] = "served" <=> reader[c] # "none"
                     /\ serve[c] = "served" <=> writer[c] # "none"

\* The client map and presence hold the connections between joining and leaving.
RecordsExact ==
    /\ clients = {c \in Conns : /\ serve[c] \in Registered
                                /\ reader[c] \notin {"leave", "close", "finish", "gone"}}
    /\ presence = {c \in Conns : /\ serve[c] \in Registered \ {"registered"}
                                 /\ reader[c] \notin {"close", "finish", "gone"}}

\* A pump that reports to the hub has closed the socket first, and the channels of
\* a client are closed only by its reader, on the way out.
LeavesClosed ==
    \A c \in Conns :
        /\ reader[c] \in {"finish", "gone"} \/ writer[c] \in {"finish", "gone"} => conn[c] = "closed"
        /\ closed[c] => reader[c] \in {"delete", "leave", "close", "finish", "gone"}

\* h.pendingClients and h.pumps count the goroutines that will report.
CountsExact ==
    /\ pendingClients = Cardinality(Reservations)
    /\ pumps = Cardinality(Readers) + Cardinality(Writers)

\* h.finalizing is set exactly when the close has nobody left to wait for.
FinalExactly ==
    /\ closing <=> closer # "idle"
    /\ closingConnections <=> closer \in {"snapshot", "closing"}
    /\ finalizing <=> closing /\ ~closingConnections /\ pendingClients = 0 /\ pumps = 0
    /\ closeDone => finalizing

\* What h.mu protects agrees with where the goroutines are.
Consistent ==
    /\ PumpsFollowServe /\ RecordsExact /\ LeavesClosed /\ CountsExact /\ FinalExactly

\* What holds of the hub in every state, with upgrades, pumps, senders and Close
\* interleaved: the counters Close waits for are exact, reservations and clients
\* stay within MaxClients, a departed client is gone from both maps, and Close
\* returns nil only from an empty hub.
HubInv == TypeOK /\ Consistent /\ WithinCapacity /\ ClosedHubIsEmpty /\ NoGhosts

\* No message is ever sent on a closed channel, which would panic: not by a
\* broadcast, not by a Send that looked the client up before it left, and not by
\* the unguarded send of the welcome message.
NoSendAfterClose ==
    [][\A c \in Conns : queue'[c] > queue[c] => ~closed[c]]_vars

\* The welcome of a joining client waits for room in a queue nobody drains.
JoinBlocked(c) == serve[c] = "welcome" /\ queue[c] = QueueCap

\* Close completes once it has begun, unless the queue of a joining client has
\* filled up before its welcome message: Close then waits for that upgrade.
CloseCompletes == closing ~> (closeDone \/ \E c \in Conns : JoinBlocked(c))

\* A connection never survives half-served: when one pump ends, so does the other.
PumpsEndTogether ==
    \A c \in Conns :
        /\ writer[c] = "gone" ~> reader[c] = "gone"
        /\ reader[c] = "gone" ~> writer[c] = "gone"

\* The comments on the latch replay: the join path never blocks.  A registered
\* client is eventually served by its pumps.
JoinNeverBlocks ==
    \A c \in Conns : serve[c] = "registered" ~> serve[c] = "served"
=============================================================================
