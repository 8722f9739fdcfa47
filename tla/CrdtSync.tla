------------------------------- MODULE CrdtSync -------------------------------
(***************************************************************************)
(* Package crdt's sync protocol over a hub (crdt/doc.go, crdt/sync,        *)
(* hub/sync.go, client/bridge/crdt.go): one document of the hub and a      *)
(* replica at each client, exchanging sync frames.                         *)
(*                                                                         *)
(* Edits are applied at once and committed into changes later.  Hub        *)
(* goroutines, the read pump of each client and one goroutine that edits   *)
(* the hub's document, run broadcastSyncDoc concurrently: frames are       *)
(* generated under the document's read lock, which several goroutines may  *)
(* hold at once, and queued after it is released.                          *)
(* A change is known by its actor and sequence number in place of its      *)
(* hash.  An operation that writes under d.mu is one step; generations     *)
(* for one client that overlap are one step together.                      *)
(***************************************************************************)
EXTENDS CrdtReplicas

CONSTANTS
    MaxJoins,    \* bounds how often each client connects
    QueueCap,    \* slots of Client.binarySend
    MayWrite,    \* clients whose frames BinaryAuthorizer lets through
    BloomFalse   \* hashes a Bloom filter may report although it lacks them

\* The hub's replica is number 0, the others belong to clients.
Hub == 0
Clients == Replicas \ {Hub}

ASSUME CrdtSyncAssumption ==
    /\ Hub \in Replicas
    /\ MaxJoins \in Nat /\ QueueCap \in Nat \ {0}
    /\ MayWrite \subseteq Clients /\ BloomFalse \subseteq Hash

VARIABLES
    peer,    \* <<r, s>>: the sync State replica r keeps for its peer s
    queue,   \* binarySend of each client
    wire,    \* frames on their way from a client to the hub
    joined,  \* clients registered at the hub
    todo,    \* clients a hub goroutine's broadcastSyncDoc has still to serve
    again,   \* the goroutine has another broadcast to make after this one
    frame,   \* the frame a goroutine has generated and not yet queued
    joins    \* connections made so far

traffic == <<queue, wire>>
rounds == <<todo, again, frame>>
vars == <<replicaVars, peer, traffic, joined, rounds, joins>>

Links == ({Hub} \X Clients) \cup (Clients \X {Hub})
NoFrame == [to |-> Hub]

\* NewState.
NewState == [init |-> FALSE, lastHeads |-> {}, known |-> {}, sent |-> {}, need |-> {},
             peerNeed |-> {}, bloom |-> {}]

Init ==
    /\ ReplicaInit
    /\ peer = [l \in Links |-> NewState]
    /\ queue = [c \in Clients |-> <<>>] /\ wire = [c \in Clients |-> <<>>]
    /\ joined = {}
    /\ todo = [g \in Replicas |-> {}] /\ again = [g \in Replicas |-> FALSE]
    /\ frame = [g \in Replicas |-> NoFrame]
    /\ joins = [c \in Clients |-> 0]

\* A goroutine that is not in a broadcast: a read pump may read, the hub's owner edit.
Idle(g) == todo[g] = {} /\ ~again[g] /\ frame[g] = NoFrame

-----------------------------------------------------------------------------
(* The sync state of a peer                                                *)

MarkSent(s, H) == [s EXCEPT !.sent = @ \cup H, !.peerNeed = @ \ H]

MarkKnownStillNeeded(s, H) == [s EXCEPT !.known = @ \cup H, !.sent = @ \ H,
                                        !.peerNeed = @ \ H]

MarkKnown(s, H) == [s EXCEPT !.known = @ \cup H, !.sent = @ \ H, !.need = @ \ H,
                             !.peerNeed = @ \ H]

MarkNeed(s, H) == [s EXCEPT !.need = @ \cup H]

MarkPeerNeed(s, H) == [s EXCEPT !.known = @ \ H, !.sent = @ \ H, !.peerNeed = @ \cup H]

\* The changes a message to the peer carries: what it asked for, and what it is
\* not known, sent or, by its Bloom filter, likely to have.
ToSend(d, s) ==
    {h \in Hashes(d) : h \in s.peerNeed \/ h \notin s.known \cup s.sent \cup s.bloom}

\* A message's changes: a log in its order, with those marked that are sent.
Carried(log, H) == [i \in DOMAIN log |-> [change |-> log[i], sent |-> log[i].hash \in H]]

HasNewsOnlyChanges(d, s) == ToSend(d, s) # {}

\* There are changes to send, or heads the peer has not been told of.
HasNews(d, s) == ToSend(d, s) # {} \/ s.lastHeads # d.deps

ShouldSend(d, s) == ~s.init \/ s.need # {} \/ HasNews(d, s)

\* GenerateSyncMessage: a message that sends the changes in H, with a filter that also
\* reports the hashes in fp; the message it is when nothing else runs, and the state
\* after it.  The changes count as sent from here on.
MessageOf(d, s, H, fp) ==
    [heads |-> d.deps, need |-> s.need, bloom |-> Hashes(d) \cup fp,
     changes |-> Carried(d.changes, H)]

Message(d, s, fp) == MessageOf(d, s, ToSend(d, s), fp)

AfterGenerate(d, s) ==
    [MarkSent(s, ToSend(d, s)) EXCEPT !.init = TRUE, !.lastHeads = d.deps]

\* What a generation sees of a state that another one is marking under the same read
\* lock: some of the changes are marked as sent already, the heads may be noted.
SeenMarked(d, s) ==
    [H : SUBSET ToSend(d, s), told : {s.init /\ s.lastHeads = d.deps, TRUE}]

\* The frame for client c it makes of that.
OverlappedFrame(d, s, c, fp, seen) ==
    IF seen.H # {} \/ s.need # {} \/ ~seen.told
    THEN [to |-> c, msg |-> MessageOf(d, s, seen.H, fp)] ELSE NoFrame

-----------------------------------------------------------------------------
(* Receiving a message                                                     *)

ReceiveChangeUnordered(acc, m) ==
    IF ~m.sent THEN acc
    ELSE [d |-> IF m.change.hash \in Hashes(acc.d) THEN acc.d
                ELSE ApplyRemoteChange(acc.d, m.change),
          s |-> MarkKnown(acc.s, {m.change.hash})]

\* The peer's state after one change c, which made d of the document old.
NoteChange(s, old, d, c) ==
    IF c.hash \in Hashes(d) THEN MarkKnown(s, {c.hash})
    ELSE MarkNeed(s, MissingDeps(old, c) \cup {c.hash})

\* One change of a received message; acc holds the document and the peer's state.
ReceiveChange(acc, m) ==
    LET d == TakeInSent(acc.d, m)
    IN  [d |-> d, s |-> IF m.sent THEN NoteChange(acc.s, acc.d, d, m.change) ELSE acc.s]

ReceiveChanges(acc, changes) == FoldLeft(ReceiveChange, acc, changes)

\* ReceiveSyncMessage: the changes in order, then the heads, the needs and the
\* filter.  No operation of a change fails: CausallyClosed.
ReceiveSyncMessage(d, s, m) ==
    LET got == ReceiveChanges([d |-> d, s |-> s], m.changes)
        have == Hashes(got.d)
        noted == MarkNeed(MarkKnown(got.s, m.heads \cap have), m.heads \ have)
    IN  [d |-> got.d,
         s |-> [MarkPeerNeed(noted, m.need \cap have) EXCEPT !.bloom = m.bloom]]

FalseAt(r) == SUBSET (BloomFalse \ Held(r))

-----------------------------------------------------------------------------
(* Editing                                                                 *)

\* One goroutine edits the hub's document, and broadcasts when it commits.
LocalEdit(r) ==
    /\ Edit(r) /\ (r = Hub => Idle(Hub))
    /\ UNCHANGED <<peer, traffic, joined, rounds, joins>>

\* Commit at the hub: the change hook broadcasts.
HubCommit ==
    /\ Commit(Hub) /\ Idle(Hub)
    /\ todo' = [todo EXCEPT ![Hub] = joined]
    /\ UNCHANGED <<peer, traffic, joined, again, frame, joins>>

\* Commit at a client.  Nothing is sent before the next frame from the hub, unless
\* the application asks for a message and sends it (ClientAnnounce, external).
ClientCommit(c) ==
    /\ Commit(c)
    /\ UNCHANGED <<peer, traffic, joined, rounds, joins>>

ClientAnnounce(c) ==
    LET s == peer[<<c, Hub>>]
    IN  /\ c \in joined /\ HasNews(docs[c], s)
        /\ \E fp \in FalseAt(c) :
              wire' = [wire EXCEPT ![c] = Append(@, Message(docs[c], s, fp))]
        /\ peer' = [peer EXCEPT ![<<c, Hub>>] = AfterGenerate(docs[c], s)]
        /\ UNCHANGED <<replicaVars, queue, joined, rounds, joins>>

-----------------------------------------------------------------------------
(* Frames                                                                  *)

\* The goroutines in G have served client c.
Served(G, c) == [g \in Replicas |-> IF g \in G THEN todo[g] \ {c} ELSE todo[g]]

\* queueSyncMessage up to the release of the document's read lock, for client c of the
\* broadcasts of the goroutines in G, which overlap there.  The first to mark has looked
\* at the state as it was; the others may see any of its marks, and mark nothing else.
\* (The state has no lock of its own: a runtime that notices the overlapping accesses
\* to its maps ends the process, and the hub with it.)
Generate(G, c) ==
    LET d == docs[Hub]
        s == peer[<<Hub, c>>]
    IN  /\ \A g \in G : c \in todo[g] /\ frame[g] = NoFrame
        /\ todo' = Served(G, c)
        /\ IF ShouldSend(d, s)
           THEN /\ \E first \in G, fp \in FalseAt(Hub) :
                   \E seen \in [G \ {first} -> SeenMarked(d, s)] :
                      frame' = [g \in Replicas |->
                                  IF g = first THEN [to |-> c, msg |-> Message(d, s, fp)]
                                  ELSE IF g \in G THEN OverlappedFrame(d, s, c, fp, seen[g])
                                  ELSE frame[g]]
                /\ peer' = [peer EXCEPT ![<<Hub, c>>] = AfterGenerate(d, s)]
           ELSE UNCHANGED <<frame, peer>>
        /\ UNCHANGED <<replicaVars, traffic, joined, again, joins>>

\* tryBinarySend: a full queue drops the frame.
Enqueue(g) ==
    /\ frame[g] # NoFrame
    /\ queue' = [queue EXCEPT ![frame[g].to] =
                    IF Len(@) < QueueCap THEN Append(@, frame[g].msg) ELSE @]
    /\ frame' = [frame EXCEPT ![g] = NoFrame]
    /\ UNCHANGED <<replicaVars, peer, wire, joined, todo, again, joins>>

\* The second broadcast of handleBinaryMessage, after the one of the change hook.
BroadcastAgain(g) ==
    /\ again[g] /\ todo[g] = {} /\ frame[g] = NoFrame
    /\ again' = [again EXCEPT ![g] = FALSE]
    /\ todo' = [todo EXCEPT ![g] = joined]
    /\ UNCHANGED <<replicaVars, peer, traffic, joined, frame, joins>>

\* CRDTBridge.Sync: the client takes a frame in and replies if it has to.
ClientSync(c) ==
    /\ queue[c] # <<>>
    /\ queue' = [queue EXCEPT ![c] = Tail(@)]
    /\ LET got == ReceiveSyncMessage(docs[c], peer[<<c, Hub>>], Head(queue[c]))
       IN  /\ docs' = [docs EXCEPT ![c] = got.d]
           /\ IF ShouldSend(got.d, got.s)
              THEN /\ \E fp \in SUBSET (BloomFalse \ Hashes(got.d)) :
                         wire' = [wire EXCEPT ![c] = Append(@, Message(got.d, got.s, fp))]
                   /\ peer' = [peer EXCEPT ![<<c, Hub>>] = AfterGenerate(got.d, got.s)]
              ELSE /\ peer' = [peer EXCEPT ![<<c, Hub>>] = got.s]
                   /\ UNCHANGED wire
    /\ UNCHANGED <<joined, rounds, edits, joins>>

\* handleBinaryMessage: an unauthorized frame is refused; else it is taken in and
\* broadcast, twice when it brought a change (its hook broadcasts too).
HubReceive(c) ==
    /\ c \in joined /\ wire[c] # <<>> /\ Idle(c)
    /\ wire' = [wire EXCEPT ![c] = Tail(@)]
    /\ IF c \in MayWrite
       THEN LET got == ReceiveSyncMessage(docs[Hub], peer[<<Hub, c>>], Head(wire[c]))
            IN  /\ docs' = [docs EXCEPT ![Hub] = got.d]
                /\ peer' = [peer EXCEPT ![<<Hub, c>>] = got.s]
                /\ again' = [again EXCEPT ![c] = got.d # docs[Hub]]
                /\ todo' = [todo EXCEPT ![c] = joined]
       ELSE UNCHANGED <<docs, peer, again, todo>>
    /\ UNCHANGED <<queue, joined, frame, edits, joins>>

-----------------------------------------------------------------------------
(* Connections                                                             *)

\* A client connects: fresh states on both sides, and the bootstrap frame of
\* initClientSync, queued before its read pump runs.
Join(c) ==
    /\ c \notin joined /\ joins[c] < MaxJoins /\ Idle(c)
    /\ joined' = joined \cup {c}
    /\ joins' = [joins EXCEPT ![c] = @ + 1]
    /\ peer' = [peer EXCEPT ![<<Hub, c>>] = NewState, ![<<c, Hub>>] = NewState]
    /\ todo' = [todo EXCEPT ![c] = {c}]
    /\ UNCHANGED <<replicaVars, traffic, again, frame>>

\* The connection ends: frames in flight are lost, and a broadcast that still
\* holds the client finds its queue closed.
Leave(c) ==
    /\ c \in joined /\ Idle(c) /\ joins[c] < MaxJoins
    /\ joined' = joined \ {c}
    /\ queue' = [queue EXCEPT ![c] = <<>>] /\ wire' = [wire EXCEPT ![c] = <<>>]
    /\ todo' = [g \in Replicas |-> todo[g] \ {c}]
    /\ frame' = [g \in Replicas |->
                    IF frame[g].to = c THEN NoFrame ELSE frame[g]]
    /\ UNCHANGED <<replicaVars, peer, again, joins>>

-----------------------------------------------------------------------------

HubStep(g) == Enqueue(g) \/ BroadcastAgain(g)

\* Goroutines of the hub that may be generating at the same time.
Groups == (SUBSET Replicas) \ {{}}

Next ==
    \/ \E r \in Replicas : LocalEdit(r) \/ HubStep(r)
    \/ HubCommit
    \/ \E c \in Clients :
          \/ ClientCommit(c) \/ ClientAnnounce(c) \/ ClientSync(c) \/ HubReceive(c)
          \/ Join(c) \/ Leave(c)
          \/ \E G \in Groups : Generate(G, c)

Spec == Init /\ [][Next]_vars

\* Goroutines run, and a frame that is queued or on the wire arrives and is handled:
\* stated on the variable that each such step moves on.  Nobody has to edit, commit,
\* announce, connect or leave.
Fairness ==
    /\ \A g \in Replicas :
          /\ WF_todo(\E G \in Groups, c \in todo[g] :
                        /\ g \in G /\ \A h \in G : c \in todo[h] /\ frame[h] = NoFrame
                        /\ todo' = Served(G, c))
          /\ WF_frame(frame[g] # NoFrame /\ frame' = [frame EXCEPT ![g] = NoFrame])
          /\ WF_again(again[g] /\ todo[g] = {} /\ frame[g] = NoFrame
                      /\ again' = [again EXCEPT ![g] = FALSE])
    /\ \A c \in Clients :
          /\ WF_queue(queue[c] # <<>> /\ queue' = [queue EXCEPT ![c] = Tail(@)])
          /\ WF_wire(wire[c] # <<>> /\ Idle(c) /\ wire' = [wire EXCEPT ![c] = Tail(@)])

FairSpec == Spec /\ Fairness
-----------------------------------------------------------------------------
(* Properties                                                              *)

States == [init : BOOLEAN, lastHeads : SUBSET Hash, known : SUBSET Hash,
           sent : SUBSET Hash, need : SUBSET Hash, peerNeed : SUBSET Hash,
           bloom : SUBSET Hash]

\* Every variable keeps its type.
TypeOK ==
    /\ ReplicaTypeOK
    /\ peer \in [Links -> States]
    /\ \A c \in Clients : Len(queue[c]) <= QueueCap
    /\ joined \subseteq Clients
    /\ todo \in [Replicas -> SUBSET Clients] /\ again \in [Replicas -> BOOLEAN]
    /\ joins \in [Clients -> 0..MaxJoins]

\* The protocol keeps the promise CrdtReplicas is checked under: whatever happens
\* to its frames, a replica takes in changes in causal order and nothing else.
RefinesReplicas == ReplicaSpec

\* Nothing is under way between the hub and client c.
Quiet(c) ==
    /\ c \in joined /\ queue[c] = <<>> /\ wire[c] = <<>>
    /\ \A g \in Replicas : /\ c \notin todo[g] /\ ~again[g]
                           /\ frame[g].to # c

\* A connection falls silent only when the client has every change of the hub and
\* the hub every change of a client that has no news: in spite of frames
\* queued in the other order than they were generated in, Bloom filters that report
\* a missing change as present, and reconnections.
SilentWhenSynced ==
    \A c \in Clients :
        Quiet(c) => /\ Held(Hub) \subseteq Held(c)
                    /\ ~HasNews(docs[c], peer[<<c, Hub>>]) => Held(c) \subseteq Held(Hub)

\* The sync sessions in every state: well-formed, and silent only when in sync.
SyncInv == TypeOK /\ SilentWhenSynced

\* The exchange ends: peers do not answer each other for ever.
FallsSilent == <>[](\A c \in joined : Quiet(c))

\* The comment on DropStats: a binary drop is no data loss, because the next sync
\* round recomputes what the peer still needs.  When a round would find nothing
\* to send to a client, and nothing is under way, the client misses no change.
NextRoundRecovers ==
    \A c \in Clients :
        Quiet(c) /\ ~ShouldSend(docs[Hub], peer[<<Hub, c>>]) => Held(Hub) \subseteq Held(c)
=============================================================================
