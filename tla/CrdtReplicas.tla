---------------------------- MODULE CrdtReplicas ----------------------------
(***************************************************************************)
(* Package crdt: replicas of a document that edit, commit and receive each *)
(* other's changes.                                                        *)
(*                                                                         *)
(* An edit is applied at once and committed into a change later; changes   *)
(* of others may arrive in between.  This is what the sync protocol        *)
(* promises of any transport: a replica takes in changes of another in the *)
(* order of that replica's log, skips any of them, and never takes one in  *)
(* before those it depends on.  CrdtSync is the protocol over a hub.  A    *)
(* change is known by its actor and sequence number in place of its hash.  *)
(***************************************************************************)
EXTENDS CrdtDoc

CONSTANTS
    Replicas,    \* numbers of the replicas
    MaxEdits     \* bounds the operations each replica makes, a function

ASSUME CrdtReplicasAssumption ==
    /\ IsFiniteSet(Replicas) /\ Replicas \subseteq Nat
    /\ MaxEdits \in [Replicas -> Nat]

VARIABLES
    docs,    \* the Doc of each replica
    edits    \* operations made so far

replicaVars == <<docs, edits>>

\* newDocWithActor: deps are the heads, changes the log, in order of arrival.
NewDoc == [doc |-> Empty, changes |-> <<>>, deps |-> {}, maxOp |-> 0, seq |-> 0,
           pending |-> <<>>]

\* d.changeIndex.
Hashes(d) == {c.hash : c \in ToSet(d.changes)}
Held(r) == Hashes(docs[r])

Hash == UNION {{r} \X (1..MaxEdits[r]) : r \in Replicas}

ReplicaInit ==
    /\ docs = [r \in Replicas |-> NewDoc]
    /\ edits = [r \in Replicas |-> 0]

-----------------------------------------------------------------------------
(* Editing                                                                 *)

\* Put, Delete, Increment, SpliceText, ...: applied and kept pending.
Edit(r) ==
    /\ edits[r] < MaxEdits[r]
    /\ \E op \in LocalOps(docs[r].doc, <<docs[r].maxOp + 1, r>>) :
          docs' = [docs EXCEPT ![r].doc = ApplyOp(@, op),
                               ![r].maxOp = @ + Width(op),
                               ![r].pending = Append(@, op)]
    /\ edits' = [edits EXCEPT ![r] = @ + 1]

\* commitPending: the pending operations become a change on top of the heads.
Commit(r) ==
    LET hash == <<r, docs[r].seq + 1>>
        change == [hash |-> hash, deps |-> docs[r].deps, ops |-> docs[r].pending]
    IN  /\ docs[r].pending # <<>>
        /\ docs' = [docs EXCEPT ![r].changes = Append(@, change), ![r].deps = {hash},
                                ![r].seq = @ + 1, ![r].pending = <<>>]
        /\ UNCHANGED edits

-----------------------------------------------------------------------------
(* Taking in changes                                                       *)

\* mergeHeadsLocked.
MergeHeads(d, c) == (d.deps \ c.deps) \cup {c.hash}

\* The Lamport counter after an operation: the last id it took.
Counter(m, op) == IF op.id[1] + Width(op) - 1 > m THEN op.id[1] + Width(op) - 1 ELSE m

ApplyOps(doc, ops) == FoldLeft(ApplyOp, doc, ops)

CountOps(m, ops) == FoldLeft(Counter, m, ops)

\* applyRemoteChangeLocked.
ApplyRemoteChange(d, c) ==
    [d EXCEPT !.doc = ApplyOps(@, c.ops), !.maxOp = CountOps(@, c.ops),
              !.changes = Append(@, c), !.deps = MergeHeads(d, c)]

MissingDepsUnchecked(d, c) == {}

\* missingDepsLocked.
MissingDeps(d, c) == c.deps \ Hashes(d)

\* The part of ReceiveSyncMessage that changes the document: a change it holds, or
\* whose dependencies it misses, is left out.
TakeIn(d, c) ==
    IF c.hash \in Hashes(d) \/ MissingDeps(d, c) # {} THEN d ELSE ApplyRemoteChange(d, c)

\* A log of which some changes are sent.
TakeInSent(d, m) == IF m.sent THEN TakeIn(d, m.change) ELSE d

TakeInAll(d, messages) == FoldLeft(TakeInSent, d, messages)

\* Any changes of the log of s, in its order, reach r.
Receive(r, s) ==
    /\ \E S \in SUBSET {i \in DOMAIN docs[s].changes : docs[s].changes[i].hash \notin Held(r)} :
          docs' = [docs EXCEPT ![r] = TakeInAll(@,
                      [i \in DOMAIN docs[s].changes |->
                          [change |-> docs[s].changes[i], sent |-> i \in S]])]
    /\ UNCHANGED edits

ReplicaNext ==
    \/ \E r \in Replicas : Edit(r) \/ Commit(r)
    \/ \E r, s \in Replicas : r # s /\ Receive(r, s)

ReplicaSpec == ReplicaInit /\ [][ReplicaNext]_replicaVars

-----------------------------------------------------------------------------
(* Properties                                                              *)

\* Every variable keeps its type.
ReplicaTypeOK ==
    /\ \A r \in Replicas :
          /\ Held(r) \subseteq Hash /\ docs[r].deps \subseteq Held(r)
          /\ docs[r].maxOp \in Nat /\ docs[r].seq \in 0..MaxEdits[r]
          /\ \A i \in DOMAIN docs[r].doc.text : docs[r].doc.text[i].deleted \in BOOLEAN
    /\ edits \in [Replicas -> Nat]

\* Replicas that hold the same changes, and nothing uncommitted, show the same
\* document, whatever the order the changes arrived in and whatever a replica
\* had pending while they did.
Converged ==
    \A r, s \in Replicas :
        Held(r) = Held(s) /\ docs[r].pending = <<>> /\ docs[s].pending = <<>>
            => View(docs[r].doc) = View(docs[s].doc)

\* The incremental insertAfter keeps a text in the order orderListElems computes
\* from scratch, so a document saved and loaded shows the text of the live one.
CanonicalOrder ==
    \A r \in Replicas :
        LET text == docs[r].doc.text
        IN  [i \in DOMAIN text |-> text[i].id] = OrderListElems(ToSet(text))

\* A replica holds a change only after what it depends on, every element an
\* operation refers to is there, and the heads are the changes no other depends on,
\* although a change may depend on one that arrived after its first operation.
CausallyClosed ==
    \A r \in Replicas :
        LET log == docs[r].changes
        IN  /\ \A i \in DOMAIN log : log[i].deps \subseteq {log[j].hash : j \in 1..(i - 1)}
            /\ docs[r].deps = Held(r) \ UNION {c.deps : c \in ToSet(log)}
            /\ \A c \in ToSet(log) : \A op \in ToSet(c.ops) :
                  Refs(op) \subseteq {e.id : e \in ToSet(docs[r].doc.text)}

\* Operation ids are Lamport timestamps: one made at a replica is greater than every
\* id the replica has seen, a run of inserted runes included, which is why stepping
\* over greater identities steps over whole concurrent insertions.
IdsAhead ==
    \A r \in Replicas :
        /\ \A e \in ToSet(docs[r].doc.text) : e.id[1] <= docs[r].maxOp /\ e.vis[1] <= docs[r].maxOp
        /\ \A p \in Props : docs[r].doc.map[p].id[1] <= docs[r].maxOp
        /\ \A e \in ToSet(docs[r].doc.text) : e.after # NoOp => Greater(e.id, e.after)

\* What every replica is in after any sequence of edits, commits and deliveries: its
\* log is causally closed and its next operation id is greater than all it holds.
ReplicaInv == ReplicaTypeOK /\ CausallyClosed /\ IdsAhead
=============================================================================
