------------------------------- MODULE CrdtDoc -------------------------------
(***************************************************************************)
(* Package crdt: what operations do to one replica of a document.          *)
(*                                                                         *)
(* The document is a root map of last-writer-wins registers and counters,  *)
(* and one text every replica has loaded.  A value put is an integer known *)
(* by the operation that put it; a rune by the operation id it got.  The   *)
(* blocks and the index tree of seq.go are an index of the sequence.       *)
(***************************************************************************)
EXTENDS Integers, FiniteSets, SequencesExt

CONSTANTS
    Props,       \* keys of the root map
    MapEdits,    \* <<action, prop>>: the put, delete, increment edits made
    Splices,     \* <<deleted, inserted>>: sizes of the text edits made
    MarkEdits    \* of "remove", "revive": edits of an element by its identity

ASSUME CrdtDocAssumption ==
    /\ MapEdits \subseteq {"put", "delete", "increment"} \X Props
    /\ Splices \subseteq Nat \X Nat
    /\ MarkEdits \subseteq {"remove", "revive"}

\* OpID: a Lamport counter and the number of its actor.
NoOp == <<0, 0>>
Greater(a, b) == a[1] > b[1] \/ (a[1] = b[1] /\ a[2] > b[2])

\* A register no operation has written: the zero mapEntry.
NoEntry == [id |-> NoOp, deleted |-> TRUE, by |-> NoOp, n |-> 0]

Empty == [map |-> [p \in Props |-> NoEntry], text |-> <<>>]

-----------------------------------------------------------------------------
(* The root map                                                            *)

ApplyLatestWrite(d, op) ==
    [d EXCEPT !.map[op.prop] =
        [id |-> op.id, deleted |-> op.action = "delete",
         by |-> IF op.action = "put" THEN op.id ELSE NoOp, n |-> 0]]

\* applyPutLocked and applyDeleteLocked: the greatest operation id wins.
ApplyWrite(d, op) ==
    IF d.map[op.prop].id = NoOp \/ Greater(op.id, d.map[op.prop].id)
    THEN [d EXCEPT !.map[op.prop] =
             [id |-> op.id, deleted |-> op.action = "delete",
              by |-> IF op.action = "put" THEN op.id ELSE NoOp, n |-> 0]]
    ELSE d

\* applyIncrementLocked: adds to what is there, whatever its id, and takes over
\* the id.  An absent or deleted register counts from zero.
ApplyIncrement(d, op) ==
    [d EXCEPT !.map[op.prop] = [id |-> op.id, deleted |-> FALSE, by |-> @.by, n |-> @.n + 1]]

-----------------------------------------------------------------------------
(* The text                                                                *)

IndexOf(text, id) == SelectInSeq(text, LAMBDA e : e.id = id)

Holds(text, id) == IndexOf(text, id) # 0

InsertDirectlyAfter(text, after, id) ==
    InsertAt(text, IndexOf(text, after) + 1,
             [id |-> id, after |-> after, deleted |-> FALSE, vis |-> id])

\* insertAfter: after its reference, at the end if that is unknown, then past
\* the concurrent inserts with greater identities.
InsertAfter(text, after, id) ==
    LET from == IF after = NoOp THEN 0
                ELSE IF Holds(text, after) THEN IndexOf(text, after) ELSE Len(text)
        stop == CHOOSE p \in from..Len(text) :
                    /\ p = Len(text) \/ ~Greater(text[p + 1].id, id)
                    /\ \A q \in from..(p - 1) : Greater(text[q + 1].id, id)
    IN  InsertAt(text, stop + 1, [id |-> id, after |-> after, deleted |-> FALSE, vis |-> id])

\* setVisibility, of each of these elements: the greatest operation id that marked
\* an element wins.
SetVisibility(text, ids, deleted, vis) ==
    [i \in DOMAIN text |->
        IF text[i].id \in ids /\ Greater(vis, text[i].vis)
        THEN [text[i] EXCEPT !.deleted = deleted, !.vis = vis] ELSE text[i]]

\* The runes a splice inserts: consecutive identities, each after the one before.
Run(op) ==
    LET At(i) == <<op.id[1] + i - 1, op.id[2]>>
    IN  [i \in 1..op.run |-> [id |-> At(i), after |-> IF i = 1 THEN op.after ELSE At(i - 1)]]

InsertElem(text, e) ==
    IF Holds(text, e.id) THEN text ELSE InsertAfter(text, e.after, e.id)

InsertRun(text, run) == FoldLeft(InsertElem, text, run)

\* applySpliceLocked, and applyInsertLocked as a splice of one: the deletes, then
\* the runes.
ApplySplice(d, op) ==
    [d EXCEPT !.text = InsertRun(SetVisibility(@, op.dels, TRUE, op.id), Run(op))]

-----------------------------------------------------------------------------
(* Operations                                                              *)

\* applyOpLocked.
ApplyOp(d, op) ==
    CASE op.action \in {"put", "delete"} -> ApplyWrite(d, op)
      [] op.action = "increment" -> ApplyIncrement(d, op)
      [] op.action = "splice" -> ApplySplice(d, op)
      [] op.action \in {"remove", "revive"} ->
            [d EXCEPT !.text = SetVisibility(@, {op.elem}, op.action = "remove", op.id)]

\* The operation ids an operation takes: one, or one per inserted rune.
Width(op) == IF op.action = "splice" /\ op.run > 1 THEN op.run ELSE 1

\* The elements an operation refers to.  applyOpLocked fails, or loses the place,
\* when one is unknown.
Refs(op) ==
    CASE op.action = "splice" -> op.dels \cup ({op.after} \ {NoOp})
      [] op.action \in {"remove", "revive"} -> {op.elem}
      [] OTHER -> {}

AddVisible(ids, e) == IF e.deleted THEN ids ELSE Append(ids, e.id)

VisibleIds(text) == FoldLeft(AddVisible, <<>>, text)

\* The edits of Put, Delete, Increment, InsertAt, DeleteAt, SpliceText,
\* DeleteByElemID and ReviveElem as operations on d with identity id.
LocalOps(d, id) ==
    LET seen == VisibleIds(d.text)
        Cut(i, n) == {seen[j] : j \in (i + 1)..(i + n)}
    IN  {[id |-> id, action |-> e[1], prop |-> e[2]] : e \in MapEdits}
        \cup {[id |-> id, action |-> "splice", run |-> p[2][2],
               after |-> IF p[1] = 0 THEN NoOp ELSE seen[p[1]],
               dels |-> Cut(p[1], p[2][1])] :
                 p \in {q \in (0..Len(seen)) \X Splices : q[1] + q[2][1] <= Len(seen)}}
        \cup {[id |-> id, action |-> e[1], elem |-> e[2]] :
                 e \in MarkEdits \X {x.id : x \in ToSet(d.text)}}

-----------------------------------------------------------------------------
(* What a reader sees, and the order a text must have                      *)

\* Get and TextToString; a deleted or unwritten register has no value.
View(d) == [map |-> [p \in Props |-> IF d.map[p].deleted THEN {}
                                     ELSE {<<d.map[p].by, d.map[p].n>>}],
            text |-> VisibleIds(d.text)]

\* orderListElems: a child follows its reference, siblings run from the newest
\* identity to the oldest.  normalizeSeqOrder puts a loaded text in this order.
OrderListElems(elems) ==
    LET ids == {e.id : e \in elems}
        Children(a) == SetToSortSeq({e.id : e \in {x \in elems : x.after = a}}, Greater)
        walk[a \in ids \cup {NoOp}] ==
            FlattenSeq([i \in DOMAIN Children(a) |-> <<Children(a)[i]>> \o walk[Children(a)[i]]])
    IN  walk[NoOp]
=============================================================================
