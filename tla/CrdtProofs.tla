---------------------------- MODULE CrdtProofs ------------------------------
(***************************************************************************)
(* Strong eventual consistency: replicas that hold the same changes show   *)
(* the same document, for any number of replicas, edits and deliveries,    *)
(* and whatever the hub's queues drop, its Bloom filters report and its    *)
(* goroutines reorder.                                                     *)
(*                                                                         *)
(* The first part is about one document.  What it is worth is decided by   *)
(* the set of operations applied to it: Reflects says how, ApplyKeeps that *)
(* every operation keeps it so, and ReflectsOnce that two documents that   *)
(* reflect the same operations look the same.  The second part is about    *)
(* replicas.  The third shows that the sync protocol over a hub implements *)
(* CrdtReplicas, so that replicas synchronised by it converge.  The fourth *)
(* is about one connection: where no frame is dropped and every client may *)
(* write, it falls silent only when its two ends hold the same changes.    *)
(***************************************************************************)
EXTENDS CrdtSync, FiniteSetTheorems, SequenceTheorems, TLAPS

\* Induction over the runes of a splice and over the elements of a text.
Runs == INSTANCE FoldFacts WITH op <- InsertElem
Shown == INSTANCE FoldFacts WITH op <- AddVisible

OpId == (Nat \ {0}) \X Nat

OpIdOrNone == OpId \cup {NoOp}

Elem == [id : OpId, after : OpIdOrNone, deleted : BOOLEAN, vis : OpId]

Entry == [id : OpIdOrNone, deleted : BOOLEAN, by : OpIdOrNone, n : Nat]

Document == [map : [Props -> Entry], text : Seq(Elem)]

MapOp == [id : OpId, action : {"put", "delete", "increment"}, prop : Props]
SpliceOp == [id : OpId, action : {"splice"}, run : Nat, after : OpIdOrNone, dels : SUBSET OpId]
MarkOp == [id : OpId, action : {"remove", "revive"}, elem : OpId]
Op == MapOp \cup SpliceOp \cup MarkOp

-----------------------------------------------------------------------------
(* What an operation inserts, refers to and marks.                         *)

Nth(op, i) == <<op.id[1] + i - 1, op.id[2]>>

Reference(op, i) == IF i = 1 THEN op.after ELSE Nth(op, i - 1)

Runes(op) == IF op.action = "splice" THEN op.run ELSE 0

Marked(op) == IF op.action = "splice" THEN op.dels
              ELSE IF op.action \in {"remove", "revive"} THEN {op.elem} ELSE {}

\* Two operations that take no operation id in common.
Apart(a, b) ==
    \/ a.id[2] # b.id[2]
    \/ a.id[1] + Width(a) <= b.id[1]
    \/ b.id[1] + Width(b) <= a.id[1]

\* Operations a set of replicas can have made: identities are used once, and an
\* operation is younger than what it refers to.
OpsOK(ops) ==
    /\ ops \subseteq Op
    /\ \A a, b \in ops : a # b => Apart(a, b)
    /\ \A a \in ops : \A x \in Refs(a) : Greater(a.id, x)

-----------------------------------------------------------------------------
(* The order of a text: an element comes after its reference, and those in *)
(* between are younger than the element.                                   *)

TextIds(text) == {text[k].id : k \in 1..Len(text)}

Distinct(text) == \A i, j \in 1..Len(text) : text[i].id = text[j].id => i = j

RefersTo(text, k, j) ==
    IF text[k].after = NoOp THEN j = 0 ELSE j # 0 /\ text[j].id = text[k].after

Placed(text) ==
    \A k \in 1..Len(text) :
        /\ text[k].after # NoOp => Greater(text[k].id, text[k].after)
        /\ \E j \in 0..(k - 1) :
              /\ RefersTo(text, k, j)
              /\ \A i \in (j + 1)..(k - 1) : Greater(text[i].id, text[k].id)

-----------------------------------------------------------------------------
(* A document reflects a set of operations.                                *)

Writes(ops, p) == {op \in ops : op.action \in {"put", "delete"} /\ op.prop = p}

Increments(ops, p) == {op \in ops : op.action = "increment" /\ op.prop = p}

Written(op) == [id |-> op.id, deleted |-> op.action = "delete",
                by |-> IF op.action = "put" THEN op.id ELSE NoOp, n |-> 0]

MapReflects(map, ops) ==
    \A p \in Props :
        /\ map[p].id = NoOp \/ \E op \in ops : op.id = map[p].id
        /\ Increments(ops, p) = {} =>
              \/ Writes(ops, p) = {} /\ map[p] = NoEntry
              \/ \E w \in Writes(ops, p) :
                    map[p] = Written(w) /\ \A v \in Writes(ops, p) : ~Greater(v.id, w.id)
        /\ Writes(ops, p) = {} =>
              /\ IsFiniteSet(Increments(ops, p))
              /\ map[p].by = NoOp /\ map[p].n = Cardinality(Increments(ops, p))
              /\ map[p].deleted <=> Increments(ops, p) = {}

VisibilityReflects(e, ops) ==
    /\ \/ e.vis = e.id /\ ~e.deleted
       \/ \E m \in ops : /\ e.id \in Marked(m) /\ e.vis = m.id
                         /\ e.deleted <=> m.action # "revive"
    /\ \A m \in ops : e.id \in Marked(m) => ~Greater(m.id, e.vis)

TextReflects(text, ops) ==
    /\ \A op \in ops : /\ Refs(op) \subseteq TextIds(text)
                       /\ \A i \in 1..Runes(op) : Nth(op, i) \in TextIds(text)
    /\ \A k \in 1..Len(text) :
          /\ \E op \in ops : \E i \in 1..Runes(op) :
                text[k].id = Nth(op, i) /\ text[k].after = Reference(op, i)
          /\ VisibilityReflects(text[k], ops)

Reflects(d, ops) ==
    /\ MapReflects(d.map, ops)
    /\ Distinct(d.text) /\ Placed(d.text)
    /\ TextReflects(d.text, ops)

-----------------------------------------------------------------------------
(* Operation ids are totally ordered.                                      *)

\* OpID.Greater is a strict total order.
LEMMA GreaterOrder ==
    ASSUME NEW a \in OpIdOrNone, NEW b \in OpIdOrNone, NEW c \in OpIdOrNone
    PROVE  /\ ~Greater(a, a)
           /\ Greater(a, b) => ~Greater(b, a)
           /\ Greater(a, b) /\ Greater(b, c) => Greater(a, c)
           /\ a = b \/ Greater(a, b) \/ Greater(b, a)
<1>1. \A x \in OpIdOrNone : x = <<x[1], x[2]>> /\ x[1] \in Nat /\ x[2] \in Nat
  BY DEF OpIdOrNone, OpId, NoOp
<1> QED
  BY <1>1 DEF Greater

\* An operation and the elements it inserts have identities.
LEMMA OpTypes ==
    ASSUME NEW op \in Op
    PROVE  /\ op.id \in OpId
           /\ Width(op) \in Nat \ {0}
           /\ Runes(op) \in Nat
           /\ Runes(op) <= Width(op)
           /\ \A i \in 1..Runes(op) : Nth(op, i) \in OpId
           /\ \A i \in 1..Runes(op) : Reference(op, i) \in OpIdOrNone
           /\ Marked(op) \in SUBSET OpId
           /\ Marked(op) \subseteq Refs(op)
           /\ op.action = "splice" => op \in SpliceOp
           /\ op.action \in {"remove", "revive"} => op \in MarkOp
           /\ op.action \in {"put", "delete", "increment"} => op \in MapOp
<1>1. CASE op \in MapOp
  BY <1>1 DEF MapOp, Width, Runes, Marked, OpId
<1>2. CASE op \in SpliceOp
  <2>1. op.id \in OpId /\ op.run \in Nat /\ op.after \in OpIdOrNone /\ op.dels \in SUBSET OpId
        /\ op.action = "splice"
    BY <1>2 DEF SpliceOp
  <2>2. op.id[1] \in Nat \ {0} /\ op.id[2] \in Nat
    BY <2>1 DEF OpId
  <2>3. \A i \in 1..Runes(op) : Nth(op, i) \in OpId
    BY <2>1, <2>2 DEF Nth, Runes, OpId
  <2>4. \A i \in 1..Runes(op) : Reference(op, i) \in OpIdOrNone
    BY <2>1, <2>2 DEF Nth, Runes, OpId, OpIdOrNone, Reference
  <2> QED
    BY <1>2, <2>1, <2>2, <2>3, <2>4 DEF Width, Runes, Marked, Refs
<1>3. CASE op \in MarkOp
  BY <1>3 DEF MarkOp, Width, Runes, Marked, Refs
<1> QED
  BY <1>1, <1>2, <1>3 DEF Op

\* Operations that take an operation id in common are the same operation.
LEMMA SameOp ==
    ASSUME NEW ops, OpsOK(ops), NEW a \in ops, NEW b \in ops
    PROVE  /\ a.id = b.id => a = b
           /\ \A i \in 1..Runes(a), j \in 1..Runes(b) : Nth(a, i) = Nth(b, j) => a = b /\ i = j
<1>1. a \in Op /\ b \in Op /\ (a # b => Apart(a, b))
  BY DEF OpsOK
<1>2. /\ a.id \in OpId /\ b.id \in OpId /\ Width(a) \in Nat \ {0} /\ Width(b) \in Nat \ {0}
      /\ Runes(a) \in Nat /\ Runes(b) \in Nat /\ Runes(a) <= Width(a) /\ Runes(b) <= Width(b)
  BY <1>1, OpTypes
<1>3. a.id[1] \in Nat /\ b.id[1] \in Nat
  BY <1>2 DEF OpId
<1>4. a.id = b.id => a = b
  BY <1>1, <1>2, <1>3 DEF Apart
<1>5. ASSUME NEW i \in 1..Runes(a), NEW j \in 1..Runes(b), Nth(a, i) = Nth(b, j)
      PROVE  a = b /\ i = j
  <2>1. a.id[1] + i - 1 = b.id[1] + j - 1 /\ a.id[2] = b.id[2]
    BY <1>5 DEF Nth
  <2>2. a = b
    BY <1>1, <1>2, <1>3, <2>1 DEF Apart
  <2> QED
    BY <1>2, <1>3, <2>1, <2>2
<1> QED
  BY <1>4, <1>5

-----------------------------------------------------------------------------
(* Where an element is found and put.                                      *)

\* The fields of the elements of a text.
LEMMA ElemTypes ==
    ASSUME NEW text \in Seq(Elem)
    PROVE  /\ Len(text) \in Nat /\ DOMAIN text = 1..Len(text)
           /\ \A k \in 1..Len(text) :
                 /\ text[k] \in Elem /\ text[k].id \in OpId /\ text[k].vis \in OpId
                 /\ text[k].after \in OpIdOrNone /\ text[k].deleted \in BOOLEAN
           /\ TextIds(text) \in SUBSET OpId
<1>1. Len(text) \in Nat /\ DOMAIN text = 1..Len(text) /\ \A k \in 1..Len(text) : text[k] \in Elem
  OBVIOUS
<1>2. \A e \in Elem : /\ e.id \in OpId /\ e.vis \in OpId /\ e.after \in OpIdOrNone
                      /\ e.deleted \in BOOLEAN
  BY DEF Elem
<1> QED
  BY <1>1, <1>2 DEF TextIds

\* locate and contains find an element by its identity.
LEMMA IndexIs ==
    ASSUME NEW text \in Seq(Elem), Distinct(text), NEW id
    PROVE  /\ \A k \in 1..Len(text) : text[k].id = id => IndexOf(text, id) = k
           /\ id \notin TextIds(text) => IndexOf(text, id) = 0
           /\ Holds(text, id) <=> id \in TextIds(text)
<1> DEFINE I == {i \in 1..Len(text) : text[i].id = id}
<1>1. IndexOf(text, id) = IF I # {} THEN Min(I) ELSE 0
  BY DEF IndexOf, SelectInSeq
<1>2. ASSUME NEW k \in 1..Len(text), text[k].id = id PROVE IndexOf(text, id) = k
  <2>1. I = {k}
    BY <1>2 DEF Distinct
  <2>2. k \in Int /\ Min({k}) = k
    BY DEF Min
  <2> QED
    BY <1>1, <2>1, <2>2
<1>3. ASSUME id \notin TextIds(text) PROVE IndexOf(text, id) = 0
  <2>1. I = {}
    BY <1>3 DEF TextIds
  <2> QED
    BY <1>1, <2>1
<1>4. Holds(text, id) <=> id \in TextIds(text)
  <2>1. ASSUME id \in TextIds(text) PROVE IndexOf(text, id) # 0
    <3>1. PICK k \in 1..Len(text) : text[k].id = id
      BY <2>1 DEF TextIds
    <3> QED
      BY <1>2, <3>1
  <2> QED
    BY <1>3, <2>1 DEF Holds
<1> QED
  BY <1>2, <1>3, <1>4

\* What InsertAt puts where.
LEMMA Inserting ==
    ASSUME NEW S, NEW s \in Seq(S), NEW q \in 1..(Len(s) + 1), NEW e \in S,
           NEW t, t = InsertAt(s, q, e)
    PROVE  /\ t \in Seq(S) /\ Len(t) = Len(s) + 1
           /\ \A i \in 1..(Len(s) + 1) :
                 t[i] = IF i < q THEN s[i] ELSE IF i = q THEN e ELSE s[i - 1]
<1> DEFINE a == SubSeq(s, 1, q - 1)
           b == SubSeq(s, q, Len(s))
           c == a \o <<e>>
<1>0. Len(s) \in Nat /\ \A i \in 1..Len(s) : s[i] \in S
  OBVIOUS
<1>1. a \in Seq(S) /\ Len(a) = q - 1 /\ \A i \in 1..(q - 1) : a[i] = s[i]
  BY <1>0, SubSeqProperties
<1>2. b \in Seq(S) /\ Len(b) = Len(s) - q + 1 /\ \A i \in 1..(Len(s) - q + 1) : b[i] = s[q + i - 1]
  BY <1>0, SubSeqProperties
<1>3. t = c \o b
  BY DEF InsertAt
<1>4. <<e>> \in Seq(S) /\ Len(<<e>>) = 1 /\ <<e>>[1] = e
  OBVIOUS
<1> HIDE DEF a, b
<1>5. c \in Seq(S) /\ Len(c) = q /\ \A i \in 1..q : c[i] = IF i < q THEN s[i] ELSE e
  BY <1>1, <1>4, ConcatProperties
<1> HIDE DEF c
<1>6. /\ c \o b \in Seq(S) /\ Len(c \o b) = Len(c) + Len(b)
      /\ \A i \in 1..(Len(c) + Len(b)) :
            (c \o b)[i] = IF i <= Len(c) THEN c[i] ELSE b[i - Len(c)]
  BY <1>2, <1>5, ConcatProperties
<1>7. Len(c) + Len(b) = Len(s) + 1
  BY <1>0, <1>2, <1>5
<1>8. ASSUME NEW i \in 1..(Len(s) + 1)
      PROVE  t[i] = IF i < q THEN s[i] ELSE IF i = q THEN e ELSE s[i - 1]
  <2>1. t[i] = IF i <= q THEN c[i] ELSE b[i - q]
    BY <1>3, <1>5, <1>6, <1>7
  <2>2. CASE i <= q
    BY <1>5, <2>1, <2>2
  <2>3. CASE i > q
    <3>1. i - q \in 1..(Len(s) - q + 1) /\ q + (i - q) - 1 = i - 1
      BY <1>0, <2>3
    <3> QED
      BY <1>2, <2>1, <2>3, <3>1
  <2> QED
    BY <1>0, <2>2, <2>3
<1> QED
  BY <1>3, <1>6, <1>7, <1>8

NewElem(after, id) == [id |-> id, after |-> after, deleted |-> FALSE, vis |-> id]

\* insertAfter puts the element at p: after its reference f, past the greater
\* identities that follow it.
InsertedAt(text, after, id, f, p) ==
    /\ f <= p
    /\ IF after = NoOp THEN f = 0 ELSE f # 0 /\ text[f].id = after
    /\ p = Len(text) \/ ~Greater(text[p + 1].id, id)
    /\ \A q \in f..(p - 1) : Greater(text[q + 1].id, id)
    /\ InsertAfter(text, after, id) = InsertAt(text, p + 1, NewElem(after, id))

\* insertAfter always stops at a place.
LEMMA InsertPlace ==
    ASSUME NEW text \in Seq(Elem), Distinct(text), NEW id \in OpId,
           NEW after \in TextIds(text) \cup {NoOp}
    PROVE  \E f, p \in 0..Len(text) : InsertedAt(text, after, id, f, p)
<1>0. Len(text) \in Nat /\ \A k \in 1..Len(text) : text[k] \in Elem
  OBVIOUS
<1> DEFINE from == IF after = NoOp THEN 0
                   ELSE IF Holds(text, after) THEN IndexOf(text, after) ELSE Len(text)
           Q(p) == /\ p = Len(text) \/ ~Greater(text[p + 1].id, id)
                   /\ \A q \in from..(p - 1) : Greater(text[q + 1].id, id)
           stop == CHOOSE p \in from..Len(text) : Q(p)
<1>1. from \in 0..Len(text) /\ (IF after = NoOp THEN from = 0 ELSE from # 0 /\ text[from].id = after)
  <2>1. CASE after = NoOp
    BY <1>0, <2>1
  <2>2. CASE after # NoOp
    <3>1. PICK k \in 1..Len(text) : text[k].id = after
      BY <2>2 DEF TextIds
    <3>2. IndexOf(text, after) = k /\ Holds(text, after)
      BY <3>1, IndexIs DEF TextIds
    <3> QED
      BY <1>0, <2>2, <3>1, <3>2
  <2> QED
    BY <2>1, <2>2
<1> HIDE DEF from
<1> DEFINE T == {p \in from..Len(text) : p = Len(text) \/ ~Greater(text[p + 1].id, id)}
<1>2. T \in SUBSET Nat /\ Len(text) \in T
  BY <1>0, <1>1
<1>3. PICK p \in T : \A m \in T : p <= m
  <2>1. T # {}
    BY <1>2
  <2> HIDE DEF T
  <2> QED
    BY <1>2, <2>1, Runs!Least
<1>4. ASSUME NEW q \in from..(p - 1) PROVE Greater(text[q + 1].id, id)
  <2>1. q \in from..Len(text) /\ q # Len(text) /\ ~(p <= q)
    BY <1>0, <1>1, <1>3
  <2> QED
    BY <1>3, <2>1
<1>5. p \in from..Len(text) /\ Q(p)
  BY <1>3, <1>4
<1>6. stop \in from..Len(text) /\ Q(stop)
  <2> HIDE DEF Q
  <2> QED
    BY <1>5
<1>7. InsertAfter(text, after, id) = InsertAt(text, stop + 1, NewElem(after, id))
  BY DEF InsertAfter, NewElem, from
<1> HIDE DEF stop
<1>8. from \in 0..Len(text) /\ stop \in 0..Len(text) /\ from <= stop
  BY <1>0, <1>1, <1>6
<1>9. InsertedAt(text, after, id, from, stop)
  BY <1>1, <1>6, <1>7, <1>8 DEF InsertedAt
<1> QED
  BY <1>8, <1>9

\* What inserting an element does to a text, place by place.
LEMMA InsertEffect ==
    ASSUME NEW text \in Seq(Elem), NEW id \in OpId, NEW after \in OpIdOrNone,
           NEW f \in 0..Len(text), NEW p \in 0..Len(text),
           InsertedAt(text, after, id, f, p)
    PROVE  LET t == InsertAfter(text, after, id) IN
           /\ t \in Seq(Elem) /\ Len(t) = Len(text) + 1 /\ Len(text) \in Nat
           /\ t[p + 1] = NewElem(after, id)
           /\ \A i \in 1..p : t[i] = text[i]
           /\ \A i \in (p + 1)..Len(text) : t[i + 1] = text[i]
           /\ TextIds(t) = TextIds(text) \cup {id}
<1> DEFINE t == InsertAfter(text, after, id)
<1>0. Len(text) \in Nat /\ NewElem(after, id) \in Elem /\ NewElem(after, id).id = id
  BY DEF Elem, NewElem
<1>1. t = InsertAt(text, p + 1, NewElem(after, id))
  BY DEF InsertedAt
<1> HIDE DEF t
<1>2. /\ t \in Seq(Elem) /\ Len(t) = Len(text) + 1
      /\ \A i \in 1..(Len(text) + 1) :
            t[i] = IF i <= p THEN text[i]
                   ELSE IF i = p + 1 THEN NewElem(after, id) ELSE text[i - 1]
  <2> DEFINE e == NewElem(after, id)
             q == p + 1
  <2>1. e \in Elem /\ t = InsertAt(text, q, e) /\ q \in 1..(Len(text) + 1)
    BY <1>0, <1>1
  <2> HIDE DEF e, q
  <2>2. /\ t \in Seq(Elem) /\ Len(t) = Len(text) + 1
        /\ \A i \in 1..(Len(text) + 1) :
              t[i] = IF i < q THEN text[i] ELSE IF i = q THEN e ELSE text[i - 1]
    BY <2>1, Inserting, SMTT(30)
  <2> QED
    BY <1>0, <2>2 DEF e, q
<1>3. t[p + 1] = NewElem(after, id)
  BY <1>0, <1>2
<1>4. \A i \in 1..p : t[i] = text[i]
  BY <1>0, <1>2
<1>5. ASSUME NEW i \in (p + 1)..Len(text) PROVE t[i + 1] = text[i]
  <2>1. i + 1 \in 1..(Len(text) + 1) /\ ~(i + 1 <= p) /\ i + 1 # p + 1 /\ (i + 1) - 1 = i
    BY <1>0
  <2> QED
    BY <1>2, <2>1
<1>6. TextIds(t) = TextIds(text) \cup {id}
  <2>1. \A k \in 1..Len(t) : t[k].id \in TextIds(text) \cup {id}
    <3> SUFFICES ASSUME NEW k \in 1..Len(t) PROVE t[k].id \in TextIds(text) \cup {id}
      OBVIOUS
    <3>1. k <= p \/ k = p + 1 \/ (k - 1 \in 1..Len(text) /\ k > p + 1)
      BY <1>0, <1>2
    <3>2. CASE k <= p
      BY <1>0, <1>4, <3>2 DEF TextIds
    <3>3. CASE k = p + 1
      BY <1>0, <1>3, <3>3
    <3>4. CASE k - 1 \in 1..Len(text) /\ k > p + 1
      <4>1. k - 1 \in (p + 1)..Len(text) /\ (k - 1) + 1 = k
        BY <1>0, <3>4
      <4> QED
        BY <1>5, <3>4, <4>1 DEF TextIds
    <3> QED
      BY <3>1, <3>2, <3>3, <3>4
  <2>2. \A k \in 1..Len(text) : text[k].id \in TextIds(t)
    <3> SUFFICES ASSUME NEW k \in 1..Len(text) PROVE text[k].id \in TextIds(t)
      OBVIOUS
    <3>1. k \in 1..Len(t) /\ k + 1 \in 1..Len(t)
      BY <1>0, <1>2
    <3>2. k <= p \/ k \in (p + 1)..Len(text)
      BY <1>0
    <3> QED
      BY <1>4, <1>5, <3>1, <3>2 DEF TextIds
  <2>3. id \in TextIds(t)
    <3>1. p + 1 \in 1..Len(t)
      BY <1>0, <1>2
    <3> QED
      BY <1>0, <1>3, <3>1 DEF TextIds
  <2> QED
    BY <2>1, <2>2, <2>3 DEF TextIds
<1> QED
  BY <1>0, <1>2, <1>3, <1>4, <1>5, <1>6 DEF t

\* An element that insertAfter passed over, or put off, is on the right side of the
\* new one: a text stays in order.
LEMMA InsertKeepsOrder ==
    ASSUME NEW text \in Seq(Elem), Distinct(text), Placed(text),
           NEW id \in OpId, id \notin TextIds(text),
           NEW after \in TextIds(text) \cup {NoOp}, after # NoOp => Greater(id, after)
    PROVE  Distinct(InsertAfter(text, after, id)) /\ Placed(InsertAfter(text, after, id))
<1> DEFINE t == InsertAfter(text, after, id)
<1>0. \A k \in 1..Len(text) : text[k] \in Elem /\ text[k].id \in OpId /\ text[k].id # id
  <2> SUFFICES ASSUME NEW k \in 1..Len(text)
               PROVE  text[k] \in Elem /\ text[k].id \in OpId /\ text[k].id # id
    OBVIOUS
  <2>1. text[k] \in Elem
    OBVIOUS
  <2> QED
    BY <2>1 DEF Elem, TextIds
<1>1. after \in OpIdOrNone
  BY <1>0 DEF TextIds, OpIdOrNone
<1>2. PICK f \in 0..Len(text), p \in 0..Len(text) : InsertedAt(text, after, id, f, p)
  BY InsertPlace
<1>3. /\ t \in Seq(Elem) /\ Len(t) = Len(text) + 1 /\ Len(text) \in Nat
      /\ t[p + 1] = NewElem(after, id)
      /\ \A i \in 1..p : t[i] = text[i]
      /\ \A i \in (p + 1)..Len(text) : t[i + 1] = text[i]
  BY <1>1, <1>2, InsertEffect
<1>4. /\ f <= p
      /\ IF after = NoOp THEN f = 0 ELSE f # 0 /\ text[f].id = after
      /\ p = Len(text) \/ ~Greater(text[p + 1].id, id)
      /\ \A q \in f..(p - 1) : Greater(text[q + 1].id, id)
  BY <1>2 DEF InsertedAt
<1> HIDE DEF t
<1>5. t[p + 1].id = id /\ t[p + 1].after = after
  BY <1>3 DEF NewElem
<1>6. \A i \in (p + 2)..Len(t) : i - 1 \in (p + 1)..Len(text) /\ t[i] = text[i - 1]
  <2> SUFFICES ASSUME NEW i \in (p + 2)..Len(t)
               PROVE  i - 1 \in (p + 1)..Len(text) /\ t[i] = text[i - 1]
    OBVIOUS
  <2>1. i - 1 \in (p + 1)..Len(text) /\ (i - 1) + 1 = i
    BY <1>3
  <2> QED
    BY <1>3, <2>1
<1>7. Distinct(t)
  <2> SUFFICES ASSUME NEW i \in 1..Len(t), NEW j \in 1..Len(t), t[i].id = t[j].id PROVE i = j
    BY DEF Distinct
  <2> DEFINE Old(k) == IF k <= p THEN k ELSE k - 1
  <2>1. \A k \in 1..Len(t) : k = p + 1 \/ (Old(k) \in 1..Len(text) /\ t[k] = text[Old(k)])
    BY <1>3, <1>6
  <2>2. CASE i = p + 1 \/ j = p + 1
    BY <1>0, <1>5, <2>1, <2>2
  <2>3. CASE i # p + 1 /\ j # p + 1
    <3>1. Old(i) = Old(j)
      BY <2>1, <2>3, ZenonT(30) DEF Distinct
    <3> QED
      BY <1>3, <2>3, <3>1
  <2> QED
    BY <2>2, <2>3
<1>8. Placed(t)
  <2> SUFFICES ASSUME NEW k \in 1..Len(t)
               PROVE  /\ t[k].after # NoOp => Greater(t[k].id, t[k].after)
                      /\ \E j \in 0..(k - 1) :
                            /\ RefersTo(t, k, j)
                            /\ \A i \in (j + 1)..(k - 1) : Greater(t[i].id, t[k].id)
    BY DEF Placed
  <2>1. CASE k = p + 1
    <3>1. f \in 0..(k - 1) /\ RefersTo(t, k, f)
      BY <1>3, <1>4, <1>5, <2>1 DEF RefersTo
    <3>2. ASSUME NEW i \in (f + 1)..(k - 1) PROVE Greater(t[i].id, t[k].id)
      <4>1. i - 1 \in f..(p - 1) /\ (i - 1) + 1 = i /\ i \in 1..p
        BY <1>3, <2>1
      <4> QED
        BY <1>3, <1>4, <1>5, <2>1, <4>1
    <3> QED
      BY <1>5, <2>1, <3>1, <3>2
  <2>2. CASE k <= p
    <3>1. k \in 1..Len(text) /\ t[k] = text[k]
      BY <1>3, <2>2
    <3>2. PICK j \in 0..(k - 1) : /\ RefersTo(text, k, j)
                                  /\ \A i \in (j + 1)..(k - 1) : Greater(text[i].id, text[k].id)
      BY <3>1 DEF Placed
    <3>3. RefersTo(t, k, j)
      BY <1>3, <2>2, <3>1, <3>2 DEF RefersTo
    <3>4. ASSUME NEW i \in (j + 1)..(k - 1) PROVE Greater(t[i].id, t[k].id)
      <4>1. i \in 1..p
        BY <1>3, <2>2, <3>1, <3>2
      <4> QED
        BY <1>3, <3>1, <3>2, <4>1
    <3> QED
      BY <3>1, <3>3, <3>4 DEF Placed
  <2>3. CASE k > p + 1
    <3> DEFINE m == k - 1
    <3>1. m \in (p + 1)..Len(text) /\ m \in 1..Len(text) /\ t[k] = text[m]
      BY <1>3, <1>6, <2>3
    <3>2. PICK j \in 0..(m - 1) : /\ RefersTo(text, m, j)
                                  /\ \A i \in (j + 1)..(m - 1) : Greater(text[i].id, text[m].id)
      BY <3>1 DEF Placed
    <3> DEFINE n == IF j <= p THEN j ELSE j + 1
    <3>3. n \in 0..(k - 1) /\ RefersTo(t, k, n)
      <4>1. n \in 0..(k - 1)
        BY <1>3, <3>1, <3>2
      <4>2. j # 0 => t[n] = text[j]
        <5>1. CASE j <= p
          BY <1>3, <3>2, <5>1
        <5>2. CASE j > p
          <6>1. j \in (p + 1)..Len(text)
            BY <1>3, <3>1, <3>2, <5>2
          <6> QED
            BY <1>3, <5>2, <6>1
        <5> QED
          BY <1>3, <3>1, <3>2, <5>1, <5>2
      <4>3. n = 0 <=> j = 0
        BY <1>3, <3>2
      <4> QED
        BY <3>1, <3>2, <4>1, <4>2, <4>3 DEF RefersTo
    <3>4. j <= p => Greater(id, text[m].id)
      <4> SUFFICES ASSUME j <= p PROVE Greater(id, text[m].id)
        OBVIOUS
      <4>1. p + 1 \in 1..Len(text) /\ p # Len(text)
        BY <1>3, <3>1
      <4>2. Greater(id, text[p + 1].id)
        <5>1. text[p + 1].id \in OpId /\ text[p + 1].id # id /\ ~Greater(text[p + 1].id, id)
          BY <1>0, <1>4, <4>1
        <5> QED
          BY <5>1, GreaterOrder DEF OpIdOrNone
      <4>3. CASE m = p + 1
        BY <4>2, <4>3
      <4>4. CASE m # p + 1
        <5>1. p + 1 \in (j + 1)..(m - 1)
          BY <1>3, <3>1, <3>2, <4>4
        <5>2. Greater(text[p + 1].id, text[m].id)
          BY <3>2, <5>1
        <5>3. text[p + 1].id \in OpIdOrNone /\ text[m].id \in OpIdOrNone /\ id \in OpIdOrNone
          BY <1>0, <3>1, <4>1 DEF OpIdOrNone
        <5> QED
          BY <4>2, <5>2, <5>3, GreaterOrder
      <4> QED
        BY <4>3, <4>4
    <3>5. ASSUME NEW i \in (n + 1)..(k - 1) PROVE Greater(t[i].id, t[k].id)
      <4>1. CASE i <= p
        <5>1. i \in 1..p /\ i \in (j + 1)..(m - 1)
          BY <1>3, <3>1, <3>2, <4>1
        <5> QED
          BY <1>3, <3>1, <3>2, <5>1
      <4>2. CASE i = p + 1
        BY <1>3, <1>5, <3>1, <3>2, <3>4, <4>2
      <4>3. CASE i > p + 1
        <5>1. i \in (p + 2)..Len(t) /\ i - 1 \in (j + 1)..(m - 1)
          BY <1>3, <3>1, <3>2, <4>3
        <5> QED
          BY <1>6, <3>1, <3>2, <5>1
      <4>4. i \in Int /\ p \in Int
        BY <1>3, <3>1, <3>2, <3>3
      <4> QED
        BY <4>1, <4>2, <4>3, <4>4
    <3>6. t[k].after # NoOp => Greater(t[k].id, t[k].after)
      BY <3>1 DEF Placed
    <3> HIDE DEF n, m
    <3> QED
      BY <3>3, <3>5, <3>6
  <2> QED
    BY <1>3, <2>1, <2>2, <2>3
<1> QED
  BY <1>7, <1>8 DEF t

-----------------------------------------------------------------------------
(* There is one order for a set of elements.                               *)

\* A set of identities that is not empty has a least one.
LEMMA LeastId ==
    ASSUME NEW T \in SUBSET OpId, T # {}
    PROVE  \E x \in T : \A y \in T : ~Greater(x, y)
<1>0. \A x \in T : x[1] \in Nat /\ x[2] \in Nat
  BY DEF OpId
<1> DEFINE A == {x[1] : x \in T}
<1>1. PICK a \in A : \A m \in A : a <= m
  <2>1. A \in SUBSET Nat /\ A # {}
    BY <1>0
  <2> HIDE DEF A
  <2> QED
    BY <2>1, Runs!Least
<1> DEFINE B == {x[2] : x \in {z \in T : z[1] = a}}
<1>2. PICK b \in B : \A m \in B : b <= m
  <2>1. B \in SUBSET Nat /\ B # {}
    BY <1>0, <1>1
  <2> HIDE DEF B
  <2> QED
    BY <2>1, Runs!Least
<1>3. PICK x \in T : x[1] = a /\ x[2] = b
  BY <1>2
<1>4. ASSUME NEW y \in T PROVE ~Greater(x, y)
  <2>1. a <= y[1] /\ (y[1] = a => b <= y[2])
    BY <1>1, <1>2
  <2> QED
    BY <1>0, <1>3, <2>1 DEF Greater
<1> QED
  BY <1>4

\* x comes before y.
Precedes(text, x, y) ==
    \E i, k \in 1..Len(text) : i < k /\ text[i].id = x /\ text[k].id = y

\* Precedes is a total order of the elements of a text.
LEMMA PrecedesOrder ==
    ASSUME NEW text \in Seq(Elem), Distinct(text), NEW x, NEW y
    PROVE  /\ Precedes(text, x, y) => ~Precedes(text, y, x) /\ x # y
           /\ x \in TextIds(text) /\ y \in TextIds(text)
                 => x = y \/ Precedes(text, x, y) \/ Precedes(text, y, x)
           /\ \A z : Precedes(text, x, y) /\ Precedes(text, y, z) => Precedes(text, x, z)
<1>0. Len(text) \in Nat
  OBVIOUS
<1>1. Precedes(text, x, y) => ~Precedes(text, y, x) /\ x # y
  BY <1>0 DEF Precedes, Distinct
<1>2. x \in TextIds(text) /\ y \in TextIds(text)
         => x = y \/ Precedes(text, x, y) \/ Precedes(text, y, x)
  BY <1>0 DEF Precedes, TextIds
<1>3. ASSUME NEW z, Precedes(text, x, y), Precedes(text, y, z) PROVE Precedes(text, x, z)
  <2>1. PICK i, k \in 1..Len(text) : i < k /\ text[i].id = x /\ text[k].id = y
    BY <1>3 DEF Precedes
  <2>2. PICK j, l \in 1..Len(text) : j < l /\ text[j].id = y /\ text[l].id = z
    BY <1>3 DEF Precedes
  <2>3. k = j
    BY <2>1, <2>2 DEF Distinct
  <2>4. i < l
    BY <1>0, <2>1, <2>2, <2>3
  <2> QED
    BY <2>1, <2>2, <2>4 DEF Precedes
<1> QED
  BY <1>1, <1>2, <1>3

\* An element in a text and its reference there.
LEMMA ReferenceFirst ==
    ASSUME NEW text \in Seq(Elem), Distinct(text), Placed(text), NEW k \in 1..Len(text)
    PROVE  LET x == text[k].id
               a == text[k].after
           IN  /\ a = NoOp => \A y : Precedes(text, y, x) => Greater(y, x)
               /\ a # NoOp => /\ Precedes(text, a, x) /\ Greater(x, a)
                              /\ \A y : Precedes(text, y, x)
                                    => Greater(y, x) \/ y = a \/ Precedes(text, y, a)
<1>0. Len(text) \in Nat
  OBVIOUS
<1>1. PICK j \in 0..(k - 1) : /\ RefersTo(text, k, j)
                              /\ \A i \in (j + 1)..(k - 1) : Greater(text[i].id, text[k].id)
  BY DEF Placed
<1>2. ASSUME NEW y, Precedes(text, y, text[k].id)
      PROVE  Greater(y, text[k].id) \/ \E i \in 1..Len(text) : i <= j /\ text[i].id = y
  <2>1. PICK i, l \in 1..Len(text) : i < l /\ text[i].id = y /\ text[l].id = text[k].id
    BY <1>2 DEF Precedes
  <2>2. l = k
    BY <2>1 DEF Distinct
  <2>3. i <= j \/ i \in (j + 1)..(k - 1)
    BY <1>0, <1>1, <2>1, <2>2
  <2> QED
    BY <1>1, <2>1, <2>3
<1>3. CASE text[k].after = NoOp
  <2>1. j = 0
    BY <1>1, <1>3 DEF RefersTo
  <2> QED
    BY <1>0, <1>2, <1>3, <2>1
<1>4. CASE text[k].after # NoOp
  <2>1. j # 0 /\ text[j].id = text[k].after /\ j \in 1..Len(text) /\ j < k
    BY <1>0, <1>1, <1>4 DEF RefersTo
  <2>2. Precedes(text, text[k].after, text[k].id)
    BY <2>1 DEF Precedes
  <2>3. Greater(text[k].id, text[k].after)
    BY <1>4 DEF Placed
  <2>4. ASSUME NEW y, Precedes(text, y, text[k].id)
        PROVE  Greater(y, text[k].id) \/ y = text[k].after \/ Precedes(text, y, text[k].after)
    <3>1. CASE Greater(y, text[k].id)
      BY <3>1
    <3>2. ASSUME NEW i \in 1..Len(text), i <= j, text[i].id = y
          PROVE  y = text[k].after \/ Precedes(text, y, text[k].after)
      <4>1. i = j \/ i < j
        BY <1>0, <1>1, <3>2
      <4> QED
        BY <2>1, <3>2, <4>1 DEF Precedes
    <3> QED
      BY <1>2, <2>4, <3>1, <3>2
  <2> QED
    BY <1>4, <2>2, <2>3, <2>4
<1> QED
  BY <1>3, <1>4

\* Two texts that put the same elements, with the same references, in order.
Alike(s, t) ==
    /\ s \in Seq(Elem) /\ t \in Seq(Elem)
    /\ Distinct(s) /\ Distinct(t) /\ Placed(s) /\ Placed(t)
    /\ TextIds(s) = TextIds(t)
    /\ \A i \in 1..Len(s), j \in 1..Len(t) : s[i].id = t[j].id => s[i].after = t[j].after

\* Two elements are in the same order in both if all pairs of older elements are:
\* what comes before y, and is neither y's reference nor younger than y, comes
\* before the reference.
LEMMA OlderDecide ==
    ASSUME NEW s, NEW t, Alike(s, t), NEW x \in TextIds(s), NEW y \in TextIds(s),
           Greater(x, y), Precedes(s, x, y), Precedes(t, y, x),
           \A u, v \in TextIds(s) : Greater(x, u) /\ Greater(x, v) /\ Precedes(s, u, v)
                                       => Precedes(t, u, v)
    PROVE  FALSE
<1>0. s \in Seq(Elem) /\ t \in Seq(Elem) /\ Distinct(s) /\ Distinct(t) /\ Placed(s) /\ Placed(t)
      /\ TextIds(s) = TextIds(t)
  BY DEF Alike
<1>1. PICK i \in 1..Len(s) : s[i].id = x
  BY DEF TextIds
<1>2. PICK j \in 1..Len(t) : t[j].id = x
  BY <1>0 DEF TextIds
<1>3. s[i].after = t[j].after
  BY <1>1, <1>2 DEF Alike
<1> DEFINE a == t[j].after
<1>4. ~Greater(y, x)
  <2>1. TextIds(s) \subseteq OpIdOrNone
    BY <1>0, ElemTypes DEF OpIdOrNone
  <2> QED
    BY <2>1, GreaterOrder
<1>5. a # NoOp /\ (y = a \/ Precedes(t, y, a))
  BY <1>0, <1>2, <1>4, ReferenceFirst
<1>6. Precedes(s, a, x) /\ Greater(x, a)
  BY <1>0, <1>1, <1>3, <1>5, ReferenceFirst
<1>7. Precedes(s, a, y) /\ a \in TextIds(s)
  <2>1. Precedes(s, a, y)
    BY <1>0, <1>6, PrecedesOrder
  <2> QED
    BY <2>1 DEF Precedes, TextIds
<1>8. Precedes(t, a, y)
  BY <1>6, <1>7
<1> QED
  BY <1>0, <1>5, <1>8, PrecedesOrder

\* The operations decide which of two elements comes first.
LEMMA OnePrecedence ==
    ASSUME NEW s, NEW t, Alike(s, t)
    PROVE  \A x, y : Precedes(s, x, y) => Precedes(t, x, y)
<1>0. s \in Seq(Elem) /\ t \in Seq(Elem) /\ Distinct(s) /\ Distinct(t)
      /\ TextIds(s) = TextIds(t)
  BY DEF Alike
<1>1. TextIds(s) \in SUBSET OpId
  BY <1>0, ElemTypes
<1>2. Alike(t, s)
  BY DEF Alike
<1> DEFINE Crossed(x, y) == \/ Precedes(s, x, y) /\ Precedes(t, y, x)
                            \/ Precedes(s, y, x) /\ Precedes(t, x, y)
           D == {x \in TextIds(s) : \E y \in TextIds(s) : Greater(x, y) /\ Crossed(x, y)}
<1>3. D = {}
  <2>1. SUFFICES ASSUME D # {} PROVE FALSE
    OBVIOUS
  <2>2. PICK x \in D : \A z \in D : ~Greater(x, z)
    <3>1. D \in SUBSET OpId
      BY <1>1
    <3> HIDE DEF D
    <3> QED
      BY <2>1, <3>1, LeastId
  <2>3. PICK y \in TextIds(s) : Greater(x, y) /\ Crossed(x, y)
    BY <2>2
  <2>4. ASSUME NEW u \in TextIds(s), NEW v \in TextIds(s), Greater(x, u), Greater(x, v)
        PROVE  ~Crossed(u, v)
    <3> SUFFICES ASSUME Crossed(u, v) PROVE FALSE
      OBVIOUS
    <3>1. u # v
      BY <1>0, PrecedesOrder
    <3>2. Greater(u, v) \/ Greater(v, u)
      BY <1>1, <3>1, GreaterOrder DEF OpIdOrNone
    <3>3. u \in D \/ v \in D
      BY <3>2
    <3> QED
      BY <2>2, <2>4, <3>3
  <2>5. ASSUME NEW u \in TextIds(s), NEW v \in TextIds(s), Greater(x, u), Greater(x, v)
        PROVE  Precedes(s, u, v) <=> Precedes(t, u, v)
    <3>1. /\ Precedes(s, u, v) => Precedes(t, u, v)
          /\ Precedes(t, u, v) => Precedes(s, u, v)
      BY <1>0, <2>4, <2>5, PrecedesOrder
    <3> QED
      BY <3>1
  <2> HIDE DEF D
  <2>6. x \in TextIds(s)
    BY <2>2 DEF D
  <2>7. CASE Precedes(s, x, y) /\ Precedes(t, y, x)
    BY <2>3, <2>5, <2>6, <2>7, OlderDecide
  <2>8. CASE Precedes(t, x, y) /\ Precedes(s, y, x)
    <3>1. \A u, v \in TextIds(t) : Greater(x, u) /\ Greater(x, v) /\ Precedes(t, u, v)
                                       => Precedes(s, u, v)
      BY <1>0, <2>5
    <3> QED
      BY <1>0, <1>2, <2>3, <2>6, <2>8, <3>1, OlderDecide
  <2> QED
    BY <2>3, <2>7, <2>8
<1>4. ASSUME NEW x, NEW y, Precedes(s, x, y) PROVE Precedes(t, x, y)
  <2>1. x \in TextIds(s) /\ y \in TextIds(s) /\ x # y
    BY <1>0, <1>4, PrecedesOrder DEF Precedes, TextIds
  <2>2. Greater(x, y) \/ Greater(y, x)
    BY <1>1, <2>1, GreaterOrder DEF OpIdOrNone
  <2>3. ~Precedes(t, y, x)
    BY <1>3, <1>4, <2>1, <2>2
  <2> QED
    BY <1>0, <2>1, <2>3, PrecedesOrder
<1> QED
  BY <1>4

\* The order of a text is decided by its elements and their references, whatever
\* the order they were inserted in.
LEMMA OneOrder ==
    ASSUME NEW s, NEW t, Alike(s, t)
    PROVE  Len(s) = Len(t) /\ \A k \in 1..Len(s) : s[k].id = t[k].id
<1>0. s \in Seq(Elem) /\ t \in Seq(Elem) /\ Distinct(s) /\ Distinct(t)
      /\ TextIds(s) = TextIds(t) /\ Len(s) \in Nat /\ Len(t) \in Nat
  BY DEF Alike
<1> DEFINE Bad == {k \in 1..Len(s) : k > Len(t) \/ s[k].id # t[k].id}
<1>1. Bad = {}
  <2>1. SUFFICES ASSUME Bad # {} PROVE FALSE
    OBVIOUS
  <2>2. PICK k \in Bad : \A m \in Bad : k <= m
    <3>1. Bad \in SUBSET Nat
      OBVIOUS
    <3> HIDE DEF Bad
    <3> QED
      BY <2>1, <3>1, Runs!Least
  <2>3. \A m \in 1..(k - 1) : m \in 1..Len(s) /\ m <= Len(t) /\ s[m].id = t[m].id
    <3> SUFFICES ASSUME NEW m \in 1..(k - 1)
                 PROVE  m \in 1..Len(s) /\ m <= Len(t) /\ s[m].id = t[m].id
      OBVIOUS
    <3>1. m \in 1..Len(s) /\ ~(k <= m)
      BY <1>0
    <3> QED
      BY <1>0, <2>2, <3>1
  <2>4. PICK l \in 1..Len(t) : t[l].id = s[k].id
    BY <1>0 DEF TextIds
  <2>5. l > k
    <3>1. l # k
      BY <1>0, <2>4
    <3>2. ASSUME l < k PROVE FALSE
      <4>1. l \in 1..(k - 1)
        BY <1>0, <3>2
      <4> QED
        BY <1>0, <2>3, <2>4, <3>2, <4>1 DEF Distinct
    <3> QED
      BY <1>0, <3>1, <3>2
  <2>6. k \in 1..Len(t) /\ s[k].id # t[k].id
    BY <1>0, <2>5
  <2>7. PICK m \in 1..Len(s) : s[m].id = t[k].id
    BY <1>0, <2>6 DEF TextIds
  <2>8. m > k
    <3>1. m # k
      BY <2>6, <2>7
    <3>2. ASSUME m < k PROVE FALSE
      <4>1. m \in 1..(k - 1) /\ m \in 1..Len(t)
        BY <1>0, <2>6, <3>2
      <4> QED
        BY <1>0, <2>3, <2>6, <2>7, <3>2, <4>1 DEF Distinct
    <3> QED
      BY <1>0, <3>1, <3>2
  <2>9. Precedes(s, s[k].id, t[k].id) /\ Precedes(t, t[k].id, s[k].id)
    BY <2>4, <2>5, <2>6, <2>7, <2>8 DEF Precedes
  <2> QED
    BY <1>0, <2>9, OnePrecedence, PrecedesOrder
<1>2. Len(t) <= Len(s)
  <2>1. SUFFICES ASSUME Len(s) < Len(t) PROVE FALSE
    BY <1>0
  <2> DEFINE k == Len(s) + 1
  <2>2. k \in 1..Len(t)
    BY <1>0, <2>1
  <2>3. PICK m \in 1..Len(s) : s[m].id = t[k].id
    BY <1>0, <2>2 DEF TextIds
  <2>4. m \in 1..Len(t) /\ s[m].id = t[m].id /\ m # k
    BY <1>0, <1>1, <2>1
  <2> QED
    BY <1>0, <2>2, <2>3, <2>4 DEF Distinct
<1> QED
  BY <1>0, <1>1, <1>2

-----------------------------------------------------------------------------
(* A set of operations is reflected in one way only.                       *)

\* Texts that reflect the same operations are the same text.
LEMMA OneText ==
    ASSUME NEW ops, OpsOK(ops), NEW s \in Seq(Elem), NEW t \in Seq(Elem),
           Distinct(s), Distinct(t), Placed(s), Placed(t),
           TextReflects(s, ops), TextReflects(t, ops)
    PROVE  s = t
<1>0. ops \subseteq Op
  BY DEF OpsOK
<1>1. TextIds(s) = TextIds(t)
  <2>1. ASSUME NEW u, NEW v, TextReflects(u, ops), TextReflects(v, ops)
        PROVE  \A k \in 1..Len(u) : u[k].id \in TextIds(v)
    BY <2>1 DEF TextReflects
  <2>2. \A k \in 1..Len(s) : s[k].id \in TextIds(t)
    BY <2>1
  <2>3. \A k \in 1..Len(t) : t[k].id \in TextIds(s)
    BY <2>1
  <2> QED
    BY <2>2, <2>3 DEF TextIds
<1>2. ASSUME NEW i \in 1..Len(s), NEW j \in 1..Len(t), s[i].id = t[j].id
      PROVE  s[i].after = t[j].after
  <2>1. PICK a \in ops : \E m \in 1..Runes(a) : s[i].id = Nth(a, m) /\ s[i].after = Reference(a, m)
    BY DEF TextReflects
  <2>2. PICK m \in 1..Runes(a) : s[i].id = Nth(a, m) /\ s[i].after = Reference(a, m)
    BY <2>1
  <2>3. PICK b \in ops : \E n \in 1..Runes(b) : t[j].id = Nth(b, n) /\ t[j].after = Reference(b, n)
    BY DEF TextReflects
  <2>4. PICK n \in 1..Runes(b) : t[j].id = Nth(b, n) /\ t[j].after = Reference(b, n)
    BY <2>3
  <2>5. a = b /\ m = n
    <3>1. Nth(a, m) = Nth(b, n)
      BY <1>2, <2>2, <2>4
    <3>2. \A x \in 1..Runes(a), y \in 1..Runes(b) : Nth(a, x) = Nth(b, y) => a = b /\ x = y
      BY SameOp
    <3> QED
      BY <3>1, <3>2
  <2> QED
    BY <2>2, <2>4, <2>5
<1>3. Alike(s, t)
  BY <1>1, <1>2 DEF Alike
<1>4. Len(s) = Len(t) /\ \A k \in 1..Len(s) : s[k].id = t[k].id
  BY <1>3, OneOrder
<1>5. ASSUME NEW k \in 1..Len(s) PROVE s[k] = t[k]
  <2>0. k \in 1..Len(t) /\ s[k].id = t[k].id /\ s[k].after = t[k].after
    BY <1>2, <1>4
  <2>1. VisibilityReflects(s[k], ops) /\ VisibilityReflects(t[k], ops)
    BY <2>0 DEF TextReflects
  <2>2. s[k] \in Elem /\ t[k] \in Elem /\ s[k].deleted \in BOOLEAN /\ t[k].deleted \in BOOLEAN
        /\ s[k].id \in OpId
    BY <2>0, ElemTypes
  <2>3. \A m \in ops : s[k].id \in Marked(m) => Greater(m.id, s[k].id)
    BY <1>0, OpTypes DEF OpsOK
  <2>4. s[k].vis = t[k].vis /\ s[k].deleted = t[k].deleted
    <3>1. CASE s[k].vis = s[k].id /\ ~s[k].deleted
      <4>1. \A m \in ops : s[k].id \notin Marked(m)
        BY <2>1, <2>3, <3>1 DEF VisibilityReflects
      <4> QED
        BY <2>0, <2>1, <2>2, <3>1, <4>1 DEF VisibilityReflects
    <3>2. CASE ~(s[k].vis = s[k].id /\ ~s[k].deleted)
      <4>1. PICK a \in ops : s[k].id \in Marked(a) /\ s[k].vis = a.id
                             /\ (s[k].deleted <=> a.action # "revive")
        BY <2>1, <3>2 DEF VisibilityReflects
      <4>2. t[k].vis # t[k].id
        BY <2>0, <2>1, <2>3, <4>1 DEF VisibilityReflects
      <4>3. PICK b \in ops : t[k].id \in Marked(b) /\ t[k].vis = b.id
                             /\ (t[k].deleted <=> b.action # "revive")
        BY <2>1, <4>2 DEF VisibilityReflects
      <4>4. ~Greater(a.id, b.id) /\ ~Greater(b.id, a.id)
        BY <2>0, <2>1, <4>1, <4>3 DEF VisibilityReflects
      <4>5. a.id = b.id
        BY <1>0, <4>4, OpTypes, GreaterOrder DEF OpIdOrNone
      <4>6. a = b
        BY <4>5, SameOp
      <4> QED
        BY <2>2, <4>1, <4>3, <4>6
    <3> QED
      BY <3>1, <3>2
  <2>5. \A e, f \in Elem : e.id = f.id /\ e.after = f.after /\ e.vis = f.vis
                           /\ e.deleted = f.deleted => e = f
    BY DEF Elem
  <2> QED
    BY <2>0, <2>2, <2>4, <2>5
<1> QED
  BY <1>4, <1>5, SeqEqual

\* A key is written or incremented, not both.
Unmixed(ops) == \A p \in Props : Writes(ops, p) = {} \/ Increments(ops, p) = {}

\* Two documents that reflect the same operations look the same to a reader.
THEOREM ReflectsOnce ==
    ASSUME NEW ops, OpsOK(ops), Unmixed(ops),
           NEW d \in Document, NEW e \in Document, Reflects(d, ops), Reflects(e, ops)
    PROVE  View(d) = View(e)
<1>1. d.text = e.text
  BY OneText DEF Reflects, Document
<1>2. ASSUME NEW p \in Props
      PROVE  /\ d.map[p].deleted <=> e.map[p].deleted
             /\ d.map[p].by = e.map[p].by /\ d.map[p].n = e.map[p].n
  <2>1. MapReflects(d.map, ops) /\ MapReflects(e.map, ops)
    BY DEF Reflects
  <2>2. CASE Writes(ops, p) = {}
    BY <2>1, <2>2 DEF MapReflects
  <2>3. CASE Writes(ops, p) # {} /\ Increments(ops, p) = {}
    <3>1. PICK v \in Writes(ops, p) :
             d.map[p] = Written(v) /\ \A w \in Writes(ops, p) : ~Greater(w.id, v.id)
      BY <2>1, <2>3 DEF MapReflects
    <3>2. PICK w \in Writes(ops, p) :
             e.map[p] = Written(w) /\ \A u \in Writes(ops, p) : ~Greater(u.id, w.id)
      BY <2>1, <2>3 DEF MapReflects
    <3>3. v \in ops /\ w \in ops /\ v \in Op /\ w \in Op
      BY <3>1, <3>2 DEF Writes, OpsOK
    <3>4. v.id = w.id
      BY <3>1, <3>2, <3>3, OpTypes, GreaterOrder DEF OpIdOrNone
    <3>5. v = w
      BY <3>3, <3>4, SameOp
    <3> QED
      BY <3>1, <3>2, <3>5
  <2> QED
    BY <2>2, <2>3 DEF Unmixed
<1> DEFINE Shows(m) == [p \in Props |-> IF m[p].deleted THEN {} ELSE {<<m[p].by, m[p].n>>}]
<1>3. Shows(d.map) = Shows(e.map)
  BY <1>2
<1> QED
  BY <1>1, <1>3 DEF View

-----------------------------------------------------------------------------
(* Every operation is reflected once it is applied.                        *)

\* Marking elements moves none of them.
LEMMA MarkKeeps ==
    ASSUME NEW ops \in SUBSET Op, NEW op \in Op, Runes(op) = 0,
           NEW text \in Seq(Elem), Distinct(text), Placed(text), TextReflects(text, ops),
           Refs(op) \subseteq TextIds(text),
           NEW t, t = SetVisibility(text, Marked(op), op.action # "revive", op.id)
    PROVE  /\ t \in Seq(Elem) /\ Distinct(t) /\ Placed(t)
           /\ TextReflects(t, ops \cup {op})
           /\ TextIds(t) = TextIds(text)
<1>0. /\ Len(text) \in Nat /\ DOMAIN text = 1..Len(text)
      /\ \A k \in 1..Len(text) :
            /\ text[k] \in Elem /\ text[k].id \in OpId /\ text[k].vis \in OpId
            /\ text[k].after \in OpIdOrNone /\ text[k].deleted \in BOOLEAN
  BY ElemTypes
<1>1. op.id \in OpId
  BY OpTypes
<1> DEFINE Wins(k) == text[k].id \in Marked(op) /\ Greater(op.id, text[k].vis)
<1>2. t = [k \in 1..Len(text) |->
             IF Wins(k) THEN [text[k] EXCEPT !.deleted = (op.action # "revive"), !.vis = op.id]
                        ELSE text[k]]
  BY <1>0 DEF SetVisibility
<1>3. ASSUME NEW k \in 1..Len(text)
      PROVE  /\ t[k] \in Elem /\ t[k].id = text[k].id /\ t[k].after = text[k].after
             /\ IF Wins(k) THEN t[k].vis = op.id /\ (t[k].deleted <=> op.action # "revive")
                           ELSE t[k].vis = text[k].vis /\ t[k].deleted = text[k].deleted
  <2> DEFINE del == op.action # "revive"
  <2>1. del \in BOOLEAN
    OBVIOUS
  <2>2. Wins(k) => t[k] = [text[k] EXCEPT !.deleted = del, !.vis = op.id]
    BY <1>2
  <2>3. ~Wins(k) => t[k] = text[k]
    BY <1>2
  <2> HIDE DEF del, Wins
  <2>5. CASE Wins(k)
    <3>1. t[k] = [text[k] EXCEPT !.deleted = del, !.vis = op.id] /\ text[k] \in Elem
      BY <1>0, <2>2, <2>5
    <3>2. t[k] = [id |-> text[k].id, after |-> text[k].after, deleted |-> del, vis |-> op.id]
      BY <3>1 DEF Elem
    <3>3. t[k] \in Elem
      BY <1>0, <1>1, <2>1, <3>2 DEF Elem
    <3>4. t[k].id = text[k].id /\ t[k].after = text[k].after /\ t[k].vis = op.id
          /\ t[k].deleted = del
      BY <3>2
    <3> QED
      BY <2>5, <3>3, <3>4 DEF del
  <2>6. CASE ~Wins(k)
    BY <1>0, <2>3, <2>6
  <2> QED
    BY <2>5, <2>6
<1>4. t \in Seq(Elem) /\ Len(t) = Len(text)
  <2>1. t \in [1..Len(text) -> Elem]
    BY <1>2, <1>3
  <2> QED
    BY <1>0, <2>1
<1>5. TextIds(t) = TextIds(text)
  BY <1>3, <1>4 DEF TextIds
<1>6. Distinct(t)
  BY <1>3, <1>4 DEF Distinct
<1>7. Placed(t)
  <2> SUFFICES ASSUME NEW k \in 1..Len(text)
               PROVE  /\ t[k].after # NoOp => Greater(t[k].id, t[k].after)
                      /\ \E j \in 0..(k - 1) :
                            /\ RefersTo(t, k, j)
                            /\ \A i \in (j + 1)..(k - 1) : Greater(t[i].id, t[k].id)
    BY <1>4 DEF Placed
  <2>1. PICK j \in 0..(k - 1) : /\ RefersTo(text, k, j)
                                /\ \A i \in (j + 1)..(k - 1) : Greater(text[i].id, text[k].id)
    BY DEF Placed
  <2>2. j # 0 => j \in 1..Len(text)
    BY <1>0
  <2>3. RefersTo(t, k, j)
    BY <1>3, <2>1, <2>2 DEF RefersTo
  <2>4. ASSUME NEW i \in (j + 1)..(k - 1) PROVE Greater(t[i].id, t[k].id)
    <3>1. i \in 1..Len(text)
      BY <1>0
    <3> QED
      BY <1>3, <2>1, <3>1
  <2>5. t[k].after # NoOp => Greater(t[k].id, t[k].after)
    BY <1>3 DEF Placed
  <2> QED
    BY <2>3, <2>4, <2>5
<1>8. ASSUME NEW k \in 1..Len(text) PROVE VisibilityReflects(t[k], ops \cup {op})
  <2>1. VisibilityReflects(text[k], ops)
    BY DEF TextReflects
  <2>2. \A m \in ops : m.id \in OpId
    BY OpTypes
  <2>3. CASE Wins(k)
    <3>1. ASSUME NEW m \in ops, text[k].id \in Marked(m) PROVE ~Greater(m.id, op.id)
      <4>1. ~Greater(m.id, text[k].vis)
        BY <2>1, <3>1 DEF VisibilityReflects
      <4>2. m.id \in OpIdOrNone /\ op.id \in OpIdOrNone /\ text[k].vis \in OpIdOrNone
        BY <1>0, <1>1, <2>2 DEF OpIdOrNone
      <4> QED
        BY <2>3, <4>1, <4>2, GreaterOrder
    <3>2. ~Greater(op.id, op.id)
      BY <1>1, GreaterOrder DEF OpIdOrNone
    <3> QED
      BY <1>3, <2>3, <3>1, <3>2 DEF VisibilityReflects
  <2>4. CASE ~Wins(k)
    <3>1. /\ t[k].id = text[k].id /\ t[k].vis = text[k].vis /\ t[k].deleted = text[k].deleted
          /\ t[k].id \in Marked(op) => ~Greater(op.id, t[k].vis)
      BY <1>3, <2>4
    <3> QED
      BY <2>1, <3>1 DEF VisibilityReflects
  <2> QED
    BY <2>3, <2>4
<1>9. TextReflects(t, ops \cup {op})
  <2>1. \A o \in ops \cup {op} : /\ Refs(o) \subseteq TextIds(t)
                                 /\ \A i \in 1..Runes(o) : Nth(o, i) \in TextIds(t)
    BY <1>5 DEF TextReflects
  <2>2. ASSUME NEW k \in 1..Len(text)
        PROVE  \E o \in ops \cup {op} : \E i \in 1..Runes(o) :
                  t[k].id = Nth(o, i) /\ t[k].after = Reference(o, i)
    BY <1>3 DEF TextReflects
  <2>3. \A k \in 1..Len(t) :
           /\ \E o \in ops \cup {op} : \E i \in 1..Runes(o) :
                 t[k].id = Nth(o, i) /\ t[k].after = Reference(o, i)
           /\ VisibilityReflects(t[k], ops \cup {op})
    BY <1>4, <1>8, <2>2
  <2> QED
    BY <2>1, <2>3 DEF TextReflects
<1> QED
  BY <1>4, <1>5, <1>6, <1>7, <1>9

\* A splice as far as its first i runes.
Part(op, i) == [op EXCEPT !.run = i]

\* A part of a splice differs from it in the number of its runes only.
LEMMA PartIs ==
    ASSUME NEW op \in SpliceOp, NEW i \in Nat
    PROVE  /\ Part(op, i) \in Op /\ Part(op, i).id = op.id /\ Part(op, i).action = "splice"
           /\ Runes(Part(op, i)) = i /\ Part(op, op.run) = op
           /\ Marked(Part(op, i)) = Marked(op) /\ Refs(Part(op, i)) = Refs(op)
           /\ \A k : Nth(Part(op, i), k) = Nth(op, k)
           /\ \A k : Reference(Part(op, i), k) = Reference(op, k)
           /\ op.action = "splice" /\ op.run \in Nat /\ op \in Op
<1>1. /\ op.id \in OpId /\ op.action = "splice" /\ op.run \in Nat /\ op.after \in OpIdOrNone
      /\ op.dels \in SUBSET OpId
  BY DEF SpliceOp
<1>2. Part(op, i) = [id |-> op.id, action |-> "splice", run |-> i, after |-> op.after,
                     dels |-> op.dels]
  BY <1>1 DEF Part, SpliceOp
<1>3. Part(op, i) \in SpliceOp
  BY <1>1, <1>2 DEF SpliceOp
<1>4. Part(op, op.run) = op
  BY <1>1 DEF Part, SpliceOp
<1>5. /\ Part(op, i).id = op.id /\ Part(op, i).action = "splice" /\ Part(op, i).run = i
      /\ Part(op, i).after = op.after /\ Part(op, i).dels = op.dels
  BY <1>2
<1> QED
  BY <1>1, <1>3, <1>4, <1>5 DEF Runes, Marked, Refs, Nth, Reference, Op

\* One more rune.
LEMMA RuneKeeps ==
    ASSUME NEW ops, NEW op \in SpliceOp, op \notin ops, OpsOK(ops \cup {op}),
           NEW i \in 1..op.run,
           NEW text \in Seq(Elem), Distinct(text), Placed(text),
           TextReflects(text, ops \cup {Part(op, i - 1)}),
           NEW t, t = InsertElem(text, Run(op)[i])
    PROVE  /\ t \in Seq(Elem) /\ Distinct(t) /\ Placed(t)
           /\ TextReflects(t, ops \cup {Part(op, i)})
<1> DEFINE x == Nth(op, i)
           a == Reference(op, i)
           old == Part(op, i - 1)
           new == Part(op, i)
<1>0. i \in Nat /\ i - 1 \in Nat /\ i \in 1..Runes(op) /\ op \in Op /\ op.action = "splice"
  BY OpTypes, PartIs DEF Runes
<1>1. x \in OpId /\ a \in OpIdOrNone /\ op.id \in OpId /\ op.id[1] \in Nat
  BY <1>0, OpTypes DEF OpId
<1>2. /\ old \in Op /\ old.id = op.id /\ old.action = "splice" /\ Runes(old) = i - 1
      /\ Marked(old) = Marked(op) /\ Refs(old) = Refs(op)
      /\ \A k : Nth(old, k) = Nth(op, k) /\ Reference(old, k) = Reference(op, k)
  BY <1>0, PartIs
<1>3. /\ new \in Op /\ new.id = op.id /\ new.action = "splice" /\ Runes(new) = i
      /\ Marked(new) = Marked(op) /\ Refs(new) = Refs(op)
      /\ \A k : Nth(new, k) = Nth(op, k) /\ Reference(new, k) = Reference(op, k)
  BY <1>0, PartIs
<1> HIDE DEF old, new
<1>4. /\ \A o \in ops \cup {old} : /\ Refs(o) \subseteq TextIds(text)
                                   /\ \A k \in 1..Runes(o) : Nth(o, k) \in TextIds(text)
      /\ \A k \in 1..Len(text) :
            /\ \E o \in ops \cup {old} : \E j \in 1..Runes(o) :
                  text[k].id = Nth(o, j) /\ text[k].after = Reference(o, j)
            /\ VisibilityReflects(text[k], ops \cup {old})
  BY DEF TextReflects, old
<1>5. x \notin TextIds(text)
  <2>1. SUFFICES ASSUME NEW k \in 1..Len(text), text[k].id = x PROVE FALSE
    BY DEF TextIds
  <2>2. PICK o \in ops \cup {old} : \E j \in 1..Runes(o) : x = Nth(o, j)
    BY <1>4, <2>1
  <2>3. PICK j \in 1..Runes(o) : x = Nth(o, j)
    BY <2>2
  <2>4. CASE o \in ops
    <3>1. \A m \in 1..Runes(o), n \in 1..Runes(op) : Nth(o, m) = Nth(op, n) => o = op /\ m = n
      BY <2>4, SameOp
    <3> QED
      BY <1>0, <2>3, <2>4, <3>1
  <2>5. CASE o = old
    <3>1. j \in 1..(i - 1) /\ Nth(op, j) = Nth(op, i)
      BY <1>2, <2>3, <2>5
    <3> QED
      BY <1>0, <1>1, <3>1 DEF Nth
  <2> QED
    BY <2>4, <2>5
<1>6. a \in TextIds(text) \cup {NoOp} /\ (a # NoOp => Greater(x, a))
  <2>1. CASE i = 1
    <3>1. a = op.after /\ x = op.id
      BY <1>1, <2>1 DEF Reference, Nth, OpId
    <3>2. a # NoOp => a \in Refs(op)
      BY <1>0, <3>1 DEF Refs
    <3> QED
      BY <1>2, <1>4, <3>1, <3>2 DEF OpsOK
  <2>2. CASE i # 1
    <3>1. a = Nth(op, i - 1) /\ i - 1 \in 1..Runes(old)
      BY <1>0, <1>2, <2>2 DEF Reference
    <3>2. Greater(x, a)
      BY <1>0, <1>1, <3>1 DEF Nth, Greater
    <3> QED
      BY <1>2, <1>4, <3>1, <3>2
  <2> QED
    BY <2>1, <2>2
<1>7. t = InsertAfter(text, a, x)
  <2>1. Run(op)[i] = [id |-> x, after |-> a]
    BY DEF Run, Nth, Reference
  <2>2. ~Holds(text, x)
    BY <1>5, IndexIs
  <2> QED
    BY <2>1, <2>2 DEF InsertElem
<1> HIDE DEF x, a
<1>8. Distinct(t) /\ Placed(t)
  BY <1>1, <1>5, <1>6, <1>7, InsertKeepsOrder
<1>9. PICK f \in 0..Len(text), p \in 0..Len(text) : InsertedAt(text, a, x, f, p)
  BY <1>1, <1>6, InsertPlace
<1>10. /\ t \in Seq(Elem) /\ Len(t) = Len(text) + 1 /\ Len(text) \in Nat
       /\ t[p + 1] = NewElem(a, x)
       /\ \A k \in 1..p : t[k] = text[k]
       /\ \A k \in (p + 1)..Len(text) : t[k + 1] = text[k]
       /\ TextIds(t) = TextIds(text) \cup {x}
  BY <1>1, <1>7, <1>9, InsertEffect
<1>11. \A o \in ops \cup {new} : /\ Refs(o) \subseteq TextIds(t)
                                 /\ \A k \in 1..Runes(o) : Nth(o, k) \in TextIds(t)
  <2>1. \A k \in 1..i : k = i \/ k \in 1..(i - 1)
    BY <1>0
  <2> QED
    BY <1>2, <1>3, <1>4, <1>10, <2>1 DEF x
<1>12. ASSUME NEW e, NEW o \in ops \cup {old}, NEW j \in 1..Runes(o),
              e.id = Nth(o, j) /\ e.after = Reference(o, j)
       PROVE  \E b \in ops \cup {new} : \E m \in 1..Runes(b) :
                 e.id = Nth(b, m) /\ e.after = Reference(b, m)
  <2>1. CASE o \in ops
    BY <1>12, <2>1
  <2>2. CASE o = old
    <3>1. j \in 1..Runes(new) /\ e.id = Nth(new, j) /\ e.after = Reference(new, j)
      BY <1>0, <1>2, <1>3, <1>12, <2>2
    <3> QED
      BY <3>1
  <2> QED
    BY <2>1, <2>2
<1>13. ASSUME NEW e, VisibilityReflects(e, ops \cup {old})
       PROVE  VisibilityReflects(e, ops \cup {new})
  BY <1>2, <1>3, <1>13 DEF VisibilityReflects
<1>14. ASSUME NEW k \in 1..Len(text)
       PROVE  /\ \E o \in ops \cup {new} : \E j \in 1..Runes(o) :
                    text[k].id = Nth(o, j) /\ text[k].after = Reference(o, j)
              /\ VisibilityReflects(text[k], ops \cup {new})
  BY <1>4, <1>12, <1>13
<1>15. /\ \E o \in ops \cup {new} : \E j \in 1..Runes(o) :
             NewElem(a, x).id = Nth(o, j) /\ NewElem(a, x).after = Reference(o, j)
       /\ VisibilityReflects(NewElem(a, x), ops \cup {new})
  <2>1. NewElem(a, x).id = x /\ NewElem(a, x).after = a /\ NewElem(a, x).vis = x
        /\ ~NewElem(a, x).deleted
    BY DEF NewElem
  <2>2. i \in 1..Runes(new) /\ x = Nth(new, i) /\ a = Reference(new, i)
    BY <1>0, <1>3 DEF x, a
  <2>3. \A m \in ops \cup {new} : x \notin Marked(m)
    <3>1. \A m \in ops : Marked(m) \subseteq Refs(m)
      BY OpTypes DEF OpsOK
    <3>2. Marked(op) \subseteq Refs(op)
      BY <1>0, OpTypes
    <3> QED
      BY <1>2, <1>3, <1>4, <1>5, <3>1, <3>2
  <2> QED
    BY <2>1, <2>2, <2>3 DEF VisibilityReflects
<1>16. ASSUME NEW k \in 1..Len(t)
       PROVE  t[k] = NewElem(a, x) \/ \E m \in 1..Len(text) : t[k] = text[m]
  <2>1. CASE k <= p
    BY <1>10, <2>1
  <2>2. CASE k = p + 1
    BY <1>10, <2>2
  <2>3. CASE k > p + 1
    <3>1. k - 1 \in (p + 1)..Len(text) /\ (k - 1) + 1 = k /\ k - 1 \in 1..Len(text)
      BY <1>10, <2>3
    <3> QED
      BY <1>10, <3>1
  <2> QED
    BY <1>10, <2>1, <2>2, <2>3
<1>17. \A k \in 1..Len(t) :
          /\ \E o \in ops \cup {new} : \E j \in 1..Runes(o) :
                t[k].id = Nth(o, j) /\ t[k].after = Reference(o, j)
          /\ VisibilityReflects(t[k], ops \cup {new})
  <2> SUFFICES ASSUME NEW k \in 1..Len(t)
               PROVE  /\ \E o \in ops \cup {new} : \E j \in 1..Runes(o) :
                            t[k].id = Nth(o, j) /\ t[k].after = Reference(o, j)
                      /\ VisibilityReflects(t[k], ops \cup {new})
    OBVIOUS
  <2>1. CASE t[k] = NewElem(a, x)
    BY <1>15, <2>1
  <2>2. CASE \E m \in 1..Len(text) : t[k] = text[m]
    <3>1. PICK m \in 1..Len(text) : t[k] = text[m]
      BY <2>2
    <3> QED
      BY <1>14, <3>1
  <2> QED
    BY <1>16, <2>1, <2>2
<1> QED
  BY <1>8, <1>10, <1>11, <1>17 DEF TextReflects, new

\* A splice, its deletes and then its runes one by one.
LEMMA SpliceKeeps ==
    ASSUME NEW ops, NEW op \in SpliceOp, op \notin ops, OpsOK(ops \cup {op}),
           NEW text \in Seq(Elem), Distinct(text), Placed(text), TextReflects(text, ops),
           Refs(op) \subseteq TextIds(text),
           NEW t, t = InsertRun(SetVisibility(text, op.dels, TRUE, op.id), Run(op))
    PROVE  /\ t \in Seq(Elem) /\ Distinct(t) /\ Placed(t)
           /\ TextReflects(t, ops \cup {op})
<1> DEFINE base == SetVisibility(text, op.dels, TRUE, op.id)
           A == [i \in 0..op.run |->
                    {s \in Seq(Elem) : /\ Distinct(s) /\ Placed(s)
                                       /\ TextReflects(s, ops \cup {Part(op, i)})}]
<1>0. op.run \in Nat /\ op.action = "splice" /\ op \in Op /\ Part(op, op.run) = op
  BY PartIs
<1>1. base \in A[0]
  <2>1. /\ Part(op, 0) \in Op /\ Runes(Part(op, 0)) = 0 /\ Part(op, 0).id = op.id
        /\ Part(op, 0).action = "splice" /\ Marked(Part(op, 0)) = Marked(op)
        /\ Refs(Part(op, 0)) = Refs(op)
    BY PartIs
  <2>2. Marked(op) = op.dels
    BY <1>0 DEF Marked
  <2>3. base = SetVisibility(text, Marked(Part(op, 0)), Part(op, 0).action # "revive", Part(op, 0).id)
    BY <2>1, <2>2
  <2>4. ops \in SUBSET Op
    BY DEF OpsOK
  <2> HIDE DEF base
  <2>5. /\ base \in Seq(Elem) /\ Distinct(base) /\ Placed(base)
        /\ TextReflects(base, ops \cup {Part(op, 0)})
    BY <2>1, <2>3, <2>4, MarkKeeps
  <2>6. 0 \in 0..op.run
    BY <1>0
  <2> QED
    BY <2>5, <2>6
<1> HIDE DEF base
<1>2. ASSUME NEW i \in 1..op.run, NEW s \in A[i - 1] PROVE InsertElem(s, Run(op)[i]) \in A[i]
  <2>1. i \in 0..op.run /\ i - 1 \in 0..op.run
    BY <1>0
  <2>2. /\ s \in Seq(Elem) /\ Distinct(s) /\ Placed(s)
        /\ TextReflects(s, ops \cup {Part(op, i - 1)})
    BY <2>1
  <2> DEFINE u == InsertElem(s, Run(op)[i])
  <2> HIDE DEF A, u
  <2>3. /\ u \in Seq(Elem) /\ Distinct(u) /\ Placed(u)
        /\ TextReflects(u, ops \cup {Part(op, i)})
    BY <2>2, RuneKeeps DEF u
  <2> QED
    BY <2>1, <2>3 DEF A, u
<1>3. DOMAIN Run(op) = 1..op.run
  BY DEF Run
<1>4. t = Runs!Fold(base, Run(op))
  BY DEF base, InsertRun, Runs!Fold, FoldLeft, MapThenFoldSet, Max,
         Runs!MapThenFoldSet, Runs!Max
<1>5. Runs!Fold(base, Run(op)) \in A[op.run]
  <2> HIDE DEF A
  <2> QED
    BY <1>0, <1>1, <1>2, <1>3, Runs!FoldLeftInduction
<1>6. op.run \in 0..op.run
  BY <1>0
<1> QED
  BY <1>0, <1>4, <1>5, <1>6

-----------------------------------------------------------------------------
(* The map.                                                                *)

\* An operation that is not on a key of the map changes nothing of it.
LEMMA OtherWrites ==
    ASSUME NEW ops, NEW op, NEW p,
           ~(op.action \in {"put", "delete", "increment"} /\ op.prop = p)
    PROVE  Writes(ops \cup {op}, p) = Writes(ops, p) /\ Increments(ops \cup {op}, p) = Increments(ops, p)
BY DEF Writes, Increments

\* What the map says of one key.
KeyReflects(e, ops, p) ==
    /\ e.id = NoOp \/ \E op \in ops : op.id = e.id
    /\ Increments(ops, p) = {} =>
          \/ Writes(ops, p) = {} /\ e = NoEntry
          \/ \E w \in Writes(ops, p) :
                e = Written(w) /\ \A v \in Writes(ops, p) : ~Greater(v.id, w.id)
    /\ Writes(ops, p) = {} =>
          /\ IsFiniteSet(Increments(ops, p))
          /\ e.by = NoOp /\ e.n = Cardinality(Increments(ops, p))
          /\ e.deleted <=> Increments(ops, p) = {}

\* What is not an operation on this key leaves what it reflects alone.
LEMMA OtherKeys ==
    ASSUME NEW ops, NEW op, NEW p, NEW e, KeyReflects(e, ops, p),
           ~(op.action \in {"put", "delete", "increment"} /\ op.prop = p)
    PROVE  KeyReflects(e, ops \cup {op}, p)
BY OtherWrites DEF KeyReflects

\* applyPutLocked and applyDeleteLocked: the greatest identity wins, in whatever
\* order the writes arrive.
LEMMA WriteKeeps ==
    ASSUME NEW ops, NEW op \in MapOp, op.action \in {"put", "delete"}, OpsOK(ops \cup {op}),
           NEW d \in Document, MapReflects(d.map, ops)
    PROVE  /\ ApplyWrite(d, op) \in Document /\ ApplyWrite(d, op).text = d.text
           /\ MapReflects(ApplyWrite(d, op).map, ops \cup {op})
<1> DEFINE q == op.prop
           new == ApplyWrite(d, op)
           all == ops \cup {op}
           wins == d.map[q].id = NoOp \/ Greater(op.id, d.map[q].id)
<1>0. op.id \in OpId /\ q \in Props /\ op \in Op /\ op.action # "increment"
  BY DEF MapOp, Op
<1>1. d = [map |-> d.map, text |-> d.text] /\ d.map \in [Props -> Entry] /\ d.text \in Seq(Elem)
  BY DEF Document
<1>2. Written(op) \in Entry
  <2>1. (op.action = "delete") \in BOOLEAN
    OBVIOUS
  <2> QED
    BY <1>0, <2>1 DEF Written, Entry, OpIdOrNone
<1>3. new = IF wins THEN [map |-> [d.map EXCEPT ![q] = Written(op)], text |-> d.text] ELSE d
  BY <1>1 DEF ApplyWrite, Written
<1>4. new \in Document /\ new.text = d.text
  BY <1>0, <1>1, <1>2, <1>3 DEF Document
<1>5. ASSUME NEW p \in Props, p # q PROVE KeyReflects(new.map[p], all, p)
  <2>1. KeyReflects(d.map[p], ops, p)
    BY DEF MapReflects, KeyReflects
  <2>2. new.map[p] = d.map[p]
    BY <1>1, <1>3, <1>5
  <2> QED
    BY <1>5, <2>1, <2>2, OtherKeys
<1>6. KeyReflects(new.map[q], all, q)
  <2>1. KeyReflects(d.map[q], ops, q)
    BY <1>0 DEF MapReflects, KeyReflects
  <2>2. Writes(all, q) = Writes(ops, q) \cup {op} /\ Increments(all, q) = Increments(ops, q)
    BY <1>0 DEF Writes, Increments
  <2>3. \A v \in Writes(ops, q) : v.id \in OpId
    BY OpTypes DEF Writes, OpsOK
  <2>4. CASE wins
    <3>1. new.map[q] = Written(op) /\ Written(op).id = op.id
      BY <1>0, <1>1, <1>3, <2>4 DEF Written
    <3>2. ASSUME Increments(all, q) = {}, NEW v \in Writes(all, q) PROVE ~Greater(v.id, op.id)
      <4>1. CASE v = op
        BY <1>0, <4>1, GreaterOrder DEF OpIdOrNone
      <4>2. CASE v \in Writes(ops, q)
        <5>1. PICK w \in Writes(ops, q) :
                 d.map[q] = Written(w) /\ \A u \in Writes(ops, q) : ~Greater(u.id, w.id)
          BY <2>1, <2>2, <3>2, <4>2 DEF KeyReflects
        <5>2. d.map[q].id = w.id /\ w.id \in OpId /\ v.id \in OpId /\ ~Greater(v.id, w.id)
          BY <2>3, <4>2, <5>1 DEF Written
        <5>3. Greater(op.id, w.id)
          BY <2>4, <5>2 DEF OpId, NoOp
        <5> QED
          BY <1>0, <5>2, <5>3, GreaterOrder DEF OpIdOrNone
      <4> QED
        BY <2>2, <3>2, <4>1, <4>2
    <3> QED
      BY <2>2, <3>1, <3>2 DEF KeyReflects
  <2>5. CASE ~wins
    <3>1. new.map[q] = d.map[q]
      BY <1>3, <2>5
    <3>2. ASSUME Increments(all, q) = {}
          PROVE  \E w \in Writes(all, q) :
                    d.map[q] = Written(w) /\ \A v \in Writes(all, q) : ~Greater(v.id, w.id)
      <4>1. d.map[q] # NoEntry
        BY <2>5 DEF NoEntry
      <4>2. PICK w \in Writes(ops, q) :
               d.map[q] = Written(w) /\ \A u \in Writes(ops, q) : ~Greater(u.id, w.id)
        BY <2>1, <2>2, <3>2, <4>1 DEF KeyReflects
      <4>3. ~Greater(op.id, w.id)
        BY <2>5, <4>2 DEF Written
      <4> QED
        BY <2>2, <4>2, <4>3
    <3>3. d.map[q].id = NoOp \/ \E o \in all : o.id = d.map[q].id
      BY <2>1 DEF KeyReflects
    <3> QED
      BY <2>2, <3>1, <3>2, <3>3 DEF KeyReflects
  <2> QED
    BY <2>4, <2>5
<1> HIDE DEF new
<1>7. MapReflects(new.map, all)
  BY <1>5, <1>6 DEF MapReflects, KeyReflects
<1> QED
  BY <1>4, <1>7 DEF new

\* applyIncrementLocked: the count is the number of increments.
LEMMA IncrementKeeps ==
    ASSUME NEW ops, NEW op \in MapOp, op.action = "increment", op \notin ops,
           NEW d \in Document, MapReflects(d.map, ops)
    PROVE  /\ ApplyIncrement(d, op) \in Document /\ ApplyIncrement(d, op).text = d.text
           /\ MapReflects(ApplyIncrement(d, op).map, ops \cup {op})
<1> DEFINE q == op.prop
           new == ApplyIncrement(d, op)
           all == ops \cup {op}
           e == d.map[q]
<1>0. op.id \in OpId /\ q \in Props
  BY DEF MapOp
<1>1. d = [map |-> d.map, text |-> d.text] /\ d.map \in [Props -> Entry] /\ d.text \in Seq(Elem)
  BY DEF Document
<1>2. e = [id |-> e.id, deleted |-> e.deleted, by |-> e.by, n |-> e.n] /\ e.n \in Nat
      /\ e.by \in OpIdOrNone
  BY <1>0, <1>1 DEF Entry
<1>3. new = [map |-> [d.map EXCEPT ![q] = [id |-> op.id, deleted |-> FALSE, by |-> e.by,
                                            n |-> e.n + 1]],
             text |-> d.text]
  BY <1>1 DEF ApplyIncrement
<1>4. new \in Document /\ new.text = d.text
  <2>1. [id |-> op.id, deleted |-> FALSE, by |-> e.by, n |-> e.n + 1] \in Entry
    BY <1>0, <1>2 DEF Entry, OpIdOrNone
  <2> QED
    BY <1>0, <1>1, <1>3, <2>1 DEF Document
<1>5. ASSUME NEW p \in Props, p # q PROVE KeyReflects(new.map[p], all, p)
  <2>1. KeyReflects(d.map[p], ops, p)
    BY DEF MapReflects, KeyReflects
  <2>2. new.map[p] = d.map[p]
    BY <1>1, <1>3, <1>5
  <2> QED
    BY <1>5, <2>1, <2>2, OtherKeys
<1>6. KeyReflects(new.map[q], all, q)
  <2>1. KeyReflects(e, ops, q)
    BY <1>0 DEF MapReflects, KeyReflects
  <2>2. Writes(all, q) = Writes(ops, q) /\ Increments(all, q) = Increments(ops, q) \cup {op}
    BY DEF Writes, Increments
  <2>3. op \notin Increments(ops, q)
    BY DEF Increments
  <2>4. new.map[q].id = op.id /\ ~new.map[q].deleted /\ new.map[q].by = e.by
        /\ new.map[q].n = e.n + 1
    BY <1>0, <1>1, <1>3
  <2> HIDE DEF e, new, q
  <2>5. ASSUME Writes(all, q) = {}
        PROVE  /\ IsFiniteSet(Increments(all, q))
               /\ new.map[q].by = NoOp /\ new.map[q].n = Cardinality(Increments(all, q))
    <3>1. IsFiniteSet(Increments(ops, q)) /\ e.by = NoOp /\ e.n = Cardinality(Increments(ops, q))
      BY <2>1, <2>2, <2>5 DEF KeyReflects
    <3>2. /\ IsFiniteSet(Increments(ops, q) \cup {op})
          /\ Cardinality(Increments(ops, q) \cup {op}) = Cardinality(Increments(ops, q)) + 1
      BY <2>3, <3>1, FS_AddElement
    <3> QED
      BY <2>2, <2>4, <3>1, <3>2
  <2> QED
    BY <2>2, <2>4, <2>5 DEF KeyReflects
<1> HIDE DEF new
<1>7. MapReflects(new.map, all)
  BY <1>5, <1>6 DEF MapReflects, KeyReflects
<1> QED
  BY <1>4, <1>7 DEF new

\* An operation on the map is reflected by an unchanged text.
LEMMA TextStays ==
    ASSUME NEW ops, NEW op \in MapOp, NEW text, TextReflects(text, ops)
    PROVE  TextReflects(text, ops \cup {op})
<1>1. Refs(op) = {} /\ Runes(op) = 0 /\ Marked(op) = {}
  BY DEF MapOp, Refs, Runes, Marked
<1>2. 1..Runes(op) = {}
  BY <1>1
<1>3. \A e : VisibilityReflects(e, ops) => VisibilityReflects(e, ops \cup {op})
  BY <1>1 DEF VisibilityReflects
<1>4. \A o \in ops \cup {op} : /\ Refs(o) \subseteq TextIds(text)
                               /\ \A i \in 1..Runes(o) : Nth(o, i) \in TextIds(text)
  BY <1>1, <1>2 DEF TextReflects
<1> QED
  BY <1>3, <1>4 DEF TextReflects

\* Every operation whose references the text holds is reflected once applied:
\* applyOpLocked, on a document that reflects the operations before it.
THEOREM ApplyKeeps ==
    ASSUME NEW ops, NEW op \in Op, op \notin ops, OpsOK(ops \cup {op}),
           NEW d \in Document, Reflects(d, ops), Refs(op) \subseteq TextIds(d.text)
    PROVE  ApplyOp(d, op) \in Document /\ Reflects(ApplyOp(d, op), ops \cup {op})
<1>1. d = [map |-> d.map, text |-> d.text] /\ d.map \in [Props -> Entry] /\ d.text \in Seq(Elem)
  BY DEF Document
<1>2. MapReflects(d.map, ops) /\ Distinct(d.text) /\ Placed(d.text) /\ TextReflects(d.text, ops)
  BY DEF Reflects
<1>3. CASE op \in MapOp /\ op.action \in {"put", "delete"}
  <2>1. ApplyOp(d, op) = ApplyWrite(d, op)
    BY <1>3 DEF ApplyOp
  <2>2. TextReflects(d.text, ops \cup {op})
    BY <1>2, <1>3, TextStays
  <2>3. /\ ApplyWrite(d, op) \in Document /\ ApplyWrite(d, op).text = d.text
        /\ MapReflects(ApplyWrite(d, op).map, ops \cup {op})
    BY <1>2, <1>3, WriteKeeps
  <2> QED
    BY <1>2, <2>1, <2>2, <2>3 DEF Reflects
<1>4. CASE op \in MapOp /\ op.action = "increment"
  <2>1. ApplyOp(d, op) = ApplyIncrement(d, op)
    BY <1>4 DEF ApplyOp
  <2>2. TextReflects(d.text, ops \cup {op})
    BY <1>2, <1>4, TextStays
  <2> QED
    BY <1>2, <1>4, <2>1, <2>2, IncrementKeeps DEF Reflects
<1>5. ASSUME NEW t \in Seq(Elem), ApplyOp(d, op) = [map |-> d.map, text |-> t],
             op.action \notin {"put", "delete", "increment"},
             Distinct(t), Placed(t), TextReflects(t, ops \cup {op})
      PROVE  ApplyOp(d, op) \in Document /\ Reflects(ApplyOp(d, op), ops \cup {op})
  <2>1. \A p \in Props : KeyReflects(d.map[p], ops, p)
    BY <1>2 DEF MapReflects, KeyReflects
  <2>2. \A p \in Props : KeyReflects(d.map[p], ops \cup {op}, p)
    BY <1>5, <2>1, OtherKeys
  <2>3. MapReflects(d.map, ops \cup {op})
    BY <2>2 DEF MapReflects, KeyReflects
  <2> QED
    BY <1>1, <1>5, <2>3 DEF Document, Reflects
<1>6. CASE op \in SpliceOp
  <2> DEFINE t == InsertRun(SetVisibility(d.text, op.dels, TRUE, op.id), Run(op))
  <2>1. op.action = "splice"
    BY <1>6 DEF SpliceOp
  <2>2. ApplyOp(d, op) = [map |-> d.map, text |-> t]
    BY <1>1, <2>1 DEF ApplyOp, ApplySplice
  <2> HIDE DEF t
  <2>3. t \in Seq(Elem) /\ Distinct(t) /\ Placed(t) /\ TextReflects(t, ops \cup {op})
    BY <1>1, <1>2, <1>6, SpliceKeeps DEF t
  <2> QED
    BY <1>5, <2>1, <2>2, <2>3
<1>7. CASE op \in MarkOp
  <2> DEFINE t == SetVisibility(d.text, {op.elem}, op.action = "remove", op.id)
  <2>1. op.action \in {"remove", "revive"}
    BY <1>7 DEF MarkOp
  <2>2. ApplyOp(d, op) = [map |-> d.map, text |-> t]
    BY <1>1, <2>1 DEF ApplyOp
  <2>3. Marked(op) = {op.elem} /\ Runes(op) = 0
    BY <2>1 DEF Marked, Runes
  <2>4. t = SetVisibility(d.text, Marked(op), op.action # "revive", op.id)
    <3>1. CASE op.action = "remove"
      BY <2>3, <3>1
    <3>2. CASE op.action = "revive"
      BY <2>3, <3>2
    <3> QED
      BY <2>1, <3>1, <3>2
  <2>5. ops \in SUBSET Op
    BY DEF OpsOK
  <2> HIDE DEF t
  <2>6. t \in Seq(Elem) /\ Distinct(t) /\ Placed(t) /\ TextReflects(t, ops \cup {op})
    <3> DEFINE text == d.text
    <3>1. /\ text \in Seq(Elem) /\ Distinct(text) /\ Placed(text) /\ TextReflects(text, ops)
          /\ Refs(op) \subseteq TextIds(text)
          /\ t = SetVisibility(text, Marked(op), op.action # "revive", op.id)
      BY <1>1, <1>2, <2>4
    <3> HIDE DEF text
    <3> QED
      BY <2>3, <2>5, <3>1, MarkKeeps
  <2> QED
    BY <1>5, <2>1, <2>2, <2>6
<1>8. op \in MapOp => op.action \in {"put", "delete", "increment"}
  BY DEF MapOp
<1> QED
  BY <1>3, <1>4, <1>6, <1>7, <1>8 DEF Op

\* The empty document reflects no operation.
LEMMA EmptyReflects == Empty \in Document /\ Reflects(Empty, {})
<1>1. /\ Empty.map = [p \in Props |-> NoEntry] /\ Empty.text = << >>
      /\ NoEntry.id = NoOp /\ NoEntry.by = NoOp /\ NoEntry.n = 0 /\ NoEntry.deleted
  BY DEF Empty, NoEntry
<1>2. NoEntry \in Entry
  BY DEF NoEntry, Entry, OpIdOrNone
<1>3. Empty \in Document
  BY <1>2 DEF Empty, Document
<1>4. MapReflects(Empty.map, {})
  <2>1. \A p : Writes({}, p) = {} /\ Increments({}, p) = {}
    BY DEF Writes, Increments
  <2>2. IsFiniteSet({}) /\ Cardinality({}) = 0
    BY FS_EmptySet
  <2> QED
    BY <1>1, <2>1, <2>2 DEF MapReflects
<1>5. Len(Empty.text) = 0
  BY <1>1
<1> QED
  BY <1>3, <1>4, <1>5 DEF Reflects, Distinct, Placed, TextReflects

-----------------------------------------------------------------------------
(* A replica's own edits refer to what its text holds.                     *)

\* collectVisibleRange returns identities of the text.
LEMMA VisibleAreHeld ==
    ASSUME NEW text \in Seq(Elem)
    PROVE  VisibleIds(text) \in Seq(TextIds(text))
<1> DEFINE n == Len(text)
           A == [i \in 0..n |-> Seq(TextIds(text))]
<1>1. n \in Nat /\ DOMAIN text = 1..n /\ n \in 0..n /\ 0 \in 0..n
  BY ElemTypes
<1>2. << >> \in A[0]
  BY <1>1
<1>3. ASSUME NEW i \in 1..n, NEW a \in A[i - 1] PROVE AddVisible(a, text[i]) \in A[i]
  <2>1. i \in 0..n /\ i - 1 \in 0..n
    BY <1>1
  <2>2. a \in Seq(TextIds(text)) /\ text[i].id \in TextIds(text)
    BY <2>1 DEF TextIds
  <2> QED
    BY <2>1, <2>2 DEF AddVisible
<1>4. VisibleIds(text) = Shown!Fold(<< >>, text)
  BY DEF VisibleIds, Shown!Fold, FoldLeft, MapThenFoldSet, Max,
         Shown!MapThenFoldSet, Shown!Max
<1>5. Shown!Fold(<< >>, text) \in A[n]
  <2> HIDE DEF A
  <2> QED
    BY <1>1, <1>2, <1>3, Shown!FoldLeftInduction
<1> QED
  BY <1>1, <1>4, <1>5

\* An edit made here has the identity given, refers to what the text holds, and is one
\* of MapEdits if it is on the map.
LEMMA LocalOpsAre ==
    ASSUME NEW d \in Document, NEW id \in OpId, NEW op \in LocalOps(d, id)
    PROVE  /\ op \in Op /\ op.id = id /\ Refs(op) \subseteq TextIds(d.text)
           /\ op.action \in {"put", "delete", "increment"} => <<op.action, op.prop>> \in MapEdits
<1> DEFINE seen == VisibleIds(d.text)
           Cut(i, n) == {seen[j] : j \in (i + 1)..(i + n)}
<1>1. d.text \in Seq(Elem) /\ TextIds(d.text) \in SUBSET OpId
  BY ElemTypes DEF Document
<1>2. seen \in Seq(TextIds(d.text))
  BY <1>1, VisibleAreHeld
<1>3. Len(seen) \in Nat /\ \A k \in 1..Len(seen) : seen[k] \in TextIds(d.text)
  BY <1>2
<1> HIDE DEF seen
<1>4. CASE op \in {[id |-> id, action |-> e[1], prop |-> e[2]] : e \in MapEdits}
  <2>1. PICK e \in MapEdits : op = [id |-> id, action |-> e[1], prop |-> e[2]]
    BY <1>4
  <2>2. e[1] \in {"put", "delete", "increment"} /\ e[2] \in Props
    BY CrdtDocAssumption
  <2>3. op \in MapOp /\ op.id = id
    BY <2>1, <2>2 DEF MapOp
  <2>4. Refs(op) = {}
    BY <2>1, <2>2 DEF Refs
  <2>5. e = <<e[1], e[2]>> /\ op.action = e[1] /\ op.prop = e[2]
    BY <2>1, CrdtDocAssumption
  <2> QED
    BY <2>3, <2>4, <2>5 DEF Op
<1>5. CASE op \in {[id |-> id, action |-> "splice", run |-> p[2][2],
                    after |-> IF p[1] = 0 THEN NoOp ELSE seen[p[1]],
                    dels |-> Cut(p[1], p[2][1])] :
                      p \in {q \in (0..Len(seen)) \X Splices : q[1] + q[2][1] <= Len(seen)}}
  <2>1. PICK p \in {q \in (0..Len(seen)) \X Splices : q[1] + q[2][1] <= Len(seen)} :
           op = [id |-> id, action |-> "splice", run |-> p[2][2],
                 after |-> IF p[1] = 0 THEN NoOp ELSE seen[p[1]], dels |-> Cut(p[1], p[2][1])]
    BY <1>5
  <2>2. p[1] \in 0..Len(seen) /\ p[2] \in Nat \X Nat /\ p[1] + p[2][1] <= Len(seen)
    BY CrdtDocAssumption
  <2>3. p[2][1] \in Nat /\ p[2][2] \in Nat
    BY <2>2
  <2>4. Cut(p[1], p[2][1]) \subseteq TextIds(d.text)
    <3>1. \A j \in (p[1] + 1)..(p[1] + p[2][1]) : j \in 1..Len(seen)
      BY <1>3, <2>2, <2>3
    <3> QED
      BY <1>3, <3>1
  <2>5. ASSUME p[1] # 0 PROVE seen[p[1]] \in TextIds(d.text)
    BY <1>3, <2>2, <2>5
  <2> HIDE DEF Cut
  <2>6. op.id = id /\ op.action = "splice" /\ op.dels = Cut(p[1], p[2][1])
        /\ op.after = IF p[1] = 0 THEN NoOp ELSE seen[p[1]]
    BY <2>1
  <2>7. op \in SpliceOp
    BY <1>1, <2>1, <2>3, <2>4, <2>5 DEF SpliceOp, OpIdOrNone
  <2>8. Refs(op) = op.dels \cup ({op.after} \ {NoOp})
    BY <2>6 DEF Refs
  <2> QED
    BY <2>4, <2>5, <2>6, <2>7, <2>8 DEF Op
<1>6. CASE op \in {[id |-> id, action |-> e[1], elem |-> e[2]] :
                     e \in MarkEdits \X {x.id : x \in ToSet(d.text)}}
  <2>1. PICK e \in MarkEdits \X {x.id : x \in ToSet(d.text)} :
           op = [id |-> id, action |-> e[1], elem |-> e[2]]
    BY <1>6
  <2>2. e[1] \in {"remove", "revive"}
    BY CrdtDocAssumption
  <2>3. e[2] \in TextIds(d.text)
    BY <1>1 DEF ToSet, TextIds
  <2>4. op \in MarkOp /\ op.id = id
    BY <1>1, <2>1, <2>2, <2>3 DEF MarkOp
  <2>5. Refs(op) = {e[2]} /\ op.action \notin {"put", "delete", "increment"}
    BY <2>1, <2>2 DEF Refs
  <2> QED
    BY <2>3, <2>4, <2>5 DEF Op
<1> QED
  BY <1>4, <1>5, <1>6 DEF LocalOps, seen

-----------------------------------------------------------------------------
(* Replicas.                                                               *)

\* Induction over the operations of a change and over the changes of a log.
Docs == INSTANCE FoldFacts WITH op <- ApplyOp
Counts == INSTANCE FoldFacts WITH op <- Counter
Taken == INSTANCE FoldFacts WITH op <- TakeInSent

ChangeHash == Replicas \X Nat

Change == [hash : ChangeHash, deps : SUBSET ChangeHash, ops : Seq(Op)]

Replica == [doc : Document, changes : Seq(Change), deps : SUBSET ChangeHash,
            maxOp : Nat, seq : Nat, pending : Seq(Op)]

-----------------------------------------------------------------------------
(* What the replicas D have made so far.                                   *)

OpsIn(changes) == UNION {ToSet(c.ops) : c \in changes}

Log(d) == ToSet(d.changes)

\* The operations a document reflects: those of its log, and its pending ones.
Applied(d) == OpsIn(Log(d)) \cup ToSet(d.pending)

Known(D) == UNION {Log(D[r]) : r \in Replicas}

Made(D) == UNION {Applied(D[r]) : r \in Replicas}

\* The elements these operations insert.
Inserted(ops) == UNION {{Nth(op, i) : i \in 1..Runes(op)} : op \in ops}

Before(s, j) == {s[i] : i \in 1..(j - 1)}

Injective(s) == \A i, j \in DOMAIN s : s[i] = s[j] => i = j

-----------------------------------------------------------------------------
(* The inductive invariant.                                                *)

\* A change takes at least one edit.
CountsOK(D, n) ==
    \A r \in Replicas : D[r].seq + Len(D[r].pending) <= n[r] /\ n[r] <= MaxEdits[r]

\* A hash names one change, which its author holds; an operation is in one place.
NamesOK(D) ==
    /\ OpsOK(Made(D))
    /\ \A c \in Known(D) :
          /\ c.hash[2] \in 1..D[c.hash[1]].seq
          /\ c \in Log(D[c.hash[1]])
          /\ \A op \in ToSet(c.ops) : op.id[2] = c.hash[1]
          /\ Injective(c.ops)
          /\ \A e \in Known(D) : c # e => c.hash # e.hash /\ ToSet(c.ops) \cap ToSet(e.ops) = {}
    /\ \A r \in Replicas :
          /\ \A op \in ToSet(D[r].pending) : op.id[2] = r
          /\ Injective(D[r].pending)
          /\ \A c \in Known(D) : ToSet(c.ops) \cap ToSet(D[r].pending) = {}

\* A set of changes that holds what they depend on.
Closed(D, H) == \A c \in Known(D) : c.hash \in H => c.deps \subseteq H

Named(D, H) == {c \in Known(D) : c.hash \in H}

\* What a change refers to was inserted by its causes or earlier in it.
CausesOK(D) ==
    /\ \A c \in Known(D) : \A H \in SUBSET Hash :
          Closed(D, H) /\ c.deps \subseteq H
             => \A j \in DOMAIN c.ops :
                   Refs(c.ops[j]) \subseteq Inserted(OpsIn(Named(D, H)) \cup Before(c.ops, j))
    /\ \A r \in Replicas : \A j \in DOMAIN D[r].pending :
          Refs(D[r].pending[j])
             \subseteq Inserted(OpsIn(Log(D[r])) \cup Before(D[r].pending, j))

\* A log holds a change once, after those it depends on; the heads are the changes
\* none depends on.
LogOK(d) ==
    /\ \A i, j \in DOMAIN d.changes : d.changes[i].hash = d.changes[j].hash => i = j
    /\ \A i \in DOMAIN d.changes :
          d.changes[i].deps \subseteq {d.changes[j].hash : j \in 1..(i - 1)}
    /\ d.deps = Hashes(d) \ UNION {c.deps : c \in Log(d)}

LocalOK(d) ==
    /\ LogOK(d)
    /\ \A op \in Applied(d) : op.id[1] + Width(op) - 1 <= d.maxOp
    /\ Reflects(d.doc, Applied(d))

\* No more changes than edits are allowed for.
CountsBound(D) == \A r \in Replicas : D[r].seq <= MaxEdits[r]

\* The map is written by the edits made, and by no other.
FromEdits(D) ==
    \A op \in Made(D) : op.action \in {"put", "delete", "increment"}
                         => <<op.action, op.prop>> \in MapEdits

AllOK(D) ==
    /\ D \in [Replicas -> Replica]
    /\ NamesOK(D) /\ CausesOK(D) /\ FromEdits(D)
    /\ \A r \in Replicas : LocalOK(D[r])

IInv ==
    /\ AllOK(docs)
    /\ edits \in [Replicas -> Nat] /\ CountsOK(docs, edits)

-----------------------------------------------------------------------------
(* Sequences and the parts of a replica.                                   *)

\* What Append(s, e), t, has of s.
Appended(s, e, t) ==
    /\ Len(s) \in Nat /\ Len(t) = Len(s) + 1
    /\ DOMAIN s = 1..Len(s) /\ DOMAIN t = 1..(Len(s) + 1)
    /\ \A i \in 1..Len(s) : t[i] = s[i]
    /\ t[Len(s) + 1] = e
    /\ ToSet(t) = ToSet(s) \cup {e}
    /\ \A j \in 1..(Len(s) + 1) : Before(t, j) = Before(s, j)
    /\ Before(s, Len(s) + 1) = ToSet(s)

\* A sequence with one more at its end.
LEMMA Appending ==
    ASSUME NEW S, NEW s \in Seq(S), NEW e \in S, NEW t, t = Append(s, e)
    PROVE  t \in Seq(S) /\ Appended(s, e, t)
<1>1. /\ t \in Seq(S) /\ Len(s) \in Nat /\ Len(t) = Len(s) + 1
      /\ DOMAIN s = 1..Len(s) /\ DOMAIN t = 1..(Len(s) + 1)
      /\ \A i \in 1..Len(s) : t[i] = s[i]
      /\ t[Len(s) + 1] = e
  OBVIOUS
<1>2. \A i \in 1..(Len(s) + 1) : i \in 1..Len(s) \/ i = Len(s) + 1
  BY <1>1
<1>3. 1..Len(s) \subseteq 1..(Len(s) + 1) /\ Len(s) + 1 \in 1..(Len(s) + 1)
  BY <1>1
<1>4. ToSet(t) = ToSet(s) \cup {e}
  BY <1>1, <1>2, <1>3, Zenon DEF ToSet
<1>5. ASSUME NEW j \in 1..(Len(s) + 1) PROVE Before(t, j) = Before(s, j)
  <2>1. 1..(j - 1) \subseteq 1..Len(s)
    BY <1>1
  <2> QED
    BY <1>1, <2>1 DEF Before
<1>6. Before(s, Len(s) + 1) = ToSet(s)
  <2>1. (Len(s) + 1) - 1 = Len(s)
    BY <1>1
  <2> QED
    BY <1>1, <2>1, Zenon DEF Before, ToSet
<1> QED
  BY <1>1, <1>4, <1>5, <1>6 DEF Appended

\* The fields of a replica.
LEMMA ReplicaTypes ==
    ASSUME NEW d \in Replica
    PROVE  /\ d = [doc |-> d.doc, changes |-> d.changes, deps |-> d.deps, maxOp |-> d.maxOp,
                   seq |-> d.seq, pending |-> d.pending]
           /\ d.doc \in Document /\ d.changes \in Seq(Change) /\ d.deps \in SUBSET ChangeHash
           /\ d.maxOp \in Nat /\ d.seq \in Nat /\ d.pending \in Seq(Op)
           /\ DOMAIN d.changes = 1..Len(d.changes) /\ Len(d.changes) \in Nat
           /\ DOMAIN d.pending = 1..Len(d.pending) /\ Len(d.pending) \in Nat
           /\ Log(d) \in SUBSET Change
<1>1. /\ d = [doc |-> d.doc, changes |-> d.changes, deps |-> d.deps, maxOp |-> d.maxOp,
              seq |-> d.seq, pending |-> d.pending]
      /\ d.doc \in Document /\ d.changes \in Seq(Change) /\ d.deps \in SUBSET ChangeHash
      /\ d.maxOp \in Nat /\ d.seq \in Nat /\ d.pending \in Seq(Op)
  BY DEF Replica
<1>2. /\ DOMAIN d.changes = 1..Len(d.changes) /\ Len(d.changes) \in Nat
      /\ DOMAIN d.pending = 1..Len(d.pending) /\ Len(d.pending) \in Nat
      /\ \A i \in 1..Len(d.changes) : d.changes[i] \in Change
  BY <1>1
<1>3. Log(d) \in SUBSET Change
  BY <1>2 DEF Log, ToSet
<1> QED
  BY <1>1, <1>2, <1>3

\* The fields of a change.
LEMMA ChangeTypes ==
    ASSUME NEW c \in Change
    PROVE  /\ c.hash \in ChangeHash /\ c.hash[1] \in Replicas /\ c.hash[2] \in Nat
           /\ c.hash = <<c.hash[1], c.hash[2]>>
           /\ c.deps \in SUBSET ChangeHash /\ c.ops \in Seq(Op)
           /\ DOMAIN c.ops = 1..Len(c.ops) /\ Len(c.ops) \in Nat
<1>1. c.hash \in ChangeHash /\ c.deps \in SUBSET ChangeHash /\ c.ops \in Seq(Op)
  BY DEF Change
<1>2. c.hash[1] \in Replicas /\ c.hash[2] \in Nat /\ c.hash = <<c.hash[1], c.hash[2]>>
  BY <1>1 DEF ChangeHash
<1> QED
  BY <1>1, <1>2

\* The changes the replicas hold are changes.
LEMMA KnownTypes ==
    ASSUME NEW D \in [Replicas -> Replica]
    PROVE  Known(D) \in SUBSET Change
<1>1. \A r \in Replicas : Log(D[r]) \in SUBSET Change
  BY ReplicaTypes
<1> QED
  BY <1>1 DEF Known

\* Every operation made is applied at the replica that made it.
LEMMA OwnOps ==
    ASSUME NEW D, AllOK(D), NEW o \in Made(D), o.id[2] \in Replicas
    PROVE  o \in Applied(D[o.id[2]])
<1>1. PICK s \in Replicas : o \in Applied(D[s])
  BY DEF Made
<1>2. CASE o \in ToSet(D[s].pending)
  BY <1>2 DEF AllOK, NamesOK, Applied
<1>3. CASE o \in OpsIn(Log(D[s]))
  <2>1. PICK c \in Log(D[s]) : o \in ToSet(c.ops)
    BY <1>3 DEF OpsIn
  <2>2. c \in Known(D)
    BY <2>1 DEF Known
  <2>3. o.id[2] = c.hash[1] /\ c \in Log(D[c.hash[1]])
    BY <2>1, <2>2 DEF AllOK, NamesOK
  <2> QED
    BY <2>1, <2>3 DEF Applied, OpsIn
<1> QED
  BY <1>1, <1>2, <1>3 DEF Applied

\* Some of the operations a set of replicas can have made.
LEMMA SubsetOK ==
    ASSUME NEW ops, OpsOK(ops), NEW some \in SUBSET ops
    PROVE  OpsOK(some)
BY DEF OpsOK

\* The elements of a text, and the entries of a map, have identities up to maxOp.
LEMMA IdsBounded ==
    ASSUME NEW d \in Replica, LocalOK(d), OpsOK(Applied(d))
    PROVE  /\ \A x \in TextIds(d.doc.text) :
                 x \in OpId /\ x[1] \in Nat /\ x[1] <= d.maxOp /\ x \in Inserted(Applied(d))
           /\ \A k \in 1..Len(d.doc.text) : d.doc.text[k].vis[1] <= d.maxOp
           /\ \A p \in Props : d.doc.map[p].id[1] <= d.maxOp
           /\ Inserted(Applied(d)) \subseteq TextIds(d.doc.text)
<1> DEFINE text == d.doc.text
           ops == Applied(d)
<1>0. /\ text \in Seq(Elem) /\ TextIds(text) \in SUBSET OpId /\ d.maxOp \in Nat
      /\ \A x \in OpId : x[1] \in Nat
  BY ReplicaTypes, ElemTypes DEF Document, OpId
<1>1. /\ TextReflects(text, ops) /\ MapReflects(d.doc.map, ops)
      /\ \A op \in ops : op.id[1] + Width(op) - 1 <= d.maxOp
  BY DEF LocalOK, Reflects
<1>2. ASSUME NEW op \in ops
      PROVE  /\ op.id[1] <= d.maxOp
             /\ \A i \in 1..Runes(op) : Nth(op, i)[1] <= d.maxOp
  <2>1. op \in Op
    BY DEF OpsOK
  <2>2. op.id[1] \in Nat /\ Width(op) \in Nat \ {0} /\ Runes(op) \in Nat /\ Runes(op) <= Width(op)
    BY <1>0, <2>1, OpTypes
  <2>3. op.id[1] + Width(op) - 1 <= d.maxOp
    BY <1>1
  <2> QED
    BY <1>0, <2>2, <2>3 DEF Nth
<1> HIDE DEF ops
<1>3. ASSUME NEW k \in 1..Len(text)
      PROVE  text[k].id[1] <= d.maxOp /\ text[k].id \in Inserted(ops) /\ text[k].vis[1] <= d.maxOp
  <2>1. PICK op \in ops : \E i \in 1..Runes(op) : text[k].id = Nth(op, i)
    BY <1>1 DEF TextReflects
  <2>2. PICK i \in 1..Runes(op) : text[k].id = Nth(op, i)
    BY <2>1
  <2>3. text[k].id[1] <= d.maxOp /\ text[k].id \in Inserted(ops)
    BY <1>2, <2>2 DEF Inserted
  <2>4. VisibilityReflects(text[k], ops)
    BY <1>1 DEF TextReflects
  <2>5. text[k].vis = text[k].id \/ \E m \in ops : text[k].vis = m.id
    BY <2>4 DEF VisibilityReflects
  <2> QED
    BY <1>2, <2>3, <2>5
<1>4. ASSUME NEW p \in Props PROVE d.doc.map[p].id[1] <= d.maxOp
  <2>1. d.doc.map[p].id = NoOp \/ \E op \in ops : op.id = d.doc.map[p].id
    BY <1>1 DEF MapReflects
  <2>2. NoOp[1] <= d.maxOp
    BY <1>0 DEF NoOp
  <2> QED
    BY <1>2, <2>1, <2>2
<1>5. Inserted(ops) \subseteq TextIds(text)
  BY <1>1 DEF Inserted, TextReflects
<1> QED
  BY <1>0, <1>3, <1>4, <1>5 DEF TextIds, ops

-----------------------------------------------------------------------------
(* Editing and committing.                                                 *)

\* An operation made at a replica takes identities no operation has, all greater
\* than those it refers to.
LEMMA EditIsNew ==
    ASSUME NEW D, AllOK(D), NEW r \in Replicas,
           NEW op \in LocalOps(D[r].doc, <<D[r].maxOp + 1, r>>)
    PROVE  /\ op \in Op /\ op.id = <<D[r].maxOp + 1, r>>
           /\ op \notin Made(D) /\ OpsOK(Made(D) \cup {op})
           /\ Refs(op) \subseteq TextIds(D[r].doc.text)
           /\ ApplyOp(D[r].doc, op) \in Document
           /\ Reflects(ApplyOp(D[r].doc, op), Applied(D[r]) \cup {op})
           /\ op.action \in {"put", "delete", "increment"} => <<op.action, op.prop>> \in MapEdits
<1> DEFINE d == D[r]
           id == <<d.maxOp + 1, r>>
<1>0. d \in Replica /\ LocalOK(d) /\ D \in [Replicas -> Replica] /\ r \in Nat
  BY CrdtReplicasAssumption DEF AllOK
<1>1. d.maxOp \in Nat /\ d.doc \in Document /\ d.pending \in Seq(Op)
  BY <1>0, ReplicaTypes
<1>2. id \in OpId
  BY <1>0, <1>1 DEF OpId
<1>3. /\ op \in Op /\ op.id = id /\ Refs(op) \subseteq TextIds(d.doc.text)
      /\ op.action \in {"put", "delete", "increment"} => <<op.action, op.prop>> \in MapEdits
  BY <1>1, <1>2, LocalOpsAre
<1>4. op.id[1] = d.maxOp + 1 /\ op.id[2] = r /\ Width(op) \in Nat \ {0}
  BY <1>3, OpTypes
<1>5. OpsOK(Made(D)) /\ OpsOK(Applied(d)) /\ Applied(d) \in SUBSET Made(D)
  <2>1. Applied(d) \in SUBSET Made(D)
    BY DEF Made
  <2>2. OpsOK(Made(D))
    BY DEF AllOK, NamesOK
  <2> QED
    BY <2>1, <2>2, SubsetOK
<1> HIDE DEF d
<1>6. ASSUME NEW o \in Made(D) PROVE Apart(op, o) /\ Apart(o, op) /\ o # op
  <2>1. o \in Op /\ o.id \in OpId /\ Width(o) \in Nat \ {0}
    BY <1>5, OpTypes DEF OpsOK
  <2>2. o.id[1] \in Nat
    BY <2>1 DEF OpId
  <2>3. CASE o.id[2] = r
    <3>1. o \in Applied(d)
      BY <2>3, OwnOps DEF d
    <3>2. o.id[1] + Width(o) - 1 <= d.maxOp
      BY <1>0, <3>1 DEF LocalOK
    <3>3. o.id[1] + Width(o) <= op.id[1] /\ o.id[1] # op.id[1]
      BY <1>1, <1>4, <2>1, <2>2, <3>2, SMTT(30)
    <3> QED
      BY <3>3 DEF Apart
  <2>4. CASE o.id[2] # r
    BY <1>4, <2>4 DEF Apart
  <2> QED
    BY <2>3, <2>4
<1>7. ASSUME NEW x \in Refs(op) PROVE Greater(op.id, x)
  <2>1. x[1] \in Nat /\ x[1] <= d.maxOp
    BY <1>0, <1>3, <1>5, IdsBounded
  <2> QED
    BY <1>1, <1>4, <2>1 DEF Greater
<1>8. Made(D) \cup {op} \subseteq Op
  BY <1>3, <1>5 DEF OpsOK
<1>9. OpsOK(Made(D) \cup {op})
  BY <1>5, <1>6, <1>7, <1>8 DEF OpsOK
<1>10. op \notin Made(D)
  BY <1>6
<1>11. op \notin Applied(d) /\ OpsOK(Applied(d) \cup {op})
  <2>1. Applied(d) \cup {op} \in SUBSET (Made(D) \cup {op})
    BY <1>5
  <2> QED
    BY <1>5, <1>9, <1>10, <2>1, SubsetOK
<1>12. Reflects(d.doc, Applied(d))
  BY <1>0 DEF LocalOK
<1>13. ApplyOp(d.doc, op) \in Document /\ Reflects(ApplyOp(d.doc, op), Applied(d) \cup {op})
  BY <1>1, <1>3, <1>11, <1>12, ApplyKeeps
<1> QED
  BY <1>3, <1>9, <1>10, <1>13 DEF d

\* An edit, with the identity that comes after maxOp, keeps the invariant.
LEMMA EditKeeps ==
    ASSUME NEW D, AllOK(D), NEW r \in Replicas,
           NEW op \in LocalOps(D[r].doc, <<D[r].maxOp + 1, r>>),
           NEW E \in [Replicas -> Replica], \A s \in Replicas : s # r => E[s] = D[s],
           E[r].doc = ApplyOp(D[r].doc, op), E[r].maxOp = D[r].maxOp + Width(op),
           E[r].pending = Append(D[r].pending, op),
           E[r].changes = D[r].changes, E[r].deps = D[r].deps, E[r].seq = D[r].seq
    PROVE  AllOK(E)
<1> DEFINE d == D[r]
           id == <<d.maxOp + 1, r>>
           L == Len(d.pending)
<1>0. d \in Replica /\ LocalOK(d) /\ D \in [Replicas -> Replica] /\ r \in Nat
  BY CrdtReplicasAssumption DEF AllOK
<1>1. d.maxOp \in Nat /\ d.doc \in Document /\ d.pending \in Seq(Op)
  BY <1>0, ReplicaTypes
<1>2. id \in OpId
  BY <1>0, <1>1 DEF OpId
<1>3. /\ op \in Op /\ op.id = id /\ Refs(op) \subseteq TextIds(d.doc.text)
      /\ op \notin Made(D) /\ OpsOK(Made(D) \cup {op})
      /\ Reflects(ApplyOp(d.doc, op), Applied(d) \cup {op})
      /\ op.action \in {"put", "delete", "increment"} => <<op.action, op.prop>> \in MapEdits
  BY EditIsNew
<1>4. op.id[1] = d.maxOp + 1 /\ op.id[2] = r /\ Width(op) \in Nat \ {0}
  BY <1>3, OpTypes
<1>5. OpsOK(Made(D)) /\ OpsOK(Applied(d)) /\ Applied(d) \in SUBSET Made(D)
  <2>1. Applied(d) \in SUBSET Made(D)
    BY DEF Made
  <2>2. OpsOK(Made(D))
    BY DEF AllOK, NamesOK
  <2> QED
    BY <2>1, <2>2, SubsetOK
<1> HIDE DEF d
<1>10. /\ ToSet(E[r].pending) = ToSet(d.pending) \cup {op} /\ L \in Nat
       /\ DOMAIN d.pending = 1..L /\ DOMAIN E[r].pending = 1..(L + 1)
       /\ \A i \in 1..L : E[r].pending[i] = d.pending[i]
       /\ E[r].pending[L + 1] = op
       /\ \A j \in 1..(L + 1) : Before(E[r].pending, j) = Before(d.pending, j)
       /\ Before(d.pending, L + 1) = ToSet(d.pending)
  <2>1. Appended(d.pending, op, E[r].pending)
    BY <1>1, <1>3, Appending DEF d
  <2> QED
    BY <2>1 DEF Appended
<1>11. Log(E[r]) = Log(d) /\ Applied(E[r]) = Applied(d) \cup {op}
  BY <1>10 DEF Log, Applied, d
<1>12. Known(E) = Known(D)
  BY <1>11 DEF Known, d
<1>13. Made(E) = Made(D) \cup {op}
  BY <1>11 DEF Made, d
<1>14. \A s \in Replicas : Log(E[s]) = Log(D[s]) /\ E[s].seq = D[s].seq
  BY <1>11 DEF d
<1>15. op \notin Made(D)
  BY <1>3
<1>16. NamesOK(E)
  <2>1. ASSUME NEW c \in Known(E)
        PROVE  /\ c.hash[2] \in 1..E[c.hash[1]].seq
               /\ c \in Log(E[c.hash[1]])
               /\ \A o \in ToSet(c.ops) : o.id[2] = c.hash[1]
               /\ Injective(c.ops)
               /\ \A e \in Known(E) : c # e => c.hash # e.hash /\ ToSet(c.ops) \cap ToSet(e.ops) = {}
    <3>1. c \in Known(D) /\ c \in Change
      BY <1>0, <1>12, KnownTypes
    <3>2. c.hash[1] \in Replicas
      BY <3>1, ChangeTypes
    <3> QED
      BY <1>12, <1>14, <3>1, <3>2 DEF AllOK, NamesOK
  <2>2. ASSUME NEW c \in Known(E) PROVE op \notin ToSet(c.ops)
    <3>1. ToSet(c.ops) \subseteq Made(D)
      BY <1>12 DEF Known, Made, Applied, OpsIn
    <3> QED
      BY <1>15, <3>1
  <2>3. ASSUME NEW s \in Replicas
        PROVE  /\ \A o \in ToSet(E[s].pending) : o.id[2] = s
               /\ Injective(E[s].pending)
               /\ \A c \in Known(E) : ToSet(c.ops) \cap ToSet(E[s].pending) = {}
    <3>1. /\ \A o \in ToSet(D[s].pending) : o.id[2] = s
          /\ Injective(D[s].pending)
          /\ \A c \in Known(D) : ToSet(c.ops) \cap ToSet(D[s].pending) = {}
      BY DEF AllOK, NamesOK
    <3>2. CASE s # r
      BY <1>12, <3>1, <3>2
    <3>3. CASE s = r
      <4>1. \A i \in 1..L : d.pending[i] # op
        <5>1. \A i \in 1..L : d.pending[i] \in Made(D)
          BY <1>5, <1>10 DEF Applied, ToSet
        <5> QED
          BY <1>15, <5>1
      <4>2. \A i, j \in 1..L : d.pending[i] = d.pending[j] => i = j
        BY <1>10, <3>1, <3>3 DEF Injective, d
      <4>3. \A i \in 1..(L + 1) : i \in 1..L \/ i = L + 1
        BY <1>10
      <4>4. Injective(E[s].pending)
        <5> SUFFICES ASSUME NEW i \in 1..(L + 1), NEW j \in 1..(L + 1),
                            E[r].pending[i] = E[r].pending[j]
                     PROVE  i = j
          BY <1>10, <3>3 DEF Injective
        <5> QED
          BY <1>10, <4>1, <4>2, <4>3, SMTT(30)
      <4>5. \A o \in ToSet(E[s].pending) : o.id[2] = s
        BY <1>4, <1>10, <3>1, <3>3 DEF d
      <4>6. \A c \in Known(E) : ToSet(c.ops) \cap ToSet(E[s].pending) = {}
        BY <1>10, <1>12, <2>2, <3>1, <3>3 DEF d
      <4> QED
        BY <4>4, <4>5, <4>6
    <3> QED
      BY <3>2, <3>3
  <2> QED
    BY <1>3, <1>13, <2>1, <2>3 DEF NamesOK
<1>17. CausesOK(E)
  <2>1. \A H : Closed(E, H) = Closed(D, H) /\ Named(E, H) = Named(D, H)
    BY <1>12 DEF Closed, Named
  <2>2. ASSUME NEW c \in Known(E), NEW H \in SUBSET Hash, Closed(E, H), c.deps \subseteq H,
               NEW j \in DOMAIN c.ops
        PROVE  Refs(c.ops[j]) \subseteq Inserted(OpsIn(Named(E, H)) \cup Before(c.ops, j))
    BY <1>12, <2>1, <2>2 DEF AllOK, CausesOK
  <2>3. ASSUME NEW s \in Replicas, NEW j \in DOMAIN E[s].pending
        PROVE  Refs(E[s].pending[j])
                  \subseteq Inserted(OpsIn(Log(E[s])) \cup Before(E[s].pending, j))
    <3>1. \A i \in DOMAIN D[s].pending :
             Refs(D[s].pending[i])
                \subseteq Inserted(OpsIn(Log(D[s])) \cup Before(D[s].pending, i))
      BY DEF AllOK, CausesOK
    <3>2. CASE s # r
      BY <3>1, <3>2
    <3>3. CASE s = r /\ j = L + 1
      <4>1. Refs(op) \subseteq Inserted(Applied(d))
        BY <1>0, <1>3, <1>5, IdsBounded
      <4>2. OpsIn(Log(E[s])) \cup Before(E[s].pending, j) = Applied(d)
        <5>1. L + 1 \in 1..(L + 1)
          BY <1>10
        <5>2. Before(E[r].pending, L + 1) = ToSet(d.pending)
          BY <1>10, <5>1
        <5> QED
          BY <1>11, <3>3, <5>2 DEF Applied
      <4> QED
        BY <1>10, <3>3, <4>1, <4>2
    <3>4. CASE s = r /\ j \in 1..L
      <4>1. j \in 1..(L + 1)
        BY <1>10, <3>4
      <4> QED
        BY <1>10, <1>11, <3>1, <3>4, <4>1 DEF d
    <3>5. s = r => j \in 1..L \/ j = L + 1
      BY <1>10
    <3> QED
      BY <3>2, <3>3, <3>4, <3>5
  <2> QED
    BY <2>2, <2>3 DEF CausesOK
<1>18. ASSUME NEW s \in Replicas PROVE LocalOK(E[s])
  <2>1. CASE s # r
    BY <2>1 DEF AllOK
  <2>2. CASE s = r
    <3>1. LogOK(E[r])
      <4>1. Hashes(E[r]) = Hashes(d)
        BY DEF Hashes, d
      <4> QED
        BY <1>0, <1>11, <4>1 DEF LocalOK, LogOK, d
    <3>2. ASSUME NEW o \in Applied(E[r]) PROVE o.id[1] + Width(o) - 1 <= E[r].maxOp
      <4>1. E[r].maxOp = d.maxOp + Width(op)
        BY DEF d
      <4>2. CASE o = op
        BY <1>1, <1>4, <4>1, <4>2
      <4>3. CASE o \in Applied(d)
        <5>1. o.id[1] + Width(o) - 1 <= d.maxOp
          BY <1>0, <4>3 DEF LocalOK
        <5>2. o \in Op
          BY <1>5, <4>3 DEF OpsOK
        <5>3. o.id[1] \in Nat /\ Width(o) \in Nat
          BY <5>2, OpTypes DEF OpId
        <5> QED
          BY <1>1, <1>4, <4>1, <5>1, <5>3
      <4> QED
        BY <1>11, <4>2, <4>3
    <3>3. Reflects(E[r].doc, Applied(E[r]))
      BY <1>3, <1>11 DEF d
    <3> QED
      BY <2>2, <3>1, <3>2, <3>3 DEF LocalOK
  <2> QED
    BY <2>1, <2>2
<1>19. FromEdits(E)
  BY <1>3, <1>13 DEF FromEdits, AllOK
<1> QED
  BY <1>16, <1>17, <1>18, <1>19 DEF AllOK

\* Whatever holds the heads of a log and all causes holds the log.
LEMMA HeadsCover ==
    ASSUME NEW D, AllOK(D), NEW r \in Replicas, NEW H, Closed(D, H), D[r].deps \subseteq H
    PROVE  Hashes(D[r]) \subseteq H
<1> DEFINE log == D[r].changes
           n == Len(log)
           Bad == {i \in 1..n : log[i].hash \notin H}
<1>1. D[r] \in Replica /\ LogOK(D[r])
  BY DEF AllOK, LocalOK
<1>2. n \in Nat /\ DOMAIN log = 1..n
  BY <1>1, ReplicaTypes
<1>3. \A i \in 1..n : log[i] \in Known(D) /\ log[i].hash \in Hashes(D[r]) /\ log[i] \in Log(D[r])
  <2>1. \A i \in 1..n : log[i] \in Log(D[r])
    BY <1>2 DEF Log, ToSet
  <2> QED
    BY <2>1 DEF Known, Hashes, Log
<1>4. Bad = {}
  <2>1. SUFFICES ASSUME Bad # {} PROVE FALSE
    OBVIOUS
  <2> DEFINE Rest == {n - i : i \in Bad}
  <2>2. Rest \in SUBSET Nat /\ Rest # {}
    <3>1. \A i \in Bad : n - i \in Nat
      BY <1>2
    <3> QED
      BY <2>1, <3>1
  <2>3. PICK m \in Rest : \A k \in Rest : m <= k
    BY <2>2, Runs!Least
  <2>4. PICK i \in Bad : m = n - i
    BY <2>3
  <2>5. \A k \in Bad : k <= i
    <3>1. \A k \in Bad : n - i <= n - k
      BY <2>3, <2>4
    <3> QED
      BY <1>2, <3>1
  <2>6. i \in 1..n /\ log[i].hash \notin H
    OBVIOUS
  <2>7. log[i].hash \in UNION {c.deps : c \in Log(D[r])}
    BY <1>1, <1>3, <2>6 DEF LogOK
  <2>8. PICK k \in 1..n : log[i].hash \in log[k].deps
    BY <1>2, <2>7 DEF Log, ToSet
  <2>9. PICK j \in 1..(k - 1) : log[i].hash = log[j].hash
    <3>1. log[k].deps \subseteq {log[j].hash : j \in 1..(k - 1)}
      BY <1>1, <1>2 DEF LogOK
    <3> QED
      BY <2>8, <3>1
  <2>10. j \in 1..n /\ j < k
    BY <1>2
  <2>11. i = j
    BY <1>1, <1>2, <2>6, <2>9, <2>10 DEF LogOK
  <2>12. log[k].hash \notin H
    BY <1>3, <2>6, <2>8 DEF Closed
  <2>13. k <= i
    BY <2>5, <2>12
  <2> QED
    BY <1>2, <2>10, <2>11, <2>13
<1>5. \A h \in Hashes(D[r]) : \E i \in 1..n : h = log[i].hash
  BY <1>2 DEF Hashes, ToSet
<1> QED
  BY <1>4, <1>5

\* The dependencies of a log are in it.
LEMMA LogClosed ==
    ASSUME NEW d \in Replica, LogOK(d)
    PROVE  /\ UNION {c.deps : c \in Log(d)} \subseteq Hashes(d)
           /\ \A c \in Log(d) : c.deps \subseteq Hashes(d) /\ c.hash \in Hashes(d)
           /\ d.deps \subseteq Hashes(d)
<1>1. DOMAIN d.changes = 1..Len(d.changes) /\ Len(d.changes) \in Nat
  BY ReplicaTypes
<1>2. \A c \in Log(d) : c.hash \in Hashes(d)
  BY DEF Log, Hashes
<1>3. ASSUME NEW c \in Log(d) PROVE c.deps \subseteq Hashes(d)
  <2>1. PICK i \in 1..Len(d.changes) : c = d.changes[i]
    BY <1>1 DEF Log, ToSet
  <2>2. c.deps \subseteq {d.changes[j].hash : j \in 1..(i - 1)}
    BY <1>1, <2>1 DEF LogOK
  <2>3. \A j \in 1..(i - 1) : j \in DOMAIN d.changes
    BY <1>1
  <2>4. \A j \in 1..(i - 1) : d.changes[j].hash \in Hashes(d)
    BY <2>3, Zenon DEF Hashes, ToSet
  <2> QED
    BY <2>2, <2>4
<1>4. d.deps \subseteq Hashes(d)
  BY DEF LogOK
<1> QED
  BY <1>2, <1>3, <1>4

\* A log with one more change, on top of what it holds, is in order; the heads are
\* what mergeHeadsLocked leaves.
LEMMA LogGrows ==
    ASSUME NEW d \in Replica, LogOK(d), NEW c \in Change,
           c.hash \notin Hashes(d), c.deps \subseteq Hashes(d),
           NEW e \in Replica, e.changes = Append(d.changes, c),
           e.deps = (d.deps \ c.deps) \cup {c.hash}
    PROVE  LogOK(e) /\ Log(e) = Log(d) \cup {c} /\ Hashes(e) = Hashes(d) \cup {c.hash}
<1> DEFINE a == d.changes
           b == e.changes
           n == Len(a)
<1>1. a \in Seq(Change) /\ b = Append(a, c)
  BY ReplicaTypes
<1>2. Appended(a, c, b)
  BY <1>1, Appending
<1>3. /\ n \in Nat /\ DOMAIN a = 1..n /\ DOMAIN b = 1..(n + 1)
      /\ \A i \in 1..n : b[i] = a[i]
      /\ b[n + 1] = c
      /\ ToSet(b) = ToSet(a) \cup {c}
  BY <1>2 DEF Appended
<1>4. Log(e) = Log(d) \cup {c}
  BY <1>3 DEF Log
<1>5. Hashes(e) = Hashes(d) \cup {c.hash}
  <2>1. Hashes(e) = {x.hash : x \in Log(e)} /\ Hashes(d) = {x.hash : x \in Log(d)}
    BY DEF Hashes, Log
  <2> QED
    BY <1>4, <2>1
<1>6. \A i \in 1..n : a[i].hash \in Hashes(d) /\ a[i].hash # c.hash
  BY <1>3 DEF Hashes, ToSet
<1>7. \A i \in 1..(n + 1) : i \in 1..n \/ i = n + 1
  BY <1>3
<1>8. ASSUME NEW i \in 1..(n + 1), NEW j \in 1..(n + 1), b[i].hash = b[j].hash PROVE i = j
  <2>1. \A k, m \in 1..n : a[k].hash = a[m].hash => k = m
    BY <1>3 DEF LogOK
  <2> HIDE DEF a, b, n
  <2> QED
    BY <1>3, <1>6, <1>7, <1>8, <2>1
<1>9. ASSUME NEW i \in 1..(n + 1) PROVE b[i].deps \subseteq {b[j].hash : j \in 1..(i - 1)}
  <2>1. 1..(i - 1) \subseteq 1..n
    BY <1>3
  <2>2. {b[j].hash : j \in 1..(i - 1)} = {a[j].hash : j \in 1..(i - 1)}
    BY <1>3, <2>1
  <2>3. CASE i \in 1..n
    <3>1. a[i].deps \subseteq {a[j].hash : j \in 1..(i - 1)}
      BY <1>3, <2>3 DEF LogOK
    <3> QED
      BY <1>3, <2>2, <2>3, <3>1
  <2>4. CASE i = n + 1
    <3>1. i - 1 = n
      BY <1>3, <2>4
    <3>2. {a[j].hash : j \in 1..n} = Hashes(d)
      BY <1>3 DEF Hashes, ToSet
    <3> QED
      BY <1>3, <2>2, <2>4, <3>1, <3>2
  <2> QED
    BY <1>7, <2>3, <2>4
<1>10. e.deps = Hashes(e) \ UNION {x.deps : x \in Log(e)}
  <2> DEFINE U == UNION {x.deps : x \in Log(d)}
             V == UNION {x.deps : x \in Log(e)}
  <2>1. V = U \cup c.deps
    <3>1. \A h : h \in V <=> \E x \in Log(d) \cup {c} : h \in x.deps
      BY <1>4
    <3>2. \A h : h \in U <=> \E x \in Log(d) : h \in x.deps
      OBVIOUS
    <3> HIDE DEF U, V
    <3> QED
      BY <3>1, <3>2
  <2>2. U \subseteq Hashes(d)
    BY LogClosed
  <2>3. d.deps = Hashes(d) \ U
    BY DEF LogOK
  <2> HIDE DEF U, V
  <2> QED
    <3>1. e.deps = Hashes(e) \ V
      BY <1>5, <2>1, <2>2, <2>3
    <3> QED
      BY <3>1 DEF V
<1> QED
  BY <1>3, <1>4, <1>5, <1>8, <1>9, <1>10 DEF LogOK

\* commitPending: the new change has a name no change has, and its causes, the heads
\* and all below them, inserted what its operations refer to.
LEMMA CommitKeeps ==
    ASSUME NEW D, AllOK(D), NEW r \in Replicas, NEW c,
           c = [hash |-> <<r, D[r].seq + 1>>, deps |-> D[r].deps, ops |-> D[r].pending],
           NEW E \in [Replicas -> Replica], \A s \in Replicas : s # r => E[s] = D[s],
           E[r].changes = Append(D[r].changes, c), E[r].deps = {c.hash},
           E[r].seq = D[r].seq + 1, E[r].pending = << >>,
           E[r].doc = D[r].doc, E[r].maxOp = D[r].maxOp
    PROVE  AllOK(E)
<1> DEFINE d == D[r]
<1>0. d \in Replica /\ LocalOK(d) /\ D \in [Replicas -> Replica] /\ E[r] \in Replica
  BY DEF AllOK
<1>1. d.seq \in Nat /\ d.pending \in Seq(Op) /\ d.deps \in SUBSET ChangeHash
  BY <1>0, ReplicaTypes
<1>2. /\ c.hash = <<r, d.seq + 1>> /\ c.hash[1] = r /\ c.hash[2] = d.seq + 1
      /\ c.deps = d.deps /\ c.ops = d.pending
  OBVIOUS
<1>3. c \in Change
  BY <1>1 DEF Change, ChangeHash
<1>4. ASSUME NEW x \in Known(D) PROVE x.hash # c.hash /\ x \in Change /\ x # c
  <2>1. x.hash[2] \in 1..D[x.hash[1]].seq /\ x \in Change
    BY <1>0, KnownTypes DEF AllOK, NamesOK
  <2> QED
    BY <1>1, <1>2, <2>1
<1>5. c.hash \notin Hashes(d)
  <2>1. \A x \in Log(d) : x \in Known(D)
    BY DEF Known
  <2> QED
    BY <1>4, <2>1 DEF Hashes, Log
<1> HIDE DEF d
<1>6. LogOK(E[r]) /\ Log(E[r]) = Log(d) \cup {c} /\ Hashes(E[r]) = Hashes(d) \cup {c.hash}
  <2>1. c.deps \subseteq Hashes(d) /\ LogOK(d)
    BY <1>0, <1>2, LogClosed DEF LocalOK
  <2>2. E[r].deps = (d.deps \ c.deps) \cup {c.hash}
    BY <1>2
  <2>3. E[r].changes = Append(d.changes, c)
    BY DEF d
  <2> QED
    BY <1>0, <1>3, <1>5, <2>1, <2>2, <2>3, LogGrows, SMTT(30)
<1>7. Known(E) = Known(D) \cup {c}
  BY <1>6 DEF Known, d
<1>8. Applied(E[r]) = Applied(d)
  <2>1. ToSet(E[r].pending) = {}
    BY DEF ToSet
  <2>2. OpsIn(Log(d) \cup {c}) = OpsIn(Log(d)) \cup ToSet(c.ops)
    BY DEF OpsIn
  <2> QED
    BY <1>2, <1>6, <2>1, <2>2 DEF Applied
<1>9. Made(E) = Made(D)
  BY <1>8 DEF Made, d
<1>10. /\ E[r].seq = d.seq + 1 /\ \A s \in Replicas : s # r => E[s].seq = D[s].seq
       /\ \A s \in Replicas : Log(D[s]) \subseteq Log(E[s])
  BY <1>6 DEF d
<1>11. /\ \A o \in ToSet(d.pending) : o.id[2] = r
       /\ Injective(d.pending)
       /\ \A x \in Known(D) : ToSet(x.ops) \cap ToSet(d.pending) = {}
  BY DEF AllOK, NamesOK, d
<1>12. NamesOK(E)
  <2>1. ASSUME NEW x \in Known(D)
        PROVE  /\ x.hash[2] \in 1..E[x.hash[1]].seq
               /\ x \in Log(E[x.hash[1]])
               /\ \A o \in ToSet(x.ops) : o.id[2] = x.hash[1]
               /\ Injective(x.ops)
    <3>1. /\ x.hash[2] \in 1..D[x.hash[1]].seq
          /\ x \in Log(D[x.hash[1]])
          /\ \A o \in ToSet(x.ops) : o.id[2] = x.hash[1]
          /\ Injective(x.ops)
      BY DEF AllOK, NamesOK
    <3>2. x.hash[1] \in Replicas
      BY <1>4, ChangeTypes
    <3>3. x.hash[2] \in 1..E[x.hash[1]].seq
      <4>1. CASE x.hash[1] = r
        BY <1>1, <1>10, <3>1, <4>1 DEF d
      <4>2. CASE x.hash[1] # r
        BY <3>1, <3>2, <4>2
      <4> QED
        BY <4>1, <4>2
    <3> QED
      BY <1>10, <3>1, <3>2, <3>3
  <2>2. /\ c.hash[2] \in 1..E[c.hash[1]].seq
        /\ c \in Log(E[c.hash[1]])
        /\ \A o \in ToSet(c.ops) : o.id[2] = c.hash[1]
        /\ Injective(c.ops)
    <3>1. d.seq + 1 \in 1..(d.seq + 1)
      BY <1>1
    <3> QED
      BY <1>2, <1>6, <1>10, <1>11, <3>1
  <2>3. ASSUME NEW x \in Known(E), NEW y \in Known(E), x # y
        PROVE  x.hash # y.hash /\ ToSet(x.ops) \cap ToSet(y.ops) = {}
    <3>1. CASE x \in Known(D) /\ y \in Known(D)
      BY <2>3, <3>1 DEF AllOK, NamesOK
    <3>2. CASE x = c \/ y = c
      BY <1>2, <1>4, <1>7, <1>11, <2>3, <3>2
    <3> QED
      BY <1>7, <3>1, <3>2
  <2>4. ASSUME NEW s \in Replicas
        PROVE  /\ \A o \in ToSet(E[s].pending) : o.id[2] = s
               /\ Injective(E[s].pending)
               /\ \A x \in Known(E) : ToSet(x.ops) \cap ToSet(E[s].pending) = {}
    <3>1. CASE s = r
      BY <3>1 DEF ToSet, Injective
    <3>2. CASE s # r
      <4>1. /\ \A o \in ToSet(D[s].pending) : o.id[2] = s
            /\ Injective(D[s].pending)
            /\ \A x \in Known(D) : ToSet(x.ops) \cap ToSet(D[s].pending) = {}
        BY DEF AllOK, NamesOK
      <4>2. ToSet(c.ops) \cap ToSet(D[s].pending) = {}
        BY <1>2, <1>11, <3>2, <4>1
      <4> QED
        BY <1>7, <3>2, <4>1, <4>2
    <3> QED
      BY <3>1, <3>2
  <2>5. OpsOK(Made(E))
    BY <1>9 DEF AllOK, NamesOK
  <2>6. \A x \in Known(E) : x \in Known(D) \/ x = c
    BY <1>7
  <2> QED
    BY <2>1, <2>2, <2>3, <2>4, <2>5, <2>6 DEF NamesOK
<1>13. CausesOK(E)
  <2>1. ASSUME NEW x \in Known(E), NEW H \in SUBSET Hash, Closed(E, H), x.deps \subseteq H,
               NEW j \in DOMAIN x.ops
        PROVE  Refs(x.ops[j]) \subseteq Inserted(OpsIn(Named(E, H)) \cup Before(x.ops, j))
    <3>1. Closed(D, H) /\ Named(D, H) \subseteq Named(E, H)
      BY <1>7, <2>1 DEF Closed, Named
    <3>2. CASE x \in Known(D)
      <4>1. Refs(x.ops[j]) \subseteq Inserted(OpsIn(Named(D, H)) \cup Before(x.ops, j))
        BY <2>1, <3>1, <3>2 DEF AllOK, CausesOK
      <4> QED
        BY <3>1, <4>1 DEF Inserted, OpsIn
    <3>3. CASE x = c
      <4>1. Hashes(d) \subseteq H
        BY <1>2, <2>1, <3>1, <3>3, HeadsCover DEF d
      <4>2. Log(d) \subseteq Named(E, H)
        <5>1. \A y \in Log(d) : y \in Known(E) /\ y.hash \in Hashes(d)
          BY <1>7 DEF Known, Hashes, Log, d
        <5> QED
          BY <4>1, <5>1 DEF Named
      <4>3. Refs(x.ops[j]) \subseteq Inserted(OpsIn(Log(d)) \cup Before(x.ops, j))
        BY <1>2, <3>3 DEF AllOK, CausesOK, d
      <4> QED
        BY <4>2, <4>3 DEF Inserted, OpsIn
    <3> QED
      BY <1>7, <3>2, <3>3
  <2>2. ASSUME NEW s \in Replicas, NEW j \in DOMAIN E[s].pending
        PROVE  Refs(E[s].pending[j])
                  \subseteq Inserted(OpsIn(Log(E[s])) \cup Before(E[s].pending, j))
    <3>1. CASE s = r
      BY <3>1
    <3>2. CASE s # r
      BY <3>2 DEF AllOK, CausesOK
    <3> QED
      BY <3>1, <3>2
  <2> QED
    BY <2>1, <2>2 DEF CausesOK
<1>14. ASSUME NEW s \in Replicas PROVE LocalOK(E[s])
  <2>1. CASE s # r
    BY <2>1 DEF AllOK
  <2>2. CASE s = r
    BY <1>0, <1>6, <1>8, <2>2 DEF LocalOK, d
  <2> QED
    BY <2>1, <2>2
<1> QED
  BY <1>9, <1>12, <1>13, <1>14 DEF AllOK, FromEdits

-----------------------------------------------------------------------------
(* Taking in changes.                                                      *)

\* What replica r of D may have become while it takes in changes others made.
Reached(D, r, d) ==
    /\ d \in Replica /\ LocalOK(d)
    /\ d.seq = D[r].seq /\ d.pending = D[r].pending
    /\ Log(D[r]) \subseteq Log(d) /\ Log(d) \subseteq Known(D)

\* A log holds changes its authors counted.
LEMMA HashesAre ==
    ASSUME NEW D, AllOK(D), CountsBound(D), NEW d, Log(d) \subseteq Known(D)
    PROVE  Hashes(d) \in SUBSET Hash
<1>0. D \in [Replicas -> Replica]
  BY DEF AllOK
<1>1. SUFFICES ASSUME NEW x \in Log(d) PROVE x.hash \in Hash
  BY DEF Hashes, Log
<1>2. x \in Known(D) /\ x \in Change
  BY <1>0, KnownTypes
<1>3. x.hash[1] \in Replicas /\ x.hash = <<x.hash[1], x.hash[2]>>
  BY <1>2, ChangeTypes
<1>4. x.hash[2] \in 1..MaxEdits[x.hash[1]]
  <2>1. x.hash[2] \in 1..D[x.hash[1]].seq /\ D[x.hash[1]].seq <= MaxEdits[x.hash[1]]
    BY <1>2, <1>3 DEF AllOK, NamesOK, CountsBound
  <2>2. D[x.hash[1]].seq \in Nat /\ MaxEdits[x.hash[1]] \in Nat
    BY <1>0, <1>3, ReplicaTypes, CrdtReplicasAssumption
  <2> QED
    BY <2>1, <2>2
<1> QED
  BY <1>3, <1>4 DEF Hash

\* The change is applied on top of its causes: every operation of it finds what it
\* refers to, and none of them was applied before.
LEMMA RemoteReflected ==
    ASSUME NEW D, AllOK(D), CountsBound(D), NEW r \in Replicas, NEW d, Reached(D, r, d),
           NEW c \in Known(D), c.hash \notin Hashes(d), c.deps \subseteq Hashes(d)
    PROVE  /\ ApplyOps(d.doc, c.ops) \in Document
           /\ Reflects(ApplyOps(d.doc, c.ops), Applied(d) \cup ToSet(c.ops))
<1> DEFINE n == Len(c.ops)
           H == Hashes(d)
           A == [i \in 0..n |-> {x \in Document : Reflects(x, Applied(d) \cup Before(c.ops, i + 1))}]
<1>0. /\ d \in Replica /\ LocalOK(d) /\ Log(d) \subseteq Known(D) /\ d.pending = D[r].pending
      /\ D \in [Replicas -> Replica] /\ d.doc \in Document
  BY ReplicaTypes DEF Reached, AllOK
<1>1. c \in Change /\ n \in Nat /\ DOMAIN c.ops = 1..n
  BY <1>0, KnownTypes, ChangeTypes
<1>2. \A x \in Known(D) : x.hash \in H => x \in Log(d)
  <2>1. SUFFICES ASSUME NEW x \in Known(D), x.hash \in H PROVE x \in Log(d)
    OBVIOUS
  <2>2. PICK y \in Log(d) : y.hash = x.hash
    BY <2>1 DEF Hashes, Log
  <2>3. y \in Known(D)
    BY <1>0
  <2> QED
    BY <2>2, <2>3 DEF AllOK, NamesOK
<1>3. Closed(D, H) /\ Named(D, H) = Log(d)
  <2>1. \A x \in Log(d) : x.deps \subseteq H /\ x.hash \in H
    BY <1>0, LogClosed DEF LocalOK
  <2> QED
    BY <1>0, <1>2, <2>1 DEF Closed, Named
<1>4. H \in SUBSET Hash
  BY <1>0, HashesAre
<1>5. \A j \in 1..n : Refs(c.ops[j]) \subseteq Inserted(OpsIn(Log(d)) \cup Before(c.ops, j))
  BY <1>1, <1>3, <1>4 DEF AllOK, CausesOK
<1>6. Applied(d) \cup ToSet(c.ops) \in SUBSET Made(D)
  <2>1. \A x \in Known(D) : ToSet(x.ops) \subseteq Made(D)
    BY DEF Known, Made, Applied, OpsIn
  <2>2. ToSet(d.pending) \subseteq Made(D)
    BY <1>0 DEF Made, Applied
  <2> QED
    BY <1>0, <2>1, <2>2 DEF Applied, OpsIn
<1>7. ToSet(c.ops) \cap Applied(d) = {}
  <2>1. c \notin Log(d)
    BY DEF Hashes, Log
  <2>2. \A x \in Log(d) : ToSet(c.ops) \cap ToSet(x.ops) = {}
    BY <1>0, <2>1 DEF AllOK, NamesOK
  <2>3. ToSet(c.ops) \cap ToSet(d.pending) = {}
    BY <1>0 DEF AllOK, NamesOK
  <2> QED
    BY <2>2, <2>3 DEF Applied, OpsIn
<1>8. d.doc \in A[0]
  <2>1. Before(c.ops, 0 + 1) = {}
    BY DEF Before
  <2>2. 0 \in 0..n
    BY <1>1
  <2> QED
    BY <1>0, <2>1, <2>2 DEF LocalOK
<1>9. ASSUME NEW i \in 1..n, NEW x \in A[i - 1] PROVE ApplyOp(x, c.ops[i]) \in A[i]
  <2> DEFINE op == c.ops[i]
             ops == Applied(d) \cup Before(c.ops, i)
  <2>1. i \in 0..n /\ i - 1 \in 0..n /\ (i - 1) + 1 = i
    BY <1>1
  <2>2. x \in Document /\ Reflects(x, ops)
    BY <2>1
  <2>3. Before(c.ops, i + 1) = Before(c.ops, i) \cup {op}
    <3>1. 1..((i + 1) - 1) = (1..(i - 1)) \cup {i}
      BY <1>1
    <3> QED
      BY <3>1 DEF Before
  <2>4. op \in ToSet(c.ops) /\ Before(c.ops, i) \subseteq ToSet(c.ops) /\ op \notin Before(c.ops, i)
    <3>1. \A k \in 1..(i - 1) : k \in DOMAIN c.ops /\ k # i
      BY <1>1
    <3>2. Injective(c.ops)
      BY DEF AllOK, NamesOK
    <3> QED
      BY <1>1, <3>1, <3>2 DEF Before, ToSet, Injective
  <2>5. op \notin ops
    BY <1>7, <2>4
  <2>6. OpsOK(ops \cup {op}) /\ op \in Op
    <3>1. ops \cup {op} \in SUBSET Made(D)
      BY <1>6, <2>4
    <3>2. OpsOK(Made(D))
      BY DEF AllOK, NamesOK
    <3> HIDE DEF op, ops
    <3> QED
      BY <3>1, <3>2, SubsetOK DEF OpsOK
  <2>7. Refs(op) \subseteq TextIds(x.text)
    <3>1. Refs(op) \subseteq Inserted(OpsIn(Log(d)) \cup Before(c.ops, i))
      BY <1>5
    <3>3. OpsIn(Log(d)) \cup Before(c.ops, i) \subseteq ops
      BY DEF Applied
    <3>4. Inserted(OpsIn(Log(d)) \cup Before(c.ops, i)) \subseteq Inserted(ops)
      BY <3>3 DEF Inserted
    <3>2. Inserted(ops) \subseteq TextIds(x.text)
      BY <2>2 DEF Inserted, Reflects, TextReflects
    <3> QED
      BY <3>1, <3>2, <3>4
  <2> HIDE DEF op, ops
  <2>8. ApplyOp(x, op) \in Document /\ Reflects(ApplyOp(x, op), ops \cup {op})
    BY <2>2, <2>5, <2>6, <2>7, ApplyKeeps
  <2>9. ops \cup {op} = Applied(d) \cup Before(c.ops, i + 1)
    BY <2>3 DEF op, ops
  <2> QED
    BY <2>1, <2>8, <2>9 DEF op
<1>10. ApplyOps(d.doc, c.ops) = Docs!Fold(d.doc, c.ops)
  BY DEF ApplyOps, Docs!Fold, FoldLeft, MapThenFoldSet, Max,
         Docs!MapThenFoldSet, Docs!Max
<1>11. Docs!Fold(d.doc, c.ops) \in A[n]
  <2> HIDE DEF A
  <2> QED
    BY <1>1, <1>8, <1>9, Docs!FoldLeftInduction
<1>12. n \in 0..n /\ Before(c.ops, n + 1) = ToSet(c.ops)
  <2>1. (n + 1) - 1 = n /\ n \in 0..n
    BY <1>1
  <2> QED
    BY <1>1, <2>1 DEF Before, ToSet
<1> QED
  BY <1>10, <1>11, <1>12

\* maxOp follows the operations taken in.
LEMMA CountFollows ==
    ASSUME NEW m \in Nat, NEW ops \in Seq(Op)
    PROVE  /\ CountOps(m, ops) \in Nat /\ m <= CountOps(m, ops)
           /\ \A o \in ToSet(ops) : o.id[1] + Width(o) - 1 <= CountOps(m, ops)
<1> DEFINE n == Len(ops)
           LastId(o) == o.id[1] + Width(o) - 1
           A == [i \in 0..n |-> {x \in Nat : m <= x /\ \A k \in 1..i : LastId(ops[k]) <= x}]
<1>1. n \in Nat /\ DOMAIN ops = 1..n /\ n \in 0..n /\ 0 \in 0..n
  OBVIOUS
<1>2. m \in A[0]
  BY <1>1
<1>3. \A k \in 1..n : LastId(ops[k]) \in Nat
  <2>1. \A k \in 1..n : ops[k].id[1] \in Nat /\ Width(ops[k]) \in Nat \ {0}
    BY OpTypes DEF OpId
  <2> QED
    BY <2>1
<1>4. \A x, o : Counter(x, o) = IF LastId(o) > x THEN LastId(o) ELSE x
  BY DEF Counter
<1> HIDE DEF LastId
<1>5. ASSUME NEW i \in 1..n, NEW x \in A[i - 1] PROVE Counter(x, ops[i]) \in A[i]
  <2>1. i \in 0..n /\ i - 1 \in 0..n
    BY <1>1
  <2>2. x \in Nat /\ m <= x /\ \A k \in 1..(i - 1) : LastId(ops[k]) <= x
    BY <2>1
  <2>3. \A k \in 1..i : k \in 1..(i - 1) \/ k = i
    BY <1>1
  <2> DEFINE y == Counter(x, ops[i])
  <2>4. y \in Nat /\ x <= y /\ LastId(ops[i]) <= y
    BY <1>3, <1>4, <2>2
  <2> HIDE DEF y
  <2>5. \A k \in 1..(i - 1) : k \in 1..n
    BY <1>1
  <2>6. \A k \in 1..i : LastId(ops[k]) <= y
    BY <1>3, <2>2, <2>3, <2>4, <2>5
  <2>7. m <= y
    BY <2>2, <2>4
  <2> QED
    BY <2>1, <2>4, <2>6, <2>7 DEF y
<1>6. CountOps(m, ops) = Counts!Fold(m, ops)
  BY DEF CountOps, Counts!Fold, FoldLeft, MapThenFoldSet, Max,
         Counts!MapThenFoldSet, Counts!Max
<1>7. Counts!Fold(m, ops) \in A[n]
  <2> HIDE DEF A
  <2> QED
    BY <1>1, <1>2, <1>5, Counts!FoldLeftInduction
<1>8. CountOps(m, ops) \in Nat /\ m <= CountOps(m, ops)
      /\ \A k \in 1..n : LastId(ops[k]) <= CountOps(m, ops)
  BY <1>1, <1>6, <1>7
<1> QED
  BY <1>1, <1>8 DEF ToSet, LastId

\* ReceiveSyncMessage on one change.
LEMMA TakeInKeeps ==
    ASSUME NEW D, AllOK(D), CountsBound(D), NEW r \in Replicas, NEW d, Reached(D, r, d),
           NEW c \in Known(D)
    PROVE  Reached(D, r, TakeIn(d, c))
<1>1. CASE c.hash \in Hashes(d) \/ MissingDeps(d, c) # {}
  BY <1>1 DEF TakeIn
<1>2. CASE c.hash \notin Hashes(d) /\ MissingDeps(d, c) = {}
  <2> DEFINE e == ApplyRemoteChange(d, c)
  <2>0. d \in Replica /\ LocalOK(d) /\ c \in Change /\ c.deps \subseteq Hashes(d)
    BY <1>2, KnownTypes DEF Reached, AllOK, MissingDeps
  <2>1. /\ d.changes \in Seq(Change) /\ d.deps \in SUBSET ChangeHash
        /\ d.maxOp \in Nat /\ d.seq \in Nat /\ d.pending \in Seq(Op)
        /\ c.ops \in Seq(Op) /\ c.hash \in ChangeHash
    BY <2>0, ReplicaTypes, ChangeTypes
  <2>3. ApplyOps(d.doc, c.ops) \in Document
        /\ Reflects(ApplyOps(d.doc, c.ops), Applied(d) \cup ToSet(c.ops))
    BY <1>2, <2>0, RemoteReflected
  <2>4. /\ CountOps(d.maxOp, c.ops) \in Nat /\ d.maxOp <= CountOps(d.maxOp, c.ops)
        /\ \A o \in ToSet(c.ops) : o.id[1] + Width(o) - 1 <= CountOps(d.maxOp, c.ops)
    BY <2>1, CountFollows
  <2>2. /\ Append(d.changes, c) \in Seq(Change)
        /\ (d.deps \ c.deps) \cup {c.hash} \in SUBSET ChangeHash
    BY <2>0, <2>1
  <2>5. /\ e.doc = ApplyOps(d.doc, c.ops) /\ e.changes = Append(d.changes, c)
        /\ e.deps = (d.deps \ c.deps) \cup {c.hash} /\ e.maxOp = CountOps(d.maxOp, c.ops)
        /\ e.seq = d.seq /\ e.pending = d.pending
    BY <2>0 DEF ApplyRemoteChange, MergeHeads, Replica
  <2>6. e \in Replica
    BY <2>0, <2>2, <2>3, <2>4 DEF ApplyRemoteChange, MergeHeads, Replica
  <2> HIDE DEF e
  <2>7. LogOK(e) /\ Log(e) = Log(d) \cup {c}
    BY <1>2, <2>0, <2>5, <2>6, LogGrows DEF LocalOK
  <2>8. Applied(e) = Applied(d) \cup ToSet(c.ops)
    <3>1. OpsIn(Log(d) \cup {c}) = OpsIn(Log(d)) \cup ToSet(c.ops)
      BY DEF OpsIn
    <3> QED
      BY <2>5, <2>7, <3>1 DEF Applied
  <2>9. ASSUME NEW o \in Applied(e) PROVE o.id[1] + Width(o) - 1 <= e.maxOp
    <3>1. CASE o \in ToSet(c.ops)
      BY <2>4, <2>5, <3>1
    <3>2. CASE o \in Applied(d)
      <4>1. o.id[1] + Width(o) - 1 <= d.maxOp
        BY <2>0, <3>2 DEF LocalOK
      <4>2. o \in Op
        <5>1. o \in Made(D)
          <6>1. d.pending = D[r].pending /\ Log(d) \subseteq Known(D)
            BY DEF Reached
          <6> QED
            BY <3>2, <6>1 DEF Applied, OpsIn, Made, Known
        <5> QED
          BY <5>1 DEF AllOK, NamesOK, OpsOK
      <4>3. o.id[1] \in Nat /\ Width(o) \in Nat
        BY <4>2, OpTypes DEF OpId
      <4> QED
        BY <2>1, <2>4, <2>5, <4>1, <4>3
    <3> QED
      BY <2>8, <3>1, <3>2
  <2>10. LocalOK(e)
    BY <2>3, <2>5, <2>7, <2>8, <2>9 DEF LocalOK
  <2>11. Reached(D, r, e)
    BY <2>5, <2>6, <2>7, <2>10 DEF Reached
  <2> QED
    BY <1>2, <2>11 DEF TakeIn, e
<1> QED
  BY <1>1, <1>2

\* ReceiveSyncMessage on the changes of a log, in its order, some of them lost.
LEMMA AllTakenIn ==
    ASSUME NEW D, AllOK(D), CountsBound(D), NEW r \in Replicas, NEW s \in Replicas, NEW S,
           NEW messages, messages = [i \in DOMAIN D[s].changes |->
                                        [change |-> D[s].changes[i], sent |-> i \in S]]
    PROVE  Reached(D, r, TakeInAll(D[r], messages))
<1> DEFINE n == Len(D[s].changes)
           A == [i \in 0..n |-> {d \in Replica : Reached(D, r, d)}]
<1>0. D[r] \in Replica /\ D[s] \in Replica
  BY DEF AllOK
<1>1. n \in Nat /\ DOMAIN D[s].changes = 1..n /\ DOMAIN messages = 1..n /\ n \in 0..n /\ 0 \in 0..n
  BY <1>0, ReplicaTypes
<1>2. D[r] \in A[0]
  <2>1. Log(D[r]) \subseteq Known(D)
    BY DEF Known
  <2> QED
    BY <1>0, <1>1, <2>1 DEF Reached, AllOK
<1>3. ASSUME NEW i \in 1..n, NEW d \in A[i - 1] PROVE TakeInSent(d, messages[i]) \in A[i]
  <2>1. i \in 0..n /\ i - 1 \in 0..n
    BY <1>1
  <2>2. Reached(D, r, d)
    BY <2>1
  <2>3. D[s].changes[i] \in Known(D)
    BY <1>1 DEF Known, Log, ToSet
  <2>4. Reached(D, r, TakeIn(d, D[s].changes[i]))
    BY <2>2, <2>3, TakeInKeeps
  <2>5. messages[i].change = D[s].changes[i]
    BY <1>1
  <2>6. Reached(D, r, TakeInSent(d, messages[i]))
    BY <2>2, <2>4, <2>5 DEF TakeInSent
  <2>7. TakeInSent(d, messages[i]) \in Replica
    BY <2>6 DEF Reached
  <2> QED
    BY <2>1, <2>6, <2>7
<1>4. TakeInAll(D[r], messages) = Taken!Fold(D[r], messages)
  BY DEF TakeInAll, Taken!Fold, FoldLeft, MapThenFoldSet, Max,
         Taken!MapThenFoldSet, Taken!Max
<1>5. Taken!Fold(D[r], messages) \in A[n]
  <2> HIDE DEF A
  <2> QED
    BY <1>1, <1>2, <1>3, Taken!FoldLeftInduction
<1> QED
  BY <1>1, <1>4, <1>5

\* Replacing a replica by one that took in changes others hold keeps the invariant.
LEMMA ReceiveKeeps ==
    ASSUME NEW D, AllOK(D), NEW r \in Replicas,
           NEW E, E \in [Replicas -> Replica], \A s \in Replicas : s # r => E[s] = D[s],
           Reached(D, r, E[r])
    PROVE  AllOK(E)
<1>0. /\ E[r].seq = D[r].seq /\ E[r].pending = D[r].pending /\ LocalOK(E[r])
      /\ Log(D[r]) \subseteq Log(E[r]) /\ Log(E[r]) \subseteq Known(D)
      /\ D \in [Replicas -> Replica]
  BY DEF Reached, AllOK
<1>1. \A s \in Replicas : /\ Log(D[s]) \subseteq Log(E[s]) /\ Log(E[s]) \subseteq Known(D)
                          /\ E[s].seq = D[s].seq /\ E[s].pending = D[s].pending
  BY <1>0 DEF Known
<1>2. Known(E) = Known(D)
  BY <1>1 DEF Known
<1>3. \A F : Made(F) = OpsIn(Known(F)) \cup UNION {ToSet(F[s].pending) : s \in Replicas}
  BY DEF Made, Applied, OpsIn, Known
<1>4. Made(E) = Made(D)
  <2>1. UNION {ToSet(E[s].pending) : s \in Replicas} = UNION {ToSet(D[s].pending) : s \in Replicas}
    BY <1>1
  <2> QED
    BY <1>2, <1>3, <2>1
<1>5. NamesOK(E)
  <2>1. ASSUME NEW c \in Known(E)
        PROVE  /\ c.hash[2] \in 1..E[c.hash[1]].seq
               /\ c \in Log(E[c.hash[1]])
               /\ \A op \in ToSet(c.ops) : op.id[2] = c.hash[1]
               /\ Injective(c.ops)
               /\ \A e \in Known(E) : c # e => c.hash # e.hash /\ ToSet(c.ops) \cap ToSet(e.ops) = {}
    <3>1. c \in Known(D) /\ c.hash[1] \in Replicas
      BY <1>0, <1>2, KnownTypes, ChangeTypes
    <3> QED
      BY <1>1, <1>2, <3>1 DEF AllOK, NamesOK
  <2>2. \A s \in Replicas :
           /\ \A op \in ToSet(E[s].pending) : op.id[2] = s
           /\ Injective(E[s].pending)
           /\ \A c \in Known(E) : ToSet(c.ops) \cap ToSet(E[s].pending) = {}
    BY <1>1, <1>2 DEF AllOK, NamesOK
  <2> QED
    BY <1>4, <2>1, <2>2 DEF AllOK, NamesOK
<1>6. CausesOK(E)
  <2>1. \A H : Closed(E, H) = Closed(D, H) /\ Named(E, H) = Named(D, H)
    BY <1>2 DEF Closed, Named
  <2>2. ASSUME NEW c \in Known(E), NEW H \in SUBSET Hash, Closed(E, H), c.deps \subseteq H,
               NEW j \in DOMAIN c.ops
        PROVE  Refs(c.ops[j]) \subseteq Inserted(OpsIn(Named(E, H)) \cup Before(c.ops, j))
    BY <1>2, <2>1, <2>2 DEF AllOK, CausesOK
  <2>3. ASSUME NEW s \in Replicas, NEW j \in DOMAIN E[s].pending
        PROVE  Refs(E[s].pending[j])
                  \subseteq Inserted(OpsIn(Log(E[s])) \cup Before(E[s].pending, j))
    <3>1. Refs(D[s].pending[j]) \subseteq Inserted(OpsIn(Log(D[s])) \cup Before(D[s].pending, j))
      BY <1>1 DEF AllOK, CausesOK
    <3>2. OpsIn(Log(D[s])) \subseteq OpsIn(Log(E[s]))
      BY <1>1 DEF OpsIn
    <3> QED
      BY <1>1, <3>1, <3>2 DEF Inserted
  <2> QED
    BY <2>2, <2>3 DEF CausesOK
<1>7. \A s \in Replicas : LocalOK(E[s])
  BY <1>0 DEF AllOK
<1> QED
  BY <1>4, <1>5, <1>6, <1>7 DEF AllOK, FromEdits

-----------------------------------------------------------------------------
(* The specification.                                                      *)

\* Empty documents satisfy the invariant.
LEMMA InitOK == ReplicaInit => IInv
<1> SUFFICES ASSUME ReplicaInit PROVE IInv
  OBVIOUS
<1>1. /\ NewDoc.doc = Empty /\ NewDoc.changes = << >> /\ NewDoc.deps = {} /\ NewDoc.maxOp = 0
      /\ NewDoc.seq = 0 /\ NewDoc.pending = << >>
  BY DEF NewDoc
<1>2. NewDoc \in Replica
  <2>1. Empty \in Document
    BY EmptyReflects
  <2> QED
    BY <2>1 DEF NewDoc, Replica
<1>3. /\ docs \in [Replicas -> Replica] /\ edits \in [Replicas -> Nat]
      /\ \A r \in Replicas : docs[r] = NewDoc /\ edits[r] = 0
  BY <1>2 DEF ReplicaInit
<1>4. Log(NewDoc) = {} /\ Applied(NewDoc) = {} /\ ToSet(NewDoc.pending) = {}
  <2>1. ToSet(<< >>) = {}
    BY DEF ToSet
  <2> QED
    BY <1>1, <2>1 DEF Log, Applied, OpsIn
<1>5. Known(docs) = {} /\ Made(docs) = {}
  BY <1>3, <1>4 DEF Known, Made
<1>6. NamesOK(docs)
  <2>1. OpsOK({})
    BY DEF OpsOK
  <2>2. Injective(<< >>)
    BY DEF Injective
  <2> QED
    BY <1>1, <1>3, <1>4, <1>5, <2>1, <2>2 DEF NamesOK
<1>7. CausesOK(docs)
  <2>1. \A r \in Replicas : DOMAIN docs[r].pending = {}
    BY <1>1, <1>3
  <2> QED
    BY <1>5, <2>1 DEF CausesOK
<1>8. LocalOK(NewDoc)
  <2>1. Hashes(NewDoc) = {} /\ UNION {c.deps : c \in Log(NewDoc)} = {}
    BY <1>4 DEF Hashes, Log
  <2>2. LogOK(NewDoc)
    BY <1>1, <2>1 DEF LogOK
  <2> QED
    BY <1>1, <1>4, <2>2, EmptyReflects DEF LocalOK
<1>9. CountsOK(docs, edits)
  BY <1>1, <1>3, CrdtReplicasAssumption DEF CountsOK
<1> QED
  BY <1>3, <1>5, <1>6, <1>7, <1>8, <1>9 DEF IInv, AllOK, FromEdits

\* Every step keeps the invariant.
LEMMA StepOK == IInv /\ [ReplicaNext]_replicaVars => IInv'
<1> SUFFICES ASSUME IInv, [ReplicaNext]_replicaVars PROVE IInv'
  OBVIOUS
<1>0. /\ AllOK(docs) /\ CountsOK(docs, edits) /\ edits \in [Replicas -> Nat]
      /\ docs \in [Replicas -> Replica] /\ MaxEdits \in [Replicas -> Nat]
  BY CrdtReplicasAssumption DEF IInv, AllOK
<1>1. /\ CountsBound(docs)
      /\ \A r \in Replicas : docs[r].seq \in Nat /\ Len(docs[r].pending) \in Nat
                             /\ edits[r] \in Nat /\ MaxEdits[r] \in Nat
  <2>1. \A r \in Replicas : docs[r].seq \in Nat /\ Len(docs[r].pending) \in Nat
                            /\ edits[r] \in Nat /\ MaxEdits[r] \in Nat
    BY <1>0, ReplicaTypes
  <2> QED
    BY <1>0, <2>1 DEF CountsBound, CountsOK
<1>2. ASSUME NEW r \in Replicas, Edit(r) PROVE IInv'
  <2>1. PICK op \in LocalOps(docs[r].doc, <<docs[r].maxOp + 1, r>>) :
           docs' = [docs EXCEPT ![r].doc = ApplyOp(@, op),
                                ![r].maxOp = @ + Width(op),
                                ![r].pending = Append(@, op)]
    BY <1>2 DEF Edit
  <2>2. op \in Op /\ ApplyOp(docs[r].doc, op) \in Document /\ Width(op) \in Nat
    BY <1>0, EditIsNew, OpTypes
  <2>3. docs[r].maxOp \in Nat /\ docs[r].pending \in Seq(Op)
    BY <1>0, ReplicaTypes
  <2>4. docs[r].maxOp + Width(op) \in Nat /\ Append(docs[r].pending, op) \in Seq(Op)
    BY <2>2, <2>3
  <2>5. docs' \in [Replicas -> Replica]
    BY <1>0, <2>1, <2>2, <2>4, ZenonT(30) DEF Replica
  <2>6. /\ \A s \in Replicas : s # r => docs'[s] = docs[s]
        /\ docs'[r].doc = ApplyOp(docs[r].doc, op)
        /\ docs'[r].maxOp = docs[r].maxOp + Width(op)
        /\ docs'[r].pending = Append(docs[r].pending, op)
        /\ docs'[r].changes = docs[r].changes /\ docs'[r].deps = docs[r].deps
        /\ docs'[r].seq = docs[r].seq
    BY <1>0, <2>1 DEF Replica
  <2>7. AllOK(docs')
    BY <1>0, <2>5, <2>6, EditKeeps
  <2>8. edits' = [edits EXCEPT ![r] = @ + 1] /\ edits[r] < MaxEdits[r]
    BY <1>2 DEF Edit
  <2>9. edits' \in [Replicas -> Nat] /\ CountsOK(docs', edits')
    <3>1. Len(docs'[r].pending) = Len(docs[r].pending) + 1
      BY <2>2, <2>3, <2>6
    <3>2. edits' \in [Replicas -> Nat] /\ edits'[r] = edits[r] + 1
          /\ \A s \in Replicas : s # r => edits'[s] = edits[s]
      BY <1>0, <1>1, <2>8
    <3>3. ASSUME NEW s \in Replicas
          PROVE  docs'[s].seq + Len(docs'[s].pending) <= edits'[s] /\ edits'[s] <= MaxEdits[s]
      <4>1. docs[s].seq + Len(docs[s].pending) <= edits[s] /\ edits[s] <= MaxEdits[s]
        BY <1>0 DEF CountsOK
      <4>2. CASE s = r
        <5> DEFINE a == docs[r].seq
                   b == Len(docs[r].pending)
                   x == edits[r]
                   y == MaxEdits[r]
        <5>1. a \in Nat /\ b \in Nat /\ x \in Nat /\ y \in Nat /\ a + b <= x /\ x < y
          BY <1>1, <2>8, <4>1, <4>2
        <5>2. docs'[r].seq = a /\ Len(docs'[r].pending) = b + 1 /\ edits'[r] = x + 1
          BY <2>6, <3>1, <3>2
        <5> HIDE DEF a, b, x, y
        <5>3. a + (b + 1) <= x + 1 /\ x + 1 <= y
          BY <5>1
        <5> QED
          BY <4>2, <5>2, <5>3 DEF y
      <4>3. CASE s # r
        BY <2>6, <3>2, <4>1, <4>3
      <4> QED
        BY <4>2, <4>3
    <3> QED
      BY <3>2, <3>3 DEF CountsOK
  <2> QED
    BY <2>7, <2>9 DEF IInv
<1>3. ASSUME NEW r \in Replicas, Commit(r) PROVE IInv'
  <2> DEFINE c == [hash |-> <<r, docs[r].seq + 1>>, deps |-> docs[r].deps, ops |-> docs[r].pending]
  <2>1. /\ docs' = [docs EXCEPT ![r].changes = Append(@, c), ![r].deps = {<<r, docs[r].seq + 1>>},
                                ![r].seq = @ + 1, ![r].pending = << >>]
        /\ docs[r].pending # << >> /\ edits' = edits
    BY <1>3 DEF Commit
  <2>2. c.hash = <<r, docs[r].seq + 1>>
    OBVIOUS
  <2>3. docs[r].seq \in Nat /\ docs[r].pending \in Seq(Op) /\ docs[r].changes \in Seq(Change)
        /\ docs[r].deps \in SUBSET ChangeHash
    BY <1>0, ReplicaTypes
  <2>4. <<r, docs[r].seq + 1>> \in ChangeHash
    BY <2>3 DEF ChangeHash
  <2>5. c \in Change
    BY <2>3, <2>4 DEF Change
  <2> HIDE DEF c
  <2>6. /\ Append(docs[r].changes, c) \in Seq(Change) /\ {<<r, docs[r].seq + 1>>} \in SUBSET ChangeHash
        /\ docs[r].seq + 1 \in Nat /\ << >> \in Seq(Op)
    BY <2>3, <2>4, <2>5
  <2>7. docs' \in [Replicas -> Replica]
    BY <1>0, <2>1, <2>6 DEF Replica
  <2>8. /\ \A s \in Replicas : s # r => docs'[s] = docs[s]
        /\ docs'[r].changes = Append(docs[r].changes, c) /\ docs'[r].deps = {c.hash}
        /\ docs'[r].seq = docs[r].seq + 1 /\ docs'[r].pending = << >>
        /\ docs'[r].doc = docs[r].doc /\ docs'[r].maxOp = docs[r].maxOp
    BY <1>0, <2>1, <2>2 DEF Replica
  <2>9. AllOK(docs')
    BY <1>0, <2>7, <2>8, CommitKeeps DEF c
  <2>10. CountsOK(docs', edits')
    <3>1. Len(docs[r].pending) >= 1 /\ Len(docs'[r].pending) = 0
      BY <2>1, <2>3, <2>8, SMTT(30)
    <3> SUFFICES ASSUME NEW s \in Replicas
                 PROVE  docs'[s].seq + Len(docs'[s].pending) <= edits[s] /\ edits[s] <= MaxEdits[s]
      BY <2>1 DEF CountsOK
    <3>2. docs[s].seq + Len(docs[s].pending) <= edits[s] /\ edits[s] <= MaxEdits[s]
      BY <1>0 DEF CountsOK
    <3>3. CASE s = r
      BY <1>1, <2>8, <3>1, <3>2, <3>3, SMTT(30)
    <3>4. CASE s # r
      BY <2>8, <3>2, <3>4
    <3> QED
      BY <3>3, <3>4
  <2> QED
    BY <1>0, <2>1, <2>9, <2>10 DEF IInv
<1>4. ASSUME NEW r \in Replicas, NEW s \in Replicas, Receive(r, s) PROVE IInv'
  <2>1. PICK S : docs' = [docs EXCEPT ![r] = TakeInAll(docs[r],
                             [i \in DOMAIN docs[s].changes |->
                                 [change |-> docs[s].changes[i], sent |-> i \in S]])]
    BY <1>4 DEF Receive
  <2> DEFINE e == TakeInAll(docs[r], [i \in DOMAIN docs[s].changes |->
                                         [change |-> docs[s].changes[i], sent |-> i \in S]])
  <2>2. Reached(docs, r, e)
    BY <1>0, <1>1, AllTakenIn
  <2>3. e \in Replica /\ e.seq = docs[r].seq /\ e.pending = docs[r].pending
    BY <2>2 DEF Reached
  <2>4. docs' = [docs EXCEPT ![r] = e] /\ edits' = edits
    BY <1>4, <2>1 DEF Receive
  <2> HIDE DEF e
  <2>5. /\ docs' \in [Replicas -> Replica] /\ docs'[r] = e
        /\ \A t \in Replicas : t # r => docs'[t] = docs[t]
    BY <1>0, <2>3, <2>4
  <2>6. AllOK(docs')
    BY <1>0, <2>2, <2>5, ReceiveKeeps
  <2>7. \A t \in Replicas : docs'[t].seq = docs[t].seq /\ docs'[t].pending = docs[t].pending
    BY <2>3, <2>5
  <2> QED
    BY <1>0, <2>4, <2>6, <2>7 DEF IInv, CountsOK
<1>5. CASE UNCHANGED replicaVars
  BY <1>5 DEF IInv, replicaVars
<1> QED
  BY <1>2, <1>3, <1>4, <1>5 DEF ReplicaNext

\* A replica has made no more changes than edits.
LEMMA Bounded ==
    ASSUME IInv
    PROVE  CountsBound(docs) /\ \A r \in Replicas : docs[r].seq \in 0..MaxEdits[r]
<1>1. docs \in [Replicas -> Replica] /\ edits \in [Replicas -> Nat] /\ MaxEdits \in [Replicas -> Nat]
  BY CrdtReplicasAssumption DEF IInv, AllOK
<1>2. ASSUME NEW r \in Replicas PROVE docs[r].seq \in 0..MaxEdits[r]
  <2>1. docs[r].seq \in Nat /\ Len(docs[r].pending) \in Nat /\ edits[r] \in Nat /\ MaxEdits[r] \in Nat
    BY <1>1, ReplicaTypes
  <2>2. docs[r].seq + Len(docs[r].pending) <= edits[r] /\ edits[r] <= MaxEdits[r]
    BY DEF IInv, CountsOK
  <2> QED
    BY <2>1, <2>2
<1> QED
  BY <1>2 DEF CountsBound

\* The inductive invariant holds in every state: names are unique, causes come
\* first, and every document reflects exactly the operations of its log and its
\* pending ones.
THEOREM ReplicasReflect == ReplicaSpec => []IInv
BY InitOK, StepOK, PTL DEF ReplicaSpec

\* Every replica's log is causally closed with the right heads, its text holds what
\* its operations refer to, and its next operation id is greater than all it holds:
\* commitPending, ReceiveSyncMessage and every edit keep it so, for any number of
\* replicas and edits.
THEOREM ReplicasSafe == ReplicaSpec => []ReplicaInv
<1>1. IInv => ReplicaInv
  <2> SUFFICES ASSUME IInv PROVE ReplicaInv
    OBVIOUS
  <2>0. /\ AllOK(docs) /\ CountsBound(docs) /\ edits \in [Replicas -> Nat]
        /\ docs \in [Replicas -> Replica]
    BY Bounded DEF IInv, AllOK
  <2>1. ASSUME NEW r \in Replicas
        PROVE  /\ docs[r] \in Replica /\ LocalOK(docs[r]) /\ LogOK(docs[r])
               /\ OpsOK(Applied(docs[r])) /\ Log(docs[r]) \subseteq Known(docs)
               /\ docs[r].doc.text \in Seq(Elem)
    <3>1. docs[r] \in Replica /\ LocalOK(docs[r]) /\ LogOK(docs[r])
      BY <2>0 DEF AllOK, LocalOK
    <3>2. docs[r].doc.text \in Seq(Elem)
      BY <3>1, ReplicaTypes DEF Document
    <3>3. OpsOK(Made(docs)) /\ Applied(docs[r]) \in SUBSET Made(docs)
      BY <2>0 DEF AllOK, NamesOK, Made
    <3>4. OpsOK(Applied(docs[r]))
      BY <3>3, SubsetOK
    <3> QED
      BY <3>1, <3>2, <3>4 DEF Known
  <2>2. ReplicaTypeOK
    <3> SUFFICES ASSUME NEW r \in Replicas
                 PROVE  /\ Held(r) \subseteq Hash /\ docs[r].deps \subseteq Held(r)
                        /\ docs[r].maxOp \in Nat /\ docs[r].seq \in 0..MaxEdits[r]
                        /\ \A i \in DOMAIN docs[r].doc.text :
                              docs[r].doc.text[i].deleted \in BOOLEAN
      BY <2>0 DEF ReplicaTypeOK
    <3>1. Held(r) \subseteq Hash
      BY <2>0, <2>1, HashesAre DEF Held
    <3>2. docs[r].deps \subseteq Held(r)
      BY <2>1, LogClosed DEF Held
    <3>3. docs[r].maxOp \in Nat
      BY <2>1, ReplicaTypes
    <3>4. \A i \in DOMAIN docs[r].doc.text : docs[r].doc.text[i].deleted \in BOOLEAN
      BY <2>1, ElemTypes
    <3> QED
      BY <3>1, <3>2, <3>3, <3>4, Bounded
  <2>3. ASSUME NEW text \in Seq(Elem)
        PROVE  TextIds(text) = {e.id : e \in ToSet(text)}
    BY ElemTypes DEF TextIds, ToSet
  <2>4. CausallyClosed
    <3> SUFFICES ASSUME NEW r \in Replicas
                 PROVE  LET log == docs[r].changes
                        IN  /\ \A i \in DOMAIN log :
                                  log[i].deps \subseteq {log[j].hash : j \in 1..(i - 1)}
                            /\ docs[r].deps = Held(r) \ UNION {c.deps : c \in ToSet(log)}
                            /\ \A c \in ToSet(log) : \A op \in ToSet(c.ops) :
                                  Refs(op) \subseteq {e.id : e \in ToSet(docs[r].doc.text)}
      BY DEF CausallyClosed
    <3>1. \A op \in Applied(docs[r]) : Refs(op) \subseteq TextIds(docs[r].doc.text)
      BY <2>1 DEF LocalOK, Reflects, TextReflects
    <3>2. \A c \in Log(docs[r]) : \A op \in ToSet(c.ops) : op \in Applied(docs[r])
      BY DEF Applied, OpsIn
    <3>3. \A c \in ToSet(docs[r].changes) : \A op \in ToSet(c.ops) :
             Refs(op) \subseteq {e.id : e \in ToSet(docs[r].doc.text)}
      BY <2>1, <2>3, <3>1, <3>2 DEF Log
    <3> QED
      BY <2>1, <3>3 DEF LogOK, Log, Held
  <2>5. IdsAhead
    <3> SUFFICES ASSUME NEW r \in Replicas
                 PROVE  /\ \A e \in ToSet(docs[r].doc.text) :
                              e.id[1] <= docs[r].maxOp /\ e.vis[1] <= docs[r].maxOp
                        /\ \A p \in Props : docs[r].doc.map[p].id[1] <= docs[r].maxOp
                        /\ \A e \in ToSet(docs[r].doc.text) :
                              e.after # NoOp => Greater(e.id, e.after)
      BY DEF IdsAhead
    <3> DEFINE text == docs[r].doc.text
    <3>1. DOMAIN text = 1..Len(text)
      BY <2>1, ElemTypes
    <3>2. /\ \A x \in TextIds(text) : x[1] <= docs[r].maxOp
          /\ \A k \in 1..Len(text) : text[k].vis[1] <= docs[r].maxOp
          /\ \A p \in Props : docs[r].doc.map[p].id[1] <= docs[r].maxOp
      BY <2>1, IdsBounded
    <3>3. \A k \in 1..Len(text) : text[k].after # NoOp => Greater(text[k].id, text[k].after)
      BY <2>1 DEF LocalOK, Reflects, Placed
    <3>4. \A k \in 1..Len(text) : text[k].id[1] <= docs[r].maxOp
      BY <3>2 DEF TextIds
    <3> HIDE DEF text
    <3>5. /\ \A e \in ToSet(text) : e.id[1] <= docs[r].maxOp /\ e.vis[1] <= docs[r].maxOp
          /\ \A e \in ToSet(text) : e.after # NoOp => Greater(e.id, e.after)
      BY <3>1, <3>2, <3>3, <3>4 DEF ToSet
    <3> QED
      BY <3>2, <3>5 DEF text
  <2> QED
    BY <2>2, <2>4, <2>5 DEF ReplicaInv
<1> QED
  BY <1>1, ReplicasReflect, PTL

\* No key is edited both as a counter and as a register: an increment adds to what it
\* finds, so replicas that see it on either side of a put may differ.
OneKindPerKey ==
    \A p \in Props : <<"increment", p>> \in MapEdits
                      => <<"put", p>> \notin MapEdits /\ <<"delete", p>> \notin MapEdits

\* Strong eventual consistency: replicas that hold the same changes and nothing
\* uncommitted show the same document, whatever the order the changes arrived in, for
\* any number of replicas, edits and keys.
THEOREM Convergence ==
    ASSUME OneKindPerKey
    PROVE  ReplicaSpec => []Converged
<1>1. IInv => Converged
  <2> SUFFICES ASSUME IInv, NEW r \in Replicas, NEW s \in Replicas, Held(r) = Held(s),
                      docs[r].pending = << >>, docs[s].pending = << >>
               PROVE  View(docs[r].doc) = View(docs[s].doc)
    BY DEF Converged
  <2>0. AllOK(docs) /\ FromEdits(docs) /\ docs \in [Replicas -> Replica]
    BY DEF IInv, AllOK
  <2>1. ASSUME NEW t \in Replicas, NEW u \in Replicas, Held(t) = Held(u)
        PROVE  Log(docs[t]) \subseteq Log(docs[u])
    <3> SUFFICES ASSUME NEW c \in Log(docs[t]) PROVE c \in Log(docs[u])
      OBVIOUS
    <3>1. c.hash \in Hashes(docs[u])
      BY <2>1 DEF Held, Hashes, Log
    <3>2. PICK e \in Log(docs[u]) : e.hash = c.hash
      BY <3>1 DEF Hashes, Log
    <3>3. c \in Known(docs) /\ e \in Known(docs)
      BY DEF Known
    <3> QED
      BY <2>0, <3>2, <3>3 DEF AllOK, NamesOK
  <2>2. Applied(docs[r]) = Applied(docs[s])
    <3>1. Log(docs[r]) = Log(docs[s])
      BY <2>1, ZenonT(30)
    <3> QED
      BY <3>1 DEF Applied
  <2> DEFINE ops == Applied(docs[r])
  <2>3. OpsOK(ops) /\ ops \in SUBSET Made(docs)
    <3>1. OpsOK(Made(docs)) /\ ops \in SUBSET Made(docs)
      BY <2>0 DEF AllOK, NamesOK, Made
    <3> HIDE DEF ops
    <3> QED
      BY <3>1, SubsetOK
  <2>4. Unmixed(ops)
    <3> SUFFICES ASSUME NEW p \in Props, NEW w \in Writes(ops, p), NEW i \in Increments(ops, p)
                 PROVE  FALSE
      BY DEF Unmixed
    <3>1. w \in Made(docs) /\ i \in Made(docs) /\ w.prop = p /\ i.prop = p
          /\ w.action \in {"put", "delete"} /\ i.action = "increment"
      BY <2>3 DEF Writes, Increments
    <3>2. <<w.action, p>> \in MapEdits /\ <<"increment", p>> \in MapEdits
      BY <2>0, <3>1 DEF FromEdits
    <3> QED
      BY <3>1, <3>2 DEF OneKindPerKey
  <2>5. docs[r].doc \in Document /\ docs[s].doc \in Document
    BY <2>0, ReplicaTypes
  <2>6. Reflects(docs[r].doc, ops) /\ Reflects(docs[s].doc, ops)
    BY <2>0, <2>2 DEF AllOK, LocalOK
  <2> QED
    BY <2>3, <2>4, <2>5, <2>6, ReflectsOnce
<1> QED
  BY <1>1, ReplicasReflect, PTL

-----------------------------------------------------------------------------
(* The sync protocol.                                                      *)

\* Induction over the changes of a message.
Received == INSTANCE FoldFacts WITH op <- ReceiveChange

-----------------------------------------------------------------------------
(* The inductive invariant: what is in flight was taken from its sender's  *)
(* log, in the order of the log.                                           *)

\* Log t goes on where log s ends.
Continues(s, t) ==
    /\ Len(s) \in Nat /\ Len(t) \in Nat /\ Len(s) <= Len(t)
    /\ \A i \in 1..Len(s) : t[i] = s[i]

\* The changes of a message are changes of the log d had when it was generated.
FromLog(m, d) ==
    \E k \in 0..Len(d.changes) :
        /\ DOMAIN m.changes = 1..k
        /\ \A i \in 1..k : m.changes[i].change = d.changes[i]

IsSeq(q) == \E S : q \in Seq(S)

\* A queue of messages generated from d.
AllFrom(q, d) == IsSeq(q) /\ \A i \in 1..Len(q) : FromLog(q[i], d)

FramesOK ==
    /\ queue = [c \in Clients |-> queue[c]] /\ wire = [c \in Clients |-> wire[c]]
    /\ frame = [g \in Replicas |-> frame[g]]
    /\ \A c \in Clients : AllFrom(queue[c], docs[Hub]) /\ AllFrom(wire[c], docs[c])
    /\ \A g \in Replicas : frame[g] # NoFrame => FromLog(frame[g].msg, docs[Hub])

SyncIInv == IInv /\ FramesOK

-----------------------------------------------------------------------------
(* Receiving a message.                                                    *)

\* What a message does to the document does not depend on the peer's state.
LEMMA ReceivedIs ==
    ASSUME NEW d, NEW s, NEW m, NEW n \in Nat, DOMAIN m.changes = 1..n
    PROVE  ReceiveSyncMessage(d, s, m).d = TakeInAll(d, m.changes)
<1> DEFINE acc == [d |-> d, s |-> s]
<1>1. ReceiveChanges(acc, m.changes) = Received!Fold(acc, m.changes)
  BY DEF ReceiveChanges, Received!Fold, FoldLeft, MapThenFoldSet, Max,
         Received!MapThenFoldSet, Received!Max
<1>2. TakeInAll(d, m.changes) = Taken!Fold(d, m.changes)
  BY DEF TakeInAll, Taken!Fold, FoldLeft, MapThenFoldSet, Max,
         Taken!MapThenFoldSet, Taken!Max
<1>3. PICK c : /\ c[0] = acc
               /\ \A i \in 1..n : c[i] = ReceiveChange(c[i - 1], m.changes[i])
               /\ Received!Fold(acc, m.changes) = c[n]
  <2> DEFINE q == m.changes
  <2>1. DOMAIN q = 1..n
    OBVIOUS
  <2> HIDE DEF q, acc
  <2>2. \E c : /\ c[0] = acc
               /\ \A i \in 1..n : c[i] = ReceiveChange(c[i - 1], q[i])
               /\ Received!Fold(acc, q) = c[n]
    BY <2>1, Received!FoldLeftChain
  <2> QED
    BY <2>2 DEF q
<1> DEFINE e == [i \in 0..n |-> c[i].d]
<1>4. e[0] = d /\ e[n] = c[n].d
  BY <1>3
<1>5. \A i \in 1..n : e[i] = TakeInSent(e[i - 1], m.changes[i])
  <2> SUFFICES ASSUME NEW i \in 1..n PROVE e[i] = TakeInSent(e[i - 1], m.changes[i])
    OBVIOUS
  <2>1. i \in 0..n /\ i - 1 \in 0..n
    OBVIOUS
  <2>2. ReceiveChange(c[i - 1], m.changes[i]).d = TakeInSent(c[i - 1].d, m.changes[i])
    BY DEF ReceiveChange
  <2> QED
    BY <1>3, <2>1, <2>2
<1>6. Taken!Fold(d, m.changes) = e[n]
  <2> HIDE DEF e
  <2> QED
    BY <1>4, <1>5, Taken!FoldLeftIs
<1>7. ReceiveSyncMessage(d, s, m).d = ReceiveChanges(acc, m.changes).d
  BY DEF ReceiveSyncMessage
<1> QED
  BY <1>1, <1>2, <1>3, <1>4, <1>6, <1>7

\* A log some changes of which are sent, and those changes of it that d lacks.
Partly(log, S) == [i \in DOMAIN log |-> [change |-> log[i], sent |-> i \in S]]
Lacking(d, log) == {i \in DOMAIN log : log[i].hash \notin Hashes(d)}

\* A message does what some of the log of its sender, as it is now, does: what the
\* receiver holds changes nothing, and the rest of the log is not sent.
LEMMA AsFromLog ==
    ASSUME NEW D, AllOK(D), CountsBound(D), NEW r \in Replicas, NEW s \in Replicas,
           NEW m, FromLog(m, D[s])
    PROVE  \E S \in SUBSET Lacking(D[r], D[s].changes) :
              TakeInAll(D[r], m.changes) = TakeInAll(D[r], Partly(D[s].changes, S))
<1> DEFINE log == D[s].changes
           n == Len(log)
<1>0. D[r] \in Replica /\ D[s] \in Replica
  BY DEF AllOK
<1>1. n \in Nat /\ DOMAIN log = 1..n /\ n \in 0..n /\ 0 \in 0..n
  BY <1>0, ReplicaTypes
<1>2. PICK k \in 0..n : DOMAIN m.changes = 1..k /\ \A i \in 1..k : m.changes[i].change = log[i]
  BY DEF FromLog
<1> HIDE DEF n
<1> DEFINE S == {i \in 1..k : m.changes[i].sent /\ log[i].hash \notin Hashes(D[r])}
           full == Partly(log, S)
<1>3. k \in Nat /\ k <= n /\ DOMAIN full = 1..n
  BY <1>1, <1>2 DEF Partly
<1>4. S \in SUBSET Lacking(D[r], log)
  BY <1>1, <1>3 DEF Lacking
<1>5. PICK c : /\ c[0] = D[r]
               /\ \A i \in 1..k : c[i] = TakeInSent(c[i - 1], m.changes[i])
               /\ Taken!Fold(D[r], m.changes) = c[k]
  <2> DEFINE q == m.changes
             b == D[r]
  <2>1. DOMAIN q = 1..k
    BY <1>2
  <2> HIDE DEF q, b
  <2>2. \E c : /\ c[0] = b
               /\ \A i \in 1..k : c[i] = TakeInSent(c[i - 1], q[i])
               /\ Taken!Fold(b, q) = c[k]
    BY <1>3, <2>1, Taken!FoldLeftChain
  <2> QED
    BY <2>2 DEF q, b
<1> DEFINE e == [i \in 0..n |-> IF i <= k THEN c[i] ELSE c[k]]
           A == [i \in 0..n |-> {d \in {e[i]} : Reached(D, r, d)}]
<1>6. D[r] \in A[0]
  <2>1. Log(D[r]) \subseteq Known(D)
    BY DEF Known
  <2>2. Reached(D, r, D[r])
    BY <1>0, <2>1 DEF Reached, AllOK
  <2> QED
    BY <1>1, <1>3, <1>5, <2>2
<1>7. ASSUME NEW i \in 1..n, NEW d \in A[i - 1] PROVE TakeInSent(d, full[i]) \in A[i]
  <2>1. i \in 0..n /\ i - 1 \in 0..n
    BY <1>1
  <2>2. Reached(D, r, d) /\ d = e[i - 1]
    BY <2>1
  <2>3. full[i].change = log[i] /\ full[i].sent = (i \in S)
    BY <1>1 DEF Partly
  <2>4. log[i] \in Known(D)
    BY <1>1 DEF Known, Log, ToSet
  <2>5. Reached(D, r, TakeInSent(d, full[i]))
    BY <2>2, <2>3, <2>4, TakeInKeeps DEF TakeInSent
  <2>6. Hashes(D[r]) \subseteq Hashes(d)
    BY <2>2 DEF Reached, Hashes, Log
  <2>7. TakeInSent(d, full[i]) = e[i]
    <3>1. CASE i <= k
      <4>1. i \in 1..k /\ i - 1 <= k /\ e[i] = c[i] /\ d = c[i - 1]
        BY <1>1, <1>3, <2>1, <2>2, <3>1
      <4>2. c[i] = TakeInSent(d, m.changes[i]) /\ m.changes[i].change = log[i]
        BY <1>2, <1>5, <4>1
      <4>3. CASE i \in S
        BY <2>3, <4>1, <4>2, <4>3 DEF TakeInSent
      <4>4. CASE i \notin S
        <5>1. TakeInSent(d, full[i]) = d
          BY <2>3, <4>4 DEF TakeInSent
        <5>2. ~m.changes[i].sent \/ log[i].hash \in Hashes(d)
          BY <2>6, <4>1, <4>4
        <5>3. TakeInSent(d, m.changes[i]) = d
          BY <4>2, <5>2 DEF TakeInSent, TakeIn
        <5> QED
          BY <4>1, <4>2, <5>1, <5>3
      <4> QED
        BY <4>3, <4>4
    <3>2. CASE ~(i <= k)
      <4>1. i \notin S /\ e[i] = c[k] /\ e[i - 1] = c[k]
        BY <1>1, <1>3, <2>1, <3>2
      <4> QED
        BY <2>2, <2>3, <4>1 DEF TakeInSent
    <3> QED
      BY <3>1, <3>2
  <2> QED
    BY <2>1, <2>5, <2>7
<1>8. Taken!Fold(D[r], full) \in A[n]
  <2> HIDE DEF A, full
  <2> QED
    BY <1>1, <1>3, <1>6, <1>7, Taken!FoldLeftInduction
<1>9. Taken!Fold(D[r], full) = Taken!Fold(D[r], m.changes)
  BY <1>1, <1>3, <1>5, <1>8
<1>10. \A q : TakeInAll(D[r], q) = Taken!Fold(D[r], q)
  BY DEF TakeInAll, Taken!Fold, FoldLeft, MapThenFoldSet, Max,
         Taken!MapThenFoldSet, Taken!Max
<1>11. TakeInAll(D[r], m.changes) = TakeInAll(D[r], full)
  BY <1>9, <1>10
<1> QED
  BY <1>4, <1>11

-----------------------------------------------------------------------------
(* Logs only grow, at their end.                                           *)

\* applyRemoteChangeLocked appends, or the change is left out.
LEMMA TakeInContinues ==
    ASSUME NEW D, AllOK(D), CountsBound(D), NEW r \in Replicas, NEW d, Reached(D, r, d),
           NEW c \in Known(D), Continues(D[r].changes, d.changes)
    PROVE  Continues(D[r].changes, TakeIn(d, c).changes)
<1> DEFINE e == TakeIn(d, c)
<1>1. CASE e = d
  BY <1>1
<1>2. CASE e = ApplyRemoteChange(d, c)
  <2>1. d.changes \in Seq(Change) /\ c \in Change
    BY ReplicaTypes, KnownTypes DEF Reached, AllOK
  <2>2. e.changes = Append(d.changes, c)
    <3>1. d \in Replica
      BY DEF Reached
    <3> QED
      BY <1>2, <3>1, ReplicaTypes DEF ApplyRemoteChange, Replica
  <2>3. /\ Len(e.changes) = Len(d.changes) + 1 /\ Len(d.changes) \in Nat
        /\ \A i \in 1..Len(d.changes) : e.changes[i] = d.changes[i]
    BY <2>1, <2>2
  <2> QED
    BY <2>3 DEF Continues
<1> QED
  BY <1>1, <1>2 DEF TakeIn

\* A message that takes in some of a log continues the receiver's.
LEMMA ReceiveContinues ==
    ASSUME NEW D, AllOK(D), CountsBound(D), NEW r \in Replicas, NEW s \in Replicas, NEW S,
           NEW messages, messages = [i \in DOMAIN D[s].changes |->
                                        [change |-> D[s].changes[i], sent |-> i \in S]]
    PROVE  Continues(D[r].changes, TakeInAll(D[r], messages).changes)
<1> DEFINE n == Len(D[s].changes)
           A == [i \in 0..n |-> {d \in Replica : Reached(D, r, d)
                                                  /\ Continues(D[r].changes, d.changes)}]
<1>0. D[r] \in Replica /\ D[s] \in Replica
  BY DEF AllOK
<1>1. n \in Nat /\ DOMAIN D[s].changes = 1..n /\ DOMAIN messages = 1..n /\ n \in 0..n /\ 0 \in 0..n
  BY <1>0, ReplicaTypes
<1>2. D[r] \in A[0]
  <2>1. Log(D[r]) \subseteq Known(D)
    BY DEF Known
  <2>2. Continues(D[r].changes, D[r].changes)
    BY <1>0, ReplicaTypes DEF Continues
  <2> QED
    BY <1>0, <1>1, <2>1, <2>2 DEF Reached, AllOK
<1>3. ASSUME NEW i \in 1..n, NEW d \in A[i - 1] PROVE TakeInSent(d, messages[i]) \in A[i]
  <2>1. i \in 0..n /\ i - 1 \in 0..n
    BY <1>1
  <2>2. Reached(D, r, d) /\ Continues(D[r].changes, d.changes)
    BY <2>1
  <2>3. D[s].changes[i] \in Known(D)
    BY <1>1 DEF Known, Log, ToSet
  <2>4. messages[i].change = D[s].changes[i]
    BY <1>1
  <2>5. Reached(D, r, TakeInSent(d, messages[i]))
    BY <2>2, <2>3, <2>4, TakeInKeeps DEF TakeInSent
  <2>6. Continues(D[r].changes, TakeInSent(d, messages[i]).changes)
    BY <2>2, <2>3, <2>4, TakeInContinues DEF TakeInSent
  <2>7. TakeInSent(d, messages[i]) \in Replica
    BY <2>5 DEF Reached
  <2> QED
    BY <2>1, <2>5, <2>6, <2>7
<1>4. TakeInAll(D[r], messages) = Taken!Fold(D[r], messages)
  BY DEF TakeInAll, Taken!Fold, FoldLeft, MapThenFoldSet, Max,
         Taken!MapThenFoldSet, Taken!Max
<1>5. Taken!Fold(D[r], messages) \in A[n]
  <2> HIDE DEF A
  <2> QED
    BY <1>1, <1>2, <1>3, Taken!FoldLeftInduction
<1> QED
  BY <1>1, <1>4, <1>5

\* No edit, commit or message takes a change out of a log or moves it.
LEMMA LogsGrow ==
    ASSUME IInv, [ReplicaNext]_replicaVars, NEW t \in Replicas
    PROVE  Continues(docs[t].changes, docs'[t].changes)
<1>0. AllOK(docs) /\ CountsBound(docs) /\ docs \in [Replicas -> Replica]
  BY Bounded DEF IInv, AllOK
<1>1. docs[t].changes \in Seq(Change) /\ Len(docs[t].changes) \in Nat
  BY <1>0, ReplicaTypes
<1>2. docs'[t].changes = docs[t].changes => Continues(docs[t].changes, docs'[t].changes)
  BY <1>1 DEF Continues
<1>3. ASSUME NEW r \in Replicas, Edit(r) PROVE docs'[t].changes = docs[t].changes
  BY <1>0, <1>3 DEF Edit, Replica
<1>4. ASSUME NEW r \in Replicas, Commit(r) PROVE Continues(docs[t].changes, docs'[t].changes)
  <2> DEFINE c == [hash |-> <<r, docs[r].seq + 1>>, deps |-> docs[r].deps, ops |-> docs[r].pending]
  <2>1. docs' = [docs EXCEPT ![r].changes = Append(@, c), ![r].deps = {<<r, docs[r].seq + 1>>},
                             ![r].seq = @ + 1, ![r].pending = << >>]
    BY <1>4 DEF Commit
  <2> HIDE DEF c
  <2>2. docs'[t].changes = docs[t].changes \/ docs'[t].changes = Append(docs[t].changes, c)
    BY <1>0, <2>1 DEF Replica
  <2>3. CASE docs'[t].changes = Append(docs[t].changes, c)
    <3>1. docs[t].changes \in Seq(Change \cup {c}) /\ c \in Change \cup {c}
      BY <1>1
    <3>2. /\ Len(docs'[t].changes) = Len(docs[t].changes) + 1
          /\ \A i \in 1..Len(docs[t].changes) : docs'[t].changes[i] = docs[t].changes[i]
      BY <2>3, <3>1
    <3> QED
      BY <1>1, <3>2 DEF Continues
  <2> QED
    BY <1>2, <2>2, <2>3
<1>5. ASSUME NEW r \in Replicas, NEW s \in Replicas, Receive(r, s)
      PROVE  Continues(docs[t].changes, docs'[t].changes)
  <2>1. PICK S : docs' = [docs EXCEPT ![r] = TakeInAll(docs[r],
                             [i \in DOMAIN docs[s].changes |->
                                 [change |-> docs[s].changes[i], sent |-> i \in S]])]
    BY <1>5 DEF Receive
  <2> DEFINE e == TakeInAll(docs[r], [i \in DOMAIN docs[s].changes |->
                                         [change |-> docs[s].changes[i], sent |-> i \in S]])
  <2>2. Continues(docs[r].changes, e.changes)
    BY <1>0, ReceiveContinues
  <2>3. docs' = [docs EXCEPT ![r] = e]
    BY <2>1
  <2> HIDE DEF e
  <2>4. docs'[t] = IF t = r THEN e ELSE docs[t]
    BY <1>0, <2>3
  <2> QED
    BY <1>2, <2>2, <2>4
<1>6. CASE UNCHANGED replicaVars
  BY <1>2, <1>6 DEF replicaVars
<1> QED
  BY <1>2, <1>3, <1>4, <1>5, <1>6 DEF ReplicaNext

-----------------------------------------------------------------------------
(* Frames.                                                                 *)

\* A message generated from a document carries some of its log.
LEMMA GeneratedFrom ==
    ASSUME NEW d, d.changes \in Seq(Change), NEW s, NEW H, NEW fp
    PROVE  FromLog(MessageOf(d, s, H, fp), d)
<1>1. MessageOf(d, s, H, fp).changes = Carried(d.changes, H)
  BY DEF MessageOf
<1>2. DOMAIN d.changes = 1..Len(d.changes) /\ Len(d.changes) \in Nat
  OBVIOUS
<1> QED
  BY <1>1, <1>2 DEF FromLog, Carried

\* It still does when the log has grown.
LEMMA FromLonger ==
    ASSUME NEW m, NEW d, NEW e, FromLog(m, d), Continues(d.changes, e.changes)
    PROVE  FromLog(m, e)
<1>1. PICK k \in 0..Len(d.changes) : /\ DOMAIN m.changes = 1..k
                                     /\ \A i \in 1..k : m.changes[i].change = d.changes[i]
  BY DEF FromLog
<1>2. k \in 0..Len(e.changes) /\ \A i \in 1..k : i \in 1..Len(d.changes)
  BY <1>1 DEF Continues
<1> QED
  BY <1>1, <1>2 DEF FromLog, Continues

\* A queue with one more message.
LEMMA QueueGrows ==
    ASSUME NEW q, NEW d, AllFrom(q, d), NEW m, FromLog(m, d)
    PROVE  AllFrom(Append(q, m), d)
<1>1. PICK S : q \in Seq(S)
  BY DEF AllFrom, IsSeq
<1>2. q \in Seq(S \cup {m}) /\ m \in S \cup {m}
  BY <1>1
<1>3. /\ Append(q, m) \in Seq(S \cup {m}) /\ Len(q) \in Nat /\ Len(Append(q, m)) = Len(q) + 1
      /\ \A i \in 1..Len(q) : Append(q, m)[i] = q[i]
      /\ Append(q, m)[Len(q) + 1] = m
  BY <1>2
<1>4. \A i \in 1..(Len(q) + 1) : i \in 1..Len(q) \/ i = Len(q) + 1
  BY <1>3
<1> QED
  BY <1>3, <1>4 DEF AllFrom, IsSeq

\* A queue without its first message.
LEMMA QueueShrinks ==
    ASSUME NEW q, NEW d, AllFrom(q, d), q # << >>
    PROVE  AllFrom(Tail(q), d) /\ FromLog(Head(q), d)
<1>1. PICK S : q \in Seq(S)
  BY DEF AllFrom, IsSeq
<1>2. /\ Tail(q) \in Seq(S) /\ Len(q) \in Nat /\ Len(q) >= 1 /\ Len(Tail(q)) = Len(q) - 1
      /\ \A i \in 1..(Len(q) - 1) : Tail(q)[i] = q[i + 1]
      /\ Head(q) = q[1]
  BY <1>1
<1>3. \A i \in 1..(Len(q) - 1) : i + 1 \in 1..Len(q)
  BY <1>2
<1> QED
  BY <1>2, <1>3 DEF AllFrom, IsSeq

\* A queue whose sender's log has grown.
LEMMA QueueStays ==
    ASSUME NEW q, NEW d, NEW e, AllFrom(q, d), Continues(d.changes, e.changes)
    PROVE  AllFrom(q, e)
BY FromLonger DEF AllFrom

-----------------------------------------------------------------------------
(* The specification.                                                      *)

\* Nothing is in flight at first.
LEMMA SyncInitOK == Init => SyncIInv
<1> SUFFICES ASSUME Init PROVE SyncIInv
  OBVIOUS
<1>1. IInv
  BY InitOK DEF Init
<1>2. \A d : AllFrom(<< >>, d)
  <2>1. << >> \in Seq({}) /\ Len(<< >>) = 0
    OBVIOUS
  <2> QED
    BY <2>1 DEF AllFrom, IsSeq
<1>3. FramesOK
  BY <1>2 DEF FramesOK, Init
<1> QED
  BY <1>1, <1>3 DEF SyncIInv

\* A client or the hub that takes a message in takes in changes of its peer's log.
LEMMA SyncIsReceive ==
    ASSUME SyncIInv, NEW r \in Replicas, NEW s \in Replicas, NEW p, NEW m,
           FromLog(m, docs[s]), edits' = edits,
           docs' = [docs EXCEPT ![r] = ReceiveSyncMessage(docs[r], p, m).d]
    PROVE  Receive(r, s)
<1>0. AllOK(docs) /\ CountsBound(docs)
  BY Bounded DEF SyncIInv, IInv
<1>1. PICK S \in SUBSET Lacking(docs[r], docs[s].changes) :
         TakeInAll(docs[r], m.changes) = TakeInAll(docs[r], Partly(docs[s].changes, S))
  BY <1>0, AsFromLog
<1>2. ReceiveSyncMessage(docs[r], p, m).d = TakeInAll(docs[r], m.changes)
  <2>1. docs[s] \in Replica
    BY <1>0 DEF AllOK
  <2>2. Len(docs[s].changes) \in Nat
    BY <2>1, ReplicaTypes
  <2>3. PICK k \in 0..Len(docs[s].changes) : DOMAIN m.changes = 1..k
    BY DEF FromLog
  <2>4. k \in Nat
    BY <2>2, <2>3
  <2> QED
    BY <2>3, <2>4, ReceivedIs
<1> QED
  BY <1>1, <1>2 DEF Receive, Held, Partly, Lacking

\* Every step of the protocol is a step of the replicas or leaves them alone.
LEMMA StepIsReplicas == SyncIInv /\ [Next]_vars => [ReplicaNext]_replicaVars
<1> SUFFICES ASSUME SyncIInv, [Next]_vars PROVE [ReplicaNext]_replicaVars
  OBVIOUS
<1>0. Hub \in Replicas /\ \A c \in Clients : c \in Replicas /\ c # Hub
  BY CrdtSyncAssumption DEF Clients
<1>1. CASE UNCHANGED vars
  BY <1>1 DEF vars, replicaVars
<1>2. ASSUME NEW r \in Replicas, LocalEdit(r) PROVE ReplicaNext
  BY <1>2 DEF LocalEdit, ReplicaNext
<1>3. ASSUME NEW g \in Replicas, HubStep(g) PROVE UNCHANGED replicaVars
  BY <1>3 DEF HubStep, Enqueue, BroadcastAgain, replicaVars
<1>4. CASE HubCommit
  BY <1>0, <1>4 DEF HubCommit, ReplicaNext
<1>5. ASSUME NEW c \in Clients, ClientCommit(c) PROVE ReplicaNext
  BY <1>0, <1>5 DEF ClientCommit, ReplicaNext
<1>6. ASSUME NEW c \in Clients,
             ClientAnnounce(c) \/ Join(c) \/ Leave(c) \/ \E G \in Groups : Generate(G, c)
      PROVE  UNCHANGED replicaVars
  BY <1>6 DEF ClientAnnounce, Join, Leave, Generate, replicaVars
<1>7. ASSUME NEW c \in Clients, ClientSync(c) PROVE ReplicaNext
  <2>1. FromLog(Head(queue[c]), docs[Hub])
    BY <1>7, QueueShrinks DEF ClientSync, SyncIInv, FramesOK
  <2>2. /\ docs' = [docs EXCEPT ![c] = ReceiveSyncMessage(docs[c], peer[<<c, Hub>>], Head(queue[c])).d]
        /\ edits' = edits
    BY <1>7 DEF ClientSync
  <2>3. Receive(c, Hub)
    BY <1>0, <2>1, <2>2, SyncIsReceive
  <2> QED
    BY <1>0, <2>3 DEF ReplicaNext
<1>8. ASSUME NEW c \in Clients, HubReceive(c) PROVE [ReplicaNext]_replicaVars
  <2>1. FromLog(Head(wire[c]), docs[c])
    BY <1>8, QueueShrinks DEF HubReceive, SyncIInv, FramesOK
  <2>2. CASE c \notin MayWrite
    BY <1>8, <2>2 DEF HubReceive, replicaVars
  <2>3. CASE c \in MayWrite
    <3>1. /\ docs' = [docs EXCEPT ![Hub] =
                         ReceiveSyncMessage(docs[Hub], peer[<<Hub, c>>], Head(wire[c])).d]
          /\ edits' = edits
      BY <1>8, <2>3 DEF HubReceive
    <3>2. Receive(Hub, c)
      BY <1>0, <2>1, <3>1, SyncIsReceive
    <3> QED
      BY <1>0, <3>2 DEF ReplicaNext
  <2> QED
    BY <2>2, <2>3
<1> QED
  BY <1>1, <1>2, <1>3, <1>4, <1>5, <1>6, <1>7, <1>8 DEF Next

\* A frame for client c that a generation may make now.
Generated(f, c) ==
    \E H, fp : /\ fp \in FalseAt(Hub)
               /\ f = [to |-> c, msg |-> MessageOf(docs[Hub], peer[<<Hub, c>>], H, fp)]

\* What generations for client c that overlap leave in the frames of their goroutines:
\* a frame for c, at least one of them, or nothing.
LEMMA FramesMade ==
    ASSUME frame = [h \in Replicas |-> frame[h]], NEW c \in Clients, NEW G \in Groups,
           Generate(G, c)
    PROVE  /\ frame' = [h \in Replicas |-> frame'[h]]
           /\ \A h \in Replicas \ G : frame'[h] = frame[h]
           /\ \A h \in G : Generated(frame'[h], c) \/ frame'[h] = NoFrame \/ frame'[h] = frame[h]
           /\ ShouldSend(docs[Hub], peer[<<Hub, c>>]) => \E h \in G : Generated(frame'[h], c)
<1> DEFINE d == docs[Hub]
           s == peer[<<Hub, c>>]
<1>1. CASE ~ShouldSend(d, s)
  <2>1. frame' = frame
    BY <1>1 DEF Generate
  <2> QED
    BY <1>1, <2>1
<1>2. CASE ShouldSend(d, s)
  <2>0. PICK first \in G, fp \in FalseAt(Hub) :
           \E seen \in [G \ {first} -> SeenMarked(d, s)] :
              frame' = [h \in Replicas |->
                          IF h = first THEN [to |-> c, msg |-> Message(d, s, fp)]
                          ELSE IF h \in G THEN OverlappedFrame(d, s, c, fp, seen[h])
                          ELSE frame[h]]
    BY <1>2 DEF Generate
  <2>1. PICK seen \in [G \ {first} -> SeenMarked(d, s)] :
           frame' = [h \in Replicas |->
                       IF h = first THEN [to |-> c, msg |-> Message(d, s, fp)]
                       ELSE IF h \in G THEN OverlappedFrame(d, s, c, fp, seen[h])
                       ELSE frame[h]]
    BY <2>0
  <2>2. G \subseteq Replicas
    BY DEF Groups
  <2>3. Generated(frame'[first], c)
    <3>1. frame'[first] = [to |-> c, msg |-> MessageOf(d, s, ToSend(d, s), fp)]
      BY <2>1, <2>2 DEF Message
    <3> QED
      BY <3>1 DEF Generated
  <2>4. ASSUME NEW h \in G, h # first
        PROVE  Generated(frame'[h], c) \/ frame'[h] = NoFrame
    <3>1. frame'[h] = OverlappedFrame(d, s, c, fp, seen[h])
      BY <2>1, <2>2, <2>4
    <3> QED
      BY <3>1 DEF OverlappedFrame, Generated
  <2>5. \A h \in Replicas \ G : frame'[h] = frame[h]
    BY <2>1
  <2>6. frame' = [h \in Replicas |-> frame'[h]]
    BY <2>1
  <2> QED
    BY <2>3, <2>4, <2>5, <2>6
<1> QED
  BY <1>1, <1>2

\* What is in flight stays part of its sender's log.
LEMMA FramesKept == SyncIInv /\ IInv' /\ [Next]_vars => FramesOK'
<1> SUFFICES ASSUME SyncIInv, IInv', [Next]_vars PROVE FramesOK'
  OBVIOUS
<1>0. Hub \in Replicas /\ \A c \in Clients : c \in Replicas /\ c # Hub
  BY CrdtSyncAssumption DEF Clients
<1>1. [ReplicaNext]_replicaVars
  BY StepIsReplicas
<1>2. \A t \in Replicas : Continues(docs[t].changes, docs'[t].changes)
  BY <1>1, LogsGrow DEF SyncIInv
<1>3. /\ queue = [c \in Clients |-> queue[c]] /\ wire = [c \in Clients |-> wire[c]]
      /\ frame = [g \in Replicas |-> frame[g]]
  BY DEF SyncIInv, FramesOK
<1>4. \A c \in Clients : AllFrom(queue[c], docs'[Hub]) /\ AllFrom(wire[c], docs'[c])
  BY <1>0, <1>2, QueueStays DEF SyncIInv, FramesOK
<1>5. \A g \in Replicas : frame[g] # NoFrame => FromLog(frame[g].msg, docs'[Hub])
  BY <1>0, <1>2, FromLonger DEF SyncIInv, FramesOK
<1>6. \A t \in Replicas : docs'[t].changes \in Seq(Change) /\ docs[t].changes \in Seq(Change)
  BY ReplicaTypes DEF SyncIInv, IInv, AllOK
<1>7. CASE UNCHANGED <<queue, wire, frame>>
  BY <1>3, <1>4, <1>5, <1>7 DEF FramesOK
<1>8. ASSUME NEW g \in Replicas, Enqueue(g) PROVE FramesOK'
  <2>1. /\ wire' = wire /\ frame[g] # NoFrame /\ frame' = [frame EXCEPT ![g] = NoFrame]
        /\ queue' = [queue EXCEPT ![frame[g].to] =
                        IF Len(@) < QueueCap THEN Append(@, frame[g].msg) ELSE @]
    BY <1>8 DEF Enqueue
  <2>2. frame' = [h \in Replicas |-> frame'[h]]
        /\ \A h \in Replicas : frame'[h] = IF h = g THEN NoFrame ELSE frame[h]
    BY <1>3, <2>1
  <2>3. queue' = [c \in Clients |-> queue'[c]]
        /\ \A c \in Clients : queue'[c] = queue[c] \/ queue'[c] = Append(queue[c], frame[g].msg)
    BY <1>3, <2>1
  <2>4. \A c \in Clients : AllFrom(Append(queue[c], frame[g].msg), docs'[Hub])
    BY <1>4, <1>5, <2>1, QueueGrows
  <2>5. \A c \in Clients : AllFrom(queue'[c], docs'[Hub])
    BY <1>4, <2>3, <2>4
  <2> QED
    BY <1>3, <1>4, <1>5, <2>1, <2>2, <2>3, <2>5 DEF FramesOK
<1>9. ASSUME NEW c \in Clients, NEW G \in Groups, Generate(G, c) PROVE FramesOK'
  <2>1. queue' = queue /\ wire' = wire /\ docs' = docs
    BY <1>9 DEF Generate, traffic, replicaVars
  <2>2. \A h \in Replicas :
           \/ frame'[h] = frame[h] \/ frame'[h] = NoFrame
           \/ \E H, fp : frame'[h].msg = MessageOf(docs[Hub], peer[<<Hub, c>>], H, fp)
    <3>1. \A f : Generated(f, c) => \E H, fp : f.msg = MessageOf(docs[Hub], peer[<<Hub, c>>], H, fp)
      BY DEF Generated
    <3> QED
      BY <1>3, <1>9, <3>1, FramesMade
  <2>3. \A H, fp : FromLog(MessageOf(docs[Hub], peer[<<Hub, c>>], H, fp), docs[Hub])
    BY <1>0, <1>6, GeneratedFrom
  <2>4. frame' = [h \in Replicas |-> frame'[h]]
    BY <1>3, <1>9, FramesMade
  <2>5. \A h \in Replicas : frame'[h] # NoFrame => FromLog(frame'[h].msg, docs'[Hub])
    BY <1>5, <2>1, <2>2, <2>3
  <2> QED
    BY <1>3, <1>4, <2>1, <2>4, <2>5 DEF FramesOK
<1>10. ASSUME NEW c \in Clients, ClientAnnounce(c) PROVE FramesOK'
  <2>1. PICK fp : /\ wire' = [wire EXCEPT ![c] = Append(@, Message(docs[c], peer[<<c, Hub>>], fp))]
                  /\ queue' = queue /\ frame' = frame /\ docs' = docs
    BY <1>10 DEF ClientAnnounce, rounds, replicaVars
  <2>2. AllFrom(Append(wire[c], Message(docs[c], peer[<<c, Hub>>], fp)), docs'[c])
    BY <1>0, <1>4, <1>6, <2>1, GeneratedFrom, QueueGrows DEF Message
  <2>3. wire' = [h \in Clients |-> wire'[h]] /\ \A h \in Clients : AllFrom(wire'[h], docs'[h])
    BY <1>3, <1>4, <2>1, <2>2
  <2> QED
    BY <1>3, <1>4, <1>5, <2>1, <2>3 DEF FramesOK
<1>11. ASSUME NEW c \in Clients, ClientSync(c) PROVE FramesOK'
  <2> DEFINE got == ReceiveSyncMessage(docs[c], peer[<<c, Hub>>], Head(queue[c]))
  <2>1. /\ queue[c] # << >> /\ queue' = [queue EXCEPT ![c] = Tail(@)]
        /\ docs' = [docs EXCEPT ![c] = got.d] /\ frame' = frame
        /\ wire' = wire \/ \E fp : wire' = [wire EXCEPT ![c] = Append(@, Message(got.d, got.s, fp))]
    BY <1>11 DEF ClientSync, rounds
  <2> HIDE DEF got
  <2>2. queue' = [h \in Clients |-> queue'[h]] /\ \A h \in Clients : AllFrom(queue'[h], docs'[Hub])
    <3>1. AllFrom(Tail(queue[c]), docs'[Hub])
      BY <1>4, <2>1, QueueShrinks
    <3> QED
      BY <1>3, <1>4, <2>1, <3>1
  <2>3. docs'[c] = got.d
    BY <1>0, <2>1 DEF SyncIInv, IInv, AllOK
  <2>4. \A fp : FromLog(Message(got.d, got.s, fp), docs'[c])
    BY <1>0, <1>6, <2>3, GeneratedFrom DEF Message
  <2>5. \A fp : AllFrom(Append(wire[c], Message(got.d, got.s, fp)), docs'[c])
    BY <1>4, <2>4, QueueGrows
  <2>6. wire' = [h \in Clients |-> wire'[h]] /\ \A h \in Clients : AllFrom(wire'[h], docs'[h])
    <3>1. CASE wire' = wire
      BY <1>3, <1>4, <3>1
    <3>2. ASSUME NEW fp, wire' = [wire EXCEPT ![c] = Append(@, Message(got.d, got.s, fp))]
          PROVE  wire' = [h \in Clients |-> wire'[h]] /\ \A h \in Clients : AllFrom(wire'[h], docs'[h])
      BY <1>3, <1>4, <2>5, <3>2
    <3> QED
      BY <2>1, <3>1, <3>2
  <2> QED
    BY <1>3, <1>5, <2>1, <2>2, <2>6 DEF FramesOK
<1>12. ASSUME NEW c \in Clients, HubReceive(c) PROVE FramesOK'
  <2>1. /\ wire[c] # << >> /\ wire' = [wire EXCEPT ![c] = Tail(@)]
        /\ queue' = queue /\ frame' = frame
    BY <1>12 DEF HubReceive
  <2>2. AllFrom(Tail(wire[c]), docs'[c])
    BY <1>4, <2>1, QueueShrinks
  <2>3. wire' = [h \in Clients |-> wire'[h]] /\ \A h \in Clients : AllFrom(wire'[h], docs'[h])
    BY <1>3, <1>4, <2>1, <2>2
  <2> QED
    BY <1>3, <1>4, <1>5, <2>1, <2>3 DEF FramesOK
<1>13. ASSUME NEW c \in Clients, Leave(c) PROVE FramesOK'
  <2>1. /\ queue' = [queue EXCEPT ![c] = << >>] /\ wire' = [wire EXCEPT ![c] = << >>]
        /\ frame' = [g \in Replicas |-> IF frame[g].to = c THEN NoFrame ELSE frame[g]]
    BY <1>13 DEF Leave
  <2>2. \A d : AllFrom(<< >>, d)
    <3>1. << >> \in Seq({}) /\ Len(<< >>) = 0
      OBVIOUS
    <3> QED
      BY <3>1 DEF AllFrom, IsSeq
  <2>3. /\ queue' = [h \in Clients |-> queue'[h]] /\ wire' = [h \in Clients |-> wire'[h]]
        /\ \A h \in Clients : AllFrom(queue'[h], docs'[Hub]) /\ AllFrom(wire'[h], docs'[h])
    BY <1>3, <1>4, <2>1, <2>2
  <2>4. frame' = [g \in Replicas |-> frame'[g]]
        /\ \A g \in Replicas : frame'[g] # NoFrame => FromLog(frame'[g].msg, docs'[Hub])
    BY <1>5, <2>1
  <2> QED
    BY <2>3, <2>4 DEF FramesOK
<1>14. ASSUME NEW c \in Clients, ClientCommit(c) \/ Join(c) PROVE UNCHANGED <<queue, wire, frame>>
  BY <1>14 DEF ClientCommit, Join, traffic, rounds
<1>15. ASSUME NEW r \in Replicas, LocalEdit(r) \/ BroadcastAgain(r)
       PROVE  UNCHANGED <<queue, wire, frame>>
  BY <1>15 DEF LocalEdit, BroadcastAgain, traffic, rounds
<1>16. CASE HubCommit
  BY <1>7, <1>16 DEF HubCommit, traffic
<1>17. CASE UNCHANGED vars
  BY <1>7, <1>17 DEF vars, traffic, rounds
<1> QED
  BY <1>7, <1>8, <1>9, <1>10, <1>11, <1>12, <1>13, <1>14, <1>15, <1>16, <1>17
  DEF Next, HubStep

\* The invariant holds throughout.
LEMMA SyncInvariant == Spec => []SyncIInv
<1>1. SyncIInv /\ [Next]_vars => SyncIInv'
  <2> SUFFICES ASSUME SyncIInv, [Next]_vars PROVE SyncIInv'
    OBVIOUS
  <2>1. IInv'
    BY StepIsReplicas, StepOK DEF SyncIInv
  <2>2. FramesOK'
    BY <2>1, FramesKept
  <2> QED
    BY <2>1, <2>2 DEF SyncIInv
<1> QED
  BY <1>1, SyncInitOK, PTL DEF Spec

\* The sync protocol keeps what CrdtReplicas asks of a transport: whatever frames its
\* queues drop, in whatever order its goroutines queue them, and whatever its Bloom
\* filters report by mistake, a replica takes in changes of its peer's log, in its
\* order, and never one before those it depends on.
THEOREM SyncImplementsReplicas == Spec => RefinesReplicas
<1>1. Init => ReplicaInit
  BY DEF Init
<1> QED
  BY <1>1, SyncInvariant, StepIsReplicas, PTL DEF Spec, RefinesReplicas, ReplicaSpec

\* Replicas synchronised over a hub converge: a client and the hub that hold the same
\* changes, and nothing uncommitted, show the same document.
THEOREM SyncConverges ==
    ASSUME OneKindPerKey
    PROVE  Spec => []Converged
BY SyncImplementsReplicas, Convergence, PTL DEF RefinesReplicas

-----------------------------------------------------------------------------
(* Silence.                                                                *)

\* The messages of a queue.
InQueue(q) == {q[i] : i \in 1..Len(q)}

\* The messages on their way to client c, and those from it.
FramesTo(c) == {frame[g].msg : g \in {h \in Replicas : frame[h].to = c}}
ToClient(c) == InQueue(queue[c]) \cup FramesTo(c)
ToHub(c) == InQueue(wire[c])

HeadsIn(messages) == UNION {m.heads : m \in messages}
Asked(messages) == UNION {m.need : m \in messages}

\* A broadcast has yet to serve client c.
Serving(c) == \E g \in Replicas : c \in todo[g]

\* The two ends of a connection: the states P of the client and H of the hub, the
\* messages to the client and to the hub, whether a broadcast has yet to serve the
\* client, and what the client and the hub hold.  Each asks for what the other holds;
\* heads one has told of are held, asked for or on their way to the other; and what
\* one asks for is being asked for or answered.
LinkOK(P, H, down, up, serving, atClient, atHub) ==
    /\ P.need \subseteq atHub /\ H.need \subseteq atClient
    /\ Asked(down) \subseteq atClient /\ Asked(up) \subseteq atHub
    /\ H.lastHeads \subseteq atClient \cup P.need \cup HeadsIn(down)
    /\ P.lastHeads \subseteq atHub \cup H.need \cup HeadsIn(up)
    /\ down = {} => \A h \in P.need \ atClient :
                       h \in Asked(up) \/ (serving /\ h \in H.peerNeed)
    /\ up = {} /\ ~serving => H.need \ atHub \subseteq Asked(down)

Link(c) == LinkOK(peer[<<c, Hub>>], peer[<<Hub, c>>], ToClient(c), ToHub(c), Serving(c),
                  Held(c), Held(Hub))

\* Client c has been told of the hub's heads, or is about to be.
Told(c) ==
    \/ Serving(c)
    \/ \E g \in Replicas : again[g]
    \/ peer[<<Hub, c>>].init /\ peer[<<Hub, c>>].lastHeads = docs[Hub].deps

\* Nothing is under way to or from client c.
Still(c) == ToClient(c) = {} /\ ToHub(c) = {} /\ ~Serving(c)

ClientOK(c) == IF c \in joined THEN Told(c) /\ Link(c) ELSE Still(c)

LinksOK == \A c \in Clients : ClientOK(c)

\* The words of a message are hashes, its heads held by its sender.
Worded(m) == m.heads \in SUBSET Hash /\ m.need \in SUBSET Hash /\ m.bloom \in SUBSET Hash

MessagesOK(c) ==
    /\ \A m \in ToClient(c) : Worded(m) /\ m.heads \subseteq Held(Hub)
    /\ \A m \in ToHub(c) : Worded(m) /\ m.heads \subseteq Held(c)

SessionsOK ==
    /\ peer \in [Links -> States]
    /\ \A c \in Clients : Len(queue[c]) <= QueueCap
    /\ joined \subseteq Clients
    /\ todo \in [Replicas -> SUBSET Clients] /\ again \in [Replicas -> BOOLEAN]
    /\ joins \in [Clients -> 0..MaxJoins]
    /\ \A g \in Replicas : frame[g] = NoFrame \/ frame[g].to \in Clients
    /\ \A c \in Clients : MessagesOK(c)

\* tryBinarySend has a slot for every frame it is given: no frame is dropped.
RoomInQueues ==
    \A g \in Replicas : frame[g] # NoFrame => Len(queue[frame[g].to]) < QueueCap

-----------------------------------------------------------------------------
(* The ends of a connection.                                               *)

\* Replicas that learn more, and a broadcast that begins, do no harm.
LEMMA LinkStays ==
    ASSUME NEW P, NEW H, NEW down, NEW up, NEW s, NEW s2, NEW C, NEW C2, NEW D, NEW D2,
           LinkOK(P, H, down, up, s, C, D), C \subseteq C2, D \subseteq D2, s => s2
    PROVE  LinkOK(P, H, down, up, s2, C2, D2)
BY DEF LinkOK

\* The hub sends messages: they tell of its heads and ask for what it needs.
LEMMA HubSends ==
    ASSUME NEW P, NEW H, NEW H2, NEW down, NEW up, NEW s, NEW s2, NEW C, NEW D, NEW M,
           LinkOK(P, H, down, up, s, C, D), M # {}, H2.need = H.need,
           \A m \in M : H2.lastHeads = m.heads /\ m.need = H.need /\ m.heads \subseteq D
    PROVE  LinkOK(P, H2, down \cup M, up, s2, C, D)
<1>1. PICK m \in M : TRUE
  OBVIOUS
<1>2. /\ HeadsIn(down \cup M) = HeadsIn(down) \cup m.heads
      /\ Asked(down \cup M) = Asked(down) \cup m.need
  BY <1>1 DEF HeadsIn, Asked
<1>3. down \cup M # {}
  OBVIOUS
<1> QED
  BY <1>1, <1>2, <1>3 DEF LinkOK

\* The hub has nothing to send.
LEMMA HubSkips ==
    ASSUME NEW P, NEW H, NEW down, NEW up, NEW s, NEW s2, NEW C, NEW D,
           LinkOK(P, H, down, up, s, C, D), H.need = {}, H.peerNeed \cap D = {}
    PROVE  LinkOK(P, H, down, up, s2, C, D)
BY DEF LinkOK

\* The client sends a message of its own accord.
LEMMA ClientSends ==
    ASSUME NEW P, NEW P2, NEW H, NEW down, NEW up, NEW s, NEW C, NEW D, NEW m,
           LinkOK(P, H, down, up, s, C, D),
           P2.need = P.need, P2.lastHeads = m.heads, m.need = P.need, m.heads \subseteq C
    PROVE  LinkOK(P2, H, down, up \cup {m}, s, C, D)
<1>1. /\ HeadsIn(up \cup {m}) = HeadsIn(up) \cup m.heads
      /\ Asked(up \cup {m}) = Asked(up) \cup m.need
  BY DEF HeadsIn, Asked
<1>2. up \cup {m} # {}
  OBVIOUS
<1> QED
  BY <1>1, <1>2 DEF LinkOK

\* What a message does to the state s of its receiver, which holds A afterwards, when
\* its sender holds B.
Notes(s, t, m, A, B) ==
    /\ t.init = s.init /\ t.lastHeads = s.lastHeads
    /\ s.need \ A \subseteq t.need /\ t.need \subseteq s.need \cup B
    /\ m.heads \ A \subseteq t.need
    /\ s.peerNeed \ B \subseteq t.peerNeed
    /\ m.need \cap A \subseteq t.peerNeed

\* The client takes a message in and has nothing to reply.
LEMMA ClientKeepsQuiet ==
    ASSUME NEW P, NEW P2, NEW H, NEW down, NEW down2, NEW up, NEW s, NEW C, NEW C2, NEW D,
           NEW m, LinkOK(P, H, down, up, s, C, D), down = down2 \cup {m}, C \subseteq C2,
           Notes(P, P2, m, C2, D), P2.need = {}, P2.peerNeed \cap C2 = {}
    PROVE  LinkOK(P2, H, down2, up, s, C2, D)
<1>1. /\ HeadsIn(down) = HeadsIn(down2) \cup m.heads
      /\ Asked(down) = Asked(down2) \cup m.need
  BY DEF HeadsIn, Asked
<1>2. Asked(down) \subseteq C /\ m.need \cap C2 = {}
  BY DEF LinkOK, Notes
<1> QED
  BY <1>1, <1>2 DEF LinkOK, Notes

\* The client takes a message in and replies.
LEMMA ClientReplies ==
    ASSUME NEW P, NEW P1, NEW P2, NEW H, NEW down, NEW down2, NEW up, NEW s, NEW C, NEW C2,
           NEW D, NEW m, NEW n, LinkOK(P, H, down, up, s, C, D), down = down2 \cup {m},
           C \subseteq C2, Notes(P, P1, m, C2, D), P2.need = P1.need,
           P2.lastHeads = n.heads, n.need = P1.need, n.heads \subseteq C2
    PROVE  LinkOK(P2, H, down2, up \cup {n}, s, C2, D)
<1>1. /\ HeadsIn(down) = HeadsIn(down2) \cup m.heads
      /\ Asked(down) = Asked(down2) \cup m.need
      /\ HeadsIn(up \cup {n}) = HeadsIn(up) \cup n.heads
      /\ Asked(up \cup {n}) = Asked(up) \cup n.need
  BY DEF HeadsIn, Asked
<1>2. /\ P2.need \subseteq D
      /\ H.lastHeads \subseteq C2 \cup P2.need \cup HeadsIn(down2)
  BY <1>1 DEF LinkOK, Notes
<1>3. /\ H.need \subseteq C2 /\ Asked(down2) \subseteq C2
      /\ Asked(up \cup {n}) \subseteq D
      /\ P2.lastHeads \subseteq D \cup H.need \cup HeadsIn(up \cup {n})
  BY <1>1, <1>2 DEF LinkOK
<1> DEFINE sent == up \cup {n}
<1>4. sent # {} /\ P2.need \subseteq Asked(sent)
  BY <1>1
<1> HIDE DEF sent
<1>5. \A h \in P2.need \ C2 : h \in Asked(sent) \/ (s /\ h \in H.peerNeed)
  BY <1>4
<1>6. LinkOK(P2, H, down2, sent, s, C2, D)
  BY <1>2, <1>3, <1>4, <1>5 DEF LinkOK, sent
<1> QED
  BY <1>6 DEF sent

\* The hub takes a message in and begins a broadcast.
LEMMA HubTakes ==
    ASSUME NEW P, NEW H, NEW H2, NEW down, NEW up, NEW up2, NEW s, NEW C, NEW D, NEW D2,
           NEW m, LinkOK(P, H, down, up, s, C, D), up = up2 \cup {m}, D \subseteq D2,
           Notes(H, H2, m, D2, C)
    PROVE  LinkOK(P, H2, down, up2, TRUE, C, D2)
<1>1. /\ HeadsIn(up) = HeadsIn(up2) \cup m.heads
      /\ Asked(up) = Asked(up2) \cup m.need
  BY DEF HeadsIn, Asked
<1> QED
  BY <1>1 DEF LinkOK, Notes

\* A new connection.
LEMMA LinkBegins ==
    ASSUME NEW s, NEW C, NEW D
    PROVE  LinkOK(NewState, NewState, {}, {}, s, C, D)
BY DEF LinkOK, NewState, HeadsIn, Asked
-----------------------------------------------------------------------------
(* What a message does to the sync state of its receiver.                  *)

\* A peer that is sent changes is asked for nothing less.
LEMMA MarkSentIs ==
    ASSUME NEW s \in States, NEW H \in SUBSET Hash
    PROVE  MarkSent(s, H) \in States /\ MarkSent(s, H).need = s.need
BY DEF States, MarkSent

\* Changes the peer is known to have are no longer asked for.
LEMMA MarkKnownIs ==
    ASSUME NEW s \in States, NEW H
    PROVE  /\ MarkKnown(s, H).need = s.need \ H
           /\ MarkKnown(s, H).peerNeed = s.peerNeed \ H
           /\ MarkKnown(s, H).init = s.init /\ MarkKnown(s, H).lastHeads = s.lastHeads
           /\ H \in SUBSET Hash => MarkKnown(s, H) \in States
BY DEF States, MarkKnown

\* What is missing is asked for.
LEMMA MarkNeedIs ==
    ASSUME NEW s \in States, NEW H
    PROVE  /\ MarkNeed(s, H).need = s.need \cup H
           /\ MarkNeed(s, H).peerNeed = s.peerNeed
           /\ MarkNeed(s, H).init = s.init /\ MarkNeed(s, H).lastHeads = s.lastHeads
           /\ H \in SUBSET Hash => MarkNeed(s, H) \in States
BY DEF States, MarkNeed

\* What the peer asks for is remembered.
LEMMA MarkPeerNeedIs ==
    ASSUME NEW s \in States, NEW H
    PROVE  /\ MarkPeerNeed(s, H).need = s.need
           /\ MarkPeerNeed(s, H).peerNeed = s.peerNeed \cup H
           /\ MarkPeerNeed(s, H).init = s.init /\ MarkPeerNeed(s, H).lastHeads = s.lastHeads
           /\ H \in SUBSET Hash => MarkPeerNeed(s, H) \in States
BY DEF States, MarkPeerNeed

\* What generating a message does.
LEMMA GenerateNotes ==
    ASSUME NEW s \in States, NEW d, Hashes(d) \in SUBSET Hash, d.deps \in SUBSET Hash,
           NEW fp \in SUBSET Hash
    PROVE  /\ AfterGenerate(d, s) \in States
           /\ AfterGenerate(d, s).need = s.need /\ AfterGenerate(d, s).lastHeads = d.deps
           /\ AfterGenerate(d, s).init
           /\ \A H : /\ MessageOf(d, s, H, fp).heads = d.deps
                    /\ MessageOf(d, s, H, fp).need = s.need /\ Worded(MessageOf(d, s, H, fp))
<1> DEFINE t == MarkSent(s, ToSend(d, s))
<1>1. ToSend(d, s) \in SUBSET Hash
  BY DEF ToSend
<1>2. t \in States /\ t.need = s.need
  BY <1>1, MarkSentIs
<1> HIDE DEF t
<1>3. [t EXCEPT !.init = TRUE, !.lastHeads = d.deps] \in States
  BY <1>2 DEF States
<1>4. AfterGenerate(d, s) = [t EXCEPT !.init = TRUE, !.lastHeads = d.deps]
  BY DEF AfterGenerate, t
<1>5. /\ AfterGenerate(d, s).need = t.need /\ AfterGenerate(d, s).lastHeads = d.deps
      /\ AfterGenerate(d, s).init
  BY <1>2, <1>4 DEF States
<1>6. s.need \in SUBSET Hash
  BY DEF States
<1> QED
  BY <1>2, <1>3, <1>4, <1>5, <1>6 DEF MessageOf, Worded

\* What the changes of a message, of a sender that holds B, have done to document and
\* state so far.
Noting(D, r, s, B, acc) ==
    /\ Reached(D, r, acc.d) /\ acc.s \in States
    /\ acc.s.init = s.init /\ acc.s.lastHeads = s.lastHeads
    /\ s.need \ Hashes(acc.d) \subseteq acc.s.need
    /\ acc.s.need \subseteq s.need \cup B
    /\ s.peerNeed \ B \subseteq acc.s.peerNeed

\* One change more.
LEMMA NotingOne ==
    ASSUME NEW D, AllOK(D), CountsBound(D), NEW r \in Replicas, NEW q \in Replicas,
           NEW s, NEW acc, Noting(D, r, s, Hashes(D[q]), acc),
           NEW m, m.change \in Log(D[q])
    PROVE  Noting(D, r, s, Hashes(D[q]), ReceiveChange(acc, m))
<1> DEFINE B == Hashes(D[q])
           c == m.change
           d == TakeInSent(acc.d, m)
           next == ReceiveChange(acc, m)
<1>1. D[q] \in Replica /\ LogOK(D[q]) /\ Log(D[q]) \subseteq Known(D)
  BY DEF AllOK, LocalOK, Known
<1>2. B \in SUBSET Hash /\ c.hash \in B /\ c.deps \subseteq B /\ c \in Known(D)
  BY <1>1, HashesAre, LogClosed
<1>3. Reached(D, r, d)
  BY <1>2, TakeInKeeps DEF TakeInSent, Noting
<1>4. Hashes(acc.d) \subseteq Hashes(d)
  <2>1. CASE d = acc.d
    BY <2>1
  <2>2. CASE d = ApplyRemoteChange(acc.d, c)
    <3>1. acc.d \in Replica /\ c \in Change
      BY <1>2, KnownTypes DEF Noting, Reached, AllOK
    <3>2. d.changes = Append(acc.d.changes, c)
      BY <2>2, <3>1, ReplicaTypes DEF ApplyRemoteChange, Replica
    <3>3. Appended(acc.d.changes, c, d.changes)
      BY <3>1, <3>2, ReplicaTypes, Appending
    <3> QED
      BY <3>3 DEF Appended, Hashes
  <2> QED
    BY <2>1, <2>2 DEF TakeInSent, TakeIn
<1>5. next.d = d /\ next.s = IF m.sent THEN NoteChange(acc.s, acc.d, d, c) ELSE acc.s
  BY DEF ReceiveChange
<1>6. MissingDeps(acc.d, c) \cup {c.hash} \in SUBSET Hash
      /\ MissingDeps(acc.d, c) \cup {c.hash} \subseteq B /\ {c.hash} \in SUBSET Hash
  BY <1>2 DEF MissingDeps
<1> HIDE DEF d, next, B, c
<1>7. CASE next.s = acc.s
  BY <1>3, <1>4, <1>5, <1>7 DEF Noting, B, next
<1>8. CASE c.hash \in Hashes(d) /\ next.s = MarkKnown(acc.s, {c.hash})
  <2>1. /\ next.s \in States /\ next.s.init = acc.s.init /\ next.s.lastHeads = acc.s.lastHeads
        /\ next.s.need = acc.s.need \ {c.hash} /\ next.s.peerNeed = acc.s.peerNeed \ {c.hash}
    BY <1>6, <1>8, MarkKnownIs DEF Noting
  <2> QED
    BY <1>2, <1>3, <1>4, <1>5, <1>8, <2>1 DEF Noting, B, next
<1>9. CASE next.s = MarkNeed(acc.s, MissingDeps(acc.d, c) \cup {c.hash})
  <2>1. /\ next.s \in States /\ next.s.init = acc.s.init /\ next.s.lastHeads = acc.s.lastHeads
        /\ next.s.need = acc.s.need \cup (MissingDeps(acc.d, c) \cup {c.hash})
        /\ next.s.peerNeed = acc.s.peerNeed
    BY <1>6, <1>9, MarkNeedIs DEF Noting
  <2> QED
    BY <1>3, <1>4, <1>5, <1>6, <2>1 DEF Noting, B, next
<1> QED
  BY <1>5, <1>7, <1>8, <1>9 DEF NoteChange, next, B

\* ReceiveSyncMessage.
LEMMA ReceiveNotes ==
    ASSUME NEW D, AllOK(D), CountsBound(D), NEW r \in Replicas, NEW q \in Replicas,
           NEW s \in States, NEW m, FromLog(m, D[q]), Worded(m), m.heads \subseteq Hashes(D[q])
    PROVE  LET got == ReceiveSyncMessage(D[r], s, m)
           IN  /\ got.s \in States
               /\ Hashes(got.d) \in SUBSET Hash /\ got.d.deps \in SUBSET Hashes(got.d)
               /\ Hashes(D[r]) \subseteq Hashes(got.d)
               /\ Notes(s, got.s, m, Hashes(got.d), Hashes(D[q]))
<1> DEFINE B == Hashes(D[q])
           base == [d |-> D[r], s |-> s]
<1>1. PICK n \in 0..Len(D[q].changes) :
         /\ DOMAIN m.changes = 1..n
         /\ \A i \in 1..n : m.changes[i].change = D[q].changes[i]
  BY DEF FromLog
<1>2. D[q] \in Replica /\ D[r] \in Replica /\ Len(D[q].changes) \in Nat /\ n \in Nat
      /\ DOMAIN D[q].changes = 1..Len(D[q].changes)
  BY <1>1, ReplicaTypes DEF AllOK
<1>3. \A i \in 1..n : m.changes[i].change \in Log(D[q])
  <2>1. \A i \in 1..n : i \in 1..Len(D[q].changes)
    BY <1>2
  <2> QED
    BY <1>1, <1>2, <2>1 DEF Log, ToSet
<1> DEFINE A == [i \in 0..n |-> {acc \in [d : Replica, s : States] : Noting(D, r, s, B, acc)}]
<1>4. base \in A[0]
  <2>1. Log(D[r]) \subseteq Known(D) /\ LocalOK(D[r])
    BY DEF Known, AllOK
  <2>2. Noting(D, r, s, B, base)
    BY <1>2, <2>1 DEF Noting, Reached
  <2>3. 0 \in 0..n /\ base \in [d : Replica, s : States]
    BY <1>2
  <2> QED
    BY <2>2, <2>3
<1>5. ASSUME NEW i \in 1..n, NEW acc \in A[i - 1]
      PROVE  ReceiveChange(acc, m.changes[i]) \in A[i]
  <2>1. i \in 0..n /\ i - 1 \in 0..n
    BY <1>2
  <2>2. Noting(D, r, s, B, acc)
    BY <2>1
  <2>3. Noting(D, r, s, B, ReceiveChange(acc, m.changes[i]))
    BY <1>3, <2>2, NotingOne
  <2>4. ReceiveChange(acc, m.changes[i]) \in [d : Replica, s : States]
    <3>1. \E d, t : ReceiveChange(acc, m.changes[i]) = [d |-> d, s |-> t]
      BY DEF ReceiveChange
    <3>2. /\ ReceiveChange(acc, m.changes[i]).d \in Replica
          /\ ReceiveChange(acc, m.changes[i]).s \in States
      BY <2>3 DEF Noting, Reached
    <3> QED
      BY <3>1, <3>2
  <2> QED
    BY <2>1, <2>3, <2>4
<1>6. Received!Fold(base, m.changes) \in A[n]
  <2> HIDE DEF A, base
  <2> QED
    BY <1>1, <1>2, <1>4, <1>5, Received!FoldLeftInduction
<1>7. ReceiveChanges(base, m.changes) = Received!Fold(base, m.changes)
  BY DEF ReceiveChanges, Received!Fold, FoldLeft, MapThenFoldSet, Max,
         Received!MapThenFoldSet, Received!Max
<1> DEFINE acc == ReceiveChanges(base, m.changes)
           have == Hashes(acc.d)
           known == MarkKnown(acc.s, m.heads \cap have)
           noted == MarkNeed(known, m.heads \ have)
           asked == MarkPeerNeed(noted, m.need \cap have)
           got == ReceiveSyncMessage(D[r], s, m)
<1>8. Noting(D, r, s, B, acc)
  BY <1>2, <1>6, <1>7
<1>9. got.d = acc.d /\ got.s = [asked EXCEPT !.bloom = m.bloom]
  BY DEF ReceiveSyncMessage
<1> HIDE DEF acc, got, base
<1>10. /\ have \in SUBSET Hash /\ acc.d.deps \in SUBSET have /\ Hashes(D[r]) \subseteq have
  <2>1. Reached(D, r, acc.d) /\ acc.d \in Replica /\ LogOK(acc.d) /\ Log(acc.d) \subseteq Known(D)
        /\ Log(D[r]) \subseteq Log(acc.d)
    BY <1>8 DEF Noting, Reached, LocalOK
  <2>2. Hashes(D[r]) \subseteq have
    BY <2>1 DEF Hashes, Log
  <2> QED
    BY <2>1, <2>2, HashesAre, LogClosed
<1>11. /\ m.heads \cap have \in SUBSET Hash /\ m.heads \ have \in SUBSET Hash
       /\ m.need \cap have \in SUBSET Hash /\ m.bloom \in SUBSET Hash
  BY DEF Worded
<1> HIDE DEF have
<1>12. known \in States /\ acc.s \in States
  BY <1>8, <1>11, MarkKnownIs DEF Noting
<1>13. /\ known.need = acc.s.need \ (m.heads \cap have)
       /\ known.peerNeed = acc.s.peerNeed \ (m.heads \cap have)
       /\ known.init = acc.s.init /\ known.lastHeads = acc.s.lastHeads
  BY <1>12, MarkKnownIs
<1> HIDE DEF known
<1>14. /\ noted \in States /\ noted.need = known.need \cup (m.heads \ have)
       /\ noted.peerNeed = known.peerNeed
       /\ noted.init = known.init /\ noted.lastHeads = known.lastHeads
  BY <1>11, <1>12, MarkNeedIs
<1> HIDE DEF noted
<1>15. /\ asked \in States /\ asked.need = noted.need
       /\ asked.peerNeed = noted.peerNeed \cup (m.need \cap have)
       /\ asked.init = noted.init /\ asked.lastHeads = noted.lastHeads
  BY <1>11, <1>14, MarkPeerNeedIs
<1> HIDE DEF asked
<1>16. /\ got.s \in States /\ got.s.need = asked.need /\ got.s.peerNeed = asked.peerNeed
       /\ got.s.init = asked.init /\ got.s.lastHeads = asked.lastHeads
  <2>1. [asked EXCEPT !.bloom = m.bloom] \in States
    BY <1>11, <1>15 DEF States
  <2> QED
    BY <1>9, <1>15, <2>1 DEF States
<1>17. Notes(s, got.s, m, have, B)
  <2>1. /\ acc.s.init = s.init /\ acc.s.lastHeads = s.lastHeads
        /\ s.need \ have \subseteq acc.s.need /\ acc.s.need \subseteq s.need \cup B
        /\ s.peerNeed \ B \subseteq acc.s.peerNeed
    BY <1>8 DEF Noting, have
  <2> HIDE DEF B
  <2>2. m.heads \subseteq B
    BY DEF B
  <2> QED
    BY <1>13, <1>14, <1>15, <1>16, <2>1, <2>2 DEF Notes
<1> QED
  BY <1>9, <1>10, <1>16, <1>17 DEF have, got

-----------------------------------------------------------------------------
(* Messages on their way.                                                  *)

\* Queues as sets of messages.
LEMMA QueueSets ==
    ASSUME NEW q, IsSeq(q), NEW m
    PROVE  /\ Len(q) \in Nat
           /\ IsSeq(Append(q, m)) /\ Len(Append(q, m)) = Len(q) + 1
           /\ InQueue(Append(q, m)) = InQueue(q) \cup {m}
           /\ q # << >> => /\ InQueue(q) = InQueue(Tail(q)) \cup {Head(q)}
                           /\ Len(Tail(q)) = Len(q) - 1
<1>1. PICK S : q \in Seq(S)
  BY DEF IsSeq
<1>2. q \in Seq(S \cup {m}) /\ m \in S \cup {m}
  BY <1>1
<1>3. /\ Append(q, m) \in Seq(S \cup {m}) /\ Len(q) \in Nat /\ Len(Append(q, m)) = Len(q) + 1
      /\ \A i \in 1..Len(q) : Append(q, m)[i] = q[i]
      /\ Append(q, m)[Len(q) + 1] = m
  BY <1>2
<1>4. \A i \in 1..(Len(q) + 1) : i \in 1..Len(q) \/ i = Len(q) + 1
  BY <1>3
<1>5. \A i \in 1..Len(q) : i \in 1..(Len(q) + 1)
  BY <1>3
<1>6. Len(q) + 1 \in 1..(Len(q) + 1)
  BY <1>3
<1>7. InQueue(Append(q, m)) = InQueue(q) \cup {m}
  BY <1>3, <1>4, <1>5, <1>6 DEF InQueue
<1>8. ASSUME q # << >>
      PROVE  InQueue(q) = InQueue(Tail(q)) \cup {Head(q)} /\ Len(Tail(q)) = Len(q) - 1
  <2>1. /\ Len(q) >= 1 /\ Len(Tail(q)) = Len(q) - 1
        /\ \A i \in 1..(Len(q) - 1) : Tail(q)[i] = q[i + 1]
        /\ Head(q) = q[1]
    BY <1>1, <1>8
  <2>2. \A i \in 1..(Len(q) - 1) : i + 1 \in 1..Len(q)
    BY <1>3
  <2>3. \A i \in 1..Len(q) : i = 1 \/ (i - 1 \in 1..(Len(q) - 1) /\ q[i] = Tail(q)[i - 1])
    BY <1>3, <2>1
  <2>4. 1 \in 1..Len(q)
    BY <1>3, <2>1
  <2>5. InQueue(q) \subseteq InQueue(Tail(q)) \cup {Head(q)}
    <3> SUFFICES ASSUME NEW i \in 1..Len(q) PROVE q[i] \in InQueue(Tail(q)) \cup {Head(q)}
      BY DEF InQueue
    <3> QED
      BY <2>1, <2>3 DEF InQueue
  <2>6. InQueue(Tail(q)) \cup {Head(q)} \subseteq InQueue(q)
    <3> SUFFICES ASSUME NEW i \in 1..(Len(q) - 1) PROVE Tail(q)[i] \in InQueue(q)
      BY <2>1, <2>4 DEF InQueue
    <3> QED
      BY <2>1, <2>2 DEF InQueue
  <2> QED
    BY <2>1, <2>5, <2>6
<1> QED
  BY <1>3, <1>7, <1>8 DEF IsSeq

\* An empty queue holds nothing, and only an empty queue does.
LEMMA EmptyQueue ==
    /\ InQueue(<< >>) = {} /\ Len(<< >>) = 0
    /\ \A q : IsSeq(q) /\ InQueue(q) = {} => q = << >>
<1>1. InQueue(<< >>) = {} /\ Len(<< >>) = 0
  BY DEF InQueue
<1>2. ASSUME NEW q, IsSeq(q), q # << >> PROVE InQueue(q) # {}
  BY <1>2, QueueSets
<1> QED
  BY <1>1, <1>2

\* What the invariants say of a state, in the form the steps below need it.
LEMMA Session ==
    ASSUME SyncIInv, SessionsOK
    PROVE  /\ Hub \in Replicas
           /\ AllOK(docs) /\ CountsBound(docs) /\ docs \in [Replicas -> Replica]
           /\ \A r \in Replicas : /\ Held(r) \in SUBSET Hash /\ docs[r].deps \in SUBSET Held(r)
                                  /\ docs[r].changes \in Seq(Change)
           /\ \A c \in Clients : /\ c \in Replicas /\ c # Hub
                                 /\ <<c, Hub>> \in Links /\ <<Hub, c>> \in Links
                                 /\ peer[<<c, Hub>>] \in States /\ peer[<<Hub, c>>] \in States
                                 /\ IsSeq(queue[c]) /\ IsSeq(wire[c])
           /\ queue = [c \in Clients |-> queue[c]] /\ wire = [c \in Clients |-> wire[c]]
           /\ frame = [g \in Replicas |-> frame[g]] /\ NoFrame.to = Hub
<1>1. Hub \in Replicas /\ \A c \in Clients : c \in Replicas /\ c # Hub
  BY CrdtSyncAssumption DEF Clients
<1>2. AllOK(docs) /\ CountsBound(docs) /\ docs \in [Replicas -> Replica]
  BY Bounded DEF SyncIInv, IInv, AllOK
<1>3. ASSUME NEW r \in Replicas
      PROVE  /\ Held(r) \in SUBSET Hash /\ docs[r].deps \in SUBSET Held(r)
             /\ docs[r].changes \in Seq(Change)
  <2>1. docs[r] \in Replica /\ LogOK(docs[r]) /\ Log(docs[r]) \subseteq Known(docs)
    BY <1>2 DEF AllOK, LocalOK, Known
  <2> QED
    BY <1>2, <2>1, HashesAre, LogClosed, ReplicaTypes DEF Held
<1>4. ASSUME NEW c \in Clients
      PROVE  /\ <<c, Hub>> \in Links /\ <<Hub, c>> \in Links
             /\ peer[<<c, Hub>>] \in States /\ peer[<<Hub, c>>] \in States
             /\ IsSeq(queue[c]) /\ IsSeq(wire[c])
  <2>1. <<c, Hub>> \in Links /\ <<Hub, c>> \in Links
    BY DEF Links
  <2> QED
    BY <2>1 DEF SessionsOK, SyncIInv, FramesOK, AllFrom
<1> QED
  BY <1>1, <1>2, <1>3, <1>4 DEF SyncIInv, FramesOK, NoFrame

\* What a replica holds, it keeps.
LEMMA HeldGrows ==
    ASSUME SyncIInv, [Next]_vars, NEW r \in Replicas
    PROVE  Hashes(docs[r]) \subseteq Hashes(docs'[r])
<1>1. Continues(docs[r].changes, docs'[r].changes)
  BY StepIsReplicas, LogsGrow DEF SyncIInv
<1>2. docs[r].changes \in Seq(Change) /\ DOMAIN docs[r].changes = 1..Len(docs[r].changes)
  BY ReplicaTypes DEF SyncIInv, IInv, AllOK
<1>3. [ReplicaNext]_replicaVars /\ IInv
  BY StepIsReplicas DEF SyncIInv
<1>4. IInv'
  BY <1>3, StepOK
<1>5. DOMAIN docs'[r].changes = 1..Len(docs'[r].changes)
  BY <1>4, ReplicaTypes DEF IInv, AllOK
<1>6. ASSUME NEW i \in 1..Len(docs[r].changes)
      PROVE  docs[r].changes[i].hash \in Hashes(docs'[r])
  <2>1. i \in 1..Len(docs'[r].changes) /\ docs'[r].changes[i] = docs[r].changes[i]
    BY <1>1, <1>2 DEF Continues
  <2> QED
    BY <1>5, <2>1 DEF Hashes, ToSet
<1> QED
  BY <1>2, <1>6 DEF Hashes, ToSet

\* A client whose connection a step leaves alone, but for a broadcast that begins.
LEMMA OthersKeep ==
    ASSUME NEW c \in Clients, ClientOK(c), (c \in joined') = (c \in joined),
           peer'[<<c, Hub>>] = peer[<<c, Hub>>], peer'[<<Hub, c>>] = peer[<<Hub, c>>],
           ToClient(c)' = ToClient(c), ToHub(c)' = ToHub(c),
           Held(c) \subseteq Held(c)', Held(Hub) \subseteq Held(Hub)',
           Serving(c) => Serving(c)', Serving(c)' => Serving(c) \/ c \in joined,
           \/ Serving(c)' \/ c \notin joined
           \/ /\ docs'[Hub].deps = docs[Hub].deps
              /\ (\E g \in Replicas : again[g]) => (\E g \in Replicas : again'[g])
    PROVE  ClientOK(c)'
<1>1. CASE c \in joined
  <2>1. Link(c)'
    BY <1>1, LinkStays DEF ClientOK, Link
  <2>2. Told(c)'
    BY <1>1 DEF ClientOK, Told
  <2> QED
    BY <1>1, <2>1, <2>2 DEF ClientOK
<1>2. CASE c \notin joined
  BY <1>2 DEF ClientOK, Still
<1> QED
  BY <1>1, <1>2

\* Messages that are on their way stay what they are.
LEMMA MessagesStay ==
    ASSUME NEW c \in Clients, MessagesOK(c), ToClient(c)' \subseteq ToClient(c),
           ToHub(c)' \subseteq ToHub(c), Held(c) \subseteq Held(c)', Held(Hub) \subseteq Held(Hub)'
    PROVE  MessagesOK(c)'
BY DEF MessagesOK, Worded

\* A message that is sent to client c.
LEMMA MessageToClient ==
    ASSUME NEW c \in Clients, MessagesOK(c), NEW M,
           ToClient(c)' \subseteq ToClient(c) \cup M, ToHub(c)' \subseteq ToHub(c),
           Held(c) \subseteq Held(c)', Held(Hub) \subseteq Held(Hub)',
           \A m \in M : Worded(m) /\ m.heads \subseteq Held(Hub)'
    PROVE  MessagesOK(c)'
BY DEF MessagesOK, Worded

\* A message that is sent by client c.
LEMMA MessageToHub ==
    ASSUME NEW c \in Clients, MessagesOK(c), NEW m,
           ToClient(c)' \subseteq ToClient(c), ToHub(c)' \subseteq ToHub(c) \cup {m},
           Held(c) \subseteq Held(c)', Held(Hub) \subseteq Held(Hub)',
           Worded(m), m.heads \subseteq Held(c)'
    PROVE  MessagesOK(c)'
BY DEF MessagesOK, Worded

\* Steps that send and receive nothing: editing, committing, and a broadcast's second
\* round.
LEMMA NothingSent ==
    ASSUME SyncIInv, SessionsOK, [Next]_vars,
           UNCHANGED <<peer, queue, wire, frame, joined, joins>>,
           todo' \in [Replicas -> SUBSET Clients], again' \in [Replicas -> BOOLEAN],
           \A c \in Clients : /\ Serving(c) => Serving(c)'
                              /\ Serving(c)' => Serving(c) \/ c \in joined,
           \/ \A c \in joined : Serving(c)'
           \/ docs'[Hub].deps = docs[Hub].deps /\ again' = again
    PROVE  SessionsOK' /\ (LinksOK => LinksOK')
<1>1. \A c \in Clients : ToClient(c)' = ToClient(c) /\ ToHub(c)' = ToHub(c)
  BY DEF ToClient, ToHub, FramesTo, InQueue
<1>2. \A r \in Replicas : Held(r) \subseteq Held(r)'
  BY HeldGrows DEF Held
<1>3. Hub \in Replicas /\ \A c \in Clients : c \in Replicas
  BY Session
<1>4. SessionsOK'
  <2>1. \A c \in Clients : MessagesOK(c)'
    BY <1>1, <1>2, <1>3, MessagesStay DEF SessionsOK
  <2> QED
    BY <2>1 DEF SessionsOK
<1>5. ASSUME LinksOK PROVE LinksOK'
  <2> SUFFICES ASSUME NEW c \in Clients PROVE ClientOK(c)'
    BY DEF LinksOK
  <2>1. ClientOK(c) /\ Held(c) \subseteq Held(c)' /\ Held(Hub) \subseteq Held(Hub)'
    BY <1>2, <1>3, <1>5 DEF LinksOK
  <2>2. /\ (c \in joined') = (c \in joined)
        /\ peer'[<<c, Hub>>] = peer[<<c, Hub>>] /\ peer'[<<Hub, c>>] = peer[<<Hub, c>>]
    OBVIOUS
  <2> QED
    BY <1>1, <2>1, <2>2, OthersKeep
<1> QED
  BY <1>4, <1>5

\* Edits and commits, and BroadcastAgain.
LEMMA QuietStep ==
    ASSUME SyncIInv, SessionsOK, [Next]_vars,
           \/ \E r \in Replicas : LocalEdit(r) \/ BroadcastAgain(r)
           \/ HubCommit \/ \E c \in Clients : ClientCommit(c)
    PROVE  SessionsOK' /\ (LinksOK => LinksOK')
<1>1. /\ Hub \in Replicas /\ docs \in [Replicas -> Replica] /\ joined \subseteq Clients
      /\ todo \in [Replicas -> SUBSET Clients] /\ again \in [Replicas -> BOOLEAN]
      /\ \A c \in Clients : c \in Replicas /\ c # Hub
  BY Session DEF SessionsOK
<1>2. ASSUME NEW r \in Replicas, LocalEdit(r) PROVE SessionsOK' /\ (LinksOK => LinksOK')
  <2>1. UNCHANGED <<peer, queue, wire, frame, joined, joins, todo, again>>
    BY <1>2 DEF LocalEdit, traffic, rounds
  <2>2. docs'[Hub].deps = docs[Hub].deps
    <3>1. PICK op : docs' = [docs EXCEPT ![r].doc = ApplyOp(@, op), ![r].maxOp = @ + Width(op),
                                         ![r].pending = Append(@, op)]
      BY <1>2 DEF LocalEdit, Edit
    <3>2. docs[Hub] \in Replica
      BY <1>1
    <3> QED
      BY <1>1, <3>1, <3>2 DEF Replica
  <2>3. \A c \in Clients : Serving(c)' = Serving(c)
    BY <2>1 DEF Serving
  <2> QED
    BY <1>1, <2>1, <2>2, <2>3, NothingSent
<1>3. ASSUME NEW c \in Clients, ClientCommit(c) PROVE SessionsOK' /\ (LinksOK => LinksOK')
  <2>1. UNCHANGED <<peer, queue, wire, frame, joined, joins, todo, again>>
    BY <1>3 DEF ClientCommit, traffic, rounds
  <2>2. docs'[Hub].deps = docs[Hub].deps
    BY <1>1, <1>3 DEF ClientCommit, Commit, Replica
  <2>3. \A d \in Clients : Serving(d)' = Serving(d)
    BY <2>1 DEF Serving
  <2> QED
    BY <1>1, <2>1, <2>2, <2>3, NothingSent
<1>4. CASE HubCommit
  <2>1. UNCHANGED <<peer, queue, wire, frame, joined, joins, again>>
        /\ todo' = [todo EXCEPT ![Hub] = joined] /\ todo[Hub] = {}
    BY <1>4 DEF HubCommit, Idle, traffic
  <2>2. /\ \A c \in joined : Serving(c)'
        /\ \A c \in Clients : /\ Serving(c) => Serving(c)'
                              /\ Serving(c)' => Serving(c) \/ c \in joined
    BY <1>1, <2>1 DEF Serving
  <2>3. todo' \in [Replicas -> SUBSET Clients]
    BY <1>1, <2>1
  <2> QED
    BY <1>1, <2>1, <2>2, <2>3, NothingSent
<1>5. ASSUME NEW g \in Replicas, BroadcastAgain(g) PROVE SessionsOK' /\ (LinksOK => LinksOK')
  <2>1. /\ UNCHANGED <<peer, queue, wire, frame, joined, joins>>
        /\ todo' = [todo EXCEPT ![g] = joined] /\ todo[g] = {}
        /\ again' = [again EXCEPT ![g] = FALSE]
    BY <1>5 DEF BroadcastAgain, traffic
  <2>2. /\ \A c \in joined : Serving(c)'
        /\ \A c \in Clients : /\ Serving(c) => Serving(c)'
                              /\ Serving(c)' => Serving(c) \/ c \in joined
    BY <1>1, <2>1 DEF Serving
  <2>3. todo' \in [Replicas -> SUBSET Clients] /\ again' \in [Replicas -> BOOLEAN]
    BY <1>1, <2>1
  <2> QED
    BY <2>1, <2>2, <2>3, NothingSent
<1> QED
  BY <1>2, <1>3, <1>4, <1>5

\* tryBinarySend.
LEMMA EnqueueKeeps ==
    ASSUME SyncIInv, SessionsOK, [Next]_vars, NEW g \in Replicas, Enqueue(g)
    PROVE  SessionsOK' /\ (RoomInQueues /\ LinksOK => LinksOK')
<1>0. PICK to, m : to = frame[g].to /\ m = frame[g].msg
  OBVIOUS
<1>1. /\ frame[g] # NoFrame /\ frame' = [frame EXCEPT ![g] = NoFrame]
      /\ queue' = [queue EXCEPT ![to] = IF Len(@) < QueueCap THEN Append(@, m) ELSE @]
      /\ UNCHANGED <<docs, peer, wire, joined, todo, again, joins>>
  BY <1>0 DEF Enqueue, replicaVars
<1>2. to \in Clients
  BY <1>0, <1>1 DEF SessionsOK
<1>3. /\ \A c \in Clients : /\ c # Hub /\ c \in Replicas /\ IsSeq(queue[c])
                            /\ Len(queue[c]) \in Nat /\ Len(queue[c]) <= QueueCap
      /\ queue = [c \in Clients |-> queue[c]] /\ frame = [h \in Replicas |-> frame[h]]
      /\ NoFrame.to = Hub /\ QueueCap \in Nat /\ Hub \in Replicas
  BY Session, QueueSets, CrdtSyncAssumption DEF SessionsOK
<1>4. \A h \in Replicas : frame'[h] = IF h = g THEN NoFrame ELSE frame[h]
  BY <1>1, <1>3
<1>5. \A c \in Clients : queue'[c] = IF c = to /\ Len(queue[c]) < QueueCap
                                     THEN Append(queue[c], m) ELSE queue[c]
  BY <1>1, <1>2, <1>3
<1>6. ASSUME NEW c \in Clients, c # to PROVE ToClient(c)' = ToClient(c)
  <2>1. \A h \in Replicas : (frame'[h].to = c) = (frame[h].to = c)
                            /\ (frame[h].to = c => frame'[h] = frame[h])
    BY <1>0, <1>3, <1>4, <1>6
  <2> QED
    BY <1>5, <1>6, <2>1 DEF ToClient, FramesTo, InQueue
<1>7. FramesTo(to) = FramesTo(to)' \cup {m}
  <2>1. \A h \in Replicas : /\ frame'[h].to = to <=> frame[h].to = to /\ h # g
                            /\ h # g => frame'[h] = frame[h]
    BY <1>2, <1>3, <1>4
  <2>2. frame[g].to = to /\ frame[g].msg = m
    BY <1>0
  <2> QED
    BY <2>1, <2>2 DEF FramesTo
<1>8. /\ Len(queue[to]) < QueueCap => InQueue(queue'[to]) = InQueue(queue[to]) \cup {m}
      /\ ~(Len(queue[to]) < QueueCap) => queue'[to] = queue[to]
      /\ Len(queue'[to]) <= QueueCap
  <2>1. /\ InQueue(Append(queue[to], m)) = InQueue(queue[to]) \cup {m}
        /\ Len(Append(queue[to], m)) = Len(queue[to]) + 1
    BY <1>2, <1>3, QueueSets
  <2>2. CASE Len(queue[to]) < QueueCap
    <3>1. queue'[to] = Append(queue[to], m)
      BY <1>2, <1>5, <2>2
    <3> QED
      BY <1>2, <1>3, <2>1, <2>2, <3>1
  <2>3. CASE ~(Len(queue[to]) < QueueCap)
    <3>1. queue'[to] = queue[to]
      BY <1>2, <1>5, <2>3
    <3> QED
      BY <1>2, <1>3, <2>3, <3>1
  <2> QED
    BY <2>2, <2>3
<1>9. /\ ToClient(to)' \subseteq ToClient(to)
      /\ Len(queue[to]) < QueueCap => ToClient(to)' = ToClient(to)
  BY <1>7, <1>8 DEF ToClient
<1>10. \A c \in Clients : ToHub(c)' = ToHub(c)
  BY <1>1 DEF ToHub
<1>11. SessionsOK'
  <2>1. \A c \in Clients : Held(c)' = Held(c) /\ Held(Hub)' = Held(Hub)
    BY <1>1 DEF Held
  <2>2. \A c \in Clients : MessagesOK(c)'
    BY <1>6, <1>9, <1>10, <2>1, MessagesStay DEF SessionsOK
  <2>3. \A c \in Clients : Len(queue'[c]) <= QueueCap
    BY <1>3, <1>5, <1>8
  <2>4. \A h \in Replicas : frame'[h] = NoFrame \/ frame'[h].to \in Clients
    BY <1>4 DEF SessionsOK
  <2> QED
    BY <1>1, <2>2, <2>3, <2>4 DEF SessionsOK
<1>12. ASSUME RoomInQueues, LinksOK PROVE LinksOK'
  <2> SUFFICES ASSUME NEW c \in Clients PROVE ClientOK(c)'
    BY DEF LinksOK
  <2>1. ToClient(c)' = ToClient(c)
    BY <1>0, <1>1, <1>6, <1>9, <1>12 DEF RoomInQueues
  <2>2. /\ ClientOK(c) /\ Held(c)' = Held(c) /\ Held(Hub)' = Held(Hub)
        /\ docs' = docs /\ again' = again /\ Serving(c)' = Serving(c)
    BY <1>1, <1>12 DEF LinksOK, Held, Serving
  <2> QED
    BY <1>1, <1>10, <2>1, <2>2, OthersKeep
<1> QED
  BY <1>11, <1>12

\* queueSyncMessage up to the release of the document's read lock.
LEMMA GenerateKeeps ==
    ASSUME SyncIInv, SessionsOK, [Next]_vars, NEW c \in Clients, NEW G \in Groups,
           Generate(G, c)
    PROVE  SessionsOK' /\ (LinksOK => LinksOK')
<1> DEFINE H == peer[<<Hub, c>>]
           P == peer[<<c, Hub>>]
<1>0. G \subseteq Replicas /\ G # {}
  BY DEF Groups
<1>1. /\ \A g \in G : c \in todo[g] /\ frame[g] = NoFrame
      /\ todo' = [g \in Replicas |-> IF g \in G THEN todo[g] \ {c} ELSE todo[g]]
      /\ UNCHANGED <<docs, queue, wire, joined, again, joins>>
  BY DEF Generate, Served, replicaVars, traffic
<1>2. /\ Hub \in Replicas /\ peer \in [Links -> States] /\ todo \in [Replicas -> SUBSET Clients]
      /\ \A d \in Clients : /\ d # Hub /\ d \in Replicas
                            /\ <<d, Hub>> \in Links /\ <<Hub, d>> \in Links
      /\ frame = [h \in Replicas |-> frame[h]] /\ NoFrame.to = Hub
      /\ H \in States /\ Held(Hub) \in SUBSET Hash /\ docs[Hub].deps \in SUBSET Held(Hub)
      /\ BloomFalse \subseteq Hash
  BY Session, CrdtSyncAssumption DEF SessionsOK
<1>3. \A r \in Replicas : Held(r)' = Held(r)
  BY <1>1 DEF Held
<1>4. \A d \in Clients : ToHub(d)' = ToHub(d)
  BY <1>1 DEF ToHub
<1>5. todo' \in [Replicas -> SUBSET Clients] /\ \A d \in Clients : d # c => Serving(d)' = Serving(d)
  BY <1>1, <1>2 DEF Serving
<1>6. CASE ShouldSend(docs[Hub], H)
  <2> DEFINE made == {h \in G : Generated(frame'[h], c)}
             M == {frame'[h].msg : h \in made}
  <2>1. /\ frame' = [h \in Replicas |-> frame'[h]]
        /\ \A h \in Replicas \ G : frame'[h] = frame[h]
        /\ \A h \in G : h \in made \/ frame'[h] = NoFrame
        /\ made # {} /\ made \subseteq G
    BY <1>0, <1>1, <1>2, <1>6, FramesMade
  <2>2. peer' = [peer EXCEPT ![<<Hub, c>>] = AfterGenerate(docs[Hub], H)]
    BY <1>6 DEF Generate
  <2>3. PICK H2 : H2 = AfterGenerate(docs[Hub], H)
    OBVIOUS
  <2>4. /\ H2 \in States /\ H2.need = H.need /\ H2.lastHeads = docs[Hub].deps /\ H2.init
        /\ \A h \in made : /\ frame'[h].to = c /\ Worded(frame'[h].msg)
                           /\ frame'[h].msg.heads = docs[Hub].deps
                           /\ frame'[h].msg.need = H.need
    <3>1. docs[Hub].deps \in SUBSET Hash /\ Hashes(docs[Hub]) \in SUBSET Hash
      BY <1>2 DEF Held
    <3>2. FalseAt(Hub) \subseteq SUBSET Hash /\ {} \in SUBSET Hash
      BY <1>2 DEF FalseAt
    <3>3. H2 \in States /\ H2.need = H.need /\ H2.lastHeads = docs[Hub].deps /\ H2.init
      BY <1>2, <2>3, <3>1, <3>2, GenerateNotes
    <3>4. \A S, fp : fp \in FalseAt(Hub) =>
             /\ MessageOf(docs[Hub], H, S, fp).heads = docs[Hub].deps
             /\ MessageOf(docs[Hub], H, S, fp).need = H.need
             /\ Worded(MessageOf(docs[Hub], H, S, fp))
      BY <1>2, <3>1, <3>2, GenerateNotes
    <3>5. ASSUME NEW h \in made
          PROVE  /\ frame'[h].to = c /\ Worded(frame'[h].msg)
                 /\ frame'[h].msg.heads = docs[Hub].deps /\ frame'[h].msg.need = H.need
      <4>1. PICK S, fp : /\ fp \in FalseAt(Hub)
                         /\ frame'[h] = [to |-> c, msg |-> MessageOf(docs[Hub], H, S, fp)]
        BY DEF Generated
      <4> QED
        BY <3>4, <4>1
    <3> QED
      BY <3>3, <3>5
  <2>5. /\ peer' \in [Links -> States] /\ peer'[<<Hub, c>>] = H2 /\ peer'[<<c, Hub>>] = P
        /\ \A d \in Clients : /\ peer'[<<d, Hub>>] = peer[<<d, Hub>>]
                              /\ d # c => peer'[<<Hub, d>>] = peer[<<Hub, d>>]
    BY <1>2, <2>2, <2>3, <2>4
  <2>6. /\ M # {}
        /\ \A m \in M : /\ Worded(m) /\ m.heads = docs[Hub].deps /\ m.need = H.need
                        /\ m.heads \subseteq Held(Hub)
    BY <1>2, <2>1, <2>4
  <2>7. /\ ToClient(c)' = ToClient(c) \cup M
        /\ \A d \in Clients : d # c => ToClient(d)' = ToClient(d)
    <3>1. /\ \A g \in made : frame'[g].to = c
          /\ \A g \in G \ made : frame'[g].to = Hub
          /\ \A g \in G : frame[g].to = Hub
      BY <1>1, <1>2, <2>1, <2>4, Zenon
    <3> HIDE DEF made
    <3>2. FramesTo(c)' = FramesTo(c) \cup M
      <4>1. {h \in Replicas : frame'[h].to = c} = {h \in Replicas : frame[h].to = c} \cup made
        BY <1>0, <1>2, <2>1, <3>1
      <4>2. \A h \in Replicas : frame[h].to = c => frame'[h] = frame[h]
        BY <1>2, <2>1, <3>1
      <4> QED
        BY <4>1, <4>2 DEF FramesTo
    <3>3. \A d \in Clients : d # c => FramesTo(d)' = FramesTo(d)
      <4>1. ASSUME NEW d \in Clients, d # c PROVE FramesTo(d)' = FramesTo(d)
        <5>1. \A h \in Replicas : /\ frame'[h].to = d <=> frame[h].to = d
                                  /\ frame[h].to = d => frame'[h] = frame[h]
          BY <1>2, <2>1, <3>1, <4>1
        <5> QED
          BY <5>1 DEF FramesTo
      <4> QED
        BY <4>1
    <3> QED
      BY <1>1, <3>2, <3>3 DEF ToClient, InQueue
  <2>8. \A h \in Replicas : frame'[h] = NoFrame \/ frame'[h].to \in Clients
    BY <2>1, <2>4 DEF SessionsOK
  <2> HIDE DEF M, made
  <2>9. SessionsOK'
    <3>1. MessagesOK(c)'
      <4>1. MessagesOK(c) /\ Held(c)' = Held(c) /\ Held(Hub)' = Held(Hub)
        BY <1>2, <1>3 DEF SessionsOK
      <4>2. ToClient(c)' \subseteq ToClient(c) \cup M /\ ToHub(c)' \subseteq ToHub(c)
        BY <1>4, <2>7
      <4> QED
        BY <2>6, <4>1, <4>2, MessageToClient
    <3>2. \A d \in Clients : d # c => MessagesOK(d)'
      BY <1>2, <1>3, <1>4, <2>7, MessagesStay DEF SessionsOK
    <3> QED
      BY <1>1, <1>5, <2>5, <2>8, <3>1, <3>2 DEF SessionsOK
  <2>10. ASSUME LinksOK PROVE LinksOK'
    <3>1. ASSUME NEW d \in Clients, d # c PROVE ClientOK(d)'
      <4>1. ClientOK(d) /\ ToClient(d)' = ToClient(d) /\ ToHub(d)' = ToHub(d)
            /\ Serving(d)' = Serving(d)
        BY <1>4, <1>5, <2>7, <2>10, <3>1 DEF LinksOK
      <4>2. Held(d)' = Held(d) /\ Held(Hub)' = Held(Hub)
        BY <1>2, <1>3
      <4> QED
        BY <1>1, <2>5, <3>1, <4>1, <4>2, OthersKeep
    <3>2. ClientOK(c)'
      <4>1. Serving(c)
        BY <1>0, <1>1 DEF Serving
      <4>2. c \in joined /\ Link(c)
        BY <2>10, <4>1 DEF LinksOK, ClientOK, Still
      <4>3. LinkOK(P, H2, ToClient(c) \cup M, ToHub(c), Serving(c)', Held(c), Held(Hub))
        BY <2>4, <2>6, <4>2, HubSends DEF Link
      <4>4. Link(c)'
        BY <1>2, <1>3, <1>4, <2>5, <2>7, <4>3 DEF Link
      <4>5. Told(c)'
        BY <1>1, <2>4, <2>5 DEF Told
      <4> QED
        BY <1>1, <4>2, <4>4, <4>5 DEF ClientOK
    <3> QED
      BY <3>1, <3>2 DEF LinksOK
  <2> QED
    BY <2>9, <2>10
<1>7. CASE ~ShouldSend(docs[Hub], H)
  <2>1. UNCHANGED <<frame, peer>>
    BY <1>7 DEF Generate
  <2>2. \A d \in Clients : ToClient(d)' = ToClient(d)
    BY <1>1, <2>1 DEF ToClient, FramesTo, InQueue
  <2>3. SessionsOK'
    <3>1. \A d \in Clients : MessagesOK(d)'
      BY <1>2, <1>3, <1>4, <2>2, MessagesStay DEF SessionsOK
    <3> QED
      BY <1>1, <1>5, <2>1, <3>1 DEF SessionsOK
  <2>4. ASSUME LinksOK PROVE LinksOK'
    <3>1. ASSUME NEW d \in Clients, d # c PROVE ClientOK(d)'
      <4>1. ClientOK(d) /\ ToClient(d)' = ToClient(d) /\ ToHub(d)' = ToHub(d)
            /\ Serving(d)' = Serving(d)
        BY <1>4, <1>5, <2>2, <2>4, <3>1 DEF LinksOK
      <4>2. Held(d)' = Held(d) /\ Held(Hub)' = Held(Hub)
        BY <1>2, <1>3
      <4> QED
        BY <1>1, <2>1, <3>1, <4>1, <4>2, OthersKeep
    <3>2. ClientOK(c)'
      <4>1. Serving(c)
        BY <1>0, <1>1 DEF Serving
      <4>2. c \in joined /\ Link(c)
        BY <2>4, <4>1 DEF LinksOK, ClientOK, Still
      <4>3. /\ H.init /\ H.need = {} /\ H.lastHeads = docs[Hub].deps
            /\ H.peerNeed \cap Held(Hub) = {}
        BY <1>7 DEF ShouldSend, HasNews, ToSend, Held
      <4>4. LinkOK(P, H, ToClient(c), ToHub(c), Serving(c)', Held(c), Held(Hub))
        BY <4>2, <4>3, HubSkips DEF Link
      <4>5. Link(c)'
        BY <1>2, <1>3, <1>4, <2>1, <2>2, <4>4 DEF Link
      <4>6. Told(c)'
        BY <1>1, <2>1, <4>3 DEF Told
      <4> QED
        BY <1>1, <4>2, <4>5, <4>6 DEF ClientOK
    <3> QED
      BY <3>1, <3>2 DEF LinksOK
  <2> QED
    BY <2>3, <2>4
<1> QED
  BY <1>6, <1>7

\* An application that asks its bridge for a message and sends it.
LEMMA AnnounceKeeps ==
    ASSUME SyncIInv, SessionsOK, [Next]_vars, NEW c \in Clients, ClientAnnounce(c)
    PROVE  SessionsOK' /\ (LinksOK => LinksOK')
<1> DEFINE P == peer[<<c, Hub>>]
           H == peer[<<Hub, c>>]
<1>1. /\ c \in joined /\ peer' = [peer EXCEPT ![<<c, Hub>>] = AfterGenerate(docs[c], P)]
      /\ UNCHANGED <<docs, queue, joined, todo, again, frame, joins>>
  BY DEF ClientAnnounce, replicaVars, rounds
<1>2. PICK fp \in FalseAt(c) : wire' = [wire EXCEPT ![c] = Append(@, Message(docs[c], P, fp))]
  BY DEF ClientAnnounce
<1>3. /\ Hub \in Replicas /\ peer \in [Links -> States]
      /\ \A d \in Clients : /\ d # Hub /\ d \in Replicas
                            /\ <<d, Hub>> \in Links /\ <<Hub, d>> \in Links
      /\ wire = [d \in Clients |-> wire[d]] /\ IsSeq(wire[c])
      /\ P \in States /\ Held(c) \in SUBSET Hash /\ docs[c].deps \in SUBSET Held(c)
      /\ BloomFalse \subseteq Hash
  BY Session, CrdtSyncAssumption DEF SessionsOK
<1>4. \A r \in Replicas : Held(r)' = Held(r)
  BY <1>1 DEF Held
<1>5. \A d \in Clients : ToClient(d)' = ToClient(d) /\ Serving(d)' = Serving(d)
  BY <1>1 DEF ToClient, FramesTo, InQueue, Serving
<1>6. PICK m, P2 : m = Message(docs[c], P, fp) /\ P2 = AfterGenerate(docs[c], P)
  OBVIOUS
<1>7. /\ P2 \in States /\ P2.need = P.need /\ P2.lastHeads = m.heads /\ m.need = P.need
      /\ Worded(m) /\ m.heads \subseteq Held(c)
  <2>1. fp \in SUBSET Hash /\ docs[c].deps \in SUBSET Hash /\ Hashes(docs[c]) \in SUBSET Hash
    BY <1>3 DEF FalseAt, Held
  <2> QED
    BY <1>3, <1>6, <2>1, GenerateNotes DEF Message
<1>8. /\ peer' \in [Links -> States] /\ peer'[<<c, Hub>>] = P2 /\ peer'[<<Hub, c>>] = H
      /\ \A d \in Clients : /\ peer'[<<Hub, d>>] = peer[<<Hub, d>>]
                            /\ d # c => peer'[<<d, Hub>>] = peer[<<d, Hub>>]
  BY <1>1, <1>3, <1>6, <1>7
<1>9. /\ ToHub(c)' = ToHub(c) \cup {m}
      /\ \A d \in Clients : d # c => ToHub(d)' = ToHub(d)
  <2>1. wire'[c] = Append(wire[c], m) /\ \A d \in Clients : d # c => wire'[d] = wire[d]
    BY <1>2, <1>3, <1>6
  <2>2. InQueue(Append(wire[c], m)) = InQueue(wire[c]) \cup {m}
    BY <1>3, QueueSets
  <2> QED
    BY <2>1, <2>2 DEF ToHub, InQueue
<1>10. SessionsOK'
  <2>1. MessagesOK(c)'
    <3>1. MessagesOK(c) /\ Held(c)' = Held(c) /\ Held(Hub)' = Held(Hub)
      BY <1>3, <1>4 DEF SessionsOK
    <3>2. ToClient(c)' \subseteq ToClient(c) /\ ToHub(c)' \subseteq ToHub(c) \cup {m}
      BY <1>5, <1>9
    <3> QED
      BY <1>7, <3>1, <3>2, MessageToHub
  <2>2. \A d \in Clients : d # c => MessagesOK(d)'
    BY <1>3, <1>4, <1>5, <1>9, MessagesStay DEF SessionsOK
  <2> QED
    BY <1>1, <1>8, <2>1, <2>2 DEF SessionsOK
<1>11. ASSUME LinksOK PROVE LinksOK'
  <2>1. ASSUME NEW d \in Clients, d # c PROVE ClientOK(d)'
    <3>1. ClientOK(d) /\ ToHub(d)' = ToHub(d)
      BY <1>9, <1>11, <2>1 DEF LinksOK
    <3>2. Held(d)' = Held(d) /\ Held(Hub)' = Held(Hub)
      BY <1>3, <1>4
    <3> QED
      BY <1>1, <1>5, <1>8, <2>1, <3>1, <3>2, OthersKeep
  <2>2. ClientOK(c)'
    <3>1. Told(c) /\ Link(c)
      BY <1>1, <1>11 DEF LinksOK, ClientOK
    <3>2. LinkOK(P2, H, ToClient(c), ToHub(c) \cup {m}, Serving(c), Held(c), Held(Hub))
      BY <1>7, <3>1, ClientSends DEF Link
    <3>3. Link(c)'
      BY <1>3, <1>4, <1>5, <1>8, <1>9, <3>2 DEF Link
    <3>4. Told(c)'
      BY <1>1, <1>5, <1>8, <3>1 DEF Told
    <3> QED
      BY <1>1, <3>3, <3>4 DEF ClientOK
  <2> QED
    BY <2>1, <2>2 DEF LinksOK
<1> QED
  BY <1>10, <1>11

\* handleBinaryMessage.
LEMMA HubReceiveKeeps ==
    ASSUME SyncIInv, SessionsOK, [Next]_vars, NEW c \in Clients, HubReceive(c)
    PROVE  SessionsOK' /\ (MayWrite = Clients /\ LinksOK => LinksOK')
<1> DEFINE P == peer[<<c, Hub>>]
           H == peer[<<Hub, c>>]
<1>1. /\ c \in joined /\ wire[c] # << >> /\ Idle(c) /\ wire' = [wire EXCEPT ![c] = Tail(@)]
      /\ UNCHANGED <<queue, joined, frame, joins>>
  BY DEF HubReceive
<1>2. /\ Hub \in Replicas /\ peer \in [Links -> States] /\ docs \in [Replicas -> Replica]
      /\ AllOK(docs) /\ CountsBound(docs)
      /\ \A d \in Clients : /\ d # Hub /\ d \in Replicas
                            /\ <<d, Hub>> \in Links /\ <<Hub, d>> \in Links
      /\ wire = [d \in Clients |-> wire[d]] /\ IsSeq(wire[c])
      /\ H \in States /\ joined \subseteq Clients
      /\ todo \in [Replicas -> SUBSET Clients] /\ again \in [Replicas -> BOOLEAN]
  BY Session DEF SessionsOK
<1>3. \A r \in Replicas : Held(r) \subseteq Held(r)'
  BY HeldGrows DEF Held
<1>4. \A d \in Clients : ToClient(d)' = ToClient(d)
  BY <1>1 DEF ToClient, FramesTo, InQueue
<1>5. PICK m : m = Head(wire[c])
  OBVIOUS
<1>6. /\ ToHub(c) = ToHub(c)' \cup {m}
      /\ \A d \in Clients : d # c => ToHub(d)' = ToHub(d)
  <2>1. wire'[c] = Tail(wire[c]) /\ \A d \in Clients : d # c => wire'[d] = wire[d]
    BY <1>1, <1>2
  <2>2. InQueue(wire[c]) = InQueue(Tail(wire[c])) \cup {m}
    BY <1>1, <1>2, <1>5, QueueSets
  <2> QED
    BY <2>1, <2>2 DEF ToHub, InQueue
<1>7. Worded(m) /\ m.heads \subseteq Held(c)
  BY <1>6 DEF SessionsOK, MessagesOK
<1>8. \A d \in Clients : MessagesOK(d)'
  BY <1>2, <1>3, <1>4, <1>6, MessagesStay DEF SessionsOK
<1>9. CASE c \notin MayWrite
  <2>1. UNCHANGED <<docs, peer, again, todo>>
    BY <1>9 DEF HubReceive
  <2> QED
    BY <1>1, <1>8, <1>9, <2>1 DEF SessionsOK
<1>10. CASE c \in MayWrite
  <2>1. PICK got : got = ReceiveSyncMessage(docs[Hub], H, m)
    OBVIOUS
  <2>2. /\ docs' = [docs EXCEPT ![Hub] = got.d] /\ peer' = [peer EXCEPT ![<<Hub, c>>] = got.s]
        /\ again' = [again EXCEPT ![c] = got.d # docs[Hub]]
        /\ todo' = [todo EXCEPT ![c] = joined]
    BY <1>5, <1>10, <2>1 DEF HubReceive
  <2>3. FromLog(m, docs[c])
    BY <1>1, <1>5, QueueShrinks DEF SyncIInv, FramesOK
  <2>4. /\ got.s \in States
        /\ Notes(H, got.s, m, Hashes(got.d), Hashes(docs[c]))
    BY <1>2, <1>7, <2>1, <2>3, ReceiveNotes DEF Held
  <2>5. /\ peer' \in [Links -> States] /\ peer'[<<Hub, c>>] = got.s /\ peer'[<<c, Hub>>] = P
        /\ \A d \in Clients : /\ peer'[<<d, Hub>>] = peer[<<d, Hub>>]
                              /\ d # c => peer'[<<Hub, d>>] = peer[<<Hub, d>>]
    BY <1>2, <2>2, <2>4
  <2>6. /\ todo' \in [Replicas -> SUBSET Clients] /\ again' \in [Replicas -> BOOLEAN]
        /\ \A d \in joined : Serving(d)'
        /\ \A d \in Clients : /\ Serving(d) => Serving(d)'
                              /\ Serving(d)' => Serving(d) \/ d \in joined
    <3>1. todo[c] = {}
      BY <1>1 DEF Idle
    <3>2. todo'[c] = joined /\ \A g \in Replicas : g # c => todo'[g] = todo[g]
      BY <1>2, <2>2
    <3>3. /\ \A d \in joined : Serving(d)'
          /\ \A d \in Clients : /\ Serving(d) => Serving(d)'
                                /\ Serving(d)' => Serving(d) \/ d \in joined
      BY <1>2, <3>1, <3>2 DEF Serving
    <3> QED
      BY <1>2, <2>2, <3>3
  <2>7. SessionsOK'
    BY <1>1, <1>8, <2>5, <2>6 DEF SessionsOK
  <2>8. ASSUME LinksOK PROVE LinksOK'
    <3>1. ASSUME NEW d \in Clients, d # c PROVE ClientOK(d)'
      <4>1. ClientOK(d) /\ ToHub(d)' = ToHub(d) /\ ToClient(d)' = ToClient(d)
        BY <1>4, <1>6, <2>8, <3>1 DEF LinksOK
      <4>2. Held(d) \subseteq Held(d)' /\ Held(Hub) \subseteq Held(Hub)'
        BY <1>2, <1>3
      <4>3. Serving(d)' \/ d \notin joined
        BY <2>6
      <4>4. Serving(d) => Serving(d)'
        BY <2>6
      <4>5. Serving(d)' => Serving(d) \/ d \in joined
        BY <2>6
      <4> QED
        BY <1>1, <2>5, <3>1, <4>1, <4>2, <4>3, <4>4, <4>5, OthersKeep
    <3>2. ClientOK(c)'
      <4>1. Link(c) /\ Serving(c)'
        BY <1>1, <2>6, <2>8 DEF LinksOK, ClientOK
      <4>2. Held(Hub)' = Hashes(got.d) /\ Held(c)' = Held(c) /\ Held(c) = Hashes(docs[c])
        BY <1>2, <2>2 DEF Held
      <4>3. PICK up, D2 : up = ToHub(c)' /\ D2 = Held(Hub)'
        OBVIOUS
      <4>4. LinkOK(P, got.s, ToClient(c), up, TRUE, Held(c), D2)
        <5>1. Held(Hub) \subseteq D2 /\ ToHub(c) = up \cup {m}
          BY <1>2, <1>3, <1>6, <4>3
        <5>2. Notes(H, got.s, m, D2, Held(c))
          BY <2>4, <4>2, <4>3
        <5> QED
          BY <4>1, <5>1, <5>2, HubTakes DEF Link
      <4>5. Link(c)'
        BY <1>4, <2>5, <4>1, <4>2, <4>3, <4>4 DEF Link
      <4>6. Told(c)'
        BY <4>1 DEF Told
      <4> QED
        BY <1>1, <4>5, <4>6 DEF ClientOK
    <3> QED
      BY <3>1, <3>2 DEF LinksOK
  <2> QED
    BY <2>7, <2>8
<1> QED
  BY <1>9, <1>10

\* CRDTBridge.Sync.
LEMMA ClientSyncKeeps ==
    ASSUME SyncIInv, SessionsOK, [Next]_vars, NEW c \in Clients, ClientSync(c)
    PROVE  SessionsOK' /\ (LinksOK => LinksOK')
<1> DEFINE P == peer[<<c, Hub>>]
           H == peer[<<Hub, c>>]
<1>1. /\ queue[c] # << >> /\ queue' = [queue EXCEPT ![c] = Tail(@)]
      /\ UNCHANGED <<joined, todo, again, frame, joins>>
  BY DEF ClientSync, rounds
<1>2. /\ Hub \in Replicas /\ peer \in [Links -> States] /\ docs \in [Replicas -> Replica]
      /\ AllOK(docs) /\ CountsBound(docs)
      /\ \A d \in Clients : /\ d # Hub /\ d \in Replicas
                            /\ <<d, Hub>> \in Links /\ <<Hub, d>> \in Links
      /\ queue = [d \in Clients |-> queue[d]] /\ wire = [d \in Clients |-> wire[d]]
      /\ \A d \in Clients : IsSeq(queue[d]) /\ IsSeq(wire[d])
      /\ P \in States /\ BloomFalse \subseteq Hash /\ QueueCap \in Nat
  BY Session, CrdtSyncAssumption DEF SessionsOK
<1>3. \A r \in Replicas : Held(r) \subseteq Held(r)'
  BY HeldGrows DEF Held
<1>4. \A d \in Clients : Serving(d)' = Serving(d)
  BY <1>1 DEF Serving
<1>5. PICK m : m = Head(queue[c])
  OBVIOUS
<1>6. /\ ToClient(c) = ToClient(c)' \cup {m}
      /\ \A d \in Clients : d # c => ToClient(d)' = ToClient(d)
      /\ \A d \in Clients : Len(queue'[d]) <= QueueCap
  <2>1. queue'[c] = Tail(queue[c]) /\ \A d \in Clients : d # c => queue'[d] = queue[d]
    BY <1>1, <1>2
  <2>2. /\ InQueue(queue[c]) = InQueue(Tail(queue[c])) \cup {m}
        /\ Len(Tail(queue[c])) = Len(queue[c]) - 1 /\ Len(queue[c]) \in Nat
    BY <1>1, <1>2, <1>5, QueueSets
  <2>3. \A d \in Clients : FramesTo(d)' = FramesTo(d)
    BY <1>1 DEF FramesTo
  <2>4. \A d \in Clients : Len(queue[d]) <= QueueCap
    BY DEF SessionsOK
  <2>5. Len(queue'[c]) <= QueueCap
    BY <1>2, <2>1, <2>2, <2>4
  <2>6. \A d \in Clients : Len(queue'[d]) <= QueueCap
    BY <2>1, <2>4, <2>5
  <2> QED
    BY <2>1, <2>2, <2>3, <2>6 DEF ToClient, InQueue
<1>7. Worded(m) /\ m.heads \subseteq Held(Hub)
  BY <1>6 DEF SessionsOK, MessagesOK
<1>8. PICK got : got = ReceiveSyncMessage(docs[c], P, m)
  OBVIOUS
<1>9. docs' = [docs EXCEPT ![c] = got.d]
  BY <1>5, <1>8 DEF ClientSync
<1>10. FromLog(m, docs[Hub])
  BY <1>1, <1>5, QueueShrinks DEF SyncIInv, FramesOK
<1>11. /\ got.s \in States
       /\ Hashes(got.d) \in SUBSET Hash /\ got.d.deps \in SUBSET Hashes(got.d)
       /\ Notes(P, got.s, m, Hashes(got.d), Hashes(docs[Hub]))
  BY <1>2, <1>7, <1>8, <1>10, ReceiveNotes DEF Held
<1>12. /\ Held(c)' = Hashes(got.d) /\ Held(Hub)' = Held(Hub) /\ Held(Hub) = Hashes(docs[Hub])
       /\ docs'[Hub] = docs[Hub]
  BY <1>2, <1>9 DEF Held
<1>13. PICK down, C2 : down = ToClient(c)' /\ C2 = Held(c)'
  OBVIOUS
<1>14. /\ ToClient(c) = down \cup {m} /\ Held(c) \subseteq C2
       /\ Notes(P, got.s, m, C2, Held(Hub))
  BY <1>2, <1>3, <1>6, <1>11, <1>12, <1>13
<1>15. CASE ShouldSend(got.d, got.s)
  <2>1. PICK fp \in SUBSET (BloomFalse \ Hashes(got.d)) :
           wire' = [wire EXCEPT ![c] = Append(@, Message(got.d, got.s, fp))]
    BY <1>5, <1>8, <1>15 DEF ClientSync
  <2>2. peer' = [peer EXCEPT ![<<c, Hub>>] = AfterGenerate(got.d, got.s)]
    BY <1>5, <1>8, <1>15 DEF ClientSync
  <2>3. PICK n, P2 : n = Message(got.d, got.s, fp) /\ P2 = AfterGenerate(got.d, got.s)
    OBVIOUS
  <2>4. /\ P2 \in States /\ P2.need = got.s.need /\ P2.lastHeads = n.heads
        /\ n.need = got.s.need /\ Worded(n) /\ n.heads \subseteq C2
    <3>1. fp \in SUBSET Hash /\ got.d.deps \in SUBSET Hash
      BY <1>2, <1>11
    <3> QED
      BY <1>11, <1>12, <1>13, <2>3, <3>1, GenerateNotes DEF Message
  <2>5. /\ peer' \in [Links -> States] /\ peer'[<<c, Hub>>] = P2 /\ peer'[<<Hub, c>>] = H
        /\ \A d \in Clients : /\ peer'[<<Hub, d>>] = peer[<<Hub, d>>]
                              /\ d # c => peer'[<<d, Hub>>] = peer[<<d, Hub>>]
    BY <1>2, <2>2, <2>3, <2>4
  <2>6. /\ ToHub(c)' = ToHub(c) \cup {n}
        /\ \A d \in Clients : d # c => ToHub(d)' = ToHub(d)
    <3>1. wire'[c] = Append(wire[c], n) /\ \A d \in Clients : d # c => wire'[d] = wire[d]
      BY <1>2, <2>1, <2>3
    <3>2. InQueue(Append(wire[c], n)) = InQueue(wire[c]) \cup {n}
      BY <1>2, QueueSets
    <3> QED
      BY <3>1, <3>2 DEF ToHub, InQueue
  <2>7. SessionsOK'
    <3>1. MessagesOK(c)'
      <4>1. /\ MessagesOK(c) /\ Held(c) \subseteq Held(c)' /\ Held(Hub) \subseteq Held(Hub)'
            /\ ToClient(c)' \subseteq ToClient(c)
            /\ ToHub(c)' \subseteq ToHub(c) \cup {n}
        BY <1>2, <1>3, <1>6, <2>6 DEF SessionsOK
      <4> QED
        BY <1>13, <2>4, <4>1, MessageToHub
    <3>2. \A d \in Clients : d # c => MessagesOK(d)'
      BY <1>2, <1>3, <1>6, <2>6, MessagesStay DEF SessionsOK
    <3> QED
      BY <1>1, <1>6, <2>5, <3>1, <3>2 DEF SessionsOK
  <2>8. ASSUME LinksOK PROVE LinksOK'
    <3>1. ASSUME NEW d \in Clients, d # c PROVE ClientOK(d)'
      <4>1. /\ ClientOK(d) /\ ToHub(d)' = ToHub(d) /\ ToClient(d)' = ToClient(d)
            /\ Serving(d)' = Serving(d)
        BY <1>4, <1>6, <2>6, <2>8, <3>1 DEF LinksOK
      <4>2. Held(d) \subseteq Held(d)' /\ Held(Hub) \subseteq Held(Hub)'
        BY <1>2, <1>3
      <4> QED
        BY <1>1, <1>12, <2>5, <3>1, <4>1, <4>2, OthersKeep
    <3>2. ClientOK(c)'
      <4>1. c \in joined /\ Told(c) /\ Link(c)
        BY <1>6, <2>8 DEF LinksOK, ClientOK, Still
      <4>2. LinkOK(P2, H, down, ToHub(c) \cup {n}, Serving(c), C2, Held(Hub))
        BY <1>14, <2>4, <4>1, ClientReplies DEF Link
      <4>3. Link(c)'
        BY <1>4, <1>12, <1>13, <2>5, <2>6, <4>2 DEF Link
      <4>4. Told(c)'
        BY <1>1, <1>4, <1>12, <2>5, <4>1 DEF Told
      <4> QED
        BY <1>1, <4>1, <4>3, <4>4 DEF ClientOK
    <3> QED
      BY <3>1, <3>2 DEF LinksOK
  <2> QED
    BY <2>7, <2>8
<1>16. CASE ~ShouldSend(got.d, got.s)
  <2>1. peer' = [peer EXCEPT ![<<c, Hub>>] = got.s] /\ wire' = wire
    BY <1>5, <1>8, <1>16 DEF ClientSync
  <2>2. /\ peer' \in [Links -> States] /\ peer'[<<c, Hub>>] = got.s /\ peer'[<<Hub, c>>] = H
        /\ \A d \in Clients : /\ peer'[<<Hub, d>>] = peer[<<Hub, d>>]
                              /\ d # c => peer'[<<d, Hub>>] = peer[<<d, Hub>>]
    BY <1>2, <1>11, <2>1
  <2>3. \A d \in Clients : ToHub(d)' = ToHub(d)
    BY <2>1 DEF ToHub
  <2>4. SessionsOK'
    <3>1. \A d \in Clients : MessagesOK(d)'
      <4>1. \A d \in Clients : ToClient(d)' \subseteq ToClient(d)
        BY <1>6
      <4> QED
        BY <1>2, <1>3, <2>3, <4>1, MessagesStay DEF SessionsOK
    <3> QED
      BY <1>1, <1>6, <2>2, <3>1 DEF SessionsOK
  <2>5. ASSUME LinksOK PROVE LinksOK'
    <3>1. ASSUME NEW d \in Clients, d # c PROVE ClientOK(d)'
      <4>1. /\ ClientOK(d) /\ ToHub(d)' = ToHub(d) /\ ToClient(d)' = ToClient(d)
            /\ Serving(d)' = Serving(d)
        BY <1>4, <1>6, <2>3, <2>5, <3>1 DEF LinksOK
      <4>2. Held(d) \subseteq Held(d)' /\ Held(Hub) \subseteq Held(Hub)'
        BY <1>2, <1>3
      <4> QED
        BY <1>1, <1>12, <2>2, <3>1, <4>1, <4>2, OthersKeep
    <3>2. ClientOK(c)'
      <4>1. c \in joined /\ Told(c) /\ Link(c)
        BY <1>6, <2>5 DEF LinksOK, ClientOK, Still
      <4>2. got.s.need = {} /\ got.s.peerNeed \cap C2 = {}
        BY <1>12, <1>13, <1>16 DEF ShouldSend, HasNews, ToSend
      <4>3. LinkOK(got.s, H, down, ToHub(c), Serving(c), C2, Held(Hub))
        BY <1>14, <4>1, <4>2, ClientKeepsQuiet DEF Link
      <4>4. Link(c)'
        BY <1>4, <1>12, <1>13, <2>2, <2>3, <4>3 DEF Link
      <4>5. Told(c)'
        BY <1>1, <1>4, <1>12, <2>2, <4>1 DEF Told
      <4> QED
        BY <1>1, <4>1, <4>4, <4>5 DEF ClientOK
    <3> QED
      BY <3>1, <3>2 DEF LinksOK
  <2> QED
    BY <2>4, <2>5
<1> QED
  BY <1>15, <1>16

\* A client connects.
LEMMA JoinKeeps ==
    ASSUME SyncIInv, SessionsOK, [Next]_vars, NEW c \in Clients, Join(c)
    PROVE  SessionsOK' /\ (LinksOK => LinksOK')
<1>1. /\ c \notin joined /\ joins[c] < MaxJoins /\ Idle(c) /\ joined' = joined \cup {c}
      /\ joins' = [joins EXCEPT ![c] = @ + 1]
      /\ peer' = [peer EXCEPT ![<<Hub, c>>] = NewState, ![<<c, Hub>>] = NewState]
      /\ todo' = [todo EXCEPT ![c] = {c}]
      /\ UNCHANGED <<docs, queue, wire, again, frame>>
  BY DEF Join, replicaVars, traffic
<1>2. /\ Hub \in Replicas /\ peer \in [Links -> States]
      /\ \A d \in Clients : /\ d # Hub /\ d \in Replicas
                            /\ <<d, Hub>> \in Links /\ <<Hub, d>> \in Links
      /\ todo \in [Replicas -> SUBSET Clients] /\ joins \in [Clients -> 0..MaxJoins]
      /\ MaxJoins \in Nat
  BY Session, CrdtSyncAssumption DEF SessionsOK
<1>3. \A r \in Replicas : Held(r)' = Held(r)
  BY <1>1 DEF Held
<1>4. \A d \in Clients : ToClient(d)' = ToClient(d) /\ ToHub(d)' = ToHub(d)
  BY <1>1 DEF ToClient, ToHub, FramesTo, InQueue
<1>5. NewState \in States
  BY DEF NewState, States
<1>6. /\ peer' \in [Links -> States]
      /\ peer'[<<Hub, c>>] = NewState /\ peer'[<<c, Hub>>] = NewState
      /\ \A d \in Clients : d # c => /\ peer'[<<Hub, d>>] = peer[<<Hub, d>>]
                                     /\ peer'[<<d, Hub>>] = peer[<<d, Hub>>]
  BY <1>1, <1>2, <1>5
<1>7. /\ todo' \in [Replicas -> SUBSET Clients] /\ Serving(c)'
      /\ \A d \in Clients : d # c => Serving(d)' = Serving(d)
  <2>1. todo[c] = {} /\ todo'[c] = {c} /\ \A g \in Replicas : g # c => todo'[g] = todo[g]
    BY <1>1, <1>2 DEF Idle
  <2>2. Serving(c)' /\ \A d \in Clients : d # c => Serving(d)' = Serving(d)
    BY <1>2, <2>1 DEF Serving
  <2> QED
    BY <1>1, <1>2, <2>2
<1>8. SessionsOK'
  <2>1. joins' \in [Clients -> 0..MaxJoins]
    <3>1. joins[c] + 1 \in 0..MaxJoins
      BY <1>1, <1>2
    <3> QED
      BY <1>1, <1>2, <3>1
  <2>2. \A d \in Clients : MessagesOK(d)'
    BY <1>2, <1>3, <1>4, MessagesStay DEF SessionsOK
  <2> QED
    BY <1>1, <1>6, <1>7, <2>1, <2>2 DEF SessionsOK
<1>9. ASSUME LinksOK PROVE LinksOK'
  <2>1. ASSUME NEW d \in Clients, d # c PROVE ClientOK(d)'
    <3>1. /\ ClientOK(d) /\ ToHub(d)' = ToHub(d) /\ ToClient(d)' = ToClient(d)
          /\ Serving(d)' = Serving(d)
      BY <1>4, <1>7, <1>9, <2>1 DEF LinksOK
    <3>2. Held(d)' = Held(d) /\ Held(Hub)' = Held(Hub)
      BY <1>2, <1>3
    <3>3. (d \in joined') = (d \in joined)
      BY <1>1, <2>1
    <3> QED
      BY <1>1, <1>6, <2>1, <3>1, <3>2, <3>3, OthersKeep
  <2>2. ClientOK(c)'
    <3>1. ToClient(c)' = {} /\ ToHub(c)' = {}
      BY <1>1, <1>4, <1>9 DEF LinksOK, ClientOK, Still
    <3>2. Link(c)'
      BY <1>6, <3>1, LinkBegins DEF Link
    <3>3. Told(c)' /\ c \in joined'
      BY <1>1, <1>7 DEF Told
    <3> QED
      BY <3>2, <3>3 DEF ClientOK
  <2> QED
    BY <2>1, <2>2 DEF LinksOK
<1> QED
  BY <1>8, <1>9

\* A connection ends.
LEMMA LeaveKeeps ==
    ASSUME SyncIInv, SessionsOK, [Next]_vars, NEW c \in Clients, Leave(c)
    PROVE  SessionsOK' /\ (LinksOK => LinksOK')
<1>1. /\ c \in joined /\ joined' = joined \ {c}
      /\ queue' = [queue EXCEPT ![c] = << >>] /\ wire' = [wire EXCEPT ![c] = << >>]
      /\ todo' = [g \in Replicas |-> todo[g] \ {c}]
      /\ frame' = [g \in Replicas |-> IF frame[g].to = c THEN NoFrame ELSE frame[g]]
      /\ UNCHANGED <<docs, peer, again, joins>>
  BY DEF Leave, replicaVars
<1>2. /\ Hub \in Replicas
      /\ \A d \in Clients : d # Hub /\ d \in Replicas
      /\ queue = [d \in Clients |-> queue[d]] /\ wire = [d \in Clients |-> wire[d]]
      /\ todo \in [Replicas -> SUBSET Clients] /\ NoFrame.to = Hub /\ QueueCap \in Nat
  BY Session, CrdtSyncAssumption DEF SessionsOK
<1>3. \A r \in Replicas : Held(r)' = Held(r)
  BY <1>1 DEF Held
<1>4. /\ queue'[c] = << >> /\ wire'[c] = << >>
      /\ \A d \in Clients : d # c => queue'[d] = queue[d] /\ wire'[d] = wire[d]
  BY <1>1, <1>2
<1>5. \A g \in Replicas : /\ frame'[g].to # c
                          /\ \A d \in Clients : d # c =>
                                /\ (frame'[g].to = d) = (frame[g].to = d)
                                /\ frame[g].to = d => frame'[g] = frame[g]
  BY <1>1, <1>2
<1>6. /\ ToClient(c)' = {} /\ ToHub(c)' = {}
      /\ \A d \in Clients : d # c => ToClient(d)' = ToClient(d) /\ ToHub(d)' = ToHub(d)
  <2>1. FramesTo(c)' = {}
    BY <1>5 DEF FramesTo
  <2>2. \A d \in Clients : d # c => FramesTo(d)' = FramesTo(d)
    BY <1>5 DEF FramesTo
  <2>3. InQueue(<< >>) = {}
    BY EmptyQueue
  <2> QED
    BY <1>4, <2>1, <2>2, <2>3 DEF ToClient, ToHub, InQueue
<1>7. /\ todo' \in [Replicas -> SUBSET Clients] /\ ~Serving(c)'
      /\ \A d \in Clients : d # c => Serving(d)' = Serving(d)
  BY <1>1, <1>2 DEF Serving
<1>8. SessionsOK'
  <2>1. \A d \in Clients : ToClient(d)' \subseteq ToClient(d) /\ ToHub(d)' \subseteq ToHub(d)
    BY <1>6
  <2>2. \A d \in Clients : MessagesOK(d)'
    BY <1>2, <1>3, <2>1, MessagesStay DEF SessionsOK
  <2>3. \A d \in Clients : Len(queue'[d]) <= QueueCap
    BY <1>2, <1>4, EmptyQueue DEF SessionsOK
  <2>4. \A g \in Replicas : frame'[g] = NoFrame \/ frame'[g].to \in Clients
    BY <1>1 DEF SessionsOK
  <2> QED
    BY <1>1, <1>7, <2>2, <2>3, <2>4 DEF SessionsOK
<1>9. ASSUME LinksOK PROVE LinksOK'
  <2>1. ASSUME NEW d \in Clients, d # c PROVE ClientOK(d)'
    <3>1. /\ ClientOK(d) /\ ToHub(d)' = ToHub(d) /\ ToClient(d)' = ToClient(d)
          /\ Serving(d)' = Serving(d)
      BY <1>6, <1>7, <1>9, <2>1 DEF LinksOK
    <3>2. Held(d)' = Held(d) /\ Held(Hub)' = Held(Hub)
      BY <1>2, <1>3
    <3>3. (d \in joined') = (d \in joined)
      BY <1>1, <2>1
    <3> QED
      BY <1>1, <3>1, <3>2, <3>3, OthersKeep
  <2>2. ClientOK(c)'
    BY <1>1, <1>6, <1>7 DEF ClientOK, Still
  <2> QED
    BY <2>1, <2>2 DEF LinksOK
<1> QED
  BY <1>8, <1>9

\* Every step.
LEMMA SessionStep ==
    ASSUME SyncIInv, SessionsOK, [Next]_vars
    PROVE  /\ SessionsOK'
           /\ MayWrite = Clients /\ RoomInQueues /\ LinksOK => LinksOK'
<1>1. CASE UNCHANGED vars
  <2>1. UNCHANGED <<docs, peer, queue, wire, frame, joined, joins, todo, again>>
    BY <1>1 DEF vars, replicaVars, traffic, rounds
  <2>2. \A c \in Clients : Serving(c)' = Serving(c)
    BY <2>1 DEF Serving
  <2> QED
    BY <2>1, <2>2, NothingSent DEF SessionsOK
<1>2. CASE \/ \E r \in Replicas : LocalEdit(r) \/ BroadcastAgain(r)
           \/ HubCommit \/ \E c \in Clients : ClientCommit(c)
  BY <1>2, QuietStep
<1>3. ASSUME NEW g \in Replicas, Enqueue(g)
      PROVE  SessionsOK' /\ (RoomInQueues /\ LinksOK => LinksOK')
  BY <1>3, EnqueueKeeps
<1>4. ASSUME NEW c \in Clients, NEW G \in Groups, Generate(G, c)
      PROVE  SessionsOK' /\ (LinksOK => LinksOK')
  BY <1>4, GenerateKeeps
<1>5. ASSUME NEW c \in Clients, ClientAnnounce(c) PROVE SessionsOK' /\ (LinksOK => LinksOK')
  BY <1>5, AnnounceKeeps
<1>6. ASSUME NEW c \in Clients, ClientSync(c) PROVE SessionsOK' /\ (LinksOK => LinksOK')
  BY <1>6, ClientSyncKeeps
<1>7. ASSUME NEW c \in Clients, HubReceive(c)
      PROVE  SessionsOK' /\ (MayWrite = Clients /\ LinksOK => LinksOK')
  BY <1>7, HubReceiveKeeps
<1>8. ASSUME NEW c \in Clients, Join(c) PROVE SessionsOK' /\ (LinksOK => LinksOK')
  BY <1>8, JoinKeeps
<1>9. ASSUME NEW c \in Clients, Leave(c) PROVE SessionsOK' /\ (LinksOK => LinksOK')
  BY <1>9, LeaveKeeps
<1> QED
  BY <1>1, <1>2, <1>3, <1>4, <1>5, <1>6, <1>7, <1>8, <1>9 DEF Next, HubStep

\* The first state: nobody is connected.
LEMMA SessionInit ==
    ASSUME Init
    PROVE  SessionsOK /\ LinksOK
<1>1. /\ peer = [l \in Links |-> NewState] /\ queue = [c \in Clients |-> << >>]
      /\ wire = [c \in Clients |-> << >>] /\ joined = {} /\ todo = [g \in Replicas |-> {}]
      /\ again = [g \in Replicas |-> FALSE] /\ frame = [g \in Replicas |-> NoFrame]
      /\ joins = [c \in Clients |-> 0]
  BY DEF Init
<1>2. Hub \notin Clients /\ NoFrame.to = Hub /\ QueueCap \in Nat /\ MaxJoins \in Nat
  BY CrdtSyncAssumption DEF Clients, NoFrame
<1>3. NewState \in States
  BY DEF NewState, States
<1>4. ASSUME NEW c \in Clients PROVE ToClient(c) = {} /\ ToHub(c) = {} /\ ~Serving(c)
  <2>1. FramesTo(c) = {}
    BY <1>1, <1>2 DEF FramesTo
  <2> QED
    BY <1>1, <2>1, EmptyQueue DEF ToClient, ToHub, Serving
<1>5. LinksOK
  BY <1>1, <1>4 DEF LinksOK, ClientOK, Still
<1>6. SessionsOK
  <2>1. \A c \in Clients : MessagesOK(c)
    BY <1>4 DEF MessagesOK
  <2>2. \A c \in Clients : Len(queue[c]) <= QueueCap
    BY <1>1, <1>2, EmptyQueue
  <2> QED
    BY <1>1, <1>2, <1>3, <2>1, <2>2 DEF SessionsOK
<1> QED
  BY <1>5, <1>6

\* A log is closed: it holds what its changes depend on.
LEMMA HeldClosed ==
    ASSUME NEW D, AllOK(D), NEW r \in Replicas
    PROVE  Closed(D, Hashes(D[r]))
<1>1. D[r] \in Replica /\ LogOK(D[r]) /\ Log(D[r]) \subseteq Known(D)
  BY DEF AllOK, LocalOK, Known
<1>2. SUFFICES ASSUME NEW c \in Known(D), c.hash \in Hashes(D[r])
               PROVE  c.deps \subseteq Hashes(D[r])
  BY DEF Closed
<1>3. PICK e \in Log(D[r]) : e.hash = c.hash
  BY <1>2 DEF Hashes, Log
<1>4. e = c
  BY <1>1, <1>3 DEF AllOK, NamesOK
<1> QED
  BY <1>1, <1>3, <1>4, LogClosed

\* Nothing under way, nothing missed.
LEMMA SilenceIsSync ==
    ASSUME SyncIInv, SessionsOK, LinksOK
    PROVE  SilentWhenSynced
<1> SUFFICES ASSUME NEW c \in Clients, Quiet(c)
             PROVE  /\ Held(Hub) \subseteq Held(c)
                    /\ ~HasNews(docs[c], peer[<<c, Hub>>]) => Held(c) \subseteq Held(Hub)
  BY DEF SilentWhenSynced
<1>0. AllOK(docs) /\ Hub \in Replicas /\ c \in Replicas
  BY Session
<1>1. ToClient(c) = {} /\ ToHub(c) = {} /\ ~Serving(c) /\ \A g \in Replicas : ~again[g]
  <2>1. FramesTo(c) = {} /\ ~Serving(c) /\ \A g \in Replicas : ~again[g]
    BY DEF Quiet, FramesTo, Serving
  <2> QED
    BY <2>1, EmptyQueue DEF Quiet, ToClient, ToHub
<1>2. Told(c) /\ Link(c)
  BY DEF LinksOK, ClientOK, Quiet
<1>3. HeadsIn({}) = {} /\ Asked({}) = {}
  BY DEF HeadsIn, Asked
<1>4. peer[<<Hub, c>>].lastHeads = docs[Hub].deps
  BY <1>1, <1>2 DEF Told
<1>5. docs[Hub].deps \subseteq Held(c)
  BY <1>1, <1>2, <1>3, <1>4 DEF Link, LinkOK
<1>6. peer[<<c, Hub>>].lastHeads \subseteq Held(Hub)
  BY <1>1, <1>2, <1>3 DEF Link, LinkOK
<1>7. Held(Hub) \subseteq Held(c)
  BY <1>0, <1>5, HeldClosed, HeadsCover DEF Held
<1>8. ASSUME ~HasNews(docs[c], peer[<<c, Hub>>]) PROVE Held(c) \subseteq Held(Hub)
  <2>1. docs[c].deps \subseteq Held(Hub)
    BY <1>6, <1>8 DEF HasNews
  <2> QED
    BY <1>0, <2>1, HeldClosed, HeadsCover DEF Held
<1> QED
  BY <1>7, <1>8

\* The sync states, queues and rounds are well-formed, whatever is dropped, refused or
\* reported by mistake.
LEMMA SessionsWellFormed == Spec => [](SyncIInv /\ SessionsOK)
<1>1. Init => SessionsOK
  BY SessionInit
<1>2. SyncIInv /\ SessionsOK /\ [Next]_vars => SessionsOK'
  BY SessionStep
<1> QED
  BY <1>1, <1>2, SyncInvariant, PTL DEF Spec

\* Every variable of a sync session keeps its type, for any number of clients, edits and
\* connections and any queue size.
LEMMA SyncTyped == SessionsOK /\ ReplicaTypeOK => TypeOK
BY DEF SessionsOK, TypeOK

\* Where every client may write and no frame is dropped, a connection falls silent only
\* in sync: nothing under way means that the client has every change of the hub, and the
\* hub every change of a client that has no news.  Whatever the order in which the hub's
\* goroutines queue what they generated, and whatever Bloom filters report by mistake.
THEOREM SilenceMeansSynced ==
    ASSUME MayWrite = Clients
    PROVE  Spec /\ []RoomInQueues => []SyncInv
<1>1. Init => LinksOK
  BY SessionInit
<1>2. SyncIInv /\ SessionsOK /\ RoomInQueues /\ LinksOK /\ [Next]_vars => LinksOK'
  BY SessionStep
<1>3. SyncIInv /\ SessionsOK /\ LinksOK /\ ReplicaTypeOK => SyncInv
  BY SilenceIsSync, SyncTyped DEF SyncInv
<1>4. Spec => []ReplicaTypeOK
  <2>1. ReplicaInv => ReplicaTypeOK
    BY DEF ReplicaInv
  <2> QED
    BY <2>1, SyncImplementsReplicas, ReplicasSafe, PTL DEF RefinesReplicas
<1> QED
  BY <1>1, <1>2, <1>3, <1>4, SessionsWellFormed, PTL DEF Spec
=============================================================================
