---------------------------- MODULE SignalProofs ----------------------------
(***************************************************************************)
(* Proofs about Signal: the subscription graph stays balanced with the calls *)
(* that are still to change it, whatever operations, refreshes, runs, stops  *)
(* and panics overlap.                                                       *)
(***************************************************************************)
EXTENDS Signal, FiniteSetTheorems, SequenceTheorems, WellFoundedInduction, TLAPS

JoinFold == INSTANCE FoldFacts WITH op <- Join
RecordFold == INSTANCE FoldFacts WITH op <- Record

\* What Computeds and Reading do in one step of their recursion.
AddComputed(among, who) == IF who \in Derived THEN Append(among, who) ELSE among

ReadNext(reads, f) ==
    LET s == Source(f.who, Vals(reads))
    IN IF s \in Nodes
       THEN Append(reads, [source |-> s, rev |-> 0, value |-> f.value[s]])
       ELSE reads

ComputedFold == INSTANCE FoldFacts WITH op <- AddComputed
ReadFold == INSTANCE FoldFacts WITH op <- ReadNext

-----------------------------------------------------------------------------
(* What calls are told apart by, and how many there are. *)

Subscribers == Derived \cup Effects \cup Watchers

\* Calls of an evaluation under way: a refresh, a Derive or an effect's run.
FrameOps == {"loop", "check", "compare", "track", "take", "recheck", "commit", "born"}

\* Calls that let a mutex go.
Releasing == {"recheck", "commit", "born", "unlock"}

\* Calls made inside a critical section, or that end one.
Busy == {"on", "off"} \cup Releasing

Tag(call) ==
    CASE call.op \in {"on", "off"} -> <<call.op, call.at, call.args>>
      [] call.op \in FrameOps -> <<"frame", call.at, None>>
      [] call.op = "share" -> <<"share", call.at, None>>
      [] call.op = "endBatch" -> <<"endBatch", None, None>>
      [] OTHER -> <<"other", None, None>>

On(n, who) == <<"on", n, who>>
Off(n, who) == <<"off", n, who>>
Frame(who) == <<"frame", who, None>>
Sharing(c) == <<"share", c, None>>
Ending == <<"endBatch", None, None>>

Count(s, x) == Cardinality({i \in DOMAIN s : s[i] = x})

TagPlaces(s, t) == {i \in DOMAIN s : Tag(s[i]) = t}

Num(s, t) == Cardinality(TagPlaces(s, t))

Places(st, t) == UNION {{<<g, i>> : i \in TagPlaces(st[g], t)} : g \in Goroutines}

Total(st, t) == Cardinality(Places(st, t))

IsSeq(q) == \E S : q \in Seq(S)

-----------------------------------------------------------------------------
(* The inductive invariant. *)

Dependency == [source : Nodes, rev : Nat]

NodeShape ==
    /\ node = [n \in Nodes |-> [value |-> node[n].value, rev |-> node[n].rev,
                                subs |-> node[n].subs]]
    /\ \A n \in Nodes : node[n].rev \in Nat /\ node[n].subs \in Seq(Subscribers)

CompRecord ==
    [dirty : BOOLEAN, refreshing : BOOLEAN, stopped : BOOLEAN, mu : Goroutines \cup {None},
     stage : {"new", "deriving", "live"}, deps : Seq(Dependency)]

CompShape == comp \in [Derived -> CompRecord]

EffectRecord ==
    [dead : BOOLEAN, mu : Goroutines \cup {None}, unsubs : Seq(Nodes), read : Seq(Nodes)]

EffectShape == effect \in [Effects -> EffectRecord]

BatchShape ==
    /\ batch = [depth |-> batch.depth, queue |-> batch.queue]
    /\ batch.queue \in Seq(Subscribers)
    /\ batch.depth = Total(stack, Ending)

StackShape ==
    /\ stack = [g \in Goroutines |-> stack[g]]
    /\ \A g \in Goroutines : IsSeq(stack[g])

ReadsOK(reads) ==
    /\ IsSeq(reads)
    /\ \A i \in DOMAIN reads : reads[i].source \in Nodes /\ reads[i].rev \in Nat

\* The calls there are, and what they carry.
CallOK(call) ==
    /\ call.op \in {"on", "off", "invalidate", "invalidateSubscribers", "onDepChange", "wake",
                    "refresh", "loop", "check", "compare", "track", "take", "recheck", "commit",
                    "born", "share", "batchNotify", "endBatch", "endSet", "callback", "look",
                    "run", "unlock"}
    /\ call.op = "on" => call.at \in Nodes /\ call.args \in Subscribers
    /\ call.op = "off" => call.at \in Nodes /\ call.args \in Derived \cup Effects
    /\ call.op \in {"invalidate", "invalidateSubscribers", "onDepChange", "wake", "refresh",
                    "loop", "check", "compare", "recheck", "commit", "born", "share"}
         => call.at \in Derived
    /\ call.op \in {"track", "take"} => call.at \in Derived \cup Effects /\ ReadsOK(call.args)
    /\ call.op = "take" => Source(call.at, Vals(call.args)) \in Nodes
    /\ call.op = "batchNotify" => call.args \in Seq(Subscribers)
    /\ call.op \in {"run", "unlock"} => call.at \in Effects
    /\ call.op \in {"callback", "look"} => call.at \in Watchers

CallsOK == \A g \in Goroutines : \A i \in DOMAIN stack[g] : CallOK(stack[g][i])

\* In a stack, only subscriptions and their removals come before the calls of a
\* critical section; a subscription is followed by the call that lets the
\* mutex of its subscriber go; and only the ends of Batches follow one.
Nested(s) ==
    /\ \A i \in DOMAIN s : s[i].op \in Busy
         => \A j \in DOMAIN s : j < i => s[j].op \in {"on", "off"}
    /\ \A i \in DOMAIN s : s[i].op = "on" /\ s[i].args \notin Watchers
         => \E j \in DOMAIN s : j > i /\ s[j].op \in Releasing /\ s[j].at = s[i].args
    /\ \A i \in DOMAIN s : s[i].op = "endBatch"
         => \A j \in DOMAIN s : j > i => s[j].op = "endBatch"

StacksNested == \A g \in Goroutines : Nested(stack[g])

Mu(who) == IF who \in Derived THEN comp[who].mu ELSE effect[who].mu

\* A derived value is refreshing from the start to the commit of a refresh, and
\* a mutex is held by the goroutine that will let it go.
CallFits(g, call) ==
    /\ call.op \in Releasing => Mu(call.at) = g
    /\ call.op \in {"loop", "check", "compare", "recheck", "commit"} => comp[call.at].refreshing
    /\ call.op = "born" => ~comp[call.at].refreshing

CallsFit == \A g \in Goroutines : \A i \in DOMAIN stack[g] : CallFits(g, stack[g][i])

\* The derived value is computed for the first time, and was not shared.
Unborn(c) == comp[c].stage = "deriving" /\ Total(stack, Sharing(c)) = 0

\* A derived value has one evaluation under way when it is refreshing or made
\* for the first time, and none otherwise.
OneFrame(c) ==
    /\ Total(stack, Frame(c)) = IF comp[c].refreshing \/ Unborn(c) THEN 1 ELSE 0
    /\ Total(stack, Sharing(c)) \in 0..1
    /\ comp[c].stage # "deriving" => Total(stack, Sharing(c)) = 0

\* What was not shared yet is neither dirty nor stopped.
Fresh(c) ==
    /\ comp[c].stage = "new" \/ Unborn(c)
         => ~comp[c].dirty /\ ~comp[c].refreshing /\ ~comp[c].stopped
    /\ comp[c].stage = "new" => comp[c].mu = None

\* The derived value has not subscribed to anything yet.
Unsubscribed(c) == comp[c].mu = None /\ (comp[c].stage = "new" \/ Unborn(c))

Notifies(call, c) ==
    \/ call.op \in {"invalidate", "onDepChange"} /\ call.at = c
    \/ call.op = "batchNotify" /\ c \in Range(call.args)

\* Nobody knows a derived value that has not subscribed to anything.
Quiet(c) == Unsubscribed(c) =>
    /\ comp[c].deps = <<>>
    /\ \A n \in Nodes : c \notin Range(node[n].subs)
    /\ c \notin Range(batch.queue)
    /\ \A g \in Goroutines : \A i \in DOMAIN stack[g] : ~Notifies(stack[g][i], c)

\* What is stopped keeps nothing.
ValueOK(c) ==
    OneFrame(c) /\ Fresh(c) /\ Quiet(c) /\ (comp[c].stopped => comp[c].deps = <<>>)

\* A disposed effect keeps nothing; another one keeps what its last run read,
\* or runs again.
EffectOK(e) ==
    /\ effect[e].dead => effect[e].unsubs = <<>>
    /\ panics = 0 /\ ~effect[e].dead
         => \/ Range(effect[e].read) \subseteq Range(effect[e].unsubs)
            \/ Total(stack, Frame(e)) > 0

Kept(who) == IF who \in Derived THEN SourcesOf(comp[who].deps) ELSE effect[who].unsubs

\* The subscriptions of a value or an effect, with the calls still to make and
\* to remove some, are those it keeps for its next stop or run.
Balanced(who) == \A n \in Nodes :
    /\ Count(node[n].subs, who) + Total(stack, On(n, who))
         = Count(Kept(who), n) + Total(stack, Off(n, who))
    /\ Total(stack, On(n, who)) <= Count(Kept(who), n)

Types == NodeShape /\ CompShape /\ EffectShape /\ BatchShape /\ StackShape /\ CallsOK
           /\ panics \in Nat

IInv == /\ Types /\ StacksNested /\ CallsFit
        /\ \A c \in Derived : ValueOK(c)
        /\ \A e \in Effects : EffectOK(e)
        /\ \A who \in Derived \cup Effects : Balanced(who)

-----------------------------------------------------------------------------
(* Counting in sequences.                                                   *)

\* A holds places of a sequence of length m.
Within(A, m) == A \subseteq 1..m

\* The places B, moved by m.
Moved(B, m) == {i + m : i \in B}

\* A set of natural numbers and another one moved past it are counted apart.
LEMMA CountApart ==
  ASSUME NEW m \in Nat, NEW n \in Nat, NEW A, NEW B, Within(A, m), Within(B, n)
  PROVE  /\ Cardinality(A) \in Nat /\ Cardinality(B) \in Nat
         /\ Cardinality(A \cup Moved(B, m)) = Cardinality(A) + Cardinality(B)
<1> DEFINE M == Moved(B, m)
           f == [i \in B |-> i + m]
<1>0. A \subseteq 1..m /\ B \subseteq 1..n
  BY DEF Within
<1>1. IsFiniteSet(A) /\ IsFiniteSet(B) /\ Cardinality(A) \in Nat /\ Cardinality(B) \in Nat
  <2>1. IsFiniteSet(1..m) /\ IsFiniteSet(1..n)
    BY FS_Interval
  <2>2. IsFiniteSet(A) /\ IsFiniteSet(B)
    BY <1>0, <2>1, FS_Subset
  <2> QED
    BY <2>2, FS_CardinalityType
<1>2. f \in Bijection(B, M)
  <2> USE DEF Moved
  <2>1. f \in [B -> M] /\ \A y \in M : \E x \in B : f[x] = y
    OBVIOUS
  <2>2. \A x, y \in B : x \in Nat /\ y \in Nat
    BY <1>0
  <2>3. \A x, y \in B : f[x] = f[y] => x = y
    BY <2>2
  <2> HIDE DEF f, M
  <2> QED
    BY <2>1, <2>3 DEF Bijection, Injection, Surjection, IsInjective
<1>3. ExistsBijection(B, M)
  BY <1>2 DEF ExistsBijection
<1>4. IsFiniteSet(M) /\ Cardinality(M) = Cardinality(B)
  <2> HIDE DEF M
  <2> QED
    BY <1>1, <1>3, FS_Bijection
<1>5. A \cap M = {}
  BY <1>0 DEF Moved
<1>6. Cardinality({}) = 0
  BY FS_EmptySet
<1>7. Cardinality(A \cup M) = Cardinality(A) + Cardinality(M) - Cardinality(A \cap M)
  <2> HIDE DEF M
  <2> QED
    BY <1>1, <1>4, FS_Union
<1> HIDE DEF M
<1>8. Cardinality(A \cup M) = Cardinality(A) + Cardinality(B)
  <2>1. Cardinality(A \cap M) = 0
    BY <1>5, <1>6
  <2> QED
    BY <1>1, <1>4, <1>7, <2>1
<1> QED
  BY <1>1, <1>8 DEF M

\* Sequences and their concatenation.
LEMMA CatSeq ==
  ASSUME NEW a, NEW b, IsSeq(a), IsSeq(b)
  PROVE  /\ IsSeq(a \o b)
         /\ Len(a) \in Nat /\ Len(b) \in Nat /\ Len(a \o b) = Len(a) + Len(b)
         /\ DOMAIN a = 1..Len(a) /\ DOMAIN b = 1..Len(b)
         /\ DOMAIN (a \o b) = 1..(Len(a) + Len(b))
         /\ \A i \in 1..Len(a) : (a \o b)[i] = a[i]
         /\ \A i \in 1..Len(b) : (a \o b)[i + Len(a)] = b[i]
         /\ \A i \in DOMAIN (a \o b) :
              \/ i \in 1..Len(a) /\ (a \o b)[i] = a[i]
              \/ i - Len(a) \in 1..Len(b) /\ (a \o b)[i] = b[i - Len(a)]
<1>1. PICK S : a \in Seq(S)
  BY DEF IsSeq
<1>2. PICK T : b \in Seq(T)
  BY DEF IsSeq
<1> DEFINE U == S \cup T
<1>3. a \in Seq(U) /\ b \in Seq(U)
  BY <1>1, <1>2, SeqMonotonic
<1> HIDE DEF U
<1>4. /\ a \o b \in Seq(U) /\ Len(a \o b) = Len(a) + Len(b)
      /\ \A i \in 1..(Len(a) + Len(b)) : (a \o b)[i] =
            IF i <= Len(a) THEN a[i] ELSE b[i - Len(a)]
  BY <1>3, ConcatProperties
<1>5. /\ Len(a) \in Nat /\ Len(b) \in Nat /\ DOMAIN a = 1..Len(a) /\ DOMAIN b = 1..Len(b)
      /\ DOMAIN (a \o b) = 1..Len(a \o b)
  BY <1>3, <1>4, LenProperties
<1> QED
  BY <1>4, <1>5 DEF IsSeq

\* A sequence has a length, its places are numbered from 1, and only the empty one has none.
LEMMA SeqFacts ==
  ASSUME NEW a, IsSeq(a)
  PROVE  /\ Len(a) \in Nat /\ DOMAIN a = 1..Len(a)
         /\ a # <<>> => Len(a) # 0
         /\ Len(a) = 0 => a = <<>>
<1>1. PICK S : a \in Seq(S)
  BY DEF IsSeq
<1> QED
  BY <1>1, LenProperties, EmptySeq

\* Taking the first element off.
LEMMA TailSeq ==
  ASSUME NEW a, IsSeq(a), a # <<>>
  PROVE  /\ IsSeq(Tail(a)) /\ Len(a) \in Nat \ {0} /\ DOMAIN a = 1..Len(a)
         /\ Len(Tail(a)) = Len(a) - 1 /\ DOMAIN Tail(a) = 1..(Len(a) - 1)
         /\ \A i \in 1..(Len(a) - 1) : Tail(a)[i] = a[i + 1]
         /\ Head(a) = a[1]
<1>1. PICK S : a \in Seq(S)
  BY DEF IsSeq
<1>2. /\ Tail(a) \in Seq(S) /\ Len(Tail(a)) = Len(a) - 1
      /\ \A i \in 1..Len(Tail(a)) : Tail(a)[i] = a[i + 1]
  BY <1>1, HeadTailProperties
<1>3. DOMAIN Tail(a) = 1..Len(Tail(a)) /\ DOMAIN a = 1..Len(a) /\ Len(a) \in Nat \ {0}
  BY <1>1, <1>2, LenProperties, EmptySeq
<1>4. Head(a) = a[1]
  BY <1>1
<1> QED
  BY <1>2, <1>3, <1>4 DEF IsSeq

\* What is empty, and what has one or two elements.
LEMMA ShortSeqs ==
  /\ IsSeq(<<>>) /\ Len(<<>>) = 0 /\ DOMAIN <<>> = {}
  /\ \A x : /\ IsSeq(<<x>>) /\ Len(<<x>>) = 1 /\ DOMAIN <<x>> = 1..1 /\ <<x>>[1] = x
<1>1. IsSeq(<<>>) /\ Len(<<>>) = 0 /\ DOMAIN <<>> = {}
  BY EmptySeq, LenProperties DEF IsSeq
<1>2. ASSUME NEW x
      PROVE  IsSeq(<<x>>) /\ Len(<<x>>) = 1 /\ DOMAIN <<x>> = 1..1 /\ <<x>>[1] = x
  <2>1. <<x>> \in Seq({x}) /\ Len(<<x>>) = 1 /\ <<x>>[1] = x /\ DOMAIN <<x>> = 1..1
    OBVIOUS
  <2> QED
    BY <2>1 DEF IsSeq
<1> QED
  BY <1>1, <1>2

\* Calls with a tag, in the parts of a stack.
LEMMA NumCat ==
  ASSUME NEW a, NEW b, IsSeq(a), IsSeq(b), NEW t
  PROVE  /\ Num(a, t) \in Nat /\ Num(b, t) \in Nat
         /\ Num(a \o b, t) = Num(a, t) + Num(b, t)
<1> DEFINE m == Len(a)
           n == Len(b)
           A == TagPlaces(a, t)
           B == TagPlaces(b, t)
           C == A \cup Moved(B, m)
<1>1. m \in Nat /\ n \in Nat /\ A \subseteq 1..m /\ B \subseteq 1..n
  BY CatSeq DEF TagPlaces
<1>2. TagPlaces(a \o b, t) = C
  <2>1. ASSUME NEW i \in TagPlaces(a \o b, t) PROVE i \in C
    <3>1. i \in DOMAIN (a \o b) /\ Tag((a \o b)[i]) = t
      BY DEF TagPlaces
    <3>2. CASE i \in 1..m /\ (a \o b)[i] = a[i]
      BY <3>1, <3>2, CatSeq DEF TagPlaces
    <3>3. CASE i - m \in 1..n /\ (a \o b)[i] = b[i - m]
      <4>1. i - m \in B
        BY <3>1, <3>3, CatSeq DEF TagPlaces
      <4>2. i \in Int /\ i = (i - m) + m
        BY <1>1, <3>1, CatSeq
      <4> QED
        BY <4>1, <4>2 DEF Moved
    <3> QED
      BY <3>1, <3>2, <3>3, CatSeq
  <2>2. ASSUME NEW i \in A PROVE i \in TagPlaces(a \o b, t)
    <3>1. i \in 1..m /\ Tag(a[i]) = t /\ (a \o b)[i] = a[i]
      BY CatSeq DEF TagPlaces
    <3>2. i \in DOMAIN (a \o b)
      BY <1>1, <3>1, CatSeq
    <3> QED
      BY <3>1, <3>2 DEF TagPlaces
  <2>3. ASSUME NEW i \in B PROVE i + m \in TagPlaces(a \o b, t)
    <3>1. i \in 1..n /\ Tag(b[i]) = t /\ (a \o b)[i + m] = b[i]
      BY CatSeq DEF TagPlaces
    <3>2. i + m \in DOMAIN (a \o b)
      BY <1>1, <3>1, CatSeq
    <3> QED
      BY <3>1, <3>2 DEF TagPlaces
  <2> HIDE DEF A, B
  <2> QED
    BY <2>1, <2>2, <2>3 DEF Moved
<1>5. Within(A, m) /\ Within(B, n)
  BY <1>1 DEF Within
<1>6. m \in Nat /\ n \in Nat
  BY <1>1
<1> HIDE DEF A, B, m, n
<1>3. /\ Cardinality(A) \in Nat /\ Cardinality(B) \in Nat
      /\ Cardinality(A \cup Moved(B, m)) = Cardinality(A) + Cardinality(B)
  BY <1>5, <1>6, CountApart, SMTT(30)
<1> QED
  BY <1>2, <1>3 DEF Num, A, B

\* The same for the elements of two sequences.
LEMMA CountCat ==
  ASSUME NEW a, NEW b, IsSeq(a), IsSeq(b), NEW x
  PROVE  /\ Count(a, x) \in Nat /\ Count(b, x) \in Nat
         /\ Count(a \o b, x) = Count(a, x) + Count(b, x)
<1> DEFINE m == Len(a)
           n == Len(b)
           A == {i \in DOMAIN a : a[i] = x}
           B == {i \in DOMAIN b : b[i] = x}
           C == A \cup Moved(B, m)
           D == {i \in DOMAIN (a \o b) : (a \o b)[i] = x}
<1>1. m \in Nat /\ n \in Nat /\ A \subseteq 1..m /\ B \subseteq 1..n
  BY CatSeq
<1>2. D = C
  <2>1. ASSUME NEW i \in D PROVE i \in C
    <3>2. CASE i \in 1..m /\ (a \o b)[i] = a[i]
      BY <3>2, CatSeq
    <3>3. CASE i - m \in 1..n /\ (a \o b)[i] = b[i - m]
      <4>1. i - m \in B
        BY <3>3, CatSeq
      <4>2. i \in Int /\ i = (i - m) + m
        BY <1>1, CatSeq
      <4> QED
        BY <4>1, <4>2 DEF Moved
    <3> QED
      BY <3>2, <3>3, CatSeq
  <2>2. ASSUME NEW i \in A PROVE i \in D
    <3>1. i \in 1..m /\ a[i] = x /\ (a \o b)[i] = a[i]
      BY CatSeq
    <3>2. i \in DOMAIN (a \o b)
      BY <1>1, <3>1, CatSeq
    <3> QED
      BY <3>1, <3>2
  <2>3. ASSUME NEW i \in B PROVE i + m \in D
    <3>1. i \in 1..n /\ b[i] = x /\ (a \o b)[i + m] = b[i]
      BY CatSeq
    <3>2. i + m \in DOMAIN (a \o b)
      BY <1>1, <3>1, CatSeq
    <3> QED
      BY <3>1, <3>2
  <2> HIDE DEF A, B, D
  <2> QED
    BY <2>1, <2>2, <2>3 DEF Moved
<1>4. Count(a \o b, x) = Cardinality(D) /\ Count(a, x) = Cardinality(A)
        /\ Count(b, x) = Cardinality(B)
  BY DEF Count
<1>5. Within(A, m) /\ Within(B, n)
  BY <1>1 DEF Within
<1>6. m \in Nat /\ n \in Nat
  BY <1>1
<1> HIDE DEF A, B, D, m, n
<1>3. /\ Cardinality(A) \in Nat /\ Cardinality(B) \in Nat
      /\ Cardinality(A \cup Moved(B, m)) = Cardinality(A) + Cardinality(B)
  BY <1>5, <1>6, CountApart, SMTT(30)
<1> QED
  BY <1>2, <1>3, <1>4

-----------------------------------------------------------------------------
(* Counting over the stacks of all goroutines.                              *)

\* The places in one stack.
PlacesOf(st, g, t) == {<<g, i>> : i \in TagPlaces(st[g], t)}

\* One goroutine's places of a tag are as many as the calls of its stack with that tag.
LEMMA PlacesOfOne ==
  ASSUME NEW st, NEW g, IsSeq(st[g]), NEW t
  PROVE  /\ IsFiniteSet(PlacesOf(st, g, t)) /\ Num(st[g], t) \in Nat
         /\ Cardinality(PlacesOf(st, g, t)) = Num(st[g], t)
<1> DEFINE A == TagPlaces(st[g], t)
           B == PlacesOf(st, g, t)
           f == [i \in A |-> <<g, i>>]
<1>1. IsFiniteSet(A)
  <2>1. A \subseteq 1..Len(st[g]) /\ Len(st[g]) \in Nat
    BY SeqFacts DEF TagPlaces
  <2>2. IsFiniteSet(1..Len(st[g]))
    BY <2>1, FS_Interval
  <2> QED
    BY <2>1, <2>2, FS_Subset
<1>2. f \in Bijection(A, B)
  <2>1. f \in [A -> B] /\ \A y \in B : \E x \in A : f[x] = y
    BY DEF PlacesOf
  <2>2. \A x, y \in A : f[x] = f[y] => x = y
    OBVIOUS
  <2> HIDE DEF f, A, B
  <2> QED
    BY <2>1, <2>2 DEF Bijection, Injection, Surjection, IsInjective
<1>3. ExistsBijection(A, B)
  BY <1>2 DEF ExistsBijection
<1> HIDE DEF A, B
<1>4. IsFiniteSet(B) /\ Cardinality(B) = Cardinality(A) /\ Cardinality(A) \in Nat
  BY <1>1, <1>3, FS_Bijection, FS_CardinalityType
<1> QED
  BY <1>4 DEF A, B, Num

\* The places in the stacks of some goroutines.
PlacesIn(st, G, t) == UNION {PlacesOf(st, g, t) : g \in G}

\* Finitely many stacks have finitely many places.
LEMMA PlacesInFinite ==
  ASSUME NEW st, NEW t, NEW G, IsFiniteSet(G), \A g \in G : IsSeq(st[g])
  PROVE  IsFiniteSet(PlacesIn(st, G, t)) /\ Cardinality(PlacesIn(st, G, t)) \in Nat
<1> DEFINE f == [g \in G |-> PlacesOf(st, g, t)]
           R == {PlacesOf(st, g, t) : g \in G}
<1>1. IsFiniteSet(R)
  <2>1. f \in Surjection(G, R)
    BY DEF Surjection
  <2> HIDE DEF f, R
  <2> QED
    BY <2>1, FS_Surjection
<1>2. \A x \in R : IsFiniteSet(x)
  BY PlacesOfOne
<1>3. IsFiniteSet(UNION R)
  <2> HIDE DEF R
  <2> QED
    BY <1>1, <1>2, FS_UNION
<1>4. PlacesIn(st, G, t) = UNION R
  BY DEF PlacesIn
<1> QED
  BY <1>3, <1>4, FS_CardinalityType

\* The places of a tag are those of all goroutines.
LEMMA PlacesAre == \A st, t : Places(st, t) = PlacesIn(st, Goroutines, t)
BY DEF Places, PlacesIn, PlacesOf

AllSeqs(st) == \A h \in Goroutines : IsSeq(st[h])

OnlyAt(g, st, st2) == \A h \in Goroutines : h # g => st2[h] = st[h]

\* When one stack changes, the total changes by what it held and holds.
LEMMA TotalChange ==
  ASSUME NEW st, NEW st2, NEW g \in Goroutines, NEW t, AllSeqs(st), AllSeqs(st2),
         OnlyAt(g, st, st2)
  PROVE  /\ Total(st, t) \in Nat /\ Total(st2, t) \in Nat
         /\ Num(st[g], t) \in Nat /\ Num(st2[g], t) \in Nat
         /\ Total(st2, t) + Num(st[g], t) = Total(st, t) + Num(st2[g], t)
<1> USE DEF AllSeqs, OnlyAt
<1> DEFINE G == Goroutines \ {g}
           O == PlacesIn(st, G, t)
<1>1. IsFiniteSet(O) /\ Cardinality(O) \in Nat
  <2>1. IsFiniteSet(G)
    BY SignalAssumption, FS_RemoveElement
  <2>2. \A h \in G : IsSeq(st[h])
    OBVIOUS
  <2> HIDE DEF G
  <2> QED
    BY <2>1, <2>2, PlacesInFinite
<1>2. ASSUME NEW s, \A h \in Goroutines : h # g => s[h] = st[h], IsSeq(s[g])
      PROVE  Cardinality(Places(s, t)) = Cardinality(O) + Num(s[g], t)
  <2> DEFINE P == PlacesOf(s, g, t)
  <2>1. IsFiniteSet(P) /\ Cardinality(P) = Num(s[g], t) /\ Num(s[g], t) \in Nat
    BY <1>2, PlacesOfOne
  <2>2. Places(s, t) = O \cup P
    <3>1. \A h \in G : PlacesOf(s, h, t) = PlacesOf(st, h, t)
      BY <1>2 DEF PlacesOf
    <3>2. O = PlacesIn(s, G, t)
      BY <3>1 DEF PlacesIn
    <3>3. Goroutines = G \cup {g}
      OBVIOUS
    <3> HIDE DEF O, G
    <3> QED
      BY <3>2, <3>3, PlacesAre DEF PlacesIn
  <2>3. O \cap P = {}
    BY DEF PlacesIn, PlacesOf
  <2>4. Cardinality({}) = 0
    BY FS_EmptySet
  <2> HIDE DEF O, P
  <2>5. Cardinality(O \cup P) = Cardinality(O) + Cardinality(P) - Cardinality(O \cap P)
    BY <1>1, <2>1, FS_Union
  <2>6. Cardinality(O \cap P) = 0
    BY <2>3, <2>4
  <2> QED
    BY <1>1, <2>1, <2>2, <2>5, <2>6
<1>3. Num(st[g], t) \in Nat /\ Num(st2[g], t) \in Nat
  BY PlacesOfOne
<1> HIDE DEF O
<1> QED
  BY <1>1, <1>2, <1>3 DEF Total

\* A total is zero when no stack holds such a call, and one that is not more
\* than one is at one place.
LEMMA TotalPlaces ==
  ASSUME NEW st, NEW t, AllSeqs(st)
  PROVE  /\ Total(st, t) \in Nat
         /\ Total(st, t) = 0 <=> \A g \in Goroutines : \A i \in DOMAIN st[g] : Tag(st[g][i]) # t
<1>1. IsFiniteSet(Places(st, t)) /\ Total(st, t) \in Nat
  BY SignalAssumption, PlacesAre, PlacesInFinite DEF Total, AllSeqs
<1>2. Total(st, t) = 0 <=> Places(st, t) = {}
  BY <1>1, FS_EmptySet DEF Total
<1>3. Places(st, t) = {} <=> \A g \in Goroutines : TagPlaces(st[g], t) = {}
  <2>1. ASSUME NEW g \in Goroutines, NEW i \in TagPlaces(st[g], t) PROVE <<g, i>> \in Places(st, t)
    BY DEF Places
  <2>2. ASSUME NEW p \in Places(st, t)
        PROVE  \E g \in Goroutines : \E i \in TagPlaces(st[g], t) : TRUE
    BY DEF Places
  <2> QED
    BY <2>1, <2>2
<1>4. ASSUME NEW g \in Goroutines
      PROVE  TagPlaces(st[g], t) = {} <=> \A i \in DOMAIN st[g] : Tag(st[g][i]) # t
  BY DEF TagPlaces
<1> QED
  BY <1>1, <1>2, <1>3, <1>4

-----------------------------------------------------------------------------
(* What a step does to the stacks.                                          *)

Other == <<"other", None, None>>

One(tag, t) == IF tag = t THEN 1 ELSE 0

\* Calls there are.
Block(calls) == IsSeq(calls) /\ \A i \in DOMAIN calls : CallOK(calls[i])

\* Calls outside critical sections and Batches.
Loose(calls) == \A i \in DOMAIN calls : calls[i].op \notin Busy /\ calls[i].op # "endBatch"

\* Calls nothing is counted by.
Plain(calls) ==
    Block(calls) /\ Loose(calls) /\ \A i \in DOMAIN calls : Tag(calls[i]) = Other

\* A stack stays nested when its top call returns.
LEMMA NestedTail ==
  ASSUME NEW s, IsSeq(s), s # <<>>, Nested(s)
  PROVE  Nested(Tail(s))
<1> DEFINE q == Tail(s)
           n == Len(s) - 1
<1>1. /\ n \in Nat /\ DOMAIN s = 1..(n + 1) /\ DOMAIN q = 1..n
      /\ \A i \in 1..n : q[i] = s[i + 1]
  BY TailSeq
<1> HIDE DEF q, n
<1>2. ASSUME NEW i \in DOMAIN q, q[i].op \in Busy, NEW j \in DOMAIN q, j < i
      PROVE  q[j].op \in {"on", "off"}
  <2>1. i + 1 \in DOMAIN s /\ j + 1 \in DOMAIN s /\ j + 1 < i + 1
    BY <1>1, <1>2
  <2> QED
    BY <1>1, <1>2, <2>1 DEF Nested
<1>3. ASSUME NEW i \in DOMAIN q, q[i].op = "on", q[i].args \notin Watchers
      PROVE  \E j \in DOMAIN q : j > i /\ q[j].op \in Releasing /\ q[j].at = q[i].args
  <2>1. i + 1 \in DOMAIN s /\ q[i] = s[i + 1]
    BY <1>1
  <2>2. PICK k \in DOMAIN s : k > i + 1 /\ s[k].op \in Releasing /\ s[k].at = q[i].args
    BY <1>3, <2>1 DEF Nested
  <2>3. k - 1 \in DOMAIN q /\ k - 1 > i /\ q[k - 1] = s[k]
    BY <1>1, <2>2
  <2> QED
    BY <2>2, <2>3
<1>4. ASSUME NEW i \in DOMAIN q, q[i].op = "endBatch", NEW j \in DOMAIN q, j > i
      PROVE  q[j].op = "endBatch"
  <2>1. i + 1 \in DOMAIN s /\ j + 1 \in DOMAIN s /\ j + 1 > i + 1
    BY <1>1, <1>4
  <2> QED
    BY <1>1, <1>4, <2>1 DEF Nested
<1> QED
  BY <1>2, <1>3, <1>4 DEF Nested, q

\* Calls put on a stack that is in no critical section.
LEMMA NestedPush ==
  ASSUME NEW a, NEW b, IsSeq(a), IsSeq(b), Nested(a), Nested(b),
         \A i \in DOMAIN b : b[i].op \notin Busy,
         \/ \A i \in DOMAIN a : a[i].op # "endBatch"
         \/ \A i \in DOMAIN b : b[i].op = "endBatch"
  PROVE  Nested(a \o b)
<1> DEFINE s == a \o b
           m == Len(a)
           n == Len(b)
<1>1. /\ m \in Nat /\ n \in Nat /\ DOMAIN a = 1..m /\ DOMAIN b = 1..n /\ DOMAIN s = 1..(m + n)
      /\ \A i \in 1..m : s[i] = a[i]
      /\ \A i \in 1..(m + n) : i \in 1..m \/ (i - m \in 1..n /\ s[i] = b[i - m])
  BY CatSeq
<1> HIDE DEF s, m, n
<1>2. ASSUME NEW i \in DOMAIN s, s[i].op \in Busy, NEW j \in DOMAIN s, j < i
      PROVE  s[j].op \in {"on", "off"}
  <2>1. i \in 1..m
    BY <1>1, <1>2
  <2>2. j \in 1..m
    BY <1>1, <1>2, <2>1
  <2> QED
    BY <1>1, <1>2, <2>1, <2>2 DEF Nested
<1>3. ASSUME NEW i \in DOMAIN s, s[i].op = "on", s[i].args \notin Watchers
      PROVE  \E j \in DOMAIN s : j > i /\ s[j].op \in Releasing /\ s[j].at = s[i].args
  <2>1. i \in 1..m
    BY <1>1, <1>3 DEF Busy
  <2>2. PICK k \in 1..m : k > i /\ a[k].op \in Releasing /\ a[k].at = a[i].args
    BY <1>1, <1>3, <2>1 DEF Nested
  <2>3. k \in DOMAIN s
    BY <1>1, <2>2
  <2> QED
    BY <1>1, <2>1, <2>2, <2>3
<1>4. ASSUME NEW i \in DOMAIN s, s[i].op = "endBatch", NEW j \in DOMAIN s, j > i
      PROVE  s[j].op = "endBatch"
  <2>1. CASE i \in 1..m /\ j \in 1..m
    BY <1>1, <1>4, <2>1 DEF Nested
  <2>2. CASE i \in 1..m /\ j \notin 1..m
    BY <1>1, <1>4, <2>2
  <2>3. CASE i \notin 1..m
    <3>1. i - m \in DOMAIN b /\ j - m \in DOMAIN b /\ j - m > i - m
      BY <1>1, <1>4, <2>3
    <3>2. s[i] = b[i - m] /\ s[j] = b[j - m]
      BY <1>1, <1>4, <2>3
    <3> QED
      BY <1>4, <3>1, <3>2 DEF Nested
  <2> QED
    BY <2>1, <2>2, <2>3
<1> QED
  BY <1>2, <1>3, <1>4 DEF Nested, s

\* Subscriptions of watchers and removals, then calls outside critical sections.
LEMMA NestedEdits ==
  ASSUME NEW a, NEW b, IsSeq(a), IsSeq(b), Loose(b),
         \A i \in DOMAIN a : a[i].op = "off" \/ (a[i].op = "on" /\ a[i].args \in Watchers)
  PROVE  Nested(a \o b)
<1>1. Nested(a)
  BY DEF Nested, Releasing
<1>2. Nested(b)
  BY DEF Nested, Loose, Busy, Releasing
<1> QED
  BY <1>1, <1>2, NestedPush DEF Loose

\* A critical section: edits, then the call that lets the mutex go.
LEMMA NestedSection ==
  ASSUME NEW a, IsSeq(a), NEW call, call.op \in Releasing,
         \A i \in DOMAIN a : a[i].op \in {"on", "off"} /\ a[i].args = call.at
  PROVE  IsSeq(Append(a, call)) /\ Nested(Append(a, call))
<1> DEFINE b == <<call>>
           s == a \o b
           m == Len(a)
<1>1. /\ m \in Nat /\ DOMAIN a = 1..m /\ DOMAIN s = 1..(m + 1) /\ s[m + 1] = call
      /\ \A i \in 1..m : s[i] = a[i]
      /\ IsSeq(s)
  <2>1. IsSeq(b) /\ Len(b) = 1 /\ b[1] = call
    BY ShortSeqs
  <2>2. \A i \in 1..Len(b) : s[i + m] = b[i]
    BY <2>1, CatSeq
  <2>3. m \in Nat /\ 1 + m = m + 1
    BY CatSeq, <2>1
  <2> HIDE DEF b
  <2>4. s[1 + m] = b[1]
    BY <2>1, <2>2
  <2>5. /\ IsSeq(s) /\ DOMAIN a = 1..m /\ DOMAIN s = 1..(m + Len(b))
        /\ \A i \in 1..m : s[i] = a[i]
    BY <2>1, CatSeq
  <2> HIDE DEF s, m
  <2> QED
    BY <2>1, <2>3, <2>4, <2>5
<1>2. Append(a, call) = s
  BY AppendIsConcat DEF IsSeq
<1> HIDE DEF s, m, b
<1>3. ASSUME NEW i \in DOMAIN s, NEW j \in DOMAIN s, j < i PROVE s[j].op \in {"on", "off"}
  BY <1>1, <1>3
<1>4. ASSUME NEW i \in DOMAIN s, s[i].op = "on"
      PROVE  \E j \in DOMAIN s : j > i /\ s[j].op \in Releasing /\ s[j].at = s[i].args
  <2>1. i \in 1..m
    BY <1>1, <1>4 DEF Releasing
  <2>2. m + 1 \in DOMAIN s /\ m + 1 > i
    BY <1>1, <2>1
  <2> QED
    BY <1>1, <2>1, <2>2
<1>5. \A i \in DOMAIN s : s[i].op # "endBatch"
  <2> SUFFICES ASSUME NEW i \in DOMAIN s PROVE s[i].op # "endBatch"
    OBVIOUS
  <2>1. CASE i \in 1..m
    BY <1>1, <2>1
  <2>2. CASE i = m + 1
    BY <1>1, <2>2 DEF Releasing
  <2> QED
    BY <1>1, <2>1, <2>2
<1> QED
  BY <1>1, <1>2, <1>3, <1>4, <1>5 DEF Nested

\* A step in which the calls come on top of g's stack, after a call with the
\* tag gone is taken off it, or none when gone is Other.
Moves(g, gone, calls) ==
    /\ StackShape' /\ CallsOK' /\ StacksNested'
    /\ \A t : t # Other =>
         /\ Total(stack, t) \in Nat /\ Total(stack', t) \in Nat /\ Num(calls, t) \in Nat
         /\ Total(stack', t) + One(gone, t) = Total(stack, t) + Num(calls, t)
    /\ \A h \in Goroutines : \A i \in DOMAIN stack'[h] :
         \/ \E j \in DOMAIN stack[h] : stack'[h][i] = stack[h][j]
         \/ h = g /\ \E j \in DOMAIN calls : stack'[h][i] = calls[j]

\* Replacing a stack by calls and a rest of the old stack counts as a move.
LEMMA MovesWhen ==
  ASSUME StackShape, CallsOK, StacksNested, NEW g \in Goroutines, NEW gone, NEW rest, NEW calls,
         IsSeq(rest), Block(calls), Nested(calls \o rest),
         \A i \in DOMAIN rest : \E j \in DOMAIN stack[g] : rest[i] = stack[g][j],
         \A t : t # Other => Num(stack[g], t) = One(gone, t) + Num(rest, t),
         stack' = [stack EXCEPT ![g] = calls \o rest]
  PROVE  Moves(g, gone, calls)
<1> DEFINE new == calls \o rest
<1>1. stack' = [h \in Goroutines |-> IF h = g THEN new ELSE stack[h]]
  BY DEF StackShape
<1>2. IsSeq(calls) /\ IsSeq(new)
  BY CatSeq DEF Block
<1>3. ASSUME NEW i \in DOMAIN new
      PROVE  \/ \E j \in DOMAIN stack[g] : new[i] = stack[g][j]
             \/ \E j \in DOMAIN calls : new[i] = calls[j]
  <2>1. CASE i \in DOMAIN calls /\ new[i] = calls[i]
    BY <2>1
  <2>2. CASE i - Len(calls) \in DOMAIN rest /\ new[i] = rest[i - Len(calls)]
    BY <2>2
  <2>3. DOMAIN calls = 1..Len(calls) /\ DOMAIN rest = 1..Len(rest)
    BY <1>2, CatSeq
  <2> QED
    BY <1>2, <2>1, <2>2, <2>3, CatSeq
<1>4. ASSUME NEW t, t # Other
      PROVE  /\ Total(stack, t) \in Nat /\ Total(stack', t) \in Nat /\ Num(calls, t) \in Nat
             /\ Total(stack', t) + One(gone, t) = Total(stack, t) + Num(calls, t)
  <2>1. /\ Num(calls, t) \in Nat /\ Num(rest, t) \in Nat
        /\ Num(new, t) = Num(calls, t) + Num(rest, t)
    BY <1>2, NumCat
  <2> HIDE DEF new
  <2> DEFINE after == [h \in Goroutines |-> IF h = g THEN new ELSE stack[h]]
  <2>0. stack' = after
    BY <1>1
  <2>2. after[g] = new /\ \A h \in Goroutines : h # g => after[h] = stack[h]
    OBVIOUS
  <2> HIDE DEF after
  <2>3. AllSeqs(stack) /\ AllSeqs(after) /\ OnlyAt(g, stack, after)
    BY <1>2, <2>2 DEF StackShape, AllSeqs, OnlyAt
  <2>4. /\ Total(stack, t) \in Nat /\ Total(stack', t) \in Nat
        /\ Total(stack', t) + Num(stack[g], t) = Total(stack, t) + Num(new, t)
    <3>1. /\ Total(stack, t) \in Nat /\ Total(after, t) \in Nat
          /\ Total(after, t) + Num(stack[g], t) = Total(stack, t) + Num(after[g], t)
      BY <2>3, TotalChange
    <3> QED
      BY <2>0, <2>2, <3>1
  <2>5. One(gone, t) \in Nat /\ Num(stack[g], t) = One(gone, t) + Num(rest, t)
    BY <1>4 DEF One
  <2> QED
    BY <2>1, <2>4, <2>5, SMTT(30)
<1> HIDE DEF new
<1>5. StackShape'
  BY <1>1, <1>2 DEF StackShape
<1>6. \A h \in Goroutines : \A i \in DOMAIN stack'[h] :
         \/ \E j \in DOMAIN stack[h] : stack'[h][i] = stack[h][j]
         \/ h = g /\ \E j \in DOMAIN calls : stack'[h][i] = calls[j]
  BY <1>1, <1>3
<1>7. CallsOK'
  <2> SUFFICES ASSUME NEW h \in Goroutines, NEW i \in DOMAIN stack'[h] PROVE CallOK(stack'[h][i])
    BY DEF CallsOK
  <2> QED
    BY <1>6 DEF CallsOK, Block
<1>8. StacksNested'
  BY <1>1 DEF StacksNested, new
<1> QED
  BY <1>4, <1>5, <1>6, <1>7, <1>8 DEF Moves

\* What the top of a stack says of the calls below it: a call that is not a
\* subscription stands above no critical section, and below the end of a Batch
\* there are only others.
LEMMA TopFacts ==
  ASSUME StackShape, CallsOK, StacksNested, NEW g \in Goroutines, ~Idle(g)
  PROVE  /\ IsSeq(stack[g]) /\ stack[g] # <<>> /\ 1 \in DOMAIN stack[g]
         /\ Top(g) = stack[g][1] /\ CallOK(Top(g))
         /\ Top(g).op \notin {"on", "off"}
              => \A i \in DOMAIN stack[g] : i # 1 => stack[g][i].op \notin Busy
         /\ Top(g).op = "endBatch" => \A i \in DOMAIN stack[g] : stack[g][i].op = "endBatch"
<1>1. IsSeq(stack[g]) /\ stack[g] # <<>>
  BY DEF StackShape, Idle
<1>2. 1 \in DOMAIN stack[g] /\ Top(g) = stack[g][1] /\ DOMAIN stack[g] = 1..Len(stack[g])
        /\ Len(stack[g]) \in Nat
  BY <1>1, TailSeq DEF Top
<1>3. Nested(stack[g])
  BY DEF StacksNested
<1>4. \A i \in DOMAIN stack[g] : i # 1 => 1 < i /\ i > 1
  BY <1>2
<1>5. CallOK(Top(g))
  BY <1>2 DEF CallsOK
<1>6. ASSUME Top(g).op \notin {"on", "off"}, NEW i \in DOMAIN stack[g], i # 1
      PROVE  stack[g][i].op \notin Busy
  BY <1>2, <1>3, <1>4, <1>6 DEF Nested
<1>7. ASSUME Top(g).op = "endBatch", NEW i \in DOMAIN stack[g] PROVE stack[g][i].op = "endBatch"
  BY <1>2, <1>3, <1>4, <1>7 DEF Nested
<1> QED
  BY <1>1, <1>2, <1>5, <1>6, <1>7

\* The call on top is replaced.
LEMMA GoesMoves ==
  ASSUME StackShape, CallsOK, StacksNested, NEW g \in Goroutines, ~Idle(g),
         NEW calls, Block(calls), Nested(calls), \A i \in DOMAIN calls : calls[i].op # "endBatch",
         calls = <<>> \/ Top(g).op \notin {"on", "off"}, Goes(g, calls)
  PROVE  Moves(g, Tag(Top(g)), calls)
<1> DEFINE s == stack[g]
           rest == Tail(s)
<1>1. /\ IsSeq(s) /\ s # <<>> /\ Top(g) = s[1]
      /\ Top(g).op \notin {"on", "off"} => \A i \in DOMAIN s : i # 1 => s[i].op \notin Busy
  BY TopFacts
<1>2. /\ IsSeq(rest) /\ Len(s) \in Nat \ {0} /\ DOMAIN s = 1..Len(s)
      /\ DOMAIN rest = 1..(Len(s) - 1) /\ \A i \in 1..(Len(s) - 1) : rest[i] = s[i + 1]
  BY <1>1, TailSeq
<1>3. Nested(s)
  BY DEF StacksNested
<1>4. Nested(rest)
  BY <1>1, <1>3, NestedTail
<1>5. \A i \in DOMAIN rest : i + 1 \in DOMAIN s /\ i + 1 # 1 /\ rest[i] = s[i + 1]
  BY <1>2
<1>6. Nested(calls \o rest)
  <2>1. CASE calls = <<>>
    <3>1. calls \o rest = rest
      BY <1>2, <2>1, ConcatEmptySeq DEF IsSeq
    <3> QED
      BY <1>4, <3>1
  <2>2. CASE Top(g).op \notin {"on", "off"}
    <3>1. \A i \in DOMAIN rest : rest[i].op \notin Busy
      BY <1>1, <1>5, <2>2
    <3> QED
      BY <1>2, <1>4, <3>1, NestedPush DEF Block
  <2> QED
    BY <2>1, <2>2
<1>7. ASSUME NEW t PROVE Num(s, t) = One(Tag(Top(g)), t) + Num(rest, t)
  <2> DEFINE b == <<Top(g)>>
  <2>1. IsSeq(b) /\ DOMAIN b = 1..1 /\ b[1] = Top(g) /\ Len(b) = 1
    BY ShortSeqs
  <2>2. b \o rest = s
    <3>1. PICK S : s \in Seq(S)
      BY <1>1 DEF IsSeq
    <3> QED
      BY <1>1, <3>1
  <2>3. Num(b, t) = One(Tag(Top(g)), t)
    <3>1. CASE Tag(Top(g)) = t
      <4>1. TagPlaces(b, t) = {1}
        BY <2>1, <3>1 DEF TagPlaces
      <4> QED
        BY <3>1, <4>1, FS_Singleton DEF Num, One
    <3>2. CASE Tag(Top(g)) # t
      <4>1. TagPlaces(b, t) = {}
        BY <2>1, <3>2 DEF TagPlaces
      <4> QED
        BY <3>2, <4>1, FS_EmptySet DEF Num, One
    <3> QED
      BY <3>1, <3>2
  <2> HIDE DEF b, rest, s
  <2>4. Num(b \o rest, t) = Num(b, t) + Num(rest, t)
    BY <1>2, <2>1, NumCat
  <2> QED
    BY <2>2, <2>3, <2>4
<1>8. \A i \in DOMAIN rest : \E j \in DOMAIN s : rest[i] = s[j]
  BY <1>5
<1>9. stack' = [stack EXCEPT ![g] = calls \o rest]
  BY DEF Goes
<1> HIDE DEF s, rest
<1> QED
  BY <1>2, <1>6, <1>7, <1>8, <1>9, MovesWhen DEF s

\* An operation begins: its calls come on an idle stack, or on the ends of Batches.
LEMMA BeginsMoves ==
  ASSUME StackShape, CallsOK, StacksNested, NEW g \in Goroutines, NEW calls, Block(calls),
         Nested(calls), Begins(g, calls)
  PROVE  Moves(g, Other, calls)
<1> DEFINE s == stack[g]
<1>1. IsSeq(s)
  BY DEF StackShape
<1>2. \A i \in DOMAIN s : s[i].op = "endBatch"
  <2>1. CASE Idle(g)
    BY <2>1, ShortSeqs DEF Idle
  <2>2. CASE At(g, "endBatch")
    BY <2>2, TopFacts DEF At
  <2> QED
    BY <2>1, <2>2 DEF Begins
<1>3. \A i \in DOMAIN s : s[i].op \notin Busy
  BY <1>2 DEF Busy, Releasing
<1>4. Nested(s)
  BY DEF StacksNested
<1>5. Nested(calls \o s)
  BY <1>1, <1>2, <1>3, <1>4, NestedPush DEF Block
<1>6. ASSUME NEW t, t # Other PROVE Num(s, t) = One(Other, t) + Num(s, t)
  BY <1>1, <1>6, PlacesOfOne DEF One
<1>7. stack' = [stack EXCEPT ![g] = calls \o s]
  BY DEF Begins, StackShape
<1> HIDE DEF s
<1> QED
  BY <1>1, <1>5, <1>6, <1>7, MovesWhen DEF s

-----------------------------------------------------------------------------
(* The calls the actions make.                                              *)

\* The tag of each kind of call.
LEMMA TagIs ==
  ASSUME NEW call
  PROVE  /\ call.op = "on" => Tag(call) = On(call.at, call.args)
         /\ call.op = "off" => Tag(call) = Off(call.at, call.args)
         /\ call.op \in FrameOps => Tag(call) = Frame(call.at)
         /\ call.op = "share" => Tag(call) = Sharing(call.at)
         /\ call.op = "endBatch" => Tag(call) = Ending
         /\ call.op \notin {"on", "off", "share", "endBatch"} \cup FrameOps => Tag(call) = Other
BY DEF Tag, On, Off, Frame, Sharing, Ending, Other, FrameOps

\* Calls of different kinds, or about different nodes, have different tags.
LEMMA TagsDiffer ==
  /\ \A n, who : On(n, who) # Other /\ Off(n, who) # Other
  /\ \A who : Frame(who) # Other /\ Sharing(who) # Other
  /\ Ending # Other
  /\ \A n, w, m, v : /\ On(n, w) # Off(m, v)
                     /\ On(n, w) = On(m, v) <=> (n = m /\ w = v)
                     /\ Off(n, w) = Off(m, v) <=> (n = m /\ w = v)
                     /\ On(n, w) # Frame(v) /\ On(n, w) # Sharing(v) /\ On(n, w) # Ending
                     /\ Off(n, w) # Frame(v) /\ Off(n, w) # Sharing(v) /\ Off(n, w) # Ending
                     /\ Frame(w) # Sharing(v) /\ Frame(w) # Ending /\ Sharing(w) # Ending
                     /\ Frame(w) = Frame(v) <=> w = v
                     /\ Sharing(w) = Sharing(v) <=> w = v
BY DEF On, Off, Frame, Sharing, Ending, Other

\* The parts of a call.
LEMMA CallIs ==
  ASSUME NEW op, NEW at, NEW args
  PROVE  LET c == Call(op, at, args) IN c.op = op /\ c.at = at /\ c.args = args
BY DEF Call

\* Calls nothing is counted by: they keep any stack well nested.
LEMMA PlainFacts ==
  ASSUME NEW calls, Plain(calls)
  PROVE  /\ Block(calls) /\ Nested(calls) /\ \A i \in DOMAIN calls : calls[i].op # "endBatch"
         /\ \A t : t # Other => Num(calls, t) = 0
<1>1. Block(calls) /\ Loose(calls) /\ \A i \in DOMAIN calls : Tag(calls[i]) = Other
  BY DEF Plain
<1>2. Nested(calls)
  BY <1>1 DEF Nested, Loose, Busy
<1>3. ASSUME NEW t, t # Other PROVE Num(calls, t) = 0
  <2>1. TagPlaces(calls, t) = {}
    BY <1>1, <1>3 DEF TagPlaces
  <2> QED
    BY <2>1, FS_EmptySet DEF Num
<1> QED
  BY <1>1, <1>2, <1>3 DEF Loose

\* What s holds is held by a or by b.
From(s, a, b) == \A i \in DOMAIN s : \/ \E j \in DOMAIN a : s[i] = a[j]
                                     \/ \E j \in DOMAIN b : s[i] = b[j]

\* Calls followed by calls: all are well formed, and they are counted together.
LEMMA BlockCat ==
  ASSUME NEW a, NEW b, Block(a), Block(b)
  PROVE  Block(a \o b) /\ From(a \o b, a, b)
<1> DEFINE s == a \o b
<1>1. IsSeq(a) /\ IsSeq(b)
  BY DEF Block
<1>2. \A i \in DOMAIN s : \/ \E j \in DOMAIN a : s[i] = a[j]
                          \/ \E j \in DOMAIN b : s[i] = b[j]
  <2> SUFFICES ASSUME NEW i \in DOMAIN s
               PROVE  \/ \E j \in DOMAIN a : s[i] = a[j]
                      \/ \E j \in DOMAIN b : s[i] = b[j]
    OBVIOUS
  <2>1. DOMAIN a = 1..Len(a) /\ DOMAIN b = 1..Len(b)
    BY <1>1, CatSeq
  <2>2. CASE i \in 1..Len(a) /\ s[i] = a[i]
    BY <2>1, <2>2
  <2>3. CASE i - Len(a) \in 1..Len(b) /\ s[i] = b[i - Len(a)]
    BY <2>1, <2>3
  <2> QED
    BY <1>1, <2>2, <2>3, CatSeq
<1>3. IsSeq(s)
  BY <1>1, CatSeq
<1> HIDE DEF s
<1>4. Block(s)
  BY <1>2, <1>3 DEF Block
<1> QED
  BY <1>2, <1>4 DEF s, From

\* Calls outside critical sections, followed by others, are such calls.
LEMMA PlainCat ==
  ASSUME NEW a, NEW b, Plain(a), Plain(b)
  PROVE  Plain(a \o b)
<1> DEFINE s == a \o b
<1>1. Block(s) /\ From(s, a, b)
  BY BlockCat DEF Plain
<1> HIDE DEF s
<1>2. Plain(s)
  BY <1>1 DEF Plain, Loose, From
<1> QED
  BY <1>2 DEF s

\* One call counts once, under its own tag.
LEMMA BlockOne ==
  ASSUME NEW call, CallOK(call)
  PROVE  /\ Block(<<call>>) /\ DOMAIN <<call>> = {1} /\ <<call>>[1] = call
         /\ \A t : Num(<<call>>, t) = One(Tag(call), t)
<1> DEFINE b == <<call>>
<1>1. IsSeq(b) /\ DOMAIN b = 1..1 /\ b[1] = call
  BY ShortSeqs
<1> HIDE DEF b
<1>2. ASSUME NEW t PROVE Num(b, t) = One(Tag(call), t)
  <2>1. CASE Tag(call) = t
    <3>1. TagPlaces(b, t) = {1}
      BY <1>1, <2>1 DEF TagPlaces
    <3> QED
      BY <2>1, <3>1, FS_Singleton DEF Num, One
  <2>2. CASE Tag(call) # t
    <3>1. TagPlaces(b, t) = {}
      BY <1>1, <2>2 DEF TagPlaces
    <3> QED
      BY <2>2, <3>1, FS_EmptySet DEF Num, One
  <2> QED
    BY <2>1, <2>2
<1>3. Block(b) /\ DOMAIN b = {1}
  BY <1>1 DEF Block
<1> QED
  BY <1>1, <1>2, <1>3 DEF b

PlainOps == {"invalidate", "invalidateSubscribers", "onDepChange", "wake", "refresh", "batchNotify",
             "endSet", "callback", "look", "run"}

\* One call outside critical sections.
LEMMA PlainOne ==
  ASSUME NEW call, CallOK(call), call.op \in PlainOps
  PROVE  Plain(<<call>>)
<1>1. Tag(call) = Other
  BY TagIs DEF PlainOps, FrameOps
<1>2. Block(<<call>>) /\ DOMAIN <<call>> = {1} /\ <<call>>[1] = call
  BY BlockOne
<1>3. call.op \notin Busy /\ call.op # "endBatch"
  BY DEF PlainOps, Busy, Releasing
<1> DEFINE b == <<call>>
<1> HIDE DEF b
<1>4. Block(b) /\ DOMAIN b = {1} /\ b[1] = call
  BY <1>2 DEF b
<1>5. Plain(b)
  BY <1>1, <1>3, <1>4 DEF Plain, Loose
<1> QED
  BY <1>5 DEF b

\* No call at all.
LEMMA PlainNil == Plain(<<>>)
BY ShortSeqs DEF Plain, Block, Loose

\* Calls makes one call for each place of the sequence.
LEMMA CallsFacts ==
  ASSUME NEW op, NEW at, NEW args, IsSeq(at)
  PROVE  /\ IsSeq(Calls(op, at, args)) /\ DOMAIN Calls(op, at, args) = DOMAIN at
         /\ Len(Calls(op, at, args)) = Len(at)
         /\ \A i \in DOMAIN at : /\ Calls(op, at, args)[i].op = op
                                 /\ Calls(op, at, args)[i].at = at[i]
                                 /\ Calls(op, at, args)[i].args = args
<1>1. Len(at) \in Nat /\ DOMAIN at = 1..Len(at)
  BY SeqFacts
<1> DEFINE q == Calls(op, at, args)
<1>2. q = [i \in 1..Len(at) |-> Call(op, at[i], args)]
  BY DEF Calls
<1>3. q \in Seq({Call(op, at[i], args) : i \in 1..Len(at)})
  BY <1>1, <1>2
<1>4. DOMAIN q = 1..Len(at) /\ \A i \in 1..Len(at) : q[i] = Call(op, at[i], args)
  BY <1>2
<1>5. Len(q) = Len(at)
  BY <1>1, <1>3, <1>4, LenProperties
<1>6. IsSeq(q)
  BY <1>3 DEF IsSeq
<1> HIDE DEF q
<1> QED
  BY <1>1, <1>4, <1>5, <1>6, CallIs DEF q

\* A derived value is refreshed by a call, and a base signal by none.
LEMMA RefreshFacts ==
  ASSUME NEW n
  PROVE  /\ Plain(Refresh(n))
         /\ \A i \in DOMAIN Refresh(n) : Refresh(n)[i].op = "refresh"
<1> DEFINE c == Call("refresh", n, <<>>)
<1>1. CASE n \in Derived
  <2>1. c.op = "refresh" /\ c.at = n
    BY CallIs
  <2>2. CallOK(c) /\ c.op \in PlainOps
    BY <1>1, <2>1 DEF CallOK, PlainOps
  <2> HIDE DEF c
  <2>3. Plain(<<c>>) /\ DOMAIN <<c>> = {1} /\ <<c>>[1] = c
    BY <2>2, PlainOne, BlockOne
  <2>4. Refresh(n) = <<c>>
    BY <1>1 DEF Refresh, c
  <2> DEFINE q == <<c>>
  <2> HIDE DEF q
  <2>5. Plain(q) /\ DOMAIN q = {1} /\ q[1] = c /\ Refresh(n) = q
    BY <2>3, <2>4 DEF q
  <2> QED
    BY <2>1, <2>5
<1>2. CASE n \notin Derived
  BY <1>2, PlainNil, ShortSeqs DEF Refresh
<1> QED
  BY <1>1, <1>2

\* Calling subscribers notifies nobody else (batchNotify).
LEMMA CallsOfFacts ==
  ASSUME NEW subs \in Seq(Subscribers)
  PROVE  /\ Plain(CallsOf(subs))
         /\ \A i \in DOMAIN CallsOf(subs) :
              \A c \in Derived : Notifies(CallsOf(subs)[i], c) => c \in Range(subs)
<1>1. Len(subs) \in Nat /\ DOMAIN subs = 1..Len(subs) /\ \A i \in 1..Len(subs) : subs[i] \in Subscribers
  BY LenProperties, ElementOfSeq
<1> DEFINE q == CallsOf(subs)
<1>2. q = [i \in 1..Len(subs) |-> CallOf(subs[i])]
  BY DEF CallsOf
<1>3. q \in Seq({CallOf(subs[i]) : i \in 1..Len(subs)})
  BY <1>1, <1>2
<1>4. DOMAIN q = 1..Len(subs) /\ \A i \in 1..Len(subs) : q[i] = CallOf(subs[i])
  BY <1>2
<1>5. IsSeq(q)
  BY <1>3 DEF IsSeq
<1>6. ASSUME NEW who \in Subscribers
      PROVE  LET c == CallOf(who)
             IN /\ c.at = who /\ CallOK(c) /\ c.op \in {"onDepChange", "run", "callback"}
                /\ c.op = "onDepChange" => who \in Derived
  BY SignalAssumption DEF CallOf, Call, CallOK, Subscribers
<1> HIDE DEF q
<1>7. \A i \in DOMAIN q : /\ CallOK(q[i]) /\ q[i].at = subs[i]
                          /\ q[i].op \in {"onDepChange", "run", "callback"}
  BY <1>1, <1>4, <1>6
<1>8. Plain(q)
  <2>1. \A i \in DOMAIN q : Tag(q[i]) = Other /\ q[i].op \notin Busy /\ q[i].op # "endBatch"
    <3> SUFFICES ASSUME NEW i \in DOMAIN q
                 PROVE  Tag(q[i]) = Other /\ q[i].op \notin Busy /\ q[i].op # "endBatch"
      OBVIOUS
    <3>1. q[i].op \in {"onDepChange", "run", "callback"}
      BY <1>7
    <3>2. q[i].op \notin {"on", "off", "share", "endBatch"} \cup FrameOps
      BY <3>1 DEF FrameOps
    <3> QED
      BY <3>1, <3>2, TagIs DEF Busy, Releasing
  <2> QED
    BY <1>5, <1>7, <2>1 DEF Plain, Block, Loose
<1>9. \A i \in DOMAIN q : \A c \in Derived : Notifies(q[i], c) => c \in Range(subs)
  BY <1>1, <1>4, <1>7 DEF Notifies, Range
<1> QED
  BY <1>8, <1>9 DEF q

\* What s holds is held by a, or is the call.
EndsWith(s, a, call) ==
    \A i \in DOMAIN s : (\E j \in DOMAIN a : s[i] = a[j]) \/ s[i] = call

\* A call put after others.
LEMMA AppendFacts ==
  ASSUME NEW a, Block(a), NEW call, CallOK(call)
  PROVE  /\ Block(Append(a, call)) /\ Append(a, call) = a \o <<call>>
         /\ \A t : /\ Num(a, t) \in Nat
                   /\ Num(Append(a, call), t) = Num(a, t) + One(Tag(call), t)
         /\ EndsWith(Append(a, call), a, call)
<1>1. /\ Block(<<call>>) /\ DOMAIN <<call>> = {1} /\ <<call>>[1] = call
      /\ \A t : Num(<<call>>, t) = One(Tag(call), t)
  BY BlockOne
<1>2. PICK last : last = <<call>>
  OBVIOUS
<1>3. Append(a, call) = a \o last
  BY <1>2, AppendIsConcat DEF Block, IsSeq
<1>4. /\ Block(last) /\ DOMAIN last = {1} /\ last[1] = call
      /\ \A t : Num(last, t) = One(Tag(call), t)
  BY <1>1, <1>2
<1>5. Block(a \o last) /\ From(a \o last, a, last)
  BY <1>4, BlockCat
<1>6. \A t : Num(a, t) \in Nat /\ Num(a \o last, t) = Num(a, t) + Num(last, t)
  BY <1>4, NumCat DEF Block
<1> QED
  BY <1>2, <1>3, <1>4, <1>5, <1>6 DEF From, EndsWith

\* Subscriptions of one subscriber, or their removals.
LEMMA EditFacts ==
  ASSUME NEW q \in Seq(Nodes), NEW who \in Subscribers, NEW op \in {"on", "off"},
         op = "off" => who \in Derived \cup Effects
  PROVE  LET calls == Calls(op, q, who)
         IN /\ Block(calls)
            /\ \A i \in DOMAIN calls : calls[i].op = op /\ calls[i].args = who
            /\ \A i \in DOMAIN calls : \E n : Tag(calls[i]) = IF op = "on" THEN On(n, who) ELSE Off(n, who)
            /\ \A n : Num(calls, IF op = "on" THEN On(n, who) ELSE Off(n, who)) = Count(q, n)
            /\ \A t : (\A n : t # IF op = "on" THEN On(n, who) ELSE Off(n, who)) => Num(calls, t) = 0
<1> DEFINE calls == Calls(op, q, who)
           T(n) == IF op = "on" THEN On(n, who) ELSE Off(n, who)
<1>1. IsSeq(q)
  BY DEF IsSeq
<1>2. \A i \in DOMAIN q : q[i] \in Nodes
  BY LenProperties, ElementOfSeq
<1>3. /\ IsSeq(calls) /\ DOMAIN calls = DOMAIN q
      /\ \A i \in DOMAIN q : calls[i].op = op /\ calls[i].at = q[i] /\ calls[i].args = who
  BY <1>1, CallsFacts
<1> HIDE DEF calls
<1>4. \A i \in DOMAIN calls : CallOK(calls[i])
  BY <1>2, <1>3 DEF CallOK
<1>5. \A i \in DOMAIN calls : Tag(calls[i]) = T(q[i])
  BY <1>3, TagIs
<1>6. \A n, m : T(n) = T(m) => n = m
  BY TagsDiffer
<1>7. ASSUME NEW n PROVE Num(calls, T(n)) = Count(q, n)
  <2>1. TagPlaces(calls, T(n)) = {i \in DOMAIN q : q[i] = n}
    <3> HIDE DEF T
    <3> QED
      BY <1>3, <1>5, <1>6 DEF TagPlaces
  <2> QED
    BY <2>1 DEF Num, Count
<1>8. ASSUME NEW t, \A n : t # T(n) PROVE Num(calls, t) = 0
  <2>1. TagPlaces(calls, t) = {}
    <3> HIDE DEF T
    <3> QED
      BY <1>5, <1>8 DEF TagPlaces
  <2> QED
    BY <2>1, FS_EmptySet DEF Num
<1>9. Block(calls)
  BY <1>3, <1>4 DEF Block
<1>10. \A i \in DOMAIN calls : calls[i].op = op /\ calls[i].args = who
  BY <1>3
<1>11. \A i \in DOMAIN calls : \E n : Tag(calls[i]) = T(n)
  BY <1>5
<1> QED
  BY <1>7, <1>8, <1>9, <1>10, <1>11 DEF calls

\* The derived values among the subscribers, in order, and all of them.
LEMMA ComputedsFacts ==
  ASSUME NEW subs \in Seq(Subscribers)
  PROVE  /\ Computeds(subs) \in Seq(Derived)
         /\ Range(Computeds(subs)) \subseteq Range(subs)
         /\ \A c \in Derived : c \in Range(subs) => c \in Range(Computeds(subs))
<1> DEFINE n == Len(subs)
           F(f) == f = [k \in 0..n |->
                          IF k = 0 THEN <<>>
                          ELSE IF subs[k] \in Derived THEN Append(f[k - 1], subs[k]) ELSE f[k - 1]]
           among == CHOOSE f : F(f)
           G(k, q) == /\ q \in Seq(Derived) /\ \A i \in DOMAIN q : q[i] \in Range(subs)
                      /\ \A j \in 1..k : subs[j] \in Derived => \E i \in DOMAIN q : q[i] = subs[j]
           A == [k \in 0..n |-> {q \in Seq(Derived) : G(k, q)}]
<1>1. n \in Nat /\ DOMAIN subs = 1..n
  BY LenProperties
<1>2. PICK c : /\ c[0] = <<>>
               /\ \A i \in 1..n : c[i] = AddComputed(c[i - 1], subs[i])
  <2> DEFINE base == <<>>
  <2> HIDE DEF n, base
  <2>1. \E c : /\ c[0] = base
               /\ \A i \in 1..n : c[i] = AddComputed(c[i - 1], subs[i])
               /\ ComputedFold!Fold(base, subs) = c[n]
    BY <1>1, ComputedFold!FoldLeftChain
  <2> QED
    BY <2>1 DEF base
<1>3. F([k \in 0..n |-> c[k]])
  <2> DEFINE d == [k \in 0..n |-> c[k]]
  <2>1. \A k \in 0..n : k = 0 \/ (k \in 1..n /\ k - 1 \in 0..n)
    BY <1>1
  <2>2. ASSUME NEW k \in 0..n
        PROVE  d[k] = IF k = 0 THEN <<>>
                      ELSE IF subs[k] \in Derived THEN Append(d[k - 1], subs[k]) ELSE d[k - 1]
    BY <1>2, <2>1 DEF AddComputed
  <2> QED
    BY <2>2
<1>4. F(among)
  <2> HIDE DEF F
  <2> QED
    BY <1>3
<1>5. Computeds(subs) = among[n]
  BY DEF Computeds
<1>6. among[0] = <<>> /\ \A i \in 1..n : among[i] = AddComputed(among[i - 1], subs[i])
  <2>1. \A i \in 1..n : i \in 0..n /\ i # 0
    BY <1>1
  <2>2. 0 \in 0..n
    BY <1>1
  <2> HIDE DEF among
  <2> QED
    BY <1>4, <2>1, <2>2 DEF AddComputed
<1> HIDE DEF among, F
<1> DEFINE fold == ComputedFold!Fold(<<>>, subs)
<1>7. fold = among[n]
  <2> HIDE DEF n
  <2> QED
    BY <1>1, <1>6, ComputedFold!FoldLeftIs
<1>8. <<>> \in A[0] /\ \A i \in 1..n : \A q \in A[i - 1] : AddComputed(q, subs[i]) \in A[i]
  <2>1. \A i \in 1..n : i \in 0..n /\ i - 1 \in 0..n
    BY <1>1
  <2>2. G(0, <<>>)
    BY <1>1, EmptySeq, ShortSeqs
  <2>3. ASSUME NEW i \in 1..n, NEW q, G(i - 1, q) PROVE G(i, AddComputed(q, subs[i]))
    <3>1. \A j \in 1..i : j = i \/ j \in 1..(i - 1)
      BY <1>1
    <3>2. CASE subs[i] \in Derived
      <4>1. subs[i] \in Range(subs)
        BY <1>1 DEF Range
      <4>2. PICK p : p = Append(q, subs[i])
        OBVIOUS
      <4>3. /\ p \in Seq(Derived)
            /\ \A j \in DOMAIN p : p[j] = subs[i] \/ (j \in DOMAIN q /\ p[j] = q[j])
            /\ \A j \in DOMAIN q : j \in DOMAIN p /\ p[j] = q[j]
            /\ \E j \in DOMAIN p : p[j] = subs[i]
        BY <2>3, <3>2, <4>2, AppendProperties, LenProperties
      <4>4. \A j \in DOMAIN p : p[j] \in Range(subs)
        BY <2>3, <4>1, <4>3
      <4>5. \A j \in 1..i : subs[j] \in Derived => \E m \in DOMAIN p : p[m] = subs[j]
        BY <2>3, <3>1, <4>3
      <4>6. p = AddComputed(q, subs[i])
        BY <3>2, <4>2 DEF AddComputed
      <4>7. G(i, p)
        BY <4>3, <4>4, <4>5
      <4> QED
        BY <4>6, <4>7
    <3>3. CASE subs[i] \notin Derived
      <4>1. \A j \in 1..i : subs[j] \in Derived => \E m \in DOMAIN q : q[m] = subs[j]
        BY <2>3, <3>1, <3>3
      <4> QED
        BY <2>3, <3>3, <4>1 DEF AddComputed
    <3> QED
      BY <3>2, <3>3
  <2>4. \A k \in 0..n : \A q : q \in A[k] <=> G(k, q)
    OBVIOUS
  <2>5. 0 \in 0..n
    BY <1>1
  <2> HIDE DEF G, A
  <2> QED
    BY <2>1, <2>2, <2>3, <2>4, <2>5
<1>9. fold \in A[n]
  <2> HIDE DEF n, A
  <2> QED
    BY <1>1, <1>8, ComputedFold!FoldLeftInduction
<1>10. G(n, among[n])
  <2>1. n \in 0..n
    BY <1>1
  <2> QED
    BY <1>7, <1>9, <2>1
<1>11. \A d \in Derived : d \in Range(subs) => d \in Range(among[n])
  BY <1>1, <1>10 DEF Range
<1> QED
  BY <1>5, <1>10, <1>11 DEF Range

\* Calls nothing is counted by that notify some subscribers only.
PlainTo(calls, S) ==
    /\ Plain(calls)
    /\ \A i \in DOMAIN calls : \A c \in Derived : Notifies(calls[i], c) => c \in S

\* Calls that notify only members of S, followed by others that do.
LEMMA PlainToCat ==
  ASSUME NEW a, NEW b, NEW S, PlainTo(a, S), PlainTo(b, S)
  PROVE  PlainTo(a \o b, S)
<1>1. Plain(a \o b)
  BY PlainCat DEF PlainTo
<1>2. From(a \o b, a, b)
  BY BlockCat DEF PlainTo, Plain
<1>3. PICK s : s = a \o b
  OBVIOUS
<1> QED
  BY <1>1, <1>2, <1>3 DEF PlainTo, From

\* Invalidating subscribers notifies nobody else (invalidateSubscribers).
LEMMA InvalidatesFacts ==
  ASSUME NEW subs \in Seq(Subscribers)
  PROVE  PlainTo(Calls("invalidate", Computeds(subs), <<>>), Range(subs))
<1> DEFINE q == Computeds(subs)
<1>1. q \in Seq(Derived) /\ Range(q) \subseteq Range(subs)
  BY ComputedsFacts
<1>2. IsSeq(q) /\ \A i \in DOMAIN q : q[i] \in Derived /\ q[i] \in Range(subs)
  <2> HIDE DEF q
  <2> QED
    BY <1>1, LenProperties, ElementOfSeq DEF IsSeq, Range
<1> DEFINE calls == Calls("invalidate", q, <<>>)
<1>3. /\ IsSeq(calls) /\ DOMAIN calls = DOMAIN q
      /\ \A i \in DOMAIN q : calls[i].op = "invalidate" /\ calls[i].at = q[i]
  <2> HIDE DEF q
  <2> QED
    BY <1>2, CallsFacts
<1> HIDE DEF calls, q
<1>4. \A i \in DOMAIN calls : CallOK(calls[i])
  BY <1>2, <1>3 DEF CallOK
<1>5. \A i \in DOMAIN calls : Tag(calls[i]) = Other
  BY <1>3, TagIs DEF FrameOps
<1>6. PlainTo(calls, Range(subs))
  BY <1>2, <1>3, <1>4, <1>5 DEF PlainTo, Plain, Block, Loose, Busy, Releasing, Notifies
<1> QED
  BY <1>6 DEF calls, q

\* What a write calls notifies only subscribers of the node written (Signal.Set).
LEMMA PublishFacts ==
  ASSUME NEW subs \in Seq(Subscribers)
  PROVE  PlainTo(Publish(subs), Range(subs))
<1> DEFINE first == Calls("invalidate", Computeds(subs), <<>>)
           call == Call("batchNotify", None, subs)
           rest == IF subs = <<>> THEN <<>> ELSE <<call>>
<1>1. PlainTo(first, Range(subs))
  BY InvalidatesFacts
<1>2. PlainTo(rest, Range(subs))
  <2>1. call.op = "batchNotify" /\ call.args = subs
    BY CallIs
  <2>2. CallOK(call) /\ call.op \in PlainOps
    BY <2>1 DEF CallOK, PlainOps
  <2>3. \A c : Notifies(call, c) => c \in Range(subs)
    BY <2>1 DEF Notifies
  <2> HIDE DEF call
  <2>4. Plain(<<call>>) /\ DOMAIN <<call>> = {1} /\ <<call>>[1] = call
    BY <2>2, PlainOne, BlockOne
  <2>5. PlainTo(<<call>>, Range(subs))
    <3>1. PICK q : q = <<call>>
      OBVIOUS
    <3>2. Plain(q) /\ DOMAIN q = {1} /\ q[1] = call
      BY <2>4, <3>1
    <3>3. PlainTo(q, Range(subs))
      BY <2>3, <3>2 DEF PlainTo
    <3> QED
      BY <3>1, <3>3
  <2>6. PlainTo(<<>>, Range(subs))
    BY PlainNil, ShortSeqs DEF PlainTo
  <2> QED
    BY <2>5, <2>6
<1> HIDE DEF first, rest
<1>3. PlainTo(first \o rest, Range(subs))
  BY <1>1, <1>2, PlainToCat
<1> QED
  BY <1>3 DEF Publish, first, rest

-----------------------------------------------------------------------------
(* Dependencies.                                                            *)

\* Dependencies on different nodes.
Distinct(deps) ==
    deps \in Seq(Dependency) /\ \A i, j \in DOMAIN deps : deps[i].source = deps[j].source => i = j

\* The revisions read, or kept.
RevsOf(deps) == {deps[i].rev : i \in DOMAIN deps}

\* Whatever a function has read, its dependencies are on different nodes, each at
\* a revision that was read.
LEMMA DepsFacts ==
  ASSUME NEW reads, ReadsOK(reads)
  PROVE  Distinct(Deps(reads)) /\ RevsOf(Deps(reads)) \subseteq RevsOf(reads)
<1> DEFINE n == Len(reads)
           base == <<>>
           G(q) == Distinct(q) /\ \A j \in DOMAIN q : q[j].rev \in RevsOf(reads)
           A == [k \in 0..n |-> {q \in Seq(Dependency) : G(q)}]
<1>1. n \in Nat /\ DOMAIN reads = 1..n /\ \A i \in 1..n : reads[i].source \in Nodes /\ reads[i].rev \in Nat
  BY SeqFacts DEF ReadsOK
<1>2. G(base)
  BY EmptySeq, ShortSeqs DEF Distinct
<1>3. ASSUME NEW q, G(q), NEW i \in 1..n PROVE G(Record(q, reads[i]))
  <2>1. CASE \E j \in DOMAIN q : q[j].source = reads[i].source
    BY <1>3, <2>1 DEF Record
  <2>2. CASE \A j \in DOMAIN q : q[j].source # reads[i].source
    <3> DEFINE d == [source |-> reads[i].source, rev |-> reads[i].rev]
               p == Append(q, d)
    <3>1. d \in Dependency /\ d.source = reads[i].source /\ d.rev \in RevsOf(reads)
      BY <1>1 DEF Dependency, RevsOf
    <3>2. q \in Seq(Dependency)
      BY <1>3 DEF Distinct
    <3>3. Record(q, reads[i]) = p
      BY <2>2 DEF Record
    <3> HIDE DEF d
    <3>4. /\ p \in Seq(Dependency) /\ Len(p) = Len(q) + 1 /\ Len(q) \in Nat
          /\ DOMAIN p = 1..(Len(q) + 1) /\ DOMAIN q = 1..Len(q)
          /\ p[Len(q) + 1] = d /\ \A j \in 1..Len(q) : p[j] = q[j]
      BY <3>1, <3>2, AppendProperties, LenProperties
    <3> HIDE DEF p
    <3>5. ASSUME NEW j \in DOMAIN p, NEW k \in DOMAIN p, p[j].source = p[k].source PROVE j = k
      <4>1. CASE j \in DOMAIN q /\ k \in DOMAIN q
        BY <1>3, <3>4, <3>5, <4>1 DEF Distinct
      <4>2. CASE j \in DOMAIN q /\ k = Len(q) + 1
        BY <2>2, <3>1, <3>4, <3>5, <4>2
      <4>3. CASE k \in DOMAIN q /\ j = Len(q) + 1
        BY <2>2, <3>1, <3>4, <3>5, <4>3
      <4> QED
        BY <3>4, <4>1, <4>2, <4>3
    <3>6. \A j \in DOMAIN p : p[j].rev \in RevsOf(reads)
      BY <1>3, <3>1, <3>4
    <3> QED
      BY <3>3, <3>4, <3>5, <3>6 DEF Distinct
  <2> QED
    BY <2>1, <2>2
<1>4. \A q : G(q) => Distinct(q) /\ q \in Seq(Dependency) /\ RevsOf(q) \subseteq RevsOf(reads)
  BY DEF Distinct, RevsOf
<1> HIDE DEF base, G
<1>5. base \in A[0] /\ \A i \in 1..n : \A q \in A[i - 1] : Record(q, reads[i]) \in A[i]
  <2>1. \A i \in 1..n : i \in 0..n /\ i - 1 \in 0..n
    BY <1>1
  <2> QED
    BY <1>1, <1>2, <1>3, <1>4, <2>1
<1>6. RecordFold!Fold(base, reads) \in A[n]
  <2> HIDE DEF n, A
  <2> QED
    BY <1>1, <1>5, RecordFold!FoldLeftInduction
<1>7. Deps(reads) = RecordFold!Fold(base, reads)
  BY DEF Deps, base, RecordFold!Fold, FoldLeft, MapThenFoldSet, Max,
         RecordFold!MapThenFoldSet, RecordFold!Max
<1> QED
  BY <1>1, <1>4, <1>6, <1>7

\* The sources of dependencies are nodes, one for each.
LEMMA SourcesFacts ==
  ASSUME NEW deps \in Seq(Dependency)
  PROVE  /\ SourcesOf(deps) \in Seq(Nodes) /\ DOMAIN SourcesOf(deps) = DOMAIN deps
         /\ Len(SourcesOf(deps)) = Len(deps)
         /\ \A i \in DOMAIN deps : SourcesOf(deps)[i] = deps[i].source
<1>1. Len(deps) \in Nat /\ DOMAIN deps = 1..Len(deps) /\ \A i \in 1..Len(deps) : deps[i] \in Dependency
  BY LenProperties, ElementOfSeq
<1>2. \A d \in Dependency : d.source \in Nodes
  BY DEF Dependency
<1> QED
  BY <1>1, <1>2 DEF SourcesOf

\* How often a sequence holds something.
LEMMA CountFacts ==
  ASSUME NEW q, IsSeq(q), NEW x
  PROVE  /\ Count(q, x) \in Nat
         /\ Count(q, x) = 0 <=> x \notin Range(q)
         /\ q = <<>> => Count(q, x) = 0
         /\ \A y : Count(<<y>>, x) = IF y = x THEN 1 ELSE 0
<1> DEFINE P == {i \in DOMAIN q : q[i] = x}
<1>1. IsFiniteSet(P)
  <2>1. P \subseteq 1..Len(q) /\ Len(q) \in Nat
    BY SeqFacts
  <2>2. IsFiniteSet(1..Len(q))
    BY <2>1, FS_Interval
  <2> HIDE DEF P
  <2> QED
    BY <2>1, <2>2, FS_Subset
<1>2. Cardinality(P) \in Nat /\ (Cardinality(P) = 0 <=> P = {})
  <2> HIDE DEF P
  <2> QED
    BY <1>1, FS_CardinalityType, FS_EmptySet
<1>3. P = {} <=> x \notin Range(q)
  BY DEF Range
<1>4. q = <<>> => P = {}
  BY ShortSeqs
<1>5. ASSUME NEW y PROVE Count(<<y>>, x) = IF y = x THEN 1 ELSE 0
  <2>1. CASE y = x
    <3>1. {i \in DOMAIN <<y>> : <<y>>[i] = x} = {1}
      BY <2>1, ShortSeqs
    <3> QED
      BY <2>1, <3>1, FS_Singleton DEF Count
  <2>2. CASE y # x
    <3>1. {i \in DOMAIN <<y>> : <<y>>[i] = x} = {}
      BY <2>2, ShortSeqs
    <3> QED
      BY <2>2, <3>1, FS_EmptySet DEF Count
  <2> QED
    BY <2>1, <2>2
<1>6. Count(q, x) = Cardinality(P)
  BY DEF Count
<1> HIDE DEF P
<1> QED
  BY <1>2, <1>3, <1>4, <1>5, <1>6

\* Taking out the first occurrence of one that is there.
LEMMA RemoveFirstFacts ==
  ASSUME NEW q \in Seq(Subscribers), NEW who \in Range(q)
  PROVE  /\ RemoveFirst(q, who) \in Seq(Subscribers)
         /\ Range(RemoveFirst(q, who)) \subseteq Range(q)
         /\ \A v : /\ Count(RemoveFirst(q, who), v) \in Nat /\ Count(q, v) \in Nat
                   /\ Count(RemoveFirst(q, who), v) + (IF v = who THEN 1 ELSE 0) = Count(q, v)
<1> DEFINE n == Len(q)
           I == {i \in 1..n : q[i] = who}
           m == Min(I)
           a == SubSeq(q, 1, m - 1)
           mid == <<who>>
           z == SubSeq(q, m + 1, n)
<1>1. n \in Nat /\ DOMAIN q = 1..n /\ \A i \in 1..n : q[i] \in Subscribers
  BY LenProperties, ElementOfSeq
<1>2. I # {} /\ I \in SUBSET Nat
  BY <1>1 DEF Range
<1>3. m \in I
  <2> HIDE DEF I
  <2>1. \E x \in I : \A y \in I : x <= y
    BY <1>2, JoinFold!Least
  <2> QED
    BY <2>1 DEF Min
<1>4. m \in 1..n /\ q[m] = who
  BY <1>3
<1>5. RemoveFirst(q, who) = a \o z
  <2>1. \E i \in 1..Len(q) : q[i] = who
    BY <1>4
  <2>2. SelectInSeq(q, LAMBDA v : v = who) = m
    BY <1>2 DEF SelectInSeq
  <2> HIDE DEF m
  <2> QED
    BY <2>1, <2>2 DEF RemoveFirst, RemoveAt
<1> HIDE DEF m, I
<1>6. /\ a \in Seq(Subscribers) /\ Len(a) = m - 1 /\ \A i \in 1..(m - 1) : a[i] = q[i]
  <2>1. \A i \in 1..(m - 1) : q[i] \in Subscribers
    BY <1>1, <1>4
  <2>2. m - 1 \in Int /\ 1 \in Int /\ m - 1 >= 0
    BY <1>1, <1>4
  <2>3. /\ a \in Seq(Subscribers) /\ Len(a) = IF 1 <= m - 1 THEN m - 1 - 1 + 1 ELSE 0
        /\ \A i \in 1..(m - 1 - 1 + 1) : a[i] = q[1 + i - 1]
    BY <2>1, <2>2, SubSeqProperties
  <2> HIDE DEF a
  <2> QED
    BY <2>2, <2>3
<1>7. /\ z \in Seq(Subscribers) /\ Len(z) = n - m /\ \A i \in 1..(n - m) : z[i] = q[i + m]
  <2>1. \A i \in (m + 1)..n : q[i] \in Subscribers
    BY <1>1, <1>4
  <2>2. m + 1 \in Int /\ n \in Int /\ m \in Int /\ m <= n
    BY <1>1, <1>4
  <2> HIDE DEF n
  <2>3. /\ z \in Seq(Subscribers) /\ Len(z) = IF m + 1 <= n THEN n - (m + 1) + 1 ELSE 0
        /\ \A i \in 1..(n - (m + 1) + 1) : z[i] = q[m + 1 + i - 1]
    BY <2>1, <2>2, SubSeqProperties
  <2> HIDE DEF z
  <2> QED
    BY <2>2, <2>3
<1>8. who \in Subscribers
  BY <1>1, <1>4
<1>9. mid \in Seq(Subscribers) /\ Len(mid) = 1 /\ mid[1] = who
  BY <1>8
<1> DEFINE p == a \o (mid \o z)
<1>10. /\ p \in Seq(Subscribers) /\ Len(p) = n /\ a \o z \in Seq(Subscribers)
       /\ \A i \in 1..n : p[i] = q[i]
  <2> HIDE DEF a, mid, z, n
  <2>1. /\ mid \o z \in Seq(Subscribers) /\ Len(mid \o z) = 1 + (n - m)
        /\ \A i \in 1..(1 + (n - m)) : (mid \o z)[i] = IF i <= 1 THEN mid[i] ELSE z[i - 1]
    <3>0. mid \in Seq(Subscribers) /\ z \in Seq(Subscribers)
      BY <1>7, <1>9
    <3>1. /\ mid \o z \in Seq(Subscribers) /\ Len(mid \o z) = Len(mid) + Len(z)
          /\ \A i \in 1..(Len(mid) + Len(z)) :
               (mid \o z)[i] = IF i <= Len(mid) THEN mid[i] ELSE z[i - Len(mid)]
      BY <3>0, ConcatProperties
    <3>2. Len(mid) = 1 /\ Len(z) = n - m
      BY <1>7, <1>9
    <3> QED
      BY <3>1, <3>2
  <2> DEFINE y == mid \o z
  <2> HIDE DEF y
  <2>2. y \in Seq(Subscribers) /\ Len(y) = 1 + (n - m)
        /\ \A i \in 1..(1 + (n - m)) : y[i] = IF i <= 1 THEN mid[i] ELSE z[i - 1]
    BY <2>1 DEF y
  <2>3. /\ a \o y \in Seq(Subscribers) /\ Len(a \o y) = Len(a) + Len(y)
        /\ \A i \in 1..(Len(a) + Len(y)) : (a \o y)[i] = IF i <= Len(a) THEN a[i] ELSE y[i - Len(a)]
    BY <1>6, <2>2, ConcatProperties
  <2>4. Len(a) + Len(y) = n /\ Len(a) = m - 1 /\ n \in Nat /\ m \in 1..n
    BY <1>1, <1>4, <1>6, <2>2
  <2>5. ASSUME NEW i \in 1..n PROVE (a \o y)[i] = q[i]
    <3>1. CASE i <= m - 1
      BY <1>6, <2>3, <2>4, <3>1
    <3>2. CASE i = m
      <4>1. (a \o y)[i] = y[1]
        BY <2>3, <2>4, <3>2
      <4> QED
        BY <1>4, <1>9, <2>2, <2>4, <3>2, <4>1
    <3>3. CASE i > m
      <4>1. (a \o y)[i] = y[i - (m - 1)]
        BY <2>3, <2>4, <3>3
      <4>2. i - (m - 1) \in 1..(1 + (n - m)) /\ ~(i - (m - 1) <= 1) /\ i - (m - 1) - 1 = i - m
        BY <2>4, <3>3
      <4>3. y[i - (m - 1)] = z[i - m]
        BY <2>2, <4>2
      <4>4. i - m \in 1..(n - m) /\ (i - m) + m = i
        BY <2>4, <3>3
      <4>5. z[i - m] = q[i]
        BY <1>7, <4>4
      <4> QED
        BY <4>1, <4>3, <4>5
    <3> QED
      BY <2>4, <3>1, <3>2, <3>3
  <2>6. a \o z \in Seq(Subscribers)
    BY <1>6, <1>7, ConcatProperties
  <2> QED
    BY <2>3, <2>4, <2>5, <2>6 DEF y
<1>11. p = q
  <2> HIDE DEF p
  <2> QED
    BY <1>10, SeqEqual
<1>12. IsSeq(a) /\ IsSeq(mid) /\ IsSeq(z) /\ IsSeq(mid \o z)
  <2> HIDE DEF a, mid, z
  <2>1. mid \o z \in Seq(Subscribers)
    BY <1>7, <1>9, ConcatProperties
  <2> QED
    BY <1>6, <1>7, <1>9, <2>1 DEF IsSeq
<1>13. ASSUME NEW v
       PROVE  /\ Count(a, v) \in Nat /\ Count(z, v) \in Nat
              /\ Count(a \o z, v) = Count(a, v) + Count(z, v)
              /\ Count(p, v) = Count(a, v) + (IF v = who THEN 1 ELSE 0) + Count(z, v)
  <2>1. Count(mid, v) = IF v = who THEN 1 ELSE 0
    BY <1>12, CountFacts
  <2> HIDE DEF a, mid, z
  <2>2. Count(a, v) \in Nat /\ Count(z, v) \in Nat /\ Count(a \o z, v) = Count(a, v) + Count(z, v)
    BY <1>12, CountCat
  <2>3. Count(mid \o z, v) = Count(mid, v) + Count(z, v)
    BY <1>12, CountCat
  <2>4. Count(p, v) = Count(a, v) + Count(mid \o z, v)
    BY <1>12, CountCat
  <2> HIDE DEF p
  <2> QED
    BY <2>1, <2>2, <2>3, <2>4
<1>14. Range(a \o z) \subseteq Range(q)
  <2> SUFFICES ASSUME NEW v \in Range(a \o z) PROVE v \in Range(q)
    OBVIOUS
  <2> HIDE DEF a, z, p
  <2>1. IsSeq(a \o z) /\ IsSeq(q)
    BY <1>10 DEF IsSeq
  <2>2. Count(a \o z, v) # 0
    BY <2>1, CountFacts
  <2>3. Count(q, v) # 0
    BY <1>11, <1>13, <2>2
  <2> QED
    BY <2>1, <2>3, CountFacts
<1> HIDE DEF a, mid, z, p, n
<1> QED
  BY <1>5, <1>10, <1>11, <1>13, <1>14

\* A new subscriber.
LEMMA AppendCount ==
  ASSUME NEW q \in Seq(Subscribers), NEW who \in Subscribers
  PROVE  /\ Append(q, who) \in Seq(Subscribers)
         /\ Range(Append(q, who)) \subseteq Range(q) \cup {who}
         /\ \A v : /\ Count(q, v) \in Nat
                   /\ Count(Append(q, who), v) = Count(q, v) + (IF v = who THEN 1 ELSE 0)
<1>1. PICK last : last = <<who>>
  OBVIOUS
<1>2. last \in Seq(Subscribers) /\ \A v : Count(last, v) = IF v = who THEN 1 ELSE 0
  <2>1. PICK nil : nil = <<>>
    OBVIOUS
  <2>2. IsSeq(nil)
    BY <2>1, ShortSeqs
  <2>3. \A v : Count(<<who>>, v) = IF who = v THEN 1 ELSE 0
    BY <2>2, CountFacts
  <2> QED
    BY <1>1, <2>3
<1>3. Append(q, who) = q \o last
  BY <1>1, AppendIsConcat
<1>4. \A v : Count(q, v) \in Nat /\ Count(q \o last, v) = Count(q, v) + Count(last, v)
  BY <1>2, CountCat, ZenonT(30) DEF IsSeq
<1>5. Append(q, who) \in Seq(Subscribers)
  BY AppendProperties
<1>6. ASSUME NEW v \in Range(Append(q, who)) PROVE v \in Range(q) \cup {who}
  BY AppendProperties, LenProperties DEF Range
<1> QED
  BY <1>2, <1>3, <1>4, <1>5, <1>6

-----------------------------------------------------------------------------
(* What a step leaves alone.                                                *)

Actors == Derived \cup Effects

\* A tag that is counted for members of X only.
About(t, X) ==
    \/ t \in {Other, Ending}
    \/ \E v \in X : t \in {Frame(v), Sharing(v)}
    \/ \E v \in X \cup Watchers : \E n : t \in {On(n, v), Off(n, v)}

SameTotals(X) == \A v \in Actors \ X :
    /\ Total(stack', Frame(v)) = Total(stack, Frame(v))
    /\ Total(stack', Sharing(v)) = Total(stack, Sharing(v))
    /\ \A n \in Nodes : /\ Total(stack', On(n, v)) = Total(stack, On(n, v))
                        /\ Total(stack', Off(n, v)) = Total(stack, Off(n, v))

\* The subscriptions of what is not in X stay, and one that nobody knows is
\* not made known.
SubsKept(X) == \A v \in Actors \ X : \A n \in Nodes :
    /\ Count(node'[n].subs, v) = Count(node[n].subs, v)
    /\ v \in Range(node'[n].subs) => v \in Range(node[n].subs)

Unheard(X, calls) == \A c \in Derived \ X : Unsubscribed(c) =>
    c \notin Range(batch'.queue) /\ \A i \in DOMAIN calls : ~Notifies(calls[i], c)

\* Stack s holds the call k.
Has(s, k) == \E i \in DOMAIN s : s[i] = k

StateKept(X) ==
    /\ \A c \in Derived \ X : comp'[c] = comp[c]
    /\ \A e \in Effects \ X : effect'[e] = effect[e]
    /\ panics' = panics

\* A move neither adds to nor takes from a tag it does not mention.
LEMMA TotalKept ==
  ASSUME NEW g, NEW gone, NEW calls, Moves(g, gone, calls), NEW t, t # Other, gone # t,
         \A i \in DOMAIN calls : Tag(calls[i]) # t
  PROVE  Total(stack', t) = Total(stack, t)
<1>1. TagPlaces(calls, t) = {}
  BY DEF TagPlaces
<1>2. Num(calls, t) = 0
  BY <1>1, FS_EmptySet DEF Num
<1> QED
  BY <1>2 DEF Moves, One

\* A move that is about X keeps the count of every tag that is not.
LEMMA TotalsKept ==
  ASSUME NEW g, NEW gone, NEW calls, Moves(g, gone, calls), NEW X,
         About(gone, X), \A i \in DOMAIN calls : About(Tag(calls[i]), X)
  PROVE  SameTotals(X)
<1> SUFFICES ASSUME NEW v \in Actors \ X
             PROVE  /\ Total(stack', Frame(v)) = Total(stack, Frame(v))
                    /\ Total(stack', Sharing(v)) = Total(stack, Sharing(v))
                    /\ \A n \in Nodes : /\ Total(stack', On(n, v)) = Total(stack, On(n, v))
                                        /\ Total(stack', Off(n, v)) = Total(stack, Off(n, v))
  BY DEF SameTotals
<1>1. v \notin Watchers /\ v \notin X
  BY SignalAssumption DEF Actors
<1>2. ASSUME NEW t, About(t, X)
      PROVE  /\ t # Frame(v) /\ t # Sharing(v)
             /\ \A n : t # On(n, v) /\ t # Off(n, v)
  <2>1. CASE t = Other
    BY <2>1, TagsDiffer
  <2>2. CASE t = Ending
    BY <2>2, TagsDiffer
  <2>3. CASE \E w \in X : t \in {Frame(w), Sharing(w)}
    <3>1. PICK w \in X : t = Frame(w) \/ t = Sharing(w)
      BY <2>3
    <3>2. w # v
      BY <1>1
    <3> QED
      BY <3>1, <3>2, TagsDiffer
  <2>4. CASE \E w \in X \cup Watchers : \E n : t \in {On(n, w), Off(n, w)}
    <3>1. PICK w \in X \cup Watchers : \E n : t \in {On(n, w), Off(n, w)}
      BY <2>4
    <3>2. PICK n : t = On(n, w) \/ t = Off(n, w)
      BY <3>1
    <3>3. w # v
      BY <1>1
    <3>4. \A m : On(n, w) # On(m, v) /\ On(n, w) # Off(m, v) /\ Off(n, w) # On(m, v)
                   /\ Off(n, w) # Off(m, v)
      BY <3>3 DEF On, Off
    <3>5. On(n, w) # Frame(v) /\ On(n, w) # Sharing(v) /\ Off(n, w) # Frame(v)
            /\ Off(n, w) # Sharing(v)
      BY TagsDiffer
    <3> QED
      BY <3>2, <3>4, <3>5
  <2> QED
    BY <1>2, <2>1, <2>2, <2>3, <2>4 DEF About
<1>3. Frame(v) # Other /\ Sharing(v) # Other /\ \A n : On(n, v) # Other /\ Off(n, v) # Other
  BY TagsDiffer
<1>4. Total(stack', Frame(v)) = Total(stack, Frame(v))
  BY <1>2, <1>3, TotalKept
<1>5. Total(stack', Sharing(v)) = Total(stack, Sharing(v))
  BY <1>2, <1>3, TotalKept
<1>6. ASSUME NEW n PROVE Total(stack', On(n, v)) = Total(stack, On(n, v))
  BY <1>2, <1>3, TotalKept
<1>7. ASSUME NEW n PROVE Total(stack', Off(n, v)) = Total(stack, Off(n, v))
  BY <1>2, <1>3, TotalKept
<1> QED
  BY <1>4, <1>5, <1>6, <1>7

\* What a step does not touch is in order after it.
LEMMA OthersKeep ==
  ASSUME IInv, NEW g, NEW gone, NEW calls, Moves(g, gone, calls), NEW X,
         SameTotals(X), SubsKept(X), Unheard(X, calls), StateKept(X)
  PROVE  /\ \A c \in Derived \ X : ValueOK(c)'
         /\ \A e \in Effects \ X : EffectOK(e)'
         /\ \A v \in Actors \ X : Balanced(v)'
         /\ \A h \in Goroutines : \A k : Has(stack[h], k) /\ k.at \notin X => CallFits(h, k)'
<1>1. ASSUME NEW c \in Derived \ X PROVE ValueOK(c)'
  <2>1. /\ comp'[c] = comp[c] /\ Total(stack', Frame(c)) = Total(stack, Frame(c))
        /\ Total(stack', Sharing(c)) = Total(stack, Sharing(c))
    BY DEF StateKept, SameTotals, Actors
  <2>2. ValueOK(c)
    BY DEF IInv
  <2>3. OneFrame(c)' /\ Fresh(c)'
    BY <2>1, <2>2 DEF ValueOK, OneFrame, Fresh, Unborn
  <2>4. Quiet(c)'
    <3> SUFFICES ASSUME Unsubscribed(c)'
                 PROVE  /\ comp'[c].deps = <<>>
                        /\ \A n \in Nodes : c \notin Range(node'[n].subs)
                        /\ c \notin Range(batch'.queue)
                        /\ \A h \in Goroutines : \A i \in DOMAIN stack'[h] : ~Notifies(stack'[h][i], c)
      BY DEF Quiet, Notifies
    <3>1. Unsubscribed(c)
      BY <2>1 DEF Unsubscribed, Unborn
    <3>2. /\ comp[c].deps = <<>>
          /\ \A n \in Nodes : c \notin Range(node[n].subs)
          /\ \A h \in Goroutines : \A i \in DOMAIN stack[h] : ~Notifies(stack[h][i], c)
      BY <2>2, <3>1 DEF ValueOK, Quiet
    <3>3. c \notin Range(batch'.queue) /\ \A i \in DOMAIN calls : ~Notifies(calls[i], c)
      BY <3>1 DEF Unheard
    <3>4. \A n \in Nodes : c \notin Range(node'[n].subs)
      BY <3>2 DEF SubsKept, Actors
    <3>5. \A h \in Goroutines : \A i \in DOMAIN stack'[h] : ~Notifies(stack'[h][i], c)
      BY <3>2, <3>3 DEF Moves
    <3> QED
      BY <2>1, <3>2, <3>3, <3>4, <3>5
  <2>5. (comp[c].stopped => comp[c].deps = <<>>)'
    BY <2>1, <2>2 DEF ValueOK
  <2> QED
    BY <2>3, <2>4, <2>5 DEF ValueOK
<1>2. ASSUME NEW e \in Effects \ X PROVE EffectOK(e)'
  <2>1. effect'[e] = effect[e] /\ Total(stack', Frame(e)) = Total(stack, Frame(e))
    BY DEF StateKept, SameTotals, Actors
  <2>2. panics' = panics /\ EffectOK(e)
    BY DEF IInv, StateKept
  <2> QED
    BY <2>1, <2>2 DEF EffectOK
<1>3. ASSUME NEW v \in Actors \ X, NEW n \in Nodes
      PROVE  /\ Count(node'[n].subs, v) + Total(stack', On(n, v))
                  = Count(Kept(v)', n) + Total(stack', Off(n, v))
             /\ Total(stack', On(n, v)) <= Count(Kept(v)', n)
  <2>1. /\ Total(stack', On(n, v)) = Total(stack, On(n, v))
        /\ Total(stack', Off(n, v)) = Total(stack, Off(n, v))
        /\ Count(node'[n].subs, v) = Count(node[n].subs, v)
    BY DEF SameTotals, SubsKept
  <2>2. Kept(v)' = Kept(v)
    BY DEF Kept, StateKept, Actors
  <2>3. Balanced(v)
    BY DEF IInv, Actors
  <2> QED
    BY <2>1, <2>2, <2>3 DEF Balanced
<1>4. ASSUME NEW h \in Goroutines, NEW k, Has(stack[h], k), k.at \notin X
      PROVE  CallFits(h, k)'
  <2>1. CallOK(k) /\ CallFits(h, k)
    BY <1>4 DEF IInv, Types, CallsOK, CallsFit, Has
  <2>2. k.op \in Releasing => Mu(k.at)' = h
    BY <1>4, <2>1 DEF CallOK, CallFits, Mu, StateKept, Releasing
  <2>3. k.op \in {"loop", "check", "compare", "recheck", "commit", "born"} => comp'[k.at] = comp[k.at]
    BY <1>4, <2>1 DEF CallOK, StateKept
  <2> QED
    BY <2>1, <2>2, <2>3 DEF CallFits
<1> QED
  BY <1>1, <1>2, <1>3, <1>4 DEF Balanced

\* A step that leaves all but X alone keeps the invariant if it keeps it at X.
LEMMA StepKeeps ==
  ASSUME IInv, NEW g \in Goroutines, NEW gone, NEW calls, Moves(g, gone, calls), NEW X,
         SameTotals(X), SubsKept(X), Unheard(X, calls), StateKept(X),
         NodeShape', CompShape', EffectShape', BatchShape',
         \A c \in Derived \cap X : ValueOK(c)',
         \A e \in Effects \cap X : EffectOK(e)',
         \A v \in Actors \cap X : Balanced(v)',
         \A k : Has(calls, k) => CallFits(g, k)',
         \A h \in Goroutines : \A k :
            Has(stack[h], k) /\ Has(stack'[h], k) /\ k.at \in X => CallFits(h, k)'
  PROVE  IInv'
<1>2. /\ \A c \in Derived \ X : ValueOK(c)'
      /\ \A e \in Effects \ X : EffectOK(e)'
      /\ \A v \in Actors \ X : Balanced(v)'
      /\ \A h \in Goroutines : \A k : Has(stack[h], k) /\ k.at \notin X => CallFits(h, k)'
  BY OthersKeep
<1>3. CallsFit'
  <2> SUFFICES ASSUME NEW h \in Goroutines, NEW i \in DOMAIN stack'[h],
                      NEW k, k = stack'[h][i]
               PROVE  CallFits(h, k)'
    BY DEF CallsFit, CallFits
  <2>1. Has(stack'[h], k)
    BY DEF Has
  <2>2. \/ Has(stack[h], k)
        \/ h = g /\ Has(calls, k)
    BY DEF Moves, Has
  <2> QED
    BY <1>2, <2>1, <2>2
<1>4. Types'
  <2>1. panics' \in Nat
    BY DEF IInv, Types, StateKept
  <2> QED
    BY <2>1 DEF Types, Moves
<1>5. StacksNested'
  BY DEF Moves
<1>6. \A c \in Derived : ValueOK(c)'
  BY <1>2
<1>7. \A e \in Effects : EffectOK(e)'
  BY <1>2
<1>8. \A v \in Actors : Balanced(v)'
  BY <1>2
<1> QED
  BY <1>3, <1>4, <1>5, <1>6, <1>7, <1>8 DEF IInv, Actors

\* The depth of the batch stays when no Batch starts or ends.
LEMMA BatchKept ==
  ASSUME BatchShape, NEW g, NEW gone, NEW calls, Moves(g, gone, calls), gone # Ending,
         \A i \in DOMAIN calls : Tag(calls[i]) # Ending,
         batch' = [batch EXCEPT !.queue = batch'.queue], batch'.queue \in Seq(Subscribers)
  PROVE  BatchShape'
<1>1. Total(stack', Ending) = Total(stack, Ending)
  BY TotalKept, TagsDiffer
<1> QED
  BY <1>1 DEF BatchShape

\* The parts of the invariant.
LEMMA IInvFacts ==
  ASSUME IInv
  PROVE  /\ StackShape /\ CallsOK /\ StacksNested /\ NodeShape /\ CompShape /\ EffectShape
         /\ BatchShape /\ panics \in Nat
         /\ \A c \in Derived : ValueOK(c)
         /\ \A e \in Effects : EffectOK(e)
         /\ \A v \in Actors : Balanced(v)
BY DEF IInv, Types, Actors

\* Calls that nothing is counted by, in a step that changes neither derived
\* values nor effects.
LEMMA QuietStep ==
  ASSUME IInv, NEW g \in Goroutines, NEW gone \in {Other, Ending}, NEW calls,
         Moves(g, gone, calls), NEW S, PlainTo(calls, S),
         \A c \in Derived : Unsubscribed(c) => c \notin S /\ c \notin Range(batch'.queue),
         UNCHANGED <<comp, effect, panics>>,
         NodeShape', \A n \in Nodes : node'[n].subs = node[n].subs, BatchShape'
  PROVE  IInv'
<1>1. PICK X : X = {}
  OBVIOUS
<1>2. SameTotals(X)
  <2>1. About(gone, X) /\ \A i \in DOMAIN calls : About(Tag(calls[i]), X)
    BY DEF About, PlainTo, Plain
  <2> QED
    BY <2>1, TotalsKept
<1>3. SubsKept(X)
  BY DEF SubsKept
<1>4. Unheard(X, calls)
  BY DEF Unheard, PlainTo
<1>5. StateKept(X)
  BY DEF StateKept
<1>6. CompShape' /\ EffectShape'
  BY IInvFacts DEF CompShape, EffectShape
<1>7. ASSUME NEW k, Has(calls, k) PROVE CallFits(g, k)'
  <2>1. k.op \notin Busy /\ Tag(k) = Other
    BY <1>7 DEF PlainTo, Plain, Loose, Has
  <2>2. k.op \notin FrameOps
    BY <2>1, TagIs, TagsDiffer
  <2> QED
    BY <2>1, <2>2 DEF CallFits, Busy, FrameOps
<1>8. /\ \A c \in Derived \cap X : ValueOK(c)'
      /\ \A e \in Effects \cap X : EffectOK(e)'
      /\ \A v \in Actors \cap X : Balanced(v)'
      /\ \A h \in Goroutines : \A k :
            Has(stack[h], k) /\ Has(stack'[h], k) /\ k.at \in X => CallFits(h, k)'
  BY <1>1
<1> QED
  BY <1>2, <1>3, <1>4, <1>5, <1>6, <1>7, <1>8, StepKeeps

\* A step that pops a call outside evaluations and critical sections, and changes at
\* most the batch, keeps the invariant.
LEMMA QuietGoes ==
  ASSUME IInv, NEW g \in Goroutines, ~Idle(g), Tag(Top(g)) \in {Other, Ending}, NEW calls,
         Goes(g, calls), NEW S, PlainTo(calls, S),
         \A c \in Derived : Unsubscribed(c) => c \notin S,
         UNCHANGED <<node, comp, effect, panics>>,
         Moves(g, Tag(Top(g)), calls)
           => BatchShape' /\ \A c \in Derived : Unsubscribed(c) => c \notin Range(batch'.queue)
  PROVE  IInv'
<1>1. Top(g).op \notin {"on", "off"}
  BY TagIs, TagsDiffer
<1>2. /\ Block(calls) /\ Nested(calls) /\ \A i \in DOMAIN calls : calls[i].op # "endBatch"
  BY PlainFacts DEF PlainTo
<1>3. Moves(g, Tag(Top(g)), calls)
  BY <1>1, <1>2, IInvFacts, GoesMoves
<1>4. NodeShape' /\ \A n \in Nodes : node'[n].subs = node[n].subs
  BY IInvFacts DEF NodeShape
<1> QED
  BY <1>3, <1>4, QuietStep

\* The same where the batch does not change either.
LEMMA StillGoes ==
  ASSUME IInv, NEW g \in Goroutines, ~Idle(g), Tag(Top(g)) = Other, NEW calls,
         Goes(g, calls), NEW S, PlainTo(calls, S),
         \A c \in Derived : Unsubscribed(c) => c \notin S,
         UNCHANGED <<node, comp, effect, batch, panics>>
  PROVE  IInv'
<1>1. ASSUME Moves(g, Tag(Top(g)), calls)
      PROVE  BatchShape' /\ \A c \in Derived : Unsubscribed(c) => c \notin Range(batch'.queue)
  <2>1. \A i \in DOMAIN calls : Tag(calls[i]) # Ending
    BY TagsDiffer DEF PlainTo, Plain
  <2>2. BatchShape' 
    BY <1>1, <2>1, IInvFacts, TagsDiffer, BatchKept DEF BatchShape
  <2>3. \A c \in Derived : Unsubscribed(c) => c \notin Range(batch.queue)
    BY IInvFacts DEF ValueOK, Quiet
  <2> QED
    BY <2>2, <2>3
<1> QED
  BY <1>1, QuietGoes

\* Calls that notify nobody.
LEMMA NobodyHeard ==
  /\ PlainTo(<<>>, {}) /\ \A n : PlainTo(Refresh(n), {})
  /\ \A c \in Derived : Unsubscribed(c) => c \notin {}
<1>1. PlainTo(<<>>, {})
  BY PlainNil, ShortSeqs DEF PlainTo
<1>2. ASSUME NEW n PROVE PlainTo(Refresh(n), {})
  BY RefreshFacts DEF PlainTo, Notifies
<1> QED
  BY <1>1, <1>2

\* Whoever subscribes, waits in the batch or is called has subscribed before.
LEMMA HeardOf ==
  ASSUME IInv, NEW c \in Derived, Unsubscribed(c)
  PROVE  /\ \A n \in Nodes : c \notin Range(node[n].subs)
         /\ c \notin Range(batch.queue)
         /\ \A g \in Goroutines : ~Idle(g) => ~Notifies(Top(g), c)
<1>1. Quiet(c)
  BY IInvFacts DEF ValueOK
<1>2. \A g \in Goroutines : ~Idle(g) => 1 \in DOMAIN stack[g] /\ Top(g) = stack[g][1]
  BY IInvFacts, TopFacts
<1> QED
  BY <1>1, <1>2 DEF Quiet

-----------------------------------------------------------------------------
(* Steps that change neither subscriptions nor evaluations.                 *)

\* An operation that begins with such calls and changes at most the value of a node
\* keeps the invariant.
LEMMA StillBegins ==
  ASSUME IInv, NEW g \in Goroutines, NEW calls, Begins(g, calls), NEW S, PlainTo(calls, S),
         \A c \in Derived : Unsubscribed(c) => c \notin S,
         UNCHANGED <<comp, effect, batch, panics>>,
         NodeShape', \A n \in Nodes : node'[n].subs = node[n].subs
  PROVE  IInv'
<1>1. Block(calls) /\ Nested(calls)
  BY PlainFacts DEF PlainTo
<1>2. Moves(g, Other, calls)
  BY <1>1, IInvFacts, BeginsMoves
<1>3. \A i \in DOMAIN calls : Tag(calls[i]) # Ending
  BY TagsDiffer DEF PlainTo, Plain
<1>4. BatchShape'
  BY <1>2, <1>3, IInvFacts, TagsDiffer, BatchKept DEF BatchShape
<1>5. \A c \in Derived : Unsubscribed(c) => c \notin S /\ c \notin Range(batch'.queue)
  BY HeardOf
<1> QED
  BY <1>2, <1>4, <1>5, QuietStep

\* One call that notifies only members of S.
LEMMA OnePlainTo ==
  ASSUME NEW call, CallOK(call), call.op \in PlainOps, NEW S,
         \A c \in Derived : Notifies(call, c) => c \in S
  PROVE  PlainTo(<<call>>, S)
<1>1. PICK q : q = <<call>>
  OBVIOUS
<1>2. Plain(q) /\ DOMAIN q = {1} /\ q[1] = call
  BY <1>1, PlainOne, BlockOne
<1>3. PlainTo(q, S)
  BY <1>2 DEF PlainTo
<1> QED
  BY <1>1, <1>3

\* One node changes.
LEMMA NodeChange ==
  ASSUME NodeShape, NEW s \in Nodes, NEW v, NEW r \in Nat, NEW q \in Seq(Subscribers),
         node' = [node EXCEPT ![s] = [value |-> v, rev |-> r, subs |-> q]]
  PROVE  /\ NodeShape' /\ node'[s].subs = q
         /\ \A n \in Nodes : n # s => node'[n] = node[n]
<1>1. node = [n \in Nodes |-> [value |-> node[n].value, rev |-> node[n].rev, subs |-> node[n].subs]]
  BY DEF NodeShape
<1>2. DOMAIN node = Nodes
  BY <1>1
<1> DEFINE new == [value |-> v, rev |-> r, subs |-> q]
<1>3. node' = [n \in Nodes |-> IF n = s THEN new ELSE node[n]]
  BY <1>2
<1>4. new = [value |-> new.value, rev |-> new.rev, subs |-> new.subs] /\ new.rev = r /\ new.subs = q
  OBVIOUS
<1> HIDE DEF new
<1>5. node'[s] = new /\ \A n \in Nodes : n # s => node'[n] = node[n]
  BY <1>3
<1>6. ASSUME NEW n \in Nodes
      PROVE  node'[n] = [value |-> node'[n].value, rev |-> node'[n].rev, subs |-> node'[n].subs]
  <2>1. CASE n = s
    BY <1>4, <1>5, <2>1
  <2>2. CASE n # s
    <3>1. node[n] = [value |-> node[n].value, rev |-> node[n].rev, subs |-> node[n].subs]
      BY <1>1
    <3> QED
      BY <1>5, <2>2, <3>1
  <2> QED
    BY <2>1, <2>2
<1>7. node' = [n \in Nodes |-> node'[n]]
  BY <1>3
<1>8. node' = [n \in Nodes |-> [value |-> node'[n].value, rev |-> node'[n].rev, subs |-> node'[n].subs]]
  BY <1>6, <1>7
<1>9. \A n \in Nodes : node'[n].rev \in Nat /\ node'[n].subs \in Seq(Subscribers)
  BY <1>4, <1>5 DEF NodeShape
<1> QED
  BY <1>4, <1>5, <1>8, <1>9 DEF NodeShape

\* Writing a node leaves every subscription alone.
LEMMA NodeSet ==
  ASSUME NodeShape, NEW s \in Nodes, NEW v,
         \/ node' = [node EXCEPT ![s].value = v, ![s].rev = @ + 1]
         \/ node' = [node EXCEPT ![s].value = v]
  PROVE  NodeShape' /\ \A n \in Nodes : node'[n].subs = node[n].subs
<1>1. /\ node[s] = [value |-> node[s].value, rev |-> node[s].rev, subs |-> node[s].subs]
      /\ node[s].rev \in Nat /\ node[s].subs \in Seq(Subscribers) /\ DOMAIN node = Nodes
  BY DEF NodeShape
<1>2. PICK r \in Nat : node' = [node EXCEPT ![s] = [value |-> v, rev |-> r, subs |-> node[s].subs]]
  <2>1. CASE node' = [node EXCEPT ![s].value = v, ![s].rev = @ + 1]
    BY <1>1, <2>1
  <2>2. CASE node' = [node EXCEPT ![s].value = v]
    BY <1>1, <2>2, ZenonT(30)
  <2> QED
    BY <2>1, <2>2
<1>3. NodeShape' /\ node'[s].subs = node[s].subs /\ \A n \in Nodes : n # s => node'[n] = node[n]
  BY <1>1, <1>2, NodeChange
<1> QED
  BY <1>3

\* Set (Signal.Set) keeps the invariant.
LEMMA SetKeeps ==
  ASSUME IInv, NEW g \in Goroutines, NEW s \in Bases, NEW v \in Values(s), Set(g, s, v)
  PROVE  IInv'
<1> DEFINE calls == Publish(node[s].subs) \o <<Call("endSet", None, <<>>)>>
           S == Range(node[s].subs)
<1>1. s \in Nodes /\ node[s].subs \in Seq(Subscribers) /\ node[s].rev \in Nat
  BY IInvFacts DEF NodeShape, Nodes
<1>2. PlainTo(calls, S)
  <2> DEFINE end == Call("endSet", None, <<>>)
             subs == node[s].subs
  <2>1. CallOK(end) /\ end.op \in PlainOps /\ \A c : ~Notifies(end, c)
    BY CallIs DEF CallOK, PlainOps, Notifies
  <2> HIDE DEF end
  <2>2. PlainTo(<<end>>, S)
    BY <2>1, OnePlainTo
  <2> HIDE DEF subs
  <2>3. PlainTo(Publish(subs), Range(subs))
    BY <1>1, PublishFacts DEF subs
  <2>4. PlainTo(Publish(subs), S)
    BY <2>3 DEF subs
  <2>5. PlainTo(Publish(subs) \o <<end>>, S)
    BY <2>2, <2>4, PlainToCat
  <2> QED
    BY <2>5 DEF subs, end
<1>3. \A c \in Derived : Unsubscribed(c) => c \notin S
  BY <1>1, HeardOf
<1>4. NodeShape' /\ \A n \in Nodes : node'[n].subs = node[n].subs
  BY <1>1, IInvFacts, NodeSet DEF Set
<1>5. Begins(g, calls) /\ UNCHANGED <<comp, effect, batch, panics>>
  BY DEF Set
<1> HIDE DEF calls, S
<1> QED
  BY <1>2, <1>3, <1>4, <1>5, StillBegins

\* Get (Computed.Get) keeps the invariant.
LEMMA GetKeeps ==
  ASSUME IInv, NEW g \in Goroutines, NEW c \in Derived, Get(g, c)
  PROVE  IInv'
<1>1. NodeShape' /\ \A n \in Nodes : node'[n].subs = node[n].subs
  BY IInvFacts DEF Get, NodeShape
<1>2. Begins(g, Refresh(c)) /\ UNCHANGED <<comp, effect, batch, panics>>
  BY DEF Get
<1> QED
  BY <1>1, <1>2, NobodyHeard, StillBegins

\* InvalidateSubscribers (Signal.invalidateSubscribers) keeps the invariant.
LEMMA InvalidateSubscribersKeeps ==
  ASSUME IInv, NEW g \in Goroutines, InvalidateSubscribers(g)
  PROVE  IInv'
<1> DEFINE n == Top(g).at
           subs == node[n].subs
           calls == Calls("invalidate", Computeds(subs), <<>>)
<1>1. ~Idle(g) /\ Top(g).op = "invalidateSubscribers" /\ Goes(g, calls)
        /\ UNCHANGED <<node, comp, effect, batch, panics>>
  BY DEF InvalidateSubscribers, At
<1>2. CallOK(Top(g))
  BY <1>1, IInvFacts, TopFacts
<1>3. n \in Nodes /\ subs \in Seq(Subscribers)
  BY <1>1, <1>2, IInvFacts DEF CallOK, Nodes, NodeShape
<1>4. PlainTo(calls, Range(subs))
  <2> HIDE DEF subs
  <2> QED
    BY <1>3, InvalidatesFacts
<1>5. \A c \in Derived : Unsubscribed(c) => c \notin Range(subs)
  BY <1>3, HeardOf
<1>6. Tag(Top(g)) = Other
  BY <1>1, TagIs DEF FrameOps
<1> HIDE DEF calls, subs
<1> QED
  BY <1>1, <1>4, <1>5, <1>6, StillGoes

\* BatchNotify (batchNotify) keeps the invariant.
LEMMA BatchNotifyKeeps ==
  ASSUME IInv, NEW g \in Goroutines, BatchNotify(g)
  PROVE  IInv'
<1> DEFINE args == Top(g).args
<1>1. ~Idle(g) /\ Top(g).op = "batchNotify" /\ UNCHANGED <<node, comp, effect, panics>>
  BY DEF BatchNotify, At
<1>2. CallOK(Top(g))
  BY <1>1, IInvFacts, TopFacts
<1>3. args \in Seq(Subscribers)
  BY <1>1, <1>2 DEF CallOK
<1>4. Tag(Top(g)) = Other
  BY <1>1, TagIs DEF FrameOps
<1>5. ASSUME NEW c \in Derived, Unsubscribed(c) PROVE c \notin Range(args) /\ c \notin Range(batch.queue)
  <2>1. ~Notifies(Top(g), c) /\ c \notin Range(batch.queue)
    BY <1>1, <1>5, HeardOf
  <2> QED
    BY <1>1, <2>1 DEF Notifies
<1> HIDE DEF args
<1>6. CASE batch.depth > 0
  <2>1. batch' = [batch EXCEPT !.queue = @ \o args] /\ Goes(g, <<>>)
    BY <1>6 DEF BatchNotify, args
  <2>2. batch.queue \in Seq(Subscribers) /\ batch = [depth |-> batch.depth, queue |-> batch.queue]
    BY IInvFacts DEF BatchShape
  <2>3. batch'.queue = batch.queue \o args /\ batch'.depth = batch.depth
          /\ batch' = [batch EXCEPT !.queue = batch'.queue]
    BY <2>1, <2>2
  <2>4. batch'.queue \in Seq(Subscribers)
    BY <1>3, <2>2, <2>3, ConcatProperties
  <2>5. ASSUME NEW c \in Range(batch'.queue) PROVE c \in Range(batch.queue) \cup Range(args)
    <3>1. IsSeq(batch.queue) /\ IsSeq(args)
      BY <1>3, <2>2 DEF IsSeq
    <3>2. PICK i \in DOMAIN (batch.queue \o args) : c = (batch.queue \o args)[i]
      BY <2>3, <2>5 DEF Range
    <3>3. \/ i \in 1..Len(batch.queue) /\ c = batch.queue[i]
          \/ i - Len(batch.queue) \in 1..Len(args) /\ c = args[i - Len(batch.queue)]
      BY <3>1, <3>2, CatSeq
    <3>4. DOMAIN batch.queue = 1..Len(batch.queue) /\ DOMAIN args = 1..Len(args)
      BY <3>1, CatSeq
    <3> QED
      BY <3>3, <3>4 DEF Range
  <2>6. \A i \in DOMAIN <<>> : Tag(<<>>[i]) # Ending
    BY ShortSeqs
  <2>7. ASSUME Moves(g, Tag(Top(g)), <<>>)
        PROVE  BatchShape' /\ \A c \in Derived : Unsubscribed(c) => c \notin Range(batch'.queue)
    <3>1. BatchShape'
      BY <1>4, <2>3, <2>4, <2>6, <2>7, IInvFacts, TagsDiffer, BatchKept
    <3> QED
      BY <1>5, <2>5, <3>1
  <2>8. Goes(g, <<>>)
    BY <2>1
  <2> QED
    BY <1>1, <1>4, <2>7, <2>8, NobodyHeard, QuietGoes
<1>7. CASE ~(batch.depth > 0)
  <2>1. Goes(g, CallsOf(args)) /\ batch' = batch
    BY <1>7 DEF BatchNotify, args
  <2>2. PlainTo(CallsOf(args), Range(args))
    BY <1>3, CallsOfFacts DEF PlainTo
  <2> QED
    BY <1>1, <1>4, <1>5, <2>1, <2>2, StillGoes
<1> QED
  BY <1>6, <1>7

\* EndSet (the return of Signal.Set) keeps the invariant.
LEMMA EndSetKeeps ==
  ASSUME IInv, NEW g \in Goroutines, EndSet(g)
  PROVE  IInv'
<1>1. ~Idle(g) /\ Top(g).op = "endSet" /\ Goes(g, <<>>)
        /\ UNCHANGED <<node, comp, effect, batch, panics>>
  BY DEF EndSet, At
<1>2. Tag(Top(g)) = Other
  BY <1>1, TagIs DEF FrameOps
<1> QED
  BY <1>1, <1>2, NobodyHeard, StillGoes

\* Wake (Computed.onDepChange, its notification) keeps the invariant.
LEMMA WakeKeeps ==
  ASSUME IInv, NEW g \in Goroutines, Wake(g)
  PROVE  IInv'
<1> DEFINE calls == IF node[Top(g).at].subs = <<>> THEN <<>> ELSE Refresh(Top(g).at)
<1>1. ~Idle(g) /\ Top(g).op = "wake" /\ Goes(g, calls)
        /\ UNCHANGED <<node, comp, effect, batch, panics>>
  BY DEF Wake, At
<1>2. Tag(Top(g)) = Other
  BY <1>1, TagIs DEF FrameOps
<1>3. PlainTo(calls, {})
  BY NobodyHeard
<1> HIDE DEF calls
<1> QED
  BY <1>1, <1>2, <1>3, NobodyHeard, StillGoes

\* Callback (a subscriber of the application) keeps the invariant.
LEMMA CallbackKeeps ==
  ASSUME IInv, NEW g \in Goroutines, Callback(g)
  PROVE  IInv'
<1> DEFINE w == Top(g).at
           look == Call("look", w, <<>>)
           refresh == Refresh(WatchedBy(w))
           calls == refresh \o <<look>>
<1>1. ~Idle(g) /\ Top(g).op = "callback" /\ Goes(g, calls)
        /\ UNCHANGED <<node, comp, effect, batch, panics>>
  BY DEF Callback, At
<1>2. Tag(Top(g)) = Other
  BY <1>1, TagIs DEF FrameOps
<1>3. w \in Watchers
  BY <1>1, IInvFacts, TopFacts DEF CallOK
<1>4. CallOK(look) /\ look.op \in PlainOps /\ \A c : ~Notifies(look, c)
  <2> HIDE DEF w
  <2> QED
    BY <1>3, CallIs DEF CallOK, PlainOps, Notifies
<1> HIDE DEF look
<1>5. PlainTo(<<look>>, {})
  BY <1>4, OnePlainTo
<1>6. PlainTo(refresh, {})
  BY NobodyHeard
<1> HIDE DEF refresh
<1>7. PlainTo(calls, {})
  BY <1>5, <1>6, PlainToCat
<1> HIDE DEF calls
<1> QED
  BY <1>1, <1>2, <1>7, NobodyHeard, StillGoes

\* Look (a subscriber's read) keeps the invariant.
LEMMA LookKeeps ==
  ASSUME IInv, NEW g \in Goroutines, Look(g)
  PROVE  IInv'
<1>1. ~Idle(g) /\ Top(g).op = "look" /\ Goes(g, <<>>)
        /\ UNCHANGED <<node, comp, effect, batch, panics>>
  BY DEF Look, At
<1>2. Tag(Top(g)) = Other
  BY <1>1, TagIs DEF FrameOps
<1> QED
  BY <1>1, <1>2, NobodyHeard, StillGoes

\* EndBatch (the deferred end of Batch) keeps the invariant.
LEMMA EndBatchKeeps ==
  ASSUME IInv, NEW g \in Goroutines, EndBatch(g)
  PROVE  IInv'
<1>1. ~Idle(g) /\ Top(g).op = "endBatch" /\ UNCHANGED <<node, comp, effect, panics>>
  BY DEF EndBatch, At
<1>2. Tag(Top(g)) = Ending
  BY <1>1, TagIs
<1>3. batch = [depth |-> batch.depth, queue |-> batch.queue] /\ batch.queue \in Seq(Subscribers)
        /\ batch.depth = Total(stack, Ending)
  BY IInvFacts DEF BatchShape
<1>4. \A calls : Moves(g, Ending, calls) /\ Plain(calls)
         => Total(stack', Ending) + 1 = Total(stack, Ending) /\ Total(stack', Ending) \in Nat
              /\ Total(stack, Ending) \in Nat
  <2> SUFFICES ASSUME NEW calls, Moves(g, Ending, calls), Plain(calls)
               PROVE  Total(stack', Ending) + 1 = Total(stack, Ending)
                        /\ Total(stack', Ending) \in Nat /\ Total(stack, Ending) \in Nat
    OBVIOUS
  <2>1. Num(calls, Ending) = 0
    BY PlainFacts, TagsDiffer
  <2> QED
    BY <2>1, TagsDiffer DEF Moves, One
<1>5. CASE batch.depth = 1
  <2>1. batch' = [depth |-> 0, queue |-> <<>>] /\ Goes(g, CallsOf(batch.queue))
    BY <1>5 DEF EndBatch
  <2>2. PlainTo(CallsOf(batch.queue), Range(batch.queue))
    BY <1>3, CallsOfFacts DEF PlainTo
  <2>3. Plain(CallsOf(batch.queue))
    BY <2>2 DEF PlainTo
  <2>4. ASSUME Moves(g, Tag(Top(g)), CallsOf(batch.queue))
        PROVE  BatchShape' /\ \A c \in Derived : Unsubscribed(c) => c \notin Range(batch'.queue)
    <3>1. Total(stack', Ending) = 0
      BY <1>2, <1>3, <1>4, <1>5, <2>3, <2>4
    <3>2. batch'.depth = 0 /\ batch'.queue = <<>> /\ batch' = [depth |-> batch'.depth, queue |-> batch'.queue]
      BY <2>1
    <3>3. <<>> \in Seq(Subscribers)
      BY EmptySeq
    <3>4. \A c : c \notin Range(<<>>)
      BY ShortSeqs DEF Range
    <3> QED
      BY <3>1, <3>2, <3>3, <3>4 DEF BatchShape
  <2>5. \A c \in Derived : Unsubscribed(c) => c \notin Range(batch.queue)
    BY HeardOf
  <2> QED
    BY <1>1, <1>2, <2>1, <2>2, <2>4, <2>5, QuietGoes
<1>6. CASE batch.depth # 1
  <2>1. batch' = [batch EXCEPT !.depth = @ - 1] /\ Goes(g, <<>>)
    BY <1>6 DEF EndBatch
  <2>2. ASSUME Moves(g, Tag(Top(g)), <<>>)
        PROVE  BatchShape' /\ \A c \in Derived : Unsubscribed(c) => c \notin Range(batch'.queue)
    <3>1. Total(stack', Ending) + 1 = Total(stack, Ending) /\ Total(stack', Ending) \in Nat
            /\ Total(stack, Ending) \in Nat
      BY <1>2, <1>4, <2>2, PlainNil
    <3>2. batch'.depth = batch.depth - 1 /\ batch'.queue = batch.queue
            /\ batch' = [depth |-> batch'.depth, queue |-> batch'.queue]
      BY <1>3, <2>1
    <3> QED
      BY <1>3, <3>1, <3>2, HeardOf DEF BatchShape
  <2>3. Goes(g, <<>>)
    BY <2>1
  <2> QED
    BY <1>1, <1>2, <2>2, <2>3, NobodyHeard, QuietGoes
<1> QED
  BY <1>5, <1>6

\* Batch (Batch) keeps the invariant.
LEMMA BatchKeeps ==
  ASSUME IInv, NEW g \in Goroutines, Batch(g)
  PROVE  IInv'
<1> DEFINE end == Call("endBatch", None, <<>>)
           calls == <<end>>
<1>1. Begins(g, calls) /\ UNCHANGED <<node, comp, effect, panics>>
        /\ batch' = [batch EXCEPT !.depth = @ + 1]
  BY DEF Batch
<1>2. end.op = "endBatch" /\ CallOK(end) /\ \A c : ~Notifies(end, c)
  BY CallIs DEF CallOK, Notifies
<1> HIDE DEF end
<1>3. Tag(end) = Ending
  BY <1>2, TagIs
<1>4. Block(calls) /\ DOMAIN calls = {1} /\ calls[1] = end /\ \A t : Num(calls, t) = One(Tag(end), t)
  BY <1>2, BlockOne
<1> HIDE DEF calls
<1>5. Nested(calls)
  BY <1>2, <1>4 DEF Nested, Busy, Releasing
<1>6. Moves(g, Other, calls)
  BY <1>1, <1>4, <1>5, IInvFacts, BeginsMoves
<1>7. BatchShape'
  <2>1. Total(stack', Ending) = Total(stack, Ending) + 1
    BY <1>3, <1>4, <1>6, TagsDiffer DEF Moves, One
  <2> QED
    BY <1>1, <2>1, IInvFacts DEF BatchShape
<1>8. PICK X : X = {}
  OBVIOUS
<1>9. SameTotals(X)
  <2>1. About(Other, X) /\ \A i \in DOMAIN calls : About(Tag(calls[i]), X)
    BY <1>3, <1>4 DEF About
  <2> QED
    BY <1>6, <2>1, TotalsKept
<1>10. SubsKept(X) /\ StateKept(X)
  BY <1>1 DEF SubsKept, StateKept
<1>11. Unheard(X, calls)
  <2>1. batch'.queue = batch.queue
    BY <1>1, IInvFacts DEF BatchShape
  <2> QED
    BY <1>2, <1>4, <2>1, HeardOf DEF Unheard
<1>12. NodeShape' /\ CompShape' /\ EffectShape'
  BY <1>1, IInvFacts DEF NodeShape, CompShape, EffectShape
<1>13. \A k : Has(calls, k) => CallFits(g, k)'
  BY <1>2, <1>4 DEF Has, CallFits, Releasing
<1>14. /\ \A c \in Derived \cap X : ValueOK(c)'
       /\ \A e \in Effects \cap X : EffectOK(e)'
       /\ \A v \in Actors \cap X : Balanced(v)'
       /\ \A h \in Goroutines : \A k :
            Has(stack[h], k) /\ Has(stack'[h], k) /\ k.at \in X => CallFits(h, k)'
  BY <1>8
<1> QED
  BY <1>6, <1>7, <1>9, <1>10, <1>11, <1>12, <1>13, <1>14, StepKeeps

-----------------------------------------------------------------------------
(* An evaluation goes on.                                                   *)

\* Calls nothing is counted by, then one that may be.
LEMMA NextCall ==
  ASSUME NEW pre, PlainTo(pre, {}), NEW call, CallOK(call),
         call.op \notin {"on", "off", "endBatch"}, pre = <<>> \/ call.op \notin Releasing
  PROVE  LET calls == Append(pre, call)
         IN /\ Block(calls) /\ Nested(calls)
            /\ \A i \in DOMAIN calls : calls[i].op # "endBatch"
            /\ \A t : t # Other => Num(calls, t) = One(Tag(call), t)
            /\ \A i \in DOMAIN calls : Tag(calls[i]) \in {Other, Tag(call)}
            /\ \A k : Has(calls, k) => \/ k = call
                                       \/ k.op \notin Busy \cup FrameOps
            /\ \A c \in Derived : ~Notifies(call, c)
                 => \A i \in DOMAIN calls : ~Notifies(calls[i], c)
<1> DEFINE calls == Append(pre, call)
<1>1. Plain(pre) /\ Block(pre) /\ Loose(pre)
  BY DEF PlainTo, Plain
<1>2. /\ Block(calls)
      /\ \A t : Num(calls, t) = Num(pre, t) + One(Tag(call), t)
      /\ EndsWith(calls, pre, call)
  BY <1>1, AppendFacts
<1> HIDE DEF calls
<1>3. \A t : t # Other => Num(calls, t) = One(Tag(call), t)
  <2>1. \A t : t # Other => Num(pre, t) = 0
    BY <1>1, PlainFacts
  <2> QED
    BY <1>2, <2>1 DEF One
<1>4. \A i \in DOMAIN calls : \/ calls[i] = call
                              \/ /\ calls[i].op \notin Busy /\ calls[i].op # "endBatch"
                                 /\ Tag(calls[i]) = Other
                                 /\ \A c \in Derived : ~Notifies(calls[i], c)
  BY <1>2 DEF PlainTo, Plain, Loose, EndsWith
<1>5. Nested(calls)
  <2>1. \A i \in DOMAIN calls : calls[i].op \notin {"on", "off", "endBatch"}
    BY <1>4 DEF Busy
  <2>2. CASE call.op \notin Releasing
    <3>1. \A i \in DOMAIN calls : calls[i].op \notin Busy
      BY <1>4, <2>2 DEF Busy
    <3> QED
      BY <2>1, <3>1 DEF Nested
  <2>3. CASE pre = <<>>
    <3>1. calls = <<call>>
      BY <2>3 DEF calls
    <3>2. DOMAIN calls = 1..1
      BY <3>1, ShortSeqs
    <3> QED
      BY <2>1, <3>2 DEF Nested
  <2> QED
    BY <2>2, <2>3
<1>6. \A k : Has(calls, k) => k = call \/ k.op \notin Busy \cup FrameOps
  <2> SUFFICES ASSUME NEW k, Has(calls, k), k # call PROVE k.op \notin Busy \cup FrameOps
    OBVIOUS
  <2>1. k.op \notin Busy /\ Tag(k) = Other
    BY <1>4 DEF Has
  <2> QED
    BY <2>1, TagIs, TagsDiffer
<1>7. \A i \in DOMAIN calls : calls[i].op # "endBatch"
  BY <1>4
<1>8. \A i \in DOMAIN calls : Tag(calls[i]) \in {Other, Tag(call)}
  BY <1>4
<1>9. \A c \in Derived : ~Notifies(call, c) => \A i \in DOMAIN calls : ~Notifies(calls[i], c)
  BY <1>4
<1> QED
  BY <1>2, <1>3, <1>5, <1>6, <1>7, <1>8, <1>9 DEF calls

\* A single call as an appended one.
LEMMA OneCall == \A call : <<call>> = Append(<<>>, call)
OBVIOUS

\* The call of an evaluation is followed by its next one.
LEMMA EvalGoes ==
  ASSUME IInv, NEW g \in Goroutines, ~Idle(g), Top(g).op \in FrameOps,
         NEW pre, PlainTo(pre, {}), NEW call, CallOK(call), call.op \in FrameOps,
         call.at = Top(g).at, pre = <<>> \/ call.op \notin Releasing,
         CallFits(g, call), Goes(g, Append(pre, call)),
         UNCHANGED <<node, comp, effect, batch, panics>>
  PROVE  IInv'
<1> DEFINE calls == Append(pre, call)
<1>1. call.op \notin {"on", "off", "endBatch"} /\ Top(g).op \notin {"on", "off"}
  BY DEF FrameOps
<1>2. /\ Block(calls) /\ Nested(calls)
      /\ \A i \in DOMAIN calls : calls[i].op # "endBatch"
      /\ \A t : t # Other => Num(calls, t) = One(Tag(call), t)
      /\ \A i \in DOMAIN calls : Tag(calls[i]) \in {Other, Tag(call)}
      /\ \A k : Has(calls, k) => k = call \/ k.op \notin Busy \cup FrameOps
      /\ \A c \in Derived : ~Notifies(call, c) => \A i \in DOMAIN calls : ~Notifies(calls[i], c)
  BY <1>1, NextCall
<1>3. Goes(g, calls)
  OBVIOUS
<1> HIDE DEF calls
<1>4. Moves(g, Tag(Top(g)), calls)
  BY <1>1, <1>2, <1>3, IInvFacts, GoesMoves
<1>5. Tag(call) = Frame(call.at) /\ Tag(Top(g)) = Tag(call)
  BY TagIs
<1>6. PICK X : X = {}
  OBVIOUS
<1>7. \A t : t # Other => Total(stack', t) = Total(stack, t)
  BY <1>2, <1>4, <1>5 DEF Moves, One
<1>8. SameTotals(X)
  BY <1>7, TagsDiffer DEF SameTotals
<1>9. SubsKept(X) /\ StateKept(X)
  BY DEF SubsKept, StateKept
<1>10. Unheard(X, calls)
  <2>1. \A c : ~Notifies(call, c)
    BY DEF Notifies, FrameOps
  <2> QED
    BY <1>2, <2>1, HeardOf DEF Unheard
<1>11. NodeShape' /\ CompShape' /\ EffectShape' /\ BatchShape'
  <2>1. Total(stack', Ending) = Total(stack, Ending)
    BY <1>7, TagsDiffer
  <2> QED
    BY <2>1, IInvFacts DEF NodeShape, CompShape, EffectShape, BatchShape
<1>12. ASSUME NEW k, Has(calls, k) PROVE CallFits(g, k)'
  <2>1. CASE k = call
    BY <2>1 DEF CallFits, Mu
  <2>2. CASE k.op \notin Busy \cup FrameOps
    BY <2>2 DEF CallFits, Busy, FrameOps
  <2> QED
    BY <1>2, <1>12, <2>1, <2>2
<1>13. /\ \A c \in Derived \cap X : ValueOK(c)'
       /\ \A e \in Effects \cap X : EffectOK(e)'
       /\ \A v \in Actors \cap X : Balanced(v)'
       /\ \A h \in Goroutines : \A k :
            Has(stack[h], k) /\ Has(stack'[h], k) /\ k.at \in X => CallFits(h, k)'
  BY <1>6
<1> QED
  BY <1>4, <1>8, <1>9, <1>10, <1>11, <1>12, <1>13, StepKeeps

\* A step from one call of an evaluation to another keeps the invariant.
LEMMA EvalNext ==
  ASSUME IInv, NEW g \in Goroutines, ~Idle(g), Top(g).op \in FrameOps,
         NEW call, CallOK(call), call.op \in FrameOps, call.at = Top(g).at,
         CallFits(g, call), Goes(g, <<call>>),
         UNCHANGED <<node, comp, effect, batch, panics>>
  PROVE  IInv'
<1>1. PICK nil : nil = <<>>
  OBVIOUS
<1>2. Goes(g, Append(nil, call)) /\ PlainTo(nil, {})
  BY <1>1, OneCall, NobodyHeard
<1> QED
  BY <1>1, <1>2, EvalGoes

\* The call on top of a stack is well formed and fits its value's state.
LEMMA TopFits ==
  ASSUME IInv, NEW g \in Goroutines, ~Idle(g)
  PROVE  CallOK(Top(g)) /\ CallFits(g, Top(g)) /\ Has(stack[g], Top(g))
<1>1. 1 \in DOMAIN stack[g] /\ Top(g) = stack[g][1] /\ CallOK(Top(g))
  BY IInvFacts, TopFacts
<1> QED
  BY <1>1 DEF IInv, CallsFit, Has

\* Reading one more node gives reads (recordDependency).
LEMMA ReadsAppend ==
  ASSUME NodeShape, NEW reads, ReadsOK(reads), NEW n \in Nodes
  PROVE  ReadsOK(Append(reads, ReadOf(n)))
<1>1. PICK S : reads \in Seq(S)
  BY DEF ReadsOK, IsSeq
<1> DEFINE r == ReadOf(n)
           T == S \cup {r}
           q == Append(reads, r)
<1>2. reads \in Seq(T) /\ r \in T
  BY <1>1, SeqMonotonic
<1>3. r.source \in Nodes /\ r.rev \in Nat
  BY DEF ReadOf, NodeShape
<1> HIDE DEF r, T
<1>4. /\ q \in Seq(T) /\ Len(q) = Len(reads) + 1 /\ Len(reads) \in Nat /\ DOMAIN reads = 1..Len(reads)
      /\ DOMAIN q = 1..(Len(reads) + 1) /\ q[Len(reads) + 1] = r
      /\ \A i \in 1..Len(reads) : q[i] = reads[i]
  BY <1>2, AppendProperties, LenProperties
<1> HIDE DEF q
<1>5. ReadsOK(q)
  BY <1>3, <1>4 DEF ReadsOK, IsSeq
<1> QED
  BY <1>5 DEF q, r

\* A function that has read nothing yet.
LEMMA ReadsNone == ReadsOK(<<>>)
BY ShortSeqs DEF ReadsOK

\* Check (Computed.refresh, its look at the dependencies) keeps the invariant.
LEMMA CheckKeeps ==
  ASSUME IInv, NEW g \in Goroutines, Check(g)
  PROVE  IInv'
<1> DEFINE c == Top(g).at
           args == Top(g).args
<1>1. ~Idle(g) /\ Top(g).op = "check" /\ Top(g).op \in FrameOps
        /\ UNCHANGED <<node, comp, effect, batch, panics>>
  BY DEF Check, At, FrameOps
<1>2. c \in Derived /\ comp[c].refreshing
  BY <1>1, TopFits DEF CallOK, CallFits
<1>3. CASE args.deps = <<>> /\ args.changed
  <2> DEFINE call == Call("track", c, <<>>)
  <2>1. Goes(g, <<call>>)
    BY <1>3 DEF Check
  <2>2. call.op = "track" /\ call.at = c /\ call.args = <<>>
    BY CallIs
  <2> HIDE DEF call
  <2>3. CallOK(call) /\ call.op \in FrameOps /\ CallFits(g, call)
    BY <1>2, <2>2, ReadsNone DEF CallOK, FrameOps, CallFits, Releasing
  <2> QED
    BY <1>1, <2>1, <2>2, <2>3, EvalNext
<1>4. CASE args.deps = <<>> /\ ~args.changed
  <2> DEFINE call == Call("loop", c, <<>>)
  <2>1. Goes(g, <<call>>)
    BY <1>4 DEF Check
  <2>2. call.op = "loop" /\ call.at = c
    BY CallIs
  <2> HIDE DEF call
  <2>3. CallOK(call) /\ call.op \in FrameOps /\ CallFits(g, call)
    BY <1>2, <2>2 DEF CallOK, FrameOps, CallFits, Releasing
  <2> QED
    BY <1>1, <2>1, <2>2, <2>3, EvalNext
<1>5. CASE args.deps # <<>> /\ Head(args.deps).source \in Derived
  <2> DEFINE call == Call("compare", c, args)
             pre == Refresh(Head(args.deps).source)
  <2>1. Goes(g, Append(pre, call))
    BY <1>5 DEF Check
  <2>2. call.op = "compare" /\ call.at = c
    BY CallIs
  <2>3. PlainTo(pre, {})
    BY NobodyHeard
  <2> HIDE DEF call, pre
  <2>4. CallOK(call) /\ call.op \in FrameOps /\ CallFits(g, call) /\ call.op \notin Releasing
    BY <1>2, <2>2 DEF CallOK, FrameOps, CallFits, Releasing
  <2> QED
    BY <1>1, <2>1, <2>2, <2>3, <2>4, EvalGoes
<1>6. CASE args.deps # <<>> /\ Head(args.deps).source \notin Derived
  <2> DEFINE call == Call("check", c, Compared(args))
  <2>1. Goes(g, <<call>>)
    BY <1>6 DEF Check
  <2>2. call.op = "check" /\ call.at = c
    BY CallIs
  <2> HIDE DEF call
  <2>3. CallOK(call) /\ call.op \in FrameOps /\ CallFits(g, call)
    BY <1>2, <2>2 DEF CallOK, FrameOps, CallFits, Releasing
  <2> QED
    BY <1>1, <2>1, <2>2, <2>3, EvalNext
<1> QED
  BY <1>3, <1>4, <1>5, <1>6

\* Compare (Computed.refresh, its comparison of revisions) keeps the invariant.
LEMMA CompareKeeps ==
  ASSUME IInv, NEW g \in Goroutines, Compare(g)
  PROVE  IInv'
<1> DEFINE c == Top(g).at
           call == Call("check", c, Compared(Top(g).args))
<1>1. ~Idle(g) /\ Top(g).op = "compare" /\ Top(g).op \in FrameOps /\ Goes(g, <<call>>)
        /\ UNCHANGED <<node, comp, effect, batch, panics>>
  BY DEF Compare, At, FrameOps
<1>2. c \in Derived /\ comp[c].refreshing
  BY <1>1, TopFits DEF CallOK, CallFits
<1>3. call.op = "check" /\ call.at = c
  BY CallIs
<1> HIDE DEF call
<1>4. CallOK(call) /\ call.op \in FrameOps /\ CallFits(g, call)
  BY <1>2, <1>3 DEF CallOK, FrameOps, CallFits, Releasing
<1> QED
  BY <1>1, <1>3, <1>4, EvalNext

\* Track (a read of the tracked function) keeps the invariant.
LEMMA TrackKeeps ==
  ASSUME IInv, NEW g \in Goroutines, Track(g)
  PROVE  IInv'
<1> DEFINE who == Top(g).at
           reads == Top(g).args
           s == Source(who, Vals(reads))
<1>1. ~Idle(g) /\ Top(g).op = "track" /\ Top(g).op \in FrameOps /\ s \in Nodes
        /\ UNCHANGED <<node, comp, effect, batch, panics>>
  BY DEF Track, At, FrameOps
<1>2. who \in Actors /\ ReadsOK(reads)
  BY <1>1, TopFits DEF CallOK, Actors
<1>3. CASE s \in Derived
  <2> DEFINE call == Call("take", who, reads)
             pre == Refresh(s)
  <2>1. Goes(g, Append(pre, call))
    BY <1>3 DEF Track
  <2>2. call.op = "take" /\ call.at = who /\ call.args = reads
    BY CallIs
  <2>3. PlainTo(pre, {})
    BY NobodyHeard
  <2> HIDE DEF call, pre
  <2>4. CallOK(call) /\ call.op \in FrameOps /\ CallFits(g, call) /\ call.op \notin Releasing
    BY <1>1, <1>2, <2>2 DEF CallOK, FrameOps, CallFits, Releasing, Actors
  <2> QED
    BY <1>1, <2>1, <2>2, <2>3, <2>4, EvalGoes
<1>4. CASE s \notin Derived
  <2> DEFINE more == Append(reads, ReadOf(s))
             call == Call("track", who, more)
  <2>1. Goes(g, <<call>>)
    BY <1>4 DEF Track
  <2>2. ReadsOK(more)
    <3>1. NodeShape
      BY IInvFacts
    <3>2. ASSUME NEW q, ReadsOK(q), NEW n \in Nodes PROVE ReadsOK(Append(q, ReadOf(n)))
      BY <3>1, <3>2, ReadsAppend
    <3> HIDE DEF s, reads
    <3> QED
      BY <1>1, <1>2, <3>2
  <2> HIDE DEF more
  <2>3. call.op = "track" /\ call.at = who /\ call.args = more
    BY CallIs
  <2> HIDE DEF call
  <2>4. CallOK(call) /\ call.op \in FrameOps /\ CallFits(g, call)
    BY <1>2, <2>2, <2>3 DEF CallOK, FrameOps, CallFits, Releasing, Actors
  <2> QED
    BY <1>1, <2>1, <2>3, <2>4, EvalNext
<1> QED
  BY <1>3, <1>4

\* Take (a read that waited for a refresh) keeps the invariant.
LEMMA TakeKeeps ==
  ASSUME IInv, NEW g \in Goroutines, Take(g)
  PROVE  IInv'
<1> DEFINE who == Top(g).at
           reads == Top(g).args
           s == Source(who, Vals(reads))
           more == Append(reads, ReadOf(s))
           call == Call("track", who, more)
<1>1. ~Idle(g) /\ Top(g).op = "take" /\ Top(g).op \in FrameOps /\ Goes(g, <<call>>)
        /\ UNCHANGED <<node, comp, effect, batch, panics>>
  BY DEF Take, At, FrameOps
<1>2. who \in Actors /\ ReadsOK(reads) /\ s \in Nodes
  BY <1>1, TopFits DEF CallOK, Actors
<1>3. ReadsOK(more)
  <2>1. NodeShape
    BY IInvFacts
  <2>2. ASSUME NEW q, ReadsOK(q), NEW n \in Nodes PROVE ReadsOK(Append(q, ReadOf(n)))
    BY <2>1, <2>2, ReadsAppend
  <2> HIDE DEF s, reads
  <2> QED
    BY <1>2, <2>2
<1> HIDE DEF more
<1>4. call.op = "track" /\ call.at = who /\ call.args = more
  BY CallIs
<1> HIDE DEF call
<1>5. CallOK(call) /\ call.op \in FrameOps /\ CallFits(g, call)
  BY <1>2, <1>3, <1>4 DEF CallOK, FrameOps, CallFits, Releasing, Actors
<1> QED
  BY <1>1, <1>4, <1>5, EvalNext

-----------------------------------------------------------------------------
(* Steps of one derived value.                                              *)

\* What a step that changes one derived value has to show: the rest of the invariant
\* does not notice it.
LEMMA ValueStep ==
  ASSUME IInv, NEW g \in Goroutines, NEW gone, NEW calls, Moves(g, gone, calls),
         NEW c \in Derived, SameTotals({c}),
         comp' = [comp EXCEPT ![c] = comp'[c]], comp'[c] \in CompRecord,
         UNCHANGED <<effect, panics>>, NodeShape', BatchShape',
         SubsKept({c}), Unheard({c}, calls), ValueOK(c)', Balanced(c)',
         \A k : Has(calls, k) => CallFits(g, k)',
         \A h \in Goroutines : \A k :
            Has(stack[h], k) /\ Has(stack'[h], k) /\ k.at = c => CallFits(h, k)'
  PROVE  IInv'
<1>1. PICK X : X = {c}
  OBVIOUS
<1>2. comp \in [Derived -> CompRecord]
  BY IInvFacts DEF CompShape
<1>3. CompShape' /\ \A d \in Derived : d # c => comp'[d] = comp[d]
  BY <1>2 DEF CompShape
<1>4. EffectShape'
  BY IInvFacts DEF EffectShape
<1>5. StateKept(X)
  BY <1>1, <1>3 DEF StateKept
<1>6. SameTotals(X) /\ SubsKept(X) /\ Unheard(X, calls)
  BY <1>1
<1>7. c \notin Effects
  BY SignalAssumption
<1>8. /\ \A d \in Derived \cap X : ValueOK(d)'
      /\ \A e \in Effects \cap X : EffectOK(e)'
      /\ \A v \in Actors \cap X : Balanced(v)'
      /\ \A h \in Goroutines : \A k :
            Has(stack[h], k) /\ Has(stack'[h], k) /\ k.at \in X => CallFits(h, k)'
  BY <1>1, <1>7
<1> QED
  BY <1>3, <1>4, <1>5, <1>6, <1>8, StepKeeps

\* A step of one derived value that edits no subscription.
LEMMA ValueTurn ==
  ASSUME IInv, NEW g \in Goroutines, NEW gone, NEW calls, Moves(g, gone, calls),
         NEW c \in Derived, gone \in {Other, Frame(c), Sharing(c)},
         \A i \in DOMAIN calls : Tag(calls[i]) \in {Other, Frame(c), Sharing(c)},
         \A i \in DOMAIN calls : \A d \in Derived : Unsubscribed(d) => ~Notifies(calls[i], d),
         comp' = [comp EXCEPT ![c] = comp'[c]], comp'[c] \in CompRecord,
         comp'[c].deps = comp[c].deps, comp'[c].stopped = comp[c].stopped,
         UNCHANGED <<effect, batch, panics>>,
         NodeShape', \A n \in Nodes : node'[n].subs = node[n].subs,
         OneFrame(c)', Fresh(c)', Unsubscribed(c)' => Unsubscribed(c),
         \A k : Has(calls, k) => CallFits(g, k)',
         \A h \in Goroutines : \A k :
            Has(stack[h], k) /\ Has(stack'[h], k) /\ k.at = c => CallFits(h, k)'
  PROVE  IInv'
<1>1. SameTotals({c})
  <2>1. PICK X : X = {c}
    OBVIOUS
  <2>2. About(gone, X) /\ \A i \in DOMAIN calls : About(Tag(calls[i]), X)
    BY <2>1 DEF About
  <2>3. SameTotals(X)
    BY <2>2, TotalsKept
  <2> QED
    BY <2>1, <2>3
<1>2. SubsKept({c})
  BY DEF SubsKept
<1>3. Unheard({c}, calls)
  BY HeardOf DEF Unheard
<1>4. BatchShape'
  <2>1. gone # Ending /\ \A i \in DOMAIN calls : Tag(calls[i]) # Ending
    BY TagsDiffer
  <2> QED
    BY <2>1, IInvFacts, BatchKept DEF BatchShape
<1>5. Quiet(c)'
  <2> SUFFICES ASSUME Unsubscribed(c)'
               PROVE  /\ comp'[c].deps = <<>>
                      /\ \A n \in Nodes : c \notin Range(node'[n].subs)
                      /\ c \notin Range(batch'.queue)
                      /\ \A h \in Goroutines : \A i \in DOMAIN stack'[h] : ~Notifies(stack'[h][i], c)
    BY DEF Quiet, Notifies
  <2>1. Unsubscribed(c)
    OBVIOUS
  <2>2. Quiet(c)
    BY IInvFacts DEF ValueOK
  <2>3. /\ comp[c].deps = <<>>
        /\ \A n \in Nodes : c \notin Range(node[n].subs)
        /\ c \notin Range(batch.queue)
        /\ \A h \in Goroutines : \A i \in DOMAIN stack[h] : ~Notifies(stack[h][i], c)
    BY <2>1, <2>2 DEF Quiet
  <2>4. \A h \in Goroutines : \A i \in DOMAIN stack'[h] : ~Notifies(stack'[h][i], c)
    BY <2>1, <2>3 DEF Moves
  <2> QED
    BY <2>3, <2>4
<1>6. ValueOK(c)'
  <2>1. comp[c].stopped => comp[c].deps = <<>>
    BY IInvFacts DEF ValueOK
  <2> QED
    BY <1>5, <2>1 DEF ValueOK
<1>7. ASSUME NEW n \in Nodes
      PROVE  /\ Count(node'[n].subs, c) + Total(stack', On(n, c))
                  = Count(Kept(c)', n) + Total(stack', Off(n, c))
             /\ Total(stack', On(n, c)) <= Count(Kept(c)', n)
  <2>1. Total(stack', On(n, c)) = Total(stack, On(n, c))
    <3>1. On(n, c) # Other /\ gone # On(n, c) /\ \A i \in DOMAIN calls : Tag(calls[i]) # On(n, c)
      BY TagsDiffer
    <3> QED
      BY <3>1, TotalKept
  <2>2. Total(stack', Off(n, c)) = Total(stack, Off(n, c))
    <3>1. Off(n, c) # Other /\ gone # Off(n, c) /\ \A i \in DOMAIN calls : Tag(calls[i]) # Off(n, c)
      BY TagsDiffer
    <3> QED
      BY <3>1, TotalKept
  <2>3. Kept(c)' = Kept(c)
    BY DEF Kept, SourcesOf
  <2>4. Balanced(c)
    BY IInvFacts DEF Actors
  <2> QED
    BY <2>1, <2>2, <2>3, <2>4 DEF Balanced
<1>8. Balanced(c)'
  BY <1>7 DEF Balanced
<1> QED
  BY <1>1, <1>2, <1>3, <1>4, <1>6, <1>8, ValueStep

\* The calls at a derived value fit as before while its mutex and its refresh
\* are as before.
LEMMA OldFit ==
  ASSUME IInv, NEW c \in Derived, comp'[c].mu = comp[c].mu,
         comp'[c].refreshing = comp[c].refreshing
  PROVE  \A h \in Goroutines : \A k : Has(stack[h], k) /\ k.at = c => CallFits(h, k)'
<1> SUFFICES ASSUME NEW h \in Goroutines, NEW k, Has(stack[h], k), k.at = c
             PROVE  CallFits(h, k)'
  OBVIOUS
<1>1. CallFits(h, k)
  BY DEF IInv, CallsFit, Has
<1> QED
  BY <1>1 DEF CallFits, Mu

\* Changing one derived value changes no other.
LEMMA CompSet ==
  ASSUME CompShape, NEW c \in Derived, NEW r, comp' = [comp EXCEPT ![c] = r]
  PROVE  /\ comp'[c] = r /\ comp' = [comp EXCEPT ![c] = comp'[c]]
         /\ \A d \in Derived : d # c => comp'[d] = comp[d]
BY DEF CompShape

\* A derived value that has been subscribed may become dirty.
LEMMA DirtyStep ==
  ASSUME IInv, NEW g \in Goroutines, ~Idle(g), NEW c \in Derived, Top(g).at = c,
         Top(g).op \in {"invalidate", "onDepChange"}, comp[c].mu = None,
         comp' = [comp EXCEPT ![c].dirty = TRUE],
         NEW op \in {"invalidateSubscribers", "wake"}, Goes(g, <<Call(op, c, <<>>)>>),
         UNCHANGED <<node, effect, batch, panics>>
  PROVE  IInv'
<1> DEFINE call == Call(op, c, <<>>)
           calls == <<call>>
           r == [comp[c] EXCEPT !.dirty = TRUE]
<1>1. call.op = op /\ call.at = c
  BY CallIs
<1>2. CallOK(call) /\ call.op \in PlainOps /\ \A d : ~Notifies(call, d)
  BY <1>1 DEF CallOK, PlainOps, Notifies
<1> HIDE DEF call
<1>3. PlainTo(calls, {})
  BY <1>2, OnePlainTo
<1>4. Goes(g, calls)
  BY DEF call
<1> HIDE DEF calls
<1>5. Tag(Top(g)) = Other /\ Top(g).op \notin {"on", "off"}
  BY TagIs DEF FrameOps
<1>6. Moves(g, Tag(Top(g)), calls)
  BY <1>3, <1>4, <1>5, IInvFacts, PlainFacts, GoesMoves DEF PlainTo
<1>7. comp[c] \in CompRecord
  BY IInvFacts DEF CompShape
<1>8. /\ r \in CompRecord /\ r.dirty = TRUE /\ r.mu = comp[c].mu /\ r.refreshing = comp[c].refreshing
      /\ r.stopped = comp[c].stopped /\ r.deps = comp[c].deps /\ r.stage = comp[c].stage
  BY <1>7 DEF CompRecord
<1>9. comp'[c] = r /\ comp' = [comp EXCEPT ![c] = comp'[c]]
  BY IInvFacts, CompSet, ZenonT(30)
<1> HIDE DEF r
<1>10. \A t : t # Other => Total(stack', t) = Total(stack, t)
  <2>1. \A t : t # Other => Num(calls, t) = 0
    BY <1>3, PlainFacts DEF PlainTo
  <2> QED
    BY <1>5, <1>6, <2>1 DEF Moves, One
<1>11. Total(stack', Frame(c)) = Total(stack, Frame(c)) /\ Total(stack', Sharing(c)) = Total(stack, Sharing(c))
  BY <1>10, TagsDiffer
<1>12. ValueOK(c)
  BY IInvFacts
<1>13. OneFrame(c)'
  BY <1>8, <1>9, <1>11, <1>12 DEF ValueOK, OneFrame, Unborn
<1>14. ~(comp[c].stage = "new" \/ Unborn(c))
  <2>1. Notifies(Top(g), c)
    BY DEF Notifies
  <2> QED
    BY <2>1, HeardOf DEF Unsubscribed
<1>15. Fresh(c)' /\ (Unsubscribed(c)' => Unsubscribed(c))
  BY <1>8, <1>9, <1>11, <1>12, <1>14 DEF ValueOK, Fresh, Unborn, Unsubscribed
<1>16. NodeShape' /\ \A n \in Nodes : node'[n].subs = node[n].subs
  BY IInvFacts DEF NodeShape
<1>17. ASSUME NEW k, Has(calls, k) PROVE CallFits(g, k)'
  <2>1. k.op \notin Busy /\ Tag(k) = Other
    BY <1>3, <1>17 DEF PlainTo, Plain, Loose, Has
  <2>2. k.op \notin FrameOps
    BY <2>1, TagIs, TagsDiffer
  <2> QED
    BY <2>1, <2>2 DEF CallFits, Busy, FrameOps
<1>18. \A h \in Goroutines : \A k :
            Has(stack[h], k) /\ Has(stack'[h], k) /\ k.at = c => CallFits(h, k)'
  BY <1>8, <1>9, OldFit
<1>19. /\ \A i \in DOMAIN calls : Tag(calls[i]) \in {Other, Frame(c), Sharing(c)}
       /\ \A i \in DOMAIN calls : \A d \in Derived : Unsubscribed(d) => ~Notifies(calls[i], d)
  BY <1>3 DEF PlainTo, Plain
<1> QED
  BY <1>5, <1>6, <1>8, <1>9, <1>13, <1>15, <1>16, <1>17, <1>18, <1>19, ValueTurn

\* Invalidate (Computed.invalidate) keeps the invariant.
LEMMA InvalidateKeeps ==
  ASSUME IInv, NEW g \in Goroutines, Invalidate(g)
  PROVE  IInv'
<1> DEFINE c == Top(g).at
<1>1. ~Idle(g) /\ Top(g).op = "invalidate" /\ comp[c].mu = None
        /\ UNCHANGED <<node, effect, batch, panics>>
  BY DEF Invalidate, At
<1>2. c \in Derived
  BY <1>1, TopFits DEF CallOK
<1>3. Tag(Top(g)) = Other
  BY <1>1, TagIs DEF FrameOps
<1>4. CASE comp[c].stopped \/ comp[c].dirty
  <2>1. Goes(g, <<>>) /\ UNCHANGED comp
    BY <1>4 DEF Invalidate
  <2> QED
    BY <1>1, <1>3, <2>1, NobodyHeard, StillGoes
<1>5. CASE ~(comp[c].stopped \/ comp[c].dirty)
  <2>1. comp' = [comp EXCEPT ![c].dirty = TRUE] /\ Goes(g, <<Call("invalidateSubscribers", c, <<>>)>>)
    BY <1>5 DEF Invalidate
  <2> QED
    BY <1>1, <1>2, <2>1, DirtyStep
<1> QED
  BY <1>4, <1>5

\* OnDepChange (Computed.onDepChange) keeps the invariant.
LEMMA OnDepChangeKeeps ==
  ASSUME IInv, NEW g \in Goroutines, OnDepChange(g)
  PROVE  IInv'
<1> DEFINE c == Top(g).at
<1>1. ~Idle(g) /\ Top(g).op = "onDepChange" /\ comp[c].mu = None
        /\ UNCHANGED <<node, effect, batch, panics>>
  BY DEF OnDepChange, At
<1>2. c \in Derived
  BY <1>1, TopFits DEF CallOK
<1>3. Tag(Top(g)) = Other
  BY <1>1, TagIs DEF FrameOps
<1>4. CASE comp[c].stopped
  <2>1. Goes(g, <<>>) /\ UNCHANGED comp
    BY <1>4 DEF OnDepChange
  <2> QED
    BY <1>1, <1>3, <2>1, NobodyHeard, StillGoes
<1>5. CASE ~comp[c].stopped
  <2>1. comp' = [comp EXCEPT ![c].dirty = TRUE] /\ Goes(g, <<Call("wake", c, <<>>)>>)
    BY <1>5 DEF OnDepChange
  <2> QED
    BY <1>1, <1>2, <2>1, DirtyStep
<1> QED
  BY <1>4, <1>5

\* A call that may follow at a derived value, after calls nothing is counted by.
Turn(pre, call, c) ==
    /\ PlainTo(pre, {}) /\ CallOK(call) /\ call.op \notin {"on", "off", "endBatch"}
    /\ pre = <<>> \/ call.op \notin Releasing
    /\ Tag(call) \in {Other, Frame(c), Sharing(c)} /\ \A d : ~Notifies(call, d)

\* A turn of an evaluation exchanges one call for another.
LEMMA TurnMoves ==
  ASSUME IInv, NEW g \in Goroutines, NEW c \in Derived, NEW pre, NEW call, Turn(pre, call, c),
         \/ Goes(g, Append(pre, call)) /\ ~Idle(g) /\ Top(g).op \notin {"on", "off"}
         \/ Begins(g, Append(pre, call)),
         NEW gone, gone = IF Goes(g, Append(pre, call)) /\ ~Idle(g) THEN Tag(Top(g)) ELSE Other
  PROVE  /\ Moves(g, gone, Append(pre, call))
         /\ \A t : t # Other =>
              /\ Total(stack, t) \in Nat /\ Total(stack', t) \in Nat
              /\ Total(stack', t) + One(gone, t) = Total(stack, t) + One(Tag(call), t)
<1> DEFINE calls == Append(pre, call)
<1>1. /\ Block(calls) /\ Nested(calls)
      /\ \A i \in DOMAIN calls : calls[i].op # "endBatch"
      /\ \A t : t # Other => Num(calls, t) = One(Tag(call), t)
  BY NextCall DEF Turn
<1>2. Moves(g, gone, calls)
  <2> HIDE DEF calls
  <2>1. CASE Goes(g, calls) /\ ~Idle(g) /\ Top(g).op \notin {"on", "off"}
    <3>1. Moves(g, Tag(Top(g)), calls)
      BY <1>1, <2>1, IInvFacts, GoesMoves
    <3> QED
      BY <2>1, <3>1 DEF calls
  <2>2. CASE Begins(g, calls) /\ ~(Goes(g, calls) /\ ~Idle(g))
    <3>1. Moves(g, Other, calls)
      BY <1>1, <2>2, IInvFacts, BeginsMoves
    <3> QED
      BY <2>2, <3>1 DEF calls
  <2>3. CASE Goes(g, calls) /\ ~Idle(g) /\ Top(g).op \in {"on", "off"}
    <3>1. Begins(g, calls)
      BY <2>3 DEF calls
    <3>2. At(g, "endBatch")
      BY <2>3, <3>1 DEF Begins
    <3> QED
      BY <2>3, <3>2 DEF At
  <2> QED
    BY <2>1, <2>2, <2>3 DEF calls
<1> HIDE DEF calls
<1>3. \A t : t # Other =>
              /\ Total(stack, t) \in Nat /\ Total(stack', t) \in Nat
              /\ Total(stack', t) + One(gone, t) = Total(stack, t) + One(Tag(call), t)
  BY <1>1, <1>2 DEF Moves
<1> QED
  BY <1>2, <1>3 DEF calls

\* A step that turns an evaluation, and changes flags of its value only, keeps the
\* invariant.
LEMMA TurnKeeps ==
  ASSUME IInv, NEW g \in Goroutines, NEW c \in Derived, NEW pre, NEW call, Turn(pre, call, c),
         NEW gone \in {Other, Frame(c), Sharing(c)}, Moves(g, gone, Append(pre, call)),
         NEW r \in CompRecord, comp' = [comp EXCEPT ![c] = r],
         r.deps = comp[c].deps, r.stopped = comp[c].stopped,
         UNCHANGED <<node, effect, batch, panics>>,
         OneFrame(c)', Fresh(c)', Unsubscribed(c)' => Unsubscribed(c), CallFits(g, call)',
         \A h \in Goroutines : \A k :
            Has(stack[h], k) /\ Has(stack'[h], k) /\ k.at = c => CallFits(h, k)'
  PROVE  IInv'
<1> DEFINE calls == Append(pre, call)
<1>1. /\ \A i \in DOMAIN calls : Tag(calls[i]) \in {Other, Tag(call)}
      /\ \A k : Has(calls, k) => k = call \/ k.op \notin Busy \cup FrameOps
      /\ \A d \in Derived : ~Notifies(call, d) => \A i \in DOMAIN calls : ~Notifies(calls[i], d)
  BY NextCall DEF Turn
<1>2. Moves(g, gone, calls)
  OBVIOUS
<1> HIDE DEF calls
<1>3. comp'[c] = r /\ comp' = [comp EXCEPT ![c] = comp'[c]]
  BY IInvFacts, CompSet
<1>4. NodeShape' /\ \A n \in Nodes : node'[n].subs = node[n].subs
  BY IInvFacts DEF NodeShape
<1>5. ASSUME NEW k, Has(calls, k) PROVE CallFits(g, k)'
  <2>1. CASE k = call
    BY <2>1
  <2>2. CASE k.op \notin Busy \cup FrameOps
    BY <2>2 DEF CallFits, Busy, FrameOps
  <2> QED
    BY <1>1, <1>5, <2>1, <2>2
<1>6. \A i \in DOMAIN calls : Tag(calls[i]) \in {Other, Frame(c), Sharing(c)}
  BY <1>1 DEF Turn
<1>7. \A i \in DOMAIN calls : \A d \in Derived : Unsubscribed(d) => ~Notifies(calls[i], d)
  BY <1>1 DEF Turn
<1> QED
  BY <1>2, <1>3, <1>4, <1>5, <1>6, <1>7, ValueTurn

\* No evaluation of c is under way.
LEMMA NoFrame ==
  ASSUME NEW st, AllSeqs(st), NEW c, Total(st, Frame(c)) = 0,
         NEW h \in Goroutines, NEW k, Has(st[h], k), k.at = c
  PROVE  k.op \notin FrameOps
<1>1. PICK i \in DOMAIN st[h] : st[h][i] = k
  BY DEF Has
<1>2. Tag(k) # Frame(c)
  BY <1>1, TotalPlaces
<1> QED
  BY <1>2, TagIs

\* At a derived value, only the calls of an evaluation need fit.
LEMMA FitsAnyway ==
  ASSUME NEW h, NEW k, CallOK(k), k.at \in Derived, k.op \notin FrameOps
  PROVE  CallFits(h, k)'
<1>1. k.op # "unlock"
  BY SignalAssumption DEF CallOK
<1> QED
  BY <1>1 DEF CallFits, Releasing, FrameOps

\* After a call outside subscriptions, what is left of its stack is in no
\* critical section.
LEMMA RestNotBusy ==
  ASSUME IInv, NEW g \in Goroutines, ~Idle(g), Top(g).op \notin {"on", "off"}, NEW calls,
         IsSeq(calls), Goes(g, calls), NEW k, Has(stack'[g], k)
  PROVE  Has(calls, k) \/ k.op \notin Busy
<1> DEFINE s == stack[g]
           rest == Tail(s)
<1>1. /\ IsSeq(s) /\ s # <<>> /\ \A i \in DOMAIN s : i # 1 => s[i].op \notin Busy
  BY IInvFacts, TopFacts
<1>2. /\ IsSeq(rest) /\ Len(s) \in Nat \ {0} /\ DOMAIN s = 1..Len(s)
      /\ DOMAIN rest = 1..(Len(s) - 1) /\ \A i \in 1..(Len(s) - 1) : rest[i] = s[i + 1]
  BY <1>1, TailSeq
<1>3. \A i \in DOMAIN rest : i + 1 \in DOMAIN s /\ i + 1 # 1 /\ rest[i] = s[i + 1]
  BY <1>2
<1>4. \A i \in DOMAIN rest : rest[i].op \notin Busy
  BY <1>1, <1>3
<1>5. stack'[g] = calls \o rest
  BY IInvFacts DEF Goes, StackShape
<1> HIDE DEF s, rest
<1>6. PICK i \in DOMAIN (calls \o rest) : (calls \o rest)[i] = k
  BY <1>5 DEF Has
<1>7. \/ i \in 1..Len(calls) /\ k = calls[i]
      \/ i - Len(calls) \in 1..Len(rest) /\ k = rest[i - Len(calls)]
  BY <1>2, <1>6, CatSeq
<1>8. DOMAIN calls = 1..Len(calls) /\ DOMAIN rest = 1..Len(rest)
  BY <1>2, CatSeq
<1> QED
  BY <1>4, <1>7, <1>8 DEF Has

\* What there is at a derived value before a call of it is made.
LEMMA ValueFacts ==
  ASSUME IInv, NEW c \in Derived
  PROVE  /\ comp[c] \in CompRecord /\ OneFrame(c) /\ Fresh(c) /\ Quiet(c) /\ Balanced(c)
         /\ Total(stack, Frame(c)) \in Nat /\ Total(stack, Sharing(c)) \in 0..1
         /\ AllSeqs(stack)
         /\ Frame(c) # Other /\ Sharing(c) # Other /\ Frame(c) # Sharing(c)
<1>1. comp[c] \in CompRecord /\ OneFrame(c) /\ Fresh(c) /\ Quiet(c) /\ Balanced(c)
  BY IInvFacts DEF CompShape, ValueOK, Actors
<1>2. AllSeqs(stack)
  BY IInvFacts DEF StackShape, AllSeqs
<1>3. Total(stack, Frame(c)) \in Nat /\ Total(stack, Sharing(c)) \in 0..1
  BY <1>1, <1>2, TotalPlaces DEF OneFrame
<1> QED
  BY <1>1, <1>2, <1>3, TagsDiffer

\* The evaluation the call on top belongs to.
LEMMA TopFrame ==
  ASSUME IInv, NEW g \in Goroutines, ~Idle(g), Top(g).op \in FrameOps
  PROVE  Tag(Top(g)) = Frame(Top(g).at) /\ Total(stack, Frame(Top(g).at)) # 0
<1>1. Tag(Top(g)) = Frame(Top(g).at)
  BY TagIs
<1>2. 1 \in DOMAIN stack[g] /\ Top(g) = stack[g][1]
  BY IInvFacts, TopFacts
<1>3. AllSeqs(stack)
  BY IInvFacts DEF StackShape, AllSeqs
<1> QED
  BY <1>1, <1>2, <1>3, TotalPlaces

\* BeginRefresh (Computed.refresh, its first section) keeps the invariant.
LEMMA BeginRefreshKeeps ==
  ASSUME IInv, NEW g \in Goroutines, BeginRefresh(g)
  PROVE  IInv'
<1>1. PICK c : c = Top(g).at
  OBVIOUS
<1>2. ~Idle(g) /\ Top(g).op = "refresh" /\ comp[c].mu = None
        /\ UNCHANGED <<node, effect, batch, panics>>
  BY <1>1 DEF BeginRefresh, At
<1>3. c \in Derived
  BY <1>1, <1>2, TopFits DEF CallOK
<1>4. Tag(Top(g)) = Other
  BY <1>2, TagIs DEF FrameOps
<1>5. CASE comp[c].stopped \/ ~comp[c].dirty \/ comp[c].refreshing
  <2>1. Goes(g, <<>>) /\ UNCHANGED comp
    BY <1>1, <1>5 DEF BeginRefresh
  <2> QED
    BY <1>2, <1>4, <2>1, NobodyHeard, StillGoes
<1>6. CASE ~(comp[c].stopped \/ ~comp[c].dirty \/ comp[c].refreshing)
  <2> DEFINE r == [comp[c] EXCEPT !.refreshing = TRUE]
  <2>1. PICK call : call = Call("loop", c, <<>>)
    OBVIOUS
  <2>2. PICK nil : nil = <<>>
    OBVIOUS
  <2>3. Goes(g, Append(nil, call)) /\ comp' = [comp EXCEPT ![c] = r]
    BY <1>1, <1>6, <2>1, <2>2, OneCall DEF BeginRefresh
  <2>4. call.op = "loop" /\ call.at = c
    BY <2>1, CallIs
  <2>5. Tag(call) = Frame(c) /\ CallOK(call)
    BY <1>3, <2>4, TagIs DEF FrameOps, CallOK
  <2>6. Turn(nil, call, c)
    BY <2>2, <2>4, <2>5, NobodyHeard DEF Turn, Notifies
  <2>7. /\ comp[c] \in CompRecord /\ OneFrame(c) /\ Fresh(c)
        /\ Total(stack, Frame(c)) \in Nat /\ Total(stack, Sharing(c)) \in 0..1 /\ AllSeqs(stack)
        /\ Frame(c) # Other /\ Sharing(c) # Other /\ Frame(c) # Sharing(c)
    BY <1>3, ValueFacts
  <2>8. /\ r \in CompRecord /\ r.refreshing = TRUE /\ r.mu = comp[c].mu /\ r.dirty = comp[c].dirty
        /\ r.stopped = comp[c].stopped /\ r.deps = comp[c].deps /\ r.stage = comp[c].stage
    BY <2>7 DEF CompRecord
  <2> HIDE DEF r
  <2>9. comp'[c] = r
    BY <1>3, <2>3, IInvFacts, CompSet
  <2>10. /\ Moves(g, Other, Append(nil, call))
         /\ \A t : t # Other =>
              /\ Total(stack, t) \in Nat /\ Total(stack', t) \in Nat
              /\ Total(stack', t) + One(Other, t) = Total(stack, t) + One(Tag(call), t)
    BY <1>2, <1>3, <1>4, <2>3, <2>6, TurnMoves
  <2>11. Total(stack, Frame(c)) = 0 /\ ~Unborn(c)
    BY <1>6, <2>7 DEF OneFrame, Fresh
  <2>12. Total(stack', Frame(c)) = 1 /\ Total(stack', Sharing(c)) = Total(stack, Sharing(c))
    BY <2>5, <2>7, <2>10, <2>11 DEF One
  <2>13. OneFrame(c)'
    BY <2>7, <2>8, <2>9, <2>12 DEF OneFrame, Unborn
  <2>14. Fresh(c)' /\ (Unsubscribed(c)' => Unsubscribed(c))
    BY <1>6, <2>7, <2>8, <2>9, <2>11, <2>12 DEF Fresh, Unborn, Unsubscribed
  <2>15. CallFits(g, call)'
    BY <2>4, <2>8, <2>9 DEF CallFits, Releasing
  <2>16. ASSUME NEW h \in Goroutines, NEW k, Has(stack[h], k), k.at = c
         PROVE  CallFits(h, k)'
    <3>1. k.op \notin FrameOps
      BY <2>7, <2>11, <2>16, NoFrame
    <3>2. CallOK(k)
      BY <2>16, IInvFacts DEF CallsOK, Has
    <3> QED
      BY <1>3, <2>16, <3>1, <3>2, FitsAnyway
  <2> QED
    BY <1>2, <1>3, <2>3, <2>6, <2>8, <2>10, <2>13, <2>14, <2>15, <2>16, TurnKeeps
<1> QED
  BY <1>5, <1>6

\* A refresh is over.
LEMMA RefreshEnds ==
  ASSUME IInv, NEW g \in Goroutines, ~Idle(g), NEW c \in Derived, Top(g).at = c,
         Top(g).op \in FrameOps, comp[c].refreshing, NEW calls, Goes(g, calls),
         NEW S, PlainTo(calls, S), \A d \in Derived : Unsubscribed(d) => d \notin S,
         NEW r \in CompRecord, comp' = [comp EXCEPT ![c] = r],
         r.refreshing = FALSE, r.mu \in {comp[c].mu, None}, r.dirty = comp[c].dirty,
         r.stopped = comp[c].stopped, r.deps = comp[c].deps, r.stage = comp[c].stage,
         NodeShape', \A n \in Nodes : node'[n].subs = node[n].subs,
         UNCHANGED <<effect, batch, panics>>
  PROVE  IInv'
<1>1. Tag(Top(g)) = Frame(c) /\ Total(stack, Frame(c)) # 0 /\ Top(g).op \notin {"on", "off"}
  BY TopFrame DEF FrameOps
<1>2. /\ Block(calls) /\ Nested(calls) /\ \A i \in DOMAIN calls : calls[i].op # "endBatch"
      /\ \A t : t # Other => Num(calls, t) = 0
  BY PlainFacts DEF PlainTo
<1>3. Moves(g, Frame(c), calls)
  BY <1>1, <1>2, IInvFacts, GoesMoves
<1>4. /\ comp[c] \in CompRecord /\ OneFrame(c) /\ Fresh(c)
      /\ Total(stack, Frame(c)) \in Nat /\ Total(stack, Sharing(c)) \in 0..1
      /\ Frame(c) # Other /\ Sharing(c) # Other /\ Frame(c) # Sharing(c)
  BY ValueFacts
<1>5. comp'[c] = r /\ comp' = [comp EXCEPT ![c] = comp'[c]]
  <2>1. CompShape
    BY IInvFacts
  <2> QED
    BY <2>1, CompSet
<1>6. Total(stack', Frame(c)) = 0 /\ Total(stack', Sharing(c)) = Total(stack, Sharing(c))
  <2>1. Total(stack, Frame(c)) = 1
    BY <1>4 DEF OneFrame
  <2>2. Total(stack', Frame(c)) + 1 = Total(stack, Frame(c)) /\ Total(stack', Frame(c)) \in Nat
    BY <1>2, <1>3, <1>4 DEF Moves, One
  <2>3. Total(stack', Sharing(c)) = Total(stack, Sharing(c))
    BY <1>2, <1>3, <1>4 DEF Moves, One
  <2> QED
    BY <2>1, <2>2, <2>3
<1>7. ~Unborn(c) /\ comp[c].stage # "new"
  BY <1>4 DEF Fresh
<1>8. OneFrame(c)'
  BY <1>4, <1>5, <1>6, <1>7 DEF OneFrame, Unborn
<1>9. Fresh(c)' /\ ~Unsubscribed(c)'
  BY <1>4, <1>5, <1>6, <1>7 DEF Fresh, Unborn, Unsubscribed
<1>10. ASSUME NEW k, Has(calls, k) PROVE CallFits(g, k)'
  <2>1. k.op \notin Busy /\ Tag(k) = Other
    BY <1>10 DEF PlainTo, Plain, Loose, Has
  <2>2. k.op \notin FrameOps
    BY <2>1, TagIs, TagsDiffer
  <2> QED
    BY <2>1, <2>2 DEF CallFits, Busy, FrameOps
<1>11. ASSUME NEW h \in Goroutines, NEW k, Has(stack[h], k), Has(stack'[h], k), k.at = c
       PROVE  CallFits(h, k)'
  <2>1. AllSeqs(stack')
    BY <1>3 DEF Moves, StackShape, AllSeqs
  <2>2. PICK st : st = stack'
    OBVIOUS
  <2>3. AllSeqs(st) /\ Total(st, Frame(c)) = 0 /\ Has(st[h], k)
    BY <1>6, <1>11, <2>1, <2>2
  <2>4. k.op \notin FrameOps
    BY <1>11, <2>3, NoFrame
  <2>5. CallOK(k)
    BY <1>11, IInvFacts DEF CallsOK, Has
  <2> QED
    BY <1>11, <2>4, <2>5, FitsAnyway
<1>12. /\ \A i \in DOMAIN calls : Tag(calls[i]) \in {Other, Frame(c), Sharing(c)}
       /\ \A i \in DOMAIN calls : \A d \in Derived : Unsubscribed(d) => ~Notifies(calls[i], d)
  BY DEF PlainTo, Plain
<1>13. comp'[c] \in CompRecord /\ comp'[c].deps = comp[c].deps /\ comp'[c].stopped = comp[c].stopped
  BY <1>5
<1>14. Unsubscribed(c)' => Unsubscribed(c)
  BY <1>9
<1>15. PICK gone : gone = Frame(c)
  OBVIOUS
<1>16. Moves(g, gone, calls) /\ gone \in {Other, Frame(c), Sharing(c)}
  BY <1>3, <1>15
<1> QED
  BY <1>5, <1>8, <1>9, <1>13, <1>14, <1>16, <1>10, <1>11, <1>12, ValueTurn, ZenonT(30)

\* Loop (Computed.refresh, the head of its loop) keeps the invariant.
LEMMA LoopKeeps ==
  ASSUME IInv, NEW g \in Goroutines, Loop(g)
  PROVE  IInv'
<1>1. PICK c : c = Top(g).at
  OBVIOUS
<1>2. ~Idle(g) /\ Top(g).op = "loop" /\ Top(g).op \in FrameOps /\ comp[c].mu = None
        /\ UNCHANGED <<node, effect, batch, panics>>
  BY <1>1 DEF Loop, At, FrameOps
<1>3. c \in Derived /\ comp[c].refreshing
  BY <1>1, <1>2, TopFits DEF CallOK, CallFits
<1>4. /\ comp[c] \in CompRecord /\ OneFrame(c) /\ Fresh(c)
      /\ Total(stack, Frame(c)) \in Nat /\ Total(stack, Sharing(c)) \in 0..1
      /\ Frame(c) # Other /\ Sharing(c) # Other /\ Frame(c) # Sharing(c)
  BY <1>3, ValueFacts
<1>5. NodeShape' /\ \A n \in Nodes : node'[n].subs = node[n].subs
  BY <1>2, IInvFacts DEF NodeShape
<1>6. CASE comp[c].stopped \/ ~comp[c].dirty
  <2> DEFINE r == [comp[c] EXCEPT !.refreshing = FALSE]
  <2>1. PICK calls : calls = <<>>
    OBVIOUS
  <2>2. Goes(g, calls) /\ comp' = [comp EXCEPT ![c] = r] /\ PlainTo(calls, {})
    BY <1>1, <1>6, <2>1, NobodyHeard DEF Loop
  <2>3. /\ r \in CompRecord /\ r.refreshing = FALSE /\ r.mu = comp[c].mu /\ r.dirty = comp[c].dirty
        /\ r.stopped = comp[c].stopped /\ r.deps = comp[c].deps /\ r.stage = comp[c].stage
    BY <1>4 DEF CompRecord
  <2> HIDE DEF r
  <2>4. PICK S : S = {}
    OBVIOUS
  <2>5. PlainTo(calls, S) /\ \A d \in Derived : Unsubscribed(d) => d \notin S
    BY <2>2, <2>4
  <2>6. Top(g).at = c /\ r.mu \in {comp[c].mu, None} /\ Goes(g, calls)
    BY <1>1, <2>2, <2>3
  <2> QED
    BY <1>2, <1>3, <1>5, <2>2, <2>3, <2>5, <2>6, RefreshEnds
<1>7. CASE ~(comp[c].stopped \/ ~comp[c].dirty)
  <2> DEFINE r == [comp[c] EXCEPT !.dirty = FALSE]
  <2>1. PICK call : call = Call("check", c, [deps |-> comp[c].deps, changed |-> FALSE])
    OBVIOUS
  <2>2. PICK nil : nil = <<>>
    OBVIOUS
  <2>3. Goes(g, Append(nil, call)) /\ comp' = [comp EXCEPT ![c] = r]
    BY <1>1, <1>7, <2>1, <2>2, OneCall DEF Loop
  <2>4. call.op = "check" /\ call.at = c
    BY <2>1, CallIs
  <2>5. Tag(call) = Frame(c) /\ CallOK(call)
    BY <1>3, <2>4, TagIs DEF FrameOps, CallOK
  <2>6. Turn(nil, call, c)
    BY <2>2, <2>4, <2>5, NobodyHeard DEF Turn, Notifies
  <2>7. /\ r \in CompRecord /\ r.refreshing = comp[c].refreshing /\ r.mu = comp[c].mu /\ r.dirty = FALSE
        /\ r.stopped = comp[c].stopped /\ r.deps = comp[c].deps /\ r.stage = comp[c].stage
    BY <1>4 DEF CompRecord
  <2> HIDE DEF r
  <2>8. comp'[c] = r
    BY <1>3, <2>3, IInvFacts, CompSet
  <2>9. Tag(Top(g)) = Frame(c) /\ Top(g).op \notin {"on", "off"}
    BY <1>1, <1>2, TopFrame
  <2>10. /\ Moves(g, Frame(c), Append(nil, call))
         /\ \A t : t # Other =>
              /\ Total(stack, t) \in Nat /\ Total(stack', t) \in Nat
              /\ Total(stack', t) + One(Frame(c), t) = Total(stack, t) + One(Tag(call), t)
    BY <1>2, <1>3, <2>3, <2>6, <2>9, TurnMoves
  <2>12. Total(stack', Frame(c)) = Total(stack, Frame(c)) /\ Total(stack', Sharing(c)) = Total(stack, Sharing(c))
    BY <1>4, <2>5, <2>10 DEF One
  <2>13. OneFrame(c)'
    BY <1>4, <2>7, <2>8, <2>12 DEF OneFrame, Unborn
  <2>14. Fresh(c)' /\ (Unsubscribed(c)' => Unsubscribed(c))
    BY <1>4, <2>7, <2>8, <2>12 DEF Fresh, Unborn, Unsubscribed
  <2>15. CallFits(g, call)'
    BY <1>3, <2>4, <2>7, <2>8 DEF CallFits, Releasing
  <2>16. \A h \in Goroutines : \A k :
            Has(stack[h], k) /\ Has(stack'[h], k) /\ k.at = c => CallFits(h, k)'
    BY <1>3, <2>7, <2>8, OldFit
  <2> QED
    BY <1>2, <1>3, <2>3, <2>6, <2>7, <2>10, <2>13, <2>14, <2>15, <2>16, TurnKeeps
<1> QED
  BY <1>6, <1>7

\* Recheck (Computed.refresh, its second look) keeps the invariant.
LEMMA RecheckKeeps ==
  ASSUME IInv, NEW g \in Goroutines, Recheck(g)
  PROVE  IInv'
<1> DEFINE Same == \A i \in DOMAIN comp[Top(g).at].deps :
                     node[comp[Top(g).at].deps[i].source].rev = comp[Top(g).at].deps[i].rev
<1>1. PICK c : c = Top(g).at
  OBVIOUS
<1>2. ~Idle(g) /\ Top(g).op = "recheck" /\ Top(g).op \in FrameOps
        /\ UNCHANGED <<node, effect, batch, panics>>
  BY <1>1 DEF Recheck, At, FrameOps
<1>3. c \in Derived /\ comp[c].refreshing /\ comp[c].mu = g
  BY <1>1, <1>2, TopFits DEF CallOK, CallFits, Mu, Releasing
<1>4. /\ comp[c] \in CompRecord /\ OneFrame(c) /\ Fresh(c)
      /\ Total(stack, Frame(c)) \in Nat /\ Total(stack, Sharing(c)) \in 0..1
      /\ Frame(c) # Other /\ Sharing(c) # Other /\ Frame(c) # Sharing(c)
  BY <1>3, ValueFacts
<1>5. CASE Same
  <2>1. PICK call : call = Call("commit", c, Top(g).args)
    OBVIOUS
  <2>2. Goes(g, <<call>>) /\ UNCHANGED comp
    BY <1>1, <1>5, <2>1 DEF Recheck
  <2>3. call.op = "commit" /\ call.at = c
    BY <2>1, CallIs
  <2>4. CallOK(call) /\ call.op \in FrameOps /\ CallFits(g, call)
    BY <1>3, <2>3 DEF CallOK, FrameOps, CallFits, Releasing, Mu
  <2> QED
    BY <1>1, <1>2, <2>2, <2>3, <2>4, EvalNext
<1>6. CASE ~Same
  <2> DEFINE r == [comp[c] EXCEPT !.dirty = TRUE, !.mu = None]
  <2>1. PICK call : call = Call("loop", c, <<>>)
    OBVIOUS
  <2>2. PICK nil : nil = <<>>
    OBVIOUS
  <2>3. Goes(g, Append(nil, call)) /\ comp' = [comp EXCEPT ![c] = r]
    <3>1. comp' = [comp EXCEPT ![c].dirty = TRUE, ![c].mu = None] /\ Goes(g, <<call>>)
      BY <1>1, <1>6, <2>1 DEF Recheck
    <3>2. comp \in [Derived -> CompRecord]
      BY IInvFacts DEF CompShape
    <3>3. comp' = [comp EXCEPT ![c] = r]
      BY <1>3, <3>1, <3>2
    <3> QED
      BY <2>2, <3>1, <3>3, OneCall
  <2>4. call.op = "loop" /\ call.at = c
    BY <2>1, CallIs
  <2>5. Tag(call) = Frame(c) /\ CallOK(call)
    BY <1>3, <2>4, TagIs DEF FrameOps, CallOK
  <2>6. Turn(nil, call, c)
    BY <2>2, <2>4, <2>5, NobodyHeard DEF Turn, Notifies
  <2>7. /\ r \in CompRecord /\ r.refreshing = comp[c].refreshing /\ r.mu = None /\ r.dirty = TRUE
        /\ r.stopped = comp[c].stopped /\ r.deps = comp[c].deps /\ r.stage = comp[c].stage
    BY <1>4 DEF CompRecord
  <2> HIDE DEF r
  <2>8. comp'[c] = r
    BY <1>3, <2>3, IInvFacts, CompSet
  <2>9. Tag(Top(g)) = Frame(c) /\ Top(g).op \notin {"on", "off"}
    BY <1>1, <1>2, TopFrame
  <2>10. /\ Moves(g, Frame(c), Append(nil, call))
         /\ \A t : t # Other =>
              /\ Total(stack, t) \in Nat /\ Total(stack', t) \in Nat
              /\ Total(stack', t) + One(Frame(c), t) = Total(stack, t) + One(Tag(call), t)
    BY <1>2, <1>3, <2>3, <2>6, <2>9, TurnMoves
  <2>11. ~Unborn(c) /\ comp[c].stage # "new"
    BY <1>3, <1>4 DEF Fresh
  <2>12. Total(stack', Frame(c)) = Total(stack, Frame(c)) /\ Total(stack', Sharing(c)) = Total(stack, Sharing(c))
    BY <1>4, <2>5, <2>10 DEF One
  <2>13. OneFrame(c)'
    BY <1>4, <2>7, <2>8, <2>12 DEF OneFrame, Unborn
  <2>14. Fresh(c)' /\ (Unsubscribed(c)' => Unsubscribed(c))
    BY <1>4, <2>7, <2>8, <2>11, <2>12 DEF Fresh, Unborn, Unsubscribed
  <2>15. CallFits(g, call)'
    BY <1>3, <2>4, <2>7, <2>8 DEF CallFits, Releasing
  <2>16. ASSUME NEW h \in Goroutines, NEW k, Has(stack[h], k), Has(stack'[h], k), k.at = c
         PROVE  CallFits(h, k)'
    <3>1. CallFits(h, k) /\ CallOK(k)
      BY <2>16, IInvFacts DEF IInv, CallsFit, CallsOK, Has
    <3>2. CASE h # g
      <4>1. k.op \notin Releasing
        BY <1>3, <2>16, <3>1, <3>2 DEF CallFits, Mu
      <4> QED
        BY <2>7, <2>8, <2>16, <3>1, <4>1 DEF CallFits
    <3>3. CASE h = g
      <4>1. PICK calls : calls = Append(nil, call)
        OBVIOUS
      <4>2. IsSeq(calls) /\ \A x : Has(calls, x) => x = call
        <5>1. calls = <<call>>
          BY <2>2, <4>1, OneCall
        <5> QED
          BY <5>1, ShortSeqs DEF Has
      <4>3. Has(calls, k) \/ k.op \notin Busy
        BY <1>2, <2>3, <2>9, <2>16, <3>3, <4>1, <4>2, RestNotBusy
      <4>4. CASE k = call
        BY <2>15, <3>3, <4>4
      <4>5. CASE k.op \notin Busy
        BY <2>7, <2>8, <2>16, <3>1, <4>5 DEF CallFits, Busy
      <4> QED
        BY <4>2, <4>3, <4>4, <4>5
    <3> QED
      BY <3>2, <3>3
  <2> QED
    BY <1>2, <1>3, <2>3, <2>6, <2>7, <2>10, <2>13, <2>14, <2>15, <2>16, TurnKeeps
<1> QED
  BY <1>5, <1>6

-----------------------------------------------------------------------------
(* Critical sections that edit subscriptions.                             *)

\* Calls that remove the subscriptions of who at the nodes offs and make those
\* at the nodes ons.
Edits(a, who, offs, ons) ==
    /\ Block(a)
    /\ \A i \in DOMAIN a : /\ a[i].op \in {"on", "off"} /\ a[i].args = who
                           /\ ons = <<>> => a[i].op = "off"
                           /\ \E n : Tag(a[i]) \in {On(n, who), Off(n, who)}
    /\ \A n : Num(a, On(n, who)) = Count(ons, n) /\ Num(a, Off(n, who)) = Count(offs, n)
    /\ \A t : (\A n : t \notin {On(n, who), Off(n, who)}) => Num(a, t) = 0

\* Nothing is counted in an empty sequence.
LEMMA NoneCounted ==
  ASSUME NEW n
  PROVE  Count(<<>>, n) = 0 /\ \A t : Num(<<>>, t) = 0
<1>1. PICK nil : nil = <<>>
  OBVIOUS
<1>2. IsSeq(nil) /\ DOMAIN nil = {}
  BY <1>1, ShortSeqs
<1>3. Count(nil, n) = 0
  BY <1>1, <1>2, CountFacts
<1>4. ASSUME NEW t PROVE Num(nil, t) = 0
  <2>1. TagPlaces(nil, t) = {}
    BY <1>2 DEF TagPlaces
  <2> QED
    BY <2>1, FS_EmptySet DEF Num
<1> QED
  BY <1>1, <1>3, <1>4

\* No call edits nothing.
LEMMA EditsNone ==
  ASSUME NEW who
  PROVE  Edits(<<>>, who, <<>>, <<>>)
<1>1. PICK nil : nil = <<>>
  OBVIOUS
<1>2. Block(nil) /\ DOMAIN nil = {}
  BY <1>1, ShortSeqs DEF Block
<1>3. \A n : Count(nil, n) = 0
  BY <1>1, NoneCounted
<1>4. \A t : Num(nil, t) = 0
  BY <1>1, NoneCounted
<1>5. Edits(nil, who, nil, nil)
  BY <1>2, <1>3, <1>4 DEF Edits
<1> QED
  BY <1>1, <1>5

\* The calls that unsubscribe from the nodes q.
LEMMA EditsOff ==
  ASSUME NEW q \in Seq(Nodes), NEW who \in Actors
  PROVE  Edits(Calls("off", q, who), who, q, <<>>)
<1>1. PICK a : a = Calls("off", q, who)
  OBVIOUS
<1>2. who \in Subscribers /\ who \in Derived \cup Effects
  BY DEF Subscribers, Actors
<1>3. PICK op : op = "off"
  OBVIOUS
<1>4. LET calls == Calls(op, q, who)
      IN /\ Block(calls)
         /\ \A i \in DOMAIN calls : calls[i].op = op /\ calls[i].args = who
         /\ \A i \in DOMAIN calls : \E n : Tag(calls[i]) = IF op = "on" THEN On(n, who) ELSE Off(n, who)
         /\ \A n : Num(calls, IF op = "on" THEN On(n, who) ELSE Off(n, who)) = Count(q, n)
         /\ \A t : (\A n : t # IF op = "on" THEN On(n, who) ELSE Off(n, who)) => Num(calls, t) = 0
  BY <1>2, <1>3, EditFacts
<1>5. /\ Block(a) /\ \A i \in DOMAIN a : a[i].op = "off" /\ a[i].args = who
      /\ \A i \in DOMAIN a : \E n : Tag(a[i]) = Off(n, who)
      /\ \A n : Num(a, Off(n, who)) = Count(q, n)
      /\ \A t : (\A n : t # Off(n, who)) => Num(a, t) = 0
  BY <1>1, <1>3, <1>4
<1>6. ASSUME NEW n PROVE Num(a, On(n, who)) = 0
  <2>1. \A m : On(n, who) # Off(m, who)
    BY DEF On, Off
  <2> QED
    BY <1>5, <2>1
<1>7. \A n : Count(<<>>, n) = 0
  BY NoneCounted
<1>8. PICK nil : nil = <<>>
  OBVIOUS
<1>9. Edits(a, who, q, nil)
  BY <1>5, <1>6, <1>7, <1>8 DEF Edits
<1> QED
  BY <1>1, <1>8, <1>9

\* The calls that subscribe to the nodes q.
LEMMA EditsOn ==
  ASSUME NEW q \in Seq(Nodes), NEW who \in Actors
  PROVE  Edits(Calls("on", q, who), who, <<>>, q)
<1>1. PICK a : a = Calls("on", q, who)
  OBVIOUS
<1>2. who \in Subscribers /\ who \in Derived \cup Effects
  BY DEF Subscribers, Actors
<1>3. PICK op : op = "on"
  OBVIOUS
<1>4. LET calls == Calls(op, q, who)
      IN /\ Block(calls)
         /\ \A i \in DOMAIN calls : calls[i].op = op /\ calls[i].args = who
         /\ \A i \in DOMAIN calls : \E n : Tag(calls[i]) = IF op = "on" THEN On(n, who) ELSE Off(n, who)
         /\ \A n : Num(calls, IF op = "on" THEN On(n, who) ELSE Off(n, who)) = Count(q, n)
         /\ \A t : (\A n : t # IF op = "on" THEN On(n, who) ELSE Off(n, who)) => Num(calls, t) = 0
  BY <1>2, <1>3, EditFacts
<1>5. /\ Block(a) /\ \A i \in DOMAIN a : a[i].op = "on" /\ a[i].args = who
      /\ \A i \in DOMAIN a : \E n : Tag(a[i]) = On(n, who)
      /\ \A n : Num(a, On(n, who)) = Count(q, n)
      /\ \A t : (\A n : t # On(n, who)) => Num(a, t) = 0
  BY <1>1, <1>3, <1>4
<1>6. ASSUME NEW n PROVE Num(a, Off(n, who)) = 0
  <2>1. \A m : Off(n, who) # On(m, who)
    BY DEF On, Off
  <2> QED
    BY <1>5, <2>1
<1>7. \A n : Count(<<>>, n) = 0
  BY NoneCounted
<1>8. PICK nil : nil = <<>>
  OBVIOUS
<1>9. q = <<>> => DOMAIN a = {}
  <2>1. DOMAIN a = DOMAIN q
    BY <1>1, CallsFacts DEF IsSeq
  <2> QED
    BY <2>1, ShortSeqs
<1>10. Edits(a, who, nil, q)
  BY <1>5, <1>6, <1>7, <1>8, <1>9 DEF Edits
<1> QED
  BY <1>1, <1>8, <1>10

\* The calls that unsubscribe from some nodes and then subscribe to others
\* (subscribeToDepsLocked, Effect.run).
LEMMA EditsOffOn ==
  ASSUME NEW offs \in Seq(Nodes), NEW ons \in Seq(Nodes), NEW who \in Actors
  PROVE  Edits(Calls("off", offs, who) \o Calls("on", ons, who), who, offs, ons)
<1>1. PICK a : a = Calls("off", offs, who)
  OBVIOUS
<1>2. PICK b : b = Calls("on", ons, who)
  OBVIOUS
<1>3. PICK nil : nil = <<>>
  OBVIOUS
<1>4. Edits(a, who, offs, nil) /\ Edits(b, who, nil, ons)
  BY <1>1, <1>2, <1>3, EditsOff, EditsOn
<1>5. Block(a \o b) /\ From(a \o b, a, b)
  BY <1>4, BlockCat DEF Edits
<1>6. \A t : Num(a, t) \in Nat /\ Num(b, t) \in Nat /\ Num(a \o b, t) = Num(a, t) + Num(b, t)
  BY <1>4, NumCat DEF Edits, Block
<1>7. \A n : Count(nil, n) = 0
  BY <1>3, NoneCounted
<1>8. \A n : Num(a \o b, On(n, who)) = Count(ons, n)
  BY <1>4, <1>6, <1>7 DEF Edits
<1>9. \A n : Num(a \o b, Off(n, who)) = Count(offs, n)
  BY <1>4, <1>6, <1>7 DEF Edits
<1>10. \A t : (\A n : t \notin {On(n, who), Off(n, who)}) => Num(a \o b, t) = 0
  BY <1>4, <1>6 DEF Edits
<1>11. \A i \in DOMAIN (a \o b) :
          /\ (a \o b)[i].op \in {"on", "off"} /\ (a \o b)[i].args = who
          /\ ons = <<>> => (a \o b)[i].op = "off"
          /\ \E n : Tag((a \o b)[i]) \in {On(n, who), Off(n, who)}
  BY <1>3, <1>4, <1>5 DEF Edits, From
<1>12. PICK ab : ab = a \o b
  OBVIOUS
<1>13. Edits(ab, who, offs, ons)
  BY <1>5, <1>8, <1>9, <1>10, <1>11, <1>12 DEF Edits
<1> QED
  BY <1>1, <1>2, <1>12, <1>13

\* Edits, then a call of who that is made after them.
LEMMA EditsThen ==
  ASSUME NEW a, NEW who, NEW offs, NEW ons, Edits(a, who, offs, ons), NEW call, CallOK(call),
         call.op \in FrameOps \cup {"unlock"}, call.at = who, call.op \in Releasing \/ ons = <<>>
  PROVE  /\ Block(Append(a, call)) /\ Nested(Append(a, call))
         /\ EndsWith(Append(a, call), a, call)
         /\ \A n : /\ Num(Append(a, call), On(n, who)) = Count(ons, n)
                   /\ Num(Append(a, call), Off(n, who)) = Count(offs, n)
         /\ \A t : (\A n : t \notin {On(n, who), Off(n, who)})
                     => Num(Append(a, call), t) = One(Tag(call), t)
<1>1. Block(a) /\ IsSeq(a)
  BY DEF Edits, Block
<1>2. /\ Block(Append(a, call)) /\ Append(a, call) = a \o <<call>>
      /\ \A t : /\ Num(a, t) \in Nat
                /\ Num(Append(a, call), t) = Num(a, t) + One(Tag(call), t)
      /\ EndsWith(Append(a, call), a, call)
  BY <1>1, AppendFacts
<1>3. Nested(Append(a, call))
  <2>1. CASE call.op \in Releasing
    BY <1>1, <2>1, NestedSection DEF Edits
  <2>2. CASE call.op \notin Releasing
    <3>1. \A i \in DOMAIN a : a[i].op = "off"
      BY <2>2 DEF Edits
    <3>2. PICK b : b = <<call>>
      OBVIOUS
    <3>3. IsSeq(b) /\ DOMAIN b = 1..1 /\ b[1] = call
      BY <3>2, ShortSeqs
    <3>4. call.op \notin Busy /\ call.op # "endBatch"
      BY <2>2 DEF Busy, FrameOps, Releasing
    <3>5. Loose(b)
      BY <3>3, <3>4 DEF Loose
    <3>6. Nested(a \o b)
      BY <1>1, <3>1, <3>3, <3>5, NestedEdits
    <3> QED
      BY <1>2, <3>2, <3>6
  <2> QED
    BY <2>1, <2>2
<1>4. Tag(call) \in {Frame(who), Other}
  BY TagIs DEF FrameOps
<1>5. \A n : Tag(call) # On(n, who) /\ Tag(call) # Off(n, who)
  BY <1>4, TagsDiffer
<1>6. \A n : /\ Num(Append(a, call), On(n, who)) = Count(ons, n)
             /\ Num(Append(a, call), Off(n, who)) = Count(offs, n)
  BY <1>2, <1>5 DEF Edits, One
<1>7. \A t : (\A n : t \notin {On(n, who), Off(n, who)})
               => Num(Append(a, call), t) = One(Tag(call), t)
  BY <1>2 DEF Edits, One
<1> QED
  BY <1>2, <1>3, <1>6, <1>7

\* Who holds no mutex has no subscription still to be made.
LEMMA NoPendingOn ==
  ASSUME IInv, NEW who \in Actors, Mu(who) = None, NEW n
  PROVE  Total(stack, On(n, who)) = 0
<1>1. AllSeqs(stack)
  BY IInvFacts DEF StackShape, AllSeqs
<1>2. ASSUME NEW h \in Goroutines, NEW i \in DOMAIN stack[h], Tag(stack[h][i]) = On(n, who)
      PROVE  FALSE
  <2>1. stack[h][i].op = "on" /\ stack[h][i].args = who
    <3>1. PICK k : k = stack[h][i]
      OBVIOUS
    <3>2. Tag(k) = On(n, who)
      BY <1>2, <3>1
    <3>3. k.op = "on"
      <4>1. CASE k.op = "off"
        BY <3>2, <4>1, TagIs DEF On, Off
      <4>2. CASE k.op \in FrameOps
        BY <3>2, <4>2, TagIs, TagsDiffer
      <4>3. CASE k.op = "share"
        BY <3>2, <4>3, TagIs, TagsDiffer
      <4>4. CASE k.op = "endBatch"
        BY <3>2, <4>4, TagIs, TagsDiffer
      <4>5. CASE k.op \notin {"on", "off", "share", "endBatch"} \cup FrameOps
        BY <3>2, <4>5, TagIs, TagsDiffer
      <4> QED
        BY <4>1, <4>2, <4>3, <4>4, <4>5
    <3>4. On(k.at, k.args) = On(n, who)
      BY <3>2, <3>3, TagIs
    <3> QED
      BY <3>1, <3>3, <3>4, TagsDiffer
  <2>2. who \notin Watchers
    BY SignalAssumption DEF Actors
  <2>3. PICK j \in DOMAIN stack[h] : stack[h][j].op \in Releasing /\ stack[h][j].at = who
    BY <2>1, <2>2 DEF IInv, StacksNested, Nested
  <2>4. Mu(who) = h
    BY <2>3 DEF IInv, CallsFit, CallFits
  <2> QED
    BY <2>4, SignalAssumption
<1> QED
  BY <1>1, <1>2, TotalPlaces

\* A mutex that nobody held may be taken.
LEMMA FreeFits ==
  ASSUME IInv, NEW who \in Actors, Mu(who) = None,
         who \in Derived => comp'[who].refreshing = comp[who].refreshing
  PROVE  \A h \in Goroutines : \A k : Has(stack[h], k) /\ k.at = who => CallFits(h, k)'
<1> SUFFICES ASSUME NEW h \in Goroutines, NEW k, Has(stack[h], k), k.at = who
             PROVE  CallFits(h, k)'
  OBVIOUS
<1>1. CallFits(h, k) /\ CallOK(k)
  BY IInvFacts DEF IInv, CallsFit, CallsOK, Has
<1>2. k.op \notin Releasing
  BY <1>1, SignalAssumption DEF CallFits
<1>3. k.op \in {"loop", "check", "compare", "recheck", "commit", "born"} => who \in Derived
  BY <1>1 DEF CallOK
<1> QED
  BY <1>1, <1>2, <1>3 DEF CallFits

\* The subscriptions still to be made and removed change with those kept.
LEMMA BalancedAfter ==
  ASSUME IInv, NEW g, NEW gone, NEW calls, Moves(g, gone, calls), NEW who \in Actors,
         gone \in {Other, Frame(who), Sharing(who)},
         NEW offs \in Seq(Nodes), NEW ons \in Seq(Nodes),
         \A n : Num(calls, On(n, who)) = Count(ons, n) /\ Num(calls, Off(n, who)) = Count(offs, n),
         \A n \in Nodes : Count(node'[n].subs, who) = Count(node[n].subs, who),
         NEW old, old = Kept(who), NEW kept, kept = Kept(who)', IsSeq(old), IsSeq(kept),
         \A n \in Nodes : Count(old, n) + Count(ons, n) = Count(kept, n) + Count(offs, n),
         \A n \in Nodes : Total(stack, On(n, who)) + Count(ons, n) <= Count(kept, n)
  PROVE  Balanced(who)'
<1> SUFFICES ASSUME NEW n \in Nodes
             PROVE  /\ Count(node'[n].subs, who) + Total(stack', On(n, who))
                         = Count(Kept(who)', n) + Total(stack', Off(n, who))
                    /\ Total(stack', On(n, who)) <= Count(Kept(who)', n)
  BY DEF Balanced
<1>1. /\ On(n, who) # Other /\ Off(n, who) # Other
      /\ gone # On(n, who) /\ gone # Off(n, who)
  BY TagsDiffer
<1>2. /\ Total(stack, On(n, who)) \in Nat /\ Total(stack', On(n, who)) \in Nat
      /\ Total(stack', On(n, who)) = Total(stack, On(n, who)) + Count(ons, n)
  <2>1. Count(ons, n) \in Nat
    BY CountFacts DEF IsSeq
  <2> QED
    BY <1>1, <2>1 DEF Moves, One
<1>3. /\ Total(stack, Off(n, who)) \in Nat /\ Total(stack', Off(n, who)) \in Nat
      /\ Total(stack', Off(n, who)) = Total(stack, Off(n, who)) + Count(offs, n)
  <2>1. Count(offs, n) \in Nat
    BY CountFacts DEF IsSeq
  <2> QED
    BY <1>1, <2>1 DEF Moves, One
<1>4. Count(node[n].subs, who) + Total(stack, On(n, who)) = Count(old, n) + Total(stack, Off(n, who))
  <2>1. Balanced(who)
    BY IInvFacts
  <2> QED
    BY <2>1 DEF Balanced
<1>5. Count(old, n) \in Nat /\ Count(kept, n) \in Nat /\ Count(node[n].subs, who) \in Nat
        /\ Count(ons, n) \in Nat /\ Count(offs, n) \in Nat
  <2>1. IsSeq(node[n].subs)
    BY IInvFacts DEF NodeShape, IsSeq
  <2>2. IsSeq(ons) /\ IsSeq(offs)
    BY DEF IsSeq
  <2> QED
    BY <2>1, <2>2, CountFacts
<1>6. Count(old, n) + Count(ons, n) = Count(kept, n) + Count(offs, n)
  OBVIOUS
<1>7. Total(stack, On(n, who)) + Count(ons, n) <= Count(kept, n)
  OBVIOUS
<1>8. Count(node'[n].subs, who) = Count(node[n].subs, who)
  OBVIOUS
<1>9. PICK k : k = Kept(who)'
  OBVIOUS
<1>10. k = kept
  BY <1>9
<1>11. PICK on, off, onThen, offThen, m, was, is, made, cut :
          /\ was = Count(old, n) /\ is = Count(kept, n)
          /\ made = Count(ons, n) /\ cut = Count(offs, n)
          /\ on = Total(stack, On(n, who)) /\ off = Total(stack, Off(n, who))
          /\ onThen = Total(stack', On(n, who)) /\ offThen = Total(stack', Off(n, who))
          /\ m = Count(node'[n].subs, who)
  OBVIOUS
<1>12. /\ m + on = was + off /\ onThen = on + made
       /\ offThen = off + cut /\ on + made <= is /\ was + made = is + cut
       /\ m \in Nat /\ on \in Nat /\ off \in Nat /\ was \in Nat /\ is \in Nat
       /\ made \in Nat /\ cut \in Nat
  BY <1>2, <1>3, <1>4, <1>5, <1>6, <1>7, <1>8, <1>11
<1>13. m + onThen = is + offThen /\ onThen <= is
  BY <1>12
<1> QED
  BY <1>9, <1>10, <1>11, <1>13

\* A step of one derived value that may edit its subscriptions.
LEMMA ValueEdit ==
  ASSUME IInv, NEW g \in Goroutines, NEW gone, NEW calls, Moves(g, gone, calls),
         NEW c \in Derived, gone \in {Other, Frame(c), Sharing(c)},
         \A i \in DOMAIN calls : About(Tag(calls[i]), {c}) /\ Tag(calls[i]) # Ending,
         \A i \in DOMAIN calls : \A d \in Derived : ~Notifies(calls[i], d),
         NEW r \in CompRecord, comp' = [comp EXCEPT ![c] = r],
         UNCHANGED <<effect, batch, panics>>,
         NodeShape', \A n \in Nodes : node'[n].subs = node[n].subs,
         ValueOK(c)', Balanced(c)',
         \A k : Has(calls, k) => CallFits(g, k)',
         \A h \in Goroutines : \A k : Has(stack[h], k) /\ k.at = c => CallFits(h, k)'
  PROVE  IInv'
<1>1. SameTotals({c})
  <2>1. PICK X : X = {c}
    OBVIOUS
  <2>2. About(gone, X) /\ \A i \in DOMAIN calls : About(Tag(calls[i]), X)
    BY <2>1 DEF About
  <2>3. SameTotals(X)
    BY <2>2, TotalsKept
  <2> QED
    BY <2>1, <2>3
<1>2. SubsKept({c})
  BY DEF SubsKept
<1>3. Unheard({c}, calls)
  BY HeardOf DEF Unheard
<1>4. BatchShape'
  <2>1. gone # Ending
    BY TagsDiffer
  <2> QED
    BY <2>1, IInvFacts, BatchKept DEF BatchShape
<1>5. comp'[c] = r /\ comp' = [comp EXCEPT ![c] = comp'[c]]
  <2>1. CompShape
    BY IInvFacts
  <2> QED
    BY <2>1, CompSet
<1>6. comp'[c] \in CompRecord
  BY <1>5
<1> QED
  BY <1>1, <1>2, <1>3, <1>4, <1>5, <1>6, ValueStep

\* A step of one effect.
LEMMA EffectEdit ==
  ASSUME IInv, NEW g \in Goroutines, NEW gone, NEW calls, Moves(g, gone, calls),
         NEW e \in Effects, gone \in {Other, Frame(e)},
         \A i \in DOMAIN calls : About(Tag(calls[i]), {e}) /\ Tag(calls[i]) # Ending,
         \A i \in DOMAIN calls : \A d \in Derived : ~Notifies(calls[i], d),
         NEW r \in EffectRecord, effect' = [effect EXCEPT ![e] = r],
         UNCHANGED <<node, comp, batch, panics>>,
         EffectOK(e)', Balanced(e)',
         \A k : Has(calls, k) => CallFits(g, k)',
         \A h \in Goroutines : \A k :
            Has(stack[h], k) /\ Has(stack'[h], k) /\ k.at = e => CallFits(h, k)'
  PROVE  IInv'
<1>1. PICK X : X = {e}
  OBVIOUS
<1>2. SameTotals(X)
  <2>1. About(gone, X) /\ \A i \in DOMAIN calls : About(Tag(calls[i]), X)
    BY <1>1 DEF About
  <2> QED
    BY <2>1, TotalsKept
<1>3. SubsKept(X)
  BY DEF SubsKept
<1>4. Unheard(X, calls)
  BY HeardOf DEF Unheard
<1>5. BatchShape'
  <2>1. gone # Ending
    BY TagsDiffer
  <2> QED
    BY <2>1, IInvFacts, BatchKept DEF BatchShape
<1>6. EffectShape' /\ \A d \in Effects : d # e => effect'[d] = effect[d]
  <2>1. effect \in [Effects -> EffectRecord]
    BY IInvFacts DEF EffectShape
  <2> QED
    BY <2>1 DEF EffectShape
<1>7. StateKept(X)
  BY <1>1, <1>6 DEF StateKept
<1>8. e \notin Derived
  BY SignalAssumption
<1>9. /\ \A d \in Derived \cap X : ValueOK(d)'
      /\ \A d \in Effects \cap X : EffectOK(d)'
      /\ \A v \in Actors \cap X : Balanced(v)'
      /\ \A h \in Goroutines : \A k :
            Has(stack[h], k) /\ Has(stack'[h], k) /\ k.at \in X => CallFits(h, k)'
  BY <1>1, <1>8
<1>10. NodeShape' /\ CompShape'
  BY IInvFacts DEF NodeShape, CompShape
<1> QED
  BY <1>2, <1>3, <1>4, <1>5, <1>6, <1>7, <1>9, <1>10, StepKeeps

\* The calls of a critical section of who, or what a stop leaves of it: they
\* edit its subscriptions and go on with this many evaluations.
Section(calls, who, offs, ons, frames) ==
    /\ Block(calls) /\ Nested(calls)
    /\ \A i \in DOMAIN calls : /\ calls[i].op # "endBatch" /\ Tag(calls[i]) # Ending
                               /\ About(Tag(calls[i]), {who})
                               /\ \A d : ~Notifies(calls[i], d)
    /\ \A n : Num(calls, On(n, who)) = Count(ons, n) /\ Num(calls, Off(n, who)) = Count(offs, n)
    /\ Num(calls, Frame(who)) = frames /\ Num(calls, Sharing(who)) = 0

\* Calls that only unsubscribe need no mutex (Computed.Stop, Effect.Dispose).
LEMMA SectionAlone ==
  ASSUME NEW a, NEW who, NEW offs, Edits(a, who, offs, <<>>)
  PROVE  Section(a, who, offs, <<>>, 0) /\ \A k : Has(a, k) => k.op = "off"
<1>1. PICK nil : nil = <<>>
  OBVIOUS
<1>2. Edits(a, who, offs, nil)
  BY <1>1
<1>3. Block(a) /\ IsSeq(a) /\ \A i \in DOMAIN a : a[i].op = "off"
  BY <1>1, <1>2 DEF Edits, Block
<1>4. Nested(a)
  BY <1>3 DEF Nested, Busy, Releasing
<1>5. ASSUME NEW i \in DOMAIN a
      PROVE  /\ a[i].op # "endBatch" /\ Tag(a[i]) # Ending
             /\ About(Tag(a[i]), {who})
             /\ \A d : ~Notifies(a[i], d)
  <2>1. PICK n : Tag(a[i]) \in {On(n, who), Off(n, who)}
    BY <1>2 DEF Edits
  <2>2. Tag(a[i]) # Ending
    BY <2>1, TagsDiffer
  <2>3. About(Tag(a[i]), {who})
    BY <2>1 DEF About
  <2> QED
    BY <1>3, <2>2, <2>3 DEF Notifies
<1>6. Num(a, Frame(who)) = 0 /\ Num(a, Sharing(who)) = 0
  <2>1. \A n : Frame(who) \notin {On(n, who), Off(n, who)} /\ Sharing(who) \notin {On(n, who), Off(n, who)}
    BY TagsDiffer
  <2> QED
    BY <1>2, <2>1 DEF Edits
<1>7. \A n : Num(a, On(n, who)) = Count(nil, n) /\ Num(a, Off(n, who)) = Count(offs, n)
  BY <1>2 DEF Edits
<1>8. Section(a, who, offs, nil, 0)
  BY <1>3, <1>4, <1>5, <1>6, <1>7 DEF Section
<1> QED
  BY <1>1, <1>3, <1>8 DEF Has

\* Edits followed by the call that lets the mutex go.
LEMMA SectionThen ==
  ASSUME NEW a, NEW who, NEW offs, NEW ons, Edits(a, who, offs, ons), NEW call, CallOK(call),
         call.op \in FrameOps \cup {"unlock"}, call.at = who, call.op \in Releasing \/ ons = <<>>
  PROVE  /\ Section(Append(a, call), who, offs, ons, IF call.op = "unlock" THEN 0 ELSE 1)
         /\ \A k : Has(Append(a, call), k) => k = call \/ k.op \in {"on", "off"}
<1>1. PICK calls : calls = Append(a, call)
  OBVIOUS
<1>2. /\ Block(calls) /\ Nested(calls) /\ EndsWith(calls, a, call)
      /\ \A n : Num(calls, On(n, who)) = Count(ons, n) /\ Num(calls, Off(n, who)) = Count(offs, n)
      /\ \A t : (\A n : t \notin {On(n, who), Off(n, who)}) => Num(calls, t) = One(Tag(call), t)
  BY <1>1, EditsThen
<1>3. Tag(call) = IF call.op = "unlock" THEN Other ELSE Frame(who)
  BY TagIs DEF FrameOps
<1>4. Num(calls, Frame(who)) = (IF call.op = "unlock" THEN 0 ELSE 1) /\ Num(calls, Sharing(who)) = 0
  <2>1. \A n : Frame(who) \notin {On(n, who), Off(n, who)} /\ Sharing(who) \notin {On(n, who), Off(n, who)}
    BY TagsDiffer
  <2>2. Frame(who) # Other /\ Sharing(who) # Other /\ Sharing(who) # Frame(who)
    BY TagsDiffer
  <2> QED
    BY <1>2, <1>3, <2>1, <2>2 DEF One
<1>5. call.op # "endBatch" /\ \A d : ~Notifies(call, d)
  BY DEF FrameOps, Notifies
<1>6. About(Tag(call), {who}) /\ Tag(call) # Ending
  BY <1>3, TagsDiffer DEF About
<1>7. ASSUME NEW i \in DOMAIN calls
      PROVE  /\ calls[i].op # "endBatch" /\ Tag(calls[i]) # Ending
             /\ About(Tag(calls[i]), {who})
             /\ \A d : ~Notifies(calls[i], d)
  <2>1. CASE calls[i] = call
    BY <1>5, <1>6, <2>1
  <2>2. CASE calls[i] # call
    <3>1. PICK j \in DOMAIN a : calls[i] = a[j]
      BY <1>2, <2>2 DEF EndsWith
    <3>2. calls[i].op \in {"on", "off"}
      BY <3>1 DEF Edits
    <3>3. PICK n : Tag(calls[i]) \in {On(n, who), Off(n, who)}
      BY <3>1 DEF Edits
    <3>4. Tag(calls[i]) # Ending
      BY <3>3, TagsDiffer
    <3>5. About(Tag(calls[i]), {who})
      BY <3>3 DEF About
    <3> QED
      BY <3>2, <3>4, <3>5 DEF Notifies
  <2> QED
    BY <2>1, <2>2
<1>8. \A k : Has(calls, k) => k = call \/ k.op \in {"on", "off"}
  BY <1>2 DEF Has, EndsWith, Edits
<1>9. PICK frames : frames = IF call.op = "unlock" THEN 0 ELSE 1
  OBVIOUS
<1>10. Section(calls, who, offs, ons, frames)
  BY <1>2, <1>4, <1>7, <1>9 DEF Section
<1> QED
  BY <1>1, <1>8, <1>9, <1>10

\* The subscriptions a derived value keeps change with those edited.
Exchanges(c, r, offs, ons) ==
    \A n \in Nodes : /\ Count(SourcesOf(comp[c].deps), n) + Count(ons, n)
                          = Count(SourcesOf(r.deps), n) + Count(offs, n)
                     /\ Count(ons, n) <= Count(SourcesOf(r.deps), n)

\* A derived value whose mutex is free edits its subscriptions.
Resubscribes(g, gone, calls, c, offs, ons, r) ==
    /\ Moves(g, gone, calls) /\ gone \in {Other, Frame(c)} /\ comp[c].mu = None
    /\ Section(calls, c, offs, ons, One(gone, Frame(c)))
    /\ offs \in Seq(Nodes) /\ ons \in Seq(Nodes) /\ Exchanges(c, r, offs, ons)
    /\ r \in CompRecord /\ comp' = [comp EXCEPT ![c] = r]
    /\ r.refreshing = comp[c].refreshing /\ r.stage = comp[c].stage /\ r.dirty = comp[c].dirty
    /\ r.mu = None \/ comp[c].stage # "new"
    /\ r.stopped # comp[c].stopped => comp[c].stage = "live"
    /\ r.mu # None \/ comp[c].stage = "live"
    /\ r.stopped => r.deps = <<>>
    /\ UNCHANGED <<effect, batch, panics>>
    /\ NodeShape' /\ \A n \in Nodes : node'[n].subs = node[n].subs
    /\ \A k : Has(calls, k) => CallFits(g, k)'

\* A step that gives a derived value other dependencies, and leaves the edits to be
\* made, keeps the invariant: what it keeps and what is to be edited change together.
LEMMA ValueSection ==
  ASSUME IInv, NEW g \in Goroutines, NEW gone, NEW calls, NEW c \in Derived, NEW offs, NEW ons,
         NEW r, Resubscribes(g, gone, calls, c, offs, ons, r)
  PROVE  IInv'
<1>0. /\ Moves(g, gone, calls) /\ gone \in {Other, Frame(c)} /\ comp[c].mu = None
      /\ Section(calls, c, offs, ons, One(gone, Frame(c)))
      /\ offs \in Seq(Nodes) /\ ons \in Seq(Nodes)
      /\ \A n \in Nodes : /\ Count(SourcesOf(comp[c].deps), n) + Count(ons, n)
                               = Count(SourcesOf(r.deps), n) + Count(offs, n)
                          /\ Count(ons, n) <= Count(SourcesOf(r.deps), n)
      /\ r \in CompRecord /\ comp' = [comp EXCEPT ![c] = r]
      /\ r.refreshing = comp[c].refreshing /\ r.stage = comp[c].stage /\ r.dirty = comp[c].dirty
      /\ r.mu = None \/ comp[c].stage # "new"
      /\ r.stopped # comp[c].stopped => comp[c].stage = "live"
      /\ r.mu # None \/ comp[c].stage = "live"
      /\ r.stopped => r.deps = <<>>
      /\ UNCHANGED <<effect, batch, panics>>
      /\ NodeShape' /\ \A n \in Nodes : node'[n].subs = node[n].subs
      /\ \A k : Has(calls, k) => CallFits(g, k)'
  BY DEF Resubscribes, Exchanges
<1>1. /\ comp[c] \in CompRecord /\ OneFrame(c) /\ Fresh(c)
      /\ Total(stack, Frame(c)) \in Nat /\ Total(stack, Sharing(c)) \in 0..1
      /\ Frame(c) # Other /\ Sharing(c) # Other /\ Frame(c) # Sharing(c)
  BY ValueFacts
<1>2. comp'[c] = r
  <2>1. CompShape
    BY IInvFacts
  <2> QED
    BY <1>0, <2>1, CompSet
<1>3. Total(stack', Frame(c)) = Total(stack, Frame(c)) /\ Total(stack', Sharing(c)) = Total(stack, Sharing(c))
  <2>1. Num(calls, Frame(c)) = One(gone, Frame(c)) /\ Num(calls, Sharing(c)) = 0
    BY <1>0 DEF Section
  <2>2. /\ Total(stack', Frame(c)) + One(gone, Frame(c)) = Total(stack, Frame(c)) + One(gone, Frame(c))
        /\ Total(stack', Frame(c)) \in Nat /\ One(gone, Frame(c)) \in Nat
    BY <1>0, <1>1, <2>1 DEF Moves, One
  <2>3. /\ Total(stack', Sharing(c)) + One(gone, Sharing(c)) = Total(stack, Sharing(c)) + 0
        /\ Total(stack', Sharing(c)) \in Nat
    BY <1>0, <1>1, <2>1 DEF Moves
  <2>4. One(gone, Sharing(c)) = 0
    BY <1>0, <1>1 DEF One
  <2> QED
    BY <1>1, <2>2, <2>3, <2>4
<1>4. OneFrame(c)'
  BY <1>0, <1>1, <1>2, <1>3 DEF OneFrame, Unborn
<1>5. comp[c].stage = "live" => ~Unborn(c) /\ comp[c].stage # "new"
  BY DEF Unborn
<1>6. Fresh(c)'
  BY <1>0, <1>1, <1>2, <1>3, <1>5 DEF Fresh, Unborn
<1>7. ~Unsubscribed(c)'
  BY <1>0, <1>2, <1>3, <1>5 DEF Unsubscribed, Unborn
<1>8. ValueOK(c)'
  BY <1>0, <1>2, <1>4, <1>6, <1>7 DEF ValueOK, Quiet
<1>9. c \in Actors /\ Mu(c) = None
  BY <1>0 DEF Actors, Mu
<1>10. Balanced(c)'
  <2>1. PICK old : old = Kept(c)
    OBVIOUS
  <2>2. PICK kept : kept = Kept(c)'
    OBVIOUS
  <2>3. old = SourcesOf(comp[c].deps) /\ kept = SourcesOf(r.deps)
    BY <1>2, <2>1, <2>2 DEF Kept, SourcesOf
  <2>4. IsSeq(old) /\ IsSeq(kept)
    BY <1>0, <1>1, <2>3, SourcesFacts DEF CompRecord, IsSeq
  <2>5. \A n \in Nodes : Count(old, n) + Count(ons, n) = Count(kept, n) + Count(offs, n)
    BY <1>0, <2>3
  <2>6. \A n \in Nodes : Total(stack, On(n, c)) + Count(ons, n) <= Count(kept, n)
    <3> SUFFICES ASSUME NEW n \in Nodes PROVE Total(stack, On(n, c)) + Count(ons, n) <= Count(kept, n)
      OBVIOUS
    <3>1. Total(stack, On(n, c)) = 0
      BY <1>9, NoPendingOn
    <3>2. Count(ons, n) <= Count(kept, n)
      BY <1>0, <2>3
    <3>3. Count(ons, n) \in Nat
      BY <1>0, CountFacts DEF IsSeq
    <3> QED
      BY <3>1, <3>2, <3>3
  <2>7. \A n : Num(calls, On(n, c)) = Count(ons, n) /\ Num(calls, Off(n, c)) = Count(offs, n)
    BY <1>0 DEF Section
  <2>8. \A n \in Nodes : Count(node'[n].subs, c) = Count(node[n].subs, c)
    BY <1>0
  <2>9. gone \in {Other, Frame(c), Sharing(c)}
    BY <1>0
  <2> QED
    BY <1>0, <1>9, <2>1, <2>2, <2>4, <2>5, <2>6, <2>7, <2>8, <2>9, BalancedAfter
<1>11. \A h \in Goroutines : \A k : Has(stack[h], k) /\ k.at = c => CallFits(h, k)'
  BY <1>0, <1>2, <1>9, FreeFits
<1>12. /\ \A i \in DOMAIN calls : About(Tag(calls[i]), {c}) /\ Tag(calls[i]) # Ending
       /\ \A i \in DOMAIN calls : \A d \in Derived : ~Notifies(calls[i], d)
  BY <1>0 DEF Section
<1>13. gone \in {Other, Frame(c), Sharing(c)}
  BY <1>0
<1> QED
  BY <1>0, <1>8, <1>10, <1>11, <1>12, <1>13, ValueEdit

\* The dependencies of a function that has read all it reads.
LEMMA TrackedFacts ==
  ASSUME IInv, NEW g \in Goroutines, Tracked(g)
  PROVE  /\ ~Idle(g) /\ Top(g).op = "track" /\ Top(g).op \in FrameOps
         /\ Top(g).at \in Actors /\ Deps(Top(g).args) \in Seq(Dependency)
         /\ SourcesOf(Deps(Top(g).args)) \in Seq(Nodes)
<1>1. ~Idle(g) /\ Top(g).op = "track" /\ Top(g).op \in FrameOps
  BY DEF Tracked, At, FrameOps
<1>2. Top(g).at \in Actors /\ ReadsOK(Top(g).args)
  BY <1>1, TopFits DEF CallOK, Actors
<1>3. Deps(Top(g).args) \in Seq(Dependency)
  BY <1>2, DepsFacts DEF Distinct
<1> QED
  BY <1>1, <1>2, <1>3, SourcesFacts

\* Settle (Computed.refresh, after the function has returned) keeps the invariant.
LEMMA SettleKeeps ==
  ASSUME IInv, NEW g \in Goroutines, Settle(g)
  PROVE  IInv'
<1>1. PICK c : c = Top(g).at
  OBVIOUS
<1>2. PICK deps : deps = Deps(Top(g).args)
  OBVIOUS
<1>3. /\ ~Idle(g) /\ Top(g).op = "track" /\ Top(g).op \in FrameOps
      /\ deps \in Seq(Dependency) /\ SourcesOf(deps) \in Seq(Nodes)
  BY <1>2, TrackedFacts DEF Settle
<1>4. c \in Derived /\ comp[c].refreshing /\ comp[c].mu = None
        /\ UNCHANGED <<node, effect, batch, panics>>
  BY <1>1 DEF Settle
<1>5. comp[c] \in CompRecord /\ comp \in [Derived -> CompRecord]
  BY <1>4, IInvFacts DEF CompShape
<1>6. NodeShape' /\ \A n \in Nodes : node'[n].subs = node[n].subs
  BY <1>4, IInvFacts DEF NodeShape
<1>7. CASE comp[c].stopped
  <2> DEFINE r == [comp[c] EXCEPT !.refreshing = FALSE]
  <2>1. PICK calls : calls = <<>>
    OBVIOUS
  <2>2. Goes(g, calls) /\ comp' = [comp EXCEPT ![c] = r] /\ PlainTo(calls, {})
    BY <1>1, <1>7, <2>1, NobodyHeard DEF Settle
  <2>3. /\ r \in CompRecord /\ r.refreshing = FALSE /\ r.mu = comp[c].mu /\ r.dirty = comp[c].dirty
        /\ r.stopped = comp[c].stopped /\ r.deps = comp[c].deps /\ r.stage = comp[c].stage
    BY <1>5 DEF CompRecord
  <2> HIDE DEF r
  <2>4. PICK S : S = {}
    OBVIOUS
  <2>5. PlainTo(calls, S) /\ \A d \in Derived : Unsubscribed(d) => d \notin S
    BY <2>2, <2>4
  <2>6. Top(g).at = c /\ r.mu \in {comp[c].mu, None} /\ Goes(g, calls)
    BY <1>1, <2>2, <2>3
  <2> QED
    BY <1>3, <1>4, <1>6, <2>2, <2>3, <2>5, <2>6, RefreshEnds
<1>8. CASE ~comp[c].stopped
  <2> DEFINE r == [comp[c] EXCEPT !.mu = g, !.deps = deps]
  <2>1. PICK call : call = Call("recheck", c, Result(c, Vals(Top(g).args)))
    OBVIOUS
  <2>2. PICK a : a = Resubscribe(c, deps)
    OBVIOUS
  <2>3. comp' = [comp EXCEPT ![c] = r] /\ Goes(g, Append(a, call))
    <3>1. comp' = [comp EXCEPT ![c].mu = g, ![c].deps = deps] /\ Goes(g, Append(a, call))
      BY <1>1, <1>2, <1>8, <2>1, <2>2 DEF Settle
    <3> QED
      BY <1>4, <1>5, <3>1
  <2>4. /\ r \in CompRecord /\ r.refreshing = comp[c].refreshing /\ r.mu = g /\ r.dirty = comp[c].dirty
        /\ r.stopped = FALSE /\ comp[c].stopped = FALSE /\ r.deps = deps /\ r.stage = comp[c].stage
    BY <1>3, <1>5, <1>8 DEF CompRecord
  <2> HIDE DEF r
  <2>5. call.op = "recheck" /\ call.at = c
    BY <2>1, CallIs
  <2>6. CallOK(call) /\ call.op \in FrameOps /\ call.op \in Releasing /\ Tag(call) = Frame(c)
    BY <1>4, <2>5, TagIs DEF CallOK, FrameOps, Releasing
  <2>7. PICK old : old = SourcesOf(comp[c].deps)
    OBVIOUS
  <2>8. PICK new : new = SourcesOf(deps)
    OBVIOUS
  <2>9. old \in Seq(Nodes) /\ new \in Seq(Nodes)
    BY <1>3, <1>5, <2>7, <2>8, SourcesFacts DEF CompRecord
  <2>10. PICK offs, ons : /\ offs \in Seq(Nodes) /\ ons \in Seq(Nodes) /\ Edits(a, c, offs, ons)
                          /\ \A n : /\ Count(old, n) + Count(ons, n) = Count(new, n) + Count(offs, n)
                                    /\ Count(ons, n) <= Count(new, n)
    <3>1. IsSeq(old) /\ IsSeq(new)
      BY <2>9 DEF IsSeq
    <3>2. \A n : Count(old, n) \in Nat /\ Count(new, n) \in Nat
      BY <3>1, CountFacts
    <3>3. CASE old = new
      <4>1. a = <<>>
        BY <2>2, <2>7, <2>8, <3>3 DEF Resubscribe
      <4>2. PICK nil : nil = <<>>
        OBVIOUS
      <4>3. Edits(a, c, nil, nil) /\ nil \in Seq(Nodes)
        BY <4>1, <4>2, EditsNone
      <4>4. \A n : Count(nil, n) = 0
        BY <4>2, NoneCounted
      <4>5. \A n : Count(old, n) + Count(nil, n) = Count(new, n) + Count(nil, n) /\ Count(nil, n) <= Count(new, n)
        BY <3>2, <3>3, <4>4
      <4> QED
        BY <4>3, <4>5
    <3>4. CASE old # new
      <4>1. a = Calls("off", old, c) \o Calls("on", new, c)
        BY <2>2, <2>7, <2>8, <3>4 DEF Resubscribe
      <4>2. Edits(a, c, old, new)
        BY <1>4, <2>9, <4>1, EditsOffOn DEF Actors
      <4>3. \A n : Count(old, n) + Count(new, n) = Count(new, n) + Count(old, n) /\ Count(new, n) <= Count(new, n)
        BY <3>2
      <4> QED
        BY <2>9, <4>2, <4>3
    <3> QED
      BY <3>3, <3>4
  <2>11. PICK calls : calls = Append(a, call)
    OBVIOUS
  <2>12. Section(calls, c, offs, ons, 1) /\ \A k : Has(calls, k) => k = call \/ k.op \in {"on", "off"}
    BY <2>5, <2>6, <2>10, <2>11, SectionThen
  <2>13. Tag(Top(g)) = Frame(c) /\ Top(g).op \notin {"on", "off"}
    BY <1>1, <1>3, TopFrame
  <2>14. Goes(g, calls)
    BY <2>3, <2>11
  <2>15. Moves(g, Tag(Top(g)), calls)
    BY <1>3, <2>12, <2>13, <2>14, IInvFacts, GoesMoves DEF Section
  <2>16. PICK gone : gone = Frame(c)
    OBVIOUS
  <2>17. Moves(g, gone, calls) /\ gone \in {Other, Frame(c)} /\ Section(calls, c, offs, ons, One(gone, Frame(c)))
    BY <2>12, <2>13, <2>15, <2>16 DEF One
  <2>18. \A k : Has(calls, k) => CallFits(g, k)'
    <3>1. comp'[c] = r
      BY <1>4, <2>3, IInvFacts, CompSet
    <3>2. CallFits(g, call)'
      BY <1>4, <2>4, <2>5, <3>1 DEF CallFits, Mu
    <3>3. \A k : k.op \in {"on", "off"} => CallFits(g, k)'
      BY DEF CallFits, Releasing
    <3> QED
      BY <2>12, <3>2, <3>3
  <2>19. comp[c].stage # "new"
    BY <1>4, ValueFacts DEF Fresh
  <2>20. r.mu # None
    BY <2>4, SignalAssumption
  <2>21. \A n \in Nodes : /\ Count(SourcesOf(comp[c].deps), n) + Count(ons, n)
                                = Count(SourcesOf(r.deps), n) + Count(offs, n)
                          /\ Count(ons, n) <= Count(SourcesOf(r.deps), n)
    BY <2>4, <2>7, <2>8, <2>10
  <2>22. /\ offs \in Seq(Nodes) /\ ons \in Seq(Nodes)
         /\ r \in CompRecord /\ comp' = [comp EXCEPT ![c] = r]
         /\ r.refreshing = comp[c].refreshing /\ r.stage = comp[c].stage /\ r.dirty = comp[c].dirty
         /\ r.mu = None \/ comp[c].stage # "new"
         /\ r.stopped # comp[c].stopped => comp[c].stage = "live"
         /\ r.mu # None \/ comp[c].stage = "live"
         /\ r.stopped => r.deps = <<>>
    BY <2>3, <2>4, <2>10, <2>19, <2>20
  <2>23. Resubscribes(g, gone, calls, c, offs, ons, r)
    BY <1>4, <1>6, <2>17, <2>18, <2>21, <2>22 DEF Resubscribes, Exchanges
  <2> QED
    BY <1>4, <2>23, ValueSection
<1> QED
  BY <1>7, <1>8

\* Commit (Computed.refresh, its last section) keeps the invariant.
LEMMA CommitKeeps ==
  ASSUME IInv, NEW g \in Goroutines, Commit(g)
  PROVE  IInv'
<1>1. PICK c : c = Top(g).at
  OBVIOUS
<1>2. ~Idle(g) /\ Top(g).op = "commit" /\ Top(g).op \in FrameOps
        /\ UNCHANGED <<effect, batch, panics>>
  BY <1>1 DEF Commit, At, FrameOps
<1>3. c \in Derived /\ comp[c].refreshing /\ c \in Nodes
  BY <1>1, <1>2, TopFits DEF CallOK, CallFits, Nodes
<1>4. comp[c] \in CompRecord /\ comp \in [Derived -> CompRecord]
  BY <1>3, IInvFacts DEF CompShape
<1> DEFINE r == [comp[c] EXCEPT !.refreshing = FALSE, !.mu = None]
<1>5. comp' = [comp EXCEPT ![c] = r]
  <2>1. comp' = [comp EXCEPT ![c].refreshing = FALSE, ![c].mu = None]
    BY <1>1 DEF Commit
  <2> QED
    BY <1>3, <1>4, <2>1
<1>6. /\ r \in CompRecord /\ r.refreshing = FALSE /\ r.mu = None /\ r.dirty = comp[c].dirty
      /\ r.stopped = comp[c].stopped /\ r.deps = comp[c].deps /\ r.stage = comp[c].stage
  BY <1>4 DEF CompRecord
<1> HIDE DEF r
<1>7. PICK v : v = Top(g).args
  OBVIOUS
<1>8. PICK calls, S : /\ Goes(g, calls) /\ PlainTo(calls, S)
                      /\ \A d \in Derived : Unsubscribed(d) => d \notin S
  <2>1. CASE v = node[c].value
    <3>1. Goes(g, <<>>)
      BY <1>1, <1>7, <2>1 DEF Commit
    <3> QED
      BY <3>1, NobodyHeard
  <2>2. CASE v # node[c].value
    <3>1. Goes(g, Publish(node[c].subs))
      BY <1>1, <1>7, <2>2 DEF Commit
    <3>2. node[c].subs \in Seq(Subscribers)
      BY <1>3, IInvFacts DEF NodeShape
    <3>3. PlainTo(Publish(node[c].subs), Range(node[c].subs))
      BY <3>2, PublishFacts
    <3>4. \A d \in Derived : Unsubscribed(d) => d \notin Range(node[c].subs)
      BY <1>3, HeardOf
    <3> QED
      BY <3>1, <3>3, <3>4
  <2> QED
    BY <2>1, <2>2
<1>9. NodeShape' /\ \A n \in Nodes : node'[n].subs = node[n].subs
  <2>1. CASE v = node[c].value
    <3>1. node' = node
      BY <1>1, <1>7, <2>1 DEF Commit
    <3> QED
      BY <3>1, IInvFacts DEF NodeShape
  <2>2. CASE v # node[c].value
    <3>1. node' = [node EXCEPT ![c].value = v, ![c].rev = @ + 1]
      BY <1>1, <1>7, <2>2 DEF Commit
    <3> QED
      BY <1>3, <3>1, IInvFacts, NodeSet
  <2> QED
    BY <2>1, <2>2
<1>10. Top(g).at = c /\ r.mu \in {comp[c].mu, None}
  BY <1>1, <1>6
<1> QED
  BY <1>2, <1>3, <1>5, <1>6, <1>8, <1>9, <1>10, RefreshEnds

\* DeriveTracked (Derive, after the function has returned) keeps the invariant.
LEMMA DeriveTrackedKeeps ==
  ASSUME IInv, NEW g \in Goroutines, DeriveTracked(g)
  PROVE  IInv'
<1>1. PICK c : c = Top(g).at
  OBVIOUS
<1>2. PICK deps : deps = Deps(Top(g).args)
  OBVIOUS
<1>3. /\ ~Idle(g) /\ Top(g).op = "track" /\ Top(g).op \in FrameOps
      /\ deps \in Seq(Dependency) /\ SourcesOf(deps) \in Seq(Nodes)
  BY <1>2, TrackedFacts DEF DeriveTracked
<1>4. c \in Derived /\ comp[c].refreshing = FALSE /\ comp[c].mu = None /\ c \in Nodes
        /\ UNCHANGED <<effect, batch, panics>>
  <2>1. c \in Derived /\ ~comp[c].refreshing /\ comp[c].mu = None /\ UNCHANGED <<effect, batch, panics>>
    BY <1>1 DEF DeriveTracked
  <2>2. comp[c].refreshing \in BOOLEAN
    BY <2>1, IInvFacts DEF CompShape, CompRecord
  <2> QED
    BY <2>1, <2>2 DEF Nodes
<1>5. comp[c] \in CompRecord /\ comp \in [Derived -> CompRecord]
  BY <1>4, IInvFacts DEF CompShape
<1>6. NodeShape' /\ \A n \in Nodes : node'[n].subs = node[n].subs
  <2>1. PICK v : v = Result(c, Vals(Top(g).args))
    OBVIOUS
  <2>2. node' = [node EXCEPT ![c].value = v]
    BY <1>1, <2>1 DEF DeriveTracked
  <2> QED
    BY <1>4, <2>2, IInvFacts, NodeSet
<1> DEFINE r == [comp[c] EXCEPT !.mu = g, !.deps = deps]
<1>7. PICK call : call = Call("born", c, <<>>)
  OBVIOUS
<1>8. PICK a : a = Calls("on", SourcesOf(deps), c)
  OBVIOUS
<1>9. comp' = [comp EXCEPT ![c] = r] /\ Goes(g, Append(a, call))
  <2>1. comp' = [comp EXCEPT ![c].mu = g, ![c].deps = deps] /\ Goes(g, Append(a, call))
    BY <1>1, <1>2, <1>7, <1>8 DEF DeriveTracked
  <2> QED
    BY <1>4, <1>5, <2>1
<1>10. /\ r \in CompRecord /\ r.refreshing = comp[c].refreshing /\ r.mu = g /\ r.dirty = comp[c].dirty
       /\ r.stopped = comp[c].stopped /\ r.deps = deps /\ r.stage = comp[c].stage
  BY <1>3, <1>5 DEF CompRecord
<1> HIDE DEF r
<1>11. call.op = "born" /\ call.at = c
  BY <1>7, CallIs
<1>12. CallOK(call) /\ call.op \in FrameOps /\ call.op \in Releasing /\ Tag(call) = Frame(c)
  BY <1>4, <1>11, TagIs DEF CallOK, FrameOps, Releasing
<1>13. PICK nil : nil = <<>>
  OBVIOUS
<1>14. PICK new : new = SourcesOf(deps)
  OBVIOUS
<1>15. nil \in Seq(Nodes) /\ new \in Seq(Nodes) /\ Edits(a, c, nil, new)
  BY <1>3, <1>4, <1>8, <1>13, <1>14, EditsOn DEF Actors
<1>16. PICK calls : calls = Append(a, call)
  OBVIOUS
<1>17. Section(calls, c, nil, new, 1) /\ \A k : Has(calls, k) => k = call \/ k.op \in {"on", "off"}
  BY <1>11, <1>12, <1>15, <1>16, SectionThen
<1>18. Tag(Top(g)) = Frame(c) /\ Top(g).op \notin {"on", "off"} /\ Total(stack, Frame(c)) # 0
  BY <1>1, <1>3, TopFrame
<1>19. Goes(g, calls)
  BY <1>9, <1>16
<1>20. Moves(g, Tag(Top(g)), calls)
  BY <1>3, <1>17, <1>18, <1>19, IInvFacts, GoesMoves DEF Section
<1>21. PICK gone : gone = Frame(c)
  OBVIOUS
<1>22. Moves(g, gone, calls) /\ gone \in {Other, Frame(c)} /\ Section(calls, c, nil, new, One(gone, Frame(c)))
  BY <1>17, <1>18, <1>20, <1>21 DEF One
<1>23. \A k : Has(calls, k) => CallFits(g, k)'
  <2>1. comp'[c] = r
    BY <1>4, <1>9, IInvFacts, CompSet
  <2>2. CallFits(g, call)'
    BY <1>4, <1>10, <1>11, <2>1 DEF CallFits, Mu
  <2>3. \A k : k.op \in {"on", "off"} => CallFits(g, k)'
    BY DEF CallFits, Releasing
  <2> QED
    BY <1>17, <2>2, <2>3
<1>24. Unborn(c) /\ comp[c].stage = "deriving"
  <2>1. OneFrame(c)
    BY <1>4, ValueFacts
  <2> QED
    BY <1>4, <1>18, <2>1 DEF OneFrame, Unborn
<1>25. comp[c].deps = <<>> /\ comp[c].stopped = FALSE
  <2>1. Quiet(c) /\ Fresh(c)
    BY <1>4, ValueFacts
  <2>2. comp[c].stopped \in BOOLEAN
    BY <1>5 DEF CompRecord
  <2> QED
    BY <1>4, <1>24, <2>1, <2>2 DEF Quiet, Fresh, Unsubscribed
<1>26. \A n \in Nodes : /\ Count(SourcesOf(comp[c].deps), n) + Count(new, n)
                              = Count(SourcesOf(r.deps), n) + Count(nil, n)
                        /\ Count(new, n) <= Count(SourcesOf(r.deps), n)
  <2>1. PICK old : old = SourcesOf(comp[c].deps)
    OBVIOUS
  <2>2. old = <<>>
    <3>1. Len(old) = 0 /\ IsSeq(old)
      BY <1>5, <1>25, <2>1, SourcesFacts DEF CompRecord, IsSeq
    <3> QED
      BY <3>1, SeqFacts
  <2>3. \A n : Count(old, n) = 0 /\ Count(nil, n) = 0
    BY <1>13, <2>2, NoneCounted
  <2>4. IsSeq(new)
    BY <1>15 DEF IsSeq
  <2>5. \A n : Count(new, n) \in Nat
    BY <2>4, CountFacts
  <2> QED
    BY <1>10, <1>14, <2>1, <2>3, <2>5
<1>27. r.mu # None /\ r.stopped = FALSE
  BY <1>10, <1>25, SignalAssumption
<1>28. /\ r \in CompRecord /\ comp' = [comp EXCEPT ![c] = r]
       /\ r.refreshing = comp[c].refreshing /\ r.stage = comp[c].stage /\ r.dirty = comp[c].dirty
       /\ r.mu = None \/ comp[c].stage # "new"
       /\ r.stopped # comp[c].stopped => comp[c].stage = "live"
       /\ r.mu # None \/ comp[c].stage = "live"
       /\ r.stopped => r.deps = <<>>
  BY <1>9, <1>10, <1>24, <1>25, <1>27
<1>29. Resubscribes(g, gone, calls, c, nil, new, r)
  BY <1>4, <1>6, <1>15, <1>22, <1>23, <1>26, <1>28 DEF Resubscribes, Exchanges
<1> QED
  BY <1>4, <1>29, ValueSection

\* Stop (Computed.Stop) keeps the invariant.
LEMMA StopKeeps ==
  ASSUME IInv, NEW g \in Goroutines, NEW c \in Derived, Stop(g, c)
  PROVE  IInv'
<1>1. comp[c].stage = "live" /\ comp[c].mu = None /\ UNCHANGED <<node, effect, batch, panics>>
  BY DEF Stop
<1>2. comp[c] \in CompRecord /\ comp \in [Derived -> CompRecord]
  BY IInvFacts DEF CompShape
<1>3. NodeShape' /\ \A n \in Nodes : node'[n].subs = node[n].subs
  BY <1>1, IInvFacts DEF NodeShape
<1>4. PICK nil : nil = <<>>
  OBVIOUS
<1> DEFINE r == [comp[c] EXCEPT !.stopped = TRUE, !.deps = nil]
<1>5. comp' = [comp EXCEPT ![c] = r]
  <2>1. comp' = [comp EXCEPT ![c].stopped = TRUE, ![c].deps = nil]
    BY <1>4 DEF Stop
  <2> QED
    BY <1>2, <2>1
<1>6. /\ r \in CompRecord /\ r.refreshing = comp[c].refreshing /\ r.mu = None /\ r.dirty = comp[c].dirty
      /\ r.stopped = TRUE /\ r.deps = nil /\ r.stage = comp[c].stage
  <2>1. nil \in Seq(Dependency)
    BY <1>4
  <2> QED
    BY <1>1, <1>2, <2>1 DEF CompRecord
<1> HIDE DEF r
<1>7. PICK old : old = SourcesOf(comp[c].deps)
  OBVIOUS
<1>8. PICK calls : calls = Calls("off", old, c)
  OBVIOUS
<1>9. old \in Seq(Nodes) /\ Begins(g, calls)
  <2>1. comp[c].deps \in Seq(Dependency)
    BY <1>2 DEF CompRecord
  <2>2. /\ old \in Seq(Nodes) /\ DOMAIN old = DOMAIN comp[c].deps
        /\ \A i \in DOMAIN comp[c].deps : old[i] = comp[c].deps[i].source
    BY <1>7, <2>1, SourcesFacts
  <2>3. DOMAIN old = 1..Len(old)
    BY <2>2, LenProperties
  <2>4. calls = [i \in DOMAIN comp[c].deps |-> Call("off", comp[c].deps[i].source, c)]
    BY <1>8, <2>2, <2>3 DEF Calls
  <2> QED
    BY <2>2, <2>4 DEF Stop
<1>10. Edits(calls, c, old, nil)
  BY <1>4, <1>8, <1>9, EditsOff DEF Actors
<1>11. Section(calls, c, old, nil, 0) /\ \A k : Has(calls, k) => k.op = "off"
  BY <1>4, <1>10, SectionAlone
<1>12. Moves(g, Other, calls)
  BY <1>9, <1>11, IInvFacts, BeginsMoves DEF Section
<1>13. PICK gone : gone = Other
  OBVIOUS
<1>14. Moves(g, gone, calls) /\ gone \in {Other, Frame(c)} /\ Section(calls, c, old, nil, One(gone, Frame(c)))
  BY <1>11, <1>12, <1>13, TagsDiffer DEF One
<1>15. \A k : Has(calls, k) => CallFits(g, k)'
  BY <1>11 DEF CallFits, Releasing
<1>16. nil \in Seq(Nodes) /\ Exchanges(c, r, old, nil)
  <2>1. SourcesOf(r.deps) = nil
    <3>1. PICK q : q = SourcesOf(nil)
      OBVIOUS
    <3>2. nil \in Seq(Dependency) /\ Len(nil) = 0
      BY <1>4
    <3>3. IsSeq(q) /\ Len(q) = 0
      BY <3>1, <3>2, SourcesFacts DEF IsSeq
    <3>4. q = nil
      BY <1>4, <3>3, SeqFacts
    <3> QED
      BY <1>6, <3>1, <3>4
  <2>2. \A n : Count(nil, n) = 0
    BY <1>4, NoneCounted
  <2>3. \A n : Count(old, n) \in Nat
    BY <1>9, CountFacts DEF IsSeq
  <2>4. Exchanges(c, r, old, nil)
    BY <1>7, <2>1, <2>2, <2>3 DEF Exchanges
  <2> QED
    BY <1>4, <2>4
<1>17. /\ r.mu = None \/ comp[c].stage # "new"
       /\ r.stopped # comp[c].stopped => comp[c].stage = "live"
       /\ r.mu # None \/ comp[c].stage = "live"
       /\ r.stopped => r.deps = <<>>
  BY <1>1, <1>4, <1>6
<1>18. Resubscribes(g, gone, calls, c, old, nil, r)
  BY <1>1, <1>3, <1>5, <1>6, <1>9, <1>14, <1>15, <1>16, <1>17 DEF Resubscribes
<1> QED
  BY <1>18, ValueSection

\* Born (Derive, its unlock) keeps the invariant.
LEMMA BornKeeps ==
  ASSUME IInv, NEW g \in Goroutines, Born(g)
  PROVE  IInv'
<1>1. PICK c : c = Top(g).at
  OBVIOUS
<1>2. ~Idle(g) /\ Top(g).op = "born" /\ Top(g).op \in FrameOps
        /\ UNCHANGED <<node, effect, batch, panics>>
  BY <1>1 DEF Born, At, FrameOps
<1>3. c \in Derived /\ ~comp[c].refreshing /\ comp[c].mu = g
  BY <1>1, <1>2, TopFits DEF CallOK, CallFits, Mu, Releasing
<1>4. /\ comp[c] \in CompRecord /\ OneFrame(c) /\ Fresh(c)
      /\ Total(stack, Frame(c)) \in Nat /\ Total(stack, Sharing(c)) \in 0..1
      /\ Frame(c) # Other /\ Sharing(c) # Other /\ Frame(c) # Sharing(c)
  BY <1>3, ValueFacts
<1> DEFINE r == [comp[c] EXCEPT !.dirty = TRUE, !.mu = None]
<1>5. PICK call : call = Call("share", c, <<>>)
  OBVIOUS
<1>6. PICK pre : pre = Refresh(c)
  OBVIOUS
<1>7. Goes(g, Append(pre, call)) /\ comp' = [comp EXCEPT ![c] = r]
  <2>1. comp' = [comp EXCEPT ![c].dirty = TRUE, ![c].mu = None] /\ Goes(g, Append(pre, call))
    BY <1>1, <1>5, <1>6 DEF Born
  <2>2. comp \in [Derived -> CompRecord]
    BY IInvFacts DEF CompShape
  <2> QED
    BY <1>3, <2>1, <2>2
<1>8. call.op = "share" /\ call.at = c
  BY <1>5, CallIs
<1>9. Tag(call) = Sharing(c) /\ CallOK(call)
  BY <1>3, <1>8, TagIs DEF CallOK
<1>10. Turn(pre, call, c)
  BY <1>6, <1>8, <1>9, NobodyHeard DEF Turn, Notifies, Releasing
<1>11. /\ r \in CompRecord /\ r.refreshing = comp[c].refreshing /\ r.mu = None /\ r.dirty = TRUE
       /\ r.stopped = comp[c].stopped /\ r.deps = comp[c].deps /\ r.stage = comp[c].stage
  BY <1>4 DEF CompRecord
<1> HIDE DEF r
<1>12. comp'[c] = r
  BY <1>3, <1>7, IInvFacts, CompSet
<1>13. Tag(Top(g)) = Frame(c) /\ Top(g).op \notin {"on", "off"} /\ Total(stack, Frame(c)) # 0
  BY <1>1, <1>2, TopFrame DEF FrameOps
<1>14. /\ Moves(g, Frame(c), Append(pre, call))
       /\ \A t : t # Other =>
            /\ Total(stack, t) \in Nat /\ Total(stack', t) \in Nat
            /\ Total(stack', t) + One(Frame(c), t) = Total(stack, t) + One(Tag(call), t)
  BY <1>2, <1>3, <1>7, <1>10, <1>13, TurnMoves
<1>15. Unborn(c) /\ comp[c].stage = "deriving" /\ Total(stack, Frame(c)) = 1 /\ Total(stack, Sharing(c)) = 0
  BY <1>3, <1>4, <1>13 DEF OneFrame, Unborn
<1>16. Total(stack', Frame(c)) = 0 /\ Total(stack', Sharing(c)) = 1
  BY <1>4, <1>9, <1>14, <1>15 DEF One
<1>17. OneFrame(c)'
  BY <1>3, <1>11, <1>12, <1>15, <1>16 DEF OneFrame, Unborn
<1>18. Fresh(c)' /\ ~Unsubscribed(c)'
  BY <1>11, <1>12, <1>15, <1>16 DEF Fresh, Unborn, Unsubscribed
<1>19. CallFits(g, call)'
  BY <1>8 DEF CallFits, Releasing
<1>20. ASSUME NEW h \in Goroutines, NEW k, Has(stack[h], k), Has(stack'[h], k), k.at = c
       PROVE  CallFits(h, k)'
  <2>1. CallFits(h, k) /\ CallOK(k)
    BY <1>20, IInvFacts DEF IInv, CallsFit, CallsOK, Has
  <2>2. CASE k.op \notin Releasing
    BY <1>11, <1>12, <1>20, <2>1, <2>2 DEF CallFits
  <2>3. CASE k.op \in Releasing
    <3>1. h = g
      BY <1>3, <1>20, <2>1, <2>3 DEF CallFits, Mu
    <3>2. PICK calls : calls = Append(pre, call)
      OBVIOUS
    <3>3. IsSeq(calls) /\ \A x : Has(calls, x) => x = call \/ x.op \notin Busy \cup FrameOps
      BY <1>8, <1>10, <3>2, NextCall DEF Turn, Block
    <3>4. Goes(g, calls)
      BY <1>7, <3>2
    <3>5. Has(calls, k) \/ k.op \notin Busy
      BY <1>2, <1>13, <1>20, <3>1, <3>3, <3>4, RestNotBusy
    <3>6. k.op \in Busy
      BY <2>3 DEF Busy
    <3> QED
      BY <1>8, <2>3, <3>3, <3>5, <3>6 DEF Releasing
  <2> QED
    BY <2>2, <2>3
<1>21. PICK gone : gone = Frame(c)
  OBVIOUS
<1>22. Moves(g, gone, Append(pre, call)) /\ gone \in {Other, Frame(c), Sharing(c)}
  BY <1>14, <1>21
<1> QED
  BY <1>2, <1>3, <1>7, <1>10, <1>11, <1>17, <1>18, <1>19, <1>20, <1>22, TurnKeeps

\* Derive (Derive) keeps the invariant.
LEMMA DeriveKeeps ==
  ASSUME IInv, NEW g \in Goroutines, NEW c \in Derived, Derive(g, c)
  PROVE  IInv'
<1>1. comp[c].stage = "new" /\ UNCHANGED <<node, effect, batch, panics>>
  BY DEF Derive
<1>2. /\ comp[c] \in CompRecord /\ OneFrame(c) /\ Fresh(c)
      /\ Total(stack, Frame(c)) \in Nat /\ Total(stack, Sharing(c)) \in 0..1
      /\ Frame(c) # Other /\ Sharing(c) # Other /\ Frame(c) # Sharing(c)
  BY ValueFacts
<1> DEFINE r == [comp[c] EXCEPT !.stage = "deriving"]
<1>3. PICK call : call = Call("track", c, <<>>)
  OBVIOUS
<1>4. PICK nil : nil = <<>>
  OBVIOUS
<1>5. PICK calls : calls = Append(nil, call)
  OBVIOUS
<1>6. Begins(g, calls) /\ comp' = [comp EXCEPT ![c] = r]
  BY <1>3, <1>4, <1>5, OneCall DEF Derive
<1>7. call.op = "track" /\ call.at = c /\ call.args = nil
  BY <1>3, <1>4, CallIs
<1>8. Tag(call) = Frame(c) /\ CallOK(call)
  <2>1. ReadsOK(nil)
    BY <1>4, ReadsNone
  <2> QED
    BY <1>7, <2>1, TagIs DEF FrameOps, CallOK
<1>9. Turn(nil, call, c)
  BY <1>4, <1>7, <1>8, NobodyHeard DEF Turn, Notifies
<1>10. /\ r \in CompRecord /\ r.refreshing = comp[c].refreshing /\ r.mu = comp[c].mu /\ r.dirty = comp[c].dirty
       /\ r.stopped = comp[c].stopped /\ r.deps = comp[c].deps /\ r.stage = "deriving"
  BY <1>2 DEF CompRecord
<1> HIDE DEF r
<1>11. comp'[c] = r
  BY <1>6, IInvFacts, CompSet
<1>12. Block(calls) /\ Nested(calls) /\ \A t : t # Other => Num(calls, t) = One(Tag(call), t)
  BY <1>5, <1>9, NextCall DEF Turn
<1>13. Moves(g, Other, calls)
  BY <1>6, <1>12, IInvFacts, BeginsMoves
<1>14. /\ comp[c].refreshing = FALSE /\ comp[c].dirty = FALSE /\ comp[c].stopped = FALSE
       /\ comp[c].mu = None
  BY <1>1, <1>2 DEF Fresh, CompRecord
<1>15. Total(stack, Frame(c)) = 0 /\ Total(stack, Sharing(c)) = 0
  BY <1>1, <1>2, <1>14 DEF OneFrame, Unborn
<1>16. Total(stack', Frame(c)) = 1 /\ Total(stack', Sharing(c)) = 0
  <2>1. /\ Num(calls, Frame(c)) = 1 /\ Num(calls, Sharing(c)) = 0
        /\ One(Other, Frame(c)) = 0 /\ One(Other, Sharing(c)) = 0
    BY <1>2, <1>8, <1>12 DEF One
  <2>2. /\ Total(stack', Frame(c)) + One(Other, Frame(c)) = Total(stack, Frame(c)) + Num(calls, Frame(c))
        /\ Total(stack', Sharing(c)) + One(Other, Sharing(c)) = Total(stack, Sharing(c)) + Num(calls, Sharing(c))
        /\ Total(stack', Frame(c)) \in Nat /\ Total(stack', Sharing(c)) \in Nat
    BY <1>2, <1>13 DEF Moves
  <2> QED
    BY <1>15, <2>1, <2>2
<1>17. OneFrame(c)'
  BY <1>10, <1>11, <1>14, <1>16 DEF OneFrame, Unborn
<1>18. Fresh(c)' /\ (Unsubscribed(c)' => Unsubscribed(c))
  BY <1>1, <1>10, <1>11, <1>14 DEF Fresh, Unborn, Unsubscribed
<1>19. CallFits(g, call)'
  BY <1>7 DEF CallFits, Releasing
<1>20. \A h \in Goroutines : \A k :
            Has(stack[h], k) /\ Has(stack'[h], k) /\ k.at = c => CallFits(h, k)'
  BY <1>10, <1>11, OldFit
<1>21. PICK gone : gone = Other
  OBVIOUS
<1>22. Moves(g, gone, Append(nil, call)) /\ gone \in {Other, Frame(c), Sharing(c)}
  BY <1>5, <1>13, <1>21
<1> QED
  BY <1>1, <1>6, <1>9, <1>10, <1>17, <1>18, <1>19, <1>20, <1>22, TurnKeeps

-----------------------------------------------------------------------------
(* Single edits.                                                          *)

\* The subscribers of one node change by one subscription of who.
Edited(n, who, q) ==
    /\ node' = [node EXCEPT ![n].subs = q] /\ q \in Seq(Subscribers)
    /\ \A v : v # who => Count(q, v) = Count(node[n].subs, v)
    /\ Range(q) \subseteq Range(node[n].subs) \cup {who}

\* Editing the subscribers of one node leaves the others alone.
LEMMA EditedFacts ==
  ASSUME IInv, NEW n \in Nodes, NEW who, NEW q, Edited(n, who, q)
  PROVE  /\ NodeShape' /\ node'[n].subs = q
         /\ \A m \in Nodes : m # n => node'[m] = node[m]
<1>1. /\ node[n] = [value |-> node[n].value, rev |-> node[n].rev, subs |-> node[n].subs]
      /\ node[n].rev \in Nat /\ DOMAIN node = Nodes /\ NodeShape
  BY IInvFacts DEF NodeShape
<1>2. PICK v, r : v = node[n].value /\ r = node[n].rev
  OBVIOUS
<1>3. node' = [node EXCEPT ![n] = [value |-> v, rev |-> r, subs |-> q]]
  <2>1. node' = [node EXCEPT ![n].subs = q]
    BY DEF Edited
  <2>2. PICK rec : rec = [value |-> v, rev |-> r, subs |-> q]
    OBVIOUS
  <2>3. node[n] = [value |-> v, rev |-> r, subs |-> node[n].subs]
    BY <1>1, <1>2
  <2>4. [node[n] EXCEPT !.subs = q] = rec
    BY <2>2, <2>3
  <2>5. node' = [node EXCEPT ![n] = [node[n] EXCEPT !.subs = q]]
    BY <2>1
  <2> QED
    BY <2>2, <2>4, <2>5
<1>4. r \in Nat /\ q \in Seq(Subscribers)
  BY <1>1, <1>2 DEF Edited
<1> QED
  BY <1>1, <1>3, <1>4, NodeChange

\* Making one edit keeps the invariant if it keeps its subscriber balanced.
LEMMA EditKeeps ==
  ASSUME IInv, NEW g \in Goroutines, NEW n \in Nodes, NEW who \in Subscribers,
         NEW gone, gone \in {On(n, who), Off(n, who)}, NEW calls, calls = <<>>,
         Moves(g, gone, calls), NEW q, Edited(n, who, q),
         who \in Derived => ~Unsubscribed(who), who \in Actors => Balanced(who)',
         UNCHANGED <<comp, effect, batch, panics>>
  PROVE  IInv'
<1>1. PICK X : X = {who}
  OBVIOUS
<1>2. NodeShape' /\ node'[n].subs = q /\ \A m \in Nodes : m # n => node'[m] = node[m]
  BY EditedFacts
<1>3. DOMAIN calls = {}
  BY ShortSeqs
<1>4. SameTotals(X)
  <2>1. About(gone, X)
    BY <1>1 DEF About
  <2>2. \A i \in DOMAIN calls : About(Tag(calls[i]), X)
    BY <1>3
  <2> QED
    BY <2>1, <2>2, TotalsKept
<1>5. SubsKept(X)
  <2> SUFFICES ASSUME NEW v \in Actors \ X, NEW m \in Nodes
               PROVE  /\ Count(node'[m].subs, v) = Count(node[m].subs, v)
                      /\ v \in Range(node'[m].subs) => v \in Range(node[m].subs)
    BY DEF SubsKept
  <2>1. CASE m = n
    BY <1>1, <1>2, <2>1 DEF Edited
  <2>2. CASE m # n
    BY <1>2, <2>2
  <2> QED
    BY <2>1, <2>2
<1>6. Unheard(X, calls)
  BY <1>3, HeardOf DEF Unheard
<1>7. StateKept(X)
  BY DEF StateKept
<1>8. CompShape' /\ EffectShape'
  BY IInvFacts DEF CompShape, EffectShape
<1>9. BatchShape'
  <2>1. gone # Ending
    BY TagsDiffer
  <2>2. \A i \in DOMAIN calls : Tag(calls[i]) # Ending
    BY <1>3
  <2> QED
    BY <2>1, <2>2, IInvFacts, BatchKept DEF BatchShape
<1>10. \A v : Total(stack', Frame(v)) = Total(stack, Frame(v)) /\ Total(stack', Sharing(v)) = Total(stack, Sharing(v))
  <2> SUFFICES ASSUME NEW v PROVE Total(stack', Frame(v)) = Total(stack, Frame(v)) /\ Total(stack', Sharing(v)) = Total(stack, Sharing(v))
    OBVIOUS
  <2>1. /\ Frame(v) # Other /\ Sharing(v) # Other /\ gone # Frame(v) /\ gone # Sharing(v)
        /\ \A i \in DOMAIN calls : Tag(calls[i]) # Frame(v) /\ Tag(calls[i]) # Sharing(v)
    BY <1>3, TagsDiffer
  <2>2. Total(stack', Frame(v)) = Total(stack, Frame(v))
    BY <2>1, TotalKept
  <2>3. Total(stack', Sharing(v)) = Total(stack, Sharing(v))
    BY <2>1, TotalKept
  <2> QED
    BY <2>2, <2>3
<1>11. ASSUME NEW c \in Derived \cap X PROVE ValueOK(c)'
  <2>1. ValueOK(c) /\ ~Unsubscribed(c)
    BY <1>1, <1>11, IInvFacts
  <2>2. OneFrame(c)' /\ Fresh(c)' /\ ~Unsubscribed(c)'
    BY <1>10, <2>1 DEF ValueOK, OneFrame, Fresh, Unborn, Unsubscribed
  <2> QED
    BY <2>1, <2>2 DEF ValueOK, Quiet
<1>12. ASSUME NEW e \in Effects \cap X PROVE EffectOK(e)'
  BY <1>10, IInvFacts DEF EffectOK
<1>13. \A v \in Actors \cap X : Balanced(v)'
  BY <1>1
<1>14. ASSUME NEW h \in Goroutines, NEW k, Has(stack[h], k) PROVE CallFits(h, k)'
  BY <1>14 DEF IInv, CallsFit, Has, CallFits, Mu
<1>15. \A k : ~Has(calls, k)
  BY <1>3 DEF Has
<1> QED
  BY <1>2, <1>4, <1>5, <1>6, <1>7, <1>8, <1>9, <1>11, <1>12, <1>13, <1>14, <1>15, StepKeeps

\* One subscription of who is made, or one is removed.
LEMMA BalancedEdit ==
  ASSUME IInv, NEW g, NEW n \in Nodes, NEW who \in Actors, NEW gone, NEW calls, calls = <<>>,
         Moves(g, gone, calls), NEW q, Edited(n, who, q), UNCHANGED <<comp, effect>>,
         \/ gone = On(n, who) /\ Count(q, who) = Count(node[n].subs, who) + 1
         \/ gone = Off(n, who) /\ Count(q, who) + 1 = Count(node[n].subs, who) /\ Count(q, who) \in Nat
  PROVE  Balanced(who)'
<1> SUFFICES ASSUME NEW m \in Nodes
             PROVE  /\ Count(node'[m].subs, who) + Total(stack', On(m, who))
                         = Count(Kept(who)', m) + Total(stack', Off(m, who))
                    /\ Total(stack', On(m, who)) <= Count(Kept(who)', m)
  BY DEF Balanced
<1>1. /\ Count(node[m].subs, who) + Total(stack, On(m, who)) = Count(Kept(who), m) + Total(stack, Off(m, who))
      /\ Total(stack, On(m, who)) <= Count(Kept(who), m)
  BY IInvFacts DEF Balanced
<1>2. Kept(who)' = Kept(who)
  BY DEF Kept
<1>3. node'[n].subs = q /\ (m # n => node'[m] = node[m])
  BY EditedFacts
<1>4. \A t : Num(calls, t) = 0
  BY NoneCounted
<1>5. /\ On(m, who) # Other /\ Off(m, who) # Other /\ \A k : On(m, who) # Off(k, who) /\ On(k, who) # Off(m, who)
      /\ m # n => On(m, who) # On(n, who) /\ Off(m, who) # Off(n, who)
  BY DEF On, Off, Other
<1>6. /\ Total(stack, On(m, who)) \in Nat /\ Total(stack', On(m, who)) \in Nat
      /\ Total(stack', On(m, who)) + One(gone, On(m, who)) = Total(stack, On(m, who)) + 0
  BY <1>4, <1>5 DEF Moves
<1>7. /\ Total(stack, Off(m, who)) \in Nat /\ Total(stack', Off(m, who)) \in Nat
      /\ Total(stack', Off(m, who)) + One(gone, Off(m, who)) = Total(stack, Off(m, who)) + 0
  BY <1>4, <1>5 DEF Moves
<1>8. Count(node[m].subs, who) \in Nat /\ Count(Kept(who), m) \in Nat
  <2>1. IsSeq(node[m].subs)
    BY IInvFacts DEF NodeShape, IsSeq
  <2>2. IsSeq(Kept(who))
    <3>1. CASE who \in Derived
      <4>1. comp[who].deps \in Seq(Dependency)
        BY <3>1, IInvFacts DEF CompShape, CompRecord
      <4> QED
        BY <3>1, <4>1, SourcesFacts DEF Kept, IsSeq
    <3>2. CASE who \notin Derived
      <4>1. effect[who].unsubs \in Seq(Nodes)
        BY <3>2, IInvFacts DEF EffectShape, EffectRecord, Actors
      <4> QED
        BY <3>2, <4>1 DEF Kept, IsSeq
    <3> QED
      BY <3>1, <3>2
  <2> QED
    BY <2>1, <2>2, CountFacts
<1>9. PICK kept : kept = Kept(who)
  OBVIOUS
<1>10. Kept(who)' = kept
  BY <1>2, <1>9
<1>11. PICK on, off, onThen, offThen, was, is, all :
          /\ on = Total(stack, On(m, who)) /\ off = Total(stack, Off(m, who))
          /\ onThen = Total(stack', On(m, who)) /\ offThen = Total(stack', Off(m, who))
          /\ was = Count(node[m].subs, who) /\ is = Count(node'[m].subs, who) /\ all = Count(kept, m)
  OBVIOUS
<1>12. /\ was + on = all + off /\ on <= all /\ on \in Nat /\ off \in Nat /\ onThen \in Nat
       /\ offThen \in Nat /\ was \in Nat /\ all \in Nat
  BY <1>1, <1>6, <1>7, <1>8, <1>9, <1>11
<1>13. \/ onThen = on /\ offThen = off /\ is = was
       \/ onThen + 1 = on /\ offThen = off /\ is = was + 1
       \/ onThen = on /\ offThen + 1 = off /\ is + 1 = was /\ is \in Nat
  <2>1. CASE m # n
    <3>1. gone # On(m, who) /\ gone # Off(m, who)
      BY <1>5, <2>1
    <3> QED
      BY <1>3, <1>6, <1>7, <1>11, <2>1, <3>1 DEF One
  <2>2. CASE m = n /\ gone = On(n, who)
    <3>1. gone # Off(m, who)
      BY <1>5, <2>2
    <3>2. Count(q, who) = Count(node[n].subs, who) + 1
      BY <1>5, <2>2
    <3> QED
      BY <1>3, <1>6, <1>7, <1>11, <2>2, <3>1, <3>2 DEF One
  <2>3. CASE m = n /\ gone = Off(n, who)
    <3>1. gone # On(m, who)
      BY <1>5, <2>3
    <3>2. Count(q, who) + 1 = Count(node[n].subs, who) /\ Count(q, who) \in Nat
      BY <1>5, <2>3
    <3> QED
      BY <1>3, <1>6, <1>7, <1>11, <2>3, <3>1, <3>2 DEF One
  <2> QED
    BY <2>1, <2>2, <2>3
<1>14. is + onThen = all + offThen /\ onThen <= all
  BY <1>12, <1>13
<1> QED
  BY <1>10, <1>11, <1>14

\* Unsubscribe (the function subscribe returned) keeps the invariant.
LEMMA UnsubscribeKeeps ==
  ASSUME IInv, NEW g \in Goroutines, Unsubscribe(g)
  PROVE  IInv'
<1>1. PICK n, who : n = Top(g).at /\ who = Top(g).args
  OBVIOUS
<1>2. ~Idle(g) /\ Top(g).op = "off" /\ UNCHANGED <<comp, effect, batch, panics>>
  BY DEF Unsubscribe, At
<1>3. n \in Nodes /\ who \in Actors /\ who \in Subscribers
  BY <1>1, <1>2, TopFits DEF CallOK, Actors, Subscribers
<1>4. Tag(Top(g)) = Off(n, who)
  BY <1>1, <1>2, TagIs
<1>5. PICK calls : calls = <<>>
  OBVIOUS
<1>6. Goes(g, calls)
  BY <1>5 DEF Unsubscribe
<1>7. Block(calls) /\ Nested(calls) /\ \A i \in DOMAIN calls : calls[i].op # "endBatch"
  <2>1. Plain(calls)
    BY <1>5, PlainNil
  <2> QED
    BY <2>1, PlainFacts
<1>8. Moves(g, Off(n, who), calls)
  BY <1>2, <1>4, <1>5, <1>6, <1>7, IInvFacts, GoesMoves
<1>9. PICK subs : subs = node[n].subs
  OBVIOUS
<1>10. subs \in Seq(Subscribers) /\ IsSeq(subs)
  BY <1>3, <1>9, IInvFacts DEF NodeShape, IsSeq
<1>11. who \in Range(subs)
  <2>1. Total(stack, Off(n, who)) # 0 /\ Total(stack, Off(n, who)) \in Nat
    <3>1. Off(n, who) # Other
      BY TagsDiffer
    <3>2. AllSeqs(stack)
      BY IInvFacts DEF StackShape, AllSeqs
    <3>3. 1 \in DOMAIN stack[g] /\ Top(g) = stack[g][1]
      BY <1>2, IInvFacts, TopFacts
    <3> QED
      BY <1>4, <3>2, <3>3, TotalPlaces
  <2>2. /\ Count(subs, who) + Total(stack, On(n, who)) = Count(Kept(who), n) + Total(stack, Off(n, who))
        /\ Total(stack, On(n, who)) <= Count(Kept(who), n)
    BY <1>3, <1>9, IInvFacts DEF Balanced
  <2>3. Total(stack, On(n, who)) \in Nat
    <3>1. AllSeqs(stack)
      BY IInvFacts DEF StackShape, AllSeqs
    <3> QED
      BY <3>1, TotalPlaces
  <2>4. Count(subs, who) \in Nat /\ (Count(subs, who) = 0 <=> who \notin Range(subs))
    BY <1>10, CountFacts
  <2>5. Count(Kept(who), n) \in Nat
    <3>1. IsSeq(Kept(who))
      <4>1. CASE who \in Derived
        <5>1. comp[who].deps \in Seq(Dependency)
          BY <4>1, IInvFacts DEF CompShape, CompRecord
        <5> QED
          BY <4>1, <5>1, SourcesFacts DEF Kept, IsSeq
      <4>2. CASE who \notin Derived
        <5>1. effect[who].unsubs \in Seq(Nodes)
          BY <1>3, <4>2, IInvFacts DEF EffectShape, EffectRecord, Actors
        <5> QED
          BY <4>2, <5>1 DEF Kept, IsSeq
      <4> QED
        BY <4>1, <4>2
    <3> QED
      BY <3>1, CountFacts
  <2>6. PICK on, off, was, all : /\ on = Total(stack, On(n, who)) /\ off = Total(stack, Off(n, who))
                                 /\ was = Count(subs, who) /\ all = Count(Kept(who), n)
    OBVIOUS
  <2>7. was # 0
    BY <2>1, <2>2, <2>3, <2>4, <2>5, <2>6
  <2> QED
    BY <2>4, <2>6, <2>7
<1>12. PICK q : q = RemoveFirst(subs, who)
  OBVIOUS
<1>13. /\ q \in Seq(Subscribers) /\ Range(q) \subseteq Range(subs)
       /\ \A v : /\ Count(q, v) \in Nat /\ Count(subs, v) \in Nat
                 /\ Count(q, v) + (IF v = who THEN 1 ELSE 0) = Count(subs, v)
  BY <1>10, <1>11, <1>12, RemoveFirstFacts
<1>14. Edited(n, who, q) /\ Count(q, who) + 1 = Count(node[n].subs, who) /\ Count(q, who) \in Nat
  <2>1. node' = [node EXCEPT ![n].subs = q]
    BY <1>1, <1>9, <1>12 DEF Unsubscribe
  <2>2. \A v : v # who => Count(q, v) = Count(subs, v)
    BY <1>13
  <2> QED
    BY <1>9, <1>13, <2>1, <2>2 DEF Edited
<1>15. who \in Derived => ~Unsubscribed(who)
  BY <1>3, <1>9, <1>11, HeardOf
<1>16. PICK gone : gone = Off(n, who)
  OBVIOUS
<1>17. Moves(g, gone, calls) /\ gone \in {On(n, who), Off(n, who)}
  BY <1>8, <1>16
<1>18. Balanced(who)'
  BY <1>2, <1>3, <1>5, <1>14, <1>16, <1>17, BalancedEdit
<1> QED
  BY <1>2, <1>3, <1>5, <1>14, <1>15, <1>17, <1>18, EditKeeps

\* Subscribe (Signal.subscribe) keeps the invariant.
LEMMA SubscribeKeeps ==
  ASSUME IInv, NEW g \in Goroutines, Subscribe(g)
  PROVE  IInv'
<1>1. PICK n, who : n = Top(g).at /\ who = Top(g).args
  OBVIOUS
<1>2. ~Idle(g) /\ Top(g).op = "on" /\ UNCHANGED <<comp, effect, batch, panics>>
  BY DEF Subscribe, At
<1>3. n \in Nodes /\ who \in Subscribers
  BY <1>1, <1>2, TopFits DEF CallOK
<1>4. Tag(Top(g)) = On(n, who)
  BY <1>1, <1>2, TagIs
<1>5. PICK calls : calls = <<>>
  OBVIOUS
<1>6. Goes(g, calls)
  BY <1>5 DEF Subscribe
<1>7. Block(calls) /\ Nested(calls) /\ \A i \in DOMAIN calls : calls[i].op # "endBatch"
  <2>1. Plain(calls)
    BY <1>5, PlainNil
  <2> QED
    BY <2>1, PlainFacts
<1>8. Moves(g, On(n, who), calls)
  BY <1>2, <1>4, <1>5, <1>6, <1>7, IInvFacts, GoesMoves
<1>9. PICK subs : subs = node[n].subs
  OBVIOUS
<1>10. subs \in Seq(Subscribers)
  BY <1>3, <1>9, IInvFacts DEF NodeShape
<1>11. PICK q : q = Append(subs, who)
  OBVIOUS
<1>12. /\ q \in Seq(Subscribers) /\ Range(q) \subseteq Range(subs) \cup {who}
       /\ \A v : /\ Count(subs, v) \in Nat
                 /\ Count(q, v) = Count(subs, v) + (IF v = who THEN 1 ELSE 0)
  BY <1>3, <1>10, <1>11, AppendCount
<1>13. Edited(n, who, q) /\ Count(q, who) = Count(node[n].subs, who) + 1
  <2>1. node' = [node EXCEPT ![n].subs = q]
    BY <1>1, <1>9, <1>11 DEF Subscribe
  <2>2. \A v : v # who => Count(q, v) = Count(subs, v)
    BY <1>12
  <2> QED
    BY <1>9, <1>12, <2>1, <2>2 DEF Edited
<1>14. who \in Derived => ~Unsubscribed(who)
  <2> SUFFICES ASSUME who \in Derived, Unsubscribed(who) PROVE FALSE
    OBVIOUS
  <2>1. Mu(who) = None /\ who \in Actors
    BY DEF Unsubscribed, Mu, Actors
  <2>2. Total(stack, On(n, who)) = 0
    BY <2>1, NoPendingOn
  <2>3. AllSeqs(stack)
    BY IInvFacts DEF StackShape, AllSeqs
  <2>4. 1 \in DOMAIN stack[g] /\ Top(g) = stack[g][1]
    BY <1>2, IInvFacts, TopFacts
  <2> QED
    BY <1>4, <2>2, <2>3, <2>4, TotalPlaces
<1>15. PICK gone : gone = On(n, who)
  OBVIOUS
<1>16. Moves(g, gone, calls) /\ gone \in {On(n, who), Off(n, who)}
  BY <1>8, <1>15
<1>17. who \in Actors => Balanced(who)'
  BY <1>2, <1>3, <1>5, <1>13, <1>15, <1>16, BalancedEdit
<1> QED
  BY <1>2, <1>3, <1>5, <1>13, <1>14, <1>16, <1>17, EditKeeps

\* A finite set is listed as a sequence of its elements.
LEMMA SetToSeqFacts ==
  ASSUME NEW S, IsFiniteSet(S)
  PROVE  SetToSeq(S) \in Seq(S)
<1>1. PICK n \in Nat : ExistsBijection(1..n, S)
  BY FS_NatBijection
<1>2. n = Cardinality(S)
  BY <1>1, FS_CountingElements
<1>3. PICK f : f \in Bijection(1..n, S)
  BY <1>1 DEF ExistsBijection
<1>4. f \in [1..Cardinality(S) -> S] /\ IsInjective(f)
  BY <1>2, <1>3 DEF Bijection, Injection
<1>5. \E h \in [1..Cardinality(S) -> S] : IsInjective(h)
  BY <1>4
<1>6. SetToSeq(S) \in [1..Cardinality(S) -> S]
  BY <1>5 DEF SetToSeq
<1>7. SetToSeq(S) \in [1..n -> S]
  BY <1>2, <1>6
<1> QED
  BY <1>7

-----------------------------------------------------------------------------
(* Sharing a new value.                                                   *)

\* The watchers of a new value subscribe to it, and are called.
Introduces(c, calls) ==
    /\ Block(calls) /\ Nested(calls)
    /\ \A i \in DOMAIN calls : \/ Tag(calls[i]) = Other
                               \/ \E w \in Watchers : Tag(calls[i]) = On(c, w)
    /\ \A i \in DOMAIN calls : /\ calls[i].op # "endBatch"
                               /\ \A d \in Derived : ~Notifies(calls[i], d)
    /\ \A k : Has(calls, k) => k.op \notin Releasing \cup FrameOps

\* The calls that introduce a new value to its watchers.
LEMMA IntroduceFacts ==
  ASSUME NEW c \in Derived, NEW ws \in Seq(Watchers)
  PROVE  Introduces(c, [i \in DOMAIN ws |-> Call("on", c, ws[i])] \o CallsOf(ws))
<1>1. PICK a : a = [i \in DOMAIN ws |-> Call("on", c, ws[i])]
  OBVIOUS
<1>2. PICK b : b = CallsOf(ws)
  OBVIOUS
<1>3. DOMAIN ws = 1..Len(ws) /\ Len(ws) \in Nat /\ \A i \in DOMAIN ws : ws[i] \in Watchers
  BY LenProperties, ElementOfSeq
<1>4. ws \in Seq(Subscribers)
  BY SeqMonotonic DEF Subscribers
<1>5. DOMAIN a = DOMAIN ws /\ \A i \in DOMAIN a : a[i] = Call("on", c, ws[i])
  BY <1>1
<1>6. ASSUME NEW i \in DOMAIN a
      PROVE  /\ a[i].op = "on" /\ a[i].at = c /\ a[i].args \in Watchers /\ CallOK(a[i])
             /\ \E w \in Watchers : Tag(a[i]) = On(c, w)
  <2>1. a[i].op = "on" /\ a[i].at = c /\ a[i].args = ws[i] /\ ws[i] \in Watchers
    BY <1>3, <1>5, CallIs
  <2>2. Tag(a[i]) = On(c, ws[i])
    BY <2>1, TagIs
  <2>3. CallOK(a[i])
    BY <2>1 DEF CallOK, Nodes, Subscribers
  <2> QED
    BY <2>1, <2>2, <2>3
<1>7. IsSeq(a)
  <2>1. \A i \in 1..Len(ws) : a[i] \in {a[j] : j \in DOMAIN a}
    BY <1>3, <1>5
  <2>2. a \in Seq({a[j] : j \in DOMAIN a})
    BY <1>1, <1>3, <2>1
  <2> QED
    BY <2>2 DEF IsSeq
<1>8. Block(a)
  BY <1>6, <1>7 DEF Block
<1>9. Plain(b) /\ \A i \in DOMAIN b : \A d \in Derived : Notifies(b[i], d) => d \in Range(ws)
  BY <1>2, <1>4, CallsOfFacts
<1>10. \A d \in Derived : d \notin Range(ws)
  BY <1>3, SignalAssumption DEF Range
<1>11. Block(b) /\ Loose(b) /\ IsSeq(b) /\ \A i \in DOMAIN b : Tag(b[i]) = Other
  BY <1>9 DEF Plain, Block
<1>12. PICK calls : calls = a \o b
  OBVIOUS
<1>13. Block(calls) /\ From(calls, a, b)
  BY <1>8, <1>11, <1>12, BlockCat
<1>14. Nested(calls)
  BY <1>6, <1>7, <1>11, <1>12, NestedEdits
<1>15. ASSUME NEW i \in DOMAIN calls
       PROVE  /\ \/ Tag(calls[i]) = Other
                 \/ \E w \in Watchers : Tag(calls[i]) = On(c, w)
              /\ calls[i].op # "endBatch" /\ \A d \in Derived : ~Notifies(calls[i], d)
              /\ calls[i].op \notin Releasing \cup FrameOps
  <2>1. CASE \E j \in DOMAIN a : calls[i] = a[j]
    BY <1>6, <2>1 DEF Notifies, Releasing, FrameOps
  <2>2. CASE \E j \in DOMAIN b : calls[i] = b[j]
    <3>1. PICK j \in DOMAIN b : calls[i] = b[j]
      BY <2>2
    <3>2. Tag(calls[i]) = Other /\ calls[i].op \notin Busy /\ calls[i].op # "endBatch"
      BY <1>11, <3>1 DEF Loose
    <3>3. calls[i].op \notin FrameOps
      BY <3>2, TagIs, TagsDiffer
    <3>4. \A d \in Derived : ~Notifies(calls[i], d)
      BY <1>9, <1>10, <3>1
    <3> QED
      BY <3>2, <3>3, <3>4 DEF Busy
  <2> QED
    BY <1>13, <2>1, <2>2 DEF From
<1>16. Introduces(c, calls)
  BY <1>13, <1>14, <1>15 DEF Introduces, Has
<1> QED
  BY <1>1, <1>2, <1>12, <1>16

\* Share (the application subscribing to what it derived) keeps the invariant.
LEMMA ShareKeeps ==
  ASSUME IInv, NEW g \in Goroutines, Share(g)
  PROVE  IInv'
<1>1. PICK c : c = Top(g).at
  OBVIOUS
<1>2. ~Idle(g) /\ Top(g).op = "share" /\ UNCHANGED <<node, effect, batch, panics>>
  BY <1>1 DEF Share, At
<1>3. c \in Derived
  BY <1>1, <1>2, TopFits DEF CallOK
<1>4. PICK ws : ws = SetToSeq({w \in Watchers : WatchedBy(w) = c})
  OBVIOUS
<1>5. ws \in Seq(Watchers)
  <2>1. PICK W : W = {w \in Watchers : WatchedBy(w) = c}
    OBVIOUS
  <2>2. IsFiniteSet(W) /\ W \subseteq Watchers
    BY <2>1, SignalAssumption, FS_Subset
  <2>3. SetToSeq(W) \in Seq(W)
    BY <2>2, SetToSeqFacts
  <2> QED
    BY <1>4, <2>1, <2>2, <2>3, SeqMonotonic
<1>6. PICK calls : calls = [i \in DOMAIN ws |-> Call("on", c, ws[i])] \o CallsOf(ws)
  OBVIOUS
<1> DEFINE r == [comp[c] EXCEPT !.stage = "live"]
<1>7. Goes(g, calls) /\ comp' = [comp EXCEPT ![c] = r]
  BY <1>1, <1>4, <1>6 DEF Share
<1>8. Introduces(c, calls)
  BY <1>3, <1>5, <1>6, IntroduceFacts
<1>9. Tag(Top(g)) = Sharing(c)
  BY <1>1, <1>2, TagIs
<1>10. Moves(g, Sharing(c), calls)
  BY <1>2, <1>7, <1>8, <1>9, IInvFacts, GoesMoves DEF Introduces
<1>11. /\ comp[c] \in CompRecord /\ OneFrame(c) /\ Fresh(c) /\ Quiet(c)
       /\ Total(stack, Frame(c)) \in Nat /\ Total(stack, Sharing(c)) \in 0..1
       /\ AllSeqs(stack)
       /\ Frame(c) # Other /\ Sharing(c) # Other /\ Frame(c) # Sharing(c)
  BY <1>3, ValueFacts
<1>12. Total(stack, Sharing(c)) = 1 /\ comp[c].stage = "deriving"
  <2>1. 1 \in DOMAIN stack[g] /\ Top(g) = stack[g][1]
    BY <1>2, IInvFacts, TopFacts
  <2>2. Total(stack, Sharing(c)) # 0
    BY <1>9, <1>11, <2>1, TotalPlaces
  <2> QED
    BY <1>11, <2>2 DEF OneFrame
<1>13. /\ r \in CompRecord /\ r.refreshing = comp[c].refreshing /\ r.mu = comp[c].mu
       /\ r.dirty = comp[c].dirty /\ r.stopped = comp[c].stopped /\ r.deps = comp[c].deps
       /\ r.stage = "live"
  BY <1>11 DEF CompRecord
<1> HIDE DEF r
<1>14. comp'[c] = r
  BY <1>3, <1>7, IInvFacts, CompSet
<1>15. \A t : t # Other /\ (\A w \in Watchers : t # On(c, w)) => Num(calls, t) = 0
  <2> SUFFICES ASSUME NEW t, t # Other, \A w \in Watchers : t # On(c, w) PROVE Num(calls, t) = 0
    OBVIOUS
  <2>1. TagPlaces(calls, t) = {}
    BY <1>8 DEF TagPlaces, Introduces
  <2> QED
    BY <2>1, FS_EmptySet DEF Num
<1>16. Total(stack', Frame(c)) = Total(stack, Frame(c)) /\ Total(stack', Sharing(c)) = 0
  <2>1. \A w : Frame(c) # On(c, w) /\ Sharing(c) # On(c, w)
    BY TagsDiffer
  <2>2. Num(calls, Frame(c)) = 0 /\ Num(calls, Sharing(c)) = 0
    BY <1>11, <1>15, <2>1
  <2>3. One(Sharing(c), Frame(c)) = 0 /\ One(Sharing(c), Sharing(c)) = 1
    BY <1>11 DEF One
  <2>4. /\ Total(stack', Frame(c)) + One(Sharing(c), Frame(c)) = Total(stack, Frame(c)) + Num(calls, Frame(c))
        /\ Total(stack', Sharing(c)) + One(Sharing(c), Sharing(c)) = Total(stack, Sharing(c)) + Num(calls, Sharing(c))
        /\ Total(stack', Frame(c)) \in Nat /\ Total(stack', Sharing(c)) \in Nat
    BY <1>10, <1>11 DEF Moves
  <2> QED
    BY <1>11, <1>12, <2>2, <2>3, <2>4
<1>17. ValueOK(c)'
  <2>1. OneFrame(c)'
    BY <1>11, <1>12, <1>13, <1>14, <1>16 DEF OneFrame, Unborn
  <2>2. Fresh(c)' /\ ~Unsubscribed(c)'
    BY <1>13, <1>14 DEF Fresh, Unborn, Unsubscribed
  <2>3. comp'[c].stopped => comp'[c].deps = <<>>
    BY <1>3, <1>13, <1>14, IInvFacts DEF ValueOK
  <2> QED
    BY <2>1, <2>2, <2>3 DEF ValueOK, Quiet
<1>18. PICK gone : gone = Sharing(c)
  OBVIOUS
<1>19. Moves(g, gone, calls) /\ gone \in {Other, Frame(c), Sharing(c)}
  BY <1>10, <1>18
<1>20. Balanced(c)'
  <2>1. PICK nil : nil = <<>>
    OBVIOUS
  <2>2. nil \in Seq(Nodes) /\ \A n : Count(nil, n) = 0
    BY <2>1, NoneCounted
  <2>3. PICK old : old = Kept(c)
    OBVIOUS
  <2>4. PICK kept : kept = Kept(c)'
    OBVIOUS
  <2>5. old = SourcesOf(comp[c].deps) /\ kept = SourcesOf(comp[c].deps)
    BY <1>3, <1>13, <1>14, <2>3, <2>4 DEF Kept, SourcesOf
  <2>6. IsSeq(old) /\ IsSeq(kept)
    BY <1>11, <2>5, SourcesFacts DEF CompRecord, IsSeq
  <2>7. \A n : Num(calls, On(n, c)) = Count(nil, n) /\ Num(calls, Off(n, c)) = Count(nil, n)
    <3> SUFFICES ASSUME NEW n PROVE Num(calls, On(n, c)) = 0 /\ Num(calls, Off(n, c)) = 0
      BY <2>2
    <3>1. \A w \in Watchers : On(n, c) # On(c, w) /\ Off(n, c) # On(c, w)
      BY <1>3, SignalAssumption DEF On, Off
    <3>2. On(n, c) # Other /\ Off(n, c) # Other
      BY TagsDiffer
    <3> QED
      BY <1>15, <3>1, <3>2
  <2>8. \A n \in Nodes : Count(node'[n].subs, c) = Count(node[n].subs, c)
    BY <1>2
  <2>9. \A n \in Nodes : Count(old, n) + Count(nil, n) = Count(kept, n) + Count(nil, n)
    BY <2>2, <2>5
  <2>10. \A n \in Nodes : Total(stack, On(n, c)) + Count(nil, n) <= Count(kept, n)
    <3> SUFFICES ASSUME NEW n \in Nodes PROVE Total(stack, On(n, c)) + 0 <= Count(kept, n)
      BY <2>2
    <3>1. Total(stack, On(n, c)) <= Count(old, n)
      BY <1>3, <2>3, ValueFacts DEF Balanced
    <3>2. Total(stack, On(n, c)) \in Nat
      BY <1>11, TotalPlaces
    <3> QED
      BY <2>5, <3>1, <3>2
  <2>11. c \in Actors
    BY <1>3 DEF Actors
  <2> QED
    BY <1>19, <2>2, <2>3, <2>4, <2>6, <2>7, <2>8, <2>9, <2>10, <2>11, BalancedAfter
<1>21. \A h \in Goroutines : \A k : Has(stack[h], k) /\ k.at = c => CallFits(h, k)'
  BY <1>3, <1>13, <1>14, OldFit
<1>22. \A k : Has(calls, k) => CallFits(g, k)'
  BY <1>8 DEF Introduces, CallFits, FrameOps
<1>23. \A i \in DOMAIN calls : About(Tag(calls[i]), {c}) /\ Tag(calls[i]) # Ending
  <2> SUFFICES ASSUME NEW i \in DOMAIN calls PROVE About(Tag(calls[i]), {c}) /\ Tag(calls[i]) # Ending
    OBVIOUS
  <2>1. CASE Tag(calls[i]) = Other
    BY <2>1, TagsDiffer DEF About
  <2>2. CASE \E w \in Watchers : Tag(calls[i]) = On(c, w)
    BY <2>2, TagsDiffer DEF About
  <2> QED
    BY <1>8, <2>1, <2>2 DEF Introduces
<1>24. \A i \in DOMAIN calls : \A d \in Derived : ~Notifies(calls[i], d)
  BY <1>8 DEF Introduces
<1>25. NodeShape' /\ \A n \in Nodes : node'[n].subs = node[n].subs
  BY <1>2, IInvFacts DEF NodeShape
<1> QED
  BY <1>2, <1>3, <1>7, <1>13, <1>17, <1>19, <1>20, <1>21, <1>22, <1>23, <1>24, <1>25, ValueEdit

-----------------------------------------------------------------------------
(* Steps of one effect.                                                   *)

\* The subscriptions an effect keeps change with those edited.
Replaces(e, r, offs, ons) ==
    \A n \in Nodes : /\ Count(effect[e].unsubs, n) + Count(ons, n)
                          = Count(r.unsubs, n) + Count(offs, n)
                     /\ Count(ons, n) <= Count(r.unsubs, n)

\* An effect whose mutex is free edits its subscriptions.
Rewires(g, gone, calls, e, offs, ons, frames, r) ==
    /\ Moves(g, gone, calls) /\ gone \in {Other, Frame(e)} /\ effect[e].mu = None
    /\ Section(calls, e, offs, ons, frames)
    /\ offs \in Seq(Nodes) /\ ons \in Seq(Nodes) /\ Replaces(e, r, offs, ons)
    /\ r \in EffectRecord /\ effect' = [effect EXCEPT ![e] = r]
    /\ r.dead => r.unsubs = <<>>
    /\ panics = 0 /\ ~r.dead => frames = 1 \/ Range(r.read) \subseteq Range(r.unsubs)
    /\ frames \in 0..1 /\ (frames = 1 => gone = Other)
    /\ UNCHANGED <<node, comp, batch, panics>>
    /\ \A k : Has(calls, k) => CallFits(g, k)'

\* What the invariant says of an effect.
LEMMA EffectFacts ==
  ASSUME IInv, NEW e \in Effects
  PROVE  /\ effect[e] \in EffectRecord /\ effect \in [Effects -> EffectRecord]
         /\ e \notin Derived /\ e \in Actors /\ Kept(e) = effect[e].unsubs /\ Mu(e) = effect[e].mu
         /\ EffectOK(e) /\ Balanced(e)
<1>1. effect[e] \in EffectRecord /\ effect \in [Effects -> EffectRecord]
  BY IInvFacts DEF EffectShape
<1>2. e \notin Derived /\ e \in Actors
  BY SignalAssumption DEF Actors
<1> QED
  BY <1>1, <1>2, IInvFacts DEF Kept, Mu

\* A step that gives an effect other subscriptions, and leaves the edits to be made,
\* keeps the invariant.
LEMMA EffectSection ==
  ASSUME IInv, NEW g \in Goroutines, NEW gone, NEW calls, NEW e \in Effects, NEW offs, NEW ons,
         NEW frames, NEW r, Rewires(g, gone, calls, e, offs, ons, frames, r)
  PROVE  IInv'
<1>1. /\ Moves(g, gone, calls) /\ gone \in {Other, Frame(e)} /\ effect[e].mu = None
      /\ Section(calls, e, offs, ons, frames)
      /\ offs \in Seq(Nodes) /\ ons \in Seq(Nodes)
      /\ \A n \in Nodes : /\ Count(effect[e].unsubs, n) + Count(ons, n)
                               = Count(r.unsubs, n) + Count(offs, n)
                          /\ Count(ons, n) <= Count(r.unsubs, n)
      /\ r \in EffectRecord /\ effect' = [effect EXCEPT ![e] = r]
      /\ r.dead => r.unsubs = <<>>
      /\ panics = 0 /\ ~r.dead => frames = 1 \/ Range(r.read) \subseteq Range(r.unsubs)
      /\ frames \in 0..1 /\ (frames = 1 => gone = Other)
      /\ UNCHANGED <<node, comp, batch, panics>>
      /\ \A k : Has(calls, k) => CallFits(g, k)'
  BY DEF Rewires, Replaces
<1>2. /\ effect[e] \in EffectRecord /\ effect \in [Effects -> EffectRecord]
      /\ e \notin Derived /\ e \in Actors /\ Kept(e) = effect[e].unsubs /\ Mu(e) = None
  BY <1>1, EffectFacts
<1>3. effect'[e] = r
  BY <1>1, <1>2
<1>4. frames = 1 => Total(stack', Frame(e)) > 0
  <2> SUFFICES ASSUME frames = 1 PROVE Total(stack', Frame(e)) > 0
    OBVIOUS
  <2>1. Num(calls, Frame(e)) = 1 /\ Frame(e) # Other
    BY <1>1, TagsDiffer DEF Section
  <2>2. /\ Total(stack', Frame(e)) + One(gone, Frame(e)) = Total(stack, Frame(e)) + 1
        /\ Total(stack', Frame(e)) \in Nat /\ Total(stack, Frame(e)) \in Nat
    BY <1>1, <2>1 DEF Moves
  <2>3. One(gone, Frame(e)) = 0
    BY <1>1, <2>1 DEF One
  <2> QED
    BY <2>2, <2>3
<1>5. EffectOK(e)'
  BY <1>1, <1>3, <1>4 DEF EffectOK
<1>6. Balanced(e)'
  <2>1. PICK old : old = Kept(e)
    OBVIOUS
  <2>2. PICK kept : kept = Kept(e)'
    OBVIOUS
  <2>3. old = effect[e].unsubs /\ kept = r.unsubs
    BY <1>2, <1>3, <2>1, <2>2 DEF Kept
  <2>4. IsSeq(old) /\ IsSeq(kept)
    BY <1>1, <1>2, <2>3 DEF EffectRecord, IsSeq
  <2>5. \A n \in Nodes : Count(old, n) + Count(ons, n) = Count(kept, n) + Count(offs, n)
    BY <1>1, <2>3
  <2>6. \A n \in Nodes : Total(stack, On(n, e)) + Count(ons, n) <= Count(kept, n)
    <3> SUFFICES ASSUME NEW n \in Nodes PROVE Total(stack, On(n, e)) + Count(ons, n) <= Count(kept, n)
      OBVIOUS
    <3>1. Total(stack, On(n, e)) = 0
      BY <1>2, NoPendingOn
    <3>2. Count(ons, n) <= Count(kept, n)
      BY <1>1, <2>3
    <3>3. Count(ons, n) \in Nat
      BY <1>1, CountFacts DEF IsSeq
    <3> QED
      BY <3>1, <3>2, <3>3
  <2>7. \A n : Num(calls, On(n, e)) = Count(ons, n) /\ Num(calls, Off(n, e)) = Count(offs, n)
    BY <1>1 DEF Section
  <2>8. \A n \in Nodes : Count(node'[n].subs, e) = Count(node[n].subs, e)
    BY <1>1
  <2>9. gone \in {Other, Frame(e), Sharing(e)}
    BY <1>1
  <2> QED
    BY <1>1, <1>2, <2>1, <2>2, <2>4, <2>5, <2>6, <2>7, <2>8, <2>9, BalancedAfter
<1>7. \A h \in Goroutines : \A k : Has(stack[h], k) /\ k.at = e => CallFits(h, k)'
  BY <1>2, FreeFits
<1>8. /\ \A i \in DOMAIN calls : About(Tag(calls[i]), {e}) /\ Tag(calls[i]) # Ending
      /\ \A i \in DOMAIN calls : \A d \in Derived : ~Notifies(calls[i], d)
  BY <1>1 DEF Section
<1> QED
  BY <1>1, <1>5, <1>6, <1>7, <1>8, EffectEdit

\* Changing an effect.
LEMMA EffectSet ==
  ASSUME IInv, NEW e \in Effects, NEW r, effect' = [effect EXCEPT ![e] = r]
  PROVE  effect'[e] = r
BY EffectFacts

\* Dispose (Effect.Dispose) keeps the invariant.
LEMMA DisposeKeeps ==
  ASSUME IInv, NEW g \in Goroutines, NEW e \in Effects, Dispose(g, e)
  PROVE  IInv'
<1>1. effect[e].mu = None /\ UNCHANGED <<node, comp, batch, panics>>
  BY DEF Dispose
<1>2. effect[e] \in EffectRecord /\ effect \in [Effects -> EffectRecord] /\ e \in Actors
  BY EffectFacts
<1>3. PICK nil : nil = <<>>
  OBVIOUS
<1> DEFINE r == [effect[e] EXCEPT !.dead = TRUE, !.unsubs = nil]
<1>4. effect' = [effect EXCEPT ![e] = r]
  <2>1. effect' = [effect EXCEPT ![e].dead = TRUE, ![e].unsubs = nil]
    BY <1>3 DEF Dispose
  <2> QED
    BY <1>2, <2>1
<1>5. r \in EffectRecord /\ r.dead = TRUE /\ r.unsubs = nil
  <2>1. nil \in Seq(Nodes)
    BY <1>3
  <2> QED
    BY <1>2, <2>1 DEF EffectRecord
<1> HIDE DEF r
<1>6. PICK old : old = effect[e].unsubs
  OBVIOUS
<1>7. old \in Seq(Nodes)
  BY <1>2, <1>6 DEF EffectRecord
<1>8. PICK calls : calls = Calls("off", old, e)
  OBVIOUS
<1>9. Begins(g, calls)
  BY <1>6, <1>8 DEF Dispose
<1>10. Edits(calls, e, old, nil)
  BY <1>2, <1>3, <1>7, <1>8, EditsOff
<1>11. Section(calls, e, old, nil, 0) /\ \A k : Has(calls, k) => k.op = "off"
  BY <1>3, <1>10, SectionAlone
<1>12. PICK gone : gone = Other
  OBVIOUS
<1>13. Moves(g, gone, calls) /\ gone \in {Other, Frame(e)}
  BY <1>9, <1>11, <1>12, IInvFacts, BeginsMoves DEF Section
<1>14. \A k : Has(calls, k) => CallFits(g, k)'
  BY <1>11 DEF CallFits, Releasing
<1>15. nil \in Seq(Nodes) /\ Replaces(e, r, old, nil)
  <2>1. \A n : Count(nil, n) = 0
    BY <1>3, NoneCounted
  <2>2. \A n : Count(old, n) \in Nat
    BY <1>7, CountFacts DEF IsSeq
  <2> QED
    BY <1>3, <1>5, <1>6, <2>1, <2>2 DEF Replaces
<1>16. PICK frames : frames = 0
  OBVIOUS
<1>17. Rewires(g, gone, calls, e, old, nil, frames, r)
  BY <1>1, <1>3, <1>4, <1>5, <1>7, <1>11, <1>13, <1>14, <1>15, <1>16 DEF Rewires
<1> QED
  BY <1>17, EffectSection

\* Run (Effect.run, its first section) keeps the invariant.
LEMMA RunKeeps ==
  ASSUME IInv, NEW g \in Goroutines, Run(g)
  PROVE  IInv'
<1>1. PICK e : e = Top(g).at
  OBVIOUS
<1>2. ~Idle(g) /\ Top(g).op = "run" /\ UNCHANGED <<node, comp, batch, panics>>
  BY DEF Run, At
<1>3. e \in Effects /\ Tag(Top(g)) = Other
  BY <1>1, <1>2, TopFits, TagIs DEF CallOK, FrameOps, Other
<1>4. effect[e].mu = None
  BY <1>1 DEF Run
<1>5. effect[e] \in EffectRecord /\ effect \in [Effects -> EffectRecord] /\ e \in Actors
  BY <1>3, EffectFacts
<1>6. CASE effect[e].dead
  <2>1. PICK calls, S : calls = <<>> /\ S = {}
    OBVIOUS
  <2>2. Goes(g, calls) /\ UNCHANGED effect
    BY <1>1, <1>6, <2>1 DEF Run
  <2>3. PlainTo(calls, S) /\ \A c \in Derived : Unsubscribed(c) => c \notin S
    BY <2>1, NobodyHeard
  <2> QED
    BY <1>2, <1>3, <2>2, <2>3, StillGoes
<1>7. CASE ~effect[e].dead
  <2>1. PICK nil : nil = <<>>
    OBVIOUS
  <2> DEFINE r == [effect[e] EXCEPT !.unsubs = nil]
  <2>2. PICK old : old = effect[e].unsubs
    OBVIOUS
  <2>3. PICK a : a = Calls("off", old, e)
    OBVIOUS
  <2>4. PICK call : call = Call("track", e, nil)
    OBVIOUS
  <2>5. PICK calls : calls = Append(a, call)
    OBVIOUS
  <2>6. effect' = [effect EXCEPT ![e] = r] /\ Goes(g, calls)
    <3>1. effect' = [effect EXCEPT ![e].unsubs = nil] /\ Goes(g, calls)
      BY <1>1, <1>7, <2>1, <2>2, <2>3, <2>4, <2>5 DEF Run
    <3> QED
      BY <1>5, <3>1
  <2>7. r \in EffectRecord /\ r.dead = FALSE /\ r.unsubs = nil
    <3>1. nil \in Seq(Nodes)
      BY <2>1
    <3> QED
      BY <1>5, <1>7, <3>1 DEF EffectRecord
  <2> HIDE DEF r
  <2>8. old \in Seq(Nodes)
    BY <1>5, <2>2 DEF EffectRecord
  <2>9. call.op = "track" /\ call.at = e /\ call.args = nil
    BY <2>4, CallIs
  <2>10. CallOK(call) /\ call.op \in FrameOps
    <3>1. ReadsOK(nil)
      BY <2>1, ReadsNone
    <3> QED
      BY <1>3, <2>9, <3>1 DEF CallOK, FrameOps
  <2>11. Edits(a, e, old, nil)
    BY <1>5, <2>1, <2>3, <2>8, EditsOff
  <2>12. Section(calls, e, old, nil, 1) /\ \A k : Has(calls, k) => k = call \/ k.op \in {"on", "off"}
    BY <2>1, <2>5, <2>9, <2>10, <2>11, SectionThen
  <2>13. PICK gone : gone = Other
    OBVIOUS
  <2>14. Moves(g, gone, calls) /\ gone \in {Other, Frame(e)}
    BY <1>2, <1>3, <2>6, <2>12, <2>13, IInvFacts, GoesMoves DEF Section
  <2>15. \A k : Has(calls, k) => CallFits(g, k)'
    BY <2>9, <2>12 DEF CallFits, Releasing
  <2>16. nil \in Seq(Nodes) /\ Replaces(e, r, old, nil)
    <3>1. \A n : Count(nil, n) = 0
      BY <2>1, NoneCounted
    <3>2. \A n : Count(old, n) \in Nat
      BY <2>8, CountFacts DEF IsSeq
    <3> QED
      BY <2>1, <2>2, <2>7, <3>1, <3>2 DEF Replaces
  <2>17. PICK frames : frames = 1
    OBVIOUS
  <2>18. Rewires(g, gone, calls, e, old, nil, frames, r)
    BY <1>2, <1>4, <2>6, <2>7, <2>8, <2>12, <2>13, <2>14, <2>15, <2>16, <2>17 DEF Rewires
  <2> QED
    BY <1>3, <2>18, EffectSection
<1> QED
  BY <1>6, <1>7

\* Ran (Effect.run, after the function has returned) keeps the invariant.
LEMMA RanKeeps ==
  ASSUME IInv, NEW g \in Goroutines, Ran(g)
  PROVE  IInv'
<1>1. PICK e : e = Top(g).at
  OBVIOUS
<1>2. PICK read : read = SourcesOf(Deps(Top(g).args))
  OBVIOUS
<1>3. /\ ~Idle(g) /\ Top(g).op = "track" /\ Top(g).op \in FrameOps /\ read \in Seq(Nodes)
      /\ e \in Effects /\ effect[e].mu = None /\ UNCHANGED <<node, comp, batch, panics>>
  BY <1>1, <1>2, TrackedFacts DEF Ran
<1>4. effect[e] \in EffectRecord /\ effect \in [Effects -> EffectRecord] /\ e \in Actors /\ e \notin Derived
  BY <1>3, EffectFacts
<1>5. Tag(Top(g)) = Frame(e) /\ Top(g).op \notin {"on", "off"}
  BY <1>1, <1>3, TopFrame
<1>6. PICK gone : gone = Frame(e)
  OBVIOUS
<1>7. PICK nil : nil = <<>>
  OBVIOUS
<1>8. nil \in Seq(Nodes) /\ \A n : Count(nil, n) = 0
  BY <1>7, NoneCounted
<1>9. PICK frames : frames = 0
  OBVIOUS
<1>10. CASE effect[e].dead
  <2>1. PICK calls : calls = <<>>
    OBVIOUS
  <2>2. PICK r : r = effect[e]
    OBVIOUS
  <2>3. Goes(g, calls) /\ effect' = [effect EXCEPT ![e] = r]
    BY <1>1, <1>4, <1>10, <2>1, <2>2 DEF Ran
  <2>4. Edits(calls, e, nil, nil)
    BY <1>7, <2>1, EditsNone
  <2>5. Section(calls, e, nil, nil, 0) /\ \A k : Has(calls, k) => k.op = "off"
    BY <1>7, <2>4, SectionAlone
  <2>6. Moves(g, gone, calls) /\ gone \in {Other, Frame(e)}
    BY <1>3, <1>5, <1>6, <2>3, <2>5, IInvFacts, GoesMoves DEF Section
  <2>7. \A k : Has(calls, k) => CallFits(g, k)'
    BY <2>5 DEF CallFits, Releasing
  <2>8. r \in EffectRecord /\ r.dead = TRUE /\ r.unsubs = <<>>
    BY <1>3, <1>4, <1>10, <2>2, EffectFacts DEF EffectOK, EffectRecord
  <2>9. Replaces(e, r, nil, nil)
    <3>1. IsSeq(r.unsubs) /\ effect[e].unsubs = r.unsubs
      BY <2>2, <2>8 DEF EffectRecord, IsSeq
    <3>2. \A n : Count(r.unsubs, n) \in Nat
      BY <3>1, CountFacts
    <3> QED
      BY <1>8, <3>1, <3>2 DEF Replaces
  <2>10. Rewires(g, gone, calls, e, nil, nil, frames, r)
    BY <1>3, <1>8, <1>9, <2>3, <2>5, <2>6, <2>7, <2>8, <2>9 DEF Rewires
  <2> QED
    BY <1>3, <2>10, EffectSection
<1>11. CASE ~effect[e].dead
  <2>1. PICK old : old = effect[e].unsubs
    OBVIOUS
  <2>2. PICK all : all = old \o read
    OBVIOUS
  <2> DEFINE r == [effect[e] EXCEPT !.mu = g, !.unsubs = all, !.read = read]
  <2>3. PICK a : a = Calls("on", read, e)
    OBVIOUS
  <2>4. PICK call : call = Call("unlock", e, nil)
    OBVIOUS
  <2>5. PICK calls : calls = Append(a, call)
    OBVIOUS
  <2>6. effect' = [effect EXCEPT ![e] = r] /\ Goes(g, calls)
    <3>1. /\ effect' = [effect EXCEPT ![e].mu = g, ![e].unsubs = @ \o read, ![e].read = read]
          /\ Goes(g, calls)
      BY <1>1, <1>2, <1>7, <1>11, <2>3, <2>4, <2>5 DEF Ran
    <3> QED
      BY <1>3, <1>4, <2>1, <2>2, <3>1
  <2>7. old \in Seq(Nodes) /\ all \in Seq(Nodes)
    BY <1>3, <1>4, <2>1, <2>2, ConcatProperties DEF EffectRecord
  <2>8. r \in EffectRecord /\ r.dead = FALSE /\ r.unsubs = all /\ r.read = read /\ r.mu = g
    BY <1>3, <1>4, <1>11, <2>7 DEF EffectRecord
  <2> HIDE DEF r
  <2>9. effect'[e] = r
    BY <1>3, <2>6, EffectSet
  <2>10. call.op = "unlock" /\ call.at = e
    BY <2>4, CallIs
  <2>11. CallOK(call) /\ call.op \in Releasing
    BY <1>3, <2>10 DEF CallOK, Releasing
  <2>12. Edits(a, e, nil, read)
    BY <1>3, <1>4, <1>7, <2>3, EditsOn
  <2>13. Section(calls, e, nil, read, 0) /\ \A k : Has(calls, k) => k = call \/ k.op \in {"on", "off"}
    BY <2>5, <2>10, <2>11, <2>12, SectionThen
  <2>14. Moves(g, gone, calls) /\ gone \in {Other, Frame(e)}
    BY <1>3, <1>5, <1>6, <2>6, <2>13, IInvFacts, GoesMoves DEF Section
  <2>15. \A k : Has(calls, k) => CallFits(g, k)'
    <3>1. CallFits(g, call)'
      BY <1>4, <2>8, <2>9, <2>10 DEF CallFits, Mu
    <3>2. \A k : k.op \in {"on", "off"} => CallFits(g, k)'
      BY DEF CallFits, Releasing
    <3> QED
      BY <2>13, <3>1, <3>2
  <2>16. IsSeq(old) /\ IsSeq(read)
    BY <1>3, <2>7 DEF IsSeq
  <2>17. Replaces(e, r, nil, read)
    <3> SUFFICES ASSUME NEW n \in Nodes
                 PROVE  /\ Count(old, n) + Count(read, n) = Count(all, n) + Count(nil, n)
                        /\ Count(read, n) <= Count(all, n)
      BY <2>1, <2>8 DEF Replaces
    <3>1. /\ Count(old, n) \in Nat /\ Count(read, n) \in Nat
          /\ Count(all, n) = Count(old, n) + Count(read, n)
      BY <2>2, <2>16, CountCat
    <3> QED
      BY <1>8, <3>1
  <2>18. Range(r.read) \subseteq Range(r.unsubs)
    <3> SUFFICES ASSUME NEW n \in Range(read) PROVE n \in Range(all)
      BY <2>8
    <3>1. PICK i \in DOMAIN read : read[i] = n
      BY DEF Range
    <3>2. i \in 1..Len(read) /\ Len(old) \in Nat /\ Len(read) \in Nat /\ DOMAIN all = 1..(Len(old) + Len(read))
      BY <2>2, <2>16, <3>1, CatSeq
    <3>3. all[i + Len(old)] = n
      BY <2>2, <2>16, <3>1, <3>2, CatSeq
    <3>4. i + Len(old) \in DOMAIN all
      BY <3>2
    <3> QED
      BY <3>3, <3>4 DEF Range
  <2>19. Rewires(g, gone, calls, e, nil, read, frames, r)
    BY <1>3, <1>8, <1>9, <2>6, <2>8, <2>13, <2>14, <2>15, <2>17, <2>18 DEF Rewires
  <2> QED
    BY <1>3, <2>19, EffectSection
<1> QED
  BY <1>10, <1>11

\* Unlock (Effect.run, its unlock) keeps the invariant.
LEMMA UnlockKeeps ==
  ASSUME IInv, NEW g \in Goroutines, Unlock(g)
  PROVE  IInv'
<1>1. PICK e : e = Top(g).at
  OBVIOUS
<1>2. ~Idle(g) /\ Top(g).op = "unlock" /\ UNCHANGED <<node, comp, batch, panics>>
  BY DEF Unlock, At
<1>3. e \in Effects /\ Tag(Top(g)) = Other /\ Top(g).op \notin {"on", "off"}
  BY <1>1, <1>2, TopFits, TagIs DEF CallOK, FrameOps, Other
<1>4. effect[e] \in EffectRecord /\ effect \in [Effects -> EffectRecord] /\ e \in Actors /\ e \notin Derived
        /\ EffectOK(e) /\ Balanced(e)
  BY <1>3, EffectFacts
<1>5. effect[e].mu = g
  BY <1>1, <1>2, <1>4, TopFits DEF CallFits, Mu, Releasing
<1>6. PICK calls : calls = <<>>
  OBVIOUS
<1> DEFINE r == [effect[e] EXCEPT !.mu = None]
<1>7. Goes(g, calls) /\ effect' = [effect EXCEPT ![e] = r]
  BY <1>1, <1>6 DEF Unlock
<1>8. r \in EffectRecord /\ r.mu = None /\ r.dead = effect[e].dead /\ r.unsubs = effect[e].unsubs
        /\ r.read = effect[e].read
  BY <1>4 DEF EffectRecord
<1> HIDE DEF r
<1>9. effect'[e] = r
  BY <1>3, <1>7, EffectSet
<1>10. Plain(calls) /\ DOMAIN calls = {} /\ IsSeq(calls)
  BY <1>6, PlainNil, ShortSeqs
<1>11. Moves(g, Tag(Top(g)), calls)
  BY <1>2, <1>3, <1>7, <1>10, IInvFacts, GoesMoves, PlainFacts
<1>12. PICK gone : gone = Other
  OBVIOUS
<1>13. Moves(g, gone, calls) /\ gone \in {Other, Frame(e)}
  BY <1>3, <1>11, <1>12
<1>14. ASSUME NEW t, t # Other PROVE Total(stack', t) = Total(stack, t)
  BY <1>10, <1>12, <1>13, <1>14, TotalKept
<1>15. EffectOK(e)'
  <2>1. Total(stack', Frame(e)) = Total(stack, Frame(e))
    BY <1>14, TagsDiffer
  <2> QED
    BY <1>2, <1>4, <1>8, <1>9, <2>1 DEF EffectOK
<1>16. Balanced(e)'
  <2>1. Kept(e)' = Kept(e)
    BY <1>4, <1>8, <1>9 DEF Kept
  <2>2. PICK kept : kept = Kept(e)
    OBVIOUS
  <2>3. Kept(e)' = kept
    BY <2>1, <2>2
  <2>4. \A n : Total(stack', On(n, e)) = Total(stack, On(n, e)) /\ Total(stack', Off(n, e)) = Total(stack, Off(n, e))
    BY <1>14, TagsDiffer, SMTT(30)
  <2> QED
    BY <1>2, <1>4, <2>2, <2>3, <2>4 DEF Balanced
<1>17. ASSUME NEW h \in Goroutines, NEW k, Has(stack[h], k), Has(stack'[h], k), k.at = e
       PROVE  CallFits(h, k)'
  <2>1. CallFits(h, k) /\ CallOK(k)
    BY <1>17, IInvFacts DEF IInv, CallsFit, CallsOK, Has
  <2>2. CASE k.op \notin Releasing
    BY <1>4, <1>17, <2>1, <2>2 DEF CallFits, CallOK
  <2>3. CASE k.op \in Releasing
    <3>1. h = g
      BY <1>4, <1>5, <1>17, <2>1, <2>3 DEF CallFits, Mu
    <3>2. Has(calls, k) \/ k.op \notin Busy
      BY <1>2, <1>3, <1>7, <1>10, <1>17, <3>1, RestNotBusy
    <3>3. ~Has(calls, k)
      BY <1>10 DEF Has
    <3> QED
      BY <2>3, <3>2, <3>3 DEF Busy
  <2> QED
    BY <2>2, <2>3
<1>18. /\ \A i \in DOMAIN calls : About(Tag(calls[i]), {e}) /\ Tag(calls[i]) # Ending
       /\ \A i \in DOMAIN calls : \A d \in Derived : ~Notifies(calls[i], d)
       /\ \A k : Has(calls, k) => CallFits(g, k)'
  BY <1>10 DEF Has
<1> QED
  BY <1>2, <1>3, <1>7, <1>8, <1>13, <1>15, <1>16, <1>17, <1>18, EffectEdit

-----------------------------------------------------------------------------
(* Panics.                                                                *)

\* What a tag says of a call.
LEMMA TagSays ==
  ASSUME NEW k
  PROVE  /\ Tag(k) = Ending => k.op = "endBatch"
         /\ \A w : Tag(k) = Frame(w) => k.op \in FrameOps /\ k.at = w
         /\ \A w : Tag(k) = Sharing(w) => k.op = "share"
         /\ \A n, w : Tag(k) = On(n, w) => k.op = "on"
         /\ \A n, w : Tag(k) = Off(n, w) => k.op = "off"
<1>1. CASE k.op = "on"
  <2>1. Tag(k) = On(k.at, k.args)
    BY <1>1, TagIs
  <2>2. \A n, w : Off(n, w) # On(k.at, k.args)
    BY DEF On, Off
  <2> QED
    BY <1>1, <2>1, <2>2, TagsDiffer
<1>2. CASE k.op = "off"
  <2>1. Tag(k) = Off(k.at, k.args)
    BY <1>2, TagIs
  <2>2. \A n, w : On(n, w) # Off(k.at, k.args)
    BY DEF On, Off
  <2> QED
    BY <1>2, <2>1, <2>2, TagsDiffer
<1>3. CASE k.op \in FrameOps
  <2>1. Tag(k) = Frame(k.at)
    BY <1>3, TagIs
  <2>2. /\ \A n, w : On(n, w) # Frame(k.at) /\ Off(n, w) # Frame(k.at)
        /\ \A w : Sharing(w) # Frame(k.at) /\ (Frame(w) = Frame(k.at) => w = k.at)
        /\ Ending # Frame(k.at)
    BY DEF On, Off, Frame, Sharing, Ending
  <2> QED
    BY <1>3, <2>1, <2>2
<1>4. CASE k.op = "share"
  <2>1. Tag(k) = Sharing(k.at)
    BY <1>4, TagIs
  <2>2. /\ \A n, w : On(n, w) # Sharing(k.at) /\ Off(n, w) # Sharing(k.at)
        /\ \A w : Frame(w) # Sharing(k.at)
        /\ Ending # Sharing(k.at)
    BY DEF On, Off, Frame, Sharing, Ending
  <2> QED
    BY <1>4, <2>1, <2>2
<1>5. CASE k.op = "endBatch"
  <2>1. Tag(k) = Ending
    BY <1>5, TagIs
  <2>2. /\ \A n, w : On(n, w) # Ending /\ Off(n, w) # Ending
        /\ \A w : Frame(w) # Ending /\ Sharing(w) # Ending
    BY DEF On, Off, Frame, Sharing, Ending
  <2> QED
    BY <1>5, <2>1, <2>2
<1>6. CASE k.op \notin {"on", "off", "share", "endBatch"} \cup FrameOps
  <2>1. Tag(k) = Other
    BY <1>6, TagIs
  <2> QED
    BY <2>1, TagsDiffer
<1> QED
  BY <1>1, <1>2, <1>3, <1>4, <1>5, <1>6

\* A panic leaves the ends of the Batches under way.
LEMMA DeferredFacts ==
  ASSUME NEW s, IsSeq(s)
  PROVE  /\ IsSeq(Deferred(s)) /\ Nested(Deferred(s))
         /\ \A i \in DOMAIN Deferred(s) : /\ CallOK(Deferred(s)[i])
                                          /\ Deferred(s)[i].op = "endBatch"
         /\ Num(Deferred(s), Ending) = Num(s, Ending)
         /\ \A t : t # Ending => Num(Deferred(s), t) = 0
<1> DEFINE ends == {i \in DOMAIN s : s[i].op = "endBatch"}
           m == Cardinality(ends)
           d == Deferred(s)
<1>1. IsFiniteSet(ends) /\ m \in Nat
  <2>1. DOMAIN s = 1..Len(s) /\ Len(s) \in Nat
    BY SeqFacts
  <2>2. ends \subseteq 1..Len(s) /\ IsFiniteSet(1..Len(s))
    BY <2>1, FS_Interval
  <2> HIDE DEF ends
  <2>3. IsFiniteSet(ends)
    BY <2>2, FS_Subset
  <2> QED
    BY <2>3, FS_CardinalityType
<1>2. ends = TagPlaces(s, Ending)
  BY TagIs, TagSays DEF TagPlaces
<1>3. d = [k \in 1..m |-> Call("endBatch", None, <<>>)]
  BY DEF Deferred
<1> HIDE DEF ends, m, d
<1>4. d \in Seq({Call("endBatch", None, <<>>)})
  BY <1>1, <1>3
<1>5. DOMAIN d = 1..m /\ \A i \in DOMAIN d : d[i].op = "endBatch"
  BY <1>3, CallIs
<1>6. \A i \in DOMAIN d : Tag(d[i]) = Ending /\ CallOK(d[i])
  BY <1>5, TagIs DEF CallOK
<1>7. Nested(d)
  BY <1>5 DEF Nested, Busy, Releasing
<1>8. TagPlaces(d, Ending) = 1..m /\ \A t : t # Ending => TagPlaces(d, t) = {}
  BY <1>5, <1>6 DEF TagPlaces
<1>9. Cardinality(1..m) = m /\ Cardinality({}) = 0
  BY <1>1, FS_Interval, FS_EmptySet
<1>10. Num(d, Ending) = Num(s, Ending)
  BY <1>2, <1>8, <1>9 DEF Num, m
<1>11. \A t : t # Ending => Num(d, t) = 0
  BY <1>8, <1>9 DEF Num
<1> QED
  BY <1>4, <1>5, <1>6, <1>7, <1>10, <1>11 DEF d, IsSeq

\* What a stack keeps of a computation that panics outside a Derive.
LEMMA PanicTotals ==
  ASSUME IInv, NEW g \in Goroutines, Panic(g)
  PROVE  /\ StackShape' /\ AllSeqs(stack') /\ CallsOK' /\ StacksNested'
         /\ \A h \in Goroutines : h # g => stack'[h] = stack[h]
         /\ \A i \in DOMAIN stack'[g] : stack'[g][i].op = "endBatch"
         /\ Total(stack', Ending) = Total(stack, Ending)
         /\ \A n, who : /\ Total(stack', On(n, who)) = Total(stack, On(n, who))
                        /\ Total(stack', Off(n, who)) = Total(stack, Off(n, who))
         /\ \A t : t # Ending => /\ Total(stack', t) + Num(stack[g], t) = Total(stack, t)
                                 /\ Total(stack', t) \in Nat /\ Num(stack[g], t) \in Nat
<1>1. ~Idle(g) /\ Top(g).op = "track" /\ Top(g).op \notin {"on", "off"}
        /\ stack' = [stack EXCEPT ![g] = Deferred(@)]
  BY DEF Panic, At
<1>2. stack = [h \in Goroutines |-> stack[h]] /\ \A h \in Goroutines : IsSeq(stack[h])
  BY IInvFacts DEF StackShape
<1>3. stack'[g] = Deferred(stack[g]) /\ (\A h \in Goroutines : h # g => stack'[h] = stack[h])
        /\ stack' = [h \in Goroutines |-> stack'[h]]
  BY <1>1, <1>2
<1>4. /\ IsSeq(stack'[g]) /\ Nested(stack'[g])
      /\ \A i \in DOMAIN stack'[g] : CallOK(stack'[g][i]) /\ stack'[g][i].op = "endBatch"
      /\ Num(stack'[g], Ending) = Num(stack[g], Ending)
      /\ \A t : t # Ending => Num(stack'[g], t) = 0
  BY <1>2, <1>3, DeferredFacts
<1>5. \A h \in Goroutines : IsSeq(stack'[h])
  BY <1>2, <1>3, <1>4
<1>6. StackShape' /\ AllSeqs(stack') /\ AllSeqs(stack) /\ OnlyAt(g, stack, stack')
  BY <1>2, <1>3, <1>5 DEF StackShape, AllSeqs, OnlyAt
<1>7. CallsOK' /\ StacksNested'
  BY <1>3, <1>4, IInvFacts DEF CallsOK, StacksNested
<1>8. ASSUME NEW t
      PROVE  /\ Total(stack, t) \in Nat /\ Total(stack', t) \in Nat
             /\ Num(stack[g], t) \in Nat /\ Num(stack'[g], t) \in Nat
             /\ Total(stack', t) + Num(stack[g], t) = Total(stack, t) + Num(stack'[g], t)
  BY <1>6, TotalChange
<1>9. Total(stack', Ending) = Total(stack, Ending)
  BY <1>4, <1>8
<1>10. \A t : t # Ending => /\ Total(stack', t) + Num(stack[g], t) = Total(stack, t)
                            /\ Total(stack', t) \in Nat /\ Num(stack[g], t) \in Nat
  BY <1>4, <1>8
<1>11. ASSUME NEW n, NEW who
       PROVE  Num(stack[g], On(n, who)) = 0 /\ Num(stack[g], Off(n, who)) = 0
  <2>1. \A i \in DOMAIN stack[g] : stack[g][i].op \notin Busy
    BY <1>1, IInvFacts, TopFacts DEF Busy, Releasing
  <2>2. TagPlaces(stack[g], On(n, who)) = {} /\ TagPlaces(stack[g], Off(n, who)) = {}
    BY <2>1, TagSays DEF TagPlaces, Busy
  <2> QED
    BY <2>2, FS_EmptySet DEF Num
<1>12. ASSUME NEW n, NEW who
       PROVE  /\ Total(stack', On(n, who)) = Total(stack, On(n, who))
              /\ Total(stack', Off(n, who)) = Total(stack, Off(n, who))
  <2>1. On(n, who) # Ending /\ Off(n, who) # Ending
    BY DEF On, Off, Ending
  <2>2. Total(stack', On(n, who)) + 0 = Total(stack, On(n, who)) /\ Total(stack', On(n, who)) \in Nat
    BY <1>10, <1>11, <2>1
  <2>3. Total(stack', Off(n, who)) + 0 = Total(stack, Off(n, who)) /\ Total(stack', Off(n, who)) \in Nat
    BY <1>10, <1>11, <2>1
  <2> QED
    BY <2>2, <2>3
<1> QED
  BY <1>3, <1>4, <1>6, <1>7, <1>9, <1>10, <1>12

\* A refresh is undone when the panic goes through it.
LEMMA PanicUndoes ==
  ASSUME IInv, NEW g \in Goroutines, Panic(g), NEW c \in Derived
  PROVE  /\ comp[c].stage # "deriving" /\ comp'[c] \in CompRecord
         /\ \/ /\ comp'[c] = comp[c]
               /\ Total(stack', Frame(c)) = Total(stack, Frame(c))
            \/ /\ comp[c].refreshing = TRUE /\ comp'[c].refreshing = FALSE
               /\ comp'[c].stage = comp[c].stage /\ comp'[c].stopped = comp[c].stopped
               /\ comp'[c].mu = comp[c].mu /\ comp'[c].deps = comp[c].deps
               /\ Total(stack', Frame(c)) = 0
         /\ Total(stack', Sharing(c)) = 0
<1>1. PICK undone : undone = {stack[g][i].at : i \in {j \in DOMAIN stack[g] :
                         stack[g][j].op \in {"loop", "check", "compare", "track", "take"}}}
  OBVIOUS
<1>2. comp' = [b \in Derived |-> IF b \in undone
                                  THEN [comp[b] EXCEPT !.refreshing = FALSE, !.dirty = TRUE]
                                  ELSE comp[b]]
  BY <1>1 DEF Panic
<1>3. comp[c].stage # "deriving"
  BY DEF Panic
<1>4. comp[c] \in CompRecord /\ OneFrame(c) /\ AllSeqs(stack)
        /\ Total(stack, Frame(c)) \in Nat /\ Total(stack, Sharing(c)) \in 0..1
  BY ValueFacts
<1>5. /\ Total(stack', Frame(c)) + Num(stack[g], Frame(c)) = Total(stack, Frame(c))
      /\ Total(stack', Sharing(c)) + Num(stack[g], Sharing(c)) = Total(stack, Sharing(c))
      /\ Total(stack', Frame(c)) \in Nat /\ Num(stack[g], Frame(c)) \in Nat
      /\ Total(stack', Sharing(c)) \in Nat /\ Num(stack[g], Sharing(c)) \in Nat
  <2>1. Frame(c) # Ending /\ Sharing(c) # Ending
    BY DEF Frame, Sharing, Ending
  <2> QED
    BY <2>1, PanicTotals
<1>6. Total(stack', Sharing(c)) = 0
  BY <1>3, <1>4, <1>5 DEF OneFrame
<1>7. CASE c \notin undone
  <2>1. comp'[c] = comp[c]
    BY <1>2, <1>7
  <2>2. TagPlaces(stack[g], Frame(c)) = {}
    <3> SUFFICES ASSUME NEW i \in DOMAIN stack[g], Tag(stack[g][i]) = Frame(c) PROVE FALSE
      BY DEF TagPlaces
    <3>1. stack[g][i].op \in FrameOps /\ stack[g][i].at = c
      BY TagSays
    <3>2. stack[g][i].op \notin Busy
      <4>1. ~Idle(g) /\ Top(g).op = "track" /\ Top(g).op \notin {"on", "off"}
        BY DEF Panic, At
      <4> QED
        BY <4>1, IInvFacts, TopFacts DEF Busy, Releasing
    <3>3. stack[g][i].op \in {"loop", "check", "compare", "track", "take"}
      BY <3>1, <3>2 DEF FrameOps, Busy, Releasing
    <3> QED
      BY <1>1, <1>7, <3>1, <3>3
  <2>3. Num(stack[g], Frame(c)) = 0
    BY <2>2, FS_EmptySet DEF Num
  <2> QED
    BY <1>3, <1>4, <1>5, <1>6, <2>1, <2>3
<1>8. CASE c \in undone
  <2>1. comp'[c] = [comp[c] EXCEPT !.refreshing = FALSE, !.dirty = TRUE]
    BY <1>2, <1>8
  <2>2. /\ comp'[c] \in CompRecord /\ comp'[c].refreshing = FALSE
        /\ comp'[c].stage = comp[c].stage /\ comp'[c].stopped = comp[c].stopped
        /\ comp'[c].mu = comp[c].mu /\ comp'[c].deps = comp[c].deps
    BY <1>4, <2>1 DEF CompRecord
  <2>3. PICK i \in DOMAIN stack[g] : /\ stack[g][i].op \in {"loop", "check", "compare", "track", "take"}
                                     /\ stack[g][i].at = c
    BY <1>1, <1>8
  <2>4. Tag(stack[g][i]) = Frame(c)
    BY <2>3, TagIs DEF FrameOps
  <2>5. Num(stack[g], Frame(c)) # 0
    <3>1. IsFiniteSet(TagPlaces(stack[g], Frame(c)))
      <4>1. IsSeq(stack[g])
        BY <1>4 DEF AllSeqs
      <4>2. TagPlaces(stack[g], Frame(c)) \subseteq 1..Len(stack[g]) /\ Len(stack[g]) \in Nat
        BY <4>1, SeqFacts DEF TagPlaces
      <4>3. IsFiniteSet(1..Len(stack[g]))
        BY <4>2, FS_Interval
      <4> QED
        BY <4>2, <4>3, FS_Subset
    <3>2. i \in TagPlaces(stack[g], Frame(c))
      BY <2>4 DEF TagPlaces
    <3> QED
      BY <3>1, <3>2, FS_EmptySet DEF Num
  <2>6. Total(stack, Frame(c)) # 0
    BY <1>4, <1>5, <2>5
  <2>7. comp[c].refreshing = TRUE /\ Total(stack, Frame(c)) = 1
    BY <1>3, <1>4, <2>6 DEF OneFrame, Unborn, CompRecord
  <2>8. Total(stack', Frame(c)) = 0
    BY <1>5, <2>5, <2>7
  <2> QED
    BY <1>3, <1>6, <2>2, <2>7, <2>8
<1> QED
  BY <1>7, <1>8

\* Panic (a panic of the application's function) keeps the invariant.
LEMMA PanicKeeps ==
  ASSUME IInv, NEW g \in Goroutines, Panic(g)
  PROVE  IInv'
<1>1. /\ StackShape' /\ AllSeqs(stack') /\ CallsOK' /\ StacksNested'
      /\ \A h \in Goroutines : h # g => stack'[h] = stack[h]
      /\ \A i \in DOMAIN stack'[g] : stack'[g][i].op = "endBatch"
      /\ Total(stack', Ending) = Total(stack, Ending)
      /\ \A n, who : /\ Total(stack', On(n, who)) = Total(stack, On(n, who))
                     /\ Total(stack', Off(n, who)) = Total(stack, Off(n, who))
  BY PanicTotals
<1>2. UNCHANGED <<node, effect, batch>> /\ panics' = panics + 1 /\ panics \in Nat
  BY IInvFacts DEF Panic
<1>3. comp' = [b \in Derived |-> comp'[b]]
  BY DEF Panic
<1>4. CompShape'
  <2>1. \A c \in Derived : comp'[c] \in CompRecord
    BY PanicUndoes
  <2> QED
    BY <1>3, <2>1 DEF CompShape
<1>5. Types'
  <2>1. NodeShape' /\ EffectShape'
    BY <1>2, IInvFacts DEF NodeShape, EffectShape
  <2>2. BatchShape'
    BY <1>1, <1>2, IInvFacts DEF BatchShape
  <2>3. panics' \in Nat
    BY <1>2
  <2> QED
    BY <1>1, <1>4, <2>1, <2>2, <2>3 DEF Types
<1>6. ASSUME NEW c \in Derived PROVE ValueOK(c)'
  <2>1. OneFrame(c) /\ Fresh(c) /\ Quiet(c) /\ (comp[c].stopped => comp[c].deps = <<>>)
    BY ValueFacts, IInvFacts DEF ValueOK
  <2>2. /\ comp[c].stage # "deriving"
        /\ comp'[c].stage = comp[c].stage /\ comp'[c].stopped = comp[c].stopped
        /\ comp'[c].mu = comp[c].mu /\ comp'[c].deps = comp[c].deps
        /\ Total(stack', Sharing(c)) = 0
    BY PanicUndoes
  <2>3. OneFrame(c)'
    BY <2>1, <2>2, PanicUndoes DEF OneFrame, Unborn
  <2>4. Fresh(c)'
    BY <2>1, <2>2, PanicUndoes DEF Fresh, Unborn
  <2>5. Quiet(c)'
    <3> SUFFICES ASSUME Unsubscribed(c)'
                 PROVE  /\ comp'[c].deps = <<>>
                        /\ \A n \in Nodes : c \notin Range(node'[n].subs)
                        /\ c \notin Range(batch'.queue)
                        /\ \A h \in Goroutines : \A i \in DOMAIN stack'[h] : ~Notifies(stack'[h][i], c)
      BY DEF Quiet
    <3>1. Unsubscribed(c)
      BY <2>2 DEF Unsubscribed, Unborn
    <3>2. \A h \in Goroutines : \A i \in DOMAIN stack'[h] : ~Notifies(stack'[h][i], c)
      <4> SUFFICES ASSUME NEW h \in Goroutines, NEW i \in DOMAIN stack'[h] PROVE ~Notifies(stack'[h][i], c)
        OBVIOUS
      <4>1. CASE h = g
        BY <1>1, <4>1 DEF Notifies
      <4>2. CASE h # g
        BY <1>1, <2>1, <3>1, <4>2 DEF Quiet
      <4> QED
        BY <4>1, <4>2
    <3> QED
      BY <1>2, <2>1, <2>2, <3>1, <3>2 DEF Quiet
  <2> QED
    BY <2>1, <2>2, <2>3, <2>4, <2>5 DEF ValueOK
<1>7. ASSUME NEW e \in Effects PROVE EffectOK(e)'
  BY <1>2, IInvFacts DEF EffectOK
<1>8. ASSUME NEW who \in Derived \cup Effects PROVE Balanced(who)'
  <2>1. Balanced(who)
    BY <1>8, IInvFacts DEF Actors
  <2>2. Kept(who)' = Kept(who)
    <3>1. CASE who \in Derived
      <4>1. comp'[who].deps = comp[who].deps
        BY <3>1, PanicUndoes
      <4> QED
        BY <3>1, <4>1 DEF Kept, SourcesOf
    <3>2. CASE who \notin Derived
      BY <1>2, <3>2 DEF Kept
    <3> QED
      BY <3>1, <3>2
  <2>3. PICK kept : kept = Kept(who)
    OBVIOUS
  <2>4. Kept(who)' = kept
    BY <2>2, <2>3
  <2> QED
    BY <1>1, <1>2, <2>1, <2>3, <2>4 DEF Balanced
<1>9. CallsFit'
  <2> SUFFICES ASSUME NEW h \in Goroutines, NEW i \in DOMAIN stack'[h], NEW k, k = stack'[h][i]
               PROVE  CallFits(h, k)'
    BY DEF CallsFit
  <2>1. CASE h = g
    BY <1>1, <2>1 DEF CallFits, Releasing
  <2>2. CASE h # g
    <3>2. i \in DOMAIN stack[h] /\ k = stack[h][i]
      BY <1>1, <2>2
    <3>3. CallFits(h, k) /\ CallOK(k)
      BY <3>2, IInvFacts DEF IInv, CallsFit, CallsOK
    <3>4. k.op \in Releasing => Mu(k.at)' = h
      <4>1. k.at \in Derived => comp'[k.at].mu = comp[k.at].mu
        BY PanicUndoes
      <4> QED
        BY <1>2, <3>3, <4>1 DEF CallFits, Mu
    <3>5. k.op \in {"loop", "check", "compare", "recheck", "commit"} => comp'[k.at].refreshing
      <4> SUFFICES ASSUME k.op \in {"loop", "check", "compare", "recheck", "commit"}
                   PROVE  comp'[k.at].refreshing
        OBVIOUS
      <4>1. k.at \in Derived /\ comp[k.at].refreshing
        BY <3>3 DEF CallOK, CallFits
      <4>2. Tag(k) = Frame(k.at)
        BY TagIs DEF FrameOps
      <4>3. Frame(k.at) # Other
        BY TagsDiffer
      <4>4. Total(stack', Frame(k.at)) # 0
        BY <1>1, <4>2, TotalPlaces
      <4> QED
        BY <4>1, <4>4, PanicUndoes
    <3>6. k.op = "born" => ~comp'[k.at].refreshing
      <4> SUFFICES ASSUME k.op = "born" PROVE ~comp'[k.at].refreshing
        OBVIOUS
      <4>1. k.at \in Derived /\ ~comp[k.at].refreshing
        BY <3>3 DEF CallOK, CallFits
      <4> QED
        BY <4>1, PanicUndoes
    <3> QED
      BY <3>4, <3>5, <3>6 DEF CallFits
  <2> QED
    BY <2>1, <2>2
<1> QED
  BY <1>1, <1>5, <1>6, <1>7, <1>8, <1>9 DEF IInv

-----------------------------------------------------------------------------
(* The initial state.                                                     *)

\* The steps of a function that reads the values value.
Readers(who, value) == [i \in 1..MaxReads |-> [who |-> who, value |-> value]]

\* Reading as a fold.
LEMMA ReadingFold ==
  ASSUME NEW who, NEW value
  PROVE  Reading(who, value) = ReadFold!Fold(<<>>, Readers(who, value))
<1> DEFINE n == MaxReads
           F(f) == f = [k \in 0..n |->
                          IF k = 0 THEN <<>>
                          ELSE LET s == Source(who, Vals(f[k - 1]))
                               IN IF s \in Nodes
                                  THEN Append(f[k - 1], [source |-> s, rev |-> 0, value |-> value[s]])
                                  ELSE f[k - 1]]
           reads == CHOOSE f : F(f)
           seq == Readers(who, value)
<1>1. n \in Nat /\ DOMAIN seq = 1..n /\ \A i \in 1..n : seq[i].who = who /\ seq[i].value = value
  BY SignalAssumption DEF Readers
<1> HIDE DEF seq
<1>2. PICK c : /\ c[0] = <<>>
               /\ \A i \in 1..n : c[i] = ReadNext(c[i - 1], seq[i])
  <2> DEFINE base == <<>>
  <2> HIDE DEF n, base
  <2>1. \E c : /\ c[0] = base
               /\ \A i \in 1..n : c[i] = ReadNext(c[i - 1], seq[i])
               /\ ReadFold!Fold(base, seq) = c[n]
    BY <1>1, ReadFold!FoldLeftChain
  <2> QED
    BY <2>1 DEF base
<1>3. F([k \in 0..n |-> c[k]])
  <2> DEFINE d == [k \in 0..n |-> c[k]]
  <2>1. \A k \in 0..n : k = 0 \/ (k \in 1..n /\ k - 1 \in 0..n)
    BY <1>1
  <2>2. ASSUME NEW k \in 0..n
        PROVE  d[k] = IF k = 0 THEN <<>>
                      ELSE LET s == Source(who, Vals(d[k - 1]))
                           IN IF s \in Nodes
                              THEN Append(d[k - 1], [source |-> s, rev |-> 0, value |-> value[s]])
                              ELSE d[k - 1]
    <3>1. CASE k = 0
      BY <1>2, <3>1
    <3>2. CASE k # 0
      <4>1. k \in 1..n /\ d[k - 1] = c[k - 1] /\ d[k] = c[k]
        BY <2>1, <3>2
      <4>2. c[k] = ReadNext(c[k - 1], seq[k]) /\ seq[k].who = who /\ seq[k].value = value
        BY <1>1, <1>2, <4>1
      <4> QED
        BY <3>2, <4>1, <4>2 DEF ReadNext
    <3> QED
      BY <3>1, <3>2
  <2> QED
    BY <2>2
<1>4. F(reads)
  <2> HIDE DEF F
  <2> QED
    BY <1>3
<1>5. Reading(who, value) = reads[n]
  BY DEF Reading
<1>6. reads[0] = <<>> /\ \A i \in 1..n : reads[i] = ReadNext(reads[i - 1], seq[i])
  <2>1. \A i \in 1..n : i \in 0..n /\ i # 0
    BY <1>1
  <2>2. 0 \in 0..n
    BY <1>1
  <2> HIDE DEF reads
  <2> QED
    BY <1>1, <1>4, <2>1, <2>2 DEF ReadNext
<1> HIDE DEF reads, F
<1> DEFINE fold == ReadFold!Fold(<<>>, seq)
<1>7. fold = reads[n]
  <2> HIDE DEF n
  <2> QED
    BY <1>1, <1>6, ReadFold!FoldLeftIs
<1> QED
  BY <1>5, <1>7 DEF seq

\* A read of node n when the nodes hold value.
ReadIn(value) == [source : Nodes, rev : {0}, value : {value[n] : n \in Nodes}]

\* What a function reads are nodes, that were never published at first.
LEMMA ReadingOK ==
  ASSUME NEW who, NEW value
  PROVE  ReadsOK(Reading(who, value)) /\ RevsOf(Reading(who, value)) \subseteq {0}
<1> DEFINE n == MaxReads
           base == <<>>
           U == Seq(ReadIn(value))
           A == [k \in 0..n |-> U]
           seq == Readers(who, value)
<1>1. n \in Nat /\ DOMAIN seq = 1..n /\ \A i \in 1..n : seq[i].who = who /\ seq[i].value = value
  BY SignalAssumption DEF Readers
<1> HIDE DEF seq
<1>2. base \in U
  BY EmptySeq
<1>3. ASSUME NEW q \in U, NEW i \in 1..n PROVE ReadNext(q, seq[i]) \in U
  <2> DEFINE s == Source(who, Vals(q))
             read == [source |-> s, rev |-> 0, value |-> value[s]]
  <2>1. CASE s \in Nodes
    <3>1. read \in ReadIn(value)
      BY <2>1 DEF ReadIn
    <3>2. ReadNext(q, seq[i]) = Append(q, read)
      BY <1>1, <2>1 DEF ReadNext
    <3> HIDE DEF read
    <3> QED
      BY <3>1, <3>2, AppendProperties
  <2>2. CASE s \notin Nodes
    BY <1>1, <2>2 DEF ReadNext
  <2> QED
    BY <2>1, <2>2
<1> HIDE DEF base, U
<1>4. base \in A[0] /\ \A i \in 1..n : \A q \in A[i - 1] : ReadNext(q, seq[i]) \in A[i]
  <2>1. \A i \in 1..n : i \in 0..n /\ i - 1 \in 0..n
    BY <1>1
  <2> QED
    BY <1>1, <1>2, <1>3, <2>1
<1>5. ReadFold!Fold(base, seq) \in A[n]
  <2> HIDE DEF n, A
  <2> QED
    BY <1>1, <1>4, ReadFold!FoldLeftInduction
<1>6. Reading(who, value) \in U
  <2>1. Reading(who, value) = ReadFold!Fold(base, seq)
    BY ReadingFold DEF base, seq
  <2> QED
    BY <1>1, <1>5, <2>1
<1>7. PICK q : q = Reading(who, value)
  OBVIOUS
<1>8. q \in Seq(ReadIn(value))
  BY <1>6, <1>7 DEF U
<1>9. ASSUME NEW i \in DOMAIN q PROVE q[i].source \in Nodes /\ q[i].rev \in Nat /\ q[i].rev = 0
  <2>1. q[i] \in ReadIn(value)
    BY <1>8, LenProperties, ElementOfSeq
  <2> QED
    BY <2>1 DEF ReadIn
<1>10. ReadsOK(q) /\ RevsOf(q) \subseteq {0}
  BY <1>8, <1>9 DEF ReadsOK, IsSeq, RevsOf
<1> QED
  BY <1>7, <1>10

\* A function reads nothing but the values of the nodes.
LEMMA ReadingSame ==
  ASSUME NEW who, NEW value, NEW value2, \A n \in Nodes : value[n] = value2[n]
  PROVE  Reading(who, value) = Reading(who, value2)
<1> DEFINE n == MaxReads
           base == <<>>
           seq == Readers(who, value)
           seq2 == Readers(who, value2)
<1>1. /\ n \in Nat /\ DOMAIN seq = 1..n /\ DOMAIN seq2 = 1..n
      /\ \A i \in 1..n : seq[i].who = who /\ seq[i].value = value
      /\ \A i \in 1..n : seq2[i].who = who /\ seq2[i].value = value2
  BY SignalAssumption DEF Readers
<1> HIDE DEF seq, seq2, base
<1>2. PICK c : /\ c[0] = base
               /\ \A i \in 1..n : c[i] = ReadNext(c[i - 1], seq[i])
               /\ ReadFold!Fold(base, seq) = c[n]
  <2> HIDE DEF n
  <2> QED
    BY <1>1, ReadFold!FoldLeftChain
<1>3. \A i \in 1..n : c[i] = ReadNext(c[i - 1], seq2[i])
  BY <1>1, <1>2 DEF ReadNext
<1>4. ReadFold!Fold(base, seq2) = c[n]
  <2> HIDE DEF n
  <2> QED
    BY <1>1, <1>2, <1>3, ReadFold!FoldLeftIs
<1>5. /\ Reading(who, value) = ReadFold!Fold(base, seq)
      /\ Reading(who, value2) = ReadFold!Fold(base, seq2)
  BY ReadingFold DEF base, seq, seq2
<1> QED
  BY <1>2, <1>4, <1>5

\* The dependencies of a function are nodes, each of them once, at revision 0.
LEMMA FirstDepsFacts ==
  ASSUME NEW who, NEW value
  PROVE  /\ FirstDeps(who, value) \in Seq(Dependency)
         /\ \A i \in DOMAIN FirstDeps(who, value) : FirstDeps(who, value)[i].rev = 0
         /\ SourcesOf(FirstDeps(who, value)) \in Seq(Nodes)
         /\ \A n : Count(SourcesOf(FirstDeps(who, value)), n)
                     = IF n \in Range(SourcesOf(FirstDeps(who, value))) THEN 1 ELSE 0
<1>1. PICK deps : deps = FirstDeps(who, value)
  OBVIOUS
<1>2. Distinct(deps) /\ \A i \in DOMAIN deps : deps[i].rev = 0
  <2>1. PICK reads : reads = Reading(who, value)
    OBVIOUS
  <2>2. ReadsOK(reads) /\ RevsOf(reads) \subseteq {0} /\ deps = Deps(reads)
    BY <1>1, <2>1, ReadingOK DEF FirstDeps
  <2>3. Distinct(deps) /\ RevsOf(deps) \subseteq {0}
    BY <2>2, DepsFacts
  <2> QED
    BY <2>3 DEF RevsOf
<1>3. PICK q : q = SourcesOf(deps)
  OBVIOUS
<1>4. deps \in Seq(Dependency)
  BY <1>2 DEF Distinct
<1>5. q \in Seq(Nodes) /\ DOMAIN q = DOMAIN deps /\ \A i \in DOMAIN deps : q[i] = deps[i].source
  BY <1>3, <1>4, SourcesFacts
<1>6. IsSeq(q)
  BY <1>5 DEF IsSeq
<1>7. ASSUME NEW n PROVE Count(q, n) = IF n \in Range(q) THEN 1 ELSE 0
  <2>1. CASE n \notin Range(q)
    BY <1>6, <2>1, CountFacts
  <2>2. CASE n \in Range(q)
    <3>1. PICK i \in DOMAIN q : q[i] = n
      BY <2>2 DEF Range
    <3>2. {j \in DOMAIN q : q[j] = n} = {i}
      BY <1>2, <1>5, <3>1 DEF Distinct
    <3> QED
      BY <2>2, <3>2, FS_Singleton DEF Count
  <2> QED
    BY <2>1, <2>2
<1> QED
  BY <1>1, <1>2, <1>3, <1>4, <1>5, <1>7

\* The subscriptions once the first i of made have joined the nodes.
Record0(value) == [value : {value[n] : n \in Nodes}, rev : {0}, subs : Seq(Subscribers)]

Joined(nodes, value, made, i) ==
    /\ nodes \in [Nodes -> Record0(value)]
    /\ \A n \in Nodes : nodes[n].value = value[n]
    /\ \A n \in Nodes : \A who \in Actors :
         Count(nodes[n].subs, who)
           = IF \E j \in 1..i : made[j] = who THEN Count(SourcesOf(FirstDeps(who, value)), n) ELSE 0

\* When subscribers have joined up to made[i - 1], made[i] may join.
LEMMA JoinStep ==
  ASSUME NEW value, NEW made \in Seq(Subscribers), IsInjective(made), NEW i \in 1..Len(made),
         NEW nodes, Joined(nodes, value, made, i - 1)
  PROVE  Joined(Join(nodes, made[i]), value, made, i)
<1>1. PICK who : who = made[i]
  OBVIOUS
<1>2. who \in Subscribers /\ Len(made) \in Nat /\ DOMAIN made = 1..Len(made)
  BY <1>1, LenProperties, ElementOfSeq
<1>3. PICK value2 : value2 = [n \in Nodes |-> nodes[n].value]
  OBVIOUS
<1>4. \A n \in Nodes : value2[n] = value[n] /\ nodes[n] \in Record0(value) /\ nodes[n].value = value[n]
  BY <1>3 DEF Joined
<1>5. PICK uses : uses = IF who \in Watchers THEN {WatchedBy(who)}
                         ELSE Range(SourcesOf(FirstDeps(who, value2)))
  OBVIOUS
<1>6. who \in Actors => uses = Range(SourcesOf(FirstDeps(who, value)))
  <2>1. who \in Actors => who \notin Watchers
    BY SignalAssumption DEF Actors
  <2>2. Reading(who, value2) = Reading(who, value)
    BY <1>4, ReadingSame
  <2>3. FirstDeps(who, value2) = FirstDeps(who, value)
    BY <2>2 DEF FirstDeps
  <2> QED
    BY <1>5, <2>1, <2>3
<1>7. PICK next : next = Join(nodes, who)
  OBVIOUS
<1>8. next = [n \in Nodes |-> IF n \in uses THEN [nodes[n] EXCEPT !.subs = Append(@, who)] ELSE nodes[n]]
  BY <1>3, <1>5, <1>7 DEF Join
<1>9. ASSUME NEW n \in Nodes
      PROVE  /\ nodes[n].subs \in Seq(Subscribers)
             /\ next[n] \in Record0(value) /\ next[n].value = value[n]
             /\ next[n].subs = IF n \in uses THEN Append(nodes[n].subs, who) ELSE nodes[n].subs
  <2>1. nodes[n] \in Record0(value) /\ nodes[n].value = value[n]
    BY <1>4
  <2>2. nodes[n].subs \in Seq(Subscribers)
    BY <2>1 DEF Record0
  <2>3. CASE n \in uses
    <3>1. PICK q : q = Append(nodes[n].subs, who)
      OBVIOUS
    <3>2. q \in Seq(Subscribers)
      BY <1>2, <2>2, <3>1, AppendProperties
    <3>3. next[n] = [nodes[n] EXCEPT !.subs = q]
      BY <1>8, <2>3, <3>1
    <3>4. next[n] \in Record0(value) /\ next[n].value = value[n] /\ next[n].subs = q
      BY <2>1, <3>2, <3>3 DEF Record0
    <3> QED
      BY <2>2, <2>3, <3>1, <3>4
  <2>4. CASE n \notin uses
    <3>1. next[n] = nodes[n]
      BY <1>8, <2>4
    <3> QED
      BY <2>1, <2>2, <2>4, <3>1
  <2> QED
    BY <2>3, <2>4
<1>10. next \in [Nodes -> Record0(value)]
  <2>1. next = [n \in Nodes |-> next[n]]
    BY <1>8
  <2> QED
    BY <1>9, <2>1
<1>11. ASSUME NEW n \in Nodes, NEW v \in Actors
       PROVE  Count(next[n].subs, v)
                = IF \E j \in 1..i : made[j] = v THEN Count(SourcesOf(FirstDeps(v, value)), n) ELSE 0
  <2>1. Count(nodes[n].subs, v)
          = IF \E j \in 1..(i - 1) : made[j] = v THEN Count(SourcesOf(FirstDeps(v, value)), n) ELSE 0
    BY DEF Joined
  <2>2. CASE v # who
    <3>1. Count(next[n].subs, v) = Count(nodes[n].subs, v)
      <4>1. CASE n \in uses
        <5>1. Count(Append(nodes[n].subs, who), v) = Count(nodes[n].subs, v) + 0 /\ Count(nodes[n].subs, v) \in Nat
          BY <1>2, <1>9, <2>2, AppendCount
        <5> QED
          BY <1>9, <4>1, <5>1
      <4>2. CASE n \notin uses
        BY <1>9, <4>2
      <4> QED
        BY <4>1, <4>2
    <3>2. (\E j \in 1..i : made[j] = v) <=> \E j \in 1..(i - 1) : made[j] = v
      <4>1. \A j \in 1..i : j = i \/ j \in 1..(i - 1)
        OBVIOUS
      <4>2. \A j \in 1..(i - 1) : j \in 1..i
        OBVIOUS
      <4> QED
        BY <1>1, <2>2, <4>1, <4>2
    <3> QED
      BY <2>1, <3>1, <3>2
  <2>3. CASE v = who
    <3>1. ~ \E j \in 1..(i - 1) : made[j] = v
      <4> SUFFICES ASSUME NEW j \in 1..(i - 1), made[j] = v PROVE FALSE
        OBVIOUS
      <4>1. j \in DOMAIN made /\ i \in DOMAIN made /\ j # i
        BY <1>2
      <4> QED
        BY <1>1, <2>3, <4>1 DEF IsInjective
    <3>2. Count(nodes[n].subs, v) = 0
      BY <2>1, <3>1
    <3>3. \E j \in 1..i : made[j] = v
      <4>1. i \in 1..i
        BY <1>2
      <4> QED
        BY <1>1, <2>3, <4>1
    <3>4. Count(SourcesOf(FirstDeps(v, value)), n) = IF n \in uses THEN 1 ELSE 0
      BY <1>6, <2>3, FirstDepsFacts
    <3>5. Count(next[n].subs, v) = IF n \in uses THEN 1 ELSE 0
      <4>1. CASE n \in uses
        <5>1. Count(Append(nodes[n].subs, who), v) = Count(nodes[n].subs, v) + 1
          BY <1>2, <1>9, <2>3, AppendCount
        <5> QED
          BY <1>9, <3>2, <4>1, <5>1
      <4>2. CASE n \notin uses
        BY <1>9, <3>2, <4>2
      <4> QED
        BY <4>1, <4>2
    <3> QED
      BY <3>3, <3>4, <3>5
  <2> QED
    BY <2>2, <2>3
<1>12. Joined(next, value, made, i)
  BY <1>9, <1>10, <1>11 DEF Joined
<1> QED
  BY <1>1, <1>7, <1>12

\* After all have joined, each is subscribed once to each node it depends on.
LEMMA JoinAll ==
  ASSUME NEW value, NEW made \in Seq(Subscribers), IsInjective(made)
  PROVE  Joined(FoldLeft(Join, [n \in Nodes |-> [value |-> value[n], rev |-> 0, subs |-> <<>>]], made),
                value, made, Len(made))
<1> DEFINE m == Len(made)
           base == [n \in Nodes |-> [value |-> value[n], rev |-> 0, subs |-> <<>>]]
           A == [i \in 0..m |-> {nodes \in [Nodes -> Record0(value)] : Joined(nodes, value, made, i)}]
<1>1. m \in Nat /\ DOMAIN made = 1..m
  BY LenProperties
<1>2. Joined(base, value, made, 0)
  <2>1. PICK nil : nil = <<>>
    OBVIOUS
  <2>2. nil \in Seq(Subscribers) /\ \A x : Count(nil, x) = 0
    BY <2>1, NoneCounted
  <2>3. base = [n \in Nodes |-> [value |-> value[n], rev |-> 0, subs |-> nil]]
    BY <2>1
  <2> HIDE DEF base
  <2>4. base \in [Nodes -> Record0(value)] /\ \A n \in Nodes : base[n].value = value[n] /\ base[n].subs = nil
    BY <2>2, <2>3 DEF Record0
  <2>5. \A who : ~ \E j \in 1..0 : made[j] = who
    OBVIOUS
  <2> QED
    BY <2>2, <2>4, <2>5 DEF Joined
<1> HIDE DEF base
<1>3. base \in A[0] /\ \A i \in 1..m : \A nodes \in A[i - 1] : Join(nodes, made[i]) \in A[i]
  <2>1. base \in A[0]
    BY <1>1, <1>2 DEF Joined
  <2>2. ASSUME NEW i \in 1..m, NEW nodes \in A[i - 1] PROVE Join(nodes, made[i]) \in A[i]
    <3>1. i - 1 \in 0..m /\ i \in 0..m
      BY <1>1
    <3>2. Joined(nodes, value, made, i - 1)
      BY <3>1
    <3>3. Joined(Join(nodes, made[i]), value, made, i)
      BY <3>2, JoinStep
    <3> QED
      BY <3>1, <3>3 DEF Joined
  <2> QED
    BY <2>1, <2>2
<1>4. JoinFold!Fold(base, made) \in A[m]
  <2> HIDE DEF m, A
  <2> QED
    BY <1>1, <1>3, JoinFold!FoldLeftInduction
<1>5. FoldLeft(Join, base, made) = JoinFold!Fold(base, made)
  BY DEF JoinFold!Fold, FoldLeft, MapThenFoldSet, Max,
         JoinFold!MapThenFoldSet, JoinFold!Max
<1> QED
  BY <1>1, <1>4, <1>5 DEF base

\* Nothing is under way at first.
LEMMA NoTotals ==
  ASSUME stack = [g \in Goroutines |-> <<>>]
  PROVE  /\ StackShape /\ CallsOK /\ StacksNested /\ CallsFit
         /\ \A t : Total(stack, t) = 0
         /\ \A g \in Goroutines : DOMAIN stack[g] = {}
<1>1. PICK nil : nil = <<>>
  OBVIOUS
<1>2. IsSeq(nil) /\ DOMAIN nil = {}
  BY <1>1, ShortSeqs
<1>3. stack = [g \in Goroutines |-> nil]
  BY <1>1
<1>4. \A g \in Goroutines : IsSeq(stack[g]) /\ DOMAIN stack[g] = {}
  BY <1>2, <1>3
<1>5. StackShape /\ AllSeqs(stack)
  BY <1>3, <1>4 DEF StackShape, AllSeqs
<1>6. CallsOK /\ CallsFit
  BY <1>4 DEF CallsOK, CallsFit
<1>7. StacksNested
  BY <1>4 DEF StacksNested, Nested
<1>8. \A t : Total(stack, t) = 0
  BY <1>4, <1>5, TotalPlaces
<1> QED
  BY <1>4, <1>5, <1>6, <1>7, <1>8

\* The invariant holds when the application has made its values, watchers and effects.
LEMMA InitIInv == Init => IInv
<1> SUFFICES ASSUME Init PROVE IInv
  OBVIOUS
<1> DEFINE Worths(start) == Worth([s \in Bases |-> start.first])
           Nodes0(v) == [n \in Nodes |-> [value |-> v[n], rev |-> 0, subs |-> <<>>]]
           Comps(made, v) ==
              [c \in Derived |->
                 [dirty |-> FALSE, refreshing |-> FALSE, stopped |-> FALSE, mu |-> None,
                  stage |-> IF c \in Range(made) THEN "live" ELSE "new",
                  deps |-> IF c \in Range(made) THEN FirstDeps(c, v) ELSE <<>>]]
           Effects0(v) ==
              [e \in Effects |->
                 [dead |-> FALSE, mu |-> None, unsubs |-> SourcesOf(FirstDeps(e, v)),
                  read |-> SourcesOf(FirstDeps(e, v))]]
<1>0. PICK start \in Starts :
        /\ node = FoldLeft(Join, Nodes0(Worths(start)), start.made)
        /\ comp = Comps(start.made, Worths(start)) /\ effect = Effects0(Worths(start))
  BY DEF Init
<1>1. PICK made, value :
        /\ made = start.made /\ value = Worths(start)
        /\ node = FoldLeft(Join, Nodes0(value), made)
        /\ comp = Comps(made, value) /\ effect = Effects0(value)
  BY <1>0
<1>2. /\ batch = [depth |-> 0, queue |-> <<>>] /\ stack = [g \in Goroutines |-> <<>>]
      /\ panics = 0
  BY DEF Init
<1>3. made \in Seq(Subscribers) /\ IsInjective(made) /\ Effects \subseteq Range(made)
  BY <1>1, SignalAssumption DEF Subscribers
<1>4. Joined(node, value, made, Len(made))
  BY <1>1, <1>3, JoinAll
<1>5. /\ StackShape /\ CallsOK /\ StacksNested /\ CallsFit
      /\ \A t : Total(stack, t) = 0
      /\ \A g \in Goroutines : DOMAIN stack[g] = {}
  BY <1>2, NoTotals
<1>6. PICK nil : nil = <<>>
  OBVIOUS
<1>7. nil \in Seq(Dependency) /\ nil \in Seq(Subscribers) /\ \A n : Count(nil, n) = 0
  BY <1>6, NoneCounted
<1>8. ASSUME NEW c \in Derived
      PROVE  /\ comp[c].dirty = FALSE /\ comp[c].refreshing = FALSE /\ comp[c].stopped = FALSE
             /\ comp[c].mu = None /\ comp[c].stage = IF c \in Range(made) THEN "live" ELSE "new"
             /\ comp[c].deps = IF c \in Range(made) THEN FirstDeps(c, value) ELSE nil
             /\ comp[c] \in CompRecord
  <2>1. PICK deps : deps = IF c \in Range(made) THEN FirstDeps(c, value) ELSE nil
    OBVIOUS
  <2>2. deps \in Seq(Dependency)
    BY <1>7, <2>1, FirstDepsFacts
  <2>3. PICK stage : stage = IF c \in Range(made) THEN "live" ELSE "new"
    OBVIOUS
  <2>4. stage \in {"new", "deriving", "live"}
    BY <2>3
  <2>5. comp[c] = [dirty |-> FALSE, refreshing |-> FALSE, stopped |-> FALSE, mu |-> None,
                   stage |-> stage, deps |-> deps]
    BY <1>1, <1>6, <2>1, <2>3
  <2> QED
    BY <2>1, <2>2, <2>3, <2>4, <2>5 DEF CompRecord
<1>9. ASSUME NEW e \in Effects
      PROVE  /\ effect[e].dead = FALSE /\ effect[e].unsubs = SourcesOf(FirstDeps(e, value))
             /\ effect[e].read = SourcesOf(FirstDeps(e, value)) /\ effect[e] \in EffectRecord
  <2>1. PICK reads : reads = SourcesOf(FirstDeps(e, value))
    OBVIOUS
  <2>2. reads \in Seq(Nodes)
    BY <2>1, FirstDepsFacts
  <2>3. effect[e] = [dead |-> FALSE, mu |-> None, unsubs |-> reads, read |-> reads]
    BY <1>1, <2>1
  <2> QED
    BY <2>1, <2>2, <2>3 DEF EffectRecord
<1>10. CompShape /\ EffectShape
  <2>1. comp = [c \in Derived |-> comp[c]] /\ effect = [e \in Effects |-> effect[e]]
    BY <1>1
  <2> QED
    BY <1>8, <1>9, <2>1 DEF CompShape, EffectShape
<1>11. NodeShape
  <2>1. node \in [Nodes -> Record0(value)]
    BY <1>4 DEF Joined
  <2> QED
    BY <2>1 DEF NodeShape, Record0
<1>12. BatchShape
  <2>1. batch = [depth |-> 0, queue |-> nil]
    BY <1>2, <1>6
  <2> QED
    BY <1>5, <1>7, <2>1 DEF BatchShape
<1>13. Types
  BY <1>2, <1>5, <1>10, <1>11, <1>12 DEF Types
<1>14. \A n \in Nodes : \A who \in Actors : Count(node[n].subs, who)
          = IF who \in Range(made) THEN Count(SourcesOf(FirstDeps(who, value)), n) ELSE 0
  <2>1. DOMAIN made = 1..Len(made)
    BY <1>3, LenProperties
  <2>2. \A who : (\E j \in 1..Len(made) : made[j] = who) <=> who \in Range(made)
    BY <2>1 DEF Range
  <2> QED
    BY <1>4, <2>2 DEF Joined
<1>15. ASSUME NEW c \in Derived PROVE ValueOK(c)
  <2>0. comp[c].stage # "deriving"
    BY <1>8
  <2>1. OneFrame(c) /\ Fresh(c)
    <3>1. ~Unborn(c)
      BY <2>0 DEF Unborn
    <3>2. Total(stack, Frame(c)) = 0 /\ Total(stack, Sharing(c)) = 0
      BY <1>5
    <3>3. OneFrame(c)
      <4>1. ~(comp[c].refreshing \/ Unborn(c))
        BY <1>8, <3>1
      <4>2. 0 \in 0..1
        OBVIOUS
      <4> QED
        BY <3>2, <4>1, <4>2 DEF OneFrame
    <3>4. Fresh(c)
      BY <1>8, <3>1 DEF Fresh
    <3> QED
      BY <3>3, <3>4
  <2>2. Quiet(c)
    <3> SUFFICES ASSUME Unsubscribed(c)
                 PROVE  /\ comp[c].deps = <<>>
                        /\ \A n \in Nodes : c \notin Range(node[n].subs)
                        /\ c \notin Range(batch.queue)
                        /\ \A g \in Goroutines : \A i \in DOMAIN stack[g] : ~Notifies(stack[g][i], c)
      BY DEF Quiet
    <3>1. c \notin Range(made)
      BY <1>8 DEF Unsubscribed, Unborn
    <3>2. \A n \in Nodes : c \notin Range(node[n].subs)
      <4> SUFFICES ASSUME NEW n \in Nodes PROVE c \notin Range(node[n].subs)
        OBVIOUS
      <4>1. Count(node[n].subs, c) = 0
        BY <1>14, <3>1 DEF Actors
      <4>2. IsSeq(node[n].subs)
        BY <1>11 DEF NodeShape, IsSeq
      <4> QED
        BY <4>1, <4>2, CountFacts
    <3>3. c \notin Range(batch.queue)
      <4>1. batch.queue = nil
        BY <1>2, <1>6
      <4>2. DOMAIN nil = {}
        BY <1>6, ShortSeqs
      <4> QED
        BY <4>1, <4>2 DEF Range
    <3> QED
      BY <1>5, <1>6, <1>8, <3>1, <3>2, <3>3
  <2> QED
    BY <1>8, <2>1, <2>2 DEF ValueOK
<1>16. ASSUME NEW e \in Effects PROVE EffectOK(e)
  BY <1>9 DEF EffectOK
<1>17. ASSUME NEW who \in Derived \cup Effects PROVE Balanced(who)
  <2> SUFFICES ASSUME NEW n \in Nodes
               PROVE  /\ Count(node[n].subs, who) + 0 = Count(Kept(who), n) + 0
                      /\ 0 <= Count(Kept(who), n)
    BY <1>5 DEF Balanced
  <2>1. Count(node[n].subs, who) = Count(Kept(who), n)
    <3>1. CASE who \in Range(made)
      <4>1. Kept(who) = SourcesOf(FirstDeps(who, value))
        <5>1. CASE who \in Derived
          BY <1>8, <3>1, <5>1 DEF Kept
        <5>2. CASE who \notin Derived
          BY <1>9, <1>17, <5>2 DEF Kept
        <5> QED
          BY <5>1, <5>2
      <4> QED
        BY <1>14, <1>17, <3>1, <4>1 DEF Actors
    <3>2. CASE who \notin Range(made)
      <4>1. who \in Derived /\ comp[who].deps = nil
        BY <1>3, <1>8, <1>17, <3>2
      <4>2. PICK q : q = SourcesOf(nil)
        OBVIOUS
      <4>3. IsSeq(q) /\ Len(q) = Len(nil) /\ Len(nil) = 0
        BY <1>6, <1>7, <4>2, SourcesFacts DEF IsSeq
      <4>4. q = nil
        BY <1>6, <4>3, SeqFacts
      <4>5. Kept(who) = nil
        BY <4>1, <4>2, <4>4 DEF Kept
      <4> QED
        BY <1>7, <1>14, <1>17, <3>2, <4>5 DEF Actors
    <3> QED
      BY <3>1, <3>2
  <2>2. Count(node[n].subs, who) \in Nat
    <3>1. IsSeq(node[n].subs)
      BY <1>11 DEF NodeShape, IsSeq
    <3> QED
      BY <3>1, CountFacts
  <2> QED
    BY <2>1, <2>2
<1> QED
  BY <1>5, <1>13, <1>15, <1>16, <1>17 DEF IInv

-----------------------------------------------------------------------------
(* Every step.                                                            *)

\* Every operation the application starts keeps the invariant.
LEMMA OperationKeeps ==
  ASSUME IInv, NEW g \in Goroutines, Operation(g)
  PROVE  IInv'
<1>1. CASE \E s \in Bases : \E v \in Values(s) : Set(g, s, v)
  BY <1>1, SetKeeps
<1>2. CASE \E c \in Derived : Get(g, c)
  BY <1>2, GetKeeps
<1>3. CASE Batch(g)
  BY <1>3, BatchKeeps
<1>4. CASE \E c \in Derived : Derive(g, c)
  BY <1>4, DeriveKeeps
<1>5. CASE \E c \in Derived : Stop(g, c)
  BY <1>5, StopKeeps
<1>6. CASE \E e \in Effects : Dispose(g, e)
  BY <1>6, DisposeKeeps
<1> QED
  BY <1>1, <1>2, <1>3, <1>4, <1>5, <1>6 DEF Operation

\* The steps that notify.
LEMMA NotificationKeeps ==
  ASSUME IInv, NEW g \in Goroutines,
         \/ Invalidate(g) \/ InvalidateSubscribers(g) \/ BatchNotify(g) \/ EndBatch(g) \/ EndSet(g)
         \/ OnDepChange(g) \/ Wake(g) \/ Callback(g) \/ Look(g) \/ Unsubscribe(g) \/ Subscribe(g)
  PROVE  IInv'
<1>1. CASE Invalidate(g)
  BY <1>1, InvalidateKeeps
<1>2. CASE InvalidateSubscribers(g)
  BY <1>2, InvalidateSubscribersKeeps
<1>3. CASE BatchNotify(g)
  BY <1>3, BatchNotifyKeeps
<1>4. CASE EndBatch(g)
  BY <1>4, EndBatchKeeps
<1>5. CASE EndSet(g)
  BY <1>5, EndSetKeeps
<1>6. CASE OnDepChange(g)
  BY <1>6, OnDepChangeKeeps
<1>7. CASE Wake(g)
  BY <1>7, WakeKeeps
<1>8. CASE Callback(g)
  BY <1>8, CallbackKeeps
<1>9. CASE Look(g)
  BY <1>9, LookKeeps
<1>10. CASE Unsubscribe(g)
  BY <1>10, UnsubscribeKeeps
<1>11. CASE Subscribe(g)
  BY <1>11, SubscribeKeeps
<1> QED
  BY <1>1, <1>2, <1>3, <1>4, <1>5, <1>6, <1>7, <1>8, <1>9, <1>10, <1>11

\* The steps of a refresh.
LEMMA RefreshKeeps ==
  ASSUME IInv, NEW g \in Goroutines,
         \/ BeginRefresh(g) \/ Loop(g) \/ Check(g) \/ Compare(g) \/ Track(g) \/ Take(g)
         \/ Settle(g) \/ Recheck(g) \/ Commit(g)
  PROVE  IInv'
<1>1. CASE BeginRefresh(g)
  BY <1>1, BeginRefreshKeeps
<1>2. CASE Loop(g)
  BY <1>2, LoopKeeps
<1>3. CASE Check(g)
  BY <1>3, CheckKeeps
<1>4. CASE Compare(g)
  BY <1>4, CompareKeeps
<1>5. CASE Track(g)
  BY <1>5, TrackKeeps
<1>6. CASE Take(g)
  BY <1>6, TakeKeeps
<1>7. CASE Settle(g)
  BY <1>7, SettleKeeps
<1>8. CASE Recheck(g)
  BY <1>8, RecheckKeeps
<1>9. CASE Commit(g)
  BY <1>9, CommitKeeps
<1> QED
  BY <1>1, <1>2, <1>3, <1>4, <1>5, <1>6, <1>7, <1>8, <1>9

\* The rest of Derive, and the runs of effects.
LEMMA RunsKeep ==
  ASSUME IInv, NEW g \in Goroutines,
         DeriveTracked(g) \/ Born(g) \/ Share(g) \/ Run(g) \/ Ran(g) \/ Unlock(g)
  PROVE  IInv'
<1>1. CASE DeriveTracked(g)
  BY <1>1, DeriveTrackedKeeps
<1>2. CASE Born(g)
  BY <1>2, BornKeeps
<1>3. CASE Share(g)
  BY <1>3, ShareKeeps
<1>4. CASE Run(g)
  BY <1>4, RunKeeps
<1>5. CASE Ran(g)
  BY <1>5, RanKeeps
<1>6. CASE Unlock(g)
  BY <1>6, UnlockKeeps
<1> QED
  BY <1>1, <1>2, <1>3, <1>4, <1>5, <1>6

\* Stuttering keeps the invariant.
LEMMA StutterKeeps ==
  ASSUME IInv, UNCHANGED vars
  PROVE  IInv'
<1>1. UNCHANGED <<node, comp, effect, batch, stack, panics>>
  BY DEF vars
<1>2. Types'
  BY <1>1, IInvFacts DEF Types, NodeShape, CompShape, EffectShape, BatchShape, StackShape, CallsOK
<1>3. StacksNested'
  BY <1>1, IInvFacts DEF StacksNested
<1>4. CallsFit'
  BY <1>1 DEF IInv, CallsFit, CallFits, Mu
<1>5. \A c \in Derived : ValueOK(c)'
  BY <1>1, IInvFacts DEF ValueOK, OneFrame, Fresh, Quiet, Unsubscribed, Unborn
<1>6. \A e \in Effects : EffectOK(e)'
  BY <1>1, IInvFacts DEF EffectOK
<1>7. \A who \in Derived \cup Effects : Balanced(who)'
  BY <1>1, IInvFacts DEF Balanced, Kept, SourcesOf, Actors
<1> QED
  BY <1>2, <1>3, <1>4, <1>5, <1>6, <1>7 DEF IInv

\* Every step keeps the invariant.
LEMMA NextKeeps == IInv /\ [Next]_vars => IInv'
<1> SUFFICES ASSUME IInv, [Next]_vars PROVE IInv'
  OBVIOUS
<1>1. CASE UNCHANGED vars
  BY <1>1, StutterKeeps
<1>2. ASSUME NEW g \in Goroutines, Operation(g) PROVE IInv'
  BY <1>2, OperationKeeps
<1>3. ASSUME NEW g \in Goroutines, Step(g) PROVE IInv'
  BY <1>3, NotificationKeeps, RefreshKeeps, RunsKeep DEF Step
<1>4. ASSUME NEW g \in Goroutines, Panic(g) PROVE IInv'
  BY <1>4, PanicKeeps
<1> QED
  BY <1>1, <1>2, <1>3, <1>4 DEF Next

\* The inductive invariant: calls, stacks, flags and subscriptions stay in step in
\* every state, whatever operations, refreshes, runs, stops and panics overlap.
THEOREM SignalInductive == Spec => []IInv
<1>1. Init => IInv
  BY InitIInv
<1>2. IInv /\ [Next]_vars => IInv'
  BY NextKeeps
<1> QED
  BY <1>1, <1>2, PTL DEF Spec

-----------------------------------------------------------------------------
(* What follows from the inductive invariant.                               *)

\* At rest nothing is left of any call but the ends of the open Batches.
LEMMA RestTotals ==
  ASSUME IInv, AtRest, NEW t, t # Ending
  PROVE  Total(stack, t) = 0
<1>1. AllSeqs(stack)
  BY IInvFacts DEF StackShape, AllSeqs
<1>2. ASSUME NEW h \in Goroutines, NEW i \in DOMAIN stack[h] PROVE Tag(stack[h][i]) = Ending
  <2>1. ~Idle(h)
    BY <1>2, ShortSeqs DEF Idle
  <2>2. Top(h).op = "endBatch"
    BY <2>1 DEF AtRest, At
  <2>3. stack[h][i].op = "endBatch"
    BY <1>2, <2>1, <2>2, IInvFacts, TopFacts
  <2> QED
    BY <2>3, TagIs
<1> QED
  BY <1>1, <1>2, TotalPlaces

\* What a value or an effect keeps is a sequence.
LEMMA KeptSeq ==
  ASSUME IInv, NEW who \in Actors
  PROVE  IsSeq(Kept(who)) /\ \A n : Count(Kept(who), n) \in Nat
<1>1. IsSeq(Kept(who))
  <2>1. CASE who \in Derived
    <3>1. comp[who].deps \in Seq(Dependency)
      BY <2>1, IInvFacts DEF CompShape, CompRecord
    <3> QED
      BY <2>1, <3>1, SourcesFacts DEF Kept, IsSeq
  <2>2. CASE who \notin Derived
    <3>1. effect[who].unsubs \in Seq(Nodes)
      BY <2>2, IInvFacts DEF EffectShape, EffectRecord, Actors
    <3> QED
      BY <2>2, <3>1 DEF Kept, IsSeq
  <2> QED
    BY <2>1, <2>2
<1> QED
  BY <1>1, CountFacts

\* Once every call has returned, no edit is left: a node's subscribers are exactly
\* those that keep it.
LEMMA RestBalance ==
  ASSUME IInv, AtRest, NEW who \in Actors, NEW n \in Nodes
  PROVE  /\ Count(node[n].subs, who) = Count(Kept(who), n) /\ IsSeq(node[n].subs)
         /\ who \in Range(node[n].subs) <=> n \in Range(Kept(who))
<1>1. Total(stack, On(n, who)) = 0 /\ Total(stack, Off(n, who)) = 0
  <2>1. On(n, who) # Ending /\ Off(n, who) # Ending
    BY DEF On, Off, Ending
  <2> QED
    BY <2>1, RestTotals
<1>2. Count(node[n].subs, who) + 0 = Count(Kept(who), n) + 0
  BY <1>1, IInvFacts DEF Balanced
<1>3. IsSeq(node[n].subs)
  BY IInvFacts DEF NodeShape, IsSeq
<1>4. Count(node[n].subs, who) \in Nat /\ (Count(node[n].subs, who) = 0 <=> who \notin Range(node[n].subs))
  BY <1>3, CountFacts
<1>5. IsSeq(Kept(who)) /\ Count(Kept(who), n) \in Nat
  BY KeptSeq
<1>6. Count(Kept(who), n) = 0 <=> n \notin Range(Kept(who))
  BY <1>5, CountFacts
<1> QED
  BY <1>2, <1>3, <1>4, <1>5, <1>6

\* Nothing is in an empty sequence.
LEMMA NothingIn == ASSUME NEW q, q = <<>>, NEW x PROVE x \notin Range(q)
BY ShortSeqs DEF Range

\* The invariant implies the type invariant.
LEMMA TypesHold == IInv => TypeOK
<1> SUFFICES ASSUME IInv PROVE TypeOK
  OBVIOUS
<1>1. ASSUME NEW n \in Nodes
      PROVE  node[n].rev \in Nat /\ Range(node[n].subs) \subseteq Derived \cup Effects \cup Watchers
  <2>1. node[n].rev \in Nat /\ node[n].subs \in Seq(Subscribers)
    BY IInvFacts DEF NodeShape
  <2> QED
    BY <2>1, LenProperties, ElementOfSeq DEF Range, Subscribers
<1>2. ASSUME NEW c \in Derived
      PROVE  /\ {comp[c].dirty, comp[c].refreshing, comp[c].stopped} \subseteq BOOLEAN
             /\ comp[c].mu \in Goroutines \cup {None}
             /\ Range(SourcesOf(comp[c].deps)) \subseteq Nodes
  <2>1. comp[c] \in CompRecord
    BY IInvFacts DEF CompShape
  <2>2. SourcesOf(comp[c].deps) \in Seq(Nodes)
    BY <2>1, SourcesFacts DEF CompRecord
  <2>3. Range(SourcesOf(comp[c].deps)) \subseteq Nodes
    BY <2>2, LenProperties, ElementOfSeq DEF Range
  <2> QED
    BY <2>1, <2>3 DEF CompRecord
<1>3. ASSUME NEW e \in Effects
      PROVE  effect[e].dead \in BOOLEAN /\ Range(effect[e].unsubs) \subseteq Nodes
  <2>1. effect[e].dead \in BOOLEAN /\ effect[e].unsubs \in Seq(Nodes)
    BY IInvFacts DEF EffectShape, EffectRecord
  <2> QED
    BY <2>1, LenProperties, ElementOfSeq DEF Range
<1>4. batch.depth = Cardinality(OpenBatches)
  <2>1. ASSUME NEW g PROVE TagPlaces(stack[g], Ending) = {j \in DOMAIN stack[g] : stack[g][j].op = "endBatch"}
    BY TagIs, TagSays DEF TagPlaces
  <2>2. OpenBatches = Places(stack, Ending)
    BY <2>1 DEF OpenBatches, Places
  <2> QED
    BY <2>2, IInvFacts DEF BatchShape, Total
<1> QED
  BY <1>1, <1>2, <1>3, <1>4 DEF TypeOK

\* What is stopped or disposed keeps nothing, so it is subscribed to nothing
\* (Computed.Stop, Effect.Dispose).
LEMMA StoppedHold == IInv => StoppedHoldNothing
<1> SUFFICES ASSUME IInv, AtRest, NEW n \in Nodes, NEW i \in DOMAIN node[n].subs,
                    NEW who, who = node[n].subs[i]
             PROVE  /\ who \in Derived => ~comp[who].stopped
                    /\ who \in Effects => ~effect[who].dead
  BY DEF StoppedHoldNothing
<1>1. who \in Range(node[n].subs)
  BY DEF Range
<1>2. ASSUME who \in Derived, comp[who].stopped PROVE FALSE
  <2>1. PICK q : q = Kept(who)
    OBVIOUS
  <2>2. comp[who].deps = <<>>
    BY <1>2, IInvFacts DEF ValueOK
  <2>3. PICK nil : nil = <<>>
    OBVIOUS
  <2>4. nil \in Seq(Dependency) /\ Len(nil) = 0
    BY <2>3
  <2>5. Kept(who) = SourcesOf(nil)
    BY <1>2, <2>2, <2>3 DEF Kept
  <2>6. IsSeq(q) /\ Len(q) = 0
    BY <2>1, <2>4, <2>5, SourcesFacts DEF IsSeq
  <2>7. n \notin Range(q)
    BY <2>6, SeqFacts, NothingIn
  <2> QED
    BY <1>1, <1>2, <2>1, <2>7, RestBalance DEF Actors
<1>3. ASSUME who \in Effects, effect[who].dead PROVE FALSE
  <2>1. effect[who].unsubs = <<>> /\ Kept(who) = effect[who].unsubs /\ who \in Actors
    BY <1>3, EffectFacts DEF EffectOK
  <2>2. n \notin Range(Kept(who))
    BY <2>1, NothingIn
  <2> QED
    BY <1>1, <2>1, <2>2, RestBalance
<1> QED
  BY <1>2, <1>3

\* A live effect keeps what its last run read, so it is subscribed to it (Effect.run).
LEMMA EffectsSubscribed == IInv => EffectsStaySubscribed
<1> SUFFICES ASSUME IInv, AtRest, panics = 0, NEW e \in Effects, ~effect[e].dead,
                    NEW n \in Range(effect[e].read)
             PROVE  e \in Range(node[n].subs)
  BY DEF EffectsStaySubscribed
<1>1. effect[e] \in EffectRecord /\ EffectOK(e) /\ Kept(e) = effect[e].unsubs /\ e \in Actors
  BY EffectFacts
<1>2. n \in Nodes
  <2>1. effect[e].read \in Seq(Nodes)
    BY <1>1 DEF EffectRecord
  <2> QED
    BY <2>1, LenProperties, ElementOfSeq DEF Range
<1>3. Total(stack, Frame(e)) = 0
  <2>1. Frame(e) # Ending
    BY DEF Frame, Ending
  <2> QED
    BY <2>1, RestTotals
<1>4. n \in Range(Kept(e))
  BY <1>1, <1>3 DEF EffectOK
<1> QED
  BY <1>1, <1>2, <1>4, RestBalance

-----------------------------------------------------------------------------
(* What makes up for a source that was published.                          *)

\* Calls by which staleness spreads.
Spreads == {"invalidate", "invalidateSubscribers"}

\* In a stack, only calls that spread staleness come before one that makes a
\* value dirty, and a commit is made as soon as it is decided.
Ordered(s) ==
    /\ \A i \in DOMAIN s : s[i].op = "invalidate"
         => \A j \in DOMAIN s : j < i => s[j].op \in Spreads
    /\ \A i \in DOMAIN s : s[i].op = "commit" => i = 1

CheckOK(call) ==
    call.op \in {"check", "compare"}
      => IsSeq(call.args.deps) /\ (call.op = "compare" => call.args.deps # <<>>)

\* A call after which c is dirty, or was computed or checked again against its
\* dependency d.
Renews(call, c, d) ==
    /\ call.at = c
    /\ \/ call.op \in {"invalidate", "track", "take", "recheck", "born"}
       \/ /\ call.op \in {"check", "compare"}
          /\ call.args.changed \/ d \in Range(call.args.deps)

Renewed(c, d) ==
    \E h \in Goroutines : \E i \in DOMAIN stack[h] : Renews(stack[h][i], c, d)

\* A clean value has seen the present revision of each dependency, or a call is
\* still to be made that will find out.
FreshValue(c) ==
    ~comp[c].stopped /\ ~comp[c].dirty
      => \A i \in DOMAIN comp[c].deps :
           LET d == comp[c].deps[i] IN node[d.source].rev = d.rev \/ Renewed(c, d)

FreshInv ==
    /\ \A g \in Goroutines : Ordered(stack[g])
    /\ \A g \in Goroutines : \A i \in DOMAIN stack[g] : CheckOK(stack[g][i])
    /\ \A c \in Derived : FreshValue(c)

\* Calls put before others keep the order.
LEMMA OrderedCat ==
  ASSUME NEW a, NEW b, IsSeq(a), IsSeq(b), Ordered(a), Ordered(b),
         \A i \in DOMAIN b : b[i].op # "commit",
         \/ \A i \in DOMAIN a : a[i].op \in Spreads
         \/ \A i \in DOMAIN b : b[i].op # "invalidate"
  PROVE  Ordered(a \o b)
<1> DEFINE s == a \o b
           m == Len(a)
           n == Len(b)
<1>1. /\ m \in Nat /\ n \in Nat /\ DOMAIN a = 1..m /\ DOMAIN b = 1..n /\ DOMAIN s = 1..(m + n)
      /\ \A i \in 1..m : s[i] = a[i]
      /\ \A i \in 1..(m + n) : i \in 1..m \/ (i - m \in 1..n /\ s[i] = b[i - m])
  BY CatSeq
<1> HIDE DEF s, m, n
<1>2. ASSUME NEW i \in DOMAIN s, s[i].op = "invalidate", NEW j \in DOMAIN s, j < i
      PROVE  s[j].op \in Spreads
  <2>1. CASE i \in 1..m
    <3>1. j \in 1..m
      BY <1>1, <1>2, <2>1
    <3> QED
      BY <1>1, <1>2, <2>1, <3>1 DEF Ordered
  <2>2. CASE i \notin 1..m
    <3>1. i - m \in DOMAIN b /\ b[i - m].op = "invalidate"
      BY <1>1, <1>2, <2>2
    <3>2. CASE j \in 1..m
      BY <1>1, <3>1, <3>2
    <3>3. CASE j \notin 1..m
      <4>1. j - m \in DOMAIN b /\ s[j] = b[j - m] /\ j - m < i - m
        BY <1>1, <1>2, <3>1, <3>3
      <4> QED
        BY <3>1, <4>1 DEF Ordered
    <3> QED
      BY <3>2, <3>3
  <2> QED
    BY <2>1, <2>2
<1>3. ASSUME NEW i \in DOMAIN s, s[i].op = "commit" PROVE i = 1
  <2>1. i \in 1..m
    BY <1>1, <1>3
  <2> QED
    BY <1>1, <1>3, <2>1 DEF Ordered
<1> QED
  BY <1>2, <1>3 DEF Ordered, s

\* The order is kept when the top call returns, and below a call that does not
\* spread staleness nobody is made dirty.
LEMMA OrderedTail ==
  ASSUME NEW s, IsSeq(s), s # <<>>, Ordered(s)
  PROVE  /\ Ordered(Tail(s)) /\ \A i \in DOMAIN Tail(s) : Tail(s)[i].op # "commit"
         /\ Head(s).op \notin Spreads => \A i \in DOMAIN Tail(s) : Tail(s)[i].op # "invalidate"
<1> DEFINE q == Tail(s)
           n == Len(s) - 1
<1>1. /\ n \in Nat /\ DOMAIN s = 1..(n + 1) /\ DOMAIN q = 1..n /\ Head(s) = s[1]
      /\ \A i \in 1..n : q[i] = s[i + 1]
  BY TailSeq
<1> HIDE DEF q, n
<1>2. \A i \in DOMAIN q : i + 1 \in DOMAIN s /\ i + 1 # 1 /\ q[i] = s[i + 1] /\ 1 < i + 1 /\ 1 \in DOMAIN s
  BY <1>1
<1>3. ASSUME NEW i \in DOMAIN q, q[i].op = "invalidate", NEW j \in DOMAIN q, j < i
      PROVE  q[j].op \in Spreads
  <2>1. i + 1 \in DOMAIN s /\ j + 1 \in DOMAIN s /\ j + 1 < i + 1
    BY <1>1, <1>3
  <2> QED
    BY <1>1, <1>3, <2>1 DEF Ordered
<1>4. \A i \in DOMAIN q : q[i].op # "commit"
  BY <1>2 DEF Ordered
<1>5. Head(s).op \notin Spreads => \A i \in DOMAIN q : q[i].op # "invalidate"
  BY <1>1, <1>2 DEF Ordered
<1> QED
  BY <1>3, <1>4, <1>5 DEF Ordered, q

\* A step that puts calls on g's stack, after the call gone is taken off it.
Lands(g, gone, calls) ==
    /\ \A h \in Goroutines : h # g => stack'[h] = stack[h]
    /\ \A k : Has(calls, k) => Has(stack'[g], k)
    /\ \A k : Has(stack[g], k) => k = gone \/ Has(stack'[g], k)
    /\ \A k : Has(stack'[g], k) => Has(stack[g], k) \/ Has(calls, k)
    /\ Ordered(stack'[g])

\* What calls put on a rest of a stack hold.
LEMMA CatHas ==
  ASSUME NEW a, NEW b, IsSeq(a), IsSeq(b), NEW k
  PROVE  Has(a \o b, k) <=> Has(a, k) \/ Has(b, k)
<1> DEFINE s == a \o b
           m == Len(a)
           n == Len(b)
<1>1. /\ m \in Nat /\ n \in Nat /\ DOMAIN a = 1..m /\ DOMAIN b = 1..n /\ DOMAIN s = 1..(m + n)
      /\ \A i \in 1..m : s[i] = a[i]
      /\ \A i \in 1..n : s[i + m] = b[i]
      /\ \A i \in 1..(m + n) : i \in 1..m \/ (i - m \in 1..n /\ s[i] = b[i - m])
  BY CatSeq
<1> HIDE DEF s, m, n
<1>2. Has(s, k) => Has(a, k) \/ Has(b, k)
  BY <1>1 DEF Has
<1>3. \A i \in 1..m : i \in DOMAIN s
  BY <1>1
<1>4. \A i \in 1..n : i + m \in DOMAIN s
  BY <1>1
<1>5. Has(a, k) \/ Has(b, k) => Has(s, k)
  BY <1>1, <1>3, <1>4 DEF Has
<1> QED
  BY <1>2, <1>5 DEF s

\* What the tail of a sequence holds.
LEMMA TailHas ==
  ASSUME NEW s, IsSeq(s), s # <<>>, NEW k
  PROVE  /\ Has(Tail(s), k) => Has(s, k)
         /\ Has(s, k) => k = Head(s) \/ Has(Tail(s), k)
<1> DEFINE q == Tail(s)
           n == Len(s) - 1
<1>1. /\ n \in Nat /\ DOMAIN s = 1..(n + 1) /\ DOMAIN q = 1..n /\ Head(s) = s[1]
      /\ \A i \in 1..n : q[i] = s[i + 1]
  BY TailSeq
<1> HIDE DEF q, n
<1>2. \A i \in 1..n : i + 1 \in DOMAIN s
  BY <1>1
<1>3. \A i \in 1..(n + 1) : i = 1 \/ (i - 1 \in DOMAIN q /\ q[i - 1] = s[i])
  BY <1>1
<1>4. Has(q, k) => Has(s, k)
  BY <1>1, <1>2 DEF Has
<1>5. Has(s, k) => k = Head(s) \/ Has(q, k)
  BY <1>1, <1>3 DEF Has
<1> QED
  BY <1>4, <1>5 DEF q

\* The call on top is replaced.
LEMMA GoesLands ==
  ASSUME IInv, FreshInv, NEW g \in Goroutines, ~Idle(g), NEW calls, IsSeq(calls), Ordered(calls),
         \/ Top(g).op \notin Spreads
         \/ \A i \in DOMAIN calls : calls[i].op \in Spreads,
         Goes(g, calls)
  PROVE  Lands(g, Top(g), calls)
<1> DEFINE s == stack[g]
           rest == Tail(s)
           new == calls \o rest
<1>1. IsSeq(s) /\ s # <<>> /\ Top(g) = Head(s)
  BY IInvFacts, TopFacts DEF Top
<1>2. IsSeq(rest)
  BY <1>1, TailSeq
<1>3. stack = [h \in Goroutines |-> stack[h]] /\ stack' = [stack EXCEPT ![g] = new]
  BY IInvFacts DEF StackShape, Goes
<1>4. Ordered(s)
  BY DEF FreshInv
<1> HIDE DEF new, rest, s
<1>5. stack'[g] = new /\ \A h \in Goroutines : h # g => stack'[h] = stack[h]
  BY <1>3
<1>6. Ordered(new)
  <2>1. /\ Ordered(rest) /\ \A i \in DOMAIN rest : rest[i].op # "commit"
        /\ Head(s).op \notin Spreads => \A i \in DOMAIN rest : rest[i].op # "invalidate"
    BY <1>1, <1>4, OrderedTail DEF rest
  <2> QED
    BY <1>1, <1>2, <2>1, OrderedCat DEF new
<1>7. \A k : Has(new, k) <=> Has(calls, k) \/ Has(rest, k)
  BY <1>2, CatHas DEF new
<1>8. \A k : /\ Has(rest, k) => Has(s, k)
             /\ Has(s, k) => k = Top(g) \/ Has(rest, k)
  BY <1>1, TailHas DEF rest
<1> QED
  BY <1>5, <1>6, <1>7, <1>8 DEF Lands, s

\* An operation begins; no call returns.
LEMMA BeginsLands ==
  ASSUME IInv, FreshInv, NEW g \in Goroutines, NEW calls, IsSeq(calls), Ordered(calls),
         Begins(g, calls)
  PROVE  \A gone : Lands(g, gone, calls)
<1> DEFINE s == stack[g]
           new == calls \o s
<1>1. IsSeq(s)
  BY IInvFacts DEF StackShape
<1>2. \A i \in DOMAIN s : s[i].op = "endBatch"
  <2>1. CASE Idle(g)
    BY <2>1, ShortSeqs DEF Idle
  <2>2. CASE At(g, "endBatch")
    BY <2>2, IInvFacts, TopFacts DEF At
  <2> QED
    BY <2>1, <2>2 DEF Begins
<1>3. stack = [h \in Goroutines |-> stack[h]] /\ stack' = [stack EXCEPT ![g] = new]
  BY IInvFacts DEF StackShape, Begins
<1> HIDE DEF new, s
<1>4. stack'[g] = new /\ \A h \in Goroutines : h # g => stack'[h] = stack[h]
  BY <1>3
<1>5. Ordered(s)
  BY <1>2 DEF Ordered
<1>6. Ordered(new)
  BY <1>1, <1>2, <1>5, OrderedCat DEF new
<1>7. \A k : Has(new, k) <=> Has(calls, k) \/ Has(s, k)
  BY <1>1, CatHas DEF new
<1> QED
  BY <1>4, <1>6, <1>7 DEF Lands, s
RenewOps == {"invalidate", "track", "take", "recheck", "born", "check", "compare"}

\* What a step that takes gone off a stack and puts calls on it leaves of c is
\* dirty or stopped, or up to date, or is renewed by what is still to be made.
Spared(c, gone, calls) ==
    \/ comp'[c].stopped \/ comp'[c].dirty
    \/ \A i \in DOMAIN comp'[c].deps :
         LET d == comp'[c].deps[i] IN
         \/ node[d.source].rev = d.rev
         \/ \E k : Has(calls, k) /\ Renews(k, c, d)
         \/ /\ ~comp[c].stopped /\ ~comp[c].dirty
            /\ i \in DOMAIN comp[c].deps /\ comp[c].deps[i] = d /\ ~Renews(gone, c, d)

Checks(calls) == \A i \in DOMAIN calls : CheckOK(calls[i])

SameRevs == \A n \in Nodes : node'[n].rev = node[n].rev

\* A value's dependencies are on nodes.
LEMMA DepNodes ==
  ASSUME NEW deps \in Seq(Dependency), NEW i \in DOMAIN deps
  PROVE  deps[i] \in Dependency /\ deps[i].source \in Nodes /\ deps[i].rev \in Nat
<1>1. deps[i] \in Dependency
  BY LenProperties, ElementOfSeq
<1> QED
  BY <1>1 DEF Dependency

\* Something that renews is still there, unless it is the call that returned.
LEMMA RenewedStays ==
  ASSUME NEW g \in Goroutines, NEW gone, NEW calls, Lands(g, gone, calls), NEW c, NEW d,
         \/ Renewed(c, d) /\ ~Renews(gone, c, d)
         \/ \E k : Has(calls, k) /\ Renews(k, c, d)
  PROVE  Renewed(c, d)'
<1>1. ASSUME NEW h \in Goroutines, NEW k, Has(stack'[h], k), Renews(k, c, d) PROVE Renewed(c, d)'
  BY <1>1 DEF Renewed, Has
<1>2. CASE Renewed(c, d) /\ ~Renews(gone, c, d)
  <2>0. PICK h \in Goroutines : \E k : Has(stack[h], k) /\ Renews(k, c, d)
    BY <1>2 DEF Renewed, Has
  <2>1. PICK k : Has(stack[h], k) /\ Renews(k, c, d)
    BY <2>0
  <2>2. Has(stack'[h], k)
    BY <1>2, <2>1 DEF Lands
  <2> QED
    BY <1>1, <2>1, <2>2
<1>3. CASE \E k : Has(calls, k) /\ Renews(k, c, d)
  BY <1>1, <1>3 DEF Lands
<1> QED
  BY <1>2, <1>3

\* The order of the stacks and the form of the checks after a step.
LEMMA OrderKept ==
  ASSUME FreshInv, NEW g \in Goroutines, NEW gone, NEW calls, Lands(g, gone, calls), Checks(calls)
  PROVE  /\ \A h \in Goroutines : Ordered(stack'[h])
         /\ \A h \in Goroutines : \A i \in DOMAIN stack'[h] : CheckOK(stack'[h][i])
<1>1. \A h \in Goroutines : Ordered(stack'[h])
  BY DEF Lands, FreshInv
<1>2. ASSUME NEW h \in Goroutines, NEW k, Has(stack'[h], k) PROVE CheckOK(k)
  <2>1. Has(stack[h], k) \/ Has(calls, k)
    BY <1>2 DEF Lands
  <2> QED
    BY <2>1 DEF FreshInv, Has, Checks
<1> QED
  BY <1>1, <1>2 DEF Has

\* A step that publishes nothing and spares every derived value.
LEMMA FreshStep ==
  ASSUME FreshInv, CompShape', NEW g \in Goroutines, NEW gone, NEW calls,
         Lands(g, gone, calls), Checks(calls), SameRevs,
         \A c \in Derived : Spared(c, gone, calls)
  PROVE  FreshInv'
<1>1. ASSUME NEW c \in Derived, ~comp'[c].stopped, ~comp'[c].dirty,
             NEW i \in DOMAIN comp'[c].deps, NEW d, d = comp'[c].deps[i]
      PROVE  node'[d.source].rev = d.rev \/ Renewed(c, d)'
  <2>1. d.source \in Nodes
    <3>1. comp'[c].deps \in Seq(Dependency)
      BY DEF CompShape, CompRecord
    <3> QED
      BY <1>1, <3>1, DepNodes
  <2>2. CASE node[d.source].rev = d.rev
    BY <2>1, <2>2 DEF SameRevs
  <2>3. CASE \E k : Has(calls, k) /\ Renews(k, c, d)
    BY <2>3, RenewedStays
  <2>4. CASE /\ ~comp[c].stopped /\ ~comp[c].dirty
             /\ i \in DOMAIN comp[c].deps /\ comp[c].deps[i] = d /\ ~Renews(gone, c, d)
    <3>1. node[d.source].rev = d.rev \/ Renewed(c, d)
      BY <2>4 DEF FreshInv, FreshValue
    <3> QED
      BY <2>2, <2>4, <3>1, RenewedStays
  <2> QED
    BY <1>1, <2>2, <2>3, <2>4 DEF Spared
<1>2. \A c \in Derived : FreshValue(c)'
  BY <1>1 DEF FreshValue
<1> QED
  BY <1>2, OrderKept DEF FreshInv

\* The step leaves what matters of c alone.
Steady(c) ==
    comp'[c].deps = comp[c].deps /\ comp'[c].stopped = comp[c].stopped /\ comp'[c].dirty = comp[c].dirty

\* A value left alone is spared by a call that returns, if what that call would
\* have found out is known or is found out by the calls that replace it.
LEMMA SteadySpared ==
  ASSUME NEW c, Steady(c), NEW gone, NEW calls,
         \A d : Renews(gone, c, d)
           => node[d.source].rev = d.rev \/ \E k : Has(calls, k) /\ Renews(k, c, d)
  PROVE  Spared(c, gone, calls)
BY DEF Steady, Spared

\* A call that renews nothing.
LEMMA RenewsNot ==
  ASSUME NEW k, NEW c \in Derived, k.op \notin RenewOps \/ k.at # c, NEW d
  PROVE  ~Renews(k, c, d)
BY DEF Renews, RenewOps

\* Calls that neither invalidate nor commit, nor compare dependencies.
Tame(calls) ==
    IsSeq(calls) /\ \A i \in DOMAIN calls : calls[i].op \notin {"invalidate", "commit", "check", "compare"}

\* Tame calls are in order, and check nothing.
LEMMA TameFacts ==
  ASSUME NEW calls, Tame(calls)
  PROVE  IsSeq(calls) /\ Ordered(calls) /\ Checks(calls)
BY DEF Tame, Ordered, Checks, CheckOK

\* A step that publishes and renews nothing, and makes at most some value dirty
\* or stopped.
LEMMA TameGoes ==
  ASSUME IInv, FreshInv, CompShape', NEW g \in Goroutines, ~Idle(g),
         Top(g).op \notin RenewOps \/ Top(g).at \notin Derived, Top(g).op \notin Spreads,
         NEW calls, Tame(calls), Goes(g, calls), SameRevs,
         \A c \in Derived : Steady(c) \/ comp'[c].stopped \/ comp'[c].dirty
  PROVE  FreshInv'
<1>1. Lands(g, Top(g), calls) /\ Checks(calls)
  BY TameFacts, GoesLands
<1>2. ASSUME NEW c \in Derived PROVE Spared(c, Top(g), calls)
  <2>1. \A d : ~Renews(Top(g), c, d)
    BY RenewsNot
  <2> QED
    BY <2>1, SteadySpared DEF Spared
<1> QED
  BY <1>1, <1>2, FreshStep

\* An operation that publishes nothing begins.
LEMMA TameBegins ==
  ASSUME IInv, FreshInv, CompShape', NEW g \in Goroutines,
         NEW calls, Tame(calls), Begins(g, calls), SameRevs,
         \A c \in Derived : Steady(c) \/ comp'[c].stopped \/ comp'[c].dirty
  PROVE  FreshInv'
<1>1. PICK gone : gone = Call("endSet", None, <<>>)
  OBVIOUS
<1>2. Lands(g, gone, calls) /\ Checks(calls)
  BY TameFacts, BeginsLands
<1>3. gone.op \notin RenewOps
  BY <1>1, CallIs DEF RenewOps
<1>4. ASSUME NEW c \in Derived PROVE Spared(c, gone, calls)
  <2>1. \A d : ~Renews(gone, c, d)
    BY <1>3, RenewsNot
  <2> QED
    BY <2>1, SteadySpared DEF Spared
<1> QED
  BY <1>2, <1>4, FreshStep

\* One tame call, by itself.
LEMMA TameOne ==
  ASSUME NEW call, call.op \notin {"invalidate", "commit", "check", "compare"}
  PROVE  Tame(<<call>>) /\ Has(<<call>>, call)
<1>1. PICK q : q = <<call>>
  OBVIOUS
<1>2. IsSeq(q) /\ DOMAIN q = 1..1 /\ q[1] = call
  BY <1>1, ShortSeqs
<1>3. Tame(q) /\ Has(q, call)
  BY <1>2 DEF Tame, Has
<1> QED
  BY <1>1, <1>3

\* No call at all is tame.
LEMMA TameNil == Tame(<<>>)
BY ShortSeqs DEF Tame

\* Tame calls after tame calls.
LEMMA TameCat ==
  ASSUME NEW a, NEW b, Tame(a), Tame(b)
  PROVE  Tame(a \o b) /\ \A k : Has(a \o b, k) <=> Has(a, k) \/ Has(b, k)
<1>1. IsSeq(a) /\ IsSeq(b)
  BY DEF Tame
<1>2. PICK s : s = a \o b
  OBVIOUS
<1>3. IsSeq(s) /\ \A k : Has(s, k) <=> Has(a, k) \/ Has(b, k)
  BY <1>1, <1>2, CatSeq, CatHas
<1>4. Tame(s)
  <2> SUFFICES ASSUME NEW i \in DOMAIN s PROVE s[i].op \notin {"invalidate", "commit", "check", "compare"}
    BY <1>3 DEF Tame
  <2>1. Has(a, s[i]) \/ Has(b, s[i])
    BY <1>3 DEF Has
  <2> QED
    BY <2>1 DEF Has, Tame
<1> QED
  BY <1>2, <1>3, <1>4

\* One more tame call.
LEMMA TameAppend ==
  ASSUME NEW a, Tame(a), NEW call, call.op \notin {"invalidate", "commit", "check", "compare"}
  PROVE  /\ Tame(Append(a, call))
         /\ \A k : Has(Append(a, call), k) <=> Has(a, k) \/ k = call
<1>1. PICK q : q = <<call>>
  OBVIOUS
<1>2. Append(a, call) = a \o q
  BY <1>1, AppendIsConcat DEF Tame, IsSeq
<1>3. Tame(q) /\ \A k : Has(q, k) <=> k = call
  BY <1>1, TameOne, ShortSeqs DEF Has
<1> QED
  BY <1>2, <1>3, TameCat

\* A tame call for each of several nodes.
LEMMA TameCalls ==
  ASSUME NEW op, op \notin {"invalidate", "commit", "check", "compare"}, NEW at, IsSeq(at), NEW args
  PROVE  Tame(Calls(op, at, args))
BY CallsFacts DEF Tame

\* A cached read is tame.
LEMMA TameRefresh == \A n : Tame(Refresh(n))
<1> TAKE n
<1>1. PICK q : q = Refresh(n)
  OBVIOUS
<1>2. IsSeq(q) /\ \A i \in DOMAIN q : q[i].op = "refresh"
  BY <1>1, RefreshFacts DEF Plain, Block
<1>3. Tame(q)
  BY <1>2 DEF Tame
<1> QED
  BY <1>1, <1>3

\* Calling subscribers invalidates nothing (batchNotify).
LEMMA TameCallsOf ==
  ASSUME NEW subs, IsSeq(subs)
  PROVE  Tame(CallsOf(subs))
<1>1. Len(subs) \in Nat
  BY SeqFacts
<1> DEFINE q == CallsOf(subs)
<1>2. q = [i \in 1..Len(subs) |-> CallOf(subs[i])]
  BY DEF CallsOf
<1>3. q \in Seq({CallOf(subs[i]) : i \in 1..Len(subs)})
  BY <1>1, <1>2
<1>4. DOMAIN q = 1..Len(subs) /\ \A i \in 1..Len(subs) : q[i] = CallOf(subs[i])
  BY <1>2
<1> HIDE DEF q
<1>5. \A who : CallOf(who).op \in {"onDepChange", "run", "callback"}
  BY DEF CallOf, Call
<1>6. IsSeq(q)
  BY <1>3 DEF IsSeq
<1>7. Tame(q)
  <2>1. \A i \in DOMAIN q : q[i].op \in {"onDepChange", "run", "callback"}
    BY <1>4, <1>5
  <2> QED
    BY <1>6, <2>1 DEF Tame
<1> QED
  BY <1>7 DEF q
-----------------------------------------------------------------------------
(* Steps that publish and renew nothing.                                   *)

\* What is the same in a step that leaves nodes or derived values alone.
LEMMA NothingPublished ==
  /\ node' = node => SameRevs
  /\ comp' = comp => \A c \in Derived : Steady(c)
BY DEF SameRevs, Steady

\* Editing subscriptions publishes nothing.
LEMMA SubsEdited ==
  ASSUME NodeShape, NEW n \in Nodes, NEW q, node' = [node EXCEPT ![n].subs = q]
  PROVE  SameRevs
<1>1. DOMAIN node = Nodes
  BY DEF NodeShape
<1>2. node[n] = [value |-> node[n].value, rev |-> node[n].rev, subs |-> node[n].subs]
  BY DEF NodeShape
<1>3. node' = [node EXCEPT ![n] = [node[n] EXCEPT !.subs = q]]
  OBVIOUS
<1>4. \A m \in Nodes : m # n => node'[m] = node[m]
  BY <1>1, <1>3
<1>5. node'[n] = [node[n] EXCEPT !.subs = q]
  BY <1>1, <1>3
<1>6. node'[n].rev = node[n].rev
  BY <1>2, <1>5
<1> QED
  BY <1>4, <1>6 DEF SameRevs

\* What changes in one derived value leaves the others alone.
LEMMA CompSteady ==
  ASSUME CompShape, NEW c \in Derived, NEW r, comp' = [comp EXCEPT ![c] = r]
  PROVE  /\ comp'[c] = r /\ \A d \in Derived : d # c => Steady(d)
         /\ r.deps = comp[c].deps /\ r.stopped = comp[c].stopped /\ r.dirty = comp[c].dirty
              => \A d \in Derived : Steady(d)
<1>1. comp'[c] = r /\ \A d \in Derived : d # c => comp'[d] = comp[d]
  BY CompSet
<1> QED
  BY <1>1 DEF Steady

\* Get (Computed.Get) leaves what is renewed alone.
LEMMA GetFresh ==
  ASSUME IInv, FreshInv, CompShape', NEW g \in Goroutines, NEW c \in Derived, Get(g, c)
  PROVE  FreshInv'
<1>1. Begins(g, Refresh(c)) /\ UNCHANGED <<node, comp>>
  BY DEF Get
<1> QED
  BY <1>1, TameRefresh, TameBegins, NothingPublished

\* Batch up to its function does too.
LEMMA BatchFresh ==
  ASSUME IInv, FreshInv, CompShape', NEW g \in Goroutines, Batch(g)
  PROVE  FreshInv'
<1>1. PICK call : call = Call("endBatch", None, <<>>)
  OBVIOUS
<1>2. PICK calls : calls = <<call>>
  OBVIOUS
<1>3. Begins(g, calls) /\ UNCHANGED <<node, comp>>
  BY <1>1, <1>2 DEF Batch
<1>4. Tame(calls)
  BY <1>1, <1>2, CallIs, TameOne
<1> QED
  BY <1>3, <1>4, TameBegins, NothingPublished

\* Derive (Derive, up to the call of the function).
LEMMA DeriveFresh ==
  ASSUME IInv, FreshInv, CompShape', NEW g \in Goroutines, NEW c \in Derived, Derive(g, c)
  PROVE  FreshInv'
<1>1. PICK call : call = Call("track", c, <<>>)
  OBVIOUS
<1>2. PICK calls : calls = <<call>>
  OBVIOUS
<1>3. Begins(g, calls) /\ node' = node /\ comp' = [comp EXCEPT ![c].stage = "deriving"]
  BY <1>1, <1>2 DEF Derive
<1>4. Tame(calls)
  BY <1>1, <1>2, CallIs, TameOne
<1> DEFINE r == [comp[c] EXCEPT !.stage = "deriving"]
<1>5. comp[c] \in CompRecord /\ CompShape /\ comp' = [comp EXCEPT ![c] = r]
  BY <1>3, ValueFacts, IInvFacts
<1>6. r.deps = comp[c].deps /\ r.stopped = comp[c].stopped /\ r.dirty = comp[c].dirty
  BY <1>5 DEF CompRecord
<1> HIDE DEF r
<1>7. \A d \in Derived : Steady(d)
  BY <1>5, <1>6, CompSteady
<1> QED
  BY <1>3, <1>4, <1>7, TameBegins, NothingPublished

\* Stop (Computed.Stop).
LEMMA StopFresh ==
  ASSUME IInv, FreshInv, CompShape', NEW g \in Goroutines, NEW c \in Derived, Stop(g, c)
  PROVE  FreshInv'
<1>1. PICK deps : deps = comp[c].deps
  OBVIOUS
<1>2. comp[c] \in CompRecord /\ CompShape /\ IsSeq(deps)
  BY <1>1, ValueFacts, IInvFacts DEF CompRecord, IsSeq
<1>3. PICK calls : calls = [i \in DOMAIN deps |-> Call("off", deps[i].source, c)]
  OBVIOUS
<1>4. /\ Begins(g, calls) /\ node' = node
      /\ comp' = [comp EXCEPT ![c].stopped = TRUE, ![c].deps = <<>>]
  BY <1>1, <1>3 DEF Stop
<1>5. Tame(calls)
  <2>1. Len(deps) \in Nat /\ DOMAIN deps = 1..Len(deps)
    BY <1>2, SeqFacts
  <2>2. calls \in Seq({Call("off", deps[i].source, c) : i \in DOMAIN deps})
    BY <1>3, <2>1
  <2>3. \A i \in DOMAIN calls : calls[i].op = "off"
    BY <1>3, CallIs
  <2> QED
    BY <2>2, <2>3 DEF Tame, IsSeq
<1> DEFINE r == [comp[c] EXCEPT !.stopped = TRUE, !.deps = <<>>]
<1>6. comp' = [comp EXCEPT ![c] = r] /\ r.stopped = TRUE
  <2>1. comp \in [Derived -> CompRecord]
    BY <1>2 DEF CompShape
  <2>2. comp' = [comp EXCEPT ![c] = r]
    BY <1>4, <2>1
  <2> QED
    BY <1>2, <2>2 DEF CompRecord
<1> HIDE DEF r
<1>7. comp'[c].stopped = TRUE /\ \A d \in Derived : d # c => Steady(d)
  BY <1>2, <1>6, CompSteady
<1>8. \A d \in Derived : Steady(d) \/ comp'[d].stopped \/ comp'[d].dirty
  BY <1>7
<1> QED
  BY <1>4, <1>5, <1>8, TameBegins, NothingPublished

\* Dispose (Effect.Dispose).
LEMMA DisposeFresh ==
  ASSUME IInv, FreshInv, CompShape', NEW g \in Goroutines, NEW e \in Effects, Dispose(g, e)
  PROVE  FreshInv'
<1>1. PICK calls : calls = Calls("off", effect[e].unsubs, e)
  OBVIOUS
<1>2. Begins(g, calls) /\ UNCHANGED <<node, comp>>
  BY <1>1 DEF Dispose
<1>3. Tame(calls)
  <2>1. IsSeq(effect[e].unsubs)
    BY IInvFacts DEF EffectShape, EffectRecord, IsSeq
  <2> QED
    BY <1>1, <2>1, TameCalls
<1> QED
  BY <1>2, <1>3, TameBegins, NothingPublished

\* BatchNotify, EndBatch, EndSet, Wake, Callback and Look change no derived value
\* and publish nothing.
LEMMA DeliveryFresh ==
  ASSUME IInv, FreshInv, CompShape', NEW g \in Goroutines,
         BatchNotify(g) \/ EndBatch(g) \/ EndSet(g) \/ Wake(g) \/ Callback(g) \/ Look(g)
  PROVE  FreshInv'
<1>1. PICK nil : nil = <<>>
  OBVIOUS
<1>2. Tame(nil)
  BY <1>1, TameNil
<1>3. ~Idle(g) /\ UNCHANGED <<node, comp>>
        /\ Top(g).op \in {"batchNotify", "endBatch", "endSet", "wake", "callback", "look"}
  BY DEF BatchNotify, EndBatch, EndSet, Wake, Callback, Look, At
<1>4. Top(g).op \notin RenewOps /\ Top(g).op \notin Spreads /\ CallOK(Top(g))
  BY <1>3, IInvFacts, TopFacts DEF RenewOps, Spreads
<1>5. \E calls : Tame(calls) /\ Goes(g, calls)
  <2>1. CASE BatchNotify(g)
    <3>1. IsSeq(Top(g).args)
      BY <1>4, <2>1 DEF BatchNotify, At, CallOK, IsSeq
    <3>2. Goes(g, nil) \/ Goes(g, CallsOf(Top(g).args))
      BY <1>1, <2>1 DEF BatchNotify
    <3> QED
      BY <1>2, <3>1, <3>2, TameCallsOf
  <2>2. CASE EndBatch(g)
    <3>1. IsSeq(batch.queue)
      BY IInvFacts DEF BatchShape, IsSeq
    <3>2. Goes(g, nil) \/ Goes(g, CallsOf(batch.queue))
      BY <1>1, <2>2 DEF EndBatch
    <3> QED
      BY <1>2, <3>1, <3>2, TameCallsOf
  <2>3. CASE EndSet(g) \/ Look(g)
    BY <1>1, <1>2, <2>3 DEF EndSet, Look
  <2>4. CASE Wake(g)
    <3>1. Goes(g, nil) \/ Goes(g, Refresh(Top(g).at))
      BY <1>1, <2>4 DEF Wake
    <3> QED
      BY <1>2, <3>1, TameRefresh
  <2>5. CASE Callback(g)
    <3>1. PICK call : call = Call("look", Top(g).at, <<>>)
      OBVIOUS
    <3>2. Goes(g, Refresh(WatchedBy(Top(g).at)) \o <<call>>)
      BY <2>5, <3>1 DEF Callback
    <3>3. Tame(<<call>>)
      BY <3>1, CallIs, TameOne
    <3> QED
      BY <3>2, <3>3, TameRefresh, TameCat
  <2> QED
    BY <2>1, <2>2, <2>3, <2>4, <2>5
<1> QED
  BY <1>3, <1>4, <1>5, TameGoes, NothingPublished

\* Unsubscribe and Subscribe change the subscribers of one node.
LEMMA EditFresh ==
  ASSUME IInv, FreshInv, CompShape', NEW g \in Goroutines, Unsubscribe(g) \/ Subscribe(g)
  PROVE  FreshInv'
<1>1. PICK nil : nil = <<>>
  OBVIOUS
<1>2. ~Idle(g) /\ comp' = comp /\ Top(g).op \in {"on", "off"} /\ Goes(g, nil)
  BY <1>1 DEF Unsubscribe, Subscribe, At
<1>3. Top(g).op \notin RenewOps /\ Top(g).op \notin Spreads /\ CallOK(Top(g)) /\ Tame(nil)
  BY <1>1, <1>2, IInvFacts, TopFacts, TameNil DEF RenewOps, Spreads
<1>4. Top(g).at \in Nodes
  BY <1>2, <1>3 DEF CallOK
<1>5. \E q : node' = [node EXCEPT ![Top(g).at].subs = q]
  <2>1. CASE Unsubscribe(g)
    BY <2>1 DEF Unsubscribe
  <2>2. CASE Subscribe(g)
    BY <2>2 DEF Subscribe
  <2> QED
    BY <2>1, <2>2
<1>6. SameRevs
  BY <1>4, <1>5, IInvFacts, SubsEdited
<1> QED
  BY <1>2, <1>3, <1>6, TameGoes, NothingPublished

\* OnDepChange (Computed.onDepChange) makes a value dirty at most.
LEMMA OnDepChangeFresh ==
  ASSUME IInv, FreshInv, CompShape', NEW g \in Goroutines, OnDepChange(g)
  PROVE  FreshInv'
<1>1. PICK c : c = Top(g).at
  OBVIOUS
<1>2. ~Idle(g) /\ Top(g).op = "onDepChange" /\ node' = node
  BY DEF OnDepChange, At
<1>3. Top(g).op \notin RenewOps /\ Top(g).op \notin Spreads
  BY <1>2 DEF RenewOps, Spreads
<1>4. c \in Derived
  BY <1>1, <1>2, TopFits DEF CallOK
<1>5. CASE comp[c].stopped
  <2>1. Goes(g, <<>>) /\ comp' = comp
    BY <1>1, <1>5 DEF OnDepChange
  <2> QED
    BY <1>2, <1>3, <2>1, TameNil, TameGoes, NothingPublished
<1>6. CASE ~comp[c].stopped
  <2>1. PICK call : call = Call("wake", c, <<>>)
    OBVIOUS
  <2>2. comp' = [comp EXCEPT ![c].dirty = TRUE] /\ Goes(g, <<call>>)
    BY <1>1, <1>6, <2>1 DEF OnDepChange
  <2>3. Tame(<<call>>)
    BY <2>1, CallIs, TameOne
  <2> DEFINE r == [comp[c] EXCEPT !.dirty = TRUE]
  <2>4. comp[c] \in CompRecord /\ CompShape /\ comp' = [comp EXCEPT ![c] = r]
    BY <1>4, <2>2, ValueFacts, IInvFacts
  <2>5. r.dirty = TRUE
    BY <2>4 DEF CompRecord
  <2> HIDE DEF r
  <2>6. comp'[c].dirty = TRUE /\ \A d \in Derived : d # c => Steady(d)
    BY <1>4, <2>4, <2>5, CompSteady
  <2>7. \A d \in Derived : Steady(d) \/ comp'[d].stopped \/ comp'[d].dirty
    BY <2>6
  <2> QED
    BY <1>2, <1>3, <2>2, <2>3, <2>7, TameGoes, NothingPublished
<1> QED
  BY <1>5, <1>6

\* BeginRefresh (Computed.refresh, its first section).
LEMMA BeginRefreshFresh ==
  ASSUME IInv, FreshInv, CompShape', NEW g \in Goroutines, BeginRefresh(g)
  PROVE  FreshInv'
<1>1. PICK c : c = Top(g).at
  OBVIOUS
<1>2. ~Idle(g) /\ Top(g).op = "refresh" /\ node' = node
  BY DEF BeginRefresh, At
<1>3. Top(g).op \notin RenewOps /\ Top(g).op \notin Spreads
  BY <1>2 DEF RenewOps, Spreads
<1>4. c \in Derived
  BY <1>1, <1>2, TopFits DEF CallOK
<1>5. CASE comp[c].stopped \/ ~comp[c].dirty \/ comp[c].refreshing
  <2>1. Goes(g, <<>>) /\ comp' = comp
    BY <1>1, <1>5 DEF BeginRefresh
  <2> QED
    BY <1>2, <1>3, <2>1, TameNil, TameGoes, NothingPublished
<1>6. CASE ~(comp[c].stopped \/ ~comp[c].dirty \/ comp[c].refreshing)
  <2>1. PICK call : call = Call("loop", c, <<>>)
    OBVIOUS
  <2>2. comp' = [comp EXCEPT ![c].refreshing = TRUE] /\ Goes(g, <<call>>)
    BY <1>1, <1>6, <2>1 DEF BeginRefresh
  <2>3. Tame(<<call>>)
    BY <2>1, CallIs, TameOne
  <2> DEFINE r == [comp[c] EXCEPT !.refreshing = TRUE]
  <2>4. comp[c] \in CompRecord /\ CompShape /\ comp' = [comp EXCEPT ![c] = r]
    BY <1>4, <2>2, ValueFacts, IInvFacts
  <2>5. r.deps = comp[c].deps /\ r.stopped = comp[c].stopped /\ r.dirty = comp[c].dirty
    BY <2>4 DEF CompRecord
  <2> HIDE DEF r
  <2>6. \A d \in Derived : Steady(d)
    BY <1>4, <2>4, <2>5, CompSteady
  <2> QED
    BY <1>2, <1>3, <2>2, <2>3, <2>6, TameGoes, NothingPublished
<1> QED
  BY <1>5, <1>6

\* Share (the application gets a new value).
LEMMA ShareFresh ==
  ASSUME IInv, FreshInv, CompShape', NEW g \in Goroutines, Share(g)
  PROVE  FreshInv'
<1>1. PICK c : c = Top(g).at
  OBVIOUS
<1>2. PICK ws : ws = SetToSeq({w \in Watchers : WatchedBy(w) = c})
  OBVIOUS
<1>3. PICK ons : ons = [i \in DOMAIN ws |-> Call("on", c, ws[i])]
  OBVIOUS
<1>4. /\ ~Idle(g) /\ Top(g).op = "share" /\ node' = node
      /\ comp' = [comp EXCEPT ![c].stage = "live"] /\ Goes(g, ons \o CallsOf(ws))
  BY <1>1, <1>2, <1>3 DEF Share, At
<1>5. Top(g).op \notin RenewOps /\ Top(g).op \notin Spreads /\ c \in Derived
  BY <1>1, <1>4, TopFits DEF RenewOps, Spreads, CallOK
<1>6. IsSeq(ws)
  BY <1>2, SetToSeqFacts, SignalAssumption, FS_Subset DEF IsSeq
<1>7. Tame(ons)
  <2>1. Len(ws) \in Nat /\ DOMAIN ws = 1..Len(ws)
    BY <1>6, SeqFacts
  <2>2. ons \in Seq({Call("on", c, ws[i]) : i \in DOMAIN ws})
    BY <1>3, <2>1
  <2>3. \A i \in DOMAIN ons : ons[i].op = "on"
    BY <1>3, CallIs
  <2> QED
    BY <2>2, <2>3 DEF Tame, IsSeq
<1>8. Tame(ons \o CallsOf(ws))
  BY <1>6, <1>7, TameCallsOf, TameCat
<1> DEFINE r == [comp[c] EXCEPT !.stage = "live"]
<1>9. comp[c] \in CompRecord /\ CompShape /\ comp' = [comp EXCEPT ![c] = r]
  BY <1>4, <1>5, ValueFacts, IInvFacts
<1>10. r.deps = comp[c].deps /\ r.stopped = comp[c].stopped /\ r.dirty = comp[c].dirty
  BY <1>9 DEF CompRecord
<1> HIDE DEF r
<1>11. \A d \in Derived : Steady(d)
  BY <1>5, <1>9, <1>10, CompSteady
<1> QED
  BY <1>4, <1>5, <1>8, <1>11, TameGoes, NothingPublished

\* Run, Ran and Unlock (Effect.run) change no derived value.
LEMMA RunFresh ==
  ASSUME IInv, FreshInv, CompShape', NEW g \in Goroutines, Run(g) \/ Ran(g) \/ Unlock(g)
  PROVE  FreshInv'
<1>1. PICK nil : nil = <<>>
  OBVIOUS
<1>2. Tame(nil)
  BY <1>1, TameNil
<1>3. PICK e : e = Top(g).at
  OBVIOUS
<1>4. ~Idle(g) /\ UNCHANGED <<node, comp>> /\ e \in Effects
        /\ Top(g).op \in {"run", "track", "unlock"}
  <2>1. CASE Run(g) \/ Unlock(g)
    <3>1. ~Idle(g) /\ UNCHANGED <<node, comp>> /\ Top(g).op \in {"run", "unlock"}
      BY <2>1 DEF Run, Unlock, At
    <3> QED
      BY <1>3, <3>1, TopFits DEF CallOK
  <2>2. CASE Ran(g)
    BY <1>3, <2>2 DEF Ran, Tracked, At
  <2> QED
    BY <2>1, <2>2
<1>5. Top(g).at \notin Derived /\ Top(g).op \notin Spreads
  BY <1>3, <1>4, SignalAssumption DEF Spreads
<1>6. \E calls : Tame(calls) /\ Goes(g, calls)
  <2>1. CASE Run(g)
    <3>1. PICK call : call = Call("track", e, <<>>)
      OBVIOUS
    <3>2. Goes(g, nil) \/ Goes(g, Append(Calls("off", effect[e].unsubs, e), call))
      BY <1>1, <1>3, <2>1, <3>1 DEF Run
    <3>3. IsSeq(effect[e].unsubs)
      BY <1>4, IInvFacts DEF EffectShape, EffectRecord, IsSeq
    <3>4. Tame(Calls("off", effect[e].unsubs, e))
      BY <3>3, TameCalls
    <3>5. call.op = "track"
      BY <3>1, CallIs
    <3> QED
      BY <1>2, <3>2, <3>4, <3>5, TameAppend
  <2>2. CASE Ran(g)
    <3>1. PICK call : call = Call("unlock", e, <<>>)
      OBVIOUS
    <3>2. PICK read : read = SourcesOf(Deps(Top(g).args))
      OBVIOUS
    <3>3. Goes(g, nil) \/ Goes(g, Append(Calls("on", read, e), call))
      BY <1>1, <1>3, <2>2, <3>1, <3>2 DEF Ran
    <3>4. IsSeq(read)
      BY <2>2, <3>2, TrackedFacts DEF Ran, IsSeq
    <3>5. Tame(Calls("on", read, e))
      BY <3>4, TameCalls
    <3>6. call.op = "unlock"
      BY <3>1, CallIs
    <3> QED
      BY <1>2, <3>3, <3>5, <3>6, TameAppend
  <2>3. CASE Unlock(g)
    BY <1>1, <1>2, <2>3 DEF Unlock
  <2> QED
    BY <2>1, <2>2, <2>3
<1> QED
  BY <1>4, <1>5, <1>6, TameGoes, NothingPublished
-----------------------------------------------------------------------------
(* Steps that invalidate, check and evaluate.                              *)

\* The call on top returns, and leaves the other values alone.
LEMMA TurnFresh ==
  ASSUME IInv, FreshInv, CompShape', NEW g \in Goroutines, ~Idle(g), NEW calls,
         IsSeq(calls), Ordered(calls), Checks(calls),
         \/ Top(g).op \notin Spreads
         \/ \A i \in DOMAIN calls : calls[i].op \in Spreads,
         Goes(g, calls), SameRevs,
         \A c \in Derived : c # Top(g).at => Steady(c),
         Top(g).at \in Derived => Spared(Top(g).at, Top(g), calls)
  PROVE  FreshInv'
<1>1. Lands(g, Top(g), calls)
  BY GoesLands
<1>2. ASSUME NEW c \in Derived PROVE Spared(c, Top(g), calls)
  <2>1. CASE c = Top(g).at
    BY <2>1
  <2>2. CASE c # Top(g).at
    <3>1. \A d : ~Renews(Top(g), c, d)
      BY <2>2, RenewsNot
    <3> QED
      BY <2>2, <3>1, SteadySpared
  <2> QED
    BY <2>1, <2>2
<1> QED
  BY <1>1, <1>2, FreshStep

\* The call on top goes on as another one that renews no less.
LEMMA PassFresh ==
  ASSUME IInv, FreshInv, CompShape', NEW g \in Goroutines, ~Idle(g), NEW calls,
         IsSeq(calls), Ordered(calls), Checks(calls), Top(g).op \notin Spreads,
         Goes(g, calls), UNCHANGED <<node, comp>>,
         \A d : Renews(Top(g), Top(g).at, d)
           => node[d.source].rev = d.rev \/ \E k : Has(calls, k) /\ Renews(k, Top(g).at, d)
  PROVE  FreshInv'
<1>1. SameRevs /\ \A c : Steady(c)
  BY DEF SameRevs, Steady
<1>2. Spared(Top(g).at, Top(g), calls)
  BY <1>1, SteadySpared
<1> QED
  BY <1>1, <1>2, TurnFresh

\* One call.
LEMMA OneOrdered ==
  ASSUME NEW call, CheckOK(call)
  PROVE  /\ IsSeq(<<call>>) /\ Ordered(<<call>>) /\ Checks(<<call>>) /\ Has(<<call>>, call)
         /\ call.op \in Spreads => \A i \in DOMAIN <<call>> : <<call>>[i].op \in Spreads
<1>1. PICK q : q = <<call>>
  OBVIOUS
<1>2. IsSeq(q) /\ DOMAIN q = 1..1 /\ q[1] = call
  BY <1>1, ShortSeqs
<1>3. \A i \in DOMAIN q : i = 1
  BY <1>2
<1>4. Ordered(q)
  BY <1>3 DEF Ordered
<1> QED
  BY <1>1, <1>2, <1>3, <1>4 DEF Checks, Has

\* A refresh, then one more call.
LEMMA AfterRefresh ==
  ASSUME NEW n, NEW call, CheckOK(call), call.op \notin {"invalidate", "commit"}
  PROVE  /\ IsSeq(Append(Refresh(n), call)) /\ Ordered(Append(Refresh(n), call))
         /\ Checks(Append(Refresh(n), call)) /\ Has(Append(Refresh(n), call), call)
<1>1. PICK a : a = Refresh(n)
  OBVIOUS
<1>2. PICK b : b = <<call>>
  OBVIOUS
<1>3. PICK s : s = a \o b
  OBVIOUS
<1>4. Tame(a) /\ IsSeq(a)
  BY <1>1, TameRefresh DEF Tame
<1>5. IsSeq(b) /\ \A k : Has(b, k) <=> k = call
  BY <1>2, ShortSeqs DEF Has
<1>6. Append(a, call) = s
  BY <1>2, <1>3, <1>4, AppendIsConcat DEF IsSeq
<1>7. IsSeq(s) /\ \A k : Has(s, k) <=> Has(a, k) \/ k = call
  BY <1>3, <1>4, <1>5, CatSeq, CatHas
<1>8. ASSUME NEW i \in DOMAIN s PROVE s[i].op \notin {"invalidate", "commit"} /\ CheckOK(s[i])
  <2>1. Has(a, s[i]) \/ s[i] = call
    BY <1>7 DEF Has
  <2> QED
    BY <1>4, <2>1 DEF Has, Tame, CheckOK
<1>9. Ordered(s) /\ Checks(s)
  BY <1>8 DEF Ordered, Checks
<1> QED
  BY <1>1, <1>6, <1>7, <1>9

\* Invalidate (Computed.invalidate) leaves the value dirty or stopped.
LEMMA InvalidateFresh ==
  ASSUME IInv, FreshInv, CompShape', NEW g \in Goroutines, Invalidate(g)
  PROVE  FreshInv'
<1>1. PICK c : c = Top(g).at
  OBVIOUS
<1>2. ~Idle(g) /\ Top(g).op = "invalidate" /\ node' = node /\ SameRevs
  BY DEF Invalidate, At, SameRevs
<1>3. c \in Derived
  BY <1>1, <1>2, TopFits DEF CallOK
<1>4. comp[c] \in CompRecord /\ CompShape
  BY <1>3, ValueFacts, IInvFacts
<1>5. CASE comp[c].stopped \/ comp[c].dirty
  <2>1. PICK nil : nil = <<>>
    OBVIOUS
  <2>2. Goes(g, nil) /\ comp' = comp
    BY <1>1, <1>5, <2>1 DEF Invalidate
  <2>3. Tame(nil) /\ \A i \in DOMAIN nil : nil[i].op \in Spreads
    BY <2>1, TameNil, ShortSeqs
  <2>4. Spared(c, Top(g), nil) /\ \A d : Steady(d)
    BY <1>5, <2>2 DEF Spared, Steady
  <2> QED
    BY <1>1, <1>2, <2>2, <2>3, <2>4, TameFacts, TurnFresh
<1>6. CASE ~(comp[c].stopped \/ comp[c].dirty)
  <2>1. PICK call : call = Call("invalidateSubscribers", c, <<>>)
    OBVIOUS
  <2>2. PICK calls : calls = <<call>>
    OBVIOUS
  <2>3. comp' = [comp EXCEPT ![c].dirty = TRUE] /\ Goes(g, calls)
    BY <1>1, <1>6, <2>1, <2>2 DEF Invalidate
  <2>4. call.op = "invalidateSubscribers"
    BY <2>1, CallIs
  <2>5. IsSeq(calls) /\ Ordered(calls) /\ Checks(calls) /\ \A i \in DOMAIN calls : calls[i].op \in Spreads
    BY <2>2, <2>4, OneOrdered DEF CheckOK, Spreads
  <2> DEFINE r == [comp[c] EXCEPT !.dirty = TRUE]
  <2>6. comp' = [comp EXCEPT ![c] = r] /\ r.dirty = TRUE
    BY <1>4, <2>3 DEF CompRecord
  <2> HIDE DEF r
  <2>7. comp'[c].dirty = TRUE /\ \A d \in Derived : d # c => Steady(d)
    BY <1>3, <1>4, <2>6, CompSteady
  <2>8. Spared(c, Top(g), calls)
    BY <2>7 DEF Spared
  <2> QED
    BY <1>1, <1>2, <2>3, <2>5, <2>7, <2>8, TurnFresh
<1> QED
  BY <1>5, <1>6

\* Invalidators are called in any order, and before whatever they lead to.
LEMMA InvalidatorsOrdered ==
  ASSUME NEW subs \in Seq(Subscribers)
  PROVE  LET calls == Calls("invalidate", Computeds(subs), <<>>)
         IN /\ IsSeq(calls) /\ Ordered(calls) /\ Checks(calls)
            /\ \A i \in DOMAIN calls : calls[i].op = "invalidate"
<1>1. PICK at : at = Computeds(subs)
  OBVIOUS
<1>2. IsSeq(at)
  BY <1>1, ComputedsFacts DEF IsSeq
<1>3. PICK calls : calls = Calls("invalidate", at, <<>>)
  OBVIOUS
<1>4. IsSeq(calls) /\ \A i \in DOMAIN calls : calls[i].op = "invalidate"
  BY <1>2, <1>3, CallsFacts
<1>5. Ordered(calls) /\ Checks(calls)
  BY <1>4 DEF Ordered, Checks, CheckOK, Spreads
<1> QED
  BY <1>1, <1>3, <1>4, <1>5

\* InvalidateSubscribers (Signal.invalidateSubscribers) passes staleness on.
LEMMA InvalidateSubscribersFresh ==
  ASSUME IInv, FreshInv, CompShape', NEW g \in Goroutines, InvalidateSubscribers(g)
  PROVE  FreshInv'
<1>1. PICK c : c = Top(g).at
  OBVIOUS
<1>2. PICK calls : calls = Calls("invalidate", Computeds(node[c].subs), <<>>)
  OBVIOUS
<1>3. /\ ~Idle(g) /\ Top(g).op = "invalidateSubscribers" /\ UNCHANGED <<node, comp>>
      /\ Goes(g, calls) /\ SameRevs /\ \A d : Steady(d)
  BY <1>1, <1>2 DEF InvalidateSubscribers, At, SameRevs, Steady
<1>4. c \in Derived /\ node[c].subs \in Seq(Subscribers)
  BY <1>1, <1>3, TopFits, IInvFacts DEF CallOK, NodeShape, Nodes
<1>5. IsSeq(calls) /\ Ordered(calls) /\ Checks(calls) /\ \A i \in DOMAIN calls : calls[i].op \in Spreads
  BY <1>2, <1>4, InvalidatorsOrdered DEF Spreads
<1>6. \A d : ~Renews(Top(g), c, d)
  BY <1>3 DEF Renews
<1>7. Spared(c, Top(g), calls)
  BY <1>3, <1>6, SteadySpared
<1> QED
  BY <1>1, <1>3, <1>5, <1>7, TurnFresh

\* Loop (Computed.refresh, the head of its loop) clears a flag before it checks.
LEMMA LoopFresh ==
  ASSUME IInv, FreshInv, CompShape', NEW g \in Goroutines, Loop(g)
  PROVE  FreshInv'
<1>1. PICK c : c = Top(g).at
  OBVIOUS
<1>2. ~Idle(g) /\ Top(g).op = "loop" /\ node' = node /\ SameRevs
  BY DEF Loop, At, SameRevs
<1>3. c \in Derived /\ Top(g).op \notin RenewOps /\ Top(g).op \notin Spreads
  BY <1>1, <1>2, TopFits DEF CallOK, RenewOps, Spreads
<1>4. comp[c] \in CompRecord /\ CompShape
  BY <1>3, ValueFacts, IInvFacts
<1>5. CASE comp[c].stopped \/ ~comp[c].dirty
  <2>1. comp' = [comp EXCEPT ![c].refreshing = FALSE] /\ Goes(g, <<>>)
    BY <1>1, <1>5 DEF Loop
  <2> DEFINE r == [comp[c] EXCEPT !.refreshing = FALSE]
  <2>2. comp' = [comp EXCEPT ![c] = r]
    BY <2>1
  <2>3. r.deps = comp[c].deps /\ r.stopped = comp[c].stopped /\ r.dirty = comp[c].dirty
    BY <1>4 DEF CompRecord
  <2> HIDE DEF r
  <2>4. \A d \in Derived : Steady(d)
    BY <1>3, <1>4, <2>2, <2>3, CompSteady
  <2> QED
    BY <1>2, <1>3, <2>1, <2>4, TameNil, TameGoes
<1>6. CASE ~(comp[c].stopped \/ ~comp[c].dirty)
  <2>1. PICK args : args = [deps |-> comp[c].deps, changed |-> FALSE]
    OBVIOUS
  <2>2. PICK call : call = Call("check", c, args)
    OBVIOUS
  <2>3. PICK calls : calls = <<call>>
    OBVIOUS
  <2>4. comp' = [comp EXCEPT ![c].dirty = FALSE] /\ Goes(g, calls)
    BY <1>1, <1>6, <2>1, <2>2, <2>3 DEF Loop
  <2>5. call.op = "check" /\ call.at = c /\ call.args.deps = comp[c].deps
    BY <2>1, <2>2, CallIs
  <2>6. IsSeq(comp[c].deps)
    BY <1>4 DEF CompRecord, IsSeq
  <2>7. IsSeq(calls) /\ Ordered(calls) /\ Checks(calls) /\ Has(calls, call)
    BY <2>3, <2>5, <2>6, OneOrdered DEF CheckOK
  <2> DEFINE r == [comp[c] EXCEPT !.dirty = FALSE]
  <2>8. comp' = [comp EXCEPT ![c] = r] /\ r.deps = comp[c].deps
    BY <1>4, <2>4 DEF CompRecord
  <2> HIDE DEF r
  <2>9. comp'[c].deps = comp[c].deps /\ \A d \in Derived : d # c => Steady(d)
    BY <1>3, <1>4, <2>8, CompSteady
  <2>10. \A i \in DOMAIN comp'[c].deps : Renews(call, c, comp'[c].deps[i])
    BY <2>5, <2>9 DEF Renews, Range
  <2>11. Spared(c, Top(g), calls)
    BY <2>7, <2>10 DEF Spared
  <2> QED
    BY <1>1, <1>2, <1>3, <2>4, <2>7, <2>9, <2>11, TurnFresh
<1> QED
  BY <1>5, <1>6

\* Comparing the first dependency leaves the others to check, and notes a change.
LEMMA ComparedFacts ==
  ASSUME NEW args, IsSeq(args.deps), args.deps # <<>>
  PROVE  /\ IsSeq(Compared(args).deps)
         /\ \A d : args.changed \/ d \in Range(args.deps)
              => \/ node[d.source].rev = d.rev
                 \/ Compared(args).changed \/ d \in Range(Compared(args).deps)
<1>1. /\ Compared(args).deps = Tail(args.deps)
      /\ Compared(args).changed
           <=> (args.changed \/ node[Head(args.deps).source].rev # Head(args.deps).rev)
  BY DEF Compared
<1>2. IsSeq(Tail(args.deps))
  BY TailSeq
<1>3. ASSUME NEW d, d \in Range(args.deps)
      PROVE  d = Head(args.deps) \/ d \in Range(Tail(args.deps))
  <2>1. Has(args.deps, d)
    BY <1>3 DEF Range, Has
  <2>2. d = Head(args.deps) \/ Has(Tail(args.deps), d)
    BY <2>1, TailHas
  <2> QED
    BY <2>2 DEF Range, Has
<1> QED
  BY <1>1, <1>2, <1>3

\* Check and Compare (Computed.refresh, its first look) leave unfinished what they
\* have not looked at.
LEMMA CheckFresh ==
  ASSUME IInv, FreshInv, CompShape', NEW g \in Goroutines, Check(g) \/ Compare(g)
  PROVE  FreshInv'
<1>1. PICK c : c = Top(g).at
  OBVIOUS
<1>2. PICK args : args = Top(g).args
  OBVIOUS
<1>3. ~Idle(g) /\ Top(g).op \in {"check", "compare"} /\ UNCHANGED <<node, comp>>
  BY DEF Check, Compare, At
<1>4. Top(g).op \notin Spreads
  BY <1>3 DEF Spreads
<1>5. CheckOK(Top(g))
  BY <1>3, TopFits DEF FreshInv, Has
<1>6. IsSeq(args.deps) /\ (Top(g).op = "compare" => args.deps # <<>>)
  BY <1>2, <1>3, <1>5 DEF CheckOK
<1>7. \A d : Renews(Top(g), c, d) => args.changed \/ d \in Range(args.deps)
  BY <1>2, <1>3 DEF Renews
<1>8. CASE args.deps # <<>> /\ Goes(g, <<Call("check", c, Compared(args))>>)
  <2>1. PICK call : call = Call("check", c, Compared(args))
    OBVIOUS
  <2>2. PICK calls : calls = <<call>>
    OBVIOUS
  <2>3. call.op = "check" /\ call.at = c /\ call.args = Compared(args)
    BY <2>1, CallIs
  <2>4. /\ IsSeq(Compared(args).deps)
        /\ \A d : args.changed \/ d \in Range(args.deps)
             => \/ node[d.source].rev = d.rev
                \/ Compared(args).changed \/ d \in Range(Compared(args).deps)
    BY <1>6, <1>8, ComparedFacts
  <2>5. IsSeq(calls) /\ Ordered(calls) /\ Checks(calls) /\ Has(calls, call)
    BY <2>2, <2>3, <2>4, OneOrdered DEF CheckOK
  <2>6. \A d : Renews(Top(g), c, d) => node[d.source].rev = d.rev \/ Renews(call, c, d)
    BY <1>7, <2>3, <2>4 DEF Renews
  <2>7. Goes(g, calls)
    BY <1>8, <2>1, <2>2
  <2> QED
    BY <1>1, <1>3, <1>4, <2>5, <2>6, <2>7, PassFresh
<1>9. CASE Check(g) /\ args.deps = <<>>
  <2>1. PICK op : op = IF args.changed THEN "track" ELSE "loop"
    OBVIOUS
  <2>2. PICK call : call = Call(op, c, <<>>)
    OBVIOUS
  <2>3. PICK calls : calls = <<call>>
    OBVIOUS
  <2>4. Goes(g, calls)
    BY <1>1, <1>2, <1>9, <2>1, <2>2, <2>3 DEF Check
  <2>5. call.op = op /\ call.at = c /\ op \in {"track", "loop"}
    BY <2>1, <2>2, CallIs
  <2>6. IsSeq(calls) /\ Ordered(calls) /\ Checks(calls) /\ Has(calls, call)
    BY <2>3, <2>5, OneOrdered DEF CheckOK
  <2>7. \A d : d \notin Range(args.deps)
    BY <1>9, NothingIn
  <2>8. \A d : Renews(Top(g), c, d) => Renews(call, c, d)
    BY <1>7, <2>1, <2>5, <2>7 DEF Renews
  <2> QED
    BY <1>1, <1>3, <1>4, <2>4, <2>6, <2>8, PassFresh
<1>10. CASE Check(g) /\ args.deps # <<>> /\ Head(args.deps).source \in Derived
  <2>1. PICK call : call = Call("compare", c, args)
    OBVIOUS
  <2>2. PICK calls : calls = Append(Refresh(Head(args.deps).source), call)
    OBVIOUS
  <2>3. Goes(g, calls)
    BY <1>1, <1>2, <1>10, <2>1, <2>2 DEF Check
  <2>4. call.op = "compare" /\ call.at = c /\ call.args = args
    BY <2>1, CallIs
  <2>5. IsSeq(calls) /\ Ordered(calls) /\ Checks(calls) /\ Has(calls, call)
    BY <1>6, <1>10, <2>2, <2>4, AfterRefresh DEF CheckOK
  <2>6. \A d : Renews(Top(g), c, d) => Renews(call, c, d)
    BY <1>7, <2>4 DEF Renews
  <2> QED
    BY <1>1, <1>3, <1>4, <2>3, <2>5, <2>6, PassFresh
<1>11. CASE Check(g)
  BY <1>1, <1>2, <1>8, <1>9, <1>10, <1>11 DEF Check
<1>12. CASE Compare(g)
  BY <1>1, <1>2, <1>6, <1>8, <1>12 DEF Compare, At
<1> QED
  BY <1>11, <1>12

\* Track and Take (trackDependencies): the function is still running.
LEMMA TrackFresh ==
  ASSUME IInv, FreshInv, CompShape', NEW g \in Goroutines, Track(g) \/ Take(g)
  PROVE  FreshInv'
<1>1. PICK c : c = Top(g).at
  OBVIOUS
<1>2. ~Idle(g) /\ Top(g).op \in {"track", "take"} /\ UNCHANGED <<node, comp>>
  BY DEF Track, Take, At
<1>3. Top(g).op \notin Spreads
  BY <1>2 DEF Spreads
<1>4. ASSUME NEW call, call.op \in {"track", "take"}, call.at = c, NEW calls, Goes(g, calls),
             IsSeq(calls), Ordered(calls), Checks(calls), Has(calls, call)
      PROVE  FreshInv'
  <2>1. \A d : Renews(call, c, d)
    BY <1>4 DEF Renews
  <2> QED
    BY <1>1, <1>2, <1>3, <1>4, <2>1, PassFresh
<1>5. CASE Track(g)
  <2>1. PICK s : s = Source(c, Vals(Top(g).args))
    OBVIOUS
  <2>2. CASE s \in Derived
    <3>1. PICK call : call = Call("take", c, Top(g).args)
      OBVIOUS
    <3>2. PICK calls : calls = Append(Refresh(s), call)
      OBVIOUS
    <3>3. Goes(g, calls)
      BY <1>1, <1>5, <2>1, <2>2, <3>1, <3>2 DEF Track
    <3>4. call.op = "take" /\ call.at = c /\ CheckOK(call)
      BY <3>1, CallIs DEF CheckOK
    <3>5. IsSeq(calls) /\ Ordered(calls) /\ Checks(calls) /\ Has(calls, call)
      BY <3>2, <3>4, AfterRefresh
    <3> QED
      BY <1>4, <3>3, <3>4, <3>5
  <2>3. CASE s \notin Derived
    <3>1. PICK call : call = Call("track", c, Append(Top(g).args, ReadOf(s)))
      OBVIOUS
    <3>2. PICK calls : calls = <<call>>
      OBVIOUS
    <3>3. Goes(g, calls)
      BY <1>1, <1>5, <2>1, <2>3, <3>1, <3>2 DEF Track
    <3>4. call.op = "track" /\ call.at = c /\ CheckOK(call)
      BY <3>1, CallIs DEF CheckOK
    <3>5. IsSeq(calls) /\ Ordered(calls) /\ Checks(calls) /\ Has(calls, call)
      BY <3>2, <3>4, OneOrdered
    <3> QED
      BY <1>4, <3>3, <3>4, <3>5
  <2> QED
    BY <2>2, <2>3
<1>6. CASE Take(g)
  <2>1. PICK call : call = Call("track", c, Append(Top(g).args, ReadOf(Source(c, Vals(Top(g).args)))))
    OBVIOUS
  <2>2. PICK calls : calls = <<call>>
    OBVIOUS
  <2>3. Goes(g, calls)
    BY <1>1, <1>6, <2>1, <2>2 DEF Take
  <2>4. call.op = "track" /\ call.at = c /\ CheckOK(call)
    BY <2>1, CallIs DEF CheckOK
  <2>5. IsSeq(calls) /\ Ordered(calls) /\ Checks(calls) /\ Has(calls, call)
    BY <2>2, <2>4, OneOrdered
  <2> QED
    BY <1>4, <2>3, <2>4, <2>5
<1> QED
  BY <1>5, <1>6
\* Settle (Computed.refresh, after the function has returned) keeps new dependencies
\* that the recheck will compare.
LEMMA SettleFresh ==
  ASSUME IInv, FreshInv, CompShape', NEW g \in Goroutines, Settle(g)
  PROVE  FreshInv'
<1>1. PICK c : c = Top(g).at
  OBVIOUS
<1>2. PICK deps : deps = Deps(Top(g).args)
  OBVIOUS
<1>3. /\ ~Idle(g) /\ Top(g).op = "track" /\ deps \in Seq(Dependency)
      /\ c \in Derived /\ node' = node /\ SameRevs
  BY <1>1, <1>2, TrackedFacts DEF Settle, SameRevs
<1>4. Top(g).op \notin Spreads
  BY <1>3 DEF Spreads
<1>5. comp[c] \in CompRecord /\ CompShape /\ comp \in [Derived -> CompRecord]
  BY <1>3, ValueFacts, IInvFacts DEF CompShape
<1>6. CASE comp[c].stopped
  <2>1. PICK nil : nil = <<>>
    OBVIOUS
  <2>2. comp' = [comp EXCEPT ![c].refreshing = FALSE] /\ Goes(g, nil)
    BY <1>1, <1>6, <2>1 DEF Settle
  <2> DEFINE r == [comp[c] EXCEPT !.refreshing = FALSE]
  <2>3. comp' = [comp EXCEPT ![c] = r] /\ r.stopped = comp[c].stopped
    BY <1>5, <2>2 DEF CompRecord
  <2> HIDE DEF r
  <2>4. comp'[c].stopped /\ \A d \in Derived : d # c => Steady(d)
    BY <1>3, <1>5, <1>6, <2>3, CompSteady
  <2>5. Spared(c, Top(g), nil) /\ Tame(nil)
    BY <2>1, <2>4, TameNil DEF Spared
  <2> QED
    BY <1>1, <1>3, <1>4, <2>2, <2>4, <2>5, TameFacts, TurnFresh
<1>7. CASE ~comp[c].stopped
  <2>1. PICK call : call = Call("recheck", c, Result(c, Vals(Top(g).args)))
    OBVIOUS
  <2>2. PICK a : a = Resubscribe(c, deps)
    OBVIOUS
  <2>3. PICK calls : calls = Append(a, call)
    OBVIOUS
  <2>4. comp' = [comp EXCEPT ![c].mu = g, ![c].deps = deps] /\ Goes(g, calls)
    BY <1>1, <1>2, <1>7, <2>1, <2>2, <2>3 DEF Settle
  <2>5. call.op = "recheck" /\ call.at = c
    BY <2>1, CallIs
  <2>6. Tame(a)
    <3>1. IsSeq(SourcesOf(comp[c].deps)) /\ IsSeq(SourcesOf(deps))
      BY <1>3, <1>5, SourcesFacts DEF CompRecord, IsSeq
    <3>2. Tame(Calls("off", SourcesOf(comp[c].deps), c)) /\ Tame(Calls("on", SourcesOf(deps), c))
      BY <3>1, TameCalls
    <3> QED
      BY <2>2, <3>2, TameNil, TameCat DEF Resubscribe
  <2>7. Tame(calls) /\ Has(calls, call)
    BY <2>3, <2>5, <2>6, TameAppend
  <2>8. \A d : Renews(call, c, d)
    BY <2>5 DEF Renews
  <2> DEFINE r == [comp[c] EXCEPT !.mu = g, !.deps = deps]
  <2>9. comp' = [comp EXCEPT ![c] = r]
    BY <1>3, <1>5, <2>4
  <2> HIDE DEF r
  <2>10. \A d \in Derived : d # c => Steady(d)
    BY <1>3, <1>5, <2>9, CompSteady
  <2>11. Spared(c, Top(g), calls)
    BY <2>7, <2>8 DEF Spared
  <2> QED
    BY <1>1, <1>3, <1>4, <2>4, <2>7, <2>10, <2>11, TameFacts, TurnFresh
<1> QED
  BY <1>6, <1>7

\* Recheck (Computed.refresh, its second look) finds what was published meanwhile.
LEMMA RecheckFresh ==
  ASSUME IInv, FreshInv, CompShape', NEW g \in Goroutines, Recheck(g)
  PROVE  FreshInv'
<1> DEFINE Same(c) == \A i \in DOMAIN comp[c].deps :
                        node[comp[c].deps[i].source].rev = comp[c].deps[i].rev
<1>1. PICK c : c = Top(g).at
  OBVIOUS
<1>2. ~Idle(g) /\ Top(g).op = "recheck" /\ node' = node /\ SameRevs
  BY DEF Recheck, At, SameRevs
<1>3. c \in Derived /\ Top(g).op \notin Spreads
  BY <1>1, <1>2, TopFits DEF CallOK, Spreads
<1>4. comp[c] \in CompRecord /\ CompShape /\ comp \in [Derived -> CompRecord]
  BY <1>3, ValueFacts, IInvFacts DEF CompShape
<1>5. CASE Same(c)
  <2>1. PICK call : call = Call("commit", c, Top(g).args)
    OBVIOUS
  <2>2. PICK calls : calls = <<call>>
    OBVIOUS
  <2>3. Goes(g, calls) /\ comp' = comp
    BY <1>1, <1>5, <2>1, <2>2 DEF Recheck
  <2>4. call.op = "commit"
    BY <2>1, CallIs
  <2>5. IsSeq(calls) /\ Ordered(calls) /\ Checks(calls)
    BY <2>2, <2>4, OneOrdered DEF CheckOK
  <2>6. Spared(c, Top(g), calls) /\ \A d : Steady(d)
    BY <1>5, <2>3 DEF Spared, Steady
  <2> QED
    BY <1>1, <1>2, <1>3, <2>3, <2>5, <2>6, TurnFresh
<1>6. CASE ~Same(c)
  <2>1. PICK call : call = Call("loop", c, <<>>)
    OBVIOUS
  <2>2. PICK calls : calls = <<call>>
    OBVIOUS
  <2>3. comp' = [comp EXCEPT ![c].dirty = TRUE, ![c].mu = None] /\ Goes(g, calls)
    BY <1>1, <1>6, <2>1, <2>2 DEF Recheck
  <2>4. Tame(calls)
    BY <2>1, <2>2, CallIs, TameOne
  <2> DEFINE r == [comp[c] EXCEPT !.dirty = TRUE, !.mu = None]
  <2>5. comp' = [comp EXCEPT ![c] = r] /\ r.dirty = TRUE
    BY <1>3, <1>4, <2>3 DEF CompRecord
  <2> HIDE DEF r
  <2>6. comp'[c].dirty = TRUE /\ \A d \in Derived : d # c => Steady(d)
    BY <1>3, <1>4, <2>5, CompSteady
  <2>7. Spared(c, Top(g), calls)
    BY <2>6 DEF Spared
  <2> QED
    BY <1>1, <1>2, <1>3, <2>3, <2>4, <2>6, <2>7, TameFacts, TurnFresh
<1> QED
  BY <1>5, <1>6

\* The value of a node is not its revision.
LEMMA ValueSet ==
  ASSUME NodeShape, NEW n \in Nodes, NEW v, node' = [node EXCEPT ![n].value = v]
  PROVE  SameRevs
<1>1. DOMAIN node = Nodes
  BY DEF NodeShape
<1>2. node[n] = [value |-> node[n].value, rev |-> node[n].rev, subs |-> node[n].subs]
  BY DEF NodeShape
<1>3. node'[n] = [node[n] EXCEPT !.value = v] /\ \A m \in Nodes : m # n => node'[m] = node[m]
  BY <1>1
<1>4. node'[n].rev = node[n].rev
  BY <1>2, <1>3
<1> QED
  BY <1>3, <1>4 DEF SameRevs

\* DeriveTracked (Derive, after the function has returned) subscribes before the
\* first refresh.
LEMMA DeriveTrackedFresh ==
  ASSUME IInv, FreshInv, CompShape', NEW g \in Goroutines, DeriveTracked(g)
  PROVE  FreshInv'
<1>1. PICK c : c = Top(g).at
  OBVIOUS
<1>2. PICK deps : deps = Deps(Top(g).args)
  OBVIOUS
<1>3. ~Idle(g) /\ Top(g).op = "track" /\ deps \in Seq(Dependency) /\ c \in Derived
  BY <1>1, <1>2, TrackedFacts DEF DeriveTracked
<1>4. Top(g).op \notin Spreads
  BY <1>3 DEF Spreads
<1>5. CompShape /\ comp \in [Derived -> CompRecord]
  BY <1>3, IInvFacts DEF CompShape
<1>6. PICK call : call = Call("born", c, <<>>)
  OBVIOUS
<1>7. PICK calls : calls = Append(Calls("on", SourcesOf(deps), c), call)
  OBVIOUS
<1>8. PICK v : v = Result(c, Vals(Top(g).args))
  OBVIOUS
<1>9. /\ node' = [node EXCEPT ![c].value = v]
      /\ comp' = [comp EXCEPT ![c].mu = g, ![c].deps = deps] /\ Goes(g, calls)
  BY <1>1, <1>2, <1>6, <1>7, <1>8 DEF DeriveTracked
<1>10. SameRevs
  BY <1>3, <1>9, IInvFacts, ValueSet DEF Nodes
<1>11. call.op = "born" /\ call.at = c
  BY <1>6, CallIs
<1>12. Tame(Calls("on", SourcesOf(deps), c))
  <2>1. IsSeq(SourcesOf(deps))
    BY <1>3, SourcesFacts DEF IsSeq
  <2> QED
    BY <2>1, TameCalls
<1>13. Tame(calls) /\ Has(calls, call)
  BY <1>7, <1>11, <1>12, TameAppend
<1>14. \A d : Renews(call, c, d)
  BY <1>11 DEF Renews
<1> DEFINE r == [comp[c] EXCEPT !.mu = g, !.deps = deps]
<1>15. comp' = [comp EXCEPT ![c] = r]
  BY <1>3, <1>5, <1>9
<1> HIDE DEF r
<1>16. \A d \in Derived : d # c => Steady(d)
  BY <1>3, <1>5, <1>15, CompSteady
<1>17. Spared(c, Top(g), calls)
  BY <1>13, <1>14 DEF Spared
<1> QED
  BY <1>1, <1>3, <1>4, <1>9, <1>10, <1>13, <1>16, <1>17, TameFacts, TurnFresh

\* Born (Derive, its first refresh) makes the new value dirty.
LEMMA BornFresh ==
  ASSUME IInv, FreshInv, CompShape', NEW g \in Goroutines, Born(g)
  PROVE  FreshInv'
<1>1. PICK c : c = Top(g).at
  OBVIOUS
<1>2. ~Idle(g) /\ Top(g).op = "born" /\ node' = node /\ SameRevs
  BY DEF Born, At, SameRevs
<1>3. c \in Derived /\ Top(g).op \notin Spreads
  BY <1>1, <1>2, TopFits DEF CallOK, Spreads
<1>4. comp[c] \in CompRecord /\ CompShape /\ comp \in [Derived -> CompRecord]
  BY <1>3, ValueFacts, IInvFacts DEF CompShape
<1>5. PICK call : call = Call("share", c, <<>>)
  OBVIOUS
<1>6. PICK calls : calls = Append(Refresh(c), call)
  OBVIOUS
<1>7. comp' = [comp EXCEPT ![c].dirty = TRUE, ![c].mu = None] /\ Goes(g, calls)
  BY <1>1, <1>5, <1>6 DEF Born
<1>8. Tame(calls)
  BY <1>5, <1>6, CallIs, TameRefresh, TameAppend
<1> DEFINE r == [comp[c] EXCEPT !.dirty = TRUE, !.mu = None]
<1>9. comp' = [comp EXCEPT ![c] = r] /\ r.dirty = TRUE
  BY <1>3, <1>4, <1>7 DEF CompRecord
<1> HIDE DEF r
<1>10. comp'[c].dirty = TRUE /\ \A d \in Derived : d # c => Steady(d)
  BY <1>3, <1>4, <1>9, CompSteady
<1>11. Spared(c, Top(g), calls)
  BY <1>10 DEF Spared
<1> QED
  BY <1>1, <1>2, <1>3, <1>7, <1>8, <1>10, <1>11, TameFacts, TurnFresh

-----------------------------------------------------------------------------
(* Steps that publish.                                                     *)

\* Whoever keeps a node and is not among its subscribers is still in the section
\* that subscribes it, and will look at its dependencies again.
LEMMA SubscribedOrRenewed ==
  ASSUME IInv, FreshInv, NEW c \in Derived, NEW i \in DOMAIN comp[c].deps,
         NEW n, n = comp[c].deps[i].source, c \notin Range(node[n].subs)
  PROVE  \E h \in Goroutines : \E k : Has(stack[h], k) /\ k.at = c /\ k.op \in {"recheck", "born"}
<1>1. comp[c].deps \in Seq(Dependency)
  BY ValueFacts DEF CompRecord
<1>2. n \in Nodes
  BY <1>1, DepNodes
<1>3. IsSeq(node[n].subs) /\ Count(node[n].subs, c) = 0
  <2>1. IsSeq(node[n].subs)
    BY <1>2, IInvFacts DEF NodeShape, IsSeq
  <2> QED
    BY <2>1, CountFacts
<1>4. PICK kept : kept = Kept(c)
  OBVIOUS
<1>5. n \in Range(kept)
  <2>1. Kept(c) = SourcesOf(comp[c].deps)
    BY DEF Kept
  <2>2. DOMAIN SourcesOf(comp[c].deps) = DOMAIN comp[c].deps
          /\ SourcesOf(comp[c].deps)[i] = n
    BY DEF SourcesOf
  <2> QED
    BY <1>4, <2>1, <2>2 DEF Range
<1>6. IsSeq(kept) /\ Count(kept, n) \in Nat /\ Count(kept, n) # 0
  <2>1. IsSeq(kept) /\ Count(kept, n) \in Nat
    BY <1>4, KeptSeq DEF Actors
  <2> QED
    BY <1>5, <2>1, CountFacts
<1>7. AllSeqs(stack) /\ Total(stack, On(n, c)) \in Nat /\ Total(stack, Off(n, c)) \in Nat
  BY IInvFacts, TotalPlaces DEF StackShape, AllSeqs
<1>8. Total(stack, On(n, c)) # 0
  <2>1. Count(node[n].subs, c) + Total(stack, On(n, c)) = Count(kept, n) + Total(stack, Off(n, c))
    BY <1>2, <1>4, IInvFacts DEF Balanced, Actors
  <2> QED
    BY <1>3, <1>6, <1>7, <2>1
<1>9. PICK h \in Goroutines : \E p \in DOMAIN stack[h] : Tag(stack[h][p]) = On(n, c)
  BY <1>7, <1>8, TotalPlaces
<1>15. PICK j \in DOMAIN stack[h] : Tag(stack[h][j]) = On(n, c)
  BY <1>9
<1>10. stack[h][j].op = "on" /\ stack[h][j].args = c
  <2>1. stack[h][j].op = "on"
    BY <1>15, TagSays
  <2>2. Tag(stack[h][j]) = On(stack[h][j].at, stack[h][j].args)
    BY <2>1, TagIs
  <2> QED
    BY <1>15, <2>1, <2>2 DEF On
<1>11. c \notin Watchers /\ c \notin Effects
  BY SignalAssumption
<1>12. PICK m \in DOMAIN stack[h] : m > j /\ stack[h][m].op \in Releasing /\ stack[h][m].at = c
  BY <1>10, <1>11, IInvFacts DEF StacksNested, Nested
<1>13. stack[h][m].op # "unlock"
  BY <1>11, <1>12, IInvFacts DEF CallsOK, CallOK
<1>14. stack[h][m].op # "commit"
  <2>1. j \in Nat \ {0}
    BY <1>7, <1>15, SeqFacts DEF AllSeqs
  <2>2. m \in Nat
    BY <1>7, <1>12, SeqFacts DEF AllSeqs
  <2>3. m # 1
    BY <1>12, <2>1, <2>2
  <2> QED
    BY <2>3 DEF FreshInv, Ordered
<1> QED
  BY <1>12, <1>13, <1>14 DEF Releasing, Has

\* Who a publication is told to.
Tells(calls, subs) ==
    \A c \in Derived : c \in Range(subs)
      => \E k : Has(calls, k) /\ k.op = "invalidate" /\ k.at = c

\* A step that publishes one node and tells its subscribers.
LEMMA PublishStep ==
  ASSUME IInv, FreshInv, CompShape', NEW g \in Goroutines, NEW gone, NEW calls,
         Lands(g, gone, calls), Checks(calls), gone.op \notin RenewOps,
         \A c \in Derived : Steady(c),
         NEW n \in Nodes, \A m \in Nodes : m # n => node'[m].rev = node[m].rev,
         Tells(calls, node[n].subs)
  PROVE  FreshInv'
<1>1. ASSUME NEW c \in Derived, ~comp'[c].stopped, ~comp'[c].dirty,
             NEW i \in DOMAIN comp'[c].deps, NEW d, d = comp'[c].deps[i]
      PROVE  node'[d.source].rev = d.rev \/ Renewed(c, d)'
  <2>1. /\ ~comp[c].stopped /\ ~comp[c].dirty /\ i \in DOMAIN comp[c].deps
        /\ comp[c].deps[i] = d
    BY <1>1 DEF Steady
  <2>2. d.source \in Nodes
    <3>1. comp[c].deps \in Seq(Dependency)
      BY ValueFacts DEF CompRecord
    <3> QED
      BY <2>1, <3>1, DepNodes
  <2>3. ~Renews(gone, c, d)
    BY RenewsNot
  <2>4. CASE d.source # n
    <3>1. node[d.source].rev = d.rev \/ Renewed(c, d)
      BY <2>1 DEF FreshInv, FreshValue
    <3> QED
      BY <2>2, <2>3, <2>4, <3>1, RenewedStays
  <2>5. CASE d.source = n /\ c \in Range(node[n].subs)
    <3>1. PICK k : Has(calls, k) /\ k.op = "invalidate" /\ k.at = c
      BY <2>5 DEF Tells
    <3>2. Renews(k, c, d)
      BY <3>1 DEF Renews
    <3> QED
      BY <3>1, <3>2, RenewedStays
  <2>6. CASE d.source = n /\ c \notin Range(node[n].subs)
    <3>1. PICK h \in Goroutines : \E k : Has(stack[h], k) /\ k.at = c /\ k.op \in {"recheck", "born"}
      BY <2>1, <2>6, SubscribedOrRenewed
    <3>2. Renewed(c, d)
      BY <3>1 DEF Renewed, Renews, Has
    <3> QED
      BY <2>3, <3>2, RenewedStays
  <2> QED
    BY <2>4, <2>5, <2>6
<1>2. \A c \in Derived : FreshValue(c)'
  BY <1>1 DEF FreshValue
<1> QED
  BY <1>2, OrderKept DEF FreshInv

\* A write tells every subscriber that has an invalidator (Signal.Set).
LEMMA PublishTells ==
  ASSUME NEW subs \in Seq(Subscribers)
  PROVE  IsSeq(Publish(subs)) /\ Ordered(Publish(subs)) /\ Checks(Publish(subs)) /\ Tells(Publish(subs), subs)
<1>1. PICK at : at = Computeds(subs)
  OBVIOUS
<1>2. IsSeq(at) /\ \A c \in Derived : c \in Range(subs) => c \in Range(at)
  BY <1>1, ComputedsFacts DEF IsSeq
<1>3. PICK first : first = Calls("invalidate", at, <<>>)
  OBVIOUS
<1>4. IsSeq(first) /\ Ordered(first) /\ Checks(first) /\ \A i \in DOMAIN first : first[i].op = "invalidate"
  BY <1>1, <1>3, InvalidatorsOrdered
<1>5. \A c \in Derived : c \in Range(at) => \E k : Has(first, k) /\ k.op = "invalidate" /\ k.at = c
  BY <1>2, <1>3, CallsFacts DEF Range, Has
<1>6. PICK rest : rest = IF subs = <<>> THEN <<>> ELSE <<Call("batchNotify", None, subs)>>
  OBVIOUS
<1>7. Tame(rest)
  <2>1. PICK call : call = Call("batchNotify", None, subs)
    OBVIOUS
  <2>2. Tame(<<call>>)
    BY <2>1, CallIs, TameOne
  <2> QED
    BY <1>6, <2>1, <2>2, TameNil
<1>8. PICK s : s = first \o rest
  OBVIOUS
<1>9. s = Publish(subs)
  BY <1>1, <1>3, <1>6, <1>8 DEF Publish
<1>10. IsSeq(rest) /\ Ordered(rest) /\ Checks(rest)
         /\ \A i \in DOMAIN rest : rest[i].op \notin {"commit", "invalidate"}
  BY <1>7, TameFacts DEF Tame
<1>11. IsSeq(s) /\ \A k : Has(s, k) <=> Has(first, k) \/ Has(rest, k)
  BY <1>4, <1>8, <1>10, CatSeq, CatHas
<1>12. Ordered(s)
  BY <1>4, <1>8, <1>10, OrderedCat
<1>13. Checks(s)
  BY <1>4, <1>10, <1>11 DEF Checks, Has
<1>14. Tells(s, subs)
  BY <1>2, <1>5, <1>11 DEF Tells
<1> QED
  BY <1>9, <1>11, <1>12, <1>13, <1>14

\* Set (Signal.Set) publishes a base signal.
LEMMA SetFresh ==
  ASSUME IInv, FreshInv, CompShape', NEW g \in Goroutines, NEW s \in Bases, NEW v \in Values(s),
         Set(g, s, v)
  PROVE  FreshInv'
<1>1. PICK subs : subs = node[s].subs
  OBVIOUS
<1>2. s \in Nodes /\ subs \in Seq(Subscribers) /\ DOMAIN node = Nodes
  BY <1>1, IInvFacts DEF NodeShape, Nodes
<1>3. PICK a : a = Publish(subs)
  OBVIOUS
<1>4. IsSeq(a) /\ Ordered(a) /\ Checks(a) /\ Tells(a, subs)
  BY <1>2, <1>3, PublishTells
<1>5. PICK end : end = Call("endSet", None, <<>>)
  OBVIOUS
<1>6. PICK b : b = <<end>>
  OBVIOUS
<1>7. Tame(b)
  BY <1>5, <1>6, CallIs, TameOne
<1>8. PICK calls : calls = a \o b
  OBVIOUS
<1>9. Begins(g, calls) /\ comp' = comp /\ node' = [node EXCEPT ![s].value = v, ![s].rev = @ + 1]
  BY <1>1, <1>3, <1>5, <1>6, <1>8 DEF Set
<1>10. IsSeq(b) /\ Ordered(b) /\ Checks(b) /\ \A i \in DOMAIN b : b[i].op \notin {"commit", "invalidate"}
  BY <1>7, TameFacts DEF Tame
<1>11. IsSeq(calls) /\ \A k : Has(calls, k) <=> Has(a, k) \/ Has(b, k)
  BY <1>4, <1>8, <1>10, CatSeq, CatHas
<1>12. Ordered(calls)
  BY <1>4, <1>8, <1>10, OrderedCat
<1>13. Checks(calls) /\ Tells(calls, subs)
  BY <1>4, <1>10, <1>11 DEF Checks, Tells, Has
<1>14. Lands(g, end, calls)
  BY <1>9, <1>11, <1>12, BeginsLands
<1>15. end.op \notin RenewOps
  BY <1>5, CallIs DEF RenewOps
<1>16. \A m \in Nodes : m # s => node'[m].rev = node[m].rev
  BY <1>2, <1>9
<1> QED
  BY <1>1, <1>2, <1>9, <1>13, <1>14, <1>15, <1>16, PublishStep DEF Steady

\* Commit (Computed.refresh, its last section) publishes a derived value.
LEMMA CommitFresh ==
  ASSUME IInv, FreshInv, CompShape', NEW g \in Goroutines, Commit(g)
  PROVE  FreshInv'
<1>1. PICK c : c = Top(g).at
  OBVIOUS
<1>2. PICK v : v = Top(g).args
  OBVIOUS
<1>3. ~Idle(g) /\ Top(g).op = "commit"
        /\ comp' = [comp EXCEPT ![c].refreshing = FALSE, ![c].mu = None]
  BY <1>1 DEF Commit, At
<1>4. c \in Derived /\ c \in Nodes /\ Top(g).op \notin RenewOps /\ Top(g).op \notin Spreads
  BY <1>1, <1>3, TopFits DEF CallOK, RenewOps, Spreads, Nodes
<1>5. comp[c] \in CompRecord /\ CompShape /\ comp \in [Derived -> CompRecord]
  BY <1>4, ValueFacts, IInvFacts DEF CompShape
<1> DEFINE r == [comp[c] EXCEPT !.refreshing = FALSE, !.mu = None]
<1>6. /\ comp' = [comp EXCEPT ![c] = r]
      /\ r.deps = comp[c].deps /\ r.stopped = comp[c].stopped /\ r.dirty = comp[c].dirty
  BY <1>3, <1>4, <1>5 DEF CompRecord
<1> HIDE DEF r
<1>7. \A d \in Derived : Steady(d)
  BY <1>4, <1>5, <1>6, CompSteady
<1>8. CASE v = node[c].value
  <2>1. Goes(g, <<>>) /\ node' = node
    BY <1>1, <1>2, <1>8 DEF Commit
  <2> QED
    BY <1>3, <1>4, <1>7, <2>1, TameNil, TameGoes, NothingPublished
<1>9. CASE v # node[c].value
  <2>1. PICK subs : subs = node[c].subs
    OBVIOUS
  <2>2. PICK calls : calls = Publish(subs)
    OBVIOUS
  <2>3. Goes(g, calls) /\ node' = [node EXCEPT ![c].value = v, ![c].rev = @ + 1]
    BY <1>1, <1>2, <1>9, <2>1, <2>2 DEF Commit
  <2>4. subs \in Seq(Subscribers) /\ DOMAIN node = Nodes
    BY <1>4, <2>1, IInvFacts DEF NodeShape
  <2>5. IsSeq(calls) /\ Ordered(calls) /\ Checks(calls) /\ Tells(calls, subs)
    BY <2>2, <2>4, PublishTells
  <2>6. Lands(g, Top(g), calls)
    BY <1>3, <1>4, <2>3, <2>5, GoesLands
  <2>7. \A m \in Nodes : m # c => node'[m].rev = node[m].rev
    BY <2>3, <2>4
  <2> QED
    BY <1>4, <1>7, <2>1, <2>5, <2>6, <2>7, PublishStep
<1> QED
  BY <1>8, <1>9

\* Panic (a panic of the application's function) makes every value it unwinds dirty.
LEMMA PanicFresh ==
  ASSUME IInv, FreshInv, CompShape', NEW g \in Goroutines, Panic(g)
  PROVE  FreshInv'
<1>1. /\ \A h \in Goroutines : h # g => stack'[h] = stack[h]
      /\ \A i \in DOMAIN stack'[g] : stack'[g][i].op = "endBatch"
  BY PanicTotals
<1>2. node' = node /\ ~Idle(g) /\ Top(g).op = "track" /\ Top(g).op \notin {"on", "off"}
  BY DEF Panic, At
<1>3. PICK undone : undone = {stack[g][i].at : i \in {j \in DOMAIN stack[g] :
                         stack[g][j].op \in {"loop", "check", "compare", "track", "take"}}}
  OBVIOUS
<1>4. comp' = [c \in Derived |-> IF c \in undone
                                  THEN [comp[c] EXCEPT !.refreshing = FALSE, !.dirty = TRUE]
                                  ELSE comp[c]]
  BY <1>3 DEF Panic
<1>5. ASSUME NEW c \in Derived, c \in undone PROVE comp'[c].dirty = TRUE
  <2>1. comp'[c] = [comp[c] EXCEPT !.refreshing = FALSE, !.dirty = TRUE] /\ comp[c] \in CompRecord
    BY <1>4, <1>5, ValueFacts
  <2> QED
    BY <2>1 DEF CompRecord
<1>6. ASSUME NEW c \in Derived, c \notin undone, NEW d, NEW i \in DOMAIN stack[g]
      PROVE  ~Renews(stack[g][i], c, d)
  <2> SUFFICES ASSUME stack[g][i].at = c, stack[g][i].op \in RenewOps PROVE FALSE
    BY DEF Renews, RenewOps
  <2>1. stack[g][i].op \notin {"loop", "check", "compare", "track", "take"}
    BY <1>3, <1>6
  <2>2. stack[g][i].op \in {"invalidate", "recheck", "born"}
    BY <2>1 DEF RenewOps
  <2>3. i # 1
    BY <1>2, <2>2, IInvFacts, TopFacts
  <2>4. stack[g][i].op \notin Busy
    BY <1>2, <2>3, IInvFacts, TopFacts
  <2>5. stack[g][i].op = "invalidate"
    BY <2>2, <2>4 DEF Busy, Releasing
  <2>6. 1 \in DOMAIN stack[g] /\ stack[g][1] = Top(g) /\ 1 < i
    <3>1. IsSeq(stack[g]) /\ 1 \in DOMAIN stack[g] /\ stack[g][1] = Top(g)
      BY <1>2, IInvFacts, TopFacts
    <3>2. i \in Nat \ {0}
      BY <3>1, SeqFacts
    <3> QED
      BY <2>3, <3>1, <3>2
  <2>7. Top(g).op \in Spreads
    BY <2>5, <2>6 DEF FreshInv, Ordered
  <2> QED
    BY <1>2, <2>7 DEF Spreads
<1>7. ASSUME NEW c \in Derived, ~comp'[c].stopped, ~comp'[c].dirty,
             NEW i \in DOMAIN comp'[c].deps, NEW d, d = comp'[c].deps[i]
      PROVE  node'[d.source].rev = d.rev \/ Renewed(c, d)'
  <2>1. c \notin undone
    BY <1>5, <1>7
  <2>2. comp'[c] = comp[c]
    BY <1>4, <2>1
  <2>3. node[d.source].rev = d.rev \/ Renewed(c, d)
    BY <1>7, <2>2 DEF FreshInv, FreshValue
  <2>4. CASE Renewed(c, d)
    <3>1. PICK h \in Goroutines : \E j \in DOMAIN stack[h] : Renews(stack[h][j], c, d)
      BY <2>4 DEF Renewed
    <3>2. h # g
      BY <1>6, <2>1, <3>1
    <3>3. stack'[h] = stack[h]
      BY <1>1, <3>2
    <3>4. \E j \in DOMAIN stack'[h] : Renews(stack'[h][j], c, d)
      BY <3>1, <3>3
    <3>5. Renewed(c, d)' <=> \E f \in Goroutines : \E j \in DOMAIN stack'[f] : Renews(stack'[f][j], c, d)
      BY DEF Renewed
    <3> QED
      BY <3>4, <3>5
  <2> QED
    BY <1>2, <2>3, <2>4
<1>8. \A c \in Derived : FreshValue(c)'
  BY <1>7 DEF FreshValue
<1>9. \A h \in Goroutines : Ordered(stack'[h])
  BY <1>1 DEF FreshInv, Ordered
<1>10. \A h \in Goroutines : \A i \in DOMAIN stack'[h] : CheckOK(stack'[h][i])
  BY <1>1 DEF FreshInv, CheckOK
<1> QED
  BY <1>8, <1>9, <1>10 DEF FreshInv

-----------------------------------------------------------------------------
(* Every step, and what follows.                                           *)

\* At first nothing has been published and nothing is under way.
LEMMA InitFresh == Init => FreshInv
<1> SUFFICES ASSUME Init PROVE FreshInv
  OBVIOUS
<1> DEFINE Worths(start) == Worth([s \in Bases |-> start.first])
           Nodes0(v) == [n \in Nodes |-> [value |-> v[n], rev |-> 0, subs |-> <<>>]]
           Comps(made, v) ==
              [c \in Derived |->
                 [dirty |-> FALSE, refreshing |-> FALSE, stopped |-> FALSE, mu |-> None,
                  stage |-> IF c \in Range(made) THEN "live" ELSE "new",
                  deps |-> IF c \in Range(made) THEN FirstDeps(c, v) ELSE <<>>]]
<1>0. PICK start \in Starts :
        /\ node = FoldLeft(Join, Nodes0(Worths(start)), start.made)
        /\ comp = Comps(start.made, Worths(start))
  BY DEF Init
<1>1. PICK made, value :
        /\ made = start.made /\ value = Worths(start)
        /\ node = FoldLeft(Join, Nodes0(value), made) /\ comp = Comps(made, value)
  BY <1>0
<1>2. stack = [g \in Goroutines |-> <<>>]
  BY DEF Init
<1>3. made \in Seq(Subscribers) /\ IsInjective(made)
  BY <1>1, SignalAssumption DEF Subscribers
<1>4. node \in [Nodes -> Record0(value)]
  BY <1>1, <1>3, JoinAll DEF Joined
<1>5. \A n \in Nodes : node[n].rev = 0
  BY <1>4 DEF Record0
<1>6. \A g \in Goroutines : DOMAIN stack[g] = {}
  BY <1>2, NoTotals
<1>7. ASSUME NEW c \in Derived, NEW i \in DOMAIN comp[c].deps
      PROVE  node[comp[c].deps[i].source].rev = comp[c].deps[i].rev
  <2>1. PICK deps : deps = comp[c].deps
    OBVIOUS
  <2>2. PICK first : first = FirstDeps(c, value)
    OBVIOUS
  <2>3. PICK nil : nil = <<>>
    OBVIOUS
  <2>4. deps = IF c \in Range(made) THEN first ELSE nil
    <3>1. PICK stage : stage = IF c \in Range(made) THEN "live" ELSE "new"
      OBVIOUS
    <3>2. PICK d : d = IF c \in Range(made) THEN first ELSE nil
      OBVIOUS
    <3>3. comp[c] = [dirty |-> FALSE, refreshing |-> FALSE, stopped |-> FALSE, mu |-> None,
                     stage |-> stage, deps |-> d]
      BY <1>1, <2>2, <2>3, <3>1, <3>2
    <3> QED
      BY <2>1, <3>2, <3>3
  <2>5. DOMAIN nil = {}
    BY <2>3, ShortSeqs
  <2>6. deps = first
    BY <1>7, <2>1, <2>4, <2>5
  <2>7. first \in Seq(Dependency) /\ \A j \in DOMAIN first : first[j].rev = 0
    BY <2>2, FirstDepsFacts
  <2>8. deps[i].source \in Nodes /\ deps[i].rev = 0
    BY <1>7, <2>1, <2>6, <2>7, DepNodes
  <2> QED
    BY <1>5, <2>1, <2>8
<1>8. \A c \in Derived : FreshValue(c)
  BY <1>7 DEF FreshValue
<1>9. \A g \in Goroutines : Ordered(stack[g]) /\ \A i \in DOMAIN stack[g] : CheckOK(stack[g][i])
  BY <1>6 DEF Ordered
<1> QED
  BY <1>8, <1>9 DEF FreshInv

\* The operations the application starts.
LEMMA OperationFresh ==
  ASSUME IInv, FreshInv, CompShape', NEW g \in Goroutines, Operation(g)
  PROVE  FreshInv'
<1>1. CASE \E s \in Bases : \E v \in Values(s) : Set(g, s, v)
  BY <1>1, SetFresh
<1>2. CASE \E c \in Derived : Get(g, c)
  BY <1>2, GetFresh
<1>3. CASE Batch(g)
  BY <1>3, BatchFresh
<1>4. CASE \E c \in Derived : Derive(g, c)
  BY <1>4, DeriveFresh
<1>5. CASE \E c \in Derived : Stop(g, c)
  BY <1>5, StopFresh
<1>6. CASE \E e \in Effects : Dispose(g, e)
  BY <1>6, DisposeFresh
<1> QED
  BY <1>1, <1>2, <1>3, <1>4, <1>5, <1>6 DEF Operation

\* The calls they lead to.
LEMMA CallFresh ==
  ASSUME IInv, FreshInv, CompShape', NEW g \in Goroutines, Step(g)
  PROVE  FreshInv'
<1>1. CASE Invalidate(g)
  BY <1>1, InvalidateFresh
<1>2. CASE InvalidateSubscribers(g)
  BY <1>2, InvalidateSubscribersFresh
<1>3. CASE BatchNotify(g) \/ EndBatch(g) \/ EndSet(g) \/ Wake(g) \/ Callback(g) \/ Look(g)
  BY <1>3, DeliveryFresh
<1>4. CASE OnDepChange(g)
  BY <1>4, OnDepChangeFresh
<1>5. CASE Unsubscribe(g) \/ Subscribe(g)
  BY <1>5, EditFresh
<1>6. CASE BeginRefresh(g)
  BY <1>6, BeginRefreshFresh
<1>7. CASE Loop(g)
  BY <1>7, LoopFresh
<1>8. CASE Check(g) \/ Compare(g)
  BY <1>8, CheckFresh
<1>9. CASE Track(g) \/ Take(g)
  BY <1>9, TrackFresh
<1>10. CASE Settle(g)
  BY <1>10, SettleFresh
<1>11. CASE Recheck(g)
  BY <1>11, RecheckFresh
<1>12. CASE Commit(g)
  BY <1>12, CommitFresh
<1>13. CASE DeriveTracked(g)
  BY <1>13, DeriveTrackedFresh
<1>14. CASE Born(g)
  BY <1>14, BornFresh
<1>15. CASE Share(g)
  BY <1>15, ShareFresh
<1>16. CASE Run(g) \/ Ran(g) \/ Unlock(g)
  BY <1>16, RunFresh
<1> QED
  BY <1>1, <1>2, <1>3, <1>4, <1>5, <1>6, <1>7, <1>8, <1>9, <1>10, <1>11, <1>12, <1>13,
     <1>14, <1>15, <1>16 DEF Step

\* Every step keeps a call that will find out for each stale dependency.
LEMMA NextFresh == IInv /\ IInv' /\ FreshInv /\ [Next]_vars => FreshInv'
<1> SUFFICES ASSUME IInv, IInv', FreshInv, [Next]_vars PROVE FreshInv'
  OBVIOUS
<1>1. CompShape'
  BY DEF IInv, Types
<1>2. CASE UNCHANGED vars
  <2>1. UNCHANGED <<node, comp, stack>>
    BY <1>2 DEF vars
  <2>2. \A c \in Derived : FreshValue(c)'
    BY <2>1 DEF FreshInv, FreshValue, Renewed
  <2> QED
    BY <2>1, <2>2 DEF FreshInv
<1>3. ASSUME NEW g \in Goroutines, Operation(g) PROVE FreshInv'
  BY <1>1, <1>3, OperationFresh
<1>4. ASSUME NEW g \in Goroutines, Step(g) PROVE FreshInv'
  BY <1>1, <1>4, CallFresh
<1>5. ASSUME NEW g \in Goroutines, Panic(g) PROVE FreshInv'
  BY <1>1, <1>5, PanicFresh
<1> QED
  BY <1>2, <1>3, <1>4, <1>5 DEF Next

\* In every state a clean value that is not stopped has seen the present revision
\* of each dependency, or some goroutine still has a call to make after which it
\* is dirty or looked at again: the recheck of a refresh covers the sources
\* published before they were subscribed to, invalidate those published later.
THEOREM StaleIsFound == Spec => []FreshInv
<1>1. Init => IInv /\ FreshInv
  BY InitIInv, InitFresh
<1>2. IInv /\ FreshInv /\ [Next]_vars => IInv' /\ FreshInv'
  BY NextKeeps, NextFresh
<1> QED
  BY <1>1, <1>2, PTL DEF Spec

\* Once every call has returned, no such call is left.
LEMMA CleanChecked == IInv /\ FreshInv => CleanIsChecked
<1> SUFFICES ASSUME IInv, FreshInv, AtRest, NEW c \in Derived, ~comp[c].stopped, ~comp[c].dirty,
                    NEW i \in DOMAIN comp[c].deps
             PROVE  node[comp[c].deps[i].source].rev = comp[c].deps[i].rev
  BY DEF CleanIsChecked
<1>1. ASSUME NEW h \in Goroutines, NEW j \in DOMAIN stack[h] PROVE stack[h][j].op = "endBatch"
  <2>1. ~Idle(h)
    BY <1>1, ShortSeqs DEF Idle
  <2>2. Top(h).op = "endBatch"
    BY <2>1 DEF AtRest, At
  <2> QED
    BY <1>1, <2>1, <2>2, IInvFacts, TopFacts
<1>2. ~Renewed(c, comp[c].deps[i])
  BY <1>1 DEF Renewed, Renews
<1> QED
  BY <1>2 DEF FreshInv, FreshValue

\* The subscription graph is well formed in every state, nothing stopped or
\* disposed is subscribed once every call has returned, a live effect is then
\* subscribed to everything it last read, and a clean value was computed or checked
\* against the present revisions of its dependencies, whatever Sets, refreshes,
\* runs, stops, Batches and panics overlapped (Stop, Dispose, Computed.refresh,
\* Computed.invalidate, Effect.run).
THEOREM SignalSafe == Spec => []SignalInv
<1>1. IInv /\ FreshInv => SignalInv
  BY TypesHold, StoppedHold, EffectsSubscribed, CleanChecked DEF SignalInv
<1> QED
  BY <1>1, SignalInductive, StaleIsFound, PTL

\* Once every call has returned no refresh is left open, not even by a panic.
NoRefreshOpen == AtRest => \A c \in Derived : ~comp[c].refreshing

\* The deferred end of a refresh: a derived value is never left refreshing, which
\* would make every later Get return its stale cache.
THEOREM RefreshesEnd == Spec => []NoRefreshOpen
<1>1. IInv => NoRefreshOpen
  <2> SUFFICES ASSUME IInv, AtRest, NEW c \in Derived PROVE ~comp[c].refreshing
    BY DEF NoRefreshOpen
  <2>1. Frame(c) # Ending
    BY DEF Frame, Ending
  <2>2. Total(stack, Frame(c)) = 0
    BY <2>1, RestTotals
  <2> QED
    BY <2>2, ValueFacts DEF OneFrame
<1> QED
  BY <1>1, SignalInductive, PTL

\* Once every call has returned, a derived value is subscribed to each of its
\* dependencies as often as it keeps it, and an effect as often as it will
\* unsubscribe.
NothingLeaks ==
    AtRest => \A n \in Nodes :
      /\ \A c \in Derived : Count(node[n].subs, c) = Count(SourcesOf(comp[c].deps), n)
      /\ \A e \in Effects : Count(node[n].subs, e) = Count(effect[e].unsubs, n)

\* No subscription is lost and none is left over, however settling, runs, stops
\* and disposals overlapped (subscribeToDepsLocked, Effect.run, Stop, Dispose).
THEOREM SubscriptionsMatch == Spec => []NothingLeaks
<1>1. IInv => NothingLeaks
  <2> SUFFICES ASSUME IInv, AtRest, NEW n \in Nodes
               PROVE  /\ \A c \in Derived : Count(node[n].subs, c) = Count(SourcesOf(comp[c].deps), n)
                      /\ \A e \in Effects : Count(node[n].subs, e) = Count(effect[e].unsubs, n)
    BY DEF NothingLeaks
  <2>1. ASSUME NEW c \in Derived PROVE Count(node[n].subs, c) = Count(SourcesOf(comp[c].deps), n)
    BY RestBalance DEF Kept, Actors
  <2>2. ASSUME NEW e \in Effects PROVE Count(node[n].subs, e) = Count(effect[e].unsubs, n)
    <3>1. e \in Actors /\ Kept(e) = effect[e].unsubs
      BY EffectFacts
    <3>2. Count(node[n].subs, e) = Count(Kept(e), n)
      BY <3>1, RestBalance
    <3> QED
      BY <3>1, <3>2
  <2> QED
    BY <2>1, <2>2
<1> QED
  BY <1>1, SignalInductive, PTL

\* A goroutine is evaluating derived value c at the i-th call of its stack.
Evaluates(g, i, c) ==
    i \in DOMAIN stack[g] /\ stack[g][i].op \in FrameOps /\ stack[g][i].at = c

\* No two evaluations of one derived value are under way, and a mutex is let go by
\* the goroutine that holds it.
OneAtATime ==
    /\ \A c \in Derived : \A g, h \in Goroutines : \A i, j :
         Evaluates(g, i, c) /\ Evaluates(h, j, c) => g = h /\ i = j
    /\ \A g \in Goroutines : \A i \in DOMAIN stack[g] :
         stack[g][i].op \in Releasing => Mu(stack[g][i].at) = g

\* The flag refreshing makes refreshes single-flight, over recursion, several
\* goroutines and panics, with no lock held while the function runs.
THEOREM RefreshesAreSingle == Spec => []OneAtATime
<1>1. IInv => OneAtATime
  <2> SUFFICES ASSUME IInv PROVE OneAtATime
    OBVIOUS
  <2>1. ASSUME NEW c \in Derived, NEW g \in Goroutines, NEW h \in Goroutines, NEW i, NEW j,
               Evaluates(g, i, c), Evaluates(h, j, c)
        PROVE  g = h /\ i = j
    <3>1. PICK P : P = Places(stack, Frame(c))
      OBVIOUS
    <3>2. <<g, i>> \in P /\ <<h, j>> \in P
      BY <2>1, <3>1, TagIs DEF Evaluates, Places, TagPlaces
    <3>3. IsFiniteSet(P)
      <4>1. \A k \in Goroutines : IsSeq(stack[k])
        BY IInvFacts DEF StackShape
      <4> QED
        BY <3>1, <4>1, SignalAssumption, PlacesAre, PlacesInFinite
    <3>4. Cardinality(P) \in 0..1
      BY <3>1, ValueFacts DEF OneFrame, Total
    <3>5. Cardinality(P) # 0
      BY <3>2, <3>3, FS_EmptySet
    <3>6. Cardinality(P) = 1
      BY <3>4, <3>5
    <3>7. PICK p : P = {p}
      BY <3>3, <3>6, FS_Singleton
    <3> QED
      BY <3>2, <3>7
  <2>2. ASSUME NEW g \in Goroutines, NEW i \in DOMAIN stack[g], stack[g][i].op \in Releasing
        PROVE  Mu(stack[g][i].at) = g
    BY <2>2 DEF IInv, CallsFit, CallFits
  <2> QED
    BY <2>1, <2>2 DEF OneAtATime
<1> QED
  BY <1>1, SignalInductive, PTL
=============================================================================
