----------------------------- MODULE FoldFacts -----------------------------
(***************************************************************************)
(* Facts about FoldLeft, for one operator op.  A module that folds an       *)
(* operator of its own INSTANCEs this one with op replaced by it, which     *)
(* gives it an induction principle over the sequence folded.  Fold repeats  *)
(* the definition of FoldLeft, so that an instance does not carry all of    *)
(* SequencesExt; expanding both shows that they are equal.                  *)
(***************************************************************************)
EXTENDS Integers, Folds, WellFoundedInduction, TLAPS

CONSTANT op(_, _)

Max(s) == CHOOSE x \in s : \A y \in s : x >= y

\* FoldLeft(op, base, seq), as SequencesExt defines it.
Fold(base, seq) ==
    MapThenFoldSet(LAMBDA x, y : op(y, x), base, LAMBDA i : seq[i], LAMBDA s : Max(s), DOMAIN seq)

\* The recursion equation of FoldLeft, for the part s of the indices of seq.
Step(f, s, base, seq) ==
    IF s = {} THEN base ELSE op(f[s \ {Max(s)}], seq[Max(s)])

-----------------------------------------------------------------------------

\* What Max returns for a set whose greatest element is known.
LEMMA MaxIs ==
    ASSUME NEW s \in SUBSET Int, NEW m \in s, \A k \in s : k <= m
    PROVE  Max(s) = m
<1> DEFINE P(x) == x \in s /\ \A y \in s : x >= y
<1>1. P(m)
  OBVIOUS
<1>2. \A x : P(x) => x = m
  OBVIOUS
<1>3. Max(s) = CHOOSE x : P(x)
  BY DEF Max
<1> HIDE DEF P
<1> QED
  BY <1>1, <1>2, <1>3

\* A set of natural numbers has a least element.
LEMMA Least ==
    ASSUME NEW T \in SUBSET Nat, T # {}
    PROVE  \E n \in T : \A m \in T : n <= m
<1>1. PICK x \in T : \A y \in T : ~ (<<y, x>> \in OpToRel(<, Nat))
  BY NatLessThanWellFounded, WFMin
<1>2. ASSUME NEW y \in T PROVE x <= y
  <2>1. <<y, x>> \in Nat \X Nat
    OBVIOUS
  <2>2. ~(y < x)
    BY <1>1, <2>1 DEF OpToRel
  <2> QED
    BY <2>2
<1> QED
  BY <1>2

\* The recursion of FoldLeft defines a function.
LEMMA IterExists ==
    ASSUME NEW n \in Nat, NEW base, NEW seq
    PROVE  \E f : f = [s \in SUBSET (1..n) |-> Step(f, s, base, seq)]
<1> DEFINE Good(k) == \E f : f = [s \in SUBSET (1..k) |-> Step(f, s, base, seq)]
           Bad == {k \in Nat : ~Good(k)}
<1>1. Good(0)
  <2> DEFINE f == [s \in SUBSET (1..0) |-> base]
  <2>1. \A s \in SUBSET (1..0) : s = {}
    OBVIOUS
  <2>2. f = [s \in SUBSET (1..0) |-> Step(f, s, base, seq)]
    BY <2>1 DEF Step
  <2> QED
    BY <2>2
<1>2. ASSUME NEW k \in Nat, Good(k) PROVE Good(k + 1)
  <2>1. PICK f : f = [s \in SUBSET (1..k) |-> Step(f, s, base, seq)]
    BY <1>2
  <2> DEFINE g == [s \in SUBSET (1..(k + 1)) |->
                     IF k + 1 \in s THEN op(f[s \ {k + 1}], seq[k + 1]) ELSE f[s]]
  <2>2. ASSUME NEW s \in SUBSET (1..(k + 1)) PROVE g[s] = Step(g, s, base, seq)
    <3>1. CASE k + 1 \in s
      <4>1. Max(s) = k + 1
        BY <3>1, MaxIs
      <4>2. s \ {k + 1} \in SUBSET (1..k) /\ k + 1 \notin s \ {k + 1}
        OBVIOUS
      <4>3. g[s \ {k + 1}] = f[s \ {k + 1}]
        BY <4>2
      <4>4. g[s] = op(f[s \ {k + 1}], seq[k + 1])
        BY <3>1
      <4> QED
        BY <3>1, <4>1, <4>3, <4>4 DEF Step
    <3>2. CASE k + 1 \notin s
      <4>1. s \in SUBSET (1..k)
        BY <3>2
      <4>2. g[s] = f[s] /\ f[s] = Step(f, s, base, seq)
        BY <2>1, <3>2, <4>1
      <4>3. s \ {Max(s)} \in SUBSET (1..k) /\ k + 1 \notin s \ {Max(s)}
        BY <3>2, <4>1
      <4>4. g[s \ {Max(s)}] = f[s \ {Max(s)}]
        BY <4>3
      <4> QED
        BY <4>2, <4>4 DEF Step
    <3> QED
      BY <3>1, <3>2
  <2>3. g = [s \in SUBSET (1..(k + 1)) |-> Step(g, s, base, seq)]
    BY <2>2
  <2> QED
    BY <2>3
<1> HIDE DEF Good
<1>3. Bad = {}
  <2>1. SUFFICES ASSUME Bad # {} PROVE FALSE
    OBVIOUS
  <2>2. PICK k \in Bad : \A m \in Bad : k <= m
    BY <2>1, Least
  <2>3. k # 0 /\ k - 1 \in Nat /\ k - 1 \notin Bad
    BY <1>1, <2>2
  <2> QED
    BY <1>2, <2>2, <2>3
<1> QED
  BY <1>3 DEF Good

\* A fold is the last of a chain of values, each made from the one before.
THEOREM FoldLeftChain ==
    ASSUME NEW n \in Nat, NEW base, NEW seq, DOMAIN seq = 1..n
    PROVE  \E c : /\ c[0] = base
                  /\ \A i \in 1..n : c[i] = op(c[i - 1], seq[i])
                  /\ Fold(base, seq) = c[n]
<1> DEFINE F(f) == f = [s \in SUBSET (1..n) |-> Step(f, s, base, seq)]
           iter == CHOOSE f : F(f)
           c == [i \in 0..n |-> iter[1..i]]
<1>1. F(iter)
  BY IterExists
<1>2. Fold(base, seq) = iter[1..n]
  BY DEF Fold, MapThenFoldSet, Step
<1>5. Fold(base, seq) = c[n]
  BY DEF Fold, MapThenFoldSet, Step
<1> HIDE DEF iter
<1>3. c[0] = base
  BY <1>1 DEF Step
<1>4. ASSUME NEW i \in 1..n PROVE c[i] = op(c[i - 1], seq[i])
  <2>1. Max(1..i) = i
    <3>1. 1..i \in SUBSET Int /\ i \in 1..i /\ \A k \in 1..i : k <= i
      OBVIOUS
    <3> QED
      BY <3>1, MaxIs
  <2>2. (1..i) \ {i} = 1..(i - 1)
    OBVIOUS
  <2>3. 1..i \in SUBSET (1..n) /\ 1..i # {}
    OBVIOUS
  <2>4. iter[1..i] = Step(iter, 1..i, base, seq)
    BY <1>1, <2>3
  <2>5. c[i] = iter[1..i] /\ c[i - 1] = iter[1..(i - 1)]
    OBVIOUS
  <2>6. Step(iter, 1..i, base, seq) = op(iter[1..(i - 1)], seq[i])
    BY <2>1, <2>2, <2>3 DEF Step
  <2> QED
    BY <2>4, <2>5, <2>6
<1> HIDE DEF c
<1> WITNESS c
<1> QED
  BY <1>3, <1>4, <1>5

\* Induction over a fold: what the base is in, and what each step leads to, the
\* result is in.
THEOREM FoldLeftInduction ==
    ASSUME NEW n \in Nat, NEW base, NEW seq, DOMAIN seq = 1..n,
           NEW A, base \in A[0],
           \A i \in 1..n : \A a \in A[i - 1] : op(a, seq[i]) \in A[i]
    PROVE  Fold(base, seq) \in A[n]
<1>1. PICK c : /\ c[0] = base
               /\ \A i \in 1..n : c[i] = op(c[i - 1], seq[i])
               /\ Fold(base, seq) = c[n]
  BY FoldLeftChain, SMTT(30)
<1> DEFINE Bad == {i \in 0..n : c[i] \notin A[i]}
<1>2. Bad = {}
  <2>1. SUFFICES ASSUME Bad # {} PROVE FALSE
    OBVIOUS
  <2>2. Bad \in SUBSET Nat
    OBVIOUS
  <2>3. PICK k \in Bad : \A m \in Bad : k <= m
    BY <2>1, <2>2, Least
  <2>4. k # 0
    BY <1>1
  <2>5. k \in 1..n /\ k - 1 \in 0..n /\ ~(k <= k - 1)
    BY <2>4
  <2>6. c[k - 1] \in A[k - 1]
    BY <2>3, <2>5
  <2> QED
    BY <1>1, <2>5, <2>6
<1>3. n \in 0..n
  OBVIOUS
<1> QED
  BY <1>1, <1>2, <1>3

\* A chain that starts at the base and folds in one element after the other ends at
\* the fold.
LEMMA FoldLeftIs ==
    ASSUME NEW n \in Nat, NEW base, NEW seq, DOMAIN seq = 1..n,
           NEW e, e[0] = base, \A i \in 1..n : e[i] = op(e[i - 1], seq[i])
    PROVE  Fold(base, seq) = e[n]
<1> DEFINE A == [i \in 0..n |-> {e[i]}]
<1>1. base \in A[0] /\ \A i \in 1..n : \A a \in A[i - 1] : op(a, seq[i]) \in A[i]
  <2>1. \A i \in 1..n : i \in 0..n /\ i - 1 \in 0..n
    OBVIOUS
  <2> QED
    BY <2>1
<1>2. n \in 0..n
  OBVIOUS
<1>3. Fold(base, seq) \in A[n]
  <2> HIDE DEF A
  <2> QED
    BY <1>1, FoldLeftInduction
<1> QED
  BY <1>2, <1>3
=============================================================================
