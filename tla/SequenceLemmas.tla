---------------------------- MODULE SequenceLemmas -----------------------------
(***************************************************************************)
(* Lemmas that the proofs about loops and sequences share: induction on    *)
(* natural numbers, loops as computations of a number of steps, sets of    *)
(* numbers in order, chains, and what FlattenSeq returns.                  *)
(***************************************************************************)
EXTENDS Ordered, FiniteSetTheorems, SequenceTheorems, WellFoundedInduction, TLAPS

\* A set that holds 0 and the successor of every natural it holds, holds all.
LEMMA NatInd ==
    ASSUME NEW S, 0 \in S, \A n \in Nat : n \in S => n + 1 \in S
    PROVE  Nat \subseteq S
<1> DEFINE T == Nat \ S
<1> SUFFICES ASSUME T # {} PROVE FALSE
  OBVIOUS
<1>1. PICK x \in T : \A y \in T : ~(<<y, x>> \in OpToRel(<, Nat))
  BY NatLessThanWellFounded, WFMin
<1>2. x - 1 \in T /\ x \in Nat
  OBVIOUS
<1>3. <<x - 1, x>> \in OpToRel(<, Nat)
  BY <1>2 DEF OpToRel
<1> QED BY <1>1, <1>2, <1>3

\* A set of naturals with a bound has a greatest element.
LEMMA MaxOfBounded ==
    ASSUME NEW N \in Nat, NEW S, S \subseteq 0..N, S # {}
    PROVE  Max(S) \in S /\ \A x \in S : x <= Max(S)
<1> DEFINE T == {t \in Nat : N - t \in S}
<1>1. PICK s \in S : TRUE
  OBVIOUS
<1>2. N - s \in T
  BY N - (N - s) = s /\ N - s \in Nat
<1>3. PICK m \in T : \A y \in T : ~(<<y, m>> \in OpToRel(<, Nat))
  BY <1>2, NatLessThanWellFounded, WFMin
<1>4. ASSUME NEW y \in S PROVE N - m >= y
  <2>1. N - y \in Nat /\ N - (N - y) = y /\ m \in Nat /\ y \in Nat
    OBVIOUS
  <2>2. N - y \in T
    BY <2>1
  <2>3. ~(N - y < m)
    BY <1>3, <2>1, <2>2 DEF OpToRel
  <2>4. QED
    BY <2>1, <2>3
<1>5. Max(S) \in S /\ \A y \in S : Max(S) >= y
  <2>1. N - m \in S
    OBVIOUS
  <2>2. QED
    BY <1>4, <2>1 DEF Max
<1>6. QED
  <2>1. \A y \in S : y \in 0..N
    OBVIOUS
  <2>2. QED
    BY <1>5, <2>1

\* What a computation of N steps that starts from base passes through.
Computation(g, X, base, step, N) ==
    /\ g \in [0..N -> X]
    /\ g[0] = base
    /\ \A n \in 1..N : g[n] = step[<<n, g[n - 1]>>]

\* A computation of N steps has a result.
LEMMA RecursionExists ==
    ASSUME NEW X, NEW base \in X, NEW N \in Nat, NEW step \in [(1..N) \X X -> X]
    PROVE  \E g : Computation(g, X, base, step, N)
<1> DEFINE Computes(g, m) == /\ g \in [0..m -> X] /\ g[0] = base
                             /\ \A n \in 1..m : g[n] = step[<<n, g[n - 1]>>]
           S == {m \in Nat : m <= N => \E g : Computes(g, m)}
<1>1. 0 \in S
  <2>1. Computes([k \in 0..0 |-> base], 0)
    OBVIOUS
  <2> HIDE DEF Computes
  <2> QED
    BY <2>1
<1>2. ASSUME NEW m \in Nat, m \in S PROVE m + 1 \in S
  <2> SUFFICES ASSUME m + 1 <= N PROVE \E g : Computes(g, m + 1)
    OBVIOUS
  <2>1. PICK g : Computes(g, m)
    <3> HIDE DEF Computes
    <3> QED
      BY <1>2
  <2> DEFINE next == step[<<m + 1, g[m]>>]
             h == [k \in 0..(m + 1) |-> IF k <= m THEN g[k] ELSE next]
  <2>2. g \in [0..m -> X] /\ g[m] \in X /\ m + 1 \in 1..N
    BY <2>1
  <2>3. next \in X
    BY <2>2
  <2> HIDE DEF next
  <2>4. h \in [0..(m + 1) -> X] /\ h[0] = base
    BY <2>1, <2>2, <2>3
  <2>5. ASSUME NEW n \in 1..(m + 1) PROVE h[n] = step[<<n, h[n - 1]>>]
    <3>1. n - 1 \in 0..m /\ h[n - 1] = g[n - 1]
      OBVIOUS
    <3>2. CASE n = m + 1
      <4>1. h[n] = next /\ n - 1 = m
        BY <3>2
      <4> QED
        BY <3>1, <3>2, <4>1 DEF next
    <3>3. CASE n # m + 1
      <4>1. n \in 1..m /\ h[n] = g[n]
        BY <3>3
      <4>2. g[n] = step[<<n, g[n - 1]>>]
        BY <2>1, <4>1
      <4> QED
        BY <3>1, <4>1, <4>2
    <3> QED
      BY <3>2, <3>3
  <2> HIDE DEF h
  <2>6. Computes(h, m + 1)
    BY <2>4, <2>5
  <2> QED
    BY <2>6
<1>3. N \in S
  <2> HIDE DEF S
  <2> QED
    BY <1>1, <1>2, NatInd
<1>4. N <= N
  OBVIOUS
<1> QED
  BY <1>3, <1>4 DEF Computation

\* A function that does the steps of a computation is one.
LEMMA ComputationTyped ==
    ASSUME NEW X, NEW base \in X, NEW N \in Nat, NEW step \in [(1..N) \X X -> X], NEW f,
           f = [n \in 0..N |-> f[n]], f[0] = base,
           \A n \in 1..N : f[n - 1] \in X => f[n] = step[<<n, f[n - 1]>>]
    PROVE  Computation(f, X, base, step, N)
<1> DEFINE S == {n \in Nat : n <= N => f[n] \in X}
<1>1. 0 \in S
  OBVIOUS
<1>2. ASSUME NEW n \in Nat, n \in S PROVE n + 1 \in S
  <2> SUFFICES ASSUME n + 1 <= N PROVE f[n + 1] \in X
    OBVIOUS
  <2>1. n + 1 \in 1..N /\ (n + 1) - 1 = n /\ f[n] \in X
    BY <1>2
  <2>2. f[n + 1] = step[<<n + 1, f[n]>>]
    BY <2>1
  <2> QED
    BY <2>1, <2>2
<1>3. \A n \in 0..N : f[n] \in X
  <2> HIDE DEF S
  <2>1. Nat \subseteq S
    BY <1>1, <1>2, NatInd
  <2> QED
    BY <2>1 DEF S
<1>4. f \in [0..N -> X]
  <2> DEFINE h == [n \in 0..N |-> f[n]]
  <2>1. h \in [0..N -> X]
    BY <1>3
  <2>2. f = h
    OBVIOUS
  <2> HIDE DEF h
  <2> QED
    BY <2>1, <2>2, Zenon
<1>5. ASSUME NEW n \in 1..N PROVE f[n] = step[<<n, f[n - 1]>>]
  <2>1. n - 1 \in 0..N
    OBVIOUS
  <2>2. f[n - 1] \in X
    BY <1>3, <2>1, Zenon
  <2> QED
    BY <2>2, Zenon
<1> QED
  BY <1>4, <1>5 DEF Computation

-----------------------------------------------------------------------------
(***************************************************************************)
(* Sets of numbers in order.                                               *)
(***************************************************************************)

\* The places below a number of a finite set.
RankIn(S, i) == Cardinality({j \in S : j < i})

\* InOrder lists a finite set of numbers, each once, from the lowest up.
LEMMA InOrderProperties ==
    ASSUME NEW S \in SUBSET Nat, IsFiniteSet(S)
    PROVE  /\ Cardinality(S) \in Nat
           /\ InOrder(S) \in Seq(S) /\ Len(InOrder(S)) = Cardinality(S)
           /\ \A i \in S : \E k \in 1..Len(InOrder(S)) : InOrder(S)[k] = i
           /\ \A k, l \in 1..Len(InOrder(S)) : k < l => InOrder(S)[k] < InOrder(S)[l]
<1> DEFINE n == Cardinality(S)
           Below(i) == {j \in S : j < i}
           place == [i \in S |-> RankIn(S, i) + 1]
<1>1. n \in Nat
  BY FS_CardinalityType
<1>2. ASSUME NEW i \in S
      PROVE  IsFiniteSet(Below(i)) /\ RankIn(S, i) \in Nat /\ RankIn(S, i) + 1 \in 1..n
  <2>1. Below(i) \in SUBSET S /\ i \in S /\ i \notin Below(i)
    OBVIOUS
  <2>2. IsFiniteSet(Below(i)) /\ Cardinality(Below(i)) \in Nat
    BY <2>1, FS_Subset, FS_CardinalityType
  <2>3. Cardinality(Below(i) \cup {i}) = Cardinality(Below(i)) + 1
    BY <2>1, <2>2, FS_AddElement
  <2>4. Cardinality(Below(i) \cup {i}) <= n
    BY <2>1, FS_Subset
  <2>5. RankIn(S, i) = Cardinality(Below(i))
    BY DEF RankIn
  <2> HIDE DEF Below, n
  <2> QED
    BY <1>1, <2>2, <2>3, <2>4, <2>5
<1>3. ASSUME NEW i \in S, NEW j \in S, i < j PROVE RankIn(S, i) < RankIn(S, j)
  <2>1. i \in Nat /\ j \in Nat
    OBVIOUS
  <2>2. Below(i) \cup {i} \in SUBSET Below(j) /\ i \notin Below(i)
    <3>1. ASSUME NEW m \in Below(i) PROVE m \in Below(j)
      <4>1. m \in S /\ m \in Nat /\ m < i
        OBVIOUS
      <4> QED
        BY <1>3, <2>1, <4>1
    <3>2. i \in Below(j) /\ i \notin Below(i)
      BY <1>3, <2>1
    <3> HIDE DEF Below
    <3> QED
      BY <3>1, <3>2
  <2>3. IsFiniteSet(Below(i)) /\ IsFiniteSet(Below(j))
    BY <1>2
  <2>4. Cardinality(Below(i) \cup {i}) = Cardinality(Below(i)) + 1
    BY <2>2, <2>3, FS_AddElement
  <2>5. Cardinality(Below(i) \cup {i}) <= Cardinality(Below(j))
    BY <2>2, <2>3, FS_Subset
  <2>6. RankIn(S, i) = Cardinality(Below(i)) /\ RankIn(S, j) = Cardinality(Below(j))
    BY DEF RankIn
  <2>7. RankIn(S, i) \in Nat /\ RankIn(S, j) \in Nat
    BY <1>2
  <2> HIDE DEF Below
  <2> QED
    BY <2>4, <2>5, <2>6, <2>7
<1>4. ASSUME NEW i \in S, NEW j \in S, RankIn(S, i) = RankIn(S, j) PROVE i = j
  <2>1. i \in Nat /\ j \in Nat /\ RankIn(S, i) \in Nat
    BY <1>2
  <2> QED
    BY <1>3, <1>4, <2>1
<1>5. place \in [S -> 1..n]
  BY <1>2
<1>6. \A i, j \in S : place[i] = place[j] => i = j
  <2> SUFFICES ASSUME NEW i \in S, NEW j \in S, place[i] = place[j] PROVE i = j
    OBVIOUS
  <2>1. RankIn(S, i) \in Nat /\ RankIn(S, j) \in Nat
    BY <1>2
  <2> QED
    BY <1>4, <2>1
<1>7. \A k \in 1..n : \E i \in S : RankIn(S, i) + 1 = k
  <2> HIDE DEF place
  <2>1. place \in Injection(S, 1..n)
    BY <1>5, <1>6 DEF Injection, IsInjective
  <2>2. IsFiniteSet(1..n) /\ Cardinality(1..n) = n
    BY <1>1, FS_Interval
  <2>3. place \in Surjection(S, 1..n)
    BY <2>1, <2>2, FS_Injection
  <2>4. \A k \in 1..n : \E i \in S : place[i] = k
    BY <2>3 DEF Surjection
  <2> QED
    BY <2>4 DEF place
<1> DEFINE at(k) == CHOOSE i \in S : RankIn(S, i) = k - 1
<1>8. InOrder(S) = [k \in 1..n |-> at(k)]
  BY DEF InOrder, RankIn
<1>9. ASSUME NEW k \in 1..n PROVE at(k) \in S /\ RankIn(S, at(k)) = k - 1
  <2>1. PICK i \in S : RankIn(S, i) + 1 = k
    BY <1>7
  <2>2. RankIn(S, i) = k - 1
    <3>1. RankIn(S, i) \in Nat
      BY <1>2
    <3> QED
      BY <2>1, <3>1
  <2> QED
    BY <2>2
<1> HIDE DEF at, n
<1>10. InOrder(S) \in Seq(S) /\ Len(InOrder(S)) = n
  BY <1>1, <1>8, <1>9
<1>11. ASSUME NEW i \in S PROVE \E k \in 1..n : InOrder(S)[k] = i
  <2> DEFINE k == RankIn(S, i) + 1
  <2>1. k \in 1..n /\ k - 1 = RankIn(S, i)
    <3>1. RankIn(S, i) \in Nat /\ RankIn(S, i) + 1 \in 1..n
      BY <1>2
    <3> QED
      BY <3>1
  <2> HIDE DEF k
  <2>2. at(k) = i
    BY <1>4, <1>9, <2>1
  <2> QED
    BY <1>8, <2>1, <2>2
<1>12. ASSUME NEW k \in 1..n, NEW l \in 1..n, k < l PROVE InOrder(S)[k] < InOrder(S)[l]
  <2>1. /\ at(k) \in S /\ RankIn(S, at(k)) = k - 1
        /\ at(l) \in S /\ RankIn(S, at(l)) = l - 1
    BY <1>9
  <2>2. at(k) \in Nat /\ at(l) \in Nat
    BY <2>1
  <2>3. ~(k - 1 = l - 1) /\ ~(l - 1 < k - 1)
    BY <1>1, <1>12
  <2>4. at(k) # at(l) /\ ~(at(l) < at(k))
    BY <1>3, <2>1, <2>3
  <2> QED
    BY <1>8, <2>2, <2>4
<1> QED
  BY <1>1, <1>10, <1>11, <1>12 DEF n

-----------------------------------------------------------------------------

\* FlattenSeq as a function of how many of the sequences are joined.
Flattening(seqs) ==
    LET flatten[i \in 1..Len(seqs)] ==
            IF i = 1 THEN seqs[i] ELSE flatten[i - 1] \o seqs[i]
    IN flatten

\* Flattening appends sequence after sequence.
LEMMA FlatteningSteps ==
    ASSUME NEW X, NEW seqs \in Seq(Seq(X))
    PROVE  /\ Len(seqs) \in Nat
           /\ \A n \in 1..Len(seqs) : Flattening(seqs)[n] \in Seq(X)
           /\ Len(seqs) > 0 => Flattening(seqs)[1] = seqs[1]
           /\ \A n \in 2..Len(seqs) : Flattening(seqs)[n] = Flattening(seqs)[n - 1] \o seqs[n]
<1> DEFINE N == Len(seqs)
           Y == Seq(X)
           join == [a \in (1..N) \X Y |-> a[2] \o seqs[a[1]]]
           Body(g) == [i \in 1..N |-> IF i = 1 THEN seqs[i] ELSE g[i - 1] \o seqs[i]]
<1>1. N \in Nat /\ \A n \in 1..N : seqs[n] \in Y
  BY ElementOfSeq
<1>2. <<>> \in Y /\ \A s \in Y : <<>> \o s = s
  BY ConcatEmptySeq
<1>3. join \in [(1..N) \X Y -> Y]
  <2>1. ASSUME NEW a \in (1..N) \X Y PROVE a[2] \o seqs[a[1]] \in Y
    <3>1. a[1] \in 1..N /\ a[2] \in Y
      OBVIOUS
    <3>2. seqs[a[1]] \in Y
      BY <1>1, <3>1
    <3> QED
      BY <3>1, <3>2, ConcatProperties
  <2> HIDE DEF Y
  <2> QED
    BY <2>1
<1> HIDE DEF Y
<1>4. \A n \in 1..N, x \in Y : join[<<n, x>>] = x \o seqs[n]
  OBVIOUS
<1>5. PICK g : Computation(g, Y, <<>>, join, N)
  <2> HIDE DEF join, N
  <2> QED
    BY <1>1, <1>2, <1>3, RecursionExists
<1> HIDE DEF join, N
<1>6. /\ \A n \in 0..N : g[n] \in Y
      /\ \A n \in 1..N : g[n] = g[n - 1] \o seqs[n]
  <2>1. \A n \in 0..N : g[n] \in Y
    BY <1>5 DEF Computation
  <2>2. \A n \in 1..N : n - 1 \in 0..N
    BY <1>1
  <2> QED
    BY <1>4, <1>5, <2>1, <2>2 DEF Computation
<1> DEFINE h == [i \in 1..N |-> g[i]]
<1>7. h = Body(h)
  <2>1. ASSUME NEW n \in 1..N PROVE h[n] = Body(h)[n]
    <3>1. CASE n = 1
      <4>0. 1 \in 1..N /\ 1 - 1 = 0
        BY <3>1
      <4>1. g[1] = g[0] \o seqs[1] /\ g[0] = <<>>
        BY <1>5, <1>6, <4>0 DEF Computation
      <4> QED
        BY <1>1, <1>2, <3>1, <4>1
    <3>2. CASE n # 1
      <4>1. n - 1 \in 1..N
        BY <1>1, <3>2
      <4>2. Body(h)[n] = h[n - 1] \o seqs[n] /\ h[n - 1] = g[n - 1] /\ h[n] = g[n]
        BY <3>2, <4>1
      <4> QED
        BY <1>6, <4>2
    <3> QED
      BY <3>1, <3>2
  <2> QED
    BY <2>1
<1>8. Flattening(seqs) = CHOOSE f : f = Body(f)
  BY DEF Flattening, N
<1> DEFINE f == Flattening(seqs)
<1>9. f = Body(f)
  <2> HIDE DEF Body, h
  <2> QED
    BY <1>7, <1>8
<1> HIDE DEF f
<1>10. /\ N > 0 => f[1] = seqs[1]
       /\ \A n \in 2..N : f[n] = f[n - 1] \o seqs[n]
  <2>1. (N > 0 => 1 \in 1..N) /\ \A n \in 2..N : n \in 1..N /\ n # 1
    BY <1>1
  <2> DEFINE b == Body(f)
  <2>2. (N > 0 => b[1] = seqs[1]) /\ \A n \in 2..N : b[n] = f[n - 1] \o seqs[n]
    BY <2>1
  <2> HIDE DEF b
  <2>3. f = b
    BY <1>9 DEF b
  <2> QED
    BY <2>2, <2>3
<1> DEFINE S == {n \in Nat : n \in 1..N => f[n] \in Y}
<1>11. 0 \in S
  OBVIOUS
<1>12. ASSUME NEW n \in Nat, n \in S PROVE n + 1 \in S
  <2> SUFFICES ASSUME n + 1 \in 1..N PROVE f[n + 1] \in Y
    OBVIOUS
  <2>1. CASE n = 0
    <3>1. n + 1 = 1 /\ N > 0 /\ 1 \in 1..N
      BY <1>1, <2>1
    <3> QED
      BY <1>1, <1>10, <3>1
  <2>2. CASE n # 0
    <3>1. n + 1 \in 2..N /\ (n + 1) - 1 = n /\ n \in 1..N
      BY <1>1, <2>2
    <3>2. f[n] \in Y /\ seqs[n + 1] \in Y
      BY <1>1, <1>12, <3>1
    <3>3. f[n + 1] = f[n] \o seqs[n + 1]
      BY <1>10, <3>1
    <3> QED
      BY <3>2, <3>3, ConcatProperties DEF Y
  <2> QED
    BY <2>1, <2>2
<1>13. \A n \in 1..N : f[n] \in Y
  <2>1. Nat \subseteq S
    <3> HIDE DEF S
    <3> QED
      BY <1>11, <1>12, NatInd
  <2> QED
    BY <1>1, <2>1
<1> QED
  BY <1>1, <1>10, <1>13 DEF f, N, Y

\* What is flattened is a sequence of the elements of the sequences.
LEMMA FlattenSeqIs ==
    ASSUME NEW X, NEW seqs \in Seq(Seq(X))
    PROVE  /\ FlattenSeq(seqs) \in Seq(X)
           /\ seqs # <<>> => FlattenSeq(seqs) = Flattening(seqs)[Len(seqs)]
<1>1. CASE Len(seqs) = 0
  <2>1. seqs = <<>>
    BY <1>1
  <2>2. FlattenSeq(seqs) = <<>>
    BY <1>1, <2>1 DEF FlattenSeq
  <2>3. <<>> \in Seq(X)
    OBVIOUS
  <2> QED
    BY <2>1, <2>2, <2>3
<1>2. CASE Len(seqs) # 0
  <2>1. FlattenSeq(seqs) = Flattening(seqs)[Len(seqs)]
    BY <1>2 DEF FlattenSeq, Flattening
  <2>2. Len(seqs) \in 1..Len(seqs)
    BY <1>2
  <2> QED
    BY <2>1, <2>2, FlatteningSteps
<1> QED
  BY <1>1, <1>2

-----------------------------------------------------------------------------
(***************************************************************************)
(* Chains: sequences in which every two elements are related.              *)
(***************************************************************************)

\* A sequence whose elements stand to each other, in order, as A says; two of
\* which each element of the first stands so to each of the second; and a
\* sequence of sequences that would be such a sequence if it were flattened.
Chain(s, A) == \A i, j \in 1..Len(s) : i < j => <<s[i], s[j]>> \in A

Across(s, t, A) == \A x \in ToSet(s), y \in ToSet(t) : <<x, y>> \in A

Chains(seqs, A) ==
    /\ \A k \in 1..Len(seqs) : Chain(seqs[k], A)
    /\ \A k, l \in 1..Len(seqs) : k < l => Across(seqs[k], seqs[l], A)

Elements(seqs) == UNION {ToSet(seqs[k]) : k \in 1..Len(seqs)}

\* The elements of a sequence.
LEMMA ToSetIs ==
    ASSUME NEW X, NEW s \in Seq(X)
    PROVE  /\ ToSet(s) = {s[i] : i \in 1..Len(s)}
           /\ ToSet(s) \subseteq X
           /\ Len(s) \in Nat
<1>1. DOMAIN s = 1..Len(s) /\ Len(s) \in Nat
  OBVIOUS
<1>2. ToSet(s) = {s[i] : i \in 1..Len(s)}
  BY <1>1 DEF ToSet
<1>3. \A i \in 1..Len(s) : s[i] \in X
  BY ElementOfSeq
<1> QED
  BY <1>1, <1>2, <1>3

\* Two chains, of which the one goes across to the other, make a chain.
LEMMA ConcatChain ==
    ASSUME NEW X, NEW s \in Seq(X), NEW t \in Seq(X), NEW A
    PROVE  /\ s \o t \in Seq(X)
           /\ ToSet(s \o t) = ToSet(s) \cup ToSet(t)
           /\ Chain(s, A) /\ Chain(t, A) /\ Across(s, t, A) => Chain(s \o t, A)
<1> DEFINE c == s \o t
<1>1. Len(s) \in Nat /\ Len(t) \in Nat
  OBVIOUS
<1>2. /\ c \in Seq(X) /\ Len(c) = Len(s) + Len(t)
      /\ \A i \in 1..(Len(s) + Len(t)) : c[i] = IF i <= Len(s) THEN s[i] ELSE t[i - Len(s)]
  BY ConcatProperties
<1> HIDE DEF c
<1>3. ToSet(c) = {c[i] : i \in 1..Len(c)} /\ ToSet(s) = {s[i] : i \in 1..Len(s)}
      /\ ToSet(t) = {t[i] : i \in 1..Len(t)}
  BY <1>2, ToSetIs
<1>4. ASSUME NEW i \in 1..Len(c)
      PROVE  \/ i \in 1..Len(s) /\ c[i] = s[i]
             \/ i - Len(s) \in 1..Len(t) /\ c[i] = t[i - Len(s)] /\ i > Len(s)
  BY <1>1, <1>2
<1>5. ToSet(c) = ToSet(s) \cup ToSet(t)
  <2>1. \A i \in 1..Len(c) : c[i] \in ToSet(s) \cup ToSet(t)
    BY <1>3, <1>4
  <2>2. \A i \in 1..Len(s) : i \in 1..Len(c) /\ c[i] = s[i]
    BY <1>1, <1>2
  <2>3. ASSUME NEW i \in 1..Len(t) PROVE t[i] \in ToSet(c)
    <3>1. i + Len(s) \in 1..Len(c) /\ ~(i + Len(s) <= Len(s)) /\ (i + Len(s)) - Len(s) = i
      BY <1>1, <1>2
    <3>2. c[i + Len(s)] = t[i]
      BY <1>2, <3>1
    <3> QED
      BY <1>3, <3>1, <3>2
  <2> QED
    BY <1>3, <2>1, <2>2, <2>3
<1>6. ASSUME Chain(s, A), Chain(t, A), Across(s, t, A),
             NEW i \in 1..Len(c), NEW j \in 1..Len(c), i < j
      PROVE  <<c[i], c[j]>> \in A
  <2>1. CASE i \in 1..Len(s) /\ j \in 1..Len(s) /\ c[i] = s[i] /\ c[j] = s[j]
    BY <1>6, <2>1 DEF Chain
  <2>2. CASE i \in 1..Len(s) /\ c[i] = s[i] /\ j - Len(s) \in 1..Len(t) /\ c[j] = t[j - Len(s)]
    <3>1. c[i] \in ToSet(s) /\ c[j] \in ToSet(t)
      BY <1>3, <2>2
    <3> QED
      BY <1>6, <3>1 DEF Across
  <2>3. CASE /\ i - Len(s) \in 1..Len(t) /\ c[i] = t[i - Len(s)]
             /\ j - Len(s) \in 1..Len(t) /\ c[j] = t[j - Len(s)]
    <3>1. i - Len(s) < j - Len(s)
      BY <1>1, <1>6
    <3> QED
      BY <1>6, <2>3, <3>1 DEF Chain
  <2>4. ~(i > Len(s) /\ j \in 1..Len(s))
    BY <1>1, <1>6
  <2> QED
    BY <1>4, <2>1, <2>2, <2>3, <2>4
<1>7. Chain(s, A) /\ Chain(t, A) /\ Across(s, t, A) => Chain(c, A)
  BY <1>6 DEF Chain
<1> QED
  BY <1>2, <1>5, <1>7 DEF c

\* At most one element makes a chain.
LEMMA SingleChain ==
    ASSUME NEW x, NEW A
    PROVE  /\ Chain(<<x>>, A) /\ ToSet(<<x>>) = {x} /\ \A X : x \in X => <<x>> \in Seq(X)
           /\ Chain(<<>>, A) /\ ToSet(<<>>) = {}
<1>1. Len(<<x>>) = 1 /\ <<x>>[1] = x /\ Len(<<>>) = 0
  OBVIOUS
<1>2. Chain(<<x>>, A)
  BY <1>1 DEF Chain
<1>3. Chain(<<>>, A)
  BY <1>1 DEF Chain
<1>4. ToSet(<<x>>) = {x}
  BY DEF ToSet
<1>5. ToSet(<<>>) = {}
  BY DEF ToSet
<1>6. \A X : x \in X => <<x>> \in Seq(X)
  OBVIOUS
<1> QED
  BY <1>2, <1>3, <1>4, <1>5, <1>6

\* A chain goes on with what all of it is related to.
LEMMA AppendChain ==
    ASSUME NEW X, NEW s \in Seq(X), NEW x \in X, NEW A
    PROVE  /\ Append(s, x) \in Seq(X)
           /\ ToSet(Append(s, x)) = ToSet(s) \cup {x}
           /\ Chain(s, A) /\ (\A y \in ToSet(s) : <<y, x>> \in A) => Chain(Append(s, x), A)
<1> DEFINE t == <<x>>
<1>1. t \in Seq(X) /\ Chain(t, A) /\ ToSet(t) = {x}
  BY SingleChain
<1>2. Append(s, x) = s \o t
  OBVIOUS
<1> HIDE DEF t
<1>3. (\A y \in ToSet(s) : <<y, x>> \in A) => Across(s, t, A)
  BY <1>1 DEF Across
<1> QED
  BY <1>1, <1>2, <1>3, ConcatChain

\* Chains go on with a chain that all of them are related to.
LEMMA AppendChains ==
    ASSUME NEW X, NEW seqs \in Seq(Seq(X)), NEW t \in Seq(X), NEW A
    PROVE  /\ Append(seqs, t) \in Seq(Seq(X))
           /\ Elements(Append(seqs, t)) = Elements(seqs) \cup ToSet(t)
           /\ Chains(seqs, A) /\ Chain(t, A)
              /\ (\A x \in Elements(seqs), y \in ToSet(t) : <<x, y>> \in A)
                 => Chains(Append(seqs, t), A)
<1> DEFINE c == Append(seqs, t)
           N == Len(seqs)
<1>1. /\ c \in Seq(Seq(X)) /\ Len(c) = N + 1 /\ c[N + 1] = t
      /\ \A i \in 1..N : c[i] = seqs[i]
      /\ N \in Nat
  BY AppendProperties
<1> HIDE DEF c, N
<1>2. \A k \in 1..(N + 1) : k \in 1..N \/ k = N + 1
  BY <1>1
<1>3. N + 1 \in 1..(N + 1) /\ \A k \in 1..N : k \in 1..(N + 1)
  BY <1>1
<1>4. Elements(c) = Elements(seqs) \cup ToSet(t)
  BY <1>1, <1>2, <1>3 DEF Elements, N
<1>5. ASSUME Chains(seqs, A), Chain(t, A),
             \A x \in Elements(seqs), y \in ToSet(t) : <<x, y>> \in A
      PROVE  Chains(c, A)
  <2>1. \A k \in 1..Len(c) : Chain(c[k], A)
    BY <1>1, <1>2, <1>5 DEF Chains, N
  <2>2. ASSUME NEW k \in 1..Len(c), NEW l \in 1..Len(c), k < l PROVE Across(c[k], c[l], A)
    <3>1. k \in 1..N /\ (l \in 1..N \/ l = N + 1)
      BY <1>1, <2>2
    <3>2. CASE l \in 1..N
      BY <1>1, <1>5, <2>2, <3>1, <3>2 DEF Chains, N
    <3>3. CASE l = N + 1
      <4>1. c[k] = seqs[k] /\ c[l] = t
        BY <1>1, <3>1, <3>3
      <4>2. ToSet(seqs[k]) \subseteq Elements(seqs)
        BY <3>1 DEF Elements, N
      <4> QED
        BY <1>5, <4>1, <4>2 DEF Across
    <3> QED
      BY <3>1, <3>2, <3>3
  <2> QED
    BY <2>1, <2>2 DEF Chains
<1> QED
  BY <1>1, <1>4, <1>5 DEF c

\* Flattening keeps the elements and their order.
LEMMA FlattenChain ==
    ASSUME NEW X, NEW seqs \in Seq(Seq(X)), NEW A, Chains(seqs, A)
    PROVE  /\ FlattenSeq(seqs) \in Seq(X)
           /\ Chain(FlattenSeq(seqs), A)
           /\ ToSet(FlattenSeq(seqs)) = Elements(seqs)
<1> DEFINE N == Len(seqs)
           f == Flattening(seqs)
           Upto(n) == UNION {ToSet(seqs[k]) : k \in 1..n}
           S == {n \in Nat : n + 1 \in 1..N =>
                    Chain(f[n + 1], A) /\ ToSet(f[n + 1]) = Upto(n + 1)}
<1>1. /\ N \in Nat
      /\ \A n \in 1..N : f[n] \in Seq(X)
      /\ N > 0 => f[1] = seqs[1]
      /\ \A n \in 2..N : f[n] = f[n - 1] \o seqs[n]
  BY FlatteningSteps
<1>2. \A n \in 1..N : seqs[n] \in Seq(X) /\ Chain(seqs[n], A)
  BY ElementOfSeq DEF Chains
<1> HIDE DEF f
<1>3. 0 \in S
  <2>1. N > 0 => Upto(1) = ToSet(seqs[1]) /\ 1 \in 1..N
    BY <1>1
  <2>2. 0 + 1 = 1 /\ (1 \in 1..N => N > 0)
    BY <1>1
  <2> QED
    BY <1>1, <1>2, <2>1, <2>2
<1>4. ASSUME NEW n \in Nat, n \in S PROVE n + 1 \in S
  <2> DEFINE m == n + 1
  <2> SUFFICES ASSUME m + 1 \in 1..N
               PROVE  Chain(f[m + 1], A) /\ ToSet(f[m + 1]) = Upto(m + 1)
    OBVIOUS
  <2>1. m \in 1..N /\ m + 1 \in 2..N /\ (m + 1) - 1 = m
    BY <1>1
  <2>2. Chain(f[m], A) /\ ToSet(f[m]) = Upto(m)
    BY <1>4, <2>1
  <2> HIDE DEF m
  <2>3. f[m + 1] = f[m] \o seqs[m + 1]
    BY <1>1, <2>1
  <2>4. Across(f[m], seqs[m + 1], A)
    <3>1. \A k \in 1..m : k \in 1..N /\ m + 1 \in 1..N /\ k < m + 1
      BY <1>1, <2>1
    <3>2. \A k \in 1..m : Across(seqs[k], seqs[m + 1], A)
      BY <3>1 DEF Chains
    <3> QED
      BY <2>2, <3>2 DEF Across
  <2>5. f[m] \in Seq(X) /\ seqs[m + 1] \in Seq(X) /\ Chain(seqs[m + 1], A)
    BY <1>1, <1>2, <2>1
  <2>6. Chain(f[m + 1], A) /\ ToSet(f[m + 1]) = ToSet(f[m]) \cup ToSet(seqs[m + 1])
    BY <2>2, <2>3, <2>4, <2>5, ConcatChain
  <2>7. Upto(m + 1) = Upto(m) \cup ToSet(seqs[m + 1])
    <3>1. \A k : k \in 1..(m + 1) <=> k \in 1..m \/ k = m + 1
      BY <2>1
    <3> QED
      BY <3>1
  <2> QED
    BY <2>2, <2>6, <2>7
<1>5. Nat \subseteq S
  <2> HIDE DEF S
  <2> QED
    BY <1>3, <1>4, NatInd
<1>6. CASE seqs = <<>>
  <2>1. FlattenSeq(seqs) \in Seq(X)
    BY FlattenSeqIs
  <2>2. FlattenSeq(seqs) = <<>>
    BY <1>6 DEF FlattenSeq
  <2>3. Elements(seqs) = {}
    <3>1. 1..Len(seqs) = {}
      BY <1>6
    <3> QED
      BY <3>1 DEF Elements
  <2> QED
    BY <2>1, <2>2, <2>3, SingleChain
<1>7. CASE seqs # <<>>
  <2>1. FlattenSeq(seqs) = f[N] /\ FlattenSeq(seqs) \in Seq(X)
    BY <1>7, FlattenSeqIs DEF f
  <2>2. N \in 1..N /\ N - 1 \in Nat /\ (N - 1) + 1 = N
    BY <1>1, <1>7
  <2>3. Chain(f[N], A) /\ ToSet(f[N]) = Upto(N)
    <3>1. N - 1 \in S
      BY <1>5, <2>2
    <3> QED
      BY <2>2, <3>1
  <2> QED
    BY <2>1, <2>3 DEF Elements
<1> QED
  BY <1>6, <1>7

================================================================================
