--------------------------- MODULE ChunkStreamProofs ---------------------------
(***************************************************************************)
(* Proofs about ChunkStream: the four chunkers of the factory do what the  *)
(* stream needs of a chunker, on texts of any length, so that what it      *)
(* emits is right whatever the document, the segments and the length of a  *)
(* flush.                                                                  *)
(***************************************************************************)
EXTENDS ChunkStream, SequenceLemmas

-----------------------------------------------------------------------------
\* Slices.

\* What a slice is, when its ends are in the text.
LEMMA SliceProperties ==
    ASSUME NEW U, NEW f \in Seq(U), NEW s \in 0..Len(f), NEW e \in s..Len(f)
    PROVE  /\ Slice(f, s, e) \in Seq(U)
           /\ Len(Slice(f, s, e)) = e - s
           /\ \A i \in 1..(e - s) : Slice(f, s, e)[i] = f[s + i]
<1>1. Len(f) \in Nat
  BY LenProperties
<1>2. \A i \in (s + 1)..e : f[i] \in U
  BY <1>1, ElementOfSeq
<1>3. /\ SubSeq(f, s + 1, e) \in Seq(U)
      /\ Len(SubSeq(f, s + 1, e)) = IF s + 1 <= e THEN e - (s + 1) + 1 ELSE 0
      /\ \A i \in 1..(e - (s + 1) + 1) : SubSeq(f, s + 1, e)[i] = f[s + 1 + i - 1]
  BY <1>1, <1>2, SubSeqProperties
<1>4. QED
  BY <1>1, <1>3 DEF Slice

\* Slices of one length that agree at every place are one slice.
LEMMA SlicesEqual ==
    ASSUME NEW U, NEW s \in Seq(U), NEW t \in Seq(U), NEW n \in Nat,
           Len(s) = n, Len(t) = n, \A i \in 1..n : s[i] = t[i]
    PROVE  s = t
  BY SeqEqual

\* What a separator may hold in a slice of a text it may hold in the text.
LEMMA SeparatorInSlice ==
    ASSUME NEW U, NEW text \in Seq(U),
           NEW s \in 0..Len(text), NEW e \in s..Len(text), NEW i \in 1..(e - s),
           InSeparator(Slice(text, s, e), i)
    PROVE  InSeparator(text, s + i)
<1> DEFINE t == Slice(text, s, e)
<1>1. Len(text) \in Nat /\ s \in Nat /\ e \in Nat /\ s <= e /\ e <= Len(text)
  BY LenProperties
<1>2. Len(t) = e - s /\ \A k \in 1..(e - s) : t[k] = text[s + k]
  BY SliceProperties
<1>3. InSeparator(t, i)
  OBVIOUS
<1> HIDE DEF t
<1>4. CASE t[i] \in Blanks
  BY <1>2, <1>4 DEF InSeparator
<1>5. CASE t[i] \in Marks /\ i < Len(t) /\ t[i + 1] = "blank"
  <2>1. i + 1 \in 1..(e - s) /\ s + (i + 1) = (s + i) + 1 /\ s + i < Len(text)
    BY <1>1, <1>2, <1>5
  <2> QED
    BY <1>2, <1>5, <2>1 DEF InSeparator
<1> QED
  BY <1>3, <1>4, <1>5 DEF InSeparator

\* And so it may when more text follows.
LEMMA SeparatorInPrefix ==
    ASSUME NEW U, NEW text \in Seq(U), NEW more \in Seq(U), NEW i \in 1..Len(text),
           InSeparator(text, i)
    PROVE  InSeparator(text \o more, i)
<1> DEFINE t == text \o more
<1>1. /\ Len(text) \in Nat /\ Len(more) \in Nat /\ Len(t) = Len(text) + Len(more)
      /\ \A k \in 1..Len(text) : t[k] = text[k]
  <2>1. Len(text) \in Nat /\ Len(more) \in Nat
    BY LenProperties
  <2>2. \A k \in 1..Len(text) : k \in 1..(Len(text) + Len(more)) /\ k <= Len(text)
    BY <2>1
  <2> QED
    BY <2>1, <2>2, ConcatProperties
<1> HIDE DEF t
<1>2. CASE text[i] \in Blanks
  BY <1>1, <1>2 DEF InSeparator, t
<1>3. CASE text[i] \in Marks /\ i < Len(text) /\ text[i + 1] = "blank"
  <2>1. i + 1 \in 1..Len(text) /\ i < Len(t)
    BY <1>1, <1>3
  <2> QED
    BY <1>1, <1>3, <2>1 DEF InSeparator, t
<1> QED
  BY <1>2, <1>3 DEF InSeparator

\* Text that is appended does not change the slices before it.
LEMMA SliceOfPrefix ==
    ASSUME NEW U, NEW f \in Seq(U), NEW g \in Seq(U),
           NEW s \in 0..Len(f), NEW e \in s..Len(f)
    PROVE  Slice(f \o g, s, e) = Slice(f, s, e)
<1> DEFINE h == f \o g
           x == Slice(h, s, e)
           y == Slice(f, s, e)
<1>1. /\ Len(f) \in Nat /\ Len(g) \in Nat
      /\ h \in Seq(U) /\ Len(h) = Len(f) + Len(g)
      /\ \A i \in 1..Len(f) : h[i] = f[i]
  BY LenProperties, ConcatProperties
<1>2. y \in Seq(U) /\ Len(y) = e - s /\ \A i \in 1..(e - s) : y[i] = f[s + i]
  BY SliceProperties
<1> HIDE DEF h, y
<1>3. s \in 0..Len(h) /\ e \in s..Len(h)
  BY <1>1
<1>4. x \in Seq(U) /\ Len(x) = e - s /\ \A i \in 1..(e - s) : x[i] = h[s + i]
  BY <1>1, <1>3, SliceProperties
<1> HIDE DEF x
<1>5. \A i \in 1..(e - s) : x[i] = y[i]
  <2> TAKE i \in 1..(e - s)
  <2>1. s + i \in 1..Len(f)
    BY <1>1
  <2>2. QED
    BY <1>1, <1>2, <1>4, <2>1
<1>6. e - s \in Nat
  BY <1>1
<1>7. x = y
  BY <1>2, <1>4, <1>5, <1>6, SlicesEqual
<1>8. QED
  BY <1>7 DEF h, x, y

\* The slice of a tail is a slice of the whole.
LEMMA SliceOfTail ==
    ASSUME NEW U, NEW f \in Seq(U), NEW b \in 0..Len(f),
           NEW s \in 0..(Len(f) - b), NEW e \in s..(Len(f) - b)
    PROVE  Slice(Slice(f, b, Len(f)), s, e) = Slice(f, b + s, b + e)
<1> DEFINE t == Slice(f, b, Len(f))
           x == Slice(t, s, e)
           y == Slice(f, b + s, b + e)
<1>1. Len(f) \in Nat
  BY LenProperties
<1>2. Len(f) \in b..Len(f) /\ b + s \in 0..Len(f) /\ b + e \in (b + s)..Len(f)
  BY <1>1
<1>3. t \in Seq(U) /\ Len(t) = Len(f) - b /\ \A i \in 1..(Len(f) - b) : t[i] = f[b + i]
  BY <1>2, SliceProperties
<1>4. /\ y \in Seq(U) /\ Len(y) = (b + e) - (b + s)
      /\ \A i \in 1..((b + e) - (b + s)) : y[i] = f[(b + s) + i]
  BY <1>2, SliceProperties
<1> HIDE DEF t, y
<1>5. s \in 0..Len(t) /\ e \in s..Len(t)
  BY <1>1, <1>3
<1>6. x \in Seq(U) /\ Len(x) = e - s /\ \A i \in 1..(e - s) : x[i] = t[s + i]
  BY ZenonT(30), <1>3, <1>5, SliceProperties
<1> HIDE DEF x
<1>7. \A i \in 1..(e - s) : x[i] = y[i]
  <2> TAKE i \in 1..(e - s)
  <2>1. /\ s + i \in 1..(Len(f) - b) /\ i \in 1..((b + e) - (b + s))
        /\ b + (s + i) = (b + s) + i
    BY <1>1
  <2>2. QED
    BY <1>3, <1>4, <1>6, <2>1
<1>8. e - s \in Nat /\ (b + e) - (b + s) = e - s
  BY <1>1
<1>9. x = y
  BY <1>4, <1>6, <1>7, <1>8, SlicesEqual
<1>10. QED
  BY <1>9 DEF t, x, y

\* Appending to the tail appends to the whole.
LEMMA AppendToTail ==
    ASSUME NEW U, NEW f \in Seq(U), NEW g \in Seq(U), NEW b \in 0..Len(f)
    PROVE  Slice(f, b, Len(f)) \o g = Slice(f \o g, b, Len(f \o g))
<1> DEFINE h == f \o g
           t == Slice(f, b, Len(f))
           x == t \o g
           y == Slice(h, b, Len(h))
           n == Len(f) + Len(g) - b
<1>1. /\ Len(f) \in Nat /\ Len(g) \in Nat
      /\ h \in Seq(U) /\ Len(h) = Len(f) + Len(g)
      /\ \A i \in 1..(Len(f) + Len(g)) :
            h[i] = IF i <= Len(f) THEN f[i] ELSE g[i - Len(f)]
  BY LenProperties, ConcatProperties
<1>2. Len(f) \in b..Len(f)
  BY <1>1
<1>3. t \in Seq(U) /\ Len(t) = Len(f) - b /\ \A i \in 1..(Len(f) - b) : t[i] = f[b + i]
  BY <1>2, SliceProperties
<1> HIDE DEF h, t
<1>4. /\ x \in Seq(U) /\ Len(x) = Len(t) + Len(g)
      /\ \A i \in 1..(Len(t) + Len(g)) :
            x[i] = IF i <= Len(t) THEN t[i] ELSE g[i - Len(t)]
  BY <1>3, ConcatProperties
<1>5. b \in 0..Len(h) /\ Len(h) \in b..Len(h)
  BY <1>1
<1>6. y \in Seq(U) /\ Len(y) = Len(h) - b /\ \A i \in 1..(Len(h) - b) : y[i] = h[b + i]
  BY ZenonT(30), <1>1, <1>5, SliceProperties
<1> HIDE DEF x, y
<1>7. n \in Nat /\ Len(x) = n /\ Len(y) = n
  BY <1>1, <1>3, <1>4, <1>6
<1>8. \A i \in 1..n : x[i] = y[i]
  <2> TAKE i \in 1..n
  <2>1. /\ i \in 1..(Len(h) - b) /\ i \in 1..(Len(t) + Len(g))
        /\ b + i \in 1..(Len(f) + Len(g))
        /\ (b + i) - Len(f) = i - Len(t)
        /\ i <= Len(t) <=> b + i <= Len(f)
        /\ i <= Len(t) => i \in 1..(Len(f) - b)
    BY <1>1, <1>3
  <2>2. QED
    BY <1>1, <1>3, <1>4, <1>6, <2>1
<1>9. x = y
  <2> HIDE DEF n
  <2>1. QED
    BY <1>4, <1>6, <1>7, <1>8, SlicesEqual
<1>10. QED
  BY <1>9 DEF h, t, x, y

-----------------------------------------------------------------------------
(***************************************************************************)
(* The default chunker: the leaves of a text.                              *)
(***************************************************************************)

\* Half-open intervals of a text, those of them that are not empty, and those
\* that lie between two offsets.
Spans == {x \in Nat \X Nat : x[1] <= x[2]}

SpansIn(s, e) == {x \in Spans : s <= x[1] /\ x[2] <= e}

\* The units of a text are numbered from 1: a unit is in a span.
In(i, x) == x[1] < i /\ i <= x[2]

InSome(i, spans) == \E x \in ToSet(spans) : In(i, x)

\* One span ends before the other begins; the same, or where it begins if
\* neither is empty; the same, or where it begins.
Apart == {p \in Spans \X Spans : p[1][2] < p[2][1]}

After == {p \in Spans \X Spans : /\ p[1][2] <= p[2][1]
                                 /\ p[1][1] < p[2][1]
                                 /\ p[1][2] < p[2][2]}

Before == {p \in Spans \X Spans : p[1][2] <= p[2][1]}

\* The pairs of spans that are so related.
LEMMA Related ==
    ASSUME NEW x \in Spans, NEW y \in Spans
    PROVE  /\ x[1] \in Nat /\ x[2] \in Nat /\ x[1] <= x[2]
           /\ <<x, y>> \in Apart <=> x[2] < y[1]
           /\ <<x, y>> \in After <=> x[2] <= y[1] /\ x[1] < y[1] /\ x[2] < y[2]
           /\ <<x, y>> \in Before <=> x[2] <= y[1]
<1> DEFINE p == <<x, y>>
<1>1. p \in Spans \X Spans /\ p[1] = x /\ p[2] = y
  OBVIOUS
<1> HIDE DEF p
<1>2. p \in Apart <=> x[2] < y[1]
  BY <1>1 DEF Apart
<1>3. p \in After <=> x[2] <= y[1] /\ x[1] < y[1] /\ x[2] < y[2]
  BY <1>1 DEF After
<1>4. x[1] \in Nat /\ x[2] \in Nat /\ x[1] <= x[2]
  BY DEF Spans
<1>5. p \in Before <=> x[2] <= y[1]
  BY <1>1 DEF Before
<1> QED
  BY <1>2, <1>3, <1>4, <1>5 DEF p

\* A chunk is not without end: a leaf of one unit fits.
LEMMA SizesAreNatural ==
    /\ ChunkSize \in Nat /\ ChunkSize >= 1
    /\ ChunkOverlap \in Nat /\ ChunkOverlap < ChunkSize
    /\ MinChunkSize \in Nat /\ MinChunkSize < ChunkSize
BY ConfigAssumption

\* The binary search finds an end that fits, behind the position.
LEMMA MaxFittingEndFits ==
    ASSUME NEW pos \in Nat, NEW end \in Nat, pos < end
    PROVE  /\ FindMaxFittingEnd(pos, end) \in (pos + 1)..end
           /\ FindMaxFittingEnd(pos, end) - pos <= ChunkSize
<1> DEFINE Best(e) == /\ e = pos + 1 \/ e - pos <= ChunkSize
                      /\ \A f \in (e + 1)..end : f - pos > ChunkSize
<1>1. \E e \in (pos + 1)..end : Best(e)
  <2>1. CASE end - pos <= ChunkSize
    <3>1. end \in (pos + 1)..end /\ (end + 1)..end = {}
      OBVIOUS
    <3> QED
      BY <2>1, <3>1
  <2>2. CASE end - pos > ChunkSize
    <3>1. pos + ChunkSize \in (pos + 1)..end /\ (pos + ChunkSize) - pos <= ChunkSize
      BY <2>2, SizesAreNatural
    <3>2. \A f \in (pos + ChunkSize + 1)..end : f - pos > ChunkSize
      BY SizesAreNatural
    <3> QED
      BY <3>1, <3>2
  <2> QED
    BY <2>1, <2>2, SizesAreNatural
<1> DEFINE found == FindMaxFittingEnd(pos, end)
<1>2. found = CHOOSE e \in (pos + 1)..end : Best(e)
  BY DEF FindMaxFittingEnd
<1>3. found \in (pos + 1)..end /\ Best(found)
  <2> HIDE DEF Best, found
  <2> QED
    BY <1>1, <1>2
<1> HIDE DEF found
<1> QED
  BY <1>3, SizesAreNatural DEF found

\* The end of the leaves that a loop has cut from a span so far.
Reached(leaves, span) == IF leaves = <<>> THEN span[1] ELSE Last(leaves)[2]

\* What n rounds of the loop have cut.
CutInv(leaves, span, n) ==
    LET pos == Reached(leaves, span)
    IN /\ leaves \in Seq(Spans)
       /\ pos \in span[1]..span[2]
       /\ pos = span[2] \/ pos >= span[1] + n
       /\ \A x \in ToSet(leaves) : /\ x[1] < x[2] /\ Width(x) <= ChunkSize
                                   /\ span[1] <= x[1] /\ x[2] <= pos
       /\ Chain(leaves, After)
       /\ \A i \in (span[1] + 1)..pos : InSome(i, leaves)

\* A round keeps it.
LEMMA CutLeafKeeps ==
    ASSUME NEW span \in Spans, NEW L, NEW n \in Nat, CutInv(L, span, n)
    PROVE  CutInv(CutLeaf(L, span), span, n + 1)
<1> DEFINE s == span[1]
           e == span[2]
           pos == Reached(L, span)
           new == <<pos, FindMaxFittingEnd(pos, e)>>
<1>1. s \in Nat /\ e \in Nat /\ s <= e
  BY DEF Spans
<1>2. /\ L \in Seq(Spans) /\ pos \in s..e /\ (pos = e \/ pos >= s + n)
      /\ \A x \in ToSet(L) : /\ x[1] < x[2] /\ Width(x) <= ChunkSize
                             /\ s <= x[1] /\ x[2] <= pos
      /\ Chain(L, After)
      /\ \A i \in (s + 1)..pos : InSome(i, L)
  BY DEF CutInv
<1>3. CutLeaf(L, span) = IF pos < e THEN Append(L, new) ELSE L
  BY DEF CutLeaf, Reached
<1> HIDE DEF s, e, pos
<1>4. CASE ~(pos < e)
  <2>1. CutLeaf(L, span) = L /\ pos = e
    BY <1>1, <1>2, <1>3, <1>4
  <2> QED
    BY <1>2, <2>1 DEF CutInv, s, e, pos
<1>5. CASE pos < e
  <2> DEFINE end == new[2]
             M == Append(L, new)
  <2>1. pos \in Nat /\ end \in (pos + 1)..e /\ end - pos <= ChunkSize
    BY <1>1, <1>2, <1>5, MaxFittingEndFits
  <2>2. new \in Spans /\ new[1] = pos
    BY <2>1 DEF Spans
  <2>3. end \in Nat /\ pos < end /\ end <= e /\ s <= pos
    BY <1>1, <1>2, <2>1
  <2> HIDE DEF new
  <2>4. M \in Seq(Spans) /\ M # <<>> /\ Last(M) = new
    BY <1>2, <2>2 DEF Last
  <2>5. Reached(M, span) = end
    BY <2>4 DEF Reached
  <2>6. ToSet(M) = ToSet(L) \cup {new}
    BY <1>2, <2>2, AppendChain
  <2>7. \A x \in ToSet(L) : x \in Spans
    BY <1>2, ToSetIs
  <2>8. \A y \in ToSet(L) : <<y, new>> \in After
    <3> SUFFICES ASSUME NEW y \in ToSet(L) PROVE <<y, new>> \in After
      OBVIOUS
    <3>1. y \in Spans /\ y[1] < y[2] /\ y[2] <= pos
      BY <1>2, <2>7
    <3>2. y[1] \in Nat /\ y[2] \in Nat
      BY <3>1 DEF Spans
    <3>3. y[2] <= new[1] /\ y[1] < new[1] /\ y[2] < new[2]
      BY <2>1, <2>2, <2>3, <3>1, <3>2
    <3> QED
      BY <2>2, <3>1, <3>3, Related
  <2>9. Chain(M, After)
    BY <1>2, <2>2, <2>8, AppendChain
  <2>10. \A x \in ToSet(M) : /\ x[1] < x[2] /\ Width(x) <= ChunkSize
                             /\ s <= x[1] /\ x[2] <= end
    <3>1. \A x \in ToSet(L) : x[2] <= end
      <4> SUFFICES ASSUME NEW x \in ToSet(L) PROVE x[2] <= end
        OBVIOUS
      <4>1. x[2] \in Nat /\ x[2] <= pos
        BY <1>2, <2>7 DEF Spans
      <4> QED
        BY <2>1, <2>3, <4>1
    <3>2. new[1] < new[2] /\ Width(new) <= ChunkSize /\ s <= new[1]
      BY <2>1, <2>2, <2>3 DEF Width
    <3> QED
      BY <1>2, <2>3, <2>6, <3>1, <3>2
  <2>11. ASSUME NEW i \in (s + 1)..end PROVE InSome(i, M)
    <3>1. CASE i <= pos
      <4>1. InSome(i, L)
        BY <1>1, <1>2, <2>1, <2>3, <3>1
      <4> QED
        BY <2>6, <4>1 DEF InSome
    <3>2. CASE i > pos
      <4>1. In(i, new)
        BY <1>1, <2>2, <2>3, <3>2 DEF In
      <4> QED
        BY <2>6, <4>1 DEF InSome
    <3> QED
      BY <1>1, <2>1, <3>1, <3>2
  <2>12. end \in s..e /\ (end = e \/ end >= s + (n + 1))
    BY <1>1, <1>2, <1>5, <2>1, <2>3
  <2>13. CutLeaf(L, span) = M
    BY <1>3, <1>5
  <2> HIDE DEF M, end
  <2> QED
    BY <2>4, <2>5, <2>9, <2>10, <2>11, <2>12, <2>13 DEF CutInv, s, e
<1> QED
  BY <1>1, <1>2, <1>4, <1>5

\* A round returns spans.
LEMMA CutLeafType ==
    ASSUME NEW span \in Spans, NEW L \in Seq(Spans)
    PROVE  CutLeaf(L, span) \in Seq(Spans)
<1> DEFINE pos == IF L = <<>> THEN span[1] ELSE Last(L)[2]
           end == FindMaxFittingEnd(pos, span[2])
           new == <<pos, end>>
<1>1. span[1] \in Nat /\ span[2] \in Nat
  BY DEF Spans
<1>2. pos \in Nat
  <2>1. CASE L = <<>>
    BY <1>1, <2>1
  <2>2. CASE L # <<>>
    <3>1. L[Len(L)] \in Spans
      BY <2>2, ElementOfSeq, LenProperties, EmptySeq
    <3> QED
      BY <2>2, <3>1 DEF Last, Spans
  <2> QED
    BY <2>1, <2>2
<1>3. CutLeaf(L, span) = IF pos < span[2] THEN Append(L, new) ELSE L
  BY DEF CutLeaf
<1> HIDE DEF pos
<1>4. CASE pos < span[2]
  <2>1. end \in (pos + 1)..span[2]
    BY <1>1, <1>2, <1>4, MaxFittingEndFits
  <2> HIDE DEF end
  <2>2. new \in Spans
    BY <1>1, <1>2, <2>1 DEF Spans
  <2> HIDE DEF new
  <2> QED
    BY <1>3, <1>4, <2>2
<1>5. CASE ~(pos < span[2])
  BY <1>3, <1>5
<1> QED
  BY <1>4, <1>5

\* The loop is round after round.
LEMMA HardSplittingSteps ==
    ASSUME NEW span \in Spans
    PROVE  /\ Width(span) \in Nat
           /\ HardSplitting(span)[0] = <<>>
           /\ \A n \in 1..Width(span) :
                HardSplitting(span)[n] = CutLeaf(HardSplitting(span)[n - 1], span)
<1> DEFINE N == Width(span)
           X == Seq(Spans)
           Body(g) == [n \in 0..N |-> IF n = 0 THEN <<>> ELSE CutLeaf(g[n - 1], span)]
           step == [a \in (1..N) \X X |-> CutLeaf(a[2], span)]
<1>1. N \in Nat
  BY DEF Width, Spans
<1>2. <<>> \in X
  OBVIOUS
<1>3. step \in [(1..N) \X X -> X]
  BY CutLeafType
<1>4. \A n \in 1..N, x \in X : step[<<n, x>>] = CutLeaf(x, span)
  OBVIOUS
<1>5. PICK g : Computation(g, X, <<>>, step, N)
  <2> HIDE DEF step, N, X
  <2> QED
    BY <1>1, <1>2, <1>3, RecursionExists
<1> HIDE DEF step, N, X
<1>6. g = Body(g)
  <2>1. \A n \in 0..N : n = 0 \/ n \in 1..N
    BY <1>1
  <2>2. \A n \in 1..N : n - 1 \in 0..N /\ g[n - 1] \in X
    BY <1>1, <1>5 DEF Computation
  <2>3. \A n \in 0..N : g[n] = Body(g)[n]
    BY <1>4, <1>5, <2>1, <2>2 DEF Computation
  <2> QED
    BY <1>5, <2>3 DEF Computation
<1>7. HardSplitting(span) = CHOOSE h : h = Body(h)
  BY DEF HardSplitting, N
<1> DEFINE f == HardSplitting(span)
<1>8. f = Body(f)
  <2> HIDE DEF Body
  <2> QED
    BY <1>6, <1>7
<1> HIDE DEF f
<1>9. f[0] = <<>> /\ \A n \in 1..N : f[n] = CutLeaf(f[n - 1], span)
  <2>1. 0 \in 0..N /\ \A n \in 1..N : n \in 0..N /\ n # 0
    BY <1>1
  <2> DEFINE b == Body(f)
  <2>2. b[0] = <<>> /\ \A n \in 1..N : b[n] = CutLeaf(f[n - 1], span)
    BY <2>1
  <2> HIDE DEF b
  <2>3. f = b
    BY <1>8 DEF b
  <2> QED
    BY <2>2, <2>3
<1> QED
  BY <1>1, <1>9 DEF f, N

\* What the leaves of a span that is split must be.
LeavesOf(leaves, span) ==
    /\ leaves \in Seq(SpansIn(span[1], span[2]))
    /\ \A x \in ToSet(leaves) : x[1] < x[2] /\ Width(x) <= ChunkSize
    /\ Chain(leaves, After)
    /\ \A i \in (span[1] + 1)..span[2] : InSome(i, leaves)

\* The hard split cuts a span into leaves that fit and cover it.
LEMMA HardSplitIs ==
    ASSUME NEW span \in Spans
    PROVE  LeavesOf(HardSplit(span), span)
<1> DEFINE f == HardSplitting(span)
           N == Width(span)
           S == {n \in Nat : n <= N => CutInv(f[n], span, n)}
<1>1. /\ N \in Nat /\ f[0] = <<>>
      /\ \A n \in 1..N : f[n] = CutLeaf(f[n - 1], span)
  BY HardSplittingSteps
<1>2. span[1] \in Nat /\ span[2] \in Nat /\ span[1] <= span[2] /\ N = span[2] - span[1]
  BY DEF Spans, Width
<1> HIDE DEF f, N
<1>3. 0 \in S
  <2>1. Reached(<<>>, span) = span[1]
    BY DEF Reached
  <2>2. Chain(<<>>, After) /\ ToSet(<<>>) = {}
    BY SingleChain
  <2>3. (span[1] + 1)..span[1] = {} /\ <<>> \in Seq(Spans)
    BY <1>2
  <2>4. CutInv(<<>>, span, 0)
    BY <1>2, <2>1, <2>2, <2>3 DEF CutInv
  <2> QED
    BY <1>1, <2>4
<1>4. ASSUME NEW n \in Nat, n \in S PROVE n + 1 \in S
  <2> SUFFICES ASSUME n + 1 <= N PROVE CutInv(f[n + 1], span, n + 1)
    OBVIOUS
  <2>1. n <= N /\ n + 1 \in 1..N /\ (n + 1) - 1 = n
    BY <1>1
  <2>2. CutInv(f[n], span, n) /\ f[n + 1] = CutLeaf(f[n], span)
    BY <1>1, <1>4, <2>1
  <2> QED
    BY <2>2, CutLeafKeeps
<1>5. CutInv(f[N], span, N)
  <2>1. Nat \subseteq S
    <3> HIDE DEF S
    <3> QED
      BY <1>3, <1>4, NatInd
  <2> QED
    BY <1>1, <2>1
<1> DEFINE L == f[N]
<1> HIDE DEF L
<1>6. HardSplit(span) = L
  BY DEF HardSplit, f, N, L
<1>7. Reached(L, span) = span[2]
  <2>1. /\ Reached(L, span) \in span[1]..span[2]
        /\ Reached(L, span) = span[2] \/ Reached(L, span) >= span[1] + N
    BY <1>5 DEF CutInv, L
  <2> QED
    BY <1>2, <2>1
<1>8. /\ L \in Seq(Spans) /\ Chain(L, After)
      /\ \A x \in ToSet(L) : /\ x[1] < x[2] /\ Width(x) <= ChunkSize
                             /\ span[1] <= x[1] /\ x[2] <= span[2]
      /\ \A i \in (span[1] + 1)..span[2] : InSome(i, L)
  BY <1>5, <1>7 DEF CutInv, L
<1>9. L \in Seq(SpansIn(span[1], span[2]))
  <2>1. \A i \in 1..Len(L) : L[i] \in Spans /\ L[i] \in ToSet(L)
    BY <1>8, ElementOfSeq, ToSetIs
  <2>2. \A i \in 1..Len(L) : L[i] \in SpansIn(span[1], span[2])
    BY <1>8, <2>1 DEF SpansIn
  <2> QED
    BY <1>8, <2>2
<1> QED
  BY <1>6, <1>8, <1>9 DEF LeavesOf

\* What the spans that a span of a text is split into must be: they lie in it,
\* in order, and what is in none of them may be a separator.
Pieces(spans, span, text, R) ==
    /\ spans \in Seq(SpansIn(span[1], span[2]))
    /\ Chain(spans, R)
    /\ \A i \in (span[1] + 1)..span[2] : InSeparator(text, i) \/ InSome(i, spans)

\* The elements of pieces.
LEMMA PieceIs ==
    ASSUME NEW span \in Spans, NEW spans, NEW text, NEW R, Pieces(spans, span, text, R)
    PROVE  /\ spans \in Seq(Spans) /\ Len(spans) \in Nat /\ DOMAIN spans = 1..Len(spans)
           /\ \A k \in 1..Len(spans) : /\ spans[k] \in Spans
                                       /\ span[1] <= spans[k][1] /\ spans[k][2] <= span[2]
           /\ ToSet(spans) = {spans[k] : k \in 1..Len(spans)}
<1>1. spans \in Seq(SpansIn(span[1], span[2]))
  BY DEF Pieces
<1>2. SpansIn(span[1], span[2]) \subseteq Spans
  BY DEF SpansIn
<1>3. spans \in Seq(Spans)
  BY <1>1, <1>2, SeqMonotonic
<1>4. \A k \in 1..Len(spans) : spans[k] \in SpansIn(span[1], span[2])
  BY <1>1, ElementOfSeq
<1>5. Len(spans) \in Nat /\ DOMAIN spans = 1..Len(spans)
  BY <1>3, LenProperties
<1> QED
  BY <1>3, <1>4, <1>5, ToSetIs DEF SpansIn

\* A span is a piece of itself.
LEMMA WholeIsPiece ==
    ASSUME NEW span \in Spans, NEW text, NEW R
    PROVE  Pieces(<<span>>, span, text, R) /\ ToSet(<<span>>) = {span}
<1>1. span[1] \in Nat /\ span[2] \in Nat
  BY DEF Spans
<1>2. span \in SpansIn(span[1], span[2])
  BY <1>1 DEF SpansIn
<1>3. /\ <<span>> \in Seq(SpansIn(span[1], span[2]))
      /\ Chain(<<span>>, R) /\ ToSet(<<span>>) = {span}
  BY <1>2, SingleChain
<1>4. \A i \in (span[1] + 1)..span[2] : InSome(i, <<span>>)
  BY <1>1, <1>3 DEF InSome, In
<1> QED
  BY <1>3, <1>4 DEF Pieces

\* What lies in spans that are so related is related as well.
Inherits(P, R) ==
    \A p, q, x, y \in Spans : <<p, q>> \in P /\ x[2] <= p[2] /\ q[1] <= y[1] => <<x, y>> \in R

\* What lies in spans that are apart is apart, and likewise with spans of which
\* one ends where the other begins.
LEMMA Inherited ==
    Inherits(Apart, Apart) /\ Inherits(Apart, After) /\ Inherits(Before, Before)
<1>1. ASSUME NEW p \in Spans, NEW q \in Spans, NEW x \in Spans, NEW y \in Spans,
             x[2] <= p[2], q[1] <= y[1]
      PROVE  /\ <<p, q>> \in Apart => <<x, y>> \in Apart /\ <<x, y>> \in After
             /\ <<p, q>> \in Before => <<x, y>> \in Before
  <2>1. /\ x[1] \in Nat /\ x[2] \in Nat /\ x[1] <= x[2]
        /\ y[1] \in Nat /\ y[2] \in Nat /\ y[1] <= y[2]
        /\ p[2] \in Nat /\ q[1] \in Nat
    BY DEF Spans
  <2>2. p[2] < q[1] => x[2] < y[1] /\ x[2] <= y[1] /\ x[1] < y[1] /\ x[2] < y[2]
    BY <1>1, <2>1
  <2>3. p[2] <= q[1] => x[2] <= y[1]
    BY <1>1, <2>1
  <2> QED
    BY <2>2, <2>3, Related
<1> QED
  BY <1>1 DEF Inherits

\* Pieces of pieces are pieces.
LEMMA PiecesOfPieces ==
    ASSUME NEW span \in Spans, NEW spans, NEW text, NEW P, Pieces(spans, span, text, P),
           NEW R, Inherits(P, R), NEW seqs \in Seq(Seq(Spans)), Len(seqs) = Len(spans),
           \A k \in 1..Len(spans) : Pieces(seqs[k], spans[k], text, R)
    PROVE  /\ Pieces(FlattenSeq(seqs), span, text, R)
           /\ \A x \in ToSet(FlattenSeq(seqs)) :
                \E k \in 1..Len(spans) : x \in ToSet(seqs[k])
           /\ spans # <<>> /\ (\A k \in 1..Len(spans) : seqs[k] # <<>>)
                => FlattenSeq(seqs) # <<>>
<1> DEFINE N == Len(spans)
           all == FlattenSeq(seqs)
<1>1. /\ spans \in Seq(Spans) /\ N \in Nat
      /\ \A k \in 1..N : /\ spans[k] \in Spans
                         /\ span[1] <= spans[k][1] /\ spans[k][2] <= span[2]
      /\ ToSet(spans) = {spans[k] : k \in 1..N}
  BY PieceIs
<1>2. ASSUME NEW k \in 1..N, NEW x \in ToSet(seqs[k])
      PROVE  x \in Spans /\ spans[k][1] <= x[1] /\ x[2] <= spans[k][2]
  <2>1. spans[k] \in Spans /\ Pieces(seqs[k], spans[k], text, R)
    BY <1>1
  <2> DEFINE s == seqs[k]
             p == spans[k]
  <2>2. PICK j \in 1..Len(seqs[k]) : x = seqs[k][j]
    <3>1. p \in Spans /\ Pieces(s, p, text, R)
      BY <2>1
    <3> HIDE DEF s, p
    <3>2. ToSet(s) = {s[j] : j \in 1..Len(s)}
      BY <3>1, PieceIs
    <3> QED
      BY <3>2 DEF s
  <2> QED
    BY <2>1, <2>2, PieceIs
<1>3. Chains(seqs, R)
  <2>1. \A k \in 1..N : Chain(seqs[k], R)
    BY DEF Pieces
  <2>2. ASSUME NEW k \in 1..N, NEW l \in 1..N, k < l PROVE Across(seqs[k], seqs[l], R)
    <3> SUFFICES ASSUME NEW x \in ToSet(seqs[k]), NEW y \in ToSet(seqs[l])
                 PROVE  <<x, y>> \in R
      BY DEF Across
    <3>1. <<spans[k], spans[l]>> \in P
      BY <2>2 DEF Pieces, Chain
    <3>2. /\ spans[k] \in Spans /\ x \in Spans /\ x[2] <= spans[k][2]
          /\ spans[l] \in Spans /\ y \in Spans /\ spans[l][1] <= y[1]
      BY <1>1, <1>2
    <3> QED
      BY <3>1, <3>2 DEF Inherits
  <2> QED
    BY <2>1, <2>2 DEF Chains
<1>4. all \in Seq(Spans) /\ Chain(all, R) /\ ToSet(all) = Elements(seqs)
  BY <1>3, FlattenChain
<1> HIDE DEF all
<1>5. \A x \in ToSet(all) : \E k \in 1..N : x \in ToSet(seqs[k])
  BY <1>4 DEF Elements
<1>6. all \in Seq(SpansIn(span[1], span[2]))
  <2>1. ASSUME NEW i \in 1..Len(all) PROVE all[i] \in SpansIn(span[1], span[2])
    <3>1. all[i] \in ToSet(all)
      BY <1>4, ToSetIs
    <3>2. PICK k \in 1..N : all[i] \in ToSet(seqs[k])
      BY <1>5, <3>1
    <3> DEFINE x == all[i]
    <3>3. /\ x \in Spans /\ spans[k][1] <= x[1] /\ x[2] <= spans[k][2]
          /\ spans[k] \in Spans /\ span[1] <= spans[k][1] /\ spans[k][2] <= span[2]
      BY <1>1, <1>2, <3>2
    <3> HIDE DEF x
    <3>4. /\ x[1] \in Nat /\ x[2] \in Nat /\ spans[k][1] \in Nat /\ spans[k][2] \in Nat
          /\ span[1] \in Nat /\ span[2] \in Nat
      BY <3>3 DEF Spans
    <3>5. spans[k][1] <= x[1] /\ span[1] <= spans[k][1]
      BY <3>3
    <3>6. x[2] <= spans[k][2] /\ spans[k][2] <= span[2]
      BY <3>3
    <3> DEFINE a == x[1]
               b == x[2]
               s == spans[k][1]
               e == spans[k][2]
    <3> HIDE DEF a, b, s, e
    <3>7. span[1] <= a
      BY <3>4, <3>5 DEF a, s
    <3>8. b <= span[2]
      BY <3>4, <3>6 DEF b, e
    <3>9. span[1] <= x[1] /\ x[2] <= span[2]
      BY <3>7, <3>8 DEF a, b
    <3>10. x \in SpansIn(span[1], span[2])
      BY <3>3, <3>9 DEF SpansIn
    <3> QED
      BY <3>10 DEF x
  <2> QED
    BY <1>4, <2>1
<1>7. ASSUME NEW i \in (span[1] + 1)..span[2], ~InSeparator(text, i)
      PROVE  InSome(i, all)
  <2>1. InSome(i, spans)
    BY <1>7 DEF Pieces
  <2>2. PICK k \in 1..N : In(i, spans[k])
    BY <1>1, <2>1 DEF InSome
  <2>3. i \in (spans[k][1] + 1)..spans[k][2]
    <3>1. spans[k][1] \in Nat /\ spans[k][2] \in Nat /\ span[1] \in Nat /\ span[2] \in Nat
      BY <1>1 DEF Spans
    <3>2. i \in Int
      BY <3>1
    <3> QED
      BY <2>2, <3>1, <3>2 DEF In
  <2>4. InSome(i, seqs[k])
    BY <1>7, <2>3 DEF Pieces
  <2>5. ToSet(seqs[k]) \subseteq ToSet(all)
    BY <1>4 DEF Elements
  <2> QED
    BY <2>4, <2>5 DEF InSome
<1>8. ASSUME spans # <<>>, \A k \in 1..N : seqs[k] # <<>> PROVE all # <<>>
  <2>1. 1 \in 1..N /\ 1 \in 1..Len(seqs)
    BY <1>1, <1>8, EmptySeq
  <2>2. seqs[1] \in Seq(Spans) /\ seqs[1] # <<>>
    BY <1>8, <2>1, ElementOfSeq
  <2> DEFINE s == seqs[1]
  <2>3. 1 \in 1..Len(s) /\ ToSet(s) = {s[i] : i \in 1..Len(s)}
    BY <2>2, LenProperties, EmptySeq, ToSetIs
  <2>4. s[1] \in ToSet(s)
    BY <2>3
  <2> HIDE DEF s
  <2>5. s[1] \in ToSet(all)
    BY <1>4, <2>1, <2>4 DEF Elements, s
  <2> QED
    BY <2>5, SingleChain
<1> QED
  BY <1>4, <1>5, <1>6, <1>7, <1>8 DEF Pieces, all

\* A separator: it is not empty, and its units are blanks and marks before one.
Separating(separator) ==
    /\ Len(separator) \in Nat \ {0}
    /\ \A j \in 1..Len(separator) : InSeparator(separator, j)

\* The separators of the default chunker are such.
LEMMA SeparatorsSeparate ==
    /\ Len(Separators) \in Nat
    /\ \A n \in 1..Len(Separators) : Separating(Separators[n])
<1>1. /\ Len(Separators) = 6
      /\ Separators[1] = <<"break", "break">> /\ Separators[2] = <<"break">>
      /\ Separators[3] = <<"stop", "blank">> /\ Separators[4] = <<"bang", "blank">>
      /\ Separators[5] = <<"query", "blank">> /\ Separators[6] = <<"blank">>
  BY DEF Separators
<1>2. ASSUME NEW a, a \in Blanks PROVE Separating(<<a>>)
  <2> DEFINE t == <<a>>
  <2>1. Len(t) = 1 /\ t[1] = a
    OBVIOUS
  <2> HIDE DEF t
  <2>2. \A j \in 1..Len(t) : t[j] \in Blanks
    BY <1>2, <2>1
  <2> QED
    BY <2>1, <2>2 DEF Separating, InSeparator, t
<1>3. ASSUME NEW a, NEW b, a \in Marks \/ a \in Blanks, b \in Blanks, a \in Marks => b = "blank"
      PROVE  Separating(<<a, b>>)
  <2> DEFINE t == <<a, b>>
  <2>1. Len(t) = 2 /\ t[1] = a /\ t[2] = b
    OBVIOUS
  <2> HIDE DEF t
  <2>2. InSeparator(t, 1)
    BY <1>3, <2>1 DEF InSeparator
  <2>3. InSeparator(t, 2)
    BY <1>3, <2>1 DEF InSeparator
  <2>4. \A j \in 1..Len(t) : j = 1 \/ j = 2
    BY <2>1
  <2>5. \A j \in 1..Len(t) : InSeparator(t, j)
    BY <2>2, <2>3, <2>4
  <2>6. Len(t) \in Nat \ {0}
    BY <2>1
  <2> QED
    BY <2>5, <2>6 DEF Separating, t
<1>4. /\ "break" \in Blanks /\ "blank" \in Blanks
      /\ "stop" \in Marks /\ "bang" \in Marks /\ "query" \in Marks
      /\ "break" \notin Marks
  BY DEF Blanks, Marks
<1>5. /\ Separating(<<"break", "break">>) /\ Separating(<<"break">>)
      /\ Separating(<<"stop", "blank">>) /\ Separating(<<"bang", "blank">>)
      /\ Separating(<<"query", "blank">>) /\ Separating(<<"blank">>)
  BY <1>2, <1>3, <1>4
<1>6. ASSUME NEW n \in 1..Len(Separators) PROVE Separating(Separators[n])
  <2>1. n = 1 \/ n = 2 \/ n = 3 \/ n = 4 \/ n = 5 \/ n = 6
    BY <1>1
  <2> QED
    BY <1>1, <1>5, <2>1
<1> QED
  BY <1>1, <1>6

\* Numbers of a set, each so far behind the one before it.
Spaced(C, m) == {c \in Seq(C) : \A k, l \in 1..Len(c) : k < l => c[k] + m <= c[l]}

\* A round keeps the cuts so.
LEMMA TakeCutKeeps ==
    ASSUME NEW C \in SUBSET Nat, NEW m \in Nat, NEW cuts \in Spaced(C, m), NEW at \in C
    PROVE  TakeCut(cuts, at, m) \in Spaced(C, m)
<1> DEFINE n == Len(cuts)
           new == Append(cuts, at)
<1>1. /\ cuts \in Seq(C) /\ n \in Nat /\ DOMAIN cuts = 1..n
      /\ \A k, l \in 1..n : k < l => cuts[k] + m <= cuts[l]
      /\ \A k \in 1..n : cuts[k] \in Nat
  <2>1. cuts \in Seq(C)
    BY DEF Spaced
  <2>2. \A k \in 1..n : cuts[k] \in C
    BY <2>1, ElementOfSeq
  <2> QED
    BY <2>1, <2>2, LenProperties DEF Spaced
<1>2. at \in Nat
  OBVIOUS
<1>3. CASE cuts = <<>> \/ Last(cuts) + m <= at
  <2>1. TakeCut(cuts, at, m) = new
    BY <1>3 DEF TakeCut
  <2>2. /\ new \in Seq(C) /\ Len(new) = n + 1 /\ new[n + 1] = at
        /\ \A k \in 1..n : new[k] = cuts[k]
    BY <1>1
  <2> HIDE DEF new
  <2>3. ASSUME NEW k \in 1..n PROVE cuts[k] + m <= at
    <3>1. cuts # <<>> /\ n \in 1..n /\ Last(cuts) = cuts[n]
      BY <1>1, <2>3, EmptySeq DEF Last
    <3>2. cuts[n] + m <= at
      BY <1>3, <3>1
    <3>3. cuts[k] <= cuts[n]
      <4>1. CASE k = n
        BY <1>1, <3>1, <4>1
      <4>2. CASE k # n
        <5>1. k < n
          <6>1. n \in Nat /\ k \in 1..n
            BY <1>1
          <6> HIDE DEF n
          <6> QED
            BY <4>2, <6>1
        <5>2. cuts[k] + m <= cuts[n]
          BY <1>1, <3>1, <5>1
        <5> QED
          BY <1>1, <3>1, <5>2
      <4> QED
        BY <4>1, <4>2
    <3> QED
      BY <1>1, <1>2, <3>1, <3>2, <3>3
  <2>4. ASSUME NEW k \in 1..(n + 1), NEW l \in 1..(n + 1), k < l
        PROVE  new[k] + m <= new[l]
    <3>1. k \in 1..n /\ (l \in 1..n \/ l = n + 1)
      BY <1>1, <2>4
    <3> QED
      BY <1>1, <2>2, <2>3, <2>4, <3>1
  <2> QED
    BY <2>1, <2>2, <2>4 DEF Spaced
<1>4. CASE ~(cuts = <<>> \/ Last(cuts) + m <= at)
  <2>1. TakeCut(cuts, at, m) = cuts
    BY <1>4 DEF TakeCut
  <2> QED
    BY <2>1
<1> QED
  BY <1>3, <1>4

\* What the rounds return.
LEMMA CuttingIs ==
    ASSUME NEW C \in SUBSET Nat, NEW found \in Seq(C), NEW m \in Nat
    PROVE  Cutting(found, m)[Len(found)] \in Spaced(C, m)
<1> DEFINE N == Len(found)
           X == Spaced(C, m)
           Body(g) == [n \in 0..N |-> IF n = 0 THEN <<>> ELSE TakeCut(g[n - 1], found[n], m)]
           step == [a \in (1..N) \X X |-> TakeCut(a[2], found[a[1]], m)]
<1>1. N \in Nat
  BY LenProperties
<1>2. <<>> \in X
  <2> DEFINE none == <<>>
  <2>1. none \in Seq(C) /\ Len(none) = 0
    BY EmptySeq
  <2> HIDE DEF none
  <2>2. 1..Len(none) = {}
    BY <2>1
  <2>3. none \in X
    BY <2>1, <2>2 DEF Spaced
  <2> QED
    BY <2>3 DEF none
<1>3. step \in [(1..N) \X X -> X]
  <2>1. ASSUME NEW n \in 1..N, NEW x \in X PROVE TakeCut(x, found[n], m) \in X
    <3>1. found[n] \in C
      BY ElementOfSeq
    <3> QED
      BY <3>1, TakeCutKeeps
  <2> HIDE DEF N, X
  <2> QED
    BY <2>1
<1>4. \A n \in 1..N, x \in X : step[<<n, x>>] = TakeCut(x, found[n], m)
  OBVIOUS
<1>5. PICK g : Computation(g, X, <<>>, step, N)
  <2> HIDE DEF step, N, X
  <2> QED
    BY <1>1, <1>2, <1>3, RecursionExists
<1> HIDE DEF step, N, X
<1>6. g = Body(g)
  <2>1. \A n \in 0..N : n = 0 \/ n \in 1..N
    BY <1>1
  <2>2. \A n \in 1..N : n - 1 \in 0..N /\ g[n - 1] \in X
    BY <1>1, <1>5 DEF Computation
  <2>3. \A n \in 0..N : g[n] = Body(g)[n]
    BY <1>4, <1>5, <2>1, <2>2 DEF Computation
  <2> QED
    BY <1>5, <2>3 DEF Computation
<1>7. Cutting(found, m) = CHOOSE h : h = Body(h)
  BY DEF Cutting, N
<1> DEFINE w == Cutting(found, m)
<1>8. w = Body(w)
  <2> HIDE DEF Body
  <2> QED
    BY <1>6, <1>7
<1> HIDE DEF w
<1>9. /\ w[0] = <<>> /\ \A n \in 1..N : w[n] = TakeCut(w[n - 1], found[n], m)
      /\ w = [n \in 0..N |-> w[n]]
  <2>1. 0 \in 0..N /\ \A n \in 1..N : n \in 0..N /\ n # 0
    BY <1>1
  <2> DEFINE b == Body(w)
  <2>2. /\ b[0] = <<>> /\ \A n \in 1..N : b[n] = TakeCut(w[n - 1], found[n], m)
        /\ b = [n \in 0..N |-> b[n]]
    BY <2>1
  <2> HIDE DEF b
  <2>3. w = b
    BY <1>8 DEF b
  <2> QED
    BY <2>2, <2>3
<1>10. Computation(w, X, <<>>, step, N)
  <2>1. \A n \in 1..N : w[n - 1] \in X => w[n] = step[<<n, w[n - 1]>>]
    BY <1>4, <1>9
  <2> QED
    BY <1>1, <1>2, <1>3, <1>9, <2>1, ComputationTyped
<1>11. w[N] \in X
  BY <1>1, <1>10 DEF Computation
<1> QED
  BY <1>11 DEF w, N, X

\* Where a span is cut: at places of the separator that do not overlap.
LEMMA CutsAre ==
    ASSUME NEW U, NEW text \in Seq(U), NEW span \in SpansIn(0, Len(text)),
           NEW separator, Separating(separator)
    PROVE  LET cuts == Cuts(text, span, separator)
               m == Len(separator)
           IN /\ Len(cuts) \in Nat
              /\ \A k \in 1..Len(cuts) :
                    /\ cuts[k] \in Nat /\ span[1] < cuts[k] /\ cuts[k] + m - 1 <= span[2]
                    /\ \A j \in 1..m : InSeparator(text, cuts[k] + j - 1)
              /\ \A k, l \in 1..Len(cuts) : k < l => cuts[k] + m <= cuts[l]
<1> DEFINE s == span[1]
           e == span[2]
           m == Len(separator)
           C == {i \in DOMAIN text : /\ s < i /\ i + m - 1 <= e
                                     /\ SubSeq(text, i, i + m - 1) = separator}
           cuts == Cuts(text, span, separator)
<1>1. Len(text) \in Nat /\ DOMAIN text = 1..Len(text)
  BY LenProperties
<1>2. s \in Nat /\ e \in Nat /\ s <= e /\ e <= Len(text)
  BY DEF SpansIn, Spans
<1>3. m \in Nat /\ m >= 1 /\ \A j \in 1..m : InSeparator(separator, j)
  BY DEF Separating
<1>4. Found(text, span, separator) = InOrder(C)
  BY DEF Found, Where
<1>5. cuts = Cutting(InOrder(C), m)[Len(InOrder(C))]
  BY <1>4 DEF Cuts
<1>6. C \in SUBSET Nat /\ IsFiniteSet(C)
  <2>1. C \subseteq 1..Len(text) /\ 1..Len(text) \subseteq Nat
    BY <1>1
  <2>2. IsFiniteSet(1..Len(text))
    BY <1>1, FS_Interval
  <2> HIDE DEF C
  <2> QED
    BY <2>1, <2>2, FS_Subset
<1> HIDE DEF s, e, m
<1>7. cuts \in Spaced(C, m)
  <2> HIDE DEF C, cuts
  <2>1. InOrder(C) \in Seq(C)
    BY <1>6, InOrderProperties
  <2> QED
    BY <1>3, <1>5, <1>6, <2>1, CuttingIs
<1> HIDE DEF cuts
<1>8. /\ cuts \in Seq(C) /\ Len(cuts) \in Nat
      /\ \A k, l \in 1..Len(cuts) : k < l => cuts[k] + m <= cuts[l]
  <2> HIDE DEF C
  <2> QED
    BY <1>7, LenProperties DEF Spaced
<1>9. ASSUME NEW c \in C
      PROVE  /\ c \in Nat /\ s < c /\ c + m - 1 <= e
             /\ \A j \in 1..m : InSeparator(text, c + j - 1)
  <2>1. /\ c \in 1..Len(text) /\ s < c /\ c + m - 1 <= e
        /\ SubSeq(text, c, c + m - 1) = separator
    BY <1>1
  <2> HIDE DEF C
  <2>2. ASSUME NEW j \in 1..m PROVE separator[j] = text[c + j - 1]
    <3> DEFINE d == c + m - 1
    <3>1. c \in Int /\ d \in Int /\ j \in 1..(d - c + 1)
      BY <1>3, <2>1
    <3>2. \A i \in c..d : text[i] \in U
      <4>1. \A i \in c..d : i \in 1..Len(text)
        BY <1>1, <1>2, <1>3, <2>1
      <4> QED
        BY <4>1, ElementOfSeq
    <3> HIDE DEF d
    <3>3. SubSeq(text, c, d)[j] = text[c + j - 1]
      BY <3>1, <3>2, SubSeqProperties
    <3> QED
      BY <2>1, <3>3 DEF d
  <2>3. ASSUME NEW j \in 1..m PROVE InSeparator(text, c + j - 1)
    <3>1. \/ separator[j] \in Blanks
          \/ separator[j] \in Marks /\ j < m /\ separator[j + 1] = "blank"
      BY <1>3 DEF InSeparator, m
    <3>2. CASE separator[j] \in Blanks
      BY <2>2, <3>2 DEF InSeparator
    <3>3. CASE separator[j] \in Marks /\ j < m /\ separator[j + 1] = "blank"
      <4>1. j + 1 \in 1..m /\ c + (j + 1) - 1 = (c + j - 1) + 1
        BY <1>3, <2>1, <3>3
      <4>2. text[(c + j - 1) + 1] = "blank"
        BY <2>2, <3>3, <4>1
      <4>3. c + j - 1 < Len(text)
        BY <1>1, <1>2, <1>3, <2>1, <3>3
      <4>4. text[c + j - 1] \in Marks
        BY <2>2, <3>3
      <4> QED
        BY <4>2, <4>3, <4>4 DEF InSeparator
    <3> QED
      BY <3>1, <3>2, <3>3
  <2> QED
    BY <2>1, <2>3
<1>10. \A k \in 1..Len(cuts) : cuts[k] \in C
  <2> HIDE DEF C
  <2> QED
    BY <1>8, ElementOfSeq
<1> HIDE DEF C
<1> QED
  BY <1>8, <1>9, <1>10 DEF cuts, s, e, m

\* A span without its separators.
LEMMA PartsArePieces ==
    ASSUME NEW U, NEW text \in Seq(U), NEW span \in SpansIn(0, Len(text)),
           NEW separator, Separating(separator)
    PROVE  /\ Pieces(Parts(text, span, separator), span, text, Apart)
           /\ Parts(text, span, separator) # <<>>
<1> DEFINE s == span[1]
           e == span[2]
           m == Len(separator)
           cuts == Cuts(text, span, separator)
           n == Len(cuts)
           from(k) == IF k = 1 THEN s ELSE cuts[k - 1] + m - 1
           to(k) == IF k = n + 1 THEN e ELSE cuts[k] - 1
           parts == [k \in 1..(n + 1) |-> <<from(k), to(k)>>]
<1>1. Parts(text, span, separator) = parts
  BY DEF Parts
<1>2. s \in Nat /\ e \in Nat /\ s <= e /\ e <= Len(text) /\ m \in Nat /\ m >= 1
  BY DEF SpansIn, Spans, Separating
<1>3. /\ n \in Nat
      /\ \A k \in 1..n : /\ cuts[k] \in Nat /\ s < cuts[k] /\ cuts[k] + m - 1 <= e
                         /\ \A j \in 1..m : InSeparator(text, cuts[k] + j - 1)
      /\ \A k, l \in 1..n : k < l => cuts[k] + m <= cuts[l]
  BY CutsAre
<1> HIDE DEF s, e, m, cuts, n
<1>4. ASSUME NEW k \in 1..(n + 1)
      PROVE  from(k) \in Nat /\ to(k) \in Nat /\ s <= from(k) /\ from(k) <= to(k) /\ to(k) <= e
  <2>1. CASE k = 1 /\ k = n + 1
    BY <1>2, <2>1
  <2>2. CASE k = 1 /\ k # n + 1
    <3>1. k \in 1..n
      BY <1>3, <2>2
    <3> QED
      BY <1>2, <1>3, <2>2, <3>1
  <2>3. CASE k # 1 /\ k = n + 1
    <3>1. k - 1 \in 1..n
      BY <1>3, <2>3
    <3> QED
      BY <1>2, <1>3, <2>3, <3>1
  <2>4. CASE k # 1 /\ k # n + 1
    <3>1. k - 1 \in 1..n /\ k \in 1..n /\ k - 1 < k
      BY <1>3, <2>4
    <3>2. cuts[k - 1] + m <= cuts[k]
      BY <1>3, <3>1
    <3> DEFINE x == cuts[k - 1]
               y == cuts[k]
    <3>3. x \in Nat /\ y \in Nat /\ s < x /\ y + m - 1 <= e /\ x + m <= y
      BY <1>3, <3>1, <3>2
    <3>4. from(k) = x + m - 1 /\ to(k) = y - 1
      BY <2>4
    <3> HIDE DEF x, y, from, to
    <3>5. /\ x + m - 1 \in Nat /\ y - 1 \in Nat
          /\ s <= x + m - 1 /\ x + m - 1 <= y - 1 /\ y - 1 <= e
      BY <1>2, <3>3
    <3> QED
      BY <3>4, <3>5
  <2> QED
    BY <2>1, <2>2, <2>3, <2>4
<1>5. ASSUME NEW k \in 1..(n + 1), NEW l \in 1..(n + 1), k < l
      PROVE  to(k) < from(l)
  <2>1. k \in 1..n /\ l - 1 \in 1..n /\ k <= l - 1 /\ k # n + 1 /\ l # 1
    BY <1>3, <1>5
  <2>2. cuts[k] <= cuts[l - 1]
    <3>1. CASE k = l - 1
      BY <1>3, <2>1, <3>1
    <3>2. CASE k # l - 1
      <4>1. k < l - 1
        BY <2>1, <3>2
      <4>2. cuts[k] + m <= cuts[l - 1]
        BY <1>3, <2>1, <4>1
      <4> QED
        BY <1>2, <1>3, <2>1, <4>2
    <3> QED
      BY <3>1, <3>2
  <2> QED
    BY <1>2, <1>3, <2>1, <2>2
<1>6. ASSUME NEW i \in (s + 1)..e, ~InSeparator(text, i)
       PROVE  \E k \in 1..(n + 1) : from(k) < i /\ i <= to(k)
  <2> DEFINE B == {k \in 1..(n + 1) : from(k) < i}
             b == Max(B)
  <2>1. 1 \in B
    BY <1>2, <1>3
  <2>2. B \subseteq 0..(n + 1) /\ B # {} /\ n + 1 \in Nat
    <3>1. B \subseteq 1..(n + 1)
      <4> HIDE DEF from
      <4> QED
        OBVIOUS
    <3>2. 1..(n + 1) \subseteq 0..(n + 1) /\ n + 1 \in Nat
      BY <1>3
    <3> HIDE DEF B
    <3> QED
      BY <2>1, <3>1, <3>2
  <2>3. b \in B /\ \A k \in B : k <= b
    <3> HIDE DEF B
    <3> QED
      BY <2>2, MaxOfBounded
  <2> HIDE DEF b
  <2>4. b \in 1..(n + 1) /\ from(b) < i
    BY <2>3
  <2>5. i <= to(b)
    <3>1. CASE b = n + 1
      BY <1>2, <3>1
    <3>2. CASE b # n + 1
      <4>1. b \in 1..n /\ b + 1 \in 1..(n + 1) /\ b + 1 # 1 /\ (b + 1) - 1 = b /\ ~(b + 1 <= b)
        BY <1>3, <2>4, <3>2
      <4>2. b + 1 \notin B
        BY <2>3, <4>1
      <4>3. ~(from(b + 1) < i) /\ from(b + 1) = cuts[b] + m - 1
        BY <4>1, <4>2
      <4>4. ASSUME cuts[b] <= i PROVE FALSE
        <5> DEFINE j == i - cuts[b] + 1
        <5>1. j \in 1..m /\ cuts[b] + j - 1 = i
          BY <1>2, <1>3, <4>1, <4>3, <4>4
        <5> HIDE DEF j
        <5>2. InSeparator(text, cuts[b] + j - 1)
          BY <1>3, <4>1, <5>1
        <5> QED
          BY <1>6, <5>1, <5>2
      <4>5. cuts[b] \in Nat /\ ~(cuts[b] <= i)
        BY <1>3, <4>1, <4>4
      <4> QED
        BY <1>2, <3>2, <4>5
    <3> QED
      BY <3>1, <3>2
  <2> QED
    BY <2>4, <2>5
<1> HIDE DEF from, to
<1>7. /\ Len(parts) = n + 1 /\ \A k \in 1..(n + 1) : parts[k] = <<from(k), to(k)>>
      /\ parts \in Seq(SpansIn(s, e))
  <2>1. \A k \in 1..(n + 1) : <<from(k), to(k)>> \in SpansIn(s, e)
    BY <1>4 DEF SpansIn, Spans
  <2>2. n + 1 \in Nat /\ DOMAIN parts = 1..(n + 1)
    BY <1>3
  <2>3. \A k \in 1..(n + 1) : parts[k] = <<from(k), to(k)>>
    OBVIOUS
  <2>4. parts \in [1..(n + 1) -> SpansIn(s, e)]
    BY <2>1
  <2> HIDE DEF parts
  <2>5. parts \in Seq(SpansIn(s, e)) /\ Len(parts) = n + 1
    BY <2>2, <2>4
  <2> QED
    BY <2>3, <2>5
<1> HIDE DEF parts
<1>8. ASSUME NEW k \in 1..(n + 1), NEW l \in 1..(n + 1), k < l
      PROVE  <<parts[k], parts[l]>> \in Apart
  <2>1. parts[k] \in Spans /\ parts[l] \in Spans
    BY <1>7, ElementOfSeq DEF SpansIn
  <2>2. parts[k][2] < parts[l][1]
    BY <1>5, <1>7, <1>8
  <2> QED
    BY <2>1, <2>2, Related
<1>9. Chain(parts, Apart)
  BY <1>7, <1>8 DEF Chain
<1>10. ToSet(parts) = {parts[k] : k \in 1..(n + 1)}
  BY <1>7, ToSetIs
<1>11. ASSUME NEW i \in (s + 1)..e, ~InSeparator(text, i) PROVE InSome(i, parts)
  <2>1. PICK k \in 1..(n + 1) : from(k) < i /\ i <= to(k)
    BY <1>6, <1>11
  <2>2. In(i, parts[k])
    BY <1>7, <2>1 DEF In
  <2> QED
    BY <1>10, <2>2 DEF InSome
<1>12. parts # <<>>
  BY <1>3, <1>7, EmptySeq
<1> QED
  BY <1>1, <1>7, <1>9, <1>11, <1>12 DEF Pieces, s, e

\* Splitting the spans of a text at a separator.
LEMMA SplitAtIs ==
    ASSUME NEW U, NEW text \in Seq(U), NEW spans, spans # <<>>,
           Pieces(spans, <<0, Len(text)>>, text, Apart), NEW separator, Separating(separator)
    PROVE  /\ Pieces(SplitAt(text, spans, separator), <<0, Len(text)>>, text, Apart)
           /\ SplitAt(text, spans, separator) # <<>>
<1> DEFINE whole == <<0, Len(text)>>
           Split(k) == IF Width(spans[k]) <= ChunkSize THEN <<spans[k]>>
                       ELSE Parts(text, spans[k], separator)
           seqs == [k \in DOMAIN spans |-> Split(k)]
<1>1. whole \in Spans /\ whole[1] = 0 /\ whole[2] = Len(text)
  BY LenProperties DEF Spans
<1>2. /\ Len(spans) \in Nat /\ DOMAIN spans = 1..Len(spans)
      /\ \A k \in 1..Len(spans) : spans[k] \in Spans /\ spans[k] \in SpansIn(0, Len(text))
  <2>1. /\ Len(spans) \in Nat /\ DOMAIN spans = 1..Len(spans)
        /\ \A k \in 1..Len(spans) : /\ spans[k] \in Spans
                                    /\ whole[1] <= spans[k][1] /\ spans[k][2] <= whole[2]
    BY <1>1, PieceIs
  <2> QED
    BY <1>1, <2>1 DEF SpansIn
<1>3. ASSUME NEW k \in 1..Len(spans)
      PROVE  Pieces(Split(k), spans[k], text, Apart) /\ Split(k) # <<>>
  <2>1. <<spans[k]>> # <<>>
    OBVIOUS
  <2> QED
    BY <1>2, <2>1, WholeIsPiece, PartsArePieces
<1>4. \A k \in 1..Len(spans) : Split(k) \in Seq(Spans)
  <2> HIDE DEF Split
  <2> QED
    BY <1>2, <1>3, PieceIs
<1>5. SplitAt(text, spans, separator) = FlattenSeq(seqs)
  BY DEF SplitAt
<1> HIDE DEF Split
<1>6. seqs \in Seq(Seq(Spans)) /\ Len(seqs) = Len(spans)
      /\ \A k \in 1..Len(spans) : Pieces(seqs[k], spans[k], text, Apart) /\ seqs[k] # <<>>
  BY <1>2, <1>3, <1>4
<1> HIDE DEF seqs, whole
<1>7. Pieces(FlattenSeq(seqs), whole, text, Apart) /\ FlattenSeq(seqs) # <<>>
  <2>1. Pieces(spans, whole, text, Apart)
    BY DEF whole
  <2> QED
    BY <1>1, <1>6, <2>1, PiecesOfPieces, Inherited
<1> QED
  BY <1>5, <1>7 DEF whole

\* Splitting the spans of a text anywhere: then all of them fit.
LEMMA SplitAnywhereIs ==
    ASSUME NEW text, Len(text) \in Nat, DOMAIN text = 1..Len(text), NEW spans, spans # <<>>,
           Pieces(spans, <<0, Len(text)>>, text, Apart)
    PROVE  /\ Pieces(SplitAnywhere(spans), <<0, Len(text)>>, text, After)
           /\ SplitAnywhere(spans) # <<>>
           /\ \A x \in ToSet(SplitAnywhere(spans)) : Width(x) <= ChunkSize
<1> DEFINE whole == <<0, Len(text)>>
           Split(k) == IF Width(spans[k]) <= ChunkSize THEN <<spans[k]>>
                       ELSE HardSplit(spans[k])
           seqs == [k \in DOMAIN spans |-> Split(k)]
<1>1. whole \in Spans
  BY DEF Spans
<1>2. /\ Len(spans) \in Nat /\ DOMAIN spans = 1..Len(spans)
      /\ \A k \in 1..Len(spans) : spans[k] \in Spans
  BY <1>1, PieceIs
<1>3. ASSUME NEW k \in 1..Len(spans)
      PROVE  /\ Pieces(Split(k), spans[k], text, After) /\ Split(k) # <<>>
             /\ \A x \in ToSet(Split(k)) : Width(x) <= ChunkSize
  <2>1. CASE Width(spans[k]) <= ChunkSize
    <3>1. Pieces(<<spans[k]>>, spans[k], text, After) /\ ToSet(<<spans[k]>>) = {spans[k]}
      BY <1>2, WholeIsPiece
    <3>2. <<spans[k]>> # <<>>
      OBVIOUS
    <3> QED
      BY <2>1, <3>1, <3>2
  <2>2. CASE ~(Width(spans[k]) <= ChunkSize)
    <3>1. LeavesOf(HardSplit(spans[k]), spans[k])
      BY <1>2, HardSplitIs
    <3> DEFINE h == HardSplit(spans[k])
    <3>2. h # <<>>
      <4>1. spans[k][1] \in Nat /\ spans[k][2] \in Nat /\ spans[k][1] + 1 \in (spans[k][1] + 1)..spans[k][2]
        BY <1>2, <2>2, SizesAreNatural DEF Spans, Width
      <4>2. InSome(spans[k][1] + 1, h)
        BY <3>1, <4>1 DEF LeavesOf
      <4> HIDE DEF h
      <4> QED
        BY <4>2, SingleChain DEF InSome
    <3>3. Pieces(h, spans[k], text, After) /\ \A x \in ToSet(h) : Width(x) <= ChunkSize
      BY <3>1 DEF LeavesOf, Pieces
    <3> QED
      BY <2>2, <3>2, <3>3
  <2> QED
    BY <2>1, <2>2
<1>4. \A k \in 1..Len(spans) : Split(k) \in Seq(Spans)
  <2> HIDE DEF Split
  <2> QED
    BY <1>2, <1>3, PieceIs
<1>5. SplitAnywhere(spans) = FlattenSeq(seqs)
  BY DEF SplitAnywhere
<1> HIDE DEF Split
<1>6. seqs \in Seq(Seq(Spans)) /\ Len(seqs) = Len(spans)
      /\ \A k \in 1..Len(spans) : /\ Pieces(seqs[k], spans[k], text, After)
                                  /\ seqs[k] # <<>>
                                  /\ \A x \in ToSet(seqs[k]) : Width(x) <= ChunkSize
  BY <1>2, <1>3, <1>4
<1> HIDE DEF seqs, whole
<1>7. /\ Pieces(FlattenSeq(seqs), whole, text, After) /\ FlattenSeq(seqs) # <<>>
      /\ \A x \in ToSet(FlattenSeq(seqs)) : \E k \in 1..Len(spans) : x \in ToSet(seqs[k])
  <2>1. Pieces(spans, whole, text, Apart)
    BY DEF whole
  <2> QED
    BY <1>1, <1>6, <2>1, PiecesOfPieces, Inherited
<1>8. \A x \in ToSet(FlattenSeq(seqs)) : Width(x) <= ChunkSize
  BY <1>6, <1>7
<1> QED
  BY <1>5, <1>7, <1>8 DEF whole

\* Splitting a text at one separator after the other.
LEMMA LevelsAre ==
    ASSUME NEW U, NEW text \in Seq(U)
    PROVE  /\ Pieces(Levels(text)[Len(Separators)], <<0, Len(text)>>, text, Apart)
           /\ Levels(text)[Len(Separators)] # <<>>
<1> DEFINE N == Len(Separators)
           whole == <<0, Len(text)>>
           X == {x \in Seq(Spans) : Pieces(x, whole, text, Apart) /\ x # <<>>}
           Body(g) == [n \in 0..N |-> IF n = 0 THEN <<whole>>
                                      ELSE SplitAt(text, g[n - 1], Separators[n])]
           step == [a \in (1..N) \X X |-> SplitAt(text, a[2], Separators[a[1]])]
<1>1. N \in Nat
  BY SeparatorsSeparate
<1>2. whole \in Spans
  BY LenProperties DEF Spans
<1>3. ASSUME NEW x, Pieces(x, whole, text, Apart), x # <<>> PROVE x \in X
  <2> HIDE DEF whole
  <2>1. x \in Seq(Spans)
    BY <1>2, <1>3, PieceIs
  <2> QED
    BY <1>3, <2>1
<1> DEFINE start == <<whole>>
<1>4. start \in X
  <2>1. Pieces(start, whole, text, Apart)
    <3> HIDE DEF whole
    <3> QED
      BY <1>2, WholeIsPiece
  <2>2. start # <<>>
    OBVIOUS
  <2> HIDE DEF X, whole, start
  <2> QED
    BY <1>3, <2>1, <2>2
<1>5. step \in [(1..N) \X X -> X]
  <2>1. ASSUME NEW n \in 1..N, NEW x \in X PROVE SplitAt(text, x, Separators[n]) \in X
    <3>1. Separating(Separators[n])
      BY SeparatorsSeparate
    <3>2. /\ Pieces(SplitAt(text, x, Separators[n]), <<0, Len(text)>>, text, Apart)
          /\ SplitAt(text, x, Separators[n]) # <<>>
      BY <3>1, SplitAtIs
    <3> HIDE DEF X
    <3> QED
      BY <1>3, <3>2
  <2> HIDE DEF N, X
  <2> QED
    BY <2>1
<1>6. \A n \in 1..N, x \in X : step[<<n, x>>] = SplitAt(text, x, Separators[n])
  OBVIOUS
<1>7. Levels(text) = CHOOSE h : h = Body(h)
  BY DEF Levels
<1> HIDE DEF step, N, X, whole, start
<1>8. PICK g : Computation(g, X, start, step, N)
  BY <1>1, <1>4, <1>5, RecursionExists
<1>9. g = Body(g)
  <2>1. \A n \in 0..N : n = 0 \/ n \in 1..N
    BY <1>1
  <2>2. \A n \in 1..N : n - 1 \in 0..N /\ g[n - 1] \in X
    BY <1>1, <1>8 DEF Computation
  <2>3. \A n \in 0..N : g[n] = Body(g)[n]
    BY <1>6, <1>8, <2>1, <2>2 DEF Computation, start
  <2> QED
    BY <1>8, <2>3 DEF Computation
<1> DEFINE w == Levels(text)
<1>10. w = Body(w)
  <2> HIDE DEF Body
  <2> QED
    BY <1>7, <1>9
<1> HIDE DEF w
<1>11. /\ w[0] = start /\ \A n \in 1..N : w[n] = SplitAt(text, w[n - 1], Separators[n])
       /\ w = [n \in 0..N |-> w[n]]
  <2>1. 0 \in 0..N /\ \A n \in 1..N : n \in 0..N /\ n # 0
    BY <1>1
  <2> DEFINE b == Body(w)
  <2>2. /\ b[0] = start /\ \A n \in 1..N : b[n] = SplitAt(text, w[n - 1], Separators[n])
        /\ b = [n \in 0..N |-> b[n]]
    BY <2>1 DEF start
  <2> HIDE DEF b
  <2>3. w = b
    BY <1>10 DEF b
  <2> QED
    BY <2>2, <2>3
<1>12. Computation(w, X, start, step, N)
  <2>1. \A n \in 1..N : w[n - 1] \in X => w[n] = step[<<n, w[n - 1]>>]
    BY <1>6, <1>11
  <2> QED
    BY <1>1, <1>4, <1>5, <1>11, <2>1, ComputationTyped
<1>13. w[N] \in X
  BY <1>1, <1>12 DEF Computation
<1> QED
  BY <1>13 DEF w, N, X, whole

\* The leaves of a text.
LEMMA LeavesFit ==
    ASSUME NEW U, NEW text \in Seq(U)
    PROVE  /\ Pieces(SplitWithOffsets(text), <<0, Len(text)>>, text, After)
           /\ SplitWithOffsets(text) # <<>>
           /\ \A x \in ToSet(SplitWithOffsets(text)) : Width(x) <= ChunkSize
<1>1. /\ Pieces(Levels(text)[Len(Separators)], <<0, Len(text)>>, text, Apart)
      /\ Levels(text)[Len(Separators)] # <<>>
  BY LevelsAre
<1>2. Len(text) \in Nat /\ DOMAIN text = 1..Len(text)
  BY LenProperties
<1> QED
  BY <1>1, <1>2, SplitAnywhereIs DEF SplitWithOffsets

-----------------------------------------------------------------------------
(***************************************************************************)
(* The default chunker: leaves are merged.                                 *)
(***************************************************************************)

\* One span begins before the other and ends before it; they may overlap.
Later == {p \in Spans \X Spans : p[1][1] < p[2][1] /\ p[1][2] < p[2][2]}

\* A pair of spans is in the relation if the second begins and ends later.
LEMMA LaterIs ==
    ASSUME NEW x \in Spans, NEW y \in Spans
    PROVE  <<x, y>> \in Later <=> x[1] < y[1] /\ x[2] < y[2]
<1> DEFINE p == <<x, y>>
<1>1. p \in Spans \X Spans /\ p[1] = x /\ p[2] = y
  OBVIOUS
<1> HIDE DEF p
<1>2. p \in Later <=> x[1] < y[1] /\ x[2] < y[2]
  BY <1>1 DEF Later
<1> QED
  BY <1>2 DEF p

\* A set of numbers with a lower bound has a least element.
LEMMA LeastExists ==
    ASSUME NEW first \in Nat, NEW last \in Nat, NEW S, S \subseteq first..last, S # {}
    PROVE  \E i \in S : \A j \in first..(i - 1) : j \notin S
<1>1. S \subseteq Nat
  OBVIOUS
<1>2. PICK i \in S : \A j \in S : ~(<<j, i>> \in OpToRel(<, Nat))
  BY <1>1, NatLessThanWellFounded, WFMin
<1>3. i \in Nat
  BY <1>1
<1>4. ASSUME NEW j \in first..(i - 1) PROVE j \notin S
  <2>1. j \in Nat /\ j < i
    BY <1>3
  <2>2. <<j, i>> \in OpToRel(<, Nat)
    BY <1>3, <2>1 DEF OpToRel
  <2> QED
    BY <1>2, <2>2
<1> QED
  BY <1>4

\* What the window drops from its front.
LEMMA DropUntilIs ==
    ASSUME NEW L, NEW first \in Nat, NEW last \in Nat, first <= last, NEW limit
    PROVE  LET i == DropUntil(L, first, last, limit)
           IN i \in first..last /\ (i = last \/ L[last][2] - L[i][1] <= limit)
<1> DEFINE Short(i) == L[last][2] - L[i][1] <= limit
           Kept(i) == i = last \/ Short(i)
           S == {i \in first..last : Kept(i)}
           Good(i) == (i = last \/ Short(i)) /\ \A j \in first..(i - 1) : ~Short(j)
           found == DropUntil(L, first, last, limit)
<1>1. found = CHOOSE i \in first..last : Good(i)
  BY DEF DropUntil
<1>2. \E i \in first..last : Good(i)
  <2>1. S \subseteq first..last
    OBVIOUS
  <2>2. last \in S
    OBVIOUS
  <2> HIDE DEF S
  <2>3. PICK i \in S : \A j \in first..(i - 1) : j \notin S
    BY <2>1, <2>2, LeastExists
  <2>4. i \in first..last /\ Kept(i)
    BY <2>3 DEF S
  <2>5. ASSUME NEW j \in first..(i - 1) PROVE ~Short(j)
    <3>1. j \in first..last
      BY <2>4
    <3>2. j \notin S
      BY <2>3
    <3> HIDE DEF Short
    <3> QED
      BY <3>1, <3>2 DEF S
  <2> HIDE DEF Short
  <2> QED
    BY <2>4, <2>5
<1>3. found \in first..last /\ Good(found)
  <2> HIDE DEF Good, found
  <2> QED
    BY <1>1, <1>2
<1> HIDE DEF found
<1> QED
  BY <1>3 DEF found

\* Leaves that can be merged.
Leaves(L) ==
    /\ L \in Seq(Spans) /\ L # <<>>
    /\ Chain(L, After)
    /\ \A k \in 1..Len(L) : Width(L[k]) <= ChunkSize

\* They are in order at both ends.
LEMMA LeavesInOrder ==
    ASSUME NEW L, Leaves(L)
    PROVE  /\ Len(L) \in Nat /\ Len(L) >= 1
           /\ \A k \in 1..Len(L) : /\ L[k] \in Spans
                                   /\ L[k][1] \in Nat /\ L[k][2] \in Nat /\ L[k][1] <= L[k][2]
                                   /\ L[k][2] - L[k][1] <= ChunkSize
           /\ \A k, l \in 1..Len(L) : k < l => L[k][1] < L[l][1] /\ L[k][2] < L[l][2]
           /\ \A k, l \in 1..Len(L) : k <= l => L[k][1] <= L[l][1] /\ L[k][2] <= L[l][2]
<1>1. L \in Seq(Spans) /\ L # <<>> /\ Chain(L, After)
      /\ \A k \in 1..Len(L) : Width(L[k]) <= ChunkSize
  BY DEF Leaves
<1>2. Len(L) \in Nat /\ Len(L) >= 1
  BY <1>1, EmptySeq, LenProperties
<1>3. \A k \in 1..Len(L) : L[k] \in Spans
  BY <1>1, ElementOfSeq
<1>4. ASSUME NEW k \in 1..Len(L)
      PROVE  /\ L[k][1] \in Nat /\ L[k][2] \in Nat /\ L[k][1] <= L[k][2]
             /\ L[k][2] - L[k][1] <= ChunkSize
  BY <1>1, <1>3 DEF Spans, Width
<1>5. ASSUME NEW k \in 1..Len(L), NEW l \in 1..Len(L), k < l
      PROVE  L[k][1] < L[l][1] /\ L[k][2] < L[l][2]
  <2>1. <<L[k], L[l]>> \in After
    BY <1>1, <1>5 DEF Chain
  <2> QED
    BY <1>3, <2>1, Related
<1>6. ASSUME NEW k \in 1..Len(L), NEW l \in 1..Len(L), k <= l
      PROVE  L[k][1] <= L[l][1] /\ L[k][2] <= L[l][2]
  <2>1. CASE k = l
    BY <1>4, <2>1
  <2>2. CASE k # l
    <3>1. k < l
      BY <1>6, <2>2
    <3>2. L[k][1] < L[l][1] /\ L[k][2] < L[l][2]
      BY <1>5, <3>1
    <3> QED
      BY <1>4, <3>2
  <2> QED
    BY <2>1, <2>2
<1> QED
  BY <1>2, <1>3, <1>4, <1>5, <1>6

WindowState == [merged : Seq(Spans), first : Nat \ {0}]

\* Where the window begins after its chunk was closed.
LEMMA WindowMoves ==
    ASSUME NEW L, NEW n \in Nat, NEW first \in Nat, first >= 1, first < n
    PROVE  LET i == MakeRoom(L, TrimForOverlap(L, first, n - 1), n)
           IN i \in first..n /\ (i = n \/ L[n][2] - L[i][1] <= ChunkSize)
<1> DEFINE trimmed == TrimForOverlap(L, first, n - 1)
<1>1. trimmed \in first..n
  <2>1. CASE ChunkOverlap <= 0
    <3>1. trimmed = (n - 1) + 1
      BY <2>1 DEF TrimForOverlap
    <3> QED
      BY <3>1
  <2>2. CASE ~(ChunkOverlap <= 0)
    <3> DEFINE last == n - 1
    <3>1. trimmed = DropUntil(L, first, last, ChunkOverlap)
      BY <2>2 DEF TrimForOverlap
    <3>2. last \in Nat /\ first <= last /\ last <= n
      OBVIOUS
    <3> HIDE DEF trimmed, last
    <3>3. DropUntil(L, first, last, ChunkOverlap) \in first..last
      BY <3>2, DropUntilIs
    <3> QED
      BY <3>1, <3>2, <3>3
  <2> QED
    BY <2>1, <2>2
<1> HIDE DEF trimmed
<1>2. trimmed \in Nat /\ trimmed <= n
  BY <1>1
<1> DEFINE i == DropUntil(L, trimmed, n, ChunkSize)
<1>3. i \in trimmed..n /\ (i = n \/ L[n][2] - L[i][1] <= ChunkSize)
  BY <1>2, DropUntilIs
<1> HIDE DEF i
<1>4. i \in first..n
  BY <1>1, <1>3
<1> QED
  BY <1>3, <1>4 DEF MakeRoom, trimmed, i

\* One leaf keeps the types of the loop.
LEMMA TakeLeafType ==
    ASSUME NEW L, Leaves(L), NEW acc \in WindowState, NEW n \in 1..Len(L)
    PROVE  TakeLeaf(acc, L, n) \in WindowState
<1> DEFINE f == acc.first
           i == MakeRoom(L, TrimForOverlap(L, f, n - 1), n)
           new == <<L[f][1], L[n - 1][2]>>
<1>1. acc.merged \in Seq(Spans) /\ f \in Nat /\ f >= 1
  BY DEF WindowState
<1>2. CASE f < n /\ L[n][2] - L[f][1] > ChunkSize
  <2>1. n \in Nat /\ n - 1 \in 1..Len(L) /\ f \in 1..Len(L) /\ f <= n - 1
    BY <1>1, <1>2, LeavesInOrder
  <2>2. i \in f..n
    BY <1>1, <1>2, <2>1, WindowMoves
  <2>3. new \in Spans
    <3>1. L[f][1] \in Nat /\ L[f][1] <= L[n - 1][1] /\ L[n - 1][1] \in Nat
          /\ L[n - 1][2] \in Nat /\ L[n - 1][1] <= L[n - 1][2]
      BY <2>1, LeavesInOrder
    <3> QED
      BY <3>1 DEF Spans
  <2>4. TakeLeaf(acc, L, n) = [merged |-> Append(acc.merged, new), first |-> i]
    BY <1>2 DEF TakeLeaf
  <2> HIDE DEF f, i, new
  <2>5. Append(acc.merged, new) \in Seq(Spans) /\ i \in Nat \ {0}
    BY <1>1, <2>1, <2>2, <2>3
  <2> QED
    BY <2>4, <2>5 DEF WindowState
<1>3. CASE ~(f < n /\ L[n][2] - L[f][1] > ChunkSize)
  BY <1>3 DEF TakeLeaf
<1> QED
  BY <1>2, <1>3

\* The loop takes leaf after leaf.
LEMMA MergingSteps ==
    ASSUME NEW L, Leaves(L)
    PROVE  /\ Merging(L)[0] = [merged |-> <<>>, first |-> 1]
           /\ \A n \in 1..Len(L) : Merging(L)[n] = TakeLeaf(Merging(L)[n - 1], L, n)
<1> DEFINE N == Len(L)
           X == WindowState
           none == [merged |-> <<>>, first |-> 1]
           Body(g) == [n \in 0..N |-> IF n = 0 THEN [merged |-> <<>>, first |-> 1]
                                      ELSE TakeLeaf(g[n - 1], L, n)]
           step == [a \in (1..N) \X X |-> TakeLeaf(a[2], L, a[1])]
<1>1. N \in Nat
  BY LeavesInOrder
<1>2. none \in X
  BY DEF WindowState
<1>3. step \in [(1..N) \X X -> X]
  <2>1. ASSUME NEW a \in (1..N) \X X PROVE TakeLeaf(a[2], L, a[1]) \in X
    <3>1. a[1] \in 1..N /\ a[2] \in X
      OBVIOUS
    <3> QED
      BY <3>1, TakeLeafType
  <2> QED
    BY <2>1
<1>4. \A n \in 1..N, x \in X : step[<<n, x>>] = TakeLeaf(x, L, n)
  OBVIOUS
<1>5. PICK g : Computation(g, X, none, step, N)
  <2> HIDE DEF step, N, X, none
  <2> QED
    BY <1>1, <1>2, <1>3, RecursionExists
<1> HIDE DEF step, N, X
<1>6. g = Body(g)
  <2>1. \A n \in 0..N : n = 0 \/ n \in 1..N
    BY <1>1
  <2>2. \A n \in 1..N : n - 1 \in 0..N /\ g[n - 1] \in X
    BY <1>1, <1>5 DEF Computation
  <2>3. \A n \in 0..N : g[n] = Body(g)[n]
    BY <1>4, <1>5, <2>1, <2>2 DEF Computation
  <2> QED
    BY <1>5, <2>3 DEF Computation
<1>7. Merging(L) = CHOOSE h : h = Body(h)
  BY DEF Merging, N
<1> DEFINE w == Merging(L)
<1>8. w = Body(w)
  <2> HIDE DEF Body
  <2> QED
    BY <1>6, <1>7
<1> HIDE DEF w
<1>9. w[0] = none /\ \A n \in 1..N : w[n] = TakeLeaf(w[n - 1], L, n)
  <2>1. 0 \in 0..N /\ \A n \in 1..N : n \in 0..N /\ n # 0
    BY <1>1
  <2> DEFINE b == Body(w)
  <2>2. b[0] = none /\ \A n \in 1..N : b[n] = TakeLeaf(w[n - 1], L, n)
    BY <2>1
  <2> HIDE DEF b
  <2>3. w = b
    BY <1>8 DEF b
  <2> QED
    BY <2>2, <2>3
<1> QED
  BY <1>9 DEF w, N

\* A sequence with one more element.
LEMMA AppendElement ==
    ASSUME NEW X, NEW s \in Seq(X), NEW x \in X
    PROVE  Append(s, x) \in Seq(X) /\ ToSet(Append(s, x)) = ToSet(s) \cup {x}
BY AppendChain

\* The span of two numbers with another between them.
LEMMA SpanOf ==
    ASSUME NEW a \in Nat, NEW c \in Nat, NEW b \in Nat, a <= c, c <= b, b - a <= ChunkSize,
           NEW x, x = <<a, b>>
    PROVE  x \in Spans /\ x[1] = a /\ x[2] = b /\ Width(x) <= ChunkSize
<1>1. a <= b
  OBVIOUS
<1>2. x \in Nat \X Nat /\ x[1] = a /\ x[2] = b
  OBVIOUS
<1>3. x \in Spans
  BY <1>1, <1>2 DEF Spans
<1>4. Width(x) = b - a
  BY <1>2 DEF Width
<1> QED
  BY <1>2, <1>3, <1>4

\* What is merged when n leaves were taken: the window fits in a chunk, and
\* the chunks that were closed are in order before its end and hold, with it,
\* all of the leaves.
WindowInv(acc, L, n) ==
    /\ acc \in WindowState
    /\ acc.first <= n
    /\ L[n][2] - L[acc.first][1] <= ChunkSize
    /\ Chain(acc.merged, Later)
    /\ \A x \in ToSet(acc.merged) :
          /\ Width(x) <= ChunkSize
          /\ x[1] < L[acc.first][1] /\ x[2] < L[n][2]
          /\ L[1][1] <= x[1]
    /\ \A k \in 1..n : \/ k >= acc.first
                       \/ \E x \in ToSet(acc.merged) : x[1] <= L[k][1] /\ L[k][2] <= x[2]

\* A leaf that goes in the window as it is.
LEMMA LeafFitsKeeps ==
    ASSUME NEW L, Leaves(L), NEW n \in 1..Len(L), n + 1 <= Len(L),
           NEW acc, WindowInv(acc, L, n), L[n + 1][2] - L[acc.first][1] <= ChunkSize
    PROVE  WindowInv(acc, L, n + 1)
<1>1. /\ n \in 1..Len(L) /\ n + 1 \in 1..Len(L) /\ n < n + 1 /\ n \in Nat
      /\ L[n][2] < L[n + 1][2] /\ L[n][2] \in Nat /\ L[n + 1][2] \in Nat
  BY LeavesInOrder
<1>2. acc.merged \in Seq(Spans) /\ acc.first \in Nat /\ acc.first <= n
  BY DEF WindowInv, WindowState
<1>3. ASSUME NEW x \in ToSet(acc.merged) PROVE x[2] < L[n + 1][2]
  <2>1. x \in Spans /\ x[2] < L[n][2]
    BY <1>2, ToSetIs DEF WindowInv
  <2>2. x[2] \in Nat
    BY <2>1 DEF Spans
  <2> QED
    BY <1>1, <2>1, <2>2
<1>4. \A k \in 1..(n + 1) : \/ k >= acc.first
                            \/ \E x \in ToSet(acc.merged) : x[1] <= L[k][1] /\ L[k][2] <= x[2]
  <2>1. \A k \in 1..(n + 1) : k \in 1..n \/ k >= acc.first
    BY <1>1, <1>2
  <2> QED
    BY <2>1 DEF WindowInv
<1> QED
  BY <1>1, <1>2, <1>3, <1>4 DEF WindowInv

\* A leaf for which the window is closed.
LEMMA WindowClosedKeeps ==
    ASSUME NEW L, Leaves(L), NEW n \in 1..Len(L), n + 1 <= Len(L),
           NEW acc, WindowInv(acc, L, n), L[n + 1][2] - L[acc.first][1] > ChunkSize
    PROVE  WindowInv(TakeLeaf(acc, L, n + 1), L, n + 1)
<1> DEFINE m == n + 1
           f == acc.first
           i == MakeRoom(L, TrimForOverlap(L, f, m - 1), m)
           new == <<L[f][1], L[n][2]>>
           out == Append(acc.merged, new)
<1>1. /\ n \in Nat /\ m \in 1..Len(L) /\ m \in Nat /\ m - 1 = n /\ n < m
  BY LeavesInOrder
<1>2. /\ acc.merged \in Seq(Spans) /\ f \in Nat /\ f >= 1 /\ f <= n /\ f < m
      /\ f \in 1..Len(L) /\ L[n][2] - L[f][1] <= ChunkSize
      /\ L[m][2] - L[f][1] > ChunkSize
  BY <1>1, LeavesInOrder DEF WindowInv, WindowState
<1>3. i \in f..m /\ (i = m \/ L[m][2] - L[i][1] <= ChunkSize)
  <2> HIDE DEF m, f
  <2> QED
    BY <1>1, <1>2, WindowMoves
<1>4. TakeLeaf(acc, L, m) = [merged |-> out, first |-> i]
  <2> DEFINE last == m - 1
  <2>1. TakeLeaf(acc, L, m) = [merged |-> Append(acc.merged, <<L[f][1], L[last][2]>>), first |-> i]
    <3> HIDE DEF m
    <3> QED
      BY <1>2 DEF TakeLeaf
  <2>2. last = n
    BY <1>1
  <2> HIDE DEF last, i
  <2> QED
    BY <2>1, <2>2
<1> HIDE DEF m, f, i
<1>5. i \in 1..Len(L) /\ f < i /\ i \in Nat \ {0} /\ i <= m
  <2>1. i # f
    <3> SUFFICES ASSUME i = f PROVE FALSE
      OBVIOUS
    <3>1. i # m
      BY <1>1, <1>2
    <3>2. L[m][2] - L[f][1] <= ChunkSize
      BY <1>3, <3>1
    <3>3. L[m][2] \in Nat /\ L[f][1] \in Nat
      BY <1>1, <1>2, LeavesInOrder
    <3> QED
      BY <1>2, <3>2, <3>3, SizesAreNatural
  <2> QED
    BY <1>1, <1>2, <1>3, <2>1
<1>6. L[m][2] - L[i][1] <= ChunkSize
  BY <1>1, <1>3, LeavesInOrder
<1>7. /\ L[f][1] \in Nat /\ L[n][2] \in Nat /\ L[m][2] \in Nat /\ L[i][1] \in Nat
      /\ L[1][1] \in Nat /\ L[1][1] <= L[f][1]
      /\ L[f][1] < L[i][1] /\ L[n][2] < L[m][2] /\ L[f][1] <= L[n][1]
      /\ L[n][1] \in Nat /\ L[n][1] <= L[n][2]
  <2>1. 1 \in 1..Len(L)
    BY LeavesInOrder
  <2> QED
    BY <1>1, <1>2, <1>5, <2>1, LeavesInOrder
<1>8. new \in Spans /\ new[1] = L[f][1] /\ new[2] = L[n][2] /\ Width(new) <= ChunkSize
  <2> DEFINE a == L[f][1]
             b == L[n][2]
             c == L[n][1]
  <2>1. a \in Nat /\ b \in Nat /\ c \in Nat /\ a <= c /\ c <= b /\ b - a <= ChunkSize
    BY <1>2, <1>7
  <2>2. new = <<a, b>>
    OBVIOUS
  <2> HIDE DEF a, b, c, new
  <2>3. new \in Spans /\ new[1] = a /\ new[2] = b /\ Width(new) <= ChunkSize
    BY <2>1, <2>2, SpanOf
  <2> QED
    BY <2>3 DEF a, b
<1> HIDE DEF new
<1>9. /\ out \in Seq(Spans) /\ ToSet(out) = ToSet(acc.merged) \cup {new}
  BY <1>2, <1>8, AppendElement
<1>10. ASSUME NEW x \in ToSet(acc.merged)
       PROVE  /\ x \in Spans /\ x[1] \in Nat /\ x[2] \in Nat
              /\ Width(x) <= ChunkSize /\ L[1][1] <= x[1]
              /\ x[1] < L[f][1] /\ x[2] < L[n][2]
  <2>1. x \in Spans
    BY <1>2, ToSetIs
  <2> QED
    BY <2>1 DEF WindowInv, Spans, f
<1>11. Chain(out, Later)
  <2>1. Chain(acc.merged, Later)
    BY DEF WindowInv
  <2>2. \A x \in ToSet(acc.merged) : <<x, new>> \in Later
    BY <1>8, <1>10, LaterIs
  <2> QED
    BY <1>2, <1>8, <2>1, <2>2, AppendChain
<1>12. \A x \in ToSet(out) : /\ Width(x) <= ChunkSize
                             /\ x[1] < L[i][1] /\ x[2] < L[m][2]
                             /\ L[1][1] <= x[1]
  <2>1. ASSUME NEW x \in ToSet(acc.merged) PROVE x[1] < L[i][1] /\ x[2] < L[m][2]
    <3>1. x[1] \in Nat /\ L[f][1] \in Nat /\ L[i][1] \in Nat
          /\ x[1] < L[f][1] /\ L[f][1] < L[i][1]
      BY <1>7, <1>10
    <3>2. x[2] \in Nat /\ L[n][2] \in Nat /\ L[m][2] \in Nat
          /\ x[2] < L[n][2] /\ L[n][2] < L[m][2]
      BY <1>7, <1>10
    <3>3. x[1] < L[i][1]
      BY <3>1
    <3>4. x[2] < L[m][2]
      BY <3>2
    <3> QED
      BY <3>3, <3>4
  <2> QED
    BY <1>7, <1>8, <1>9, <1>10, <2>1
<1>13. ASSUME NEW k \in 1..m
       PROVE  \/ k >= i
              \/ \E x \in ToSet(out) : x[1] <= L[k][1] /\ L[k][2] <= x[2]
  <2>1. CASE k < f
    <3>1. k \in 1..n /\ ~(k >= f)
      BY <1>1, <1>2, <2>1
    <3>2. \E x \in ToSet(acc.merged) : x[1] <= L[k][1] /\ L[k][2] <= x[2]
      BY <3>1 DEF WindowInv, f
    <3> QED
      BY <1>9, <3>2
  <2>2. CASE k >= f /\ k <= n
    <3>1. k \in 1..Len(L)
      BY <1>1, <2>2
    <3>2. L[f][1] <= L[k][1] /\ L[k][2] <= L[n][2]
      BY <1>2, <2>2, <3>1, LeavesInOrder
    <3> QED
      BY <1>8, <1>9, <3>2
  <2>3. CASE k > n
    <3>1. k = m
      BY <1>1, <2>3
    <3> QED
      BY <1>5, <3>1
  <2> QED
    BY <1>1, <1>2, <2>1, <2>2, <2>3
<1> DEFINE st == [merged |-> out, first |-> i]
<1>14. st \in WindowState /\ st.merged = out /\ st.first = i
  BY <1>5, <1>9 DEF WindowState
<1> HIDE DEF out, st
<1>15. WindowInv(st, L, m)
  BY <1>5, <1>6, <1>11, <1>12, <1>13, <1>14 DEF WindowInv
<1> QED
  BY <1>4, <1>15 DEF st, m

\* The merged spans of the leaves.
LEMMA MergedIs ==
    ASSUME NEW L, Leaves(L)
    PROVE  LET merged == MergeLeaves(L)
           IN /\ merged \in Seq(Spans)
              /\ Chain(merged, Later)
              /\ \A x \in ToSet(merged) : /\ Width(x) <= ChunkSize
                                          /\ L[1][1] <= x[1] /\ x[2] <= L[Len(L)][2]
              /\ \A k \in 1..Len(L) :
                    \E x \in ToSet(merged) : x[1] <= L[k][1] /\ L[k][2] <= x[2]
<1> DEFINE w == Merging(L)
           N == Len(L)
           none == [merged |-> <<>>, first |-> 1]
           S == {n \in Nat : n + 1 <= N => WindowInv(w[n + 1], L, n + 1)}
<1>1. N \in Nat /\ N >= 1 /\ 1 \in 1..N
  BY LeavesInOrder
<1>2. w[0] = none /\ \A n \in 1..N : w[n] = TakeLeaf(w[n - 1], L, n)
  BY MergingSteps
<1> HIDE DEF w, N
<1>3. w[1] = none
  <2>1. w[1] = TakeLeaf(none, L, 1)
    BY <1>1, <1>2
  <2> QED
    BY <2>1 DEF TakeLeaf
<1>4. 0 \in S
  <2>1. none \in WindowState /\ none.merged = <<>> /\ none.first = 1
    BY DEF WindowState
  <2>2. Chain(<<>>, Later) /\ ToSet(<<>>) = {}
    BY SingleChain
  <2>3. L[1][2] - L[1][1] <= ChunkSize
    BY <1>1, LeavesInOrder DEF N
  <2> HIDE DEF none
  <2>4. WindowInv(none, L, 1)
    BY <2>1, <2>2, <2>3 DEF WindowInv
  <2>5. 0 + 1 = 1
    OBVIOUS
  <2> QED
    BY <1>3, <2>4, <2>5
<1>5. ASSUME NEW k \in Nat, k \in S PROVE k + 1 \in S
  <2> DEFINE n == k + 1
  <2> SUFFICES ASSUME n + 1 <= N PROVE WindowInv(w[n + 1], L, n + 1)
    OBVIOUS
  <2>1. n \in 1..N /\ n + 1 \in 1..N /\ (n + 1) - 1 = n /\ n \in Nat
    BY <1>1
  <2>2. WindowInv(w[n], L, n)
    BY <1>1, <1>5, <2>1
  <2> HIDE DEF n
  <2>3. w[n + 1] = TakeLeaf(w[n], L, n + 1)
    BY <1>2, <2>1
  <2> DEFINE acc == w[n]
  <2>4. acc.first \in Nat /\ acc.first <= n
    BY <2>2 DEF WindowInv, WindowState
  <2>5. CASE L[n + 1][2] - L[acc.first][1] > ChunkSize
    BY <2>1, <2>2, <2>3, <2>5, WindowClosedKeeps DEF N
  <2>6. CASE ~(L[n + 1][2] - L[acc.first][1] > ChunkSize)
    <3>1. w[n + 1] = acc
      BY <2>3, <2>6 DEF TakeLeaf
    <3>2. L[n + 1][2] - L[acc.first][1] <= ChunkSize
      <4>1. acc.first \in 1..N
        <5>1. acc.first \in Nat \ {0}
          BY <2>2 DEF WindowInv, WindowState
        <5> HIDE DEF acc
        <5> QED
          BY <2>1, <2>4, <5>1, <1>1
      <4>2. L[n + 1][2] \in Nat /\ L[acc.first][1] \in Nat
        BY <2>1, <4>1, LeavesInOrder DEF N
      <4> QED
        BY <2>6, <4>2, SizesAreNatural
    <3> QED
      BY <2>1, <2>2, <3>1, <3>2, LeafFitsKeeps DEF N
  <2> QED
    BY <2>5, <2>6
<1>6. WindowInv(w[N], L, N)
  <2>1. Nat \subseteq S
    <3> HIDE DEF S
    <3> QED
      BY <1>4, <1>5, NatInd
  <2>2. N - 1 \in S /\ (N - 1) + 1 = N
    BY <1>1, <2>1
  <2> QED
    BY <2>2
<1> DEFINE acc == w[N]
           f == acc.first
           new == <<L[f][1], L[N][2]>>
           out == Append(acc.merged, new)
<1>7. MergeLeaves(L) = out
  BY DEF MergeLeaves, w, N, Last
<1>8. /\ acc.merged \in Seq(Spans) /\ f \in 1..N /\ N \in 1..N /\ f <= N
      /\ L[N][2] - L[f][1] <= ChunkSize
  BY <1>1, <1>6 DEF WindowInv, WindowState
<1>9. /\ L[f][1] \in Nat /\ L[N][2] \in Nat /\ L[1][1] \in Nat /\ L[1][1] <= L[f][1]
      /\ L[N][1] \in Nat /\ L[f][1] <= L[N][1] /\ L[N][1] <= L[N][2]
  BY <1>1, <1>8, LeavesInOrder DEF N
<1>10. new \in Spans /\ new[1] = L[f][1] /\ new[2] = L[N][2] /\ Width(new) <= ChunkSize
  <2> DEFINE a == L[f][1]
             b == L[N][2]
             c == L[N][1]
  <2>1. a \in Nat /\ b \in Nat /\ c \in Nat /\ a <= c /\ c <= b /\ b - a <= ChunkSize
    BY <1>8, <1>9
  <2>2. new = <<a, b>>
    OBVIOUS
  <2> HIDE DEF a, b, c, new
  <2>3. new \in Spans /\ new[1] = a /\ new[2] = b /\ Width(new) <= ChunkSize
    BY <2>1, <2>2, SpanOf
  <2> QED
    BY <2>3 DEF a, b
<1> HIDE DEF new, f
<1>11. out \in Seq(Spans) /\ ToSet(out) = ToSet(acc.merged) \cup {new}
  BY <1>8, <1>10, AppendElement
<1>12. ASSUME NEW x \in ToSet(acc.merged)
       PROVE  /\ x \in Spans /\ x[1] \in Nat /\ x[2] \in Nat
              /\ Width(x) <= ChunkSize /\ L[1][1] <= x[1]
              /\ x[1] < L[f][1] /\ x[2] < L[N][2]
  <2>1. x \in Spans
    BY <1>8, ToSetIs
  <2> QED
    BY <1>6, <2>1 DEF WindowInv, Spans, f
<1>13. Chain(out, Later)
  <2>1. Chain(acc.merged, Later)
    BY <1>6 DEF WindowInv
  <2>2. \A x \in ToSet(acc.merged) : <<x, new>> \in Later
    BY <1>10, <1>12, LaterIs
  <2> QED
    BY <1>8, <1>10, <2>1, <2>2, AppendChain
<1>14. \A x \in ToSet(out) : Width(x) <= ChunkSize /\ L[1][1] <= x[1] /\ x[2] <= L[N][2]
  <2>1. ASSUME NEW x \in ToSet(acc.merged) PROVE x[2] <= L[N][2]
    BY <1>9, <1>12
  <2> QED
    BY <1>9, <1>10, <1>11, <1>12, <2>1
<1>15. ASSUME NEW k \in 1..N PROVE \E x \in ToSet(out) : x[1] <= L[k][1] /\ L[k][2] <= x[2]
  <2>1. CASE k >= f
    <3>1. L[f][1] <= L[k][1] /\ L[k][2] <= L[N][2]
      BY <1>1, <1>8, <2>1, LeavesInOrder DEF N
    <3> QED
      BY <1>10, <1>11, <3>1
  <2>2. CASE ~(k >= f)
    <3>1. \E x \in ToSet(acc.merged) : x[1] <= L[k][1] /\ L[k][2] <= x[2]
      BY <1>6, <2>2 DEF WindowInv, f
    <3> QED
      BY <1>11, <3>1
  <2> QED
    BY <2>1, <2>2
<1> HIDE DEF out
<1> QED
  BY <1>7, <1>11, <1>13, <1>14, <1>15 DEF N

-----------------------------------------------------------------------------
(***************************************************************************)
(* The default chunker: small chunks join a neighbour.                     *)
(***************************************************************************)

\* The chunks that a text of units may have.
ChunksOf(U, text) ==
    {c \in [text : Seq(U), start : Nat, end : Nat, headers : Seq(Nat)] :
        /\ c.start < c.end /\ c.end <= Len(text)
        /\ c.text = Slice(text, c.start, c.end)}

\* They are in order at both ends, though they may overlap.
Sorted(chunks) ==
    \A j, k \in 1..Len(chunks) :
        j < k => chunks[j].start < chunks[k].start /\ chunks[j].end < chunks[k].end

\* A part of the text as a chunk.
LEMMA ChunkIs ==
    ASSUME NEW U, NEW text \in Seq(U), NEW s \in Nat, NEW e \in Nat, s < e, e <= Len(text),
           NEW headers \in Seq(Nat)
    PROVE  /\ Chunk(text, s, e, headers) \in ChunksOf(U, text)
           /\ Chunk(text, s, e, headers).start = s
           /\ Chunk(text, s, e, headers).end = e
<1> DEFINE c == Chunk(text, s, e, headers)
<1>1. Len(text) \in Nat
  BY LenProperties
<1>2. s \in 0..Len(text) /\ e \in s..Len(text)
  BY <1>1
<1>3. Slice(text, s, e) \in Seq(U)
  BY <1>2, SliceProperties
<1>4. /\ c.text = Slice(text, s, e) /\ c.start = s /\ c.end = e
      /\ c \in [text : Seq(U), start : Nat, end : Nat, headers : Seq(Nat)]
  BY <1>3 DEF Chunk
<1> HIDE DEF c
<1> QED
  BY <1>4 DEF ChunksOf, c

\* The length of a chunk is the distance of its offsets.
LEMMA ChunkLength ==
    ASSUME NEW U, NEW text \in Seq(U), NEW c \in ChunksOf(U, text)
    PROVE  /\ c.start \in Nat /\ c.end \in Nat /\ c.headers \in Seq(Nat)
           /\ c.start < c.end /\ c.end <= Len(text) /\ c.text = Slice(text, c.start, c.end)
           /\ Len(c.text) = c.end - c.start
           /\ IsSmall(c) <=> c.end - c.start < MinChunkSize
           /\ Fits(c, ChunkSize) <=> c.end - c.start <= ChunkSize
<1>1. /\ c.start \in Nat /\ c.end \in Nat /\ c.headers \in Seq(Nat)
      /\ c.start < c.end /\ c.end <= Len(text) /\ c.text = Slice(text, c.start, c.end)
  BY DEF ChunksOf
<1>2. Len(text) \in Nat
  BY LenProperties
<1>3. c.start \in 0..Len(text) /\ c.end \in c.start..Len(text)
  BY <1>1, <1>2
<1>4. Len(Slice(text, c.start, c.end)) = c.end - c.start
  BY <1>3, SliceProperties
<1>5. ChunkSize # NoLimit
  BY SizesAreNatural DEF NoLimit
<1> QED
  BY <1>1, <1>4, <1>5 DEF IsSmall, Fits

\* Two chunks that are joined.
LEMMA JoinIs ==
    ASSUME NEW U, NEW text \in Seq(U),
           NEW c \in ChunksOf(U, text), NEW d \in ChunksOf(U, text),
           c.start < d.start, c.end < d.end
    PROVE  /\ JoinSpans(text, c, d) \in ChunksOf(U, text)
           /\ JoinSpans(text, c, d).start = c.start
           /\ JoinSpans(text, c, d).end = d.end
<1> DEFINE s == c.start
           e == d.end
           headers == c.headers \o d.headers
<1>1. /\ s \in Nat /\ d.start \in Nat /\ c.end \in Nat /\ e \in Nat
      /\ s < c.end /\ e <= Len(text)
      /\ c.headers \in Seq(Nat) /\ d.headers \in Seq(Nat)
  BY ChunkLength
<1>2. headers \in Seq(Nat)
  BY <1>1, ConcatProperties
<1>3. Min({s, d.start}) = s
  <2> DEFINE a == d.start
  <2>1. s \in Nat /\ a \in Nat /\ s < a
    BY <1>1
  <2> HIDE DEF s, a
  <2>2. Min({s, a}) = s
    BY <2>1 DEF Min
  <2> QED
    BY <2>2 DEF a
<1>4. Max({c.end, e}) = e
  <2> DEFINE a == c.end
  <2>1. e \in Nat /\ a \in Nat /\ a < e
    BY <1>1
  <2> HIDE DEF e, a
  <2>2. Max({a, e}) = e
    BY <2>1 DEF Max
  <2> QED
    BY <2>2 DEF a
<1>5. JoinSpans(text, c, d) = Chunk(text, s, e, headers)
  <2> DEFINE lo == Min({c.start, d.start})
             hi == Max({c.end, d.end})
  <2>1. JoinSpans(text, c, d) = Chunk(text, lo, hi, headers)
    BY DEF JoinSpans
  <2>2. lo = s /\ hi = e
    BY <1>3, <1>4
  <2> HIDE DEF lo, hi, headers, s, e
  <2> QED
    BY <2>1, <2>2
<1>6. s < e
  BY <1>1
<1> HIDE DEF headers, s, e
<1>7. JoinSpans(text, c, d) \in ChunksOf(U, text) /\ JoinSpans(text, c, d).start = s
      /\ JoinSpans(text, c, d).end = e
  BY <1>1, <1>2, <1>5, <1>6, ChunkIs
<1> QED
  BY <1>7 DEF s, e

\* What MergeSmall does with a chunk of the default chunker.
TakeChunk(merged, c, text) ==
    AddChunk(merged, c, ChunkSize, LAMBDA a, b : JoinSpans(text, a, b))

FirstMerged(merged, text) ==
    MergeFirst(merged, ChunkSize, LAMBDA a, b : JoinSpans(text, a, b))

Folding(chunks, text) ==
    LET after[n \in 0..Len(chunks)] ==
            IF n = 0 THEN <<>> ELSE TakeChunk(after[n - 1], chunks[n], text)
    IN after

\* Undersized chunks are merged by that fold.
LEMMA MergeUndersizedIs ==
    ASSUME NEW chunks, NEW text
    PROVE  MergeUndersized(chunks, text, ChunkSize)
             = FirstMerged(Folding(chunks, text)[Len(chunks)], text)
BY DEF MergeUndersized, MergeSmall, Folding, FirstMerged, TakeChunk

\* The two cases of a step of the fold.
LEMMA TakeChunkIs ==
    ASSUME NEW merged, NEW c, NEW text
    PROVE  TakeChunk(merged, c, text) =
             IF merged # <<>> /\ IsSmall(c) /\ Fits(JoinSpans(text, Last(merged), c), ChunkSize)
             THEN Append(Front(merged), JoinSpans(text, Last(merged), c))
             ELSE Append(merged, c)
BY DEF TakeChunk, AddChunk

\* The two cases of its end.
LEMMA FirstMergedIs ==
    ASSUME NEW merged, NEW text
    PROVE  FirstMerged(merged, text) =
             IF /\ Len(merged) > 1
                /\ IsSmall(merged[1])
                /\ Fits(JoinSpans(text, merged[1], merged[2]), ChunkSize)
             THEN <<JoinSpans(text, merged[1], merged[2])>> \o SubSeq(merged, 3, Len(merged))
             ELSE merged
BY DEF FirstMerged, MergeFirst

\* Any two chunks of a text can be joined.
LEMMA JoinType ==
    ASSUME NEW U, NEW text \in Seq(U),
           NEW c \in ChunksOf(U, text), NEW d \in ChunksOf(U, text)
    PROVE  JoinSpans(text, c, d) \in ChunksOf(U, text)
<1> DEFINE lo == Min({c.start, d.start})
           hi == Max({c.end, d.end})
           headers == c.headers \o d.headers
<1>1. /\ c.start \in Nat /\ d.start \in Nat /\ c.end \in Nat /\ d.end \in Nat
      /\ c.start < c.end /\ c.end <= Len(text) /\ d.end <= Len(text)
      /\ c.headers \in Seq(Nat) /\ d.headers \in Seq(Nat)
  BY ChunkLength
<1>2. headers \in Seq(Nat)
  BY <1>1, ConcatProperties
<1>3. lo \in Nat /\ lo <= c.start
  <2> DEFINE a == c.start
             b == d.start
  <2>1. a \in Nat /\ b \in Nat
    BY <1>1
  <2> HIDE DEF a, b
  <2>2. Min({a, b}) \in Nat /\ Min({a, b}) <= a
    <3>1. \E x \in {a, b} : \A y \in {a, b} : x <= y
      BY <2>1
    <3>2. Min({a, b}) \in {a, b} /\ \A y \in {a, b} : Min({a, b}) <= y
      BY <3>1 DEF Min
    <3> QED
      BY <2>1, <3>2
  <2> QED
    BY <2>2 DEF a, b
<1>4. hi \in Nat /\ c.end <= hi /\ hi <= Len(text)
  <2> DEFINE a == c.end
             b == d.end
  <2>1. a \in Nat /\ b \in Nat /\ a <= Len(text) /\ b <= Len(text)
    BY <1>1
  <2> HIDE DEF a, b
  <2>2. Max({a, b}) \in Nat /\ a <= Max({a, b}) /\ Max({a, b}) <= Len(text)
    <3>1. \E x \in {a, b} : \A y \in {a, b} : x >= y
      BY <2>1
    <3>2. Max({a, b}) \in {a, b} /\ \A y \in {a, b} : Max({a, b}) >= y
      BY <3>1 DEF Max
    <3> QED
      BY <2>1, <3>2
  <2> QED
    BY <2>2 DEF a, b
<1>5. JoinSpans(text, c, d) = Chunk(text, lo, hi, headers)
  BY DEF JoinSpans
<1> HIDE DEF lo, hi, headers
<1>6. lo < hi
  BY <1>1, <1>3, <1>4
<1> QED
  BY <1>2, <1>3, <1>4, <1>5, <1>6, ChunkIs

\* A sequence without its last element.
LEMMA FrontIs ==
    ASSUME NEW X, NEW s \in Seq(X), s # <<>>
    PROVE  /\ Front(s) \in Seq(X) /\ Len(s) \in Nat /\ Len(s) >= 1
           /\ Len(Front(s)) = Len(s) - 1
           /\ \A k \in 1..(Len(s) - 1) : Front(s)[k] = s[k]
<1> DEFINE N == Len(s)
           f == Front(s)
           m == N - 1
<1>1. N \in Nat /\ N >= 1
  BY EmptySeq, LenProperties
<1>2. f = SubSeq(s, 1, N - 1) /\ N - 1 \in Nat
  BY <1>1 DEF Front
<1>3. \A k \in 1..m : s[k] \in X
  BY <1>1, ElementOfSeq
<1> HIDE DEF m, f, N
<1>4. f \in Seq(X) /\ Len(f) = m /\ \A k \in 1..m : f[k] = s[k]
  BY <1>2, <1>3, SubSeqProperties DEF m
<1> QED
  BY <1>1, <1>4 DEF m, N, f

\* A sequence whose last element is another.
LEMMA OtherLast ==
    ASSUME NEW X, NEW s \in Seq(X), s # <<>>, NEW x \in X
    PROVE  LET t == Append(Front(s), x)
           IN /\ t \in Seq(X) /\ Len(t) = Len(s) /\ t[Len(s)] = x
              /\ \A k \in 1..(Len(s) - 1) : t[k] = s[k]
<1> DEFINE N == Len(s)
           f == Front(s)
<1>1. /\ N \in Nat /\ N >= 1
      /\ f \in Seq(X) /\ Len(f) = N - 1 /\ \A k \in 1..(N - 1) : f[k] = s[k]
  BY FrontIs
<1> HIDE DEF f
<1>2. /\ Append(f, x) \in Seq(X) /\ Len(Append(f, x)) = Len(f) + 1
      /\ Append(f, x)[Len(f) + 1] = x
      /\ \A k \in 1..Len(f) : Append(f, x)[k] = f[k]
  BY <1>1, AppendProperties
<1> QED
  BY <1>1, <1>2 DEF f

\* A step of the fold keeps chunks of the text.
LEMMA TakeChunkType ==
    ASSUME NEW U, NEW text \in Seq(U), NEW merged \in Seq(ChunksOf(U, text)),
           NEW c \in ChunksOf(U, text)
    PROVE  TakeChunk(merged, c, text) \in Seq(ChunksOf(U, text))
<1> DEFINE X == ChunksOf(U, text)
<1>1. CASE merged = <<>>
  BY <1>1, TakeChunkIs, AppendElement
<1>2. CASE merged # <<>>
  <2>1. Last(merged) \in X
    <3>1. Len(merged) \in 1..Len(merged)
      BY <1>2, EmptySeq, LenProperties
    <3> HIDE DEF X
    <3> QED
      BY <3>1, ElementOfSeq DEF Last, X
  <2> DEFINE j == JoinSpans(text, Last(merged), c)
  <2>2. j \in X
    BY <2>1, JoinType
  <2> HIDE DEF X, j
  <2>3. Append(Front(merged), j) \in Seq(X) /\ Append(merged, c) \in Seq(X)
    BY <1>2, <2>2, OtherLast, AppendElement DEF X
  <2>4. TakeChunk(merged, c, text) \in {Append(Front(merged), j), Append(merged, c)}
    BY TakeChunkIs DEF j
  <2> QED
    BY <2>3, <2>4 DEF X
<1> QED
  BY <1>1, <1>2

\* The loop of MergeSmall, a chunk at a time.
LEMMA FoldingSteps ==
    ASSUME NEW U, NEW text \in Seq(U), NEW C \in Seq(ChunksOf(U, text))
    PROVE  /\ Folding(C, text)[0] = <<>>
           /\ \A n \in 1..Len(C) :
                Folding(C, text)[n] = TakeChunk(Folding(C, text)[n - 1], C[n], text)
           /\ Folding(C, text) = [n \in 0..Len(C) |-> Folding(C, text)[n]]
<1> DEFINE N == Len(C)
           X == Seq(ChunksOf(U, text))
           Body(g) == [n \in 0..N |-> IF n = 0 THEN <<>>
                                      ELSE TakeChunk(g[n - 1], C[n], text)]
           step == [a \in (1..N) \X X |-> TakeChunk(a[2], C[a[1]], text)]
<1>1. N \in Nat /\ \A n \in 1..N : C[n] \in ChunksOf(U, text)
  BY LenProperties, ElementOfSeq
<1>2. <<>> \in X
  BY EmptySeq
<1>3. step \in [(1..N) \X X -> X]
  <2>1. ASSUME NEW a \in (1..N) \X X PROVE TakeChunk(a[2], C[a[1]], text) \in X
    <3>1. a[1] \in 1..N /\ a[2] \in X /\ C[a[1]] \in ChunksOf(U, text)
      BY <1>1
    <3> QED
      BY <3>1, TakeChunkType
  <2> QED
    BY <2>1
<1>4. \A n \in 1..N, x \in X : step[<<n, x>>] = TakeChunk(x, C[n], text)
  OBVIOUS
<1>5. PICK g : Computation(g, X, <<>>, step, N)
  <2> HIDE DEF step, N, X
  <2> QED
    BY <1>1, <1>2, <1>3, RecursionExists
<1> HIDE DEF step, N, X
<1>6. g = Body(g)
  <2>1. \A n \in 0..N : n = 0 \/ n \in 1..N
    BY <1>1
  <2>2. \A n \in 1..N : n - 1 \in 0..N /\ g[n - 1] \in X
    BY <1>1, <1>5 DEF Computation
  <2>3. \A n \in 0..N : g[n] = Body(g)[n]
    BY <1>4, <1>5, <2>1, <2>2 DEF Computation
  <2> QED
    BY <1>5, <2>3 DEF Computation
<1>7. Folding(C, text) = CHOOSE h : h = Body(h)
  BY DEF Folding, N
<1> DEFINE w == Folding(C, text)
<1>8. w = Body(w)
  <2> HIDE DEF Body
  <2> QED
    BY <1>6, <1>7
<1> HIDE DEF w
<1>9. w[0] = <<>> /\ \A n \in 1..N : w[n] = TakeChunk(w[n - 1], C[n], text)
  <2>1. 0 \in 0..N /\ \A n \in 1..N : n \in 0..N /\ n # 0
    BY <1>1
  <2> DEFINE b == Body(w)
  <2>2. b[0] = <<>> /\ \A n \in 1..N : b[n] = TakeChunk(w[n - 1], C[n], text)
    BY <2>1
  <2> HIDE DEF b
  <2>3. w = b
    BY <1>8 DEF b
  <2> QED
    BY <2>2, <2>3
<1>10. w = [n \in 0..N |-> w[n]]
  <2>1. w = Body(w) /\ DOMAIN Body(w) = 0..N /\ Body(w) = [n \in 0..N |-> Body(w)[n]]
    BY <1>8
  <2> HIDE DEF Body
  <2> QED
    BY <2>1
<1> QED
  BY <1>9, <1>10 DEF w, N

\* What the chunks are when the first n were taken: in order up to the end of
\* the last of those, within the size, with a part that holds each chunk that
\* was taken, and no small one has room in the one before it.
Narrow(chunks, size) == \A k \in 1..Len(chunks) : chunks[k].end - chunks[k].start <= size

HeldBy(chunk, chunks) ==
    \E k \in 1..Len(chunks) : chunks[k].start <= chunk.start /\ chunk.end <= chunks[k].end

NoRoom(chunks) ==
    \A k \in 2..Len(chunks) :
        chunks[k].end - chunks[k].start < MinChunkSize
          => chunks[k].end - chunks[k - 1].start > ChunkSize

FoldInv(M, C, n, U, text, size) ==
    /\ M \in Seq(ChunksOf(U, text)) /\ M # <<>>
    /\ Sorted(M)
    /\ M[Len(M)].end = C[n].end /\ M[Len(M)].start <= C[n].start
    /\ Narrow(M, size)
    /\ \A j \in 1..n : HeldBy(C[j], M)
    /\ NoRoom(M)

\* No chunks at all.
LEMMA NoneIsSorted ==
    ASSUME NEW X, NEW size
    PROVE  <<>> \in Seq(X) /\ Sorted(<<>>) /\ Narrow(<<>>, size) /\ NoRoom(<<>>)
<1> DEFINE none == <<>>
<1>1. none \in Seq(X) /\ Len(none) = 0
  BY EmptySeq
<1> HIDE DEF none
<1>2. 1..Len(none) = {} /\ 2..Len(none) = {}
  BY <1>1
<1>3. Sorted(none) /\ Narrow(none, size) /\ NoRoom(none)
  BY <1>2 DEF Sorted, Narrow, NoRoom
<1> QED
  BY <1>1, <1>3 DEF none

\* The offsets of a sequence of chunks.
LEMMA Offsets ==
    ASSUME NEW U, NEW text \in Seq(U), NEW M \in Seq(ChunksOf(U, text))
    PROVE  /\ Len(M) \in Nat
           /\ \A k \in 1..Len(M) : /\ M[k] \in ChunksOf(U, text)
                                   /\ M[k].start \in Nat /\ M[k].end \in Nat
                                   /\ M[k].start < M[k].end
           /\ M # <<>> => Len(M) \in 1..Len(M)
<1>1. Len(M) \in Nat
  BY LenProperties
<1>2. ASSUME NEW k \in 1..Len(M)
      PROVE  /\ M[k] \in ChunksOf(U, text)
             /\ M[k].start \in Nat /\ M[k].end \in Nat /\ M[k].start < M[k].end
  <2>1. M[k] \in ChunksOf(U, text)
    BY ElementOfSeq
  <2> QED
    BY <2>1, ChunkLength
<1>3. M # <<>> => Len(M) \in 1..Len(M)
  BY <1>1, EmptySeq
<1> QED
  BY <1>1, <1>2, <1>3

\* What is in a chunk that is held by others is in one of them.
LEMMA StillHeld ==
    ASSUME NEW c, NEW D, HeldBy(c, D), c.start \in Nat, c.end \in Nat,
           \A l \in 1..Len(D) : D[l].start \in Nat /\ D[l].end \in Nat,
           NEW i \in Nat, c.start < i, i <= c.end
    PROVE  \E l \in 1..Len(D) : D[l].start < i /\ i <= D[l].end
<1>1. PICK l \in 1..Len(D) : D[l].start <= c.start /\ c.end <= D[l].end
  BY DEF HeldBy
<1> DEFINE p == D[l].start
           q == D[l].end
           a == c.start
           b == c.end
<1>2. /\ p \in Nat /\ q \in Nat /\ a \in Nat /\ b \in Nat
      /\ p <= a /\ b <= q /\ a < i /\ i <= b
  BY <1>1
<1> HIDE DEF p, q, a, b
<1>3. p < i /\ i <= q
  BY <1>2
<1> QED
  BY <1>3 DEF p, q

\* A chunk that becomes the last, after the first m of M.
LEMMA Extends ==
    ASSUME NEW size, NEW U, NEW text \in Seq(U), NEW M \in Seq(ChunksOf(U, text)), Sorted(M),
           Narrow(M, size), NoRoom(M), NEW m \in Nat, m <= Len(M),
           NEW x \in ChunksOf(U, text), x.end - x.start <= size,
           \A k \in 1..m : M[k].start < x.start /\ M[k].end < x.end,
           m >= 1 /\ x.end - x.start < MinChunkSize => x.end - M[m].start > ChunkSize,
           NEW t \in Seq(ChunksOf(U, text)), Len(t) = m + 1, t[m + 1] = x,
           \A k \in 1..m : t[k] = M[k]
    PROVE  Sorted(t) /\ Narrow(t, size) /\ NoRoom(t)
<1>1. Len(M) \in Nat
  BY LenProperties
<1>2. \A k \in 1..(m + 1) : k \in 1..m \/ k = m + 1
  OBVIOUS
<1>3. \A k \in 1..m : k \in 1..Len(M)
  BY <1>1
<1>4. Sorted(t)
  <2>1. ASSUME NEW j \in 1..(m + 1), NEW k \in 1..(m + 1), j < k
        PROVE  t[j].start < t[k].start /\ t[j].end < t[k].end
    <3>1. j \in 1..m
      BY <2>1
    <3>2. CASE k \in 1..m
      BY <1>3, <2>1, <3>1, <3>2 DEF Sorted
    <3>3. CASE k = m + 1
      BY <3>1, <3>3
    <3> QED
      BY <1>2, <3>2, <3>3
  <2> QED
    BY <2>1 DEF Sorted
<1>5. Narrow(t, size)
  <2>1. ASSUME NEW k \in 1..(m + 1) PROVE t[k].end - t[k].start <= size
    <3>1. CASE k \in 1..m
      BY <1>3, <3>1 DEF Narrow
    <3>2. CASE k = m + 1
      BY <3>2
    <3> QED
      BY <1>2, <3>1, <3>2
  <2> QED
    BY <2>1 DEF Narrow
<1>6. NoRoom(t)
  <2>1. ASSUME NEW k \in 2..(m + 1), t[k].end - t[k].start < MinChunkSize
        PROVE  t[k].end - t[k - 1].start > ChunkSize
    <3>1. k - 1 \in 1..m
      OBVIOUS
    <3>2. CASE k \in 1..m
      <4>1. t[k] = M[k] /\ t[k - 1] = M[k - 1]
        BY <3>1, <3>2
      <4>2. k \in 2..Len(M)
        BY <1>1, <3>2
      <4> QED
        BY <2>1, <4>1, <4>2 DEF NoRoom
    <3>3. CASE k = m + 1
      <4>1. t[k] = x /\ t[k - 1] = M[m] /\ m >= 1
        BY <3>1, <3>3
      <4> QED
        BY <2>1, <4>1
    <3> QED
      BY <3>2, <3>3
  <2> QED
    BY <2>1 DEF NoRoom
<1> QED
  BY <1>4, <1>5, <1>6

\* A chunk that has room, and is small, joins the last one.
LEMMA JoinKeeps ==
    ASSUME NEW size \in Nat, size >= ChunkSize,
           NEW U, NEW text \in Seq(U), NEW C \in Seq(ChunksOf(U, text)), Sorted(C),
           NEW n \in 1..Len(C), n + 1 <= Len(C), NEW M, FoldInv(M, C, n, U, text, size),
           LET c == C[n + 1] j == JoinSpans(text, Last(M), c)
           IN IsSmall(c) /\ Fits(j, ChunkSize)
    PROVE  LET j == JoinSpans(text, Last(M), C[n + 1])
           IN FoldInv(Append(Front(M), j), C, n + 1, U, text, size)
<1> DEFINE X == ChunksOf(U, text)
           c == C[n + 1]
           N == Len(M)
           y == M[N]
           j == JoinSpans(text, y, c)
           t == Append(Front(M), j)
           m == N - 1
<1>1. /\ M \in Seq(X) /\ M # <<>> /\ Sorted(M) /\ Narrow(M, size) /\ NoRoom(M)
      /\ y.end = C[n].end /\ y.start <= C[n].start
      /\ \A i \in 1..n : HeldBy(C[i], M)
  BY DEF FoldInv
<1>2. N \in Nat /\ N \in 1..N /\ y \in X /\ Last(M) = y
  <2>1. N \in Nat /\ N \in 1..N
    BY <1>1, Offsets
  <2>2. y \in X
    <3> HIDE DEF X
    <3> QED
      BY <1>1, <2>1, ElementOfSeq
  <2> QED
    BY <2>1, <2>2 DEF Last
<1>3. /\ n \in Nat /\ n + 1 \in 1..Len(C) /\ c \in X /\ C[n] \in X
      /\ C[n].start < c.start /\ C[n].end < c.end
  <2>1. n \in 1..Len(C) /\ n + 1 \in 1..Len(C) /\ n < n + 1 /\ n \in Nat
    BY Offsets
  <2> QED
    BY <2>1, Offsets DEF Sorted
<1>4. /\ y.start \in Nat /\ y.end \in Nat /\ c.start \in Nat /\ c.end \in Nat
      /\ C[n].start \in Nat
  BY <1>2, <1>3, ChunkLength
<1>5. y.start < c.start /\ y.end < c.end
  BY <1>1, <1>3, <1>4
<1>6. j \in X /\ j.start = y.start /\ j.end = c.end
  BY <1>2, <1>3, <1>5, JoinIs
<1>7. /\ t \in Seq(X) /\ Len(t) = N /\ t[N] = j
      /\ \A k \in 1..(N - 1) : t[k] = M[k]
  <2> HIDE DEF X, j
  <2> QED
    BY <1>1, <1>6, OtherLast
<1>8. j.end - j.start <= size
  <2>1. j.end - j.start <= ChunkSize
    BY <1>2, <1>6, ChunkLength
  <2> DEFINE a == y.start
             d == c.end
  <2>2. a \in Nat /\ d \in Nat /\ j.end = d /\ j.start = a
    BY <1>4, <1>6
  <2> HIDE DEF a, d, j
  <2> QED
    BY <2>1, <2>2, SizesAreNatural
<1>9. \A k \in 1..m : M[k].start < j.start /\ M[k].end < j.end
  <2>1. ASSUME NEW k \in 1..m PROVE M[k].start < y.start /\ M[k].end < y.end /\ M[k].end \in Nat
    <3>1. k \in 1..N /\ k < N
      BY <1>2, <2>1
    <3> QED
      BY <1>1, <1>2, <3>1, Offsets DEF Sorted
  <2>2. ASSUME NEW k \in 1..m PROVE M[k].end < j.end
    <3>1. M[k].end < y.end /\ M[k].end \in Nat
      BY <2>1
    <3> DEFINE a == M[k].end
               b == y.end
               d == c.end
    <3>2. a \in Nat /\ b \in Nat /\ d \in Nat /\ a < b /\ b < d /\ j.end = d
      BY <1>4, <1>5, <1>6, <3>1
    <3> HIDE DEF a, b, d, j
    <3>3. a < j.end
      BY <3>2
    <3> QED
      BY <3>3 DEF a
  <2> QED
    BY <1>6, <2>1, <2>2
<1>10. m >= 1 /\ j.end - j.start < MinChunkSize => j.end - M[m].start > ChunkSize
  <2>1. SUFFICES ASSUME m >= 1, j.end - j.start < MinChunkSize
                 PROVE  j.end - M[m].start > ChunkSize
    OBVIOUS
  <2> DEFINE a == y.start
             b == y.end
             d == c.end
             p == M[m].start
  <2>2. a \in Nat /\ b \in Nat /\ d \in Nat /\ b < d /\ j.end = d /\ j.start = a
    BY <1>4, <1>5, <1>6
  <2>3. N \in 2..N /\ N - 1 = m /\ m \in 1..N
    BY <1>2, <2>1
  <2>4. p \in Nat
    BY <1>1, <2>3, Offsets
  <2>5. b - a < MinChunkSize => b - p > ChunkSize
    BY <1>1, <2>3 DEF NoRoom
  <2>6. j.end - j.start < MinChunkSize
    BY <2>1
  <2> HIDE DEF a, b, d, p, j, m
  <2>7. d - p > ChunkSize
    BY <2>2, <2>4, <2>5, <2>6, SizesAreNatural
  <2> QED
    BY <2>2, <2>7 DEF p
<1>11. Sorted(t) /\ Narrow(t, size) /\ NoRoom(t)
  <2>1. m \in Nat /\ m + 1 = N /\ m <= N
    BY <1>2
  <2>2. /\ j \in ChunksOf(U, text) /\ j.end - j.start <= size
        /\ t \in Seq(ChunksOf(U, text)) /\ M \in Seq(ChunksOf(U, text))
    BY <1>1, <1>6, <1>7, <1>8
  <2> HIDE DEF t, j, m, X
  <2>3. Len(t) = m + 1 /\ t[m + 1] = j /\ m <= Len(M)
    BY <1>1, <1>2, <1>7, <2>1
  <2>4. \A k \in 1..m : t[k] = M[k]
    BY <1>7 DEF m
  <2> QED
    BY <1>1, <1>9, <1>10, <2>1, <2>2, <2>3, <2>4, Extends, ZenonT(40)
<1>12. ASSUME NEW i \in 1..(n + 1) PROVE HeldBy(C[i], t)
  <2>1. CASE i = n + 1
    <3>1. j.start <= c.start /\ c.end <= j.end
      <4> DEFINE a == y.start
                 b == c.start
                 d == c.end
      <4>1. a \in Nat /\ b \in Nat /\ d \in Nat /\ a < b /\ j.start = a /\ j.end = d
        BY <1>4, <1>5, <1>6
      <4> HIDE DEF a, b, d, j
      <4>2. j.start <= b /\ d <= j.end
        BY <4>1
      <4> QED
        BY <4>2 DEF b, d
    <3> HIDE DEF t, j
    <3> QED
      BY <1>2, <1>7, <2>1, <3>1 DEF HeldBy
  <2>2. CASE i # n + 1
    <3>1. i \in 1..n
      BY <1>3, <2>2
    <3>2. PICK k \in 1..N : M[k].start <= C[i].start /\ C[i].end <= M[k].end
      BY <1>1, <3>1 DEF HeldBy
    <3>3. CASE k = N
      <4>1. i \in 1..Len(C)
        BY <1>3, <3>1
      <4>2. C[i].end \in Nat /\ C[i].start \in Nat
        BY <4>1, Offsets
      <4> DEFINE a == y.start
                 b == y.end
                 d == c.end
                 p == C[i].start
                 q == C[i].end
      <4>3. a <= p /\ q <= b /\ j.start = a /\ j.end = d
        BY <1>6, <3>2, <3>3
      <4>4. b \in Nat /\ d \in Nat /\ q \in Nat /\ b < d
        BY <1>4, <1>5, <4>2
      <4> HIDE DEF a, b, d, p, q, j
      <4>5. q <= d
        BY <4>3, <4>4
      <4>6. j.start <= p /\ q <= j.end
        BY <4>3, <4>5
      <4> HIDE DEF t
      <4> QED
        BY <1>2, <1>7, <4>6 DEF HeldBy, p, q
    <3>4. CASE k # N
      <4>1. k \in 1..(N - 1) /\ k \in 1..N
        BY <1>2, <3>4
      <4> HIDE DEF t
      <4> QED
        BY <1>7, <3>2, <4>1 DEF HeldBy
    <3> QED
      BY <3>3, <3>4
  <2> QED
    BY <2>1, <2>2
<1>13. t # <<>>
  BY <1>2, <1>7, EmptySeq
<1>14. t[Len(t)].end = C[n + 1].end /\ t[Len(t)].start <= C[n + 1].start
  <2> HIDE DEF t, j
  <2> QED
    BY <1>4, <1>5, <1>6, <1>7
<1> HIDE DEF t
<1>15. FoldInv(t, C, n + 1, U, text, size)
  BY <1>7, <1>11, <1>12, <1>13, <1>14 DEF FoldInv
<1> QED
  BY <1>2, <1>15 DEF t

\* A chunk that is added as it is.
LEMMA AddKeeps ==
    ASSUME NEW size \in Nat, size >= ChunkSize,
           NEW U, NEW text \in Seq(U), NEW C \in Seq(ChunksOf(U, text)), Sorted(C),
           Narrow(C, size),
           NEW n \in 1..Len(C), n + 1 <= Len(C), NEW M, FoldInv(M, C, n, U, text, size),
           LET c == C[n + 1] j == JoinSpans(text, Last(M), c)
           IN ~(IsSmall(c) /\ Fits(j, ChunkSize))
    PROVE  FoldInv(Append(M, C[n + 1]), C, n + 1, U, text, size)
<1> DEFINE X == ChunksOf(U, text)
           c == C[n + 1]
           N == Len(M)
           y == M[N]
           j == JoinSpans(text, y, c)
           t == Append(M, c)
<1>1. /\ M \in Seq(X) /\ M # <<>> /\ Sorted(M) /\ Narrow(M, size) /\ NoRoom(M)
      /\ y.end = C[n].end /\ y.start <= C[n].start
      /\ \A i \in 1..n : HeldBy(C[i], M)
  BY DEF FoldInv
<1>2. N \in Nat /\ N \in 1..N /\ y \in X /\ Last(M) = y
  <2>1. N \in Nat /\ N \in 1..N
    BY <1>1, Offsets
  <2>2. y \in X
    <3> HIDE DEF X
    <3> QED
      BY <1>1, <2>1, ElementOfSeq
  <2> QED
    BY <2>1, <2>2 DEF Last
<1>3. /\ n \in Nat /\ n + 1 \in 1..Len(C) /\ c \in X /\ C[n] \in X
      /\ C[n].start < c.start /\ C[n].end < c.end
  <2>1. n \in 1..Len(C) /\ n + 1 \in 1..Len(C) /\ n < n + 1 /\ n \in Nat
    BY Offsets
  <2> QED
    BY <2>1, Offsets DEF Sorted
<1>4. /\ y.start \in Nat /\ y.end \in Nat /\ c.start \in Nat /\ c.end \in Nat
      /\ C[n].start \in Nat
  BY <1>2, <1>3, ChunkLength
<1>5. y.start < c.start /\ y.end < c.end
  BY <1>1, <1>3, <1>4
<1>6. j \in X /\ j.start = y.start /\ j.end = c.end
  BY <1>2, <1>3, <1>5, JoinIs
<1>7. /\ t \in Seq(X) /\ Len(t) = N + 1 /\ t[N + 1] = c
      /\ \A k \in 1..N : t[k] = M[k]
  <2> HIDE DEF X, c
  <2> QED
    BY <1>1, <1>3, AppendProperties
<1>8. c.end - c.start <= size
  BY <1>3 DEF Narrow
<1>9. ASSUME NEW k \in 1..N PROVE M[k].start < c.start /\ M[k].end < c.end
  <2>1. M[k].start \in Nat /\ M[k].end \in Nat
    BY <1>1, Offsets
  <2>2. CASE k = N
    BY <1>5, <2>2
  <2>3. CASE k # N
    <3>1. k < N
      BY <1>2, <2>3
    <3>2. M[k].start < y.start /\ M[k].end < y.end
      BY <1>1, <1>2, <3>1 DEF Sorted
    <3> DEFINE a == M[k].start
               b == M[k].end
               d == y.start
               e == y.end
               p == c.start
               q == c.end
    <3>3. /\ a \in Nat /\ b \in Nat /\ d \in Nat /\ e \in Nat /\ p \in Nat /\ q \in Nat
          /\ a < d /\ d < p /\ b < e /\ e < q
      BY <1>4, <1>5, <2>1, <3>2
    <3> HIDE DEF a, b, d, e, p, q
    <3>4. a < p
      BY <3>3
    <3>5. b < q
      BY <3>3
    <3> QED
      BY <3>4, <3>5 DEF a, b, p, q
  <2> QED
    BY <2>2, <2>3
<1>10. c.end - c.start < MinChunkSize => c.end - y.start > ChunkSize
  <2> SUFFICES ASSUME c.end - c.start < MinChunkSize PROVE c.end - y.start > ChunkSize
    OBVIOUS
  <2>1. IsSmall(c)
    BY <1>3, ChunkLength
  <2>2. ~Fits(j, ChunkSize)
    BY <1>2, <2>1
  <2>3. ~(j.end - j.start <= ChunkSize)
    BY <1>6, <2>2, ChunkLength
  <2> DEFINE a == y.start
             d == c.end
  <2>4. a \in Nat /\ d \in Nat /\ ~(d - a <= ChunkSize)
    BY <1>4, <1>6, <2>3
  <2> HIDE DEF a, d
  <2>5. d - a > ChunkSize
    BY <2>4, SizesAreNatural
  <2> QED
    BY <2>5 DEF a, d
<1>11. Sorted(t) /\ Narrow(t, size) /\ NoRoom(t)
  <2>1. N <= N
    BY <1>2
  <2>2. N >= 1 /\ c.end - c.start < MinChunkSize => c.end - M[N].start > ChunkSize
    BY <1>10
  <2> HIDE DEF t, j, X, c, N, y
  <2> QED
    BY <1>1, <1>2, <1>3, <1>7, <1>8, <1>9, <2>1, <2>2, Extends DEF X, N
<1>12. ASSUME NEW i \in 1..(n + 1) PROVE HeldBy(C[i], t)
  <2>1. CASE i = n + 1
    <3>1. c.start <= c.start /\ c.end <= c.end
      BY <1>4
    <3>2. N + 1 \in 1..Len(t)
      BY <1>2, <1>7
    <3> HIDE DEF t
    <3> QED
      BY <1>7, <2>1, <3>1, <3>2 DEF HeldBy
  <2>2. CASE i # n + 1
    <3>1. i \in 1..n
      BY <1>3, <2>2
    <3>2. PICK k \in 1..N : M[k].start <= C[i].start /\ C[i].end <= M[k].end
      BY <1>1, <3>1 DEF HeldBy
    <3>3. k \in 1..Len(t) /\ t[k] = M[k]
      BY <1>2, <1>7
    <3> HIDE DEF t
    <3> QED
      BY <3>2, <3>3 DEF HeldBy
  <2> QED
    BY <2>1, <2>2
<1>13. t # <<>>
  BY <1>2, <1>7, EmptySeq
<1>14. t[Len(t)].end = C[n + 1].end /\ t[Len(t)].start <= C[n + 1].start
  BY <1>4, <1>7
<1> HIDE DEF t
<1>15. FoldInv(t, C, n + 1, U, text, size)
  BY <1>7, <1>11, <1>12, <1>13, <1>14 DEF FoldInv
<1> QED
  BY <1>15 DEF t

\* The loop over all of the chunks.
LEMMA FoldingIs ==
    ASSUME NEW size \in Nat, size >= ChunkSize,
           NEW U, NEW text \in Seq(U), NEW C \in Seq(ChunksOf(U, text)), C # <<>>,
           Sorted(C), Narrow(C, size)
    PROVE  \A n \in 1..Len(C) : FoldInv(Folding(C, text)[n], C, n, U, text, size)
<1> DEFINE w == Folding(C, text)
           N == Len(C)
           S == {k \in Nat : k + 1 <= N => FoldInv(w[k + 1], C, k + 1, U, text, size)}
<1>1. N \in Nat /\ N >= 1 /\ 1 \in 1..N /\ N \in 1..N
  BY Offsets
<1>2. w[0] = <<>> /\ \A n \in 1..N : w[n] = TakeChunk(w[n - 1], C[n], text)
  BY FoldingSteps
<1>3. 0 \in S
  <2> DEFINE c == C[1]
  <2>1. c \in ChunksOf(U, text) /\ c.start \in Nat /\ c.end \in Nat
    BY <1>1, Offsets
  <2>2. w[1] = <<c>>
    <3>1. w[1] = TakeChunk(<<>>, C[1], text)
      BY <1>1, <1>2
    <3>2. w[1] = Append(<<>>, c)
      BY <3>1, TakeChunkIs
    <3> QED
      BY <3>2
  <2>3. /\ <<c>> \in Seq(ChunksOf(U, text)) /\ <<c>> # <<>> /\ Len(<<c>>) = 1
        /\ <<c>>[1] = c
    BY <2>1
  <2>4. c.end - c.start <= size
    BY <1>1 DEF Narrow, N
  <2> DEFINE t == <<c>>
  <2>5. t \in Seq(ChunksOf(U, text)) /\ t # <<>> /\ Len(t) = 1 /\ t[1] = c
    BY <2>3
  <2> HIDE DEF t, c
  <2>6. Sorted(t) /\ Narrow(t, size) /\ NoRoom(t)
    <3>1. \A j, k \in 1..1 : ~(j < k)
      OBVIOUS
    <3>2. 2..1 = {}
      OBVIOUS
    <3>3. \A k \in 1..1 : k = 1
      OBVIOUS
    <3> QED
      BY <2>4, <2>5, <3>1, <3>2, <3>3 DEF Sorted, Narrow, NoRoom
  <2>7. \A j \in 1..1 : HeldBy(C[j], t)
    <3>1. c.start <= c.start /\ c.end <= c.end /\ 1 \in 1..1 /\ \A j \in 1..1 : j = 1
      BY <2>1
    <3>2. HeldBy(c, t)
      BY <2>5, <3>1 DEF HeldBy
    <3> QED
      BY <3>1, <3>2 DEF c
  <2>8. t[Len(t)].end = C[1].end /\ t[Len(t)].start <= C[1].start
    <3>1. c.start <= c.start
      BY <2>1
    <3> QED
      BY <2>5, <3>1 DEF c
  <2>9. FoldInv(t, C, 1, U, text, size)
    BY <2>5, <2>6, <2>7, <2>8 DEF FoldInv
  <2>10. 0 + 1 = 1
    OBVIOUS
  <2> QED
    BY <2>2, <2>9, <2>10 DEF t
<1>4. ASSUME NEW k \in Nat, k \in S PROVE k + 1 \in S
  <2> DEFINE n == k + 1
             M == w[n]
  <2> SUFFICES ASSUME n + 1 <= N PROVE FoldInv(w[n + 1], C, n + 1, U, text, size)
    OBVIOUS
  <2>1. n \in 1..N /\ n + 1 \in 1..N /\ (n + 1) - 1 = n
    BY <1>1
  <2>2. FoldInv(M, C, n, U, text, size)
    BY <1>1, <1>4, <2>1
  <2> HIDE DEF n
  <2>3. w[n + 1] = TakeChunk(M, C[n + 1], text)
    BY <1>2, <2>1
  <2>4. M # <<>>
    BY <2>2 DEF FoldInv
  <2> HIDE DEF M, w
  <2> DEFINE j == JoinSpans(text, Last(M), C[n + 1])
             Room == IsSmall(C[n + 1]) /\ Fits(j, ChunkSize)
  <2>5. CASE Room
    <3>1. w[n + 1] = Append(Front(M), j)
      BY <2>3, <2>4, <2>5, TakeChunkIs
    <3>2. FoldInv(Append(Front(M), j), C, n + 1, U, text, size)
      BY <2>1, <2>2, <2>5, JoinKeeps DEF N
    <3> QED
      BY <3>1, <3>2
  <2>6. CASE ~Room
    <3>1. w[n + 1] = Append(M, C[n + 1])
      BY <2>3, <2>4, <2>6, TakeChunkIs
    <3>2. FoldInv(Append(M, C[n + 1]), C, n + 1, U, text, size)
      BY <2>1, <2>2, <2>6, AddKeeps DEF N
    <3> QED
      BY <3>1, <3>2
  <2> QED
    BY <2>5, <2>6
<1>5. Nat \subseteq S
  <2> HIDE DEF S
  <2> QED
    BY <1>3, <1>4, NatInd
<1> HIDE DEF w
<1>6. ASSUME NEW n \in 1..N PROVE FoldInv(w[n], C, n, U, text, size)
  <2>1. n - 1 \in Nat /\ (n - 1) + 1 = n /\ n <= N
    BY <1>1
  <2>2. n - 1 \in S
    <3> HIDE DEF S
    <3> QED
      BY <1>5, <2>1
  <2> QED
    BY <2>1, <2>2
<1> QED
  BY <1>6 DEF w, N

\* The first two elements of a sequence become one.
LEMMA FirstTwo ==
    ASSUME NEW X, NEW M \in Seq(X), Len(M) > 1, NEW j \in X
    PROVE  LET t == <<j>> \o SubSeq(M, 3, Len(M))
           IN /\ t \in Seq(X) /\ Len(t) = Len(M) - 1 /\ t[1] = j
              /\ \A k \in 2..(Len(M) - 1) : t[k] = M[k + 1]
<1> DEFINE N == Len(M)
           r == SubSeq(M, 3, N)
           t == <<j>> \o r
<1>1. N \in Nat /\ N >= 2
  BY LenProperties
<1>2. r \in Seq(X) /\ Len(r) = N - 2 /\ \A k \in 1..(N - 2) : r[k] = M[k + 2]
  <2>1. \A k \in 3..N : M[k] \in X
    <3>1. \A k \in 3..N : k \in 1..N
      BY <1>1
    <3> QED
      BY <3>1, ElementOfSeq
  <2> HIDE DEF N
  <2>2. /\ r \in Seq(X) /\ Len(r) = IF 3 <= N THEN N - 3 + 1 ELSE 0
        /\ \A k \in 1..(N - 3 + 1) : r[k] = M[3 + k - 1]
    BY <1>1, <2>1, SubSeqProperties
  <2> HIDE DEF r
  <2> QED
    BY <1>1, <2>2
<1>3. /\ t \in Seq(X) /\ Len(t) = N - 1 /\ t[1] = j
      /\ \A k \in 2..(N - 1) : t[k] = M[k + 1]
  <2> DEFINE h == <<j>>
  <2>1. h \in Seq(X) /\ Len(h) = 1 /\ h[1] = j
    OBVIOUS
  <2> HIDE DEF h, r, N
  <2>2. /\ h \o r \in Seq(X) /\ Len(h \o r) = Len(h) + Len(r)
        /\ \A i \in 1..(Len(h) + Len(r)) :
             (h \o r)[i] = IF i <= Len(h) THEN h[i] ELSE r[i - Len(h)]
    BY <1>2, <2>1, ConcatProperties
  <2> DEFINE z == h \o r
  <2> HIDE DEF z
  <2>3. /\ z \in Seq(X) /\ Len(z) = N - 1
        /\ \A i \in 1..(N - 1) : z[i] = IF i <= 1 THEN h[i] ELSE r[i - 1]
    BY <1>1, <1>2, <2>1, <2>2 DEF z
  <2>4. z[1] = j
    BY <1>1, <2>1, <2>3
  <2>5. ASSUME NEW k \in 2..(N - 1) PROVE z[k] = M[k + 1]
    <3>1. k \in 1..(N - 1) /\ ~(k <= 1) /\ k - 1 \in 1..(N - 2) /\ (k - 1) + 2 = k + 1
      BY <1>1
    <3> QED
      BY <1>2, <2>3, <3>1
  <2> QED
    BY <2>3, <2>4, <2>5 DEF z, h
<1> QED
  BY <1>3

\* The first chunk joins the second, if it is small and has room.
LEMMA FirstJoined ==
    ASSUME NEW size \in Nat, size >= ChunkSize,
           NEW U, NEW text \in Seq(U), NEW M \in Seq(ChunksOf(U, text)), Sorted(M),
           Narrow(M, size), NoRoom(M), Len(M) > 1,
           Fits(JoinSpans(text, M[1], M[2]), ChunkSize)
    PROVE  LET t == <<JoinSpans(text, M[1], M[2])>> \o SubSeq(M, 3, Len(M))
           IN /\ t \in Seq(ChunksOf(U, text)) /\ Sorted(t) /\ Narrow(t, size) /\ NoRoom(t)
              /\ \A k \in 1..Len(M) : HeldBy(M[k], t)
              /\ ~IsSmall(t[1])
<1> DEFINE X == ChunksOf(U, text)
           N == Len(M)
           c == M[1]
           d == M[2]
           j == JoinSpans(text, c, d)
           t == <<j>> \o SubSeq(M, 3, N)
<1>1. N \in Nat /\ N >= 2 /\ 1 \in 1..N /\ 2 \in 1..N
  BY Offsets
<1>2. /\ c \in X /\ d \in X /\ c.start \in Nat /\ c.end \in Nat
      /\ d.start \in Nat /\ d.end \in Nat /\ d.start < d.end
  BY <1>1, Offsets
<1>3. c.start < d.start /\ c.end < d.end
  BY <1>1 DEF Sorted
<1>4. j \in X /\ j.start = c.start /\ j.end = d.end
  BY <1>2, <1>3, JoinIs
<1>5. j.end - j.start <= ChunkSize
  <2>1. Fits(j, ChunkSize)
    OBVIOUS
  <2> HIDE DEF j
  <2> QED
    BY <1>4, <2>1, ChunkLength
<1>6. /\ t \in Seq(X) /\ Len(t) = N - 1 /\ t[1] = j
      /\ \A k \in 2..(N - 1) : t[k] = M[k + 1]
  <2>1. M \in Seq(X) /\ Len(M) > 1 /\ j \in X
    BY <1>4
  <2> HIDE DEF j, X
  <2> QED
    BY <2>1, FirstTwo DEF N
<1>8. ASSUME NEW k \in 2..(N - 1)
      PROVE  /\ k + 1 \in 1..N /\ M[k + 1].start \in Nat /\ M[k + 1].end \in Nat
             /\ d.start < M[k + 1].start /\ d.end < M[k + 1].end
  <2>1. k + 1 \in 1..N /\ 2 < k + 1
    BY <1>1
  <2> QED
    BY <1>1, <2>1, Offsets DEF Sorted
<1>9. \A k \in 1..(N - 1) : k = 1 \/ k \in 2..(N - 1)
  OBVIOUS
<1> HIDE DEF t, j
<1>10. Sorted(t)
  <2>1. ASSUME NEW i \in 1..(N - 1), NEW k \in 1..(N - 1), i < k
        PROVE  t[i].start < t[k].start /\ t[i].end < t[k].end
    <3>1. k \in 2..(N - 1) /\ t[k] = M[k + 1]
      <4>1. k \in 2..(N - 1)
        BY <1>1, <2>1
      <4> QED
        BY <1>6, <4>1
    <3>2. CASE i = 1
      <4> DEFINE a == c.start
                 b == d.start
                 e == d.end
                 p == M[k + 1].start
                 q == M[k + 1].end
      <4>1. /\ a \in Nat /\ b \in Nat /\ e \in Nat /\ p \in Nat /\ q \in Nat
            /\ a < b /\ b < p /\ e < q /\ j.start = a /\ j.end = e
        BY <1>2, <1>3, <1>4, <1>8, <3>1
      <4> HIDE DEF a, b, e, p, q
      <4>2. a < p
        BY <4>1
      <4> QED
        BY <1>6, <3>1, <3>2, <4>1, <4>2 DEF p, q
    <3>3. CASE i # 1
      <4>1. i \in 2..(N - 1) /\ t[i] = M[i + 1]
        <5>1. i \in 2..(N - 1)
          BY <1>1, <2>1, <3>3
        <5> QED
          BY <1>6, <5>1
      <4>2. i + 1 \in 1..N /\ k + 1 \in 1..N /\ i + 1 < k + 1
        BY <1>8, <2>1, <3>1, <4>1
      <4> QED
        BY <3>1, <4>1, <4>2 DEF Sorted
    <3> QED
      BY <3>2, <3>3
  <2> QED
    BY <1>6, <2>1 DEF Sorted
<1>11. Narrow(t, size)
  <2>0. j.end - j.start <= size
    <3> DEFINE a == c.start
               b == d.end
    <3>1. a \in Nat /\ b \in Nat /\ j.start = a /\ j.end = b
      BY <1>2, <1>4
    <3> HIDE DEF a, b, j
    <3> QED
      BY <1>5, <3>1, SizesAreNatural
  <2>1. ASSUME NEW k \in 1..(N - 1) PROVE t[k].end - t[k].start <= size
    <3>1. CASE k = 1
      BY <1>6, <2>0, <3>1
    <3>2. CASE k \in 2..(N - 1)
      BY <1>6, <1>8, <3>2 DEF Narrow
    <3> QED
      BY <1>9, <3>1, <3>2
  <2> QED
    BY <1>6, <2>1 DEF Narrow
<1>12. NoRoom(t)
  <2>1. ASSUME NEW k \in 2..(N - 1), t[k].end - t[k].start < MinChunkSize
        PROVE  t[k].end - t[k - 1].start > ChunkSize
    <3>1. t[k] = M[k + 1] /\ k + 1 \in 2..N /\ (k + 1) - 1 = k /\ k \in 1..N
      BY <1>1, <1>6
    <3>2. M[k + 1].end - M[k].start > ChunkSize
      BY <2>1, <3>1 DEF NoRoom
    <3>3. CASE k = 2
      <4> DEFINE a == c.start
                 b == d.start
                 q == M[k + 1].end
      <4>1. a \in Nat /\ b \in Nat /\ q \in Nat /\ a < b /\ q - b > ChunkSize
        BY <1>2, <1>3, <1>8, <3>2, <3>3
      <4>2. t[k].end = q /\ t[k - 1].start = a
        <5>1. k - 1 = 1
          BY <3>3
        <5> QED
          BY <1>4, <1>6, <3>1, <5>1
      <4> HIDE DEF a, b, q
      <4>3. q - a > ChunkSize
        BY <4>1, SizesAreNatural
      <4> QED
        BY <4>2, <4>3
    <3>4. CASE k # 2
      <4>1. k - 1 \in 2..(N - 1) /\ (k - 1) + 1 = k
        BY <3>4
      <4>2. t[k - 1] = M[k]
        BY <1>6, <4>1
      <4> QED
        BY <3>1, <3>2, <4>2
    <3> QED
      BY <3>3, <3>4
  <2> QED
    BY <1>6, <2>1 DEF NoRoom
<1>13. ASSUME NEW k \in 1..N PROVE HeldBy(M[k], t)
  <2>1. 1 \in 1..Len(t)
    BY <1>1, <1>6
  <2>2. CASE k = 1 \/ k = 2
    <3>1. t[1].start <= c.start /\ t[1].start <= d.start /\ c.end <= t[1].end /\ d.end <= t[1].end
      BY <1>2, <1>3, <1>4, <1>6
    <3>2. HeldBy(c, t) /\ HeldBy(d, t)
      BY <2>1, <3>1 DEF HeldBy
    <3> QED
      BY <2>2, <3>2
  <2>3. CASE ~(k = 1 \/ k = 2)
    <3>1. k - 1 \in 2..(N - 1) /\ (k - 1) + 1 = k /\ k - 1 \in 1..Len(t)
      BY <1>6, <2>3
    <3>2. t[k - 1] = M[k]
      BY <1>6, <3>1
    <3>3. M[k].start <= M[k].start /\ M[k].end <= M[k].end
      <4>1. M[k].start \in Nat /\ M[k].end \in Nat
        BY Offsets
      <4> QED
        BY <4>1
    <3> QED
      BY <3>1, <3>2, <3>3 DEF HeldBy
  <2> QED
    BY <2>2, <2>3
<1>14. ~IsSmall(t[1])
  <2> SUFFICES ASSUME IsSmall(j) PROVE FALSE
    BY <1>6
  <2>1. j.end - j.start < MinChunkSize /\ j.end - j.start <= ChunkSize
    BY <1>4, <1>5, ChunkLength
  <2>2. d.end - d.start < MinChunkSize => d.end - c.start > ChunkSize
    <3>1. 2 \in 2..N /\ 2 - 1 = 1
      BY <1>1
    <3> QED
      BY <3>1 DEF NoRoom
  <2> DEFINE a == c.start
             b == d.start
             e == d.end
  <2>3. /\ a \in Nat /\ b \in Nat /\ e \in Nat /\ a < b /\ e - a < MinChunkSize
        /\ e - a <= ChunkSize /\ (e - b < MinChunkSize => e - a > ChunkSize)
    BY <1>2, <1>3, <1>4, <2>1, <2>2
  <2> HIDE DEF a, b, e
  <2> QED
    BY <2>3, SizesAreNatural
<1> HIDE DEF N
<1> QED
  BY <1>6, <1>10, <1>11, <1>12, <1>13, <1>14 DEF t, j, N

\* What is left of the chunks when small ones joined a neighbour.
LEMMA UndersizedMerged ==
    ASSUME NEW size \in Nat, size >= ChunkSize,
           NEW U, NEW text \in Seq(U), NEW C \in Seq(ChunksOf(U, text)),
           Sorted(C), Narrow(C, size)
    PROVE  LET D == MergeUndersized(C, text, ChunkSize)
           IN /\ D \in Seq(ChunksOf(U, text)) /\ Sorted(D) /\ Narrow(D, size) /\ NoRoom(D)
              /\ \A k \in 1..Len(C) : HeldBy(C[k], D)
              /\ Len(D) > 1 /\ IsSmall(D[1]) => D[2].end - D[1].start > ChunkSize
<1> DEFINE M == Folding(C, text)[Len(C)]
           D == MergeUndersized(C, text, ChunkSize)
           X == ChunksOf(U, text)
           j == JoinSpans(text, M[1], M[2])
           t == <<j>> \o SubSeq(M, 3, Len(M))
<1>1. /\ M \in Seq(X) /\ Sorted(M) /\ Narrow(M, size) /\ NoRoom(M)
      /\ \A k \in 1..Len(C) : HeldBy(C[k], M)
  <2>1. CASE C # <<>>
    <3>1. Len(C) \in 1..Len(C)
      BY <2>1, Offsets
    <3>2. FoldInv(M, C, Len(C), U, text, size)
      BY <2>1, <3>1, FoldingIs
    <3> HIDE DEF M
    <3> QED
      BY <3>2 DEF FoldInv
  <2>2. CASE C = <<>>
    <3>1. Len(C) = 0 /\ 1..Len(C) = {}
      BY <2>2
    <3>2. M = <<>>
      BY <3>1, FoldingSteps
    <3> HIDE DEF M, X
    <3> QED
      BY <3>1, <3>2, NoneIsSorted
  <2> QED
    BY <2>1, <2>2
<1>2. D = FirstMerged(M, text)
  BY MergeUndersizedIs
<1> HIDE DEF M, D
<1>3. CASE Len(M) > 1 /\ IsSmall(M[1]) /\ Fits(j, ChunkSize)
  <2>1. D = t
    BY <1>2, <1>3, FirstMergedIs
  <2>2. /\ t \in Seq(X) /\ Sorted(t) /\ Narrow(t, size) /\ NoRoom(t) /\ ~IsSmall(t[1])
        /\ \A k \in 1..Len(M) : HeldBy(M[k], t)
    BY <1>1, <1>3, FirstJoined
  <2>3. ASSUME NEW k \in 1..Len(C) PROVE HeldBy(C[k], t)
    <3>1. PICK l \in 1..Len(M) : M[l].start <= C[k].start /\ C[k].end <= M[l].end
      BY <1>1 DEF HeldBy
    <3> HIDE DEF t, X
    <3>2. PICK i \in 1..Len(t) : t[i].start <= M[l].start /\ M[l].end <= t[i].end
      BY <2>2 DEF HeldBy
    <3> DEFINE a == t[i].start
               b == M[l].start
               c == C[k].start
               p == t[i].end
               q == M[l].end
               r == C[k].end
    <3>3. /\ a \in Nat /\ b \in Nat /\ c \in Nat /\ p \in Nat /\ q \in Nat /\ r \in Nat
          /\ a <= b /\ b <= c /\ q <= p /\ r <= q
      <4>1. a \in Nat /\ p \in Nat
        BY <2>2, Offsets DEF X
      <4>2. b \in Nat /\ q \in Nat
        BY <1>1, Offsets DEF X
      <4>3. c \in Nat /\ r \in Nat
        BY Offsets
      <4> QED
        BY <3>1, <3>2, <4>1, <4>2, <4>3
    <3> HIDE DEF a, b, c, p, q, r
    <3>4. a <= c /\ r <= p
      BY <3>3
    <3> QED
      BY <3>4 DEF HeldBy, a, c, p, r
  <2> HIDE DEF t
  <2> QED
    BY <2>1, <2>2, <2>3 DEF D
<1>4. CASE ~(Len(M) > 1 /\ IsSmall(M[1]) /\ Fits(j, ChunkSize))
  <2>1. D = M
    BY <1>2, <1>4, FirstMergedIs
  <2>2. Len(M) > 1 /\ IsSmall(M[1]) => M[2].end - M[1].start > ChunkSize
    <3> SUFFICES ASSUME Len(M) > 1, IsSmall(M[1]) PROVE M[2].end - M[1].start > ChunkSize
      OBVIOUS
    <3>1. 1 \in 1..Len(M) /\ 2 \in 1..Len(M) /\ 1 < 2
      BY <1>1, LenProperties
    <3>2. /\ M[1] \in X /\ M[2] \in X /\ M[1].start \in Nat /\ M[2].end \in Nat
          /\ M[1].start < M[2].start /\ M[1].end < M[2].end
      BY <1>1, <3>1, Offsets DEF Sorted
    <3>3. j \in X /\ j.start = M[1].start /\ j.end = M[2].end
      BY <3>2, JoinIs
    <3>4. ~Fits(j, ChunkSize)
      BY <1>4
    <3> DEFINE a == M[1].start
               b == M[2].end
    <3>5. a \in Nat /\ b \in Nat /\ ~(b - a <= ChunkSize)
      <4> HIDE DEF j
      <4>1. ~(j.end - j.start <= ChunkSize)
        BY <3>3, <3>4, ChunkLength
      <4> QED
        BY <3>2, <3>3, <4>1
    <3> HIDE DEF a, b
    <3>6. b - a > ChunkSize
      BY <3>5, SizesAreNatural
    <3> QED
      BY <3>6 DEF a, b
  <2> QED
    BY <1>1, <2>1, <2>2 DEF D
<1> QED
  BY <1>3, <1>4

-----------------------------------------------------------------------------
(***************************************************************************)
(* The default chunker: the chunks of the merged spans.                    *)
(***************************************************************************)

\* A span of a text is blank if all of its units are.
LEMMA BlankSpan ==
    ASSUME NEW U, NEW text \in Seq(U), NEW x \in Spans, x[2] <= Len(text)
    PROVE  /\ ~IsBlank(Slice(text, x[1], x[2])) => x[1] < x[2]
           /\ \A i \in 1..Len(text) : In(i, x) /\ text[i] \notin Blanks
                                        => ~IsBlank(Slice(text, x[1], x[2]))
<1> DEFINE s == x[1]
           e == x[2]
           p == Slice(text, s, e)
<1>1. Len(text) \in Nat /\ s \in Nat /\ e \in Nat /\ s <= e /\ e <= Len(text)
  BY LenProperties DEF Spans
<1>2. s \in 0..Len(text) /\ e \in s..Len(text)
  BY <1>1
<1> HIDE DEF s, e
<1>3. /\ p \in Seq(U) /\ Len(p) = e - s
      /\ \A i \in 1..(e - s) : p[i] = text[s + i]
  BY <1>2, SliceProperties
<1> HIDE DEF p
<1>4. DOMAIN p = 1..(e - s)
  BY <1>3, LenProperties
<1>5. ~IsBlank(p) => s < e
  <2> SUFFICES ASSUME ~(s < e) PROVE DOMAIN p = {}
    BY DEF IsBlank
  <2> QED
    BY <1>1, <1>4
<1>6. ASSUME NEW i \in 1..Len(text), s < i, i <= e, text[i] \notin Blanks
      PROVE  ~IsBlank(p)
  <2> DEFINE k == i - s
  <2>1. k \in 1..(e - s) /\ s + k = i
    BY <1>1, <1>6
  <2> HIDE DEF k
  <2>2. k \in DOMAIN p /\ p[k] = text[i]
    BY <1>3, <1>4, <2>1
  <2> QED
    BY <1>6, <2>2 DEF IsBlank
<1> QED
  BY <1>5, <1>6 DEF In, p, s, e

\* Spans in order become chunks in order, and a unit that is not blank stays.
LEMMA SpansToChunksIs ==
    ASSUME NEW U, NEW text \in Seq(U), NEW spans \in Seq(Spans), Chain(spans, Later),
           \A x \in ToSet(spans) : Width(x) <= ChunkSize /\ x[2] <= Len(text)
    PROVE  LET R == SpansToChunks(spans, text)
           IN /\ R \in Seq(ChunksOf(U, text)) /\ Sorted(R) /\ Narrow(R, ChunkSize)
              /\ \A i \in 1..Len(text) :
                    text[i] \notin Blanks /\ InSome(i, spans)
                      => \E k \in 1..Len(R) : R[k].start < i /\ i <= R[k].end
<1> DEFINE X == ChunksOf(U, text)
           Kept(k) == ~IsBlank(Slice(text, spans[k][1], spans[k][2]))
           S == {k \in DOMAIN spans : Kept(k)}
           o == InOrder(S)
           R == SpansToChunks(spans, text)
<1>1. /\ Len(spans) \in Nat /\ DOMAIN spans = 1..Len(spans)
      /\ ToSet(spans) = {spans[k] : k \in 1..Len(spans)}
  BY LenProperties, ToSetIs
<1>2. ASSUME NEW k \in 1..Len(spans)
      PROVE  /\ spans[k] \in Spans /\ spans[k][1] \in Nat /\ spans[k][2] \in Nat
             /\ spans[k][2] - spans[k][1] <= ChunkSize /\ spans[k][2] <= Len(text)
  <2>1. spans[k] \in Spans
    BY ElementOfSeq
  <2>2. spans[k] \in ToSet(spans)
    BY <1>1
  <2>3. Width(spans[k]) <= ChunkSize /\ spans[k][2] <= Len(text)
    BY <2>2
  <2> QED
    BY <2>1, <2>3 DEF Width, Spans
<1>3. S \in SUBSET Nat /\ IsFiniteSet(S)
  <2>1. S \subseteq 1..Len(spans)
    BY <1>1
  <2>2. IsFiniteSet(1..Len(spans))
    BY <1>1, FS_Interval
  <2>3. 1..Len(spans) \subseteq Nat
    BY <1>1
  <2> DEFINE T == 1..Len(spans)
  <2> HIDE DEF S, T
  <2>4. IsFiniteSet(S)
    BY <2>1, <2>2, FS_Subset DEF T
  <2>5. S \subseteq Nat
    BY <2>1, <2>3 DEF T
  <2> QED
    BY <2>4, <2>5
<1>4. /\ o \in Seq(S) /\ Len(o) \in Nat /\ DOMAIN o = 1..Len(o)
      /\ \A k \in S : \E m \in 1..Len(o) : o[m] = k
      /\ \A m, n \in 1..Len(o) : m < n => o[m] < o[n]
  <2> HIDE DEF S
  <2> QED
    BY <1>3, InOrderProperties, LenProperties
<1>5. \A m \in 1..Len(o) : o[m] \in S
  <2> HIDE DEF S, o
  <2> QED
    BY <1>4, ElementOfSeq
<1>6. R = [k \in 1..Len(o) |-> Chunk(text, spans[o[k]][1], spans[o[k]][2], <<>>)]
  <2>1. R = [k \in DOMAIN o |-> Chunk(text, spans[o[k]][1], spans[o[k]][2], <<>>)]
    BY DEF SpansToChunks, Where
  <2> QED
    BY <1>4, <2>1
<1>7. Len(R) = Len(o) /\ DOMAIN R = 1..Len(o)
  <2> HIDE DEF o
  <2> QED
    BY <1>4, <1>6
<1> HIDE DEF R, o
<1>8. ASSUME NEW m \in 1..Len(o)
      PROVE  /\ o[m] \in 1..Len(spans) /\ R[m] \in X
             /\ R[m].start = spans[o[m]][1] /\ R[m].end = spans[o[m]][2]
  <2> DEFINE k == o[m]
             s == spans[k][1]
             e == spans[k][2]
  <2>1. k \in 1..Len(spans) /\ Kept(k)
    BY <1>1, <1>5
  <2> HIDE DEF k
  <2>2. spans[k] \in Spans /\ s \in Nat /\ e \in Nat /\ e <= Len(text)
    BY <1>2, <2>1
  <2>3. s < e
    BY <2>1, <2>2, BlankSpan
  <2> DEFINE headers == <<>>
  <2>4. R[m] = Chunk(text, s, e, headers)
    BY <1>6 DEF k
  <2>5. headers \in Seq(Nat)
    BY EmptySeq
  <2> HIDE DEF s, e, headers
  <2> DEFINE c == Chunk(text, s, e, headers)
  <2>6. c \in ChunksOf(U, text) /\ c.start = s /\ c.end = e
    <3>1. s \in Nat /\ e \in Nat /\ s < e /\ e <= Len(text) /\ headers \in Seq(Nat)
      BY <2>2, <2>3, <2>5
    <3> HIDE DEF c
    <3>2. c = Chunk(text, s, e, headers)
      BY DEF c
    <3> QED
      BY <3>1, <3>2, ChunkIs
  <2> HIDE DEF c
  <2>7. R[m] \in X /\ R[m].start = s /\ R[m].end = e
    BY <2>4, <2>6 DEF c
  <2> QED
    BY <2>1, <2>7 DEF k, s, e
<1>9. R \in Seq(X)
  <2> HIDE DEF X
  <2>1. R \in [1..Len(o) -> X]
    BY <1>6, <1>8
  <2> QED
    BY <1>4, <2>1, SeqDef
<1>10. Sorted(R)
  <2>1. ASSUME NEW m \in 1..Len(o), NEW n \in 1..Len(o), m < n
        PROVE  R[m].start < R[n].start /\ R[m].end < R[n].end
    <3>1. o[m] \in 1..Len(spans) /\ o[n] \in 1..Len(spans) /\ o[m] < o[n]
      BY <1>4, <1>8, <2>1
    <3>2. <<spans[o[m]], spans[o[n]]>> \in Later
      BY <3>1 DEF Chain
    <3>3. spans[o[m]][1] < spans[o[n]][1] /\ spans[o[m]][2] < spans[o[n]][2]
      BY <1>2, <3>1, <3>2, LaterIs
    <3> QED
      BY <1>8, <3>3
  <2> QED
    BY <1>7, <2>1 DEF Sorted
<1>11. Narrow(R, ChunkSize)
  <2>1. ASSUME NEW m \in 1..Len(o) PROVE R[m].end - R[m].start <= ChunkSize
    BY <1>2, <1>8
  <2> QED
    BY <1>7, <2>1 DEF Narrow
<1>12. ASSUME NEW i \in 1..Len(text), text[i] \notin Blanks, InSome(i, spans)
       PROVE  \E k \in 1..Len(R) : R[k].start < i /\ i <= R[k].end
  <2>1. PICK k \in 1..Len(spans) : In(i, spans[k])
    BY <1>1, <1>12 DEF InSome
  <2>2. Kept(k)
    BY <1>2, <1>12, <2>1, BlankSpan
  <2>3. k \in S
    BY <1>1, <2>2
  <2>4. PICK m \in 1..Len(o) : o[m] = k
    BY <1>4, <2>3
  <2>5. R[m].start < i /\ i <= R[m].end
    BY <1>8, <2>1, <2>4 DEF In
  <2> QED
    BY <1>7, <2>5
<1> QED
  BY <1>9, <1>10, <1>11, <1>12 DEF R

-----------------------------------------------------------------------------
(***************************************************************************)
(* The default chunker: what RecursiveChunk returns.                       *)
(***************************************************************************)

\* The spans that the leaves of a text are merged into.
LEMMA MergedLeaves ==
    ASSUME NEW U, NEW text \in Seq(U)
    PROVE  LET spans == MergeLeaves(SplitWithOffsets(text))
           IN /\ spans \in Seq(Spans) /\ Chain(spans, Later)
              /\ \A x \in ToSet(spans) : Width(x) <= ChunkSize /\ x[2] <= Len(text)
              /\ \A i \in 1..Len(text) : ~InSeparator(text, i) => InSome(i, spans)
<1> DEFINE L == SplitWithOffsets(text)
           whole == <<0, Len(text)>>
           spans == MergeLeaves(L)
<1>1. Len(text) \in Nat /\ DOMAIN text = 1..Len(text)
  BY LenProperties
<1>2. whole \in Spans /\ whole[1] = 0 /\ whole[2] = Len(text)
  BY <1>1 DEF Spans
<1>3. /\ Pieces(L, whole, text, After) /\ L # <<>>
      /\ \A x \in ToSet(L) : Width(x) <= ChunkSize
  BY LeavesFit
<1> HIDE DEF whole, L
<1>4. /\ L \in Seq(Spans) /\ Len(L) \in Nat
      /\ \A k \in 1..Len(L) : L[k] \in Spans /\ L[k][2] <= Len(text)
      /\ ToSet(L) = {L[k] : k \in 1..Len(L)}
  BY <1>2, <1>3, PieceIs
<1>5. /\ Chain(L, After)
      /\ \A i \in 1..Len(text) : ~InSeparator(text, i) => InSome(i, L)
  <2>1. \A i \in (whole[1] + 1)..whole[2] : InSeparator(text, i) \/ InSome(i, L)
    BY <1>3 DEF Pieces
  <2>2. (whole[1] + 1)..whole[2] = 1..Len(text)
    BY <1>1, <1>2
  <2>3. Chain(L, After)
    BY <1>3 DEF Pieces
  <2> QED
    BY <2>1, <2>2, <2>3
<1>6. Leaves(L)
  <2>1. \A k \in 1..Len(L) : Width(L[k]) <= ChunkSize
    BY <1>3, <1>4
  <2> QED
    BY <1>3, <1>4, <1>5, <2>1 DEF Leaves
<1>7. Len(L) \in 1..Len(L) /\ L[Len(L)][2] \in Nat /\ L[Len(L)][2] <= Len(text)
  <2>1. Len(L) \in 1..Len(L)
    BY <1>6, LeavesInOrder
  <2> QED
    BY <1>4, <1>6, <2>1, LeavesInOrder
<1>8. /\ spans \in Seq(Spans) /\ Chain(spans, Later)
      /\ \A x \in ToSet(spans) : Width(x) <= ChunkSize /\ x[2] <= L[Len(L)][2]
      /\ \A k \in 1..Len(L) : \E x \in ToSet(spans) : x[1] <= L[k][1] /\ L[k][2] <= x[2]
  BY <1>6, MergedIs
<1> HIDE DEF spans
<1>9. ASSUME NEW x \in ToSet(spans) PROVE x \in Spans /\ x[1] \in Nat /\ x[2] \in Nat
  <2>1. x \in Spans
    BY <1>8, ToSetIs
  <2> QED
    BY <2>1 DEF Spans
<1>10. ASSUME NEW x \in ToSet(spans) PROVE Width(x) <= ChunkSize /\ x[2] <= Len(text)
  <2> DEFINE a == x[2]
             b == L[Len(L)][2]
  <2>1. a \in Nat /\ b \in Nat /\ a <= b /\ b <= Len(text)
    BY <1>7, <1>8, <1>9
  <2> HIDE DEF a, b
  <2>2. a <= Len(text)
    BY <1>1, <2>1
  <2> QED
    BY <1>8, <2>2 DEF a
<1>11. ASSUME NEW i \in 1..Len(text), ~InSeparator(text, i) PROVE InSome(i, spans)
  <2>1. PICK k \in 1..Len(L) : In(i, L[k])
    BY <1>4, <1>5, <1>11 DEF InSome
  <2>2. PICK x \in ToSet(spans) : x[1] <= L[k][1] /\ L[k][2] <= x[2]
    BY <1>8
  <2> DEFINE a == x[1]
             b == L[k][1]
             c == L[k][2]
             d == x[2]
  <2>3. /\ a \in Nat /\ b \in Nat /\ c \in Nat /\ d \in Nat /\ i \in Nat
        /\ a <= b /\ b < i /\ i <= c /\ c <= d
    BY <1>4, <1>6, <1>9, <2>1, <2>2, LeavesInOrder DEF In
  <2> HIDE DEF a, b, c, d
  <2>4. a < i /\ i <= d
    BY <2>3
  <2>5. In(i, x)
    BY <2>4 DEF In, a, d
  <2> QED
    BY <2>5 DEF InSome
<1> QED
  BY <1>8, <1>10, <1>11 DEF spans, L

\* What the default chunker returns for a text that is not blank.
LEMMA RecursiveChunkIs ==
    ASSUME NEW U, NEW text \in Seq(U), ~IsBlank(text)
    PROVE  LET D == RecursiveChunk(text)
           IN /\ D \in Seq(ChunksOf(U, text)) /\ Sorted(D) /\ Narrow(D, ChunkSize) /\ NoRoom(D)
              /\ Len(D) > 1 /\ IsSmall(D[1]) => D[2].end - D[1].start > ChunkSize
              /\ \A i \in 1..Len(text) :
                    ~InSeparator(text, i)
                      => \E k \in 1..Len(D) : D[k].start < i /\ i <= D[k].end
<1> DEFINE spans == MergeLeaves(SplitWithOffsets(text))
           C == SpansToChunks(spans, text)
           D == MergeUndersized(C, text, ChunkSize)
<1>1. RecursiveChunk(text) = D
  BY DEF RecursiveChunk
<1>2. /\ spans \in Seq(Spans) /\ Chain(spans, Later)
      /\ \A x \in ToSet(spans) : Width(x) <= ChunkSize /\ x[2] <= Len(text)
      /\ \A i \in 1..Len(text) : ~InSeparator(text, i) => InSome(i, spans)
  BY MergedLeaves
<1> HIDE DEF spans
<1>3. /\ C \in Seq(ChunksOf(U, text)) /\ Sorted(C) /\ Narrow(C, ChunkSize)
      /\ \A i \in 1..Len(text) :
            text[i] \notin Blanks /\ InSome(i, spans)
              => \E k \in 1..Len(C) : C[k].start < i /\ i <= C[k].end
  BY <1>2, SpansToChunksIs
<1> HIDE DEF C
<1>4. \A i \in 1..Len(text) :
        ~InSeparator(text, i) => \E k \in 1..Len(C) : C[k].start < i /\ i <= C[k].end
  BY <1>2, <1>3 DEF InSeparator
<1>5. /\ D \in Seq(ChunksOf(U, text)) /\ Sorted(D) /\ Narrow(D, ChunkSize) /\ NoRoom(D)
      /\ \A k \in 1..Len(C) : HeldBy(C[k], D)
      /\ Len(D) > 1 /\ IsSmall(D[1]) => D[2].end - D[1].start > ChunkSize
  BY <1>3, UndersizedMerged, SizesAreNatural
<1> HIDE DEF D
<1>6. ASSUME NEW i \in 1..Len(text), ~InSeparator(text, i)
      PROVE  \E k \in 1..Len(D) : D[k].start < i /\ i <= D[k].end
  <2>1. PICK l \in 1..Len(C) : C[l].start < i /\ i <= C[l].end
    BY <1>4, <1>6
  <2>2. PICK k \in 1..Len(D) : D[k].start <= C[l].start /\ C[l].end <= D[k].end
    BY <1>5 DEF HeldBy
  <2> DEFINE a == D[k].start
             b == C[l].start
             c == C[l].end
             d == D[k].end
  <2>3. a \in Nat /\ d \in Nat
    BY <1>5, Offsets
  <2>4. b \in Nat /\ c \in Nat
    BY <1>3, Offsets
  <2>5. i \in Nat /\ a <= b /\ b < i /\ i <= c /\ c <= d
    BY <2>1, <2>2, LenProperties
  <2> HIDE DEF a, b, c, d
  <2>6. a < i /\ i <= d
    BY <2>3, <2>4, <2>5
  <2> QED
    BY <2>6 DEF a, d
<1> QED
  BY <1>1, <1>5, <1>6 DEF D

-----------------------------------------------------------------------------
(***************************************************************************)
(* The chunker of structured text: its sections.                           *)
(***************************************************************************)

\* Headings are lines of the text, in order.
LEMMA HeadingsAre ==
    ASSUME NEW U, NEW text \in Seq(U)
    PROVE  LET H == Headings(text)
           IN /\ Len(H) \in Nat /\ DOMAIN H = 1..Len(H)
              /\ \A k \in 1..Len(H) : H[k] \in 1..Len(text) /\ text[H[k]] = "head"
              /\ \A k, l \in 1..Len(H) : k < l => H[k] < H[l]
<1> DEFINE Open(i) == Cardinality({j \in 1..(i - 1) : text[j] = "fence"}) % 2 = 1
           S == {i \in DOMAIN text : text[i] = "head" /\ ~Open(i)}
           H == InOrder(S)
<1>1. Headings(text) = H
  BY DEF Headings, Where
<1>2. Len(text) \in Nat /\ DOMAIN text = 1..Len(text)
  BY LenProperties
<1> HIDE DEF Open
<1>3. S \in SUBSET Nat /\ IsFiniteSet(S)
  <2>1. S \subseteq 1..Len(text) /\ 1..Len(text) \subseteq Nat
    BY <1>2
  <2>2. IsFiniteSet(1..Len(text))
    BY <1>2, FS_Interval
  <2> HIDE DEF S
  <2> QED
    BY <2>1, <2>2, FS_Subset
<1>4. \A i \in S : i \in 1..Len(text) /\ text[i] = "head"
  BY <1>2
<1>5. /\ H \in Seq(S) /\ Len(H) \in Nat
      /\ \A k, l \in 1..Len(H) : k < l => H[k] < H[l]
  <2> HIDE DEF S
  <2> QED
    BY <1>3, InOrderProperties
<1> HIDE DEF S
<1>6. \A k \in 1..Len(H) : H[k] \in S
  <2> HIDE DEF H
  <2> QED
    BY <1>5, ElementOfSeq
<1>7. DOMAIN H = 1..Len(H)
  <2> HIDE DEF H
  <2> QED
    BY <1>5, LenProperties
<1> QED
  BY <1>1, <1>4, <1>5, <1>6, <1>7

Section == [start : Nat, end : Nat, headers : Seq(Nat)]

\* What the sections of a text are: one after the other they make up the text,
\* none is empty, and each heading is listed by the section it begins.
SectionsOf(S, text) ==
    /\ S \in Seq(Section) /\ Len(S) >= 1
    /\ \A k \in 1..Len(S) : S[k].start < S[k].end /\ S[k].end <= Len(text)
    /\ S[1].start = 0 /\ S[Len(S)].end = Len(text)
    /\ \A k \in 2..Len(S) : S[k - 1].end = S[k].start
    /\ \A j, k \in 1..Len(S) : j < k => S[j].end <= S[k].start
    /\ \A h \in Range(Headings(text)) :
          \E k \in 1..Len(S) : S[k].start = h - 1 /\ (h - 1) \in Range(S[k].headers)

\* Where sections begin: at 0, and at each heading.
LEMMA SectionsBegin ==
    ASSUME NEW U, NEW text \in Seq(U), Len(text) > 0
    PROVE  LET H == Headings(text)
               heads == [k \in DOMAIN H |-> H[k] - 1]
               preamble == heads = <<>> \/ heads[1] > 0
               from == IF preamble THEN <<0>> \o heads ELSE heads
               p == IF preamble THEN 1 ELSE 0
           IN /\ Len(from) \in Nat /\ Len(from) >= 1 /\ DOMAIN from = 1..Len(from)
              /\ from[1] = 0
              /\ \A k \in 1..Len(from) : from[k] \in Nat /\ from[k] < Len(text)
              /\ \A j, k \in 1..Len(from) : j < k => from[j] < from[k]
              /\ \A k \in 1..Len(H) : k + p \in 1..Len(from) /\ from[k + p] = H[k] - 1
<1> DEFINE H == Headings(text)
           n == Len(H)
           heads == [k \in DOMAIN H |-> H[k] - 1]
           preamble == heads = <<>> \/ heads[1] > 0
           from == IF preamble THEN <<0>> \o heads ELSE heads
           p == IF preamble THEN 1 ELSE 0
<1>1. /\ n \in Nat /\ DOMAIN H = 1..n
      /\ \A k \in 1..n : H[k] \in 1..Len(text)
      /\ \A k, l \in 1..n : k < l => H[k] < H[l]
  BY HeadingsAre
<1>2. Len(text) \in Nat
  BY LenProperties
<1> HIDE DEF H, n
<1>3. /\ heads \in Seq(Nat) /\ Len(heads) = n
      /\ \A k \in 1..n : heads[k] = H[k] - 1 /\ heads[k] \in Nat /\ heads[k] < Len(text)
      /\ \A k, l \in 1..n : k < l => heads[k] < heads[l]
  <2>1. heads = [k \in 1..n |-> H[k] - 1]
    BY <1>1
  <2>2. \A k \in 1..n : H[k] - 1 \in Nat /\ H[k] - 1 < Len(text)
    BY <1>1, <1>2
  <2>3. heads \in [1..n -> Nat]
    BY <2>1, <2>2
  <2>4. heads \in Seq(Nat) /\ Len(heads) = n
    BY <1>1, <2>3
  <2>5. \A k \in 1..n : H[k] \in Nat
    BY <1>1, <1>2
  <2> QED
    BY <1>1, <2>1, <2>2, <2>4, <2>5
<1> HIDE DEF heads
<1>4. CASE preamble
  <2>1. p = 1 /\ from = <<0>> \o heads
    BY <1>4
  <2>2. /\ Len(from) = n + 1 /\ DOMAIN from = 1..(n + 1) /\ from[1] = 0
        /\ \A k \in 2..(n + 1) : from[k] = heads[k - 1]
    BY <1>1, <1>3, <2>1
  <2>3. \A k \in 1..n : heads[k] > 0
    <3>1. ASSUME NEW k \in 1..n PROVE heads[k] > 0
      <4>1. heads # <<>> /\ 1 \in 1..n
        BY <1>1, <1>3, <3>1
      <4>2. heads[1] > 0
        BY <1>4, <4>1
      <4>3. k = 1 \/ heads[1] < heads[k]
        BY <1>1, <1>3, <4>1
      <4> QED
        BY <1>3, <4>1, <4>2, <4>3
    <3> QED
      BY <3>1
  <2> HIDE DEF from, p, preamble
  <2>4. \A k \in 1..(n + 1) : from[k] \in Nat /\ from[k] < Len(text)
    <3>1. ASSUME NEW k \in 1..(n + 1) PROVE from[k] \in Nat /\ from[k] < Len(text)
      <4>1. CASE k = 1
        BY <1>2, <2>2, <4>1
      <4>2. CASE k # 1
        <5>1. k \in 2..(n + 1) /\ k - 1 \in 1..n
          BY <1>1, <4>2
        <5> QED
          BY <1>3, <2>2, <5>1
      <4> QED
        BY <4>1, <4>2
    <3> QED
      BY <3>1
  <2>5. \A j, k \in 1..(n + 1) : j < k => from[j] < from[k]
    <3>1. ASSUME NEW j \in 1..(n + 1), NEW k \in 1..(n + 1), j < k PROVE from[j] < from[k]
      <4>1. k \in 2..(n + 1) /\ k - 1 \in 1..n /\ from[k] = heads[k - 1]
        BY <1>1, <2>2, <3>1
      <4>2. CASE j = 1
        BY <2>2, <2>3, <4>1, <4>2
      <4>3. CASE j # 1
        <5>1. j \in 2..(n + 1) /\ j - 1 \in 1..n /\ j - 1 < k - 1
          BY <1>1, <3>1, <4>3
        <5> QED
          BY <1>3, <2>2, <4>1, <5>1
      <4> QED
        BY <4>2, <4>3
    <3> QED
      BY <3>1
  <2>6. \A k \in 1..n : k + p \in 1..(n + 1) /\ from[k + p] = H[k] - 1
    <3>1. ASSUME NEW k \in 1..n PROVE k + p \in 1..(n + 1) /\ from[k + p] = H[k] - 1
      <4>1. k + p = k + 1 /\ k + 1 \in 2..(n + 1) /\ (k + 1) - 1 = k
        BY <1>1, <2>1
      <4>2. from[k + 1] = heads[k]
        BY <2>2, <4>1
      <4> QED
        BY <1>1, <1>3, <4>1, <4>2
    <3> QED
      BY <3>1
  <2>7. n + 1 \in Nat /\ n + 1 >= 1
    BY <1>1
  <2> QED
    BY <2>2, <2>4, <2>5, <2>6, <2>7 DEF from, p, preamble, heads, n, H
<1>5. CASE ~preamble
  <2>1. p = 0 /\ from = heads /\ heads # <<>> /\ ~(heads[1] > 0)
    BY <1>5
  <2>2. n >= 1 /\ 1 \in 1..n
    BY <1>1, <1>3, <2>1
  <2>3. DOMAIN from = 1..n /\ Len(from) = n /\ from[1] = 0
    BY <1>3, <2>1, <2>2
  <2>4. \A k \in 1..n : k + p = k
    BY <2>1
  <2>5. /\ \A k \in 1..n : from[k] \in Nat /\ from[k] < Len(text)
        /\ \A j, k \in 1..n : j < k => from[j] < from[k]
        /\ \A k \in 1..n : k + p \in 1..n /\ from[k + p] = H[k] - 1
    <3> HIDE DEF from, p, preamble
    <3> QED
      BY <1>3, <2>1, <2>4
  <2> HIDE DEF from, p, preamble
  <2> QED
    BY <1>1, <2>2, <2>3, <2>5 DEF from, p, preamble, heads, n, H
<1> QED
  BY <1>4, <1>5

\* Sections follow one another, and list their headings.
LEMMA SectionsAre ==
    ASSUME NEW U, NEW text \in Seq(U), Len(text) > 0
    PROVE  SectionsOf(ParseSections(text), text)
<1> DEFINE H == Headings(text)
           heads == [k \in DOMAIN H |-> H[k] - 1]
           preamble == heads = <<>> \/ heads[1] > 0
           from == IF preamble THEN <<0>> \o heads ELSE heads
           p == IF preamble THEN 1 ELSE 0
           m == Len(from)
           N == Len(text)
           to(k) == IF k < m THEN from[k + 1] ELSE N
           names(k) == IF k = 1 /\ preamble THEN <<>> ELSE <<from[k]>>
           S == [k \in DOMAIN from |-> [start |-> from[k], end |-> to(k), headers |-> names(k)]]
<1>1. ParseSections(text) = S
  BY DEF ParseSections
<1>2. /\ m \in Nat /\ m >= 1 /\ DOMAIN from = 1..m
      /\ from[1] = 0
      /\ \A k \in 1..m : from[k] \in Nat /\ from[k] < N
      /\ \A j, k \in 1..m : j < k => from[j] < from[k]
      /\ \A k \in 1..Len(H) : k + p \in 1..m /\ from[k + p] = H[k] - 1
  BY SectionsBegin
<1>3. Len(H) \in Nat /\ DOMAIN H = 1..Len(H)
  BY HeadingsAre
<1>4. N \in Nat
  BY LenProperties
<1>5. \A k \in 1..Len(H) : ~(k + p = 1 /\ preamble)
  BY <1>3
<1> HIDE DEF H, heads, from, m, N, p, preamble
<1>6. ASSUME NEW k \in 1..m
      PROVE  to(k) \in Nat /\ from[k] < to(k) /\ to(k) <= N /\ names(k) \in Seq(Nat)
  <2>1. names(k) \in Seq(Nat)
    BY <1>2
  <2>2. CASE k < m
    <3>1. k + 1 \in 1..m /\ k < k + 1
      BY <1>2, <2>2
    <3>2. from[k] < from[k + 1] /\ from[k + 1] \in Nat /\ from[k + 1] < N
      BY <1>2, <3>1
    <3> QED
      BY <1>4, <2>1, <2>2, <3>2
  <2>3. CASE ~(k < m)
    BY <1>2, <1>4, <2>1, <2>3
  <2> QED
    BY <2>2, <2>3
<1>7. ASSUME NEW j \in 1..m, NEW k \in 1..m, j < k PROVE to(j) <= from[k]
  <2>1. j < m /\ j + 1 \in 1..m
    BY <1>2, <1>7
  <2>2. j + 1 = k \/ j + 1 < k
    BY <1>2, <1>7
  <2>3. from[j + 1] <= from[k]
    BY <1>2, <2>1, <2>2
  <2> QED
    BY <2>1, <2>3
<1>8. \A k \in 2..m : to(k - 1) = from[k]
  <2>1. ASSUME NEW k \in 2..m PROVE to(k - 1) = from[k]
    <3>1. k - 1 < m /\ (k - 1) + 1 = k
      BY <1>2
    <3> QED
      BY <3>1
  <2> QED
    BY <2>1
<1>9. to(m) = N
  BY <1>2
<1>10. \A k \in 1..Len(H) : names(k + p) = <<H[k] - 1>>
  BY <1>2, <1>5
<1> HIDE DEF to, names
<1>11. /\ S \in Seq(Section) /\ Len(S) = m
       /\ \A k \in 1..m : S[k].start = from[k] /\ S[k].end = to(k) /\ S[k].headers = names(k)
  <2>1. S \in [1..m -> Section]
    BY <1>2, <1>6 DEF Section
  <2>2. S = [k \in 1..m |-> [start |-> from[k], end |-> to(k), headers |-> names(k)]]
    BY <1>2
  <2>3. \A k \in 1..m : S[k].start = from[k] /\ S[k].end = to(k) /\ S[k].headers = names(k)
    BY <2>2
  <2> HIDE DEF S
  <2> QED
    BY <1>2, <2>1, <2>3
<1> HIDE DEF S
<1>12. ASSUME NEW h \in Range(Headings(text))
       PROVE  \E k \in 1..m : S[k].start = h - 1 /\ (h - 1) \in Range(S[k].headers)
  <2>1. PICK k \in 1..Len(H) : h = H[k]
    BY <1>3 DEF Range, H
  <2> DEFINE l == k + p
  <2>2. l \in 1..m /\ from[l] = h - 1 /\ names(l) = <<h - 1>>
    BY <1>2, <1>10, <2>1
  <2> HIDE DEF l
  <2>3. S[l].start = h - 1 /\ S[l].headers = <<h - 1>>
    BY <1>11, <2>2
  <2>4. (h - 1) \in Range(S[l].headers)
    BY <2>3 DEF Range
  <2> QED
    BY <2>2, <2>3, <2>4
<1>13. \A k \in 1..m : S[k].start < S[k].end /\ S[k].end <= N
  BY <1>6, <1>11
<1>14. S[1].start = 0 /\ S[m].end = N
  BY <1>2, <1>9, <1>11
<1>15. \A k \in 2..m : S[k - 1].end = S[k].start
  <2>1. \A k \in 2..m : k \in 1..m /\ k - 1 \in 1..m
    BY <1>2
  <2> QED
    BY <1>8, <1>11, <2>1
<1>16. \A j, k \in 1..m : j < k => S[j].end <= S[k].start
  BY <1>7, <1>11
<1>17. SectionsOf(S, text)
  BY <1>2, <1>11, <1>12, <1>13, <1>14, <1>15, <1>16 DEF SectionsOf, N
<1> QED
  BY <1>1, <1>17 DEF S, from, to, names, heads, H, preamble, m, N, p

\* The slice of a slice is a slice of the whole.
LEMMA SliceOfSlice ==
    ASSUME NEW U, NEW f \in Seq(U), NEW b \in 0..Len(f), NEW e \in b..Len(f),
           NEW x \in 0..(e - b), NEW y \in x..(e - b)
    PROVE  Slice(Slice(f, b, e), x, y) = Slice(f, b + x, b + y)
<1> DEFINE g == Slice(f, b, e)
           p == Slice(g, x, y)
           q == Slice(f, b + x, b + y)
<1>1. Len(f) \in Nat /\ b \in Nat /\ e \in Nat /\ x \in Nat /\ y \in Nat
  BY LenProperties
<1>2. /\ g \in Seq(U) /\ Len(g) = e - b
      /\ \A i \in 1..(e - b) : g[i] = f[b + i]
  BY SliceProperties
<1>3. /\ x \in 0..Len(g) /\ y \in x..Len(g)
      /\ b + x \in 0..Len(f) /\ b + y \in (b + x)..Len(f) /\ (b + y) - (b + x) = y - x
      /\ y - x \in Nat
  BY <1>1, <1>2
<1> HIDE DEF g
<1>4. p \in Seq(U) /\ Len(p) = y - x /\ \A i \in 1..(y - x) : p[i] = g[x + i]
  BY <1>2, <1>3, SliceProperties
<1>5. q \in Seq(U) /\ Len(q) = y - x /\ \A i \in 1..(y - x) : q[i] = f[(b + x) + i]
  <2>1. /\ q \in Seq(U) /\ Len(q) = (b + y) - (b + x)
        /\ \A i \in 1..((b + y) - (b + x)) : q[i] = f[(b + x) + i]
    BY <1>3, SliceProperties
  <2> QED
    BY <1>3, <2>1
<1>6. \A i \in 1..(y - x) : p[i] = q[i]
  <2>1. ASSUME NEW i \in 1..(y - x) PROVE g[x + i] = f[(b + x) + i]
    <3>1. x + i \in 1..(e - b) /\ b + (x + i) = (b + x) + i
      BY <1>1
    <3>2. g[x + i] = f[b + (x + i)]
      BY <1>2, <3>1
    <3> QED
      BY <3>1, <3>2
  <2> QED
    BY <1>4, <1>5, <2>1
<1>7. p = q
  <2> HIDE DEF p, q
  <2> QED
    BY <1>3, <1>4, <1>5, <1>6, SlicesEqual
<1> QED
  BY <1>7 DEF g

-----------------------------------------------------------------------------
\* Chunks in order between two offsets of a text: they fit, hold what is in no
\* separator there, and list the headings that lie in them.
Cover(chunks, p, q, text) ==
    \A i \in (p + 1)..q :
        ~InSeparator(text, i)
          => \E k \in 1..Len(chunks) : chunks[k].start < i /\ i <= chunks[k].end

Lists(c, text) ==
    \A h \in Range(Headings(text)) :
        c.start < h /\ h <= c.end => (h - 1) \in Range(c.headers)

Headed(chunks, text) == \A k \in 1..Len(chunks) : Lists(chunks[k], text)

Stretch(chunks, p, q, U, text) ==
    /\ chunks \in Seq(ChunksOf(U, text))
    /\ Sorted(chunks) /\ Narrow(chunks, ChunkSize)
    /\ \A k \in 1..Len(chunks) : p <= chunks[k].start /\ chunks[k].end <= q
    /\ Cover(chunks, p, q, text)
    /\ Headed(chunks, text)

\* No chunks between an offset and itself.
LEMMA NoStretch ==
    ASSUME NEW U, NEW text, NEW p \in Nat
    PROVE  Stretch(<<>>, p, p, U, text)
<1> DEFINE C == <<>>
<1>1. C \in Seq(ChunksOf(U, text)) /\ Len(C) = 0
  BY EmptySeq
<1>2. 1..0 = {} /\ (p + 1)..p = {}
  OBVIOUS
<1> HIDE DEF C
<1>3. Stretch(C, p, p, U, text)
  BY <1>1, <1>2 DEF Stretch, Sorted, Narrow, Cover, Headed
<1> QED
  BY <1>3 DEF C

\* Two stretches of which the one ends where the other begins.
LEMMA StretchesJoin ==
    ASSUME NEW U, NEW text \in Seq(U), NEW p \in Nat, NEW q \in Nat, NEW r \in Nat,
           p <= q, q <= r,
           NEW C, Stretch(C, p, q, U, text), NEW D, Stretch(D, q, r, U, text)
    PROVE  Stretch(C \o D, p, r, U, text)
<1> DEFINE X == ChunksOf(U, text)
           E == C \o D
           m == Len(C)
           n == Len(D)
<1>1. C \in Seq(X) /\ D \in Seq(X)
  BY DEF Stretch
<1>2. /\ m \in Nat /\ n \in Nat
      /\ \A k \in 1..m : C[k].start \in Nat /\ C[k].end \in Nat /\ C[k].start < C[k].end
      /\ \A k \in 1..n : D[k].start \in Nat /\ D[k].end \in Nat /\ D[k].start < D[k].end
  BY <1>1, Offsets
<1>3. /\ \A k \in 1..m : /\ p <= C[k].start /\ C[k].end <= q /\ Lists(C[k], text)
                         /\ C[k].end - C[k].start <= ChunkSize
      /\ \A k \in 1..n : /\ q <= D[k].start /\ D[k].end <= r /\ Lists(D[k], text)
                         /\ D[k].end - D[k].start <= ChunkSize
  BY DEF Stretch, Headed, Narrow
<1>4. /\ E \in Seq(X) /\ Len(E) = m + n
      /\ \A k \in 1..m : E[k] = C[k]
      /\ \A k \in 1..n : E[m + k] = D[k]
  <2> HIDE DEF X
  <2>1. \A k \in 1..(m + n) : E[k] = IF k <= m THEN C[k] ELSE D[k - m]
    BY <1>1, <1>2, ConcatProperties
  <2>2. \A k \in 1..m : k \in 1..(m + n) /\ k <= m
    BY <1>2
  <2>3. \A k \in 1..n : m + k \in 1..(m + n) /\ ~(m + k <= m) /\ (m + k) - m = k
    BY <1>2
  <2>4. E \in Seq(X) /\ Len(E) = m + n
    BY <1>1, ConcatProperties
  <2> HIDE DEF E, m, n
  <2> QED
    BY <2>1, <2>2, <2>3, <2>4
<1> HIDE DEF E
<1>5. ASSUME NEW k \in 1..(m + n)
      PROVE  \/ k \in 1..m /\ E[k] = C[k]
             \/ k - m \in 1..n /\ k > m /\ E[k] = D[k - m]
  <2>1. CASE k <= m
    <3>1. k \in 1..m
      BY <1>2, <2>1
    <3> QED
      BY <1>4, <3>1
  <2>2. CASE ~(k <= m)
    <3>1. k - m \in 1..n /\ m + (k - m) = k /\ k > m
      BY <1>2, <2>2
    <3> QED
      BY <1>4, <3>1
  <2> QED
    BY <2>1, <2>2
<1> HIDE DEF m, n
<1>6. ASSUME NEW k \in 1..(m + n)
      PROVE  /\ p <= E[k].start /\ E[k].end <= r /\ Lists(E[k], text)
             /\ E[k].end - E[k].start <= ChunkSize
  <2>1. CASE k \in 1..m /\ E[k] = C[k]
    BY <1>2, <1>3, <2>1
  <2>2. CASE k - m \in 1..n /\ E[k] = D[k - m]
    BY <1>2, <1>3, <2>2
  <2> QED
    BY <1>5, <2>1, <2>2
<1>7. ASSUME NEW j \in 1..(m + n), NEW k \in 1..(m + n), j < k
      PROVE  E[j].start < E[k].start /\ E[j].end < E[k].end
  <2>1. CASE j \in 1..m /\ E[j] = C[j] /\ k \in 1..m /\ E[k] = C[k]
    <3>1. Sorted(C)
      BY DEF Stretch
    <3> QED
      BY <1>7, <2>1, <3>1 DEF Sorted, m
  <2>2. CASE j \in 1..m /\ E[j] = C[j] /\ k - m \in 1..n /\ E[k] = D[k - m]
    <3> DEFINE l == k - m
               w == C[j].start
               x == C[j].end
               y == D[l].start
               z == D[l].end
    <3>1. /\ w \in Nat /\ x \in Nat /\ w < x /\ x <= q
          /\ y \in Nat /\ z \in Nat /\ y < z /\ q <= y
      BY <1>2, <1>3, <2>2
    <3> HIDE DEF w, x, y, z
    <3>2. w < y /\ x < z
      BY <3>1
    <3>3. C[j].start < D[l].start /\ C[j].end < D[l].end
      BY <3>2 DEF w, x, y, z
    <3> QED
      BY <2>2, <3>3 DEF l
  <2>3. CASE j > m /\ j - m \in 1..n /\ E[j] = D[j - m] /\ k - m \in 1..n /\ E[k] = D[k - m]
    <3>1. Sorted(D)
      BY DEF Stretch
    <3>2. j - m < k - m
      BY <1>2, <1>7
    <3> QED
      BY <2>3, <3>1, <3>2 DEF Sorted, n
  <2>4. ~(j > m /\ k \in 1..m)
    BY <1>2, <1>7
  <2> QED
    BY <1>5, <2>1, <2>2, <2>3, <2>4
<1>8. Cover(E, p, r, text)
  <2>1. ASSUME NEW i \in (p + 1)..r, ~InSeparator(text, i)
        PROVE  \E k \in 1..(m + n) : E[k].start < i /\ i <= E[k].end
    <3>1. CASE i <= q
      <4>1. i \in (p + 1)..q
        BY <3>1
      <4>2. Cover(C, p, q, text)
        BY DEF Stretch
      <4>3. PICK k \in 1..m : C[k].start < i /\ i <= C[k].end
        BY <2>1, <4>1, <4>2 DEF Cover, m
      <4>4. k \in 1..(m + n) /\ E[k] = C[k]
        BY <1>2, <1>4
      <4> QED
        BY <4>3, <4>4
    <3>2. CASE ~(i <= q)
      <4>1. i \in (q + 1)..r
        BY <3>2
      <4>2. Cover(D, q, r, text)
        BY DEF Stretch
      <4>3. PICK k \in 1..n : D[k].start < i /\ i <= D[k].end
        BY <2>1, <4>1, <4>2 DEF Cover, n
      <4>4. m + k \in 1..(m + n) /\ E[m + k] = D[k]
        BY <1>2, <1>4
      <4> QED
        BY <4>3, <4>4
    <3> QED
      BY <3>1, <3>2
  <2> QED
    BY <1>4, <2>1 DEF Cover
<1>9. Sorted(E) /\ Narrow(E, ChunkSize) /\ Headed(E, text)
      /\ \A k \in 1..Len(E) : p <= E[k].start /\ E[k].end <= r
  BY <1>4, <1>6, <1>7 DEF Sorted, Narrow, Headed
<1> QED
  BY <1>4, <1>8, <1>9 DEF Stretch, E

\* A heading that lies in a part of a text begins one of the sections in it.
LEMMA HeadingIn ==
    ASSUME NEW U, NEW text \in Seq(U), NEW S, SectionsOf(S, text),
           NEW a \in 1..Len(S), NEW b \in 1..Len(S), a <= b,
           NEW h \in Range(Headings(text)), S[a].start < h, h <= S[b].end
    PROVE  \E k \in a..b : (h - 1) \in Range(S[k].headers)
<1>1. Len(S) \in Nat /\ \A k \in 1..Len(S) : S[k] \in Section
  BY LenProperties, ElementOfSeq DEF SectionsOf
<1>2. \A k \in 1..Len(S) : S[k].start \in Nat /\ S[k].end \in Nat /\ S[k].start < S[k].end
  BY <1>1 DEF Section, SectionsOf
<1>3. h \in Nat
  <2>1. Len(Headings(text)) \in Nat /\ DOMAIN Headings(text) = 1..Len(Headings(text))
        /\ \A k \in 1..Len(Headings(text)) : Headings(text)[k] \in 1..Len(text)
    BY HeadingsAre
  <2>2. Len(text) \in Nat
    BY LenProperties
  <2> QED
    BY <2>1, <2>2 DEF Range
<1>4. PICK k \in 1..Len(S) : S[k].start = h - 1 /\ (h - 1) \in Range(S[k].headers)
  BY DEF SectionsOf
<1>5. ~(k < a)
  <2> SUFFICES ASSUME k < a PROVE FALSE
    OBVIOUS
  <2>1. S[k].end <= S[a].start
    BY DEF SectionsOf
  <2> QED
    BY <1>2, <1>3, <1>4, <2>1
<1>6. ~(b < k)
  <2> SUFFICES ASSUME b < k PROVE FALSE
    OBVIOUS
  <2>1. S[b].end <= S[k].start
    BY DEF SectionsOf
  <2> QED
    BY <1>2, <1>3, <1>4, <2>1
<1>7. k \in a..b
  BY <1>1, <1>5, <1>6
<1> QED
  BY <1>4, <1>7

\* The headings of sections that are next to each other, listed.
LEMMA HeadersOf ==
    ASSUME NEW S \in Seq(Section)
    PROVE  LET headers == FlattenSeq([i \in DOMAIN S |-> S[i].headers])
           IN /\ headers \in Seq(Nat)
              /\ \A k \in 1..Len(S) : Range(S[k].headers) \subseteq Range(headers)
<1> DEFINE seqs == [i \in DOMAIN S |-> S[i].headers]
           A == Nat \X Nat
<1>1. Len(S) \in Nat /\ DOMAIN S = 1..Len(S) /\ \A k \in 1..Len(S) : S[k].headers \in Seq(Nat)
  <2>1. \A k \in 1..Len(S) : S[k] \in Section
    BY ElementOfSeq
  <2> QED
    BY <2>1, LenProperties DEF Section
<1>2. /\ seqs \in Seq(Seq(Nat)) /\ Len(seqs) = Len(S)
      /\ \A k \in 1..Len(S) : seqs[k] = S[k].headers
  BY <1>1
<1> HIDE DEF seqs
<1>3. Chains(seqs, A)
  <2>1. ASSUME NEW k \in 1..Len(seqs) PROVE ToSet(seqs[k]) \subseteq Nat /\ Chain(seqs[k], A)
    <3>1. seqs[k] \in Seq(Nat)
      BY <1>1, <1>2
    <3>2. ToSet(seqs[k]) \subseteq Nat
      BY <3>1, ToSetIs
    <3>3. \A i \in 1..Len(seqs[k]) : seqs[k][i] \in Nat
      BY <3>1, ElementOfSeq
    <3> QED
      BY <3>2, <3>3 DEF Chain
  <2> QED
    BY <2>1 DEF Chains, Across
<1>4. FlattenSeq(seqs) \in Seq(Nat) /\ ToSet(FlattenSeq(seqs)) = Elements(seqs)
  BY <1>2, <1>3, FlattenChain
<1>5. ASSUME NEW k \in 1..Len(S)
      PROVE  Range(S[k].headers) \subseteq Range(FlattenSeq(seqs))
  <2>1. ToSet(seqs[k]) \subseteq Elements(seqs)
    BY <1>2 DEF Elements
  <2> QED
    BY <1>2, <1>4, <2>1 DEF ToSet, Range
<1> QED
  BY <1>4, <1>5 DEF seqs

\* Part of a sequence of sections.
LEMMA PartOfSections ==
    ASSUME NEW S \in Seq(Section), NEW a \in Nat \ {0}, NEW b \in Nat, b <= Len(S)
    PROVE  LET T == SubSeq(S, a, b)
           IN /\ T \in Seq(Section)
              /\ a <= b => /\ T # <<>> /\ Len(T) = b - a + 1 /\ T[1] = S[a] /\ Last(T) = S[b]
                           /\ \A k \in a..b : T[k - a + 1] = S[k] /\ k - a + 1 \in 1..Len(T)
              /\ b < a => T = <<>>
<1> DEFINE T == SubSeq(S, a, b)
<1>1. Len(S) \in Nat /\ \A k \in 1..Len(S) : S[k] \in Section
  BY LenProperties, ElementOfSeq
<1>2. CASE a <= b
  <2>1. \A k \in a..b : S[k] \in Section
    <3>1. \A k \in a..b : k \in 1..Len(S)
      BY <1>1
    <3> QED
      BY <1>1, <3>1
  <2>2. /\ T \in Seq(Section) /\ Len(T) = b - a + 1
        /\ \A i \in 1..(b - a + 1) : T[i] = S[a + i - 1]
    BY <1>2, <2>1, SubSeqProperties
  <2>3. \A k \in a..b : k - a + 1 \in 1..(b - a + 1) /\ a + (k - a + 1) - 1 = k
    OBVIOUS
  <2>4. 1 \in 1..(b - a + 1) /\ a + 1 - 1 = a
        /\ b - a + 1 \in 1..(b - a + 1) /\ a + (b - a + 1) - 1 = b /\ ~(a > b)
    BY <1>2
  <2> HIDE DEF T
  <2>5. \A k \in a..b : T[k - a + 1] = S[k] /\ k - a + 1 \in 1..Len(T)
    BY <2>2, <2>3
  <2>6. T[1] = S[a] /\ T[Len(T)] = S[b] /\ Len(T) # 0
    BY <2>2, <2>4
  <2>7. T # <<>>
    BY <2>6
  <2> QED
    BY <1>2, <2>2, <2>4, <2>5, <2>6, <2>7 DEF T, Last
<1>3. CASE b < a
  <2>1. T = <<>>
    BY <1>3, SubSeqProperties
  <2> QED
    BY <1>3, <2>1
<1> QED
  BY <1>2, <1>3

\* The offsets of sections.
LEMMA SectionOffsets ==
    ASSUME NEW U, NEW text \in Seq(U), NEW S, SectionsOf(S, text)
    PROVE  /\ Len(S) \in Nat /\ Len(S) >= 1 /\ S \in Seq(Section) /\ Len(text) \in Nat
           /\ \A k \in 1..Len(S) :
                 /\ S[k].start \in Nat /\ S[k].end \in Nat /\ S[k].headers \in Seq(Nat)
                 /\ S[k].start < S[k].end /\ S[k].end <= Len(text)
<1>1. \A k \in 1..Len(S) : S[k] \in Section
  BY ElementOfSeq DEF SectionsOf
<1> QED
  BY <1>1, LenProperties DEF SectionsOf, Section

\* Sections that are merged into a chunk.
LEMMA MergedChunkIs ==
    ASSUME NEW U, NEW text \in Seq(U), NEW S, SectionsOf(S, text),
           NEW a \in 1..Len(S), NEW b \in 1..Len(S), a <= b
    PROVE  LET C == BuildMergedChunk(SubSeq(S, a, b), text)
           IN /\ C \in Seq(ChunksOf(U, text)) /\ Len(C) = 1
              /\ C[1].start = S[a].start /\ C[1].end = S[b].end /\ Lists(C[1], text)
<1> DEFINE T == SubSeq(S, a, b)
           headers == FlattenSeq([i \in DOMAIN T |-> T[i].headers])
           s == S[a].start
           e == S[b].end
           c == Chunk(text, s, e, headers)
           C == <<c>>
<1>1. /\ Len(S) \in Nat /\ S \in Seq(Section) /\ Len(text) \in Nat
      /\ \A k \in 1..Len(S) : S[k].start \in Nat /\ S[k].end \in Nat /\ S[k].start < S[k].end
  BY SectionOffsets
<1>2. /\ T \in Seq(Section) /\ T # <<>> /\ T[1] = S[a] /\ Last(T) = S[b]
      /\ \A k \in a..b : T[k - a + 1] = S[k] /\ k - a + 1 \in 1..Len(T)
  <2>1. a \in Nat \ {0} /\ b \in Nat /\ b <= Len(S)
    BY <1>1
  <2>2. /\ T \in Seq(Section)
        /\ a <= b => /\ T # <<>> /\ Len(T) = b - a + 1 /\ T[1] = S[a] /\ Last(T) = S[b]
                     /\ \A k \in a..b : T[k - a + 1] = S[k] /\ k - a + 1 \in 1..Len(T)
    BY <1>1, <2>1, PartOfSections
  <2> HIDE DEF T
  <2> QED
    BY <2>2
<1> HIDE DEF T
<1>3. BuildMergedChunk(T, text) = C
  BY <1>2 DEF BuildMergedChunk
<1>4. headers \in Seq(Nat) /\ \A k \in 1..Len(T) : Range(T[k].headers) \subseteq Range(headers)
  BY <1>2, HeadersOf
<1> HIDE DEF headers
<1>5. s \in Nat /\ e \in Nat /\ s < e /\ e <= Len(text)
  <2>1. a = b \/ S[a].end <= S[b].start
    BY <1>1 DEF SectionsOf
  <2>2. e <= Len(text)
    BY DEF SectionsOf
  <2> QED
    BY <1>1, <2>1, <2>2
<1>6. c \in ChunksOf(U, text) /\ c.start = s /\ c.end = e /\ c.headers = headers
  <2>1. c.headers = headers
    BY DEF Chunk
  <2> HIDE DEF s, e
  <2> QED
    BY <1>4, <1>5, <2>1, ChunkIs
<1>7. Lists(c, text)
  <2>1. ASSUME NEW h \in Range(Headings(text)), c.start < h, h <= c.end
        PROVE  (h - 1) \in Range(c.headers)
    <3>1. PICK k \in a..b : (h - 1) \in Range(S[k].headers)
      <4>1. S[a].start < h /\ h <= S[b].end
        BY <1>6, <2>1
      <4> QED
        BY <4>1, HeadingIn
    <3>2. (h - 1) \in Range(headers)
      BY <1>2, <1>4, <3>1
    <3> QED
      BY <1>6, <3>2
  <2> QED
    BY <2>1 DEF Lists
<1> HIDE DEF c
<1>8. C \in Seq(ChunksOf(U, text)) /\ Len(C) = 1 /\ C[1] = c
  BY <1>6
<1> HIDE DEF C
<1> QED
  BY <1>3, <1>6, <1>7, <1>8 DEF T

\* Such a chunk is a stretch if it is not too long.
LEMMA MergedStretch ==
    ASSUME NEW U, NEW text \in Seq(U), NEW S, SectionsOf(S, text),
           NEW a \in 1..Len(S), NEW b \in 1..Len(S), a <= b, S[b].end - S[a].start <= ChunkSize
    PROVE  Stretch(BuildMergedChunk(SubSeq(S, a, b), text), S[a].start, S[b].end, U, text)
<1> DEFINE C == BuildMergedChunk(SubSeq(S, a, b), text)
           s == S[a].start
           e == S[b].end
           c == C[1]
<1>1. s \in Nat /\ e \in Nat
  BY SectionOffsets
<1>2. /\ C \in Seq(ChunksOf(U, text)) /\ Len(C) = 1 /\ C[1] = c
      /\ c.start = s /\ c.end = e /\ Lists(c, text)
  BY MergedChunkIs
<1>3. e - s <= ChunkSize
  OBVIOUS
<1> HIDE DEF C, c, s, e
<1>4. \A k \in 1..1 : k = 1
  OBVIOUS
<1>5. Sorted(C) /\ Narrow(C, ChunkSize)
  <2>1. \A j, k \in 1..1 : ~(j < k)
    OBVIOUS
  <2> QED
    BY <1>2, <1>3, <1>4, <2>1 DEF Sorted, Narrow
<1>6. Cover(C, s, e, text)
  <2>1. ASSUME NEW i \in (s + 1)..e PROVE C[1].start < i /\ i <= C[1].end
    BY <1>1, <1>2
  <2>2. 1 \in 1..Len(C)
    BY <1>2
  <2> QED
    BY <2>1, <2>2 DEF Cover
<1>7. \A k \in 1..Len(C) : s <= C[k].start /\ C[k].end <= e /\ Lists(C[k], text)
  <2>1. s <= c.start /\ c.end <= e
    BY <1>1, <1>2
  <2> QED
    BY <1>2, <1>4, <2>1
<1>8. Stretch(C, s, e, U, text)
  BY <1>2, <1>5, <1>6, <1>7 DEF Stretch, Headed
<1> QED
  BY <1>8 DEF C, s, e

\* A chunk that is moved, and given other headings.
LEMMA MovedIs ==
    ASSUME NEW w, NEW x, NEW y, NEW hs, NEW by, NEW names, NEW c,
           c = [text |-> w, start |-> x, end |-> y, headers |-> hs]
    PROVE  [Shifted(c, by) EXCEPT !.headers = names]
             = [text |-> w, start |-> x + by, end |-> y + by, headers |-> names]
<1> DEFINE moved == [i \in DOMAIN hs |-> hs[i] + by]
           d == Shifted(c, by)
           a == [c EXCEPT !.start = @ + by]
           b == [a EXCEPT !.end = @ + by]
           m == [b EXCEPT !.headers = [i \in DOMAIN @ |-> @[i] + by]]
<1>1. d = m
  BY DEF Shifted
<1>2. a = [text |-> w, start |-> x + by, end |-> y, headers |-> hs]
  OBVIOUS
<1> HIDE DEF a
<1>3. b = [text |-> w, start |-> x + by, end |-> y + by, headers |-> hs]
  BY <1>2
<1> HIDE DEF b
<1>4. m = [b EXCEPT !.headers = moved]
  BY <1>3
<1> HIDE DEF moved, m
<1>5. m = [text |-> w, start |-> x + by, end |-> y + by, headers |-> moved]
  BY <1>3, <1>4
<1> HIDE DEF d
<1>6. [d EXCEPT !.headers = names]
        = [text |-> w, start |-> x + by, end |-> y + by, headers |-> names]
  BY <1>1, <1>5
<1> QED
  BY <1>6 DEF d

\* The pieces of a section that is too long for a chunk.
LEMMA FallbackStretch ==
    ASSUME NEW U, NEW text \in Seq(U), NEW S, SectionsOf(S, text), NEW a \in 1..Len(S)
    PROVE  Stretch(Fallback(S[a], text), S[a].start, S[a].end, U, text)
<1> DEFINE s == S[a].start
           e == S[a].end
           names == S[a].headers
           t == Slice(text, s, e)
           P == RecursiveChunk(t)
           F == Fallback(S[a], text)
<1>1. /\ Len(S) \in Nat /\ Len(text) \in Nat
      /\ s \in Nat /\ e \in Nat /\ s < e /\ e <= Len(text) /\ names \in Seq(Nat)
  <2>1. S[a] \in Section
    BY ElementOfSeq DEF SectionsOf
  <2> QED
    BY <2>1, LenProperties DEF SectionsOf, Section
<1>2. s \in 0..Len(text) /\ e \in s..Len(text) /\ e - s \in Nat
  BY <1>1
<1>3. F = [i \in DOMAIN P |-> [Shifted(P[i], s) EXCEPT !.headers = names]]
  BY DEF Fallback
<1> HIDE DEF s, e, F, names
<1>4. /\ t \in Seq(U) /\ Len(t) = e - s
      /\ \A i \in 1..(e - s) : t[i] = text[s + i]
  BY <1>2, SliceProperties
<1>5. /\ P \in Seq(ChunksOf(U, t)) /\ Sorted(P) /\ Narrow(P, ChunkSize)
      /\ \A i \in 1..Len(t) :
            ~InSeparator(t, i) => \E k \in 1..Len(P) : P[k].start < i /\ i <= P[k].end
  <2>1. CASE IsBlank(t)
    <3>1. P = <<>>
      BY <2>1 DEF RecursiveChunk
    <3>2. P \in Seq(ChunksOf(U, t)) /\ Len(P) = 0 /\ 1..0 = {}
      BY <3>1, EmptySeq
    <3>3. DOMAIN t = 1..Len(t)
      BY <1>4, LenProperties
    <3>4. \A i \in 1..Len(t) : InSeparator(t, i)
      BY <2>1, <3>3 DEF IsBlank, InSeparator
    <3> HIDE DEF P, t
    <3> QED
      BY <3>2, <3>4 DEF Sorted, Narrow
  <2>2. CASE ~IsBlank(t)
    BY <1>4, <2>2, RecursiveChunkIs
  <2> QED
    BY <2>1, <2>2
<1> HIDE DEF P
<1>6. DOMAIN P = 1..Len(P) /\ Len(P) \in Nat
  BY <1>5, LenProperties
<1>7. ASSUME NEW k \in 1..Len(P)
      PROVE  /\ P[k].start \in Nat /\ P[k].end \in Nat /\ P[k].start < P[k].end
             /\ P[k].end <= e - s
             /\ F[k] \in ChunksOf(U, text)
             /\ F[k].start = P[k].start + s /\ F[k].end = P[k].end + s
             /\ F[k].headers = names
  <2> DEFINE c == P[k]
             x == P[k].start
             y == P[k].end
             f == F[k]
  <2>1. c \in ChunksOf(U, t)
    BY <1>5, ElementOfSeq
  <2>2. x \in Nat /\ y \in Nat /\ x < y /\ y <= e - s /\ c.text = Slice(t, x, y)
        /\ Len(c.text) = y - x /\ c.text \in Seq(U)
    <3>1. c.text \in Seq(U)
      BY <2>1 DEF ChunksOf
    <3> QED
      BY <1>4, <2>1, <3>1, ChunkLength
  <2>3. f = [Shifted(c, s) EXCEPT !.headers = names]
    BY <1>3, <1>6
  <2>4. c = [text |-> c.text, start |-> x, end |-> y, headers |-> c.headers]
    BY <2>1 DEF ChunksOf
  <2> HIDE DEF f
  <2>5. f = [text |-> c.text, start |-> x + s, end |-> y + s, headers |-> names]
    <3> DEFINE w == c.text
               hs == c.headers
    <3>1. c = [text |-> w, start |-> x, end |-> y, headers |-> hs]
      BY <2>4
    <3> HIDE DEF c, x, y, w, hs
    <3> QED
      BY <2>3, <3>1, MovedIs DEF w
  <2>6. c.text = Slice(text, s + x, s + y)
    <3>1. x \in 0..(e - s) /\ y \in x..(e - s)
      BY <1>1, <2>2
    <3> HIDE DEF c, x, y
    <3>2. Slice(t, x, y) = Slice(text, s + x, s + y)
      BY <1>2, <3>1, SliceOfSlice
    <3> QED
      BY <2>2, <3>2
  <2> HIDE DEF x, y, c
  <2>7. s + x = x + s /\ s + y = y + s /\ x + s \in Nat /\ y + s \in Nat
        /\ x + s < y + s /\ y + s <= Len(text)
    BY <1>1, <2>2
  <2>8. f \in ChunksOf(U, text) /\ f.start = x + s /\ f.end = y + s /\ f.headers = names
    BY <1>1, <2>2, <2>5, <2>6, <2>7 DEF ChunksOf
  <2> QED
    BY <2>2, <2>8 DEF f, x, y, c
<1>8. F \in Seq(ChunksOf(U, text)) /\ Len(F) = Len(P)
  <2>1. F \in [1..Len(P) -> ChunksOf(U, text)]
    BY <1>3, <1>6, <1>7
  <2> QED
    BY <1>6, <2>1
<1>9. Sorted(F)
  <2>1. ASSUME NEW j \in 1..Len(P), NEW k \in 1..Len(P), j < k
        PROVE  F[j].start < F[k].start /\ F[j].end < F[k].end
    <3>1. P[j].start < P[k].start /\ P[j].end < P[k].end
      BY <1>5, <2>1 DEF Sorted
    <3> DEFINE w == P[j].start
               x == P[j].end
               y == P[k].start
               z == P[k].end
    <3>2. /\ w \in Nat /\ x \in Nat /\ y \in Nat /\ z \in Nat
          /\ F[j].start = w + s /\ F[j].end = x + s /\ F[k].start = y + s /\ F[k].end = z + s
      BY <1>7
    <3>3. w < y /\ x < z
      BY <3>1
    <3> HIDE DEF w, x, y, z
    <3> QED
      BY <1>1, <3>2, <3>3
  <2> QED
    BY <1>8, <2>1 DEF Sorted
<1>10. Narrow(F, ChunkSize)
  <2>1. ASSUME NEW k \in 1..Len(P) PROVE F[k].end - F[k].start <= ChunkSize
    <3>1. P[k].end - P[k].start <= ChunkSize
      BY <1>5 DEF Narrow
    <3> DEFINE x == P[k].start
               y == P[k].end
    <3>2. x \in Nat /\ y \in Nat /\ F[k].start = x + s /\ F[k].end = y + s /\ y - x <= ChunkSize
      BY <1>7, <3>1
    <3> HIDE DEF x, y
    <3>3. (y + s) - (x + s) = y - x
      BY <1>1, <3>2
    <3> QED
      BY <3>2, <3>3
  <2> QED
    BY <1>8, <2>1 DEF Narrow
<1>11. ASSUME NEW k \in 1..Len(F)
       PROVE  /\ s <= F[k].start /\ F[k].end <= e
              /\ F[k].start \in Nat /\ F[k].end \in Nat
  <2> DEFINE x == P[k].start
             y == P[k].end
  <2>1. x \in Nat /\ y \in Nat /\ y <= e - s /\ F[k].start = x + s /\ F[k].end = y + s
    BY <1>7, <1>8
  <2> HIDE DEF x, y
  <2>2. s <= x + s /\ y + s <= e /\ x + s \in Nat /\ y + s \in Nat
    BY <1>1, <2>1
  <2> QED
    BY <2>1, <2>2
<1>12. Cover(F, s, e, text)
  <2>1. ASSUME NEW i \in (s + 1)..e, ~InSeparator(text, i)
        PROVE  \E k \in 1..Len(F) : F[k].start < i /\ i <= F[k].end
    <3> DEFINE l == i - s
    <3>1. l \in 1..Len(t) /\ l \in 1..(e - s) /\ s + l = i
      BY <1>1, <1>4
    <3>2. ~InSeparator(t, l)
      BY <1>2, <2>1, <3>1, SeparatorInSlice
    <3> HIDE DEF t
    <3>3. PICK k \in 1..Len(P) : P[k].start < l /\ l <= P[k].end
      BY <1>5, <3>1, <3>2
    <3> DEFINE x == P[k].start
               y == P[k].end
    <3>4. /\ x \in Nat /\ y \in Nat /\ F[k].start = x + s /\ F[k].end = y + s
          /\ x < l /\ l <= y
      BY <1>7, <3>3
    <3> HIDE DEF x, y
    <3>5. x + s < i /\ i <= y + s
      BY <1>1, <3>4
    <3>6. F[k].start < i /\ i <= F[k].end
      BY <3>4, <3>5
    <3> QED
      BY <1>8, <3>6
  <2> QED
    BY <2>1 DEF Cover
<1>13. ASSUME NEW k \in 1..Len(F) PROVE Lists(F[k], text)
  <2>1. ASSUME NEW h \in Range(Headings(text)), F[k].start < h, h <= F[k].end
        PROVE  (h - 1) \in Range(F[k].headers)
    <3>1. h \in Nat
      <4>1. Len(Headings(text)) \in Nat /\ DOMAIN Headings(text) = 1..Len(Headings(text))
            /\ \A m \in 1..Len(Headings(text)) : Headings(text)[m] \in 1..Len(text)
        BY HeadingsAre
      <4> QED
        BY <1>1, <4>1 DEF Range
    <3>2. F[k].start \in Nat /\ F[k].end \in Nat /\ s <= F[k].start /\ F[k].end <= e
      BY <1>11
    <3>3. S[a].start < h /\ h <= S[a].end
      BY <1>1, <2>1, <3>1, <3>2 DEF s, e
    <3>4. a <= a /\ \A m \in a..a : m = a
      BY <1>1
    <3>5. (h - 1) \in Range(names)
      BY <3>3, <3>4, HeadingIn DEF names
    <3> QED
      BY <1>7, <1>8, <3>5
  <2> QED
    BY <2>1 DEF Lists
<1> QED
  BY <1>8, <1>9, <1>10, <1>11, <1>12, <1>13 DEF Stretch, Headed, s, e, F

-----------------------------------------------------------------------------
(***************************************************************************)
(* The chunker of structured text: sections are gathered.                  *)
(***************************************************************************)

GatherState(U, text) == [chunks : Seq(ChunksOf(U, text)), first : Nat \ {0}]

\* The chunk of any part of the sections.
LEMMA MergedChunkType ==
    ASSUME NEW U, NEW text \in Seq(U), NEW S, SectionsOf(S, text),
           NEW a \in Nat \ {0}, NEW b \in 0..Len(S)
    PROVE  /\ BuildMergedChunk(SubSeq(S, a, b), text) \in Seq(ChunksOf(U, text))
           /\ b < a => BuildMergedChunk(SubSeq(S, a, b), text) = <<>>
<1>1. Len(S) \in Nat /\ S \in Seq(Section) /\ b \in Nat /\ b <= Len(S) /\ a \in Nat
  BY SectionOffsets
<1>2. CASE a <= b
  <2>1. a \in 1..Len(S) /\ b \in 1..Len(S) /\ ~(b < a)
    BY <1>1, <1>2
  <2> QED
    BY <1>2, <2>1, MergedChunkIs
<1>3. CASE ~(a <= b)
  <2>1. b < a
    BY <1>1, <1>3
  <2>2. SubSeq(S, a, b) = <<>>
    BY <1>1, <2>1, PartOfSections
  <2>3. BuildMergedChunk(SubSeq(S, a, b), text) = <<>>
    BY <2>2 DEF BuildMergedChunk
  <2> QED
    BY <2>3, EmptySeq
<1> QED
  BY <1>2, <1>3

\* One section keeps the types of the loop.
LEMMA TakeSectionType ==
    ASSUME NEW U, NEW text \in Seq(U), NEW S, SectionsOf(S, text),
           NEW acc \in GatherState(U, text), NEW n \in 1..Len(S)
    PROVE  TakeSection(acc, S, n, text) \in GatherState(U, text)
<1> DEFINE X == Seq(ChunksOf(U, text))
           built == BuildMergedChunk(SubSeq(S, acc.first, n - 1), text)
           closed == acc.chunks \o built
           pieces == Fallback(S[n], text)
<1>1. acc.chunks \in X /\ acc.first \in Nat \ {0}
  BY DEF GatherState
<1>2. Len(S) \in Nat /\ n - 1 \in 0..Len(S) /\ n \in Nat \ {0} /\ n + 1 \in Nat \ {0}
  BY SectionOffsets
<1>3. built \in X
  BY <1>1, <1>2, MergedChunkType
<1>4. pieces \in X
  BY FallbackStretch DEF Stretch
<1>5. TakeSection(acc, S, n, text) \in {acc, [chunks |-> closed \o pieces, first |-> n + 1],
                                       [chunks |-> closed, first |-> n]}
  BY DEF TakeSection
<1> HIDE DEF built, pieces
<1>6. closed \in X /\ closed \o pieces \in X
  BY <1>1, <1>3, <1>4, ConcatProperties
<1> HIDE DEF closed
<1>7. /\ [chunks |-> closed \o pieces, first |-> n + 1] \in GatherState(U, text)
      /\ [chunks |-> closed, first |-> n] \in GatherState(U, text)
  BY <1>2, <1>6 DEF GatherState
<1> QED
  BY <1>5, <1>7

\* The loop takes section after section.
LEMMA GatheringSteps ==
    ASSUME NEW U, NEW text \in Seq(U), NEW S, SectionsOf(S, text)
    PROVE  /\ Gathering(S, text)[0] = [chunks |-> <<>>, first |-> 1]
           /\ \A n \in 1..Len(S) : Gathering(S, text)[n] = TakeSection(Gathering(S, text)[n - 1], S, n, text)
<1> DEFINE N == Len(S)
           X == GatherState(U, text)
           none == [chunks |-> <<>>, first |-> 1]
           Body(g) == [n \in 0..N |-> IF n = 0 THEN [chunks |-> <<>>, first |-> 1]
                                      ELSE TakeSection(g[n - 1], S, n, text)]
           step == [a \in (1..N) \X X |-> TakeSection(a[2], S, a[1], text)]
<1>1. N \in Nat
  BY SectionOffsets
<1>2. none \in X
  BY EmptySeq DEF GatherState
<1>3. step \in [(1..N) \X X -> X]
  <2>1. ASSUME NEW a \in (1..N) \X X PROVE TakeSection(a[2], S, a[1], text) \in X
    <3>1. a[1] \in 1..N /\ a[2] \in X
      OBVIOUS
    <3> QED
      BY <1>1, <3>1, TakeSectionType
  <2> QED
    BY <2>1
<1>4. \A n \in 1..N, x \in X : step[<<n, x>>] = TakeSection(x, S, n, text)
  OBVIOUS
<1>5. PICK g : Computation(g, X, none, step, N)
  <2> HIDE DEF step, N, X, none
  <2> QED
    BY <1>1, <1>2, <1>3, RecursionExists
<1> HIDE DEF step, N, X
<1>6. g = Body(g)
  <2>1. \A n \in 0..N : n = 0 \/ n \in 1..N
    BY <1>1
  <2>2. \A n \in 1..N : n - 1 \in 0..N /\ g[n - 1] \in X
    BY <1>1, <1>5 DEF Computation
  <2>3. \A n \in 0..N : g[n] = Body(g)[n]
    BY <1>4, <1>5, <2>1, <2>2 DEF Computation
  <2> QED
    BY <1>5, <2>3 DEF Computation
<1>7. Gathering(S, text) = CHOOSE h : h = Body(h)
  BY DEF Gathering, N
<1> DEFINE w == Gathering(S, text)
<1>8. w = Body(w)
  <2> HIDE DEF Body
  <2> QED
    BY <1>6, <1>7
<1> HIDE DEF w
<1>9. w[0] = none /\ \A n \in 1..N : w[n] = TakeSection(w[n - 1], S, n, text)
  <2>1. 0 \in 0..N /\ \A n \in 1..N : n \in 0..N /\ n # 0
    BY <1>1
  <2> DEFINE b == Body(w)
  <2>2. b[0] = none /\ \A n \in 1..N : b[n] = TakeSection(w[n - 1], S, n, text)
    BY <2>1
  <2> HIDE DEF b
  <2>3. w = b
    BY <1>8 DEF b
  <2> QED
    BY <2>2, <2>3
<1> QED
  BY <1>9 DEF w, N

\* Where a section begins; after the last, where the text ends.
Begin(S, k, text) == IF k <= Len(S) THEN S[k].start ELSE Len(text)

\* Sections are next to each other.
LEMMA BeginIs ==
    ASSUME NEW U, NEW text \in Seq(U), NEW S, SectionsOf(S, text)
    PROVE  /\ \A k \in 1..Len(S) : Begin(S, k, text) = S[k].start
           /\ \A k \in 1..Len(S) : Begin(S, k + 1, text) = S[k].end
<1>1. Len(S) \in Nat
  BY SectionOffsets
<1>2. ASSUME NEW k \in 1..Len(S) PROVE Begin(S, k + 1, text) = S[k].end
  <2>1. CASE k + 1 <= Len(S)
    <3>1. k + 1 \in 2..Len(S) /\ (k + 1) - 1 = k
      BY <1>1, <2>1
    <3>2. S[(k + 1) - 1].end = S[k + 1].start
      BY <3>1 DEF SectionsOf
    <3> QED
      BY <2>1, <3>1, <3>2 DEF Begin
  <2>2. CASE ~(k + 1 <= Len(S))
    <3>1. k = Len(S)
      BY <1>1, <2>2
    <3> QED
      BY <2>2, <3>1 DEF Begin, SectionsOf
  <2> QED
    BY <2>1, <2>2
<1>3. \A k \in 1..Len(S) : Begin(S, k, text) = S[k].start
  BY <1>1 DEF Begin
<1> QED
  BY <1>2, <1>3

\* What is gathered when n sections were taken: stretches of chunks up to the
\* pending sections, which fit in a chunk together.
GatherInv(acc, S, n, U, text) ==
    /\ acc \in GatherState(U, text)
    /\ acc.first <= n + 1
    /\ Stretch(acc.chunks, 0, Begin(S, acc.first, text), U, text)
    /\ acc.first <= n => S[n].end - S[acc.first].start <= ChunkSize

\* The pending sections are closed.
LEMMA PendingClosed ==
    ASSUME NEW U, NEW text \in Seq(U), NEW S, SectionsOf(S, text), NEW n \in 0..Len(S),
           NEW acc, GatherInv(acc, S, n, U, text)
    PROVE  Stretch(acc.chunks \o BuildMergedChunk(SubSeq(S, acc.first, n), text),
                   0, Begin(S, n + 1, text), U, text)
<1> DEFINE a == acc.first
           C == acc.chunks
           D == BuildMergedChunk(SubSeq(S, a, n), text)
<1>1. /\ a \in Nat \ {0} /\ a <= n + 1 /\ Stretch(C, 0, Begin(S, a, text), U, text)
      /\ a <= n => S[n].end - S[a].start <= ChunkSize
      /\ C \in Seq(ChunksOf(U, text))
  BY DEF GatherInv, GatherState
<1>2. Len(S) \in Nat
  BY SectionOffsets
<1> HIDE DEF a, C
<1>3. CASE a <= n
  <2>1. a \in 1..Len(S) /\ n \in 1..Len(S)
    BY <1>1, <1>2, <1>3
  <2>2. Stretch(D, S[a].start, S[n].end, U, text)
    BY <1>1, <1>3, <2>1, MergedStretch
  <2> HIDE DEF D
  <2>3. Begin(S, a, text) = S[a].start /\ Begin(S, n + 1, text) = S[n].end
    BY <2>1, BeginIs
  <2> DEFINE p == S[a].start
             q == S[n].end
  <2>4. p \in Nat /\ q \in Nat /\ 0 <= p /\ p <= q
    <3>1. a = n \/ S[a].end <= S[n].start
      BY <1>1, <1>3, <2>1 DEF SectionsOf
    <3>2. p \in Nat /\ S[a].end \in Nat /\ p < S[a].end /\ S[n].start \in Nat
          /\ q \in Nat /\ S[n].start < q
      BY <2>1, SectionOffsets
    <3> QED
      BY <3>1, <3>2
  <2>5. Stretch(C, 0, p, U, text) /\ Stretch(D, p, q, U, text)
    BY <1>1, <2>2, <2>3
  <2> HIDE DEF p, q
  <2>6. Stretch(C \o D, 0, q, U, text)
    BY <2>4, <2>5, StretchesJoin
  <2> QED
    BY <2>3, <2>6 DEF q, C, D, a
<1>4. CASE ~(a <= n)
  <2>1. a = n + 1 /\ n < a
    BY <1>1, <1>4
  <2>2. D = <<>>
    BY <1>1, <2>1, MergedChunkType
  <2> HIDE DEF D
  <2>3. C \o D = C
    BY <1>1, <2>2, ConcatEmptySeq
  <2> QED
    BY <1>1, <2>1, <2>3 DEF C, D, a
<1> QED
  BY <1>3, <1>4

\* One more section.
LEMMA TakeSectionKeeps ==
    ASSUME NEW U, NEW text \in Seq(U), NEW S, SectionsOf(S, text), NEW n \in 0..Len(S),
           n + 1 <= Len(S), NEW acc, GatherInv(acc, S, n, U, text)
    PROVE  GatherInv(TakeSection(acc, S, n + 1, text), S, n + 1, U, text)
<1> DEFINE m == n + 1
           s == S[m]
           built == BuildMergedChunk(SubSeq(S, acc.first, m - 1), text)
           closed == acc.chunks \o built
           pieces == Fallback(s, text)
           next == TakeSection(acc, S, m, text)
<1> SUFFICES GatherInv(next, S, m, U, text)
  OBVIOUS
<1>1. Len(S) \in Nat /\ m \in 1..Len(S) /\ m - 1 = n
  BY SectionOffsets
<1>2. next = IF s.end - s.start > ChunkSize
             THEN [chunks |-> closed \o pieces, first |-> m + 1]
             ELSE IF acc.first = m \/ s.end - S[acc.first].start <= ChunkSize
             THEN acc
             ELSE [chunks |-> closed, first |-> m]
  BY DEF TakeSection
<1>3. next \in GatherState(U, text)
  <2>1. acc \in GatherState(U, text)
    BY DEF GatherInv
  <2> QED
    BY <1>1, <2>1, TakeSectionType
<1>4. /\ acc \in GatherState(U, text)
      /\ acc.first \in Nat /\ acc.first <= m
      /\ Stretch(acc.chunks, 0, Begin(S, acc.first, text), U, text)
      /\ acc.first <= n => S[n].end - S[acc.first].start <= ChunkSize
  BY DEF GatherInv, GatherState
<1> HIDE DEF next
<1>5. Stretch(closed, 0, s.start, U, text)
  <2>1. Stretch(closed, 0, Begin(S, n + 1, text), U, text)
    BY <1>1, PendingClosed
  <2> HIDE DEF closed
  <2> QED
    BY <1>1, <2>1, BeginIs
<1>6. Begin(S, m, text) = s.start /\ Begin(S, m + 1, text) = s.end
  BY <1>1, BeginIs
<1>7. /\ s.start \in Nat /\ s.end \in Nat /\ s.start < s.end
  BY <1>1, SectionOffsets
<1>8. m \in Nat /\ m <= m + 1 /\ m + 1 <= m + 1 /\ ~(m + 1 <= m)
  BY <1>1
<1>9. CASE s.end - s.start > ChunkSize
  <2>1. Stretch(pieces, s.start, s.end, U, text)
    BY <1>1, FallbackStretch
  <2> DEFINE p == s.start
             q == s.end
  <2>2. p \in Nat /\ q \in Nat /\ 0 <= p /\ p <= q
    BY <1>7
  <2>3. Stretch(closed, 0, p, U, text) /\ Stretch(pieces, p, q, U, text)
    BY <1>5, <2>1
  <2> HIDE DEF p, q, closed, pieces
  <2>4. Stretch(closed \o pieces, 0, q, U, text)
    BY <2>2, <2>3, StretchesJoin
  <2>5. next.first = m + 1 /\ next.chunks = closed \o pieces
    BY <1>2, <1>9
  <2> HIDE DEF m, s
  <2> QED
    BY <1>3, <1>6, <1>8, <2>4, <2>5 DEF GatherInv, q
<1>10. CASE ~(s.end - s.start > ChunkSize)
             /\ (acc.first = m \/ s.end - S[acc.first].start <= ChunkSize)
  <2>1. next = acc
    BY <1>2, <1>10
  <2>2. S[m].end - S[acc.first].start <= ChunkSize
    <3>1. CASE acc.first = m
      <4> DEFINE p == s.start
                 q == s.end
      <4>1. p \in Nat /\ q \in Nat /\ ~(q - p > ChunkSize)
        BY <1>7, <1>10
      <4> HIDE DEF p, q
      <4>2. q - p <= ChunkSize
        BY <4>1, SizesAreNatural
      <4> QED
        BY <3>1, <4>2 DEF p, q
    <3>2. CASE acc.first # m
      BY <1>10, <3>2
    <3> QED
      BY <3>1, <3>2
  <2>3. acc.first <= m + 1
    BY <1>4, <1>8
  <2> HIDE DEF m, s
  <2> QED
    BY <1>4, <2>1, <2>2, <2>3 DEF GatherInv
<1>11. CASE ~(s.end - s.start > ChunkSize)
             /\ ~(acc.first = m \/ s.end - S[acc.first].start <= ChunkSize)
  <2>1. next.first = m /\ next.chunks = closed
    BY <1>2, <1>11
  <2>2. S[m].end - S[m].start <= ChunkSize
    <3> DEFINE p == s.start
               q == s.end
    <3>1. p \in Nat /\ q \in Nat /\ ~(q - p > ChunkSize)
      BY <1>7, <1>11
    <3> HIDE DEF p, q
    <3>2. q - p <= ChunkSize
      BY <3>1, SizesAreNatural
    <3> QED
      BY <3>2 DEF p, q
  <2> HIDE DEF m, closed
  <2> QED
    BY <1>3, <1>5, <1>6, <1>8, <2>1, <2>2 DEF GatherInv
<1> QED
  BY <1>9, <1>10, <1>11

\* The chunks of all of the sections.
LEMMA GatheredIs ==
    ASSUME NEW U, NEW text \in Seq(U), NEW S, SectionsOf(S, text)
    PROVE  Stretch(GatherSections(S, text), 0, Len(text), U, text)
<1> DEFINE w == Gathering(S, text)
           N == Len(S)
           none == [chunks |-> <<>>, first |-> 1]
           T == {n \in Nat : n <= N => GatherInv(w[n], S, n, U, text)}
<1>1. N \in Nat /\ N >= 1 /\ 1 \in 1..N
  BY SectionOffsets
<1>2. w[0] = none /\ \A n \in 1..N : w[n] = TakeSection(w[n - 1], S, n, text)
  BY GatheringSteps
<1> HIDE DEF w, N
<1>3. 0 \in T
  <2>1. none.chunks = <<>> /\ none.first = 1 /\ none \in GatherState(U, text)
    BY EmptySeq DEF GatherState
  <2>2. Begin(S, 1, text) = 0
    <3>1. Begin(S, 1, text) = S[1].start /\ S[1].start = 0
      BY <1>1, BeginIs DEF SectionsOf, N
    <3> QED
      BY <3>1
  <2>3. Stretch(<<>>, 0, 0, U, text)
    BY NoStretch
  <2>4. 1 <= 0 + 1 /\ ~(1 <= 0)
    OBVIOUS
  <2> HIDE DEF none
  <2>5. GatherInv(none, S, 0, U, text)
    BY <2>1, <2>2, <2>3, <2>4 DEF GatherInv
  <2> QED
    BY <1>2, <2>5
<1>4. ASSUME NEW n \in Nat, n \in T PROVE n + 1 \in T
  <2> SUFFICES ASSUME n + 1 <= N PROVE GatherInv(w[n + 1], S, n + 1, U, text)
    OBVIOUS
  <2>1. n \in 0..N /\ n <= N /\ n + 1 \in 1..N /\ (n + 1) - 1 = n
    BY <1>1
  <2>2. GatherInv(w[n], S, n, U, text)
    BY <1>4, <2>1
  <2>3. w[n + 1] = TakeSection(w[n], S, n + 1, text)
    BY <1>2, <2>1
  <2> QED
    BY <2>1, <2>2, <2>3, TakeSectionKeeps DEF N
<1>5. Nat \subseteq T
  <2> HIDE DEF T
  <2> QED
    BY <1>3, <1>4, NatInd
<1>6. GatherInv(w[N], S, N, U, text)
  <2>1. N \in T /\ N <= N
    <3> HIDE DEF T
    <3> QED
      BY <1>1, <1>5
  <2> QED
    BY <2>1
<1> DEFINE last == w[N]
<1>7. GatherSections(S, text) = last.chunks \o BuildMergedChunk(SubSeq(S, last.first, N), text)
  BY DEF GatherSections, w, N
<1>8. Begin(S, N + 1, text) = Len(text)
  <2>1. ~(N + 1 <= N)
    BY <1>1
  <2> QED
    BY <2>1 DEF Begin, N
<1>9. N \in 0..Len(S)
  BY <1>1 DEF N
<1> HIDE DEF last
<1>10. GatherInv(last, S, N, U, text)
  BY <1>6 DEF last
<1>11. Stretch(last.chunks \o BuildMergedChunk(SubSeq(S, last.first, N), text),
               0, Begin(S, N + 1, text), U, text)
  BY <1>9, <1>10, PendingClosed
<1> QED
  BY <1>7, <1>8, <1>11

-----------------------------------------------------------------------------
(***************************************************************************)
(* The chunker of structured text: small chunks join a neighbour.          *)
(***************************************************************************)

\* What MergeSmallChunks does: it joins chunks that it knows to be in order.
JoinSections(text, c, d) == Chunk(text, c.start, d.end, c.headers \o d.headers)

TakeSmall(merged, c, text) ==
    AddChunk(merged, c, ChunkSize, LAMBDA a, b : JoinSections(text, a, b))

FirstSmall(merged, text) ==
    MergeFirst(merged, ChunkSize, LAMBDA a, b : JoinSections(text, a, b))

SmallFolding(chunks, text) ==
    LET after[n \in 0..Len(chunks)] ==
            IF n = 0 THEN <<>> ELSE TakeSmall(after[n - 1], chunks[n], text)
    IN after

\* Small chunks are merged by that fold.
LEMMA MergeSmallChunksIs ==
    ASSUME NEW chunks, NEW text
    PROVE  MergeSmallChunks(chunks, text)
             = FirstSmall(SmallFolding(chunks, text)[Len(chunks)], text)
BY DEF MergeSmallChunks, MergeSmall, SmallFolding, FirstSmall, TakeSmall, JoinSections

\* The two cases of a step of the fold.
LEMMA TakeSmallIs ==
    ASSUME NEW merged, NEW c, NEW text
    PROVE  TakeSmall(merged, c, text) =
             IF merged # <<>> /\ IsSmall(c) /\ Fits(JoinSections(text, Last(merged), c), ChunkSize)
             THEN Append(Front(merged), JoinSections(text, Last(merged), c))
             ELSE Append(merged, c)
BY DEF TakeSmall, AddChunk

\* The two cases of its end.
LEMMA FirstSmallIs ==
    ASSUME NEW merged, NEW text
    PROVE  FirstSmall(merged, text) =
             IF /\ Len(merged) > 1
                /\ IsSmall(merged[1])
                /\ Fits(JoinSections(text, merged[1], merged[2]), ChunkSize)
             THEN <<JoinSections(text, merged[1], merged[2])>> \o SubSeq(merged, 3, Len(merged))
             ELSE merged
BY DEF FirstSmall, MergeFirst

\* Chunks that are in order are joined alike.
LEMMA JoinsAgree ==
    ASSUME NEW U, NEW text \in Seq(U),
           NEW c \in ChunksOf(U, text), NEW d \in ChunksOf(U, text),
           c.start < d.start, c.end < d.end
    PROVE  JoinSections(text, c, d) = JoinSpans(text, c, d)
<1> DEFINE lo == Min({c.start, d.start})
           hi == Max({c.end, d.end})
           headers == c.headers \o d.headers
           j == JoinSpans(text, c, d)
<1>1. j = Chunk(text, lo, hi, headers)
  BY DEF JoinSpans
<1>2. j.start = c.start /\ j.end = d.end
  BY JoinIs
<1> HIDE DEF lo, hi, j, headers
<1>3. j.start = lo /\ j.end = hi
  BY <1>1 DEF Chunk
<1>4. lo = c.start /\ hi = d.end
  BY <1>2, <1>3
<1> QED
  BY <1>1, <1>4 DEF JoinSections, j, headers

\* The last of the merged chunks lies before the chunk that is taken.
LEMMA LastBefore ==
    ASSUME NEW size, NEW U, NEW text \in Seq(U), NEW C \in Seq(ChunksOf(U, text)), Sorted(C),
           NEW n \in 1..Len(C), n + 1 <= Len(C), NEW M, FoldInv(M, C, n, U, text, size)
    PROVE  /\ Last(M) \in ChunksOf(U, text) /\ C[n + 1] \in ChunksOf(U, text)
           /\ Last(M).start < C[n + 1].start /\ Last(M).end < C[n + 1].end
           /\ Last(M).end = C[n].end
<1> DEFINE l == Last(M)
           a == C[n]
           c == C[n + 1]
<1>1. M \in Seq(ChunksOf(U, text)) /\ M # <<>> /\ M[Len(M)].end = a.end /\ M[Len(M)].start <= a.start
  BY DEF FoldInv
<1>2. Len(M) \in 1..Len(M) /\ l = M[Len(M)]
  BY <1>1, Offsets DEF Last
<1>3. l \in ChunksOf(U, text)
  BY <1>1, <1>2, Offsets
<1>4. Len(C) \in Nat /\ n + 1 \in 1..Len(C) /\ n < n + 1
  BY Offsets
<1>5. a \in ChunksOf(U, text) /\ c \in ChunksOf(U, text) /\ a.start < c.start /\ a.end < c.end
  BY <1>4, Offsets DEF Sorted
<1>6. l.start <= a.start /\ l.end = a.end
  BY <1>1, <1>2
<1> HIDE DEF l, a, c
<1> DEFINE x == l.start
           y == a.start
           z == c.start
<1>7. x \in Nat /\ y \in Nat /\ z \in Nat /\ x <= y /\ y < z
  BY <1>3, <1>5, <1>6, ChunkLength
<1>8. x < z
  <2> HIDE DEF x, y, z
  <2> QED
    BY <1>7
<1> QED
  BY <1>3, <1>5, <1>6, <1>8 DEF l, a, c

\* So the merging of sections is that of any chunks.
LEMMA SmallFoldingIs ==
    ASSUME NEW U, NEW text \in Seq(U), NEW C \in Seq(ChunksOf(U, text)),
           Sorted(C), Narrow(C, ChunkSize)
    PROVE  SmallFolding(C, text) = Folding(C, text)
<1> DEFINE N == Len(C)
           w == Folding(C, text)
           Body(g) == [n \in 0..N |-> IF n = 0 THEN <<>> ELSE TakeSmall(g[n - 1], C[n], text)]
<1>1. N \in Nat
  BY Offsets
<1>2. /\ w[0] = <<>>
      /\ \A n \in 1..N : w[n] = TakeChunk(w[n - 1], C[n], text)
      /\ w = [n \in 0..N |-> w[n]]
  BY FoldingSteps
<1>3. \A n \in 1..N : FoldInv(w[n], C, n, U, text, ChunkSize)
  <2>1. ChunkSize \in Nat /\ ChunkSize >= ChunkSize
    BY SizesAreNatural
  <2>2. CASE C # <<>>
    BY <2>1, <2>2, FoldingIs
  <2>3. CASE C = <<>>
    <3>1. 1..N = {}
      BY <2>3, EmptySeq
    <3> QED
      BY <3>1
  <2> QED
    BY <2>2, <2>3
<1>4. SmallFolding(C, text) = CHOOSE h : h = Body(h)
  BY DEF SmallFolding
<1> HIDE DEF w, N
<1>5. ASSUME NEW n \in 1..N PROVE TakeSmall(w[n - 1], C[n], text) = TakeChunk(w[n - 1], C[n], text)
  <2> DEFINE M == w[n - 1]
             c == C[n]
  <2>1. CASE n = 1
    <3>1. M = <<>>
      BY <1>2, <2>1
    <3> HIDE DEF M
    <3> QED
      BY <3>1, TakeSmallIs, TakeChunkIs DEF M
  <2>2. CASE n # 1
    <3> DEFINE m == n - 1
    <3>1. m \in 1..N /\ m + 1 = n /\ m + 1 <= N
      BY <1>1, <2>2
    <3> HIDE DEF m
    <3>2. FoldInv(w[m], C, m, U, text, ChunkSize)
      BY <1>3, <3>1
    <3> DEFINE L == Last(w[m])
    <3>3. /\ L \in ChunksOf(U, text) /\ C[m + 1] \in ChunksOf(U, text)
          /\ L.start < C[m + 1].start /\ L.end < C[m + 1].end
      BY <3>1, <3>2, LastBefore DEF N
    <3> HIDE DEF L
    <3>4. JoinSections(text, L, c) = JoinSpans(text, L, c)
      BY <3>1, <3>3, JoinsAgree
    <3>5. M = w[m]
      BY DEF m
    <3> HIDE DEF M
    <3>6. TakeSmall(M, c, text) = TakeChunk(M, c, text)
      BY <3>4, <3>5, TakeSmallIs, TakeChunkIs DEF L
    <3> QED
      BY <3>6 DEF M
  <2> QED
    BY <2>1, <2>2
<1>6. \A n \in 0..N : n = 0 \/ n \in 1..N
  BY <1>1
<1>7. w = Body(w)
  <2>1. \A n \in 0..N : w[n] = IF n = 0 THEN <<>> ELSE TakeSmall(w[n - 1], C[n], text)
    BY <1>2, <1>5, <1>6
  <2> QED
    BY <1>2, <2>1
<1>8. ASSUME NEW h, h = Body(h) PROVE h = w
  <2> DEFINE T == {n \in Nat : n <= N => h[n] = w[n]}
             b == Body(h)
  <2>1. 0 \in 0..N /\ \A n \in 1..N : n \in 0..N /\ n # 0
    BY <1>1
  <2>2. /\ b[0] = <<>> /\ \A n \in 1..N : b[n] = TakeSmall(h[n - 1], C[n], text)
        /\ b = [n \in 0..N |-> b[n]]
    BY <2>1
  <2> HIDE DEF b
  <2>3. h = b
    BY <1>8 DEF b
  <2>4. h[0] = <<>> /\ (\A n \in 1..N : h[n] = TakeSmall(h[n - 1], C[n], text))
        /\ h = [n \in 0..N |-> h[n]]
    BY <2>2, <2>3
  <2>5. 0 \in T
    BY <1>2, <2>4
  <2>6. ASSUME NEW n \in Nat, n \in T PROVE n + 1 \in T
    <3> SUFFICES ASSUME n + 1 <= N PROVE h[n + 1] = w[n + 1]
      OBVIOUS
    <3>1. n <= N /\ n + 1 \in 1..N /\ (n + 1) - 1 = n
      BY <1>1
    <3>2. h[n] = w[n]
      BY <2>6, <3>1
    <3>3. /\ h[n + 1] = TakeSmall(h[n], C[n + 1], text)
          /\ w[n + 1] = TakeChunk(w[n], C[n + 1], text)
          /\ TakeSmall(w[n], C[n + 1], text) = TakeChunk(w[n], C[n + 1], text)
      BY <1>2, <1>5, <2>4, <3>1
    <3> QED
      BY <3>2, <3>3
  <2>7. Nat \subseteq T
    <3> HIDE DEF T
    <3> QED
      BY <2>5, <2>6, NatInd
  <2>8. \A n \in 0..N : n \in Nat /\ n <= N
    BY <1>1
  <2>9. \A n \in 0..N : h[n] = w[n]
    BY <2>7, <2>8
  <2> QED
    BY <1>2, <2>4, <2>9
<1> HIDE DEF Body
<1>9. SmallFolding(C, text) = w
  BY <1>4, <1>7, <1>8
<1> QED
  BY <1>9 DEF w

\* Headings are numbers of lines that are in no separator.
LEMMA HeadingIs ==
    ASSUME NEW U, NEW text \in Seq(U), NEW h \in Range(Headings(text))
    PROVE  h \in Nat /\ h \in 1..Len(text) /\ ~InSeparator(text, h)
<1> DEFINE H == Headings(text)
<1>1. /\ DOMAIN H = 1..Len(H)
      /\ \A k \in 1..Len(H) : H[k] \in 1..Len(text) /\ text[H[k]] = "head"
  BY HeadingsAre
<1>2. Len(text) \in Nat
  BY LenProperties
<1>3. PICK k \in 1..Len(H) : h = H[k]
  BY <1>1 DEF Range
<1> HIDE DEF H
<1>4. h \in 1..Len(text) /\ text[h] = "head"
  BY <1>1, <1>3
<1> QED
  BY <1>2, <1>4 DEF InSeparator, Blanks, Marks

\* No heading lies between two chunks that are next to each other: it would be
\* in neither, and no other chunk is there.
LEMMA NoHeadingBetween ==
    ASSUME NEW U, NEW text \in Seq(U), NEW C \in Seq(ChunksOf(U, text)), Sorted(C),
           Cover(C, 0, Len(text), text), NEW n \in 1..Len(C), n + 1 \in 1..Len(C),
           NEW h \in Range(Headings(text)), C[n].end < h
    PROVE  C[n + 1].start < h
<1>1. h \in Nat /\ h \in 1..Len(text) /\ ~InSeparator(text, h) /\ h \in (0 + 1)..Len(text)
  BY HeadingIs
<1>2. PICK k \in 1..Len(C) : C[k].start < h /\ h <= C[k].end
  BY <1>1 DEF Cover
<1>3. /\ Len(C) \in Nat
      /\ C[k].start \in Nat /\ C[k].end \in Nat /\ C[n].end \in Nat /\ C[n + 1].start \in Nat
  BY Offsets
<1>4. ~(k <= n)
  <2> SUFFICES ASSUME k <= n PROVE FALSE
    OBVIOUS
  <2>1. k = n \/ C[k].end < C[n].end
    BY DEF Sorted
  <2> QED
    BY <1>1, <1>2, <1>3, <2>1
<1>5. k = n + 1 \/ C[n + 1].start < C[k].start
  <2>1. k = n + 1 \/ n + 1 < k
    BY <1>3, <1>4
  <2> QED
    BY <2>1 DEF Sorted
<1> DEFINE x == C[n + 1].start
           y == C[k].start
<1>6. x \in Nat /\ y \in Nat /\ y < h /\ (x = y \/ x < y)
  BY <1>2, <1>3, <1>5
<1> HIDE DEF x, y
<1>7. x < h
  BY <1>1, <1>6
<1> QED
  BY <1>7 DEF x

\* A join lists the headings of both, and those are all that lie in it.
LEMMA JoinLists ==
    ASSUME NEW U, NEW text \in Seq(U),
           NEW c \in ChunksOf(U, text), NEW d \in ChunksOf(U, text),
           c.start < d.start, c.end < d.end, Lists(c, text), Lists(d, text),
           \A h \in Range(Headings(text)) : c.end < h => d.start < h
    PROVE  Lists(JoinSpans(text, c, d), text)
<1> DEFINE j == JoinSpans(text, c, d)
<1>1. j.start = c.start /\ j.end = d.end
  BY JoinIs
<1>2. j.headers = c.headers \o d.headers
  BY DEF JoinSpans, Chunk
<1> HIDE DEF j
<1>3. c.headers \in Seq(Nat) /\ d.headers \in Seq(Nat) /\ c.end \in Nat
  BY ChunkLength
<1>4. Range(j.headers) = Range(c.headers) \cup Range(d.headers)
  <2> DEFINE s == c.headers
             t == d.headers
             A == Nat \X Nat
  <2>1. s \in Seq(Nat) /\ t \in Seq(Nat)
    BY <1>3
  <2> HIDE DEF s, t, A
  <2>2. /\ s \o t \in Seq(Nat)
        /\ ToSet(s \o t) = ToSet(s) \cup ToSet(t)
        /\ Chain(s, A) /\ Chain(t, A) /\ Across(s, t, A) => Chain(s \o t, A)
    BY <2>1, ConcatChain
  <2>3. ToSet(j.headers) = ToSet(c.headers) \cup ToSet(d.headers)
    BY <1>2, <2>2 DEF s, t
  <2> QED
    BY <2>3 DEF ToSet, Range
<1>5. ASSUME NEW h \in Range(Headings(text)), j.start < h, h <= j.end
      PROVE  (h - 1) \in Range(j.headers)
  <2>1. h \in Nat
    BY HeadingIs
  <2>2. CASE h <= c.end
    <3>1. (h - 1) \in Range(c.headers)
      BY <1>1, <1>5, <2>2 DEF Lists
    <3> QED
      BY <1>4, <3>1
  <2>3. CASE ~(h <= c.end)
    <3>1. c.end < h
      BY <1>3, <2>1, <2>3
    <3>2. (h - 1) \in Range(d.headers)
      BY <1>1, <1>5, <3>1 DEF Lists
    <3> QED
      BY <1>4, <3>2
  <2> QED
    BY <2>2, <2>3
<1> QED
  BY <1>5 DEF Lists, j

\* A chunk that is added, or is the last one now, lists its headings.
LEMMA StillHeaded ==
    ASSUME NEW X, NEW text, NEW M \in Seq(X), Headed(M, text), NEW x \in X, Lists(x, text)
    PROVE  /\ Headed(Append(M, x), text)
           /\ M # <<>> => Headed(Append(Front(M), x), text)
<1>1. Headed(Append(M, x), text)
  <2> DEFINE t == Append(M, x)
             n == Len(M)
  <2>1. n \in Nat /\ Len(t) = n + 1 /\ t[n + 1] = x /\ \A k \in 1..n : t[k] = M[k]
    BY AppendProperties
  <2>2. \A k \in 1..(n + 1) : k \in 1..n \/ k = n + 1
    BY <2>1
  <2> HIDE DEF t
  <2>3. Headed(t, text)
    BY <2>1, <2>2 DEF Headed
  <2> QED
    BY <2>3 DEF t
<1>2. ASSUME M # <<>> PROVE Headed(Append(Front(M), x), text)
  <2> DEFINE t == Append(Front(M), x)
             n == Len(M)
  <2>1. Len(t) = n /\ t[n] = x /\ \A k \in 1..(n - 1) : t[k] = M[k]
    BY <1>2, OtherLast
  <2>2. n \in Nat
    BY LenProperties
  <2>3. \A k \in 1..n : (k \in 1..(n - 1) /\ k \in 1..n) \/ k = n
    BY <2>2
  <2> HIDE DEF t
  <2>4. Headed(t, text)
    BY <2>1, <2>3 DEF Headed
  <2> QED
    BY <2>4 DEF t
<1> QED
  BY <1>1, <1>2

\* The loop keeps the headings.
LEMMA FoldingHeaded ==
    ASSUME NEW U, NEW text \in Seq(U), NEW C \in Seq(ChunksOf(U, text)),
           Sorted(C), Narrow(C, ChunkSize), Cover(C, 0, Len(text), text), Headed(C, text)
    PROVE  Headed(Folding(C, text)[Len(C)], text)
<1> DEFINE N == Len(C)
           w == Folding(C, text)
           T == {n \in Nat : n <= N => Headed(w[n], text)}
<1>1. N \in Nat
  BY Offsets
<1>2. /\ w[0] = <<>>
      /\ \A n \in 1..N : w[n] = TakeChunk(w[n - 1], C[n], text)
  BY FoldingSteps
<1>3. \A n \in 1..N : FoldInv(w[n], C, n, U, text, ChunkSize)
  <2>1. ChunkSize \in Nat /\ ChunkSize >= ChunkSize
    BY SizesAreNatural
  <2>2. CASE C # <<>>
    BY <2>1, <2>2, FoldingIs
  <2>3. CASE C = <<>>
    <3>1. 1..N = {}
      BY <2>3, EmptySeq
    <3> QED
      BY <3>1
  <2> QED
    BY <2>2, <2>3
<1>4. \A n \in 1..N : C[n] \in ChunksOf(U, text) /\ Lists(C[n], text)
  BY Offsets DEF Headed
<1> HIDE DEF w, N
<1>5. 0 \in T
  <2>1. Len(w[0]) = 0 /\ 1..0 = {}
    BY <1>2
  <2> QED
    BY <2>1 DEF Headed
<1>6. ASSUME NEW n \in Nat, n \in T PROVE n + 1 \in T
  <2> SUFFICES ASSUME n + 1 <= N PROVE Headed(w[n + 1], text)
    OBVIOUS
  <2> DEFINE M == w[n]
             c == C[n + 1]
             j == JoinSpans(text, Last(M), c)
  <2>1. n <= N /\ n + 1 \in 1..N /\ (n + 1) - 1 = n
    BY <1>1
  <2>2. Headed(M, text)
    BY <1>6, <2>1
  <2>3. w[n + 1] = TakeChunk(M, c, text)
    BY <1>2, <2>1
  <2>4. c \in ChunksOf(U, text) /\ Lists(c, text)
    BY <1>4, <2>1
  <2>5. M \in Seq(ChunksOf(U, text)) /\ (M = <<>> \/ n \in 1..N)
    <3>1. CASE n = 0
      BY <1>2, <3>1, EmptySeq
    <3>2. CASE n # 0
      <4>1. n \in 1..N
        BY <2>1, <3>2
      <4>2. FoldInv(w[n], C, n, U, text, ChunkSize)
        BY <1>3, <4>1
      <4> QED
        BY <4>1, <4>2 DEF FoldInv
    <3> QED
      BY <3>1, <3>2
  <2>6. CASE M # <<>> /\ IsSmall(c) /\ Fits(j, ChunkSize)
    <3>1. w[n + 1] = Append(Front(M), j)
      BY <2>3, <2>6, TakeChunkIs
    <3>2. n \in 1..N /\ FoldInv(M, C, n, U, text, ChunkSize)
      BY <1>3, <2>5, <2>6
    <3> DEFINE l == Last(M)
    <3>3. /\ l \in ChunksOf(U, text) /\ l.start < c.start /\ l.end < c.end
          /\ l.end = C[n].end
      <4> HIDE DEF M
      <4> QED
        BY <2>1, <3>2, LastBefore DEF N
    <3>4. Lists(l, text)
      <4>1. Len(M) \in 1..Len(M)
        BY <2>5, <2>6, Offsets
      <4> QED
        BY <2>2, <4>1 DEF Headed, Last
    <3>5. ASSUME NEW h \in Range(Headings(text)), l.end < h PROVE c.start < h
      <4>1. C[n].end < h
        BY <3>3, <3>5
      <4> QED
        BY <2>1, <3>2, <4>1, NoHeadingBetween DEF N
    <3> HIDE DEF l, c, M
    <3>6. Lists(j, text)
      BY <2>4, <3>3, <3>4, <3>5, JoinLists DEF l
    <3>7. j \in ChunksOf(U, text)
      BY <2>4, <3>3, JoinIs DEF l
    <3> HIDE DEF j
    <3> QED
      BY <2>2, <2>5, <2>6, <3>1, <3>6, <3>7, StillHeaded
  <2>7. CASE ~(M # <<>> /\ IsSmall(c) /\ Fits(j, ChunkSize))
    <3>1. w[n + 1] = Append(M, c)
      BY <2>3, <2>7, TakeChunkIs
    <3> HIDE DEF M, c
    <3> QED
      BY <2>2, <2>4, <2>5, <3>1, StillHeaded
  <2> QED
    BY <2>6, <2>7
<1>7. Nat \subseteq T
  <2> HIDE DEF T
  <2> QED
    BY <1>5, <1>6, NatInd
<1>8. Headed(w[N], text)
  <2>1. N \in T /\ N <= N
    <3> HIDE DEF T
    <3> QED
      BY <1>1, <1>7
  <2> QED
    BY <2>1
<1> QED
  BY <1>8 DEF w, N

\* What is left of the chunks of sections when small ones joined a neighbour.
LEMMA SectionsMerged ==
    ASSUME NEW U, NEW text \in Seq(U), NEW C \in Seq(ChunksOf(U, text)),
           Sorted(C), Narrow(C, ChunkSize), Cover(C, 0, Len(text), text), Headed(C, text)
    PROVE  LET D == MergeSmallChunks(C, text)
           IN D = MergeUndersized(C, text, ChunkSize) /\ Headed(D, text)
<1> DEFINE M == Folding(C, text)[Len(C)]
           D == MergeSmallChunks(C, text)
           E == MergeUndersized(C, text, ChunkSize)
           c == M[1]
           d == M[2]
           j == JoinSpans(text, c, d)
           t == <<j>> \o SubSeq(M, 3, Len(M))
           small == Len(M) > 1 /\ IsSmall(c) /\ Fits(j, ChunkSize)
<1>1. D = FirstSmall(M, text)
  BY SmallFoldingIs, MergeSmallChunksIs
<1>2. E = FirstMerged(M, text)
  BY MergeUndersizedIs
<1>3. Headed(M, text)
  BY FoldingHeaded
<1>4. /\ M \in Seq(ChunksOf(U, text)) /\ Sorted(M)
      /\ \A k \in 1..Len(C) : HeldBy(C[k], M)
  <2>1. CASE C # <<>>
    <3>1. Len(C) \in 1..Len(C) /\ ChunkSize \in Nat /\ ChunkSize >= ChunkSize
      BY <2>1, Offsets, SizesAreNatural
    <3>2. FoldInv(M, C, Len(C), U, text, ChunkSize)
      BY <2>1, <3>1, FoldingIs
    <3> HIDE DEF M
    <3> QED
      BY <3>2 DEF FoldInv
  <2>2. CASE C = <<>>
    <3>1. Len(C) = 0 /\ 1..Len(C) = {}
      BY <2>2
    <3>2. M = <<>>
      BY <3>1, FoldingSteps
    <3> HIDE DEF M
    <3> QED
      BY <3>1, <3>2, NoneIsSorted
  <2> QED
    BY <2>1, <2>2
<1> HIDE DEF D, E, M
<1>5. E = IF small THEN t ELSE M
  BY <1>2, FirstMergedIs
<1>6. CASE Len(M) > 1
  <2>1. 1 \in 1..Len(M) /\ 2 \in 1..Len(M) /\ 1 < 2
    BY <1>4, <1>6, LenProperties
  <2>2. /\ c \in ChunksOf(U, text) /\ d \in ChunksOf(U, text)
        /\ c.start < d.start /\ c.end < d.end /\ Lists(c, text) /\ Lists(d, text)
    BY <1>3, <1>4, <2>1, Offsets DEF Sorted, Headed
  <2>3. JoinSections(text, c, d) = j
    BY <2>2, JoinsAgree
  <2>4. D = E
    BY <1>1, <1>5, <2>3, FirstSmallIs
  <2>5. Cover(M, 0, Len(text), text)
    <3>1. ASSUME NEW i \in (0 + 1)..Len(text), ~InSeparator(text, i)
          PROVE  \E k \in 1..Len(M) : M[k].start < i /\ i <= M[k].end
      <4>1. PICK k \in 1..Len(C) : C[k].start < i /\ i <= C[k].end
        BY <3>1 DEF Cover
      <4>2. i \in Nat
        BY <3>1, LenProperties
      <4>3. /\ C[k].start \in Nat /\ C[k].end \in Nat
            /\ \A l \in 1..Len(M) : M[l].start \in Nat /\ M[l].end \in Nat
        BY <1>4, Offsets
      <4>4. HeldBy(C[k], M)
        BY <1>4
      <4> QED
        BY <4>1, <4>2, <4>3, <4>4, StillHeld
    <3> QED
      BY <3>1 DEF Cover
  <2>6. ASSUME NEW h \in Range(Headings(text)), c.end < h PROVE d.start < h
    <3>1. 1 + 1 = 2
      OBVIOUS
    <3>2. 1 \in 1..Len(M) /\ 1 + 1 \in 1..Len(M)
      BY <2>1
    <3>3. M[1 + 1].start < h
      BY <1>4, <2>5, <2>6, <3>2, NoHeadingBetween
    <3> QED
      BY <3>1, <3>3
  <2>7. Lists(j, text)
    <3> HIDE DEF c, d
    <3> QED
      BY <2>2, <2>6, JoinLists
  <2>8. j \in ChunksOf(U, text)
    <3> HIDE DEF c, d
    <3> QED
      BY <2>2, JoinIs
  <2>9. Headed(t, text)
    <3> DEFINE n == Len(M)
    <3>1. n \in Nat /\ n >= 2
      BY <1>4, <1>6, LenProperties
    <3>2. Len(t) = n - 1 /\ t[1] = j /\ \A k \in 2..(n - 1) : t[k] = M[k + 1]
      <4> HIDE DEF j
      <4> QED
        BY <1>4, <1>6, <2>8, FirstTwo
    <3> HIDE DEF t, j, n
    <3>3. ASSUME NEW k \in 1..(n - 1) PROVE Lists(t[k], text)
      <4>1. CASE k = 1
        BY <2>7, <3>2, <4>1
      <4>2. CASE k # 1
        <5>1. k \in 2..(n - 1) /\ k + 1 \in 1..n
          BY <3>1, <4>2
        <5>2. Lists(M[k + 1], text)
          BY <1>3, <5>1 DEF Headed, n
        <5> QED
          BY <3>2, <5>1, <5>2
      <4> QED
        BY <4>1, <4>2
    <3> QED
      BY <3>2, <3>3 DEF Headed
  <2>10. Headed(E, text)
    BY <1>3, <1>5, <2>9
  <2> QED
    BY <2>4, <2>10 DEF D, E
<1>7. CASE ~(Len(M) > 1)
  <2>1. D = M /\ E = M
    BY <1>1, <1>5, <1>7, FirstSmallIs
  <2> QED
    BY <1>3, <2>1 DEF D, E
<1> QED
  BY <1>6, <1>7

\* What the chunker of structured text returns for a text that is not blank.
LEMMA StructureChunkIs ==
    ASSUME NEW U, NEW text \in Seq(U), ~IsBlank(text)
    PROVE  LET D == StructureChunk(text)
           IN /\ D \in Seq(ChunksOf(U, text)) /\ Sorted(D) /\ Narrow(D, ChunkSize) /\ NoRoom(D)
              /\ Len(D) > 1 /\ IsSmall(D[1]) => D[2].end - D[1].start > ChunkSize
              /\ \A i \in 1..Len(text) :
                    ~InSeparator(text, i)
                      => \E k \in 1..Len(D) : D[k].start < i /\ i <= D[k].end
              /\ Headed(D, text)
<1> DEFINE S == ParseSections(text)
           C == GatherSections(S, text)
           D == MergeUndersized(C, text, ChunkSize)
<1>1. /\ Len(text) \in Nat /\ DOMAIN text = 1..Len(text)
      /\ \E i \in 1..Len(text) : text[i] \notin Blanks
  BY LenProperties DEF IsBlank
<1>2. SectionsOf(S, text)
  <2>1. Len(text) > 0
    BY <1>1
  <2> QED
    BY <2>1, SectionsAre
<1> HIDE DEF S
<1>3. Stretch(C, 0, Len(text), U, text)
  BY <1>2, GatheredIs
<1> HIDE DEF C
<1>4. /\ C \in Seq(ChunksOf(U, text)) /\ Sorted(C) /\ Narrow(C, ChunkSize)
      /\ Cover(C, 0, Len(text), text) /\ Headed(C, text)
  BY <1>3 DEF Stretch
<1>5. \A i \in 1..Len(text) : i \in (0 + 1)..Len(text)
  OBVIOUS
<1>6. StructureChunk(text) = MergeSmallChunks(C, text)
  BY DEF StructureChunk, C, S
<1>7. MergeSmallChunks(C, text) = D /\ Headed(D, text)
  BY <1>4, SectionsMerged
<1>8. /\ D \in Seq(ChunksOf(U, text)) /\ Sorted(D) /\ Narrow(D, ChunkSize) /\ NoRoom(D)
      /\ \A k \in 1..Len(C) : HeldBy(C[k], D)
      /\ Len(D) > 1 /\ IsSmall(D[1]) => D[2].end - D[1].start > ChunkSize
  <2>1. ChunkSize \in Nat /\ ChunkSize >= ChunkSize
    BY SizesAreNatural
  <2> QED
    BY <1>4, <2>1, UndersizedMerged
<1> HIDE DEF D
<1>9. ASSUME NEW i \in 1..Len(text), ~InSeparator(text, i)
       PROVE  \E k \in 1..Len(D) : D[k].start < i /\ i <= D[k].end
  <2>1. PICK k \in 1..Len(C) : C[k].start < i /\ i <= C[k].end
    BY <1>4, <1>5, <1>9 DEF Cover
  <2>2. HeldBy(C[k], D)
    BY <1>8
  <2>3. /\ C[k].start \in Nat /\ C[k].end \in Nat
        /\ \A l \in 1..Len(D) : D[l].start \in Nat /\ D[l].end \in Nat
    BY <1>4, <1>8, Offsets
  <2>4. i \in Nat /\ C[k].start < i /\ i <= C[k].end
    BY <2>1
  <2> QED
    BY <2>2, <2>3, <2>4, StillHeld
<1> QED
  BY <1>6, <1>7, <1>8, <1>9

-----------------------------------------------------------------------------
(***************************************************************************)
(* The chunker of sentences: its sentences.                                *)
(***************************************************************************)

\* A set of places of a sequence, in order.
LEMMA PlacesInOrder ==
    ASSUME NEW n \in Nat, NEW S, S \subseteq 1..n
    PROVE  LET o == InOrder(S)
           IN /\ Len(o) \in Nat /\ DOMAIN o = 1..Len(o)
              /\ \A k \in 1..Len(o) : o[k] \in S /\ o[k] \in 1..n
              /\ \A i \in S : \E k \in 1..Len(o) : o[k] = i
              /\ \A k, l \in 1..Len(o) : k < l => o[k] < o[l]
<1> DEFINE o == InOrder(S)
<1>1. S \in SUBSET Nat /\ IsFiniteSet(S)
  <2>1. IsFiniteSet(1..n) /\ 1..n \subseteq Nat
    BY FS_Interval
  <2> DEFINE T == 1..n
  <2> HIDE DEF T
  <2>2. IsFiniteSet(S)
    BY <2>1, FS_Subset DEF T
  <2> QED
    BY <2>1, <2>2 DEF T
<1>2. /\ o \in Seq(S) /\ Len(o) \in Nat
      /\ \A i \in S : \E k \in 1..Len(o) : o[k] = i
      /\ \A k, l \in 1..Len(o) : k < l => o[k] < o[l]
  <2>1. /\ Cardinality(S) \in Nat
        /\ o \in Seq(S) /\ Len(o) = Cardinality(S)
        /\ \A i \in S : \E k \in 1..Len(o) : o[k] = i
        /\ \A k, l \in 1..Len(o) : k < l => o[k] < o[l]
    BY <1>1, InOrderProperties
  <2> HIDE DEF o
  <2> QED
    BY <2>1
<1> HIDE DEF o
<1>3. DOMAIN o = 1..Len(o) /\ \A k \in 1..Len(o) : o[k] \in S
  BY <1>2, LenProperties, ElementOfSeq
<1> QED
  BY <1>2, <1>3 DEF o

\* The sentences of a text: they lie in it, in order, and a unit that is not
\* blank is in one of them.
SentencesOf(S, text) ==
    /\ S \in Seq(SpansIn(0, Len(text))) /\ Len(S) >= 1
    /\ \A k \in 1..Len(S) : S[k][1] < S[k][2]
    /\ \A j, k \in 1..Len(S) : j < k => S[j][2] <= S[k][1]
    /\ \A i \in 1..Len(text) : text[i] \notin Blanks => \E k \in 1..Len(S) : In(i, S[k])

\* A sentence runs from its first token to the last one before the next.
LEMMA SentencesAre ==
    ASSUME NEW U, NEW text \in Seq(U), Len(text) > 0
    PROVE  SentencesOf(Sentences(text), text)
<1> DEFINE N == Len(text)
           T == {i \in DOMAIN text : ~(/\ text[i] = "blank"
                                       /\ i > 1
                                       /\ text[i - 1] \notin Blanks)}
           tokens == InOrder(T)
           m == Len(tokens)
           F == {k \in DOMAIN tokens : k = 1 \/ (/\ text[tokens[k - 1]] \in Marks
                                                 /\ text[tokens[k]] \notin Marks)}
           firsts == InOrder(F)
           n == Len(firsts)
           EndOf(k) == IF k < Len(firsts) THEN tokens[firsts[k + 1] - 1] ELSE Last(tokens)
           S == [k \in DOMAIN firsts |-> <<tokens[firsts[k]] - 1, EndOf(k)>>]
<1>1. Sentences(text) = S
  BY DEF Sentences, Where
<1>2. N \in Nat /\ DOMAIN text = 1..N /\ 1 \in 1..N
  BY LenProperties
<1>3. T \subseteq 1..N /\ 1 \in T /\ \A i \in 1..N : text[i] \notin Blanks => i \in T
  BY <1>2 DEF Blanks
<1> HIDE DEF T, N
<1>4. /\ m \in Nat /\ DOMAIN tokens = 1..m
      /\ \A k \in 1..m : tokens[k] \in T /\ tokens[k] \in 1..N
      /\ \A i \in T : \E k \in 1..m : tokens[k] = i
      /\ \A k, l \in 1..m : k < l => tokens[k] < tokens[l]
  BY <1>2, <1>3, PlacesInOrder
<1> HIDE DEF tokens
<1>5. m >= 1 /\ 1 \in 1..m /\ Last(tokens) = tokens[m] /\ m \in 1..m
  <2>1. PICK k \in 1..m : tokens[k] = 1
    BY <1>3, <1>4
  <2> QED
    BY <1>4, <2>1 DEF Last
<1>6. \A k \in 1..m : tokens[k] \in Nat /\ tokens[k] >= 1 /\ tokens[k] <= N
  BY <1>2, <1>4
<1>7. \A k, l \in 1..m : k <= l => tokens[k] <= tokens[l]
  <2>1. ASSUME NEW k \in 1..m, NEW l \in 1..m, k <= l PROVE tokens[k] <= tokens[l]
    <3>1. k = l \/ k < l
      BY <1>4, <2>1
    <3>2. k = l \/ tokens[k] < tokens[l]
      BY <1>4, <3>1
    <3> QED
      BY <1>6, <3>2
  <2> QED
    BY <2>1
<1> HIDE DEF m
<1>8. F \subseteq 1..m /\ 1 \in F
  BY <1>4, <1>5
<1> HIDE DEF F
<1>9. /\ n \in Nat /\ DOMAIN firsts = 1..n
      /\ \A k \in 1..n : firsts[k] \in 1..m
      /\ \A i \in F : \E k \in 1..n : firsts[k] = i
      /\ \A k, l \in 1..n : k < l => firsts[k] < firsts[l]
  BY <1>4, <1>8, PlacesInOrder
<1> HIDE DEF firsts
<1> DEFINE last(k) == IF k < n THEN firsts[k + 1] - 1 ELSE m
<1>10. ASSUME NEW k \in 1..n
       PROVE  last(k) \in 1..m /\ firsts[k] <= last(k) /\ EndOf(k) = tokens[last(k)]
  <2>1. CASE k < n
    <3>1. k + 1 \in 1..n /\ k < k + 1
      BY <1>9, <2>1
    <3>2. firsts[k] < firsts[k + 1] /\ firsts[k] \in 1..m /\ firsts[k + 1] \in 1..m
      BY <1>9, <3>1
    <3>3. last(k) = firsts[k + 1] - 1 /\ EndOf(k) = tokens[firsts[k + 1] - 1]
      BY <2>1
    <3> DEFINE a == firsts[k]
               b == firsts[k + 1]
    <3>4. a \in 1..m /\ b \in 1..m /\ a < b
      BY <3>2
    <3> HIDE DEF a, b
    <3>5. b - 1 \in 1..m /\ a <= b - 1
      BY <1>4, <3>4
    <3> HIDE DEF last, EndOf
    <3> QED
      BY <3>3, <3>5 DEF a, b
  <2>2. CASE ~(k < n)
    BY <1>4, <1>5, <1>9, <2>2
  <2> QED
    BY <2>1, <2>2
<1>11. ASSUME NEW j \in 1..n, NEW k \in 1..n, j < k PROVE last(j) < firsts[k]
  <2>1. j < n /\ j + 1 \in 1..n
    BY <1>9, <1>11
  <2>2. j + 1 = k \/ j + 1 < k
    BY <1>9, <1>11
  <2>3. firsts[j + 1] \in 1..m /\ firsts[k] \in 1..m /\ (j + 1 = k \/ firsts[j + 1] < firsts[k])
    BY <1>9, <2>1, <2>2
  <2> DEFINE a == firsts[j + 1]
             b == firsts[k]
  <2>4. a \in 1..m /\ b \in 1..m /\ (a = b \/ a < b)
    BY <2>3
  <2>5. last(j) = a - 1
    BY <2>1
  <2> HIDE DEF a, b, last
  <2>6. a - 1 < b
    BY <1>4, <2>4
  <2> QED
    BY <2>5, <2>6 DEF b
<1> HIDE DEF EndOf
<1>12. ASSUME NEW q \in 1..m PROVE \E k \in 1..n : firsts[k] <= q /\ q <= last(k)
  <2> DEFINE B == {k \in 1..n : firsts[k] <= q}
             k == Max(B)
  <2>1. PICK one \in 1..n : firsts[one] = 1
    BY <1>8, <1>9
  <2>2. one \in B
    BY <1>4, <2>1
  <2>3. B \subseteq 0..n
    BY <1>9
  <2> HIDE DEF B
  <2>4. k \in B /\ \A l \in B : l <= k
    BY <1>9, <2>2, <2>3, MaxOfBounded
  <2> HIDE DEF k
  <2>5. k \in 1..n /\ firsts[k] <= q
    BY <2>4 DEF B
  <2>6. CASE k < n
    <3>1. k + 1 \in 1..n /\ ~(k + 1 <= k)
      BY <1>9, <2>6, <2>5
    <3>2. k + 1 \notin B
      BY <2>4, <3>1
    <3>3. ~(firsts[k + 1] <= q) /\ firsts[k + 1] \in 1..m
      BY <1>9, <3>1, <3>2 DEF B
    <3>4. q <= firsts[k + 1] - 1
      BY <1>4, <3>3
    <3> QED
      BY <2>5, <2>6, <3>4
  <2>7. CASE ~(k < n)
    <3>1. q <= m
      BY <1>4
    <3> QED
      BY <2>5, <2>7, <3>1
  <2> QED
    BY <2>6, <2>7
<1> HIDE DEF last
<1>13. ASSUME NEW k \in 1..n
       PROVE  /\ S[k] \in SpansIn(0, N) /\ S[k] = <<tokens[firsts[k]] - 1, tokens[last(k)]>>
              /\ S[k][1] = tokens[firsts[k]] - 1 /\ S[k][2] = tokens[last(k)]
              /\ S[k][1] < S[k][2]
  <2>1. firsts[k] \in 1..m /\ last(k) \in 1..m
    BY <1>9, <1>10
  <2>2. S[k] = <<tokens[firsts[k]] - 1, tokens[last(k)]>>
    BY <1>9, <1>10
  <2> DEFINE a == tokens[firsts[k]]
             b == tokens[last(k)]
  <2>3. a \in Nat /\ b \in Nat /\ a >= 1 /\ a <= b /\ b <= N
    BY <1>6, <1>7, <1>10, <2>1
  <2> HIDE DEF a, b, S
  <2>4. a - 1 \in Nat /\ a - 1 < b /\ a - 1 <= b /\ 0 <= a - 1
    BY <2>3
  <2>5. S[k][1] = a - 1 /\ S[k][2] = b
    BY <2>2 DEF a, b
  <2>6. S[k] \in SpansIn(0, N)
    BY <2>2, <2>3, <2>4, <2>5 DEF SpansIn, Spans, a, b
  <2> QED
    BY <2>2, <2>4, <2>5, <2>6 DEF a, b
<1>14. S \in Seq(SpansIn(0, N)) /\ Len(S) = n
  <2>1. S \in [1..n -> SpansIn(0, N)]
    BY <1>9, <1>13
  <2> HIDE DEF S
  <2> QED
    BY <1>9, <2>1
<1> HIDE DEF S
<1>15. n >= 1
  BY <1>8, <1>9
<1>16. ASSUME NEW j \in 1..n, NEW k \in 1..n, j < k PROVE S[j][2] <= S[k][1]
  <2>1. last(j) \in 1..m /\ firsts[k] \in 1..m /\ last(j) < firsts[k]
    BY <1>9, <1>10, <1>11, <1>16
  <2> DEFINE a == tokens[last(j)]
             b == tokens[firsts[k]]
  <2>2. a \in Nat /\ b \in Nat /\ a < b
    BY <1>4, <1>6, <2>1
  <2> HIDE DEF a, b
  <2>3. a <= b - 1
    BY <2>2
  <2> QED
    BY <1>13, <2>3 DEF a, b
<1>17. ASSUME NEW i \in 1..N, text[i] \notin Blanks PROVE \E k \in 1..n : In(i, S[k])
  <2>1. PICK q \in 1..m : tokens[q] = i
    BY <1>3, <1>4, <1>17
  <2>2. PICK k \in 1..n : firsts[k] <= q /\ q <= last(k)
    BY <1>12
  <2> DEFINE a == tokens[firsts[k]]
             b == tokens[last(k)]
  <2>3. a \in Nat /\ b \in Nat /\ i \in Nat /\ a <= i /\ i <= b
    BY <1>6, <1>7, <1>9, <1>10, <2>1, <2>2
  <2> HIDE DEF a, b
  <2>4. a - 1 < i
    BY <2>3
  <2> QED
    BY <1>13, <2>3, <2>4 DEF In, a, b
<1>18. SentencesOf(S, text)
  <2>1. \A k \in 1..n : S[k][1] < S[k][2]
    BY <1>13
  <2> QED
    BY <1>14, <1>15, <1>16, <1>17, <2>1 DEF SentencesOf, N
<1> QED
  BY <1>1, <1>18 DEF S, n, EndOf

-----------------------------------------------------------------------------
(***************************************************************************)
(* The chunker of sentences: sentences are gathered.                       *)
(***************************************************************************)

\* A part of the text, and what the loop has in hand.
PartsOf(text) == {Chunk(text, s, e, <<>>) : s, e \in Nat}

BuildState(text) == [chunks : Seq(PartsOf(text)), start : Nat, end : Nat, count : Nat]

\* A step of the fold keeps its state.
LEMMA TakeSentenceType ==
    ASSUME NEW text, NEW acc \in BuildState(text), NEW s \in Spans
    PROVE  TakeSentence(acc, s, text) \in BuildState(text)
<1> DEFINE X == PartsOf(text)
           c == Chunk(text, acc.start, acc.end, <<>>)
           closed == [chunks |-> Append(acc.chunks, c), start |-> s[1], end |-> s[2], count |-> 1]
           joined == [chunks |-> acc.chunks, start |-> acc.start, end |-> s[2], count |-> acc.count + 1]
<1>1. /\ acc.chunks \in Seq(X) /\ acc.start \in Nat /\ acc.end \in Nat /\ acc.count \in Nat
      /\ s[1] \in Nat /\ s[2] \in Nat
  BY DEF BuildState, Spans
<1>2. c \in X
  BY <1>1 DEF PartsOf
<1>3. TakeSentence(acc, s, text) \in {closed, joined}
  BY DEF TakeSentence
<1> HIDE DEF c, X
<1>4. Append(acc.chunks, c) \in Seq(X)
  BY <1>1, <1>2, AppendElement
<1>5. closed \in BuildState(text)
  BY <1>1, <1>4 DEF BuildState, X
<1>6. joined \in BuildState(text)
  BY <1>1 DEF BuildState
<1> HIDE DEF closed, joined
<1> QED
  BY <1>3, <1>5, <1>6

\* The loop takes sentence after sentence.
LEMMA BuildingSteps ==
    ASSUME NEW text, NEW S \in Seq(Spans)
    PROVE  /\ Building(S, text)[0] = [chunks |-> <<>>, start |-> 0, end |-> 0, count |-> 0]
           /\ \A n \in 1..Len(S) : Building(S, text)[n] = TakeSentence(Building(S, text)[n - 1], S[n], text)
<1> DEFINE N == Len(S)
           X == BuildState(text)
           none == [chunks |-> <<>>, start |-> 0, end |-> 0, count |-> 0]
           Body(g) == [n \in 0..N |-> IF n = 0 THEN [chunks |-> <<>>, start |-> 0, end |-> 0, count |-> 0]
                                      ELSE TakeSentence(g[n - 1], S[n], text)]
           step == [a \in (1..N) \X X |-> TakeSentence(a[2], S[a[1]], text)]
<1>1. N \in Nat /\ \A n \in 1..N : S[n] \in Spans
  BY LenProperties, ElementOfSeq
<1>2. none \in X
  BY EmptySeq DEF BuildState
<1>3. step \in [(1..N) \X X -> X]
  <2>1. ASSUME NEW a \in (1..N) \X X PROVE TakeSentence(a[2], S[a[1]], text) \in X
    <3>1. a[1] \in 1..N /\ a[2] \in X
      OBVIOUS
    <3> QED
      BY <1>1, <3>1, TakeSentenceType
  <2> QED
    BY <2>1
<1>4. \A n \in 1..N, x \in X : step[<<n, x>>] = TakeSentence(x, S[n], text)
  OBVIOUS
<1>5. PICK g : Computation(g, X, none, step, N)
  <2> HIDE DEF step, N, X, none
  <2> QED
    BY <1>1, <1>2, <1>3, RecursionExists
<1> HIDE DEF step, N, X
<1>6. g = Body(g)
  <2>1. \A n \in 0..N : n = 0 \/ n \in 1..N
    BY <1>1
  <2>2. \A n \in 1..N : n - 1 \in 0..N /\ g[n - 1] \in X
    BY <1>1, <1>5 DEF Computation
  <2>3. \A n \in 0..N : g[n] = Body(g)[n]
    BY <1>4, <1>5, <2>1, <2>2 DEF Computation
  <2> QED
    BY <1>5, <2>3 DEF Computation
<1>7. Building(S, text) = CHOOSE h : h = Body(h)
  BY DEF Building, N
<1> DEFINE w == Building(S, text)
<1>8. w = Body(w)
  <2> HIDE DEF Body
  <2> QED
    BY <1>6, <1>7
<1> HIDE DEF w
<1>9. w[0] = none /\ \A n \in 1..N : w[n] = TakeSentence(w[n - 1], S[n], text)
  <2>1. 0 \in 0..N /\ \A n \in 1..N : n \in 0..N /\ n # 0
    BY <1>1
  <2> DEFINE b == Body(w)
  <2>2. b[0] = none /\ \A n \in 1..N : b[n] = TakeSentence(w[n - 1], S[n], text)
    BY <2>1
  <2> HIDE DEF b
  <2>3. w = b
    BY <1>8 DEF b
  <2> QED
    BY <2>2, <2>3
<1> QED
  BY <1>9 DEF w, N

\* The sentences that a chunk may hold, and what the loop has after n of them:
\* chunks in order up to the one in hand, which ends with the last sentence, and
\* each sentence in one of those.
Holds(c, x) == c.start <= x[1] /\ x[2] <= c.end

BuildInv(acc, S, n, U, text) ==
    /\ acc \in BuildState(text)
    /\ acc.chunks \in Seq(ChunksOf(U, text)) /\ Sorted(acc.chunks)
    /\ \A k \in 1..Len(acc.chunks) : acc.chunks[k].end <= acc.start
    /\ acc.start <= S[n][1] /\ acc.start < acc.end /\ acc.end = S[n][2]
    /\ \A j \in 1..n : \/ acc.start <= S[j][1]
                       \/ \E k \in 1..Len(acc.chunks) : Holds(acc.chunks[k], S[j])

\* The offsets of sentences.
LEMMA SentenceOffsets ==
    ASSUME NEW U, NEW text \in Seq(U), NEW S, SentencesOf(S, text)
    PROVE  /\ Len(S) \in Nat /\ Len(S) >= 1 /\ S \in Seq(Spans) /\ Len(text) \in Nat
           /\ \A k \in 1..Len(S) : /\ S[k] \in Spans /\ S[k][1] \in Nat /\ S[k][2] \in Nat
                                   /\ S[k][1] < S[k][2] /\ S[k][2] <= Len(text)
<1>1. \A k \in 1..Len(S) : S[k] \in SpansIn(0, Len(text)) /\ S[k][1] < S[k][2]
  BY ElementOfSeq DEF SentencesOf
<1>2. S \in Seq(Spans)
  <2>1. SpansIn(0, Len(text)) \subseteq Spans
    BY DEF SpansIn
  <2> QED
    BY <2>1, SeqMonotonic DEF SentencesOf
<1>3. \A k \in 1..Len(S) : /\ S[k] \in Spans /\ S[k][1] \in Nat /\ S[k][2] \in Nat
                           /\ S[k][2] <= Len(text)
  BY <1>1 DEF SpansIn, Spans
<1> QED
  BY <1>1, <1>2, <1>3, LenProperties DEF SentencesOf

\* A chunk that begins where the others have ended comes after them.
LEMMA NextInOrder ==
    ASSUME NEW U, NEW text \in Seq(U), NEW C \in Seq(ChunksOf(U, text)), Sorted(C),
           NEW c \in ChunksOf(U, text), \A k \in 1..Len(C) : C[k].end <= c.start
    PROVE  /\ Append(C, c) \in Seq(ChunksOf(U, text)) /\ Sorted(Append(C, c))
           /\ Len(Append(C, c)) = Len(C) + 1
           /\ Append(C, c)[Len(C) + 1] = c /\ \A k \in 1..Len(C) : Append(C, c)[k] = C[k]
<1> DEFINE t == Append(C, c)
           n == Len(C)
<1>1. /\ t \in Seq(ChunksOf(U, text)) /\ Len(t) = n + 1 /\ t[n + 1] = c
      /\ \A k \in 1..n : t[k] = C[k]
  BY AppendProperties
<1>2. n \in Nat /\ c.start \in Nat /\ c.end \in Nat /\ c.start < c.end
      /\ \A k \in 1..n : C[k].start \in Nat /\ C[k].end \in Nat /\ C[k].start < C[k].end
  BY Offsets, ChunkLength
<1> HIDE DEF t, n
<1>3. ASSUME NEW j \in 1..(n + 1), NEW k \in 1..(n + 1), j < k
      PROVE  t[j].start < t[k].start /\ t[j].end < t[k].end
  <2>1. CASE k \in 1..n
    <3>1. j \in 1..n
      BY <1>2, <1>3, <2>1
    <3> QED
      BY <1>1, <1>3, <2>1, <3>1 DEF Sorted, n
  <2>2. CASE k \notin 1..n
    <3>1. j \in 1..n /\ k = n + 1
      BY <1>2, <1>3, <2>2
    <3>2. t[j] = C[j] /\ t[k] = c
      BY <1>1, <3>1
    <3> DEFINE a == C[j].start
               b == C[j].end
               x == c.start
               y == c.end
    <3>3. a \in Nat /\ b \in Nat /\ x \in Nat /\ y \in Nat /\ a < b /\ b <= x /\ x < y
      BY <1>2, <3>1 DEF n
    <3> HIDE DEF a, b, x, y
    <3>4. a < x /\ b < y
      BY <3>3
    <3> QED
      BY <3>2, <3>4 DEF a, b, x, y
  <2> QED
    BY <2>1, <2>2
<1>4. Sorted(t)
  BY <1>1, <1>3 DEF Sorted
<1> QED
  BY <1>1, <1>4 DEF t, n

\* One more sentence.
LEMMA TakeSentenceKeeps ==
    ASSUME NEW U, NEW text \in Seq(U), NEW S, SentencesOf(S, text), NEW n \in 1..Len(S),
           n + 1 <= Len(S), NEW acc, BuildInv(acc, S, n, U, text)
    PROVE  BuildInv(TakeSentence(acc, S[n + 1], text), S, n + 1, U, text)
<1> DEFINE m == n + 1
           s == S[m]
           C == acc.chunks
           a == acc.start
           e == acc.end
           c == Chunk(text, a, e, <<>>)
           next == TakeSentence(acc, s, text)
           a1 == s[1]
           e1 == s[2]
           Full == acc.count > 0 /\ (s[2] - acc.start > ChunkSize \/ acc.count >= MaxSentences)
<1> SUFFICES BuildInv(next, S, m, U, text)
  OBVIOUS
<1>1. /\ Len(S) \in Nat /\ m \in 1..Len(S) /\ n < m
      /\ S[n][1] \in Nat /\ S[n][2] \in Nat /\ S[n][2] <= Len(text) /\ s \in Spans
      /\ a1 \in Nat /\ e1 \in Nat /\ a1 < e1 /\ e1 <= Len(text)
      /\ \A j \in 1..Len(S) : S[j][1] \in Nat /\ S[j][2] \in Nat /\ S[j][1] < S[j][2]
  BY SentenceOffsets
<1>2. S[n][2] <= a1
  BY <1>1 DEF SentencesOf
<1>3. /\ acc \in BuildState(text) /\ a \in Nat /\ e \in Nat /\ acc.count \in Nat
      /\ C \in Seq(ChunksOf(U, text)) /\ Sorted(C)
      /\ \A k \in 1..Len(C) : C[k].end <= a
      /\ a <= S[n][1] /\ a < e /\ e = S[n][2]
      /\ \A j \in 1..n : \/ a <= S[j][1]
                         \/ \E k \in 1..Len(C) : Holds(C[k], S[j])
  BY DEF BuildInv, BuildState
<1>4. next \in BuildState(text)
  BY <1>1, <1>3, TakeSentenceType
<1>5. \A j \in 1..m : j \in 1..n \/ j = m
  BY <1>1
<1>6. a <= a1 /\ e <= a1 /\ a < e1 /\ e <= Len(text)
  <2>1. /\ Len(text) \in Nat /\ a \in Nat /\ e \in Nat /\ a1 \in Nat /\ e1 \in Nat
        /\ a < e /\ a1 < e1 /\ e1 <= Len(text)
    BY <1>1, <1>3, LenProperties
  <2>2. e <= a1
    BY <1>2, <1>3
  <2> HIDE DEF a, e, a1, e1
  <2> QED
    BY <2>1, <2>2
<1>7. CASE Full
  <2> DEFINE t == Append(C, c)
  <2>1. next = [chunks |-> t, start |-> s[1], end |-> s[2], count |-> 1]
    BY <1>7 DEF TakeSentence
  <2>2. next.chunks = t /\ next.start = a1 /\ next.end = e1
    BY <2>1
  <2>3. c \in ChunksOf(U, text) /\ c.start = a /\ c.end = e
    <3> DEFINE none == <<>>
    <3>1. none \in Seq(Nat)
      BY EmptySeq
    <3> HIDE DEF none, a, e
    <3>2. LET d == Chunk(text, a, e, none)
          IN d \in ChunksOf(U, text) /\ d.start = a /\ d.end = e
      BY <1>3, <1>6, <3>1, ChunkIs
    <3> QED
      BY <3>2 DEF none
  <2>4. /\ t \in Seq(ChunksOf(U, text)) /\ Sorted(t) /\ Len(t) = Len(C) + 1
        /\ t[Len(C) + 1] = c /\ \A k \in 1..Len(C) : t[k] = C[k]
    <3> HIDE DEF c, a, e, C
    <3>1. C \in Seq(ChunksOf(U, text)) /\ Sorted(C) /\ c \in ChunksOf(U, text)
      BY <1>3, <2>3
    <3>2. \A k \in 1..Len(C) : C[k].end <= c.start
      BY <1>3, <2>3
    <3> QED
      BY <3>1, <3>2, NextInOrder
  <2> HIDE DEF c, a, e
  <2> HIDE DEF t, C, next, a1, e1
  <2>5. Len(C) \in Nat
    BY <1>3, LenProperties
  <2>6. \A k \in 1..(Len(C) + 1) : k \in 1..Len(C) \/ k = Len(C) + 1
    BY <2>5
  <2>7. ASSUME NEW k \in 1..Len(t) PROVE t[k].end <= a1
    <3>1. CASE k \in 1..Len(C)
      <4> DEFINE z == C[k].end
      <4>1. z \in Nat /\ z <= a
        BY <1>3, <3>1, Offsets
      <4>2. z <= a1
        <5> HIDE DEF z
        <5> QED
          BY <1>1, <1>3, <1>6, <4>1
      <4> QED
        BY <2>4, <3>1, <4>2
    <3>2. CASE k = Len(C) + 1
      BY <1>6, <2>3, <2>4, <3>2
    <3> QED
      BY <2>4, <2>6, <3>1, <3>2
  <2>8. ASSUME NEW j \in 1..m
        PROVE  \/ a1 <= S[j][1]
               \/ \E k \in 1..Len(t) : Holds(t[k], S[j])
    <3>1. CASE j = m
      BY <1>1, <3>1 DEF a1
    <3>2. CASE j \in 1..n /\ a <= S[j][1]
      <4>1. S[j][2] <= e
        <5>1. j = n \/ j < n
          BY <1>1, <3>2
        <5>2. CASE j < n
          <6> DEFINE x == S[j][2]
                     y == S[n][1]
                     z == S[n][2]
          <6>1. x <= y /\ x \in Nat /\ y \in Nat /\ z \in Nat /\ y < z /\ e = z
            BY <1>1, <1>3, <3>2, <5>2 DEF SentencesOf
          <6>2. x <= z
            <7> HIDE DEF x, y, z
            <7> QED
              BY <6>1
          <6> QED
            BY <6>1, <6>2
        <5> QED
          BY <1>1, <1>3, <5>1, <5>2
      <4>2. Holds(c, S[j])
        BY <2>3, <3>2, <4>1 DEF Holds
      <4>3. Len(C) + 1 \in 1..Len(t) /\ t[Len(C) + 1] = c
        BY <2>4, <2>5
      <4> QED
        BY <4>2, <4>3
    <3>3. CASE j \in 1..n /\ \E k \in 1..Len(C) : Holds(C[k], S[j])
      <4>1. PICK k \in 1..Len(C) : Holds(C[k], S[j])
        BY <3>3
      <4>2. k \in 1..Len(t) /\ t[k] = C[k]
        BY <2>4, <2>5
      <4> QED
        BY <4>1, <4>2
    <3> QED
      BY <1>3, <1>5, <3>1, <3>2, <3>3
  <2>9. a1 <= S[m][1] /\ e1 = S[m][2]
    BY <1>1 DEF a1, e1
  <2> QED
    BY <1>1, <1>4, <2>2, <2>4, <2>7, <2>8, <2>9 DEF BuildInv
<1>8. CASE ~Full
  <2>1. next = [chunks |-> acc.chunks, start |-> acc.start, end |-> s[2], count |-> acc.count + 1]
    BY <1>8 DEF TakeSentence
  <2>2. next.chunks = C /\ next.start = a /\ next.end = e1
    BY <1>3, <2>1 DEF BuildState
  <2> HIDE DEF next, C, a, e
  <2>3. ASSUME NEW j \in 1..m
        PROVE  a <= S[j][1] \/ \E k \in 1..Len(C) : Holds(C[k], S[j])
    BY <1>3, <1>5, <1>6
  <2>4. a <= S[m][1] /\ e1 = S[m][2]
    BY <1>6
  <2> HIDE DEF e1, m
  <2> QED
    BY <1>3, <1>4, <1>6, <2>2, <2>3, <2>4 DEF BuildInv
<1> HIDE DEF Full
<1> QED
  BY <1>7, <1>8

\* The chunks of all of the sentences.
LEMMA BuiltIs ==
    ASSUME NEW U, NEW text \in Seq(U), NEW S, SentencesOf(S, text)
    PROVE  LET C == BuildChunks(S, text)
           IN /\ C \in Seq(ChunksOf(U, text)) /\ C # <<>> /\ Sorted(C)
              /\ \A j \in 1..Len(S) : \E k \in 1..Len(C) : Holds(C[k], S[j])
<1> DEFINE w == Building(S, text)
           N == Len(S)
           none == [chunks |-> <<>>, start |-> 0, end |-> 0, count |-> 0]
           T == {n \in Nat : n + 1 <= N => BuildInv(w[n + 1], S, n + 1, U, text)}
<1>1. /\ N \in Nat /\ N >= 1 /\ 1 \in 1..N /\ S \in Seq(Spans) /\ Len(text) \in Nat
      /\ \A k \in 1..N : /\ S[k] \in Spans /\ S[k][1] \in Nat /\ S[k][2] \in Nat
                         /\ S[k][1] < S[k][2] /\ S[k][2] <= Len(text)
  BY SentenceOffsets
<1>2. w[0] = none /\ \A n \in 1..N : w[n] = TakeSentence(w[n - 1], S[n], text)
  BY <1>1, BuildingSteps
<1> HIDE DEF w, N
<1>3. 0 \in T
  <2> DEFINE s == S[1]
  <2>1. w[1] = TakeSentence(none, s, text)
    BY <1>1, <1>2
  <2>2. none \in BuildState(text)
    BY EmptySeq DEF BuildState
  <2>3. s \in Spans /\ s[1] \in Nat /\ s[2] \in Nat /\ s[1] < s[2]
    BY <1>1
  <2>4. w[1] \in BuildState(text)
    BY <2>1, <2>2, <2>3, TakeSentenceType
  <2>5. w[1] = [chunks |-> none.chunks, start |-> none.start, end |-> s[2], count |-> none.count + 1]
    <3>1. ~(none.count > 0)
      OBVIOUS
    <3> HIDE DEF none, s
    <3> QED
      BY <2>1, <3>1 DEF TakeSentence
  <2>6. w[1].chunks = <<>> /\ w[1].start = 0 /\ w[1].end = s[2]
    BY <2>5
  <2> DEFINE C == <<>>
             acc == w[1]
  <2>7. C \in Seq(ChunksOf(U, text)) /\ Len(C) = 0
    BY EmptySeq
  <2>8. 1..0 = {}
    OBVIOUS
  <2> HIDE DEF C
  <2>9. Sorted(C) /\ \A k \in 1..Len(C) : C[k].end <= 0
    BY <2>7, <2>8 DEF Sorted
  <2>10. 0 <= S[1][1] /\ 0 < s[2] /\ s[2] = S[1][2] /\ \A j \in 1..1 : 0 <= S[j][1]
    <3>1. \A j \in 1..1 : j = 1
      OBVIOUS
    <3> QED
      BY <2>3, <3>1
  <2>11. acc \in BuildState(text) /\ acc.chunks = C /\ acc.start = 0 /\ acc.end = s[2]
    BY <2>4, <2>6 DEF C
  <2> HIDE DEF s, acc
  <2>12. BuildInv(acc, S, 1, U, text)
    BY <2>7, <2>9, <2>10, <2>11 DEF BuildInv
  <2>13. 0 + 1 = 1
    OBVIOUS
  <2> QED
    BY <2>12, <2>13 DEF acc
<1>4. ASSUME NEW n \in Nat, n \in T PROVE n + 1 \in T
  <2> DEFINE m == n + 1
  <2> SUFFICES ASSUME m + 1 <= N PROVE BuildInv(w[m + 1], S, m + 1, U, text)
    OBVIOUS
  <2>1. m \in 1..N /\ m <= N /\ m + 1 \in 1..N /\ (m + 1) - 1 = m
    BY <1>1
  <2>2. BuildInv(w[m], S, m, U, text)
    BY <1>4, <2>1
  <2> HIDE DEF m
  <2>3. w[m + 1] = TakeSentence(w[m], S[m + 1], text)
    BY <1>2, <2>1
  <2> QED
    BY <2>1, <2>2, <2>3, TakeSentenceKeeps DEF N
<1>5. Nat \subseteq T
  <2> HIDE DEF T
  <2> QED
    BY <1>3, <1>4, NatInd
<1>6. BuildInv(w[N], S, N, U, text)
  <2>1. N - 1 \in Nat /\ (N - 1) + 1 = N /\ N <= N
    BY <1>1
  <2>2. N - 1 \in T
    <3> HIDE DEF T
    <3> QED
      BY <1>5, <2>1
  <2> QED
    BY <2>1, <2>2
<1> DEFINE last == w[N]
           a == last.start
           e == last.end
           D == last.chunks
           c == Chunk(text, a, e, <<>>)
           C == Append(D, c)
<1>7. BuildChunks(S, text) = C
  BY DEF BuildChunks, w, N
<1>8. /\ a \in Nat /\ e \in Nat /\ D \in Seq(ChunksOf(U, text)) /\ Sorted(D)
      /\ \A k \in 1..Len(D) : D[k].end <= a
      /\ a < e /\ e = S[N][2]
      /\ \A j \in 1..N : a <= S[j][1] \/ \E k \in 1..Len(D) : Holds(D[k], S[j])
  BY <1>6 DEF BuildInv, BuildState
<1> HIDE DEF last, D, a, e
<1>9. e <= Len(text) /\ N \in 1..N
  BY <1>1, <1>8
<1>10. c \in ChunksOf(U, text) /\ c.start = a /\ c.end = e
  <2> DEFINE nothing == <<>>
  <2>1. nothing \in Seq(Nat)
    BY EmptySeq
  <2> HIDE DEF nothing
  <2>2. LET d == Chunk(text, a, e, nothing)
        IN d \in ChunksOf(U, text) /\ d.start = a /\ d.end = e
    BY <1>8, <1>9, <2>1, ChunkIs
  <2> QED
    BY <2>2 DEF nothing
<1> HIDE DEF c
<1>11. /\ C \in Seq(ChunksOf(U, text)) /\ Sorted(C) /\ Len(C) = Len(D) + 1
       /\ C[Len(D) + 1] = c /\ \A k \in 1..Len(D) : C[k] = D[k]
  BY <1>8, <1>10, NextInOrder
<1> HIDE DEF C
<1>12. Len(D) \in Nat
  BY <1>8, LenProperties
<1>13. ASSUME NEW j \in 1..N PROVE \E k \in 1..Len(C) : Holds(C[k], S[j])
  <2>1. CASE a <= S[j][1]
    <3>1. S[j][2] <= e
      <4>1. j = N \/ j < N
        BY <1>1
      <4>2. CASE j < N
        <5> DEFINE x == S[j][2]
                   y == S[N][1]
                   z == S[N][2]
        <5>1. x <= y /\ x \in Nat /\ y \in Nat /\ z \in Nat /\ y < z /\ e = z
          BY <1>1, <1>8, <1>9, <4>2 DEF SentencesOf, N
        <5>2. x <= z
          <6> HIDE DEF x, y, z
          <6> QED
            BY <5>1
        <5> QED
          BY <5>1, <5>2
      <4> QED
        BY <1>1, <1>8, <4>1, <4>2
    <3>2. Holds(c, S[j])
      BY <1>10, <2>1, <3>1 DEF Holds
    <3>3. Len(D) + 1 \in 1..Len(C)
      BY <1>11, <1>12
    <3> QED
      BY <1>11, <3>2, <3>3
  <2>2. CASE \E k \in 1..Len(D) : Holds(D[k], S[j])
    <3>1. PICK k \in 1..Len(D) : Holds(D[k], S[j])
      BY <2>2
    <3>2. k \in 1..Len(C)
      BY <1>11, <1>12
    <3> QED
      BY <1>11, <3>1, <3>2
  <2> QED
    BY <1>8, <2>1, <2>2
<1>14. C # <<>>
  <2>1. Len(C) # 0
    BY <1>11, <1>12
  <2> QED
    BY <2>1
<1> QED
  BY <1>7, <1>11, <1>13, <1>14 DEF N

-----------------------------------------------------------------------------
(***************************************************************************)
(* The chunker of sentences: chunks overlap.                               *)
(***************************************************************************)

\* The overlap begins in the chunk it is taken from.
LEMMA OverlapStartIs ==
    ASSUME NEW U, NEW text \in Seq(U), NEW c \in ChunksOf(U, text)
    PROVE  OverlapStart(c) \in Nat
<1> DEFINE S == Sentences(c.text)
           n == Len(S)
           Kept(k) == k = n \/ SizeFrom(S, k) <= ChunkOverlap
           first == CHOOSE i \in 1..n : Kept(i) /\ \A j \in 1..(i - 1) : ~Kept(j)
           T == {i \in 1..n : Kept(i)}
<1>1. c.text \in Seq(U) /\ Len(c.text) > 0 /\ c.start \in Nat
  <2>1. /\ c.start \in Nat /\ c.end \in Nat /\ c.start < c.end
        /\ Len(c.text) = c.end - c.start
    BY ChunkLength
  <2>2. c.text \in Seq(U)
    BY DEF ChunksOf
  <2> QED
    BY <2>1, <2>2
<1>2. SentencesOf(S, c.text)
  BY <1>1, SentencesAre
<1>3. OverlapStart(c) = c.start + S[first][1]
  BY DEF OverlapStart
<1> HIDE DEF S
<1>4. n \in Nat /\ n >= 1 /\ \A k \in 1..n : S[k][1] \in Nat
  BY <1>1, <1>2, SentenceOffsets
<1>5. n \in T
  BY <1>4
<1> HIDE DEF n, Kept
<1>6. T \subseteq 1..n
  OBVIOUS
<1>7. \E i \in T : \A j \in 1..(i - 1) : j \notin T
  <2> HIDE DEF T
  <2>1. T # {} /\ 1 \in Nat
    BY <1>5
  <2> QED
    BY <1>4, <1>6, <2>1, LeastExists
<1>8. \E i \in 1..n : Kept(i) /\ \A j \in 1..(i - 1) : ~Kept(j)
  <2>1. PICK i \in T : \A j \in 1..(i - 1) : j \notin T
    BY <1>7
  <2>2. i \in 1..n /\ Kept(i)
    OBVIOUS
  <2>3. ASSUME NEW j \in 1..(i - 1) PROVE ~Kept(j)
    <3>1. j \in 1..n
      BY <1>4, <2>2
    <3> QED
      BY <2>1, <3>1
  <2> QED
    BY <2>2, <2>3
<1>9. first \in 1..n
  BY <1>8
<1> HIDE DEF first
<1> QED
  BY <1>1, <1>3, <1>4, <1>9

\* The lesser of two numbers.
LEMMA LesserOfTwo ==
    ASSUME NEW a \in Nat, NEW b \in Nat
    PROVE  Min({a, b}) \in Nat /\ Min({a, b}) <= b
<1>1. \E x \in {a, b} : \A y \in {a, b} : x <= y
  <2>1. a <= b \/ b <= a
    OBVIOUS
  <2> QED
    BY <2>1
<1>2. Min({a, b}) \in {a, b} /\ \A y \in {a, b} : Min({a, b}) <= y
  BY <1>1 DEF Min
<1> QED
  BY <1>2

\* Chunks that grow backwards hold what they held.
LEMMA OverlapIs ==
    ASSUME NEW U, NEW text \in Seq(U), NEW D \in Seq(ChunksOf(U, text))
    PROVE  LET E == ApplyOverlap(D, text)
           IN /\ E \in Seq(ChunksOf(U, text))
              /\ \A k \in 1..Len(D) : HeldBy(D[k], E)
<1> DEFINE E == ApplyOverlap(D, text)
           X == ChunksOf(U, text)
           Grown(i) == Chunk(text, Min({OverlapStart(D[i - 1]), D[i].start}), D[i].end, D[i].headers)
<1> SUFFICES E \in Seq(X) /\ \A k \in 1..Len(D) : HeldBy(D[k], E)
  OBVIOUS
<1>1. /\ Len(D) \in Nat /\ DOMAIN D = 1..Len(D)
      /\ \A k \in 1..Len(D) : /\ D[k] \in X /\ D[k].start \in Nat /\ D[k].end \in Nat
                              /\ D[k].start < D[k].end
  BY Offsets, LenProperties
<1>2. CASE ChunkOverlap <= 0
  <2>1. E = D
    BY <1>2 DEF ApplyOverlap
  <2> HIDE DEF E
  <2>2. \A k \in 1..Len(D) : D[k].start <= D[k].start /\ D[k].end <= D[k].end
    BY <1>1
  <2> QED
    BY <2>1, <2>2 DEF HeldBy
<1>3. CASE ~(ChunkOverlap <= 0)
  <2>1. E = [i \in 1..Len(D) |-> IF i = 1 THEN D[1] ELSE Grown(i)]
    BY <1>1, <1>3 DEF ApplyOverlap
  <2>2. ASSUME NEW i \in 1..Len(D)
        PROVE  E[i] \in X /\ E[i].start <= D[i].start /\ D[i].end <= E[i].end
    <3>1. CASE i = 1
      <4>1. E[i] = D[i]
        BY <2>1, <3>1
      <4> HIDE DEF E, X
      <4> QED
        BY <1>1, <4>1
    <3>2. CASE i # 1
      <4> DEFINE a == OverlapStart(D[i - 1])
                 b == D[i].start
                 s == Min({a, b})
                 e == D[i].end
                 h == D[i].headers
                 c == Chunk(text, s, e, h)
      <4>1. E[i] = c
        BY <2>1, <3>2
      <4>2. i - 1 \in 1..Len(D)
        BY <1>1, <3>2
      <4>3. a \in Nat /\ b \in Nat
        BY <1>1, <4>2, OverlapStartIs
      <4>4. s \in Nat /\ s <= b
        <5> HIDE DEF a, b
        <5> QED
          BY <4>3, LesserOfTwo
      <4>5. e \in Nat /\ b < e /\ e <= Len(text) /\ h \in Seq(Nat)
        BY <1>1 DEF ChunksOf
      <4> HIDE DEF E, X, s, e, h, a, b
      <4>6. s < e
        BY <4>3, <4>4, <4>5
      <4>7. c \in ChunksOf(U, text) /\ c.start = s /\ c.end = e
        BY <4>4, <4>5, <4>6, ChunkIs
      <4>8. e <= e
        BY <4>5
      <4> HIDE DEF c
      <4> QED
        BY <4>1, <4>4, <4>7, <4>8 DEF X, e, b
    <3> QED
      BY <3>1, <3>2
  <2>3. E \in Seq(X) /\ Len(E) = Len(D)
    <3>1. E = [i \in 1..Len(D) |-> E[i]]
      BY <2>1
    <3> HIDE DEF E, X
    <3> QED
      BY <1>1, <2>2, <3>1
  <2> HIDE DEF E
  <2> QED
    BY <2>2, <2>3 DEF HeldBy
<1> QED
  BY <1>2, <1>3

\* What the chunker of sentences returns for a text that is not blank.
LEMMA SentenceChunkIs ==
    ASSUME NEW U, NEW text \in Seq(U), ~IsBlank(text)
    PROVE  LET E == SentenceChunk(text)
           IN /\ E \in Seq(ChunksOf(U, text))
              /\ \A i \in 1..Len(text) :
                    text[i] \notin Blanks
                      => \E k \in 1..Len(E) : E[k].start < i /\ i <= E[k].end
<1> DEFINE S == Sentences(text)
           C == BuildChunks(S, text)
           D == MergeUndersized(C, text, ChunkSize)
           E == ApplyOverlap(D, text)
           size == Len(text) + ChunkSize
<1>1. Len(text) \in Nat /\ DOMAIN text = 1..Len(text) /\ Len(text) > 0
  <2>1. Len(text) \in Nat /\ DOMAIN text = 1..Len(text)
    BY LenProperties
  <2>2. \E i \in 1..Len(text) : TRUE
    BY <2>1 DEF IsBlank
  <2> QED
    BY <2>1, <2>2
<1>2. SentenceChunk(text) = E
  BY DEF SentenceChunk
<1>3. SentencesOf(S, text)
  BY <1>1, SentencesAre
<1> HIDE DEF S
<1>4. /\ C \in Seq(ChunksOf(U, text)) /\ C # <<>> /\ Sorted(C)
      /\ \A j \in 1..Len(S) : \E k \in 1..Len(C) : Holds(C[k], S[j])
  BY <1>3, BuiltIs
<1> HIDE DEF C
<1>5. size \in Nat /\ size >= ChunkSize
  BY <1>1, SizesAreNatural
<1>6. Narrow(C, size)
  <2>1. ASSUME NEW k \in 1..Len(C) PROVE C[k].end - C[k].start <= size
    <3> DEFINE a == C[k].start
               b == C[k].end
    <3>1. a \in Nat /\ b \in Nat /\ b <= Len(text)
      BY <1>4, Offsets, ChunkLength
    <3> HIDE DEF a, b
    <3>2. b - a <= size
      BY <1>1, <3>1, SizesAreNatural
    <3> QED
      BY <3>2 DEF a, b
  <2> QED
    BY <2>1 DEF Narrow
<1>7. D \in Seq(ChunksOf(U, text)) /\ \A k \in 1..Len(C) : HeldBy(C[k], D)
  <2> HIDE DEF size
  <2> QED
    BY <1>4, <1>5, <1>6, UndersizedMerged
<1> HIDE DEF D
<1>8. E \in Seq(ChunksOf(U, text)) /\ \A k \in 1..Len(D) : HeldBy(D[k], E)
  BY <1>7, OverlapIs
<1> HIDE DEF E
<1>9. ASSUME NEW i \in 1..Len(text), text[i] \notin Blanks
      PROVE  \E k \in 1..Len(E) : E[k].start < i /\ i <= E[k].end
  <2>1. PICK j \in 1..Len(S) : S[j][1] < i /\ i <= S[j][2]
    BY <1>3, <1>9 DEF SentencesOf, In
  <2>2. PICK k \in 1..Len(C) : C[k].start <= S[j][1] /\ S[j][2] <= C[k].end
    BY <1>4 DEF Holds
  <2>3. i \in Nat /\ C[k].start < i /\ i <= C[k].end
    <3> DEFINE a == C[k].start
               b == C[k].end
               x == S[j][1]
               y == S[j][2]
    <3>1. a \in Nat /\ b \in Nat /\ x \in Nat /\ y \in Nat
      BY <1>3, <1>4, Offsets, SentenceOffsets
    <3>2. a <= x /\ y <= b /\ x < i /\ i <= y
      BY <2>1, <2>2
    <3> HIDE DEF a, b, x, y
    <3>3. i \in Nat /\ a < i /\ i <= b
      BY <1>1, <3>1, <3>2
    <3> QED
      BY <3>3 DEF a, b
  <2>4. PICK l \in 1..Len(D) : D[l].start < i /\ i <= D[l].end
    <3>1. HeldBy(C[k], D)
      BY <1>7
    <3>2. /\ C[k].start \in Nat /\ C[k].end \in Nat
          /\ \A l \in 1..Len(D) : D[l].start \in Nat /\ D[l].end \in Nat
      BY <1>4, <1>7, Offsets
    <3>3. i \in Nat /\ C[k].start < i /\ i <= C[k].end
      BY <2>3
    <3>4. \E l \in 1..Len(D) : D[l].start < i /\ i <= D[l].end
      BY <3>1, <3>2, <3>3, StillHeld
    <3> QED
      BY <3>4
  <2>5. HeldBy(D[l], E)
    BY <1>8
  <2>6. /\ D[l].start \in Nat /\ D[l].end \in Nat
        /\ \A w \in 1..Len(E) : E[w].start \in Nat /\ E[w].end \in Nat
    BY <1>7, <1>8, Offsets
  <2>7. i \in Nat /\ D[l].start < i /\ i <= D[l].end
    BY <2>3, <2>4
  <2> QED
    BY <2>5, <2>6, <2>7, StillHeld
<1> QED
  BY <1>2, <1>8, <1>9

-----------------------------------------------------------------------------
(***************************************************************************)
(* The chunker of code: spans.                                             *)
(***************************************************************************)

\* Definitions between two offsets: they are not empty, and in order.
NodesOf(M, s, e) ==
    /\ M \in Seq(SpansIn(s, e))
    /\ \A k \in 1..Len(M) : M[k][1] < M[k][2]
    /\ \A j, k \in 1..Len(M) : j < k => M[j][2] <= M[k][1]

\* A definition ends behind its first line.
LEMMA CloseOfIs ==
    ASSUME NEW text, NEW p \in Nat, NEW e \in Nat, p < e
    PROVE  CloseOf(text, p, e) = 0 \/ CloseOf(text, p, e) \in (p + 1)..e
<1> DEFINE Count(q, unit) == Cardinality({i \in (p + 1)..q : text[i] = unit})
           closes == {q \in (p + 1)..e : Count(q, "def") = Count(q, "end")}
<1>1. CloseOf(text, p, e) = IF closes = {} THEN 0 ELSE Min(closes)
  BY DEF CloseOf
<1>2. closes \subseteq (p + 1)..e
  OBVIOUS
<1> HIDE DEF closes
<1>3. CASE closes # {}
  <2>1. \E i \in closes : \A j \in (p + 1)..(i - 1) : j \notin closes
    <3> DEFINE a == p + 1
    <3>1. a \in Nat /\ closes \subseteq a..e
      BY <1>2
    <3> HIDE DEF a
    <3>2. \E i \in closes : \A j \in a..(i - 1) : j \notin closes
      BY <1>3, <3>1, LeastExists
    <3> QED
      BY <3>2 DEF a
  <2>2. PICK i \in closes : \A j \in (p + 1)..(i - 1) : j \notin closes
    BY <2>1
  <2>3. ASSUME NEW j \in closes PROVE i <= j
    <3>1. i \in (p + 1)..e /\ j \in (p + 1)..e /\ j \notin (p + 1)..(i - 1)
      BY <1>2, <2>2
    <3> QED
      BY <3>1
  <2>4. Min(closes) \in closes
    BY <2>2, <2>3 DEF Min
  <2> QED
    BY <1>1, <1>2, <1>3, <2>4
<1> QED
  BY <1>1, <1>3

\* The definitions that are found between two offsets.
LEMMA NodesAre ==
    ASSUME NEW U, NEW text \in Seq(U), NEW s \in Nat, NEW e \in 0..Len(text)
    PROVE  NodesOf(FindSplitNodes(text, s, e), s, e)
<1> DEFINE N == Len(text)
           close == [p \in s..(e - 1) |-> IF text[p + 1] = "def" THEN CloseOf(text, p, e) ELSE 0]
           Nearest(i) == /\ s < i /\ i <= e
                         /\ close[i - 1] # 0
                         /\ \A p \in s..(i - 2) : close[p] < i
           T == {i \in DOMAIN text : Nearest(i)}
           first == InOrder(T)
           n == Len(first)
           M == [k \in DOMAIN first |-> <<first[k] - 1, close[first[k] - 1]>>]
<1>1. FindSplitNodes(text, s, e) = M
  BY DEF FindSplitNodes, Where
<1>2. N \in Nat /\ DOMAIN text = 1..N /\ e \in Nat /\ e <= N
  BY LenProperties
<1>3. T \subseteq 1..N
  BY <1>2
<1>4. ASSUME NEW p \in s..(e - 1) PROVE close[p] = 0 \/ close[p] \in (p + 1)..e
  <2>1. p \in Nat /\ p < e
    BY <1>2
  <2> QED
    BY <1>2, <2>1, CloseOfIs
<1> HIDE DEF close
<1>5. ASSUME NEW i \in T
      PROVE  /\ i \in Nat /\ s < i /\ i <= e /\ i - 1 \in s..(e - 1)
             /\ close[i - 1] \in i..e
             /\ \A p \in s..(i - 2) : close[p] < i
  <2>1. Nearest(i) /\ i \in 1..N
    BY <1>2
  <2>2. i - 1 \in s..(e - 1) /\ (i - 1) + 1 = i
    BY <1>2, <2>1
  <2>3. close[i - 1] \in i..e
    BY <1>4, <2>1, <2>2
  <2> QED
    BY <2>1, <2>2, <2>3
<1> HIDE DEF T, N
<1>6. /\ n \in Nat /\ DOMAIN first = 1..n
      /\ \A k \in 1..n : first[k] \in T
      /\ \A k, l \in 1..n : k < l => first[k] < first[l]
  BY <1>2, <1>3, PlacesInOrder
<1> HIDE DEF first
<1>7. ASSUME NEW k \in 1..n
      PROVE  /\ M[k] \in SpansIn(s, e) /\ M[k][1] < M[k][2]
             /\ M[k][1] = first[k] - 1 /\ M[k][2] = close[first[k] - 1]
  <2> DEFINE a == first[k]
             b == close[a - 1]
             x == M[k]
  <2>1. x = <<a - 1, b>>
    BY <1>6
  <2>2. a \in Nat /\ s < a /\ a <= e /\ b \in a..e
    BY <1>5, <1>6
  <2>3. x[1] = a - 1 /\ x[2] = b
    BY <2>1
  <2> HIDE DEF x, a, b
  <2>4. a - 1 \in Nat /\ b \in Nat /\ a - 1 <= b /\ s <= a - 1 /\ b <= e /\ a - 1 < b
    BY <1>2, <2>2
  <2>5. x \in SpansIn(s, e)
    BY <2>1, <2>3, <2>4 DEF SpansIn, Spans
  <2> QED
    BY <2>3, <2>4, <2>5 DEF x, a, b
<1>8. M \in Seq(SpansIn(s, e)) /\ Len(M) = n
  <2>1. M = [k \in 1..n |-> M[k]]
    BY <1>6
  <2> HIDE DEF M
  <2> QED
    BY <1>6, <1>7, <2>1
<1>9. ASSUME NEW j \in 1..n, NEW k \in 1..n, j < k PROVE M[j][2] <= M[k][1]
  <2> DEFINE a == first[j]
             b == first[k]
             c == close[a - 1]
  <2>1. a \in Nat /\ b \in Nat /\ s < a /\ a < b
    BY <1>5, <1>6, <1>9
  <2>2. c \in a..e
    BY <1>5, <1>6
  <2>3. \A p \in s..(b - 2) : close[p] < b
    BY <1>5, <1>6
  <2>4. c < b
    <3>1. a - 1 \in s..(b - 2)
      <4> HIDE DEF a, b, c
      <4> QED
        BY <2>1
    <3> QED
      BY <2>3, <3>1
  <2>5. M[j][2] = c /\ M[k][1] = b - 1
    BY <1>7
  <2> HIDE DEF a, b, c, M
  <2>6. c <= b - 1
    BY <1>2, <2>1, <2>2, <2>4
  <2> QED
    BY <2>5, <2>6
<1> HIDE DEF M
<1> QED
  BY <1>1, <1>7, <1>8, <1>9 DEF NodesOf

\* A span that is cut into definitions and what is between them.
LEMMA DividedIs ==
    ASSUME NEW s \in Nat, NEW e \in Nat, s <= e, NEW M, NodesOf(M, s, e), NEW text
    PROVE  Pieces(Divided(s, e, M), <<s, e>>, text, Before)
<1> DEFINE span == <<s, e>>
           n == Len(M)
           From(k) == IF k = 1 THEN s ELSE M[k - 1][2]
           To(k) == IF k = n + 1 THEN e ELSE M[k][1]
           Until(k) == IF k = n + 1 THEN e ELSE M[k][2]
           outer == [k \in 1..(n + 1) |-> <<From(k), Until(k)>>]
           gap(k) == IF From(k) < To(k) THEN <<<<From(k), To(k)>>>> ELSE <<>>
           match(k) == IF k <= n THEN <<M[k]>> ELSE <<>>
           seqs == [k \in 1..(n + 1) |-> gap(k) \o match(k)]
<1>1. /\ n \in Nat
      /\ \A k \in 1..n : /\ M[k] \in Spans /\ M[k][1] \in Nat /\ M[k][2] \in Nat
                         /\ s <= M[k][1] /\ M[k][1] < M[k][2] /\ M[k][2] <= e
  <2>1. M \in Seq(SpansIn(s, e)) /\ \A k \in 1..n : M[k][1] < M[k][2]
    BY DEF NodesOf
  <2>2. n \in Nat /\ \A k \in 1..n : M[k] \in SpansIn(s, e)
    BY <2>1, LenProperties, ElementOfSeq
  <2> QED
    BY <2>1, <2>2 DEF SpansIn, Spans
<1>2. \A j, k \in 1..n : j < k => M[j][2] <= M[k][1]
  BY DEF NodesOf
<1>3. Divided(s, e, M) = FlattenSeq(seqs)
  BY DEF Divided
<1>4. span \in Spans /\ span[1] = s /\ span[2] = e
  BY DEF Spans
<1> HIDE DEF n, span
<1>5. ASSUME NEW k \in 1..(n + 1)
      PROVE  /\ From(k) \in Nat /\ To(k) \in Nat /\ Until(k) \in Nat
             /\ s <= From(k) /\ From(k) <= To(k) /\ To(k) <= Until(k) /\ Until(k) <= e
  <2>1. k = 1 \/ k - 1 \in 1..n
    BY <1>1
  <2>2. k = n + 1 \/ k \in 1..n
    BY <1>1
  <2>3. CASE k = n + 1
    BY <1>1, <2>1, <2>3
  <2>4. CASE k \in 1..n /\ k # n + 1
    <3>1. CASE k = 1
      BY <1>1, <2>4, <3>1
    <3>2. CASE k # 1 /\ k - 1 \in 1..n
      <4> DEFINE a == M[k - 1][2]
                 b == M[k][1]
                 c == M[k][2]
      <4>1. From(k) = a /\ To(k) = b /\ Until(k) = c
        BY <2>4, <3>2
      <4>2. k - 1 < k
        BY <1>1
      <4>3. a \in Nat /\ b \in Nat /\ c \in Nat /\ s <= M[k - 1][1] /\ M[k - 1][1] < a /\ b < c /\ c <= e
            /\ M[k - 1][1] \in Nat
        BY <1>1, <2>4, <3>2
      <4>4. a <= b
        BY <1>2, <2>4, <3>2, <4>2
      <4> HIDE DEF a, b, c, From, To, Until
      <4>5. s <= a /\ b <= c
        BY <4>3
      <4> QED
        BY <4>1, <4>3, <4>4, <4>5
    <3> QED
      BY <2>1, <3>1, <3>2
  <2> QED
    BY <2>2, <2>3, <2>4
<1>6. ASSUME NEW j \in 1..(n + 1), NEW k \in 1..(n + 1), j < k PROVE Until(j) <= From(k)
  <2>1. j \in 1..n /\ j # n + 1 /\ k # 1 /\ k - 1 \in 1..n /\ (j = k - 1 \/ j < k - 1)
    BY <1>1, <1>6
  <2>2. Until(j) = M[j][2] /\ From(k) = M[k - 1][2]
    BY <2>1
  <2>3. CASE j = k - 1
    BY <1>1, <2>1, <2>2, <2>3
  <2>4. CASE j < k - 1
    <3> DEFINE a == M[j][2]
               b == M[k - 1][1]
               c == M[k - 1][2]
    <3>1. a \in Nat /\ b \in Nat /\ c \in Nat /\ b < c
      BY <1>1, <2>1
    <3>2. a <= b
      BY <1>2, <2>1, <2>4
    <3> HIDE DEF a, b, c
    <3>3. a <= c
      BY <3>1, <3>2
    <3> QED
      BY <2>2, <3>3 DEF a, c
  <2> QED
    BY <2>1, <2>3, <2>4
<1>7. ASSUME NEW k \in 1..(n + 1), k + 1 \in 1..(n + 1) PROVE From(k + 1) = Until(k)
  <2>1. k + 1 # 1 /\ k # n + 1 /\ (k + 1) - 1 = k
    BY <1>1, <1>7
  <2> QED
    BY <2>1
<1>8. From(1) = s /\ Until(n + 1) = e
  OBVIOUS
<1>9. ASSUME NEW k \in 1..(n + 1)
      PROVE  outer[k] \in SpansIn(s, e) /\ outer[k][1] = From(k) /\ outer[k][2] = Until(k)
  <2>1. outer[k] = <<From(k), Until(k)>>
    OBVIOUS
  <2> HIDE DEF outer, From, Until, To
  <2> DEFINE a == From(k)
             b == Until(k)
             c == To(k)
  <2>2. a \in Nat /\ b \in Nat /\ c \in Nat /\ s <= a /\ a <= c /\ c <= b /\ b <= e
    BY <1>5
  <2> HIDE DEF a, b, c
  <2>3. a <= b
    BY <2>2
  <2>4. <<a, b>> \in SpansIn(s, e)
    BY <2>2, <2>3 DEF SpansIn, Spans
  <2> QED
    BY <2>1, <2>4 DEF a, b
<1>10. outer \in Seq(SpansIn(s, e)) /\ Len(outer) = n + 1
  <2>1. outer = [k \in 1..(n + 1) |-> outer[k]]
    OBVIOUS
  <2> HIDE DEF outer
  <2>2. n + 1 \in Nat
    BY <1>1
  <2>3. \A k \in 1..(n + 1) : outer[k] \in SpansIn(s, e)
    BY <1>9
  <2>4. outer \in [1..(n + 1) -> SpansIn(s, e)]
    BY <2>1, <2>3
  <2> QED
    BY <2>2, <2>4
<1> HIDE DEF outer, From, Until
<1>11. Chain(outer, Before)
  <2> SUFFICES ASSUME NEW j \in 1..(n + 1), NEW k \in 1..(n + 1), j < k
               PROVE  <<outer[j], outer[k]>> \in Before
    BY <1>10 DEF Chain
  <2>1. outer[j] \in Spans /\ outer[k] \in Spans
    BY <1>9 DEF SpansIn
  <2>2. outer[j][2] <= outer[k][1]
    BY <1>6, <1>9
  <2> QED
    BY <2>1, <2>2, Related
<1>12. ASSUME NEW i \in (s + 1)..e PROVE InSome(i, outer)
  <2> DEFINE T == {k \in 1..(n + 1) : i <= Until(k)}
  <2>1. n + 1 \in T
    BY <1>1, <1>8
  <2>2. PICK k \in T : \A j \in 1..(k - 1) : j \notin T
    <3>1. T \subseteq 1..(n + 1) /\ T # {} /\ 1 \in Nat /\ n + 1 \in Nat
      BY <1>1, <2>1
    <3> DEFINE m == n + 1
    <3> HIDE DEF T, m
    <3>2. \E k \in T : \A j \in 1..(k - 1) : j \notin T
      BY <3>1, LeastExists DEF m
    <3> QED
      BY <3>2
  <2>3. k \in 1..(n + 1) /\ i <= Until(k) /\ i \in Nat
    OBVIOUS
  <2>4. From(k) < i
    <3>1. CASE k = 1
      BY <1>8, <3>1
    <3>2. CASE k # 1
      <4> DEFINE j == k - 1
      <4>1. j \in 1..(n + 1) /\ j \in 1..(k - 1) /\ j + 1 = k
        BY <1>1, <2>3, <3>2
      <4>2. ~(i <= Until(j))
        BY <2>2, <4>1
      <4> HIDE DEF j
      <4>3. From(k) = Until(j) /\ Until(j) \in Nat
        BY <1>5, <1>7, <2>3, <4>1
      <4> QED
        BY <2>3, <4>2, <4>3
    <3> QED
      BY <3>1, <3>2
  <2>5. outer[k] \in ToSet(outer)
    BY <1>10, <2>3, ToSetIs
  <2> QED
    BY <1>9, <2>3, <2>4, <2>5 DEF InSome, In
<1>13. Pieces(outer, span, text, Before)
  BY <1>4, <1>10, <1>11, <1>12 DEF Pieces
<1>14. ASSUME NEW k \in 1..(n + 1)
       PROVE  seqs[k] \in Seq(Spans) /\ Pieces(seqs[k], outer[k], text, Before)
  <2> DEFINE f == From(k)
             t == To(k)
             u == Until(k)
             g == gap(k)
             m == match(k)
             X == SpansIn(f, u)
             hole == <<f, t>>
  <2>1. seqs[k] = g \o m
    OBVIOUS
  <2>2. f \in Nat /\ t \in Nat /\ u \in Nat /\ f <= t /\ t <= u /\ s <= f /\ u <= e
    BY <1>5
  <2>3. k \in 1..n => M[k] \in Spans /\ M[k][1] = t /\ M[k][2] = u
    BY <1>1 DEF Until
  <2>4. ~(k <= n) => t = u
    BY <1>1 DEF Until
  <2>5. k <= n => k \in 1..n
    BY <1>1
  <2> HIDE DEF f, t, u
  <2>6. hole \in X /\ hole[1] = f /\ hole[2] = t
    BY <2>2 DEF SpansIn, Spans
  <2>7. k <= n => M[k] \in X
    BY <2>2, <2>3, <2>5 DEF SpansIn
  <2>8. /\ g \in Seq(X) /\ Chain(g, Before)
        /\ f < t => ToSet(g) = {hole}
        /\ ~(f < t) => ToSet(g) = {}
    <3>1. CASE f < t
      <4>1. g = <<hole>>
        BY <3>1 DEF f, t
      <4> HIDE DEF g, hole, X
      <4> QED
        BY <2>6, <3>1, <4>1, SingleChain
    <3>2. CASE ~(f < t)
      <4>1. g = <<>>
        BY <3>2 DEF f, t
      <4> HIDE DEF g, hole, X
      <4> QED
        BY <3>2, <4>1, SingleChain, EmptySeq
    <3> QED
      BY <3>1, <3>2
  <2>9. /\ m \in Seq(X) /\ Chain(m, Before)
        /\ k <= n => ToSet(m) = {M[k]}
        /\ ~(k <= n) => ToSet(m) = {}
    <3>1. CASE k <= n
      <4>1. m = <<M[k]>>
        BY <3>1
      <4> HIDE DEF m, X
      <4> QED
        BY <2>7, <3>1, <4>1, SingleChain
    <3>2. CASE ~(k <= n)
      <4>1. m = <<>>
        BY <3>2
      <4> HIDE DEF m, X
      <4> QED
        BY <3>2, <4>1, SingleChain, EmptySeq
    <3> QED
      BY <3>1, <3>2
  <2> HIDE DEF g, m
  <2>10. Across(g, m, Before)
    <3> SUFFICES ASSUME NEW x \in ToSet(g), NEW y \in ToSet(m) PROVE <<x, y>> \in Before
      BY DEF Across
    <3>1. x = hole /\ f < t
      BY <2>8
    <3>2. k <= n /\ y = M[k]
      BY <2>9
    <3>3. x \in Spans /\ y \in Spans /\ x[2] = t /\ y[1] = t
      BY <2>3, <2>5, <2>6, <3>1, <3>2 DEF SpansIn
    <3>4. t <= t
      BY <2>2
    <3> QED
      BY <3>3, <3>4, Related
  <2>11. g \o m \in Seq(X) /\ Chain(g \o m, Before) /\ ToSet(g \o m) = ToSet(g) \cup ToSet(m)
    <3> HIDE DEF X
    <3> QED
      BY <2>8, <2>9, <2>10, ConcatChain
  <2>12. ASSUME NEW i \in (f + 1)..u PROVE InSome(i, g \o m)
    <3>1. i \in Nat /\ f < i /\ i <= u
      BY <2>2
    <3>2. CASE i <= t
      <4>1. f < t
        BY <2>2, <3>1, <3>2
      <4>2. hole \in ToSet(g \o m)
        BY <2>8, <2>11, <4>1
      <4> QED
        BY <2>6, <3>1, <3>2, <4>2 DEF InSome, In
    <3>3. CASE ~(i <= t)
      <4>1. k <= n
        BY <2>4, <3>1, <3>3
      <4>2. M[k] \in ToSet(g \o m) /\ M[k][1] = t /\ M[k][2] = u
        BY <2>3, <2>5, <2>9, <2>11, <4>1
      <4>3. t < i
        BY <2>2, <3>1, <3>3
      <4> QED
        BY <3>1, <4>2, <4>3 DEF InSome, In
    <3> QED
      BY <3>2, <3>3
  <2>13. outer[k][1] = f /\ outer[k][2] = u
    BY <1>9 DEF f, u
  <2>14. X \subseteq Spans
    BY DEF SpansIn
  <2>15. g \o m \in Seq(Spans)
    <3> HIDE DEF X
    <3> QED
      BY <2>11, <2>14, SeqMonotonic
  <2>16. Pieces(g \o m, outer[k], text, Before)
    BY <2>11, <2>12, <2>13 DEF Pieces
  <2> QED
    BY <2>1, <2>15, <2>16
<1>15. seqs \in Seq(Seq(Spans)) /\ Len(seqs) = Len(outer)
  <2>1. seqs = [k \in 1..(n + 1) |-> seqs[k]]
    OBVIOUS
  <2> HIDE DEF seqs
  <2>2. \A k \in 1..(n + 1) : seqs[k] \in Seq(Spans)
    BY <1>14
  <2>3. n + 1 \in Nat /\ Len(outer) = n + 1
    BY <1>1, <1>10
  <2>4. seqs \in [1..(n + 1) -> Seq(Spans)]
    BY <2>1, <2>2
  <2> QED
    BY <2>3, <2>4
<1> HIDE DEF seqs
<1>16. Pieces(FlattenSeq(seqs), span, text, Before)
  BY <1>4, <1>10, <1>13, <1>14, <1>15, PiecesOfPieces, Inherited
<1> QED
  BY <1>3, <1>16 DEF span

-----------------------------------------------------------------------------
(***************************************************************************)
(* The chunker of code: levels.                                            *)
(***************************************************************************)

\* The sequences of spans that cover a text in order.
Coverings(text) == {S \in Seq(Spans) : Pieces(S, <<0, Len(text)>>, text, Before)}

\* One level of the recursion.
LEMMA SplitLevelIs ==
    ASSUME NEW U, NEW text \in Seq(U), NEW spans \in Coverings(text)
    PROVE  SplitLevel(text, spans) \in Coverings(text)
<1> DEFINE whole == <<0, Len(text)>>
           Level(k) == LET s == spans[k][1]
                           e == spans[k][2]
                           nested == FindSplitNodes(text, s + 1, e)
                       IN IF e - s <= MaxLines \/ nested = <<>> THEN <<spans[k]>>
                          ELSE Divided(s, e, nested)
           seqs == [k \in DOMAIN spans |-> Level(k)]
<1>1. whole \in Spans /\ whole[1] = 0 /\ whole[2] = Len(text) /\ Len(text) \in Nat
  BY LenProperties DEF Spans
<1>2. Pieces(spans, whole, text, Before)
  BY DEF Coverings
<1>3. /\ Len(spans) \in Nat /\ DOMAIN spans = 1..Len(spans)
      /\ \A k \in 1..Len(spans) : /\ spans[k] \in Spans
                                  /\ whole[1] <= spans[k][1] /\ spans[k][2] <= whole[2]
  <2> HIDE DEF whole
  <2> QED
    BY <1>1, <1>2, PieceIs
<1>4. ASSUME NEW k \in 1..Len(spans) PROVE Pieces(Level(k), spans[k], text, Before)
  <2> DEFINE s == spans[k][1]
             e == spans[k][2]
             nested == FindSplitNodes(text, s + 1, e)
  <2>1. s \in Nat /\ e \in Nat /\ s <= e /\ e <= Len(text) /\ spans[k] = <<s, e>>
    BY <1>1, <1>3 DEF Spans
  <2>2. Level(k) = <<spans[k]>> \/ Level(k) = Divided(s, e, nested)
    OBVIOUS
  <2>3. Pieces(<<spans[k]>>, spans[k], text, Before)
    BY <1>3, WholeIsPiece
  <2> HIDE DEF s, e, Level
  <2>4. NodesOf(nested, s + 1, e)
    <3>1. s + 1 \in Nat /\ e \in 0..Len(text)
      BY <1>1, <2>1
    <3> DEFINE a == s + 1
    <3> HIDE DEF a
    <3>2. NodesOf(FindSplitNodes(text, a, e), a, e)
      BY <3>1, NodesAre DEF a
    <3> QED
      BY <3>2 DEF a
  <2> HIDE DEF nested
  <2>5. NodesOf(nested, s, e)
    <3>1. SpansIn(s + 1, e) \subseteq SpansIn(s, e)
      <4>1. ASSUME NEW x \in SpansIn(s + 1, e) PROVE x \in SpansIn(s, e)
        <5>1. x \in Spans /\ s + 1 <= x[1] /\ x[2] <= e
          BY DEF SpansIn
        <5>2. x[1] \in Nat
          BY <5>1 DEF Spans
        <5>3. s <= x[1]
          BY <2>1, <5>1, <5>2
        <5> QED
          BY <5>1, <5>3 DEF SpansIn
      <4> QED
        BY <4>1
    <3> QED
      BY <2>4, <3>1, SeqMonotonic DEF NodesOf
  <2>6. Pieces(Divided(s, e, nested), <<s, e>>, text, Before)
    BY <2>1, <2>5, DividedIs
  <2> QED
    BY <2>1, <2>2, <2>3, <2>6
<1>5. SplitLevel(text, spans) = FlattenSeq(seqs)
  BY DEF SplitLevel
<1> HIDE DEF Level, whole
<1>6. \A k \in 1..Len(spans) : Level(k) \in Seq(Spans)
  BY <1>3, <1>4, PieceIs
<1>7. seqs \in Seq(Seq(Spans)) /\ Len(seqs) = Len(spans)
      /\ \A k \in 1..Len(spans) : Pieces(seqs[k], spans[k], text, Before)
  BY <1>3, <1>4, <1>6
<1> HIDE DEF seqs
<1>8. Pieces(FlattenSeq(seqs), whole, text, Before)
  BY <1>1, <1>2, <1>7, PiecesOfPieces, Inherited
<1> DEFINE all == FlattenSeq(seqs)
<1> HIDE DEF all
<1>9. all \in Seq(Spans)
  BY <1>1, <1>8, PieceIs DEF all
<1> QED
  BY <1>5, <1>8, <1>9 DEF Coverings, all, whole

\* All of the levels.
LEMMA SplitNodeChildrenIs ==
    ASSUME NEW U, NEW text \in Seq(U)
    PROVE  SplitNodeChildren(text) \in Coverings(text)
<1> DEFINE N == Len(text)
           X == Coverings(text)
           none == Divided(0, Len(text), FindSplitNodes(text, 0, Len(text)))
           Body(g) == [n \in 0..N |-> IF n = 0
                                      THEN Divided(0, Len(text), FindSplitNodes(text, 0, Len(text)))
                                      ELSE SplitLevel(text, g[n - 1])]
           step == [a \in (1..N) \X X |-> SplitLevel(text, a[2])]
<1>1. N \in Nat
  BY LenProperties
<1>2. none \in X
  <2> DEFINE M == FindSplitNodes(text, 0, N)
  <2>1. 0 \in Nat /\ N \in 0..Len(text) /\ 0 <= N
    BY <1>1
  <2>2. NodesOf(M, 0, N)
    BY <2>1, NodesAre
  <2> HIDE DEF M
  <2>3. Pieces(Divided(0, N, M), <<0, N>>, text, Before)
    BY <1>1, <2>1, <2>2, DividedIs
  <2> DEFINE D == Divided(0, N, M)
             whole == <<0, N>>
  <2>4. whole \in Spans
    BY <1>1 DEF Spans
  <2> HIDE DEF D, whole
  <2>5. Pieces(D, whole, text, Before)
    BY <2>3 DEF D, whole
  <2>6. D \in Seq(Spans)
    BY <2>4, <2>5, PieceIs
  <2> QED
    BY <2>5, <2>6 DEF Coverings, D, M, whole
<1>3. step \in [(1..N) \X X -> X]
  <2>1. ASSUME NEW a \in (1..N) \X X PROVE SplitLevel(text, a[2]) \in X
    <3>1. a[2] \in X
      OBVIOUS
    <3> QED
      BY <3>1, SplitLevelIs
  <2> QED
    BY <2>1
<1>4. \A n \in 1..N, x \in X : step[<<n, x>>] = SplitLevel(text, x)
  OBVIOUS
<1>5. PICK g : Computation(g, X, none, step, N)
  <2> HIDE DEF step, N, X, none
  <2> QED
    BY <1>1, <1>2, <1>3, RecursionExists
<1> HIDE DEF step, N, X
<1>6. g = Body(g)
  <2>1. \A n \in 0..N : n = 0 \/ n \in 1..N
    BY <1>1
  <2>2. \A n \in 1..N : n - 1 \in 0..N /\ g[n - 1] \in X
    BY <1>1, <1>5 DEF Computation
  <2>3. \A n \in 0..N : g[n] = Body(g)[n]
    BY <1>4, <1>5, <2>1, <2>2 DEF Computation
  <2> QED
    BY <1>5, <2>3 DEF Computation
<1>7. Splitting(text) = CHOOSE h : h = Body(h)
  BY DEF Splitting, N
<1> DEFINE w == Splitting(text)
<1>8. w = Body(w)
  <2> HIDE DEF Body
  <2> QED
    BY <1>6, <1>7
<1> HIDE DEF w
<1>9. /\ w[0] = none /\ \A n \in 1..N : w[n] = SplitLevel(text, w[n - 1])
      /\ w = [n \in 0..N |-> w[n]]
  <2>1. 0 \in 0..N /\ \A n \in 1..N : n \in 0..N /\ n # 0
    BY <1>1
  <2> DEFINE b == Body(w)
  <2>2. /\ b[0] = none /\ \A n \in 1..N : b[n] = SplitLevel(text, w[n - 1])
        /\ b = [n \in 0..N |-> b[n]]
    BY <2>1
  <2> HIDE DEF b
  <2>3. w = b
    BY <1>8 DEF b
  <2> QED
    BY <2>2, <2>3
<1>10. Computation(w, X, none, step, N)
  <2> HIDE DEF none
  <2>1. \A n \in 1..N : w[n - 1] \in X => w[n] = step[<<n, w[n - 1]>>]
    BY <1>4, <1>9
  <2> QED
    BY <1>1, <1>2, <1>3, <1>9, <2>1, ComputationTyped
<1>11. w[N] \in X
  BY <1>1, <1>10 DEF Computation
<1> QED
  BY <1>11 DEF SplitNodeChildren, w, N, X

-----------------------------------------------------------------------------
(***************************************************************************)
(* The chunker of code: bytes.                                             *)
(***************************************************************************)

\* The byte at which a unit begins grows with the unit.
LEMMA BytesGrow ==
    ASSUME NEW text, NEW u \in Nat, NEW v \in Nat, u <= v
    PROVE  /\ ByteAt(text, u) \in Nat /\ ByteAt(text, v) \in Nat
           /\ ByteAt(text, u) <= ByteAt(text, v)
           /\ u < v => ByteAt(text, u) < ByteAt(text, v)
<1> DEFINE A == {j \in 1..u : text[j] = "wide"}
           B == {j \in 1..v : text[j] = "wide"}
           a == Cardinality(A)
           b == Cardinality(B)
<1>1. A \subseteq B /\ B \subseteq 1..v
  OBVIOUS
<1>2. IsFiniteSet(1..v)
  BY FS_Interval
<1>3. ByteAt(text, u) = u + a /\ ByteAt(text, v) = v + b
  BY DEF ByteAt
<1>4. IsFiniteSet(B)
  <2> DEFINE I == 1..v
  <2> HIDE DEF I, B
  <2> QED
    BY <1>1, <1>2, FS_Subset DEF I
<1>5. a \in Nat /\ b \in Nat /\ a <= b
  <2> HIDE DEF A, B
  <2> QED
    BY <1>1, <1>4, FS_Subset, FS_CardinalityType
<1> HIDE DEF a, b
<1> QED
  BY <1>3, <1>5

\* Counting the units up to the byte at which one begins gives that one.
LEMMA UnitsOfByte ==
    ASSUME NEW U, NEW text \in Seq(U), NEW u \in 0..Len(text)
    PROVE  UnitsTo(text, ByteAt(text, u)) = u
<1> DEFINE N == Len(text)
           A == {i \in DOMAIN text : ByteAt(text, i) <= ByteAt(text, u)}
<1>1. N \in Nat /\ DOMAIN text = 1..N /\ u \in Nat /\ u <= N
  BY LenProperties
<1>2. UnitsTo(text, ByteAt(text, u)) = Cardinality(A)
  BY DEF UnitsTo
<1>3. ASSUME NEW i \in 1..N PROVE ByteAt(text, i) <= ByteAt(text, u) <=> i <= u
  <2>1. i \in Nat
    BY <1>1
  <2>2. CASE i <= u
    BY <1>1, <2>1, <2>2, BytesGrow
  <2>3. CASE u < i
    <3> DEFINE x == ByteAt(text, u)
               y == ByteAt(text, i)
    <3>1. x \in Nat /\ y \in Nat /\ x < y
      BY <1>1, <2>1, <2>3, BytesGrow
    <3> HIDE DEF x, y
    <3>2. ~(y <= x)
      BY <3>1
    <3> QED
      BY <1>1, <2>1, <2>3, <3>2 DEF x, y
  <2> QED
    BY <1>1, <2>1, <2>2, <2>3
<1>4. A = 1..u
  <2> HIDE DEF N
  <2> QED
    BY <1>1, <1>3
<1>5. Cardinality(1..u) = u
  BY <1>1, FS_Interval
<1> QED
  BY <1>2, <1>4, <1>5

\* The units up to any byte are among those of the text.
LEMMA UnitsAreOfText ==
    ASSUME NEW U, NEW text \in Seq(U), NEW b
    PROVE  UnitsTo(text, b) \in 0..Len(text)
<1> DEFINE N == Len(text)
           A == {i \in DOMAIN text : ByteAt(text, i) <= b}
           I == 1..N
<1>1. N \in Nat /\ DOMAIN text = 1..N
  BY LenProperties
<1>2. UnitsTo(text, b) = Cardinality(A)
  BY DEF UnitsTo
<1>3. A \subseteq I
  BY <1>1
<1>4. IsFiniteSet(I) /\ Cardinality(I) = N
  BY <1>1, FS_Interval
<1> HIDE DEF A, I, N
<1>5. Cardinality(A) \in Nat /\ Cardinality(A) <= Cardinality(I)
  BY <1>3, <1>4, FS_Subset, FS_CardinalityType
<1> QED
  BY <1>1, <1>2, <1>4, <1>5 DEF N

\* What lies between two bytes is a part of the text.
LEMMA DecodeIs ==
    ASSUME NEW U, NEW text \in Seq(U), NEW b, NEW c
    PROVE  Decode(text, b, c) \in Seq(U) /\ Len(Decode(text, b, c)) \in Nat
<1> DEFINE m == UnitsTo(text, b)
           n == UnitsTo(text, c)
           t == SubSeq(text, m + 1, n)
<1>1. Len(text) \in Nat /\ m \in 0..Len(text) /\ n \in 0..Len(text)
  BY UnitsAreOfText, LenProperties
<1>2. Decode(text, b, c) = t
  BY DEF Decode
<1> HIDE DEF m, n
<1>3. t \in Seq(U)
  <2>1. CASE m <= n
    <3>1. n \in m..Len(text)
      BY <1>1, <2>1
    <3>2. Slice(text, m, n) \in Seq(U)
      BY <1>1, <3>1, SliceProperties
    <3> QED
      BY <3>2 DEF Slice
  <2>2. CASE n < m
    <3>1. t = <<>>
      BY <1>1, <2>2
    <3> HIDE DEF t
    <3> QED
      BY <3>1, EmptySeq
  <2> QED
    BY <1>1, <2>1, <2>2
<1> QED
  BY <1>2, <1>3, LenProperties

\* What lies between the bytes of two units are the units between them.
LEMMA DecodedSlice ==
    ASSUME NEW U, NEW text \in Seq(U), NEW u \in 0..Len(text), NEW v \in u..Len(text)
    PROVE  LET piece == Decode(text, ByteAt(text, u), ByteAt(text, v))
           IN piece = Slice(text, u, v) /\ Len(piece) = v - u
<1>1. v \in 0..Len(text)
  BY LenProperties
<1>2. UnitsTo(text, ByteAt(text, u)) = u /\ UnitsTo(text, ByteAt(text, v)) = v
  BY <1>1, UnitsOfByte
<1>3. Decode(text, ByteAt(text, u), ByteAt(text, v)) = Slice(text, u, v)
  BY <1>2 DEF Decode, Slice
<1> QED
  BY <1>3, SliceProperties

-----------------------------------------------------------------------------
(***************************************************************************)
(* The chunker of code: spans become chunks.                               *)
(***************************************************************************)

\* What the loop has in hand.
Pieced(U) == [text : Seq(U), start : Nat, end : Nat, headers : Seq(Nat)]

DecodeState(U) == [offset : Nat, byte : Nat, chunks : Seq(Pieced(U))]

\* One more span keeps its type.
LEMMA TakeSpanType ==
    ASSUME NEW U, NEW text \in Seq(U), NEW acc \in DecodeState(U), NEW span \in Spans
    PROVE  TakeSpan(acc, span, text) \in DecodeState(U)
<1> DEFINE gap == Decode(text, acc.byte, span[1])
           piece == Decode(text, span[1], span[2])
           start == acc.offset + Len(gap)
           end == start + Len(piece)
           chunk == [text |-> piece, start |-> start, end |-> end, headers |-> <<>>]
           chunks == IF IsBlank(piece) THEN acc.chunks ELSE Append(acc.chunks, chunk)
<1>1. /\ acc.offset \in Nat /\ acc.byte \in Nat /\ acc.chunks \in Seq(Pieced(U))
      /\ span[2] \in Nat
  BY DEF DecodeState, Spans
<1>2. TakeSpan(acc, span, text) = [offset |-> end, byte |-> span[2], chunks |-> chunks]
  BY DEF TakeSpan
<1>3. Len(gap) \in Nat /\ piece \in Seq(U) /\ Len(piece) \in Nat
  BY DecodeIs
<1> HIDE DEF gap, piece
<1>4. start \in Nat /\ end \in Nat
  BY <1>1, <1>3
<1>5. chunk \in Pieced(U)
  <2> DEFINE none == <<>>
  <2>1. none \in Seq(Nat)
    BY EmptySeq
  <2> HIDE DEF none, start, end
  <2>2. [text |-> piece, start |-> start, end |-> end, headers |-> none] \in Pieced(U)
    BY <1>3, <1>4, <2>1 DEF Pieced
  <2> QED
    BY <2>2 DEF none
<1> HIDE DEF chunk
<1>6. chunks \in Seq(Pieced(U))
  BY <1>1, <1>5, AppendElement
<1> HIDE DEF chunks, end
<1> QED
  BY <1>1, <1>2, <1>4, <1>6 DEF DecodeState

\* The loop takes span after span.
LEMMA DecodingSteps ==
    ASSUME NEW U, NEW text \in Seq(U), NEW S \in Seq(Spans)
    PROVE  /\ Decoding(S, text)[0] = [offset |-> 0, byte |-> 0, chunks |-> <<>>]
           /\ \A n \in 1..Len(S) : Decoding(S, text)[n] = TakeSpan(Decoding(S, text)[n - 1], S[n], text)
<1> DEFINE N == Len(S)
           X == DecodeState(U)
           none == [offset |-> 0, byte |-> 0, chunks |-> <<>>]
           Body(g) == [n \in 0..N |-> IF n = 0 THEN [offset |-> 0, byte |-> 0, chunks |-> <<>>]
                                      ELSE TakeSpan(g[n - 1], S[n], text)]
           step == [a \in (1..N) \X X |-> TakeSpan(a[2], S[a[1]], text)]
<1>1. N \in Nat /\ \A n \in 1..N : S[n] \in Spans
  BY LenProperties, ElementOfSeq
<1>2. none \in X
  BY EmptySeq DEF DecodeState
<1>3. step \in [(1..N) \X X -> X]
  <2>1. ASSUME NEW a \in (1..N) \X X PROVE TakeSpan(a[2], S[a[1]], text) \in X
    <3>1. a[1] \in 1..N /\ a[2] \in X
      OBVIOUS
    <3> QED
      BY <1>1, <3>1, TakeSpanType
  <2> QED
    BY <2>1
<1>4. \A n \in 1..N, x \in X : step[<<n, x>>] = TakeSpan(x, S[n], text)
  OBVIOUS
<1>5. PICK g : Computation(g, X, none, step, N)
  <2> HIDE DEF step, N, X, none
  <2> QED
    BY <1>1, <1>2, <1>3, RecursionExists
<1> HIDE DEF step, N, X
<1>6. g = Body(g)
  <2>1. \A n \in 0..N : n = 0 \/ n \in 1..N
    BY <1>1
  <2>2. \A n \in 1..N : n - 1 \in 0..N /\ g[n - 1] \in X
    BY <1>1, <1>5 DEF Computation
  <2>3. \A n \in 0..N : g[n] = Body(g)[n]
    BY <1>4, <1>5, <2>1, <2>2 DEF Computation
  <2> QED
    BY <1>5, <2>3 DEF Computation
<1>7. Decoding(S, text) = CHOOSE h : h = Body(h)
  BY DEF Decoding, N
<1> DEFINE w == Decoding(S, text)
<1>8. w = Body(w)
  <2> HIDE DEF Body
  <2> QED
    BY <1>6, <1>7
<1> HIDE DEF w
<1>9. w[0] = none /\ \A n \in 1..N : w[n] = TakeSpan(w[n - 1], S[n], text)
  <2>1. 0 \in 0..N /\ \A n \in 1..N : n \in 0..N /\ n # 0
    BY <1>1
  <2> DEFINE b == Body(w)
  <2>2. b[0] = none /\ \A n \in 1..N : b[n] = TakeSpan(w[n - 1], S[n], text)
    BY <2>1
  <2> HIDE DEF b
  <2>3. w = b
    BY <1>8 DEF b
  <2> QED
    BY <2>2, <2>3
<1> QED
  BY <1>9 DEF w, N

\* Where the loop is after n spans, and the bytes of spans.
Passed(P, n) == IF n = 0 THEN 0 ELSE P[n][2]

BytesOf(P, text) == [i \in DOMAIN P |-> <<ByteAt(text, P[i][1]), ByteAt(text, P[i][2])>>]

\* What the loop has after n spans: chunks in order up to there, and each unit
\* of those spans that is not blank in one of them.
DecodeInv(acc, P, n, U, text) ==
    /\ acc.offset = Passed(P, n) /\ acc.byte = ByteAt(text, Passed(P, n))
    /\ acc.chunks \in Seq(ChunksOf(U, text)) /\ Sorted(acc.chunks)
    /\ \A k \in 1..Len(acc.chunks) : acc.chunks[k].end <= Passed(P, n)
    /\ \A j \in 1..n : \A i \in 1..Len(text) :
          In(i, P[j]) /\ ~InSeparator(text, i)
            => \E k \in 1..Len(acc.chunks) : acc.chunks[k].start < i /\ i <= acc.chunks[k].end

\* The offsets of the spans of a text.
LEMMA CoveringOffsets ==
    ASSUME NEW U, NEW text \in Seq(U), NEW P \in Coverings(text)
    PROVE  /\ Len(P) \in Nat /\ DOMAIN P = 1..Len(P) /\ Len(text) \in Nat
           /\ \A k \in 1..Len(P) : /\ P[k] \in Spans /\ P[k][1] \in Nat /\ P[k][2] \in Nat
                                   /\ P[k][1] <= P[k][2] /\ P[k][2] <= Len(text)
           /\ \A n \in 0..Len(P) : Passed(P, n) \in 0..Len(text)
           /\ \A n \in Nat : n + 1 <= Len(P) => Passed(P, n) <= P[n + 1][1]
<1> DEFINE whole == <<0, Len(text)>>
<1>1. whole \in Spans /\ whole[2] = Len(text) /\ Len(text) \in Nat
  BY LenProperties DEF Spans
<1>2. Pieces(P, whole, text, Before)
  BY DEF Coverings
<1>3. /\ Len(P) \in Nat /\ DOMAIN P = 1..Len(P)
      /\ \A k \in 1..Len(P) : P[k] \in Spans /\ P[k][2] <= whole[2]
  <2> HIDE DEF whole
  <2> QED
    BY <1>1, <1>2, PieceIs
<1>4. \A k \in 1..Len(P) : /\ P[k] \in Spans /\ P[k][1] \in Nat /\ P[k][2] \in Nat
                           /\ P[k][1] <= P[k][2] /\ P[k][2] <= Len(text)
  BY <1>1, <1>3 DEF Spans
<1> HIDE DEF whole
<1>5. ASSUME NEW n \in 0..Len(P) PROVE Passed(P, n) \in 0..Len(text)
  <2>1. CASE n = 0
    BY <1>1, <2>1 DEF Passed
  <2>2. CASE n # 0
    <3>1. n \in 1..Len(P)
      BY <1>3, <2>2
    <3>2. Passed(P, n) = P[n][2]
      BY <2>2 DEF Passed
    <3> QED
      BY <1>1, <1>4, <3>1, <3>2
  <2> QED
    BY <2>1, <2>2
<1>6. ASSUME NEW n \in Nat, n + 1 <= Len(P) PROVE Passed(P, n) <= P[n + 1][1]
  <2>1. n + 1 \in 1..Len(P)
    BY <1>3, <1>6
  <2>2. CASE n = 0
    <3>1. Passed(P, n) = 0 /\ P[n + 1][1] \in Nat
      BY <1>4, <2>1, <2>2 DEF Passed
    <3> QED
      BY <3>1
  <2>3. CASE n # 0
    <3>1. n \in 1..Len(P) /\ n < n + 1
      BY <1>3, <1>6, <2>3
    <3>2. <<P[n], P[n + 1]>> \in Before
      BY <1>2, <2>1, <3>1 DEF Pieces, Chain
    <3>3. P[n][2] <= P[n + 1][1]
      BY <1>3, <2>1, <3>1, <3>2, Related
    <3> QED
      BY <2>3, <3>3 DEF Passed
  <2> QED
    BY <2>2, <2>3
<1> QED
  BY <1>1, <1>3, <1>4, <1>5, <1>6

\* One more span: the offset that was carried along is the one where it begins.
LEMMA TakeSpanKeeps ==
    ASSUME NEW U, NEW text \in Seq(U), NEW P \in Coverings(text), NEW n \in Nat,
           n + 1 <= Len(P), NEW acc, DecodeInv(acc, P, n, U, text)
    PROVE  DecodeInv(TakeSpan(acc, BytesOf(P, text)[n + 1], text), P, n + 1, U, text)
<1> DEFINE m == n + 1
           x == P[m]
           s == x[1]
           e == x[2]
           p == Passed(P, n)
           C == acc.chunks
           span == BytesOf(P, text)[m]
           gap == Decode(text, acc.byte, span[1])
           piece == Decode(text, span[1], span[2])
           start == acc.offset + Len(gap)
           end == start + Len(piece)
           chunk == [text |-> piece, start |-> start, end |-> end, headers |-> <<>>]
           chunks == IF IsBlank(piece) THEN C ELSE Append(C, chunk)
           next == TakeSpan(acc, span, text)
<1> SUFFICES DecodeInv(next, P, m, U, text)
  OBVIOUS
<1>1. next = [offset |-> end, byte |-> span[2], chunks |-> chunks]
  BY DEF TakeSpan
<1>2. /\ m \in 1..Len(P) /\ m - 1 = n /\ m # 0 /\ Len(text) \in Nat /\ DOMAIN P = 1..Len(P)
      /\ x \in Spans /\ s \in Nat /\ e \in Nat /\ s <= e /\ e <= Len(text)
      /\ p \in Nat /\ p <= s
  <2>1. /\ Len(P) \in Nat /\ DOMAIN P = 1..Len(P) /\ Len(text) \in Nat
        /\ \A k \in 1..Len(P) : /\ P[k] \in Spans /\ P[k][1] \in Nat /\ P[k][2] \in Nat
                                /\ P[k][1] <= P[k][2] /\ P[k][2] <= Len(text)
        /\ \A k \in 0..Len(P) : Passed(P, k) \in 0..Len(text)
        /\ Passed(P, n) <= P[n + 1][1]
    BY CoveringOffsets
  <2>2. n + 1 \in 1..Len(P) /\ n \in 0..Len(P)
    BY <2>1
  <2> QED
    BY <2>1, <2>2
<1>3. /\ acc.offset = p /\ acc.byte = ByteAt(text, p)
      /\ C \in Seq(ChunksOf(U, text)) /\ Sorted(C)
      /\ \A k \in 1..Len(C) : C[k].end <= p
      /\ \A j \in 1..n : \A i \in 1..Len(text) :
            In(i, P[j]) /\ ~InSeparator(text, i)
              => \E k \in 1..Len(C) : C[k].start < i /\ i <= C[k].end
  BY DEF DecodeInv
<1>4. span[1] = ByteAt(text, s) /\ span[2] = ByteAt(text, e)
  BY <1>2 DEF BytesOf
<1>5. Passed(P, m) = e
  BY <1>2 DEF Passed
<1> HIDE DEF next, C, span, p, s, e
<1>6. Len(gap) = s - p
  <2>1. p \in 0..Len(text) /\ s \in p..Len(text)
    BY <1>2
  <2>2. LET d == Decode(text, ByteAt(text, p), ByteAt(text, s))
        IN d = Slice(text, p, s) /\ Len(d) = s - p
    BY <2>1, DecodedSlice
  <2> QED
    BY <1>3, <1>4, <2>2
<1>7. piece = Slice(text, s, e) /\ Len(piece) = e - s
  <2>1. s \in 0..Len(text) /\ e \in s..Len(text)
    BY <1>2
  <2>2. LET d == Decode(text, ByteAt(text, s), ByteAt(text, e))
        IN d = Slice(text, s, e) /\ Len(d) = e - s
    BY <2>1, DecodedSlice
  <2> QED
    BY <1>4, <2>2
<1> HIDE DEF gap, piece
<1>8. start = s /\ end = e
  <2>1. start = p + (s - p)
    BY <1>3, <1>6
  <2>2. start = s
    BY <1>2, <2>1
  <2>3. end = s + (e - s)
    BY <1>7, <2>2
  <2> QED
    BY <1>2, <2>2, <2>3
<1>9. chunk = Chunk(text, s, e, <<>>)
  BY <1>7, <1>8 DEF Chunk
<1> HIDE DEF start, end, chunk
<1>10. p <= e
  BY <1>2
<1>11. \A k \in 1..Len(C) : C[k].end \in Nat /\ C[k].end <= e
  <2>1. ASSUME NEW k \in 1..Len(C) PROVE C[k].end \in Nat /\ C[k].end <= e
    <3> DEFINE z == C[k].end
    <3>1. z \in Nat /\ z <= p
      BY <1>3, Offsets
    <3> HIDE DEF z
    <3>2. z <= e
      BY <1>2, <1>10, <3>1
    <3> QED
      BY <3>1, <3>2 DEF z
  <2> QED
    BY <2>1
<1>12. \A j \in 1..m : j \in 1..n \/ j = m
  BY <1>2
<1>13. \A i \in 1..Len(text) : In(i, x) /\ ~InSeparator(text, i) => ~IsBlank(piece)
  <2>1. \A i \in 1..Len(text) : In(i, x) /\ text[i] \notin Blanks => ~IsBlank(piece)
    BY <1>2, <1>7, BlankSpan DEF s, e
  <2>2. QED
    BY <2>1 DEF InSeparator
<1>14. next.offset = e /\ next.byte = ByteAt(text, e) /\ next.chunks = chunks
  BY <1>1, <1>4, <1>8
<1>15. CASE IsBlank(piece)
  <2>1. chunks = C
    BY <1>15
  <2> HIDE DEF chunks
  <2>2. \A j \in 1..m : \A i \in 1..Len(text) :
            In(i, P[j]) /\ ~InSeparator(text, i)
              => \E k \in 1..Len(C) : C[k].start < i /\ i <= C[k].end
    BY <1>3, <1>12, <1>13, <1>15 DEF x
  <2> HIDE DEF m, x
  <2> QED
    BY <1>3, <1>5, <1>11, <1>14, <2>1, <2>2 DEF DecodeInv
<1>16. CASE ~IsBlank(piece)
  <2> DEFINE t == Append(C, chunk)
  <2>1. chunks = t
    BY <1>16
  <2>2. s < e
    BY <1>2, <1>7, <1>16, BlankSpan DEF s, e
  <2>3. chunk \in ChunksOf(U, text) /\ chunk.start = s /\ chunk.end = e
    <3> DEFINE none == <<>>
    <3>1. none \in Seq(Nat)
      BY EmptySeq
    <3> HIDE DEF none
    <3>2. LET d == Chunk(text, s, e, none)
          IN d \in ChunksOf(U, text) /\ d.start = s /\ d.end = e
      BY <1>2, <2>2, <3>1, ChunkIs
    <3> QED
      BY <1>9, <3>2 DEF none
  <2>4. /\ t \in Seq(ChunksOf(U, text)) /\ Sorted(t) /\ Len(t) = Len(C) + 1
        /\ t[Len(C) + 1] = chunk /\ \A k \in 1..Len(C) : t[k] = C[k]
    <3>1. \A k \in 1..Len(C) : C[k].end <= chunk.start
      <4>1. ASSUME NEW k \in 1..Len(C) PROVE C[k].end <= s
        <5> DEFINE z == C[k].end
        <5>1. z \in Nat /\ z <= p
          BY <1>3, Offsets
        <5> HIDE DEF z
        <5>2. z <= s
          BY <1>2, <5>1
        <5> QED
          BY <5>2 DEF z
      <4> QED
        BY <2>3, <4>1
    <3> QED
      BY <1>3, <2>3, <3>1, NextInOrder
  <2> HIDE DEF t, chunks
  <2>5. Len(C) \in Nat
    BY <1>3, LenProperties
  <2>6. \A k \in 1..Len(t) : k \in 1..Len(C) \/ k = Len(C) + 1
    BY <2>4, <2>5
  <2>7. \A k \in 1..Len(t) : t[k].end <= e
    <3>1. e <= e
      BY <1>2
    <3> QED
      BY <1>11, <2>3, <2>4, <2>6, <3>1
  <2>8. ASSUME NEW j \in 1..m, NEW i \in 1..Len(text), In(i, P[j]), ~InSeparator(text, i)
        PROVE  \E k \in 1..Len(t) : t[k].start < i /\ i <= t[k].end
    <3>1. CASE j \in 1..n
      <4>1. PICK k \in 1..Len(C) : C[k].start < i /\ i <= C[k].end
        BY <1>3, <2>8, <3>1
      <4>2. k \in 1..Len(t) /\ t[k] = C[k]
        BY <2>4, <2>5
      <4> QED
        BY <4>1, <4>2
    <3>2. CASE j = m
      <4>1. s < i /\ i <= e
        BY <2>8, <3>2 DEF In, s, e
      <4>2. Len(C) + 1 \in 1..Len(t)
        BY <2>4, <2>5
      <4> QED
        BY <2>3, <2>4, <4>1, <4>2
    <3> QED
      BY <1>12, <3>1, <3>2
  <2> HIDE DEF m, x
  <2> QED
    BY <1>5, <1>14, <2>1, <2>4, <2>7, <2>8 DEF DecodeInv
<1> QED
  BY <1>15, <1>16

\* The chunks of all of the spans.
LEMMA SpansDecoded ==
    ASSUME NEW U, NEW text \in Seq(U), NEW P \in Coverings(text)
    PROVE  LET D == CodeSpansToChunks(BytesOf(P, text), text)
           IN /\ D \in Seq(ChunksOf(U, text)) /\ Sorted(D)
              /\ \A i \in 1..Len(text) :
                    ~InSeparator(text, i)
                      => \E k \in 1..Len(D) : D[k].start < i /\ i <= D[k].end
<1> DEFINE S == BytesOf(P, text)
           N == Len(P)
           w == Decoding(S, text)
           T == {n \in Nat : n <= N => DecodeInv(w[n], P, n, U, text)}
<1>1. /\ N \in Nat /\ DOMAIN P = 1..N /\ Len(text) \in Nat
      /\ \A k \in 1..N : P[k][1] \in Nat /\ P[k][2] \in Nat /\ P[k][1] <= P[k][2]
  BY CoveringOffsets
<1>2. S \in Seq(Spans) /\ Len(S) = N
  <2>1. S = [k \in 1..N |-> <<ByteAt(text, P[k][1]), ByteAt(text, P[k][2])>>]
    BY <1>1 DEF BytesOf
  <2> HIDE DEF S
  <2>2. ASSUME NEW k \in 1..N PROVE S[k] \in Spans
    <3> DEFINE a == ByteAt(text, P[k][1])
               b == ByteAt(text, P[k][2])
    <3>1. S[k] = <<a, b>>
      BY <2>1
    <3>2. a \in Nat /\ b \in Nat /\ a <= b
      BY <1>1, BytesGrow
    <3> HIDE DEF a, b
    <3> QED
      BY <3>1, <3>2 DEF Spans
  <2>3. S = [k \in 1..N |-> S[k]]
    BY <2>1
  <2> QED
    BY <1>1, <2>2, <2>3
<1> HIDE DEF S
<1>3. /\ w[0] = [offset |-> 0, byte |-> 0, chunks |-> <<>>]
      /\ \A n \in 1..N : w[n] = TakeSpan(w[n - 1], S[n], text)
  <2> HIDE DEF N, w
  <2>1. /\ Decoding(S, text)[0] = [offset |-> 0, byte |-> 0, chunks |-> <<>>]
        /\ \A n \in 1..Len(S) : Decoding(S, text)[n] = TakeSpan(Decoding(S, text)[n - 1], S[n], text)
    BY <1>2, DecodingSteps
  <2> QED
    BY <1>2, <2>1 DEF w
<1> HIDE DEF w, N
<1>4. 0 \in T
  <2> DEFINE C == <<>>
             acc == w[0]
  <2>1. C \in Seq(ChunksOf(U, text)) /\ Len(C) = 0
    BY EmptySeq
  <2>2. 1..0 = {}
    OBVIOUS
  <2>3. acc.offset = 0 /\ acc.byte = 0 /\ acc.chunks = C
    BY <1>3
  <2> HIDE DEF C, acc
  <2>4. Sorted(C)
    BY <2>1, <2>2 DEF Sorted
  <2>5. Passed(P, 0) = 0
    BY DEF Passed
  <2>6. ByteAt(text, 0) = 0
    <3>1. {j \in 1..0 : text[j] = "wide"} = {}
      BY <2>2
    <3> QED
      BY <3>1, FS_EmptySet DEF ByteAt
  <2>7. DecodeInv(acc, P, 0, U, text)
    BY <2>1, <2>2, <2>3, <2>4, <2>5, <2>6 DEF DecodeInv
  <2> QED
    BY <2>7 DEF acc
<1>5. ASSUME NEW n \in Nat, n \in T PROVE n + 1 \in T
  <2> DEFINE m == n + 1
  <2> SUFFICES ASSUME m <= N PROVE DecodeInv(w[m], P, m, U, text)
    OBVIOUS
  <2>1. m \in 1..N /\ n <= N /\ m - 1 = n
    BY <1>1
  <2>2. DecodeInv(w[n], P, n, U, text)
    BY <1>5, <2>1
  <2>3. w[m] = TakeSpan(w[n], S[m], text)
    <3> HIDE DEF m
    <3> QED
      BY <1>3, <2>1
  <2>4. DecodeInv(TakeSpan(w[n], S[n + 1], text), P, n + 1, U, text)
    BY <2>1, <2>2, TakeSpanKeeps DEF S, N
  <2> QED
    BY <2>3, <2>4
<1>6. Nat \subseteq T
  <2> HIDE DEF T
  <2> QED
    BY <1>4, <1>5, NatInd
<1>7. DecodeInv(w[N], P, N, U, text)
  <2>1. N \in T /\ N <= N
    <3> HIDE DEF T
    <3> QED
      BY <1>1, <1>6
  <2> QED
    BY <2>1
<1> DEFINE D == w[N].chunks
<1>8. CodeSpansToChunks(S, text) = D
  BY <1>2 DEF CodeSpansToChunks, w
<1>9. /\ D \in Seq(ChunksOf(U, text)) /\ Sorted(D)
      /\ \A j \in 1..N : \A i \in 1..Len(text) :
            In(i, P[j]) /\ ~InSeparator(text, i)
              => \E k \in 1..Len(D) : D[k].start < i /\ i <= D[k].end
  BY <1>7 DEF DecodeInv
<1> HIDE DEF D
<1>10. ASSUME NEW i \in 1..Len(text), ~InSeparator(text, i)
       PROVE  \E k \in 1..Len(D) : D[k].start < i /\ i <= D[k].end
  <2>1. Pieces(P, <<0, Len(text)>>, text, Before) /\ P \in Seq(Spans)
    BY DEF Coverings
  <2>2. i \in (0 + 1)..Len(text)
    BY <1>1
  <2>3. InSome(i, P)
    BY <1>10, <2>1, <2>2 DEF Pieces
  <2>4. ToSet(P) = {P[j] : j \in 1..N}
    BY <2>1, ToSetIs DEF N
  <2>5. PICK j \in 1..N : In(i, P[j])
    BY <2>3, <2>4 DEF InSome
  <2> QED
    BY <1>9, <1>10, <2>5
<1> QED
  BY <1>8, <1>9, <1>10 DEF S

\* What the chunker of code returns for a text that is not blank.
LEMMA CodeChunkIs ==
    ASSUME NEW U, NEW text \in Seq(U), ~IsBlank(text)
    PROVE  LET D == CodeChunk(text)
           IN /\ D \in Seq(ChunksOf(U, text)) /\ Sorted(D)
              /\ \A i \in 1..Len(text) :
                    ~InSeparator(text, i)
                      => \E k \in 1..Len(D) : D[k].start < i /\ i <= D[k].end
<1>1. CASE IsTreeUnusable(text)
  <2>1. CodeChunk(text) = RecursiveChunk(text)
    BY <1>1 DEF CodeChunk
  <2> QED
    BY <2>1, RecursiveChunkIs
<1>2. CASE ~IsTreeUnusable(text)
  <2> DEFINE P == SplitNodeChildren(text)
  <2>1. P \in Coverings(text)
    BY SplitNodeChildrenIs
  <2>2. CodeChunk(text) = CodeSpansToChunks(BytesOf(P, text), text)
    BY <1>2 DEF CodeChunk, BytesOf
  <2> HIDE DEF P
  <2> QED
    BY <2>1, <2>2, SpansDecoded
<1> QED
  BY <1>1, <1>2

-----------------------------------------------------------------------------
(***************************************************************************)
(* The chunkers of the factory.                                            *)
(***************************************************************************)

\* Chunks as the stream needs them.
LEMMA MeetsFrom ==
    ASSUME NEW k, NEW text \in Seq(UnitsOf[k]), NEW D \in Seq(ChunksOf(UnitsOf[k], text)),
           k \in Rewinding \/ Sorted(D),
           \A i \in 1..Len(text) :
              ~MayDrop(k, text, i)
                => \E j \in 1..Len(D) : D[j].start < i /\ i <= D[j].end
    PROVE  Meets(k, D, text)
<1> DEFINE U == UnitsOf[k]
<1>1. Len(text) \in Nat /\ DOMAIN text = 1..Len(text)
  BY LenProperties
<1>2. DOMAIN D = 1..Len(D) /\ Len(D) \in Nat
  BY LenProperties
<1>3. ASSUME NEW j \in DOMAIN D
      PROVE  /\ D[j].start \in 0..(Len(text) - 1)
             /\ D[j].end \in (D[j].start + 1)..Len(text)
             /\ D[j].text = Slice(text, D[j].start, D[j].end)
  <2>1. D[j] \in ChunksOf(U, text)
    BY <1>2, Offsets
  <2>2. /\ D[j].start \in Nat /\ D[j].end \in Nat /\ D[j].start < D[j].end
        /\ D[j].end <= Len(text) /\ D[j].text = Slice(text, D[j].start, D[j].end)
    BY <2>1, ChunkLength
  <2> QED
    BY <1>1, <2>2
<1>4. SlicesOf(D, text)
  BY <1>3 DEF SlicesOf
<1>5. D \in Seq(ChunkType(k))
  <2>1. ChunksOf(U, text) \subseteq ChunkType(k)
    BY DEF ChunksOf, ChunkType
  <2> QED
    BY <2>1, SeqMonotonic
<1>6. \A i \in DOMAIN text : MayDrop(k, text, i) \/ Covered(D, i)
  BY <1>1, <1>2 DEF Covered
<1>7. k \in Rewinding \/ Advance(D)
  BY <1>2 DEF Sorted, Advance
<1> QED
  BY <1>4, <1>5, <1>6, <1>7 DEF Meets

\* No text is a blank text.
LEMMA NoChunks ==
    ASSUME NEW k, NEW text \in Seq(UnitsOf[k]), IsBlank(text)
    PROVE  Meets(k, <<>>, text)
<1> DEFINE D == <<>>
<1>1. D \in Seq(ChunksOf(UnitsOf[k], text)) /\ Len(D) = 0
  BY EmptySeq
<1>2. 1..0 = {}
  OBVIOUS
<1>3. \A i \in 1..Len(text) : MayDrop(k, text, i)
  BY LenProperties DEF IsBlank, MayDrop, InSeparator
<1> HIDE DEF D
<1>4. Sorted(D)
  BY <1>1, <1>2 DEF Sorted
<1>5. Meets(k, D, text)
  BY <1>1, <1>3, <1>4, MeetsFrom
<1> QED
  BY <1>5 DEF D

\* Chunks that are within a size.
LEMMA WithinSizeFrom ==
    ASSUME NEW U, NEW text \in Seq(U), NEW D \in Seq(ChunksOf(U, text)), Narrow(D, ChunkSize)
    PROVE  WithinSize(D)
<1>1. DOMAIN D = 1..Len(D)
  BY LenProperties
<1>2. ASSUME NEW k \in 1..Len(D) PROVE Len(D[k].text) <= ChunkSize
  <2>1. D[k] \in ChunksOf(U, text)
    BY Offsets
  <2>2. Len(D[k].text) = D[k].end - D[k].start
    BY <2>1, ChunkLength
  <2> QED
    BY <2>2 DEF Narrow
<1> QED
  BY <1>1, <1>2 DEF WithinSize

\* Chunks without room for the small ones among them.
LEMMA FoldedFrom ==
    ASSUME NEW U, NEW text \in Seq(U), NEW D \in Seq(ChunksOf(U, text)), NoRoom(D),
           Len(D) > 1 /\ IsSmall(D[1]) => D[2].end - D[1].start > ChunkSize
    PROVE  Folded(D)
<1>1. ASSUME NEW k \in 2..Len(D)
      PROVE  /\ IsSmall(D[k]) => ~(D[k].end - D[k - 1].start <= ChunkSize)
             /\ k = 2 /\ IsSmall(D[1]) => ~(D[k].end - D[k - 1].start <= ChunkSize)
  <2>1. Len(D) \in Nat /\ k \in 1..Len(D) /\ k - 1 \in 1..Len(D)
    BY Offsets
  <2> DEFINE a == D[k - 1].start
             b == D[k].end
  <2>2. D[k] \in ChunksOf(U, text) /\ a \in Nat /\ b \in Nat
    BY <2>1, Offsets
  <2>3. b - a > ChunkSize => ~(b - a <= ChunkSize)
    <3> HIDE DEF a, b
    <3> QED
      BY <2>2, SizesAreNatural
  <2>4. IsSmall(D[k]) => b - a > ChunkSize
    <3>1. IsSmall(D[k]) => D[k].end - D[k].start < MinChunkSize
      BY <2>2, ChunkLength
    <3> QED
      BY <3>1 DEF NoRoom
  <2>5. k = 2 /\ IsSmall(D[1]) => b - a > ChunkSize
    <3> SUFFICES ASSUME k = 2, IsSmall(D[1]) PROVE b - a > ChunkSize
      OBVIOUS
    <3>1. Len(D) > 1 /\ k - 1 = 1
      BY <2>1
    <3>2. a = D[1].start /\ b = D[2].end
      BY <3>1
    <3> HIDE DEF a, b
    <3> QED
      BY <3>1, <3>2
  <2> QED
    BY <2>3, <2>4, <2>5
<1> QED
  BY <1>1 DEF Folded

\* Whatever units the texts of a kind are made of, each of the four chunkers is
\* one as the stream needs it, on texts of any length: its chunks are slices of
\* the text, they leave nothing out but the separators that the kind may drop,
\* and, unless they grow backwards, each begins after the one before it.
THEOREM FactoryMeetsContract ==
    ASSUME NEW k \in {"default", "sentence", "structure", "code"},
           NEW text \in Seq(UnitsOf[k])
    PROVE  Meets(k, ChunkWith(k, text), text)
<1>1. CASE IsBlank(text)
  <2>1. ChunkWith(k, text) = <<>>
    BY <1>1 DEF ChunkWith, RecursiveChunk, SentenceChunk, StructureChunk, CodeChunk
  <2> QED
    BY <1>1, <2>1, NoChunks
<1>2. CASE ~IsBlank(text)
  <2> DEFINE D == ChunkWith(k, text)
             U == UnitsOf[k]
  <2> SUFFICES Meets(k, D, text)
    OBVIOUS
  <2>1. /\ D \in Seq(ChunksOf(U, text))
        /\ k \in Rewinding \/ Sorted(D)
        /\ \A i \in 1..Len(text) :
              ~MayDrop(k, text, i)
                => \E j \in 1..Len(D) : D[j].start < i /\ i <= D[j].end
    <3>1. CASE k = "default"
      <4>1. D = RecursiveChunk(text)
        BY <3>1 DEF ChunkWith
      <4>2. \A i \in 1..Len(text) : MayDrop(k, text, i) <=> InSeparator(text, i)
        BY <3>1 DEF MayDrop
      <4> HIDE DEF D, U
      <4> QED
        BY <1>2, <4>1, <4>2, RecursiveChunkIs DEF U
    <3>2. CASE k = "sentence"
      <4>1. D = SentenceChunk(text) /\ k \in Rewinding
        BY <3>2 DEF ChunkWith, Rewinding
      <4>2. \A i \in 1..Len(text) : MayDrop(k, text, i) <=> text[i] \in Blanks
        BY <3>2 DEF MayDrop
      <4> HIDE DEF D, U
      <4> QED
        BY <1>2, <4>1, <4>2, SentenceChunkIs DEF U
    <3>3. CASE k = "structure"
      <4>1. D = StructureChunk(text)
        BY <3>3 DEF ChunkWith
      <4>2. \A i \in 1..Len(text) : MayDrop(k, text, i) <=> InSeparator(text, i)
        BY <3>3 DEF MayDrop
      <4> HIDE DEF D, U
      <4> QED
        BY <1>2, <4>1, <4>2, StructureChunkIs DEF U
    <3>4. CASE k = "code"
      <4>1. D = CodeChunk(text)
        BY <3>4 DEF ChunkWith
      <4>2. \A i \in 1..Len(text) : MayDrop(k, text, i) <=> InSeparator(text, i)
        BY <3>4 DEF MayDrop
      <4> HIDE DEF D, U
      <4> QED
        BY <1>2, <4>1, <4>2, CodeChunkIs DEF U
    <3> QED
      BY <3>1, <3>2, <3>3, <3>4
  <2> HIDE DEF D
  <2> QED
    BY <2>1, MeetsFrom
<1> QED
  BY <1>1, <1>2

\* What the two chunkers with a ceiling return for a text that is not blank.
LEMMA LimitedChunkIs ==
    ASSUME NEW k \in Limited, NEW U, NEW text \in Seq(U), ~IsBlank(text)
    PROVE  LET D == ChunkWith(k, text)
           IN /\ D \in Seq(ChunksOf(U, text)) /\ Narrow(D, ChunkSize) /\ NoRoom(D)
              /\ Len(D) > 1 /\ IsSmall(D[1]) => D[2].end - D[1].start > ChunkSize
<1>1. CASE k = "default"
  <2>1. ChunkWith(k, text) = RecursiveChunk(text)
    BY <1>1 DEF ChunkWith
  <2> QED
    BY <2>1, RecursiveChunkIs
<1>2. CASE k = "structure"
  <2>1. ChunkWith(k, text) = StructureChunk(text)
    BY <1>2 DEF ChunkWith
  <2> QED
    BY <2>1, StructureChunkIs
<1> QED
  BY <1>1, <1>2 DEF Limited

\* And for one that is.
LEMMA LimitedNoChunks ==
    ASSUME NEW k \in Limited, NEW text, IsBlank(text)
    PROVE  ChunkWith(k, text) = <<>>
BY DEF Limited, ChunkWith, RecursiveChunk, StructureChunk

\* chunk_size is a ceiling: the overlap that the splitter keeps leaves room for
\* the next leaf, a section that is too long is split, and a merge stops at the
\* ceiling, for texts and sizes of any length.
THEOREM LimitedWithinSize ==
    ASSUME NEW k \in Limited, NEW U, NEW text \in Seq(U)
    PROVE  WithinSize(ChunkWith(k, text))
<1> DEFINE D == ChunkWith(k, text)
<1> SUFFICES WithinSize(D)
  OBVIOUS
<1>1. CASE IsBlank(text)
  <2>1. D = <<>>
    BY <1>1, LimitedNoChunks
  <2>2. DOMAIN D = {}
    BY <2>1
  <2> HIDE DEF D
  <2> QED
    BY <2>2 DEF WithinSize
<1>2. CASE ~IsBlank(text)
  <2>1. D \in Seq(ChunksOf(U, text)) /\ Narrow(D, ChunkSize)
    BY <1>2, LimitedChunkIs
  <2> HIDE DEF D
  <2> QED
    BY <2>1, WithinSizeFrom
<1> QED
  BY <1>1, <1>2

\* Nor do they leave a fragment beside a neighbour that has room for it, though
\* a fragment that joins its neighbour may itself change whom the next one joins.
THEOREM LimitedFolds ==
    ASSUME NEW k \in Limited, NEW U, NEW text \in Seq(U)
    PROVE  Folded(ChunkWith(k, text))
<1> DEFINE D == ChunkWith(k, text)
<1> SUFFICES Folded(D)
  OBVIOUS
<1>1. CASE IsBlank(text)
  <2>1. D = <<>>
    BY <1>1, LimitedNoChunks
  <2>2. Len(D) = 0
    BY <2>1
  <2> HIDE DEF D
  <2> QED
    BY <2>2 DEF Folded
<1>2. CASE ~IsBlank(text)
  <2>1. /\ D \in Seq(ChunksOf(U, text)) /\ NoRoom(D)
        /\ Len(D) > 1 /\ IsSmall(D[1]) => D[2].end - D[1].start > ChunkSize
    BY <1>2, LimitedChunkIs
  <2> HIDE DEF D
  <2> QED
    BY <2>1, FoldedFrom
<1> QED
  BY <1>1, <1>2

\* A heading stays with its section: whatever chunks it is merged into or split
\* over, the one in which it lies lists it.
THEOREM StructureKeepsHeadings ==
    ASSUME NEW U, NEW text \in Seq(U), NEW c \in Range(StructureChunk(text)),
           NEW h \in Range(Headings(text)), c.start < h, h <= c.end
    PROVE  (h - 1) \in Range(c.headers)
<1> DEFINE D == StructureChunk(text)
<1>1. CASE IsBlank(text)
  <2>1. D = <<>>
    BY <1>1 DEF StructureChunk
  <2>2. DOMAIN D = {}
    BY <2>1
  <2>3. c \in Range(D)
    OBVIOUS
  <2> HIDE DEF D
  <2> QED
    BY <2>2, <2>3 DEF Range
<1>2. CASE ~IsBlank(text)
  <2>1. D \in Seq(ChunksOf(U, text)) /\ Headed(D, text)
    BY <1>2, StructureChunkIs
  <2>2. c \in Range(D)
    OBVIOUS
  <2> HIDE DEF D
  <2>3. DOMAIN D = 1..Len(D)
    BY <2>1, LenProperties
  <2>4. PICK k \in 1..Len(D) : c = D[k]
    BY <2>2, <2>3 DEF Range
  <2>5. Lists(c, text)
    BY <2>1, <2>4 DEF Headed
  <2> QED
    BY <2>5 DEF Lists
<1> QED
  BY <1>1, <1>2

-----------------------------------------------------------------------------
\* Page markers.

\* A marker: where a segment begins, and its page.
Marker == [at : Nat, page : Nat \cup {NoPage}]

\* What the markers of a sequence are.
LEMMA MarkerAt ==
    ASSUME NEW m \in Seq(Marker)
    PROVE  /\ Len(m) \in Nat /\ DOMAIN m = 1..Len(m)
           /\ \A i \in 1..Len(m) : m[i].at \in Nat /\ m[i].page \in Nat \cup {NoPage}
<1>1. \A i \in 1..Len(m) : m[i] \in Marker
  BY ElementOfSeq
<1>2. QED
  BY <1>1, LenProperties DEF Marker

\* The last marker that begins at the offset or before it is one that does, and
\* none after it does.
LEMMA LastBegunProperties ==
    ASSUME NEW m \in Seq(Marker), NEW o \in Int
    PROVE  /\ LastBegun(m, o) \in 0..Len(m)
           /\ LastBegun(m, o) # 0 => m[LastBegun(m, o)].at <= o
           /\ \A i \in 1..Len(m) : i > LastBegun(m, o) => m[i].at > o
<1> DEFINE S == {0} \cup {i \in DOMAIN m : m[i].at <= o}
<1>1. /\ Len(m) \in Nat /\ DOMAIN m = 1..Len(m)
      /\ \A i \in 1..Len(m) : m[i].at \in Nat
  BY MarkerAt
<1>2. S \subseteq 0..Len(m) /\ 0 \in S
  BY <1>1
<1>3. LastBegun(m, o) = Max(S)
  BY DEF LastBegun
<1>4. Max(S) \in S /\ \A x \in S : x <= Max(S)
  <2> HIDE DEF S
  <2>1. QED
    BY <1>1, <1>2, MaxOfBounded
<1>5. Max(S) \in 0..Len(m)
  BY <1>2, <1>4
<1>6. Max(S) # 0 => m[Max(S)].at <= o
  BY <1>4
<1>7. ASSUME NEW i \in 1..Len(m), i > Max(S) PROVE m[i].at > o
  <2>1. i \notin S
    BY <1>4, <1>5, <1>7
  <2>2. QED
    BY <1>1, <2>1
<1>8. QED
  BY <1>3, <1>5, <1>6, <1>7

\* It is the only one of which both is true.
LEMMA LastBegunIs ==
    ASSUME NEW m \in Seq(Marker), NEW o \in Int, NEW n \in 0..Len(m),
           n # 0 => m[n].at <= o,
           \A i \in 1..Len(m) : i > n => m[i].at > o
    PROVE  LastBegun(m, o) = n
<1> DEFINE b == LastBegun(m, o)
<1>1. Len(m) \in Nat /\ \A i \in 1..Len(m) : m[i].at \in Nat
  BY MarkerAt
<1>2. /\ b \in 0..Len(m)
      /\ b # 0 => m[b].at <= o
      /\ \A i \in 1..Len(m) : i > b => m[i].at > o
  BY LastBegunProperties
<1> HIDE DEF b
<1>3. CASE b < n
  <2>1. n \in 1..Len(m) /\ m[n].at > o /\ m[n].at <= o
    BY <1>1, <1>2, <1>3
  <2>2. QED
    BY <1>1, <2>1
<1>4. CASE n < b
  <2>1. b \in 1..Len(m) /\ m[b].at > o /\ m[b].at <= o
    BY <1>1, <1>2, <1>4
  <2>2. QED
    BY <1>1, <2>1
<1>5. QED
  BY <1>1, <1>2, <1>3, <1>4 DEF b

\* The page at an offset, when a marker is appended.
LEMMA PageAfterAppend ==
    ASSUME NEW m \in Seq(Marker), NEW mark \in Marker, NEW o \in Int
    PROVE  PageAt(Append(m, mark), o) = IF mark.at <= o THEN mark.page ELSE PageAt(m, o)
<1> DEFINE a == Append(m, mark)
           n == LastBegun(m, o)
<1>1. /\ a \in Seq(Marker) /\ Len(a) = Len(m) + 1 /\ a[Len(m) + 1] = mark
      /\ \A i \in 1..Len(m) : a[i] = m[i]
  BY AppendProperties
<1>2. Len(m) \in Nat /\ mark.at \in Int
  BY LenProperties DEF Marker
<1>3. /\ n \in 0..Len(m)
      /\ n # 0 => m[n].at <= o
      /\ \A i \in 1..Len(m) : i > n => m[i].at > o
  BY LastBegunProperties
<1> HIDE DEF a, n
<1>4. CASE mark.at <= o
  <2>1. LastBegun(a, o) = Len(m) + 1
    BY <1>1, <1>2, <1>4, LastBegunIs
  <2>2. PageAt(a, o) = mark.page
    BY <1>1, <1>2, <2>1 DEF PageAt
  <2>3. QED
    BY <1>4, <2>2 DEF a
<1>5. CASE mark.at > o
  <2>1. /\ n \in 0..Len(a)
        /\ n # 0 => a[n].at <= o
        /\ \A i \in 1..Len(a) : i > n => a[i].at > o
    BY <1>1, <1>2, <1>3, <1>5
  <2>2. LastBegun(a, o) = n
    BY <1>1, <2>1, LastBegunIs
  <2>3. PageAt(a, o) = IF n = 0 THEN NoPage ELSE a[n].page
    BY <2>2 DEF PageAt
  <2>4. PageAt(m, o) = IF n = 0 THEN NoPage ELSE m[n].page
    BY DEF PageAt, n
  <2>5. n # 0 => a[n] = m[n]
    BY <1>1, <1>2, <1>3
  <2>6. ~(mark.at <= o)
    BY <1>2, <1>5
  <2>7. PageAt(a, o) = PageAt(m, o)
    BY <2>3, <2>4, <2>5
  <2>8. QED
    BY <2>6, <2>7 DEF a
<1>6. QED
  BY <1>2, <1>4, <1>5

\* A page that is looked up is a page, or none.
LEMMA PageIsPage ==
    ASSUME NEW m \in Seq(Marker), NEW o \in Int
    PROVE  PageAt(m, o) \in Nat \cup {NoPage}
<1>1. Len(m) \in Nat /\ LastBegun(m, o) \in 0..Len(m)
  BY LenProperties, LastBegunProperties
<1>2. LastBegun(m, o) # 0 => m[LastBegun(m, o)] \in Marker
  BY <1>1, ElementOfSeq
<1>3. QED
  BY <1>1, <1>2 DEF PageAt, Marker

\* The markers after a cut, one by one.
LEMMA ShiftedMarkers ==
    ASSUME NEW m \in Seq(Marker), NEW cut \in Nat
    PROVE  LET n == LastBegun(m, cut)
               new == ShiftPages(m, cut)
           IN /\ new \in Seq(Marker) /\ Len(new) = 1 + Len(m) - n
              /\ new[1] = [at |-> 0, page |-> PageAt(m, cut)]
              /\ \A i \in 1..(Len(m) - n) :
                    new[1 + i] = [at |-> m[n + i].at - cut, page |-> m[n + i].page]
<1> DEFINE n == LastBegun(m, cut)
           new == ShiftPages(m, cut)
           first == [at |-> 0, page |-> PageAt(m, cut)]
           later == MarkersAfter(m, cut, cut)
           k == Len(m) - n
<1>0. cut \in Int
  OBVIOUS
<1>1. /\ Len(m) \in Nat /\ n \in 0..Len(m)
      /\ \A i \in 1..Len(m) : i > n => m[i].at > cut
  BY <1>0, MarkerAt, LastBegunProperties
<1>2. \A i \in 1..Len(m) : m[i] \in Marker
  BY ElementOfSeq
<1>3. first \in Marker
  BY <1>0, PageIsPage DEF Marker
<1>4. k \in Nat /\ \A i \in 1..k : n + i \in 1..Len(m) /\ n + i > n
  BY <1>1
<1>5. \A i \in 1..k : later[i] = [at |-> m[n + i].at - cut, page |-> m[n + i].page]
  BY DEF MarkersAfter
<1>6. later \in [1..k -> Marker]
  <2>1. \A i \in 1..k : [at |-> m[n + i].at - cut, page |-> m[n + i].page] \in Marker
    BY SMTT(30), <1>1, <1>2, <1>4 DEF Marker
  <2>2. QED
    BY <2>1 DEF MarkersAfter
<1> HIDE DEF n, new, first, later, k
<1>7. later \in Seq(Marker) /\ Len(later) = k
  BY <1>4, <1>6
<1>8. new = <<first>> \o later
  BY DEF new, first, later, ShiftPages
<1>9. <<first>> \in Seq(Marker) /\ Len(<<first>>) = 1 /\ <<first>>[1] = first
  BY <1>3
<1>10. /\ new \in Seq(Marker) /\ Len(new) = 1 + k
       /\ \A i \in 1..(1 + k) : new[i] = IF i <= 1 THEN <<first>>[i] ELSE later[i - 1]
  BY <1>7, <1>8, <1>9, ConcatProperties
<1>11. new[1] = first
  BY <1>4, <1>9, <1>10
<1>12. ASSUME NEW i \in 1..k PROVE new[1 + i] = later[i]
  <2>1. 1 + i \in 1..(1 + k) /\ ~(1 + i <= 1) /\ (1 + i) - 1 = i
    BY <1>4
  <2>2. QED
    BY <1>10, <2>1
<1>13. Len(new) = 1 + Len(m) - n
  BY <1>1, <1>10 DEF k
<1>14. QED
  BY <1>5, <1>10, <1>11, <1>12, <1>13 DEF n, new, first, k

\* A cut changes where a page is looked up, and not which it is.
LEMMA PageAfterShift ==
    ASSUME NEW m \in Seq(Marker), NEW cut \in Nat, NEW o \in Nat
    PROVE  PageAt(ShiftPages(m, cut), o) = PageAt(m, cut + o)
<1> DEFINE n == LastBegun(m, cut)
           last == LastBegun(m, cut + o)
           new == ShiftPages(m, cut)
<1>0. cut \in Int /\ cut + o \in Int
  OBVIOUS
<1>1. /\ new \in Seq(Marker) /\ Len(new) = 1 + Len(m) - n
      /\ new[1] = [at |-> 0, page |-> PageAt(m, cut)]
      /\ \A i \in 1..(Len(m) - n) :
            new[1 + i] = [at |-> m[n + i].at - cut, page |-> m[n + i].page]
  BY ShiftedMarkers
<1>2. Len(m) \in Nat /\ \A i \in 1..Len(m) : m[i].at \in Nat
  BY MarkerAt
<1>3. /\ n \in 0..Len(m)
      /\ n # 0 => m[n].at <= cut
      /\ \A i \in 1..Len(m) : i > n => m[i].at > cut
  BY <1>0, LastBegunProperties
<1>4. /\ last \in 0..Len(m)
      /\ last # 0 => m[last].at <= cut + o
      /\ \A i \in 1..Len(m) : i > last => m[i].at > cut + o
  BY <1>0, LastBegunProperties
<1>5. PageAt(m, cut) = (IF n = 0 THEN NoPage ELSE m[n].page)
  BY DEF PageAt
<1>6. PageAt(m, cut + o) = (IF last = 0 THEN NoPage ELSE m[last].page)
  BY DEF PageAt
<1> SUFFICES PageAt(new, o) = PageAt(m, cut + o)
  OBVIOUS
<1> HIDE DEF n, last, new
<1>7. n <= last
  <2>1. CASE n = 0
    BY <1>2, <1>4, <2>1
  <2>2. CASE n # 0 /\ last < n
    <3>1. n \in 1..Len(m) /\ m[n].at > cut + o /\ m[n].at <= cut
      BY <1>2, <1>3, <1>4, <2>2
    <3>2. QED
      BY <1>2, <3>1
  <2>3. QED
    BY <1>2, <1>3, <1>4, <2>1, <2>2
<1> DEFINE j == last - n
<1>8. j \in 0..(Len(m) - n) /\ Len(m) - n \in Nat /\ last = n + j
  BY <1>2, <1>3, <1>4, <1>7
<1> HIDE DEF j
<1>9. new[1 + j].at <= o
  <2>1. CASE j = 0
    BY <1>1, <2>1
  <2>2. CASE j # 0
    <3>1. j \in 1..(Len(m) - n) /\ last # 0 /\ last \in 1..Len(m)
      BY <1>2, <1>3, <1>4, <1>8, <2>2
    <3>2. new[1 + j].at = m[last].at - cut
      <4>1. new[1 + j] = [at |-> m[n + j].at - cut, page |-> m[n + j].page]
        BY <1>1, <3>1
      <4>2. QED
        BY <1>8, <4>1
    <3>3. QED
      BY <1>2, <1>4, <3>1, <3>2
  <2>3. QED
    BY <2>1, <2>2
<1>10. ASSUME NEW i \in 1..Len(new), i > 1 + j
       PROVE  new[i].at > o
  <2> DEFINE h == i - 1
  <2>1. h \in 1..(Len(m) - n) /\ i = 1 + h /\ n + h \in 1..Len(m) /\ n + h > last
    BY <1>1, <1>2, <1>3, <1>8, <1>10
  <2> HIDE DEF h
  <2>2. new[i].at = m[n + h].at - cut
    <3>1. new[1 + h] = [at |-> m[n + h].at - cut, page |-> m[n + h].page]
      BY <1>1, <2>1
    <3>2. QED
      BY <2>1, <3>1
  <2>3. QED
    BY <1>2, <1>4, <2>1, <2>2
<1>11. 1 + j \in 0..Len(new) /\ 1 + j # 0
  BY <1>1, <1>8
<1>12. LastBegun(new, o) = 1 + j
  BY SMTT(30), <1>1, <1>9, <1>10, <1>11, LastBegunIs
<1>13. PageAt(new, o) = new[1 + j].page
  BY <1>11, <1>12 DEF PageAt
<1>14. CASE j = 0
  <2>1. 1 + j = 1 /\ last = n
    BY <1>3, <1>8, <1>14
  <2>2. PageAt(new, o) = PageAt(m, cut)
    BY <1>1, <1>13, <2>1
  <2>3. QED
    BY <1>5, <1>6, <2>1, <2>2
<1>15. CASE j # 0
  <2>1. j \in 1..(Len(m) - n) /\ last # 0
    BY <1>3, <1>8, <1>15
  <2>2. new[1 + j].page = m[last].page
    <3>1. new[1 + j] = [at |-> m[n + j].at - cut, page |-> m[n + j].page]
      BY <1>1, <2>1
    <3>2. QED
      BY <1>8, <3>1
  <2>3. QED
    BY <1>6, <1>13, <2>1, <2>2
<1>16. QED
  BY <1>14, <1>15

-----------------------------------------------------------------------------
\* Chunks.

\* The chunks of a stream after some more were put in their place: those there
\* were, then the others, moved by the offset of the buffer.
LEMMA EmittingPlaces ==
    ASSUME NEW S, NEW old \in Seq(S), NEW C, NEW part \in Seq(C),
           NEW offset, NEW marked
    PROVE  LET new == old \o Placed(part, offset, marked)
           IN /\ new \in Seq(Range(new))
              /\ DOMAIN new = 1..(Len(old) + Len(part))
              /\ \A i \in 1..Len(old) : new[i] = old[i]
              /\ \A i \in 1..Len(part) :
                    new[Len(old) + i] = Place(part[i], offset, marked)
<1> DEFINE new == old \o Placed(part, offset, marked)
           placed == Placed(part, offset, marked)
           P == {Place(part[i], offset, marked) : i \in DOMAIN part}
<1>1. Len(old) \in Nat /\ Len(part) \in Nat /\ DOMAIN part = 1..Len(part)
  BY LenProperties
<1>2. /\ placed \in [1..Len(part) -> P]
      /\ \A i \in 1..Len(part) : placed[i] = Place(part[i], offset, marked)
  BY <1>1 DEF Placed
<1> HIDE DEF new, placed, P
<1>3. placed \in Seq(P) /\ Len(placed) = Len(part)
  BY <1>1, <1>2
<1>4. old \in Seq(S \cup P) /\ placed \in Seq(S \cup P)
  BY <1>3, SeqMonotonic
<1>5. /\ new \in Seq(S \cup P) /\ Len(new) = Len(old) + Len(part)
      /\ \A i \in 1..(Len(old) + Len(part)) :
            new[i] = IF i <= Len(old) THEN old[i] ELSE placed[i - Len(old)]
  <2>1. new = old \o placed
    BY DEF new, placed
  <2>2. /\ old \o placed \in Seq(S \cup P) /\ Len(old \o placed) = Len(old) + Len(placed)
        /\ \A i \in 1..(Len(old) + Len(placed)) :
              (old \o placed)[i] = IF i <= Len(old) THEN old[i] ELSE placed[i - Len(old)]
    BY <1>4, ConcatProperties
  <2>3. QED
    BY <1>3, <2>1, <2>2
<1>6. new \in Seq(Range(new))
  BY <1>5, SeqOfRange
<1>7. DOMAIN new = 1..(Len(old) + Len(part))
  BY <1>5, LenProperties
<1>8. ASSUME NEW i \in 1..Len(old) PROVE new[i] = old[i]
  <2>1. i \in 1..(Len(old) + Len(part)) /\ i <= Len(old)
    BY <1>1
  <2>2. QED
    BY <1>5, <2>1
<1>9. ASSUME NEW i \in 1..Len(part)
      PROVE  new[Len(old) + i] = Place(part[i], offset, marked)
  <2> DEFINE j == Len(old) + i
  <2>1. j \in 1..(Len(old) + Len(part)) /\ ~(j <= Len(old)) /\ j - Len(old) = i
    BY <1>1
  <2> HIDE DEF j
  <2>2. new[j] = placed[j - Len(old)]
    BY <1>5, <2>1
  <2>3. new[j] = Place(part[i], offset, marked)
    BY <1>2, <2>1, <2>2
  <2>4. QED
    BY <2>3 DEF j
<1>10. QED
  BY <1>6, <1>7, <1>8, <1>9 DEF new

\* The same, field by field.
LEMMA Emitting ==
    ASSUME NEW S, NEW old \in Seq(S), NEW C, NEW part \in Seq(C),
           NEW offset, NEW marked
    PROVE  LET new == old \o Placed(part, offset, marked)
           IN /\ new \in Seq(Range(new))
              /\ DOMAIN new = 1..(Len(old) + Len(part))
              /\ \A i \in 1..Len(old) : new[i] = old[i]
              /\ \A i \in 1..Len(part) :
                    /\ new[Len(old) + i].start = part[i].start + offset
                    /\ new[Len(old) + i].end = part[i].end + offset
                    /\ new[Len(old) + i].text = part[i].text
<1> DEFINE new == old \o Placed(part, offset, marked)
<1>1. /\ new \in Seq(Range(new))
      /\ DOMAIN new = 1..(Len(old) + Len(part))
      /\ \A i \in 1..Len(old) : new[i] = old[i]
      /\ \A i \in 1..Len(part) : new[Len(old) + i] = Place(part[i], offset, marked)
  BY EmittingPlaces
<1> HIDE DEF new
<1>2. ASSUME NEW c
      PROVE  /\ Place(c, offset, marked).start = c.start + offset
             /\ Place(c, offset, marked).end = c.end + offset
             /\ Place(c, offset, marked).text = c.text
  BY DEF Place
<1>3. /\ new \in Seq(Range(new))
      /\ DOMAIN new = 1..(Len(old) + Len(part))
      /\ \A i \in 1..Len(old) : new[i] = old[i]
      /\ \A i \in 1..Len(part) :
            /\ new[Len(old) + i].start = part[i].start + offset
            /\ new[Len(old) + i].end = part[i].end + offset
            /\ new[Len(old) + i].text = part[i].text
  BY <1>1, <1>2
<1>4. QED
  BY <1>3 DEF new

\* Slices of the buffer that are emitted are slices of the full text.
LEMMA EmittingSlices ==
    ASSUME NEW U, NEW f \in Seq(U), NEW b \in 0..Len(f),
           NEW S, NEW old \in Seq(S), SlicesOf(old, f),
           NEW C, NEW part \in Seq(C), SlicesOf(part, Slice(f, b, Len(f))),
           NEW marked
    PROVE  SlicesOf(old \o Placed(part, b, marked), f)
<1> DEFINE new == old \o Placed(part, b, marked)
           t == Slice(f, b, Len(f))
<1>1. /\ Len(old) \in Nat /\ DOMAIN old = 1..Len(old)
      /\ Len(part) \in Nat /\ DOMAIN part = 1..Len(part)
      /\ Len(f) \in Nat
  BY LenProperties
<1>2. Len(f) \in b..Len(f)
  BY <1>1
<1>3. Len(t) = Len(f) - b
  BY <1>2, SliceProperties
<1>4. /\ DOMAIN new = 1..(Len(old) + Len(part))
      /\ \A i \in 1..Len(old) : new[i] = old[i]
      /\ \A i \in 1..Len(part) :
            /\ new[Len(old) + i].start = part[i].start + b
            /\ new[Len(old) + i].end = part[i].end + b
            /\ new[Len(old) + i].text = part[i].text
  BY Emitting
<1> HIDE DEF new, t
<1>5. ASSUME NEW k \in DOMAIN new
      PROVE  /\ new[k].start \in 0..(Len(f) - 1)
             /\ new[k].end \in (new[k].start + 1)..Len(f)
             /\ new[k].text = Slice(f, new[k].start, new[k].end)
  <2>1. CASE k \in 1..Len(old)
    BY <1>1, <1>4, <2>1 DEF SlicesOf
  <2>2. CASE k \notin 1..Len(old)
    <3> DEFINE i == k - Len(old)
    <3>1. i \in 1..Len(part) /\ k = Len(old) + i
      BY <1>1, <1>4, <2>2
    <3> HIDE DEF i
    <3> DEFINE s == part[i].start
               e == part[i].end
    <3>2. /\ s \in 0..(Len(t) - 1) /\ e \in (s + 1)..Len(t)
          /\ part[i].text = Slice(t, s, e)
      BY <1>1, <3>1 DEF SlicesOf, t
    <3>3. /\ new[k].start = s + b /\ new[k].end = e + b
          /\ new[k].text = part[i].text
      BY <1>4, <3>1
    <3> HIDE DEF s, e
    <3>4. s \in 0..(Len(f) - b) /\ e \in s..(Len(f) - b)
      BY <1>1, <1>3, <3>2
    <3>5. Slice(t, s, e) = Slice(f, b + s, b + e)
      BY <3>4, SliceOfTail DEF t
    <3>6. b + s = s + b /\ b + e = e + b
      BY <1>1, <1>3, <3>2
    <3>7. s + b \in 0..(Len(f) - 1) /\ e + b \in ((s + b) + 1)..Len(f)
      BY <1>1, <1>3, <3>2
    <3>8. QED
      BY <3>2, <3>3, <3>5, <3>6, <3>7
  <2>3. QED
    BY <2>1, <2>2
<1>6. SlicesOf(new, f)
  BY <1>5 DEF SlicesOf
<1>7. QED
  BY <1>6 DEF new

\* The units that a part of the buffer's chunks covers are covered in the full
\* text, and what was covered stays so.
LEMMA EmittingCovers ==
    ASSUME NEW S, NEW old \in Seq(S), NEW C, NEW part \in Seq(C),
           NEW b \in Nat, NEW marked, NEW i \in Int
    PROVE  LET new == old \o Placed(part, b, marked)
           IN /\ Covered(old, i) => Covered(new, i)
              /\ (/\ \A k \in DOMAIN part : part[k].start \in Int /\ part[k].end \in Int
                  /\ Covered(part, i - b)) => Covered(new, i)
<1> DEFINE new == old \o Placed(part, b, marked)
<1>1. /\ Len(old) \in Nat /\ DOMAIN old = 1..Len(old)
      /\ Len(part) \in Nat /\ DOMAIN part = 1..Len(part)
  BY LenProperties
<1>2. /\ DOMAIN new = 1..(Len(old) + Len(part))
      /\ \A k \in 1..Len(old) : new[k] = old[k]
      /\ \A k \in 1..Len(part) :
            /\ new[Len(old) + k].start = part[k].start + b
            /\ new[Len(old) + k].end = part[k].end + b
  BY Emitting
<1> HIDE DEF new
<1>3. Covered(old, i) => Covered(new, i)
  BY <1>1, <1>2 DEF Covered
<1>4. ASSUME \A k \in DOMAIN part : part[k].start \in Int /\ part[k].end \in Int,
             Covered(part, i - b)
      PROVE  Covered(new, i)
  <2>1. PICK k \in 1..Len(part) : part[k].start < i - b /\ i - b <= part[k].end
    BY <1>1, <1>4 DEF Covered
  <2>2. part[k].start \in Int /\ part[k].end \in Int
    BY <1>1, <1>4
  <2>3. part[k].start + b < i /\ i <= part[k].end + b
    BY <2>1, <2>2
  <2>4. Len(old) + k \in DOMAIN new
    BY <1>1, <1>2
  <2>5. QED
    BY <1>2, <2>3, <2>4 DEF Covered
<1>5. QED
  BY <1>3, <1>4 DEF new

\* Chunks that begin after one another still do after others were emitted that
\* begin in the buffer.
LEMMA EmittingAdvances ==
    ASSUME NEW S, NEW old \in Seq(S), NEW C, NEW part \in Seq(C),
           NEW b \in Nat, NEW marked,
           Advance(old), \A k \in DOMAIN old : old[k].start \in Int /\ old[k].start < b,
           Advance(part), \A k \in DOMAIN part : part[k].start \in Nat
    PROVE  Advance(old \o Placed(part, b, marked))
<1> DEFINE new == old \o Placed(part, b, marked)
<1>1. /\ Len(old) \in Nat /\ DOMAIN old = 1..Len(old)
      /\ Len(part) \in Nat /\ DOMAIN part = 1..Len(part)
  BY LenProperties
<1>2. /\ DOMAIN new = 1..(Len(old) + Len(part))
      /\ \A k \in 1..Len(old) : new[k] = old[k]
      /\ \A k \in 1..Len(part) : new[Len(old) + k].start = part[k].start + b
  BY Emitting
<1> HIDE DEF new
<1>3. ASSUME NEW j \in DOMAIN new, NEW k \in DOMAIN new, j < k
      PROVE  new[j].start < new[k].start
  <2>1. CASE k <= Len(old)
    <3>1. j \in DOMAIN old /\ k \in DOMAIN old
      BY <1>1, <1>2, <1>3, <2>1
    <3>2. QED
      BY <1>1, <1>2, <1>3, <3>1 DEF Advance
  <2>2. CASE k > Len(old)
    <3> DEFINE n == k - Len(old)
    <3>1. n \in 1..Len(part) /\ k = Len(old) + n
      BY <1>1, <1>2, <2>2
    <3> HIDE DEF n
    <3>2. new[k].start = part[n].start + b /\ part[n].start \in Nat
      BY <1>1, <1>2, <3>1
    <3>3. CASE j <= Len(old)
      <4>1. j \in DOMAIN old /\ new[j] = old[j]
        BY <1>1, <1>2, <3>3
      <4>2. old[j].start \in Int /\ old[j].start < b
        BY <4>1
      <4>3. QED
        BY <3>2, <4>1, <4>2
    <3>4. CASE j > Len(old)
      <4> DEFINE m == j - Len(old)
      <4>1. m \in 1..Len(part) /\ j = Len(old) + m /\ m < n
        BY <1>1, <1>2, <1>3, <3>1, <3>4
      <4> HIDE DEF m
      <4>2. new[j].start = part[m].start + b /\ part[m].start \in Nat
        BY <1>1, <1>2, <4>1
      <4>3. part[m].start < part[n].start
        BY <1>1, <3>1, <4>1 DEF Advance
      <4>4. QED
        BY <3>2, <4>2, <4>3
    <3>5. QED
      BY <1>1, <1>2, <3>3, <3>4
  <2>3. QED
    BY <1>1, <1>2, <2>1, <2>2
<1>4. Advance(new)
  BY <1>3 DEF Advance
<1>5. QED
  BY <1>4 DEF new

-----------------------------------------------------------------------------
\* The inductive invariant.

\* What a chunker may drop of a slice of a text it may drop of the text.
LEMMA DropInSlice ==
    ASSUME NEW k, NEW U, NEW text \in Seq(U),
           NEW s \in 0..Len(text), NEW e \in s..Len(text), NEW i \in 1..(e - s),
           MayDrop(k, Slice(text, s, e), i)
    PROVE  MayDrop(k, text, s + i)
<1> DEFINE t == Slice(text, s, e)
<1>1. MayDrop(k, t, i)
  OBVIOUS
<1>2. t[i] = text[s + i] /\ (InSeparator(t, i) => InSeparator(text, s + i))
  BY SliceProperties, SeparatorInSlice
<1> HIDE DEF t
<1>3. QED
  BY <1>1, <1>2 DEF MayDrop

\* And so it may when more text follows.
LEMMA DropInPrefix ==
    ASSUME NEW k, NEW U, NEW text \in Seq(U), NEW more \in Seq(U), NEW i \in 1..Len(text),
           MayDrop(k, text, i)
    PROVE  MayDrop(k, text \o more, i)
<1> DEFINE t == text \o more
<1>1. t[i] = text[i] /\ (InSeparator(text, i) => InSeparator(t, i))
  BY SeparatorInPrefix, LenProperties, ConcatProperties
<1> HIDE DEF t
<1>2. MayDrop(k, t, i)
  BY <1>1 DEF MayDrop
<1>3. QED
  BY <1>2 DEF t

\* While segments arrive: the buffer is the text from `b` on, which is where a
\* cut was last made, and is empty only before the first segment; the chunks
\* that were emitted are slices that cover the text before `b`, and, unless the
\* chunker is one that rewinds, all of them begin before `b`, in order.
Progress(k, f, buf, b, out) ==
    /\ f \in Seq(UnitsOf[k])
    /\ Len(f) <= MaxText[k]
    /\ b \in 0..Len(f)
    /\ f # <<>> => b < Len(f)
    /\ buf = Slice(f, b, Len(f))
    /\ out \in Seq(Range(out))
    /\ SlicesOf(out, f)
    /\ \A i \in DOMAIN f : i <= b => (MayDrop(k, f, i) \/ Covered(out, i))
    /\ k \notin Rewinding =>
          Advance(out) /\ \A j \in DOMAIN out : out[j].start < b

IndInv ==
    /\ kind \in Kinds
    /\ ended \in BOOLEAN
    /\ ~ended => Progress(kind, full, buffer, base, emitted)
    /\ ChunksAreSlices
    /\ OnlySeparatorsAreLost
    /\ ChunksAdvance

\* What a chunker returns for a buffer.
LEMMA ChunksOfBuffer ==
    ASSUME NEW k \in Kinds, NEW t \in Seq(UnitsOf[k]), Len(t) <= MaxText[k]
    PROVE  LET chunks == ChunkWith(k, t)
           IN /\ chunks \in Seq(ChunkType(k))
              /\ \A j \in DOMAIN chunks :
                    chunks[j].start \in Nat /\ chunks[j].end \in Nat
              /\ SlicesOf(chunks, t)
              /\ \A i \in 1..Len(t) : MayDrop(k, t, i) \/ Covered(chunks, i)
              /\ k \in Rewinding \/ Advance(chunks)
<1> DEFINE chunks == ChunkWith(k, t)
<1>1. Meets(k, chunks, t)
  BY FactoryMeetsContract, StreamAssumption
<1>2. /\ chunks \in Seq(ChunkType(k))
      /\ SlicesOf(chunks, t)
      /\ \A i \in DOMAIN t : MayDrop(k, t, i) \/ Covered(chunks, i)
      /\ k \in Rewinding \/ Advance(chunks)
  BY <1>1 DEF Meets
<1> HIDE DEF chunks
<1>3. \A j \in DOMAIN chunks : chunks[j] \in ChunkType(k)
  BY <1>2, LenProperties, ElementOfSeq
<1>4. \A j \in DOMAIN chunks : chunks[j].start \in Nat /\ chunks[j].end \in Nat
  BY <1>3 DEF ChunkType
<1>5. DOMAIN t = 1..Len(t)
  BY LenProperties
<1>6. QED
  BY <1>2, <1>4, <1>5 DEF chunks

\* The buffer is a text of the kind too.
LEMMA TailOfText ==
    ASSUME NEW k \in Kinds, NEW f, NEW buf, NEW b, NEW out, Progress(k, f, buf, b, out)
    PROVE  buf \in Seq(UnitsOf[k]) /\ Len(buf) <= MaxText[k]
<1>1. /\ f \in Seq(UnitsOf[k]) /\ b \in 0..Len(f) /\ buf = Slice(f, b, Len(f))
      /\ Len(f) <= MaxText[k]
  BY DEF Progress
<1>2. Len(f) \in Nat /\ Len(f) \in b..Len(f) /\ MaxText[k] \in Nat
  BY <1>1, LenProperties, StreamAssumption
<1>3. buf \in Seq(UnitsOf[k]) /\ Len(buf) = Len(f) - b
  BY ZenonT(30), <1>1, <1>2, SliceProperties
<1>4. QED
  BY <1>1, <1>2, <1>3

\* A stream that was not begun has made its progress.
LEMMA InitIndInv == Init => IndInv
<1> SUFFICES ASSUME Init PROVE IndInv
  OBVIOUS
<1>1. full \in Seq(UnitsOf[kind]) /\ Len(full) = 0 /\ DOMAIN full = {}
  BY EmptySeq DEF Init
<1>2. emitted \in Seq(Range(emitted)) /\ DOMAIN emitted = {}
  BY EmptySeq DEF Init
<1>3. MaxText[kind] \in Nat
  BY StreamAssumption DEF Init
<1>4. Slice(full, 0, 0) = <<>>
  BY SubSeqEmpty DEF Slice
<1>5. SlicesOf(emitted, full) /\ Advance(emitted)
  BY <1>2 DEF SlicesOf, Advance
<1>6. kind \in Kinds /\ ended = FALSE /\ full = <<>> /\ base = 0 /\ buffer = <<>>
  BY DEF Init
<1>7. Len(full) <= MaxText[kind] /\ 0 \in 0..Len(full)
  BY <1>1, <1>3
<1>8. Progress(kind, full, buffer, base, emitted)
  BY <1>1, <1>2, <1>4, <1>5, <1>6, <1>7 DEF Progress
<1>9. QED
  BY <1>1, <1>5, <1>6, <1>8 DEF IndInv, ChunksAreSlices, OnlySeparatorsAreLost, ChunksAdvance

\* What a segment adds to a text.
Added(k, text, segment) == IF text = <<>> THEN segment ELSE SeparatorOf[k] \o segment

\* It adds the same to the text and to the buffer.
LEMMA SegmentAppended ==
    ASSUME NEW k \in Kinds, NEW f, NEW buf, NEW b, NEW out,
           Progress(k, f, buf, b, out), NEW segment \in SegmentsOf[k], segment # <<>>
    PROVE  /\ Added(k, f, segment) \in Seq(UnitsOf[k])
           /\ Added(k, f, segment) # <<>>
           /\ Separated(k, f) \o segment = f \o Added(k, f, segment)
           /\ Separated(k, buf) \o segment = buf \o Added(k, f, segment)
<1> DEFINE U == UnitsOf[k]
           sep == SeparatorOf[k]
           before == Separated(k, f)
           joined == Separated(k, buf)
<1>1. /\ f \in Seq(U) /\ b \in 0..Len(f) /\ (f # <<>> => b < Len(f))
      /\ buf = Slice(f, b, Len(f))
  BY DEF Progress
<1>2. segment \in Seq(U) /\ sep \in Seq(U)
  <2>1. SegmentsOf[k] \subseteq Seq(UnitsOf[k]) /\ SeparatorOf[k] \in Seq(UnitsOf[k])
    BY StreamAssumption
  <2>2. QED
    BY <2>1
<1>3. Len(f) \in Nat /\ Len(f) \in b..Len(f)
  BY <1>1, LenProperties
<1>4. buf \in Seq(U) /\ Len(buf) = Len(f) - b
  BY ZenonT(30), <1>1, <1>3, SliceProperties
<1> HIDE DEF U, sep
<1>5. CASE f = <<>>
  <2>1. Len(f) = 0 /\ b = 0
    BY <1>1, <1>5, EmptySeq
  <2>2. Len(buf) = 0
    BY <1>4, <2>1
  <2>3. buf = <<>>
    BY <1>4, <2>2, EmptySeq
  <2>4. <<>> \o segment = segment
    BY <1>2, ConcatEmptySeq
  <2>5. before \o segment = f \o segment /\ joined \o segment = buf \o segment
    BY <1>5, <2>3, <2>4 DEF Separated
  <2>6. QED
    BY <1>2, <1>5, <2>5 DEF U, Added
<1>6. CASE f # <<>>
  <2>1. buf # <<>>
    <3>1. b \in Int /\ b < Len(f)
      BY <1>1, <1>3, <1>6
    <3>2. Len(buf) # 0
      BY <1>3, <1>4, <3>1
    <3>3. QED
      BY <3>2, EmptySeq
  <2>2. before = f \o sep /\ joined = buf \o sep
    BY <1>6, <2>1 DEF sep, Separated
  <2>3. /\ (f \o sep) \o segment = f \o (sep \o segment)
        /\ (buf \o sep) \o segment = buf \o (sep \o segment)
    <3>1. \A t \in Seq(U) : (t \o sep) \o segment = t \o (sep \o segment)
      BY SMTT(30), <1>2, ConcatAssociative
    <3>2. QED
      BY <1>1, <1>4, <3>1
  <2>4. /\ sep \o segment \in Seq(U)
        /\ Len(sep \o segment) = Len(sep) + Len(segment)
    BY <1>2, ConcatProperties
  <2>5. Len(sep) \in Nat /\ Len(segment) \in Nat /\ Len(segment) # 0
    BY <1>2, LenProperties, EmptySeq
  <2>6. sep \o segment # <<>>
    BY <2>4, <2>5, EmptySeq
  <2>7. QED
    BY <1>6, <2>2, <2>3, <2>4, <2>6 DEF U, sep, Added
<1>7. QED
  BY <1>5, <1>6

\* What is emitted of the buffer's chunks is that part of them.
LEMMA PartOfChunks ==
    ASSUME NEW C, NEW chunks \in Seq(C), NEW t, SlicesOf(chunks, t),
           NEW part \in Seq(C), Len(part) <= Len(chunks),
           \A j \in 1..Len(part) : part[j] = chunks[j]
    PROVE  /\ SlicesOf(part, t)
           /\ \A j \in DOMAIN part : j \in DOMAIN chunks /\ part[j] = chunks[j]
           /\ Advance(chunks) => Advance(part)
<1>1. /\ Len(part) \in Nat /\ DOMAIN part = 1..Len(part)
      /\ Len(chunks) \in Nat /\ DOMAIN chunks = 1..Len(chunks)
  BY LenProperties
<1>2. \A j \in DOMAIN part : j \in DOMAIN chunks /\ part[j] = chunks[j]
  BY <1>1
<1>3. SlicesOf(part, t)
  BY <1>2 DEF SlicesOf
<1>4. Advance(chunks) => Advance(part)
  BY <1>2 DEF Advance
<1>5. QED
  BY <1>2, <1>3, <1>4

\* A segment is taken and the buffer keeps everything.
LEMMA KeptPreserves ==
    ASSUME NEW k \in Kinds, NEW f, NEW buf, NEW b, NEW out,
           Progress(k, f, buf, b, out),
           NEW g \in Seq(UnitsOf[k]), g # <<>>, Len(f \o g) <= MaxText[k]
    PROVE  Progress(k, f \o g, buf \o g, b, out)
<1> DEFINE U == UnitsOf[k]
           h == f \o g
<1>1. /\ Len(f) \in Nat /\ Len(g) \in Nat \ {0} /\ f \in Seq(U)
      /\ h \in Seq(U) /\ Len(h) = Len(f) + Len(g)
      /\ DOMAIN f = 1..Len(f) /\ DOMAIN h = 1..(Len(f) + Len(g))
      /\ \A i \in 1..Len(f) : h[i] = f[i]
  <2>1. f \in Seq(U) /\ g \in Seq(U)
    BY DEF Progress
  <2> HIDE DEF U
  <2>2. h \in Seq(U) /\ Len(h) = Len(f) + Len(g)
    BY <2>1, ConcatProperties
  <2>3. \A i \in 1..Len(f) : h[i] = f[i]
    BY <2>1, LenProperties, ConcatProperties
  <2>4. Len(g) \in Nat \ {0}
    BY <2>1, EmptySeq
  <2>5. QED
    BY <2>1, <2>2, <2>3, <2>4, LenProperties
<1>2. b \in 0..Len(f) /\ buf = Slice(f, b, Len(f))
  BY DEF Progress
<1>3. buf \o g = Slice(h, b, Len(h))
  BY <1>1, <1>2, AppendToTail
<1> HIDE DEF h
<1>4. b \in 0..Len(h) /\ b < Len(h)
  BY <1>1, <1>2
<1>5. SlicesOf(out, h)
  <2>1. ASSUME NEW j \in DOMAIN out
        PROVE  /\ out[j].start \in 0..(Len(h) - 1)
               /\ out[j].end \in (out[j].start + 1)..Len(h)
               /\ out[j].text = Slice(h, out[j].start, out[j].end)
    <3> DEFINE s == out[j].start
               e == out[j].end
    <3>1. /\ s \in 0..(Len(f) - 1) /\ e \in (s + 1)..Len(f)
          /\ out[j].text = Slice(f, s, e)
      BY DEF Progress, SlicesOf
    <3> HIDE DEF s, e
    <3>2. s \in 0..Len(f) /\ e \in s..Len(f)
      BY <1>1, <3>1
    <3>3. Slice(h, s, e) = Slice(f, s, e)
      BY <1>1, <3>2, SliceOfPrefix DEF h
    <3>4. s \in 0..(Len(h) - 1) /\ e \in (s + 1)..Len(h)
      BY <1>1, <3>1
    <3>5. QED
      BY <3>1, <3>3, <3>4 DEF s, e
  <2>2. QED
    BY <2>1 DEF SlicesOf
<1>6. \A i \in DOMAIN h : i <= b => (MayDrop(k, h, i) \/ Covered(out, i))
  <2>1. ASSUME NEW i \in DOMAIN h, i <= b
        PROVE  MayDrop(k, h, i) \/ Covered(out, i)
    <3>1. i \in DOMAIN f /\ i \in 1..Len(f)
      BY <1>1, <1>2, <2>1
    <3>2. MayDrop(k, f, i) \/ Covered(out, i)
      BY <2>1, <3>1 DEF Progress
    <3>3. MayDrop(k, f, i) => MayDrop(k, h, i)
      BY <1>1, <3>1, DropInPrefix DEF h
    <3>4. QED
      BY <3>2, <3>3
  <2>2. QED
    BY <2>1
<1>7. /\ out \in Seq(Range(out)) /\ Len(h) <= MaxText[k]
      /\ k \notin Rewinding => Advance(out) /\ \A j \in DOMAIN out : out[j].start < b
  BY DEF Progress, h
<1>8. Progress(k, h, buf \o g, b, out)
  BY <1>1, <1>3, <1>4, <1>5, <1>6, <1>7 DEF Progress
<1>9. QED
  BY <1>8 DEF h

\* The buffer is cut: all of its chunks but the last are emitted.  What lies
\* before the last one is covered by the others, since the contract covers it
\* and the last one begins behind it.
LEMMA CutPreserves ==
    ASSUME NEW k \in Kinds, NEW f, NEW buf, NEW b, NEW out,
           Progress(k, f, buf, b, out), f # <<>>, NEW marked,
           Len(ChunkWith(k, buf)) >= 2
    PROVE  LET chunks == ChunkWith(k, buf)
               cut == CutAt(chunks)
           IN Progress(k, f, Slice(buf, cut, Len(buf)), b + cut,
                       out \o Placed(Ready(chunks), b, marked))
<1> DEFINE U == UnitsOf[k]
           C == ChunkType(k)
           S == Range(out)
           chunks == ChunkWith(k, buf)
           part == Ready(chunks)
           cut == CutAt(chunks)
           n == Len(chunks)
           new == out \o Placed(part, b, marked)
<1>1. /\ f \in Seq(U) /\ Len(f) <= MaxText[k]
      /\ b \in 0..Len(f) /\ buf = Slice(f, b, Len(f))
      /\ out \in Seq(S) /\ SlicesOf(out, f)
  BY DEF Progress
<1>2. Len(f) \in Nat /\ Len(f) \in b..Len(f) /\ DOMAIN f = 1..Len(f)
  BY <1>1, LenProperties
<1>3. /\ buf \in Seq(U) /\ Len(buf) = Len(f) - b
      /\ \A i \in 1..(Len(f) - b) : buf[i] = f[b + i]
  BY ZenonT(30), <1>1, <1>2, SliceProperties
<1>4. Len(buf) <= MaxText[k]
  <2>1. MaxText[k] \in Nat
    BY <1>1, StreamAssumption
  <2>2. QED
    BY <1>1, <1>2, <1>3, <2>1
<1>5. /\ chunks \in Seq(C)
      /\ \A j \in DOMAIN chunks : chunks[j].start \in Nat /\ chunks[j].end \in Nat
      /\ SlicesOf(chunks, buf)
      /\ \A i \in 1..Len(buf) : MayDrop(k, buf, i) \/ Covered(chunks, i)
      /\ k \in Rewinding \/ Advance(chunks)
  BY <1>1, <1>3, <1>4, ChunksOfBuffer
<1>6. n \in Nat /\ n >= 2 /\ DOMAIN chunks = 1..n
  BY <1>5, LenProperties
<1>7. cut = chunks[n].start /\ cut \in 0..(Len(buf) - 1)
  <2>1. n \in DOMAIN chunks
    BY <1>6
  <2>2. chunks[n].start \in 0..(Len(buf) - 1)
    BY <1>5, <2>1 DEF SlicesOf
  <2>3. QED
    BY <2>2 DEF CutAt, Last
<1>8. part \in Seq(C) /\ Len(part) = n - 1 /\ \A j \in 1..(n - 1) : part[j] = chunks[j]
  <2>1. \A j \in 1..(n - 1) : chunks[j] \in C
    BY <1>5, <1>6, ElementOfSeq
  <2>2. /\ SubSeq(chunks, 1, n - 1) \in Seq(C)
        /\ Len(SubSeq(chunks, 1, n - 1)) = n - 1
        /\ \A j \in 1..(n - 1) : SubSeq(chunks, 1, n - 1)[j] = chunks[j]
    BY <1>6, <2>1, SubSeqProperties
  <2>3. QED
    BY <2>2 DEF Ready, Front
<1> HIDE DEF U, C, S, part, cut
<1>9. /\ SlicesOf(part, buf)
      /\ \A j \in DOMAIN part : j \in DOMAIN chunks /\ part[j] = chunks[j]
      /\ Advance(chunks) => Advance(part)
  <2>1. Len(part) <= Len(chunks) /\ \A j \in 1..Len(part) : part[j] = chunks[j]
    BY <1>6, <1>8
  <2>2. QED
    BY <1>5, <1>8, <2>1, PartOfChunks
<1>10. DOMAIN part = 1..(n - 1) /\ DOMAIN out = 1..Len(out) /\ Len(out) \in Nat
  BY <1>1, <1>6, <1>8, LenProperties
<1>11. /\ new \in Seq(Range(new))
       /\ DOMAIN new = 1..(Len(out) + Len(part))
       /\ \A m \in 1..Len(out) : new[m] = out[m]
       /\ \A m \in 1..Len(part) : new[Len(out) + m].start = part[m].start + b
  <2>1. out \in Seq(S) /\ part \in Seq(C)
    BY <1>1, <1>8
  <2>2. /\ new \in Seq(Range(new))
        /\ DOMAIN new = 1..(Len(out) + Len(part))
        /\ \A i \in 1..Len(out) : new[i] = out[i]
        /\ \A i \in 1..Len(part) :
              /\ new[Len(out) + i].start = part[i].start + b
              /\ new[Len(out) + i].end = part[i].end + b
              /\ new[Len(out) + i].text = part[i].text
    BY <2>1, Emitting
  <2> HIDE DEF new
  <2>3. QED
    BY <2>2
<1>12. b \in Nat /\ cut \in Nat
  BY <1>1, <1>2, <1>7
<1>13. b + cut \in 0..Len(f) /\ b + cut < Len(f)
  BY SMTT(30), <1>1, <1>2, <1>3, <1>7
<1>14. Slice(buf, cut, Len(buf)) = Slice(f, b + cut, Len(f))
  <2>1. /\ cut \in 0..(Len(f) - b)
        /\ Len(f) - b \in cut..(Len(f) - b)
        /\ b + (Len(f) - b) = Len(f)
    BY <1>1, <1>2, <1>3, <1>7
  <2>2. Slice(buf, cut, Len(f) - b) = Slice(f, b + cut, b + (Len(f) - b))
    BY <1>1, <2>1, SliceOfTail
  <2>3. QED
    BY <1>3, <2>1, <2>2
<1>15. SlicesOf(new, f)
  BY <1>1, <1>8, <1>9, EmittingSlices
<1>16. ASSUME NEW i \in DOMAIN f, i <= b + cut
       PROVE  MayDrop(k, f, i) \/ Covered(new, i)
  <2>1. i \in Int
    BY <1>2
  <2>2. /\ Covered(out, i) => Covered(new, i)
        /\ (/\ \A m \in DOMAIN part : part[m].start \in Int /\ part[m].end \in Int
            /\ Covered(part, i - b)) => Covered(new, i)
    BY <1>1, <1>8, <1>12, <2>1, EmittingCovers
  <2> HIDE DEF new
  <2>3. CASE i <= b
    BY <2>2, <2>3 DEF Progress
  <2>4. CASE i > b
    <3>1. i - b \in 1..Len(buf) /\ i - b <= cut /\ b + (i - b) = i
      BY <1>2, <1>3, <1>12, <1>16, <2>1, <2>4
    <3>2. MayDrop(k, buf, i - b) => MayDrop(k, f, i)
      <4>1. i - b \in 1..(Len(f) - b)
        BY <1>3, <3>1
      <4>2. QED
        BY <1>1, <1>2, <3>1, <4>1, DropInSlice
    <3>3. ASSUME NEW m \in DOMAIN chunks,
                 chunks[m].start < i - b, i - b <= chunks[m].end
          PROVE  Covered(part, i - b)
      <4>1. m # n
        BY <1>7, <1>12, <2>1, <3>1, <3>3
      <4>2. m \in DOMAIN part /\ part[m] = chunks[m]
        BY <1>6, <1>8, <1>10, <4>1
      <4>3. QED
        BY <3>3, <4>2 DEF Covered
    <3>4. Covered(chunks, i - b) => Covered(part, i - b)
      BY <3>3 DEF Covered
    <3>5. \A m \in DOMAIN part : part[m].start \in Int /\ part[m].end \in Int
      BY <1>5, <1>9
    <3>6. QED
      BY <1>5, <2>2, <3>1, <3>2, <3>4, <3>5
  <2>5. QED
    BY <1>12, <2>1, <2>3, <2>4
<1>17. ASSUME k \notin Rewinding
       PROVE  Advance(new) /\ \A m \in DOMAIN new : new[m].start < b + cut
  <2>1. Advance(out) /\ \A m \in DOMAIN out : out[m].start < b
    BY <1>17 DEF Progress
  <2>2. \A m \in DOMAIN out : out[m].start \in Int
    BY <1>1, <1>2 DEF SlicesOf
  <2>3. \A m \in DOMAIN part : part[m].start \in Nat
    BY <1>5, <1>9
  <2>4. Advance(chunks) /\ Advance(part) /\ b \in Nat
    BY <1>5, <1>9, <1>12, <1>17
  <2>5. Advance(new)
    BY <1>1, <1>8, <2>1, <2>2, <2>3, <2>4, EmittingAdvances
  <2>6. ASSUME NEW m \in DOMAIN new
        PROVE  new[m].start < b + cut
    <3>1. CASE m <= Len(out)
      <4>1. m \in DOMAIN out /\ new[m] = out[m]
        BY <1>10, <1>11, <3>1
      <4>2. QED
        BY <1>12, <2>1, <2>2, <4>1
    <3>2. CASE m > Len(out)
      <4> DEFINE j == m - Len(out)
      <4>1. j \in 1..Len(part) /\ j \in DOMAIN part /\ m = Len(out) + j /\ j < n
        BY <1>6, <1>8, <1>10, <1>11, <3>2
      <4> HIDE DEF j
      <4>2. new[m].start = part[j].start + b
        BY <1>11, <4>1
      <4>3. part[j].start < cut
        <5>1. n \in DOMAIN chunks /\ j \in DOMAIN chunks /\ part[j] = chunks[j]
          BY <1>6, <1>9, <4>1
        <5>2. chunks[j].start < chunks[n].start
          BY <2>4, <4>1, <5>1 DEF Advance
        <5>3. QED
          BY <1>7, <5>1, <5>2
      <4>4. QED
        <5>1. part[j].start \in Nat /\ b \in Nat /\ cut \in Int
          BY <1>7, <2>3, <2>4, <4>1
        <5>2. QED
          BY <4>2, <4>3, <5>1
    <3>3. QED
      BY <1>10, <1>11, <3>1, <3>2
  <2>7. QED
    BY <2>5, <2>6
<1> HIDE DEF new
<1>18. /\ Len(f) <= MaxText[k]
       /\ \A i \in DOMAIN f : i <= b + cut => (MayDrop(k, f, i) \/ Covered(new, i))
  BY <1>1, <1>16
<1>19. Progress(k, f, Slice(buf, cut, Len(buf)), b + cut, new)
  BY <1>1, <1>11, <1>13, <1>14, <1>15, <1>17, <1>18 DEF Progress, U
<1>20. QED
  BY <1>19 DEF cut, part, new

\* At the end all chunks of the buffer are emitted, and they cover it.
LEMMA EndPreserves ==
    ASSUME IndInv, EndOfStream
    PROVE  IndInv'
<1> DEFINE U == UnitsOf[kind]
           C == ChunkType(kind)
           S == Range(emitted)
           chunks == ChunkWith(kind, buffer)
           new == emitted \o Placed(chunks, base, pages)
<1>1. /\ kind \in Kinds /\ full \in Seq(U) /\ Len(full) <= MaxText[kind]
      /\ base \in 0..Len(full) /\ buffer = Slice(full, base, Len(full))
      /\ emitted \in Seq(S) /\ SlicesOf(emitted, full)
  BY DEF IndInv, Progress, EndOfStream
<1>2. Len(full) \in Nat /\ Len(full) \in base..Len(full) /\ DOMAIN full = 1..Len(full)
  BY <1>1, LenProperties
<1>3. /\ buffer \in Seq(U) /\ Len(buffer) = Len(full) - base
      /\ DOMAIN buffer = 1..Len(buffer)
      /\ \A i \in 1..(Len(full) - base) : buffer[i] = full[base + i]
  BY ZenonT(30), <1>1, <1>2, SliceProperties, LenProperties
<1>4. Len(buffer) <= MaxText[kind]
  <2>1. MaxText[kind] \in Nat
    BY <1>1, StreamAssumption
  <2>2. QED
    BY <1>1, <1>2, <1>3, <2>1
<1>5. /\ chunks \in Seq(C)
      /\ \A j \in DOMAIN chunks : chunks[j].start \in Nat /\ chunks[j].end \in Nat
      /\ SlicesOf(chunks, buffer)
      /\ \A i \in 1..Len(buffer) : MayDrop(kind, buffer, i) \/ Covered(chunks, i)
      /\ kind \in Rewinding \/ Advance(chunks)
  BY <1>1, <1>3, <1>4, ChunksOfBuffer
<1>6. base \in Nat
  BY <1>1, <1>2
<1>7. /\ ended' = TRUE /\ UNCHANGED <<kind, buffer, base, full>> /\ ~ended
      /\ emitted' = IF IsBlank(buffer) THEN emitted ELSE new
  BY DEF EndOfStream
<1> HIDE DEF U, C, S, chunks
<1>8. SlicesOf(new, full)
  BY <1>1, <1>5, EmittingSlices
<1>9. ASSUME kind \notin Rewinding PROVE Advance(new)
  <2>1. Advance(emitted) /\ \A k \in DOMAIN emitted : emitted[k].start < base
    BY <1>7, <1>9 DEF IndInv, Progress
  <2>2. \A k \in DOMAIN emitted : emitted[k].start \in Int
    BY <1>1, <1>2 DEF SlicesOf
  <2>3. Advance(chunks)
    BY <1>5, <1>9
  <2>4. QED
    BY <1>1, <1>5, <1>6, <2>1, <2>2, <2>3, EmittingAdvances
<1>10. ASSUME NEW i \in DOMAIN full
       PROVE  MayDrop(kind, full, i) \/ Covered(emitted', i)
  <2>1. i \in Int
    BY <1>2
  <2>2. /\ Covered(emitted, i) => Covered(new, i)
        /\ (/\ \A k \in DOMAIN chunks : chunks[k].start \in Int /\ chunks[k].end \in Int
            /\ Covered(chunks, i - base)) => Covered(new, i)
    BY <1>1, <1>5, <1>6, <2>1, EmittingCovers
  <2> HIDE DEF new
  <2>3. CASE i <= base
    BY <1>7, <2>2, <2>3 DEF IndInv, Progress
  <2>4. CASE i > base
    <3>1. i - base \in 1..Len(buffer) /\ base + (i - base) = i
      BY <1>2, <1>3, <1>6, <2>1, <2>4
    <3>2. MayDrop(kind, buffer, i - base) => MayDrop(kind, full, i)
      <4>1. i - base \in 1..(Len(full) - base)
        BY <1>3, <3>1
      <4>2. QED
        BY <1>1, <1>2, <3>1, <4>1, DropInSlice
    <3>3. CASE IsBlank(buffer)
      BY <1>3, <3>1, <3>2, <3>3 DEF IsBlank, MayDrop, InSeparator
    <3>4. CASE ~IsBlank(buffer)
      <4>1. \A k \in DOMAIN chunks : chunks[k].start \in Int /\ chunks[k].end \in Int
        BY <1>5
      <4>2. QED
        BY <1>5, <1>7, <2>2, <3>1, <3>2, <3>4, <4>1
    <3>5. QED
      BY <3>3, <3>4
  <2>5. QED
    BY <1>6, <2>1, <2>3, <2>4
<1> HIDE DEF new
<1>11. OnlySeparatorsAreLost'
  BY <1>7, <1>10 DEF OnlySeparatorsAreLost, Covered
<1>12. ChunksAreSlices'
  BY <1>1, <1>7, <1>8 DEF ChunksAreSlices
<1>13. ChunksAdvance'
  BY <1>7, <1>9 DEF IndInv, ChunksAdvance, Advance
<1>14. QED
  BY <1>1, <1>7, <1>11, <1>12, <1>13 DEF IndInv

\* A segment is taken: the buffer is kept or cut.
LEMMA TakeSegmentPreserves ==
    ASSUME IndInv, NEW segment \in SegmentsOf[kind], NEW page,
           TakeSegment(segment, page)
    PROVE  IndInv'
<1> DEFINE joined == Separated(kind, buffer)
           before == Separated(kind, full)
           text == joined \o segment
           marked == Append(pages, [at |-> Len(joined), page |-> page])
           chunks == ChunkWith(kind, text)
           cut == CutAt(chunks)
           g == Added(kind, full, segment)
<1>1. /\ ~ended /\ segment # <<>> /\ full' = before \o segment
      /\ Len(before \o segment) <= MaxText[kind]
      /\ UNCHANGED <<kind, ended>>
      /\ Flush(text, marked)
  BY DEF TakeSegment
<1>2. kind \in Kinds /\ ended \in BOOLEAN /\ Progress(kind, full, buffer, base, emitted)
  BY <1>1 DEF IndInv
<1>3. /\ g \in Seq(UnitsOf[kind]) /\ g # <<>>
      /\ before \o segment = full \o g /\ joined \o segment = buffer \o g
  <2>1. segment \in SegmentsOf[kind] /\ segment # <<>>
    BY <1>1
  <2>2. QED
    BY <1>2, <2>1, SegmentAppended
<1> HIDE DEF g
<1>4. Progress(kind, full', text, base, emitted)
  <2>1. full' = full \o g /\ text = buffer \o g /\ Len(full \o g) <= MaxText[kind]
    BY <1>1, <1>3
  <2>2. QED
    BY <1>2, <1>3, <2>1, KeptPreserves
<1>5. full' # <<>>
  <2>1. full \in Seq(UnitsOf[kind])
    BY <1>2 DEF Progress
  <2>2. full \o g = <<>> => g = <<>>
    BY <1>3, <2>1, ConcatEqualIffEmpty
  <2>3. QED
    BY <1>1, <1>3, <2>2
<1> HIDE DEF before, text, marked
<1>6. Progress(kind, full', buffer', base', emitted')
  <2>1. CASE Len(text) < FlushChars \/ Len(chunks) < 2
    BY <1>1, <1>4, <2>1 DEF Flush
  <2>2. CASE ~(Len(text) < FlushChars \/ Len(chunks) < 2)
    <3>1. /\ emitted' = emitted \o Placed(Ready(chunks), base, marked)
          /\ base' = base + cut
          /\ buffer' = Slice(text, cut, Len(text))
      BY <1>1, <2>2 DEF Flush
    <3>2. Len(chunks) >= 2
      <4>1. text \in Seq(UnitsOf[kind]) /\ Len(text) <= MaxText[kind]
        BY <1>2, <1>4, TailOfText
      <4>2. chunks \in Seq(ChunkType(kind))
        BY <1>2, <4>1, ChunksOfBuffer
      <4>3. Len(chunks) \in Nat
        BY <4>2, LenProperties
      <4>4. QED
        BY <2>2, <4>3
    <3>3. Progress(kind, full', Slice(text, cut, Len(text)), base + cut,
                   emitted \o Placed(Ready(chunks), base, marked))
      BY <1>2, <1>4, <1>5, <3>2, CutPreserves
    <3>4. QED
      BY <3>1, <3>3
  <2>3. QED
    BY <2>1, <2>2
<1>7. ChunksAreSlices'
  BY <1>6 DEF Progress, ChunksAreSlices
<1>8. OnlySeparatorsAreLost'
  BY <1>1, <1>6 DEF Progress, OnlySeparatorsAreLost, Covered
<1>9. ChunksAdvance'
  BY <1>1, <1>6 DEF Progress, ChunksAdvance, Advance
<1>10. QED
  BY <1>1, <1>2, <1>6, <1>7, <1>8, <1>9 DEF IndInv

\* Every step of a stream makes progress.
LEMMA NextPreserves == IndInv /\ [Next]_vars => IndInv'
<1> SUFFICES ASSUME IndInv, [Next]_vars PROVE IndInv'
  OBVIOUS
<1>1. ASSUME NEW segment \in SegmentsOf[kind], TakeSegment(segment, NextPage)
      PROVE  IndInv'
  BY <1>1, TakeSegmentPreserves
<1>2. CASE EndOfStream
  BY <1>2, EndPreserves
<1>3. CASE UNCHANGED vars
  <2>1. UNCHANGED <<kind, buffer, base, emitted, ended, full>>
    BY <1>3 DEF vars
  <2>2. QED
    BY <2>1 DEF IndInv, Progress, ChunksAreSlices, SlicesOf, OnlySeparatorsAreLost,
                Covered, ChunksAdvance, Advance
<1>4. QED
  BY <1>1, <1>2, <1>3 DEF Next

\* The markers say of every offset what the others say of its place in the full
\* text.
Agree(marked, all, offset) == \A o \in Nat : PageAt(marked, o) = PageAt(all, offset + o)

\* Chunks have the pages that the markers say.
Right(chunks, all) == \A j \in DOMAIN chunks : chunks[j].page = PageAt(all, chunks[j].start)

\* Emitted chunks have the right pages if the markers of the buffer agree with
\* those of the full text.
LEMMA EmittingPages ==
    ASSUME NEW S, NEW old \in Seq(S), NEW C, NEW part \in Seq(C),
           NEW offset \in Nat, NEW marked, NEW all
    PROVE  /\ Agree(marked, all, offset) /\ Right(old, all)
           /\ \A j \in DOMAIN part : part[j].start \in Nat
           => Right(old \o Placed(part, offset, marked), all)
<1> DEFINE new == old \o Placed(part, offset, marked)
           n == Len(old)
           k == Len(part)
<1>0. /\ new \in Seq(Range(new))
      /\ DOMAIN new = 1..(Len(old) + Len(part))
      /\ \A i \in 1..Len(old) : new[i] = old[i]
      /\ \A i \in 1..Len(part) : new[Len(old) + i] = Place(part[i], offset, marked)
  BY EmittingPlaces
<1>1. /\ n \in Nat /\ k \in Nat
      /\ DOMAIN old = 1..n /\ DOMAIN part = 1..k
  BY LenProperties
<1>2. /\ DOMAIN new = 1..(n + k)
      /\ \A i \in 1..n : new[i] = old[i]
      /\ \A i \in 1..k : new[n + i] = Place(part[i], offset, marked)
  BY <1>0
<1> SUFFICES ASSUME Agree(marked, all, offset), Right(old, all),
                    \A j \in DOMAIN part : part[j].start \in Nat,
                    NEW j \in DOMAIN new
             PROVE  new[j].page = PageAt(all, new[j].start)
  BY DEF Right
<1> HIDE DEF new, n, k
<1>3. CASE j <= n
  <2>1. j \in 1..n
    BY <1>1, <1>2, <1>3
  <2>2. QED
    BY <1>1, <1>2, <2>1 DEF Right
<1>4. CASE j > n
  <2> DEFINE i == j - n
             s == part[i].start
  <2>1. i \in 1..k /\ j = n + i
    <3>1. j \in 1..(n + k)
      BY <1>2
    <3>2. QED
      BY <1>1, <1>4, <3>1
  <2>2. s \in Nat
    BY <1>1, <2>1
  <2>3. new[j] = Place(part[i], offset, marked)
    BY <1>2, <2>1
  <2>4. new[j].start = s + offset /\ new[j].page = PageAt(marked, s)
    BY <2>3 DEF Place
  <2> HIDE DEF s, i
  <2>5. s + offset = offset + s
    BY <2>2
  <2>6. QED
    BY <2>2, <2>4, <2>5 DEF Agree
<1>5. QED
  BY <1>1, <1>2, <1>3, <1>4

\* A separator is as long in the buffer as in the text.
LEMMA SeparatedLengths ==
    ASSUME NEW k \in Kinds, NEW f, NEW buf, NEW b, NEW out, Progress(k, f, buf, b, out)
    PROVE  /\ Separated(k, f) \in Seq(UnitsOf[k]) /\ Separated(k, buf) \in Seq(UnitsOf[k])
           /\ Len(f) \in Nat /\ Len(buf) \in Nat /\ b \in Nat
           /\ Len(Separated(k, buf)) \in Nat /\ Len(Separated(k, f)) \in Nat
           /\ Len(Separated(k, f)) = b + Len(Separated(k, buf))
           /\ Len(Separated(k, f)) >= Len(f) /\ Len(Separated(k, buf)) >= Len(buf)
<1> DEFINE U == UnitsOf[k]
           sep == SeparatorOf[k]
<1>1. /\ f \in Seq(U) /\ b \in 0..Len(f) /\ (f # <<>> => b < Len(f))
      /\ buf = Slice(f, b, Len(f))
  BY DEF Progress
<1>2. sep \in Seq(U)
  BY StreamAssumption
<1>3. Len(f) \in Nat /\ Len(f) \in b..Len(f) /\ Len(sep) \in Nat
  BY <1>1, <1>2, LenProperties
<1>4. buf \in Seq(U) /\ Len(buf) = Len(f) - b
  BY ZenonT(30), <1>1, <1>3, SliceProperties
<1>5. <<>> \in Seq(U) /\ Len(<<>>) = 0
  BY EmptySeq
<1> HIDE DEF U, sep
<1>6. CASE f = <<>>
  <2>1. Len(f) = 0 /\ b = 0 /\ Len(buf) = 0
    BY <1>1, <1>3, <1>4, <1>5, <1>6
  <2>2. buf = <<>>
    BY <1>4, <2>1, EmptySeq
  <2>3. Separated(k, f) = <<>> /\ Separated(k, buf) = <<>>
    BY <1>6, <2>2 DEF Separated
  <2>4. QED
    BY <1>5, <2>1, <2>3 DEF U
<1>7. CASE f # <<>>
  <2>1. b \in Nat /\ Len(buf) \in Nat /\ Len(buf) # 0
    BY <1>1, <1>3, <1>4, <1>7
  <2>2. Separated(k, f) = f \o sep /\ Separated(k, buf) = buf \o sep
    BY <1>5, <1>7, <2>1 DEF sep, Separated
  <2>3. /\ f \o sep \in Seq(U) /\ Len(f \o sep) = Len(f) + Len(sep)
        /\ buf \o sep \in Seq(U) /\ Len(buf \o sep) = Len(buf) + Len(sep)
    BY <1>1, <1>2, <1>4, ConcatProperties
  <2>4. QED
    BY <1>3, <1>4, <2>1, <2>2, <2>3 DEF U
<1>8. QED
  BY <1>6, <1>7

-----------------------------------------------------------------------------
\* Types and pages.  The markers of the buffer are in order and within it, and
\* they say of every offset what the markers of the full text say of its place
\* there: a cut keeps that, since the new buffer begins with a marker of the
\* page at the cut.

Within(marked, n) == \A i \in 1..Len(marked) : marked[i].at < n

Ordered(marked) == \A i, j \in 1..Len(marked) : i < j => marked[i].at < marked[j].at

PageInv ==
    /\ TypeOK
    /\ pages \in Seq(Marker)
    /\ marks \in Seq(Marker)
    /\ Within(pages, Len(buffer))
    /\ Agree(pages, marks, base)
    /\ PagesAreRight

\* A stream that was not begun has no pages.
LEMMA InitPageInv == Init => PageInv
<1> SUFFICES ASSUME Init PROVE PageInv
  OBVIOUS
<1>1. /\ kind \in Kinds /\ buffer = <<>> /\ base = 0 /\ pages = <<>>
      /\ emitted = <<>> /\ ended = FALSE /\ full = <<>> /\ marks = <<>>
  BY DEF Init
<1>2. <<>> \in Seq(Marker) /\ Len(<<>>) = 0 /\ DOMAIN <<>> = {}
  BY EmptySeq
<1>3. TypeOK
  <2>1. 0 \in 0..Len(full) /\ Len(buffer) <= Len(full)
    BY <1>1, <1>2
  <2>2. DOMAIN pages = {}
    BY <1>1, <1>2
  <2>3. QED
    BY <1>1, <2>1, <2>2 DEF TypeOK
<1>4. Agree(pages, marks, base)
  BY <1>1 DEF Agree
<1>5. PagesAreRight /\ Within(pages, Len(buffer))
  BY <1>1, <1>2 DEF PagesAreRight, Within
<1>6. QED
  BY <1>1, <1>2, <1>3, <1>4, <1>5 DEF PageInv

\* The marker of a segment that is appended.
LEMMA MarkerAppended ==
    ASSUME NEW m \in Seq(Marker), NEW all \in Seq(Marker), NEW b \in Nat,
           NEW mark \in Marker, NEW markAll \in Marker,
           markAll.at = b + mark.at, markAll.page = mark.page,
           Within(m, mark.at), Ordered(m), Agree(m, all, b)
    PROVE  /\ Append(m, mark) \in Seq(Marker) /\ Append(all, markAll) \in Seq(Marker)
           /\ Within(Append(m, mark), mark.at + 1) /\ Ordered(Append(m, mark))
           /\ Agree(Append(m, mark), Append(all, markAll), b)
           /\ \A o \in Nat : o < b + mark.at =>
                 PageAt(Append(all, markAll), o) = PageAt(all, o)
<1> DEFINE new == Append(m, mark)
           newAll == Append(all, markAll)
           at == mark.at
           page == mark.page
           place == markAll.at
<1>1. at \in Nat /\ page \in Nat \cup {NoPage}
  BY DEF Marker
<1>2. /\ mark.at = at /\ mark.page = page /\ markAll.at = place /\ markAll.page = page
      /\ place = b + at /\ place \in Nat
  BY <1>1
<1>3. Len(m) \in Nat /\ \A i \in 1..Len(m) : m[i].at \in Nat
  BY MarkerAt
<1> HIDE DEF at, page, place
<1>4. /\ new \in Seq(Marker) /\ Len(new) = Len(m) + 1 /\ new[Len(m) + 1] = mark
      /\ \A i \in 1..Len(m) : new[i] = m[i]
  BY AppendProperties
<1>5. newAll \in Seq(Marker)
  BY AppendProperties
<1>6. ASSUME NEW o \in Nat
      PROVE  PageAt(new, o) = IF at <= o THEN page ELSE PageAt(m, o)
  <2>1. o \in Int
    OBVIOUS
  <2>2. QED
    BY <1>2, <2>1, PageAfterAppend
<1>7. ASSUME NEW o \in Nat
      PROVE  PageAt(newAll, o) = IF place <= o THEN page ELSE PageAt(all, o)
  <2>1. o \in Int
    OBVIOUS
  <2>2. QED
    BY <1>2, <2>1, PageAfterAppend
<1> HIDE DEF new, newAll
<1>8. Agree(new, newAll, b)
  <2>1. ASSUME NEW o \in Nat PROVE PageAt(new, o) = PageAt(newAll, b + o)
    <3>1. b + o \in Nat /\ (place <= b + o <=> at <= o)
      BY <1>1, <1>2
    <3>2. PageAt(newAll, b + o) = IF at <= o THEN page ELSE PageAt(all, b + o)
      BY <1>7, <3>1
    <3>3. PageAt(m, o) = PageAt(all, b + o)
      BY DEF Agree
    <3>4. QED
      BY <1>6, <3>2, <3>3
  <2>2. QED
    BY <2>1 DEF Agree
<1>9. ASSUME NEW o \in Nat, o < place PROVE PageAt(newAll, o) = PageAt(all, o)
  <2>1. ~(place <= o)
    BY <1>1, <1>2, <1>9
  <2>2. QED
    BY <1>7, <2>1
<1>10. Within(new, at + 1)
  <2>1. ASSUME NEW i \in 1..Len(new) PROVE new[i].at < at + 1
    <3>1. CASE i = Len(m) + 1
      BY <1>1, <1>2, <1>4, <3>1
    <3>2. CASE i # Len(m) + 1
      <4>1. i \in 1..Len(m) /\ new[i].at = m[i].at
        BY <1>3, <1>4, <3>2
      <4>2. m[i].at < at /\ m[i].at \in Nat
        BY <1>2, <1>3, <4>1 DEF Within
      <4>3. QED
        BY <1>1, <4>1, <4>2
    <3>3. QED
      BY <3>1, <3>2
  <2>2. QED
    BY <2>1 DEF Within
<1>11. ASSUME NEW i \in 1..Len(new), NEW j \in 1..Len(new), i < j
       PROVE  new[i].at < new[j].at
  <2>1. i \in 1..Len(m) /\ new[i].at = m[i].at
    BY <1>3, <1>4, <1>11
  <2>2. CASE j = Len(m) + 1
    <3>1. m[i].at < at /\ m[i].at \in Nat
      BY <1>2, <1>3, <2>1 DEF Within
    <3>2. new[j].at = at
      BY <1>2, <1>4, <2>2
    <3>3. QED
      BY <1>1, <2>1, <3>1, <3>2
  <2>3. CASE j # Len(m) + 1
    <3>1. j \in 1..Len(m) /\ new[j].at = m[j].at
      BY <1>3, <1>4, <2>3
    <3>2. m[i].at < m[j].at
      BY <1>11, <2>1, <3>1 DEF Ordered
    <3>3. QED
      BY <2>1, <3>1, <3>2
  <2>4. QED
    BY <2>2, <2>3
<1>12. Ordered(new)
  BY <1>11 DEF Ordered
<1>13. QED
  BY <1>2, <1>4, <1>5, <1>8, <1>9, <1>10, <1>12 DEF new, newAll, at, place

\* The markers of a buffer that is cut.
LEMMA MarkersCut ==
    ASSUME NEW m \in Seq(Marker), NEW all, NEW b \in Nat, NEW cut \in Nat,
           NEW n \in Nat, cut < n,
           Within(m, n), Ordered(m), Agree(m, all, b)
    PROVE  LET new == ShiftPages(m, cut)
           IN /\ new \in Seq(Marker)
              /\ Within(new, n - cut) /\ Ordered(new) /\ Agree(new, all, b + cut)
<1> DEFINE last == LastBegun(m, cut)
           new == ShiftPages(m, cut)
           k == Len(m) - last
<1>1. /\ new \in Seq(Marker) /\ Len(new) = 1 + Len(m) - last
      /\ new[1] = [at |-> 0, page |-> PageAt(m, cut)]
      /\ \A i \in 1..(Len(m) - last) :
            new[1 + i] = [at |-> m[last + i].at - cut, page |-> m[last + i].page]
  BY ShiftedMarkers
<1>2. Len(m) \in Nat /\ \A i \in 1..Len(m) : m[i].at \in Nat
  BY MarkerAt
<1>3. /\ last \in 0..Len(m)
      /\ \A i \in 1..Len(m) : i > last => m[i].at > cut
  <2>1. cut \in Int
    OBVIOUS
  <2>2. QED
    BY <2>1, LastBegunProperties
<1>4. Agree(new, all, b + cut)
  <2>1. ASSUME NEW o \in Nat PROVE PageAt(new, o) = PageAt(all, (b + cut) + o)
    <3>1. PageAt(new, o) = PageAt(m, cut + o)
      BY PageAfterShift
    <3>2. cut + o \in Nat /\ b + (cut + o) = (b + cut) + o
      OBVIOUS
    <3>3. PageAt(m, cut + o) = PageAt(all, b + (cut + o))
      BY <3>2 DEF Agree
    <3>4. QED
      BY <3>1, <3>2, <3>3
  <2>2. QED
    BY <2>1 DEF Agree
<1> HIDE DEF last, new
<1>5. k \in Nat /\ Len(new) = k + 1
  BY <1>1, <1>2, <1>3
<1> HIDE DEF k
<1>6. ASSUME NEW i \in 1..k
      PROVE  /\ last + i \in 1..Len(m) /\ new[1 + i].at = m[last + i].at - cut
             /\ m[last + i].at \in Nat /\ m[last + i].at > cut /\ m[last + i].at < n
  <2>1. i \in 1..(Len(m) - last) /\ last + i \in 1..Len(m) /\ last + i > last
    BY <1>2, <1>3, <1>5 DEF k
  <2>2. new[1 + i] = [at |-> m[last + i].at - cut, page |-> m[last + i].page]
    BY <1>1, <2>1
  <2>3. QED
    BY <1>2, <1>3, <2>1, <2>2 DEF Within
<1>7. ASSUME NEW i \in 1..Len(new), i # 1
      PROVE  i - 1 \in 1..k /\ i = 1 + (i - 1)
  BY <1>5, <1>7
<1>8. new[1].at = 0
  BY <1>1
<1>9. ASSUME NEW i \in 1..Len(new) PROVE new[i].at < n - cut
  <2>1. CASE i = 1
    BY <1>8, <2>1
  <2>2. CASE i # 1
    <3> DEFINE h == i - 1
    <3>1. h \in 1..k /\ i = 1 + h
      BY <1>7, <2>2
    <3> HIDE DEF h
    <3>2. QED
      BY <1>6, <3>1
  <2>3. QED
    BY <2>1, <2>2
<1>10. ASSUME NEW i \in 1..Len(new), NEW j \in 1..Len(new), i < j
       PROVE  new[i].at < new[j].at
  <2> DEFINE h == j - 1
             g == i - 1
  <2>1. h \in 1..k /\ j = 1 + h
    BY <1>5, <1>7, <1>10
  <2>2. i # 1 => g \in 1..k /\ i = 1 + g /\ g < h
    BY <1>7, <1>10
  <2> HIDE DEF h, g
  <2>3. /\ new[j].at = m[last + h].at - cut /\ last + h \in 1..Len(m)
        /\ m[last + h].at \in Nat /\ m[last + h].at > cut
    BY <1>6, <2>1
  <2>4. CASE i = 1
    BY <1>8, <2>3, <2>4
  <2>5. CASE i # 1
    <3>1. g \in 1..k /\ i = 1 + g /\ g < h
      BY <2>2, <2>5
    <3>2. /\ new[i].at = m[last + g].at - cut /\ last + g \in 1..Len(m)
          /\ m[last + g].at \in Nat
      BY <1>6, <3>1
    <3>3. last + g < last + h
      BY <1>3, <2>1, <3>1
    <3>4. m[last + g].at < m[last + h].at
      BY <2>3, <3>2, <3>3 DEF Ordered
    <3>5. QED
      BY SMTT(30), <2>3, <3>2, <3>4
  <2>6. QED
    BY <2>4, <2>5
<1>11. Within(new, n - cut) /\ Ordered(new)
  BY <1>9, <1>10 DEF Within, Ordered
<1>12. QED
  BY <1>1, <1>4, <1>11 DEF new

\* Text that is appended behind a chunk does not change its page.
LEMMA StillRight ==
    ASSUME NEW chunks, NEW all, NEW newAll, NEW n \in Nat, Right(chunks, all),
           \A o \in Nat : o < n => PageAt(newAll, o) = PageAt(all, o),
           \A j \in DOMAIN chunks : chunks[j].start \in Nat /\ chunks[j].start < n
    PROVE  Right(chunks, newAll)
  BY DEF Right

\* A segment is taken: its marker is appended, and moved if the buffer is cut.
LEMMA TakeSegmentPages ==
    ASSUME IndInv, PageInv, NEW segment \in SegmentsOf[kind],
           NEW page \in Nat \cup {NoPage}, TakeSegment(segment, page)
    PROVE  PageInv'
<1> DEFINE U == UnitsOf[kind]
           joined == Separated(kind, buffer)
           before == Separated(kind, full)
           at == Len(joined)
           text == joined \o segment
           marked == Append(pages, [at |-> at, page |-> page])
           chunks == ChunkWith(kind, text)
           part == Ready(chunks)
           cut == CutAt(chunks)
           g == Added(kind, full, segment)
<1>1. /\ ~ended /\ segment # <<>> /\ full' = before \o segment
      /\ Len(before \o segment) <= MaxText[kind]
      /\ marks' = Append(marks, [at |-> Len(before), page |-> page])
      /\ UNCHANGED <<kind, ended>>
      /\ Flush(text, marked)
  BY DEF TakeSegment
<1>2. kind \in Kinds /\ ended \in BOOLEAN /\ Progress(kind, full, buffer, base, emitted)
  BY <1>1 DEF IndInv
<1>3. /\ before \in Seq(U) /\ joined \in Seq(U)
      /\ Len(full) \in Nat /\ Len(buffer) \in Nat /\ base \in Nat
      /\ at \in Nat /\ Len(before) \in Nat
      /\ Len(before) = base + at
      /\ Len(before) >= Len(full) /\ at >= Len(buffer)
  BY <1>2, SeparatedLengths
<1>4. segment \in Seq(U) /\ Len(segment) \in Nat /\ Len(segment) # 0
  <2>1. SegmentsOf[kind] \subseteq Seq(UnitsOf[kind])
    BY <1>2, StreamAssumption
  <2>2. segment \in Seq(U)
    BY <2>1
  <2>3. QED
    BY <1>1, <2>2, LenProperties, EmptySeq
<1>5. /\ text \in Seq(U) /\ Len(text) = at + Len(segment)
      /\ full' \in Seq(U) /\ Len(full') = Len(before) + Len(segment)
  BY <1>1, <1>3, <1>4, ConcatProperties
<1>6. Progress(kind, full', text, base, emitted)
  <2>1. g \in Seq(U) /\ g # <<>> /\ full' = full \o g /\ text = buffer \o g
    BY <1>1, <1>2, SegmentAppended
  <2>2. Len(full \o g) <= MaxText[kind]
    BY <1>1, <2>1
  <2>3. QED
    BY <1>2, <2>1, <2>2, KeptPreserves
<1>7. /\ pages \in Seq(Marker) /\ marks \in Seq(Marker)
      /\ Within(pages, Len(buffer)) /\ Ordered(pages) /\ Agree(pages, marks, base)
      /\ Right(emitted, marks)
  <2>1. DOMAIN pages = 1..Len(pages)
    BY LenProperties DEF PageInv
  <2>2. QED
    BY <2>1 DEF PageInv, TypeOK, Ordered, PagesAreRight, Right
<1>8. /\ marked \in Seq(Marker) /\ marks' \in Seq(Marker)
      /\ Within(marked, at + 1) /\ Ordered(marked) /\ Agree(marked, marks', base)
      /\ \A o \in Nat : o < base + at => PageAt(marks', o) = PageAt(marks, o)
  <2> DEFINE mark == [at |-> at, page |-> page]
             markAll == [at |-> Len(before), page |-> page]
  <2>1. /\ mark \in Marker /\ markAll \in Marker
        /\ mark.at = at /\ markAll.at = base + mark.at /\ markAll.page = mark.page
    BY <1>3 DEF Marker
  <2>2. marked = Append(pages, mark) /\ marks' = Append(marks, markAll)
    BY <1>1
  <2>3. Within(pages, at)
    <3>1. \A i \in 1..Len(pages) : pages[i].at \in Nat /\ pages[i].at < Len(buffer)
      BY <1>7, MarkerAt DEF Within
    <3>2. QED
      BY <1>3, <3>1 DEF Within
  <2>4. base \in Nat
    BY <1>3
  <2> HIDE DEF mark, markAll, at, marked
  <2>5. QED
    BY <1>7, <2>1, <2>2, <2>3, <2>4, MarkerAppended
<1>9. Right(emitted, marks')
  <2>1. \A j \in DOMAIN emitted : emitted[j].start \in 0..(Len(full) - 1)
    BY <1>2 DEF Progress, SlicesOf
  <2>2. \A j \in DOMAIN emitted : emitted[j].start \in Nat /\ emitted[j].start < base + at
    BY <1>3, <2>1
  <2>3. base + at \in Nat
    BY <1>3
  <2>4. QED
    BY <1>7, <1>8, <2>2, <2>3, StillRight
<1>10. Within(marked, Len(text))
  <2>1. \A i \in 1..Len(marked) : marked[i].at \in Nat /\ marked[i].at < at + 1
    BY <1>8, MarkerAt DEF Within
  <2>2. QED
    BY SMTT(30), <1>3, <1>4, <1>5, <2>1 DEF Within
<1>11. Len(text) \in Nat /\ Len(full') \in Nat /\ Len(text) <= Len(full')
  BY <1>3, <1>4, <1>5
<1> HIDE DEF U, joined, before, at, text, marked, chunks, g
<1>12. /\ pages' \in Seq(Marker) /\ Within(pages', Len(buffer')) /\ Ordered(pages')
       /\ Agree(pages', marks', base') /\ Right(emitted', marks')
       /\ base' \in 0..Len(full') /\ Len(buffer') \in Nat /\ Len(buffer') <= Len(full')
  <2>1. CASE Len(text) < FlushChars \/ Len(chunks) < 2
    <3>1. buffer' = text /\ pages' = marked /\ base' = base /\ emitted' = emitted
      BY <1>1, <2>1 DEF Flush, chunks
    <3>2. base \in 0..Len(full')
      BY <1>6 DEF Progress
    <3>3. QED
      BY <1>8, <1>9, <1>10, <1>11, <3>1, <3>2
  <2>2. CASE ~(Len(text) < FlushChars \/ Len(chunks) < 2)
    <3>1. /\ emitted' = emitted \o Placed(part, base, marked)
          /\ pages' = ShiftPages(marked, cut)
          /\ base' = base + cut
          /\ buffer' = Slice(text, cut, Len(text))
      BY <1>1, <2>2 DEF Flush, chunks
    <3>2. Len(text) <= MaxText[kind]
      BY <1>2, <1>6, TailOfText
    <3>3. /\ chunks \in Seq(ChunkType(kind))
          /\ \A j \in DOMAIN chunks : chunks[j].start \in Nat
          /\ SlicesOf(chunks, text)
      BY <1>2, <1>5, <3>2, ChunksOfBuffer DEF U, chunks
    <3>4. Len(chunks) \in Nat /\ Len(chunks) >= 2 /\ DOMAIN chunks = 1..Len(chunks)
      <4>1. Len(chunks) \in Nat /\ DOMAIN chunks = 1..Len(chunks)
        BY <3>3, LenProperties
      <4>2. QED
        BY <2>2, <4>1
    <3>5. cut \in 0..(Len(text) - 1)
      <4>1. Len(chunks) \in DOMAIN chunks
        BY <3>4
      <4>2. QED
        BY <3>3, <4>1 DEF SlicesOf, CutAt, Last
    <3>6. /\ part \in Seq(ChunkType(kind))
          /\ \A j \in DOMAIN part : j \in DOMAIN chunks /\ part[j] = chunks[j]
      <4> DEFINE n == Len(chunks) - 1
      <4>1. n \in Nat /\ 1 \in Int
        BY <3>4
      <4>2. \A j \in 1..n : j \in 1..Len(chunks)
        BY <3>4
      <4>3. \A j \in 1..n : chunks[j] \in ChunkType(kind)
        BY <3>3, <4>2, ElementOfSeq
      <4> HIDE DEF n
      <4>4. /\ SubSeq(chunks, 1, n) \in Seq(ChunkType(kind))
            /\ Len(SubSeq(chunks, 1, n)) = n
            /\ \A j \in 1..n : SubSeq(chunks, 1, n)[j] = chunks[j]
        BY <4>1, <4>3, SubSeqProperties
      <4>5. part = SubSeq(chunks, 1, n)
        BY DEF Ready, Front, n
      <4>6. DOMAIN part = 1..n
        BY <4>4, <4>5, LenProperties
      <4>7. QED
        BY <3>4, <4>2, <4>4, <4>5, <4>6
    <3>7. \A j \in DOMAIN part : part[j].start \in Nat
      BY <3>3, <3>6
    <3> HIDE DEF part, cut
    <3>8. Right(emitted', marks')
      <4>1. emitted \in Seq(Range(emitted))
        BY <1>2 DEF Progress
      <4>2. QED
        BY <1>3, <1>8, <1>9, <3>1, <3>6, <3>7, <4>1, EmittingPages
    <3>9. Len(buffer') = Len(text) - cut
      <4>1. cut \in 0..Len(text) /\ Len(text) \in cut..Len(text)
        BY <1>11, <3>5
      <4>2. QED
        BY <1>5, <3>1, <4>1, SliceProperties
    <3>10. /\ pages' \in Seq(Marker) /\ Within(pages', Len(text) - cut)
           /\ Ordered(pages') /\ Agree(pages', marks', base + cut)
      <4>1. cut \in Nat /\ cut < Len(text)
        BY <1>11, <3>5
      <4>2. QED
        BY <1>3, <1>8, <1>10, <1>11, <3>1, <4>1, MarkersCut
    <3>11. base + cut \in 0..Len(full') /\ Len(text) - cut \in Nat /\ Len(text) - cut <= Len(full')
      <4> DEFINE t == Len(text)
                 l == Len(full')
      <4>1. t \in Nat /\ l \in Nat /\ cut \in 0..(t - 1) /\ base \in Nat
        BY <1>3, <1>11, <3>5
      <4>2. base + t = l
        BY <1>3, <1>4, <1>5
      <4> HIDE DEF t, l
      <4>3. base + cut \in 0..l /\ t - cut \in Nat /\ t - cut <= l
        BY <4>1, <4>2
      <4>4. QED
        BY <4>3 DEF t, l
    <3>12. QED
      BY <3>1, <3>8, <3>9, <3>10, <3>11
  <2>3. QED
    BY <2>1, <2>2
<1>13. TypeOK'
  <2>1. DOMAIN pages' = 1..Len(pages') /\ \A i \in 1..Len(pages') : pages'[i].at \in Nat
    BY <1>12, MarkerAt
  <2>2. \A i \in DOMAIN pages' : pages'[i].at \in 0..Len(buffer')
    BY <1>12, <2>1 DEF Within
  <2>3. \A i, j \in DOMAIN pages' : i < j => pages'[i].at < pages'[j].at
    BY <1>12, <2>1 DEF Ordered
  <2>4. kind' \in Kinds /\ ended' \in BOOLEAN
    BY <1>1, <1>2
  <2>5. QED
    BY <1>12, <2>2, <2>3, <2>4 DEF TypeOK
<1>14. PagesAreRight'
  BY <1>12 DEF PagesAreRight, Right
<1>15. QED
  BY <1>8, <1>12, <1>13, <1>14 DEF PageInv, Within, Agree

\* At the end all chunks of the buffer are emitted, by the same markers.
LEMMA EndPages ==
    ASSUME IndInv, PageInv, EndOfStream
    PROVE  PageInv'
<1> DEFINE chunks == ChunkWith(kind, buffer)
<1>1. /\ ~ended /\ ended' = TRUE /\ UNCHANGED <<kind, buffer, base, pages, full, marks>>
      /\ emitted' = IF IsBlank(buffer) THEN emitted
                    ELSE emitted \o Placed(chunks, base, pages)
  BY DEF EndOfStream
<1>2. kind \in Kinds /\ Progress(kind, full, buffer, base, emitted)
  BY <1>1 DEF IndInv
<1>3. /\ chunks \in Seq(ChunkType(kind))
      /\ \A j \in DOMAIN chunks : chunks[j].start \in Nat
  <2>1. buffer \in Seq(UnitsOf[kind]) /\ Len(buffer) <= MaxText[kind]
    BY <1>2, TailOfText
  <2>2. QED
    BY <1>2, <2>1, ChunksOfBuffer
<1>4. emitted \in Seq(Range(emitted)) /\ base \in Nat
  <2>1. full \in Seq(UnitsOf[kind]) /\ base \in 0..Len(full)
    BY <1>2 DEF Progress
  <2>2. Len(full) \in Nat
    BY <2>1, LenProperties
  <2>3. QED
    BY <1>2, <2>1, <2>2 DEF Progress
<1> HIDE DEF chunks
<1>5. Right(emitted', marks)
  <2>1. Right(emitted, marks) /\ Agree(pages, marks, base)
    BY DEF PageInv, PagesAreRight, Right
  <2>2. Right(emitted \o Placed(chunks, base, pages), marks)
    BY <1>3, <1>4, <2>1, EmittingPages
  <2>3. QED
    BY <1>1, <2>1, <2>2
<1>6. TypeOK' /\ Within(pages, Len(buffer))' /\ Agree(pages, marks, base)'
  BY <1>1 DEF PageInv, TypeOK, Within, Agree
<1>7. QED
  BY <1>1, <1>5, <1>6 DEF PageInv, PagesAreRight, Right

\* Every step of a stream keeps its pages right.
LEMMA NextPages == IndInv /\ PageInv /\ [Next]_vars => PageInv'
<1> SUFFICES ASSUME IndInv, PageInv, [Next]_vars PROVE PageInv'
  OBVIOUS
<1>1. NextPage \in Nat \cup {NoPage}
  <2>1. Len(marks) \in Nat
    BY LenProperties DEF PageInv
  <2>2. QED
    BY <2>1 DEF NextPage
<1>2. ASSUME NEW segment \in SegmentsOf[kind], TakeSegment(segment, NextPage)
      PROVE  PageInv'
  BY <1>1, <1>2, TakeSegmentPages
<1>3. CASE EndOfStream
  BY <1>3, EndPages
<1>4. CASE UNCHANGED vars
  <2>1. UNCHANGED <<kind, buffer, base, pages, emitted, ended, full, marks>>
    BY <1>4 DEF vars
  <2>2. QED
    BY <2>1 DEF PageInv, TypeOK, Within, Agree, PagesAreRight
<1>5. QED
  BY <1>2, <1>3, <1>4 DEF Next

\* Whatever the chunker does within its contract, and wherever the stream is
\* cut, a chunk is the text of the document between its offsets.
THEOREM StreamChunksAreSlices == Spec => []ChunksAreSlices
<1>1. IndInv => ChunksAreSlices
  BY DEF IndInv
<1>2. QED
  BY <1>1, InitIndInv, NextPreserves, PTL DEF Spec

\* Of the text that is cut off the buffer, and in the end of all of it, nothing
\* is lost but the separators that the chunker may drop between two chunks.
THEOREM StreamLosesOnlySeparators == Spec => []OnlySeparatorsAreLost
<1>1. IndInv => OnlySeparatorsAreLost
  BY DEF IndInv
<1>2. QED
  BY <1>1, InitIndInv, NextPreserves, PTL DEF Spec

\* Unless the chunker is one that rewinds, no chunk is emitted again after a cut.
THEOREM StreamAdvances == Spec => []ChunksAdvance
<1>1. IndInv => ChunksAdvance
  BY DEF IndInv
<1>2. QED
  BY <1>1, InitIndInv, NextPreserves, PTL DEF Spec

\* The markers of the buffer stay in order and within it, wherever it is cut.
THEOREM StreamTypeOK == Spec => []TypeOK
<1>1. PageInv => TypeOK
  BY DEF PageInv
<1>2. QED
  BY <1>1, InitIndInv, NextPreserves, InitPageInv, NextPages, PTL DEF Spec

\* Wherever the stream is cut, a chunk has the page on which it begins.
THEOREM StreamPagesAreRight == Spec => []PagesAreRight
<1>1. PageInv => PagesAreRight
  BY DEF PageInv
<1>2. QED
  BY <1>1, InitIndInv, NextPreserves, InitPageInv, NextPages, PTL DEF Spec

-----------------------------------------------------------------------------
\* The sizes of the chunks of a stream.

\* The text is one of its kind, and no chunk is too long that must not be.

SizeInv ==
    /\ full \in Seq(UnitsOf[kind]) /\ Len(full) <= MaxText[kind]
    /\ kind \in Limited => WithinSize(emitted)

\* Emitting moves chunks and leaves their text alone.
LEMMA EmittingWithinSize ==
    ASSUME NEW S, NEW old \in Seq(S), WithinSize(old), NEW C, NEW part \in Seq(C),
           \A j \in 1..Len(part) : Len(part[j].text) <= ChunkSize, NEW offset, NEW marked
    PROVE  WithinSize(old \o Placed(part, offset, marked))
<1> DEFINE new == old \o Placed(part, offset, marked)
<1>1. Len(old) \in Nat /\ Len(part) \in Nat /\ DOMAIN old = 1..Len(old)
  BY LenProperties
<1>2. /\ DOMAIN new = 1..(Len(old) + Len(part))
      /\ \A i \in 1..Len(old) : new[i] = old[i]
      /\ \A i \in 1..Len(part) : new[Len(old) + i].text = part[i].text
  <2>1. /\ new \in Seq(Range(new))
        /\ DOMAIN new = 1..(Len(old) + Len(part))
        /\ \A i \in 1..Len(old) : new[i] = old[i]
        /\ \A i \in 1..Len(part) :
              /\ new[Len(old) + i].start = part[i].start + offset
              /\ new[Len(old) + i].end = part[i].end + offset
              /\ new[Len(old) + i].text = part[i].text
    BY Emitting
  <2> HIDE DEF new
  <2>2. QED
    BY <2>1
<1> HIDE DEF new
<1>3. ASSUME NEW i \in DOMAIN new PROVE Len(new[i].text) <= ChunkSize
  <2>1. CASE i <= Len(old)
    <3>1. i \in DOMAIN old
      BY <1>1, <1>2, <2>1
    <3> QED
      BY <1>1, <1>2, <3>1 DEF WithinSize
  <2>2. CASE ~(i <= Len(old))
    <3> DEFINE j == i - Len(old)
    <3>1. j \in 1..Len(part) /\ Len(old) + j = i
      BY <1>1, <1>2, <2>2
    <3> HIDE DEF j
    <3>2. new[i].text = part[j].text
      BY <1>2, <3>1
    <3> QED
      BY <3>1, <3>2
  <2> QED
    BY <2>1, <2>2
<1> QED
  BY <1>3 DEF WithinSize, new

\* A stream that was not begun has no chunks.
LEMMA InitSizeInv == Init => SizeInv
<1> SUFFICES ASSUME Init PROVE SizeInv
  OBVIOUS
<1>1. kind \in Kinds /\ full = <<>> /\ emitted = <<>>
  BY DEF Init
<1>2. <<>> \in Seq(UnitsOf[kind]) /\ Len(<<>>) = 0 /\ DOMAIN <<>> = {}
  BY EmptySeq
<1>3. MaxText[kind] \in Nat
  BY <1>1, StreamAssumption
<1> QED
  BY <1>1, <1>2, <1>3 DEF SizeInv, WithinSize

\* A segment is taken: what is emitted is chunks of the buffer.
LEMMA TakeSegmentSizes ==
    ASSUME IndInv, SizeInv, NEW segment \in SegmentsOf[kind], NEW page,
           TakeSegment(segment, page)
    PROVE  SizeInv'
<1> DEFINE joined == Separated(kind, buffer)
           text == joined \o segment
           marked == Append(pages, [at |-> Len(joined), page |-> page])
           chunks == ChunkWith(kind, text)
           part == Ready(chunks)
           g == Added(kind, full, segment)
<1>1. /\ ~ended /\ segment # <<>> /\ full' = Separated(kind, full) \o segment
      /\ Len(Separated(kind, full) \o segment) <= MaxText[kind]
      /\ UNCHANGED <<kind, ended>>
      /\ Flush(text, marked)
  BY DEF TakeSegment
<1>2. kind \in Kinds /\ Progress(kind, full, buffer, base, emitted)
  BY <1>1 DEF IndInv
<1>3. /\ g \in Seq(UnitsOf[kind]) /\ g # <<>>
      /\ full' = full \o g /\ text = buffer \o g
  <2>1. segment \in SegmentsOf[kind] /\ segment # <<>>
    BY <1>1
  <2> QED
    BY <1>1, <1>2, <2>1, SegmentAppended
<1> HIDE DEF g
<1>4. Progress(kind, full', text, base, emitted)
  <2>1. full' = full \o g /\ text = buffer \o g /\ Len(full \o g) <= MaxText[kind]
    BY <1>1, <1>3
  <2> QED
    BY <1>2, <1>3, <2>1, KeptPreserves
<1>5. full' \in Seq(UnitsOf[kind]) /\ Len(full') <= MaxText[kind]
  BY <1>4 DEF Progress
<1>6. text \in Seq(UnitsOf[kind]) /\ Len(text) <= MaxText[kind]
  BY <1>2, <1>4, TailOfText
<1> HIDE DEF text, marked
<1>7. ASSUME kind \in Limited PROVE WithinSize(emitted')
  <2>1. WithinSize(emitted) /\ emitted \in Seq(Range(emitted))
    BY <1>2, <1>7 DEF SizeInv, Progress
  <2>2. CASE Len(text) < FlushChars \/ Len(chunks) < 2
    BY <1>1, <2>1, <2>2 DEF Flush
  <2>3. CASE ~(Len(text) < FlushChars \/ Len(chunks) < 2)
    <3>1. emitted' = emitted \o Placed(part, base, marked)
      BY <1>1, <2>3 DEF Flush
    <3>2. chunks \in Seq(ChunkType(kind)) /\ WithinSize(chunks)
      BY <1>2, <1>6, <1>7, ChunksOfBuffer, LimitedWithinSize
    <3>3. /\ part \in Seq(ChunkType(kind)) /\ Len(part) = Len(chunks) - 1
          /\ \A j \in 1..Len(part) : j \in DOMAIN chunks /\ part[j] = chunks[j]
      <4> DEFINE c == chunks
                 T == ChunkType(kind)
      <4>1. c \in Seq(T) /\ Len(c) \in Nat /\ Len(c) >= 2 /\ DOMAIN c = 1..Len(c)
        BY <2>3, <3>2, LenProperties
      <4>2. part = Front(c)
        BY DEF Ready
      <4> HIDE DEF c, T, part
      <4>3. c # <<>>
        BY <4>1, EmptySeq
      <4>4. /\ Front(c) \in Seq(T) /\ Len(Front(c)) = Len(c) - 1
            /\ \A j \in 1..(Len(c) - 1) : Front(c)[j] = c[j]
        BY <4>1, <4>3, FrontIs
      <4>5. \A j \in 1..(Len(c) - 1) : j \in DOMAIN c
        BY <4>1
      <4> QED
        BY <4>2, <4>4, <4>5 DEF c, T
    <3> HIDE DEF part, chunks
    <3>4. \A j \in 1..Len(part) : Len(part[j].text) <= ChunkSize
      BY <3>2, <3>3 DEF WithinSize
    <3> QED
      BY <2>1, <3>1, <3>3, <3>4, EmittingWithinSize
  <2> QED
    BY <2>2, <2>3
<1> QED
  BY <1>1, <1>5, <1>7 DEF SizeInv

\* The stream ends: what is left in the buffer is emitted.
LEMMA EndSizes ==
    ASSUME IndInv, SizeInv, EndOfStream
    PROVE  SizeInv'
<1> DEFINE chunks == ChunkWith(kind, buffer)
<1>1. /\ ~ended /\ UNCHANGED <<kind, full>>
      /\ emitted' = IF IsBlank(buffer) THEN emitted
                    ELSE emitted \o Placed(chunks, base, pages)
  BY DEF EndOfStream
<1>2. kind \in Kinds /\ Progress(kind, full, buffer, base, emitted)
  BY <1>1 DEF IndInv
<1>3. buffer \in Seq(UnitsOf[kind]) /\ Len(buffer) <= MaxText[kind]
  BY <1>2, TailOfText
<1>4. ASSUME kind \in Limited PROVE WithinSize(emitted')
  <2>1. WithinSize(emitted) /\ emitted \in Seq(Range(emitted))
    BY <1>2, <1>4 DEF SizeInv, Progress
  <2>2. chunks \in Seq(ChunkType(kind)) /\ WithinSize(chunks)
    BY <1>2, <1>3, <1>4, ChunksOfBuffer, LimitedWithinSize
  <2> HIDE DEF chunks
  <2>3. \A j \in 1..Len(chunks) : Len(chunks[j].text) <= ChunkSize
    BY <2>2, LenProperties DEF WithinSize
  <2>4. WithinSize(emitted \o Placed(chunks, base, pages))
    BY <2>1, <2>2, <2>3, EmittingWithinSize
  <2> QED
    BY <1>1, <2>1, <2>4
<1> QED
  BY <1>1, <1>4 DEF SizeInv

\* Every step of a stream keeps its chunks within their size.
LEMMA NextSizes == IndInv /\ SizeInv /\ [Next]_vars => SizeInv'
<1> SUFFICES ASSUME IndInv, SizeInv, [Next]_vars PROVE SizeInv'
  OBVIOUS
<1>1. ASSUME NEW segment \in SegmentsOf[kind], TakeSegment(segment, NextPage)
      PROVE  SizeInv'
  BY <1>1, TakeSegmentSizes
<1>2. CASE EndOfStream
  BY <1>2, EndSizes
<1>3. CASE UNCHANGED vars
  BY <1>3 DEF vars, SizeInv, WithinSize
<1> QED
  BY <1>1, <1>2, <1>3 DEF Next

\* chunk_size is the ceiling of every chunk of a stream that the default chunker
\* or that of structured text cuts, wherever the buffer is cut.
THEOREM StreamWithinSize == Spec => []NoOversizedChunk
<1>1. SizeInv => NoOversizedChunk
  BY DEF SizeInv, NoOversizedChunk
<1>2. IndInv /\ SizeInv /\ [Next]_vars => SizeInv'
  BY NextSizes
<1> QED
  BY <1>1, <1>2, InitIndInv, NextPreserves, InitSizeInv, PTL DEF Spec

\* And no document that they are given has a fragment beside a neighbour that has
\* room for it.
THEOREM StreamFolds == Spec => []FragmentsAreFolded
<1>1. SizeInv => FragmentsAreFolded
  BY LimitedFolds DEF SizeInv, FragmentsAreFolded
<1>2. IndInv /\ SizeInv /\ [Next]_vars => SizeInv'
  BY NextSizes
<1> QED
  BY <1>1, <1>2, InitIndInv, NextPreserves, InitSizeInv, PTL DEF Spec

\* Each heading of a structured document is listed by the chunk in which it lies.
THEOREM StreamKeepsHeadings == Spec => []HeadingsAreKept
<1>1. SizeInv => HeadingsAreKept
  <2> SUFFICES ASSUME SizeInv, kind = "structure",
                      NEW c \in Range(ChunkWith(kind, full)), NEW h \in Range(Headings(full)),
                      c.start < h, h <= c.end
               PROVE  (h - 1) \in Range(c.headers)
    BY DEF HeadingsAreKept
  <2>1. ChunkWith(kind, full) = StructureChunk(full)
    BY DEF ChunkWith
  <2>2. full \in Seq(UnitsOf[kind])
    BY DEF SizeInv
  <2> QED
    BY <2>1, <2>2, StructureKeepsHeadings
<1>2. IndInv /\ SizeInv /\ [Next]_vars => SizeInv'
  BY NextSizes
<1> QED
  BY <1>1, <1>2, InitIndInv, NextPreserves, InitSizeInv, PTL DEF Spec

===============================================================================
