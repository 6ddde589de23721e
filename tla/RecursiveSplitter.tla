--------------------------- MODULE RecursiveSplitter ---------------------------
(***************************************************************************)
(* The default chunker, RecursiveCharacterSplittingChunker                 *)
(* (src/rag/services/chunk/recursive_character_splitter.py).  A text is    *)
(* split into leaves that fit in a chunk, leaves are merged into chunks    *)
(* that overlap, and small chunks join a neighbour.                        *)
(***************************************************************************)
EXTENDS Chunks

Width(span) == span[2] - span[1]

\* Mutant: one too many.
FindFirstUnfitEnd(pos, end) == Min({pos + ChunkSize + 1, end})

FindMaxFittingEnd(pos, end) ==
    CHOOSE e \in (pos + 1)..end :
        /\ e = pos + 1 \/ e - pos <= ChunkSize
        /\ \A f \in (e + 1)..end : f - pos > ChunkSize

\* A round of the loop, until the leaves reach the end of the span.
CutLeaf(leaves, span) ==
    LET pos == IF leaves = <<>> THEN span[1] ELSE Last(leaves)[2]
    IN IF pos < span[2] THEN Append(leaves, <<pos, FindMaxFittingEnd(pos, span[2])>>)
       ELSE leaves

\* Each round advances, so that these are enough of them.
HardSplitting(span) ==
    LET after[n \in 0..Width(span)] ==
            IF n = 0 THEN <<>> ELSE CutLeaf(after[n - 1], span)
    IN after

HardSplit(span) == HardSplitting(span)[Width(span)]

\* RecursiveCharChunkerConfig.separators: paragraphs, lines, sentences, words.
\* The last one, "", is SplitAnywhere.
Separators == << <<"break", "break">>, <<"break">>,
                 <<"stop", "blank">>, <<"bang", "blank">>, <<"query", "blank">>,
                 <<"blank">> >>

\* Where the separator begins in a span.
Found(text, span, separator) ==
    Where(text, LAMBDA i : /\ span[1] < i /\ i + Len(separator) - 1 <= span[2]
                           /\ SubSeq(text, i, i + Len(separator) - 1) = separator)

\* A separator that begins inside the one before it is not one.
TakeCut(cuts, at, length) ==
    IF cuts = <<>> \/ Last(cuts) + length <= at THEN Append(cuts, at) ELSE cuts

Cutting(found, length) ==
    LET after[n \in 0..Len(found)] ==
            IF n = 0 THEN <<>> ELSE TakeCut(after[n - 1], found[n], length)
    IN after

Cuts(text, span, separator) ==
    LET found == Found(text, span, separator)
    IN Cutting(found, Len(separator))[Len(found)]

\* str.split: the parts of a span between the separators, which are in none.
Parts(text, span, separator) ==
    LET m == Len(separator)
        cuts == Cuts(text, span, separator)
        n == Len(cuts)
    IN [k \in 1..(n + 1) |-> <<IF k = 1 THEN span[1] ELSE cuts[k - 1] + m - 1,
                               IF k = n + 1 THEN span[2] ELSE cuts[k] - 1>>]

\* Each span that does not fit is split at a separator, or anywhere.
SplitAt(text, spans, separator) ==
    FlattenSeq([i \in DOMAIN spans |->
        IF Width(spans[i]) <= ChunkSize THEN <<spans[i]>>
        ELSE Parts(text, spans[i], separator)])

SplitAnywhere(spans) ==
    FlattenSeq([i \in DOMAIN spans |->
        IF Width(spans[i]) <= ChunkSize THEN <<spans[i]>> ELSE HardSplit(spans[i])])

\* The recursion over the separators, one level of it after the other.
Levels(text) ==
    LET after[n \in 0..Len(Separators)] ==
            IF n = 0 THEN <<<<0, Len(text)>>>>
            ELSE SplitAt(text, after[n - 1], Separators[n])
    IN after

SplitWithOffsets(text) == SplitAnywhere(Levels(text)[Len(Separators)])

-----------------------------------------------------------------------------
\* The window is the leaves from the `first` to the last that was read.

\* The window drops leaves from the front until it is not longer than the
\* limit or has one leaf.
DropUntil(leaves, first, last, limit) ==
    LET Short(i) == leaves[last][2] - leaves[i][1] <= limit
    IN CHOOSE i \in first..last : /\ i = last \/ Short(i)
                                  /\ \A j \in first..(i - 1) : ~Short(j)

\* What stays in the window after its chunk was closed.
TrimForOverlap(leaves, first, last) ==
    IF ChunkOverlap <= 0 THEN last + 1 ELSE DropUntil(leaves, first, last, ChunkOverlap)

\* The tail that is kept makes room for the next leaf, or goes.
MakeRoom(leaves, first, next) == DropUntil(leaves, first, next, ChunkSize)

TakeLeaf(acc, leaves, n) ==
    IF acc.first < n /\ leaves[n][2] - leaves[acc.first][1] > ChunkSize
    THEN [merged |-> Append(acc.merged, <<leaves[acc.first][1], leaves[n - 1][2]>>),
          first  |-> MakeRoom(leaves, TrimForOverlap(leaves, acc.first, n - 1), n)]
    ELSE acc

Merging(leaves) ==
    LET after[n \in 0..Len(leaves)] ==
            IF n = 0 THEN [merged |-> <<>>, first |-> 1]
            ELSE TakeLeaf(after[n - 1], leaves, n)
    IN after

\* A text has a leaf, so that the last window has one.
MergeLeaves(leaves) ==
    LET last == Merging(leaves)[Len(leaves)]
    IN Append(last.merged, <<leaves[last.first][1], Last(leaves)[2]>>)

-----------------------------------------------------------------------------

SpansToChunks(spans, text) ==
    LET nonblank == Where(spans, LAMBDA k : ~IsBlank(Slice(text, spans[k][1], spans[k][2])))
    IN [k \in DOMAIN nonblank |->
          Chunk(text, spans[nonblank[k]][1], spans[nonblank[k]][2], <<>>)]

RecursiveChunk(text) ==
    IF IsBlank(text) THEN <<>>
    ELSE MergeUndersized(SpansToChunks(MergeLeaves(SplitWithOffsets(text)), text),
                         text, ChunkSize)

=============================================================================
