-------------------------------- MODULE Chunks --------------------------------
(***************************************************************************)
(* Texts and chunks, and the merging of undersized chunks                  *)
(* (src/rag/services/chunk/utils.py, chunker.py).                          *)
(*                                                                         *)
(* A text is a sequence of units: characters of running text, of which     *)
(* blanks, newlines and the marks that end a sentence are told apart, and  *)
(* whole lines where a chunker knows them by their kind.  Offsets count    *)
(* units from 0 and a span is half open, as slices are in the code.  The   *)
(* length function is len, the default that the factory never overrides.   *)
(***************************************************************************)
EXTENDS Ordered

CONSTANTS
    ChunkSize,      \* ChunkerConfig.chunk_size
    ChunkOverlap,   \* ChunkerConfig.chunk_overlap
    MinChunkSize,   \* ChunkerConfig.min_chunk_size
    NoPage          \* the page of a text that has no pages

\* ChunkerConfig._check_sizes refuses anything else.
ASSUME ConfigAssumption ==
    /\ ChunkSize \in Nat \ {0}
    /\ ChunkOverlap \in 0..(ChunkSize - 1)
    /\ MinChunkSize \in 0..(ChunkSize - 1)

-----------------------------------------------------------------------------

Blanks == {"blank", "break"}

\* The marks that end a sentence.
Marks == {"stop", "bang", "query"}

\* What a separator of the default chunker may hold: blanks, and the mark of a
\* sentence that a blank follows.
InSeparator(text, i) ==
    \/ text[i] \in Blanks
    \/ text[i] \in Marks /\ i < Len(text) /\ text[i + 1] = "blank"

\* text[s:e]
Slice(text, s, e) == SubSeq(text, s + 1, e)

\* not text.strip()
IsBlank(text) == \A i \in DOMAIN text : text[i] \in Blanks

\* The places of a text that have the property, in order.
Where(text, Has(_)) == InOrder({i \in DOMAIN text : Has(i)})

\* A chunk cut from a text.  Its headings are named by their offset.
Chunk(text, s, e, headers) ==
    [text |-> Slice(text, s, e), start |-> s, end |-> e, headers |-> headers]

\* The chunk again, in a text that has `by` more units before it.
Shifted(chunk, by) ==
    [chunk EXCEPT !.start = @ + by, !.end = @ + by,
                  !.headers = [i \in DOMAIN @ |-> @[i] + by]]

-----------------------------------------------------------------------------

\* No ceiling on a merged chunk (chunk_size=None).
NoLimit == 0

IsSmall(c) == Len(c.text) < MinChunkSize

\* Mutant: a merged chunk must stay below the limit.
FitsBelow(c, limit) == limit = NoLimit \/ Len(c.text) < limit

Fits(c, limit) == limit = NoLimit \/ Len(c.text) <= limit

\* A chunk that is too small joins the one before it, unless the result is
\* over the limit.
AddChunk(merged, c, limit, Join(_, _)) ==
    IF merged # <<>> /\ IsSmall(c) /\ Fits(Join(Last(merged), c), limit)
    THEN Append(Front(merged), Join(Last(merged), c))
    ELSE Append(merged, c)

\* Then a small first chunk joins the one after it.
MergeFirst(merged, limit, Join(_, _)) ==
    IF /\ Len(merged) > 1
       /\ IsSmall(merged[1])
       /\ Fits(Join(merged[1], merged[2]), limit)
    THEN <<Join(merged[1], merged[2])>> \o SubSeq(merged, 3, Len(merged))
    ELSE merged

MergeSmall(chunks, limit, Join(_, _)) ==
    LET merging[n \in 0..Len(chunks)] ==
            IF n = 0 THEN <<>> ELSE AddChunk(merging[n - 1], chunks[n], limit, Join)
    IN MergeFirst(merging[Len(chunks)], limit, Join)

\* The merged text is sliced from the document again.
JoinSpans(text, c, d) ==
    Chunk(text, Min({c.start, d.start}), Max({c.end, d.end}), c.headers \o d.headers)

MergeUndersized(chunks, text, limit) ==
    MergeSmall(chunks, limit, LAMBDA c, d : JoinSpans(text, c, d))

-----------------------------------------------------------------------------

\* No chunk is longer than the ceiling.
WithinSize(chunks) == \A k \in DOMAIN chunks : Len(chunks[k].text) <= ChunkSize

\* No small chunk but the first has room to join the one before it, nor has a
\* small first chunk room for the one after it.
Folded(chunks) ==
    \A k \in 2..Len(chunks) :
        LET Room == chunks[k].end - chunks[k - 1].start <= ChunkSize
        IN /\ IsSmall(chunks[k]) => ~Room
           /\ k = 2 /\ IsSmall(chunks[1]) => ~Room

=============================================================================
