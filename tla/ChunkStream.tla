------------------------------ MODULE ChunkStream ------------------------------
(***************************************************************************)
(* Chunker.chunk_stream (src/rag/services/chunk/chunker.py): segments of a *)
(* document are appended to a buffer, and each time the buffer is long     *)
(* enough all of its chunks but the last are emitted and the buffer is cut *)
(* where the last one begins.                                              *)
(***************************************************************************)
EXTENDS Chunkers

CONSTANTS
    Kinds,            \* the chunkers of the factory
    Paged,            \* the kinds whose segments are pages
    UnitsOf,          \* the units of the texts that a kind is given
    SegmentsOf,       \* bound: the texts of their segments
    SeparatorOf,      \* Segment.separator
    FlushChars,       \* settings.rag.STREAM_FLUSH_CHARS
    MaxText           \* bound: the length of a document, by kind

VARIABLES
    kind,     \* the chunker of this document
    buffer,   \* the text that has not been emitted
    base,     \* the offset of the buffer in the full text
    pages,    \* the (offset in the buffer, page) pairs of its segments
    emitted,  \* the chunks that were yielded; the index of one is its place
    ended,    \* the stream of segments has ended
    full,     \* history: the segments so far, joined by their separators
    marks     \* history: the (offset in the full text, page) of each segment

vars == <<kind, buffer, base, pages, emitted, ended, full, marks>>

-----------------------------------------------------------------------------

\* The kind whose chunk may begin where the one before did: its chunks grow
\* backwards, over the sentences of the one before.
Rewinding == {"sentence"}

\* The kinds for which chunk_size is a ceiling.
Limited == {"default", "structure"}

\* What the stream needs of a chunker: its chunks are slices of the text that
\* are not empty, every unit of the text that it may not drop is in one of them,
\* and, unless it is one that rewinds, each begins after the one before it.
Covered(chunks, i) == \E k \in DOMAIN chunks : chunks[k].start < i /\ i <= chunks[k].end

SlicesOf(chunks, text) ==
    \A k \in DOMAIN chunks :
        /\ chunks[k].start \in 0..(Len(text) - 1)
        /\ chunks[k].end \in (chunks[k].start + 1)..Len(text)
        /\ chunks[k].text = Slice(text, chunks[k].start, chunks[k].end)

\* The default chunker drops the separators at which a chunk ends, and so do the
\* two that fall back to it; the chunker of sentences drops blanks alone.
MayDrop(k, text, i) ==
    IF k = "sentence" THEN text[i] \in Blanks ELSE InSeparator(text, i)

Advance(chunks) == \A j, k \in DOMAIN chunks : j < k => chunks[j].start < chunks[k].start

ChunkType(k) == [text : Seq(UnitsOf[k]), start : Nat, end : Nat, headers : Seq(Nat)]

\* What a chunker of the kind k may return for the text.
Meets(k, chunks, text) ==
    /\ chunks \in Seq(ChunkType(k))
    /\ SlicesOf(chunks, text)
    /\ \A i \in DOMAIN text : MayDrop(k, text, i) \/ Covered(chunks, i)
    /\ k \in Rewinding \/ Advance(chunks)

\* Segments and separators are made of the units of their kind.
ASSUME StreamAssumption ==
    /\ FlushChars \in Nat
    /\ Kinds \subseteq {"default", "sentence", "structure", "code"}
    /\ \A k \in Kinds : /\ MaxText[k] \in Nat
                        /\ SegmentsOf[k] \subseteq Seq(UnitsOf[k])
                        /\ SeparatorOf[k] \in Seq(UnitsOf[k])

-----------------------------------------------------------------------------

\* The last segment that begins at the offset or before it; 0 if none does.
LastBegun(marked, offset) == Max({0} \cup {i \in DOMAIN marked : marked[i].at <= offset})

PageAt(marked, offset) ==
    LET n == LastBegun(marked, offset) IN IF n = 0 THEN NoPage ELSE marked[n].page

\* The markers that lie behind `cut`, moved by `by`: as markers are in order,
\* those are the ones after the last that does not.
MarkersAfter(marked, cut, by) ==
    LET n == LastBegun(marked, cut)
    IN [i \in 1..(Len(marked) - n) |->
           [at |-> marked[n + i].at - by, page |-> marked[n + i].page]]

\* Mutant: the page on which the new buffer begins is forgotten.
ShiftLaterPages(marked, cut) == MarkersAfter(marked, cut, cut)

\* Mutant: markers keep the offset they had in the old buffer.
KeepPages(marked, cut) ==
    <<[at |-> 0, page |-> PageAt(marked, cut)]>> \o MarkersAfter(marked, cut, 0)

\* The page markers of a buffer that begins at `cut` from now on.
ShiftPages(marked, cut) ==
    <<[at |-> 0, page |-> PageAt(marked, cut)]>> \o MarkersAfter(marked, cut, cut)

\* Mutant: offsets are those in the buffer.
PlaceInBuffer(chunk, offset, marked) ==
    [text |-> chunk.text, start |-> chunk.start, end |-> chunk.end,
     headers |-> chunk.headers, page |-> PageAt(marked, chunk.start)]

\* A chunk of the buffer as a chunk of the stream.
Place(chunk, offset, marked) ==
    [text |-> chunk.text, start |-> chunk.start + offset, end |-> chunk.end + offset,
     headers |-> Shifted(chunk, offset).headers, page |-> PageAt(marked, chunk.start)]

Placed(chunks, offset, marked) ==
    [i \in DOMAIN chunks |-> Place(chunks[i], offset, marked)]

-----------------------------------------------------------------------------

Init ==
    /\ kind \in Kinds
    /\ buffer = <<>>
    /\ base = 0
    /\ pages = <<>>
    /\ emitted = <<>>
    /\ ended = FALSE
    /\ full = <<>>
    /\ marks = <<>>

\* Mutant: the last chunk is emitted as well, and stays.
ReadyWithLast(chunks) == chunks

\* The last chunk is not ready: more text may still extend it.
Ready(chunks) == Front(chunks)

\* Mutant: the last chunk is cut off with the others.
CutAfterLast(chunks) == Last(chunks).end

CutAt(chunks) == Last(chunks).start

\* Emit all chunks of the text but the last, and keep the text from its start.
Flush(text, marked) ==
    LET chunks == ChunkWith(kind, text)
        cut == CutAt(chunks)
    IN IF Len(text) < FlushChars \/ Len(chunks) < 2
       THEN /\ buffer' = text
            /\ pages' = marked
            /\ UNCHANGED <<base, emitted>>
       ELSE /\ emitted' = emitted \o Placed(Ready(chunks), base, marked)
            /\ pages' = ShiftPages(marked, cut)
            /\ base' = base + cut
            /\ buffer' = Slice(text, cut, Len(text))

\* The text to which the next segment is appended.
Separated(k, text) == IF text = <<>> THEN <<>> ELSE text \o SeparatorOf[k]

\* One turn of the loop over the segments.  An empty segment is skipped.
TakeSegment(segment, page) ==
    LET joined == Separated(kind, buffer)
        before == Separated(kind, full)
    IN /\ ~ended
       /\ segment # <<>>
       /\ Len(before \o segment) <= MaxText[kind]
       /\ full' = before \o segment
       /\ marks' = Append(marks, [at |-> Len(before), page |-> page])
       /\ Flush(joined \o segment,
                Append(pages, [at |-> Len(joined), page |-> page]))
       /\ UNCHANGED <<kind, ended>>

\* The stream ends: what is in the buffer is emitted.
EndOfStream ==
    /\ ~ended
    /\ ended' = TRUE
    /\ emitted' = IF IsBlank(buffer) THEN emitted
                  ELSE emitted \o Placed(ChunkWith(kind, buffer), base, pages)
    /\ UNCHANGED <<kind, buffer, base, pages, full, marks>>

-----------------------------------------------------------------------------

NextPage == IF kind \in Paged THEN Len(marks) + 1 ELSE NoPage

Next == (\E segment \in SegmentsOf[kind] : TakeSegment(segment, NextPage)) \/ EndOfStream

Spec == Init /\ [][Next]_vars

-----------------------------------------------------------------------------
(***************************************************************************)
(* Properties.                                                             *)
(***************************************************************************)
TypeOK ==
    /\ kind \in Kinds
    /\ base \in 0..Len(full)
    /\ Len(buffer) <= Len(full)
    /\ \A i \in DOMAIN pages : pages[i].at \in 0..Len(buffer)
    /\ \A i, j \in DOMAIN pages : i < j => pages[i].at < pages[j].at
    /\ ended \in BOOLEAN

\* "Offsets refer to the full extracted text, which is the segments joined by
\* their separators" (chunker.py:45): a chunk of the stream is the text between
\* its offsets, whatever was cut off the buffer before it.
ChunksAreSlices == SlicesOf(emitted, full)

\* No text is lost where the stream is cut: what was cut off the buffer is in a
\* chunk that was emitted, and in the end everything is, but for the separators
\* that the chunker drops between two chunks: blanks and, unless it is the
\* chunker of sentences, the mark of a sentence that a blank follows.
OnlySeparatorsAreLost ==
    \A i \in DOMAIN full :
        (ended \/ i <= base) => (MayDrop(kind, full, i) \/ Covered(emitted, i))

\* The page of a chunk is the page on which it begins, though the markers of
\* pages are moved at each cut and the page at the cut began before it.
PagesAreRight ==
    \A k \in DOMAIN emitted : emitted[k].page = PageAt(marks, emitted[k].start)

\* No chunk is emitted twice, within a flush or across a cut: each begins after
\* the one before it.
ChunksAdvance == kind \in Rewinding \/ Advance(emitted)

\* The splitter's window and its overlap leave room for the next piece, and a
\* merge stops at the ceiling: "a hard ceiling on the final chunk", which only
\* the chunkers of sentences and of code do without (sentence_based.py:25-32,
\* utils.py:32-34).
NoOversizedChunk == kind \in Limited => WithinSize(emitted)

\* A fragment stands alone only where no neighbour has room for it: when a
\* document is chunked in one piece, no small chunk could have joined the one
\* before it, nor a small first chunk the one after it.
FragmentsAreFolded == kind \in Limited => Folded(ChunkWith(kind, full))

\* Merging sections keeps their headings: a heading that lies in a chunk
\* is listed in the metadata of the chunk.
HeadingsAreKept ==
    kind = "structure" =>
        \A c \in Range(ChunkWith(kind, full)), h \in Range(Headings(full)) :
            c.start < h /\ h <= c.end => (h - 1) \in Range(c.headers)

=============================================================================
