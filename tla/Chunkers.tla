------------------------------- MODULE Chunkers -------------------------------
(***************************************************************************)
(* The four chunkers of src/rag/services/chunk as functions from a text to *)
(* a sequence of chunks.  spaCy's sentences and tree-sitter's tree are     *)
(* external and modelled by what the chunkers see of them.                 *)
(***************************************************************************)
EXTENDS RecursiveSplitter

CONSTANTS
    MaxSentences,   \* max_sentences_per_chunk
    MaxLines        \* code_max_lines_per_chunk

ASSUME ChunkersAssumption ==
    /\ MaxSentences \in Nat \ {0}
    /\ MaxLines \in Nat \ {0}

-----------------------------------------------------------------------------
\* SentenceBasedChunker

\* A blank after a word or a mark belongs to no token and any other unit is
\* one; the first token after a mark that is not a mark begins a sentence.
\* A sentence ends with its last token.
Sentences(text) ==
    LET tokens == Where(text, LAMBDA i : ~(/\ text[i] = "blank"
                                          /\ i > 1
                                          /\ text[i - 1] \notin Blanks))
        firsts == Where(tokens, LAMBDA k : k = 1 \/ (/\ text[tokens[k - 1]] \in Marks
                                                     /\ text[tokens[k]] \notin Marks))
        EndOf(k) == IF k < Len(firsts) THEN tokens[firsts[k + 1] - 1]
                    ELSE Last(tokens)
    IN [k \in DOMAIN firsts |-> <<tokens[firsts[k]] - 1, EndOf(k)>>]

\* A sentence joins the chunk in hand, or closes it and begins the next.
TakeSentence(acc, s, text) ==
    IF /\ acc.count > 0
       /\ s[2] - acc.start > ChunkSize \/ acc.count >= MaxSentences
    THEN [chunks |-> Append(acc.chunks, Chunk(text, acc.start, acc.end, <<>>)),
          start |-> s[1], end |-> s[2], count |-> 1]
    ELSE [chunks |-> acc.chunks,
          start |-> acc.start, end |-> s[2], count |-> acc.count + 1]

\* The first chunk begins at 0 and not with the first sentence.
Building(sentences, text) ==
    LET after[n \in 0..Len(sentences)] ==
            IF n = 0 THEN [chunks |-> <<>>, start |-> 0, end |-> 0, count |-> 0]
            ELSE TakeSentence(after[n - 1], sentences[n], text)
    IN after

BuildChunks(sentences, text) ==
    LET last == Building(sentences, text)[Len(sentences)]
    IN Append(last.chunks, Chunk(text, last.start, last.end, <<>>))

\* The sentences from the k-th on, together.
SizeFrom(sentences, k) ==
    FoldLeft(LAMBDA sum, s : sum + s[2] - s[1], 0, SubSeq(sentences, k, Len(sentences)))

\* Where the overlap begins in the chunk: its last sentence, and as many
\* before it as fit in the overlap together.
OverlapStart(chunk) ==
    LET sentences == Sentences(chunk.text)
        n == Len(sentences)
        Kept(k) == k = n \/ SizeFrom(sentences, k) <= ChunkOverlap
        first == CHOOSE i \in 1..n : Kept(i) /\ \A j \in 1..(i - 1) : ~Kept(j)
    IN chunk.start + sentences[first][1]

\* Every chunk but the first grows backwards over the end of the previous one.
ApplyOverlap(chunks, text) ==
    IF ChunkOverlap <= 0 THEN chunks
    ELSE [i \in DOMAIN chunks |->
            IF i = 1 THEN chunks[1]
            ELSE Chunk(text, Min({OverlapStart(chunks[i - 1]), chunks[i].start}),
                       chunks[i].end, chunks[i].headers)]

SentenceChunk(text) ==
    IF IsBlank(text) THEN <<>>
    ELSE ApplyOverlap(
            MergeUndersized(BuildChunks(Sentences(text), text), text, ChunkSize),
            text)

-----------------------------------------------------------------------------
\* StructureAwareChunker: a unit is a line.

\* The lines that are headings: not those inside a fenced code block.
Headings(text) ==
    LET Open(i) == Cardinality({j \in 1..(i - 1) : text[j] = "fence"}) % 2 = 1
    IN Where(text, LAMBDA i : text[i] = "head" /\ ~Open(i))

\* A section runs from a heading to the next; the text before the first
\* heading is a section too.
ParseSections(text) ==
    LET heads == [k \in DOMAIN Headings(text) |-> Headings(text)[k] - 1]
        preamble == heads = <<>> \/ heads[1] > 0
        from == IF preamble THEN <<0>> \o heads ELSE heads
    IN [k \in DOMAIN from |->
          [start   |-> from[k],
           end     |-> IF k < Len(from) THEN from[k + 1] ELSE Len(text),
           headers |-> IF k = 1 /\ preamble THEN <<>> ELSE <<from[k]>>]]

BuildMergedChunk(sections, text) ==
    IF sections = <<>> THEN <<>>
    ELSE <<Chunk(text, sections[1].start, Last(sections).end,
                 FlattenSeq([i \in DOMAIN sections |-> sections[i].headers]))>>

\* An oversized section goes to the default chunker of the factory.
Fallback(section, text) ==
    LET pieces == RecursiveChunk(Slice(text, section.start, section.end))
    IN [i \in DOMAIN pieces |->
          [Shifted(pieces[i], section.start) EXCEPT !.headers = section.headers]]

\* Mutant: the heading of a small section is forgotten.
MergeForgettingHeaders(chunks, text) ==
    MergeSmall(chunks, ChunkSize,
        LAMBDA c, d : Chunk(text, c.start, d.end, c.headers))

MergeSmallChunks(chunks, text) ==
    MergeSmall(chunks, ChunkSize,
        LAMBDA c, d : Chunk(text, c.start, d.end, c.headers \o d.headers))

\* The pending sections are those from `first` to the last that was read.  A
\* section joins them if there is room, and an oversized one goes alone.
TakeSection(acc, sections, n, text) ==
    LET s == sections[n]
        closed == acc.chunks \o BuildMergedChunk(SubSeq(sections, acc.first, n - 1), text)
    IN IF s.end - s.start > ChunkSize
       THEN [chunks |-> closed \o Fallback(s, text), first |-> n + 1]
       ELSE IF acc.first = n \/ s.end - sections[acc.first].start <= ChunkSize
       THEN acc
       ELSE [chunks |-> closed, first |-> n]

Gathering(sections, text) ==
    LET after[n \in 0..Len(sections)] ==
            IF n = 0 THEN [chunks |-> <<>>, first |-> 1]
            ELSE TakeSection(after[n - 1], sections, n, text)
    IN after

GatherSections(sections, text) ==
    LET last == Gathering(sections, text)[Len(sections)]
    IN last.chunks
         \o BuildMergedChunk(SubSeq(sections, last.first, Len(sections)), text)

StructureChunk(text) ==
    IF IsBlank(text) THEN <<>>
    ELSE MergeSmallChunks(GatherSections(ParseSections(text), text), text)

-----------------------------------------------------------------------------
\* CodeAwareChunker: a unit is a line, and the tree and its spans are in
\* bytes.  A definition runs from a "def" line to its "end" line.

\* The byte at which the unit after the first i ones begins: a wide unit takes
\* two bytes.
ByteAt(text, i) == i + Cardinality({j \in 1..i : text[j] = "wide"})

\* Where the definition that begins at p ends, or 0 if it does not by e.
CloseOf(text, p, e) ==
    LET Count(q, unit) == Cardinality({i \in (p + 1)..q : text[i] = unit})
        closes == {q \in (p + 1)..e : Count(q, "def") = Count(q, "end")}
    IN IF closes = {} THEN 0 ELSE Min(closes)

\* The nearest definitions that are complete between the offsets s and e, in
\* document order: none of them is inside another.
FindSplitNodes(text, s, e) ==
    LET close == [p \in s..(e - 1) |->
                    IF text[p + 1] = "def" THEN CloseOf(text, p, e) ELSE 0]
        Nearest(i) == /\ s < i /\ i <= e
                      /\ close[i - 1] # 0
                      /\ \A p \in s..(i - 2) : close[p] < i
        first == Where(text, Nearest)
    IN [k \in DOMAIN first |-> <<first[k] - 1, close[first[k] - 1]>>]

\* More than half of the nodes at the top are errors: a line that opens or
\* closes a definition and has no counterpart is one.
IsTreeUnusable(text) ==
    LET nodes == Range(FindSplitNodes(text, 0, Len(text)))
        loose == {i \in DOMAIN text : /\ text[i] \notin Blanks
                                      /\ ~\E d \in nodes : d[1] < i /\ i <= d[2]}
        errors == {i \in loose : text[i] \in {"def", "end"}}
    IN Cardinality(errors) * 2 > Cardinality(loose) + Cardinality(nodes)

\* The span from s to e, cut into the definitions it was found to have and what
\* is between them.
Divided(s, e, matches) ==
    LET n == Len(matches)
        From(k) == IF k = 1 THEN s ELSE matches[k - 1][2]
        To(k) == IF k = n + 1 THEN e ELSE matches[k][1]
    IN FlattenSeq([k \in 1..(n + 1) |->
          (IF From(k) < To(k) THEN <<<<From(k), To(k)>>>> ELSE <<>>)
            \o (IF k <= n THEN <<matches[k]>> ELSE <<>>)])

\* One level of the recursion: a definition that has too many lines is cut if
\* there is one in it.  What is between definitions holds none and stays.
SplitLevel(text, spans) ==
    FlattenSeq([i \in DOMAIN spans |->
        LET s == spans[i][1]
            e == spans[i][2]
            nested == FindSplitNodes(text, s + 1, e)
        IN IF e - s <= MaxLines \/ nested = <<>> THEN <<spans[i]>>
           ELSE Divided(s, e, nested)])

\* Definitions are not nested deeper than the text is long.
Splitting(text) ==
    LET after[n \in 0..Len(text)] ==
            IF n = 0 THEN Divided(0, Len(text), FindSplitNodes(text, 0, Len(text)))
            ELSE SplitLevel(text, after[n - 1])
    IN after

SplitNodeChildren(text) == Splitting(text)[Len(text)]

\* Byte spans to chunks.  The offset in units advances by the units between
\* the last span and this one, and is never counted from the start again.
UnitsTo(text, b) == Cardinality({i \in DOMAIN text : ByteAt(text, i) <= b})

Decode(text, b, c) == SubSeq(text, UnitsTo(text, b) + 1, UnitsTo(text, c))

TakeSpan(acc, span, text) ==
    LET start == acc.offset + Len(Decode(text, acc.byte, span[1]))
        piece == Decode(text, span[1], span[2])
        end == start + Len(piece)
        chunk == [text |-> piece, start |-> start, end |-> end, headers |-> <<>>]
    IN [offset |-> end,
        byte   |-> span[2],
        chunks |-> IF IsBlank(piece) THEN acc.chunks ELSE Append(acc.chunks, chunk)]

Decoding(spans, text) ==
    LET after[n \in 0..Len(spans)] ==
            IF n = 0 THEN [offset |-> 0, byte |-> 0, chunks |-> <<>>]
            ELSE TakeSpan(after[n - 1], spans[n], text)
    IN after

CodeSpansToChunks(spans, text) == Decoding(spans, text)[Len(spans)].chunks

\* The factory gives this chunker no minimum size, so its own merging of
\* undersized chunks changes nothing.
CodeChunk(text) ==
    LET spans == SplitNodeChildren(text)
        bytes == [i \in DOMAIN spans |->
                    <<ByteAt(text, spans[i][1]), ByteAt(text, spans[i][2])>>]
    IN IF IsBlank(text) THEN <<>>
       ELSE IF IsTreeUnusable(text) THEN RecursiveChunk(text)
       ELSE CodeSpansToChunks(bytes, text)

-----------------------------------------------------------------------------
\* ChunkerFactory.get_chunker

ChunkWith(kind, text) ==
    CASE kind = "default"   -> RecursiveChunk(text)
      [] kind = "sentence"  -> SentenceChunk(text)
      [] kind = "structure" -> StructureChunk(text)
      [] kind = "code"      -> CodeChunk(text)

=============================================================================
