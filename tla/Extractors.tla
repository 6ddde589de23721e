------------------------------ MODULE Extractors ------------------------------
(***************************************************************************)
(* What the extractors make of a document                                  *)
(* (src/rag/services/extract/extractors/): the segments of an HTML page, a *)
(* DOCX document, a PDF and a plain text file.                             *)
(*                                                                         *)
(* A unit of text is named by its place in the document: <<i>> is what the *)
(* item i of the document says, <<i, c>> what the cell c of the table i    *)
(* says, and <<0>> the title of a page.  A block is a line of a segment.   *)
(***************************************************************************)
EXTENDS Ordered

CONSTANT SegmentTarget   \* settings.rag.SEGMENT_TARGET_CHARS

ASSUME TargetAssumption == SegmentTarget \in Nat \ {0}

-----------------------------------------------------------------------------
(***************************************************************************)
(* HTML.  A page is the sequence of its tags and texts in document order.  *)
(***************************************************************************)

BlockTags == {"<div>"}               \* _BLOCK_TAGS
OpenTags == BlockTags \cup {"<em>"}
CloseTags == {"</div>", "</em>"}
RemovedTags == {"<nav/>"}            \* _REMOVED_TAGS, with what is inside

\* The elements that are open after each of the tags.
Nesting(tags) ==
    LET open[n \in 0..Len(tags)] ==
            IF n = 0 THEN <<>>
            ELSE CASE tags[n] \in OpenTags -> Append(open[n - 1], tags[n])
                   [] tags[n] \in CloseTags -> Front(open[n - 1])
                   [] OTHER -> open[n - 1]
    IN open

\* The parser has closed what the page left open.
Nested(tags) ==
    /\ Nesting(tags)[Len(tags)] = <<>>
    /\ \A n \in DOMAIN tags :
          LET open == Nesting(tags)[n - 1]
          IN /\ tags[n] = "</div>" => open # <<>> /\ Last(open) = "<div>"
             /\ tags[n] = "</em>" => open # <<>> /\ Last(open) = "<em>"

Block(text, heading) == [text |-> text, heading |-> heading]

\* Yield the text that is pending, if it is not blank, as a block (_clean).
FlushPieces(walk) ==
    IF walk.pieces = <<>> THEN walk
    ELSE [walk EXCEPT !.blocks = Append(@, Block(walk.pieces, FALSE)), !.pieces = <<>>]

\* Mutant: the end of a block does not end its line.
LeaveQuietly(walk) == [walk EXCEPT !.stack = Front(@)]

\* The children of the element on top of the stack are exhausted.
LeaveElement(walk) ==
    LET left == IF Last(walk.stack) THEN FlushPieces(walk) ELSE walk
    IN [left EXCEPT !.stack = Front(@)]

AddPiece(walk, u) == [walk EXCEPT !.pieces = Append(@, u)]
AddBlock(walk, b) == [walk EXCEPT !.blocks = Append(@, b)]
EnterElement(walk, ends) == [walk EXCEPT !.stack = Append(@, ends)]

\* One turn of the loop of _walk.  Blank text and comments add nothing.
VisitNode(walk, tag, i) ==
    CASE tag = "text" -> AddPiece(walk, <<i>>)
      [] tag \in {"<h/>", "<pre/>"} ->
            AddBlock(FlushPieces(walk), Block(<<<<i>>>>, tag = "<h/>"))
      [] tag \in BlockTags -> EnterElement(FlushPieces(walk), TRUE)
      [] tag \in OpenTags \ BlockTags -> EnterElement(walk, FALSE)
      [] tag \in CloseTags -> LeaveElement(walk)
      [] OTHER -> walk

\* The walk after each of the tags.
Walking(tags) ==
    LET after[n \in 0..Len(tags)] ==
            IF n = 0 THEN [pieces |-> <<>>, stack |-> <<FALSE>>, blocks |-> <<>>]
            ELSE VisitNode(after[n - 1], tags[n], n)
    IN after

Walk(tags) == FlushPieces(Walking(tags)[Len(tags)]).blocks

\* Removed tags are walked as the blank text they leave.  `title` says whether
\* the page has a title and whether it repeats the first heading of the page.
HtmlBlocks(tags, title) ==
    LET blocks == Walk([i \in DOMAIN tags |->
                          IF tags[i] \in RemovedTags THEN "space" ELSE tags[i]])
        duplicate == title = "same" /\ blocks # <<>> /\ blocks[1].heading
    IN IF title = "none" \/ duplicate THEN blocks
       ELSE <<Block(<<<<0>>>>, TRUE)>> \o blocks

-----------------------------------------------------------------------------
(***************************************************************************)
(* DOCX.  The items of the body are paragraphs, headings and tables; a     *)
(* table is a sequence of rows of cells, in which a merged cell repeats.   *)
(***************************************************************************)

EmptyCell == 0

\* Mutant: the set of seen cells is that of the row.
SeenInRow(rows, r, k) == {rows[r][j] : j \in 1..(k - 1)}

\* The cells of a table before the place k of the row r.
Seen(rows, r, k) ==
    (UNION {ToSet(rows[q]) : q \in 1..(r - 1)}) \cup {rows[r][j] : j \in 1..(k - 1)}

\* The places of a row whose cell has text and was not seen yet.
Written(rows, r) ==
    {k \in DOMAIN rows[r] : rows[r][k] \notin Seen(rows, r, k) \cup {EmptyCell}}

RowBlock(rows, r, i) ==
    LET places == InOrder(Written(rows, r))
    IN Block([n \in DOMAIN places |-> <<i, rows[r][places[n]]>>], FALSE)

\* _table_rows: a row is a line of its cells that have text.
TableRows(rows, i) ==
    LET lines == InOrder({r \in DOMAIN rows : Written(rows, r) # {}})
    IN [n \in DOMAIN lines |-> RowBlock(rows, lines[n], i)]

ItemBlocks(item, i) ==
    CASE item.kind = "table" -> TableRows(item.rows, i)
      [] item.kind = "empty" -> <<>>
      [] OTHER -> <<Block(<<<<i>>>>, item.kind = "heading")>>

DocxBlocks(items) == FlattenSeq([i \in DOMAIN items |-> ItemBlocks(items[i], i)])

-----------------------------------------------------------------------------
(***************************************************************************)
(* Plain text, PDF and the grouping of blocks.                             *)
(***************************************************************************)

\* Every line is a block, the blank ones too.
TextBlocks(lines) ==
    [i \in DOMAIN lines |-> Block(IF lines[i] = "text" THEN <<<<i>>>> ELSE <<>>, FALSE)]

\* A block counts with its units and the end of its line.
Size(blocks) ==
    LET sum[n \in 0..Len(blocks)] ==
            IF n = 0 THEN 0 ELSE sum[n - 1] + Len(blocks[n].text) + 1
    IN sum[Len(blocks)]

\* A segment of nothing but blank lines is not yielded.
Yielded(segments, buffer) ==
    IF \A k \in DOMAIN buffer : buffer[k].text = <<>> THEN segments
    ELSE Append(segments, buffer)

\* Mutant: only the size of the buffer closes a segment.
CloseBySize(buffer, b) == buffer # <<>> /\ Size(buffer) >= SegmentTarget

\* A heading begins a segment, and a segment of the target size is closed.
ClosesSegment(buffer, b) ==
    buffer # <<>> /\ (b.heading \/ Size(buffer) >= SegmentTarget)

TakeBlock(group, b) ==
    IF ClosesSegment(group.buffer, b)
    THEN [segments |-> Yielded(group.segments, group.buffer), buffer |-> <<b>>]
    ELSE [group EXCEPT !.buffer = Append(@, b)]

\* The segments and the buffer after each of the blocks.
Grouping(blocks) ==
    LET after[n \in 0..Len(blocks)] ==
            IF n = 0 THEN [segments |-> <<>>, buffer |-> <<>>]
            ELSE TakeBlock(after[n - 1], blocks[n])
    IN after

GroupBlocks(blocks) ==
    LET last == Grouping(blocks)[Len(blocks)] IN Yielded(last.segments, last.buffer)

\* A page is a segment.  Pages without text and pages that fail are skipped.
PdfSegments(pages) ==
    LET read == InOrder({i \in DOMAIN pages : pages[i] = "text"})
    IN [n \in DOMAIN read |-> <<Block(<<<<read[n]>>>>, FALSE)>>]

\* The segments that the extractor of the document yields.
SegmentsOf(doc) ==
    CASE doc.format = "html" -> GroupBlocks(HtmlBlocks(doc.content, doc.title))
      [] doc.format = "docx" -> GroupBlocks(DocxBlocks(doc.content))
      [] doc.format = "text" -> GroupBlocks(TextBlocks(doc.content))
      [] doc.format = "pdf"  -> PdfSegments(doc.content)

\* What ends the extraction of a document that could be opened: a PDF in which
\* no page has text is refused, the other extractors just yield nothing.
EndOf(doc, segments) ==
    IF doc.format = "pdf" /\ segments = <<>> THEN "error" ELSE "end"

===============================================================================
