------------------------------ MODULE MCExtraction ------------------------------
(* Extraction over all small documents of each format, for TLC.                  *)
EXTENDS Extraction

CONSTANTS
    MaxTags,    \* bound: the tags and texts of a page
    MaxItems,   \* bound: the items of a DOCX document that is not one table
    MaxRows,    \* bound: the rows of a table
    MaxCells,   \* bound: the cells of a row
    MaxLines    \* bound: the lines of a text, the pages of a PDF

UpTo(S, n) == UNION {[1..m -> S] : m \in 0..n}

Document(format, content, title) == [format |-> format, content |-> content, title |-> title]

Tags == {"text", "space", "<h/>", "<pre/>", "<nav/>"} \cup OpenTags \cup CloseTags

Pages == {Document("html", tags, title) :
            tags \in {t \in UpTo(Tags, MaxTags) : Nested(t)},
            title \in {"none", "other", "same"}}

Rows == UpTo({EmptyCell, 1, 2}, MaxCells)

Table(rows) == [kind |-> "table", rows |-> rows]

\* A document of one table, or of several items, of which some are a table with
\* a cell that spans two rows.
DocxContents ==
    {<<Table(rows)>> : rows \in UpTo(Rows, MaxRows)}
    \cup UpTo({[kind |-> k, rows |-> <<>>] : k \in {"text", "empty", "heading"}}
              \cup {Table(<<<<1, 2>>, <<1, EmptyCell>>>>)}, MaxItems)

SmallDocuments ==
    [f \in Formats |->
        CASE f = "html" -> Pages
          [] f = "docx" -> {Document("docx", items, "none") : items \in DocxContents}
          [] f = "text" -> {Document("text", lines, "none") :
                              lines \in UpTo({"text", "blank"}, MaxLines)}
          [] f = "pdf"  -> {Document("pdf", pages, "none") :
                              pages \in UpTo({"text", "blank", "failed"}, MaxLines)}]
=================================================================================
