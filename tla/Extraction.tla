------------------------------- MODULE Extraction -------------------------------
(***************************************************************************)
(* Extraction.stream (src/rag/services/extract/extraction.py) over         *)
(* S3FileDownloader.download (file_downloader.py): a task that reads the   *)
(* segments of a document in worker threads, each asked for by the         *)
(* consumer, who may stop early, and which may be cancelled at any await.  *)
(* A thread that runs goes on when its task is cancelled.                  *)
(***************************************************************************)
EXTENDS Extractors

CONSTANT Documents   \* the documents by format: format, content and title

Formats == {"html", "docx", "text", "pdf"}

\* The extractors that hold the file open between two segments.
KeepOpen == {"text", "pdf"}

BodyItems == [kind : {"text", "empty", "heading"}, rows : {<<>>}]
             \cup [kind : {"table"}, rows : Seq(Seq(Nat))]

ASSUME DocumentsAssumption ==
    \A format \in Formats : \A d \in Documents[format] :
        /\ d.format = format
        /\ d.content \in IF format = "docx" THEN Seq(BodyItems) ELSE Seq(STRING)
        /\ format = "html" => Nested(d.content)

Jobs == {"download", "checksum", "read", "close"}

VARIABLES
    doc,        \* the document
    task,       \* what the task does: the job it awaits, or
                \* "start" | "yielded" | "ended"
    outcome,    \* how the stream ended: "none" | "done" | "failed"
                \*                       | "stopped" | "cancelled"
    thread,     \* each job in the executor: "idle" | "queued" | "running"
    result,     \* what the awaited job returned: "none" | "ok" | "bad" | "error"
                \*                                | "segment" | "end"
    dir,        \* the temporary directory: "none" | "exists" | "removed" | "left"
    generator,  \* the extractor: "new" | "running" | "suspended" | "finished"
    open,       \* the file is held open by the extractor
    rest,       \* the segments that the extractor has not yielded
    delivered   \* the segments that the consumer was given

vars == <<doc, task, outcome, thread, result, dir, generator, open, rest, delivered>>

-----------------------------------------------------------------------------

Init ==
    /\ \E format \in Formats : doc \in Documents[format]
    /\ task = "start"
    /\ outcome = "none"
    /\ thread = [j \in Jobs |-> "idle"]
    /\ result = "none"
    /\ dir = "none"
    /\ generator = "new"
    /\ open = FALSE
    /\ rest = SegmentsOf(doc)
    /\ delivered = <<>>

\* await asyncio.to_thread(job)
Await(j) ==
    /\ task' = j
    /\ thread' = [thread EXCEPT ![j] = "queued"]
    /\ result' = "none"

\* The factory refuses the extension before anything is downloaded.
Refuse ==
    /\ task = "start"
    /\ task' = "ended"
    /\ outcome' = "failed"
    /\ UNCHANGED <<doc, thread, result, dir, generator, open, rest, delivered>>

Start ==
    /\ task = "start"
    /\ dir' = "exists"
    /\ Await("download")
    /\ UNCHANGED <<doc, outcome, generator, open, rest, delivered>>

\* The context of the download exits: the directory is removed.  A download
\* that still runs may create its file meanwhile, and the removal fails.
LeaveDownload ==
    /\ task' = "ended"
    /\ dir' \in IF thread["download"] = "running" THEN {"removed", "left"} ELSE {"removed"}

-----------------------------------------------------------------------------
(***************************************************************************)
(* The threads.                                                            *)
(***************************************************************************)

\* The result of a job that its task no longer awaits is dropped.
Return(j, value) ==
    /\ thread' = [thread EXCEPT ![j] = "idle"]
    /\ result' = IF task = j THEN value ELSE result

\* Reading begins, or goes on after the segment that was yielded last.
BeginJob(j) ==
    /\ thread[j] = "queued"
    /\ thread' = [thread EXCEPT ![j] = "running"]
    /\ generator' = IF j = "read" THEN "running" ELSE generator
    /\ open' = IF j = "read" /\ generator = "new" THEN doc.format \in KeepOpen ELSE open
    /\ UNCHANGED <<doc, task, outcome, result, dir, rest, delivered>>

\* The download, or the checksum, of the file: right, wrong or an exception.
EndFetch(j) ==
    /\ thread[j] = "running"
    /\ j \in {"download", "checksum"}
    /\ \E value \in {"ok", "error"} \cup (IF j = "checksum" THEN {"bad"} ELSE {}) :
          Return(j, value)
    /\ UNCHANGED <<doc, task, outcome, dir, generator, open, rest, delivered>>

ReadSegment ==
    /\ thread["read"] = "running"
    /\ generator = "running"
    /\ rest # <<>>
    /\ Return("read", "segment")
    /\ generator' = "suspended"
    /\ UNCHANGED <<doc, task, outcome, dir, open, rest, delivered>>

\* Mutant: the extractor leaves its file open.
EndReadingOpen ==
    /\ thread["read"] = "running"
    /\ \/ rest = <<>> /\ Return("read", EndOf(doc, delivered))
       \/ Return("read", "error")
    /\ generator' = "finished"
    /\ UNCHANGED <<doc, task, outcome, dir, open, rest, delivered>>

\* The extractor has no more segments, or raises.
EndReading ==
    /\ thread["read"] = "running"
    /\ \/ rest = <<>> /\ Return("read", EndOf(doc, delivered))
       \/ Return("read", "error")
    /\ generator' = "finished"
    /\ open' = FALSE
    /\ UNCHANGED <<doc, task, outcome, dir, rest, delivered>>

\* A generator that runs in another thread cannot be closed: the ValueError is
\* ignored.
CloseGenerator ==
    /\ thread["close"] = "running"
    /\ Return("close", "ok")
    /\ generator' = IF generator = "running" THEN generator ELSE "finished"
    /\ open' = (open /\ generator = "running")
    /\ UNCHANGED <<doc, task, outcome, dir, rest, delivered>>

\* A generator to which nothing refers any more is collected, and closed.
Collect ==
    /\ task = "ended"
    /\ \A j \in Jobs : thread[j] = "idle"
    /\ generator = "suspended"
    /\ generator' = "finished"
    /\ open' = FALSE
    /\ UNCHANGED <<doc, task, outcome, thread, result, dir, rest, delivered>>

-----------------------------------------------------------------------------
(***************************************************************************)
(* The task and its consumer.                                              *)
(***************************************************************************)

\* Mutant: only a file that was downloaded is removed.
DownloadFailedInPlace ==
    /\ result \in {"error", "bad"}
    /\ task \in {"download", "checksum"}
    /\ outcome' = "failed"
    /\ task' = "ended"
    /\ UNCHANGED <<doc, thread, result, dir, generator, open, rest, delivered>>

\* The context exits with the error of the download.
DownloadFailed ==
    /\ result \in {"error", "bad"}
    /\ task \in {"download", "checksum"}
    /\ outcome' = "failed"
    /\ LeaveDownload
    /\ UNCHANGED <<doc, thread, result, generator, open, rest, delivered>>

Downloaded ==
    /\ result = "ok"
    /\ \/ task = "download" /\ Await("checksum")
       \/ task = "checksum" /\ Await("read")
    /\ UNCHANGED <<doc, outcome, dir, generator, open, rest, delivered>>

YieldSegment ==
    /\ task = "read"
    /\ result = "segment"
    /\ delivered' = Append(delivered, Head(rest))
    /\ rest' = Tail(rest)
    /\ task' = "yielded"
    /\ UNCHANGED <<doc, outcome, thread, result, dir, generator, open>>

\* The loop ends, or the read raises: the generator is closed in any case.
ReadEnds ==
    /\ task = "read"
    /\ result \in {"end", "error"}
    /\ outcome' = IF result = "end" THEN "done" ELSE "failed"
    /\ Await("close")
    /\ UNCHANGED <<doc, dir, generator, open, rest, delivered>>

\* The consumer asks for the next segment.
AskNext ==
    /\ task = "yielded"
    /\ Await("read")
    /\ UNCHANGED <<doc, outcome, dir, generator, open, rest, delivered>>

\* Mutant: the stream ends where it was suspended, and closes nothing.
StopAtOnce ==
    /\ task = "yielded"
    /\ outcome' = "stopped"
    /\ LeaveDownload
    /\ UNCHANGED <<doc, thread, result, generator, open, rest, delivered>>

\* The consumer fails or is cancelled, and closes the stream (aclosing).
StopEarly ==
    /\ task = "yielded"
    /\ outcome' = "stopped"
    /\ Await("close")
    /\ UNCHANGED <<doc, dir, generator, open, rest, delivered>>

Closed ==
    /\ task = "close"
    /\ result = "ok"
    /\ LeaveDownload
    /\ UNCHANGED <<doc, outcome, thread, result, generator, open, rest, delivered>>

-----------------------------------------------------------------------------
(***************************************************************************)
(* Cancellation, at each await.  A job that was queued is cancelled with   *)
(* its task, but the close, which is shielded.                             *)
(***************************************************************************)

Dropped(j) == IF thread[j] = "queued" THEN "idle" ELSE thread[j]

CancelDownload ==
    /\ task \in {"download", "checksum"}
    /\ outcome' = "cancelled"
    /\ thread' = [thread EXCEPT ![task] = Dropped(task)]
    /\ LeaveDownload
    /\ UNCHANGED <<doc, result, generator, open, rest, delivered>>

CancelRead ==
    /\ task = "read"
    /\ outcome' = "cancelled"
    /\ task' = "close"
    /\ thread' = [thread EXCEPT !["read"] = Dropped("read"), !["close"] = "queued"]
    /\ result' = "none"
    /\ UNCHANGED <<doc, dir, generator, open, rest, delivered>>

CancelClose ==
    /\ task = "close"
    /\ outcome' = "cancelled"
    /\ LeaveDownload
    /\ UNCHANGED <<doc, thread, result, generator, open, rest, delivered>>

-----------------------------------------------------------------------------

Task == Refuse \/ Start \/ DownloadFailed \/ Downloaded \/ YieldSegment \/ ReadEnds \/ Closed

Consumer == AskNext \/ StopEarly

Cancel == CancelDownload \/ CancelRead \/ CancelClose

RunRead == ReadSegment \/ EndReading

Executor == (\E j \in Jobs : BeginJob(j) \/ EndFetch(j)) \/ RunRead \/ CloseGenerator

Next == Task \/ Consumer \/ Cancel \/ Executor \/ Collect

\* The event loop resumes a task whose job is done, the pool runs what was
\* submitted and every job ends, the consumer asks again or stops, and what
\* nothing refers to is collected.  Nobody has to cancel.
Fairness ==
    /\ WF_vars(Task) /\ WF_vars(Consumer) /\ WF_vars(Collect)
    /\ \A j \in Jobs : WF_vars(BeginJob(j)) /\ WF_vars(EndFetch(j))
    /\ WF_vars(RunRead) /\ WF_vars(CloseGenerator)

Spec == Init /\ [][Next]_vars /\ Fairness

-----------------------------------------------------------------------------
(***************************************************************************)
(* What a document says, read from the document alone.                     *)
(***************************************************************************)

Items(words) == {<<i>> : i \in {n \in DOMAIN doc.content : doc.content[n] \in words}}

\* The page opens with a heading, which says the same as its title.
TitleIsRepeated ==
    /\ doc.title = "same"
    /\ \E h \in Items({"<h/>"}) :
          \A u \in Items({"text", "<pre/>", "<h/>"}) : h[1] <= u[1]

Units ==
    CASE doc.format = "html" ->
            Items({"text", "<pre/>", "<h/>"})
            \cup (IF doc.title = "none" \/ TitleIsRepeated THEN {} ELSE {<<0>>})
      [] doc.format = "docx" ->
            LET KindOf(i) == doc.content[i].kind
            IN {<<i>> : i \in {n \in DOMAIN doc.content : KindOf(n) \in {"text", "heading"}}}
               \cup UNION {{<<i, c>> : c \in (UNION {ToSet(row) : row \in ToSet(doc.content[i].rows)})
                                             \ {EmptyCell}} : i \in DOMAIN doc.content}
      [] OTHER -> Items({"text"})

\* The first place of a cell in its table: its row, and its column there.
FirstRow(u) == Min({r \in DOMAIN doc.content[u[1]].rows : u[2] \in ToSet(doc.content[u[1]].rows[r])})
FirstColumn(u) ==
    LET row == doc.content[u[1]].rows[FirstRow(u)] IN Min({k \in DOMAIN row : row[k] = u[2]})

Before(u, v) ==
    \/ u[1] < v[1]
    \/ /\ u[1] = v[1] /\ Len(u) = 2
       /\ \/ FirstRow(u) < FirstRow(v)
          \/ FirstRow(u) = FirstRow(v) /\ FirstColumn(u) < FirstColumn(v)

\* Two units stand on one line: no tag that ends a line is between the two, or
\* they are cells of one row.
OnOneLine(u, v) ==
    \/ u = v
    \/ /\ doc.format = "html"
       /\ 0 \notin {u[1], v[1]}
       /\ \A i \in Min({u[1], v[1]})..Max({u[1], v[1]}) :
             doc.content[i] \notin {"<h/>", "<pre/>", "<div>", "</div>"}
    \/ /\ doc.format = "docx" /\ u[1] = v[1]
       /\ FirstRow(u) = FirstRow(v)

Lines == FlattenSeq(delivered)
Said == FlattenSeq([k \in DOMAIN Lines |-> Lines[k].text])

-----------------------------------------------------------------------------
(***************************************************************************)
(* Properties.                                                             *)
(***************************************************************************)

TypeOK ==
    /\ task \in Jobs \cup {"start", "yielded", "ended"}
    /\ outcome \in {"none", "done", "failed", "stopped", "cancelled"}
    /\ thread \in [Jobs -> {"idle", "queued", "running"}]
    /\ dir \in {"none", "exists", "removed", "left"}
    /\ generator \in {"new", "running", "suspended", "finished"}
    /\ open => (doc.format \in KeepOpen /\ generator \in {"running", "suspended"})

\* The consumer is given what the document says, once and in order, as far as
\* it has read, and all of it when the stream ends by itself: nothing is lost
\* where a block, a row or a segment ends, nor repeated by a merged cell.
TextIsDelivered ==
    /\ ToSet(Said) \subseteq Units
    /\ \A j, k \in DOMAIN Said : j < k => Before(Said[j], Said[k])
    /\ \A u \in Units, v \in ToSet(Said) : Before(u, v) => u \in ToSet(Said)
    /\ outcome = "done" => Units = ToSet(Said)

\* Lines are those of the document: two texts that markup or a table keeps
\* apart are not run together, and no line is torn.
LinesAreKept ==
    \A k, l \in DOMAIN Lines :
        \A u \in ToSet(Lines[k].text), v \in ToSet(Lines[l].text) :
            OnOneLine(u, v) <=> k = l

\* "A heading starts a new segment, and a segment closes once it reaches the
\* target size" (extractor.py:35), and for no other reason.
SegmentsAreCut ==
    /\ \A s \in ToSet(delivered) :
          /\ \A k \in 2..Len(s) : ~s[k].heading
          /\ Size(Front(s)) < SegmentTarget
    /\ doc.format # "pdf" =>
          \A k \in 2..Len(delivered) :
             delivered[k][1].heading \/ Size(delivered[k - 1]) >= SegmentTarget

\* A consumer that stops early leaves no open file behind: the extractor is
\* closed before its directory is removed, unless the task was cancelled.
ClosedBeforeRemoved == dir = "removed" /\ open => outcome = "cancelled"

\* Whatever is cancelled and wherever, in the end no file is open, no thread
\* runs and the directory is not there, but where a download that was cancelled
\* still wrote into it.
EverythingIsReleased ==
    <>[](/\ ~open /\ \A j \in Jobs : thread[j] = "idle"
         /\ dir # "exists" /\ task = "ended")

=================================================================================
