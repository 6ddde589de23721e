---------------------------- MODULE ExtractionProofs ----------------------------
(***************************************************************************)
(* For documents of any size: an extraction keeps its type; no file is     *)
(* open when its directory is removed unless the task was cancelled; the   *)
(* segments that are delivered are cut where the extractors say; and they  *)
(* say what the document says, in its order and on its lines.              *)
(*                                                                         *)
(* What the extractors compute is shown by induction over the steps of     *)
(* their loops: a loop is a function of the number of its turns, and the   *)
(* numbers of which a fact holds form a set that holds 0 and the successor *)
(* of each of its members.                                                 *)
(***************************************************************************)
EXTENDS Extraction, SequenceLemmas

-----------------------------------------------------------------------------
(***************************************************************************)
(* The run of an extraction.                                               *)
(***************************************************************************)

\* The extractor runs exactly while a thread reads, and a thread that reads
\* belongs to the task that waits for it or to one that was cancelled.
ReadersAreAwaited ==
    /\ generator = "running" <=> thread["read"] = "running"
    /\ thread["read"] = "queued" => task = "read"
    /\ thread["read"] = "running" => task = "read" \/ outcome = "cancelled"

\* The job whose result the task has is over, and the close comes last.
JobsReturnOnce ==
    /\ task \in Jobs /\ result # "none" => thread[task] = "idle"
    /\ thread["close"] # "idle" => task \in {"close", "ended"}

\* Nothing is read before the file is there.
NotYetRead ==
    task \in {"start", "download", "checksum"} =>
        generator = "new" /\ ~open /\ thread["read"] = "idle"

\* The outcome is known when the extractor is to be closed, not before, and
\* once it is closed it is closed, unless the task was cancelled.
ClosedIsClosed ==
    /\ task \in {"start", "download", "checksum", "read", "yielded"} => outcome = "none"
    /\ task = "close" /\ result = "ok" => ~open \/ outcome = "cancelled"
    /\ task = "ended" => ~open \/ outcome = "cancelled"

RemovedAtTheEnd == dir = "removed" => task = "ended"

IInv ==
    /\ TypeOK /\ ReadersAreAwaited /\ JobsReturnOnce
    /\ NotYetRead /\ ClosedIsClosed /\ RemovedAtTheEnd

-----------------------------------------------------------------------------

\* An extraction begins with the invariant.
LEMMA InitIInv == Init => IInv
BY DEF Init, IInv, TypeOK, ReadersAreAwaited, JobsReturnOnce, NotYetRead,
        ClosedIsClosed, RemovedAtTheEnd, Jobs

\* The steps of the task and its consumer.
LEMMA TaskPreserves == ASSUME IInv, Task \/ Consumer PROVE IInv'
<1> USE DEF IInv, TypeOK, ReadersAreAwaited, JobsReturnOnce, NotYetRead,
        ClosedIsClosed, RemovedAtTheEnd, Jobs
<1>1. CASE Refuse
  BY <1>1 DEF Refuse
<1>2. CASE Start
  BY <1>2 DEF Start, Await
<1>3. CASE DownloadFailed
  BY <1>3 DEF DownloadFailed, LeaveDownload
<1>4. CASE Downloaded
  BY <1>4 DEF Downloaded, Await
<1>5. CASE YieldSegment
  BY <1>5 DEF YieldSegment
<1>6. CASE ReadEnds
  BY <1>6 DEF ReadEnds, Await
<1>7. CASE Closed
  BY <1>7 DEF Closed, LeaveDownload
<1>8. CASE AskNext
  BY <1>8 DEF AskNext, Await
<1>9. CASE StopEarly
  BY <1>9 DEF StopEarly, Await
<1> QED
  BY <1>1, <1>2, <1>3, <1>4, <1>5, <1>6, <1>7, <1>8, <1>9 DEF Task, Consumer

\* A cancellation keeps it.
LEMMA CancelPreserves == ASSUME IInv, Cancel PROVE IInv'
<1> USE DEF IInv, TypeOK, ReadersAreAwaited, JobsReturnOnce, NotYetRead,
        ClosedIsClosed, RemovedAtTheEnd, Jobs
<1>1. CASE CancelDownload
  BY <1>1 DEF CancelDownload, LeaveDownload, Dropped
<1>2. CASE CancelRead
  BY <1>2 DEF CancelRead, Dropped
<1>3. CASE CancelClose
  BY <1>3 DEF CancelClose, LeaveDownload
<1> QED
  BY <1>1, <1>2, <1>3 DEF Cancel

\* The steps of the threads, and of the collector.
LEMMA ThreadPreserves == ASSUME IInv, Executor \/ Collect PROVE IInv'
<1> USE DEF IInv, TypeOK, ReadersAreAwaited, JobsReturnOnce, NotYetRead,
        ClosedIsClosed, RemovedAtTheEnd, Jobs
<1>1. ASSUME NEW j \in Jobs, BeginJob(j)
      PROVE  IInv'
  <2>1. CASE j = "read"
    BY <1>1, <2>1 DEF BeginJob
  <2>2. CASE j # "read"
    <3>1. generator' = generator /\ open' = open
      BY <1>1, <2>2 DEF BeginJob
    <3>2. thread'["read"] = thread["read"]
      BY <1>1, <2>2 DEF BeginJob
    <3>3. JobsReturnOnce'
      BY <1>1 DEF BeginJob
    <3> QED
      BY <1>1, <3>1, <3>2, <3>3 DEF BeginJob
  <2> QED
    BY <2>1, <2>2
<1>2. ASSUME NEW j \in Jobs, EndFetch(j)
      PROVE  IInv'
  BY <1>2 DEF EndFetch, Return
<1>3. CASE ReadSegment
  BY <1>3 DEF ReadSegment, Return
<1>4. CASE EndReading
  BY <1>4 DEF EndReading, Return
<1>5. CASE CloseGenerator
  BY <1>5 DEF CloseGenerator, Return
<1>6. CASE Collect
  BY <1>6 DEF Collect
<1> QED
  BY <1>1, <1>2, <1>3, <1>4, <1>5, <1>6 DEF Executor, RunRead

-----------------------------------------------------------------------------

\* What every step of an extraction keeps.
THEOREM Invariance == Spec => []IInv
<1>1. IInv /\ UNCHANGED vars => IInv'
  BY DEF vars, IInv, TypeOK, ReadersAreAwaited, JobsReturnOnce, NotYetRead,
        ClosedIsClosed, RemovedAtTheEnd
<1>2. IInv /\ [Next]_vars => IInv'
  BY <1>1, TaskPreserves, CancelPreserves, ThreadPreserves DEF Next
<1> QED
  BY InitIInv, <1>2, PTL DEF Spec

\* The type of an extraction; a file is held open only by an extractor that has
\* begun and has not ended.
THEOREM TypeCorrect == Spec => []TypeOK
<1>1. IInv => TypeOK
  BY DEF IInv
<1> QED
  BY <1>1, Invariance, PTL

\* The extractor is closed before its directory is removed, on every way out of
\* the stream but a cancellation.
THEOREM FilesCloseFirst == Spec => []ClosedBeforeRemoved
<1>1. IInv => ClosedBeforeRemoved
  BY DEF IInv, ClosedIsClosed, RemovedAtTheEnd, ClosedBeforeRemoved
<1> QED
  BY <1>1, Invariance, PTL

-----------------------------------------------------------------------------
(***************************************************************************)
(* Loops, sizes and the grouping of blocks.                                *)
(***************************************************************************)

\* The texts of a line are named by sequences of numbers; a heading has a text.
Texts == Seq(Seq(Nat))

Blocks == {b \in [text : Texts, heading : BOOLEAN] : b.heading => b.text # <<>>}

\* A size is a natural number, and that of nothing is 0.
LEMMA SizeIsNatural ==
    /\ \A blocks \in Seq(Blocks) : Size(blocks) \in Nat
    /\ Size(<<>>) = 0
<1>1. ASSUME NEW B \in Seq(Blocks) PROVE Size(B) \in Nat /\ (B = <<>> => Size(B) = 0)
  <2> DEFINE N == Len(B)
             size(n) == Len(B[n].text) + 1
             Body(g) == [n \in 0..N |-> IF n = 0 THEN 0 ELSE g[n - 1] + Len(B[n].text) + 1]
             step == [a \in (1..N) \X Nat |-> a[2] + Len(B[a[1]].text) + 1]
  <2>1. N \in Nat /\ \A n \in 1..N : Len(B[n].text) \in Nat
    <3>1. \A b \in Blocks : Len(b.text) \in Nat
      BY DEF Blocks, Texts
    <3>2. N \in Nat /\ \A n \in 1..N : B[n] \in Blocks
      BY ElementOfSeq
    <3> QED
      BY <3>1, <3>2
  <2>2. step \in [(1..N) \X Nat -> Nat]
    <3>1. ASSUME NEW a \in (1..N) \X Nat PROVE a[2] + Len(B[a[1]].text) + 1 \in Nat
      <4>1. a[1] \in 1..N /\ a[2] \in Nat
        OBVIOUS
      <4> QED
        BY <2>1, <4>1
    <3> QED
      BY <3>1
  <2>3. \A n \in 1..N, x \in Nat : step[<<n, x>>] = x + Len(B[n].text) + 1
    OBVIOUS
  <2>4. PICK g : Computation(g, Nat, 0, step, N)
    <3> HIDE DEF step, N
    <3> QED
      BY <2>1, <2>2, RecursionExists
  <2> HIDE DEF step, N
  <2>5. g = Body(g)
    <3>1. \A n \in 0..N : n = 0 \/ n \in 1..N
      BY <2>1
    <3>2. \A n \in 1..N : n - 1 \in 0..N /\ g[n - 1] \in Nat
      BY <2>1, <2>4 DEF Computation
    <3>3. \A n \in 0..N : g[n] = Body(g)[n]
      BY <2>3, <2>4, <3>1, <3>2 DEF Computation
    <3> QED
      BY <2>4, <3>3 DEF Computation
  <2> DEFINE f == CHOOSE h : h = Body(h)
  <2>6. f = Body(f)
    <3> HIDE DEF Body
    <3> QED
      BY <2>5
  <2>7. Size(B) = f[N]
    BY DEF Size, N
  <2> HIDE DEF f
  <2>8. Computation(f, Nat, 0, step, N)
    <3>1. f[0] = 0 /\ \A n \in 1..N : f[n] = f[n - 1] + Len(B[n].text) + 1
      <4>1. 0 \in 0..N /\ \A n \in 1..N : n \in 0..N /\ n # 0
        BY <2>1
      <4> DEFINE b == Body(f)
      <4>2. b[0] = 0 /\ \A n \in 1..N : b[n] = f[n - 1] + Len(B[n].text) + 1
        BY <4>1
      <4> HIDE DEF b
      <4>3. f = b
        BY <2>6 DEF b
      <4> QED
        BY <4>2, <4>3
    <3>2. f = [n \in 0..N |-> f[n]]
      <4>1. f = [n \in 0..N |-> Body(f)[n]]
        BY <2>6
      <4> HIDE DEF Body
      <4> QED
        BY <2>6, <4>1
    <3>3. \A n \in 1..N : f[n - 1] \in Nat => f[n] = step[<<n, f[n - 1]>>]
      BY <2>3, <3>1
    <3> QED
      BY <2>1, <2>2, <3>1, <3>2, <3>3, ComputationTyped
  <2>9. f[N] \in Nat /\ f[0] = 0
    BY <2>1, <2>8 DEF Computation
  <2> QED
    BY <2>7, <2>9 DEF N
<1>2. <<>> \in Seq(Blocks)
  OBVIOUS
<1> QED
  BY <1>1, <1>2

-----------------------------------------------------------------------------

Groups == [segments : Seq(Seq(Blocks)), buffer : Seq(Blocks)]

\* A block is taken, as a type.
LEMMA TakeBlockType ==
    ASSUME NEW group \in Groups, NEW b \in Blocks
    PROVE  TakeBlock(group, b) \in Groups
<1>1. group.segments \in Seq(Seq(Blocks)) /\ group.buffer \in Seq(Blocks)
      /\ group = [segments |-> group.segments, buffer |-> group.buffer]
  BY DEF Groups
<1>2. Yielded(group.segments, group.buffer) \in Seq(Seq(Blocks))
  BY <1>1 DEF Yielded
<1>3. <<b>> \in Seq(Blocks) /\ Append(group.buffer, b) \in Seq(Blocks)
  BY <1>1
<1>4. CASE ClosesSegment(group.buffer, b)
  BY <1>2, <1>3, <1>4 DEF TakeBlock, Groups
<1>5. CASE ~ClosesSegment(group.buffer, b)
  <2>1. TakeBlock(group, b) = [segments |-> group.segments, buffer |-> Append(group.buffer, b)]
    BY <1>1, <1>5 DEF TakeBlock
  <2> QED
    BY <1>1, <1>3, <2>1 DEF Groups
<1> QED
  BY <1>4, <1>5

\* Grouping takes block after block.
LEMMA GroupingSteps ==
    ASSUME NEW B \in Seq(Blocks)
    PROVE  /\ Grouping(B) \in [0..Len(B) -> Groups]
           /\ Grouping(B)[0] = [segments |-> <<>>, buffer |-> <<>>]
           /\ \A n \in 1..Len(B) : Grouping(B)[n] = TakeBlock(Grouping(B)[n - 1], B[n])
<1> DEFINE N == Len(B)
           base == [segments |-> <<>>, buffer |-> <<>>]
           Body(g) == [n \in 0..N |-> IF n = 0 THEN [segments |-> <<>>, buffer |-> <<>>]
                                      ELSE TakeBlock(g[n - 1], B[n])]
           step == [a \in (1..N) \X Groups |-> TakeBlock(a[2], B[a[1]])]
<1>1. N \in Nat /\ \A n \in 1..N : B[n] \in Blocks
  BY ElementOfSeq
<1>2. base \in Groups
  BY DEF Groups
<1>3. step \in [(1..N) \X Groups -> Groups]
  <2>1. ASSUME NEW a \in (1..N) \X Groups PROVE TakeBlock(a[2], B[a[1]]) \in Groups
    <3>1. a[1] \in 1..N /\ a[2] \in Groups
      OBVIOUS
    <3> QED
      BY <1>1, <3>1, TakeBlockType
  <2> QED
    BY <2>1
<1>4. \A n \in 1..N, x \in Groups : step[<<n, x>>] = TakeBlock(x, B[n])
  OBVIOUS
<1>5. PICK g : Computation(g, Groups, base, step, N)
  <2> HIDE DEF step, N, base
  <2> QED
    BY <1>1, <1>2, <1>3, RecursionExists
<1> HIDE DEF step, N
<1>6. g = Body(g)
  <2>1. \A n \in 0..N : n = 0 \/ n \in 1..N
    BY <1>1
  <2>2. \A n \in 1..N : n - 1 \in 0..N /\ g[n - 1] \in Groups
    BY <1>1, <1>5 DEF Computation
  <2>3. \A n \in 0..N : g[n] = Body(g)[n]
    BY <1>4, <1>5, <2>1, <2>2 DEF Computation
  <2> QED
    BY <1>5, <2>3 DEF Computation
<1>7. Grouping(B) = CHOOSE h : h = Body(h)
  BY DEF Grouping, N
<1> DEFINE f == Grouping(B)
<1>8. f = Body(f)
  <2> HIDE DEF Body
  <2> QED
    BY <1>6, <1>7
<1> HIDE DEF f
<1>9. f[0] = base /\ \A n \in 1..N : f[n] = TakeBlock(f[n - 1], B[n])
  <2>1. 0 \in 0..N /\ \A n \in 1..N : n \in 0..N /\ n # 0
    BY <1>1
  <2> DEFINE b == Body(f)
  <2>2. b[0] = base /\ \A n \in 1..N : b[n] = TakeBlock(f[n - 1], B[n])
    BY <2>1
  <2> HIDE DEF b
  <2>3. f = b
    BY <1>8 DEF b
  <2> QED
    BY <2>2, <2>3
<1>10. Computation(f, Groups, base, step, N)
  <2>1. f = [n \in 0..N |-> f[n]]
    <3>1. f = [n \in 0..N |-> Body(f)[n]]
      BY <1>8
    <3> HIDE DEF Body
    <3> QED
      BY <1>8, <3>1
  <2>2. \A n \in 1..N : f[n - 1] \in Groups => f[n] = step[<<n, f[n - 1]>>]
    BY <1>4, <1>9
  <2> HIDE DEF base
  <2> QED
    BY <1>1, <1>2, <1>3, <1>9, <2>1, <2>2, ComputationTyped
<1> QED
  BY <1>9, <1>10 DEF f, N, Computation

-----------------------------------------------------------------------------
(***************************************************************************)
(* A segment is cut at a heading or at the target size.                    *)
(***************************************************************************)

\* A segment has no heading but at its beginning, and was not large enough
\* before its last block.
WellCut(s) ==
    /\ \A k \in 2..Len(s) : ~s[k].heading
    /\ Size(Front(s)) < SegmentTarget

\* What begins with b may follow on s.
Follows(s, b) == b.heading \/ Size(s) >= SegmentTarget

AllCut(segments) ==
    /\ \A k \in 1..Len(segments) : segments[k] # <<>> /\ WellCut(segments[k])
    /\ \A k \in 2..Len(segments) : Follows(segments[k - 1], segments[k][1])

\* What is kept while blocks are grouped.  A buffer that is not yielded has
\* blank lines only, none of which is a heading: the buffer after it follows on
\* the segment before it.
GroupInv(group) ==
    /\ group \in Groups
    /\ AllCut(group.segments)
    /\ WellCut(group.buffer)
    /\ group.buffer = <<>> => group.segments = <<>>
    /\ group.segments # <<>> => Follows(Last(group.segments), group.buffer[1])

\* A segment of one block, or of none, is well cut.
LEMMA ShortIsWellCut ==
    /\ WellCut(<<>>)
    /\ \A b : WellCut(<<b>>)
<1>1. ASSUME NEW s, Len(s) <= 1, Len(s) \in Nat PROVE WellCut(s)
  <2>1. Front(s) = <<>>
    BY <1>1, SubSeqEmpty DEF Front
  <2>2. Size(<<>>) < SegmentTarget
    BY SizeIsNatural, TargetAssumption
  <2>3. \A k \in 2..Len(s) : FALSE
    BY <1>1
  <2> QED
    BY <2>1, <2>2, <2>3 DEF WellCut
<1>2. WellCut(<<>>)
  <2>1. Len(<<>>) <= 1 /\ Len(<<>>) \in Nat
    OBVIOUS
  <2> QED
    BY <1>1, <2>1
<1>3. ASSUME NEW b PROVE WellCut(<<b>>)
  <2>1. Len(<<b>>) <= 1 /\ Len(<<b>>) \in Nat
    OBVIOUS
  <2> QED
    BY <1>1, <2>1
<1> QED
  BY <1>2, <1>3

\* A block that does not close the segment joins it.
LEMMA JoinedIsWellCut ==
    ASSUME NEW s \in Seq(Blocks), WellCut(s), NEW b \in Blocks, ~ClosesSegment(s, b)
    PROVE  /\ WellCut(Append(s, b))
           /\ Append(s, b)[1] = IF s = <<>> THEN b ELSE s[1]
<1>1. CASE s = <<>>
  <2>1. Append(s, b) = <<b>>
    BY <1>1
  <2> QED
    BY <1>1, <2>1, ShortIsWellCut
<1>2. CASE s # <<>>
  <2>1. Size(s) \in Nat /\ SegmentTarget \in Nat
    BY SizeIsNatural, TargetAssumption
  <2>2. ~b.heading /\ Size(s) < SegmentTarget
    BY <1>2, <2>1 DEF ClosesSegment
  <2>3. /\ Append(s, b) \in Seq(Blocks) /\ Len(Append(s, b)) = Len(s) + 1
        /\ \A i \in 1..Len(s) : Append(s, b)[i] = s[i]
        /\ Append(s, b)[Len(s) + 1] = b /\ Len(s) \in Nat /\ Len(s) >= 1
    BY <1>2, AppendProperties
  <2>4. Front(Append(s, b)) = s
    BY <2>3 DEF Front
  <2>5. ASSUME NEW k \in 2..Len(Append(s, b)) PROVE ~Append(s, b)[k].heading
    <3>1. k = Len(s) + 1 \/ (k \in 1..Len(s) /\ k \in 2..Len(s))
      BY <2>3
    <3> QED
      BY <2>2, <2>3, <3>1 DEF WellCut
  <2> QED
    BY <1>2, <2>2, <2>3, <2>4, <2>5 DEF WellCut
<1> QED
  BY <1>1, <1>2

\* A buffer that follows on the segments is yielded.
LEMMA YieldedIsCut ==
    ASSUME NEW group, GroupInv(group), NEW b \in Blocks,
           group.buffer # <<>> => Follows(group.buffer, b)
    PROVE  LET segments == Yielded(group.segments, group.buffer)
           IN  /\ segments \in Seq(Seq(Blocks)) /\ AllCut(segments)
               /\ segments # <<>> => Follows(Last(segments), b)
<1> DEFINE old == group.segments
           s == group.buffer
           new == Yielded(old, s)
<1>1. old \in Seq(Seq(Blocks)) /\ s \in Seq(Blocks) /\ Len(old) \in Nat /\ Len(s) \in Nat
  BY DEF GroupInv, Groups
<1>2. CASE \A k \in DOMAIN s : s[k].text = <<>>
  <2>1. new = old
    BY <1>2 DEF Yielded
  <2>2. ASSUME old # <<>> PROVE Follows(Last(old), b)
    <3>1. s # <<>> /\ 1 \in DOMAIN s /\ 1 \in 1..Len(s)
      BY <1>1, <2>2 DEF GroupInv
    <3>2. s[1] \in Blocks
      BY <1>1, <3>1, ElementOfSeq
    <3>3. ~s[1].heading
      BY <1>2, <3>1, <3>2 DEF Blocks
    <3>4. Size(Last(old)) >= SegmentTarget
      BY <2>2, <3>3 DEF GroupInv, Follows
    <3> QED
      BY <3>4 DEF Follows
  <2> QED
    BY <1>1, <2>1, <2>2 DEF GroupInv
<1>3. CASE ~ \A k \in DOMAIN s : s[k].text = <<>>
  <2>1. new = Append(old, s) /\ s # <<>>
    BY <1>1, <1>3 DEF Yielded
  <2>2. /\ new \in Seq(Seq(Blocks)) /\ Len(new) = Len(old) + 1
        /\ \A k \in 1..Len(old) : new[k] = old[k]
        /\ new[Len(old) + 1] = s
    BY <1>1, <2>1, AppendProperties
  <2>3. Last(new) = s /\ Last(old) = old[Len(old)]
    BY <2>2 DEF Last
  <2> HIDE DEF new
  <2>4. ASSUME NEW k \in 1..Len(new) PROVE new[k] # <<>> /\ WellCut(new[k])
    <3>1. k \in 1..Len(old) \/ k = Len(old) + 1
      BY <1>1, <2>2
    <3> QED
      BY <2>1, <2>2, <3>1 DEF GroupInv, AllCut
  <2>5. ASSUME NEW k \in 2..Len(new) PROVE Follows(new[k - 1], new[k][1])
    <3>1. CASE k = Len(old) + 1
      <4>1. old # <<>> /\ Len(old) \in 1..Len(old) /\ k - 1 = Len(old)
        BY <1>1, <3>1
      <4> QED
        BY <2>2, <2>3, <3>1, <4>1 DEF GroupInv
    <3>2. CASE k # Len(old) + 1
      <4>1. k \in 2..Len(old) /\ k \in 1..Len(old) /\ k - 1 \in 1..Len(old)
        BY <1>1, <2>2, <3>2
      <4> QED
        BY <2>2, <4>1 DEF GroupInv, AllCut
    <3> QED
      BY <3>1, <3>2
  <2>6. AllCut(new)
    BY <2>4, <2>5 DEF AllCut
  <2> QED
    BY <2>1, <2>2, <2>3, <2>6 DEF new
<1> QED
  BY <1>2, <1>3

\* Taking a block keeps the segments cut where they should be.
LEMMA TakeBlockKeeps ==
    ASSUME NEW group, GroupInv(group), NEW b \in Blocks
    PROVE  GroupInv(TakeBlock(group, b))
<1> DEFINE next == TakeBlock(group, b)
           s == group.buffer
<1>1. /\ group \in Groups /\ group.segments \in Seq(Seq(Blocks)) /\ s \in Seq(Blocks)
      /\ group = [segments |-> group.segments, buffer |-> s]
  BY DEF GroupInv, Groups
<1>2. next \in Groups
  BY <1>1, TakeBlockType
<1>3. CASE ClosesSegment(s, b)
  <2>1. Follows(s, b) /\ s # <<>>
    BY <1>3 DEF ClosesSegment, Follows
  <2>2. /\ next.segments = Yielded(group.segments, s)
        /\ next.buffer = <<b>>
    BY <1>3 DEF TakeBlock
  <2>3. /\ AllCut(next.segments)
        /\ next.segments # <<>> => Follows(Last(next.segments), b)
    BY <2>1, <2>2, YieldedIsCut
  <2>4. WellCut(<<b>>) /\ <<b>> # <<>> /\ <<b>>[1] = b
    BY ShortIsWellCut
  <2> QED
    BY <1>2, <2>2, <2>3, <2>4 DEF GroupInv
<1>4. CASE ~ClosesSegment(s, b)
  <2>1. next.segments = group.segments /\ next.buffer = Append(s, b)
    BY <1>1, <1>4 DEF TakeBlock
  <2>2. WellCut(Append(s, b)) /\ Append(s, b)[1] = IF s = <<>> THEN b ELSE s[1]
    BY <1>1, <1>4, JoinedIsWellCut DEF GroupInv
  <2>3. Append(s, b) # <<>>
    BY <1>1, AppendProperties
  <2> HIDE DEF next
  <2>4. /\ AllCut(group.segments)
        /\ s = <<>> => group.segments = <<>>
        /\ group.segments # <<>> => Follows(Last(group.segments), s[1])
    BY DEF GroupInv
  <2>5. group.segments # <<>> => Follows(Last(group.segments), Append(s, b)[1])
    BY <2>2, <2>4
  <2> QED
    BY <1>2, <2>1, <2>2, <2>3, <2>4, <2>5 DEF GroupInv, next
<1> QED
  BY <1>3, <1>4

\* The segments of any blocks are cut at the headings and at the target size.
LEMMA GroupBlocksIsCut ==
    ASSUME NEW B \in Seq(Blocks)
    PROVE  GroupBlocks(B) \in Seq(Seq(Blocks)) /\ AllCut(GroupBlocks(B))
<1> DEFINE N == Len(B)
           f == Grouping(B)
           S == {n \in Nat : n <= N => GroupInv(f[n])}
<1>1. N \in Nat /\ \A n \in 1..N : B[n] \in Blocks
  BY ElementOfSeq
<1>2. /\ f \in [0..N -> Groups] /\ f[0] = [segments |-> <<>>, buffer |-> <<>>]
      /\ \A n \in 1..N : f[n] = TakeBlock(f[n - 1], B[n])
  BY GroupingSteps
<1> HIDE DEF f
<1>3. 0 \in S
  <2>1. f[0].segments = <<>> /\ f[0].buffer = <<>> /\ f[0] \in Groups
    BY <1>1, <1>2
  <2>2. AllCut(<<>>)
    BY DEF AllCut
  <2> QED
    BY <2>1, <2>2, ShortIsWellCut DEF GroupInv
<1>4. ASSUME NEW n \in Nat, n \in S PROVE n + 1 \in S
  <2> SUFFICES ASSUME n + 1 <= N PROVE GroupInv(f[n + 1])
    OBVIOUS
  <2>1. n + 1 \in 1..N /\ (n + 1) - 1 = n /\ GroupInv(f[n])
    BY <1>1, <1>4
  <2>2. f[n + 1] = TakeBlock(f[n], B[n + 1]) /\ B[n + 1] \in Blocks
    BY <1>1, <1>2, <2>1
  <2> QED
    BY <2>1, <2>2, TakeBlockKeeps
<1>5. GroupInv(f[N])
  <2>1. Nat \subseteq S
    <3> HIDE DEF S
    <3> QED
      BY <1>3, <1>4, NatInd
  <2> QED
    BY <1>1, <2>1
<1>6. GroupBlocks(B) = Yielded(f[N].segments, f[N].buffer)
  BY DEF GroupBlocks, f
\* A heading could follow on whatever is left.
<1> DEFINE heading == [text |-> <<<<0>>>>, heading |-> TRUE]
<1>7. heading \in Blocks /\ \A s : Follows(s, heading)
  <2>1. <<<<0>>>> \in Texts /\ <<<<0>>>> # <<>>
    BY DEF Texts
  <2> QED
    BY <2>1 DEF Blocks, Follows
<1> HIDE DEF heading
<1> QED
  BY <1>5, <1>6, <1>7, YieldedIsCut

-----------------------------------------------------------------------------
(***************************************************************************)
(* The blocks of each format.                                              *)
(***************************************************************************)

\* The unit of an item is a text that is not empty.
LEMMA UnitIsText ==
    ASSUME NEW i \in Nat
    PROVE  <<<<i>>>> \in Texts /\ <<<<i>>>> # <<>>
<1>1. <<i>> \in Seq(Nat)
  OBVIOUS
<1> QED
  BY <1>1 DEF Texts

\* A block has a text, and a heading one that is not empty.
LEMMA BlockType ==
    ASSUME NEW text \in Texts, NEW heading \in BOOLEAN, heading => text # <<>>
    PROVE  Block(text, heading) \in Blocks
BY DEF Block, Blocks

Walks == [pieces : Texts, stack : Seq(BOOLEAN), blocks : Seq(Blocks)]

\* Flushing keeps the type of a walk.
LEMMA FlushPiecesType ==
    ASSUME NEW walk \in Walks
    PROVE  FlushPieces(walk) \in Walks
<1>1. /\ walk.pieces \in Texts /\ walk.stack \in Seq(BOOLEAN) /\ walk.blocks \in Seq(Blocks)
      /\ walk = [pieces |-> walk.pieces, stack |-> walk.stack, blocks |-> walk.blocks]
  BY DEF Walks
<1>2. CASE walk.pieces = <<>>
  BY <1>2 DEF FlushPieces
<1>3. CASE walk.pieces # <<>>
  <2> DEFINE blocks == Append(walk.blocks, Block(walk.pieces, FALSE))
  <2>1. blocks \in Seq(Blocks)
    BY <1>1, <1>3, BlockType, AppendProperties
  <2>2. FlushPieces(walk) = [pieces |-> <<>>, stack |-> walk.stack, blocks |-> blocks]
    BY <1>1, <1>3 DEF FlushPieces
  <2>3. <<>> \in Texts
    BY DEF Texts
  <2> HIDE DEF blocks
  <2> QED
    BY <1>1, <2>1, <2>2, <2>3 DEF Walks
<1> QED
  BY <1>2, <1>3

\* What adding a piece makes of a walk, field by field.
LEMMA AddPieceIs ==
    ASSUME NEW p, NEW s, NEW b, NEW x
    PROVE  AddPiece([pieces |-> p, stack |-> s, blocks |-> b], x)
              = [pieces |-> Append(p, x), stack |-> s, blocks |-> b]
BY SMT DEF AddPiece

\* The same of a block that is added.
LEMMA AddBlockIs ==
    ASSUME NEW p, NEW s, NEW b, NEW x
    PROVE  AddBlock([pieces |-> p, stack |-> s, blocks |-> b], x)
              = [pieces |-> p, stack |-> s, blocks |-> Append(b, x)]
BY SMT DEF AddBlock

\* The same of an element that is entered.
LEMMA EnterElementIs ==
    ASSUME NEW p, NEW s, NEW b, NEW x
    PROVE  EnterElement([pieces |-> p, stack |-> s, blocks |-> b], x)
              = [pieces |-> p, stack |-> Append(s, x), blocks |-> b]
BY SMT DEF EnterElement

\* The updates of a walk keep its type.
LEMMA WalkUpdatesType ==
    ASSUME NEW walk \in Walks
    PROVE  /\ \A i \in Nat : AddPiece(walk, <<i>>) \in Walks
           /\ \A b \in Blocks : AddBlock(walk, b) \in Walks
           /\ \A ends \in BOOLEAN : EnterElement(walk, ends) \in Walks
<1> DEFINE p == walk.pieces
           s == walk.stack
           b == walk.blocks
<1>1. /\ p \in Texts /\ s \in Seq(BOOLEAN) /\ b \in Seq(Blocks)
      /\ walk = [pieces |-> p, stack |-> s, blocks |-> b]
  BY DEF Walks
<1> HIDE DEF p, s, b
<1>2. ASSUME NEW i \in Nat PROVE AddPiece(walk, <<i>>) \in Walks
  <2> DEFINE u == <<i>>
             pieces == Append(p, u)
  <2>1. u \in Seq(Nat)
    OBVIOUS
  <2> HIDE DEF u
  <2>2. AddPiece(walk, u) = [pieces |-> pieces, stack |-> s, blocks |-> b]
    BY <1>1, AddPieceIs, SMT
  <2>3. pieces \in Texts
    BY <1>1, <2>1, AppendProperties DEF Texts
  <2> HIDE DEF pieces
  <2>4. [pieces |-> pieces, stack |-> s, blocks |-> b] \in Walks
    BY <1>1, <2>3 DEF Walks
  <2> QED
    BY <2>2, <2>4 DEF u
<1>3. ASSUME NEW x \in Blocks PROVE AddBlock(walk, x) \in Walks
  <2>1. AddBlock(walk, x) = [pieces |-> p, stack |-> s, blocks |-> Append(b, x)]
    BY <1>1, AddBlockIs, Zenon
  <2>2. Append(b, x) \in Seq(Blocks)
    BY <1>1, AppendProperties
  <2> QED
    BY <1>1, <2>1, <2>2 DEF Walks
<1>4. ASSUME NEW ends \in BOOLEAN PROVE EnterElement(walk, ends) \in Walks
  <2>1. EnterElement(walk, ends) = [pieces |-> p, stack |-> Append(s, ends), blocks |-> b]
    BY <1>1, EnterElementIs, Zenon
  <2>2. Append(s, ends) \in Seq(BOOLEAN)
    BY <1>1, AppendProperties
  <2> QED
    BY <1>1, <2>1, <2>2 DEF Walks
<1> QED
  BY <1>2, <1>3, <1>4

\* A turn of the walk keeps its type, whatever the tag.
LEMMA VisitNodeType ==
    ASSUME NEW walk \in Walks, NEW tag, NEW i \in Nat
    PROVE  VisitNode(walk, tag, i) \in Walks
<1> DEFINE flushed == FlushPieces(walk)
           next == VisitNode(walk, tag, i)
<1>1. /\ walk.pieces \in Texts /\ walk.stack \in Seq(BOOLEAN) /\ walk.blocks \in Seq(Blocks)
      /\ walk = [pieces |-> walk.pieces, stack |-> walk.stack, blocks |-> walk.blocks]
  BY DEF Walks
<1>2. flushed \in Walks
  BY FlushPiecesType
<1>4. CASE tag = "text"
  <2>1. /\ tag \notin {"<h/>", "<pre/>"} /\ tag \notin BlockTags
        /\ tag \notin OpenTags \ BlockTags /\ tag \notin CloseTags
    BY <1>4 DEF BlockTags, OpenTags, CloseTags
  <2>2. next = AddPiece(walk, <<i>>)
    BY <1>4, <2>1, Zenon DEF VisitNode
  <2> QED
    BY <2>2, WalkUpdatesType
<1>5. CASE tag \in {"<h/>", "<pre/>"}
  <2> DEFINE b == Block(<<<<i>>>>, tag = "<h/>")
  <2>1. b \in Blocks
    BY UnitIsText, BlockType
  <2>2. /\ tag # "text" /\ tag \notin BlockTags
        /\ tag \notin OpenTags \ BlockTags /\ tag \notin CloseTags
    BY <1>5 DEF BlockTags, OpenTags, CloseTags
  <2>3. next = AddBlock(flushed, b)
    BY <1>5, <2>2, Zenon DEF VisitNode
  <2> HIDE DEF b, flushed
  <2> QED
    BY <1>2, <2>1, <2>3, WalkUpdatesType
<1>6. CASE tag \in OpenTags
  <2>1. /\ tag # "text" /\ tag \notin {"<h/>", "<pre/>"} /\ tag \notin CloseTags
    BY <1>6 DEF OpenTags, BlockTags, CloseTags
  <2>2. CASE tag \in BlockTags
    <3>1. next = EnterElement(flushed, TRUE)
      <4>1. tag \notin OpenTags \ BlockTags
        BY <2>2
      <4> QED
        BY <2>1, <2>2, <4>1, Zenon DEF VisitNode
    <3> HIDE DEF flushed
    <3> QED
      BY <1>2, <3>1, WalkUpdatesType
  <2>3. CASE tag \notin BlockTags
    <3>1. next = EnterElement(walk, FALSE)
      <4>1. tag \in OpenTags \ BlockTags
        BY <1>6, <2>3
      <4> QED
        BY <2>1, <2>3, <4>1, Zenon DEF VisitNode
    <3> QED
      BY <3>1, WalkUpdatesType
  <2> QED
    BY <2>2, <2>3
<1>7. CASE tag \in CloseTags
  <2>1. tag \notin {"text", "<h/>", "<pre/>"} /\ tag \notin OpenTags /\ tag \notin BlockTags
    BY <1>7 DEF CloseTags, OpenTags, BlockTags
  <2>2. next = LeaveElement(walk)
    BY <1>7, <2>1 DEF VisitNode
  <2> DEFINE left == IF Last(walk.stack) THEN flushed ELSE walk
  <2>3. next = [left EXCEPT !.stack = Front(walk.stack)]
    <3>1. flushed.stack = walk.stack
      BY <1>1 DEF FlushPieces
    <3>2. next = [left EXCEPT !.stack = Front(left.stack)]
      BY <2>2 DEF LeaveElement
    <3> QED
      BY <3>1, <3>2
  <2>4. left \in Walks
    BY <1>2
  <2>5. left = [pieces |-> left.pieces, stack |-> left.stack, blocks |-> left.blocks]
        /\ left.pieces \in Texts /\ left.blocks \in Seq(Blocks)
    BY <2>4 DEF Walks
  <2>6. Front(walk.stack) \in Seq(BOOLEAN)
    <3>1. \A k \in 1..(Len(walk.stack) - 1) : walk.stack[k] \in BOOLEAN
      <4>1. \A k \in 1..(Len(walk.stack) - 1) : k \in 1..Len(walk.stack)
        BY <1>1
      <4> QED
        BY <1>1, <4>1, ElementOfSeq
    <3>2. 1 \in Int /\ Len(walk.stack) - 1 \in Int
      BY <1>1
    <3> QED
      BY <3>1, <3>2, SubSeqProperties DEF Front
  <2> HIDE DEF left, next
  <2>7. next = [pieces |-> left.pieces, stack |-> Front(walk.stack), blocks |-> left.blocks]
    BY <2>3, <2>5
  <2> QED
    BY <2>5, <2>6, <2>7 DEF Walks, next
<1>8. CASE tag \notin {"text", "<h/>", "<pre/>"} /\ tag \notin OpenTags /\ tag \notin CloseTags
  <2>1. tag \notin BlockTags
    BY <1>8 DEF OpenTags
  <2>2. next = walk
    BY <1>8, <2>1 DEF VisitNode
  <2> QED
    BY <2>2
<1> QED
  BY <1>4, <1>5, <1>6, <1>7, <1>8

\* Walking visits tag after tag.
LEMMA WalkingSteps ==
    ASSUME NEW tags, Len(tags) \in Nat
    PROVE  /\ Walking(tags) \in [0..Len(tags) -> Walks]
           /\ Walking(tags)[0] = [pieces |-> <<>>, stack |-> <<FALSE>>, blocks |-> <<>>]
           /\ \A n \in 1..Len(tags) :
                 Walking(tags)[n] = VisitNode(Walking(tags)[n - 1], tags[n], n)
<1> DEFINE N == Len(tags)
           base == [pieces |-> <<>>, stack |-> <<FALSE>>, blocks |-> <<>>]
           Body(g) == [n \in 0..N |-> IF n = 0 THEN [pieces |-> <<>>, stack |-> <<FALSE>>, blocks |-> <<>>]
                                      ELSE VisitNode(g[n - 1], tags[n], n)]
           step == [a \in (1..N) \X Walks |-> VisitNode(a[2], tags[a[1]], a[1])]
<1>1. N \in Nat
  OBVIOUS
<1>2. base \in Walks
  <2>1. <<FALSE>> \in Seq(BOOLEAN) /\ <<>> \in Texts /\ <<>> \in Seq(Blocks)
    BY DEF Texts
  <2> QED
    BY <2>1 DEF Walks
<1>3. step \in [(1..N) \X Walks -> Walks]
  <2>1. ASSUME NEW a \in (1..N) \X Walks PROVE VisitNode(a[2], tags[a[1]], a[1]) \in Walks
    <3>1. a[1] \in Nat /\ a[2] \in Walks
      OBVIOUS
    <3> QED
      BY <3>1, VisitNodeType
  <2> QED
    BY <2>1
<1>4. \A n \in 1..N, x \in Walks : step[<<n, x>>] = VisitNode(x, tags[n], n)
  OBVIOUS
<1>5. PICK g : Computation(g, Walks, base, step, N)
  <2> HIDE DEF step, N, base
  <2> QED
    BY <1>1, <1>2, <1>3, RecursionExists
<1> HIDE DEF step, N
<1>6. g = Body(g)
  <2>1. \A n \in 0..N : n = 0 \/ n \in 1..N
    BY <1>1
  <2>2. \A n \in 1..N : n - 1 \in 0..N /\ g[n - 1] \in Walks
    BY <1>1, <1>5 DEF Computation
  <2>3. \A n \in 0..N : g[n] = Body(g)[n]
    BY <1>4, <1>5, <2>1, <2>2 DEF Computation
  <2> QED
    BY <1>5, <2>3 DEF Computation
<1>7. Walking(tags) = CHOOSE h : h = Body(h)
  BY DEF Walking, N
<1> DEFINE f == Walking(tags)
<1>8. f = Body(f)
  <2> HIDE DEF Body
  <2> QED
    BY <1>6, <1>7
<1> HIDE DEF f
<1>9. f[0] = base /\ \A n \in 1..N : f[n] = VisitNode(f[n - 1], tags[n], n)
  <2>1. 0 \in 0..N /\ \A n \in 1..N : n \in 0..N /\ n # 0
    BY <1>1
  <2> DEFINE b == Body(f)
  <2>2. b[0] = base /\ \A n \in 1..N : b[n] = VisitNode(f[n - 1], tags[n], n)
    BY <2>1
  <2> HIDE DEF b
  <2>3. f = b
    BY <1>8 DEF b
  <2> QED
    BY <2>2, <2>3
<1>10. Computation(f, Walks, base, step, N)
  <2>1. f = [n \in 0..N |-> f[n]]
    <3>1. f = [n \in 0..N |-> Body(f)[n]]
      BY <1>8
    <3> HIDE DEF Body
    <3> QED
      BY <1>8, <3>1
  <2>2. \A n \in 1..N : f[n - 1] \in Walks => f[n] = step[<<n, f[n - 1]>>]
    BY <1>4, <1>9
  <2> HIDE DEF base
  <2> QED
    BY <1>1, <1>2, <1>3, <1>9, <2>1, <2>2, ComputationTyped
<1> QED
  BY <1>9, <1>10 DEF f, N, Computation

\* What a walk leaves are blocks.
LEMMA WalkType ==
    ASSUME NEW tags, Len(tags) \in Nat
    PROVE  Walk(tags) \in Seq(Blocks)
<1>1. Walking(tags)[Len(tags)] \in Walks
  BY WalkingSteps
<1>2. FlushPieces(Walking(tags)[Len(tags)]) \in Walks
  BY <1>1, FlushPiecesType
<1> QED
  BY <1>2 DEF Walk, Walks

\* The blocks of a page, its title among them, are blocks.
LEMMA HtmlBlocksType ==
    ASSUME NEW tags, NEW S, tags \in Seq(S), NEW title
    PROVE  HtmlBlocks(tags, title) \in Seq(Blocks)
<1> DEFINE shown == [i \in DOMAIN tags |-> IF tags[i] \in RemovedTags THEN "space" ELSE tags[i]]
           blocks == Walk(shown)
<1>1. Len(shown) \in Nat
  BY DEF RemovedTags
<1>2. blocks \in Seq(Blocks)
  BY <1>1, WalkType
<1>3. <<Block(<<<<0>>>>, TRUE)>> \in Seq(Blocks)
  <2>1. <<<<0>>>> \in Texts /\ <<<<0>>>> # <<>>
    BY UnitIsText, 0 \in Nat
  <2> DEFINE title0 == Block(<<<<0>>>>, TRUE)
  <2>2. title0 \in Blocks
    BY <2>1, BlockType
  <2> HIDE DEF title0
  <2>3. <<title0>> \in Seq(Blocks)
    BY <2>2
  <2> QED
    BY <2>3 DEF title0
<1> HIDE DEF blocks
<1>4. <<Block(<<<<0>>>>, TRUE)>> \o blocks \in Seq(Blocks)
  BY <1>2, <1>3, ConcatProperties
<1> QED
  BY <1>2, <1>4 DEF HtmlBlocks, blocks

-----------------------------------------------------------------------------

\* Places up to a number are finitely many.
LEMMA PlacesAreFinite ==
    ASSUME NEW n \in Nat, NEW S \in SUBSET (1..n)
    PROVE  IsFiniteSet(S) /\ S \in SUBSET Nat
<1>1. IsFiniteSet(1..n)
  BY FS_Interval
<1>2. IsFiniteSet(S)
  BY <1>1, FS_Subset
<1>3. S \in SUBSET Nat
  OBVIOUS
<1> QED
  BY <1>2, <1>3

\* The rows of a table are blocks.
LEMMA TableRowsType ==
    ASSUME NEW rows \in Seq(Seq(Nat)), NEW i \in Nat
    PROVE  TableRows(rows, i) \in Seq(Blocks)
<1>1. Len(rows) \in Nat /\ DOMAIN rows = 1..Len(rows) /\ \A r \in DOMAIN rows : rows[r] \in Seq(Nat)
  BY ElementOfSeq
<1>2. ASSUME NEW r \in DOMAIN rows PROVE RowBlock(rows, r, i) \in Blocks
  <2> DEFINE row == rows[r]
             places == InOrder(Written(rows, r))
             text == [n \in DOMAIN places |-> <<i, row[places[n]]>>]
  <2>1. row \in Seq(Nat) /\ Len(row) \in Nat /\ DOMAIN row = 1..Len(row)
    BY <1>1
  <2>2. Written(rows, r) \in SUBSET (1..Len(row))
    BY <2>1 DEF Written
  <2> DEFINE width == Len(row)
             written == Written(rows, r)
  <2>3. IsFiniteSet(written) /\ written \in SUBSET Nat
    <3>1. width \in Nat /\ written \in SUBSET (1..width)
      BY <2>1, <2>2
    <3> HIDE DEF width, written
    <3> QED
      BY <3>1, PlacesAreFinite
  <2>4. places \in Seq(written)
    BY <2>3, InOrderProperties
  <2> HIDE DEF places, row, written
  <2>5. Len(places) \in Nat /\ DOMAIN places = 1..Len(places)
        /\ \A n \in DOMAIN places : row[places[n]] \in Nat
    <3>1. Len(places) \in Nat /\ DOMAIN places = 1..Len(places)
      BY <2>4
    <3>2. \A n \in DOMAIN places : places[n] \in written
      BY <2>4
    <3>3. \A k \in written : row[k] \in Nat
      <4>1. \A k \in 1..Len(row) : row[k] \in Nat
        BY <2>1
      <4> QED
        BY <2>2, <4>1 DEF written
    <3> QED
      BY <3>1, <3>2, <3>3
  <2>6. text \in Texts
    <3>1. ASSUME NEW n \in 1..Len(places) PROVE <<i, row[places[n]]>> \in Seq(Nat)
      <4> DEFINE c == row[places[n]]
      <4>1. c \in Nat
        BY <2>5
      <4> HIDE DEF c
      <4>2. <<i, c>> \in Seq(Nat)
        BY <4>1
      <4> QED
        BY <4>2 DEF c
    <3> QED
      BY <2>5, <3>1 DEF Texts
  <2>7. RowBlock(rows, r, i) = Block(text, FALSE)
    BY DEF RowBlock, places, row
  <2> HIDE DEF text
  <2> QED
    BY <2>6, <2>7, BlockType
<1> DEFINE W == {r \in DOMAIN rows : Written(rows, r) # {}}
           lines == InOrder(W)
<1>3. lines \in Seq(W)
  <2>1. W \in SUBSET (1..Len(rows))
    BY <1>1
  <2>2. IsFiniteSet(W) /\ W \in SUBSET Nat
    BY <1>1, <2>1, PlacesAreFinite
  <2> QED
    BY <2>2, InOrderProperties
<1> HIDE DEF lines
<1>4. Len(lines) \in Nat /\ DOMAIN lines = 1..Len(lines)
      /\ \A n \in DOMAIN lines : lines[n] \in DOMAIN rows
  <2>1. \A r \in W : r \in DOMAIN rows
    OBVIOUS
  <2> HIDE DEF W
  <2> QED
    BY <1>3, <2>1
<1>5. TableRows(rows, i) = [n \in 1..Len(lines) |-> RowBlock(rows, lines[n], i)]
  BY <1>4 DEF TableRows, lines
<1>6. \A n \in 1..Len(lines) : RowBlock(rows, lines[n], i) \in Blocks
  BY <1>2, <1>4
<1> QED
  BY <1>4, <1>5, <1>6

\* The blocks of a DOCX document are blocks.
LEMMA DocxBlocksType ==
    ASSUME NEW items \in Seq(BodyItems)
    PROVE  DocxBlocks(items) \in Seq(Blocks)
<1>1. Len(items) \in Nat /\ DOMAIN items = 1..Len(items)
  OBVIOUS
<1>2. ASSUME NEW i \in 1..Len(items) PROVE ItemBlocks(items[i], i) \in Seq(Blocks)
  <2>1. items[i] \in BodyItems /\ i \in Nat
    BY ElementOfSeq
  <2>2. items[i].rows \in Seq(Seq(Nat))
    <3>1. items[i].rows \in {<<>>} \/ items[i].rows \in Seq(Seq(Nat))
      BY <2>1 DEF BodyItems
    <3>2. <<>> \in Seq(Seq(Nat))
      OBVIOUS
    <3> QED
      BY <3>1, <3>2
  <2>3. TableRows(items[i].rows, i) \in Seq(Blocks)
    BY <2>1, <2>2, TableRowsType
  <2>4. Block(<<<<i>>>>, items[i].kind = "heading") \in Blocks
    BY <2>1, UnitIsText, BlockType
  <2>5. <<Block(<<<<i>>>>, items[i].kind = "heading")>> \in Seq(Blocks) /\ <<>> \in Seq(Blocks)
    BY <2>4
  <2> QED
    BY <2>3, <2>5 DEF ItemBlocks
<1> DEFINE seqs == [i \in 1..Len(items) |-> ItemBlocks(items[i], i)]
<1>3. seqs \in Seq(Seq(Blocks))
  BY <1>1, <1>2
<1>4. DocxBlocks(items) = FlattenSeq(seqs)
  BY <1>1 DEF DocxBlocks
<1> QED
  BY <1>3, <1>4, FlattenSeqIs

\* The lines of a plain text are blocks.
LEMMA TextBlocksType ==
    ASSUME NEW lines, NEW S, lines \in Seq(S)
    PROVE  TextBlocks(lines) \in Seq(Blocks)
<1>1. Len(lines) \in Nat /\ DOMAIN lines = 1..Len(lines)
  OBVIOUS
<1>2. ASSUME NEW i \in 1..Len(lines)
      PROVE  Block(IF lines[i] = "text" THEN <<<<i>>>> ELSE <<>>, FALSE) \in Blocks
  <2>1. <<<<i>>>> \in Texts /\ <<>> \in Texts
    BY UnitIsText DEF Texts
  <2> QED
    BY <2>1, BlockType
<1> DEFINE block(i) == Block(IF lines[i] = "text" THEN <<<<i>>>> ELSE <<>>, FALSE)
<1>3. TextBlocks(lines) = [i \in 1..Len(lines) |-> block(i)]
  BY <1>1 DEF TextBlocks
<1>4. \A i \in 1..Len(lines) : block(i) \in Blocks
  BY <1>2
<1> HIDE DEF block
<1> QED
  BY <1>1, <1>3, <1>4

\* The segments of a PDF are lines of one page each.
LEMMA PdfSegmentsType ==
    ASSUME NEW pages, NEW S, pages \in Seq(S)
    PROVE  /\ PdfSegments(pages) \in Seq(Seq(Blocks))
           /\ \A k \in 1..Len(PdfSegments(pages)) : Len(PdfSegments(pages)[k]) = 1
<1> DEFINE W == {i \in DOMAIN pages : pages[i] = "text"}
           read == InOrder(W)
           segment(n) == <<Block(<<<<read[n]>>>>, FALSE)>>
<1>1. Len(pages) \in Nat /\ DOMAIN pages = 1..Len(pages)
  OBVIOUS
<1>2. read \in Seq(W) /\ W \in SUBSET Nat
  <2>1. W \in SUBSET (1..Len(pages))
    BY <1>1
  <2>2. IsFiniteSet(W) /\ W \in SUBSET Nat
    BY <1>1, <2>1, PlacesAreFinite
  <2> QED
    BY <2>2, InOrderProperties
<1>3. PdfSegments(pages) = [n \in DOMAIN read |-> segment(n)]
  BY DEF PdfSegments
<1> HIDE DEF read, W
<1>4. ASSUME NEW n \in DOMAIN read PROVE segment(n) \in Seq(Blocks) /\ Len(segment(n)) = 1
  <2>1. read[n] \in W
    BY <1>2
  <2> DEFINE page == read[n]
             line == Block(<<<<page>>>>, FALSE)
  <2>2. page \in Nat
    BY <1>2, <2>1
  <2> HIDE DEF page
  <2>3. line \in Blocks
    BY <2>2, UnitIsText, BlockType
  <2>4. segment(n) = <<line>>
    BY DEF page
  <2> HIDE DEF line, segment
  <2>5. <<line>> \in Seq(Blocks) /\ Len(<<line>>) = 1
    BY <2>3
  <2> QED
    BY <2>4, <2>5
<1>5. DOMAIN read = 1..Len(read) /\ Len(read) \in Nat
  BY <1>2
<1> HIDE DEF segment
<1> QED
  BY <1>3, <1>4, <1>5

-----------------------------------------------------------------------------

\* What the extractor of any document yields.
LEMMA SegmentsOfAreCut ==
    ASSUME NEW format \in Formats, NEW d \in Documents[format]
    PROVE  /\ d.format = format
           /\ SegmentsOf(d) \in Seq(Seq(Blocks))
           /\ \A k \in 1..Len(SegmentsOf(d)) : SegmentsOf(d)[k] # <<>> /\ WellCut(SegmentsOf(d)[k])
           /\ d.format # "pdf" => AllCut(SegmentsOf(d))
<1>1. /\ d.format = format
      /\ format = "docx" => d.content \in Seq(BodyItems)
      /\ format # "docx" => d.content \in Seq(STRING)
  BY DocumentsAssumption
<1>2. CASE format = "html"
  <2>1. SegmentsOf(d) = GroupBlocks(HtmlBlocks(d.content, d.title))
    BY <1>1, <1>2 DEF SegmentsOf
  <2>2. HtmlBlocks(d.content, d.title) \in Seq(Blocks)
    BY <1>1, <1>2, HtmlBlocksType
  <2> QED
    BY <1>1, <2>1, <2>2, GroupBlocksIsCut DEF AllCut
<1>3. CASE format = "docx"
  <2>1. SegmentsOf(d) = GroupBlocks(DocxBlocks(d.content))
    BY <1>1, <1>3 DEF SegmentsOf
  <2>2. DocxBlocks(d.content) \in Seq(Blocks)
    BY <1>1, <1>3, DocxBlocksType
  <2> QED
    BY <1>1, <2>1, <2>2, GroupBlocksIsCut DEF AllCut
<1>4. CASE format = "text"
  <2>1. SegmentsOf(d) = GroupBlocks(TextBlocks(d.content))
    BY <1>1, <1>4 DEF SegmentsOf
  <2>2. TextBlocks(d.content) \in Seq(Blocks)
    BY <1>1, <1>4, TextBlocksType
  <2> QED
    BY <1>1, <2>1, <2>2, GroupBlocksIsCut DEF AllCut
<1>5. CASE format = "pdf"
  <2>1. SegmentsOf(d) = PdfSegments(d.content)
    BY <1>1, <1>5 DEF SegmentsOf
  <2>2. /\ PdfSegments(d.content) \in Seq(Seq(Blocks))
        /\ \A k \in 1..Len(PdfSegments(d.content)) : Len(PdfSegments(d.content)[k]) = 1
    BY <1>1, <1>5, PdfSegmentsType
  <2>3. ASSUME NEW s \in Seq(Blocks), Len(s) = 1 PROVE s # <<>> /\ WellCut(s)
    <3>1. s = <<s[1]>> /\ s # <<>>
      BY <2>3
    <3> QED
      BY <3>1, ShortIsWellCut
  <2>4. \A k \in 1..Len(PdfSegments(d.content)) : PdfSegments(d.content)[k] \in Seq(Blocks)
    BY <2>2, ElementOfSeq
  <2> QED
    BY <1>1, <1>5, <2>1, <2>2, <2>3, <2>4
<1> QED
  BY <1>2, <1>3, <1>4, <1>5 DEF Formats

-----------------------------------------------------------------------------
(***************************************************************************)
(* The segments that are delivered.                                        *)
(***************************************************************************)

\* The segments of the document are those that were delivered and the rest, and
\* one that was read is the first of the rest.
SegmentsInOrder ==
    /\ \E format \in Formats : doc \in Documents[format]
    /\ delivered \in Seq(Seq(Blocks)) /\ rest \in Seq(Seq(Blocks))
    /\ delivered \o rest = SegmentsOf(doc)
    /\ task = "read" /\ result = "segment" => rest # <<>>

\* At first nothing is delivered and the rest is all.
LEMMA InitSegments == Init => SegmentsInOrder
<1> SUFFICES ASSUME Init PROVE SegmentsInOrder
  OBVIOUS
<1>1. PICK format \in Formats : doc \in Documents[format]
  BY DEF Init
<1>2. SegmentsOf(doc) \in Seq(Seq(Blocks))
  BY <1>1, SegmentsOfAreCut
<1>3. delivered = <<>> /\ rest = SegmentsOf(doc) /\ task = "start"
  BY DEF Init
<1>4. <<>> \in Seq(Seq(Blocks)) /\ <<>> \o rest = rest
  BY <1>2, <1>3, ConcatEmptySeq
<1> QED
  BY <1>1, <1>2, <1>3, <1>4 DEF SegmentsInOrder

\* The first of the rest is delivered, and the order is kept.
LEMMA DeliveryKeeps ==
    ASSUME NEW T, NEW d \in Seq(T), NEW r \in Seq(T), r # <<>>
    PROVE  /\ Append(d, Head(r)) \in Seq(T) /\ Tail(r) \in Seq(T)
           /\ Append(d, Head(r)) \o Tail(r) = d \o r
<1> DEFINE h == Head(r)
           t == Tail(r)
           D == Append(d, h)
<1>1. /\ h \in T /\ t \in Seq(T) /\ h = r[1] /\ Len(t) = Len(r) - 1
      /\ \A i \in 1..Len(t) : t[i] = r[i + 1]
  BY HeadTailProperties
<1>2. Len(d) \in Nat /\ Len(r) \in Nat /\ Len(r) >= 1
  OBVIOUS
<1> HIDE DEF h, t
<1>3. D \in Seq(T) /\ Len(D) = Len(d) + 1 /\ D[Len(d) + 1] = h
      /\ \A i \in 1..Len(d) : D[i] = d[i]
  BY <1>1, AppendProperties
<1> HIDE DEF D
<1>4. /\ D \o t \in Seq(T) /\ Len(D \o t) = Len(D) + Len(t)
      /\ \A i \in 1..(Len(D) + Len(t)) :
            (D \o t)[i] = IF i <= Len(D) THEN D[i] ELSE t[i - Len(D)]
  BY <1>1, <1>3, ConcatProperties
<1>5. /\ d \o r \in Seq(T) /\ Len(d \o r) = Len(d) + Len(r)
      /\ \A i \in 1..(Len(d) + Len(r)) :
            (d \o r)[i] = IF i <= Len(d) THEN d[i] ELSE r[i - Len(d)]
  BY ConcatProperties
<1> DEFINE A == D \o t
           B == d \o r
<1> HIDE DEF A, B
<1>6. Len(A) = Len(B)
  BY <1>1, <1>2, <1>3, <1>4, <1>5 DEF A, B
<1>7. ASSUME NEW i \in 1..Len(B) PROVE A[i] = B[i]
  <2>1. i \in Int /\ i \in 1..(Len(d) + Len(r)) /\ i \in 1..(Len(D) + Len(t))
    BY <1>1, <1>2, <1>3, <1>5 DEF B
  <2>2. CASE i <= Len(d)
    BY <1>2, <1>3, <1>4, <1>5, <2>1, <2>2 DEF A, B
  <2>3. CASE i = Len(d) + 1
    BY <1>1, <1>2, <1>3, <1>4, <1>5, <2>1, <2>3 DEF A, B
  <2>4. CASE i > Len(d) + 1
    <3>1. i - Len(D) \in 1..Len(t) /\ (i - Len(D)) + 1 = i - Len(d) /\ ~(i <= Len(D)) /\ ~(i <= Len(d))
      BY <1>1, <1>2, <1>3, <2>1, <2>4
    <3>2. A[i] = t[i - Len(D)] /\ B[i] = r[i - Len(d)]
      BY <1>4, <1>5, <2>1, <3>1 DEF A, B
    <3>3. t[i - Len(D)] = r[(i - Len(D)) + 1]
      BY <1>1, <3>1
    <3> QED
      BY <3>1, <3>2, <3>3
  <2> QED
    BY <1>2, <2>1, <2>2, <2>3, <2>4
<1>8. A = B
  BY <1>4, <1>5, <1>6, <1>7, SeqEqual DEF A, B
<1> QED
  BY <1>1, <1>3, <1>8 DEF A, B, D, h, t

\* Every step keeps the segments in order.
LEMMA StepSegments ==
    ASSUME SegmentsInOrder, [Next]_vars
    PROVE  SegmentsInOrder'
<1>1. CASE YieldSegment
  <2>1. /\ doc' = doc /\ task' = "yielded" /\ rest # <<>>
        /\ delivered' = Append(delivered, Head(rest)) /\ rest' = Tail(rest)
    BY <1>1 DEF YieldSegment, SegmentsInOrder
  <2>2. /\ delivered' \in Seq(Seq(Blocks)) /\ rest' \in Seq(Seq(Blocks))
        /\ delivered' \o rest' = delivered \o rest
    <3> DEFINE T == Seq(Blocks)
    <3>1. delivered \in Seq(T) /\ rest \in Seq(T)
      BY DEF SegmentsInOrder
    <3> HIDE DEF T
    <3>2. /\ Append(delivered, Head(rest)) \in Seq(T) /\ Tail(rest) \in Seq(T)
          /\ Append(delivered, Head(rest)) \o Tail(rest) = delivered \o rest
      BY <2>1, <3>1, DeliveryKeeps
    <3> QED
      BY <2>1, <3>2 DEF T
  <2> QED
    BY <2>1, <2>2 DEF SegmentsInOrder
<1>2. CASE ReadSegment
  BY <1>2 DEF ReadSegment, SegmentsInOrder
<1>3. ASSUME UNCHANGED <<doc, rest, delivered>>,
             task' # "read" \/ result' # "segment" \/ UNCHANGED <<task, result>>
      PROVE  SegmentsInOrder'
  BY <1>3 DEF SegmentsInOrder
<1>4. CASE Refuse
  BY <1>3, <1>4 DEF Refuse
<1>5. CASE Start
  BY <1>3, <1>5 DEF Start, Await
<1>6. CASE DownloadFailed
  BY <1>3, <1>6 DEF DownloadFailed, LeaveDownload
<1>7. CASE Downloaded
  BY <1>3, <1>7 DEF Downloaded, Await
<1>8. CASE ReadEnds
  BY <1>3, <1>8 DEF ReadEnds, Await
<1>9. CASE Closed
  BY <1>3, <1>9 DEF Closed, LeaveDownload
<1>10. CASE Consumer
  BY <1>3, <1>10 DEF Consumer, AskNext, StopEarly, Await
<1>11. CASE Cancel
  BY <1>3, <1>11 DEF Cancel, CancelDownload, CancelRead, CancelClose, LeaveDownload
<1>12. ASSUME NEW j \in Jobs, BeginJob(j) PROVE SegmentsInOrder'
  BY <1>3, <1>12 DEF BeginJob
<1>13. ASSUME NEW j \in Jobs, EndFetch(j) PROVE SegmentsInOrder'
  BY <1>3, <1>13 DEF EndFetch, Return
<1>14. CASE EndReading
  BY <1>3, <1>14 DEF EndReading, Return, EndOf
<1>15. CASE CloseGenerator
  BY <1>3, <1>15 DEF CloseGenerator, Return
<1>16. CASE Collect
  BY <1>3, <1>16 DEF Collect
<1>17. CASE UNCHANGED vars
  BY <1>3, <1>17 DEF vars
<1> QED
  BY <1>1, <1>2, <1>4, <1>5, <1>6, <1>7, <1>8, <1>9, <1>10, <1>11, <1>12, <1>13, <1>14,
     <1>15, <1>16, <1>17 DEF Next, Task, Executor, RunRead

\* What is delivered is cut as the extractor cut it.
LEMMA SegmentsInOrderAreCut == SegmentsInOrder => SegmentsAreCut
<1> SUFFICES ASSUME SegmentsInOrder PROVE SegmentsAreCut
  OBVIOUS
<1> DEFINE S == SegmentsOf(doc)
<1>1. /\ \A k \in 1..Len(S) : S[k] # <<>> /\ WellCut(S[k])
      /\ doc.format # "pdf" => AllCut(S)
  BY SegmentsOfAreCut DEF SegmentsInOrder
<1>2. /\ delivered \in Seq(Seq(Blocks)) /\ rest \in Seq(Seq(Blocks)) /\ delivered \o rest = S
  BY DEF SegmentsInOrder
<1> HIDE DEF S
<1>3. /\ Len(delivered) \in Nat /\ Len(rest) \in Nat /\ Len(S) = Len(delivered) + Len(rest)
      /\ \A k \in 1..Len(delivered) : k \in 1..Len(S) /\ delivered[k] = S[k]
  <2>1. Len(delivered) \in Nat /\ Len(rest) \in Nat
    BY <1>2
  <2> QED
    BY <1>2, <2>1, ConcatProperties
<1>4. ASSUME NEW s \in ToSet(delivered) PROVE WellCut(s)
  <2>1. PICK k \in 1..Len(delivered) : s = delivered[k]
    <3>1. DOMAIN delivered = 1..Len(delivered)
      BY <1>2
    <3> QED
      BY <3>1 DEF ToSet
  <2> QED
    BY <1>1, <1>3, <2>1
<1>5. ASSUME doc.format # "pdf", NEW k \in 2..Len(delivered)
      PROVE  delivered[k][1].heading \/ Size(delivered[k - 1]) >= SegmentTarget
  <2>1. k \in 1..Len(delivered) /\ k - 1 \in 1..Len(delivered) /\ k \in 2..Len(S)
    BY <1>3
  <2>2. Follows(S[k - 1], S[k][1])
    BY <1>1, <1>5, <2>1 DEF AllCut
  <2> QED
    BY <1>3, <2>1, <2>2 DEF Follows
<1> QED
  BY <1>4, <1>5 DEF SegmentsAreCut, WellCut

\* The segments that a consumer is given are cut at the headings and at the
\* target size of the document, and nowhere else, wherever the stream stops.
THEOREM SegmentsAreWellCut == Spec => []SegmentsAreCut
<1>1. Init => SegmentsInOrder
  BY InitSegments
<1>2. SegmentsInOrder /\ [Next]_vars => SegmentsInOrder'
  BY StepSegments
<1>3. SegmentsInOrder => SegmentsAreCut
  BY SegmentsInOrderAreCut
<1> QED
  BY <1>1, <1>2, <1>3, PTL DEF Spec

-----------------------------------------------------------------------------
(***************************************************************************)
(* Grouping loses nothing but blank lines.                                 *)
(***************************************************************************)

\* The first n of a sequence.
Firsts(s, n) == {s[i] : i \in 1..n}

Blank(b) == b.text = <<>>

\* What the grouping of the first n blocks keeps: their order, and all of them
\* but blank ones.
GroupKeeps(group, blocks, n, A) ==
    /\ Chains(Append(group.segments, group.buffer), A)
    /\ LET kept == Elements(Append(group.segments, group.buffer))
       IN /\ kept \subseteq Firsts(blocks, n)
          /\ \A b \in Firsts(blocks, n) : Blank(b) \/ b \in kept

\* What is not yielded is blank.
LEMMA YieldedKeeps ==
    ASSUME NEW segments \in Seq(Seq(Blocks)), NEW buffer \in Seq(Blocks), NEW A,
           Chains(Append(segments, buffer), A)
    PROVE  /\ Yielded(segments, buffer) \in Seq(Seq(Blocks))
           /\ Chains(Yielded(segments, buffer), A)
           /\ Elements(Yielded(segments, buffer)) \subseteq Elements(Append(segments, buffer))
           /\ \A b \in Elements(Append(segments, buffer)) :
                 Blank(b) \/ b \in Elements(Yielded(segments, buffer))
<1> DEFINE all == Append(segments, buffer)
           N == Len(segments)
<1>1. /\ all \in Seq(Seq(Blocks)) /\ Elements(all) = Elements(segments) \cup ToSet(buffer)
  BY AppendChains
<1>2. N \in Nat /\ Len(all) = N + 1 /\ \A k \in 1..N : all[k] = segments[k]
  BY AppendProperties
<1>3. CASE \A k \in DOMAIN buffer : buffer[k].text = <<>>
  <2>1. Yielded(segments, buffer) = segments
    BY <1>3 DEF Yielded
  <2>2. \A b \in ToSet(buffer) : Blank(b)
    BY <1>3 DEF ToSet, Blank
  <2>3. Chains(segments, A)
    <3>1. \A k \in 1..N : k \in 1..Len(all)
      BY <1>2
    <3> HIDE DEF all
    <3> QED
      BY <1>2, <3>1 DEF Chains, all
  <2> QED
    BY <1>1, <2>1, <2>2, <2>3
<1>4. CASE ~(\A k \in DOMAIN buffer : buffer[k].text = <<>>)
  <2>1. Yielded(segments, buffer) = all
    BY <1>4 DEF Yielded
  <2> QED
    BY <1>1, <2>1
<1> QED
  BY <1>3, <1>4

\* Taking a block keeps all blocks, in order.
LEMMA TakeBlockKeepsAll ==
    ASSUME NEW group \in Groups, NEW blocks \in Seq(Blocks), NEW n \in Nat, n + 1 \in 1..Len(blocks),
           NEW A, Chain(blocks, A), GroupKeeps(group, blocks, n, A)
    PROVE  GroupKeeps(TakeBlock(group, blocks[n + 1]), blocks, n + 1, A)
<1> DEFINE b == blocks[n + 1]
           segments == group.segments
           buffer == group.buffer
           all == Append(segments, buffer)
           next == TakeBlock(group, b)
           taken == Append(next.segments, next.buffer)
           fresh == Firsts(blocks, n + 1)
<1>1. b \in Blocks /\ segments \in Seq(Seq(Blocks)) /\ buffer \in Seq(Blocks)
  BY ElementOfSeq DEF Groups
<1>2. /\ Chains(all, A) /\ Elements(all) \subseteq Firsts(blocks, n)
      /\ \A c \in Firsts(blocks, n) : Blank(c) \/ c \in Elements(all)
  BY DEF GroupKeeps
<1>3. fresh = Firsts(blocks, n) \cup {b}
  <2>1. \A i : i \in 1..(n + 1) <=> i \in 1..n \/ i = n + 1
    OBVIOUS
  <2> QED
    BY <2>1 DEF Firsts
<1>4. \A c \in Firsts(blocks, n) : <<c, b>> \in A
  <2>1. \A i \in 1..n : i \in 1..Len(blocks) /\ i < n + 1
    OBVIOUS
  <2> QED
    BY <2>1 DEF Chain, Firsts
<1> HIDE DEF b, fresh
<1>5. /\ Chains(taken, A) /\ Elements(taken) \subseteq fresh
      /\ \A c \in fresh : Blank(c) \/ c \in Elements(taken)
  <2>1. CASE ClosesSegment(buffer, b)
    <3> DEFINE yielded == Yielded(segments, buffer)
    <3>1. next.segments = yielded /\ next.buffer = <<b>>
      BY <2>1 DEF TakeBlock
    <3>2. /\ yielded \in Seq(Seq(Blocks)) /\ Chains(yielded, A)
          /\ Elements(yielded) \subseteq Elements(all)
          /\ \A c \in Elements(all) : Blank(c) \/ c \in Elements(yielded)
      BY <1>1, <1>2, YieldedKeeps
    <3> DEFINE t == <<b>>
    <3>3. t \in Seq(Blocks) /\ Chain(t, A) /\ ToSet(t) = {b}
      BY <1>1, SingleChain
    <3>4. taken = Append(yielded, t)
      BY <3>1
    <3> HIDE DEF yielded, t, all, taken, next
    <3>5. \A x \in Elements(yielded), y \in ToSet(t) : <<x, y>> \in A
      BY <1>2, <1>4, <3>2, <3>3
    <3>6. Elements(taken) = Elements(yielded) \cup {b} /\ Chains(taken, A)
      BY <3>2, <3>3, <3>4, <3>5, AppendChains
    <3> QED
      BY <1>2, <1>3, <3>2, <3>6
  <2>2. CASE ~ClosesSegment(buffer, b)
    <3> DEFINE grown == Append(buffer, b)
    <3>1. next.segments = segments /\ next.buffer = grown
      <4>1. next = [group EXCEPT !.buffer = Append(@, b)]
        BY <2>2 DEF TakeBlock
      <4> QED
        BY <4>1 DEF Groups
    <3>2. /\ Elements(all) = Elements(segments) \cup ToSet(buffer)
          /\ Len(segments) \in Nat /\ Len(all) = Len(segments) + 1 /\ all[Len(segments) + 1] = buffer
          /\ \A k \in 1..Len(segments) : all[k] = segments[k]
      BY <1>1, AppendProperties, AppendChains
    <3> HIDE DEF all
    <3>3. Chains(segments, A) /\ Chain(buffer, A)
          /\ \A x \in Elements(segments), y \in ToSet(buffer) : <<x, y>> \in A
      <4>1. /\ \A k \in 1..Len(segments) : k \in 1..Len(all) /\ k < Len(segments) + 1
            /\ Len(segments) + 1 \in 1..Len(all)
        BY <3>2
      <4>2. Chains(segments, A) /\ Chain(buffer, A)
        BY <1>2, <3>2, <4>1 DEF Chains
      <4>3. \A k \in 1..Len(segments) : Across(segments[k], buffer, A)
        BY <1>2, <3>2, <4>1 DEF Chains
      <4> QED
        BY <4>2, <4>3 DEF Across, Elements
    <3>4. /\ grown \in Seq(Blocks) /\ ToSet(grown) = ToSet(buffer) \cup {b} /\ Chain(grown, A)
      <4>1. \A y \in ToSet(buffer) : <<y, b>> \in A
        BY <1>2, <1>4, <3>2
      <4> QED
        BY <1>1, <3>3, <4>1, AppendChain
    <3>5. taken = Append(segments, grown)
      BY <3>1
    <3> HIDE DEF grown, taken, next
    <3>6. \A x \in Elements(segments), y \in ToSet(grown) : <<x, y>> \in A
      BY <1>2, <1>4, <3>2, <3>3, <3>4
    <3> HIDE DEF segments, buffer
    <3>7. Elements(taken) = Elements(segments) \cup ToSet(grown) /\ Chains(taken, A)
      BY <1>1, <3>3, <3>4, <3>5, <3>6, AppendChains
    <3> QED
      BY <1>2, <1>3, <3>2, <3>4, <3>7
  <2> QED
    BY <2>1, <2>2
<1> QED
  BY <1>5 DEF GroupKeeps, b, fresh

\* Grouping keeps the blocks in order, and all of them but blank ones.
LEMMA GroupBlocksKeeps ==
    ASSUME NEW blocks \in Seq(Blocks), NEW A, Chain(blocks, A)
    PROVE  /\ GroupBlocks(blocks) \in Seq(Seq(Blocks))
           /\ Chains(GroupBlocks(blocks), A)
           /\ Elements(GroupBlocks(blocks)) \subseteq ToSet(blocks)
           /\ \A b \in ToSet(blocks) : Blank(b) \/ b \in Elements(GroupBlocks(blocks))
<1> DEFINE N == Len(blocks)
           g == Grouping(blocks)
           S == {n \in Nat : n <= N => GroupKeeps(g[n], blocks, n, A)}
<1>1. /\ N \in Nat
      /\ \A n \in 0..N : g[n] \in Groups
      /\ g[0] = [segments |-> <<>>, buffer |-> <<>>]
      /\ \A n \in 1..N : g[n] = TakeBlock(g[n - 1], blocks[n])
  BY GroupingSteps
<1> HIDE DEF g
<1>2. 0 \in S
  <2> DEFINE none == Append(<<>>, <<>>)
  <2>1. Append(g[0].segments, g[0].buffer) = none
    BY <1>1
  <2>2. /\ <<>> \in Seq(Seq(Blocks)) /\ <<>> \in Seq(Blocks) /\ Elements(<<>>) = {} /\ Chains(<<>>, A)
    BY DEF Elements, Chains
  <2>3. ToSet(<<>>) = {} /\ Chain(<<>>, A)
    BY SingleChain
  <2>4. Elements(none) = {} /\ Chains(none, A)
    BY <2>2, <2>3, AppendChains, ZenonT(60)
  <2>5. Firsts(blocks, 0) = {}
    BY DEF Firsts
  <2> QED
    BY <2>1, <2>4, <2>5 DEF GroupKeeps
<1>3. ASSUME NEW n \in Nat, n \in S PROVE n + 1 \in S
  <2> SUFFICES ASSUME n + 1 <= N PROVE GroupKeeps(g[n + 1], blocks, n + 1, A)
    OBVIOUS
  <2>1. n \in 0..N /\ n + 1 \in 1..N /\ (n + 1) - 1 = n /\ n <= N
    BY <1>1
  <2>2. GroupKeeps(g[n], blocks, n, A)
    BY <1>3, <2>1
  <2>3. g[n] \in Groups /\ g[n + 1] = TakeBlock(g[n], blocks[n + 1])
    BY <1>1, <2>1
  <2> QED
    BY <2>1, <2>2, <2>3, TakeBlockKeepsAll
<1>4. GroupKeeps(g[N], blocks, N, A)
  <2> HIDE DEF S
  <2>1. Nat \subseteq S
    BY <1>2, <1>3, NatInd
  <2> QED
    BY <1>1, <2>1 DEF S
<1> DEFINE last == g[N]
           all == Append(last.segments, last.buffer)
           yielded == Yielded(last.segments, last.buffer)
<1>5. GroupBlocks(blocks) = yielded
  BY DEF GroupBlocks, g
<1>6. last.segments \in Seq(Seq(Blocks)) /\ last.buffer \in Seq(Blocks)
  BY <1>1 DEF Groups
<1>7. /\ Chains(all, A) /\ Elements(all) \subseteq Firsts(blocks, N)
      /\ \A b \in Firsts(blocks, N) : Blank(b) \/ b \in Elements(all)
  BY <1>4 DEF GroupKeeps
<1> HIDE DEF last
<1>8. /\ yielded \in Seq(Seq(Blocks)) /\ Chains(yielded, A)
      /\ Elements(yielded) \subseteq Elements(all)
      /\ \A b \in Elements(all) : Blank(b) \/ b \in Elements(yielded)
  BY <1>6, <1>7, YieldedKeeps
<1>9. Firsts(blocks, N) = ToSet(blocks)
  BY ToSetIs DEF Firsts
<1> HIDE DEF all, yielded
<1> QED
  BY <1>5, <1>7, <1>8, <1>9

-----------------------------------------------------------------------------
(***************************************************************************)
(* Units in order, and lines apart.                                        *)
(***************************************************************************)

\* Pairs of units of which the first comes first in the document.
Ordered == {p \in Seq(Nat) \X Seq(Nat) : Before(p[1], p[2]) /\ ~Before(p[2], p[1])}

\* Pairs of blocks of which the first comes first, and on another line.
Apart ==
    {p \in Blocks \X Blocks :
        \A u \in ToSet(p[1].text), v \in ToSet(p[2].text) :
            <<u, v>> \in Ordered /\ ~OnOneLine(u, v) /\ ~OnOneLine(v, u)}

\* A block whose units are in order, and on one line.
Whole(b) ==
    /\ Chain(b.text, Ordered)
    /\ \A u, v \in ToSet(b.text) : OnOneLine(u, v)

UnitsIn(blocks) == UNION {ToSet(b.text) : b \in blocks}

\* Segments that hold the units of the document, in order and on their lines.
AllKept(segments) ==
    /\ segments \in Seq(Seq(Blocks))
    /\ Chains(segments, Apart)
    /\ \A b \in Elements(segments) : Whole(b)
    /\ UnitsIn(Elements(segments)) = Units

\* What was delivered of some chains are chains, related to the rest.
LEMMA ChainsPrefix ==
    ASSUME NEW X, NEW d \in Seq(Seq(X)), NEW r \in Seq(Seq(X)), NEW A, Chains(d \o r, A)
    PROVE  /\ Chains(d, A)
           /\ Elements(d \o r) = Elements(d) \cup Elements(r)
           /\ \A x \in Elements(d), y \in Elements(r) : <<x, y>> \in A
<1> DEFINE c == d \o r
<1>1. Len(d) \in Nat /\ Len(r) \in Nat
  OBVIOUS
<1>2. /\ Len(c) = Len(d) + Len(r)
      /\ \A k \in 1..(Len(d) + Len(r)) : c[k] = IF k <= Len(d) THEN d[k] ELSE r[k - Len(d)]
  BY ConcatProperties
<1> HIDE DEF c
<1>3. \A k \in 1..Len(d) : k \in 1..Len(c) /\ c[k] = d[k]
  BY <1>1, <1>2
<1>4. ASSUME NEW k \in 1..Len(r)
      PROVE  k + Len(d) \in 1..Len(c) /\ c[k + Len(d)] = r[k] /\ k + Len(d) > Len(d)
  <2>1. k + Len(d) \in 1..(Len(d) + Len(r)) /\ ~(k + Len(d) <= Len(d)) /\ (k + Len(d)) - Len(d) = k
    BY <1>1
  <2>2. c[k + Len(d)] = r[(k + Len(d)) - Len(d)]
    BY <1>2, <2>1
  <2> QED
    BY <1>1, <1>2, <2>1, <2>2
<1>5. Chains(d, A)
  BY <1>3 DEF Chains, c
<1>6. Elements(c) = Elements(d) \cup Elements(r)
  <2>1. ASSUME NEW k \in 1..Len(c)
        PROVE  \/ k \in 1..Len(d) /\ c[k] = d[k]
               \/ k - Len(d) \in 1..Len(r) /\ c[k] = r[k - Len(d)]
    BY <1>1, <1>2
  <2> QED
    BY <1>3, <1>4, <2>1 DEF Elements
<1>7. ASSUME NEW x \in Elements(d), NEW y \in Elements(r) PROVE <<x, y>> \in A
  <2>1. PICK k \in 1..Len(d) : x \in ToSet(d[k])
    BY DEF Elements
  <2>2. PICK l \in 1..Len(r) : y \in ToSet(r[l])
    BY DEF Elements
  <2> DEFINE m == l + Len(d)
  <2>3. k \in 1..Len(c) /\ m \in 1..Len(c) /\ k < m /\ c[k] = d[k] /\ c[m] = r[l]
    BY <1>1, <1>3, <1>4
  <2> HIDE DEF m
  <2>4. Across(c[k], c[m], A)
    BY <2>3 DEF Chains, c
  <2> QED
    BY <2>1, <2>2, <2>3, <2>4 DEF Across
<1> QED
  BY <1>5, <1>6, <1>7 DEF c

\* What the lines of a text say, one after the other.
LEMMA SaidIsOrdered ==
    ASSUME NEW lines \in Seq(Blocks), Chain(lines, Apart), \A b \in ToSet(lines) : Whole(b)
    PROVE  LET said == FlattenSeq([k \in DOMAIN lines |-> lines[k].text])
           IN /\ said \in Seq(Seq(Nat))
              /\ Chain(said, Ordered)
              /\ ToSet(said) = UnitsIn(ToSet(lines))
<1> DEFINE texts == [k \in DOMAIN lines |-> lines[k].text]
           N == Len(lines)
           U == Seq(Nat)
           O == Ordered
<1>1. /\ N \in Nat /\ DOMAIN lines = 1..N /\ ToSet(lines) = {lines[k] : k \in 1..N}
      /\ \A k \in 1..N : lines[k] \in Blocks
  BY ToSetIs, ElementOfSeq
<1>2. \A k \in 1..N : lines[k].text \in Seq(U)
  BY <1>1 DEF Blocks, Texts
<1>3. texts \in Seq(Seq(U)) /\ Len(texts) = N /\ \A k \in 1..N : texts[k] = lines[k].text
  BY <1>1, <1>2
<1> HIDE DEF texts, N
<1>4. \A k \in 1..N : Chain(texts[k], O)
  BY <1>1, <1>3 DEF Whole
<1>5. ASSUME NEW k \in 1..N, NEW l \in 1..N, k < l PROVE Across(texts[k], texts[l], O)
  <2>1. <<lines[k], lines[l]>> \in Apart
    BY <1>5 DEF Chain, N
  <2>2. \A u \in ToSet(lines[k].text), v \in ToSet(lines[l].text) : <<u, v>> \in O
    BY <2>1 DEF Apart
  <2> QED
    BY <1>3, <2>2 DEF Across
<1>6. Elements(texts) = UnitsIn(ToSet(lines))
  BY <1>1, <1>3 DEF Elements, UnitsIn
<1> HIDE DEF U, O
<1>7. Chains(texts, O)
  BY <1>3, <1>4, <1>5 DEF Chains
<1>8. FlattenSeq(texts) \in Seq(U) /\ Chain(FlattenSeq(texts), O) /\ ToSet(FlattenSeq(texts)) = Elements(texts)
  BY <1>3, <1>7, FlattenChain
<1> QED
  BY <1>6, <1>8 DEF texts, U, O

\* Segments of which all that comes before them was delivered keep the text.
LEMMA DeliveredText ==
    ASSUME SegmentsInOrder, AllKept(SegmentsOf(doc)), outcome = "done" => rest = <<>>
    PROVE  TextIsDelivered /\ LinesAreKept
<1> DEFINE A == Apart
<1>1. /\ delivered \in Seq(Seq(Blocks)) /\ rest \in Seq(Seq(Blocks))
      /\ delivered \o rest = SegmentsOf(doc)
  BY DEF SegmentsInOrder
<1>2. /\ Chains(delivered \o rest, A) /\ \A b \in Elements(delivered \o rest) : Whole(b)
      /\ UnitsIn(Elements(delivered \o rest)) = Units
  BY <1>1 DEF AllKept
<1> HIDE DEF A
<1>3. /\ Chains(delivered, A)
      /\ Elements(delivered \o rest) = Elements(delivered) \cup Elements(rest)
      /\ \A x \in Elements(delivered), y \in Elements(rest) : <<x, y>> \in A
  BY <1>1, <1>2, ChainsPrefix
<1>4. /\ Lines \in Seq(Blocks) /\ Chain(Lines, A) /\ ToSet(Lines) = Elements(delivered)
  BY <1>1, <1>3, FlattenChain DEF Lines
<1>5. /\ Len(Lines) \in Nat /\ DOMAIN Lines = 1..Len(Lines)
      /\ \A k \in 1..Len(Lines) : Lines[k] \in ToSet(Lines)
  <2> DEFINE L == Lines
  <2>1. L \in Seq(Blocks)
    BY <1>4
  <2> HIDE DEF L
  <2>2. Len(L) \in Nat /\ DOMAIN L = 1..Len(L) /\ ToSet(L) = {L[k] : k \in 1..Len(L)}
    BY <2>1, ToSetIs
  <2> QED
    BY <2>2 DEF L
<1>6. \A b \in ToSet(Lines) : Whole(b)
  BY <1>2, <1>3, <1>4
<1>7. Said \in Seq(Seq(Nat)) /\ Chain(Said, Ordered) /\ ToSet(Said) = UnitsIn(Elements(delivered))
  BY <1>4, <1>6, SaidIsOrdered DEF Said, A
<1>8. LinesAreKept
  <2> SUFFICES ASSUME NEW k \in DOMAIN Lines, NEW l \in DOMAIN Lines,
                      NEW u \in ToSet(Lines[k].text), NEW v \in ToSet(Lines[l].text)
               PROVE  OnOneLine(u, v) <=> k = l
    BY DEF LinesAreKept
  <2>1. CASE k = l
    <3>1. Whole(Lines[k])
      BY <1>5, <1>6
    <3> QED
      BY <2>1, <3>1 DEF Whole
  <2>2. CASE k < l
    <3>1. <<Lines[k], Lines[l]>> \in Apart
      BY <1>4, <1>5, <2>2 DEF Chain, A
    <3>2. ~OnOneLine(u, v)
      BY <3>1 DEF Apart
    <3> QED
      BY <1>5, <2>2, <3>2
  <2>3. CASE l < k
    <3>1. <<Lines[l], Lines[k]>> \in Apart
      BY <1>4, <1>5, <2>3 DEF Chain, A
    <3>2. ~OnOneLine(u, v)
      BY <3>1 DEF Apart
    <3> QED
      BY <1>5, <2>3, <3>2
  <2> QED
    BY <1>5, <2>1, <2>2, <2>3
<1>9. ToSet(Said) \subseteq Units
  BY <1>2, <1>3, <1>7 DEF UnitsIn
<1>10. ASSUME NEW j \in DOMAIN Said, NEW k \in DOMAIN Said, j < k PROVE Before(Said[j], Said[k])
  <2>1. DOMAIN Said = 1..Len(Said)
    BY <1>7
  <2>2. <<Said[j], Said[k]>> \in Ordered
    BY <1>7, <1>10, <2>1 DEF Chain
  <2> QED
    BY <2>2 DEF Ordered
<1>11. ASSUME NEW u \in Units, NEW v \in ToSet(Said), Before(u, v) PROVE u \in ToSet(Said)
  <2>1. PICK c \in Elements(delivered) : v \in ToSet(c.text)
    BY <1>7 DEF UnitsIn
  <2>2. PICK b \in Elements(delivered) \cup Elements(rest) : u \in ToSet(b.text)
    BY <1>2, <1>3 DEF UnitsIn
  <2>3. CASE b \in Elements(delivered)
    BY <1>7, <2>2, <2>3 DEF UnitsIn
  <2>4. CASE b \in Elements(rest)
    <3>1. <<c, b>> \in Apart
      BY <1>3, <2>1, <2>4 DEF A
    <3>2. <<v, u>> \in Ordered
      BY <2>1, <2>2, <3>1 DEF Apart
    <3>3. ~Before(u, v)
      BY <3>2 DEF Ordered
    <3> QED
      BY <1>11, <3>3
  <2> QED
    BY <2>3, <2>4
<1>12. ASSUME outcome = "done" PROVE Units = ToSet(Said)
  <2>1. rest = <<>>
    BY <1>12
  <2>2. Elements(rest) = {}
    <3>1. 1..Len(rest) = {}
      BY <2>1
    <3> QED
      BY <3>1 DEF Elements
  <2> QED
    BY <1>2, <1>3, <1>7, <2>2
<1> QED
  BY <1>8, <1>9, <1>10, <1>11, <1>12 DEF TextIsDelivered

-----------------------------------------------------------------------------
(***************************************************************************)
(* Plain text and PDF.                                                     *)
(***************************************************************************)

\* Grouping loses no unit, for blank blocks have none.
LEMMA GroupedIsKept ==
    ASSUME NEW blocks \in Seq(Blocks), Chain(blocks, Apart),
           \A b \in ToSet(blocks) : Whole(b), UnitsIn(ToSet(blocks)) = Units
    PROVE  AllKept(GroupBlocks(blocks))
<1> DEFINE A == Apart
           G == GroupBlocks(blocks)
<1> HIDE DEF A
<1>1. /\ G \in Seq(Seq(Blocks)) /\ Chains(G, A) /\ Elements(G) \subseteq ToSet(blocks)
      /\ \A b \in ToSet(blocks) : Blank(b) \/ b \in Elements(G)
  BY GroupBlocksKeeps DEF A
<1>2. \A b : Blank(b) => ToSet(b.text) = {}
  BY SingleChain DEF Blank
<1> HIDE DEF G
<1>3. UnitsIn(Elements(G)) = UnitsIn(ToSet(blocks))
  BY <1>1, <1>2 DEF UnitsIn
<1> QED
  BY <1>1, <1>3 DEF AllKept, A, G

\* Items of a document that is not a page are apart.
LEMMA PlacesAreApart ==
    ASSUME doc.format # "html", NEW b \in Blocks, NEW c \in Blocks,
           \A u \in ToSet(b.text), v \in ToSet(c.text) :
              u \in Seq(Nat) /\ v \in Seq(Nat) /\ u # <<>> /\ v # <<>> /\ u[1] < v[1]
    PROVE  <<b, c>> \in Apart
<1>1. ASSUME NEW u \in ToSet(b.text), NEW v \in ToSet(c.text)
      PROVE  <<u, v>> \in Ordered /\ ~OnOneLine(u, v) /\ ~OnOneLine(v, u)
  <2>1. u \in Seq(Nat) /\ v \in Seq(Nat) /\ u[1] < v[1] /\ u[1] \in Nat /\ v[1] \in Nat
    BY ElementOfSeq
  <2>2. Before(u, v) /\ ~Before(v, u)
    BY <2>1 DEF Before
  <2>3. ~OnOneLine(u, v) /\ ~OnOneLine(v, u)
    BY <2>1 DEF OnOneLine
  <2> QED
    BY <2>1, <2>2, <2>3 DEF Ordered
<1> QED
  BY <1>1 DEF Apart

\* A block of one unit, or of none, is whole.
LEMMA SmallIsWhole ==
    ASSUME NEW heading, NEW u
    PROVE  /\ Whole(Block(<<>>, heading)) /\ ToSet(Block(<<>>, heading).text) = {}
           /\ Whole(Block(<<u>>, heading)) /\ ToSet(Block(<<u>>, heading).text) = {u}
<1>1. Block(<<>>, heading).text = <<>> /\ Block(<<u>>, heading).text = <<u>>
  BY DEF Block
<1>2. OnOneLine(u, u)
  BY DEF OnOneLine
<1> QED
  BY <1>1, <1>2, SingleChain DEF Whole

\* The places of a sequence that are in a set, in order.
LEMMA PlacesInOrder ==
    ASSUME NEW n \in Nat, NEW S \in SUBSET (1..n)
    PROVE  /\ InOrder(S) \in Seq(S) /\ Len(InOrder(S)) \in Nat
           /\ DOMAIN InOrder(S) = 1..Len(InOrder(S))
           /\ \A k \in 1..Len(InOrder(S)) : InOrder(S)[k] \in S /\ InOrder(S)[k] \in Nat
           /\ S = {InOrder(S)[k] : k \in 1..Len(InOrder(S))}
           /\ \A k, l \in 1..Len(InOrder(S)) : k < l => InOrder(S)[k] < InOrder(S)[l]
<1> DEFINE s == InOrder(S)
<1>1. S \in SUBSET Nat /\ IsFiniteSet(S)
  BY PlacesAreFinite
<1>2. /\ s \in Seq(S)
      /\ \A i \in S : \E k \in 1..Len(s) : s[k] = i
      /\ \A k, l \in 1..Len(s) : k < l => s[k] < s[l]
  BY <1>1, InOrderProperties
<1> HIDE DEF s
<1>3. Len(s) \in Nat /\ DOMAIN s = 1..Len(s) /\ \A k \in 1..Len(s) : s[k] \in S
  BY <1>2, ElementOfSeq
<1> QED
  BY <1>1, <1>2, <1>3 DEF s

\* The units of a plain text, and of a PDF.
LEMMA UnitsOfLines ==
    ASSUME doc.format \in {"text", "pdf"}
    PROVE  Units = {<<i>> : i \in {n \in DOMAIN doc.content : doc.content[n] = "text"}}
<1>1. doc.format # "html" /\ doc.format # "docx"
  OBVIOUS
<1>2. Units = Items({"text"})
  BY <1>1, Zenon DEF Units
<1> QED
  BY <1>2 DEF Items

\* Plain text.
LEMMA TextIsKept ==
    ASSUME doc.format = "text", NEW S, doc.content \in Seq(S)
    PROVE  AllKept(GroupBlocks(TextBlocks(doc.content)))
<1> DEFINE lines == doc.content
           text(i) == IF lines[i] = "text" THEN <<<<i>>>> ELSE <<>>
           blocks == TextBlocks(lines)
           N == Len(lines)
<1>1. N \in Nat /\ DOMAIN lines = 1..N
  OBVIOUS
<1>2. blocks \in Seq(Blocks) /\ Len(blocks) = N /\ \A i \in 1..N : blocks[i] = Block(text(i), FALSE)
  <2>1. blocks \in Seq(Blocks)
    BY TextBlocksType
  <2>2. blocks = [i \in 1..N |-> Block(text(i), FALSE)]
    BY <1>1 DEF TextBlocks
  <2> HIDE DEF text, blocks, N
  <2>3. DOMAIN blocks = 1..N /\ \A i \in 1..N : blocks[i] = Block(text(i), FALSE)
    BY <2>2, Zenon
  <2>4. Len(blocks) = N
    BY <1>1, <2>1, <2>3
  <2> QED
    BY <2>1, <2>3, <2>4
<1> HIDE DEF blocks, N
<1>3. ASSUME NEW i \in 1..N
      PROVE  /\ Whole(blocks[i])
             /\ ToSet(blocks[i].text) = IF lines[i] = "text" THEN {<<i>>} ELSE {}
  <2>1. CASE lines[i] = "text"
    <3>1. blocks[i] = Block(<<<<i>>>>, FALSE)
      BY <1>2, <2>1
    <3> QED
      BY <2>1, <3>1, SmallIsWhole, ZenonT(60)
  <2>2. CASE lines[i] # "text"
    <3>1. blocks[i] = Block(<<>>, FALSE)
      BY <1>2, <2>2
    <3> QED
      BY <2>2, <3>1, SmallIsWhole, ZenonT(60)
  <2> QED
    BY <2>1, <2>2
<1> HIDE DEF text
<1>4. ToSet(blocks) = {blocks[i] : i \in 1..N}
  BY <1>2, ToSetIs
<1>5. Chain(blocks, Apart)
  <2> SUFFICES ASSUME NEW i \in 1..N, NEW j \in 1..N, i < j PROVE <<blocks[i], blocks[j]>> \in Apart
    BY <1>2 DEF Chain
  <2>1. blocks[i] \in Blocks /\ blocks[j] \in Blocks
    BY <1>2, ElementOfSeq
  <2>2. \A u \in ToSet(blocks[i].text), v \in ToSet(blocks[j].text) : u = <<i>> /\ v = <<j>>
    BY <1>3
  <2>3. <<i>> \in Seq(Nat) /\ <<j>> \in Seq(Nat) /\ <<i>> # <<>> /\ <<j>> # <<>> /\ <<i>>[1] < <<j>>[1]
    BY <1>1
  <2> QED
    BY <2>1, <2>2, <2>3, PlacesAreApart
<1>6. UnitsIn(ToSet(blocks)) = Units
  <2>1. Units = {<<i>> : i \in {n \in 1..N : lines[n] = "text"}}
    BY <1>1, UnitsOfLines
  <2>2. UnitsIn(ToSet(blocks)) = UNION {ToSet(blocks[i].text) : i \in 1..N}
    BY <1>4 DEF UnitsIn
  <2>3. \A i \in 1..N : ToSet(blocks[i].text) = IF lines[i] = "text" THEN {<<i>>} ELSE {}
    BY <1>3
  <2> DEFINE words(i) == ToSet(blocks[i].text)
             unit(i) == <<i>>
  <2> HIDE DEF words, unit
  <2>4. \A i \in 1..N : words(i) = IF lines[i] = "text" THEN {unit(i)} ELSE {}
    BY <2>3 DEF words, unit
  <2>5. UNION {words(i) : i \in 1..N} = {unit(i) : i \in {n \in 1..N : lines[n] = "text"}}
    BY <2>4
  <2> QED
    BY <2>1, <2>2, <2>5 DEF words, unit
<1> QED
  BY <1>2, <1>3, <1>4, <1>5, <1>6, GroupedIsKept DEF blocks

\* PDF.
LEMMA PdfIsKept ==
    ASSUME doc.format = "pdf", NEW S, doc.content \in Seq(S)
    PROVE  AllKept(PdfSegments(doc.content))
<1> DEFINE pages == doc.content
           W == {n \in DOMAIN pages : pages[n] = "text"}
           read == InOrder(W)
           line(n) == Block(<<<<read[n]>>>>, FALSE)
           segments == PdfSegments(pages)
           N == Len(read)
<1>1. /\ N \in Nat /\ DOMAIN read = 1..N
      /\ \A j, k \in 1..N : j < k => read[j] < read[k]
      /\ \A k \in 1..N : read[k] \in Nat
      /\ W = {read[k] : k \in 1..N}
  <2>1. Len(pages) \in Nat /\ DOMAIN pages = 1..Len(pages)
    OBVIOUS
  <2>2. W \in SUBSET (1..Len(pages))
    BY <2>1
  <2> DEFINE M == Len(pages)
  <2> HIDE DEF W, M
  <2>3. M \in Nat /\ W \in SUBSET (1..M)
    BY <2>1, <2>2 DEF M
  <2> QED
    BY <2>3, PlacesInOrder
<1>2. segments \in Seq(Seq(Blocks)) /\ Len(segments) = N /\ \A n \in 1..N : segments[n] = <<line(n)>>
  <2>1. segments \in Seq(Seq(Blocks))
    BY PdfSegmentsType
  <2>2. segments = [n \in DOMAIN read |-> <<line(n)>>]
    BY DEF PdfSegments
  <2> HIDE DEF line, read
  <2> QED
    BY <1>1, <2>1, <2>2
<1> HIDE DEF read, segments, W, N
<1>3. ASSUME NEW n \in 1..N
      PROVE  /\ line(n) \in Blocks /\ Whole(line(n)) /\ ToSet(line(n).text) = {<<read[n]>>}
             /\ read[n] \in Nat /\ ToSet(segments[n]) = {line(n)} /\ Chain(segments[n], Apart)
  <2> DEFINE page == read[n]
             block == Block(<<<<page>>>>, FALSE)
  <2>1. page \in Nat
    BY <1>1
  <2> HIDE DEF page
  <2>2. block \in Blocks
    BY <2>1, UnitIsText, BlockType
  <2>3. Whole(block) /\ ToSet(block.text) = {<<page>>}
    BY SmallIsWhole
  <2>4. line(n) = block /\ segments[n] = <<line(n)>>
    BY <1>2 DEF page
  <2> HIDE DEF block, line
  <2>5. ToSet(<<block>>) = {block} /\ Chain(<<block>>, Apart)
    BY SingleChain
  <2> QED
    BY <2>1, <2>2, <2>3, <2>4, <2>5 DEF page
<1> HIDE DEF line
<1>4. Chains(segments, Apart)
  <2>1. ASSUME NEW j \in 1..N, NEW k \in 1..N, j < k PROVE Across(segments[j], segments[k], Apart)
    <3>1. read[j] < read[k]
      BY <1>1, <2>1
    <3>2. /\ <<read[j]>> \in Seq(Nat) /\ <<read[k]>> \in Seq(Nat) /\ <<read[j]>> # <<>> /\ <<read[k]>> # <<>>
          /\ <<read[j]>>[1] < <<read[k]>>[1]
      BY <1>3, <3>1
    <3>3. <<line(j), line(k)>> \in Apart
      BY <1>3, <3>2, PlacesAreApart
    <3> QED
      BY <1>3, <3>3 DEF Across
  <2> QED
    BY <1>2, <1>3, <2>1 DEF Chains
<1>5. Elements(segments) = {line(n) : n \in 1..N}
  BY <1>2, <1>3 DEF Elements
<1>6. UnitsIn(Elements(segments)) = Units
  <2>1. UnitsIn(Elements(segments)) = {<<read[n]>> : n \in 1..N}
    BY <1>3, <1>5 DEF UnitsIn
  <2>2. W = {read[n] : n \in 1..N}
    BY <1>1
  <2>3. Units = {<<i>> : i \in W}
    BY UnitsOfLines DEF W
  <2> QED
    BY <2>1, <2>2, <2>3
<1> QED
  BY <1>2, <1>3, <1>4, <1>5, <1>6 DEF AllKept, segments

-----------------------------------------------------------------------------
(***************************************************************************)
(* The cells of a table.                                                   *)
(***************************************************************************)

\* The least of a set of numbers.
LEMMA MinIs ==
    ASSUME NEW S \in SUBSET Nat, S # {}
    PROVE  Min(S) \in S /\ \A x \in S : Min(S) <= x
<1>1. PICK x \in S : \A y \in S : ~(<<y, x>> \in OpToRel(<, Nat))
  BY NatLessThanWellFounded, WFMin
<1>2. \A y \in S : x <= y
  <2> SUFFICES ASSUME NEW y \in S, ~(x <= y) PROVE FALSE
    OBVIOUS
  <2>1. y \in Nat /\ x \in Nat /\ y < x
    OBVIOUS
  <2>2. <<y, x>> \in OpToRel(<, Nat)
    BY <2>1 DEF OpToRel
  <2> QED
    BY <1>1, <2>2
<1> QED
  BY <1>1, <1>2 DEF Min

\* A number of the set below which there is none is the least.
LEMMA MinIsLeast ==
    ASSUME NEW S \in SUBSET Nat, NEW x \in S, \A y \in S : x <= y
    PROVE  Min(S) = x
<1>1. Min(S) \in S /\ Min(S) <= x
  BY MinIs
<1> DEFINE m == Min(S)
<1> HIDE DEF m
<1>2. m \in S /\ m <= x
  BY <1>1 DEF m
<1>3. x <= m /\ m \in Nat /\ x \in Nat
  BY <1>2
<1>4. m = x
  BY <1>2, <1>3
<1> QED
  BY <1>4 DEF m

Cells(rows) == (UNION {ToSet(row) : row \in ToSet(rows)}) \ {EmptyCell}

RowsHaving(rows, c) == {q \in DOMAIN rows : c \in ToSet(rows[q])}
ColumnsHaving(row, c) == {k \in DOMAIN row : row[k] = c}

\* A table, its rows and the places of its cells.
LEMMA TableIs ==
    ASSUME NEW rows \in Seq(Seq(Nat))
    PROVE  /\ Len(rows) \in Nat /\ DOMAIN rows = 1..Len(rows)
           /\ \A r \in DOMAIN rows :
                 /\ rows[r] \in Seq(Nat) /\ Len(rows[r]) \in Nat
                 /\ DOMAIN rows[r] = 1..Len(rows[r])
                 /\ \A k \in DOMAIN rows[r] : rows[r][k] \in Nat
<1>1. Len(rows) \in Nat /\ DOMAIN rows = 1..Len(rows)
  OBVIOUS
<1>2. ASSUME NEW r \in DOMAIN rows
      PROVE  /\ rows[r] \in Seq(Nat) /\ Len(rows[r]) \in Nat
             /\ DOMAIN rows[r] = 1..Len(rows[r])
             /\ \A k \in DOMAIN rows[r] : rows[r][k] \in Nat
  <2> DEFINE row == rows[r]
  <2>1. row \in Seq(Nat)
    BY <1>1, ElementOfSeq
  <2> HIDE DEF row
  <2>2. Len(row) \in Nat /\ DOMAIN row = 1..Len(row) /\ \A k \in DOMAIN row : row[k] \in Nat
    BY <2>1, ElementOfSeq
  <2> QED
    BY <2>1, <2>2 DEF row
<1> QED
  BY <1>1, <1>2

\* A cell is written at the first place where it stands in its table.
LEMMA WrittenIsFirst ==
    ASSUME NEW rows \in Seq(Seq(Nat)), NEW r \in DOMAIN rows, NEW k \in DOMAIN rows[r]
    PROVE  k \in Written(rows, r) <=>
              /\ rows[r][k] # EmptyCell
              /\ r = Min(RowsHaving(rows, rows[r][k]))
              /\ k = Min(ColumnsHaving(rows[r], rows[r][k]))
<1> DEFINE row == rows[r]
           c == rows[r][k]
           Q == RowsHaving(rows, c)
           K == ColumnsHaving(row, c)
<1>1. /\ DOMAIN rows = 1..Len(rows) /\ Len(rows) \in Nat
      /\ DOMAIN row = 1..Len(row) /\ Len(row) \in Nat /\ k \in Nat /\ r \in Nat
  BY TableIs
<1>2. Q \in SUBSET Nat /\ r \in Q /\ K \in SUBSET Nat /\ k \in K
  <2>1. c \in ToSet(row)
    BY DEF ToSet
  <2> QED
    BY <1>1, <2>1 DEF RowsHaving, ColumnsHaving
<1>3. c \in Seen(rows, r, k) <=> (\E q \in Q : q < r) \/ (\E j \in K : j < k)
  <2> DEFINE before == UNION {ToSet(rows[q]) : q \in 1..(r - 1)}
             left == {rows[r][j] : j \in 1..(k - 1)}
  <2>2. Seen(rows, r, k) = before \cup left
    BY DEF Seen
  <2>3. \A x : x \in before <=> \E q \in 1..(r - 1) : x \in ToSet(rows[q])
    OBVIOUS
  <2>4. \A x : x \in left <=> \E j \in 1..(k - 1) : rows[r][j] = x
    OBVIOUS
  <2> HIDE DEF before, left, c
  <2>5. c \in Seen(rows, r, k) <=>
           (\E q \in 1..(r - 1) : c \in ToSet(rows[q])) \/ (\E j \in 1..(k - 1) : row[j] = c)
    BY <2>2, <2>3, <2>4
  <2>6. \A q : q \in 1..(r - 1) <=> q \in DOMAIN rows /\ q < r
    BY <1>1
  <2>7. \A j : j \in 1..(k - 1) <=> j \in DOMAIN row /\ j < k
    BY <1>1
  <2> QED
    BY <2>5, <2>6, <2>7 DEF RowsHaving, ColumnsHaving
<1>4. k \in Written(rows, r) <=> c # EmptyCell /\ c \notin Seen(rows, r, k)
  BY DEF Written
<1> HIDE DEF Q, K, c, row
<1>5. (\E q \in Q : q < r) <=> r # Min(Q)
  <2> DEFINE m == Min(Q)
  <2>1. m \in Q /\ \A q \in Q : m <= q
    BY <1>2, MinIs
  <2> HIDE DEF m
  <2>2. m \in Nat /\ r \in Nat /\ m <= r
    BY <1>1, <1>2, <2>1
  <2>3. (\E q \in Q : q < r) => m # r
    BY <1>2, <2>1, <2>2
  <2>4. m # r => m < r
    BY <2>2
  <2> QED
    BY <2>1, <2>3, <2>4 DEF m
<1>6. (\E j \in K : j < k) <=> k # Min(K)
  <2> DEFINE m == Min(K)
  <2>1. m \in K /\ \A j \in K : m <= j
    BY <1>2, MinIs
  <2> HIDE DEF m
  <2>2. m \in Nat /\ k \in Nat /\ m <= k
    BY <1>1, <1>2, <2>1
  <2>3. (\E j \in K : j < k) => m # k
    BY <1>2, <2>1, <2>2
  <2>4. m # k => m < k
    BY <2>2
  <2> QED
    BY <2>1, <2>3, <2>4 DEF m
<1>7. k \in Written(rows, r) <=> c # EmptyCell /\ r = Min(Q) /\ k = Min(K)
  BY <1>3, <1>4, <1>5, <1>6
<1> QED
  BY <1>7 DEF Q, K, c, row

\* The place of a unit of a table is where its cell is written, and every cell
\* that has text is written.
LEMMA CellsAreWritten ==
    ASSUME NEW rows \in Seq(Seq(Nat)), NEW i, doc.content[i].rows = rows
    PROVE  /\ \A r \in DOMAIN rows : \A k \in Written(rows, r) :
                 /\ k \in DOMAIN rows[r] /\ rows[r][k] \in Cells(rows)
                 /\ FirstRow(<<i, rows[r][k]>>) = r /\ FirstColumn(<<i, rows[r][k]>>) = k
           /\ \A c \in Cells(rows) : \E r \in DOMAIN rows : \E k \in Written(rows, r) : rows[r][k] = c
<1>1. ASSUME NEW r \in DOMAIN rows, NEW k \in Written(rows, r)
      PROVE  /\ k \in DOMAIN rows[r] /\ rows[r][k] \in Cells(rows)
             /\ FirstRow(<<i, rows[r][k]>>) = r /\ FirstColumn(<<i, rows[r][k]>>) = k
  <2> DEFINE c == rows[r][k]
             u == <<i, c>>
  <2>1. k \in DOMAIN rows[r]
    BY DEF Written
  <2>2. c # EmptyCell /\ r = Min(RowsHaving(rows, c)) /\ k = Min(ColumnsHaving(rows[r], c))
    BY <2>1, WrittenIsFirst
  <2>3. c \in Cells(rows)
    <3>1. rows[r] \in ToSet(rows)
      BY DEF ToSet
    <3>2. c \in ToSet(rows[r])
      BY <2>1 DEF ToSet
    <3> HIDE DEF c
    <3> QED
      BY <2>2, <3>1, <3>2 DEF Cells
  <2>4. u[1] = i /\ u[2] = c
    OBVIOUS
  <2> HIDE DEF u, c
  <2>5. FirstRow(u) = r
    BY <2>2, <2>4 DEF FirstRow, RowsHaving
  <2>6. FirstColumn(u) = k
    BY <2>2, <2>4, <2>5 DEF FirstColumn, ColumnsHaving
  <2> QED
    BY <2>1, <2>3, <2>5, <2>6 DEF u, c
<1>2. ASSUME NEW c \in Cells(rows)
      PROVE  \E r \in DOMAIN rows : \E k \in Written(rows, r) : rows[r][k] = c
  <2> DEFINE Q == RowsHaving(rows, c)
             r == Min(Q)
             K == ColumnsHaving(rows[r], c)
             k == Min(K)
  <2>1. DOMAIN rows = 1..Len(rows) /\ Len(rows) \in Nat
    BY TableIs
  <2>2. Q # {} /\ Q \in SUBSET Nat
    <3>1. PICK q \in DOMAIN rows : c \in ToSet(rows[q])
      BY DEF Cells, ToSet
    <3> QED
      BY <2>1, <3>1 DEF RowsHaving
  <2> HIDE DEF Q
  <2>3. r \in Q
    BY <2>2, MinIs
  <2> HIDE DEF r
  <2>4. r \in DOMAIN rows /\ c \in ToSet(rows[r])
    BY <2>3 DEF Q, RowsHaving
  <2>5. DOMAIN rows[r] = 1..Len(rows[r]) /\ Len(rows[r]) \in Nat
    BY <2>4, TableIs
  <2>6. K # {} /\ K \in SUBSET Nat
    BY <2>4, <2>5 DEF ColumnsHaving, ToSet
  <2> HIDE DEF K
  <2>7. k \in K
    BY <2>6, MinIs
  <2> HIDE DEF k
  <2>8. k \in DOMAIN rows[r] /\ rows[r][k] = c
    BY <2>7 DEF K, ColumnsHaving
  <2>9. c # EmptyCell
    BY DEF Cells
  <2>10. k \in Written(rows, r)
    BY <2>4, <2>8, <2>9, WrittenIsFirst DEF k, r, K, Q
  <2> QED
    BY <2>4, <2>8, <2>10
<1> QED
  BY <1>1, <1>2

\* Blocks that hold these units, in order and on their lines.
BlocksKeep(blocks, units) ==
    /\ blocks \in Seq(Blocks)
    /\ Chain(blocks, Apart)
    /\ \A b \in ToSet(blocks) : Whole(b)
    /\ UnitsIn(ToSet(blocks)) = units

\* Cells come in the order of the places where they stand first.
LEMMA CellsInOrder ==
    ASSUME doc.format = "docx", NEW i \in Nat, NEW c \in Nat, NEW e \in Nat
    PROVE  LET u == <<i, c>>
               v == <<i, e>>
               r == FirstRow(u)
               q == FirstRow(v)
           IN r \in Nat /\ q \in Nat
              /\ FirstColumn(u) \in Nat /\ FirstColumn(v) \in Nat
              => /\ OnOneLine(u, v) <=> r = q
                 /\ r < q \/ (r = q /\ FirstColumn(u) < FirstColumn(v)) => <<u, v>> \in Ordered
<1> DEFINE u == <<i, c>>
           v == <<i, e>>
           r == FirstRow(u)
           q == FirstRow(v)
           k == FirstColumn(u)
           l == FirstColumn(v)
<1>1. u \in Seq(Nat) /\ v \in Seq(Nat) /\ u[1] = i /\ v[1] = i /\ Len(u) = 2 /\ Len(v) = 2
  OBVIOUS
<1> HIDE DEF u, v
<1>2. OnOneLine(u, v) <=> r = q
  <2>1. u = v => r = q
    OBVIOUS
  <2>2. doc.format # "html"
    OBVIOUS
  <2> QED
    BY <1>1, <2>1, <2>2 DEF OnOneLine
<1>3. Before(u, v) <=> r < q \/ (r = q /\ k < l)
  BY <1>1 DEF Before
<1>4. Before(v, u) <=> q < r \/ (q = r /\ l < k)
  BY <1>1 DEF Before
<1> HIDE DEF r, q, k, l
<1>5. r \in Nat /\ q \in Nat /\ k \in Nat /\ l \in Nat /\ (r < q \/ (r = q /\ k < l))
         => Before(u, v) /\ ~Before(v, u)
  BY <1>3, <1>4
<1>6. r \in Nat /\ q \in Nat /\ k \in Nat /\ l \in Nat /\ (r < q \/ (r = q /\ k < l)) => <<u, v>> \in Ordered
  BY <1>1, <1>5 DEF Ordered
<1> QED
  BY <1>2, <1>6 DEF u, v, r, q, k, l

\* The block of a row keeps its cells, in order and on one line.
LEMMA RowIsKept ==
    ASSUME doc.format = "docx", NEW rows \in Seq(Seq(Nat)), NEW i \in Nat, doc.content[i].rows = rows,
           NEW r \in DOMAIN rows
    PROVE  /\ Whole(RowBlock(rows, r, i))
           /\ ToSet(RowBlock(rows, r, i).text) = {<<i, rows[r][k]>> : k \in Written(rows, r)}
<1> DEFINE row == rows[r]
           W == Written(rows, r)
           places == InOrder(W)
           N == Len(places)
           unit(n) == <<i, row[places[n]]>>
           text == [n \in DOMAIN places |-> unit(n)]
<1>0. /\ \A r2 \in DOMAIN rows : \A k \in Written(rows, r2) :
            /\ k \in DOMAIN rows[r2] /\ rows[r2][k] \in Cells(rows)
            /\ FirstRow(<<i, rows[r2][k]>>) = r2 /\ FirstColumn(<<i, rows[r2][k]>>) = k
      /\ \A c \in Cells(rows) : \E r2 \in DOMAIN rows : \E k \in Written(rows, r2) : rows[r2][k] = c
  BY CellsAreWritten
<1>1. row \in Seq(Nat) /\ Len(row) \in Nat /\ DOMAIN row = 1..Len(row) /\ DOMAIN rows \subseteq Nat
  BY TableIs
<1>2. W \in SUBSET (1..Len(row))
  BY <1>1 DEF Written
<1>3. /\ N \in Nat /\ DOMAIN places = 1..N
      /\ \A n \in 1..N : places[n] \in W /\ places[n] \in Nat
      /\ W = {places[n] : n \in 1..N}
      /\ \A n, m \in 1..N : n < m => places[n] < places[m]
  <2> DEFINE width == Len(row)
             S == W
  <2>1. width \in Nat /\ S \in SUBSET (1..width)
    BY <1>1, <1>2
  <2> HIDE DEF width, S
  <2>2. /\ InOrder(S) \in Seq(S) /\ Len(InOrder(S)) \in Nat
        /\ DOMAIN InOrder(S) = 1..Len(InOrder(S))
        /\ \A k \in 1..Len(InOrder(S)) : InOrder(S)[k] \in S /\ InOrder(S)[k] \in Nat
        /\ S = {InOrder(S)[k] : k \in 1..Len(InOrder(S))}
        /\ \A k, l \in 1..Len(InOrder(S)) : k < l => InOrder(S)[k] < InOrder(S)[l]
    BY <2>1, PlacesInOrder
  <2> QED
    BY <2>2 DEF S
<1>4. RowBlock(rows, r, i).text = text
  BY DEF RowBlock, Block
<1>5. \A k \in W : row[k] \in Nat /\ FirstRow(<<i, row[k]>>) = r /\ FirstColumn(<<i, row[k]>>) = k
  <2>1. \A k \in W : k \in DOMAIN row /\ FirstRow(<<i, row[k]>>) = r /\ FirstColumn(<<i, row[k]>>) = k
    BY <1>0
  <2> QED
    BY <1>1, <2>1, ElementOfSeq
<1> HIDE DEF W, places, N
<1>6. Len(text) = N /\ \A n \in 1..N : text[n] = unit(n)
  <2>1. text = [n \in 1..N |-> unit(n)]
    BY <1>3
  <2> HIDE DEF unit, text
  <2>2. text \in Seq({unit(n) : n \in 1..N})
    <3>1. \A n \in 1..N : unit(n) \in {unit(n2) : n2 \in 1..N}
      OBVIOUS
    <3> DEFINE X == {unit(n2) : n2 \in 1..N}
    <3>2. \A n \in 1..N : unit(n) \in X
      BY <3>1
    <3> HIDE DEF X
    <3>3. text \in Seq(X)
      BY <1>3, <2>1, <3>2
    <3> QED
      BY <3>3 DEF X
  <2>3. DOMAIN text = 1..N /\ \A n \in 1..N : text[n] = unit(n)
    BY <2>1, Zenon
  <2> QED
    BY <1>3, <2>2, <2>3
<1>7. ToSet(text) = {unit(n) : n \in 1..N}
  BY <1>3 DEF ToSet
<1>8. ASSUME NEW n \in 1..N
      PROVE  /\ places[n] \in Nat /\ row[places[n]] \in Nat
             /\ FirstRow(unit(n)) = r /\ FirstColumn(unit(n)) = places[n]
  BY <1>3, <1>5
<1>9. ASSUME NEW n \in 1..N, NEW m \in 1..N
      PROVE  /\ OnOneLine(unit(n), unit(m))
             /\ n < m => <<unit(n), unit(m)>> \in Ordered
  <2> DEFINE c == row[places[n]]
             e == row[places[m]]
  <2>1. /\ c \in Nat /\ FirstRow(<<i, c>>) = r /\ FirstColumn(<<i, c>>) = places[n] /\ places[n] \in Nat
        /\ e \in Nat /\ FirstRow(<<i, e>>) = r /\ FirstColumn(<<i, e>>) = places[m] /\ places[m] \in Nat
        /\ r \in Nat
    BY <1>1, <1>8
  <2>2. n < m => places[n] < places[m]
    BY <1>3
  <2> HIDE DEF c, e
  <2>3. /\ OnOneLine(<<i, c>>, <<i, e>>)
        /\ n < m => <<<<i, c>>, <<i, e>>>> \in Ordered
    BY <2>1, <2>2, CellsInOrder
  <2> QED
    BY <2>3 DEF c, e
<1> HIDE DEF text
<1>10. Chain(text, Ordered)
  BY <1>6, <1>9 DEF Chain
<1>11. \A u, v \in ToSet(text) : OnOneLine(u, v)
  BY <1>7, <1>9
<1>12. ToSet(text) = {<<i, row[k]>> : k \in W}
  BY <1>3, <1>7
<1> QED
  BY <1>4, <1>10, <1>11, <1>12 DEF Whole, W

\* The rows of a table keep its cells.
LEMMA TableIsKept ==
    ASSUME doc.format = "docx", NEW rows \in Seq(Seq(Nat)), NEW i \in Nat, doc.content[i].rows = rows
    PROVE  BlocksKeep(TableRows(rows, i), {<<i, c>> : c \in Cells(rows)})
<1> DEFINE T == TableRows(rows, i)
           block(r) == RowBlock(rows, r, i)
           W == {r \in DOMAIN rows : Written(rows, r) # {}}
           lines == InOrder(W)
           N == Len(lines)
<1>0. /\ \A r2 \in DOMAIN rows : \A k \in Written(rows, r2) :
            /\ k \in DOMAIN rows[r2] /\ rows[r2][k] \in Cells(rows)
            /\ FirstRow(<<i, rows[r2][k]>>) = r2 /\ FirstColumn(<<i, rows[r2][k]>>) = k
      /\ \A c \in Cells(rows) : \E r2 \in DOMAIN rows : \E k \in Written(rows, r2) : rows[r2][k] = c
  BY CellsAreWritten
<1>1. /\ Len(rows) \in Nat /\ DOMAIN rows = 1..Len(rows)
  BY TableIs
<1>2. /\ N \in Nat /\ DOMAIN lines = 1..N
      /\ \A n \in 1..N : lines[n] \in W /\ lines[n] \in Nat
      /\ W = {lines[n] : n \in 1..N}
      /\ \A n, m \in 1..N : n < m => lines[n] < lines[m]
  <2> DEFINE height == Len(rows)
             S == W
  <2>1. height \in Nat /\ S \in SUBSET (1..height)
    BY <1>1
  <2> HIDE DEF height, S
  <2>2. /\ InOrder(S) \in Seq(S) /\ Len(InOrder(S)) \in Nat
        /\ DOMAIN InOrder(S) = 1..Len(InOrder(S))
        /\ \A k \in 1..Len(InOrder(S)) : InOrder(S)[k] \in S /\ InOrder(S)[k] \in Nat
        /\ S = {InOrder(S)[k] : k \in 1..Len(InOrder(S))}
        /\ \A k, l \in 1..Len(InOrder(S)) : k < l => InOrder(S)[k] < InOrder(S)[l]
    BY <2>1, PlacesInOrder
  <2> QED
    BY <2>2 DEF S
<1>3. T \in Seq(Blocks)
  BY TableRowsType
<1>4. T = [n \in DOMAIN lines |-> block(lines[n])]
  BY DEF TableRows
<1>5. W \subseteq DOMAIN rows /\ \A r \in DOMAIN rows : r \notin W => Written(rows, r) = {}
  OBVIOUS
<1> HIDE DEF T, W, lines, N
<1>6. Len(T) = N /\ \A n \in 1..N : T[n] = block(lines[n])
  <2> HIDE DEF block
  <2>1. DOMAIN T = 1..N /\ \A n \in 1..N : T[n] = block(lines[n])
    BY <1>2, <1>4
  <2> QED
    BY <1>2, <1>3, <2>1
<1>7. ToSet(T) = {T[n] : n \in 1..N} /\ \A n \in 1..N : T[n] \in Blocks
  BY <1>3, <1>6, ToSetIs, ElementOfSeq
<1>8. ASSUME NEW r \in DOMAIN rows
      PROVE  /\ Whole(block(r))
             /\ \A u : u \in ToSet(block(r).text) <=> \E k \in Written(rows, r) : u = <<i, rows[r][k]>>
  <2>1. Whole(block(r)) /\ ToSet(block(r).text) = {<<i, rows[r][k]>> : k \in Written(rows, r)}
    BY RowIsKept
  <2> HIDE DEF block
  <2> QED
    BY <2>1
<1>9. ASSUME NEW r \in DOMAIN rows, NEW k \in Written(rows, r)
      PROVE  /\ rows[r][k] \in Nat /\ r \in Nat /\ k \in Nat
             /\ FirstRow(<<i, rows[r][k]>>) = r /\ FirstColumn(<<i, rows[r][k]>>) = k
             /\ rows[r][k] \in Cells(rows)
  <2>1. /\ k \in DOMAIN rows[r] /\ rows[r][k] \in Cells(rows)
        /\ FirstRow(<<i, rows[r][k]>>) = r /\ FirstColumn(<<i, rows[r][k]>>) = k
    BY <1>0
  <2>2. rows[r][k] \in Nat /\ r \in Nat /\ k \in Nat
    BY <2>1, TableIs
  <2> QED
    BY <2>1, <2>2
<1> HIDE DEF block
<1>10. Chain(T, Apart)
  <2> SUFFICES ASSUME NEW n \in 1..N, NEW m \in 1..N, n < m PROVE <<T[n], T[m]>> \in Apart
    BY <1>6 DEF Chain
  <2> DEFINE r == lines[n]
             q == lines[m]
  <2>1. r \in DOMAIN rows /\ q \in DOMAIN rows /\ r < q
    BY <1>2, <1>5
  <2>2. T[n] = block(r) /\ T[m] = block(q)
    BY <1>6
  <2> HIDE DEF r, q
  <2>3. ASSUME NEW u \in ToSet(block(r).text), NEW v \in ToSet(block(q).text)
        PROVE  <<u, v>> \in Ordered /\ ~OnOneLine(u, v) /\ ~OnOneLine(v, u)
    <3>8. \A x : x \in ToSet(block(r).text) <=> \E k \in Written(rows, r) : x = <<i, rows[r][k]>>
      BY <1>8, <2>1
    <3>9. \A x : x \in ToSet(block(q).text) <=> \E k \in Written(rows, q) : x = <<i, rows[q][k]>>
      BY <1>8, <2>1
    <3>1. PICK k \in Written(rows, r) : u = <<i, rows[r][k]>>
      BY <3>8
    <3>2. PICK l \in Written(rows, q) : v = <<i, rows[q][l]>>
      BY <3>9
    <3> DEFINE c == rows[r][k]
               e == rows[q][l]
    <3>3. /\ c \in Nat /\ r \in Nat /\ k \in Nat /\ FirstRow(<<i, c>>) = r /\ FirstColumn(<<i, c>>) = k
          /\ e \in Nat /\ q \in Nat /\ l \in Nat /\ FirstRow(<<i, e>>) = q /\ FirstColumn(<<i, e>>) = l
      BY <1>9, <2>1
    <3>4. u = <<i, c>> /\ v = <<i, e>>
      BY <3>1, <3>2
    <3> HIDE DEF c, e
    <3>5. /\ OnOneLine(<<i, c>>, <<i, e>>) <=> r = q
          /\ r < q => <<<<i, c>>, <<i, e>>>> \in Ordered
      BY <3>3, CellsInOrder, ZenonT(60)
    <3>6. OnOneLine(<<i, e>>, <<i, c>>) <=> q = r
      BY <3>3, CellsInOrder, ZenonT(60)
    <3>7. r # q
      BY <2>1, <3>3
    <3> QED
      BY <2>1, <3>4, <3>5, <3>6, <3>7
  <2>4. block(r) \in Blocks /\ block(q) \in Blocks
    BY <1>7, <2>2
  <2> QED
    BY <2>2, <2>3, <2>4 DEF Apart
<1>11. \A b \in ToSet(T) : Whole(b)
  <2>1. \A n \in 1..N : lines[n] \in DOMAIN rows
    BY <1>2, <1>5
  <2>2. \A n \in 1..N : Whole(block(lines[n]))
    BY <1>8, <2>1, Zenon
  <2> QED
    BY <1>6, <1>7, <2>2
<1>12. UnitsIn(ToSet(T)) = {<<i, c>> : c \in Cells(rows)}
  <2>1. ASSUME NEW u \in UnitsIn(ToSet(T)) PROVE u \in {<<i, c>> : c \in Cells(rows)}
    <3>1. PICK n \in 1..N : u \in ToSet(T[n].text)
      BY <1>7 DEF UnitsIn
    <3>2. lines[n] \in DOMAIN rows /\ u \in ToSet(block(lines[n]).text)
      BY <1>2, <1>5, <1>6, <3>1
    <3>3. PICK k \in Written(rows, lines[n]) : u = <<i, rows[lines[n]][k]>>
      <4>1. \A x : x \in ToSet(block(lines[n]).text)
                      <=> \E k \in Written(rows, lines[n]) : x = <<i, rows[lines[n]][k]>>
        BY <1>8, <3>2
      <4> QED
        BY <3>2, <4>1
    <3> QED
      BY <1>9, <3>2, <3>3
  <2>2. ASSUME NEW c \in Cells(rows) PROVE <<i, c>> \in UnitsIn(ToSet(T))
    <3>1. PICK r \in DOMAIN rows : \E k \in Written(rows, r) : rows[r][k] = c
      BY <1>0
    <3>2. PICK n \in 1..N : r = lines[n]
      BY <1>2, <1>5, <3>1
    <3>3. <<i, c>> \in ToSet(block(r).text)
      BY <1>8, <3>1
    <3> QED
      BY <1>6, <1>7, <3>2, <3>3 DEF UnitsIn
  <2> QED
    BY <2>1, <2>2
<1> QED
  BY <1>3, <1>10, <1>11, <1>12 DEF BlocksKeep, T

-----------------------------------------------------------------------------
(***************************************************************************)
(* DOCX.                                                                   *)
(***************************************************************************)

ItemUnits(item, i) ==
    (IF item.kind \in {"text", "heading"} THEN {<<i>>} ELSE {})
    \cup {<<i, c>> : c \in Cells(item.rows)}

\* A table without rows has no cells.
LEMMA NoCells == Cells(<<>>) = {}
<1>1. ToSet(<<>>) = {}
  BY SingleChain
<1>2. {ToSet(row) : row \in {}} = {}
  OBVIOUS
<1> QED
  BY <1>1, <1>2 DEF Cells

\* Cells are named by numbers.
LEMMA CellsAreNumbers ==
    ASSUME NEW rows \in Seq(Seq(Nat)) PROVE Cells(rows) \subseteq Nat
<1>1. ASSUME NEW c \in Cells(rows) PROVE c \in Nat
  <2>1. PICK row \in ToSet(rows) : c \in ToSet(row)
    BY DEF Cells
  <2>2. row \in Seq(Nat)
    BY ToSetIs
  <2> QED
    BY <2>1, <2>2, ToSetIs
<1> QED
  BY <1>1

\* An item of a DOCX document is kept.
LEMMA ItemIsKept ==
    ASSUME doc.format = "docx", doc.content \in Seq(BodyItems), NEW i \in DOMAIN doc.content
    PROVE  /\ BlocksKeep(ItemBlocks(doc.content[i], i), ItemUnits(doc.content[i], i))
           /\ \A u \in ItemUnits(doc.content[i], i) : u \in Seq(Nat) /\ u # <<>> /\ u[1] = i
<1> DEFINE item == doc.content[i]
<1>1. item \in BodyItems /\ i \in Nat
  <2>1. DOMAIN doc.content = 1..Len(doc.content) /\ Len(doc.content) \in Nat
    OBVIOUS
  <2> QED
    BY <2>1, ElementOfSeq
<1>2. item.rows \in Seq(Seq(Nat)) /\ (item.kind # "table" => item.rows = <<>>)
      /\ item.kind \in {"text", "empty", "heading", "table"}
  <2>1. \/ item.kind \in {"text", "empty", "heading"} /\ item.rows \in {<<>>}
        \/ item.kind = "table" /\ item.rows \in Seq(Seq(Nat))
    BY <1>1 DEF BodyItems
  <2>2. <<>> \in Seq(Seq(Nat))
    OBVIOUS
  <2> QED
    BY <2>1, <2>2
<1> HIDE DEF item
<1>3. \A u \in ItemUnits(item, i) : u \in Seq(Nat) /\ u # <<>> /\ u[1] = i
  <2>1. <<i>> \in Seq(Nat) /\ <<i>> # <<>> /\ <<i>>[1] = i
    BY <1>1
  <2>2. ASSUME NEW c \in Nat PROVE <<i, c>> \in Seq(Nat) /\ <<i, c>> # <<>> /\ <<i, c>>[1] = i
    BY <1>1
  <2>3. Cells(item.rows) \subseteq Nat
    BY <1>2, CellsAreNumbers
  <2> SUFFICES ASSUME NEW u \in ItemUnits(item, i)
               PROVE  u \in Seq(Nat) /\ u # <<>> /\ u[1] = i
    OBVIOUS
  <2>4. u = <<i>> \/ \E c \in Cells(item.rows) : u = <<i, c>>
    BY DEF ItemUnits
  <2> QED
    BY <2>1, <2>2, <2>3, <2>4
<1>4. BlocksKeep(ItemBlocks(item, i), ItemUnits(item, i))
  <2>1. CASE item.kind = "table"
    <3>1. ItemBlocks(item, i) = TableRows(item.rows, i)
      BY <2>1 DEF ItemBlocks
    <3>2. ItemUnits(item, i) = {<<i, c>> : c \in Cells(item.rows)}
      BY <2>1 DEF ItemUnits
    <3>3. BlocksKeep(TableRows(item.rows, i), {<<i, c>> : c \in Cells(item.rows)})
      <4> DEFINE rows == item.rows
      <4>1. rows \in Seq(Seq(Nat)) /\ doc.content[i].rows = rows
        BY <1>2 DEF item
      <4> HIDE DEF rows
      <4>2. BlocksKeep(TableRows(rows, i), {<<i, c>> : c \in Cells(rows)})
        BY <1>1, <4>1, TableIsKept
      <4> QED
        BY <4>2 DEF rows
    <3> QED
      BY <3>1, <3>2, <3>3
  <2>2. CASE item.kind = "empty"
    <3>1. ItemBlocks(item, i) = <<>>
      BY <2>2 DEF ItemBlocks
    <3>2. ItemUnits(item, i) = {}
      BY <1>2, <2>2, NoCells DEF ItemUnits
    <3>3. ToSet(<<>>) = {} /\ Chain(<<>>, Apart)
      BY SingleChain
    <3>5. <<>> \in Seq(Blocks)
      OBVIOUS
    <3>4. UnitsIn({}) = {}
      BY DEF UnitsIn
    <3> QED
      BY <3>1, <3>2, <3>3, <3>4, <3>5 DEF BlocksKeep
  <2>3. CASE item.kind \in {"text", "heading"}
    <3> DEFINE u == <<i>>
               b == Block(<<u>>, item.kind = "heading")
    <3>1. ItemBlocks(item, i) = <<b>>
      BY <2>3 DEF ItemBlocks
    <3>2. ItemUnits(item, i) = {u}
      BY <1>2, <2>3, NoCells DEF ItemUnits
    <3>3. b \in Blocks
      BY <1>1, UnitIsText, BlockType
    <3>4. Whole(b) /\ ToSet(b.text) = {u}
      BY SmallIsWhole
    <3> HIDE DEF b, u
    <3>5. <<b>> \in Seq(Blocks) /\ Chain(<<b>>, Apart) /\ ToSet(<<b>>) = {b}
      BY <3>3, SingleChain
    <3>6. UnitsIn({b}) = {u}
      BY <3>4 DEF UnitsIn
    <3> QED
      BY <3>1, <3>2, <3>4, <3>5, <3>6 DEF BlocksKeep
  <2> QED
    BY <1>2, <2>1, <2>2, <2>3
<1> QED
  BY <1>3, <1>4 DEF item

\* The units of a DOCX document are those of its items.
LEMMA UnitsOfDocx ==
    ASSUME doc.format = "docx", doc.content \in Seq(BodyItems)
    PROVE  Units = UNION {ItemUnits(doc.content[i], i) : i \in DOMAIN doc.content}
<1> DEFINE I == DOMAIN doc.content
           items == doc.content
           said == {<<i>> : i \in {n \in I : items[n].kind \in {"text", "heading"}}}
           cells(i) == {<<i, c>> : c \in Cells(items[i].rows)}
<1>1. Units = said \cup UNION {cells(i) : i \in I}
  <2>1. doc.format # "html"
    OBVIOUS
  <2> QED
    BY <2>1, Zenon DEF Units, Cells
<1>2. \A i \in I : ItemUnits(items[i], i)
                     = (IF items[i].kind \in {"text", "heading"} THEN {<<i>>} ELSE {}) \cup cells(i)
  BY DEF ItemUnits
<1> HIDE DEF cells, I, items
<1>3. ASSUME NEW u
      PROVE  u \in said \cup UNION {cells(i) : i \in I}
                <=> \E i \in I : u \in ItemUnits(items[i], i)
  BY <1>2
<1> QED
  BY <1>1, <1>3 DEF I, items

\* DOCX.
LEMMA DocxIsKept ==
    ASSUME doc.format = "docx", doc.content \in Seq(BodyItems)
    PROVE  AllKept(GroupBlocks(DocxBlocks(doc.content)))
<1> DEFINE items == doc.content
           seqs == [i \in DOMAIN items |-> ItemBlocks(items[i], i)]
           N == Len(items)
           units(i) == ItemUnits(items[i], i)
           A == Apart
           B == Blocks
<1>1. N \in Nat /\ DOMAIN items = 1..N
  OBVIOUS
<1>2. ASSUME NEW i \in 1..N
      PROVE  /\ seqs[i] \in Seq(B) /\ Chain(seqs[i], A)
             /\ \A b \in ToSet(seqs[i]) : Whole(b)
             /\ UnitsIn(ToSet(seqs[i])) = units(i)
             /\ \A u \in units(i) : u \in Seq(Nat) /\ u # <<>> /\ u[1] = i
  <2>1. /\ BlocksKeep(ItemBlocks(items[i], i), units(i))
        /\ \A u \in units(i) : u \in Seq(Nat) /\ u # <<>> /\ u[1] = i
    BY <1>1, ItemIsKept
  <2>2. seqs[i] = ItemBlocks(items[i], i)
    BY <1>1
  <2> HIDE DEF seqs, units
  <2> QED
    BY <2>1, <2>2 DEF BlocksKeep
<1>3. seqs \in Seq(Seq(B)) /\ Len(seqs) = N
  <2>1. seqs = [i \in 1..N |-> ItemBlocks(items[i], i)] /\ \A i \in 1..N : seqs[i] \in Seq(B)
    BY <1>1, <1>2
  <2>2. DOMAIN seqs = 1..N
    BY <1>1
  <2>3. seqs = [i \in 1..N |-> seqs[i]]
    BY <2>1
  <2> DEFINE X == Seq(B)
  <2>5. \A i \in 1..N : seqs[i] \in X
    BY <2>1
  <2> HIDE DEF seqs, B, X, N
  <2>4. seqs \in Seq(X)
    BY <1>1, <2>5, <2>3
  <2> QED
    BY <1>1, <2>2, <2>4 DEF X
<1>4. DocxBlocks(items) = FlattenSeq(seqs)
  BY DEF DocxBlocks
<1> HIDE DEF seqs, N, units
<1>5. ASSUME NEW i \in 1..N, NEW j \in 1..N, i < j PROVE Across(seqs[i], seqs[j], A)
  <2> SUFFICES ASSUME NEW b \in ToSet(seqs[i]), NEW c \in ToSet(seqs[j]) PROVE <<b, c>> \in A
    BY DEF Across
  <2>1. b \in Blocks /\ c \in Blocks
    BY <1>2, ToSetIs
  <2>2. \A u \in ToSet(b.text) : u \in units(i)
    BY <1>2 DEF UnitsIn
  <2>3. \A v \in ToSet(c.text) : v \in units(j)
    BY <1>2 DEF UnitsIn
  <2>4. \A u \in ToSet(b.text), v \in ToSet(c.text) :
           u \in Seq(Nat) /\ v \in Seq(Nat) /\ u # <<>> /\ v # <<>> /\ u[1] < v[1]
    BY <1>2, <1>5, <2>2, <2>3
  <2> QED
    BY <2>1, <2>4, PlacesAreApart
<1> HIDE DEF A, B
<1>6. Chains(seqs, A)
  BY <1>2, <1>3, <1>5 DEF Chains
<1> DEFINE blocks == FlattenSeq(seqs)
<1>7. blocks \in Seq(B) /\ Chain(blocks, A) /\ ToSet(blocks) = Elements(seqs)
  BY <1>3, <1>6, FlattenChain
<1> HIDE DEF blocks
<1>8. \A b \in ToSet(blocks) : Whole(b)
  BY <1>2, <1>3, <1>7 DEF Elements
<1>9. UnitsIn(ToSet(blocks)) = Units
  <2>1. Units = UNION {units(i) : i \in 1..N}
    BY <1>1, UnitsOfDocx DEF units, N
  <2>2. UnitsIn(ToSet(blocks)) = UNION {UnitsIn(ToSet(seqs[i])) : i \in 1..N}
    BY <1>3, <1>7 DEF UnitsIn, Elements
  <2> QED
    BY <1>2, <2>1, <2>2
<1>10. AllKept(GroupBlocks(blocks))
  BY <1>7, <1>8, <1>9, GroupedIsKept DEF A, B
<1> QED
  BY <1>4, <1>10 DEF blocks

-----------------------------------------------------------------------------
(***************************************************************************)
(* HTML: the order of its units, and the nesting of its elements.          *)
(***************************************************************************)

\* The tags that end a line, and those that say something.
Breaks == {"<h/>", "<pre/>", "<div>", "</div>"}
Emits == {"text", "<pre/>", "<h/>"}

Broken(tags, i, j) == \E k \in i..j : tags[k] \in Breaks

\* Two units of a page: their order, and the line they stand on.
LEMMA UnitsOfPage ==
    ASSUME doc.format = "html", NEW i \in Nat, NEW j \in Nat, i < j
    PROVE  /\ <<i>> \in Seq(Nat) /\ <<<<i>>, <<j>>>> \in Ordered
           /\ <<<<j>>, <<i>>>> \notin Ordered
           /\ OnOneLine(<<i>>, <<j>>) <=> i # 0 /\ ~Broken(doc.content, i, j)
           /\ OnOneLine(<<j>>, <<i>>) <=> i # 0 /\ ~Broken(doc.content, i, j)
<1>1. <<i>> \in Seq(Nat) /\ <<j>> \in Seq(Nat) /\ <<i>>[1] = i /\ <<j>>[1] = j
  OBVIOUS
<1> DEFINE u == <<i>>
           v == <<j>>
<1>2. u # v
  BY <1>1
<1> HIDE DEF u, v
<1>3. u \in Seq(Nat) /\ v \in Seq(Nat) /\ u[1] = i /\ v[1] = j
  BY <1>1 DEF u, v
<1>4. Before(u, v) /\ ~Before(v, u)
  BY <1>3 DEF Before
<1>5. <<u, v>> \in Ordered /\ <<v, u>> \notin Ordered
  BY <1>3, <1>4 DEF Ordered
<1> DEFINE S == {u[1], v[1]}
           T == {v[1], u[1]}
<1>6. S = {i, j} /\ T = {i, j} /\ {i, j} \in SUBSET Nat
  BY <1>3
<1>7. Min(S) = i /\ Min(T) = i
  <2>1. i \in {i, j} /\ \A y \in {i, j} : i <= y
    OBVIOUS
  <2>2. Min({i, j}) = i
    BY <1>6, <2>1, MinIsLeast
  <2> QED
    BY <1>6, <2>2
<1>8. Max(S) = j /\ Max(T) = j
  <2> DEFINE m == Max({i, j})
  <2>1. j \in {i, j} /\ \A y \in {i, j} : j >= y
    OBVIOUS
  <2>2. m \in {i, j} /\ \A y \in {i, j} : m >= y
    BY <2>1 DEF Max
  <2> HIDE DEF m
  <2>3. m = j
    BY <2>1, <2>2
  <2> QED
    BY <1>6, <2>3 DEF m
<1> HIDE DEF S, T
<1>9. doc.format # "docx" /\ (0 \notin S <=> i # 0) /\ (0 \notin T <=> i # 0)
  BY <1>6
<1>10. /\ OnOneLine(u, v) <=> 0 \notin S /\ \A k \in Min(S)..Max(S) : doc.content[k] \notin Breaks
       /\ OnOneLine(v, u) <=> 0 \notin T /\ \A k \in Min(T)..Max(T) : doc.content[k] \notin Breaks
  BY <1>2, <1>9 DEF OnOneLine, Breaks, S, T
<1>11. /\ OnOneLine(u, v) <=> i # 0 /\ ~Broken(doc.content, i, j)
       /\ OnOneLine(v, u) <=> i # 0 /\ ~Broken(doc.content, i, j)
  BY <1>7, <1>8, <1>9, <1>10 DEF Broken
<1> QED
  BY <1>3, <1>5, <1>11 DEF u, v

-----------------------------------------------------------------------------

Nest(inner, tag) ==
    CASE tag \in OpenTags -> Append(inner, tag)
      [] tag \in CloseTags -> Front(inner)
      [] OTHER -> inner

\* What a tag makes of the elements that are open.
LEMMA NestIs ==
    ASSUME NEW inner \in Seq(OpenTags), NEW tag
    PROVE  /\ Nest(inner, tag) \in Seq(OpenTags)
           /\ tag \in OpenTags => Nest(inner, tag) = Append(inner, tag)
           /\ tag \in CloseTags => Nest(inner, tag) = Front(inner)
           /\ tag \notin OpenTags /\ tag \notin CloseTags => Nest(inner, tag) = inner
<1>1. CASE tag \in OpenTags
  <2>1. tag \notin CloseTags
    BY <1>1 DEF OpenTags, BlockTags, CloseTags
  <2>2. Nest(inner, tag) = Append(inner, tag)
    BY <1>1, <2>1, Zenon DEF Nest
  <2> QED
    BY <1>1, <2>1, <2>2, AppendProperties
<1>2. CASE tag \in CloseTags
  <2>1. tag \notin OpenTags
    BY <1>2 DEF OpenTags, BlockTags, CloseTags
  <2>2. Nest(inner, tag) = Front(inner)
    BY <1>2, <2>1, Zenon DEF Nest
  <2>3. Front(inner) \in Seq(OpenTags)
    <3>1. \A k \in 1..(Len(inner) - 1) : k \in 1..Len(inner)
      OBVIOUS
    <3>2. \A k \in 1..(Len(inner) - 1) : inner[k] \in OpenTags
      BY <3>1, ElementOfSeq
    <3>3. 1 \in Int /\ Len(inner) - 1 \in Int
      OBVIOUS
    <3> QED
      BY <3>2, <3>3, SubSeqProperties DEF Front
  <2> QED
    BY <1>2, <2>1, <2>2, <2>3
<1>3. CASE tag \notin OpenTags /\ tag \notin CloseTags
  BY <1>3, Zenon DEF Nest
<1> QED
  BY <1>1, <1>2, <1>3

\* Nesting goes on tag after tag.
LEMMA NestingSteps ==
    ASSUME NEW tags, Len(tags) \in Nat
    PROVE  /\ Nesting(tags)[0] = <<>>
           /\ \A n \in 0..Len(tags) : Nesting(tags)[n] \in Seq(OpenTags)
           /\ \A n \in 1..Len(tags) : Nesting(tags)[n] = Nest(Nesting(tags)[n - 1], tags[n])
<1> DEFINE N == Len(tags)
           X == Seq(OpenTags)
           base == <<>>
           Value(g, n) == IF n = 0 THEN <<>>
                          ELSE CASE tags[n] \in OpenTags -> Append(g[n - 1], tags[n])
                                 [] tags[n] \in CloseTags -> Front(g[n - 1])
                                 [] OTHER -> g[n - 1]
           Body(g) == [n \in 0..N |-> Value(g, n)]
           step == [a \in (1..N) \X X |-> Nest(a[2], tags[a[1]])]
<1>1. N \in Nat
  OBVIOUS
<1>2. base \in X
  OBVIOUS
<1>3. step \in [(1..N) \X X -> X]
  <2>1. ASSUME NEW a \in (1..N) \X X PROVE Nest(a[2], tags[a[1]]) \in X
    <3>1. a[2] \in Seq(OpenTags)
      OBVIOUS
    <3> QED
      BY <3>1, NestIs
  <2> QED
    BY <2>1
<1>4. \A n \in 1..N, x \in X : step[<<n, x>>] = Nest(x, tags[n])
  OBVIOUS
<1>5. PICK g : Computation(g, X, base, step, N)
  <2> HIDE DEF step, N, base, X
  <2> QED
    BY <1>1, <1>2, <1>3, RecursionExists
<1> HIDE DEF step, N
<1>6. g = Body(g)
  <2>1. \A n \in 0..N : n = 0 \/ n \in 1..N
    BY <1>1
  <2>2. \A n \in 1..N : n - 1 \in 0..N /\ g[n - 1] \in X
    BY <1>1, <1>5 DEF Computation
  <2>3. \A n \in 0..N : g[n] = Body(g)[n]
    <3> SUFFICES ASSUME NEW n \in 0..N PROVE g[n] = Body(g)[n]
      OBVIOUS
    <3>1. CASE n = 0
      BY <1>5, <3>1 DEF Computation
    <3>2. CASE n # 0
      <4>1. n \in 1..N
        BY <2>1, <3>2
      <4>2. g[n] = Nest(g[n - 1], tags[n])
        BY <1>4, <1>5, <2>2, <4>1 DEF Computation
      <4>3. Body(g)[n] = Nest(g[n - 1], tags[n])
        BY <3>2, Zenon DEF Nest
      <4> QED
        BY <4>2, <4>3
    <3> QED
      BY <3>1, <3>2
  <2> HIDE DEF X
  <2> DEFINE f == Body(g)
  <2>4. f = [n \in 0..N |-> f[n]]
    <3> HIDE DEF Value
    <3> QED
      OBVIOUS
  <2>5. g = [n \in 0..N |-> g[n]]
    BY <1>5 DEF Computation
  <2>6. \A n \in 0..N : g[n] = f[n]
    BY <2>3
  <2> HIDE DEF f
  <2>7. g = f
    BY <2>4, <2>5, <2>6
  <2> QED
    BY <2>7 DEF f
<1>7. Nesting(tags) = CHOOSE h : h = Body(h)
  BY DEF Nesting, N
<1> DEFINE f == Nesting(tags)
<1>8. f = Body(f)
  <2> HIDE DEF Body
  <2> QED
    BY <1>6, <1>7
<1> HIDE DEF f
<1>9. f[0] = base /\ \A n \in 1..N : f[n] = Nest(f[n - 1], tags[n])
  <2>1. 0 \in 0..N /\ \A n \in 1..N : n \in 0..N /\ n # 0
    BY <1>1
  <2> DEFINE b == Body(f)
  <2>2. b[0] = base
    BY <2>1
  <2>3. ASSUME NEW n \in 1..N PROVE b[n] = Nest(f[n - 1], tags[n])
    BY <2>1, Zenon DEF Nest
  <2> HIDE DEF b
  <2>4. f = b
    BY <1>8 DEF b
  <2> QED
    BY <2>2, <2>3, <2>4
<1>10. Computation(f, X, base, step, N)
  <2>1. f = [n \in 0..N |-> f[n]]
    <3> DEFINE b == Body(f)
    <3>1. b = [n \in 0..N |-> b[n]]
      <4> HIDE DEF Value
      <4> QED
        OBVIOUS
    <3> HIDE DEF b
    <3>2. f = b
      BY <1>8 DEF b
    <3> QED
      BY <3>1, <3>2
  <2>2. \A n \in 1..N : f[n - 1] \in X => f[n] = step[<<n, f[n - 1]>>]
    BY <1>4, <1>9
  <2> HIDE DEF base, X
  <2> QED
    BY <1>1, <1>2, <1>3, <1>9, <2>1, <2>2, ComputationTyped
<1> QED
  BY <1>9, <1>10 DEF f, N, Computation

-----------------------------------------------------------------------------
(***************************************************************************)
(* HTML: the turns of the walk.                                            *)
(***************************************************************************)

\* Flushing leaves no piece.
LEMMA FlushIs ==
    ASSUME NEW walk \in Walks
    PROVE  /\ FlushPieces(walk) \in Walks
           /\ FlushPieces(walk).pieces = <<>>
           /\ FlushPieces(walk).stack = walk.stack
           /\ FlushPieces(walk).blocks
                 = IF walk.pieces = <<>> THEN walk.blocks
                   ELSE Append(walk.blocks, Block(walk.pieces, FALSE))
<1>1. /\ walk.pieces \in Texts /\ walk.stack \in Seq(BOOLEAN) /\ walk.blocks \in Seq(Blocks)
      /\ walk = [pieces |-> walk.pieces, stack |-> walk.stack, blocks |-> walk.blocks]
  BY DEF Walks
<1>2. FlushPieces(walk) \in Walks
  BY FlushPiecesType
<1>3. CASE walk.pieces = <<>>
  BY <1>2, <1>3 DEF FlushPieces
<1>4. CASE walk.pieces # <<>>
  <2> DEFINE blocks == Append(walk.blocks, Block(walk.pieces, FALSE))
  <2>1. FlushPieces(walk) = [pieces |-> <<>>, stack |-> walk.stack, blocks |-> blocks]
    BY <1>1, <1>4 DEF FlushPieces
  <2> HIDE DEF blocks
  <2>2. /\ FlushPieces(walk).pieces = <<>> /\ FlushPieces(walk).stack = walk.stack
        /\ FlushPieces(walk).blocks = blocks
    BY <2>1
  <2> QED
    BY <1>2, <1>4, <2>2 DEF blocks
<1> QED
  BY <1>3, <1>4

\* What a visit makes of the pieces, the stack and the blocks.
VisitIs(walk, tag, i, flushed, next) ==
    /\ tag = "text" =>
          /\ next.pieces = Append(walk.pieces, <<i>>)
          /\ next.stack = walk.stack
          /\ next.blocks = walk.blocks
    /\ tag \in {"<h/>", "<pre/>"} =>
          /\ next.pieces = <<>>
          /\ next.stack = walk.stack
          /\ next.blocks = Append(flushed.blocks, Block(<<<<i>>>>, tag = "<h/>"))
    /\ tag = "<div>" =>
          /\ next.pieces = <<>>
          /\ next.stack = Append(walk.stack, TRUE)
          /\ next.blocks = flushed.blocks
    /\ tag = "<em>" =>
          /\ next.pieces = walk.pieces
          /\ next.stack = Append(walk.stack, FALSE)
          /\ next.blocks = walk.blocks
    /\ tag \in CloseTags =>
          /\ next.stack = Front(walk.stack)
          /\ Last(walk.stack) => next.pieces = <<>> /\ next.blocks = flushed.blocks
          /\ ~Last(walk.stack) => next.pieces = walk.pieces /\ next.blocks = walk.blocks
    /\ tag \notin {"text", "<h/>", "<pre/>"} \cup OpenTags \cup CloseTags => next = walk

\* A visit makes just that, whatever the tag.
LEMMA Visited ==
    ASSUME NEW walk \in Walks, NEW tag, NEW i \in Nat, NEW next, next = VisitNode(walk, tag, i),
           NEW flushed, flushed = FlushPieces(walk)
    PROVE  VisitIs(walk, tag, i, flushed, next)
<1>1. /\ walk.pieces \in Texts /\ walk.stack \in Seq(BOOLEAN) /\ walk.blocks \in Seq(Blocks)
      /\ walk = [pieces |-> walk.pieces, stack |-> walk.stack, blocks |-> walk.blocks]
  BY DEF Walks
<1>2. flushed \in Walks /\ flushed.pieces = <<>> /\ flushed.stack = walk.stack
  BY FlushIs
<1>3. flushed = [pieces |-> <<>>, stack |-> walk.stack, blocks |-> flushed.blocks]
  BY <1>2 DEF Walks
<1> DEFINE p == walk.pieces
           s == walk.stack
           b == walk.blocks
           fb == flushed.blocks
<1> HIDE DEF p, s, b, fb
<1>4. walk = [pieces |-> p, stack |-> s, blocks |-> b]
      /\ flushed = [pieces |-> <<>>, stack |-> s, blocks |-> fb]
  BY <1>1, <1>3 DEF p, s, b, fb
<1>5. CASE tag = "text"
  <2>1. /\ tag \notin {"<h/>", "<pre/>"} /\ tag \notin BlockTags
        /\ tag \notin OpenTags \ BlockTags /\ tag \notin CloseTags /\ tag \notin {"<div>", "<em>"}
    BY <1>5 DEF BlockTags, OpenTags, CloseTags
  <2>2. next = AddPiece(walk, <<i>>)
    BY <1>5, <2>1, Zenon DEF VisitNode
  <2> DEFINE u == <<i>>
  <2> HIDE DEF u
  <2>5. next = AddPiece([pieces |-> p, stack |-> s, blocks |-> b], u)
    BY <1>4, <2>2 DEF u
  <2>3. next = [pieces |-> Append(p, u), stack |-> s, blocks |-> b]
    BY <2>5, AddPieceIs, SMT
  <2>4. next.pieces = Append(p, u) /\ next.stack = s /\ next.blocks = b
    BY <2>3
  <2> QED
    BY <1>5, <2>1, <2>4 DEF p, s, b, u, VisitIs
<1>6. CASE tag \in {"<h/>", "<pre/>"}
  <2>1. /\ tag # "text" /\ tag \notin BlockTags /\ tag \notin OpenTags
        /\ tag \notin OpenTags \ BlockTags /\ tag \notin CloseTags /\ tag \notin {"<div>", "<em>"}
    BY <1>6 DEF BlockTags, OpenTags, CloseTags
  <2> DEFINE x == Block(<<<<i>>>>, tag = "<h/>")
  <2>2. next = AddBlock(flushed, x)
    BY <1>6, <2>1, Zenon DEF VisitNode
  <2> HIDE DEF x
  <2>5. next = AddBlock([pieces |-> <<>>, stack |-> s, blocks |-> fb], x)
    BY <1>4, <2>2
  <2>3. next = [pieces |-> <<>>, stack |-> s, blocks |-> Append(fb, x)]
    BY <2>5, AddBlockIs, Zenon
  <2>4. next.pieces = <<>> /\ next.stack = s /\ next.blocks = Append(fb, x)
    BY <2>3
  <2> QED
    BY <1>6, <2>1, <2>4 DEF p, s, b, fb, x, VisitIs
<1>7. CASE tag = "<div>"
  <2>1. /\ tag # "text" /\ tag \notin {"<h/>", "<pre/>"} /\ tag \in BlockTags
        /\ tag \notin OpenTags \ BlockTags /\ tag \notin CloseTags /\ tag # "<em>" /\ tag \in OpenTags
    BY <1>7 DEF BlockTags, OpenTags, CloseTags
  <2>2. next = EnterElement(flushed, TRUE)
    BY <2>1, Zenon DEF VisitNode
  <2>5. next = EnterElement([pieces |-> <<>>, stack |-> s, blocks |-> fb], TRUE)
    BY <1>4, <2>2
  <2> DEFINE t == Append(s, TRUE)
  <2>3. next = [pieces |-> <<>>, stack |-> t, blocks |-> fb]
    BY <2>5, EnterElementIs, Zenon
  <2> HIDE DEF t
  <2>4. next.pieces = <<>> /\ next.stack = t /\ next.blocks = fb
    BY <2>3
  <2> QED
    BY <1>7, <2>1, <2>4 DEF p, s, b, fb, t, VisitIs
<1>8. CASE tag = "<em>"
  <2>1. /\ tag # "text" /\ tag \notin {"<h/>", "<pre/>"} /\ tag \notin BlockTags
        /\ tag \in OpenTags \ BlockTags /\ tag \notin CloseTags /\ tag # "<div>" /\ tag \in OpenTags
    BY <1>8 DEF BlockTags, OpenTags, CloseTags
  <2>2. next = EnterElement(walk, FALSE)
    BY <2>1, Zenon DEF VisitNode
  <2>5. next = EnterElement([pieces |-> p, stack |-> s, blocks |-> b], FALSE)
    BY <1>4, <2>2
  <2> DEFINE t == Append(s, FALSE)
  <2>3. next = [pieces |-> p, stack |-> t, blocks |-> b]
    BY <2>5, EnterElementIs, Zenon
  <2> HIDE DEF t
  <2>4. next.pieces = p /\ next.stack = t /\ next.blocks = b
    BY <2>3
  <2> QED
    BY <1>8, <2>1, <2>4 DEF p, s, b, fb, t, VisitIs
<1>9. CASE tag \in CloseTags
  <2>1. /\ tag \notin {"text", "<h/>", "<pre/>"} /\ tag \notin OpenTags /\ tag \notin BlockTags
        /\ tag \notin {"<div>", "<em>"}
    BY <1>9 DEF CloseTags, OpenTags, BlockTags
  <2>2. next = LeaveElement(walk)
    BY <1>9, <2>1 DEF VisitNode
  <2>3. Last(walk.stack) => next = [pieces |-> <<>>, stack |-> Front(s), blocks |-> fb]
    <3> SUFFICES ASSUME Last(walk.stack)
                 PROVE  next = [pieces |-> <<>>, stack |-> Front(s), blocks |-> fb]
      OBVIOUS
    <3>1. next = [flushed EXCEPT !.stack = Front(flushed.stack)]
      BY <2>2 DEF LeaveElement
    <3>2. flushed.stack = s
      BY <1>4
    <3> DEFINE front == Front(s)
    <3> HIDE DEF front
    <3>3. next = [flushed EXCEPT !.stack = front]
      BY <3>1, <3>2 DEF front
    <3>4. next = [pieces |-> <<>>, stack |-> front, blocks |-> fb]
      BY <1>4, <3>3
    <3> QED
      BY <3>4 DEF front
  <2>4. ~Last(walk.stack) => next = [pieces |-> p, stack |-> Front(s), blocks |-> b]
    <3> SUFFICES ASSUME ~Last(walk.stack)
                 PROVE  next = [pieces |-> p, stack |-> Front(s), blocks |-> b]
      OBVIOUS
    <3>1. next = [walk EXCEPT !.stack = Front(walk.stack)]
      BY <2>2 DEF LeaveElement
    <3>2. walk.stack = s
      BY <1>4
    <3> DEFINE front == Front(s)
    <3> HIDE DEF front
    <3>3. next = [walk EXCEPT !.stack = front]
      BY <3>1, <3>2 DEF front
    <3>4. next = [pieces |-> p, stack |-> front, blocks |-> b]
      BY <1>4, <3>3
    <3> QED
      BY <3>4 DEF front
  <2> DEFINE front == Front(s)
             last == Last(walk.stack)
  <2> HIDE DEF front, last
  <2>5. /\ last => next.pieces = <<>> /\ next.stack = front /\ next.blocks = fb
        /\ ~last => next.pieces = p /\ next.stack = front /\ next.blocks = b
    BY <2>3, <2>4 DEF front, last
  <2> QED
    BY <1>9, <2>1, <2>5 DEF p, s, b, fb, front, last, VisitIs
<1>10. CASE tag \notin {"text", "<h/>", "<pre/>"} \cup OpenTags \cup CloseTags
  <2>1. /\ tag \notin {"text", "<h/>", "<pre/>"} /\ tag \notin BlockTags /\ tag \notin OpenTags
        /\ tag \notin OpenTags \ BlockTags /\ tag \notin CloseTags
        /\ tag \notin {"<h/>", "<pre/>"} /\ tag # "text" /\ tag # "<div>" /\ tag # "<em>"
    BY <1>10 DEF OpenTags, BlockTags
  <2>2. next = walk
    BY <2>1, Zenon DEF VisitNode
  <2> QED
    BY <1>10, <2>1, <2>2 DEF VisitIs
<1>11. OpenTags = {"<div>", "<em>"}
  BY DEF OpenTags, BlockTags
<1> QED
  BY <1>5, <1>6, <1>7, <1>8, <1>9, <1>10, <1>11 DEF VisitIs

\* The stack says of each inner element whether it ends a line.
Spine(stack, inner) ==
    /\ stack \in Seq(BOOLEAN) /\ inner \in Seq(OpenTags)
    /\ Len(stack) = Len(inner) + 1
    /\ \A k \in 1..Len(inner) : stack[k + 1] <=> inner[k] = "<div>"

\* The spine grows with the element that is entered,
LEMMA SpineGrows ==
    ASSUME NEW stack, NEW inner, Spine(stack, inner), NEW tag \in OpenTags
    PROVE  Spine(Append(stack, tag = "<div>"), Append(inner, tag))
<1> DEFINE ends == tag = "<div>"
           s == Append(stack, ends)
           o == Append(inner, tag)
<1>1. stack \in Seq(BOOLEAN) /\ inner \in Seq(OpenTags) /\ Len(stack) = Len(inner) + 1 /\ ends \in BOOLEAN
      /\ Len(inner) \in Nat
  BY DEF Spine
<1> DEFINE N == Len(inner)
<1>2. /\ s \in Seq(BOOLEAN) /\ Len(s) = N + 2 /\ s[N + 2] = ends
      /\ \A k \in 1..(N + 1) : s[k] = stack[k]
  <2> HIDE DEF ends
  <2>1. /\ s \in Seq(BOOLEAN) /\ Len(s) = Len(stack) + 1 /\ s[Len(stack) + 1] = ends
        /\ \A k \in 1..Len(stack) : s[k] = stack[k]
    BY <1>1, AppendProperties
  <2> HIDE DEF s
  <2>2. Len(stack) = N + 1 /\ (N + 1) + 1 = N + 2
    BY <1>1
  <2> QED
    BY <2>1, <2>2
<1>3. /\ o \in Seq(OpenTags) /\ Len(o) = N + 1 /\ o[N + 1] = tag
      /\ \A k \in 1..N : o[k] = inner[k]
  BY <1>1, AppendProperties
<1> HIDE DEF s, o
<1>4. ASSUME NEW k \in 1..Len(o) PROVE s[k + 1] <=> o[k] = "<div>"
  <2>1. CASE k = N + 1
    <3>1. k + 1 = N + 2
      BY <1>1, <2>1
    <3> QED
      BY <1>2, <1>3, <2>1, <3>1 DEF ends
  <2>2. CASE k # N + 1
    <3>1. k \in 1..N /\ k + 1 \in 1..(N + 1)
      BY <1>1, <1>3, <2>2
    <3>2. s[k + 1] = stack[k + 1] /\ o[k] = inner[k] /\ (stack[k + 1] <=> inner[k] = "<div>")
      BY <1>2, <1>3, <3>1 DEF Spine
    <3> QED
      BY <3>2
  <2> QED
    BY <2>1, <2>2
<1>5. Len(s) = Len(o) + 1
  BY <1>1, <1>2, <1>3
<1>6. Spine(s, o)
  BY <1>2, <1>3, <1>4, <1>5 DEF Spine
<1> QED
  BY <1>6 DEF s, o

\* and shrinks with the one that is left, which ended a line if it says so.
LEMMA SpineShrinks ==
    ASSUME NEW stack, NEW inner, Spine(stack, inner), inner # <<>>
    PROVE  /\ Spine(Front(stack), Front(inner))
           /\ Last(stack) <=> Last(inner) = "<div>"
<1> DEFINE N == Len(inner)
           s == Front(stack)
           o == Front(inner)
<1>1. stack \in Seq(BOOLEAN) /\ inner \in Seq(OpenTags) /\ Len(stack) = N + 1 /\ N \in Nat /\ N >= 1
  <2>1. stack \in Seq(BOOLEAN) /\ inner \in Seq(OpenTags) /\ Len(stack) = Len(inner) + 1
    BY DEF Spine
  <2>2. Len(inner) # 0 /\ Len(inner) \in Nat
    BY <2>1
  <2> QED
    BY <2>1, <2>2
<1>2. s \in Seq(BOOLEAN) /\ Len(s) = N /\ \A k \in 1..N : s[k] = stack[k]
  <2>1. \A k \in 1..N : stack[k] \in BOOLEAN
    BY <1>1, ElementOfSeq
  <2>2. s = SubSeq(stack, 1, N)
    BY <1>1 DEF Front
  <2>3. /\ SubSeq(stack, 1, N) \in Seq(BOOLEAN)
        /\ Len(SubSeq(stack, 1, N)) = N
        /\ \A k \in 1..N : SubSeq(stack, 1, N)[k] = stack[k]
    BY <1>1, <2>1, SubSeqProperties
  <2> QED
    BY <2>2, <2>3
<1>3. o \in Seq(OpenTags) /\ Len(o) = N - 1 /\ \A k \in 1..(N - 1) : o[k] = inner[k]
  <2> DEFINE M == N - 1
  <2>1. M \in Nat /\ \A k \in 1..M : k \in 1..N
    BY <1>1
  <2>2. \A k \in 1..M : inner[k] \in OpenTags
    BY <1>1, <2>1, ElementOfSeq
  <2>3. o = SubSeq(inner, 1, M)
    BY <1>1 DEF Front
  <2> HIDE DEF M
  <2>4. /\ SubSeq(inner, 1, M) \in Seq(OpenTags)
        /\ Len(SubSeq(inner, 1, M)) = M
        /\ \A k \in 1..M : SubSeq(inner, 1, M)[k] = inner[k]
    BY <2>1, <2>2, SubSeqProperties
  <2> QED
    BY <2>3, <2>4 DEF M
<1>4. Last(stack) = stack[N + 1] /\ Last(inner) = inner[N] /\ N \in 1..N
  BY <1>1 DEF Last
<1>5. Last(stack) <=> Last(inner) = "<div>"
  BY <1>4 DEF Spine
<1> HIDE DEF s, o
<1>6. ASSUME NEW k \in 1..Len(o) PROVE s[k + 1] <=> o[k] = "<div>"
  <2>1. k \in 1..(N - 1) /\ k + 1 \in 1..N /\ k \in 1..N
    BY <1>1, <1>3
  <2>2. s[k + 1] = stack[k + 1] /\ o[k] = inner[k] /\ (stack[k + 1] <=> inner[k] = "<div>")
    BY <1>2, <1>3, <2>1 DEF Spine
  <2> QED
    BY <2>2
<1>7. Len(s) = Len(o) + 1
  BY <1>1, <1>2, <1>3
<1>8. Spine(s, o)
  BY <1>2, <1>3, <1>6, <1>7 DEF Spine
<1> QED
  BY <1>5, <1>8 DEF s, o

-----------------------------------------------------------------------------
(***************************************************************************)
(* HTML: what the walk keeps.                                              *)
(***************************************************************************)

\* The units of the first n tags.
Told(n) == {<<i>> : i \in {m \in 1..n : doc.content[m] \in Emits}}

\* Blocks that keep units of the first n tags.
HeldIn(blocks, n) ==
    /\ blocks \in Seq(Blocks) /\ Chain(blocks, Apart)
    /\ \A b \in ToSet(blocks) :
          /\ Whole(b) /\ b.text # <<>>
          /\ \A u \in ToSet(b.text) :
                \E i \in 1..n : u = <<i>> /\ (b.heading <=> doc.content[i] = "<h/>")

\* Pieces of the line that is not ended after n tags.
Pending(pieces, n) ==
    /\ pieces \in Texts /\ Chain(pieces, Ordered)
    /\ \A u \in ToSet(pieces) :
          \E i \in 1..n : u = <<i>> /\ doc.content[i] = "text" /\ ~Broken(doc.content, i, n)

WalkKeeps(walk, n) ==
    /\ walk \in Walks
    /\ HeldIn(walk.blocks, n)
    /\ Pending(walk.pieces, n)
    /\ \A u \in UnitsIn(ToSet(walk.blocks)) : Broken(doc.content, u[1], n)
    /\ UnitsIn(ToSet(walk.blocks)) \cup ToSet(walk.pieces) = Told(n)

\* What a further tag breaks.
LEMMA BrokenIs ==
    ASSUME NEW tags, NEW i \in Nat, NEW n \in Nat, i <= n + 1
    PROVE  /\ Broken(tags, i, n) => Broken(tags, i, n + 1)
           /\ tags[n + 1] \in Breaks => Broken(tags, i, n + 1)
           /\ ~Broken(tags, i, n) /\ tags[n + 1] \notin Breaks => ~Broken(tags, i, n + 1)
<1>1. \A k \in i..n : k \in i..(n + 1)
  OBVIOUS
<1>2. n + 1 \in i..(n + 1)
  OBVIOUS
<1>3. \A k \in i..(n + 1) : k \in i..n \/ k = n + 1
  OBVIOUS
<1> QED
  BY <1>1, <1>2, <1>3 DEF Broken

\* The units of one more tag.
LEMMA ToldMore ==
    ASSUME NEW n \in Nat
    PROVE  Told(n + 1) = Told(n) \cup (IF doc.content[n + 1] \in Emits THEN {<<n + 1>>} ELSE {})
<1>1. \A m : m \in 1..(n + 1) <=> m \in 1..n \/ m = n + 1
  OBVIOUS
<1> DEFINE good(m) == doc.content[m] \in Emits
           unit(m) == <<m>>
<1> HIDE DEF good, unit
<1>2. {unit(i) : i \in {m \in 1..(n + 1) : good(m)}}
         = {unit(i) : i \in {m \in 1..n : good(m)}} \cup (IF good(n + 1) THEN {unit(n + 1)} ELSE {})
  <2>1. CASE good(n + 1)
    BY <1>1, <2>1
  <2>2. CASE ~good(n + 1)
    BY <1>1, <2>2
  <2> QED
    BY <2>1, <2>2
<1> QED
  BY <1>2 DEF Told, good, unit

\* Blocks of the first tags are blocks of more tags.
LEMMA HeldMore ==
    ASSUME NEW n \in Nat, NEW blocks, HeldIn(blocks, n)
    PROVE  HeldIn(blocks, n + 1)
<1>1. \A i \in 1..n : i \in 1..(n + 1)
  OBVIOUS
<1> QED
  BY <1>1, Zenon DEF HeldIn

\* The pieces of a line are one whole line.
LEMMA PiecesAreWhole ==
    ASSUME doc.format = "html", NEW n \in Nat, NEW pieces, Pending(pieces, n)
    PROVE  Whole(Block(pieces, FALSE))
<1> DEFINE b == Block(pieces, FALSE)
<1>1. b.text = pieces
  BY DEF Block
<1>2. ASSUME NEW u \in ToSet(pieces), NEW v \in ToSet(pieces) PROVE OnOneLine(u, v)
  <2>1. PICK i \in 1..n : u = <<i>> /\ ~Broken(doc.content, i, n)
    BY DEF Pending
  <2>2. PICK j \in 1..n : v = <<j>> /\ ~Broken(doc.content, j, n)
    BY DEF Pending
  <2>3. CASE i = j
    BY <2>1, <2>2, <2>3 DEF OnOneLine
  <2>4. CASE i < j
    <3>1. \A k \in i..j : k \in i..n
      OBVIOUS
    <3>2. ~Broken(doc.content, i, j)
      BY <2>1, <3>1 DEF Broken
    <3>3. i \in Nat /\ j \in Nat /\ i # 0
      OBVIOUS
    <3>4. OnOneLine(<<i>>, <<j>>)
      BY <2>4, <3>2, <3>3, UnitsOfPage
    <3> QED
      BY <2>1, <2>2, <3>4
  <2>5. CASE j < i
    <3>1. \A k \in j..i : k \in j..n
      OBVIOUS
    <3>2. ~Broken(doc.content, j, i)
      BY <2>2, <3>1 DEF Broken
    <3>3. i \in Nat /\ j \in Nat /\ j # 0
      OBVIOUS
    <3>4. OnOneLine(<<i>>, <<j>>)
      BY <2>5, <3>2, <3>3, UnitsOfPage
    <3> QED
      BY <2>1, <2>2, <3>4
  <2>6. i = j \/ i < j \/ j < i
    OBVIOUS
  <2> QED
    BY <2>3, <2>4, <2>5, <2>6
<1> HIDE DEF b
<1>3. Chain(pieces, Ordered)
  BY DEF Pending
<1>4. Whole(b)
  BY <1>1, <1>2, <1>3 DEF Whole
<1> QED
  BY <1>4 DEF b

\* Blocks of a page are apart if a tag that ends a line is between them.
LEMMA BlocksAreApart ==
    ASSUME doc.format = "html", NEW c \in Blocks, NEW b \in Blocks,
           \A u \in ToSet(c.text), v \in ToSet(b.text) :
              \E i, j \in Nat : /\ i < j /\ u = <<i>> /\ v = <<j>>
                                /\ i = 0 \/ Broken(doc.content, i, j)
    PROVE  <<c, b>> \in Apart
<1>1. ASSUME NEW u \in ToSet(c.text), NEW v \in ToSet(b.text)
      PROVE  <<u, v>> \in Ordered /\ ~OnOneLine(u, v) /\ ~OnOneLine(v, u)
  <2>1. PICK i \in Nat, j \in Nat : /\ i < j /\ u = <<i>> /\ v = <<j>>
                                    /\ i = 0 \/ Broken(doc.content, i, j)
    OBVIOUS
  <2>2. /\ <<<<i>>, <<j>>>> \in Ordered
        /\ OnOneLine(<<i>>, <<j>>) <=> i # 0 /\ ~Broken(doc.content, i, j)
        /\ OnOneLine(<<j>>, <<i>>) <=> i # 0 /\ ~Broken(doc.content, i, j)
    BY <2>1, UnitsOfPage
  <2> QED
    BY <2>1, <2>2
<1> QED
  BY <1>1 DEF Apart

\* A block adds its units.
LEMMA UnitsInAppend ==
    ASSUME NEW blocks \in Seq(Blocks), NEW b \in Blocks
    PROVE  UnitsIn(ToSet(Append(blocks, b))) = UnitsIn(ToSet(blocks)) \cup ToSet(b.text)
<1>1. ToSet(Append(blocks, b)) = ToSet(blocks) \cup {b}
  <2> DEFINE B == Blocks
  <2>1. blocks \in Seq(B) /\ b \in B
    OBVIOUS
  <2> HIDE DEF B
  <2> QED
    BY <2>1, AppendChain
<1> QED
  BY <1>1 DEF UnitsIn

\* Flushed, the walk has all units in its blocks.
LEMMA FlushHolds ==
    ASSUME doc.format = "html", NEW n \in Nat, NEW walk, WalkKeeps(walk, n),
           NEW flushed, flushed = FlushPieces(walk)
    PROVE  HeldIn(flushed.blocks, n) /\ UnitsIn(ToSet(flushed.blocks)) = Told(n)
<1> DEFINE blocks == walk.blocks
           pieces == walk.pieces
           A == Apart
<1>1. /\ walk \in Walks /\ HeldIn(blocks, n) /\ Pending(pieces, n)
      /\ \A u \in UnitsIn(ToSet(blocks)) : Broken(doc.content, u[1], n)
      /\ UnitsIn(ToSet(blocks)) \cup ToSet(pieces) = Told(n)
  BY DEF WalkKeeps
<1>2. flushed.blocks = IF pieces = <<>> THEN blocks ELSE Append(blocks, Block(pieces, FALSE))
  BY <1>1, FlushIs
<1>3. CASE pieces = <<>>
  <2>1. ToSet(<<>>) = {}
    BY SingleChain
  <2> HIDE DEF pieces, blocks
  <2> QED
    BY <1>1, <1>2, <1>3, <2>1
<1>4. CASE pieces # <<>>
  <2> DEFINE b == Block(pieces, FALSE)
  <2>1. b \in Blocks /\ b.text = pieces /\ b.heading = FALSE
    <3>1. pieces \in Texts
      BY <1>1 DEF Pending
    <3>2. b \in Blocks
      BY <3>1, BlockType
    <3> QED
      BY <3>2 DEF Block
  <2>2. Whole(b)
    BY <1>1, PiecesAreWhole
  <2> HIDE DEF b, blocks, pieces
  <2>3. \A u \in ToSet(pieces) : \E i \in 1..n : u = <<i>> /\ doc.content[i] = "text"
                                                 /\ ~Broken(doc.content, i, n)
    BY <1>1 DEF Pending
  <2>4. /\ blocks \in Seq(Blocks) /\ Chain(blocks, A)
        /\ \A c \in ToSet(blocks) :
              /\ Whole(c) /\ c.text # <<>>
              /\ \A u \in ToSet(c.text) :
                    \E i \in 1..n : u = <<i>> /\ (c.heading <=> doc.content[i] = "<h/>")
    BY <1>1, Zenon DEF HeldIn
  <2>5. ASSUME NEW c \in ToSet(blocks) PROVE <<c, b>> \in A
    <3>1. c \in Blocks
      BY <2>4, ToSetIs
    <3>2. ASSUME NEW u \in ToSet(c.text), NEW v \in ToSet(b.text)
          PROVE  \E i, j \in Nat : /\ i < j /\ u = <<i>> /\ v = <<j>>
                                   /\ i = 0 \/ Broken(doc.content, i, j)
      <4>1. PICK i \in 1..n : u = <<i>>
        BY <2>4
      <4>2. u[1] = i
        BY <4>1
      <4>3. u \in UnitsIn(ToSet(blocks))
        BY DEF UnitsIn
      <4>4. PICK k \in i..n : doc.content[k] \in Breaks
        BY <1>1, <4>2, <4>3 DEF Broken
      <4>5. PICK j \in 1..n : v = <<j>> /\ ~Broken(doc.content, j, n)
        BY <2>1, <2>3
      <4>6. ~(k \in j..n)
        BY <4>4, <4>5 DEF Broken
      <4>7. k \in i..j /\ i < j /\ i \in Nat /\ j \in Nat
        BY <4>6
      <4>8. Broken(doc.content, i, j)
        BY <4>4, <4>7 DEF Broken
      <4> QED
        BY <4>1, <4>5, <4>7, <4>8
    <3>3. <<c, b>> \in Apart
      BY <2>1, <3>1, <3>2, BlocksAreApart
    <3> QED
      BY <3>3
  <2> HIDE DEF A
  <2> DEFINE new == Append(blocks, b)
             B == Blocks
  <2>6. new \in Seq(Blocks) /\ ToSet(new) = ToSet(blocks) \cup {b} /\ Chain(new, A)
    <3>1. blocks \in Seq(B) /\ b \in B
      BY <2>1, <2>4
    <3> HIDE DEF B
    <3>2. /\ Append(blocks, b) \in Seq(B)
          /\ ToSet(Append(blocks, b)) = ToSet(blocks) \cup {b}
          /\ Chain(blocks, A) /\ (\A y \in ToSet(blocks) : <<y, b>> \in A)
             => Chain(Append(blocks, b), A)
      BY <3>1, AppendChain
    <3> QED
      BY <2>4, <2>5, <3>2 DEF B
  <2>7. UnitsIn(ToSet(new)) = UnitsIn(ToSet(blocks)) \cup ToSet(b.text)
    BY <2>1, <2>4, UnitsInAppend
  <2>8. flushed.blocks = new
    BY <1>2, <1>4 DEF b
  <2> HIDE DEF new
  <2>9. \A u \in ToSet(b.text) :
           \E i \in 1..n : u = <<i>> /\ (b.heading <=> doc.content[i] = "<h/>")
    BY <2>1, <2>3
  <2>10. b.text # <<>>
    BY <1>4, <2>1
  <2>11. \A c \in ToSet(new) : c \in ToSet(blocks) \/ c = b
    BY <2>6
  <2>12. HeldIn(new, n)
    BY <2>2, <2>4, <2>6, <2>9, <2>10, <2>11, Zenon DEF HeldIn, A
  <2> QED
    BY <1>1, <2>1, <2>7, <2>8, <2>12
<1> QED
  BY <1>3, <1>4

\* A tag that neither says anything nor ends a line.
LEMMA SilentKeeps ==
    ASSUME doc.format = "html", NEW n \in Nat, NEW walk, WalkKeeps(walk, n), NEW next \in Walks,
           next.pieces = walk.pieces, next.blocks = walk.blocks,
           doc.content[n + 1] \notin Breaks, doc.content[n + 1] \notin Emits
    PROVE  WalkKeeps(next, n + 1)
<1> DEFINE m == n + 1
<1>1. /\ HeldIn(walk.blocks, n) /\ Pending(walk.pieces, n)
      /\ \A u \in UnitsIn(ToSet(walk.blocks)) : Broken(doc.content, u[1], n)
      /\ UnitsIn(ToSet(walk.blocks)) \cup ToSet(walk.pieces) = Told(n)
  BY DEF WalkKeeps
<1>2. HeldIn(next.blocks, m)
  BY <1>1, HeldMore
<1>3. Pending(next.pieces, m)
  <2>1. ASSUME NEW i \in 1..n, ~Broken(doc.content, i, n) PROVE i \in 1..m /\ ~Broken(doc.content, i, m)
    BY <2>1, BrokenIs
  <2> HIDE DEF m
  <2> QED
    BY <1>1, <2>1 DEF Pending
<1>4. \A u \in UnitsIn(ToSet(next.blocks)) : Broken(doc.content, u[1], m)
  <2>1. \A i : Broken(doc.content, i, n) => Broken(doc.content, i, m)
    <3>1. ASSUME NEW i, NEW k \in i..n PROVE k \in i..m
      OBVIOUS
    <3> QED
      BY <3>1 DEF Broken
  <2> QED
    BY <1>1, <2>1
<1>5. Told(m) = Told(n)
  BY ToldMore
<1> QED
  BY <1>1, <1>2, <1>3, <1>4, <1>5 DEF WalkKeeps

\* No pieces, no units.
LEMMA NothingPends == ASSUME NEW n PROVE Pending(<<>>, n) /\ ToSet(<<>>) = {}
<1>1. ToSet(<<>>) = {} /\ Chain(<<>>, Ordered)
  BY SingleChain
<1>2. <<>> \in Texts
  BY DEF Texts
<1> QED
  BY <1>1, <1>2 DEF Pending

\* The units of the first n tags are broken off where a line ends.
LEMMA EndsTheLine ==
    ASSUME NEW n \in Nat, doc.content[n + 1] \in Breaks
    PROVE  \A u \in Told(n) : Broken(doc.content, u[1], n + 1)
<1> SUFFICES ASSUME NEW u \in Told(n) PROVE Broken(doc.content, u[1], n + 1)
  OBVIOUS
<1>1. PICK i \in 1..n : u = <<i>>
  BY DEF Told
<1>2. u[1] = i /\ i \in Nat /\ i <= n + 1
  BY <1>1
<1> QED
  BY <1>2, BrokenIs

\* A tag that ends a line.
LEMMA EndKeeps ==
    ASSUME doc.format = "html", NEW n \in Nat, NEW walk, WalkKeeps(walk, n), NEW next \in Walks,
           next.pieces = <<>>, next.blocks = FlushPieces(walk).blocks,
           doc.content[n + 1] \in Breaks, doc.content[n + 1] \notin Emits
    PROVE  WalkKeeps(next, n + 1)
<1>1. HeldIn(next.blocks, n) /\ UnitsIn(ToSet(next.blocks)) = Told(n)
  BY FlushHolds
<1>2. HeldIn(next.blocks, n + 1)
  BY <1>1, HeldMore
<1>3. Pending(next.pieces, n + 1) /\ ToSet(next.pieces) = {}
  BY NothingPends
<1>4. \A u \in UnitsIn(ToSet(next.blocks)) : Broken(doc.content, u[1], n + 1)
  BY <1>1, EndsTheLine
<1>5. Told(n + 1) = Told(n)
  BY ToldMore
<1> QED
  BY <1>1, <1>2, <1>3, <1>4, <1>5 DEF WalkKeeps

\* A text.
LEMMA TextKeeps ==
    ASSUME doc.format = "html", NEW n \in Nat, NEW walk, WalkKeeps(walk, n), NEW next \in Walks,
           next.pieces = Append(walk.pieces, <<n + 1>>), next.blocks = walk.blocks,
           doc.content[n + 1] = "text"
    PROVE  WalkKeeps(next, n + 1)
<1> DEFINE m == n + 1
           w == <<m>>
           O == Ordered
           U == Seq(Nat)
           pieces == walk.pieces
<1>1. /\ HeldIn(walk.blocks, n) /\ Pending(pieces, n)
      /\ \A u \in UnitsIn(ToSet(walk.blocks)) : Broken(doc.content, u[1], n)
      /\ UnitsIn(ToSet(walk.blocks)) \cup ToSet(pieces) = Told(n)
  BY DEF WalkKeeps
<1>2. HeldIn(next.blocks, m)
  BY <1>1, HeldMore
<1>3. doc.content[m] \notin Breaks /\ doc.content[m] \in Emits
  BY DEF Breaks, Emits
<1>4. m \in Nat /\ \A i \in 1..n : i \in Nat /\ i < m /\ i \in 1..m /\ m \in 1..m
  OBVIOUS
<1>5. w \in U
  OBVIOUS
<1>6. ~Broken(doc.content, m, m)
  <2>1. \A k \in m..m : k = m
    OBVIOUS
  <2> QED
    BY <1>3, <2>1 DEF Broken
<1>7. \A u \in ToSet(pieces) : <<u, w>> \in O
  <2> SUFFICES ASSUME NEW u \in ToSet(pieces) PROVE <<u, w>> \in O
    OBVIOUS
  <2>1. PICK i \in 1..n : u = <<i>>
    BY <1>1 DEF Pending
  <2>2. <<<<i>>, <<m>>>> \in Ordered
    BY <1>4, UnitsOfPage
  <2> QED
    BY <2>1, <2>2
<1>8. \A i \in 1..n : ~Broken(doc.content, i, n) => ~Broken(doc.content, i, m)
  BY <1>3, BrokenIs
<1>9. \A i : Broken(doc.content, i, n) => Broken(doc.content, i, m)
  <2>1. ASSUME NEW i, NEW k \in i..n PROVE k \in i..m
    OBVIOUS
  <2> QED
    BY <2>1 DEF Broken
<1>10. Told(m) = Told(n) \cup {w}
  BY <1>3, ToldMore
<1>11. 1 <= m /\ m \in 1..m
  OBVIOUS
<1> HIDE DEF w, O, U, pieces, m
<1>12. pieces \in Seq(U) /\ Chain(pieces, O)
  BY <1>1 DEF Pending, Texts, U, O
<1> DEFINE new == Append(pieces, w)
<1>13. new \in Seq(U) /\ ToSet(new) = ToSet(pieces) \cup {w} /\ Chain(new, O)
  <2>1. /\ Append(pieces, w) \in Seq(U)
        /\ ToSet(Append(pieces, w)) = ToSet(pieces) \cup {w}
        /\ Chain(pieces, O) /\ (\A y \in ToSet(pieces) : <<y, w>> \in O) => Chain(Append(pieces, w), O)
    BY <1>5, <1>12, AppendChain
  <2> QED
    BY <1>7, <1>12, <2>1
<1>14. next.pieces = new
  BY DEF pieces, w, m
<1> HIDE DEF new
<1>15. \A u \in ToSet(new) :
          \E i \in 1..m : u = <<i>> /\ doc.content[i] = "text" /\ ~Broken(doc.content, i, m)
  <2>1. \A u \in ToSet(pieces) :
           \E i \in 1..m : u = <<i>> /\ doc.content[i] = "text" /\ ~Broken(doc.content, i, m)
    BY <1>1, <1>4, <1>8 DEF Pending
  <2>2. m \in 1..m /\ w = <<m>> /\ doc.content[m] = "text" /\ ~Broken(doc.content, m, m)
    BY <1>6, <1>11 DEF w, m
  <2> QED
    BY <1>13, <2>1, <2>2
<1>16. Pending(next.pieces, m)
  BY <1>13, <1>14, <1>15 DEF Pending, Texts, U, O
<1>17. \A u \in UnitsIn(ToSet(next.blocks)) : Broken(doc.content, u[1], m)
  BY <1>1, <1>9
<1>18. UnitsIn(ToSet(next.blocks)) \cup ToSet(next.pieces) = Told(m)
  BY <1>1, <1>10, <1>13, <1>14
<1>19. WalkKeeps(next, m)
  BY <1>2, <1>16, <1>17, <1>18 DEF WalkKeeps
<1> QED
  BY <1>19 DEF m

\* A heading or a preformatted text, that stands on lines of its own.
LEMMA BlockKeeps ==
    ASSUME doc.format = "html", NEW n \in Nat, NEW walk, WalkKeeps(walk, n), NEW next \in Walks,
           next.pieces = <<>>,
           next.blocks = Append(FlushPieces(walk).blocks,
                                Block(<<<<n + 1>>>>, doc.content[n + 1] = "<h/>")),
           doc.content[n + 1] \in {"<h/>", "<pre/>"}
    PROVE  WalkKeeps(next, n + 1)
<1> DEFINE m == n + 1
           w == <<m>>
           heading == doc.content[m] = "<h/>"
           b == Block(<<w>>, heading)
           blocks == FlushPieces(walk).blocks
           A == Apart
           B == Blocks
<1>1. HeldIn(blocks, n) /\ UnitsIn(ToSet(blocks)) = Told(n)
  BY FlushHolds
<1>2. HeldIn(blocks, m)
  BY <1>1, HeldMore
<1>3. doc.content[m] \in Breaks /\ doc.content[m] \in Emits
  BY DEF Breaks, Emits
<1>4. \A u \in Told(n) : Broken(doc.content, u[1], m)
  BY <1>3, EndsTheLine
<1>5. b \in B /\ b.text = <<w>> /\ b.heading = heading
  <2>1. <<<<m>>>> \in Texts /\ <<<<m>>>> # <<>>
    BY UnitIsText
  <2>2. b \in B
    BY <2>1, BlockType
  <2> QED
    BY <2>2 DEF Block
<1>6. Whole(b) /\ ToSet(b.text) = {w}
  BY SmallIsWhole
<1>7. m \in Nat /\ m \in 1..m /\ w[1] = m
  OBVIOUS
<1>8. Told(m) = Told(n) \cup {w}
  BY <1>3, ToldMore
<1> HIDE DEF b, blocks, w
<1>9. blocks \in Seq(B) /\ Chain(blocks, A)
  BY <1>2 DEF HeldIn
<1>10. ASSUME NEW c \in ToSet(blocks) PROVE <<c, b>> \in A
  <2>1. c \in B
    <3> HIDE DEF B
    <3> QED
      BY <1>9, ToSetIs
  <2>2. ASSUME NEW u \in ToSet(c.text), NEW v \in ToSet(b.text)
        PROVE  \E i, j \in Nat : /\ i < j /\ u = <<i>> /\ v = <<j>>
                                 /\ i = 0 \/ Broken(doc.content, i, j)
    <3>1. PICK i \in 1..n : u = <<i>>
      BY <1>1, Zenon DEF HeldIn
    <3>2. u \in Told(n) /\ u[1] = i
      BY <1>1, <3>1 DEF UnitsIn
    <3>3. Broken(doc.content, i, m)
      BY <1>4, <3>2
    <3>4. i \in Nat /\ i < m
      OBVIOUS
    <3>5. v = <<m>>
      BY <1>6 DEF w
    <3> HIDE DEF m
    <3> QED
      BY <1>7, <3>1, <3>3, <3>4, <3>5
  <2>3. <<c, b>> \in Apart
    BY <1>5, <2>1, <2>2, BlocksAreApart
  <2> QED
    BY <2>3
<1> DEFINE new == Append(blocks, b)
<1>11. UnitsIn(ToSet(new)) = UnitsIn(ToSet(blocks)) \cup ToSet(b.text)
  BY <1>5, <1>9, UnitsInAppend
<1> HIDE DEF A, B
<1>12. new \in Seq(B) /\ ToSet(new) = ToSet(blocks) \cup {b} /\ Chain(new, A)
  <2>1. /\ Append(blocks, b) \in Seq(B)
        /\ ToSet(Append(blocks, b)) = ToSet(blocks) \cup {b}
        /\ Chain(blocks, A) /\ (\A y \in ToSet(blocks) : <<y, b>> \in A) => Chain(Append(blocks, b), A)
    BY <1>5, <1>9, AppendChain
  <2> QED
    BY <1>9, <1>10, <2>1
<1>13. next.blocks = new
  BY DEF b, w, blocks
<1> HIDE DEF new
<1>14. \A u \in ToSet(b.text) :
          \E i \in 1..m : u = <<i>> /\ (b.heading <=> doc.content[i] = "<h/>")
  <2>1. w = <<m>>
    BY DEF w
  <2> HIDE DEF m
  <2> QED
    BY <1>5, <1>6, <1>7, <2>1
<1>15. b.text # <<>>
  BY <1>5
<1> HIDE DEF m, heading
<1>16. HeldIn(new, m)
  <2>1. \A c \in ToSet(new) : c \in ToSet(blocks) \/ c = b
    BY <1>12
  <2>2. \A c \in ToSet(blocks) :
           /\ Whole(c) /\ c.text # <<>>
           /\ \A u \in ToSet(c.text) :
                 \E i \in 1..m : u = <<i>> /\ (c.heading <=> doc.content[i] = "<h/>")
    BY <1>2, Zenon DEF HeldIn
  <2> QED
    BY <1>6, <1>12, <1>14, <1>15, <2>1, <2>2, Zenon DEF HeldIn, A, B
<1>17. Pending(next.pieces, m) /\ ToSet(next.pieces) = {}
  BY NothingPends
<1>18. UnitsIn(ToSet(new)) = Told(m)
  BY <1>1, <1>6, <1>8, <1>11
<1>19. \A u \in Told(m) : Broken(doc.content, u[1], m)
  <2>1. Broken(doc.content, m, m)
    <3>1. m \in m..m
      BY <1>7
    <3> QED
      BY <1>3, <3>1 DEF Broken
  <2> QED
    BY <1>4, <1>7, <1>8, <2>1
<1>20. WalkKeeps(next, m)
  BY <1>13, <1>16, <1>17, <1>18, <1>19 DEF WalkKeeps
<1> QED
  BY <1>20 DEF m

\* A visit keeps the units, whatever the tag.
LEMMA VisitKeeps ==
    ASSUME doc.format = "html", NEW n \in Nat, NEW walk, WalkKeeps(walk, n),
           NEW inner, Spine(walk.stack, inner), NEW tag, tag = doc.content[n + 1],
           tag = "</div>" => inner # <<>> /\ Last(inner) = "<div>",
           tag = "</em>" => inner # <<>> /\ Last(inner) = "<em>",
           NEW next, next = VisitNode(walk, IF tag \in RemovedTags THEN "space" ELSE tag, n + 1)
    PROVE  WalkKeeps(next, n + 1) /\ Spine(next.stack, Nest(inner, tag))
<1> DEFINE m == n + 1
           shown == IF tag \in RemovedTags THEN "space" ELSE tag
           flushed == FlushPieces(walk)
<1>1. walk \in Walks /\ inner \in Seq(OpenTags) /\ m \in Nat
  BY DEF WalkKeeps, Spine
<1>2. next \in Walks
  BY <1>1, VisitNodeType
<1>3. VisitIs(walk, shown, m, flushed, next)
  <2>1. next = VisitNode(walk, shown, m) /\ flushed = FlushPieces(walk)
    OBVIOUS
  <2> HIDE DEF flushed, m, shown
  <2> QED
    BY <1>1, <2>1, Visited
<1>4. /\ tag \in OpenTags => Nest(inner, tag) = Append(inner, tag)
      /\ tag \in CloseTags => Nest(inner, tag) = Front(inner)
      /\ tag \notin OpenTags /\ tag \notin CloseTags => Nest(inner, tag) = inner
  BY <1>1, NestIs
<1>5. CASE tag = "text"
  <2>1. shown = "text" /\ tag \notin OpenTags /\ tag \notin CloseTags
    BY <1>5 DEF RemovedTags, OpenTags, BlockTags, CloseTags
  <2>2. next.pieces = Append(walk.pieces, <<m>>) /\ next.stack = walk.stack /\ next.blocks = walk.blocks
    BY <1>3, <2>1 DEF VisitIs
  <2>3. WalkKeeps(next, m)
    BY <1>2, <1>5, <2>2, TextKeeps
  <2> QED
    BY <1>4, <2>1, <2>2, <2>3
<1>6. CASE tag \in {"<h/>", "<pre/>"}
  <2>1. shown = tag /\ tag \notin OpenTags /\ tag \notin CloseTags
    BY <1>6 DEF RemovedTags, OpenTags, BlockTags, CloseTags
  <2>2. /\ next.pieces = <<>> /\ next.stack = walk.stack
        /\ next.blocks = Append(flushed.blocks, Block(<<<<m>>>>, tag = "<h/>"))
    BY <1>3, <1>6, <2>1 DEF VisitIs
  <2>3. WalkKeeps(next, m)
    BY <1>2, <1>6, <2>2, BlockKeeps
  <2> QED
    BY <1>4, <2>1, <2>2, <2>3
<1>7. CASE tag = "<div>"
  <2>1. shown = tag /\ tag \in OpenTags /\ tag \in Breaks /\ tag \notin Emits
    BY <1>7 DEF RemovedTags, OpenTags, BlockTags, CloseTags, Breaks, Emits
  <2>2. next.pieces = <<>> /\ next.stack = Append(walk.stack, TRUE) /\ next.blocks = flushed.blocks
    BY <1>3, <1>7, <2>1 DEF VisitIs
  <2>3. WalkKeeps(next, m)
    BY <1>2, <2>1, <2>2, EndKeeps
  <2>4. Spine(Append(walk.stack, tag = "<div>"), Append(inner, tag))
    BY <2>1, SpineGrows
  <2>5. (tag = "<div>") = TRUE
    BY <1>7
  <2> QED
    BY <1>4, <2>1, <2>2, <2>3, <2>4, <2>5
<1>8. CASE tag = "<em>"
  <2>1. shown = tag /\ tag \in OpenTags /\ tag \notin Breaks /\ tag \notin Emits
    BY <1>8 DEF RemovedTags, OpenTags, BlockTags, CloseTags, Breaks, Emits
  <2>2. next.pieces = walk.pieces /\ next.stack = Append(walk.stack, FALSE) /\ next.blocks = walk.blocks
    BY <1>3, <1>8, <2>1 DEF VisitIs
  <2>3. WalkKeeps(next, m)
    BY <1>2, <2>1, <2>2, SilentKeeps
  <2>4. Spine(Append(walk.stack, tag = "<div>"), Append(inner, tag))
    BY <2>1, SpineGrows
  <2>5. (tag = "<div>") = FALSE
    BY <1>8
  <2> QED
    BY <1>4, <2>1, <2>2, <2>3, <2>4, <2>5
<1>9. CASE tag \in CloseTags
  <2>1. /\ shown = tag /\ tag \notin Emits /\ tag \in {"</div>", "</em>"}
        /\ tag \in Breaks <=> tag = "</div>"
    BY <1>9 DEF RemovedTags, CloseTags, Breaks, Emits
  <2>2. inner # <<>>
    BY <2>1
  <2>3. Spine(Front(walk.stack), Front(inner)) /\ (Last(walk.stack) <=> Last(inner) = "<div>")
    BY <2>2, SpineShrinks
  <2>4. /\ next.stack = Front(walk.stack)
        /\ Last(walk.stack) => next.pieces = <<>> /\ next.blocks = flushed.blocks
        /\ ~Last(walk.stack) => next.pieces = walk.pieces /\ next.blocks = walk.blocks
    BY <1>3, <1>9, <2>1 DEF VisitIs
  <2>5. Last(walk.stack) <=> tag = "</div>"
    BY <2>1, <2>3
  <2>6. WalkKeeps(next, m)
    <3>1. CASE tag = "</div>"
      BY <1>2, <2>1, <2>4, <2>5, <3>1, EndKeeps
    <3>2. CASE tag # "</div>"
      BY <1>2, <2>1, <2>4, <2>5, <3>2, SilentKeeps
    <3> QED
      BY <3>1, <3>2
  <2> QED
    BY <1>4, <1>9, <2>3, <2>4, <2>6
<1>10. CASE tag \notin {"text", "<h/>", "<pre/>"} \cup OpenTags \cup CloseTags
  <2>1. shown \notin {"text", "<h/>", "<pre/>"} \cup OpenTags \cup CloseTags
    BY <1>10 DEF OpenTags, BlockTags, CloseTags
  <2>2. tag \notin OpenTags /\ tag \notin CloseTags /\ tag \notin Breaks /\ tag \notin Emits
    BY <1>10 DEF OpenTags, BlockTags, CloseTags, Breaks, Emits
  <2>3. next = walk
    BY <1>3, <2>1 DEF VisitIs
  <2>4. WalkKeeps(next, m)
    BY <1>2, <2>2, <2>3, SilentKeeps
  <2> QED
    BY <1>4, <2>2, <2>3, <2>4
<1>11. OpenTags = {"<div>", "<em>"}
  BY DEF OpenTags, BlockTags
<1> QED
  BY <1>5, <1>6, <1>7, <1>8, <1>9, <1>10, <1>11

\* All units of a page are in the blocks of its walk.
LEMMA WalkHolds ==
    ASSUME doc.format = "html", doc.content \in Seq(STRING), Nested(doc.content)
    PROVE  LET blocks == Walk([i \in DOMAIN doc.content |->
                                 IF doc.content[i] \in RemovedTags THEN "space" ELSE doc.content[i]])
           IN HeldIn(blocks, Len(doc.content)) /\ UnitsIn(ToSet(blocks)) = Told(Len(doc.content))
<1> DEFINE tags == doc.content
           N == Len(tags)
           shown == [i \in DOMAIN tags |-> IF tags[i] \in RemovedTags THEN "space" ELSE tags[i]]
           w == Walking(shown)
           o == Nesting(tags)
           S == {n \in Nat : n <= N => WalkKeeps(w[n], n) /\ Spine(w[n].stack, o[n])}
<1>1. N \in Nat /\ DOMAIN tags = 1..N
  OBVIOUS
<1>2. Len(shown) = N /\ \A n \in 1..N : shown[n] = IF tags[n] \in RemovedTags THEN "space" ELSE tags[n]
  BY <1>1 DEF RemovedTags
<1>3. /\ \A n \in 0..N : w[n] \in Walks
      /\ w[0] = [pieces |-> <<>>, stack |-> <<FALSE>>, blocks |-> <<>>]
      /\ \A n \in 1..N : w[n] = VisitNode(w[n - 1], shown[n], n)
  <2> HIDE DEF shown, N
  <2> QED
    BY <1>1, <1>2, WalkingSteps
<1>4. /\ o[0] = <<>>
      /\ \A n \in 1..N : o[n] = Nest(o[n - 1], tags[n])
  BY <1>1, NestingSteps
<1>5. \A n \in 1..N : /\ tags[n] = "</div>" => o[n - 1] # <<>> /\ Last(o[n - 1]) = "<div>"
                      /\ tags[n] = "</em>" => o[n - 1] # <<>> /\ Last(o[n - 1]) = "<em>"
  BY <1>1 DEF Nested
<1> HIDE DEF shown, w, o
<1>6. 0 \in S
  <2>1. w[0].pieces = <<>> /\ w[0].stack = <<FALSE>> /\ w[0].blocks = <<>> /\ w[0] \in Walks
    <3>1. 0 \in 0..N
      BY <1>1
    <3> DEFINE s == <<FALSE>>
    <3>2. w[0] = [pieces |-> <<>>, stack |-> s, blocks |-> <<>>]
      BY <1>3
    <3> HIDE DEF s
    <3>3. w[0].pieces = <<>> /\ w[0].stack = s /\ w[0].blocks = <<>>
      BY <3>2
    <3> QED
      BY <1>3, <3>1, <3>3 DEF s
  <2>2. Pending(<<>>, 0) /\ ToSet(<<>>) = {} /\ Chain(<<>>, Apart)
    BY NothingPends, SingleChain
  <2>3. <<>> \in Seq(Blocks)
    OBVIOUS
  <2>4. HeldIn(<<>>, 0)
    BY <2>2, <2>3 DEF HeldIn
  <2>5. UnitsIn({}) = {}
    BY DEF UnitsIn
  <2>6. Told(0) = {}
    BY DEF Told
  <2>7. WalkKeeps(w[0], 0)
    BY <2>1, <2>2, <2>4, <2>5, <2>6 DEF WalkKeeps
  <2>8. Spine(<<FALSE>>, <<>>)
    BY DEF Spine
  <2> QED
    BY <1>4, <2>1, <2>7, <2>8
<1>7. ASSUME NEW n \in Nat, n \in S PROVE n + 1 \in S
  <2> SUFFICES ASSUME n + 1 <= N
               PROVE  WalkKeeps(w[n + 1], n + 1) /\ Spine(w[n + 1].stack, o[n + 1])
    OBVIOUS
  <2>1. n + 1 \in 1..N /\ (n + 1) - 1 = n /\ n <= N
    BY <1>1
  <2>2. WalkKeeps(w[n], n) /\ Spine(w[n].stack, o[n])
    BY <1>7, <2>1
  <2> DEFINE tag == tags[n + 1]
             walk == w[n]
             inner == o[n]
             next == w[n + 1]
  <2>3. next = VisitNode(walk, IF tag \in RemovedTags THEN "space" ELSE tag, n + 1)
    BY <1>2, <1>3, <2>1
  <2>4. o[n + 1] = Nest(inner, tag)
    BY <1>4, <2>1
  <2>5. /\ tag = "</div>" => inner # <<>> /\ Last(inner) = "<div>"
        /\ tag = "</em>" => inner # <<>> /\ Last(inner) = "<em>"
    BY <1>5, <2>1
  <2>6. tag = doc.content[n + 1]
    OBVIOUS
  <2> HIDE DEF tag, walk, inner, next, N
  <2>7. WalkKeeps(walk, n) /\ Spine(walk.stack, inner)
    BY <2>2 DEF walk, inner
  <2>8. WalkKeeps(next, n + 1) /\ Spine(next.stack, Nest(inner, tag))
    BY <2>3, <2>5, <2>6, <2>7, VisitKeeps
  <2> QED
    BY <2>4, <2>8 DEF next
<1>8. WalkKeeps(w[N], N)
  <2>1. Nat \subseteq S
    <3> HIDE DEF S
    <3> QED
      BY <1>6, <1>7, NatInd
  <2> QED
    BY <1>1, <2>1
<1> DEFINE walk == w[N]
           flushed == FlushPieces(walk)
<1>9. HeldIn(flushed.blocks, N) /\ UnitsIn(ToSet(flushed.blocks)) = Told(N)
  BY <1>1, <1>8, FlushHolds
<1>10. Walk(shown) = flushed.blocks
  BY <1>2 DEF Walk, w
<1> QED
  BY <1>9, <1>10 DEF shown

-----------------------------------------------------------------------------

\* A page whose first block is a heading opens with a heading, and conversely.
LEMMA HeadingComesFirst ==
    ASSUME doc.format = "html", doc.content \in Seq(STRING), NEW blocks,
           HeldIn(blocks, Len(doc.content)), UnitsIn(ToSet(blocks)) = Told(Len(doc.content))
    PROVE  /\ UnitsIn(ToSet(blocks)) = Items({"text", "<pre/>", "<h/>"})
           /\ TitleIsRepeated <=> doc.title = "same" /\ blocks # <<>> /\ blocks[1].heading
<1> DEFINE N == Len(doc.content)
           M == Len(blocks)
           B == Blocks
           E == Items({"text", "<pre/>", "<h/>"})
<1>1. N \in Nat /\ DOMAIN doc.content = 1..N
  OBVIOUS
<1>2. /\ blocks \in Seq(B) /\ Chain(blocks, Apart)
      /\ \A b \in ToSet(blocks) :
            /\ Whole(b) /\ b.text # <<>>
            /\ \A u \in ToSet(b.text) :
                  \E i \in 1..N : u = <<i>> /\ (b.heading <=> doc.content[i] = "<h/>")
  BY Zenon DEF HeldIn
<1>3. Told(N) = E
  BY <1>1 DEF Told, Items, Emits
<1> HIDE DEF E
<1>4. M \in Nat /\ ToSet(blocks) = {blocks[k] : k \in 1..M} /\ \A k \in 1..M : blocks[k] \in B
  <2> HIDE DEF B
  <2>1. ToSet(blocks) = {blocks[k] : k \in 1..Len(blocks)} /\ Len(blocks) \in Nat
    BY <1>2, ToSetIs
  <2>2. \A k \in 1..Len(blocks) : blocks[k] \in B
    BY <1>2, ElementOfSeq
  <2> QED
    BY <2>1, <2>2
<1>5. ASSUME NEW k \in 1..M
      PROVE  /\ blocks[k].text \in Seq(Seq(Nat)) /\ Len(blocks[k].text) >= 1
             /\ Len(blocks[k].text) \in Nat
             /\ \A j \in 1..Len(blocks[k].text) :
                   \E i \in 1..N : /\ blocks[k].text[j] = <<i>>
                                   /\ blocks[k].heading <=> doc.content[i] = "<h/>"
             /\ Chain(blocks[k].text, Ordered)
             /\ ToSet(blocks[k].text) = {blocks[k].text[j] : j \in 1..Len(blocks[k].text)}
  <2> DEFINE b == blocks[k]
             t == b.text
             U == Seq(Nat)
  <2>1. b \in ToSet(blocks) /\ b \in B
    BY <1>4
  <2>2. t \in Seq(U) /\ t # <<>>
    BY <1>2, <2>1 DEF Blocks, Texts
  <2>3. Chain(t, Ordered)
    BY <1>2, <2>1 DEF Whole
  <2>4. \A u \in ToSet(t) : \E i \in 1..N : u = <<i>> /\ (b.heading <=> doc.content[i] = "<h/>")
    BY <1>2, <2>1
  <2> HIDE DEF U, t, b
  <2>5. ToSet(t) = {t[j] : j \in 1..Len(t)} /\ Len(t) \in Nat
    BY <2>2, ToSetIs
  <2>6. Len(t) >= 1
    BY <2>2, <2>5
  <2>7. \A j \in 1..Len(t) : \E i \in 1..N : t[j] = <<i>> /\ (b.heading <=> doc.content[i] = "<h/>")
    BY <2>4, <2>5
  <2> QED
    BY <2>2, <2>3, <2>5, <2>6, <2>7 DEF t, b, U
<1>6. ASSUME NEW u
      PROVE  u \in E <=> \E k \in 1..M : u \in ToSet(blocks[k].text)
  BY <1>3, <1>4 DEF UnitsIn
<1>7. ASSUME doc.title = "same", blocks # <<>>, blocks[1].heading
      PROVE  TitleIsRepeated
  <2>1. 1 \in 1..M
    BY <1>2, <1>4, <1>7
  <2>2. 1 \in 1..Len(blocks[1].text)
    BY <1>5, <2>1
  <2> DEFINE h == blocks[1].text[1]
  <2>3. PICK i \in 1..N : h = <<i>> /\ doc.content[i] = "<h/>"
    BY <1>5, <1>7, <2>1, <2>2
  <2>4. h \in Items({"<h/>"}) /\ h[1] = i
    BY <1>1, <2>3 DEF Items
  <2>5. h \in ToSet(blocks[1].text)
    BY <1>5, <2>1, <2>2
  <2>6. ASSUME NEW u \in E PROVE i <= u[1]
    <3>1. PICK k \in 1..M : u \in ToSet(blocks[k].text)
      BY <1>6
    <3>2. PICK l \in 1..Len(blocks[k].text) : u = blocks[k].text[l]
      BY <1>5, <3>1, ZenonT(60)
    <3>3. PICK j \in 1..N : u = <<j>>
      BY <1>5, <3>2
    <3>4. u = h \/ <<h, u>> \in Ordered
      <4>1. CASE k = 1
        <5>1. CASE l = 1
          BY <3>2, <4>1, <5>1
        <5>2. CASE l # 1
          <6>1. 1 < l /\ 1 \in 1..Len(blocks[1].text) /\ l \in 1..Len(blocks[1].text)
            BY <2>2, <4>1, <5>2
          <6>2. Chain(blocks[1].text, Ordered)
            BY <1>5, <2>1
          <6>3. <<blocks[1].text[1], blocks[1].text[l]>> \in Ordered
            BY <6>1, <6>2 DEF Chain
          <6> QED
            BY <3>2, <4>1, <6>3
        <5> QED
          BY <5>1, <5>2
      <4>2. CASE k # 1
        <5>1. 1 < k
          BY <4>2
        <5>2. <<blocks[1], blocks[k]>> \in Apart
          BY <1>2, <2>1, <5>1 DEF Chain
        <5> QED
          BY <2>5, <3>1, <5>2 DEF Apart
      <4> QED
        BY <4>1, <4>2
    <3>5. ~(j < i)
      <4> SUFFICES ASSUME j < i PROVE FALSE
        OBVIOUS
      <4>3. i \in Nat /\ j \in Nat
        BY <1>1
      <4>1. <<<<i>>, <<j>>>> \notin Ordered
        BY <4>3, UnitsOfPage
      <4>2. u[1] = j
        BY <3>3
      <4> QED
        BY <2>3, <2>4, <3>3, <3>4, <4>1, <4>2
    <3>6. u[1] = j
      BY <3>3
    <3> QED
      BY <3>5, <3>6
  <2> HIDE DEF h
  <2> QED
    BY <1>7, <2>4, <2>6 DEF TitleIsRepeated, E
<1>8. ASSUME TitleIsRepeated
      PROVE  doc.title = "same" /\ blocks # <<>> /\ blocks[1].heading
  <2>1. PICK h \in Items({"<h/>"}) : \A u \in E : h[1] <= u[1]
    BY <1>8 DEF TitleIsRepeated, E
  <2>2. PICK i \in 1..N : h = <<i>> /\ doc.content[i] = "<h/>"
    BY <1>1 DEF Items
  <2>3. h \in E /\ h[1] = i
    BY <1>1, <2>2 DEF Items, E
  <2>4. PICK k \in 1..M : h \in ToSet(blocks[k].text)
    BY <1>6, <2>3
  <2>5. k = 1
    <3> SUFFICES ASSUME k # 1 PROVE FALSE
      OBVIOUS
    <3>1. 1 < k /\ 1 \in 1..M
      OBVIOUS
    <3>2. 1 \in 1..Len(blocks[1].text)
      BY <1>5, <3>1
    <3> DEFINE u == blocks[1].text[1]
    <3>3. PICK j \in 1..N : u = <<j>>
      BY <1>5, <3>1, <3>2
    <3>4. u \in ToSet(blocks[1].text)
      BY <1>5, <3>1, <3>2
    <3>5. <<blocks[1], blocks[k]>> \in Apart
      BY <1>2, <3>1 DEF Chain
    <3>6. <<u, h>> \in Ordered
      BY <2>4, <3>4, <3>5 DEF Apart
    <3>7. u \in E /\ u[1] = j
      BY <1>6, <3>1, <3>3, <3>4
    <3>8. i <= j
      BY <2>1, <2>3, <3>7
    <3>9. CASE i = j
      <4>1. <<u, u>> \in Ordered
        BY <2>2, <3>3, <3>6, <3>9
      <4> QED
        BY <4>1 DEF Ordered
    <3>10. CASE i < j
      <4>2. i \in Nat /\ j \in Nat
        BY <1>1
      <4>1. <<<<j>>, <<i>>>> \notin Ordered
        BY <3>10, <4>2, UnitsOfPage
      <4> QED
        BY <2>2, <3>3, <3>6, <4>1
    <3> QED
      BY <3>8, <3>9, <3>10
  <2>6. PICK l \in 1..Len(blocks[1].text) : h = blocks[1].text[l]
    <3>1. 1 \in 1..M /\ h \in ToSet(blocks[1].text)
      BY <2>4, <2>5
    <3>2. ToSet(blocks[1].text) = {blocks[1].text[j] : j \in 1..Len(blocks[1].text)}
      BY <1>5, <3>1
    <3> QED
      BY <3>1, <3>2
  <2>7. PICK i2 \in 1..N : h = <<i2>> /\ (blocks[1].heading <=> doc.content[i2] = "<h/>")
    BY <1>5, <2>5, <2>6, ZenonT(60)
  <2>8. h[1] = i2
    BY <2>7
  <2>9. blocks[1].heading
    BY <2>2, <2>3, <2>7, <2>8
  <2>10. blocks # <<>>
    BY <1>4, <2>4
  <2> QED
    BY <1>8, <2>9, <2>10 DEF TitleIsRepeated
<1>9. UnitsIn(ToSet(blocks)) = E
  BY <1>3
<1> QED
  BY <1>7, <1>8, <1>9 DEF E

\* HTML.
LEMMA HtmlIsKept ==
    ASSUME doc.format = "html", doc.content \in Seq(STRING), Nested(doc.content)
    PROVE  AllKept(GroupBlocks(HtmlBlocks(doc.content, doc.title)))
<1> DEFINE N == Len(doc.content)
           blocks == Walk([i \in DOMAIN doc.content |->
                             IF doc.content[i] \in RemovedTags THEN "space" ELSE doc.content[i]])
           duplicate == doc.title = "same" /\ blocks # <<>> /\ blocks[1].heading
           title == Block(<<<<0>>>>, TRUE)
           all == <<title>> \o blocks
           html == HtmlBlocks(doc.content, doc.title)
           E == Items({"text", "<pre/>", "<h/>"})
           A == Apart
           B == Blocks
<1>1. HeldIn(blocks, N) /\ UnitsIn(ToSet(blocks)) = Told(N)
  BY WalkHolds
<1>2. html = IF doc.title = "none" \/ duplicate THEN blocks ELSE all
  BY DEF HtmlBlocks
<1> HIDE DEF blocks, html
<1>3. UnitsIn(ToSet(blocks)) = E /\ (TitleIsRepeated <=> duplicate)
  BY <1>1, HeadingComesFirst
<1>4. Units = E \cup (IF doc.title = "none" \/ TitleIsRepeated THEN {} ELSE {<<0>>})
  BY Zenon DEF Units
<1>5. /\ blocks \in Seq(B) /\ Chain(blocks, A)
      /\ \A b \in ToSet(blocks) : Whole(b)
      /\ \A b \in ToSet(blocks) : \A u \in ToSet(b.text) : \E i \in 1..N : u = <<i>>
  BY <1>1, Zenon DEF HeldIn
<1> HIDE DEF E, duplicate
<1>6. CASE doc.title = "none" \/ duplicate
  <2>1. html = blocks /\ Units = E
    BY <1>2, <1>3, <1>4, <1>6
  <2> QED
    BY <1>3, <1>5, <2>1, GroupedIsKept DEF html
<1>7. CASE ~(doc.title = "none" \/ duplicate)
  <2>1. html = all /\ Units = E \cup {<<0>>}
    BY <1>2, <1>3, <1>4, <1>7
  <2>2. title \in B /\ title.text = <<<<0>>>>
    <3>1. <<<<0>>>> \in Texts /\ <<<<0>>>> # <<>>
      BY UnitIsText, 0 \in Nat
    <3>2. title \in B
      BY <3>1, BlockType
    <3> QED
      BY <3>2 DEF Block
  <2> DEFINE z == <<0>>
  <2>3. Whole(title) /\ ToSet(title.text) = {z}
    BY SmallIsWhole
  <2>4. z = <<0>>
    OBVIOUS
  <2> HIDE DEF title, z
  <2>5. ASSUME NEW c \in ToSet(blocks) PROVE <<title, c>> \in A
    <3>1. c \in B
      <4> HIDE DEF B
      <4> QED
        BY <1>5, ToSetIs
    <3>2. ASSUME NEW u \in ToSet(title.text), NEW v \in ToSet(c.text)
          PROVE  \E i, j \in Nat : /\ i < j /\ u = <<i>> /\ v = <<j>>
                                   /\ i = 0 \/ Broken(doc.content, i, j)
      <4>1. PICK j \in 1..N : v = <<j>>
        BY <1>5
      <4>2. j \in Nat /\ 0 < j /\ u = <<0>>
        BY <2>3, <2>4
      <4> QED
        BY <4>1, <4>2
    <3>3. <<title, c>> \in Apart
      BY <2>2, <3>1, <3>2, BlocksAreApart
    <3> QED
      BY <3>3
  <2> HIDE DEF A, B
  <2> DEFINE one == <<title>>
  <2>6. one \in Seq(B) /\ Chain(one, A) /\ ToSet(one) = {title}
    BY <2>2, SingleChain
  <2>7. Across(one, blocks, A)
    BY <2>5, <2>6 DEF Across
  <2> HIDE DEF one
  <2>8. /\ one \o blocks \in Seq(B)
        /\ ToSet(one \o blocks) = ToSet(one) \cup ToSet(blocks)
        /\ Chain(one, A) /\ Chain(blocks, A) /\ Across(one, blocks, A) => Chain(one \o blocks, A)
    BY <1>5, <2>6, ConcatChain
  <2>9. /\ html \in Seq(B) /\ Chain(html, A) /\ ToSet(html) = {title} \cup ToSet(blocks)
    BY <1>5, <2>1, <2>6, <2>7, <2>8 DEF one
  <2>10. \A b \in ToSet(html) : Whole(b)
    BY <1>5, <2>3, <2>9
  <2>11. UnitsIn(ToSet(html)) = Units
    <3>1. UnitsIn(ToSet(html)) = ToSet(title.text) \cup UnitsIn(ToSet(blocks))
      BY <2>9 DEF UnitsIn
    <3> QED
      BY <1>3, <2>1, <2>3, <2>4, <3>1
  <2>12. AllKept(GroupBlocks(html))
    BY <2>9, <2>10, <2>11, GroupedIsKept DEF A, B
  <2> QED
    BY <2>12 DEF html
<1> QED
  BY <1>6, <1>7

-----------------------------------------------------------------------------
(***************************************************************************)
(* All formats.                                                            *)
(***************************************************************************)

\* Whatever its format, the segments of a document keep its units.
LEMMA SegmentsOfAreKept ==
    ASSUME NEW format \in Formats, doc \in Documents[format]
    PROVE  AllKept(SegmentsOf(doc))
<1>1. /\ doc.format = format
      /\ doc.content \in IF format = "docx" THEN Seq(BodyItems) ELSE Seq(STRING)
      /\ format = "html" => Nested(doc.content)
  BY DocumentsAssumption
<1>2. CASE format = "html"
  <2>1. doc.format = "html" /\ doc.content \in Seq(STRING) /\ Nested(doc.content)
    BY <1>1, <1>2
  <2>2. SegmentsOf(doc) = GroupBlocks(HtmlBlocks(doc.content, doc.title))
    BY <2>1 DEF SegmentsOf
  <2> QED
    BY <2>1, <2>2, HtmlIsKept
<1>3. CASE format = "docx"
  <2>1. doc.format = "docx" /\ doc.content \in Seq(BodyItems)
    BY <1>1, <1>3
  <2>2. SegmentsOf(doc) = GroupBlocks(DocxBlocks(doc.content))
    BY <2>1 DEF SegmentsOf
  <2> QED
    BY <2>1, <2>2, DocxIsKept
<1>4. CASE format = "text"
  <2>1. doc.format = "text" /\ doc.content \in Seq(STRING)
    BY <1>1, <1>4
  <2>2. SegmentsOf(doc) = GroupBlocks(TextBlocks(doc.content))
    BY <2>1 DEF SegmentsOf
  <2> QED
    BY <2>1, <2>2, TextIsKept
<1>5. CASE format = "pdf"
  <2>1. doc.format = "pdf" /\ doc.content \in Seq(STRING)
    BY <1>1, <1>5
  <2>2. SegmentsOf(doc) = PdfSegments(doc.content)
    BY <2>1 DEF SegmentsOf
  <2> QED
    BY <2>1, <2>2, PdfIsKept
<1> QED
  BY <1>2, <1>3, <1>4, <1>5 DEF Formats

\* The stream ends by itself only when the extractor has no more segments.
ReadToTheEnd ==
    /\ task = "read" /\ result = "end" => rest = <<>>
    /\ outcome = "done" => rest = <<>> /\ task \in {"close", "ended"}

\* Every step keeps it.
LEMMA StepToTheEnd ==
    ASSUME ReadToTheEnd, [Next]_vars
    PROVE  ReadToTheEnd'
<1>1. CASE YieldSegment
  BY <1>1 DEF YieldSegment, ReadToTheEnd
<1>2. CASE ReadSegment
  BY <1>2 DEF ReadSegment, Return, ReadToTheEnd
<1>3. CASE EndReading
  BY <1>3 DEF EndReading, Return, ReadToTheEnd
<1>4. CASE ReadEnds
  BY <1>4 DEF ReadEnds, Await, ReadToTheEnd
<1>5. CASE Refuse \/ Start
  BY <1>5 DEF Refuse, Start, Await, ReadToTheEnd
<1>6. CASE DownloadFailed \/ Downloaded
  BY <1>6 DEF DownloadFailed, Downloaded, LeaveDownload, Await, ReadToTheEnd
<1>7. CASE Closed
  BY <1>7 DEF Closed, LeaveDownload, ReadToTheEnd
<1>8. CASE Consumer
  BY <1>8 DEF Consumer, AskNext, StopEarly, Await, ReadToTheEnd
<1>9. CASE Cancel
  BY <1>9 DEF Cancel, CancelDownload, CancelRead, CancelClose, LeaveDownload, ReadToTheEnd
<1>10. ASSUME NEW j \in Jobs, BeginJob(j) PROVE ReadToTheEnd'
  BY <1>10 DEF BeginJob, ReadToTheEnd
<1>11. ASSUME NEW j \in Jobs, EndFetch(j) PROVE ReadToTheEnd'
  BY <1>11 DEF EndFetch, Return, ReadToTheEnd
<1>12. CASE CloseGenerator
  BY <1>12 DEF CloseGenerator, Return, ReadToTheEnd
<1>13. CASE Collect
  BY <1>13 DEF Collect, ReadToTheEnd
<1>14. CASE UNCHANGED vars
  BY <1>14 DEF vars, ReadToTheEnd
<1> QED
  BY <1>1, <1>2, <1>3, <1>4, <1>5, <1>6, <1>7, <1>8, <1>9, <1>10, <1>11, <1>12, <1>13, <1>14
  DEF Next, Task, Executor, RunRead

\* What a consumer is given says what the document says, as far as it has read.
LEMMA ReadingIsRight == SegmentsInOrder /\ ReadToTheEnd => TextIsDelivered /\ LinesAreKept
<1> SUFFICES ASSUME SegmentsInOrder, ReadToTheEnd PROVE TextIsDelivered /\ LinesAreKept
  OBVIOUS
<1>1. AllKept(SegmentsOf(doc))
  BY SegmentsOfAreKept DEF SegmentsInOrder
<1>2. outcome = "done" => rest = <<>>
  BY DEF ReadToTheEnd
<1> QED
  BY <1>1, <1>2, DeliveredText

\* The invariant of reading, of every behaviour.
LEMMA ReadingInvariant == Spec => [](SegmentsInOrder /\ ReadToTheEnd)
<1>1. Init => SegmentsInOrder /\ ReadToTheEnd
  BY InitSegments DEF Init, ReadToTheEnd
<1>2. (SegmentsInOrder /\ ReadToTheEnd) /\ [Next]_vars => (SegmentsInOrder /\ ReadToTheEnd)'
  BY StepSegments, StepToTheEnd
<1> QED
  BY <1>1, <1>2, PTL DEF Spec

\* Whatever the document, the consumer is given what it says, once and in order,
\* as far as it has read, and all of it when the stream ends by itself.
THEOREM TheTextIsDelivered == Spec => []TextIsDelivered
BY ReadingInvariant, ReadingIsRight, PTL

\* Texts that markup or a table keeps apart are on lines of their own, and no
\* line is torn, in whatever was delivered of a document.
THEOREM TheLinesAreKept == Spec => []LinesAreKept
BY ReadingInvariant, ReadingIsRight, PTL
=================================================================================
