----------------------- MODULE RequestPipelineProofs -----------------------
(***************************************************************************)
(* Proofs about module RequestPipeline for every value of its constants.   *)
(*                                                                         *)
(* Every step is one of a single request or run, which goes from one       *)
(* record to another and takes or gives back the difference in places and  *)
(* connections (RequestMoves, RunMoves). NothingLeaks follows, and from it *)
(* the bounds of the type invariant, and from both that no more requests   *)
(* than fit in the server are between their check and their commit.        *)
(***************************************************************************)
EXTENDS RequestPipeline, FiniteSetTheorems, TLAPS

Place(v) == IF v.step # "idle" /\ Counted(v.kind) THEN 1 ELSE 0

RequestMoves(q, v) ==
    /\ req' = [req EXCEPT ![q] = v]
    /\ run' = run
    /\ active' = active + Place(v) - Place(req[q])
    /\ free' = free + HeldAt(req[q].step) - HeldAt(v.step)

RunMoves(r, v) ==
    /\ run' = [run EXCEPT ![r] = v]
    /\ req' = req
    /\ active' = active
    /\ free' = free + HeldAt(run[r].step) - HeldAt(v.step)

Moved(q, s) == [kind |-> req[q].kind, step |-> s, row |-> req[q].row]
RunMoved(r, s) == [step |-> s, row |-> run[r].row]

\* What the kind of a request says of its steps and its row.
Fits(v) ==
    /\ v.step \in {"absent", "counted", "inserted"} =>
          v.kind \in {"create", "initialize", "upload"}
    /\ v.step = "absent" => v.kind = "initialize"
    /\ v.kind = "upload" => v.row \in Rows

StepsFitKinds == \A q \in Requests : Fits(req[q])

\* Requests between their check and the commit of what it allowed.
Passed(q) == req[q].step \in {"counted", "inserted"}
ChatMakers == {q \in Requests : Passed(q) /\ ~Is(q, "upload")}
DocMakers(c) == {q \in Requests : Passed(q) /\ Is(q, "upload") /\ ChatOf(q) = c}

ChatQuota ==
    Cardinality(ChatIds("live")) + Cardinality(ChatMakers) <= MaxChats - 1 + Overlap

DocQuota(c) ==
    Cardinality(DocsOf(c)) + Cardinality(DocMakers(c)) <= MaxDocs - 1 + Overlap

IInv ==
    /\ TypeOK
    /\ StepsFitKinds
    /\ NothingLeaks
    /\ ChatQuota
    /\ \A c \in Chats : DocQuota(c)

----------------------------------------------------------------------------
(***************************************************************************)
(* Counting.                                                               *)
(***************************************************************************)
\* Two sets that differ at most in x.
LEMMA CountOne ==
    ASSUME NEW S, IsFiniteSet(S), NEW A \in SUBSET S, NEW B \in SUBSET S,
           NEW x, A \ {x} = B \ {x}
    PROVE  /\ Cardinality(A) \in Nat /\ Cardinality(B) \in Nat
           /\ Cardinality(B) = Cardinality(A) + (IF x \in B THEN 1 ELSE 0) - (IF x \in A THEN 1 ELSE 0)
<1>1. IsFiniteSet(A) /\ IsFiniteSet(B)
  BY FS_Subset
<1>2. Cardinality(A) \in Nat /\ Cardinality(B) \in Nat
  BY <1>1, FS_CardinalityType
<1>3. Cardinality(A \ {x}) = IF x \in A THEN Cardinality(A) - 1 ELSE Cardinality(A)
  BY <1>1, FS_RemoveElement
<1>4. Cardinality(B \ {x}) = IF x \in B THEN Cardinality(B) - 1 ELSE Cardinality(B)
  BY <1>1, FS_RemoveElement
<1>5. Cardinality(A \ {x}) = Cardinality(B \ {x})
  OBVIOUS
<1> QED BY <1>2, <1>3, <1>4, <1>5

\* Two finite sets that lose elements.
LEMMA CountsShrink ==
    ASSUME NEW A, IsFiniteSet(A), NEW B, IsFiniteSet(B),
           NEW A2 \in SUBSET A, NEW B2 \in SUBSET B
    PROVE  /\ Cardinality(A2) \in Nat /\ Cardinality(B2) \in Nat
           /\ Cardinality(A) \in Nat /\ Cardinality(B) \in Nat
           /\ Cardinality(A2) + Cardinality(B2) <= Cardinality(A) + Cardinality(B)
<1>1. IsFiniteSet(A2) /\ IsFiniteSet(B2)
  BY FS_Subset
<1>2. Cardinality(A2) <= Cardinality(A) /\ Cardinality(B2) <= Cardinality(B)
  BY FS_Subset
<1>3. /\ Cardinality(A2) \in Nat /\ Cardinality(B2) \in Nat
      /\ Cardinality(A) \in Nat /\ Cardinality(B) \in Nat
  BY <1>1, FS_CardinalityType
<1> QED BY <1>2, <1>3

\* An element of one set goes over to another.
LEMMA CountsTransfer ==
    ASSUME NEW A, IsFiniteSet(A), NEW B, IsFiniteSet(B), NEW x, NEW y \in B,
           NEW A2 \in SUBSET (A \cup {x}), NEW B2 \in SUBSET (B \ {y})
    PROVE  /\ Cardinality(A2) \in Nat /\ Cardinality(B2) \in Nat
           /\ Cardinality(A) \in Nat /\ Cardinality(B) \in Nat
           /\ Cardinality(A2) + Cardinality(B2) <= Cardinality(A) + Cardinality(B)
<1>1. /\ IsFiniteSet(A \cup {x}) /\ IsFiniteSet(B \ {y})
  BY FS_AddElement, FS_RemoveElement
<1>2. /\ Cardinality(A) \in Nat /\ Cardinality(B) \in Nat
  BY FS_CardinalityType
<1>4. Cardinality(A \cup {x}) =
        IF x \in A THEN Cardinality(A) ELSE Cardinality(A) + 1
  BY FS_AddElement
<1>5. Cardinality(B \ {y}) =
        IF y \in B THEN Cardinality(B) - 1 ELSE Cardinality(B)
  BY FS_RemoveElement
<1>3. /\ Cardinality(A2) + Cardinality(B2)
           <= Cardinality(A \cup {x}) + Cardinality(B \ {y})
      /\ Cardinality(A \cup {x}) \in Nat /\ Cardinality(B \ {y}) \in Nat
      /\ Cardinality(A2) \in Nat /\ Cardinality(B2) \in Nat
  BY <1>1, CountsShrink
<1> QED BY <1>2, <1>3, <1>4, <1>5

----------------------------------------------------------------------------
(***************************************************************************)
(* The shape of a step.                                                    *)
(***************************************************************************)
LEMMA HeldType == \A s \in Steps \cup RunSteps : HeldAt(s) \in 0..2
BY DEF HeldAt, Steps, RunSteps

LEMMA NoRequestType == NoRequest \in RequestType /\ NoRun \in RunType
BY DEF NoRequest, NoRun, RequestType, RunType, Kinds, Steps, RunSteps, NoRow

LEMMA EndMoves ==
    ASSUME TypeOK, NEW q \in Requests, ~At(q, "idle"), End(q)
    PROVE  RequestMoves(q, NoRequest)
BY DEF TypeOK, RequestType, RequestMoves, End, NoRequest, Place, HeldAt, At, Counted

LEMMA GotoMoves ==
    ASSUME TypeOK, NEW q \in Requests, NEW s \in Steps,
           ~At(q, "idle"), s # "idle", Goto(q, s), run' = run, active' = active,
           free' = free + HeldAt(req[q].step) - HeldAt(s)
    PROVE  RequestMoves(q, Moved(q, s)) /\ Moved(q, s) \in RequestType
<1>1. req[q] \in RequestType
  BY DEF TypeOK
<1>2. Moved(q, s) \in RequestType
  BY <1>1 DEF RequestType, Moved
<1>3. req' = [req EXCEPT ![q] = Moved(q, s)]
  <2>1. [req[q] EXCEPT !.step = s] = Moved(q, s)
    BY <1>1 DEF Moved, RequestType
  <2>2. req' = [req EXCEPT ![q] = [req[q] EXCEPT !.step = s]]
    BY DEF Goto
  <2> QED BY <2>1, <2>2
<1>4. Place(Moved(q, s)) = Place(req[q])
  BY DEF Place, Moved, At
<1>5. Place(req[q]) \in 0..1
  BY DEF Place
<1> QED BY <1>2, <1>3, <1>4, <1>5 DEF RequestMoves, TypeOK, Moved

\* What the step of a request that becomes v does to the rows.
Quiet(q, v) ==
    /\ UNCHANGED database
    /\ v.step \in {"counted", "inserted"} =>
          Passed(q) /\ v.kind = req[q].kind /\ v.row = req[q].row

ChatPasses(q, v) ==
    /\ UNCHANGED database
    /\ v = Moved(q, "counted") /\ ~Is(q, "upload")
    /\ Cardinality(ChatIds("live")) < MaxChats

DocPasses(q, v) ==
    /\ UNCHANGED database
    /\ v = Moved(q, "counted") /\ Is(q, "upload")
    /\ Cardinality(DocsOf(ChatOf(q))) < MaxDocs

ChatMade(q, v) ==
    /\ q \in ChatMakers /\ v = NoRequest
    /\ chat' = [chat EXCEPT ![ChatOf(q)] = "live"]
    /\ docs' = docs

DocMade(q, v) ==
    /\ q \in DocMakers(ChatOf(q)) /\ v = NoRequest
    /\ docs' = docs \cup {req[q].row}
    /\ chat' = chat

ChatGone(q, v) ==
    /\ v.step = "closing"
    /\ chat' = [chat EXCEPT ![ChatOf(q)] = "gone"]
    /\ docs' \in SUBSET docs

RowsStep(q, v) ==
    \/ Quiet(q, v) \/ ChatPasses(q, v) \/ DocPasses(q, v)
    \/ ChatMade(q, v) \/ DocMade(q, v) \/ ChatGone(q, v)

Becomes(q, v) == RequestMoves(q, v) /\ Fits(v) /\ RowsStep(q, v)

LEMMA EndsQuietly ==
    ASSUME TypeOK, NEW q \in Requests, ~At(q, "idle"), End(q), UNCHANGED database
    PROVE  \E v \in RequestType : Becomes(q, v)
<1>1. Fits(NoRequest) /\ Quiet(q, NoRequest)
  BY DEF Fits, NoRequest, Quiet
<1> QED BY <1>1, EndMoves, NoRequestType DEF Becomes, RowsStep

LEMMA GoesQuietly ==
    ASSUME TypeOK, StepsFitKinds, NEW q \in Requests, NEW s \in Steps,
           ~At(q, "idle"), s \notin {"idle", "absent", "counted", "inserted"},
           Goto(q, s), run' = run, active' = active,
           free' = free + HeldAt(req[q].step) - HeldAt(s), UNCHANGED database
    PROVE  \E v \in RequestType : Becomes(q, v)
<1>1. Fits(Moved(q, s)) /\ Quiet(q, Moved(q, s))
  BY DEF StepsFitKinds, Fits, Moved, Quiet
<1> QED BY <1>1, GotoMoves DEF Becomes, RowsStep

LEMMA ArrivalStep ==
    ASSUME TypeOK, NEW q \in Requests, ArriveAny(q)
    PROVE  \E v \in RequestType : Becomes(q, v)
<1>1. ASSUME NEW kind \in Kinds, NEW row \in (Chats \cup {NoChat}) \X (Names \cup {NoName}),
             kind = "upload" => row \in Rows, Arrive(q, kind, row)
      PROVE  \E v \in RequestType : Becomes(q, v)
  <2> DEFINE step == IF kind = "probe" THEN "begin" ELSE "auth"
             v == [kind |-> kind, step |-> step, row |-> row]
  <2>1. v \in RequestType
    BY DEF RequestType, Steps
  <2>2. req' = [req EXCEPT ![q] = v]
    BY <1>1 DEF Arrive
  <2>3. active' = active + Place(v) - Place(req[q])
    BY <1>1 DEF Arrive, Place, At, TypeOK
  <2>4. free' = free + HeldAt(req[q].step) - HeldAt(v.step)
    BY <1>1 DEF Arrive, HeldAt, At, TypeOK
  <2>5. RequestMoves(q, v)
    BY <1>1, <2>2, <2>3, <2>4 DEF Arrive, RequestMoves
  <2>6. Fits(v) /\ Quiet(q, v)
    BY <1>1 DEF Arrive, Fits, Quiet
  <2> QED BY <2>1, <2>5, <2>6 DEF Becomes, RowsStep
<1>2. CASE \E kind \in {"read", "probe"} : Arrive(q, kind, NoRow)
  BY <1>1, <1>2 DEF NoRow, Kinds
<1>3. CASE /\ FreshIds # {}
           /\ \E kind \in {"create", "initialize"} :
                 Arrive(q, kind, <<CHOOSE c \in FreshIds : TRUE, NoName>>)
  <2>1. (CHOOSE c \in FreshIds : TRUE) \in Chats
    BY <1>3 DEF FreshIds, ChatIds
  <2> QED BY <1>1, <1>3, <2>1 DEF Kinds
<1>4. CASE \E c \in Chats, n \in Names : chat[c] # "unused" /\ Arrive(q, "upload", <<c, n>>)
  BY <1>1, <1>4 DEF Kinds, Rows
<1>5. CASE \E c \in Chats : chat[c] # "unused" /\ Arrive(q, "delete", <<c, NoName>>)
  BY <1>1, <1>5 DEF Kinds
<1> QED BY <1>2, <1>3, <1>4, <1>5 DEF ArriveAny

LEMMA RequestStep ==
    ASSUME TypeOK, StepsFitKinds, NEW q \in Requests,
           ArriveAny(q) \/ Proceed(q) \/ Fail(q)
    PROVE  \E v \in RequestType : Becomes(q, v)
<1>0. req[q] \in RequestType /\ Fits(req[q]) /\ free \in Int
  BY DEF TypeOK, StepsFitKinds
<1>1. CASE ArriveAny(q)
  BY <1>1, ArrivalStep
<1>2. CASE Fail(q)
  BY <1>2, EndsQuietly DEF Fail
<1>3. CASE PoolTimeout(q)
  BY <1>3, EndsQuietly DEF PoolTimeout, Waiting, At
<1>4. CASE Finish(q)
  BY <1>4, EndsQuietly DEF Finish, At
<1>5. CASE Connect(q)
  <2> DEFINE s == Connected[req[q].step]
  <2>1. /\ s \in Steps /\ s \notin {"idle", "absent", "counted", "inserted"}
        /\ free - 1 = free + HeldAt(req[q].step) - HeldAt(s)
    BY <1>0, <1>5 DEF Connect, Waiting, Connected, Steps, HeldAt
  <2> QED BY <1>5, <2>1, GoesQuietly DEF Connect, Waiting, At
<1>6. CASE Authenticated(q)
  <2>1. free + 1 = free + HeldAt(req[q].step) - HeldAt("begin")
    BY <1>0, <1>6 DEF Authenticated, HeldAt, At
  <2> QED BY <1>6, <2>1, GoesQuietly DEF Authenticated, At, Steps
<1>7. CASE FindChat(q)
  <2>1. CASE End(q)
    BY <1>7, <2>1, EndsQuietly DEF FindChat, At
  <2>2. CASE Goto(q, "absent") /\ UNCHANGED <<active, free, run>>
    <3>1. free = free + HeldAt(req[q].step) - HeldAt("absent")
      BY <1>0, <1>7 DEF FindChat, HeldAt, At
    <3>2. Fits(Moved(q, "absent")) /\ Quiet(q, Moved(q, "absent"))
      BY <1>7 DEF FindChat, Fits, Moved, Quiet, Is
    <3> QED BY <1>7, <2>2, <3>1, <3>2, GotoMoves DEF FindChat, At, Steps, Becomes, RowsStep
  <2> QED BY <1>7, <2>1, <2>2 DEF FindChat
<1>8. CASE CountChats(q)
  <2>1. CASE End(q)
    BY <1>8, <2>1, EndsQuietly DEF CountChats, At
  <2>2. CASE /\ BelowLimit(Cardinality(ChatIds("live")), MaxChats)
             /\ Goto(q, "counted") /\ UNCHANGED <<active, free, run>>
    <3>1. free = free + HeldAt(req[q].step) - HeldAt("counted")
      BY <1>0, <1>8 DEF CountChats, HeldAt, At
    <3>2. Fits(Moved(q, "counted")) /\ ChatPasses(q, Moved(q, "counted"))
      BY <1>0, <1>8, <2>2 DEF CountChats, Fits, Moved, ChatPasses, Is, At, BelowLimit
    <3> QED BY <1>8, <2>2, <3>1, <3>2, GotoMoves DEF CountChats, At, Steps, Becomes, RowsStep
  <2> QED BY <1>8, <2>1, <2>2 DEF CountChats
<1>9. CASE CountDocs(q)
  <2>1. CASE End(q)
    BY <1>9, <2>1, EndsQuietly DEF CountDocs, At
  <2>2. CASE /\ BelowLimit(Cardinality(DocsOf(ChatOf(q))), MaxDocs)
             /\ Goto(q, "counted") /\ UNCHANGED <<active, free, run>>
    <3>1. free = free + HeldAt(req[q].step) - HeldAt("counted")
      BY <1>0, <1>9 DEF CountDocs, HeldAt, At
    <3>2. Fits(Moved(q, "counted")) /\ DocPasses(q, Moved(q, "counted"))
      BY <1>0, <1>9, <2>2 DEF CountDocs, Fits, Moved, DocPasses, Is, At, BelowLimit
    <3> QED BY <1>9, <2>2, <3>1, <3>2, GotoMoves DEF CountDocs, At, Steps, Becomes, RowsStep
  <2> QED BY <1>9, <2>1, <2>2 DEF CountDocs
<1>10. ASSUME At(q, "counted"), Goto(q, "inserted"), UNCHANGED <<active, free, database, run>>
       PROVE  \E v \in RequestType : Becomes(q, v)
  <2>1. free = free + HeldAt(req[q].step) - HeldAt("inserted")
    BY <1>0, <1>10 DEF HeldAt, At
  <2>2. Fits(Moved(q, "inserted")) /\ Quiet(q, Moved(q, "inserted"))
    BY <1>0, <1>10 DEF Fits, Moved, Quiet, At, Passed
  <2> QED BY <1>10, <2>1, <2>2, GotoMoves DEF At, Steps, Becomes, RowsStep
<1>11. CASE InsertChat(q)
  BY <1>10, <1>11 DEF InsertChat
<1>12. CASE InsertDoc(q)
  BY <1>10, <1>12, EndsQuietly DEF InsertDoc, At
<1>13. CASE CommitChat(q)
  <2>1. Fits(NoRequest) /\ ChatMade(q, NoRequest)
    BY <1>13 DEF CommitChat, Fits, NoRequest, ChatMade, ChatMakers, Passed, At
  <2> QED BY <1>13, <2>1, EndMoves, NoRequestType DEF CommitChat, At, Becomes, RowsStep
<1>14. CASE CommitDoc(q)
  <2>1. Fits(NoRequest) /\ DocMade(q, NoRequest)
    BY <1>14 DEF CommitDoc, Fits, NoRequest, DocMade, DocMakers, Passed, At
  <2> QED BY <1>14, <2>1, EndMoves, NoRequestType DEF CommitDoc, At, Becomes, RowsStep
<1>15. CASE DeleteFiles(q)
  <2>1. free = free + HeldAt(req[q].step) - HeldAt("nested")
    BY <1>0, <1>15 DEF DeleteFiles, HeldAt, At
  <2> QED BY <1>15, <2>1, EndsQuietly, GoesQuietly DEF DeleteFiles, At, Steps
<1>16. CASE DeleteRows(q)
  <2>1. free = free + HeldAt(req[q].step) - HeldAt("deleted")
    BY <1>0, <1>16 DEF DeleteRows, HeldAt, At
  <2> QED BY <1>16, <2>1, EndsQuietly, GoesQuietly DEF DeleteRows, At, Steps
<1>17. CASE CommitDeletion(q)
  <2>1. free + 1 = free + HeldAt(req[q].step) - HeldAt("closing")
    BY <1>0, <1>17 DEF CommitDeletion, HeldAt, At
  <2>2. Fits(Moved(q, "closing")) /\ ChatGone(q, Moved(q, "closing"))
    BY <1>0, <1>17 DEF CommitDeletion, Fits, Moved, ChatGone
  <2> QED BY <1>17, <2>1, <2>2, GotoMoves DEF CommitDeletion, At, Steps, Becomes, RowsStep
<1> QED
  BY <1>1, <1>2, <1>3, <1>4, <1>5, <1>6, <1>7, <1>8, <1>9, <1>11, <1>12, <1>13, <1>14,
     <1>15, <1>16, <1>17 DEF Proceed

LEMMA RunStepMoves ==
    ASSUME TypeOK, NEW r \in Runs, StartRun(r) \/ RunStep(r)
    PROVE  \E v \in RunType : RunMoves(r, v) /\ UNCHANGED database
<1>0. run[r] \in RunType /\ free \in Int
  BY DEF TypeOK
<1>1. CASE StartRun(r)
  <2>1. PICK d \in docs : run' = [run EXCEPT ![r] = [step |-> "begin", row |-> d]]
    BY <1>1 DEF StartRun
  <2> DEFINE v == [step |-> "begin", row |-> d]
  <2>2. v \in RunType
    BY DEF RunType, RunSteps, TypeOK
  <2>3. HeldAt(run[r].step) = 0 /\ HeldAt(v.step) = 0
    BY <1>1 DEF StartRun, HeldAt
  <2>4. /\ UNCHANGED <<active, req>>
        /\ free' = free + HeldAt(run[r].step) - HeldAt(v.step)
    BY <1>0, <1>1, <2>3 DEF StartRun
  <2>5. RunMoves(r, v)
    BY <2>1, <2>4 DEF RunMoves
  <2> QED BY <1>1, <2>2, <2>5 DEF StartRun
<1>2. ASSUME NEW s \in RunSteps, RunGoto(r, s), UNCHANGED <<active, database, req>>,
             free' = free + HeldAt(run[r].step) - HeldAt(s)
      PROVE  \E v \in RunType : RunMoves(r, v) /\ UNCHANGED database
  <2>1. RunMoved(r, s) \in RunType
    BY <1>0 DEF RunMoved, RunType
  <2>2. [run[r] EXCEPT !.step = s] = RunMoved(r, s)
    BY <1>0 DEF RunMoved, RunType
  <2>3. run' = [run EXCEPT ![r] = [run[r] EXCEPT !.step = s]]
    BY <1>2 DEF RunGoto
  <2>4. RunMoves(r, RunMoved(r, s))
    BY <1>2, <2>2, <2>3 DEF RunMoves, RunMoved
  <2> QED BY <1>2, <2>1, <2>4
<1>3. ASSUME EndRun(r)
      PROVE  \E v \in RunType : RunMoves(r, v) /\ UNCHANGED database
  <2>1. RunMoves(r, NoRun)
    BY <1>0, <1>3, HeldType DEF EndRun, RunMoves, NoRun, HeldAt
  <2> QED BY <1>3, <2>1, NoRequestType DEF EndRun
<1>4. CASE RunConnects(r)
  <2> DEFINE s == IF run[r].step = "begin" THEN "storing" ELSE "reporting"
  <2>1. s \in RunSteps /\ free - 1 = free + HeldAt(run[r].step) - HeldAt(s)
    BY <1>0, <1>4 DEF RunConnects, RunSteps, HeldAt
  <2> QED BY <1>2, <1>4, <2>1 DEF RunConnects
<1>5. CASE RunFails(r)
  <2>1. free = free + HeldAt(run[r].step) - HeldAt("report")
    BY <1>0, <1>5 DEF RunFails, HeldAt
  <2> QED BY <1>2, <1>5, <2>1 DEF RunFails, RunSteps
<1>6. CASE RunTimesOut(r) \/ RunEnds(r)
  BY <1>3, <1>6 DEF RunTimesOut, RunEnds
<1> QED BY <1>1, <1>4, <1>5, <1>6 DEF RunStep

----------------------------------------------------------------------------
(***************************************************************************)
(* Places and connections.                                                 *)
(***************************************************************************)
LEMMA CountsAreNaturals ==
    /\ Cardinality(InFlight) \in Nat
    /\ \A n \in {1, 2} : Cardinality(Holding(n)) \in Nat
    /\ \A n \in {1, 2} : Cardinality(RunsHolding(n)) \in Nat
<1>1. \A A \in SUBSET Requests : Cardinality(A) \in Nat
  BY PipelineAssumption, FS_Subset, FS_CardinalityType
<1>2. \A A \in SUBSET Runs : Cardinality(A) \in Nat
  BY PipelineAssumption, FS_Subset, FS_CardinalityType
<1> QED BY <1>1, <1>2 DEF InFlight, Holding, RunsHolding

LEMMA RequestLeaksNothing ==
    ASSUME TypeOK, NothingLeaks,
           NEW q \in Requests, NEW v \in RequestType, RequestMoves(q, v)
    PROVE  NothingLeaks'
<1> DEFINE old == HeldAt(req[q].step)
           new == HeldAt(v.step)
<1>1. /\ req' = [req EXCEPT ![q] = v] /\ req'[q] = v
      /\ \A p \in Requests \ {q} : req'[p] = req[p]
      /\ req[q] \in RequestType
  BY DEF TypeOK, RequestMoves
<1>2. old \in 0..2 /\ new \in 0..2
  BY <1>1, HeldType DEF RequestType
<1>3. Cardinality(InFlight') = Cardinality(InFlight) + Place(v) - Place(req[q])
  <2>1. InFlight' \in SUBSET Requests /\ InFlight \in SUBSET Requests
    BY DEF InFlight
  <2>2. InFlight \ {q} = InFlight' \ {q}
    BY <1>1 DEF InFlight, At
  <2>3. Place(v) = IF q \in InFlight' THEN 1 ELSE 0
    BY <1>1 DEF InFlight, At, Place
  <2>4. Place(req[q]) = IF q \in InFlight THEN 1 ELSE 0
    BY DEF InFlight, At, Place
  <2> HIDE DEF old, new
  <2> QED BY <2>1, <2>2, <2>3, <2>4, PipelineAssumption, CountOne
<1>4. ASSUME NEW n \in {1, 2}
      PROVE  Cardinality(Holding(n)') =
               Cardinality(Holding(n)) + (IF new >= n THEN 1 ELSE 0)
                                       - (IF old >= n THEN 1 ELSE 0)
  <2>1. Holding(n)' \in SUBSET Requests /\ Holding(n) \in SUBSET Requests
    BY DEF Holding
  <2>2. Holding(n) \ {q} = Holding(n)' \ {q}
    BY <1>1 DEF Holding
  <2>3. q \in Holding(n)' <=> new >= n
    BY <1>1 DEF Holding
  <2>4. q \in Holding(n) <=> old >= n
    BY DEF Holding
  <2> HIDE DEF old, new
  <2> QED BY <2>1, <2>2, <2>3, <2>4, PipelineAssumption, CountOne
<1>5. RunsHolding(1)' = RunsHolding(1) /\ RunsHolding(2)' = RunsHolding(2)
  BY DEF RequestMoves, RunsHolding
<1>6. /\ active' = active + Place(v) - Place(req[q])
      /\ free' = free + old - new
  BY DEF RequestMoves
<1>7. Place(v) \in 0..1 /\ Place(req[q]) \in 0..1 /\ PoolSize \in Nat
  BY PipelineAssumption DEF Place
<1> HIDE DEF old, new
<1>8. active' = Cardinality(InFlight')
  BY <1>3, <1>6, <1>7, CountsAreNaturals DEF NothingLeaks
<1>9. free' = PoolSize - (Cardinality(Holding(1)') + Cardinality(Holding(2)')
                  + Cardinality(RunsHolding(1)') + Cardinality(RunsHolding(2)'))
  <2>1. Cardinality(Holding(1)') + Cardinality(Holding(2)')
          = Cardinality(Holding(1)) + Cardinality(Holding(2)) + new - old
    BY <1>2, <1>4, CountsAreNaturals
  <2> QED BY <1>2, <1>5, <1>6, <1>7, <2>1, CountsAreNaturals DEF NothingLeaks
<1> QED BY <1>8, <1>9 DEF NothingLeaks

LEMMA RunLeaksNothing ==
    ASSUME TypeOK, NothingLeaks, NEW r \in Runs, NEW v \in RunType, RunMoves(r, v)
    PROVE  NothingLeaks'
<1> DEFINE old == HeldAt(run[r].step)
           new == HeldAt(v.step)
<1>1. /\ run' = [run EXCEPT ![r] = v] /\ run'[r] = v
      /\ \A p \in Runs \ {r} : run'[p] = run[p]
      /\ run[r] \in RunType
  BY DEF TypeOK, RunMoves
<1>2. old \in 0..2 /\ new \in 0..2
  BY <1>1, HeldType DEF RunType
<1>3. ASSUME NEW n \in {1, 2}
      PROVE  Cardinality(RunsHolding(n)') =
               Cardinality(RunsHolding(n)) + (IF new >= n THEN 1 ELSE 0)
                                           - (IF old >= n THEN 1 ELSE 0)
  <2>1. RunsHolding(n)' \in SUBSET Runs /\ RunsHolding(n) \in SUBSET Runs
    BY DEF RunsHolding
  <2>2. RunsHolding(n) \ {r} = RunsHolding(n)' \ {r}
    BY <1>1 DEF RunsHolding
  <2>3. r \in RunsHolding(n)' <=> new >= n
    BY <1>1 DEF RunsHolding
  <2>4. r \in RunsHolding(n) <=> old >= n
    BY DEF RunsHolding
  <2> HIDE DEF old, new
  <2> QED BY <2>1, <2>2, <2>3, <2>4, PipelineAssumption, CountOne
<1>4. /\ Holding(1)' = Holding(1) /\ Holding(2)' = Holding(2)
      /\ InFlight' = InFlight /\ active' = active /\ free' = free + old - new
  BY DEF RunMoves, Holding, InFlight, At
<1> HIDE DEF old, new
<1>5. Cardinality(RunsHolding(1)') + Cardinality(RunsHolding(2)')
        = Cardinality(RunsHolding(1)) + Cardinality(RunsHolding(2)) + new - old
  BY <1>2, <1>3, CountsAreNaturals
<1>6. PoolSize \in Nat
  BY PipelineAssumption
<1>7. active' = Cardinality(InFlight')
  BY <1>4 DEF NothingLeaks
<1>8. free' = PoolSize - (Cardinality(Holding(1)') + Cardinality(Holding(2)')
                  + Cardinality(RunsHolding(1)') + Cardinality(RunsHolding(2)'))
  <2>1. /\ Cardinality(RunsHolding(1)') \in Nat /\ Cardinality(RunsHolding(2)') \in Nat
    BY <1>2, <1>3, CountsAreNaturals, FS_CardinalityType, FS_Subset, PipelineAssumption
       DEF RunsHolding
  <2> QED BY <1>2, <1>4, <1>5, <1>6, <2>1, CountsAreNaturals DEF NothingLeaks
<1> QED BY <1>7, <1>8 DEF NothingLeaks

LEMMA LeaksStep ==
    ASSUME TypeOK, StepsFitKinds, NothingLeaks, [Next]_vars
    PROVE  NothingLeaks'
<1>1. ASSUME NEW q \in Requests, ArriveAny(q) \/ Proceed(q) \/ Fail(q)
      PROVE  NothingLeaks'
  BY <1>1, RequestStep, RequestLeaksNothing DEF Becomes
<1>2. ASSUME NEW r \in Runs, StartRun(r) \/ RunStep(r)
      PROVE  NothingLeaks'
  BY <1>2, RunStepMoves, RunLeaksNothing
<1>3. CASE UNCHANGED vars
  BY <1>3 DEF vars, NothingLeaks, InFlight, Holding, RunsHolding, At
<1> QED BY <1>1, <1>2, <1>3 DEF Next

\* No step takes a place or a connection that is not there.
LEMMA NothingOverdrawn ==
    ASSUME TypeOK, NEW q \in Requests, ArriveAny(q) \/ Proceed(q) \/ Fail(q)
    PROVE  active' <= MaxActive /\ free' >= 0
<1>1. /\ active \in Int /\ free \in Int /\ MaxActive \in Int
      /\ active <= MaxActive /\ free >= 0
  BY PipelineAssumption DEF TypeOK
<1>2. HeldAt(req[q].step) \in 0..2
  BY HeldType DEF TypeOK, RequestType
<1>3. ASSUME End(q) PROVE active' <= MaxActive /\ free' >= 0
  BY <1>1, <1>2, <1>3 DEF End
<1>4. ASSUME NEW kind, NEW row, Arrive(q, kind, row)
      PROVE  active' <= MaxActive /\ free' >= 0
  BY <1>1, <1>4 DEF Arrive, Admits
<1>5. CASE ArriveAny(q)
  BY <1>4, <1>5 DEF ArriveAny
<1>6. CASE Connect(q) \/ Authenticated(q) \/ InsertChat(q) \/ CommitDeletion(q)
  BY <1>1, <1>6 DEF Connect, Authenticated, InsertChat, CommitDeletion
<1>7. CASE Fail(q) \/ PoolTimeout(q) \/ Finish(q) \/ CommitChat(q) \/ CommitDoc(q)
  BY <1>3, <1>7 DEF Fail, PoolTimeout, Finish, CommitChat, CommitDoc
<1>8. CASE FindChat(q) \/ CountChats(q) \/ CountDocs(q) \/ InsertDoc(q)
           \/ DeleteFiles(q) \/ DeleteRows(q)
  BY <1>1, <1>3, <1>8
     DEF FindChat, CountChats, CountDocs, InsertDoc, DeleteFiles, DeleteRows
<1> QED BY <1>5, <1>6, <1>7, <1>8 DEF Proceed

LEMMA RunOverdrawsNothing ==
    ASSUME TypeOK, NEW r \in Runs, StartRun(r) \/ RunStep(r)
    PROVE  active' <= MaxActive /\ free' >= 0
<1>1. /\ active \in Int /\ free \in Int /\ MaxActive \in Int
      /\ active <= MaxActive /\ free >= 0
  BY PipelineAssumption DEF TypeOK
<1>2. HeldAt(run[r].step) \in 0..2
  BY HeldType DEF TypeOK, RunType
<1> QED
  BY <1>1, <1>2
     DEF StartRun, RunStep, RunConnects, RunTimesOut, RunFails, RunEnds, EndRun

LEMMA TypeStep ==
    ASSUME TypeOK, StepsFitKinds, NothingLeaks, [Next]_vars
    PROVE  TypeOK' /\ StepsFitKinds'
<1>1. ASSUME active' <= MaxActive, free' >= 0
      PROVE  active' \in 0..MaxActive /\ free' \in 0..PoolSize
  <2>1. NothingLeaks'
    BY LeaksStep
  <2>2. \A A \in SUBSET Requests : Cardinality(A) \in Nat
    BY PipelineAssumption, FS_Subset, FS_CardinalityType
  <2>3. \A A \in SUBSET Runs : Cardinality(A) \in Nat
    BY PipelineAssumption, FS_Subset, FS_CardinalityType
  <2>4. /\ Cardinality(InFlight') \in Nat
        /\ Cardinality(Holding(1)') \in Nat /\ Cardinality(Holding(2)') \in Nat
        /\ Cardinality(RunsHolding(1)') \in Nat /\ Cardinality(RunsHolding(2)') \in Nat
    BY <2>2, <2>3 DEF InFlight, Holding, RunsHolding
  <2> QED BY <1>1, <2>1, <2>4, PipelineAssumption DEF NothingLeaks
<1>2. ASSUME NEW q \in Requests, ArriveAny(q) \/ Proceed(q) \/ Fail(q)
      PROVE  TypeOK' /\ StepsFitKinds'
  <2>1. PICK v \in RequestType : Becomes(q, v)
    BY <1>2, RequestStep
  <2>2. active' \in 0..MaxActive /\ free' \in 0..PoolSize
    BY <1>1, <1>2, NothingOverdrawn
  <2>3. /\ req' \in [Requests -> RequestType] /\ run' \in [Runs -> RunType]
        /\ StepsFitKinds'
    BY <2>1 DEF Becomes, RequestMoves, TypeOK, StepsFitKinds
  <2>4. chat' \in [Chats -> {"unused", "live", "gone"}] /\ docs' \in SUBSET Rows
    BY <2>1 DEF Becomes, RowsStep, Quiet, ChatPasses, DocPasses, ChatMade, DocMade,
                ChatGone, TypeOK, database, StepsFitKinds, Fits, DocMakers, Is
  <2> QED BY <2>2, <2>3, <2>4 DEF TypeOK
<1>3. ASSUME NEW r \in Runs, StartRun(r) \/ RunStep(r)
      PROVE  TypeOK' /\ StepsFitKinds'
  <2>1. PICK v \in RunType : RunMoves(r, v) /\ UNCHANGED database
    BY <1>3, RunStepMoves
  <2>2. active' \in 0..MaxActive /\ free' \in 0..PoolSize
    BY <1>1, <1>3, RunOverdrawsNothing
  <2> QED BY <2>1, <2>2 DEF RunMoves, TypeOK, StepsFitKinds, database
<1>4. CASE UNCHANGED vars
  BY <1>4 DEF vars, TypeOK, StepsFitKinds, database
<1> QED BY <1>2, <1>3, <1>4 DEF Next

----------------------------------------------------------------------------
(***************************************************************************)
(* Quotas.                                                                 *)
(***************************************************************************)
LEMMA OverlapType == /\ Overlap \in Nat \ {0} /\ MaxChats \in Nat \ {0}
                     /\ MaxDocs \in Nat \ {0}
BY PipelineAssumption DEF Overlap

LEMMA Finite ==
    ASSUME TypeOK
    PROVE  /\ \A A \in SUBSET Requests : IsFiniteSet(A) /\ Cardinality(A) \in Nat
           /\ IsFiniteSet(ChatIds("live")) /\ IsFiniteSet(ChatMakers)
           /\ \A c : IsFiniteSet(DocsOf(c)) /\ IsFiniteSet(DocMakers(c))
<1>1. \A A \in SUBSET Requests : IsFiniteSet(A) /\ Cardinality(A) \in Nat
  BY PipelineAssumption, FS_Subset, FS_CardinalityType
<1>2. \A A \in SUBSET Chats : IsFiniteSet(A)
  BY PipelineAssumption, FS_Subset
<1>3. IsFiniteSet(Rows)
  BY PipelineAssumption, FS_Product DEF Rows
<1>4. \A A \in SUBSET Rows : IsFiniteSet(A)
  BY <1>3, FS_Subset
<1> QED
  BY <1>1, <1>2, <1>4 DEF ChatIds, ChatMakers, DocsOf, DocMakers, TypeOK

\* Whoever passed a check has a place and a connection.
LEMMA MakersOverlap ==
    ASSUME TypeOK, StepsFitKinds, NothingLeaks, NEW A \in SUBSET Requests,
           \A q \in A : Passed(q)
    PROVE  Cardinality(A) <= Overlap
<1>1. A \in SUBSET InFlight
  BY DEF StepsFitKinds, Fits, Passed, InFlight, At, Counted
<1>2. A \in SUBSET Holding(1)
  BY DEF Passed, Holding, HeldAt
<1>3. IsFiniteSet(InFlight) /\ IsFiniteSet(Holding(1))
  BY Finite DEF InFlight, Holding
<1>4. Cardinality(A) <= Cardinality(InFlight) /\ Cardinality(A) <= Cardinality(Holding(1))
  BY <1>1, <1>2, <1>3, FS_Subset
<1>5. Cardinality(A) \in Nat
  BY Finite
<1>6. Cardinality(InFlight) <= MaxActive
  BY DEF NothingLeaks, TypeOK
<1>7. Cardinality(Holding(1)) <= PoolSize
  BY CountsAreNaturals, PipelineAssumption DEF NothingLeaks, TypeOK
<1> QED
  BY <1>4, <1>5, <1>6, <1>7, CountsAreNaturals, PipelineAssumption DEF Overlap

FewMakers ==
    /\ Cardinality(ChatMakers) \in 0..Overlap
    /\ \A c \in Chats : Cardinality(DocMakers(c)) \in 0..Overlap

LEMMA MakersAreFew == TypeOK /\ StepsFitKinds /\ NothingLeaks => FewMakers
<1> SUFFICES ASSUME TypeOK, StepsFitKinds, NothingLeaks PROVE FewMakers
  OBVIOUS
<1>1. ASSUME NEW A \in SUBSET Requests, \A q \in A : Passed(q)
      PROVE  Cardinality(A) \in 0..Overlap
  BY <1>1, MakersOverlap, Finite, OverlapType
<1>2. Cardinality(ChatMakers) \in 0..Overlap
  BY <1>1 DEF ChatMakers
<1>3. ASSUME NEW c \in Chats PROVE Cardinality(DocMakers(c)) \in 0..Overlap
  BY <1>1 DEF DocMakers
<1> QED BY <1>2, <1>3 DEF FewMakers

LEMMA ChatQuotaStep ==
    ASSUME IInv, TypeOK', StepsFitKinds', NothingLeaks',
           NEW q \in Requests, NEW v \in RequestType, Becomes(q, v)
    PROVE  ChatQuota'
<1> USE DEF IInv
<1>0. /\ req'[q] = v /\ \A p \in Requests \ {q} : req'[p] = req[p]
  BY DEF Becomes, RequestMoves, TypeOK
<1>1. /\ ChatIds("live") \in SUBSET Chats /\ ChatIds("live")' \in SUBSET Chats
      /\ ChatMakers \in SUBSET Requests /\ ChatMakers' \in SUBSET Requests
  BY DEF ChatIds, ChatMakers
<1>2. /\ IsFiniteSet(ChatIds("live")) /\ IsFiniteSet(ChatMakers)
  BY Finite
<1>3. ASSUME ChatIds("live")' \in SUBSET ChatIds("live"), ChatMakers' \in SUBSET ChatMakers
      PROVE  ChatQuota'
  BY <1>2, <1>3, CountsShrink, OverlapType DEF ChatQuota, Overlap
<1>4. CASE Quiet(q, v) \/ DocPasses(q, v) \/ DocMade(q, v)
  <2>1. ChatIds("live")' = ChatIds("live")
    BY <1>4 DEF Quiet, DocPasses, DocMade, ChatIds, database
  <2>2. ChatMakers' \in SUBSET ChatMakers
    BY <1>0, <1>4 DEF Quiet, DocPasses, DocMade, ChatMakers, Passed, Is, Moved, NoRequest
  <2> QED BY <1>3, <2>1, <2>2
<1>5. CASE ChatGone(q, v)
  <2>1. ChatIds("live")' \in SUBSET ChatIds("live")
    BY <1>5 DEF ChatGone, ChatIds, TypeOK
  <2>2. ChatMakers' \in SUBSET ChatMakers
    BY <1>0, <1>5 DEF ChatGone, ChatMakers, Passed, Is
  <2> QED BY <1>3, <2>1, <2>2
<1>6. CASE ChatPasses(q, v)
  <2>1. Cardinality(ChatIds("live")') = Cardinality(ChatIds("live"))
    BY <1>6 DEF ChatPasses, ChatIds, database
  <2>2. Cardinality(ChatIds("live")) < MaxChats /\ Cardinality(ChatIds("live")) \in Nat
    BY <1>2, <1>6, FS_CardinalityType DEF ChatPasses
  <2>3. Cardinality(ChatMakers') <= Overlap /\ Cardinality(ChatMakers') \in Nat
    <3>1. FewMakers'
      BY MakersAreFew, PTL
    <3> QED BY <3>1, OverlapType DEF FewMakers, Overlap
  <2> QED BY <2>1, <2>2, <2>3, OverlapType DEF ChatQuota, Overlap
<1>7. CASE ChatMade(q, v)
  <2>1. ChatIds("live")' \in SUBSET (ChatIds("live") \cup {ChatOf(q)})
    BY <1>7 DEF ChatMade, ChatIds, TypeOK
  <2>2. ChatMakers' \in SUBSET (ChatMakers \ {q}) /\ q \in ChatMakers
    BY <1>0, <1>7 DEF ChatMade, ChatMakers, Passed, Is, NoRequest
  <2>3. /\ Cardinality(ChatIds("live")') \in Nat /\ Cardinality(ChatMakers') \in Nat
        /\ Cardinality(ChatIds("live")) \in Nat /\ Cardinality(ChatMakers) \in Nat
        /\ Cardinality(ChatIds("live")') + Cardinality(ChatMakers')
             <= Cardinality(ChatIds("live")) + Cardinality(ChatMakers)
    BY <1>2, <2>1, <2>2, CountsTransfer
  <2> QED BY <2>3, OverlapType DEF ChatQuota, Overlap
<1> QED BY <1>4, <1>5, <1>6, <1>7 DEF Becomes, RowsStep

LEMMA DocQuotaStep ==
    ASSUME IInv, TypeOK', StepsFitKinds', NothingLeaks', NEW c \in Chats,
           NEW q \in Requests, NEW v \in RequestType, Becomes(q, v)
    PROVE  DocQuota(c)'
<1> USE DEF IInv
<1>0. /\ req'[q] = v /\ \A p \in Requests \ {q} : req'[p] = req[p]
  BY DEF Becomes, RequestMoves, TypeOK
<1>1. /\ IsFiniteSet(DocsOf(c)) /\ IsFiniteSet(DocMakers(c)) /\ DocQuota(c)
  BY Finite
<1>2. ASSUME DocsOf(c)' \in SUBSET DocsOf(c), DocMakers(c)' \in SUBSET DocMakers(c)
      PROVE  DocQuota(c)'
  BY <1>1, <1>2, CountsShrink, OverlapType DEF DocQuota, Overlap
<1>3. CASE Quiet(q, v) \/ ChatPasses(q, v) \/ ChatMade(q, v) \/ ChatGone(q, v)
  <2>1. DocsOf(c)' \in SUBSET DocsOf(c)
    BY <1>3 DEF Quiet, ChatPasses, ChatMade, ChatGone, DocsOf, database
  <2>2. DocMakers(c)' \in SUBSET DocMakers(c)
    BY <1>0, <1>3 DEF Quiet, ChatPasses, ChatMade, ChatGone, DocMakers, Passed, Is,
                      ChatOf, Moved, NoRequest
  <2> QED BY <1>2, <2>1, <2>2
<1>4. CASE DocPasses(q, v)
  <2>1. DocsOf(c)' = DocsOf(c)
    BY <1>4 DEF DocPasses, DocsOf, database
  <2>2. CASE ChatOf(q) = c
    <3>1. FewMakers'
      BY MakersAreFew, PTL
    <3>2. Cardinality(DocMakers(c)') <= Overlap /\ Cardinality(DocMakers(c)') \in Nat
      BY <3>1, OverlapType DEF FewMakers, Overlap
    <3>3. Cardinality(DocsOf(c)) < MaxDocs /\ Cardinality(DocsOf(c)) \in Nat
      BY <1>1, <1>4, <2>2, FS_CardinalityType DEF DocPasses
    <3> QED BY <2>1, <3>2, <3>3, OverlapType DEF DocQuota, Overlap
  <2>3. CASE ChatOf(q) # c
    <3>1. DocMakers(c)' \in SUBSET DocMakers(c)
      BY <1>0, <1>4, <2>3 DEF DocPasses, DocMakers, Passed, Is, ChatOf, Moved
    <3> QED BY <1>2, <2>1, <3>1
  <2> QED BY <2>2, <2>3
<1>5. CASE DocMade(q, v)
  <2>1. CASE ChatOf(q) = c
    <3>1. DocsOf(c)' \in SUBSET (DocsOf(c) \cup {req[q].row})
      BY <1>5 DEF DocMade, DocsOf
    <3>2. DocMakers(c)' \in SUBSET (DocMakers(c) \ {q}) /\ q \in DocMakers(c)
      BY <1>0, <1>5, <2>1 DEF DocMade, DocMakers, Passed, Is, ChatOf, NoRequest
    <3>3. /\ Cardinality(DocsOf(c)') \in Nat /\ Cardinality(DocMakers(c)') \in Nat
          /\ Cardinality(DocsOf(c)) \in Nat /\ Cardinality(DocMakers(c)) \in Nat
          /\ Cardinality(DocsOf(c)') + Cardinality(DocMakers(c)')
               <= Cardinality(DocsOf(c)) + Cardinality(DocMakers(c))
      BY <1>1, <3>1, <3>2, CountsTransfer
    <3> QED BY <1>1, <3>3, OverlapType DEF DocQuota, Overlap
  <2>2. CASE ChatOf(q) # c
    <3>1. DocsOf(c)' \in SUBSET DocsOf(c)
      BY <1>5, <2>2 DEF DocMade, DocsOf, ChatOf
    <3>2. DocMakers(c)' \in SUBSET DocMakers(c)
      BY <1>0, <1>5 DEF DocMade, DocMakers, Passed, Is, ChatOf, NoRequest
    <3> QED BY <1>2, <3>1, <3>2
  <2> QED BY <2>1, <2>2
<1> QED BY <1>3, <1>4, <1>5 DEF Becomes, RowsStep

----------------------------------------------------------------------------
(***************************************************************************)
(* The theorems.                                                           *)
(***************************************************************************)
\* The inductive invariant: types, what the kind of a request says of its steps,
\* the accounts of places and connections, and the quotas with those who have
\* passed their check.
THEOREM Invariance == SafetySpec => []IInv
<1>1. Init => IInv
  <2> SUFFICES ASSUME Init PROVE IInv
    OBVIOUS
  <2>1. TypeOK /\ StepsFitKinds
    BY NoRequestType, PipelineAssumption
       DEF Init, TypeOK, StepsFitKinds, Fits, NoRequest
  <2>2. /\ InFlight = {} /\ ChatIds("live") = {} /\ ChatMakers = {}
        /\ \A n \in {1, 2} : Holding(n) = {} /\ RunsHolding(n) = {}
        /\ \A c \in Chats : DocsOf(c) = {} /\ DocMakers(c) = {}
    BY DEF Init, InFlight, At, ChatIds, ChatMakers, Passed, Holding, RunsHolding,
           DocsOf, DocMakers, NoRequest, NoRun, HeldAt
  <2>3. Cardinality({}) = 0
    BY FS_EmptySet
  <2>4. /\ Cardinality(InFlight) = 0
        /\ Cardinality(ChatIds("live")) = 0 /\ Cardinality(ChatMakers) = 0
        /\ Cardinality(Holding(1)) = 0 /\ Cardinality(Holding(2)) = 0
        /\ Cardinality(RunsHolding(1)) = 0 /\ Cardinality(RunsHolding(2)) = 0
        /\ \A c \in Chats : Cardinality(DocsOf(c)) = 0 /\ Cardinality(DocMakers(c)) = 0
    BY <2>2, <2>3
  <2>5. NothingLeaks
    BY <2>4, PipelineAssumption DEF Init, NothingLeaks
  <2>6. ChatQuota /\ \A c \in Chats : DocQuota(c)
    BY <2>4, OverlapType DEF ChatQuota, DocQuota
  <2> QED BY <2>1, <2>5, <2>6 DEF IInv
<1>2. IInv /\ [Next]_vars => IInv'
  <2> SUFFICES ASSUME IInv, [Next]_vars PROVE IInv'
    OBVIOUS
  <2>1. TypeOK' /\ StepsFitKinds' /\ NothingLeaks'
    BY TypeStep, LeaksStep DEF IInv
  <2>2. ASSUME NEW q \in Requests, ArriveAny(q) \/ Proceed(q) \/ Fail(q)
        PROVE  IInv'
    <3>1. PICK v \in RequestType : Becomes(q, v)
      BY <2>2, RequestStep DEF IInv
    <3>2. ChatQuota'
      BY <2>1, <3>1, ChatQuotaStep
    <3>3. ASSUME NEW c \in Chats PROVE DocQuota(c)'
      BY <2>1, <3>1, DocQuotaStep
    <3> QED BY <2>1, <3>2, <3>3 DEF IInv
  <2>3. ASSUME UNCHANGED <<database, req>> PROVE IInv'
    <3>1. ChatQuota' /\ \A c \in Chats : DocQuota(c)'
      BY <2>3 DEF IInv, database, ChatQuota, DocQuota, ChatIds, ChatMakers, DocsOf,
                  DocMakers, Passed, Is, ChatOf, Overlap
    <3> QED BY <2>1, <3>1 DEF IInv
  <2>4. ASSUME NEW r \in Runs, StartRun(r) \/ RunStep(r)
        PROVE  IInv'
    <3>1. UNCHANGED <<database, req>>
      BY <2>4, RunStepMoves DEF RunMoves, IInv
    <3> QED BY <2>3, <3>1
  <2>5. CASE UNCHANGED vars
    BY <2>3, <2>5 DEF vars, database
  <2> QED BY <2>2, <2>4, <2>5 DEF Next
<1> QED BY <1>1, <1>2, PTL DEF SafetySpec

\* The counter of requests and the free connections stay within their bounds.
THEOREM TypeCorrect == SafetySpec => []TypeOK
BY Invariance, PTL DEF IInv

\* Every place and every connection comes back exactly once, on every way a
\* request or a run can end.
THEOREM PlacesAndConnectionsComeBack == SafetySpec => []NothingLeaks
BY Invariance, PTL DEF IInv

\* Overlapping requests exceed a quota by no more than fit in the server beside
\* the one that was counted last.
THEOREM QuotasHold == SafetySpec => []QuotasAreNearlyKept
<1>1. IInv => QuotasAreNearlyKept
  <2> SUFFICES ASSUME IInv PROVE QuotasAreNearlyKept
    OBVIOUS
  <2>1. /\ Cardinality(ChatIds("live")) \in Nat /\ Cardinality(ChatMakers) \in Nat
        /\ \A c \in Chats :
              Cardinality(DocsOf(c)) \in Nat /\ Cardinality(DocMakers(c)) \in Nat
    BY Finite, FS_CardinalityType DEF IInv
  <2> QED
    BY <2>1, OverlapType DEF IInv, ChatQuota, DocQuota, QuotasAreNearlyKept
<1> QED BY <1>1, Invariance, PTL
=============================================================================
