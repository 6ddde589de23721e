-------------------------- MODULE IngestionProofs --------------------------
(***************************************************************************)
(* Proofs about module Ingestion for every value of its constants.         *)
(*                                                                         *)
(* The inductive invariant is IInv. The steps of Next fall in three kinds  *)
(* for it: those that leave the runs alone, those by which a run begins or *)
(* takes a slot, and RunStep, which either ends a run (Leave) or moves it  *)
(* on without touching the guard, the slots or any other run (Stays).      *)
(***************************************************************************)
EXTENDS Ingestion, FiniteSetTheorems, TLAPS

LEMMA AgeCapType == AgeCap \in Nat
<1> DEFINE Ages == {RetryAfter, UploadedMaxAge, ProcessingTimeout}
<1>1. \E m \in Ages : \A n \in Ages : n <= m
  BY ConstantsAssumption
<1>2. PICK m \in Ages : AgeCap = 1 + m
  BY <1>1 DEF AgeCap
<1> QED BY <1>2, ConstantsAssumption

----------------------------------------------------------------------------
(***************************************************************************)
(* What a step of a run can do.                                            *)
(***************************************************************************)
Stays(r) ==
    \E v \in RunType :
        /\ v.doc = run[r].doc /\ v.step \in Claimed
        /\ run' = [run EXCEPT ![r] = v]
        /\ UNCHANGED <<active, slots>>

OnlyDoc(d) ==
    /\ status' = [status EXCEPT ![d] = status'[d]]
    /\ chunks' = [chunks EXCEPT ![d] = chunks'[d]]
    /\ age' = [age EXCEPT ![d] = age'[d]]
    /\ status'[d] \in Statuses
    /\ chunks'[d] \in 0..Batches
    /\ age'[d] \in 0..AgeCap

\* A run under way ends or moves on, and of the database it touches its own
\* document only.
LEMMA RunStepShape ==
    ASSUME TypeOK, RunsHaveDocuments, NEW r \in Runs, RunStep(r)
    PROVE  /\ run[r].step \in Running
           /\ run[r].doc \in Docs
           /\ Leave(r) \/ Stays(r)
           /\ OnlyDoc(run[r].doc)
           /\ UNCHANGED <<pending, triggers, sweeper, crashes>>
<1> USE DEF TypeOK, RunType, Steps, Running, Claimed
<1> DEFINE d == run[r].doc
<1>0. run[r] \in RunType /\ run[r].step \in Steps
  OBVIOUS
<1>1. run[r].step # "idle" => d \in Docs
  BY DEF RunsHaveDocuments
<1>2. \A s \in {"PROCESSING", "COMPLETED", "FAILED"} :
        /\ Reported(d, s) \/ ReportedOrNot(d, s) \/ Conflict(d, s)
        /\ d \in Docs
        /\ UNCHANGED chunks
        => OnlyDoc(d)
  BY AgeCapType DEF Reported, ReportedOrNot, Conflict, SetStatus, OnlyDoc, Statuses
<1>3. /\ UNCHANGED <<status, age>> /\ d \in Docs
      /\ \E n \in 0..Batches : chunks' \in {chunks, [chunks EXCEPT ![d] = n]}
      => OnlyDoc(d)
  BY DEF OnlyDoc
<1>4. ASSUME NEW s \in Claimed, Goto(r, s) PROVE Stays(r)
  BY <1>4 DEF Goto, Stays
<1>5. CASE Claim(r)
  BY <1>1, <1>2, <1>4, <1>5 DEF Claim, Goto
<1>6. CASE ClaimSkipped(r)
  BY <1>1, <1>2, <1>6 DEF ClaimSkipped, Leave
<1>7. CASE Clear(r)
  BY <1>1, <1>3, <1>4, <1>7 DEF Clear, Goto, database
<1>8. CASE StoreBatch(r)
  <2> DEFINE v == RunAt(r, "store", run[r].flushed + 1, TRUE)
  <2>1. v \in RunType /\ v.doc = d /\ v.step = run[r].step
    BY <1>1, <1>8, ConstantsAssumption DEF StoreBatch, RunAt
  <2>2. Stays(r)
    BY <1>8, <2>1 DEF StoreBatch, Stays
  <2> QED BY <1>1, <1>3, <1>8, <2>2, ConstantsAssumption DEF StoreBatch, database
<1>9. CASE Stored(r)
  BY <1>1, <1>3, <1>4, <1>9 DEF Stored, Goto, database
<1>10. CASE ProcessingFails(r)
  <2> DEFINE v == RunAt(r, "fail", 0, run[r].locks)
  <2>1. v \in RunType /\ v.doc = d /\ v.step = "fail"
    BY <1>1, <1>10, ConstantsAssumption DEF ProcessingFails, RunAt
  <2>2. Stays(r)
    BY <1>10, <2>1 DEF ProcessingFails, Stays
  <2> QED BY <1>1, <1>3, <1>10, <2>2, ConstantsAssumption DEF ProcessingFails, database
<1>11. CASE FailReport(r)
  BY <1>1, <1>2, <1>4, <1>11 DEF FailReport, Goto
<1>12. CASE Close(r)
  BY <1>1, <1>3, <1>12, ConstantsAssumption DEF Close, Leave
<1>13. CASE Commit(r)
  <2>1. chunks' \in {chunks, [chunks EXCEPT ![d] = run[r].flushed]}
    BY <1>13 DEF Commit
  <2> DEFINE v == RunAt(r, "report", 0, FALSE)
  <2>2. v \in RunType /\ v.doc = d /\ v.step = "report"
    BY <1>1, <1>13, ConstantsAssumption DEF Commit, RunAt
  <2>3. Stays(r)
    BY <1>13, <2>2 DEF Commit, Stays
  <2> QED BY <1>1, <1>3, <1>13, <2>1, <2>3 DEF Commit
<1>14. CASE CommitFails(r)
  BY <1>1, <1>3, <1>14 DEF CommitFails, Leave
<1>15. CASE Complete(r)
  BY <1>1, <1>2, <1>15 DEF Complete, Leave
<1>16. CASE CompleteConflict(r)
  BY <1>1, <1>2, <1>4, <1>16 DEF CompleteConflict, Goto
<1>17. CASE SafeDeleteChunks(r)
  BY <1>1, <1>3, <1>17, ConstantsAssumption DEF SafeDeleteChunks, Leave
<1> QED
  BY <1>5, <1>6, <1>7, <1>8, <1>9, <1>10, <1>11, <1>12, <1>13, <1>14, <1>15,
     <1>16, <1>17 DEF RunStep

\* Requests, sweeps and the clock leave the runs, the guard and the slots alone.
Quiet == UNCHANGED <<run, active, slots>>

LEMMA QuietSteps ==
    /\ \A d \in Docs : RequestStep(d) => Quiet
    /\ SweeperStep => Quiet
    /\ Tick => Quiet
    /\ UNCHANGED vars => Quiet
<1> USE DEF Quiet, memory
<1>1. ASSUME NEW d \in Docs, RequestStep(d) PROVE Quiet
  BY <1>1 DEF RequestStep, Upload, Reprocess, CommitRequest, AbortRequest, Delete
<1>2. SweeperStep => Quiet
  BY DEF SweeperStep, FailExpiredUploaded, RetryStuckUploaded,
         FailTimedOutProcessing, SweeperMovesOn
<1>3. Tick => Quiet
  BY DEF Tick
<1>4. UNCHANGED vars => Quiet
  BY DEF vars
<1> QED BY <1>1, <1>2, <1>3, <1>4

----------------------------------------------------------------------------
(***************************************************************************)
(* Types of what requests and sweeps change.                               *)
(***************************************************************************)
LEMMA TypeInit == Init => TypeOK
BY AgeCapType, ConstantsAssumption
   DEF Init, TypeOK, Statuses, RunType, Idle, Steps

LEMMA RequestType ==
    ASSUME TypeOK, NEW d \in Docs, RequestStep(d)
    PROVE  TypeOK'
<1> USE AgeCapType, ConstantsAssumption DEF TypeOK
<1>1. CASE Upload(d)
  BY <1>1 DEF Upload, Start
<1>2. CASE Reprocess(d)
  BY <1>2 DEF Reprocess, Start, database
<1>3. CASE CommitRequest(d)
  BY <1>3 DEF CommitRequest, memory, Statuses
<1>4. CASE AbortRequest(d)
  BY <1>4 DEF AbortRequest, memory, Statuses
<1>5. CASE Delete(d)
  BY <1>5 DEF Delete, memory, Statuses
<1> QED BY <1>1, <1>2, <1>3, <1>4, <1>5 DEF RequestStep

\* A sweep takes rows whose committed status is the one it asked for.
LEMMA FindStaleShape ==
    ASSUME NEW s, NEW n, NEW S \in FindStale(s, n)
    PROVE  S \subseteq {d \in Docs : status[d] = s}
BY DEF FindStale, Stale

LEMMA SweeperType ==
    ASSUME TypeOK, SweeperStep
    PROVE  TypeOK'
<1> USE AgeCapType, ConstantsAssumption DEF TypeOK
<1>0. NextRule[sweeper] \in {"rule1", "rule2", "rule3", "rule4", "sleep"}
  BY DEF NextRule
<1>1. CASE FailExpiredUploaded
  BY <1>0, <1>1 DEF FailExpiredUploaded, FailAll, Statuses
<1>2. CASE RetryStuckUploaded
  <2>1. PICK S \in FindStale("UPLOADED", RetryAfter) :
          /\ \A d \in S : triggers[d] < MaxTriggers
          /\ triggers' = [d \in Docs |-> triggers[d] + IF d \in S THEN 1 ELSE 0]
    BY <1>2 DEF RetryStuckUploaded
  <2> QED BY <1>0, <1>2, <2>1 DEF RetryStuckUploaded, database
<1>3. CASE FailTimedOutProcessing
  BY <1>0, <1>3 DEF FailTimedOutProcessing, FailAll, Statuses
<1>4. CASE SweeperMovesOn
  BY <1>0, <1>4 DEF SweeperMovesOn, database
<1> QED BY <1>1, <1>2, <1>3, <1>4 DEF SweeperStep

----------------------------------------------------------------------------
(***************************************************************************)
(* The slots.                                                              *)
(***************************************************************************)
Holding == {r \in Runs : run[r].step \in Running}

LEMMA HoldingFinite ==
    /\ IsFiniteSet(Holding) /\ IsFiniteSet(Holding')
    /\ Cardinality(Holding) \in Nat /\ Cardinality(Holding') \in Nat
<1>1. Holding \in SUBSET Runs /\ Holding' \in SUBSET Runs
  BY DEF Holding
<1>2. IsFiniteSet(Holding) /\ IsFiniteSet(Holding')
  BY <1>1, FS_Subset, ConstantsAssumption
<1> QED BY <1>2, FS_CardinalityType

LEMMA SlotsStep ==
    ASSUME TypeOK, RunsHaveDocuments, SlotsAreConserved, [Next]_vars
    PROVE  SlotsAreConserved'
<1> USE DEF SlotsAreConserved, Holding
<1>0. slots \in Int /\ MaxConcurrent \in Int
  BY ConstantsAssumption DEF TypeOK
<1>1. SlotsAreConserved <=> slots + Cardinality(Holding) = MaxConcurrent
  OBVIOUS
<1>2. SlotsAreConserved' <=> slots' + Cardinality(Holding') = MaxConcurrent
  OBVIOUS
<1>3. CASE Quiet
  BY <1>3 DEF Quiet
<1>4. ASSUME NEW d \in Docs, Begin(d) PROVE SlotsAreConserved'
  <2>1. Holding' = Holding /\ slots' = slots
    BY <1>4 DEF Begin, TypeOK, RunType, Running, Steps
  <2> QED BY <2>1, <1>1, <1>2
<1>5. ASSUME NEW r \in Runs, TakeSlot(r) PROVE SlotsAreConserved'
  <2>1. /\ Holding' = Holding \cup {r} /\ r \notin Holding
        /\ slots' = slots - 1
    BY <1>5 DEF TakeSlot, TypeOK, RunType, Running, Steps
  <2>2. Cardinality(Holding') = Cardinality(Holding) + 1
    BY <2>1, FS_AddElement, HoldingFinite
  <2> QED BY <2>1, <2>2, <1>0, <1>1, <1>2, HoldingFinite
<1>6. ASSUME NEW r \in Runs, RunStep(r) PROVE SlotsAreConserved'
  <2>1. run[r].step \in Running /\ (Leave(r) \/ Stays(r))
    BY <1>6, RunStepShape
  <2>2. CASE Leave(r)
    <3>1. /\ Holding' = Holding \ {r} /\ r \in Holding
          /\ slots' = slots + 1
      BY <2>1, <2>2 DEF Leave, Idle, TypeOK, Running, Steps
    <3>2. Cardinality(Holding') = Cardinality(Holding) - 1
      BY <3>1, FS_RemoveElement, HoldingFinite
    <3> QED BY <3>1, <3>2, <1>0, <1>1, <1>2, HoldingFinite
  <2>3. CASE Stays(r)
    <3>1. Holding' = Holding /\ slots' = slots
      BY <2>1, <2>3 DEF Stays, TypeOK, Claimed
    <3> QED BY <3>1, <1>1, <1>2
  <2> QED BY <2>1, <2>2, <2>3
<1>7. CASE Crash
  <2>1. Holding' = {} /\ slots' = MaxConcurrent
    BY <1>7 DEF Crash, Idle, Running, Steps
  <2> QED BY <2>1, <1>0, <1>2, FS_EmptySet
<1> QED
  BY <1>3, <1>4, <1>5, <1>6, <1>7, QuietSteps DEF Next

----------------------------------------------------------------------------
(***************************************************************************)
(* Type correctness. Only the conserved slots keep Leave from giving back  *)
(* one too many.                                                           *)
(***************************************************************************)
LEMMA RunStepType ==
    ASSUME TypeOK, RunsHaveDocuments, SlotsAreConserved, SlotsAreConserved',
           NEW r \in Runs, RunStep(r)
    PROVE  TypeOK'
<1> USE DEF TypeOK
<1>1. /\ run[r].doc \in Docs
      /\ Leave(r) \/ Stays(r)
      /\ OnlyDoc(run[r].doc)
      /\ UNCHANGED <<pending, triggers, sweeper, crashes>>
  BY RunStepShape
<1>2. /\ status' \in [Docs -> Statuses]
      /\ chunks' \in [Docs -> 0..Batches]
      /\ age' \in [Docs -> 0..AgeCap]
  BY <1>1 DEF OnlyDoc
<1>3. slots' \in 0..MaxConcurrent
  <2>1. slots' \in Int /\ slots' >= 0
    BY <1>1, ConstantsAssumption DEF Leave, Stays
  <2>2. slots' + Cardinality(Holding') = MaxConcurrent
    BY DEF SlotsAreConserved, Holding
  <2> QED BY <2>1, <2>2, HoldingFinite, ConstantsAssumption
<1>4. active' \in SUBSET Docs /\ run' \in [Runs -> RunType]
  <2>1. Idle \in RunType
    BY ConstantsAssumption DEF Idle, RunType, Steps
  <2>2. CASE Leave(r)
    BY <2>1, <2>2 DEF Leave
  <2>3. CASE Stays(r)
    BY <2>3 DEF Stays
  <2> QED BY <1>1, <2>2, <2>3
<1> QED BY <1>1, <1>2, <1>3, <1>4

LEMMA TypeStep ==
    ASSUME TypeOK, RunsHaveDocuments, SlotsAreConserved, [Next]_vars
    PROVE  TypeOK'
<1>1. ASSUME NEW d \in Docs, RequestStep(d) PROVE TypeOK'
  BY <1>1, RequestType
<1>2. ASSUME NEW d \in Docs, Begin(d) PROVE TypeOK'
  <2>1. triggers' \in [Docs -> 0..MaxTriggers]
    BY <1>2, ConstantsAssumption DEF Begin, TypeOK
  <2>2. active' \in SUBSET Docs /\ run' \in [Runs -> RunType]
    <3>1. [doc |-> d, step |-> "waiting", flushed |-> 0, locks |-> FALSE] \in RunType
      BY ConstantsAssumption DEF RunType, Steps
    <3> QED BY <1>2, <3>1 DEF Begin, TypeOK
  <2> QED BY <1>2, <2>1, <2>2 DEF Begin, TypeOK, database
<1>3. ASSUME NEW r \in Runs, TakeSlot(r) PROVE TypeOK'
  BY <1>3, ConstantsAssumption DEF TakeSlot, TypeOK, RunType, Steps, database
<1>4. ASSUME NEW r \in Runs, RunStep(r) PROVE TypeOK'
  BY <1>4, RunStepType, SlotsStep
<1>5. CASE SweeperStep
  BY <1>5, SweeperType
<1>6. CASE Crash
  BY <1>6, ConstantsAssumption
     DEF Crash, TypeOK, Statuses, Idle, RunType, Steps
<1>7. CASE Tick
  BY <1>7, AgeCapType DEF Tick, TypeOK, memory
<1>8. CASE UNCHANGED vars
  BY <1>8 DEF vars, database, memory, TypeOK
<1> QED
  BY <1>1, <1>2, <1>3, <1>4, <1>5, <1>6, <1>7, <1>8 DEF Next

----------------------------------------------------------------------------
(***************************************************************************)
(* The guard. What must be shown of a step is which documents are in use   *)
(* after it, and that no two runs have the same.                           *)
(***************************************************************************)
LEMMA RunsHaveDocumentsStep ==
    ASSUME TypeOK, RunsHaveDocuments, [Next]_vars
    PROVE  RunsHaveDocuments'
<1> USE DEF RunsHaveDocuments, TypeOK
<1>1. CASE Quiet
  BY <1>1 DEF Quiet
<1>2. ASSUME NEW d \in Docs, Begin(d) PROVE RunsHaveDocuments'
  BY <1>2, ConstantsAssumption DEF Begin
<1>3. ASSUME NEW r \in Runs, TakeSlot(r) PROVE RunsHaveDocuments'
  BY <1>3 DEF TakeSlot, RunType
<1>4. ASSUME NEW r \in Runs, RunStep(r) PROVE RunsHaveDocuments'
  <2>1. run[r].doc \in Docs /\ (Leave(r) \/ Stays(r))
    BY <1>4, RunStepShape
  <2>2. CASE Leave(r)
    BY <2>2 DEF Leave, Idle
  <2>3. CASE Stays(r)
    BY <2>1, <2>3, ConstantsAssumption DEF Stays, Claimed, Running
  <2> QED BY <2>1, <2>2, <2>3
<1>5. CASE Crash
  BY <1>5 DEF Crash, Idle
<1> QED
  BY <1>1, <1>2, <1>3, <1>4, <1>5, QuietSteps DEF Next

LEMMA GuardStep ==
    ASSUME TypeOK, RunsHaveDocuments, GuardIsExact, [Next]_vars
    PROVE  GuardIsExact'
<1> USE DEF GuardIsExact, Busy
<1>1. CASE Quiet
  BY <1>1 DEF Quiet
<1>2. ASSUME NEW d \in Docs, Begin(d) PROVE GuardIsExact'
  <2>1. CASE GuardAcquire(d)
    <3>1. PICK r \in Runs :
            /\ run[r].step = "idle"
            /\ active' = active \cup {d}
            /\ run' = [run EXCEPT ![r] =
                  [doc |-> d, step |-> "waiting", flushed |-> 0, locks |-> FALSE]]
      BY <1>2, <2>1 DEF Begin
    <3>2. /\ Busy' = Busy \cup {r} /\ r \notin Busy
          /\ run'[r].doc = d
          /\ \A q \in Busy : run'[q].doc = run[q].doc
      BY <3>1 DEF TypeOK
    <3>3. d \notin active
      BY <2>1 DEF GuardAcquire
    <3> QED BY <3>1, <3>2, <3>3
  <2>2. CASE ~ GuardAcquire(d)
    BY <1>2, <2>2 DEF Begin
  <2> QED BY <2>1, <2>2
<1>3. ASSUME NEW r \in Runs, TakeSlot(r) PROVE GuardIsExact'
  <2>1. /\ Busy' = Busy /\ active' = active
        /\ \A q \in Runs : run'[q].doc = run[q].doc
    BY <1>3 DEF TakeSlot, TypeOK, RunType
  <2> QED BY <2>1
<1>4. ASSUME NEW r \in Runs, RunStep(r) PROVE GuardIsExact'
  <2>1. /\ run[r].step \in Running
        /\ Leave(r) \/ Stays(r)
    BY <1>4, RunStepShape
  <2>2. CASE Leave(r)
    <3>1. /\ Busy' = Busy \ {r} /\ r \in Busy
          /\ active' = active \ {run[r].doc}
          /\ \A q \in Busy \ {r} : run'[q].doc = run[q].doc
      BY <2>1, <2>2 DEF Leave, Idle, TypeOK, Running
    <3> QED BY <3>1
  <2>3. CASE Stays(r)
    <3>1. /\ Busy' = Busy /\ active' = active
          /\ \A q \in Runs : run'[q].doc = run[q].doc
      BY <2>1, <2>3 DEF Stays, TypeOK, Claimed, Running
    <3> QED BY <3>1
  <2> QED BY <2>1, <2>2, <2>3
<1>5. CASE Crash
  <2>1. Busy' = {} /\ active' = {}
    BY <1>5 DEF Crash, Idle
  <2> QED BY <2>1
<1> QED
  BY <1>1, <1>2, <1>3, <1>4, <1>5, QuietSteps DEF Next

----------------------------------------------------------------------------
(***************************************************************************)
(* Status and chunks. Only a run brings a document to PROCESSING or        *)
(* COMPLETED, only its own, and it has committed the chunks by then.       *)
(***************************************************************************)
LEMMA RunStepEffect ==
    ASSUME TypeOK, RunsHaveDocuments, NEW r \in Runs, RunStep(r)
    PROVE  /\ \/ UNCHANGED status /\ (UNCHANGED chunks \/ run[r].step \in Claimed)
              \/ /\ run[r].step = "claim" /\ UNCHANGED chunks
                 /\ Reported(run[r].doc, "PROCESSING")
              \/ /\ run[r].step = "fail" /\ UNCHANGED chunks
                 /\ Reported(run[r].doc, "FAILED")
              \/ /\ run[r].step = "report" /\ UNCHANGED chunks
                 /\ Reported(run[r].doc, "COMPLETED") /\ Leave(r)
           /\ run'[r].step = "commit" => run'[r].flushed = Batches
           /\ run'[r].step = "report" =>
                /\ run[r].step = "commit" /\ UNCHANGED status
                /\ chunks'[run[r].doc] = run[r].flushed
           /\ run'[r].step \in Claimed =>
                \/ run[r].step \in Claimed
                \/ Reported(run[r].doc, "PROCESSING")
<1> DEFINE d == run[r].doc
<1>0. /\ d \in Docs /\ run[r] \in RunType
      /\ chunks \in [Docs -> 0..Batches] /\ run \in [Runs -> RunType]
  BY RunStepShape DEF TypeOK
<1>1. ASSUME NEW s \in Steps, Goto(r, s)
      PROVE  run'[r].step = s /\ run'[r].flushed = run[r].flushed
  BY <1>0, <1>1 DEF Goto, RunType
<1>2. ASSUME Leave(r) PROVE run'[r].step = "idle"
  BY <1>0, <1>2 DEF Leave, Idle
<1>3. ASSUME NEW f, NEW l, NEW s, run' = [run EXCEPT ![r] = RunAt(r, s, f, l)]
      PROVE  run'[r].step = s /\ run'[r].flushed = f
  BY <1>0, <1>3 DEF RunAt
<1> USE <1>0 DEF Claimed, Running, Steps
<1>5. CASE Claim(r)
  BY <1>1, <1>5 DEF Claim
<1>6. CASE ClaimSkipped(r)
  BY <1>2, <1>6 DEF ClaimSkipped, ReportedOrNot
<1>7. CASE Clear(r)
  BY <1>1, <1>7 DEF Clear, database
<1>8. CASE StoreBatch(r)
  <2>1. run[r].step = "store" /\ run'[r].step = "store"
    BY <1>3, <1>8 DEF StoreBatch
  <2> QED BY <1>8, <2>1 DEF StoreBatch, database
<1>9. CASE Stored(r)
  BY <1>1, <1>9 DEF Stored, database
<1>10. CASE ProcessingFails(r)
  <2>1. run[r].step \in {"clear", "store"} /\ run'[r].step = "fail"
    BY <1>3, <1>10 DEF ProcessingFails
  <2> QED BY <1>10, <2>1 DEF ProcessingFails, database
<1>11. CASE FailReport(r)
  BY <1>1, <1>11 DEF FailReport, ReportedOrNot
<1>12. CASE Close(r)
  BY <1>2, <1>12 DEF Close
<1>13. CASE Commit(r)
  <2>1. chunks'[d] = run[r].flushed
    BY <1>13 DEF Commit
  <2>2. run[r].step = "commit" /\ run'[r].step = "report"
    BY <1>3, <1>13 DEF Commit
  <2> QED BY <1>13, <2>1, <2>2 DEF Commit
<1>14. CASE CommitFails(r)
  BY <1>2, <1>14 DEF CommitFails
<1>15. CASE Complete(r)
  BY <1>2, <1>15 DEF Complete, ReportedOrNot
<1>16. CASE CompleteConflict(r)
  BY <1>1, <1>16 DEF CompleteConflict, Conflict
<1>17. CASE SafeDeleteChunks(r)
  BY <1>2, <1>17 DEF SafeDeleteChunks
<1> QED
  BY <1>5, <1>6, <1>7, <1>8, <1>9, <1>10, <1>11, <1>12, <1>13, <1>14, <1>15,
     <1>16, <1>17 DEF RunStep

\* Everyone else leaves a document as it is, or makes it UPLOADED, FAILED or GONE.
Untouched(d) == status'[d] = status[d] /\ chunks'[d] = chunks[d]

QuietEffect ==
    \A d \in Docs : Untouched(d) \/ status'[d] \in {"UPLOADED", "FAILED", "GONE"}

LEMMA QuietStepEffect ==
    ASSUME TypeOK
    PROVE  /\ \A d \in Docs : RequestStep(d) => QuietEffect
           /\ SweeperStep => QuietEffect
           /\ Tick => QuietEffect
           /\ Crash => QuietEffect
           /\ UNCHANGED vars => QuietEffect
<1> USE DEF TypeOK, QuietEffect, Untouched, database
<1>1. ASSUME NEW d \in Docs, RequestStep(d) PROVE QuietEffect
  BY <1>1 DEF RequestStep, Upload, Reprocess, CommitRequest, AbortRequest, Delete
<1>2. ASSUME SweeperStep PROVE QuietEffect
  <2>1. CASE FailExpiredUploaded
    BY <2>1 DEF FailExpiredUploaded, FailAll
  <2>2. CASE RetryStuckUploaded
    BY <2>2 DEF RetryStuckUploaded
  <2>3. CASE FailTimedOutProcessing
    BY <2>3 DEF FailTimedOutProcessing, FailAll
  <2>4. CASE SweeperMovesOn
    BY <2>4 DEF SweeperMovesOn
  <2> QED BY <1>2, <2>1, <2>2, <2>3, <2>4 DEF SweeperStep
<1>3. Tick => QuietEffect
  BY DEF Tick
<1>4. Crash => QuietEffect
  BY DEF Crash
<1>5. UNCHANGED vars => QuietEffect
  BY DEF vars
<1> QED BY <1>1, <1>2, <1>3, <1>4, <1>5

LEMMA PendingStep ==
    ASSUME TypeOK, RunsHaveDocuments, PendingIsCurrent, [Next]_vars
    PROVE  PendingIsCurrent'
<1> USE DEF TypeOK, PendingIsCurrent
<1>1. ASSUME NEW d \in Docs, RequestStep(d) PROVE PendingIsCurrent'
  BY <1>1 DEF RequestStep, Upload, Reprocess, CommitRequest, AbortRequest, Delete,
              database
<1>2. ASSUME NEW d \in Docs, Begin(d) PROVE PendingIsCurrent'
  BY <1>2 DEF Begin, database
<1>3. ASSUME NEW r \in Runs, TakeSlot(r) PROVE PendingIsCurrent'
  BY <1>3 DEF TakeSlot, database
<1>4. ASSUME NEW r \in Runs, RunStep(r) PROVE PendingIsCurrent'
  <2>1. /\ run[r].doc \in Docs /\ pending' = pending
        /\ OnlyDoc(run[r].doc)
    BY <1>4, RunStepShape
  <2>2. \/ status' = status
        \/ status[run[r].doc] \in {"UPLOADED", "PROCESSING"}
    BY <1>4, RunStepEffect DEF Reported, AllowedFrom
  <2> QED BY <2>1, <2>2 DEF OnlyDoc
<1>5. CASE SweeperStep
  <2>1. CASE FailExpiredUploaded
    BY <2>1, FindStaleShape DEF FailExpiredUploaded, FailAll
  <2>2. CASE RetryStuckUploaded
    BY <2>2 DEF RetryStuckUploaded, database
  <2>3. CASE FailTimedOutProcessing
    BY <2>3, FindStaleShape DEF FailTimedOutProcessing, FailAll
  <2>4. CASE SweeperMovesOn
    BY <2>4 DEF SweeperMovesOn, database
  <2> QED BY <1>5, <2>1, <2>2, <2>3, <2>4 DEF SweeperStep
<1>6. CASE Crash
  BY <1>6 DEF Crash
<1>7. CASE Tick
  BY <1>7 DEF Tick
<1>8. CASE UNCHANGED vars
  BY <1>8 DEF vars, database
<1> QED
  BY <1>1, <1>2, <1>3, <1>4, <1>5, <1>6, <1>7, <1>8 DEF Next

\* Two runs under way never have the same document.
LEMMA RunsAreApart ==
    ASSUME RunsHaveDocuments, GuardIsExact, NEW r \in Runs, NEW q \in Runs,
           run[r].doc = run[q].doc, run[r].doc # NoDoc
    PROVE  r = q
BY DEF RunsHaveDocuments, GuardIsExact, Busy

\* The last three parts of the invariant, together: each step that could break
\* one of them is ruled out by another.
DataInv == CommitsWhole /\ ClaimedNotCompleted /\ CompletedHasChunks

LEMMA DataStep ==
    ASSUME IInv, [Next]_vars
    PROVE  DataInv'
<1> USE DEF IInv, DataInv
<1>0. /\ status \in [Docs -> Statuses] /\ chunks \in [Docs -> 0..Batches]
      /\ run \in [Runs -> RunType]
      /\ \A r \in Runs : run[r].doc \in Docs \cup {NoDoc}
  BY DEF TypeOK, RunType
<1>1. \A r \in Runs : run[r].step # "idle" => run[r].doc \in Docs
  BY <1>0 DEF RunsHaveDocuments
<1> USE <1>0, <1>1
<1>2. ASSUME QuietEffect, Quiet PROVE DataInv'
  <2>1. CommitsWhole'
    BY <1>2 DEF CommitsWhole, Quiet, QuietEffect, Untouched
  <2>2. ClaimedNotCompleted'
    BY <1>2 DEF ClaimedNotCompleted, Quiet, QuietEffect, Untouched, Claimed, Running
  <2>3. CompletedHasChunks'
    BY <1>2 DEF CompletedHasChunks, QuietEffect, Untouched
  <2> QED BY <2>1, <2>2, <2>3
<1>3. ASSUME NEW d \in Docs, Begin(d) PROVE DataInv'
  <2>1. /\ UNCHANGED <<status, chunks>>
        /\ \A r \in Runs : run'[r] = run[r] \/ run'[r].step = "waiting"
    BY <1>3 DEF Begin, database
  <2> QED
    BY <2>1 DEF CommitsWhole, ClaimedNotCompleted, CompletedHasChunks, Claimed, Running
<1>4. ASSUME NEW q \in Runs, TakeSlot(q) PROVE DataInv'
  <2>1. /\ UNCHANGED <<status, chunks>>
        /\ \A r \in Runs : run'[r] = run[r] \/ run'[r].step = "claim"
    BY <1>4 DEF TakeSlot, database, RunType
  <2> QED
    BY <2>1 DEF CommitsWhole, ClaimedNotCompleted, CompletedHasChunks, Claimed
<1>5. ASSUME NEW q \in Runs, RunStep(q) PROVE DataInv'
  <2> DEFINE d == run[q].doc
  <2>1. /\ d \in Docs /\ OnlyDoc(d) /\ run[q].step \in Running
        /\ Leave(q) \/ Stays(q)
    BY <1>5, RunStepShape
  <2>2. run'[q].step \in Claimed => run'[q].doc = d
    BY <2>1 DEF Leave, Stays, Idle, Claimed, Running
  <2>3. ASSUME NEW r \in Runs \ {q}, run[r].step # "idle"
        PROVE  /\ run'[r] = run[r] /\ run[r].doc \in Docs \ {d}
               /\ Untouched(run[r].doc)
    <3>1. run'[r] = run[r]
      BY <2>1 DEF Leave, Stays
    <3>2. run[r].doc \in Docs /\ run[r].doc # d
      BY <2>1, <2>3, RunsAreApart, ConstantsAssumption
    <3> QED BY <2>1, <3>1, <3>2 DEF OnlyDoc, Untouched
  <2>4. \A r \in Runs \ {q} : run'[r] = run[r]
    BY <2>1 DEF Leave, Stays
  <2>5. CommitsWhole'
    <3>1. ASSUME NEW r \in Runs \ {q}, run'[r].step \in {"commit", "report"}
          PROVE  /\ run'[r] = run[r] /\ Untouched(run[r].doc)
      BY <2>3, <2>4, <3>1
    <3>2. /\ run'[q].step = "commit" => run'[q].flushed = Batches
          /\ run'[q].step = "report" => chunks'[run'[q].doc] = Batches
      <4>1. /\ run'[q].step = "commit" => run'[q].flushed = Batches
            /\ run'[q].step = "report" =>
                 run[q].step = "commit" /\ chunks'[d] = run[q].flushed
        BY <1>5, RunStepEffect
      <4> QED BY <2>2, <4>1 DEF CommitsWhole, Claimed, Running, Steps
    <3> QED BY <3>1, <3>2 DEF CommitsWhole, Untouched
  <2>6. ClaimedNotCompleted'
    <3>1. ASSUME NEW r \in Runs \ {q}, run'[r].step \in Claimed
          PROVE  status'[run'[r].doc] # "COMPLETED"
      BY <2>3, <2>4, <3>1 DEF ClaimedNotCompleted, Untouched, Claimed, Running
    <3>2. ASSUME run'[q].step \in Claimed
          PROVE  status'[run'[q].doc] # "COMPLETED"
      <4>1. run'[q].doc = d /\ ~ Leave(q)
        BY <2>2, <3>2 DEF Leave, Idle, Claimed, Running
      <4>2. \/ UNCHANGED status /\ run[q].step \in Claimed
            \/ Reported(d, "PROCESSING")
            \/ Reported(d, "FAILED")
        BY <1>5, <3>2, <4>1, RunStepEffect
      <4> QED BY <2>1, <4>1, <4>2 DEF ClaimedNotCompleted, Reported, SetStatus
    <3> QED BY <3>1, <3>2 DEF ClaimedNotCompleted
  <2>7. CompletedHasChunks'
    <3>1. ASSUME NEW e \in Docs \ {d} PROVE Untouched(e)
      BY <2>1 DEF OnlyDoc, Untouched
    <3>2. ASSUME status'[d] = "COMPLETED" PROVE chunks'[d] = Batches
      <4>1. CASE UNCHANGED status /\ (UNCHANGED chunks \/ run[q].step \in Claimed)
        BY <2>1, <3>2, <4>1 DEF CompletedHasChunks, ClaimedNotCompleted
      <4>2. CASE Reported(d, "PROCESSING") \/ Reported(d, "FAILED")
        BY <2>1, <3>2, <4>2 DEF Reported, SetStatus
      <4>3. CASE /\ run[q].step = "report" /\ UNCHANGED chunks
                 /\ Reported(d, "COMPLETED")
        BY <4>3 DEF CommitsWhole, Reported, AllowedFrom
      <4> QED BY <1>5, <4>1, <4>2, <4>3, RunStepEffect
    <3> QED BY <3>1, <3>2 DEF CompletedHasChunks, Untouched
  <2> QED BY <2>5, <2>6, <2>7
<1>6. ASSUME Crash PROVE DataInv'
  <2>1. \A r \in Runs : run'[r].step = "idle"
    BY <1>6 DEF Crash, Idle
  <2>2. CompletedHasChunks'
    BY <1>6, QuietStepEffect DEF CompletedHasChunks, QuietEffect, Untouched
  <2> QED BY <2>1, <2>2 DEF CommitsWhole, ClaimedNotCompleted, Claimed, Running
<1> QED
  BY <1>2, <1>3, <1>4, <1>5, <1>6, QuietSteps, QuietStepEffect DEF Next

----------------------------------------------------------------------------
(***************************************************************************)
(* Theorems                                                                *)
(***************************************************************************)

\* IInv holds in every reachable state.
THEOREM Invariance == SafetySpec => []IInv
<1>1. Init => IInv
  <2>1. Init => TypeOK
    BY TypeInit
  <2>2. Init => SlotsAreConserved
    <3>1. ASSUME Init PROVE {r \in Runs : run[r].step \in Running} = {}
      BY <3>1 DEF Init, Idle, Running
    <3> QED BY <3>1, FS_EmptySet, ConstantsAssumption DEF Init, SlotsAreConserved
  <2>3. Init => RunsHaveDocuments /\ GuardIsExact
    BY DEF Init, Idle, RunsHaveDocuments, GuardIsExact, Busy
  <2>4. Init => PendingIsCurrent /\ CommitsWhole
    BY DEF Init, Idle, PendingIsCurrent, CommitsWhole
  <2>5. Init => ClaimedNotCompleted /\ CompletedHasChunks
    BY DEF Init, Idle, ClaimedNotCompleted, CompletedHasChunks, Claimed, Running
  <2> QED BY <2>1, <2>2, <2>3, <2>4, <2>5 DEF IInv
<1>2. IInv /\ [Next]_vars => IInv'
  BY TypeStep, RunsHaveDocumentsStep, GuardStep, SlotsStep, PendingStep, DataStep
     DEF IInv, DataInv
<1> QED BY <1>1, <1>2, PTL DEF SafetySpec

\* The state of the server and the database keeps its types; in particular the
\* semaphore never holds more slots than it was made with.
THEOREM TypeCorrect == SafetySpec => []TypeOK
BY Invariance, PTL DEF IInv

\* A COMPLETED document has all of its chunks.
THEOREM CompletedDocumentsAreWhole == SafetySpec => []CompletedHasChunks
BY Invariance, PTL DEF IInv

\* RunGuard holds exactly the documents of the runs under way, one run each.
THEOREM OneRunPerDocument == SafetySpec => []GuardIsExact
BY Invariance, PTL DEF IInv

\* No slot of the semaphore is lost or given back twice.
THEOREM NoSlotLeaks == SafetySpec => []SlotsAreConserved
BY Invariance, PTL DEF IInv

\* No one else completes a document a run has claimed.
THEOREM OnlyTheClaimantCompletes == SafetySpec => []ClaimedNotCompleted
BY Invariance, PTL DEF IInv

----------------------------------------------------------------------------
(***************************************************************************)
(* Module Ingestion implements module DocumentLifecycle: every step maps   *)
(* to one of its steps or to a stutter.                                    *)
(***************************************************************************)

\* What a step does to the status of documents decides what it does to stages.
SameView == UNCHANGED <<Stage, Searchable>>

LEMMA StageFacts ==
    ASSUME TypeOK
    PROVE  /\ Stage = [d \in Docs |-> StageOf[status[d]]]
           /\ \A d \in Docs :
                /\ status[d] = "NONE" <=> Stage[d] = "none"
                /\ status[d] = "UPLOADED" <=> Stage[d] = "queued"
                /\ status[d] = "PROCESSING" <=> Stage[d] = "working"
                /\ status[d] = "COMPLETED" <=> Stage[d] = "ready"
                /\ status[d] = "FAILED" <=> Stage[d] = "failed"
                /\ status[d] = "GONE" <=> Stage[d] = "gone"
BY DEF TypeOK, Statuses, Stage, StageOf

\* One document moves to status s, and a search sees as much as before of it:
\* the abstract stage moves alike.
LEMMA StageMoves ==
    ASSUME TypeOK, TypeOK', NEW S \in SUBSET Docs, NEW s \in Statuses,
           status' = [d \in Docs |-> IF d \in S THEN s ELSE status[d]]
    PROVE  Stage' = [d \in Docs |-> IF d \in S THEN StageOf[s] ELSE Stage[d]]
BY DEF TypeOK, Stage

LEMMA StageMovesOne ==
    ASSUME TypeOK, TypeOK', NEW d \in Docs, NEW s \in Statuses,
           status' = [status EXCEPT ![d] = s]
    PROVE  Stage' = [Stage EXCEPT ![d] = StageOf[s]]
BY DEF TypeOK, Stage

\* A search sees the same when no COMPLETED document is touched.
LEMMA SameSearch ==
    ASSUME TypeOK,
           \A d \in Docs : \/ Untouched(d)
                           \/ status[d] # "COMPLETED" /\ status'[d] # "COMPLETED"
    PROVE  Searchable' = Searchable
BY DEF Searchable, Untouched

LEMMA InitMaps == Init => Lifecycle!Init
BY DEF Init, Lifecycle!Init, Stage, StageOf, Searchable

LEMMA RequestMaps ==
    ASSUME IInv, IInv', NEW d \in Docs, RequestStep(d)
    PROVE  Lifecycle!Next \/ SameView
<1> USE DEF IInv
<1>1. CASE Upload(d) \/ Reprocess(d)
  BY <1>1 DEF Upload, Reprocess, SameView, Stage, Searchable, database
<1>2. CASE CommitRequest(d)
  <2>1. status' = [status EXCEPT ![d] = "UPLOADED"] /\ chunks' = chunks
    BY <1>2 DEF CommitRequest
  <2>2a. status[d] \in {"NONE", "FAILED"}
    <3>1. pending[d] \in {"upload", "reprocess"}
      BY <1>2 DEF CommitRequest, TypeOK
    <3> QED BY <3>1 DEF PendingIsCurrent
  <2>2. Stage' = [Stage EXCEPT ![d] = "queued"]
    BY <2>1, StageMovesOne DEF Statuses, StageOf
  <2>3. Searchable' = Searchable
    BY <2>1, <2>2a, SameSearch DEF Untouched, TypeOK
  <2>4. Lifecycle!Accept(d) \/ Lifecycle!Requeue(d)
    BY <2>1, <2>2a, <2>2, <2>3, StageFacts DEF Lifecycle!Accept, Lifecycle!Requeue
  <2> QED BY <2>4 DEF Lifecycle!Next
<1>3. CASE AbortRequest(d)
  <2>1. CASE pending[d] = "upload"
    <3> DEFINE S == {d}
    <3>1. /\ status' = [e \in Docs |-> IF e \in S THEN "GONE" ELSE status[e]]
          /\ chunks' = chunks /\ \A e \in S : status[e] = "NONE"
      BY <1>3, <2>1 DEF AbortRequest, PendingIsCurrent, TypeOK
    <3>2. S \in SUBSET Docs /\ "GONE" \in Statuses /\ StageOf["GONE"] = "gone"
      BY DEF Statuses, StageOf
    <3> HIDE DEF S
    <3>3. Stage' = [e \in Docs |-> IF e \in S THEN "gone" ELSE Stage[e]]
      BY <3>1, <3>2, StageMoves
    <3>4. Searchable' = Searchable
      BY <3>1, SameSearch DEF Untouched
    <3>5. Lifecycle!Lose(S)
      BY <3>1, <3>2, <3>3, <3>4, StageFacts DEF Lifecycle!Lose
    <3> QED BY <3>2, <3>5 DEF Lifecycle!Next
  <2>2. CASE pending[d] # "upload"
    BY <1>3, <2>2 DEF AbortRequest, SameView, Stage, Searchable
  <2> QED BY <2>1, <2>2
<1>4. CASE Delete(d)
  <2>1. /\ status' = [status EXCEPT ![d] = "GONE"]
        /\ chunks' = [chunks EXCEPT ![d] = 0]
        /\ status[d] \notin {"NONE", "GONE"}
    BY <1>4 DEF Delete
  <2>2. Stage' = [Stage EXCEPT ![d] = "gone"]
    BY <2>1, StageMovesOne DEF Statuses, StageOf
  <2>3. Searchable' = [Searchable EXCEPT ![d] = 0]
    BY <2>1 DEF Searchable, TypeOK
  <2>4. Lifecycle!Remove(d)
    BY <2>1, <2>2, <2>3, StageFacts DEF Lifecycle!Remove
  <2> QED BY <2>4 DEF Lifecycle!Next
<1> QED BY <1>1, <1>2, <1>3, <1>4 DEF RequestStep

LEMMA RunMaps ==
    ASSUME IInv, IInv', NEW r \in Runs, RunStep(r)
    PROVE  Lifecycle!Next \/ SameView
<1> USE DEF IInv
<1> DEFINE d == run[r].doc
<1>1. d \in Docs /\ OnlyDoc(d)
  BY RunStepShape
<1>2. CASE UNCHANGED status /\ (UNCHANGED chunks \/ run[r].step \in Claimed)
  <2>1. Searchable' = Searchable
    BY <1>1, <1>2, SameSearch DEF OnlyDoc, Untouched, ClaimedNotCompleted, TypeOK
  <2> QED BY <1>2, <2>1 DEF SameView, Stage
<1>3. ASSUME Reported(d, "PROCESSING") PROVE Lifecycle!Take(d)
  <2>1. status[d] = "UPLOADED" /\ status' = [status EXCEPT ![d] = "PROCESSING"]
    BY <1>3 DEF Reported, SetStatus, AllowedFrom
  <2>2. Stage' = [Stage EXCEPT ![d] = "working"]
    BY <1>1, <2>1, StageMovesOne DEF Statuses, StageOf
  <2>3. Searchable' = Searchable
    BY <1>1, <2>1, SameSearch DEF OnlyDoc, Untouched, TypeOK
  <2> QED BY <1>1, <2>1, <2>2, <2>3, StageFacts DEF Lifecycle!Take
<1>4. ASSUME Reported(d, "FAILED") PROVE \E S \in SUBSET Docs : Lifecycle!Fail(S)
  <2> DEFINE S == {d}
  <2>1. /\ status[d] = "PROCESSING"
        /\ status' = [status EXCEPT ![d] = "FAILED"]
    BY <1>4 DEF Reported, SetStatus, AllowedFrom
  <2>2. Stage' = [Stage EXCEPT ![d] = "failed"]
    BY <1>1, <2>1, StageMovesOne DEF Statuses, StageOf
  <2>3. Searchable' = Searchable
    BY <1>1, <2>1, SameSearch DEF OnlyDoc, Untouched, TypeOK
  <2>4. Stage' = [e \in Docs |-> IF e \in S THEN "failed" ELSE Stage[e]]
    BY <2>2, StageFacts
  <2>5. S \in SUBSET Docs /\ \A e \in S : Stage[e] = "working"
    BY <1>1, <2>1, StageFacts
  <2> HIDE DEF S
  <2> QED BY <2>3, <2>4, <2>5 DEF Lifecycle!Fail
<1>5. ASSUME Reported(d, "COMPLETED"), UNCHANGED chunks PROVE Lifecycle!Finish(d)
  <2>1. status[d] = "PROCESSING" /\ status' = [status EXCEPT ![d] = "COMPLETED"]
    BY <1>5 DEF Reported, SetStatus, AllowedFrom
  <2>2. Stage' = [Stage EXCEPT ![d] = "ready"]
    BY <1>1, <2>1, StageMovesOne DEF Statuses, StageOf
  <2>3. chunks'[d] = Batches
    BY <1>1, <2>1 DEF CompletedHasChunks, TypeOK
  <2>4. Searchable' = [Searchable EXCEPT ![d] = Batches]
    BY <1>1, <1>5, <2>1, <2>3 DEF Searchable, TypeOK
  <2> QED BY <1>1, <2>1, <2>2, <2>4, StageFacts DEF Lifecycle!Finish
<1> QED
  BY <1>1, <1>2, <1>3, <1>4, <1>5, RunStepEffect DEF Lifecycle!Next

\* A sweep gives up rows that were UPLOADED or PROCESSING when it locked them.
LEMMA SweeperMaps ==
    ASSUME IInv, IInv', SweeperStep
    PROVE  Lifecycle!Next \/ SameView
<1> USE DEF IInv
<1>1. ASSUME NEW s \in {"UPLOADED", "PROCESSING"}, NEW n,
             NEW S \in FindStale(s, n), FailAll(S),
             \A d \in Docs \ S : chunks'[d] = chunks[d]
      PROVE  Lifecycle!Next
  <2>1. S \in SUBSET Docs /\ \A d \in S : status[d] \in {"UPLOADED", "PROCESSING"}
    BY <1>1, FindStaleShape
  <2>2. Stage' = [d \in Docs |-> IF d \in S THEN "failed" ELSE Stage[d]]
    BY <1>1, <2>1, StageMoves DEF FailAll, Statuses, StageOf
  <2>3. Searchable' = Searchable
    BY <1>1, <2>1, SameSearch DEF FailAll, Untouched
  <2>4. Lifecycle!Fail(S)
    BY <2>1, <2>2, <2>3, StageFacts DEF Lifecycle!Fail
  <2> QED BY <2>1, <2>4 DEF Lifecycle!Next
<1>2. CASE FailExpiredUploaded
  BY <1>1, <1>2 DEF FailExpiredUploaded
<1>3. CASE RetryStuckUploaded \/ SweeperMovesOn
  BY <1>3 DEF RetryStuckUploaded, SweeperMovesOn, SameView, Stage, Searchable, database
<1>4. CASE FailTimedOutProcessing
  <2>1. PICK S \in FindStale("PROCESSING", ProcessingTimeout) :
          /\ FailAll(S)
          /\ chunks' = [d \in Docs |-> IF d \in S THEN 0 ELSE chunks[d]]
    BY <1>4 DEF FailTimedOutProcessing
  <2> QED BY <1>1, <2>1
<1> QED BY <1>2, <1>3, <1>4 DEF SweeperStep

LEMMA CrashMaps ==
    ASSUME IInv, IInv', Crash
    PROVE  Lifecycle!Next
<1> USE DEF IInv
<1> DEFINE S == {d \in Docs : pending[d] = "upload"}
<1>1. /\ status' = [d \in Docs |-> IF d \in S THEN "GONE" ELSE status[d]]
      /\ chunks' = chunks
      /\ \A d \in S : status[d] = "NONE"
  <2>1. status' = [d \in Docs |-> IF d \in S THEN "GONE" ELSE status[d]]
    <3>1. \A d \in Docs : d \in S <=> pending[d] = "upload"
      OBVIOUS
    <3> HIDE DEF S
    <3> QED BY <3>1 DEF Crash
  <2> QED BY <2>1 DEF Crash, PendingIsCurrent
<1>2. Stage' = [d \in Docs |-> IF d \in S THEN "gone" ELSE Stage[d]]
  <2>1. S \in SUBSET Docs /\ "GONE" \in Statuses /\ StageOf["GONE"] = "gone"
    BY DEF Statuses, StageOf
  <2> HIDE DEF S
  <2> QED BY <1>1, <2>1, StageMoves
<1>3. Searchable' = Searchable
  BY <1>1, SameSearch DEF Untouched
<1>4. Lifecycle!Lose(S)
  BY <1>1, <1>2, <1>3, StageFacts DEF Lifecycle!Lose
<1> QED BY <1>4 DEF Lifecycle!Next

\* The detailed specification implements the abstract one.
THEOREM Refinement == SafetySpec => ImplementsLifecycle
<1>1. IInv /\ IInv' /\ [Next]_vars => [Lifecycle!Next]_(Lifecycle!vars)
  <2> SUFFICES ASSUME IInv, IInv', [Next]_vars
               PROVE  Lifecycle!Next \/ SameView
    BY DEF SameView, Lifecycle!vars
  <2>1. ASSUME NEW d \in Docs, RequestStep(d) PROVE Lifecycle!Next \/ SameView
    BY <2>1, RequestMaps
  <2>2. ASSUME NEW d \in Docs, Begin(d) PROVE SameView
    BY <2>2 DEF Begin, SameView, Stage, Searchable, database
  <2>3. ASSUME NEW r \in Runs, TakeSlot(r) PROVE SameView
    BY <2>3 DEF TakeSlot, SameView, Stage, Searchable, database
  <2>4. ASSUME NEW r \in Runs, RunStep(r) PROVE Lifecycle!Next \/ SameView
    BY <2>4, RunMaps
  <2>5. CASE Tick
    BY <2>5 DEF Tick, SameView, Stage, Searchable
  <2>6. CASE UNCHANGED vars
    BY <2>6 DEF vars, database, SameView, Stage, Searchable
  <2> QED
    BY <2>1, <2>2, <2>3, <2>4, <2>5, <2>6, SweeperMaps, CrashMaps DEF Next
<1> QED
  BY <1>1, InitMaps, Invariance, PTL
     DEF SafetySpec, ImplementsLifecycle, Lifecycle!Spec

============================================================================
