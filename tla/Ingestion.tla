----------------------------- MODULE Ingestion -----------------------------
(***************************************************************************)
(* The life of an uploaded document in the one running server: the request *)
(* that accepts it, the background run that turns it into chunk            *)
(* embeddings, the sweeper that rescues what got stuck, the user who       *)
(* reprocesses or deletes it, and a crash of the server in between.        *)
(*                                                                         *)
(*   IngestionRunner, RunGuard         src/uploads/services,               *)
(*   StoreChunkEmbeddingService        src/rag/services                    *)
(*   DocumentStatusReporter            src/rag/services/report             *)
(*   Sweeper                           src/uploads/services/sweeper.py     *)
(*   UploadService, upload_router      accept, reprocess, delete           *)
(*                                                                         *)
(* One action is one database transaction, or one step of the event loop   *)
(* that changes what the server keeps in memory. A run is split where the  *)
(* code awaits: other requests, runs and the sweeper act between any two   *)
(* of its steps. PostgreSQL runs at READ COMMITTED, so a conditional       *)
(* UPDATE tests the committed row.                                         *)
(***************************************************************************)
EXTENDS Integers, FiniteSets

CONSTANTS
    Docs,               \* document ids (uuid4, never used twice)
    Runs,               \* identities for the asyncio tasks of the runner
    NoDoc,              \* the document of a run that is not in use
    MaxConcurrent,      \* MAX_CONCURRENT_UPLOADS, the slots of the semaphore
    Batches,            \* batches of chunks a whole document is stored in
    RetryAfter,         \* uploaded_retry_after_seconds, in ticks
    UploadedMaxAge,     \* uploaded_max_age_seconds, in ticks
    ProcessingTimeout,  \* processing_timeout_seconds, in ticks
    BatchLimit,         \* batch_limit, rows a sweeper rule takes at most
    MaxTriggers,        \* bound: tasks created for a document, not yet begun
    MaxCrashes          \* bound: crashes of the server

ASSUME ConstantsAssumption ==
    /\ NoDoc \notin Docs
    /\ IsFiniteSet(Docs) /\ IsFiniteSet(Runs)
    /\ MaxConcurrent \in Nat \ {0}
    /\ Batches \in Nat \ {0}
    /\ {RetryAfter, UploadedMaxAge, ProcessingTimeout} \subseteq Nat
    /\ BatchLimit \in Nat \ {0}
    /\ MaxTriggers \in Nat \ {0}
    /\ MaxCrashes \in Nat

VARIABLES
    \* The database, as committed
    status,     \* documents.status; NONE before and GONE after the row exists
    age,        \* ticks since documents.updated_at, up to AgeCap
    chunks,     \* batches of chunk_embeddings rows of each document
    \* Requests whose transaction has not committed yet
    pending,
    \* The server's memory
    triggers,   \* runner.start() calls whose task has not begun
    active,     \* RunGuard._active
    slots,      \* free slots of IngestionRunner._slots
    run,        \* the runs that got past the guard
    sweeper,    \* the next thing Sweeper._loop does
    crashes

database == <<status, age, chunks>>
memory == <<triggers, active, slots, run, sweeper>>
vars == <<database, pending, memory, crashes>>

----------------------------------------------------------------------------
Statuses == {"NONE", "UPLOADED", "PROCESSING", "COMPLETED", "FAILED", "GONE"}

\* Where a run is: waiting for a slot, about to claim the document, clearing
\* old chunks, storing batches, about to report a failure, ending its
\* transaction after a failure, committing, reporting COMPLETED, and removing
\* its chunks after a conflict.
Steps == {"idle", "waiting", "claim", "clear", "store", "fail", "close",
          "commit", "report", "cleanup"}

\* The steps that hold a slot, and those that follow a successful claim.
Running == Steps \ {"idle", "waiting"}
Claimed == Running \ {"claim"}

Idle == [doc |-> NoDoc, step |-> "idle", flushed |-> 0, locks |-> FALSE]

\* Ages above every threshold are all the same to the code.
AgeCap == 1 + CHOOSE m \in {RetryAfter, UploadedMaxAge, ProcessingTimeout} :
                 \A n \in {RetryAfter, UploadedMaxAge, ProcessingTimeout} : n <= m

\* flushed: batches inserted by the open transaction of the run. locks: that
\* transaction holds FOR KEY SHARE on the document row, taken by the foreign
\* key check of its first insert and kept until the transaction ends.
RunType == [doc : Docs \cup {NoDoc}, step : Steps,
            flushed : 0..Batches, locks : BOOLEAN]

TypeOK ==
    /\ status \in [Docs -> Statuses]
    /\ age \in [Docs -> 0..AgeCap]
    /\ chunks \in [Docs -> 0..Batches]
    /\ pending \in [Docs -> {"none", "upload", "reprocess"}]
    /\ triggers \in [Docs -> 0..MaxTriggers]
    /\ active \in SUBSET Docs
    /\ slots \in 0..MaxConcurrent
    /\ run \in [Runs -> RunType]
    /\ sweeper \in {"rule1", "rule2", "rule3", "rule4", "sleep"}
    /\ crashes \in 0..MaxCrashes

Init ==
    /\ status = [d \in Docs |-> "NONE"]
    /\ age = [d \in Docs |-> 0]
    /\ chunks = [d \in Docs |-> 0]
    /\ pending = [d \in Docs |-> "none"]
    /\ triggers = [d \in Docs |-> 0]
    /\ active = {}
    /\ slots = MaxConcurrent
    /\ run = [r \in Runs |-> Idle]
    /\ sweeper = "rule1"
    /\ crashes = 0

----------------------------------------------------------------------------
(***************************************************************************)
(* Requests. The session of a request commits after the handler returns,   *)
(* and the handler starts the run before it returns: the run can look for  *)
(* the row before the row is there.                                        *)
(***************************************************************************)

\* A run with an open transaction that inserted chunks of d keeps others from
\* deleting the row, and SELECT ... FOR UPDATE SKIP LOCKED from taking it.
KeyShared(d) == \E r \in Runs : run[r].doc = d /\ run[r].locks

Start(d) == triggers' = [triggers EXCEPT ![d] = @ + 1]

\* IngestionRunner.start is called with the row created and marked UPLOADED in
\* the transaction of the request. func.now() is the start of that transaction,
\* so the age of the row counts from here.
Upload(d) ==
    /\ status[d] = "NONE" /\ pending[d] = "none"
    /\ triggers[d] < MaxTriggers
    /\ pending' = [pending EXCEPT ![d] = "upload"]
    /\ age' = [age EXCEPT ![d] = 0]
    /\ Start(d)
    /\ UNCHANGED <<status, chunks, active, slots, run, sweeper, crashes>>

\* FAILED -> UPLOADED in the transaction of the request, then start.
Reprocess(d) ==
    /\ status[d] = "FAILED" /\ pending[d] = "none"
    /\ triggers[d] < MaxTriggers
    /\ pending' = [pending EXCEPT ![d] = "reprocess"]
    /\ Start(d)
    /\ UNCHANGED <<database, active, slots, run, sweeper, crashes>>

\* The transaction of the request commits. A reprocessed row gets the start of
\* the request as updated_at, later than the one it had.
CommitRequest(d) ==
    /\ pending[d] # "none"
    /\ status' = [status EXCEPT ![d] = "UPLOADED"]
    /\ IF pending[d] = "upload"
         THEN UNCHANGED age
         ELSE \E a \in 0..age[d] : age' = [age EXCEPT ![d] = a]
    /\ pending' = [pending EXCEPT ![d] = "none"]
    /\ UNCHANGED <<chunks, memory, crashes>>

\* The commit fails and the transaction is rolled back; the run it started is
\* not called back. The id of a lost upload is never used again.
AbortRequest(d) ==
    /\ pending[d] # "none"
    /\ status' = IF pending[d] = "upload"
                   THEN [status EXCEPT ![d] = "GONE"] ELSE status
    /\ pending' = [pending EXCEPT ![d] = "none"]
    /\ UNCHANGED <<age, chunks, memory, crashes>>

\* The row is deleted, by the user or with its chat session; the foreign key
\* removes the chunks. The statement waits for the row locks of others.
Delete(d) ==
    /\ status[d] \notin {"NONE", "GONE"}
    /\ pending[d] = "none" /\ ~ KeyShared(d)
    /\ status' = [status EXCEPT ![d] = "GONE"]
    /\ chunks' = [chunks EXCEPT ![d] = 0]
    /\ UNCHANGED <<age, pending, memory, crashes>>

----------------------------------------------------------------------------
(***************************************************************************)
(* IngestionRunner._run                                                    *)
(***************************************************************************)

\* Mutant: the guard lets every task in.
GuardAcquireAlways(d) == TRUE

GuardAcquire(d) == d \notin active

\* A task begins. If the guard has the document it ends at once, else it goes
\* on to wait for a slot.
Begin(d) ==
    /\ triggers[d] > 0
    /\ triggers' = [triggers EXCEPT ![d] = @ - 1]
    /\ IF GuardAcquire(d)
         THEN \E r \in Runs :
                /\ run[r].step = "idle"
                /\ active' = active \cup {d}
                /\ run' = [run EXCEPT ![r] =
                      [doc |-> d, step |-> "waiting", flushed |-> 0, locks |-> FALSE]]
         ELSE UNCHANGED <<active, run>>
    /\ UNCHANGED <<database, pending, slots, sweeper, crashes>>

\* Mutant: the semaphore is not waited for.
TakeSlotAlways(r) ==
    /\ run[r].step = "waiting"
    /\ slots' = slots - 1
    /\ run' = [run EXCEPT ![r].step = "claim"]
    /\ UNCHANGED <<database, pending, triggers, active, sweeper, crashes>>

TakeSlot(r) ==
    /\ run[r].step = "waiting"
    /\ slots > 0
    /\ slots' = slots - 1
    /\ run' = [run EXCEPT ![r].step = "claim"]
    /\ UNCHANGED <<database, pending, triggers, active, sweeper, crashes>>

\* Mutants: the slot is given back twice; the slot is kept; the guard forgets
\* every document.
LeaveTwice(r) ==
    /\ slots' = slots + 2
    /\ active' = active \ {run[r].doc}
    /\ run' = [run EXCEPT ![r] = Idle]
    /\ UNCHANGED <<pending, triggers, sweeper, crashes>>

LeaveKeepsSlot(r) ==
    /\ active' = active \ {run[r].doc}
    /\ run' = [run EXCEPT ![r] = Idle]
    /\ UNCHANGED <<slots, pending, triggers, sweeper, crashes>>

LeaveClearsGuard(r) ==
    /\ slots' = slots + 1
    /\ active' = {}
    /\ run' = [run EXCEPT ![r] = Idle]
    /\ UNCHANGED <<pending, triggers, sweeper, crashes>>

\* The run ends, in whatever way: the slot and the guard are given back.
Leave(r) ==
    /\ slots' = slots + 1
    /\ active' = active \ {run[r].doc}
    /\ run' = [run EXCEPT ![r] = Idle]
    /\ UNCHANGED <<pending, triggers, sweeper, crashes>>

Goto(r, step) ==
    /\ run' = [run EXCEPT ![r].step = step]
    /\ UNCHANGED <<pending, triggers, active, slots, sweeper, crashes>>

\* The record of a run that goes on.
RunAt(r, step, flushed, locks) ==
    [doc |-> run[r].doc, step |-> step, flushed |-> flushed, locks |-> locks]

----------------------------------------------------------------------------
(***************************************************************************)
(* DocumentStatusReporter.report: UPDATE ... WHERE status IN (...) in a    *)
(* transaction of its own.                                                 *)
(***************************************************************************)
\* Mutant: a FAILED document can be claimed without being reprocessed.
AllowedFromFailed == [PROCESSING |-> {"UPLOADED", "FAILED"},
                      COMPLETED  |-> {"PROCESSING"},
                      FAILED     |-> {"PROCESSING"}]

AllowedFrom == [PROCESSING |-> {"UPLOADED"},
                COMPLETED  |-> {"PROCESSING"},
                FAILED     |-> {"PROCESSING"}]

SetStatus(d, s) ==
    /\ status' = [status EXCEPT ![d] = s]
    /\ age' = [age EXCEPT ![d] = 0]

\* The row was in an allowed status and is moved.
Reported(d, s) == status[d] \in AllowedFrom[s] /\ SetStatus(d, s)

\* StatusConflict: the row is gone or in no allowed status.
Conflict(d, s) == status[d] \notin AllowedFrom[s] /\ UNCHANGED <<status, age>>

\* Every outcome, for a caller that goes on alike after all of them. A report
\* that raises StatusReportFailed may be done or not: the connection can break
\* while the transaction commits.
ReportedOrNot(d, s) == Reported(d, s) \/ UNCHANGED <<status, age>>

----------------------------------------------------------------------------
(***************************************************************************)
(* StoreChunkEmbeddingService.run and IngestionRunner._ingest. What runs   *)
(* between "clear" and "commit" or "close" is one transaction, invisible   *)
(* to others until it ends.                                                *)
(***************************************************************************)

\* Phase 1: claim the document.
Claim(r) ==
    /\ run[r].step = "claim"
    /\ Reported(run[r].doc, "PROCESSING")
    /\ Goto(r, "clear")
    /\ UNCHANGED chunks

\* The claim conflicts or its report fails, and the run is skipped.
ClaimSkipped(r) ==
    /\ run[r].step = "claim"
    /\ ReportedOrNot(run[r].doc, "PROCESSING")
    /\ Leave(r)
    /\ UNCHANGED chunks

\* Phase 2: delete the chunks an earlier run left behind.
Clear(r) ==
    /\ run[r].step = "clear"
    /\ Goto(r, "store")
    /\ UNCHANGED database

\* One batch is embedded and inserted. The foreign key check needs the row.
StoreBatch(r) ==
    /\ run[r].step = "store"
    /\ run[r].flushed < Batches
    /\ status[run[r].doc] # "GONE"
    /\ run' = [run EXCEPT ![r] = RunAt(r, "store", run[r].flushed + 1, TRUE)]
    /\ UNCHANGED <<database, pending, triggers, active, slots, sweeper, crashes>>

\* Mutant: COMPLETED is reported before the chunks are committed.
StoredReportsFirst(r) ==
    /\ run[r].step = "store"
    /\ run[r].flushed = Batches
    /\ Goto(r, "report")
    /\ UNCHANGED database

\* The stream of chunks ended and was long enough.
Stored(r) ==
    /\ run[r].step = "store"
    /\ run[r].flushed = Batches
    /\ Goto(r, "commit")
    /\ UNCHANGED database

\* Any exception of phase 2: download, checksum, extraction, too little text,
\* embedding, a database error, or the row is gone. _handle_fail deletes the
\* chunks of the transaction; the lock on the row stays.
ProcessingFails(r) ==
    /\ run[r].step \in {"clear", "store"}
    /\ run' = [run EXCEPT ![r] = RunAt(r, "fail", 0, run[r].locks)]
    /\ UNCHANGED <<database, pending, triggers, active, slots, sweeper, crashes>>

\* FAILED is reported while the transaction of the run is still open.
FailReport(r) ==
    /\ run[r].step = "fail"
    /\ ReportedOrNot(run[r].doc, "FAILED")
    /\ Goto(r, "close")
    /\ UNCHANGED chunks

\* The transaction of the failed run ends: its delete of old chunks commits,
\* or it is rolled back because a statement in it had failed.
Close(r) ==
    /\ run[r].step = "close"
    /\ chunks' \in {chunks, [chunks EXCEPT ![run[r].doc] = 0]}
    /\ Leave(r)
    /\ UNCHANGED <<status, age>>

\* The session block of _ingest ends, all chunks of the run become visible.
Commit(r) ==
    /\ run[r].step = "commit"
    /\ chunks' = [chunks EXCEPT ![run[r].doc] = run[r].flushed]
    /\ run' = [run EXCEPT ![r] = RunAt(r, "report", 0, FALSE)]
    /\ UNCHANGED <<status, age, pending, triggers, active, slots, sweeper, crashes>>

\* The commit raises. _run logs it and ends; the document stays PROCESSING.
\* When the connection broke during the commit the chunks may be there.
CommitFails(r) ==
    /\ run[r].step = "commit"
    /\ chunks' \in {chunks, [chunks EXCEPT ![run[r].doc] = run[r].flushed]}
    /\ Leave(r)
    /\ UNCHANGED <<status, age>>

\* _complete: COMPLETED is reported, or the report fails.
Complete(r) ==
    /\ run[r].step = "report"
    /\ ReportedOrNot(run[r].doc, "COMPLETED")
    /\ Leave(r)
    /\ UNCHANGED chunks

\* _complete: the document changed state during the run.
CompleteConflict(r) ==
    /\ run[r].step = "report"
    /\ Conflict(run[r].doc, "COMPLETED")
    /\ Goto(r, "cleanup")
    /\ UNCHANGED chunks

\* Mutant: the chunks of every document are removed.
SafeDeleteAllChunks(r) ==
    /\ run[r].step = "cleanup"
    /\ chunks' \in {chunks, [d \in Docs |-> 0]}
    /\ Leave(r)
    /\ UNCHANGED <<status, age>>

\* _safe_delete_chunks, which swallows its own failure.
SafeDeleteChunks(r) ==
    /\ run[r].step = "cleanup"
    /\ chunks' \in {chunks, [chunks EXCEPT ![run[r].doc] = 0]}
    /\ Leave(r)
    /\ UNCHANGED <<status, age>>

RunStep(r) ==
    \/ Claim(r) \/ ClaimSkipped(r)
    \/ Clear(r) \/ StoreBatch(r) \/ Stored(r)
    \/ ProcessingFails(r) \/ FailReport(r) \/ Close(r)
    \/ Commit(r) \/ CommitFails(r)
    \/ Complete(r) \/ CompleteConflict(r) \/ SafeDeleteChunks(r)

----------------------------------------------------------------------------
(***************************************************************************)
(* Sweeper.sweep_once. A rule is one transaction: the rows are locked when *)
(* they are listed, so what it decides still holds when it commits.        *)
(***************************************************************************)
Locked(d) == pending[d] = "reprocess" \/ KeyShared(d)

\* Mutant: rows are listed whatever their status.
StaleAnyStatus(s, olderThan) ==
    {d \in Docs : status[d] \notin {"NONE", "GONE"} /\ age[d] > olderThan /\ ~ Locked(d)}

Stale(s, olderThan) ==
    {d \in Docs : status[d] = s /\ age[d] > olderThan /\ ~ Locked(d)}

\* SELECT ... ORDER BY updated_at LIMIT batch_limit FOR UPDATE SKIP LOCKED
FindStale(s, olderThan) ==
    LET stale == Stale(s, olderThan) IN
    {S \in SUBSET stale :
        /\ Cardinality(S) <= BatchLimit
        /\ Cardinality(S) = BatchLimit \/ S = stale
        /\ \A d \in S, e \in stale \ S : age[d] >= age[e]}

NextRule == [rule1 |-> "rule2", rule2 |-> "rule3", rule3 |-> "rule4",
             rule4 |-> "sleep", sleep |-> "rule1"]

\* The documents of S are moved to FAILED.
FailAll(S) ==
    /\ status' = [d \in Docs |-> IF d \in S THEN "FAILED" ELSE status[d]]
    /\ age' = [d \in Docs |-> IF d \in S THEN 0 ELSE age[d]]

\* Rule 1: processing never started and the retry window is over.
FailExpiredUploaded ==
    /\ sweeper = "rule1"
    /\ \E S \in FindStale("UPLOADED", UploadedMaxAge) : FailAll(S)
    /\ sweeper' = NextRule[sweeper]
    /\ UNCHANGED <<chunks, pending, triggers, active, slots, run, crashes>>

\* Rule 2: the first trigger was lost, start the ingestion again.
RetryStuckUploaded ==
    /\ sweeper = "rule2"
    /\ \E S \in FindStale("UPLOADED", RetryAfter) :
          /\ \A d \in S : triggers[d] < MaxTriggers
          /\ triggers' = [d \in Docs |-> triggers[d] + IF d \in S THEN 1 ELSE 0]
    /\ sweeper' = NextRule[sweeper]
    /\ UNCHANGED <<database, pending, active, slots, run, crashes>>

\* Mutant: rule 3 looks for the status of rules 1 and 2.
FailTimedOutUploaded ==
    /\ sweeper = "rule3"
    /\ \E S \in FindStale("UPLOADED", ProcessingTimeout) :
          /\ FailAll(S)
          /\ chunks' = [d \in Docs |-> IF d \in S THEN 0 ELSE chunks[d]]
    /\ sweeper' = NextRule[sweeper]
    /\ UNCHANGED <<pending, triggers, active, slots, run, crashes>>

\* Rule 3: a run died or hung. The row fails and its chunks are removed.
FailTimedOutProcessing ==
    /\ sweeper = "rule3"
    /\ \E S \in FindStale("PROCESSING", ProcessingTimeout) :
          /\ FailAll(S)
          /\ chunks' = [d \in Docs |-> IF d \in S THEN 0 ELSE chunks[d]]
    /\ sweeper' = NextRule[sweeper]
    /\ UNCHANGED <<pending, triggers, active, slots, run, crashes>>

\* A rule fails and is rolled back, or the loop wakes up from its sleep. Rule 4
\* looks for committed PENDING rows: here an upload commits its row UPLOADED or
\* not at all (module DocumentStore), so the rule finds none.
SweeperMovesOn ==
    /\ sweeper' = NextRule[sweeper]
    /\ UNCHANGED <<database, pending, triggers, active, slots, run, crashes>>

SweeperStep ==
    \/ FailExpiredUploaded \/ RetryStuckUploaded
    \/ FailTimedOutProcessing \/ SweeperMovesOn

----------------------------------------------------------------------------
\* The server dies or is shut down: runs are cancelled, open transactions are
\* rolled back, memory is lost, and the next server starts with an empty guard
\* and a sweep.
Crash ==
    /\ crashes < MaxCrashes
    /\ crashes' = crashes + 1
    /\ status' = [d \in Docs |-> IF pending[d] = "upload" THEN "GONE" ELSE status[d]]
    /\ pending' = [d \in Docs |-> "none"]
    /\ triggers' = [d \in Docs |-> 0]
    /\ active' = {}
    /\ slots' = MaxConcurrent
    /\ run' = [r \in Runs |-> Idle]
    /\ sweeper' = "rule1"
    /\ UNCHANGED <<age, chunks>>

\* Time passes.
Tick ==
    /\ age' = [d \in Docs |-> IF age[d] < AgeCap THEN age[d] + 1 ELSE age[d]]
    /\ UNCHANGED <<status, chunks, pending, memory, crashes>>

RequestStep(d) ==
    Upload(d) \/ Reprocess(d) \/ CommitRequest(d) \/ AbortRequest(d) \/ Delete(d)

Next ==
    \/ \E d \in Docs : RequestStep(d) \/ Begin(d)
    \/ \E r \in Runs : TakeSlot(r) \/ RunStep(r)
    \/ SweeperStep
    \/ Crash
    \/ Tick

(***************************************************************************)
(* Fairness. The event loop runs every ready task, the database answers or *)
(* fails every statement, asyncio.Semaphore hands slots out first come     *)
(* first served, and a rule of the sweeper does not fail at every pass.    *)
(* Nothing is assumed of users or crashes. Under HangingSpec a run may stop *)
(* for ever while it stores: the extraction reads the file in a thread     *)
(* without a deadline.                                                     *)
(***************************************************************************)
SweeperFairness ==
    /\ WF_vars(Tick)
    /\ WF_vars(SweeperStep)
    /\ SF_vars(FailExpiredUploaded)
    /\ SF_vars(FailTimedOutProcessing)
    /\ \A d \in Docs : WF_vars(Begin(d)) /\ WF_vars(CommitRequest(d) \/ AbortRequest(d))

RunFairness == \A r \in Runs : WF_vars(RunStep(r)) /\ SF_vars(TakeSlot(r))

HangingRunFairness ==
    \A r \in Runs : /\ WF_vars(run[r].step # "store" /\ RunStep(r))
                    /\ SF_vars(TakeSlot(r))

SafetySpec == Init /\ [][Next]_vars
Spec == SafetySpec /\ SweeperFairness /\ RunFairness
HangingSpec == SafetySpec /\ SweeperFairness /\ HangingRunFairness
----------------------------------------------------------------------------
(***************************************************************************)
(* Properties                                                              *)
(***************************************************************************)
Busy == {r \in Runs : run[r].step # "idle"}

\* A COMPLETED document has all of its chunks, whatever runs, sweeps, conflicts
\* and crashes came before: _ingest commits the chunks first and reports after,
\* and a run that lost its document only removes chunks nobody can search.
CompletedHasChunks ==
    \A d \in Docs : status[d] = "COMPLETED" => chunks[d] = Batches

\* RunGuard has exactly the documents of the runs under way, one run each: a
\* skipped, failed or cancelled run neither leaks the guard, after which the
\* document could never be processed again, nor frees that of another run.
GuardIsExact ==
    /\ active = {run[r].doc : r \in Busy}
    /\ \A r1, r2 \in Busy : run[r1].doc = run[r2].doc => r1 = r2

\* The semaphore caps the ingestions of the whole app, and no way a run can
\* end loses a slot or gives one back twice.
SlotsAreConserved ==
    slots + Cardinality({r \in Runs : run[r].step \in Running}) = MaxConcurrent

\* A document a run has claimed is never COMPLETED under it by someone else:
\* while a run is between its claim and its end, only that run completes it.
ClaimedNotCompleted ==
    \A r \in Runs : run[r].step \in Claimed => status[run[r].doc] # "COMPLETED"

\* The inductive invariant: the properties above with what they rest on.
RunsHaveDocuments ==
    \A r \in Runs : run[r].doc = NoDoc <=> run[r].step = "idle"

\* The row of an open request is as the request saw it.
PendingIsCurrent ==
    \A d \in Docs : /\ pending[d] = "upload" => status[d] = "NONE"
                    /\ pending[d] = "reprocess" => status[d] = "FAILED"

\* A run commits a whole document, and until it has reported that, whoever
\* removes the chunks also moves the status.
CommitsWhole ==
    \A r \in Runs :
        /\ run[r].step = "commit" => run[r].flushed = Batches
        /\ run[r].step = "report" /\ status[run[r].doc] = "PROCESSING"
              => chunks[run[r].doc] = Batches

IInv ==
    /\ TypeOK
    /\ RunsHaveDocuments
    /\ GuardIsExact
    /\ SlotsAreConserved
    /\ PendingIsCurrent
    /\ CommitsWhole
    /\ ClaimedNotCompleted
    /\ CompletedHasChunks

\* Accepted documents do not stay UPLOADED or PROCESSING for ever, though
\* triggers get lost, reports fail and the server crashes in the middle.
Settles ==
    \A d \in Docs : \A s \in {"UPLOADED", "PROCESSING"} :
        status[d] = s ~> status[d] # s

\* Rule 3 of the sweeper: "a run died or hung, so fail the row".
HungRunFails ==
    \A d \in Docs : status[d] = "PROCESSING" ~> status[d] # "PROCESSING"

----------------------------------------------------------------------------
(***************************************************************************)
(* Refinement. search_by_similarity returns chunks of COMPLETED documents. *)
(***************************************************************************)
StageOf == [NONE |-> "none", UPLOADED |-> "queued", PROCESSING |-> "working",
            COMPLETED |-> "ready", FAILED |-> "failed", GONE |-> "gone"]

Stage == [d \in Docs |-> StageOf[status[d]]]

Searchable == [d \in Docs |-> IF status[d] = "COMPLETED" THEN chunks[d] ELSE 0]

Lifecycle == INSTANCE DocumentLifecycle
    WITH Whole <- Batches, stage <- Stage, seen <- Searchable

\* Documents live as DocumentLifecycle promises: one claim per stay in the
\* queue, ready only once and only from a claim, never changed after.
ImplementsLifecycle == Lifecycle!Spec
=============================================================================
