# A formal model of AskDocuMind API

AskDocuMind API is a FastAPI server: a visitor gets an anonymous session, opens
chat sessions, uploads documents to them, and asks questions that are answered
from the documents. This directory holds TLA+ modules for the parts of the
server where requests, background tasks, transactions, object storage and
crashes meet, and for the way of a document from its file to its chunks and of a
question to its answer; the TLC configurations that check them on small
instances, and theorems that TLAPS checks for every instance.

Paths below are relative to `src/src/` of the repository unless they say
otherwise. `PROJECT.json` maps every definition of the models to the lines it
stands for, and lists the runs, the mutants that show what each property can
tell apart, the hazards and the findings.

## 1. Inventory

One process serves everything: an asyncio event loop handles the requests, the
ingestion tasks, the upload sweeper (`uploads/services/sweeper.py`) and the
cleaner of expired users (`cleanup/expired_user_cleaner.py`). State lives in
PostgreSQL (READ COMMITTED), in S3-compatible object storage, in signed tokens
that clients hold, and in the memory of the process.

| Component | State it keeps | Operations | What must hold |
|---|---|---|---|
| Upload service and router (`uploads/services/upload_service.py`, `uploads/routes/upload_router.py`) | `documents` rows, files | upload, list, delete one, delete all, reprocess | a row has its file and a file its row; at most `MAX_DOCS_PER_SESSION` documents; an accepted document gets processed |
| Ingestion runner, `RunGuard`, store service (`uploads/services/ingestion_service.py`, `rag/services/store.py`) | `_active`, `_slots`, set of tasks; `chunk_embeddings` rows | start, run, claim, clear, store batches, fail, commit, complete | one run per document; slots come back; COMPLETED means all chunks |
| Status reporter (`rag/services/report/document_status_reporter.py`) | `documents.status` | conditional UPDATE in a transaction of its own | status only moves along allowed edges |
| Upload sweeper | its loop | four rules on stale rows | nothing stays UPLOADED, PROCESSING or PENDING for ever |
| Object storage (`uploads/storage/`) | files | save, delete, delete a prefix, presign | none of its own: calls may fail after they took effect |
| Chat sessions, chat messages (`chat_session/`) | rows | create, initialise, get, delete | at most `MAX_CHATS_PER_USER`; a deleted session leaves nothing |
| Anonymous sessions (`auth/`, `middleware/anonymous_sessions.py`) | `users.last_seen_at`, tokens in cookies | init, authenticate | a valid token has a user |
| Expired user cleaner | its loop | lock a batch, delete, then files | never early, never never |
| Database sessions (`database/session.py`, `database/dependencies.py`) | connection pool | open, commit after the response, roll back | nobody waits for ever for a connection |
| Concurrent request limit, request size limit, rate limiter, request logger (`middleware/`) | a counter; bytes received | admit or reject | the counter is exact; no body above the limit is read |
| Chunkers (`rag/services/chunk/`) | none | split text, stream segments, merge small chunks | no text lost but the separators at which a text is split; no empty or oversized chunk; no small chunk beside room for it |
| Extraction (`rag/services/extract/`) | a temporary directory, an open file, a worker thread per job | download, compare checksums, read segment by segment, close | a document's text arrives once, in order and in its lines; nothing stays open, however the stream ends |
| Retrieval, query expander, reranker, chatbot (`rag/services/`, `chatbot/`) | the lock of the reranker | expand, search, fall back to the web, rank, cut to a budget, answer | the best of what was found reaches the prompt; every question is answered |
| Web searcher (`rag/services/fallback/`) | a semaphore per search | two engines, parallel downloads, redirects by hand | every address is checked; no more downloads than allowed |
| Embedder | none | calls of a remote service | none of its own |
| Health checks, start and stop, errors, configuration, migrations | none or fixed | - | - |

How they interact. A request runs in one transaction that FastAPI commits after
the response was sent (`database/dependencies.py`). An upload request starts a
task of the runner before it commits. The task reports statuses through
transactions of its own, while its long transaction holds the chunks. The
sweeper locks rows with `FOR UPDATE SKIP LOCKED` and competes with runs and
requests for them. The deletions of rows cascade (user, chat session, document,
chunk), but files are outside every transaction. The cleaner knows tokens only
through `last_seen_at`.

What is hard. Triggers that are dropped by the guard or lost in a crash; a run
that sees its document before it is committed, after it was deleted or after the
sweeper failed it; status reports that raise although they were committed; a
hung extraction that keeps a row lock; files and rows that part when one of two
steps fails; an upload that commits while its chat session is being deleted;
`last_seen_at` that lags behind tokens; quotas that are counted before the
insert; a stream of text that is chunked in pieces, with offsets and pages that
must be those of the whole; a consumer or a cancellation that ends an extraction
while a thread still reads; redirects that lead from a checked address to
another. The full list, with lines and the properties that cover each, is
`hazards` in `PROJECT.json`.

## 2. Modules

| Module | Role |
|---|---|
| `DocumentLifecycle` | abstract: the stages of a document and what a search may see of it |
| `Ingestion` | runner, guard, slots, store service, reporter, sweeper rules 1-3, the requests that create, reprocess or delete a document, crashes |
| `IngestionProofs` | inductive invariant of `Ingestion`, the theorems that follow, and the proof that it implements `DocumentLifecycle` |
| `DocumentStore` | rows against files: upload, the three deletions, expiry, sweeper rule 4, failed calls, crashes |
| `AnonymousSession` | tokens, users, `last_seen_at`, the cleaner's cutoff, a clock |
| `RequestPipeline` | what requests share: the concurrent request limit, the connection pool, row locks, and the quotas of chat sessions and documents |
| `RequestPipelineProofs` | inductive invariant of `RequestPipeline` and the theorems that follow |
| `Extractors` | what the extractors make of a document: blocks, rows, pages, segments |
| `Extraction` | the stream over them: download, worker threads, consumer, cancellation |
| `Ordered` | the numbers of a set, as a sequence in order |
| `Chunks` | chunks and the merging of small ones |
| `RecursiveSplitter` | the default chunker, as operators |
| `Chunkers` | the other three chunkers and the choice of one, as operators |
| `ChunkStream` | chunking a stream of segments with a buffer, by the chunker of the document |
| `WebSearch` | the web search: engines, parallel downloads, redirects |
| `Answers` | questions: expansion, search, `WebSearch`, reranking, context, answer |
| `SequenceLemmas` | lemmas about sequences, ordered sets and recursive functions that the proofs share |
| `DocumentStoreProofs`, `AnonymousSessionProofs`, `ExtractionProofs`, `ChunkStreamProofs`, `AnswersProofs` | inductive invariants of these and the theorems that follow |
| `MCIngestion`, `MCDocumentStore`, `MCAnonymousSession`, `MCRequestPipeline`, `MCExtraction`, `MCChunkStream`, `MCAnswers` | instances for TLC |

The modules overlap on purpose where components meet: `Ingestion` abstracts an
upload to "a transaction with a row that commits or not", `DocumentStore` opens
that step and abstracts what becomes of the document later; deletion by the
cleaner is in `AnonymousSession` (whom, when) and `DocumentStore` (the files);
`RequestPipeline` has the connections, locks and counts of requests whose files
are in `DocumentStore` and whose document goes on in `Ingestion`. What a run
does in one step `Ingestion!StoreBatch` is opened in `Extraction` (where the
segments come from) and `ChunkStream` (what becomes of them); `Answers` reads
the chunks that `DocumentLifecycle` lets a search see.

### Ingestion

State. `status`, `age` and `chunks` are the committed `documents.status`,
`updated_at` (as an age in ticks) and number of stored batches; `pending` is the
open transaction of an upload or reprocess request; `triggers` counts
`runner.start()` calls whose task has not begun; `active`, `slots` are
`RunGuard._active` and `IngestionRunner._slots`; `run` holds each task's place
in `_run`/`_ingest`/`StoreChunkEmbeddingService.run`, what its transaction
inserted, and whether it holds the key-share lock that the foreign key check
takes.

Actions. One per transaction, or per stretch of code between two awaits that
changes memory: `Upload`, `Reprocess`, `CommitRequest`, `AbortRequest`,
`Delete`; `Begin` (the guard), `TakeSlot`, `Claim`, `ClaimSkipped`, `Clear`,
`StoreBatch`, `Stored`, `ProcessingFails`, `FailReport`, `Close`, `Commit`,
`CommitFails`, `Complete`, `CompleteConflict`, `SafeDeleteChunks`; one action
per rule of the sweeper; `Crash`; `Tick`. A report has three outcomes as in the
code: the row was moved, the row was in no allowed status, or the call raised
and may or may not have been committed.

### DocumentStore

State. `row`, `chat` are committed rows, `file` the objects in storage, `req`
each request's step and the documents it is about, `cleanup` the chat sessions
whose files the cleaner still has to delete. `hit` is a history variable: the
documents that a failed call or a crash concerned. It lets the properties say
that files and rows part *only* through a failure of a call about that very
document.

Actions follow the handlers call by call, each storage call with a success and a
failure that may have taken effect: `SaveFile`/`SaveFails`, `MarkUploaded`,
`DiscardFile`/`DiscardFails`, `CommitUpload`/`CommitUploadFails`, and so on for
the deletions.

### AnonymousSession

State. `now`; `users` and `lastSeen` as committed; `expiry`, the latest expiry
of a token sent for a user; `req`, requests between the decoding of their token
and the end of their handler; `claimed`, rows the cleaner has locked;
`disowned`, users one of whose inits was rolled back after its response.

`MaxLag` bounds the ticks from decoding a token to the end of the transaction
that began with it, `MaxRequest` the handler behind the middleware. The code
enforces neither; they are what `grace_seconds` is there for
(`cleanup/expired_user_cleaner.py`), and `GraceAssumption` states how the grace
must relate to them: twice the lag fits in the grace, and lag plus handler fit
in the lifetime plus the grace. The defaults (an hour of lifetime, ten minutes
of grace) satisfy this for requests of up to five minutes before the handler and
about an hour in it.

### RequestPipeline

State. `active` is `ConcurrentRequestLimitMiddleware._active`; `free` the
connections the pool can still hand out; `chat` and `docs` the committed rows of
one user; `req` and `run` where each request and ingestion run is. A request's
step tells how many connections it holds (`HeldAt`): none while it waits for its
first, one in the middleware or the handler, two in the second session that
`delete_chat_session` opens. A failing run holds two while it reports.

Actions. `ArriveAny` (admission), `Connect`, `PoolTimeout`, `Authenticated`,
then one action per statement that matters to others: `FindChat`, `CountChats`,
`InsertChat`, `CommitChat`; `CountDocs`, `InsertDoc`, `CommitDoc`;
`DeleteFiles`, `DeleteRows`, `CommitDeletion`; `Fail` at any of them; `End` is
the one way out, with the `finally` of the limit. An insert or a deletion is
blocked as long as PostgreSQL would make it wait: a row with the same name that
is not committed, a chat session that is being deleted, rows of others that
reference what is deleted.

`KindsOf` bounds what each client asks for. Ids of chat sessions are not used
twice, as with uuid4, and are chosen on arrival. The deletion of single
documents is left out: it holds one connection and one row lock, as an upload
does. The reports before a run and after it hold one connection for a moment, as
a probe does.

### Extractors and Extraction

`Extractors` is pure: a document is a sequence of what the parsing library hands
over (tags and texts of a page; paragraphs and tables of a DOCX document; lines;
pages of a PDF). A unit of text is named by its place in the document, so that a
text that is lost, repeated or torn can be told. `Walking` is the loop of
`_walk`, the pieces, the stack and the blocks after each tag; `HtmlBlocks` adds
the title of the page; `Written` are the cells of a row that have text and were
not seen before (`Seen`), of which `TableRows` makes the lines of a table;
`Grouping` is the loop of `group_blocks`; `PdfSegments` the pages that could be
read. Each loop is a function of the number of its turns. `Nested` is what the
parser sees to: elements that are closed in the order in which they were opened.
`DocumentsAssumption` names all that is assumed of what the libraries hand over.

State of `Extraction`. `task` is the await the coroutine stands at, `thread` the
jobs of the executor, `result` what the awaited job returned; `generator`,
`open` and `rest` are the extractor, its file and what it has still to yield;
`dir` the temporary directory; `delivered` what the consumer got.

Actions. The coroutine between two awaits (`Start`, `Downloaded`,
`YieldSegment`, `ReadEnds`, `Closed`, ...), the jobs in the pool (`BeginJob`,
`EndFetch`, `ReadSegment`, `EndReading`, `CloseGenerator`), the consumer
(`AskNext`, `StopEarly`, which is `aclosing`), a cancellation at each await
(`CancelDownload`, `CancelRead`, `CancelClose`: a job that is queued is dropped,
a job that runs goes on), and `Collect`, by which Python closes a generator
nothing refers to.

### Chunks, Chunkers and ChunkStream

A text is a sequence of units: characters of running text, of which blanks, line
breaks and the three marks that end a sentence are told apart, or whole lines for
the chunkers that work on lines. The length of a text is the number of its
units. `RecursiveChunk`, `SentenceChunk`, `StructureChunk` and `CodeChunk` are
the four chunkers, each with its splitting, its overlap and its fallback for
text that does not fit; `MergeUndersized` is `merge_undersized_chunks`. The
default one, `RecursiveChunk`, is a module of its own, `RecursiveSplitter`: its
recursion over separators is written level by level (`Levels`: paragraphs, lines,
the three ends of a sentence, words; then `SplitAnywhere`, the empty separator).
A separator is searched as `str.split` searches it, so that those that overlap
count once (`TakeCut`), and belongs to no piece. Three of them hold a mark that is
not blank: `InSeparator` says which units a separator can hold, and `MayDrop`
which of them a kind of chunker may leave in no chunk.

The recursion of the code chunker over nested definitions is written level by level too (`Splitting`: each level cuts every definition that
is still too long and holds another), and every loop is a recursive function of
the number of turns (`Building`, `Gathering`, `Decoding`), so that all four can
be reasoned about. `ChunkWith` is the choice of the factory. `Meets` says what
the stream needs of a chunker's answer, and `Limited` names the kinds for which
`chunk_size` is a ceiling. spaCy's
sentences and tree-sitter's nodes are external and given by the units that end a
sentence or begin a definition. Bytes are counted apart from characters
(`ByteAt`), because tree-sitter counts bytes.

State of `ChunkStream`. `buffer`, `base` and `pages` are the variables of
`chunk_stream`: the text not yet emitted, its offset in the document, and the
page markers that are moved at each cut. `full` and `marks` are history: the
document and its pages as they would be without cuts.

Actions. `TakeSegment` (append, and flush when the buffer is long enough) and
`EndOfStream`.

### WebSearch and Answers

State of `WebSearch`. `search` is the engine or phase a search is in, `fetch`
its downloads, each `queued`, `checking` its address, `requesting`, `parsing` or
`done`; `visited` is history: the addresses a request was sent to. Actions:
`BraveSearch`, `FallbackSearch`, `Acquire`, `CheckUrl`, `FollowRedirect`,
`ReadPage`, `MissPage`, `UseBackup`, `ParsePage`, `EndSearch`.

State of `Answers`. `model` tells whether the reranker is loaded (`WarmUp`,
before the server serves anything); `lock` the requests that hold or wait for
it; `stage` and `question` where each request is and what it has found. Actions:
`Ask`, `Expand` (one attempt of the chain), `Search`, `SearchWeb`,
`TakeWebTexts`, `Rerank`, `Generate`. `BuildContext` is the budget of the
prompt.

## 3. Runs

All runs take from seconds to about three minutes.

| Run | Instance | What it shows |
|---|---|---|
| `ingestion_one` | 1 document, 2 tasks, 2 slots, 2 batches, 2 pending triggers, 1 crash | type, `CompletedHasChunks`, `GuardIsExact`, `SlotsAreConserved`, `ClaimedNotCompleted`, that every behaviour is one of `DocumentLifecycle`, and `Settles`: under fair scheduling no document stays UPLOADED or PROCESSING for ever |
| `ingestion_hung` | 1 document, 1 task; a run may hang in the extraction | violated: rule 3 does not reach a hung run (section 5) |
| `store_overlap` | 2 documents in a chat session, 3 requests of every kind, any call may fail | `RowsHaveFiles`, `FilesHaveRows`, `OrphansAreRemoved` |
| `store_delete_all`, `store_dead_upload`, `store_expired` | 1 document, 1 request | violated (section 5) |
| `session_overlap` | 1 user, 2 overlapping requests, the cleaner | `TokenHoldersExist`, `RequestsKeepTheirUser`, `LastSeenOnlyAdvances`, and `ExpiredUsersAreDeleted` |
| `pipeline_quotas` | 3 clients who create, initialise, upload and delete, 2 places, limits of 1 | `NothingLeaks`, `QuotasAreNearlyKept` |
| `pipeline_live` | 3 clients and a run, 2 connections, fair scheduling | `RequestsEnd`: every request is answered |
| `extract` | every page of up to 4 tags, DOCX document of up to 3 items or one table of 2 by 2 cells, text of 5 lines, PDF of 5 pages | `TextIsDelivered`, `LinesAreKept`, `SegmentsAreCut`, `ClosedBeforeRemoved`, `EverythingIsReleased` |
| `chunk_stream` | texts of up to 11, 8, 6 and 6 units (default, sentence, structure, code), made of segments of 1 or 3 units in every way and of longer ones with ends of sentences; chunks of 3 units, overlap 1 | `ChunksAreSlices`, `OnlySeparatorsAreLost`, `PagesAreRight`, `ChunksAdvance`, `NoOversizedChunk`, `FragmentsAreFolded`, `HeadingsAreKept` |
| `answers` | 2 questions, 3 chunks, 2 scores and not-a-number, 2 results with redirects, 2 attempts | `EveryHopIsChecked`, `DownloadsAreLimited`, `ContextIsTheBest`, `ContextIsFull`, `QuestionsAreAnswered` |

Bounds and why they are enough.

- *Documents.* One document with two tasks is the case the guard exists for.
  Documents share the slots, the guard's set and the sweeper's batch limit,
  nothing else; the theorems of section 4 cover any number of them.
- *Batches.* Two tell "none", "some" and "all" of a document apart.
- *Ages.* The code compares an age with three thresholds, so ages above the
  largest are one value (`AgeCap`). Thresholds of 0 and 1 tick let the retry
  window open before the rules that fail a document, as the configured values
  do, and let a rule fire against a run that is slow and not dead.
- *`MaxTriggers`* caps tasks created and not begun; the event loop begins a task
  at once when it gets to it, and rule 2 alone can create a second one.
- *`MaxCrashes`* is one: a crash resets the memory, so a second one starts from
  a state the first can leave behind.
- *Requests.* Two requests overlap in every pair of kinds; with three, a
  deletion of one document, of all documents and an upload overlap.
- *Places, connections, quotas.* With two places and limits of one, two requests
  pass their check at the same time and a third comes after; the bound of
  `QuotasAreNearlyKept` is reached. With two connections, a deletion and a
  failing run, or two deletions, hold one each and wait for another.
- *Time.* In `AnonymousSession` lifetimes are the shortest that satisfy
  `GraceAssumption` with every constant making a difference; `MaxNow` leaves
  room for a user to be created, to return, to expire and to be deleted. The
  clock stops there, so these runs do not check for deadlock.

- *Texts.* With chunks of 3 units and a flush at 4, the longest texts are cut
  several times, and each chunker meets text that fits, text it must split,
  fragments it must merge and text its fallback takes. The kinds of units are
  those the chunker tells apart. The segments of `Sentence` add sentences that the
  default chunker, directly or as a fallback, splits at `. ` and `! `, so that a
  mark is dropped in front of a cut of the buffer and behind it.
- *Documents of an extraction.* Four tags are enough for an element in an
  element with text on both sides; a merged cell needs a 2 by 2 table; a segment
  target of 4 closes a segment after one block or two.
- *Questions.* One of two questions searches the web, so that one waits for the
  reranker while the other does anything else. With `TopKs` of 1 and 3 against
  three hits the cut is felt or not, and the budget of 4 leaves out a chunk that
  `top_k` admits.

Fairness. `Ingestion!Spec`: the event loop runs every ready task (weak fairness
of each step of each run), `asyncio.Semaphore` is first come first served
(strong fairness of `TakeSlot`), an open request commits or aborts, the
sweeper's loop goes on, and a rule that keeps being tried does not fail every
time (strong fairness of rules 1 and 3: the loop logs a failing rule and tries
again at the next pass). Nothing is assumed of users, and a run may fail at any
step any number of times. `HangingSpec` drops the assumption for the step in
which a run stores: the extraction runs in a thread without a deadline.
`DocumentStore!Spec`: handlers go on when a call has returned, the cleaner
finishes its files, the sweeper keeps applying rule 4. `RequestPipeline!Spec`:
the statements of a request and a run go on when what they wait for is there, or
the pool's time-out ends the wait; strong fairness because those who wait for a
row lock are queued by PostgreSQL. Clients need not ask for anything, and a
request or run may fail at every step. `AnonymousSession!Spec`: time passes,
requests go on, the cleaner runs, and of the deletions it tries over and over
one succeeds. `Extraction!Spec`: the event loop resumes a task whose job is
done, the pool runs what was submitted, the consumer asks for the next segment
or stops, and garbage is collected; nobody has to cancel. `Answers!Spec`: a
request's next step happens, since every call it waits for has a time-out or
works on what it was given; no question has to be asked.

Every property of a passing run has a mutant in `PROJECT.json`: a change to one
definition, of the kind a bug in that code would make, under which TLC finds the
property violated. The mutated definitions stand beside the originals, marked
`Mutant:`.

## 4. Proofs

`IngestionProofs` proves of `SafetySpec`, for all values of the constants that
satisfy `ConstantsAssumption` (finite sets of documents and tasks, at least one
slot, one batch, one row per rule and one pending trigger):

- `Invariance`: `IInv` is an invariant;
- `TypeCorrect`, `CompletedDocumentsAreWhole`, `OneRunPerDocument`,
  `NoSlotLeaks`, `OnlyTheClaimantCompletes`: its conjuncts the runs check.

The argument. None of the properties is inductive alone. That a COMPLETED
document has all its chunks needs `CommitsWhole`: a run that is about to commit
has stored every batch, and between its commit and its report nobody removes the
chunks without also moving the status away from PROCESSING (rule 3 and deletion
move both in one transaction). That in turn needs `GuardIsExact`: a second run
on the document would clear the chunks. `GuardIsExact` needs
`RunsHaveDocuments`, and `PendingIsCurrent` keeps the commit of an open request
from overwriting a status someone else moved. `SlotsAreConserved` counts the
runs that hold a slot; its step is `SlotsStep`, from the cardinality theorems of
the library. The proof has a lemma per group of actions that says what they
change (`RunStepShape`, `RunStepEffect`, `QuietSteps`, `QuietStepEffect`), and
one per conjunct of the invariant that uses them.

`IngestionProofs` also proves `Refinement`: every behaviour of `SafetySpec` is
one of `DocumentLifecycle` when `status` is read as a stage, and what a search
returns as the chunks of COMPLETED documents (`search_by_similarity` joins on
that status). It rests on `Invariance`: finishing must show the whole document
at once.

`RequestPipelineProofs` proves of `SafetySpec`, for all values that satisfy
`PipelineAssumption` (finite sets of requests, runs, ids and names, positive
limits):

- `Invariance`: `IInv` is an invariant;
- `TypeCorrect`, `PlacesAndConnectionsComeBack` and `QuotasHold`: the properties
  the runs check.

The argument. `RequestStep` and `RunStepMoves` show that every action moves a
single request or run from one record to another, and takes or gives back the
difference in places and connections between the two; `LeaksStep` follows by
counting (`CountOne`). The bounds of `TypeOK` on the counter and the pool are
not inductive without it: that a place or connection can be given back needs
that it was taken. The quotas need one conjunct more each (`ChatQuota`,
`DocQuota`): what is committed *and* what has passed its check without having
committed, together, stay below the limit plus the overlap. When a request
passes its check, the committed rows are below the limit, and those who have
passed are at most `Overlap` (`MakersOverlap`), because each of them holds a
place and a connection. A commit moves one from the second count to the first
(`CountsTransfer`), every other step makes the sum smaller or leaves it.

`DocumentStoreProofs` proves of `Spec`, for all documents, chat sessions,
requests and sets of documents that may meet a failure (`StoreAssumption`):
`Invariance`, `TypeCorrect`, `RowsKeepFiles` and `FilesKeepRows`. The argument:
an upload is alone with its row until it commits and its chat session stays
(`UploadersAreAlone`); what it saved is there when it commits
(`SavedFilesAreThere`), unless a deletion of the chat session waits for it;
deletions come after the upload and leave nothing of what they have passed
(`DeletersComeLater`); the rows of a chat session go with it, and a file that is
still there is of someone's clean-up (`GoneChatsAreCleaned`).

`AnonymousSessionProofs` proves of `Spec`, from `SessionAssumption` and
`GraceAssumption` (twice `MaxLag` fits in `Grace`, and `MaxLag + MaxRequest` in
`TTL + Grace`): `Invariance`, `TypeCorrect`, `TokenHoldersAreKept`,
`RequestsAreSafe` and `LastSeenAdvances`. The argument: tokens end a bounded
time after `last_seen_at`, or after what an open transaction is about to make it
(`TokensEndInTime`); the row lock lets one transaction write a row at a time,
and forward (`WritersAreAlone`); a request that need not write found the row
recent (`SeenIsRecent`). `ClaimedAreDone` is what the grace buys: of a user the
cleaner has locked no token is valid and no request is under way, because both
would have been seen after the cutoff.

`ExtractionProofs` proves of `Spec`, for every set of documents of any size that
satisfies `DocumentsAssumption` (tags that are well nested, items with rows of
numbered cells, lines or pages):

- `TypeCorrect` and `FilesCloseFirst`. The invariant says whose thread reads,
  and that the close comes last; only a cancellation leaves a thread that reads
  in a directory that is removed.
- `SegmentsAreWellCut`, `TheTextIsDelivered` and `TheLinesAreKept`: what the
  consumer was given, at any time, says what the document says, in its order and
  on its lines, cut at its headings and at the target size.

The argument for the latter. `SegmentsInOrder` says that what was delivered,
followed by the rest, is what the extractor computes of the document;
`ReadToTheEnd` that the stream ends by itself only when there is no rest. So the
three follow from facts about `SegmentsOf(doc)`, which are shown of any start of
it (`ChainsPrefix`). Two blocks are `Apart` if the units of the first come before
those of the second, on another line; a block is `Whole` if its units are in
order and on one line; `AllKept` says of segments that their blocks, one after
another, are pairwise apart, that each is whole, and that their units are those
of the document. Each format has a lemma that ends in `AllKept`:

- Grouping keeps the order of the blocks and drops only blank ones
  (`GroupBlocksKeeps`), and cuts well (`GroupBlocksIsCut`).
- A cell of a table is written once, where it stands first (`CellsAreWritten`),
  although the code asks for each place whether it has met the cell and the
  property asks for the least row and column.
- The walk of a page has the invariant `WalkKeeps`: after n tags the blocks and
  the pieces hold the units of these tags, a tag that ends a line is between a
  unit of a block and what is still to come, and none between a piece and what
  is to come. It needs `Spine`: the stack remembers which of the open elements
  end a line, so that the end of an element flushes exactly when its tag does.
- A page opens with a heading exactly when its first block is one
  (`HeadingComesFirst`), so the title is left out when it would be repeated.

Loops are reasoned about by induction on the number of their turns, although no
prover here takes an induction theorem with an operator for a parameter: the
numbers of which a fact holds are a set, a set that holds 0 and the successor of
each of its members holds every natural number (`NatInd`, from the
well-foundedness of <), and a recursive function exists and has its equation
(`RecursionExists`, `ComputationTyped`). These facts are in `SequenceLemmas`,
with those about sequences in order and flattened sequences. That is why the models define their
loops as functions and not with RECURSIVE operators.

`ChunkStreamProofs` is about the four chunkers, for texts, sizes, overlaps and
limits of any value that the configuration allows (`ConfigAssumption`,
`ChunkersAssumption`), and about the stream that uses them (`StreamAssumption`:
segments and separators are made of the units of their kind). Of the chunkers it proves:

- `FactoryMeetsContract`: the chunks of each are slices of the text (`SlicesOf`),
  cover all of it but what the kind may drop (`MayDrop`: blanks, and for all but
  the sentence chunker the mark of a sentence before a blank) and, but for the
  sentence chunker, begin one after the other (`Meets`). For the default chunker:
  the separators found do not overlap (`SeparatorsSeparate`), so that at each
  level the pieces are apart, in order, and miss nothing but units of a separator
  (`SeparatorInSlice` for a level within a piece), and merging leaves into windows
  keeps that (`RecursiveChunkIs`). For sentences, `BuildInv`
  says that the chunks so far and the one in hand hold every sentence taken so
  far; merging only widens chunks, and the overlap moves a start backwards within
  the chunk before. For sections, `GatherInv` says that what is closed and what
  is pending tile the text up to the section in hand (`Stretch`, `Begin`), where
  an oversized section is covered by the default chunker's pieces of it, moved to
  their place. For code, the spans of every level tile the text in document
  order, because definitions that were found are complete, apart and none is
  inside another; the running offset of the decoding is then the number of units
  that end by the byte reached, so that slices of bytes are slices of the text.
- `LimitedWithinSize`: no chunk of the default or of the structure chunker is
  longer than `chunk_size`. A leaf fits because what no separator splits is split
  between characters. For the merging, `WindowInv` says that the window in hand
  fits and that the leaves before it are in chunks already: the overlap that is
  kept makes room for the next leaf before the leaf is taken, and `DropUntil`
  always stops at one leaf at the latest. Sections are gathered only while they
  fit together.
- `LimitedFolds`: neither leaves a small chunk beside a neighbour that has room
  for it. `FoldInv` is the invariant of the pass over the chunks: the last chunk
  may grow, which only takes room from the next. The first chunk joins forward,
  after the pass, and the one it joins grows backwards, which again only takes
  room. The two merges differ only in the metadata they keep (`JoinsAgree`).
- `StructureKeepsHeadings`: a heading between the offsets of a chunk is among
  those the chunk lists. A chunk lists the headings of its sections, or of the
  section that was sent to the fallback (`Lists`); when two chunks are joined, a
  heading that lies in the result lies in one of them, as only separators lie
  between two chunks and a heading is in none (`NoHeadingBetween`).

Of `Spec` it proves `StreamTypeOK`, `StreamChunksAreSlices`,
`StreamLosesOnlySeparators`, `StreamAdvances`, `StreamPagesAreRight`,
`StreamWithinSize`, `StreamFolds` and `StreamKeepsHeadings`: every invariant of
the run `chunk_stream`, with no assumption about the chunker. The argument: the
buffer is the tail of the document from `base`; a slice of a tail is a slice of
the whole (`SliceOfTail`); the last chunk's start is where the buffer is cut, so
what lies before it is covered by the chunks that were emitted, or is what the
chunker may drop, in the buffer and so in the document (`IndInv`, with `Progress`,
`DropInSlice` and `DropInPrefix`). The page markers that are kept at a cut are those that still
matter: looked up from an offset of the buffer, they give the page that all
markers give for the place in the document (`PageInv`). Emitting moves chunks
and leaves their text alone (`SizeInv`).

`AnswersProofs` proves of `Spec`:

- `RedirectsAreChecked` and `ParallelDownloadsAreBounded`, from `WebInv`: a
  download that is past its check has a safe address, because each redirect
  sends it back to the check, and it keeps its place in the semaphore meanwhile.
- `AnswersTypeOK`, `TheBestHitsAreUsed` (`ContextIsTheBest`) and
  `TheContextIsFull` (`ContextIsFull`), from `AnswersInv`, which adds what a
  question has found (`SearchInv`, `QuestionInv`) and who holds the reranker
  (`LockInv`). Both properties are about the loop of `BuildContext`, by induction
  over the ranked hits it has looked at.

Only model-checked: liveness (`Settles`, `OrphansAreRemoved`,
`ExpiredUsersAreDeleted`, `RequestsEnd`, `EverythingIsReleased`,
`QuestionsAreAnswered`), which is out of the prover's reach. Every invariant
and every action property that a passing run checks is stated by a theorem. What
libraries return (sentences, syntax trees) is proved about as it is modelled,
not about the libraries.

## 5. Where comments or docs and the code part

Each is a run that TLC must find violated; the finding in `PROJECT.json` quotes
the line.

- `ingestion_hung`: rule 3 of the sweeper is described as handling a run that
  "died or hung". A run that hangs after its first batch was flushed keeps a
  lock on its document's row, rule 3 skips locked rows, and the document stays
  PROCESSING.
- `store_delete_all`: "The rows are gone, so a file left behind is only wasted
  space" - the rows go when the request commits, after the files were deleted. A
  commit that fails leaves rows without files.
- `store_dead_upload`: rule 4 is to clean up after "an upload request died". The
  row of such an upload was never committed, so rule 4 has nothing to find and
  the file stays.
- `store_expired`: the repository's README says the files of an expired visitor
  are deleted; when that deletion fails or the server stops first, nothing
  remembers them.

Also in the model, without a run: of two overlapping deletions of one document
the second fails with DOCUMENT_NOT_FOUND (`RowMissing`), where
`uploads/routes/upload_router.py` promises that deleting a file that is gone
succeeds. And `cleanup/expired_user_cleaner.py` says that users last seen before
the cutoff have an expired token: not when the commit of an init fails after its
response was sent (`disowned`), so `TokenHoldersExist` leaves these users out.
For the same reason a client that is quick with a new token may be answered 401:
its user is not committed yet (`auth/routes/auth_router.py`).

- The last chunk of a flush stays in the buffer "because more text may still
  extend it" (`rag/services/chunk/chunker.py`). The sentence chunker may begin a
  chunk where the one before began, to keep its overlap, so a cut there emits a
  chunk that the next flush yields again; `ChunksAdvance` leaves it out
  (`Rewinding`).
- The default chunker keeps no separator, and `. `, `! ` and `? ` are separators:
  where a chunk closes at one of them the mark of the sentence is in no chunk, as
  `tests/unit/rag/chunk/test_recursive_character_splitter.py:67-86` asserts (that
  path is under `src/`). The same happens where the structure or the code chunker
  falls back to it. No comment or doc promises otherwise, so there is no finding;
  `OnlySeparatorsAreLost` says that nothing else is lost.
- The structure chunker looks for fenced code blocks in the text it is given.
  When a cut falls inside a fence, the rest begins without its opening line, and
  comment lines of the code are taken for headings (`structure_aware.py`).
  `HeadingsAreKept` is thus stated for a document chunked in one piece, and so is
  `FragmentsAreFolded`: the chunk before a cut is emitted and joins nothing later.
- "The temporary directory is removed when the context exits"
  (`file_downloader.py`): a download that was cancelled goes on in its thread
  and may write its file while the directory is being removed, which is then
  left (`dir = "left"`).

## 6. What is not modelled, and why

- The parsing of HTML, PDF and DOCX, the detection of encodings, sentence
  splitting, syntax trees, embedding, the reranker's model, the language model
  and the search engines are libraries or remote services: they answer anything
  their type allows, fail, or (in `Ingestion`) hang.
- `search_web_stream` and what serves only it: nothing calls it.
- `RequestSizeLimitMiddleware` counts the bytes of one request and shares no
  state with others.
- Loading the reranker inside `rerank`: it is loaded at start, before a request
  arrives (`WarmUp`).
- Rate limiting is done by the slowapi library, logging and response formatting
  change no state, configuration is read once (its values are constants), and
  migrations run before the server.
- Token signing and cookie attributes: a token is what its expiry and user are.
- More than one process. The guard, the semaphore and the request limit are per
  process, and the repository starts one.
- Listing endpoints read and answer, and the chatbot stores nothing. In
  `RequestPipeline` they are the kind "read".
- Host names are resolved once more when a request is sent than when the address
  is checked; `WebSearch` takes an address to stay what it was when it was
  checked.
- Two documents that compete for a slot or for the sweeper's batch are not run
  by TLC together with the liveness of `Settles`; the safety of any number of
  documents is proved. So a batch is never full in a run, and that no document
  starves behind the oldest ones (`sweeper.py:158`) is not checked.
- What becomes of the file or row of a document whose own upload or deletion
  failed is in the models, but the properties of `store_overlap` leave such a
  document out (`hit`); the violated runs of section 5 show what is lost.

## 7. Plan

Done: `Ingestion` with its abstract specification, proofs and refinement;
`DocumentStore`, `AnonymousSession`, `RequestPipeline`, `Extraction`,
`ChunkStream` and `Answers` with their runs and proofs.

What would add most next:

1. The size limit, as a machine that receives the chunks of a body.
2. The overlap as a property of its own: how much of a chunk the next one
   repeats, which the ceiling bounds only for the default chunker.
