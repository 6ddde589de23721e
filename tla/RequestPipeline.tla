--------------------------- MODULE RequestPipeline ---------------------------
(***************************************************************************)
(* What requests share on their way through the server: the places of the  *)
(* concurrent request limit, the connections of the database pool, row     *)
(* locks, and the quotas that are counted before something is inserted.    *)
(*                                                                         *)
(*   ConcurrentRequestLimitMiddleware   the counter of requests in flight  *)
(*   AnonymousSessionMiddleware         a session of its own, then closed  *)
(*   DatabaseSessionManager             connections and their time-out     *)
(*   ChatSessionService                 create, initialize, delete         *)
(*   UploadService                      upload                             *)
(*   IngestionRunner                    background runs use the same pool  *)
(*                                                                         *)
(* A session takes a connection at its first statement and gives it back   *)
(* when it ends. Two places take a second connection while they hold one:  *)
(* delete_chat_session, and a failing run that reports its status.         *)
(*                                                                         *)
(* The chat sessions and documents are those of one user; the requests of  *)
(* others are "read" here, whatever they do.                               *)
(***************************************************************************)
EXTENDS Integers, FiniteSets

CONSTANTS
    Requests,   \* requests that clients may have open at the same time
    KindsOf,    \* bound: the kinds each of them may be of
    Runs,       \* ingestion runs that have a slot
    Chats,      \* ids of chat sessions (uuid4, never used twice)
    Names,      \* file names
    NoChat,
    NoName,
    MaxActive,  \* MAX_CONCURRENT_REQUESTS
    PoolSize,   \* DB_POOL_SIZE + DB_MAX_OVERFLOW
    MaxChats,   \* MAX_CHATS_PER_USER
    MaxDocs     \* MAX_DOCS_PER_SESSION

Kinds == {"create", "initialize", "upload", "delete", "read", "probe"}

ASSUME PipelineAssumption ==
    /\ KindsOf \in [Requests -> SUBSET Kinds]
    /\ IsFiniteSet(Requests) /\ IsFiniteSet(Runs)
    /\ IsFiniteSet(Chats) /\ IsFiniteSet(Names)
    /\ NoChat \notin Chats /\ NoName \notin Names
    /\ {MaxActive, PoolSize, MaxChats, MaxDocs} \subseteq Nat \ {0}

VARIABLES
    active,     \* ConcurrentRequestLimitMiddleware._active
    free,       \* connections the pool can still hand out
    chat,       \* rows of chat_sessions, as committed
    docs,       \* rows of documents, as committed: chat session and file name
    req,        \* the requests under way
    run         \* the ingestion runs under way

vars == <<active, free, chat, docs, req, run>>

----------------------------------------------------------------------------
\* Where a request is. "auth", "begin" and "nested" wait for a connection.
Steps == {"idle", "auth", "authenticating", "begin", "open", "absent", "counted",
          "inserted", "nested", "deleting", "deleted", "closing"}

RunSteps == {"idle", "begin", "storing", "report", "reporting"}

Rows == Chats \X Names
NoRow == <<NoChat, NoName>>

\* row: the chat session a request or run is about, and the file name.
RequestType == [kind : Kinds, step : Steps,
                row : (Chats \cup {NoChat}) \X (Names \cup {NoName})]
RunType == [step : RunSteps, row : Rows \cup {NoRow}]

NoRequest == [kind |-> "read", step |-> "idle", row |-> NoRow]
NoRun == [step |-> "idle", row |-> NoRow]

ChatIds(status) == {c \in Chats : chat[c] = status}
DocsOf(c) == {d \in docs : d[1] = c}

\* Connections a request or run holds at a step.
HeldAt(step) ==
    CASE step \in {"idle", "auth", "begin"} -> 0
      [] step \in {"deleting", "deleted", "reporting"} -> 2
      [] OTHER -> 1

TypeOK ==
    /\ active \in 0..MaxActive
    /\ free \in 0..PoolSize
    /\ chat \in [Chats -> {"unused", "live", "gone"}]
    /\ docs \in SUBSET Rows
    /\ req \in [Requests -> RequestType]
    /\ run \in [Runs -> RunType]

Init ==
    /\ active = 0
    /\ free = PoolSize
    /\ chat = [c \in Chats |-> "unused"]
    /\ docs = {}
    /\ req = [q \in Requests |-> NoRequest]
    /\ run = [r \in Runs |-> NoRun]

At(q, step) == req[q].step = step
Is(q, kind) == req[q].kind = kind
ChatOf(q) == req[q].row[1]

Goto(q, step) == req' = [req EXCEPT ![q].step = step]

database == <<chat, docs>>

----------------------------------------------------------------------------
(***************************************************************************)
(* Admission and connections.                                              *)
(***************************************************************************)
\* Health probes are in exclude_paths: neither limited nor counted.
Counted(kind) == kind # "probe"

\* Mutant: one request too many is let in.
AdmitsOneMore(kind) == Counted(kind) => active <= MaxActive

\* A request that is not admitted is answered with 503 and changes nothing.
Admits(kind) == Counted(kind) => active < MaxActive

Arrive(q, kind, row) ==
    /\ At(q, "idle")
    /\ kind \in KindsOf[q]
    /\ Admits(kind)
    /\ active' = active + IF Counted(kind) THEN 1 ELSE 0
    /\ req' = [req EXCEPT ![q] =
          [kind |-> kind, step |-> IF kind = "probe" THEN "begin" ELSE "auth",
           row |-> row]]
    /\ UNCHANGED <<free, database, run>>

\* Ids no one has seen. Which of them is taken makes no difference.
FreshIds == {c \in ChatIds("unused") : \A p \in Requests : ChatOf(p) # c}

\* A client names a chat session it knows of, deleted since or not. The id of a
\* new one is chosen here and not when its row is made, so that ids run out
\* before a request begins.
ArriveAny(q) ==
    \/ \E kind \in {"read", "probe"} : Arrive(q, kind, NoRow)
    \/ /\ FreshIds # {}
       /\ \E kind \in {"create", "initialize"} :
             Arrive(q, kind, <<CHOOSE c \in FreshIds : TRUE, NoName>>)
    \/ \E c \in Chats, n \in Names :
          chat[c] # "unused" /\ Arrive(q, "upload", <<c, n>>)
    \/ \E c \in Chats :
          chat[c] # "unused" /\ Arrive(q, "delete", <<c, NoName>>)

\* Mutant: the place of a request that was refused is kept.
EndKeepsPlace(q) ==
    /\ active' = active - IF Counted(req[q].kind) /\ ~At(q, "open") THEN 1 ELSE 0
    /\ free' = free + HeldAt(req[q].step)
    /\ req' = [req EXCEPT ![q] = NoRequest]
    /\ UNCHANGED run

\* The end of a request, by a return or an exception: its sessions are closed,
\* and the finally of the limit gives its place back.
End(q) ==
    /\ active' = active - IF Counted(req[q].kind) THEN 1 ELSE 0
    /\ free' = free + HeldAt(req[q].step)
    /\ req' = [req EXCEPT ![q] = NoRequest]
    /\ UNCHANGED run

Waiting(q) == req[q].step \in {"auth", "begin", "nested"}

Connected == [auth |-> "authenticating", begin |-> "open", nested |-> "deleting"]

Connect(q) ==
    /\ Waiting(q)
    /\ free > 0
    /\ free' = free - 1
    /\ Goto(q, Connected[req[q].step])
    /\ UNCHANGED <<active, database, run>>

\* Mutant: only a first connection is waited for with a time-out.
PoolTimeoutFirst(q) ==
    /\ Waiting(q) /\ ~At(q, "nested")
    /\ free = 0
    /\ End(q)
    /\ UNCHANGED database

\* No connection came free within DB_POOL_TIMEOUT_SECS, and the request fails.
PoolTimeout(q) ==
    /\ Waiting(q)
    /\ free = 0
    /\ End(q)
    /\ UNCHANGED database

\* The session of the middleware ends before the handler is called.
Authenticated(q) ==
    /\ At(q, "authenticating")
    /\ free' = free + 1
    /\ Goto(q, "begin")
    /\ UNCHANGED <<active, database, run>>

\* The token is refused, a statement fails, a file cannot be stored, or a
\* commit fails: everything is rolled back.
Fail(q) ==
    /\ ~At(q, "idle") /\ ~Waiting(q)
    /\ End(q)
    /\ UNCHANGED database

\* A handler that only reads, or a session that has nothing left to do.
Finish(q) ==
    /\ \/ At(q, "open") /\ (Is(q, "read") \/ Is(q, "probe"))
       \/ At(q, "closing")
    /\ End(q)
    /\ UNCHANGED database

----------------------------------------------------------------------------
(***************************************************************************)
(* ChatSessionService: create_new_chat_session, initialize_chat_session.   *)
(***************************************************************************)
\* initialize returns the latest chat session if there is one.
FindChat(q) ==
    /\ At(q, "open") /\ Is(q, "initialize")
    /\ IF ChatIds("live") # {}
         THEN End(q)
         ELSE Goto(q, "absent") /\ UNCHANGED <<active, free, run>>
    /\ UNCHANGED database

\* Mutant: the count is compared with the limit the wrong way round its edge.
BelowLimitOrAtIt(count, limit) == count <= limit

BelowLimit(count, limit) == count < limit

\* The count sees what others have committed, not what they have inserted.
CountChats(q) ==
    /\ At(q, "absent") \/ (At(q, "open") /\ Is(q, "create"))
    /\ IF BelowLimit(Cardinality(ChatIds("live")), MaxChats)
         THEN Goto(q, "counted") /\ UNCHANGED <<active, free, run>>
         ELSE End(q)
    /\ UNCHANGED database

\* The row, which no one else sees yet.
InsertChat(q) ==
    /\ At(q, "counted") /\ ~Is(q, "upload")
    /\ Goto(q, "inserted")
    /\ UNCHANGED <<active, free, database, run>>

\* The session of the request commits after the response.
CommitChat(q) ==
    /\ At(q, "inserted") /\ ~Is(q, "upload")
    /\ chat' = [chat EXCEPT ![ChatOf(q)] = "live"]
    /\ End(q)
    /\ UNCHANGED docs

----------------------------------------------------------------------------
(***************************************************************************)
(* UploadService.upload.                                                   *)
(***************************************************************************)
CountDocs(q) ==
    /\ At(q, "open") /\ Is(q, "upload")
    /\ IF chat[ChatOf(q)] = "live"
            /\ BelowLimit(Cardinality(DocsOf(ChatOf(q))), MaxDocs)
         THEN Goto(q, "counted") /\ UNCHANGED <<active, free, run>>
         ELSE End(q)
    /\ UNCHANGED database

\* The unique index waits for a row of the same name, and the foreign key for
\* a deletion of the chat session, that are not committed yet.
InsertBlocked(q) ==
    \E p \in Requests \ {q} :
        \/ At(p, "inserted") /\ req[p].row = req[q].row
        \/ At(p, "deleted") /\ ChatOf(p) = ChatOf(q)

\* A name that is taken is answered with 409, a chat session that is gone with
\* an error.
InsertDoc(q) ==
    /\ At(q, "counted") /\ Is(q, "upload")
    /\ ~InsertBlocked(q)
    /\ IF req[q].row \notin docs /\ chat[ChatOf(q)] = "live"
         THEN Goto(q, "inserted") /\ UNCHANGED <<active, free, run>>
         ELSE End(q)
    /\ UNCHANGED database

\* The file is stored while the transaction is open. What becomes of the file
\* is in DocumentStore.
CommitDoc(q) ==
    /\ At(q, "inserted") /\ Is(q, "upload")
    /\ docs' = docs \cup {req[q].row}
    /\ End(q)
    /\ UNCHANGED chat

----------------------------------------------------------------------------
(***************************************************************************)
(* ChatSessionService.delete_chat_session.                                 *)
(***************************************************************************)
\* The chat session is looked up, and its files go; then a second session is
\* opened while the first one still has its connection.
DeleteFiles(q) ==
    /\ At(q, "open") /\ Is(q, "delete")
    /\ IF chat[ChatOf(q)] = "live"
         THEN Goto(q, "nested") /\ UNCHANGED <<active, free, run>>
         ELSE End(q)
    /\ UNCHANGED database

\* Rows of others that reference what is to be deleted, or delete it too.
DeleteBlocked(q) ==
    \/ \E p \in Requests \ {q} :
          /\ ChatOf(p) = ChatOf(q)
          /\ At(p, "deleted") \/ (At(p, "inserted") /\ Is(p, "upload"))
    \/ \E r \in Runs :
          /\ run[r].row[1] = ChatOf(q)
          /\ run[r].step \in {"storing", "report", "reporting"}

DeleteRows(q) ==
    /\ At(q, "deleting")
    /\ ~DeleteBlocked(q)
    /\ IF chat[ChatOf(q)] = "live"
         THEN Goto(q, "deleted") /\ UNCHANGED <<active, free, run>>
         ELSE End(q)
    /\ UNCHANGED database

\* The second session commits and is closed; the files go again, and then the
\* first session ends.
CommitDeletion(q) ==
    /\ At(q, "deleted")
    /\ chat' = [chat EXCEPT ![ChatOf(q)] = "gone"]
    /\ docs' = docs \ DocsOf(ChatOf(q))
    /\ free' = free + 1
    /\ Goto(q, "closing")
    /\ UNCHANGED <<active, run>>

----------------------------------------------------------------------------
(***************************************************************************)
(* IngestionRunner._ingest. A run keeps a connection and, once it has      *)
(* stored a batch, a lock on the row of its document for as long as it     *)
(* takes. The reports before and after it need one connection and hold     *)
(* nothing; they are like a "probe".                                       *)
(***************************************************************************)
RunGoto(r, step) == run' = [run EXCEPT ![r].step = step]

StartRun(r) ==
    /\ run[r].step = "idle"
    /\ \E d \in docs :
          /\ \A s \in Runs : run[s].row # d
          /\ run' = [run EXCEPT ![r] = [step |-> "begin", row |-> d]]
    /\ UNCHANGED <<active, free, database, req>>

EndRun(r) ==
    /\ free' = free + HeldAt(run[r].step)
    /\ run' = [run EXCEPT ![r] = NoRun]
    /\ UNCHANGED <<active, database, req>>

RunConnects(r) ==
    /\ run[r].step \in {"begin", "report"}
    /\ free > 0
    /\ free' = free - 1
    /\ RunGoto(r, IF run[r].step = "begin" THEN "storing" ELSE "reporting")
    /\ UNCHANGED <<active, database, req>>

\* A report that cannot be made is logged, and the run ends.
RunTimesOut(r) ==
    /\ run[r].step \in {"begin", "report"}
    /\ free = 0
    /\ EndRun(r)

\* _handle_fail reports FAILED inside the session of the run.
RunFails(r) ==
    /\ run[r].step = "storing"
    /\ RunGoto(r, "report")
    /\ UNCHANGED <<active, free, database, req>>

RunEnds(r) ==
    /\ run[r].step \in {"storing", "reporting"}
    /\ EndRun(r)

RunStep(r) == RunConnects(r) \/ RunTimesOut(r) \/ RunFails(r) \/ RunEnds(r)

----------------------------------------------------------------------------
Proceed(q) ==
    \/ Connect(q) \/ PoolTimeout(q) \/ Authenticated(q) \/ Finish(q)
    \/ FindChat(q) \/ CountChats(q) \/ InsertChat(q) \/ CommitChat(q)
    \/ CountDocs(q) \/ InsertDoc(q) \/ CommitDoc(q)
    \/ DeleteFiles(q) \/ DeleteRows(q) \/ CommitDeletion(q)

Next ==
    \/ \E q \in Requests : ArriveAny(q) \/ Proceed(q) \/ Fail(q)
    \/ \E r \in Runs : StartRun(r) \/ RunStep(r)

SafetySpec == Init /\ [][Next]_vars

\* Every request and run goes on when what it waits for has come. Strong
\* fairness is for the row locks, which may come free and be taken again:
\* PostgreSQL queues those who wait.
Spec ==
    /\ SafetySpec
    /\ \A q \in Requests : SF_vars(Proceed(q))
    /\ \A r \in Runs : WF_vars(RunStep(r))

----------------------------------------------------------------------------
(***************************************************************************)
(* Properties.                                                             *)
(***************************************************************************)
InFlight == {q \in Requests : ~At(q, "idle") /\ Counted(req[q].kind)}
Holding(n) == {q \in Requests : HeldAt(req[q].step) >= n}
RunsHolding(n) == {r \in Runs : HeldAt(run[r].step) >= n}

\* On every way a request or a run can end, its place and its connections, one
\* or two, come back, and neither comes back twice.
NothingLeaks ==
    /\ active = Cardinality(InFlight)
    /\ free = PoolSize - (Cardinality(Holding(1)) + Cardinality(Holding(2))
                   + Cardinality(RunsHolding(1)) + Cardinality(RunsHolding(2)))

\* Requests that can pass their check at the same time.
Overlap == IF MaxActive < PoolSize THEN MaxActive ELSE PoolSize

\* The quotas are checked and used in two statements, so overlapping requests
\* exceed them; but only by those that fit in the server together with the one
\* that was counted last, each of which has a place and a connection until its
\* row is committed.
QuotasAreNearlyKept ==
    /\ Cardinality(ChatIds("live")) <= MaxChats - 1 + Overlap
    /\ \A c \in Chats : Cardinality(DocsOf(c)) <= MaxDocs - 1 + Overlap

\* Every request is answered, although requests and runs that hold connections
\* wait for more of them and for each other's row locks.
RequestsEnd == \A q \in Requests : ~At(q, "idle") ~> At(q, "idle")
=============================================================================
