--------------------------- MODULE AnonymousSession ---------------------------
(***************************************************************************)
(* Anonymous users, the tokens that name them, and the cleaner that        *)
(* deletes users once their tokens have expired.                           *)
(*                                                                         *)
(*   auth_router, AnonymousUserService   init_anonymous_session            *)
(*   AnonymousSessionMiddleware          _authenticate                     *)
(*   UserRepositoryImpl                  create, get_by_id,                *)
(*                                       update_last_seen                  *)
(*   ExpiredUserCleaner                  clean_once, cutoff                *)
(*                                                                         *)
(* The cleaner never sees a token. It infers from users.last_seen_at that  *)
(* every token of a user has expired, although last_seen_at is written     *)
(* only now and then, carries the time its transaction began, and is       *)
(* committed after the response with the token has been sent.              *)
(*                                                                         *)
(* One clock serves the application and the database; what the two differ  *)
(* by counts in MaxLag.                                                    *)
(***************************************************************************)
EXTENDS Integers, FiniteSets

CONSTANTS
    Users,      \* user ids (uuid4, never used twice)
    NoUser,     \* the user of a request slot that is not in use
    Requests,   \* requests the server handles at the same time
    TTL,        \* ANONYMOUS_TOKEN_TTL_HOURS, in ticks
    Freq,       \* UPDATE_LAST_SEEN_FREQ_MINS, in ticks
    Grace,      \* grace_seconds, in ticks
    BatchLimit, \* batch_limit, users the cleaner deletes at a time
    MaxLag,     \* ticks from decoding a token to the end of the transaction
    MaxRequest, \* ticks a handler runs behind the middleware
    MaxNow      \* bound: the clock stops here

ASSUME SessionAssumption ==
    /\ NoUser \notin Users
    /\ IsFiniteSet(Users)
    /\ {TTL, Freq, Grace, MaxLag, MaxRequest, MaxNow} \subseteq Nat
    /\ BatchLimit \in Nat \ {0}

\* What the grace of the cleaner is for. The lag of the init that issued a
\* token and that of the request that uses it both fit in the grace, and a
\* handler ends before a user who is silent meanwhile can be deleted.
ASSUME GraceAssumption ==
    /\ TTL > 0
    /\ 2 * MaxLag <= Grace
    /\ MaxLag + MaxRequest <= TTL + Grace

VARIABLES
    now,        \* the clock
    users,      \* the users whose row is committed
    lastSeen,   \* users.last_seen_at, as committed
    expiry,     \* the latest expiry of the tokens sent for each user
    req,        \* the requests under way
    claimed,    \* users whose rows the cleaner has locked
    disowned    \* users with a token sent by an init that was rolled back

vars == <<now, users, lastSeen, expiry, req, claimed, disowned>>

----------------------------------------------------------------------------
Kinds == {"create", "return", "api"}
Steps == {"idle", "decoded", "read", "wrote", "sent", "handling"}

\* since: when the token was decoded, and later when the handler began.
\* began: func.now() of the transaction. writes: the transaction will set
\* last_seen_at, and holds a lock on the row of the user until then.
RequestType == [kind : Kinds, step : Steps, user : Users \cup {NoUser},
                since : 0..MaxNow, began : 0..MaxNow, writes : BOOLEAN]

NoRequest == [kind |-> "api", step |-> "idle", user |-> NoUser,
              since |-> 0, began |-> 0, writes |-> FALSE]

TypeOK ==
    /\ now \in 0..MaxNow
    /\ users \in SUBSET Users
    /\ lastSeen \in [Users -> 0..MaxNow]
    /\ expiry \in [Users -> 0..(MaxNow + TTL)]
    /\ req \in [Requests -> RequestType]
    /\ claimed \in SUBSET users
    /\ disowned \in SUBSET Users

Init ==
    /\ now = 0
    /\ users = {}
    /\ lastSeen = [u \in Users |-> 0]
    /\ expiry = [u \in Users |-> 0]
    /\ req = [q \in Requests |-> NoRequest]
    /\ claimed = {}
    /\ disowned = {}

----------------------------------------------------------------------------
At(q, step) == req[q].step = step

Goto(q, step) == req' = [req EXCEPT ![q].step = step]

End(q) == req' = [req EXCEPT ![q] = NoRequest]

Fresh(u) ==
    /\ u \notin users /\ expiry[u] = 0
    /\ \A q \in Requests : req[q].user # u

\* The row of u is locked by the UPDATE of a transaction that is still open.
Updating(u) ==
    \E q \in Requests :
        req[q].user = u /\ req[q].step \in {"wrote", "sent"} /\ req[q].writes

\* The row of u is inserted by a transaction that is still open.
Creating(u) ==
    \E q \in Requests :
        req[q].user = u /\ req[q].kind = "create" /\ req[q].step \in {"wrote", "sent"}

\* _create_anonymous_user: last_seen_at is the func.now() of this transaction.
CreatedRequest(u, t) ==
    [kind |-> "create", step |-> "wrote", user |-> u,
     since |-> t, began |-> now, writes |-> TRUE]

----------------------------------------------------------------------------
(***************************************************************************)
(* Requests.                                                               *)
(***************************************************************************)
\* Init without a cookie.
BeginNew(q, u) ==
    /\ At(q, "idle")
    /\ Fresh(u)
    /\ req' = [req EXCEPT ![q] = CreatedRequest(u, now)]
    /\ UNCHANGED <<now, users, lastSeen, expiry, claimed, disowned>>

\* A client presents a token, to init or to any other endpoint, and it is
\* valid when it is decoded. An invalid or expired one is answered with 401.
Decode(q, u, kind) ==
    /\ At(q, "idle")
    /\ now < expiry[u]
    /\ req' = [req EXCEPT ![q] = [kind |-> kind, step |-> "decoded", user |-> u,
                                  since |-> now, began |-> 0, writes |-> FALSE]]
    /\ UNCHANGED <<now, users, lastSeen, expiry, claimed, disowned>>

\* get_by_id, the first statement of the transaction.
FindUser(q) ==
    /\ At(q, "decoded")
    /\ req[q].user \in users
    /\ req' = [req EXCEPT ![q].step = "read", ![q].began = now]
    /\ UNCHANGED <<now, users, lastSeen, expiry, claimed, disowned>>

\* The middleware answers 401, init makes a new user of the client.
MissUser(q) ==
    /\ At(q, "decoded")
    /\ req[q].user \notin users
    /\ \/ req[q].kind = "api" /\ End(q)
       \/ /\ req[q].kind = "return"
          /\ \E u \in Users :
                /\ Fresh(u)
                /\ req' = [req EXCEPT ![q] = CreatedRequest(u, req[q].since)]
    /\ UNCHANGED <<now, users, lastSeen, expiry, claimed, disowned>>

\* Mutant: last_seen_at is written without looking at what it is.
StaleSeenAlways(q) == req[q].user \in users

\* Mutant: an init issues a fresh token and leaves last_seen_at alone.
StaleSeenByApi(q) ==
    /\ req[q].kind = "api" /\ req[q].user \in users
    /\ lastSeen[req[q].user] < req[q].began - Freq

StaleSeen(q) ==
    /\ req[q].user \in users
    /\ lastSeen[req[q].user] < req[q].began - Freq

\* The UPDATE of update_last_seen. One that finds a row to change waits for the
\* lock on it and then tests the row again.
UpdateLastSeen(q) ==
    /\ At(q, "read")
    /\ StaleSeen(q) => req[q].user \notin claimed /\ ~Updating(req[q].user)
    /\ req' = [req EXCEPT ![q].step = "wrote", ![q].writes = StaleSeen(q)]
    /\ UNCHANGED <<now, users, lastSeen, expiry, claimed, disowned>>

\* The token is made, the handler returns, and the response goes out.
SendToken(q) ==
    /\ At(q, "wrote")
    /\ req[q].kind \in {"create", "return"}
    /\ expiry' = [expiry EXCEPT ![req[q].user] = IF @ < now + TTL THEN now + TTL ELSE @]
    /\ Goto(q, "sent")
    /\ UNCHANGED <<now, users, lastSeen, claimed, disowned>>

\* What the transaction of q wrote, seen by others once it commits.
Written(q) ==
    /\ users' = IF req[q].kind = "create" THEN users \cup {req[q].user} ELSE users
    /\ lastSeen' = IF req[q].writes
                     THEN [lastSeen EXCEPT ![req[q].user] = req[q].began]
                     ELSE lastSeen

\* The session of init is a dependency of the route: it commits after the
\* response.
CommitInit(q) ==
    /\ At(q, "sent")
    /\ Written(q)
    /\ End(q)
    /\ UNCHANGED <<now, expiry, claimed, disowned>>

\* The middleware commits a session of its own and calls the handler.
CommitMiddleware(q) ==
    /\ At(q, "wrote")
    /\ req[q].kind = "api"
    /\ Written(q)
    /\ req' = [req EXCEPT ![q].step = "handling", ![q].since = now, ![q].writes = FALSE]
    /\ UNCHANGED <<now, expiry, claimed, disowned>>

FinishHandler(q) ==
    /\ At(q, "handling")
    /\ End(q)
    /\ UNCHANGED <<now, users, lastSeen, expiry, claimed, disowned>>

\* An error, a cancellation, a failed commit or the end of the server. The
\* client keeps the token it was sent.
RollBack(q) ==
    /\ req[q].step \in {"decoded", "read", "wrote", "sent"}
    /\ End(q)
    /\ disowned' = IF At(q, "sent") THEN disowned \cup {req[q].user} ELSE disowned
    /\ UNCHANGED <<now, users, lastSeen, expiry, claimed>>

----------------------------------------------------------------------------
(***************************************************************************)
(* ExpiredUserCleaner.                                                     *)
(***************************************************************************)
\* Mutant: a token is taken to expire as soon as its init could have ended.
CutoffWithoutGrace == now - (TTL + Freq)

Cutoff == now - (TTL + Freq + Grace)

Expired == {u \in users : lastSeen[u] < Cutoff}

\* Mutant: only full batches are deleted.
FullBatchesOf(S) == {B \in SUBSET S : Cardinality(B) = BatchLimit}

\* The oldest of S, as many as fit in a batch.
BatchesOf(S) ==
    {B \in SUBSET S :
        /\ Cardinality(B) = IF Cardinality(S) < BatchLimit THEN Cardinality(S)
                                                           ELSE BatchLimit
        /\ \A u \in B, v \in S \ B : lastSeen[u] <= lastSeen[v]}

\* lock_expired_users: FOR UPDATE SKIP LOCKED.
ClaimExpired ==
    /\ claimed = {}
    /\ \E B \in BatchesOf({u \in Expired : ~Updating(u)}) :
          B # {} /\ claimed' = B
    /\ UNCHANGED <<now, users, lastSeen, expiry, req, disowned>>

\* Mutant: the batch is deleted a second time.
DeleteAndKeepBatch ==
    /\ claimed # {}
    /\ users' = users \ claimed
    /\ UNCHANGED <<now, lastSeen, expiry, req, claimed, disowned>>

\* delete_users and the commit. What becomes of the chat sessions and their
\* files is in DocumentStore.
DeleteClaimed ==
    /\ claimed # {}
    /\ users' = users \ claimed
    /\ claimed' = {}
    /\ UNCHANGED <<now, lastSeen, expiry, req, disowned>>

\* A failed pass is logged, and the next one begins after the interval.
CleanerFails ==
    /\ claimed # {}
    /\ claimed' = {}
    /\ UNCHANGED <<now, users, lastSeen, expiry, req, disowned>>

----------------------------------------------------------------------------
\* A token's request and a handler take no longer than their bounds.
InTime(q) ==
    CASE At(q, "idle") -> TRUE
      [] At(q, "handling") -> now - req[q].since < MaxRequest
      [] OTHER -> now - req[q].since < MaxLag

Tick ==
    /\ now < MaxNow
    /\ \A q \in Requests : InTime(q)
    /\ now' = now + 1
    /\ UNCHANGED <<users, lastSeen, expiry, req, claimed, disowned>>

Serve(q) == FindUser(q) \/ MissUser(q) \/ UpdateLastSeen(q) \/ SendToken(q)
                \/ CommitInit(q) \/ CommitMiddleware(q) \/ FinishHandler(q)

Next ==
    \/ \E q \in Requests, u \in Users : BeginNew(q, u)
    \/ \E q \in Requests, u \in Users, kind \in {"return", "api"} : Decode(q, u, kind)
    \/ \E q \in Requests : Serve(q) \/ RollBack(q)
    \/ ClaimExpired \/ DeleteClaimed \/ CleanerFails
    \/ Tick

SafetySpec == Init /\ [][Next]_vars

\* Time goes on, requests that were begun go on, and the cleaner runs once
\* per interval. A database that fails every deletion deletes nothing: of
\* those tried over and over, one succeeds.
Fairness ==
    /\ WF_vars(Tick)
    /\ \A q \in Requests : WF_vars(Serve(q))
    /\ WF_vars(ClaimExpired)
    /\ SF_vars(DeleteClaimed)

Spec == SafetySpec /\ Fairness

----------------------------------------------------------------------------
(***************************************************************************)
(* Properties.                                                             *)
(***************************************************************************)

\* As long as a client holds a token that has not expired, its user is there:
\* the cleaner is never early, whatever last_seen_at lags behind the tokens.
\* Left out are users one of whose inits was rolled back after its response.
TokenHoldersExist ==
    \A u \in Users \ disowned :
        now < expiry[u] => u \in users \/ Creating(u)

\* The user of a request is there from when its token is found valid to when
\* its handler is done: no request loses its user half-way.
RequestsKeepTheirUser ==
    \A q \in Requests :
        \/ req[q].step = "idle" \/ req[q].kind = "create"
        \/ req[q].user \in disowned
        \/ req[q].user \in users \/ Creating(req[q].user)

\* last_seen_at never goes back, in whatever order the transactions of a user
\* begin, update and commit.
LastSeenOnlyAdvances ==
    [][\A u \in users \cap users' : lastSeen[u] <= lastSeen'[u]]_vars

\* A user all of whose tokens have expired, and whose last_seen_at is before
\* the cutoff, does not stay: it is deleted, unless an init that decoded a
\* token just before it expired revives the user.
Overdue(u) == u \in Expired /\ expiry[u] <= now

ExpiredUsersAreDeleted == \A u \in Users : Overdue(u) ~> ~Overdue(u)
=============================================================================
