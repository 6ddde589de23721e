------------------------- MODULE AnonymousSessionProofs -------------------------
(***************************************************************************)
(* For any users, requests and times that keep to GraceAssumption: the     *)
(* cleaner deletes no user whose token is valid or whose request is under  *)
(* way, and last_seen_at never goes back.                                  *)
(***************************************************************************)
EXTENDS AnonymousSession, TLAPS

\* q presented a token and is not done with the user the token names.
Holds(q) == req[q].step # "idle" /\ req[q].kind # "create"

\* The transaction of q will set last_seen_at.
Writes(q) == req[q].step \in {"wrote", "sent"} /\ req[q].writes = TRUE

\* What the fields of a request say at each of its steps.
Shapes ==
    \A q \in Requests :
        /\ req[q].step = "idle" <=> req[q].user = NoUser
        /\ req[q].kind = "create" => Writes(q)
        /\ req[q].writes = TRUE => Writes(q)
        /\ req[q].step = "sent" => req[q].kind # "api"
        /\ req[q].step = "handling" => req[q].kind = "api"

\* A transaction and a handler end within their bounds.
Timely ==
    \A q \in Requests :
        /\ req[q].since <= now
        /\ req[q].step \in {"decoded", "read", "wrote", "sent"} => now - req[q].since <= MaxLag
        /\ req[q].step = "handling" => now - req[q].since <= MaxRequest
        /\ req[q].step \in {"read", "wrote", "sent"} =>
               req[q].since <= req[q].began /\ req[q].began <= now

\* The user that an open init creates has no row yet, and before its token is
\* sent no one knows of it.
CreatorsAreAlone ==
    \A q \in Requests :
        req[q].kind = "create" =>
            /\ req[q].user \notin users
            /\ req[q].step = "wrote" => expiry[req[q].user] = 0
            /\ expiry[req[q].user] <= req[q].began + MaxLag + TTL
            /\ \A p \in Requests \ {q} :
                   req[p].user = req[q].user =>
                       /\ req[q].step = "sent"
                       /\ req[p].step = "decoded"

\* The lock on the row of a user: one transaction at a time writes it, and what
\* it writes is later than what is there.
WritersAreAlone ==
    \A q \in Requests :
        Writes(q) =>
            /\ req[q].kind # "create" =>
                   /\ req[q].user \in users
                   /\ lastSeen[req[q].user] < req[q].began
            /\ \A p \in Requests \ {q} : Writes(p) => req[p].user # req[q].user

\* A token was valid when it was decoded.
TokensAreFresh ==
    \A q \in Requests :
        Holds(q) /\ req[q].step # "handling" => req[q].since < expiry[req[q].user]

\* A request that need not write last_seen_at found it recent, and a handler has
\* a user that was seen not long before it began.
SeenIsRecent ==
    \A q \in Requests :
        req[q].user \notin disowned =>
            /\ req[q].step \in {"wrote", "sent"} /\ req[q].writes = FALSE =>
                   req[q].began - Freq <= lastSeen[req[q].user]
            /\ req[q].step = "handling" =>
                   req[q].since - MaxLag - Freq <= lastSeen[req[q].user]

\* The user of a request is there; only while it is created may the first
\* requests with its token find no row.
UsersStay ==
    \A q \in Requests :
        Holds(q) /\ req[q].user \notin disowned =>
            \/ req[q].user \in users
            \/ req[q].step = "decoded" /\ Creating(req[q].user)

\* Tokens end a bounded time after last_seen_at, or after what an open
\* transaction is about to make it.
TokensEndInTime ==
    \A u \in users \ disowned :
        \/ expiry[u] <= lastSeen[u] + Freq + MaxLag + TTL
        \/ \E q \in Requests : /\ Writes(q)
                               /\ req[q].step = "sent"
                               /\ req[q].user = u
                               /\ expiry[u] <= req[q].began + MaxLag + TTL

\* A user that the cleaner has locked was last seen before the cutoff, and no
\* transaction writes its row.
ClaimsAreOld ==
    \A u \in claimed :
        /\ lastSeen[u] < now - (TTL + Freq + Grace)
        /\ \A q \in Requests : Writes(q) => req[q].user # u

IInv ==
    /\ TypeOK /\ Shapes /\ Timely /\ CreatorsAreAlone /\ WritersAreAlone
    /\ TokensAreFresh /\ SeenIsRecent /\ UsersStay /\ TokensEndInTime
    /\ ClaimsAreOld /\ TokenHoldersExist

-----------------------------------------------------------------------------

\* Nothing is under way at the start.
LEMMA InitIInv == SessionAssumption /\ Init => IInv
BY DEF SessionAssumption, Init, IInv, TypeOK, Shapes, Timely, CreatorsAreAlone, WritersAreAlone,
        TokensAreFresh, SeenIsRecent, UsersStay, TokensEndInTime, ClaimsAreOld,
        TokenHoldersExist, NoRequest, RequestType, Kinds, Steps, Holds, Writes

\* One request is replaced, and all others are as they were.
LEMMA Replaced ==
    ASSUME TypeOK, NEW q \in Requests, NEW r \in RequestType, req' = [req EXCEPT ![q] = r]
    PROVE  /\ req' \in [Requests -> RequestType]
           /\ req'[q] = r
           /\ \A p \in Requests \ {q} : req'[p] = req[p]
BY DEF TypeOK

\* The types of the fields of a request.
LEMMA RequestFields ==
    ASSUME NEW r \in RequestType
    PROVE  /\ r.kind \in Kinds /\ r.step \in Steps /\ r.user \in Users \cup {NoUser}
           /\ r.since \in 0..MaxNow /\ r.began \in 0..MaxNow /\ r.writes \in BOOLEAN
BY DEF RequestType

-----------------------------------------------------------------------------

\* A new user is made in a transaction that has just begun.
LEMMA CreatePreserves ==
    ASSUME SessionAssumption, IInv, NEW q \in Requests, NEW u \in Users, NEW t \in 0..MaxNow,
           t <= now, now - t <= MaxLag, Fresh(u),
           req[q].step \in {"idle", "decoded"},
           req' = [req EXCEPT ![q] = CreatedRequest(u, t)],
           UNCHANGED <<now, users, lastSeen, expiry, claimed, disowned>>
    PROVE  IInv'
<1> DEFINE r == CreatedRequest(u, t)
<1>1. /\ r.kind = "create" /\ r.step = "wrote" /\ r.user = u /\ r.since = t
      /\ r.began = now /\ r.writes = TRUE
  BY DEF CreatedRequest
<1>2. r \in RequestType
  BY DEF CreatedRequest, RequestType, Kinds, Steps, IInv, TypeOK
<1>3. /\ req' \in [Requests -> RequestType]
      /\ req'[q] = r
      /\ \A p \in Requests \ {q} : req'[p] = req[p]
  <2> HIDE DEF r
  <2> QED
    BY <1>2, Replaced DEF IInv, r
<1> HIDE DEF r
<1>a. u # NoUser /\ MaxLag \in Nat /\ TTL \in Nat
  BY DEF SessionAssumption
<1>4. TypeOK'
  BY <1>3 DEF IInv, TypeOK
<1>5. Shapes'
  BY <1>1, <1>3, <1>a DEF IInv, Shapes, Writes
<1>6. Timely'
  BY <1>1, <1>3 DEF IInv, Timely, TypeOK
<1>7. CreatorsAreAlone'
  BY <1>1, <1>3, <1>a DEF IInv, CreatorsAreAlone, Fresh, TypeOK
<1>8. WritersAreAlone'
  BY <1>1, <1>3 DEF IInv, WritersAreAlone, Writes, Fresh
<1>9. TokensAreFresh'
  BY <1>1, <1>3 DEF IInv, TokensAreFresh, Holds
<1>10. SeenIsRecent'
  BY <1>1, <1>3 DEF IInv, SeenIsRecent
<1>b. \A v \in Users : Creating(v) => Creating(v)'
  BY <1>1, <1>3 DEF Creating
<1>11. UsersStay'
  BY <1>1, <1>3, <1>b DEF IInv, UsersStay, Holds, Shapes, TypeOK, RequestType
<1>12. TokensEndInTime'
  BY <1>1, <1>3 DEF IInv, TokensEndInTime, Writes
<1>13. ClaimsAreOld'
  BY <1>1, <1>3 DEF IInv, ClaimsAreOld, Writes, Fresh, TypeOK
<1>14. TokenHoldersExist'
  BY <1>b DEF IInv, TokenHoldersExist
<1> QED
  BY <1>4, <1>5, <1>6, <1>7, <1>8, <1>9, <1>10, <1>11, <1>12, <1>13, <1>14 DEF IInv

\* A request that does not create its user, or whose user no one was told of,
\* ends.
LEMMA EndPreserves ==
    ASSUME SessionAssumption, IInv, NEW q \in Requests, End(q),
           UNCHANGED <<now, users, lastSeen, expiry, claimed>>,
           disowned' \in SUBSET Users, disowned \subseteq disowned',
           Writes(q) /\ req[q].step = "sent" => req[q].user \in disowned'
    PROVE  IInv'
<1> DEFINE r == NoRequest
<1>1. /\ r.kind = "api" /\ r.step = "idle" /\ r.user = NoUser /\ r.since = 0
      /\ r.began = 0 /\ r.writes = FALSE
  BY DEF NoRequest
<1>2. r \in RequestType
  BY DEF NoRequest, RequestType, Kinds, Steps, SessionAssumption
<1>3. /\ req' \in [Requests -> RequestType]
      /\ req'[q] = r
      /\ \A p \in Requests \ {q} : req'[p] = req[p]
  <2> HIDE DEF r
  <2> QED
    BY <1>2, Replaced DEF IInv, r, End
<1> HIDE DEF r
<1>4. TypeOK'
  BY <1>3 DEF IInv, TypeOK
<1>5. Shapes'
  BY <1>1, <1>3 DEF IInv, Shapes, Writes
<1>6. Timely'
  BY <1>1, <1>3 DEF IInv, Timely, TypeOK
<1>7. CreatorsAreAlone'
  BY <1>1, <1>3 DEF IInv, CreatorsAreAlone, Shapes, Writes
<1>8. WritersAreAlone'
  BY <1>1, <1>3 DEF IInv, WritersAreAlone, Writes
<1>9. TokensAreFresh'
  BY <1>1, <1>3 DEF IInv, TokensAreFresh, Holds
<1>10. SeenIsRecent'
  BY <1>1, <1>3 DEF IInv, SeenIsRecent
<1>b. \A v \in Users \ disowned' :
        Creating(v) => Creating(v)' \/ (req[q].kind = "create" /\ req[q].step = "wrote" /\ req[q].user = v)
  BY <1>1, <1>3 DEF Creating, IInv, Shapes
<1>11. UsersStay'
  BY <1>1, <1>3, <1>b DEF IInv, UsersStay, Holds, CreatorsAreAlone, Shapes, TypeOK, RequestType
<1>12. TokensEndInTime'
  BY <1>1, <1>3 DEF IInv, TokensEndInTime, Writes
<1>13. ClaimsAreOld'
  BY <1>1, <1>3 DEF IInv, ClaimsAreOld, Writes
<1>14. TokenHoldersExist'
  BY <1>b DEF IInv, TokenHoldersExist, CreatorsAreAlone, TypeOK
<1> QED
  BY <1>4, <1>5, <1>6, <1>7, <1>8, <1>9, <1>10, <1>11, <1>12, <1>13, <1>14 DEF IInv

\* A token that is valid has its user, or the init that creates it.
LEMMA DecodePreserves ==
    ASSUME SessionAssumption, IInv, NEW q \in Requests, NEW u \in Users,
           NEW kind \in {"return", "api"}, Decode(q, u, kind)
    PROVE  IInv'
<1> DEFINE r == [kind |-> kind, step |-> "decoded", user |-> u,
                 since |-> now, began |-> 0, writes |-> FALSE]
<1>1. /\ r.kind = kind /\ r.step = "decoded" /\ r.user = u /\ r.since = now
      /\ r.began = 0 /\ r.writes = FALSE
  OBVIOUS
<1>2. r \in RequestType
  BY DEF RequestType, Kinds, Steps, IInv, TypeOK, SessionAssumption
<1>3. /\ req' \in [Requests -> RequestType]
      /\ req'[q] = r
      /\ \A p \in Requests \ {q} : req'[p] = req[p]
  <2> HIDE DEF r
  <2> QED
    BY <1>2, Replaced DEF IInv, r, Decode
<1> HIDE DEF r
<1>a. u # NoUser /\ MaxLag \in Nat /\ TTL \in Nat /\ now \in Nat
  BY DEF SessionAssumption, IInv, TypeOK
<1>b. /\ req[q].step = "idle" /\ now < expiry[u]
      /\ UNCHANGED <<now, users, lastSeen, expiry, claimed, disowned>>
  BY DEF Decode, At
<1>4. TypeOK'
  BY <1>3, <1>b DEF IInv, TypeOK
<1>5. Shapes'
  BY <1>1, <1>3, <1>a DEF IInv, Shapes, Writes
<1>6. Timely'
  BY <1>1, <1>3, <1>a, <1>b DEF IInv, Timely, TypeOK
<1>7. CreatorsAreAlone'
  BY <1>1, <1>3, <1>a, <1>b DEF IInv, CreatorsAreAlone, Shapes, Writes
<1>8. WritersAreAlone'
  BY <1>1, <1>3, <1>b DEF IInv, WritersAreAlone, Writes
<1>9. TokensAreFresh'
  BY <1>1, <1>3, <1>b DEF IInv, TokensAreFresh, Holds
<1>10. SeenIsRecent'
  BY <1>1, <1>3, <1>b DEF IInv, SeenIsRecent
<1>c. \A v \in Users : Creating(v) => Creating(v)'
  BY <1>1, <1>3, <1>b DEF Creating
<1>11. UsersStay'
  BY <1>1, <1>3, <1>b, <1>c DEF IInv, UsersStay, Holds, Shapes, TypeOK, RequestType, TokenHoldersExist
<1>12. TokensEndInTime'
  BY <1>1, <1>3, <1>b DEF IInv, TokensEndInTime, Writes
<1>13. ClaimsAreOld'
  BY <1>1, <1>3, <1>b DEF IInv, ClaimsAreOld, Writes
<1>14. TokenHoldersExist'
  BY <1>b, <1>c DEF IInv, TokenHoldersExist
<1> QED
  BY <1>4, <1>5, <1>6, <1>7, <1>8, <1>9, <1>10, <1>11, <1>12, <1>13, <1>14 DEF IInv

\* The user was found, so no open init creates it.
LEMMA FindUserPreserves ==
    ASSUME SessionAssumption, IInv, NEW q \in Requests, FindUser(q)
    PROVE  IInv'
<1>a. req \in [Requests -> RequestType] /\ now \in 0..MaxNow
  BY DEF IInv, TypeOK
<1>1. /\ req'[q].kind = req[q].kind /\ req'[q].step = "read" /\ req'[q].user = req[q].user
      /\ req'[q].since = req[q].since /\ req'[q].began = now /\ req'[q].writes = req[q].writes
  BY <1>a DEF FindUser, RequestType
<1>3. /\ req' \in [Requests -> RequestType]
      /\ \A p \in Requests \ {q} : req'[p] = req[p]
  BY ZenonT(30), <1>a DEF FindUser, RequestType, Steps
<1>b. /\ req[q].step = "decoded" /\ req[q].user \in users
      /\ UNCHANGED <<now, users, lastSeen, expiry, claimed, disowned>>
  BY DEF FindUser, At
<1>4. TypeOK'
  BY <1>3, <1>b DEF IInv, TypeOK
<1>5. Shapes'
  BY <1>1, <1>3, <1>b DEF IInv, Shapes, Writes
<1>6. Timely'
  BY <1>1, <1>3, <1>b DEF IInv, Timely, TypeOK
<1>7. CreatorsAreAlone'
  BY <1>1, <1>3, <1>b DEF IInv, CreatorsAreAlone, Shapes, Writes
<1>8. WritersAreAlone'
  BY <1>1, <1>3, <1>b DEF IInv, WritersAreAlone, Writes, Shapes
<1>9. TokensAreFresh'
  BY <1>1, <1>3, <1>b DEF IInv, TokensAreFresh, Holds
<1>10. SeenIsRecent'
  BY <1>1, <1>3, <1>b DEF IInv, SeenIsRecent
<1>c. \A v \in Users : Creating(v) => Creating(v)'
  BY <1>1, <1>3, <1>b DEF Creating
<1>11. UsersStay'
  BY <1>1, <1>3, <1>b, <1>c DEF IInv, UsersStay, Holds, Shapes, TypeOK, RequestType
<1>12. TokensEndInTime'
  BY <1>1, <1>3, <1>b DEF IInv, TokensEndInTime, Writes
<1>13. ClaimsAreOld'
  BY <1>1, <1>3, <1>b DEF IInv, ClaimsAreOld, Writes
<1>14. TokenHoldersExist'
  BY <1>b, <1>c DEF IInv, TokenHoldersExist
<1> QED
  BY <1>4, <1>5, <1>6, <1>7, <1>8, <1>9, <1>10, <1>11, <1>12, <1>13, <1>14 DEF IInv

\* The row lock makes the writer of a user unique, and a claimed user has none.
LEMMA UpdatePreserves ==
    ASSUME SessionAssumption, IInv, NEW q \in Requests, UpdateLastSeen(q)
    PROVE  IInv'
<1>a. req \in [Requests -> RequestType] /\ now \in 0..MaxNow
  BY DEF IInv, TypeOK
<1>1. /\ req'[q].kind = req[q].kind /\ req'[q].step = "wrote" /\ req'[q].user = req[q].user
      /\ req'[q].since = req[q].since /\ req'[q].began = req[q].began
      /\ StaleSeen(q) => req'[q].writes = TRUE
      /\ ~StaleSeen(q) => req'[q].writes = FALSE
  BY <1>a DEF UpdateLastSeen, RequestType, StaleSeen
<1>3. /\ req' \in [Requests -> RequestType]
      /\ \A p \in Requests \ {q} : req'[p] = req[p]
  <2>1. ASSUME NEW stale \in BOOLEAN
        PROVE  [req EXCEPT ![q].step = "wrote", ![q].writes = stale] \in [Requests -> RequestType]
    BY ZenonT(30), <1>a DEF RequestType, Steps
  <2>2. StaleSeen(q) \in BOOLEAN
    BY DEF StaleSeen
  <2> QED
    BY <1>a, <2>1, <2>2 DEF UpdateLastSeen
<1>b. /\ req[q].step = "read"
      /\ StaleSeen(q) => req[q].user \notin claimed /\ ~Updating(req[q].user)
      /\ UNCHANGED <<now, users, lastSeen, expiry, claimed, disowned>>
  BY DEF UpdateLastSeen, At
<1>c. req[q].kind # "create" /\ Freq \in Nat
  BY <1>b DEF IInv, Shapes, Writes, SessionAssumption
<1>4. TypeOK'
  BY <1>3, <1>b DEF IInv, TypeOK
<1>5. Shapes'
  BY <1>1, <1>3, <1>b, <1>c DEF IInv, Shapes, Writes
<1>6. Timely'
  BY <1>1, <1>3, <1>b DEF IInv, Timely, TypeOK
<1>7. CreatorsAreAlone'
  BY <1>1, <1>3, <1>b, <1>c DEF IInv, CreatorsAreAlone, Shapes, Writes
<1>8. WritersAreAlone'
  BY <1>1, <1>3, <1>b, <1>c DEF IInv, WritersAreAlone, Writes, StaleSeen, Updating, Shapes, TypeOK, RequestType
<1>9. TokensAreFresh'
  BY <1>1, <1>3, <1>b DEF IInv, TokensAreFresh, Holds
<1>10. SeenIsRecent'
  BY <1>1, <1>3, <1>b, <1>c DEF IInv, SeenIsRecent, StaleSeen, UsersStay, Holds, TypeOK, RequestType
<1>d. \A v \in Users : Creating(v) => Creating(v)'
  BY <1>1, <1>3, <1>b DEF Creating
<1>11. UsersStay'
  BY <1>1, <1>3, <1>b, <1>d DEF IInv, UsersStay, Holds, Shapes, TypeOK, RequestType
<1>12. TokensEndInTime'
  BY <1>1, <1>3, <1>b DEF IInv, TokensEndInTime, Writes
<1>13. ClaimsAreOld'
  BY <1>1, <1>3, <1>b DEF IInv, ClaimsAreOld, Writes
<1>14. TokenHoldersExist'
  BY <1>b, <1>d DEF IInv, TokenHoldersExist
<1> QED
  BY <1>4, <1>5, <1>6, <1>7, <1>8, <1>9, <1>10, <1>11, <1>12, <1>13, <1>14 DEF IInv

\* The new token ends a bounded time after the transaction began, which is what
\* last_seen_at will be, or is later than it by the frequency at most.
LEMMA SendPreserves ==
    ASSUME SessionAssumption, GraceAssumption, IInv, NEW q \in Requests, SendToken(q)
    PROVE  IInv'
<1> DEFINE u == req[q].user
<1>a. req \in [Requests -> RequestType] /\ now \in 0..MaxNow
  BY DEF IInv, TypeOK
<1>1. /\ req'[q].kind = req[q].kind /\ req'[q].step = "sent" /\ req'[q].user = u
      /\ req'[q].since = req[q].since /\ req'[q].began = req[q].began
      /\ req'[q].writes = req[q].writes
  BY <1>a DEF SendToken, Goto, RequestType
<1>3. /\ req' \in [Requests -> RequestType]
      /\ \A p \in Requests \ {q} : req'[p] = req[p]
  BY <1>a DEF SendToken, Goto, RequestType, Steps
<1>b. /\ req[q].step = "wrote" /\ req[q].kind # "api"
      /\ UNCHANGED <<now, users, lastSeen, claimed, disowned>>
  BY DEF SendToken, At
<1>c. /\ u \in Users /\ MaxLag \in Nat /\ TTL \in Nat /\ Freq \in Nat
      /\ MaxNow \in Nat /\ now - req[q].since <= MaxLag /\ req[q].since <= req[q].began
  BY <1>a, <1>b DEF IInv, Shapes, Timely, SessionAssumption, RequestType
<1>d. /\ expiry' \in [Users -> 0..(MaxNow + TTL)]
      /\ expiry'[u] = IF expiry[u] < now + TTL THEN now + TTL ELSE expiry[u]
      /\ \A v \in Users \ {u} : expiry'[v] = expiry[v]
      /\ \A v \in Users : expiry[v] <= expiry'[v]
  BY <1>a, <1>c DEF SendToken, IInv, TypeOK
<1>e. /\ req[q].began \in Nat /\ req[q].since \in Nat /\ req[q].began <= now
  BY <1>a, <1>b DEF RequestType, IInv, Timely
<1>f. expiry[u] \in Nat /\ expiry \in [Users -> 0..(MaxNow + TTL)]
  BY <1>c DEF IInv, TypeOK
<1> HIDE DEF u
<1>4. TypeOK'
  BY <1>3, <1>b, <1>d DEF IInv, TypeOK
<1>5. Shapes'
  BY <1>1, <1>3, <1>b DEF IInv, Shapes, Writes, u
<1>6. Timely'
  BY <1>1, <1>3, <1>b DEF IInv, Timely, TypeOK
<1>g. \A p \in Requests \ {q} : req[p].kind = "create" => req[p].user # u
  BY <1>b DEF IInv, CreatorsAreAlone, u
<1>h. \A p \in Requests : req[p].kind = "create" => req[p].user \in Users
  BY DEF IInv, Shapes, Writes, TypeOK, RequestType
<1>7. CreatorsAreAlone'
  <2>1. ASSUME NEW p \in Requests \ {q}, req[p].kind = "create"
        PROVE  expiry'[req[p].user] = expiry[req[p].user]
    BY <1>d, <1>g, <1>h, <2>1
  <2>2. CASE req[q].kind = "create"
    <3>1. expiry[u] = 0
      BY <1>b, <2>2 DEF IInv, CreatorsAreAlone, u
    <3>2. expiry'[u] <= req[q].began + MaxLag + TTL
      BY <1>c, <1>d, <1>e, <3>1, <1>a
    <3> QED
      BY <1>1, <1>3, <1>b, <1>g, <2>1, <3>2 DEF IInv, CreatorsAreAlone, u
  <2>3. CASE req[q].kind # "create"
    BY <1>1, <1>3, <1>b, <1>g, <2>1, <2>3 DEF IInv, CreatorsAreAlone
  <2> QED
    BY <2>2, <2>3
<1>8. WritersAreAlone'
  BY <1>1, <1>3, <1>b DEF IInv, WritersAreAlone, Writes, Shapes, u
<1>9. TokensAreFresh'
  <2>1. \A p \in Requests : Holds(p) => req[p].user \in Users
    BY DEF Holds, IInv, Shapes, TypeOK, RequestType
  <2>2. \A p \in Requests : req[p].since \in Nat
    BY <1>a DEF RequestType
  <2> QED
    BY <1>1, <1>3, <1>b, <1>d, <1>f, <2>1, <2>2 DEF IInv, TokensAreFresh, Holds, u
<1>10. SeenIsRecent'
  BY <1>1, <1>3, <1>b DEF IInv, SeenIsRecent, u
<1>i. \A v \in Users : Creating(v) => Creating(v)'
  BY <1>1, <1>3, <1>b DEF Creating, u
<1>11. UsersStay'
  BY <1>1, <1>3, <1>b, <1>i DEF IInv, UsersStay, Holds, Shapes, TypeOK, RequestType, u
<1>12. TokensEndInTime'
  <2> SUFFICES ASSUME NEW v \in users \ disowned
               PROVE  \/ expiry'[v] <= lastSeen[v] + Freq + MaxLag + TTL
                      \/ \E p \in Requests :
                             /\ Writes(p)' /\ req'[p].step = "sent" /\ req'[p].user = v
                             /\ expiry'[v] <= req'[p].began + MaxLag + TTL
    BY <1>b DEF TokensEndInTime
  <2>1. \/ expiry[v] <= lastSeen[v] + Freq + MaxLag + TTL
        \/ \E p \in Requests :
               /\ Writes(p) /\ req[p].step = "sent" /\ req[p].user = v
               /\ expiry[v] <= req[p].began + MaxLag + TTL
    BY DEF IInv, TokensEndInTime
  <2>2. \A p \in Requests : Writes(p) /\ req[p].step = "sent" =>
            p # q /\ req'[p] = req[p] /\ Writes(p)'
    BY <1>3, <1>b DEF Writes
  <2>3. CASE v # u \/ expiry'[v] = expiry[v]
    <3>1. expiry'[v] = expiry[v]
      BY <1>d, <2>3 DEF IInv, TypeOK
    <3> QED
      BY <2>1, <2>2, <3>1
  <2>4. CASE v = u /\ expiry'[v] = now + TTL
    <3>1. CASE req[q].writes = TRUE
      <4>1. Writes(q)'
        BY <1>1, <3>1 DEF Writes
      <4>2. expiry'[v] <= req'[q].began + MaxLag + TTL
        BY <1>1, <1>a, <1>c, <1>e, <2>4
      <4> QED
        BY <1>1, <2>4, <4>1, <4>2
    <3>2. CASE req[q].writes = FALSE
      <4>1. req[q].began - Freq <= lastSeen[v]
        BY <1>b, <2>4, <3>2 DEF IInv, SeenIsRecent, u
      <4>2. lastSeen[v] \in Nat
        BY DEF IInv, TypeOK
      <4> QED
        BY <1>a, <1>c, <1>e, <2>4, <4>1, <4>2
    <3> QED
      BY <1>a, <3>1, <3>2 DEF RequestType
  <2> QED
    BY <1>d, <2>3, <2>4
<1>13. ClaimsAreOld'
  BY <1>1, <1>3, <1>b DEF IInv, ClaimsAreOld, Writes, u
<1>14. TokenHoldersExist'
  <2> SUFFICES ASSUME NEW v \in Users \ disowned, now < expiry'[v]
               PROVE  v \in users \/ Creating(v)'
    BY <1>b DEF TokenHoldersExist
  <2>1. CASE v # u
    BY <1>d, <1>i, <2>1 DEF IInv, TokenHoldersExist
  <2>2. CASE v = u /\ req[q].kind = "create"
    BY <1>1, <2>2 DEF Creating
  <2>3. CASE v = u /\ req[q].kind # "create"
    BY <1>b, <2>3 DEF IInv, UsersStay, Holds, u
  <2> QED
    BY <2>1, <2>2, <2>3
<1> QED
  BY <1>4, <1>5, <1>6, <1>7, <1>8, <1>9, <1>10, <1>11, <1>12, <1>13, <1>14 DEF IInv

-----------------------------------------------------------------------------

\* The end of a transaction that writes last_seen_at and its request with it.
LEMMA CommitPreserves ==
    ASSUME SessionAssumption, GraceAssumption, IInv, NEW q \in Requests, CommitInit(q), Writes(q)
    PROVE  IInv'
<1> DEFINE u == req[q].user
<1>a. req \in [Requests -> RequestType] /\ now \in 0..MaxNow /\ req[q].began \in 0..MaxNow
  BY DEF IInv, TypeOK, RequestType
<1>1. /\ req'[q].kind = "api" /\ req'[q].step = "idle" /\ req'[q].user = NoUser
      /\ req'[q].since = 0 /\ req'[q].began = 0 /\ req'[q].writes = FALSE
  BY <1>a DEF CommitInit, End, NoRequest
<1>3. /\ req' \in [Requests -> RequestType]
      /\ \A p \in Requests \ {q} : req'[p] = req[p]
  <2>1. NoRequest \in RequestType
    BY DEF NoRequest, RequestType, Kinds, Steps, SessionAssumption
  <2> QED
    BY <1>a, <2>1 DEF CommitInit, End
<1>b. /\ req[q].step = "sent" /\ req[q].kind # "api"
      /\ UNCHANGED <<now, expiry, claimed, disowned>>
  BY DEF CommitInit, At, IInv, Shapes
<1>c. /\ u \in Users /\ MaxLag \in Nat /\ TTL \in Nat /\ Freq \in Nat /\ MaxNow \in Nat
  BY <1>a, <1>b DEF IInv, Shapes, SessionAssumption, RequestType
<1>d. /\ lastSeen' \in [Users -> 0..MaxNow]
      /\ lastSeen'[u] = req[q].began
      /\ \A v \in Users \ {u} : lastSeen'[v] = lastSeen[v]
  BY <1>a, <1>c DEF CommitInit, Written, Writes, IInv, TypeOK
<1>e. /\ users' = users \cup {u}
      /\ req[q].kind # "create" => lastSeen[u] < req[q].began
  BY <1>b DEF CommitInit, Written, IInv, WritersAreAlone
<1>f. /\ \A p \in Requests \ {q} : req[p].kind = "create" => req[p].user # u
      /\ \A p \in Requests \ {q} : Writes(p) => req[p].user # u
  BY <1>b DEF IInv, CreatorsAreAlone, WritersAreAlone
<1>h. /\ \A p \in Requests : Writes(p) \/ req[p].step = "handling" => req[p].user \in Users
      /\ \A p \in Requests : req[p].kind = "create" => Writes(p)
  BY <1>a DEF IInv, Shapes, Writes, RequestType
<1>i. users \subseteq Users /\ claimed \subseteq users /\ lastSeen \in [Users -> 0..MaxNow]
  BY DEF IInv, TypeOK
<1> HIDE DEF u
<1>4. TypeOK'
  BY <1>3, <1>b, <1>c, <1>d, <1>e DEF IInv, TypeOK
<1>5. Shapes'
  BY <1>1, <1>3 DEF IInv, Shapes, Writes
<1>6. Timely'
  BY <1>1, <1>3, <1>b DEF IInv, Timely, TypeOK
<1>7. CreatorsAreAlone'
  BY <1>1, <1>3, <1>b, <1>e, <1>f, <1>h, <1>c DEF IInv, CreatorsAreAlone, Shapes, SessionAssumption
<1>8. WritersAreAlone'
  <2>1. \A p \in Requests : Writes(p)' => p # q /\ Writes(p) /\ req'[p] = req[p]
    BY <1>1, <1>3 DEF Writes
  <2> QED
    BY <1>d, <1>e, <1>f, <1>h, <2>1 DEF IInv, WritersAreAlone
<1>9. TokensAreFresh'
  BY <1>1, <1>3, <1>b DEF IInv, TokensAreFresh, Holds
<1>10. SeenIsRecent'
  <2> SUFFICES ASSUME NEW p \in Requests \ {q}, req[p].user \notin disowned,
                      req[p].step \in {"wrote", "sent", "handling"}
               PROVE  /\ req[p].step \in {"wrote", "sent"} /\ req[p].writes = FALSE =>
                             req[p].began - Freq <= lastSeen'[req[p].user]
                      /\ req[p].step = "handling" =>
                             req[p].since - MaxLag - Freq <= lastSeen'[req[p].user]
    BY <1>1, <1>3, <1>b DEF SeenIsRecent
  <2>1. req[p].user \in Users
    BY <1>a DEF IInv, Shapes, RequestType
  <2>2. req[p].began \in Nat /\ req[p].since \in Nat
    BY <1>a DEF RequestType
  <2>3. req[p].user = u => req[q].kind # "create"
    BY <1>b DEF IInv, CreatorsAreAlone, u
  <2>4. lastSeen[req[p].user] <= lastSeen'[req[p].user]
    BY <1>a, <1>d, <1>e, <1>i, <2>1, <2>3
  <2>5. lastSeen[req[p].user] \in Nat /\ lastSeen'[req[p].user] \in Nat
    BY <1>d, <1>i, <2>1
  <2> QED
    BY <1>c, <2>2, <2>4, <2>5 DEF IInv, SeenIsRecent
<1>j. \A v \in Users : Creating(v) => Creating(v)' \/ v = u
  BY <1>1, <1>3, <1>b DEF Creating, u
<1>11. UsersStay'
  BY <1>1, <1>3, <1>b, <1>e, <1>j DEF IInv, UsersStay, Holds, Shapes, TypeOK, RequestType
<1>12. TokensEndInTime'
  <2> SUFFICES ASSUME NEW v \in users' \ disowned
               PROVE  \/ expiry[v] <= lastSeen'[v] + Freq + MaxLag + TTL
                      \/ \E p \in Requests :
                             /\ Writes(p)' /\ req'[p].step = "sent" /\ req'[p].user = v
                             /\ expiry[v] <= req'[p].began + MaxLag + TTL
    BY <1>b DEF TokensEndInTime
  <2>1. v \in users =>
           \/ expiry[v] <= lastSeen[v] + Freq + MaxLag + TTL
           \/ \E p \in Requests :
                  /\ Writes(p) /\ req[p].step = "sent" /\ req[p].user = v
                  /\ expiry[v] <= req[p].began + MaxLag + TTL
    BY DEF IInv, TokensEndInTime
  <2>2. expiry[v] \in Nat /\ v \in Users
    BY <1>c, <1>e, <1>i DEF IInv, TypeOK
  <2>3. CASE v # u
    <3>1. v \in users /\ lastSeen'[v] = lastSeen[v]
      BY <1>d, <1>e, <2>2, <2>3
    <3>2. \A p \in Requests : Writes(p) /\ req[p].user = v => Writes(p)' /\ req'[p] = req[p]
      BY <1>3, <2>3 DEF Writes, u
    <3> QED
      BY <2>1, <3>1, <3>2
  <2>4. CASE v = u
    <3>1. expiry[u] <= lastSeen'[u] + Freq + MaxLag + TTL
      <4>1. CASE req[q].kind = "create"
        <5>1. expiry[u] <= req[q].began + MaxLag + TTL
          BY <4>1 DEF IInv, CreatorsAreAlone, u
        <5> QED
          BY <1>a, <1>c, <1>d, <2>2, <2>4, <5>1
      <4>2. CASE req[q].kind # "create"
        <5>1. u \in users
          BY <4>2 DEF IInv, WritersAreAlone, u
        <5>2. \/ expiry[u] <= lastSeen[u] + Freq + MaxLag + TTL
              \/ expiry[u] <= req[q].began + MaxLag + TTL
          BY <1>f, <2>1, <2>4, <5>1
        <5>3. lastSeen[u] \in Nat /\ lastSeen[u] < req[q].began
          BY <1>c, <1>e, <1>i, <4>2
        <5> QED
          BY <1>a, <1>c, <1>d, <2>2, <2>4, <5>2, <5>3
      <4> QED
        BY <4>1, <4>2
    <3> QED
      BY <2>4, <3>1
  <2> QED
    BY <2>3, <2>4
<1>13. ClaimsAreOld'
  <2>1. \A v \in claimed : v \in Users /\ v # u
    BY <1>i DEF IInv, ClaimsAreOld, u
  <2>2. \A p \in Requests : Writes(p)' => Writes(p) /\ req'[p] = req[p]
    BY <1>1, <1>3 DEF Writes
  <2> QED
    BY <1>b, <1>d, <2>1, <2>2 DEF IInv, ClaimsAreOld
<1>14. TokenHoldersExist'
  BY <1>b, <1>e, <1>j DEF IInv, TokenHoldersExist
<1> QED
  BY <1>4, <1>5, <1>6, <1>7, <1>8, <1>9, <1>10, <1>11, <1>12, <1>13, <1>14 DEF IInv

\* The middleware commits, and its handler begins.
LEMMA MiddlewarePreserves ==
    ASSUME SessionAssumption, GraceAssumption, IInv, NEW q \in Requests, CommitMiddleware(q)
    PROVE  IInv'
<1> DEFINE u == req[q].user
<1>a. req \in [Requests -> RequestType] /\ now \in 0..MaxNow /\ req[q].began \in 0..MaxNow
  BY DEF IInv, TypeOK, RequestType
<1>1. /\ req'[q].kind = "api" /\ req'[q].step = "handling" /\ req'[q].user = u
      /\ req'[q].since = now /\ req'[q].began = req[q].began /\ req'[q].writes = FALSE
  BY <1>a DEF CommitMiddleware, RequestType
<1>3. /\ req' \in [Requests -> RequestType]
      /\ \A p \in Requests \ {q} : req'[p] = req[p]
  <2>1. ASSUME NEW b \in BOOLEAN
        PROVE  [req EXCEPT ![q].step = "handling", ![q].since = now, ![q].writes = b]
                   \in [Requests -> RequestType]
    <3>1. [req EXCEPT ![q].step = "handling", ![q].since = now] \in [Requests -> RequestType]
      BY <1>a DEF RequestType, Steps
    <3>2. ASSUME NEW x \in [Requests -> RequestType]
          PROVE  [x EXCEPT ![q].writes = b] \in [Requests -> RequestType]
      BY DEF RequestType
    <3> QED
      BY <3>1, <3>2
  <2> QED
    BY <1>a, <2>1 DEF CommitMiddleware
<1>b. /\ req[q].step = "wrote" /\ req[q].kind = "api"
      /\ UNCHANGED <<now, users, expiry, claimed, disowned>>
  BY DEF CommitMiddleware, At, Written
<1>c. /\ u \in Users /\ MaxLag \in Nat /\ TTL \in Nat /\ Freq \in Nat /\ MaxNow \in Nat
      /\ MaxRequest \in Nat /\ now - req[q].began <= MaxLag
  <2>1. u \in Users /\ req[q].since \in Nat
    BY <1>a, <1>b DEF IInv, Shapes, RequestType
  <2>2. now - req[q].since <= MaxLag /\ req[q].since <= req[q].began
    BY <1>b DEF IInv, Timely
  <2> QED
    BY <1>a, <2>1, <2>2 DEF SessionAssumption
<1>i. users \subseteq Users /\ claimed \subseteq users /\ lastSeen \in [Users -> 0..MaxNow]
  BY DEF IInv, TypeOK
<1>d. /\ lastSeen' \in [Users -> 0..MaxNow]
      /\ Writes(q) => lastSeen'[u] = req[q].began /\ lastSeen[u] < req[q].began
      /\ ~Writes(q) => lastSeen' = lastSeen
      /\ \A v \in Users \ {u} : lastSeen'[v] = lastSeen[v]
  <2>1. Writes(q) => lastSeen[u] < req[q].began
    BY <1>b DEF IInv, WritersAreAlone
  <2>2. CASE req[q].writes = TRUE
    BY <1>a, <1>b, <1>c, <1>i, <2>1, <2>2 DEF CommitMiddleware, Written, Writes
  <2>3. CASE req[q].writes = FALSE
    BY <1>a, <1>b, <1>c, <1>i, <2>3 DEF CommitMiddleware, Written, Writes
  <2> QED
    BY <1>a, <2>2, <2>3 DEF RequestType
<1>e. \A v \in Users : lastSeen[v] <= lastSeen'[v]
  BY <1>a, <1>c, <1>d, <1>i
<1>f. /\ \A p \in Requests \ {q} : req[p].kind = "create" => req[p].user # u
      /\ \A p \in Requests \ {q} : Writes(p) /\ Writes(q) => req[p].user # u
  BY <1>b DEF IInv, CreatorsAreAlone, WritersAreAlone
<1>h. \A p \in Requests : req[p].step # "idle" => req[p].user \in Users
  BY <1>a DEF IInv, Shapes, RequestType
<1>j. \A p \in Requests : Writes(p)' => p # q /\ Writes(p) /\ req'[p] = req[p]
  BY <1>1, <1>3 DEF Writes
<1> HIDE DEF u
<1>4. TypeOK'
  BY <1>3, <1>b, <1>d DEF IInv, TypeOK
<1>5. Shapes'
  BY <1>1, <1>3, <1>c DEF IInv, Shapes, Writes, SessionAssumption
<1>6. Timely'
  BY <1>1, <1>3, <1>a, <1>b, <1>c DEF IInv, Timely, TypeOK
<1>7. CreatorsAreAlone'
  BY <1>1, <1>3, <1>b, <1>f DEF IInv, CreatorsAreAlone
<1>8. WritersAreAlone'
  <2> SUFFICES ASSUME NEW p \in Requests, Writes(p)', req[p].kind # "create"
               PROVE  lastSeen'[req[p].user] < req[p].began
    BY <1>b, <1>j DEF IInv, WritersAreAlone
  <2>1. p # q /\ Writes(p) /\ req[p].user \in Users
    BY <1>h, <1>j DEF Writes
  <2>2. lastSeen'[req[p].user] = lastSeen[req[p].user]
    BY <1>d, <1>f, <2>1
  <2> QED
    BY <2>1, <2>2 DEF IInv, WritersAreAlone
<1>9. TokensAreFresh'
  BY <1>1, <1>3, <1>b DEF IInv, TokensAreFresh, Holds
<1>10. SeenIsRecent'
  <2>1. ASSUME NEW p \in Requests \ {q}, req[p].user \notin disowned,
               req[p].step \in {"wrote", "sent", "handling"}
        PROVE  /\ req[p].step \in {"wrote", "sent"} /\ req[p].writes = FALSE =>
                      req[p].began - Freq <= lastSeen'[req[p].user]
               /\ req[p].step = "handling" =>
                      req[p].since - MaxLag - Freq <= lastSeen'[req[p].user]
    <3>1. req[p].began \in Nat /\ req[p].since \in Nat /\ req[p].user \in Users
      BY <1>a, <1>h, <2>1 DEF RequestType
    <3>2. lastSeen[req[p].user] \in Nat /\ lastSeen'[req[p].user] \in Nat
      BY <1>d, <1>i, <3>1
    <3> QED
      BY <1>c, <1>e, <2>1, <3>1, <3>2 DEF IInv, SeenIsRecent
  <2>2. u \notin disowned => now - MaxLag - Freq <= lastSeen'[u]
    <3>1. lastSeen[u] \in Nat /\ lastSeen'[u] \in Nat
      BY <1>c, <1>d, <1>i
    <3>2. CASE Writes(q)
      BY <1>a, <1>c, <1>d, <3>1, <3>2
    <3>3. CASE ~Writes(q)
      <4>1. req[q].writes = FALSE
        BY <1>a, <1>b, <3>3 DEF Writes, RequestType
      <4>2. u \notin disowned => req[q].began - Freq <= lastSeen[u]
        BY <1>b, <4>1 DEF IInv, SeenIsRecent, u
      <4> QED
        BY <1>a, <1>c, <1>e, <3>1, <4>2
    <3> QED
      BY <3>2, <3>3
  <2> QED
    BY <1>1, <1>3, <1>b, <2>1, <2>2 DEF SeenIsRecent
<1>k. \A v \in Users : Creating(v) => Creating(v)'
  BY <1>3, <1>b DEF Creating
<1>11. UsersStay'
  BY <1>1, <1>3, <1>b, <1>k DEF IInv, UsersStay, Holds, Shapes, TypeOK, RequestType, u
<1>12. TokensEndInTime'
  <2> SUFFICES ASSUME NEW v \in users \ disowned
               PROVE  \/ expiry[v] <= lastSeen'[v] + Freq + MaxLag + TTL
                      \/ \E p \in Requests :
                             /\ Writes(p)' /\ req'[p].step = "sent" /\ req'[p].user = v
                             /\ expiry[v] <= req'[p].began + MaxLag + TTL
    BY <1>b DEF TokensEndInTime
  <2>1. \/ expiry[v] <= lastSeen[v] + Freq + MaxLag + TTL
        \/ \E p \in Requests :
               /\ Writes(p) /\ req[p].step = "sent" /\ req[p].user = v
               /\ expiry[v] <= req[p].began + MaxLag + TTL
    BY DEF IInv, TokensEndInTime
  <2>2. \A p \in Requests : Writes(p) /\ req[p].step = "sent" => Writes(p)' /\ req'[p] = req[p]
    BY <1>3, <1>b DEF Writes
  <2>3. /\ expiry[v] \in Nat /\ lastSeen[v] \in Nat /\ lastSeen'[v] \in Nat
        /\ lastSeen[v] <= lastSeen'[v]
    BY <1>d, <1>e, <1>i DEF IInv, TypeOK
  <2> QED
    BY <1>c, <2>1, <2>2, <2>3
<1>13. ClaimsAreOld'
  <2>1. \A v \in claimed : lastSeen'[v] = lastSeen[v]
    BY <1>d, <1>i DEF IInv, ClaimsAreOld, u
  <2> QED
    BY <1>b, <1>j, <2>1 DEF IInv, ClaimsAreOld
<1>14. TokenHoldersExist'
  BY <1>b, <1>k DEF IInv, TokenHoldersExist
<1> QED
  BY <1>4, <1>5, <1>6, <1>7, <1>8, <1>9, <1>10, <1>11, <1>12, <1>13, <1>14 DEF IInv

-----------------------------------------------------------------------------

\* What the grace of the cleaner buys: a user it has locked has no valid token
\* and no request under way.
LEMMA ClaimedAreDone ==
    ASSUME SessionAssumption, GraceAssumption, IInv, NEW u \in claimed \ disowned
    PROVE  /\ expiry[u] <= now
           /\ \A q \in Requests : Holds(q) => req[q].user # u
<1>1. /\ u \in users /\ u \in Users /\ now \in Nat
      /\ expiry[u] \in Nat /\ lastSeen[u] \in Nat
  BY DEF IInv, TypeOK, SessionAssumption
<1>2. {TTL, Freq, Grace, MaxLag, MaxRequest} \subseteq Nat
  BY DEF SessionAssumption
<1>3. /\ lastSeen[u] < now - (TTL + Freq + Grace)
      /\ \A q \in Requests : Writes(q) => req[q].user # u
  BY DEF IInv, ClaimsAreOld
<1>4. expiry[u] <= lastSeen[u] + Freq + MaxLag + TTL
  BY <1>1, <1>3 DEF IInv, TokensEndInTime
<1>5. expiry[u] + MaxLag < now
  BY <1>1, <1>2, <1>3, <1>4 DEF GraceAssumption
<1>6. ASSUME NEW q \in Requests, Holds(q), req[q].user = u
      PROVE  FALSE
  <2>1. req[q].since \in Nat
    BY DEF IInv, TypeOK, RequestType
  <2>2. CASE req[q].step = "handling"
    <3>1. now - req[q].since <= MaxRequest
      BY <2>2 DEF IInv, Timely
    <3>2. req[q].since - MaxLag - Freq <= lastSeen[u]
      BY <1>6, <2>2 DEF IInv, SeenIsRecent
    <3> QED
      BY <1>1, <1>2, <1>3, <2>1, <3>1, <3>2 DEF GraceAssumption
  <2>3. CASE req[q].step # "handling"
    <3>1. req[q].since < expiry[u]
      BY <1>6, <2>3 DEF IInv, TokensAreFresh
    <3>2. now - req[q].since <= MaxLag
      <4>1. req[q].step \in {"decoded", "read", "wrote", "sent"}
        BY <1>6, <2>3 DEF Holds, IInv, TypeOK, RequestType, Steps
      <4> QED
        BY <4>1 DEF IInv, Timely
    <3> QED
      BY <1>1, <1>2, <1>5, <2>1, <3>1, <3>2
  <2> QED
    BY <2>2, <2>3
<1> QED
  BY <1>1, <1>2, <1>5, <1>6

\* The steps of the cleaner.
LEMMA CleanerPreserves ==
    ASSUME SessionAssumption, GraceAssumption, IInv,
           ClaimExpired \/ DeleteClaimed \/ CleanerFails
    PROVE  IInv'
<1>1. CASE ClaimExpired
  <2>1. /\ claimed' \subseteq users
        /\ \A u \in claimed' : lastSeen[u] < now - (TTL + Freq + Grace) /\ ~Updating(u)
        /\ UNCHANGED <<now, users, lastSeen, expiry, req, disowned>>
    BY <1>1 DEF ClaimExpired, BatchesOf, Expired, Cutoff
  <2>2. ClaimsAreOld'
    BY <2>1 DEF ClaimsAreOld, Updating, Writes
  <2> QED
    BY <2>1, <2>2 DEF IInv, TypeOK, Shapes, Timely, CreatorsAreAlone, WritersAreAlone,
        TokensAreFresh, SeenIsRecent, UsersStay, TokensEndInTime, TokenHoldersExist,
        Holds, Writes, Creating
<1>2. CASE CleanerFails
  BY <1>2 DEF CleanerFails, IInv, TypeOK, Shapes, Timely, CreatorsAreAlone, WritersAreAlone,
        TokensAreFresh, SeenIsRecent, UsersStay, TokensEndInTime, TokenHoldersExist,
        ClaimsAreOld, Holds, Writes, Creating
<1>3. CASE DeleteClaimed
  <2>1. /\ users' = users \ claimed /\ claimed' = {}
        /\ UNCHANGED <<now, lastSeen, expiry, req, disowned>>
    BY <1>3 DEF DeleteClaimed
  <2>2. WritersAreAlone'
    BY <2>1 DEF IInv, WritersAreAlone, ClaimsAreOld, Writes
  <2>3. UsersStay'
    BY <2>1, ClaimedAreDone DEF IInv, UsersStay, Holds, Creating
  <2>4. TokenHoldersExist'
    <3>1. now \in Nat /\ \A u \in Users : expiry[u] \in Nat
      BY DEF IInv, TypeOK, SessionAssumption
    <3> QED
      BY <2>1, <3>1, ClaimedAreDone DEF IInv, TokenHoldersExist, Creating
  <2> QED
    BY <2>1, <2>2, <2>3, <2>4 DEF IInv, TypeOK, Shapes, Timely, CreatorsAreAlone,
        TokensAreFresh, SeenIsRecent, TokensEndInTime, ClaimsAreOld, Holds, Writes
<1> QED
  BY <1>1, <1>2, <1>3

\* Time goes on as long as no bound is reached, and claims grow older.
LEMMA TickPreserves == ASSUME SessionAssumption, IInv, Tick PROVE IInv'
<1>1. /\ now < MaxNow /\ now' = now + 1 /\ \A q \in Requests : InTime(q)
      /\ UNCHANGED <<users, lastSeen, expiry, req, claimed, disowned>>
  BY DEF Tick
<1>2. now \in Nat /\ {TTL, Freq, Grace, MaxLag, MaxRequest, MaxNow} \subseteq Nat
  BY DEF SessionAssumption, IInv, TypeOK
<1>3. TypeOK'
  BY <1>1, <1>2 DEF IInv, TypeOK
<1>4. Timely'
  <2> SUFFICES ASSUME NEW q \in Requests
               PROVE  /\ req[q].since <= now'
                      /\ req[q].step \in {"decoded", "read", "wrote", "sent"} =>
                             now' - req[q].since <= MaxLag
                      /\ req[q].step = "handling" => now' - req[q].since <= MaxRequest
                      /\ req[q].step \in {"read", "wrote", "sent"} =>
                             req[q].since <= req[q].began /\ req[q].began <= now'
    BY <1>1 DEF Timely
  <2>1. req[q].since \in Nat /\ req[q].began \in Nat
    BY DEF IInv, TypeOK, RequestType
  <2>2. /\ req[q].step = "handling" => now - req[q].since < MaxRequest
        /\ req[q].step \notin {"idle", "handling"} => now - req[q].since < MaxLag
    BY <1>1 DEF InTime, At
  <2> QED
    BY <1>1, <1>2, <2>1, <2>2 DEF IInv, Timely
<1>5. ClaimsAreOld'
  <2>1. \A u \in claimed : lastSeen[u] \in Nat
    BY DEF IInv, TypeOK
  <2> QED
    BY <1>1, <1>2, <2>1 DEF IInv, ClaimsAreOld, Writes
<1>6. TokenHoldersExist'
  <2>1. \A u \in Users : expiry[u] \in Nat
    BY <1>2 DEF IInv, TypeOK
  <2> QED
    BY <1>1, <1>2, <2>1 DEF IInv, TokenHoldersExist, Creating
<1> QED
  BY <1>1, <1>3, <1>4, <1>5, <1>6 DEF IInv, Shapes, CreatorsAreAlone, WritersAreAlone,
        TokensAreFresh, SeenIsRecent, UsersStay, TokensEndInTime, Holds, Writes, Creating

-----------------------------------------------------------------------------

\* The steps of a request.
LEMMA ServePreserves ==
    ASSUME SessionAssumption, GraceAssumption, IInv, NEW q \in Requests, Serve(q) \/ RollBack(q)
    PROVE  IInv'
<1>1. CASE FindUser(q)
  BY <1>1, FindUserPreserves
<1>2. CASE MissUser(q)
  <2>1. CASE req[q].kind = "api"
    <3>1. End(q) /\ UNCHANGED <<now, users, lastSeen, expiry, claimed, disowned>>
      BY <1>2, <2>1 DEF MissUser
    <3>2. req[q].step = "decoded" /\ disowned \in SUBSET Users
      BY <1>2 DEF MissUser, At, IInv, TypeOK
    <3> QED
      BY <3>1, <3>2, EndPreserves
  <2>2. CASE req[q].kind # "api"
    <3>1. PICK u \in Users : Fresh(u) /\ req' = [req EXCEPT ![q] = CreatedRequest(u, req[q].since)]
      BY <1>2, <2>2 DEF MissUser
    <3>2. req[q].step = "decoded" /\ UNCHANGED <<now, users, lastSeen, expiry, claimed, disowned>>
      BY <1>2 DEF MissUser, At
    <3>3. /\ req[q].since \in 0..MaxNow /\ req[q].since <= now
          /\ now - req[q].since <= MaxLag
      BY <3>2 DEF IInv, Timely, TypeOK, RequestType
    <3> QED
      BY <3>1, <3>2, <3>3, CreatePreserves
  <2> QED
    BY <2>1, <2>2
<1>3. CASE UpdateLastSeen(q)
  BY <1>3, UpdatePreserves
<1>4. CASE SendToken(q)
  BY <1>4, SendPreserves
<1>5. CASE CommitInit(q)
  <2>1. CASE Writes(q)
    BY <1>5, <2>1, CommitPreserves
  <2>2. CASE ~Writes(q)
    <3>1. req[q].kind # "create" /\ req[q].writes # TRUE
      BY <2>2 DEF IInv, Shapes
    <3>2. End(q) /\ UNCHANGED <<now, users, lastSeen, expiry, claimed, disowned>>
      BY <1>5, <3>1 DEF CommitInit, Written, IInv, TypeOK, RequestType
    <3>3. disowned \in SUBSET Users
      BY DEF IInv, TypeOK
    <3> QED
      BY <2>2, <3>2, <3>3, EndPreserves
  <2> QED
    BY <2>1, <2>2
<1>6. CASE CommitMiddleware(q)
  BY <1>6, MiddlewarePreserves
<1>7. CASE FinishHandler(q)
  <2>1. /\ req[q].step = "handling" /\ End(q)
        /\ UNCHANGED <<now, users, lastSeen, expiry, claimed, disowned>>
    BY <1>7 DEF FinishHandler, At
  <2>2. disowned \in SUBSET Users
    BY DEF IInv, TypeOK
  <2> QED
    BY <2>1, <2>2, EndPreserves
<1>8. CASE RollBack(q)
  <2>1. /\ End(q) /\ UNCHANGED <<now, users, lastSeen, expiry, claimed>>
        /\ disowned' = IF req[q].step = "sent" THEN disowned \cup {req[q].user} ELSE disowned
    BY <1>8 DEF RollBack, At
  <2>2. req[q].step = "sent" => req[q].user \in Users
    BY DEF IInv, Shapes, TypeOK, RequestType
  <2>3. disowned' \in SUBSET Users /\ disowned \subseteq disowned'
    BY <2>1, <2>2 DEF IInv, TypeOK
  <2> QED
    BY <2>1, <2>3, EndPreserves
<1> QED
  BY <1>1, <1>2, <1>3, <1>4, <1>5, <1>6, <1>7, <1>8 DEF Serve

\* Every step keeps the invariant.
LEMMA NextPreserves ==
    ASSUME SessionAssumption, GraceAssumption, IInv, [Next]_vars PROVE IInv'
<1>1. ASSUME NEW q \in Requests, NEW u \in Users, BeginNew(q, u)
      PROVE  IInv'
  <2>1. /\ req[q].step = "idle" /\ Fresh(u)
        /\ req' = [req EXCEPT ![q] = CreatedRequest(u, now)]
        /\ UNCHANGED <<now, users, lastSeen, expiry, claimed, disowned>>
    BY <1>1 DEF BeginNew, At
  <2>2. now \in 0..MaxNow /\ now <= now /\ now - now <= MaxLag
    BY DEF IInv, TypeOK, SessionAssumption
  <2> QED
    BY <2>1, <2>2, CreatePreserves
<1>2. ASSUME NEW q \in Requests, NEW u \in Users, NEW kind \in {"return", "api"},
             Decode(q, u, kind)
      PROVE  IInv'
  BY <1>2, DecodePreserves
<1>3. ASSUME NEW q \in Requests, Serve(q) \/ RollBack(q)
      PROVE  IInv'
  BY <1>3, ServePreserves
<1>4. CASE ClaimExpired \/ DeleteClaimed \/ CleanerFails
  BY <1>4, CleanerPreserves
<1>5. CASE Tick
  BY <1>5, TickPreserves
<1>6. CASE UNCHANGED vars
  BY <1>6 DEF vars, IInv, TypeOK, Shapes, Timely, CreatorsAreAlone, WritersAreAlone,
        TokensAreFresh, SeenIsRecent, UsersStay, TokensEndInTime, TokenHoldersExist,
        ClaimsAreOld, Holds, Writes, Creating
<1> QED
  BY <1>1, <1>2, <1>3, <1>4, <1>5, <1>6 DEF Next

-----------------------------------------------------------------------------

\* The inductive invariant: what last_seen_at, the open transactions and the
\* tokens that were sent say of each other.
THEOREM Invariance == Spec => []IInv
<1>1. Init => IInv
  BY InitIInv, SessionAssumption
<1>2. IInv /\ [Next]_vars => IInv'
  BY NextPreserves, SessionAssumption, GraceAssumption
<1> QED
  BY <1>1, <1>2, PTL DEF Spec, SafetySpec

\* The type of the rows, tokens and requests.
THEOREM TypeCorrect == Spec => []TypeOK
<1>1. IInv => TypeOK
  BY DEF IInv
<1> QED
  BY <1>1, Invariance, PTL

\* The cleaner is never early: whatever last_seen_at lags behind the tokens of a
\* user, a user with a valid token is there.
THEOREM TokenHoldersAreKept == Spec => []TokenHoldersExist
<1>1. IInv => TokenHoldersExist
  BY DEF IInv
<1> QED
  BY <1>1, Invariance, PTL

\* No request loses its user between the check of its token and the end of its
\* handler.
THEOREM RequestsAreSafe == Spec => []RequestsKeepTheirUser
<1>1. IInv => RequestsKeepTheirUser
  BY DEF IInv, UsersStay, Holds, RequestsKeepTheirUser
<1> QED
  BY <1>1, Invariance, PTL

\* Transactions of a user commit in any order, and last_seen_at never goes back.
THEOREM LastSeenAdvances == Spec => LastSeenOnlyAdvances
<1> DEFINE A == \A u \in users \cap users' : lastSeen[u] <= lastSeen'[u]
<1>1. IInv /\ [Next]_vars => [A]_vars
  <2> SUFFICES ASSUME IInv, Next PROVE A
    OBVIOUS
  <2>1. lastSeen \in [Users -> 0..MaxNow] /\ users \subseteq Users
    BY DEF IInv, TypeOK
  <2>2. ASSUME NEW q \in Requests, Written(q), req[q].step \in {"wrote", "sent"}
        PROVE  A
    <3>1. CASE req[q].writes = TRUE
      <4>1. Writes(q)
        BY <2>2, <3>1 DEF Writes
      <4>2. lastSeen' = [lastSeen EXCEPT ![req[q].user] = req[q].began]
        BY <2>2, <3>1 DEF Written
      <4>3. req[q].user \in users => lastSeen[req[q].user] < req[q].began
        BY <4>1 DEF IInv, CreatorsAreAlone, WritersAreAlone
      <4>4. req[q].began \in Nat
        BY DEF IInv, TypeOK, RequestType
      <4> QED
        BY <2>1, <4>2, <4>3, <4>4
    <3>2. CASE req[q].writes = FALSE
      BY <2>1, <2>2, <3>2 DEF Written
    <3> QED
      BY <3>1, <3>2 DEF IInv, TypeOK, RequestType
  <2>3. ASSUME NEW q \in Requests, CommitInit(q) \/ CommitMiddleware(q)
        PROVE  A
    BY <2>2, <2>3 DEF CommitInit, CommitMiddleware, At
  <2>4. ASSUME lastSeen' = lastSeen
        PROVE  A
    BY <2>1, <2>4
  <2>5. \/ \E q \in Requests : CommitInit(q) \/ CommitMiddleware(q)
        \/ lastSeen' = lastSeen
    BY DEF Next, BeginNew, Decode, Serve, FindUser, MissUser, UpdateLastSeen, SendToken,
           FinishHandler, RollBack, ClaimExpired, DeleteClaimed, CleanerFails, Tick
  <2> QED
    BY <2>3, <2>4, <2>5
<1> QED
  BY <1>1, Invariance, PTL DEF Spec, SafetySpec, LastSeenOnlyAdvances
=============================================================================
