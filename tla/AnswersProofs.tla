----------------------------- MODULE AnswersProofs -----------------------------
(***************************************************************************)
(* Answers, for any number of requests, chunks, scores and budgets.  First *)
(* the web search: no request goes to an address that was not accepted,    *)
(* and a search never has more downloads under way than it may.  Then the  *)
(* loop that fills the context and the order of the reranker, each as a    *)
(* fact about its function, proved by induction on the positions; last     *)
(* the invariant of the questions that says these functions were applied   *)
(* to what the search found.                                               *)
(***************************************************************************)
EXTENDS Answers, SequenceLemmas

States == {"queued", "checking", "requesting", "parsing", "done"}

Fetches == [state : States, url : Urls, requests : 0..MaxRedirects, text : {NoText, Text}]

\* The address of a download that is past its check is safe: each redirect
\* sends it back to the check.
Accepted(f) == f.state = "requesting" => f.url \in SafeUrls

WebInv ==
    /\ fetch \in [Requests -> Seq(Fetches)]
    /\ visited \in [Requests -> SUBSET Urls]
    /\ \A r \in Requests : \A i \in DOMAIN fetch[r] : Accepted(fetch[r][i])
    /\ EveryHopIsChecked
    /\ DownloadsAreLimited

-----------------------------------------------------------------------------

\* The downloads under way are finitely many.
LEMMA DownloadingIsFinite ==
    ASSUME WebInv, NEW r \in Requests
    PROVE  IsFiniteSet(Downloading(r)) /\ Cardinality(Downloading(r)) \in Nat
<1>1. fetch[r] \in Seq(Fetches)
  BY DEF WebInv
<1>2. DOMAIN fetch[r] = 1..Len(fetch[r]) /\ Len(fetch[r]) \in Nat
  BY <1>1
<1>3. IsFiniteSet(1..Len(fetch[r]))
  BY <1>2, FS_Interval
<1>4. Downloading(r) \subseteq 1..Len(fetch[r])
  BY <1>2 DEF Downloading
<1>5. IsFiniteSet(Downloading(r))
  BY <1>3, <1>4, FS_Subset
<1> QED
  BY <1>5, FS_CardinalityType

\* One more element counts for one at most.
LEMMA OneMore ==
    ASSUME NEW S, NEW x, IsFiniteSet(S)
    PROVE  IsFiniteSet(S \cup {x}) /\ Cardinality(S \cup {x}) <= Cardinality(S) + 1
<1>1. Cardinality(S) \in Nat
  BY FS_CardinalityType
<1>2. /\ IsFiniteSet(S \cup {x})
      /\ Cardinality(S \cup {x}) = IF x \in S THEN Cardinality(S) ELSE Cardinality(S) + 1
  BY FS_AddElement
<1> QED
  BY <1>1, <1>2

\* One fetch of a search is replaced.  The invariant is kept if the new fetch
\* has an accepted address, the search may have visited the old one, and a place
\* of the semaphore is taken only where one is free.
LEMMA FetchReplaced ==
    ASSUME WebInv, WebAssumption, NEW r \in Requests, NEW i \in DOMAIN fetch[r], NEW new \in Fetches,
           fetch' = [fetch EXCEPT ![r][i] = new],
           Accepted(new),
           \/ visited' = visited
           \/ visited' = [visited EXCEPT ![r] = @ \cup {fetch[r][i].url}]
              /\ fetch[r][i].state = "requesting",
           \/ new.state \notin Holding
           \/ fetch[r][i].state \in Holding
           \/ Cardinality(Downloading(r)) < MaxParallel
    PROVE  WebInv'
<1>1. fetch[r] \in Seq(Fetches) /\ fetch \in [Requests -> Seq(Fetches)]
  BY DEF WebInv
<1>2. [fetch[r] EXCEPT ![i] = new] \in Seq(Fetches)
  BY <1>1
<1>3. fetch' = [fetch EXCEPT ![r] = [fetch[r] EXCEPT ![i] = new]]
  OBVIOUS
<1>4. fetch'[r] = [fetch[r] EXCEPT ![i] = new]
  BY <1>1, <1>3
<1>5. \A q \in Requests : q # r => fetch'[q] = fetch[q]
  BY <1>1, <1>3
<1>6. fetch' \in [Requests -> Seq(Fetches)]
  BY <1>1, <1>2, <1>3
<1>7. visited' \in [Requests -> SUBSET Urls]
  <2>0. fetch[r][i] \in Fetches
    BY <1>1
  <2>1. fetch[r][i].url \in Urls
    BY <2>0 DEF Fetches
  <2> QED
    BY <2>1 DEF WebInv
<1>8. \A q \in Requests : \A j \in DOMAIN fetch'[q] : Accepted(fetch'[q][j])
  <2> SUFFICES ASSUME NEW q \in Requests, NEW j \in DOMAIN fetch'[q]
               PROVE  Accepted(fetch'[q][j])
    OBVIOUS
  <2>1. CASE q # r
    BY <2>1, <1>5 DEF WebInv
  <2>2. CASE q = r /\ j = i
    BY <2>2, <1>4, <1>1
  <2>3. CASE q = r /\ j # i
    BY <2>3, <1>4, <1>1 DEF WebInv
  <2> QED
    BY <2>1, <2>2, <2>3
<1>9. EveryHopIsChecked'
  <2>1. fetch[r][i].state = "requesting" => fetch[r][i].url \in SafeUrls
    BY DEF WebInv, Accepted
  <2> QED
    BY <2>1 DEF EveryHopIsChecked, WebInv
<1>10. DownloadsAreLimited'
  <2> SUFFICES ASSUME NEW q \in Requests
               PROVE  Cardinality(Downloading(q)') <= MaxParallel
    BY DEF DownloadsAreLimited
  <2>0. /\ IsFiniteSet(Downloading(q)) /\ Cardinality(Downloading(q)) \in Nat
        /\ Cardinality(Downloading(q)) <= MaxParallel
        /\ MaxParallel \in Nat
    BY DownloadingIsFinite DEF WebInv, DownloadsAreLimited, WebAssumption
  <2>1. CASE q # r
    <3>1. Downloading(q)' = Downloading(q)
      BY <2>1, <1>5 DEF Downloading
    <3> QED
      BY <3>1, <2>0
  <2>2. CASE q = r /\ (new.state \notin Holding \/ fetch[r][i].state \in Holding)
    <3>1. Downloading(q)' \subseteq Downloading(q)
      BY <2>2, <1>4, <1>1 DEF Downloading
    <3>2. Cardinality(Downloading(q)') <= Cardinality(Downloading(q))
          /\ Cardinality(Downloading(q)') \in Nat
      BY <3>1, <2>0, FS_Subset, FS_CardinalityType
    <3> QED
      BY <3>2, <2>0
  <2>3. CASE q = r /\ Cardinality(Downloading(r)) < MaxParallel
    <3>1. Downloading(q)' \subseteq Downloading(q) \cup {i}
      BY <2>3, <1>4, <1>1 DEF Downloading
    <3>2. /\ IsFiniteSet(Downloading(q) \cup {i})
          /\ Cardinality(Downloading(q) \cup {i}) <= Cardinality(Downloading(q)) + 1
      BY <2>0, OneMore
    <3>3. /\ Cardinality(Downloading(q)') <= Cardinality(Downloading(q) \cup {i})
          /\ Cardinality(Downloading(q)') \in Nat
          /\ Cardinality(Downloading(q) \cup {i}) \in Nat
      BY <3>1, <3>2, FS_Subset, FS_CardinalityType
    <3> QED
      BY <3>2, <3>3, <2>0, <2>3
  <2> QED
    BY <2>1, <2>2, <2>3
<1> QED
  BY <1>6, <1>7, <1>8, <1>9, <1>10 DEF WebInv

\* All fetches of a search are replaced by fetches that have not begun.
LEMMA FetchesReset ==
    ASSUME WebInv, WebAssumption, NEW r \in Requests, NEW new \in Seq(Fetches),
           fetch' = [fetch EXCEPT ![r] = new],
           visited' = visited,
           \A i \in DOMAIN new : new[i].state = "queued"
    PROVE  WebInv'
<1>1. fetch \in [Requests -> Seq(Fetches)]
  BY DEF WebInv
<1>2. fetch'[r] = new /\ \A q \in Requests : q # r => fetch'[q] = fetch[q]
  BY <1>1
<1>3. fetch' \in [Requests -> Seq(Fetches)]
  BY <1>1
<1>4. \A q \in Requests : \A j \in DOMAIN fetch'[q] : Accepted(fetch'[q][j])
  BY <1>2 DEF WebInv, Accepted
<1>5. DownloadsAreLimited'
  <2> SUFFICES ASSUME NEW q \in Requests
               PROVE  Cardinality(Downloading(q)') <= MaxParallel
    BY DEF DownloadsAreLimited
  <2>1. CASE q # r
    <3>1. Downloading(q)' = Downloading(q)
      BY <2>1, <1>2 DEF Downloading
    <3> QED
      BY <3>1 DEF WebInv, DownloadsAreLimited
  <2>2. CASE q = r
    <3>1. Downloading(q)' = {}
      BY <2>2, <1>2 DEF Downloading, Holding
    <3> QED
      BY <3>1, FS_EmptySet DEF WebAssumption
  <2> QED
    BY <2>1, <2>2
<1> QED
  BY <1>3, <1>4, <1>5 DEF WebInv, EveryHopIsChecked

LEMMA InitWebInv == ASSUME WebAssumption, WebInit PROVE WebInv
<1>1. fetch \in [Requests -> Seq(Fetches)] /\ \A r \in Requests : fetch[r] = <<>>
  BY DEF WebInit
<1>2. visited \in [Requests -> SUBSET Urls] /\ \A r \in Requests : visited[r] = {}
  BY DEF WebInit
<1>3. \A r \in Requests : Downloading(r) = {}
  BY <1>1 DEF Downloading
<1>4. Cardinality({}) = 0 /\ 0 <= MaxParallel
  BY FS_EmptySet DEF WebAssumption
<1>5. DownloadsAreLimited
  BY <1>3, <1>4 DEF DownloadsAreLimited
<1> QED
  BY <1>1, <1>2, <1>5 DEF WebInv, EveryHopIsChecked

\* A search gets results, none of which has been fetched yet.
LEMMA FoundPreserves ==
    ASSUME WebInv, WebAssumption, NEW r \in Requests, NEW results \in ResultLists,
           NEW next, Found(r, results, next)
    PROVE  WebInv'
<1> DEFINE new == [i \in DOMAIN results |-> NewFetch(results[i], "queued")]
<1>1. results \in Seq(Urls)
  BY DEF WebAssumption
<1>2. \A i \in DOMAIN results : NewFetch(results[i], "queued") \in Fetches
  BY <1>1 DEF NewFetch, Fetches, States
<1>3. new \in Seq(Fetches)
  BY <1>1, <1>2
<1>4. \A i \in DOMAIN new : new[i].state = "queued"
  BY DEF NewFetch
<1>5. fetch' = [fetch EXCEPT ![r] = new] /\ visited' = visited
  BY DEF Found
<1> QED
  BY <1>3, <1>4, <1>5, FetchesReset

\* A download that gave nothing falls back to the snippet of its result.
LEMMA UseBackupPreserves ==
    ASSUME WebInv, WebAssumption, NEW r \in Requests, NEW i \in DOMAIN fetch[r], UseBackup(r, i),
           \/ visited' = visited
           \/ visited' = [visited EXCEPT ![r] = @ \cup {fetch[r][i].url}]
              /\ fetch[r][i].state = "requesting"
    PROVE  WebInv'
<1>1. fetch[r][i] \in Fetches
  BY DEF WebInv
<1>2. PICK text \in {Text, NoText} :
          fetch' = [fetch EXCEPT ![r][i] =
                      [fetch[r][i] EXCEPT !.state = IF text = NoText THEN "done" ELSE "parsing",
                                          !.text = text]]
  BY DEF UseBackup, Set
<1> DEFINE new == [fetch[r][i] EXCEPT !.state = IF text = NoText THEN "done" ELSE "parsing",
                                      !.text = text]
<1>3. new \in Fetches /\ new.state \in {"done", "parsing"}
  BY <1>1 DEF Fetches, States
<1>4. Accepted(new) /\ new.state \notin Holding
  BY <1>3 DEF Accepted, Holding
<1>5. fetch' = [fetch EXCEPT ![r][i] = new]
  BY <1>2
<1> HIDE DEF new
<1> QED
  BY <1>3, <1>4, <1>5, FetchReplaced

\* A step of one fetch.
LEMMA FetchStepPreserves ==
    ASSUME WebInv, WebAssumption, NEW r \in Requests, NEW i \in DOMAIN fetch[r],
           \/ Acquire(r, i) \/ CheckUrl(r, i) \/ FollowRedirect(r, i)
           \/ ReadPage(r, i) \/ MissPage(r, i) \/ ParsePage(r, i)
    PROVE  WebInv'
<1> DEFINE old == fetch[r][i]
<1>0. old \in Fetches
  BY DEF WebInv
<1>1. CASE Acquire(r, i)
  <2> DEFINE new == [old EXCEPT !.state = "checking"]
  <2>1. new \in Fetches /\ new.state = "checking"
    BY <1>0 DEF Fetches, States
  <2>2. Accepted(new)
    BY <2>1 DEF Accepted
  <2>3. fetch' = [fetch EXCEPT ![r][i] = new] /\ visited' = visited
        /\ Cardinality(Downloading(r)) < MaxParallel
    BY <1>1 DEF Acquire, Set
  <2> HIDE DEF new
  <2> QED
    BY <2>1, <2>2, <2>3, FetchReplaced
<1>2. CASE CheckUrl(r, i)
  <2>1. CASE old.url \in SafeUrls
    <3> DEFINE new == [old EXCEPT !.state = "requesting"]
    <3>1. new \in Fetches /\ new.state = "requesting" /\ new.url = old.url
      BY <1>0 DEF Fetches, States
    <3>2. Accepted(new)
      BY <3>1, <2>1 DEF Accepted
    <3>3. fetch' = [fetch EXCEPT ![r][i] = new] /\ visited' = visited /\ old.state \in Holding
      BY <1>2, <2>1 DEF CheckUrl, Set, FetchIs, Holding
    <3> HIDE DEF new
    <3> QED
      BY <3>1, <3>2, <3>3, FetchReplaced
  <2>2. CASE old.url \notin SafeUrls
    BY <1>2, <2>2, UseBackupPreserves DEF CheckUrl
  <2> QED
    BY <2>1, <2>2
<1>3. CASE FollowRedirect(r, i)
  <2>0. old.state = "requesting" /\ visited' = [visited EXCEPT ![r] = @ \cup {old.url}]
    BY <1>3 DEF FollowRedirect, FetchIs, Visit
  <2>1. PICK url \in Urls :
            IF old.requests + 1 > MaxRedirects THEN UseBackup(r, i)
            ELSE Set(r, i, [NewFetch(url, "checking") EXCEPT !.requests = old.requests + 1])
    BY <1>3 DEF FollowRedirect
  <2>2. CASE old.requests + 1 > MaxRedirects
    BY <2>0, <2>1, <2>2, UseBackupPreserves
  <2>3. CASE ~ (old.requests + 1 > MaxRedirects)
    <3> DEFINE new == [NewFetch(url, "checking") EXCEPT !.requests = old.requests + 1]
    <3>1. NewFetch(url, "checking") \in Fetches /\ NewFetch(url, "checking").state = "checking"
      BY DEF NewFetch, Fetches, States
    <3>2. old.requests + 1 \in 0..MaxRedirects
      BY <1>0, <2>3 DEF Fetches, WebAssumption
    <3>3. new \in Fetches /\ new.state = "checking"
      BY <3>1, <3>2 DEF Fetches
    <3>4. fetch' = [fetch EXCEPT ![r][i] = new]
      BY <2>1, <2>3 DEF Set
    <3> HIDE DEF new
    <3>5. Accepted(new) /\ old.state \in Holding
      BY <3>3, <2>0 DEF Accepted, Holding
    <3> QED
      BY <3>3, <3>4, <3>5, <2>0, FetchReplaced
  <2> QED
    BY <2>2, <2>3
<1>4. CASE ReadPage(r, i)
  <2> DEFINE new == [old EXCEPT !.state = "parsing", !.text = Text]
  <2>1. new \in Fetches /\ new.state = "parsing"
    BY <1>0 DEF Fetches, States
  <2>2. Accepted(new) /\ new.state \notin Holding
    BY <2>1 DEF Accepted, Holding
  <2>3. /\ fetch' = [fetch EXCEPT ![r][i] = new]
        /\ visited' = [visited EXCEPT ![r] = @ \cup {old.url}] /\ old.state = "requesting"
    BY <1>4 DEF ReadPage, Set, FetchIs, Visit
  <2> HIDE DEF new
  <2> QED
    BY <2>1, <2>2, <2>3, FetchReplaced
<1>5. CASE MissPage(r, i)
  BY <1>5, UseBackupPreserves DEF MissPage, FetchIs, Visit
<1>6. CASE ParsePage(r, i)
  <2>1. PICK text \in {old.text, NoText} :
            fetch' = [fetch EXCEPT ![r][i] = [old EXCEPT !.state = "done", !.text = text]]
    BY <1>6 DEF ParsePage, Set
  <2> DEFINE new == [old EXCEPT !.state = "done", !.text = text]
  <2>2. new \in Fetches /\ new.state = "done"
    BY <1>0 DEF Fetches, States
  <2>3. Accepted(new) /\ new.state \notin Holding
    BY <2>2 DEF Accepted, Holding
  <2>4. fetch' = [fetch EXCEPT ![r][i] = new] /\ visited' = visited
    BY <1>6, <2>1 DEF ParsePage
  <2> HIDE DEF new
  <2> QED
    BY <2>2, <2>3, <2>4, FetchReplaced
<1> QED
  BY <1>1, <1>2, <1>3, <1>4, <1>5, <1>6

LEMMA UnchangedPreserves == ASSUME WebInv, fetch' = fetch, visited' = visited PROVE WebInv'
BY DEF WebInv, EveryHopIsChecked, DownloadsAreLimited, Downloading

\* The steps of a request that touch its search.
LEMMA NextPreserves == ASSUME WebInv, WebAssumption, [Next]_vars PROVE WebInv'
<1>1. CASE UNCHANGED vars
  BY <1>1, UnchangedPreserves DEF vars, webVars
<1>2. CASE WarmUp
  BY <1>2, UnchangedPreserves DEF WarmUp, webVars
<1>3. ASSUME NEW r \in Requests, Ask(r) \/ Expand(r) \/ Rerank(r) \/ Generate(r)
      PROVE  WebInv'
  BY <1>3, UnchangedPreserves DEF Ask, Expand, Rerank, Generate, webVars
<1>4. ASSUME NEW r \in Requests, Search(r)
      PROVE  WebInv'
  <2>1. fetch' = fetch /\ visited' = visited
    BY <1>4 DEF Search, StartSearch, webVars
  <2> QED
    BY <2>1, UnchangedPreserves
<1>5. ASSUME NEW r \in Requests, SearchWeb(r)
      PROVE  WebInv'
  <2>1. CASE BraveSearch(r)
    BY <2>1, FoundPreserves DEF BraveSearch
  <2>2. CASE FallbackSearch(r)
    BY <2>2, FoundPreserves DEF FallbackSearch
  <2>3. ASSUME NEW i \in DOMAIN fetch[r],
               \/ Acquire(r, i) \/ CheckUrl(r, i) \/ FollowRedirect(r, i)
               \/ ReadPage(r, i) \/ MissPage(r, i) \/ ParsePage(r, i)
        PROVE  WebInv'
    BY <2>3, FetchStepPreserves
  <2> QED
    BY <1>5, <2>1, <2>2, <2>3 DEF SearchWeb, WebStep
<1>6. ASSUME NEW r \in Requests, TakeWebTexts(r)
      PROVE  WebInv'
  <2>1. fetch' = [fetch EXCEPT ![r] = <<>>] /\ visited' = visited
    BY <1>6 DEF TakeWebTexts, EndSearch
  <2>2. <<>> \in Seq(Fetches) /\ \A i \in DOMAIN <<>> : <<>>[i].state = "queued"
    OBVIOUS
  <2> QED
    BY <2>1, <2>2, FetchesReset
<1> QED
  BY <1>1, <1>2, <1>3, <1>4, <1>5, <1>6 DEF Next, Step

-----------------------------------------------------------------------------

\* What the web search of every request keeps.
THEOREM WebSearchInvariance == Spec => []WebInv
<1>1. Init => WebInv
  BY InitWebInv, WebAssumption DEF Init
<1>2. WebInv /\ [Next]_vars => WebInv'
  BY NextPreserves, WebAssumption
<1> QED
  BY <1>1, <1>2, PTL DEF Spec

\* No search sends a request to an address that _is_url_safe would not accept,
\* wherever redirects lead.
THEOREM RedirectsAreChecked == Spec => []EveryHopIsChecked
<1>1. WebInv => EveryHopIsChecked
  BY DEF WebInv
<1> QED
  BY <1>1, WebSearchInvariance, PTL

\* The semaphore bounds the downloads of a search over all their redirects.
THEOREM ParallelDownloadsAreBounded == Spec => []DownloadsAreLimited
<1>1. WebInv => DownloadsAreLimited
  BY DEF WebInv
<1> QED
  BY <1>1, WebSearchInvariance, PTL

-----------------------------------------------------------------------------

\* What the loop over the entries may know.
SpendingState == [budget : 0..MaxContext, taken : SUBSET Nat, open : BOOLEAN]

\* The entries have sizes.
Sized(entries) == Len(entries) \in Nat /\ \A n \in 1..Len(entries) : entries[n].size \in Nat

\* One entry keeps the types of the loop.
LEMMA SpendType ==
    ASSUME NEW s \in SpendingState, NEW k \in Nat, NEW size \in Nat
    PROVE  Spend(s, k, size) \in SpendingState
<1>1. MaxContext \in Nat
  BY AnswersAssumption
<1>2. s.budget \in 0..MaxContext /\ s.taken \in SUBSET Nat /\ s.open \in BOOLEAN
  BY DEF SpendingState
<1>3. CASE ~s.open \/ size = 0
  BY <1>3 DEF Spend
<1>4. CASE ~(~s.open \/ size = 0) /\ size > s.budget
  BY <1>4 DEF Spend, SpendingState
<1>5. CASE ~(~s.open \/ size = 0) /\ ~(size > s.budget)
  <2>1. s.budget - size \in 0..MaxContext
    BY <1>1, <1>2, <1>5
  <2>2. Spend(s, k, size) = [s EXCEPT !.budget = s.budget - size, !.taken = s.taken \cup {k}]
    BY <1>5 DEF Spend
  <2>3. s.taken \cup {k} \in SUBSET Nat
    BY <1>2
  <2> QED
    BY <2>1, <2>2, <2>3 DEF SpendingState
<1> QED
  BY <1>3, <1>4, <1>5

\* Spending is what the loop computes, entry by entry.
LEMMA SpendingSteps ==
    ASSUME NEW E, Sized(E)
    PROVE  /\ Spending(E) \in [0..Len(E) -> SpendingState]
           /\ Spending(E)[0] = Unspent
           /\ \A n \in 1..Len(E) : Spending(E)[n] = Spend(Spending(E)[n - 1], n, E[n].size)
<1> DEFINE N == Len(E)
           Body(g) == [n \in 0..N |-> IF n = 0 THEN Unspent ELSE Spend(g[n - 1], n, E[n].size)]
           step == [a \in (1..N) \X SpendingState |-> Spend(a[2], a[1], E[a[1]].size)]
<1>1. N \in Nat /\ \A n \in 1..N : n \in Nat /\ E[n].size \in Nat
  BY DEF Sized
<1>2. Unspent \in SpendingState
  BY AnswersAssumption DEF Unspent, SpendingState
<1>3. step \in [(1..N) \X SpendingState -> SpendingState]
  <2>1. ASSUME NEW a \in (1..N) \X SpendingState
        PROVE  Spend(a[2], a[1], E[a[1]].size) \in SpendingState
    <3>1. a[1] \in 1..N /\ a[2] \in SpendingState
      OBVIOUS
    <3> QED
      BY <1>1, <3>1, SpendType
  <2> QED
    BY <2>1
<1>4. PICK g : Computation(g, SpendingState, Unspent, step, N)
  <2> HIDE DEF step, N
  <2> QED
    BY <1>1, <1>2, <1>3, RecursionExists
<1>5. ASSUME NEW n \in 1..N PROVE g[n] = Spend(g[n - 1], n, E[n].size)
  <2>1. g[n - 1] \in SpendingState
    <3>1. g \in [0..N -> SpendingState] /\ n - 1 \in 0..N
      BY <1>1, <1>4 DEF Computation
    <3> QED
      BY <3>1
  <2>2. <<n, g[n - 1]>> \in (1..N) \X SpendingState
    BY <2>1
  <2>3. step[<<n, g[n - 1]>>] = Spend(g[n - 1], n, E[n].size)
    BY <2>2
  <2> QED
    BY <1>4, <2>3 DEF Computation
<1> HIDE DEF step, N
<1>6. g = Body(g)
  <2>1. \A n \in 0..N : n = 0 \/ n \in 1..N
    BY <1>1
  <2>2. \A n \in 0..N : g[n] = Body(g)[n]
    BY <1>4, <1>5, <2>1 DEF Computation
  <2> QED
    BY <1>4, <2>2 DEF Computation
<1>7. Spending(E) = CHOOSE h : h = Body(h)
  BY DEF Spending, N
<1> DEFINE f == Spending(E)
<1>8. f = Body(f)
  <2> HIDE DEF Body
  <2> QED
    BY <1>6, <1>7
<1> HIDE DEF f
<1>9. f[0] = Unspent /\ \A n \in 1..N : f[n] = Spend(f[n - 1], n, E[n].size)
  <2>1. 0 \in 0..N /\ \A n \in 1..N : n \in 0..N /\ n # 0
    BY <1>1
  <2> DEFINE b == Body(f)
  <2>2. b[0] = Unspent /\ \A n \in 1..N : b[n] = Spend(f[n - 1], n, E[n].size)
    BY <2>1
  <2> HIDE DEF b
  <2>3. f = b
    BY <1>8 DEF b
  <2> QED
    BY <2>2, <2>3
<1>10. f \in [0..N -> SpendingState]
  <2> DEFINE S == {n \in Nat : n <= N => f[n] \in SpendingState}
  <2>1. 0 \in S
    BY <1>2, <1>9
  <2>2. ASSUME NEW n \in Nat, n \in S PROVE n + 1 \in S
    <3> SUFFICES ASSUME n + 1 <= N PROVE f[n + 1] \in SpendingState
      OBVIOUS
    <3>1. n + 1 \in 1..N /\ (n + 1) - 1 = n /\ f[n] \in SpendingState
      BY <1>1, <2>2
    <3>2. f[n + 1] = Spend(f[n], n + 1, E[n + 1].size)
      BY <1>9, <3>1
    <3> QED
      BY <1>1, <3>1, <3>2, SpendType
  <2>3. Nat \subseteq S
    <3> HIDE DEF S
    <3> QED
      BY <2>1, <2>2, NatInd
  <2>4. \A n \in 0..N : f[n] \in SpendingState
    BY <1>1, <2>3
  <2>5. f = [n \in 0..N |-> Body(f)[n]]
    BY <1>8
  <2> HIDE DEF Body
  <2>6. f = [n \in 0..N |-> f[n]]
    BY <1>8, <2>5
  <2> QED
    BY <2>4, <2>6
<1> QED
  BY <1>9, <1>10 DEF f, N

-----------------------------------------------------------------------------

\* TotalSize as a function of how many of the entries are added up.
Sums(entries, positions) ==
    LET sum[n \in 0..Len(entries)] ==
            IF n = 0 THEN 0
            ELSE sum[n - 1] + IF n \in positions THEN entries[n].size ELSE 0
    IN sum

\* Sums adds up what it says, entry by entry.
LEMMA SumsSteps ==
    ASSUME NEW E, Sized(E), NEW P
    PROVE  /\ Sums(E, P) \in [0..Len(E) -> Nat]
           /\ Sums(E, P)[0] = 0
           /\ \A n \in 1..Len(E) :
                 Sums(E, P)[n] = Sums(E, P)[n - 1] + IF n \in P THEN E[n].size ELSE 0
<1> DEFINE N == Len(E)
           Body(g) == [n \in 0..N |-> IF n = 0 THEN 0
                                      ELSE g[n - 1] + IF n \in P THEN E[n].size ELSE 0]
           size(n) == IF n \in P THEN E[n].size ELSE 0
           step == [a \in (1..N) \X Nat |-> a[2] + size(a[1])]
<1>1. N \in Nat /\ \A n \in 1..N : n \in Nat /\ size(n) \in Nat
  BY DEF Sized
<1>3. step \in [(1..N) \X Nat -> Nat]
  <2>1. ASSUME NEW a \in (1..N) \X Nat
        PROVE  a[2] + size(a[1]) \in Nat
    <3>1. a[1] \in 1..N /\ a[2] \in Nat
      OBVIOUS
    <3>2. size(a[1]) \in Nat
      BY <1>1, <3>1
    <3> HIDE DEF size
    <3> QED
      BY <3>1, <3>2
  <2> HIDE DEF size
  <2> QED
    BY <2>1
<1>4. PICK g : Computation(g, Nat, 0, step, N)
  <2> HIDE DEF step, N
  <2> QED
    BY <1>1, <1>3, RecursionExists
<1>5. ASSUME NEW n \in 1..N PROVE g[n] = g[n - 1] + size(n)
  <2>1. g[n - 1] \in Nat
    <3>1. g \in [0..N -> Nat] /\ n - 1 \in 0..N
      BY <1>1, <1>4 DEF Computation
    <3> QED
      BY <3>1
  <2>2. <<n, g[n - 1]>> \in (1..N) \X Nat
    BY <2>1
  <2> HIDE DEF size
  <2>3. step[<<n, g[n - 1]>>] = g[n - 1] + size(n)
    BY <2>2
  <2> QED
    BY <1>4, <2>3 DEF Computation
<1> HIDE DEF step, N
<1>6. g = Body(g)
  <2>1. \A n \in 0..N : n = 0 \/ n \in 1..N
    BY <1>1
  <2>2. \A n \in 0..N : g[n] = Body(g)[n]
    BY <1>4, <1>5, <2>1 DEF Computation
  <2> QED
    BY <1>4, <2>2 DEF Computation
<1>7. Sums(E, P) = CHOOSE h : h = Body(h)
  BY DEF Sums, N
<1> DEFINE f == Sums(E, P)
<1>8. f = Body(f)
  <2> HIDE DEF Body
  <2> QED
    BY <1>6, <1>7
<1> HIDE DEF f
<1>9. f[0] = 0 /\ \A n \in 1..N : f[n] = f[n - 1] + size(n)
  <2>1. 0 \in 0..N /\ \A n \in 1..N : n \in 0..N /\ n # 0
    BY <1>1
  <2> DEFINE b == Body(f)
  <2>2. b[0] = 0 /\ \A n \in 1..N : b[n] = f[n - 1] + size(n)
    BY <2>1
  <2> HIDE DEF b
  <2>3. f = b
    BY <1>8 DEF b
  <2> QED
    BY <2>2, <2>3
<1>10. f \in [0..N -> Nat]
  <2> DEFINE S == {n \in Nat : n <= N => f[n] \in Nat}
  <2>1. 0 \in S
    BY <1>9
  <2>2. ASSUME NEW n \in Nat, n \in S PROVE n + 1 \in S
    <3> SUFFICES ASSUME n + 1 <= N PROVE f[n + 1] \in Nat
      OBVIOUS
    <3>1. n + 1 \in 1..N /\ (n + 1) - 1 = n /\ f[n] \in Nat
      BY <1>1, <2>2
    <3> HIDE DEF size
    <3>2. f[n + 1] = f[n] + size(n + 1) /\ size(n + 1) \in Nat
      BY <1>1, <1>9, <3>1
    <3> QED
      BY <3>1, <3>2
  <2>3. Nat \subseteq S
    <3> HIDE DEF S
    <3> QED
      BY <2>1, <2>2, NatInd
  <2>4. \A n \in 0..N : f[n] \in Nat
    BY <1>1, <2>3
  <2>5. f = [n \in 0..N |-> Body(f)[n]]
    BY <1>8
  <2> HIDE DEF Body
  <2>6. f = [n \in 0..N |-> f[n]]
    BY <1>8, <2>5
  <2> QED
    BY <2>4, <2>6
<1> QED
  BY <1>9, <1>10 DEF f, N

\* The positions of the first b entries that have text.
Filled(entries, b) == {k \in 1..b : entries[k].size > 0}

\* The loop over the entries has taken all of the first b that have text, and
\* stands behind them or before one that did not fit.
Spent(entries, state, n, b) ==
    /\ b \in 0..n
    /\ state.taken = Filled(entries, b)
    /\ state.budget = MaxContext - Sums(entries, 1..Len(entries))[b]
    /\ state.open => b = n
    /\ ~state.open => b < n /\ entries[b + 1].size > state.budget

\* After all entries the loop has taken the first of them that have text.
LEMMA SpendingTakesTheFirst ==
    ASSUME NEW E, Sized(E)
    PROVE  \E b : Spent(E, Spending(E)[Len(E)], Len(E), b)
<1> DEFINE N == Len(E)
           W == Sums(E, 1..N)
           f == Spending(E)
           S == {n \in Nat : n <= N => \E b : Spent(E, f[n], n, b)}
<1>1. N \in Nat /\ \A n \in 1..N : E[n].size \in Nat
  BY DEF Sized
<1>2. W \in [0..N -> Nat] /\ W[0] = 0 /\ \A n \in 1..N : W[n] = W[n - 1] + E[n].size
  BY SumsSteps
<1>3. f \in [0..N -> SpendingState] /\ f[0] = Unspent
      /\ \A n \in 1..N : f[n] = Spend(f[n - 1], n, E[n].size)
  BY SpendingSteps
<1> HIDE DEF f
<1>4. MaxContext \in Nat
  BY AnswersAssumption
<1>5. 0 \in S
  <2>1. Spent(E, f[0], 0, 0)
    BY <1>2, <1>3, <1>4 DEF Spent, Unspent, Filled
  <2> QED
    BY <2>1
<1>6. ASSUME NEW n \in Nat, n \in S PROVE n + 1 \in S
  <2> SUFFICES ASSUME n + 1 <= N PROVE \E b : Spent(E, f[n + 1], n + 1, b)
    OBVIOUS
  <2>1. PICK b : Spent(E, f[n], n, b)
    BY <1>1, <1>6
  <2> DEFINE s == f[n]
             size == E[n + 1].size
  <2>2. /\ s.budget \in 0..MaxContext /\ s.open \in BOOLEAN
        /\ n + 1 \in 1..N /\ n \in 0..N
    <3>1. n + 1 \in 1..N /\ n \in 0..N
      BY <1>1
    <3>2. s \in SpendingState
      BY <1>3, <3>1
    <3> QED
      BY <3>1, <3>2 DEF SpendingState
  <2>3. f[n + 1] = Spend(s, n + 1, size) /\ size \in Nat
    <3>1. (n + 1) - 1 = n
      OBVIOUS
    <3> QED
      BY <1>1, <1>3, <2>2, <3>1
  <2>4. /\ b \in 0..n /\ s.taken = Filled(E, b) /\ s.budget = MaxContext - W[b]
        /\ s.open => b = n
        /\ ~s.open => b < n /\ E[b + 1].size > s.budget
    BY <2>1 DEF Spent
  <2>5. s = [budget |-> s.budget, taken |-> s.taken, open |-> s.open]
    BY <1>3, <2>2 DEF SpendingState
  <2>6. W[n + 1] = W[n] + size /\ W[n] \in Nat
    <3>1. (n + 1) - 1 = n
      OBVIOUS
    <3> QED
      BY <1>2, <2>2, <3>1
  <2> HIDE DEF s, W
  <2>7. CASE ~s.open
    <3>1. f[n + 1] = s
      BY <2>3, <2>7 DEF Spend
    <3>2. Spent(E, f[n + 1], n + 1, b)
      BY <2>4, <2>7, <3>1 DEF Spent, W
    <3> QED
      BY <3>2
  <2>8. CASE s.open /\ size = 0
    <3>1. f[n + 1] = s
      BY <2>3, <2>8 DEF Spend
    <3>2. Filled(E, n + 1) = Filled(E, n)
      BY <2>8 DEF Filled
    <3>3. Spent(E, f[n + 1], n + 1, n + 1)
      BY <2>4, <2>6, <2>8, <3>1, <3>2 DEF Spent, W
    <3> QED
      BY <3>3
  <2>9. CASE s.open /\ size # 0 /\ size > s.budget
    <3>1. f[n + 1] = [s EXCEPT !.open = FALSE]
      BY <2>3, <2>9 DEF Spend
    <3>2. /\ f[n + 1].budget = s.budget /\ f[n + 1].taken = s.taken /\ f[n + 1].open = FALSE
      BY <2>5, <3>1
    <3>3. Spent(E, f[n + 1], n + 1, n)
      BY <2>4, <2>9, <3>2 DEF Spent, W
    <3> QED
      BY <3>3
  <2>10. CASE s.open /\ size # 0 /\ ~(size > s.budget)
    <3>1. f[n + 1] = [s EXCEPT !.budget = s.budget - size, !.taken = s.taken \cup {n + 1}]
      BY <2>3, <2>10 DEF Spend
    <3>2. /\ f[n + 1].budget = s.budget - size /\ f[n + 1].open = TRUE
          /\ f[n + 1].taken = s.taken \cup {n + 1}
      BY <2>5, <2>10, <3>1
    <3>3. Filled(E, n + 1) = Filled(E, n) \cup {n + 1}
      BY <2>3, <2>10 DEF Filled
    <3>4. s.budget - size = MaxContext - W[n + 1]
      BY <1>4, <2>3, <2>4, <2>6, <2>10
    <3>5. Spent(E, f[n + 1], n + 1, n + 1)
      BY <2>4, <2>10, <3>2, <3>3, <3>4 DEF Spent, W
    <3> QED
      BY <3>5
  <2> QED
    BY <2>7, <2>8, <2>9, <2>10
<1>7. N \in S
  <2> HIDE DEF S
  <2> QED
    BY <1>1, <1>5, <1>6, NatInd
<1> QED
  BY <1>7 DEF f

\* The sizes of the first entries that have text are the sizes of the first.
LEMMA TotalOfTheFirst ==
    ASSUME NEW E, Sized(E), NEW b \in 0..Len(E)
    PROVE  TotalSize(E, Filled(E, b)) = Sums(E, 1..Len(E))[b]
<1> DEFINE N == Len(E)
           W == Sums(E, 1..N)
           P == Filled(E, b)
           F == Sums(E, P)
           S == {n \in Nat : n <= N => F[n] = IF n <= b THEN W[n] ELSE W[b]}
<1>1. N \in Nat /\ \A n \in 1..N : E[n].size \in Nat
  BY DEF Sized
<1>2. W \in [0..N -> Nat] /\ W[0] = 0 /\ \A n \in 1..N : W[n] = W[n - 1] + E[n].size
  BY SumsSteps
<1>3. F \in [0..N -> Nat] /\ F[0] = 0
      /\ \A n \in 1..N : F[n] = F[n - 1] + IF n \in P THEN E[n].size ELSE 0
  BY SumsSteps
<1> HIDE DEF F, W
<1>4. 0 \in S
  BY <1>1, <1>2, <1>3
<1>5. ASSUME NEW n \in Nat, n \in S PROVE n + 1 \in S
  <2> SUFFICES ASSUME n + 1 <= N PROVE F[n + 1] = IF n + 1 <= b THEN W[n + 1] ELSE W[b]
    OBVIOUS
  <2>1. n + 1 \in 1..N /\ n \in 0..N /\ (n + 1) - 1 = n /\ b \in 0..N
    BY <1>1
  <2>2. /\ F[n + 1] = F[n] + IF n + 1 \in P THEN E[n + 1].size ELSE 0
        /\ F[n] = IF n <= b THEN W[n] ELSE W[b]
        /\ W[n + 1] = W[n] + E[n + 1].size
        /\ W[n] \in Nat /\ W[b] \in Nat /\ F[n] \in Nat /\ E[n + 1].size \in Nat
    <3> HIDE DEF P
    <3>1. F[n + 1] = F[n] + IF n + 1 \in P THEN E[n + 1].size ELSE 0
      BY <1>3, <2>1
    <3>2. F[n] = IF n <= b THEN W[n] ELSE W[b]
      BY <1>5, <2>1
    <3>3. W[n + 1] = W[n] + E[n + 1].size /\ W[n] \in Nat /\ W[b] \in Nat
      BY <1>2, <2>1
    <3>4. F[n] \in Nat /\ E[n + 1].size \in Nat
      BY <1>1, <1>3, <2>1
    <3> QED
      BY <3>1, <3>2, <3>3, <3>4
  <2>3. n + 1 \in P <=> (n + 1 <= b /\ E[n + 1].size > 0)
    BY <2>1 DEF Filled
  <2> HIDE DEF P
  <2>4. CASE n + 1 <= b
    BY <2>2, <2>3, <2>4
  <2>5. CASE ~(n + 1 <= b)
    <3>1. n <= b => n = b
      BY <2>1, <2>5
    <3>2. n + 1 \notin P
      BY <2>3, <2>5
    <3> QED
      BY <2>2, <2>5, <3>1, <3>2
  <2> QED
    BY <2>4, <2>5
<1>6. N \in S
  <2> HIDE DEF S
  <2> QED
    BY <1>1, <1>4, <1>5, NatInd
<1>7. TotalSize(E, P) = F[N]
  BY DEF TotalSize, F, Sums
<1>8. F[N] = W[b]
  <2>1. N <= b => N = b
    BY <1>1
  <2> QED
    BY <1>1, <1>6, <2>1
<1> QED
  BY <1>7, <1>8 DEF W

\* The entries taken are all those with text up to some place; they keep to
\* the budget, and the entry behind that place would go over it.
LEMMA TakenIsFull ==
    ASSUME NEW E, Sized(E)
    PROVE  LET taken == Spending(E)[Len(E)].taken
           IN  \E b \in 0..Len(E) :
                  /\ taken = Filled(E, b)
                  /\ TotalSize(E, taken) \in Nat /\ TotalSize(E, taken) <= MaxContext
                  /\ b < Len(E) => /\ E[b + 1].size > 0
                                   /\ TotalSize(E, taken) + E[b + 1].size > MaxContext
<1> DEFINE N == Len(E)
           W == Sums(E, 1..N)
           s == Spending(E)[N]
<1>1. PICK b : Spent(E, s, N, b)
  BY SpendingTakesTheFirst
<1>2. N \in Nat /\ \A n \in 1..N : E[n].size \in Nat
  BY DEF Sized
<1>3. /\ b \in 0..N /\ s.taken = Filled(E, b) /\ s.budget = MaxContext - W[b]
      /\ s.open => b = N
      /\ ~s.open => b < N /\ E[b + 1].size > s.budget
  BY <1>1 DEF Spent
<1>4. W[b] \in Nat
  <2>1. W \in [0..N -> Nat]
    BY SumsSteps
  <2> QED
    BY <1>3, <2>1
<1>5. s.budget \in 0..MaxContext /\ MaxContext \in Nat
  <2>1. Spending(E) \in [0..N -> SpendingState] /\ N \in 0..N
    BY <1>2, SpendingSteps
  <2>2. s \in SpendingState
    BY <2>1
  <2> QED
    BY <2>2, AnswersAssumption DEF SpendingState
<1>6. TotalSize(E, s.taken) = W[b]
  BY <1>3, TotalOfTheFirst
<1> HIDE DEF s, W
<1>7. TotalSize(E, s.taken) \in Nat /\ TotalSize(E, s.taken) <= MaxContext
  BY <1>3, <1>4, <1>5, <1>6
<1>8. b < N => E[b + 1].size > 0 /\ TotalSize(E, s.taken) + E[b + 1].size > MaxContext
  <2> SUFFICES ASSUME b < N PROVE E[b + 1].size > 0 /\ TotalSize(E, s.taken) + E[b + 1].size > MaxContext
    OBVIOUS
  <2>1. E[b + 1].size > s.budget /\ b + 1 \in 1..N
    BY <1>2, <1>3
  <2>2. E[b + 1].size \in Nat
    BY <1>2, <2>1
  <2> QED
    BY <1>3, <1>4, <1>5, <1>6, <2>1, <2>2
<1> QED
  BY <1>3, <1>7, <1>8 DEF s

-----------------------------------------------------------------------------

\* The ranking of n things by their keys: the higher key first, the earlier
\* thing where keys are equal.
Beats(key, j, i) == key[j] > key[i] \/ (key[j] = key[i] /\ j < i)

Better(key, n, i) == {j \in 1..n : Beats(key, j, i)}

Place(key, n, i) == 1 + Cardinality(Better(key, n, i))

\* Places are natural numbers.
LEMMA BetterIsFinite ==
    ASSUME NEW key, NEW n \in Nat, NEW i \in 1..n
    PROVE  /\ IsFiniteSet(Better(key, n, i))
           /\ Cardinality(Better(key, n, i)) \in Nat
           /\ Place(key, n, i) \in Nat
<1>1. IsFiniteSet(1..n)
  BY FS_Interval
<1>2. IsFiniteSet(Better(key, n, i))
  BY <1>1, FS_Subset DEF Better
<1> QED
  BY <1>2, FS_CardinalityType DEF Place

\* What beats has the lower place.
LEMMA BeatsIsLower ==
    ASSUME NEW n \in Nat, NEW key \in [1..n -> Nat], NEW i \in 1..n, NEW j \in 1..n,
           Beats(key, j, i)
    PROVE  Place(key, n, j) < Place(key, n, i)
<1> DEFINE B == Better(key, n, j)
           A == Better(key, n, i)
<1>1. ASSUME NEW k \in B PROVE k \in A
  <2>1. k \in 1..n /\ Beats(key, k, j)
    BY DEF Better
  <2>2. key[k] \in Nat /\ key[j] \in Nat /\ key[i] \in Nat
    BY <2>1
  <2>3. Beats(key, k, i)
    BY <2>1, <2>2 DEF Beats
  <2> QED
    BY <2>1, <2>3 DEF Better
<1>2. j \in A /\ j \notin B
  <2>1. key[j] \in Nat
    OBVIOUS
  <2> QED
    BY <2>1 DEF Better, Beats
<1>3. IsFiniteSet(A) /\ Cardinality(A) \in Nat /\ Cardinality(B) \in Nat
  BY BetterIsFinite
<1> HIDE DEF A, B
<1>4. Cardinality(B) <= Cardinality(A) /\ Cardinality(A) # Cardinality(B)
  <2>1. B \in SUBSET A /\ A # B
    BY <1>1, <1>2
  <2> QED
    BY <1>3, <2>1, FS_Subset
<1> QED
  BY <1>3, <1>4 DEF A, B, Place

\* The places are those from 1 to n, each taken once.
LEMMA PlacesAreAPermutation ==
    ASSUME NEW n \in Nat, NEW key \in [1..n -> Nat]
    PROVE  /\ \A i \in 1..n : Place(key, n, i) \in 1..n
           /\ \A i \in 1..n, j \in 1..n : Place(key, n, i) = Place(key, n, j) => i = j
           /\ \A k \in 1..n : \E i \in 1..n : Place(key, n, i) = k
           /\ \A i \in 1..n, j \in 1..n :
                 Place(key, n, j) < Place(key, n, i) => Beats(key, j, i)
<1>1. ASSUME NEW i \in 1..n PROVE Place(key, n, i) \in 1..n
  <2> DEFINE B == Better(key, n, i)
  <2>1. IsFiniteSet(1..n) /\ Cardinality(1..n) = n
    BY FS_Interval
  <2>2. IsFiniteSet((1..n) \ {i}) /\ Cardinality((1..n) \ {i}) = n - 1
    BY <2>1, FS_RemoveElement
  <2>3. key[i] \in Nat
    OBVIOUS
  <2>4. B \in SUBSET ((1..n) \ {i})
    BY <2>3 DEF Better, Beats
  <2>5. Cardinality(B) \in Nat
    BY BetterIsFinite
  <2> HIDE DEF B
  <2>6. Cardinality(B) <= Cardinality((1..n) \ {i})
    BY <2>2, <2>4, FS_Subset
  <2> QED
    BY <2>2, <2>5, <2>6 DEF B, Place
<1>2. ASSUME NEW i \in 1..n, NEW j \in 1..n, i # j
      PROVE  Beats(key, i, j) \/ Beats(key, j, i)
  <2>1. key[i] \in Nat /\ key[j] \in Nat
    OBVIOUS
  <2> QED
    BY <1>2, <2>1 DEF Beats
<1>3. ASSUME NEW i \in 1..n, NEW j \in 1..n
      PROVE  /\ Place(key, n, i) \in Nat /\ Place(key, n, j) \in Nat
             /\ Beats(key, j, i) => Place(key, n, j) < Place(key, n, i)
             /\ Beats(key, i, j) => Place(key, n, i) < Place(key, n, j)
  BY BetterIsFinite, BeatsIsLower
<1>4. ASSUME NEW i \in 1..n, NEW j \in 1..n, Place(key, n, i) = Place(key, n, j)
      PROVE  i = j
  BY <1>2, <1>3, <1>4
<1>5. ASSUME NEW i \in 1..n, NEW j \in 1..n, Place(key, n, j) < Place(key, n, i)
      PROVE  Beats(key, j, i)
  <2>1. i # j
    BY <1>3, <1>5
  <2> QED
    BY <1>2, <1>3, <1>5, <2>1
<1> DEFINE place == [i \in 1..n |-> Place(key, n, i)]
<1>6. place \in [1..n -> 1..n]
  BY <1>1
<1>7. \A i, j \in 1..n : place[i] = place[j] => i = j
  BY <1>4
<1> HIDE DEF place
<1>8. place \in Injection(1..n, 1..n)
  BY <1>6, <1>7 DEF Injection, IsInjective
<1>9. place \in Surjection(1..n, 1..n)
  <2>1. IsFiniteSet(1..n)
    BY FS_Interval
  <2> QED
    BY <1>8, <2>1, FS_Injection
<1>10. \A k \in 1..n : \E i \in 1..n : place[i] = k
  BY <1>9 DEF Surjection
<1> QED
  BY <1>1, <1>4, <1>5, <1>10 DEF place

-----------------------------------------------------------------------------

\* The keys that Outranks compares.
Keys(q) == [k \in DOMAIN q.hits |-> IF q.score = <<>> THEN 0 ELSE SortKey(q.score[k])]

Ordered(q) == IF q.score = <<>> THEN q.hits ELSE Ranked(q.hits, q.score)

\* What the reranker leaves: no scores, or one for each hit.
Scored(q) ==
    /\ q.hits \in Seq(Chunks)
    /\ q.score = <<>> \/ q.score \in [DOMAIN q.hits -> Scores \cup {NaN}]

\* A hit stands at its place.
LEMMA OrderedByPlace ==
    ASSUME NEW q, Scored(q)
    PROVE  /\ Len(q.hits) \in Nat /\ DOMAIN q.hits = 1..Len(q.hits)
           /\ Keys(q) \in [1..Len(q.hits) -> Nat]
           /\ \A i, j \in DOMAIN q.hits : Outranks(q, j, i) <=> Beats(Keys(q), j, i)
           /\ Ordered(q) \in Seq(Chunks) /\ Len(Ordered(q)) = Len(q.hits)
           /\ \A i \in DOMAIN q.hits :
                 Ordered(q)[Place(Keys(q), Len(q.hits), i)] = q.hits[i]
<1> DEFINE n == Len(q.hits)
           hits == q.hits
           score == q.score
           key == Keys(q)
<1>1. hits \in Seq(Chunks) /\ n \in Nat /\ DOMAIN hits = 1..n
  BY DEF Scored
<1>2. \A k \in 1..n : score # <<>> => SortKey(score[k]) \in Nat
  <2> SUFFICES ASSUME NEW k \in 1..n, score # <<>> PROVE SortKey(score[k]) \in Nat
    OBVIOUS
  <2>1. score \in [1..n -> Scores \cup {NaN}]
    BY <1>1 DEF Scored
  <2>2. score[k] \in Scores \cup {NaN}
    BY <2>1
  <2> QED
    BY <2>2, AnswersAssumption DEF SortKey
<1>3. key = [k \in 1..n |-> IF score = <<>> THEN 0 ELSE SortKey(score[k])]
  BY <1>1 DEF Keys
<1>4. key \in [1..n -> Nat]
  BY <1>2, <1>3
<1>5. \A i, j \in 1..n : Outranks(q, j, i) <=> Beats(key, j, i)
  BY <1>3 DEF Outranks, Beats
<1>6. CASE score = <<>>
  <2>1. Ordered(q) = hits
    BY <1>6 DEF Ordered
  <2>2. ASSUME NEW i \in 1..n PROVE Place(key, n, i) = i
    <3>1. \A j \in 1..n : key[j] = 0
      BY <1>3, <1>6
    <3>2. Better(key, n, i) = 1..(i - 1)
      BY <1>1, <3>1 DEF Better, Beats
    <3>3. Cardinality(1..(i - 1)) = i - 1
      <4>1. 1 \in Int /\ i - 1 \in Int /\ i \in Nat
        BY <1>1
      <4>2. Cardinality(1..(i - 1)) = IF 1 > i - 1 THEN 0 ELSE (i - 1) - 1 + 1
        BY <4>1, FS_Interval
      <4> QED
        BY <1>1, <4>1, <4>2
    <3> QED
      BY <1>1, <3>2, <3>3 DEF Place
  <2> HIDE DEF key, hits, n
  <2>3. \A i \in 1..n : Ordered(q)[Place(key, n, i)] = hits[i]
    BY <2>1, <2>2
  <2> QED
    BY <1>1, <1>4, <1>5, <2>1, <2>3 DEF hits, n, key
<1>7. CASE score # <<>>
  <2> DEFINE Before(j, i) == SortKey(score[j]) > SortKey(score[i])
                             \/ (SortKey(score[j]) = SortKey(score[i]) /\ j < i)
             RankOf(i) == 1 + Cardinality({j \in DOMAIN hits : Before(j, i)})
  <2>1. Ordered(q) = [k \in 1..n |-> hits[CHOOSE i \in 1..n : RankOf(i) = k]]
    BY <1>1, <1>7 DEF Ordered, Ranked
  <2>2. ASSUME NEW i \in 1..n PROVE RankOf(i) = Place(key, n, i)
    <3>1. \A j \in 1..n : Before(j, i) <=> Beats(key, j, i)
      BY <1>3, <1>7 DEF Beats
    <3> HIDE DEF Before
    <3>2. {j \in DOMAIN hits : Before(j, i)} = Better(key, n, i)
      BY <1>1, <3>1 DEF Better
    <3> QED
      BY <3>2 DEF Place
  <2> HIDE DEF key, hits, n, RankOf
  <2>3. /\ \A i \in 1..n : Place(key, n, i) \in 1..n
        /\ \A i \in 1..n, j \in 1..n : Place(key, n, i) = Place(key, n, j) => i = j
        /\ \A k \in 1..n : \E i \in 1..n : Place(key, n, i) = k
    BY <1>1, <1>4, PlacesAreAPermutation
  <2>4. ASSUME NEW i \in 1..n PROVE Ordered(q)[Place(key, n, i)] = hits[i]
    <3>1. Place(key, n, i) \in 1..n
      BY <2>3
    <3>2. (CHOOSE j \in 1..n : RankOf(j) = Place(key, n, i)) = i
      BY <2>2, <2>3
    <3> QED
      BY <2>1, <3>1, <3>2
  <2>5. \A k \in 1..n : (CHOOSE i \in 1..n : RankOf(i) = k) \in 1..n
    BY <2>2, <2>3
  <2>6. Ordered(q) \in Seq(Chunks) /\ Len(Ordered(q)) = n
    <3>1. \A i \in 1..n : hits[i] \in Chunks
      BY <1>1
    <3> DEFINE at(k) == hits[CHOOSE i \in 1..n : RankOf(i) = k]
    <3>2. \A k \in 1..n : at(k) \in Chunks
      BY <2>5, <3>1
    <3>3. Ordered(q) = [k \in 1..n |-> at(k)]
      BY <2>1
    <3> HIDE DEF at
    <3> QED
      BY <1>1, <3>2, <3>3
  <2> QED
    BY <1>1, <1>4, <1>5, <2>4, <2>6 DEF hits, n, key
<1> QED
  BY <1>6, <1>7

-----------------------------------------------------------------------------

\* A prefix has the length asked for, or all there is.
LEMMA PrefixProperties ==
    ASSUME NEW s \in Seq(Chunks), NEW n \in Nat
    PROVE  /\ Prefix(s, n) \in Seq(Chunks)
           /\ Len(Prefix(s, n)) <= n /\ Len(Prefix(s, n)) <= Len(s)
           /\ Len(Prefix(s, n)) = n \/ Len(Prefix(s, n)) = Len(s)
           /\ \A k \in 1..Len(Prefix(s, n)) : Prefix(s, n)[k] = s[k]
<1>1. PICK m : m \in Nat /\ m = Min({n, Len(s)}) /\ m <= n /\ m <= Len(s) /\ (m = n \/ m = Len(s))
  <2> DEFINE m == IF n <= Len(s) THEN n ELSE Len(s)
  <2>1. Len(s) \in Nat
    OBVIOUS
  <2>2. m \in {n, Len(s)} /\ \A y \in {n, Len(s)} : m <= y
    BY <2>1
  <2>3. \A x \in {n, Len(s)} : (\A y \in {n, Len(s)} : x <= y) => x = m
    BY <2>1, <2>2
  <2>4. Min({n, Len(s)}) = m
    BY <2>2, <2>3 DEF Min
  <2> QED
    BY <2>1, <2>2, <2>4
<1>2. Prefix(s, n) = SubSeq(s, 1, m)
  BY <1>1 DEF Prefix
<1>3. /\ SubSeq(s, 1, m) \in Seq(Chunks)
      /\ Len(SubSeq(s, 1, m)) = m
      /\ \A i \in 1..m : SubSeq(s, 1, m)[i] = s[i]
  <2>1. \A i \in 1..m : s[i] \in Chunks
    BY <1>1
  <2>2. m - 1 + 1 = m /\ (1 > m => m = 0) /\ 1 \in Int /\ m \in Int
    BY <1>1
  <2>3. \A i \in 1..m : 1 + i - 1 = i
    OBVIOUS
  <2> QED
    BY <2>1, <2>2, <2>3, SubSeqProperties
<1> QED
  BY <1>1, <1>2, <1>3

-----------------------------------------------------------------------------

\* A question that is being answered: its chunks are the first of its hits in
\* the order that the scores give.
Answerable(q) ==
    /\ Scored(q)
    /\ q.topK \in Nat \ {0}
    /\ q.extra \in Nat
    /\ q.chunks = Prefix(Ordered(q), q.topK)

\* The entries are the chunks, then texts that no stored chunk equals.
LEMMA EntriesProperties ==
    ASSUME NEW q, q.chunks \in Seq(Chunks), q.extra \in Nat
    PROVE  /\ Sized(Entries(q)) /\ DOMAIN Entries(q) = 1..Len(Entries(q))
           /\ Len(Entries(q)) = Len(q.chunks) + q.extra
           /\ \A k \in 1..Len(q.chunks) : Entries(q)[k] = q.chunks[k]
           /\ \A k \in 1..Len(Entries(q)) : k > Len(q.chunks) => Entries(q)[k] \notin Chunks
<1> DEFINE Web == [id : Int, size : Nat]
           web == [k \in 1..q.extra |-> [id |-> -k, size |-> WebSize]]
           E == Entries(q)
<1>1. Chunks \subseteq [id : Nat \ {0}, size : Nat] /\ WebSize \in Nat
  BY AnswersAssumption
<1>2. Chunks \subseteq Web
  <2>1. [id : Nat \ {0}, size : Nat] \subseteq Web
    <3> SUFFICES ASSUME NEW c \in [id : Nat \ {0}, size : Nat] PROVE c \in Web
      OBVIOUS
    <3>1. c = [id |-> c.id, size |-> c.size] /\ c.id \in Int /\ c.size \in Nat
      OBVIOUS
    <3> QED
      BY <3>1
  <2> QED
    BY <1>1, <2>1
<1>3. web \in Seq(Web) /\ Len(web) = q.extra
  <2>1. ASSUME NEW k \in 1..q.extra PROVE [id |-> -k, size |-> WebSize] \in Web
    <3>1. -k \in Int
      OBVIOUS
    <3> QED
      BY <1>1, <3>1
  <2> HIDE DEF Web
  <2> QED
    BY <2>1
<1>4. q.chunks \in Seq(Web)
  <2> HIDE DEF Web
  <2>1. \A k \in 1..Len(q.chunks) : q.chunks[k] \in Web
    BY <1>2
  <2> QED
    BY <2>1, ElementOfSeq
<1>5. E = q.chunks \o web
  BY DEF Entries
<1>6. \A k \in 1..q.extra : web[k].id = -k
  OBVIOUS
<1>7. \A c \in Chunks : c.id \in Nat \ {0}
  BY <1>1
<1>12. \A w \in Web : w.size \in Nat
  OBVIOUS
<1> HIDE DEF web, E, Web
<1>8. E \in Seq(Web) /\ Len(E) = Len(q.chunks) + q.extra /\ Len(q.chunks) \in Nat
  <2>1. Len(q.chunks) \in Nat
    BY <1>4
  <2>2. q.chunks \o web \in Seq(Web) /\ Len(q.chunks \o web) = Len(q.chunks) + Len(web)
    BY <1>3, <1>4, ConcatProperties
  <2> QED
    BY <1>3, <1>5, <2>1, <2>2
<1>13. \A k \in 1..Len(E) :
          E[k] = IF k <= Len(q.chunks) THEN q.chunks[k] ELSE web[k - Len(q.chunks)]
  <2>1. \A k \in 1..Len(q.chunks) + Len(web) :
           (q.chunks \o web)[k] = IF k <= Len(q.chunks) THEN q.chunks[k] ELSE web[k - Len(q.chunks)]
    BY <1>3, <1>4, ConcatProperties
  <2> QED
    BY <1>3, <1>5, <1>8, <2>1
<1>9. \A k \in 1..Len(q.chunks) : E[k] = q.chunks[k]
  BY <1>8, <1>13
<1>10. ASSUME NEW k \in 1..Len(E), k > Len(q.chunks) PROVE E[k] \notin Chunks
  <2>1. E[k] = web[k - Len(q.chunks)] /\ k - Len(q.chunks) \in 1..q.extra
    BY <1>8, <1>10, <1>13
  <2>2. E[k].id = -(k - Len(q.chunks))
    BY <1>6, <2>1
  <2> QED
    BY <1>7, <1>8, <2>1, <2>2
<1>11. Sized(E)
  <2>1. \A k \in 1..Len(E) : E[k] \in Web
    BY <1>8
  <2> QED
    BY <1>8, <1>12, <2>1 DEF Sized
<1> QED
  BY <1>8, <1>9, <1>10, <1>11 DEF E

\* The two properties of one question.
Best(q) ==
    LET context == {Entries(q)[k] : k \in BuildContext(q)}
        Ahead(i) == {j \in DOMAIN q.hits : Outranks(q, j, i)}
    IN \A i \in DOMAIN q.hits :
         q.hits[i] \in context \/ q.hits[i].size = 0
         \/ /\ \A e \in context : e \in Chunks =>
                 \E j \in DOMAIN q.hits : q.hits[j] = e /\ j \in Ahead(i)
            /\ Cardinality(Ahead(i)) < q.topK => context \subseteq Chunks

Full(q) ==
    LET entries == Entries(q)
        context == BuildContext(q)
        left == {k \in DOMAIN entries : entries[k].size > 0} \ context
        size == TotalSize(entries, context)
    IN /\ size <= MaxContext
       /\ \A k \in left : size + entries[k].size > MaxContext \/ \E j \in left : j < k

\* The context takes the entries with text up to some place.
LEMMA ContextEnds ==
    ASSUME NEW q, Answerable(q)
    PROVE  /\ q.chunks \in Seq(Chunks) /\ Sized(Entries(q))
           /\ \E b \in 0..Len(Entries(q)) :
                /\ BuildContext(q) = Filled(Entries(q), b)
                /\ TotalSize(Entries(q), BuildContext(q)) \in Nat
                /\ TotalSize(Entries(q), BuildContext(q)) <= MaxContext
                /\ b < Len(Entries(q)) =>
                      /\ Entries(q)[b + 1].size > 0
                      /\ TotalSize(Entries(q), BuildContext(q)) + Entries(q)[b + 1].size > MaxContext
<1>1. Ordered(q) \in Seq(Chunks) /\ q.topK \in Nat /\ q.extra \in Nat
  BY OrderedByPlace DEF Answerable
<1>2. q.chunks \in Seq(Chunks)
  BY <1>1, PrefixProperties DEF Answerable
<1>3. Sized(Entries(q))
  BY <1>1, <1>2, EntriesProperties
<1>4. BuildContext(q) = Spending(Entries(q))[Len(Entries(q))].taken
  BY DEF BuildContext
<1> QED
  BY <1>2, <1>3, <1>4, TakenIsFull

\* What is left out of the context would not have fitted.
LEMMA AnswerableIsFull == ASSUME NEW q, Answerable(q) PROVE Full(q)
<1> DEFINE E == Entries(q)
           T == BuildContext(q)
           size == TotalSize(E, T)
           left == {k \in DOMAIN E : E[k].size > 0} \ T
<1>1. PICK b \in 0..Len(E) :
         /\ T = Filled(E, b) /\ size \in Nat /\ size <= MaxContext
         /\ b < Len(E) => E[b + 1].size > 0 /\ size + E[b + 1].size > MaxContext
  BY ContextEnds
<1>2. DOMAIN E = 1..Len(E) /\ Len(E) \in Nat
  BY ContextEnds, EntriesProperties DEF Answerable, Sized
<1> HIDE DEF E, T, size
<1>3. ASSUME NEW k \in left PROVE size + E[k].size > MaxContext \/ \E j \in left : j < k
  <2>1. k \in 1..Len(E) /\ E[k].size > 0 /\ k \notin T
    BY <1>2
  <2>2. k > b
    BY <1>1, <1>2, <2>1 DEF Filled
  <2>3. b < Len(E) /\ b + 1 \in 1..Len(E)
    BY <1>2, <2>1, <2>2
  <2>4. CASE k = b + 1
    BY <1>1, <2>3, <2>4
  <2>5. CASE k # b + 1
    <3>1. b + 1 < k
      BY <1>2, <2>1, <2>2, <2>5
    <3>2. b + 1 \notin T
      BY <1>1 DEF Filled
    <3> QED
      BY <1>1, <1>2, <2>3, <3>1, <3>2
  <2> QED
    BY <2>4, <2>5
<1> QED
  BY <1>1, <1>3 DEF Full, E, T, size

\* What is in the context ranks before the hits that are not.
LEMMA AnswerableIsBest == ASSUME NEW q, Answerable(q) PROVE Best(q)
<1> DEFINE n == Len(q.hits)
           key == Keys(q)
           ordered == Ordered(q)
           E == Entries(q)
           T == BuildContext(q)
           context == {E[k] : k \in T}
           Ahead(i) == {j \in DOMAIN q.hits : Outranks(q, j, i)}
<1>1. /\ n \in Nat /\ DOMAIN q.hits = 1..n /\ key \in [1..n -> Nat]
      /\ \A i, j \in DOMAIN q.hits : Outranks(q, j, i) <=> Beats(key, j, i)
      /\ ordered \in Seq(Chunks) /\ Len(ordered) = n
      /\ \A i \in DOMAIN q.hits : ordered[Place(key, n, i)] = q.hits[i]
  BY OrderedByPlace DEF Answerable
<1>2. /\ \A i \in 1..n : Place(key, n, i) \in 1..n
      /\ \A k \in 1..n : \E i \in 1..n : Place(key, n, i) = k
      /\ \A i \in 1..n, j \in 1..n : Place(key, n, j) < Place(key, n, i) => Beats(key, j, i)
  BY <1>1, PlacesAreAPermutation
<1>3. /\ q.chunks \in Seq(Chunks) /\ Len(q.chunks) <= q.topK /\ Len(q.chunks) <= n
      /\ Len(q.chunks) = q.topK \/ Len(q.chunks) = n
      /\ \A k \in 1..Len(q.chunks) : q.chunks[k] = ordered[k]
      /\ q.topK \in Nat /\ q.extra \in Nat
  <2>1. q.topK \in Nat /\ q.extra \in Nat /\ q.chunks = Prefix(ordered, q.topK)
    BY DEF Answerable
  <2> HIDE DEF ordered
  <2> QED
    BY <1>1, <2>1, PrefixProperties
<1>4. /\ Sized(E) /\ DOMAIN E = 1..Len(E) /\ Len(E) = Len(q.chunks) + q.extra
      /\ \A k \in 1..Len(q.chunks) : E[k] = q.chunks[k]
      /\ \A k \in 1..Len(E) : k > Len(q.chunks) => E[k] \notin Chunks
  BY <1>3, EntriesProperties
<1>5. PICK b \in 0..Len(E) : T = Filled(E, b)
  BY ContextEnds
<1>6. Len(q.chunks) \in Nat /\ Len(E) \in Nat
  BY <1>3, <1>4
<1>7. \A i \in 1..n : Ahead(i) = Better(key, n, i)
  BY <1>1 DEF Better
<1> HIDE DEF n, key, ordered, E, T, Ahead
<1>8. ASSUME NEW i \in 1..n, q.hits[i] \notin context, q.hits[i].size # 0
      PROVE  /\ \A e \in context : e \in Chunks =>
                   \E j \in 1..n : q.hits[j] = e /\ j \in Ahead(i)
             /\ Cardinality(Ahead(i)) < q.topK => context \subseteq Chunks
  <2> DEFINE p == Place(key, n, i)
  <2>1. p \in 1..n /\ ordered[p] = q.hits[i] /\ p = 1 + Cardinality(Ahead(i))
    BY <1>1, <1>2, <1>7 DEF Place
  <2> HIDE DEF p
  <2>2. q.hits[i] \in Chunks /\ q.hits[i].size \in Nat
    <3>1. q.hits[i] \in Chunks
      BY <1>1, <2>1
    <3>2. \A c \in Chunks : c.size \in Nat
      BY AnswersAssumption
    <3> QED
      BY <3>1, <3>2
  \* The place of the hit is behind the context, or cut off.
  <2>3. p <= Len(q.chunks) => b < p
    <3> SUFFICES ASSUME p <= Len(q.chunks), p <= b PROVE FALSE
      BY <1>6, <2>1
    <3>1. E[p] = q.hits[i]
      BY <1>3, <1>4, <2>1
    <3>2. p \in Filled(E, b)
      BY <1>6, <1>8, <2>1, <2>2, <3>1 DEF Filled
    <3> QED
      BY <1>5, <1>8, <3>1, <3>2
  <2>4. ASSUME NEW k \in T PROVE k \in 1..b /\ k \in 1..Len(E) /\ k \in Nat
    BY <1>5, <1>6 DEF Filled
  <2>5. ASSUME NEW k \in T, E[k] \in Chunks
        PROVE  \E j \in 1..n : q.hits[j] = E[k] /\ j \in Ahead(i)
    <3>1. k <= Len(q.chunks) /\ k \in 1..Len(q.chunks)
      BY <1>4, <1>6, <2>4, <2>5
    <3>2. k < p
      BY <1>6, <2>1, <2>3, <2>4, <3>1
    <3>3. k \in 1..n
      BY <1>1, <1>3, <1>6, <3>1
    <3>4. PICK j \in 1..n : Place(key, n, j) = k
      BY <1>2, <3>3
    <3>5. Beats(key, j, i)
      BY <1>2, <3>2, <3>4 DEF p
    <3>6. q.hits[j] = E[k]
      BY <1>1, <1>3, <1>4, <3>1, <3>4
    <3>7. j \in Ahead(i)
      BY <1>7, <3>5 DEF Better
    <3> QED
      BY <3>6, <3>7
  <2>6. ASSUME Cardinality(Ahead(i)) < q.topK, NEW k \in T
        PROVE  E[k] \in Chunks
    <3>1. Cardinality(Ahead(i)) \in Nat
      BY <1>1, <1>7, BetterIsFinite
    <3>2. p <= Len(q.chunks)
      BY <1>1, <1>3, <1>6, <2>1, <2>6, <3>1
    <3>3. k <= Len(q.chunks) /\ k \in 1..Len(q.chunks)
      BY <1>5, <1>6, <2>1, <2>3, <2>4, <3>2
    <3>4. E[k] = q.chunks[k]
      BY <1>4, <3>3
    <3> QED
      BY <1>3, <3>3, <3>4
  <2> QED
    BY <2>5, <2>6
<1>9. \A i \in 1..n : \/ q.hits[i] \in context \/ q.hits[i].size = 0
                      \/ /\ \A e \in context : e \in Chunks =>
                              \E j \in 1..n : q.hits[j] = e /\ j \in Ahead(i)
                         /\ Cardinality(Ahead(i)) < q.topK => context \subseteq Chunks
  BY <1>8
<1> QED
  BY <1>1, <1>9 DEF Best, n, E, T, Ahead

\* The chunks of an answer are among the hits.
LEMMA ChunksAreHits ==
    ASSUME NEW q, Answerable(q)
    PROVE  ToSet(q.chunks) \subseteq ToSet(q.hits)
<1> DEFINE n == Len(q.hits)
           key == Keys(q)
           ordered == Ordered(q)
<1>1. /\ n \in Nat /\ DOMAIN q.hits = 1..n /\ key \in [1..n -> Nat]
      /\ ordered \in Seq(Chunks) /\ Len(ordered) = n
      /\ \A i \in 1..n : ordered[Place(key, n, i)] = q.hits[i]
  BY OrderedByPlace DEF Answerable
<1>2. \A k \in 1..n : \E i \in 1..n : Place(key, n, i) = k
  BY <1>1, PlacesAreAPermutation
<1>3. q.topK \in Nat /\ q.chunks = Prefix(ordered, q.topK)
  BY DEF Answerable
<1> HIDE DEF ordered
<1>4. /\ q.chunks \in Seq(Chunks) /\ Len(q.chunks) <= Len(ordered)
      /\ \A k \in 1..Len(q.chunks) : q.chunks[k] = ordered[k]
  BY <1>1, <1>3, PrefixProperties
<1> HIDE DEF key, n
<1>5. ASSUME NEW k \in DOMAIN q.chunks PROVE q.chunks[k] \in ToSet(q.hits)
  <2>1. k \in 1..Len(q.chunks) /\ k \in 1..n
    BY <1>1, <1>4
  <2>2. PICK i \in 1..n : Place(key, n, i) = k
    BY <1>2, <2>1
  <2>3. q.chunks[k] = q.hits[i]
    BY <1>1, <1>4, <2>1, <2>2
  <2> QED
    BY <1>1, <2>3 DEF ToSet
<1> QED
  BY <1>5 DEF ToSet

-----------------------------------------------------------------------------

Stages == {"new", "expanding", "searching", "web", "ranking", "answering", "answered"}

Questions == [topK : Nat \ {0}, web : BOOLEAN, attempts : 0..(MaxAttempts - 1),
              hits : Seq(Chunks), score : Seq(Scores \cup {NaN}), chunks : Seq(Chunks),
              extra : Nat]

\* What is known of a question at a stage: the scores and the chunks come with
\* the answer, and the reranker is asked about something.
Fits(s, q) ==
    /\ q \in Questions
    /\ s = "answering" => Answerable(q)
    /\ s # "answering" => q.score = <<>> /\ q.chunks = <<>>
    /\ s = "ranking" => Len(q.hits) >= MinForRerank

QuestionInv ==
    /\ model \in {"unloaded", "loaded", "failed"}
    /\ stage \in [Requests -> Stages]
    /\ question \in [Requests -> Questions]
    /\ \A r \in Requests : Fits(stage[r], question[r])

\* The reranker's lock is held or waited for by the requests that rank, each of
\* them once.
LockInv ==
    /\ lock \in Seq(Requests)
    /\ IsInjective(lock)
    /\ \A r \in Requests : stage[r] = "ranking" <=> \E k \in 1..Len(lock) : lock[k] = r

SearchInv == search \in [Requests -> {"off", "brave", "fallback", "fetching", "over"}]

AnswersInv == WebInv /\ SearchInv /\ QuestionInv /\ LockInv

-----------------------------------------------------------------------------

\* A question that is not known yet fits most stages.
LEMMA NewQuestionFits ==
    ASSUME NEW s, s \notin {"answering", "ranking"}
    PROVE  Fits(s, NewQuestion)
<1>1. 0 \in 0..(MaxAttempts - 1)
  BY AnswersAssumption
<1> QED
  BY <1>1 DEF Fits, NewQuestion, Questions

\* One question moves on.
LEMMA QuestionMoves ==
    ASSUME QuestionInv, NEW r \in Requests, NEW s \in Stages, NEW q, Fits(s, q),
           model' = model, stage' = [stage EXCEPT ![r] = s], question' = [question EXCEPT ![r] = q]
    PROVE  QuestionInv'
<1>1. stage' \in [Requests -> Stages] /\ question' \in [Requests -> Questions]
  BY DEF QuestionInv, Fits
<1>2. ASSUME NEW p \in Requests PROVE Fits(stage'[p], question'[p])
  <2>1. CASE p = r
    BY <2>1 DEF QuestionInv
  <2>2. CASE p # r
    BY <2>2 DEF QuestionInv
  <2> QED
    BY <2>1, <2>2
<1> QED
  BY <1>1, <1>2 DEF QuestionInv

\* The lock is not touched by a request that does not rank.
LEMMA LockStays ==
    ASSUME LockInv, QuestionInv, NEW r \in Requests, NEW s, s # "ranking", stage[r] # "ranking",
           lock' = lock, stage' = [stage EXCEPT ![r] = s]
    PROVE  LockInv'
<1>1. \A p \in Requests : stage'[p] = "ranking" <=> stage[p] = "ranking"
  BY DEF QuestionInv
<1> QED
  BY <1>1 DEF LockInv, IsInjective

\* A request asks for the lock.
LEMMA LockTaken ==
    ASSUME LockInv, QuestionInv, NEW r \in Requests, stage[r] # "ranking",
           lock' = Append(lock, r), stage' = [stage EXCEPT ![r] = "ranking"]
    PROVE  LockInv'
<1>1. lock \in Seq(Requests) /\ Len(lock) \in Nat /\ DOMAIN lock = 1..Len(lock)
  BY DEF LockInv
<1>2. /\ lock' \in Seq(Requests) /\ Len(lock') = Len(lock) + 1
      /\ DOMAIN lock' = 1..(Len(lock) + 1)
      /\ \A k \in 1..Len(lock) : lock'[k] = lock[k]
      /\ lock'[Len(lock) + 1] = r
  BY <1>1, AppendProperties
<1>3. \A k \in 1..Len(lock) : lock[k] # r
  BY DEF LockInv
<1>4. ASSUME NEW a \in 1..(Len(lock) + 1), NEW b \in 1..(Len(lock) + 1), lock'[a] = lock'[b]
      PROVE  a = b
  <2>1. \A c \in 1..(Len(lock) + 1) : c \in 1..Len(lock) \/ c = Len(lock) + 1
    BY <1>1
  <2>2. \A c, d \in 1..Len(lock) : lock[c] = lock[d] => c = d
    BY <1>1 DEF LockInv, IsInjective
  <2> QED
    BY <1>2, <1>3, <1>4, <2>1, <2>2
<1>5. IsInjective(lock')
  BY <1>2, <1>4 DEF IsInjective
<1>6. ASSUME NEW p \in Requests
      PROVE  stage'[p] = "ranking" <=> \E k \in 1..Len(lock') : lock'[k] = p
  <2>1. \A k : k \in 1..(Len(lock) + 1) <=> (k \in 1..Len(lock) \/ k = Len(lock) + 1)
    BY <1>1
  <2>2. (\E k \in 1..Len(lock') : lock'[k] = p) <=> (p = r \/ \E k \in 1..Len(lock) : lock[k] = p)
    BY <1>2, <2>1
  <2>3. stage'[p] = "ranking" <=> (p = r \/ stage[p] = "ranking")
    BY DEF QuestionInv
  <2> QED
    BY <2>2, <2>3 DEF LockInv
<1> QED
  BY <1>2, <1>5, <1>6 DEF LockInv

\* The request that holds the lock lets the next one have it.
LEMMA LockPassedOn ==
    ASSUME LockInv, QuestionInv, NEW r \in Requests, stage[r] = "ranking", Head(lock) = r,
           NEW s, s # "ranking", lock' = Tail(lock), stage' = [stage EXCEPT ![r] = s]
    PROVE  LockInv'
<1>1. lock \in Seq(Requests) /\ Len(lock) \in Nat /\ DOMAIN lock = 1..Len(lock)
  BY DEF LockInv
<1>2. lock # <<>> /\ Len(lock) >= 1
  BY <1>1 DEF LockInv
<1>3. /\ lock' \in Seq(Requests) /\ Len(lock') = Len(lock) - 1
      /\ DOMAIN lock' = 1..(Len(lock) - 1)
      /\ \A k \in 1..(Len(lock) - 1) : lock'[k] = lock[k + 1]
      /\ lock[1] = r
  <2>1. /\ Tail(lock) \in Seq(Requests) /\ Len(Tail(lock)) = Len(lock) - 1
        /\ \A k \in 1..Len(Tail(lock)) : Tail(lock)[k] = lock[k + 1]
    BY <1>1, <1>2, HeadTailProperties
  <2>2. Head(lock) = lock[1]
    BY <1>1, <1>2
  <2> QED
    BY <2>1, <2>2
<1>4. \A c, d \in 1..Len(lock) : lock[c] = lock[d] => c = d
  BY <1>1 DEF LockInv, IsInjective
<1>5. IsInjective(lock')
  <2> SUFFICES ASSUME NEW a \in 1..(Len(lock) - 1), NEW b \in 1..(Len(lock) - 1), lock'[a] = lock'[b]
               PROVE  a = b
    BY <1>3 DEF IsInjective
  <2>1. a + 1 \in 1..Len(lock) /\ b + 1 \in 1..Len(lock)
    BY <1>1
  <2>2. a + 1 = b + 1
    BY <1>3, <1>4, <2>1
  <2> QED
    BY <2>2
<1>6. ASSUME NEW p \in Requests
      PROVE  stage'[p] = "ranking" <=> \E k \in 1..Len(lock') : lock'[k] = p
  <2>1. stage'[p] = "ranking" <=> (p # r /\ stage[p] = "ranking")
    BY DEF QuestionInv
  <2>2. ASSUME NEW k \in 1..Len(lock), lock[k] = p, p # r
        PROVE  \E j \in 1..Len(lock') : lock'[j] = p
    <3>1. k # 1
      BY <1>3, <2>2
    <3>2. k - 1 \in 1..(Len(lock) - 1) /\ (k - 1) + 1 = k
      BY <1>1, <3>1
    <3> QED
      BY <1>3, <2>2, <3>2
  <2>3. ASSUME NEW j \in 1..Len(lock'), lock'[j] = p
        PROVE  p # r /\ \E k \in 1..Len(lock) : lock[k] = p
    <3>1. j + 1 \in 1..Len(lock) /\ 1 \in 1..Len(lock) /\ j + 1 # 1
      BY <1>1, <1>2, <1>3
    <3>2. lock[j + 1] = p
      BY <1>3, <2>3
    <3> QED
      BY <1>3, <1>4, <3>1, <3>2
  <2> QED
    BY <2>1, <2>2, <2>3 DEF LockInv
<1> QED
  BY <1>3, <1>5, <1>6 DEF LockInv

-----------------------------------------------------------------------------

LEMMA InitAnswersInv == Init => AnswersInv
<1> SUFFICES ASSUME Init PROVE AnswersInv
  OBVIOUS
<1>1. WebInv
  BY InitWebInv, WebAssumption DEF Init
<1>2. SearchInv
  BY DEF Init, WebInit, SearchInv
<1>3. Fits("new", NewQuestion)
  BY NewQuestionFits
<1>4. QuestionInv
  <2>1. NewQuestion \in Questions
    BY <1>3 DEF Fits
  <2> QED
    BY <1>3, <2>1 DEF Init, QuestionInv, Stages
<1>5. LockInv
  BY DEF Init, LockInv, IsInjective
<1> QED
  BY <1>1, <1>2, <1>4, <1>5 DEF AnswersInv

\* A request that does not rank gets its answer.
LEMMA AnswerPreserves ==
    ASSUME QuestionInv, LockInv, NEW r \in Requests, stage[r] # "ranking",
           Answer(r), model' = model, lock' = lock
    PROVE  QuestionInv' /\ LockInv'
<1>1. Fits("answered", NewQuestion) /\ "answered" \in Stages
  BY NewQuestionFits DEF Stages
<1>2. stage' = [stage EXCEPT ![r] = "answered"] /\ question' = [question EXCEPT ![r] = NewQuestion]
  BY DEF Answer, GoTo, Note
<1>3. QuestionInv'
  BY <1>1, <1>2, QuestionMoves
<1>4. LockInv'
  BY <1>2, LockStays
<1> QED
  BY <1>3, <1>4

\* A question with its hits goes to the reranker or is answered from them.
LEMMA RankOrLockPreserves ==
    ASSUME QuestionInv, LockInv, NEW r \in Requests, stage[r] # "ranking", model' = model,
           NEW q, Fits("web", q), RankOrLock(r, q)
    PROVE  QuestionInv' /\ LockInv'
<1>1. q \in Questions /\ q.score = <<>> /\ q.chunks = <<>>
  BY DEF Fits
<1>2. CASE Len(q.hits) >= MinForRerank
  <2>1. /\ stage' = [stage EXCEPT ![r] = "ranking"]
        /\ question' = [question EXCEPT ![r] = q]
        /\ lock' = Append(lock, r)
    BY <1>2 DEF RankOrLock, GoTo, Note
  <2>2. Fits("ranking", q) /\ "ranking" \in Stages
    BY <1>1, <1>2 DEF Fits, Stages
  <2> QED
    BY <2>1, <2>2, QuestionMoves, LockTaken
<1>3. CASE ~(Len(q.hits) >= MinForRerank)
  <2> DEFINE new == [q EXCEPT !.chunks = Prefix(q.hits, q.topK)]
  <2>1. /\ stage' = [stage EXCEPT ![r] = "answering"]
        /\ question' = [question EXCEPT ![r] = new]
        /\ lock' = lock
    BY <1>3 DEF RankOrLock, GoTo, Rank, Note
  <2>2. q.hits \in Seq(Chunks) /\ q.topK \in Nat \ {0} /\ q.extra \in Nat
    BY <1>1 DEF Questions
  <2>3. Prefix(q.hits, q.topK) \in Seq(Chunks)
    BY <2>2, PrefixProperties
  <2>4. new \in Questions
    BY <1>1, <2>3 DEF Questions
  <2>5. /\ new.chunks = Prefix(q.hits, q.topK) /\ new.hits = q.hits /\ new.score = <<>>
        /\ new.topK = q.topK /\ new.extra = q.extra
    BY <1>1 DEF Questions
  <2> HIDE DEF new
  <2>6. Answerable(new)
    BY <2>2, <2>5 DEF Answerable, Scored, Ordered
  <2>7. Fits("answering", new) /\ "answering" \in Stages
    BY <2>4, <2>6 DEF Fits, Stages
  <2> QED
    BY <2>1, <2>7, QuestionMoves, LockStays
<1> QED
  BY <1>2, <1>3

-----------------------------------------------------------------------------

\* The actions, one by one.
LEMMA AskPreserves ==
    ASSUME QuestionInv, LockInv, NEW r \in Requests, Ask(r)
    PROVE  QuestionInv' /\ LockInv'
<1>1. stage[r] = "new" /\ model' = model /\ lock' = lock
  BY DEF Ask
<1>2. CASE Answer(r)
  BY <1>1, <1>2, AnswerPreserves
<1>3. ASSUME NEW k \in TopKs, GoTo(r, "expanding"),
             Note(r, [NewQuestion EXCEPT !.topK = k, !.web = (r \in WebUsers)])
      PROVE  QuestionInv' /\ LockInv'
  <2> DEFINE q == [NewQuestion EXCEPT !.topK = k, !.web = (r \in WebUsers)]
  <2>1. NewQuestion \in Questions /\ k \in Nat \ {0}
    <3>1. Fits("expanding", NewQuestion)
      BY NewQuestionFits
    <3> QED
      BY <3>1, AnswersAssumption DEF Fits
  <2>2. q \in Questions
    <3> DEFINE web == r \in WebUsers
    <3>1. web \in BOOLEAN
      OBVIOUS
    <3>2. q = [NewQuestion EXCEPT !.topK = k, !.web = web]
      OBVIOUS
    <3> HIDE DEF web, q
    <3> QED
      BY <2>1, <3>1, <3>2 DEF Questions
  <2>3. q.score = <<>> /\ q.chunks = <<>>
    BY DEF NewQuestion
  <2> HIDE DEF q
  <2>4. Fits("expanding", q) /\ "expanding" \in Stages
    BY <2>2, <2>3 DEF Fits, Stages
  <2>5. stage' = [stage EXCEPT ![r] = "expanding"] /\ question' = [question EXCEPT ![r] = q]
    BY <1>3 DEF GoTo, Note, q
  <2> QED
    BY <1>1, <2>4, <2>5, QuestionMoves, LockStays
<1> QED
  BY <1>2, <1>3 DEF Ask

LEMMA ExpandPreserves ==
    ASSUME QuestionInv, LockInv, NEW r \in Requests, Expand(r)
    PROVE  QuestionInv' /\ LockInv'
<1> DEFINE q == question[r]
           again == [q EXCEPT !.attempts = @ + 1]
<1>1. stage[r] = "expanding" /\ model' = model /\ lock' = lock
  BY DEF Expand
<1>2. q \in Questions /\ q.score = <<>> /\ q.chunks = <<>>
  BY <1>1 DEF QuestionInv, Fits
<1>3. CASE Answer(r)
  BY <1>1, <1>3, AnswerPreserves
<1>4. CASE GoTo(r, "searching") /\ UNCHANGED question
  <2>1. Fits("searching", q) /\ "searching" \in Stages
    BY <1>2 DEF Fits, Stages
  <2>2. stage' = [stage EXCEPT ![r] = "searching"] /\ question' = [question EXCEPT ![r] = q]
    BY <1>4 DEF GoTo, QuestionInv
  <2> QED
    BY <1>1, <2>1, <2>2, QuestionMoves, LockStays
<1>5. CASE again.attempts < MaxAttempts /\ Note(r, again) /\ UNCHANGED stage
  <2>1. q.attempts + 1 \in 0..(MaxAttempts - 1)
    BY <1>2, <1>5, AnswersAssumption DEF Questions
  <2>2. again \in Questions
    BY <1>2, <2>1 DEF Questions
  <2>3. again.score = <<>> /\ again.chunks = <<>>
    BY <1>2 DEF Questions
  <2>4. stage' = [stage EXCEPT ![r] = "expanding"] /\ question' = [question EXCEPT ![r] = again]
    BY <1>1, <1>5 DEF Note, QuestionInv
  <2> HIDE DEF again
  <2>5. Fits("expanding", again) /\ "expanding" \in Stages
    BY <2>2, <2>3 DEF Fits, Stages
  <2> QED
    BY <1>1, <2>4, <2>5, QuestionMoves, LockStays
<1> QED
  BY <1>3, <1>4, <1>5 DEF Expand

LEMMA SearchPreserves ==
    ASSUME QuestionInv, LockInv, SearchInv, NEW r \in Requests, Search(r)
    PROVE  QuestionInv' /\ LockInv' /\ SearchInv'
<1>1. stage[r] = "searching" /\ model' = model
  BY DEF Search
<1>2. CASE Answer(r) /\ UNCHANGED <<webVars, lock>>
  <2>1. SearchInv'
    BY <1>2 DEF SearchInv, webVars
  <2> QED
    BY <1>1, <1>2, <2>1, AnswerPreserves
<1>3. ASSUME NEW hits \in Hits, NEW limit, limit = Max({question[r].topK, MaxCandidates}),
             NEW q, q = [question[r] EXCEPT !.hits = Prefix(hits, limit)],
             IF Len(q.hits) < MinForWeb /\ q.web
             THEN /\ GoTo(r, "web")
                  /\ Note(r, q)
                  /\ StartSearch(r)
                  /\ UNCHANGED lock
             ELSE RankOrLock(r, q) /\ UNCHANGED webVars
      PROVE  QuestionInv' /\ LockInv' /\ SearchInv'
  <2>1. question[r] \in Questions /\ question[r].score = <<>> /\ question[r].chunks = <<>>
    BY <1>1 DEF QuestionInv, Fits
  <2>2. limit \in Nat
    <3>0. question[r].topK \in Nat
      BY <2>1 DEF Questions
    <3>1. question[r].topK \in Nat /\ MaxCandidates \in Nat
      BY <3>0, AnswersAssumption
    <3> DEFINE S == {question[r].topK, MaxCandidates}
    <3>2. \E x \in S : \A y \in S : x >= y
      BY <3>1
    <3>3. Max(S) \in S
      BY <3>2 DEF Max
    <3> QED
      BY <1>3, <3>1, <3>3
  <2>3. Prefix(hits, limit) \in Seq(Chunks)
    BY <2>2, PrefixProperties, AnswersAssumption
  <2>4. q \in Questions
    BY <1>3, <2>1, <2>3 DEF Questions
  <2>5. q.score = <<>> /\ q.chunks = <<>>
    BY <1>3, <2>1 DEF Questions
  <2>6. Fits("web", q) /\ "web" \in Stages
    BY <2>4, <2>5 DEF Fits, Stages
  <2>7. CASE Len(q.hits) < MinForWeb /\ q.web
    <3>1. /\ stage' = [stage EXCEPT ![r] = "web"] /\ question' = [question EXCEPT ![r] = q]
          /\ lock' = lock /\ search' = [search EXCEPT ![r] = "brave"]
      BY <1>3, <2>7 DEF GoTo, Note, StartSearch
    <3>2. SearchInv'
      BY <3>1 DEF SearchInv
    <3> QED
      BY <1>1, <2>6, <3>1, <3>2, QuestionMoves, LockStays
  <2>8. CASE ~(Len(q.hits) < MinForWeb /\ q.web)
    <3>1. RankOrLock(r, q) /\ search' = search
      BY <1>3, <2>8 DEF webVars
    <3>2. SearchInv'
      BY <3>1 DEF SearchInv
    <3> QED
      BY <1>1, <2>6, <3>1, <3>2, RankOrLockPreserves
  <2> QED
    BY <2>7, <2>8
<1> QED
  BY <1>2, <1>3 DEF Search

LEMMA TakeWebTextsPreserves ==
    ASSUME QuestionInv, LockInv, SearchInv, WebInv, NEW r \in Requests, TakeWebTexts(r)
    PROVE  QuestionInv' /\ LockInv' /\ SearchInv'
<1> DEFINE q == [question[r] EXCEPT !.extra = WebTexts(r)]
<1>1. stage[r] = "web" /\ model' = model /\ search' = [search EXCEPT ![r] = "off"]
      /\ RankOrLock(r, q)
  BY DEF TakeWebTexts, EndSearch
<1>2. question[r] \in Questions /\ question[r].score = <<>> /\ question[r].chunks = <<>>
  BY <1>1 DEF QuestionInv, Fits
<1>3. WebTexts(r) \in Nat
  <2>1. DOMAIN fetch[r] = 1..Len(fetch[r]) /\ Len(fetch[r]) \in Nat
    BY DEF WebInv
  <2>2. IsFiniteSet(DOMAIN fetch[r])
    BY <2>1, FS_Interval
  <2> DEFINE S == {i \in DOMAIN fetch[r] : fetch[r][i].text # NoText}
  <2>3. IsFiniteSet(S)
    BY <2>2, FS_Subset
  <2> QED
    BY <2>3, FS_CardinalityType DEF WebTexts
<1>4. q \in Questions
  BY <1>2, <1>3 DEF Questions
<1>5. q.score = <<>> /\ q.chunks = <<>>
  BY <1>2 DEF Questions
<1> HIDE DEF q
<1>6. Fits("web", q)
  BY <1>4, <1>5 DEF Fits
<1>7. SearchInv'
  BY <1>1 DEF SearchInv
<1> QED
  BY <1>1, <1>6, <1>7, RankOrLockPreserves

LEMMA RerankPreserves ==
    ASSUME QuestionInv, LockInv, NEW r \in Requests, Rerank(r)
    PROVE  QuestionInv' /\ LockInv'
<1>1. stage[r] = "ranking" /\ Head(lock) = r /\ lock' = Tail(lock) /\ model' = model
  BY DEF Rerank
<1>2. CASE Answer(r)
  <2>1. Fits("answered", NewQuestion) /\ "answered" \in Stages
    BY NewQuestionFits DEF Stages
  <2>2. stage' = [stage EXCEPT ![r] = "answered"] /\ question' = [question EXCEPT ![r] = NewQuestion]
    BY <1>2 DEF Answer, GoTo, Note
  <2>3. QuestionInv'
    BY <1>1, <2>1, <2>2, QuestionMoves
  <2> QED
    BY <1>1, <2>2, <2>3, LockPassedOn
<1>3. ASSUME NEW score \in [DOMAIN question[r].hits -> Scores \cup {NaN}],
             GoTo(r, "answering"),
             Rank(r, [question[r] EXCEPT !.score = score], Ranked(question[r].hits, score))
      PROVE  QuestionInv' /\ LockInv'
  <2> DEFINE old == question[r]
             chunks == Prefix(Ranked(old.hits, score), old.topK)
             mid == [old EXCEPT !.score = score]
             new == [mid EXCEPT !.chunks = Prefix(Ranked(old.hits, score), mid.topK)]
  <2>1. old \in Questions /\ Len(old.hits) >= MinForRerank
    BY <1>1 DEF QuestionInv, Fits
  <2>2. /\ old.hits \in Seq(Chunks) /\ Len(old.hits) \in Nat /\ Len(old.hits) >= 1
        /\ DOMAIN old.hits = 1..Len(old.hits) /\ old.topK \in Nat \ {0} /\ old.extra \in Nat
    <3>1. old.hits \in Seq(Chunks) /\ old.topK \in Nat \ {0} /\ old.extra \in Nat
      BY <2>1 DEF Questions
    <3>2. MinForRerank \in Nat /\ MinForRerank >= 1
      BY AnswersAssumption
    <3> HIDE DEF old
    <3> QED
      BY <2>1, <3>1, <3>2
  <2>3. score \in Seq(Scores \cup {NaN}) /\ score # <<>>
    BY <2>2
  <2>4. mid \in Questions
    BY <2>1, <2>3 DEF Questions
  <2>5. mid.topK = old.topK /\ mid.hits = old.hits /\ mid.score = score /\ mid.extra = old.extra
    BY <2>1 DEF Questions
  <2>6. Scored(mid)
    BY <2>2, <2>5 DEF Scored
  <2>7. Ordered(mid) = Ranked(old.hits, score) /\ Ordered(mid) \in Seq(Chunks)
    BY <2>3, <2>5, <2>6, OrderedByPlace DEF Ordered
  <2>8. chunks \in Seq(Chunks)
    BY <2>2, <2>7, PrefixProperties
  <2> HIDE DEF mid, chunks
  <2>9. new = [mid EXCEPT !.chunks = chunks]
    BY <2>5 DEF chunks
  <2> HIDE DEF new
  <2>10. new \in Questions
    BY <2>4, <2>8, <2>9 DEF Questions
  <2>11. /\ new.chunks = chunks /\ new.hits = old.hits /\ new.score = score
         /\ new.topK = old.topK /\ new.extra = old.extra
    BY <2>4, <2>5, <2>9 DEF Questions
  <2>12. Answerable(new)
    <3>1. Scored(new)
      BY <2>2, <2>11 DEF Scored
    <3>2. Ordered(new) = Ranked(old.hits, score)
      BY <2>3, <2>11 DEF Ordered
    <3> QED
      BY <2>2, <2>11, <3>1, <3>2 DEF Answerable, chunks
  <2>13. Fits("answering", new) /\ "answering" \in Stages
    BY <2>10, <2>12 DEF Fits, Stages
  <2>14. stage' = [stage EXCEPT ![r] = "answering"] /\ question' = [question EXCEPT ![r] = new]
    BY <1>3 DEF GoTo, Rank, Note, new, mid
  <2> QED
    BY <1>1, <2>13, <2>14, QuestionMoves, LockPassedOn
<1> QED
  BY <1>2, <1>3 DEF Rerank

\* A step of a web search leaves the question as it is.
LEMMA SearchWebPreserves ==
    ASSUME SearchInv, NEW r \in Requests, SearchWeb(r)
    PROVE  SearchInv'
<1>1. ASSUME NEW results, NEW next \in {"fallback", "over"}, Found(r, results, next)
      PROVE  SearchInv'
  BY <1>1 DEF Found, SearchInv
<1>2. CASE BraveSearch(r)
  BY <1>1, <1>2 DEF BraveSearch
<1>3. CASE FallbackSearch(r)
  BY <1>1, <1>3 DEF FallbackSearch
<1>4. ASSUME NEW i \in DOMAIN fetch[r],
             \/ Acquire(r, i) \/ CheckUrl(r, i) \/ FollowRedirect(r, i)
             \/ ReadPage(r, i) \/ MissPage(r, i) \/ ParsePage(r, i)
      PROVE  SearchInv'
  <2>1. search' = search
    BY <1>4 DEF Acquire, CheckUrl, FollowRedirect, ReadPage, MissPage, ParsePage
  <2> QED
    BY <2>1 DEF SearchInv
<1> QED
  BY <1>2, <1>3, <1>4 DEF SearchWeb, WebStep

LEMMA NothingMoves ==
    ASSUME SearchInv, QuestionInv, LockInv,
           stage' = stage, question' = question, lock' = lock,
           model' = model \/ model' \in {"loaded", "failed"}
    PROVE  QuestionInv' /\ LockInv'
BY DEF QuestionInv, LockInv, IsInjective

LEMMA AnswersInvPreserved == AnswersInv /\ [Next]_vars => AnswersInv'
<1> SUFFICES ASSUME AnswersInv, [Next]_vars PROVE AnswersInv'
  OBVIOUS
<1>0. WebInv /\ SearchInv /\ QuestionInv /\ LockInv
  BY DEF AnswersInv
<1>1. WebInv'
  BY <1>0, NextPreserves, WebAssumption
<1>2. CASE UNCHANGED vars
  BY <1>0, <1>1, <1>2, NothingMoves DEF vars, webVars, SearchInv, AnswersInv
<1>3. CASE WarmUp
  BY <1>0, <1>1, <1>3, NothingMoves DEF WarmUp, webVars, SearchInv, AnswersInv
<1>4. ASSUME NEW r \in Requests, Ask(r) PROVE AnswersInv'
  <2>1. search' = search
    BY <1>4 DEF Ask, webVars
  <2> QED
    BY <1>0, <1>1, <1>4, <2>1, AskPreserves DEF SearchInv, AnswersInv
<1>5. ASSUME NEW r \in Requests, Expand(r) PROVE AnswersInv'
  <2>1. search' = search
    BY <1>5 DEF Expand, webVars
  <2> QED
    BY <1>0, <1>1, <1>5, <2>1, ExpandPreserves DEF SearchInv, AnswersInv
<1>6. ASSUME NEW r \in Requests, Search(r) PROVE AnswersInv'
  BY <1>0, <1>1, <1>6, SearchPreserves DEF AnswersInv
<1>7. ASSUME NEW r \in Requests, SearchWeb(r) PROVE AnswersInv'
  <2>1. stage' = stage /\ question' = question /\ lock' = lock /\ model' = model
    BY <1>7 DEF SearchWeb
  <2> QED
    BY <1>0, <1>1, <1>7, <2>1, SearchWebPreserves, NothingMoves DEF AnswersInv
<1>8. ASSUME NEW r \in Requests, TakeWebTexts(r) PROVE AnswersInv'
  BY <1>0, <1>1, <1>8, TakeWebTextsPreserves DEF AnswersInv
<1>9. ASSUME NEW r \in Requests, Rerank(r) PROVE AnswersInv'
  <2>1. search' = search
    BY <1>9 DEF Rerank, webVars
  <2> QED
    BY <1>0, <1>1, <1>9, <2>1, RerankPreserves DEF SearchInv, AnswersInv
<1>10. ASSUME NEW r \in Requests, Generate(r) PROVE AnswersInv'
  <2>1. /\ search' = search /\ stage[r] = "answering" /\ Answer(r)
        /\ model' = model /\ lock' = lock
    BY <1>10 DEF Generate, webVars
  <2> QED
    BY <1>0, <1>1, <2>1, AnswerPreserves DEF SearchInv, AnswersInv
<1> QED
  BY <1>2, <1>3, <1>4, <1>5, <1>6, <1>7, <1>8, <1>9, <1>10 DEF Next, Step

-----------------------------------------------------------------------------

LEMMA AnswersInvariance == Spec => []AnswersInv
BY InitAnswersInv, AnswersInvPreserved, PTL DEF Spec

LEMMA InvImpliesType == AnswersInv => TypeOK
<1> SUFFICES ASSUME AnswersInv PROVE TypeOK
  OBVIOUS
<1>1. model \in {"unloaded", "loaded", "failed"} /\ stage \in [Requests -> Stages]
  BY DEF AnswersInv, QuestionInv
<1>2. ASSUME NEW r \in Requests
      PROVE  /\ question[r].attempts \in 0..(MaxAttempts - 1)
             /\ ToSet(question[r].hits) \subseteq Chunks
  <2>1. question[r] \in Questions
    BY DEF AnswersInv, QuestionInv
  <2>2. question[r].hits \in Seq(Chunks)
    BY <2>1 DEF Questions
  <2> QED
    BY <2>1, <2>2 DEF Questions, ToSet
<1>3. ASSUME NEW r \in Requests
      PROVE  ToSet(question[r].chunks) \subseteq ToSet(question[r].hits)
  <2>1. Fits(stage[r], question[r])
    BY DEF AnswersInv, QuestionInv
  <2>2. CASE stage[r] # "answering"
    BY <2>1, <2>2 DEF Fits, ToSet
  <2>3. CASE stage[r] = "answering"
    <3>1. Answerable(question[r])
      BY <2>1, <2>3 DEF Fits
    <3> QED
      BY <3>1, ChunksAreHits
  <2> QED
    BY <2>2, <2>3
<1>4. ASSUME NEW r \in Requests
      PROVE  /\ search[r] \in {"off", "brave", "fallback", "fetching", "over"}
             /\ \A i \in DOMAIN fetch[r] : fetch[r][i].requests \in 0..MaxRedirects
  <2>1. search[r] \in {"off", "brave", "fallback", "fetching", "over"}
    BY DEF AnswersInv, SearchInv
  <2>2. fetch[r] \in Seq(Fetches)
    BY DEF AnswersInv, WebInv
  <2>3. \A i \in DOMAIN fetch[r] : fetch[r][i] \in Fetches
    BY <2>2
  <2>4. \A f \in Fetches : f.requests \in 0..MaxRedirects
    BY DEF Fetches
  <2> QED
    BY <2>1, <2>3, <2>4
<1>5. /\ \A r \in Requests : stage[r] = "ranking" => r \in ToSet(lock)
      /\ IsInjective(lock)
  <2>1. lock \in Seq(Requests) /\ IsInjective(lock)
        /\ \A r \in Requests : stage[r] = "ranking" => \E k \in 1..Len(lock) : lock[k] = r
    BY DEF AnswersInv, LockInv
  <2> QED
    BY <2>1 DEF ToSet
<1> QED
  BY <1>1, <1>2, <1>3, <1>4, <1>5 DEF TypeOK, Stages

\* Every variable keeps its type, and the lock of the reranker has each request
\* that ranks in it once.
THEOREM AnswersTypeOK == Spec => []TypeOK
BY AnswersInvariance, InvImpliesType, PTL

\* The ranking of all hits decides what is in the context of an answer.
THEOREM TheBestHitsAreUsed == Spec => []ContextIsTheBest
<1>1. AnswersInv => ContextIsTheBest
  <2> SUFFICES ASSUME AnswersInv, NEW r \in Requests, stage[r] = "answering"
               PROVE  Best(question[r])
    BY DEF ContextIsTheBest, Best
  <2>1. Answerable(question[r])
    BY DEF AnswersInv, QuestionInv, Fits
  <2> QED
    BY <2>1, AnswerableIsBest
<1> QED
  BY <1>1, AnswersInvariance, PTL

\* The context keeps to its budget, and leaves out only what does not fit.
THEOREM TheContextIsFull == Spec => []ContextIsFull
<1>1. AnswersInv => ContextIsFull
  <2> SUFFICES ASSUME AnswersInv, NEW r \in Requests, stage[r] = "answering"
               PROVE  Full(question[r])
    BY DEF ContextIsFull, Full
  <2>1. Answerable(question[r])
    BY DEF AnswersInv, QuestionInv, Fits
  <2> QED
    BY <2>1, AnswerableIsFull
<1> QED
  BY <1>1, AnswersInvariance, PTL
================================================================================
