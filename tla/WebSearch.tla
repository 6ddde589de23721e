------------------------------- MODULE WebSearch -------------------------------
(***************************************************************************)
(* BraveAPIWebSearcher.search_web (src/rag/services/fallback): the pages   *)
(* of the search results are downloaded side by side, a few at a time, and *)
(* redirects are followed by hand so that every address is checked.  The   *)
(* search engines, the pages and the addresses of hosts are external; an   *)
(* address is taken to stay what it was when it was checked.               *)
(***************************************************************************)
EXTENDS Integers, Sequences, FiniteSets, SequencesExt

CONSTANTS
    Requests,       \* the requests that may search the web
    Urls,           \* the addresses that results and redirects name
    SafeUrls,       \* those that _is_url_safe accepts
    ResultLists,    \* bound: the results of a search engine
    MaxParallel,    \* _MAX_PARALLEL_FETCHES
    MaxRedirects    \* _MAX_REDIRECTS

ASSUME WebAssumption ==
    /\ SafeUrls \subseteq Urls
    /\ ResultLists \subseteq Seq(Urls)
    /\ MaxParallel \in Nat \ {0}
    /\ MaxRedirects \in Nat

VARIABLES
    search,    \* where the search of a request is
    fetch,     \* the fetches of a search, in the order of its results
    visited    \* history: the addresses that a search sent a request to

webVars == <<search, fetch, visited>>

-----------------------------------------------------------------------------

NoText == "none"
Text == "text"

Holding == {"checking", "requesting"}

NewFetch(url, state) == [state |-> state, url |-> url, requests |-> 0, text |-> NoText]

WebInit ==
    /\ search = [r \in Requests |-> "off"]
    /\ fetch = [r \in Requests |-> <<>>]
    /\ visited = [r \in Requests |-> {}]

-----------------------------------------------------------------------------

\* The call of search_web.
StartSearch(r) ==
    /\ search' = [search EXCEPT ![r] = "brave"]
    /\ UNCHANGED <<fetch, visited>>

\* The results of a search engine: with none, the next engine is asked.
Found(r, results, next) ==
    /\ search' = [search EXCEPT ![r] = IF results = <<>> THEN next ELSE "fetching"]
    /\ fetch' = [fetch EXCEPT ![r] = [i \in DOMAIN results |-> NewFetch(results[i], "queued")]]
    /\ UNCHANGED visited

\* A failure gives no results.
BraveSearch(r) ==
    /\ search[r] = "brave"
    /\ \E results \in ResultLists : Found(r, results, "fallback")

FallbackSearch(r) ==
    /\ search[r] = "fallback"
    /\ \E results \in ResultLists : Found(r, results, "over")

-----------------------------------------------------------------------------

FetchIs(r, i, state) == search[r] = "fetching" /\ fetch[r][i].state = state

Set(r, i, new) == fetch' = [fetch EXCEPT ![r][i] = new]

Downloading(r) == {i \in DOMAIN fetch[r] : fetch[r][i].state \in Holding}

\* Mutant: the place is free as soon as the first request was sent.
AcquireWhenIdle(r, i) ==
    /\ FetchIs(r, i, "queued")
    /\ \A j \in 1..(i - 1) : fetch[r][j].state # "queued"
    /\ Cardinality({j \in Downloading(r) : fetch[r][j].requests = 0}) < MaxParallel
    /\ Set(r, i, [fetch[r][i] EXCEPT !.state = "checking"])
    /\ UNCHANGED <<search, visited>>

\* The semaphore admits the fetches in order.
Acquire(r, i) ==
    /\ FetchIs(r, i, "queued")
    /\ \A j \in 1..(i - 1) : fetch[r][j].state # "queued"
    /\ Cardinality(Downloading(r)) < MaxParallel
    /\ Set(r, i, [fetch[r][i] EXCEPT !.state = "checking"])
    /\ UNCHANGED <<search, visited>>

\* The download gave no text: the title and the snippet of the result stand in
\* for it, unless both are empty.  The semaphore is released either way.
UseBackup(r, i) ==
    \E text \in {Text, NoText} :
        Set(r, i, [fetch[r][i] EXCEPT !.state = IF text = NoText THEN "done" ELSE "parsing",
                                      !.text = text])

\* _is_url_safe; what cannot be resolved is not safe.
CheckUrl(r, i) ==
    /\ FetchIs(r, i, "checking")
    /\ IF fetch[r][i].url \in SafeUrls
       THEN Set(r, i, [fetch[r][i] EXCEPT !.state = "requesting"])
       ELSE UseBackup(r, i)
    /\ UNCHANGED <<search, visited>>

Visit(r, i) == visited' = [visited EXCEPT ![r] = @ \cup {fetch[r][i].url}]

\* Mutant: only the address of the search result is checked.
FollowUnchecked(r, i) ==
    /\ FetchIs(r, i, "requesting")
    /\ Visit(r, i)
    /\ \E url \in Urls :
          LET count == fetch[r][i].requests + 1
          IN IF count > MaxRedirects
             THEN UseBackup(r, i)
             ELSE Set(r, i, [fetch[r][i] EXCEPT !.url = url, !.requests = count])
    /\ UNCHANGED search

\* Mutant: one redirect more.
FollowOneMore(r, i) ==
    /\ FetchIs(r, i, "requesting")
    /\ Visit(r, i)
    /\ \E url \in Urls :
          LET count == fetch[r][i].requests + 1
          IN IF count > MaxRedirects + 1
             THEN UseBackup(r, i)
             ELSE Set(r, i, [NewFetch(url, "checking") EXCEPT !.requests = count])
    /\ UNCHANGED search

\* The request is answered by a redirect.  The loop ends after MaxRedirects of
\* them.
FollowRedirect(r, i) ==
    /\ FetchIs(r, i, "requesting")
    /\ Visit(r, i)
    /\ \E url \in Urls :
          LET count == fetch[r][i].requests + 1
          IN IF count > MaxRedirects
             THEN UseBackup(r, i)
             ELSE Set(r, i, [NewFetch(url, "checking") EXCEPT !.requests = count])
    /\ UNCHANGED search

\* It is answered by a page of text.
ReadPage(r, i) ==
    /\ FetchIs(r, i, "requesting")
    /\ Visit(r, i)
    /\ Set(r, i, [fetch[r][i] EXCEPT !.state = "parsing", !.text = Text])
    /\ UNCHANGED search

\* It fails, or its answer has no use: an error status, another type than
\* HTML, an empty page, a redirect to nowhere.
MissPage(r, i) ==
    /\ FetchIs(r, i, "requesting")
    /\ Visit(r, i)
    /\ UseBackup(r, i)
    /\ UNCHANGED search

\* html_to_text, with the semaphore released.  It may fail or find no text.
ParsePage(r, i) ==
    /\ FetchIs(r, i, "parsing")
    /\ \E text \in {fetch[r][i].text, NoText} :
          Set(r, i, [fetch[r][i] EXCEPT !.state = "done", !.text = text])
    /\ UNCHANGED <<search, visited>>

\* search_web can return: there were no results, or gather has all of them.
SearchIsOver(r) ==
    \/ search[r] = "over"
    \/ search[r] = "fetching" /\ \A i \in DOMAIN fetch[r] : fetch[r][i].state = "done"

EndSearch(r) ==
    /\ search' = [search EXCEPT ![r] = "off"]
    /\ fetch' = [fetch EXCEPT ![r] = <<>>]
    /\ UNCHANGED visited

WebStep(r) ==
    \/ BraveSearch(r)
    \/ FallbackSearch(r)
    \/ \E i \in DOMAIN fetch[r] :
          \/ Acquire(r, i) \/ CheckUrl(r, i) \/ FollowRedirect(r, i)
          \/ ReadPage(r, i) \/ MissPage(r, i) \/ ParsePage(r, i)

\* How many of the results gave a text; they keep their order.
WebTexts(r) == Cardinality({i \in DOMAIN fetch[r] : fetch[r][i].text # NoText})

-----------------------------------------------------------------------------
(***************************************************************************)
(* Properties.                                                             *)
(***************************************************************************)

\* "Every address in the chain passes the safety check"
\* (brave_api_web_searcher.py:337), the targets of redirects included: no
\* request goes to an address that the check would not accept.
EveryHopIsChecked == \A r \in Requests : visited[r] \subseteq SafeUrls

\* The downloads of a search share one semaphore, which a download holds over
\* all of its redirects: never more than MaxParallel are under way.
DownloadsAreLimited == \A r \in Requests : Cardinality(Downloading(r)) <= MaxParallel
=============================================================================
