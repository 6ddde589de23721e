-------------------------------- MODULE Answers --------------------------------
(***************************************************************************)
(* Questions about the documents of a chat session: ChatbotService,        *)
(* RetrieveChunkEmbeddingService, the query expander and the reranker that *)
(* all requests share.  The web search of a request is that of WebSearch.  *)
(* The language model, the embedding model and the database's search are   *)
(* external.                                                               *)
(***************************************************************************)
EXTENDS WebSearch, FiniteSetsExt

CONSTANTS
    Chunks,          \* the stored chunks, as records [id, size], id > 0
    Hits,            \* bound: the results of a similarity search, nearest first
    Scores,          \* bound: the scores of the reranker
    NaN,             \* the score that is not a number
    TopKs,           \* bound: GetChunkEmbeddingsConfig.top_k
    WebUsers,        \* the requests that enable the web search
    MaxCandidates,   \* MAX_RETRIEVAL_CANDIDATES
    MinForWeb,       \* MIN_CHUNKS_NEEDED_FOR_WEB_SEARCH
    MinForRerank,    \* MIN_CHUNKS_NEEDED_FOR_RERANKING
    MaxAttempts,     \* QueryExpanderConfig.max_attempts
    MaxContext,      \* MAX_CONTEXT_CHARS
    WebSize          \* bound: the length of a web page's text

ASSUME AnswersAssumption ==
    /\ Chunks \subseteq [id : Nat \ {0}, size : Nat]
    /\ Hits \subseteq Seq(Chunks)
    /\ Scores \subseteq Nat \ {0} /\ NaN \notin Nat
    /\ TopKs \subseteq Nat \ {0}
    /\ WebUsers \subseteq Requests
    /\ MaxCandidates \in Nat \ {0} /\ MinForWeb \in Nat \ {0}
    /\ MinForRerank \in Nat \ {0, 1}
    /\ MaxAttempts \in Nat \ {0}
    /\ MaxContext \in Nat /\ WebSize \in Nat \ {0}

VARIABLES
    model,      \* the reranker's model: "unloaded", "loaded" or "failed"
    stage,      \* how far the handling of a request is
    question,   \* what is known of it so far
    lock        \* who holds the reranker's lock, then those who wait for it

vars == <<webVars, model, stage, question, lock>>

-----------------------------------------------------------------------------
\* The rank of the chunks

\* Not-a-number goes last.
SortKey(score) == IF score = NaN THEN 0 ELSE score

\* sorted(..., reverse=True) is stable: equal scores keep their order.
Ranked(chunks, score) ==
    LET Key(i) == SortKey(score[i])
        Before(j, i) == Key(j) > Key(i) \/ (Key(j) = Key(i) /\ j < i)
        RankOf(i) == 1 + Cardinality({j \in DOMAIN chunks : Before(j, i)})
    IN [k \in DOMAIN chunks |-> chunks[CHOOSE i \in DOMAIN chunks : RankOf(i) = k]]

Prefix(seq, n) == SubSeq(seq, 1, Min({n, Len(seq)}))

-----------------------------------------------------------------------------
\* The context of an answer

\* The chunks, then the texts of the web.
Entries(q) == q.chunks \o [k \in 1..q.extra |-> [id |-> -k, size |-> WebSize]]

\* The loop over the entries: what is left of the budget, the positions of the
\* entries that were taken, and whether the loop goes on.
Unspent == [budget |-> MaxContext, taken |-> {}, open |-> TRUE]

\* Mutant: the budget is not reduced by what it was spent on.
SpendUncounted(spending, k, size) ==
    IF ~spending.open \/ size = 0 THEN spending
    ELSE IF size > spending.budget THEN [spending EXCEPT !.open = FALSE]
    ELSE [spending EXCEPT !.taken = @ \cup {k}]

\* An entry without text is skipped, and the first one that does not fit ends
\* the context.
Spend(spending, k, size) ==
    IF ~spending.open \/ size = 0 THEN spending
    ELSE IF size > spending.budget THEN [spending EXCEPT !.open = FALSE]
    ELSE [spending EXCEPT !.budget = @ - size, !.taken = @ \cup {k}]

Spending(entries) ==
    LET after[n \in 0..Len(entries)] ==
            IF n = 0 THEN Unspent ELSE Spend(after[n - 1], n, entries[n].size)
    IN after

\* The positions of the entries in the context.
BuildContext(q) == LET entries == Entries(q) IN Spending(entries)[Len(entries)].taken

-----------------------------------------------------------------------------

NewQuestion == [topK |-> 1, web |-> FALSE, attempts |-> 0, hits |-> <<>>,
                score |-> <<>>, chunks |-> <<>>, extra |-> 0]

Init ==
    /\ WebInit
    /\ model = "unloaded"
    /\ stage = [r \in Requests |-> "new"]
    /\ question = [r \in Requests |-> NewQuestion]
    /\ lock = <<>>

GoTo(r, next) == stage' = [stage EXCEPT ![r] = next]
Note(r, q) == question' = [question EXCEPT ![r] = q]

\* Nothing of a question outlives its answer, and no property tells statuses apart.
Answer(r) == GoTo(r, "answered") /\ Note(r, NewQuestion)

\* The application loads the model before it serves, and does not start
\* without it.
WarmUp ==
    /\ model = "unloaded"
    /\ model' \in {"loaded", "failed"}
    /\ UNCHANGED <<webVars, stage, question, lock>>

\* A request arrives.  One whose user does not own the chat session, or whose
\* question is blank, goes no further.
Ask(r) ==
    /\ model = "loaded"
    /\ stage[r] = "new"
    /\ \/ Answer(r)
       \/ \E k \in TopKs :
            /\ GoTo(r, "expanding")
            /\ Note(r, [NewQuestion EXCEPT !.topK = k, !.web = (r \in WebUsers)])
    /\ UNCHANGED <<webVars, model, lock>>

\* One call of the chain.  It answers (and a reply that is too long gives way
\* to the question itself), fails for good or with an empty reply, or fails in
\* a way that is worth another attempt.
Expand(r) ==
    LET again == [question[r] EXCEPT !.attempts = @ + 1]
    IN /\ stage[r] = "expanding"
       /\ \/ GoTo(r, "searching") /\ UNCHANGED question
          \/ again.attempts < MaxAttempts /\ Note(r, again) /\ UNCHANGED stage
          \/ Answer(r)
       /\ UNCHANGED <<webVars, model, lock>>

\* The end of retrieve.
Rank(r, q, chunks) == Note(r, [q EXCEPT !.chunks = Prefix(chunks, q.topK)])

\* The reranker's lock is asked for when there is something to rank.
RankOrLock(r, q) ==
    IF Len(q.hits) >= MinForRerank
    THEN /\ GoTo(r, "ranking")
         /\ Note(r, q)
         /\ lock' = Append(lock, r)
    ELSE /\ GoTo(r, "answering")
         /\ Rank(r, q, q.hits)
         /\ UNCHANGED lock

\* The question is embedded and the chunks near it are read.
Search(r) ==
    /\ stage[r] = "searching"
    /\ \/ /\ Answer(r)
          /\ UNCHANGED <<webVars, lock>>
       \/ \E hits \in Hits :
            LET limit == Max({question[r].topK, MaxCandidates})
                q == [question[r] EXCEPT !.hits = Prefix(hits, limit)]
            IN IF Len(q.hits) < MinForWeb /\ q.web
               THEN /\ GoTo(r, "web")
                    /\ Note(r, q)
                    /\ StartSearch(r)
                    /\ UNCHANGED lock
               ELSE RankOrLock(r, q) /\ UNCHANGED webVars
    /\ UNCHANGED model

SearchWeb(r) ==
    /\ stage[r] = "web"
    /\ WebStep(r)
    /\ UNCHANGED <<model, stage, question, lock>>

\* search_web returns.
TakeWebTexts(r) ==
    /\ stage[r] = "web"
    /\ SearchIsOver(r)
    /\ EndSearch(r)
    /\ RankOrLock(r, [question[r] EXCEPT !.extra = WebTexts(r)])
    /\ UNCHANGED model

\* Mutant: a failure keeps the lock.
RerankKeepingLock(r) ==
    /\ stage[r] = "ranking"
    /\ Head(lock) = r
    /\ \/ \E score \in [DOMAIN question[r].hits -> Scores \cup {NaN}] :
            /\ GoTo(r, "answering")
            /\ Rank(r, [question[r] EXCEPT !.score = score],
                    Ranked(question[r].hits, score))
            /\ lock' = Tail(lock)
       \/ Answer(r) /\ UNCHANGED lock
    /\ UNCHANGED <<webVars, model>>

\* Mutant: the chunks are ranked after the cut.
RerankTheTop(r) ==
    /\ stage[r] = "ranking"
    /\ Head(lock) = r
    /\ lock' = Tail(lock)
    /\ \/ \E score \in [DOMAIN question[r].hits -> Scores \cup {NaN}] :
            /\ GoTo(r, "answering")
            /\ Rank(r, [question[r] EXCEPT !.score = score],
                    Ranked(Prefix(question[r].hits, question[r].topK), score))
       \/ Answer(r)
    /\ UNCHANGED <<webVars, model>>

\* The model scores the chunks while the request holds the lock.
Rerank(r) ==
    /\ stage[r] = "ranking"
    /\ Head(lock) = r
    /\ lock' = Tail(lock)
    /\ \/ \E score \in [DOMAIN question[r].hits -> Scores \cup {NaN}] :
            /\ GoTo(r, "answering")
            /\ Rank(r, [question[r] EXCEPT !.score = score],
                    Ranked(question[r].hits, score))
       \/ Answer(r)
    /\ UNCHANGED <<webVars, model>>

\* Without a context the answer is fixed and the language model is not asked.
Generate(r) ==
    /\ stage[r] = "answering"
    /\ Answer(r)
    /\ UNCHANGED <<webVars, model, lock>>

-----------------------------------------------------------------------------

Step(r) ==
    \/ Expand(r) \/ Search(r) \/ SearchWeb(r) \/ TakeWebTexts(r)
    \/ Rerank(r) \/ Generate(r)

Next == WarmUp \/ \E r \in Requests : Ask(r) \/ Step(r)

\* Every call a request waits for has a time-out, or works on what it was given.
Fairness == \A r \in Requests : WF_vars(Step(r))

Spec == Init /\ [][Next]_vars /\ Fairness

-----------------------------------------------------------------------------
(***************************************************************************)
(* Properties.                                                             *)
(***************************************************************************)
TypeOK ==
    /\ model \in {"unloaded", "loaded", "failed"}
    /\ stage \in [Requests -> {"new", "expanding", "searching", "web", "ranking",
                               "answering", "answered"}]
    /\ \A r \in Requests :
         /\ question[r].attempts \in 0..(MaxAttempts - 1)
         /\ ToSet(question[r].chunks) \subseteq ToSet(question[r].hits)
         /\ ToSet(question[r].hits) \subseteq Chunks
         /\ search[r] \in {"off", "brave", "fallback", "fetching", "over"}
         /\ \A i \in DOMAIN fetch[r] : fetch[r][i].requests \in 0..MaxRedirects
    /\ \A r \in Requests : stage[r] = "ranking" => r \in ToSet(lock)
    /\ IsInjective(lock)

\* Which of two hits ranks higher: the one with the higher score, or the nearer
\* one where scores are equal or were not asked for.
Outranks(q, j, i) ==
    LET Key(k) == IF q.score = <<>> THEN 0 ELSE SortKey(q.score[k])
    IN Key(j) > Key(i) \/ (Key(j) = Key(i) /\ j < i)

\* No hit is left out of the context for one that ranks lower, whether it was
\* cut off at top_k or at the budget, nor for a text of the web when top_k has
\* room for it: the ranking of all candidates decides, from the search to the
\* prompt.
ContextIsTheBest ==
    \A r \in Requests : stage[r] = "answering" =>
        LET q == question[r]
            context == {Entries(q)[k] : k \in BuildContext(q)}
            Ahead(i) == {j \in DOMAIN q.hits : Outranks(q, j, i)}
        IN \A i \in DOMAIN q.hits :
             q.hits[i] \in context \/ q.hits[i].size = 0
             \/ /\ \A e \in context : e \in Chunks =>
                     \E j \in DOMAIN q.hits : q.hits[j] = e /\ j \in Ahead(i)
                /\ Cardinality(Ahead(i)) < q.topK => context \subseteq Chunks

\* The size of the entries at the positions.
TotalSize(entries, positions) ==
    LET sum[n \in 0..Len(entries)] ==
            IF n = 0 THEN 0
            ELSE sum[n - 1] + IF n \in positions THEN entries[n].size ELSE 0
    IN sum[Len(entries)]

\* The context keeps to its budget, and what was found is left out only when the
\* next of it would go over: a question is told that nothing was found only then.
ContextIsFull ==
    \A r \in Requests : stage[r] = "answering" =>
        LET entries == Entries(question[r])
            context == BuildContext(question[r])
            left == {k \in DOMAIN entries : entries[k].size > 0} \ context
            size == TotalSize(entries, context)
        IN /\ size <= MaxContext
           /\ \A k \in left : size + entries[k].size > MaxContext \/ \E j \in left : j < k

\* Every question is answered, though the expander retries, redirects may lead
\* in a circle and all requests wait for one reranker.
QuestionsAreAnswered ==
    \A r \in Requests : stage[r] = "expanding" ~> stage[r] = "answered"
=============================================================================
