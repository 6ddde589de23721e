\* Two requests that share the reranker; one of them searches the web.
SPECIFICATION Spec
CONSTANTS
    Requests = {"q1", "q2"}
    WebUsers = {"q1"}
    Urls = {"outside", "inside"}
    SafeUrls = {"outside"}
    ResultLists <- SomeResults
    MaxParallel = 1
    MaxRedirects = 1
    Chunks <- AllChunks
    Hits <- SomeHits
    Scores = {1, 2}
    NaN = NaN
    TopKs = {1, 3}
    MaxCandidates = 3
    MinForWeb = 2
    MinForRerank = 2
    MaxAttempts = 2
    MaxContext = 4
    WebSize = 2
INVARIANTS
    TypeOK
    EveryHopIsChecked
    DownloadsAreLimited
    ContextIsTheBest
    ContextIsFull
PROPERTIES
    QuestionsAreAnswered
CHECK_DEADLOCK FALSE
