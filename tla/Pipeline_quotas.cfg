\* Three requests for two places: two overlap, and both pass their check.
SPECIFICATION SafetySpec
CONSTANTS
    q1 = q1
    q2 = q2
    q3 = q3
    Requests = {q1, q2, q3}
    KindsOf <- Fillers
    Runs = {}
    Chats = {c1, c2, c3}
    Names = {n1, n2, n3}
    NoChat = NoChat
    NoName = NoName
    MaxActive = 2
    PoolSize = 3
    MaxChats = 1
    MaxDocs = 1
SYMMETRY RequestSymmetry
INVARIANTS
    TypeOK
    NothingLeaks
    QuotasAreNearlyKept
