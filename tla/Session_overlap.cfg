\* One user, two requests that overlap, and the cleaner, whose batch has room for
\* more users than there are.
SPECIFICATION Spec
CONSTANTS
    Users = {u1}
    NoUser = NoUser
    Requests = {q1, q2}
    TTL = 2
    Freq = 1
    Grace = 2
    BatchLimit = 2
    MaxLag = 1
    MaxRequest = 3
    MaxNow = 9
INVARIANTS TypeOK TokenHoldersExist RequestsKeepTheirUser
PROPERTIES LastSeenOnlyAdvances ExpiredUsersAreDeleted
\* The clock stops at its bound.
CHECK_DEADLOCK FALSE
