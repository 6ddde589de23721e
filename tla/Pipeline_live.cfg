\* Requests and a run that wait for two connections and for each other's locks.
SPECIFICATION Spec
CONSTANTS
    q1 = q1
    q2 = q2
    q3 = q3
    Requests = {q1, q2, q3}
    KindsOf <- Rivals
    Runs = {r1}
    Chats = {c1, c2}
    Names = {n1}
    NoChat = NoChat
    NoName = NoName
    MaxActive = 3
    PoolSize = 2
    MaxChats = 2
    MaxDocs = 2
PROPERTY RequestsEnd
