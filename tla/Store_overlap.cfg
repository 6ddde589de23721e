\* Every request, three at a time, on two documents of a chat session; any call may fail.
SPECIFICATION Spec
CONSTANTS
    d1 = d1
    d2 = d2
    c1 = c1
    Docs = {d1, d2}
    Chats = {c1}
    ChatOf <- SameChat
    Requests = {q1, q2, q3}
    NoChat = NoChat
    Kinds = {"upload", "delete", "deleteAll", "deleteChat", "expire"}
    Unlucky = {d1, d2}
INVARIANTS
    TypeOK
    RowsHaveFiles
    FilesHaveRows
PROPERTY OrphansAreRemoved
