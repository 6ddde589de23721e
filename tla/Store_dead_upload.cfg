\* An upload dies after the file is saved; rule 4 keeps running.
SPECIFICATION Spec
CONSTANTS
    d1 = d1
    d2 = d2
    c1 = c1
    Docs = {d1}
    Chats = {c1}
    ChatOf <- OneDoc
    Requests = {q1}
    NoChat = NoChat
    Kinds = {"upload"}
    Unlucky = {d1}
PROPERTY DeadUploadsAreRemoved
