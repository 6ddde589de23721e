\* A user expires; the deletion of the files fails.
SPECIFICATION Spec
CONSTANTS
    d1 = d1
    d2 = d2
    c1 = c1
    Docs = {d1}
    Chats = {c1}
    ChatOf <- OneDoc
    Requests = {q1}
    NoChat = NoChat
    Kinds = {"upload", "expire"}
    Unlucky = {d1}
PROPERTY FilesOfGoneChatsAreDeleted
