\* delete_all, then a commit that fails.
SPECIFICATION SafetySpec
CONSTANTS
    d1 = d1
    d2 = d2
    c1 = c1
    Docs = {d1}
    Chats = {c1}
    ChatOf <- OneDoc
    Requests = {q1}
    NoChat = NoChat
    Kinds = {"upload", "deleteAll"}
    Unlucky = {d1}
SYMMETRY RequestSymmetry
INVARIANTS
    NoRowWithoutFile
