--------------------------- MODULE DocumentStore ---------------------------
(***************************************************************************)
(* Rows in the database and files in object storage, which no transaction  *)
(* spans: what is left of a document when requests overlap, fail half-way  *)
(* or die with the server.                                                 *)
(*                                                                         *)
(*   UploadService            upload, delete one, delete all               *)
(*   ChatSessionService       delete_chat_session                          *)
(*   ExpiredUserCleaner       clean_once                                   *)
(*   Sweeper                  rule 4, _remove_abandoned_pending            *)
(*                                                                         *)
(* A request is one database transaction around calls to the storage. It   *)
(* is split where it awaits the storage; what its transaction wrote is     *)
(* seen by others when it commits. Object storage applies a call at once   *)
(* or, when it reports an error, may have applied it or not.               *)
(***************************************************************************)
EXTENDS Naturals, FiniteSets

CONSTANTS
    Docs,       \* document ids (uuid4, never used twice)
    Chats,      \* chat sessions of one user, who has created them all
    ChatOf,     \* the chat session a document is uploaded to
    Requests,   \* requests the server handles at the same time
    NoChat,     \* the chat session of a request that is not in use
    Kinds,      \* the requests users make, a subset of AllKinds
    Unlucky     \* documents whose files or rows a failed call may concern

AllKinds == {"upload", "delete", "deleteAll", "deleteChat", "expire"}

ASSUME StoreAssumption ==
    /\ ChatOf \in [Docs -> Chats]
    /\ NoChat \notin Chats
    /\ Kinds \subseteq AllKinds
    /\ Unlucky \subseteq Docs

VARIABLES
    row,        \* documents.status as committed; "unused" before the id exists
    file,       \* the documents whose object is in storage
    chat,       \* the chat sessions whose row is there
    req,        \* the requests under way
    cleanup,    \* chat sessions whose files the cleaner has yet to delete
    hit         \* documents concerned by a failure that no one retries

vars == <<row, file, chat, req, cleanup, hit>>

----------------------------------------------------------------------------
Steps == {"idle",
          "save", "mark", "discard", "commitUpload",
          "deleteFile", "deleteRow", "notFound",
          "deleteFiles", "commitAll",
          "firstPrefix", "deleteChatRows", "secondPrefix"}

DocsOf(c) == {d \in Docs : ChatOf[d] = c}

\* docs: the documents a request is about. left: those of delete_all whose
\* file is still to be deleted.
NoRequest == [step |-> "idle", chat |-> NoChat, docs |-> {}, left |-> {}]

RequestType == [step : Steps, chat : Chats \cup {NoChat},
                docs : SUBSET Docs, left : SUBSET Docs]

Committed(d) == row[d] \in {"PENDING", "UPLOADED"}

TypeOK ==
    /\ row \in [Docs -> {"unused", "none", "PENDING", "UPLOADED"}]
    /\ file \in SUBSET Docs
    /\ chat \in SUBSET Chats
    /\ req \in [Requests -> RequestType]
    /\ cleanup \in SUBSET Chats
    /\ hit \in SUBSET Docs

Init ==
    /\ row = [d \in Docs |-> "unused"]
    /\ file = {}
    /\ chat = Chats
    /\ req = [q \in Requests |-> NoRequest]
    /\ cleanup = {}
    /\ hit = {}

----------------------------------------------------------------------------
(***************************************************************************)
(* How requests begin, go on, end and fail.                                *)
(***************************************************************************)
Open(q, kind, step, c, docs) ==
    /\ kind \in Kinds
    /\ req[q].step = "idle"
    /\ c \in chat
    /\ req' = [req EXCEPT ![q] =
                  [step |-> step, chat |-> c, docs |-> docs, left |-> docs]]

At(q, step) == req[q].step = step

Goto(q, step) == req' = [req EXCEPT ![q].step = step]

End(q) == req' = [req EXCEPT ![q] = NoRequest]

\* A failure that leaves the documents D in whatever state they are.
Fault(D) == D \subseteq Unlucky /\ hit' = hit \cup D

\* A deletion that failed has removed some of the files.
SomeFilesGone(D) == \E E \in SUBSET D : file' = file \ E

\* Mutant: rows are marked as deleted and kept.
RowsMarkedGone(D) ==
    row' = [d \in Docs |-> IF d \in D /\ Committed(d) THEN "DELETED" ELSE row[d]]

RowsGone(D) == row' = [d \in Docs |-> IF d \in D /\ Committed(d) THEN "none" ELSE row[d]]

\* The foreign key check of an uncommitted upload holds FOR KEY SHARE on its
\* chat session, and the row of the chat session cannot be deleted meanwhile.
Uploading(c) ==
    \E q \in Requests :
        req[q].chat = c /\ req[q].step \in {"save", "mark", "discard", "commitUpload"}

\* delete_all has deleted these rows in its transaction: others wait for it.
RowsLocked(D) ==
    \E q \in Requests :
        req[q].step \in {"deleteFiles", "commitAll"} /\ req[q].docs \cap D # {}

----------------------------------------------------------------------------
(***************************************************************************)
(* UploadService.upload: insert the row, save the file, mark the row, and  *)
(* commit after the handler has returned.                                  *)
(***************************************************************************)
BeginUpload(q, d) ==
    /\ row[d] = "unused"
    /\ Open(q, "upload", "save", ChatOf[d], {d})
    /\ row' = [row EXCEPT ![d] = "none"]
    /\ UNCHANGED <<file, chat, cleanup, hit>>

SaveFile(q) ==
    /\ At(q, "save")
    /\ file' = file \cup req[q].docs
    /\ Goto(q, "mark")
    /\ UNCHANGED <<row, chat, cleanup, hit>>

\* The upload is empty or cannot be read, or save raises.
SaveFails(q) ==
    /\ At(q, "save")
    /\ file' \in {file, file \cup req[q].docs}
    /\ Goto(q, "discard")
    /\ UNCHANGED <<row, chat, cleanup, hit>>

\* mark_uploaded moves the row to UPLOADED, or the statement fails.
MarkUploaded(q) ==
    /\ At(q, "mark")
    /\ Goto(q, "commitUpload") \/ Goto(q, "discard")
    /\ UNCHANGED <<row, file, chat, cleanup, hit>>

\* Mutant: only the row is discarded.
DiscardRowOnly(q) ==
    /\ At(q, "discard")
    /\ End(q)
    /\ UNCHANGED <<row, file, chat, cleanup, hit>>

\* _discard_file, after which the transaction is rolled back.
DiscardFile(q) ==
    /\ At(q, "discard")
    /\ file' = file \ req[q].docs
    /\ End(q)
    /\ UNCHANGED <<row, chat, cleanup, hit>>

DiscardFails(q) ==
    /\ At(q, "discard")
    /\ Fault(req[q].docs)
    /\ SomeFilesGone(req[q].docs)
    /\ End(q)
    /\ UNCHANGED <<row, chat, cleanup>>

CommitUpload(q) ==
    /\ At(q, "commitUpload")
    /\ row' = [d \in Docs |-> IF d \in req[q].docs THEN "UPLOADED" ELSE row[d]]
    /\ End(q)
    /\ UNCHANGED <<file, chat, cleanup, hit>>

\* The handler has returned, so nothing discards the file.
CommitUploadFails(q) ==
    /\ At(q, "commitUpload")
    /\ Fault(req[q].docs)
    /\ End(q)
    /\ UNCHANGED <<row, file, chat, cleanup>>

----------------------------------------------------------------------------
(***************************************************************************)
(* UploadService.delete_uploaded_file: the file, then the row.             *)
(***************************************************************************)
BeginDelete(q, d) ==
    /\ Committed(d)
    /\ Open(q, "delete", "deleteFile", ChatOf[d], {d})
    /\ UNCHANGED <<row, file, chat, cleanup, hit>>

DeleteFile(q) ==
    /\ At(q, "deleteFile")
    /\ file' = file \ req[q].docs
    /\ Goto(q, "deleteRow")
    /\ UNCHANGED <<row, chat, cleanup, hit>>

DeleteFileFails(q) ==
    /\ At(q, "deleteFile")
    /\ Fault(req[q].docs)
    /\ SomeFilesGone(req[q].docs)
    /\ End(q)
    /\ UNCHANGED <<row, chat, cleanup>>

\* The statement waits for delete_all, then deletes the row and commits.
DeleteRow(q) ==
    /\ At(q, "deleteRow")
    /\ ~ RowsLocked(req[q].docs)
    /\ \A d \in req[q].docs : Committed(d)
    /\ RowsGone(req[q].docs)
    /\ End(q)
    /\ UNCHANGED <<file, chat, cleanup, hit>>

DeleteRowFails(q) ==
    /\ At(q, "deleteRow")
    /\ Fault(req[q].docs)
    /\ End(q)
    /\ UNCHANGED <<row, file, chat, cleanup>>

\* Someone else deleted the row since this request read it: DocumentRepository
\* raises DOCUMENT_NOT_FOUND and the client gets the error.
RowMissing(q) ==
    /\ At(q, "deleteRow")
    /\ ~ RowsLocked(req[q].docs)
    /\ \E d \in req[q].docs : ~ Committed(d)
    /\ Goto(q, "notFound")
    /\ UNCHANGED <<row, file, chat, cleanup, hit>>

RaiseNotFound(q) ==
    /\ At(q, "notFound")
    /\ End(q)
    /\ UNCHANGED <<row, file, chat, cleanup, hit>>

----------------------------------------------------------------------------
(***************************************************************************)
(* UploadService.delete_all_uploaded_files: the rows, then the files, then *)
(* the commit.                                                             *)
(***************************************************************************)
BeginDeleteAll(q, c) ==
    LET listed == {d \in DocsOf(c) : Committed(d)} IN
    /\ listed # {} /\ ~ RowsLocked(listed)
    /\ Open(q, "deleteAll", "deleteFiles", c, listed)
    /\ UNCHANGED <<row, file, chat, cleanup, hit>>

\* Each failure is swallowed.
DeleteNextFile(q) ==
    /\ At(q, "deleteFiles")
    /\ \E d \in req[q].left :
          /\ \/ file' = file \ {d} /\ UNCHANGED hit
             \/ Fault({d}) /\ SomeFilesGone({d})
          /\ req' = [req EXCEPT ![q].left = @ \ {d}]
    /\ UNCHANGED <<row, chat, cleanup>>

FilesDeleted(q) ==
    /\ At(q, "deleteFiles")
    /\ req[q].left = {}
    /\ Goto(q, "commitAll")
    /\ UNCHANGED <<row, file, chat, cleanup, hit>>

CommitDeleteAll(q) ==
    /\ At(q, "commitAll")
    /\ RowsGone(req[q].docs)
    /\ End(q)
    /\ UNCHANGED <<file, chat, cleanup, hit>>

CommitDeleteAllFails(q) ==
    /\ At(q, "commitAll")
    /\ Fault(req[q].docs)
    /\ End(q)
    /\ UNCHANGED <<row, file, chat, cleanup>>

----------------------------------------------------------------------------
(***************************************************************************)
(* ChatSessionService.delete_chat_session: the files, then the rows in a   *)
(* transaction of their own, then the files again.                         *)
(***************************************************************************)
BeginDeleteChat(q, c) ==
    /\ Open(q, "deleteChat", "firstPrefix", c, DocsOf(c))
    /\ UNCHANGED <<row, file, chat, cleanup, hit>>

FirstPrefix(q) ==
    /\ At(q, "firstPrefix")
    /\ file' = file \ req[q].docs
    /\ Goto(q, "deleteChatRows")
    /\ UNCHANGED <<row, chat, cleanup, hit>>

FirstPrefixFails(q) ==
    /\ At(q, "firstPrefix")
    /\ Fault(req[q].docs)
    /\ SomeFilesGone(req[q].docs)
    /\ End(q)
    /\ UNCHANGED <<row, chat, cleanup>>

\* Mutant: the files are not deleted a second time.
DeleteChatRowsAndEnd(q) ==
    /\ At(q, "deleteChatRows")
    /\ req[q].chat \in chat
    /\ ~ Uploading(req[q].chat) /\ ~ RowsLocked(req[q].docs)
    /\ chat' = chat \ {req[q].chat}
    /\ RowsGone(req[q].docs)
    /\ End(q)
    /\ UNCHANGED <<file, cleanup, hit>>

\* Deleting the chat session cascades to rows committed since its documents
\* were deleted.
DeleteChatRows(q) ==
    /\ At(q, "deleteChatRows")
    /\ req[q].chat \in chat
    /\ ~ Uploading(req[q].chat) /\ ~ RowsLocked(req[q].docs)
    /\ chat' = chat \ {req[q].chat}
    /\ RowsGone(req[q].docs)
    /\ Goto(q, "secondPrefix")
    /\ UNCHANGED <<file, cleanup, hit>>

\* The chat session is gone already, or the transaction fails.
DeleteChatRowsFails(q) ==
    /\ At(q, "deleteChatRows")
    /\ \/ req[q].chat \notin chat /\ UNCHANGED hit
       \/ Fault(req[q].docs)
    /\ End(q)
    /\ UNCHANGED <<row, file, chat, cleanup>>

SecondPrefix(q) ==
    /\ At(q, "secondPrefix")
    /\ file' = file \ req[q].docs
    /\ End(q)
    /\ UNCHANGED <<row, chat, cleanup, hit>>

\* Swallowed.
SecondPrefixFails(q) ==
    /\ At(q, "secondPrefix")
    /\ Fault(req[q].docs)
    /\ SomeFilesGone(req[q].docs)
    /\ End(q)
    /\ UNCHANGED <<row, chat, cleanup>>

----------------------------------------------------------------------------
(***************************************************************************)
(* ExpiredUserCleaner.clean_once: delete the user with all that belongs to *)
(* it, commit, then delete the files of the chat sessions it had.          *)
(***************************************************************************)
\* Mutant: the files are deleted first, and then the commit may fail.
ExpireFilesFirst ==
    /\ "expire" \in Kinds
    /\ chat # {}
    /\ \A c \in chat : ~ Uploading(c)
    /\ file' = {d \in file : ChatOf[d] \notin chat}
    /\ \/ chat' = {} /\ RowsGone(Docs)
       \/ UNCHANGED <<chat, row>>
    /\ UNCHANGED <<req, cleanup, hit>>

ExpireUser ==
    /\ "expire" \in Kinds
    /\ chat # {}
    /\ \A c \in chat : ~ Uploading(c)
    /\ ~ RowsLocked(Docs)
    /\ chat' = {}
    /\ RowsGone(Docs)
    /\ cleanup' = cleanup \cup chat
    /\ UNCHANGED <<file, req, hit>>

CleanFiles(c) ==
    /\ c \in cleanup
    /\ cleanup' = cleanup \ {c}
    /\ file' = file \ DocsOf(c)
    /\ UNCHANGED <<row, chat, req, hit>>

\* Swallowed.
CleanFilesFails(c) ==
    /\ c \in cleanup
    /\ cleanup' = cleanup \ {c}
    /\ Fault(DocsOf(c))
    /\ SomeFilesGone(DocsOf(c))
    /\ UNCHANGED <<row, chat, req>>

----------------------------------------------------------------------------
\* Rule 4 of the sweeper, for rows that are PENDING when it looks.
RemoveAbandonedPending ==
    LET abandoned == {d \in Docs : row[d] = "PENDING"} IN
    /\ ~ RowsLocked(abandoned)
    /\ RowsGone(abandoned)
    /\ file' = file \ abandoned
    /\ UNCHANGED <<chat, req, cleanup, hit>>

\* The server dies or is shut down: transactions are rolled back, and what was
\* still to be done in storage is forgotten.
Crash ==
    LET concerned == (UNION {req[q].docs : q \in Requests})
                       \cup {d \in Docs : ChatOf[d] \in cleanup} IN
    /\ concerned # {}
    /\ Fault(concerned)
    /\ req' = [q \in Requests |-> NoRequest]
    /\ cleanup' = {}
    /\ UNCHANGED <<row, file, chat>>

Begin(q) ==
    \/ \E d \in Docs : BeginUpload(q, d) \/ BeginDelete(q, d)
    \/ \E c \in Chats : BeginDeleteAll(q, c) \/ BeginDeleteChat(q, c)

Continue(q) ==
    \/ SaveFile(q) \/ SaveFails(q) \/ MarkUploaded(q)
    \/ DiscardFile(q) \/ DiscardFails(q) \/ CommitUpload(q) \/ CommitUploadFails(q)
    \/ DeleteFile(q) \/ DeleteFileFails(q)
    \/ DeleteRow(q) \/ DeleteRowFails(q) \/ RowMissing(q) \/ RaiseNotFound(q)
    \/ DeleteNextFile(q) \/ FilesDeleted(q)
    \/ CommitDeleteAll(q) \/ CommitDeleteAllFails(q)
    \/ FirstPrefix(q) \/ FirstPrefixFails(q)
    \/ DeleteChatRows(q) \/ DeleteChatRowsFails(q)
    \/ SecondPrefix(q) \/ SecondPrefixFails(q)

Clean(c) == CleanFiles(c) \/ CleanFilesFails(c)

Next ==
    \/ \E q \in Requests : Begin(q) \/ Continue(q)
    \/ ExpireUser
    \/ \E c \in Chats : Clean(c)
    \/ RemoveAbandonedPending
    \/ Crash

(***************************************************************************)
(* Fairness. Handlers and the cleaner go on when the storage or the        *)
(* database has answered, and the sweeper keeps applying rule 4. No user   *)
(* has to make a request or to stay away for an hour.                      *)
(***************************************************************************)
SafetySpec == Init /\ [][Next]_vars

Spec ==
    /\ SafetySpec
    /\ \A q \in Requests : WF_vars(Continue(q))
    /\ \A c \in Chats : WF_vars(Clean(c))
    /\ WF_vars(RemoveAbandonedPending)

----------------------------------------------------------------------------
(***************************************************************************)
(* Properties                                                              *)
(***************************************************************************)
BeingDeleted(d) ==
    \E q \in Requests :
        /\ d \in req[q].docs
        /\ req[q].step \in {"deleteFile", "deleteRow", "deleteFiles", "commitAll",
                            "firstPrefix", "deleteChatRows"}

BeingUploaded(d) ==
    \E q \in Requests :
        /\ d \in req[q].docs
        /\ req[q].step \in {"save", "mark", "discard", "commitUpload"}

BeingCleaned(d) ==
    \/ ChatOf[d] \in cleanup
    \/ \E q \in Requests : d \in req[q].docs /\ req[q].step = "secondPrefix"

\* Requests that overlap never leave a row without its file: only a failure of
\* the very call that concerns the document can.
RowsHaveFiles ==
    \A d \in Docs : Committed(d) /\ d \notin hit => d \in file \/ BeingDeleted(d)

\* Requests that overlap never leave a file without its row: an upload that
\* commits while its chat session is deleted is caught by the second deletion
\* of the prefix, or by the cleaner after the rows are gone.
FilesHaveRows ==
    \A d \in Docs : d \in file /\ d \notin hit =>
        Committed(d) \/ BeingUploaded(d) \/ BeingDeleted(d) \/ BeingCleaned(d)

\* "The rows are gone, so a file left behind is only wasted space" (delete_all):
\* whatever fails, a row that nobody is deleting has its file.
NoRowWithoutFile ==
    \A d \in Docs : Committed(d) => d \in file \/ BeingDeleted(d)

\* A file without a row goes away, whatever overlaps, unless a call failed.
OrphansAreRemoved ==
    \A d \in Docs :
        (d \in file /\ ~ Committed(d)) ~> (d \notin file \/ Committed(d) \/ d \in hit)

\* "an upload request died before the file finished storing": what it left in
\* storage is removed.
DeadUploadsAreRemoved ==
    \A d \in Docs :
        (d \in file /\ row[d] = "none" /\ ~ BeingUploaded(d)) ~> d \notin file

\* "their files are then deleted": no file outlives its chat session for ever.
FilesOfGoneChatsAreDeleted ==
    \A d \in Docs : (d \in file /\ ChatOf[d] \notin chat) ~> d \notin file
=============================================================================
