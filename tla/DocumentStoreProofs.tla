-------------------------- MODULE DocumentStoreProofs --------------------------
(***************************************************************************)
(* For any documents, chat sessions, requests and failures: a row has its  *)
(* file and a file has its row, unless a request is at work on the         *)
(* document or a call that concerned it has failed.                        *)
(***************************************************************************)
EXTENDS DocumentStore, TLAPS

UploadSteps == {"save", "mark", "discard", "commitUpload"}

\* The deletions of documents that were listed or read before.
DeleteSteps == {"deleteFile", "deleteRow", "notFound", "deleteFiles", "commitAll"}

ChatSteps == {"firstPrefix", "deleteChatRows", "secondPrefix"}

\* The documents of a request at each of its steps.
Shapes ==
    \A q \in Requests :
        /\ req[q].step = "idle" => req[q].docs = {}
        /\ req[q].step # "idle" => req[q].docs \subseteq DocsOf(req[q].chat)
        /\ req[q].step \in UploadSteps \cup {"deleteFile", "deleteRow", "notFound"} =>
               \E d \in Docs : req[q].docs = {d}
        /\ req[q].step \in ChatSteps => req[q].docs = DocsOf(req[q].chat)
        /\ req[q].left \subseteq req[q].docs
        /\ req[q].step = "commitAll" => req[q].left = {}

\* The row of an upload is its own until it commits, and its chat session stays.
UploadersAreAlone ==
    \A q \in Requests :
        req[q].step \in UploadSteps =>
            /\ req[q].chat \in chat
            /\ \A d \in req[q].docs : row[d] = "none"
            /\ \A p \in Requests \ {q} :
                   req[p].step \in UploadSteps => req[p].docs \cap req[q].docs = {}

\* What was saved is there when the upload commits, or a deletion of the chat
\* session waits for it.
SavedFilesAreThere ==
    \A q \in Requests :
        req[q].step \in {"mark", "commitUpload"} =>
            \A d \in req[q].docs :
                \/ d \in file \cup hit
                \/ \E p \in Requests : d \in req[p].docs /\ req[p].step = "deleteChatRows"

\* Documents are deleted only after their upload, and what was deleted is gone.
DeletersComeLater ==
    \A q \in Requests :
        /\ req[q].step \in DeleteSteps =>
               \A d \in req[q].docs : row[d] # "unused" /\ ~BeingUploaded(d)
        /\ req[q].step \in {"deleteRow", "notFound"} => req[q].docs \cap file = {}
        /\ req[q].step \in {"deleteFiles", "commitAll"} =>
               \A d \in req[q].docs \ req[q].left : d \notin file \/ d \in hit

\* The rows go with their chat session, and then its files do.
GoneChatsAreCleaned ==
    /\ cleanup \cap chat = {}
    /\ \A q \in Requests : req[q].step = "secondPrefix" => req[q].chat \notin chat
    /\ \A d \in Docs :
           ChatOf[d] \notin chat =>
               ~Committed(d) /\ (d \in file \ hit => BeingCleaned(d))

IInv ==
    /\ TypeOK /\ Shapes /\ UploadersAreAlone /\ SavedFilesAreThere
    /\ DeletersComeLater /\ GoneChatsAreCleaned /\ RowsHaveFiles /\ FilesHaveRows

-----------------------------------------------------------------------------

\* Nothing has happened yet.
LEMMA InitIInv == StoreAssumption /\ Init => IInv
BY DEF StoreAssumption, Init, IInv, TypeOK, Shapes, UploadersAreAlone, SavedFilesAreThere,
        DeletersComeLater, GoneChatsAreCleaned, RowsHaveFiles, FilesHaveRows, NoRequest,
        RequestType, Steps, UploadSteps, DeleteSteps, ChatSteps, Committed

\* A request goes to another step.
LEMMA Gone ==
    ASSUME TypeOK, NEW q \in Requests, NEW step \in Steps, Goto(q, step)
    PROVE  /\ req' \in [Requests -> RequestType]
           /\ req'[q].step = step /\ req'[q].chat = req[q].chat
           /\ req'[q].docs = req[q].docs /\ req'[q].left = req[q].left
           /\ \A p \in Requests \ {q} : req'[p] = req[p]
BY DEF TypeOK, Goto, RequestType

\* A request ends.
LEMMA Ended ==
    ASSUME TypeOK, NEW q \in Requests, End(q)
    PROVE  /\ req' \in [Requests -> RequestType]
           /\ req'[q].step = "idle" /\ req'[q].chat = NoChat
           /\ req'[q].docs = {} /\ req'[q].left = {}
           /\ \A p \in Requests \ {q} : req'[p] = req[p]
<1>1. NoRequest \in RequestType
  BY DEF NoRequest, RequestType, Steps
<1>2. req \in [Requests -> RequestType]
  BY DEF TypeOK
<1> QED
  BY <1>1, <1>2 DEF End, NoRequest

\* A request begins.
LEMMA Opened ==
    ASSUME TypeOK, NEW q \in Requests, NEW kind, NEW step \in Steps, NEW c \in Chats,
           NEW docs \in SUBSET Docs, Open(q, kind, step, c, docs)
    PROVE  /\ req' \in [Requests -> RequestType]
           /\ req[q].step = "idle" /\ c \in chat
           /\ req'[q].step = step /\ req'[q].chat = c
           /\ req'[q].docs = docs /\ req'[q].left = docs
           /\ \A p \in Requests \ {q} : req'[p] = req[p]
<1> DEFINE r == [step |-> step, chat |-> c, docs |-> docs, left |-> docs]
<1>1. r \in RequestType
  BY DEF RequestType
<1>2. req \in [Requests -> RequestType]
  BY DEF TypeOK
<1>3. req' = [req EXCEPT ![q] = r] /\ req[q].step = "idle" /\ c \in chat
  BY DEF Open
<1>4. r.step = step /\ r.chat = c /\ r.docs = docs /\ r.left = docs
  OBVIOUS
<1> HIDE DEF r
<1> QED
  BY <1>1, <1>2, <1>3, <1>4

-----------------------------------------------------------------------------

\* A request fails.  Whatever it leaves of its files is on record.
LEMMA FailPreserves ==
    ASSUME IInv, NEW q \in Requests, End(q), hit' = hit \cup req[q].docs,
           file' \subseteq file, file \ req[q].docs \subseteq file',
           UNCHANGED <<row, chat, cleanup>>
    PROVE  IInv'
<1>1. /\ req' \in [Requests -> RequestType]
      /\ req'[q].step = "idle" /\ req'[q].chat = NoChat
      /\ req'[q].docs = {} /\ req'[q].left = {}
      /\ \A p \in Requests \ {q} : req'[p] = req[p]
  BY Ended DEF IInv
<1>2. req[q].docs \in SUBSET Docs
  BY DEF IInv, TypeOK, RequestType
<1>3. TypeOK'
  BY <1>1, <1>2 DEF IInv, TypeOK
<1>4. Shapes'
  BY <1>1 DEF IInv, Shapes, UploadSteps, ChatSteps
<1>5. UploadersAreAlone'
  BY <1>1 DEF IInv, UploadersAreAlone, UploadSteps
<1>6. SavedFilesAreThere'
  BY <1>1 DEF IInv, SavedFilesAreThere
<1>7. DeletersComeLater'
  BY <1>1 DEF IInv, DeletersComeLater, DeleteSteps, BeingUploaded
<1>8. GoneChatsAreCleaned'
  BY <1>1 DEF IInv, GoneChatsAreCleaned, BeingCleaned, Committed
<1>9. RowsHaveFiles'
  BY <1>1 DEF IInv, RowsHaveFiles, BeingDeleted, Committed
<1>10. FilesHaveRows'
  BY <1>1 DEF IInv, FilesHaveRows, BeingDeleted, BeingUploaded, BeingCleaned, Committed
<1> QED
  BY <1>3, <1>4, <1>5, <1>6, <1>7, <1>8, <1>9, <1>10 DEF IInv

\* A deletion that fails has removed nothing but files of its request.
LEMMA SomeGone ==
    ASSUME NEW D, SomeFilesGone(D)
    PROVE  file' \subseteq file /\ file \ D \subseteq file'
BY DEF SomeFilesGone

\* The steps of an upload.
LEMMA UploadPreserves ==
    ASSUME StoreAssumption, IInv, NEW q \in Requests,
           \/ SaveFile(q) \/ SaveFails(q) \/ MarkUploaded(q) \/ DiscardFile(q)
           \/ DiscardFails(q) \/ CommitUpload(q) \/ CommitUploadFails(q)
    PROVE  IInv'
<1> USE DEF UploadSteps, DeleteSteps, ChatSteps, Committed, BeingUploaded, BeingDeleted,
        BeingCleaned, DocsOf
<1>1. CASE SaveFile(q)
  <2>1. /\ req' \in [Requests -> RequestType]
        /\ req'[q].step = "mark" /\ req'[q].chat = req[q].chat
        /\ req'[q].docs = req[q].docs /\ req'[q].left = req[q].left
        /\ \A p \in Requests \ {q} : req'[p] = req[p]
    BY <1>1, Gone DEF SaveFile, IInv, Steps
  <2>2. /\ req[q].step = "save"
        /\ file' = file \cup req[q].docs /\ UNCHANGED <<row, chat, cleanup, hit>>
    BY <1>1 DEF SaveFile, At
  <2>3. TypeOK'
    BY <2>1, <2>2 DEF IInv, TypeOK, RequestType
  <2>4. Shapes'
    BY <2>1, <2>2 DEF IInv, Shapes
  <2>5. UploadersAreAlone'
    BY <2>1, <2>2 DEF IInv, UploadersAreAlone, Shapes
  <2>6. SavedFilesAreThere'
    BY <2>1, <2>2 DEF IInv, SavedFilesAreThere, UploadersAreAlone, Shapes
  <2>7. DeletersComeLater'
    BY <2>1, <2>2 DEF IInv, DeletersComeLater, UploadersAreAlone
  <2>8. GoneChatsAreCleaned'
    BY <2>1, <2>2 DEF IInv, GoneChatsAreCleaned, Shapes, UploadersAreAlone, DeletersComeLater
  <2>9. RowsHaveFiles'
    BY <2>1, <2>2 DEF IInv, RowsHaveFiles, UploadersAreAlone, Shapes
  <2>10. FilesHaveRows'
    BY <2>1, <2>2 DEF IInv, FilesHaveRows, DeletersComeLater, Shapes
  <2> QED
    BY <2>3, <2>4, <2>5, <2>6, <2>7, <2>8, <2>9, <2>10 DEF IInv
<1>2. CASE SaveFails(q)
  <2>1. /\ req' \in [Requests -> RequestType]
        /\ req'[q].step = "discard" /\ req'[q].chat = req[q].chat
        /\ req'[q].docs = req[q].docs /\ req'[q].left = req[q].left
        /\ \A p \in Requests \ {q} : req'[p] = req[p]
    BY <1>2, Gone DEF SaveFails, IInv, Steps
  <2>2. /\ req[q].step = "save"
        /\ file' \in {file, file \cup req[q].docs}
        /\ UNCHANGED <<row, chat, cleanup, hit>>
    BY <1>2 DEF SaveFails, At
  <2>3. TypeOK'
    BY <2>1, <2>2 DEF IInv, TypeOK, RequestType
  <2>4. Shapes'
    BY <2>1, <2>2 DEF IInv, Shapes
  <2>5. UploadersAreAlone'
    BY <2>1, <2>2 DEF IInv, UploadersAreAlone, Shapes
  <2>6. SavedFilesAreThere'
    BY <2>1, <2>2 DEF IInv, SavedFilesAreThere, UploadersAreAlone, Shapes
  <2>7. DeletersComeLater'
    BY <2>1, <2>2 DEF IInv, DeletersComeLater, UploadersAreAlone
  <2>8. GoneChatsAreCleaned'
    BY <2>1, <2>2 DEF IInv, GoneChatsAreCleaned, Shapes, UploadersAreAlone, DeletersComeLater
  <2>9. RowsHaveFiles'
    BY <2>1, <2>2 DEF IInv, RowsHaveFiles, UploadersAreAlone, Shapes
  <2>10. FilesHaveRows'
    BY <2>1, <2>2 DEF IInv, FilesHaveRows, DeletersComeLater, Shapes
  <2> QED
    BY <2>3, <2>4, <2>5, <2>6, <2>7, <2>8, <2>9, <2>10 DEF IInv
<1>3. CASE MarkUploaded(q)
  <2>1. PICK step \in {"commitUpload", "discard"} : Goto(q, step)
    BY <1>3 DEF MarkUploaded
  <2>2. /\ req' \in [Requests -> RequestType]
        /\ req'[q].step = step /\ req'[q].chat = req[q].chat
        /\ req'[q].docs = req[q].docs /\ req'[q].left = req[q].left
        /\ \A p \in Requests \ {q} : req'[p] = req[p]
    BY <2>1, Gone DEF IInv, Steps
  <2>3. /\ req[q].step = "mark"
        /\ UNCHANGED <<row, file, chat, cleanup, hit>>
    BY <1>3 DEF MarkUploaded, At
  <2>4. TypeOK'
    BY <2>2, <2>3 DEF IInv, TypeOK, RequestType
  <2>5. Shapes'
    BY <2>2, <2>3 DEF IInv, Shapes
  <2>6. UploadersAreAlone'
    BY <2>2, <2>3 DEF IInv, UploadersAreAlone, Shapes
  <2>7. SavedFilesAreThere'
    BY <2>2, <2>3 DEF IInv, SavedFilesAreThere, UploadersAreAlone, Shapes
  <2>8. DeletersComeLater'
    BY <2>2, <2>3 DEF IInv, DeletersComeLater, UploadersAreAlone
  <2>9. GoneChatsAreCleaned'
    BY <2>2, <2>3 DEF IInv, GoneChatsAreCleaned, Shapes, UploadersAreAlone, DeletersComeLater
  <2>10. RowsHaveFiles'
    BY <2>2, <2>3 DEF IInv, RowsHaveFiles, UploadersAreAlone, Shapes
  <2>11. FilesHaveRows'
    BY <2>2, <2>3 DEF IInv, FilesHaveRows, DeletersComeLater, Shapes
  <2> QED
    BY <2>4, <2>5, <2>6, <2>7, <2>8, <2>9, <2>10, <2>11 DEF IInv
<1>4. CASE DiscardFile(q)
  <2>1. /\ req' \in [Requests -> RequestType]
        /\ req'[q].step = "idle" /\ req'[q].chat = NoChat
        /\ req'[q].docs = {} /\ req'[q].left = {}
        /\ \A p \in Requests \ {q} : req'[p] = req[p]
    BY <1>4, Ended DEF DiscardFile, IInv
  <2>2. /\ req[q].step = "discard"
        /\ file' = file \ req[q].docs /\ UNCHANGED <<row, chat, cleanup, hit>>
    BY <1>4 DEF DiscardFile, At
  <2>3. TypeOK'
    BY <2>1, <2>2 DEF IInv, TypeOK, RequestType
  <2>4. Shapes'
    BY <2>1, <2>2 DEF IInv, Shapes
  <2>5. UploadersAreAlone'
    BY <2>1, <2>2 DEF IInv, UploadersAreAlone, Shapes
  <2>6. SavedFilesAreThere'
    BY <2>1, <2>2 DEF IInv, SavedFilesAreThere, UploadersAreAlone, Shapes
  <2>7. DeletersComeLater'
    BY <2>1, <2>2 DEF IInv, DeletersComeLater, UploadersAreAlone
  <2>8. GoneChatsAreCleaned'
    BY <2>1, <2>2 DEF IInv, GoneChatsAreCleaned, Shapes, UploadersAreAlone, DeletersComeLater
  <2>9. RowsHaveFiles'
    BY <2>1, <2>2 DEF IInv, RowsHaveFiles, UploadersAreAlone, Shapes
  <2>10. FilesHaveRows'
    BY <2>1, <2>2 DEF IInv, FilesHaveRows, DeletersComeLater, Shapes
  <2> QED
    BY <2>3, <2>4, <2>5, <2>6, <2>7, <2>8, <2>9, <2>10 DEF IInv
<1>5. CASE DiscardFails(q)
  <2>1. /\ End(q) /\ hit' = hit \cup req[q].docs
        /\ file' \subseteq file /\ file \ req[q].docs \subseteq file'
        /\ UNCHANGED <<row, chat, cleanup>>
    BY <1>5, SomeGone DEF DiscardFails, Fault
  <2> QED
    BY <2>1, FailPreserves
<1>6. CASE CommitUpload(q)
  <2>1. /\ req' \in [Requests -> RequestType]
        /\ req'[q].step = "idle" /\ req'[q].chat = NoChat
        /\ req'[q].docs = {} /\ req'[q].left = {}
        /\ \A p \in Requests \ {q} : req'[p] = req[p]
    BY <1>6, Ended DEF CommitUpload, IInv
  <2> QED
    BY <1>6, <2>1 DEF CommitUpload, At, IInv, TypeOK, Shapes, UploadersAreAlone,
        SavedFilesAreThere, DeletersComeLater, GoneChatsAreCleaned, RowsHaveFiles,
        FilesHaveRows
<1>7. CASE CommitUploadFails(q)
  <2>1. /\ End(q) /\ hit' = hit \cup req[q].docs
        /\ file' \subseteq file /\ file \ req[q].docs \subseteq file'
        /\ UNCHANGED <<row, chat, cleanup>>
    BY <1>7 DEF CommitUploadFails, Fault
  <2> QED
    BY <2>1, FailPreserves
<1> QED
  BY <1>1, <1>2, <1>3, <1>4, <1>5, <1>6, <1>7

\* The steps of the deletion of a document.
LEMMA DeletePreserves ==
    ASSUME StoreAssumption, IInv, NEW q \in Requests,
           \/ DeleteFile(q) \/ DeleteFileFails(q) \/ DeleteRow(q) \/ DeleteRowFails(q)
           \/ RowMissing(q) \/ RaiseNotFound(q)
    PROVE  IInv'
<1> USE DEF UploadSteps, DeleteSteps, ChatSteps, Committed, BeingUploaded, BeingDeleted,
        BeingCleaned, DocsOf
<1>1. CASE DeleteFile(q)
  <2>1. /\ req' \in [Requests -> RequestType]
        /\ req'[q].step = "deleteRow" /\ req'[q].chat = req[q].chat
        /\ req'[q].docs = req[q].docs /\ req'[q].left = req[q].left
        /\ \A p \in Requests \ {q} : req'[p] = req[p]
    BY <1>1, Gone DEF DeleteFile, IInv, Steps
  <2>2. /\ req[q].step = "deleteFile"
        /\ file' = file \ req[q].docs /\ UNCHANGED <<row, chat, cleanup, hit>>
    BY <1>1 DEF DeleteFile, At
  <2>3. TypeOK'
    BY <2>1, <2>2 DEF IInv, TypeOK, RequestType
  <2>4. Shapes'
    BY <2>1, <2>2 DEF IInv, Shapes
  <2>5. UploadersAreAlone'
    BY <2>1, <2>2 DEF IInv, UploadersAreAlone, Shapes
  <2>6. SavedFilesAreThere'
    BY <2>1, <2>2 DEF IInv, SavedFilesAreThere, DeletersComeLater
  <2>7. DeletersComeLater'
    BY <2>1, <2>2 DEF IInv, DeletersComeLater, UploadersAreAlone
  <2>8. GoneChatsAreCleaned'
    BY <2>1, <2>2 DEF IInv, GoneChatsAreCleaned, Shapes, UploadersAreAlone, DeletersComeLater
  <2>9. RowsHaveFiles'
    BY <2>1, <2>2 DEF IInv, RowsHaveFiles, UploadersAreAlone, Shapes
  <2>10. FilesHaveRows'
    BY <2>1, <2>2 DEF IInv, FilesHaveRows, DeletersComeLater, Shapes
  <2> QED
    BY <2>3, <2>4, <2>5, <2>6, <2>7, <2>8, <2>9, <2>10 DEF IInv
<1>2. CASE DeleteFileFails(q)
  <2>1. /\ End(q) /\ hit' = hit \cup req[q].docs
        /\ file' \subseteq file /\ file \ req[q].docs \subseteq file'
        /\ UNCHANGED <<row, chat, cleanup>>
    BY <1>2, SomeGone DEF DeleteFileFails, Fault
  <2> QED
    BY <2>1, FailPreserves
<1>3. CASE DeleteRow(q)
  <2>1. /\ req' \in [Requests -> RequestType]
        /\ req'[q].step = "idle" /\ req'[q].chat = NoChat
        /\ req'[q].docs = {} /\ req'[q].left = {}
        /\ \A p \in Requests \ {q} : req'[p] = req[p]
    BY <1>3, Ended DEF DeleteRow, IInv
  <2>2. /\ row' \in [Docs -> {"unused", "none", "PENDING", "UPLOADED"}]
        /\ \A d \in Docs : row'[d] = IF d \in req[q].docs /\ Committed(d) THEN "none" ELSE row[d]
    BY <1>3 DEF DeleteRow, RowsGone, IInv, TypeOK
  <2>3. /\ req[q].step = "deleteRow"
        /\ UNCHANGED <<file, chat, cleanup, hit>>
    BY <1>3 DEF DeleteRow, At, RowsLocked, Uploading
  <2>4. TypeOK'
    BY <2>1, <2>2, <2>3 DEF IInv, TypeOK
  <2>5. Shapes'
    BY <2>1, <2>2, <2>3 DEF IInv, Shapes
  <2>6. UploadersAreAlone'
    BY <2>1, <2>2, <2>3 DEF IInv, UploadersAreAlone, Shapes
  <2>7. SavedFilesAreThere'
    BY <2>1, <2>2, <2>3 DEF IInv, SavedFilesAreThere, UploadersAreAlone, Shapes
  <2>8. DeletersComeLater'
    BY <2>1, <2>2, <2>3 DEF IInv, DeletersComeLater, TypeOK, RequestType
  <2>9. GoneChatsAreCleaned'
    BY <2>1, <2>2, <2>3 DEF IInv, GoneChatsAreCleaned, Shapes, DeletersComeLater
  <2>10. RowsHaveFiles'
    BY <2>1, <2>2, <2>3 DEF IInv, RowsHaveFiles, GoneChatsAreCleaned, Shapes
  <2>11. FilesHaveRows'
    BY <2>1, <2>2, <2>3 DEF IInv, FilesHaveRows, DeletersComeLater, GoneChatsAreCleaned, Shapes
  <2> QED
    BY <2>4, <2>5, <2>6, <2>7, <2>8, <2>9, <2>10, <2>11 DEF IInv
<1>4. CASE DeleteRowFails(q)
  <2>1. /\ End(q) /\ hit' = hit \cup req[q].docs
        /\ file' \subseteq file /\ file \ req[q].docs \subseteq file'
        /\ UNCHANGED <<row, chat, cleanup>>
    BY <1>4 DEF DeleteRowFails, Fault
  <2> QED
    BY <2>1, FailPreserves
<1>5. CASE RowMissing(q)
  <2>1. /\ req' \in [Requests -> RequestType]
        /\ req'[q].step = "notFound" /\ req'[q].chat = req[q].chat
        /\ req'[q].docs = req[q].docs /\ req'[q].left = req[q].left
        /\ \A p \in Requests \ {q} : req'[p] = req[p]
    BY <1>5, Gone DEF RowMissing, IInv, Steps
  <2> QED
    BY <1>5, <2>1 DEF RowMissing, At, IInv, TypeOK, Shapes, UploadersAreAlone,
        SavedFilesAreThere, DeletersComeLater, GoneChatsAreCleaned, RowsHaveFiles,
        FilesHaveRows
<1>6. CASE RaiseNotFound(q)
  <2>1. /\ req' \in [Requests -> RequestType]
        /\ req'[q].step = "idle" /\ req'[q].chat = NoChat
        /\ req'[q].docs = {} /\ req'[q].left = {}
        /\ \A p \in Requests \ {q} : req'[p] = req[p]
    BY <1>6, Ended DEF RaiseNotFound, IInv
  <2> QED
    BY <1>6, <2>1 DEF RaiseNotFound, At, IInv, TypeOK, Shapes, UploadersAreAlone,
        SavedFilesAreThere, DeletersComeLater, GoneChatsAreCleaned, RowsHaveFiles,
        FilesHaveRows
<1> QED
  BY <1>1, <1>2, <1>3, <1>4, <1>5, <1>6

\* The steps of the deletion of all documents of a chat session.
LEMMA DeleteAllPreserves ==
    ASSUME StoreAssumption, IInv, NEW q \in Requests,
           \/ FilesDeleted(q) \/ CommitDeleteAll(q) \/ CommitDeleteAllFails(q)
    PROVE  IInv'
<1> USE DEF UploadSteps, DeleteSteps, ChatSteps, Committed, BeingUploaded, BeingDeleted,
        BeingCleaned, DocsOf
<1>1. CASE FilesDeleted(q)
  <2>1. /\ req' \in [Requests -> RequestType]
        /\ req'[q].step = "commitAll" /\ req'[q].chat = req[q].chat
        /\ req'[q].docs = req[q].docs /\ req'[q].left = req[q].left
        /\ \A p \in Requests \ {q} : req'[p] = req[p]
    BY <1>1, Gone DEF FilesDeleted, IInv, Steps
  <2>2. /\ req[q].step = "deleteFiles"
        /\ req[q].left = {} /\ UNCHANGED <<row, file, chat, cleanup, hit>>
    BY <1>1 DEF FilesDeleted, At
  <2>3. TypeOK'
    BY <2>1, <2>2 DEF IInv, TypeOK, RequestType
  <2>4. Shapes'
    BY <2>1, <2>2 DEF IInv, Shapes
  <2>5. UploadersAreAlone'
    BY <2>1, <2>2 DEF IInv, UploadersAreAlone, Shapes
  <2>6. SavedFilesAreThere'
    BY <2>1, <2>2 DEF IInv, SavedFilesAreThere, UploadersAreAlone, Shapes
  <2>7. DeletersComeLater'
    BY <2>1, <2>2 DEF IInv, DeletersComeLater, UploadersAreAlone
  <2>8. GoneChatsAreCleaned'
    BY <2>1, <2>2 DEF IInv, GoneChatsAreCleaned, Shapes, UploadersAreAlone, DeletersComeLater
  <2>9. RowsHaveFiles'
    BY <2>1, <2>2 DEF IInv, RowsHaveFiles, UploadersAreAlone, Shapes
  <2>10. FilesHaveRows'
    BY <2>1, <2>2 DEF IInv, FilesHaveRows, DeletersComeLater, Shapes
  <2> QED
    BY <2>3, <2>4, <2>5, <2>6, <2>7, <2>8, <2>9, <2>10 DEF IInv
<1>2. CASE CommitDeleteAll(q)
  <2>1. /\ req' \in [Requests -> RequestType]
        /\ req'[q].step = "idle" /\ req'[q].chat = NoChat
        /\ req'[q].docs = {} /\ req'[q].left = {}
        /\ \A p \in Requests \ {q} : req'[p] = req[p]
    BY <1>2, Ended DEF CommitDeleteAll, IInv
  <2>2. /\ row' \in [Docs -> {"unused", "none", "PENDING", "UPLOADED"}]
        /\ \A d \in Docs : row'[d] = IF d \in req[q].docs /\ Committed(d) THEN "none" ELSE row[d]
    BY <1>2 DEF CommitDeleteAll, RowsGone, IInv, TypeOK
  <2>3. /\ req[q].step = "commitAll"
        /\ UNCHANGED <<file, chat, cleanup, hit>>
    BY <1>2 DEF CommitDeleteAll, At, RowsLocked, Uploading
  <2>4. TypeOK'
    BY <2>1, <2>2, <2>3 DEF IInv, TypeOK
  <2>5. Shapes'
    BY <2>1, <2>2, <2>3 DEF IInv, Shapes
  <2>6. UploadersAreAlone'
    BY <2>1, <2>2, <2>3 DEF IInv, UploadersAreAlone, Shapes
  <2>7. SavedFilesAreThere'
    BY <2>1, <2>2, <2>3 DEF IInv, SavedFilesAreThere, UploadersAreAlone, Shapes
  <2>8. DeletersComeLater'
    <3>1. \A p \in Requests : req'[p].step # "idle" => p # q /\ req'[p] = req[p]
      BY <2>1
    <3>2. \A d \in Docs : BeingUploaded(d)' => BeingUploaded(d)
      BY <3>1
    <3>3. \A p \in Requests : req[p].docs \subseteq Docs
      BY DEF IInv, TypeOK, RequestType
    <3>4. \A d \in Docs : row'[d] = "unused" => row[d] = "unused"
      BY <2>2
    <3> HIDE DEF BeingUploaded
    <3> QED
      BY <2>3, <3>1, <3>2, <3>3, <3>4 DEF IInv, DeletersComeLater
  <2>9. GoneChatsAreCleaned'
    BY <2>1, <2>2, <2>3 DEF IInv, GoneChatsAreCleaned, Shapes, DeletersComeLater
  <2>10. RowsHaveFiles'
    BY <2>1, <2>2, <2>3 DEF IInv, RowsHaveFiles, GoneChatsAreCleaned, Shapes
  <2>11. FilesHaveRows'
    BY <2>1, <2>2, <2>3 DEF IInv, FilesHaveRows, DeletersComeLater, GoneChatsAreCleaned, Shapes
  <2> QED
    BY <2>4, <2>5, <2>6, <2>7, <2>8, <2>9, <2>10, <2>11 DEF IInv
<1>3. CASE CommitDeleteAllFails(q)
  <2>1. /\ End(q) /\ hit' = hit \cup req[q].docs
        /\ file' \subseteq file /\ file \ req[q].docs \subseteq file'
        /\ UNCHANGED <<row, chat, cleanup>>
    BY <1>3 DEF CommitDeleteAllFails, Fault
  <2> QED
    BY <2>1, FailPreserves
<1> QED
  BY <1>1, <1>2, <1>3

\* The steps of the deletion of a chat session.
LEMMA DeleteChatPreserves ==
    ASSUME StoreAssumption, IInv, NEW q \in Requests,
           \/ FirstPrefix(q) \/ FirstPrefixFails(q) \/ DeleteChatRows(q)
           \/ DeleteChatRowsFails(q) \/ SecondPrefix(q) \/ SecondPrefixFails(q)
    PROVE  IInv'
<1> USE DEF UploadSteps, DeleteSteps, ChatSteps, Committed, BeingUploaded, BeingDeleted,
        BeingCleaned, DocsOf
<1>1. CASE FirstPrefix(q)
  <2>1. /\ req' \in [Requests -> RequestType]
        /\ req'[q].step = "deleteChatRows" /\ req'[q].chat = req[q].chat
        /\ req'[q].docs = req[q].docs /\ req'[q].left = req[q].left
        /\ \A p \in Requests \ {q} : req'[p] = req[p]
    BY <1>1, Gone DEF FirstPrefix, IInv, Steps
  <2>2. /\ req[q].step = "firstPrefix"
        /\ file' = file \ req[q].docs /\ UNCHANGED <<row, chat, cleanup, hit>>
    BY <1>1 DEF FirstPrefix, At
  <2>3. TypeOK'
    BY <2>1, <2>2 DEF IInv, TypeOK, RequestType
  <2>4. Shapes'
    BY <2>1, <2>2 DEF IInv, Shapes
  <2>5. UploadersAreAlone'
    BY <2>1, <2>2 DEF IInv, UploadersAreAlone, Shapes
  <2>6. SavedFilesAreThere'
    BY <2>1, <2>2 DEF IInv, SavedFilesAreThere, UploadersAreAlone, Shapes
  <2>7. DeletersComeLater'
    BY <2>1, <2>2 DEF IInv, DeletersComeLater, UploadersAreAlone
  <2>8. GoneChatsAreCleaned'
    BY <2>1, <2>2 DEF IInv, GoneChatsAreCleaned, Shapes, UploadersAreAlone, DeletersComeLater
  <2>9. RowsHaveFiles'
    BY <2>1, <2>2 DEF IInv, RowsHaveFiles, UploadersAreAlone, Shapes
  <2>10. FilesHaveRows'
    BY <2>1, <2>2 DEF IInv, FilesHaveRows, DeletersComeLater, Shapes
  <2> QED
    BY <2>3, <2>4, <2>5, <2>6, <2>7, <2>8, <2>9, <2>10 DEF IInv
<1>2. CASE FirstPrefixFails(q)
  <2>1. /\ End(q) /\ hit' = hit \cup req[q].docs
        /\ file' \subseteq file /\ file \ req[q].docs \subseteq file'
        /\ UNCHANGED <<row, chat, cleanup>>
    BY <1>2, SomeGone DEF FirstPrefixFails, Fault
  <2> QED
    BY <2>1, FailPreserves
<1>3. CASE DeleteChatRows(q)
  <2>1. /\ req' \in [Requests -> RequestType]
        /\ req'[q].step = "secondPrefix" /\ req'[q].chat = req[q].chat
        /\ req'[q].docs = req[q].docs /\ req'[q].left = req[q].left
        /\ \A p \in Requests \ {q} : req'[p] = req[p]
    BY <1>3, Gone DEF DeleteChatRows, IInv, Steps
  <2>2. /\ row' \in [Docs -> {"unused", "none", "PENDING", "UPLOADED"}]
        /\ \A d \in Docs : row'[d] = IF d \in req[q].docs /\ Committed(d) THEN "none" ELSE row[d]
    BY <1>3 DEF DeleteChatRows, RowsGone, IInv, TypeOK
  <2>3. /\ req[q].step = "deleteChatRows" /\ req[q].chat \in chat
        /\ chat' = chat \ {req[q].chat}
        /\ \A p \in Requests : req[p].step \in UploadSteps => req[p].chat # req[q].chat
        /\ UNCHANGED <<file, cleanup, hit>>
    BY <1>3 DEF DeleteChatRows, At, RowsLocked, Uploading
  <2>4. TypeOK'
    BY <2>1, <2>2, <2>3 DEF IInv, TypeOK
  <2>5. Shapes'
    BY <2>1, <2>2, <2>3 DEF IInv, Shapes
  <2>6. UploadersAreAlone'
    BY <2>1, <2>2, <2>3 DEF IInv, UploadersAreAlone, Shapes
  <2>7. SavedFilesAreThere'
    BY <2>1, <2>2, <2>3 DEF IInv, SavedFilesAreThere, UploadersAreAlone, Shapes
  <2>8. DeletersComeLater'
    BY <2>1, <2>2, <2>3 DEF IInv, DeletersComeLater, TypeOK, RequestType
  <2>9. GoneChatsAreCleaned'
    BY <2>1, <2>2, <2>3 DEF IInv, GoneChatsAreCleaned, Shapes, DeletersComeLater
  <2>10. RowsHaveFiles'
    BY <2>1, <2>2, <2>3 DEF IInv, RowsHaveFiles, GoneChatsAreCleaned, Shapes
  <2>11. FilesHaveRows'
    BY <2>1, <2>2, <2>3 DEF IInv, FilesHaveRows, DeletersComeLater, GoneChatsAreCleaned, Shapes
  <2> QED
    BY <2>4, <2>5, <2>6, <2>7, <2>8, <2>9, <2>10, <2>11 DEF IInv
<1>4. CASE DeleteChatRowsFails(q)
  <2>1. /\ req' \in [Requests -> RequestType]
        /\ req'[q].step = "idle" /\ req'[q].chat = NoChat
        /\ req'[q].docs = {} /\ req'[q].left = {}
        /\ \A p \in Requests \ {q} : req'[p] = req[p]
    BY <1>4, Ended DEF DeleteChatRowsFails, IInv
  <2>2. /\ req[q].step = "deleteChatRows" /\ End(q)
        /\ UNCHANGED <<row, file, chat, cleanup>>
        /\ \/ req[q].chat \notin chat /\ hit' = hit
           \/ hit' = hit \cup req[q].docs
    BY <1>4 DEF DeleteChatRowsFails, At, Fault
  <2>3. CASE hit' = hit \cup req[q].docs
    BY <2>2, <2>3, FailPreserves
  <2>4. CASE req[q].chat \notin chat /\ hit' = hit
    <3>1. TypeOK'
      BY <2>1, <2>2, <2>4 DEF IInv, TypeOK
    <3>2. Shapes'
      BY <2>1, <2>2, <2>4 DEF IInv, Shapes
    <3>3. UploadersAreAlone'
      BY <2>1, <2>2, <2>4 DEF IInv, UploadersAreAlone, Shapes
    <3>4. SavedFilesAreThere'
      BY <2>1, <2>2, <2>4 DEF IInv, SavedFilesAreThere, UploadersAreAlone, Shapes
    <3>5. DeletersComeLater'
      BY <2>1, <2>2, <2>4 DEF IInv, DeletersComeLater, TypeOK, RequestType
    <3>6. GoneChatsAreCleaned'
      BY <2>1, <2>2, <2>4 DEF IInv, GoneChatsAreCleaned, Shapes, DeletersComeLater
    <3>7. RowsHaveFiles'
      BY <2>1, <2>2, <2>4 DEF IInv, RowsHaveFiles, GoneChatsAreCleaned, Shapes
    <3>8. FilesHaveRows'
      BY <2>1, <2>2, <2>4 DEF IInv, FilesHaveRows, DeletersComeLater, GoneChatsAreCleaned, Shapes
    <3> QED
      BY <3>1, <3>2, <3>3, <3>4, <3>5, <3>6, <3>7, <3>8 DEF IInv
  <2> QED
    BY <2>2, <2>3, <2>4
<1>5. CASE SecondPrefix(q)
  <2>1. /\ req' \in [Requests -> RequestType]
        /\ req'[q].step = "idle" /\ req'[q].chat = NoChat
        /\ req'[q].docs = {} /\ req'[q].left = {}
        /\ \A p \in Requests \ {q} : req'[p] = req[p]
    BY <1>5, Ended DEF SecondPrefix, IInv
  <2> QED
    BY <1>5, <2>1 DEF SecondPrefix, At, IInv, TypeOK, Shapes, UploadersAreAlone,
        SavedFilesAreThere, DeletersComeLater, GoneChatsAreCleaned, RowsHaveFiles,
        FilesHaveRows
<1>6. CASE SecondPrefixFails(q)
  <2>1. /\ End(q) /\ hit' = hit \cup req[q].docs
        /\ file' \subseteq file /\ file \ req[q].docs \subseteq file'
        /\ UNCHANGED <<row, chat, cleanup>>
    BY <1>6, SomeGone DEF SecondPrefixFails, Fault
  <2> QED
    BY <2>1, FailPreserves
<1> QED
  BY <1>1, <1>2, <1>3, <1>4, <1>5, <1>6

\* One file of the deletion of all is deleted, or its failure is on record.
LEMMA NextFilePreserves ==
    ASSUME StoreAssumption, IInv, NEW q \in Requests, DeleteNextFile(q)
    PROVE  IInv'
<1> USE DEF UploadSteps, DeleteSteps, ChatSteps, Committed, BeingUploaded, BeingDeleted,
        BeingCleaned, DocsOf
<1>1. PICK d \in req[q].left :
         /\ \/ file' = file \ {d} /\ hit' = hit
            \/ hit' = hit \cup {d} /\ file' \subseteq file /\ file \ {d} \subseteq file'
         /\ req' = [req EXCEPT ![q].left = @ \ {d}]
  BY SomeGone DEF DeleteNextFile, Fault
<1>2. /\ req' \in [Requests -> RequestType]
      /\ req'[q].step = req[q].step /\ req'[q].chat = req[q].chat
      /\ req'[q].docs = req[q].docs /\ req'[q].left = req[q].left \ {d}
      /\ \A p \in Requests \ {q} : req'[p] = req[p]
  BY <1>1 DEF IInv, TypeOK, RequestType
<1>3. d \in Docs /\ req[q].step = "deleteFiles" /\ UNCHANGED <<row, chat, cleanup>>
  BY <1>1 DEF IInv, TypeOK, RequestType, DeleteNextFile, At
<1>4. TypeOK'
  BY <1>1, <1>2, <1>3 DEF IInv, TypeOK
<1>5. Shapes'
  BY <1>1, <1>2, <1>3 DEF IInv, Shapes
<1>6. UploadersAreAlone'
  BY <1>1, <1>2, <1>3 DEF IInv, UploadersAreAlone, Shapes
<1>7. SavedFilesAreThere'
  BY <1>1, <1>2, <1>3 DEF IInv, SavedFilesAreThere, DeletersComeLater, Shapes, TypeOK, RequestType
<1>8. DeletersComeLater'
  BY <1>1, <1>2, <1>3 DEF IInv, DeletersComeLater, TypeOK, RequestType
<1>9. GoneChatsAreCleaned'
  BY <1>1, <1>2, <1>3 DEF IInv, GoneChatsAreCleaned, Shapes, DeletersComeLater
<1>10. RowsHaveFiles'
  BY <1>1, <1>2, <1>3 DEF IInv, RowsHaveFiles, GoneChatsAreCleaned, Shapes
<1>11. FilesHaveRows'
  BY <1>1, <1>2, <1>3 DEF IInv, FilesHaveRows, DeletersComeLater, GoneChatsAreCleaned, Shapes
<1> QED
  BY <1>4, <1>5, <1>6, <1>7, <1>8, <1>9, <1>10, <1>11 DEF IInv

\* A request begins.
LEMMA BeginPreserves ==
    ASSUME StoreAssumption, IInv, NEW q \in Requests, Begin(q)
    PROVE  IInv'
<1> USE DEF UploadSteps, DeleteSteps, ChatSteps, Committed, BeingUploaded, BeingDeleted,
        BeingCleaned, DocsOf
<1>1. ASSUME NEW d \in Docs, BeginUpload(q, d)
      PROVE  IInv'
  <2>1. /\ Open(q, "upload", "save", ChatOf[d], {d}) /\ row[d] = "unused"
        /\ ChatOf[d] \in Chats /\ {d} \in SUBSET Docs
    BY <1>1 DEF BeginUpload, StoreAssumption
  <2>2. /\ req' \in [Requests -> RequestType]
        /\ req[q].step = "idle" /\ ChatOf[d] \in chat
        /\ req'[q].step = "save" /\ req'[q].chat = ChatOf[d]
        /\ req'[q].docs = {d} /\ req'[q].left = {d}
        /\ \A p \in Requests \ {q} : req'[p] = req[p]
    BY <2>1, Opened DEF IInv, Steps
  <2>3. /\ row' \in [Docs -> {"unused", "none", "PENDING", "UPLOADED"}]
        /\ row'[d] = "none" /\ \A e \in Docs \ {d} : row'[e] = row[e]
        /\ UNCHANGED <<file, chat, cleanup, hit>>
    BY <1>1 DEF BeginUpload, IInv, TypeOK
  <2>4. TypeOK'
    BY <2>1, <2>2, <2>3 DEF IInv, TypeOK
  <2>5. Shapes'
    BY <2>1, <2>2, <2>3 DEF IInv, Shapes
  <2>6. UploadersAreAlone'
    BY <2>1, <2>2, <2>3 DEF IInv, UploadersAreAlone, Shapes, TypeOK, RequestType
  <2>7. SavedFilesAreThere'
    BY <2>1, <2>2, <2>3 DEF IInv, SavedFilesAreThere, UploadersAreAlone, Shapes
  <2>8. DeletersComeLater'
    <3>1. \A e \in Docs \ {d} : BeingUploaded(e)' => BeingUploaded(e)
      BY <2>2
    <3>2. \A p \in Requests : req[p].docs \subseteq Docs
      BY DEF IInv, TypeOK, RequestType
    <3> HIDE DEF BeingUploaded
    <3> QED
      BY <2>1, <2>2, <2>3, <3>1, <3>2 DEF IInv, DeletersComeLater
  <2>9. GoneChatsAreCleaned'
    BY <2>1, <2>2, <2>3 DEF IInv, GoneChatsAreCleaned, Shapes, DeletersComeLater
  <2>10. RowsHaveFiles'
    BY <2>1, <2>2, <2>3 DEF IInv, RowsHaveFiles, GoneChatsAreCleaned, Shapes
  <2>11. FilesHaveRows'
    BY <2>1, <2>2, <2>3 DEF IInv, FilesHaveRows, DeletersComeLater, GoneChatsAreCleaned, Shapes
  <2> QED
    BY <2>4, <2>5, <2>6, <2>7, <2>8, <2>9, <2>10, <2>11 DEF IInv
<1>2. ASSUME NEW c \in Chats, NEW docs \in SUBSET Docs, NEW kind, NEW step \in Steps,
             Open(q, kind, step, c, docs), docs \subseteq DocsOf(c),
             \A d \in docs : Committed(d) \/ step = "firstPrefix",
             \/ step = "deleteFile" /\ \E d \in Docs : docs = {d}
             \/ step = "deleteFiles"
             \/ step = "firstPrefix" /\ docs = DocsOf(c),
             UNCHANGED <<row, file, chat, cleanup, hit>>
      PROVE  IInv'
  <2>1. /\ req' \in [Requests -> RequestType]
        /\ req[q].step = "idle" /\ c \in chat
        /\ req'[q].step = step /\ req'[q].chat = c
        /\ req'[q].docs = docs /\ req'[q].left = docs
        /\ \A p \in Requests \ {q} : req'[p] = req[p]
    BY <1>2, Opened DEF IInv
  <2>2. TypeOK'
    BY <1>2, <2>1 DEF IInv, TypeOK
  <2>3. Shapes'
    BY <1>2, <2>1 DEF IInv, Shapes
  <2>4. UploadersAreAlone'
    BY <1>2, <2>1 DEF IInv, UploadersAreAlone, Shapes
  <2>5. SavedFilesAreThere'
    BY <1>2, <2>1 DEF IInv, SavedFilesAreThere, UploadersAreAlone, Shapes
  <2>6. DeletersComeLater'
    <3>1. \A e \in Docs : BeingUploaded(e)' => BeingUploaded(e)
      BY <1>2, <2>1
    <3>2. \A p \in Requests : req[p].docs \subseteq Docs
      BY DEF IInv, TypeOK, RequestType
    <3>3. \A e \in Docs : Committed(e) => row[e] # "unused" /\ ~BeingUploaded(e)
      BY DEF IInv, UploadersAreAlone
    <3> HIDE DEF BeingUploaded, Committed
    <3> QED
      BY <1>2, <2>1, <3>1, <3>2, <3>3 DEF IInv, DeletersComeLater
  <2>7. GoneChatsAreCleaned'
    BY <1>2, <2>1 DEF IInv, GoneChatsAreCleaned, Shapes, DeletersComeLater
  <2>8. RowsHaveFiles'
    BY <1>2, <2>1 DEF IInv, RowsHaveFiles, GoneChatsAreCleaned, Shapes
  <2>9. FilesHaveRows'
    BY <1>2, <2>1 DEF IInv, FilesHaveRows, DeletersComeLater, GoneChatsAreCleaned, Shapes
  <2> QED
    BY <2>2, <2>3, <2>4, <2>5, <2>6, <2>7, <2>8, <2>9 DEF IInv
<1>3. ASSUME NEW d \in Docs, BeginDelete(q, d)
      PROVE  IInv'
  <2>1. ChatOf[d] \in Chats /\ {d} \in SUBSET Docs /\ {d} \subseteq DocsOf(ChatOf[d])
    BY DEF StoreAssumption
  <2> QED
    BY <1>2, <1>3, <2>1 DEF BeginDelete, Steps
<1>4. ASSUME NEW c \in Chats, BeginDeleteAll(q, c)
      PROVE  IInv'
  <2> DEFINE listed == {d \in DocsOf(c) : Committed(d)}
  <2>1. /\ Open(q, "deleteAll", "deleteFiles", c, listed)
        /\ UNCHANGED <<row, file, chat, cleanup, hit>>
    BY <1>4 DEF BeginDeleteAll
  <2>2. /\ listed \in SUBSET Docs /\ listed \subseteq DocsOf(c)
        /\ \A d \in listed : Committed(d)
    OBVIOUS
  <2> HIDE DEF listed
  <2> QED
    BY <1>2, <2>1, <2>2 DEF Steps
<1>5. ASSUME NEW c \in Chats, BeginDeleteChat(q, c)
      PROVE  IInv'
  <2>1. DocsOf(c) \in SUBSET Docs
    OBVIOUS
  <2> QED
    BY <1>2, <1>5, <2>1 DEF BeginDeleteChat, Steps
<1> QED
  BY <1>1, <1>3, <1>4, <1>5 DEF Begin

\* The rows of a user are deleted.
LEMMA ExpirePreserves ==
    ASSUME StoreAssumption, IInv, ExpireUser
    PROVE  IInv'
<1> USE DEF UploadSteps, DeleteSteps, ChatSteps, Committed, BeingUploaded, BeingDeleted,
        BeingCleaned, DocsOf
<1>1. /\ row' \in [Docs -> {"unused", "none", "PENDING", "UPLOADED"}]
      /\ \A d \in Docs : row'[d] = IF Committed(d) THEN "none" ELSE row[d]
  BY DEF ExpireUser, RowsGone, IInv, TypeOK
<1>2. /\ chat' = {} /\ cleanup' = cleanup \cup chat
      /\ \A p \in Requests : req[p].step \notin UploadSteps
      /\ UNCHANGED <<file, req, hit>>
  BY DEF ExpireUser, Uploading, IInv, UploadersAreAlone
<1>3. TypeOK'
  BY <1>1, <1>2 DEF IInv, TypeOK
<1>4. Shapes'
  BY <1>1, <1>2 DEF IInv, Shapes
<1>5. UploadersAreAlone'
  BY <1>1, <1>2 DEF IInv, UploadersAreAlone, Shapes
<1>6. SavedFilesAreThere'
  BY <1>1, <1>2 DEF IInv, SavedFilesAreThere, UploadersAreAlone, Shapes
<1>7. DeletersComeLater'
  BY <1>1, <1>2 DEF IInv, DeletersComeLater, TypeOK, RequestType
<1>8. GoneChatsAreCleaned'
  BY <1>1, <1>2 DEF IInv, GoneChatsAreCleaned, FilesHaveRows, TypeOK, StoreAssumption
<1>9. RowsHaveFiles'
  BY <1>1, <1>2 DEF IInv, RowsHaveFiles, GoneChatsAreCleaned, Shapes
<1>10. FilesHaveRows'
  BY <1>1, <1>2 DEF IInv, FilesHaveRows, GoneChatsAreCleaned
<1> QED
  BY <1>3, <1>4, <1>5, <1>6, <1>7, <1>8, <1>9, <1>10 DEF IInv

\* The files of a chat session whose rows are gone are deleted.
LEMMA CleanPreserves ==
    ASSUME StoreAssumption, IInv, NEW c \in Chats, Clean(c)
    PROVE  IInv'
<1> USE DEF UploadSteps, DeleteSteps, ChatSteps, Committed, BeingUploaded, BeingDeleted,
        BeingCleaned, DocsOf
<1>1. /\ c \in cleanup /\ cleanup' = cleanup \ {c} /\ UNCHANGED <<row, chat, req>>
      /\ file' \subseteq file /\ file \ DocsOf(c) \subseteq file'
      /\ \/ hit' = hit /\ file' \cap DocsOf(c) = {}
         \/ hit' = hit \cup DocsOf(c)
  BY SomeGone DEF Clean, CleanFiles, CleanFilesFails, Fault
<1>2. c \notin chat
  BY <1>1 DEF IInv, GoneChatsAreCleaned
<1>3. TypeOK'
  BY <1>1, <1>2 DEF IInv, TypeOK
<1>4. Shapes'
  BY <1>1, <1>2 DEF IInv, Shapes
<1>5. UploadersAreAlone'
  BY <1>1, <1>2 DEF IInv, UploadersAreAlone, Shapes
<1>6. SavedFilesAreThere'
  BY <1>1, <1>2 DEF IInv, SavedFilesAreThere, UploadersAreAlone, Shapes
<1>7. DeletersComeLater'
  BY <1>1, <1>2 DEF IInv, DeletersComeLater, TypeOK, RequestType
<1>8. GoneChatsAreCleaned'
  BY <1>1, <1>2 DEF IInv, GoneChatsAreCleaned, Shapes, DeletersComeLater
<1>9. RowsHaveFiles'
  BY <1>1, <1>2 DEF IInv, RowsHaveFiles, GoneChatsAreCleaned, Shapes
<1>10. FilesHaveRows'
  BY <1>1, <1>2 DEF IInv, FilesHaveRows, DeletersComeLater, GoneChatsAreCleaned, Shapes
<1> QED
  BY <1>3, <1>4, <1>5, <1>6, <1>7, <1>8, <1>9, <1>10 DEF IInv

\* Rule 4 of the sweeper deletes rows and their files together.
LEMMA SweepPreserves ==
    ASSUME StoreAssumption, IInv, RemoveAbandonedPending
    PROVE  IInv'
<1> USE DEF UploadSteps, DeleteSteps, ChatSteps, Committed, BeingUploaded, BeingDeleted,
        BeingCleaned, DocsOf
<1> DEFINE abandoned == {d \in Docs : row[d] = "PENDING"}
<1>1. /\ row' \in [Docs -> {"unused", "none", "PENDING", "UPLOADED"}]
      /\ \A d \in Docs : row'[d] = IF d \in abandoned THEN "none" ELSE row[d]
  BY DEF RemoveAbandonedPending, RowsGone, IInv, TypeOK
<1>2. file' = file \ abandoned /\ UNCHANGED <<chat, req, cleanup, hit>>
  BY DEF RemoveAbandonedPending
<1>3. TypeOK'
  BY <1>1, <1>2 DEF IInv, TypeOK
<1>4. Shapes'
  BY <1>1, <1>2 DEF IInv, Shapes
<1>5. UploadersAreAlone'
  BY <1>1, <1>2 DEF IInv, UploadersAreAlone, Shapes
<1>6. SavedFilesAreThere'
  BY <1>1, <1>2 DEF IInv, SavedFilesAreThere, UploadersAreAlone
<1>7. DeletersComeLater'
  BY <1>1, <1>2 DEF IInv, DeletersComeLater, TypeOK, RequestType
<1>8. GoneChatsAreCleaned'
  BY <1>1, <1>2 DEF IInv, GoneChatsAreCleaned, Shapes, DeletersComeLater
<1>9. RowsHaveFiles'
  BY <1>1, <1>2 DEF IInv, RowsHaveFiles, GoneChatsAreCleaned, Shapes
<1>10. FilesHaveRows'
  BY <1>1, <1>2 DEF IInv, FilesHaveRows, DeletersComeLater, GoneChatsAreCleaned, Shapes
<1> QED
  BY <1>3, <1>4, <1>5, <1>6, <1>7, <1>8, <1>9, <1>10 DEF IInv

\* The server dies, and what it was working on is on record.
LEMMA CrashPreserves ==
    ASSUME StoreAssumption, IInv, Crash
    PROVE  IInv'
<1> USE DEF UploadSteps, DeleteSteps, ChatSteps, Committed, BeingUploaded, BeingDeleted,
        BeingCleaned, DocsOf
<1> DEFINE dropped == UNION {req[q].docs : q \in Requests}
           uncleaned == {d \in Docs : ChatOf[d] \in cleanup}
<1>1. /\ req' = [q \in Requests |-> NoRequest] /\ cleanup' = {}
      /\ hit' = hit \cup (dropped \cup uncleaned)
      /\ UNCHANGED <<row, file, chat>>
  BY DEF Crash, Fault
<1>2. /\ req' \in [Requests -> RequestType]
      /\ \A q \in Requests : req'[q].step = "idle" /\ req'[q].docs = {} /\ req'[q].left = {}
  <2>1. NoRequest \in RequestType
    BY DEF NoRequest, RequestType, Steps
  <2> QED
    BY <1>1, <2>1 DEF NoRequest
<1>3. /\ \A q \in Requests : req[q].docs \subseteq hit'
      /\ \A d \in Docs : ChatOf[d] \in cleanup => d \in hit'
      /\ hit \subseteq hit' /\ hit' \subseteq Docs
  <2>1. \A q \in Requests : req[q].docs \subseteq Docs
    BY DEF IInv, TypeOK, RequestType
  <2>2. dropped \subseteq Docs /\ \A q \in Requests : req[q].docs \subseteq dropped
    BY <2>1
  <2>3. uncleaned \subseteq Docs /\ \A d \in Docs : ChatOf[d] \in cleanup => d \in uncleaned
    OBVIOUS
  <2>4. hit \subseteq Docs
    BY DEF IInv, TypeOK
  <2> HIDE DEF dropped, uncleaned
  <2> QED
    BY <1>1, <2>2, <2>3, <2>4
<1> HIDE DEF dropped, uncleaned
<1>4. TypeOK'
  BY <1>1, <1>2, <1>3 DEF IInv, TypeOK
<1>5. Shapes'
  BY <1>1, <1>2, <1>3 DEF IInv, Shapes
<1>6. UploadersAreAlone'
  BY <1>1, <1>2, <1>3 DEF IInv, UploadersAreAlone, Shapes
<1>7. SavedFilesAreThere'
  BY <1>1, <1>2, <1>3 DEF IInv, SavedFilesAreThere, UploadersAreAlone, Shapes
<1>8. DeletersComeLater'
  BY <1>1, <1>2, <1>3 DEF IInv, DeletersComeLater, TypeOK, RequestType
<1>9. GoneChatsAreCleaned'
  BY <1>1, <1>2, <1>3 DEF IInv, GoneChatsAreCleaned, Shapes, DeletersComeLater
<1>10. RowsHaveFiles'
  BY <1>1, <1>2, <1>3 DEF IInv, RowsHaveFiles, GoneChatsAreCleaned, Shapes
<1>11. FilesHaveRows'
  BY <1>1, <1>2, <1>3 DEF IInv, FilesHaveRows, DeletersComeLater, GoneChatsAreCleaned, Shapes
<1> QED
  BY <1>4, <1>5, <1>6, <1>7, <1>8, <1>9, <1>10, <1>11 DEF IInv

\* Every step keeps the invariant.
LEMMA NextPreserves == ASSUME StoreAssumption, IInv, [Next]_vars PROVE IInv'
<1>1. ASSUME NEW q \in Requests, Begin(q)
      PROVE  IInv'
  BY <1>1, BeginPreserves
<1>2. ASSUME NEW q \in Requests, Continue(q)
      PROVE  IInv'
  BY <1>2, UploadPreserves, DeletePreserves, DeleteAllPreserves, NextFilePreserves,
     DeleteChatPreserves DEF Continue
<1>3. CASE ExpireUser
  BY <1>3, ExpirePreserves
<1>4. ASSUME NEW c \in Chats, Clean(c)
      PROVE  IInv'
  BY <1>4, CleanPreserves
<1>5. CASE RemoveAbandonedPending
  BY <1>5, SweepPreserves
<1>6. CASE Crash
  BY <1>6, CrashPreserves
<1>7. CASE UNCHANGED vars
  BY <1>7 DEF vars, IInv, TypeOK, Shapes, UploadersAreAlone, SavedFilesAreThere,
        DeletersComeLater, GoneChatsAreCleaned, RowsHaveFiles, FilesHaveRows, Committed,
        BeingUploaded, BeingDeleted, BeingCleaned
<1> QED
  BY <1>1, <1>2, <1>3, <1>4, <1>5, <1>6, <1>7 DEF Next

-----------------------------------------------------------------------------

\* The inductive invariant: what the rows, the files and the requests under way
\* say of each other.
THEOREM Invariance == Spec => []IInv
<1>1. Init => IInv
  BY InitIInv, StoreAssumption
<1>2. IInv /\ [Next]_vars => IInv'
  BY NextPreserves, StoreAssumption
<1> QED
  BY <1>1, <1>2, PTL DEF Spec, SafetySpec

\* The type of rows, files and requests.
THEOREM TypeCorrect == Spec => []TypeOK
<1>1. IInv => TypeOK
  BY DEF IInv
<1> QED
  BY <1>1, Invariance, PTL

\* However requests overlap, a row has its file, unless a request is about to
\* delete the row or a call that concerned the document has failed.
THEOREM RowsKeepFiles == Spec => []RowsHaveFiles
<1>1. IInv => RowsHaveFiles
  BY DEF IInv
<1> QED
  BY <1>1, Invariance, PTL

\* However requests overlap, a file has its row, unless a request is at work on
\* the document or a call that concerned it has failed.
THEOREM FilesKeepRows == Spec => []FilesHaveRows
<1>1. IInv => FilesHaveRows
  BY DEF IInv
<1> QED
  BY <1>1, Invariance, PTL
=============================================================================
