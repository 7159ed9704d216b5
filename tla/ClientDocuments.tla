--------------------------- MODULE ClientDocuments ---------------------------
(***************************************************************************)
(* Documents that clients upload (app/documents): the table                *)
(* client_documents, the background task that indexes each document into   *)
(* documents.embeddings, and the requests that delete and read them.       *)
(*                                                                         *)
(* A task lives in the memory of the server, its progress only in the      *)
(* status it writes.  One action is the code between two awaits that give  *)
(* the database a statement.                                               *)
(***************************************************************************)
EXTENDS Integers, FiniteSets

CONSTANTS
    Docs,       \* UUIDs of documents, never reused
    Requests,   \* HTTP requests that can be in progress together
    MaxPieces,  \* bound: chunks a document is split into
    Faults,     \* TRUE: database calls may fail and the server may restart
    NoRow, NoDoc

\* DocumentStatus; UPLOADING is declared by the code but written nowhere.
Statuses == {"UPLOADED", "PROCESSING", "INDEXED", "FAILED"}

Pieces == 0..MaxPieces

Row == [status: Statuses, count: Pieces]

\* What a task does next: mark the document, index it, record the outcome, or
\* record the exception it caught.
TaskSteps == {"none", "mark", "index", "record", "give_up"}

\* What a request does next.
RequestSteps == {"idle", "upload_reply", "clean", "delete_row", "read_chunks"}

\* The document a request works on, the row it read, and whether its session has
\* a transaction open: the first statement begins one, a commit ends it.
Request == [doc: Docs \cup {NoDoc}, seen: Row \cup {NoRow}, begun: BOOLEAN]

ASSUME DocsFinite == IsFiniteSet(Docs)
ASSUME MaxPiecesNat == MaxPieces \in Nat \ {0}
ASSUME FaultsBoolean == Faults \in BOOLEAN
ASSUME Sentinels == NoRow \notin Row /\ NoDoc \notin Docs

VARIABLES
    row,        \* client_documents: document -> row, or NoRow
    used,       \* documents that were given a row, deleted or not
    pieces,     \* chunks that the text of each document is split into
    chunks,     \* rows of documents.embeddings, by document
    task,       \* next step of the background task of each document
    pc,         \* next step of each request
    req         \* locals of each request

vars == <<row, used, pieces, chunks, task, pc, req>>
requestVars == <<pc, req>>

NoRequest == [doc |-> NoDoc, seen |-> NoRow, begun |-> FALSE]

Init ==
    /\ row = [d \in Docs |-> NoRow]
    /\ used = {}
    /\ pieces = [d \in Docs |-> 0]
    /\ chunks = [d \in Docs |-> 0]
    /\ task = [d \in Docs |-> "none"]
    /\ pc = [r \in Requests |-> "idle"]
    /\ req = [r \in Requests |-> NoRequest]

Exists(d) == row[d] # NoRow

Wait(r, step, locals) ==
    /\ pc' = [pc EXCEPT ![r] = step]
    /\ req' = [req EXCEPT ![r] = locals]

Answer(r) == Wait(r, "idle", NoRequest)

-----------------------------------------------------------------------------
(* POST /documents/upload *)

\* Mutation: the row is created in the first status of the life cycle that
\* models.py describes.
UploadInsertUploading(r, d, n) ==
    /\ pc[r] = "idle" /\ d \notin used
    /\ row' = [row EXCEPT ![d] = [status |-> "UPLOADING", count |-> 0]]
    /\ used' = used \cup {d}
    /\ pieces' = [pieces EXCEPT ![d] = n]
    /\ Wait(r, "upload_reply", [NoRequest EXCEPT !.doc = d])
    /\ UNCHANGED <<chunks, task>>

\* repository.create, for a text of n chunks (0: nothing could be extracted)
UploadInsert(r, d, n) ==
    /\ pc[r] = "idle" /\ d \notin used
    /\ row' = [row EXCEPT ![d] = [status |-> "UPLOADED", count |-> 0]]
    /\ used' = used \cup {d}
    /\ pieces' = [pieces EXCEPT ![d] = n]
    /\ Wait(r, "upload_reply", [NoRequest EXCEPT !.doc = d])
    /\ UNCHANGED <<chunks, task>>

\* create reads its row back; the task starts once the response is sent.  A row
\* deleted in between makes the handler raise: no task.
UploadReply(r) ==
    LET d == req[r].doc
    IN  /\ pc[r] = "upload_reply"
        /\ task' = IF Exists(d) THEN [task EXCEPT ![d] = "mark"] ELSE task
        /\ Answer(r)
        /\ UNCHANGED <<row, used, pieces, chunks>>

-----------------------------------------------------------------------------
(* _process_document *)

\* Mutation: the status is upserted, whether the row is still there or not.
UpsertStatus(d, status, n) ==
    row' = [row EXCEPT ![d] = [status |-> status, count |-> n]]

\* repository.update_status: an UPDATE, of no row when the document is gone.
WriteStatus(d, status, n) ==
    row' = IF Exists(d)
           THEN [row EXCEPT ![d] = [status |-> status, count |-> n]] ELSE row

MarkProcessing(d) ==
    /\ task[d] = "mark"
    /\ WriteStatus(d, "PROCESSING", 0)
    /\ task' = [task EXCEPT ![d] = "index"]
    /\ UNCHANGED <<used, pieces, chunks, requestVars>>

\* Mutation: an empty text ends the task without a word.
RejectEmptySilently(d) ==
    /\ task[d] = "index" /\ pieces[d] = 0
    /\ task' = [task EXCEPT ![d] = "none"]
    /\ UNCHANGED <<row, used, pieces, chunks, requestVars>>

RejectEmpty(d) ==
    /\ task[d] = "index" /\ pieces[d] = 0
    /\ WriteStatus(d, "FAILED", 0)
    /\ task' = [task EXCEPT ![d] = "none"]
    /\ UNCHANGED <<used, pieces, chunks, requestVars>>

\* Mutation: the session of the vector store is closed without a commit.
StoreChunksNoCommit(d) ==
    /\ task[d] = "index" /\ pieces[d] > 0
    /\ task' = [task EXCEPT ![d] = "record"]
    /\ UNCHANGED <<row, used, pieces, chunks, requestVars>>

\* The chunks are stored by one transaction of the vector store's own session.
StoreChunks(d) ==
    /\ task[d] = "index" /\ pieces[d] > 0
    /\ chunks' = [chunks EXCEPT ![d] = pieces[d]]
    /\ task' = [task EXCEPT ![d] = "record"]
    /\ UNCHANGED <<row, used, pieces, requestVars>>

\* Mutation: chunks are committed one by one.
IndexingRaisesPartway(d) ==
    /\ task[d] = "index" /\ pieces[d] > 0
    /\ chunks' \in {[chunks EXCEPT ![d] = n] : n \in 0..pieces[d]}
    /\ task' = [task EXCEPT ![d] = "give_up"]
    /\ UNCHANGED <<row, used, pieces, requestVars>>

\* Extraction, embedding or the transaction of the chunks raises; with Faults
\* the transaction may have been committed all the same.
IndexingRaises(d) ==
    /\ task[d] = "index" /\ pieces[d] > 0
    /\ \/ UNCHANGED chunks
       \/ Faults /\ chunks' = [chunks EXCEPT ![d] = pieces[d]]
    /\ task' = [task EXCEPT ![d] = "give_up"]
    /\ UNCHANGED <<row, used, pieces, requestVars>>

RecordIndexed(d) ==
    /\ task[d] = "record"
    /\ WriteStatus(d, "INDEXED", pieces[d])
    /\ task' = [task EXCEPT ![d] = "none"]
    /\ UNCHANGED <<used, pieces, chunks, requestVars>>

\* except Exception: the failure is recorded
RecordFailure(d) ==
    /\ task[d] = "give_up"
    /\ WriteStatus(d, "FAILED", 0)
    /\ task' = [task EXCEPT ![d] = "none"]
    /\ UNCHANGED <<used, pieces, chunks, requestVars>>

\* A write of the status fails, before or after its commit.
StatusWriteFails(d) ==
    /\ Faults
    /\ \/ /\ task[d] = "mark"
          /\ WriteStatus(d, "PROCESSING", 0) \/ UNCHANGED row
       \/ /\ task[d] = "index" /\ pieces[d] = 0
          /\ WriteStatus(d, "FAILED", 0) \/ UNCHANGED row
       \/ /\ task[d] = "record"
          /\ WriteStatus(d, "INDEXED", pieces[d]) \/ UNCHANGED row
    /\ task' = [task EXCEPT ![d] = "give_up"]
    /\ UNCHANGED <<used, pieces, chunks, requestVars>>

\* The failure is recorded on the session that has just failed and was not
\* rolled back: that raises again and ends the task.
FailureNotRecorded(d) ==
    /\ Faults
    /\ task[d] = "give_up"
    /\ task' = [task EXCEPT ![d] = "none"]
    /\ UNCHANGED <<row, used, pieces, chunks, requestVars>>

-----------------------------------------------------------------------------
(* DELETE /documents/{id} *)

\* get_by_id, which begins a transaction in the session of the request
ReadInto(r, d, step) ==
    /\ pc[r] = "idle" /\ d \in used
    /\ IF Exists(d)
       THEN Wait(r, step, [doc |-> d, seen |-> row[d], begun |-> TRUE])
       ELSE Answer(r)
    /\ UNCHANGED <<row, used, pieces, chunks, task>>

\* Mutation: the session commits once the row is read.
DeleteReadCommitted(r, d) ==
    /\ pc[r] = "idle" /\ d \in used
    /\ IF Exists(d)
       THEN Wait(r, "clean", [doc |-> d, seen |-> row[d], begun |-> FALSE])
       ELSE Answer(r)
    /\ UNCHANGED <<row, used, pieces, chunks, task>>

DeleteRead(r, d) == ReadInto(r, d, "clean")

\* session.begin() raises in a session whose transaction is begun: the exception
\* is logged, and the deletion of the chunks skipped.
Clean(r) ==
    /\ pc[r] = "clean"
    /\ chunks' = IF req[r].begun THEN chunks
                 ELSE [chunks EXCEPT ![req[r].doc] = 0]
    /\ Wait(r, "delete_row", req[r])
    /\ UNCHANGED <<row, used, pieces, task>>

DeleteRow(r) ==
    /\ pc[r] = "delete_row"
    /\ row' = [row EXCEPT ![req[r].doc] = NoRow]
    /\ Answer(r)
    /\ UNCHANGED <<used, pieces, chunks, task>>

-----------------------------------------------------------------------------
(* GET .../{id}/content, POST .../{id}/test-chat: the row, then the chunks *)

ReadRow(r, d) == ReadInto(r, d, "read_chunks")

ReadChunks(r) ==
    /\ pc[r] = "read_chunks"
    /\ Answer(r)
    /\ UNCHANGED <<row, used, pieces, chunks, task>>

-----------------------------------------------------------------------------

RequestFails(r) ==
    /\ Faults
    /\ pc[r] # "idle"
    /\ Answer(r)
    /\ UNCHANGED <<row, used, pieces, chunks, task>>

\* The server restarts: tasks and requests are lost, nothing resumes them.
Restart ==
    /\ Faults
    /\ task' = [d \in Docs |-> "none"]
    /\ pc' = [r \in Requests |-> "idle"]
    /\ req' = [r \in Requests |-> NoRequest]
    /\ UNCHANGED <<row, used, pieces, chunks>>

Begin(r) ==
    \/ \E d \in Docs, n \in Pieces : UploadInsert(r, d, n)
    \/ \E d \in Docs : DeleteRead(r, d) \/ ReadRow(r, d)

Resume(r) == UploadReply(r) \/ Clean(r) \/ DeleteRow(r) \/ ReadChunks(r)

RunTask(d) ==
    \/ MarkProcessing(d) \/ RejectEmpty(d)
    \/ StoreChunks(d) \/ IndexingRaises(d)
    \/ RecordIndexed(d) \/ RecordFailure(d)

TaskFails(d) == StatusWriteFails(d) \/ FailureNotRecorded(d)

Next ==
    \/ \E r \in Requests : Begin(r) \/ Resume(r) \/ RequestFails(r)
    \/ \E d \in Docs : RunTask(d) \/ TaskFails(d)
    \/ Restart

Spec == Init /\ [][Next]_vars

\* The event loop runs what it has started; nobody has to send a request.
FairSpec ==
    /\ Spec
    /\ \A r \in Requests : WF_vars(Resume(r))
    /\ \A d \in Docs : WF_vars(RunTask(d))
-----------------------------------------------------------------------------
(* Properties *)

RowsTyped ==
    /\ row \in [Docs -> Row \cup {NoRow}]
    /\ used \subseteq Docs
    /\ pieces \in [Docs -> Pieces]
    /\ chunks \in [Docs -> Pieces]

WorkTyped ==
    /\ task \in [Docs -> TaskSteps]
    /\ pc \in [Requests -> RequestSteps]
    /\ req \in [Requests -> Request]
    /\ \A r \in Requests : pc[r] # "idle" => req[r].doc \in Docs

TypeOK == RowsTyped /\ WorkTyped

\* A document shown INDEXED can be searched whole, with the number of chunks
\* that its row tells, whatever failed or was lost.
IndexedIsWhole ==
    \A d \in Docs : Exists(d) /\ row[d].status = "INDEXED"
        => chunks[d] = pieces[d] /\ row[d].count = pieces[d] /\ pieces[d] > 0

\* GET content reads the row, then the chunks: a client answered INDEXED is
\* given all of them, although the document may be deleted in between.
ReaderOfIndexedSeesAll ==
    \A r \in Requests :
        pc[r] = "read_chunks" /\ req[r].seen.status = "INDEXED"
            => chunks[req[r].doc] = pieces[req[r].doc]

\* A document shown FAILED left nothing that questions could be answered from.
FailedLeavesNothing ==
    \A d \in Docs :
        Exists(d) /\ row[d].status = "FAILED" => chunks[d] = 0

\* A status only moves forward, and a late task never brings a deleted document
\* back.  (FAILED can follow INDEXED when an acknowledgement was lost.)
Rank == [UPLOADED |-> 1, PROCESSING |-> 2, INDEXED |-> 3, FAILED |-> 4]

StatusMovesForward ==
    [][\A d \in used :
         Exists(d)' => /\ Exists(d)
                       /\ Rank[row[d].status] <= Rank[row'[d].status]]_vars

\* The life cycle of models.py, for one that looks at the table only.  Every
\* document that was accepted is settled or deleted in the end.
Phase(d) ==
    IF d \notin used THEN "absent"
    ELSE IF ~Exists(d) THEN "deleted"
    ELSE IF row[d].status = "INDEXED" THEN "indexed"
    ELSE IF row[d].status = "FAILED" THEN "failed"
    ELSE "waiting"

Lifecycle == INSTANCE DocumentLifecycle
    WITH phase <- [d \in Docs |-> Phase(d)]

ImplementsLifecycle == Lifecycle!FairSpec

\* router.py: "DELETE /documents/{id} → Suppression (métadonnées + chunks)".  When the
\* row of a document goes that its deletion read as INDEXED, no chunk of it is left.
\* (A document that is deleted while its task runs may get chunks later: not claimed.)
ChunksGoWithTheirDocument ==
    [][\A r \in Requests :
          DeleteRow(r) /\ req[r].seen.status = "INDEXED" => chunks'[req[r].doc] = 0]_vars
=============================================================================
