------------------------ MODULE ClientDocumentsProofs ------------------------
(***************************************************************************)
(* Theorems about ClientDocuments, for every set of documents and requests *)
(* and every number of chunks; failures and restarts included unless a     *)
(* theorem assumes ~Faults.                                                *)
(***************************************************************************)
EXTENDS ClientDocuments, TLAPS

-----------------------------------------------------------------------------
(* The type invariant *)

LEMMA WriteStatusTyped ==
    ASSUME TypeOK, NEW d \in Docs, NEW s \in Statuses, NEW n \in Pieces,
           WriteStatus(d, s, n)
    PROVE  row' \in [Docs -> Row \cup {NoRow}]
BY DEF TypeOK, RowsTyped, WriteStatus, Row

LEMMA WaitTyped ==
    ASSUME TypeOK, NEW r \in Requests, NEW step \in RequestSteps,
           NEW locals \in Request, step # "idle" => locals.doc \in Docs,
           Wait(r, step, locals), task' \in [Docs -> TaskSteps]
    PROVE  WorkTyped'
BY DEF TypeOK, WorkTyped, Wait

LEMMA AnswerTyped ==
    ASSUME TypeOK, NEW r \in Requests, Answer(r), task' \in [Docs -> TaskSteps]
    PROVE  WorkTyped'
BY WaitTyped DEF Answer, NoRequest, Request, RequestSteps

LEMMA RequestStepTyped ==
    ASSUME TypeOK, NEW r \in Requests, Begin(r) \/ Resume(r) \/ RequestFails(r)
    PROVE  TypeOK'
<1> USE DEF TypeOK, RowsTyped
<1>1. ASSUME NEW d \in Docs, NEW n \in Pieces, UploadInsert(r, d, n)
      PROVE  TypeOK'
  <2>1. [NoRequest EXCEPT !.doc = d] \in Request
        /\ [NoRequest EXCEPT !.doc = d].doc = d
    BY DEF NoRequest, Request
  <2>2. WorkTyped'
    BY <1>1, <2>1, WaitTyped DEF UploadInsert, WorkTyped, RequestSteps
  <2>3. [status |-> "UPLOADED", count |-> 0] \in Row
    BY MaxPiecesNat DEF Row, Statuses, Pieces
  <2> QED
    BY <1>1, <2>2, <2>3 DEF UploadInsert
<1>2. ASSUME NEW d \in Docs, NEW step \in {"clean", "read_chunks"},
             ReadInto(r, d, step)
      PROVE  TypeOK'
  <2>1. CASE Exists(d)
    <3>1. [doc |-> d, seen |-> row[d], begun |-> TRUE] \in Request
      BY DEF Request
    <3> QED
      BY <1>2, <2>1, <3>1, WaitTyped DEF ReadInto, WorkTyped, RequestSteps
  <2>2. CASE ~Exists(d)
    BY <1>2, <2>2, AnswerTyped DEF ReadInto, WorkTyped
  <2> QED
    BY <2>1, <2>2
<1>3. CASE UploadReply(r)
  <2>1. task' \in [Docs -> TaskSteps]
    BY <1>3 DEF UploadReply, WorkTyped, TaskSteps
  <2> QED
    BY <1>3, <2>1, AnswerTyped DEF UploadReply
<1>4. CASE Clean(r)
  <2>1. req[r].doc \in Docs /\ req[r] \in Request
    BY <1>4 DEF Clean, WorkTyped
  <2>2. WorkTyped'
    BY <1>4, <2>1, WaitTyped DEF Clean, WorkTyped, RequestSteps
  <2>3. chunks' \in [Docs -> Pieces]
    BY <1>4, <2>1, MaxPiecesNat DEF Clean, Pieces
  <2> QED
    BY <1>4, <2>2, <2>3 DEF Clean
<1>5. CASE DeleteRow(r) \/ ReadChunks(r) \/ RequestFails(r)
  <2>1. WorkTyped'
    BY <1>5, AnswerTyped DEF DeleteRow, ReadChunks, RequestFails, WorkTyped
  <2> QED
    BY <1>5, <2>1 DEF DeleteRow, ReadChunks, RequestFails
<1> QED
  BY <1>1, <1>2, <1>3, <1>4, <1>5
     DEF Begin, Resume, DeleteRead, ReadRow, RequestFails

LEMMA TaskStepTyped ==
    ASSUME TypeOK, NEW d \in Docs, RunTask(d) \/ TaskFails(d)
    PROVE  TypeOK'
<1>1. task' \in [Docs -> TaskSteps] /\ UNCHANGED requestVars
  BY DEF RunTask, TaskFails, MarkProcessing, RejectEmpty, StoreChunks,
         IndexingRaises, RecordIndexed, RecordFailure, StatusWriteFails,
         FailureNotRecorded, TypeOK, WorkTyped, TaskSteps
<1>2. chunks' \in [Docs -> Pieces] /\ UNCHANGED <<used, pieces>>
  BY DEF RunTask, TaskFails, MarkProcessing, RejectEmpty, StoreChunks,
         IndexingRaises, RecordIndexed, RecordFailure, StatusWriteFails,
         FailureNotRecorded, TypeOK, RowsTyped
<1>3. \/ UNCHANGED row
      \/ \E s \in Statuses, n \in Pieces : WriteStatus(d, s, n)
  <2>1. 0 \in Pieces /\ pieces[d] \in Pieces
    BY MaxPiecesNat DEF TypeOK, RowsTyped, Pieces
  <2> QED
    BY <2>1 DEF RunTask, TaskFails, MarkProcessing, RejectEmpty, StoreChunks,
         IndexingRaises, RecordIndexed, RecordFailure, StatusWriteFails,
         FailureNotRecorded, Statuses
<1>4. row' \in [Docs -> Row \cup {NoRow}]
  BY <1>3, WriteStatusTyped DEF TypeOK, RowsTyped
<1> QED
  BY <1>1, <1>2, <1>4 DEF TypeOK, RowsTyped, WorkTyped, requestVars

\* Rows, chunks and steps stay well formed; a request that waits knows its
\* document.
THEOREM TypeInvariant == Spec => []TypeOK
<1>1. Init => TypeOK
  BY MaxPiecesNat
     DEF Init, TypeOK, RowsTyped, WorkTyped, Pieces, TaskSteps, RequestSteps,
         NoRequest, Request
<1>2. TypeOK /\ [Next]_vars => TypeOK'
  <2>1. ASSUME TypeOK, Restart PROVE TypeOK'
    BY <2>1 DEF Restart, TypeOK, RowsTyped, WorkTyped, TaskSteps, RequestSteps,
                NoRequest, Request
  <2>2. ASSUME TypeOK, UNCHANGED vars PROVE TypeOK'
    BY <2>2 DEF vars, TypeOK, RowsTyped, WorkTyped
  <2> QED
    BY <2>1, <2>2, RequestStepTyped, TaskStepTyped DEF Next
<1> QED
  BY <1>1, <1>2, PTL DEF Spec

-----------------------------------------------------------------------------
(* The inductive invariant *)

\* A task and the row of its document are at the same point of the life cycle,
\* and the chunks are all there or none.
TaskFollowsRow ==
    \A d \in Docs :
        /\ Exists(d) \/ task[d] # "none" \/ chunks[d] # 0 => d \in used
        /\ chunks[d] \in {0, pieces[d]}
        /\ task[d] = "record" => chunks[d] = pieces[d] /\ pieces[d] > 0
        /\ Exists(d) /\ task[d] = "mark" => row[d].status = "UPLOADED"
        /\ Exists(d) /\ task[d] \in {"index", "record"}
              => row[d].status = "PROCESSING"
        /\ Exists(d) /\ task[d] = "give_up" /\ ~Faults
              => row[d].status = "PROCESSING"

\* The task of a document starts once; the session of a deletion has begun its
\* transaction; what a reader has seen is still so.
RequestsFollowRows ==
    \A r \in Requests :
        /\ pc[r] # "idle" => req[r].doc \in used
        /\ pc[r] = "clean" => req[r].begun
        /\ pc[r] = "upload_reply" =>
              /\ task[req[r].doc] = "none"
              /\ Exists(req[r].doc) => row[req[r].doc].status = "UPLOADED"
              /\ \A s \in Requests :
                    pc[s] = "upload_reply" /\ req[s].doc = req[r].doc => s = r
        /\ pc[r] = "read_chunks" /\ req[r].seen.status = "INDEXED"
              => chunks[req[r].doc] = pieces[req[r].doc]

Inv == TypeOK /\ TaskFollowsRow /\ RequestsFollowRows /\ IndexedIsWhole

\* Requests and tasks that a step does not concern stay where they are.
LEMMA OthersStay ==
    ASSUME TypeOK, NEW r \in Requests, Begin(r) \/ Resume(r) \/ RequestFails(r)
    PROVE  \A s \in Requests \ {r} : UNCHANGED <<pc[s], req[s]>>
<1>1. ASSUME NEW step, NEW locals, Wait(r, step, locals)
      PROVE  \A s \in Requests \ {r} : UNCHANGED <<pc[s], req[s]>>
  BY <1>1 DEF Wait, TypeOK, WorkTyped
<1> QED
  BY <1>1 DEF Begin, Resume, RequestFails, UploadInsert, DeleteRead, ReadRow,
              ReadInto, UploadReply, Clean, DeleteRow, ReadChunks, Answer

LEMMA UploadInsertInv ==
    ASSUME Inv, NEW r \in Requests, NEW d \in Docs, NEW n \in Pieces,
           UploadInsert(r, d, n)
    PROVE  TaskFollowsRow' /\ RequestsFollowRows' /\ IndexedIsWhole'
<1> USE DEF UploadInsert, Inv, TypeOK, RowsTyped, WorkTyped, Exists
<1>1. TaskFollowsRow'
  BY DEF TaskFollowsRow
<1>2. pc'[r] = "upload_reply" /\ req'[r].doc = d
  BY DEF Wait, NoRequest
<1>3. \A s \in Requests \ {r} : UNCHANGED <<pc[s], req[s]>>
  BY DEF Wait
<1>4. RequestsFollowRows'
  <2> SUFFICES ASSUME NEW s \in Requests, pc'[s] # "idle"
               PROVE  /\ req'[s].doc \in used'
                      /\ pc'[s] = "clean" => req'[s].begun
                      /\ pc'[s] = "upload_reply" =>
                            /\ task'[req'[s].doc] = "none"
                            /\ row'[req'[s].doc] # NoRow
                                 => row'[req'[s].doc].status = "UPLOADED"
                            /\ \A q \in Requests :
                                  pc'[q] = "upload_reply"
                                  /\ req'[q].doc = req'[s].doc => q = s
                      /\ pc'[s] = "read_chunks" /\ req'[s].seen.status = "INDEXED"
                            => chunks'[req'[s].doc] = pieces'[req'[s].doc]
    BY DEF RequestsFollowRows
  <2>1. CASE s = r
    BY <1>2, <1>3, <2>1 DEF RequestsFollowRows, TaskFollowsRow
  <2>2. CASE s # r
    BY <1>2, <1>3, <2>2 DEF RequestsFollowRows
  <2> QED
    BY <2>1, <2>2
<1>5. IndexedIsWhole'
  BY DEF IndexedIsWhole
<1> QED
  BY <1>1, <1>4, <1>5

LEMMA RequestStepInv ==
    ASSUME Inv, NEW r \in Requests, Begin(r) \/ Resume(r) \/ RequestFails(r)
    PROVE  TaskFollowsRow' /\ RequestsFollowRows' /\ IndexedIsWhole'
<1> USE DEF Inv, TypeOK, RowsTyped, WorkTyped, Exists
<1>1. ASSUME NEW d \in Docs, NEW step \in {"clean", "read_chunks"},
             ReadInto(r, d, step)
      PROVE  TaskFollowsRow' /\ RequestsFollowRows' /\ IndexedIsWhole'
  BY <1>1 DEF ReadInto, Answer, Wait, NoRequest, TaskFollowsRow,
              RequestsFollowRows, IndexedIsWhole
<1>2. CASE UploadReply(r)
  <2>1. TaskFollowsRow' /\ IndexedIsWhole'
    BY <1>2 DEF UploadReply, TaskFollowsRow, RequestsFollowRows, IndexedIsWhole,
                TaskSteps
  <2>2. RequestsFollowRows'
    BY <1>2 DEF UploadReply, Answer, Wait, RequestsFollowRows
  <2> QED
    BY <2>1, <2>2
<1>3. CASE Clean(r)
  <2>1. UNCHANGED chunks
    BY <1>3 DEF Clean, RequestsFollowRows
  <2> QED
    BY <1>3, <2>1 DEF Clean, Wait, TaskFollowsRow, RequestsFollowRows,
                      IndexedIsWhole
<1>4. CASE DeleteRow(r)
  BY <1>4 DEF DeleteRow, Answer, Wait, TaskFollowsRow, RequestsFollowRows,
              IndexedIsWhole
<1>5. CASE ReadChunks(r) \/ RequestFails(r)
  BY <1>5 DEF ReadChunks, RequestFails, Answer, Wait, TaskFollowsRow,
              RequestsFollowRows, IndexedIsWhole
<1> QED
  BY <1>1, <1>2, <1>3, <1>4, <1>5, UploadInsertInv
     DEF Begin, Resume, DeleteRead, ReadRow

LEMMA TaskStepInv ==
    ASSUME Inv, NEW d \in Docs, RunTask(d) \/ TaskFails(d)
    PROVE  TaskFollowsRow' /\ RequestsFollowRows' /\ IndexedIsWhole'
<1> USE DEF Inv, TypeOK, RowsTyped, WorkTyped, Exists, requestVars
<1>1. d \in used /\ \A r \in Requests : pc[r] = "upload_reply" => req[r].doc # d
  BY DEF RunTask, TaskFails, MarkProcessing, RejectEmpty, StoreChunks,
         IndexingRaises, RecordIndexed, RecordFailure, StatusWriteFails,
         FailureNotRecorded, TaskFollowsRow, RequestsFollowRows
<1>2. CASE MarkProcessing(d) \/ RejectEmpty(d)
  BY <1>1, <1>2 DEF MarkProcessing, RejectEmpty, WriteStatus, TaskFollowsRow,
                    RequestsFollowRows, IndexedIsWhole
<1>3. CASE StoreChunks(d) \/ IndexingRaises(d)
  BY <1>1, <1>3 DEF StoreChunks, IndexingRaises, TaskFollowsRow,
                    RequestsFollowRows, IndexedIsWhole
<1>4. CASE RecordIndexed(d) \/ RecordFailure(d)
  BY <1>1, <1>4 DEF RecordIndexed, RecordFailure, WriteStatus, TaskFollowsRow,
                    RequestsFollowRows, IndexedIsWhole
<1>5. CASE TaskFails(d)
  BY <1>1, <1>5 DEF TaskFails, StatusWriteFails, FailureNotRecorded, WriteStatus,
                    TaskFollowsRow, RequestsFollowRows, IndexedIsWhole
<1> QED
  BY <1>2, <1>3, <1>4, <1>5 DEF RunTask

LEMMA InvInvariant == Spec => []Inv
<1>1. Init => Inv
  <2>1. Init => TypeOK
    BY MaxPiecesNat
       DEF Init, TypeOK, RowsTyped, WorkTyped, Pieces, TaskSteps, RequestSteps,
           NoRequest, Request
  <2> QED
    BY <2>1 DEF Init, Inv, TaskFollowsRow, RequestsFollowRows, IndexedIsWhole,
                Exists
<1>2. Inv /\ TypeOK' /\ [Next]_vars => Inv'
  <2> SUFFICES ASSUME Inv, TypeOK', [Next]_vars PROVE Inv'
    OBVIOUS
  <2>1. CASE Restart
    BY <2>1 DEF Restart, Inv, TaskFollowsRow, RequestsFollowRows, IndexedIsWhole,
                Exists
  <2>2. CASE UNCHANGED vars
    BY <2>2 DEF vars, Inv, TaskFollowsRow, RequestsFollowRows, IndexedIsWhole,
                Exists
  <2> QED
    BY <2>1, <2>2, RequestStepInv, TaskStepInv DEF Next, Inv
<1> QED
  BY <1>1, <1>2, TypeInvariant, PTL DEF Spec

\* Whatever fails, and wherever the server restarts, INDEXED means that all the
\* chunks are stored and counted.
THEOREM IndexedDocumentsAreWhole == Spec => []IndexedIsWhole
BY InvInvariant, PTL DEF Inv

\* What a client was told INDEXED it can read whole.
THEOREM ReadersSeeAll == Spec => []ReaderOfIndexedSeesAll
<1>1. Inv => ReaderOfIndexedSeesAll
  BY DEF Inv, RequestsFollowRows, ReaderOfIndexedSeesAll
<1> QED
  BY <1>1, InvInvariant, PTL

-----------------------------------------------------------------------------
(* Failed documents *)

\* Without failures the chunks of a document are stored by the step that leads
\* to INDEXED, and by no other.
NothingStoredYet ==
    /\ \A d \in Docs :
          /\ task[d] \in {"mark", "index", "give_up"} => chunks[d] = 0
          /\ Exists(d) /\ row[d].status = "FAILED"
                => chunks[d] = 0 /\ task[d] = "none"
    /\ \A r \in Requests : pc[r] = "upload_reply" => chunks[req[r].doc] = 0

LEMMA RequestsStoreNothing ==
    ASSUME Inv, NothingStoredYet, NEW r \in Requests, Begin(r) \/ Resume(r)
    PROVE  NothingStoredYet'
<1> USE DEF Inv, TypeOK, RowsTyped, WorkTyped, Exists, NothingStoredYet
<1>1. ASSUME NEW d \in Docs, NEW n \in Pieces, UploadInsert(r, d, n)
      PROVE  NothingStoredYet'
  BY <1>1 DEF UploadInsert, Wait, NoRequest, TaskFollowsRow, RequestsFollowRows
<1>2. ASSUME NEW d \in Docs, NEW step \in {"clean", "read_chunks"},
             ReadInto(r, d, step)
      PROVE  NothingStoredYet'
  BY <1>2 DEF ReadInto, Answer, Wait, NoRequest
<1>3. CASE UploadReply(r)
  BY <1>3 DEF UploadReply, Answer, Wait, RequestsFollowRows
<1>4. CASE Clean(r)
  BY <1>4 DEF Clean, Wait, RequestsFollowRows
<1>5. CASE DeleteRow(r) \/ ReadChunks(r)
  BY <1>5 DEF DeleteRow, ReadChunks, Answer, Wait
<1> QED
  BY <1>1, <1>2, <1>3, <1>4, <1>5 DEF Begin, Resume, DeleteRead, ReadRow

LEMMA TasksStoreOnce ==
    ASSUME Inv, ~Faults, NothingStoredYet, NEW d \in Docs, RunTask(d)
    PROVE  NothingStoredYet'
<1> USE DEF Inv, TypeOK, RowsTyped, WorkTyped, Exists, NothingStoredYet,
            requestVars
<1>1. \A r \in Requests : pc[r] = "upload_reply" => req[r].doc # d
  BY DEF RunTask, MarkProcessing, RejectEmpty, StoreChunks, IndexingRaises,
         RecordIndexed, RecordFailure, RequestsFollowRows
<1>2. CASE MarkProcessing(d) \/ RejectEmpty(d)
  BY <1>2 DEF MarkProcessing, RejectEmpty, WriteStatus
<1>3. CASE StoreChunks(d) \/ IndexingRaises(d)
  BY <1>1, <1>3 DEF StoreChunks, IndexingRaises
<1>4. CASE RecordIndexed(d) \/ RecordFailure(d)
  BY <1>4 DEF RecordIndexed, RecordFailure, WriteStatus
<1> QED
  BY <1>2, <1>3, <1>4 DEF RunTask

\* As long as the database answers, a document shown FAILED has no chunk that a
\* question could be answered from.
THEOREM FailedDocumentsAreEmpty ==
    ASSUME ~Faults
    PROVE  Spec => []FailedLeavesNothing
<1>1. Init => NothingStoredYet
  BY DEF Init, NothingStoredYet, Exists
<1>2. Inv /\ NothingStoredYet /\ [Next]_vars => NothingStoredYet'
  <2> SUFFICES ASSUME Inv, NothingStoredYet, [Next]_vars
               PROVE  NothingStoredYet'
    OBVIOUS
  <2>1. CASE UNCHANGED vars
    BY <2>1 DEF vars, NothingStoredYet, Exists
  <2> QED
    BY <2>1, RequestsStoreNothing, TasksStoreOnce
       DEF Next, RequestFails, TaskFails, StatusWriteFails, FailureNotRecorded,
           Restart
<1>3. NothingStoredYet => FailedLeavesNothing
  BY DEF NothingStoredYet, FailedLeavesNothing
<1> QED
  BY <1>1, <1>2, <1>3, InvInvariant, PTL DEF Spec

-----------------------------------------------------------------------------
(* The course of a document *)

\* A step leaves a row alone, removes it, or moves its status along the life
\* cycle; without failures, a status that is final stays.
RowMoves(d) ==
    \/ UNCHANGED row[d]
    \/ row'[d] = NoRow
    \/ /\ d \notin used
       /\ row'[d].status = "UPLOADED"
    \/ /\ Exists(d) /\ row'[d] # NoRow
       /\ row'[d].status \in Statuses
       /\ Rank[row[d].status] <= Rank[row'[d].status]
       /\ ~Faults => row[d].status \in {"UPLOADED", "PROCESSING"}

LEMMA RankTyped == \A s \in Statuses : Rank[s] \in Nat /\ Rank[s] <= Rank["FAILED"]
BY DEF Rank, Statuses

LEMMA TaskMovesRow ==
    ASSUME Inv, NEW d \in Docs, RunTask(d) \/ TaskFails(d), NEW e \in Docs
    PROVE  RowMoves(e) /\ UNCHANGED used
<1> USE DEF Inv, TypeOK, RowsTyped, Exists
<1>1. UNCHANGED used
  BY DEF RunTask, TaskFails, MarkProcessing, RejectEmpty, StoreChunks,
         IndexingRaises, RecordIndexed, RecordFailure, StatusWriteFails,
         FailureNotRecorded
<1>2. ASSUME NEW s \in Statuses, NEW n \in Pieces, WriteStatus(d, s, n),
             Exists(d) => /\ Rank[row[d].status] <= Rank[s]
                          /\ ~Faults => row[d].status \in {"UPLOADED", "PROCESSING"}
      PROVE  RowMoves(e)
  <2>1. CASE Exists(d) /\ e = d
    <3>1. row'[e] = [status |-> s, count |-> n]
      BY <1>2, <2>1 DEF WriteStatus
    <3>2. row'[e] # NoRow /\ row'[e].status = s
      BY <3>1, Sentinels DEF Row
    <3> QED
      BY <1>2, <2>1, <3>2 DEF RowMoves
  <2>2. CASE ~(Exists(d) /\ e = d)
    BY <1>2, <2>2 DEF WriteStatus, RowMoves
  <2> QED
    BY <2>1, <2>2
<1>3. 0 \in Pieces /\ pieces[d] \in Pieces
  BY MaxPiecesNat DEF Pieces
<1>4. Exists(d) => row[d].status \in Statuses
  BY DEF Row
<1>5. CASE UNCHANGED row
  BY <1>1, <1>5 DEF RowMoves
<1>6. CASE task[d] = "mark" /\ WriteStatus(d, "PROCESSING", 0)
  <2>1. Exists(d) => row[d].status = "UPLOADED"
    BY <1>6 DEF TaskFollowsRow
  <2> QED
    BY <1>1, <1>2, <1>3, <1>6, <2>1 DEF Statuses, Rank
<1>7. CASE task[d] = "index" /\ WriteStatus(d, "FAILED", 0)
  <2>1. Exists(d) => row[d].status = "PROCESSING"
    BY <1>7 DEF TaskFollowsRow
  <2> QED
    BY <1>1, <1>2, <1>3, <1>7, <2>1 DEF Statuses, Rank
<1>8. CASE task[d] = "record" /\ WriteStatus(d, "INDEXED", pieces[d])
  <2>1. Exists(d) => row[d].status = "PROCESSING"
    BY <1>8 DEF TaskFollowsRow
  <2> QED
    BY <1>1, <1>2, <1>3, <1>8, <2>1 DEF Statuses, Rank
<1>9. CASE task[d] = "give_up" /\ WriteStatus(d, "FAILED", 0)
  <2>1. Exists(d) /\ ~Faults => row[d].status = "PROCESSING"
    BY <1>9 DEF TaskFollowsRow
  <2>2. "FAILED" \in Statuses
    BY DEF Statuses
  <2> QED
    BY <1>1, <1>2, <1>3, <1>4, <1>9, <2>1, <2>2, RankTyped
<1>10. \/ UNCHANGED row
       \/ task[d] = "mark" /\ WriteStatus(d, "PROCESSING", 0)
       \/ task[d] = "index" /\ WriteStatus(d, "FAILED", 0)
       \/ task[d] = "record" /\ WriteStatus(d, "INDEXED", pieces[d])
       \/ task[d] = "give_up" /\ WriteStatus(d, "FAILED", 0)
  BY DEF RunTask, TaskFails, MarkProcessing, RejectEmpty, StoreChunks,
         IndexingRaises, RecordIndexed, RecordFailure, StatusWriteFails,
         FailureNotRecorded
<1> QED
  BY <1>1, <1>5, <1>6, <1>7, <1>8, <1>9, <1>10

LEMMA StepMovesRow ==
    ASSUME Inv, [Next]_vars, NEW e \in Docs
    PROVE  RowMoves(e) /\ used \subseteq used'
<1> USE DEF Inv, TypeOK, RowsTyped, WorkTyped, Exists
<1>1. ASSUME NEW r \in Requests, NEW d \in Docs, NEW n \in Pieces,
             UploadInsert(r, d, n)
      PROVE  RowMoves(e) /\ used \subseteq used'
  BY <1>1 DEF UploadInsert, RowMoves
<1>2. ASSUME NEW r \in Requests, DeleteRow(r)
      PROVE  RowMoves(e) /\ used \subseteq used'
  BY <1>2 DEF DeleteRow, RowMoves
<1>3. CASE UNCHANGED <<row, used>>
  BY <1>3 DEF RowMoves
<1>4. ASSUME NEW r \in Requests, Begin(r) \/ Resume(r) \/ RequestFails(r)
      PROVE  RowMoves(e) /\ used \subseteq used'
  BY <1>1, <1>2, <1>3, <1>4
     DEF Begin, Resume, RequestFails, DeleteRead, ReadRow, ReadInto,
         UploadReply, Clean, ReadChunks
<1> QED
  BY <1>3, <1>4, TaskMovesRow DEF Next, Restart, vars

\* Statuses only move forward and no step brings a deleted document back:
\* late tasks, lost acknowledgements and restarts included.
THEOREM StatusesMoveForward == Spec => StatusMovesForward
<1>1. ASSUME Inv, [Next]_vars, NEW d \in used, Exists(d)'
      PROVE  Exists(d) /\ Rank[row[d].status] <= Rank[row'[d].status]
  <2>1. d \in Docs /\ RowMoves(d)
    BY <1>1, StepMovesRow DEF Inv, TypeOK, RowsTyped
  <2>2. CASE UNCHANGED row[d]
    <3>1. Exists(d) /\ row[d].status \in Statuses
      BY <1>1, <2>1, <2>2 DEF Exists, Inv, TypeOK, RowsTyped, Row
    <3> QED
      BY <2>2, <3>1, RankTyped
  <2> QED
    BY <1>1, <2>1, <2>2 DEF RowMoves, Exists
<1>2. Inv /\ [Next]_vars =>
        [\A d \in used :
            Exists(d)' => /\ Exists(d)
                          /\ Rank[row[d].status] <= Rank[row'[d].status]]_vars
  BY <1>1
<1> QED
  BY <1>2, InvInvariant, PTL DEF Spec, StatusMovesForward

-----------------------------------------------------------------------------
(* Refinement *)

LEMMA UploadAccepts ==
    ASSUME Inv, NEW r \in Requests, NEW d \in Docs, NEW n \in Pieces,
           UploadInsert(r, d, n)
    PROVE  /\ Phase(d) = "absent" /\ Phase(d)' = "waiting"
           /\ \A e \in Docs \ {d} : Phase(e)' = Phase(e)
<1>1. [status |-> "UPLOADED", count |-> 0] # NoRow
  BY Sentinels, MaxPiecesNat DEF Row, Statuses, Pieces
<1> QED
  BY <1>1 DEF Inv, TypeOK, RowsTyped, UploadInsert, Phase, Exists

LEMMA DeletionRemoves ==
    ASSUME Inv, NEW r \in Requests, DeleteRow(r)
    PROVE  \E d \in Docs :
              /\ \/ Phase(d)' = Phase(d)
                 \/ /\ Phase(d) \in {"waiting", "indexed", "failed"}
                    /\ Phase(d)' = "deleted"
              /\ \A e \in Docs \ {d} : Phase(e)' = Phase(e)
<1>1. PICK d \in Docs : d = req[r].doc
  BY DEF Inv, TypeOK, WorkTyped, DeleteRow
<1>2. /\ d \in used /\ UNCHANGED used
      /\ row' = [row EXCEPT ![d] = NoRow]
  BY <1>1 DEF Inv, RequestsFollowRows, DeleteRow
<1>3. \A e \in Docs \ {d} : Phase(e)' = Phase(e)
  BY <1>2 DEF Inv, TypeOK, RowsTyped, Phase, Exists
<1>4. Phase(d)' = "deleted"
  BY <1>2 DEF Inv, TypeOK, RowsTyped, Phase, Exists
<1>5. Phase(d) \in {"waiting", "indexed", "failed", "deleted"}
  BY <1>2 DEF Phase
<1> QED
  BY <1>3, <1>4, <1>5

LEMMA TaskSettles ==
    ASSUME ~Faults, Inv, NEW d \in Docs, RunTask(d)
    PROVE  /\ \/ Phase(d)' = Phase(d)
              \/ Phase(d) = "waiting" /\ Phase(d)' \in {"indexed", "failed"}
           /\ \A e \in Docs \ {d} : Phase(e)' = Phase(e)
<1> USE DEF Inv, TypeOK, RowsTyped, Exists
<1>1. d \in used /\ UNCHANGED used
  BY TaskMovesRow
     DEF RunTask, MarkProcessing, RejectEmpty, StoreChunks, IndexingRaises,
         RecordIndexed, RecordFailure, TaskFollowsRow
<1>2. /\ \A e \in Docs \ {d} : UNCHANGED row[e]
      /\ ~Exists(d) => UNCHANGED row
  BY DEF RunTask, MarkProcessing, RejectEmpty, StoreChunks, IndexingRaises,
         RecordIndexed, RecordFailure, WriteStatus
<1>3. \A e \in Docs \ {d} : Phase(e)' = Phase(e)
  BY <1>1, <1>2 DEF Phase
<1>4. RowMoves(d)
  BY TaskMovesRow
<1>5. CASE Exists(d) /\ Exists(d)' /\ ~UNCHANGED row[d]
  <2>1. /\ row[d].status \in {"UPLOADED", "PROCESSING"}
        /\ row'[d].status \in Statuses
    BY <1>1, <1>4, <1>5 DEF RowMoves
  <2> QED
    BY <1>1, <1>3, <1>5, <2>1 DEF Phase, Statuses
<1>6. CASE UNCHANGED row[d]
  BY <1>1, <1>3, <1>6 DEF Phase
<1>7. Exists(d) => Exists(d)'
  <2>1. [status |-> "PROCESSING", count |-> 0] # NoRow
        /\ [status |-> "FAILED", count |-> 0] # NoRow
        /\ [status |-> "INDEXED", count |-> pieces[d]] # NoRow
    BY Sentinels, MaxPiecesNat DEF Row, Statuses, Pieces
  <2> QED
    BY <2>1 DEF RunTask, MarkProcessing, RejectEmpty, StoreChunks,
         IndexingRaises, RecordIndexed, RecordFailure, WriteStatus
<1> QED
  BY <1>2, <1>5, <1>6, <1>7

\* One that looks at the table only sees the life cycle of DocumentLifecycle:
\* accepted, settled once, removed for good.  (That documents do settle is left
\* to TLC.)
THEOREM DocumentsFollowLifecycle ==
    ASSUME ~Faults
    PROVE  Spec => Lifecycle!Spec
<1> DEFINE phase == [d \in Docs |-> Phase(d)]
<1>1. Init => Lifecycle!Init
  BY DEF Init, Lifecycle!Init, Phase
<1>2. ASSUME Inv, [Next]_vars
      PROVE  Lifecycle!Next \/ UNCHANGED phase
  <2>1. ASSUME NEW r \in Requests, NEW d \in Docs, NEW n \in Pieces,
               UploadInsert(r, d, n)
        PROVE  Lifecycle!Accept(d)
    <3>1. /\ Phase(d) = "absent" /\ Phase(d)' = "waiting"
          /\ \A e \in Docs \ {d} : Phase(e)' = Phase(e)
      BY <1>2, <2>1, UploadAccepts
    <3>2. phase' = [phase EXCEPT ![d] = "waiting"]
      BY <3>1
    <3> QED
      BY <3>1, <3>2 DEF Lifecycle!Accept
  <2>2. ASSUME NEW r \in Requests, DeleteRow(r)
        PROVE  \/ UNCHANGED phase
               \/ \E d \in Docs : Lifecycle!Remove(d)
    <3>1. PICK d \in Docs :
          /\ \A e \in Docs \ {d} : Phase(e)' = Phase(e)
          /\ \/ Phase(d)' = Phase(d)
             \/ /\ Phase(d) \in {"waiting", "indexed", "failed"}
                /\ Phase(d)' = "deleted"
      BY <1>2, <2>2, DeletionRemoves
    <3>2. CASE Phase(d)' = Phase(d)
      BY <3>1, <3>2
    <3>3. CASE /\ Phase(d) \in {"waiting", "indexed", "failed"}
               /\ Phase(d)' = "deleted"
      <4>1. phase' = [phase EXCEPT ![d] = "deleted"]
        BY <3>1, <3>3
      <4> QED
        BY <3>1, <3>3, <4>1 DEF Lifecycle!Remove
    <3> QED
      BY <3>1, <3>2, <3>3
  <2>3. ASSUME NEW d \in Docs, RunTask(d)
        PROVE  UNCHANGED phase \/ Lifecycle!Settle(d)
    <3>1. /\ \A e \in Docs \ {d} : Phase(e)' = Phase(e)
          /\ \/ Phase(d)' = Phase(d)
             \/ Phase(d) = "waiting" /\ Phase(d)' \in {"indexed", "failed"}
      BY <1>2, <2>3, TaskSettles
    <3>2. CASE Phase(d)' = Phase(d)
      BY <3>1, <3>2
    <3>3. CASE Phase(d) = "waiting" /\ Phase(d)' \in {"indexed", "failed"}
      <4>1. phase' = [phase EXCEPT ![d] = Phase(d)']
        BY <3>1, <3>3
      <4> QED
        BY <3>1, <3>3, <4>1 DEF Lifecycle!Settle
    <3> QED
      BY <3>1, <3>2, <3>3
  <2>4. CASE UNCHANGED <<row, used>>
    BY <2>4 DEF Phase, Exists
  <2> QED
    BY <1>2, <2>1, <2>2, <2>3, <2>4
       DEF Next, Begin, Resume, RequestFails, DeleteRead, ReadRow, ReadInto,
           UploadReply, Clean, ReadChunks, TaskFails, StatusWriteFails,
           FailureNotRecorded, Restart, vars, Lifecycle!Next
<1> QED
  BY <1>1, <1>2, InvInvariant, PTL DEF Spec, Lifecycle!Spec
=============================================================================
