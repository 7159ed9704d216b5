------------------------------ MODULE Ingestion ------------------------------
(***************************************************************************)
(* Synchronisation of one external source (Jira, Confluence, ServiceNow or *)
(* SharePoint) into the vector store: IngestionPipeline.run for every      *)
(* scope of a connector instance (ConnectorService.trigger_sync, started   *)
(* by an administrator or by the scheduled Lambda) or for one scope        *)
(* (POST /ingestion/{source}/sync), the page loops of the four HTTP        *)
(* clients, and VectorStore.upsert_document_with_chunks.                   *)
(*                                                                         *)
(* The source changes while it is read, syncs overlap, calls fail and the  *)
(* process may restart.                                                    *)
(*                                                                         *)
(* A version of a document is identified by the time it was written at the *)
(* source, which only grows: versions are stamps.                          *)
(***************************************************************************)
EXTENDS Integers, Sequences, FiniteSets, Ordering

CONSTANTS
    Docs,       \* documents of the source, numbered: the order of their ids
    Scopes,     \* projects, spaces, tables or lists
    ScopeOf,    \* the scope of a document
    Scoped,     \* the scopes in the instance's sync_scope
    Syncs,      \* syncs that may be in flight
    PageSize,   \* records per page of the source's API
    Cursors,    \* values of since a direct sync is given
    MaxChunks,  \* most chunks the transformer cuts a document into
    MaxTime,    \* bound: last stamp the source gives
    MaxFaults,  \* bound: failed calls and restarts
    MaxStarts,  \* bound: syncs started
    NoScope     \* no scope is being read

ASSUME IngestionAssumption ==
    /\ Docs \subseteq Nat \ {0} /\ IsFiniteSet(Docs)
    /\ ScopeOf \in [Docs -> Scopes]
    /\ Scoped \subseteq Scopes
    /\ PageSize \in Nat \ {0}
    /\ Cursors \subseteq 0..MaxTime
    /\ MaxChunks \in Nat \ {0}
    /\ MaxTime \in Nat /\ MaxFaults \in Nat /\ MaxStarts \in Nat
    /\ Cardinality(Docs) <= MaxTime
    /\ NoScope \notin Scopes

\* How the client reads: nextPageToken (Jira), _links.next (Confluence),
\* sysparm_offset (ServiceNow), one query for everything (SharePoint).
Pagings == {"token", "links", "offset", "whole"}

Stamps == 0..MaxTime
Tags == {"none", "untagged", "instance"}
Chunks == 0..(MaxChunks - 1)
Items == [doc : Docs, stamp : Stamps \ {0}, size : 1..MaxChunks]

VARIABLES
    paging,  \* how this source's client reads
    clock,   \* last stamp given by the source
    stamp,   \* version of each document at the source, 0 when it has none
    size,    \* chunks the transformer makes of that version
    store,   \* {schema}.documents: stored version and instance tag, 0 when absent
    chunk,   \* {schema}.embeddings: version each chunk was cut from, 0 when absent
    sync,    \* the syncs in flight
    last,    \* last_sync_status of the connector instance
    due,     \* observation: documents a sync must have stored when it ends
    alone,   \* observation: no other sync ran since this one started
    faults, starts

vars == <<paging, clock, stamp, size, store, chunk, sync, last, due, alone, faults, starts>>
sourceVars == <<paging, clock, stamp, size>>
storeVars == <<store, chunk>>

NoSync == [pc |-> "idle", admin |-> FALSE, left |-> {},
           scope |-> NoScope, since |-> 0, after |-> 0, offset |-> 0,
           page |-> <<>>, more |-> FALSE, failed |-> {}]

Busy(s) == sync[s].pc # "idle"

----------------------------------------------------------------------------
(* The source's API (external): what a page holds.                         *)

\* Records in reading order: Confluence lists by id, the others by update.
Key(d) == IF paging = "links" THEN d ELSE stamp[d]

\* The documents a query selects. Confluence takes no cursor: it ignores since.
Selected(scope, since) ==
    {d \in Docs : /\ ScopeOf[d] = scope
                  /\ stamp[d] > 0
                  /\ paging # "links" => stamp[d] >= since}

ByKey == {p \in Docs \X Docs : Key(p[1]) < Key(p[2])}

Ordered(S) ==
    LET docs == Sorted(S, ByKey)
    IN  [i \in 1..Len(docs) |-> [doc |-> docs[i], stamp |-> stamp[docs[i]], size |-> size[docs[i]]]]

\* What is still to be read: past the last key returned, or past the offset.
Remaining(r) ==
    LET all == Selected(r.scope, r.since)
    IN  IF paging = "offset"
        THEN LET seq == Ordered(all) IN SubSeq(seq, r.offset + 1, Len(seq))
        ELSE Ordered({d \in all : Key(d) > r.after})

TakePage(seq) == IF paging = "whole" THEN seq
                 ELSE SubSeq(seq, 1, IF Len(seq) < PageSize THEN Len(seq) ELSE PageSize)

\* Whether the client's loop goes on after this page: the server sent a token
\* or a link, or (ServiceNow) the page was full.
GoesOn(page, seq) ==
    \/ paging = "token" /\ page # <<>> /\ Len(seq) > Len(page)
    \/ paging = "links" /\ Len(seq) > Len(page)
    \/ paging = "offset" /\ Len(page) = PageSize

LastKey(page) == LET d == page[Len(page)] IN IF paging = "links" THEN d.doc ELSE d.stamp

----------------------------------------------------------------------------
(* The source changes.                                                     *)

\* A document is created or rewritten, and may get shorter or longer.
EditAtSource(d) ==
    /\ clock < MaxTime
    /\ clock' = clock + 1
    /\ stamp' = [stamp EXCEPT ![d] = clock + 1]
    /\ \E n \in 1..MaxChunks : size' = [size EXCEPT ![d] = n]
    /\ due' = [s \in Syncs |-> due[s] \ {d}]
    /\ UNCHANGED <<paging, storeVars, sync, last, alone, faults, starts>>

DeleteAtSource(d) ==
    /\ stamp[d] > 0
    /\ clock < MaxTime
    /\ clock' = clock + 1
    /\ stamp' = [stamp EXCEPT ![d] = 0]
    /\ due' = [s \in Syncs |-> due[s] \ {d}]
    /\ UNCHANGED <<paging, size, storeVars, sync, last, alone, faults, starts>>

----------------------------------------------------------------------------
(* Starting a sync.                                                        *)

Begin(s, r) ==
    /\ ~Busy(s)
    /\ starts < MaxStarts
    /\ starts' = starts + 1
    /\ sync' = [sync EXCEPT ![s] = r]
    /\ alone' = [t \in Syncs |-> IF t = s THEN \A u \in Syncs : ~Busy(u) ELSE alone[t] /\ ~Busy(t)]
    /\ due' = [due EXCEPT ![s] = UNION {Selected(k, r.since) : k \in r.left}]
    /\ UNCHANGED <<sourceVars, storeVars, last, faults>>

\* POST /connectors/{id}/sync, by hand or by the scheduled Lambda: one pipeline
\* per scope. ServiceNow, or an empty sync_scope, is not supported: the failure
\* is recorded at once. The Lambda waits 600 s for the answer, then gives up and
\* the sync goes on: the next tick may start another one.
StartInstanceSync(s) ==
    LET supported == paging # "offset" /\ Scoped # {}
        r == [NoSync EXCEPT !.admin = TRUE]
    IN  IF supported THEN Begin(s, [r EXCEPT !.pc = "next", !.left = Scoped])
        ELSE Begin(s, [r EXCEPT !.pc = "record", !.failed = Scopes])

\* POST /ingestion/{source}/sync: one scope, since an optional cursor.
StartDirectSync(s) ==
    \E k \in Scopes, since \in Cursors :
        Begin(s, [NoSync EXCEPT !.pc = "next", !.left = {k}, !.since = since])

----------------------------------------------------------------------------
(* IngestionPipeline.run for one scope after the other.                    *)

\* test_connection succeeds and the page loop starts.
NextScope(s) ==
    /\ sync[s].pc = "next"
    /\ \E k \in sync[s].left :
        /\ sync' = [sync EXCEPT ![s].pc = "read", ![s].left = @ \ {k}, ![s].scope = k,
                                ![s].after = 0, ![s].offset = 0,
                                ![s].page = <<>>, ![s].more = TRUE]
    /\ UNCHANGED <<sourceVars, storeVars, last, due, alone, faults, starts>>

LoseScopes(s, lost) ==
    /\ sync[s].pc = "next"
    /\ faults < MaxFaults
    /\ sync' = [sync EXCEPT ![s].left = @ \ lost, ![s].failed = @ \cup lost]
    /\ faults' = faults + 1
    /\ UNCHANGED <<sourceVars, storeVars, last, due, alone, starts>>

\* test_connection returns False: this scope fails, the loop goes on.
CannotConnect(s) == \E k \in sync[s].left : LoseScopes(s, {k})

\* SharePoint's test_connection raises, outside of any scope's try, when the client
\* was built without its library: from the first scope on, none is read.
ConnectionRaises(s) ==
    /\ paging = "whole"
    /\ sync[s].scope = NoScope /\ sync[s].failed = {}
    /\ LoseScopes(s, sync[s].left)

\* Mutation: the next page is read ahead and taken first.
FetchPageAhead(s) ==
    LET seq == Remaining(sync[s])
        page == TakePage(seq)
    IN  /\ sync[s].pc = "read" /\ sync[s].more
        /\ sync' = [sync EXCEPT ![s].page = page \o @,
                                ![s].more = GoesOn(page, seq),
                                ![s].after = IF page = <<>> THEN @ ELSE LastKey(page),
                                ![s].offset = @ + PageSize]
        /\ UNCHANGED <<sourceVars, storeVars, last, due, alone, faults, starts>>

FetchPage(s) ==
    LET seq == Remaining(sync[s])
        page == TakePage(seq)
    IN  /\ sync[s].pc = "read" /\ sync[s].page = <<>> /\ sync[s].more
        /\ sync' = [sync EXCEPT ![s].page = page,
                                ![s].more = GoesOn(page, seq),
                                ![s].after = IF page = <<>> THEN @ ELSE LastKey(page),
                                ![s].offset = @ + PageSize]
        /\ UNCHANGED <<sourceVars, storeVars, last, due, alone, faults, starts>>

\* Mutation: ON CONFLICT DO NOTHING.
UpsertedOnce(old, r) ==
    [i \in Chunks |-> IF i < r.size /\ old[i] = 0 THEN r.stamp ELSE old[i]]

\* upsert_document_with_chunks: the row and all its chunks in one transaction,
\* which the lock on the row orders with the others. Chunks past the new
\* version's last one stay as they were.
Upserted(old, r) ==
    [i \in Chunks |-> IF i < r.size THEN r.stamp ELSE old[i]]

\* Mutation: the chunks are written, the document row is not.
StoreRecordUnlinked(s) ==
    LET r == Head(sync[s].page)
    IN  /\ sync[s].pc = "read" /\ sync[s].page # <<>>
        /\ chunk' = [chunk EXCEPT ![r.doc] = Upserted(@, r)]
        /\ sync' = [sync EXCEPT ![s].page = Tail(@)]
        /\ UNCHANGED <<sourceVars, store, last, due, alone, faults, starts>>

\* transform, embed and store the next record, tagged with the instance or not.
StoreRecord(s) ==
    LET r == Head(sync[s].page)
    IN  /\ sync[s].pc = "read" /\ sync[s].page # <<>>
        /\ store' = [store EXCEPT ![r.doc] =
               [stamp |-> r.stamp, size |-> r.size,
                tag |-> IF sync[s].admin THEN "instance" ELSE "untagged"]]
        /\ chunk' = [chunk EXCEPT ![r.doc] = Upserted(@, r)]
        /\ sync' = [sync EXCEPT ![s].page = Tail(@)]
        /\ UNCHANGED <<sourceVars, last, due, alone, faults, starts>>

\* Mutation: the first failure ends the whole sync.
ScopeFailsForAll(s) ==
    /\ sync[s].pc = "read"
    /\ faults < MaxFaults
    /\ faults' = faults + 1
    /\ sync' = [sync EXCEPT ![s].pc = "record", ![s].left = {},
                            ![s].failed = @ \cup {sync[s].scope},
                            ![s].page = <<>>, ![s].more = FALSE]
    /\ UNCHANGED <<sourceVars, storeVars, last, due, alone, starts>>

\* An exception of the client, the transformer, the embedder or the store: the
\* rest of the scope is abandoned, what was stored stays.
ScopeFails(s) ==
    /\ sync[s].pc = "read"
    /\ faults < MaxFaults
    /\ faults' = faults + 1
    /\ sync' = [sync EXCEPT ![s].pc = IF sync[s].left = {} THEN "record" ELSE "next",
                            ![s].failed = @ \cup {sync[s].scope},
                            ![s].page = <<>>, ![s].more = FALSE]
    /\ UNCHANGED <<sourceVars, storeVars, last, due, alone, starts>>

\* The pipeline returns with success.
ScopeDone(s) ==
    /\ sync[s].pc = "read" /\ sync[s].page = <<>> /\ ~sync[s].more
    /\ sync' = [sync EXCEPT ![s].pc = IF sync[s].left = {} THEN "record" ELSE "next"]
    /\ UNCHANGED <<sourceVars, storeVars, last, due, alone, faults, starts>>

\* No scope is left after one that could not connect.
NothingLeft(s) ==
    /\ sync[s].pc = "next" /\ sync[s].left = {}
    /\ sync' = [sync EXCEPT ![s].pc = "record"]
    /\ UNCHANGED <<sourceVars, storeVars, last, due, alone, faults, starts>>

\* record_sync_result (the instance's row), then the answer.
Answer(s) ==
    /\ sync[s].pc = "record"
    /\ last' = IF ~sync[s].admin THEN last
               ELSE IF sync[s].failed = {} THEN "success" ELSE "error"
    /\ sync' = [sync EXCEPT ![s] = NoSync]
    /\ due' = [due EXCEPT ![s] = {}]
    /\ alone' = [alone EXCEPT ![s] = TRUE]
    /\ UNCHANGED <<sourceVars, storeVars, faults, starts>>

\* The process restarts: syncs in flight are lost and nothing is recorded.
Restart ==
    /\ faults < MaxFaults
    /\ \E s \in Syncs : Busy(s)
    /\ faults' = faults + 1
    /\ sync' = [s \in Syncs |-> NoSync]
    /\ due' = [s \in Syncs |-> {}]
    /\ alone' = [s \in Syncs |-> TRUE]
    /\ UNCHANGED <<sourceVars, storeVars, last, starts>>

----------------------------------------------------------------------------
Init ==
    /\ paging \in Pagings
    /\ clock = Cardinality(Docs)
    /\ stamp = [d \in Docs |-> Cardinality({e \in Docs : e <= d})]
    /\ size = [d \in Docs |-> MaxChunks]
    /\ store = [d \in Docs |-> [stamp |-> 0, size |-> 0, tag |-> "none"]]
    /\ chunk = [d \in Docs |-> [i \in Chunks |-> 0]]
    /\ sync = [s \in Syncs |-> NoSync]
    /\ last = "none"
    /\ due = [s \in Syncs |-> {}]
    /\ alone = [s \in Syncs |-> TRUE]
    /\ faults = 0
    /\ starts = 0

Step(s) ==
    \/ NextScope(s) \/ FetchPage(s) \/ StoreRecord(s)
    \/ ScopeDone(s) \/ NothingLeft(s) \/ Answer(s)

Next ==
    \/ \E d \in Docs : EditAtSource(d) \/ DeleteAtSource(d)
    \/ \E s \in Syncs :
        \/ StartInstanceSync(s) \/ StartDirectSync(s)
        \/ CannotConnect(s) \/ ConnectionRaises(s) \/ ScopeFails(s)
        \/ Step(s)
    \/ Restart

Spec == Init /\ [][Next]_vars

----------------------------------------------------------------------------
(* Properties.                                                             *)

SyncRecords ==
    [pc : {"idle", "next", "read", "record"}, admin : BOOLEAN,
     left : SUBSET Scopes, scope : Scopes \cup {NoScope}, since : Stamps,
     after : Nat, offset : Nat, page : Seq(Items), more : BOOLEAN,
     failed : SUBSET Scopes]

\* Every variable has its type; a row has a tag exactly when it exists, a stored
\* chunk has its document, and a sync that reads has a scope (trigger_sync, run).
TypeOK ==
    /\ paging \in Pagings
    /\ clock \in Stamps
    /\ stamp \in [Docs -> Stamps]
    /\ size \in [Docs -> 1..MaxChunks]
    /\ store \in [Docs -> [stamp : Stamps, size : 0..MaxChunks, tag : Tags]]
    /\ \A d \in Docs : (store[d].stamp = 0) <=> (store[d].tag = "none")
    /\ chunk \in [Docs -> [Chunks -> Stamps]]
    /\ \A d \in Docs, i \in Chunks : chunk[d][i] > 0 => store[d].stamp > 0
    /\ sync \in [Syncs -> SyncRecords]
    /\ \A s \in Syncs : sync[s].pc = "read" => sync[s].scope # NoScope
    /\ last \in {"none", "success", "error"}
    /\ due \in [Syncs -> SUBSET Docs]
    /\ alone \in [Syncs -> BOOLEAN]
    /\ faults \in 0..MaxFaults
    /\ starts \in 0..MaxStarts

\* Every chunk of the stored version of a document is there, cut from that
\* version (upsert_document_with_chunks is one transaction).
DocumentIsWhole ==
    \A d \in Docs : \A i \in Chunks :
        i < store[d].size => chunk[d][i] = store[d].stamp

UpToDate(s, d) ==
    /\ store[d].stamp = stamp[d]
    /\ store[d].tag = IF sync[s].admin THEN "instance" ELSE "untagged"

\* When a sync that ran alone is about to answer, every document of a scope
\* that did not fail, untouched at the source since the sync started, is stored
\* in its current version with the sync's tag, whichever other scopes failed
\* (trigger_sync, run, the page loops of JiraClient, ConfluenceClient and
\* SharePointClient).  ServiceNow is left out: a record that leaves the query
\* between two of its pages moves the others under the next offset.
CleanScopesAreComplete ==
    \A s \in Syncs :
        (sync[s].pc = "record" /\ alone[s] /\ paging # "offset") =>
            \A d \in due[s] : ScopeOf[d] \notin sync[s].failed => UpToDate(s, d)

\* The text stored for a document goes back to an older version only when two
\* syncs overlapped (trigger_sync takes no lock on the instance).
OlderTextOnlyByOverlap ==
    [][\A s \in Syncs : StoreRecord(s) /\ alone[s] =>
          \A d \in Docs : store'[d].stamp >= store[d].stamp]_vars
=============================================================================
