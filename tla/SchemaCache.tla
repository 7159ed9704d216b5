---------------------------- MODULE SchemaCache ----------------------------
(***************************************************************************)
(* What the SQL agent knows of the active base: process_dump_upload scans  *)
(* a dump and stores its schema (SchemaStore, one snapshot per base),      *)
(* SchemaCache keeps it in memory for a time, and NL2SQLAgent.run reads    *)
(* the active base, takes its schema, has the SQL generated, validates it  *)
(* and logs it.                                                            *)
(*                                                                         *)
(* Which base is active is the register that ConnectorAdmin implements     *)
(* (ActiveBase): uploads, toggles, pauses and deletions move it.           *)
(***************************************************************************)
EXTENDS DumpParser, FiniteSets

CONSTANTS
    Bases,      \* connector ids of SQL bases
    Questions,  \* questions routed to the SQL agent
    Tables,     \* names of tables
    Dumps,      \* dumps that are uploaded
    TextOf,     \* the tokens of a dump
    ChosenFor,  \* the engine chosen in the form that uploads it
    TablesOf,   \* the tables of its statements that SQLite executes
    MaxFaults,  \* bound: failed calls and restarts
    NoBase, NoSchema, NoDump

Schemas == SUBSET Tables

ASSUME SchemaAssumption ==
    /\ IsFiniteSet(Bases) /\ MaxFaults \in Nat
    /\ NoBase \notin Bases
    /\ NoSchema \notin Schemas
    /\ NoDump \notin Dumps
    /\ Created \in [DOMAIN Created -> [table : Tables, clauses : SUBSET STRING]]
    /\ TextOf \in [Dumps -> Seq(STRING)]
    /\ ChosenFor \in [Dumps -> Engines]
    /\ TablesOf \in [Dumps -> Schemas]

Entry == [schema : Schemas \cup {NoSchema}, age : {"none", "fresh", "expired"}]
Empty == [schema |-> NoSchema, age |-> "none"]
Stages == {"none", "posted", "switch", "scan", "save", "cache", "ok", "failed"}
Statuses == {"none", "no_active_connection", "no_schema", "preview", "rejected", "error"}

VARIABLES
    base, wanted,  \* the active base, and a switch in progress (ActiveBase)
    dump,          \* the dump each base was made of
    stage,         \* where its upload is
    scanned,       \* the tables the scan found
    snapshot,      \* nl2sql_schema_snapshots, the active row of the base
    cache,         \* InMemorySchemaCache._data
    pc,            \* where a question is
    chosen,        \* the base the question is about
    used,          \* the schema it has read
    status,        \* the status of its answer
    logged,        \* nl2sql_query_execution_logs, the row of the question
    faults

uploadVars == <<base, wanted, dump, stage, scanned, snapshot>>
questionVars == <<pc, chosen, used, status, logged>>
vars == <<uploadVars, cache, questionVars, faults>>

Register == INSTANCE ActiveBase

NoLog == [base |-> NoBase, status |-> "none"]

CanFail == faults < MaxFaults /\ faults' = faults + 1

----------------------------------------------------------------------------
(* POST /nl2sql/upload-dump and upload-sqlite; toggles.                    *)

\* The row is created enabled before the dump is looked at: the base is going
\* to be the active one whatever the scan finds. A PGDMP file is refused first.
BeginUpload(b) ==
    /\ stage[b] = "none"
    /\ Register!Want(b)
    /\ \E d \in Dumps : dump' = [dump EXCEPT ![b] = d]
    /\ stage' = [stage EXCEPT ![b] = "switch"]
    /\ UNCHANGED <<scanned, snapshot, cache, questionVars, faults>>

\* POST /connectors with the type of an engine: the row is enabled (the default of the
\* column) and nothing else is done. This moves the base past the register, when no
\* other base is enabled.
PostConnector(b) ==
    /\ stage[b] = "none" /\ base = NoBase /\ wanted = NoBase
    /\ base' = b
    /\ stage' = [stage EXCEPT ![b] = "posted"]
    /\ UNCHANGED <<wanted, dump, scanned, snapshot, cache, questionVars, faults>>

\* PATCH /connectors/{id}/toggle, on.
BeginToggle(b) ==
    /\ stage[b] \in {"posted", "ok", "failed"}
    /\ Register!Want(b)
    /\ UNCHANGED <<dump, stage, scanned, snapshot, cache, questionVars, faults>>

DropOthers ==
    /\ Register!Drop
    /\ UNCHANGED <<dump, stage, scanned, snapshot, cache, questionVars, faults>>

SelectWanted ==
    /\ Register!Select
    /\ stage' = [stage EXCEPT ![wanted] = IF @ = "switch" THEN "scan" ELSE @]
    /\ UNCHANGED <<dump, scanned, snapshot, cache, questionVars, faults>>

\* The active base is paused or deleted.
TurnOff ==
    /\ Register!TurnOff
    /\ UNCHANGED <<dump, stage, scanned, snapshot, cache, questionVars, faults>>

\* The engine is detected, the dump parsed, executed in a sandbox and scanned; the
\* cache entry of the base is dropped.
EngineOf(d) == Engine(TextOf[d], ChosenFor[d])

Scan(b) ==
    /\ stage[b] = "scan"
    /\ scanned' = [scanned EXCEPT ![b] = ScannedTables(TextOf[dump[b]], EngineOf(dump[b]))]
    /\ cache' = [cache EXCEPT ![b] = Empty]
    /\ stage' = [stage EXCEPT ![b] = "save"]
    /\ UNCHANGED <<base, wanted, dump, snapshot, questionVars, faults>>

\* Mutation: the transaction is not committed.
SaveSchemaUncommitted(b) ==
    /\ stage[b] = "save"
    /\ stage' = [stage EXCEPT ![b] = "cache"]
    /\ UNCHANGED <<base, wanted, dump, scanned, snapshot, cache, questionVars, faults>>

\* Mutation: the cache is set before the store.
SaveSchemaAfterCache(b) ==
    /\ stage[b] = "save"
    /\ cache' = [cache EXCEPT ![b] = [schema |-> scanned[b], age |-> "fresh"]]
    /\ stage' = [stage EXCEPT ![b] = "cache"]
    /\ UNCHANGED <<base, wanted, dump, scanned, snapshot, questionVars, faults>>

\* SchemaCache.refresh, first part: SchemaStore.save_schema commits.
SaveSchema(b) ==
    /\ stage[b] = "save"
    /\ snapshot' = [snapshot EXCEPT ![b] = scanned[b]]
    /\ stage' = [stage EXCEPT ![b] = "cache"]
    /\ UNCHANGED <<base, wanted, dump, scanned, cache, questionVars, faults>>

\* SchemaCache.refresh, second part: _set_raw.
SetCache(b) ==
    /\ stage[b] = "cache"
    /\ cache' = [cache EXCEPT ![b] = [schema |-> scanned[b], age |-> "fresh"]]
    /\ stage' = [stage EXCEPT ![b] = "ok"]
    /\ UNCHANGED <<base, wanted, dump, scanned, snapshot, questionVars, faults>>

\* The engine is not supported, the file cannot be read, or the save fails: 400.
\* The base stays enabled and the others stay off.
UploadFails(b) ==
    /\ stage[b] \in {"scan", "save"}
    /\ CanFail
    /\ stage' = [stage EXCEPT ![b] = "failed"]
    /\ UNCHANGED <<base, wanted, dump, scanned, snapshot, cache, questionVars>>

----------------------------------------------------------------------------
(* NL2SQLAgent.run                                                         *)

\* QueryValidator.validate: one statement that starts with SELECT or WITH and
\* holds no keyword of the list.
Sqls == [statements : 0..2, leading : {"SELECT", "WITH", "other"}, forbidden : BOOLEAN]

IsValid(sql) ==
    /\ sql.statements = 1
    /\ sql.leading \in {"SELECT", "WITH"}
    /\ ~sql.forbidden

\* generate_sql and validate: no await of another coroutine, so one step with
\* the schema's arrival. The LLM may raise.
Generate(q, schema) ==
    \/ \E s \in {IF IsValid(sql) THEN "preview" ELSE "rejected" : sql \in Sqls} :
        /\ pc' = [pc EXCEPT ![q] = "log"]
        /\ used' = [used EXCEPT ![q] = schema]
        /\ status' = [status EXCEPT ![q] = s]
        /\ UNCHANGED faults
    \/ /\ CanFail
       /\ pc' = [pc EXCEPT ![q] = "answered"]
       /\ status' = [status EXCEPT ![q] = "error"]
       /\ UNCHANGED used

ReplyAtOnce(q, s) ==
    /\ pc' = [pc EXCEPT ![q] = "answered"]
    /\ status' = [status EXCEPT ![q] = s]
    /\ UNCHANGED <<used, faults>>

\* get_active_sql_connector, then the cache: a fresh entry is used at once.
ReadActive(q) ==
    /\ pc[q] = "asked"
    /\ chosen' = [chosen EXCEPT ![q] = base]
    /\ \/ base = NoBase /\ ReplyAtOnce(q, "no_active_connection")
       \/ /\ base # NoBase /\ cache[base].age = "fresh"
          /\ Generate(q, cache[base].schema)
       \/ /\ base # NoBase /\ cache[base].age # "fresh"
          /\ pc' = [pc EXCEPT ![q] = "load"]
          /\ UNCHANGED <<used, status, faults>>
    /\ UNCHANGED <<uploadVars, cache, logged>>

\* SchemaStore.get_active_schema
LoadSchema(q) ==
    /\ pc[q] = "load"
    /\ used' = [used EXCEPT ![q] = snapshot[chosen[q]]]
    /\ pc' = [pc EXCEPT ![q] = "loaded"]
    /\ UNCHANGED <<uploadVars, cache, chosen, status, logged, faults>>

\* Mutation: a base without schema is cached as such.
UseLoadedAlways(q) ==
    /\ pc[q] = "loaded"
    /\ cache' = [cache EXCEPT ![chosen[q]] = [schema |-> used[q], age |-> "fresh"]]
    /\ \/ used[q] = NoSchema /\ ReplyAtOnce(q, "no_schema")
       \/ used[q] # NoSchema /\ Generate(q, used[q])
    /\ UNCHANGED <<uploadVars, chosen, logged>>

\* The rest of get_or_load, on the schema that was read; None is not cached.
UseLoaded(q) ==
    /\ pc[q] = "loaded"
    /\ \/ /\ used[q] = NoSchema
          /\ ReplyAtOnce(q, "no_schema")
          /\ UNCHANGED cache
       \/ /\ used[q] # NoSchema
          /\ cache' = [cache EXCEPT ![chosen[q]] = [schema |-> used[q], age |-> "fresh"]]
          /\ Generate(q, used[q])
    /\ UNCHANGED <<uploadVars, chosen, logged>>

Logged(q, b) == [logged EXCEPT ![q] = [base |-> b, status |-> status[q]]]

\* Mutation: the log names the base that is active now.
LogActive(q) ==
    /\ pc[q] = "log"
    /\ logged' = Logged(q, base)
    /\ pc' = [pc EXCEPT ![q] = "answered"]
    /\ UNCHANGED <<uploadVars, cache, chosen, used, status, faults>>

\* QueryLogger.log: when the INSERT or the commit fails, the log is rolled back and
\* the failure swallowed; a rollback that fails too makes run answer an error. The
\* row may be there all the same, when it is the reply to the commit that is lost.
Log(q) ==
    /\ pc[q] = "log"
    /\ \/ logged' = Logged(q, chosen[q]) /\ UNCHANGED <<status, faults>>
       \/ /\ CanFail
          /\ logged' \in {logged, Logged(q, chosen[q])}
          /\ status' \in {status, [status EXCEPT ![q] = "error"]}
    /\ pc' = [pc EXCEPT ![q] = "answered"]
    /\ UNCHANGED <<uploadVars, cache, chosen, used>>

----------------------------------------------------------------------------
\* nl2sql_schema_ttl_seconds have passed.
Expire(b) ==
    /\ cache[b].age = "fresh"
    /\ cache' = [cache EXCEPT ![b].age = "expired"]
    /\ UNCHANGED <<uploadVars, questionVars, faults>>

\* The process restarts: the cache is empty, what was in flight is lost.
Restart ==
    /\ CanFail
    /\ cache' = [b \in Bases |-> Empty]
    /\ wanted' = NoBase
    /\ stage' = [b \in Bases |-> IF stage[b] = "cache" THEN "ok"
                                 ELSE IF stage[b] \in {"switch", "scan", "save"} THEN "failed"
                                 ELSE stage[b]]
    /\ pc' = [q \in Questions |-> IF pc[q] = "answered" THEN "answered" ELSE "lost"]
    /\ UNCHANGED <<base, dump, scanned, snapshot, chosen, used, status, logged>>

Init ==
    /\ Register!Init
    /\ dump = [b \in Bases |-> NoDump]
    /\ stage = [b \in Bases |-> "none"]
    /\ scanned = [b \in Bases |-> {}]
    /\ snapshot = [b \in Bases |-> NoSchema]
    /\ cache = [b \in Bases |-> Empty]
    /\ pc = [q \in Questions |-> "asked"]
    /\ chosen = [q \in Questions |-> NoBase]
    /\ used = [q \in Questions |-> NoSchema]
    /\ status = [q \in Questions |-> "none"]
    /\ logged = [q \in Questions |-> NoLog]
    /\ faults = 0

Next ==
    \/ \E b \in Bases :
        \/ BeginUpload(b) \/ PostConnector(b) \/ BeginToggle(b)
        \/ Scan(b) \/ SaveSchema(b) \/ SetCache(b) \/ UploadFails(b)
        \/ Expire(b)
    \/ DropOthers \/ SelectWanted \/ TurnOff
    \/ \E q \in Questions : ReadActive(q) \/ LoadSchema(q) \/ UseLoaded(q) \/ Log(q)
    \/ Restart

Spec == Init /\ [][Next]_vars

----------------------------------------------------------------------------
(* Properties.                                                             *)

\* Every variable has its type, and what a question is about to log or use was
\* read from a base (NL2SQLAgent.run).
TypeOK ==
    /\ base \in Bases \cup {NoBase} /\ wanted \in Bases \cup {NoBase}
    /\ dump \in [Bases -> Dumps \cup {NoDump}]
    /\ stage \in [Bases -> Stages]
    /\ scanned \in [Bases -> Schemas]
    /\ snapshot \in [Bases -> Schemas \cup {NoSchema}]
    /\ cache \in [Bases -> Entry]
    /\ \A b \in Bases : (cache[b].age = "none") <=> (cache[b].schema = NoSchema)
    /\ pc \in [Questions -> {"asked", "load", "loaded", "log", "answered", "lost"}]
    /\ chosen \in [Questions -> Bases \cup {NoBase}]
    /\ \A q \in Questions : pc[q] \in {"load", "loaded", "log"} => chosen[q] # NoBase
    /\ used \in [Questions -> Schemas \cup {NoSchema}]
    /\ status \in [Questions -> Statuses]
    /\ logged \in [Questions -> [base : Bases \cup {NoBase}, status : Statuses]]
    /\ faults \in 0..MaxFaults

\* What the cache holds for a base, fresh or expired, is its snapshot in the
\* store, whichever question or upload put it there ("Le cache ne remplace
\* jamais le store", schema_cache.py).
CachedIsStored ==
    \A b \in Bases : cache[b].age # "none" => cache[b].schema = snapshot[b]

\* The SQL of an answer was generated from the tables of the dump of the base that
\* was active when the question was read: those of its statements that the sandbox
\* executes, whatever comments, literals and other statements are around them, and
\* whatever happened since to the base, the store and the cache
\* (process_dump_upload, run).
AnsweredFromItsDump ==
    \A q \in Questions :
        status[q] \in {"preview", "rejected"} => used[q] = TablesOf[dump[chosen[q]]]

\* Questions meet an active base without schema only while its upload runs, because
\* that upload failed or because it never had one: a base is enabled before it is
\* scanned.
BlindOnlyUnscanned ==
    (base # NoBase /\ snapshot[base] = NoSchema)
        => stage[base] \in {"posted", "switch", "scan", "save", "failed"}

\* A row of the log names the base the question was about and the status of the query
\* that was generated for it, which is what the question is answered, unless the log
\* failed after the row was committed (_preview_result, _handle_rejected).
LogsTellTheAnswer ==
    \A q \in Questions :
        logged[q] # NoLog => /\ logged[q].base = chosen[q]
                             /\ logged[q].status \in {"preview", "rejected"}
                             /\ status[q] \in {logged[q].status, "error"}
=============================================================================
