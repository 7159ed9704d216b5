--------------------------- MODULE ConnectorAdmin ---------------------------
(***************************************************************************)
(* Administration of the connectors (app/admin/connectors): the table      *)
(* connector_configs, the requests that edit it and the EventBridge rules  *)
(* that follow its rows.                                                   *)
(*                                                                         *)
(* A repository method runs one statement and commits, so a handler is a   *)
(* chain of short transactions with an await between two of them: other    *)
(* requests run there.  One action is the code between two such awaits.    *)
(* The EventBridge calls are synchronous (boto3): they belong to the       *)
(* action that follows the commit whose row they push.                     *)
(***************************************************************************)
EXTENDS Integers, FiniteSets

CONSTANTS
    Connectors,         \* UUIDs the table can hand out; never reused
    Requests,           \* HTTP requests that can be in progress together
    ApiTypes,           \* source types that are synchronised (jira, ...)
    SqlTypes,           \* _SQL_SOURCE_TYPES of service.py
    AliasTypes,         \* engine names an upload accepts (postgres, sqlserver)
                        \* that are not in SqlTypes
    CreateTypes,        \* source types the client posts to /connectors
    Labels,             \* instance labels typed by an administrator
    Frequencies,        \* SyncFrequency, in minutes
    AuthKeys,           \* names of the credential fields
    AuthValues,         \* their values
    Payloads,           \* bodies of PATCH /connectors/{id} that clients send
    Ops,                \* the operations that clients request
    SerialPerConnector, \* TRUE: no two requests name one connector together
    LambdaConfigured,   \* settings.sync_lambda_arn is set
    Faults,             \* TRUE: database and AWS calls may fail
    NoRow, NoRule, NoId, Unset, Mask

SourceTypes == ApiTypes \cup SqlTypes \cup AliasTypes

AllFrequencies == Frequencies \cup {0}

Auth == [AuthKeys -> AuthValues \cup {Unset}]

Row == [type: SourceTypes, label: Labels \cup Connectors, enabled: BOOLEAN,
        auth: Auth, freq: AllFrequencies, sync: {"never", "success", "error"}]

Rule == [enabled: BOOLEAN, freq: AllFrequencies, target: BOOLEAN]

Payload == [label: Labels \cup {Unset}, freq: Frequencies \cup {Unset},
            auth: [AuthKeys -> AuthValues \cup {Mask, Unset}] \cup {Unset}]

OpNames == {"create", "update", "toggle", "delete", "upload", "sync"}

\* Where a request waits: the database call it makes next, or the push of the
\* rule that follows the commit it has just made.
Waits == {"create_lookup", "update_write", "deactivate", "set_enabled",
          "delete_row", "save_schema", "run_sync"}
PCs == Waits \cup {"idle", "push_rule"}

Request == [op: OpNames \cup {"none"}, id: Connectors \cup {NoId}, on: BOOLEAN,
            payload: Payload \cup {Unset}, row: Row \cup {NoRow}]

ASSUME ConnectorsFinite == IsFiniteSet(Connectors)
ASSUME RequestsFinite == IsFiniteSet(Requests)
ASSUME TypesDisjoint == /\ ApiTypes \cap SqlTypes = {}
                        /\ AliasTypes \cap (ApiTypes \cup SqlTypes) = {}
                        /\ CreateTypes \subseteq SourceTypes
ASSUME FrequenciesPositive == Frequencies \subseteq Nat \ {0}
ASSUME PayloadsTyped == Payloads \subseteq Payload
ASSUME OpsTyped == Ops \subseteq OpNames
ASSUME FlagsBoolean ==
    {SerialPerConnector, LambdaConfigured, Faults} \subseteq BOOLEAN
ASSUME Sentinels == /\ NoRow \notin Row
                    /\ NoRule \notin Rule
                    /\ NoId \notin Connectors
                    /\ Unset \notin Labels /\ Unset \notin Frequencies
                    /\ Unset \notin AuthValues /\ Unset \notin Payload
                    /\ Mask \notin AuthValues

VARIABLES
    configs,    \* connector_configs: connector -> row, or NoRow
    updatedAt,  \* rank of updated_at: larger is more recent, 0 is no row
    used,       \* UUIDs that were given to a row, deleted or not
    rules,      \* EventBridge rules, external: connector -> rule, or NoRule
    permitted,  \* connectors whose rule the Lambda accepts, external
    schemas,    \* connectors with an active schema snapshot
    pc,         \* what each request waits for
    req         \* arguments and local variables of each request

vars == <<configs, updatedAt, used, rules, permitted, schemas, pc, req>>
tableVars == <<configs, updatedAt, used>>
awsVars == <<rules, permitted>>

NoRequest == [op |-> "none", id |-> NoId, on |-> FALSE, payload |-> Unset,
              row |-> NoRow]

Init ==
    /\ configs = [c \in Connectors |-> NoRow]
    /\ updatedAt = [c \in Connectors |-> 0]
    /\ used = {}
    /\ rules = [c \in Connectors |-> NoRule]
    /\ permitted = {}
    /\ schemas = {}
    /\ pc = [r \in Requests |-> "idle"]
    /\ req = [r \in Requests |-> NoRequest]

-----------------------------------------------------------------------------
(* What the code reads of the table *)

Exists(c) == configs[c] # NoRow

IsSql(c) == Exists(c) /\ configs[c].type \in SqlTypes

ActiveSql == {c \in Connectors : IsSql(c) /\ configs[c].enabled}

\* get_active_sql_connector: of the enabled SQL rows, the last one updated.
SelectedBase ==
    IF ActiveSql = {} THEN NoId
    ELSE CHOOSE c \in ActiveSql :
            \A d \in ActiveSql : updatedAt[c] >= updatedAt[d]

\* updated_at is kept as a rank among the rows (0: no row): row c leaves the
\* ranking, or, with updated_at = now(), comes back above all the others.
Forget(c) ==
    [d \in Connectors |->
        IF d = c THEN 0
        ELSE IF 0 < updatedAt[c] /\ updatedAt[c] < updatedAt[d]
        THEN updatedAt[d] - 1
        ELSE updatedAt[d]]

Touch(c) ==
    LET others == {d \in Connectors \ {c} : updatedAt[d] > 0}
    IN  [Forget(c) EXCEPT ![c] = Cardinality(others) + 1]

\* UNIQUE (source_type, instance_label)
Taken(type, label, except) ==
    \E c \in Connectors \ {except} :
        Exists(c) /\ configs[c].type = type /\ configs[c].label = label

-----------------------------------------------------------------------------
(* Requests *)

InFlight(c) == {r \in Requests : pc[r] # "idle" /\ req[r].id = c}

\* Clients name the instances they were given; any other UUID is a 404.
MayTarget(c) == c \in used /\ (SerialPerConnector => InFlight(c) = {})

CanStart(r, op) == pc[r] = "idle" /\ op \in Ops

Wait(r, where, request) ==
    /\ pc' = [pc EXCEPT ![r] = where]
    /\ req' = [req EXCEPT ![r] = request]

Answer(r) == Wait(r, "idle", NoRequest)

\* The answer to a POST is kept until the slot serves another request: which
\* instance it named, for which (type, label); NoId is a 409.
AnswerCreate(r, c) ==
    Wait(r, "idle", [req[r] EXCEPT !.op = "create", !.id = c])

\* The row is pushed after its commit, once the handler runs again.
ThenPush(r, request) == Wait(r, "push_rule", request)

\* repository.create, with is_enabled left to its DEFAULT TRUE
Insert(c, row) ==
    /\ c \notin used
    /\ configs' = [configs EXCEPT ![c] = row]
    /\ updatedAt' = Touch(c)
    /\ used' = used \cup {c}

-----------------------------------------------------------------------------
(* POST /connectors *)

CreateInsert(r, c, row) ==
    /\ CanStart(r, "create")
    /\ ~Taken(row.type, row.label, NoId)
    /\ Insert(c, row)
    /\ ThenPush(r, [NoRequest EXCEPT !.op = "create", !.id = c, !.row = row])
    /\ UNCHANGED <<awsVars, schemas>>

\* Mutation: the duplicate is answered 409, without looking for its row.
CreateConflict(r, row) ==
    /\ CanStart(r, "create")
    /\ Taken(row.type, row.label, NoId)
    /\ Wait(r, "idle", [NoRequest EXCEPT !.op = "create", !.row = row])
    /\ UNCHANGED <<tableVars, awsVars, schemas>>

\* DuplicateInstanceLabelError: the handler looks for the existing instance.
CreateDuplicate(r, row) ==
    /\ CanStart(r, "create")
    /\ Taken(row.type, row.label, NoId)
    /\ Wait(r, "create_lookup", [NoRequest EXCEPT !.op = "create", !.row = row])
    /\ UNCHANGED <<tableVars, awsVars, schemas>>

CreateLookup(r) ==
    LET same == {c \in Connectors : /\ Exists(c)
                                    /\ configs[c].type = req[r].row.type
                                    /\ configs[c].label = req[r].row.label}
    IN  /\ pc[r] = "create_lookup"
        /\ \/ \E c \in same : AnswerCreate(r, c)
           \/ same = {} /\ AnswerCreate(r, NoId)
        /\ UNCHANGED <<tableVars, awsVars, schemas>>

NewRows == [type: CreateTypes, label: Labels, enabled: {TRUE},
            auth: {[k \in AuthKeys |-> v] : v \in AuthValues},
            freq: Frequencies, sync: {"never"}]

Create(r) ==
    \E row \in NewRows :
        \/ \E c \in Connectors : CreateInsert(r, c, row)
        \/ CreateDuplicate(r, row)

-----------------------------------------------------------------------------
(* PATCH /connectors/{id} *)

\* A body with credentials is merged into the row read before the UPDATE.
UpdateRead(r, c, payload) ==
    /\ CanStart(r, "update") /\ MayTarget(c)
    /\ Wait(r, "update_write", [NoRequest EXCEPT !.op = "update", !.id = c,
                                !.payload = payload, !.row = configs[c]])
    /\ UNCHANGED <<tableVars, awsVars, schemas>>

\* Mutation: the mask that the form sends back is stored as a credential.
MergedAuthWithMask(payload, row) ==
    [k \in AuthKeys |->
        IF payload.auth[k] # Unset THEN payload.auth[k]
        ELSE IF row = NoRow THEN Unset ELSE row.auth[k]]

\* {**existing_auth}, then every supplied field that is not the mask
MergedAuth(payload, row) ==
    [k \in AuthKeys |->
        IF payload.auth[k] \in {Mask, Unset}
        THEN IF row = NoRow THEN Unset ELSE row.auth[k]
        ELSE payload.auth[k]]

\* Mutation: a field that was not supplied is written as NULL.
SuppliedOrNull(value, old) == value

Supplied(value, old) == IF value = Unset THEN old ELSE value

\* Mutation: the whole row is written back as it was read.
PatchedRowRead(old, payload, read) ==
    [read EXCEPT !.label = Supplied(payload.label, @),
                 !.freq = Supplied(payload.freq, @),
                 !.auth = IF payload.auth = Unset THEN @
                          ELSE MergedAuth(payload, read)]

\* UPDATE ... SET of the supplied columns only
Patched(old, payload, read) ==
    [old EXCEPT !.label = Supplied(payload.label, @),
                !.freq = Supplied(payload.freq, @),
                !.auth = IF payload.auth = Unset THEN @
                         ELSE MergedAuth(payload, read)]

EmptyPayload(p) == p.label = Unset /\ p.freq = Unset /\ p.auth = Unset

UpdateWrite(r) ==
    LET c == req[r].id
        payload == req[r].payload
        new == Patched(configs[c], payload, req[r].row)
    IN  /\ pc[r] = "update_write"
        /\ \/ /\ ~Exists(c) \/ EmptyPayload(payload)
              /\ Answer(r)
              /\ UNCHANGED tableVars
           \/ /\ Exists(c) /\ ~EmptyPayload(payload)
              /\ Taken(new.type, new.label, c)
              /\ Answer(r)
              /\ UNCHANGED tableVars
           \/ /\ Exists(c) /\ ~EmptyPayload(payload)
              /\ ~Taken(new.type, new.label, c)
              /\ configs' = [configs EXCEPT ![c] = new]
              /\ updatedAt' = Touch(c)
              /\ IF payload.freq # Unset
                 THEN ThenPush(r, [req[r] EXCEPT !.row = new])
                 ELSE Answer(r)
              /\ UNCHANGED used
        /\ UNCHANGED <<awsVars, schemas>>

-----------------------------------------------------------------------------
(* PATCH /connectors/{id}/toggle *)

\* Mutation: enabling a SQL base forgets to deactivate the others.
ToggleReadAlone(r, c, on) ==
    /\ CanStart(r, "toggle") /\ MayTarget(c)
    /\ \/ ~Exists(c) /\ Answer(r)
       \/ /\ Exists(c)
          /\ Wait(r, "set_enabled", [NoRequest EXCEPT !.op = "toggle", !.id = c,
                                                      !.on = on, !.row = configs[c]])
    /\ UNCHANGED <<tableVars, awsVars, schemas>>

ToggleRead(r, c, on) ==
    /\ CanStart(r, "toggle") /\ MayTarget(c)
    /\ \/ ~Exists(c) /\ Answer(r)
       \/ /\ Exists(c)
          /\ Wait(r, IF on /\ IsSql(c) THEN "deactivate" ELSE "set_enabled",
                  [NoRequest EXCEPT !.op = "toggle", !.id = c, !.on = on,
                                    !.row = configs[c]])
    /\ UNCHANGED <<tableVars, awsVars, schemas>>

\* Mutation: the base being selected is deactivated with the others.
DeactivateItself(r) ==
    /\ pc[r] = "deactivate"
    /\ configs' = [c \in Connectors |->
                     IF IsSql(c) THEN [configs[c] EXCEPT !.enabled = FALSE]
                     ELSE configs[c]]
    /\ Wait(r, "set_enabled", req[r])
    /\ UNCHANGED <<updatedAt, used, awsVars, schemas>>

\* Mutation: only the base that get_active_sql_connector returns is deactivated.
DeactivateSelected(r) ==
    /\ pc[r] = "deactivate"
    /\ configs' = [c \in Connectors |->
                     IF c = SelectedBase /\ c # req[r].id
                     THEN [configs[c] EXCEPT !.enabled = FALSE] ELSE configs[c]]
    /\ Wait(r, "set_enabled", req[r])
    /\ UNCHANGED <<updatedAt, used, awsVars, schemas>>

\* deactivate_all_sql_connectors: updated_at and the rules stay as they are.
Deactivate(r) ==
    /\ pc[r] = "deactivate"
    /\ configs' = [c \in Connectors |->
                     IF IsSql(c) /\ c # req[r].id
                     THEN [configs[c] EXCEPT !.enabled = FALSE] ELSE configs[c]]
    /\ Wait(r, "set_enabled", req[r])
    /\ UNCHANGED <<updatedAt, used, awsVars, schemas>>

\* Mutation: a toggle pushes to EventBridge the row it read, not the new one.
SetEnabledPushOld(r) ==
    LET c == req[r].id
    IN  /\ pc[r] = "set_enabled"
        /\ IF Exists(c)
           THEN /\ configs' = [configs EXCEPT ![c].enabled = req[r].on]
                /\ updatedAt' = Touch(c)
           ELSE UNCHANGED <<configs, updatedAt>>
        /\ \/ req[r].op = "toggle" /\ Exists(c) /\ ThenPush(r, req[r])
           \/ req[r].op = "toggle" /\ ~Exists(c) /\ Answer(r)
           \/ req[r].op = "upload" /\ Wait(r, "save_schema", req[r])
        /\ UNCHANGED <<used, awsVars, schemas>>

SetEnabled(r) ==
    LET c == req[r].id
        new == [configs[c] EXCEPT !.enabled = req[r].on]
    IN  /\ pc[r] = "set_enabled"
        /\ IF Exists(c)
           THEN /\ configs' = [configs EXCEPT ![c] = new]
                /\ updatedAt' = Touch(c)
           ELSE UNCHANGED <<configs, updatedAt>>
        /\ \/ /\ req[r].op = "toggle" /\ Exists(c)
              /\ ThenPush(r, [req[r] EXCEPT !.row = new])
           \/ req[r].op = "toggle" /\ ~Exists(c) /\ Answer(r)
           \/ req[r].op = "upload" /\ Wait(r, "save_schema", req[r])
        /\ UNCHANGED <<used, awsVars, schemas>>

-----------------------------------------------------------------------------
(* DELETE /connectors/{id}: the rule first, then the row *)

\* rules.delete_rule: remove_targets, then delete_rule; errors are logged.
DeleteRule(c) ==
    \/ /\ LambdaConfigured
       /\ rules' = [rules EXCEPT ![c] = NoRule]
    \/ /\ ~LambdaConfigured \/ Faults
       /\ UNCHANGED rules
    \/ /\ LambdaConfigured /\ Faults /\ rules[c] # NoRule
       /\ rules' = [rules EXCEPT ![c].target = FALSE]

DeleteStart(r, c) ==
    /\ CanStart(r, "delete") /\ MayTarget(c)
    /\ DeleteRule(c)
    /\ Wait(r, "delete_row", [NoRequest EXCEPT !.op = "delete", !.id = c])
    /\ UNCHANGED <<tableVars, permitted, schemas>>

DeleteRow(r) ==
    /\ pc[r] = "delete_row"
    /\ IF Exists(req[r].id)
       THEN /\ configs' = [configs EXCEPT ![req[r].id] = NoRow]
            /\ updatedAt' = Forget(req[r].id)
       ELSE UNCHANGED <<configs, updatedAt>>
    /\ Answer(r)
    /\ UNCHANGED <<used, awsVars, schemas>>

-----------------------------------------------------------------------------
(* POST /nl2sql/upload-dump and /nl2sql/upload-sqlite *)

\* The label is made unique by the code; the UUID of the row stands for it.
UploadInsert(r, c, type) ==
    LET row == [type |-> type, label |-> c, enabled |-> TRUE,
                auth |-> [k \in AuthKeys |-> Unset], freq |-> 0,
                sync |-> "never"]
    IN  /\ CanStart(r, "upload")
        /\ Insert(c, row)
        /\ Wait(r, "deactivate", [NoRequest EXCEPT !.op = "upload", !.id = c,
                                  !.on = TRUE, !.row = row])
        /\ UNCHANGED <<awsVars, schemas>>

\* The dump is scanned, then its schema saved; a scan that fails is a 400.
SaveSchema(r) ==
    /\ pc[r] = "save_schema"
    /\ schemas' \in {schemas, schemas \cup {req[r].id}}
    /\ Answer(r)
    /\ UNCHANGED <<tableVars, awsVars>>

-----------------------------------------------------------------------------
(* POST /connectors/{id}/sync: what trigger_sync reads and records *)

SyncRead(r, c) ==
    /\ CanStart(r, "sync") /\ MayTarget(c)
    /\ Exists(c)
    /\ Wait(r, "run_sync", [NoRequest EXCEPT !.op = "sync", !.id = c,
                                             !.row = configs[c]])
    /\ UNCHANGED <<tableVars, awsVars, schemas>>

RecordSync(r, outcome) ==
    LET c == req[r].id
    IN  /\ pc[r] = "run_sync"
        /\ outcome = "success" => req[r].row.type \in ApiTypes
        /\ IF Exists(c)
           THEN /\ configs' = [configs EXCEPT ![c].sync = outcome]
                /\ updatedAt' = Touch(c)
           ELSE UNCHANGED <<configs, updatedAt>>
        /\ Answer(r)
        /\ UNCHANGED <<used, awsVars, schemas>>

-----------------------------------------------------------------------------
(* The EventBridge rule of the row that was just written *)

\* _schedule_expression gives "rate(0 hours)" for 0, which AWS refuses.
ValidRate(freq) == freq > 0

\* create_or_update_rule: put_rule, put_targets, add_permission; a failure of
\* one is logged and leaves what the calls before it did.
PutRule(c, row) ==
    LET put(target) == [enabled |-> row.enabled, freq |-> row.freq,
                        target |-> target]
        hadTarget == rules[c] # NoRule /\ rules[c].target
        works == LambdaConfigured /\ ValidRate(row.freq)
    IN  \/ /\ works
           /\ rules' = [rules EXCEPT ![c] = put(TRUE)]
           /\ permitted' = permitted \cup {c}
        \/ /\ ~works \/ Faults
           /\ UNCHANGED awsVars
        \/ /\ works /\ Faults
           /\ rules' \in {[rules EXCEPT ![c] = put(hadTarget)],
                          [rules EXCEPT ![c] = put(TRUE)]}
           /\ UNCHANGED permitted

PushRule(r) ==
    /\ pc[r] = "push_rule"
    /\ PutRule(req[r].id, req[r].row)
    /\ IF req[r].op = "create" THEN AnswerCreate(r, req[r].id) ELSE Answer(r)
    /\ UNCHANGED <<tableVars, schemas>>

\* A database call raises (the acknowledgement of a commit may be what is
\* lost), or the server restarts: what was committed before stays in place.
RequestFails(r) ==
    /\ Faults
    /\ pc[r] # "idle"
    /\ Answer(r)
    /\ UNCHANGED <<tableVars, awsVars, schemas>>

-----------------------------------------------------------------------------

Begin(r) ==
    \/ Create(r)
    \/ \E c \in Connectors, p \in Payloads : UpdateRead(r, c, p)
    \/ \E c \in Connectors, on \in BOOLEAN : ToggleRead(r, c, on)
    \/ \E c \in Connectors : DeleteStart(r, c)
    \/ \E c \in Connectors, t \in SqlTypes \cup AliasTypes :
          UploadInsert(r, c, t)
    \/ \E c \in Connectors : SyncRead(r, c)

Resume(r) ==
    \/ CreateLookup(r)
    \/ UpdateWrite(r)
    \/ Deactivate(r)
    \/ SetEnabled(r)
    \/ DeleteRow(r)
    \/ SaveSchema(r)
    \/ \E outcome \in {"success", "error"} : RecordSync(r, outcome)
    \/ PushRule(r)

Next == \E r \in Requests : Begin(r) \/ Resume(r) \/ RequestFails(r)

Spec == Init /\ [][Next]_vars
-----------------------------------------------------------------------------
(* Properties *)

TableTyped ==
    /\ configs \in [Connectors -> Row \cup {NoRow}]
    /\ updatedAt \in [Connectors -> Nat]
    /\ used \subseteq Connectors
    /\ schemas \subseteq Connectors

RulesTyped ==
    /\ rules \in [Connectors -> Rule \cup {NoRule}]
    /\ permitted \subseteq Connectors

\* The local variables a handler reads where it waits have been set.
HasLocals(where, q) ==
    /\ where \notin {"idle", "create_lookup"} => q.id \in Connectors
    /\ where \in {"create_lookup", "push_rule"} => q.row \in Row
    /\ where = "update_write" => q.payload \in Payload

RequestsTyped ==
    /\ pc \in [Requests -> PCs]
    /\ req \in [Requests -> Request]
    /\ \A r \in Requests : HasLocals(pc[r], req[r])

TypeOK == TableTyped /\ RulesTyped /\ RequestsTyped

AtRest == \A r \in Requests : pc[r] = "idle"

\* An upload inserts its row enabled and deactivates the others afterwards.
Importing(r) == pc[r] = "deactivate" /\ req[r].op = "upload"

\* Several SQL bases can be enabled, but never more than the requests that can
\* overlap: each of them beyond the first comes from a toggle or an upload that
\* had deactivated the others before another one enabled its own.  While an
\* upload is between its INSERT and its deactivation nothing is claimed.
\* With one request at a time this is the exclusivity that repository.py
\* promises ("une seule active à la fois").
ActiveBoundedByOverlap ==
    (\A r \in Requests : ~Importing(r))
        => Cardinality(ActiveSql) <= Cardinality(Requests)

\* repository.py, get_active_sql_connector: "Un seul actif possible à la fois".
OneActiveBase == AtRest => Cardinality(ActiveSql) <= 1

\* One request at a time, the table implements the register of ActiveBase: the
\* base changes only to the one named by the toggle or upload in progress, and
\* no edit, sync or deletion ever moves questions to another base.
Switching(r) ==
    /\ pc[r] \in {"deactivate", "set_enabled"}
    /\ req[r].on /\ req[r].row.type \in SqlTypes

WantedBase ==
    IF \E r \in Requests : Switching(r)
    THEN req[CHOOSE r \in Requests : Switching(r)].id ELSE NoId

Register == INSTANCE ActiveBase
    WITH Bases <- Connectors, NoBase <- NoId,
         base <- SelectedBase, wanted <- WantedBase

ImplementsRegister == Register!Spec

\* A connector that an administrator paused, or that another base replaced, is
\* enabled again only by a toggle-on or an upload that names it: no edit, sync
\* result or late write of another request brings it back.
PausedStaysPaused ==
    [][\A c \in Connectors :
         (Exists(c) /\ ~configs[c].enabled /\ Exists(c)' /\ configs'[c].enabled)
             => \E r \in Requests : /\ pc[r] = "set_enabled"
                                    /\ pc'[r] # "set_enabled"
                                    /\ req[r].id = c /\ req[r].on]_vars

\* models.py, ConnectorUpdate: "PATCH partiel, on ne modifie que ce qui est
\* fourni".  A label, a frequency or one credential changes only when an UPDATE
\* commits, and then only to the value the body supplied for it.
PatchWritesOnlyWhatIsSupplied ==
    [][\A c \in Connectors : Exists(c) /\ Exists(c)' =>
         \E r \in Requests :
            LET body == IF pc[r] = "update_write" /\ req[r].id = c
                        THEN req[r].payload
                        ELSE [label |-> Unset, freq |-> Unset, auth |-> Unset]
                old == configs[c]
                new == configs'[c]
            IN  /\ new.label \in {old.label, body.label}
                /\ new.freq \in {old.freq, body.freq}
                /\ \A k \in AuthKeys :
                      \/ new.auth[k] = old.auth[k]
                      \/ /\ body.auth # Unset
                         /\ body.auth[k] \in AuthValues
                         /\ new.auth[k] = body.auth[k]]_vars

\* An API connector that no request is working on has the schedule its row
\* says, and a deleted connector has none.
RuleOf(row) == [enabled |-> row.enabled, freq |-> row.freq, target |-> TRUE]

RulesMirrorRows ==
    \A c \in Connectors :
        InFlight(c) = {} =>
            /\ ~Exists(c) => rules[c] = NoRule
            /\ Exists(c) /\ configs[c].type \in ApiTypes
                  => rules[c] = RuleOf(configs[c]) /\ c \in permitted

\* service.py, create_connector: a form submitted twice gives one instance, and
\* both answers name it (as long as nothing deletes or renames it meanwhile).
DoubleSubmitSharesInstance ==
    \A r, s \in Requests :
        LET answered(q) == pc[q] = "idle" /\ req[q].op = "create"
            form(q) == <<req[q].row.type, req[q].row.label>>
        IN  answered(r) /\ answered(s) /\ form(r) = form(s)
                => req[r].id = req[s].id /\ req[r].id # NoId
=============================================================================
