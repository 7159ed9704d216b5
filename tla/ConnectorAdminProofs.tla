------------------------ MODULE ConnectorAdminProofs ------------------------
(***************************************************************************)
(* Theorems about ConnectorAdmin, for every set of connectors, requests,   *)
(* labels, credentials and payloads.                                       *)
(***************************************************************************)
EXTENDS ConnectorAdmin, FiniteSetTheorems, TLAPS

-----------------------------------------------------------------------------
(* The operators the handlers are made of *)

LEMMA RowTyped ==
    ASSUME TypeOK, NEW c \in Connectors, Exists(c)
    PROVE  configs[c] \in Row
BY DEF TypeOK, TableTyped, Exists

LEMMA NewRowsTyped == NewRows \subseteq Row
BY TypesDisjoint DEF NewRows, Row, Auth, AllFrequencies

LEMMA RanksTyped ==
    ASSUME TypeOK, NEW c \in Connectors
    PROVE  /\ Forget(c) \in [Connectors -> Nat]
           /\ Touch(c) \in [Connectors -> Nat]
<1>1. Forget(c) \in [Connectors -> Nat]
  BY DEF TypeOK, TableTyped, Forget
<1>2. Cardinality({d \in Connectors \ {c} : updatedAt[d] > 0}) \in Nat
  BY ConnectorsFinite, FS_Subset, FS_CardinalityType
<1> QED
  BY <1>1, <1>2 DEF Touch

LEMMA InsertTyped ==
    ASSUME TypeOK, NEW c \in Connectors, NEW row \in Row, Insert(c, row),
           UNCHANGED schemas
    PROVE  TableTyped'
BY RanksTyped DEF TypeOK, TableTyped, Insert

LEMMA WriteTyped ==
    ASSUME TypeOK, NEW c \in Connectors, NEW row \in Row,
           configs' = [configs EXCEPT ![c] = row], updatedAt' = Touch(c),
           UNCHANGED <<used, schemas>>
    PROVE  TableTyped'
BY RanksTyped DEF TypeOK, TableTyped

LEMMA PutRuleTyped ==
    ASSUME TypeOK, NEW c \in Connectors, NEW row \in Row, PutRule(c, row)
    PROVE  RulesTyped'
<1>1. rules[c] # NoRule => rules[c].target \in BOOLEAN
  BY DEF TypeOK, RulesTyped, Rule
<1>2. \A t \in BOOLEAN :
        [enabled |-> row.enabled, freq |-> row.freq, target |-> t] \in Rule
  BY DEF Row, Rule
<1> QED
  BY <1>1, <1>2 DEF TypeOK, RulesTyped, PutRule, awsVars

LEMMA DeleteRuleTyped ==
    ASSUME TypeOK, NEW c \in Connectors, DeleteRule(c), UNCHANGED permitted
    PROVE  RulesTyped'
<1>1. rules[c] # NoRule => [rules[c] EXCEPT !.target = FALSE] \in Rule
  BY DEF TypeOK, RulesTyped, Rule
<1> QED
  BY <1>1 DEF TypeOK, RulesTyped, DeleteRule

LEMMA MergedAuthTyped ==
    ASSUME NEW payload \in Payload, payload.auth # Unset,
           NEW row \in Row \cup {NoRow}
    PROVE  MergedAuth(payload, row) \in Auth
<1>1. payload.auth \in [AuthKeys -> AuthValues \cup {Mask, Unset}]
  BY DEF Payload
<1>2. \A k \in AuthKeys : row # NoRow => row.auth[k] \in AuthValues \cup {Unset}
  BY DEF Row, Auth
<1> QED
  BY <1>1, <1>2 DEF MergedAuth, Auth

LEMMA PatchedTyped ==
    ASSUME NEW old \in Row, NEW payload \in Payload,
           NEW read \in Row \cup {NoRow}
    PROVE  Patched(old, payload, read) \in Row
<1>1. Supplied(payload.label, old.label) \in Labels \cup Connectors
  BY DEF Supplied, Payload, Row
<1>2. Supplied(payload.freq, old.freq) \in AllFrequencies
  BY DEF Supplied, Payload, Row, AllFrequencies
<1>3. (IF payload.auth = Unset THEN old.auth ELSE MergedAuth(payload, read)) \in Auth
  BY MergedAuthTyped DEF Row
<1> QED
  BY <1>1, <1>2, <1>3 DEF Patched, Row

-----------------------------------------------------------------------------
(* Where a request waits next *)

LEMMA NoRequestTyped == NoRequest \in Request
BY DEF NoRequest, Request

LEMMA WaitTyped ==
    ASSUME TypeOK, NEW r \in Requests, NEW w \in PCs, NEW q \in Request,
           HasLocals(w, q), Wait(r, w, q)
    PROVE  RequestsTyped'
BY DEF TypeOK, RequestsTyped, Wait

LEMMA WaitSets ==
    ASSUME TypeOK, NEW r \in Requests, NEW w, NEW q, Wait(r, w, q)
    PROVE  pc'[r] = w /\ req'[r] = q
BY DEF Wait, TypeOK, RequestsTyped

LEMMA AnswerTyped ==
    ASSUME TypeOK, NEW r \in Requests, Answer(r)
    PROVE  RequestsTyped'
BY WaitTyped, NoRequestTyped DEF Answer, PCs, HasLocals

LEMMA AnswerCreateTyped ==
    ASSUME TypeOK, NEW r \in Requests, NEW c \in Connectors \cup {NoId},
           AnswerCreate(r, c)
    PROVE  RequestsTyped'
<1>1. [req[r] EXCEPT !.op = "create", !.id = c] \in Request
  BY DEF TypeOK, RequestsTyped, Request, OpNames
<1> QED
  BY <1>1, WaitTyped DEF AnswerCreate, PCs, HasLocals

-----------------------------------------------------------------------------
(* The type invariant *)

LEMMA CreateInsertTyped ==
    ASSUME TypeOK, NEW r \in Requests, NEW row \in NewRows, NEW c \in Connectors,
           CreateInsert(r, c, row)
    PROVE  TypeOK'
<1> DEFINE q == [NoRequest EXCEPT !.op = "create", !.id = c, !.row = row]
<1>1. row \in Row
  BY NewRowsTyped
<1>2. q \in Request /\ HasLocals("push_rule", q)
  BY <1>1 DEF NoRequest, Request, OpNames, HasLocals
<1>3. RequestsTyped'
  BY <1>2, WaitTyped DEF CreateInsert, ThenPush, PCs
<1>4. TableTyped'
  BY <1>1, InsertTyped DEF CreateInsert
<1> QED
  BY <1>3, <1>4 DEF CreateInsert, TypeOK, RulesTyped, awsVars

LEMMA CreateDuplicateTyped ==
    ASSUME TypeOK, NEW r \in Requests, NEW row \in NewRows, CreateDuplicate(r, row)
    PROVE  TypeOK'
<1> DEFINE q == [NoRequest EXCEPT !.op = "create", !.row = row]
<1>1. q \in Request /\ HasLocals("create_lookup", q)
  BY NewRowsTyped DEF NoRequest, Request, OpNames, HasLocals
<1>2. RequestsTyped'
  BY <1>1, WaitTyped DEF CreateDuplicate, PCs, Waits
<1> QED
  BY <1>2 DEF CreateDuplicate, TypeOK, TableTyped, RulesTyped, tableVars, awsVars

LEMMA UpdateReadTyped ==
    ASSUME TypeOK, NEW r \in Requests, NEW c \in Connectors, NEW p \in Payloads,
           UpdateRead(r, c, p)
    PROVE  TypeOK'
<1> DEFINE q == [NoRequest EXCEPT !.op = "update", !.id = c, !.payload = p,
                                  !.row = configs[c]]
<1>1. q \in Request /\ HasLocals("update_write", q)
  BY PayloadsTyped DEF TypeOK, TableTyped, NoRequest, Request, OpNames, HasLocals
<1>2. RequestsTyped'
  BY <1>1, WaitTyped DEF UpdateRead, PCs, Waits
<1> QED
  BY <1>2 DEF UpdateRead, TypeOK, TableTyped, RulesTyped, tableVars, awsVars

LEMMA UpdateWriteTyped ==
    ASSUME TypeOK, NEW r \in Requests, UpdateWrite(r)
    PROVE  TypeOK'
<1> DEFINE c == req[r].id
           p == req[r].payload
           new == Patched(configs[c], p, req[r].row)
<1>1. c \in Connectors /\ p \in Payload /\ req[r].row \in Row \cup {NoRow}
  BY DEF UpdateWrite, TypeOK, RequestsTyped, HasLocals, Request
<1>2. CASE UNCHANGED tableVars /\ Answer(r)
  BY <1>2, AnswerTyped
     DEF UpdateWrite, TypeOK, TableTyped, RulesTyped, tableVars, awsVars
<1>3. CASE /\ Exists(c)
           /\ configs' = [configs EXCEPT ![c] = new]
           /\ updatedAt' = Touch(c)
           /\ IF p.freq # Unset
              THEN ThenPush(r, [req[r] EXCEPT !.row = new])
              ELSE Answer(r)
           /\ UNCHANGED used
  <2> HIDE DEF c, p
  <2>1. new \in Row
    BY <1>1, <1>3, RowTyped, PatchedTyped
  <2> HIDE DEF new
  <2>2. TableTyped'
    BY <1>1, <1>3, <2>1, WriteTyped DEF UpdateWrite
  <2>3. [req[r] EXCEPT !.row = new] \in Request
    BY <2>1 DEF TypeOK, RequestsTyped, Request
  <2>4. HasLocals("push_rule", [req[r] EXCEPT !.row = new])
    BY <1>1, <2>1 DEF HasLocals, c, TypeOK, RequestsTyped, Request
  <2>5. RequestsTyped'
    BY <1>3, <2>3, <2>4, WaitTyped, AnswerTyped DEF ThenPush, PCs
  <2> QED
    BY <2>2, <2>5 DEF UpdateWrite, TypeOK, RulesTyped, awsVars
<1> QED
  BY <1>2, <1>3 DEF UpdateWrite

LEMMA ToggleReadTyped ==
    ASSUME TypeOK, NEW r \in Requests, NEW c \in Connectors, NEW on \in BOOLEAN,
           ToggleRead(r, c, on)
    PROVE  TypeOK'
<1> DEFINE q == [NoRequest EXCEPT !.op = "toggle", !.id = c, !.on = on,
                                  !.row = configs[c]]
           w == IF on /\ IsSql(c) THEN "deactivate" ELSE "set_enabled"
<1>1. q \in Request /\ HasLocals(w, q) /\ w \in PCs
  BY DEF TypeOK, TableTyped, NoRequest, Request, OpNames, HasLocals, PCs, Waits
<1>2. RequestsTyped'
  BY <1>1, WaitTyped, AnswerTyped DEF ToggleRead
<1> QED
  BY <1>2 DEF ToggleRead, TypeOK, TableTyped, RulesTyped, tableVars, awsVars

LEMMA DeactivateTyped ==
    ASSUME TypeOK, NEW r \in Requests, Deactivate(r)
    PROVE  TypeOK'
<1>1. \A c \in Connectors :
        Exists(c) => [configs[c] EXCEPT !.enabled = FALSE] \in Row
  BY RowTyped DEF Row
<1>2. TableTyped'
  BY <1>1 DEF TypeOK, TableTyped, Deactivate, IsSql
<1>3. req[r] \in Request /\ HasLocals("set_enabled", req[r])
  BY DEF Deactivate, TypeOK, RequestsTyped, HasLocals
<1>4. RequestsTyped'
  BY <1>3, WaitTyped DEF Deactivate, PCs, Waits
<1> QED
  BY <1>2, <1>4 DEF Deactivate, TypeOK, RulesTyped, awsVars

LEMMA SetEnabledTyped ==
    ASSUME TypeOK, NEW r \in Requests, SetEnabled(r)
    PROVE  TypeOK'
<1> DEFINE c == req[r].id
           new == [configs[c] EXCEPT !.enabled = req[r].on]
<1>1. c \in Connectors /\ req[r] \in Request
  BY DEF SetEnabled, TypeOK, RequestsTyped, HasLocals
<1>2. Exists(c) => new \in Row
  BY <1>1, RowTyped DEF Row, Request
<1>3. TableTyped'
  <2>1. CASE Exists(c)
    BY <1>1, <1>2, <2>1, WriteTyped DEF SetEnabled
  <2>2. CASE ~Exists(c)
    BY <2>2 DEF SetEnabled, TypeOK, TableTyped
  <2> QED
    BY <2>1, <2>2
<1>4. RequestsTyped'
  <2>1. CASE Exists(c) /\ ThenPush(r, [req[r] EXCEPT !.row = new])
    <3> DEFINE q == [req[r] EXCEPT !.row = new]
    <3>1. q \in Request /\ HasLocals("push_rule", q)
      BY <1>1, <1>2, <2>1 DEF Request, HasLocals
    <3> QED
      BY <2>1, <3>1, WaitTyped DEF ThenPush, PCs
  <2>2. CASE Answer(r)
    BY <2>2, AnswerTyped
  <2>3. CASE Wait(r, "save_schema", req[r])
    BY <1>1, <2>3, WaitTyped DEF HasLocals, PCs, Waits
  <2> QED
    BY <2>1, <2>2, <2>3 DEF SetEnabled
<1> QED
  BY <1>3, <1>4 DEF SetEnabled, TypeOK, RulesTyped, awsVars

LEMMA DeleteStartTyped ==
    ASSUME TypeOK, NEW r \in Requests, NEW c \in Connectors, DeleteStart(r, c)
    PROVE  TypeOK'
<1> DEFINE q == [NoRequest EXCEPT !.op = "delete", !.id = c]
<1>1. q \in Request /\ HasLocals("delete_row", q)
  BY DEF NoRequest, Request, OpNames, HasLocals
<1>2. RequestsTyped'
  BY <1>1, WaitTyped DEF DeleteStart, PCs, Waits
<1> QED
  BY <1>2, DeleteRuleTyped DEF DeleteStart, TypeOK, TableTyped, tableVars

LEMMA DeleteRowTyped ==
    ASSUME TypeOK, NEW r \in Requests, DeleteRow(r)
    PROVE  TypeOK'
<1>1. req[r].id \in Connectors
  BY DEF DeleteRow, TypeOK, RequestsTyped, HasLocals
<1>2. TableTyped'
  BY <1>1, RanksTyped DEF DeleteRow, TypeOK, TableTyped
<1> QED
  BY <1>2, AnswerTyped DEF DeleteRow, TypeOK, RulesTyped, awsVars

LEMMA UploadInsertTyped ==
    ASSUME TypeOK, NEW r \in Requests, NEW c \in Connectors,
           NEW t \in SqlTypes \cup AliasTypes, UploadInsert(r, c, t)
    PROVE  TypeOK'
<1> DEFINE row == [type |-> t, label |-> c, enabled |-> TRUE,
                   auth |-> [k \in AuthKeys |-> Unset], freq |-> 0,
                   sync |-> "never"]
           q == [NoRequest EXCEPT !.op = "upload", !.id = c, !.on = TRUE,
                                  !.row = row]
<1>1. row \in Row
  BY DEF Row, Auth, AllFrequencies, SourceTypes
<1> HIDE DEF row
<1>2. q \in Request /\ HasLocals("deactivate", q)
  BY <1>1 DEF NoRequest, Request, OpNames, HasLocals
<1>3. RequestsTyped'
  BY <1>2, WaitTyped DEF UploadInsert, PCs, Waits, row
<1>4. TableTyped'
  BY <1>1, InsertTyped DEF UploadInsert, row
<1> QED
  BY <1>3, <1>4 DEF UploadInsert, TypeOK, RulesTyped, awsVars

LEMMA SaveSchemaTyped ==
    ASSUME TypeOK, NEW r \in Requests, SaveSchema(r)
    PROVE  TypeOK'
<1>1. req[r].id \in Connectors
  BY DEF SaveSchema, TypeOK, RequestsTyped, HasLocals
<1> QED
  BY <1>1, AnswerTyped
     DEF SaveSchema, TypeOK, TableTyped, RulesTyped, tableVars, awsVars

LEMMA SyncReadTyped ==
    ASSUME TypeOK, NEW r \in Requests, NEW c \in Connectors, SyncRead(r, c)
    PROVE  TypeOK'
<1> DEFINE q == [NoRequest EXCEPT !.op = "sync", !.id = c, !.row = configs[c]]
<1>1. q \in Request /\ HasLocals("run_sync", q)
  BY DEF TypeOK, TableTyped, NoRequest, Request, OpNames, HasLocals
<1>2. RequestsTyped'
  BY <1>1, WaitTyped DEF SyncRead, PCs, Waits
<1> QED
  BY <1>2 DEF SyncRead, TypeOK, TableTyped, RulesTyped, tableVars, awsVars

LEMMA RecordSyncTyped ==
    ASSUME TypeOK, NEW r \in Requests, NEW outcome \in {"success", "error"},
           RecordSync(r, outcome)
    PROVE  TypeOK'
<1> DEFINE c == req[r].id
<1>1. c \in Connectors
  BY DEF RecordSync, TypeOK, RequestsTyped, HasLocals
<1>2. TableTyped'
  <2>1. CASE Exists(c)
    <3>1. [configs[c] EXCEPT !.sync = outcome] \in Row
      BY <1>1, <2>1, RowTyped DEF Row
    <3> QED
      BY <1>1, <2>1, <3>1, WriteTyped DEF RecordSync
  <2>2. CASE ~Exists(c)
    BY <2>2 DEF RecordSync, TypeOK, TableTyped
  <2> QED
    BY <2>1, <2>2
<1> QED
  BY <1>2, AnswerTyped DEF RecordSync, TypeOK, RulesTyped, awsVars

LEMMA PushRuleTyped ==
    ASSUME TypeOK, NEW r \in Requests, PushRule(r)
    PROVE  TypeOK'
<1>1. req[r].id \in Connectors /\ req[r].row \in Row
  BY DEF PushRule, TypeOK, RequestsTyped, HasLocals
<1>2. RulesTyped'
  BY <1>1, PutRuleTyped DEF PushRule
<1>3. RequestsTyped'
  BY <1>1, AnswerTyped, AnswerCreateTyped DEF PushRule
<1> QED
  BY <1>2, <1>3 DEF PushRule, TypeOK, TableTyped, tableVars

LEMMA RequestFailsTyped ==
    ASSUME TypeOK, NEW r \in Requests, RequestFails(r)
    PROVE  TypeOK'
BY AnswerTyped
   DEF RequestFails, TypeOK, TableTyped, RulesTyped, tableVars, awsVars

\* Every handler leaves the table, the rules and the requests well formed, and
\* finds the local variables it reads set, wherever it was suspended.
THEOREM TypeInvariant == Spec => []TypeOK
<1>1. Init => TypeOK
  BY NoRequestTyped
     DEF Init, TypeOK, TableTyped, RulesTyped, RequestsTyped, HasLocals, PCs
<1>2. TypeOK /\ [Next]_vars => TypeOK'
  <2> SUFFICES ASSUME TypeOK, [Next]_vars PROVE TypeOK'
    OBVIOUS
  <2>1. CASE UNCHANGED vars
    BY <2>1 DEF vars, TypeOK, TableTyped, RulesTyped, RequestsTyped
  <2>2. ASSUME NEW r \in Requests, Begin(r) PROVE TypeOK'
    BY <2>2, CreateInsertTyped, CreateDuplicateTyped, UpdateReadTyped,
       ToggleReadTyped, DeleteStartTyped, UploadInsertTyped, SyncReadTyped
       DEF Begin, Create
  <2>3. ASSUME NEW r \in Requests, CreateLookup(r) PROVE TypeOK'
    BY <2>3, AnswerCreateTyped
       DEF CreateLookup, TypeOK, TableTyped, RulesTyped, tableVars, awsVars
  <2>4. ASSUME NEW r \in Requests, Resume(r) PROVE TypeOK'
    BY <2>3, <2>4, UpdateWriteTyped, DeactivateTyped, SetEnabledTyped,
       DeleteRowTyped, SaveSchemaTyped, RecordSyncTyped, PushRuleTyped
       DEF Resume
  <2> QED
    BY <2>1, <2>2, <2>4, RequestFailsTyped DEF Next
<1> QED
  BY <1>1, <1>2, PTL DEF Spec

-----------------------------------------------------------------------------
(* What every step preserves *)

\* A UUID is given to one row only, and requests name UUIDs that were given.
KnownIds ==
    /\ \A c \in Connectors : Exists(c) => c \in used
    /\ \A r \in Requests : pc[r] # "idle" => req[r].id \in used \cup {NoId}

LEMMA KnownIdsInvariant == Spec => []KnownIds
<1>1. Init => KnownIds
  BY DEF Init, KnownIds, Exists
<1>2. TypeOK /\ KnownIds /\ [Next]_vars => KnownIds'
  <2> SUFFICES ASSUME TypeOK, KnownIds, [Next]_vars PROVE KnownIds'
    OBVIOUS
  <2> USE DEF KnownIds, Exists, tableVars, awsVars
  <2>1. CASE UNCHANGED vars
    BY <2>1 DEF vars
  <2>2. ASSUME NEW r \in Requests, Create(r) PROVE KnownIds'
    <3>1. ASSUME NEW row \in NewRows, NEW c \in Connectors,
                 CreateInsert(r, c, row)
          PROVE  KnownIds'
      BY <3>1 DEF CreateInsert, Insert, ThenPush, Wait, NoRequest, TypeOK,
                  TableTyped, RequestsTyped
    <3>2. ASSUME NEW row \in NewRows, CreateDuplicate(r, row) PROVE KnownIds'
      BY <3>2 DEF CreateDuplicate, Wait, NoRequest, TypeOK, TableTyped,
                  RequestsTyped
    <3> QED
      BY <2>2, <3>1, <3>2 DEF Create
  <2>3. ASSUME NEW r \in Requests, NEW c \in Connectors, NEW p \in Payloads,
               UpdateRead(r, c, p)
        PROVE  KnownIds'
    BY <2>3 DEF UpdateRead, MayTarget, Wait, NoRequest, TypeOK, RequestsTyped
  <2>4. ASSUME NEW r \in Requests, NEW c \in Connectors, NEW on \in BOOLEAN,
               ToggleRead(r, c, on)
        PROVE  KnownIds'
    BY <2>4 DEF ToggleRead, MayTarget, Wait, Answer, NoRequest, TypeOK,
                RequestsTyped
  <2>5. ASSUME NEW r \in Requests, NEW c \in Connectors, DeleteStart(r, c)
        PROVE  KnownIds'
    BY <2>5 DEF DeleteStart, MayTarget, Wait, NoRequest, TypeOK, RequestsTyped
  <2>6. ASSUME NEW r \in Requests, NEW c \in Connectors,
               NEW t \in SqlTypes \cup AliasTypes, UploadInsert(r, c, t)
        PROVE  KnownIds'
    BY <2>6 DEF UploadInsert, Insert, Wait, NoRequest, TypeOK, TableTyped,
                RequestsTyped
  <2>7. ASSUME NEW r \in Requests, NEW c \in Connectors, SyncRead(r, c)
        PROVE  KnownIds'
    BY <2>7 DEF SyncRead, MayTarget, Wait, NoRequest, TypeOK, RequestsTyped
  <2>8. ASSUME NEW r \in Requests, UpdateWrite(r) PROVE KnownIds'
    BY <2>8 DEF UpdateWrite, ThenPush, Wait, Answer, NoRequest, TypeOK,
                TableTyped, RequestsTyped, Request
  <2>9. ASSUME NEW r \in Requests, SetEnabled(r) PROVE KnownIds'
    BY <2>9 DEF SetEnabled, ThenPush, Wait, Answer, NoRequest, TypeOK,
                TableTyped, RequestsTyped, Request
  <2>10. ASSUME NEW r \in Requests, Deactivate(r) PROVE KnownIds'
    BY <2>10 DEF Deactivate, IsSql, Wait, TypeOK, TableTyped, RequestsTyped
  <2>11. ASSUME NEW r \in Requests,
                \/ CreateLookup(r) \/ DeleteRow(r) \/ SaveSchema(r)
                \/ \E outcome \in {"success", "error"} : RecordSync(r, outcome)
                \/ PushRule(r) \/ RequestFails(r)
         PROVE  KnownIds'
    BY <2>11 DEF CreateLookup, DeleteRow, SaveSchema, RecordSync, PushRule,
                 RequestFails, AnswerCreate, Answer, Wait, TypeOK, TableTyped,
                 RequestsTyped
  <2> QED
    BY <2>1, <2>2, <2>3, <2>4, <2>5, <2>6, <2>7, <2>8, <2>9, <2>10, <2>11
       DEF Next, Begin, Resume
<1> QED
  BY <1>1, <1>2, TypeInvariant, PTL DEF Spec

\* The steps that write the table.
Writes(r) ==
    \/ \E c \in Connectors, row \in NewRows : CreateInsert(r, c, row)
    \/ \E c \in Connectors, t \in SqlTypes \cup AliasTypes :
          UploadInsert(r, c, t)
    \/ UpdateWrite(r)
    \/ Deactivate(r)
    \/ SetEnabled(r)
    \/ DeleteRow(r)
    \/ \E outcome \in {"success", "error"} : RecordSync(r, outcome)

LEMMA OtherStepsLeaveTheTable ==
    ASSUME [Next]_vars, \A r \in Requests : ~Writes(r)
    PROVE  UNCHANGED tableVars
BY DEF Next, Begin, Resume, Writes, Create, CreateDuplicate, UpdateRead,
       ToggleRead, DeleteStart, SyncRead, CreateLookup, SaveSchema, PushRule,
       RequestFails, vars, tableVars, awsVars

\* A row that was there keeps its type, and no row comes back once deleted.
LEMMA RowsKeepTheirType ==
    ASSUME TypeOK, KnownIds, [Next]_vars,
           NEW c \in Connectors, c \in used, Exists(c)'
    PROVE  Exists(c) /\ configs'[c].type = configs[c].type
<1> USE DEF Exists
<1>1. ASSUME NEW r \in Requests, NEW d \in Connectors,
             \/ \E row \in NewRows : CreateInsert(r, d, row)
             \/ \E t \in SqlTypes \cup AliasTypes : UploadInsert(r, d, t)
      PROVE  Exists(c) /\ configs'[c].type = configs[c].type
  BY <1>1 DEF CreateInsert, UploadInsert, Insert, TypeOK, TableTyped
<1>2. ASSUME NEW r \in Requests, UpdateWrite(r)
      PROVE  Exists(c) /\ configs'[c].type = configs[c].type
  <2>1. ASSUME NEW old \in Row, NEW p, NEW read
        PROVE  Patched(old, p, read).type = old.type
    BY DEF Patched, Row
  <2> QED
    BY <1>2, <2>1 DEF UpdateWrite, tableVars, TypeOK, TableTyped
<1>3. ASSUME NEW r \in Requests,
             \/ Deactivate(r) \/ SetEnabled(r) \/ DeleteRow(r)
             \/ \E outcome \in {"success", "error"} : RecordSync(r, outcome)
      PROVE  Exists(c) /\ configs'[c].type = configs[c].type
  BY <1>3 DEF Deactivate, IsSql, SetEnabled, DeleteRow, RecordSync, TypeOK,
              TableTyped, Row
<1>4. CASE UNCHANGED tableVars
  BY <1>4 DEF tableVars
<1> QED
  BY <1>1, <1>2, <1>3, <1>4, OtherStepsLeaveTheTable DEF Writes

-----------------------------------------------------------------------------
(* Paused connectors *)

\* A paused connector is enabled again only by a toggle-on or an upload of its
\* own: whatever overlaps, fails or is written late.
Resumed(c) == Exists(c) /\ ~configs[c].enabled /\ Exists(c)' /\ configs'[c].enabled

LEMMA OnlySetEnabledResumes ==
    ASSUME TypeOK, KnownIds, [Next]_vars, NEW c \in Connectors, Resumed(c)
    PROVE  \E r \in Requests : /\ pc[r] = "set_enabled"
                               /\ pc'[r] # "set_enabled"
                               /\ req[r].id = c /\ req[r].on
<1> USE DEF Resumed, Exists
<1>1. c \in used
  BY DEF KnownIds
<1>2. configs'[c] # configs[c]
  OBVIOUS
<1>3. ASSUME NEW r \in Requests, NEW d \in Connectors,
             \/ \E row \in NewRows : CreateInsert(r, d, row)
             \/ \E t \in SqlTypes \cup AliasTypes : UploadInsert(r, d, t)
      PROVE  FALSE
  BY <1>1, <1>2, <1>3 DEF CreateInsert, UploadInsert, Insert, TypeOK, TableTyped
<1>4. ASSUME NEW r \in Requests, UpdateWrite(r) PROVE FALSE
  <2>1. ASSUME NEW old \in Row, NEW p, NEW read
        PROVE  Patched(old, p, read).enabled = old.enabled
    BY DEF Patched, Row
  <2> QED
    BY <1>2, <1>4, <2>1 DEF UpdateWrite, tableVars, TypeOK, TableTyped
<1>5. ASSUME NEW r \in Requests,
             \/ Deactivate(r) \/ DeleteRow(r)
             \/ \E outcome \in {"success", "error"} : RecordSync(r, outcome)
      PROVE  FALSE
  BY <1>5 DEF Deactivate, IsSql, DeleteRow, RecordSync, TypeOK, TableTyped, Row
<1>6. ASSUME NEW r \in Requests, SetEnabled(r)
      PROVE  /\ pc[r] = "set_enabled" /\ pc'[r] # "set_enabled"
             /\ req[r].id = c /\ req[r].on
  <2>1. req[r].id = c /\ pc[r] = "set_enabled"
    BY <1>2, <1>6 DEF SetEnabled, TypeOK, TableTyped
  <2>2. req[r].on
    BY <1>6, <2>1 DEF SetEnabled, TypeOK, TableTyped, Row
  <2>3. pc'[r] # "set_enabled"
    BY <1>6 DEF SetEnabled, ThenPush, Answer, Wait, TypeOK, RequestsTyped
  <2> QED
    BY <2>1, <2>2, <2>3
<1>7. ~UNCHANGED tableVars
  BY <1>2 DEF tableVars
<1> QED
  BY <1>3, <1>4, <1>5, <1>6, <1>7, OtherStepsLeaveTheTable DEF Writes

\* A connector that was paused, or that another base replaced, comes back only
\* through a toggle-on or an upload that names it.  Requests overlap and fail
\* freely: nothing is assumed about them.
THEOREM PausedConnectorsStayPaused == Spec => PausedStaysPaused
<1>1. TypeOK /\ KnownIds /\ [Next]_vars
        => \A c \in Connectors : Resumed(c)
              => \E r \in Requests : /\ pc[r] = "set_enabled"
                                     /\ pc'[r] # "set_enabled"
                                     /\ req[r].id = c /\ req[r].on
  BY OnlySetEnabledResumes
<1> QED
  BY <1>1, TypeInvariant, KnownIdsInvariant, PTL
     DEF Spec, PausedStaysPaused, Resumed

-----------------------------------------------------------------------------
(* How many SQL bases can be enabled at once *)

\* A request that switches bases knows the type of its row as long as it exists.
SwitchKnowsType ==
    \A r \in Requests :
        pc[r] \in {"deactivate", "set_enabled"} =>
            /\ req[r].row \in Row
            /\ Exists(req[r].id) => configs[req[r].id].type = req[r].row.type

\* A step moves one request.
LEMMA OthersWait ==
    ASSUME TypeOK, NEW r \in Requests, NEW s \in Requests,
           Begin(s) \/ Resume(s) \/ RequestFails(s), s # r
    PROVE  UNCHANGED <<pc[r], req[r]>>
<1>1. ASSUME NEW w, NEW q, Wait(s, w, q) PROVE UNCHANGED <<pc[r], req[r]>>
  BY <1>1 DEF Wait, TypeOK, RequestsTyped
<1> QED
  BY <1>1 DEF Begin, Create, CreateInsert, CreateDuplicate, UpdateRead, ToggleRead,
        DeleteStart, UploadInsert, SyncRead, Resume, CreateLookup, UpdateWrite,
        Deactivate, SetEnabled, DeleteRow, SaveSchema, RecordSync, PushRule,
        RequestFails, ThenPush, Answer, AnswerCreate

LEMMA SwitchKnowsTypeInvariant == Spec => []SwitchKnowsType
<1>1. Init => SwitchKnowsType
  BY DEF Init, SwitchKnowsType
<1>2. TypeOK /\ KnownIds /\ SwitchKnowsType /\ [Next]_vars => SwitchKnowsType'
  <2> SUFFICES ASSUME TypeOK, KnownIds, SwitchKnowsType, [Next]_vars,
                      NEW r \in Requests,
                      (pc[r] \in {"deactivate", "set_enabled"})'
               PROVE  (/\ req[r].row \in Row
                       /\ Exists(req[r].id)
                            => configs[req[r].id].type = req[r].row.type)'
    BY DEF SwitchKnowsType, Exists
  <2>1. CASE pc[r] \in {"deactivate", "set_enabled"} /\ req'[r] = req[r]
    <3>1. req[r].id \in used /\ req[r].id \in Connectors
      BY <2>1, Sentinels DEF KnownIds, TypeOK, RequestsTyped, HasLocals
    <3> QED
      BY <2>1, <3>1, RowsKeepTheirType DEF SwitchKnowsType, Exists
  <2>2. ASSUME NEW c \in Connectors, NEW on \in BOOLEAN, ToggleRead(r, c, on)
        PROVE  /\ req'[r].row = configs[c] /\ req'[r].id = c
               /\ Exists(c) /\ UNCHANGED configs
    BY <2>2 DEF ToggleRead, Wait, Answer, NoRequest, tableVars, TypeOK,
                RequestsTyped
  <2>3. ASSUME NEW c \in Connectors, NEW t \in SqlTypes \cup AliasTypes,
               UploadInsert(r, c, t)
        PROVE  req'[r].row \in Row /\ req'[r].id = c /\ configs'[c] = req'[r].row
    <3> DEFINE row == [type |-> t, label |-> c, enabled |-> TRUE,
                       auth |-> [k \in AuthKeys |-> Unset], freq |-> 0,
                       sync |-> "never"]
    <3>1. row \in Row
      BY DEF Row, SourceTypes, Auth, AllFrequencies
    <3> QED
      BY <2>3, <3>1 DEF UploadInsert, Insert, Wait, NoRequest, TypeOK,
                        TableTyped, RequestsTyped
  <2>4. \/ \E c \in Connectors, on \in BOOLEAN : ToggleRead(r, c, on)
        \/ \E c \in Connectors, t \in SqlTypes \cup AliasTypes :
              UploadInsert(r, c, t)
        \/ pc[r] \in {"deactivate", "set_enabled"} /\ req'[r] = req[r]
    <3>1. CASE UNCHANGED <<pc, req>>
      BY <3>1
    <3>2. ASSUME NEW s \in Requests, Deactivate(s)
          PROVE  pc[r] \in {"deactivate", "set_enabled"} /\ req'[r] = req[r]
      BY <3>2 DEF Deactivate, Wait, TypeOK, RequestsTyped
    <3>3. ASSUME NEW s \in Requests, Create(s) PROVE s # r
      BY <3>3 DEF Create, CreateInsert, CreateDuplicate, ThenPush, Wait, TypeOK,
                  RequestsTyped
    <3>4. ASSUME NEW s \in Requests, Resume(s) \/ RequestFails(s)
          PROVE  s # r \/ Deactivate(s)
      BY <3>4 DEF Resume, RequestFails, CreateLookup, UpdateWrite, SetEnabled,
            DeleteRow, SaveSchema, RecordSync, PushRule, ThenPush, Answer,
            AnswerCreate, Wait, TypeOK, RequestsTyped
    <3>5. ASSUME NEW s \in Requests, Begin(s)
          PROVE  \/ s # r
                 \/ \E c \in Connectors, on \in BOOLEAN : ToggleRead(s, c, on)
                 \/ \E c \in Connectors, t \in SqlTypes \cup AliasTypes :
                       UploadInsert(s, c, t)
      BY <3>3, <3>5 DEF Begin, UpdateRead, DeleteStart, SyncRead, Wait, TypeOK,
                        RequestsTyped
    <3>6. ASSUME NEW s \in Requests,
                 Begin(s) \/ Resume(s) \/ RequestFails(s), s # r
          PROVE  UNCHANGED <<pc[r], req[r]>>
      BY <3>6, OthersWait
    <3> QED
      BY <3>1, <3>2, <3>4, <3>5, <3>6 DEF Next, vars
  <2> QED
    BY <2>1, <2>2, <2>3, <2>4, RowTyped DEF Exists
<1> QED
  BY <1>1, <1>2, TypeInvariant, KnownIdsInvariant, PTL DEF Spec

\* A switch about to enable its base, after it deactivated the others.
Armed(r) ==
    pc[r] = "set_enabled" /\ req[r].on /\ req[r].row.type \in SqlTypes

\* The bases that are enabled, or that a request is about to enable.
Covered ==
    {c \in Connectors : \/ c \in ActiveSql
                        \/ \E r \in Requests : Armed(r) /\ req[r].id = c}

CoveredBounded ==
    (\A r \in Requests : ~Importing(r))
        => Cardinality(Covered) <= Cardinality(Requests)

\* The requests name at most one connector each.
LEMMA NamedByRequests ==
    ASSUME NEW S, NEW f, \A c \in S : \E r \in Requests : c = f[r]
    PROVE  IsFiniteSet(S) /\ Cardinality(S) <= Cardinality(Requests)
<1> DEFINE R == {r \in Requests : f[r] \in S}
           g == [r \in R |-> f[r]]
<1>1. IsFiniteSet(R) /\ Cardinality(R) <= Cardinality(Requests)
  BY RequestsFinite, FS_Subset
<1>2. g \in Surjection(R, S)
  BY DEF Surjection
<1>3. IsFiniteSet(S) /\ Cardinality(S) <= Cardinality(R)
  <2> HIDE DEF R, g
  <2> QED
    BY <1>1, <1>2, FS_Surjection
<1> QED
  BY <1>1, <1>3, RequestsFinite, FS_CardinalityType

LEMMA CoveredFinite == IsFiniteSet(Covered)
BY ConnectorsFinite, FS_Subset DEF Covered

\* A deactivation leaves only the bases that the requests name.
LEMMA DeactivateBounds ==
    ASSUME TypeOK, NEW r \in Requests, Deactivate(r)
    PROVE  Cardinality(Covered') <= Cardinality(Requests)
<1> DEFINE f == [s \in Requests |-> req'[s].id]
<1>1. ASSUME NEW c \in Covered' PROVE \E s \in Requests : c = f[s]
  <2>1. CASE c \in ActiveSql'
    BY <2>1 DEF ActiveSql, IsSql, Exists, Deactivate, Wait, TypeOK, TableTyped,
                RequestsTyped, Row
  <2>2. CASE \E s \in Requests : (Armed(s) /\ req[s].id = c)'
    BY <2>2
  <2> QED
    BY <1>1, <2>1, <2>2 DEF Covered
<1> QED
  BY <1>1, NamedByRequests

\* Every other step of a request, the insertion of an upload aside, covers no
\* new base.
LEMMA NothingElseCovers ==
    ASSUME TypeOK, KnownIds, SwitchKnowsType, [Next]_vars,
           CreateTypes \cap SqlTypes = {},
           \A r \in Requests : ~Deactivate(r),
           \A r \in Requests, c \in Connectors, t \in SqlTypes \cup AliasTypes :
              ~UploadInsert(r, c, t)
    PROVE  Covered' \subseteq Covered
<1>1. \A c \in Connectors : c \in ActiveSql' => c \in Covered
  <2> SUFFICES ASSUME NEW c \in Connectors, c \in ActiveSql'
               PROVE  c \in Covered
    OBVIOUS
  <2>1. Exists(c)' /\ configs'[c].type \in SqlTypes /\ configs'[c].enabled
    BY DEF ActiveSql, IsSql, Exists
  <2>2. CASE c \notin used
    <3>1. ~Exists(c)
      BY <2>2 DEF KnownIds
    <3>2. ASSUME NEW r \in Requests, NEW row \in NewRows, NEW d \in Connectors,
                 CreateInsert(r, d, row)
          PROVE  FALSE
      BY <2>1, <3>1, <3>2 DEF CreateInsert, Insert, NewRows, Exists, TypeOK,
                              TableTyped
    <3>3. ASSUME NEW r \in Requests,
                 \/ UpdateWrite(r) \/ SetEnabled(r) \/ DeleteRow(r)
                 \/ \E outcome \in {"success", "error"} : RecordSync(r, outcome)
          PROVE  FALSE
      BY <2>1, <3>1, <3>3 DEF UpdateWrite, SetEnabled, DeleteRow, RecordSync,
                              Exists, tableVars, TypeOK, TableTyped
    <3> QED
      BY <2>1, <3>1, <3>2, <3>3, OtherStepsLeaveTheTable
         DEF Writes, tableVars, Exists
  <2>3. CASE c \in used
    <3>1. IsSql(c)
      BY <2>1, <2>3, RowsKeepTheirType DEF IsSql
    <3>2. CASE configs[c].enabled
      BY <3>1, <3>2 DEF Covered, ActiveSql
    <3>3. CASE ~configs[c].enabled
      <4>1. PICK r \in Requests : /\ pc[r] = "set_enabled"
                                  /\ req[r].id = c /\ req[r].on
        BY <2>1, <3>1, <3>3, OnlySetEnabledResumes DEF Resumed, IsSql
      <4> QED
        BY <3>1, <4>1 DEF SwitchKnowsType, Armed, IsSql, Covered
    <3> QED
      BY <3>2, <3>3
  <2> QED
    BY <2>2, <2>3
<1>2. \A r \in Requests : Armed(r)' => Armed(r) /\ req'[r].id = req[r].id
  <2> SUFFICES ASSUME NEW r \in Requests, Armed(r)'
               PROVE  Armed(r) /\ req'[r] = req[r]
    OBVIOUS
  <2>1. CASE UNCHANGED <<pc, req>>
    BY <2>1 DEF Armed
  <2>2. ASSUME NEW s \in Requests, Begin(s) PROVE s # r
    <3>1. ASSUME NEW c \in Connectors, NEW on \in BOOLEAN, ToggleRead(s, c, on)
          PROVE  s # r
      <4>1. CASE ~Exists(c)
        BY <3>1, <4>1 DEF ToggleRead, Armed, Answer, Wait, TypeOK, RequestsTyped
      <4>2. CASE Exists(c) /\ ~(on /\ IsSql(c))
        <5>1. req'[s] = [NoRequest EXCEPT !.op = "toggle", !.id = c, !.on = on,
                                          !.row = configs[c]]
          BY <3>1, <4>2 DEF ToggleRead, Wait, TypeOK, RequestsTyped
        <5>2. req'[s].on = on /\ req'[s].row = configs[c]
          BY <5>1 DEF NoRequest
        <5> QED
          BY <4>2, <5>2 DEF Armed, IsSql
      <4>3. CASE Exists(c) /\ on /\ IsSql(c)
        BY <3>1, <4>3 DEF ToggleRead, Armed, Wait, TypeOK, RequestsTyped
      <4> QED
        BY <4>1, <4>2, <4>3
    <3> QED
      BY <2>2, <3>1 DEF Begin, Create, CreateInsert, CreateDuplicate, ThenPush,
            UpdateRead, DeleteStart, SyncRead, Wait, Armed, TypeOK, RequestsTyped
  <2>3. ASSUME NEW s \in Requests, Resume(s) \/ RequestFails(s) PROVE s # r
    BY <2>3 DEF Resume, RequestFails, CreateLookup, UpdateWrite, SetEnabled,
          DeleteRow, SaveSchema, RecordSync, PushRule, ThenPush, Answer,
          AnswerCreate, Wait, Armed, TypeOK, RequestsTyped
  <2>4. ASSUME NEW s \in Requests, Begin(s) \/ Resume(s) \/ RequestFails(s),
               s # r
        PROVE  UNCHANGED <<pc[r], req[r]>>
    BY <2>4, OthersWait
  <2> QED
    BY <2>1, <2>2, <2>3, <2>4 DEF Next, vars, Armed
<1> QED
  BY <1>1, <1>2 DEF Covered

\* An import under way leaves its critical section only by deactivating.
LEMMA ImportGoesOn ==
    ASSUME TypeOK, [Next]_vars, ~Faults, \A r \in Requests : ~Deactivate(r),
           NEW r \in Requests, Importing(r)
    PROVE  Importing(r)'
<1>1. CASE UNCHANGED vars
  BY <1>1 DEF vars, Importing
<1>2. ASSUME NEW s \in Requests, Begin(s) \/ Resume(s) PROVE s # r
  BY <1>2 DEF Begin, Create, CreateInsert, CreateDuplicate, UpdateRead,
        ToggleRead, DeleteStart, UploadInsert, SyncRead, Resume, CreateLookup,
        UpdateWrite, SetEnabled, DeleteRow, SaveSchema, RecordSync, PushRule,
        CanStart, Importing
<1>3. ASSUME NEW s \in Requests, Begin(s) \/ Resume(s), s # r
      PROVE  Importing(r)'
  BY <1>3, OthersWait DEF Importing
<1> QED
  BY <1>1, <1>2, <1>3 DEF Next, RequestFails

\* As long as no request fails half-way and SQL bases come from uploads, never
\* more of them are enabled than requests that overlap, however many toggles,
\* edits, deletions and uploads interleave.
THEOREM OverlapBoundsActiveBases ==
    ASSUME CreateTypes \cap SqlTypes = {}, ~Faults
    PROVE  Spec => []ActiveBoundedByOverlap
<1>1. Init => CoveredBounded
  <2>1. Init => Covered = {}
    BY DEF Init, Covered, ActiveSql, IsSql, Exists, Armed
  <2> QED
    BY <2>1, FS_EmptySet, RequestsFinite, FS_CardinalityType DEF CoveredBounded
<1>2. TypeOK /\ KnownIds /\ SwitchKnowsType /\ CoveredBounded /\ [Next]_vars
        => CoveredBounded'
  <2> SUFFICES ASSUME TypeOK, KnownIds, SwitchKnowsType, CoveredBounded,
                      [Next]_vars, \A r \in Requests : ~Importing(r)'
               PROVE  Cardinality(Covered') <= Cardinality(Requests)
    BY DEF CoveredBounded
  <2>1. CASE \E r \in Requests : Deactivate(r)
    BY <2>1, DeactivateBounds
  <2>2. CASE \A r \in Requests : ~Deactivate(r)
    <3>1. \A r \in Requests : ~Importing(r)
      BY <2>2, ImportGoesOn
    <3>2. \A r \in Requests, c \in Connectors, t \in SqlTypes \cup AliasTypes :
             ~UploadInsert(r, c, t)
      BY DEF UploadInsert, Importing, Wait, NoRequest, TypeOK, RequestsTyped
    <3>3. Covered' \subseteq Covered
      BY <2>2, <3>2, NothingElseCovers
    <3>4. Cardinality(Covered') <= Cardinality(Covered)
      BY <3>3, CoveredFinite, FS_Subset
    <3> QED
      BY <3>1, <3>3, <3>4, CoveredFinite, RequestsFinite, FS_Subset,
         FS_CardinalityType DEF CoveredBounded
  <2> QED
    BY <2>1, <2>2
<1>3. CoveredBounded => ActiveBoundedByOverlap
  <2>1. ActiveSql \in SUBSET Covered
    BY DEF Covered, ActiveSql
  <2>2. Cardinality(ActiveSql) <= Cardinality(Covered)
    BY <2>1, CoveredFinite, FS_Subset
  <2> QED
    BY <2>1, <2>2, CoveredFinite, RequestsFinite, FS_Subset, FS_CardinalityType
       DEF CoveredBounded, ActiveBoundedByOverlap
<1> QED
  BY <1>1, <1>2, <1>3, TypeInvariant, KnownIdsInvariant,
     SwitchKnowsTypeInvariant, PTL DEF Spec

\* With one request at a time, no moment of rest finds two bases enabled.
COROLLARY OneRequestOneBase ==
    ASSUME CreateTypes \cap SqlTypes = {}, ~Faults, Cardinality(Requests) = 1
    PROVE  Spec => []OneActiveBase
<1>1. ActiveBoundedByOverlap => OneActiveBase
  BY DEF ActiveBoundedByOverlap, OneActiveBase, AtRest, Importing
<1> QED
  BY <1>1, OverlapBoundsActiveBases, PTL
-----------------------------------------------------------------------------
(* The register of ActiveBase *)

\* updated_at as a rank: no two rows share one, and none exceeds their number.
Ranked == {c \in Connectors : updatedAt[c] > 0}

RanksDistinct ==
    /\ \A c \in Connectors : updatedAt[c] <= Cardinality(Ranked)
    /\ \A c, d \in Ranked : updatedAt[c] = updatedAt[d] => c = d

LEMMA RankedFinite ==
    ASSUME NEW S \in SUBSET Connectors
    PROVE  IsFiniteSet(S) /\ Cardinality(S) \in Nat
BY ConnectorsFinite, FS_Subset, FS_CardinalityType

\* A row that leaves the ranking lowers the ranks above its own.
LEMMA ForgetRanks ==
    ASSUME TypeOK, RanksDistinct, NEW c \in Connectors
    PROVE  /\ Forget(c) \in [Connectors -> Nat]
           /\ Forget(c)[c] = 0
           /\ {d \in Connectors : Forget(c)[d] > 0} = Ranked \ {c}
           /\ \A d \in Connectors : Forget(c)[d] <= Cardinality(Ranked \ {c})
           /\ \A d, e \in Ranked \ {c} : Forget(c)[d] = Forget(c)[e] => d = e
<1>1. updatedAt \in [Connectors -> Nat] /\ Forget(c) \in [Connectors -> Nat]
  BY RanksTyped DEF TypeOK, TableTyped
<1>2. \A d \in Connectors : Forget(c)[d] =
         IF d = c THEN 0
         ELSE IF 0 < updatedAt[c] /\ updatedAt[c] < updatedAt[d] THEN updatedAt[d] - 1
         ELSE updatedAt[d]
  BY DEF Forget
<1>3. {d \in Connectors : Forget(c)[d] > 0} = Ranked \ {c}
  BY <1>1, <1>2 DEF Ranked
<1>4. /\ Cardinality(Ranked) \in Nat
      /\ Cardinality(Ranked \ {c}) = IF c \in Ranked THEN Cardinality(Ranked) - 1
                                     ELSE Cardinality(Ranked)
  BY RankedFinite, FS_RemoveElement DEF Ranked
<1>5. ASSUME NEW d \in Connectors PROVE Forget(c)[d] <= Cardinality(Ranked \ {c})
  <2>1. updatedAt[d] <= Cardinality(Ranked) /\ updatedAt[c] <= Cardinality(Ranked)
    BY DEF RanksDistinct
  <2>2. CASE c \notin Ranked
    BY <1>1, <1>2, <1>4, <2>1, <2>2 DEF Ranked
  <2>3. CASE c \in Ranked
    <3>1. d # c => updatedAt[d] # updatedAt[c]
      BY <1>1, <2>3 DEF Ranked, RanksDistinct
    <3> QED BY <1>1, <1>2, <1>4, <2>1, <2>3, <3>1 DEF Ranked
  <2> QED BY <2>2, <2>3
<1>6. ASSUME NEW d \in Ranked \ {c}, NEW e \in Ranked \ {c}, Forget(c)[d] = Forget(c)[e]
      PROVE  d = e
  <2>1. /\ updatedAt[d] = updatedAt[e] => d = e
        /\ c \in Ranked => updatedAt[d] # updatedAt[c] /\ updatedAt[e] # updatedAt[c]
    BY DEF RanksDistinct
  <2>2. d \in Connectors /\ e \in Connectors /\ d # c /\ e # c
    BY DEF Ranked
  <2> QED BY <1>1, <1>2, <1>6, <2>1, <2>2 DEF Ranked
<1> QED BY <1>1, <1>2, <1>3, <1>5, <1>6

\* The row that was just written is the last one updated.
LEMMA TouchRanks ==
    ASSUME TypeOK, RanksDistinct, NEW c \in Connectors, updatedAt' = Touch(c)
    PROVE  RanksDistinct' /\ \A d \in Connectors \ {c} : updatedAt'[d] < updatedAt'[c]
<1> DEFINE rest == Ranked \ {c}
<1>1. rest = {d \in Connectors \ {c} : updatedAt[d] > 0}
  BY DEF Ranked
<1>2. Cardinality(rest) \in Nat /\ IsFiniteSet(rest)
  BY RankedFinite DEF Ranked
<1>3. updatedAt' = [Forget(c) EXCEPT ![c] = Cardinality(rest) + 1]
  BY <1>1 DEF Touch
<1> HIDE DEF rest
<1>4. /\ updatedAt'[c] = Cardinality(rest) + 1
      /\ \A d \in Connectors \ {c} : /\ updatedAt'[d] = Forget(c)[d]
                                     /\ updatedAt'[d] \in Nat
                                     /\ updatedAt'[d] <= Cardinality(rest)
                                     /\ updatedAt'[d] > 0 <=> d \in rest
  BY <1>3, ForgetRanks DEF rest
<1>5. {d \in Connectors : updatedAt'[d] > 0} = rest \cup {c}
  BY <1>2, <1>4 DEF rest, Ranked
<1>6. c \notin rest
  BY DEF rest
<1>7. Cardinality(rest \cup {c}) = Cardinality(rest) + 1
  BY <1>2, <1>6, FS_AddElement
<1>8. ASSUME NEW d \in rest, NEW e \in rest, updatedAt'[d] = updatedAt'[e] PROVE d = e
  BY <1>4, <1>8, ForgetRanks DEF rest, Ranked
<1>9. \A d \in rest : updatedAt'[d] # updatedAt'[c]
  BY <1>2, <1>4 DEF rest, Ranked
<1>10. Cardinality(Ranked)' = Cardinality(rest) + 1 /\ Ranked' = rest \cup {c}
  BY <1>5, <1>7 DEF Ranked
<1>11. \A d \in Connectors : updatedAt'[d] <= Cardinality(rest) + 1
  BY <1>2, <1>4
<1>12. \A d, e \in rest \cup {c} : updatedAt'[d] = updatedAt'[e] => d = e
  BY <1>8, <1>9
<1>13. \A d \in Connectors \ {c} : updatedAt'[d] < updatedAt'[c]
  BY <1>2, <1>4
<1> QED BY <1>10, <1>11, <1>12, <1>13 DEF RanksDistinct

LEMMA ForgottenRanks ==
    ASSUME TypeOK, RanksDistinct, NEW c \in Connectors, updatedAt' = Forget(c)
    PROVE  RanksDistinct'
BY ForgetRanks DEF RanksDistinct, Ranked

\* updated_at stays a ranking, whatever is written.
LEMMA RanksKept ==
    ASSUME TypeOK, RanksDistinct, [Next]_vars
    PROVE  RanksDistinct'
<1>1. CASE updatedAt' = updatedAt
  BY <1>1 DEF RanksDistinct, Ranked
<1>2. CASE \E c \in Connectors : updatedAt' = Touch(c)
  BY <1>2, TouchRanks
<1>3. CASE \E c \in Connectors : updatedAt' = Forget(c)
  BY <1>3, ForgottenRanks
<1>4. ASSUME NEW r \in Requests, Writes(r) PROVE RanksDistinct'
  <2>1. (\/ UpdateWrite(r) \/ SetEnabled(r) \/ DeleteRow(r)
         \/ \E o \in {"success", "error"} : RecordSync(r, o))
          => req[r].id \in Connectors
    BY DEF UpdateWrite, SetEnabled, DeleteRow, RecordSync, TypeOK, RequestsTyped,
           HasLocals
  <2>2. UpdateWrite(r) => RanksDistinct'
    BY <1>1, <1>2, <2>1 DEF UpdateWrite, tableVars
  <2>3. SetEnabled(r) => RanksDistinct'
    BY <1>1, <1>2, <2>1 DEF SetEnabled
  <2>4. DeleteRow(r) => RanksDistinct'
    BY <1>1, <1>3, <2>1 DEF DeleteRow
  <2>5. (\E o \in {"success", "error"} : RecordSync(r, o)) => RanksDistinct'
    BY <1>1, <1>2, <2>1 DEF RecordSync
  <2>6. Deactivate(r) => RanksDistinct'
    BY <1>1 DEF Deactivate
  <2> QED BY <1>2, <1>4, <2>2, <2>3, <2>4, <2>5, <2>6
         DEF Writes, CreateInsert, UploadInsert, Insert
<1> QED BY <1>1, <1>4, OtherStepsLeaveTheTable DEF tableVars


\* The query of get_active_sql_connector, on any rows and any ranks.
Top(S, rank) ==
    IF S = {} THEN NoId ELSE CHOOSE c \in S : \A d \in S : rank[c] >= rank[d]

LEMMA TopOfRanks ==
    ASSUME NEW S \in SUBSET Connectors, NEW rank \in [Connectors -> Nat],
           NEW c \in S, \A d \in S \ {c} : rank[d] < rank[c]
    PROVE  Top(S, rank) = c
<1> DEFINE t == CHOOSE x \in S : \A d \in S : rank[x] >= rank[d]
<1>1. \A d \in S : rank[c] >= rank[d]
  BY SMT
<1>2. t \in S /\ \A d \in S : rank[t] >= rank[d]
  BY <1>1
<1>3. t = c
  <2> HIDE DEF t
  <2> QED BY <1>2
<1> QED BY <1>3 DEF Top

LEMMA BaseIsTop ==
    /\ SelectedBase = Top(ActiveSql, updatedAt)
    /\ SelectedBase' = Top(ActiveSql', updatedAt')
BY DEF SelectedBase, Top

One == ActiveSql = {} \/ \E c \in Connectors : ActiveSql = {c}

\* What the only request knows of the register: past its deactivation no base
\* but its own is enabled; an import is on top until then, since its INSERT was
\* the last write; and in all other states at most one base is enabled.
Handover(r) ==
    /\ Switching(r) =>
          /\ Exists(req[r].id)
          /\ pc[r] = "set_enabled" => ActiveSql \subseteq {req[r].id}
          /\ Importing(r) =>
                /\ req[r].id \in ActiveSql
                /\ \A d \in ActiveSql \ {req[r].id} : updatedAt[d] < updatedAt[req[r].id]
    /\ ~(Switching(r) /\ Importing(r)) => One

LEMMA WantedIs ==
    ASSUME NEW r, Requests = {r}
    PROVE  /\ WantedBase = IF Switching(r) THEN req[r].id ELSE NoId
           /\ WantedBase' = IF Switching(r)' THEN req'[r].id ELSE NoId
<1>1. Switching(r) => (CHOOSE s \in Requests : Switching(s)) = r
  OBVIOUS
<1>2. Switching(r)' => (CHOOSE s \in Requests : Switching(s)') = r
  OBVIOUS
<1> QED BY <1>1, <1>2 DEF WantedBase

\* With one base enabled, the ranks do not matter.
LEMMA OneBase ==
    ASSUME TypeOK, TypeOK'
    PROVE  /\ ActiveSql \subseteq Connectors /\ ActiveSql' \subseteq Connectors
           /\ updatedAt \in [Connectors -> Nat] /\ updatedAt' \in [Connectors -> Nat]
           /\ ActiveSql = {} => SelectedBase = NoId
           /\ ActiveSql' = {} => SelectedBase' = NoId
           /\ \A c : ActiveSql = {c} => SelectedBase = c
           /\ \A c : ActiveSql' = {c} => SelectedBase' = c
<1>1. /\ ActiveSql \subseteq Connectors /\ ActiveSql' \subseteq Connectors
      /\ updatedAt \in [Connectors -> Nat] /\ updatedAt' \in [Connectors -> Nat]
  BY DEF ActiveSql, TypeOK, TableTyped
<1>2. \A c : ActiveSql = {c} => SelectedBase = c
  BY <1>1, BaseIsTop, TopOfRanks
<1>3. \A c : ActiveSql' = {c} => SelectedBase' = c
  BY <1>1, BaseIsTop, TopOfRanks
<1>4. /\ ActiveSql = {} => SelectedBase = NoId
      /\ ActiveSql' = {} => SelectedBase' = NoId
  BY BaseIsTop DEF Top
<1> QED BY <1>1, <1>2, <1>3, <1>4

RegisterMoves == [Register!Next]_<<SelectedBase, WantedBase>>

\* A step that is no part of a switch and enables nothing turns the base off at
\* most.
LEMMA Settled ==
    ASSUME NEW r, Requests = {r}, TypeOK, TypeOK', Handover(r),
           ~Switching(r), ~Switching(r)', ActiveSql' \subseteq ActiveSql
    PROVE  Handover(r)' /\ RegisterMoves
<1>1. One
  BY DEF Handover
<1>2. WantedBase = NoId /\ WantedBase' = NoId
  BY WantedIs
<1>3. CASE ActiveSql' = {}
  <2>1. SelectedBase' = NoId
    BY <1>3, OneBase
  <2> QED BY <1>2, <1>3, <2>1
         DEF RegisterMoves, Register!Next, Register!TurnOff, Handover, One
<1>4. CASE ActiveSql' # {}
  <2>1. PICK c \in Connectors : ActiveSql = {c}
    BY <1>1, <1>4 DEF One
  <2>2. ActiveSql' = {c}
    BY <1>4, <2>1
  <2>3. SelectedBase' = SelectedBase
    BY <2>1, <2>2, OneBase
  <2>4. One'
    BY <2>2 DEF One
  <2> QED BY <1>2, <2>3, <2>4 DEF RegisterMoves, Handover
<1> QED BY <1>3, <1>4

\* The steps that leave the table alone, of a request that is not switching.
LEMMA QuietSteps ==
    ASSUME TypeOK, NEW r \in Requests, UNCHANGED tableVars,
           Begin(r) \/ Resume(r),
           \A c \in Connectors : ~ToggleRead(r, c, TRUE)
    PROVE  /\ ActiveSql' = ActiveSql
           /\ pc[r] \notin {"deactivate", "set_enabled"} => ~Switching(r)'
<1>1. ActiveSql' = ActiveSql
  BY DEF ActiveSql, IsSql, Exists, tableVars
<1>2. ASSUME NEW w, NEW q, Wait(r, w, q), w \notin {"deactivate", "set_enabled"}
      PROVE  ~Switching(r)'
  BY <1>2, WaitSets DEF Switching
<1>3. ASSUME NEW c \in Connectors, ToggleRead(r, c, FALSE) PROVE ~Switching(r)'
  <2> DEFINE q == [NoRequest EXCEPT !.op = "toggle", !.id = c, !.on = FALSE,
                                    !.row = configs[c]]
  <2>1. q.on = FALSE
    BY DEF NoRequest
  <2>2. Answer(r) \/ Wait(r, "set_enabled", q)
    BY <1>3 DEF ToggleRead
  <2> HIDE DEF q
  <2> QED BY <1>2, <2>1, <2>2, WaitSets DEF Switching, Answer
<1>4. \A c \in Connectors, t \in SqlTypes \cup AliasTypes : ~UploadInsert(r, c, t)
  BY DEF UploadInsert, Insert, tableVars
<1>5. ASSUME Begin(r) PROVE ~Switching(r)'
  <2>1. ASSUME NEW c \in Connectors, NEW on \in BOOLEAN, ToggleRead(r, c, on)
        PROVE  ~Switching(r)'
    BY <2>1, <1>3
  <2>2. ASSUME Create(r) PROVE ~Switching(r)'
    <3>1. ASSUME NEW row \in NewRows, NEW c \in Connectors, CreateInsert(r, c, row)
          PROVE  ~Switching(r)'
      <4>1. PICK q : Wait(r, "push_rule", q)
        BY <3>1 DEF CreateInsert, ThenPush
      <4> QED BY <1>2, <4>1
    <3>2. ASSUME NEW row \in NewRows, CreateDuplicate(r, row) PROVE ~Switching(r)'
      <4>1. PICK q : Wait(r, "create_lookup", q)
        BY <3>2 DEF CreateDuplicate
      <4> QED BY <1>2, <4>1
    <3> QED BY <2>2, <3>1, <3>2 DEF Create
  <2>3. ASSUME NEW c \in Connectors, NEW p \in Payloads, UpdateRead(r, c, p)
        PROVE  ~Switching(r)'
    BY <1>2, <2>3 DEF UpdateRead
  <2>4. ASSUME NEW c \in Connectors, DeleteStart(r, c) PROVE ~Switching(r)'
    BY <1>2, <2>4 DEF DeleteStart
  <2>5. ASSUME NEW c \in Connectors, SyncRead(r, c) PROVE ~Switching(r)'
    BY <1>2, <2>5 DEF SyncRead
  <2> QED
    BY <1>4, <1>5, <2>1, <2>2, <2>3, <2>4, <2>5 DEF Begin
<1>6. ASSUME Resume(r), pc[r] \notin {"deactivate", "set_enabled"} PROVE ~Switching(r)'
  <2>1. ASSUME UpdateWrite(r) PROVE ~Switching(r)'
    BY <1>2, <2>1 DEF UpdateWrite, ThenPush, Answer
  <2>2. ASSUME CreateLookup(r) PROVE ~Switching(r)'
    <3>1. ASSUME NEW c, AnswerCreate(r, c) PROVE ~Switching(r)'
      BY <1>2, <3>1 DEF AnswerCreate
    <3> QED BY <2>2, <3>1 DEF CreateLookup
  <2>3. ASSUME PushRule(r) PROVE ~Switching(r)'
    BY <1>2, <2>3 DEF PushRule, AnswerCreate, Answer
  <2>4. ASSUME DeleteRow(r) PROVE ~Switching(r)'
    BY <1>2, <2>4 DEF DeleteRow, Answer
  <2>5. ASSUME SaveSchema(r) PROVE ~Switching(r)'
    BY <1>2, <2>5 DEF SaveSchema, Answer
  <2>6. ASSUME NEW o \in {"success", "error"}, RecordSync(r, o) PROVE ~Switching(r)'
    BY <1>2, <2>6 DEF RecordSync, Answer
  <2> QED
    BY <1>6, <2>1, <2>2, <2>3, <2>4, <2>5, <2>6 DEF Resume, Deactivate, SetEnabled
<1> QED BY <1>1, <1>5, <1>6

\* The four steps of a switch are the steps of the register.
LEMMA ToggleWants ==
    ASSUME NEW r, Requests = {r}, TypeOK, TypeOK', Handover(r), NEW c \in Connectors,
           ToggleRead(r, c, TRUE)
    PROVE  Handover(r)' /\ RegisterMoves
<1> DEFINE q == [NoRequest EXCEPT !.op = "toggle", !.id = c, !.on = TRUE,
                                  !.row = configs[c]]
<1>1. q.id = c /\ q.on = TRUE /\ q.row = configs[c] /\ q.op = "toggle"
  BY DEF NoRequest
<1>2. UNCHANGED tableVars /\ pc[r] = "idle"
  BY DEF ToggleRead, CanStart
<1>3. ActiveSql' = ActiveSql /\ SelectedBase' = SelectedBase /\ Exists(c)' = Exists(c)
  BY <1>2 DEF ActiveSql, IsSql, Exists, SelectedBase, tableVars
<1>4. One /\ ~Switching(r)
  BY <1>2 DEF Handover, Switching
<1>5. CASE Answer(r) \/ (~IsSql(c) /\ Wait(r, "set_enabled", q) /\ Exists(c))
  <2>1. ~Switching(r)'
    <3>1. CASE Answer(r)
      BY <3>1, WaitSets DEF Answer, Switching
    <3>2. CASE ~IsSql(c) /\ Wait(r, "set_enabled", q) /\ Exists(c)
      <4> HIDE DEF q
      <4> QED BY <3>2, <1>1, WaitSets DEF Switching, IsSql
    <3> QED BY <1>5, <3>1, <3>2
  <2> QED BY <1>3, <1>4, <2>1, Settled
<1>6. CASE IsSql(c) /\ Wait(r, "deactivate", q)
  <2> HIDE DEF q
  <2>1. /\ pc'[r] = "deactivate" /\ req'[r] = q
        /\ Switching(r)' /\ ~Importing(r)'
    BY <1>6, <1>1, WaitSets DEF Switching, Importing, IsSql
  <2>2. One' /\ Exists(c)'
    BY <1>3, <1>4, <1>6 DEF One, IsSql
  <2>3. WantedBase = NoId /\ WantedBase' = c
    BY <1>1, <1>4, <2>1, WantedIs
  <2>4. Register!Want(c)
    BY <1>3, <2>3 DEF Register!Want
  <2>5. Handover(r)'
    BY <2>1, <2>2, <1>1 DEF Handover
  <2> QED BY <2>4, <2>5 DEF RegisterMoves, Register!Next
<1> QED BY <1>5, <1>6 DEF ToggleRead

LEMMA UploadWants ==
    ASSUME NEW r, Requests = {r}, TypeOK, TypeOK', KnownIds, RanksDistinct, Handover(r),
           NEW c \in Connectors, NEW t \in SqlTypes \cup AliasTypes, UploadInsert(r, c, t)
    PROVE  Handover(r)' /\ RegisterMoves
<1> DEFINE row == [type |-> t, label |-> c, enabled |-> TRUE,
                   auth |-> [k \in AuthKeys |-> Unset], freq |-> 0,
                   sync |-> "never"]
           q == [NoRequest EXCEPT !.op = "upload", !.id = c, !.on = TRUE,
                                  !.row = row]
<1>1. row.type = t /\ row.enabled = TRUE
  OBVIOUS
<1>2. Wait(r, "deactivate", q) /\ Insert(c, row) /\ pc[r] = "idle"
  BY DEF UploadInsert, CanStart
<1>3. row \in Row
  <2>1. t \in SourceTypes /\ [k \in AuthKeys |-> Unset] \in Auth /\ 0 \in AllFrequencies
    BY DEF SourceTypes, Auth, AllFrequencies
  <2> QED BY <2>1 DEF Row
<1> HIDE DEF row
<1>4. q.id = c /\ q.on = TRUE /\ q.row = row /\ q.op = "upload"
  BY DEF NoRequest
<1> HIDE DEF q
<1>5. /\ pc'[r] = "deactivate" /\ req'[r] = q
      /\ Importing(r)' /\ (Switching(r)' <=> t \in SqlTypes)
  BY <1>1, <1>2, <1>4, WaitSets DEF Switching, Importing
<1>6. One /\ ~Switching(r) /\ ~Exists(c)
  BY <1>2 DEF Handover, Switching, Insert, KnownIds
<1>7. configs'[c] = row /\ \A d \in Connectors \ {c} : configs'[d] = configs[d]
  BY <1>2 DEF Insert, TypeOK, TableTyped
<1>8. Exists(c)'
  BY <1>3, <1>7, Sentinels DEF Exists
<1>9. CASE t \in SqlTypes
  <2>1. ActiveSql' = ActiveSql \cup {c}
    BY <1>1, <1>6, <1>7, <1>8, <1>9 DEF ActiveSql, IsSql, Exists
  <2>2. \A d \in Connectors \ {c} : updatedAt'[d] < updatedAt'[c]
    BY <1>2, TouchRanks DEF Insert
  <2>3. SelectedBase' = c
    BY <2>1, <2>2, BaseIsTop, TopOfRanks, OneBase
  <2>4. WantedBase = NoId /\ WantedBase' = c
    BY <1>4, <1>5, <1>6, <1>9, WantedIs
  <2>5. Register!Want(c)
    BY <2>3, <2>4 DEF Register!Want
  <2>6. Handover(r)'
    BY <1>4, <1>5, <1>8, <1>9, <2>1, <2>2, OneBase DEF Handover
  <2> QED BY <2>5, <2>6 DEF RegisterMoves, Register!Next
<1>10. CASE t \notin SqlTypes
  <2>1. ActiveSql' \subseteq ActiveSql
    BY <1>1, <1>7, <1>10 DEF ActiveSql, IsSql, Exists
  <2> QED BY <1>5, <1>6, <1>10, <2>1, Settled
<1> QED BY <1>9, <1>10

LEMMA DeactivationDrops ==
    ASSUME NEW r, Requests = {r}, TypeOK, TypeOK', Handover(r), Deactivate(r)
    PROVE  Handover(r)' /\ RegisterMoves
<1> DEFINE c == req[r].id
<1>1. /\ pc[r] = "deactivate" /\ pc'[r] = "set_enabled" /\ req'[r] = req[r]
      /\ (Switching(r)' <=> Switching(r)) /\ ~Importing(r)' /\ c \in Connectors
  BY WaitSets DEF Deactivate, Switching, Importing, TypeOK, RequestsTyped, HasLocals
<1>2. ActiveSql' = ActiveSql \cap {c}
  <2>1. ASSUME NEW d \in Connectors PROVE d \in ActiveSql' <=> d \in ActiveSql /\ d = c
    <3>1. CASE d = c
      BY <3>1 DEF Deactivate, ActiveSql, IsSql, Exists
    <3>2. CASE d # c /\ IsSql(d)
      <4>1. configs'[d] = [configs[d] EXCEPT !.enabled = FALSE]
        BY <3>2 DEF Deactivate
      <4>2. configs[d] \in Row
        BY <3>2, RowTyped DEF IsSql
      <4>3. configs'[d].enabled = FALSE
        BY <4>1, <4>2 DEF Row
      <4> QED BY <3>2, <4>3 DEF ActiveSql, IsSql, Exists
    <3>3. CASE d # c /\ ~IsSql(d)
      BY <3>3 DEF Deactivate, ActiveSql, IsSql, Exists
    <3> QED BY <3>1, <3>2, <3>3
  <2> QED BY <2>1 DEF ActiveSql
<1>3. One'
  BY <1>1, <1>2 DEF One
<1>4. CASE ~Switching(r)
  BY <1>1, <1>2, <1>4, Settled
<1>5. CASE Switching(r)
  <2>1. Exists(c) /\ (Exists(c)' = Exists(c))
    BY <1>1, <1>5 DEF Handover, Deactivate, Exists
  <2>2. Handover(r)'
    BY <1>1, <1>2, <1>3, <2>1 DEF Handover
  <2>3. WantedBase = c /\ WantedBase' = c /\ c # NoId
    BY <1>1, <1>5, WantedIs, Sentinels
  <2>4. SelectedBase' = IF SelectedBase = c THEN c ELSE NoId
    <3>1. CASE Importing(r)
      <4>1. c \in ActiveSql /\ \A d \in ActiveSql \ {c} : updatedAt[d] < updatedAt[c]
        BY <1>5, <3>1 DEF Handover
      <4>2. SelectedBase = c
        BY <4>1, BaseIsTop, TopOfRanks, OneBase
      <4>3. ActiveSql' = {c}
        BY <1>2, <4>1
      <4> QED BY <4>2, <4>3, OneBase
    <3>2. CASE ~Importing(r)
      <4>1. One
        BY <3>2 DEF Handover
      <4>2. CASE ActiveSql = {}
        BY <1>2, <2>3, <4>2, OneBase
      <4>3. ASSUME NEW d \in Connectors, ActiveSql = {d}
            PROVE  SelectedBase' = IF SelectedBase = c THEN c ELSE NoId
        <5>1. SelectedBase = d
          BY <4>3, OneBase
        <5>2. CASE d = c
          BY <1>2, <4>3, <5>1, <5>2, OneBase
        <5>3. CASE d # c
          <6>1. ActiveSql' = {}
            BY <1>2, <4>3, <5>3
          <6> QED BY <5>1, <5>3, <6>1, OneBase
        <5> QED BY <5>2, <5>3
      <4> QED BY <4>1, <4>2, <4>3 DEF One
    <3> QED BY <3>1, <3>2
  <2>5. Register!Drop
    BY <2>3, <2>4 DEF Register!Drop
  <2> QED BY <2>2, <2>5 DEF RegisterMoves, Register!Next
<1> QED BY <1>4, <1>5

LEMMA EnablingSelects ==
    ASSUME NEW r, Requests = {r}, TypeOK, TypeOK', SwitchKnowsType, Handover(r),
           SetEnabled(r)
    PROVE  Handover(r)' /\ RegisterMoves
<1> DEFINE c == req[r].id
           new == [configs[c] EXCEPT !.enabled = req[r].on]
<1>1. pc[r] = "set_enabled" /\ ~Importing(r) /\ c \in Connectors
  BY DEF SetEnabled, Importing, TypeOK, RequestsTyped, HasLocals
<1>2. ~Switching(r)'
  BY WaitSets DEF SetEnabled, ThenPush, Answer, Switching
<1>3. Exists(c) => new \in Row /\ new.type = configs[c].type /\ new.enabled = req[r].on
  <2>1. Exists(c) => configs[c] \in Row
    BY <1>1, RowTyped
  <2>2. req[r].on \in BOOLEAN
    BY DEF TypeOK, RequestsTyped, Request
  <2> QED BY <2>1, <2>2 DEF Row
<1>4. Exists(c) => configs' = [configs EXCEPT ![c] = new]
  BY DEF SetEnabled
<1>5. ~Exists(c) => configs' = configs
  BY DEF SetEnabled
<1> HIDE DEF new
<1>6. Exists(c) => /\ configs'[c] = new
                   /\ \A d \in Connectors \ {c} : configs'[d] = configs[d]
  BY <1>1, <1>4 DEF TypeOK, TableTyped
<1>7. CASE ~Switching(r)
  <2>1. ActiveSql' \subseteq ActiveSql
    <3>1. Exists(c) => req[r].on = FALSE \/ configs[c].type \notin SqlTypes
      BY <1>1, <1>7 DEF Switching, SwitchKnowsType, TypeOK, RequestsTyped, Request
    <3> HIDE DEF c
    <3> QED BY <1>1, <1>3, <1>5, <1>6, <3>1 DEF ActiveSql, IsSql, Exists
  <2> QED BY <1>2, <1>7, <2>1, Settled
<1>8. CASE Switching(r)
  <2>1. Exists(c) /\ ActiveSql \subseteq {c} /\ configs[c].type \in SqlTypes /\ req[r].on
    BY <1>1, <1>8 DEF Handover, Switching, SwitchKnowsType
  <2>2. ActiveSql' = {c}
    <3> HIDE DEF c
    <3>1. c \in ActiveSql'
      BY <1>1, <1>3, <1>6, <2>1, Sentinels DEF ActiveSql, IsSql, Exists
    <3>2. \A d \in ActiveSql' : d = c
      BY <1>1, <1>6, <2>1 DEF ActiveSql, IsSql, Exists
    <3> QED BY <3>1, <3>2
  <2>3. SelectedBase' = c /\ SelectedBase \in {NoId, c}
    <3>1. ActiveSql = {} \/ ActiveSql = {c}
      BY <2>1
    <3> QED BY <2>2, <3>1, OneBase
  <2>4. WantedBase = c /\ WantedBase' = NoId /\ c # NoId
    BY <1>1, <1>2, <1>8, WantedIs, Sentinels
  <2>5. Register!Select
    BY <2>3, <2>4 DEF Register!Select
  <2>6. Handover(r)'
    BY <1>1, <1>2, <2>2 DEF Handover, One
  <2> QED BY <2>5, <2>6 DEF RegisterMoves, Register!Next
<1> QED BY <1>7, <1>8

\* Edits, deletions and results of a sync never enable a base.
LEMMA OtherWrites ==
    ASSUME TypeOK, NEW r \in Requests, CreateTypes \cap SqlTypes = {},
           \/ \E c \in Connectors, row \in NewRows : CreateInsert(r, c, row)
           \/ UpdateWrite(r) \/ DeleteRow(r)
           \/ \E o \in {"success", "error"} : RecordSync(r, o)
    PROVE  ActiveSql' \subseteq ActiveSql /\ ~Switching(r) /\ ~Switching(r)'
<1>1. ~Switching(r)
  BY DEF Switching, CreateInsert, CanStart, UpdateWrite, DeleteRow, RecordSync
<1>2. ASSUME NEW w, NEW q, Wait(r, w, q), w \notin {"deactivate", "set_enabled"}
      PROVE  ~Switching(r)'
  BY <1>2, WaitSets DEF Switching
<1>3. ASSUME NEW c \in Connectors, NEW row, configs' = [configs EXCEPT ![c] = row],
             Exists(c), row.type = configs[c].type, row.enabled = configs[c].enabled
      PROVE  ActiveSql' \subseteq ActiveSql
  <2>1. configs'[c] = row /\ \A d \in Connectors \ {c} : configs'[d] = configs[d]
    BY <1>3 DEF TypeOK, TableTyped
  <2> QED BY <1>3, <2>1 DEF ActiveSql, IsSql, Exists
<1>4. UNCHANGED configs => ActiveSql' \subseteq ActiveSql
  BY DEF ActiveSql, IsSql, Exists
<1>5. ASSUME NEW c \in Connectors, NEW row \in NewRows, CreateInsert(r, c, row)
      PROVE  ActiveSql' \subseteq ActiveSql /\ ~Switching(r)'
  <2>1. configs'[c] = row /\ \A d \in Connectors \ {c} : configs'[d] = configs[d]
    BY <1>5 DEF CreateInsert, Insert, TypeOK, TableTyped
  <2>2. row.type \notin SqlTypes
    BY DEF NewRows
  <2>3. ActiveSql' \subseteq ActiveSql
    BY <2>1, <2>2 DEF ActiveSql, IsSql, Exists
  <2>4. PICK q : Wait(r, "push_rule", q)
    BY <1>5 DEF CreateInsert, ThenPush
  <2> QED BY <1>2, <2>3, <2>4
<1>6. ASSUME UpdateWrite(r) PROVE ActiveSql' \subseteq ActiveSql /\ ~Switching(r)'
  <2> DEFINE c == req[r].id
             new == Patched(configs[c], req[r].payload, req[r].row)
  <2>1. c \in Connectors
    BY <1>6 DEF UpdateWrite, TypeOK, RequestsTyped, HasLocals
  <2>2. Exists(c) => new.type = configs[c].type /\ new.enabled = configs[c].enabled
    BY <2>1, RowTyped DEF Patched, Row
  <2>3. UNCHANGED configs \/ (Exists(c) /\ configs' = [configs EXCEPT ![c] = new])
    BY <1>6 DEF UpdateWrite, tableVars
  <2>4. ~Switching(r)'
    BY <1>2, <1>6 DEF UpdateWrite, ThenPush, Answer
  <2> HIDE DEF new, c
  <2> QED BY <1>3, <1>4, <2>1, <2>2, <2>3, <2>4
<1>7. ASSUME DeleteRow(r) PROVE ActiveSql' \subseteq ActiveSql /\ ~Switching(r)'
  <2> DEFINE c == req[r].id
  <2>1. c \in Connectors
    BY <1>7 DEF DeleteRow, TypeOK, RequestsTyped, HasLocals
  <2>2. ~Switching(r)'
    BY <1>2, <1>7 DEF DeleteRow, Answer
  <2>3. UNCHANGED configs \/ (Exists(c) /\ configs' = [configs EXCEPT ![c] = NoRow])
    BY <1>7 DEF DeleteRow
  <2> HIDE DEF c
  <2>4. ASSUME configs' = [configs EXCEPT ![c] = NoRow]
        PROVE  ActiveSql' \subseteq ActiveSql
    <3>1. configs'[c] = NoRow /\ \A d \in Connectors \ {c} : configs'[d] = configs[d]
      BY <2>1, <2>4 DEF TypeOK, TableTyped
    <3> QED BY <3>1 DEF ActiveSql, IsSql, Exists
  <2> QED BY <1>4, <2>2, <2>3, <2>4
<1>8. ASSUME NEW o \in {"success", "error"}, RecordSync(r, o)
      PROVE  ActiveSql' \subseteq ActiveSql /\ ~Switching(r)'
  <2> DEFINE c == req[r].id
             new == [configs[c] EXCEPT !.sync = o]
  <2>1. c \in Connectors
    BY <1>8 DEF RecordSync, TypeOK, RequestsTyped, HasLocals
  <2>2. Exists(c) => new.type = configs[c].type /\ new.enabled = configs[c].enabled
    BY <2>1, RowTyped DEF Row
  <2>3. UNCHANGED configs \/ (Exists(c) /\ configs' = [configs EXCEPT ![c] = new])
    BY <1>8 DEF RecordSync
  <2>4. ~Switching(r)'
    BY <1>2, <1>8 DEF RecordSync, Answer
  <2> HIDE DEF new, c
  <2> QED BY <1>3, <1>4, <2>1, <2>2, <2>3, <2>4
<1> QED BY <1>1, <1>5, <1>6, <1>7, <1>8

LEMMA StepsMoveTheRegister ==
    ASSUME NEW r, Requests = {r}, TypeOK, TypeOK', KnownIds, SwitchKnowsType,
           RanksDistinct, Handover(r), [Next]_vars,
           CreateTypes \cap SqlTypes = {}, ~Faults
    PROVE  Handover(r)' /\ RegisterMoves
<1>1. CASE UNCHANGED vars
  <2>1. UNCHANGED <<ActiveSql, SelectedBase, WantedBase, Switching(r), Importing(r)>>
    BY <1>1 DEF vars, ActiveSql, IsSql, Exists, SelectedBase, WantedBase, Switching,
                Importing
  <2> QED BY <1>1, <2>1 DEF vars, RegisterMoves, Handover, One, Exists
<1>2. ASSUME Begin(r) \/ Resume(r) PROVE Handover(r)' /\ RegisterMoves
  <2>1. ASSUME NEW c \in Connectors, ToggleRead(r, c, TRUE)
        PROVE  Handover(r)' /\ RegisterMoves
    BY <2>1, ToggleWants
  <2>2. ASSUME NEW c \in Connectors, NEW t \in SqlTypes \cup AliasTypes,
               UploadInsert(r, c, t)
        PROVE  Handover(r)' /\ RegisterMoves
    BY <2>2, UploadWants
  <2>3. ASSUME Deactivate(r) PROVE Handover(r)' /\ RegisterMoves
    BY <2>3, DeactivationDrops
  <2>4. ASSUME SetEnabled(r) PROVE Handover(r)' /\ RegisterMoves
    BY <2>4, EnablingSelects
  <2>5. CASE \/ \E c \in Connectors, row \in NewRows : CreateInsert(r, c, row)
             \/ UpdateWrite(r) \/ DeleteRow(r)
             \/ \E o \in {"success", "error"} : RecordSync(r, o)
    BY <2>5, OtherWrites, Settled
  <2>6. CASE ~Writes(r) /\ \A c \in Connectors : ~ToggleRead(r, c, TRUE)
    <3>1. UNCHANGED tableVars /\ pc[r] \notin {"deactivate", "set_enabled"}
      BY <1>2, <2>6, OtherStepsLeaveTheTable
         DEF Begin, Create, CreateInsert, CreateDuplicate, UpdateRead, ToggleRead,
             DeleteStart, UploadInsert, SyncRead, CanStart, Resume, CreateLookup,
             UpdateWrite, DeleteRow, SaveSchema, RecordSync, PushRule, Writes
    <3>2. ActiveSql' \subseteq ActiveSql /\ ~Switching(r)' /\ ~Switching(r)
      BY <1>2, <2>6, <3>1, QuietSteps DEF Switching
    <3> QED BY <3>2, Settled
  <2> QED BY <2>1, <2>2, <2>3, <2>4, <2>5, <2>6 DEF Writes
<1> QED BY <1>1, <1>2 DEF Next, RequestFails

\* One request at a time and no failure: the table implements ActiveBase.  The
\* base changes only to the one a toggle or an upload named, or to none, and no
\* edit, sync result or deletion moves questions to another base.
THEOREM AdministrationIsARegister ==
    ASSUME CreateTypes \cap SqlTypes = {}, ~Faults, Cardinality(Requests) = 1
    PROVE  Spec => ImplementsRegister
<1>1. PICK r : Requests = {r}
  BY RequestsFinite, FS_Singleton
<1>2. Init => RanksDistinct /\ Handover(r) /\ Register!Init
  <2> SUFFICES ASSUME Init PROVE RanksDistinct /\ Handover(r) /\ Register!Init
    OBVIOUS
  <2>1. Ranked = {} /\ ActiveSql = {} /\ ~Switching(r)
    BY <1>1 DEF Init, Ranked, ActiveSql, IsSql, Exists, Switching
  <2>2. RanksDistinct
    BY <2>1, FS_EmptySet DEF RanksDistinct, Init
  <2>3. SelectedBase = NoId /\ WantedBase = NoId
    BY <1>1, <2>1, WantedIs DEF SelectedBase
  <2> QED BY <2>1, <2>2, <2>3 DEF Handover, One, Register!Init
<1>3. TypeOK /\ TypeOK' /\ KnownIds /\ SwitchKnowsType /\ RanksDistinct /\ Handover(r)
         /\ [Next]_vars => (RanksDistinct /\ Handover(r))' /\ RegisterMoves
  BY <1>1, RanksKept, StepsMoveTheRegister
<1>4. RegisterMoves <=> [Register!Next]_Register!vars
  BY DEF RegisterMoves, Register!vars
<1> QED
  BY <1>2, <1>3, <1>4, TypeInvariant, KnownIdsInvariant, SwitchKnowsTypeInvariant, PTL
     DEF Spec, ImplementsRegister, Register!Spec
-----------------------------------------------------------------------------
(***************************************************************************)
(* The EventBridge rules follow the rows, for any number of requests that  *)
(* overlap on different connectors, when the rules are configured and no   *)
(* call fails.                                                             *)
(***************************************************************************)

Setting == SerialPerConnector /\ LambdaConfigured /\ ~Faults

-----------------------------------------------------------------------------
(* The inductive invariant *)

\* No two requests name one connector.
Exclusive ==
    \A r, s \in Requests :
        pc[r] # "idle" /\ pc[s] # "idle" /\ req[r].id = req[s].id
            /\ req[r].id \in Connectors
                => r = s

IsApi(c) == Exists(c) /\ configs[c].type \in ApiTypes

\* Only uploads leave a row without a frequency.
Scheduled(c) == IsApi(c) => configs[c].freq \in Frequencies

Mirror(c) ==
    /\ ~Exists(c) => rules[c] = NoRule
    /\ IsApi(c) => rules[c] = RuleOf(configs[c]) /\ c \in permitted

\* A request that is to push holds the row as it is in the table; one that is to
\* delete the row has deleted its rule; an upload keeps its row.
Local(r) ==
    LET c == req[r].id
    IN  /\ pc[r] = "push_rule" => Exists(c) /\ (IsApi(c) => req[r].row = configs[c])
        /\ pc[r] = "delete_row" => rules[c] = NoRule
        /\ pc[r] \in {"deactivate", "set_enabled", "save_schema"} /\ req[r].op = "upload"
              => Exists(c) /\ ~IsApi(c)

Behind(r, c) == pc[r] \in {"push_rule", "delete_row"} /\ req[r].id = c

Follows ==
    /\ Exclusive
    /\ \A c \in Connectors : Scheduled(c)
    /\ \A r \in Requests : Local(r)
    /\ \A c \in Connectors : (\A r \in Requests : ~Behind(r, c)) => Mirror(c)

-----------------------------------------------------------------------------
(* One step of request r, about connector c or none *)

Same(c) ==
    /\ configs'[c] = configs[c] /\ rules'[c] = rules[c]
    /\ c \in permitted' <=> c \in permitted

OthersSame(r) ==
    \A s \in Requests \ {r} : pc'[s] = pc[s] /\ req'[s] = req[s]

\* r works for c alone, and nobody else works for c.
Owner(r, c) ==
    /\ OthersSame(r)
    /\ \A d \in Connectors \ {c} : Same(d)
    /\ c \in Connectors => \A s \in Requests \ {r} : pc[s] # "idle" => req[s].id # c
    /\ pc[r] # "idle" /\ req[r].id \in Connectors => req[r].id = c
    /\ pc'[r] # "idle" /\ req'[r].id \in Connectors => req'[r].id = c

LEMMA OneOwner ==
    ASSUME TypeOK, Follows, NEW r \in Requests, NEW c, Owner(r, c),
           Local(r)',
           c \in Connectors => Scheduled(c)' /\ (Behind(r, c)' \/ Mirror(c)')
    PROVE  Follows'
<1>1. Exclusive'
  <2> SUFFICES ASSUME NEW s \in Requests, NEW t \in Requests, s # t,
                      pc'[s] # "idle", pc'[t] # "idle",
                      req'[s].id = req'[t].id, req'[s].id \in Connectors
               PROVE  FALSE
    BY DEF Exclusive
  <2>1. CASE s # r /\ t # r
    BY <2>1 DEF Owner, OthersSame, Follows, Exclusive
  <2>2. CASE s = r
    BY <2>2 DEF Owner, OthersSame
  <2>3. CASE t = r
    BY <2>3 DEF Owner, OthersSame
  <2> QED BY <2>1, <2>2, <2>3
<1>2. ASSUME NEW d \in Connectors PROVE Scheduled(d)'
  BY DEF Owner, Same, Follows, Scheduled, IsApi, Exists
<1>3. ASSUME NEW s \in Requests PROVE Local(s)'
  <2>1. CASE s # r
    <3>1. pc'[s] = pc[s] /\ req'[s] = req[s] /\ Local(s)
      BY <2>1 DEF Owner, OthersSame, Follows
    <3>2. CASE pc[s] \notin {"push_rule", "delete_row", "deactivate", "set_enabled",
                             "save_schema"}
      BY <3>1, <3>2 DEF Local
    <3>3. CASE pc[s] \in {"push_rule", "delete_row", "deactivate", "set_enabled",
                          "save_schema"}
      <4>1. req[s].id \in Connectors /\ req[s].id # c
        BY <2>1, <3>3 DEF TypeOK, RequestsTyped, HasLocals, Owner
      <4>2. Same(req[s].id)
        BY <4>1 DEF Owner
      <4> QED BY <3>1, <4>2 DEF Local, Same, IsApi, Exists
    <3> QED BY <3>2, <3>3
  <2> QED BY <2>1
<1>4. ASSUME NEW d \in Connectors, \A s \in Requests : ~Behind(s, d)' PROVE Mirror(d)'
  <2>1. CASE d = c
    BY <1>4, <2>1
  <2>2. CASE d # c
    <3>1. \A s \in Requests : ~Behind(s, d)
      BY <1>4, <2>2 DEF Behind, Owner, OthersSame
    <3>2. Mirror(d) /\ Same(d)
      BY <2>2, <3>1 DEF Follows, Owner
    <3> QED BY <3>2 DEF Mirror, Same, IsApi, Exists
  <2> QED BY <2>1, <2>2
<1> QED BY <1>1, <1>2, <1>3, <1>4 DEF Follows

LEMMA WaitMovesOne ==
    ASSUME TypeOK, NEW r \in Requests, NEW w, NEW q, Wait(r, w, q)
    PROVE  pc'[r] = w /\ req'[r] = q /\ OthersSame(r)
BY DEF Wait, TypeOK, RequestsTyped, OthersSame

\* A step that leaves table and rules alone, and neither ends a lag nor starts one.
LEMMA Untouched ==
    ASSUME TypeOK, Follows, NEW r \in Requests, OthersSame(r),
           configs' = configs, rules' = rules, permitted' = permitted,
           pc[r] \notin {"push_rule", "delete_row"}, Local(r)',
           pc'[r] \notin {"push_rule", "delete_row"},
           pc'[r] # "idle" /\ req'[r].id \in Connectors =>
              \A s \in Requests \ {r} : pc[s] # "idle" => req[s].id # req'[r].id
    PROVE  Follows'
<1>1. Exclusive'
  BY DEF Exclusive, OthersSame, Follows
<1>2. ASSUME NEW d \in Connectors PROVE Scheduled(d)'
  BY DEF Follows, Scheduled, IsApi, Exists
<1>3. ASSUME NEW s \in Requests PROVE Local(s)'
  BY DEF Follows, OthersSame, Local, IsApi, Exists
<1>4. ASSUME NEW d \in Connectors, \A s \in Requests : ~Behind(s, d)' PROVE Mirror(d)'
  <2>1. \A s \in Requests : ~Behind(s, d)
    BY <1>4 DEF Behind, OthersSame
  <2> QED BY <2>1 DEF Follows, Mirror, IsApi, Exists
<1> QED BY <1>1, <1>2, <1>3, <1>4 DEF Follows

LEMMA NobodyElse ==
    ASSUME Follows, NEW r \in Requests, pc[r] # "idle", req[r].id \in Connectors
    PROVE  \A s \in Requests \ {r} : pc[s] # "idle" => req[s].id # req[r].id
BY DEF Follows, Exclusive

LEMMA MirrorNow ==
    ASSUME Follows, NEW r \in Requests, pc[r] # "idle", req[r].id \in Connectors,
           pc[r] \notin {"push_rule", "delete_row"}
    PROVE  Mirror(req[r].id)
<1>1. \A s \in Requests : ~Behind(s, req[r].id)
  BY NobodyElse DEF Behind
<1> QED BY <1>1 DEF Follows

LEMMA NobodyTargets ==
    ASSUME Setting, NEW r \in Requests, NEW c \in Connectors, MayTarget(c)
    PROVE  \A s \in Requests \ {r} : pc[s] # "idle" => req[s].id # c
BY DEF Setting, MayTarget, InFlight

LEMMA NobodyHasNew ==
    ASSUME KnownIds, NEW r \in Requests, NEW c \in Connectors, c \notin used
    PROVE  \A s \in Requests \ {r} : pc[s] # "idle" => req[s].id # c
BY Sentinels DEF KnownIds

-----------------------------------------------------------------------------
(* The first step of each operation *)

LEMMA CreateFollows ==
    ASSUME Setting, TypeOK, KnownIds, Follows, NEW r \in Requests, Create(r)
    PROVE  Follows'
<1>1. ASSUME NEW row \in NewRows, NEW c \in Connectors, CreateInsert(r, c, row)
      PROVE  Follows'
  <2> DEFINE q == [NoRequest EXCEPT !.op = "create", !.id = c, !.row = row]
  <2>1. pc[r] = "idle" /\ pc'[r] = "push_rule" /\ req'[r] = q /\ OthersSame(r)
    BY <1>1, WaitMovesOne DEF CreateInsert, ThenPush, CanStart
  <2>2. q.id = c /\ q.row = row
    BY DEF NoRequest
  <2>3. c \notin used /\ configs' = [configs EXCEPT ![c] = row]
        /\ rules' = rules /\ permitted' = permitted
    BY <1>1 DEF CreateInsert, Insert, awsVars
  <2>4. configs'[c] = row /\ row # NoRow /\ row.freq \in Frequencies
    BY <2>3, NewRowsTyped, Sentinels DEF TypeOK, TableTyped, NewRows
  <2>5. Owner(r, c)
    BY <2>1, <2>2, <2>3, NobodyHasNew DEF Owner, Same, TypeOK, TableTyped
  <2>6. Local(r)' /\ Scheduled(c)' /\ Behind(r, c)'
    BY <2>1, <2>2, <2>4 DEF Local, Scheduled, Behind, Exists
  <2> QED BY <2>5, <2>6, OneOwner
<1>2. ASSUME NEW row \in NewRows, CreateDuplicate(r, row) PROVE Follows'
  <2> DEFINE q == [NoRequest EXCEPT !.op = "create", !.row = row]
  <2>1. pc[r] = "idle" /\ pc'[r] = "create_lookup" /\ req'[r] = q /\ OthersSame(r)
    BY <1>2, WaitMovesOne DEF CreateDuplicate, CanStart
  <2>2. q.id = NoId
    BY DEF NoRequest
  <2>3. configs' = configs /\ rules' = rules /\ permitted' = permitted
    BY <1>2 DEF CreateDuplicate, tableVars, awsVars
  <2>4. Local(r)'
    BY <2>1 DEF Local
  <2> QED BY <2>1, <2>2, <2>3, <2>4, Untouched, Sentinels
<1> QED BY <1>1, <1>2 DEF Create

LEMMA ReadFollows ==
    ASSUME Setting, TypeOK, KnownIds, Follows, NEW r \in Requests, NEW c \in Connectors,
           \/ \E p \in Payloads : UpdateRead(r, c, p)
           \/ \E on \in BOOLEAN : ToggleRead(r, c, on)
           \/ SyncRead(r, c)
    PROVE  Follows'
<1>1. /\ pc[r] = "idle" /\ MayTarget(c)
      /\ configs' = configs /\ rules' = rules /\ permitted' = permitted
  BY DEF UpdateRead, ToggleRead, SyncRead, CanStart, tableVars, awsVars
<1>2. /\ OthersSame(r)
      /\ pc'[r] \in {"idle", "update_write", "deactivate", "set_enabled", "run_sync"}
      /\ pc'[r] # "idle" => req'[r].id = c
      /\ pc'[r] \in {"deactivate", "set_enabled"} => req'[r].op = "toggle"
  <2>1. ASSUME NEW p \in Payloads, UpdateRead(r, c, p)
        PROVE  pc'[r] = "update_write" /\ req'[r].id = c /\ OthersSame(r)
    <3> DEFINE q == [NoRequest EXCEPT !.op = "update", !.id = c,
                                      !.payload = p, !.row = configs[c]]
    <3>1. Wait(r, "update_write", q) /\ q.id = c
      BY <2>1 DEF UpdateRead, NoRequest
    <3> HIDE DEF q
    <3> QED BY <3>1, WaitMovesOne
  <2>2. ASSUME NEW on \in BOOLEAN, ToggleRead(r, c, on)
        PROVE  /\ OthersSame(r)
               /\ \/ pc'[r] = "idle"
                  \/ /\ pc'[r] \in {"deactivate", "set_enabled"}
                     /\ req'[r].id = c /\ req'[r].op = "toggle"
    <3> DEFINE q == [NoRequest EXCEPT !.op = "toggle", !.id = c, !.on = on,
                                      !.row = configs[c]]
    <3>1. \/ Wait(r, "idle", NoRequest)
          \/ Wait(r, "deactivate", q) \/ Wait(r, "set_enabled", q)
      BY <2>2 DEF ToggleRead, Answer
    <3>2. q.id = c /\ q.op = "toggle"
      BY DEF NoRequest
    <3> HIDE DEF q
    <3> QED BY <3>1, <3>2, WaitMovesOne
  <2>3. ASSUME SyncRead(r, c)
        PROVE  pc'[r] = "run_sync" /\ req'[r].id = c /\ OthersSame(r)
    <3> DEFINE q == [NoRequest EXCEPT !.op = "sync", !.id = c, !.row = configs[c]]
    <3>1. Wait(r, "run_sync", q) /\ q.id = c
      BY <2>3 DEF SyncRead, NoRequest
    <3> HIDE DEF q
    <3> QED BY <3>1, WaitMovesOne
  <2> QED BY <2>1, <2>2, <2>3
<1>3. Local(r)'
  BY <1>2 DEF Local
<1>4. \A s \in Requests \ {r} : pc[s] # "idle" => req[s].id # c
  BY <1>1, NobodyTargets
<1> QED BY <1>1, <1>2, <1>3, <1>4, Untouched

LEMMA DeleteStartFollows ==
    ASSUME Setting, TypeOK, KnownIds, Follows, NEW r \in Requests, NEW c \in Connectors,
           DeleteStart(r, c)
    PROVE  Follows'
<1> DEFINE q == [NoRequest EXCEPT !.op = "delete", !.id = c]
<1>1. pc[r] = "idle" /\ pc'[r] = "delete_row" /\ req'[r] = q /\ OthersSame(r)
  BY WaitMovesOne DEF DeleteStart, CanStart
<1>2. q.id = c /\ q.op = "delete"
  BY DEF NoRequest
<1>3. /\ configs' = configs /\ permitted' = permitted
      /\ rules' = [rules EXCEPT ![c] = NoRule]
  BY DEF Setting, DeleteStart, DeleteRule, tableVars
<1>4. Owner(r, c)
  BY <1>1, <1>2, <1>3, NobodyTargets DEF DeleteStart, Owner, Same, TypeOK, RulesTyped
<1>5. Local(r)' /\ Scheduled(c)' /\ Behind(r, c)'
  BY <1>1, <1>2, <1>3 DEF Local, Scheduled, IsApi, Exists, Behind, Follows, TypeOK, RulesTyped
<1> QED BY <1>4, <1>5, OneOwner

LEMMA UploadFollows ==
    ASSUME Setting, TypeOK, KnownIds, Follows, NEW r \in Requests, NEW c \in Connectors,
           NEW t \in SqlTypes \cup AliasTypes, UploadInsert(r, c, t)
    PROVE  Follows'
<1> DEFINE row == [type |-> t, label |-> c, enabled |-> TRUE,
                   auth |-> [k \in AuthKeys |-> Unset], freq |-> 0, sync |-> "never"]
           q == [NoRequest EXCEPT !.op = "upload", !.id = c, !.on = TRUE, !.row = row]
<1>1. row \in Row
  BY DEF Row, SourceTypes, Auth, AllFrequencies
<1>2. row.type \notin ApiTypes
  BY TypesDisjoint
<1>3. /\ Insert(c, row) /\ Wait(r, "deactivate", q) /\ pc[r] = "idle"
      /\ rules' = rules /\ permitted' = permitted
  BY DEF UploadInsert, CanStart, awsVars
<1>4. q.id = c
  BY DEF NoRequest
<1> HIDE DEF q, row
<1>5. pc'[r] = "deactivate" /\ req'[r] = q /\ OthersSame(r)
  BY <1>3, WaitMovesOne
<1>6. c \notin used /\ configs' = [configs EXCEPT ![c] = row] /\ configs'[c] = row
  BY <1>3 DEF Insert, TypeOK, TableTyped
<1>7. Exists(c)' /\ ~IsApi(c)'
  BY <1>1, <1>2, <1>6, Sentinels DEF IsApi, Exists
<1>8. Owner(r, c)
  BY <1>3, <1>4, <1>5, <1>6, NobodyHasNew DEF Owner, Same
<1>9. Local(r)' /\ Scheduled(c)' /\ Mirror(c)'
  BY <1>4, <1>5, <1>7 DEF Local, Scheduled, Mirror
<1> QED BY <1>8, <1>9, OneOwner

-----------------------------------------------------------------------------
(* The other steps *)

\* The request answers, and nothing else changes.
LEMMA AnswerFollows ==
    ASSUME TypeOK, Follows, NEW r \in Requests, NEW q, Wait(r, "idle", q),
           configs' = configs, rules' = rules, permitted' = permitted,
           pc[r] \notin {"push_rule", "delete_row"}
    PROVE  Follows'
<1>1. pc'[r] = "idle" /\ OthersSame(r)
  BY WaitMovesOne
<1>2. Local(r)'
  BY <1>1 DEF Local
<1> QED BY <1>1, <1>2, Untouched

LEMMA UpdateWriteFollows ==
    ASSUME TypeOK, Follows, NEW r \in Requests, NEW c, c = req[r].id, UpdateWrite(r)
    PROVE  Follows'
<1> DEFINE payload == req[r].payload
           new == Patched(configs[c], payload, req[r].row)
           q == [req[r] EXCEPT !.row = new]
<1>1. /\ pc[r] = "update_write" /\ c \in Connectors /\ payload \in Payload
      /\ req[r] \in Request /\ rules' = rules /\ permitted' = permitted
  BY DEF UpdateWrite, TypeOK, RequestsTyped, HasLocals, awsVars
<1>2. CASE Answer(r) /\ configs' = configs
  BY <1>1, <1>2, AnswerFollows DEF Answer
<1>3. CASE /\ Exists(c)
           /\ configs' = [configs EXCEPT ![c] = new]
           /\ IF payload.freq # Unset THEN ThenPush(r, q) ELSE Answer(r)
  <2>1. configs[c] \in Row /\ new \in Row
    BY <1>1, <1>3, RowTyped, PatchedTyped DEF Request
  <2>2. /\ new.type = configs[c].type /\ new.enabled = configs[c].enabled
        /\ new.freq = Supplied(payload.freq, configs[c].freq)
    BY <2>1 DEF Patched, Row
  <2>3. q.row = new /\ q.id = c
    BY <1>1 DEF Request
  <2>4. configs'[c] = new /\ new # NoRow
    BY <1>1, <1>3, <2>1, Sentinels DEF TypeOK, TableTyped
  <2> HIDE DEF new, q
  <2>5. payload.freq \in Frequencies \cup {Unset}
    BY <1>1 DEF Payload
  <2>6. /\ OthersSame(r)
        /\ \/ payload.freq # Unset /\ pc'[r] = "push_rule" /\ req'[r] = q
           \/ payload.freq = Unset /\ pc'[r] = "idle"
    BY <1>3, WaitMovesOne DEF ThenPush, Answer
  <2>7. Owner(r, c)
    BY <1>1, <1>3, <2>3, <2>6, NobodyElse DEF Owner, Same, TypeOK, TableTyped
  <2>8. Local(r)' /\ Scheduled(c)'
    BY <1>1, <1>3, <2>2, <2>3, <2>4, <2>5, <2>6
       DEF Local, Scheduled, IsApi, Exists, Supplied, Follows
  <2>9. Behind(r, c)' \/ Mirror(c)'
    <3>1. CASE payload.freq # Unset
      BY <2>3, <2>6, <3>1 DEF Behind
    <3>2. CASE payload.freq = Unset
      BY <1>1, <1>3, <2>2, <2>4, <3>2, MirrorNow
         DEF Mirror, IsApi, Exists, RuleOf, Supplied
    <3> QED BY <3>1, <3>2
  <2> QED BY <1>1, <2>7, <2>8, <2>9, OneOwner
<1> QED BY <1>2, <1>3 DEF UpdateWrite, tableVars

LEMMA DeactivateFollows ==
    ASSUME TypeOK, Follows, NEW r \in Requests, Deactivate(r)
    PROVE  Follows'
<1>1. /\ pc[r] = "deactivate" /\ pc'[r] = "set_enabled" /\ req'[r] = req[r]
      /\ OthersSame(r) /\ rules' = rules /\ permitted' = permitted
  BY WaitMovesOne DEF Deactivate, awsVars
<1>2. ASSUME NEW c \in Connectors
      PROVE  /\ Exists(c)' <=> Exists(c)
             /\ IsApi(c)' <=> IsApi(c)
             /\ IsApi(c) => configs'[c] = configs[c]
  <2>1. CASE IsSql(c) /\ c # req[r].id
    <3>1. configs'[c] = [configs[c] EXCEPT !.enabled = FALSE]
      BY <2>1 DEF Deactivate
    <3>2. configs[c] \in Row
      BY <2>1, RowTyped DEF IsSql
    <3>3. configs'[c] \in Row /\ configs'[c].type = configs[c].type
      BY <3>1, <3>2 DEF Row
    <3> QED BY <2>1, <3>2, <3>3, Sentinels, TypesDisjoint DEF IsApi, IsSql, Exists
  <2>2. CASE ~(IsSql(c) /\ c # req[r].id)
    BY <2>2 DEF Deactivate, IsApi, Exists
  <2> QED BY <2>1, <2>2
<1>3. Exclusive'
  BY <1>1 DEF Exclusive, OthersSame, Follows
<1>4. ASSUME NEW c \in Connectors PROVE Scheduled(c)'
  BY <1>2 DEF Follows, Scheduled
<1>5. ASSUME NEW s \in Requests PROVE Local(s)'
  <2>1. Local(s)
    BY DEF Follows
  <2>2. req'[s] = req[s] /\ (s # r => pc'[s] = pc[s])
    BY <1>1 DEF OthersSame
  <2>3. CASE pc'[s] \notin {"push_rule", "delete_row", "deactivate", "set_enabled",
                           "save_schema"}
    BY <2>3 DEF Local
  <2>4. CASE pc'[s] \in {"push_rule", "delete_row", "deactivate", "set_enabled",
                        "save_schema"}
    <3>1. req[s].id \in Connectors
      BY <1>1, <2>2, <2>4 DEF TypeOK, RequestsTyped, HasLocals
    <3> QED BY <1>1, <1>2, <2>1, <2>2, <3>1 DEF Local
  <2> QED BY <2>3, <2>4
<1>6. ASSUME NEW c \in Connectors, \A s \in Requests : ~Behind(s, c)' PROVE Mirror(c)'
  <2>1. \A s \in Requests : ~Behind(s, c)
    BY <1>1, <1>6 DEF Behind, OthersSame
  <2> QED BY <1>1, <1>2, <2>1 DEF Follows, Mirror
<1> QED BY <1>3, <1>4, <1>5, <1>6 DEF Follows

LEMMA SetEnabledFollows ==
    ASSUME TypeOK, Follows, NEW r \in Requests, NEW c, c = req[r].id, SetEnabled(r)
    PROVE  Follows'
<1> DEFINE new == [configs[c] EXCEPT !.enabled = req[r].on]
           q == [req[r] EXCEPT !.row = new]
<1>1. /\ pc[r] = "set_enabled" /\ c \in Connectors /\ req[r] \in Request
      /\ rules' = rules /\ permitted' = permitted
  BY DEF SetEnabled, TypeOK, RequestsTyped, HasLocals, awsVars
<1>2. Mirror(c)
  BY <1>1, MirrorNow
<1>3. CASE ~Exists(c)
  <2>1. configs' = configs /\ req[r].op = "toggle" /\ Answer(r)
    BY <1>1, <1>3 DEF SetEnabled, Follows, Local
  <2> QED BY <1>1, <2>1, AnswerFollows DEF Answer
<1>4. CASE Exists(c)
  <2>1. /\ configs' = [configs EXCEPT ![c] = new]
        /\ \/ req[r].op = "toggle" /\ ThenPush(r, q)
           \/ req[r].op = "upload" /\ Wait(r, "save_schema", req[r])
    BY <1>4 DEF SetEnabled
  <2>2. configs[c] \in Row /\ req[r].on \in BOOLEAN
    BY <1>1, <1>4, RowTyped DEF Request
  <2>3. new \in Row /\ new.type = configs[c].type /\ new.freq = configs[c].freq
    BY <2>2 DEF Row
  <2>4. q.row = new /\ q.id = c
    BY <1>1 DEF Request
  <2>5. configs'[c] = new /\ new # NoRow
    BY <1>1, <2>1, <2>3, Sentinels DEF TypeOK, TableTyped
  <2> HIDE DEF new, q
  <2>6. /\ OthersSame(r)
        /\ \/ pc'[r] = "push_rule" /\ req'[r] = q
           \/ pc'[r] = "save_schema" /\ req'[r] = req[r] /\ req[r].op = "upload"
    BY <2>1, WaitMovesOne DEF ThenPush
  <2>7. Owner(r, c)
    BY <1>1, <2>1, <2>4, <2>6, NobodyElse DEF Owner, Same, TypeOK, TableTyped
  <2>8. (IsApi(c)' <=> IsApi(c)) /\ Exists(c)' /\ Scheduled(c)'
    BY <1>1, <1>4, <2>3, <2>5 DEF Scheduled, IsApi, Exists, Follows
  <2>9. req[r].op = "upload" => ~IsApi(c)
    BY <1>1 DEF Follows, Local
  <2>10. Local(r)'
    BY <2>4, <2>5, <2>6, <2>8, <2>9 DEF Local
  <2>11. Behind(r, c)' \/ Mirror(c)'
    BY <2>4, <2>6, <2>8, <2>9 DEF Behind, Mirror
  <2> QED BY <1>1, <2>7, <2>8, <2>10, <2>11, OneOwner
<1> QED BY <1>3, <1>4

LEMMA DeleteRowFollows ==
    ASSUME TypeOK, Follows, NEW r \in Requests, NEW c, c = req[r].id, DeleteRow(r)
    PROVE  Follows'
<1>1. /\ pc[r] = "delete_row" /\ c \in Connectors
      /\ rules' = rules /\ permitted' = permitted
  BY DEF DeleteRow, TypeOK, RequestsTyped, HasLocals, awsVars
<1>2. pc'[r] = "idle" /\ OthersSame(r)
  BY WaitMovesOne DEF DeleteRow, Answer
<1>3. configs'[c] = NoRow /\ \A d \in Connectors \ {c} : configs'[d] = configs[d]
  BY <1>1 DEF DeleteRow, Exists, TypeOK, TableTyped
<1>4. rules[c] = NoRule
  BY <1>1 DEF Follows, Local
<1>5. Owner(r, c)
  BY <1>1, <1>2, <1>3, NobodyElse DEF Owner, Same
<1>6. Local(r)' /\ Scheduled(c)' /\ Mirror(c)'
  BY <1>1, <1>2, <1>3, <1>4 DEF Local, Scheduled, Mirror, IsApi, Exists
<1> QED BY <1>1, <1>5, <1>6, OneOwner

LEMMA RecordSyncFollows ==
    ASSUME TypeOK, Follows, NEW r \in Requests, NEW c, c = req[r].id,
           NEW outcome \in {"success", "error"}, RecordSync(r, outcome)
    PROVE  Follows'
<1> DEFINE new == [configs[c] EXCEPT !.sync = outcome]
<1>1. /\ pc[r] = "run_sync" /\ c \in Connectors /\ Answer(r)
      /\ rules' = rules /\ permitted' = permitted
  BY DEF RecordSync, TypeOK, RequestsTyped, HasLocals, awsVars
<1>2. CASE ~Exists(c)
  BY <1>1, <1>2, AnswerFollows DEF RecordSync, Answer
<1>3. CASE Exists(c)
  <2>1. configs' = [configs EXCEPT ![c] = new] /\ configs[c] \in Row
    BY <1>1, <1>3, RowTyped DEF RecordSync
  <2>2. /\ new \in Row /\ new.type = configs[c].type
        /\ new.freq = configs[c].freq /\ new.enabled = configs[c].enabled
    BY <2>1 DEF Row
  <2>3. configs'[c] = new /\ new # NoRow
    BY <1>1, <2>1, <2>2, Sentinels DEF TypeOK, TableTyped
  <2> HIDE DEF new
  <2>4. pc'[r] = "idle" /\ OthersSame(r)
    BY <1>1, WaitMovesOne DEF Answer
  <2>5. Owner(r, c)
    BY <1>1, <2>1, <2>4, NobodyElse DEF Owner, Same, TypeOK, TableTyped
  <2>6. (IsApi(c)' <=> IsApi(c)) /\ Exists(c)' /\ Scheduled(c)' /\ Local(r)'
    BY <1>1, <1>3, <2>2, <2>3, <2>4 DEF Local, Scheduled, IsApi, Exists, Follows
  <2>7. Mirror(c)
    BY <1>1, MirrorNow
  <2>8. Mirror(c)'
    BY <1>1, <1>3, <2>2, <2>3, <2>6, <2>7 DEF Mirror, RuleOf
  <2> QED BY <1>1, <2>5, <2>6, <2>8, OneOwner
<1> QED BY <1>2, <1>3

LEMMA PushRuleFollows ==
    ASSUME Setting, TypeOK, Follows, NEW r \in Requests, NEW c, c = req[r].id, PushRule(r)
    PROVE  Follows'
<1> DEFINE row == req[r].row
<1>1. /\ pc[r] = "push_rule" /\ c \in Connectors
      /\ configs' = configs /\ PutRule(c, row)
  BY DEF PushRule, TypeOK, RequestsTyped, HasLocals, tableVars
<1>2. pc'[r] = "idle" /\ OthersSame(r)
  BY WaitMovesOne DEF PushRule, Answer, AnswerCreate
<1>3. \A d \in Connectors \ {c} :
        rules'[d] = rules[d] /\ (d \in permitted' <=> d \in permitted)
  BY <1>1 DEF Setting, PutRule, awsVars, TypeOK, RulesTyped
<1>4. Exists(c) /\ (IsApi(c) => row = configs[c])
  BY <1>1 DEF Follows, Local
<1>5. Owner(r, c)
  BY <1>1, <1>2, <1>3, NobodyElse DEF Owner, Same
<1>6. Local(r)' /\ Scheduled(c)'
  BY <1>1, <1>2 DEF Local, Scheduled, IsApi, Exists, Follows
<1>7. Mirror(c)'
  <2>1. CASE IsApi(c)
    <3>0. Exists(c) /\ IsApi(c) => configs[c].freq \in Frequencies
      BY <1>1 DEF Follows, Scheduled
    <3>1. row.freq \in Frequencies /\ row.freq > 0
      <4>1. row.freq \in Frequencies
        BY <1>4, <2>1, <3>0
      <4>2. \A f \in Frequencies : f > 0
        BY FrequenciesPositive
      <4> HIDE DEF row
      <4> QED BY <4>1, <4>2
    <3>2. /\ rules' = [rules EXCEPT ![c] = [enabled |-> row.enabled, freq |-> row.freq,
                                          target |-> TRUE]]
          /\ permitted' = permitted \cup {c}
      BY <1>1, <3>1 DEF Setting, PutRule, ValidRate
    <3> QED BY <1>1, <1>4, <3>2 DEF Mirror, IsApi, Exists, RuleOf, TypeOK, RulesTyped
  <2>2. CASE ~IsApi(c)
    BY <1>1, <1>4, <2>2 DEF Mirror, IsApi, Exists
  <2> QED BY <2>1, <2>2
<1> QED BY <1>1, <1>5, <1>6, <1>7, OneOwner

LEMMA NextFollows ==
    ASSUME Setting, TypeOK, KnownIds, Follows, [Next]_vars
    PROVE  Follows'
<1>1. CASE UNCHANGED vars
  BY <1>1 DEF vars, Follows, Exclusive, Scheduled, Local, Behind, Mirror, IsApi, Exists
<1>2. ASSUME NEW r \in Requests, Begin(r) PROVE Follows'
  BY <1>2, CreateFollows, ReadFollows, DeleteStartFollows, UploadFollows DEF Begin
<1>3. ASSUME NEW r \in Requests, CreateLookup(r) PROVE Follows'
  <2>1. PICK q : Wait(r, "idle", q)
    BY <1>3 DEF CreateLookup, AnswerCreate
  <2> QED BY <1>3, <2>1, AnswerFollows DEF CreateLookup, tableVars, awsVars
<1>4. ASSUME NEW r \in Requests, SaveSchema(r) PROVE Follows'
  BY <1>4, AnswerFollows DEF SaveSchema, Answer, tableVars, awsVars
<1>5. ASSUME NEW r \in Requests, Resume(r) PROVE Follows'
  BY <1>3, <1>4, <1>5, UpdateWriteFollows, DeactivateFollows, SetEnabledFollows,
     DeleteRowFollows, RecordSyncFollows, PushRuleFollows DEF Resume
<1>6. ASSUME NEW r \in Requests PROVE ~RequestFails(r)
  BY DEF Setting, RequestFails
<1> QED BY <1>1, <1>2, <1>5, <1>6 DEF Next

\* While requests that overlap are about different connectors and no call fails, the
\* schedule in EventBridge of every API connector nobody works on is the one of its
\* row, and a deleted connector has none (service.py, eventbridge_rules.py).
THEOREM RulesFollowRows == Setting /\ Spec => []RulesMirrorRows
<1> SUFFICES ASSUME Setting PROVE Spec => []RulesMirrorRows
  OBVIOUS
<1>1. Init => Follows
  BY DEF Init, Follows, Exclusive, Scheduled, Local, Behind, Mirror, IsApi, Exists
<1>2. TypeOK /\ KnownIds /\ Follows /\ [Next]_vars => Follows'
  BY NextFollows
<1>3. TypeOK /\ Follows => RulesMirrorRows
  <2> SUFFICES ASSUME Follows, NEW c \in Connectors, InFlight(c) = {} PROVE Mirror(c)
    BY DEF RulesMirrorRows, Mirror, IsApi
  <2>1. \A r \in Requests : ~Behind(r, c)
    BY DEF InFlight, Behind
  <2> QED BY <2>1 DEF Follows
<1> QED BY <1>1, <1>2, <1>3, TypeInvariant, KnownIdsInvariant, PTL DEF Spec
-----------------------------------------------------------------------------
(***************************************************************************)
(* What becomes of the forms that are submitted, for any number of         *)
(* requests: a form that creates a connector and is submitted twice, and a *)
(* form that edits one.                                                    *)
(***************************************************************************)

-----------------------------------------------------------------------------
(* Creation, as long as no request deletes or edits a connector            *)

\* The requests that could take an instance away from an answer that names it
\* are left out; a label is never the one an upload makes up.
NothingRenamed ==
    Ops \cap {"delete", "update"} = {} /\ Labels \cap Connectors = {}

Named(c, row) == Exists(c) /\ configs[c].type = row.type /\ configs[c].label = row.label

\* UNIQUE (source_type, instance_label), for the labels that users choose.
LabelsUnique ==
    \A c, d \in Connectors :
        Exists(c) /\ configs[c].label \in Labels /\ Named(d, configs[c]) => c = d

Answering(r) == req[r].op = "create" /\ pc[r] \in {"push_rule", "idle"}

\* A form that was accepted names its instance; one that was found twice will
\* find the instance it was refused for.
FormNamed(r) ==
    /\ pc[r] \notin {"update_write", "delete_row"}
    /\ Answering(r) => /\ req[r].id \in Connectors /\ req[r].row.label \in Labels
                       /\ Named(req[r].id, req[r].row)
    /\ pc[r] = "create_lookup" => /\ req[r].row.label \in Labels
                                  /\ \E c \in Connectors : Named(c, req[r].row)

FormsNamed == \A r \in Requests : FormNamed(r)

-----------------------------------------------------------------------------
(* What a step does to the rows *)

\* Rows stay where they are, with their type and label.
RowsStay ==
    \A c \in Connectors :
        Exists(c) => /\ Exists(c)' /\ configs'[c].type = configs[c].type
                     /\ configs'[c].label = configs[c].label

\* A row appears only under a label of its own, or one that nobody had.
RowsAppear ==
    \A c \in Connectors :
        ~Exists(c) /\ Exists(c)' =>
            /\ \A d \in Connectors \ {c} : configs'[d] = configs[d]
            /\ \/ configs'[c].label = c
               \/ \A d \in Connectors : ~Named(d, configs'[c])

LEMMA RowsAreRows ==
    ASSUME NEW row \in Row
    PROVE  row # NoRow
BY Sentinels

LEMMA InsertKeepsRows ==
    ASSUME TypeOK, KnownIds, NEW c \in Connectors, NEW row \in Row, Insert(c, row),
           \/ row.label = c
           \/ \A d \in Connectors : ~Named(d, row)
    PROVE  RowsStay /\ RowsAppear
<1>1. ~Exists(c) /\ configs' = [configs EXCEPT ![c] = row]
  BY DEF Insert, KnownIds
<1>2. configs'[c] = row /\ \A d \in Connectors \ {c} : configs'[d] = configs[d]
  BY <1>1 DEF TypeOK, TableTyped
<1>3. RowsStay
  BY <1>1, <1>2 DEF RowsStay, Exists
<1>4. RowsAppear
  BY <1>1, <1>2 DEF RowsAppear, Exists
<1> QED BY <1>3, <1>4

LEMMA StepKeepsRows ==
    ASSUME NothingRenamed, TypeOK, KnownIds, FormsNamed, [Next]_vars
    PROVE  RowsStay /\ RowsAppear
<1>1. CASE UNCHANGED tableVars
  BY <1>1 DEF tableVars, RowsStay, RowsAppear, Exists
<1>2. ASSUME NEW r \in Requests, NEW c \in Connectors, NEW row \in NewRows,
             CreateInsert(r, c, row)
      PROVE  RowsStay /\ RowsAppear
  <2>1. row \in Row
    BY TypesDisjoint DEF NewRows, Row, AllFrequencies, Auth, SourceTypes
  <2>2. Insert(c, row) /\ \A d \in Connectors : ~Named(d, row)
    BY <1>2, Sentinels DEF CreateInsert, Taken, Named
  <2> QED BY <2>1, <2>2, InsertKeepsRows
<1>3. ASSUME NEW r \in Requests, NEW c \in Connectors,
             NEW t \in SqlTypes \cup AliasTypes, UploadInsert(r, c, t)
      PROVE  RowsStay /\ RowsAppear
  <2> DEFINE row == [type |-> t, label |-> c, enabled |-> TRUE,
                     auth |-> [k \in AuthKeys |-> Unset], freq |-> 0,
                     sync |-> "never"]
  <2>1. row \in Row
    BY DEF Row, AllFrequencies, Auth, SourceTypes
  <2>2. Insert(c, row) /\ row.label = c
    BY <1>3 DEF UploadInsert
  <2> QED BY <2>1, <2>2, InsertKeepsRows
<1>4. ASSUME NEW r \in Requests, Deactivate(r)
      PROVE  RowsStay /\ RowsAppear
  <2>1. ASSUME NEW c \in Connectors, Exists(c)
        PROVE  /\ [configs[c] EXCEPT !.enabled = FALSE] \in Row
               /\ configs'[c] \in {configs[c], [configs[c] EXCEPT !.enabled = FALSE]}
    BY <1>4, <2>1 DEF Deactivate, TypeOK, TableTyped, Exists, Row
  <2>2. \A c \in Connectors : ~Exists(c) => configs'[c] = configs[c]
    BY <1>4 DEF Deactivate, IsSql
  <2>3. ASSUME NEW c \in Connectors, Exists(c)
        PROVE  /\ Exists(c)' /\ configs'[c].type = configs[c].type
               /\ configs'[c].label = configs[c].label
    BY <2>1, <2>3, RowsAreRows DEF Exists, TypeOK, TableTyped, Row
  <2> QED BY <2>2, <2>3 DEF RowsStay, RowsAppear, Exists
<1>5. ASSUME NEW r \in Requests, SetEnabled(r)
      PROVE  RowsStay /\ RowsAppear
  <2>1. req[r].id \in Connectors /\ req[r].on \in BOOLEAN
    BY <1>5 DEF SetEnabled, TypeOK, RequestsTyped, HasLocals, Request
  <2>2. Exists(req[r].id) =>
            [configs[req[r].id] EXCEPT !.enabled = req[r].on] \in Row
    BY <2>1 DEF TypeOK, TableTyped, Exists, Row
  <2> QED BY <1>5, <2>1, <2>2, RowsAreRows
         DEF SetEnabled, RowsStay, RowsAppear, Exists, TypeOK, TableTyped, Row
<1>6. ASSUME NEW r \in Requests, NEW o \in {"success", "error"}, RecordSync(r, o)
      PROVE  RowsStay /\ RowsAppear
  <2>1. req[r].id \in Connectors
    BY <1>6 DEF RecordSync, TypeOK, RequestsTyped, HasLocals
  <2>2. Exists(req[r].id) => [configs[req[r].id] EXCEPT !.sync = o] \in Row
    BY <2>1 DEF TypeOK, TableTyped, Exists, Row
  <2> QED BY <1>6, <2>1, <2>2, RowsAreRows
         DEF RecordSync, RowsStay, RowsAppear, Exists, TypeOK, TableTyped, Row
<1>7. \A r \in Requests : ~UpdateWrite(r) /\ ~DeleteRow(r)
  BY DEF FormsNamed, FormNamed, UpdateWrite, DeleteRow
<1> QED
  BY <1>1, <1>2, <1>3, <1>4, <1>5, <1>6, <1>7, OtherStepsLeaveTheTable DEF Writes

\* A row that is named stays named.
LEMMA NamedStays ==
    ASSUME RowsStay, NEW c \in Connectors, NEW row, Named(c, row)
    PROVE  /\ configs'[c] # NoRow /\ configs'[c].type = row.type
           /\ configs'[c].label = row.label
BY DEF RowsStay, Named, Exists

LEMMA LabelsStayUnique ==
    ASSUME NothingRenamed, RowsStay, RowsAppear, LabelsUnique
    PROVE  LabelsUnique'
<1> SUFFICES ASSUME NEW c \in Connectors, NEW d \in Connectors,
                    Exists(c)', configs'[c].label \in Labels, Exists(d)',
                    configs'[d].type = configs'[c].type,
                    configs'[d].label = configs'[c].label, c # d
             PROVE  FALSE
  BY DEF LabelsUnique, Named, Exists
<1>1. configs'[c].label # c /\ configs'[d].label # d
  BY DEF NothingRenamed
<1>2. CASE Exists(c) /\ Exists(d)
  BY <1>2 DEF RowsStay, LabelsUnique, Named
<1>3. CASE ~Exists(c)
  <2>1. configs'[d] = configs[d] /\ ~Named(d, configs'[c])
    BY <1>1, <1>3 DEF RowsAppear
  <2> QED BY <2>1 DEF Named, Exists
<1>4. CASE ~Exists(d)
  <2>1. configs'[c] = configs[c] /\ ~Named(c, configs'[d])
    BY <1>1, <1>4 DEF RowsAppear
  <2> QED BY <2>1 DEF Named, Exists
<1> QED BY <1>2, <1>3, <1>4

-----------------------------------------------------------------------------
(* What a step does to the requests *)

LEMMA AnswerCreateSets ==
    ASSUME TypeOK, NEW r \in Requests, NEW c, AnswerCreate(r, c)
    PROVE  pc'[r] = "idle" /\ req'[r].id = c /\ req'[r].row = req[r].row
<1> DEFINE q == [req[r] EXCEPT !.op = "create", !.id = c]
<1>1. q.id = c /\ q.row = req[r].row
  BY DEF TypeOK, RequestsTyped, Request
<1>2. Wait(r, "idle", q)
  BY DEF AnswerCreate
<1> HIDE DEF q
<1> QED BY <1>1, <1>2, WaitSets

LEMMA StepNamesForms ==
    ASSUME NothingRenamed, TypeOK, FormsNamed, RowsStay, NEW r \in Requests,
           Begin(r) \/ Resume(r) \/ RequestFails(r)
    PROVE  FormNamed(r)'
<1>1. CASE pc'[r] \notin {"update_write", "delete_row", "create_lookup"} /\ ~Answering(r)'
  BY <1>1 DEF FormNamed
<1>2. ASSUME NEW c \in Connectors, NEW row \in NewRows, CreateInsert(r, c, row)
      PROVE  FormNamed(r)'
  <2> DEFINE q == [NoRequest EXCEPT !.op = "create", !.id = c, !.row = row]
  <2>1. q.op = "create" /\ q.id = c /\ q.row = row
    BY DEF NoRequest
  <2> HIDE DEF q
  <2>2. pc'[r] = "push_rule" /\ req'[r] = q
    BY <1>2, WaitSets DEF CreateInsert, ThenPush, q
  <2>3. configs'[c] = row /\ row \in Row
    BY <1>2, TypesDisjoint
       DEF CreateInsert, Insert, TypeOK, TableTyped, NewRows, Row, AllFrequencies, Auth,
           SourceTypes
  <2> QED BY <2>1, <2>2, <2>3, RowsAreRows
         DEF FormNamed, Answering, Named, Exists, NewRows
<1>3. ASSUME NEW row \in NewRows, CreateDuplicate(r, row)
      PROVE  FormNamed(r)'
  <2> DEFINE q == [NoRequest EXCEPT !.op = "create", !.row = row]
  <2>1. q.row = row
    BY DEF NoRequest
  <2> HIDE DEF q
  <2>2. pc'[r] = "create_lookup" /\ req'[r] = q /\ configs' = configs
    BY <1>3, WaitSets DEF CreateDuplicate, tableVars, q
  <2>3. \E c \in Connectors : Named(c, row)
    BY <1>3 DEF CreateDuplicate, Taken, Named
  <2> QED BY <2>1, <2>2, <2>3 DEF FormNamed, Answering, Named, Exists, NewRows
<1>4. ASSUME CreateLookup(r)
      PROVE  FormNamed(r)'
  <2>1. /\ pc[r] = "create_lookup" /\ configs' = configs /\ req[r].row.label \in Labels
        /\ \E c \in Connectors : Named(c, req[r].row)
    BY <1>4 DEF CreateLookup, tableVars, FormsNamed, FormNamed
  <2>2. PICK c \in Connectors : Named(c, req[r].row) /\ AnswerCreate(r, c)
    BY <1>4, <2>1 DEF CreateLookup, Named
  <2>3. /\ pc'[r] = "idle" /\ req'[r].id = c /\ req'[r].row = req[r].row
    BY <2>2, AnswerCreateSets
  <2> QED BY <2>1, <2>2, <2>3 DEF FormNamed, Answering, Named, Exists
<1>5. ASSUME PushRule(r), req[r].op = "create"
      PROVE  FormNamed(r)'
  <2>1. /\ Answering(r) /\ req[r].id \in Connectors /\ req[r].row.label \in Labels
        /\ Named(req[r].id, req[r].row) /\ configs' = configs
    BY <1>5 DEF PushRule, Answering, FormsNamed, FormNamed, tableVars
  <2>2. /\ pc'[r] = "idle" /\ req'[r].id = req[r].id /\ req'[r].row = req[r].row
    BY <1>5, AnswerCreateSets DEF PushRule
  <2> QED BY <2>1, <2>2 DEF FormNamed, Answering, Named, Exists
<1>6. ASSUME Answer(r)
      PROVE  FormNamed(r)'
  BY <1>6, WaitSets, <1>1 DEF Answer, NoRequest, Answering
<1>7. ASSUME PushRule(r), req[r].op # "create"
      PROVE  FormNamed(r)'
  BY <1>6, <1>7 DEF PushRule
<1>8. ASSUME \/ SaveSchema(r) \/ RequestFails(r)
             \/ \E o \in {"success", "error"} : RecordSync(r, o)
      PROVE  FormNamed(r)'
  BY <1>6, <1>8 DEF SaveSchema, RequestFails, RecordSync
<1>9. ASSUME Deactivate(r) PROVE FormNamed(r)'
  BY <1>1, <1>9, WaitSets DEF Deactivate, Answering
<1>10. ASSUME SetEnabled(r) PROVE FormNamed(r)'
  <2>1. CASE req[r].op = "toggle" /\ ~Answer(r)
    BY <1>1, <1>10, <2>1, WaitSets
       DEF SetEnabled, ThenPush, Answering, TypeOK, RequestsTyped, Request
  <2>2. CASE req[r].op # "toggle"
    BY <1>1, <1>10, <2>2, WaitSets DEF SetEnabled, Answering
  <2> QED BY <1>6, <2>1, <2>2
<1>11. ASSUME NEW c \in Connectors, NEW on \in BOOLEAN, ToggleRead(r, c, on)
       PROVE  FormNamed(r)'
  <2>1. CASE ~Answer(r)
    BY <1>1, <1>11, <2>1, WaitSets DEF ToggleRead, Answering
  <2> QED BY <1>6, <2>1
<1>12. ASSUME NEW c \in Connectors,
              \/ \E t \in SqlTypes \cup AliasTypes : UploadInsert(r, c, t)
              \/ SyncRead(r, c)
       PROVE  FormNamed(r)'
  <2>1. PICK q : Wait(r, "deactivate", q) \/ Wait(r, "run_sync", q)
    BY <1>12 DEF UploadInsert, SyncRead
  <2> QED BY <1>1, <2>1, WaitSets DEF Answering
<1>13. ~(\E c \in Connectors, p \in Payloads : UpdateRead(r, c, p))
       /\ ~(\E c \in Connectors : DeleteStart(r, c))
  BY DEF NothingRenamed, UpdateRead, DeleteStart, CanStart
<1>14. ~UpdateWrite(r) /\ ~DeleteRow(r)
  BY DEF FormsNamed, FormNamed, UpdateWrite, DeleteRow
<1> QED
  BY <1>2, <1>3, <1>4, <1>5, <1>7, <1>8, <1>9, <1>10, <1>11, <1>12, <1>13, <1>14
     DEF Begin, Create, Resume

LEMMA OthersStayNamed ==
    ASSUME RowsStay, NEW r \in Requests, FormNamed(r), UNCHANGED <<pc[r], req[r]>>
    PROVE  FormNamed(r)'
<1>1. Answering(r)' => Answering(r)
  BY DEF Answering
<1>2. Answering(r) => (Named(req[r].id, req[r].row))'
  BY NamedStays DEF FormNamed, Named, Exists
<1>3. pc[r] = "create_lookup" => (\E c \in Connectors : Named(c, req[r].row))'
  BY NamedStays DEF FormNamed, Named, Exists
<1> QED BY <1>1, <1>2, <1>3 DEF FormNamed

LEMMA FormsStayNamed ==
    ASSUME NothingRenamed, TypeOK, FormsNamed, RowsStay, [Next]_vars
    PROVE  FormsNamed'
<1> SUFFICES ASSUME NEW r \in Requests PROVE FormNamed(r)'
  BY DEF FormsNamed
<1>1. CASE UNCHANGED vars
  BY <1>1, OthersStayNamed DEF vars, FormsNamed
<1>2. CASE Next
  <2>1. PICK s \in Requests : Begin(s) \/ Resume(s) \/ RequestFails(s)
    BY <1>2 DEF Next
  <2>2. CASE s = r
    BY <2>1, <2>2, StepNamesForms
  <2>3. CASE s # r
    BY <2>1, <2>3, OthersWait, OthersStayNamed DEF FormsNamed
  <2> QED BY <2>2, <2>3
<1> QED BY <1>1, <1>2

-----------------------------------------------------------------------------

\* service.py, create_connector: the answers to one form name one instance,
\* however many times it was submitted, and whatever toggles, uploads and
\* failures overlap it.
THEOREM FormsShareInstance ==
    NothingRenamed /\ Spec => []DoubleSubmitSharesInstance
<1> SUFFICES ASSUME NothingRenamed PROVE Spec => []DoubleSubmitSharesInstance
  OBVIOUS
<1>1. Init => FormsNamed /\ LabelsUnique
  BY DEF Init, FormsNamed, FormNamed, Answering, NoRequest, LabelsUnique, Exists
<1>2. TypeOK /\ KnownIds /\ FormsNamed /\ LabelsUnique /\ [Next]_vars
        => FormsNamed' /\ LabelsUnique'
  BY StepKeepsRows, FormsStayNamed, LabelsStayUnique
<1>3. FormsNamed /\ LabelsUnique => DoubleSubmitSharesInstance
  <2> SUFFICES ASSUME FormsNamed, LabelsUnique, NEW r \in Requests, NEW s \in Requests,
                      pc[r] = "idle", req[r].op = "create",
                      pc[s] = "idle", req[s].op = "create",
                      req[r].row.type = req[s].row.type,
                      req[r].row.label = req[s].row.label
               PROVE  req[r].id = req[s].id /\ req[r].id # NoId
    BY DEF DoubleSubmitSharesInstance
  <2>1. /\ req[r].id \in Connectors /\ req[s].id \in Connectors
        /\ req[r].row.label \in Labels
        /\ Named(req[r].id, req[r].row) /\ Named(req[s].id, req[s].row)
    BY DEF FormsNamed, FormNamed, Answering
  <2>2. req[r].id = req[s].id
    BY <2>1 DEF LabelsUnique, Named
  <2> QED BY <2>1, <2>2, Sentinels
<1> QED
  BY <1>1, <1>2, <1>3, TypeInvariant, KnownIdsInvariant, PTL DEF Spec
-----------------------------------------------------------------------------
(* Edits, as long as requests that overlap are about different connectors  *)

\* No two requests name one connector.
OneEach ==
    \A r, s \in Requests :
        pc[r] # "idle" /\ pc[s] # "idle" /\ req[r].id = req[s].id
            /\ req[r].id \in Connectors
                => r = s

\* An edit that waits for its UPDATE holds the credentials of the row.
Fresh ==
    \A r \in Requests : pc[r] = "update_write" /\ Exists(req[r].id) =>
        req[r].row # NoRow /\ req[r].row.auth = configs[req[r].id].auth

\* Request r keeps its connector, or takes one that nobody works on.
Takes(r) ==
    pc'[r] # "idle" /\ req'[r].id \in Connectors =>
        \/ pc[r] # "idle" /\ req'[r].id = req[r].id
        \/ \A s \in Requests : pc[s] # "idle" => req[s].id # req'[r].id

LEMMA StepTakes ==
    ASSUME SerialPerConnector, TypeOK, KnownIds, NEW r \in Requests,
           Begin(r) \/ Resume(r) \/ RequestFails(r)
    PROVE  Takes(r)
<1>1. ASSUME NEW c \in Connectors, MayTarget(c), NEW w, NEW q, q.id = c, Wait(r, w, q)
      PROVE  Takes(r)
  BY <1>1, WaitSets DEF Takes, MayTarget, InFlight
<1>2. ASSUME NEW c \in Connectors, c \notin used, NEW w, NEW q, q.id = c, Wait(r, w, q)
      PROVE  Takes(r)
  BY <1>2, WaitSets, Sentinels DEF Takes, KnownIds
<1>3. ASSUME NEW q, Wait(r, "idle", q)
      PROVE  Takes(r)
  BY <1>3, WaitSets DEF Takes
<1>4. ASSUME NEW w, NEW q, pc[r] # "idle", q.id = req[r].id, Wait(r, w, q)
      PROVE  Takes(r)
  BY <1>4, WaitSets DEF Takes
<1>5. ASSUME NEW w, NEW q, q.id = NoId, Wait(r, w, q)
      PROVE  Takes(r)
  BY <1>5, WaitSets, Sentinels DEF Takes
<1>6. ASSUME Create(r) PROVE Takes(r)
  <2>1. ASSUME NEW c \in Connectors, NEW row \in NewRows, CreateInsert(r, c, row)
        PROVE  Takes(r)
    <3> DEFINE q == [NoRequest EXCEPT !.op = "create", !.id = c, !.row = row]
    <3>1. q.id = c
      BY DEF NoRequest
    <3>2. c \notin used /\ Wait(r, "push_rule", q)
      BY <2>1 DEF CreateInsert, Insert, ThenPush
    <3> HIDE DEF q
    <3> QED BY <1>2, <3>1, <3>2
  <2>2. ASSUME NEW row \in NewRows, CreateDuplicate(r, row)
        PROVE  Takes(r)
    <3> DEFINE q == [NoRequest EXCEPT !.op = "create", !.row = row]
    <3>1. q.id = NoId
      BY DEF NoRequest
    <3>2. Wait(r, "create_lookup", q)
      BY <2>2 DEF CreateDuplicate
    <3> HIDE DEF q
    <3> QED BY <1>5, <3>1, <3>2
  <2> QED BY <1>6, <2>1, <2>2 DEF Create
<1>7. ASSUME NEW c \in Connectors, NEW p \in Payloads, UpdateRead(r, c, p)
      PROVE  Takes(r)
  <2> DEFINE q == [NoRequest EXCEPT !.op = "update", !.id = c, !.payload = p,
                                    !.row = configs[c]]
  <2>1. q.id = c
    BY DEF NoRequest
  <2>2. MayTarget(c) /\ Wait(r, "update_write", q)
    BY <1>7 DEF UpdateRead
  <2> HIDE DEF q
  <2> QED BY <1>1, <2>1, <2>2
<1>8. ASSUME NEW c \in Connectors, NEW on \in BOOLEAN, ToggleRead(r, c, on)
      PROVE  Takes(r)
  <2> DEFINE q == [NoRequest EXCEPT !.op = "toggle", !.id = c, !.on = on,
                                    !.row = configs[c]]
  <2>1. q.id = c
    BY DEF NoRequest
  <2>2. MayTarget(c) /\ (Wait(r, "idle", NoRequest) \/ \E w : Wait(r, w, q))
    BY <1>8 DEF ToggleRead, Answer
  <2> HIDE DEF q
  <2> QED BY <1>1, <1>3, <2>1, <2>2
<1>9. ASSUME NEW c \in Connectors, DeleteStart(r, c)
      PROVE  Takes(r)
  <2> DEFINE q == [NoRequest EXCEPT !.op = "delete", !.id = c]
  <2>1. q.id = c
    BY DEF NoRequest
  <2>2. MayTarget(c) /\ Wait(r, "delete_row", q)
    BY <1>9 DEF DeleteStart
  <2> HIDE DEF q
  <2> QED BY <1>1, <2>1, <2>2
<1>10. ASSUME NEW c \in Connectors, NEW t \in SqlTypes \cup AliasTypes,
              UploadInsert(r, c, t)
       PROVE  Takes(r)
  <2>1. c \notin used
    BY <1>10 DEF UploadInsert, Insert
  <2>2. PICK row : Wait(r, "deactivate", [NoRequest EXCEPT !.op = "upload", !.id = c,
                                                         !.on = TRUE, !.row = row])
    BY <1>10 DEF UploadInsert
  <2> DEFINE q == [NoRequest EXCEPT !.op = "upload", !.id = c, !.on = TRUE, !.row = row]
  <2>3. q.id = c
    BY DEF NoRequest
  <2>4. Wait(r, "deactivate", q)
    BY <2>2
  <2> HIDE DEF q
  <2> QED BY <1>2, <2>1, <2>3, <2>4
<1>11. ASSUME NEW c \in Connectors, SyncRead(r, c)
       PROVE  Takes(r)
  <2> DEFINE q == [NoRequest EXCEPT !.op = "sync", !.id = c, !.row = configs[c]]
  <2>1. q.id = c
    BY DEF NoRequest
  <2>2. MayTarget(c) /\ Wait(r, "run_sync", q)
    BY <1>11 DEF SyncRead
  <2> HIDE DEF q
  <2> QED BY <1>1, <2>1, <2>2
<1>12. ASSUME NEW new PROVE [req[r] EXCEPT !.row = new].id = req[r].id
  BY DEF TypeOK, RequestsTyped, Request
<1>13. ASSUME Resume(r) \/ RequestFails(r) PROVE Takes(r)
  <2>1. CASE \E q : Wait(r, "idle", q)
    BY <1>3, <2>1
  <2>2. CASE pc[r] # "idle" /\ \E w, new : \/ Wait(r, w, req[r])
                                          \/ Wait(r, w, [req[r] EXCEPT !.row = new])
    BY <1>4, <1>12, <2>2
  <2>3. ASSUME UpdateWrite(r) PROVE Takes(r)
    BY <2>1, <2>2, <2>3 DEF UpdateWrite, ThenPush, Answer
  <2>4. ASSUME Deactivate(r) \/ SetEnabled(r) PROVE Takes(r)
    BY <2>1, <2>2, <2>4 DEF Deactivate, SetEnabled, ThenPush, Answer
  <2>5. ASSUME \/ CreateLookup(r) \/ DeleteRow(r) \/ SaveSchema(r) \/ PushRule(r)
               \/ \E o \in {"success", "error"} : RecordSync(r, o)
               \/ RequestFails(r)
        PROVE  Takes(r)
    BY <2>1, <2>5 DEF CreateLookup, DeleteRow, SaveSchema, PushRule, RecordSync,
                      RequestFails, AnswerCreate, Answer
  <2> QED BY <1>13, <2>3, <2>4, <2>5 DEF Resume
<1> QED
  BY <1>6, <1>7, <1>8, <1>9, <1>10, <1>11, <1>13 DEF Begin

LEMMA OneEachKept ==
    ASSUME SerialPerConnector, TypeOK, KnownIds, OneEach, [Next]_vars
    PROVE  OneEach'
<1>1. CASE UNCHANGED vars
  BY <1>1 DEF vars, OneEach
<1>2. CASE Next
  <2>1. PICK r \in Requests : Begin(r) \/ Resume(r) \/ RequestFails(r)
    BY <1>2 DEF Next
  <2>2. Takes(r) /\ \A s \in Requests \ {r} : pc'[s] = pc[s] /\ req'[s] = req[s]
    BY <2>1, StepTakes, OthersWait
  <2>3. ASSUME NEW s \in Requests \ {r}, pc'[s] # "idle", pc'[r] # "idle",
               req'[s].id = req'[r].id, req'[r].id \in Connectors
        PROVE  FALSE
    BY <2>2, <2>3 DEF Takes, OneEach
  <2> QED BY <2>2, <2>3 DEF OneEach
<1> QED BY <1>1, <1>2

\* What every write but an UPDATE of a form leaves of the rows: the columns that
\* forms edit.  A row that was deleted does not come back.
ColumnsStay(c) ==
    Exists(c)' => /\ Exists(c)
                  /\ configs'[c].label = configs[c].label
                  /\ configs'[c].freq = configs[c].freq
                  /\ configs'[c].auth = configs[c].auth

LEMMA OnlyEditsWriteColumns ==
    ASSUME TypeOK, KnownIds, NEW r \in Requests, Begin(r) \/ Resume(r) \/ RequestFails(r),
           NEW c \in Connectors, c \in used, ~(UpdateWrite(r) /\ req[r].id = c)
    PROVE  ColumnsStay(c)
<1>1. CASE UNCHANGED tableVars
  BY <1>1 DEF tableVars, ColumnsStay, Exists
<1>2. ASSUME NEW d \in Connectors, NEW row, Insert(d, row)
      PROVE  ColumnsStay(c)
  BY <1>2 DEF Insert, ColumnsStay, Exists, TypeOK, TableTyped
<1>3. ASSUME UpdateWrite(r) PROVE ColumnsStay(c)
  <2>1. req[r].id # c
    BY <1>3
  <2>2. \/ configs' = configs
        \/ \E new : configs' = [configs EXCEPT ![req[r].id] = new]
    BY <1>3 DEF UpdateWrite, tableVars
  <2> QED BY <2>1, <2>2 DEF ColumnsStay, Exists, TypeOK, TableTyped
<1>4. ASSUME Deactivate(r) PROVE ColumnsStay(c)
  BY <1>4 DEF Deactivate, IsSql, ColumnsStay, Exists, TypeOK, TableTyped, Row
<1>5. ASSUME SetEnabled(r) PROVE ColumnsStay(c)
  BY <1>5 DEF SetEnabled, ColumnsStay, Exists, TypeOK, TableTyped, Row
<1>6. ASSUME DeleteRow(r) PROVE ColumnsStay(c)
  BY <1>6 DEF DeleteRow, ColumnsStay, Exists, TypeOK, TableTyped
<1>7. ASSUME NEW o \in {"success", "error"}, RecordSync(r, o) PROVE ColumnsStay(c)
  BY <1>7 DEF RecordSync, ColumnsStay, Exists, TypeOK, TableTyped, Row
<1>8. ASSUME Begin(r) PROVE ColumnsStay(c)
  BY <1>1, <1>2, <1>8
     DEF Begin, Create, CreateInsert, CreateDuplicate, UpdateRead, ToggleRead, DeleteStart,
         UploadInsert, SyncRead
<1>9. ASSUME \/ CreateLookup(r) \/ SaveSchema(r) \/ PushRule(r) \/ RequestFails(r)
      PROVE  ColumnsStay(c)
  BY <1>1, <1>9 DEF CreateLookup, SaveSchema, PushRule, RequestFails
<1> QED
  BY <1>3, <1>4, <1>5, <1>6, <1>7, <1>8, <1>9 DEF Resume

LEMMA StepEdits ==
    ASSUME TypeOK, NEW r \in Requests, Begin(r) \/ Resume(r) \/ RequestFails(r),
           pc'[r] = "update_write"
    PROVE  \E c \in Connectors, p \in Payloads : UpdateRead(r, c, p)
<1>1. ASSUME NEW w, NEW q, Wait(r, w, q) PROVE w = "update_write"
  BY <1>1, WaitSets
<1> QED
  BY <1>1 DEF Begin, Create, CreateInsert, CreateDuplicate, ToggleRead, DeleteStart,
        UploadInsert, SyncRead, Resume, CreateLookup, UpdateWrite, Deactivate, SetEnabled,
        DeleteRow, SaveSchema, RecordSync, PushRule, RequestFails, ThenPush, Answer,
        AnswerCreate

LEMMA FreshKept ==
    ASSUME SerialPerConnector, TypeOK, KnownIds, OneEach, Fresh, [Next]_vars
    PROVE  Fresh'
<1>1. CASE UNCHANGED vars
  BY <1>1 DEF vars, Fresh, Exists
<1>2. ASSUME NEW r \in Requests, Begin(r) \/ Resume(r) \/ RequestFails(r),
             NEW s \in Requests, pc'[s] = "update_write", configs'[req'[s].id] # NoRow
      PROVE  req'[s].row # NoRow /\ req'[s].row.auth = configs'[req'[s].id].auth
  <2>1. CASE s # r
    <3>1. pc[s] = "update_write" /\ req'[s] = req[s]
      BY <1>2, <2>1, OthersWait
    <3>2. req[s].id \in Connectors /\ req[s].id \in used
      BY <3>1, Sentinels DEF TypeOK, RequestsTyped, HasLocals, KnownIds
    <3>3. ~(UpdateWrite(r) /\ req[r].id = req[s].id)
      BY <2>1, <3>1, <3>2 DEF UpdateWrite, OneEach
    <3>4. ColumnsStay(req[s].id)
      BY <1>2, <3>2, <3>3, OnlyEditsWriteColumns
    <3> QED BY <1>2, <3>1, <3>4 DEF Fresh, ColumnsStay, Exists
  <2>2. CASE s = r
    <3>1. PICK c \in Connectors, p \in Payloads : UpdateRead(r, c, p)
      BY <1>2, <2>2, StepEdits
    <3> DEFINE q == [NoRequest EXCEPT !.op = "update", !.id = c, !.payload = p,
                                      !.row = configs[c]]
    <3>2. q.id = c /\ q.row = configs[c]
      BY DEF NoRequest
    <3>3. Wait(r, "update_write", q) /\ configs' = configs
      BY <3>1 DEF UpdateRead, tableVars
    <3> HIDE DEF q
    <3> QED BY <1>2, <2>2, <3>2, <3>3, WaitSets
  <2> QED BY <2>1, <2>2
<1> QED BY <1>1, <1>2 DEF Next, Fresh, Exists

\* The body that request r is about to write to connector c.
BodyOf(r, c) ==
    IF pc[r] = "update_write" /\ req[r].id = c
    THEN req[r].payload
    ELSE [label |-> Unset, freq |-> Unset, auth |-> Unset]

EditOf(c) ==
    \E r \in Requests :
        /\ configs'[c].label \in {configs[c].label, BodyOf(r, c).label}
        /\ configs'[c].freq \in {configs[c].freq, BodyOf(r, c).freq}
        /\ \A k \in AuthKeys :
              \/ configs'[c].auth[k] = configs[c].auth[k]
              \/ /\ BodyOf(r, c).auth # Unset
                 /\ BodyOf(r, c).auth[k] \in AuthValues
                 /\ configs'[c].auth[k] = BodyOf(r, c).auth[k]

EditsOnly == \A c \in Connectors : Exists(c) /\ Exists(c)' => EditOf(c)

LEMMA UpdateEdits ==
    ASSUME TypeOK, Fresh, NEW r \in Requests, UpdateWrite(r),
           NEW c \in Connectors, req[r].id = c, Exists(c)
    PROVE  EditOf(c)
<1> DEFINE p == req[r].payload
           row == req[r].row
           old == configs[c]
           new == Patched(old, p, row)
<1>1. /\ pc[r] = "update_write" /\ p \in Payload /\ old \in Row
      /\ row \in Row \cup {NoRow} /\ row # NoRow /\ row.auth = old.auth
      /\ BodyOf(r, c) = p
  BY DEF UpdateWrite, TypeOK, TableTyped, RequestsTyped, HasLocals, Request, Fresh, Exists,
         BodyOf
<1>2. CASE configs' = configs
  BY <1>2 DEF EditOf
<1>3. CASE configs' = [configs EXCEPT ![c] = new]
  <2>1. configs'[c] = new
    BY <1>3 DEF TypeOK, TableTyped
  <2>2. /\ new.label = Supplied(p.label, old.label)
        /\ new.freq = Supplied(p.freq, old.freq)
        /\ new.auth = IF p.auth = Unset THEN old.auth ELSE MergedAuth(p, row)
    BY <1>1 DEF Patched, Row
  <2>3. ASSUME NEW k \in AuthKeys, p.auth # Unset
        PROVE  \/ new.auth[k] = old.auth[k]
               \/ p.auth[k] \in AuthValues /\ new.auth[k] = p.auth[k]
    <3>1. p.auth[k] \in AuthValues \cup {Mask, Unset}
      BY <1>1, <2>3 DEF Payload
    <3>2. new.auth[k] = IF p.auth[k] \in {Mask, Unset} THEN row.auth[k] ELSE p.auth[k]
      BY <1>1, <2>2, <2>3 DEF MergedAuth
    <3> QED BY <1>1, <3>1, <3>2
  <2> QED BY <1>1, <2>1, <2>2, <2>3 DEF EditOf, Supplied
<1> QED BY <1>2, <1>3 DEF UpdateWrite, tableVars

\* models.py, ConnectorUpdate: an edit changes what its body supplies and nothing
\* else, a masked secret never being written, when requests that overlap are about
\* different connectors.  The credentials are merged into a row read before the
\* UPDATE, which nothing changed meanwhile.
THEOREM EditsWriteWhatIsSupplied ==
    SerialPerConnector /\ Spec => PatchWritesOnlyWhatIsSupplied
<1> SUFFICES ASSUME SerialPerConnector PROVE Spec => PatchWritesOnlyWhatIsSupplied
  OBVIOUS
<1>1. Init => OneEach /\ Fresh
  BY DEF Init, OneEach, Fresh
<1>2. TypeOK /\ KnownIds /\ OneEach /\ Fresh /\ [Next]_vars => OneEach' /\ Fresh'
  BY OneEachKept, FreshKept
<1>3. TypeOK /\ KnownIds /\ Fresh /\ [Next]_vars => [EditsOnly]_vars
  <2> SUFFICES ASSUME TypeOK, KnownIds, Fresh, Next PROVE EditsOnly
    OBVIOUS
  <2> SUFFICES ASSUME NEW c \in Connectors, Exists(c), Exists(c)' PROVE EditOf(c)
    BY DEF EditsOnly
  <2>1. PICK r \in Requests : Begin(r) \/ Resume(r) \/ RequestFails(r)
    BY DEF Next
  <2>2. CASE UpdateWrite(r) /\ req[r].id = c
    BY <2>2, UpdateEdits
  <2>3. CASE ~(UpdateWrite(r) /\ req[r].id = c)
    <3>1. ColumnsStay(c)
      BY <2>1, <2>3, OnlyEditsWriteColumns DEF KnownIds
    <3> QED BY <2>1, <3>1 DEF ColumnsStay, EditOf
  <2> QED BY <2>2, <2>3
<1>4. [][EditsOnly]_vars => PatchWritesOnlyWhatIsSupplied
  BY DEF EditsOnly, EditOf, PatchWritesOnlyWhatIsSupplied, BodyOf
<1> QED
  BY <1>1, <1>2, <1>3, <1>4, TypeInvariant, KnownIdsInvariant, PTL DEF Spec
=============================================================================
