# InsightHub in TLA+

InsightHub answers questions of a company's employees from the documents of its
tools (Jira, Confluence, SharePoint, uploaded files) and from its SQL bases. A
FastAPI server, one process and one event loop, keeps its state in PostgreSQL
(SQLAlchemy, asyncpg), asks language models, and lets AWS EventBridge and a
Lambda trigger periodic synchronisations. Every `await` lets other requests run,
and every repository method commits a transaction of its own: most of what can
go wrong here is an interleaving of short transactions.

## 1. Inventory

| component | state | operations | interacts with | what makes it correct |
|---|---|---|---|---|
| Connector administration, `app/admin/connectors/{router,service,repository,models,crypto}.py` | table `connector_configs`; per request, the row it read | create, edit, toggle, delete, upload of a dump, sync, connection test | EventBridge rules (synchronous boto3 calls after the commit), schema cache, client factory, ingestion | one SQL base active at a time; edits write only what is supplied; paused stays paused; rules mirror rows |
| EventBridge rules, `infrastructure/eventbridge/rules.py` | rules, targets and Lambda permissions in AWS | create or update, enable, delete | the administration, the Lambda | a rule exists exactly for each synchronised row, with its frequency and state |
| Sync Lambda, `infrastructure/aws_lambda/sync_trigger/handler.py` | none | call `POST /connectors/{id}/sync` | EventBridge, the API | every tick leads to one recorded sync |
| Client documents, `app/documents/` | `client_documents` with a status, a file on disk, chunks in `documents.embeddings` | upload, reindex, delete, list, scoped chat; a background task indexes | vector store, embedder | every upload ends indexed or failed; no chunk of a deleted document stays |
| Ingestion, `app/ingestion/pipeline.py`, `app/db/vector_store.py` | `documents.documents`, `documents.embeddings` | fetch, transform, chunk, embed, upsert | connectors, administration | chunks stored are those of the current version; a failing document does not hide the others |
| NL2SQL, `app/nl2sql/` | active schema snapshots, schema cache in memory, query log | question to SQL: active base, schema, generation, validation, log (execution is written but called by nobody) | language model, administration | SQL comes from the tables of the base asked about; the cache never differs from the store; the log says what was generated, and a log that fails does not cost the answer |
| Dump parser and sandbox, `app/admin/connectors/{dump_parser,sandbox_manager}.py`, `nl2sql/schema_scanner.py` | none | strip comments, split, execute, scan | administration | the tables scanned are those of the statements that SQLite executes |
| Retrieval and answers, `app/rag/` | none across questions, a row of usage each | route, condense, retrieve in parallel with a timeout, fuse, rerank, build the context, generate | all stores, language models | a slow or failing agent never blocks or fails a question; what is cited satisfies the filters, is ranked and named; the context keeps its budget |
| Chat history, `app/db/chat_history.py`, routes of `app/api/router.py` | conversations, messages | save, rename, favourite, trash, delete, list; a script assigns orphans | front end, accounts | only its owner changes a conversation; a thread shows what its owner wrote |
| Users and authentication, `app/auth/`, `app/admin/users/` | users, tokens (stateless) | login, refresh, logout, update of role and state | every route | an administrator always remains; a disabled user loses access at the next request |
| Dashboards and reports, `app/dashboard/`, `app/api/` reports | none (reads) | aggregations | stores | - |
| Source connectors and transformers, `app/connectors/` | none | fetch pages, map fields | external APIs | - |
| Embedding, configuration, start-up, scripts, deployment | - | - | - | - |

### What is hard

* **Interleaving** of requests between two commits (toggle, upload, edit,
  deletion), and of requests with the background task of a document.
* **Order of effects in two systems**: the table commits, then AWS is called;
  the rule is dropped, then the row.
* **Stale reads**: credentials merged into a row read before; the schema cache
  repopulated after an invalidation.
* **Partial failure**: errors of AWS are logged and forgotten; an upload that
  fails to scan has already switched the active base.
* **Crash**: background tasks and syncs live in memory only.
* **A source that changes while it is read**: pages by token, by link, by offset,
  with edits and deletions between two of them, and two syncs of one instance.
* **Time on one event loop**: agents with a timeout each, threads that outlive
  it, and synchronous calls of language models that stop everybody.
* **Models that may answer anything**: routers, rerankers and generators are
  constrained only by the code after them.
* **Boundaries**: frequency 0 of uploaded bases, retries and timeouts.

`PROJECT.json` lists these hazards at their lines, with the properties that
would see them go wrong.

## 2. Plan

| order | modules | subject | state |
|---|---|---|---|
| 1 | `ConnectorAdmin`, `ActiveBase`, `MCConnectorAdmin`, `ConnectorAdminProofs` | administration of connectors with its EventBridge rules; the register of the active base it implements | done |
| 2 | `ClientDocuments`, `DocumentLifecycle`, `MCClientDocuments`, `ClientDocumentsProofs` | upload, background indexing, deletion, reads, failures and restarts; the life cycle it implements | done |
| 3 | `AgentManager`, `MCAgentManager`, `AgentManagerProofs` | agents in parallel on one event loop: timeouts, hung threads, blocking calls | done |
| 4 | `SchemaCache`, `DumpParser`, `MCSchemaCache`, `SchemaCacheProofs` | from a dump to the SQL of an answer: parser, store, cache, agent, log, above the register of 1 | done |
| 5 | `Ingestion`, `MCIngestion`, `IngestionProofs` | syncs of a source that changes, page loops of four clients, overlapping syncs of the Lambda, transactions of the store | done |
| 6 | `Accounts`, `ChatHistory`, `MCChatHistory`, `ChatHistoryProofs` | accounts and sessions; ownership and deletion of conversations above them | done |
| 7 | `RagPipeline`, `MCRagPipeline`, `RagPipelineProofs` | what reaches an answer: routing, filters, fusion, reranking, context, citations | done |
| 8 | `Ordering`, `OrderingProofs` | sorting, filtering and adding up, as 5 and 7 use them, and the facts their proofs need | done |

Composition: `ConnectorAdmin` implements the register `ActiveBase`, and
`SchemaCache` uses that register (`INSTANCE ActiveBase`) for the base its questions
are about, so what the second shows rests on what the first was shown to do.
`ChatHistory` extends `Accounts`: its requests pass through the check of the
accounts, which are updated meanwhile. `ClientDocuments` implements
`DocumentLifecycle`. `AgentManager` has the timing of a question and `RagPipeline`
its data; they meet at the result of an agent, a list of chunks or an error, which
both let be anything the retrievers may give.

No module that is proved about declares a RECURSIVE operator: loops are recursive
functions, and what sorts, filters or sums is in `Ordering`, written so that it can
be reasoned about.

## 3. Modules

### ConnectorAdmin

State and code:

| variable | code |
|---|---|
| `configs` | the rows of `connector_configs` (`init_db.py` 165-182): type, label, `is_enabled`, decrypted credentials, frequency, `last_sync_status` |
| `updatedAt` | `updated_at`, kept as a rank: only its order is read (`get_active_sql_connector`) |
| `used` | the UUIDs PostgreSQL has handed out; never given twice |
| `rules`, `permitted` | EventBridge rules with their target, and Lambda permissions, as `rules.py` leaves them |
| `schemas` | connectors whose schema snapshot an upload saved |
| `pc`, `req` | where a request waits, and its arguments and locals |

A handler is a chain of actions cut at each `await` of a database call:

| operation | actions |
|---|---|
| `POST /connectors` | `CreateInsert` then `PushRule`; or `CreateDuplicate` then `CreateLookup` |
| `PATCH /connectors/{id}` | `UpdateRead`, `UpdateWrite`, then `PushRule` when the frequency was supplied |
| `PATCH .../toggle` | `ToggleRead`, `Deactivate` (a SQL base switched on), `SetEnabled`, `PushRule` |
| `DELETE ...` | `DeleteStart` (drops the rule), `DeleteRow` |
| upload of a dump | `UploadInsert`, `Deactivate`, `SetEnabled`, `SaveSchema` |
| `POST .../sync` | `SyncRead`, `RecordSync` |
| failure of a call, restart | `RequestFails`, and the failing alternatives of `PutRule` and `DeleteRule` |

The calls to EventBridge are synchronous, so nothing interleaves inside them;
but another request can run between a commit and the handler that resumes to
push its row. A failed call of AWS is logged only: `PutRule` then leaves what
was done before the failure. A rule of frequency 0 (uploaded bases) is refused
by AWS: `rate(0 hours)`.

Abstractions: `sync_scope` is left out (it is written like the label and read
by nothing modelled here); a dump's generated label is represented by the UUID
of its row, since both are unique; a synchronisation is its read and its
recorded outcome (what is between them is `Ingestion`); requests with a UUID that was never given are a 404 without effect and
are not enumerated; reads (`list`, `get`, connection test) change nothing.
Labels, frequencies, credentials are small sets. Rows without `auth_fields` in
the edited body still pass through `UpdateRead`: the row it keeps is then unused.

### ActiveBase

What the rest of the program relies on: one register naming the base questions
are sent to. A switch drops the old base, then selects the new one; a pause or
a deletion leaves none; nothing else moves it. `ConnectorAdmin` maps the
register to `SelectedBase` (the row `get_active_sql_connector` returns) and the
wanted base to the switch in progress. The refinement holds for one request at
a time, and only then.

### MCConnectorAdmin

Model values, symmetry (connectors and requests are interchangeable) and the
bodies of edits that the configurations use. Rows are never compared by
UUID, and ranks of `updatedAt` make `SelectedBase` unique, so the permutations
are sound.

### ClientDocuments

| variable | code |
|---|---|
| `row` | `client_documents` (`documents/repository.py`): the status and the number of chunks |
| `used` | UUIDs given to documents (`uuid4`), deleted or not |
| `pieces` | the text: how many chunks extraction and splitting make of it, 0 when nothing could be extracted |
| `chunks` | how many rows of `documents.embeddings` carry the document |
| `task` | the next step of the background task `_process_document` |
| `pc`, `req` | where a request waits; its document, the row it read, whether its session has begun a transaction |

| operation | actions |
|---|---|
| `POST /documents/upload` | `UploadInsert` (commit of `repository.create`), `UploadReply` (the row is read back, the response sent, the task started) |
| `_process_document` | `MarkProcessing`; `RejectEmpty`, or `StoreChunks`, or `IndexingRaises`; `RecordIndexed`; `RecordFailure` |
| `DELETE /documents/{id}` | `DeleteRead`, `Clean` (chunks), `DeleteRow` |
| `GET .../content`, scoped chat | `ReadRow`, `ReadChunks` |
| failure of a database call, restart | `StatusWriteFails`, `FailureNotRecorded`, `RequestFails`, `Restart`; the second alternative of `IndexingRaises` |

`Clean` needs a word. `delete_document` reads the row with the session of the
request, which begins a transaction (SQLAlchemy's autobegin); nothing ends it
before `async with session.begin()` (router.py 298), which then raises. The
exception is logged and the chunks stay: `req.begun` records that transaction,
and `Clean` deletes chunks only where the code would. The task has a session of
its own and commits after each status; the vector store uses a third one, whose
only transaction holds all the chunks. A status write that fails leaves its
session unusable until a rollback, so the FAILED that the `except` writes on the
same session fails too (`FailureNotRecorded`).

Left out: the file on disk (written before the row, never read again), `list`,
and `reindex`, which answers 404, 409 or 501 and changes nothing.

### DocumentLifecycle

What a user of the documents sees: absent, waiting, then indexed or failed,
once, until it is deleted for good; and nothing waits forever. `Phase` computes
it from the table alone.

### AgentManager

| variable | code |
|---|---|
| `ask` | a call of `Orchestrator.ask`: how far it is, what its filters ask of the agents, its reply |
| `agent` | each agent of each question, inside `_run_with_timeout`: the await it is at, the time left to `wait_for`, the threads it waits for, what its retrievers have found, its result |
| `queue`, `threads` | the default executor of `asyncio.to_thread`: jobs in order, jobs that have a thread |
| `loop` | the synchronous call of an LLM the event loop is in, if any, and how long it lasts |

| operation | actions |
|---|---|
| `Orchestrator.ask` | `Arrive`, `Route`; `Decline` (out of scope), `NoAgent` or `Launch`; `FuseNothing`, or `Fuse` and `Generate` |
| `BaseAgent.run` | `Start`; `Search` and `Collect`, or `LookedUp`; `Raise` |
| `NL2SQLAgent.run` | `StartSql`, `DatabaseReply`; `SqlWithoutSchema`, or `GenerateSql`, `SqlGenerated`, `DatabaseReply`, `SqlResult` |
| executor | `TakeJob`, `EndJob` |
| `wait_for`, time | `Expire`, `Tick` |

The condenser, the routers, the reranker, the generator of answers and
`generate_sql` call their models synchronously: while `loop.call` is one of
them, no coroutine advances, but threads end, database replies arrive and the
timers of agents run down. `Tick` is a unit of time; it passes inside such a call,
or when nothing on the loop is ready. `waited` observes how long the agents of a
question took, blocked time left out.

Left out: the contents of chunks (`RagPipeline` has them); the awaits of one
database lookup are one; `build_nl2sql_agent` raising, a matter of configuration;
the cost log and the routes around `ask`.

### SchemaCache and DumpParser

| variable | code |
|---|---|
| `base`, `wanted` | the register of `ActiveBase` |
| `dump`, `stage`, `scanned` | an upload in `process_dump_upload`: its file, how far it is, what the scan found |
| `snapshot` | `nl2sql_schema_snapshots`, the active row of a base |
| `cache` | `InMemorySchemaCache._data`, with entries that expire |
| `pc`, `chosen`, `used`, `status` | a question in `NL2SQLAgent.run`: its await, the base and the schema it read, its answer |
| `logged` | the row of `nl2sql_query_execution_logs` |

| operation | actions |
|---|---|
| upload of a dump or of a SQLite file | `BeginUpload`, `DropOthers`, `SelectWanted`, `Scan`, `SaveSchema`, `SetCache`; `UploadFails` |
| `POST /connectors` with a SQL type | `PostConnector` |
| toggles, pauses, deletions of bases | `BeginToggle`, `DropOthers`, `SelectWanted`, `TurnOff` |
| a question | `ReadActive`; `LoadSchema` and `UseLoaded` when the cache is cold; `Generate` inside them; `Log` |
| time, restart | `Expire`, `Restart` |

`DumpParser` is the parser itself: a dump is a sequence of tokens (the markers the
parser looks at, and words), and each of its loops (block comments, line comments,
quotes) is the function `States` of the tokens read so far, one turn per token. A
statement ends at each semicolon that the last loop meets with nothing open (`Ends`).
The engine is the one whose marks the text shows, or the one of the form (`Engine`);
a CREATE TABLE is a table and the clauses of its dialect, of which
`_adapt_stmt_for_sqlite` rewrites some (`Rewritten`), SQLite reads others as they are
(`SQLiteReads`, which is SQLite's doing and was tried on it) and refuses the rest: the
sandbox skips a statement it refuses, and the upload goes on (`Executes`). The base,
the store and the questions work on the tables that are left.

What a dump looks like is said apart from the parser: statements, comments and empty
statements (`IsPiece`), the quotes of a statement in its literals, from one quote to
the next that is not escaped (`IsLiteral`). `WrittenTables` are the tables of those
statements that SQLite executes. `MCSchemaCache` builds its dumps from pieces full of
the parser's own markers, and checks that they are such pieces.

`PostConnector` enables a base past the register, without a dump. It is taken while no
other base is enabled: with one, the last updated row decides, which is the business of
`ConnectorAdmin`. `Log` has three outcomes: written; failed and swallowed; failed with a
rollback that fails too, which `run` answers by an error.

What a model returns is the three things the validator looks at (number of
statements, first word, forbidden keyword). Generation, validation and the
arrival of the schema are one step, since `generate_sql` is synchronous.

### Ingestion

| variable | code |
|---|---|
| `paging`, `clock`, `stamp`, `size` | the external source: how its API pages, and the version of each document, which is the time it was written |
| `store`, `chunk` | `{schema}.documents` with the tag of the instance, `{schema}.embeddings` |
| `sync` | a sync: the scopes left, the page being stored, the cursor, the scopes that failed |
| `last` | `last_sync_status` |
| `due`, `alone` | observations: what a sync that ends cleanly must have stored, whether another ran beside it |

| operation | actions |
|---|---|
| `POST /connectors/{id}/sync`, Lambda | `StartInstanceSync`, then per scope `NextScope`, `FetchPage`, `StoreRecord`, `ScopeDone`; `Answer` |
| `POST /ingestion/{source}/sync` | `StartDirectSync`, then the same for one scope |
| failures | `CannotConnect` (the test of a connection says no: its scope fails), `ConnectionRaises` (SharePoint's test raises, outside of the pipeline's `try`: all the scopes left fail), `ScopeFails`, `Restart` |
| the source | `EditAtSource`, `DeleteAtSource` |

The Lambda waits for the answer for 600 s and then gives up, while the sync goes
on: for the server, a slow sync overlaps with the next. That is the overlap of
two `StartInstanceSync`, which the run has. A failing record ends its scope and
leaves the other scopes alone.

### Accounts and ChatHistory

| variable | code |
|---|---|
| `role`, `active` | `public.users` |
| `access`, `refresh` | users who hold an access token, or a refresh cookie, that verifies |
| `pc`, `caller`, `arg` | a request: its next statement, the row `get_current_user` read, its parameters |
| `conv`, `message` | `chat_conversations`, `chat_messages` |
| `life` | observation: how often a conversation was deleted |

| operation | actions |
|---|---|
| scripts, `/auth` | `CreateAccount`, `Login`, `Refresh`, `Logout`, `ExpireAccess` |
| `PATCH /users/{id}` | `UpdateUserBegin`, `UpdateUserWrite` |
| `/chat/history` | `ChatBegin`, then `SaveConversation`, `PatchConversation`, `DeleteConversation`, or `CheckOwner` and `InsertMessage` |
| `assign_orphan_conversations.py` | `AssignOrphans` |
| a statement that raises | `RequestFails` |

Every protected route starts with the statement of `get_current_user`; the route's
own statement comes later, when the account may be disabled or the conversation
gone. Identifiers of conversations and messages come from the browser, so two
users may send the same one. Passwords and signatures are right or wrong;
a wrong one changes nothing. Reads change nothing; what `get_messages` returns is
the operator `Thread`.

### RagPipeline

| variable | code |
|---|---|
| `question`, `history`, `scope` | the words of the question, the sizes of the messages before it, what the route forces |
| `routing` | `RoutingDecision` |
| `lists`, `results`, `exact` | ranked lists of an agent's retrievers, results of the agents, chunks of `sql_score` 1.0 |
| `ranked`, `score` | chunks after fusion and reranking, their rerank scores |
| `answer`, `logged` | `RAGResponse`; the row of `reports.request_logs` |

| operation | actions |
|---|---|
| condenser, routers | `Condense`, `Route` (`RuleRoute`, `LLMRoutes`, `Forced`) |
| `BaseAgent.run`, SQL agent | `Retrieve` and `FuseAgent`, or `FindById`; `AskSql` |
| `Orchestrator.ask` after the agents | `Rerank`; `AnswerNothing`, `AnswerPassthrough` or `AnswerGenerated` |
| `POST /search` | `LogUsage` |

A question is the set of its words, a chunk a model value with its attributes.
What is inside what, letter by letter, is data (`Within`, `LikeCourtesy`), because
the code looks for names that way. Retrievers return any ranked list of chunks of
their source, the cross-encoder any scores, the models anything their callers
accept: an LLM routing has any sources, several filters and, maybe, an identifier. A
retriever returns what it ranks first, up to its limit. `Taken` is the loop of
`build_context`, chunk by chunk with its running count, and `Context` what it returns.
Variables whose value is not read any more are emptied, which merges states. Scores of the fusion are integers: `1 / (60 + rank)` in billionths, and their
sum is rounded to millionths as `round(score, 6)` does.

### Ordering

Not a component: `sorted`, list comprehensions and `sum` as the Python uses them. An
order is a set of pairs, and the element at a position of a sorted list is the one
with that many elements before it, so that no recursion is needed; `Keep` filters a
list, `Total` adds one up, `Descending` sorts by a value and keeps a given order
between equals, as Python's stable sort does. `Ingestion` sorts its pages with it,
`RagPipeline` its fusions, rerankings and citations.

## 4. Runs

Bounds: three connectors where bases compete, two elsewhere (a UUID is never
reused, so a run also ends with every row deleted); one request for what the
code promises without concurrency, two for what overlaps. Two requests are
enough to put any action of one between any two of the other; the theorems of
section 6 remove the bound where it matters. Two documents of up to two chunks
and two requests put an upload, its task, a deletion and a reader together; the
two documents share nothing but the requests. One tick is enough for a timeout
to race an answer, and one thread for two agents to wait for one another.
Ingestion has two documents in one scope and one in another, with one record per
page, so that a page boundary falls inside a scope and a scope can fail alone;
two stamps remain after the first three for edits and deletions between pages. Two
users, two requests and one conversation that is deleted once let every pair of
chat routes overlap, over a row that is theirs, another's, nobody's or gone. Two
bases, four dumps and two questions let the base change under a question that
waits; one text is uploaded under two engines, one of which makes SQLite refuse it. In `answers`, caps of two to four are met by the chunks of the store, its names
contain one another, routings name up to two sources and any set of the four filters,
and the budget of three is exceeded by a chunk alone, by two together, and kept by two
others.

Deadlock is checked in the runs of the connectors, documents and conversations: a
request can always go on, and an idle one can always start. Elsewhere the bounds
end the run (stamps, uploads, questions replied to), so it is not.

| run | size | question and result |
|---|---|---|
| `connector_sequential` | 1 request, 2 connectors; 2 labels, frequencies and credentials; every operation | Without overlap and with AWS reachable, is at most one base enabled at rest, does each API connector have the schedule of its row, does an edit write anything but what it was given? It is, it has, it does not; and the table implements `ActiveBase`. |
| `connector_overlap` | 2 requests, 3 connectors | How many bases can end enabled? Never more than requests overlap. Do both answers of a form submitted twice name one instance? Yes. |
| `connector_faults` | 2 requests, 2 connectors | Calls of the database and of AWS fail anywhere: does a paused connector stay paused? Yes. |
| `documents_lifecycle` | 2 documents, 2 requests | The database answers: is each accepted document settled or deleted in the end, once? Yes: the table implements `DocumentLifecycle`, and a failed document left no chunk. |
| `documents_faults` | 2 documents, 2 requests | Failures and restarts anywhere: is an INDEXED document whole, also for a reader that a deletion overtakes? Do statuses only move forward? Yes. |
| `questions_answered` | 2 questions, agents jira and sql, 1 thread, timeout and calls of up to 1 tick | Threads and database calls hang, retrievers and the LLM raise, the loop is blocked: does every question get a reply, do its agents take one timeout at most, and is what a retriever found never answered by "nothing" because another one failed? Yes. |
| `answers` | 7 chunks of 4 sources, 8 words, questions of up to 3 | Whatever retrievers, rerankers and models answer: does what is cited satisfy the filters, is it ranked as the lists rank it, with percentages that go down, named in the text when a filter was asked for, and is the context the longest prefix that fits, or one cut chunk? Yes. |
| `conversations` | 2 users, 2 requests, 1 conversation, 1 message | Requests overlap with logins, updates of accounts, deletions and assignments: does only its owner change a conversation, does a thread show what its owner wrote, and does an active administrator remain? Yes, updates of users coming one at a time. |
| `ingestion_syncs` | 3 documents, 2 scopes, 2 syncs, 1 failure or restart, 4 ways to page | The source changes between pages, connections fail or raise and syncs overlap: is a stored document whole, is a scope without failure complete, does a text go back to an older version only when syncs overlap? Yes. |
| `schema_questions` | 2 bases, 4 dumps, 2 questions, 1 failure or restart | Is SQL generated from the tables SQLite made of the dump of its base, does the cache agree with the store, does the log say what was generated? Yes; a base without schema is met only while its upload runs, after it failed, or when it was posted without a dump. |
| `upload_race` | 2 requests, 2 connectors, imports only | violates `OneActiveBase`: an import creates its base enabled, deactivates the others and enables its own again in three transactions, and those of two imports interleave. |
| `deleted_chunks` | 2 documents, 2 requests | violates `ChunksGoWithTheirDocument`: a document that was read INDEXED is deleted, and its chunks stay. |

The violations quote what the code or its comments say; `PROJECT.json` gives the
lines under "findings". `documents_faults` and `deleted_chunks` show one more
thing: the content of a document that is being deleted is read whole only
because the deletion of chunks never happens. The mutation `DeleteReadCommitted`,
a session that would commit before `session.begin()`, makes the deletion work and
lets a reader that saw INDEXED find no chunk.

Every passing property has a mutation next to the definition it changes
(`PatchedRowRead`, `ToggleReadAlone`, ...): the plausible slip that would break
the property, which TLC then reports.

### Met while modelling, and not claimed to be otherwise

The properties carry the conditions that exclude these.

* Connectors: `POST /connectors` with a SQL type enables a base without
  deactivating the others; the push of a toggle that committed before a deletion
  puts the rule of the deleted connector back; two edits of different credentials
  that overlap undo one another, since the merged column is written whole.
* Documents: a restart, or a status write that fails, leaves a document waiting
  for ever; the chunks of a document that is deleted while its task runs are stored
  after it, and stay.
* Agents: an agent whose threads have returned may be cancelled all the same,
  when the loop was blocked until its timer ran out.
* Schemas: an upload enables its base before it scans the dump, so a failed upload
  leaves an active base that cannot be asked. A CREATE TABLE that SQLite refuses is
  skipped with a warning and the upload answers ok, so SQL is generated without that
  table: `CREATE TABLE public.users`, which is what makes `detect_engine` choose
  PostgreSQL, a `dbo.` name, `DEFAULT now()`, and MySQL clauses when a mark in the text
  made another engine of it. `--` inside a literal swallows the rest of its line, with it
  the closing quote, and the statements after it; the backslash escapes in every
  dialect. `query_logger.py` 14-17 says that a log that fails must never fail the
  answer: when `session.rollback()` raises as well, the answer is an error.
* Ingestion: chunks past the end of a document that shrank stay; deletions at the
  source never reach the store; a direct sync drops the instance tag; an unknown
  Confluence space is a success of nothing; paging ServiceNow by offset skips an
  untouched record when an earlier one leaves the query between two pages;
  `trigger_sync` does not support ServiceNow; a SharePoint client without its library
  fails the scopes that were not read yet, not its own only.
* Answers: courtesies are looked for inside words ("architecture" has "hi");
  "IH-1" counts as named by a text that names "IH-12"; a single reranked chunk is
  shown as 0 %; `generator.py` 132-135 says that filters are strict, but the chunks
  of a source that does not know the key pass unfiltered; exact matches skip the
  reranker only when all are; a search by identifier ignores the forced instance.
* Accounts: two administrators who demote each other at once may leave none; the
  messages of a conversation survive it, and show again if its identifier comes back.

## 5. Fairness

The connector administration is specified for safety only: a handler always
ends, but nothing in the code retries one that failed.

`ClientDocuments!FairSpec` assumes weak fairness of `Resume(r)` and `RunTask(d)`:
the event loop resumes what it has started, and every call a handler or a task
awaits returns or raises. Nobody has to send a request, and failures are never
fair. `IndexingRaises` being one alternative of `RunTask`, nothing says that
indexing succeeds. `DocumentLifecycle!FairSpec` asks only that a waiting document
be settled, unless it is deleted first.

`AgentManager!FairSpec` assumes that the loop runs each coroutine that is ready,
that time passes, and that calls of an LLM return (their clients have timeouts of
their own). It assumes nothing of threads and database calls: they may hang
forever, and the timers alone must bring the reply.

`SchemaCache`, `Ingestion`, `ChatHistory` and `RagPipeline` are specified for
safety only: nothing retries a sync or an upload that was lost, and that a question
is replied to is shown by `AgentManager`.

## 6. Proofs

`ConnectorAdminProofs` proves, for every set of connectors, requests, labels,
frequencies, credentials and bodies:

* `TypeInvariant`: `TypeOK` is inductive. Its last part, `HasLocals`, says that
  a handler finds set what it reads where it resumes.
* `PausedConnectorsStayPaused`: no assumption, failures included. It needs
  `KnownIds` (a UUID is given to one row only), without which an INSERT could
  replace a paused row by an enabled one.
* `OverlapBoundsActiveBases`: assuming no failure and no SQL type posted to
  `/connectors`. `ActiveBoundedByOverlap` is not inductive: a request past its
  deactivation will enable its base whatever others did meanwhile. The
  invariant counts those bases too (`Covered`: enabled, or about to be), and
  needs `SwitchKnowsType`: the row a switch read still has the type of the row
  it enables. A deactivation leaves only bases that requests name, at most one
  each; no other step but the insertion of an upload covers a new base.
* `OneRequestOneBase`, its consequence for one request: `OneActiveBase`.
* `AdministrationIsARegister`: one request at a time and no failure, the table
  implements the register of `ActiveBase` (`ImplementsRegister`). `RanksDistinct`
  makes the base that `get_active_sql_connector` returns the row written last, and
  `Handover` says what is enabled at each point of a switch: at most one base,
  except that an import, whose INSERT is the last write, is above an older one until
  its deactivation; after the deactivation none but its own.

It also proves, of requests that overlap:

* `RulesFollowRows`, that is `RulesMirrorRows`, for any number of requests that
  overlap on different connectors, with the rules configured and no call failing.
  Mirroring is broken between the commit of a row and the push of its rule, so the
  invariant `Follows` says it only of connectors nobody is `Behind` on, and of the
  others that the request which is behind holds the row as it is in the table
  (`Local`); that needs requests to be `Exclusive`, and the rows of API connectors to
  keep a frequency that AWS accepts (`Scheduled`).
* `FormsShareInstance`, that is `DoubleSubmitSharesInstance`, failures included, when
  no request edits or deletes a connector. `LabelsUnique` and `FormsNamed` make it
  inductive: the instance an answer names has the type and the label of its form,
  rows keep both (`RowsStay`), and a row appears only under a label nobody had
  (`RowsAppear`).
* `EditsWriteWhatIsSupplied`, that is `PatchWritesOnlyWhatIsSupplied`, for requests
  that overlap on different connectors, failures included: no two of them name one
  connector (`OneEach`), so an edit that waits for its UPDATE still holds the
  credentials of the row it will merge into (`Fresh`); no other step writes those
  columns.

`ClientDocumentsProofs` proves, for every set of documents and requests and every
number of chunks:

* `TypeInvariant`, `IndexedDocumentsAreWhole`, `ReadersSeeAll` and
  `StatusesMoveForward`, failures and restarts included. The inductive invariant
  is `Inv`: `TaskFollowsRow` (a task and the row of its document are at the same
  point of the life cycle, and chunks are all there or none: RecordIndexed may
  write INDEXED only because a task that records has stored everything) and
  `RequestsFollowRows` (a task is started once, by the only request that holds
  its upload, before anything was stored; and the session of a deletion has
  begun its transaction, which is what keeps the chunks a reader relies on).
* `FailedDocumentsAreEmpty`, without failures of the database: it adds
  `NothingStoredYet`, chunks are stored by the step that leads to INDEXED only.
* `DocumentsFollowLifecycle`, without failures: the safety part of the
  refinement, `Spec => Lifecycle!Spec`. `RowMoves` says what a step may do to a
  row; the phase of one document moves, the others stay.

`AgentManagerProofs` proves, for any number of questions, agents and threads and
every timeout:

* `TypeInvariant`, which includes that the executor never exceeds its threads.
* `AgentsAlwaysEndInTime`. `ClocksAgree` strengthens it: the clock of a question
  and the time left to each of its running agents never add up to more than the
  timeout, and the clock has not started before they are launched. Time can
  pass on an idle loop only if some agent still has time left.
* `FoundIsAnswered`, that is `FoundIsNotNothing`. `WorkAgrees` strengthens it: agents
  work only while their question waits for them, so no outcome changes after the
  reply, and each keeps, through the threads it waits for and the filters, what its
  retrievers had found; a retriever that raises does not take that away.

`ChatHistoryProofs` proves, for every set of users, requests, conversations and
messages:

* `TypeInvariant`: a request carries the parameters of the step it is at.
* `ThreadsSafe`. Between the check of `save_message` and its insert the
  conversation may be deleted and saved again by somebody else. The invariant
  says of that request (`Checked`) and of every message stored (`Written`) that the
  user owned the conversation in that life of it (`Held`): either still does, or
  that life is over.
* `OwnerSafe`, by cases on the actions.
* `AdminsSafe`, for updates that come one at a time: `Vetted`, the caller of the
  update in progress still is the active administrator that was read, so whoever is
  written the caller stays.

`SchemaCacheProofs` proves, for every set of bases, questions and dumps:

* `TypeInvariant`, `CacheSafe`, `LogsSafe` and `BlindSafe`, from one
  invariant. `UploadsOK`: a base has a snapshot, the one that was scanned, exactly
  from its save on, and a snapshot never changes after it; this is why a question
  that reads the store and writes the cache in two steps cannot write an old one.
  `CacheOK` and `QuestionsOK` follow what was read from there.
* `ScansInTurn`, about dumps of any length made of statements, comments and empty
  statements (`MadeOf`): what is scanned is `WrittenTables`. First, a loop over two texts
  goes over the first, then over the second from where the first left it
  (`RunsInTurn`); the comment loops start the second text as if it stood alone, with
  what they kept in front (`StripJoins`), and so does the quote loop where a statement
  ends (`EndsOfBoth`, `FirstWordsOfBoth`). So what leaves nothing open (`Closed`) does not
  reach what follows it (`ScansOfBoth`). Then each kind of piece leaves nothing open
  (`PieceAlone`): nothing is left of a comment (`StripComment`), all of a statement
  (`StripPlain`), and after n tokens of a statement the loop has open exactly the literal
  in which n lies, with the escape it should have (`OpenAt`, `OpenAtNext`), so that no
  semicolon but the last one ends it (`StatementEnds`).
* `AnswersSafe`, assuming that every dump is made of such pieces and that its tables are
  those SQLite executes (`DumpsAreWritten`): the parser mixes no two statements up, and
  uploads, switches, cache and restarts no two bases. Which statements SQLite executes is
  an assumption on both sides, so the theorem says nothing of the tables that are lost
  because it refuses them. TLC checks the hypothesis for each dump of `MCSchemaCache` (its
  ASSUME). It excludes comment markers inside literals and statements, the `--` of
  section 4 among them.

`IngestionProofs` proves, for any number of documents, scopes, syncs, faults, and any
page size and cursor:

* `TypeInvariant` and `DocumentsWhole`: a stored document has all the chunks of its
  version, whichever syncs overlap. The transaction being one step, this needs no
  more than the types.
* `ScopesComplete`, that is `CleanScopesAreComplete`. At the end a document that was
  due is stored; before that it is somewhere, and `CoveredOK` says where: its scope is
  still to come, or failed, or the row is up to date, or the sync is reading its scope
  and has it on the page at hand or will find it after its cursor (`StillAhead`). To
  keep that, a page must miss nothing between two cursors, however the documents
  around it are edited: `PageOK`, a page holds each document once, in the current
  version if it is due; `DueOK`, what is due is still in the query of the sync;
  `AloneIsAlone`, nobody else stores meanwhile; `SourceOK`, versions have different
  stamps, so that a page sorted by them is a list without ties. Paging by offset is
  excluded: there `StillAhead` is false, as section 4 says.
* `NoOlderText`, that is `OlderTextOnlyByOverlap`, from the same invariant: `PageOK` also
  says that no page of a sync that runs alone is behind a row, and `StoreBehind` that
  no row is ahead of the source.

`RagPipelineProofs` proves, for any store, questions, filters and scopes, whatever
retrievers, rerankers and models return:

* `TypeInvariant`: one result an agent at most, and no list of chunks holds one twice.
  Since later steps index lists by rank, everything below rests on it.
* `FusionFollowsRanks`, that is `FusionRespectsRanks`: a chunk before another in every list
  that has the second is before it in the fusion. A smaller rank has a greater weight,
  a sum of greater terms is greater (`TotalGrows`), rounding keeps the order (`DivGrows`),
  and when rounding makes two scores equal, the stable sort keeps the order in which
  they were first seen, which is theirs.
* `OnlyMatchesAreCited`. `FoundFits` carries it from the retrievers to the citations:
  results, what is ranked and what is cited satisfy the filter, the instance and the
  document asked for. While an agent's lists wait for their fusion they hold chunks of
  its source only (`Retrieving`), so that the keys of that source decide.
* `PercentagesAreRanked`, from `Scored`: what was reranked is in the order of its scores,
  else nothing has a score. `CitedAreMentioned` holds of the step that
  writes the answer, and `Unanswered` keeps it until then.
* `BudgetIsKept`, that is `ContextFits`: after each turn of the loop of `build_context`, what
  it has taken is a prefix of the list and its count the sum of their sizes, and once it
  has stopped, the next chunk would not have fitted; nothing after that one is taken.
* `BusinessIsRouted`, from the routing step alone.

`OrderingProofs` has what these rest on: a sorted list holds each element once and in
the order (`SortedFacts`), filtering keeps ranks (`KeepFacts`), what sums and divisions
keep. Induction over a length is done there as an argument on sets: the set of
the lengths for which a statement fails, if not empty, has a least element
(`LeastExists`), and that one does not fail. `UpTo` in `SchemaCacheProofs` is the same
for loops over a text.

The assumptions on the constants are those that the modules name, and TLC evaluates
them in every run: finite sets of connectors and requests, disjoint kinds of types,
sentinels outside the sets they complete; for `Ingestion`, a finite set of documents, and
time enough for one version of each (`Cardinality(Docs) <= MaxTime`, `MaxTime` being a
bound of the runs that stands for any number); for `RagPipeline`, bounds that are
numbers, sources that exist, and courtesies (`rule_router.py` 58-61) that are neither
identifiers of tickets, nor names of sources, nor business nouns.

Every invariant and every action property of a passing run is a theorem. Model-checked
only, because liveness under fairness and ENABLED are out of the prover's reach: that
questions get a reply (`EveryQuestionGetsAReply`), and that documents settle, the
fairness part of `ImplementsLifecycle` (its steps are `DocumentsFollowLifecycle`). The
hypotheses of some theorems (one request at a time, no failure, updates of users that
do not overlap) are those of the run that checks the property; `DumpsAreWritten` is
the only one about data.

## 7. Not modelled

* Dashboards and reports: aggregations that read the tables. The one thing they
  write is a score per HR ticket, an upsert by a script that runs alone.
* Transformers and embeddings: of the text of a document, only how many chunks it
  makes is kept; which chunk is near which question is any ranking.
* The rest of the clients of the sources (authentication, headers, field names):
  only their page loops and the test of a connection hold a protocol.
* In `app/nl2sql`: the execution of SQL, its optimisation, the formatting of results,
  the query mode and the connection pool are called by nobody; the Redis cache has
  the contract of the one in memory and no factory builds it.
* Configuration, deployment, start-up: the schema that `init_db.py` creates is the
  type of the tables here.

`PROJECT.json` lists each part with its state.
