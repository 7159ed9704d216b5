----------------------------- MODULE AgentManager -----------------------------
(***************************************************************************)
(* Questions put to the RAG pipeline (app/rag), seen from the one event    *)
(* loop that serves them: the agents each question launches in parallel    *)
(* with a timeout of their own, the pool of threads the blocking           *)
(* retrievers run in, and the calls of an LLM that the loop makes itself   *)
(* and that block every other coroutine until they return.                 *)
(*                                                                         *)
(* Time is a countdown per agent.  The loop runs whatever is ready before  *)
(* time passes; time passes while nothing is ready, or while the loop is   *)
(* inside a blocking call.                                                 *)
(***************************************************************************)
EXTENDS Integers, Sequences, FiniteSets

CONSTANTS
    Questions,      \* calls of Orchestrator.ask
    Sources,        \* sources that the routers name
    ActiveSources,  \* sources that have an agent
    Routings,       \* decisions of the routers: sources, and what filters ask for
    Timeout,        \* AGENT_TIMEOUT_SECONDS, in ticks
    Workers,        \* threads of the default executor
    MaxBlock,       \* bound: ticks that one blocking call lasts
    NoQuestion

\* Without a filter, agents search; with filters, by metadata as well; with the
\* identifier of a document, they only look it up.
Modes == {"plain", "filtered", "exact"}

Agents == Questions \X ActiveSources
Durations == 0..MaxBlock

\* Jobs handed to the pool of threads.
Work == {"embed", "vector", "bm25", "metadata", "by_id"}
Jobs == Agents \X Work

Phases == {"new", "asked", "routing", "agents", "generating", "replied"}
Stages == {"off", "start", "by_id", "embed", "search", "lookup", "looked_up",
           "log", "logged", "done"}
Outcomes == {"empty", "chunks", "error", "timeout"}
\* What a question is replied; "failed" is the error of an LLM that raised.
Answers == {"none", "out_of_scope", "nothing", "answer", "failed"}

\* waited observes the ticks that the agents of a question took, those in which
\* the loop was blocked left out.
Ask == [phase: Phases, mode: Modes, answer: Answers, waited: Nat]
\* found observes that a retriever of the agent returned chunks while it ran.
Agent == [stage: Stages, left: 0..Timeout, pending: SUBSET Work,
          found: {"empty", "chunks"}, outcome: Outcomes]

\* The blocking call the loop is in: of the routers, of the SQL generator, or of
\* the generator of answers.
Calls == {"none", "route", "sql", "answer"}

ASSUME ActiveAreSources == ActiveSources \subseteq Sources
ASSUME RoutingsWellFormed ==
    Routings \subseteq [sources: SUBSET Sources, mode: Modes]
ASSUME TimeoutPositive == Timeout \in Nat \ {0}
ASSUME WorkersPositive == Workers \in Nat \ {0}
ASSUME MaxBlockNat == MaxBlock \in Nat
ASSUME NoQuestionIsNone == NoQuestion \notin Questions

VARIABLES
    ask,        \* each question
    agent,      \* each agent of each question
    queue,      \* jobs that wait for a thread
    threads,    \* jobs that a thread is running
    loop        \* the blocking call the event loop is in, and its ticks left

vars == <<ask, agent, queue, threads, loop>>

Fresh(stage) == [stage |-> stage, left |-> Timeout, pending |-> {},
                 found |-> "empty", outcome |-> "empty"]
LoopIdle == [call |-> "none", of |-> NoQuestion, left |-> 0]

Init ==
    /\ ask = [q \in Questions |-> [phase |-> "new", mode |-> "plain",
                                   answer |-> "none", waited |-> 0]]
    /\ agent = [a \in Agents |-> Fresh("off")]
    /\ queue = <<>>
    /\ threads = {}
    /\ loop = LoopIdle

-----------------------------------------------------------------------------
(* What is ready to run on the loop *)

Idle == loop.call = "none"

Launched(q) == {a \in Agents : a[1] = q /\ agent[a].stage # "off"}

\* wait_for has started the timer of the agent and has not returned.
Timed(a) == agent[a].stage \notin {"off", "start", "done"}

\* The agent waits for its threads, or for a call of the database.
Waits(a) == agent[a].pending # {} \/ agent[a].stage \in {"lookup", "log"}

QuestionReady(q) ==
    \/ ask[q].phase = "asked"
    \/ ask[q].phase = "agents" /\ \A a \in Launched(q) : agent[a].stage = "done"

AgentReady(a) ==
    \/ agent[a].stage = "start"
    \/ Timed(a) /\ (~Waits(a) \/ agent[a].left = 0)

\* The loop enters a blocking call for q that lasts any time within the bound.
LoopCalls(call, q) ==
    \E d \in Durations : loop' = [call |-> call, of |-> q, left |-> d]

\* The call returns to the coroutine of q.
Returns(call, q) == loop.call = call /\ loop.of = q /\ loop.left = 0

-----------------------------------------------------------------------------
(* A question: Orchestrator.ask *)

Answer(q, answer) ==
    ask' = [ask EXCEPT ![q].phase = "replied", ![q].answer = answer]

Arrive(q) ==
    /\ ask[q].phase = "new"
    /\ ask' = [ask EXCEPT ![q].phase = "asked"]
    /\ UNCHANGED <<agent, queue, threads, loop>>

\* The condenser and the routers run on the loop, and fall back on a default when
\* their LLM raises; so does the LLM that declines a question out of scope, without
\* a default.
Route(q) ==
    /\ Idle
    /\ ask[q].phase = "asked"
    /\ ask' = [ask EXCEPT ![q].phase = "routing"]
    /\ LoopCalls("route", q)
    /\ UNCHANGED <<agent, queue, threads>>

Decline(q) ==
    /\ Returns("route", q)
    /\ Answer(q, "out_of_scope") \/ Answer(q, "failed")
    /\ loop' = LoopIdle
    /\ UNCHANGED <<agent, queue, threads>>

\* AgentManager.run: one task per chosen source that has an agent.
Launch(q, routing) ==
    /\ Returns("route", q)
    /\ routing.sources \cap ActiveSources # {}
    /\ ask' = [ask EXCEPT ![q].phase = "agents", ![q].mode = routing.mode]
    /\ agent' = [a \in Agents |->
                    IF a[1] = q /\ a[2] \in routing.sources
                    THEN Fresh("start") ELSE agent[a]]
    /\ loop' = LoopIdle
    /\ UNCHANGED <<queue, threads>>

NoAgent(q, routing) ==
    /\ Returns("route", q)
    /\ routing.sources \cap ActiveSources = {}
    /\ Answer(q, "nothing")
    /\ loop' = LoopIdle
    /\ UNCHANGED <<agent, queue, threads>>

\* gather has every result; results with an error and empty ones are left out.
Usable(q) == {a \in Launched(q) : agent[a].outcome = "chunks"}

Gathered(q) ==
    /\ ask[q].phase = "agents"
    /\ \A a \in Launched(q) : agent[a].stage = "done"

FuseNothing(q) ==
    /\ Idle
    /\ Gathered(q)
    /\ Usable(q) = {}
    /\ Answer(q, "nothing")
    /\ UNCHANGED <<agent, queue, threads, loop>>

\* The reranker and the LLM run on the loop.
Fuse(q) ==
    /\ Idle
    /\ Gathered(q)
    /\ Usable(q) # {}
    /\ ask' = [ask EXCEPT ![q].phase = "generating"]
    /\ LoopCalls("answer", q)
    /\ UNCHANGED <<agent, queue, threads>>

Generate(q) ==
    /\ Returns("answer", q)
    /\ Answer(q, "answer") \/ Answer(q, "failed")
    /\ loop' = LoopIdle
    /\ UNCHANGED <<agent, queue, threads>>

-----------------------------------------------------------------------------
(* An agent of documents: BaseAgent.run *)

\* asyncio.to_thread: the jobs of w queue up for a thread.
Submit(a, w) == queue' = queue \o [i \in 1..Len(w) |-> <<a, w[i]>>]

Goes(a, stage, pending) ==
    agent' = [agent EXCEPT ![a].stage = stage, ![a].pending = pending]

Finishes(a, outcome) ==
    agent' = [agent EXCEPT ![a] = [stage |-> "done", left |-> Timeout, pending |-> {},
                                   found |-> @.found, outcome |-> outcome]]

\* wait_for starts its timer, and the agent runs until its first await.
Start(a) ==
    LET first == IF ask[a[1]].mode = "exact" THEN "by_id" ELSE "embed"
    IN  /\ Idle
        /\ agent[a].stage = "start"
        /\ a[2] # "sql"
        /\ Goes(a, first, {first})
        /\ Submit(a, <<first>>)
        /\ UNCHANGED <<ask, threads, loop>>

\* The threads of the agent have returned, each with a value or an exception.
Returned(a, stage) ==
    /\ Idle
    /\ agent[a].stage = stage
    /\ agent[a].pending = {}

\* Mutation: the timeout is around each await of the agent rather than around its run.
SearchAnew(a) ==
    /\ Returned(a, "embed")
    /\ agent' = [agent EXCEPT ![a].stage = "search", ![a].left = Timeout,
                              ![a].pending = {"vector", "bm25"}]
    /\ Submit(a, <<"vector", "bm25">>)
    /\ UNCHANGED <<ask, threads, loop>>

\* The vector of the question is there: the retrievers run side by side.
Search(a) ==
    LET methods == IF ask[a[1]].mode = "filtered"
                   THEN <<"vector", "bm25", "metadata">> ELSE <<"vector", "bm25">>
    IN  /\ Returned(a, "embed")
        /\ Goes(a, "search", {methods[i] : i \in DOMAIN methods})
        /\ Submit(a, methods)
        /\ UNCHANGED <<ask, threads, loop>>

\* Filters may leave nothing of what the retrievers found.
Filtered(a) ==
    \/ Finishes(a, agent[a].found)
    \/ ask[a[1]].mode = "filtered" /\ Finishes(a, "empty")

\* Mutation: gather without return_exceptions: a retriever that raises ends the agent.
CollectAll(a) ==
    /\ Returned(a, "search")
    /\ Filtered(a) \/ Finishes(a, "error")
    /\ UNCHANGED <<ask, queue, threads, loop>>

\* Retrievers that raised are skipped; the lists of the others are fused and filtered.
Collect(a) ==
    /\ Returned(a, "search")
    /\ Filtered(a)
    /\ UNCHANGED <<ask, queue, threads, loop>>

LookedUp(a) ==
    /\ Returned(a, "by_id")
    /\ Finishes(a, agent[a].found)
    /\ UNCHANGED <<ask, queue, threads, loop>>

\* The only job of a stage raised.
Raise(a) ==
    /\ Returned(a, "embed") \/ Returned(a, "by_id")
    /\ agent[a].found = "empty"
    /\ Finishes(a, "error")
    /\ UNCHANGED <<ask, queue, threads, loop>>

\* Mutation: a pool without a limit.
TakeJobUnbounded ==
    /\ queue # <<>>
    /\ threads' = threads \cup {Head(queue)}
    /\ queue' = Tail(queue)
    /\ UNCHANGED <<ask, agent, loop>>

\* A free thread takes the oldest job, and drops it if its agent gave up.
TakeJob ==
    LET job == Head(queue)
        wanted == job[2] \in agent[job[1]].pending
    IN  /\ queue # <<>>
        /\ Cardinality(threads) < Workers
        /\ threads' = IF wanted THEN threads \cup {job} ELSE threads
        /\ queue' = Tail(queue)
        /\ UNCHANGED <<ask, agent, loop>>

\* A thread ends, after any time, with chunks, without any, or with an exception;
\* nobody waits for it any more if the agent timed out.
EndJob(a, work) ==
    /\ <<a, work>> \in threads
    /\ threads' = threads \ {<<a, work>>}
    /\ \E found \in {agent[a].found, "chunks"} :
          /\ found # agent[a].found => work # "embed" /\ work \in agent[a].pending
          /\ agent' = [agent EXCEPT ![a].pending = @ \ {work}, ![a].found = found]
    /\ UNCHANGED <<ask, queue, loop>>

-----------------------------------------------------------------------------
(* The SQL agent: NL2SQLAgent.run *)

\* It looks the active connector and its schema up, by asynchronous calls.
StartSql(a) ==
    /\ Idle
    /\ agent[a].stage = "start"
    /\ a[2] = "sql"
    /\ Goes(a, "lookup", {})
    /\ UNCHANGED <<ask, queue, threads, loop>>

\* The database answers a lookup, or the insertion into the log of queries.
DatabaseReply(a) ==
    /\ agent[a].stage \in {"lookup", "log"}
    /\ Goes(a, IF agent[a].stage = "lookup" THEN "looked_up" ELSE "logged", {})
    /\ UNCHANGED <<ask, queue, threads, loop>>

\* No base is active or it has no schema, which is a chunk that says so; or the
\* database raised.
SqlWithoutSchema(a) ==
    /\ Returned(a, "looked_up")
    /\ Finishes(a, "chunks") \/ Finishes(a, "error")
    /\ UNCHANGED <<ask, queue, threads, loop>>

\* generate_sql awaits nothing: it calls Bedrock on the loop.
GenerateSql(a) ==
    /\ Returned(a, "looked_up")
    /\ LoopCalls("sql", a[1])
    /\ UNCHANGED <<ask, agent, queue, threads>>

\* Accepted or rejected, the statement is logged; a failed call is an error.
SqlGenerated(a) ==
    /\ Returns("sql", a[1])
    /\ agent[a].stage = "looked_up"
    /\ Goes(a, "log", {}) \/ Finishes(a, "error")
    /\ loop' = LoopIdle
    /\ UNCHANGED <<ask, queue, threads>>

\* QueryLogger.log swallows the errors of its statements, not those of its rollback.
SqlResult(a) ==
    /\ Returned(a, "logged")
    /\ Finishes(a, "chunks") \/ Finishes(a, "error")
    /\ UNCHANGED <<ask, queue, threads, loop>>

-----------------------------------------------------------------------------
(* Timers and time *)

\* Mutation: only the agents of documents, which share BaseAgent.run, have a timeout.
ExpireDocuments(a) ==
    /\ Idle
    /\ Timed(a) /\ agent[a].left = 0
    /\ a[2] # "sql"
    /\ Finishes(a, "timeout")
    /\ UNCHANGED <<ask, queue, threads, loop>>

\* wait_for gives up: jobs that have no thread yet are cancelled, those that run
\* keep their thread.
Expire(a) ==
    /\ Idle
    /\ Timed(a) /\ agent[a].left = 0
    /\ Finishes(a, "timeout")
    /\ UNCHANGED <<ask, queue, threads, loop>>

\* Time passes in a blocking call, or while agents wait and nothing is ready.
TimePasses ==
    IF Idle
    THEN /\ \E a \in Agents : Timed(a)
         /\ \A a \in Agents : ~AgentReady(a)
         /\ \A q \in Questions : ~QuestionReady(q)
    ELSE loop.left > 0

Countdown(n) == IF n = 0 THEN 0 ELSE n - 1

Tick ==
    /\ TimePasses
    /\ ask' = [q \in Questions |->
                  IF ask[q].phase = "agents"
                  THEN [ask[q] EXCEPT !.waited = @ + (IF Idle THEN 1 ELSE 0)]
                  ELSE ask[q]]
    /\ agent' = [a \in Agents |->
                    IF Timed(a) THEN [agent[a] EXCEPT !.left = Countdown(@)]
                    ELSE agent[a]]
    /\ loop' = [loop EXCEPT !.left = Countdown(@)]
    /\ UNCHANGED <<queue, threads>>

-----------------------------------------------------------------------------
(* What the loop runs, and what happens outside of it *)

AskStep(q) ==
    \/ Route(q) \/ Decline(q)
    \/ \E routing \in Routings : Launch(q, routing) \/ NoAgent(q, routing)
    \/ FuseNothing(q) \/ Fuse(q) \/ Generate(q)

AgentStep(a) ==
    \/ Start(a) \/ Search(a) \/ Collect(a) \/ LookedUp(a) \/ Raise(a)
    \/ StartSql(a) \/ SqlWithoutSchema(a) \/ GenerateSql(a) \/ SqlGenerated(a)
    \/ SqlResult(a)
    \/ Expire(a)

Outside ==
    \/ \E q \in Questions : Arrive(q)
    \/ TakeJob
    \/ \E a \in Agents, work \in Work : EndJob(a, work)
    \/ \E a \in Agents : DatabaseReply(a)

Next ==
    \/ \E q \in Questions : AskStep(q)
    \/ \E a \in Agents : AgentStep(a)
    \/ Outside
    \/ Tick

Spec == Init /\ [][Next]_vars

\* The loop runs what is ready, and the LLM clients return; neither the threads
\* nor the database owe an answer.
FairSpec ==
    /\ Spec
    /\ WF_vars(Tick)
    /\ \A q \in Questions : WF_vars(AskStep(q))
    /\ \A a \in Agents : WF_vars(AgentStep(a))

-----------------------------------------------------------------------------
(* Properties *)

\* Questions, agents, the pool and the loop stay well formed; the pool never runs
\* more jobs than it has threads.
TypeOK ==
    /\ ask \in [Questions -> Ask]
    /\ agent \in [Agents -> Agent]
    /\ queue \in Seq(Jobs)
    /\ threads \subseteq Jobs /\ IsFiniteSet(threads)
    /\ Cardinality(threads) <= Workers
    /\ loop \in [call: Calls, of: Questions \cup {NoQuestion}, left: Durations]

\* AgentManager.run: whatever the threads and the database do, the agents of a
\* question take no longer than one timeout, plus the time the loop was blocked.
AgentsEndInTime ==
    \A q \in Questions : ask[q].waited <= Timeout

\* manager.py:6 and base_agent.py:145: a retriever or an agent that fails or is late
\* costs its own results only.  What a retriever of another agent, or of the same one,
\* had found is not answered by "nothing", unless filters removed it or its own agent
\* ran out of time.
FoundIsNotNothing ==
    \A q \in Questions : \A a \in Launched(q) :
        agent[a].found = "chunks" /\ ask[q].answer = "nothing"
            => ask[q].mode = "filtered" \/ agent[a].outcome = "timeout"

\* A question that was asked gets a reply, even if threads and database calls hang.
EveryQuestionGetsAReply ==
    \A q \in Questions : ask[q].phase = "asked" ~> ask[q].phase = "replied"
=============================================================================
