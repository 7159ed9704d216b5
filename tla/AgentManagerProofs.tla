------------------------- MODULE AgentManagerProofs -------------------------
(* Proofs about AgentManager, for every set of questions, sources and      *)
(* routings, every timeout and every number of threads.                    *)
EXTENDS AgentManager, FiniteSetTheorems, TLAPS

-----------------------------------------------------------------------------
(* Types *)

\* Handing jobs to the executor keeps a queue of jobs.
LEMMA SubmitTyped ==
    ASSUME queue \in Seq(Jobs), NEW a \in Agents, NEW w \in Seq(Work), Submit(a, w)
    PROVE  queue' \in Seq(Jobs)
<1>1. [i \in 1..Len(w) |-> <<a, w[i]>>] \in Seq(Jobs)
  BY DEF Jobs
<1> QED
  BY <1>1 DEF Submit

\* An agent that moves on, or ends, stays well formed.
LEMMA MovesTyped ==
    ASSUME agent \in [Agents -> Agent], NEW a \in Agents
    PROVE  /\ \A stage \in Stages, pending \in SUBSET Work :
                 Goes(a, stage, pending) => agent' \in [Agents -> Agent]
           /\ \A outcome \in Outcomes :
                 Finishes(a, outcome) => agent' \in [Agents -> Agent]
<1>1. ASSUME NEW stage \in Stages, NEW pending \in SUBSET Work,
             Goes(a, stage, pending)
      PROVE  agent' \in [Agents -> Agent]
  BY <1>1 DEF Goes, Agent
<1>2. ASSUME NEW outcome \in Outcomes, Finishes(a, outcome)
      PROVE  agent' \in [Agents -> Agent]
  <2> DEFINE ended == [stage |-> "done", left |-> Timeout, pending |-> {},
                       found |-> agent[a].found, outcome |-> outcome]
  <2>1. agent[a].found \in {"empty", "chunks"}
    BY DEF Agent
  <2>2. ended \in Agent
    BY <2>1, TimeoutPositive DEF Agent, Stages
  <2> QED
    BY <1>2, <2>2 DEF Finishes
<1> QED
  BY <1>1, <1>2

\* Entering and leaving a blocking call.
LEMMA LoopTyped ==
    ASSUME NEW q \in Questions
    PROVE  /\ \A call \in Calls : LoopCalls(call, q) =>
                 loop' \in [call: Calls, of: Questions \cup {NoQuestion}, left: Durations]
           /\ LoopIdle \in [call: Calls, of: Questions \cup {NoQuestion}, left: Durations]
  BY MaxBlockNat DEF LoopCalls, LoopIdle, Calls, Durations

LEMMA AnswerTyped ==
    ASSUME ask \in [Questions -> Ask], NEW q \in Questions,
           NEW answer \in Answers, Answer(q, answer)
    PROVE  ask' \in [Questions -> Ask]
  BY DEF Answer, Ask, Phases

LEMMA AskStepTyped ==
    ASSUME TypeOK, NEW q \in Questions, AskStep(q)
    PROVE  TypeOK'
<1> USE DEF TypeOK
<1>1. CASE Route(q)
  BY <1>1, LoopTyped DEF Route, Ask, Phases, Calls
<1>2. CASE Decline(q)
  BY <1>2, LoopTyped, AnswerTyped DEF Decline, Answers
<1>3. ASSUME NEW routing \in Routings, Launch(q, routing)
      PROVE  TypeOK'
  <2>1. routing.mode \in Modes
    BY RoutingsWellFormed
  <2>2. Fresh("start") \in Agent
    BY TimeoutPositive DEF Fresh, Agent, Stages, Outcomes
  <2>3. agent' \in [Agents -> Agent]
    BY <1>3, <2>2 DEF Launch
  <2>4. ask' \in [Questions -> Ask]
    BY <1>3, <2>1 DEF Launch, Ask, Phases
  <2> QED
    BY <1>3, <2>3, <2>4, LoopTyped DEF Launch
<1>4. ASSUME NEW routing \in Routings, NoAgent(q, routing)
      PROVE  TypeOK'
  BY <1>4, LoopTyped, AnswerTyped DEF NoAgent, Answers
<1>5. CASE FuseNothing(q)
  BY <1>5, AnswerTyped DEF FuseNothing, Answers
<1>6. CASE Fuse(q)
  BY <1>6, LoopTyped DEF Fuse, Ask, Phases, Calls
<1>7. CASE Generate(q)
  BY <1>7, LoopTyped, AnswerTyped DEF Generate, Answers
<1> QED
  BY <1>1, <1>2, <1>3, <1>4, <1>5, <1>6, <1>7 DEF AskStep

LEMMA AgentStepTyped ==
    ASSUME TypeOK, NEW a \in Agents, AgentStep(a)
    PROVE  TypeOK'
<1> USE DEF TypeOK
<1>a. a[1] \in Questions
  BY DEF Agents
<1>1. CASE Start(a)
  <2>1. \A w \in {"by_id", "embed"} : w \in Stages /\ {w} \in SUBSET Work
                                      /\ <<w>> \in Seq(Work)
    BY DEF Stages, Work
  <2>2. PICK w \in {"by_id", "embed"} : Goes(a, w, {w}) /\ Submit(a, <<w>>)
    BY <1>1 DEF Start
  <2> QED
    BY <1>1, <2>1, <2>2, MovesTyped, SubmitTyped DEF Start
<1>2. CASE Search(a)
  <2>1. /\ <<"vector", "bm25">> \in Seq(Work)
        /\ <<"vector", "bm25", "metadata">> \in Seq(Work)
    BY DEF Work
  <2>2. PICK w \in Seq(Work) :
           /\ Goes(a, "search", {w[i] : i \in DOMAIN w})
           /\ Submit(a, w)
    BY <1>2, <2>1 DEF Search
  <2>3. {w[i] : i \in DOMAIN w} \in SUBSET Work
    OBVIOUS
  <2> QED
    BY <1>2, <2>2, <2>3, MovesTyped, SubmitTyped DEF Search, Stages
<1>3. CASE Collect(a) \/ LookedUp(a) \/ Raise(a) \/ SqlWithoutSchema(a)
           \/ SqlResult(a) \/ Expire(a)
  <2>1. agent[a].found \in Outcomes
    BY DEF Agent, Outcomes
  <2>2. \E outcome \in Outcomes : Finishes(a, outcome)
    BY <1>3, <2>1 DEF Collect, Filtered, LookedUp, Raise, SqlWithoutSchema,
                      SqlResult, Expire, Outcomes
  <2> QED
    BY <1>3, <2>2, MovesTyped DEF Collect, LookedUp, Raise, SqlWithoutSchema,
                                  SqlResult, Expire
<1>4. CASE StartSql(a)
  BY <1>4, MovesTyped DEF StartSql, Stages
<1>5. CASE GenerateSql(a)
  BY <1>5, <1>a, LoopTyped DEF GenerateSql, Calls
<1>6. CASE SqlGenerated(a)
  BY <1>6, <1>a, MovesTyped, LoopTyped DEF SqlGenerated, Stages, Outcomes
<1> QED
  BY <1>1, <1>2, <1>3, <1>4, <1>5, <1>6 DEF AgentStep

LEMMA OutsideTyped ==
    ASSUME TypeOK, Outside
    PROVE  TypeOK'
<1> USE DEF TypeOK
<1>1. ASSUME NEW q \in Questions, Arrive(q) PROVE TypeOK'
  BY <1>1 DEF Arrive, Ask, Phases
<1>2. CASE TakeJob
  <2>1. queue' \in Seq(Jobs) /\ Head(queue) \in Jobs
    BY <1>2 DEF TakeJob
  <2>2. CASE threads' = threads
    BY <1>2, <2>1, <2>2 DEF TakeJob
  <2>3. CASE threads' = threads \cup {Head(queue)}
    <3>1. /\ IsFiniteSet(threads')
          /\ Cardinality(threads') = IF Head(queue) \in threads
                                     THEN Cardinality(threads) ELSE Cardinality(threads) + 1
      BY <2>3, FS_AddElement, Zenon
    <3>2. Cardinality(threads) < Workers /\ Cardinality(threads) \in Nat
      BY <1>2, FS_CardinalityType DEF TakeJob
    <3>3. Cardinality(threads') <= Workers
      BY <3>1, <3>2, WorkersPositive
    <3> QED
      BY <1>2, <2>1, <2>3, <3>1, <3>3 DEF TakeJob
  <2> QED
    BY <1>2, <2>2, <2>3 DEF TakeJob
<1>3. ASSUME NEW a \in Agents, NEW work \in Work, EndJob(a, work)
      PROVE  TypeOK'
  <2>1. /\ IsFiniteSet(threads')
        /\ Cardinality(threads') = IF <<a, work>> \in threads
                                   THEN Cardinality(threads) - 1 ELSE Cardinality(threads)
    BY <1>3, FS_RemoveElement, Zenon DEF EndJob
  <2>3. Cardinality(threads) \in Nat
    BY FS_CardinalityType
  <2>4. Cardinality(threads') <= Workers
    BY <2>1, <2>3, WorkersPositive
  <2>2. agent' \in [Agents -> Agent]
    <3>1. PICK found \in {agent[a].found, "chunks"} :
             agent' = [agent EXCEPT ![a].pending = @ \ {work}, ![a].found = found]
      BY <1>3 DEF EndJob
    <3>2. found \in {"empty", "chunks"}
      BY DEF Agent
    <3> QED
      BY <3>1, <3>2 DEF Agent
  <2> QED
    BY <1>3, <2>1, <2>2, <2>4 DEF EndJob
<1>4. ASSUME NEW a \in Agents, DatabaseReply(a) PROVE TypeOK'
  BY <1>4, MovesTyped DEF DatabaseReply, Stages
<1> QED
  BY <1>1, <1>2, <1>3, <1>4 DEF Outside

LEMMA TickTyped ==
    ASSUME TypeOK, Tick
    PROVE  TypeOK'
<1> USE DEF TypeOK
<1>1. \A n \in Nat : Countdown(n) \in Nat /\ Countdown(n) <= n
  BY DEF Countdown
<1>2. ask' \in [Questions -> Ask]
  <2>1. ASSUME NEW q \in Questions
        PROVE  [ask[q] EXCEPT !.waited = @ + (IF Idle THEN 1 ELSE 0)] \in Ask
    BY DEF Ask
  <2> QED
    BY <2>1 DEF Tick
<1>3. agent' \in [Agents -> Agent]
  <2>1. ASSUME NEW a \in Agents
        PROVE  [agent[a] EXCEPT !.left = Countdown(@)] \in Agent
    <3>1. agent[a] \in Agent /\ agent[a].left \in 0..Timeout
      BY DEF Agent
    <3>2. Countdown(agent[a].left) \in 0..Timeout
      BY <1>1, <3>1, TimeoutPositive
    <3> QED
      BY <3>1, <3>2 DEF Agent
  <2> QED
    BY <2>1 DEF Tick
<1>4. loop' \in [call: Calls, of: Questions \cup {NoQuestion}, left: Durations]
  BY <1>1, MaxBlockNat DEF Tick, Durations
<1> QED
  BY <1>2, <1>3, <1>4 DEF Tick

LEMMA InitTyped == Init => TypeOK
  BY TimeoutPositive, MaxBlockNat, WorkersPositive, FS_EmptySet
     DEF Init, TypeOK, Fresh, LoopIdle, Ask, Agent, Phases, Modes, Answers, Stages,
         Outcomes, Calls, Durations

LEMMA NextTyped == TypeOK /\ [Next]_vars => TypeOK'
<1>1. ASSUME TypeOK, UNCHANGED vars PROVE TypeOK'
  BY <1>1 DEF vars, TypeOK
<1> QED
  BY <1>1, AskStepTyped, AgentStepTyped, OutsideTyped, TickTyped DEF Next

\* TypeOK: questions, agents, executor and loop stay well formed, and the executor
\* (asyncio.to_thread) never runs more jobs than it has threads.
THEOREM TypeInvariant == Spec => []TypeOK
  BY InitTyped, NextTyped, PTL DEF Spec

-----------------------------------------------------------------------------
(* No agent takes longer than its timeout *)

\* What the timers and the clock of a question have to do with one another.
ClocksAgree ==
    /\ \A q \in Questions :
          ask[q].phase \in {"new", "asked", "routing"} => ask[q].waited = 0
    /\ loop.call = "route" => loop.of \in Questions /\ ask[loop.of].phase = "routing"
    /\ \A a \in Agents :
          /\ agent[a].stage = "start" => ask[a[1]].waited = 0
          /\ Timed(a) => ask[a[1]].waited + agent[a].left <= Timeout

Inv == TypeOK /\ ClocksAgree /\ AgentsEndInTime

\* An agent that moves on or ends leaves the clocks in agreement.
LEMMA MovesKeepClocks ==
    ASSUME Inv, NEW a \in Agents, agent[a].stage # "off",
           NEW stage \in Stages \ {"off", "start"}, NEW pending \in SUBSET Work,
           NEW outcome \in Outcomes,
           Goes(a, stage, pending) \/ Finishes(a, outcome), UNCHANGED ask,
           agent[a].stage # "done",
           loop' = loop \/ loop'.call # "route"
    PROVE  ClocksAgree' /\ AgentsEndInTime'
<1> USE DEF Inv, TypeOK, AgentsEndInTime
<1>1. a[1] \in Questions /\ agent[a] \in Agent /\ ask[a[1]] \in Ask
  BY DEF Agents
<1>2. \A b \in Agents \ {a} : agent'[b] = agent[b]
  BY DEF Goes, Finishes
<1>3. /\ agent'[a].stage \notin {"off", "start"}
      /\ agent'[a].stage # "done" => agent'[a].left = agent[a].left
  BY DEF Goes, Finishes, Agent
<1>4. ask[a[1]].waited + agent[a].left <= Timeout
  BY <1>1, TimeoutPositive DEF ClocksAgree, Timed, Agent, Ask
<1>5. ASSUME NEW b \in Agents
      PROVE  /\ agent'[b].stage = "start" => ask'[b[1]].waited = 0
             /\ Timed(b)' => ask'[b[1]].waited + agent'[b].left <= Timeout
  <2>1. CASE b = a
    BY <1>3, <1>4, <2>1 DEF Timed
  <2>2. CASE b # a
    BY <1>2, <2>2 DEF ClocksAgree, Timed
  <2> QED
    BY <2>1, <2>2
<1> QED
  BY <1>5 DEF ClocksAgree

LEMMA AskStepClocks ==
    ASSUME Inv, NEW q \in Questions, AskStep(q)
    PROVE  ClocksAgree' /\ AgentsEndInTime'
<1> USE DEF Inv, TypeOK, Timed, Agents
<1> DEFINE KeptFor(p) ==
              /\ ask'[p].waited = ask[p].waited
              /\ ask'[p].phase \in {"new", "asked", "routing"}
                    => ask[p].phase \in {"new", "asked", "routing"}
<1>1. \A p \in Questions : KeptFor(p)
  <2>1. CASE Route(q)
    BY <2>1 DEF Route, Ask
  <2>2. ASSUME NEW routing \in Routings, Launch(q, routing)
        PROVE  \A p \in Questions : KeptFor(p)
    BY <2>2 DEF Launch, Ask
  <2>3. ASSUME NEW answer \in Answers, Answer(q, answer)
        PROVE  \A p \in Questions : KeptFor(p)
    BY <2>3 DEF Answer, Ask
  <2>4. CASE Fuse(q)
    BY <2>4 DEF Fuse, Ask
  <2>5. \/ Route(q) \/ Fuse(q)
        \/ \E routing \in Routings : Launch(q, routing)
        \/ \E answer \in Answers : Answer(q, answer)
    BY DEF AskStep, Decline, NoAgent, FuseNothing, Generate, Answers
  <2> QED
    BY <2>1, <2>2, <2>3, <2>4, <2>5
<1>2. AgentsEndInTime'
  BY <1>1 DEF AgentsEndInTime
<1>3. \/ UNCHANGED agent
      \/ \E routing \in Routings : Launch(q, routing)
  BY DEF AskStep, Route, Decline, NoAgent, FuseNothing, Fuse, Generate
<1>4. ASSUME NEW a \in Agents
      PROVE  /\ agent'[a].stage = "start" => ask'[a[1]].waited = 0
             /\ Timed(a)' => ask'[a[1]].waited + agent'[a].left <= Timeout
  <2>1. CASE UNCHANGED agent
    BY <1>1, <2>1 DEF ClocksAgree
  <2>2. ASSUME NEW routing \in Routings, Launch(q, routing),
               a[1] = q, a[2] \in routing.sources
        PROVE  agent'[a].stage = "start" /\ ask[q].waited = 0
    BY <2>2 DEF Launch, Fresh, Returns, ClocksAgree
  <2>3. ASSUME NEW routing \in Routings, Launch(q, routing),
               ~(a[1] = q /\ a[2] \in routing.sources)
        PROVE  agent'[a] = agent[a]
    BY <2>3 DEF Launch
  <2> QED
    BY <1>1, <1>3, <2>1, <2>2, <2>3 DEF ClocksAgree
<1>5. ASSUME NEW p \in Questions, ask'[p].phase \in {"new", "asked", "routing"}
      PROVE  ask'[p].waited = 0
  BY <1>1, <1>5 DEF ClocksAgree
<1>6. loop'.call = "route" => loop'.of \in Questions /\ ask'[loop'.of].phase = "routing"
  <2>1. CASE Route(q)
    BY <2>1 DEF Route, LoopCalls, Ask
  <2>2. CASE ~Route(q)
    <3>1. loop'.call # "route"
      BY <2>2 DEF AskStep, Decline, Launch, NoAgent, FuseNothing, Fuse, Generate,
                  LoopCalls, LoopIdle, Idle
    <3> QED
      BY <3>1
  <2> QED
    BY <2>1, <2>2
<1> QED
  BY <1>2, <1>4, <1>5, <1>6 DEF ClocksAgree

LEMMA AgentStepClocks ==
    ASSUME Inv, NEW a \in Agents, AgentStep(a)
    PROVE  ClocksAgree' /\ AgentsEndInTime'
<1> USE DEF Inv, TypeOK
<1>1. agent[a].stage \notin {"off", "done"} /\ UNCHANGED ask
  BY DEF AgentStep, Start, Search, Collect, LookedUp, Raise, StartSql,
         SqlWithoutSchema, GenerateSql, SqlGenerated, SqlResult, Expire, Returned,
         Timed
<1>2. loop' = loop \/ loop'.call # "route"
  BY DEF AgentStep, Start, Search, Collect, LookedUp, Raise, StartSql,
         SqlWithoutSchema, GenerateSql, SqlGenerated, SqlResult, Expire, LoopCalls,
         LoopIdle
<1>3. CASE GenerateSql(a)
  BY <1>2, <1>3 DEF GenerateSql, LoopCalls, ClocksAgree, AgentsEndInTime, Timed
<1>4. CASE ~GenerateSql(a)
  <2>1. \/ \E stage \in Stages \ {"off", "start"}, pending \in SUBSET Work :
               Goes(a, stage, pending)
        \/ \E outcome \in Outcomes : Finishes(a, outcome)
    <3>1. CASE Start(a)
      BY <3>1 DEF Start, Stages, Work
    <3>2. CASE Search(a)
      BY <3>2 DEF Search, Stages, Work
    <3>4. agent[a].found \in Outcomes
      BY DEF Agent, Outcomes
    <3>3. CASE ~Start(a) /\ ~Search(a)
      BY <1>4, <3>3, <3>4 DEF AgentStep, Collect, Filtered, LookedUp, Raise, StartSql,
         SqlWithoutSchema, SqlGenerated, SqlResult, Expire, Stages, Outcomes
    <3> QED
      BY <3>1, <3>2, <3>3
  <2>2. /\ "empty" \in Outcomes
        /\ "done" \in Stages \ {"off", "start"}
        /\ {} \in SUBSET Work
    BY DEF Stages, Outcomes
  <2> QED
    BY <1>1, <1>2, <2>1, <2>2, MovesKeepClocks
<1> QED
  BY <1>3, <1>4

LEMMA OutsideClocks ==
    ASSUME Inv, Outside
    PROVE  ClocksAgree' /\ AgentsEndInTime'
<1> USE DEF Inv, TypeOK, Timed
<1>1. ASSUME NEW q \in Questions, Arrive(q)
      PROVE  ClocksAgree' /\ AgentsEndInTime'
  BY <1>1 DEF Arrive, ClocksAgree, AgentsEndInTime, Ask, Agents
<1>2. CASE TakeJob
  BY <1>2 DEF TakeJob, ClocksAgree, AgentsEndInTime
<1>3. ASSUME NEW a \in Agents, NEW work \in Work, EndJob(a, work)
      PROVE  ClocksAgree' /\ AgentsEndInTime'
  <2>1. \A b \in Agents : /\ agent'[b].stage = agent[b].stage
                          /\ agent'[b].left = agent[b].left
    BY <1>3 DEF EndJob, Agent
  <2> QED
    BY <1>3, <2>1 DEF EndJob, ClocksAgree, AgentsEndInTime
<1>4. ASSUME NEW a \in Agents, DatabaseReply(a)
      PROVE  ClocksAgree' /\ AgentsEndInTime'
  BY <1>4, MovesKeepClocks DEF DatabaseReply, Stages, Outcomes
<1> QED
  BY <1>1, <1>2, <1>3, <1>4 DEF Outside

LEMMA TickClocks ==
    ASSUME Inv, Tick
    PROVE  ClocksAgree' /\ AgentsEndInTime'
<1> USE DEF Inv, TypeOK
<1>1. \A q \in Questions :
         /\ ask[q] \in Ask /\ ask[q].waited \in Nat
         /\ ask'[q].phase = ask[q].phase
         /\ ask[q].phase # "agents" \/ ~Idle => ask'[q].waited = ask[q].waited
         /\ ask[q].phase = "agents" /\ Idle => ask'[q].waited = ask[q].waited + 1
  BY DEF Tick, Ask
<1>2. \A a \in Agents :
         /\ a[1] \in Questions /\ agent[a].left \in 0..Timeout
         /\ agent'[a].stage = agent[a].stage
         /\ Timed(a) => agent'[a].left = Countdown(agent[a].left)
  BY DEF Tick, Agent, Agents
<1>3. ASSUME NEW a \in Agents, Timed(a), Idle
      PROVE  agent[a].left > 0 /\ agent'[a].left = agent[a].left - 1
  <2>1. ~AgentReady(a)
    BY <1>3 DEF Tick, TimePasses
  <2>2. agent[a].left # 0
    BY <1>3, <2>1 DEF AgentReady
  <2> QED
    BY <1>2, <1>3, <2>2, TimeoutPositive DEF Countdown
<1>4. ASSUME NEW a \in Agents, Timed(a)
      PROVE  ask'[a[1]].waited + agent'[a].left <= Timeout
  <2>1. ask[a[1]].waited + agent[a].left <= Timeout
    BY <1>4 DEF ClocksAgree
  <2>2. CASE Idle
    BY <1>1, <1>2, <1>3, <1>4, <2>1, <2>2, TimeoutPositive
  <2>3. CASE ~Idle
    <3>1. agent'[a].left <= agent[a].left /\ agent'[a].left \in Nat
      BY <1>2, <1>4, TimeoutPositive DEF Countdown
    <3> QED
      BY <1>1, <1>2, <2>1, <2>3, <3>1, TimeoutPositive
  <2> QED
    BY <2>2, <2>3
<1>5. ASSUME NEW a \in Agents, agent[a].stage = "start"
      PROVE  ask'[a[1]].waited = 0
  BY <1>1, <1>2, <1>5 DEF ClocksAgree, Tick, TimePasses, AgentReady
<1>6. ASSUME NEW q \in Questions
      PROVE  ask'[q].waited <= Timeout
  <2>1. CASE ask[q].phase = "agents" /\ Idle
    <3>1. PICK a \in Launched(q) : agent[a].stage # "done"
      BY <2>1 DEF Tick, TimePasses, QuestionReady
    <3>2. a \in Agents /\ a[1] = q /\ Timed(a)
      BY <2>1, <3>1 DEF Launched, Tick, TimePasses, AgentReady, Timed
    <3> QED
      BY <1>1, <1>2, <1>3, <1>4, <2>1, <3>2, TimeoutPositive
  <2>2. CASE ~(ask[q].phase = "agents" /\ Idle)
    BY <1>1, <2>2 DEF AgentsEndInTime
  <2> QED
    BY <2>1, <2>2
<1>7. loop'.call = loop.call /\ loop'.of = loop.of
  BY DEF Tick
<1> QED
  BY <1>1, <1>2, <1>4, <1>5, <1>6, <1>7 DEF ClocksAgree, AgentsEndInTime, Timed

\* AgentManager.run: whatever threads, the database and the LLM do, the agents of a
\* question take one timeout at most, the time the loop was blocked left out.
THEOREM AgentsAlwaysEndInTime == Spec => []AgentsEndInTime
<1>1. Init => Inv
  BY InitTyped, TimeoutPositive
     DEF Init, Inv, ClocksAgree, AgentsEndInTime, Fresh, LoopIdle, Timed, Agents
<1>2. Inv /\ [Next]_vars => Inv'
  <2>1. ASSUME Inv, UNCHANGED vars PROVE Inv'
    BY <2>1 DEF vars, Inv, TypeOK, ClocksAgree, AgentsEndInTime, Timed
  <2> QED
    BY <2>1, NextTyped, AskStepClocks, AgentStepClocks, OutsideClocks, TickClocks
       DEF Next, Inv
<1>3. Inv => AgentsEndInTime
  BY DEF Inv
<1> QED
  BY <1>1, <1>2, <1>3, PTL DEF Spec

-----------------------------------------------------------------------------
(* What was found is not lost to failures of others *)

\* Agents are at work while their question waits for them, and only then.  What an
\* agent found, it gave back when it ended, but for filters and for lack of time; it
\* found nothing before its search or its lookup.
AgentAgrees(a) ==
    /\ ask[a[1]].phase \in {"new", "asked", "routing"} => agent[a].stage = "off"
    /\ ask[a[1]].phase \in {"generating", "replied"}
          => agent[a].stage \in {"off", "done"}
    /\ agent[a].pending # {} => agent[a].stage \in {"embed", "by_id", "search"}
    /\ agent[a].stage = "embed" => agent[a].pending \subseteq {"embed"}
    /\ agent[a].found = "chunks" => agent[a].stage \in {"by_id", "search", "done"}
    /\ agent[a].found = "chunks" /\ agent[a].stage = "done"
          => \/ agent[a].outcome \in {"chunks", "timeout"}
             \/ ask[a[1]].mode = "filtered"

LoopAgrees ==
    /\ loop.call = "route" => loop.of \in Questions /\ ask[loop.of].phase = "routing"
    /\ loop.call = "answer"
          => loop.of \in Questions /\ ask[loop.of].phase = "generating"

WorkAgrees ==
    /\ LoopAgrees
    /\ \A q \in Questions : ask[q].phase # "replied" => ask[q].answer = "none"
    /\ \A a \in Agents : AgentAgrees(a)

FoundInv == TypeOK /\ WorkAgrees /\ FoundIsNotNothing

\* The property, agent by agent.
AgentHeard(a) ==
    agent[a].stage # "off" /\ agent[a].found = "chunks" /\ ask[a[1]].answer = "nothing"
        => ask[a[1]].mode = "filtered" \/ agent[a].outcome = "timeout"

LEMMA HeardAgentByAgent ==
    /\ FoundIsNotNothing <=> \A a \in Agents : AgentHeard(a)
    /\ FoundIsNotNothing' <=> \A a \in Agents : AgentHeard(a)'
<1>1. \A a \in Agents : a[1] \in Questions
  BY DEF Agents
<1> QED
  BY <1>1 DEF FoundIsNotNothing, Launched, AgentHeard

\* A step that moves one agent at work leaves the others, and every reply, alone.
LEMMA WorkLeavesReplies ==
    ASSUME FoundInv, UNCHANGED ask, NEW a \in Agents,
           \A b \in Agents \ {a} : agent'[b] = agent[b],
           AgentAgrees(a)', agent[a].stage \notin {"off", "done"},
           loop' = loop \/ loop'.call \notin {"route", "answer"}
    PROVE  WorkAgrees' /\ FoundIsNotNothing'
<1> USE DEF FoundInv
<1>1. ASSUME NEW b \in Agents, b # a
      PROVE  AgentAgrees(b)' /\ AgentHeard(b)'
  BY <1>1, HeardAgentByAgent DEF WorkAgrees, AgentAgrees, AgentHeard
<1>2. AgentHeard(a)'
  BY DEF WorkAgrees, AgentAgrees, AgentHeard, Agents
<1>3. LoopAgrees'
  BY DEF WorkAgrees, LoopAgrees
<1> QED
  BY <1>1, <1>2, <1>3, HeardAgentByAgent DEF WorkAgrees

\* So does a step that changes no phase, reply, agent or call.
LEMMA SameWork ==
    ASSUME FoundInv,
           \A q \in Questions : /\ ask'[q].phase = ask[q].phase
                                /\ ask'[q].mode = ask[q].mode
                                /\ ask'[q].answer = ask[q].answer,
           \A a \in Agents : /\ agent'[a].stage = agent[a].stage
                             /\ agent'[a].pending = agent[a].pending
                             /\ agent'[a].found = agent[a].found
                             /\ agent'[a].outcome = agent[a].outcome,
           loop'.call \in {"route", "answer"}
              => loop'.call = loop.call /\ loop'.of = loop.of
    PROVE  WorkAgrees' /\ FoundIsNotNothing'
<1> USE DEF FoundInv
<1>1. \A a \in Agents : a[1] \in Questions
  BY DEF Agents
<1>2. \A a \in Agents : AgentAgrees(a)' /\ AgentHeard(a)'
  BY <1>1, HeardAgentByAgent DEF WorkAgrees, AgentAgrees, AgentHeard
<1>3. LoopAgrees'
  BY DEF WorkAgrees, LoopAgrees
<1> QED
  BY <1>2, <1>3, HeardAgentByAgent DEF WorkAgrees

\* A step of question q that changes no agent.
LEMMA AskMoves ==
    ASSUME FoundInv, NEW q \in Questions, UNCHANGED agent,
           \A p \in Questions \ {q} : ask'[p] = ask[p],
           ask[q].phase \notin {"generating", "replied"} \/ ask'[q].phase = "replied",
           ask'[q].mode = ask[q].mode,
           ask'[q].phase # "replied" => ask'[q].answer = "none",
           ask'[q].phase \in {"new", "asked", "routing"}
              => ask[q].phase \in {"new", "asked", "routing"},
           ask'[q].phase \in {"generating", "replied"}
              => \A a \in Agents : a[1] = q => agent[a].stage \in {"off", "done"},
           ask'[q].answer = "nothing" => Usable(q) = {},
           LoopAgrees'
    PROVE  WorkAgrees' /\ FoundIsNotNothing'
<1> USE DEF FoundInv
<1>1. ASSUME NEW a \in Agents
      PROVE  AgentAgrees(a)' /\ AgentHeard(a)'
  <2>1. a[1] \in Questions /\ AgentAgrees(a) /\ AgentHeard(a)
    BY HeardAgentByAgent DEF Agents, WorkAgrees
  <2>2. CASE a[1] = q
    <3>1. AgentAgrees(a)'
      BY <2>1, <2>2 DEF AgentAgrees
    <3>2. ASSUME ask'[q].answer = "nothing", agent[a].stage # "off"
          PROVE  agent[a].stage = "done" /\ agent[a].outcome # "chunks"
      <4>1. ask'[q].phase = "replied"
        BY <3>2
      <4> QED
        BY <2>2, <3>2, <4>1 DEF Usable, Launched
    <3> QED
      BY <2>1, <2>2, <3>1, <3>2 DEF AgentAgrees, AgentHeard
  <2>3. CASE a[1] # q
    BY <2>1, <2>3 DEF AgentAgrees, AgentHeard
  <2> QED
    BY <2>2, <2>3
<1> QED
  BY <1>1, HeardAgentByAgent DEF WorkAgrees

LEMMA AskStepFound ==
    ASSUME FoundInv, NEW q \in Questions, AskStep(q)
    PROVE  WorkAgrees' /\ FoundIsNotNothing'
<1> USE DEF FoundInv, TypeOK
<1>1. \A a \in Agents : a[1] \in Questions /\ AgentAgrees(a)
  BY DEF Agents, WorkAgrees
<1>2. /\ ask[q].phase \in {"asked", "routing", "agents", "generating"}
      /\ ask[q].answer = "none"
      /\ \A p \in Questions \ {q} : ask'[p] = ask[p]
  BY DEF AskStep, Route, Decline, Launch, NoAgent, FuseNothing, Fuse, Generate,
         Answer, Returns, Gathered, WorkAgrees, LoopAgrees
<1>3. CASE Route(q)
  <2>1. ask'[q].phase = "routing" /\ ask'[q].mode = ask[q].mode
        /\ ask'[q].answer = ask[q].answer /\ ask[q].phase = "asked"
    BY <1>3 DEF Route, Ask
  <2>2. LoopAgrees'
    BY <1>3, <2>1 DEF Route, LoopCalls, LoopAgrees
  <2> QED
    BY <1>2, <1>3, <2>1, <2>2, AskMoves DEF Route
<1>4. CASE Fuse(q)
  <2>1. ask'[q].phase = "generating" /\ ask'[q].mode = ask[q].mode
        /\ ask'[q].answer = ask[q].answer
    BY <1>4 DEF Fuse, Ask
  <2>2. LoopAgrees'
    BY <1>4, <2>1 DEF Fuse, LoopCalls, LoopAgrees
  <2>3. \A a \in Agents : a[1] = q => agent[a].stage \in {"off", "done"}
    BY <1>4 DEF Fuse, Gathered, Launched
  <2>4. ask[q].phase = "agents"
    BY <1>4 DEF Fuse, Gathered
  <2> QED
    BY <1>2, <1>4, <2>1, <2>2, <2>3, <2>4, AskMoves DEF Fuse
<1>5. ASSUME NEW answer \in Answers, Answer(q, answer), UNCHANGED agent,
             \A a \in Agents : a[1] = q => agent[a].stage \in {"off", "done"},
             answer = "nothing" => Usable(q) = {},
             loop'.call = "none"
      PROVE  WorkAgrees' /\ FoundIsNotNothing'
  <2>1. ask'[q].phase = "replied" /\ ask'[q].answer = answer
        /\ ask'[q].mode = ask[q].mode
    BY <1>5 DEF Answer, Ask
  <2>2. LoopAgrees'
    BY <1>5 DEF LoopAgrees
  <2> QED
    BY <1>2, <1>5, <2>1, <2>2, AskMoves
<1>6. CASE Decline(q) \/ Generate(q)
  <2>1. ask[q].phase \in {"routing", "generating"}
    BY <1>6 DEF Decline, Generate, Returns, WorkAgrees, LoopAgrees
  <2>2. \A a \in Agents : a[1] = q => agent[a].stage \in {"off", "done"}
    BY <1>1, <2>1 DEF AgentAgrees
  <2> QED
    BY <1>5, <1>6, <2>2 DEF Decline, Generate, Answers, LoopIdle
<1>7. ASSUME NEW routing \in Routings, NoAgent(q, routing)
      PROVE  WorkAgrees' /\ FoundIsNotNothing'
  <2>1. ask[q].phase = "routing"
    BY <1>7 DEF NoAgent, Returns, WorkAgrees, LoopAgrees
  <2>2. \A a \in Agents : a[1] = q => agent[a].stage = "off"
    BY <1>1, <2>1 DEF AgentAgrees
  <2>3. Usable(q) = {}
    BY <2>2 DEF Usable, Launched
  <2> QED
    BY <1>5, <1>7, <2>2, <2>3 DEF NoAgent, Answers, LoopIdle
<1>8. CASE FuseNothing(q)
  <2>1. \A a \in Agents : a[1] = q => agent[a].stage \in {"off", "done"}
    BY <1>8 DEF FuseNothing, Gathered, Launched
  <2> QED
    BY <1>5, <1>8, <2>1 DEF FuseNothing, Answers, Idle
<1>9. ASSUME NEW routing \in Routings, Launch(q, routing)
      PROVE  WorkAgrees' /\ FoundIsNotNothing'
  <2>1. ask'[q].phase = "agents" /\ ask'[q].answer = "none" /\ ask[q].phase = "routing"
    BY <1>2, <1>9 DEF Launch, Returns, WorkAgrees, LoopAgrees, Ask
  <2>2. ASSUME NEW a \in Agents
        PROVE  AgentAgrees(a)' /\ AgentHeard(a)'
    <3>1. CASE a[1] # q
      <4>1. agent'[a] = agent[a] /\ ask'[a[1]] = ask[a[1]]
        BY <1>1, <1>2, <1>9, <3>1 DEF Launch
      <4> QED
        BY <1>1, <4>1, HeardAgentByAgent DEF AgentAgrees, AgentHeard
    <3>2. CASE a[1] = q /\ a[2] \in routing.sources
      <4>1. agent'[a] = Fresh("start")
        BY <1>9, <3>2 DEF Launch
      <4> QED
        BY <2>1, <3>2, <4>1 DEF AgentAgrees, AgentHeard, Fresh
    <3>3. CASE a[1] = q /\ a[2] \notin routing.sources
      <4>1. agent'[a] = agent[a] /\ agent[a].stage = "off"
        BY <1>1, <1>9, <2>1, <3>3 DEF Launch, AgentAgrees
      <4> QED
        BY <1>1, <2>1, <3>3, <4>1 DEF AgentAgrees, AgentHeard
    <3> QED
      BY <3>1, <3>2, <3>3
  <2>3. LoopAgrees'
    BY <1>9 DEF Launch, LoopIdle, LoopAgrees
  <2>4. \A p \in Questions : ask'[p].phase # "replied" => ask'[p].answer = "none"
    BY <1>2, <2>1 DEF WorkAgrees
  <2> QED
    BY <2>2, <2>3, <2>4, HeardAgentByAgent DEF WorkAgrees
<1> QED
  BY <1>3, <1>4, <1>6, <1>7, <1>8, <1>9 DEF AskStep

LEMMA AgentStepFound ==
    ASSUME FoundInv, NEW a \in Agents, AgentStep(a)
    PROVE  WorkAgrees' /\ FoundIsNotNothing'
<1> USE DEF FoundInv, TypeOK
<1>1. agent[a].stage \notin {"off", "done"} /\ UNCHANGED ask
  BY DEF AgentStep, Start, Search, Collect, LookedUp, Raise, StartSql,
         SqlWithoutSchema, GenerateSql, SqlGenerated, SqlResult, Expire, Returned,
         Timed
<1>2. loop' = loop \/ loop'.call \notin {"route", "answer"}
  BY DEF AgentStep, Start, Search, Collect, LookedUp, Raise, StartSql,
         SqlWithoutSchema, GenerateSql, SqlGenerated, SqlResult, Expire, LoopCalls,
         LoopIdle
<1>3. /\ AgentAgrees(a) /\ agent[a] \in Agent /\ a[1] \in Questions
      /\ agent[a].found \in {"empty", "chunks"}
      /\ ask[a[1]].phase = "agents"
  <2>1. agent[a].found \in {"empty", "chunks"}
    BY DEF Agent
  <2> QED
    BY <1>1, <2>1 DEF WorkAgrees, AgentAgrees, Agents, Ask, Phases
<1>4. ASSUME NEW outcome, Finishes(a, outcome),
             agent[a].found = "chunks" => outcome \in {"chunks", "timeout"}
                               \/ ask[a[1]].mode = "filtered"
      PROVE  AgentAgrees(a)' /\ \A b \in Agents \ {a} : agent'[b] = agent[b]
  <2>1. /\ agent'[a].stage = "done" /\ agent'[a].pending = {}
        /\ agent'[a].outcome = outcome /\ agent'[a].found = agent[a].found
    BY <1>3, <1>4 DEF Finishes, Agent
  <2>2. \A b \in Agents \ {a} : agent'[b] = agent[b]
    BY <1>4 DEF Finishes
  <2> QED
    BY <1>1, <1>3, <1>4, <2>1, <2>2 DEF AgentAgrees
<1>5. ASSUME NEW stage \in Stages \ {"off", "done"}, NEW pending \in SUBSET Work,
             Goes(a, stage, pending),
             pending # {} => stage \in {"embed", "by_id", "search"},
             stage = "embed" => pending \subseteq {"embed"},
             agent[a].found = "empty"
      PROVE  AgentAgrees(a)' /\ \A b \in Agents \ {a} : agent'[b] = agent[b]
  <2>1. /\ agent'[a].stage = stage /\ agent'[a].pending = pending
        /\ agent'[a].found = agent[a].found
    BY <1>3, <1>5 DEF Goes, Agent
  <2>2. \A b \in Agents \ {a} : agent'[b] = agent[b]
    BY <1>5 DEF Goes
  <2> QED
    BY <1>1, <1>3, <1>5, <2>1, <2>2 DEF AgentAgrees
<1> DEFINE Kept == AgentAgrees(a)' /\ \A b \in Agents \ {a} : agent'[b] = agent[b]
<1>6. CASE Start(a)
  <2>1. PICK w \in {"by_id", "embed"} : Goes(a, w, {w})
    BY <1>6 DEF Start
  <2>2. w \in Stages \ {"off", "done"} /\ {w} \in SUBSET Work
    BY DEF Stages, Work
  <2>3. agent[a].found = "empty"
    BY <1>3, <1>6 DEF Start, AgentAgrees
  <2>4. Kept
    BY <1>5, <2>1, <2>2, <2>3
  <2> QED
    BY <1>1, <1>2, <2>4, WorkLeavesReplies
<1>7. CASE Search(a)
  <2>1. PICK pending \in SUBSET Work : Goes(a, "search", pending)
    BY <1>7 DEF Search, Work
  <2>2. agent[a].found = "empty"
    BY <1>3, <1>7 DEF Search, Returned, AgentAgrees
  <2>3. "search" \in Stages \ {"off", "done"}
    BY DEF Stages
  <2>4. Kept
    BY <1>5, <2>1, <2>2, <2>3
  <2> QED
    BY <1>1, <1>2, <2>4, WorkLeavesReplies
<1>8. CASE StartSql(a)
  <2>1. Goes(a, "lookup", {}) /\ agent[a].found = "empty"
    BY <1>3, <1>8 DEF StartSql, AgentAgrees
  <2>2. "lookup" \in Stages \ {"off", "done"} /\ {} \in SUBSET Work
    BY DEF Stages
  <2>3. Kept
    BY <1>5, <2>1, <2>2
  <2> QED
    BY <1>1, <1>2, <2>3, WorkLeavesReplies
<1>9. CASE GenerateSql(a)
  <2>1. UNCHANGED agent /\ loop'.call = "sql"
    BY <1>9 DEF GenerateSql, LoopCalls
  <2> QED
    BY <1>1, <2>1, SameWork
<1>10. CASE SqlGenerated(a)
  <2>1. agent[a].found = "empty"
    BY <1>3, <1>10 DEF SqlGenerated, AgentAgrees
  <2>2. "log" \in Stages \ {"off", "done"} /\ {} \in SUBSET Work
    BY DEF Stages
  <2>3. Kept
    BY <1>4, <1>5, <1>10, <2>1, <2>2 DEF SqlGenerated
  <2> QED
    BY <1>1, <1>2, <2>3, WorkLeavesReplies
<1>11. CASE Collect(a) \/ LookedUp(a) \/ Raise(a) \/ SqlWithoutSchema(a)
            \/ SqlResult(a) \/ Expire(a)
  <2>1. Kept
    <3>1. CASE Collect(a)
      BY <1>4, <3>1 DEF Collect, Filtered
    <3>2. CASE LookedUp(a)
      BY <1>4, <3>2 DEF LookedUp
    <3>3. CASE Raise(a)
      BY <1>4, <3>3 DEF Raise
    <3>4. CASE SqlWithoutSchema(a) \/ SqlResult(a)
      <4>1. agent[a].found = "empty"
        BY <1>3, <3>4 DEF SqlWithoutSchema, SqlResult, Returned, AgentAgrees
      <4> QED
        BY <1>4, <3>4, <4>1 DEF SqlWithoutSchema, SqlResult
    <3>5. CASE Expire(a)
      BY <1>4, <3>5 DEF Expire
    <3> QED
      BY <1>11, <3>1, <3>2, <3>3, <3>4, <3>5
  <2> QED
    BY <1>1, <1>2, <2>1, WorkLeavesReplies
<1> QED
  BY <1>6, <1>7, <1>8, <1>9, <1>10, <1>11 DEF AgentStep

LEMMA OutsideFound ==
    ASSUME FoundInv, Outside
    PROVE  WorkAgrees' /\ FoundIsNotNothing'
<1> USE DEF FoundInv, TypeOK
<1>1. ASSUME NEW q \in Questions, Arrive(q)
      PROVE  WorkAgrees' /\ FoundIsNotNothing'
  <2>1. /\ ask'[q].phase = "asked" /\ ask'[q].answer = "none"
        /\ ask'[q].mode = ask[q].mode /\ ask[q].phase = "new"
        /\ \A p \in Questions \ {q} : ask'[p] = ask[p]
    BY <1>1 DEF Arrive, WorkAgrees, Ask
  <2>2. LoopAgrees'
    BY <1>1, <2>1 DEF Arrive, WorkAgrees, LoopAgrees
  <2> QED
    BY <1>1, <2>1, <2>2, AskMoves DEF Arrive
<1>2. CASE TakeJob
  BY <1>2, SameWork DEF TakeJob
<1>3. ASSUME NEW a \in Agents, NEW work \in Work, EndJob(a, work)
      PROVE  WorkAgrees' /\ FoundIsNotNothing'
  <2>1. PICK found \in {agent[a].found, "chunks"} :
           /\ found # agent[a].found => work # "embed" /\ work \in agent[a].pending
           /\ agent' = [agent EXCEPT ![a].pending = @ \ {work}, ![a].found = found]
    BY <1>3 DEF EndJob
  <2>2. /\ agent'[a].pending = agent[a].pending \ {work}
        /\ agent'[a].found = found
        /\ agent'[a].stage = agent[a].stage /\ agent'[a].outcome = agent[a].outcome
        /\ \A b \in Agents \ {a} : agent'[b] = agent[b]
    BY <2>1 DEF Agent
  <2>3. AgentAgrees(a)
    BY DEF WorkAgrees
  <2>4. CASE work \in agent[a].pending
    <3>1. /\ agent[a].stage \in {"embed", "by_id", "search"}
          /\ found # agent[a].found => agent[a].stage # "embed"
      BY <2>1, <2>3, <2>4 DEF AgentAgrees
    <3>2. AgentAgrees(a)'
      BY <1>3, <2>2, <2>3, <3>1 DEF AgentAgrees, EndJob
    <3> QED
      BY <1>3, <2>2, <3>1, <3>2, WorkLeavesReplies DEF EndJob
  <2>5. CASE work \notin agent[a].pending
    <3>1. agent'[a].pending = agent[a].pending /\ agent'[a].found = agent[a].found
      BY <2>1, <2>2, <2>5
    <3>2. \A b \in Agents : /\ agent'[b].stage = agent[b].stage
                            /\ agent'[b].pending = agent[b].pending
                            /\ agent'[b].found = agent[b].found
                            /\ agent'[b].outcome = agent[b].outcome
      BY <2>2, <3>1
    <3> QED
      BY <1>3, <3>2, SameWork DEF EndJob
  <2> QED
    BY <2>4, <2>5
<1>4. ASSUME NEW a \in Agents, DatabaseReply(a)
      PROVE  WorkAgrees' /\ FoundIsNotNothing'
  <2>1. PICK stage \in {"looked_up", "logged"} : Goes(a, stage, {})
    BY <1>4 DEF DatabaseReply
  <2>2. /\ agent'[a].stage = stage /\ agent'[a].pending = {}
        /\ agent'[a].found = agent[a].found
        /\ \A b \in Agents \ {a} : agent'[b] = agent[b]
    BY <2>1 DEF Goes, Agent
  <2>3. AgentAgrees(a) /\ agent[a].stage \in {"lookup", "log"} /\ UNCHANGED ask
    BY <1>4 DEF WorkAgrees, DatabaseReply
  <2>4. AgentAgrees(a)'
    BY <2>2, <2>3 DEF AgentAgrees
  <2> QED
    BY <1>4, <2>2, <2>3, <2>4, WorkLeavesReplies DEF DatabaseReply
<1> QED
  BY <1>1, <1>2, <1>3, <1>4 DEF Outside

LEMMA TickFound ==
    ASSUME FoundInv, Tick
    PROVE  WorkAgrees' /\ FoundIsNotNothing'
<1> USE DEF FoundInv, TypeOK
<1>1. \A q \in Questions : /\ ask'[q].phase = ask[q].phase
                           /\ ask'[q].mode = ask[q].mode
                           /\ ask'[q].answer = ask[q].answer
  BY DEF Tick, Ask
<1>2. \A a \in Agents : /\ agent'[a].stage = agent[a].stage
                        /\ agent'[a].pending = agent[a].pending
                        /\ agent'[a].found = agent[a].found
                        /\ agent'[a].outcome = agent[a].outcome
  BY DEF Tick, Agent
<1>3. loop'.call = loop.call /\ loop'.of = loop.of
  BY DEF Tick
<1> QED
  BY <1>1, <1>2, <1>3, SameWork

\* manager.py:6 and base_agent.py:145: what a retriever found is never answered by
\* "nothing" because another retriever or another agent failed or was late; only
\* filters and the timeout of the agent itself take it away.
THEOREM FoundIsAnswered == Spec => []FoundIsNotNothing
<1>1. Init => FoundInv
  <2>1. Init => WorkAgrees
    BY DEF Init, WorkAgrees, LoopAgrees, AgentAgrees, Fresh, LoopIdle, Agents
  <2>2. Init => FoundIsNotNothing
    BY DEF Init, FoundIsNotNothing
  <2> QED
    BY <2>1, <2>2, InitTyped DEF FoundInv
<1>2. FoundInv /\ [Next]_vars => FoundInv'
  <2>1. ASSUME FoundInv, UNCHANGED vars PROVE WorkAgrees' /\ FoundIsNotNothing'
    BY <2>1, SameWork DEF vars
  <2> QED
    BY <2>1, NextTyped, AskStepFound, AgentStepFound, OutsideFound, TickFound
       DEF Next, FoundInv
<1>3. FoundInv => FoundIsNotNothing
  BY DEF FoundInv
<1> QED
  BY <1>1, <1>2, <1>3, PTL DEF Spec
=============================================================================
