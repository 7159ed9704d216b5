----------------------------- MODULE RagPipeline -----------------------------
(***************************************************************************)
(* What one question becomes (app/rag): it is condensed with the history   *)
(* of the chat, routed by rules or by a language model, searched by one    *)
(* agent per source, and its chunks are fused, reranked, fitted into the   *)
(* context and cited.  The timing of the agents is that of AgentManager;   *)
(* here is what they find.  The models, the cross-encoder and the store    *)
(* may answer anything that the code accepts, within the bounds named in   *)
(* CONSTANTS.                                                              *)
(*                                                                         *)
(* A question is the set of its words; a chunk is a model value, with its  *)
(* attributes given by constants.  Within holds the pairs of texts one of  *)
(* which is inside the other, as "High" is inside "Highest".               *)
(***************************************************************************)
EXTENDS Integers, Sequences, FiniteSets, Ordering

CONSTANTS
    Words, Courtesy,    \* GREETING_WORDS
    LikeCourtesy,       \* words that have the letters of one, as "architecture" has "hi"
    SourceNames,        \* word -> source, SOURCE_NAME_KEYWORDS
    FilterWords, Nouns, Ambiguous,  \* hints of a filter, SQL_DOMAIN_NOUNS, "ticket"
    TicketDoc,          \* word -> document, the identifiers of known projects
    MaxWords,           \* bound: words of a question
    ShortQuestion,      \* words up to which a question may be a courtesy: 3
    Available,          \* AVAILABLE_SOURCES, in order
    Fallback,           \* sources when the LLM router fails, in order
    MaxSources,         \* bound: sources that the LLM router names
    Filters,            \* metadata filters the LLM router may extract
    SaidDocs,           \* what it may say as an external_id
    Scopes,             \* what the route that asks forces
    Store,              \* chunks of all the schemas, in order of chunk_id
    SourceOf, DocOf, MetaOf, SizeOf,
    AllowedKeys,        \* source -> ALLOWED_FILTER_KEYS
    Passthrough,        \* chunks of the SQL agent that are an answer
    Within,
    TopMethod, TopAgent, TopFused, TopRanked,       \* 20, 10, 15, 8
    Budget,             \* characters of the context
    MaxScore,           \* bound: scores of the cross-encoder
    Histories, MaxHistory, MaxHistoryChars,
    NoDoc, NoInstance

Chunks == ToSet(Store)
Docs == {DocOf[c] : c \in Chunks}
Questions == {q \in SUBSET Words : Cardinality(q) <= MaxWords}
Sources == ToSet(Available)
IsWithin(x, y) == x = y \/ <<x, y>> \in Within

\* RoutingDecision.filters is a dict: one value, or list of values, for each key.  The
\* key "status_not" is that of "status", negated.  The external_id is kept apart.
FilterSets ==
    {F \in SUBSET Filters :
        \A f, g \in F : f.key = g.key /\ f.negated = g.negated => f = g}
InstanceKey == "connector_instance_id"
InstanceFilter(i) == [key |-> InstanceKey, negated |-> FALSE, values |-> {i}]

\* rule_router.py:54-82: no courtesy is the name of a source, a noun or a ticket.
ASSUME RagAssumption ==
    /\ {MaxWords, MaxSources, TopMethod, TopAgent, TopFused, TopRanked, Budget, MaxScore}
          \subseteq Nat
    /\ Courtesy \cap (DOMAIN TicketDoc \cup DOMAIN SourceNames \cup Nouns) = {}
    /\ Available \in Seq(Sources) /\ {"jira", "sql"} \subseteq Sources
    /\ Fallback \in Seq(Sources) /\ SourceNames \in [DOMAIN SourceNames -> Sources]
    /\ \A s \in Scopes : s.sources \in Seq(Sources)
    /\ \A f \in Filters : f.negated \in BOOLEAN
    /\ \A s \in Sources \ {"sql"} : InstanceKey \in AllowedKeys[s]
    /\ Store \in Seq(Chunks)
    /\ SourceOf \in [Chunks -> Sources] /\ SizeOf \in [Chunks -> Nat]

VARIABLES
    stage, question, history, scope,
    routing,    \* RoutingDecision
    lists,      \* ranked lists that the retrievers of an agent returned
    results,    \* chunks of each agent that answered, in the order of the sources
    exact,      \* chunks with sql_score 1.0
    ranked,     \* chunks after fusion, then after reranking
    score,      \* rerank_score, where there is one
    answer,     \* RAGResponse
    logged      \* source in the row of reports.request_logs, or "none"

vars == <<stage, question, history, scope, routing, lists, results, exact, ranked,
          score, answer, logged>>
found == <<lists, results, exact, ranked, score>>

NoAnswer == [kind |-> "none", mentioned |-> {}, cited |-> <<>>, chars |-> 0]
Unrouted == [sources |-> <<>>, filters |-> {}, doc |-> NoDoc, inScope |-> FALSE,
             by |-> "rule"]

Init ==
    /\ stage = "asked"
    /\ question \in Questions /\ scope \in Scopes
    /\ history \in IF scope.sources = <<>> THEN {<<>>} ELSE Histories
    /\ routing = Unrouted
    /\ lists = <<>> /\ results = <<>> /\ exact = {} /\ ranked = <<>>
    /\ score = [c \in {} |-> 0]
    /\ answer = NoAnswer /\ logged = "none"

-----------------------------------------------------------------------------
(* Condensing *)

\* Characters that _prepare_history keeps of messages of these sizes (0: of another
\* role, or empty): the last messages, from the newest, cut at the budget.
Prepared(h) ==
    FoldRight(LAMBDA size, kept : IF kept + size > MaxHistoryChars
                                  THEN MaxHistoryChars ELSE kept + size,
              SubSeq(h, IF Len(h) > MaxHistory THEN Len(h) - MaxHistory + 1 ELSE 1, Len(h)),
              0)

\* condense, then the preprocessor.  The model may return any question that is not
\* empty; when it fails the question stays.
Condense ==
    /\ stage = "asked"
    /\ question' \in IF Prepared(history) = 0 THEN {question}
                     ELSE (Questions \ {{}}) \cup {question}
    /\ stage' = "condensed"
    /\ history' = <<>>
    /\ UNCHANGED <<scope, routing, found, answer, logged>>

-----------------------------------------------------------------------------
(* Routing *)

Decision(sources, doc) == [Unrouted EXCEPT !.sources = sources, !.doc = doc,
                                           !.inScope = TRUE]
Refusal == Unrouted

Naming(q) == q \cap DOMAIN SourceNames
Business(q) == Naming(q) \cup (q \cap (Nouns \cup Ambiguous))

\* Mutation: nothing excludes a short question from being a courtesy.
IsCourtesyAlone(q) ==
    \/ Cardinality(q) = 1 /\ q \subseteq Courtesy
    \/ Cardinality(q) <= ShortQuestion /\ q \cap LikeCourtesy # {}

\* Case 2 of RuleRouter.route; "g in text_lower" finds letters inside a word.
IsCourtesy(q) ==
    \/ Cardinality(q) = 1 /\ q \subseteq Courtesy
    \/ /\ Cardinality(q) <= ShortQuestion
       /\ q \cap LikeCourtesy # {}
       /\ Business(q) = {}

\* RuleRouter.route: the decisions it can take, none when it leaves the question to
\* the LLM router.  All have a confidence above RULE_ROUTER_MIN_CONFIDENCE.  Of several
\* tickets the code takes the first in the text, of several sources the first in its
\* table: any of them here, where a question has no order.
RuleRoute(q) ==
    LET tickets == q \cap DOMAIN TicketDoc
    IN  IF q = {} THEN {Refusal}
        ELSE IF tickets # {} THEN {Decision(<<"jira">>, TicketDoc[w]) : w \in tickets}
        ELSE IF IsCourtesy(q) THEN {Refusal}
        ELSE IF Naming(q) # {}
             THEN IF q \cap FilterWords # {} THEN {}
                  ELSE {Decision(<<SourceNames[w]>>, NoDoc) : w \in Naming(q)}
        ELSE IF q \cap Nouns # {} THEN {Decision(<<"sql">>, NoDoc)}
        ELSE {}

\* LLMRouter.route: what the model says once validated, and the fallback when it
\* fails.  Sources that do not exist are dropped, the others kept in any order and
\* number; none left means all of them.  Out of scope, the sources are dropped and the
\* filters kept.
Said(sources, doc, filters) ==
    [sources |-> sources, filters |-> filters, doc |-> doc, inScope |-> sources # <<>>,
     by |-> "llm"]

LLMRoutes ==
    {Said(sources, doc, filters) :
        sources \in {Available} \cup SeqOf(Sources, MaxSources),
        doc \in {NoDoc} \cup SaidDocs, filters \in FilterSets}
    \cup {Said(Fallback, NoDoc, {})}

\* Orchestrator.ask, what the caller forces over the decision.
Forced(decision) ==
    [decision EXCEPT
        !.sources = IF scope.sources = <<>> THEN @ ELSE scope.sources,
        !.inScope = @ \/ scope.sources # <<>>,
        !.filters = IF scope.instance = NoInstance THEN @
                    ELSE {f \in @ : f.key # InstanceKey \/ f.negated}
                         \cup {InstanceFilter(scope.instance)},
        !.doc = IF scope.doc = NoDoc THEN @ ELSE scope.doc]

Route ==
    /\ stage = "condensed"
    /\ \E decision \in IF RuleRoute(question) # {} THEN RuleRoute(question)
                       ELSE LLMRoutes :
          routing' = Forced(decision)
    /\ stage' = "routed"
    /\ UNCHANGED <<question, history, scope, found, answer, logged>>

-----------------------------------------------------------------------------
(* One agent per source *)

SearchDone == Len(results) = Len(routing.sources)
Current == routing.sources[Len(results) + 1]
OfSource(s) == {c \in Chunks : SourceOf[c] = s}

\* Mutation: a key that ends in _not is looked up like the others.
MatchesPlain(c, f) == \E v \in f.values : IsWithin(v, MetaOf[c][f.key])

\* _matches_filters, for one filter.
Matches(c, f) == (\E v \in f.values : IsWithin(v, MetaOf[c][f.key])) # f.negated

\* The filters of the routing that apply to a source: those of its keys that have a
\* value.
HardFilters(s) == {f \in routing.filters : f.values # {} /\ f.key \in AllowedKeys[s]}

\* SQLRetriever.search knows the keys without _not only.
SqlFilters(s) == {f \in HardFilters(s) : ~f.negated}

\* ORDER BY ... LIMIT n, of any order.
RankedLists(S, n) == UNION {SetToSeqs(T) : T \in {T \in SUBSET S : Cardinality(T) <= n}}

\* VectorRetriever, BM25Retriever and SQLRetriever.search of the agent.  Each may
\* fail or raise, which is an empty list; the last one leaves out a match only when
\* there are more than the limit.
Retrieve ==
    /\ stage \in {"routed", "fused"} /\ routing.inScope /\ ~SearchDone
    /\ Current # "sql" /\ routing.doc = NoDoc
    /\ LET here == OfSource(Current)
           kept == {c \in here : \A f \in SqlFilters(Current) : Matches(c, f)}
       IN  \E vector, bm25 \in RankedLists(here, TopMethod) :
           \E sql \in {<<>>} \cup
                 IF SqlFilters(Current) = {} THEN {}
                 ELSE {list \in RankedLists(kept, TopMethod) :
                          Len(list) < TopMethod => ToSet(list) = kept} :
              lists' = <<vector, bm25, sql>>
    /\ stage' = "retrieved"
    /\ question' = {}
    /\ UNCHANGED <<history, scope, routing, results, exact, ranked, score, answer, logged>>

\* 1 / (60 + rank), in billionths.
Weight(rank) == 1000000000 \div (60 + rank)

\* Mutation: the ranks are summed instead of their inverses.
ScoreOfRanks(rankings, c) ==
    -Total([k \in DOMAIN rankings |->
               IF c \in ToSet(rankings[k]) THEN Rank(rankings[k], c) ELSE 0])

\* rrf_score, rounded to six digits: what each list that holds the chunk gives it.
Score(rankings, c) ==
    (Total([k \in DOMAIN rankings |->
               IF c \in ToSet(rankings[k]) THEN Weight(Rank(rankings[k], c)) ELSE 0])
        + 500) \div 1000

\* The keys of chunks_by_key, in the order in which they enter it: by the first list
\* that holds the chunk, then by its rank in that list.
Seen(rankings) == UNION {ToSet(list) : list \in ToSet(rankings)}

FirstList(rankings, c) ==
    CHOOSE k \in DOMAIN rankings :
        c \in ToSet(rankings[k]) /\ \A j \in 1..(k - 1) : c \notin ToSet(rankings[j])

SeenFirst(rankings) ==
    {p \in Seen(rankings) \X Seen(rankings) :
        LET k == FirstList(rankings, p[1])
            m == FirstList(rankings, p[2])
        IN  k < m \/ (k = m /\ Rank(rankings[k], p[1]) < Rank(rankings[k], p[2]))}

\* reciprocal_rank_fusion: each chunk once, in the order of its score.
Fuse(rankings) ==
    LET scores == [c \in Seen(rankings) |-> Score(rankings, c)]
    IN  Sorted(Seen(rankings), Descending(scores, SeenFirst(rankings)))

Cut(list, n) == SubSeq(list, 1, IF Len(list) < n THEN Len(list) ELSE n)

\* Mutation: the error of an agent is kept beside the chunks of its next attempt.
FoundTwice(chunks, exactOnes) ==
    results' = results \o <<<<>>, chunks>> /\ UNCHANGED exact

\* The AgentResult of an agent: its chunks, or an error.
Found(chunks, exactOnes) ==
    \/ /\ results' = Append(results, chunks)
       /\ exact' = exact \cup (exactOnes \cap ToSet(chunks))
    \/ results' = Append(results, <<>>) /\ UNCHANGED exact

\* BaseAgent.run once its retrievers are back, or its embedding or a schema failed.
FuseAgent ==
    /\ stage = "retrieved"
    /\ LET fused == Keep(Fuse(lists), {c \in Chunks :
                        \A f \in HardFilters(Current) : Matches(c, f)})
       IN  Found(Cut(fused, TopAgent), ToSet(lists[3]))
    /\ stage' = "fused"
    /\ lists' = <<>>
    /\ UNCHANGED <<question, history, scope, routing, ranked, score, answer, logged>>

\* BaseAgent.run with an identifier: every chunk of the document, whatever the
\* filters and the instance.
FindById ==
    /\ stage \in {"routed", "fused"} /\ routing.inScope /\ ~SearchDone
    /\ Current # "sql" /\ routing.doc # NoDoc
    /\ LET hits == Keep(Store, {c \in OfSource(Current) : DocOf[c] = routing.doc})
       IN  Found(hits, ToSet(hits))
    /\ stage' = "fused" /\ question' = {}
    /\ UNCHANGED <<history, scope, routing, lists, ranked, score, answer, logged>>

\* The SQL agent: one chunk, of sql_score 1.0, or an error.
AskSql ==
    /\ stage \in {"routed", "fused"} /\ routing.inScope /\ ~SearchDone
    /\ Current = "sql"
    /\ \E chunk \in OfSource("sql") : Found(<<chunk>>, {chunk})
    /\ stage' = "fused" /\ question' = {}
    /\ UNCHANGED <<history, scope, routing, lists, ranked, score, answer, logged>>

-----------------------------------------------------------------------------
(* Fusion of the agents and reranking *)

\* Reranking is left out when every chunk has the score of an exact match.
Rerank ==
    /\ stage \in {"routed", "fused"} /\ routing.inScope /\ SearchDone
    /\ LET fused == Cut(Fuse(results), TopFused)
       IN  IF ToSet(fused) \subseteq exact
           THEN ranked' = Cut(fused, TopRanked) /\ UNCHANGED score
           ELSE \E scores \in [ToSet(fused) -> 0..MaxScore] :
                   /\ ranked' = Cut(Sorted(ToSet(fused),
                                           Descending(scores, Before(fused))), TopRanked)
                   /\ score' = scores
    /\ stage' = "ranked"
    /\ results' = <<>>
    /\ UNCHANGED <<question, history, scope, routing, lists, exact, answer, logged>>

-----------------------------------------------------------------------------
(* Generation *)

Size(list) == Total([i \in DOMAIN list |-> SizeOf[list[i]]])

\* Mutation: a chunk that is too long is passed over and the loop goes on.
TakeNextThatFits(was, c) ==
    IF was.chars + SizeOf[c] > Budget THEN was
    ELSE [was EXCEPT !.taken = Append(@, c), !.chars = @ + SizeOf[c]]

\* One turn of the loop of build_context: what is taken and its characters, until a
\* chunk does not fit.
TakeNext(was, c) ==
    IF ~was.open \/ was.chars + SizeOf[c] > Budget THEN [was EXCEPT !.open = FALSE]
    ELSE [was EXCEPT !.taken = Append(@, c), !.chars = @ + SizeOf[c]]

Taken(list) ==
    LET loop[n \in 0..Len(list)] ==
            IF n = 0 THEN [taken |-> <<>>, chars |-> 0, open |-> TRUE]
                     ELSE TakeNext(loop[n - 1], list[n])
    IN  loop[Len(list)]

\* build_context: what the loop has taken, or else the first chunk, cut at the budget.
Context(list) ==
    LET end == Taken(list)
    IN  IF end.taken = <<>>
        THEN [chunks |-> <<list[1]>>,
              chars |-> IF SizeOf[list[1]] < Budget THEN SizeOf[list[1]] ELSE Budget]
        ELSE [chunks |-> end.taken, chars |-> end.chars]

\* Mutation: the raw score of the cross-encoder is shown.
PercentRaw(list) ==
    [i \in DOMAIN list |-> IF list[i] \in DOMAIN score THEN score[list[i]] * 100 ELSE 100]

\* _build_sources: rerank scores are spread over 0..100 among the chunks shown; a
\* chunk that was not reranked is an exact match.
Percent(list) ==
    LET scores == {score[c] : c \in ToSet(list) \cap DOMAIN score}
        least == CHOOSE x \in scores : \A y \in scores : x <= y
        most == CHOOSE x \in scores : \A y \in scores : y <= x
        span == IF most = least THEN 1 ELSE most - least
    IN  [i \in DOMAIN list |->
            IF list[i] \in DOMAIN score
            THEN ((score[list[i]] - least) * 100) \div span ELSE 100]

Cite(list) == [i \in DOMAIN list |-> [chunk |-> list[i], percent |-> Percent(list)[i]]]

\* c.document_id in answer
AppearsIn(doc, texts) == \E d \in texts : IsWithin(doc, d)

\* Mutation: only the document of the best chunk is completed.
CompletedFirst(texts, list) ==
    texts \cup ({DocOf[list[1]]} \ {d \in Docs : AppearsIn(d, texts)})

\* _ensure_all_sources_mentioned
Completed(texts, list) ==
    texts \cup {d \in {DocOf[c] : c \in ToSet(list)} : ~AppearsIn(d, texts)}

\* ask without a chunk, or out of scope: an answer that cites nothing.
AnswerNothing ==
    /\ \/ stage = "routed" /\ ~routing.inScope
       \/ stage = "ranked" /\ ranked = <<>>
    /\ answer' = [NoAnswer EXCEPT !.kind = IF stage = "routed" THEN "out_of_scope"
                                                               ELSE "nothing"]
    /\ stage' = "answered" /\ question' = {}
    /\ UNCHANGED <<history, scope, routing, found, logged>>

\* generate with a chunk that already is an answer: the first one, said as it is.
AnswerPassthrough ==
    /\ stage = "ranked" /\ ToSet(ranked) \cap Passthrough # {}
    /\ answer' = [kind |-> "passthrough", cited |-> Cite(ranked), chars |-> 0,
                  mentioned |-> {DocOf[Keep(ranked, Passthrough)[1]]}]
    /\ stage' = "answered"
    /\ UNCHANGED <<question, history, scope, routing, found, logged>>

\* Orchestrator.ask: the filters that are not the scope of a chat.
Requested(filters) == {f \in filters : f.key # InstanceKey \/ f.negated}

\* generate with the text of a model, or of its error, that mentions any of the
\* documents in its context; completed when a filter was asked for.
AnswerGenerated ==
    /\ stage = "ranked" /\ ranked # <<>> /\ ToSet(ranked) \cap Passthrough = {}
    /\ LET context == Context(ranked)
       IN  \E texts \in SUBSET {DocOf[c] : c \in ToSet(context.chunks)} :
              answer' = [kind |-> "generated", cited |-> Cite(context.chunks),
                         chars |-> context.chars, mentioned |->
                         IF Requested(routing.filters) = {} THEN texts
                         ELSE Completed(texts, context.chunks)]
    /\ stage' = "answered"
    /\ UNCHANGED <<question, history, scope, routing, found, logged>>

\* POST /search writes a row of usage, with the source cited first: a failure is
\* rolled back and the answer goes out all the same.  The scoped chats write none.
LogUsage ==
    /\ stage = "answered"
    /\ logged' \in {"none"} \cup
          IF scope.sources # <<>> THEN {}
          ELSE {IF answer.cited = <<>> THEN "unknown"
                ELSE SourceOf[answer.cited[1].chunk]}
    /\ stage' = "replied"
    /\ UNCHANGED <<question, history, scope, routing, found, answer>>

Next ==
    \/ Condense \/ Route
    \/ Retrieve \/ FuseAgent \/ FindById \/ AskSql
    \/ Rerank
    \/ AnswerNothing \/ AnswerPassthrough \/ AnswerGenerated \/ LogUsage

Spec == Init /\ [][Next]_vars

-----------------------------------------------------------------------------
(* Properties *)

Rankings == {list \in Seq(Chunks) : IsInjective(list)}
RankedChunks == [chunk: Chunks, percent: Int]
InstanceFilters == {InstanceFilter(i) : i \in {s.instance : s \in Scopes}}
Decisions == [sources: Seq(Sources), filters: SUBSET (Filters \cup InstanceFilters),
              doc: {NoDoc} \cup SaidDocs \cup Range(TicketDoc) \cup {s.doc : s \in Scopes},
              inScope: BOOLEAN, by: {"rule", "llm"}]

\* What the variables hold.  An agent for each source at most has answered, and a
\* chunk is never twice in a list of chunks, whichever retrievers brought it.
TypeOK ==
    /\ stage \in {"asked", "condensed", "routed", "retrieved", "fused", "ranked",
                  "answered", "replied"}
    /\ question \in Questions /\ scope \in Scopes /\ routing \in Decisions
    /\ routing.inScope => Len(results) <= Len(routing.sources)
    /\ lists \in Seq(Rankings) /\ results \in Seq(Rankings) /\ ranked \in Rankings
    /\ exact \subseteq Chunks
    /\ DOMAIN score \subseteq Chunks /\ score \in [DOMAIN score -> 0..MaxScore]
    /\ answer \in [kind: {"none", "out_of_scope", "nothing", "passthrough", "generated"},
                   mentioned: SUBSET Docs, cited: Seq(RankedChunks), chars: Nat]
    /\ logged \in {"none", "unknown"} \cup Sources

\* rule_router.py:54-57, 174-181: a question with a ticket, a source or a business
\* noun in it is not taken for a courtesy, however short and polite; only a hint of
\* a filter hands such a question to the language model, which may refuse it.
BusinessQuestionsAreRouted ==
    LET asks == question \cap (DOMAIN TicketDoc \cup DOMAIN SourceNames \cup Nouns)
    IN  stage = "routed" /\ asks # {} /\ question \cap FilterWords = {} => routing.inScope

\* rrf.py:10-12: the better a chunk is ranked in the lists, the better it is ranked in
\* the fusion.  A chunk that comes first wherever another comes is placed before it,
\* whatever other lists hold, and each chunk comes once.
FusionRespectsRanks ==
    LET fused == Fuse(lists)
        before(list, a, b) == a \in ToSet(list) /\ Rank(list, a) < Rank(list, b)
    IN  /\ IsInjective(fused)
        /\ \A a, b \in ToSet(fused) :
              a # b /\ (\A list \in ToSet(lists) : b \in ToSet(list) => before(list, a, b))
                 => before(fused, a, b)

Satisfies(c, f) ==
    IF f.negated THEN \A v \in f.values : ~IsWithin(v, MetaOf[c][f.key])
                 ELSE \E v \in f.values : IsWithin(v, MetaOf[c][f.key])

\* base_agent.py:159-169, 45-50: whichever of the three retrievers brought it and
\* whatever the ranks, a chunk that an answer cites satisfies every filter of the
\* question that has a value and whose key its source knows, negated or not, and is of
\* the instance or the document that the chat is about, whatever instance the model
\* says.  An identifier replaces all of these.
CitedChunksMatch ==
    \A c \in {cite.chunk : cite \in ToSet(answer.cited)} : SourceOf[c] # "sql" =>
        IF routing.doc # NoDoc THEN DocOf[c] = routing.doc
        ELSE /\ scope.instance # NoInstance =>
                    IsWithin(scope.instance, MetaOf[c][InstanceKey])
             /\ \A f \in routing.filters :
                    f.values # {} /\ f.key \in AllowedKeys[SourceOf[c]] => Satisfies(c, f)

\* generator.py:208-216: when a filter was asked for, the text names the document of
\* every chunk it cites, as the code looks for names: letter by letter.
MentionsWhatItCites ==
    answer.kind = "generated" /\ Requested(routing.filters) # {} =>
        \A cite \in ToSet(answer.cited) : AppearsIn(DocOf[cite.chunk], answer.mentioned)

\* generator.py:100-101, 234-235: an answer made from chunks cites one at least, its
\* scores are percentages, and the best source comes first.
ScoresAreRankedPercentages ==
    answer.kind \in {"generated", "passthrough"} =>
        /\ answer.cited # <<>>
        /\ \A i, j \in DOMAIN answer.cited :
              /\ answer.cited[i].percent \in 0..100
              /\ i <= j => answer.cited[i].percent >= answer.cited[j].percent

\* context_builder.py:4-7, 50-52, 63-66: the model is given the best chunks in their
\* order, none passed over for a shorter one, as many as the budget holds: their text
\* is whole and the next one would not fit.  Only a first chunk that is over the budget
\* by itself is cut, to the budget.
ContextFits ==
    answer.kind = "generated" =>
        LET n == Len(answer.cited)
            whole == Size(SubSeq(ranked, 1, n))
        IN  /\ n \in 1..Len(ranked)
            /\ \A i \in 1..n : answer.cited[i].chunk = ranked[i]
            /\ answer.chars <= Budget
            /\ answer.chars = whole \/ (n = 1 /\ whole > answer.chars /\ answer.chars = Budget)
            /\ n < Len(ranked) => whole + SizeOf[ranked[n + 1]] > Budget
=============================================================================
