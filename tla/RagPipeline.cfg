SPECIFICATION Spec
CONSTANTS
    j1 = j1
    j2 = j2
    j3 = j3
    s1 = s1
    d1 = d1
    q1 = q1
    q2 = q2
    NoDoc = NoDoc
    NoInstance = NoInstance
    Words = {"bonjour", "architecture", "jira", "document", "urgent", "salaire", "ticket", "IH-1"}
    Courtesy = {"bonjour"}
    LikeCourtesy = {"bonjour", "architecture"}
    SourceNames <- MCSourceNames
    FilterWords = {"urgent"}
    Nouns = {"salaire"}
    Ambiguous = {"ticket"}
    TicketDoc <- MCTicketDoc
    MaxWords = 3
    ShortQuestion = 2
    Available <- MCAvailable
    Fallback <- MCFallback
    Filters <- MCFilters
    Scopes <- MCScopes
    Store <- MCStore
    SourceOf <- MCSourceOf
    DocOf <- MCDocOf
    MetaOf <- MCMetaOf
    SizeOf <- MCSizeOf
    AllowedKeys <- MCAllowedKeys
    Passthrough = {q1}
    Within <- MCWithin
    MaxSources = 2
    SaidDocs = {"IH-12"}
    TopMethod = 2
    TopAgent = 2
    TopFused = 4
    TopRanked = 3
    Budget = 3
    MaxScore = 2
    Histories <- MCHistories
    MaxHistory = 2
    MaxHistoryChars = 3
INVARIANT TypeOK
INVARIANT BusinessQuestionsAreRouted
INVARIANT FusionRespectsRanks
INVARIANT CitedChunksMatch
INVARIANT MentionsWhatItCites
INVARIANT ScoresAreRankedPercentages
INVARIANT ContextFits
CHECK_DEADLOCK FALSE
