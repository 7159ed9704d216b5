SPECIFICATION FairSpec
CONSTANTS
    q1 = q1
    q2 = q2
    NoQuestion = NoQuestion
    Questions = {q1, q2}
    Sources = {"jira", "sql", "servicenow"}
    ActiveSources = {"jira", "sql"}
    Routings <- FourRoutings
    Timeout = 1
    Workers = 1
    MaxBlock = 1
INVARIANT TypeOK
INVARIANT AgentsEndInTime
INVARIANT FoundIsNotNothing
PROPERTY EveryQuestionGetsAReply
CHECK_DEADLOCK FALSE
