SPECIFICATION Spec
CONSTANTS
    Docs <- MCDocs
    ScopeA = ScopeA
    ScopeB = ScopeB
    Scopes = {ScopeA, ScopeB}
    ScopeOf <- MCScopeOf
    Scoped = {ScopeA, ScopeB}
    Syncs = {s1, s2}
    PageSize = 1
    Cursors = {0, 2}
    MaxChunks = 2
    MaxTime = 4
    MaxFaults = 1
    MaxStarts = 2
    NoScope = NoScope
INVARIANTS TypeOK DocumentIsWhole CleanScopesAreComplete
PROPERTIES OlderTextOnlyByOverlap
CHECK_DEADLOCK FALSE
