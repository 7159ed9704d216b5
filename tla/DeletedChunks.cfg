SPECIFICATION FairSpec
CONSTANTS
    d1 = d1
    d2 = d2
    r1 = r1
    r2 = r2
    NoRow = NoRow
    NoDoc = NoDoc
    Docs = {d1, d2}
    Requests = {r1, r2}
    MaxPieces = 2
    Faults = FALSE
PROPERTY ChunksGoWithTheirDocument
