SPECIFICATION Spec
CONSTANTS
    Bases = {b1, b2}
    Questions = {q1, q2}
    Tables <- MCTables
    Created <- MCCreated
    Dumps <- MCDumps
    ChosenFor <- MCChosenFor
    TextOf <- MCTextOf
    TablesOf <- MCTablesOf
    MaxFaults = 1
    NoBase = NoBase
    NoSchema = {"not scanned"}
    NoDump = 0
SYMMETRY Symmetry
INVARIANTS TypeOK CachedIsStored AnsweredFromItsDump BlindOnlyUnscanned LogsTellTheAnswer
CHECK_DEADLOCK FALSE
