SPECIFICATION Spec
CONSTANTS
    c1 = c1
    c2 = c2
    c3 = c3
    r1 = r1
    r2 = r2
    secret1 = secret1
    secret2 = secret2
    NoRow = NoRow
    NoRule = NoRule
    NoId = NoId
    Unset = Unset
    Mask = Mask
    Connectors = {c1, c2}
    Requests = {r1}
    ApiTypes = {"jira"}
    SqlTypes = {"mysql"}
    AliasTypes = {}
    CreateTypes = {"jira"}
    Labels = {"A", "B"}
    Frequencies = {15, 60}
    AuthKeys = {"token"}
    AuthValues = {secret1, secret2}
    Ops = {"create", "update", "toggle", "delete", "upload", "sync"}
    SerialPerConnector = TRUE
    LambdaConfigured = TRUE
    Faults = FALSE
    Payloads <- AllForms
SYMMETRY Symmetry
INVARIANT TypeOK
INVARIANT OneActiveBase
INVARIANT RulesMirrorRows
PROPERTY ImplementsRegister
PROPERTY PatchWritesOnlyWhatIsSupplied
