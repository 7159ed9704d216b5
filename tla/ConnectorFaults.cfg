SPECIFICATION Spec
CONSTANTS
    c1 = c1
    c2 = c2
    c3 = c3
    r1 = r1
    r2 = r2
    secret1 = secret1
    secret2 = secret2
    NoRow = NoRow
    NoRule = NoRule
    NoId = NoId
    Unset = Unset
    Mask = Mask
    Connectors = {c1, c2}
    Requests = {r1, r2}
    ApiTypes = {"jira"}
    SqlTypes = {"mysql"}
    AliasTypes = {}
    CreateTypes = {"mysql"}
    Labels = {"A"}
    Frequencies = {15}
    AuthKeys = {"token"}
    AuthValues = {secret1}
    Ops = {"create", "update", "toggle", "delete", "sync"}
    SerialPerConnector = FALSE
    LambdaConfigured = TRUE
    Faults = TRUE
    Payloads <- PatchForms
SYMMETRY Symmetry
PROPERTY PausedStaysPaused
