SPECIFICATION Spec
CONSTANTS
    None = None
    Null = Null
    Words <- MCWords
    MaxWords = 4
    Hash <- MCHash
    Height = 3
    Environments <- MCEnvironments
    Default = "local"
    Answers = {"prod", "old"}
    SchemasOf <- MCSchemasOf
    TooOld = {"old"}
    Lines <- MCLines
    Raised <- MCRaised
    Indexes <- MCIndexes
    Estimates <- MCEstimates
    Data <- MCData
    Thresholds <- MCThresholds
    Parts <- MCParts
    Unquoted <- MCUnquoted
    TrimSpace <- MCTrimSpace
    Shell <- MCShell
    Refused = "refused"
    MaxInvocations = 2
INVARIANTS TypeOK PoolsAreClosed  ArtifactsAreTrue
CHECK_DEADLOCK FALSE
