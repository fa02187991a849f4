SPECIFICATION Spec
CONSTANTS
    Gone = Gone
    Null = Null
    Nobody = Nobody
    Words <- MCWords
    MaxWords = 9
    Hash <- MCHash
    Tables <- MCTables
    Excluded = {"log"}
    Servers <- MCServers
    Statement <- MCStatement
    Installed <- MCInstalled
    Changing = {"link", "p1"}
    MaxChanges = 0
    Options <- MCOptions
    Joins <- MCJoins
    Predicates <- MCPredicates
    RecurrenceMin = 1
    ProbeKeysMaxRows = 100
    Rows <- MCRows
    Growing = {"link"}
    MaxRows = 2
INVARIANT UnusableIndexIsNoCover
CHECK_DEADLOCK FALSE
