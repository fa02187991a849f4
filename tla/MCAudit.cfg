SPECIFICATION Spec
CONSTANTS
    Gone = Gone
    Null = Null
    Nobody = Nobody
    Words <- MCWords
    MaxWords = 9
    Hash <- MCHash
    Tables <- MCTables
    Excluded = {"log"}
    Servers <- MCServers
    Statement <- MCStatement
    Installed <- MCInstalled
    Changing = {"link", "p1"}
    MaxChanges = 1
    Options <- MCOptions
    Joins <- MCJoins
    Predicates <- MCPredicates
    RecurrenceMin = 1
    ProbeKeysMaxRows = 100
    Rows <- MCRows
    Growing = {"link"}
    MaxRows = 2
INVARIANTS TypeOK FindingsAreFacts NamedOnlyWhenProven CeilingHolds
PROPERTIES ConfirmedIsKept EndsOrAsks
CHECK_DEADLOCK FALSE
