CONSTANTS
    N = 3
    Limit = 2
    MaxConns = 2
    Options <- MCOptions
    Rows <- MCRows
    Measurements <- MCMeasurements
    Ceiling = TRUE
    Watched = TRUE
SPECIFICATION FairSpec
CHECK_DEADLOCK FALSE
INVARIANTS
    TypeOK
    NobodyWaitsForAConnection
    ReturnHoldsNothing
    SlotsInInputOrder
    ErrorIsTheCause
    SuccessIsComplete
    TallyMatchesReplies
    SampledNeverConfirms
PROPERTIES
    ImplementsContract
    CancelReturns
    Terminates
