CONSTANTS
    Domain <- SingleColumn
    Numeric <- FirstColumn
    Null = Null
    Nullable <- FirstColumn
    Loaded <- NothingYet
    Never = Never
    NeverAnalyzed <- SinceVersion14
    MaxRows = 3
    Total = 120
SPECIFICATION Spec
CHECK_DEADLOCK FALSE
INVARIANTS
    TypeOK
    RejectionCostsNoConfirmation
    NoStatisticsNoOpinion
    UnmarkedWasChecked
