CONSTANTS
    Domain <- TwoColumns
    Numeric <- NoColumn
    Null = Null
    Nullable <- SecondColumn
    Loaded <- SomePartial
    Never = Never
    NeverAnalyzed <- SinceVersion14
    MaxRows = 5
    Total = 120
SPECIFICATION Spec
CHECK_DEADLOCK FALSE
INVARIANT RejectionCostsNoConfirmation
