SPECIFICATION Spec
CONSTANTS
    Profile <- MCProfile
    Similarity <- MCSimilarity
    Inputs <- MCInputs
    MinScore = 5000
    MinNameSimilarity = 30
    SmallTableRows = 1000
INVARIANT CompositeJoinIsHeard
CHECK_DEADLOCK FALSE
