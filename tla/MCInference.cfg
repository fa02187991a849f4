SPECIFICATION Spec
CONSTANTS
    Profile <- MCProfile
    Similarity <- MCSimilarity
    Inputs <- MCInputs
    MinScore = 5000
    MinNameSimilarity = 30
    SmallTableRows = 1000
INVARIANTS
    TypeOK
    OneHypothesisPerPair
    ResultIsDetermined
    KeysAreWhole
    JoinsAreHeard
    EvidenceOnlyAdds
    NearMissesAreLegible
    RivalsAreMarked
CHECK_DEADLOCK FALSE
