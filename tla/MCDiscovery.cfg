SPECIFICATION Spec
CONSTANTS
    lookup = lookup
    joined = joined
    weak = weak
    Unset = Unset
    Absent = Absent
    Candidates <- Pairs
    Named <- ByName
    Generic <- LookupTable
    Base <- Weights
    JoinedIn <- Sources
    MinScore = 50
    OptionSets <- Runs
INVARIANTS TypeOK EveryCandidateAccounted NoOpinionWithoutReading DiscardNeedsAReason
           InterruptionNeverPassesAsSuccess StagesInOrder
PROPERTIES Terminates
CHECK_DEADLOCK FALSE
