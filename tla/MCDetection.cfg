SPECIFICATION Spec
CONSTANTS
    Profiles <- MCProfiles
    Schemas <- MCSchemas
    Before <- MCBefore
CHECK_DEADLOCK FALSE
INVARIANT NoAffixShadows
