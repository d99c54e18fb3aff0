CONSTANTS
    a1 = a1
    a2 = a2
    a3 = a3
    NoProposer = NoProposer
    Authorities <- MCAuthorities
    EpochLength <- MCEpochLength
    Weights <- MCWeights
    StartHeights <- MCStartHeights
SPECIFICATION Spec
INVARIANTS
    TypeOK
    ScheduleMatchesReference
    Proportional
    StartupScheduleFromGenesis
