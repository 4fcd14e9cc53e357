SPECIFICATION Targets
CONSTANTS
    SrcLine = {s1, s2}
    TgtLine = {l1}
    Token = {t1, t2}
    NoEvent = NoEvent
    SOURCE_Q_DEPTH = 3
    TARGET_Q_DEPTH = 2
    VLine = {v1, v2}
    PLine = {p1, p2}
    WIndex = {0}
    WitIdx <- OneEntry
    NoWitness = NoWitness
SYMMETRY Symmetry
INVARIANTS
    SourceIsHeld
    TargetIsHeld
    StaleIsInSlice
    WitnessIsCurrent
