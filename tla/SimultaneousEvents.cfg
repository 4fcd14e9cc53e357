SPECIFICATION Spec
CONSTANTS
    SrcLine = {s1}
    TgtLine = {l1}
    Token = {t1, t2}
    NoEvent = NoEvent
    SOURCE_Q_DEPTH = 2
    TARGET_Q_DEPTH = 2
INVARIANTS
    TargetIsHeld
