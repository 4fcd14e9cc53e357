SPECIFICATION Revokers
CONSTANTS
    SourceLine = {l0, l1}
    ZeroLine = l0
    NoLine = NoLine
    DEPTH = 4
    PresentedKinds = {"MakeInvalid"}
    CsLine = {c0, c1, c2}
    BurstOfAll <- BurstOfThree
    CsDepth = 2
    Target = {t0, t1}
    Token = {k0, k1}
INVARIANTS
    OwedIsHeld
    NoOverflow
    RevocationIsHeld
    QueuesAgree
    OthersHoldOwed
    HoldIssueIsExact
    ComposedIssueIsExact
PROPERTIES
    EventuallyCleared
    RtlImplementsContract
    OthersImplementShift
    CommitIsUsed
