SPECIFICATION Software
CONSTANTS
    Source = {s0, s1}
    Target = {t0}
    Token = {k0, k1}
    QUEUE_DEPTH = 2
    Space = {a0, a1}
    FirstSpace = a0
    LineTag = {l0, l1}
    EntryIdx = {i0}
    LineIdx <- SharedEntry
    Word = {w0, w1}
    NoEntry = NoEntry
    NoCommit = NoCommit
    RECORDS = 2
    POLLS = 1
    Session = {x1, x2, x3}
    Sid = {"a", "b", "c", "d"}
    Bucket = {0, 1}
    BucketOf <- OneApart
    NULL = NULL
    Gate = {"rtl"}
    MergedGate = {"rtl"}
    File <- Files
    STOPS = 2
CHECK_DEADLOCK FALSE
INVARIANTS
    EpochIsCurrent
    IssueIsExact
    AuthorityIsCommitted
    IssueIsSound
    ServiceIsValid
    SuccessIsComplete
    NothingIsLeft
    EvidenceIsMerged
PROPERTIES
    ImplementsGate
    OneUpdateIsCaught
    ProofIsUntouched
    OneReplayIsCaught
    ImplementsCache
    Returns
