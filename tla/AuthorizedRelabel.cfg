SPECIFICATION Gates
CONSTANTS
    DOMAIN_W = 1
    EPOCH_W = 2
    TOKEN_W = 2
    EPOCHS = 4
    NoDomain = NoDomain
    CAPACITY = 2
    None = None
    SramLine = {0, 1, 2}
    SramWord = {w0}
    SramToken = {k0, k1}
    SramEpoch = {0}
    TOTAL_ENTRIES = 2
    SramIdx <- LowBits
    GateLine = {0, 1}
    Word = {w0, w1}
    Tenant = {d0, d1}
    ResetTenant = d0
    StreamId = {0, 1}
    StreamLine = {0}
    STREAM_ENTRIES = 1
    DIRTY_ENTRIES = 2
    TRAIN_THRESHOLD = 2
    Pair = {0, 1, 2}
    ENTRIES = 2
    QUEUE_DEPTH = 2
INVARIANT
    AllowIsProven
