SPECIFICATION Spec
CONSTANTS
    Source = {s0}
    Target = {t0}
    Token = {k0}
    QUEUE_DEPTH = 2
INVARIANTS
    RestoreNeedsDemand
