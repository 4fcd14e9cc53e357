SPECIFICATION Spec
CONSTANTS
    Line = {l1, l2}
    Word = {w1}
    PointerWord = {w1}
    Token = {t1}
    Value = {v1, v2}
    EPOCHS = 2
    TagId = {d1}
    NoTag = NoTag
    DEPTH = 3
    NoLine = NoLine
    Index <- MCIndex
    DirIdx <- MCDirIdx
    NoEntry = NoEntry
    NoCommit = NoCommit
PROPERTIES
    CoreChangeClearsProof
