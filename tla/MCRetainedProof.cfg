SPECIFICATION Spec
CONSTANTS
    Line <- MCLine
    Index <- MCIndex
    DirIdx <- MCDirIdx
    Word = {w1, w2}
    Token = {t1, t2}
    EPOCHS = 2
    NoEntry = NoEntry
    NoCommit = NoCommit
SYMMETRY Symmetry
INVARIANTS
    DirectoryIsTrue
    AuthorityIsProven
PROPERTIES
    LearnedIsRetained
