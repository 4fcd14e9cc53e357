SPECIFICATION Spec
CONSTANTS
    Gate = {"rtl", "test"}
    MergedGate = {"rtl"}
    File <- Files
    STOPS = 1
    NoFile = NoFile
PROPERTIES
    AllPassedIsTrue
