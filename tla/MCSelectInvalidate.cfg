SPECIFICATION Spec
CONSTANTS
    MaxBlocks = 3
    Proofs <- UnitProofs
    Verdicts <- LastMayFail
    Address <- Downwards
    Threads = 1
    MaxPrecious = 0
    MaxInvalidate = 1
    MaxReconsider = 1
    MaxRestarts = 1
INVARIANTS
    NothingForgotten
    MarksRight
    SelectionSound
PROPERTIES
    TipOrSuccessorLeft
