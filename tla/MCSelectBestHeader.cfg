SPECIFICATION Spec
CONSTANTS
    MaxBlocks = 3
    Proofs <- UnitProofs
    Verdicts <- AnyVerdict
    Address <- Downwards
    Threads = 1
    MaxPrecious = 0
    MaxInvalidate = 0
    MaxReconsider = 0
    MaxRestarts = 0
INVARIANTS
    BestHeaderNotBehind
