SPECIFICATION Spec
CONSTANTS
    MaxBlocks = 3
    Proofs <- UnitProofs
    Verdicts <- AllOk
    Address <- Downwards
    Threads = 1
    MaxPrecious = 0
    MaxInvalidate = 1
    MaxReconsider = 1
    MaxRestarts = 0
INVARIANTS
    BestChainWhenIdle
