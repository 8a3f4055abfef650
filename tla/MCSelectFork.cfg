SPECIFICATION FairSpec
CONSTANTS
    MaxBlocks = 3
    Proofs <- LastMayWeighTwo
    Verdicts <- AnyVerdict
    Address <- Downwards
    Threads = 1
    MaxPrecious = 1
    MaxInvalidate = 0
    MaxReconsider = 0
    MaxRestarts = 0
INVARIANTS
    NothingForgotten
    MarksRight
    SelectionSound
PROPERTIES
    ForwardProgress
    BestChainEventually
