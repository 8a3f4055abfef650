SPECIFICATION Spec
CONSTANTS
    Txs = {1, 2}
    BaseTxs = {0}
    Ids = {"n"}
    Claims = {"c"}
    vin <- MCvin
    vout <- MCvout
    nDeadpoolAnnounceMaturity = 1
    nDeadpoolAnnounceValidity = 2
    nDeadpoolAnnounceMinBurn = 0
    Blocks = {1, 2, 3, 4, 5}
    path <- MCpath
    vtx <- MCvtx
    StartTips = {0, 4}
    MaxMoves = 3
    MaxFlushes = 1
    MaxStops = 1
CHECK_DEADLOCK FALSE
INVARIANT NothingPrunedStarts
