SPECIFICATION Spec
CONSTANTS
    Txs = {1, 2, 3, 4, 5, 6, 7}
    BaseTxs = {0}
    Ids = {"n"}
    Claims = {"none", "c", "d"}
    vin <- MCvin
    vout <- MCvout
    nDeadpoolAnnounceMaturity = 1
    nDeadpoolAnnounceValidity = 2
    nDeadpoolAnnounceMinBurn = 1
    RootHeight = 5
    RootCoins <- MCRootCoins
    VtxChoices <- MCVtx
    MaxBlocks = 4
    Replaceable = {5, 6}
    limitAncestors = 4
    limitDescendants = 3
    MaxDisconnected = 3
    MaxDrops = 1
INVARIANT PoolClaimsMinable
