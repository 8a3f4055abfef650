SPECIFICATION Spec
CONSTANTS
    Txs <- MCTxs
    BaseTxs <- MCBaseTxs
    Ids <- MCIds
    Claims <- MCClaims
    vin <- MCvin
    vout <- MCvout
    nDeadpoolAnnounceMaturity = 2
    nDeadpoolAnnounceValidity = 0
    nDeadpoolAnnounceMinBurn = 2
    RootHeight = 1
    RootCoins <- MCRootCoins
    DeadpoolHeight = 2
    CheckBlocks = 1
    MaxBlocks = 3
    VtxChoices <- VtxFaults
    Verdicts <- AllVerdicts
    CheckLevel = 4
    MaxCrashes = 2
    MaxShutdowns = 0
INVARIANTS TypeOK CoinsReflectChain StoredCoinsConsistent ReplayPossible TipDisconnects
