SPECIFICATION Spec
CONSTANTS
    Txs <- MCTxs
    BaseTxs <- MCBaseTxs
    Ids <- MCIds
    Claims <- MCClaims
    vin <- MCvin
    vout <- MCvout
    nDeadpoolAnnounceMaturity = 2
    nDeadpoolAnnounceValidity = 0
    nDeadpoolAnnounceMinBurn = 2
    RootHeight = 1
    RootCoins <- MCRootCoins
    DeadpoolHeight = 2
    CheckBlocks = 2
    MaxBlocks = 3
    VtxChoices <- VtxClaim
    Verdicts <- OkVerdicts
    CheckLevel = 3
    MaxCrashes = 0
    MaxShutdowns = 1
INVARIANT AnnounceDBReflectsChain
