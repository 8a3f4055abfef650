SPECIFICATION Spec
CONSTANTS
    Txs <- MCTxs
    BaseTxs <- MCBaseTxs
    Ids <- MCIds
    Claims <- MCClaims
    vin <- MCvin
    vout <- MCvout
    nDeadpoolAnnounceMaturity = 2
    nDeadpoolAnnounceValidity = 0
    nDeadpoolAnnounceMinBurn = 2
    RootHeight = 1
    RootCoins <- MCRootCoins
    DeadpoolHeight = 2
    CheckBlocks = 2
    MaxBlocks = 3
    VtxChoices <- VtxClaim
    Verdicts <- OkVerdicts
    CheckLevel = 2
    MaxCrashes = 1
    MaxShutdowns = 0
INVARIANT ClaimsAnnouncedOnChain
