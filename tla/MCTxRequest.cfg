\* Three peers, two transactions, a clock that is set back once.
SPECIFICATION FairSpec
CONSTANTS
    Peers = {1, 2, 3}
    NoPeer = NoPeer
    Hashes = {"a", "b"}
    Txs <- MCTxs
    Invs <- MCInvs
    Preferred = {1}
    WtxidRelay = {1}
    Relay = {}
    low_bits <- MClow_bits
    TopBit = 4
    NONPREF_PEER_TX_DELAY = 1
    TXID_RELAY_DELAY = 1
    OVERLOADED_PEER_TX_DELAY = 1
    GETDATA_TX_INTERVAL = 1
    MAX_PEER_TX_REQUEST_IN_FLIGHT = 1
    MAX_PEER_TX_ANNOUNCEMENTS = 1
    MaxTime = 2
    MaxSetBacks = 1
INVARIANTS SanityCheck BestIsSelected
PROPERTIES FollowsTheRules NeverRequestedTwice ForgottenForAReason EveryCandidateServed
