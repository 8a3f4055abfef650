SPECIFICATION Spec
CONSTANTS
    OutPoints = {o1, o2}
    Coins = {c1, c2, c3}
    Unspendable = {c3}
    Spent = spent
    Blocks = {b1, b2}
    NoEntry = none
    NullHash = null
INVARIANTS FreshNeverMisapplied FlagsCoherent
PROPERTIES ImplementsCoinsView CallsTakeEffect
