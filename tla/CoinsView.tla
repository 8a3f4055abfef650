----------------------------- MODULE CoinsView ------------------------------
(***************************************************************************)
(* What the coins views of src/src/coins.h promise their callers: three    *)
(* plain maps from outpoints to coins.  dbCoins is what is on disk,        *)
(* tipCoins what CoinsTip() shows and viewCoins what the temporary view of *)
(* ConnectTip or DisconnectTip shows.  There are no caches here and no     *)
(* flags.  Chainstate works with coins of this kind; CoinsCache is shown   *)
(* to implement them.                                                      *)
(***************************************************************************)
CONSTANTS
    OutPoints,
    Coins,       \* what an unspent output holds
    Unspendable, \* those of them with an unspendable script
    Spent,       \* the coin of an outpoint that is spent or unknown
    Blocks       \* hashes of blocks

VARIABLES dbCoins, tipCoins, viewCoins, dbBlock, tipBlock, viewBlock, open

vars == <<dbCoins, tipCoins, viewCoins, dbBlock, tipBlock, viewBlock, open>>

Init ==
    /\ dbCoins \in [OutPoints -> (Coins \ Unspendable) \cup {Spent}]
    /\ dbBlock \in Blocks
    /\ tipCoins = dbCoins /\ viewCoins = dbCoins
    /\ tipBlock = dbBlock /\ viewBlock = dbBlock
    /\ open = FALSE

(* A view is made over CoinsTip(). *)
Open ==
    /\ ~open /\ open' = TRUE
    /\ UNCHANGED <<dbCoins, tipCoins, viewCoins, dbBlock, tipBlock, viewBlock>>

(* The view changes one coin: to one that can be spent, or to Spent. *)
Change(out, coin) ==
    /\ open
    /\ viewCoins' = [viewCoins EXCEPT ![out] = coin]
    /\ UNCHANGED <<dbCoins, tipCoins, dbBlock, tipBlock, viewBlock, open>>

SetBestBlock(hash) ==
    /\ open
    /\ viewBlock' = hash
    /\ UNCHANGED <<dbCoins, tipCoins, viewCoins, dbBlock, tipBlock, open>>

(* Everything the view changed reaches CoinsTip(), or nothing of it does. *)
Commit ==
    /\ open /\ open' = FALSE
    /\ tipCoins' = viewCoins /\ tipBlock' = viewBlock
    /\ UNCHANGED <<dbCoins, viewCoins, dbBlock, viewBlock>>

Discard ==
    /\ open /\ open' = FALSE
    /\ viewCoins' = tipCoins /\ viewBlock' = tipBlock
    /\ UNCHANGED <<dbCoins, tipCoins, dbBlock, tipBlock>>

(* FlushStateToDisk: the disk holds what CoinsTip() shows. *)
Flush ==
    /\ ~open
    /\ dbCoins' = tipCoins /\ dbBlock' = tipBlock
    /\ UNCHANGED <<tipCoins, viewCoins, tipBlock, viewBlock, open>>

Next ==
    \/ Open
    \/ \E out \in OutPoints, coin \in (Coins \ Unspendable) \cup {Spent} : Change(out, coin)
    \/ \E hash \in Blocks : SetBestBlock(hash)
    \/ Commit
    \/ Discard
    \/ Flush

Spec == Init /\ [][Next]_vars
=============================================================================
