----------------------------- MODULE CoinsCache -----------------------------
(***************************************************************************)
(* The layers of coins views (src/src/coins.cpp): the database, the cache  *)
(* CoinsTip() over it, and over that the temporary cache in which          *)
(* ConnectTip and DisconnectTip change coins before they flush or drop it. *)
(* Entries of a cache carry the flags DIRTY and FRESH, by which a flush    *)
(* knows what it need not write.                                           *)
(*                                                                         *)
(* All of this happens under cs_main and the temporary view lives within   *)
(* one function, so that CoinsTip() changes only through the view while    *)
(* there is one.  A flush to the database is one step; Chainstate models   *)
(* the batches it is made of and the crashes between them.                 *)
(***************************************************************************)
CONSTANTS
    OutPoints, Coins, Unspendable, Spent, Blocks,  \* as in CoinsView
    NoEntry,     \* of a map without an entry for an outpoint
    NullHash     \* the hashBlock of a cache that has not asked for it

(* The coins a view can show: an unspendable output is never added. *)
Shown == (Coins \ Unspendable) \cup {Spent}

(* A CCoinsCacheEntry. *)
Entry == [coin : Shown, dirty : BOOLEAN, fresh : BOOLEAN]

ASSUME CacheAssumption ==
    /\ Unspendable \subseteq Coins /\ Spent \notin Coins
    /\ NullHash \notin Blocks /\ NoEntry \notin Entry

VARIABLES
    db,          \* the coins in CCoinsViewDB
    dbBlock,     \* its best block
    cacheTip,    \* cacheCoins of CoinsTip(): a map with NoEntry where it has none
    tipHash,     \* hashBlock of CoinsTip()
    cacheView,   \* cacheCoins of the temporary view
    viewHash,    \* its hashBlock
    open         \* there is a temporary view

vars == <<db, dbBlock, cacheTip, tipHash, cacheView, viewHash, open>>

Empty == [out \in OutPoints |-> NoEntry]
-----------------------------------------------------------------------------
(* CCoinsViewCache as operations on its map.  base is what the view below  *)
(* answers: a coin, or Spent where its GetCoin returns false.              *)

GetCoin(cache, base, out) == IF cache[out] = NoEntry THEN base[out] ELSE cache[out].coin
View(cache, base) == [out \in OutPoints |-> GetCoin(cache, base, out)]

(* A coin found below is kept.  No view answers true with a spent coin, so *)
(* that the branch that would mark such a coin FRESH is never taken.       *)
FetchCoin(cache, base, out) ==
    IF cache[out] = NoEntry /\ base[out] # Spent
    THEN [cache EXCEPT ![out] = [coin |-> base[out], dirty |-> FALSE, fresh |-> FALSE]]
    ELSE cache

(* The entry before AddCoin, which makes one if there is none. *)
Emplaced(entry) == IF entry = NoEntry THEN [coin |-> Spent, dirty |-> FALSE, fresh |-> FALSE] ELSE entry

(* Mutant: a coin is taken to be new although its spentness is not flushed. *)
AddCoinAlwaysFresh(cache, out, coin, possible_overwrite) ==
    IF coin \in Unspendable THEN cache
    ELSE [cache EXCEPT ![out] = [coin |-> coin, dirty |-> TRUE, fresh |-> Emplaced(cache[out]).fresh \/ ~possible_overwrite]]

AddCoin(cache, out, coin, possible_overwrite) ==
    LET old == Emplaced(cache[out])
        fresh == ~possible_overwrite /\ ~old.dirty
    IN  IF coin \in Unspendable THEN cache
        ELSE [cache EXCEPT ![out] = [coin |-> coin, dirty |-> TRUE, fresh |-> old.fresh \/ fresh]]

(* Mutant: the entry goes, whatever its flags are. *)
SpendFetchedAlwaysErases(cache, out) == [cache EXCEPT ![out] = NoEntry]

(* SpendCoin once FetchCoin has been called. *)
SpendFetched(cache, out) ==
    CASE cache[out] = NoEntry -> cache
      [] cache[out] # NoEntry /\ cache[out].fresh -> [cache EXCEPT ![out] = NoEntry]
      [] OTHER -> [cache EXCEPT ![out] = [coin |-> Spent, dirty |-> TRUE, fresh |-> FALSE]]

(* BatchWrite into a cache, entry by entry: us is the entry of the parent, *)
(* it that of the child.  FRESH in a child whose parent has the coin       *)
(* throws a logic_error.                                                   *)
FreshMisapplied(us, it) ==
    it # NoEntry /\ it.dirty /\ it.fresh /\ us # NoEntry /\ us.coin # Spent

(* Mutant: an entry that the parent has is marked FRESH, too. *)
BatchWriteEntryFresh(us, it) ==
    CASE it = NoEntry -> us
      [] it # NoEntry /\ ~it.dirty -> us
      [] OTHER -> it

BatchWriteEntry(us, it) ==
    IF it = NoEntry THEN us
    ELSE CASE ~it.dirty -> us
           [] it.dirty /\ us = NoEntry ->
                IF it.fresh /\ it.coin = Spent THEN NoEntry ELSE it
           [] it.dirty /\ us # NoEntry ->
                IF us.fresh /\ it.coin = Spent THEN NoEntry
                ELSE [coin |-> it.coin, dirty |-> TRUE, fresh |-> us.fresh]

BatchWrite(parent, child) == [out \in OutPoints |-> BatchWriteEntry(parent[out], child[out])]

(* CCoinsViewDB::BatchWrite, all batches. *)
BatchWriteDB(coins, cache) ==
    [out \in OutPoints |-> IF cache[out] # NoEntry /\ cache[out].dirty THEN cache[out].coin ELSE coins[out]]

GetBestBlock(hashBlock, base) == IF hashBlock = NullHash THEN base ELSE hashBlock

(* What the two caches show. *)
tipCoins == View(cacheTip, db)
viewCoins == View(cacheView, tipCoins)
tipBlock == GetBestBlock(tipHash, dbBlock)
-----------------------------------------------------------------------------
Init ==
    /\ db \in [OutPoints -> Shown]
    /\ dbBlock \in Blocks
    /\ cacheTip = Empty /\ tipHash = NullHash
    /\ cacheView = Empty /\ viewHash = NullHash
    /\ open = FALSE

(* A view is made over CoinsTip(), in ConnectTip, DisconnectTip, VerifyDB  *)
(* and TestBlockValidity; they assert its best block, which makes the view *)
(* and CoinsTip() ask for it.                                              *)
OpenView ==
    /\ ~open /\ open' = TRUE
    /\ tipHash' = tipBlock
    /\ viewHash' = tipBlock
    /\ UNCHANGED <<db, dbBlock, cacheTip, cacheView>>

(* GetCoin, HaveCoin and AccessCoin of the view fill both caches. *)
FetchBoth(out) ==
    /\ cacheTip' = IF cacheView[out] = NoEntry THEN FetchCoin(cacheTip, db, out) ELSE cacheTip
    /\ cacheView' = FetchCoin(cacheView, tipCoins, out)

AccessCoin(out) ==
    /\ open
    /\ FetchBoth(out)
    /\ UNCHANGED <<db, dbBlock, tipHash, viewHash, open>>

(* The same of CoinsTip(), for the memory pool and RPCs. *)
AccessTip(out) ==
    /\ ~open
    /\ cacheTip' = FetchCoin(cacheTip, db, out)
    /\ UNCHANGED <<db, dbBlock, tipHash, cacheView, viewHash, open>>

(* AddCoins for the outputs of a transaction of a block.  Those of a       *)
(* coinbase may overwrite; the others are new, for no two transactions     *)
(* have the same hash and BIP30 keeps them from being added again.         *)
AddNewCoin(out, coin, fCoinbase) ==
    /\ open
    /\ fCoinbase \/ viewCoins[out] = Spent
    /\ cacheView' = AddCoin(cacheView, out, coin, fCoinbase)
    /\ UNCHANGED <<db, dbBlock, cacheTip, tipHash, viewHash, open>>

(* ApplyTxInUndo, which asks first whether the coin is there. *)
RestoreCoin(out, coin) ==
    /\ open
    /\ cacheTip' = IF cacheView[out] = NoEntry THEN FetchCoin(cacheTip, db, out) ELSE cacheTip
    /\ cacheView' = AddCoin(FetchCoin(cacheView, tipCoins, out), out, coin, viewCoins[out] # Spent)
    /\ UNCHANGED <<db, dbBlock, tipHash, viewHash, open>>

SpendCoin(out) ==
    /\ open
    /\ cacheTip' = IF cacheView[out] = NoEntry THEN FetchCoin(cacheTip, db, out) ELSE cacheTip
    /\ cacheView' = SpendFetched(FetchCoin(cacheView, tipCoins, out), out)
    /\ UNCHANGED <<db, dbBlock, tipHash, viewHash, open>>

SetBestBlock(hash) ==
    /\ open
    /\ viewHash' = hash
    /\ UNCHANGED <<db, dbBlock, cacheTip, tipHash, cacheView, open>>

(* Flush of the view, and the end of its life. *)
FlushView ==
    /\ open /\ open' = FALSE
    /\ \A out \in OutPoints : ~FreshMisapplied(cacheTip[out], cacheView[out])
    /\ cacheTip' = BatchWrite(cacheTip, cacheView)
    /\ tipHash' = viewHash
    /\ cacheView' = Empty /\ viewHash' = NullHash
    /\ UNCHANGED <<db, dbBlock>>

(* A block that is invalid, and a view that was only for checking. *)
DropView ==
    /\ open /\ open' = FALSE
    /\ cacheView' = Empty /\ viewHash' = NullHash
    /\ UNCHANGED <<db, dbBlock, cacheTip, tipHash>>

(* CoinsTip().Flush() in FlushStateToDisk. *)
FlushTip ==
    /\ ~open
    /\ db' = BatchWriteDB(db, cacheTip)
    /\ tipHash' = tipBlock /\ dbBlock' = tipBlock
    /\ cacheTip' = Empty
    /\ UNCHANGED <<cacheView, viewHash, open>>

(* Mutant: the entry is dropped although it was changed. *)
UncacheDirty(out) ==
    /\ ~open
    /\ cacheTip' = [cacheTip EXCEPT ![out] = NoEntry]
    /\ UNCHANGED <<db, dbBlock, tipHash, cacheView, viewHash, open>>

(* The memory pool drops the coins of a transaction that it did not keep. *)
Uncache(out) ==
    /\ ~open
    /\ cacheTip[out] # NoEntry /\ ~cacheTip[out].dirty /\ ~cacheTip[out].fresh
    /\ cacheTip' = [cacheTip EXCEPT ![out] = NoEntry]
    /\ UNCHANGED <<db, dbBlock, tipHash, cacheView, viewHash, open>>

Next ==
    \/ OpenView
    \/ \E out \in OutPoints :
          \/ AccessCoin(out)
          \/ AccessTip(out)
          \/ SpendCoin(out)
          \/ Uncache(out)
          \/ \E coin \in Coins :
                \/ \E fCoinbase \in BOOLEAN : AddNewCoin(out, coin, fCoinbase)
                \/ RestoreCoin(out, coin)
    \/ \E hash \in Blocks : SetBestBlock(hash)
    \/ FlushView
    \/ DropView
    \/ FlushTip

Spec == Init /\ [][Next]_vars
-----------------------------------------------------------------------------
(* The flags of an entry are one of the combinations that coins.h lists.   *)
(* Of those, "spent, FRESH, not DIRTY" does not occur.                     *)
ValidEntry(entry) ==
    entry # NoEntry =>
        /\ entry.coin = Spent => entry.dirty /\ ~entry.fresh
        /\ entry.fresh => entry.dirty

(* Types, and in every cache only entries with a valid combination of      *)
(* flags (struct CCoinsCacheEntry).                                        *)
TypeOK ==
    /\ db \in [OutPoints -> Shown]
    /\ {cacheTip, cacheView} \subseteq [OutPoints -> Entry \cup {NoEntry}]
    /\ \A out \in OutPoints : ValidEntry(cacheTip[out]) /\ ValidEntry(cacheView[out])
    /\ dbBlock \in Blocks /\ {tipHash, viewHash} \subseteq Blocks \cup {NullHash}
    /\ open \in BOOLEAN
    /\ ~open => cacheView = Empty /\ viewHash = NullHash

(* The meaning of the flags (coins.h): an entry that is not DIRTY is what  *)
(* the view below has, and where one is FRESH the view below has no coin.  *)
Coherent(cache, base) ==
    \A out \in OutPoints : cache[out] # NoEntry =>
        /\ ~cache[out].dirty => cache[out].coin = base[out]
        /\ cache[out].fresh => base[out] = Spent

(* DIRTY and FRESH mean what coins.h says, in both caches, through every   *)
(* fetch, change, flush, drop and uncache.                                 *)
FlagsCoherent == Coherent(cacheTip, db) /\ Coherent(cacheView, tipCoins)

(* The logic_error of BatchWrite ("FRESH flag misapplied to coin that      *)
(* exists in parent cache") is never thrown.                               *)
FreshNeverMisapplied ==
    \A out \in OutPoints : ~FreshMisapplied(cacheTip[out], cacheView[out])

(* The layers behave as three plain maps: what CoinsTip() and a view show, *)
(* what a flush brings down and what the disk holds after it.              *)
Plain == INSTANCE CoinsView WITH
    dbCoins <- db, tipCoins <- tipCoins, viewCoins <- viewCoins,
    dbBlock <- dbBlock, tipBlock <- tipBlock, viewBlock <- GetBestBlock(viewHash, tipBlock)

(* Every behaviour of the caches is one of the plain maps (CCoinsViewCache *)
(* is transparent).                                                        *)
ImplementsCoinsView == Plain!Spec

(* No call is lost: a step that spends, adds or restores a coin, flushes   *)
(* or drops is the step of the plain maps of that name, whatever entries   *)
(* and flags it found in the caches.                                       *)
Effective ==
    /\ \A out \in OutPoints :
          /\ SpendCoin(out) => Plain!Change(out, Spent)
          /\ \A coin \in Coins \ Unspendable :
                /\ \A fCoinbase \in BOOLEAN : AddNewCoin(out, coin, fCoinbase) => Plain!Change(out, coin)
                /\ RestoreCoin(out, coin) => Plain!Change(out, coin)
    /\ FlushView => Plain!Commit
    /\ DropView => Plain!Discard
    /\ FlushTip => Plain!Flush

(* Every call on the caches has its effect (SpendCoin, AddCoin,            *)
(* ApplyTxInUndo, Flush of either cache).                                  *)
CallsTakeEffect == [][Effective]_vars
=============================================================================
