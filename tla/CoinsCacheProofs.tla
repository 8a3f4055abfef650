-------------------------- MODULE CoinsCacheProofs --------------------------
(***************************************************************************)
(* The caches of coins are transparent: CoinsCache implements CoinsView,   *)
(* for any outpoints, coins and blocks.                                    *)
(***************************************************************************)
EXTENDS CoinsCache, TLAPS

CoinMaps == [OutPoints -> Shown]
Caches == [OutPoints -> Entry \cup {NoEntry}]

(* A cache over a base, with entries and flags as they should be. *)
Good(cache, base) ==
    /\ cache \in Caches
    /\ \A out \in OutPoints : ValidEntry(cache[out])
    /\ Coherent(cache, base)

(* The fields of an entry, and that it is one. *)
LEMMA EntryFields ==
    ASSUME NEW e \in Entry
    PROVE  e # NoEntry /\ e.coin \in Shown /\ e.dirty \in BOOLEAN /\ e.fresh \in BOOLEAN
BY CacheAssumption DEF Entry

(* A view of coins over coins is a map of coins. *)
LEMMA ViewType ==
    ASSUME NEW base \in CoinMaps, NEW cache \in Caches
    PROVE  View(cache, base) \in CoinMaps
BY EntryFields DEF View, GetCoin, CoinMaps, Caches

(* An empty cache shows what is below it. *)
LEMMA EmptyGood ==
    ASSUME NEW base \in CoinMaps
    PROVE  Good(Empty, base) /\ View(Empty, base) = base
BY DEF Good, Empty, Caches, ValidEntry, Coherent, View, GetCoin, CoinMaps

(* FetchCoin changes nothing that the cache shows. *)
LEMMA FetchGood ==
    ASSUME NEW base \in CoinMaps, NEW cache, Good(cache, base), NEW out \in OutPoints
    PROVE  LET new == FetchCoin(cache, base, out)
           IN  /\ Good(new, base)
               /\ View(new, base) = View(cache, base)
               /\ new[out] = NoEntry => base[out] = Spent
<1> DEFINE e == [coin |-> base[out], dirty |-> FALSE, fresh |-> FALSE]
           new == FetchCoin(cache, base, out)
<1>1. e \in Entry
  BY DEF Entry, CoinMaps
<1>2. CASE cache[out] = NoEntry /\ base[out] # Spent
  <2>1. new = [cache EXCEPT ![out] = e]
    BY <1>2 DEF FetchCoin
  <2>2. new \in Caches /\ new[out] = e
    BY <1>1, <2>1 DEF Good, Caches
  <2>3. \A o \in OutPoints : o # out => new[o] = cache[o]
    BY <2>1 DEF Good, Caches
  <2>4. Good(new, base)
    BY <1>2, <2>2, <2>3 DEF Good, ValidEntry, Coherent
  <2>5. \A o \in OutPoints : GetCoin(new, base, o) = GetCoin(cache, base, o)
    <3>1. e # NoEntry /\ e.coin = base[out]
      BY <1>1, EntryFields
    <3> HIDE DEF e, new
    <3> QED
      BY <3>1, <1>2, <2>2, <2>3 DEF GetCoin
  <2> QED
    BY <1>1, <2>2, <2>4, <2>5, EntryFields DEF View
<1>3. CASE ~(cache[out] = NoEntry /\ base[out] # Spent)
  BY <1>3 DEF FetchCoin
<1> QED
  BY <1>2, <1>3

(* AddCoin changes one coin of what the cache shows, if an overwrite is    *)
(* announced where one is possible.                                        *)
LEMMA AddGood ==
    ASSUME NEW base \in CoinMaps, NEW cache, Good(cache, base), NEW out \in OutPoints,
           NEW coin \in Coins \ Unspendable, NEW overwrite \in BOOLEAN,
           overwrite \/ View(cache, base)[out] = Spent
    PROVE  LET new == AddCoin(cache, out, coin, overwrite)
           IN  /\ Good(new, base)
               /\ View(new, base) = [View(cache, base) EXCEPT ![out] = coin]
<1> DEFINE old == Emplaced(cache[out])
           e == [coin |-> coin, dirty |-> TRUE, fresh |-> old.fresh \/ (~overwrite /\ ~old.dirty)]
           new == AddCoin(cache, out, coin, overwrite)
<1>1. /\ old.dirty \in BOOLEAN /\ old.fresh \in BOOLEAN
      /\ old.fresh => base[out] = Spent
      /\ ~old.dirty /\ ~overwrite => base[out] = Spent
  <2>1. CASE cache[out] = NoEntry
    BY <2>1 DEF Emplaced, View, GetCoin
  <2>2. CASE cache[out] # NoEntry
    <3>1. cache[out] \in Entry
      BY <2>2 DEF Good, Caches
    <3>2. old = cache[out]
      BY <2>2 DEF Emplaced
    <3>3. View(cache, base)[out] = cache[out].coin
      BY <2>2 DEF View, GetCoin
    <3> QED
      BY <2>2, <3>1, <3>2, <3>3, EntryFields DEF Good, Coherent
  <2> QED
    BY <2>1, <2>2
<1>2. e \in Entry
  BY <1>1 DEF Entry, Shown
<1>3. new = [cache EXCEPT ![out] = e]
  BY DEF AddCoin
<1>4. new \in Caches /\ new[out] = e
  BY <1>2, <1>3 DEF Good, Caches
<1>5. \A o \in OutPoints : o # out => new[o] = cache[o]
  BY <1>3 DEF Good, Caches
<1>6. coin # Spent
  BY CacheAssumption
<1>7. e.fresh => base[out] = Spent
  BY <1>1
<1>8. ValidEntry(e)
  BY <1>6 DEF ValidEntry
<1>9. Good(new, base)
  BY <1>4, <1>5, <1>7, <1>8 DEF Good, Coherent
<1>10. \A o \in OutPoints : GetCoin(new, base, o) = IF o = out THEN coin ELSE GetCoin(cache, base, o)
  <2>1. e # NoEntry /\ e.coin = coin
    BY <1>2, EntryFields
  <2> HIDE DEF e, new
  <2> QED
    BY <2>1, <1>4, <1>5 DEF GetCoin
<1> QED
  BY <1>9, <1>10 DEF View

(* Nothing happens to an unspendable coin. *)
LEMMA AddUnspendable ==
    ASSUME NEW cache, NEW out, NEW coin \in Unspendable, NEW overwrite
    PROVE  AddCoin(cache, out, coin, overwrite) = cache
BY DEF AddCoin

(* SpendCoin makes one coin spent in what the cache shows. *)
LEMMA SpendGood ==
    ASSUME NEW base \in CoinMaps, NEW cache, Good(cache, base), NEW out \in OutPoints,
           cache[out] = NoEntry => base[out] = Spent
    PROVE  LET new == SpendFetched(cache, out)
           IN  /\ Good(new, base)
               /\ View(new, base) = [View(cache, base) EXCEPT ![out] = Spent]
<1> DEFINE new == SpendFetched(cache, out)
           e == [coin |-> Spent, dirty |-> TRUE, fresh |-> FALSE]
<1>0. e \in Entry
  BY DEF Entry, Shown
<1>1. CASE cache[out] = NoEntry
  <2>1. new = cache
    BY <1>1 DEF SpendFetched
  <2>2. View(cache, base)[out] = Spent
    BY <1>1 DEF View, GetCoin
  <2> QED
    BY <2>1, <2>2 DEF View
<1>2. CASE cache[out] # NoEntry /\ cache[out].fresh
  <2>1. new = [cache EXCEPT ![out] = NoEntry]
    BY <1>2 DEF SpendFetched
  <2>2. new \in Caches /\ new[out] = NoEntry
    BY <2>1 DEF Good, Caches
  <2>3. \A o \in OutPoints : o # out => new[o] = cache[o]
    BY <2>1 DEF Good, Caches
  <2>4. base[out] = Spent
    BY <1>2 DEF Good, Coherent
  <2>5. Good(new, base)
    BY <2>2, <2>3 DEF Good, Coherent, ValidEntry
  <2> QED
    BY <2>2, <2>3, <2>4, <2>5 DEF View, GetCoin
<1>3. CASE cache[out] # NoEntry /\ ~cache[out].fresh
  <2>1. new = [cache EXCEPT ![out] = e]
    BY <1>3 DEF SpendFetched
  <2>2. new \in Caches /\ new[out] = e
    BY <1>0, <2>1 DEF Good, Caches
  <2>3. \A o \in OutPoints : o # out => new[o] = cache[o]
    BY <2>1 DEF Good, Caches
  <2>4. Good(new, base)
    BY <2>2, <2>3 DEF Good, Coherent, ValidEntry
  <2>5. e # NoEntry /\ e.coin = Spent
    BY <1>0, EntryFields
  <2>6. View(new, base) = [View(cache, base) EXCEPT ![out] = Spent]
    <3> HIDE DEF e, new
    <3> QED
      BY <2>2, <2>3, <2>5 DEF View, GetCoin
  <2> QED
    BY <2>4, <2>6
<1> QED
  BY <1>1, <1>2, <1>3

(* One entry as it should be over the coin that lies below it, and what    *)
(* the two show together.                                                  *)
EntryOver(e, base) ==
    /\ e \in Entry \cup {NoEntry}
    /\ ValidEntry(e)
    /\ e # NoEntry => (~e.dirty => e.coin = base) /\ (e.fresh => base = Spent)
CoinOf(e, base) == IF e = NoEntry THEN base ELSE e.coin

(* One entry of a flush into CoinsTip(): us lies over base, it over what   *)
(* us shows of it.                                                         *)
LEMMA BatchWriteEntryGood ==
    ASSUME NEW us, NEW it, NEW base, EntryOver(us, base), EntryOver(it, CoinOf(us, base))
    PROVE  /\ ~FreshMisapplied(us, it)
           /\ EntryOver(BatchWriteEntry(us, it), base)
           /\ CoinOf(BatchWriteEntry(us, it), base) = CoinOf(it, CoinOf(us, base))
<1> USE DEF EntryOver, CoinOf
<1> DEFINE new == BatchWriteEntry(us, it)
<1>0. ~FreshMisapplied(us, it)
  BY DEF FreshMisapplied
<1>1. CASE it = NoEntry \/ ~it.dirty
  <2>1. new = us
    BY <1>1 DEF BatchWriteEntry
  <2> QED
    BY <1>0, <1>1, <2>1
<1>2. CASE it # NoEntry /\ it.dirty /\ us = NoEntry
  <2>1. it \in Entry /\ it.fresh \in BOOLEAN
    BY <1>2, EntryFields
  <2>2. CASE it.fresh /\ it.coin = Spent
    BY <1>0, <1>2, <2>1, <2>2 DEF BatchWriteEntry, ValidEntry
  <2>3. CASE ~(it.fresh /\ it.coin = Spent)
    <3>1. new = it
      BY <1>2, <2>3 DEF BatchWriteEntry
    <3> QED
      BY <1>0, <1>2, <2>1, <3>1
  <2> QED
    BY <2>2, <2>3
<1>3. CASE it # NoEntry /\ it.dirty /\ us # NoEntry
  <2>1. it \in Entry /\ us \in Entry /\ it.coin \in Shown /\ us.fresh \in BOOLEAN
    BY <1>3, EntryFields
  <2>2. CASE us.fresh /\ it.coin = Spent
    <3>1. new = NoEntry
      BY <1>3, <2>2 DEF BatchWriteEntry
    <3> QED
      BY <1>0, <1>3, <2>2, <3>1 DEF ValidEntry
  <2>3. CASE ~(us.fresh /\ it.coin = Spent)
    <3> DEFINE e == [coin |-> it.coin, dirty |-> TRUE, fresh |-> us.fresh]
    <3>1. new = e
      BY <1>3, <2>3 DEF BatchWriteEntry
    <3>2. e \in Entry
      BY <2>1 DEF Entry
    <3>3. e # NoEntry /\ e.coin = it.coin /\ e.dirty /\ e.fresh = us.fresh
      BY <3>2, EntryFields
    <3>4. ValidEntry(e)
      BY <2>3, <3>3, <2>1 DEF ValidEntry
    <3> HIDE DEF e
    <3> QED
      BY <1>0, <1>3, <3>1, <3>2, <3>3, <3>4
  <2> QED
    BY <2>2, <2>3
<1> QED
  BY <1>1, <1>2, <1>3

(* A flush of the view into CoinsTip() keeps all that the view showed. *)
LEMMA BatchWriteGood ==
    ASSUME NEW base \in CoinMaps, NEW parent, Good(parent, base),
           NEW child, Good(child, View(parent, base))
    PROVE  /\ \A out \in OutPoints : ~FreshMisapplied(parent[out], child[out])
           /\ Good(BatchWrite(parent, child), base)
           /\ View(BatchWrite(parent, child), base) = View(child, View(parent, base))
<1> DEFINE new == BatchWrite(parent, child)
<1>1. ASSUME NEW out \in OutPoints
      PROVE  /\ ~FreshMisapplied(parent[out], child[out])
             /\ EntryOver(new[out], base[out])
             /\ GetCoin(new, base, out) = GetCoin(child, View(parent, base), out)
  <2>1. EntryOver(parent[out], base[out])
    BY DEF Good, Caches, Coherent, EntryOver
  <2>2. View(parent, base)[out] = CoinOf(parent[out], base[out])
    BY DEF View, GetCoin, CoinOf
  <2>3. EntryOver(child[out], CoinOf(parent[out], base[out]))
    BY <2>2 DEF Good, Caches, Coherent, EntryOver
  <2>4. new[out] = BatchWriteEntry(parent[out], child[out])
    BY DEF BatchWrite
  <2>5. GetCoin(child, View(parent, base), out) = CoinOf(child[out], CoinOf(parent[out], base[out]))
    BY <2>2 DEF GetCoin, CoinOf
  <2>6. GetCoin(new, base, out) = CoinOf(new[out], base[out])
    BY DEF GetCoin, CoinOf
  <2> HIDE DEF new
  <2> QED
    BY <2>1, <2>3, <2>4, <2>5, <2>6, BatchWriteEntryGood
<1>2. new = [out \in OutPoints |-> new[out]]
  BY DEF BatchWrite
<1>3. Good(new, base)
  <2> HIDE DEF new
  <2> QED
    BY <1>1, <1>2 DEF Good, Caches, Coherent, EntryOver
<1> QED
  BY <1>1, <1>3 DEF View

(* A flush of CoinsTip() brings all that it showed to the disk. *)
LEMMA BatchWriteDBGood ==
    ASSUME NEW base \in CoinMaps, NEW cache, Good(cache, base)
    PROVE  BatchWriteDB(base, cache) = View(cache, base)
BY DEF BatchWriteDB, View, GetCoin, Good, Coherent

(* Uncache drops an entry that shows what is below it. *)
LEMMA UncacheGood ==
    ASSUME NEW base \in CoinMaps, NEW cache, Good(cache, base), NEW out \in OutPoints,
           cache[out] # NoEntry, ~cache[out].dirty
    PROVE  LET new == [cache EXCEPT ![out] = NoEntry]
           IN  Good(new, base) /\ View(new, base) = View(cache, base)
<1> DEFINE new == [cache EXCEPT ![out] = NoEntry]
<1>1. new \in Caches /\ new[out] = NoEntry
  BY DEF Good, Caches
<1>2. \A o \in OutPoints : o # out => new[o] = cache[o]
  BY DEF Good, Caches
<1>3. Good(new, base)
  BY <1>1, <1>2 DEF Good, Coherent, ValidEntry
<1>4. \A o \in OutPoints : GetCoin(new, base, o) = GetCoin(cache, base, o)
  BY <1>1, <1>2 DEF GetCoin, Good, Coherent
<1> QED
  BY <1>3, <1>4 DEF View
-----------------------------------------------------------------------------
(* The inductive invariant: both caches are good, and without a view its   *)
(* cache is empty.                                                         *)
IInv ==
    /\ db \in CoinMaps
    /\ Good(cacheTip, db)
    /\ Good(cacheView, tipCoins)
    /\ dbBlock \in Blocks
    /\ tipHash \in Blocks \cup {NullHash} /\ viewHash \in Blocks \cup {NullHash}
    /\ open \in BOOLEAN
    /\ open => viewHash # NullHash /\ tipHash # NullHash
    /\ ~open => cacheView = Empty /\ viewHash = NullHash

(* The invariant says what TypeOK, FlagsCoherent and FreshNeverMisapplied  *)
(* say.                                                                    *)
LEMMA InvariantImplies ==
    IInv => TypeOK /\ FlagsCoherent /\ FreshNeverMisapplied
<1> SUFFICES ASSUME IInv PROVE TypeOK /\ FlagsCoherent /\ FreshNeverMisapplied
  OBVIOUS
<1>1. TypeOK /\ FlagsCoherent
  BY DEF IInv, TypeOK, FlagsCoherent, Good, Caches, CoinMaps
<1>2. FreshNeverMisapplied
  BY BatchWriteGood DEF IInv, FreshNeverMisapplied, tipCoins
<1> QED
  BY <1>1, <1>2

(* Initially the caches are empty and the three maps are the database. *)
LEMMA InitGood == Init => IInv /\ Plain!Init
<1> SUFFICES ASSUME Init PROVE IInv /\ Plain!Init
  OBVIOUS
<1>1. db \in CoinMaps
  BY DEF Init, CoinMaps
<1>2. tipCoins = db /\ viewCoins = db
  BY <1>1, EmptyGood DEF Init, tipCoins, viewCoins
<1>3. IInv
  BY <1>1, <1>2, EmptyGood DEF Init, IInv
<1>4. Plain!Init
  BY <1>2 DEF Init, Plain!Init, tipBlock, GetBestBlock, Shown
<1> QED
  BY <1>3, <1>4

(* FetchCoin in both caches shows nothing new. *)
LEMMA FetchBothGood ==
    ASSUME IInv, NEW out \in OutPoints
    PROVE  LET tip == IF cacheView[out] = NoEntry THEN FetchCoin(cacheTip, db, out) ELSE cacheTip
               view == FetchCoin(cacheView, tipCoins, out)
           IN  /\ Good(tip, db) /\ View(tip, db) = tipCoins
               /\ Good(view, tipCoins) /\ View(view, tipCoins) = viewCoins
               /\ view[out] = NoEntry => tipCoins[out] = Spent
               /\ tipCoins \in CoinMaps /\ viewCoins \in CoinMaps
<1>1. tipCoins \in CoinMaps /\ viewCoins \in CoinMaps
  BY ViewType DEF IInv, tipCoins, viewCoins, Good
<1>2. Good(cacheTip, db) /\ Good(cacheView, tipCoins) /\ db \in CoinMaps
  BY DEF IInv
<1>3. LET tip == FetchCoin(cacheTip, db, out) IN Good(tip, db) /\ View(tip, db) = tipCoins
  BY <1>2, FetchGood DEF tipCoins
<1>4. LET view == FetchCoin(cacheView, tipCoins, out)
      IN  /\ Good(view, tipCoins) /\ View(view, tipCoins) = viewCoins
          /\ view[out] = NoEntry => tipCoins[out] = Spent
  BY <1>1, <1>2, FetchGood DEF viewCoins
<1> QED
  BY <1>1, <1>2, <1>3, <1>4 DEF tipCoins

(* Every step keeps the invariant and is a step of the plain maps, or      *)
(* changes nothing that they show.                                         *)
LEMMA StepGood ==
    IInv /\ [Next]_vars => IInv' /\ [Plain!Next]_(Plain!vars) /\ [Effective]_vars
<1> SUFFICES ASSUME IInv, [Next]_vars
             PROVE  IInv' /\ [Plain!Next]_(Plain!vars) /\ Effective
  OBVIOUS
<1> DEFINE viewBlock == GetBestBlock(viewHash, tipBlock)
<1>0. /\ db \in CoinMaps /\ Good(cacheTip, db) /\ Good(cacheView, tipCoins)
      /\ tipCoins \in CoinMaps /\ viewCoins \in CoinMaps
  BY ViewType DEF IInv, tipCoins, viewCoins, Good
<1>a. tipBlock \in Blocks /\ (tipHash # NullHash => tipBlock = tipHash)
  BY DEF IInv, tipBlock, GetBestBlock
<1>b. ASSUME UNCHANGED <<db, dbBlock, tipHash, viewHash, open>>, open, NEW out \in OutPoints,
             NEW coin \in Shown,
             Good(cacheTip', db), View(cacheTip', db) = tipCoins,
             Good(cacheView', tipCoins), View(cacheView', tipCoins) = [viewCoins EXCEPT ![out] = coin]
      PROVE  IInv' /\ [Plain!Next]_(Plain!vars) /\ Plain!Change(out, coin)
  <2>1. tipCoins' = tipCoins /\ viewCoins' = [viewCoins EXCEPT ![out] = coin]
    BY <1>b DEF tipCoins, viewCoins
  <2>2. IInv'
    BY <1>b, <2>1 DEF IInv
  <2>3. Plain!Change(out, coin)
    BY <1>b, <2>1 DEF Plain!Change, tipBlock, GetBestBlock
  <2> QED
    BY <2>2, <2>3 DEF Plain!Next, Shown
<1>c. ASSUME UNCHANGED <<db, dbBlock, tipHash, viewHash, open>>,
             Good(cacheTip', db), View(cacheTip', db) = tipCoins,
             Good(cacheView', tipCoins), View(cacheView', tipCoins) = viewCoins,
             ~open => cacheView' = Empty
      PROVE  IInv' /\ [Plain!Next]_(Plain!vars)
  <2>1. tipCoins' = tipCoins /\ viewCoins' = viewCoins
    BY <1>c DEF tipCoins, viewCoins
  <2>2. IInv'
    BY <1>c, <2>1 DEF IInv
  <2> QED
    BY <1>c, <2>1, <2>2 DEF Plain!vars, tipBlock, GetBestBlock
<1>1. ASSUME OpenView
      PROVE  IInv' /\ [Plain!Next]_(Plain!vars)
  <2>1. tipCoins' = tipCoins /\ viewCoins' = viewCoins
    BY <1>1 DEF OpenView, tipCoins, viewCoins
  <2>2. tipBlock' = tipBlock /\ viewBlock' = tipBlock /\ viewBlock = tipBlock
    BY <1>1, <1>a, CacheAssumption DEF OpenView, tipBlock, GetBestBlock, IInv
  <2>3. IInv'
    BY <1>1, <1>a, <2>1, CacheAssumption DEF OpenView, IInv
  <2>4. Plain!Open
    BY <1>1, <2>1, <2>2 DEF OpenView, Plain!Open, IInv
  <2> QED
    BY <2>3, <2>4 DEF Plain!Next
<1>2. ASSUME NEW out \in OutPoints, AccessCoin(out)
      PROVE  IInv' /\ [Plain!Next]_(Plain!vars)
  BY <1>2, <1>c, FetchBothGood DEF AccessCoin, FetchBoth
<1>3. ASSUME NEW out \in OutPoints, AccessTip(out)
      PROVE  IInv' /\ [Plain!Next]_(Plain!vars)
  <2>1. Good(cacheTip', db) /\ View(cacheTip', db) = tipCoins
    BY <1>0, <1>3, FetchGood DEF AccessTip, tipCoins
  <2>2. Good(cacheView', tipCoins) /\ View(cacheView', tipCoins) = viewCoins /\ cacheView' = Empty
    BY <1>0, <1>3 DEF AccessTip, viewCoins, IInv
  <2> QED
    BY <1>3, <1>c, <2>1, <2>2 DEF AccessTip
<1>4. ASSUME NEW out \in OutPoints, SpendCoin(out)
      PROVE  IInv' /\ [Plain!Next]_(Plain!vars) /\ Plain!Change(out, Spent)
  <2> DEFINE view == FetchCoin(cacheView, tipCoins, out)
  <2>1. /\ Good(cacheTip', db) /\ View(cacheTip', db) = tipCoins
        /\ Good(view, tipCoins) /\ View(view, tipCoins) = viewCoins
        /\ view[out] = NoEntry => tipCoins[out] = Spent
    BY <1>4, FetchBothGood DEF SpendCoin
  <2>2. cacheView' = SpendFetched(view, out)
    BY <1>4 DEF SpendCoin
  <2> HIDE DEF view
  <2>3. Good(cacheView', tipCoins) /\ View(cacheView', tipCoins) = [viewCoins EXCEPT ![out] = Spent]
    BY <1>0, <2>1, <2>2, SpendGood
  <2>4. Spent \in Shown
    BY DEF Shown
  <2> QED
    BY <1>4, <1>b, <2>1, <2>3, <2>4 DEF SpendCoin
<1>5. ASSUME NEW out \in OutPoints, Uncache(out)
      PROVE  IInv' /\ [Plain!Next]_(Plain!vars)
  <2>1. Good(cacheTip', db) /\ View(cacheTip', db) = tipCoins
    BY <1>0, <1>5, UncacheGood DEF Uncache, tipCoins
  <2>2. Good(cacheView', tipCoins) /\ View(cacheView', tipCoins) = viewCoins /\ cacheView' = Empty
    BY <1>0, <1>5 DEF Uncache, viewCoins, IInv
  <2> QED
    BY <1>5, <1>c, <2>1, <2>2 DEF Uncache
<1>6. ASSUME NEW out \in OutPoints, NEW coin \in Coins, NEW fCoinbase \in BOOLEAN,
             AddNewCoin(out, coin, fCoinbase)
      PROVE  /\ IInv' /\ [Plain!Next]_(Plain!vars)
             /\ coin \notin Unspendable => Plain!Change(out, coin)
  <2>1. Good(cacheTip', db) /\ View(cacheTip', db) = tipCoins
    BY <1>0, <1>6 DEF AddNewCoin, tipCoins
  <2>2. CASE coin \in Unspendable
    <3>1. cacheView' = cacheView
      BY <1>6, <2>2, AddUnspendable DEF AddNewCoin
    <3> QED
      BY <1>0, <1>6, <1>c, <2>1, <2>2, <3>1 DEF AddNewCoin, viewCoins
  <2>3. CASE coin \notin Unspendable
    <3>1. Good(cacheView', tipCoins) /\ View(cacheView', tipCoins) = [viewCoins EXCEPT ![out] = coin]
      BY <1>0, <1>6, <2>3, AddGood DEF AddNewCoin, viewCoins
    <3> QED
      BY <1>6, <1>b, <2>1, <2>3, <3>1 DEF AddNewCoin, Shown
  <2> QED
    BY <2>2, <2>3
<1>7. ASSUME NEW out \in OutPoints, NEW coin \in Coins, RestoreCoin(out, coin)
      PROVE  /\ IInv' /\ [Plain!Next]_(Plain!vars)
             /\ coin \notin Unspendable => Plain!Change(out, coin)
  <2> DEFINE view == FetchCoin(cacheView, tipCoins, out)
             overwrite == viewCoins[out] # Spent
  <2>1. /\ Good(cacheTip', db) /\ View(cacheTip', db) = tipCoins
        /\ Good(view, tipCoins) /\ View(view, tipCoins) = viewCoins
    BY <1>7, FetchBothGood DEF RestoreCoin
  <2>2. cacheView' = AddCoin(view, out, coin, overwrite)
    BY <1>7 DEF RestoreCoin
  <2>3. overwrite \in BOOLEAN /\ (overwrite \/ View(view, tipCoins)[out] = Spent)
    BY <2>1
  <2> HIDE DEF view, overwrite
  <2>4. CASE coin \in Unspendable
    <3>1. cacheView' = view
      BY <2>2, <2>4, AddUnspendable
    <3> QED
      BY <1>7, <1>c, <2>1, <2>4, <3>1 DEF RestoreCoin
  <2>5. CASE coin \notin Unspendable
    <3>1. Good(cacheView', tipCoins) /\ View(cacheView', tipCoins) = [viewCoins EXCEPT ![out] = coin]
      BY <1>0, <2>1, <2>2, <2>3, <2>5, AddGood
    <3> QED
      BY <1>7, <1>b, <2>1, <2>5, <3>1 DEF RestoreCoin, Shown
  <2> QED
    BY <2>4, <2>5
<1>8. ASSUME NEW hash \in Blocks, SetBestBlock(hash)
      PROVE  IInv' /\ [Plain!Next]_(Plain!vars)
  <2>1. tipCoins' = tipCoins /\ viewCoins' = viewCoins /\ tipBlock' = tipBlock
    BY <1>8 DEF SetBestBlock, tipCoins, viewCoins, tipBlock
  <2>2. viewBlock' = hash
    BY <1>8, CacheAssumption DEF SetBestBlock, GetBestBlock
  <2>3. IInv'
    BY <1>8, <2>1, CacheAssumption DEF SetBestBlock, IInv
  <2>4. Plain!SetBestBlock(hash)
    BY <1>8, <2>1, <2>2 DEF SetBestBlock, Plain!SetBestBlock
  <2> QED
    BY <2>3, <2>4 DEF Plain!Next
<1>9. ASSUME FlushView
      PROVE  IInv' /\ [Plain!Next]_(Plain!vars) /\ Plain!Commit
  <2>1. Good(cacheTip', db) /\ View(cacheTip', db) = viewCoins
    BY <1>0, <1>9, BatchWriteGood DEF FlushView, tipCoins, viewCoins
  <2>2. tipCoins' = viewCoins
    BY <1>9, <2>1 DEF FlushView, tipCoins
  <2>3. Good(cacheView', tipCoins') /\ viewCoins' = viewCoins
    BY <1>0, <1>9, <2>2, EmptyGood DEF FlushView, viewCoins
  <2>4. tipBlock' = viewBlock /\ viewBlock' = viewBlock
    BY <1>9 DEF FlushView, tipBlock, GetBestBlock, IInv
  <2>5. IInv'
    BY <1>9, <2>1, <2>2, <2>3 DEF FlushView, IInv
  <2>6. Plain!Commit
    BY <1>9, <2>2, <2>3, <2>4 DEF FlushView, Plain!Commit
  <2> QED
    BY <2>5, <2>6 DEF Plain!Next
<1>10. ASSUME DropView
       PROVE  IInv' /\ [Plain!Next]_(Plain!vars) /\ Plain!Discard
  <2>1. tipCoins' = tipCoins /\ tipBlock' = tipBlock
    BY <1>10 DEF DropView, tipCoins, tipBlock
  <2>2. Good(cacheView', tipCoins) /\ viewCoins' = tipCoins
    BY <1>0, <1>10, <2>1, EmptyGood DEF DropView, viewCoins
  <2>3. viewBlock' = tipBlock
    BY <1>10, <2>1 DEF DropView, GetBestBlock
  <2>4. IInv'
    BY <1>10, <2>1, <2>2 DEF DropView, IInv
  <2>5. Plain!Discard
    BY <1>10, <2>1, <2>2, <2>3 DEF DropView, Plain!Discard
  <2> QED
    BY <2>4, <2>5 DEF Plain!Next
<1>11. ASSUME FlushTip
       PROVE  IInv' /\ [Plain!Next]_(Plain!vars) /\ Plain!Flush
  <2>1. db' = tipCoins
    BY <1>0, <1>11, BatchWriteDBGood DEF FlushTip, tipCoins
  <2>2. Good(cacheTip', db') /\ tipCoins' = tipCoins
    BY <1>0, <1>11, <2>1, EmptyGood DEF FlushTip, tipCoins
  <2>3. tipBlock' = tipBlock /\ viewBlock' = viewBlock /\ dbBlock' = tipBlock
    BY <1>11 DEF FlushTip, tipBlock, GetBestBlock
  <2>4. viewCoins' = viewCoins
    BY <1>11, <2>2 DEF FlushTip, viewCoins
  <2>5. IInv'
    BY <1>0, <1>11, <1>a, <2>1, <2>2 DEF FlushTip, IInv
  <2>6. Plain!Flush
    BY <1>11, <2>1, <2>2, <2>3, <2>4 DEF FlushTip, Plain!Flush
  <2> QED
    BY <2>5, <2>6 DEF Plain!Next
<1>12. ASSUME UNCHANGED vars
       PROVE  IInv' /\ [Plain!Next]_(Plain!vars)
  <2>1. tipCoins' = tipCoins /\ viewCoins' = viewCoins
    BY <1>12 DEF vars, tipCoins, viewCoins
  <2> QED
    BY <1>12, <2>1 DEF vars, IInv, Plain!vars, tipBlock, GetBestBlock
<1>13. IInv' /\ [Plain!Next]_(Plain!vars)
  BY <1>1, <1>2, <1>3, <1>4, <1>5, <1>6, <1>7, <1>8, <1>9, <1>10, <1>11, <1>12 DEF Next
<1>14. Effective
  BY <1>4, <1>6, <1>7, <1>9, <1>10, <1>11 DEF Effective
<1> QED
  BY <1>13, <1>14

(* DIRTY and FRESH always mean what coins.h says they mean, in CoinsTip()  *)
(* and in the temporary view, and every entry has one of the combinations  *)
(* that coins.h lists.                                                     *)
THEOREM FlagsMeanWhatTheySay == Spec => [](TypeOK /\ FlagsCoherent)
<1> QED
  BY InitGood, StepGood, InvariantImplies, PTL DEF Spec

(* The logic_error of CCoinsViewCache::BatchWrite is never thrown. *)
THEOREM BatchWriteNeverThrows == Spec => []FreshNeverMisapplied
<1> QED
  BY InitGood, StepGood, InvariantImplies, PTL DEF Spec

(* The caches are transparent: CCoinsViewCache over CCoinsViewCache over   *)
(* CCoinsViewDB implements the plain maps of CoinsView.                    *)
THEOREM CachesAreTransparent == Spec => ImplementsCoinsView
<1> QED
  BY InitGood, StepGood, PTL DEF Spec, Plain!Spec, ImplementsCoinsView

(* No call on the caches is lost: what is spent is spent, what is added or *)
(* restored is there, and a flush brings down all of it.                   *)
THEOREM NoCallIsLost == Spec => CallsTakeEffect
<1> QED
  BY InitGood, StepGood, PTL DEF Spec, CallsTakeEffect
=============================================================================
