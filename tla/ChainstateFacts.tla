-------------------------- MODULE ChainstateFacts ---------------------------
(***************************************************************************)
(* The inductive invariant of Chainstate, and the facts about paths, coins *)
(* and interrupted flushes that its proof rests on.                        *)
(***************************************************************************)
EXTENDS Chainstate, WellFoundedInduction, TLAPS

(* The least-number principle, for sets. *)
LEMMA LeastNatural ==
    ASSUME NEW T \in SUBSET Nat, T # {}
    PROVE  \E n \in T : \A m \in T : n <= m
<1> DEFINE R == OpToRel(<, Nat)
<1>1. IsWellFoundedOn(R, Nat)
    BY NatLessThanWellFounded
<1> HIDE DEF R
<1>2. \E x \in T : \A y \in T : ~(<<y, x>> \in R)
    BY <1>1, WFMin, Zenon
<1>3. \A x, y \in Nat : (<<y, x>> \in R) <=> y < x
    BY Zenon DEF R, OpToRel
<1>4. PICK x \in T : \A y \in T : ~(<<y, x>> \in R)
    BY <1>2
<1>5. \A y \in T : ~(y < x)
    BY <1>3, <1>4, Zenon
<1> QED BY <1>5

(* What the provers know of sequences, stated once. *)
LEMMA SeqEqual ==
    ASSUME NEW S, NEW p \in Seq(S), NEW q \in Seq(S), Len(p) = Len(q),
           \A k \in 1..Len(p) : p[k] = q[k]
    PROVE  p = q
OBVIOUS

(* Only the empty sequence has length 0. *)
LEMMA EmptySeq == ASSUME NEW S, NEW p \in Seq(S) PROVE p = <<>> <=> Len(p) = 0
OBVIOUS

(* A sequence is its own longest prefix. *)
LEMMA SubSeqFull == ASSUME NEW S, NEW p \in Seq(S) PROVE SubSeq(p, 1, Len(p)) = p
OBVIOUS

(* A prefix has the elements of the sequence. *)
LEMMA PrefixProperties ==
    ASSUME NEW S, NEW p \in Seq(S), NEW n \in Nat, n <= Len(p)
    PROVE  /\ SubSeq(p, 1, n) \in Seq(S)
           /\ Len(SubSeq(p, 1, n)) = n
           /\ \A k \in 1..n : SubSeq(p, 1, n)[k] = p[k]
OBVIOUS
-----------------------------------------------------------------------------
(* The block index is a tree of paths that end at Root, in which a block   *)
(* that has been connected only has connected ancestors.                   *)
PathsOK(ix) ==
    \A b \in DOMAIN ix :
        /\ ix[b].path \in Seq(DOMAIN ix)
        /\ Len(ix[b].path) >= 1
        /\ Tip(ix[b].path) = b
        /\ ix[b].path[1] = Root
        /\ \A k \in 1..Len(ix[b].path) :
              /\ ix[ix[b].path[k]].path = SubSeq(ix[b].path, 1, k)
              /\ ix[b].undo => ix[ix[b].path[k]].undo

Ancestors(b) == {index[b].path[k] : k \in 1..(Len(index[b].path) - 1)}

(* What ConnectBlock has established of a block that was connected once:   *)
(* its transactions are new to its chain, and so is each spend; and what   *)
(* they spend was created before.                                          *)
WasConnected(b) ==
    /\ \A c \in Ancestors(b) : /\ TxsOf(b) \cap TxsOf(c) = {}
                               /\ BlockInputs(b) \cap BlockInputs(c) = {}
    /\ BlockInputs(b) \subseteq RootCoins \cup UNION {BlockOutputs(c) : c \in Ancestors(b) \cup {b}}

(* A coins database in the middle of a flush from the coins old to new. *)
Mixture(coins, old, new) ==
    /\ old \cap new \subseteq coins
    /\ coins \subseteq old \cup new

IndexInv ==
    /\ PathsOK(index)
    /\ PathsOK(diskIndex)
    /\ \A b \in DOMAIN diskIndex : /\ index[b].path = diskIndex[b].path
                                   /\ index[b].vtx = diskIndex[b].vtx
                                   /\ diskIndex[b].undo => index[b].undo
    /\ \A b \in DOMAIN index : index[b].undo => WasConnected(b)
    /\ index[Root] = RootIndex /\ diskIndex[Root] = RootIndex
    /\ node = "down" => index = diskIndex

ChainInv ==
    IF node = "down"
    THEN m_chain = <<>>
    ELSE /\ Len(m_chain) >= 1
         /\ Tip(m_chain) \in DOMAIN index
         /\ m_chain = index[Tip(m_chain)].path
         /\ index[Tip(m_chain)].undo
         /\ coinsTip = Utxo(m_chain)

StoreInv ==
    IF dbHeads = <<>>
    THEN /\ node # "flushing"
         /\ dbBest \in DOMAIN diskIndex
         /\ diskIndex[dbBest].undo
         /\ coinsDB = Utxo(index[dbBest].path)
    ELSE /\ node \in {"flushing", "down"}
         /\ dbBest = NoTip
         /\ dbHeads[1] \in DOMAIN diskIndex /\ diskIndex[dbHeads[1]].undo
         /\ dbHeads[2] \in DOMAIN diskIndex /\ diskIndex[dbHeads[2]].undo
         /\ node = "flushing" => dbHeads[1] = Tip(m_chain)
         /\ Mixture(coinsDB, Utxo(index[dbHeads[2]].path), Utxo(index[dbHeads[1]].path))

IInv == TypeOK /\ IndexInv /\ ChainInv /\ StoreInv

(* The path of a known block leads from Root to it, through known blocks   *)
(* whose own paths are its prefixes.                                       *)
LEMMA PathElements ==
    ASSUME NEW ix, PathsOK(ix), NEW b \in DOMAIN ix
    PROVE  /\ ix[b].path \in Seq(DOMAIN ix)
           /\ Len(ix[b].path) >= 1
           /\ Tip(ix[b].path) = b
           /\ ix[b].path[1] = Root
           /\ \A k \in 1..Len(ix[b].path) :
                 /\ ix[b].path[k] \in DOMAIN ix
                 /\ ix[ix[b].path[k]].path = SubSeq(ix[b].path, 1, k)
                 /\ ix[b].undo => ix[ix[b].path[k]].undo
<1>1. /\ ix[b].path \in Seq(DOMAIN ix)
      /\ Len(ix[b].path) >= 1
      /\ Tip(ix[b].path) = b
      /\ ix[b].path[1] = Root
    BY DEF PathsOK
<1>2. \A k \in 1..Len(ix[b].path) : ix[b].path[k] \in DOMAIN ix
    BY <1>1
<1>3. \A k \in 1..Len(ix[b].path) :
         /\ ix[ix[b].path[k]].path = SubSeq(ix[b].path, 1, k)
         /\ ix[b].undo => ix[ix[b].path[k]].undo
    BY DEF PathsOK
<1> QED BY <1>1, <1>2, <1>3

-----------------------------------------------------------------------------
(* Types of what a transaction, and a block, does to the coins and rows.   *)
Rows == [id : Ids, locator : OutPoint, height : Nat, claim : Claims]

(* A transaction spends outpoints, at least one, and creates its own.      *)
LEMMA TxTypes ==
    ASSUME NEW t \in Txs
    PROVE  /\ Inputs(t) \subseteq OutPoint
           /\ Inputs(t) # {}
           /\ Outputs(t) \subseteq OutPoint
           /\ \A out \in Outputs(t) : out[1] = t
<1>1. vin[t] \subseteq [prevout : OutPoint, claim : Claims] /\ vin[t] # {}
    BY TxAssumption
<1>2. Inputs(t) \subseteq OutPoint /\ Inputs(t) # {}
    BY <1>1 DEF Inputs
<1>3. vout[t] \in Seq(TxOut)
    BY TxAssumption
<1>4. DOMAIN vout[t] \subseteq Nat
    BY <1>3
<1>5. Outputs(t) \subseteq {t} \X Nat
    BY <1>4 DEF Outputs
<1>6. {t} \X Nat \subseteq OutPoint
    BY DEF OutPoint
<1> QED BY <1>2, <1>5, <1>6

(* ExtractAnnouncements gives rows located in the transaction.             *)
LEMMA RowTypes ==
    ASSUME NEW t \in Txs, NEW h \in Nat
    PROVE  /\ ExtractAnnouncements(t, h) \subseteq Rows
           /\ \A a \in ExtractAnnouncements(t, h) : a.locator[1] = t
<1>1. vout[t] \in Seq(TxOut)
    BY TxAssumption
<1>2. \A i \in DOMAIN vout[t] : i \in Nat /\ vout[t][i] \in TxOut
    BY <1>1
<1>3. \A i \in Nat : <<t, i>> \in OutPoint
    BY DEF OutPoint
<1> QED BY <1>2, <1>3 DEF ExtractAnnouncements, Rows, TxOut

(* No coin below Root was made by a transaction under study.               *)
LEMMA RootCoinsType == RootCoins \subseteq OutPoint /\ \A out \in RootCoins : out[1] \notin Txs
BY ChainAssumption, TxAssumption DEF OutPoint

(* The types of what a known block spends, creates and announces.          *)
LEMMA BlockTypes ==
    ASSUME TypeOK, NEW b \in DOMAIN index
    PROVE  /\ TxsOf(b) \subseteq Txs
           /\ BlockInputs(b) \subseteq OutPoint
           /\ BlockOutputs(b) \subseteq OutPoint
           /\ \A out \in BlockOutputs(b) : out[1] \in TxsOf(b)
           /\ Height(index[b].path) \in Nat
           /\ \A h \in Nat : BlockAnnouncements(b, h) \subseteq Rows
           /\ NewAnnouncements(b) \subseteq Rows
<1>1. index[b] \in BlockIndex
    BY DEF TypeOK
<1>2. index[b].vtx \in Seq(Txs)
  <2>1. index[b].vtx \in VtxChoices \cup {<<>>}
    BY <1>1 DEF BlockIndex
  <2>2. <<>> \in Seq(Txs)
    OBVIOUS
  <2> QED BY <2>1, <2>2, ChainAssumption, Zenon
<1>3. TxsOf(b) \subseteq Txs
    BY <1>2 DEF TxsOf
<1>4. BlockInputs(b) \subseteq OutPoint /\ BlockOutputs(b) \subseteq OutPoint
    BY <1>3, TxTypes DEF BlockInputs, BlockOutputs
<1>5. \A out \in BlockOutputs(b) : out[1] \in TxsOf(b)
    BY <1>3, TxTypes DEF BlockOutputs
<1>6. Height(index[b].path) \in Int
    BY <1>1, ChainAssumption DEF BlockIndex, Height
<1>7. Height(index[b].path) \in Nat
    BY <1>1, ChainAssumption DEF BlockIndex, Height
<1>8. \A h \in Nat : BlockAnnouncements(b, h) \subseteq Rows
    BY <1>3, RowTypes DEF BlockAnnouncements
<1> QED BY <1>3, <1>4, <1>5, <1>7, <1>8 DEF NewAnnouncements
-----------------------------------------------------------------------------
(* The coins of a chain in terms of the set of its blocks. *)
BlockSet(p) == {p[k] : k \in DOMAIN p}
Created(bs) == RootCoins \cup UNION {BlockOutputs(b) : b \in bs}
Spent(bs) == UNION {BlockInputs(b) : b \in bs}

(* The coins of a chain are what was created on it less what was spent.    *)
LEMMA UtxoSets == \A p : Utxo(p) = Created(BlockSet(p)) \ Spent(BlockSet(p))
BY DEF Utxo, Created, Spent, BlockSet

(* The path of a block is that of its parent and the block itself. *)
LEMMA PathSplit ==
    ASSUME NEW S, NEW p \in Seq(S), Len(p) >= 1
    PROVE  /\ Pprev(p) \in Seq(S)
           /\ Len(Pprev(p)) = Len(p) - 1
           /\ \A k \in 1..(Len(p) - 1) : Pprev(p)[k] = p[k]
           /\ BlockSet(Pprev(p)) = {p[k] : k \in 1..(Len(p) - 1)}
           /\ BlockSet(p) = BlockSet(Pprev(p)) \cup {Tip(p)}
           /\ BlockSet(p) \subseteq S
<1> DEFINE n == Len(p) - 1
<1>0. n \in Nat /\ n <= Len(p)
    OBVIOUS
<1> HIDE DEF n
<1>a. /\ SubSeq(p, 1, n) \in Seq(S)
      /\ Len(SubSeq(p, 1, n)) = n
      /\ \A k \in 1..n : SubSeq(p, 1, n)[k] = p[k]
    BY <1>0, PrefixProperties
<1>b. Pprev(p) = SubSeq(p, 1, n)
    BY DEF Pprev, n
<1>c. Pprev(p) \in Seq(S) /\ Len(Pprev(p)) = n
    BY <1>0, <1>a, <1>b
<1>1. Pprev(p) \in Seq(S) /\ Len(Pprev(p)) = Len(p) - 1
    BY <1>c DEF n
<1>2. \A k \in 1..(Len(p) - 1) : Pprev(p)[k] = p[k]
    BY <1>0, <1>a, <1>b DEF n
<1>3. DOMAIN Pprev(p) = 1..(Len(p) - 1) /\ DOMAIN p = 1..Len(p)
    BY <1>1
<1>4. BlockSet(Pprev(p)) = {p[k] : k \in 1..(Len(p) - 1)}
    BY <1>2, <1>3 DEF BlockSet
<1>5. BlockSet(p) = {p[k] : k \in 1..(Len(p) - 1)} \cup {p[Len(p)]}
    BY <1>3 DEF BlockSet
<1>6. BlockSet(p) \subseteq S
    BY <1>3 DEF BlockSet
<1> QED BY <1>1, <1>2, <1>4, <1>5, <1>6 DEF Tip

(* The ancestors of a block on the path of another are the blocks before   *)
(* it on that path.                                                        *)
LEMMA AncestorsOnPath ==
    ASSUME PathsOK(index), NEW b \in DOMAIN index, NEW k \in 1..Len(index[b].path)
    PROVE  /\ index[b].path[k] \in DOMAIN index
           /\ Ancestors(index[b].path[k]) = {index[b].path[j] : j \in 1..(k - 1)}
           /\ Tip(index[b].path) = b
<1> DEFINE p == index[b].path
           c == p[k]
<1>1. p \in Seq(DOMAIN index) /\ Len(p) >= 1 /\ Tip(p) = b
    BY DEF PathsOK
<1>2. index[c].path = SubSeq(p, 1, k)
    BY DEF PathsOK
<1>3. c \in DOMAIN index
    BY <1>1
<1> HIDE DEF p
<1>4. Len(SubSeq(p, 1, k)) = k /\ \A j \in 1..k : SubSeq(p, 1, k)[j] = p[j]
    BY <1>1 DEF p
<1>5. Ancestors(c) = {SubSeq(p, 1, k)[j] : j \in 1..(k - 1)}
    BY <1>2, <1>4 DEF Ancestors
<1>6. {SubSeq(p, 1, k)[j] : j \in 1..(k - 1)} = {p[j] : j \in 1..(k - 1)}
    BY <1>4
<1> QED BY <1>1, <1>3, <1>5, <1>6 DEF p

(* What the blocks of a connected path spend, they or Root created. *)
LEMMA SpentIsCreated ==
    ASSUME IndexInv, NEW b \in DOMAIN index, index[b].undo
    PROVE  Spent(BlockSet(index[b].path)) \subseteq Created(BlockSet(index[b].path))
<1> DEFINE p == index[b].path
           bs == BlockSet(p)
<1>0. PathsOK(index)
    BY DEF IndexInv
<1>1. p \in Seq(DOMAIN index)
    BY <1>0 DEF PathsOK
<1>2. SUFFICES ASSUME NEW k \in 1..Len(p)
               PROVE  BlockInputs(p[k]) \subseteq Created(bs)
    BY <1>1, <1>2 DEF Spent, BlockSet
<1>3. p[k] \in DOMAIN index /\ index[p[k]].undo
    BY <1>0, <1>1 DEF PathsOK
<1>4. WasConnected(p[k])
    BY <1>3 DEF IndexInv
<1>5. Ancestors(p[k]) = {p[j] : j \in 1..(k - 1)}
    BY <1>0, AncestorsOnPath, Zenon
<1>6. Ancestors(p[k]) \cup {p[k]} \subseteq bs
    BY <1>1, <1>5 DEF BlockSet
<1> HIDE DEF bs, p
<1> QED BY <1>4, <1>6 DEF WasConnected, Created

(* The sets that an own block and its ancestors, of disjoint transactions, *)
(* create are disjoint.                                                    *)
LEMMA CreatedDisjoint ==
    ASSUME TypeOK, NEW b \in DOMAIN index, NEW bs \in SUBSET DOMAIN index,
           \A c \in bs : TxsOf(b) \cap TxsOf(c) = {}
    PROVE  BlockOutputs(b) \cap Created(bs) = {}
<1>1. \A out \in BlockOutputs(b) : out[1] \in TxsOf(b) /\ out[1] \in Txs
    BY BlockTypes
<1>2. \A c \in bs : \A out \in BlockOutputs(c) : out[1] \in TxsOf(c)
    BY BlockTypes
<1> QED BY <1>1, <1>2, RootCoinsType DEF Created

(* Disconnecting the last block of a connected path is clean and gives     *)
(* back the coins of the path without it.                                  *)
LEMMA DisconnectCoins ==
    ASSUME TypeOK, IndexInv, NEW b \in DOMAIN index, index[b].undo,
           Len(index[b].path) > 1
    PROVE  LET coins == Utxo(index[b].path)
           IN  /\ DisconnectIsClean(b, coins)
               /\ UndoCoins(coins, b) = Utxo(Pprev(index[b].path))
<1> DEFINE p == index[b].path
           bs == BlockSet(Pprev(p))
           out == BlockOutputs(b)
           in == BlockInputs(b)
<1>1. p \in Seq(DOMAIN index) /\ Tip(p) = b /\ PathsOK(index)
    BY DEF IndexInv, PathsOK
<1>2. /\ bs = Ancestors(b)
      /\ BlockSet(p) = bs \cup {b}
      /\ bs \subseteq DOMAIN index
    BY <1>1, PathSplit, SMTT(30) DEF Ancestors
<1>3. WasConnected(b)
    BY DEF IndexInv
<1>4. /\ out \cap Created(bs) = {}
      /\ in \cap Spent(bs) = {}
      /\ in \subseteq Created(bs) \cup out
  <2>1. out \cap Created(bs) = {}
    BY <1>2, <1>3, CreatedDisjoint DEF WasConnected
  <2>2. in \cap Spent(bs) = {}
    BY <1>2, <1>3 DEF WasConnected, Spent
  <2>3. in \subseteq Created(bs) \cup out
    BY <1>2, <1>3 DEF WasConnected, Created
  <2> QED BY <2>1, <2>2, <2>3
<1>5. Utxo(p) = (Created(bs) \cup out) \ (Spent(bs) \cup in)
    BY <1>2, UtxoSets DEF Created, Spent
<1>6. Utxo(Pprev(p)) = Created(bs) \ Spent(bs)
    BY UtxoSets
<1>7. Spent(bs) \subseteq Created(bs)
  <2>1. \A k \in 1..Len(p) : index[p[k]].undo /\ index[p[k]].path = SubSeq(p, 1, k)
    BY <1>1 DEF PathsOK
  <2>2. Len(p) - 1 \in 1..Len(p) /\ p[Len(p) - 1] \in DOMAIN index
    BY <1>1
  <2>3. index[p[Len(p) - 1]].path = Pprev(p)
    BY <2>1, <2>2, SMTT(30) DEF Pprev
  <2> QED BY <2>1, <2>2, <2>3, SpentIsCreated, Zenon
<1> HIDE DEF bs, p, out, in
<1>8. /\ out \ in \subseteq Utxo(p)
      /\ in \cap Utxo(p) = {}
      /\ (Utxo(p) \cup in) \ out = Utxo(Pprev(p))
    BY <1>4, <1>5, <1>6, <1>7
<1> QED BY <1>8, SMTT(30) DEF DisconnectIsClean, UndoCoins, p, out, in

(* The path of a block's parent, and what its blocks spend. *)
LEMMA ParentOnPath ==
    ASSUME TypeOK, IndexInv, NEW b \in DOMAIN index, Len(index[b].path) > 1
    PROVE  LET p == index[b].path
               prev == Tip(Pprev(p))
           IN  /\ prev \in DOMAIN index
               /\ index[prev].path = Pprev(p)
               /\ BlockSet(Pprev(p)) = Ancestors(b)
               /\ BlockSet(p) = Ancestors(b) \cup {b}
               /\ Ancestors(b) \subseteq DOMAIN index
<1> DEFINE p == index[b].path
<1>1. p \in Seq(DOMAIN index) /\ Tip(p) = b /\ PathsOK(index)
    BY DEF IndexInv, PathsOK
<1>2. /\ Pprev(p) \in Seq(DOMAIN index)
      /\ Len(Pprev(p)) = Len(p) - 1
      /\ \A k \in 1..(Len(p) - 1) : Pprev(p)[k] = p[k]
      /\ BlockSet(Pprev(p)) = {p[k] : k \in 1..(Len(p) - 1)}
      /\ BlockSet(p) = BlockSet(Pprev(p)) \cup {Tip(p)}
      /\ BlockSet(p) \subseteq DOMAIN index
  <2> HIDE DEF p
  <2>1. Len(p) >= 1
    BY DEF p
  <2> QED BY <1>1, <2>1, PathSplit
<1>a. Ancestors(b) = {p[k] : k \in 1..(Len(p) - 1)}
    BY DEF Ancestors
<1>3. Len(p) - 1 \in 1..Len(p) /\ Len(p) - 1 \in 1..(Len(p) - 1)
    BY <1>1
<1>4. Tip(Pprev(p)) = p[Len(p) - 1]
    BY <1>2, <1>3, SMTT(30) DEF Tip
<1>5. index[p[Len(p) - 1]].path = Pprev(p)
    BY <1>1, <1>3, Zenon DEF PathsOK, Pprev
<1>6. p[Len(p) - 1] \in DOMAIN index
    BY <1>1, <1>3
<1> QED BY <1>1, <1>2, <1>a, <1>4, <1>5, <1>6, SMTT(30)

(* No transaction of a block that connects is in the chain already: the    *)
(* first one in the block would spend an output that the chain has spent.  *)
LEMMA TransactionsAreNew ==
    ASSUME TypeOK, NEW b \in DOMAIN index, NEW bs \in SUBSET DOMAIN index, NEW anndb,
           Spent(bs) \subseteq Created(bs),
           ConnectBlockChecks(b, Created(bs) \ Spent(bs), anndb)
    PROVE  \A c \in bs : TxsOf(b) \cap TxsOf(c) = {}
<1> DEFINE vtx == index[b].vtx
           T == {k \in DOMAIN vtx : \E c \in bs : vtx[k] \in TxsOf(c)}
<1>1. vtx \in Seq(Txs)
  <2>1. vtx \in VtxChoices \cup {<<>>}
    BY DEF TypeOK, BlockIndex
  <2>2. <<>> \in Seq(Txs)
    OBVIOUS
  <2> QED BY <2>1, <2>2, ChainAssumption, Zenon
<1>2. DOMAIN vtx = 1..Len(vtx) /\ DOMAIN vtx \in SUBSET Nat /\ \A k \in DOMAIN vtx : vtx[k] \in Txs
    BY <1>1
<1>3. ASSUME T # {}
      PROVE  FALSE
  <2>1. PICK k \in T : \A m \in T : k <= m
    BY <1>2, <1>3, LeastNatural, Zenon
  <2>2. PICK c \in bs : vtx[k] \in TxsOf(c)
    BY <2>1
  <2>3. k \in DOMAIN vtx /\ vtx[k] \in Txs
    BY <1>2, <2>1
  <2>4. PICK out \in Inputs(vtx[k]) : TRUE
    BY <2>3, TxTypes
  <2>5. out \in Spent(bs)
    BY <2>2 DEF Spent, BlockInputs
  <2>6. out \in (Created(bs) \ Spent(bs)) \cup CreatedBefore(b, k)
    BY <2>3 DEF ConnectBlockChecks
  <2>7. PICK j \in 1..(k - 1) : out \in Outputs(vtx[j])
    BY <2>5, <2>6 DEF CreatedBefore
  <2>8. j \in DOMAIN vtx /\ j < k
    BY <1>2, <2>3
  <2>9. out[1] = vtx[j] /\ out[1] \in Txs
    BY <1>2, <2>7, <2>8, TxTypes
  <2>10. \E d \in bs : out \in BlockOutputs(d)
    BY <2>5, <2>9, RootCoinsType DEF Created
  <2>11. \E d \in bs : vtx[j] \in TxsOf(d)
    BY <2>9, <2>10, BlockTypes
  <2>12. j \in T
    BY <2>8, <2>11
  <2> HIDE DEF T
  <2> QED BY <1>2, <2>1, <2>3, <2>8, <2>12
<1> QED BY <1>3 DEF TxsOf

(* Connecting a block to a connected path: the block is as WasConnected    *)
(* says, and the coins become those of the longer path.                    *)
LEMMA ConnectCoins ==
    ASSUME TypeOK, IndexInv, NEW b \in DOMAIN index, Len(index[b].path) > 1,
           index[Tip(Pprev(index[b].path))].undo, NEW anndb,
           ConnectBlockChecks(b, Utxo(Pprev(index[b].path)), anndb)
    PROVE  /\ WasConnected(b)
           /\ UpdateCoins(Utxo(Pprev(index[b].path)), b) = Utxo(index[b].path)
<1> DEFINE p == index[b].path
           bs == Ancestors(b)
           out == BlockOutputs(b)
           in == BlockInputs(b)
           coins == Created(bs) \ Spent(bs)
<1>1. /\ BlockSet(Pprev(p)) = bs
      /\ BlockSet(p) = bs \cup {b}
      /\ bs \subseteq DOMAIN index
      /\ Spent(bs) \subseteq Created(bs)
    BY ParentOnPath, SpentIsCreated, SMTT(30)
<1>2. Utxo(Pprev(p)) = coins
    BY <1>1, UtxoSets
<1>3. \A c \in bs : TxsOf(b) \cap TxsOf(c) = {}
    BY <1>1, <1>2, TransactionsAreNew
<1>4. out \cap Created(bs) = {}
    BY <1>1, <1>3, CreatedDisjoint
<1>5. ASSUME NEW x \in in
      PROVE  x \in coins \cup out
  <2>1. PICK k \in DOMAIN index[b].vtx : x \in Inputs(index[b].vtx[k])
    BY <1>5 DEF BlockInputs, TxsOf
  <2>2. x \in coins \cup CreatedBefore(b, k)
    BY <1>2, <2>1, SMTT(30) DEF ConnectBlockChecks
  <2>3. index[b].vtx \in Seq(Txs)
    BY ChainAssumption, EmptySeq, SMTT(30) DEF TypeOK, BlockIndex
  <2>4. CreatedBefore(b, k) \subseteq out
    BY <2>1, <2>3 DEF CreatedBefore, BlockOutputs, TxsOf
  <2> QED BY <2>2, <2>4
<1>6. in \cap Spent(bs) = {} /\ in \subseteq Created(bs) \cup out
    BY <1>1, <1>4, <1>5
<1>7. WasConnected(b)
    BY <1>3, <1>6 DEF WasConnected, Spent, Created
<1>8. Utxo(p) = (Created(bs) \cup out) \ (Spent(bs) \cup in)
    BY <1>1, UtxoSets DEF Created, Spent
<1> HIDE DEF bs, in, out, p
<1>9. (coins \cup out) \ in = Utxo(p)
    BY <1>1, <1>4, <1>8, SMTT(30)
<1> QED BY <1>2, <1>7, <1>9 DEF UpdateCoins, p, in, out
-----------------------------------------------------------------------------
(* The two paths of a replay agree up to the fork. *)
LEMMA ForkProperties ==
    ASSUME TypeOK, IndexInv, NEW old \in DOMAIN index, NEW new \in DOMAIN index
    PROVE  LET p == index[old].path
               q == index[new].path
               n == ForkLength(p, q)
           IN  /\ n \in 1..Len(p) /\ n \in 1..Len(q)
               /\ \A k \in 1..n : p[k] = q[k]
<1> DEFINE p == index[old].path
           q == index[new].path
           common == {n \in 1..Len(p) : n <= Len(q) /\ p[n] = q[n]}
           gaps == {Len(p) - n : n \in common}
           n == ForkLength(p, q)
<1>1. /\ p \in Seq(DOMAIN index) /\ Len(p) >= 1 /\ p[1] = Root
      /\ q \in Seq(DOMAIN index) /\ Len(q) >= 1 /\ q[1] = Root
    BY DEF IndexInv, PathsOK
<1>2. gaps \in SUBSET Nat /\ gaps # {}
  <2>1. 1 \in common
    BY <1>1
  <2>2. \A m \in common : Len(p) - m \in Nat
    BY <1>1
  <2> QED BY <2>1, <2>2
<1>3. PICK g \in gaps : \A h \in gaps : g <= h
  <2> HIDE DEF gaps
  <2> QED BY <1>2, LeastNatural
<1>4. PICK m \in common : g = Len(p) - m
    BY <1>3
<1>5. ASSUME NEW k \in common
      PROVE  k <= m
  <2>1. Len(p) - k \in gaps
    OBVIOUS
  <2>2. Len(p) - m <= Len(p) - k
    BY <1>3, <1>4, <2>1, Zenon
  <2>3. Len(p) \in Nat /\ k \in Nat /\ m \in Nat
    BY <1>1, <1>4
  <2> HIDE DEF p, common
  <2> QED BY <2>2, <2>3
<1>6. n \in common
    BY <1>4, <1>5, ZenonT(40) DEF ForkLength
<1>7. n \in 1..Len(p) /\ n \in 1..Len(q) /\ p[n] = q[n]
    BY <1>1, <1>6, SMTT(30)
<1> HIDE DEF n
<1>8. SubSeq(p, 1, n) = SubSeq(q, 1, n)
  <2>1. index[p[n]].path = SubSeq(p, 1, n)
    BY <1>7, ZenonT(40) DEF IndexInv, PathsOK
  <2>2. index[q[n]].path = SubSeq(q, 1, n)
    BY <1>7, SMTT(90) DEF IndexInv, PathsOK
  <2> QED BY <1>7, <2>1, <2>2
<1>9. \A k \in 1..n : SubSeq(p, 1, n)[k] = p[k] /\ SubSeq(q, 1, n)[k] = q[k]
    BY <1>1, <1>7
<1> QED BY <1>7, <1>8, <1>9, SMTT(30) DEF n

(* The blocks of a connected path above a place on it: what they create is *)
(* new, and what they spend was there below or is their own.               *)
Base(p, n) == {p[k] : k \in 1..n}
Outs(bs) == UNION {BlockOutputs(b) : b \in bs}

BranchFacts(p, n) ==
    /\ Outs(Branch(p, n)) \cap Created(Base(p, n)) = {}
    /\ Spent(Branch(p, n)) \cap Spent(Base(p, n)) = {}
    /\ Spent(Branch(p, n)) \subseteq Created(Base(p, n)) \cup Outs(Branch(p, n))
    /\ Spent(Base(p, n)) \subseteq Created(Base(p, n))
    /\ Utxo(p) = (Created(Base(p, n)) \cup Outs(Branch(p, n)))
                    \ (Spent(Base(p, n)) \cup Spent(Branch(p, n)))

(* What a branch of valid blocks does to the coins: it spends coins of its *)
(* base or its own, once, and creates none that is there already.          *)
LEMMA BranchCoins ==
    ASSUME TypeOK, IndexInv, NEW b \in DOMAIN index, index[b].undo,
           NEW n \in 1..Len(index[b].path)
    PROVE  BranchFacts(index[b].path, n)
<1> DEFINE p == index[b].path
           base == Base(p, n)
           branch == Branch(p, n)
           outs == Outs(branch)
           ins == Spent(branch)
<1>1. p \in Seq(DOMAIN index) /\ PathsOK(index)
    BY DEF IndexInv, PathsOK
<1>2. /\ base \subseteq DOMAIN index
      /\ branch \subseteq DOMAIN index
      /\ BlockSet(p) = base \cup branch
    BY <1>1 DEF Base, Branch, BlockSet
<1>3. ASSUME NEW c \in branch
      PROVE  /\ WasConnected(c)
             /\ base \subseteq Ancestors(c)
             /\ Ancestors(c) \subseteq base \cup branch
  <2>1. PICK k \in (n + 1)..Len(p) : c = p[k]
    BY <1>3 DEF Branch
  <2>2. k \in 1..Len(p)
    BY <1>1
  <2>3. Ancestors(c) = {p[j] : j \in 1..(k - 1)}
    BY <1>1, <2>1, <2>2, AncestorsOnPath, Zenon
  <2>4. index[c].undo
    BY <1>1, <2>1, <2>2, SMTT(30) DEF PathsOK
  <2>5. WasConnected(c)
    BY <1>2, <2>4 DEF IndexInv
  <2>6. base \subseteq Ancestors(c)
    BY <2>1, <2>3 DEF Base
  <2>7. Ancestors(c) \subseteq base \cup branch
    BY <1>1, <2>1, <2>2, <2>3 DEF Base, Branch
  <2> QED BY <2>5, <2>6, <2>7
<1> HIDE DEF base, branch
<1>4. outs \cap Created(base) = {}
  <2>1. \A c \in branch : BlockOutputs(c) \cap Created(base) = {}
    BY <1>2, <1>3, CreatedDisjoint DEF WasConnected
  <2> QED BY <2>1 DEF Outs
<1>5. ins \cap Spent(base) = {}
    BY <1>3 DEF WasConnected, Spent
<1>6. ins \subseteq Created(base) \cup outs
  <2>1. ASSUME NEW c \in branch
        PROVE  BlockInputs(c) \subseteq Created(base) \cup outs
    <3>1. Ancestors(c) \cup {c} \subseteq base \cup branch
      BY <1>3
    <3>2. BlockInputs(c) \subseteq RootCoins \cup UNION {BlockOutputs(d) : d \in base \cup branch}
      BY <1>3, <3>1 DEF WasConnected
    <3> QED BY <3>2 DEF Created, Outs
  <2> QED BY <2>1 DEF Spent
<1>7. Utxo(p) = (Created(base) \cup outs) \ (Spent(base) \cup ins)
    BY <1>2, UtxoSets DEF Created, Spent, Outs
<1>8. Spent(base) \subseteq Created(base)
  <2>1. /\ p[n] \in DOMAIN index
        /\ index[p[n]].undo
        /\ index[p[n]].path = SubSeq(p, 1, n)
    BY <1>1, SMTT(30) DEF PathsOK
  <2>2. BlockSet(SubSeq(p, 1, n)) = base
    <3>1. DOMAIN SubSeq(p, 1, n) = 1..n /\ \A k \in 1..n : SubSeq(p, 1, n)[k] = p[k]
      BY <1>1
    <3> HIDE DEF p
    <3> QED BY <3>1, Zenon DEF BlockSet, base, Base
  <2> QED BY <2>1, <2>2, SpentIsCreated, Zenon
<1> QED BY <1>4, <1>5, <1>6, <1>7, <1>8, SMTT(30) DEF base, branch, BranchFacts

(* ReplayBlocks turns any mixture of the coins of the two heads into those *)
(* of the new head.                                                        *)
LEMMA ReplayCoins ==
    ASSUME TypeOK, IndexInv,
           NEW old \in DOMAIN index, index[old].undo,
           NEW new \in DOMAIN index, index[new].undo,
           Mixture(coinsDB, Utxo(index[old].path), Utxo(index[new].path))
    PROVE  ReplayedCoins(old, new) = Utxo(index[new].path)
<1> DEFINE p == index[old].path
           q == index[new].path
           n == ForkLength(p, q)
           base == Base(p, n)
           oOuts == Outs(Branch(p, n))
           oIns == Spent(Branch(p, n))
           nOuts == Outs(Branch(q, n))
           nIns == Spent(Branch(q, n))
<1>1. n \in 1..Len(p) /\ n \in 1..Len(q) /\ \A k \in 1..n : p[k] = q[k]
    BY ForkProperties, SMTT(30)
<1>2. base = Base(q, n)
    BY <1>1 DEF Base
<1>a. BranchFacts(p, n) /\ BranchFacts(q, n)
  <2> HIDE DEF n
  <2> QED BY <1>1, BranchCoins
<1>3. /\ oOuts \cap Created(base) = {}
      /\ oIns \cap Spent(base) = {}
      /\ oIns \subseteq Created(base) \cup oOuts
      /\ Spent(base) \subseteq Created(base)
      /\ Utxo(p) = (Created(base) \cup oOuts) \ (Spent(base) \cup oIns)
    BY <1>a, Zenon DEF BranchFacts
<1>4. /\ nOuts \cap Created(base) = {}
      /\ Utxo(q) = (Created(base) \cup nOuts) \ (Spent(base) \cup nIns)
    BY <1>a, <1>2, Zenon DEF BranchFacts
<1>5. ReplayedCoins(old, new) = (((coinsDB \cup oIns) \ oOuts) \cup nOuts) \ nIns
    BY DEF ReplayedCoins, Outs, Spent
<1> HIDE DEF p, q, n, base, oOuts, oIns, nOuts, nIns
<1>6. Utxo(p) \cap Utxo(q) \subseteq coinsDB /\ coinsDB \subseteq Utxo(p) \cup Utxo(q)
    BY DEF Mixture, p, q
<1>7. (((coinsDB \cup oIns) \ oOuts) \cup nOuts) \ nIns = Utxo(q)
    BY <1>3, <1>4, <1>6, SMTT(30)
<1> QED BY <1>5, <1>7 DEF q
-----------------------------------------------------------------------------
(* A step that changes no path and no transaction of the blocks of S       *)
(* leaves what they do to the coins and to the rows alone.                 *)
LEMMA Frame ==
    ASSUME NEW S, \A b \in S : index'[b].path = index[b].path /\ index'[b].vtx = index[b].vtx
    PROVE  /\ \A b \in S : /\ TxsOf(b)' = TxsOf(b)
                           /\ BlockInputs(b)' = BlockInputs(b)
                           /\ BlockOutputs(b)' = BlockOutputs(b)
                           /\ Ancestors(b)' = Ancestors(b)
                           /\ NewAnnouncements(b)' = NewAnnouncements(b)
           /\ \A p \in Seq(S) : /\ Utxo(p)' = Utxo(p)
                                /\ ChainAnnouncements(p)' = ChainAnnouncements(p)
<1>1. ASSUME NEW b \in S
      PROVE  /\ TxsOf(b)' = TxsOf(b)
             /\ BlockInputs(b)' = BlockInputs(b)
             /\ BlockOutputs(b)' = BlockOutputs(b)
             /\ Ancestors(b)' = Ancestors(b)
             /\ NewAnnouncements(b)' = NewAnnouncements(b)
  <2>1. index'[b].path = index[b].path /\ index'[b].vtx = index[b].vtx
    OBVIOUS
  <2>2. TxsOf(b)' = TxsOf(b)
    BY <2>1 DEF TxsOf
  <2>3. BlockInputs(b)' = BlockInputs(b) /\ BlockOutputs(b)' = BlockOutputs(b)
    BY <2>2 DEF BlockInputs, BlockOutputs
  <2>4. Ancestors(b)' = Ancestors(b)
    BY <2>1 DEF Ancestors
  <2>5. \A h : BlockAnnouncements(b, h)' = BlockAnnouncements(b, h)
    BY <2>2 DEF BlockAnnouncements
  <2>6. NewAnnouncements(b)' = NewAnnouncements(b)
    BY <2>1, <2>5 DEF NewAnnouncements
  <2> QED BY <2>2, <2>3, <2>4, <2>6
<1>2. ASSUME NEW p \in Seq(S)
      PROVE  /\ Utxo(p)' = Utxo(p)
             /\ ChainAnnouncements(p)' = ChainAnnouncements(p)
  <2>1. \A k \in DOMAIN p : p[k] \in S
    OBVIOUS
  <2>2. Utxo(p)' = Utxo(p)
    BY <1>1, <2>1 DEF Utxo
  <2>3. ChainAnnouncements(p)' = ChainAnnouncements(p)
    BY <1>1, <2>1 DEF ChainAnnouncements
  <2> QED BY <2>2, <2>3
<1> QED BY <1>1, <1>2

(* A step after which the node knows only blocks it knew, unchanged. *)
LEMMA IndexStable ==
    ASSUME TypeOK, IndexInv,
           \/ index' = index /\ diskIndex' = diskIndex
           \/ index' = index /\ diskIndex' = index
           \/ index' = diskIndex /\ diskIndex' = diskIndex,
           node' = "down" => index' = diskIndex'
    PROVE  /\ IndexInv'
           /\ DOMAIN diskIndex \subseteq DOMAIN diskIndex'
           /\ \A b \in DOMAIN diskIndex : diskIndex[b].undo => diskIndex'[b].undo
           /\ \A b \in DOMAIN index' : index'[b].path = index[b].path
           /\ \A b \in DOMAIN index' : Utxo(index[b].path)' = Utxo(index[b].path)
<1>1. DOMAIN diskIndex \subseteq DOMAIN index
    BY DEF TypeOK
<1>2. DOMAIN index' \subseteq DOMAIN index /\ DOMAIN diskIndex' \subseteq DOMAIN index'
    BY <1>1
<1>3. \A b \in DOMAIN index' : /\ index'[b].path = index[b].path
                               /\ index'[b].vtx = index[b].vtx
                               /\ index'[b].undo => index[b].undo
    BY <1>1 DEF IndexInv
<1>4. PathsOK(index') /\ PathsOK(diskIndex')
    BY DEF IndexInv
<1>5. \A b \in DOMAIN index' : index'[b].path \in Seq(DOMAIN index')
    BY <1>4 DEF PathsOK
<1>6. \A b \in DOMAIN index' : Utxo(index[b].path)' = Utxo(index[b].path)
  <2>1. \A p \in Seq(DOMAIN index') : Utxo(p)' = Utxo(p)
    BY <1>3, Frame
  <2>2. ASSUME NEW b \in DOMAIN index'
        PROVE  Utxo(index[b].path)' = Utxo(index[b].path)
    <3>1. PICK p \in Seq(DOMAIN index') : p = index'[b].path /\ p = index[b].path
      BY <1>3, <1>5
    <3>2. Utxo(index[b].path)' = Utxo(p)'
      BY <3>1 DEF Utxo
    <3> QED BY <2>1, <3>1, <3>2
  <2> QED BY <2>2, SMTT(30)
<1>7. ASSUME NEW b \in DOMAIN index', index'[b].undo
      PROVE  WasConnected(b)'
  <2>1. WasConnected(b)
    BY <1>2, <1>3, <1>7 DEF IndexInv
  <2>2. Ancestors(b) \subseteq DOMAIN index'
    BY <1>3, <1>5 DEF Ancestors
  <2>3. \A c \in DOMAIN index' : /\ TxsOf(c)' = TxsOf(c)
                                 /\ BlockInputs(c)' = BlockInputs(c)
                                 /\ BlockOutputs(c)' = BlockOutputs(c)
                                 /\ Ancestors(c)' = Ancestors(c)
    BY <1>3, Frame, Zenon
  <2> QED BY <2>1, <2>2, <2>3 DEF WasConnected
<1>8. \A b \in DOMAIN diskIndex' : /\ index'[b].path = diskIndex'[b].path
                                   /\ index'[b].vtx = diskIndex'[b].vtx
                                   /\ diskIndex'[b].undo => index'[b].undo
    BY DEF IndexInv
<1>9. index'[Root] = RootIndex /\ diskIndex'[Root] = RootIndex
    BY SMTT(30) DEF IndexInv
<1>10. IndexInv'
    BY <1>4, <1>7, <1>8, <1>9, SMTT(90) DEF IndexInv, RootIndex
<1>11. /\ DOMAIN diskIndex \subseteq DOMAIN diskIndex'
       /\ \A b \in DOMAIN diskIndex : diskIndex[b].undo => diskIndex'[b].undo
    BY <1>1 DEF IndexInv
<1> QED BY <1>3, <1>6, <1>10, <1>11
-----------------------------------------------------------------------------
(* The coins of a known chain are outpoints.                               *)
LEMMA UtxoType ==
    ASSUME TypeOK, IndexInv, NEW b \in DOMAIN index
    PROVE  Utxo(index[b].path) \subseteq OutPoint
<1>1. BlockSet(index[b].path) \subseteq DOMAIN index
    BY DEF IndexInv, PathsOK, BlockSet
<1>2. Created(BlockSet(index[b].path)) \subseteq OutPoint
    BY <1>1, BlockTypes, RootCoinsType DEF Created
<1> QED BY <1>2, UtxoSets, SMTT(30)

(* Steps that write no database keep it consistent, as long as the blocks  *)
(* it refers to are known.                                                 *)
LEMMA StoreStable ==
    ASSUME IInv, UNCHANGED <<diskIndex, dbVars>>, DOMAIN diskIndex \subseteq DOMAIN index',
           \A b \in DOMAIN index' : Utxo(index[b].path)' = Utxo(index[b].path),
           \/ node' = "down"
           \/ node' = node /\ m_chain' = m_chain
           \/ dbHeads = <<>> /\ node' # "flushing"
    PROVE  StoreInv'
<1> USE DEF dbVars
<1>1. CASE dbHeads = <<>>
  <2>1. PICK b \in DOMAIN diskIndex : b = dbBest
    BY <1>1 DEF IInv, StoreInv
  <2>2. Utxo(index[dbBest].path)' = Utxo(index[b].path)' /\ b \in DOMAIN index'
    BY <2>1, SMTT(30)
  <2> QED BY <1>1, <2>1, <2>2, SMTT(90) DEF IInv, StoreInv
<1>2. CASE dbHeads # <<>>
  <2>1. PICK new \in DOMAIN diskIndex, old \in DOMAIN diskIndex : new = dbHeads[1] /\ old = dbHeads[2]
    BY <1>2, SMTT(30) DEF IInv, StoreInv
  <2>2. /\ Utxo(index[dbHeads[1]].path)' = Utxo(index[new].path)'
        /\ Utxo(index[dbHeads[2]].path)' = Utxo(index[old].path)'
        /\ new \in DOMAIN index' /\ old \in DOMAIN index'
    BY <2>1, SMTT(30)
  <2>3. Mixture(coinsDB, Utxo(index[dbHeads[2]].path), Utxo(index[dbHeads[1]].path))'
    BY <1>2, <2>1, <2>2 DEF IInv, StoreInv, Mixture
  <2>4. Tip(m_chain)' = Tip(m_chain) \/ node' = "down"
    BY <1>2
  <2> QED BY <1>2, <2>1, <2>3, <2>4, SMTT(30) DEF IInv, StoreInv
<1> QED BY <1>1, <1>2, SMTT(30)

(* The steps of the start-up. *)
LEMMA RemoveType ==
    ASSUME NEW db \in SUBSET Rows, NEW list
    PROVE  RemoveAnnouncements(db, list) \subseteq Rows
BY DEF RemoveAnnouncements

(* AddAnnouncements keeps the type of the database.                        *)
LEMMA AddType ==
    ASSUME NEW db \in SUBSET Rows, NEW list \in SUBSET Rows
    PROVE  AddAnnouncements(db, list) \subseteq Rows
BY RemoveType DEF AddAnnouncements
=============================================================================
