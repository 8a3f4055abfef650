----------------------- MODULE ChainstateStoreProofs ------------------------
(***************************************************************************)
(* The steps that write the databases, lose the memory and read the        *)
(* databases back preserve the invariant of ChainstateFacts.               *)
(***************************************************************************)
EXTENDS ChainstateFacts

(* The invariant holds at the start.                                       *)
LEMMA InitInv == Init => IInv
<1> SUFFICES ASSUME Init PROVE IInv
    OBVIOUS
<1>1. /\ DOMAIN index = {Root} /\ diskIndex = index /\ index[Root] = RootIndex
      /\ m_chain = <<Root>> /\ node = "running"
      /\ coinsTip = RootCoins /\ coinsDB = RootCoins
      /\ dbBest = Root /\ dbHeads = <<>> /\ announceDB = {}
    BY DEF Init
<1>2. Root \in {Root} /\ <<Root>> \in Seq({Root}) /\ Len(<<Root>>) = 1 /\ <<Root>>[1] = Root
    OBVIOUS
<1>3. RootIndex \in BlockIndex
    BY DEF RootIndex, BlockIndex
<1>4. TypeOK
  <2>1. index \in [DOMAIN index -> BlockIndex]
    BY <1>1, <1>3 DEF Init
  <2>2. crashes \in 0..MaxCrashes /\ shutdowns \in 0..MaxShutdowns
    BY ChainAssumption DEF Init
  <2> QED BY <1>1, <2>1, <2>2, RootCoinsType DEF TypeOK
<1>5. TxsOf(Root) = {}
    BY <1>1 DEF TxsOf, RootIndex
<1>6. BlockInputs(Root) = {} /\ BlockOutputs(Root) = {}
    BY <1>5 DEF BlockInputs, BlockOutputs
<1>7. index[Root].path = <<Root>> /\ index[Root].undo
    BY <1>1 DEF RootIndex
<1>8. Utxo(<<Root>>) = RootCoins
  <2>1. {<<Root>>[k] : k \in DOMAIN <<Root>>} = {Root}
    OBVIOUS
  <2> QED BY <1>6, <2>1 DEF Utxo
<1>9. PathsOK(index)
  <2>1. SubSeq(<<Root>>, 1, 1) = <<Root>>
    BY <1>2, SubSeqFull, Zenon
  <2>2. \A k \in 1..Len(index[Root].path) :
           index[Root].path[k] = Root /\ SubSeq(index[Root].path, 1, k) = <<Root>>
    BY <1>2, <1>7, <2>1
  <2>3. index[Root].path \in Seq({Root}) /\ Tip(index[Root].path) = Root
    BY <1>2, <1>7 DEF Tip
  <2>4. \A k \in 1..Len(index[Root].path) :
           /\ index[index[Root].path[k]].path = SubSeq(index[Root].path, 1, k)
           /\ index[index[Root].path[k]].undo
    BY <1>7, <2>2, Zenon
  <2>5. Len(index[Root].path) >= 1 /\ index[Root].path[1] = Root
    BY <1>2, <1>7
  <2> QED BY <1>1, <2>3, <2>4, <2>5 DEF PathsOK
<1>10. Ancestors(Root) = {}
    BY <1>2, <1>7 DEF Ancestors
<1>11. WasConnected(Root)
    BY <1>6, <1>10 DEF WasConnected
<1>12. IndexInv
    BY <1>1, <1>9, <1>11 DEF IndexInv
<1>13. ChainInv
    BY <1>1, <1>2, <1>7, <1>8 DEF ChainInv, Tip
<1>14. StoreInv
    BY <1>1, <1>7, <1>8 DEF StoreInv
<1> QED BY <1>4, <1>12, <1>13, <1>14 DEF IInv

(* The steps that write to the disk. *)
LEMMA WriteBlockIndexInv == IInv /\ WriteBlockIndex => IInv'
<1> SUFFICES ASSUME IInv, WriteBlockIndex PROVE IInv'
    OBVIOUS
<1> USE DEF WriteBlockIndex, memVars, dbVars, bounds
<1>1. TypeOK'
    BY DEF IInv, TypeOK
<1>2. /\ IndexInv'
      /\ DOMAIN diskIndex \subseteq DOMAIN diskIndex'
      /\ \A b \in DOMAIN diskIndex : diskIndex[b].undo => diskIndex'[b].undo
      /\ \A b \in DOMAIN index' : Utxo(index[b].path)' = Utxo(index[b].path)
    BY IndexStable DEF IInv
<1>3. ChainInv'
    BY <1>2 DEF IInv, ChainInv, Utxo, BlockOutputs, BlockInputs, TxsOf
<1>4. StoreInv'
    BY <1>2 DEF IInv, StoreInv, TypeOK
<1> QED BY <1>1, <1>2, <1>3, <1>4 DEF IInv

(* An interrupted BatchWrite leaves a mixture of the coins that were there *)
(* and those it was writing.                                               *)
LEMMA CommitSomeMixture ==
    ASSUME NEW cs, NEW best, CommitSomeCoins(cs, best)
    PROVE  Mixture(coinsDB', coinsDB, cs)
BY DEF CommitSomeCoins, Mixture

(* A full flush leaves the coins of the tip on disk.                       *)
LEMMA FlushStateToDiskInv == IInv /\ FlushStateToDisk => IInv'
<1> SUFFICES ASSUME IInv, FlushStateToDisk PROVE IInv'
    OBVIOUS
<1> USE DEF FlushStateToDisk, CommitCoins, memVars, dbVars, bounds
<1>0. /\ node = "running" /\ node' = node
      /\ Tip(m_chain) \in DOMAIN index /\ m_chain = index[Tip(m_chain)].path
      /\ index[Tip(m_chain)].undo /\ coinsTip = Utxo(m_chain)
    BY DEF IInv, ChainInv
<1>1. TypeOK'
    BY <1>0 DEF IInv, TypeOK
<1>2. /\ IndexInv'
      /\ \A b \in DOMAIN index' : Utxo(index[b].path)' = Utxo(index[b].path)
    BY IndexStable, SMTT(30) DEF IInv
<1>3. ChainInv'
    BY <1>0, <1>2 DEF IInv, ChainInv, Utxo, BlockOutputs, BlockInputs, TxsOf
<1>4. StoreInv'
    BY <1>0, <1>2 DEF StoreInv
<1> QED BY <1>1, <1>2, <1>3, <1>4 DEF IInv

(* A flush that is under way leaves a mixture between its two heads.       *)
LEMMA FlushPartialBatchInv == IInv /\ FlushPartialBatch => IInv'
<1> SUFFICES ASSUME IInv, FlushPartialBatch PROVE IInv'
    OBVIOUS
<1> USE DEF FlushPartialBatch, memVars, dbVars, bounds
<1>0. /\ node = "running" /\ node' = "flushing"
      /\ Tip(m_chain) \in DOMAIN index /\ m_chain = index[Tip(m_chain)].path
      /\ index[Tip(m_chain)].undo /\ coinsTip = Utxo(m_chain)
      /\ Len(m_chain) >= 1
    BY DEF IInv, ChainInv
<1>1. /\ dbHeads = <<>>
      /\ dbBest \in DOMAIN diskIndex
      /\ diskIndex[dbBest].undo
      /\ coinsDB = Utxo(index[dbBest].path)
    BY <1>0 DEF IInv, StoreInv
<1>2. dbBest # NoTip /\ dbBest \in DOMAIN index
    BY <1>1 DEF IInv, TypeOK, NoTip, Blocks, Root
<1>3. dbHeads' = <<Tip(m_chain), dbBest>> /\ dbBest' = NoTip
    BY <1>2 DEF CommitSomeCoins
<1>4. Mixture(coinsDB', coinsDB, coinsTip)
    BY CommitSomeMixture
<1>5. TypeOK'
  <2>1. dbHeads' \in (Blocks \cup {Root}) \X (Blocks \cup {Root})
    BY <1>0, <1>2, <1>3 DEF IInv, TypeOK
  <2>2. coinsDB' \subseteq OutPoint
    BY <1>4 DEF IInv, TypeOK, Mixture
  <2> QED BY <1>0, <1>3, <2>1, <2>2 DEF IInv, TypeOK
<1>6. /\ IndexInv'
      /\ \A b \in DOMAIN index' : Utxo(index[b].path)' = Utxo(index[b].path)
    BY <1>0, IndexStable, SMTT(30) DEF IInv
<1>7. ChainInv'
    BY <1>0, <1>6 DEF ChainInv, Utxo, BlockOutputs, BlockInputs, TxsOf
<1>8. index[dbBest].undo
    BY <1>1 DEF IInv, IndexInv
<1>9. StoreInv'
  <2>0. PICK old \in DOMAIN index, new \in DOMAIN index : old = dbBest /\ new = Tip(m_chain)
    BY <1>0, <1>2
  <2>1. dbHeads'[1] = new /\ dbHeads'[2] = old /\ dbHeads' # <<>>
    BY <1>3, <2>0
  <2>2. Mixture(coinsDB', Utxo(index[old].path)', Utxo(index[new].path)')
    BY <1>0, <1>1, <1>4, <1>6, <2>0
  <2>3. Utxo(index[dbHeads[2]].path)' = Utxo(index[old].path)'
    BY <2>1
  <2>4. Utxo(index[dbHeads[1]].path)' = Utxo(index[new].path)'
    BY <2>1
  <2>5. Mixture(coinsDB, Utxo(index[dbHeads[2]].path), Utxo(index[dbHeads[1]].path))'
    BY <2>2, <2>3, <2>4
  <2>6. diskIndex' = index /\ index[old].undo /\ index[new].undo /\ new = Tip(m_chain)'
    BY <1>0, <1>8, <2>0
  <2> QED BY <1>0, <1>3, <2>1, <2>5, <2>6 DEF StoreInv
<1> QED BY <1>5, <1>6, <1>7, <1>9 DEF IInv

(* The last batch of a flush turns the mixture into the coins of the tip.  *)
LEMMA FlushFinalBatchInv == IInv /\ FlushFinalBatch => IInv'
<1> SUFFICES ASSUME IInv, FlushFinalBatch PROVE IInv'
    OBVIOUS
<1> USE DEF FlushFinalBatch, CommitCoins, memVars, dbVars, bounds
<1>0. /\ node = "flushing" /\ node' = "running"
      /\ Tip(m_chain) \in DOMAIN index /\ m_chain = index[Tip(m_chain)].path
      /\ index[Tip(m_chain)].undo /\ coinsTip = Utxo(m_chain)
      /\ Len(m_chain) >= 1
    BY DEF IInv, ChainInv
<1>1. /\ Tip(m_chain) \in DOMAIN diskIndex
      /\ diskIndex[Tip(m_chain)].undo
    BY <1>0 DEF IInv, StoreInv
<1>2. TypeOK'
    BY <1>0 DEF IInv, TypeOK
<1>3. /\ IndexInv'
      /\ \A b \in DOMAIN index' : Utxo(index[b].path)' = Utxo(index[b].path)
    BY <1>0, IndexStable, SMTT(30) DEF IInv
<1>4. ChainInv'
    BY <1>0, <1>3 DEF ChainInv, Utxo, BlockOutputs, BlockInputs, TxsOf
<1>5. StoreInv'
    BY <1>0, <1>1, <1>3 DEF StoreInv
<1> QED BY <1>2, <1>3, <1>4, <1>5 DEF IInv

(* What is on disk is as it was: after a step that leaves it alone. *)

(* The end of the process loses nothing that the databases refer to.       *)
LEMMA LoseMemoryInv ==
    ASSUME IInv, LoseMemory, UNCHANGED <<diskIndex, dbVars>>,
           announceDB' \subseteq Rows, crashes' \in 0..MaxCrashes, shutdowns' \in 0..MaxShutdowns
    PROVE  IInv'
<1> USE DEF LoseMemory
<1>0. node' = "down" /\ index' = diskIndex /\ diskIndex' = diskIndex
    OBVIOUS
<1>1. /\ IndexInv'
      /\ \A b \in DOMAIN index' : Utxo(index[b].path)' = Utxo(index[b].path)
    BY <1>0, IndexStable DEF IInv
<1>2. TypeOK'
    BY <1>0 DEF IInv, TypeOK, Rows, dbVars
<1>3. ChainInv'
    BY <1>0 DEF ChainInv
<1>4. StoreInv'
    BY <1>0, <1>1, StoreStable
<1> QED BY <1>1, <1>2, <1>3, <1>4 DEF IInv

(* A crash preserves the invariant, wherever it happens.                   *)
LEMMA CrashInv == IInv /\ Crash => IInv'
<1> SUFFICES ASSUME IInv, Crash PROVE IInv'
    OBVIOUS
<1>1. announceDB' \subseteq Rows /\ crashes' \in 0..MaxCrashes /\ shutdowns' \in 0..MaxShutdowns
    BY ChainAssumption DEF Crash, IInv, TypeOK, Rows
<1> QED BY <1>1, LoseMemoryInv DEF Crash

(* Shutdown is a flush and then the loss of the memory. *)
LEMMA ShutdownInv == IInv /\ Shutdown => IInv'
<1> SUFFICES ASSUME IInv, Shutdown PROVE IInv'
    OBVIOUS
<1> USE DEF Shutdown, CommitCoins, LoseMemory
<1>0. /\ node = "running" /\ node' = "down"
      /\ index' = index /\ diskIndex' = index
    OBVIOUS
<1>1. /\ IndexInv'
      /\ \A b \in DOMAIN index' : Utxo(index[b].path)' = Utxo(index[b].path)
    BY <1>0, IndexStable DEF IInv
<1>2. PICK tip \in DOMAIN index :
        tip = Tip(m_chain) /\ index[tip].undo /\ coinsTip = Utxo(index[tip].path)
    BY <1>0 DEF IInv, ChainInv
<1>3. TypeOK'
    BY <1>0, <1>2, ChainAssumption DEF IInv, TypeOK
<1>4. ChainInv'
    BY <1>0 DEF ChainInv
<1>5. StoreInv'
  <2>1. Utxo(index[dbBest].path)' = Utxo(index[tip].path)'
    BY <1>2
  <2> QED BY <1>0, <1>1, <1>2, <2>1 DEF StoreInv
<1> QED BY <1>1, <1>3, <1>4, <1>5 DEF IInv
-----------------------------------------------------------------------------
(* What ReplayBlocks computes from a mixture is the state of the new head. *)
LEMMA ReplayHeads ==
    ASSUME IInv, ReplayNeeded
    PROVE  /\ dbHeads[1] \in DOMAIN index /\ index[dbHeads[1]].undo
           /\ dbHeads[2] \in DOMAIN index /\ index[dbHeads[2]].undo
           /\ ReplayedCoins(dbHeads[2], dbHeads[1]) = Utxo(index[dbHeads[1]].path)
           /\ node = "down" /\ dbBest = NoTip
           /\ diskIndex = index
<1>1. /\ node = "down" /\ dbHeads # <<>> /\ diskIndex = index
    BY DEF ReplayNeeded, IInv, IndexInv
<1>2. /\ dbHeads[1] \in DOMAIN index /\ index[dbHeads[1]].undo
      /\ dbHeads[2] \in DOMAIN index /\ index[dbHeads[2]].undo
      /\ Mixture(coinsDB, Utxo(index[dbHeads[2]].path), Utxo(index[dbHeads[1]].path))
      /\ dbBest = NoTip
    BY <1>1 DEF IInv, StoreInv
<1> QED BY <1>1, <1>2, ReplayCoins DEF IInv

(* ReplayBlocks leaves the coins of the new head on disk.                  *)
LEMMA ReplayBlocksInv == IInv /\ ReplayBlocks => IInv'
<1> SUFFICES ASSUME IInv, ReplayBlocks PROVE IInv'
    OBVIOUS
<1> USE DEF ReplayBlocks, CommitCoins, memVars, dbVars, bounds
<1>1. PICK new \in DOMAIN index :
        /\ new = dbHeads[1] /\ index[new].undo /\ diskIndex = index /\ node = "down"
        /\ ReplayedCoins(dbHeads[2], dbHeads[1]) = Utxo(index[new].path)
    BY ReplayHeads
<1>2. announceDB' \subseteq Rows
    BY RemoveType DEF ReplayAnnouncements, IInv, TypeOK, Rows
<1>3. /\ IndexInv'
      /\ \A b \in DOMAIN index' : Utxo(index[b].path)' = Utxo(index[b].path)
    BY <1>1, IndexStable DEF IInv
<1>4. TypeOK'
  <2>1. coinsDB' \subseteq OutPoint
    BY <1>1, UtxoType DEF IInv
  <2>2. dbBest' \in Blocks \cup {Root}
    BY <1>1 DEF IInv, TypeOK
  <2> QED BY <1>1, <1>2, <2>1, <2>2, SMTT(30) DEF IInv, TypeOK, Rows
<1>5. ChainInv'
    BY <1>1, SMTT(30) DEF IInv, ChainInv
<1>6. StoreInv'
  <2>1. Utxo(index[dbBest].path)' = Utxo(index[new].path)'
    BY <1>1
  <2> QED BY <1>1, <1>3, <2>1 DEF StoreInv
<1> QED BY <1>3, <1>4, <1>5, <1>6 DEF IInv

(* A replay cut during its flush. *)
LEMMA ReplayFlushInv ==
    ASSUME IInv, ReplayNeeded, crashes < MaxCrashes, crashes' = crashes + 1, ReplayAnnouncements,
           CommitSomeCoins(ReplayedCoins(dbHeads[2], dbHeads[1]), dbHeads[1]),
           UNCHANGED <<memVars, diskIndex, node, shutdowns>>
    PROVE  IInv'
<1> USE DEF memVars, dbVars, bounds
<1>1. PICK new \in DOMAIN index, old \in DOMAIN index :
        /\ new = dbHeads[1] /\ index[new].undo /\ diskIndex = index /\ node = "down"
        /\ old = dbHeads[2] /\ index[old].undo /\ dbBest = NoTip
        /\ ReplayedCoins(dbHeads[2], dbHeads[1]) = Utxo(index[new].path)
        /\ dbHeads # <<>>
    BY ReplayHeads DEF ReplayNeeded
<1>2. announceDB' \subseteq Rows
    BY RemoveType DEF ReplayAnnouncements, IInv, TypeOK, Rows
<1>3. /\ IndexInv'
      /\ \A b \in DOMAIN index' : Utxo(index[b].path)' = Utxo(index[b].path)
    BY <1>1, IndexStable DEF IInv
<1>4. dbHeads' = <<new, old>> /\ dbBest' = NoTip
    BY <1>1 DEF CommitSomeCoins
<1>5. Mixture(coinsDB', Utxo(index[old].path), Utxo(index[new].path))
  <2>1. Mixture(coinsDB', coinsDB, Utxo(index[new].path))
    BY <1>1, CommitSomeMixture
  <2>2. Mixture(coinsDB, Utxo(index[old].path), Utxo(index[new].path))
    BY <1>1, SMTT(30) DEF IInv, StoreInv
  <2> QED BY <2>1, <2>2 DEF Mixture
<1>6. TypeOK'
  <2>1. coinsDB' \subseteq OutPoint
    BY <1>5, UtxoType DEF IInv, Mixture
  <2>2. dbHeads' \in (Blocks \cup {Root}) \X (Blocks \cup {Root})
    BY <1>4 DEF IInv, TypeOK
  <2>3. crashes' \in 0..MaxCrashes
    BY ChainAssumption, SMTT(30) DEF IInv, TypeOK
  <2> QED BY <1>1, <1>2, <1>4, <2>1, <2>2, <2>3, SMTT(30) DEF IInv, TypeOK, Rows
<1>7. ChainInv'
    BY <1>1 DEF IInv, ChainInv
<1>8. StoreInv'
  <2>1. dbHeads'[1] = new /\ dbHeads'[2] = old /\ dbHeads' # <<>>
    BY <1>4
  <2>2. /\ Utxo(index[dbHeads[1]].path)' = Utxo(index[new].path)'
        /\ Utxo(index[dbHeads[2]].path)' = Utxo(index[old].path)'
    BY <2>1, SMTT(30)
  <2>3. Mixture(coinsDB, Utxo(index[dbHeads[2]].path), Utxo(index[dbHeads[1]].path))'
    BY <1>3, <1>5, <2>2
  <2> QED BY <1>1, <1>4, <2>1, <2>3 DEF StoreInv
<1> QED BY <1>3, <1>6, <1>7, <1>8 DEF IInv

(* A replay that is interrupted leaves a mixture that can be replayed      *)
(* again.                                                                  *)
LEMMA ReplayInterruptedInv == IInv /\ ReplayInterrupted => IInv'
<1> SUFFICES ASSUME IInv, ReplayInterrupted PROVE IInv'
    OBVIOUS
<1>1. CASE ReplayAnnouncements /\ CommitSomeCoins(ReplayedCoins(dbHeads[2], dbHeads[1]), dbHeads[1])
    BY <1>1, ReplayFlushInv DEF ReplayInterrupted
<1>2. CASE UNCHANGED dbVars /\ \E list : announceDB' = RemoveAnnouncements(announceDB, list)
  <2>1. announceDB' \subseteq Rows
    BY <1>2, RemoveType DEF IInv, TypeOK, Rows
  <2>2. crashes' \in 0..MaxCrashes /\ shutdowns' \in 0..MaxShutdowns
    BY ChainAssumption DEF ReplayInterrupted, IInv, TypeOK
  <2>3. node = "down" /\ UNCHANGED <<memVars, diskIndex, node, shutdowns>>
    BY DEF ReplayInterrupted, ReplayNeeded
  <2>4. /\ IndexInv'
        /\ \A b \in DOMAIN index' : Utxo(index[b].path)' = Utxo(index[b].path)
    <3>1. node' = "down" => index' = diskIndex'
      BY <2>3 DEF IInv, IndexInv, memVars
    <3> QED BY <2>3, <3>1, IndexStable DEF IInv, memVars
  <2>5. TypeOK'
    BY <1>2, <2>1, <2>2, <2>3 DEF IInv, TypeOK, Rows, memVars, dbVars
  <2>6. ChainInv'
    BY <2>3 DEF IInv, ChainInv, memVars
  <2>7. StoreInv'
    BY <1>2, <2>3, <2>4, StoreStable DEF IInv, TypeOK, memVars
  <2> QED BY <2>4, <2>5, <2>6, <2>7 DEF IInv
<1> QED BY <1>1, <1>2 DEF ReplayInterrupted

(* LoadChainTip brings back the chain of the stored best block with its    *)
(* coins.                                                                  *)
LEMMA LoadChainTipInv == IInv /\ LoadChainTip => IInv'
<1> SUFFICES ASSUME IInv, LoadChainTip PROVE IInv'
    OBVIOUS
<1> USE DEF LoadChainTip, memVars, dbVars, bounds
<1>1. PICK tip \in DOMAIN index :
        /\ tip = dbBest /\ index[tip].undo /\ coinsDB = Utxo(index[tip].path)
        /\ diskIndex = index /\ node = "down"
    BY DEF IInv, StoreInv, IndexInv
<1>2. /\ IndexInv'
      /\ \A b \in DOMAIN index' : Utxo(index[b].path)' = Utxo(index[b].path)
    BY <1>1, IndexStable DEF IInv
<1>3. index[tip].path \in Seq(Blocks \cup {Root})
    BY DEF IInv, TypeOK, BlockIndex
<1>4. TypeOK'
    BY <1>1, <1>3, SMTT(30) DEF IInv, TypeOK
<1>5. ChainInv'
  <2>1. Tip(index[tip].path) = tip /\ Len(index[tip].path) >= 1
    BY DEF IInv, IndexInv, PathsOK
  <2>2. Tip(m_chain)' = tip /\ m_chain' = index[tip].path
    BY <1>1, <2>1 DEF Tip
  <2>3. Utxo(m_chain)' = Utxo(index[tip].path)'
    BY <1>1, SMTT(30)
  <2> QED BY <1>1, <1>2, <2>1, <2>2, <2>3, SMTT(30) DEF ChainInv
<1>6. StoreInv'
    BY <1>2, StoreStable DEF IInv, TypeOK
<1> QED BY <1>2, <1>4, <1>5, <1>6, SMTT(30) DEF IInv

(* VerifyDB only writes rows. *)
LEMMA VerifyRows ==
    ASSUME IInv, node = "verifying"
    PROVE  /\ Len(m_chain) \in Nat
           /\ Unchecked \in 1..Len(m_chain)
           /\ \A n : DisconnectDB(n) \subseteq Rows
           /\ \A k \in 1..(Len(m_chain) + 1) : ReconnectDB(k) \subseteq Rows
<1>1. Len(m_chain) >= 1 /\ m_chain \in Seq(DOMAIN index)
    BY DEF IInv, ChainInv, IndexInv, PathsOK
<1>2. Unchecked \in 1..Len(m_chain)
    BY <1>1, ChainAssumption DEF Unchecked
<1>3. \A n : DisconnectDB(n) \subseteq Rows
    BY RemoveType DEF DisconnectDB, IInv, TypeOK, Rows
<1>4. ASSUME NEW k \in 1..(Len(m_chain) + 1)
      PROVE  ReconnectDB(k) \subseteq Rows
  <2>1. \A j \in (Unchecked + 1)..(k - 1) : m_chain[j] \in DOMAIN index
    BY <1>1, <1>2
  <2>2. \A j \in (Unchecked + 1)..(k - 1) : NewAnnouncements(m_chain[j]) \subseteq Rows
    BY <2>1, BlockTypes DEF IInv
  <2> QED BY <1>3, <2>2, AddType DEF ReconnectDB
<1> QED BY <1>1, <1>2, <1>3, <1>4

(* A stop during VerifyDB touches announcements only.                      *)
LEMMA VerifyInterruptedInv == IInv /\ VerifyInterrupted => IInv'
<1> SUFFICES ASSUME IInv, VerifyInterrupted PROVE IInv'
    OBVIOUS
<1>1. node = "verifying" /\ crashes' \in 0..MaxCrashes /\ shutdowns' \in 0..MaxShutdowns
    BY ChainAssumption DEF VerifyInterrupted, IInv, TypeOK
<1>2. PICK k \in Unchecked..Len(m_chain) :
        announceDB' = DisconnectDB(k) \/ announceDB' = ReconnectDB(k + 1)
    BY DEF VerifyInterrupted
<1>3. k + 1 \in 1..(Len(m_chain) + 1)
    BY <1>1, <1>2, VerifyRows
<1>4. announceDB' \subseteq Rows
    BY <1>1, <1>2, <1>3, VerifyRows
<1> QED BY <1>1, <1>4, LoseMemoryInv DEF VerifyInterrupted

(* VerifyDB touches announcements only, whether it passes or stops the     *)
(* start.                                                                  *)
LEMMA VerifyDBInv == IInv /\ VerifyDB => IInv'
<1> SUFFICES ASSUME IInv, VerifyDB PROVE IInv'
    OBVIOUS
<1>1. node = "verifying" /\ Len(m_chain) >= 1 /\ m_chain \in Seq(DOMAIN index)
    BY DEF VerifyDB, IInv, ChainInv, IndexInv, PathsOK
<1>2. Unchecked \in Nat
    BY <1>1, VerifyRows
<1>3. DisconnectDB(Unchecked) \subseteq Rows
    BY <1>1, VerifyRows
<1>4. \A k \in 1..(Len(m_chain) + 1) : ReconnectDB(k) \subseteq Rows
    BY <1>1, VerifyRows
<1> DEFINE failing == {k \in (Unchecked + 1)..Len(m_chain) : CheckLevel = 4 /\ ReconnectFailsAt(k)}
<1>5. failing \subseteq 1..(Len(m_chain) + 1)
    BY <1>1, <1>2
<1>6. CASE failing = {}
  <2>1. /\ announceDB' = CASE CheckLevel < 3 -> announceDB
                           [] CheckLevel = 3 -> DisconnectDB(Unchecked)
                           [] CheckLevel = 4 -> ReconnectDB(Len(m_chain) + 1)
        /\ node' = "running"
        /\ UNCHANGED <<memVars, diskIndex, dbVars, bounds>>
    BY <1>6, Zenon DEF VerifyDB
  <2>2. announceDB' \subseteq Rows
    <3>1. ReconnectDB(Len(m_chain) + 1) \subseteq Rows
      BY <1>1, <1>4
    <3>2. announceDB \subseteq Rows
      BY DEF IInv, TypeOK, Rows
    <3>3. CheckLevel < 3 \/ CheckLevel = 3 \/ CheckLevel = 4
      BY ChainAssumption
    <3> QED BY <1>3, <2>1, <3>1, <3>2, <3>3
  <2>3. /\ IndexInv'
        /\ \A b \in DOMAIN index' : Utxo(index[b].path)' = Utxo(index[b].path)
    BY <2>1, IndexStable DEF IInv, memVars
  <2>4. TypeOK'
    BY <2>1, <2>2, ZenonT(40) DEF IInv, TypeOK, Rows, memVars, dbVars, bounds
  <2>5. ChainInv'
    BY <1>1, <2>1 DEF IInv, ChainInv, memVars, Utxo, BlockOutputs, BlockInputs, TxsOf
  <2>6. dbHeads = <<>>
    BY <1>1 DEF IInv, StoreInv
  <2>7. StoreInv'
    BY <2>1, <2>3, <2>6, StoreStable, SMTT(30) DEF IInv, TypeOK, memVars
  <2> QED BY <2>3, <2>4, <2>5, <2>7 DEF IInv
<1>7. CASE failing # {}
  <2>1. /\ announceDB' = ReconnectDB(CHOOSE k \in failing : \A j \in failing : k <= j)
        /\ UNCHANGED <<diskIndex, dbVars, bounds>>
        /\ LoseMemory
    BY <1>7 DEF VerifyDB
  <2>2. (CHOOSE k \in failing : \A j \in failing : k <= j) \in failing
    <3>1. failing \in SUBSET Nat
      BY <1>5
    <3> HIDE DEF failing
    <3>2. \E k \in failing : \A j \in failing : k <= j
      BY <1>7, <3>1, LeastNatural
    <3> QED BY <3>2
  <2>3. announceDB' \subseteq Rows
    BY <1>4, <1>5, <2>1, <2>2, Zenon
  <2> QED BY <2>1, <2>3, LoseMemoryInv DEF IInv, TypeOK, bounds
<1> QED BY <1>6, <1>7, SMTT(30)
=============================================================================
