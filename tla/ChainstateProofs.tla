-------------------------- MODULE ChainstateProofs --------------------------
(***************************************************************************)
(* What holds of Chainstate for every value of its constants: the coins are *)
(* those of the chain, in memory and on disk, across reorganizations and   *)
(* crashes, and neither a reorganization nor a replay can fail.            *)
(***************************************************************************)
EXTENDS ChainstateStoreProofs, ChainstateTipProofs

(* Stuttering preserves the invariant.                                     *)
LEMMA StutterInv == IInv /\ UNCHANGED vars => IInv'
<1> SUFFICES ASSUME IInv, UNCHANGED vars PROVE IInv'
    OBVIOUS
<1> USE DEF vars
<1>1. IndexInv'
  <2>1. node' = "down" => index' = diskIndex'
    BY DEF IInv, IndexInv
  <2> QED BY <2>1, IndexStable DEF IInv
<1>2. Utxo(m_chain)' = Utxo(m_chain)
    BY DEF Utxo, BlockOutputs, BlockInputs, TxsOf
<1>3. /\ Utxo(index[dbBest].path)' = Utxo(index[dbBest].path)
      /\ Utxo(index[dbHeads[1]].path)' = Utxo(index[dbHeads[1]].path)
      /\ Utxo(index[dbHeads[2]].path)' = Utxo(index[dbHeads[2]].path)
    BY DEF Utxo, BlockOutputs, BlockInputs, TxsOf
<1> QED BY <1>1, <1>2, <1>3, SMTT(30) DEF IInv, TypeOK, ChainInv, StoreInv, Tip, Mixture

(* Every step of the node preserves the invariant.                         *)
LEMMA NextInv == IInv /\ [Next]_vars => IInv'
<1> QED BY StutterInv, AcceptBlockInv, ConnectTipInv, ConnectTipInvalidInv, DisconnectTipInv,
           WriteBlockIndexInv, FlushStateToDiskInv, FlushPartialBatchInv, FlushFinalBatchInv,
           CrashInv, ShutdownInv, ReplayBlocksInv, ReplayInterruptedInv, LoadChainTipInv,
           VerifyDBInv, VerifyInterruptedInv
        DEF Next

(* The inductive invariant holds in every reachable state of the chain     *)
(* state, through connects, disconnects, flushes, crashes and restarts.    *)
THEOREM Inductive == Spec => []IInv
<1> QED BY InitInv, NextInv, PTL DEF Spec

(* The chain state is type-correct, in memory and on disk. *)
THEOREM TypeCorrect == Spec => []TypeOK
<1>1. IInv => TypeOK
    BY DEF IInv
<1> QED BY <1>1, Inductive, PTL

(* The coins view is that of the active chain: ConnectBlock and            *)
(* DisconnectBlock are exact inverses of each other whatever blocks they   *)
(* are used on, and a restart brings back the coins of the chain it loads. *)
THEOREM CoinsAreThoseOfTheChain == Spec => []CoinsReflectChain
<1>1. IInv => CoinsReflectChain
    BY DEF IInv, ChainInv, CoinsReflectChain
<1> QED BY <1>1, Inductive, PTL

(* The coins database is the state of its best block whenever it is not    *)
(* marked as being in the middle of a flush: BatchWrite can be cut at any  *)
(* batch, and ReplayBlocks cut and repeated, any number of times.          *)
THEOREM CoinsSurviveCrashes == Spec => []StoredCoinsConsistent
<1>1. IInv => StoredCoinsConsistent
    BY DEF IInv, StoreInv, StoredCoinsConsistent
<1> QED BY <1>1, Inductive, PTL

(* DisconnectTip never meets missing undo data or unclean coins.           *)
THEOREM ReorganizationNeverAborts == Spec => []TipDisconnects
<1>1. IInv => TipDisconnects
  <2> SUFFICES ASSUME IInv, Len(m_chain) > 1 PROVE DisconnectIsClean(Tip(m_chain), coinsTip)
    BY DEF TipDisconnects
  <2>1. m_chain # <<>>
    BY EmptySeq DEF IInv, TypeOK
  <2>2. PICK tip \in DOMAIN index :
          /\ tip = Tip(m_chain) /\ index[tip].undo /\ m_chain = index[tip].path
          /\ coinsTip = Utxo(index[tip].path)
    BY <2>1 DEF IInv, ChainInv
  <2> QED BY <2>2, DisconnectCoins DEF IInv
<1> QED BY <1>1, Inductive, PTL

(* Whatever a crash cuts off, ReplayBlocks finds both heads and the undo   *)
(* data of every block that it has to disconnect.                          *)
THEOREM ReplayNeverFails == Spec => []ReplayPossible
<1>1. IInv => ReplayPossible
  <2> SUFFICES ASSUME IInv, node = "down", dbHeads # <<>>
               PROVE  /\ Known(dbHeads[1]) /\ Known(dbHeads[2])
                      /\ \A b \in UndoneByReplay : index[b].undo
    BY DEF ReplayPossible
  <2>1. PICK old \in DOMAIN index, new \in DOMAIN index :
          old = dbHeads[2] /\ new = dbHeads[1] /\ index[old].undo
    BY DEF IInv, StoreInv, IndexInv
  <2> DEFINE n == ForkLength(index[old].path, index[new].path)
  <2>2. n \in 1..Len(index[old].path)
    BY ForkProperties DEF IInv
  <2> HIDE DEF n
  <2>3. /\ index[old].path \in Seq(DOMAIN index)
        /\ \A k \in 1..Len(index[old].path) : index[index[old].path[k]].undo
    BY <2>1, PathElements, Zenon DEF IInv, IndexInv
  <2>4. \A b \in Branch(index[old].path, n) : index[b].undo
    BY <2>2, <2>3 DEF Branch
  <2> QED BY <2>1, <2>4 DEF UndoneByReplay, Known, n
<1> QED BY <1>1, Inductive, PTL
=============================================================================
