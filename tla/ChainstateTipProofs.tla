------------------------ MODULE ChainstateTipProofs -------------------------
(***************************************************************************)
(* The steps that extend the block index and move the tip preserve the     *)
(* invariant of ChainstateFacts.                                           *)
(***************************************************************************)
EXTENDS ChainstateFacts

(* The steps of the running node. *)
LEMMA DisconnectTipInv == IInv /\ DisconnectTip => IInv'
<1> SUFFICES ASSUME IInv, DisconnectTip PROVE IInv'
    OBVIOUS
<1> USE DEF DisconnectTip, dbVars, bounds
<1>1. PICK tip \in DOMAIN index :
        /\ tip = Tip(m_chain) /\ index[tip].undo /\ m_chain = index[tip].path
        /\ coinsTip = Utxo(index[tip].path) /\ Len(index[tip].path) > 1
        /\ node = "running" /\ node' = "running"
    BY DEF IInv, ChainInv
<1>2. PICK prev \in DOMAIN index :
        /\ prev = Tip(Pprev(index[tip].path)) /\ index[prev].path = Pprev(index[tip].path)
    BY <1>1, ParentOnPath, SMTT(30) DEF IInv
<1>3. index[prev].undo
  <2>1. prev \in BlockSet(index[tip].path)
    <3>1. index[prev].path \in Seq(DOMAIN index) /\ Len(index[prev].path) >= 1
      BY DEF IInv, IndexInv, PathsOK
    <3>2. prev \in BlockSet(Pprev(index[tip].path))
      BY <1>2, <3>1, SMTT(30) DEF BlockSet, Tip
    <3> QED BY <1>1, <3>2, ParentOnPath, SMTT(30) DEF IInv
  <2>2. index[tip].path \in Seq(DOMAIN index)
    BY DEF IInv, IndexInv, PathsOK
  <2>3. PICK k \in 1..Len(index[tip].path) : prev = index[tip].path[k]
    BY <2>1, <2>2 DEF BlockSet
  <2> QED BY <1>1, <2>3 DEF IInv, IndexInv, PathsOK
<1>4. coinsTip' = Utxo(index[prev].path)
    BY <1>1, <1>2, DisconnectCoins DEF IInv
<1>5. /\ IndexInv'
      /\ \A b \in DOMAIN index' : Utxo(index[b].path)' = Utxo(index[b].path)
    BY <1>1, IndexStable DEF IInv
<1>6. TypeOK'
  <2>1. coinsTip' \subseteq OutPoint
    BY <1>4, UtxoType, SMTT(30) DEF IInv
  <2>2. m_chain' \in Seq(Blocks \cup {Root})
    BY <1>1, <1>2 DEF IInv, TypeOK, BlockIndex
  <2>3. announceDB' \subseteq Rows
    BY RemoveType, SMTT(30) DEF IInv, TypeOK, Rows
  <2> QED BY <2>1, <2>2, <2>3 DEF IInv, TypeOK, Rows
<1>7. ChainInv'
  <2>1. m_chain' = index[prev].path
    BY <1>1, <1>2, SMTT(30)
  <2>2. Tip(m_chain)' = prev /\ Len(m_chain') >= 1
    BY <2>1 DEF IInv, IndexInv, PathsOK, Tip
  <2>3. Utxo(m_chain)' = Utxo(index[prev].path)'
    BY <2>1, SMTT(30)
  <2> QED BY <1>1, <1>3, <1>4, <1>5, <2>1, <2>2, <2>3, SMTT(30) DEF ChainInv
<1>8. StoreInv'
    BY <1>1, <1>5, StoreStable DEF IInv, TypeOK, StoreInv
<1> QED BY <1>5, <1>6, <1>7, <1>8 DEF IInv

(* A step that adds blocks, or raises flags of the known ones. *)
LEMMA IndexGrows ==
    ASSUME TypeOK, IndexInv, diskIndex' = diskIndex, node' # "down",
           DOMAIN index \subseteq DOMAIN index',
           \A b \in DOMAIN index : /\ index'[b].path = index[b].path
                                   /\ index'[b].vtx = index[b].vtx
                                   /\ index[b].undo => index'[b].undo,
           PathsOK(index'), index'[Root] = RootIndex,
           \A b \in DOMAIN index' : index'[b].undo =>
               b \in DOMAIN index /\ WasConnected(b)
    PROVE  /\ IndexInv'
           /\ \A b \in DOMAIN index : Utxo(index[b].path)' = Utxo(index[b].path)
<1>1. \A b \in DOMAIN index : index[b].path \in Seq(DOMAIN index)
    BY DEF IndexInv, PathsOK
<1>2. ASSUME NEW b \in DOMAIN index
      PROVE  Utxo(index[b].path)' = Utxo(index[b].path)
  <2>1. PICK p \in Seq(DOMAIN index) : p = index[b].path /\ p = index'[b].path
    BY <1>1
  <2>2. Utxo(p)' = Utxo(p)
    BY Frame
  <2>3. Utxo(index[b].path)' = Utxo(p)'
    BY <2>1 DEF Utxo
  <2> QED BY <2>1, <2>2, <2>3
<1>3. ASSUME NEW b \in DOMAIN index, WasConnected(b)
      PROVE  WasConnected(b)'
  <2>1. Ancestors(b) \subseteq DOMAIN index
    BY <1>1 DEF Ancestors
  <2>2. \A c \in DOMAIN index : /\ TxsOf(c)' = TxsOf(c)
                                /\ BlockInputs(c)' = BlockInputs(c)
                                /\ BlockOutputs(c)' = BlockOutputs(c)
                                /\ Ancestors(c)' = Ancestors(c)
    BY Frame, ZenonT(40)
  <2> QED BY <1>3, <2>1, <2>2 DEF WasConnected
<1>4. \A b \in DOMAIN diskIndex : b \in DOMAIN index
    BY DEF TypeOK
<1>5. IndexInv'
    BY <1>3, <1>4 DEF IndexInv
<1> QED BY <1>2, <1>5, SMTT(30)

(* Steps of the running node that write no database keep it consistent.    *)
LEMMA StoreGrows ==
    ASSUME IInv, UNCHANGED <<diskIndex, dbVars>>, node = "running", node' = "running",
           \A b \in DOMAIN index : Utxo(index[b].path)' = Utxo(index[b].path)
    PROVE  StoreInv'
<1>1. PICK b \in DOMAIN diskIndex : b = dbBest /\ dbHeads = <<>>
    BY DEF IInv, StoreInv
<1>2. b \in DOMAIN index
    BY DEF IInv, TypeOK
<1>3. Utxo(index[dbBest].path)' = Utxo(index[b].path)'
    BY <1>1 DEF dbVars
<1> QED BY <1>1, <1>2, <1>3 DEF IInv, StoreInv, dbVars

(* New flags leave the paths alone. *)
LEMMA PathsOKFlags ==
    ASSUME NEW ix, NEW iy, PathsOK(ix), DOMAIN iy = DOMAIN ix,
           \A b \in DOMAIN ix : iy[b].path = ix[b].path,
           \A b \in DOMAIN ix : \A k \in 1..Len(ix[b].path) :
               iy[b].undo => iy[ix[b].path[k]].undo
    PROVE  PathsOK(iy)
<1> SUFFICES ASSUME NEW b \in DOMAIN ix
             PROVE  /\ iy[b].path \in Seq(DOMAIN iy)
                    /\ Len(iy[b].path) >= 1
                    /\ Tip(iy[b].path) = b
                    /\ iy[b].path[1] = Root
                    /\ \A k \in 1..Len(iy[b].path) :
                          /\ iy[iy[b].path[k]].path = SubSeq(iy[b].path, 1, k)
                          /\ iy[b].undo => iy[iy[b].path[k]].undo
    BY DEF PathsOK
<1>1. iy[b].path = ix[b].path
    OBVIOUS
<1>2. \A k \in 1..Len(ix[b].path) :
         /\ ix[b].path[k] \in DOMAIN ix
         /\ ix[ix[b].path[k]].path = SubSeq(ix[b].path, 1, k)
    BY PathElements
<1>3. \A k \in 1..Len(ix[b].path) : iy[ix[b].path[k]].path = SubSeq(ix[b].path, 1, k)
    BY <1>2
<1>4. /\ ix[b].path \in Seq(DOMAIN ix) /\ Len(ix[b].path) >= 1
      /\ Tip(ix[b].path) = b /\ ix[b].path[1] = Root
    BY PathElements, Zenon
<1>5. \A k \in 1..Len(ix[b].path) : iy[b].undo => iy[ix[b].path[k]].undo
    BY Zenon
<1> QED BY <1>1, <1>3, <1>4, <1>5, ZenonT(40)

(* A block that fails to connect leaves coins and chain as they were.      *)
LEMMA ConnectTipInvalidInv == IInv /\ (\E b \in Blocks : ConnectTipInvalid(b)) => IInv'
<1> SUFFICES ASSUME IInv, NEW b \in Blocks, ConnectTipInvalid(b) PROVE IInv'
    OBVIOUS
<1> USE DEF ConnectTipInvalid, dbVars, bounds
<1>1. /\ b \in DOMAIN index /\ node = "running" /\ node' = "running"
      /\ index' = [index EXCEPT ![b].failed = TRUE] /\ b # Root
      /\ index[b] \in BlockIndex
    BY DEF Connectable, Known, IInv, TypeOK, Blocks, Root
<1>2. /\ DOMAIN index' = DOMAIN index
      /\ \A c \in DOMAIN index : /\ index'[c].path = index[c].path
                                 /\ index'[c].vtx = index[c].vtx
                                 /\ index'[c].undo = index[c].undo
                                 /\ index'[c] \in BlockIndex
      /\ index'[Root] = index[Root]
  <2>1. /\ DOMAIN index' = DOMAIN index
        /\ index'[b] = [index[b] EXCEPT !.failed = TRUE]
        /\ \A c \in DOMAIN index \ {b} : index'[c] = index[c]
    BY <1>1
  <2>2. /\ index'[b].path = index[b].path
        /\ index'[b].vtx = index[b].vtx
        /\ index'[b].undo = index[b].undo
        /\ index'[b] \in BlockIndex
    BY <1>1, <2>1, Zenon DEF BlockIndex
  <2>3. Root \in DOMAIN index /\ \A c \in DOMAIN index : index[c] \in BlockIndex
    BY DEF IInv, TypeOK
  <2>4. \A c \in DOMAIN index : index[c].undo \in BOOLEAN
    BY <2>3 DEF BlockIndex
  <2> QED BY <1>1, <2>1, <2>2, <2>3, <2>4
<1>3. PathsOK(index')
  <2>1. PathsOK(index)
    BY DEF IInv, IndexInv
  <2>2. \A c \in DOMAIN index : \A k \in 1..Len(index[c].path) :
            index'[c].undo => index'[index[c].path[k]].undo
    BY <1>2, <2>1, PathElements, SMTT(30)
  <2>3. DOMAIN index' = DOMAIN index /\ \A c \in DOMAIN index : index'[c].path = index[c].path
    BY <1>2
  <2> HIDE DEF ConnectTipInvalid
  <2> QED BY <2>1, <2>2, <2>3, PathsOKFlags
<1>4. /\ IndexInv'
      /\ \A c \in DOMAIN index : Utxo(index[c].path)' = Utxo(index[c].path)
  <2>1. \A c \in DOMAIN index : index[c].undo => WasConnected(c)
    BY DEF IInv, IndexInv
  <2>2. index'[Root] = RootIndex
    BY <1>2 DEF IInv, IndexInv
  <2> QED BY <1>1, <1>2, <1>3, <2>1, <2>2, IndexGrows DEF IInv
<1>5. announceDB' \subseteq Rows
    BY <1>1, AddType, BlockTypes DEF IInv, TypeOK, Rows
<1>6. TypeOK'
  <2>1. index' \in [DOMAIN index' -> BlockIndex]
    BY <1>1, <1>2, Zenon
  <2> QED BY <1>1, <1>2, <1>5, <2>1 DEF IInv, TypeOK, Rows
<1>7. ChainInv'
  <2>1. PICK tip \in DOMAIN index : tip = Tip(m_chain) /\ m_chain = index[tip].path
    BY <1>1, SMTT(30) DEF IInv, ChainInv
  <2>2. Utxo(m_chain)' = Utxo(index[tip].path)'
    BY <1>2, <2>1 DEF Utxo
  <2>3. Tip(m_chain)' = tip
    BY <2>1 DEF Tip
  <2> QED BY <1>1, <1>2, <1>4, <2>1, <2>2, <2>3 DEF IInv, ChainInv
<1>8. StoreInv'
    BY <1>1, <1>4, StoreGrows
<1> QED BY <1>4, <1>6, <1>7, <1>8 DEF IInv

\* The chain ConnectTip leaves by appending a block to its parent's path is the
\* path of the block.
(* The path of a block is that of its parent and the block.                *)
LEMMA AppendParent ==
  ASSUME PathsOK(index), NEW b \in DOMAIN index, Len(index[b].path) > 1
  PROVE  Append(Pprev(index[b].path), b) = index[b].path
<1> DEFINE p == index[b].path
<1> DEFINE q == Pprev(index[b].path)
<1>1. p \in Seq(DOMAIN index) /\ Len(p) > 1 /\ p[Len(p)] = b
  <2>1. index[b].path \in Seq(DOMAIN index) /\ Tip(index[b].path) = b
    BY DEF PathsOK
  <2> QED BY <2>1 DEF Tip
<1>2. /\ q \in Seq(DOMAIN index) /\ Len(q) = Len(p) - 1
      /\ \A k \in 1..(Len(p) - 1) : q[k] = p[k]
    BY <1>1, PathSplit, SMTT(30)
<1> HIDE DEF p, q
<1>3. Append(q, b) \in Seq(DOMAIN index) /\ Len(Append(q, b)) = Len(p)
    BY <1>1, <1>2
<1>4. \A k \in 1..Len(p) : Append(q, b)[k] = p[k]
    BY <1>1, <1>2
<1>5. Append(q, b) = p
    BY <1>1, <1>3, <1>4, SeqEqual
<1> QED BY <1>5 DEF p, q

(* ConnectTip leaves the coins of the longer chain, and writes undo data.  *)
LEMMA ConnectTipInv == IInv /\ (\E b \in Blocks : ConnectTip(b)) => IInv'
<1> SUFFICES ASSUME IInv, NEW b \in Blocks, ConnectTip(b) PROVE IInv'
    OBVIOUS
<1> USE DEF ConnectTip, dbVars, bounds
<1>1. /\ b \in DOMAIN index /\ node = "running" /\ node' = "running"
      /\ index' = [index EXCEPT ![b].undo = TRUE] /\ b # Root
      /\ index[b] \in BlockIndex
      /\ Len(index[b].path) > 1 /\ Pprev(index[b].path) = m_chain
      /\ ConnectBlockChecks(b, coinsTip, announceDB)
    BY DEF Connectable, Known, IInv, TypeOK, Blocks, Root
<1>2. /\ DOMAIN index' = DOMAIN index
      /\ \A c \in DOMAIN index : /\ index'[c].path = index[c].path
                                 /\ index'[c].vtx = index[c].vtx
                                 /\ index'[c].undo = (index[c].undo \/ c = b)
                                 /\ index'[c] \in BlockIndex
      /\ index'[Root] = index[Root]
  <2>1. /\ DOMAIN index' = DOMAIN index
        /\ index'[b] = [index[b] EXCEPT !.undo = TRUE]
        /\ \A c \in DOMAIN index \ {b} : index'[c] = index[c]
    BY <1>1
  <2>2. /\ index'[b].path = index[b].path
        /\ index'[b].vtx = index[b].vtx
        /\ index'[b].undo = TRUE
        /\ index'[b] \in BlockIndex
    BY <1>1, <2>1, Zenon DEF BlockIndex
  <2>3. Root \in DOMAIN index /\ \A c \in DOMAIN index : index[c] \in BlockIndex
    BY DEF IInv, TypeOK
  <2>4. \A c \in DOMAIN index : index[c].undo \in BOOLEAN
    BY <2>3 DEF BlockIndex
  <2> QED BY <1>1, <2>1, <2>2, <2>3, <2>4, ZenonT(40)
<1>3. PICK tip \in DOMAIN index :
        /\ tip = Tip(m_chain) /\ index[tip].undo /\ m_chain = index[tip].path
        /\ coinsTip = Utxo(index[tip].path)
    BY <1>1 DEF IInv, ChainInv
<1>4. WasConnected(b) /\ coinsTip' = Utxo(index[b].path)
    BY <1>1, <1>3, ConnectCoins, SMTT(30) DEF IInv
<1>5. PathsOK(index')
  <2>0. PathsOK(index)
    BY DEF IInv, IndexInv
  <2>1. \A c \in DOMAIN index : \A k \in 1..Len(index[c].path) :
            /\ index[c].path[k] \in DOMAIN index
            /\ index[c].undo => index[index[c].path[k]].undo
    BY <2>0, PathElements, SMTT(30)
  <2>2. \A k \in 1..Len(index[b].path) : index'[index[b].path[k]].undo
    <3>1. SUFFICES ASSUME NEW k \in 1..Len(index[b].path), index[b].path[k] # b
                   PROVE  index[index[b].path[k]].undo
      BY <1>1, <1>2, <2>1
    <3>2. index[b].path \in Seq(DOMAIN index) /\ index[b].path[Len(index[b].path)] = b
      BY <1>1, <2>0, PathElements DEF Tip
    <3>3. k \in 1..(Len(index[b].path) - 1)
      BY <3>1, <3>2
    <3>4. /\ Len(Pprev(index[b].path)) = Len(index[b].path) - 1
          /\ \A j \in 1..(Len(index[b].path) - 1) : Pprev(index[b].path)[j] = index[b].path[j]
      BY <1>1, <3>2, PathSplit
    <3>5. Len(m_chain) = Len(index[b].path) - 1 /\ m_chain[k] = index[b].path[k]
      BY <1>1, <3>3, <3>4, SMTT(30)
    <3> QED BY <1>3, <2>1, <3>3, <3>5, SMTT(30)
  <2>3. \A c \in DOMAIN index : \A k \in 1..Len(index[c].path) :
            index'[c].undo => index'[index[c].path[k]].undo
    BY <1>2, <2>1, <2>2
  <2>4. DOMAIN index' = DOMAIN index /\ \A c \in DOMAIN index : index'[c].path = index[c].path
    BY <1>2
  <2> HIDE DEF ConnectTip
  <2> QED BY <2>0, <2>3, <2>4, PathsOKFlags
<1>6. /\ IndexInv'
      /\ \A c \in DOMAIN index : Utxo(index[c].path)' = Utxo(index[c].path)
  <2>1. \A c \in DOMAIN index : index'[c].undo => WasConnected(c)
    BY <1>2, <1>4 DEF IInv, IndexInv
  <2>2. index'[Root] = RootIndex
    BY <1>2 DEF IInv, IndexInv
  <2> QED BY <1>1, <1>2, <1>5, <2>1, <2>2, IndexGrows, SMTT(30) DEF IInv
<1>7. m_chain' = index[b].path
  <2>1. PathsOK(index)
    BY DEF IInv, IndexInv
  <2>2. Append(Pprev(index[b].path), b) = index[b].path
    BY <1>1, <2>1, AppendParent
  <2> QED BY <1>1, <2>2
<1>8. announceDB' \subseteq Rows
    BY <1>1, AddType, BlockTypes, Zenon DEF IInv, TypeOK, Rows
<1>9. TypeOK'
  <2>1. index' \in [DOMAIN index' -> BlockIndex]
    BY <1>1, <1>2, Zenon
  <2>2. coinsTip' \subseteq OutPoint
    BY <1>1, <1>4, UtxoType DEF IInv
  <2>3. m_chain' \in Seq(Blocks \cup {Root})
    BY <1>1, <1>7 DEF BlockIndex
  <2> QED BY <1>1, <1>2, <1>8, <2>1, <2>2, <2>3, SMTT(30) DEF IInv, TypeOK, Rows
<1>10. ChainInv'
  <2>1. Tip(m_chain)' = b /\ Len(m_chain') >= 1
    BY <1>1, <1>7 DEF IInv, IndexInv, PathsOK, Tip
  <2>2. Utxo(m_chain)' = Utxo(index[b].path)'
    <3>1. m_chain' = index'[b].path
      BY <1>1, <1>2, <1>7, ZenonT(40)
    <3> QED BY <3>1
  <2> QED BY <1>1, <1>2, <1>4, <1>6, <1>7, <2>1, <2>2, Zenon DEF ChainInv
<1>11. StoreInv'
    BY <1>1, <1>6, StoreGrows
<1> QED BY <1>6, <1>9, <1>10, <1>11 DEF IInv

(* AcceptBlock adds a block to the tree and changes nothing else.          *)
LEMMA AcceptBlockInv ==
    IInv /\ (\E b \in Blocks : \E prev \in Blocks \cup {Root} :
               \E vtx \in VtxChoices, verdict \in Verdicts : AcceptBlock(b, prev, vtx, verdict))
      => IInv'
<1> SUFFICES ASSUME IInv, NEW b \in Blocks, NEW prev \in Blocks \cup {Root},
                    NEW vtx \in VtxChoices, NEW verdict \in Verdicts,
                    AcceptBlock(b, prev, vtx, verdict)
             PROVE  IInv'
    OBVIOUS
<1> DEFINE multiple == /\ DeploymentActiveAfter(Height(index[prev].path))
                       /\ ~NoMultipleAnnouncements(vtx)
           new == [path |-> Append(index[prev].path, b), vtx |-> vtx, verdict |-> verdict,
                   failed |-> multiple, undo |-> FALSE]
<1>0. multiple \in BOOLEAN
    OBVIOUS
<1>1. index' = [c \in DOMAIN index \cup {b} |-> IF c = b THEN new ELSE index[c]]
    BY Zenon DEF AcceptBlock
<1> HIDE DEF multiple
<1>2. /\ node = "running" /\ node' = "running" /\ b \notin DOMAIN index /\ prev \in DOMAIN index
      /\ UNCHANGED <<m_chain, coinsTip, announceDB, diskIndex, coinsDB, dbBest, dbHeads, crashes, shutdowns>>
    BY DEF AcceptBlock, Known, dbVars, bounds
<1>3. /\ PathsOK(index) /\ Root \in DOMAIN index /\ b # Root
      /\ \A c \in DOMAIN index : index[c] \in BlockIndex
    BY DEF IInv, IndexInv, TypeOK, Blocks, Root
<1>4. /\ DOMAIN index' = DOMAIN index \cup {b}
      /\ index'[b] = new
      /\ \A c \in DOMAIN index : index'[c] = index[c]
    BY <1>1, <1>2
<1> HIDE DEF AcceptBlock
<1>5. new \in BlockIndex
  <2>1. Append(index[prev].path, b) \in Seq(Blocks \cup {Root})
    BY <1>2, <1>3 DEF BlockIndex
  <2>2. verdict \in {"ok", "before", "after"}
    BY ChainAssumption, SMTT(30)
  <2> QED BY <1>0, <2>1, <2>2 DEF BlockIndex
<1> HIDE DEF new
<1>6. PathsOK(index')
  <2>a. PathsOK(index) /\ prev \in DOMAIN index
    BY <1>2, <1>3
  <2>0. /\ index[prev].path \in Seq(DOMAIN index)
        /\ Len(index[prev].path) >= 1
        /\ Tip(index[prev].path) = prev
        /\ index[prev].path[1] = Root
        /\ \A k \in 1..Len(index[prev].path) :
              /\ index[prev].path[k] \in DOMAIN index
              /\ index[index[prev].path[k]].path = SubSeq(index[prev].path, 1, k)
              /\ index[prev].undo => index[index[prev].path[k]].undo
    BY <2>a, PathElements, Zenon
  <2> DEFINE q == index[prev].path
             p == Append(q, b)
  <2>1. /\ q \in Seq(DOMAIN index) /\ Len(q) >= 1 /\ q[1] = Root
        /\ \A k \in 1..Len(q) : /\ q[k] \in DOMAIN index
                               /\ index[q[k]].path = SubSeq(q, 1, k)
    BY <2>0, Zenon
  <2>2. new.path = p
    BY DEF new
  <2> HIDE DEF q
  <2>3. /\ p \in Seq(DOMAIN index') /\ Len(p) = Len(q) + 1 /\ p[1] = Root /\ p[Len(p)] = b
        /\ \A k \in 1..Len(q) : p[k] = q[k]
    BY <2>1, <1>4
  <2> HIDE DEF p
  <2>4. \A k \in 1..Len(q) : SubSeq(p, 1, k) = SubSeq(q, 1, k)
    <3> SUFFICES ASSUME NEW k \in 1..Len(q) PROVE SubSeq(p, 1, k) = SubSeq(q, 1, k)
      OBVIOUS
    <3>1. k \in Nat /\ k <= Len(q) /\ k <= Len(p)
      BY <2>1, <2>3
    <3>2. /\ SubSeq(p, 1, k) \in Seq(DOMAIN index') /\ Len(SubSeq(p, 1, k)) = k
          /\ \A j \in 1..k : SubSeq(p, 1, k)[j] = p[j]
      BY <2>3, <3>1
    <3>3. /\ SubSeq(q, 1, k) \in Seq(DOMAIN index) /\ Len(SubSeq(q, 1, k)) = k
          /\ \A j \in 1..k : SubSeq(q, 1, k)[j] = q[j]
      BY <2>1, <3>1
    <3>4. SubSeq(q, 1, k) \in Seq(DOMAIN index')
      BY <3>3, <1>4
    <3>5. \A j \in 1..k : SubSeq(p, 1, k)[j] = SubSeq(q, 1, k)[j]
      BY <3>1, <3>2, <3>3, <2>3
    <3> QED BY <3>2, <3>3, <3>4, <3>5, SeqEqual
  <2>5. SubSeq(p, 1, Len(p)) = p
    BY <2>3, SubSeqFull
  <2>6. ASSUME NEW c \in DOMAIN index
        PROVE  /\ index'[c].path \in Seq(DOMAIN index')
               /\ Len(index'[c].path) >= 1
               /\ Tip(index'[c].path) = c
               /\ index'[c].path[1] = Root
               /\ \A k \in 1..Len(index'[c].path) :
                     /\ index'[index'[c].path[k]].path = SubSeq(index'[c].path, 1, k)
                     /\ index'[c].undo => index'[index'[c].path[k]].undo
    <3>1. index'[c] = index[c]
      BY <1>4, SMTT(30)
    <3>2. /\ index[c].path \in Seq(DOMAIN index) /\ Len(index[c].path) >= 1
          /\ Tip(index[c].path) = c /\ index[c].path[1] = Root
          /\ \A k \in 1..Len(index[c].path) :
                /\ index[c].path[k] \in DOMAIN index
                /\ index[index[c].path[k]].path = SubSeq(index[c].path, 1, k)
                /\ index[c].undo => index[index[c].path[k]].undo
      BY <1>3, PathElements, SMTT(30)
    <3>3. index[c].path \in Seq(DOMAIN index')
      BY <3>2, <1>4, SMTT(30)
    <3>4. \A k \in 1..Len(index[c].path) : index'[index[c].path[k]] = index[index[c].path[k]]
      BY <3>2, <1>4
    <3> QED BY <3>1, <3>2, <3>3, <3>4, SMTT(30)
  <2>7. \A k \in 1..Len(p) : index'[p[k]].path = SubSeq(p, 1, k)
    <3>1. ASSUME NEW k \in 1..Len(q) PROVE index'[p[k]].path = SubSeq(p, 1, k)
      <4>1. p[k] = q[k] /\ q[k] \in DOMAIN index /\ index[q[k]].path = SubSeq(q, 1, k)
        BY <2>1, <2>3
      <4> QED BY <4>1, <1>4, <2>4, SMTT(30)
    <3>2. index'[p[Len(p)]].path = SubSeq(p, 1, Len(p))
      BY <1>4, <2>2, <2>3, <2>5, SMTT(30)
    <3>3. \A k \in 1..Len(p) : k \in 1..Len(q) \/ k = Len(p)
      BY <2>1, <2>3, SMTT(30)
    <3> QED BY <3>1, <3>2, <3>3, SMTT(30)
  <2>8. /\ index'[b].path = p /\ index'[b].undo = FALSE /\ Len(p) >= 1 /\ Tip(p) = b
    BY <1>4, <2>1, <2>2, <2>3, SMTT(30) DEF Tip, new
  <2> QED BY <1>4, <2>3, <2>6, <2>7, <2>8, SMTT(90) DEF PathsOK
<1>7. /\ IndexInv'
      /\ \A c \in DOMAIN index : Utxo(index[c].path)' = Utxo(index[c].path)
  <2>1. \A c \in DOMAIN index' : index'[c].undo => c \in DOMAIN index /\ WasConnected(c)
    BY <1>4, SMTT(90) DEF IInv, IndexInv, new
  <2>2. index'[Root] = RootIndex
    BY <1>3, <1>4 DEF IInv, IndexInv
  <2> QED BY <1>2, <1>3, <1>4, <1>6, <2>1, <2>2, IndexGrows, SMTT(30) DEF IInv
<1>8. TypeOK'
  <2>1. index' \in [DOMAIN index' -> BlockIndex]
    BY <1>1, <1>3, <1>4, <1>5, SMTT(30)
  <2> QED BY <1>2, <1>4, <2>1 DEF IInv, TypeOK
<1>9. ChainInv'
  <2>1. PICK tip \in DOMAIN index :
          /\ tip = Tip(m_chain) /\ index[tip].undo /\ m_chain = index[tip].path
          /\ coinsTip = Utxo(index[tip].path)
    BY <1>2, SMTT(30) DEF IInv, ChainInv
  <2>2. m_chain' = index'[tip].path
    BY <1>2, <1>4, <2>1
  <2>3. Utxo(m_chain)' = Utxo(index[tip].path)'
    <3>1. m_chain' = index'[tip].path
      BY <2>2
    <3> QED BY <3>1
  <2> QED BY <1>2, <1>4, <1>7, <2>1, <2>2, <2>3, ZenonT(40) DEF IInv, ChainInv, Tip
<1>10. StoreInv'
    BY <1>2, <1>4, <1>7, StoreGrows DEF dbVars
<1> QED BY <1>7, <1>8, <1>9, <1>10 DEF IInv
=============================================================================
