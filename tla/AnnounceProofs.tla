--------------------------- MODULE AnnounceProofs ---------------------------
(***************************************************************************)
(* While the node neither stops nor connects a block that fails after its  *)
(* announcements are written, the announcement database is that of the     *)
(* active chain; so the validity of a block is a function of the chain     *)
(* below it, and every claim in the chain was announced in that chain.     *)
(* None of the three conditions can simply be dropped: the instances       *)
(* MCChainLostBlock, MCChainCheckLevel3 and MCChainRowsOfInvalid each drop *)
(* one, and violate a property proved here.                                *)
(***************************************************************************)
EXTENDS ChainstateProofs

NoFaults == MaxCrashes = 0 /\ MaxShutdowns = 0 /\ "after" \notin Verdicts

(* The checks of ConnectBlock, against the state of the chain below b. *)
ChecksPassed(b) ==
    ConnectBlockChecks(b, Utxo(Pprev(index[b].path)), ChainAnnouncements(Pprev(index[b].path)))

AnnounceInv ==
    /\ node \in {"running", "flushing"}
    /\ \A b \in DOMAIN index : index[b].verdict # "after"
    /\ announceDB = ChainAnnouncements(m_chain)
    /\ \A b \in DOMAIN index : (index[b].undo /\ Len(index[b].path) > 1) => ChecksPassed(b)
-----------------------------------------------------------------------------
(* The locator of a row names the transaction that made it. *)
LEMMA RowKeys ==
    ASSUME TypeOK, NEW b \in DOMAIN index
    PROVE  /\ \A a \in BlockAnnouncements(b, 0) : a.locator[1] \in TxsOf(b)
           /\ \A a \in NewAnnouncements(b) : a.locator[1] \in TxsOf(b)
<1>1. TxsOf(b) \subseteq Txs /\ Height(index[b].path) \in Nat
    BY BlockTypes
<1>2. \A h \in Nat : \A a \in BlockAnnouncements(b, h) : a.locator[1] \in TxsOf(b)
    BY <1>1, RowTypes DEF BlockAnnouncements
<1> QED BY <1>1, <1>2 DEF NewAnnouncements

(* DisconnectBlock removes what ConnectBlock has written. *)
LEMMA RowsHaveKeys ==
    ASSUME NEW b, NEW a \in NewAnnouncements(b)
    PROVE  \E a0 \in BlockAnnouncements(b, 0) :
               a0.id = a.id /\ a0.locator = a.locator /\ a0.claim = a.claim
<1>1. PICK t \in TxsOf(b) : a \in ExtractAnnouncements(t, Height(index[b].path))
    BY DEF NewAnnouncements, BlockAnnouncements
<1>2. PICK i \in {j \in DOMAIN vout[t] : IsDeadpoolAnnouncement(vout[t][j])} :
        a = [id |-> vout[t][i].id, locator |-> <<t, i>>, height |-> Height(index[b].path),
             claim |-> vout[t][i].claim]
    BY <1>1 DEF ExtractAnnouncements
<1> DEFINE a0 == [id |-> vout[t][i].id, locator |-> <<t, i>>, height |-> 0, claim |-> vout[t][i].claim]
<1>3. a0 \in BlockAnnouncements(b, 0)
    BY <1>1 DEF BlockAnnouncements, ExtractAnnouncements
<1>4. a0.id = a.id /\ a0.locator = a.locator /\ a0.claim = a.claim
    BY <1>2
<1> QED BY <1>3, <1>4

(* The rows of a chain are those of the chain below its tip and the tip's. *)
LEMMA ChainRows ==
    ASSUME TypeOK, IndexInv, NEW b \in DOMAIN index, Len(index[b].path) > 1
    PROVE  /\ ChainAnnouncements(Pprev(index[b].path)) = UNION {NewAnnouncements(c) : c \in Ancestors(b)}
           /\ ChainAnnouncements(index[b].path)
                = ChainAnnouncements(Pprev(index[b].path)) \cup NewAnnouncements(b)
           /\ Ancestors(b) \subseteq DOMAIN index
<1>1. /\ BlockSet(Pprev(index[b].path)) = Ancestors(b)
      /\ BlockSet(index[b].path) = Ancestors(b) \cup {b}
      /\ Ancestors(b) \subseteq DOMAIN index
    BY ParentOnPath
<1>2. \A p : ChainAnnouncements(p) = UNION {NewAnnouncements(c) : c \in BlockSet(p)}
    BY DEF ChainAnnouncements, BlockSet
<1> QED BY <1>1, <1>2

(* No two blocks of a chain write the same row. *)
LEMMA RowsDisjoint ==
    ASSUME TypeOK, IndexInv, NEW b \in DOMAIN index, Len(index[b].path) > 1, WasConnected(b),
           NEW r \in ChainAnnouncements(Pprev(index[b].path))
    PROVE  /\ \A a \in NewAnnouncements(b) : ~SameKey(r, a)
           /\ \A a \in BlockAnnouncements(b, 0) : ~SameKey(r, a)
<1>1. PICK c \in Ancestors(b) : r \in NewAnnouncements(c) /\ c \in DOMAIN index
    BY ChainRows
<1>2. r.locator[1] \in TxsOf(c)
    BY <1>1, RowKeys
<1>3. TxsOf(b) \cap TxsOf(c) = {}
    BY <1>1 DEF WasConnected
<1>4. /\ \A a \in BlockAnnouncements(b, 0) : a.locator[1] \in TxsOf(b)
      /\ \A a \in NewAnnouncements(b) : a.locator[1] \in TxsOf(b)
    BY RowKeys
<1> QED BY <1>2, <1>3, <1>4 DEF SameKey

(* ConnectBlock and DisconnectBlock move the database along the chain. *)
LEMMA RowsMove ==
    ASSUME TypeOK, IndexInv, NEW b \in DOMAIN index, Len(index[b].path) > 1, WasConnected(b)
    PROVE  /\ AddAnnouncements(ChainAnnouncements(Pprev(index[b].path)), NewAnnouncements(b))
                = ChainAnnouncements(index[b].path)
           /\ RemoveAnnouncements(ChainAnnouncements(index[b].path), BlockAnnouncements(b, 0))
                = ChainAnnouncements(Pprev(index[b].path))
<1> DEFINE below == ChainAnnouncements(Pprev(index[b].path))
           mine == NewAnnouncements(b)
           keys == BlockAnnouncements(b, 0)
<1>1. ChainAnnouncements(index[b].path) = below \cup mine
    BY ChainRows
<1>2. \A r \in below : /\ \A a \in mine : ~SameKey(r, a)
                       /\ \A a \in keys : ~SameKey(r, a)
    BY RowsDisjoint
<1>3. \A a \in mine : \E a0 \in keys : SameKey(a, a0)
    BY RowsHaveKeys DEF SameKey
<1> HIDE DEF below, mine, keys
<1>4. AddAnnouncements(below, mine) = below \cup mine
    BY <1>2 DEF AddAnnouncements, RemoveAnnouncements
<1>5. RemoveAnnouncements(below \cup mine, keys) = below
    BY <1>2, <1>3 DEF RemoveAnnouncements
<1> QED BY <1>1, <1>4, <1>5 DEF below, mine, keys
-----------------------------------------------------------------------------
(* The checks look at nothing but the block and what they are given. *)
LEMMA ChecksFrame ==
    ASSUME NEW b, NEW coins, NEW anndb,
           index'[b].path = index[b].path, index'[b].vtx = index[b].vtx,
           index'[b].verdict = index[b].verdict
    PROVE  ConnectBlockChecks(b, coins, anndb)' = ConnectBlockChecks(b, coins, anndb)
BY DEF ConnectBlockChecks, CreatedBefore, SpentBefore

(* A step that leaves the known blocks as they are, but for their flags. *)
LEMMA AnnounceFrame ==
    ASSUME IInv, DOMAIN index \subseteq DOMAIN index',
           \A b \in DOMAIN index : /\ index'[b].path = index[b].path
                                   /\ index'[b].vtx = index[b].vtx
                                   /\ index'[b].verdict = index[b].verdict
    PROVE  /\ \A b \in DOMAIN index : ChainAnnouncements(index[b].path)' = ChainAnnouncements(index[b].path)
           /\ \A b \in DOMAIN index : Len(index[b].path) > 1 => (ChecksPassed(b)' <=> ChecksPassed(b))
<1>1. \A b \in DOMAIN index : index[b].path \in Seq(DOMAIN index)
    BY DEF IInv, IndexInv, PathsOK
<1>2. \A p \in Seq(DOMAIN index) : /\ Utxo(p)' = Utxo(p)
                                   /\ ChainAnnouncements(p)' = ChainAnnouncements(p)
    BY Frame
<1>3. ASSUME NEW b \in DOMAIN index
      PROVE  ChainAnnouncements(index[b].path)' = ChainAnnouncements(index[b].path)
  <2>1. PICK p \in Seq(DOMAIN index) : p = index[b].path /\ p = index'[b].path
    BY <1>1
  <2>2. ChainAnnouncements(index[b].path)' = ChainAnnouncements(p)'
    BY <2>1 DEF ChainAnnouncements
  <2> QED BY <1>2, <2>1, <2>2
<1>4. ASSUME NEW b \in DOMAIN index, Len(index[b].path) > 1
      PROVE  ChecksPassed(b)' <=> ChecksPassed(b)
  <2>1. PICK p \in Seq(DOMAIN index) : p = Pprev(index[b].path) /\ p = Pprev(index'[b].path)
    BY <1>1, <1>4, PathSplit
  <2>2. PICK coins : coins = Utxo(p) /\ coins = Utxo(p)'
    BY <1>2
  <2>3. PICK anndb : anndb = ChainAnnouncements(p) /\ anndb = ChainAnnouncements(p)'
    BY <1>2
  <2>4. ChecksPassed(b) = ConnectBlockChecks(b, coins, anndb)
    BY <2>1, <2>2, <2>3, SMTT(30) DEF ChecksPassed
  <2>5. /\ Utxo(Pprev(index[b].path))' = coins
        /\ ChainAnnouncements(Pprev(index[b].path))' = anndb
    <3>1. Pprev(index[b].path)' = p
      BY <2>1 DEF Pprev
    <3>2. Utxo(Pprev(index[b].path))' = Utxo(p)'
      BY <3>1
    <3>3. ChainAnnouncements(Pprev(index[b].path))' = ChainAnnouncements(p)'
      BY <3>1
    <3> QED BY <2>2, <2>3, <3>2, <3>3, SMTT(30)
  <2>6. ChecksPassed(b)' = ConnectBlockChecks(b, coins, anndb)'
    BY <2>5 DEF ChecksPassed, ConnectBlockChecks
  <2> QED BY <2>4, <2>6, ChecksFrame
<1> QED BY <1>3, <1>4, SMTT(30)

(* A step that leaves the chain and the database alone. *)
LEMMA AnnounceStable ==
    ASSUME IInv, AnnounceInv, node' \in {"running", "flushing"},
           UNCHANGED <<m_chain, announceDB>>, DOMAIN index \subseteq DOMAIN index',
           \A b \in DOMAIN index : /\ index'[b].path = index[b].path
                                   /\ index'[b].vtx = index[b].vtx
                                   /\ index'[b].verdict = index[b].verdict
                                   /\ index'[b].undo = index[b].undo,
           \A b \in DOMAIN index' \ DOMAIN index : ~index'[b].undo /\ index'[b].verdict # "after"
    PROVE  AnnounceInv'
<1>1. /\ \A b \in DOMAIN index : ChainAnnouncements(index[b].path)' = ChainAnnouncements(index[b].path)
      /\ \A b \in DOMAIN index : Len(index[b].path) > 1 => (ChecksPassed(b)' <=> ChecksPassed(b))
    BY AnnounceFrame
<1>2. announceDB' = ChainAnnouncements(m_chain)'
  <2>1. PICK tip \in DOMAIN index : m_chain = index[tip].path
    BY DEF IInv, ChainInv, AnnounceInv
  <2>2. m_chain' = index'[tip].path
    BY <2>1
  <2>3. ChainAnnouncements(m_chain)' = ChainAnnouncements(index[tip].path)'
    BY <2>2 DEF ChainAnnouncements
  <2> QED BY <1>1, <2>1, <2>3 DEF AnnounceInv
<1>3. ASSUME NEW b \in DOMAIN index', index'[b].undo, Len(index'[b].path) > 1
      PROVE  ChecksPassed(b)'
    BY <1>1, <1>3 DEF AnnounceInv
<1>4. \A b \in DOMAIN index' : index'[b].verdict # "after"
    BY DEF AnnounceInv
<1> QED BY <1>2, <1>3, <1>4 DEF AnnounceInv
-----------------------------------------------------------------------------
(* The node starts with an empty announcement database and no block above  *)
(* Root.                                                                   *)
LEMMA AnnounceInit == NoFaults /\ Init => AnnounceInv
<1> SUFFICES ASSUME Init PROVE AnnounceInv
    OBVIOUS
<1>1. DOMAIN index = {Root} /\ index[Root] = RootIndex /\ m_chain = <<Root>>
    BY DEF Init
<1>2. NewAnnouncements(Root) = {}
    BY <1>1 DEF NewAnnouncements, BlockAnnouncements, TxsOf, RootIndex
<1>3. ChainAnnouncements(m_chain) = {}
    BY <1>1, <1>2 DEF ChainAnnouncements
<1>4. \A b \in DOMAIN index : index[b].verdict # "after" /\ ~(Len(index[b].path) > 1)
  <2>1. Len(<<Root>>) = 1
    OBVIOUS
  <2>2. index[Root].verdict = "ok" /\ index[Root].path = <<Root>>
    BY <1>1 DEF RootIndex
  <2>3. ~(Len(index[Root].path) > 1)
    BY <2>1, <2>2
  <2> QED BY <1>1, <2>2, <2>3, Zenon
<1> QED BY <1>3, <1>4 DEF Init, AnnounceInv

(* ConnectTip writes the announcements of the block it adds to the chain.  *)
LEMMA AnnounceConnect == IInv /\ AnnounceInv /\ (\E b \in Blocks : ConnectTip(b)) => AnnounceInv'
<1> SUFFICES ASSUME IInv, AnnounceInv, NEW b \in Blocks, ConnectTip(b) PROVE AnnounceInv'
    OBVIOUS
<1>1. /\ b \in DOMAIN index /\ node' = "running" /\ index' = [index EXCEPT ![b].undo = TRUE]
      /\ Len(index[b].path) > 1 /\ Pprev(index[b].path) = m_chain /\ node = "running"
      /\ ConnectBlockChecks(b, coinsTip, announceDB)
      /\ announceDB' = AddAnnouncements(announceDB, NewAnnouncements(b))
      /\ m_chain' = Append(m_chain, b)
    BY DEF ConnectTip, Connectable, Known, AnnounceInv
<1>2. /\ DOMAIN index' = DOMAIN index
      /\ \A c \in DOMAIN index : /\ index'[c].path = index[c].path
                                 /\ index'[c].vtx = index[c].vtx
                                 /\ index'[c].verdict = index[c].verdict
                                 /\ index'[c].undo => index[c].undo \/ c = b
  <2>1. /\ DOMAIN index' = DOMAIN index
        /\ index'[b] = [index[b] EXCEPT !.undo = TRUE]
        /\ \A c \in DOMAIN index \ {b} : index'[c] = index[c]
    BY <1>1
  <2>2. index[b] \in BlockIndex
    BY <1>1 DEF IInv, TypeOK
  <2>3. /\ index'[b].path = index[b].path /\ index'[b].vtx = index[b].vtx
        /\ index'[b].verdict = index[b].verdict
    BY <2>1, <2>2 DEF BlockIndex
  <2> QED BY <2>1, <2>3, Zenon
<1>3. index[Tip(m_chain)].undo /\ coinsTip = Utxo(m_chain) /\ announceDB = ChainAnnouncements(m_chain)
    BY <1>1 DEF IInv, ChainInv, AnnounceInv
<1>4. WasConnected(b)
    BY <1>1, <1>3, ConnectCoins, ZenonT(40) DEF IInv
<1>5. ChecksPassed(b)
    BY <1>1, <1>3 DEF ChecksPassed
<1>6. /\ \A c \in DOMAIN index : ChainAnnouncements(index[c].path)' = ChainAnnouncements(index[c].path)
      /\ \A c \in DOMAIN index : Len(index[c].path) > 1 => (ChecksPassed(c)' <=> ChecksPassed(c))
    BY <1>2, AnnounceFrame
<1>7. announceDB' = ChainAnnouncements(index[b].path)
    BY <1>1, <1>3, <1>4, RowsMove DEF IInv
<1>8. m_chain' = index'[b].path
  <2>1. PathsOK(index)
    BY DEF IInv, IndexInv
  <2>2. Append(Pprev(index[b].path), b) = index[b].path
    BY <1>1, <2>1, AppendParent
  <2> QED BY <1>1, <1>2, <2>2, Zenon
<1>9. announceDB' = ChainAnnouncements(m_chain)'
  <2>1. ChainAnnouncements(m_chain)' = ChainAnnouncements(index[b].path)'
    BY <1>8
  <2> QED BY <1>1, <1>6, <1>7, <2>1, Zenon
<1>10. ASSUME NEW c \in DOMAIN index', index'[c].undo, Len(index'[c].path) > 1
       PROVE  ChecksPassed(c)'
    BY <1>2, <1>5, <1>6, <1>10 DEF AnnounceInv
<1>11. \A c \in DOMAIN index' : index'[c].verdict # "after"
    BY <1>2 DEF AnnounceInv
<1> QED BY <1>1, <1>9, <1>10, <1>11, SMTT(30) DEF AnnounceInv

(* DisconnectTip removes the announcements of the block it takes from the  *)
(* chain, and no others: a transaction is in one block of the chain only.  *)
LEMMA AnnounceDisconnect == IInv /\ AnnounceInv /\ DisconnectTip => AnnounceInv'
<1> SUFFICES ASSUME IInv, AnnounceInv, DisconnectTip PROVE AnnounceInv'
    OBVIOUS
<1>1. PICK b \in DOMAIN index : /\ b = Tip(m_chain) /\ m_chain = index[b].path /\ index[b].undo
                                /\ Len(index[b].path) > 1
    BY SMTT(30) DEF IInv, ChainInv, AnnounceInv, DisconnectTip
<1>2. WasConnected(b)
    BY <1>1, SMTT(30) DEF IInv, IndexInv
<1>3. announceDB' = ChainAnnouncements(Pprev(index[b].path))
  <2>1. announceDB' = RemoveAnnouncements(ChainAnnouncements(index[b].path), BlockAnnouncements(b, 0))
    BY <1>1 DEF DisconnectTip, AnnounceInv
  <2> QED BY <1>1, <1>2, <2>1, RowsMove, Zenon DEF IInv
<1>4. PICK prev \in DOMAIN index : index[prev].path = Pprev(index[b].path)
    BY <1>1, ParentOnPath DEF IInv
<1>5. index' = index /\ node' = "running" /\ m_chain' = index[prev].path
    BY <1>1, <1>4 DEF DisconnectTip
<1>6. /\ \A c \in DOMAIN index : ChainAnnouncements(index[c].path)' = ChainAnnouncements(index[c].path)
      /\ \A c \in DOMAIN index : Len(index[c].path) > 1 => (ChecksPassed(c)' <=> ChecksPassed(c))
    BY <1>5, AnnounceFrame
<1>7. ChainAnnouncements(m_chain)' = ChainAnnouncements(index[prev].path)'
  <2>1. m_chain' = index'[prev].path
    BY <1>5, SMTT(30)
  <2> QED BY <2>1
<1>8. announceDB' = ChainAnnouncements(m_chain)'
    BY <1>3, <1>4, <1>6, <1>7, SMTT(30)
<1> QED BY <1>5, <1>6, <1>8 DEF AnnounceInv

(* AcceptBlock changes neither the chain nor what is known of earlier      *)
(* blocks.                                                                 *)
LEMMA AnnounceAccept ==
    ASSUME NoFaults, IInv, AnnounceInv, NEW b \in Blocks, NEW prev \in Blocks \cup {Root},
           NEW vtx \in VtxChoices, NEW verdict \in Verdicts, AcceptBlock(b, prev, vtx, verdict)
    PROVE  AnnounceInv'
<1> DEFINE multiple == /\ DeploymentActiveAfter(Height(index[prev].path))
                       /\ ~NoMultipleAnnouncements(vtx)
           new == [path |-> Append(index[prev].path, b), vtx |-> vtx, verdict |-> verdict,
                   failed |-> multiple, undo |-> FALSE]
<1>1. index' = [c \in DOMAIN index \cup {b} |-> IF c = b THEN new ELSE index[c]]
    BY Zenon DEF AcceptBlock
<1> HIDE DEF multiple
<1>2. b \notin DOMAIN index /\ node' = "running" /\ UNCHANGED <<m_chain, announceDB>>
    BY DEF AcceptBlock, Known
<1> HIDE DEF AcceptBlock
<1>3. new.verdict # "after" /\ ~new.undo
    BY DEF NoFaults
<1> HIDE DEF new
<1>4. /\ DOMAIN index' = DOMAIN index \cup {b} /\ index'[b] = new
      /\ \A c \in DOMAIN index : index'[c] = index[c]
    BY <1>1, <1>2
<1> QED BY <1>2, <1>3, <1>4, AnnounceStable, SMTT(30)

(* A block that fails before its announcements are written changes no row. *)
LEMMA AnnounceConnectInvalid ==
    IInv /\ AnnounceInv /\ (\E b \in Blocks : ConnectTipInvalid(b)) => AnnounceInv'
<1> SUFFICES ASSUME IInv, AnnounceInv, NEW b \in Blocks, ConnectTipInvalid(b) PROVE AnnounceInv'
    OBVIOUS
<1>1. /\ b \in DOMAIN index /\ node' = "running" /\ index' = [index EXCEPT ![b].failed = TRUE]
      /\ UNCHANGED m_chain
    BY DEF ConnectTipInvalid, Connectable, Known
<1>2. UNCHANGED announceDB
    BY <1>1 DEF ConnectTipInvalid, AnnounceInv
<1>3. /\ DOMAIN index' = DOMAIN index /\ index'[b] = [index[b] EXCEPT !.failed = TRUE]
      /\ \A c \in DOMAIN index \ {b} : index'[c] = index[c]
    BY <1>1
<1>4. index[b] \in BlockIndex
    BY <1>1 DEF IInv, TypeOK
<1>5. /\ index'[b].path = index[b].path /\ index'[b].vtx = index[b].vtx
      /\ index'[b].verdict = index[b].verdict /\ index'[b].undo = index[b].undo
    BY <1>3, <1>4 DEF BlockIndex
<1>6. \A c \in DOMAIN index : /\ index'[c].path = index[c].path
                              /\ index'[c].vtx = index[c].vtx
                              /\ index'[c].verdict = index[c].verdict
                              /\ index'[c].undo = index[c].undo
    BY <1>3, <1>5, Zenon
<1> QED BY <1>1, <1>2, <1>3, <1>6, AnnounceStable, SMTT(30)

(* A node that is never stopped has nothing to replay, load or verify. *)
LEMMA AnnounceNext == NoFaults /\ IInv /\ AnnounceInv /\ [Next]_vars => AnnounceInv'
<1> SUFFICES ASSUME NoFaults, IInv, AnnounceInv, [Next]_vars PROVE AnnounceInv'
    OBVIOUS
<1>1. ~Crash /\ ~Shutdown
    BY DEF NoFaults, IInv, TypeOK, Crash, Shutdown
<1>2. ~ReplayBlocks /\ ~ReplayInterrupted /\ ~LoadChainTip /\ ~VerifyDB /\ ~VerifyInterrupted
    BY DEF AnnounceInv, ReplayBlocks, ReplayInterrupted, ReplayNeeded, LoadChainTip, VerifyDB,
           VerifyInterrupted
<1>3. ASSUME \/ WriteBlockIndex \/ FlushStateToDisk \/ FlushPartialBatch \/ FlushFinalBatch
             \/ UNCHANGED vars
      PROVE  AnnounceInv'
  <2>1. UNCHANGED <<m_chain, announceDB, index>> /\ node' \in {"running", "flushing"}
    BY <1>3 DEF WriteBlockIndex, FlushStateToDisk, FlushPartialBatch, FlushFinalBatch, vars, memVars,
                AnnounceInv
  <2> QED BY <2>1, AnnounceStable, SMTT(30)
<1> QED BY <1>1, <1>2, <1>3, AnnounceAccept, AnnounceConnect, AnnounceConnectInvalid,
           AnnounceDisconnect
        DEF Next
-----------------------------------------------------------------------------
(* The database follows the chain in every reachable state of a node       *)
(* without faults.                                                         *)
LEMMA AnnounceInductive == ASSUME NoFaults PROVE Spec => [](IInv /\ AnnounceInv)
<1>1. Init => IInv /\ AnnounceInv
    BY InitInv, AnnounceInit
<1>2. IInv /\ AnnounceInv /\ [Next]_vars => (IInv /\ AnnounceInv)'
    BY NextInv, AnnounceNext
<1> QED BY <1>1, <1>2, PTL DEF Spec

(* Through any reorganization the announcement database holds the rows of  *)
(* the active chain and no others, as long as the node is not stopped and  *)
(* no block fails after its rows are written.                              *)
THEOREM AnnouncementsFollowTheChain == ASSUME NoFaults PROVE Spec => []AnnounceDBReflectsChain
<1>1. AnnounceInv => AnnounceDBReflectsChain
    BY DEF AnnounceInv, AnnounceDBReflectsChain
<1> QED BY <1>1, AnnounceInductive, PTL

(* Under the same conditions a block that connected once connects again    *)
(* whenever the chain returns to its parent.                               *)
THEOREM ReorganizationsRevalidate == ASSUME NoFaults PROVE Spec => []ValidBlockStaysValid
<1>1. IInv /\ AnnounceInv => ValidBlockStaysValid
  <2> SUFFICES ASSUME IInv, AnnounceInv, NEW b \in Blocks, Connectable(b), index[b].undo
               PROVE  ConnectBlockChecks(b, coinsTip, announceDB)
    BY DEF ValidBlockStaysValid
  <2>1. b \in DOMAIN index /\ Len(index[b].path) > 1 /\ Pprev(index[b].path) = m_chain
    BY SMTT(30) DEF Connectable, Known
  <2>2. coinsTip = Utxo(m_chain) /\ announceDB = ChainAnnouncements(m_chain)
    BY DEF IInv, ChainInv, AnnounceInv
  <2>3. ChecksPassed(b)
    BY <2>1 DEF AnnounceInv
  <2> QED BY <2>1, <2>2, <2>3 DEF ChecksPassed
<1> QED BY <1>1, AnnounceInductive, PTL

(* A row of the block at place j of the chain carries the height of that   *)
(* place, and the rows of Root are none.                                   *)
LEMMA RowHeights ==
    ASSUME IInv, NEW b \in DOMAIN index, NEW j \in 1..Len(index[b].path),
           NEW a \in NewAnnouncements(index[b].path[j])
    PROVE  j # 1 /\ a.height = RootHeight + j - 1 /\ BurnsEnough(a)
<1> DEFINE p == index[b].path
           c == index[b].path[j]
<1>0. PathsOK(index)
    BY SMTT(30) DEF IInv, IndexInv
<1>1. /\ p \in Seq(DOMAIN index) /\ c \in DOMAIN index
      /\ index[c].path = SubSeq(p, 1, j) /\ p[1] = Root
  <2>1. /\ index[b].path \in Seq(DOMAIN index)
        /\ index[b].path[1] = Root
        /\ \A k \in 1..Len(index[b].path) : /\ index[b].path[k] \in DOMAIN index
                                            /\ index[index[b].path[k]].path = SubSeq(index[b].path, 1, k)
                                            /\ index[b].undo => index[index[b].path[k]].undo
    BY <1>0, PathElements, Zenon
  <2> QED BY <2>1
<1>2. a \in BlockAnnouncements(c, Height(index[c].path)) /\ BurnsEnough(a)
    BY SMTT(30) DEF NewAnnouncements
<1>3. a.height = Height(index[c].path)
    BY <1>2 DEF BlockAnnouncements, ExtractAnnouncements
<1>4. Len(SubSeq(p, 1, j)) = j
    BY <1>1, SMTT(30)
<1>5. NewAnnouncements(Root) = {}
  <2>1. index[Root].vtx = <<>>
    BY DEF IInv, IndexInv, RootIndex
  <2>2. TxsOf(Root) = {}
    BY <2>1 DEF TxsOf
  <2> QED BY <2>2, SMTT(30) DEF NewAnnouncements, BlockAnnouncements
<1>6. j # 1
    BY <1>1, <1>5
<1> QED BY <1>1, <1>2, <1>3, <1>4, <1>6, SMTT(30) DEF Height

(* An announcement whose height is in the window of a claim checked        *)
(* against height RootHeight + k lies that many blocks below it.           *)
LEMMA Window ==
    ASSUME NEW j \in Nat, NEW k \in Nat,
           MinAnnounceHeight(RootHeight + k) <= RootHeight + j - 1,
           RootHeight + j - 1 <= MaxAnnounceHeight(RootHeight + k)
    PROVE  k - j + 1 \in nDeadpoolAnnounceMaturity..DeadpoolAnnounceMaxAge
<1>1. RootHeight \in Nat /\ nDeadpoolAnnounceMaturity \in Nat /\ DeadpoolAnnounceMaxAge \in Nat
    BY ChainAssumption, ParamsAssumption, SMTT(30) DEF DeadpoolAnnounceMaxAge
<1> QED BY <1>1 DEF MinAnnounceHeight, MaxAnnounceHeight

(* The blocks of the active chain: each has the chain up to it as its path *)
(* and has been connected.                                                 *)
LEMMA ChainElements ==
    ASSUME IInv, node # "down"
    PROVE  /\ m_chain \in Seq(DOMAIN index) /\ Len(m_chain) \in Nat
           /\ \A j \in 1..Len(m_chain) : /\ m_chain[j] \in DOMAIN index
                                         /\ index[m_chain[j]].path = SubSeq(m_chain, 1, j)
                                         /\ index[m_chain[j]].undo
<1>1. PICK tip \in DOMAIN index : m_chain = index[tip].path /\ index[tip].undo
    BY DEF IInv, ChainInv
<1>2. PathsOK(index)
    BY DEF IInv, IndexInv
<1>3. /\ index[tip].path \in Seq(DOMAIN index)
      /\ \A k \in 1..Len(index[tip].path) :
            /\ index[tip].path[k] \in DOMAIN index
            /\ index[index[tip].path[k]].path = SubSeq(index[tip].path, 1, k)
            /\ index[tip].undo => index[index[tip].path[k]].undo
    BY <1>2, PathElements, Zenon
<1>4. \A k \in 1..Len(m_chain) : /\ m_chain[k] \in DOMAIN index
                                 /\ index[m_chain[k]].path = SubSeq(m_chain, 1, k)
                                 /\ index[m_chain[k]].undo
    BY <1>1, <1>3, SMTT(30)
<1> QED BY <1>1, <1>3, <1>4, SMTT(30)

(* Under the same conditions every claim in the active chain was announced *)
(* in that chain, in time and with the minimum burn.                       *)
THEOREM ClaimsAreAnnounced == ASSUME NoFaults PROVE Spec => []ClaimsAnnouncedOnChain
<1>1. IInv /\ AnnounceInv => ClaimsAnnouncedOnChain
  <2> SUFFICES ASSUME IInv, AnnounceInv, NEW k \in 2..Len(m_chain), NEW t \in TxsOf(m_chain[k]),
                      NEW i \in vin[t], DeploymentActiveAfter(RootHeight + k - 1),
                      IsDeadpoolEntry(TxOutAt(i.prevout))
               PROVE  \E j \in 2..(k - 1) : \E a \in BlockAnnouncements(m_chain[j], 0) :
                        /\ a.id = TxOutAt(i.prevout).id /\ a.claim = i.claim
                        /\ TxOutAt(a.locator).nValue >= nDeadpoolAnnounceMinBurn
                        /\ k - j + 1 \in nDeadpoolAnnounceMaturity..DeadpoolAnnounceMaxAge
    BY DEF ClaimsAnnouncedOnChain
  <2>1. PICK tip \in DOMAIN index : m_chain = index[tip].path /\ index[tip].undo
    BY SMTT(30) DEF IInv, ChainInv, AnnounceInv
  <2> DEFINE b == m_chain[k]
  <2>2. /\ m_chain \in Seq(DOMAIN index) /\ Len(m_chain) \in Nat
        /\ \A j \in 1..Len(m_chain) : /\ m_chain[j] \in DOMAIN index
                                      /\ index[m_chain[j]].path = SubSeq(m_chain, 1, j)
                                      /\ index[m_chain[j]].undo
    BY ChainElements, SMTT(30) DEF AnnounceInv
  <2>3. k \in 1..Len(m_chain) /\ k \in Nat /\ k > 1
    BY <2>2, SMTT(30)
  <2>4. /\ b \in DOMAIN index /\ index[b].path = SubSeq(m_chain, 1, k) /\ index[b].undo
    BY <2>2, <2>3, SMTT(30)
  <2>5. Len(index[b].path) = k /\ Height(index[b].path) = RootHeight + k - 1
    BY <2>2, <2>3, <2>4, SMTT(30) DEF Height
  <2>6. ChecksPassed(b)
    BY <2>3, <2>4, <2>5, SMTT(30) DEF AnnounceInv
  <2>7. PICK n \in DOMAIN index[b].vtx : t = index[b].vtx[n]
    BY SMTT(30) DEF TxsOf
  <2> DEFINE below == Pprev(index[b].path)
  <2>8. DeadpoolClaimIsAnnounced(t, ChainAnnouncements(below), RootHeight + k)
    <3>1. DeadpoolClaimIsAnnounced(t, ChainAnnouncements(below), Height(index[b].path) + 1)
      BY <2>5, <2>6, <2>7, Zenon DEF ChecksPassed, ConnectBlockChecks
    <3>2. RootHeight + k - 1 + 1 = RootHeight + k
      BY <2>3, ChainAssumption, SMTT(30)
    <3> QED BY <2>5, <3>1, <3>2
  <2> HIDE DEF b
  <2>9. PICK r \in ChainAnnouncements(below) :
          /\ r.id = TxOutAt(i.prevout).id /\ r.claim = i.claim
          /\ MinAnnounceHeight(RootHeight + k) <= r.height
          /\ r.height <= MaxAnnounceHeight(RootHeight + k)
    BY <2>8, SMTT(90) DEF DeadpoolClaimIsAnnounced, ClaimExists
  <2>10. PICK j \in 1..(k - 1) : r \in NewAnnouncements(m_chain[j])
    <3>1. PICK j \in DOMAIN below : r \in NewAnnouncements(below[j])
      BY <2>9, SMTT(30) DEF ChainAnnouncements
    <3>2. j \in 1..(k - 1) /\ below[j] = m_chain[j]
      BY <2>2, <2>3, <2>4, <2>5, <3>1, SMTT(30) DEF Pprev
    <3> QED BY <3>1, <3>2, SMTT(30)
  <2>11. j \in 1..Len(m_chain) /\ j \in Nat
    BY <2>2, <2>3, <2>10, SMTT(30)
  <2>12. j # 1 /\ r.height = RootHeight + j - 1 /\ BurnsEnough(r)
    BY <2>1, <2>10, <2>11, RowHeights, SMTT(30)
  <2>13. k - j + 1 \in nDeadpoolAnnounceMaturity..DeadpoolAnnounceMaxAge
    BY <2>3, <2>9, <2>11, <2>12, Window, SMTT(30)
  <2>14. PICK a \in BlockAnnouncements(m_chain[j], 0) :
           a.id = r.id /\ a.locator = r.locator /\ a.claim = r.claim
    BY <2>10, RowsHaveKeys, SMTT(30)
  <2>15. TxOutAt(a.locator).nValue >= nDeadpoolAnnounceMinBurn
    BY <2>12, <2>14, SMTT(30) DEF BurnsEnough
  <2>16. j \in 2..(k - 1)
    BY <2>3, <2>10, <2>12
  <2> QED BY <2>9, <2>13, <2>14, <2>15, <2>16, SMTT(30)
<1> QED BY <1>1, AnnounceInductive, PTL
=============================================================================
