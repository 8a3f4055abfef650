----------------------------- MODULE Chainstate -----------------------------
(***************************************************************************)
(* CChainState (src/src/validation.cpp) as the deadpool rules see it: the  *)
(* active chain, the coins view over it, the announcement database, and    *)
(* what of them is on disk.                                                *)
(*                                                                         *)
(* Blocks are accepted with any contents on any known block; the tip is    *)
(* connected and disconnected in any order that m_chain allows, which      *)
(* covers every choice of ActivateBestChain, InvalidateBlock and           *)
(* PreciousBlock.  cs_main is held throughout each of these, so one action *)
(* is one call of ConnectTip or DisconnectTip: what can come between their *)
(* writes is a crash, and the only one of their writes that reaches the    *)
(* disk is that of the announcement database.  The flush at the end of     *)
(* ConnectTip and DisconnectTip happens when the cache is full, which is   *)
(* not modelled: it is a FlushStateToDisk or FlushPartialBatch that comes  *)
(* right after them, in the same chain state.                              *)
(*                                                                         *)
(* Root is the tip of a chain that is already buried; RootCoins are the    *)
(* coins it leaves.                                                        *)
(***************************************************************************)
EXTENDS Deadpool, FiniteSets

CONSTANTS
    MaxBlocks,      \* how many blocks above Root the node may know at a time
    RootHeight,
    RootCoins,
    VtxChoices,     \* the transaction lists a block may carry
    Verdicts,       \* the outcomes of the checks that are not about deadpool
    DeadpoolHeight, \* the first height at which the deadpool deployment is active
    CheckBlocks,    \* -checkblocks
    CheckLevel,     \* -checklevel
    MaxCrashes,
    MaxShutdowns

Root == 0
Blocks == 1..MaxBlocks
NoTip == -1

(* "ok": every other check passes; "before": one fails before the          *)
(* announcements are written (CheckBlock, CheckTxInputs amounts, BIP68,    *)
(* sigops, a script checked inline); "after": one fails after (the         *)
(* coinbase amount, a script checked by the check queue).                  *)
ASSUME ChainAssumption ==
    /\ MaxBlocks \in Nat /\ RootHeight \in Nat \ {0}
    /\ RootCoins \subseteq {out \in BaseTxs \X Nat : out[2] \in DOMAIN vout[out[1]]}
    /\ VtxChoices \subseteq Seq(Txs)
    /\ Verdicts \subseteq {"ok", "before", "after"}
    /\ DeadpoolHeight \in Nat /\ CheckBlocks \in Nat /\ CheckLevel \in 0..4
    /\ MaxCrashes \in Nat /\ MaxShutdowns \in Nat

VARIABLES
    index,      \* m_blockman.m_block_index: a map from the known blocks
    m_chain,    \* the active chain from Root to the tip
    coinsTip,   \* the coins that CoinsTip() reports unspent
    announceDB, \* m_announce_db, written through to disk
    diskIndex,  \* the block index as last written by pblocktree
    coinsDB,    \* the coins in CCoinsViewDB
    dbBest,     \* DB_BEST_BLOCK
    dbHeads,    \* DB_HEAD_BLOCKS: <<new, old>> during a flush, else <<>>
    node,       \* what the node is doing
    crashes, shutdowns

memVars == <<index, m_chain, coinsTip>>
dbVars == <<coinsDB, dbBest, dbHeads>>
bounds == <<crashes, shutdowns>>
vars == <<index, m_chain, coinsTip, announceDB, diskIndex, coinsDB, dbBest, dbHeads, node, crashes, shutdowns>>

(* A CBlockIndex with its block: path is the pprev chain from Root, failed *)
(* is BLOCK_FAILED_MASK, undo is BLOCK_HAVE_UNDO.                          *)
BlockIndex == [path : Seq(Blocks \cup {Root}), vtx : VtxChoices \cup {<<>>},
               verdict : {"ok", "before", "after"}, failed : BOOLEAN, undo : BOOLEAN]

RootIndex == [path |-> <<Root>>, vtx |-> <<>>, verdict |-> "ok", failed |-> FALSE, undo |-> TRUE]

Tip(chain) == chain[Len(chain)]
Pprev(chain) == SubSeq(chain, 1, Len(chain) - 1)
Height(path) == RootHeight + Len(path) - 1
Known(b) == b \in DOMAIN index
-----------------------------------------------------------------------------
(* What the transactions of a block do to the coins and to the database.   *)
TxsOf(b) == {index[b].vtx[k] : k \in DOMAIN index[b].vtx}
BlockInputs(b) == UNION {Inputs(t) : t \in TxsOf(b)}
BlockOutputs(b) == UNION {Outputs(t) : t \in TxsOf(b)}
BlockAnnouncements(b, nHeight) == UNION {ExtractAnnouncements(t, nHeight) : t \in TxsOf(b)}

(* The outputs created, and spent, by the transactions before the k-th.    *)
CreatedBefore(b, k) == UNION {Outputs(index[b].vtx[j]) : j \in 1..(k - 1)}
SpentBefore(b, k) == UNION {Inputs(index[b].vtx[j]) : j \in 1..(k - 1)}

(* UpdateCoins over the whole block: an output that the block both creates *)
(* and spends is gone at the end.                                          *)
UpdateCoins(coins, b) == (coins \cup BlockOutputs(b)) \ BlockInputs(b)

DeploymentActiveAfter(nHeight) == nHeight + 1 >= DeadpoolHeight

(* The loop of ConnectBlock over the transactions: the inputs of each are  *)
(* unspent when it is reached, and its claims are announced.  The height   *)
(* that the claims are checked against is the block's own plus one, and    *)
(* the database still holds the announcements of the earlier blocks only.  *)
ConnectBlockChecks(b, coins, anndb) ==
    LET nHeight == Height(index[b].path)
        deadpool_active == DeploymentActiveAfter(nHeight)
    IN  /\ index[b].verdict # "before"
        /\ \A k \in DOMAIN index[b].vtx :
              LET tx == index[b].vtx[k]
              IN  /\ Inputs(tx) \subseteq (coins \cup CreatedBefore(b, k)) \ SpentBefore(b, k)
                  /\ deadpool_active => DeadpoolClaimIsAnnounced(tx, anndb, nHeight + 1)

(* The announcements that ConnectBlock writes once the loop is done,       *)
(* before the coinbase amount and the queued script checks are known.      *)
NewAnnouncements(b) == {a \in BlockAnnouncements(b, Height(index[b].path)) : BurnsEnough(a)}

(* DisconnectBlock returns DISCONNECT_OK: the undo data is there, every    *)
(* output of the block is unspent and no input of it is.                   *)
DisconnectIsClean(b, coins) ==
    /\ index[b].undo
    /\ BlockOutputs(b) \ BlockInputs(b) \subseteq coins
    /\ BlockInputs(b) \cap coins = {}

(* Mutant: the inputs that the block spent are not restored. *)
UndoCoinsNotRestored(coins, b) == coins \ BlockOutputs(b)

UndoCoins(coins, b) == (coins \cup BlockInputs(b)) \ BlockOutputs(b)
-----------------------------------------------------------------------------
Init ==
    /\ index = [b \in {Root} |-> RootIndex]
    /\ diskIndex = index
    /\ m_chain = <<Root>>
    /\ coinsTip = RootCoins
    /\ coinsDB = RootCoins
    /\ dbBest = Root
    /\ dbHeads = <<>>
    /\ announceDB = {}
    /\ node = "running"
    /\ crashes = 0
    /\ shutdowns = 0

(* AcceptBlock of a block that is not known yet, with its parent's chain   *)
(* not marked failed.  A block that breaks a contextual rule is remembered *)
(* as failed.  Blocks are numbered in the order in which they arrive.      *)
AcceptBlock(b, prev, vtx, verdict) ==
    /\ node = "running"
    /\ ~Known(b)
    /\ \A c \in Blocks : c < b => Known(c)
    /\ Known(prev)
    /\ \A k \in DOMAIN index[prev].path : ~index[index[prev].path[k]].failed
    /\ LET active == DeploymentActiveAfter(Height(index[prev].path))
           new == [path |-> Append(index[prev].path, b), vtx |-> vtx, verdict |-> verdict,
                   failed |-> active /\ ~NoMultipleAnnouncements(vtx), undo |-> FALSE]
       IN  index' = [c \in DOMAIN index \cup {b} |-> IF c = b THEN new ELSE index[c]]
    /\ UNCHANGED <<m_chain, coinsTip, announceDB, diskIndex, dbVars, node, bounds>>

Connectable(b) ==
    /\ node = "running"
    /\ Known(b)
    /\ ~index[b].failed
    /\ Len(index[b].path) > 1
    /\ Pprev(index[b].path) = m_chain

(* Mutant: the undo data is not written. *)
ConnectTipNoUndo(b) ==
    /\ Connectable(b)
    /\ ConnectBlockChecks(b, coinsTip, announceDB)
    /\ index[b].verdict = "ok"
    /\ announceDB' = AddAnnouncements(announceDB, NewAnnouncements(b))
    /\ coinsTip' = UpdateCoins(coinsTip, b)
    /\ m_chain' = Append(m_chain, b)
    /\ UNCHANGED <<index, diskIndex, dbVars, node, bounds>>

(* ConnectTip when ConnectBlock succeeds. *)
ConnectTip(b) ==
    /\ Connectable(b)
    /\ ConnectBlockChecks(b, coinsTip, announceDB)
    /\ index[b].verdict = "ok"
    /\ announceDB' = AddAnnouncements(announceDB, NewAnnouncements(b))
    /\ coinsTip' = UpdateCoins(coinsTip, b)
    /\ index' = [index EXCEPT ![b].undo = TRUE]
    /\ m_chain' = Append(m_chain, b)
    /\ UNCHANGED <<diskIndex, dbVars, node, bounds>>

(* ConnectTip when ConnectBlock finds the block invalid: the view is       *)
(* thrown away and InvalidBlockFound marks the block, but announcements    *)
(* already written to the database stay there.                             *)
ConnectTipInvalid(b) ==
    /\ Connectable(b)
    /\ \/ /\ ~ConnectBlockChecks(b, coinsTip, announceDB)
          /\ UNCHANGED announceDB
       \/ /\ ConnectBlockChecks(b, coinsTip, announceDB)
          /\ index[b].verdict = "after"
          /\ announceDB' = AddAnnouncements(announceDB, NewAnnouncements(b))
    /\ index' = [index EXCEPT ![b].failed = TRUE]
    /\ UNCHANGED <<m_chain, coinsTip, diskIndex, dbVars, node, bounds>>

(* Mutant: the announcements of the disconnected block are kept. *)
DisconnectTipKeepsRows ==
    /\ node = "running"
    /\ Len(m_chain) > 1
    /\ DisconnectIsClean(Tip(m_chain), coinsTip)
    /\ coinsTip' = UndoCoins(coinsTip, Tip(m_chain))
    /\ m_chain' = Pprev(m_chain)
    /\ UNCHANGED <<index, announceDB, diskIndex, dbVars, node, bounds>>

(* DisconnectTip; a block that does not disconnect cleanly would stop the  *)
(* node with AbortNode (TipDisconnects says that this does not happen).    *)
DisconnectTip ==
    /\ node = "running"
    /\ Len(m_chain) > 1
    /\ LET b == Tip(m_chain)
       IN  /\ DisconnectIsClean(b, coinsTip)
           /\ announceDB' = RemoveAnnouncements(announceDB, BlockAnnouncements(b, 0))
           /\ coinsTip' = UndoCoins(coinsTip, b)
    /\ m_chain' = Pprev(m_chain)
    /\ UNCHANGED <<index, diskIndex, dbVars, node, bounds>>
-----------------------------------------------------------------------------
(* FlushStateToDisk when only the block index is due. *)
WriteBlockIndex ==
    /\ node = "running"
    /\ diskIndex # index
    /\ diskIndex' = index
    /\ UNCHANGED <<memVars, announceDB, dbVars, node, bounds>>

(* CCoinsViewDB::BatchWrite of the coins in cs, as the new state of best:  *)
(* everything in one batch.                                                *)
CommitCoins(cs, best) ==
    /\ coinsDB' = cs
    /\ dbBest' = best
    /\ dbHeads' = <<>>

(* Mutant: a second interrupted flush forgets the first one's old head. *)
CommitSomeCoinsOldHead(cs, best) ==
    /\ \E written \in SUBSET ((cs \ coinsDB) \cup (coinsDB \ cs)) :
          coinsDB' = (coinsDB \ written) \cup (written \cap cs)
    /\ dbHeads' = <<best, dbBest>>
    /\ dbBest' = NoTip

(* BatchWrite stopped after a partial batch: any of the changed coins may  *)
(* have been written, and DB_HEAD_BLOCKS replaces DB_BEST_BLOCK.           *)
CommitSomeCoins(cs, best) ==
    /\ \E written \in SUBSET ((cs \ coinsDB) \cup (coinsDB \ cs)) :
          coinsDB' = (coinsDB \ written) \cup (written \cap cs)
    /\ dbHeads' = <<best, IF dbBest # NoTip THEN dbBest ELSE dbHeads[2]>>
    /\ dbBest' = NoTip

(* FlushStateToDisk with a full flush: block files and block index first,  *)
(* then the coins.                                                         *)
FlushStateToDisk ==
    /\ node = "running"
    /\ diskIndex' = index
    /\ CommitCoins(coinsTip, Tip(m_chain))
    /\ UNCHANGED <<memVars, announceDB, node, bounds>>

(* Mutant: the coins are written before the block index. *)
FlushCoinsFirst ==
    /\ node = "running"
    /\ CommitSomeCoins(coinsTip, Tip(m_chain))
    /\ node' = "flushing"
    /\ UNCHANGED <<memVars, announceDB, diskIndex, bounds>>

FlushPartialBatch ==
    /\ node = "running"
    /\ diskIndex' = index
    /\ CommitSomeCoins(coinsTip, Tip(m_chain))
    /\ node' = "flushing"
    /\ UNCHANGED <<memVars, announceDB, bounds>>

FlushFinalBatch ==
    /\ node = "flushing"
    /\ CommitCoins(coinsTip, Tip(m_chain))
    /\ node' = "running"
    /\ UNCHANGED <<memVars, announceDB, diskIndex, bounds>>

LoseMemory ==
    /\ node' = "down"
    /\ index' = diskIndex'
    /\ m_chain' = <<>>
    /\ coinsTip' = {}

Crash ==
    /\ node # "down"
    /\ crashes < MaxCrashes
    /\ crashes' = crashes + 1
    /\ UNCHANGED <<announceDB, diskIndex, dbVars, shutdowns>>
    /\ LoseMemory

(* Shutdown flushes with FlushStateMode::ALWAYS and stops. *)
Shutdown ==
    /\ node = "running"
    /\ shutdowns < MaxShutdowns
    /\ shutdowns' = shutdowns + 1
    /\ diskIndex' = index
    /\ CommitCoins(coinsTip, Tip(m_chain))
    /\ UNCHANGED <<announceDB, crashes>>
    /\ LoseMemory
-----------------------------------------------------------------------------
(* Start-up.  LastCommonAncestor of two known blocks, as its place on      *)
(* their paths: the last place at which they agree.                        *)
ForkLength(p, q) ==
    LET common == {n \in 1..Len(p) : n <= Len(q) /\ p[n] = q[n]}
    IN  CHOOSE n \in common : \A m \in common : m <= n

(* The blocks of path p above its first n. *)
Branch(p, n) == {p[k] : k \in (n + 1)..Len(p)}

(* The announcements, of whatever burn, that DisconnectBlock removes from  *)
(* the database for these blocks.                                          *)
BranchAnnouncements(p, n) == UNION {BlockAnnouncements(b, 0) : b \in Branch(p, n)}

(* Mutant: the old branch is not rolled back. *)
ReplayedCoinsForwardOnly(old, new) ==
    LET n == ForkLength(index[old].path, index[new].path)
        redone == Branch(index[new].path, n)
    IN  (coinsDB \cup UNION {BlockOutputs(b) : b \in redone}) \ UNION {BlockInputs(b) : b \in redone}

(* What ReplayBlocks computes: the old branch rolled back, the new one     *)
(* rolled forward, from whatever mixture of the two the flush left.        *)
ReplayedCoins(old, new) ==
    LET n == ForkLength(index[old].path, index[new].path)
        undone == Branch(index[old].path, n)
        redone == Branch(index[new].path, n)
        rolledBack == (coinsDB \cup UNION {BlockInputs(b) : b \in undone})
                        \ UNION {BlockOutputs(b) : b \in undone}
    IN  (rolledBack \cup UNION {BlockOutputs(b) : b \in redone})
            \ UNION {BlockInputs(b) : b \in redone}

UndoneByReplay == Branch(index[dbHeads[2]].path, ForkLength(index[dbHeads[2]].path, index[dbHeads[1]].path))

(* DisconnectBlock also drops the announcements of the old branch;         *)
(* RollforwardBlock adds none.                                             *)
ReplayAnnouncements ==
    announceDB' = RemoveAnnouncements(announceDB, UNION {BlockAnnouncements(b, 0) : b \in UndoneByReplay})

ReplayNeeded ==
    /\ node = "down"
    /\ dbHeads # <<>>
    /\ \A b \in UndoneByReplay : index[b].undo

ReplayBlocks ==
    /\ ReplayNeeded
    /\ ReplayAnnouncements
    /\ CommitCoins(ReplayedCoins(dbHeads[2], dbHeads[1]), dbHeads[1])
    /\ UNCHANGED <<memVars, diskIndex, node, bounds>>

(* A crash during ReplayBlocks: after some of the old branch has been      *)
(* disconnected, or during the flush that ends it.                         *)
ReplayInterrupted ==
    /\ ReplayNeeded
    /\ crashes < MaxCrashes
    /\ crashes' = crashes + 1
    /\ \/ /\ \E n \in DOMAIN index[dbHeads[2]].path :
                /\ Branch(index[dbHeads[2]].path, n) \subseteq UndoneByReplay
                /\ announceDB' = RemoveAnnouncements(announceDB, BranchAnnouncements(index[dbHeads[2]].path, n))
          /\ UNCHANGED dbVars
       \/ /\ ReplayAnnouncements
          /\ CommitSomeCoins(ReplayedCoins(dbHeads[2], dbHeads[1]), dbHeads[1])
    /\ UNCHANGED <<memVars, diskIndex, node, shutdowns>>

LoadChainTip ==
    /\ node = "down"
    /\ dbHeads = <<>>
    /\ m_chain' = index[dbBest].path
    /\ coinsTip' = coinsDB
    /\ node' = "verifying"
    /\ UNCHANGED <<index, announceDB, diskIndex, dbVars, bounds>>

(* The length of the part of the chain that VerifyDB leaves alone; 0 means *)
(* that every block is checked.                                            *)
Unchecked ==
    IF CheckBlocks \in 1..(Len(m_chain) - 1) THEN Len(m_chain) - CheckBlocks ELSE 1

(* Level 3 disconnects the blocks above the n-th from a scratch view of    *)
(* the coins; the announcement database is the real one.                   *)
DisconnectDB(n) == RemoveAnnouncements(announceDB, BranchAnnouncements(m_chain, n))

(* Mutant: connecting a block again only checks it (fJustCheck). *)
ReconnectDBJustChecks(k) == DisconnectDB(Unchecked)

(* Level 4 connects them again, from the k-th block of the chain on, with  *)
(* the announcements of those before it back in the database.              *)
ReconnectDB(k) ==
    AddAnnouncements(DisconnectDB(Unchecked),
                     UNION {NewAnnouncements(m_chain[j]) : j \in (Unchecked + 1)..(k - 1)})

ReconnectFailsAt(k) ==
    LET h == Height(index[m_chain[k]].path)
    IN  /\ DeploymentActiveAfter(h)
        /\ \E t \in TxsOf(m_chain[k]) : ~DeadpoolClaimIsAnnounced(t, ReconnectDB(k), h + 1)

(* A block that does not connect again stops the start-up ("Corrupted      *)
(* block database detected"), with the database as it is by then.          *)
VerifyDB ==
    /\ node = "verifying"
    /\ LET failing == {k \in (Unchecked + 1)..Len(m_chain) : CheckLevel = 4 /\ ReconnectFailsAt(k)}
       IN  IF failing = {}
           THEN /\ announceDB' = CASE CheckLevel < 3 -> announceDB
                                   [] CheckLevel = 3 -> DisconnectDB(Unchecked)
                                   [] CheckLevel = 4 -> ReconnectDB(Len(m_chain) + 1)
                /\ node' = "running"
                /\ UNCHANGED <<memVars, diskIndex, dbVars, bounds>>
           ELSE /\ announceDB' = ReconnectDB(CHOOSE k \in failing : \A j \in failing : k <= j)
                /\ UNCHANGED <<diskIndex, dbVars, bounds>>
                /\ LoseMemory

(* A crash, or a request to shut down, in the middle of VerifyDB. *)
VerifyInterrupted ==
    /\ node = "verifying"
    /\ CheckLevel >= 3
    /\ crashes < MaxCrashes
    /\ crashes' = crashes + 1
    /\ \E k \in Unchecked..Len(m_chain) :
          \/ announceDB' = DisconnectDB(k)
          \/ CheckLevel = 4 /\ announceDB' = ReconnectDB(k + 1)
    /\ UNCHANGED <<diskIndex, dbVars, shutdowns>>
    /\ LoseMemory
-----------------------------------------------------------------------------
Next ==
    \/ \E b \in Blocks : \E prev \in Blocks \cup {Root} :
          \E vtx \in VtxChoices, verdict \in Verdicts : AcceptBlock(b, prev, vtx, verdict)
    \/ \E b \in Blocks : ConnectTip(b)
    \/ \E b \in Blocks : ConnectTipInvalid(b)
    \/ DisconnectTip
    \/ WriteBlockIndex
    \/ FlushStateToDisk
    \/ FlushPartialBatch
    \/ FlushFinalBatch
    \/ Crash
    \/ Shutdown
    \/ ReplayBlocks
    \/ ReplayInterrupted
    \/ LoadChainTip
    \/ VerifyDB
    \/ VerifyInterrupted

Spec == Init /\ [][Next]_vars
-----------------------------------------------------------------------------
(* Type correctness of the chain state, in memory and on disk. *)
TypeOK ==
    /\ index \in [DOMAIN index -> BlockIndex]
    /\ Root \in DOMAIN diskIndex
    /\ DOMAIN diskIndex \subseteq DOMAIN index
    /\ DOMAIN index \subseteq Blocks \cup {Root}
    /\ diskIndex \in [DOMAIN diskIndex -> BlockIndex]
    /\ m_chain \in Seq(Blocks \cup {Root})
    /\ coinsTip \subseteq OutPoint /\ coinsDB \subseteq OutPoint
    /\ announceDB \subseteq [id : Ids, locator : OutPoint, height : Nat, claim : Claims]
    /\ dbBest \in Blocks \cup {Root, NoTip}
    /\ dbHeads \in {<<>>} \cup ((Blocks \cup {Root}) \X (Blocks \cup {Root}))
    /\ node \in {"running", "flushing", "verifying", "down"}
    /\ crashes \in 0..MaxCrashes /\ shutdowns \in 0..MaxShutdowns

(* The coins that a chain leaves unspent, from Root's. *)
Utxo(path) ==
    LET bs == {path[k] : k \in DOMAIN path}
    IN  (RootCoins \cup UNION {BlockOutputs(b) : b \in bs}) \ UNION {BlockInputs(b) : b \in bs}

ChainAnnouncements(path) ==
    UNION {NewAnnouncements(path[k]) : k \in DOMAIN path}

(* Whenever the node has a chain, the coins view holds exactly the outputs *)
(* that this chain creates and does not spend, after any sequence of       *)
(* connects, disconnects, flushes, crashes and replays.                    *)
CoinsReflectChain == m_chain # <<>> => coinsTip = Utxo(m_chain)

(* A coins database that is not marked as in the middle of a flush is the  *)
(* exact state of its best block, whichever writes a crash cut off.        *)
StoredCoinsConsistent == dbHeads = <<>> => coinsDB = Utxo(index[dbBest].path)

(* DisconnectBlock of the tip never finds the undo data missing or the     *)
(* coins unclean, so a reorganization never ends in AbortNode.             *)
TipDisconnects == Len(m_chain) > 1 => DisconnectIsClean(Tip(m_chain), coinsTip)

(* After a crash in the middle of a flush both heads are in the block      *)
(* index and the old branch has its undo data: ReplayBlocks can run.       *)
ReplayPossible ==
    (node = "down" /\ dbHeads # <<>>) =>
        /\ Known(dbHeads[1]) /\ Known(dbHeads[2])
        /\ \A b \in UndoneByReplay : index[b].undo

(* "Tracks announcements, on the chaintip only, reflects m_chain"          *)
(* (validation.h): the rows of the announcement database are those of the  *)
(* blocks of the active chain.                                             *)
AnnounceDBReflectsChain ==
    node = "running" => announceDB = ChainAnnouncements(m_chain)

(* Every claim in the active chain was announced, with the minimum burn,   *)
(* in an earlier block of that same chain: no fewer than the maturity and  *)
(* no more than the maximum age of blocks before the next block.           *)
ClaimsAnnouncedOnChain ==
    \A k \in 2..Len(m_chain) : \A t \in TxsOf(m_chain[k]) : \A i \in vin[t] :
        (DeploymentActiveAfter(RootHeight + k - 1) /\ IsDeadpoolEntry(TxOutAt(i.prevout))) =>
            \E j \in 2..(k - 1) : \E a \in BlockAnnouncements(m_chain[j], 0) :
                /\ a.id = TxOutAt(i.prevout).id /\ a.claim = i.claim
                /\ TxOutAt(a.locator).nValue >= nDeadpoolAnnounceMinBurn
                /\ k - j + 1 \in nDeadpoolAnnounceMaturity..DeadpoolAnnounceMaxAge

(* A block that has been connected before, and was disconnected by a       *)
(* reorganization, passes ConnectBlock again when the chain returns to it. *)
ValidBlockStaysValid ==
    \A b \in Blocks :
        (Connectable(b) /\ index[b].undo) => ConnectBlockChecks(b, coinsTip, announceDB)

(* "Do deadpool validation only if the deadpool deployment is activated"   *)
(* (ConnectBlock): a block below the activation height whose inputs are    *)
(* there, and which nothing else is wrong with, connects.                  *)
NoClaimRuleBeforeActivation ==
    \A b \in Blocks :
        (/\ Connectable(b)
         /\ index[b].verdict = "ok"
         /\ Height(index[b].path) < DeadpoolHeight
         /\ BlockInputs(b) \subseteq coinsTip) => ConnectBlockChecks(b, coinsTip, announceDB)
=============================================================================
