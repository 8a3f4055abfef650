------------------------------ MODULE Mempool ------------------------------
(***************************************************************************)
(* CTxMemPool (src/src/txmempool.cpp) as MemPoolAccept and the reorg code  *)
(* of CChainState (src/src/validation.cpp) drive it.                       *)
(*                                                                         *)
(* A pool is a function from its transactions to their entries.  An entry  *)
(* keeps the links to its parents and children in the pool and, standing   *)
(* for all the cached sums over ancestors and descendants (size, fee,      *)
(* burn, sigops), the number of each.  mapNextTx holds nothing that the    *)
(* inputs of the transactions in the pool do not say.                      *)
(*                                                                         *)
(* The chain is the sequence of the transaction lists of the blocks above  *)
(* a root; the coins and the announcement database are those it leaves.    *)
(* Fees, scripts, finality and time are not modelled: what they decide is  *)
(* a choice.  cs_main and CTxMemPool::cs are held from the first           *)
(* DisconnectTip of a reorganisation to the end of                         *)
(* MaybeUpdateMempoolForReorg, so nothing else happens while reorg is not  *)
(* "none".  Txs are numbered in the order of their hashes.                 *)
(***************************************************************************)
EXTENDS Deadpool, FiniteSets, SequencesExt

CONSTANTS
    RootHeight,
    RootCoins,
    VtxChoices,         \* the transaction lists a block may carry
    MaxBlocks,
    Replaceable,        \* the transactions that signal BIP 125 replaceability
    limitAncestors,     \* -limitancestorcount
    limitDescendants,   \* -limitdescendantcount
    MaxDisconnected,    \* MAX_DISCONNECTED_TX_POOL_SIZE, in transactions
    MaxDrops            \* how many entries fees, time or finality remove at once

ASSUME MempoolAssumption ==
    /\ Txs \subseteq Nat
    /\ RootHeight \in Nat \ {0} /\ MaxBlocks \in Nat
    /\ RootCoins \subseteq {out \in BaseTxs \X Nat : out[2] \in DOMAIN vout[out[1]]}
    /\ VtxChoices \subseteq Seq(Txs)
    /\ Replaceable \subseteq Txs
    /\ {limitAncestors, limitDescendants, MaxDisconnected, MaxDrops} \subseteq Nat

VARIABLES
    m_chain,            \* the transaction lists of the blocks above the root
    mapTx,              \* the pool
    disconnectpool,     \* DisconnectedBlockTransactions, in insertion order
    reorg               \* how far ActivateBestChainStep has come: "none" when unlocked

poolVars == <<m_chain, mapTx, disconnectpool, reorg>>

Entry == [m_parents : SUBSET Txs, m_children : SUBSET Txs,
          nCountWithAncestors : Nat, nCountWithDescendants : Nat]
-----------------------------------------------------------------------------
(* The chain state that the pool is checked against. *)
Height(chain) == RootHeight + Len(chain)
ChainTxs(chain) == UNION {ToSet(chain[h]) : h \in DOMAIN chain}
CoinsTip(chain) == (RootCoins \cup UNION {Outputs(t) : t \in ChainTxs(chain)})
                       \ UNION {Inputs(t) : t \in ChainTxs(chain)}
AnnounceDB(chain) ==
    {a \in UNION {UNION {ExtractAnnouncements(t, RootHeight + h) : t \in ToSet(chain[h])} : h \in DOMAIN chain} :
        BurnsEnough(a)}

(* ExtractDeadpoolAnnounceIds, cached in the entry as vAnnounces. *)
GetAnnounces(t) == {a.id : a \in ExtractAnnouncements(t, 0)}

ConflictsAnnounceWith(t, other) == GetAnnounces(t) \cap GetAnnounces(other) # {}

(* What ConnectBlock and ContextualCheckBlock ask of the next block, with  *)
(* the deadpool deployment active.                                         *)
BlockConnects(chain, vtx) ==
    LET before(k) == SubSeq(vtx, 1, k - 1)
        nHeight == Height(chain) + 1
    IN  /\ IsInjective(vtx)
        /\ NoMultipleAnnouncements(vtx)
        /\ \A k \in DOMAIN vtx :
              /\ Inputs(vtx[k]) \subseteq CoinsTip(Append(chain, before(k)))
              /\ DeadpoolClaimIsAnnounced(vtx[k], AnnounceDB(chain), nHeight + 1)
-----------------------------------------------------------------------------
(* The transactions of S that spend an output of t, and those t spends.    *)
Spenders(S, t) == {c \in S : \E out \in Inputs(c) : out[1] = t}
ParentsIn(S, t) == {p \in S : \E out \in Inputs(t) : out[1] = p}

(* CalculateMemPoolAncestors without limits.  Each turn takes the first    *)
(* staged entry and stages its parents; a parent of it that announces for  *)
(* an id of t ends the walk, with the ancestors met so far.  The parents   *)
(* of t itself are staged before the loop and are never compared with it.  *)
CalculateMemPoolAncestors(pool, t, parents) ==
    LET walk[n \in 0..Cardinality(DOMAIN pool)] ==
            IF n = 0 THEN [ok |-> TRUE, staged |-> parents, setAncestors |-> {}]
            ELSE LET w == walk[n - 1]
                 IN  IF ~w.ok \/ w.staged = {} THEN w
                     ELSE LET stage == CHOOSE x \in w.staged : \A y \in w.staged : x <= y
                              done == w.setAncestors \cup {stage}
                              conflict == \E p \in pool[stage].m_parents : ConflictsAnnounceWith(t, p)
                          IN  [ok |-> ~conflict,
                               staged |-> (w.staged \cup pool[stage].m_parents) \ done,
                               setAncestors |-> done]
    IN  walk[Cardinality(DOMAIN pool)]

(* The limits the same walk enforces, when the caller gives any. *)
WithinLimits(pool, setAncestors, ancestors, descendants) ==
    /\ Cardinality(setAncestors) + 1 <= ancestors
    /\ \A a \in setAncestors : pool[a].nCountWithDescendants + 1 <= descendants

(* CalculateDescendants of every entry of S: S and all that depends on it. *)
CalculateDescendants(pool, S) ==
    LET reach[n \in 0..Cardinality(DOMAIN pool)] ==
            IF n = 0 THEN S
            ELSE LET r == reach[n - 1] IN r \cup UNION {pool[t].m_children : t \in r}
    IN  reach[Cardinality(DOMAIN pool)]

(* Mutant: only the parents count the new entry. *)
addUncheckedParentsOnly(pool, t, setAncestors) ==
    LET parents == ParentsIn(DOMAIN pool, t)
    IN  [x \in DOMAIN pool \cup {t} |->
            IF x = t
            THEN [m_parents |-> parents, m_children |-> {},
                  nCountWithAncestors |-> Cardinality(setAncestors) + 1, nCountWithDescendants |-> 1]
            ELSE [pool[x] EXCEPT
                    !.m_children = IF x \in parents THEN @ \cup {t} ELSE @,
                    !.nCountWithDescendants = IF x \in parents THEN @ + 1 ELSE @]]

(* addUnchecked: the entry with its parents; each ancestor counts it. *)
addUnchecked(pool, t, setAncestors) ==
    LET parents == ParentsIn(DOMAIN pool, t)
    IN  [x \in DOMAIN pool \cup {t} |->
            IF x = t
            THEN [m_parents |-> parents, m_children |-> {},
                  nCountWithAncestors |-> Cardinality(setAncestors) + 1, nCountWithDescendants |-> 1]
            ELSE [pool[x] EXCEPT
                    !.m_children = IF x \in parents THEN @ \cup {t} ELSE @,
                    !.nCountWithDescendants = IF x \in setAncestors THEN @ + 1 ELSE @]]

(* RemoveStaged: UpdateForRemoveFromMempool, then removeUnchecked for each *)
(* entry of stage.  The descendants that stay stop counting it when        *)
(* updateDescendants; the ancestors that the walk reaches always do.       *)
RemoveStaged(pool, stage, updateDescendants) ==
    LET ancestorsOf == [r \in stage |-> CalculateMemPoolAncestors(pool, r, pool[r].m_parents).setAncestors]
        descendantsOf == [r \in stage |-> CalculateDescendants(pool, {r})]
    IN  [x \in DOMAIN pool \ stage |->
            [m_parents |-> pool[x].m_parents \ stage,
             m_children |-> pool[x].m_children \ stage,
             nCountWithAncestors |-> pool[x].nCountWithAncestors
                - IF updateDescendants THEN Cardinality({r \in stage : x \in descendantsOf[r]}) ELSE 0,
             nCountWithDescendants |-> pool[x].nCountWithDescendants
                - Cardinality({r \in stage : x \in ancestorsOf[r]})]]

RemoveWithDescendants(pool, S) == RemoveStaged(pool, CalculateDescendants(pool, S), FALSE)

(* Mutant: only a transaction in the pool takes its descendants with it. *)
removeRecursivePoolOnly(pool, t) == RemoveWithDescendants(pool, {t} \cap DOMAIN pool)

(* removeRecursive: a transaction that is not in the pool takes those of   *)
(* the pool that spend it with it.                                         *)
removeRecursive(pool, t) ==
    RemoveWithDescendants(pool, IF t \in DOMAIN pool THEN {t} ELSE Spenders(DOMAIN pool, t))

(* The entries of the pool that spend an input of t, t aside. *)
ConflictsOf(pool, t) == {c \in DOMAIN pool \ {t} : Inputs(c) \cap Inputs(t) # {}}

removeConflicts(pool, t) == FoldSet(LAMBDA c, p : IF c \in DOMAIN p THEN removeRecursive(p, c) ELSE p,
                                    pool, ConflictsOf(pool, t))

(* removeForBlock: each transaction of the block leaves, its descendants   *)
(* stay, and what conflicts with it goes.                                  *)
removeForBlock(pool, vtx) ==
    FoldLeft(LAMBDA p, t : removeConflicts(IF t \in DOMAIN p THEN RemoveStaged(p, {t}, TRUE) ELSE p, t),
             pool, vtx)
-----------------------------------------------------------------------------
(* MemPoolAccept up to Finalize: PreChecks, then DeadpoolClaimChecks at    *)
(* the height of the next block.  A conflicting entry must be replaceable; *)
(* a replacement must not spend what it replaces, nor an unconfirmed       *)
(* output that the entries it conflicts with do not spend already.  The    *)
(* carve-out allows one ancestor with one descendant over the limit.       *)
Accepts(pool, chain, t) ==
    LET setConflicts == ConflictsOf(pool, t)
        walk == CalculateMemPoolAncestors(pool, t, ParentsIn(DOMAIN pool, t))
        m_limit_descendants == limitDescendants + IF Cardinality(setConflicts) = 1 THEN 1 ELSE 0
        setConflictsParents == {out[1] : out \in UNION {Inputs(c) : c \in setConflicts}}
    IN  /\ t \notin DOMAIN pool
        /\ setConflicts \subseteq Replaceable
        /\ Inputs(t) \subseteq CoinsTip(chain) \cup UNION {Outputs(p) : p \in DOMAIN pool}
        /\ walk.ok
        /\ \/ WithinLimits(pool, walk.setAncestors, limitAncestors, m_limit_descendants)
           \/ WithinLimits(pool, walk.setAncestors, 2, m_limit_descendants + 1)
        /\ setConflicts \cap walk.setAncestors = {}
        /\ setConflicts # {} => ParentsIn(DOMAIN pool, t) \subseteq setConflictsParents
        /\ DeadpoolClaimIsAnnounced(t, AnnounceDB(chain), Height(chain) + 1)

(* Finalize, before the pool is trimmed. *)
Finalize(pool, t) ==
    addUnchecked(RemoveWithDescendants(pool, ConflictsOf(pool, t)), t,
                 CalculateMemPoolAncestors(pool, t, ParentsIn(DOMAIN pool, t)).setAncestors)

(* Mutant: the children that were in the pool already are not linked. *)
UpdateTransactionsFromBlockNot(pool, vHashUpdate) == pool

(* UpdateTransactionsFromBlock: the transactions put back are linked to    *)
(* the children that were in the pool before them, and they and all their  *)
(* descendants from outside the block count each other.                    *)
UpdateTransactionsFromBlock(pool, vHashUpdate) ==
    LET updated == vHashUpdate \cap DOMAIN pool
        newChildren(h) == IF h \in updated THEN Spenders(DOMAIN pool \ vHashUpdate, h) ELSE {}
        linked == [x \in DOMAIN pool |->
            [pool[x] EXCEPT
                !.m_children = @ \cup newChildren(x),
                !.m_parents = @ \cup {h \in updated : x \in newChildren(h)}]]
        outside(h) == CalculateDescendants(linked, {h}) \ vHashUpdate
    IN  [x \in DOMAIN pool |->
            [linked[x] EXCEPT
                !.nCountWithAncestors = @ + Cardinality({h \in updated : x \in outside(h)}),
                !.nCountWithDescendants = @ + IF x \in updated THEN Cardinality(outside(x)) ELSE 0]]

(* MaybeUpdateMempoolForReorg up to removeForReorg: the queue is put back  *)
(* from its newest end, the earliest transaction of the chain first; one   *)
(* that is refused takes with it what depends on it.                       *)
Resurrect(pool, chain, queuedTx, fAddToMempool, refused) ==
    LET step(acc, t) ==
            IF fAddToMempool /\ t \notin refused /\ Accepts(acc.pool, chain, t)
            THEN [pool |-> Finalize(acc.pool, t), vHashUpdate |-> acc.vHashUpdate \cup {t}]
            ELSE [acc EXCEPT !.pool = removeRecursive(@, t)]
        acc == FoldLeft(step, [pool |-> pool, vHashUpdate |-> {}], Reverse(queuedTx))
    IN  UpdateTransactionsFromBlock(acc.pool, acc.vHashUpdate)

(* At most MaxDrops members of S: the entries that LimitMempoolSize finds  *)
(* expired or too cheap, or that removeForReorg finds no longer final.     *)
Few(S) == {D \in SUBSET S : Cardinality(D) <= MaxDrops}
-----------------------------------------------------------------------------
PoolInit ==
    /\ m_chain = <<>>
    /\ mapTx = << >>
    /\ disconnectpool = <<>>
    /\ reorg = "none"

(* AcceptToMemoryPool: the trimming at the end may take t itself. *)
AcceptToMemoryPool(t) ==
    /\ reorg = "none"
    /\ Accepts(mapTx, m_chain, t)
    /\ LET pool == Finalize(mapTx, t)
       IN  \E evicted \in Few(DOMAIN pool) : mapTx' = RemoveWithDescendants(pool, evicted)
    /\ UNCHANGED <<m_chain, disconnectpool, reorg>>

(* ConnectTip of a block that is valid on the tip. *)
ConnectTip(vtx) ==
    /\ Len(m_chain) < MaxBlocks
    /\ BlockConnects(m_chain, vtx)
    /\ mapTx' = removeForBlock(mapTx, vtx)
    /\ disconnectpool' = SelectSeq(disconnectpool, LAMBDA t : t \notin ToSet(vtx))
    /\ m_chain' = Append(m_chain, vtx)
    /\ reorg' = IF reorg = "none" THEN "none" ELSE "connecting"

(* DisconnectTip: the block's transactions are queued, the last one first, *)
(* and a queue that is too long loses its oldest end.                      *)
DisconnectTip ==
    /\ m_chain # <<>>
    /\ reorg # "connecting"
    /\ LET queued == disconnectpool \o Reverse(Last(m_chain))
           over == IF Len(queued) > MaxDisconnected THEN Len(queued) - MaxDisconnected ELSE 0
       IN  /\ mapTx' = FoldLeft(removeRecursive, mapTx, SubSeq(queued, 1, over))
           /\ disconnectpool' = SubSeq(queued, over + 1, Len(queued))
    /\ m_chain' = Front(m_chain)
    /\ reorg' = "disconnecting"

(* The end of ActivateBestChainStep or of a turn of InvalidateBlock, which *)
(* passes fAddToMempool = FALSE from the eleventh block on: the rest of    *)
(* MaybeUpdateMempoolForReorg is removeForReorg and LimitMempoolSize.      *)
MaybeUpdateMempoolForReorg(fAddToMempool) ==
    /\ reorg # "none"
    /\ \E refused \in Few(ToSet(disconnectpool)) :
          LET pool == Resurrect(mapTx, m_chain, disconnectpool, fAddToMempool, refused)
          IN  \E nonfinal \in Few(DOMAIN pool) : mapTx' = RemoveWithDescendants(pool, nonfinal)
    /\ disconnectpool' = <<>>
    /\ reorg' = "none"
    /\ UNCHANGED m_chain

PoolNext ==
    \/ \E t \in Txs : AcceptToMemoryPool(t)
    \/ \E vtx \in VtxChoices : ConnectTip(vtx)
    \/ DisconnectTip
    \/ \E fAddToMempool \in BOOLEAN : MaybeUpdateMempoolForReorg(fAddToMempool)
=============================================================================
