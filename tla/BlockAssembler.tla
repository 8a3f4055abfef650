--------------------------- MODULE BlockAssembler ---------------------------
(***************************************************************************)
(* BlockAssembler (src/src/miner.cpp): what CreateNewBlock puts in a block *)
(* template, over the pool of module Mempool.  It runs with cs_main and    *)
(* CTxMemPool::cs held and changes neither the chain nor the pool.         *)
(*                                                                         *)
(* addPackageTxs looks at the entries by feerate and stops when the rates  *)
(* get too low or the block is full; which entries it looks at, in which   *)
(* order, is a choice.  Every turn of its loop is a step, after which it   *)
(* may stop; a template is forgotten when anything else happens.           *)
(***************************************************************************)
EXTENDS Mempool

VARIABLE vtx    \* the transactions of the template, without the coinbase

vars == <<m_chain, mapTx, disconnectpool, reorg, vtx>>

(* Mutant: the package is sorted by hash alone. *)
SortForBlockByHash(package) == SetToSortSeq(package, <)

(* SortForBlock: by the cached number of ancestors, then by hash. *)
SortForBlock(package) ==
    SetToSortSeq(package, LAMBDA x, y :
        \/ mapTx[x].nCountWithAncestors < mapTx[y].nCountWithAncestors
        \/ mapTx[x].nCountWithAncestors = mapTx[y].nCountWithAncestors /\ x < y)

(* Mutant: the announcements of the package itself are not compared. *)
TestPackageTransactionsBlockOnly(package) ==
    \A x \in package : \A y \in ToSet(vtx) : ~ConflictsAnnounceWith(x, y)

(* TestPackageTransactions: no id is announced by two transactions of the  *)
(* package, nor by one of it and one of the block.  The entry caches the   *)
(* set of its ids, so that two outputs of one transaction go unnoticed.    *)
TestPackageTransactions(package) ==
    \A x \in package : \A y \in (package \ {x}) \cup ToSet(vtx) : ~ConflictsAnnounceWith(x, y)

(* A turn of addPackageTxs that evaluates iter: its ancestors as far as    *)
(* the walk went -- the answer of CalculateMemPoolAncestors is not looked  *)
(* at -- without those in the block already.  A package that fails the     *)
(* test changes nothing.                                                   *)
addPackageTxs(iter) ==
    LET ancestors == CalculateMemPoolAncestors(mapTx, iter, mapTx[iter].m_parents).setAncestors
        package == (ancestors \ ToSet(vtx)) \cup {iter}
    IN  /\ reorg = "none"
        /\ iter \notin ToSet(vtx)
        /\ TestPackageTransactions(package)
        /\ vtx' = vtx \o SortForBlock(package)
        /\ UNCHANGED poolVars

Init == PoolInit /\ vtx = <<>>

Next ==
    \/ PoolNext /\ vtx' = <<>>
    \/ \E iter \in DOMAIN mapTx : addPackageTxs(iter)

Spec == Init /\ [][Next]_vars
-----------------------------------------------------------------------------
(* Types; no transaction is twice among the disconnected ones, which       *)
(* DisconnectTip keeps within their limit, and the template holds          *)
(* transactions of the pool.                                               *)
TypeOK ==
    /\ m_chain \in Seq(VtxChoices) /\ Len(m_chain) <= MaxBlocks
    /\ DOMAIN mapTx \subseteq Txs
    /\ mapTx \in [DOMAIN mapTx -> Entry]
    /\ disconnectpool \in Seq(Txs) /\ IsInjective(disconnectpool)
    /\ Len(disconnectpool) <= MaxDisconnected
    /\ reorg \in {"none", "disconnecting", "connecting"}
    /\ vtx \in Seq(DOMAIN mapTx)

(* X and all the transactions of S that it depends on, by the inputs. *)
ClosureIn(S, X) ==
    LET up[n \in 0..Cardinality(S)] ==
            IF n = 0 THEN X
            ELSE LET u == up[n - 1] IN u \cup UNION {ParentsIn(S, a) : a \in u}
    IN  up[Cardinality(S)]

AncestorsIn(S, t) == ClosureIn(S, ParentsIn(S, t))

(* Some transaction of S announces for an id of one that it spends through *)
(* another: the walk over its ancestors stops early.                       *)
FarConflict(S) ==
    \E t \in S : \E a \in ClosureIn(S, UNION {ParentsIn(S, p) : p \in ParentsIn(S, t)}) :
        ConflictsAnnounceWith(t, a)

(* Whenever the locks are free, every input of an entry is an unspent coin *)
(* of the tip or an output of another entry, and no two entries spend the  *)
(* same output: what CTxMemPool::check asserts of the coins and of         *)
(* mapNextTx, after every reorganisation, replacement and eviction.        *)
PoolSpendsAvailableCoins ==
    /\ reorg = "none" =>
          \A t \in DOMAIN mapTx :
              Inputs(t) \subseteq CoinsTip(m_chain) \cup UNION {Outputs(p) : p \in DOMAIN mapTx \ {t}}
    /\ \A t, u \in DOMAIN mapTx : t # u => Inputs(t) \cap Inputs(u) = {}

(* The links of an entry are its parents and children in the pool, and its *)
(* count of ancestors is right, whatever was put back beneath it by a      *)
(* reorganisation: UpdateTransactionsFromBlock leaves nothing unlinked,    *)
(* and SortForBlock can rely on the counts.                                *)
LinksMatch ==
    \A t \in DOMAIN mapTx :
        /\ mapTx[t].m_parents = ParentsIn(DOMAIN mapTx, t)
        /\ mapTx[t].m_children = Spenders(DOMAIN mapTx, t)
        /\ mapTx[t].nCountWithAncestors = Cardinality(AncestorsIn(DOMAIN mapTx, t)) + 1

DescendantCountsMatch ==
    \A t \in DOMAIN mapTx :
        mapTx[t].nCountWithDescendants =
            Cardinality({d \in DOMAIN mapTx : t \in AncestorsIn(DOMAIN mapTx, d)}) + 1

(* A step of the pool keeps the counts of descendants right, as long as no *)
(* transaction of the pool or of the disconnected blocks announces for the *)
(* id of one it spends through another: UpdateForRemoveFromMempool walks   *)
(* the ancestors with the function that stops at such a conflict.          *)
DescendantCountsKept ==
    [][DescendantCountsMatch /\ ~FarConflict(DOMAIN mapTx \cup ToSet(disconnectpool))
          => DescendantCountsMatch']_vars

(* No two transactions of a template announce for one deadpool entry,      *)
(* though any number of such transactions may be in the pool: such a block *)
(* is refused as dp-mult-ann by ContextualCheckBlock.                      *)
TemplateAnnouncesOnce ==
    \A j, k \in DOMAIN vtx :
        j # k => ~ConflictsAnnounceWith(vtx[j], vtx[k])

(* The transactions of a template spend, in their order, coins of the tip  *)
(* or of the template that are still unspent, unless an entry of the pool  *)
(* conflicts with an ancestor behind its parents: packages are complete    *)
(* and SortForBlock orders them.                                           *)
TemplateSpendsInOrder ==
    FarConflict(DOMAIN mapTx) \/
    \A k \in DOMAIN vtx :
        Inputs(vtx[k]) \subseteq
            CoinsTip(Append(m_chain, SubSeq(vtx, 1, k - 1)))

(* What CTxMemPool::check asserts under "Verify ancestor state is correct":*)
(* the cached count of ancestors is the one CalculateMemPoolAncestors      *)
(* finds.                                                                  *)
AncestorStateVerifies ==
    \A t \in DOMAIN mapTx :
        mapTx[t].nCountWithAncestors =
            Cardinality(CalculateMemPoolAncestors(mapTx, t, ParentsIn(DOMAIN mapTx, t)).setAncestors) + 1

(* What the comment on CTxMemPool says: the pool holds transactions that   *)
(* are valid according to the current best chain and may be included in    *)
(* the next block; here, the claims among them.                            *)
PoolClaimsMinable ==
    reorg = "none" =>
        \A t \in DOMAIN mapTx :
            DeadpoolClaimIsAnnounced(t, AnnounceDB(m_chain), Height(m_chain) + 2)
=============================================================================
