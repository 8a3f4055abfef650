--------------------------- MODULE ChainSelection ---------------------------
(***************************************************************************)
(* How CChainState (src/src/validation.cpp) chooses the active chain: the  *)
(* block index with its validity flags, setBlockIndexCandidates, and the   *)
(* threads that change them -- ProcessNewBlockHeaders and ProcessNewBlock, *)
(* ActivateBestChain, and the RPCs preciousblock, invalidateblock and      *)
(* reconsiderblock.                                                        *)
(*                                                                         *)
(* ActivateBestChain and InvalidateBlock hold m_cs_chainstate throughout   *)
(* and cs_main in each turn of their loops; everything else is one section *)
(* under cs_main.  pc says where the holder of m_cs_chainstate is, and     *)
(* cs_main is free exactly when pc is in Unlocked.  A section that loops   *)
(* takes several steps, with cs_main held in between.                      *)
(*                                                                         *)
(* The contents of the blocks are those of module Chainstate; here a block *)
(* is known by the checks it will fail.  Pruning is not modelled, so that  *)
(* BLOCK_HAVE_DATA is nTx > 0.                                             *)
(***************************************************************************)
EXTENDS Integers, Sequences, FiniteSets

LOCAL SeqExt == INSTANCE SequencesExt

CONSTANTS
    MaxBlocks,
    Proofs,         \* per block, the values GetBlockProof may have for it
    Verdicts,       \* per block, the outcomes its checks may have
    Address,        \* per block, the address of its CBlockIndex
    Threads,        \* how many threads may wait for m_cs_chainstate at a time
    MaxPrecious, MaxInvalidate, MaxReconsider, MaxRestarts  \* calls of each kind

Root == 0
Blocks == 1..MaxBlocks
None == -1

(* "ok": the block connects; "contextual": ContextualCheckBlock fails when *)
(* its data arrives; "connect": ConnectBlock fails.                        *)
ASSUME SelectionAssumption ==
    /\ MaxBlocks \in Nat /\ Threads \in Nat \ {0}
    /\ Proofs \in [Blocks -> SUBSET Nat]
    /\ Verdicts \in [Blocks -> SUBSET {"ok", "contextual", "connect"}]
    /\ Address \in [Blocks \cup {Root} -> Nat]
    /\ \A a, b \in Blocks \cup {Root} : Address[a] = Address[b] => a = b
    /\ {MaxPrecious, MaxInvalidate, MaxReconsider, MaxRestarts} \subseteq Nat

VARIABLES
    index,                      \* m_blockman.m_block_index
    tip,                        \* m_chain.Tip()
    setBlockIndexCandidates,
    m_blocks_unlinked,          \* pairs <<parent, block>> in the order of insertion
    m_failed_blocks,
    pindexBestHeader,
    nBlockSequenceId,
    precious,                   \* nBlockReverseSequenceId and nLastPreciousChainwork
    pc,                         \* where the holder of m_cs_chainstate is
    pindexMostWork, starting_tip, pindexOldTip,  \* locals of ActivateBestChain and its step
    pindex, to_mark_failed, candidate_blocks,    \* locals of InvalidateBlock
    pending,                    \* threads about to call ActivateBestChain
    ShutdownRequested,
    calls                       \* how often each bounded call was made

blockVars == <<index, m_blocks_unlinked, m_failed_blocks, pindexBestHeader, nBlockSequenceId>>
abcVars == <<pindexMostWork, starting_tip, pindexOldTip>>
invVars == <<pindex, to_mark_failed, candidate_blocks>>
vars == <<blockVars, tip, setBlockIndexCandidates, precious, pc, abcVars, invVars, pending,
          ShutdownRequested, calls>>

(* BLOCK_VALID_TREE, BLOCK_VALID_TRANSACTIONS and BLOCK_VALID_SCRIPTS. *)
TREE == 1
TRANSACTIONS == 2
SCRIPTS == 3

(* A CBlockIndex: path is the pprev chain from Root, chainTx is            *)
(* HaveTxsDownloaded.                                                      *)
BlockIndex ==
    [path : Seq(Blocks \cup {Root}), nChainWork : Nat, verdict : {"ok", "contextual", "connect"},
     validity : {TREE, TRANSACTIONS, SCRIPTS}, data : BOOLEAN, chainTx : BOOLEAN,
     failedValid : BOOLEAN, failedChild : BOOLEAN, nSequenceId : Int]

Known(b) == b \in DOMAIN index
Pprev(b) == index[b].path[Len(index[b].path) - 1]
Chain(b) == {index[b].path[k] : k \in DOMAIN index[b].path}
Failed(b) == index[b].failedValid \/ index[b].failedChild
IsValid(b, nUpTo) == ~Failed(b) /\ index[b].validity >= nUpTo
InActiveChain(b) == b \in Chain(tip)

Unlocked == {"idle", "loop", "invalidate", "mark"}
CsMainFree == pc \in Unlocked

(* a sorts before b in setBlockIndexCandidates, in the block index ix.     *)
WorkComparator(ix, a, b) ==
    \/ ix[a].nChainWork < ix[b].nChainWork
    \/ /\ ix[a].nChainWork = ix[b].nChainWork
       /\ \/ ix[a].nSequenceId > ix[b].nSequenceId
          \/ ix[a].nSequenceId = ix[b].nSequenceId /\ Address[a] > Address[b]

Worse(a, b) == WorkComparator(index, a, b)

(* Mutant: candidates that are as good as the tip go too. *)
PruneToBetter(candidates, newTip) == {c \in candidates : Worse(newTip, c)}

(* Mutant: all that sorts before the tip goes, everything if the tip is    *)
(* not in the set.                                                         *)
PruneUntilTip(candidates, newTip) ==
    IF newTip \in candidates THEN {c \in candidates : ~Worse(c, newTip)} ELSE {}

(* Mutant: nothing is removed. *)
PruneNothing(candidates, newTip) == candidates

(* PruneBlockIndexCandidates, for the new tip. *)
PruneBlockIndexCandidates(candidates, newTip) == {c \in candidates : ~Worse(c, newTip)}

(* InvalidChainFound: headers that descend from b no longer count.         *)
(* (pindexBestInvalid only feeds a warning and is left out.)               *)
InvalidChainFound(b) ==
    pindexBestHeader' = IF b \in Chain(pindexBestHeader) THEN tip ELSE pindexBestHeader

(* The blocks of S are marked BLOCK_FAILED_VALID, or BLOCK_FAILED_CHILD.   *)
SetFailedValid(S) == [c \in DOMAIN index |-> [index[c] EXCEPT !.failedValid = @ \/ c \in S]]
SetFailedChild(S) == [c \in DOMAIN index |-> [index[c] EXCEPT !.failedChild = @ \/ c \in S]]
-----------------------------------------------------------------------------
(* nBlockSequenceId of a new process: loaded blocks have id 0. *)
FirstSequenceId == 1

Init ==
    /\ index = [b \in {Root} |->
                   [path |-> <<Root>>, nChainWork |-> 0, verdict |-> "ok", validity |-> SCRIPTS,
                    data |-> TRUE, chainTx |-> TRUE, failedValid |-> FALSE, failedChild |-> FALSE,
                    nSequenceId |-> 0]]
    /\ tip = Root
    /\ setBlockIndexCandidates = {Root}
    /\ m_blocks_unlinked = <<>>
    /\ m_failed_blocks = {}
    /\ pindexBestHeader = Root
    /\ nBlockSequenceId = FirstSequenceId
    /\ precious = [id |-> -1, work |-> 0]
    /\ pc = "idle"
    /\ pindexMostWork = None /\ starting_tip = None /\ pindexOldTip = None
    /\ pindex = None /\ to_mark_failed = None /\ candidate_blocks = {}
    /\ pending = 0
    /\ ShutdownRequested = FALSE
    /\ calls = [precious |-> 0, invalidate |-> 0, reconsider |-> 0, restart |-> 0]

(* AcceptBlockHeader of a header that is not known yet.  Blocks are        *)
(* numbered in the order in which their headers are accepted.              *)
DescendsFromFailed(prev) == ~IsValid(prev, SCRIPTS) /\ m_failed_blocks \cap Chain(prev) # {}

AcceptBlockHeader(b, prev, proof, verdict) ==
    /\ CsMainFree
    /\ ~Known(b) /\ \A c \in Blocks : c < b => Known(c)
    /\ Known(prev) /\ ~Failed(prev) /\ ~DescendsFromFailed(prev)
    /\ LET new == [path |-> Append(index[prev].path, b), nChainWork |-> index[prev].nChainWork + proof,
                   verdict |-> verdict, validity |-> TREE, data |-> FALSE, chainTx |-> FALSE,
                   failedValid |-> FALSE, failedChild |-> FALSE, nSequenceId |-> 0]
       IN  /\ index' = [c \in DOMAIN index \cup {b} |-> IF c = b THEN new ELSE index[c]]
           /\ pindexBestHeader' = IF index[pindexBestHeader].nChainWork < new.nChainWork
                                  THEN b ELSE pindexBestHeader
    /\ UNCHANGED <<tip, setBlockIndexCandidates, m_blocks_unlinked, m_failed_blocks, nBlockSequenceId,
                   precious, pc, abcVars, invVars, pending, ShutdownRequested, calls>>

(* Mutant: the walk does not stop at the failed block. *)
RejectToGenesis(prev) ==
    /\ CsMainFree
    /\ Known(prev) /\ ~Failed(prev) /\ DescendsFromFailed(prev)
    /\ \E failedit \in m_failed_blocks \cap Chain(prev) :
          index' = SetFailedChild(Chain(prev))
    /\ UNCHANGED <<tip, setBlockIndexCandidates, m_blocks_unlinked, m_failed_blocks, nBlockSequenceId,
                   pindexBestHeader, precious, pc, abcVars, invVars, pending, ShutdownRequested, calls>>

(* AcceptBlockHeader of a header whose ancestors include one of            *)
(* m_failed_blocks (whichever the set of pointers gives first): the blocks *)
(* in between are marked, and the header is not kept.                      *)
RejectBlockHeader(prev) ==
    /\ CsMainFree
    /\ Known(prev) /\ ~Failed(prev) /\ DescendsFromFailed(prev)
    /\ \E failedit \in m_failed_blocks \cap Chain(prev) :
          index' = SetFailedChild(Chain(prev) \ Chain(failedit))
    /\ UNCHANGED <<tip, setBlockIndexCandidates, m_blocks_unlinked, m_failed_blocks, nBlockSequenceId,
                   pindexBestHeader, precious, pc, abcVars, invVars, pending, ShutdownRequested, calls>>
-----------------------------------------------------------------------------
(* Mutant: the blocks that were waiting for b stay behind. *)
LinkedByAlone(b) == <<b>>

(* ReceivedBlockTransactions: the queue of the blocks that become linked   *)
(* when the data of b arrives and its parent is linked, in the order in    *)
(* which they are given their sequence ids.                                *)
LinkedBy(b) ==
    LET n == Cardinality(DOMAIN index)
        Children(c) == LET pairs == SelectSeq(m_blocks_unlinked, LAMBDA p : p[1] = c)
                       IN  [i \in DOMAIN pairs |-> pairs[i][2]]
        queue[i \in 0..n] ==
            IF i = 0 THEN <<b>>
            ELSE IF i > Len(queue[i - 1]) THEN queue[i - 1]
            ELSE queue[i - 1] \o Children(queue[i - 1][i])
    IN  queue[n]

(* Mutant: the block is linked whether or not its parent is. *)
ReceivedWithoutParent(b) ==
    LET received == [index EXCEPT ![b].data = TRUE, ![b].validity = TRANSACTIONS]
        queue == LinkedBy(b)
        linked == [c \in DOMAIN index |->
                      IF \E i \in DOMAIN queue : queue[i] = c
                      THEN [received[c] EXCEPT !.chainTx = TRUE,
                              !.nSequenceId = nBlockSequenceId + (CHOOSE i \in DOMAIN queue : queue[i] = c) - 1]
                      ELSE received[c]]
        members == {queue[i] : i \in DOMAIN queue}
    IN       /\ index' = linked
             /\ nBlockSequenceId' = nBlockSequenceId + Len(queue)
             /\ setBlockIndexCandidates' =
                    setBlockIndexCandidates \cup {c \in members : ~WorkComparator(linked, c, tip)}
             /\ m_blocks_unlinked' = SelectSeq(m_blocks_unlinked, LAMBDA p : p[1] \notin members)

ReceivedBlockTransactions(b) ==
    LET received == [index EXCEPT ![b].data = TRUE, ![b].validity = TRANSACTIONS]
        queue == LinkedBy(b)
        linked == [c \in DOMAIN index |->
                      IF \E i \in DOMAIN queue : queue[i] = c
                      THEN [received[c] EXCEPT !.chainTx = TRUE,
                              !.nSequenceId = nBlockSequenceId + (CHOOSE i \in DOMAIN queue : queue[i] = c) - 1]
                      ELSE received[c]]
        members == {queue[i] : i \in DOMAIN queue}
    IN  IF index[Pprev(b)].chainTx
        THEN /\ index' = linked
             /\ nBlockSequenceId' = nBlockSequenceId + Len(queue)
             /\ setBlockIndexCandidates' =
                    setBlockIndexCandidates \cup {c \in members : ~WorkComparator(linked, c, tip)}
             /\ m_blocks_unlinked' = SelectSeq(m_blocks_unlinked, LAMBDA p : p[1] \notin members)
        ELSE /\ index' = received
             /\ m_blocks_unlinked' = IF IsValid(Pprev(b), TREE)
                                     THEN Append(m_blocks_unlinked, <<Pprev(b), b>>)
                                     ELSE m_blocks_unlinked
             /\ UNCHANGED <<nBlockSequenceId, setBlockIndexCandidates>>

(* ProcessNewBlock of a block whose header is known: AcceptBlock, and then *)
(* ActivateBestChain unless AcceptBlock fails.  (With a new header it is   *)
(* AcceptBlockHeader and this in one section.)                             *)
Ignored(b, fRequested) ==
    index[b].data \/ (~fRequested /\ index[b].nChainWork < index[tip].nChainWork)

ProcessNewBlock(b, fRequested) ==
    /\ CsMainFree /\ pending < Threads
    /\ Known(b) /\ ~Failed(b)
    /\ \/ /\ Ignored(b, fRequested)
          /\ pending' = pending + 1
          /\ UNCHANGED <<index, setBlockIndexCandidates, m_blocks_unlinked, nBlockSequenceId>>
       \/ /\ ~Ignored(b, fRequested)
          /\ index[b].verdict = "contextual"
          /\ index' = SetFailedValid({b})
          /\ UNCHANGED <<setBlockIndexCandidates, m_blocks_unlinked, nBlockSequenceId, pending>>
       \/ /\ ~Ignored(b, fRequested)
          /\ index[b].verdict # "contextual"
          /\ ReceivedBlockTransactions(b)
          /\ pending' = pending + 1
    /\ UNCHANGED <<tip, m_failed_blocks, pindexBestHeader, precious, pc, abcVars, invVars,
                   ShutdownRequested, calls>>
-----------------------------------------------------------------------------
(* ActivateBestChain.  A thread takes m_cs_chainstate; in each turn of the *)
(* outer loop it takes cs_main.                                            *)
ActivateBestChain ==
    /\ pc = "idle" /\ pending > 0
    /\ pending' = pending - 1
    /\ pc' = "loop"
    /\ pindexMostWork' = None
    /\ UNCHANGED <<blockVars, tip, setBlockIndexCandidates, precious, starting_tip, pindexOldTip, invVars, ShutdownRequested, calls>>

LockCsMain ==
    /\ pc = "loop"
    /\ pc' = "find"
    /\ starting_tip' = tip
    /\ UNCHANGED <<blockVars, tip, setBlockIndexCandidates, precious, pindexMostWork, pindexOldTip,
                   invVars, pending, ShutdownRequested, calls>>

Best(candidates) == CHOOSE b \in candidates : \A c \in candidates \ {b} : Worse(c, b)

(* The blocks of the chain of b that are not in the active chain. *)
Above(b) == Chain(b) \ Chain(tip)

(* The highest of a set of blocks of one chain. *)
Highest(S) == CHOOSE b \in S : \A c \in S : Len(index[c].path) <= Len(index[b].path)

(* One turn of FindMostWorkChain.  The candidate is dropped, with all of   *)
(* its chain above the last block known to have failed, or it is chosen.   *)
FindMostWorkChain ==
    /\ pc = "find" /\ pindexMostWork = None /\ setBlockIndexCandidates # {}
    /\ LET pindexNew == Best(setBlockIndexCandidates)
           failed == {c \in Above(pindexNew) : Failed(c)}
       IN  \/ /\ failed # {}
              /\ LET dropped == Chain(pindexNew) \ Chain(Highest(failed))
                 IN  /\ index' = SetFailedChild(dropped)
                     /\ setBlockIndexCandidates' = setBlockIndexCandidates \ (dropped \cup {Highest(failed)})
              /\ UNCHANGED pindexMostWork
           \/ /\ failed = {}
              /\ pindexMostWork' = pindexNew
              /\ UNCHANGED <<index, setBlockIndexCandidates>>
    /\ UNCHANGED <<m_blocks_unlinked, m_failed_blocks, pindexBestHeader, nBlockSequenceId, tip, precious,
                   pc, starting_tip, pindexOldTip, invVars, pending,
                   ShutdownRequested, calls>>

(* cs_main is released, with the locals that are still in use. *)
ReturnTo(place, mostWork) ==
    /\ pc' = place
    /\ pindexMostWork' = mostWork /\ starting_tip' = None /\ pindexOldTip' = None

(* This turn of the outer loop has run ActivateBestChainStep. *)
blocks_connected == pindexOldTip # None

(* There is nothing more to do: the tip is the most-work chain, or there   *)
(* is no candidate at all.  In the latter case the outer loop goes on if   *)
(* this turn has changed the tip (blocks_connected).                       *)
NothingToDo ==
    /\ pc = "find"
    /\ \/ pindexMostWork = tip /\ ReturnTo("idle", None)
       \/ /\ pindexMostWork = None /\ setBlockIndexCandidates = {}
          /\ ReturnTo(IF blocks_connected /\ ~ShutdownRequested THEN "loop" ELSE "idle", None)
    /\ UNCHANGED <<blockVars, tip, setBlockIndexCandidates, precious, invVars, pending,
                   ShutdownRequested, calls>>

(* ActivateBestChainStep: the blocks above the fork are disconnected. *)
ActivateBestChainStep ==
    /\ pc = "find" /\ pindexMostWork \notin {None, tip}
    /\ pindexOldTip' = tip
    /\ tip' = Highest(Chain(tip) \cap Chain(pindexMostWork))
    /\ pc' = "connect"
    /\ UNCHANGED <<blockVars, setBlockIndexCandidates, precious, pindexMostWork, starting_tip, invVars,
                   pending, ShutdownRequested, calls>>

(* Mutant: cs_main is released after every step. *)
AfterStepReleases(newTip, mostWork) ==
    IF newTip = mostWork \/ ShutdownRequested THEN ReturnTo("idle", None) ELSE ReturnTo("loop", mostWork)

(* Mutant: one step is all that is done. *)
AfterStepReturns(newTip, mostWork) ==
    IF Worse(newTip, starting_tip)
    THEN pc' = "find" /\ pindexMostWork' = mostWork /\ UNCHANGED <<starting_tip, pindexOldTip>>
    ELSE ReturnTo("idle", None)

(* Where ActivateBestChain goes at the end of a step: it keeps cs_main as  *)
(* long as the tip is worse than the one it started from, and it returns   *)
(* when the tip is the one it was heading for.                             *)
AfterStep(newTip, mostWork) ==
    IF Worse(newTip, starting_tip)
    THEN pc' = "find" /\ pindexMostWork' = mostWork /\ UNCHANGED <<starting_tip, pindexOldTip>>
    ELSE IF newTip = mostWork \/ ShutdownRequested THEN ReturnTo("idle", None) ELSE ReturnTo("loop", mostWork)

NextToConnect == CHOOSE b \in Chain(pindexMostWork) : b # Root /\ Pprev(b) = tip

(* ConnectTip, and PruneBlockIndexCandidates.  The step ends when the tip  *)
(* has more work than before or is the block wanted.                       *)
ConnectTip ==
    /\ pc = "connect"
    /\ LET b == NextToConnect
       IN  /\ index[b].verdict = "ok"
           /\ tip' = b
           /\ index' = [index EXCEPT ![b].validity = SCRIPTS]
           /\ setBlockIndexCandidates' = PruneBlockIndexCandidates(setBlockIndexCandidates, b)
           /\ IF index[b].nChainWork > index[pindexOldTip].nChainWork \/ b = pindexMostWork
              THEN AfterStep(b, pindexMostWork)
              ELSE UNCHANGED <<pc, abcVars>>
    /\ UNCHANGED <<m_blocks_unlinked, m_failed_blocks, pindexBestHeader, nBlockSequenceId, precious,
                   invVars, pending, ShutdownRequested, calls>>

(* Mutant: the block is not marked, as if it might have been mutated. *)
ConnectTipInvalidUnmarked ==
    /\ pc = "connect"
    /\ index[NextToConnect].verdict = "connect"
    /\ AfterStep(tip, None)
    /\ UNCHANGED <<blockVars, setBlockIndexCandidates, tip, precious, invVars, pending, ShutdownRequested, calls>>

(* ConnectTip of a block that ConnectBlock finds invalid:                  *)
(* InvalidBlockFound.  The second InvalidChainFound, for the block wanted, *)
(* finds pindexBestHeader moved already.                                   *)
ConnectTipInvalid ==
    /\ pc = "connect"
    /\ LET b == NextToConnect
       IN  /\ index[b].verdict = "connect"
           /\ index' = SetFailedValid({b})
           /\ m_failed_blocks' = m_failed_blocks \cup {b}
           /\ setBlockIndexCandidates' = setBlockIndexCandidates \ {b}
           /\ InvalidChainFound(b)
    /\ AfterStep(tip, None)
    /\ UNCHANGED <<m_blocks_unlinked, nBlockSequenceId, tip, precious, invVars, pending, ShutdownRequested, calls>>
-----------------------------------------------------------------------------
(* PreciousBlock, before it calls ActivateBestChain: the block is made to  *)
(* sort before those with the same work.                                   *)
PreciousBlock(b) ==
    /\ CsMainFree /\ pending < Threads
    /\ Known(b) /\ index[b].nChainWork >= index[tip].nChainWork
    /\ calls.precious < MaxPrecious
    /\ calls' = [calls EXCEPT !.precious = @ + 1]
    /\ LET id == IF index[tip].nChainWork > precious.work THEN -1 ELSE precious.id
       IN  /\ index' = [index EXCEPT ![b].nSequenceId = id]
           /\ precious' = [id |-> id - 1, work |-> index[tip].nChainWork]
    /\ setBlockIndexCandidates' =
          IF IsValid(b, TRANSACTIONS) /\ index[b].chainTx
          THEN {c \in setBlockIndexCandidates \cup {b} : ~WorkComparator(index', c, tip)}
          ELSE setBlockIndexCandidates \ {b}
    /\ pending' = pending + 1
    /\ UNCHANGED <<m_blocks_unlinked, m_failed_blocks, pindexBestHeader, nBlockSequenceId, tip, pc,
                   abcVars, invVars, ShutdownRequested>>

(* InvalidateBlock takes m_cs_chainstate and notes the blocks that may     *)
(* become candidates while the chain is disconnected.                      *)
InvalidateBlock(b) ==
    /\ pc = "idle"
    /\ Known(b) /\ b # Root
    /\ calls.invalidate < MaxInvalidate
    /\ calls' = [calls EXCEPT !.invalidate = @ + 1]
    /\ pindex' = b /\ to_mark_failed' = b
    /\ candidate_blocks' = {c \in DOMAIN index : /\ ~InActiveChain(c) /\ ~Worse(c, Pprev(b))
                                                 /\ IsValid(c, TRANSACTIONS) /\ index[c].chainTx}
    /\ pc' = "invalidate"
    /\ UNCHANGED <<blockVars, tip, setBlockIndexCandidates, precious, abcVars, pending, ShutdownRequested>>

(* Mutant: disconnected blocks are marked BLOCK_FAILED_CHILD at once. *)
InvalidateTipChild ==
    /\ pc = "invalidate" /\ ~ShutdownRequested /\ InActiveChain(pindex)
    /\ LET invalid_walk_tip == tip
           prev == Pprev(tip)
           marked == SetFailedChild({invalid_walk_tip})
           better == {c \in candidate_blocks : ~Worse(c, prev)}
       IN  /\ tip' = prev
           /\ index' = IF prev = to_mark_failed /\ index[to_mark_failed].failedValid
                       THEN [marked EXCEPT ![to_mark_failed].failedValid = FALSE,
                                           ![to_mark_failed].failedChild = TRUE]
                       ELSE marked
           /\ setBlockIndexCandidates' = (setBlockIndexCandidates \ {invalid_walk_tip}) \cup {prev} \cup better
           /\ candidate_blocks' = candidate_blocks \ better
           /\ to_mark_failed' = invalid_walk_tip
    /\ UNCHANGED <<m_blocks_unlinked, m_failed_blocks, pindexBestHeader, nBlockSequenceId, precious, pc,
                   abcVars, pindex, pending, ShutdownRequested, calls>>

(* One turn of its loop: the tip is disconnected and marked. *)
InvalidateTip ==
    /\ pc = "invalidate" /\ ~ShutdownRequested /\ InActiveChain(pindex)
    /\ LET invalid_walk_tip == tip
           prev == Pprev(tip)
           marked == SetFailedValid({invalid_walk_tip})
           better == {c \in candidate_blocks : ~Worse(c, prev)}
       IN  /\ tip' = prev
           /\ index' = IF prev = to_mark_failed /\ index[to_mark_failed].failedValid
                       THEN [marked EXCEPT ![to_mark_failed].failedValid = FALSE,
                                           ![to_mark_failed].failedChild = TRUE]
                       ELSE marked
           /\ setBlockIndexCandidates' = (setBlockIndexCandidates \ {invalid_walk_tip}) \cup {prev} \cup better
           /\ candidate_blocks' = candidate_blocks \ better
           /\ to_mark_failed' = invalid_walk_tip
    /\ UNCHANGED <<m_blocks_unlinked, m_failed_blocks, pindexBestHeader, nBlockSequenceId, precious, pc,
                   abcVars, pindex, pending, ShutdownRequested, calls>>

InvalidateDone ==
    /\ pc = "invalidate" /\ (ShutdownRequested \/ ~InActiveChain(pindex))
    /\ pc' = "mark"
    /\ UNCHANGED <<blockVars, tip, setBlockIndexCandidates, precious, abcVars, invVars, pending,
                   ShutdownRequested, calls>>

(* Mutant: candidates that arrived meanwhile are not looked for. *)
InvalidateMarkOnly ==
    /\ pc = "mark"
    /\ pc' = "idle"
    /\ pending' = pending + 1
    /\ IF InActiveChain(to_mark_failed)
       THEN UNCHANGED <<blockVars, setBlockIndexCandidates>>
       ELSE /\ index' = SetFailedValid({to_mark_failed})
            /\ m_failed_blocks' = m_failed_blocks \cup {to_mark_failed}
            /\ setBlockIndexCandidates' = setBlockIndexCandidates \ {to_mark_failed}
            /\ InvalidChainFound(to_mark_failed)
            /\ UNCHANGED <<m_blocks_unlinked, nBlockSequenceId>>
    /\ pindex' = None /\ to_mark_failed' = None /\ candidate_blocks' = {}
    /\ UNCHANGED <<tip, precious, abcVars, ShutdownRequested, calls>>

(* The section that ends InvalidateBlock, after CheckBlockIndex.  The RPC  *)
(* then calls ActivateBestChain.                                           *)
InvalidateMark ==
    /\ pc = "mark"
    /\ pc' = "idle"
    /\ pending' = pending + 1
    /\ IF InActiveChain(to_mark_failed)
       THEN UNCHANGED <<blockVars, setBlockIndexCandidates>>
       ELSE /\ index' = SetFailedValid({to_mark_failed})
            /\ m_failed_blocks' = m_failed_blocks \cup {to_mark_failed}
            /\ setBlockIndexCandidates' =
                  (setBlockIndexCandidates \ {to_mark_failed}) \cup
                  {c \in DOMAIN index \ {to_mark_failed} :
                      IsValid(c, TRANSACTIONS) /\ index[c].chainTx /\ ~Worse(c, tip)}
            /\ InvalidChainFound(to_mark_failed)
            /\ UNCHANGED <<m_blocks_unlinked, nBlockSequenceId>>
    /\ pindex' = None /\ to_mark_failed' = None /\ candidate_blocks' = {}
    /\ UNCHANGED <<tip, precious, abcVars, ShutdownRequested, calls>>

(* Mutant: descendants become candidates however little work they have. *)
ResetAddsAll(b) ==
    /\ CsMainFree /\ pending < Threads
    /\ Known(b)
    /\ calls.reconsider < MaxReconsider
    /\ calls' = [calls EXCEPT !.reconsider = @ + 1]
    /\ LET descendants == {c \in DOMAIN index : Failed(c) /\ b \in Chain(c)}
           reset == descendants \cup Chain(b)
       IN  /\ index' = [c \in DOMAIN index |->
                           IF c \in reset THEN [index[c] EXCEPT !.failedValid = FALSE, !.failedChild = FALSE]
                           ELSE index[c]]
           /\ setBlockIndexCandidates' =
                 setBlockIndexCandidates \cup
                 {c \in descendants : index[c].validity >= TRANSACTIONS /\ index[c].chainTx}
           /\ m_failed_blocks' = m_failed_blocks \ reset
    /\ pending' = pending + 1
    /\ UNCHANGED <<m_blocks_unlinked, pindexBestHeader, nBlockSequenceId, tip, precious, pc, abcVars,
                   invVars, ShutdownRequested>>

(* Mutant: ancestors stay in m_failed_blocks. *)
ResetKeepsAncestors(b) ==
    /\ CsMainFree /\ pending < Threads
    /\ Known(b)
    /\ calls.reconsider < MaxReconsider
    /\ calls' = [calls EXCEPT !.reconsider = @ + 1]
    /\ LET descendants == {c \in DOMAIN index : Failed(c) /\ b \in Chain(c)}
           reset == descendants \cup Chain(b)
       IN  /\ index' = [c \in DOMAIN index |->
                           IF c \in reset THEN [index[c] EXCEPT !.failedValid = FALSE, !.failedChild = FALSE]
                           ELSE index[c]]
           /\ setBlockIndexCandidates' =
                 setBlockIndexCandidates \cup
                 {c \in descendants : index[c].validity >= TRANSACTIONS /\ index[c].chainTx /\ Worse(tip, c)}
           /\ m_failed_blocks' = m_failed_blocks \ descendants
    /\ pending' = pending + 1
    /\ UNCHANGED <<m_blocks_unlinked, pindexBestHeader, nBlockSequenceId, tip, precious, pc, abcVars,
                   invVars, ShutdownRequested>>

(* ResetBlockFailureFlags, of the RPC reconsiderblock: the descendants of  *)
(* b, and its ancestors, are valid again.                                  *)
ResetBlockFailureFlags(b) ==
    /\ CsMainFree /\ pending < Threads
    /\ Known(b)
    /\ calls.reconsider < MaxReconsider
    /\ calls' = [calls EXCEPT !.reconsider = @ + 1]
    /\ LET descendants == {c \in DOMAIN index : Failed(c) /\ b \in Chain(c)}
           reset == descendants \cup Chain(b)
       IN  /\ index' = [c \in DOMAIN index |->
                           IF c \in reset THEN [index[c] EXCEPT !.failedValid = FALSE, !.failedChild = FALSE]
                           ELSE index[c]]
           /\ setBlockIndexCandidates' =
                 setBlockIndexCandidates \cup
                 {c \in descendants : index[c].validity >= TRANSACTIONS /\ index[c].chainTx /\ Worse(tip, c)}
           /\ m_failed_blocks' = m_failed_blocks \ reset
    /\ pending' = pending + 1
    /\ UNCHANGED <<m_blocks_unlinked, pindexBestHeader, nBlockSequenceId, tip, precious, pc, abcVars,
                   invVars, ShutdownRequested>>
-----------------------------------------------------------------------------
RequestShutdown ==
    /\ ~ShutdownRequested
    /\ calls.restart < MaxRestarts
    /\ calls' = [calls EXCEPT !.restart = @ + 1]
    /\ ShutdownRequested' = TRUE
    /\ UNCHANGED <<blockVars, tip, setBlockIndexCandidates, precious, pc, abcVars, invVars, pending>>

(* A new process: LoadBlockIndex and LoadChainTip, from a block index and  *)
(* coins that were flushed.  The import thread calls ActivateBestChain.    *)
LoadedIndex ==
    [c \in DOMAIN index |->
        [index[c] EXCEPT !.nSequenceId = 0,
                         !.chainTx = \A d \in Chain(c) : index[d].data,
                         !.failedChild = @ \/ (~Failed(c) /\ \E d \in Chain(c) \ {c} : Failed(d))]]

(* Mutant: none are found. *)
LoadedUnlinkedNone(ix) == <<>>

(* The blocks that wait for data of their ancestors, in the block index ix *)
(* just loaded; they are found in the order of their heights.              *)
LoadedUnlinked(ix) ==
    LET waiting == {c \in DOMAIN ix \ {Root} : ix[c].data /\ ~ix[Pprev(c)].chainTx}
        first(p, q) == \/ Len(ix[p[2]].path) < Len(ix[q[2]].path)
                       \/ /\ Len(ix[p[2]].path) = Len(ix[q[2]].path)
                          /\ Address[p[2]] < Address[q[2]]
    IN  SeqExt!SetToSortSeq({<<Pprev(c), c>> : c \in waiting}, first)

Restart ==
    /\ ShutdownRequested /\ pc = "idle"
    /\ index' = LoadedIndex
    /\ setBlockIndexCandidates' =
          {c \in DOMAIN index' : /\ ~index'[c].failedValid /\ ~index'[c].failedChild
                                 /\ index'[c].validity >= TRANSACTIONS /\ index'[c].chainTx
                                 /\ ~WorkComparator(index', c, tip)}
    /\ m_blocks_unlinked' = LoadedUnlinked(index')
    /\ pindexBestHeader' =
          LET valid == {c \in DOMAIN index' : ~index'[c].failedValid /\ ~index'[c].failedChild}
          IN  CHOOSE b \in valid : \A c \in valid \ {b} : WorkComparator(index', c, b)
    /\ m_failed_blocks' = {}
    /\ nBlockSequenceId' = FirstSequenceId
    /\ precious' = [id |-> -1, work |-> 0]
    /\ pending' = 1
    /\ ShutdownRequested' = FALSE
    /\ UNCHANGED <<tip, pc, abcVars, invVars, calls>>
-----------------------------------------------------------------------------
(* The steps of the thread that holds, or wants, m_cs_chainstate. *)
ChainstateStep ==
    \/ ActivateBestChain
    \/ LockCsMain
    \/ FindMostWorkChain
    \/ NothingToDo
    \/ ActivateBestChainStep
    \/ ConnectTip
    \/ ConnectTipInvalid
    \/ InvalidateTip
    \/ InvalidateDone
    \/ InvalidateMark

Next ==
    \/ ChainstateStep
    \/ \E b \in Blocks : \E prev \in Blocks \cup {Root}, proof \in Proofs[b], verdict \in Verdicts[b] :
          AcceptBlockHeader(b, prev, proof, verdict)
    \/ \E prev \in Blocks : RejectBlockHeader(prev)
    \/ \E b \in Blocks \cup {Root}, fRequested \in BOOLEAN : ProcessNewBlock(b, fRequested)
    \/ \E b \in Blocks \cup {Root} : PreciousBlock(b)
    \/ \E b \in Blocks : InvalidateBlock(b)
    \/ \E b \in Blocks \cup {Root} : ResetBlockFailureFlags(b)
    \/ RequestShutdown
    \/ Restart

Spec == Init /\ [][Next]_vars

(* A thread that holds a lock, or waits for one that is free, runs. *)
FairSpec == Spec /\ WF_vars(ChainstateStep)
-----------------------------------------------------------------------------
(* Type correctness; in particular every block that a set, a local or the  *)
(* tip refers to is in the block index, and ids handed out are above 0.    *)
TypeOK ==
    /\ DOMAIN index \subseteq Blocks \cup {Root}
    /\ index \in [DOMAIN index -> BlockIndex]
    /\ {tip, pindexBestHeader} \cup setBlockIndexCandidates \cup m_failed_blocks \cup candidate_blocks
          \subseteq DOMAIN index
    /\ {pindexMostWork, starting_tip, pindexOldTip, pindex, to_mark_failed} \subseteq DOMAIN index \cup {None}
    /\ m_blocks_unlinked \in Seq((DOMAIN index) \X (DOMAIN index))
    /\ nBlockSequenceId \in Nat \ {0}
    /\ precious \in [id : Int, work : Nat]
    /\ pc \in Unlocked \cup {"find", "connect"}
    /\ pending \in 0..(Threads + 1)
    /\ ShutdownRequested \in BOOLEAN

InvalidAncestor(b) == \E c \in Chain(b) : index[c].failedValid

(* A block that is at least as good as the tip and none of whose ancestors *)
(* is missing or known to be invalid is a candidate.                       *)
NoCandidateMissing ==
    \A b \in DOMAIN index :
        (index[b].chainTx /\ ~InvalidAncestor(b) /\ ~Worse(b, tip)) => b \in setBlockIndexCandidates

(* Nothing that the node should switch to is forgotten: no candidate is    *)
(* missing while no InvalidateBlock is under way, also after one that was  *)
(* overtaken by new blocks.                                                *)
CandidatesComplete == pc \in {"idle", "loop"} => NoCandidateMissing

(* "If this block sorts at least as good as the current tip and is valid   *)
(* and we have all data for its parents, it must be in                     *)
(* setBlockIndexCandidates." (CheckBlockIndex, which InvalidateBlock calls *)
(* and any other thread may while cs_main is free)                         *)
CheckBlockIndexCandidates == CsMainFree => NoCandidateMissing

(* "If this block sorts worse than the current tip or some ancestor's      *)
(* block has never been seen, it cannot be in setBlockIndexCandidates."    *)
(* (CheckBlockIndex)                                                       *)
CandidatesSound ==
    CsMainFree => \A b \in setBlockIndexCandidates : index[b].chainTx /\ ~Worse(b, tip)

(* "The failed mask cannot be set for blocks without invalid parents."     *)
(* (CheckBlockIndex)                                                       *)
FailureHasCause == CsMainFree => \A b \in DOMAIN index : Failed(b) => InvalidAncestor(b)

Unlinked == {m_blocks_unlinked[k] : k \in DOMAIN m_blocks_unlinked}

(* m_blocks_unlinked holds the blocks that have data and wait for that of  *)
(* an ancestor, and no others (CheckBlockIndex).                           *)
UnlinkedBlocksWait ==
    \A b \in DOMAIN index \ {Root} :
        /\ (index[b].data /\ ~index[b].chainTx /\ ~InvalidAncestor(b)) => <<Pprev(b), b>> \in Unlinked
        /\ <<Pprev(b), b>> \in Unlinked => index[b].data /\ ~index[b].chainTx

(* Every block that AcceptBlockHeader finds in m_failed_blocks is marked   *)
(* as failed itself (the assertion in AcceptBlockHeader).                  *)
FailedBlocksMarked == \A b \in m_failed_blocks : index[b].failedValid

(* The active chain is made of blocks whose data is there and which        *)
(* ConnectBlock accepts.                                                   *)
ActiveChainValid == \A b \in Chain(tip) : index[b].chainTx /\ index[b].verdict = "ok"

Connectable(b) == index[b].chainTx /\ \A c \in Chain(b) : index[c].verdict = "ok" /\ ~Failed(c)

(* When no thread is about to run ActivateBestChain, no chain of blocks    *)
(* that would connect, and of which none is marked as failed, is better    *)
(* than the active one.  (A shutdown interrupts ActivateBestChain.)        *)
BestChainWhenIdle ==
    (pc = "idle" /\ pending = 0 /\ ~ShutdownRequested) => \A b \in DOMAIN index : Connectable(b) => ~Worse(tip, b)

(* Nothing that the node should switch to is forgotten, whatever blocks    *)
(* arrive or fail while ActivateBestChain or InvalidateBlock has released  *)
(* cs_main, or just before a shutdown interrupts it and the node restarts: *)
(* until reconsiderblock is called no candidate is missing and an idle     *)
(* node is on the best chain.                                              *)
NothingForgotten == calls.reconsider = 0 => CandidatesComplete /\ BestChainWhenIdle

(* Nor is there a failure mark without a cause, or a block lost that waits *)
(* for its ancestors, through rejected headers, failing blocks,            *)
(* InvalidateBlock and the start after it (CheckBlockIndex).               *)
MarksRight == calls.reconsider = 0 => FailureHasCause /\ UnlinkedBlocksWait

(* Whenever cs_main is free no candidate is unusable, also after           *)
(* reconsiderblock; m_failed_blocks names failed blocks only; and at all   *)
(* times the active chain is made of blocks that ConnectBlock accepts.     *)
SelectionSound == CandidatesSound /\ FailedBlocksMarked /\ ActiveChainValid

(* "We absolutely may not unlock cs_main until we've made forward          *)
(* progress": when ActivateBestChain releases cs_main the tip is no worse  *)
(* than when it took it, whatever branches failed in between.              *)
ForwardProgress ==
    [][(~CsMainFree /\ CsMainFree') => ~WorkComparator(index', tip', starting_tip)]_vars

(* "Either the current tip or a successor of it we're working towards is   *)
(* left in setBlockIndexCandidates." (PruneBlockIndexCandidates, after     *)
(* every block connected)                                                  *)
TipOrSuccessorLeft ==
    [][pc = "connect" /\ tip' # tip => \E c \in setBlockIndexCandidates' : tip' \in Chain(c)']_vars

(* "Best header we've seen so far (used for getheaders queries' starting   *)
(* points)." (validation.h): it has no less work than the active chain.    *)
BestHeaderNotBehind == CsMainFree => index[pindexBestHeader].nChainWork >= index[tip].nChainWork

(* "We only want to mark the last disconnected block as                    *)
(* BLOCK_FAILED_VALID; its children need to be BLOCK_FAILED_CHILD          *)
(* instead." (InvalidateBlock)                                             *)
OnlyLastMarkedFailedValid ==
    [][pc = "mark" /\ pc' = "idle" =>
        \A b \in DOMAIN index \ {to_mark_failed} :
            (to_mark_failed \in Chain(b) /\ index[b].verdict = "ok") => ~index'[b].failedValid]_vars

(* ActivateBestChain always returns, and once blocks and calls stop coming *)
(* the best connectable chain is the active one and stays so.              *)
BestChainEventually ==
    <>[](\A b \in DOMAIN index : Connectable(b) => ~Worse(tip, b))
=============================================================================
