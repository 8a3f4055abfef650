--------------------------- MODULE DeadpoolIndex ---------------------------
(***************************************************************************)
(* The deadpool index: BaseIndex (src/src/index/base.cpp), whose sync      *)
(* thread and notification callbacks follow the active chain, and          *)
(* DeadpoolIndex::WriteBlock (src/src/index/deadpoolindex.cpp), which      *)
(* writes the rows of a block.                                             *)
(*                                                                         *)
(* The block tree is fixed; path[b] is the sequence of blocks from the     *)
(* genesis block to b, and NoBlock, the null pointer, has the empty path.  *)
(* The active chain is path[tip].  cs_main is held by every action that    *)
(* moves the tip, and by the sync thread from the moment it sets m_synced  *)
(* to the end of the Commit that follows.  Disk errors and pruning are not *)
(* modelled; the time between two locator writes is a choice.              *)
(***************************************************************************)
EXTENDS Deadpool, SequencesExt

CONSTANTS
    Blocks,
    path,
    vtx,            \* the transactions of a block, in order
    StartTips,      \* the tips the chain may have when the index is first enabled
    MaxMoves,       \* how often the tip moves
    MaxFlushes,     \* how often the chain state is flushed
    MaxStops        \* how often the process is shut down or crashes

NoBlock == 0

ASSUME IndexAssumption ==
    /\ NoBlock \notin Blocks
    /\ path \in [Blocks \cup {NoBlock} -> Seq(Blocks)] /\ path[NoBlock] = <<>>
    /\ \A b \in Blocks : /\ Last(path[b]) = b
                         /\ \A h \in DOMAIN path[b] : path[path[b][h]] = SubSeq(path[b], 1, h)
                         /\ path[b][1] = path[CHOOSE c \in Blocks : TRUE][1]
    /\ vtx \in [Blocks -> Seq(Txs)]
    /\ StartTips \subseteq Blocks \cup {NoBlock}
    /\ {MaxMoves, MaxFlushes, MaxStops} \subseteq Nat

VARIABLES
    tip,            \* the tip of m_chainstate->m_chain
    coinsTip,       \* the block of the chain state on disk, which a restart loads
    queue,          \* the notifications that the scheduler has still to deliver
    m_synced,
    m_best_block_index,
    sync,           \* ThreadSync: where it is, its local pindex, and whether the loop is at its first turn
    callback,       \* the block whose BlockConnected is about to write, if any
    locators,       \* the best-block locators in the log: the first is durable, the last current
    db,             \* the rows of the index
    running,
    calls           \* how often each bounded thing has happened

chainVars == <<tip, coinsTip, queue>>
indexVars == <<m_synced, m_best_block_index, sync, callback>>
dbVars == <<locators, db>>
vars == <<chainVars, indexVars, dbVars, running, calls>>
-----------------------------------------------------------------------------
(* The block tree. *)
nHeight(b) == Len(path[b]) - 1
GetAncestor(b, h) == IF h \in 0 .. nHeight(b) THEN path[b][h + 1] ELSE NoBlock
pprev(b) == GetAncestor(b, nHeight(b) - 1)
OnChain(b, top) == b \in ToSet(path[top])

(* CChain::FindFork, and BlockManager::FindForkInGlobalIndex on the        *)
(* locator of b: the last ancestor of b on the chain.                      *)
FindFork(b, top) == GetAncestor(b, Cardinality({c \in ToSet(path[b]) : OnChain(c, top)}) - 1)

(* CChain::Next *)
NextOf(b) == IF OnChain(b, tip) THEN GetAncestor(tip, nHeight(b) + 1) ELSE NoBlock

NextSyncBlock(pindex_prev) ==
    IF pindex_prev = NoBlock THEN GetAncestor(tip, 0)
    ELSE IF NextOf(pindex_prev) # NoBlock THEN NextOf(pindex_prev)
    ELSE NextOf(FindFork(pindex_prev, tip))

(* CChain::GetLocator, by the block it starts from: it lists ten blocks in *)
(* a row before it thins out towards the genesis block, so that on the     *)
(* short chains here it lists every ancestor.  A null pointer stands for   *)
(* the tip.                                                                *)
GetLocator(b) == IF b = NoBlock THEN tip ELSE b
-----------------------------------------------------------------------------
(* The database.  A 'd' or 'a' row holds the height at which an output was *)
(* indexed, 0 when there is none.  A 'c' row holds the block that claims   *)
(* an entry, NoBlock when it is unclaimed, NoRecord when there is none.    *)
NoRecord == -1

Keys == {out \in UNION {{t} \X DOMAIN vout[t] : t \in Txs} : TxOutAt(out).type # "other"}
Entries == {out \in Keys : IsDeadpoolEntry(TxOutAt(out))}

EmptyDB == [rows |-> [k \in Keys |-> 0], claims |-> [k \in Entries |-> NoRecord]]

(* The writes of a transaction: WriteAnnounce, or WriteEntry followed by   *)
(* WriteUnclaimedEntry, for its outputs, then WriteClaimedEntry for the    *)
(* inputs that spend an entry.                                             *)
TxWrites(t) ==
    LET OutputWrites(i) ==
            CASE IsDeadpoolAnnouncement(vout[t][i]) -> <<[kind |-> "row", key |-> <<t, i>>]>>
              [] IsDeadpoolEntry(vout[t][i]) -> <<[kind |-> "row", key |-> <<t, i>>],
                                                  [kind |-> "unclaimed", key |-> <<t, i>>]>>
              [] OTHER -> <<>>
        inputs == SetToSeq(Inputs(t) \cap Entries)
    IN  FlattenSeq([i \in DOMAIN vout[t] |-> OutputWrites(i)])
            \o [i \in DOMAIN inputs |-> [kind |-> "claim", key |-> inputs[i]]]

(* The genesis block has nothing to index. *)
BlockWrites == [b \in Blocks |->
    IF nHeight(b) = 0 THEN <<>> ELSE FlattenSeq([k \in DOMAIN vtx[b] |-> TxWrites(vtx[b][k])])]

(* One write; IsUnclaimedEntry guards the last. *)
WriteRow(d, w, b) ==
    IF w.kind = "row" THEN [d EXCEPT !.rows[w.key] = nHeight(b)]
    ELSE IF w.kind = "unclaimed" THEN [d EXCEPT !.claims[w.key] = NoBlock]
    ELSE IF d.claims[w.key] = NoBlock THEN [d EXCEPT !.claims[w.key] = b]
    ELSE d

(* The first n writes of a block.  Each is synchronous, and makes all that *)
(* was logged before it durable.                                           *)
WriteBlock(b, n) ==
    LET writes == SubSeq(BlockWrites[b], 1, n) IN
    /\ db' = FoldLeft(LAMBDA d, w : WriteRow(d, w, b), db, writes)
    /\ locators' = IF db' # db \/ \E k \in DOMAIN writes : writes[k].kind # "claim"
                   THEN <<Last(locators)>> ELSE locators

(* Commit logs the locator of m_best_block_index, here b, without a sync. *)
Commit(b) == locators' = IF GetLocator(b) = Last(locators) THEN locators
                         ELSE Append(locators, GetLocator(b))
-----------------------------------------------------------------------------
(* The chain.  ActivateBestChainStep, or InvalidateBlock when it only      *)
(* disconnects, moves the tip under cs_main and sends BlockConnected for   *)
(* the new blocks at the end.  A step that starts from the tip connects    *)
(* one block: it is then in a better position than before.  ConnectTip and *)
(* DisconnectTip may flush the coins, which are then one block ahead of    *)
(* the chain whose locator ChainStateFlushed carries.                      *)
CsMainFree == sync.pc # "commit"

Count(what, max) == calls[what] < max /\ calls' = [calls EXCEPT ![what] = @ + 1]

Connected(b) == [event |-> "BlockConnected", block |-> b]
Flushed(b) == [event |-> "ChainStateFlushed", block |-> b]

MoveTip(new) ==
    LET fork == FindFork(new, tip)
        connected == SelectSeq(path[new], LAMBDA b : ~OnChain(b, tip))
        disconnected == {b \in ToSet(path[tip]) : ~OnChain(b, new)}
        flushes == {<<b, pprev(b)>> : b \in ToSet(connected)} \cup {<<pprev(b), b>> : b \in disconnected}
        notify == [k \in DOMAIN connected |-> Connected(connected[k])]
    IN  /\ running /\ CsMainFree /\ new # tip
        /\ fork = tip => Len(connected) = 1
        /\ tip' = new
        /\ \/ /\ Count("moves", MaxMoves)
              /\ queue' = queue \o notify
              /\ UNCHANGED coinsTip
           \/ \E f \in {g \in flushes : g[2] # NoBlock} :
              /\ calls.moves < MaxMoves /\ calls.flushes < MaxFlushes
              /\ calls' = [calls EXCEPT !.moves = @ + 1, !.flushes = @ + 1]
              /\ coinsTip' = f[1]
              /\ queue' = (queue \o <<Flushed(f[2])>>) \o notify
        /\ UNCHANGED <<indexVars, dbVars, running>>

(* FlushStateToDisk from outside a step. *)
FlushStateToDisk ==
    /\ running /\ CsMainFree /\ tip # NoBlock
    /\ Count("flushes", MaxFlushes)
    /\ coinsTip' = tip
    /\ queue' = Append(queue, Flushed(tip))
    /\ UNCHANGED <<tip, indexVars, dbVars, running>>
-----------------------------------------------------------------------------
(* ThreadSync.  "loop": at the top of the loop; "write": about to write    *)
(* pindex; "commit": m_synced set and cs_main still held; "done".          *)

(* Mutant: m_synced is not set. *)
SyncedUpUnnoticed ==
    /\ running /\ sync.pc = "loop"
    /\ NextSyncBlock(sync.pindex) = NoBlock
    /\ m_best_block_index' = sync.pindex
    /\ sync' = [sync EXCEPT !.pc = "commit"]
    /\ UNCHANGED <<chainVars, m_synced, callback, dbVars, running, calls>>

(* The locked section finds nothing after pindex: hand over to the         *)
(* notifications.                                                          *)
SyncedUp ==
    /\ running /\ sync.pc = "loop"
    /\ NextSyncBlock(sync.pindex) = NoBlock
    /\ m_best_block_index' = sync.pindex
    /\ m_synced' = TRUE
    /\ sync' = [sync EXCEPT !.pc = "commit"]
    /\ UNCHANGED <<chainVars, callback, dbVars, running, calls>>

CommitSynced ==
    /\ running /\ sync.pc = "commit"
    /\ Commit(m_best_block_index)
    /\ sync' = [sync EXCEPT !.pc = "done"]
    /\ UNCHANGED <<chainVars, m_synced, m_best_block_index, callback, db, running, calls>>

(* The locked section finds the next block, with a Rewind when it is on    *)
(* another branch, whose assertion must hold.  Then the locator is         *)
(* written, every SYNC_LOCATOR_WRITE_INTERVAL seconds and for the first    *)
(* block: no other thread can tell this from one step.                     *)
SyncNext ==
    LET pindex_next == NextSyncBlock(sync.pindex)
        rewind == pprev(pindex_next) # sync.pindex
    IN  /\ running /\ sync.pc = "loop"
        /\ pindex_next # NoBlock
        /\ rewind => sync.pindex = m_best_block_index
        /\ \/ /\ m_best_block_index' = pindex_next
              /\ Commit(pindex_next)
           \/ /\ ~sync.first /\ rewind
              /\ m_best_block_index' = pprev(pindex_next)
              /\ Commit(pprev(pindex_next))
           \/ /\ ~sync.first /\ ~rewind
              /\ UNCHANGED <<m_best_block_index, locators>>
        /\ sync' = [pc |-> "write", pindex |-> pindex_next, first |-> FALSE]
        /\ UNCHANGED <<chainVars, m_synced, callback, db, running, calls>>

(* Rewind's assertion fails in the sync thread and aborts the process. *)
RewindAborts ==
    /\ running /\ sync.pc = "loop"
    /\ NextSyncBlock(sync.pindex) # NoBlock
    /\ pprev(NextSyncBlock(sync.pindex)) # sync.pindex
    /\ sync.pindex # m_best_block_index
    /\ running' = FALSE
    /\ UNCHANGED <<chainVars, indexVars, dbVars, calls>>

SyncWrite ==
    /\ running /\ sync.pc = "write"
    /\ WriteBlock(sync.pindex, Len(BlockWrites[sync.pindex]))
    /\ sync' = [sync EXCEPT !.pc = "loop"]
    /\ UNCHANGED <<chainVars, m_synced, m_best_block_index, callback, running, calls>>

ThreadSync == SyncedUp \/ CommitSynced \/ SyncNext \/ RewindAborts \/ SyncWrite
-----------------------------------------------------------------------------
(* The notifications, delivered one by one by the scheduler thread.        *)
Deliver(event) ==
    /\ running /\ callback = NoBlock
    /\ queue # <<>> /\ Head(queue).event = event
    /\ queue' = Tail(queue)

(* Mutant: only a child of the best block counts, so no reorganisation does. *)
ConnectsToBestOnly(b) == m_best_block_index = pprev(b)

(* Whether a block connects to an ancestor of the index's best block; a    *)
(* block of a stale branch in the backlog may not.                         *)
ConnectsToBest(b) == GetAncestor(m_best_block_index, nHeight(b) - 1) = pprev(b)

(* Mutant: Rewind does not commit. *)
BlockConnectedWithoutCommit ==
    LET pindex == Head(queue).block IN
    /\ Deliver("BlockConnected")
    /\ \/ /\ ~m_synced \/ ~ConnectsToBest(pindex)
          /\ UNCHANGED <<m_best_block_index, callback>>
       \/ /\ m_synced /\ ConnectsToBest(pindex)
          /\ callback' = pindex
          /\ m_best_block_index' = pprev(pindex)
    /\ UNCHANGED <<tip, coinsTip, m_synced, sync, dbVars, running, calls>>

(* BlockConnected up to the write: the early returns, and Rewind when the  *)
(* best block is not the parent, whose Commit takes cs_main.               *)
BlockConnected ==
    LET pindex == Head(queue).block IN
    /\ Deliver("BlockConnected")
    /\ \/ /\ ~m_synced \/ ~ConnectsToBest(pindex)
          /\ UNCHANGED <<m_best_block_index, callback, locators>>
       \/ /\ m_synced /\ ConnectsToBest(pindex)
          /\ callback' = pindex
          /\ m_best_block_index' = pprev(pindex)
          /\ \/ /\ m_best_block_index = pprev(pindex)
                /\ UNCHANGED locators
             \/ /\ m_best_block_index # pprev(pindex) /\ CsMainFree
                /\ Commit(pprev(pindex))
    /\ UNCHANGED <<tip, coinsTip, m_synced, sync, db, running, calls>>

BlockConnectedWrite ==
    /\ running /\ callback # NoBlock
    /\ WriteBlock(callback, Len(BlockWrites[callback]))
    /\ m_best_block_index' = callback
    /\ callback' = NoBlock
    /\ UNCHANGED <<chainVars, m_synced, sync, running, calls>>

(* A locator of a block that the index has not reached is not committed. *)
OnBestChain(b) == GetAncestor(m_best_block_index, nHeight(b)) = b

ChainStateFlushed ==
    /\ Deliver("ChainStateFlushed")
    /\ \/ /\ m_synced /\ CsMainFree /\ OnBestChain(Head(queue).block)
          /\ Commit(m_best_block_index)
       \/ /\ ~m_synced \/ ~OnBestChain(Head(queue).block)
          /\ UNCHANGED locators
    /\ UNCHANGED <<tip, coinsTip, indexVars, db, running, calls>>

Notify == BlockConnected \/ BlockConnectedWrite \/ ChainStateFlushed
-----------------------------------------------------------------------------
(* The end of the process.  Shutdown flushes the chain state, drains the   *)
(* notifications and joins the sync thread, which commits the block it has *)
(* reached when it sees m_interrupt.                                       *)
Shutdown ==
    /\ running /\ queue = <<>> /\ callback = NoBlock
    /\ Count("stops", MaxStops)
    /\ running' = FALSE
    /\ coinsTip' = tip
    /\ \/ /\ sync.pc = "loop"
          /\ m_best_block_index' = sync.pindex
          /\ locators' = <<GetLocator(sync.pindex)>>
       \/ /\ sync.pc = "done"
          /\ locators' = <<IF OnBestChain(tip) THEN GetLocator(m_best_block_index) ELSE Last(locators)>>
          /\ UNCHANGED m_best_block_index
    /\ UNCHANGED <<tip, queue, m_synced, sync, callback, db>>

(* A crash keeps some of the unsynced locators. *)
Crash ==
    /\ running
    /\ Count("stops", MaxStops)
    /\ running' = FALSE
    /\ \E k \in DOMAIN locators : locators' = <<locators[k]>>
    /\ UNCHANGED <<chainVars, indexVars, db>>

(* A crash in the middle of WriteBlock. *)
CrashWriting ==
    /\ running
    /\ Count("stops", MaxStops)
    /\ running' = FALSE
    /\ \E b \in Blocks :
        /\ b = callback \/ (b = sync.pindex /\ sync.pc = "write")
        /\ \E n \in 1 .. Len(BlockWrites[b]) - 1 : WriteBlock(b, n)
    /\ UNCHANGED <<chainVars, indexVars>>

(* Init looks backwards from the tip for the index's best block, with its  *)
(* data, and compares a block only while it has a parent: with nothing     *)
(* pruned it misses the genesis block, and the node refuses to start.      *)
PruneViolation(best) == best # NoBlock /\ best # coinsTip /\ nHeight(best) = 0

(* Start and Init, on the chain that LoadChainTip finds. *)
Start ==
    LET locator == Last(locators)
        best == IF locator = NoBlock THEN NoBlock ELSE FindFork(locator, coinsTip)
    IN  /\ ~running /\ ~PruneViolation(best)
        /\ running' = TRUE
        /\ tip' = coinsTip
        /\ queue' = <<>>
        /\ m_best_block_index' = best
        /\ m_synced' = (best = coinsTip)
        /\ sync' = [pc |-> IF best = coinsTip THEN "done" ELSE "loop", pindex |-> best, first |-> TRUE]
        /\ callback' = NoBlock
        /\ UNCHANGED <<coinsTip, dbVars, calls>>
-----------------------------------------------------------------------------
Init ==
    /\ tip \in StartTips
    /\ coinsTip = tip
    /\ queue = <<>>
    /\ m_synced = (tip = NoBlock)
    /\ m_best_block_index = NoBlock
    /\ sync = [pc |-> IF tip = NoBlock THEN "done" ELSE "loop", pindex |-> NoBlock, first |-> TRUE]
    /\ callback = NoBlock
    /\ locators = <<NoBlock>>
    /\ db = EmptyDB
    /\ running = TRUE
    /\ calls = [moves |-> 0, flushes |-> 0, stops |-> 0]

Next ==
    \/ \E new \in Blocks : MoveTip(new)
    \/ FlushStateToDisk
    \/ ThreadSync
    \/ Notify
    \/ Shutdown
    \/ Crash
    \/ CrashWriting
    \/ Start

Spec == Init /\ [][Next]_vars

(* The sync thread and the scheduler thread run as long as the process     *)
(* does.                                                                   *)
FairSpec == Spec /\ WF_vars(ThreadSync) /\ WF_vars(Notify)
-----------------------------------------------------------------------------
(* Every pointer, event and locator is of a block, and a notification is   *)
(* never about a chain without blocks.                                     *)
TypeOK ==
    /\ {tip, coinsTip, m_best_block_index, callback, sync.pindex} \subseteq Blocks \cup {NoBlock}
    /\ queue \in Seq([event : {"BlockConnected", "ChainStateFlushed"}, block : Blocks])
    /\ {m_synced, running, sync.first} \subseteq BOOLEAN
    /\ sync.pc \in {"loop", "write", "commit", "done"}
    /\ locators \in Seq(Blocks \cup {NoBlock}) /\ locators # <<>>
    /\ db.rows \in [Keys -> Nat] /\ db.claims \in [Entries -> Blocks \cup {NoBlock, NoRecord}]

(* BlockUntilSyncedToCurrentChain: once the index is synced and the queue  *)
(* has drained, the active chain is part of the chain of the index's best  *)
(* block, whatever reorganisations were in the backlog when the sync       *)
(* thread handed over to the notifications.                                *)
DrainedMeansCaughtUp ==
    (running /\ m_synced /\ queue = <<>> /\ callback = NoBlock) => OnBestChain(tip)

(* A block's rows are in the index: its entries and announcements at its   *)
(* height, and no entry it spends looks unclaimed.                         *)
Indexed(b) ==
    nHeight(b) > 0 =>
        \A t \in ToSet(vtx[b]) :
            /\ \A k \in {out \in Keys : out[1] = t} : db.rows[k] = nHeight(b)
            /\ \A k \in Inputs(t) \cap Entries : db.claims[k] \in Blocks

ChainIndexed(b) == \A c \in ToSet(path[b]) : Indexed(c)

(* The block up to which the index has written its rows. *)
Reached ==
    IF m_synced THEN m_best_block_index
    ELSE IF sync.pc = "loop" THEN sync.pindex ELSE pprev(sync.pindex)

(* The locator is ahead of the rows in three cases: SyncNext has committed *)
(* the block it is about to write, a sync thread interrupted before its    *)
(* first block has committed the tip, or a restart found the chain behind  *)
(* the locator, took the index to be synced, and committed nothing since.  *)
LocatorAhead ==
    /\ Last(locators) # NoBlock /\ ~OnChain(Last(locators), Reached)
    /\ m_synced => sync.first

Complete ==
    /\ running => ChainIndexed(Reached)
    /\ \A k \in DOMAIN locators : ChainIndexed(locators[k])

(* No reorganisation, crash, torn WriteBlock or lost Commit makes the      *)
(* index lose a row of the chain it has reached, or of a chain a restart   *)
(* may resume from, as long as the locator does not run ahead (ThreadSync: *)
(* "index cannot be corrupted by a missed commit to disk for an advanced   *)
(* index state").                                                          *)
StaysComplete ==
    [][(Complete /\ (running => ~LocatorAhead) /\ ~LocatorAhead') => Complete']_vars

(* As long as the process stays up the index catches up with the chain,    *)
(* by the sync thread or by the notifications, and stays there.            *)
EventuallyCaughtUp == <>[]running => <>[](m_synced /\ OnBestChain(tip))

(* base.h: the database stores a locator "of the chain the database is     *)
(* synced to".                                                             *)
LocatorOfSyncedChain == ChainIndexed(Last(locators))

(* BaseIndex::Rewind asserts that it starts from m_best_block_index.       *)
RewindStartsAtBest ==
    (running /\ sync.pc = "loop" /\ NextSyncBlock(sync.pindex) # NoBlock
        /\ pprev(NextSyncBlock(sync.pindex)) # sync.pindex) => sync.pindex = m_best_block_index

(* Init refuses to start when "best block of the index goes beyond pruned  *)
(* data": it never does on a chain that keeps all its blocks.              *)
NothingPrunedStarts ==
    (~running /\ Last(locators) # NoBlock) => ~PruneViolation(FindFork(Last(locators), coinsTip))

(* FindClaim returns the claim of an entry: in a drained index the record  *)
(* of an entry of the active chain names the block of that chain that      *)
(* spends it, if one does.                                                 *)
ClaimRecordsOfChain ==
    (running /\ m_synced /\ queue = <<>> /\ callback = NoBlock /\ m_best_block_index = tip) =>
        \A k \in Entries :
            LET spenders == {b \in ToSet(path[tip]) : \E t \in ToSet(vtx[b]) : k \in Inputs(t)} IN
            db.claims[k] \in Blocks => db.claims[k] \in spenders
=============================================================================
