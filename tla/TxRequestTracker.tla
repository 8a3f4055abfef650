-------------------------- MODULE TxRequestTracker --------------------------
(***************************************************************************)
(* The download of announced transactions: TxRequestTracker (txrequest.h,  *)
(* txrequest.cpp) and the code of net_processing.cpp that calls it.        *)
(*                                                                         *)
(* The tracker splits CANDIDATE into three states and keeps, for every     *)
(* hash, the best announcement whose time has come marked CANDIDATE_BEST,  *)
(* so that a peer's requests are found without looking at the other peers. *)
(* Every operation has to repair the marks it disturbs.  GetRequestable    *)
(* first moves the structure to the present: a loop over what has become   *)
(* due, then, since the clock may have been set back, a loop over what is  *)
(* no longer due.  Each turn of these loops is a step here, and so is each *)
(* call a message handler makes; cs_main is held from the first to the     *)
(* last, and no other handler's step comes between.                        *)
(*                                                                         *)
(* Left out: the sequence numbers, which only order the hashes that        *)
(* GetRequestable returns (they are asked for in any order here), and      *)
(* m_peerinfo, whose counters are counted on the announcements instead.    *)
(***************************************************************************)
EXTENDS Integers, FiniteSets, Sequences

CONSTANTS
    Peers,          \* the node ids (an id is never used again)
    NoPeer,         \* no peer
    Hashes,         \* txids and wtxids
    Txs,            \* transactions: records of txid, wtxid and the txids of the parents
    Invs,           \* <<peer, hash>>: the transactions a peer announces
    Preferred,      \* the peers with fPreferredDownload
    WtxidRelay,     \* the peers with m_wtxid_relay
    Relay,          \* the peers with NetPermissionFlags::Relay
    low_bits,       \* the salted hash of a peer and a transaction hash
    TopBit,         \* the bit a preferred peer's priority has on top of it
    NONPREF_PEER_TX_DELAY,
    TXID_RELAY_DELAY,
    OVERLOADED_PEER_TX_DELAY,
    GETDATA_TX_INTERVAL,
    MAX_PEER_TX_REQUEST_IN_FLIGHT,
    MAX_PEER_TX_ANNOUNCEMENTS,
    MaxTime,        \* bound: the end of the clock, when every deadline has passed
    MaxSetBacks     \* bound: how often the clock is set back

Times == 0..MaxTime

ASSUME TxRequestAssumption ==
    /\ MaxTime \in Nat /\ MaxSetBacks \in Nat /\ TopBit \in Nat
    /\ {NONPREF_PEER_TX_DELAY, TXID_RELAY_DELAY, OVERLOADED_PEER_TX_DELAY, GETDATA_TX_INTERVAL} \subseteq Nat
    /\ Txs \subseteq [txid : Hashes, wtxid : Hashes, parents : Seq(Hashes)]
    /\ Invs \subseteq Peers \X Hashes
    \* the salted hash tells the peers of a transaction apart
    /\ low_bits \in [Hashes -> [Peers -> Nat]]
    /\ \A h \in Hashes : \A p, q \in Peers : low_bits[h][p] = low_bits[h][q] => p = q
    /\ \A h \in Hashes : \A p \in Peers : low_bits[h][p] < TopBit
    \* and of several peers, one comes first
    /\ \A h \in Hashes : \A S \in SUBSET Peers :
          S # {} => \E p \in S : \A q \in S : low_bits[h][q] <= low_bits[h][p]

VARIABLES
    m_index,        \* the announcements
    at,             \* where GetRequestable or DisconnectedPeer is, "idle" when neither runs
    peer,           \* the peer it runs for, NoPeer when neither runs
    requestable,    \* the hashes GetRequestable returned and SendMessages has yet to ask for
    calls,          \* the tracker calls that the handler holding cs_main has yet to make
    have,           \* the hashes for which AlreadyHaveTx answers true
    online,         \* the connected peers
    clock,          \* GetTime
    setbacks        \* how often the clock was set back

vars == <<m_index, at, peer, requestable, calls, have, online, clock, setbacks>>

handler == <<at, peer, requestable, calls>>
world == <<have, online, clock, setbacks>>

States == {"DELAYED", "READY", "BEST", "REQUESTED", "COMPLETED"}

Announcement == [txhash : Hashes, peer : Peers, time : Times, state : States]

Call ==
    [fn : {"AddTxAnnouncement"}, peer : Peers, hash : Hashes, is_wtxid : BOOLEAN] \cup
    [fn : {"ReceivedResponse"}, peer : Peers, hash : Hashes] \cup
    [fn : {"ForgetTxHash"}, hash : Hashes]

-----------------------------------------------------------------------------
(* The tracker's operations on its index of announcements.                 *)

IsSelected(a) == a.state \in {"BEST", "REQUESTED"}

IsWaiting(a) == a.state \in {"REQUESTED", "DELAYED"}

IsSelectable(a) == a.state \in {"READY", "BEST"}

prio == [h \in Hashes |-> [p \in Peers |-> low_bits[h][p] + (IF p \in Preferred THEN TopBit ELSE 0)]]

Priority(a) == prio[a.txhash][a.peer]

\* A sum of times, cut off at the end of the clock.
Later(t, d) == IF t + d <= MaxTime THEN t + d ELSE MaxTime

\* The time of a COMPLETED announcement is not looked at again.
SetState(a, s) ==
    IF s = "COMPLETED" THEN [a EXCEPT !.state = s, !.time = 0] ELSE [a EXCEPT !.state = s]

Modify(index, a, s) == (index \ {a}) \cup {SetState(a, s)}

\* The highest-priority READY announcements of a hash: at most one, as priorities differ.
BestReady(index, h) ==
    {b \in index : /\ b.txhash = h /\ b.state = "READY"
                   /\ \A c \in index : c.txhash = h /\ c.state = "READY" => Priority(c) <= Priority(b)}

(* Mutant: the first announcement to be ready stays the best one. *)
PromoteBehindBest(index, a) ==
    IF \E b \in index \ {a} : b.txhash = a.txhash /\ IsSelected(b)
    THEN Modify(index, a, "READY") ELSE Modify(index, a, "BEST")

\* PromoteCandidateReady looks at the announcement that follows in the order of
\* ByTxHash: a better READY one, else the selected one, else a COMPLETED one or none.
PromoteCandidateReady(index, a) ==
    LET others == {b \in index \ {a} : b.txhash = a.txhash}
        better == {b \in others : b.state = "READY" /\ Priority(b) > Priority(a)}
        selected == {b \in others : IsSelected(b)}
        beaten == {b \in selected : b.state = "BEST" /\ Priority(a) > Priority(b)}
    IN  IF better = {} /\ selected = beaten
        THEN (index \ ({a} \cup beaten)) \cup {SetState(a, "BEST")} \cup {SetState(b, "READY") : b \in beaten}
        ELSE Modify(index, a, "READY")

(* Mutant: nothing takes the place of the selected announcement. *)
ChangeOnly(index, a, s) == Modify(index, a, s)

ChangeAndReselect(index, a, s) ==
    LET next == IF IsSelected(a) THEN BestReady(index, a.txhash) ELSE {}
    IN  (index \ ({a} \cup next)) \cup {SetState(a, s)} \cup {SetState(b, "BEST") : b \in next}

(* Mutant: only the announcements after this one are looked at. *)
IsLastNonCompleted(index, a) ==
    \A b \in index \ {a} : b.txhash = a.txhash => b.state \in {"DELAYED", "READY", "COMPLETED"}

IsOnlyNonCompleted(index, a) ==
    \A b \in index \ {a} : b.txhash = a.txhash => b.state = "COMPLETED"

ForgetTxHash(index, h) == {a \in index : a.txhash # h}

(* Mutant: failed announcements stay when they are the only ones. *)
MakeCompletedKeeps(index, a) ==
    IF a.state = "COMPLETED" THEN index ELSE ChangeAndReselect(index, a, "COMPLETED")

MakeCompleted(index, a) ==
    IF a.state = "COMPLETED" THEN index
    ELSE IF IsOnlyNonCompleted(index, a) THEN ForgetTxHash(index, a.txhash)
    ELSE ChangeAndReselect(index, a, "COMPLETED")

\* ByPeer is a unique index on (peer, is BEST, hash): a look for a BEST one, and
\* an emplace that fails when there is another one.
ReceivedInv(index, p, h, reqtime) ==
    LET found(best) == \E a \in index : a.peer = p /\ a.txhash = h /\ (a.state = "BEST") = best
    IN  IF found(TRUE) \/ found(FALSE) THEN index
        ELSE index \cup {[txhash |-> h, peer |-> p, time |-> reqtime, state |-> "DELAYED"]}

ReceivedResponse(index, p, h) ==
    LET found == {a \in index : a.peer = p /\ a.txhash = h}
    IN  IF found = {} THEN index ELSE MakeCompleted(index, CHOOSE a \in found : TRUE)

\* When the announcement is not the BEST one, the one selected for its hash
\* gives way: a BEST one becomes READY, a REQUESTED one COMPLETED.
RequestedTx(index, a, expiry) ==
    LET old == {b \in index \ {a} : a.state # "BEST" /\ b.txhash = a.txhash /\ IsSelected(b)}
    IN  IF a.state \in {"REQUESTED", "COMPLETED"} THEN index
        ELSE (index \ ({a} \cup old))
             \cup {[a EXCEPT !.state = "REQUESTED", !.time = expiry]}
             \cup {SetState(b, IF b.state = "BEST" THEN "READY" ELSE "COMPLETED") : b \in old}

Count(index, p) == Cardinality({a \in index : a.peer = p})

CountInFlight(index, p) == Cardinality({a \in index : a.peer = p /\ a.state = "REQUESTED"})

-----------------------------------------------------------------------------
(* The handlers of net_processing.cpp.                                     *)

Idle == at = "idle" /\ calls = <<>>

Forget(h) == [fn |-> "ForgetTxHash", hash |-> h]

Respond(p, h) == [fn |-> "ReceivedResponse", peer |-> p, hash |-> h]

Announce(p, h, w) == [fn |-> "AddTxAnnouncement", peer |-> p, hash |-> h, is_wtxid |-> w]

Delay(p, is_wtxid) ==
    (IF p \in Preferred THEN 0 ELSE NONPREF_PEER_TX_DELAY)
    + (IF ~is_wtxid /\ online \cap WtxidRelay # {} THEN TXID_RELAY_DELAY ELSE 0)
    + (IF p \notin Relay /\ CountInFlight(m_index, p) >= MAX_PEER_TX_REQUEST_IN_FLIGHT
       THEN OVERLOADED_PEER_TX_DELAY ELSE 0)

AddTxAnnouncement(p, h, is_wtxid) ==
    IF p \notin Relay /\ Count(m_index, p) >= MAX_PEER_TX_ANNOUNCEMENTS
    THEN m_index
    ELSE ReceivedInv(m_index, p, h, Later(clock, Delay(p, is_wtxid)))

\* The index after a tracker call.  A transaction that the node has is not announced.
Called(c) ==
    CASE c.fn = "AddTxAnnouncement" ->
            IF c.hash \in have THEN m_index ELSE AddTxAnnouncement(c.peer, c.hash, c.is_wtxid)
      [] c.fn = "ReceivedResponse" -> ReceivedResponse(m_index, c.peer, c.hash)
      [] c.fn = "ForgetTxHash" -> ForgetTxHash(m_index, c.hash)

\* A handler makes a call, and leaves the others to do.
Handle(c, others) ==
    /\ m_index' = Called(c) /\ calls' = others
    /\ UNCHANGED <<at, peer, requestable, online, clock, setbacks>>

MakeCall ==
    /\ at = "idle" /\ calls # <<>>
    /\ Handle(Head(calls), Tail(calls)) /\ UNCHANGED have

\* An inv message.  A peer announces wtxids iff it negotiated wtxidrelay.
Inv(p, h) ==
    /\ Idle /\ p \in online
    /\ Handle(Announce(p, h, p \in WtxidRelay), <<>>) /\ UNCHANGED have

\* The hashes that a verdict on a received transaction makes known, and forgotten.
Known(tx, verdict) ==
    CASE verdict = "INVALID" -> <<tx.wtxid>>
      [] verdict = "WITNESS_STRIPPED" -> <<>>
      [] OTHER -> <<tx.txid, tx.wtxid>>

Verdicts == {"VALID", "MISSING_INPUTS", "REJECTED_PARENTS", "INPUTS_NOT_STANDARD", "INVALID", "WITNESS_STRIPPED"}

\* The calls that follow a verdict.  A transaction that misses inputs has its
\* parents announced by the peer that sent it, by txid.
VerdictCalls(p, tx, verdict) ==
    LET parents == IF verdict = "MISSING_INPUTS" THEN tx.parents ELSE <<>>
        known == Known(tx, verdict)
    IN  [i \in 1..Len(parents) |-> Announce(p, parents[i], FALSE)]
        \o [i \in 1..Len(known) |-> Forget(known[i])]

\* A tx message answers the requests for both hashes; a transaction that the
\* node has is not looked at further.
TxMessage(p, tx, verdict) ==
    LET witness == IF tx.txid # tx.wtxid THEN <<Respond(p, tx.wtxid)>> ELSE <<>>
        known == Known(tx, verdict)
    IN  /\ Idle /\ p \in online
        /\ \/ /\ tx.wtxid \in have
              /\ Handle(Respond(p, tx.txid), witness) /\ UNCHANGED have
           \/ /\ tx.wtxid \notin have
              /\ Handle(Respond(p, tx.txid), witness \o VerdictCalls(p, tx, verdict))
              /\ have' = have \cup {known[i] : i \in 1..Len(known)}

NotFound(p, h) ==
    /\ Idle /\ p \in online
    /\ Handle(Respond(p, h), <<>>) /\ UNCHANGED have

BlockConnected(tx) ==
    /\ Idle
    /\ Handle(Forget(tx.txid), <<Forget(tx.wtxid)>>)
    /\ have' = have \cup {tx.txid, tx.wtxid}

\* A transaction becomes known without the tracker being told (an orphan that
\* is accepted or rejected, a block whose callback is half done, a transaction of
\* the wallet), or is no longer known (the rejects are reset at a new tip, an
\* orphan or a transaction of the pool is evicted).
HaveChanges(tx) ==
    /\ Idle
    /\ have' \in {have \cup {tx.txid, tx.wtxid}, have \ {tx.txid, tx.wtxid}} /\ have' # have
    /\ UNCHANGED <<m_index, handler, online, clock, setbacks>>

Tick ==
    /\ Idle /\ clock < MaxTime
    /\ clock' = clock + 1
    /\ UNCHANGED <<m_index, handler, have, online, setbacks>>

SetBack ==
    /\ Idle /\ setbacks < MaxSetBacks
    /\ clock' \in {t \in Times : t < clock} /\ setbacks' = setbacks + 1
    /\ UNCHANGED <<m_index, handler, have, online>>

FinalizeNode(p) ==
    /\ Idle /\ p \in online
    /\ online' = online \ {p} /\ at' = "disconnect" /\ peer' = p
    /\ UNCHANGED <<m_index, requestable, calls, have, clock, setbacks>>

\* A turn of the loop of DisconnectedPeer, and its end.
DisconnectedPeer ==
    /\ at = "disconnect"
    /\ LET mine == {a \in m_index : a.peer = peer}
       IN  IF mine = {} THEN at' = "idle" /\ peer' = NoPeer /\ UNCHANGED m_index
           ELSE /\ \E a \in mine : m_index' = MakeCompleted(m_index, a) \ {SetState(a, "COMPLETED")}
                /\ UNCHANGED <<at, peer>>
    /\ UNCHANGED <<requestable, calls, world>>

\* SendMessages gets to the getdata part, and GetRequestable starts.
SendMessages(p) ==
    /\ Idle /\ p \in online
    /\ at' = "forward" /\ peer' = p
    /\ UNCHANGED <<m_index, requestable, calls, world>>

(* Mutant: a request that timed out is a candidate again. *)
ForwardRetries ==
    /\ at = "forward"
    /\ \E a \in m_index :
          /\ IsWaiting(a) /\ a.time <= clock
          /\ m_index' = IF a.state = "DELAYED" THEN PromoteCandidateReady(m_index, a)
                        ELSE PromoteCandidateReady(Modify(m_index, a, "DELAYED"), SetState(a, "DELAYED"))
    /\ UNCHANGED <<handler, world>>

\* The first loop of SetTimePoint: the waiting announcement with the earliest
\* time, as long as that time has come.
Forward ==
    /\ at = "forward"
    /\ \E a \in m_index :
          /\ IsWaiting(a) /\ a.time <= clock
          /\ \A b \in m_index : IsWaiting(b) => a.time <= b.time
          /\ m_index' = IF a.state = "DELAYED" THEN PromoteCandidateReady(m_index, a) ELSE MakeCompleted(m_index, a)
    /\ UNCHANGED <<handler, world>>

ForwardDone ==
    /\ at = "forward"
    /\ \A a \in m_index : IsWaiting(a) => a.time > clock
    /\ at' = "backward"
    /\ UNCHANGED <<m_index, peer, requestable, calls, world>>

\* The second loop: the selectable announcement with the latest time, as long
\* as that time is yet to come.
Backward ==
    /\ at = "backward"
    /\ \E a \in m_index :
          /\ IsSelectable(a) /\ a.time > clock
          /\ \A b \in m_index : IsSelectable(b) => b.time <= a.time
          /\ m_index' = ChangeAndReselect(m_index, a, "DELAYED")
    /\ UNCHANGED <<handler, world>>

\* The end of GetRequestable: the BEST announcements of the peer.
Select ==
    /\ at = "backward"
    /\ \A a \in m_index : IsSelectable(a) => a.time <= clock
    /\ requestable' = {a.txhash : a \in {b \in m_index : b.peer = peer /\ b.state = "BEST"}}
    /\ at' = "request"
    /\ UNCHANGED <<m_index, peer, calls, world>>

\* A turn of the loop of SendMessages over what GetRequestable returned.
Request(h) ==
    /\ at = "request" /\ h \in requestable
    /\ IF h \in have
       THEN m_index' = ForgetTxHash(m_index, h)
       ELSE \E a \in m_index :
               /\ a.peer = peer /\ a.txhash = h
               /\ m_index' = RequestedTx(m_index, a, Later(clock, GETDATA_TX_INTERVAL))
    /\ requestable' = requestable \ {h}
    /\ UNCHANGED <<at, peer, calls, world>>

Requested ==
    /\ at = "request" /\ requestable = {}
    /\ at' = "idle" /\ peer' = NoPeer
    /\ UNCHANGED <<m_index, requestable, calls, world>>

Init ==
    /\ m_index = {} /\ at = "idle" /\ peer = NoPeer /\ requestable = {} /\ calls = <<>>
    /\ have = {} /\ online = Peers /\ clock = 0 /\ setbacks = 0

\* What the message handler thread does once a handler has started.
Steps ==
    \/ MakeCall
    \/ DisconnectedPeer
    \/ Forward \/ ForwardDone \/ Backward \/ Select
    \/ \E h \in Hashes : Request(h)
    \/ Requested

Environment ==
    \/ \E i \in Invs : Inv(i[1], i[2])
    \/ \E p \in Peers, tx \in Txs, verdict \in Verdicts : TxMessage(p, tx, verdict)
    \/ \E p \in Peers, h \in Hashes : NotFound(p, h)
    \/ \E tx \in Txs : BlockConnected(tx) \/ HaveChanges(tx)
    \/ \E p \in Peers : FinalizeNode(p)
    \/ SetBack

Next ==
    \/ Steps
    \/ Environment
    \/ Tick
    \/ \E p \in Peers : SendMessages(p)

Spec == Init /\ [][Next]_vars

\* A handler that has cs_main finishes, ThreadMessageHandler calls SendMessages for
\* every peer again and again however many handlers run in between, and time passes
\* whatever runs.
FairSpec ==
    /\ Spec
    /\ WF_vars(Steps)
    /\ SF_vars(Tick)
    /\ \A p \in Peers : SF_vars(SendMessages(p))

-----------------------------------------------------------------------------
(* Properties.                                                             *)

\* The variables have the types of the code.
TypeOK ==
    /\ m_index \subseteq Announcement
    /\ at \in {"idle", "disconnect", "forward", "backward", "request"}
    /\ peer \in Peers \cup {NoPeer}
    /\ requestable \subseteq Hashes
    /\ calls \in Seq(Call)
    /\ have \subseteq Hashes
    /\ online \subseteq Peers
    /\ clock \in Times
    /\ setbacks \in 0..MaxSetBacks

Sane(index) ==
    \A a \in index :
       /\ \A b \in index :
             /\ b.txhash = a.txhash /\ b.peer = a.peer => b = a
             /\ b.txhash = a.txhash /\ IsSelected(a) /\ IsSelected(b) => b = a
             /\ b.txhash = a.txhash /\ a.state = "READY" /\ b.state = "BEST" => Priority(a) <= Priority(b)
       /\ \E b \in index : b.txhash = a.txhash /\ b.state # "COMPLETED"
       /\ a.state = "READY" => \E b \in index : b.txhash = a.txhash /\ IsSelected(b)

\* The assertions of TxRequestTracker::Impl::SanityCheck, and after every turn of its
\* loops too: a peer has one announcement of a hash; a hash does not have COMPLETED
\* announcements only; at most one announcement is selected, and one is when any is
\* READY; and the BEST one has at least the priority of every READY one.
SanityCheck == Sane(m_index)

\* An announcement of the naive structure, whose CANDIDATE state is not split.
Plain(a) == [a EXCEPT !.state = IF @ \in {"DELAYED", "READY", "BEST"} THEN "CANDIDATE" ELSE @]

Naive(index) == {Plain(a) : a \in index}

Rules == INSTANCE TxRequestRules WITH announcements <- Naive(m_index)

\* GetRequestable returns what the naive reimplementation of its fuzz test computes:
\* when its two loops are done, the announcements marked BEST are exactly the ones
\* that the rules select, for every peer and whatever the clock did.
BestIsSelected ==
    at = "backward" /\ (\A a \in m_index : IsSelectable(a) => a.time <= clock) =>
       \A a \in m_index : a.state = "BEST" <=> Rules!Selected(Naive(m_index), Plain(a))

\* The tracker follows the rules of its header: every request goes to the peer the
\* rules select at that time, and every other step changes the announcements as the
\* naive structure does.
FollowsTheRules == Rules!Spec

State(p, h) == {a.state : a \in {b \in m_index : b.peer = p /\ b.txhash = h}}

\* "The same transaction is never requested twice from the same peer, unless the
\* announcement was forgotten in between": one that was requested or is COMPLETED
\* is never a candidate again.
NeverRequestedTwice ==
    [][\A p \in Peers, h \in Hashes :
          /\ State(p, h) = {"REQUESTED"} => State(p, h)' \in {{"REQUESTED"}, {"COMPLETED"}, {}}
          /\ State(p, h) = {"COMPLETED"} => State(p, h)' \in {{"COMPLETED"}, {}}]_vars

\* "Announcements are forgotten only": when the peer is offline, when the node has
\* the transaction, or when no announcement of the hash is left that has not failed.
ForgottenForAReason ==
    [][\A a \in m_index :
          State(a.peer, a.txhash)' = {} =>
             \/ a.peer \notin online
             \/ a.txhash \in have'
             \/ /\ m_index' = ForgetTxHash(m_index, a.txhash)
                /\ \E b \in m_index : \A c \in m_index \ {b} : c.txhash = a.txhash => c.state = "COMPLETED"]_vars

\* No peer can keep a transaction from being asked of another: an announcement does
\* not stay a candidate for ever.  In the end its peer is asked, or it is forgotten.
EveryCandidateServed ==
    \A i \in Invs :
       (State(i[1], i[2]) \cap {"DELAYED", "READY", "BEST"} # {})
          ~> (State(i[1], i[2]) \cap {"DELAYED", "READY", "BEST"} = {})

=============================================================================
