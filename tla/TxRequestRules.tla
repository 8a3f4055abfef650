--------------------------- MODULE TxRequestRules ---------------------------
(***************************************************************************)
(* What TxRequestTracker promises: the rules of its header, over the       *)
(* simple structure that its fuzz test compares it with (class Tester of   *)
(* src/test/fuzz/txrequest.cpp).  At most one announcement is kept for a   *)
(* peer and a transaction hash.  It is a CANDIDATE, whose time is the      *)
(* earliest moment to ask that peer, REQUESTED, whose time is the expiry   *)
(* of the request, or COMPLETED.                                           *)
(*                                                                         *)
(* There is no order among the candidates of a hash but their priority,    *)
(* and nothing is precomputed: a request looks at all of them.             *)
(***************************************************************************)
EXTENDS Integers

CONSTANTS Peers,        \* the node ids
          Hashes,       \* txids and wtxids
          Times,        \* the values of the clock, a set of naturals
          prio          \* the priority of a peer for a hash, a top bit for preferred peers

VARIABLES announcements,    \* the state != NOTHING entries of m_announcements
          clock             \* m_now

States == {"CANDIDATE", "REQUESTED", "COMPLETED"}

Announcements == [txhash : Hashes, peer : Peers, time : Times, state : States]

\* Cleanup: a hash that has only COMPLETED announcements left loses them all.
Cleanup(anns, h) ==
    IF \E a \in anns : a.txhash = h /\ a.state # "COMPLETED"
    THEN anns
    ELSE {a \in anns : a.txhash # h}

\* The time of a COMPLETED announcement is never looked at again.
Completed(anns, a) ==
    Cleanup((anns \ {a}) \cup {[a EXCEPT !.state = "COMPLETED", !.time = 0]}, a.txhash)

\* a is the announcement GetSelected returns for its hash.
Selected(anns, a) ==
    /\ a.state = "CANDIDATE"
    /\ a.time <= clock
    /\ \A b \in anns :
          b.txhash = a.txhash =>
             /\ b.state # "REQUESTED"
             /\ b.state = "CANDIDATE" /\ b.time <= clock =>
                   prio[b.txhash][b.peer] <= prio[a.txhash][a.peer]

Init == announcements = {} /\ clock \in Times

ReceivedInv(p, h, reqtime) ==
    /\ \A a \in announcements : a.txhash # h \/ a.peer # p
    /\ announcements' = announcements \cup
          {[txhash |-> h, peer |-> p, time |-> reqtime, state |-> "CANDIDATE"]}
    /\ UNCHANGED clock

\* A request is made only from the announcement that the rules select.
RequestedTx(a, exptime) ==
    /\ Selected(announcements, a)
    /\ announcements' = (announcements \ {a}) \cup
          {[a EXCEPT !.state = "REQUESTED", !.time = exptime]}
    /\ UNCHANGED clock

\* The first part of GetRequestable: a request that passed its expiry failed.
Expire(a) ==
    /\ a.state = "REQUESTED" /\ a.time <= clock
    /\ announcements' = Completed(announcements, a)
    /\ UNCHANGED clock

ReceivedResponse(a) ==
    /\ a.state # "COMPLETED"
    /\ announcements' = Completed(announcements, a)
    /\ UNCHANGED clock

ForgetTxHash(h) ==
    /\ announcements' = {a \in announcements : a.txhash # h}
    /\ UNCHANGED clock

\* One announcement of a peer that went offline.
DisconnectedPeer(a) ==
    /\ announcements' = Cleanup(announcements \ {a}, a.txhash)
    /\ UNCHANGED clock

\* The clock can move forward and backward.
AdvanceTime == clock' \in Times /\ UNCHANGED announcements

Next ==
    \/ \E p \in Peers, h \in Hashes, t \in Times : ReceivedInv(p, h, t)
    \/ \E a \in announcements :
          \/ \E t \in Times : RequestedTx(a, t)
          \/ Expire(a)
          \/ ReceivedResponse(a)
          \/ DisconnectedPeer(a)
    \/ \E h \in Hashes : ForgetTxHash(h)
    \/ AdvanceTime

Spec == Init /\ [][Next]_<<announcements, clock>>
=============================================================================
