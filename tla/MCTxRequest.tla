---------------------------- MODULE MCTxRequest ----------------------------
(***************************************************************************)
(* Three peers, of which 1 is preferred and relays by wtxid, all announce  *)
(* the transaction "a".  It spends an output of "b": a peer that sends "a" *)
(* when "b" is missing is taken to announce "b".                           *)
(***************************************************************************)
EXTENDS TxRequestTracker, TLC

MCTxs == {[txid |-> "a", wtxid |-> "a", parents |-> <<"b">>]}

MCInvs == {<<1, "a">>, <<2, "a">>, <<3, "a">>}

MClow_bits == [h \in {"a", "b"} |-> 1 :> 0 @@ 2 :> 1 @@ 3 :> 2]
=============================================================================
