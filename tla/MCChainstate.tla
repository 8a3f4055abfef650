---------------------------- MODULE MCChainstate ----------------------------
(***************************************************************************)
(* Instances of Chainstate for TLC: one deadpool entry n1 at <<"f", 1>>,   *)
(* and transactions that announce and claim it.                            *)
(***************************************************************************)
EXTENDS Chainstate

Entry(n) == [type |-> "entry", id |-> n, claim |-> "c1", nValue |-> 1]
Ann(n, c, v) == [type |-> "announce", id |-> n, claim |-> c, nValue |-> v]
Change == [type |-> "other", id |-> "n1", claim |-> "c1", nValue |-> 1]
In(t, i, c) == [prevout |-> <<t, i>>, claim |-> c]

MCBaseTxs == {"f"}
MCTxs == {"ann", "cheap", "move", "claim"}
MCIds == {"n1"}
MCClaims == {"c1", "c2"}
MCRootCoins == {<<"f", 1>>, <<"f", 2>>, <<"f", 3>>}

(* "cheap" burns less than the minimum and spends the change of "ann"; so  *)
(* does "move".                                                            *)
MCvin ==
    [t \in MCTxs |-> CASE t = "ann" -> {In("f", 2, "c2")}
                       [] t \in {"cheap", "move"} -> {In("ann", 2, "c2")}
                       [] t = "claim" -> {In("f", 1, "c1"), In("f", 3, "c2")}]
MCvout ==
    [t \in MCTxs \cup MCBaseTxs |->
        CASE t = "f" -> <<Entry("n1"), Change, Change>>
          [] t = "ann" -> <<Ann("n1", "c1", 2), Change>>
          [] t = "cheap" -> <<Ann("n1", "c1", 1)>>
          [] t \in {"move", "claim"} -> <<Change>>]

(* The lists a block may carry, per question asked. *)
VtxReorg == {<<"ann">>, <<"cheap">>, <<"claim">>, <<"ann", "claim">>, <<"ann", "cheap">>}
VtxFaults == {<<"ann", "move">>, <<"ann">>, <<"move">>}
VtxClaim == {<<>>, <<"ann">>, <<"claim">>}
AllVerdicts == {"ok", "before", "after"}
OkVerdicts == {"ok"}
=============================================================================
