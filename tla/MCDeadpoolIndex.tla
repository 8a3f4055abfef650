-------------------------- MODULE MCDeadpoolIndex --------------------------
(***************************************************************************)
(* Two branches on block 2, the child of the genesis block 1: 3, 4 and 5.  *)
(* Transaction 1 holds an entry and an announcement, and transaction 2     *)
(* claims the entry and makes an announcement of its own.  They are in     *)
(* blocks 3 and 4 of the one branch and both in block 5 of the other.      *)
(***************************************************************************)
EXTENDS DeadpoolIndex

MCOther == [type |-> "other", id |-> "n", claim |-> "c", nValue |-> 0]

MCvin == 1 :> {[prevout |-> <<0, 1>>, claim |-> "c"]} @@ 2 :> {[prevout |-> <<1, 1>>, claim |-> "c"]}

MCvout ==
    0 :> <<MCOther>> @@
    1 :> <<[MCOther EXCEPT !.type = "entry"], [MCOther EXCEPT !.type = "announce"]>> @@
    2 :> <<[MCOther EXCEPT !.type = "announce"]>>

MCpath ==
    0 :> <<>> @@ 1 :> <<1>> @@ 2 :> <<1, 2>> @@ 3 :> <<1, 2, 3>> @@ 4 :> <<1, 2, 3, 4>> @@ 5 :> <<1, 2, 5>>

MCvtx == <<<<>>, <<>>, <<1>>, <<2>>, <<1, 2>>>>
=============================================================================
