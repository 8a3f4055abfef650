----------------------------- MODULE MCMempool -----------------------------
(***************************************************************************)
(* Model values for BlockAssembler.  5 announces for entry n, 2 spends its *)
(* change, 4 spends 2 and announces for n again, and 7 spends 4 and        *)
(* announces for n once more.  3 claims n with the claim that 5 announces, *)
(* and 1 spends both 2 and 3.  6 double-spends the coin of 5 and announces *)
(* the same claim.  Base transaction 0 holds a plain coin and the entry.   *)
(* A child has a smaller number than its parent as often as not.           *)
(***************************************************************************)
EXTENDS BlockAssembler

MCOther == [type |-> "other", id |-> "n", claim |-> "none", nValue |-> 0]
MCEntry == [MCOther EXCEPT !.type = "entry"]
MCAnnounce(c) == [MCOther EXCEPT !.type = "announce", !.claim = c, !.nValue = 1]
MCIn(out) == [prevout |-> out, claim |-> "none"]

MCvin ==
    5 :> {MCIn(<<0, 1>>)} @@
    2 :> {MCIn(<<5, 1>>)} @@
    4 :> {MCIn(<<2, 1>>)} @@
    7 :> {MCIn(<<4, 1>>)} @@
    3 :> {[prevout |-> <<0, 2>>, claim |-> "c"]} @@
    1 :> {MCIn(<<2, 2>>), MCIn(<<3, 1>>)} @@
    6 :> {MCIn(<<0, 1>>)}

MCvout ==
    0 :> <<MCOther, MCEntry>> @@
    5 :> <<MCOther, MCAnnounce("c")>> @@
    2 :> <<MCOther, MCOther>> @@
    4 :> <<MCOther, MCAnnounce("d")>> @@
    7 :> <<MCAnnounce("d")>> @@
    3 :> <<MCOther>> @@
    1 :> <<MCOther>> @@
    6 :> <<MCOther, MCAnnounce("c")>>

MCRootCoins == {<<0, 1>>, <<0, 2>>}
MCVtx == {<<>>, <<5>>, <<5, 2>>, <<2>>, <<2, 4>>, <<3>>, <<6>>}
=============================================================================
