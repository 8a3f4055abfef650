-------------------------- MODULE MCChainSelection --------------------------
(***************************************************************************)
(* Instances of ChainSelection for TLC.                                    *)
(***************************************************************************)
EXTENDS ChainSelection

UnitProofs == [b \in Blocks |-> {1}]

(* The last block may be worth two of the others. *)
LastMayWeighTwo == [b \in Blocks |-> IF b = MaxBlocks THEN {1, 2} ELSE {1}]

LastWeighsTwo == [b \in Blocks |-> {IF b = MaxBlocks THEN 2 ELSE 1}]

AllOk == [b \in Blocks |-> {"ok"}]

(* Any block may fail to connect; the first may fail its contextual check. *)
AnyVerdict == [b \in Blocks |-> IF b = 1 THEN {"ok", "connect", "contextual"} ELSE {"ok", "connect"}]

(* Any block but the first may fail to connect. *)
LaterMayFail == [b \in Blocks |-> IF b = 1 THEN {"ok"} ELSE {"ok", "connect"}]

(* The last block may fail to connect. *)
LastMayFail == [b \in Blocks |-> IF b = MaxBlocks THEN {"ok", "connect"} ELSE {"ok"}]

(* Later blocks are allocated below earlier ones. *)
Downwards == [b \in Blocks \cup {Root} |-> MaxBlocks - b]
=============================================================================
