------------------------------ MODULE Deadpool ------------------------------
(***************************************************************************)
(* Deadpool transactions (src/src/deadpool/deadpool.cpp) and the rule that *)
(* a claim must have been announced (DeadpoolClaimIsAnnounced).            *)
(*                                                                         *)
(* A transaction is a member t of Txs.  vin[t] is the set of its inputs,   *)
(* records [prevout, claim] where claim is what GetClaimHashFromScriptSig  *)
(* reads from the scriptSig.  vout[t] is the sequence of its outputs,      *)
(* records [type, id, claim, nValue]: the type is Solver's answer, id the  *)
(* SHA256 of the integer N of an entry or announcement, claim the claim    *)
(* hash of an announcement.  An outpoint is a pair <<t, i>>.  Hashes are   *)
(* taken to be collision free, so that id stands for N itself.             *)
(***************************************************************************)
EXTENDS Integers, Sequences, AnnounceDB

CONSTANTS
    Txs,                        \* the non-coinbase transactions of the blocks under study
    BaseTxs,                    \* the transactions confirmed before them
    Ids,                        \* the hashes of the deadpool integers
    Claims,                     \* the claim hashes
    vin,
    vout,
    nDeadpoolAnnounceMaturity,
    nDeadpoolAnnounceValidity,
    nDeadpoolAnnounceMinBurn

TxOut == [type : {"entry", "announce", "other"}, id : Ids, claim : Claims, nValue : Nat]

OutPoint == (Txs \cup BaseTxs) \X Nat

(* Every transaction spends something: only a coinbase has no input that   *)
(* refers to an output, and CheckTransaction rejects two inputs that spend *)
(* the same output (bad-txns-inputs-duplicate).                            *)
ASSUME TxAssumption ==
    /\ vin \in [Txs -> SUBSET [prevout : OutPoint, claim : Claims]]
    /\ Txs \cap BaseTxs = {}
    /\ vout \in [Txs \cup BaseTxs -> Seq(TxOut)]
    /\ \A t \in Txs : vin[t] # {}
    /\ \A t \in Txs : \A i, j \in vin[t] : i.prevout = j.prevout => i = j

ASSUME ParamsAssumption ==
    /\ nDeadpoolAnnounceMaturity \in Nat
    /\ nDeadpoolAnnounceValidity \in Nat
    /\ nDeadpoolAnnounceMinBurn \in Nat
-----------------------------------------------------------------------------
IsDeadpoolEntry(txout) == txout.type = "entry"

IsDeadpoolAnnouncement(txout) == txout.type = "announce"

(* CScript::IsUnspendable: an output that starts with OP_ANNOUNCE burns    *)
(* its value and never enters the coins view.                              *)
IsUnspendable(txout) == IsDeadpoolAnnouncement(txout)

(* The output that an outpoint names. *)
TxOutAt(out) == vout[out[1]][out[2]]

Inputs(t) == {i.prevout : i \in vin[t]}

(* The coins AddCoins creates for a transaction: AddCoin drops the         *)
(* unspendable outputs.                                                    *)
Outputs(t) == {out \in {t} \X DOMAIN vout[t] : ~IsUnspendable(TxOutAt(out))}

(* ExtractAnnouncements: the announcements of a transaction as rows of the *)
(* announcement database, at the given height.                             *)
ExtractAnnouncements(t, nHeight) ==
    {[id |-> vout[t][i].id, locator |-> <<t, i>>, height |-> nHeight, claim |-> vout[t][i].claim] :
        i \in {j \in DOMAIN vout[t] : IsDeadpoolAnnouncement(vout[t][j])}}

(* ContextualCheckBlock: one announcement per deadpool entry in a block.   *)
NoMultipleAnnouncements(vtx) ==
    LET anns == UNION {ExtractAnnouncements(vtx[k], 0) : k \in DOMAIN vtx}
    IN  \A a1, a2 \in anns : a1.id = a2.id => a1 = a2

(* The announcements whose burned value reaches the minimum of the chain,  *)
(* the only ones ConnectBlock writes to the database.                      *)
BurnsEnough(a) == TxOutAt(a.locator).nValue >= nDeadpoolAnnounceMinBurn

DeadpoolAnnounceMaxAge == nDeadpoolAnnounceMaturity + nDeadpoolAnnounceValidity

(* The heights at which an announcement counts for a claim checked against *)
(* nTargetHeight; never below block 1, since genesis outputs are invalid.  *)
MinAnnounceHeight(nTargetHeight) ==
    IF nTargetHeight - DeadpoolAnnounceMaxAge > 1
    THEN nTargetHeight - DeadpoolAnnounceMaxAge
    ELSE 1

MaxAnnounceHeight(nTargetHeight) == nTargetHeight - nDeadpoolAnnounceMaturity

(* DeadpoolClaimIsAnnounced: every input that spends a deadpool entry has  *)
(* an announcement of the same entry and claim in the window.              *)
DeadpoolClaimIsAnnounced(t, anndb, nTargetHeight) ==
    \A i \in vin[t] :
        IsDeadpoolEntry(TxOutAt(i.prevout)) =>
            ClaimExists(anndb, TxOutAt(i.prevout).id, i.claim,
                        MinAnnounceHeight(nTargetHeight), MaxAnnounceHeight(nTargetHeight))
=============================================================================
