----------------------------- MODULE AnnounceDB -----------------------------
(***************************************************************************)
(* CAnnounceDB (src/src/deadpool/announcedb.cpp): the LevelDB table of the *)
(* deadpool announcements of the active chain.  A row is a record          *)
(*                                                                         *)
(*   [id, locator, height, claim]                                          *)
(*                                                                         *)
(* whose key is (id, locator) -- the hash of the announced integer and the *)
(* outpoint of the announcing output -- and whose value is (height, claim).*)
(* The table is the set of its rows; a write replaces the row with the     *)
(* same key, as CDBBatch::Write does.                                      *)
(***************************************************************************)
EXTENDS Integers

SameKey(r, s) == r.id = s.id /\ r.locator = s.locator

(* The rows of db whose key is none of those of list. *)
RemoveAnnouncements(db, list) == {r \in db : \A a \in list : ~SameKey(r, a)}

(* One batch: every announcement of list, over any row with its key. *)
AddAnnouncements(db, list) == RemoveAnnouncements(db, list) \cup list

(* Mutant: the announcements that have expired count. *)
ClaimExistsExpired(db, hash, claim, minHeight, maxHeight) ==
    \E r \in db : r.id = hash /\ r.height <= maxHeight /\ r.claim = claim

(* ClaimExists walks the rows whose key starts with hash and stops at the  *)
(* first one that carries the claim and whose height is in the window.     *)
ClaimExists(db, hash, claim, minHeight, maxHeight) ==
    \E r \in db : /\ r.id = hash
                  /\ minHeight <= r.height
                  /\ r.height <= maxHeight
                  /\ r.claim = claim
=============================================================================
