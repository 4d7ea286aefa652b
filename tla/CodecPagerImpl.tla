--------------------------- MODULE CodecPagerImpl ---------------------------
(***************************************************************************)
(* CodecPager implements EncryptedDb.  The committed database is the image *)
(* a recovery would restore.  The open transaction is what its cache, over *)
(* the file, would leave under the write key; once the codec has failed    *)
(* for good it can only be rolled back, and a rollback that has begun is   *)
(* over for the abstract database.                                         *)
(***************************************************************************)
EXTENDS CodecPagerInv

CONSTANTS NoTxn, Failed

DbOf == [key |-> TheKey, content |-> [p \in Page |-> Recovered[p].val]]

(* A page as the transaction sees it.                                      *)
View(p) == IF Cached(p) THEN cache[p].val ELSE file[p].val

TxnOf ==
  IF op \notin {"txn", "rekey", "commit"} THEN NoTxn
  ELSE IF ctx.error THEN Failed
  ELSE [key |-> WriteKey, content |-> [p \in Page |-> View(p)]]

Abstract == INSTANCE EncryptedDb
  WITH Pages <- Page, Keys <- Key, Contents <- Value, db <- DbOf, txn <- TxnOf

ASSUME MarksAssumption ==
  /\ NoTxn \notin [key : Key, content : [Page -> Value]]
  /\ Failed \notin [key : Key, content : [Page -> Value]]
  /\ NoTxn # Failed

(* The connection behaves as a transactional database under one key: a     *)
(* commit publishes exactly what its transaction wrote and its key, and    *)
(* nothing else changes the database (sqlite3_rekey_v2, the commit and     *)
(* rollback of pager.c, hot-journal recovery).                             *)
ImplementsDb == Abstract!DbSpec
=============================================================================
