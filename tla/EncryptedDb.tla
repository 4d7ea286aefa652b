----------------------------- MODULE EncryptedDb ----------------------------
(***************************************************************************)
(* What an encrypted database promises its application: a database under   *)
(* one key, changed only by transactions that happen as a whole, where a   *)
(* change of key is one more thing a transaction may do.                   *)
(***************************************************************************)
CONSTANTS Pages, Keys, Contents, NoTxn, Failed

VARIABLES
  db,  \* the committed database
  txn  \* what the open transaction would commit, NoTxn, or Failed

dbVars == <<db, txn>>

Database == [key : Keys, content : [Pages -> Contents]]

DbInit == db \in Database /\ txn = NoTxn

Begin ==
  /\ txn = NoTxn
  /\ txn' = db
  /\ UNCHANGED db

Write(p, v) ==
  /\ txn \in Database
  /\ txn' = [txn EXCEPT !.content[p] = v]
  /\ UNCHANGED db

(* A rekey opens a transaction unless one is open.                         *)
Rekey(k) ==
  /\ txn # Failed
  /\ txn' = [IF txn = NoTxn THEN db ELSE txn EXCEPT !.key = k]
  /\ UNCHANGED db

(* The library cannot go on with the transaction, or begins one on a codec *)
(* that has already failed: it can only be aborted.                        *)
Fail ==
  /\ txn # Failed
  /\ txn' = Failed
  /\ UNCHANGED db

Commit ==
  /\ txn \in Database
  /\ db' = txn
  /\ txn' = NoTxn

(* A rollback or a crash.                                                  *)
Abort ==
  /\ txn # NoTxn
  /\ txn' = NoTxn
  /\ UNCHANGED db

DbNext ==
  \/ Begin \/ Fail \/ Commit \/ Abort
  \/ \E p \in Pages, v \in Contents : Write(p, v)
  \/ \E k \in Keys : Rekey(k)

DbSpec == DbInit /\ [][DbNext]_dbVars
=============================================================================
