------------------------------ MODULE SnapshotDb ------------------------------
(***************************************************************************)
(* What a database in WAL mode promises the connections that share it,     *)
(* also when one of their processes dies: a read transaction has the       *)
(* version committed last when it began and keeps it, a commit builds on   *)
(* the newest version, and a commit whose process died before it returned  *)
(* is there completely or not at all.                                      *)
(***************************************************************************)
CONSTANTS Conn, Version, None

VARIABLES
  current,      \* the version committed last
  snap,         \* per connection: the version its transaction reads, or None
  doubt         \* the commits on top of current that were begun

svars == <<current, snap, doubt>>

SInit == current \in Version /\ snap = [c \in Conn |-> None] /\ doubt = {}

Begin(c) == snap[c] = None /\ snap' = [snap EXCEPT ![c] = current] /\ UNCHANGED <<current, doubt>>

(* At the end of a transaction, or when its process dies.                  *)
End(c) == snap[c] # None /\ snap' = [snap EXCEPT ![c] = None] /\ UNCHANGED <<current, doubt>>

StartCommit(c) ==
  /\ snap[c] = current
  /\ \E v \in Version : doubt' = doubt \cup {v}
  /\ UNCHANGED <<current, snap>>

Commit(c) ==
  /\ snap[c] = current
  /\ \E v \in doubt : current' = v /\ snap' = [snap EXCEPT ![c] = v]
  /\ doubt' = {}

(* Another connection recovers after a death: the commits in doubt are     *)
(* settled, and the transactions that are open keep their versions.        *)
Settle == doubt' = {} /\ current' \in doubt \cup {current} /\ UNCHANGED snap

SNext == Settle \/ \E c \in Conn : Begin(c) \/ End(c) \/ StartCommit(c) \/ Commit(c)

SSpec == SInit /\ [][SNext]_svars
===============================================================================
