------------------------------ MODULE FileLocks ------------------------------
(***************************************************************************)
(* What the locks of a database file promise to the pager (xLock, xUnlock  *)
(* of sqlite3_io_methods): each handle on the file has a level, one handle *)
(* at most is RESERVED or higher, and an EXCLUSIVE one is alone.           *)
(***************************************************************************)
EXTENDS Naturals

CONSTANTS Handle,
          Rivals        \* the other handles on the same file as a handle

VARIABLE lock

NO_LOCK == 0
SHARED_LOCK == 1
RESERVED_LOCK == 2
PENDING_LOCK == 3
EXCLUSIVE_LOCK == 4
Level == 0 .. 4

(* Nothing that the rivals of h hold precludes level l.                    *)
Compatible(h, l) ==
  \A g \in Rivals[h] : /\ lock[g] = NO_LOCK \/ l < EXCLUSIVE_LOCK
                       /\ lock[g] < RESERVED_LOCK \/ l < RESERVED_LOCK
                       /\ lock[g] < EXCLUSIVE_LOCK

LInit == lock = [h \in Handle |-> NO_LOCK]

(* A handle gets a higher level: the first one is SHARED.                  *)
Raise(h, l) ==
  /\ lock[h] < l /\ (lock[h] = NO_LOCK => l = SHARED_LOCK)
  /\ Compatible(h, l)
  /\ lock' = [lock EXCEPT ![h] = l]

(* A handle goes back to SHARED or to no lock.                             *)
Lower(h, l) ==
  /\ l < lock[h] /\ l <= SHARED_LOCK
  /\ lock' = [lock EXCEPT ![h] = l]

(* A process ends, and the locks of its handles with it.                   *)
Drop(S) == lock' = [h \in Handle |-> IF h \in S THEN NO_LOCK ELSE lock[h]]

LNext ==
  \/ \E h \in Handle, l \in Level : Raise(h, l) \/ Lower(h, l)
  \/ \E S \in SUBSET Handle : Drop(S)

LSpec == LInit /\ [][LNext]_lock

(* The promise itself.                                                     *)
Exclusion ==
  \A h \in Handle : \A g \in Rivals[h] :
    /\ lock[h] = EXCLUSIVE_LOCK => lock[g] = NO_LOCK
    /\ lock[h] >= RESERVED_LOCK => lock[g] < RESERVED_LOCK
==============================================================================
