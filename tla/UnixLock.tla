------------------------------- MODULE UnixLock -------------------------------
(***************************************************************************)
(* The locks of a database file on unix (os_unix.c): unixLock, unixUnlock, *)
(* unixCheckReservedLock, unixClose and the reuse of file descriptors, on  *)
(* one file that connections of several threads and processes have open.   *)
(*                                                                         *)
(* POSIX locks belong to a process: a second lock of the same process      *)
(* replaces the first, and close() of any descriptor of the file drops     *)
(* them all.  So the handles of a process share a unixInodeInfo, under its *)
(* mutex pLockMutex.  A step is one fcntl() or close() call with what the  *)
(* thread does before it; the kernel may fail it, and a process may die.   *)
(***************************************************************************)
EXTENDS Integers, FiniteSets

CONSTANTS
  Proc,
  File,             \* unixFile handles
  ProcOf,           \* the process of each
  LockDuringClose,  \* may a thread call unixLock between the test of nLock in
                    \* unixClose and its close()?
  MaxFault,         \* bound: calls that fail and deaths
  Null

VARIABLES
  kern,             \* the kernel's locks: of each process, on each range
  inode,            \* of each process, its unixInodeInfo
  lockMutex,        \* who holds pInode->pLockMutex
  bigLock,          \* who is in unixClose, under unixBigLock
  eFileLock,        \* of each handle
  pc, want, got, closing, nFault

handle == <<pc, want, got, closing>>
vars == <<kern, inode, lockMutex, bigLock, eFileLock, handle, nFault>>

ASSUME UnixAssumption ==
  /\ ProcOf \in [File -> Proc] /\ IsFiniteSet(File) /\ Null \notin File
  /\ LockDuringClose \in BOOLEAN /\ MaxFault \in Nat

NO_LOCK == 0
SHARED_LOCK == 1
RESERVED_LOCK == 2
PENDING_LOCK == 3
EXCLUSIVE_LOCK == 4
LockRange == {"PENDING_BYTE", "RESERVED_BYTE", "SHARED_RANGE"}
Unlocked == [b \in LockRange |-> "F_UNLCK"]
NewInode == [eFileLock |-> NO_LOCK, nShared |-> 0, nLock |-> 0, nRef |-> 0, nUnused |-> 0]
FilesOf(p) == {f \in File : ProcOf[f] = p}

Init ==
  /\ kern = [p \in Proc |-> Unlocked] /\ inode = [p \in Proc |-> NewInode]
  /\ lockMutex = [p \in Proc |-> Null] /\ bigLock = [p \in Proc |-> Null]
  /\ eFileLock = [f \in File |-> NO_LOCK]
  /\ pc = [f \in File |-> "closed"] /\ want = [f \in File |-> NO_LOCK]
  /\ got = [f \in File |-> FALSE] /\ closing = [f \in File |-> FALSE]
  /\ nFault = 0

Goto(f, label) == pc' = [pc EXCEPT ![f] = label]
SetInode(f, i) == inode' = [inode EXCEPT ![ProcOf[f]] = i]
SetFileLock(f, l) == eFileLock' = [eFileLock EXCEPT ![f] = l]
Inode(f) == inode[ProcOf[f]]
(* Leave pLockMutex and return, to unixClose if that is the caller.        *)
Return(f) ==
  /\ lockMutex' = [lockMutex EXCEPT ![ProcOf[f]] = Null]
  /\ want' = [want EXCEPT ![f] = NO_LOCK] /\ got' = [got EXCEPT ![f] = FALSE]
  /\ Goto(f, IF closing[f] THEN "close" ELSE "open")

-----------------------------------------------------------------------------
(* fcntl(F_SETLK): a lock is refused if another process holds one that     *)
(* conflicts.  Any call may fail for another reason, a bounded number of   *)
(* times, but for an unlock where nothing is locked.                       *)
Conflict(p, b, type) ==
  \E q \in Proc \ {p} : kern[q][b] = "F_WRLCK" \/ (type = "F_WRLCK" /\ kern[q][b] = "F_RDLCK")
SetLock(f, b, type) ==
  /\ ~Conflict(ProcOf[f], b, type)
  /\ kern' = [kern EXCEPT ![ProcOf[f]][b] = type] /\ UNCHANGED nFault
LockFails(f, b, type) ==
  /\ \/ Conflict(ProcOf[f], b, type) /\ UNCHANGED nFault
     \/ nFault < MaxFault /\ nFault' = nFault + 1
  /\ UNCHANGED kern
Unlock(f, B) ==
  /\ kern' = [kern EXCEPT ![ProcOf[f]] = [b \in LockRange |-> IF b \in B THEN "F_UNLCK" ELSE @[b]]]
  /\ UNCHANGED nFault
UnlockFails(f, B) ==
  /\ \E b \in B : kern[ProcOf[f]][b] # "F_UNLCK"
  /\ nFault < MaxFault /\ nFault' = nFault + 1 /\ UNCHANGED kern

-----------------------------------------------------------------------------
(* The lock levels that the pager asks for from level l.                   *)
Asked(l) == IF l = NO_LOCK THEN {SHARED_LOCK}
            ELSE IF l = SHARED_LOCK THEN {RESERVED_LOCK, EXCLUSIVE_LOCK}
            ELSE {EXCLUSIVE_LOCK} \ {l}
(* Mutant: a lock of another handle of the process does not preclude.      *)
Precluded_Never(f, l) == FALSE

(* Another handle of the process has a lock that precludes level l.        *)
Precluded(f, l) ==
  /\ eFileLock[f] # Inode(f).eFileLock
  /\ Inode(f).eFileLock >= PENDING_LOCK \/ l > SHARED_LOCK

(* The process has a SHARED lock that one more handle can use.             *)
Counted(f, l) == l = SHARED_LOCK /\ Inode(f).eFileLock \in {SHARED_LOCK, RESERVED_LOCK}

(* Mutant: the lock is not counted in nLock.                               *)
OneMore_NotCounted(i) == [i EXCEPT !.nShared = @ + 1]

OneMore(i) == [i EXCEPT !.nShared = @ + 1, !.nLock = @ + 1]

(* unixLock up to its first fcntl: refused or granted by what the process  *)
(* holds already, or else on to the kernel.                                *)
unixLock(f, l) ==
  /\ pc[f] = "open" /\ l \in Asked(eFileLock[f])
  /\ lockMutex[ProcOf[f]] = Null /\ (LockDuringClose \/ bigLock[ProcOf[f]] = Null)
  /\ \/ Precluded(f, l) /\ UNCHANGED <<inode, eFileLock, lockMutex, handle>>
     \/ /\ ~Precluded(f, l) /\ Counted(f, l)
        /\ SetFileLock(f, SHARED_LOCK)
        /\ SetInode(f, OneMore(Inode(f)))
        /\ UNCHANGED <<lockMutex, handle>>
     \/ /\ ~Precluded(f, l) /\ ~Counted(f, l)
        /\ lockMutex' = [lockMutex EXCEPT ![ProcOf[f]] = f]
        /\ want' = [want EXCEPT ![f] = l]
        /\ Goto(f, IF l = SHARED_LOCK \/ (l = EXCLUSIVE_LOCK /\ eFileLock[f] = RESERVED_LOCK)
                   THEN "pending" ELSE "range")
        /\ UNCHANGED <<inode, eFileLock, got, closing>>
  /\ UNCHANGED <<kern, bigLock, nFault>>

(* Mutant: a SHARED lock does not go by the pending byte.                  *)
PendingLock_Skipped(f, type) ==
  IF type = "F_RDLCK" THEN UNCHANGED <<kern, nFault>> ELSE SetLock(f, "PENDING_BYTE", type)

PendingLock(f, type) == SetLock(f, "PENDING_BYTE", type)

(* The lock on the pending byte, to read for SHARED and to write for       *)
(* EXCLUSIVE: with the latter the handle is PENDING.                       *)
GetPending(f) ==
  LET type == IF want[f] = SHARED_LOCK THEN "F_RDLCK" ELSE "F_WRLCK" IN
  /\ pc[f] = "pending"
  /\ \/ /\ PendingLock(f, type)
        /\ IF want[f] = SHARED_LOCK
           THEN Goto(f, "getshared") /\ UNCHANGED <<eFileLock, inode>>
           ELSE /\ SetFileLock(f, PENDING_LOCK) /\ Goto(f, "range")
                /\ SetInode(f, [Inode(f) EXCEPT !.eFileLock = PENDING_LOCK])
        /\ UNCHANGED <<lockMutex, want, got>>
     \/ LockFails(f, "PENDING_BYTE", type) /\ Return(f) /\ UNCHANGED <<eFileLock, inode>>
  /\ UNCHANGED <<bigLock, closing>>

GetShared(f) ==
  /\ pc[f] = "getshared"
  /\ \/ SetLock(f, "SHARED_RANGE", "F_RDLCK") /\ got' = [got EXCEPT ![f] = TRUE]
     \/ LockFails(f, "SHARED_RANGE", "F_RDLCK") /\ got' = [got EXCEPT ![f] = FALSE]
  /\ Goto(f, "droppending")
  /\ UNCHANGED <<inode, lockMutex, bigLock, eFileLock, want, closing>>

(* The temporary lock on the pending byte is dropped; if that fails the    *)
(* handle has no lock, whatever the kernel still holds.                    *)
DropPending(f) ==
  /\ pc[f] = "droppending"
  /\ \/ /\ Unlock(f, {"PENDING_BYTE"})
        /\ IF got[f]
           THEN /\ SetFileLock(f, SHARED_LOCK)
                /\ SetInode(f, [Inode(f) EXCEPT !.eFileLock = SHARED_LOCK, !.nLock = @ + 1,
                                                !.nShared = 1])
           ELSE UNCHANGED <<eFileLock, inode>>
     \/ UnlockFails(f, {"PENDING_BYTE"}) /\ UNCHANGED <<eFileLock, inode>>
  /\ Return(f)
  /\ UNCHANGED <<bigLock, closing>>

(* Mutant: EXCLUSIVE is granted over the SHARED locks of other threads.    *)
OthersShare_Never(f) == FALSE

OthersShare(f) == want[f] = EXCLUSIVE_LOCK /\ Inode(f).nShared > 1

(* Mutant: the refused call returns without leaving pLockMutex.            *)
Refused_KeepsMutex(f) ==
  /\ want' = [want EXCEPT ![f] = NO_LOCK] /\ Goto(f, "open")
  /\ UNCHANGED <<kern, nFault, eFileLock, inode, lockMutex, got>>

Refused(f) == Return(f) /\ UNCHANGED <<kern, nFault, eFileLock, inode>>

(* The write-lock for RESERVED or EXCLUSIVE; no EXCLUSIVE while another    *)
(* thread of the process is SHARED.                                        *)
GetRange(f) ==
  LET range == IF want[f] = RESERVED_LOCK THEN "RESERVED_BYTE" ELSE "SHARED_RANGE" IN
  /\ pc[f] = "range"
  /\ \/ OthersShare(f) /\ Refused(f)
     \/ /\ ~OthersShare(f) /\ Return(f)
        /\ \/ /\ SetLock(f, range, "F_WRLCK") /\ SetFileLock(f, want[f])
              /\ SetInode(f, [Inode(f) EXCEPT !.eFileLock = want[f]])
           \/ LockFails(f, range, "F_WRLCK") /\ UNCHANGED <<eFileLock, inode>>
  /\ UNCHANGED <<bigLock, closing>>

-----------------------------------------------------------------------------
(* posixUnlock: enter pLockMutex, to lower the level to SHARED or NO_LOCK. *)
posixUnlock(f, l) ==
  /\ pc[f] = "open" \/ (pc[f] = "unlock" /\ l = NO_LOCK)
  /\ l \in {NO_LOCK, SHARED_LOCK} /\ l < eFileLock[f]
  /\ lockMutex[ProcOf[f]] = Null /\ lockMutex' = [lockMutex EXCEPT ![ProcOf[f]] = f]
  /\ want' = [want EXCEPT ![f] = l]
  /\ Goto(f, IF eFileLock[f] <= SHARED_LOCK THEN "unshare"
             ELSE IF l = SHARED_LOCK THEN "rdlock" ELSE "unreserve")
  /\ UNCHANGED <<kern, inode, bigLock, eFileLock, got, closing, nFault>>

(* The write-lock on the shared range becomes a read-lock.                 *)
RdLock(f) ==
  /\ pc[f] = "rdlock"
  /\ \/ /\ SetLock(f, "SHARED_RANGE", "F_RDLCK") /\ Goto(f, "unreserve")
        /\ UNCHANGED <<lockMutex, want, got>>
     \/ LockFails(f, "SHARED_RANGE", "F_RDLCK") /\ Return(f)
  /\ UNCHANGED <<inode, bigLock, eFileLock, closing>>

(* PENDING_BYTE and RESERVED_BYTE are released together.                   *)
Unreserve(f) ==
  /\ pc[f] = "unreserve"
  /\ \/ /\ Unlock(f, {"PENDING_BYTE", "RESERVED_BYTE"})
        /\ SetInode(f, [Inode(f) EXCEPT !.eFileLock = SHARED_LOCK])
        /\ IF want[f] = SHARED_LOCK THEN SetFileLock(f, SHARED_LOCK) /\ Return(f)
           ELSE Goto(f, "unshare") /\ UNCHANGED <<eFileLock, lockMutex, want, got>>
     \/ /\ UnlockFails(f, {"PENDING_BYTE", "RESERVED_BYTE"}) /\ Return(f)
        /\ UNCHANGED <<eFileLock, inode>>
  /\ UNCHANGED <<bigLock, closing>>

(* close() of a descriptor of the file: every lock of the process goes.    *)
CloseFds(p) == kern' = [kern EXCEPT ![p] = Unlocked]

(* Mutant: the descriptors that wait to be closed are forgotten.           *)
LastLock_Never(i) == FALSE

LastLock(i) == i.nLock = 1

(* The SHARED lock of one thread ends; with the last one the kernel's      *)
(* locks go, and the descriptors that waited for that are closed.          *)
Unshare(f) ==
  LET i == Inode(f)
      closePending == LastLock(i) /\ i.nUnused > 0
  IN  /\ pc[f] = "unshare"
      /\ \/ /\ i.nShared # 1 /\ UNCHANGED nFault
            /\ IF closePending THEN CloseFds(ProcOf[f]) ELSE UNCHANGED kern
         \/ i.nShared = 1 /\ Unlock(f, LockRange)
         \/ /\ i.nShared = 1 /\ nFault < MaxFault /\ nFault' = nFault + 1
            /\ IF closePending THEN CloseFds(ProcOf[f]) ELSE UNCHANGED kern
      /\ SetInode(f, [i EXCEPT !.nShared = @ - 1, !.nLock = @ - 1,
                               !.nUnused = IF LastLock(i) THEN 0 ELSE @,
                               !.eFileLock = IF i.nShared = 1 THEN NO_LOCK ELSE @])
      /\ SetFileLock(f, NO_LOCK) /\ Return(f)
      /\ UNCHANGED <<bigLock, closing>>

-----------------------------------------------------------------------------
(* unixClose gives up the lock first.                                      *)
unixClose(f) ==
  /\ pc[f] = "open" /\ closing' = [closing EXCEPT ![f] = TRUE]
  /\ Goto(f, IF eFileLock[f] = NO_LOCK THEN "close" ELSE "unlock")
  /\ UNCHANGED <<kern, inode, lockMutex, bigLock, eFileLock, want, got, nFault>>

(* The inode after releaseInodeInfo: the last handle frees it, and closes  *)
(* what waits to be closed.                                                *)
Released(i) == IF i.nRef = 1 THEN NewInode ELSE [i EXCEPT !.nRef = @ - 1]
Forget(f) ==
  /\ closing' = [closing EXCEPT ![f] = FALSE] /\ SetFileLock(f, NO_LOCK)
  /\ UNCHANGED <<want, got>>

(* Mutant: the descriptor is closed at once, whoever has a lock.           *)
Deferred_Never(i) == FALSE

Deferred(i) == i.nLock > 0

(* Under unixBigLock and pLockMutex: is there a lock on the inode?  Then   *)
(* the descriptor goes on the list pUnused, else it is to be closed.       *)
CloseCheck(f) ==
  /\ pc[f] = "close" /\ lockMutex[ProcOf[f]] = Null /\ bigLock[ProcOf[f]] = Null
  /\ IF Deferred(Inode(f))
     THEN /\ SetInode(f, Released([Inode(f) EXCEPT !.nUnused = @ + 1]))
          /\ IF Inode(f).nRef = 1 THEN CloseFds(ProcOf[f]) ELSE UNCHANGED kern
          /\ Goto(f, "closed") /\ UNCHANGED bigLock
     ELSE /\ SetInode(f, Released(Inode(f)))
          /\ UNCHANGED kern /\ Goto(f, "closefd")
          /\ bigLock' = [bigLock EXCEPT ![ProcOf[f]] = f]
  /\ Forget(f)
  /\ UNCHANGED <<lockMutex, nFault>>

closeUnixFile(f) ==
  /\ pc[f] = "closefd" /\ CloseFds(ProcOf[f]) /\ Goto(f, "closed")
  /\ bigLock' = [bigLock EXCEPT ![ProcOf[f]] = Null]
  /\ UNCHANGED <<inode, lockMutex, eFileLock, want, got, closing, nFault>>

(* unixOpen: a descriptor of the list pUnused is used again.               *)
findReusableFd(f) ==
  /\ pc[f] = "closed"
  /\ lockMutex[ProcOf[f]] = Null /\ bigLock[ProcOf[f]] = Null
  /\ SetInode(f, [Inode(f) EXCEPT !.nUnused = IF @ > 0 THEN @ - 1 ELSE 0])
  /\ Goto(f, "opening")
  /\ UNCHANGED <<kern, lockMutex, bigLock, eFileLock, want, got, closing, nFault>>

findInodeInfo(f) ==
  /\ pc[f] = "opening" /\ bigLock[ProcOf[f]] = Null
  /\ SetInode(f, [Inode(f) EXCEPT !.nRef = @ + 1]) /\ Goto(f, "open")
  /\ UNCHANGED <<kern, lockMutex, bigLock, eFileLock, want, got, closing, nFault>>

(* A process dies, and the kernel drops its locks.                         *)
Die(p) ==
  /\ nFault < MaxFault /\ nFault' = nFault + 1
  /\ \E f \in FilesOf(p) : pc[f] # "closed"
  /\ CloseFds(p) /\ inode' = [inode EXCEPT ![p] = NewInode]
  /\ lockMutex' = [lockMutex EXCEPT ![p] = Null] /\ bigLock' = [bigLock EXCEPT ![p] = Null]
  /\ eFileLock' = [f \in File |-> IF ProcOf[f] = p THEN NO_LOCK ELSE eFileLock[f]]
  /\ want' = [f \in File |-> IF ProcOf[f] = p THEN NO_LOCK ELSE want[f]]
  /\ pc' = [f \in File |-> IF ProcOf[f] = p THEN "closed" ELSE pc[f]]
  /\ got' = [f \in File |-> got[f] /\ ProcOf[f] # p]
  /\ closing' = [f \in File |-> closing[f] /\ ProcOf[f] # p]

(* Mutant: only the other processes are asked.                             *)
unixCheckReservedLock_Others(f) == Conflict(ProcOf[f], "RESERVED_BYTE", "F_WRLCK")

(* unixCheckReservedLock: is a RESERVED lock held, by whatever handle?     *)
unixCheckReservedLock(f) ==
  \/ Inode(f).eFileLock > SHARED_LOCK
  \/ Conflict(ProcOf[f], "RESERVED_BYTE", "F_WRLCK")

-----------------------------------------------------------------------------
(* The steps of a call that has begun.                                     *)
Step(f) ==
  \/ GetPending(f) \/ GetShared(f) \/ DropPending(f) \/ GetRange(f)
  \/ (pc[f] = "unlock" /\ posixUnlock(f, NO_LOCK)) \/ RdLock(f) \/ Unreserve(f) \/ Unshare(f)
  \/ CloseCheck(f) \/ closeUnixFile(f) \/ findInodeInfo(f)

Next ==
  \/ \E f \in File :
       \/ Step(f) \/ findReusableFd(f) \/ unixClose(f)
       \/ \E l \in SHARED_LOCK .. EXCLUSIVE_LOCK : unixLock(f, l)
       \/ \E l \in {NO_LOCK, SHARED_LOCK} : posixUnlock(f, l)
  \/ \E p \in Proc : Die(p)

Spec == Init /\ [][Next]_vars
(* A thread inside a call goes on, and gets a mutex that is free again and *)
(* again.                                                                  *)
FairSpec == Spec /\ \A f \in File : SF_vars(Step(f))

-----------------------------------------------------------------------------
Labels == {"closed", "opening", "open", "pending", "getshared", "droppending", "range",
           "unlock", "rdlock", "unreserve", "unshare", "close", "closefd"}

TypeOK ==
  /\ kern \in [Proc -> [LockRange -> {"F_UNLCK", "F_RDLCK", "F_WRLCK"}]]
  /\ inode \in [Proc -> [eFileLock : 0 .. 4, nShared : Nat, nLock : Nat, nRef : Nat,
                          nUnused : Nat]]
  /\ lockMutex \in [Proc -> File \cup {Null}] /\ bigLock \in [Proc -> File \cup {Null}]
  /\ eFileLock \in [File -> 0 .. 4] /\ pc \in [File -> Labels]
  /\ want \in [File -> 0 .. 4] /\ {got, closing} \subseteq [File -> BOOLEAN]
  /\ nFault \in 0 .. MaxFault

(* The level a handle has for the others: posixUnlock has it down to       *)
(* SHARED before its last step.                                            *)
Held == [f \in File |-> IF pc[f] = "unshare" \/ (pc[f] = "unreserve" /\ want[f] = SHARED_LOCK)
                        THEN SHARED_LOCK ELSE eFileLock[f]]

(* The POSIX locks, the counts of each process and its mutexes implement   *)
(* the locks the pager relies on (unixLock, posixUnlock, unixClose): one   *)
(* RESERVED handle at most, and an EXCLUSIVE one alone, across threads and *)
(* processes, deaths and calls that fail.                                  *)
Abstract == INSTANCE FileLocks WITH Handle <- File, Rivals <- [f \in File |-> File \ {f}],
                                    lock <- Held
ImplementsFileLocks == Abstract!LSpec

(* What a handle holds, the kernel holds for its process: no close() drops *)
(* the locks of another handle ("deferred until all of the locks clear").  *)
LocksKept ==
  \A f \in File :
    LET k == kern[ProcOf[f]] IN
    /\ Held[f] >= SHARED_LOCK => k["SHARED_RANGE"] # "F_UNLCK"
    /\ Held[f] \in {RESERVED_LOCK, PENDING_LOCK} => k["RESERVED_BYTE"] = "F_WRLCK"
    /\ Held[f] = EXCLUSIVE_LOCK => "F_WRLCK" \in {k["SHARED_RANGE"], k["PENDING_BYTE"]}

(* A SHARED handle that asks whether there is a RESERVED lock is told of   *)
(* every one, in its own process or another: hasHotJournal takes a journal *)
(* for one that nobody is writing if it is not (unixCheckReservedLock).    *)
ReservedSeen ==
  \A f \in File : (pc[f] = "open" /\ eFileLock[f] = SHARED_LOCK) =>
    ((\E g \in File : Held[g] >= RESERVED_LOCK) => unixCheckReservedLock(f))

(* A descriptor waits to be closed only as long as there is a lock         *)
(* (closePendingFds): connections that come and go leak none.              *)
DeferredWhileLocked == \A p \in Proc : inode[p].nUnused > 0 => inode[p].nLock > 0

(* Once a writer is PENDING, a process without a lock gets none until the  *)
(* writer is done ("no new SHARED locks can be obtained", unixLock).       *)
HoldsOff ==
  \A f, g \in File : (/\ Held[g] >= PENDING_LOCK /\ Held'[g] >= PENDING_LOCK
                      /\ \A h \in FilesOf(ProcOf[f]) : Held[h] = NO_LOCK)
                     => Held'[f] = NO_LOCK
PendingHoldsOff == [][HoldsOff]_vars

(* Every call returns: pLockMutex and unixBigLock, which unixClose takes   *)
(* one inside the other, block no thread for ever.                         *)
CallReturns == \A f \in File : (pc[f] \notin {"open", "closed"}) ~> (pc[f] \in {"open", "closed"})
==============================================================================
