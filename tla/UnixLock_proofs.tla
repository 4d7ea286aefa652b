-------------------------- MODULE UnixLock_proofs ---------------------------
(***************************************************************************)
(* The locks of os_unix.c implement the locks of FileLocks for any number  *)
(* of processes, handles and faults, if no unixLock call falls between the *)
(* test of nLock in unixClose and the close() that follows it.  LockInv is *)
(* kept by every step, one lemma per action; then what the levels of the   *)
(* handles do in a step, and the theorems.                                 *)
(***************************************************************************)
EXTENDS UnixLock, FiniteSetTheorems, TLAPS

(* The steps that a thread takes under pLockMutex.                         *)
InCall == {"pending", "getshared", "droppending", "range", "rdlock", "unreserve", "unshare"}
NoInode == {"closed", "opening", "closefd"}

LockedOf(p) == {f \in File : ProcOf[f] = p /\ eFileLock[f] # NO_LOCK}
OpenOf(p) == {f \in File : ProcOf[f] = p /\ pc[f] \notin NoInode}

(* The mutexes, and how far a handle is in closing.                        *)
Owns(f) ==
  /\ pc[f] \in InCall <=> lockMutex[ProcOf[f]] = f
  /\ pc[f] = "closefd" <=> bigLock[ProcOf[f]] = f
  /\ pc[f] \in NoInode => eFileLock[f] = NO_LOCK
  /\ pc[f] = "close" => eFileLock[f] # SHARED_LOCK
  /\ closing[f] => \/ pc[f] \in {"unlock", "close"}
                   \/ pc[f] \in {"unreserve", "unshare"} /\ want[f] = NO_LOCK

(* A handle's level e is not above its process's level i, which is that of *)
(* the one handle above SHARED.                                            *)
AtLevel(e, i) == e <= i /\ (e >= RESERVED_LOCK => e = i)

(* What a call of f knows at each of its steps of the process's level i    *)
(* and kernel locks k.                                                     *)
Knows(f, i, k) ==
  /\ pc[f] = "pending" => \/ want[f] = SHARED_LOCK /\ i = NO_LOCK
                          \/ want[f] = EXCLUSIVE_LOCK /\ i = RESERVED_LOCK /\ eFileLock[f] = i
  /\ pc[f] \in {"getshared", "droppending"} => i = NO_LOCK /\ k["PENDING_BYTE"] = "F_RDLCK"
  /\ pc[f] = "droppending" /\ got[f] => k["SHARED_RANGE"] = "F_RDLCK"
  /\ pc[f] = "range" =>
       /\ eFileLock[f] = i
       /\ \/ want[f] = RESERVED_LOCK /\ i = SHARED_LOCK
          \/ want[f] = EXCLUSIVE_LOCK /\ i \in {SHARED_LOCK, PENDING_LOCK}
  /\ pc[f] \in {"rdlock", "unreserve"} => i >= RESERVED_LOCK /\ eFileLock[f] = i
  /\ pc[f] = "rdlock" => want[f] = SHARED_LOCK
  /\ pc[f] = "unreserve" => want[f] \in {NO_LOCK, SHARED_LOCK}
  /\ pc[f] = "unshare" =>
       /\ eFileLock[f] >= SHARED_LOCK /\ i >= SHARED_LOCK
       /\ eFileLock[f] >= RESERVED_LOCK => i = SHARED_LOCK
  /\ pc[f] # "unshare" => AtLevel(eFileLock[f], i)

(* The kernel's locks are those of the process's level.  An EXCLUSIVE lock *)
(* is one on the shared range, or else the pending byte keeps others out.  *)
Backed(i, k, downgrading) ==
  /\ i = NO_LOCK => k["RESERVED_BYTE"] = "F_UNLCK" /\ k["PENDING_BYTE"] # "F_WRLCK"
  /\ i >= SHARED_LOCK => k["SHARED_RANGE"] # "F_UNLCK"
  /\ i = SHARED_LOCK => k["RESERVED_BYTE"] = "F_UNLCK" /\ k["PENDING_BYTE"] = "F_UNLCK"
  /\ i = RESERVED_LOCK => k["RESERVED_BYTE"] = "F_WRLCK" /\ k["PENDING_BYTE"] = "F_UNLCK"
  /\ i = PENDING_LOCK => k["RESERVED_BYTE"] = "F_WRLCK" /\ k["PENDING_BYTE"] = "F_WRLCK"
  /\ i = EXCLUSIVE_LOCK =>
       \/ k["RESERVED_BYTE"] = "F_WRLCK" /\ k["PENDING_BYTE"] = "F_WRLCK"
       \/ /\ k["RESERVED_BYTE"] = "F_UNLCK" /\ k["PENDING_BYTE"] = "F_UNLCK"
          /\ k["SHARED_RANGE"] = "F_WRLCK" \/ downgrading

Downgrading(p) ==
  \E f \in File : ProcOf[f] = p /\ pc[f] = "unreserve" /\ want[f] = SHARED_LOCK

Owner(p) == \E f \in File : ProcOf[f] = p /\ eFileLock[f] >= RESERVED_LOCK

(* nShared counts the handles with a lock, and one that was closed after   *)
(* its unlock had failed.                                                  *)
Counts(i, nLocked, nOpen, owner) ==
  /\ i.nLock = i.nShared /\ (i.eFileLock = NO_LOCK <=> i.nShared = 0)
  /\ i.nUnused > 0 => i.nLock > 0
  /\ i.nRef = nOpen
  /\ i.eFileLock <= SHARED_LOCK => i.nShared = nLocked
  /\ i.eFileLock >= RESERVED_LOCK => i.nShared = IF owner THEN nLocked ELSE nLocked + 1

(* A closing descriptor is closed while there is no lock.                  *)
Closes(p) ==
  bigLock[p] # Null => lockMutex[p] = Null /\ inode[p].nShared = 0

(* Two handles of a process.                                               *)
Pair(f, g) ==
  /\ eFileLock[f] >= RESERVED_LOCK => eFileLock[g] <= SHARED_LOCK
  /\ eFileLock[f] = EXCLUSIVE_LOCK => eFileLock[g] = NO_LOCK

(* Two processes.                                                          *)
Apart(p, q) ==
  /\ \A b \in LockRange : kern[p][b] = "F_WRLCK" => kern[q][b] = "F_UNLCK"
  /\ inode[p].eFileLock = EXCLUSIVE_LOCK /\ kern[p]["PENDING_BYTE"] = "F_WRLCK"
       => inode[q].eFileLock = NO_LOCK

FileInv(f) == Owns(f) /\ Knows(f, Inode(f).eFileLock, kern[ProcOf[f]])
ProcInv(p) ==
  /\ Backed(inode[p].eFileLock, kern[p], Downgrading(p))
  /\ Counts(inode[p], Cardinality(LockedOf(p)), Cardinality(OpenOf(p)), Owner(p))
  /\ Closes(p)
  /\ lockMutex[p] # Null => ProcOf[lockMutex[p]] = p
  /\ bigLock[p] # Null => ProcOf[bigLock[p]] = p

LockInv ==
  /\ TypeOK
  /\ \A f \in File : FileInv(f)
  /\ \A p \in Proc : ProcInv(p)
  /\ \A f, g \in File : ProcOf[f] = ProcOf[g] /\ f # g => Pair(f, g)
  /\ \A p, q \in Proc : p # q => Apart(p, q)

-----------------------------------------------------------------------------
USE Zenon DEF NO_LOCK, SHARED_LOCK, RESERVED_LOCK, PENDING_LOCK, EXCLUSIVE_LOCK

LockType == {"F_UNLCK", "F_RDLCK", "F_WRLCK"}

(* No step of f changes another process or another handle.                 *)
Changes(f) ==
  /\ \A q \in Proc : q # ProcOf[f] =>
       /\ kern'[q] = kern[q] /\ inode'[q] = inode[q]
       /\ lockMutex'[q] = lockMutex[q] /\ bigLock'[q] = bigLock[q]
  /\ \A g \in File : g # f =>
       /\ eFileLock'[g] = eFileLock[g] /\ pc'[g] = pc[g] /\ want'[g] = want[g]
       /\ got'[g] = got[g] /\ closing'[g] = closing[g]

(* The kernel lets no two processes have locks that conflict.              *)
KernelApart ==
  \A p, q \in Proc : p # q =>
    \A b \in LockRange : kern[p][b] = "F_WRLCK" => kern[q][b] = "F_UNLCK"

(* What remains to be shown of a step of f.                                *)
LEMMA Localised ==
  ASSUME LockInv, TypeOK', NEW f \in File, Changes(f), KernelApart', FileInv(f)',
         \A g \in File : g # f /\ ProcOf[g] = ProcOf[f] =>
           FileInv(g)' /\ Pair(f, g)' /\ Pair(g, f)',
         ProcInv(ProcOf[f])',
         \A q \in Proc : q # ProcOf[f] =>
           /\ inode'[ProcOf[f]].eFileLock = EXCLUSIVE_LOCK
                /\ kern'[ProcOf[f]]["PENDING_BYTE"] = "F_WRLCK" => inode[q].eFileLock = NO_LOCK
           /\ inode[q].eFileLock = EXCLUSIVE_LOCK /\ kern[q]["PENDING_BYTE"] = "F_WRLCK"
                => inode'[ProcOf[f]].eFileLock = NO_LOCK
  PROVE  LockInv'
<1>1. ASSUME NEW g \in File PROVE FileInv(g)'
  <2>1. CASE ProcOf[g] = ProcOf[f] BY <2>1
  <2>2. CASE ProcOf[g] # ProcOf[f]
    <3>1. FileInv(g) /\ ProcOf[g] \in Proc /\ g # f BY <2>2, UnixAssumption DEF LockInv
    <3>2. /\ eFileLock'[g] = eFileLock[g] /\ pc'[g] = pc[g] /\ want'[g] = want[g]
          /\ got'[g] = got[g] /\ closing'[g] = closing[g]
          /\ kern'[ProcOf[g]] = kern[ProcOf[g]] /\ inode'[ProcOf[g]] = inode[ProcOf[g]]
          /\ lockMutex'[ProcOf[g]] = lockMutex[ProcOf[g]]
          /\ bigLock'[ProcOf[g]] = bigLock[ProcOf[g]]
      BY <2>2, <3>1, Zenon DEF Changes
    <3>3. Owns(g)' BY <3>1, <3>2 DEF FileInv, Owns
    <3>4. Knows(g, Inode(g).eFileLock, kern[ProcOf[g]])'
      BY <3>1, <3>2 DEF FileInv, Knows, Inode, AtLevel
    <3> QED BY <3>3, <3>4 DEF FileInv
  <2> QED BY <2>1, <2>2
<1>2. ASSUME NEW p \in Proc PROVE ProcInv(p)'
  <2>1. CASE p = ProcOf[f] BY <2>1
  <2>2. CASE p # ProcOf[f]
    <3>1. /\ ProcInv(p) /\ kern'[p] = kern[p] /\ inode'[p] = inode[p]
          /\ lockMutex'[p] = lockMutex[p] /\ bigLock'[p] = bigLock[p]
      BY <2>2, Zenon DEF LockInv, Changes
    <3>2. /\ \A g \in File : ProcOf[g] = p =>
               eFileLock'[g] = eFileLock[g] /\ pc'[g] = pc[g] /\ want'[g] = want[g]
      BY <2>2, Zenon DEF Changes
    <3>3. LockedOf(p)' = LockedOf(p) /\ OpenOf(p)' = OpenOf(p)
      BY <3>2 DEF LockedOf, OpenOf
    <3>4. (Downgrading(p)' <=> Downgrading(p)) /\ (Owner(p)' <=> Owner(p))
      BY <3>2, Zenon DEF Downgrading, Owner
    <3>5. Backed(inode[p].eFileLock, kern[p], Downgrading(p))' BY <3>1, <3>4 DEF ProcInv, Backed
    <3>6. Counts(inode[p], Cardinality(LockedOf(p)), Cardinality(OpenOf(p)), Owner(p))'
      BY <3>1, <3>3, <3>4 DEF ProcInv, Counts
    <3> QED BY <3>1, <3>5, <3>6 DEF ProcInv, Closes
  <2> QED BY <2>1, <2>2
<1>3. ASSUME NEW g \in File, NEW h \in File, ProcOf[g] = ProcOf[h], g # h PROVE Pair(g, h)'
  <2>1. CASE g = f BY <2>1, <1>3
  <2>2. CASE h = f BY <2>2, <1>3
  <2>3. CASE g # f /\ h # f
    <3>1. Pair(g, h) BY <1>3 DEF LockInv, AtLevel
    <3> QED BY <2>3, <3>1, Zenon DEF Changes, Pair, AtLevel
  <2> QED BY <2>1, <2>2, <2>3
<1>4. ASSUME NEW p \in Proc, NEW q \in Proc, p # q PROVE Apart(p, q)'
  <2>1. Apart(p, q) BY <1>4 DEF LockInv
  <2>2. \A r \in Proc : r # ProcOf[f] => kern'[r] = kern[r] /\ inode'[r] = inode[r]
    BY Zenon DEF Changes
  <2>3. /\ inode'[p].eFileLock = EXCLUSIVE_LOCK /\ kern'[p]["PENDING_BYTE"] = "F_WRLCK"
             => inode'[q].eFileLock = NO_LOCK
    <3>1. CASE p = ProcOf[f] BY <3>1, <2>2, <1>4, Zenon
    <3>2. CASE q = ProcOf[f] BY <3>2, <2>2, <1>4, Zenon
    <3>3. CASE p # ProcOf[f] /\ q # ProcOf[f] BY <3>3, <2>1, <2>2, Zenon DEF Apart
    <3> QED BY <3>1, <3>2, <3>3
  <2> QED BY <2>3, <1>4, Zenon DEF Apart, KernelApart
<1> QED BY <1>1, <1>2, <1>3, <1>4, Zenon DEF LockInv

(* The other handles of a process whose pLockMutex is free, or held by f.  *)
LEMMA Bystanders ==
  ASSUME LockInv, NEW f \in File, Changes(f),
         lockMutex[ProcOf[f]] \in {f, Null}, lockMutex'[ProcOf[f]] \in {f, Null},
         bigLock'[ProcOf[f]] = bigLock[ProcOf[f]] \/ {bigLock[ProcOf[f]], bigLock'[ProcOf[f]]} \subseteq {f, Null},
         \A g \in File : g # f /\ ProcOf[g] = ProcOf[f] => AtLevel(eFileLock[g], inode'[ProcOf[f]].eFileLock)
  PROVE  /\ \A g \in File : g # f /\ ProcOf[g] = ProcOf[f] => FileInv(g)'
         /\ Downgrading(ProcOf[f])' <=> pc'[f] = "unreserve" /\ want'[f] = SHARED_LOCK
<1>1. ASSUME NEW g \in File, g # f, ProcOf[g] = ProcOf[f]
      PROVE  FileInv(g)' /\ pc[g] \notin InCall
  <2>1. FileInv(g) /\ g # Null BY UnixAssumption DEF LockInv
  <2>2. pc[g] \notin InCall BY <1>1, <2>1 DEF FileInv, Owns
  <2>3. pc'[g] = pc[g] /\ eFileLock'[g] = eFileLock[g] /\ closing'[g] = closing[g]
        /\ want'[g] = want[g]
    BY <1>1 DEF Changes
  <2>4. bigLock'[ProcOf[g]] = g <=> bigLock[ProcOf[g]] = g BY <1>1, <2>1
  <2>5. Owns(g)' BY <1>1, <2>1, <2>2, <2>3, <2>4 DEF FileInv, Owns
  <2>6. Knows(g, Inode(g).eFileLock, kern[ProcOf[g]])'
    BY <1>1, <2>2, <2>3 DEF Knows, Inode, InCall, AtLevel
  <2> QED BY <2>2, <2>5, <2>6 DEF FileInv
<1>2. Downgrading(ProcOf[f])' <=> pc'[f] = "unreserve" /\ want'[f] = SHARED_LOCK
  <2>1. \A g \in File : g # f /\ ProcOf[g] = ProcOf[f] => pc'[g] # "unreserve"
    BY <1>1 DEF Changes, InCall
  <2> QED BY <2>1, Zenon DEF Downgrading
<1> QED BY <1>1, <1>2

(* How the counts of handles change.                                       *)
LEMMA Counting ==
  ASSUME TypeOK, TypeOK', NEW f \in File, Changes(f)
  PROVE  LET n == Cardinality(LockedOf(ProcOf[f]))
             m == Cardinality(OpenOf(ProcOf[f]))
         IN  /\ n \in Nat /\ m \in Nat /\ n' \in Nat /\ m' \in Nat
             /\ (eFileLock[f] # NO_LOCK <=> eFileLock'[f] # NO_LOCK) => n' = n
             /\ eFileLock[f] = NO_LOCK /\ eFileLock'[f] # NO_LOCK => n' = n + 1
             /\ eFileLock[f] # NO_LOCK /\ eFileLock'[f] = NO_LOCK => n' = n - 1
             /\ (pc[f] \in NoInode <=> pc'[f] \in NoInode) => m' = m
             /\ pc[f] \in NoInode /\ pc'[f] \notin NoInode => m' = m + 1
             /\ pc[f] \notin NoInode /\ pc'[f] \in NoInode => m' = m - 1
<1> DEFINE p == ProcOf[f]
           L == LockedOf(p)
           M == OpenOf(p)
<1>1. IsFiniteSet(L) /\ IsFiniteSet(M) /\ IsFiniteSet(L') /\ IsFiniteSet(M')
  <2>1. L \in SUBSET File /\ M \in SUBSET File /\ L' \in SUBSET File /\ M' \in SUBSET File
    BY DEF LockedOf, OpenOf
  <2> QED BY <2>1, FS_Subset, UnixAssumption
<1>2. /\ Cardinality(L) \in Nat /\ Cardinality(M) \in Nat
      /\ Cardinality(L') \in Nat /\ Cardinality(M') \in Nat
  BY <1>1, FS_CardinalityType
<1>3. /\ (eFileLock[f] # NO_LOCK <=> eFileLock'[f] # NO_LOCK) => L' = L
      /\ eFileLock[f] = NO_LOCK /\ eFileLock'[f] # NO_LOCK => L' = L \cup {f} /\ f \notin L
      /\ eFileLock[f] # NO_LOCK /\ eFileLock'[f] = NO_LOCK => L' = L \ {f} /\ f \in L
  BY DEF LockedOf, Changes
<1>4. /\ (pc[f] \in NoInode <=> pc'[f] \in NoInode) => M' = M
      /\ pc[f] \in NoInode /\ pc'[f] \notin NoInode => M' = M \cup {f} /\ f \notin M
      /\ pc[f] \notin NoInode /\ pc'[f] \in NoInode => M' = M \ {f} /\ f \in M
  BY DEF OpenOf, Changes
<1>5. /\ f \notin L => Cardinality(L \cup {f}) = Cardinality(L) + 1
      /\ f \in L => Cardinality(L \ {f}) = Cardinality(L) - 1
      /\ f \notin M => Cardinality(M \cup {f}) = Cardinality(M) + 1
      /\ f \in M => Cardinality(M \ {f}) = Cardinality(M) - 1
  BY <1>1, FS_AddElement, FS_RemoveElement
<1> HIDE DEF L, M
<1>6. Cardinality(L') = Cardinality(L)' /\ Cardinality(M') = Cardinality(M)'
  OBVIOUS
<1> QED BY <1>2, <1>3, <1>4, <1>5, <1>6 DEF L, M

(* What small counts say of the handles.                                   *)
LEMMA FewHandles ==
  ASSUME TypeOK, NEW p \in Proc
  PROVE  LET n == Cardinality(LockedOf(p))
             m == Cardinality(OpenOf(p))
         IN  /\ n \in Nat /\ m \in Nat
             /\ \A f \in File : ProcOf[f] = p /\ eFileLock[f] # NO_LOCK => n >= 1
             /\ \A f \in File : ProcOf[f] = p /\ pc[f] \notin NoInode => m >= 1
             /\ n >= 1 => \E f \in File : ProcOf[f] = p /\ eFileLock[f] # NO_LOCK
             /\ \A f, g \in File : /\ ProcOf[f] = p /\ eFileLock[f] # NO_LOCK
                                   /\ ProcOf[g] = p /\ eFileLock[g] # NO_LOCK
                                   /\ f # g
                                   => n >= 2
             /\ \A f, g \in File : /\ ProcOf[f] = p /\ pc[f] \notin NoInode
                                   /\ ProcOf[g] = p /\ pc[g] \notin NoInode
                                   /\ f # g
                                   => m >= 2
<1> DEFINE L == LockedOf(p)
           M == OpenOf(p)
<1>1. IsFiniteSet(L) /\ IsFiniteSet(M)
  <2>1. L \in SUBSET File /\ M \in SUBSET File
    BY DEF LockedOf, OpenOf
  <2> QED BY <2>1, FS_Subset, UnixAssumption
<1>2. ASSUME NEW S, IsFiniteSet(S)
      PROVE  /\ Cardinality(S) \in Nat /\ (Cardinality(S) >= 1 => S # {})
             /\ \A f \in S : Cardinality(S) >= 1
             /\ \A f, g \in S : f # g => Cardinality(S) >= 2
  <2>1. Cardinality(S) \in Nat BY <1>2, FS_CardinalityType
  <2>2. Cardinality(S) = 0 <=> S = {} BY <1>2, FS_EmptySet
  <2>3. Cardinality(S) = 1 => \E x : S = {x} BY <1>2, FS_Singleton
  <2> QED BY SMTT(20), <2>1, <2>2, <2>3
<1>3. /\ \A f \in File : ProcOf[f] = p /\ eFileLock[f] # NO_LOCK <=> f \in L
      /\ \A f \in File : ProcOf[f] = p /\ pc[f] \notin NoInode <=> f \in M
      /\ L \subseteq File /\ M \subseteq File
  BY DEF LockedOf, OpenOf
<1> HIDE DEF L, M
<1>4. /\ Cardinality(L) \in Nat /\ (Cardinality(L) >= 1 => L # {})
      /\ \A f \in L : Cardinality(L) >= 1
      /\ \A f, g \in L : f # g => Cardinality(L) >= 2
  BY <1>1, <1>2, Zenon
<1>5. /\ Cardinality(M) \in Nat
      /\ \A f \in M : Cardinality(M) >= 1
      /\ \A f, g \in M : f # g => Cardinality(M) >= 2
  BY <1>1, <1>2, Zenon
<1>6. Cardinality(L) >= 1 => \E f \in File : ProcOf[f] = p /\ eFileLock[f] # NO_LOCK
  BY <1>4, <1>3, Zenon
<1> QED BY <1>3, <1>4, <1>5, <1>6, Zenon DEF L, M

-----------------------------------------------------------------------------
(* The system calls: what they change, and that they keep processes apart. *)
LEMMA SetLockEffect ==
  ASSUME LockInv, NEW f \in File, NEW b \in LockRange, NEW type \in {"F_RDLCK", "F_WRLCK"},
         SetLock(f, b, type)
  PROVE  /\ kern' \in [Proc -> [LockRange -> LockType]] /\ nFault' = nFault
         /\ kern'[ProcOf[f]][b] = type
         /\ \A c \in LockRange : c # b => kern'[ProcOf[f]][c] = kern[ProcOf[f]][c]
         /\ \A q \in Proc : q # ProcOf[f] => /\ kern'[q] = kern[q] /\ kern[q][b] # "F_WRLCK"
                                             /\ type = "F_WRLCK" => kern[q][b] = "F_UNLCK"
         /\ KernelApart'
<1> DEFINE p == ProcOf[f]
<1>1. p \in Proc /\ kern \in [Proc -> [LockRange -> LockType]] /\ KernelApart
  BY UnixAssumption DEF LockInv, TypeOK, LockType, Apart, KernelApart
<1>2. kern' = [kern EXCEPT ![p][b] = type] /\ nFault' = nFault BY DEF SetLock
<1>3. /\ kern' \in [Proc -> [LockRange -> LockType]]
      /\ kern'[p][b] = type /\ \A c \in LockRange : c # b => kern'[p][c] = kern[p][c]
      /\ \A q \in Proc : q # p => kern'[q] = kern[q]
  BY <1>1, <1>2 DEF LockType
<1>4. \A q \in Proc : q # p => /\ kern[q][b] # "F_WRLCK"
                               /\ type = "F_WRLCK" => kern[q][b] = "F_UNLCK"
  BY <1>1 DEF SetLock, Conflict, LockType
<1>5. KernelApart' BY SMTT(20), <1>1, <1>3, <1>4 DEF KernelApart
<1> QED BY <1>2, <1>3, <1>4, <1>5

(* Unlocking a range leaves the process without a kernel lock on it.       *)
LEMMA UnlockEffect ==
  ASSUME LockInv, NEW f \in File, NEW B \in SUBSET LockRange,
         kern' = [kern EXCEPT ![ProcOf[f]] = [b \in LockRange |-> IF b \in B THEN "F_UNLCK" ELSE @[b]]]
  PROVE  /\ kern' \in [Proc -> [LockRange -> LockType]]
         /\ \A c \in LockRange : kern'[ProcOf[f]][c] = IF c \in B THEN "F_UNLCK" ELSE kern[ProcOf[f]][c]
         /\ \A q \in Proc : q # ProcOf[f] => kern'[q] = kern[q]
         /\ KernelApart'
<1> DEFINE p == ProcOf[f]
<1>1. p \in Proc /\ kern \in [Proc -> [LockRange -> LockType]] /\ KernelApart
  BY UnixAssumption DEF LockInv, TypeOK, LockType, Apart, KernelApart
<1>2. /\ kern' \in [Proc -> [LockRange -> LockType]]
      /\ \A c \in LockRange : kern'[p][c] = IF c \in B THEN "F_UNLCK" ELSE kern[p][c]
      /\ \A q \in Proc : q # p => kern'[q] = kern[q]
  BY <1>1 DEF LockType
<1>3. KernelApart' BY SMTT(20), <1>1, <1>2 DEF KernelApart
<1> QED BY <1>2, <1>3

(* close() of any descriptor drops all locks the process has on the file.  *)
LEMMA CloseEffect ==
  ASSUME LockInv, NEW p \in Proc, CloseFds(p)
  PROVE  /\ kern' \in [Proc -> [LockRange -> LockType]]
         /\ \A c \in LockRange : kern'[p][c] = "F_UNLCK"
         /\ \A q \in Proc : q # p => kern'[q] = kern[q]
         /\ KernelApart'
<1>1. kern \in [Proc -> [LockRange -> LockType]] /\ KernelApart
  BY DEF LockInv, TypeOK, LockType, Apart, KernelApart
<1>2. /\ kern' \in [Proc -> [LockRange -> LockType]]
      /\ \A c \in LockRange : kern'[p][c] = "F_UNLCK"
      /\ \A q \in Proc : q # p => kern'[q] = kern[q]
  BY <1>1 DEF CloseFds, Unlocked, LockType
<1>3. KernelApart' BY SMTT(20), <1>1, <1>2 DEF KernelApart
<1> QED BY <1>2, <1>3

(* Kernel locks stay apart while they do not change.                       *)
LEMMA KernelKept ==
  ASSUME LockInv, UNCHANGED kern
  PROVE  KernelApart' /\ kern' \in [Proc -> [LockRange -> LockType]]
BY DEF LockInv, TypeOK, LockType, Apart, KernelApart

(* What is known when a step of f is taken.                                *)
LEMMA Known ==
  ASSUME LockInv, NEW f \in File
  PROVE  /\ ProcOf[f] \in Proc /\ f # Null /\ FileInv(f) /\ ProcInv(ProcOf[f])
         /\ inode[ProcOf[f]] \in [eFileLock : 0 .. 4, nShared : Nat, nLock : Nat, nRef : Nat,
                                  nUnused : Nat]
         /\ kern[ProcOf[f]] \in [LockRange -> LockType]
         /\ eFileLock[f] \in 0 .. 4 /\ want[f] \in 0 .. 4 /\ pc[f] \in Labels
         /\ {got[f], closing[f]} \subseteq BOOLEAN
         /\ pc[f] \in InCall => lockMutex[ProcOf[f]] = f /\ bigLock[ProcOf[f]] = Null
BY SMTT(20), UnixAssumption DEF LockInv, TypeOK, LockType, FileInv, Owns, ProcInv, Closes

(* A step of f that ends with pLockMutex free or held by f, as it began.   *)
LEMMA CallStep ==
  ASSUME LockInv, TypeOK', NEW f \in File, Changes(f), KernelApart',
         lockMutex[ProcOf[f]] \in {f, Null}, lockMutex'[ProcOf[f]] \in {f, Null},
         bigLock[ProcOf[f]] = Null, bigLock'[ProcOf[f]] = Null,
         Owns(f)', Knows(f, Inode(f).eFileLock, kern[ProcOf[f]])',
         \A g \in File : g # f /\ ProcOf[g] = ProcOf[f] =>
           AtLevel(eFileLock[g], inode'[ProcOf[f]].eFileLock) /\ Pair(f, g)' /\ Pair(g, f)',
         Backed(inode'[ProcOf[f]].eFileLock, kern'[ProcOf[f]],
                pc'[f] = "unreserve" /\ want'[f] = SHARED_LOCK),
         Counts(inode[ProcOf[f]], Cardinality(LockedOf(ProcOf[f])),
                Cardinality(OpenOf(ProcOf[f])), Owner(ProcOf[f]))',
         \A q \in Proc : q # ProcOf[f] =>
           /\ inode'[ProcOf[f]].eFileLock = EXCLUSIVE_LOCK
                /\ kern'[ProcOf[f]]["PENDING_BYTE"] = "F_WRLCK" => inode[q].eFileLock = NO_LOCK
           /\ inode[q].eFileLock = EXCLUSIVE_LOCK /\ kern[q]["PENDING_BYTE"] = "F_WRLCK"
                => inode'[ProcOf[f]].eFileLock = NO_LOCK
  PROVE  LockInv'
<1>1. /\ \A g \in File : g # f /\ ProcOf[g] = ProcOf[f] => FileInv(g)'
      /\ Downgrading(ProcOf[f])' <=> pc'[f] = "unreserve" /\ want'[f] = SHARED_LOCK
  BY Bystanders
<1>2. ProcInv(ProcOf[f])'
  <2>1. Backed(inode[ProcOf[f]].eFileLock, kern[ProcOf[f]], Downgrading(ProcOf[f]))'
    BY <1>1 DEF Backed
  <2> QED BY <2>1 DEF ProcInv, Closes
<1>3. FileInv(f)' BY DEF FileInv
<1> QED BY <1>1, <1>2, <1>3, Localised

-----------------------------------------------------------------------------
(* A call that returns gives up pLockMutex and is idle again.              *)
LEMMA ReturnEffect ==
  ASSUME LockInv, NEW f \in File, Return(f), UNCHANGED <<bigLock, closing>>
  PROVE  /\ lockMutex' \in [Proc -> File \cup {Null}] /\ bigLock' \in [Proc -> File \cup {Null}]
         /\ pc' \in [File -> Labels] /\ want' \in [File -> 0 .. 4]
         /\ {got', closing'} \subseteq [File -> BOOLEAN]
         /\ lockMutex'[ProcOf[f]] = Null /\ bigLock'[ProcOf[f]] = bigLock[ProcOf[f]]
         /\ \A q \in Proc : q # ProcOf[f] => lockMutex'[q] = lockMutex[q] /\ bigLock'[q] = bigLock[q]
         /\ want'[f] = NO_LOCK /\ got'[f] = FALSE /\ closing'[f] = closing[f]
         /\ pc'[f] = IF closing[f] THEN "close" ELSE "open"
         /\ \A g \in File : g # f => /\ pc'[g] = pc[g] /\ want'[g] = want[g] /\ got'[g] = got[g]
                                     /\ closing'[g] = closing[g]
<1>1. /\ ProcOf[f] \in Proc /\ lockMutex \in [Proc -> File \cup {Null}]
      /\ bigLock \in [Proc -> File \cup {Null}] /\ pc \in [File -> Labels]
      /\ want \in [File -> 0 .. 4] /\ got \in [File -> BOOLEAN] /\ closing \in [File -> BOOLEAN]
  BY UnixAssumption DEF LockInv, TypeOK
<1>2. /\ lockMutex' = [lockMutex EXCEPT ![ProcOf[f]] = Null]
      /\ want' = [want EXCEPT ![f] = NO_LOCK] /\ got' = [got EXCEPT ![f] = FALSE]
      /\ pc' = [pc EXCEPT ![f] = IF closing[f] THEN "close" ELSE "open"]
  BY DEF Return, Goto
<1>3. /\ lockMutex' \in [Proc -> File \cup {Null}] /\ lockMutex'[ProcOf[f]] = Null
      /\ \A q \in Proc : q # ProcOf[f] => lockMutex'[q] = lockMutex[q]
  BY <1>1, <1>2
<1>4. /\ want' \in [File -> 0 .. 4] /\ want'[f] = NO_LOCK
      /\ \A g \in File : g # f => want'[g] = want[g]
  BY SMTT(20), <1>1, <1>2
<1>5. /\ got' \in [File -> BOOLEAN] /\ got'[f] = FALSE
      /\ \A g \in File : g # f => got'[g] = got[g]
  BY <1>1, <1>2, Zenon
<1>6. /\ pc' \in [File -> Labels] /\ pc'[f] = IF closing[f] THEN "close" ELSE "open"
      /\ \A g \in File : g # f => pc'[g] = pc[g]
  BY <1>1, <1>2 DEF Labels
<1> QED BY <1>1, <1>3, <1>4, <1>5, <1>6, Zenon

(* Where the handle of f keeps its level.                                  *)
LEMMA SameCounts ==
  ASSUME LockInv, TypeOK', NEW f \in File, Changes(f),
         eFileLock'[f] = eFileLock[f], inode'[ProcOf[f]] = inode[ProcOf[f]],
         pc[f] \notin NoInode, pc'[f] \notin NoInode
  PROVE  Counts(inode[ProcOf[f]], Cardinality(LockedOf(ProcOf[f])),
                Cardinality(OpenOf(ProcOf[f])), Owner(ProcOf[f]))'
<1>1. TypeOK /\ ProcOf[f] \in Proc BY UnixAssumption DEF LockInv
<1>2. /\ Cardinality(LockedOf(ProcOf[f]))' = Cardinality(LockedOf(ProcOf[f]))
      /\ Cardinality(OpenOf(ProcOf[f]))' = Cardinality(OpenOf(ProcOf[f]))
  BY <1>1, Counting
<1>3. Owner(ProcOf[f])' <=> Owner(ProcOf[f])
  BY DEF Owner, Changes
<1>4. Counts(inode[ProcOf[f]], Cardinality(LockedOf(ProcOf[f])),
             Cardinality(OpenOf(ProcOf[f])), Owner(ProcOf[f]))
  BY <1>1 DEF LockInv, ProcInv
<1> QED BY <1>2, <1>3, <1>4, Zenon DEF Counts

(* The call of f fails or is refused: levels and counts stay as they are.  *)
LEMMA GivesUp ==
  ASSUME LockInv, NEW f \in File, pc[f] \in InCall \ {"unshare"}, Return(f),
         UNCHANGED <<inode, eFileLock, bigLock, closing>>, nFault' \in 0 .. MaxFault,
         KernelApart', kern' \in [Proc -> [LockRange -> LockType]],
         \A q \in Proc : q # ProcOf[f] => kern'[q] = kern[q],
         Backed(inode[ProcOf[f]].eFileLock, kern'[ProcOf[f]], FALSE),
         kern'[ProcOf[f]]["PENDING_BYTE"] = "F_WRLCK" => kern[ProcOf[f]]["PENDING_BYTE"] = "F_WRLCK"
  PROVE  LockInv'
<1> DEFINE p == ProcOf[f]
<1>1. /\ p \in Proc /\ f # Null /\ FileInv(f) /\ ProcInv(p) /\ lockMutex[p] = f /\ bigLock[p] = Null
      /\ inode[p].eFileLock \in 0 .. 4 /\ eFileLock[f] \in 0 .. 4
  BY Known
<1>2. TypeOK' /\ Changes(f)
  <2>1. TypeOK BY DEF LockInv
  <2>2. TypeOK' BY <2>1, ReturnEffect, Zenon DEF TypeOK, LockType
  <2>3. Changes(f)
    <3>1. /\ \A q \in Proc : q # p => lockMutex'[q] = lockMutex[q] /\ bigLock'[q] = bigLock[q]
          /\ \A g \in File : g # f => /\ pc'[g] = pc[g] /\ want'[g] = want[g] /\ got'[g] = got[g]
                                      /\ closing'[g] = closing[g]
      BY ReturnEffect
    <3> QED BY <3>1 DEF Changes
  <2> QED BY <2>2, <2>3
<1>3. Owns(f)'
  <2>1. Owns(f) /\ (pc[f] \in {"rdlock", "unreserve"} => eFileLock[f] >= RESERVED_LOCK)
    BY <1>1 DEF FileInv, Knows, Inode, AtLevel
  <2>2. /\ lockMutex'[p] = Null /\ bigLock'[p] = Null /\ want'[f] = NO_LOCK
        /\ closing'[f] = closing[f] /\ eFileLock'[f] = eFileLock[f]
        /\ pc'[f] = IF closing[f] THEN "close" ELSE "open"
    BY <1>1, ReturnEffect
  <2>3. closing[f] => pc[f] = "unreserve" BY <2>1 DEF Owns, InCall
  <2> QED BY SMTT(20), <1>1, <2>1, <2>2, <2>3 DEF Owns, InCall, NoInode
<1>4. Knows(f, Inode(f).eFileLock, kern[p])'
  <2>1. AtLevel(eFileLock[f], inode[p].eFileLock) BY <1>1 DEF FileInv, Knows, Inode, InCall, AtLevel
  <2> QED BY <2>1, ReturnEffect DEF Knows, Inode, AtLevel
<1>5. ASSUME NEW g \in File, g # f, ProcOf[g] = p
      PROVE  AtLevel(eFileLock[g], inode'[p].eFileLock) /\ Pair(f, g)' /\ Pair(g, f)'
  <2>1. FileInv(g) /\ lockMutex[p] # g /\ Pair(f, g) /\ Pair(g, f) BY <1>1, <1>5 DEF LockInv, AtLevel
  <2> QED BY <2>1, <1>5 DEF FileInv, Owns, Knows, Inode, InCall, Pair, AtLevel
<1>6. Backed(inode'[p].eFileLock, kern'[p], pc'[f] = "unreserve" /\ want'[f] = SHARED_LOCK)
  BY ReturnEffect DEF Backed
<1>7. pc[f] \notin NoInode /\ pc'[f] \notin NoInode BY ReturnEffect DEF InCall, NoInode
<1>8. Counts(inode[p], Cardinality(LockedOf(p)), Cardinality(OpenOf(p)), Owner(p))'
  BY <1>2, <1>7, SameCounts
<1>9. ASSUME NEW q \in Proc, q # p
      PROVE  /\ inode'[p].eFileLock = EXCLUSIVE_LOCK /\ kern'[p]["PENDING_BYTE"] = "F_WRLCK"
                  => inode[q].eFileLock = NO_LOCK
             /\ inode[q].eFileLock = EXCLUSIVE_LOCK /\ kern[q]["PENDING_BYTE"] = "F_WRLCK"
                  => inode'[p].eFileLock = NO_LOCK
  BY <1>1, <1>9 DEF LockInv, Apart
<1>10. lockMutex'[p] = Null /\ bigLock'[p] = Null BY <1>1, ReturnEffect
<1> QED BY <1>1, <1>2, <1>3, <1>4, <1>5, <1>6, <1>8, <1>9, <1>10, CallStep

(* The call of f goes on, or begins, and no level or count has changed.    *)
LEMMA GoesOn ==
  ASSUME LockInv, NEW f \in File, NEW label \in InCall, TypeOK', Changes(f),
         pc[f] \notin NoInode, pc'[f] = label,
         lockMutex[ProcOf[f]] \in {f, Null}, lockMutex'[ProcOf[f]] = f, bigLock[ProcOf[f]] = Null,
         UNCHANGED <<inode, eFileLock, bigLock>>, KernelApart',
         closing'[f] => label \in {"unreserve", "unshare"} /\ want'[f] = NO_LOCK,
         Knows(f, Inode(f).eFileLock, kern[ProcOf[f]])',
         Backed(inode[ProcOf[f]].eFileLock, kern'[ProcOf[f]],
                label = "unreserve" /\ want'[f] = SHARED_LOCK),
         kern'[ProcOf[f]]["PENDING_BYTE"] = "F_WRLCK" => kern[ProcOf[f]]["PENDING_BYTE"] = "F_WRLCK"
  PROVE  LockInv'
<1> DEFINE p == ProcOf[f]
<1>1. p \in Proc /\ f # Null /\ FileInv(f) /\ ProcInv(p) BY Known
<1>2. Owns(f)' BY <1>1 DEF Owns, InCall, NoInode
<1>3. ASSUME NEW g \in File, g # f, ProcOf[g] = p
      PROVE  AtLevel(eFileLock[g], inode'[p].eFileLock) /\ Pair(f, g)' /\ Pair(g, f)'
  <2>1. FileInv(g) /\ lockMutex[p] # g /\ Pair(f, g) /\ Pair(g, f)
    BY <1>1, <1>3, UnixAssumption DEF LockInv
  <2> QED BY <2>1, <1>3 DEF FileInv, Owns, Knows, Inode, InCall, Pair, AtLevel
<1>4. Backed(inode'[p].eFileLock, kern'[p], pc'[f] = "unreserve" /\ want'[f] = SHARED_LOCK)
  OBVIOUS
<1>5. pc'[f] \notin NoInode BY DEF InCall, NoInode
<1>6. Counts(inode[p], Cardinality(LockedOf(p)), Cardinality(OpenOf(p)), Owner(p))'
  BY <1>5, SameCounts
<1>7. ASSUME NEW q \in Proc, q # p
      PROVE  /\ inode'[p].eFileLock = EXCLUSIVE_LOCK /\ kern'[p]["PENDING_BYTE"] = "F_WRLCK"
                  => inode[q].eFileLock = NO_LOCK
             /\ inode[q].eFileLock = EXCLUSIVE_LOCK /\ kern[q]["PENDING_BYTE"] = "F_WRLCK"
                  => inode'[p].eFileLock = NO_LOCK
  BY <1>1, <1>7 DEF LockInv, Apart
<1> QED BY <1>2, <1>3, <1>4, <1>6, <1>7, CallStep

(* A process whose handle f is outside a downgrade is not downgrading.     *)
LEMMA NotDowngrading ==
  ASSUME LockInv, NEW f \in File, lockMutex[ProcOf[f]] \in {f, Null},
         ~(pc[f] = "unreserve" /\ want[f] = SHARED_LOCK)
  PROVE  Backed(inode[ProcOf[f]].eFileLock, kern[ProcOf[f]], FALSE)
<1>1. ASSUME NEW g \in File, ProcOf[g] = ProcOf[f], pc[g] = "unreserve" PROVE g = f
  <2>1. Owns(g) /\ g # Null BY UnixAssumption DEF LockInv, FileInv
  <2> QED BY <1>1, <2>1 DEF Owns, InCall
<1>2. ~Downgrading(ProcOf[f]) BY <1>1 DEF Downgrading
<1>3. ProcInv(ProcOf[f]) BY Known
<1> QED BY <1>2, <1>3 DEF ProcInv, Backed

(* A lock request that fails changes no kernel lock.                       *)
LEMMA FailEffect ==
  ASSUME LockInv, NEW f \in File, NEW b, NEW type, LockFails(f, b, type)
  PROVE  UNCHANGED kern /\ nFault' \in 0 .. MaxFault
BY SMTT(20), UnixAssumption DEF LockInv, TypeOK, LockFails

InodeInfo == [eFileLock : 0 .. 4, nShared : Nat, nLock : Nat, nRef : Nat, nUnused : Nat]

(* Only the inode record of the process of f changes.                      *)
LEMMA SetInodeEffect ==
  ASSUME LockInv, NEW f \in File, NEW i \in InodeInfo, SetInode(f, i)
  PROVE  /\ inode' \in [Proc -> InodeInfo] /\ inode'[ProcOf[f]] = i
         /\ \A q \in Proc : q # ProcOf[f] => inode'[q] = inode[q]
<1>1. ProcOf[f] \in Proc /\ inode \in [Proc -> InodeInfo]
  BY UnixAssumption DEF LockInv, TypeOK, InodeInfo
<1> QED BY <1>1 DEF SetInode

(* The handle's own variables.                                             *)
LEMMA SetFileEffect ==
  ASSUME LockInv, NEW f \in File, NEW l \in 0 .. 4, SetFileLock(f, l)
  PROVE  /\ eFileLock' \in [File -> 0 .. 4] /\ eFileLock'[f] = l
         /\ \A g \in File : g # f => eFileLock'[g] = eFileLock[g]
BY DEF SetFileLock, LockInv, TypeOK

(* Only f moves.                                                           *)
LEMMA GotoEffect ==
  ASSUME LockInv, NEW f \in File, NEW label \in Labels, Goto(f, label)
  PROVE  /\ pc' \in [File -> Labels] /\ pc'[f] = label
         /\ \A g \in File : g # f => pc'[g] = pc[g]
BY DEF Goto, LockInv, TypeOK

(* unixLock asking for the PENDING byte.                                   *)
LEMMA GetPendingInv ==
  ASSUME LockInv, NEW f \in File, GetPending(f)
  PROVE  LockInv'
<1> DEFINE p == ProcOf[f]
           type == IF want[f] = SHARED_LOCK THEN "F_RDLCK" ELSE "F_WRLCK"
<1>1. /\ p \in Proc /\ f # Null /\ FileInv(f) /\ ProcInv(p) /\ lockMutex[p] = f /\ bigLock[p] = Null
      /\ inode[p] \in [eFileLock : 0 .. 4, nShared : Nat, nLock : Nat, nRef : Nat, nUnused : Nat]
      /\ eFileLock[f] \in 0 .. 4 /\ pc[f] = "pending"
  BY Known DEF GetPending, InCall
<1>2. Backed(inode[p].eFileLock, kern[p], FALSE) BY <1>1, NotDowngrading
<1>3. CASE LockFails(f, "PENDING_BYTE", type) /\ Return(f) /\ UNCHANGED <<eFileLock, inode>>
  <2>1. UNCHANGED kern /\ nFault' \in 0 .. MaxFault BY <1>3, FailEffect
  <2>2. UNCHANGED <<bigLock, closing>> /\ pc[f] \in InCall \ {"unshare"}
    BY <1>1 DEF GetPending, InCall
  <2> QED BY <1>2, <1>3, <2>1, <2>2, KernelKept, GivesUp
<1>4. CASE PendingLock(f, type) /\ want[f] = SHARED_LOCK /\ Goto(f, "getshared")
           /\ UNCHANGED <<eFileLock, inode, lockMutex, want, got>>
  <2>1. /\ kern' \in [Proc -> [LockRange -> LockType]] /\ nFault' = nFault
        /\ kern'[p]["PENDING_BYTE"] = "F_RDLCK"
        /\ \A c \in LockRange : c # "PENDING_BYTE" => kern'[p][c] = kern[p][c]
        /\ \A q \in Proc : q # p => kern'[q] = kern[q]
        /\ KernelApart'
    BY <1>4, SetLockEffect DEF PendingLock, LockRange
  <2>2. UNCHANGED <<bigLock, closing>> BY DEF GetPending
  <2>3. /\ pc' \in [File -> Labels] /\ pc'[f] = "getshared"
        /\ \A g \in File : g # f => pc'[g] = pc[g]
    BY <1>4 DEF Goto, LockInv, TypeOK, Labels
  <2>4. TypeOK' BY <1>4, <2>1, <2>2, <2>3, Zenon DEF LockInv, TypeOK, LockType
  <2>5. Changes(f) BY <1>4, <2>1, <2>2, <2>3, Zenon DEF Changes
  <2>6. inode[p].eFileLock = NO_LOCK /\ ~closing[f] /\ AtLevel(eFileLock[f], inode[p].eFileLock)
    BY SMTT(20), <1>1, <1>4 DEF FileInv, Owns, Knows, Inode, AtLevel
  <2>7. Knows(f, Inode(f).eFileLock, kern[p])'
    BY <1>4, <2>1, <2>3, <2>6 DEF Knows, Inode, AtLevel
  <2>8. Backed(inode[p].eFileLock, kern'[p], FALSE)
    BY SMTT(20), <1>2, <2>1, <2>6 DEF Backed, LockRange
  <2>9. "getshared" \in InCall /\ pc[f] \notin NoInode BY <1>1 DEF InCall, NoInode
  <2> QED BY <1>1, <1>4, <2>1, <2>2, <2>3, <2>4, <2>5, <2>6, <2>7, <2>8, <2>9, GoesOn
<1>5. CASE PendingLock(f, type) /\ want[f] # SHARED_LOCK /\ SetFileLock(f, PENDING_LOCK)
           /\ Goto(f, "range") /\ SetInode(f, [Inode(f) EXCEPT !.eFileLock = PENDING_LOCK])
           /\ UNCHANGED <<lockMutex, want, got>>
  <2>1. /\ kern' \in [Proc -> [LockRange -> LockType]] /\ nFault' = nFault
        /\ kern'[p]["PENDING_BYTE"] = "F_WRLCK"
        /\ \A c \in LockRange : c # "PENDING_BYTE" => kern'[p][c] = kern[p][c]
        /\ \A q \in Proc : q # p => kern'[q] = kern[q] /\ kern[q]["PENDING_BYTE"] = "F_UNLCK"
        /\ KernelApart'
    BY SMTT(20), <1>5, SetLockEffect DEF PendingLock, LockRange
  <2>2. UNCHANGED <<bigLock, closing>> BY DEF GetPending
  <2>3. /\ pc' \in [File -> Labels] /\ pc'[f] = "range"
        /\ \A g \in File : g # f => pc'[g] = pc[g]
        /\ eFileLock' \in [File -> 0 .. 4] /\ eFileLock'[f] = PENDING_LOCK
        /\ \A g \in File : g # f => eFileLock'[g] = eFileLock[g]
    BY SMTT(20), <1>5 DEF Goto, SetFileLock, LockInv, TypeOK, Labels
  <2>4. /\ inode' \in [Proc -> InodeInfo]
        /\ inode'[p] = [inode[p] EXCEPT !.eFileLock = PENDING_LOCK]
        /\ \A q \in Proc : q # p => inode'[q] = inode[q]
    <3>1. [inode[p] EXCEPT !.eFileLock = PENDING_LOCK] \in InodeInfo BY SMTT(20), <1>1 DEF InodeInfo
    <3> QED BY <1>5, <3>1, SetInodeEffect DEF Inode
  <2>5. TypeOK'
    BY <1>5, <2>1, <2>2, <2>3, <2>4, Zenon DEF LockInv, TypeOK, LockType, InodeInfo
  <2>6. Changes(f) BY <1>5, <2>1, <2>2, <2>3, <2>4, Zenon DEF Changes
  <2>7. /\ inode[p].eFileLock = RESERVED_LOCK /\ eFileLock[f] = RESERVED_LOCK
        /\ want[f] = EXCLUSIVE_LOCK /\ ~closing[f]
    BY <1>1, <1>5 DEF FileInv, Owns, Knows, Inode, AtLevel
  <2>8. inode'[p].eFileLock = PENDING_LOCK BY <1>1, <2>4
  <2>9. Owns(f)' BY <1>1, <1>5, <2>2, <2>3, <2>7 DEF FileInv, Owns, InCall, NoInode
  <2>10. Knows(f, Inode(f).eFileLock, kern[p])'
    BY SMTT(20), <1>5, <2>3, <2>7, <2>8 DEF Knows, Inode, AtLevel
  <2>11. ASSUME NEW g \in File, g # f, ProcOf[g] = p
         PROVE  AtLevel(eFileLock[g], inode'[p].eFileLock) /\ Pair(f, g)' /\ Pair(g, f)'
    <3>1. Pair(f, g) /\ eFileLock[g] \in 0 .. 4 BY <2>11 DEF LockInv, TypeOK, AtLevel
    <3> QED BY SMTT(20), <2>3, <2>7, <2>8, <2>11, <3>1 DEF Pair, AtLevel
  <2>12. Backed(inode'[p].eFileLock, kern'[p], pc'[f] = "unreserve" /\ want'[f] = SHARED_LOCK)
    BY SMTT(20), <1>2, <2>1, <2>7, <2>8 DEF Backed, LockRange
  <2>13. Counts(inode[p], Cardinality(LockedOf(p)), Cardinality(OpenOf(p)), Owner(p))'
    <3>1. /\ Cardinality(LockedOf(p))' = Cardinality(LockedOf(p))
          /\ Cardinality(OpenOf(p))' = Cardinality(OpenOf(p))
      <4>1. pc[f] \notin NoInode /\ pc'[f] \notin NoInode BY <1>1, <2>3 DEF NoInode
      <4>2. TypeOK BY DEF LockInv
      <4> QED BY SMTT(20), <2>3, <2>5, <2>6, <2>7, <4>1, <4>2, Counting
    <3>2. Owner(p) /\ Owner(p)' BY SMTT(20), <2>3, <2>7 DEF Owner
    <3> QED BY SMTT(20), <1>1, <2>4, <2>7, <2>8, <3>1, <3>2 DEF ProcInv, Counts
  <2>14. ASSUME NEW q \in Proc, q # p
         PROVE  ~(inode[q].eFileLock = EXCLUSIVE_LOCK /\ kern[q]["PENDING_BYTE"] = "F_WRLCK")
    BY <2>1, <2>14
  <2> QED BY SMTT(20), <1>1, <1>5, <2>1, <2>2, <2>5, <2>6, <2>8, <2>9, <2>10, <2>11, <2>12, <2>13, <2>14, CallStep
<1> QED BY <1>3, <1>4, <1>5 DEF GetPending

(* unixLock asking for the shared range.                                   *)
LEMMA GetSharedInv ==
  ASSUME LockInv, NEW f \in File, GetShared(f)
  PROVE  LockInv'
<1> DEFINE p == ProcOf[f]
<1>1. /\ p \in Proc /\ f # Null /\ FileInv(f) /\ lockMutex[p] = f /\ bigLock[p] = Null
      /\ eFileLock[f] \in 0 .. 4 /\ inode[p].eFileLock \in 0 .. 4 /\ pc[f] = "getshared"
  BY Known DEF GetShared, InCall
<1>2. Backed(inode[p].eFileLock, kern[p], FALSE) BY <1>1, NotDowngrading
<1>3. /\ inode[p].eFileLock = NO_LOCK /\ kern[p]["PENDING_BYTE"] = "F_RDLCK" /\ ~closing[f]
      /\ AtLevel(eFileLock[f], inode[p].eFileLock)
  BY <1>1 DEF FileInv, Owns, Knows, Inode, AtLevel
<1>4. /\ kern' \in [Proc -> [LockRange -> LockType]] /\ nFault' \in 0 .. MaxFault /\ KernelApart'
      /\ \A q \in Proc : q # p => kern'[q] = kern[q]
      /\ kern'[p]["PENDING_BYTE"] = kern[p]["PENDING_BYTE"]
      /\ kern'[p]["RESERVED_BYTE"] = kern[p]["RESERVED_BYTE"]
      /\ got' \in [File -> BOOLEAN] /\ (\A g \in File : g # f => got'[g] = got[g])
      /\ got'[f] => kern'[p]["SHARED_RANGE"] = "F_RDLCK"
  <2>0. got \in [File -> BOOLEAN] /\ nFault \in 0 .. MaxFault BY DEF LockInv, TypeOK
  <2>1. CASE SetLock(f, "SHARED_RANGE", "F_RDLCK") /\ got' = [got EXCEPT ![f] = TRUE]
    <3>1. /\ kern' \in [Proc -> [LockRange -> LockType]] /\ nFault' = nFault /\ KernelApart'
          /\ \A q \in Proc : q # p => kern'[q] = kern[q]
          /\ \A c \in LockRange : c # "SHARED_RANGE" => kern'[p][c] = kern[p][c]
          /\ kern'[p]["SHARED_RANGE"] = "F_RDLCK"
      BY <2>1, SetLockEffect DEF LockRange
    <3>2. got' \in [File -> BOOLEAN] /\ (\A g \in File : g # f => got'[g] = got[g])
      BY <2>0, <2>1, Zenon
    <3>3. /\ kern'[p]["PENDING_BYTE"] = kern[p]["PENDING_BYTE"]
          /\ kern'[p]["RESERVED_BYTE"] = kern[p]["RESERVED_BYTE"]
      BY <3>1 DEF LockRange
    <3> QED BY <2>0, <3>1, <3>2, <3>3, Zenon
  <2>2. CASE LockFails(f, "SHARED_RANGE", "F_RDLCK") /\ got' = [got EXCEPT ![f] = FALSE]
    <3>1. UNCHANGED kern /\ nFault' \in 0 .. MaxFault BY <2>2, FailEffect
    <3>2. /\ got' \in [File -> BOOLEAN] /\ (\A g \in File : g # f => got'[g] = got[g])
          /\ got'[f] = FALSE
      BY <2>0, <2>2, Zenon
    <3> QED BY <3>1, <3>2, KernelKept, Zenon
  <2> QED BY <2>1, <2>2 DEF GetShared
<1>5. UNCHANGED <<inode, lockMutex, bigLock, eFileLock, want, closing>> BY DEF GetShared
<1>6. /\ pc' \in [File -> Labels] /\ pc'[f] = "droppending"
      /\ \A g \in File : g # f => pc'[g] = pc[g]
  BY GotoEffect DEF GetShared, Labels
<1>7. TypeOK' BY <1>4, <1>5, <1>6, Zenon DEF LockInv, TypeOK, LockType
<1>8. Changes(f) BY <1>4, <1>5, <1>6, Zenon DEF Changes
<1>9. Knows(f, Inode(f).eFileLock, kern[p])' BY <1>3, <1>4, <1>5, <1>6 DEF Knows, Inode, AtLevel
<1>10. Backed(inode[p].eFileLock, kern'[p], FALSE) BY SMTT(20), <1>2, <1>3, <1>4 DEF Backed
<1>11. "droppending" \in InCall /\ pc[f] \notin NoInode BY <1>1 DEF InCall, NoInode
<1> QED BY <1>1, <1>3, <1>4, <1>5, <1>6, <1>7, <1>8, <1>9, <1>10, <1>11, GoesOn

(* The records that replace a unixInodeInfo.                               *)
LEMMA FirstShared ==
  ASSUME NEW i \in InodeInfo
  PROVE  LET j == [i EXCEPT !.eFileLock = SHARED_LOCK, !.nLock = @ + 1, !.nShared = 1] IN
         /\ j \in InodeInfo /\ j.eFileLock = SHARED_LOCK /\ j.nLock = i.nLock + 1
         /\ j.nShared = 1 /\ j.nRef = i.nRef /\ j.nUnused = i.nUnused
<1> DEFINE j == [i EXCEPT !.eFileLock = SHARED_LOCK, !.nLock = @ + 1, !.nShared = 1]
           j1 == [i EXCEPT !.eFileLock = SHARED_LOCK]
           j2 == [j1 EXCEPT !.nLock = i.nLock + 1]
           j3 == [j2 EXCEPT !.nShared = 1]
<1>1. j1 \in InodeInfo /\ i.nLock + 1 \in Nat BY SMTT(20) DEF InodeInfo
<1>2. j2 \in InodeInfo
  <2> HIDE DEF j1
  <2> QED BY <1>1 DEF InodeInfo
<1>3. j3 \in InodeInfo
  <2> HIDE DEF j2
  <2> QED BY <1>2 DEF InodeInfo
<1>4. j3 = j BY Zenon DEF InodeInfo
<1>5. /\ j.eFileLock = SHARED_LOCK /\ j.nLock = i.nLock + 1
      /\ j.nShared = 1 /\ j.nRef = i.nRef /\ j.nUnused = i.nUnused
  BY DEF InodeInfo
<1> QED BY <1>3, <1>4, <1>5, Zenon

(* One more holder of SHARED in the inode record.                          *)
LEMMA MoreShared ==
  ASSUME NEW i \in InodeInfo
  PROVE  /\ OneMore(i) \in InodeInfo /\ OneMore(i).eFileLock = i.eFileLock
         /\ OneMore(i).nLock = i.nLock + 1 /\ OneMore(i).nShared = i.nShared + 1
         /\ OneMore(i).nRef = i.nRef /\ OneMore(i).nUnused = i.nUnused
<1> DEFINE j1 == [i EXCEPT !.nShared = i.nShared + 1]
           j2 == [j1 EXCEPT !.nLock = i.nLock + 1]
<1>1. j1 \in InodeInfo /\ i.nLock + 1 \in Nat BY SMTT(20) DEF InodeInfo
<1>2. j2 \in InodeInfo
  <2> HIDE DEF j1
  <2> QED BY <1>1 DEF InodeInfo
<1>3. j2 = OneMore(i) BY Zenon DEF InodeInfo, OneMore
<1>4. /\ OneMore(i).eFileLock = i.eFileLock
      /\ OneMore(i).nLock = i.nLock + 1 /\ OneMore(i).nShared = i.nShared + 1
      /\ OneMore(i).nRef = i.nRef /\ OneMore(i).nUnused = i.nUnused
  BY DEF InodeInfo, OneMore
<1> QED BY <1>2, <1>3, <1>4, Zenon

Fewer(i, u, l) == [i EXCEPT !.nShared = @ - 1, !.nLock = @ - 1, !.nUnused = u, !.eFileLock = l]

(* One holder less, as posixUnlock counts it.                              *)
LEMMA LessShared ==
  ASSUME NEW i \in InodeInfo, i.nShared >= 1, i.nLock >= 1, NEW u \in Nat, NEW l \in 0 .. 4
  PROVE  LET j == Fewer(i, u, l) IN
         /\ j \in InodeInfo /\ j.eFileLock = l /\ j.nLock = i.nLock - 1
         /\ j.nShared = i.nShared - 1 /\ j.nRef = i.nRef /\ j.nUnused = u
<1> DEFINE j == Fewer(i, u, l)
           j1 == [i EXCEPT !.nShared = i.nShared - 1]
           j2 == [j1 EXCEPT !.nLock = i.nLock - 1]
           j3 == [j2 EXCEPT !.nUnused = u]
           j4 == [j3 EXCEPT !.eFileLock = l]
<1>1. j1 \in InodeInfo /\ i.nLock - 1 \in Nat BY SMTT(20) DEF InodeInfo
<1>2. j2 \in InodeInfo
  <2> HIDE DEF j1
  <2> QED BY <1>1 DEF InodeInfo
<1>3. j3 \in InodeInfo
  <2> HIDE DEF j2
  <2> QED BY <1>2 DEF InodeInfo
<1>4. j4 \in InodeInfo
  <2> HIDE DEF j3
  <2> QED BY <1>3 DEF InodeInfo
<1>5. j4 = j BY Zenon DEF InodeInfo, Fewer
<1>6. /\ j.eFileLock = l /\ j.nLock = i.nLock - 1
      /\ j.nShared = i.nShared - 1 /\ j.nRef = i.nRef /\ j.nUnused = u
  BY DEF InodeInfo, Fewer
<1> QED BY <1>4, <1>5, <1>6, Zenon

(* The counts with one lock more, and one less.                            *)
LEMMA CountsMore ==
  ASSUME NEW i, NEW j, NEW n \in Nat, NEW m, NEW owner \in BOOLEAN, Counts(i, n, m, owner),
         i.nLock \in Nat, i.nShared \in Nat, i.eFileLock \in {SHARED_LOCK, RESERVED_LOCK},
         j.eFileLock = i.eFileLock, j.nLock = i.nLock + 1, j.nShared = i.nShared + 1, j.nRef = i.nRef
  PROVE  Counts(j, n + 1, m, owner)
<1>1. CASE owner BY SMTT(20), <1>1 DEF Counts
<1>2. CASE ~owner BY SMTT(20), <1>2 DEF Counts
<1> QED BY <1>1, <1>2

(* The counts with one lock less.                                          *)
LEMMA CountsLess ==
  ASSUME NEW i, NEW j, NEW n \in Nat, NEW m, NEW owner \in BOOLEAN, Counts(i, n, m, owner),
         i.nLock \in Nat, i.nShared \in Nat, i.eFileLock \in 0 .. 4, n >= 1, i.nShared >= 1,
         i.nShared = 1 => i.eFileLock = SHARED_LOCK /\ n = 1,
         j.eFileLock = IF i.nShared = 1 THEN NO_LOCK ELSE i.eFileLock, j.nLock = i.nLock - 1,
         j.nUnused = IF i.nShared = 1 THEN 0 ELSE i.nUnused,
         j.nShared = i.nShared - 1, j.nRef = i.nRef
  PROVE  Counts(j, n - 1, m, owner)
<1>1. CASE owner BY SMTT(20), <1>1 DEF Counts
<1>2. CASE ~owner BY SMTT(20), <1>2 DEF Counts
<1> QED BY <1>1, <1>2

(* The counts when a descriptor is closed: it held no lock, or it was the  *)
(* one with the RESERVED lock.                                             *)
LEMMA CountsClosed ==
  ASSUME NEW i, NEW j, NEW n \in Nat, NEW m, NEW owner \in BOOLEAN, NEW after \in BOOLEAN,
         Counts(i, n, m, owner), i.nLock > 0, i.nLock \in Nat, i.eFileLock \in 0 .. 4,
         after <=> owner,
         j.eFileLock = i.eFileLock, j.nLock = i.nLock, j.nShared = i.nShared, j.nRef = i.nRef - 1
  PROVE  Counts(j, n, m - 1, after)
<1>1. CASE owner BY SMTT(20), <1>1 DEF Counts
<1>2. CASE ~owner BY SMTT(20), <1>2 DEF Counts
<1> QED BY <1>1, <1>2

(* The counts when the holder of RESERVED is closed after its unlock failed. *)
LEMMA CountsOrphaned ==
  ASSUME NEW i, NEW j, NEW n \in Nat, NEW m, Counts(i, n, m, TRUE), NEW after \in BOOLEAN, ~after,
         i.nLock > 0, i.nLock \in Nat, i.eFileLock \in 0 .. 4, i.eFileLock >= RESERVED_LOCK,
         j.eFileLock = i.eFileLock, j.nLock = i.nLock, j.nShared = i.nShared, j.nRef = i.nRef - 1
  PROVE  Counts(j, n - 1, m - 1, after)
BY SMTT(20) DEF Counts

(* releaseInodeInfo: one reference less, and a fresh record after the last. *)
LEMMA LessRef ==
  ASSUME NEW i \in InodeInfo, i.nRef >= 1
  PROVE  /\ Released(i) \in InodeInfo
         /\ i.nRef = 1 => Released(i) = NewInode
         /\ i.nRef # 1 => /\ Released(i).eFileLock = i.eFileLock /\ Released(i).nLock = i.nLock
                          /\ Released(i).nShared = i.nShared /\ Released(i).nRef = i.nRef - 1
                          /\ Released(i).nUnused = i.nUnused
<1>1. NewInode \in InodeInfo BY SMTT(20) DEF NewInode, InodeInfo
<1>2. [i EXCEPT !.nRef = @ - 1] \in InodeInfo BY SMTT(20) DEF InodeInfo
<1>3. i.nRef # 1 => /\ Released(i).eFileLock = i.eFileLock /\ Released(i).nLock = i.nLock
                    /\ Released(i).nShared = i.nShared /\ Released(i).nRef = i.nRef - 1
                    /\ Released(i).nUnused = i.nUnused
  BY DEF Released, InodeInfo
<1> QED BY <1>1, <1>2, <1>3, Zenon DEF Released

(* unixLock dropping the PENDING byte after the SHARED attempt.            *)
LEMMA DropPendingInv ==
  ASSUME LockInv, NEW f \in File, DropPending(f)
  PROVE  LockInv'
<1> DEFINE p == ProcOf[f]
           j == [inode[p] EXCEPT !.eFileLock = SHARED_LOCK, !.nLock = @ + 1, !.nShared = 1]
<1>1. /\ p \in Proc /\ f # Null /\ FileInv(f) /\ ProcInv(p) /\ lockMutex[p] = f /\ bigLock[p] = Null
      /\ inode[p] \in InodeInfo /\ eFileLock[f] \in 0 .. 4 /\ pc[f] = "droppending" /\ TypeOK
      /\ nFault \in 0 .. MaxFault
  BY Known DEF DropPending, InCall, InodeInfo, LockInv, TypeOK
<1>2. Backed(inode[p].eFileLock, kern[p], FALSE) BY <1>1, NotDowngrading
<1>3. /\ inode[p].eFileLock = NO_LOCK /\ kern[p]["PENDING_BYTE"] = "F_RDLCK" /\ ~closing[f]
      /\ eFileLock[f] = NO_LOCK /\ (got[f] => kern[p]["SHARED_RANGE"] = "F_RDLCK")
  BY SMTT(20), <1>1 DEF FileInv, Owns, Knows, Inode, AtLevel
<1>4. UNCHANGED <<bigLock, closing>> /\ Return(f) /\ pc[f] \in InCall \ {"unshare"}
  BY <1>1 DEF DropPending, InCall
<1>5. CASE UnlockFails(f, {"PENDING_BYTE"}) /\ UNCHANGED <<eFileLock, inode>>
  <2>1. UNCHANGED kern /\ nFault' \in 0 .. MaxFault
    BY SMTT(20), <1>1, <1>5, UnixAssumption DEF UnlockFails
  <2> QED BY <1>2, <1>4, <1>5, <2>1, KernelKept, GivesUp
<1>6. CASE Unlock(f, {"PENDING_BYTE"})
  <2>1. /\ kern' \in [Proc -> [LockRange -> LockType]] /\ nFault' = nFault /\ KernelApart'
        /\ \A q \in Proc : q # p => kern'[q] = kern[q]
        /\ kern'[p]["PENDING_BYTE"] = "F_UNLCK"
        /\ kern'[p]["RESERVED_BYTE"] = kern[p]["RESERVED_BYTE"]
        /\ kern'[p]["SHARED_RANGE"] = kern[p]["SHARED_RANGE"]
    <3>1. {"PENDING_BYTE"} \in SUBSET LockRange BY DEF LockRange
    <3>2. nFault' = nFault BY <1>6 DEF Unlock
    <3>3. /\ kern' \in [Proc -> [LockRange -> LockType]] /\ KernelApart'
          /\ \A q \in Proc : q # p => kern'[q] = kern[q]
          /\ \A c \in LockRange :
               kern'[p][c] = IF c \in {"PENDING_BYTE"} THEN "F_UNLCK" ELSE kern[p][c]
      BY <1>6, <3>1, UnlockEffect DEF Unlock
    <3> QED BY <3>2, <3>3 DEF LockRange
  <2>2. CASE ~got[f]
    <3>1. UNCHANGED <<eFileLock, inode>>
      BY <1>6, <2>2, <1>3, <2>1 DEF DropPending, UnlockFails
    <3>2. Backed(inode[p].eFileLock, kern'[p], FALSE) BY <1>2, <1>3, <2>1 DEF Backed
    <3> QED BY <1>1, <1>4, <2>1, <3>1, <3>2, GivesUp
  <2>3. CASE got[f]
    <3>1. SetFileLock(f, SHARED_LOCK) /\ SetInode(f, j)
      BY <1>3, <2>1, <2>3 DEF DropPending, UnlockFails, Inode
    <3>2. /\ j \in InodeInfo /\ j.eFileLock = SHARED_LOCK /\ j.nLock = inode[p].nLock + 1
          /\ j.nShared = 1 /\ j.nRef = inode[p].nRef /\ j.nUnused = inode[p].nUnused
      BY <1>1, FirstShared
    <3> HIDE DEF j
    <3>3. /\ inode' \in [Proc -> InodeInfo] /\ inode'[p] = j
          /\ \A q \in Proc : q # p => inode'[q] = inode[q]
      BY <3>1, <3>2, SetInodeEffect
    <3>4. /\ eFileLock' \in [File -> 0 .. 4] /\ eFileLock'[f] = SHARED_LOCK
          /\ \A g \in File : g # f => eFileLock'[g] = eFileLock[g]
      BY SMTT(20), <3>1, SetFileEffect
    <3>5. TypeOK'
      BY <1>1, <1>4, <2>1, <3>3, <3>4, ReturnEffect, Zenon DEF TypeOK, LockType, InodeInfo
    <3>6. Changes(f)
      <4>1. /\ \A q \in Proc : q # p => lockMutex'[q] = lockMutex[q] /\ bigLock'[q] = bigLock[q]
            /\ \A g \in File : g # f => /\ pc'[g] = pc[g] /\ want'[g] = want[g] /\ got'[g] = got[g]
                                        /\ closing'[g] = closing[g]
        BY <1>4, ReturnEffect
      <4> QED BY <2>1, <3>3, <3>4, <4>1 DEF Changes
    <3>7. /\ lockMutex'[p] = Null /\ bigLock'[p] = Null /\ pc'[f] = "open" /\ want'[f] = NO_LOCK
          /\ ~closing'[f]
      BY <1>1, <1>3, <1>4, ReturnEffect
    <3>8. Owns(f)' BY <1>1, <3>7 DEF Owns, InCall, NoInode
    <3>9. Knows(f, Inode(f).eFileLock, kern[p])' BY SMTT(20), <3>2, <3>3, <3>4, <3>7 DEF Knows, Inode, AtLevel
    <3>10. ASSUME NEW g \in File, g # f, ProcOf[g] = p
           PROVE  AtLevel(eFileLock[g], inode'[p].eFileLock) /\ Pair(f, g)' /\ Pair(g, f)'
      <4>1. FileInv(g) /\ lockMutex[p] # g /\ eFileLock[g] \in 0 .. 4
        BY <1>1, <3>10 DEF LockInv, TypeOK
      <4>2. eFileLock[g] = NO_LOCK
        BY SMTT(20), <1>3, <3>10, <4>1 DEF FileInv, Owns, Knows, Inode, InCall, AtLevel
      <4> QED BY SMTT(20), <3>2, <3>3, <3>4, <3>10, <4>2 DEF Pair, AtLevel
    <3>11. Backed(inode'[p].eFileLock, kern'[p], pc'[f] = "unreserve" /\ want'[f] = SHARED_LOCK)
      BY SMTT(20), <1>2, <1>3, <2>1, <2>3, <3>2, <3>3 DEF Backed
    <3>12. Counts(inode[p], Cardinality(LockedOf(p)), Cardinality(OpenOf(p)), Owner(p))'
      <4>1. pc[f] \notin NoInode /\ pc'[f] \notin NoInode BY <1>1, <3>7 DEF NoInode
      <4>2. /\ Cardinality(LockedOf(p))' = Cardinality(LockedOf(p)) + 1
            /\ Cardinality(OpenOf(p))' = Cardinality(OpenOf(p))
        BY SMTT(20), <1>1, <1>3, <3>4, <3>5, <3>6, <4>1, Counting
      <4> QED BY SMTT(20), <1>1, <1>3, <3>2, <3>3, <4>2 DEF ProcInv, Counts, InodeInfo
    <3>13. ASSUME NEW q \in Proc, q # p
           PROVE  ~(inode[q].eFileLock = EXCLUSIVE_LOCK /\ kern[q]["PENDING_BYTE"] = "F_WRLCK")
      BY <1>1, <1>3, <3>13 DEF LockInv, Apart, LockRange
    <3>14. inode'[p].eFileLock # EXCLUSIVE_LOCK BY SMTT(20), <3>2, <3>3
    <3> QED BY <1>1, <2>1, <3>5, <3>6, <3>7, <3>8, <3>9, <3>10, <3>11, <3>12, <3>13, <3>14, CallStep
  <2> QED BY <2>2, <2>3
<1> QED BY <1>5, <1>6 DEF DropPending

(* unixLock asking for RESERVED or EXCLUSIVE.                              *)
LEMMA GetRangeInv ==
  ASSUME LockInv, NEW f \in File, GetRange(f)
  PROVE  LockInv'
<1> DEFINE p == ProcOf[f]
           range == IF want[f] = RESERVED_LOCK THEN "RESERVED_BYTE" ELSE "SHARED_RANGE"
           j == [inode[p] EXCEPT !.eFileLock = want[f]]
<1>1. /\ p \in Proc /\ f # Null /\ FileInv(f) /\ ProcInv(p) /\ lockMutex[p] = f /\ bigLock[p] = Null
      /\ inode[p] \in InodeInfo /\ eFileLock[f] \in 0 .. 4 /\ pc[f] = "range" /\ TypeOK
      /\ nFault \in 0 .. MaxFault /\ want[f] \in 0 .. 4
  BY Known DEF GetRange, InCall, InodeInfo, LockInv, TypeOK
<1>2. Backed(inode[p].eFileLock, kern[p], FALSE) BY <1>1, NotDowngrading
<1>3. /\ eFileLock[f] = inode[p].eFileLock /\ ~closing[f]
      /\ \/ want[f] = RESERVED_LOCK /\ inode[p].eFileLock = SHARED_LOCK
         \/ want[f] = EXCLUSIVE_LOCK /\ inode[p].eFileLock \in {SHARED_LOCK, PENDING_LOCK}
  BY <1>1 DEF FileInv, Owns, Knows, Inode, AtLevel
<1>4. UNCHANGED <<bigLock, closing>> /\ Return(f) /\ pc[f] \in InCall \ {"unshare"}
  BY <1>1 DEF GetRange, Refused, InCall
<1>5. CASE UNCHANGED <<kern, eFileLock, inode>> /\ nFault' \in 0 .. MaxFault
  BY <1>2, <1>4, <1>5, KernelKept, GivesUp
<1>6. CASE SetLock(f, range, "F_WRLCK") /\ SetFileLock(f, want[f]) /\ SetInode(f, j)
           /\ ~OthersShare(f)
  <2>1. /\ kern' \in [Proc -> [LockRange -> LockType]] /\ nFault' = nFault /\ KernelApart'
        /\ kern'[p][range] = "F_WRLCK"
        /\ \A c \in LockRange : c # range => kern'[p][c] = kern[p][c]
        /\ \A q \in Proc : q # p => kern'[q] = kern[q] /\ kern[q][range] = "F_UNLCK"
    BY SMTT(20), <1>6, SetLockEffect DEF LockRange
  <2>2. /\ j \in InodeInfo /\ j.eFileLock = want[f] /\ j.nLock = inode[p].nLock
        /\ j.nShared = inode[p].nShared /\ j.nRef = inode[p].nRef /\ j.nUnused = inode[p].nUnused
    BY <1>1 DEF InodeInfo
  <2> HIDE DEF j
  <2>3. /\ inode' \in [Proc -> InodeInfo] /\ inode'[p] = j
        /\ \A q \in Proc : q # p => inode'[q] = inode[q]
    BY <1>6, <2>2, SetInodeEffect
  <2>4. /\ eFileLock' \in [File -> 0 .. 4] /\ eFileLock'[f] = want[f]
        /\ \A g \in File : g # f => eFileLock'[g] = eFileLock[g]
    BY <1>1, <1>6, SetFileEffect
  <2>5. TypeOK'
    BY <1>1, <1>4, <2>1, <2>3, <2>4, ReturnEffect, Zenon DEF TypeOK, LockType, InodeInfo
  <2>6. Changes(f)
    <3>1. /\ \A q \in Proc : q # p => lockMutex'[q] = lockMutex[q] /\ bigLock'[q] = bigLock[q]
          /\ \A g \in File : g # f => /\ pc'[g] = pc[g] /\ want'[g] = want[g] /\ got'[g] = got[g]
                                      /\ closing'[g] = closing[g]
      BY <1>4, ReturnEffect
    <3>2. \A q \in Proc : q # p => kern'[q] = kern[q] BY <2>1
    <3> QED BY <3>2, <2>3, <2>4, <3>1 DEF Changes
  <2>7. /\ lockMutex'[p] = Null /\ bigLock'[p] = Null /\ pc'[f] = "open" /\ want'[f] = NO_LOCK
        /\ ~closing'[f]
    BY <1>1, <1>3, <1>4, ReturnEffect
  <2>8. Owns(f)' BY <1>1, <2>7 DEF Owns, InCall, NoInode
  <2>9. Knows(f, Inode(f).eFileLock, kern[p])' BY SMTT(20), <1>1, <2>2, <2>3, <2>4, <2>7 DEF Knows, Inode, AtLevel
  <2>10. want[f] = EXCLUSIVE_LOCK => Cardinality(LockedOf(p)) <= 1
    <3>1. want[f] = EXCLUSIVE_LOCK => inode[p].nShared <= 1
      BY SMTT(20), <1>1, <1>6 DEF OthersShare, Inode, InodeInfo
    <3>2. inode[p].eFileLock >= RESERVED_LOCK => Owner(p) BY <1>1, <1>3 DEF Owner, InodeInfo
    <3>3. inode[p].nShared = Cardinality(LockedOf(p))
      BY SMTT(20), <1>1, <1>3, <3>2 DEF ProcInv, Counts, InodeInfo
    <3> QED BY <3>1, <3>3
  <2>11. ASSUME NEW g \in File, g # f, ProcOf[g] = p
         PROVE  AtLevel(eFileLock[g], inode'[p].eFileLock) /\ Pair(f, g)' /\ Pair(g, f)'
    <3>1. FileInv(g) /\ lockMutex[p] # g /\ eFileLock[g] \in 0 .. 4
      BY <1>1, <2>11 DEF LockInv, TypeOK
    <3>2. AtLevel(eFileLock[g], inode[p].eFileLock)
      BY <2>11, <3>1 DEF FileInv, Owns, Knows, Inode, InCall, AtLevel
    <3>3. want[f] = EXCLUSIVE_LOCK => eFileLock[g] = NO_LOCK
      <4>1. /\ Cardinality(LockedOf(p)) \in Nat
            /\ eFileLock[f] # NO_LOCK /\ eFileLock[g] # NO_LOCK => Cardinality(LockedOf(p)) >= 2
        BY <1>1, <2>11, FewHandles
      <4> QED BY SMTT(20), <1>3, <2>10, <4>1
    <3> QED BY SMTT(20), <1>3, <2>2, <2>3, <2>4, <2>11, <3>1, <3>2, <3>3 DEF Pair, AtLevel
  <2>12. Backed(inode'[p].eFileLock, kern'[p], pc'[f] = "unreserve" /\ want'[f] = SHARED_LOCK)
    <3>1. /\ kern'[p]["PENDING_BYTE"] = kern[p]["PENDING_BYTE"]
          /\ want[f] = RESERVED_LOCK => /\ kern'[p]["RESERVED_BYTE"] = "F_WRLCK"
                                        /\ kern'[p]["SHARED_RANGE"] = kern[p]["SHARED_RANGE"]
          /\ want[f] # RESERVED_LOCK => /\ kern'[p]["RESERVED_BYTE"] = kern[p]["RESERVED_BYTE"]
                                        /\ kern'[p]["SHARED_RANGE"] = "F_WRLCK"
      BY SMTT(20), <2>1 DEF LockRange
    <3> QED BY SMTT(20), <1>2, <1>3, <2>2, <2>3, <3>1 DEF Backed
  <2>13. Counts(inode[p], Cardinality(LockedOf(p)), Cardinality(OpenOf(p)), Owner(p))'
    <3>1. pc[f] \notin NoInode /\ pc'[f] \notin NoInode BY <1>1, <2>7 DEF NoInode
    <3>2. /\ Cardinality(LockedOf(p))' = Cardinality(LockedOf(p))
          /\ Cardinality(OpenOf(p))' = Cardinality(OpenOf(p))
      BY SMTT(20), <1>1, <1>3, <2>4, <2>5, <2>6, <3>1, Counting
    <3>3. Owner(p)' BY SMTT(20), <1>3, <2>4 DEF Owner
    <3>4. inode[p].eFileLock >= RESERVED_LOCK => Owner(p) BY <1>1, <1>3 DEF Owner, InodeInfo
    <3> QED BY SMTT(20), <1>1, <1>3, <2>2, <2>3, <3>2, <3>3, <3>4 DEF ProcInv, Counts, InodeInfo
  <2>14. ASSUME NEW q \in Proc, q # p
         PROVE  /\ inode'[p].eFileLock = EXCLUSIVE_LOCK => inode[q].eFileLock = NO_LOCK
                /\ ~(inode[q].eFileLock = EXCLUSIVE_LOCK /\ kern[q]["PENDING_BYTE"] = "F_WRLCK")
    <3>1. Apart(q, p) /\ ProcInv(q) /\ inode[q].eFileLock \in 0 .. 4
      BY <1>1, <2>14 DEF LockInv, TypeOK
    <3>2. inode'[p].eFileLock = EXCLUSIVE_LOCK => kern[q]["SHARED_RANGE"] = "F_UNLCK"
      BY SMTT(20), <1>3, <2>1, <2>2, <2>3, <2>14
    <3> QED BY SMTT(20), <1>3, <3>1, <3>2 DEF Apart, ProcInv, Backed
  <2> QED BY <1>1, <2>1, <2>5, <2>6, <2>7, <2>8, <2>9, <2>11, <2>12, <2>13, <2>14, CallStep
<1> QED
  <2>1. CASE OthersShare(f) /\ Refused(f) BY <1>1, <1>5, <2>1 DEF Refused
  <2>2. CASE LockFails(f, range, "F_WRLCK") /\ UNCHANGED <<eFileLock, inode>>
    BY <1>5, <2>2, FailEffect
  <2> QED BY <1>6, <2>1, <2>2 DEF GetRange, Inode

(* A step that changes nothing.                                            *)
LEMMA StutterInv ==
  ASSUME LockInv, UNCHANGED vars
  PROVE  LockInv'
<1>1. /\ kern' = kern /\ inode' = inode /\ lockMutex' = lockMutex /\ bigLock' = bigLock
      /\ eFileLock' = eFileLock /\ pc' = pc /\ want' = want /\ got' = got /\ closing' = closing
      /\ nFault' = nFault
  BY DEF vars, handle
<1>2. TypeOK' BY <1>1 DEF LockInv, TypeOK
<1>3. \A f \in File : FileInv(f)'
  <2> SUFFICES ASSUME NEW f \in File PROVE FileInv(f)' OBVIOUS
  <2>1. FileInv(f) BY DEF LockInv
  <2>2. Owns(f)' BY <1>1, <2>1 DEF FileInv, Owns
  <2>3. Knows(f, Inode(f).eFileLock, kern[ProcOf[f]])' BY <1>1, <2>1 DEF FileInv, Knows, Inode, AtLevel
  <2> QED BY <2>2, <2>3 DEF FileInv
<1>4. \A p \in Proc : ProcInv(p)'
  <2> SUFFICES ASSUME NEW p \in Proc PROVE ProcInv(p)' OBVIOUS
  <2>1. ProcInv(p) BY DEF LockInv
  <2>2. LockedOf(p)' = LockedOf(p) /\ OpenOf(p)' = OpenOf(p) BY <1>1 DEF LockedOf, OpenOf
  <2>3. (Downgrading(p)' <=> Downgrading(p)) /\ (Owner(p)' <=> Owner(p))
    BY <1>1, Zenon DEF Downgrading, Owner
  <2> QED BY <1>1, <2>1, <2>2, <2>3, Zenon DEF ProcInv, Backed, Counts, Closes
<1>5. \A f, g \in File : ProcOf[f] = ProcOf[g] /\ f # g => Pair(f, g)'
  BY <1>1, Zenon DEF LockInv, Pair
<1>6. \A p, q \in Proc : p # q => Apart(p, q)'
  BY <1>1, Zenon DEF LockInv, Apart
<1> QED BY <1>2, <1>3, <1>4, <1>5, <1>6, Zenon DEF LockInv

(* The entry of unixLock: refusal, share of a lock held, or the system calls. *)
LEMMA unixLockInv ==
  ASSUME LockInv, ~LockDuringClose, NEW f \in File, NEW l \in SHARED_LOCK .. EXCLUSIVE_LOCK,
         unixLock(f, l)
  PROVE  LockInv'
<1> DEFINE p == ProcOf[f]
<1>1. /\ p \in Proc /\ f # Null /\ FileInv(f) /\ ProcInv(p) /\ lockMutex[p] = Null
      /\ bigLock[p] = Null /\ inode[p] \in InodeInfo /\ eFileLock[f] \in 0 .. 4 /\ pc[f] = "open"
      /\ TypeOK /\ l \in Asked(eFileLock[f])
  BY Known DEF unixLock, InodeInfo, LockInv
<1>2. Backed(inode[p].eFileLock, kern[p], FALSE) BY <1>1, NotDowngrading
<1>3. AtLevel(eFileLock[f], inode[p].eFileLock) /\ ~closing[f] /\ inode[p].eFileLock \in 0 .. 4
  BY <1>1 DEF FileInv, Owns, Knows, Inode, InodeInfo
<1>4. UNCHANGED <<kern, bigLock, nFault>> BY DEF unixLock
<1>5. KernelApart' BY <1>4, KernelKept
<1>6. CASE UNCHANGED <<inode, eFileLock, lockMutex, handle>>
  BY <1>4, <1>6, StutterInv DEF vars
<1>7. CASE Counted(f, l) /\ SetFileLock(f, SHARED_LOCK) /\ SetInode(f, OneMore(Inode(f)))
           /\ UNCHANGED <<lockMutex, handle>>
  <2> DEFINE j == OneMore(inode[p])
  <2>1. /\ j \in InodeInfo /\ j.eFileLock = inode[p].eFileLock
        /\ j.nLock = inode[p].nLock + 1 /\ j.nShared = inode[p].nShared + 1
        /\ j.nRef = inode[p].nRef /\ j.nUnused = inode[p].nUnused
    BY <1>1, MoreShared
  <2>2. l = SHARED_LOCK /\ inode[p].eFileLock \in {SHARED_LOCK, RESERVED_LOCK}
    BY <1>7 DEF Counted, Inode
  <2>3. eFileLock[f] = NO_LOCK BY SMTT(20), <1>1, <2>2 DEF Asked
  <2> HIDE DEF j
  <2>4. /\ inode' \in [Proc -> InodeInfo] /\ inode'[p] = j
        /\ \A q \in Proc : q # p => inode'[q] = inode[q]
    BY <1>7, <2>1, SetInodeEffect DEF Inode, j
  <2>5. /\ eFileLock' \in [File -> 0 .. 4] /\ eFileLock'[f] = SHARED_LOCK
        /\ \A g \in File : g # f => eFileLock'[g] = eFileLock[g]
    BY SMTT(20), <1>7, SetFileEffect
  <2>6. UNCHANGED <<pc, want, got, closing, lockMutex>> BY <1>7 DEF handle
  <2>7. TypeOK' BY <1>1, <1>4, <2>4, <2>5, <2>6, Zenon DEF TypeOK, InodeInfo
  <2>8. Changes(f) BY <1>4, <2>4, <2>5, <2>6, Zenon DEF Changes
  <2>9. Owns(f)' BY <1>1, <1>4, <2>6 DEF FileInv, Owns, InCall, NoInode
  <2>10. Knows(f, Inode(f).eFileLock, kern[p])'
    BY SMTT(20), <1>1, <2>1, <2>2, <2>4, <2>5, <2>6 DEF Knows, Inode, AtLevel
  <2>11. ASSUME NEW g \in File, g # f, ProcOf[g] = p
         PROVE  AtLevel(eFileLock[g], inode'[p].eFileLock) /\ Pair(f, g)' /\ Pair(g, f)'
    <3>1. FileInv(g) /\ lockMutex[p] # g /\ eFileLock[g] \in 0 .. 4
      BY <1>1, <2>11, UnixAssumption DEF LockInv, TypeOK
    <3>2. AtLevel(eFileLock[g], inode[p].eFileLock)
      BY <2>11, <3>1 DEF FileInv, Owns, Knows, Inode, InCall
    <3> QED BY SMTT(20), <2>1, <2>2, <2>4, <2>5, <2>11, <3>1, <3>2 DEF Pair, AtLevel
  <2>12. Backed(inode'[p].eFileLock, kern'[p], pc'[f] = "unreserve" /\ want'[f] = SHARED_LOCK)
    BY <1>2, <1>4, <2>1, <2>4 DEF Backed
  <2>13. Counts(inode[p], Cardinality(LockedOf(p)), Cardinality(OpenOf(p)), Owner(p))'
    <3>1. pc[f] \notin NoInode /\ pc'[f] \notin NoInode BY <1>1, <2>6 DEF NoInode
    <3>2. /\ Cardinality(LockedOf(p))' = Cardinality(LockedOf(p)) + 1
          /\ Cardinality(LockedOf(p)) \in Nat
          /\ Cardinality(OpenOf(p))' = Cardinality(OpenOf(p))
      BY SMTT(20), <1>1, <2>3, <2>5, <2>7, <2>8, <3>1, Counting
    <3>3. Owner(p)' <=> Owner(p) BY SMTT(20), <2>3, <2>5 DEF Owner
    <3>4. Counts(inode[p], Cardinality(LockedOf(p)), Cardinality(OpenOf(p)), Owner(p))
      BY <1>1 DEF ProcInv
    <3>5. inode[p].nLock \in Nat /\ inode[p].nShared \in Nat /\ inode[p].nUnused \in Nat
      BY <1>1 DEF InodeInfo
    <3>6. /\ inode'[p].eFileLock = inode[p].eFileLock /\ inode'[p].nLock = inode[p].nLock + 1
          /\ inode'[p].nShared = inode[p].nShared + 1 /\ inode'[p].nRef = inode[p].nRef
      BY <2>1, <2>4
    <3>7. Owner(p) \in BOOLEAN BY DEF Owner
    <3>8. Counts(inode'[p], Cardinality(LockedOf(p)) + 1, Cardinality(OpenOf(p)), Owner(p))
      BY <2>2, <3>2, <3>4, <3>5, <3>6, <3>7, CountsMore
    <3> QED BY <3>2, <3>3, <3>8 DEF Counts
  <2>14. ASSUME NEW q \in Proc, q # p
         PROVE  /\ inode'[p].eFileLock # EXCLUSIVE_LOCK
                /\ ~(inode[q].eFileLock = EXCLUSIVE_LOCK /\ kern[q]["PENDING_BYTE"] = "F_WRLCK")
    BY SMTT(20), <1>1, <2>1, <2>2, <2>4, <2>14 DEF LockInv, Apart
  <2>15. lockMutex'[p] = Null /\ bigLock'[p] = Null BY <1>1, <1>4, <2>6
  <2> QED BY <1>1, <1>5, <2>7, <2>8, <2>9, <2>10, <2>11, <2>12, <2>13, <2>14, <2>15, CallStep
<1>8. CASE /\ ~Precluded(f, l) /\ ~Counted(f, l)
           /\ lockMutex' = [lockMutex EXCEPT ![p] = f]
           /\ want' = [want EXCEPT ![f] = l]
           /\ Goto(f, IF l = SHARED_LOCK \/ (l = EXCLUSIVE_LOCK /\ eFileLock[f] = RESERVED_LOCK)
                      THEN "pending" ELSE "range")
           /\ UNCHANGED <<inode, eFileLock, got, closing>>
  <2> DEFINE label == IF l = SHARED_LOCK \/ (l = EXCLUSIVE_LOCK /\ eFileLock[f] = RESERVED_LOCK)
                      THEN "pending" ELSE "range"
  <2>1. label \in InCall /\ label \in Labels /\ label \in {"pending", "range"} BY DEF InCall, Labels
  <2>2. /\ label = "pending" => \/ l = SHARED_LOCK /\ inode[p].eFileLock = NO_LOCK
                                \/ /\ l = EXCLUSIVE_LOCK /\ inode[p].eFileLock = RESERVED_LOCK
                                   /\ eFileLock[f] = RESERVED_LOCK
        /\ label = "range" => /\ eFileLock[f] = inode[p].eFileLock
                              /\ \/ l = RESERVED_LOCK /\ eFileLock[f] = SHARED_LOCK
                                 \/ l = EXCLUSIVE_LOCK /\ eFileLock[f] \in {SHARED_LOCK, PENDING_LOCK}
    BY SMTT(20), <1>1, <1>3, <1>8 DEF Precluded, Counted, Asked, Inode
  <2> HIDE DEF label
  <2>3. /\ pc' \in [File -> Labels] /\ pc'[f] = label
        /\ \A g \in File : g # f => pc'[g] = pc[g]
    BY <1>8, <2>1, GotoEffect DEF label
  <2>4. /\ lockMutex' \in [Proc -> File \cup {Null}] /\ lockMutex'[p] = f
        /\ \A q \in Proc : q # p => lockMutex'[q] = lockMutex[q]
        /\ want' \in [File -> 0 .. 4] /\ want'[f] = l
        /\ \A g \in File : g # f => want'[g] = want[g]
    BY SMTT(20), <1>1, <1>8 DEF TypeOK
  <2>5. TypeOK' BY <1>1, <1>4, <1>8, <2>3, <2>4, Zenon DEF TypeOK
  <2>6. Changes(f) BY <1>4, <1>8, <2>3, <2>4, Zenon DEF Changes
  <2>7. Knows(f, Inode(f).eFileLock, kern[p])'
    BY <1>3, <1>4, <1>8, <2>1, <2>2, <2>3, <2>4 DEF Knows, Inode
  <2>8. Backed(inode[p].eFileLock, kern'[p], label = "unreserve" /\ want'[f] = SHARED_LOCK)
    BY <1>2, <1>4, <2>1 DEF Backed
  <2>9. pc[f] \notin NoInode BY <1>1 DEF NoInode
  <2> QED BY <1>1, <1>3, <1>4, <1>5, <1>8, <2>1, <2>3, <2>4, <2>5, <2>6, <2>7, <2>8, <2>9, GoesOn
<1> QED BY <1>6, <1>7, <1>8 DEF unixLock

(* The entry of posixUnlock.                                               *)
LEMMA posixUnlockInv ==
  ASSUME LockInv, NEW f \in File, NEW l \in {NO_LOCK, SHARED_LOCK}, posixUnlock(f, l)
  PROVE  LockInv'
<1> DEFINE p == ProcOf[f]
           label == IF eFileLock[f] <= SHARED_LOCK THEN "unshare"
                    ELSE IF l = SHARED_LOCK THEN "rdlock" ELSE "unreserve"
<1>1. /\ p \in Proc /\ f # Null /\ FileInv(f) /\ ProcInv(p) /\ lockMutex[p] = Null
      /\ inode[p] \in InodeInfo /\ eFileLock[f] \in 0 .. 4 /\ pc[f] \in {"open", "unlock"}
      /\ TypeOK /\ l < eFileLock[f] /\ (pc[f] = "unlock" => l = NO_LOCK)
  BY Known DEF posixUnlock, InodeInfo, LockInv
<1>2. Backed(inode[p].eFileLock, kern[p], FALSE) BY <1>1, NotDowngrading
<1>3. /\ AtLevel(eFileLock[f], inode[p].eFileLock) /\ inode[p].eFileLock \in 0 .. 4
      /\ closing[f] => l = NO_LOCK
  BY <1>1 DEF FileInv, Owns, Knows, Inode, InodeInfo
<1>4. bigLock[p] = Null
  <2>1. inode[p].nShared # 0 BY SMTT(20), <1>1, <1>3 DEF ProcInv, Counts, AtLevel
  <2> QED BY <1>1, <2>1 DEF ProcInv, Closes
<1>5. UNCHANGED <<kern, inode, bigLock, eFileLock, got, closing, nFault>> BY DEF posixUnlock
<1>6. KernelApart' BY <1>5, KernelKept
<1>7. label \in InCall /\ label \in Labels /\ label \in {"unshare", "rdlock", "unreserve"}
  BY DEF InCall, Labels
<1>8. /\ label = "unshare" => l = NO_LOCK /\ eFileLock[f] = SHARED_LOCK
      /\ label \in {"rdlock", "unreserve"} => eFileLock[f] >= RESERVED_LOCK
      /\ label = "rdlock" => l = SHARED_LOCK
      /\ label = "unreserve" => l = NO_LOCK
  BY SMTT(20), <1>1
<1>9. Goto(f, label) BY DEF posixUnlock
<1> HIDE DEF label
<1>10. /\ pc' \in [File -> Labels] /\ pc'[f] = label
       /\ \A g \in File : g # f => pc'[g] = pc[g]
  BY <1>7, <1>9, GotoEffect
<1>11. /\ lockMutex' \in [Proc -> File \cup {Null}] /\ lockMutex'[p] = f
       /\ \A q \in Proc : q # p => lockMutex'[q] = lockMutex[q]
       /\ want' \in [File -> 0 .. 4] /\ want'[f] = l
       /\ \A g \in File : g # f => want'[g] = want[g]
  BY SMTT(20), <1>1 DEF TypeOK, posixUnlock
<1>12. TypeOK' BY <1>1, <1>5, <1>10, <1>11, Zenon DEF TypeOK
<1>13. Changes(f) BY <1>5, <1>10, <1>11, Zenon DEF Changes
<1>14. Knows(f, Inode(f).eFileLock, kern[p])'
  BY SMTT(20), <1>3, <1>5, <1>7, <1>8, <1>10, <1>11 DEF Knows, Inode, AtLevel
<1>15. Backed(inode[p].eFileLock, kern'[p], label = "unreserve" /\ want'[f] = SHARED_LOCK)
  BY <1>2, <1>5 DEF Backed
<1>16. pc[f] \notin NoInode BY <1>1 DEF NoInode
<1>17. closing'[f] => label \in {"unreserve", "unshare"} /\ want'[f] = NO_LOCK
  BY SMTT(20), <1>3, <1>5, <1>7, <1>8, <1>11
<1> QED BY <1>1, <1>4, <1>5, <1>6, <1>7, <1>10, <1>11, <1>12, <1>13, <1>14, <1>15, <1>16, <1>17, GoesOn

-----------------------------------------------------------------------------
(* The steps that begin a call, those of posixUnlock and unixClose, and the *)
(* end of a process.                                                       *)

(* posixUnlock downgrading the shared range to a read lock.                *)
LEMMA RdLockInv ==
  ASSUME LockInv, NEW f \in File, RdLock(f)
  PROVE  LockInv'
<1> DEFINE p == ProcOf[f]
<1>1. /\ p \in Proc /\ f # Null /\ FileInv(f) /\ lockMutex[p] = f /\ bigLock[p] = Null
      /\ eFileLock[f] \in 0 .. 4 /\ inode[p].eFileLock \in 0 .. 4 /\ pc[f] = "rdlock" /\ TypeOK
  BY Known DEF RdLock, InCall, LockInv
<1>2. Backed(inode[p].eFileLock, kern[p], FALSE) BY <1>1, NotDowngrading
<1>3. /\ inode[p].eFileLock >= RESERVED_LOCK /\ eFileLock[f] = inode[p].eFileLock
      /\ want[f] = SHARED_LOCK /\ ~closing[f]
  BY <1>1 DEF FileInv, Owns, Knows, Inode
<1>4. UNCHANGED <<inode, bigLock, eFileLock, closing>> /\ pc[f] \in InCall \ {"unshare"}
  BY <1>1 DEF RdLock, InCall
<1>5. CASE LockFails(f, "SHARED_RANGE", "F_RDLCK") /\ Return(f)
  <2>1. UNCHANGED kern /\ nFault' \in 0 .. MaxFault BY <1>5, FailEffect
  <2> QED BY <1>2, <1>4, <1>5, <2>1, KernelKept, GivesUp
<1>6. CASE SetLock(f, "SHARED_RANGE", "F_RDLCK") /\ Goto(f, "unreserve")
           /\ UNCHANGED <<lockMutex, want, got>>
  <2>1. /\ kern' \in [Proc -> [LockRange -> LockType]] /\ nFault' = nFault /\ KernelApart'
        /\ \A q \in Proc : q # p => kern'[q] = kern[q]
        /\ \A c \in LockRange : c # "SHARED_RANGE" => kern'[p][c] = kern[p][c]
        /\ kern'[p]["SHARED_RANGE"] = "F_RDLCK"
    BY <1>6, SetLockEffect DEF LockRange
  <2>2. /\ kern'[p]["PENDING_BYTE"] = kern[p]["PENDING_BYTE"]
        /\ kern'[p]["RESERVED_BYTE"] = kern[p]["RESERVED_BYTE"]
    BY <2>1 DEF LockRange
  <2>3. /\ pc' \in [File -> Labels] /\ pc'[f] = "unreserve"
        /\ \A g \in File : g # f => pc'[g] = pc[g]
    BY <1>6, GotoEffect DEF Labels
  <2>4. TypeOK' BY <1>1, <1>4, <1>6, <2>1, <2>3, Zenon DEF TypeOK, LockType
  <2>5. Changes(f) BY <1>4, <1>6, <2>1, <2>3, Zenon DEF Changes
  <2>6. Knows(f, Inode(f).eFileLock, kern[p])'
    BY SMTT(20), <1>1, <1>3, <1>4, <1>6, <2>3 DEF Knows, Inode, AtLevel
  <2>7. Backed(inode[p].eFileLock, kern'[p], TRUE) BY <1>2, <1>3, <2>1, <2>2 DEF Backed
  <2>8. "unreserve" \in InCall /\ pc[f] \notin NoInode BY <1>1 DEF InCall, NoInode
  <2>9. lockMutex'[p] = f /\ want'[f] = SHARED_LOCK /\ ~closing'[f] BY <1>1, <1>3, <1>4, <1>6
  <2> QED BY <1>1, <1>4, <2>1, <2>2, <2>3, <2>4, <2>5, <2>6, <2>7, <2>8, <2>9, GoesOn
<1> QED BY <1>5, <1>6 DEF RdLock

(* posixUnlock dropping PENDING and RESERVED.                              *)
LEMMA UnreserveInv ==
  ASSUME LockInv, NEW f \in File, Unreserve(f)
  PROVE  LockInv'
<1> DEFINE p == ProcOf[f]
           B == {"PENDING_BYTE", "RESERVED_BYTE"}
           j == [inode[p] EXCEPT !.eFileLock = SHARED_LOCK]
<1>1. /\ p \in Proc /\ f # Null /\ FileInv(f) /\ ProcInv(p) /\ lockMutex[p] = f /\ bigLock[p] = Null
      /\ inode[p] \in InodeInfo /\ eFileLock[f] \in 0 .. 4 /\ pc[f] = "unreserve" /\ TypeOK
      /\ nFault \in 0 .. MaxFault /\ want[f] \in 0 .. 4
  BY Known DEF Unreserve, InCall, InodeInfo, LockInv, TypeOK
<1>2. Backed(inode[p].eFileLock, kern[p], TRUE) BY <1>1 DEF ProcInv, Backed
<1>3. /\ inode[p].eFileLock >= RESERVED_LOCK /\ eFileLock[f] = inode[p].eFileLock
      /\ want[f] \in {NO_LOCK, SHARED_LOCK} /\ (closing[f] => want[f] = NO_LOCK)
      /\ inode[p].eFileLock \in 0 .. 4
  BY <1>1 DEF FileInv, Owns, Knows, Inode, InodeInfo
<1>4. UNCHANGED <<bigLock, closing>> /\ pc[f] \in InCall \ {"unshare"}
  BY <1>1 DEF Unreserve, InCall
<1>5. CASE UnlockFails(f, B) /\ Return(f) /\ UNCHANGED <<eFileLock, inode>>
  <2>1. UNCHANGED kern /\ nFault' \in 0 .. MaxFault
    BY SMTT(20), <1>1, <1>5, UnixAssumption DEF UnlockFails
  <2>2. kern[p]["PENDING_BYTE"] # "F_UNLCK" \/ kern[p]["RESERVED_BYTE"] # "F_UNLCK"
    BY <1>5 DEF UnlockFails
  <2>3. Backed(inode[p].eFileLock, kern'[p], FALSE) BY <1>2, <1>3, <2>1, <2>2 DEF Backed
  <2> QED BY <1>4, <1>5, <2>1, <2>3, KernelKept, GivesUp
<1>6. CASE /\ Unlock(f, B) /\ SetInode(f, j)
           /\ IF want[f] = SHARED_LOCK THEN SetFileLock(f, SHARED_LOCK) /\ Return(f)
              ELSE Goto(f, "unshare") /\ UNCHANGED <<eFileLock, lockMutex, want, got>>
  <2>1. /\ kern' \in [Proc -> [LockRange -> LockType]] /\ nFault' = nFault /\ KernelApart'
        /\ \A q \in Proc : q # p => kern'[q] = kern[q]
        /\ kern'[p]["PENDING_BYTE"] = "F_UNLCK" /\ kern'[p]["RESERVED_BYTE"] = "F_UNLCK"
        /\ kern'[p]["SHARED_RANGE"] = kern[p]["SHARED_RANGE"]
    <3>1. B \in SUBSET LockRange BY DEF LockRange
    <3>2. nFault' = nFault BY <1>6 DEF Unlock
    <3>3. /\ kern' \in [Proc -> [LockRange -> LockType]] /\ KernelApart'
          /\ \A q \in Proc : q # p => kern'[q] = kern[q]
          /\ \A c \in LockRange : kern'[p][c] = IF c \in B THEN "F_UNLCK" ELSE kern[p][c]
      BY <1>6, <3>1, UnlockEffect DEF Unlock
    <3> QED BY <3>2, <3>3 DEF LockRange
  <2>2. /\ j \in InodeInfo /\ j.eFileLock = SHARED_LOCK /\ j.nLock = inode[p].nLock
        /\ j.nShared = inode[p].nShared /\ j.nRef = inode[p].nRef /\ j.nUnused = inode[p].nUnused
    BY SMTT(20), <1>1 DEF InodeInfo
  <2> HIDE DEF j
  <2>3. /\ inode' \in [Proc -> InodeInfo] /\ inode'[p] = j
        /\ \A q \in Proc : q # p => inode'[q] = inode[q]
    BY <1>6, <2>2, SetInodeEffect
  <2>4. /\ TypeOK' /\ Changes(f) /\ bigLock'[p] = Null /\ closing'[f] = closing[f]
        /\ \/ /\ want[f] = SHARED_LOCK /\ ~closing[f] /\ eFileLock'[f] = SHARED_LOCK
              /\ lockMutex'[p] = Null /\ pc'[f] = "open" /\ want'[f] = NO_LOCK
           \/ /\ want[f] = NO_LOCK /\ eFileLock'[f] = eFileLock[f] /\ lockMutex'[p] = f
              /\ pc'[f] = "unshare" /\ want'[f] = NO_LOCK
    <3>1. CASE want[f] = SHARED_LOCK
      <4>1. SetFileLock(f, SHARED_LOCK) /\ Return(f) BY <1>6, <3>1
      <4>2. /\ eFileLock' \in [File -> 0 .. 4] /\ eFileLock'[f] = SHARED_LOCK
            /\ \A g \in File : g # f => eFileLock'[g] = eFileLock[g]
        BY SMTT(20), <4>1, SetFileEffect
      <4>3. TypeOK'
        BY <1>1, <1>4, <2>1, <2>3, <4>1, <4>2, ReturnEffect, Zenon DEF TypeOK, LockType, InodeInfo
      <4>4. /\ \A q \in Proc : q # p => lockMutex'[q] = lockMutex[q] /\ bigLock'[q] = bigLock[q]
            /\ \A g \in File : g # f => /\ pc'[g] = pc[g] /\ want'[g] = want[g] /\ got'[g] = got[g]
                                        /\ closing'[g] = closing[g]
            /\ lockMutex'[p] = Null /\ bigLock'[p] = bigLock[p] /\ want'[f] = NO_LOCK
            /\ closing'[f] = closing[f] /\ pc'[f] = IF closing[f] THEN "close" ELSE "open"
        BY <1>4, <4>1, ReturnEffect
      <4>5. Changes(f) BY <2>1, <2>3, <4>2, <4>4 DEF Changes
      <4> QED BY SMTT(20), <1>1, <1>3, <3>1, <4>2, <4>3, <4>4, <4>5
    <3>2. CASE want[f] # SHARED_LOCK
      <4>1. Goto(f, "unshare") /\ UNCHANGED <<eFileLock, lockMutex, want, got>> BY <1>6, <3>2
      <4>2. /\ pc' \in [File -> Labels] /\ pc'[f] = "unshare"
            /\ \A g \in File : g # f => pc'[g] = pc[g]
        BY <4>1, GotoEffect DEF Labels
      <4>3. TypeOK' BY <1>1, <1>4, <2>1, <2>3, <4>1, <4>2, Zenon DEF TypeOK, LockType, InodeInfo
      <4>4. Changes(f) BY <1>4, <2>1, <2>3, <4>1, <4>2, Zenon DEF Changes
      <4> QED BY <1>1, <1>3, <1>4, <3>2, <4>1, <4>2, <4>3, <4>4
    <3> QED BY <3>1, <3>2
  <2>5. Owns(f)' BY <1>1, <1>3, <2>4 DEF Owns, InCall, NoInode
  <2>6. Knows(f, Inode(f).eFileLock, kern[p])'
    BY SMTT(20), <1>3, <2>2, <2>3, <2>4 DEF Knows, Inode, AtLevel
  <2>7. ASSUME NEW g \in File, g # f, ProcOf[g] = p
        PROVE  AtLevel(eFileLock[g], inode'[p].eFileLock) /\ Pair(f, g)' /\ Pair(g, f)'
    <3>1. Pair(f, g) /\ eFileLock[g] \in 0 .. 4 /\ eFileLock'[g] = eFileLock[g]
      BY <2>4, <2>7 DEF LockInv, TypeOK, Changes
    <3> QED BY SMTT(20), <1>3, <2>2, <2>3, <2>4, <3>1 DEF Pair, AtLevel
  <2>8. Backed(inode'[p].eFileLock, kern'[p], pc'[f] = "unreserve" /\ want'[f] = SHARED_LOCK)
    BY SMTT(20), <1>2, <1>3, <2>1, <2>2, <2>3 DEF Backed
  <2>9. Counts(inode[p], Cardinality(LockedOf(p)), Cardinality(OpenOf(p)), Owner(p))'
    <3>1. pc[f] \notin NoInode /\ pc'[f] \notin NoInode BY <1>1, <2>4 DEF NoInode
    <3>2. eFileLock[f] # NO_LOCK /\ eFileLock'[f] # NO_LOCK BY SMTT(20), <1>3, <2>4
    <3>3. /\ Cardinality(LockedOf(p))' = Cardinality(LockedOf(p))
          /\ Cardinality(OpenOf(p))' = Cardinality(OpenOf(p))
      BY <1>1, <2>4, <3>1, <3>2, Counting
    <3>4. Owner(p) BY <1>3 DEF Owner
    <3> QED BY SMTT(20), <1>1, <1>3, <2>2, <2>3, <3>3, <3>4 DEF ProcInv, Counts, InodeInfo
  <2>10. ASSUME NEW q \in Proc, q # p
         PROVE  /\ inode'[p].eFileLock # EXCLUSIVE_LOCK
                /\ ~(inode[q].eFileLock = EXCLUSIVE_LOCK /\ kern[q]["PENDING_BYTE"] = "F_WRLCK")
    BY SMTT(20), <1>1, <1>3, <2>2, <2>3, <2>10 DEF LockInv, Apart
  <2>11. lockMutex'[p] \in {f, Null} BY <2>4
  <2> QED BY <1>1, <2>1, <2>4, <2>5, <2>6, <2>7, <2>8, <2>9, <2>10, <2>11, CallStep
<1> QED BY <1>5, <1>6 DEF Unreserve, Inode

(* posixUnlock dropping SHARED, with the last one unlocking the file.      *)
LEMMA UnshareInv ==
  ASSUME LockInv, NEW f \in File, Unshare(f)
  PROVE  LockInv'
<1> DEFINE p == ProcOf[f]
           i == inode[p]
           n == Cardinality(LockedOf(p))
           u == IF LastLock(i) THEN 0 ELSE i.nUnused
           l == IF i.nShared = 1 THEN NO_LOCK ELSE i.eFileLock
           j == Fewer(i, u, l)
<1>1. /\ p \in Proc /\ f # Null /\ FileInv(f) /\ ProcInv(p) /\ lockMutex[p] = f /\ bigLock[p] = Null
      /\ i \in InodeInfo /\ eFileLock[f] \in 0 .. 4 /\ pc[f] = "unshare" /\ TypeOK
      /\ nFault \in 0 .. MaxFault
  BY Known DEF Unshare, InCall, InodeInfo, LockInv, TypeOK
<1>2. Backed(i.eFileLock, kern[p], FALSE) BY <1>1, NotDowngrading
<1>3. /\ eFileLock[f] >= SHARED_LOCK /\ i.eFileLock >= SHARED_LOCK
      /\ eFileLock[f] >= RESERVED_LOCK => i.eFileLock = SHARED_LOCK
      /\ i.eFileLock \in 0 .. 4 /\ i.nShared \in Nat /\ i.nLock \in Nat /\ i.nUnused \in Nat
  BY <1>1 DEF FileInv, Knows, Inode, InodeInfo
<1>4. UNCHANGED <<bigLock, closing>> /\ Return(f) /\ SetFileLock(f, NO_LOCK) /\ SetInode(f, j)
  BY DEF Unshare, Inode, Fewer
<1>5. /\ i.nLock = i.nShared /\ i.nShared >= 1 /\ (i.nUnused > 0 => i.nLock > 0)
      /\ i.nRef = Cardinality(OpenOf(p))
      /\ i.eFileLock <= SHARED_LOCK => i.nShared = n
      /\ i.eFileLock >= RESERVED_LOCK /\ Owner(p) => i.nShared = n
      /\ i.eFileLock >= RESERVED_LOCK /\ ~Owner(p) => i.nShared = n + 1
  BY SMTT(20), <1>1, <1>3 DEF ProcInv, Counts
<1>6. n \in Nat /\ n >= 1 BY SMTT(20), <1>1, <1>3, FewHandles
<1>7. i.nShared = 1 => i.eFileLock = SHARED_LOCK /\ n = 1
  <2> SUFFICES ASSUME i.nShared = 1 PROVE i.eFileLock = SHARED_LOCK /\ n = 1 OBVIOUS
  <2>1. ASSUME i.eFileLock >= RESERVED_LOCK PROVE FALSE
    <3>1. Owner(p) /\ n = 1 BY SMTT(20), <1>5, <1>6, <2>1
    <3>2. PICK g \in File : ProcOf[g] = p /\ eFileLock[g] >= RESERVED_LOCK BY <3>1 DEF Owner
    <3>3. g # f BY SMTT(20), <1>3, <2>1, <3>2
    <3>4. n >= 2 BY SMTT(20), <1>1, <1>3, <3>2, <3>3, FewHandles
    <3> QED BY SMTT(20), <3>1, <3>4
  <2> QED BY SMTT(20), <1>3, <1>5, <2>1
<1>8. LastLock(i) <=> i.nShared = 1
  <2>1. i.nLock = i.nShared BY <1>5
  <2> QED BY <2>1 DEF LastLock
<1>9. /\ j \in InodeInfo /\ j.eFileLock = l /\ j.nLock = i.nLock - 1
      /\ j.nShared = i.nShared - 1 /\ j.nRef = i.nRef /\ j.nUnused = u
  <2>1. u \in Nat /\ l \in 0 .. 4 /\ i \in InodeInfo BY SMTT(20), <1>1, <1>3
  <2>2. i.nShared >= 1 /\ i.nLock >= 1 BY <1>5
  <2> HIDE DEF u, l, i
  <2> QED BY <2>1, <2>2, LessShared
<1> HIDE DEF j, n
<1>10. /\ inode' \in [Proc -> InodeInfo] /\ inode'[p] = j
       /\ \A q \in Proc : q # p => inode'[q] = inode[q]
  BY <1>4, <1>9, SetInodeEffect
<1>11. /\ eFileLock' \in [File -> 0 .. 4] /\ eFileLock'[f] = NO_LOCK
       /\ \A g \in File : g # f => eFileLock'[g] = eFileLock[g]
  BY SMTT(20), <1>4, SetFileEffect
<1>12. /\ kern' \in [Proc -> [LockRange -> LockType]] /\ KernelApart' /\ nFault' \in 0 .. MaxFault
       /\ \A q \in Proc : q # p => kern'[q] = kern[q]
       /\ i.nShared # 1 => kern'[p] = kern[p]
       /\ i.nShared = 1 => /\ kern'[p]["PENDING_BYTE"] = "F_UNLCK"
                           /\ kern'[p]["RESERVED_BYTE"] = "F_UNLCK"
  <2>0. i.nShared = 1 => /\ kern[p]["PENDING_BYTE"] = "F_UNLCK"
                         /\ kern[p]["RESERVED_BYTE"] = "F_UNLCK"
    BY <1>2, <1>7 DEF Backed
  <2>1. CASE UNCHANGED kern /\ nFault' \in 0 .. MaxFault BY <2>0, <2>1, KernelKept
  <2>2. CASE CloseFds(p) /\ i.nShared = 1 /\ nFault' \in 0 .. MaxFault
    <3>1. /\ kern' \in [Proc -> [LockRange -> LockType]] /\ KernelApart'
          /\ \A q \in Proc : q # p => kern'[q] = kern[q]
          /\ \A c \in LockRange : kern'[p][c] = "F_UNLCK"
      BY <1>1, <2>2, CloseEffect
    <3> QED BY <2>2, <3>1 DEF LockRange
  <2>3. CASE Unlock(f, LockRange) /\ i.nShared = 1
    <3>1. /\ kern' \in [Proc -> [LockRange -> LockType]] /\ KernelApart'
          /\ \A q \in Proc : q # p => kern'[q] = kern[q]
          /\ \A c \in LockRange : kern'[p][c] = IF c \in LockRange THEN "F_UNLCK" ELSE kern[p][c]
      BY <2>3, UnlockEffect DEF Unlock
    <3>2. nFault' = nFault BY <2>3 DEF Unlock
    <3> QED BY <1>1, <2>3, <3>1, <3>2 DEF LockRange
  <2>4. nFault < MaxFault /\ nFault' = nFault + 1 => nFault' \in 0 .. MaxFault
    BY SMTT(20), <1>1, UnixAssumption
  <2> QED BY <1>1, <1>8, <2>1, <2>2, <2>3, <2>4 DEF Unshare, Inode
<1>13. /\ \A q \in Proc : q # p => lockMutex'[q] = lockMutex[q] /\ bigLock'[q] = bigLock[q]
       /\ \A g \in File : g # f => /\ pc'[g] = pc[g] /\ want'[g] = want[g] /\ got'[g] = got[g]
                                   /\ closing'[g] = closing[g]
       /\ lockMutex'[p] = Null /\ bigLock'[p] = Null /\ want'[f] = NO_LOCK
       /\ closing'[f] = closing[f] /\ pc'[f] = IF closing[f] THEN "close" ELSE "open"
  BY <1>1, <1>4, ReturnEffect
<1>14. TypeOK'
  BY <1>1, <1>4, <1>10, <1>11, <1>12, ReturnEffect, Zenon DEF TypeOK, LockType, InodeInfo
<1>15. Changes(f) BY <1>10, <1>11, <1>12, <1>13, Zenon DEF Changes
<1>16. Owns(f)' BY SMTT(20), <1>1, <1>11, <1>13 DEF Owns, InCall, NoInode
<1>17. Knows(f, Inode(f).eFileLock, kern[p])'
  BY SMTT(20), <1>3, <1>9, <1>10, <1>11, <1>13 DEF Knows, Inode, AtLevel
<1>18. ASSUME NEW g \in File, g # f, ProcOf[g] = p
       PROVE  AtLevel(eFileLock[g], inode'[p].eFileLock) /\ Pair(f, g)' /\ Pair(g, f)'
  <2>1. FileInv(g) /\ lockMutex[p] # g /\ eFileLock[g] \in 0 .. 4
    BY <1>1, <1>18 DEF LockInv, TypeOK
  <2>2. AtLevel(eFileLock[g], i.eFileLock)
    BY <1>18, <2>1 DEF FileInv, Owns, Knows, Inode, InCall
  <2>3. i.nShared = 1 => eFileLock[g] = NO_LOCK
    <3>1. eFileLock[f] # NO_LOCK /\ eFileLock[g] # NO_LOCK => n >= 2
      BY <1>1, <1>18, FewHandles DEF n
    <3> QED BY SMTT(20), <1>3, <1>7, <3>1
  <2> QED BY SMTT(20), <1>9, <1>10, <1>11, <1>18, <2>1, <2>2, <2>3 DEF Pair, AtLevel
<1>19. Backed(inode'[p].eFileLock, kern'[p], pc'[f] = "unreserve" /\ want'[f] = SHARED_LOCK)
  BY SMTT(20), <1>2, <1>9, <1>10, <1>12 DEF Backed
<1>20. Counts(inode[p], Cardinality(LockedOf(p)), Cardinality(OpenOf(p)), Owner(p))'
  <2>1. pc[f] \notin NoInode /\ pc'[f] \notin NoInode BY <1>1, <1>13 DEF NoInode
  <2>2. eFileLock[f] # NO_LOCK BY SMTT(20), <1>3
  <2>3. /\ Cardinality(LockedOf(p))' = n - 1
        /\ Cardinality(OpenOf(p))' = Cardinality(OpenOf(p))
    BY <1>1, <1>11, <1>14, <1>15, <2>1, <2>2, Counting DEF n
  <2>4. i.eFileLock >= RESERVED_LOCK => (Owner(p)' <=> Owner(p)) BY SMTT(20), <1>3, <1>11 DEF Owner
  <2>5. /\ inode'[p].eFileLock = l /\ inode'[p].nLock = i.nLock - 1 /\ inode'[p].nUnused = u
        /\ inode'[p].nShared = i.nShared - 1 /\ inode'[p].nRef = i.nRef
    BY <1>9, <1>10
  <2>6. /\ Counts(i, n, Cardinality(OpenOf(p)), Owner(p)) /\ Owner(p) \in BOOLEAN
        /\ u = IF i.nShared = 1 THEN 0 ELSE i.nUnused
    BY <1>1, <1>8 DEF ProcInv, Owner, n
  <2> HIDE DEF u
  <2>7. Counts(inode'[p], n - 1, Cardinality(OpenOf(p)), Owner(p))
    BY <1>3, <1>5, <1>6, <1>7, <2>5, <2>6, CountsLess
  <2>8. inode'[p].eFileLock >= RESERVED_LOCK => i.eFileLock >= RESERVED_LOCK BY SMTT(20), <1>3, <2>5
  <2> QED BY <2>3, <2>4, <2>7, <2>8 DEF Counts
<1>21. ASSUME NEW q \in Proc, q # p
       PROVE  /\ inode'[p].eFileLock = EXCLUSIVE_LOCK /\ kern'[p]["PENDING_BYTE"] = "F_WRLCK"
                   => inode[q].eFileLock = NO_LOCK
              /\ ~(inode[q].eFileLock = EXCLUSIVE_LOCK /\ kern[q]["PENDING_BYTE"] = "F_WRLCK")
  <2>1. Apart(p, q) /\ Apart(q, p) BY <1>1, <1>21 DEF LockInv
  <2> QED BY SMTT(20), <1>3, <1>9, <1>10, <1>12, <2>1 DEF Apart
<1> QED BY <1>1, <1>12, <1>13, <1>14, <1>15, <1>16, <1>17, <1>18, <1>19, <1>20, <1>21, CallStep

-----------------------------------------------------------------------------
(* A step of f outside pLockMutex, which another handle may hold: opening, *)
(* and the beginning of unixClose.                                         *)
LEMMA Aside ==
  ASSUME LockInv, TypeOK', NEW f \in File, Changes(f), Owns(f)',
         UNCHANGED <<kern, lockMutex, bigLock, eFileLock>>,
         inode'[ProcOf[f]].eFileLock = inode[ProcOf[f]].eFileLock,
         inode'[ProcOf[f]].nShared = inode[ProcOf[f]].nShared,
         pc[f] \notin InCall, pc'[f] \notin InCall,
         Counts(inode[ProcOf[f]], Cardinality(LockedOf(ProcOf[f])),
                Cardinality(OpenOf(ProcOf[f])), Owner(ProcOf[f]))'
  PROVE  LockInv'
<1> DEFINE p == ProcOf[f]
<1>1. /\ p \in Proc /\ f # Null /\ FileInv(f) /\ ProcInv(p) BY Known
<1>2. FileInv(f)'
  <2>1. AtLevel(eFileLock[f], inode[p].eFileLock) BY <1>1 DEF FileInv, Knows, Inode, InCall
  <2> QED BY <2>1 DEF FileInv, Knows, Inode, InCall
<1>3. ASSUME NEW g \in File, g # f, ProcOf[g] = p
      PROVE  FileInv(g)' /\ Pair(f, g)' /\ Pair(g, f)'
  <2>1. FileInv(g) /\ Pair(f, g) /\ Pair(g, f) BY <1>3 DEF LockInv
  <2>2. /\ pc'[g] = pc[g] /\ want'[g] = want[g] /\ got'[g] = got[g] /\ closing'[g] = closing[g]
    BY <1>3 DEF Changes
  <2>3. Owns(g)' BY <2>1, <2>2 DEF FileInv, Owns
  <2>4. Knows(g, Inode(g).eFileLock, kern[ProcOf[g]])'
    BY <1>3, <2>1, <2>2 DEF FileInv, Knows, Inode, AtLevel
  <2> QED BY <2>1, <2>3, <2>4 DEF FileInv, Pair
<1>4. ProcInv(p)'
  <2>1. Downgrading(p)' <=> Downgrading(p)
    BY DEF Downgrading, Changes, InCall
  <2>2. Backed(inode[p].eFileLock, kern[p], Downgrading(p))'
    BY <1>1, <2>1 DEF ProcInv, Backed
  <2>3. Closes(p)' BY <1>1 DEF ProcInv, Closes
  <2> QED BY <1>1, <2>2, <2>3 DEF ProcInv
<1>5. ASSUME NEW q \in Proc, q # p
      PROVE  /\ inode'[p].eFileLock = EXCLUSIVE_LOCK /\ kern'[p]["PENDING_BYTE"] = "F_WRLCK"
                  => inode[q].eFileLock = NO_LOCK
             /\ inode[q].eFileLock = EXCLUSIVE_LOCK /\ kern[q]["PENDING_BYTE"] = "F_WRLCK"
                  => inode'[p].eFileLock = NO_LOCK
  BY <1>1, <1>5 DEF LockInv, Apart
<1> QED BY <1>2, <1>3, <1>4, <1>5, KernelKept, Localised

(* unixClose begins with posixUnlock.                                      *)
LEMMA unixCloseInv ==
  ASSUME LockInv, NEW f \in File, unixClose(f)
  PROVE  LockInv'
<1> DEFINE p == ProcOf[f]
           label == IF eFileLock[f] = NO_LOCK THEN "close" ELSE "unlock"
<1>1. /\ p \in Proc /\ f # Null /\ FileInv(f) /\ pc[f] = "open" /\ TypeOK
  BY Known DEF unixClose, LockInv
<1>2. /\ UNCHANGED <<kern, inode, lockMutex, bigLock, eFileLock, want, got, nFault>>
      /\ Goto(f, label) /\ closing' = [closing EXCEPT ![f] = TRUE]
  BY DEF unixClose
<1>3. label \in {"close", "unlock"} /\ (label = "close" => eFileLock[f] = NO_LOCK) OBVIOUS
<1> HIDE DEF label
<1>4. label \in Labels BY <1>3 DEF Labels
<1>5. /\ pc' \in [File -> Labels] /\ pc'[f] = label
      /\ \A g \in File : g # f => pc'[g] = pc[g]
  BY <1>2, <1>4, GotoEffect
<1>6. /\ closing' \in [File -> BOOLEAN] /\ \A g \in File : g # f => closing'[g] = closing[g]
  BY <1>1, <1>2, Zenon DEF TypeOK
<1>7. TypeOK' BY <1>1, <1>2, <1>5, <1>6, Zenon DEF TypeOK
<1>8. Changes(f) BY <1>2, <1>5, <1>6, Zenon DEF Changes
<1>9. Owns(f)' BY SMTT(20), <1>1, <1>2, <1>3, <1>5 DEF FileInv, Owns, InCall, NoInode
<1>10. pc[f] \notin InCall /\ pc'[f] \notin InCall BY <1>1, <1>3, <1>5 DEF InCall
<1>11. pc[f] \notin NoInode /\ pc'[f] \notin NoInode BY <1>1, <1>3, <1>5 DEF NoInode
<1>12. Counts(inode[p], Cardinality(LockedOf(p)), Cardinality(OpenOf(p)), Owner(p))'
  BY <1>2, <1>7, <1>8, <1>11, SameCounts
<1> QED BY <1>2, <1>7, <1>8, <1>9, <1>10, <1>12, Aside

(* Opening a file with a descriptor from the list pUnused.                 *)
LEMMA findReusableFdInv ==
  ASSUME LockInv, NEW f \in File, findReusableFd(f)
  PROVE  LockInv'
<1> DEFINE p == ProcOf[f]
           u == IF inode[p].nUnused > 0 THEN inode[p].nUnused - 1 ELSE 0
           j == [inode[p] EXCEPT !.nUnused = u]
<1>1. /\ p \in Proc /\ f # Null /\ FileInv(f) /\ ProcInv(p) /\ pc[f] = "closed" /\ TypeOK
      /\ inode[p] \in InodeInfo
  BY Known DEF findReusableFd, LockInv, InodeInfo
<1>2. /\ UNCHANGED <<kern, lockMutex, bigLock, eFileLock, want, got, closing, nFault>>
      /\ Goto(f, "opening") /\ SetInode(f, j)
  BY DEF findReusableFd, Inode
<1>3. u \in Nat /\ (u > 0 => inode[p].nUnused > 0) BY SMTT(20), <1>1 DEF InodeInfo
<1>4. /\ j \in InodeInfo /\ j.eFileLock = inode[p].eFileLock /\ j.nLock = inode[p].nLock
      /\ j.nShared = inode[p].nShared /\ j.nRef = inode[p].nRef /\ j.nUnused = u
  <2> HIDE DEF u
  <2> QED BY <1>1, <1>3 DEF InodeInfo
<1> HIDE DEF u, j
<1>5. /\ inode' \in [Proc -> InodeInfo] /\ inode'[p] = j
      /\ \A q \in Proc : q # p => inode'[q] = inode[q]
  BY <1>2, <1>4, SetInodeEffect
<1>6. /\ pc' \in [File -> Labels] /\ pc'[f] = "opening"
      /\ \A g \in File : g # f => pc'[g] = pc[g]
  BY <1>2, GotoEffect DEF Labels
<1>7. TypeOK' BY <1>1, <1>2, <1>5, <1>6, Zenon DEF TypeOK, InodeInfo
<1>8. Changes(f) BY <1>2, <1>5, <1>6, Zenon DEF Changes
<1>9. Owns(f)' BY <1>1, <1>2, <1>6 DEF FileInv, Owns, InCall, NoInode
<1>10. pc[f] \notin InCall /\ pc'[f] \notin InCall BY <1>1, <1>6 DEF InCall
<1>11. Counts(inode[p], Cardinality(LockedOf(p)), Cardinality(OpenOf(p)), Owner(p))'
  <2>1. pc[f] \in NoInode /\ pc'[f] \in NoInode BY <1>1, <1>6 DEF NoInode
  <2>2. eFileLock'[f] = eFileLock[f] BY <1>2
  <2>3. /\ Cardinality(LockedOf(p))' = Cardinality(LockedOf(p))
        /\ Cardinality(OpenOf(p))' = Cardinality(OpenOf(p))
    BY <1>1, <1>7, <1>8, <2>1, <2>2, Counting
  <2>4. Owner(p)' <=> Owner(p) BY <1>2 DEF Owner
  <2>5. Counts(inode[p], Cardinality(LockedOf(p)), Cardinality(OpenOf(p)), Owner(p))
    BY <1>1 DEF ProcInv
  <2> QED BY <1>3, <1>4, <1>5, <2>3, <2>4, <2>5 DEF Counts
<1> QED BY <1>2, <1>4, <1>5, <1>7, <1>8, <1>9, <1>10, <1>11, Aside

(* Opening a file that needs a descriptor of its own.                      *)
LEMMA findInodeInfoInv ==
  ASSUME LockInv, NEW f \in File, findInodeInfo(f)
  PROVE  LockInv'
<1> DEFINE p == ProcOf[f]
           j == [inode[p] EXCEPT !.nRef = @ + 1]
<1>1. /\ p \in Proc /\ f # Null /\ FileInv(f) /\ ProcInv(p) /\ pc[f] = "opening" /\ TypeOK
      /\ inode[p] \in InodeInfo
  BY Known DEF findInodeInfo, LockInv, InodeInfo
<1>2. /\ UNCHANGED <<kern, lockMutex, bigLock, eFileLock, want, got, closing, nFault>>
      /\ Goto(f, "open") /\ SetInode(f, j)
  BY DEF findInodeInfo, Inode
<1>3. /\ j \in InodeInfo /\ j.eFileLock = inode[p].eFileLock /\ j.nLock = inode[p].nLock
      /\ j.nShared = inode[p].nShared /\ j.nRef = inode[p].nRef + 1
      /\ j.nUnused = inode[p].nUnused
  BY SMTT(20), <1>1 DEF InodeInfo
<1> HIDE DEF j
<1>4. /\ inode' \in [Proc -> InodeInfo] /\ inode'[p] = j
      /\ \A q \in Proc : q # p => inode'[q] = inode[q]
  BY <1>2, <1>3, SetInodeEffect
<1>5. /\ pc' \in [File -> Labels] /\ pc'[f] = "open"
      /\ \A g \in File : g # f => pc'[g] = pc[g]
  BY <1>2, GotoEffect DEF Labels
<1>6. TypeOK' BY <1>1, <1>2, <1>4, <1>5, Zenon DEF TypeOK, InodeInfo
<1>7. Changes(f) BY <1>2, <1>4, <1>5, Zenon DEF Changes
<1>8. Owns(f)' BY <1>1, <1>2, <1>5 DEF FileInv, Owns, InCall, NoInode
<1>9. pc[f] \notin InCall /\ pc'[f] \notin InCall BY <1>1, <1>5 DEF InCall
<1>10. Counts(inode[p], Cardinality(LockedOf(p)), Cardinality(OpenOf(p)), Owner(p))'
  <2>1. pc[f] \in NoInode /\ pc'[f] \notin NoInode BY <1>1, <1>5 DEF NoInode
  <2>2. eFileLock'[f] = eFileLock[f] BY <1>2
  <2>3. /\ Cardinality(LockedOf(p))' = Cardinality(LockedOf(p))
        /\ Cardinality(OpenOf(p))' = Cardinality(OpenOf(p)) + 1
    BY <1>1, <1>6, <1>7, <2>1, <2>2, Counting
  <2>4. Owner(p)' <=> Owner(p) BY <1>2 DEF Owner
  <2>5. Counts(inode[p], Cardinality(LockedOf(p)), Cardinality(OpenOf(p)), Owner(p))
    BY <1>1 DEF ProcInv
  <2> QED BY <1>3, <1>4, <2>3, <2>4, <2>5 DEF Counts
<1> QED BY <1>2, <1>3, <1>4, <1>6, <1>7, <1>8, <1>9, <1>10, Aside

(* unixClose under the mutexes: defer the descriptor or go on to close it. *)
LEMMA CloseCheckInv ==
  ASSUME LockInv, NEW f \in File, CloseCheck(f)
  PROVE  LockInv'
<1> DEFINE p == ProcOf[f]
           i == inode[p]
           n == Cardinality(LockedOf(p))
<1>1. /\ p \in Proc /\ f # Null /\ FileInv(f) /\ ProcInv(p) /\ lockMutex[p] = Null
      /\ bigLock[p] = Null /\ i \in InodeInfo /\ eFileLock[f] \in 0 .. 4 /\ pc[f] = "close" /\ TypeOK
  BY Known DEF CloseCheck, InodeInfo, LockInv
<1>2. Backed(i.eFileLock, kern[p], FALSE) BY <1>1, NotDowngrading
<1>3. /\ AtLevel(eFileLock[f], i.eFileLock) /\ eFileLock[f] # SHARED_LOCK
      /\ i.eFileLock \in 0 .. 4 /\ i.nShared \in Nat /\ i.nRef \in Nat /\ i.nUnused \in Nat
  BY <1>1 DEF FileInv, Owns, Knows, Inode, InodeInfo
<1>4. /\ i.nLock = i.nShared /\ (i.nUnused > 0 => i.nLock > 0)
      /\ (i.eFileLock = NO_LOCK <=> i.nShared = 0)
      /\ i.nRef = Cardinality(OpenOf(p))
      /\ i.eFileLock <= SHARED_LOCK => i.nShared = n
      /\ i.eFileLock >= RESERVED_LOCK /\ Owner(p) => i.nShared = n
      /\ i.eFileLock >= RESERVED_LOCK /\ ~Owner(p) => i.nShared = n + 1
  BY <1>1, <1>3 DEF ProcInv, Counts
<1>5. n \in Nat /\ i.nRef >= 1
  <2>1. pc[f] \notin NoInode BY <1>1 DEF NoInode
  <2> QED BY <1>1, <1>4, <2>1, FewHandles
<1> HIDE DEF n
<1>6. /\ UNCHANGED <<lockMutex, nFault, want, got>> /\ SetFileLock(f, NO_LOCK)
      /\ closing' = [closing EXCEPT ![f] = FALSE]
  BY DEF CloseCheck, Forget
<1>7. /\ eFileLock' \in [File -> 0 .. 4] /\ eFileLock'[f] = NO_LOCK
      /\ \A g \in File : g # f => eFileLock'[g] = eFileLock[g]
  BY SMTT(20), <1>6, SetFileEffect
<1>8. /\ closing' \in [File -> BOOLEAN] /\ closing'[f] = FALSE
      /\ \A g \in File : g # f => closing'[g] = closing[g]
  BY <1>1, <1>6, Zenon DEF TypeOK
<1>9. ASSUME NEW g \in File, g # f, ProcOf[g] = p
      PROVE  /\ AtLevel(eFileLock[g], i.eFileLock) /\ Pair(f, g)' /\ Pair(g, f)'
             /\ i.nRef = 1 => eFileLock[g] = NO_LOCK
  <2>1. /\ FileInv(g) /\ lockMutex[p] # g /\ eFileLock[g] \in 0 .. 4
    BY <1>1, <1>9, UnixAssumption DEF LockInv, TypeOK
  <2>2. AtLevel(eFileLock[g], i.eFileLock)
    BY <1>9, <2>1 DEF FileInv, Owns, Knows, Inode, InCall
  <2>3. pc[g] \notin NoInode => i.nRef >= 2
    <3>1. pc[f] \notin NoInode BY <1>1 DEF NoInode
    <3> QED BY <1>1, <1>4, <1>9, <3>1, FewHandles
  <2>4. pc[g] \in NoInode => eFileLock[g] = NO_LOCK BY <2>1 DEF FileInv, Owns
  <2>5. Pair(f, g)' /\ Pair(g, f)' BY SMTT(20), <1>7, <1>9, <2>1 DEF Pair
  <2> QED BY SMTT(20), <1>3, <2>2, <2>3, <2>4, <2>5
<1>10. ASSUME NEW q \in Proc, q # p
       PROVE  /\ i.eFileLock = EXCLUSIVE_LOCK /\ kern[p]["PENDING_BYTE"] = "F_WRLCK"
                   => inode[q].eFileLock = NO_LOCK
              /\ inode[q].eFileLock = EXCLUSIVE_LOCK /\ kern[q]["PENDING_BYTE"] = "F_WRLCK"
                   => i.eFileLock = NO_LOCK
  BY <1>1, <1>10 DEF LockInv, Apart
<1>11. CASE Deferred(i)
  <2> DEFINE k == [i EXCEPT !.nUnused = @ + 1]
             j == Released(k)
  <2>1. /\ k \in InodeInfo /\ k.eFileLock = i.eFileLock /\ k.nLock = i.nLock
        /\ k.nShared = i.nShared /\ k.nRef = i.nRef /\ k.nUnused = i.nUnused + 1
    BY SMTT(20), <1>1 DEF InodeInfo
  <2> HIDE DEF k
  <2>2. /\ j \in InodeInfo
        /\ k.nRef = 1 => j = NewInode
        /\ k.nRef # 1 => /\ j.eFileLock = k.eFileLock /\ j.nLock = k.nLock
                         /\ j.nShared = k.nShared /\ j.nRef = k.nRef - 1 /\ j.nUnused = k.nUnused
    BY <1>5, <2>1, LessRef
  <2> HIDE DEF j
  <2>3. /\ SetInode(f, j) /\ Goto(f, "closed") /\ UNCHANGED bigLock
        /\ IF i.nRef = 1 THEN CloseFds(p) ELSE UNCHANGED kern
    BY <1>11 DEF CloseCheck, Inode, j, k
  <2>4. /\ inode' \in [Proc -> InodeInfo] /\ inode'[p] = j
        /\ \A q \in Proc : q # p => inode'[q] = inode[q]
    BY <2>2, <2>3, SetInodeEffect
  <2>5. /\ pc' \in [File -> Labels] /\ pc'[f] = "closed"
        /\ \A g \in File : g # f => pc'[g] = pc[g]
    BY <2>3, GotoEffect DEF Labels
  <2>6. /\ kern' \in [Proc -> [LockRange -> LockType]] /\ KernelApart'
        /\ \A q \in Proc : q # p => kern'[q] = kern[q]
        /\ i.nRef # 1 => kern'[p] = kern[p]
        /\ i.nRef = 1 => \A c \in LockRange : kern'[p][c] = "F_UNLCK"
    <3>1. CASE i.nRef = 1
      <4>1. CloseFds(p) BY <2>3, <3>1
      <4> QED BY <1>1, <3>1, <4>1, CloseEffect
    <3>2. CASE i.nRef # 1
      <4>1. UNCHANGED kern BY <2>3, <3>2
      <4> QED BY <3>2, <4>1, KernelKept
    <3> QED BY <3>1, <3>2
  <2>7. TypeOK'
    <3>1. UNCHANGED bigLock BY <2>3
    <3>2. /\ TypeOK /\ UNCHANGED <<lockMutex, nFault, want, got>> /\ inode' \in [Proc -> InodeInfo]
          /\ eFileLock' \in [File -> 0 .. 4] /\ closing' \in [File -> BOOLEAN]
          /\ pc' \in [File -> Labels] /\ kern' \in [Proc -> [LockRange -> LockType]]
      BY <1>1, <1>6, <1>7, <1>8, <2>4, <2>5, <2>6
    <3> QED BY <3>1, <3>2, Zenon DEF TypeOK, LockType, InodeInfo
  <2>8. Changes(f) BY <1>6, <1>7, <1>8, <2>3, <2>4, <2>5, <2>6, Zenon DEF Changes
  <2>9. lockMutex'[p] = Null /\ bigLock'[p] = Null BY <1>1, <1>6, <2>3
  <2>10. Owns(f)' BY <1>1, <1>7, <1>8, <2>5, <2>9 DEF Owns, InCall, NoInode
  <2>11. j.eFileLock = IF i.nRef = 1 THEN NO_LOCK ELSE i.eFileLock
    BY SMTT(20), <2>1, <2>2 DEF NewInode
  <2>12. Knows(f, Inode(f).eFileLock, kern[p])'
    BY SMTT(20), <1>3, <1>7, <2>4, <2>5, <2>11 DEF Knows, Inode, AtLevel
  <2>13. ASSUME NEW g \in File, g # f, ProcOf[g] = p
         PROVE  AtLevel(eFileLock[g], inode'[p].eFileLock) /\ Pair(f, g)' /\ Pair(g, f)'
    BY SMTT(20), <1>9, <2>4, <2>11, <2>13 DEF AtLevel
  <2>14. Backed(inode'[p].eFileLock, kern'[p], pc'[f] = "unreserve" /\ want'[f] = SHARED_LOCK)
    <3>1. CASE i.nRef = 1 BY SMTT(20), <2>4, <2>6, <2>11, <3>1 DEF Backed, LockRange
    <3>2. CASE i.nRef # 1 BY <1>2, <2>4, <2>6, <2>11, <3>2 DEF Backed
    <3> QED BY <3>1, <3>2
  <2>15. Counts(inode[p], Cardinality(LockedOf(p)), Cardinality(OpenOf(p)), Owner(p))'
    <3>1. pc[f] \notin NoInode /\ pc'[f] \in NoInode BY <1>1, <2>5 DEF NoInode
    <3>2. /\ Cardinality(OpenOf(p))' = Cardinality(OpenOf(p)) - 1
          /\ eFileLock[f] = NO_LOCK => Cardinality(LockedOf(p))' = n
          /\ eFileLock[f] # NO_LOCK => Cardinality(LockedOf(p))' = n - 1
      BY <1>1, <1>7, <2>7, <2>8, <3>1, Counting DEF n
    <3>3. CASE i.nRef = 1
      <4>1. LockedOf(p)' = {} BY <1>7, <1>9, <3>3 DEF LockedOf
      <4>2. Cardinality(LockedOf(p))' = 0 BY <4>1, FS_EmptySet
      <4>3. j = NewInode BY <2>1, <2>2, <3>3
      <4> QED BY SMTT(20), <1>4, <2>4, <3>2, <3>3, <4>2, <4>3 DEF Counts, NewInode
    <3>6. i.nRef # 1 => /\ inode'[p].eFileLock = i.eFileLock /\ inode'[p].nLock = i.nLock
                        /\ inode'[p].nShared = i.nShared /\ inode'[p].nRef = i.nRef - 1
      BY <2>1, <2>2, <2>4
    <3>7. n \in Nat /\ i.nLock > 0 /\ i.nLock \in Nat /\ i.eFileLock \in 0 .. 4
      BY <1>3, <1>4, <1>5, <1>11 DEF Deferred
    <3>8. Counts(i, n, Cardinality(OpenOf(p)), Owner(p)) BY <1>1, <1>2 DEF ProcInv, n
    <3>4. CASE i.nRef # 1 /\ eFileLock[f] = NO_LOCK
      <4>1. Owner(p)' <=> Owner(p) BY <1>7, <3>4 DEF Owner
      <4>2. Owner(p) \in BOOLEAN /\ Owner(p)' \in BOOLEAN BY DEF Owner
      <4> QED BY <3>2, <3>4, <3>6, <3>7, <3>8, <4>1, <4>2, CountsClosed
    <3>5. CASE i.nRef # 1 /\ eFileLock[f] # NO_LOCK
      <4>1. eFileLock[f] >= RESERVED_LOCK /\ i.eFileLock >= RESERVED_LOCK
        BY SMTT(20), <1>1, <1>3, <3>5 DEF AtLevel
      <4>2. Owner(p) BY <4>1 DEF Owner
      <4>3. ~Owner(p)'
        <5>1. \A g \in File : g # f /\ ProcOf[g] = p => eFileLock[g] \in 0 .. 4 /\ Pair(f, g)
          BY DEF LockInv, TypeOK
        <5> QED BY SMTT(20), <1>7, <4>1, <5>1 DEF Owner, Pair
      <4>4. Counts(i, n, Cardinality(OpenOf(p)), TRUE) BY <3>8, <4>2
      <4>5. Owner(p)' \in BOOLEAN BY DEF Owner
      <4> QED BY <3>2, <3>5, <3>6, <3>7, <4>1, <4>3, <4>4, <4>5, CountsOrphaned
    <3> QED BY <3>3, <3>4, <3>5
  <2>16. ASSUME NEW q \in Proc, q # p
         PROVE  /\ inode'[p].eFileLock = EXCLUSIVE_LOCK /\ kern'[p]["PENDING_BYTE"] = "F_WRLCK"
                     => inode[q].eFileLock = NO_LOCK
                /\ inode[q].eFileLock = EXCLUSIVE_LOCK /\ kern[q]["PENDING_BYTE"] = "F_WRLCK"
                     => inode'[p].eFileLock = NO_LOCK
    BY SMTT(20), <1>10, <2>4, <2>6, <2>11, <2>16
  <2> QED BY <1>1, <2>6, <2>7, <2>8, <2>9, <2>10, <2>12, <2>13, <2>14, <2>15, <2>16, CallStep
<1>12. CASE ~Deferred(i)
  <2> DEFINE j == Released(i)
  <2>1. /\ j \in InodeInfo
        /\ i.nRef = 1 => j = NewInode
        /\ i.nRef # 1 => /\ j.eFileLock = i.eFileLock /\ j.nLock = i.nLock
                         /\ j.nShared = i.nShared /\ j.nRef = i.nRef - 1 /\ j.nUnused = i.nUnused
    BY <1>1, <1>5, LessRef
  <2> HIDE DEF j
  <2>2. /\ SetInode(f, j) /\ Goto(f, "closefd") /\ UNCHANGED kern
        /\ bigLock' = [bigLock EXCEPT ![p] = f]
    BY <1>12 DEF CloseCheck, Inode, j
  <2>3. /\ i.nLock = 0 /\ i.nShared = 0 /\ i.eFileLock = NO_LOCK /\ i.nUnused = 0 /\ n = 0
        /\ eFileLock[f] = NO_LOCK
    BY SMTT(20), <1>1, <1>3, <1>4, <1>12 DEF Deferred, AtLevel
  <2>4. /\ j.eFileLock = NO_LOCK /\ j.nLock = 0 /\ j.nShared = 0 /\ j.nUnused = 0
        /\ j.nRef = i.nRef - 1
    BY SMTT(20), <1>5, <2>1, <2>3 DEF NewInode
  <2>5. /\ inode' \in [Proc -> InodeInfo] /\ inode'[p] = j
        /\ \A q \in Proc : q # p => inode'[q] = inode[q]
    BY <2>1, <2>2, SetInodeEffect
  <2>6. /\ pc' \in [File -> Labels] /\ pc'[f] = "closefd"
        /\ \A g \in File : g # f => pc'[g] = pc[g]
    BY <2>2, GotoEffect DEF Labels
  <2>7. /\ bigLock' \in [Proc -> File \cup {Null}] /\ bigLock'[p] = f
        /\ \A q \in Proc : q # p => bigLock'[q] = bigLock[q]
    BY <1>1, <2>2 DEF TypeOK
  <2>8. TypeOK'
    <3>1. /\ TypeOK /\ UNCHANGED <<kern, lockMutex, nFault, want, got>> /\ inode' \in [Proc -> InodeInfo]
          /\ eFileLock' \in [File -> 0 .. 4] /\ closing' \in [File -> BOOLEAN]
          /\ pc' \in [File -> Labels] /\ bigLock' \in [Proc -> File \cup {Null}]
      BY <1>1, <1>6, <1>7, <1>8, <2>2, <2>5, <2>6, <2>7
    <3> QED BY <3>1, Zenon DEF TypeOK, InodeInfo
  <2>9. Changes(f) BY <1>6, <1>7, <1>8, <2>2, <2>5, <2>6, <2>7, Zenon DEF Changes
  <2>10. lockMutex'[p] = Null BY <1>1, <1>6
  <2>11. FileInv(f)'
    <3>1. Owns(f)' BY <1>1, <1>7, <1>8, <2>6, <2>7, <2>10 DEF Owns, InCall, NoInode
    <3>2. Knows(f, Inode(f).eFileLock, kern[p])'
      BY SMTT(20), <1>7, <2>4, <2>5, <2>6 DEF Knows, Inode, AtLevel
    <3> QED BY <3>1, <3>2 DEF FileInv
  <2>12. \A g \in File : g # f /\ ProcOf[g] = p =>
           AtLevel(eFileLock[g], inode'[p].eFileLock) /\ Pair(f, g)' /\ Pair(g, f)'
    BY <1>9, <2>3, <2>4, <2>5
  <2>13. /\ \A g \in File : g # f /\ ProcOf[g] = p => FileInv(g)'
         /\ Downgrading(p)' <=> pc'[f] = "unreserve" /\ want'[f] = SHARED_LOCK
    BY <1>1, <2>7, <2>9, <2>10, <2>12, Bystanders
  <2>14. ProcInv(p)'
    <3>1. Backed(inode[p].eFileLock, kern[p], Downgrading(p))'
      BY <1>2, <2>2, <2>3, <2>4, <2>5 DEF Backed
    <3>2. Counts(inode[p], Cardinality(LockedOf(p)), Cardinality(OpenOf(p)), Owner(p))'
      <4>1. pc[f] \notin NoInode /\ pc'[f] \in NoInode BY <1>1, <2>6 DEF NoInode
      <4>2. /\ Cardinality(OpenOf(p))' = Cardinality(OpenOf(p)) - 1
            /\ Cardinality(LockedOf(p))' = n
        BY <1>1, <1>7, <2>3, <2>8, <2>9, <4>1, Counting DEF n
      <4> QED BY SMTT(20), <1>4, <2>3, <2>4, <2>5, <4>2 DEF Counts
    <3>3. Closes(p)' BY <2>4, <2>5, <2>10 DEF Closes
    <3> QED BY <2>7, <2>10, <3>1, <3>2, <3>3 DEF ProcInv
  <2>15. ASSUME NEW q \in Proc, q # p
         PROVE  /\ inode'[p].eFileLock = EXCLUSIVE_LOCK /\ kern'[p]["PENDING_BYTE"] = "F_WRLCK"
                     => inode[q].eFileLock = NO_LOCK
                /\ inode[q].eFileLock = EXCLUSIVE_LOCK /\ kern[q]["PENDING_BYTE"] = "F_WRLCK"
                     => inode'[p].eFileLock = NO_LOCK
    BY SMTT(20), <2>4, <2>5
  <2>16. KernelApart' BY <2>2, KernelKept
  <2> QED BY <2>8, <2>9, <2>11, <2>12, <2>13, <2>14, <2>15, <2>16, Localised
<1> QED BY <1>11, <1>12

(* unixClose closing the descriptor.                                       *)
LEMMA closeUnixFileInv ==
  ASSUME LockInv, NEW f \in File, closeUnixFile(f)
  PROVE  LockInv'
<1> DEFINE p == ProcOf[f]
           i == inode[p]
<1>1. /\ p \in Proc /\ f # Null /\ FileInv(f) /\ ProcInv(p) /\ i \in InodeInfo
      /\ eFileLock[f] \in 0 .. 4 /\ pc[f] = "closefd" /\ TypeOK
  BY Known DEF closeUnixFile, InodeInfo, LockInv
<1>2. bigLock[p] = f /\ lockMutex[p] = Null /\ i.eFileLock = NO_LOCK /\ eFileLock[f] = NO_LOCK
  BY <1>1 DEF FileInv, Owns, NoInode, ProcInv, Closes, Counts
<1>3. /\ UNCHANGED <<inode, lockMutex, eFileLock, want, got, closing, nFault>>
      /\ CloseFds(p) /\ Goto(f, "closed") /\ bigLock' = [bigLock EXCEPT ![p] = Null]
  BY DEF closeUnixFile
<1>4. /\ kern' \in [Proc -> [LockRange -> LockType]] /\ KernelApart'
      /\ \A q \in Proc : q # p => kern'[q] = kern[q]
      /\ \A c \in LockRange : kern'[p][c] = "F_UNLCK"
  BY <1>1, <1>3, CloseEffect
<1>5. /\ pc' \in [File -> Labels] /\ pc'[f] = "closed"
      /\ \A g \in File : g # f => pc'[g] = pc[g]
  BY <1>3, GotoEffect DEF Labels
<1>6. /\ bigLock' \in [Proc -> File \cup {Null}] /\ bigLock'[p] = Null
      /\ \A q \in Proc : q # p => bigLock'[q] = bigLock[q]
  BY <1>1, <1>3 DEF TypeOK
<1>7. TypeOK' BY <1>1, <1>3, <1>4, <1>5, <1>6, Zenon DEF TypeOK, LockType
<1>8. Changes(f) BY <1>3, <1>4, <1>5, <1>6, Zenon DEF Changes
<1>9. FileInv(f)'
  <2>1. Owns(f)' BY <1>1, <1>2, <1>3, <1>5, <1>6 DEF FileInv, Owns, InCall, NoInode
  <2>2. Knows(f, Inode(f).eFileLock, kern[p])' BY SMTT(20), <1>2, <1>3, <1>5 DEF Knows, Inode, AtLevel
  <2> QED BY <2>1, <2>2 DEF FileInv
<1>10. ASSUME NEW g \in File, g # f, ProcOf[g] = p
       PROVE  AtLevel(eFileLock[g], inode'[p].eFileLock) /\ Pair(f, g)' /\ Pair(g, f)'
  <2>1. /\ FileInv(g) /\ Pair(f, g) /\ Pair(g, f) /\ g # Null
    BY <1>10, UnixAssumption DEF LockInv
  <2>2. AtLevel(eFileLock[g], i.eFileLock)
    BY <1>2, <1>10, <2>1 DEF FileInv, Owns, Knows, Inode, InCall
  <2> QED BY <1>3, <2>1, <2>2 DEF Pair
<1>11. /\ \A g \in File : g # f /\ ProcOf[g] = p => FileInv(g)'
       /\ Downgrading(p)' <=> pc'[f] = "unreserve" /\ want'[f] = SHARED_LOCK
  BY <1>2, <1>3, <1>6, <1>8, <1>10, Bystanders
<1>12. ProcInv(p)'
  <2>1. Backed(inode[p].eFileLock, kern[p], Downgrading(p))'
    BY SMTT(20), <1>2, <1>3, <1>4 DEF Backed, LockRange
  <2>2. Counts(inode[p], Cardinality(LockedOf(p)), Cardinality(OpenOf(p)), Owner(p))'
    <3>1. pc[f] \in NoInode /\ pc'[f] \in NoInode BY <1>1, <1>5 DEF NoInode
    <3>2. /\ Cardinality(OpenOf(p))' = Cardinality(OpenOf(p))
          /\ Cardinality(LockedOf(p))' = Cardinality(LockedOf(p))
      BY <1>1, <1>3, <1>7, <1>8, <3>1, Counting
    <3> QED BY SMTT(20), <1>1, <1>2, <1>3, <3>2 DEF ProcInv, Counts
  <2> QED BY <1>2, <1>3, <1>6, <2>1, <2>2 DEF ProcInv, Closes
<1>13. ASSUME NEW q \in Proc, q # p
       PROVE  /\ inode'[p].eFileLock = EXCLUSIVE_LOCK /\ kern'[p]["PENDING_BYTE"] = "F_WRLCK"
                   => inode[q].eFileLock = NO_LOCK
              /\ inode[q].eFileLock = EXCLUSIVE_LOCK /\ kern[q]["PENDING_BYTE"] = "F_WRLCK"
                   => inode'[p].eFileLock = NO_LOCK
  BY SMTT(20), <1>2, <1>3
<1> QED BY <1>4, <1>7, <1>8, <1>9, <1>10, <1>11, <1>12, <1>13, Localised

(* The death of a process.                                                 *)
LEMMA DieInv ==
  ASSUME LockInv, NEW p \in Proc, Die(p)
  PROVE  LockInv'
<1>1. /\ kern' \in [Proc -> [LockRange -> LockType]] /\ KernelApart'
      /\ \A q \in Proc : q # p => kern'[q] = kern[q]
      /\ \A c \in LockRange : kern'[p][c] = "F_UNLCK"
  BY CloseEffect DEF Die
<1>2. /\ inode' \in [Proc -> InodeInfo] /\ inode'[p] = NewInode
      /\ \A q \in Proc : q # p => inode'[q] = inode[q]
  <2>1. inode \in [Proc -> InodeInfo] /\ NewInode \in InodeInfo
    BY SMTT(20) DEF LockInv, TypeOK, InodeInfo, NewInode
  <2> QED BY <2>1 DEF Die
<1>3. /\ lockMutex' \in [Proc -> File \cup {Null}] /\ bigLock' \in [Proc -> File \cup {Null}]
      /\ lockMutex'[p] = Null /\ bigLock'[p] = Null
      /\ \A q \in Proc : q # p => lockMutex'[q] = lockMutex[q] /\ bigLock'[q] = bigLock[q]
  BY DEF LockInv, TypeOK, Die
<1>4. /\ eFileLock' \in [File -> 0 .. 4] /\ pc' \in [File -> Labels] /\ want' \in [File -> 0 .. 4]
  BY SMTT(20) DEF LockInv, TypeOK, Die, Labels
<1>5. got' \in [File -> BOOLEAN] /\ closing' \in [File -> BOOLEAN] /\ nFault' \in 0 .. MaxFault
  BY SMTT(20), UnixAssumption DEF LockInv, TypeOK, Die
<1>6. \A g \in File :
        /\ ProcOf[g] = p => eFileLock'[g] = NO_LOCK /\ pc'[g] = "closed" /\ closing'[g] = FALSE
        /\ ProcOf[g] # p => /\ eFileLock'[g] = eFileLock[g] /\ pc'[g] = pc[g]
                            /\ want'[g] = want[g] /\ got'[g] = got[g] /\ closing'[g] = closing[g]
  <2>1. \A g \in File : got[g] \in BOOLEAN /\ closing[g] \in BOOLEAN BY DEF LockInv, TypeOK
  <2> QED BY <2>1 DEF Die
<1>7. TypeOK' BY <1>1, <1>2, <1>3, <1>4, <1>5, Zenon DEF TypeOK, LockType, InodeInfo
<1>8. ASSUME NEW g \in File PROVE FileInv(g)'
  <2>1. CASE ProcOf[g] = p
    <3>1. g # Null BY UnixAssumption
    <3>2. Owns(g)' BY <1>3, <1>6, <2>1, <3>1 DEF Owns, InCall, NoInode
    <3>3. Knows(g, Inode(g).eFileLock, kern[ProcOf[g]])'
      BY SMTT(20), <1>2, <1>6, <2>1 DEF Knows, Inode, AtLevel, NewInode
    <3> QED BY <3>2, <3>3 DEF FileInv
  <2>2. CASE ProcOf[g] # p
    <3>1. FileInv(g) /\ ProcOf[g] \in Proc BY UnixAssumption DEF LockInv
    <3>2. /\ eFileLock'[g] = eFileLock[g] /\ pc'[g] = pc[g] /\ want'[g] = want[g]
          /\ got'[g] = got[g] /\ closing'[g] = closing[g]
          /\ kern'[ProcOf[g]] = kern[ProcOf[g]] /\ inode'[ProcOf[g]] = inode[ProcOf[g]]
          /\ lockMutex'[ProcOf[g]] = lockMutex[ProcOf[g]]
          /\ bigLock'[ProcOf[g]] = bigLock[ProcOf[g]]
      BY <1>1, <1>2, <1>3, <1>6, <2>2, <3>1, Zenon
    <3>3. Owns(g)' BY <3>1, <3>2 DEF FileInv, Owns
    <3>4. Knows(g, Inode(g).eFileLock, kern[ProcOf[g]])'
      BY <3>1, <3>2 DEF FileInv, Knows, Inode, AtLevel
    <3> QED BY <3>3, <3>4 DEF FileInv
  <2> QED BY <2>1, <2>2
<1>9. ASSUME NEW q \in Proc PROVE ProcInv(q)'
  <2>1. CASE q = p
    <3>1. LockedOf(p)' = {} /\ OpenOf(p)' = {} BY <1>6 DEF LockedOf, OpenOf, NoInode
    <3>2. Cardinality(LockedOf(p))' = 0 /\ Cardinality(OpenOf(p))' = 0 BY <3>1, FS_EmptySet
    <3>3. Backed(inode[p].eFileLock, kern[p], Downgrading(p))'
      BY SMTT(20), <1>1, <1>2 DEF Backed, NewInode, LockRange
    <3>4. Counts(inode[p], Cardinality(LockedOf(p)), Cardinality(OpenOf(p)), Owner(p))'
      BY SMTT(20), <1>2, <3>2 DEF Counts, NewInode
    <3> QED BY <1>3, <2>1, <3>3, <3>4 DEF ProcInv, Closes
  <2>2. CASE q # p
    <3>1. /\ ProcInv(q) /\ kern'[q] = kern[q] /\ inode'[q] = inode[q]
          /\ lockMutex'[q] = lockMutex[q] /\ bigLock'[q] = bigLock[q]
      BY <1>1, <1>2, <1>3, <2>2, Zenon DEF LockInv
    <3>2. /\ \A g \in File : ProcOf[g] = q =>
               eFileLock'[g] = eFileLock[g] /\ pc'[g] = pc[g] /\ want'[g] = want[g]
      BY <1>6, <2>2, Zenon
    <3>3. LockedOf(q)' = LockedOf(q) /\ OpenOf(q)' = OpenOf(q)
      BY <3>2 DEF LockedOf, OpenOf
    <3>4. (Downgrading(q)' <=> Downgrading(q)) /\ (Owner(q)' <=> Owner(q))
      BY <3>2, Zenon DEF Downgrading, Owner
    <3> QED BY <3>1, <3>3, <3>4, Zenon DEF ProcInv, Backed, Counts, Closes
  <2> QED BY <2>1, <2>2
<1>10. ASSUME NEW g \in File, NEW h \in File, ProcOf[g] = ProcOf[h], g # h PROVE Pair(g, h)'
  <2>1. Pair(g, h) BY <1>10 DEF LockInv
  <2> QED BY SMTT(20), <1>6, <1>10, <2>1 DEF Pair
<1>11. ASSUME NEW q \in Proc, NEW r \in Proc, q # r PROVE Apart(q, r)'
  <2>1. Apart(q, r) BY <1>11 DEF LockInv
  <2> QED BY SMTT(20), <1>1, <1>2, <1>11, <2>1 DEF Apart, KernelApart, NewInode
<1> QED BY <1>7, <1>8, <1>9, <1>10, <1>11, Zenon DEF LockInv

-----------------------------------------------------------------------------
(* The levels of the handles, and the theorems.                            *)

(* The invariant holds at the start.                                       *)
LEMMA InitInv == Init => LockInv
<1> SUFFICES ASSUME Init PROVE LockInv OBVIOUS
<1>1. \A f \in File : ProcOf[f] \in Proc /\ f # Null BY UnixAssumption
<1>2. TypeOK BY SMTT(20), UnixAssumption DEF Init, TypeOK, Unlocked, NewInode, Labels
<1>3. \A f \in File : FileInv(f)
  BY SMTT(20), <1>1 DEF Init, FileInv, Owns, Knows, InCall, NoInode, Inode, AtLevel, NewInode
<1>4. ASSUME NEW p \in Proc PROVE ProcInv(p)
  <2>1. LockedOf(p) = {} /\ OpenOf(p) = {} BY DEF Init, LockedOf, OpenOf, NoInode
  <2>2. Cardinality(LockedOf(p)) = 0 /\ Cardinality(OpenOf(p)) = 0 BY <2>1, FS_EmptySet
  <2>3. Backed(inode[p].eFileLock, kern[p], Downgrading(p))
    BY SMTT(20) DEF Init, Backed, NewInode, Unlocked, LockRange
  <2> QED BY SMTT(20), <2>2, <2>3 DEF Init, ProcInv, Counts, Closes, NewInode
<1>5. \A f, g \in File : ProcOf[f] = ProcOf[g] /\ f # g => Pair(f, g) BY SMTT(20) DEF Init, Pair
<1>6. \A p, q \in Proc : p # q => Apart(p, q) BY DEF Init, Apart, Unlocked, NewInode
<1> QED BY <1>2, <1>3, <1>4, <1>5, <1>6 DEF LockInv

(* Every step keeps the invariant.                                         *)
LEMMA NextInv ==
  ASSUME ~LockDuringClose, LockInv, [Next]_vars
  PROVE  LockInv'
<1>1. CASE UNCHANGED vars BY <1>1, StutterInv
<1>2. ASSUME NEW f \in File, Step(f) PROVE LockInv'
  BY <1>2, GetPendingInv, GetSharedInv, DropPendingInv, GetRangeInv, posixUnlockInv, RdLockInv,
     UnreserveInv, UnshareInv, CloseCheckInv, closeUnixFileInv, findInodeInfoInv, Zenon DEF Step
<1>3. ASSUME NEW f \in File, findReusableFd(f) \/ unixClose(f) PROVE LockInv'
  BY <1>3, findReusableFdInv, unixCloseInv
<1>4. ASSUME NEW f \in File, NEW l \in SHARED_LOCK .. EXCLUSIVE_LOCK, unixLock(f, l) PROVE LockInv'
  BY <1>4, unixLockInv
<1>5. ASSUME NEW f \in File, NEW l \in {NO_LOCK, SHARED_LOCK}, posixUnlock(f, l) PROVE LockInv'
  BY <1>5, posixUnlockInv
<1>6. ASSUME NEW p \in Proc, Die(p) PROVE LockInv' BY <1>6, DieInv
<1> QED BY <1>1, <1>2, <1>3, <1>4, <1>5, <1>6, Zenon DEF Next

(* The inductive invariant holds throughout.                               *)
LEMMA LockInvariant ==
  ASSUME ~LockDuringClose PROVE Spec => []LockInv
<1>1. Init => LockInv BY InitInv
<1>2. LockInv /\ [Next]_vars => LockInv' BY NextInv
<1> QED BY <1>1, <1>2, PTL DEF Spec

-----------------------------------------------------------------------------
(* What a handle has for the others is not above the process's level, and  *)
(* from RESERVED on it is that level, with the kernel's locks behind it.   *)
LEMMA HeldBacked ==
  ASSUME LockInv, NEW f \in File
  PROVE  /\ Held[f] \in 0 .. 4 /\ ProcOf[f] \in Proc /\ AtLevel(Held[f], inode[ProcOf[f]].eFileLock)
         /\ Held[f] = NO_LOCK <=> eFileLock[f] = NO_LOCK
         /\ Held[f] # SHARED_LOCK => Held[f] = eFileLock[f]
         /\ Held[f] >= RESERVED_LOCK => Backed(Held[f], kern[ProcOf[f]], FALSE)
         /\ Held[f] >= SHARED_LOCK => kern[ProcOf[f]]["SHARED_RANGE"] # "F_UNLCK"
<1> DEFINE p == ProcOf[f]
           i == inode[p].eFileLock
<1>1. /\ p \in Proc /\ FileInv(f) /\ ProcInv(p) /\ i \in 0 .. 4
      /\ eFileLock[f] \in 0 .. 4 /\ want[f] \in 0 .. 4 /\ pc[f] \in Labels
  BY Known
<1>2. Knows(f, i, kern[p]) BY <1>1 DEF FileInv, Inode
<1>3. Held[f] = IF pc[f] = "unshare" \/ (pc[f] = "unreserve" /\ want[f] = SHARED_LOCK)
                THEN SHARED_LOCK ELSE eFileLock[f]
  BY DEF Held
<1>4. /\ Held[f] \in 0 .. 4 /\ AtLevel(Held[f], i)
      /\ Held[f] = NO_LOCK <=> eFileLock[f] = NO_LOCK
      /\ Held[f] # SHARED_LOCK => Held[f] = eFileLock[f]
  BY SMTT(20), <1>1, <1>2, <1>3 DEF Knows, AtLevel
<1>5. Backed(i, kern[p], Downgrading(p)) BY <1>1 DEF ProcInv
<1>6. Held[f] >= SHARED_LOCK => kern[p]["SHARED_RANGE"] # "F_UNLCK"
  BY SMTT(20), <1>1, <1>4, <1>5 DEF Backed, AtLevel
<1>7. ASSUME Held[f] >= RESERVED_LOCK PROVE Backed(Held[f], kern[p], FALSE)
  <2>1. Held[f] = i /\ Held[f] = eFileLock[f] BY SMTT(20), <1>4, <1>7 DEF AtLevel
  <2>2. ASSUME NEW g \in File, ProcOf[g] = p, pc[g] = "unreserve", want[g] = SHARED_LOCK
        PROVE  FALSE
    <3>1. g # f BY SMTT(20), <1>3, <1>7, <2>2
    <3>2. Pair(f, g) /\ FileInv(g) BY <2>2, <3>1 DEF LockInv
    <3>3. eFileLock[g] = i BY <2>2, <3>2 DEF FileInv, Knows, Inode
    <3>4. eFileLock[f] >= RESERVED_LOCK /\ eFileLock[g] = eFileLock[f] BY <1>7, <2>1, <3>3
    <3>5. eFileLock[g] <= SHARED_LOCK BY <3>2, <3>4 DEF Pair
    <3> QED BY SMTT(20), <1>1, <3>4, <3>5
  <2>3. ~Downgrading(p) BY <2>2 DEF Downgrading
  <2> QED BY <1>5, <2>1, <2>3 DEF Backed
<1> QED BY <1>1, <1>4, <1>6, <1>7

(* The invariant gives LocksKept.                                          *)
LEMMA KeptInv == LockInv => LocksKept
<1> SUFFICES ASSUME LockInv, NEW f \in File
             PROVE  LET k == kern[ProcOf[f]] IN
                    /\ Held[f] >= SHARED_LOCK => k["SHARED_RANGE"] # "F_UNLCK"
                    /\ Held[f] \in {RESERVED_LOCK, PENDING_LOCK} => k["RESERVED_BYTE"] = "F_WRLCK"
                    /\ Held[f] = EXCLUSIVE_LOCK => "F_WRLCK" \in {k["SHARED_RANGE"], k["PENDING_BYTE"]}
  BY DEF LocksKept
<1> QED BY SMTT(20), HeldBacked DEF Backed

(* Two processes, one with a RESERVED handle or higher: the other's locks. *)
LEMMA Foreign ==
  ASSUME LockInv, NEW g \in File, Held[g] >= RESERVED_LOCK,
         NEW p \in Proc, p # ProcOf[g], kern[p]["SHARED_RANGE"] # "F_UNLCK"
  PROVE  /\ kern[ProcOf[g]]["RESERVED_BYTE"] = "F_WRLCK" /\ kern[p]["RESERVED_BYTE"] = "F_UNLCK"
         /\ Held[g] >= PENDING_LOCK => kern[p]["PENDING_BYTE"] = "F_UNLCK"
<1>1. /\ Held[g] \in 0 .. 4 /\ ProcOf[g] \in Proc /\ Backed(Held[g], kern[ProcOf[g]], FALSE)
  BY HeldBacked
<1>2. Apart(ProcOf[g], p) BY <1>1 DEF LockInv
<1>3. kern[ProcOf[g]]["SHARED_RANGE"] # "F_WRLCK" BY <1>2 DEF Apart, LockRange
<1>4. /\ kern[ProcOf[g]]["RESERVED_BYTE"] = "F_WRLCK"
      /\ Held[g] >= PENDING_LOCK => kern[ProcOf[g]]["PENDING_BYTE"] = "F_WRLCK"
  BY SMTT(20), <1>1, <1>3 DEF Backed
<1> QED BY <1>2, <1>4 DEF Apart, LockRange

(* The invariant gives ReservedSeen.                                       *)
LEMMA SeenInv == LockInv => ReservedSeen
<1> SUFFICES ASSUME LockInv, NEW f \in File, pc[f] = "open", eFileLock[f] = SHARED_LOCK,
                    NEW g \in File, Held[g] >= RESERVED_LOCK
             PROVE  unixCheckReservedLock(f)
  BY DEF ReservedSeen
<1>1. /\ Held[g] \in 0 .. 4 /\ ProcOf[g] \in Proc /\ AtLevel(Held[g], inode[ProcOf[g]].eFileLock)
  BY HeldBacked
<1>2. Held[f] = SHARED_LOCK BY DEF Held
<1>3. ProcOf[f] \in Proc /\ kern[ProcOf[f]]["SHARED_RANGE"] # "F_UNLCK"
  <2>1. /\ ProcOf[f] \in Proc
        /\ Held[f] >= SHARED_LOCK => kern[ProcOf[f]]["SHARED_RANGE"] # "F_UNLCK"
    BY HeldBacked
  <2> QED BY SMTT(20), <1>2, <2>1
<1>4. CASE ProcOf[f] = ProcOf[g]
  BY SMTT(20), <1>1, <1>4 DEF AtLevel, unixCheckReservedLock, Inode
<1>5. CASE ProcOf[f] # ProcOf[g]
  <2>1. kern[ProcOf[g]]["RESERVED_BYTE"] = "F_WRLCK" BY <1>3, <1>5, Foreign
  <2> QED BY <1>1, <1>5, <2>1 DEF unixCheckReservedLock, Conflict
<1> QED BY <1>4, <1>5

(* The invariant gives DeferredWhileLocked.                                *)
LEMMA DeferredInv == LockInv => DeferredWhileLocked
BY DEF LockInv, ProcInv, Counts, DeferredWhileLocked

(* One handle at most is RESERVED or higher, and an EXCLUSIVE one alone.   *)
Exclusion ==
  \A f \in File : \A g \in File \ {f} :
    /\ Held[f] = EXCLUSIVE_LOCK => Held[g] = NO_LOCK
    /\ Held[f] >= RESERVED_LOCK => Held[g] < RESERVED_LOCK

(* The invariant gives the exclusion between processes.                    *)
LEMMA ExclusionInv == LockInv => Exclusion
<1> SUFFICES ASSUME LockInv, NEW f \in File, NEW g \in File \ {f}, Held[f] >= RESERVED_LOCK
             PROVE  /\ Held[f] = EXCLUSIVE_LOCK => Held[g] = NO_LOCK
                    /\ Held[g] < RESERVED_LOCK
  BY SMTT(20), HeldBacked DEF Exclusion
<1>1. /\ Held[f] \in 0 .. 4 /\ ProcOf[f] \in Proc /\ Held[f] = eFileLock[f]
      /\ AtLevel(Held[f], inode[ProcOf[f]].eFileLock)
      /\ Backed(Held[f], kern[ProcOf[f]], FALSE)
      /\ kern[ProcOf[f]]["SHARED_RANGE"] # "F_UNLCK"
  <2>1. /\ Held[f] \in 0 .. 4 /\ ProcOf[f] \in Proc
        /\ Held[f] # SHARED_LOCK => Held[f] = eFileLock[f]
        /\ AtLevel(Held[f], inode[ProcOf[f]].eFileLock)
        /\ Held[f] >= RESERVED_LOCK => Backed(Held[f], kern[ProcOf[f]], FALSE)
        /\ Held[f] >= SHARED_LOCK => kern[ProcOf[f]]["SHARED_RANGE"] # "F_UNLCK"
    BY HeldBacked
  <2>2. Held[f] # SHARED_LOCK /\ Held[f] >= SHARED_LOCK BY SMTT(20), <2>1
  <2> QED BY <2>1, <2>2, Zenon
<1>2. /\ Held[g] \in 0 .. 4 /\ ProcOf[g] \in Proc
      /\ Held[g] = NO_LOCK <=> eFileLock[g] = NO_LOCK
      /\ Held[g] # SHARED_LOCK => Held[g] = eFileLock[g]
      /\ AtLevel(Held[g], inode[ProcOf[g]].eFileLock)
      /\ Held[g] >= RESERVED_LOCK => Backed(Held[g], kern[ProcOf[g]], FALSE)
      /\ Held[g] >= SHARED_LOCK => kern[ProcOf[g]]["SHARED_RANGE"] # "F_UNLCK"
  BY HeldBacked
<1>3. CASE ProcOf[f] = ProcOf[g]
  <2>1. Pair(f, g) /\ g # f BY <1>3 DEF LockInv
  <2> QED BY SMTT(20), <1>1, <1>2, <2>1 DEF Pair
<1>4. CASE ProcOf[f] # ProcOf[g]
  <2>1. Apart(ProcOf[f], ProcOf[g]) BY <1>1, <1>2, <1>4 DEF LockInv
  <2>2. ASSUME Held[g] >= SHARED_LOCK
        PROVE  /\ kern[ProcOf[f]]["RESERVED_BYTE"] = "F_WRLCK"
               /\ kern[ProcOf[g]]["RESERVED_BYTE"] = "F_UNLCK"
               /\ Held[f] >= PENDING_LOCK => kern[ProcOf[g]]["PENDING_BYTE"] = "F_UNLCK"
    BY <1>2, <1>4, <2>2, Foreign
  <2>3. Held[g] < RESERVED_LOCK
    <3> SUFFICES ASSUME Held[g] >= RESERVED_LOCK PROVE FALSE BY SMTT(20), <1>2
    <3>1. kern[ProcOf[g]]["RESERVED_BYTE"] = "F_UNLCK" BY SMTT(20), <1>2, <2>2
    <3>3. kern[ProcOf[g]]["RESERVED_BYTE"] = "F_WRLCK" BY <1>1, <1>4, Foreign
    <3> QED BY <3>1, <3>3
  <2>4. ASSUME Held[f] = EXCLUSIVE_LOCK, Held[g] >= SHARED_LOCK PROVE FALSE
    <3>1. kern[ProcOf[f]]["PENDING_BYTE"] = "F_WRLCK" BY <1>1, <2>2, <2>4 DEF Backed
    <3>2. inode[ProcOf[g]].eFileLock = NO_LOCK BY <1>1, <2>1, <2>4, <3>1 DEF Apart, AtLevel
    <3> QED BY SMTT(20), <1>2, <2>4, <3>2 DEF AtLevel
  <2> QED BY SMTT(20), <1>2, <2>3, <2>4
<1> QED BY <1>3, <1>4

-----------------------------------------------------------------------------
(* What a step of f does to the levels.  It takes its first level where    *)
(* the process has SHARED or RESERVED, or by the pending byte.             *)
Moves(f) ==
  /\ \A g \in File : g # f => Held'[g] = Held[g]
  /\ Held'[f] < Held[f] => Held'[f] <= SHARED_LOCK
  /\ Held[f] = NO_LOCK /\ Held'[f] # NO_LOCK =>
       /\ Held'[f] = SHARED_LOCK
       /\ \/ inode[ProcOf[f]].eFileLock \in {SHARED_LOCK, RESERVED_LOCK}
          \/ kern[ProcOf[f]]["PENDING_BYTE"] = "F_RDLCK" /\ kern[ProcOf[f]]["SHARED_RANGE"] = "F_RDLCK"

Level(e, label, l) ==
  IF label = "unshare" \/ (label = "unreserve" /\ l = SHARED_LOCK) THEN SHARED_LOCK ELSE e

(* What the level of a handle says of the abstract lock it holds.          *)
LEMMA HeldLevels ==
  ASSUME NEW f \in File
  PROVE  /\ Held[f] = Level(eFileLock[f], pc[f], want[f])
         /\ Held'[f] = Level(eFileLock'[f], pc'[f], want'[f])
BY DEF Held, Level

(* A step that keeps the level of f, or moves it from one level to another. *)
LEMMA MovesTo ==
  ASSUME NEW f \in File, \A g \in File : g # f => Held'[g] = Held[g],
         Held[f] \in 0 .. 4, Held'[f] \in 0 .. 4,
         \/ Held'[f] = Held[f]
         \/ Held[f] # NO_LOCK /\ Held'[f] <= SHARED_LOCK
         \/ Held[f] # NO_LOCK /\ Held[f] <= Held'[f]
  PROVE  Moves(f)
BY SMTT(20) DEF Moves

(* The steps of a call.                                                    *)
LEMMA StepMoves ==
  ASSUME LockInv, NEW f \in File, Step(f) PROVE Moves(f)
<1>1. /\ Held[f] = Level(eFileLock[f], pc[f], want[f])
      /\ Held'[f] = Level(eFileLock'[f], pc'[f], want'[f])
      /\ \A g \in File : Held[g] = Level(eFileLock[g], pc[g], want[g])
      /\ \A g \in File : Held'[g] = Level(eFileLock'[g], pc'[g], want'[g])
  BY HeldLevels
<1>2. /\ eFileLock \in [File -> 0 .. 4] /\ pc \in [File -> Labels] /\ want \in [File -> 0 .. 4]
      /\ eFileLock[f] \in 0 .. 4 /\ want[f] \in 0 .. 4 /\ inode[ProcOf[f]].eFileLock \in 0 .. 4
  BY Known DEF LockInv, TypeOK
<1>3. Knows(f, inode[ProcOf[f]].eFileLock, kern[ProcOf[f]]) /\ Owns(f)
  BY Known DEF FileInv, Inode
<1>4. ASSUME NEW e, NEW label, NEW l, SetFileLock(f, e) \/ UNCHANGED eFileLock,
             Goto(f, label), want' = [want EXCEPT ![f] = l] \/ UNCHANGED want
      PROVE  \A g \in File : g # f => Held'[g] = Held[g]
  <2>1. ASSUME NEW g \in File, g # f
        PROVE  eFileLock'[g] = eFileLock[g] /\ pc'[g] = pc[g] /\ want'[g] = want[g]
    BY <1>2, <1>4, <2>1 DEF SetFileLock, Goto
  <2> QED BY <1>1, <2>1
<1>5. ASSUME NEW label, Goto(f, label) PROVE pc'[f] = label BY <1>2, <1>5 DEF Goto
<1>6. ASSUME NEW e, SetFileLock(f, e) PROVE eFileLock'[f] = e BY <1>2, <1>6 DEF SetFileLock
<1>7. ASSUME Return(f)
      PROVE  /\ pc'[f] \in {"open", "close"} /\ \E label : Goto(f, label)
             /\ want' = [want EXCEPT ![f] = NO_LOCK]
  BY <1>2, <1>7 DEF Return, Goto
<1>8. ASSUME \A g \in File : g # f => Held'[g] = Held[g], Held'[f] = Held[f] PROVE Moves(f)
  <2>1. Held[f] \in 0 .. 4 BY SMTT(20), <1>1, <1>2 DEF Level
  <2> QED BY <1>8, <2>1, MovesTo
<1>9. ASSUME \A g \in File : g # f => Held'[g] = Held[g], NEW e \in 0 .. 4, NEW k \in 0 .. 4,
             Held[f] = e, Held'[f] = k, e # NO_LOCK, k <= SHARED_LOCK \/ e <= k
      PROVE  Moves(f)
  BY <1>9, MovesTo
<1>10. CASE GetPending(f)
  <2>1. pc[f] = "pending" BY <1>10 DEF GetPending
  <2>2. \/ want[f] = SHARED_LOCK
        \/ want[f] = EXCLUSIVE_LOCK /\ eFileLock[f] = RESERVED_LOCK
    BY <1>3, <2>1 DEF Knows
  <2>3. CASE Return(f) /\ UNCHANGED eFileLock
    BY <1>1, <1>4, <1>7, <1>8, <2>1, <2>3 DEF Level
  <2>4. CASE Goto(f, "getshared") /\ UNCHANGED <<eFileLock, want>>
    BY <1>1, <1>4, <1>5, <1>8, <2>1, <2>4 DEF Level
  <2>5. CASE want[f] # SHARED_LOCK /\ SetFileLock(f, PENDING_LOCK) /\ Goto(f, "range") /\ UNCHANGED want
    <3>1. Held[f] = RESERVED_LOCK BY <1>1, <2>1, <2>2, <2>5 DEF Level
    <3>2. Held'[f] = PENDING_LOCK BY <1>1, <1>5, <1>6, <2>5 DEF Level
    <3>3. RESERVED_LOCK \in 0 .. 4 /\ PENDING_LOCK \in 0 .. 4 /\ RESERVED_LOCK # NO_LOCK
          /\ RESERVED_LOCK <= PENDING_LOCK
      BY SMTT(20)
    <3> QED BY <1>4, <1>9, <2>5, <3>1, <3>2, <3>3
  <2> QED BY <1>10, <2>3, <2>4, <2>5 DEF GetPending
<1>11. CASE GetShared(f)
  <2>1. pc[f] = "getshared" /\ Goto(f, "droppending") /\ UNCHANGED <<eFileLock, want>>
    BY <1>11 DEF GetShared
  <2> QED BY <1>1, <1>4, <1>5, <1>8, <2>1 DEF Level
<1>12. CASE DropPending(f)
  <2>1. pc[f] = "droppending" /\ Return(f) BY <1>12 DEF DropPending
  <2>2. eFileLock[f] = NO_LOCK BY SMTT(20), <1>2, <1>3, <2>1 DEF Knows, AtLevel
  <2>3. CASE UNCHANGED eFileLock
    BY <1>1, <1>4, <1>7, <1>8, <2>1, <2>3 DEF Level
  <2>4. CASE got[f] /\ SetFileLock(f, SHARED_LOCK)
    <3>1. Held[f] = NO_LOCK /\ Held'[f] = SHARED_LOCK
      BY <1>1, <1>2, <1>6, <1>7, <2>1, <2>2, <2>4 DEF Level
    <3>2. kern[ProcOf[f]]["PENDING_BYTE"] = "F_RDLCK" /\ kern[ProcOf[f]]["SHARED_RANGE"] = "F_RDLCK"
      BY <1>3, <2>1, <2>4 DEF Knows
    <3>3. ~(SHARED_LOCK < NO_LOCK) BY SMTT(20)
    <3> QED BY <1>4, <1>7, <2>1, <2>4, <3>1, <3>2, <3>3 DEF Moves
  <2> QED BY <1>12, <2>3, <2>4 DEF DropPending
<1>13. CASE GetRange(f)
  <2>1. pc[f] = "range" /\ Return(f) BY <1>13 DEF GetRange, Refused
  <2>2. eFileLock[f] # NO_LOCK /\ eFileLock[f] <= want[f] BY SMTT(20), <1>2, <1>3, <2>1 DEF Knows
  <2>3. CASE UNCHANGED eFileLock
    BY <1>1, <1>4, <1>7, <1>8, <2>1, <2>3 DEF Level
  <2>4. CASE SetFileLock(f, want[f])
    <3>1. Held[f] = eFileLock[f] /\ Held'[f] = want[f] BY <1>1, <1>6, <1>7, <2>1, <2>4 DEF Level
    <3> QED BY <1>2, <1>4, <1>7, <1>9, <2>1, <2>2, <2>4, <3>1
  <2> QED BY <1>13, <2>3, <2>4 DEF GetRange, Refused
<1>14. CASE pc[f] = "unlock" /\ posixUnlock(f, NO_LOCK)
  <2>1. /\ eFileLock[f] > NO_LOCK /\ UNCHANGED eFileLock /\ want' = [want EXCEPT ![f] = NO_LOCK]
        /\ Goto(f, IF eFileLock[f] <= SHARED_LOCK THEN "unshare" ELSE "unreserve")
    BY SMTT(20), <1>14 DEF posixUnlock
  <2>2. want'[f] = NO_LOCK BY <1>2, <2>1
  <2>3. pc'[f] = IF eFileLock[f] <= SHARED_LOCK THEN "unshare" ELSE "unreserve" BY <1>5, <2>1
  <2>4. eFileLock[f] <= SHARED_LOCK => eFileLock[f] = SHARED_LOCK BY SMTT(20), <1>2, <2>1
  <2>5. NO_LOCK # SHARED_LOCK BY SMTT(20)
  <2>6. Held'[f] = Held[f] BY <1>1, <1>14, <2>1, <2>2, <2>3, <2>4, <2>5 DEF Level
  <2> QED BY <1>4, <1>8, <2>1, <2>6
<1>15. CASE RdLock(f)
  <2>1. pc[f] = "rdlock" /\ UNCHANGED eFileLock BY <1>15 DEF RdLock
  <2>2. eFileLock[f] >= RESERVED_LOCK /\ want[f] = SHARED_LOCK BY <1>2, <1>3, <2>1 DEF Knows
  <2>3. CASE Return(f)
    BY <1>1, <1>4, <1>7, <1>8, <2>1, <2>3 DEF Level
  <2>4. CASE Goto(f, "unreserve") /\ UNCHANGED want
    <3>1. Held[f] = eFileLock[f] /\ Held'[f] = SHARED_LOCK BY <1>1, <1>5, <2>1, <2>2, <2>4 DEF Level
    <3>2. eFileLock[f] # NO_LOCK /\ SHARED_LOCK \in 0 .. 4 /\ SHARED_LOCK <= SHARED_LOCK BY SMTT(20), <1>2, <2>2
    <3> QED BY <1>2, <1>4, <1>9, <2>1, <2>4, <3>1, <3>2
  <2> QED BY <1>15, <2>3, <2>4 DEF RdLock
<1>16. CASE Unreserve(f)
  <2>1. pc[f] = "unreserve" BY <1>16 DEF Unreserve
  <2>2. eFileLock[f] >= RESERVED_LOCK /\ want[f] \in {NO_LOCK, SHARED_LOCK}
    BY <1>2, <1>3, <2>1 DEF Knows
  <2>3. CASE Return(f) /\ UNCHANGED eFileLock
    <3>1. Held'[f] = eFileLock[f] BY <1>1, <1>7, <2>3 DEF Level
    <3>2. Held[f] \in {SHARED_LOCK, eFileLock[f]} BY <1>1 DEF Level
    <3>3. /\ SHARED_LOCK \in 0 .. 4 /\ SHARED_LOCK # NO_LOCK /\ SHARED_LOCK <= eFileLock[f]
          /\ eFileLock[f] # NO_LOCK /\ eFileLock[f] <= eFileLock[f]
      BY SMTT(20), <1>2, <2>2
    <3> QED BY <1>2, <1>4, <1>7, <1>9, <2>3, <3>1, <3>2, <3>3
  <2>4. CASE want[f] = SHARED_LOCK /\ Return(f) /\ SetFileLock(f, SHARED_LOCK)
    BY <1>1, <1>4, <1>6, <1>7, <1>8, <2>1, <2>4 DEF Level
  <2>5. CASE Goto(f, "unshare") /\ UNCHANGED <<eFileLock, want>>
    <3>1. Held'[f] = SHARED_LOCK BY <1>1, <1>5, <2>5 DEF Level
    <3>2. Held[f] \in {SHARED_LOCK, eFileLock[f]} BY <1>1 DEF Level
    <3>3. /\ SHARED_LOCK \in 0 .. 4 /\ SHARED_LOCK # NO_LOCK /\ SHARED_LOCK <= SHARED_LOCK
          /\ eFileLock[f] # NO_LOCK
      BY SMTT(20), <1>2, <2>2
    <3> QED BY <1>2, <1>4, <1>9, <2>5, <3>1, <3>2, <3>3
  <2> QED BY <1>16, <2>3, <2>4, <2>5 DEF Unreserve
<1>17. CASE Unshare(f)
  <2>1. pc[f] = "unshare" /\ Return(f) /\ SetFileLock(f, NO_LOCK) BY <1>17 DEF Unshare
  <2>2. Held[f] = SHARED_LOCK /\ Held'[f] = NO_LOCK BY <1>1, <1>6, <1>7, <2>1 DEF Level
  <2>3. SHARED_LOCK \in 0 .. 4 /\ NO_LOCK \in 0 .. 4 /\ SHARED_LOCK # NO_LOCK /\ NO_LOCK <= SHARED_LOCK
    BY SMTT(20)
  <2> QED BY <1>4, <1>7, <1>9, <2>1, <2>2, <2>3
<1>18. CASE CloseCheck(f)
  <2>1. /\ pc[f] = "close" /\ SetFileLock(f, NO_LOCK) /\ UNCHANGED want
        /\ Goto(f, "closed") \/ Goto(f, "closefd")
    BY <1>18 DEF CloseCheck, Forget
  <2>2. Held[f] = eFileLock[f] /\ Held'[f] = NO_LOCK BY <1>1, <1>5, <1>6, <2>1 DEF Level
  <2>3. NO_LOCK \in 0 .. 4 /\ NO_LOCK <= SHARED_LOCK BY SMTT(20)
  <2>4. \A g \in File : g # f => Held'[g] = Held[g] BY <1>4, <2>1
  <2>5. CASE eFileLock[f] = NO_LOCK BY <1>8, <2>2, <2>4, <2>5
  <2>6. CASE eFileLock[f] # NO_LOCK BY <1>2, <1>9, <2>2, <2>3, <2>4, <2>6
  <2> QED BY <2>5, <2>6
<1>19. CASE closeUnixFile(f)
  <2>1. pc[f] = "closefd" /\ Goto(f, "closed") /\ UNCHANGED <<eFileLock, want>>
    BY <1>19 DEF closeUnixFile
  <2> QED BY <1>1, <1>4, <1>5, <1>8, <2>1 DEF Level
<1>20. CASE findInodeInfo(f)
  <2>1. pc[f] = "opening" /\ Goto(f, "open") /\ UNCHANGED <<eFileLock, want>>
    BY <1>20 DEF findInodeInfo
  <2> QED BY <1>1, <1>4, <1>5, <1>8, <2>1 DEF Level
<1> QED
  BY <1>10, <1>11, <1>12, <1>13, <1>14, <1>15, <1>16, <1>17, <1>18, <1>19, <1>20, Zenon DEF Step

(* The steps that begin a call.                                            *)
LEMMA CallMoves ==
  ASSUME LockInv, NEW f \in File,
         \/ findReusableFd(f) \/ unixClose(f)
         \/ \E l \in SHARED_LOCK .. EXCLUSIVE_LOCK : unixLock(f, l)
         \/ \E l \in {NO_LOCK, SHARED_LOCK} : posixUnlock(f, l)
  PROVE  Moves(f)
<1>1. /\ Held[f] = Level(eFileLock[f], pc[f], want[f])
      /\ Held'[f] = Level(eFileLock'[f], pc'[f], want'[f])
      /\ \A g \in File : Held[g] = Level(eFileLock[g], pc[g], want[g])
      /\ \A g \in File : Held'[g] = Level(eFileLock'[g], pc'[g], want'[g])
  BY HeldLevels
<1>2. /\ eFileLock \in [File -> 0 .. 4] /\ pc \in [File -> Labels] /\ want \in [File -> 0 .. 4]
      /\ eFileLock[f] \in 0 .. 4
  BY Known DEF LockInv, TypeOK
<1>3. ASSUME UNCHANGED eFileLock, pc[f] \notin {"unshare", "unreserve"},
             pc'[f] = "unshare" => eFileLock[f] = SHARED_LOCK,
             pc'[f] = "unreserve" => want'[f] # SHARED_LOCK,
             \A g \in File : g # f => pc'[g] = pc[g] /\ want'[g] = want[g]
      PROVE  Moves(f)
  <2>1. Held'[f] = Held[f] /\ Held[f] \in 0 .. 4 BY <1>1, <1>2, <1>3 DEF Level
  <2>2. \A g \in File : g # f => Held'[g] = Held[g] BY <1>1, <1>3
  <2> QED BY SMTT(20), <2>1, <2>2 DEF Moves
<1>5. CASE findReusableFd(f)
  <2>1. pc[f] = "closed" /\ Goto(f, "opening") /\ UNCHANGED <<eFileLock, want>>
    BY <1>5 DEF findReusableFd
  <2> QED BY <1>2, <1>3, <2>1 DEF Goto
<1>6. CASE unixClose(f)
  <2>1. pc[f] = "open" /\ UNCHANGED <<eFileLock, want>> /\ (Goto(f, "close") \/ Goto(f, "unlock"))
    BY <1>6 DEF unixClose
  <2> QED BY <1>2, <1>3, <2>1 DEF Goto
<1>7. ASSUME NEW l \in SHARED_LOCK .. EXCLUSIVE_LOCK, unixLock(f, l) PROVE Moves(f)
  <2>1. pc[f] = "open" /\ l \in Asked(eFileLock[f]) BY <1>7 DEF unixLock
  <2>2. CASE UNCHANGED <<eFileLock, handle>>
    <3>1. \A g \in File : Held'[g] = Held[g] BY <1>1, <2>2 DEF handle
    <3>2. Held[f] \in 0 .. 4 BY <1>1, <1>2, <2>1 DEF Level
    <3> QED BY SMTT(20), <3>1, <3>2 DEF Moves
  <2>3. CASE Counted(f, l) /\ SetFileLock(f, SHARED_LOCK) /\ UNCHANGED handle
    <3>1. eFileLock[f] = NO_LOCK BY SMTT(20), <1>2, <2>1, <2>3 DEF Asked, Counted
    <3>2. Held[f] = NO_LOCK /\ Held'[f] = SHARED_LOCK
      BY <1>1, <1>2, <2>1, <2>3, <3>1 DEF Level, SetFileLock, handle
    <3>3. ASSUME NEW g \in File, g # f PROVE Held'[g] = Held[g]
      <4>1. eFileLock'[g] = eFileLock[g] /\ pc'[g] = pc[g] /\ want'[g] = want[g]
        BY <1>2, <2>3, <3>3 DEF SetFileLock, handle
      <4> QED BY <1>1, <4>1
    <3>4. inode[ProcOf[f]].eFileLock \in {SHARED_LOCK, RESERVED_LOCK}
      BY <2>3 DEF Counted, Inode
    <3> QED BY SMTT(20), <3>2, <3>3, <3>4 DEF Moves
  <2>4. CASE UNCHANGED eFileLock /\ want' = [want EXCEPT ![f] = l]
             /\ (Goto(f, "pending") \/ Goto(f, "range"))
    BY <1>2, <1>3, <2>1, <2>4 DEF Goto
  <2> QED BY <1>7, <2>2, <2>3, <2>4 DEF unixLock
<1>8. ASSUME NEW l \in {NO_LOCK, SHARED_LOCK}, posixUnlock(f, l) PROVE Moves(f)
  <2>1. /\ pc[f] \in {"open", "unlock"} /\ UNCHANGED eFileLock /\ want' = [want EXCEPT ![f] = l]
        /\ l < eFileLock[f]
    BY <1>8 DEF posixUnlock
  <2>2. \/ Goto(f, "unshare") /\ eFileLock[f] = SHARED_LOCK
        \/ Goto(f, "rdlock")
        \/ Goto(f, "unreserve") /\ l # SHARED_LOCK
    BY SMTT(20), <1>2, <1>8 DEF posixUnlock
  <2> QED BY <1>2, <1>3, <2>1, <2>2 DEF Goto
<1> QED BY <1>5, <1>6, <1>7, <1>8

(* The death of a process drops its abstract locks.                        *)
LEMMA DieDrops ==
  ASSUME LockInv, NEW p \in Proc, Die(p)
  PROVE  \A f \in File : Held'[f] = IF ProcOf[f] = p THEN NO_LOCK ELSE Held[f]
<1> SUFFICES ASSUME NEW f \in File PROVE Held'[f] = IF ProcOf[f] = p THEN NO_LOCK ELSE Held[f]
  OBVIOUS
<1>1. /\ ProcOf[f] = p => eFileLock'[f] = NO_LOCK /\ pc'[f] = "closed"
      /\ ProcOf[f] # p => eFileLock'[f] = eFileLock[f] /\ pc'[f] = pc[f] /\ want'[f] = want[f]
  BY DEF Die
<1> QED BY <1>1, HeldLevels DEF Level

(* Every step moves the level of one handle, or a process ends.            *)
LEMMA NextMoves ==
  ASSUME LockInv, [Next]_vars
  PROVE  \/ \E f \in File : Moves(f)
         \/ \E p \in Proc : \A f \in File : Held'[f] = IF ProcOf[f] = p THEN NO_LOCK ELSE Held[f]
         \/ Held' = Held
<1>1. CASE UNCHANGED vars BY <1>1 DEF vars, handle, Held
<1>2. ASSUME NEW f \in File, Step(f) PROVE Moves(f) BY <1>2, StepMoves
<1>3. ASSUME NEW f \in File,
             \/ findReusableFd(f) \/ unixClose(f)
             \/ \E l \in SHARED_LOCK .. EXCLUSIVE_LOCK : unixLock(f, l)
             \/ \E l \in {NO_LOCK, SHARED_LOCK} : posixUnlock(f, l)
      PROVE  Moves(f)
  BY <1>3, CallMoves
<1>4. ASSUME NEW p \in Proc, Die(p)
      PROVE  \A f \in File : Held'[f] = IF ProcOf[f] = p THEN NO_LOCK ELSE Held[f]
  BY <1>4, DieDrops
<1> QED BY <1>1, <1>2, <1>3, <1>4, Zenon DEF Next

(* No step gives a second process SHARED while PENDING is held.            *)
LEMMA HoldsOffStep == LockInv /\ [Next]_vars => HoldsOff
<1> SUFFICES ASSUME LockInv, [Next]_vars, NEW f \in File, NEW g \in File,
                    Held[g] >= PENDING_LOCK, Held'[g] >= PENDING_LOCK,
                    \A h \in FilesOf(ProcOf[f]) : Held[h] = NO_LOCK,
                    Held'[f] # NO_LOCK
             PROVE  FALSE
  BY DEF HoldsOff
<1>1. ProcOf[f] \in Proc /\ f \in FilesOf(ProcOf[f]) BY UnixAssumption DEF FilesOf
<1>2. Held[f] = NO_LOCK BY <1>1
<1>3. ProcOf[g] # ProcOf[f] BY SMTT(20) DEF FilesOf
<1>4. Moves(f)
  <2>1. ASSUME NEW h \in File, Moves(h) PROVE h = f BY <1>2, <2>1 DEF Moves
  <2> QED BY <1>2, <2>1, NextMoves
<1>5. /\ Held[g] \in 0 .. 4 /\ ProcOf[g] \in Proc
  BY HeldBacked
<1>8. CASE inode[ProcOf[f]].eFileLock \in {SHARED_LOCK, RESERVED_LOCK}
  <2>1. ProcInv(ProcOf[f]) BY <1>1 DEF LockInv
  <2>2. kern[ProcOf[f]]["SHARED_RANGE"] # "F_UNLCK" BY SMTT(20), <1>8, <2>1 DEF ProcInv, Backed
  <2>3. kern[ProcOf[f]]["RESERVED_BYTE"] = "F_UNLCK" BY SMTT(20), <1>1, <1>3, <1>5, <2>2, Foreign
  <2>4. inode[ProcOf[f]].eFileLock = SHARED_LOCK BY <1>8, <2>1, <2>3 DEF ProcInv, Backed
  <2>5. Cardinality(LockedOf(ProcOf[f])) >= 1
    <3>1. inode[ProcOf[f]].nShared \in Nat
      BY <1>1 DEF LockInv, TypeOK
    <3>2. Counts(inode[ProcOf[f]], Cardinality(LockedOf(ProcOf[f])), Cardinality(OpenOf(ProcOf[f])), Owner(ProcOf[f]))
      BY <2>1 DEF ProcInv
    <3>3. inode[ProcOf[f]].nShared # 0 /\ inode[ProcOf[f]].nShared = Cardinality(LockedOf(ProcOf[f]))
      BY SMTT(20), <2>4, <3>2 DEF Counts
    <3> QED BY SMTT(20), <3>1, <3>3
  <2>6. PICK h \in File : ProcOf[h] = ProcOf[f] /\ eFileLock[h] # NO_LOCK
    BY <1>1, <2>5, FewHandles DEF LockInv
  <2>7. Held[h] = NO_LOCK BY <2>6 DEF FilesOf
  <2> QED BY <2>6, <2>7, HeldBacked
<1>9. CASE /\ kern[ProcOf[f]]["PENDING_BYTE"] = "F_RDLCK"
           /\ kern[ProcOf[f]]["SHARED_RANGE"] = "F_RDLCK"
  BY SMTT(20), <1>1, <1>3, <1>5, <1>9, Foreign
<1> QED BY <1>2, <1>4, <1>8, <1>9 DEF Moves

-----------------------------------------------------------------------------
(* The variables of the model keep their types for any number of           *)
(* processes, handles and faults.                                          *)
THEOREM TypeCorrect ==
  ASSUME ~LockDuringClose PROVE Spec => []TypeOK
<1>1. LockInv => TypeOK BY DEF LockInv
<1> QED BY <1>1, LockInvariant, PTL

(* What a handle holds, the kernel holds for its process, whatever other   *)
(* handles are closed (unixClose, closePendingFds) and whichever fcntl()   *)
(* calls fail, if no unixLock falls into the window in unixClose.          *)
THEOREM LocksAreKept ==
  ASSUME ~LockDuringClose PROVE Spec => []LocksKept
<1> QED BY KeptInv, LockInvariant, PTL

(* unixCheckReservedLock misses no RESERVED lock of any handle.            *)
THEOREM ReservedIsSeen ==
  ASSUME ~LockDuringClose PROVE Spec => []ReservedSeen
<1> QED BY SeenInv, LockInvariant, PTL

(* A descriptor waits in pUnused only while the inode has a lock.          *)
THEOREM DeferredOnlyWhileLocked ==
  ASSUME ~LockDuringClose PROVE Spec => []DeferredWhileLocked
<1> QED BY DeferredInv, LockInvariant, PTL

(* While a writer is PENDING no process without a lock gets one: neither   *)
(* by the pending byte, nor by the count of a process whose RESERVED       *)
(* handle was closed after its unlock had failed (unixLock).               *)
THEOREM PendingHoldsOffOthers ==
  ASSUME ~LockDuringClose PROVE Spec => PendingHoldsOff
<1>1. LockInv /\ [Next]_vars => [HoldsOff]_vars BY HoldsOffStep
<1> QED BY <1>1, LockInvariant, PTL DEF Spec, PendingHoldsOff

(* The step of FileLocks that each step is.                                *)
LEMMA AbstractStep ==
  LockInv /\ Exclusion /\ Exclusion' /\ (\A f \in File : Held'[f] \in 0 .. 4) /\ [Next]_vars
    => [Abstract!LNext]_Held
<1> SUFFICES ASSUME LockInv, Exclusion, Exclusion', \A f \in File : Held'[f] \in 0 .. 4, [Next]_vars
             PROVE  Abstract!LNext \/ Held' = Held
  OBVIOUS
<1>1. /\ Held = [f \in File |-> Held[f]] /\ Held' = [f \in File |-> Held'[f]]
      /\ \A f \in File : Held[f] \in 0 .. 4
  <2>1. /\ Held = [f \in File |-> Held[f]] /\ Held' = [f \in File |-> Held'[f]] BY DEF Held
  <2> QED BY <2>1, HeldBacked
<1>2. ASSUME NEW f \in File, Moves(f) PROVE Abstract!LNext \/ Held' = Held
  <2>1. Held' = [Held EXCEPT ![f] = Held'[f]] BY <1>1, <1>2 DEF Moves
  <2>2. Held[f] \in 0 .. 4 /\ Held'[f] \in 0 .. 4 BY <1>1
  <2>3. CASE Held'[f] = Held[f] BY <1>1, <2>1, <2>3
  <2>4. CASE Held'[f] < Held[f]
    <3>1. Abstract!Lower(f, Held'[f]) BY <1>2, <2>1, <2>4 DEF Moves, Abstract!Lower, Abstract!SHARED_LOCK
    <3> QED BY <2>2, <3>1 DEF Abstract!LNext, Abstract!Level
  <2>5. CASE Held[f] < Held'[f]
    <3>1. Abstract!Compatible(f, Held'[f])
      <4> SUFFICES ASSUME NEW g \in File \ {f}
                   PROVE  /\ Held[g] = NO_LOCK \/ Held'[f] < EXCLUSIVE_LOCK
                          /\ Held[g] < RESERVED_LOCK \/ Held'[f] < RESERVED_LOCK
                          /\ Held[g] < EXCLUSIVE_LOCK
        BY DEF Abstract!Compatible, Abstract!NO_LOCK, Abstract!RESERVED_LOCK, Abstract!EXCLUSIVE_LOCK
      <4>1. Held'[g] = Held[g] /\ Held[g] \in 0 .. 4 BY <1>1, <1>2 DEF Moves
      <4>2. /\ Held'[f] = EXCLUSIVE_LOCK => Held'[g] = NO_LOCK
            /\ Held'[f] >= RESERVED_LOCK => Held'[g] < RESERVED_LOCK
            /\ Held'[g] = EXCLUSIVE_LOCK => Held'[f] = NO_LOCK
        BY DEF Exclusion
      <4> QED BY SMTT(20), <2>2, <2>5, <4>1, <4>2
    <3>2. Held[f] = NO_LOCK => Held'[f] = SHARED_LOCK BY SMTT(20), <1>2, <2>2, <2>5 DEF Moves
    <3>3. Abstract!Raise(f, Held'[f])
      BY <2>1, <2>5, <3>1, <3>2 DEF Abstract!Raise, Abstract!NO_LOCK, Abstract!SHARED_LOCK
    <3> QED BY <2>2, <3>3 DEF Abstract!LNext, Abstract!Level
  <2> QED BY SMTT(20), <2>2, <2>3, <2>4, <2>5
<1>3. ASSUME NEW p \in Proc,
             \A f \in File : Held'[f] = IF ProcOf[f] = p THEN NO_LOCK ELSE Held[f]
      PROVE  Abstract!LNext
  <2>1. FilesOf(p) \in SUBSET File BY DEF FilesOf
  <2>2. Held' = [f \in File |-> IF f \in FilesOf(p) THEN NO_LOCK ELSE Held[f]]
    BY <1>1, <1>3 DEF FilesOf
  <2>3. Abstract!Drop(FilesOf(p)) BY <2>2 DEF Abstract!Drop, Abstract!NO_LOCK
  <2> QED BY <2>1, <2>3 DEF Abstract!LNext
<1> QED BY <1>2, <1>3, NextMoves

(* unixLock, posixUnlock and unixClose implement the locks of FileLocks,   *)
(* on which the pager and its journals rest: at most one handle RESERVED,  *)
(* an EXCLUSIVE one alone, across threads, processes, deaths and faults.   *)
THEOREM UnixLocksImplementFileLocks ==
  ASSUME ~LockDuringClose PROVE Spec => ImplementsFileLocks
<1> DEFINE HeldType == \A f \in File : Held[f] \in 0 .. 4
<1>1. LockInv => HeldType BY HeldBacked
<1>2. Init => Abstract!LInit
  BY DEF Init, Held, Abstract!LInit, Abstract!NO_LOCK
<1>3. LockInv /\ Exclusion /\ Exclusion' /\ HeldType' /\ [Next]_vars => [Abstract!LNext]_Held
  BY AbstractStep
<1> HIDE DEF HeldType
<1> QED BY <1>1, <1>2, <1>3, ExclusionInv, LockInvariant, PTL
        DEF Spec, ImplementsFileLocks, Abstract!LSpec
=============================================================================
