----------------------- MODULE SuperJournalSteps_proofs -----------------------
(***************************************************************************)
(* What a step of one connection of SuperJournal leaves of the inductive   *)
(* invariant (the locks, the other connections and the files that it does  *)
(* not touch), and that the steps which change no file keep it.            *)
(***************************************************************************)
EXTENDS SuperJournalInv, TLAPS

USE Zenon

(* Null and Torn are nothing else.                                         *)
LEMMA Marks ==
  /\ Null \notin File /\ Null \notin 0 .. MaxTx /\ Null \notin 1 .. MaxTx /\ Torn # Null
  /\ Null \notin SUBSET File /\ Null \notin Version /\ Torn \notin Version /\ Null \notin Journal
<1>1. /\ Null \notin File /\ Null \notin 0 .. MaxTx /\ Torn # Null
      /\ Null \notin SUBSET File /\ Null \notin Version /\ Torn \notin Version /\ Null \notin Journal
  BY MarksAssumption
<1>2. 1 .. MaxTx \subseteq 0 .. MaxTx
  BY SMT, SuperJournalAssumption
<1> QED BY <1>1, <1>2

-----------------------------------------------------------------------------
(* The locks.                                                              *)

(* A connection has a handle on each file.                                 *)
LEMMA Handles ==
  \A c, d \in Conn : \A f, g \in File :
    /\ H(c, f) \in Handle
    /\ H(c, f) = H(d, g) => c = d /\ f = g
    /\ c # d => H(d, f) \in Rivals[H(c, f)]
  BY SMT, SuperJournalAssumption DEF H

(* Exclusion in terms of connections.                                      *)
LEMMA ExclusionOf ==
  ASSUME lock \in [Handle -> Level], Exclusion, NEW c \in Conn, NEW d \in Conn, NEW f \in File, c # d
  PROVE  (Exc(c, f) => ~Holds(d, f)) /\ (Res(c, f) => ~Res(d, f))
<1>1. H(d, f) \in Rivals[H(c, f)] /\ H(c, f) \in Handle /\ H(d, f) \in Handle
  BY Handles
<1> USE <1>1
<1>2. lock[H(c, f)] = EXCLUSIVE_LOCK => lock[H(d, f)] = NO_LOCK
  BY DEF Exclusion
<1>3. lock[H(c, f)] >= RESERVED_LOCK => lock[H(d, f)] < RESERVED_LOCK
  BY DEF Exclusion
<1> QED BY SMT, <1>1, <1>2, <1>3 DEF Exc, Holds, Res, Level, RESERVED_LOCK

(* The converse, for any table of locks.                                   *)
LEMMA ExclusionFrom ==
  ASSUME NEW k \in [Handle -> Level],
         \A c, d \in Conn : \A f \in File : c # d =>
           /\ k[H(c, f)] = EXCLUSIVE_LOCK => ~(k[H(d, f)] # NO_LOCK)
           /\ k[H(c, f)] >= RESERVED_LOCK => ~(k[H(d, f)] >= RESERVED_LOCK)
  PROVE  \A h \in Handle : \A g \in Rivals[h] :
           /\ k[h] = EXCLUSIVE_LOCK => k[g] = NO_LOCK
           /\ k[h] >= RESERVED_LOCK => k[g] < RESERVED_LOCK
<1>1. SUFFICES ASSUME NEW h \in Handle, NEW g \in Rivals[h]
               PROVE  /\ k[h] = EXCLUSIVE_LOCK => k[g] = NO_LOCK
                      /\ k[h] >= RESERVED_LOCK => k[g] < RESERVED_LOCK
  OBVIOUS
<1>2. PICK c \in Conn, f \in File : h = H(c, f)
  BY SMT, SuperJournalAssumption DEF H
<1> USE <1>2
<1>3. PICK d \in Conn : g = H(d, f) /\ d # c
  BY SMT, <1>2, SuperJournalAssumption DEF H
<1> USE <1>3
<1>4. /\ k[h] = EXCLUSIVE_LOCK => ~(k[g] # NO_LOCK)
      /\ k[h] >= RESERVED_LOCK => ~(k[g] >= RESERVED_LOCK)
  OBVIOUS
<1>5. k[g] \in Level /\ k[h] \in Level
  BY Handles
<1> QED BY SMT, <1>4, <1>5 DEF Level, RESERVED_LOCK

(* The lock of one handle is set.                                          *)
LEMMA LockSet ==
  ASSUME lock \in [Handle -> Level], NEW c \in Conn, NEW f \in File, NEW l \in Level,
         lock' = [lock EXCEPT ![H(c, f)] = l]
  PROVE  /\ lock' \in [Handle -> Level] /\ lock'[H(c, f)] = l
         /\ \A d \in Conn, g \in File : d # c \/ g # f => lock'[H(d, g)] = lock[H(d, g)]
<1>1. H(c, f) \in Handle /\ \A d \in Conn, g \in File : d # c \/ g # f => H(d, g) # H(c, f) /\ H(d, g) \in Handle
  BY Handles
<1> QED BY <1>1

(* What the levels mean.                                                   *)
LEMMA Levels ==
  ASSUME lock \in [Handle -> Level], NEW c \in Conn, NEW f \in File
  PROVE  /\ Exc(c, f) => Res(c, f)
         /\ Res(c, f) => Holds(c, f)
  BY SMT, Handles DEF Exc, Holds, Res, Level, NO_LOCK, RESERVED_LOCK, EXCLUSIVE_LOCK

(* xLock.                                                                  *)
LEMMA RaiseLock ==
  ASSUME lock \in [Handle -> Level], Exclusion, NEW c \in Conn, NEW f \in File, NEW l \in 1 .. 4,
         Raise(H(c, f), l)
  PROVE  /\ lock' \in [Handle -> Level] /\ Exclusion'
         /\ Holds(c, f)' /\ (Res(c, f)' <=> l >= RESERVED_LOCK) /\ (Exc(c, f)' <=> l = EXCLUSIVE_LOCK)
         /\ ~Exc(c, f) /\ (l = SHARED_LOCK => ~Holds(c, f)) /\ (l # SHARED_LOCK => Holds(c, f))
         /\ (l = EXCLUSIVE_LOCK => \A d \in Conn : d # c => ~Holds(d, f))
         /\ \A d \in Conn, g \in File : d # c \/ g # f => lock'[H(d, g)] = lock[H(d, g)]
<1>1. /\ lock' = [lock EXCEPT ![H(c, f)] = l] /\ lock[H(c, f)] < l /\ H(c, f) \in Handle
      /\ (lock[H(c, f)] = NO_LOCK => l = SHARED_LOCK) /\ l \in Level
  BY SMT, Handles DEF Raise, Level
<1>2. /\ lock' \in [Handle -> Level] /\ lock'[H(c, f)] = l
      /\ \A d \in Conn, g \in File : d # c \/ g # f => lock'[H(d, g)] = lock[H(d, g)]
  BY <1>1, LockSet
<1> USE <1>2
<1>3. \A d \in Conn : d # c =>
        /\ l = EXCLUSIVE_LOCK => ~Holds(d, f)
        /\ l >= RESERVED_LOCK => ~Res(d, f)
        /\ ~Exc(d, f)
  <2>1. SUFFICES ASSUME NEW d \in Conn, d # c
                 PROVE  /\ l = EXCLUSIVE_LOCK => ~Holds(d, f)
                        /\ l >= RESERVED_LOCK => ~Res(d, f)
                        /\ ~Exc(d, f)
    OBVIOUS
  <2>2. H(d, f) \in Rivals[H(c, f)] /\ H(d, f) \in Handle
    BY <2>1, Handles
  <2>3. /\ lock[H(d, f)] = NO_LOCK \/ l < EXCLUSIVE_LOCK
        /\ lock[H(d, f)] < RESERVED_LOCK \/ l < RESERVED_LOCK
        /\ lock[H(d, f)] < EXCLUSIVE_LOCK
    BY <2>2 DEF Raise, Compatible
  <2> QED BY SMT, <2>2, <2>3 DEF Holds, Res, Exc, Level, NO_LOCK, RESERVED_LOCK, EXCLUSIVE_LOCK
<1> USE <1>3
<1>4. /\ Holds(c, f)' /\ (Res(c, f)' <=> l >= RESERVED_LOCK) /\ (Exc(c, f)' <=> l = EXCLUSIVE_LOCK)
      /\ ~Exc(c, f) /\ (l = SHARED_LOCK => ~Holds(c, f)) /\ (l # SHARED_LOCK => Holds(c, f))
  BY SMT, <1>1, <1>2 DEF Holds, Res, Exc, Level, NO_LOCK, SHARED_LOCK, RESERVED_LOCK, EXCLUSIVE_LOCK
<1> USE <1>4
<1>5. Exclusion'
  <2>1. SUFFICES ASSUME NEW x \in Conn, NEW y \in Conn, NEW g \in File, x # y
                 PROVE  (Exc(x, g)' => ~Holds(y, g)') /\ (Res(x, g)' => ~Res(y, g)')
    BY ExclusionFrom DEF Exclusion, Exc, Holds, Res
  <2> USE <2>1
  <2>2. (Exc(x, g) => ~Holds(y, g)) /\ (Res(x, g) => ~Res(y, g))
    BY ExclusionOf
  <2> USE <2>2
  <2>3. CASE g # f
    BY <2>3 DEF Exc, Holds, Res
  <2>4. CASE g = f /\ x = c
    BY <2>4 DEF Holds, Res
  <2>5. CASE g = f /\ y = c
    BY <2>5 DEF Holds, Res, Exc
  <2>6. CASE g = f /\ x # c /\ y # c
    BY <2>6 DEF Exc, Holds, Res
  <2> QED BY <2>3, <2>4, <2>5, <2>6
<1> QED BY <1>5

(* xUnlock.                                                                *)
LEMMA LowerLock ==
  ASSUME lock \in [Handle -> Level], Exclusion, NEW c \in Conn, NEW f \in File, NEW l \in {NO_LOCK, SHARED_LOCK},
         Lower(H(c, f), l)
  PROVE  /\ lock' \in [Handle -> Level] /\ Exclusion'
         /\ (Holds(c, f)' <=> l = SHARED_LOCK) /\ ~Res(c, f)' /\ ~Exc(c, f)'
         /\ \A d \in Conn, g \in File : d # c \/ g # f => lock'[H(d, g)] = lock[H(d, g)]
<1>1. lock' = [lock EXCEPT ![H(c, f)] = l] /\ l \in Level /\ l < lock[H(c, f)]
  BY SMT DEF Lower, Level, NO_LOCK, SHARED_LOCK
<1>2. /\ lock' \in [Handle -> Level] /\ lock'[H(c, f)] = l
      /\ \A d \in Conn, g \in File : d # c \/ g # f => lock'[H(d, g)] = lock[H(d, g)]
  BY <1>1, LockSet
<1> USE <1>2
<1>3. (Holds(c, f)' <=> l = SHARED_LOCK) /\ ~Res(c, f)' /\ ~Exc(c, f)'
  BY SMT, <1>2 DEF Holds, Res, Exc, NO_LOCK, SHARED_LOCK, RESERVED_LOCK, EXCLUSIVE_LOCK
<1> USE <1>3
<1>4. Holds(c, f)
  BY SMT, <1>1, Handles DEF Holds, Level, NO_LOCK, SHARED_LOCK
<1>5. Exclusion'
  <2>1. SUFFICES ASSUME NEW x \in Conn, NEW y \in Conn, NEW g \in File, x # y
                 PROVE  (Exc(x, g)' => ~Holds(y, g)') /\ (Res(x, g)' => ~Res(y, g)')
    BY ExclusionFrom DEF Exclusion, Exc, Holds, Res
  <2> USE <2>1
  <2>2. (Exc(x, g) => ~Holds(y, g)) /\ (Res(x, g) => ~Res(y, g))
    BY ExclusionOf
  <2> USE <2>2
  <2>3. CASE g # f \/ (x # c /\ y # c)
    BY <2>3 DEF Exc, Holds, Res
  <2>4. CASE g = f /\ x = c
    BY <2>4
  <2>5. CASE g = f /\ y = c
    BY <1>4, <2>5 DEF Exc
  <2> QED BY <2>3, <2>4, <2>5
<1> QED BY <1>5

(* A connection, or all of them, let go of their locks.                    *)
LEMMA DropLocks ==
  ASSUME lock \in [Handle -> Level], Exclusion, NEW S \in SUBSET Conn, Drop(S \X File)
  PROVE  /\ lock' \in [Handle -> Level] /\ Exclusion'
         /\ \A c \in S, f \in File : ~Holds(c, f)' /\ ~Res(c, f)' /\ ~Exc(c, f)'
         /\ \A d \in Conn \ S, g \in File : lock'[H(d, g)] = lock[H(d, g)]
<1>1. lock' \in [Handle -> Level]
  BY SMT DEF Drop, Level, NO_LOCK
<1> USE <1>1
<1>2. \A c \in S, f \in File : H(c, f) \in S \X File /\ H(c, f) \in Handle
  BY SMT, Handles DEF H
<1>3. \A d \in Conn \ S, g \in File : H(d, g) \notin S \X File /\ H(d, g) \in Handle
  BY SMT, Handles DEF H
<1>4. \A c \in S, f \in File : lock'[H(c, f)] = NO_LOCK
  BY <1>2 DEF Drop
<1>5. \A d \in Conn \ S, g \in File : lock'[H(d, g)] = lock[H(d, g)]
  BY <1>3 DEF Drop
<1> USE <1>5
<1>6. \A c \in S, f \in File : ~Holds(c, f)' /\ ~Res(c, f)' /\ ~Exc(c, f)'
  BY SMT, <1>4 DEF Holds, Res, Exc, NO_LOCK, RESERVED_LOCK, EXCLUSIVE_LOCK
<1> USE <1>6
<1>7. Exclusion'
  <2>1. SUFFICES ASSUME NEW x \in Conn, NEW y \in Conn, NEW g \in File, x # y
                 PROVE  (Exc(x, g)' => ~Holds(y, g)') /\ (Res(x, g)' => ~Res(y, g)')
    BY ExclusionFrom DEF Exclusion, Exc, Holds, Res
  <2>2. (Exc(x, g) => ~Holds(y, g)) /\ (Res(x, g) => ~Res(y, g))
    BY <2>1, ExclusionOf
  <2>3. CASE x \in S \/ y \in S
    BY <2>3
  <2>4. CASE x \notin S /\ y \notin S
    BY <2>2, <2>4 DEF Exc, Holds, Res
  <2> QED BY <2>3, <2>4
<1> QED BY <1>7
-----------------------------------------------------------------------------
(* A step of one connection.                                               *)

(* The other connections are where they were.                              *)
LEMMA OthersSame ==
  ASSUME NEW c \in Conn, Apart(c), NEW d \in Conn, d # c
  PROVE  /\ pc'[d] = pc[d] /\ loc'[d] = loc[d] /\ cache'[d] = cache[d] /\ F(d)' = F(d)
         /\ \A f \in File : /\ Holds(d, f)' <=> Holds(d, f)
                            /\ Res(d, f)' <=> Res(d, f)
                            /\ Exc(d, f)' <=> Exc(d, f)
         /\ (Multi(d)' <=> Multi(d)) /\ (Active(d)' <=> Active(d))
         /\ \A n : ActiveAs(d, n)' <=> ActiveAs(d, n)
<1>1. pc'[d] = pc[d] /\ loc'[d] = loc[d] /\ cache'[d] = cache[d]
  BY DEF Apart
<1> USE <1>1
<1>2. \A f \in File : lock'[H(d, f)] = lock[H(d, f)]
  BY DEF Apart
<1>3. F(d)' = F(d) /\ (Multi(d)' <=> Multi(d)) /\ (Active(d)' <=> Active(d))
  BY DEF F, Multi, Active, Undoing
<1> USE <1>3
<1>4. \A n : ActiveAs(d, n)' <=> ActiveAs(d, n)
  BY DEF ActiveAs
<1>5. \A f \in File : /\ Holds(d, f)' <=> Holds(d, f)
                      /\ Res(d, f)' <=> Res(d, f)
                      /\ Exc(d, f)' <=> Exc(d, f)
  BY <1>2 DEF Holds, Res, Exc
<1> QED BY <1>4, <1>5

(* Two connections cannot both be about to change a file.                  *)
LEMMA Disjoint ==
  ASSUME Types, NEW c \in Conn, NEW d \in Conn, d # c, NEW f \in File
  PROVE  /\ Res(d, f) => ~Res(c, f) /\ ~Exc(c, f)
         /\ Holds(d, f) => ~Exc(c, f)
         /\ Exc(d, f) => ~Holds(c, f) /\ ~Res(c, f) /\ ~Exc(c, f)
<1>1. lock \in [Handle -> Level] /\ Exclusion
  BY DEF Types, TypeOK
<1> USE <1>1
<1>2. (Exc(c, f) => ~Holds(d, f)) /\ (Res(c, f) => ~Res(d, f)) /\ (Exc(d, f) => ~Holds(c, f))
  BY ExclusionOf
<1>3. (Exc(c, f) => Res(c, f)) /\ (Res(c, f) => Holds(c, f))
  BY Levels
<1> QED BY <1>2, <1>3

(* A cached version that is not newer than the committed one.              *)
LEMMA StaleKept ==
  ASSUME Types, NEW c \in Conn, NEW f \in File, Stale(c, f), cache'[c] = cache[c],
         current'[f] = current[f] \/ current'[f][2] = current[f][2] + 1
  PROVE  Stale(c, f)'
<1>1. CASE current'[f] = current[f]
  BY <1>1 DEF Stale
<1>2. CASE current'[f][2] = current[f][2] + 1
  <2>1. SUFFICES ASSUME cache[c][f] \in Version
                 PROVE  /\ cache[c][f][2] <= current'[f][2]
                        /\ cache[c][f][2] # current'[f][2]
    BY DEF Stale
  <2>2. cache[c][f][2] <= current[f][2]
    BY <2>1 DEF Stale
  <2>3. current[f] \in Version
    BY DEF Types, TypeOK
  <2>4. cache[c][f][2] \in Nat /\ current[f][2] \in Nat
    BY SMT, <2>1, <2>3, SuperJournalAssumption DEF Version
  <2> QED BY SMT, <1>2, <2>2, <2>4
<1> QED BY <1>1, <1>2

(* The other connections keep their invariant.                             *)
LEMMA OthersInv ==
  ASSUME IInv, NEW c \in Conn, Apart(c), Changes(c), nTx' \in Nat, nTx <= nTx',
         \A n \in 1 .. MaxTx : ActiveAs(c, n)' /\ n <= nTx => ActiveAs(c, n),
         NEW d \in Conn, d # c
  PROVE  ConnInv(d)'
<1>1. /\ pc'[d] = pc[d] /\ loc'[d] = loc[d] /\ cache'[d] = cache[d] /\ F(d)' = F(d)
      /\ \A f \in File : /\ Holds(d, f)' <=> Holds(d, f)
                         /\ Res(d, f)' <=> Res(d, f)
                         /\ Exc(d, f)' <=> Exc(d, f)
      /\ (Multi(d)' <=> Multi(d)) /\ (Active(d)' <=> Active(d))
      /\ \A n : ActiveAs(d, n)' <=> ActiveAs(d, n)
  BY OthersSame
<1> USE <1>1
<1>2. /\ Types /\ ConnInv(c) /\ ConnInv(d) /\ NumbersInv /\ loc[d] \in Local /\ loc[c] \in Local
  BY DEF IInv, Types
<1> USE <1>2
<1>3. \A f \in File : Res(d, f) =>
        /\ jrnl'[f] = jrnl[f] /\ current'[f] = current[f] /\ db'[f] = db[f] /\ dbDisk'[f] = dbDisk[f]
        /\ IsGone(f)' <=> IsGone(f)
  BY Disjoint DEF Changes
<1> USE <1>3
<1>4. \A f \in File : Holds(d, f) => current'[f] = current[f] /\ (Harmless(f) => Harmless(f)')
  BY Disjoint DEF Changes
<1> USE <1>4
<1>5. \A f \in File : (Exc(d, f) => Res(d, f)) /\ (Res(d, f) => Holds(d, f))
  BY Levels DEF Types, TypeOK
<1> USE <1>5
<1>6. HoldsInv(d)'
  <2>1. PICK g, k, l : g = F(d) /\ g = F(d)' /\ k = pc[d] /\ k = pc'[d] /\ l = loc[d] /\ l = loc'[d]
    OBVIOUS
  <2> USE <2>1
  <2>2. HoldsInv(d) /\ l.open \subseteq File /\ l.opened \subseteq File
    BY DEF ConnInv, Local
  <2> USE <2>2
  <2>3. /\ \A f \in l.open : Holds(d, f)'
        /\ \A f \in l.opened : Res(d, f)'
        /\ k = "idle" => \A f \in File : ~Holds(d, f)'
    BY DEF HoldsInv
  <2>4. /\ l.opened \subseteq l.write
        /\ k \in Looking \cup {"hotopen", "version", "reserve", "journal", "syncjournal", "writelist", "syncdb"}
                \cup Playing \cup Cleaning => g \in File
        /\ k \in Looking \cup {"hotopen", "version"} \cup Playing \cup Cleaning => g \notin l.open \cup l.opened
        /\ k \in {"reserve", "journal"} => g \in l.open \cap l.write /\ g \notin l.opened
        /\ l.isHot => k \in Playing \cup Cleaning \cup {"version"}
        /\ k = "idle" => l = NoTx
    BY DEF HoldsInv
  <2>5. /\ k \in Looking \cup Cleaning \cup {"version", "reserve"} => Holds(d, g) /\ ~Res(d, g)
        /\ k = "journal" => Res(d, g) /\ ~Exc(d, g)
        /\ k = "hotopen" \/ (k \in Playing /\ l.isHot) => Exc(d, g)
        /\ k \in Playing => Res(d, g)
    BY DEF HoldsInv
  <2>6. g \in File => /\ Holds(d, g)' <=> Holds(d, g)
                      /\ Res(d, g)' <=> Res(d, g)
                      /\ Exc(d, g)' <=> Exc(d, g)
    OBVIOUS
  <2> QED BY <2>3, <2>4, <2>5, <2>6 DEF HoldsInv
<1>7. WriteInv(d)'
  <2>1. PICK g, k, l : g = F(d) /\ g = F(d)' /\ k = pc[d] /\ k = pc'[d] /\ l = loc[d] /\ l = loc'[d]
    OBVIOUS
  <2> USE <2>1
  <2>2. WriteInv(d) /\ l.write \subseteq File
    BY DEF ConnInv, Local
  <2> USE <2>2
  <2>3. /\ k = "exclusive" => \A f \in l.write \ l.todo : Exc(d, f)'
        /\ k \in PhaseOne \cup {"deletesuper"} => \A f \in l.write : Exc(d, f)'
        /\ k = "phasetwo" => \A f \in l.todo : f \in l.opened /\ Exc(d, f)'
    BY DEF WriteInv
  <2>4. /\ k = "next" => \A f \in l.write : Res(d, f)' => f \in l.opened
        /\ k \in Looking \cup {"hotopen", "version", "reserve", "journal"}
           \/ (k \in Playing \cup Cleaning /\ l.isHot) =>
             \A f \in l.write : Res(d, f)' => f \in l.opened \cup {g}
    BY DEF WriteInv
  <2> QED BY <2>3, <2>4 DEF WriteInv
<1>8. \A f \in File : Res(d, f) /\ OwnJournal(d, f) => OwnJournal(d, f)'
  BY DEF OwnJournal
<1> USE <1>8
<1>9. JournalInv(d)'
  <2>0. PICK g : g = F(d) /\ g = F(d)'
    OBVIOUS
  <2> USE <2>0
  <2>1. HoldsInv(d) /\ JournalInv(d) /\ loc[d].opened \in SUBSET File
    BY DEF ConnInv, Local
  <2> USE <2>1
  <2>2. \A f \in loc'[d].opened : OwnJournal(d, f)'
    BY DEF HoldsInv, JournalInv
  <2>3. pc[d] \in {"hot", "hotopen"} \/ (pc[d] = "playback" /\ loc[d].isHot) => Harmless(g)'
    BY DEF HoldsInv, JournalInv, Looking, Playing
  <2>4. pc[d] \in Playing =>
          /\ g \in File /\ Res(d, g) /\ jrnl'[g] = jrnl[g] /\ current'[g] = current[g]
          /\ db'[g] = db[g] /\ (IsGone(g)' <=> IsGone(g))
    BY DEF HoldsInv
  <2> USE <2>4
  <2>5. pc[d] = "playback" /\ ~loc[d].isHot => OwnJournal(d, g)'
    BY DEF JournalInv, Playing
  <2>6. pc[d] = "restore" =>
          /\ ~IsGone(g)' /\ jrnl'[g].orig = current'[g] /\ loc[d].journalOff
          /\ loc[d].zSuper = jrnl'[g].super
    BY DEF JournalInv, Playing
  <2>7. pc[d] = "endplayback" =>
          /\ db'[g] = current'[g]
          /\ loc[d].zSuper # Null => loc[d].zSuper = jrnl'[g].super /\ loc[d].journalOff
          /\ ~loc[d].journalOff => loc[d].isHot /\ (jrnl'[g].hot => IsGone(g)')
    BY DEF JournalInv, Playing
  <2>8. pc[d] \in Playing => jrnl'[g] # Null
    BY DEF JournalInv
  <2> QED BY <2>2, <2>3, <2>5, <2>6, <2>7, <2>8 DEF JournalInv
<1>10. CommitInv(d)'
  <2>0. PICK g, n : g = F(d) /\ g = F(d)' /\ n = loc[d].v /\ n = loc'[d].v
    OBVIOUS
  <2> USE <2>0
  <2>1. HoldsInv(d) /\ WriteInv(d) /\ CommitInv(d) /\ loc[d].write \in SUBSET File
    BY DEF ConnInv, Local
  <2> USE <2>1
  <2>2. pc[d] \in Committing => ActiveAs(d, n) /\ n \in 1 .. MaxTx
    <3>1. pc[d] \in Committing => Active(d)
      BY DEF WriteInv, Active, Undoing, Committing, PhaseOne, Playing, Cleaning
    <3>2. Active(d) => n # 0 /\ n \in 0 .. MaxTx
      BY DEF NumbersInv, Local
    <3>3. n # 0 /\ n \in 0 .. MaxTx => n \in 1 .. MaxTx
      BY SMT, SuperJournalAssumption
    <3> QED BY <3>1, <3>2, <3>3 DEF ActiveAs
  <2> USE <2>2
  <2>3. pc[d] \in Committing => super'[n] = super[n]
    <3>1. SUFFICES ASSUME pc[d] \in Committing PROVE super'[n] = super[n]
      OBVIOUS
    <3> USE <3>1
    <3>2. ~ActiveAs(c, n)
      BY DEF NumbersInv, ActiveAs
    <3>3. loc[c].zSuper # n
      BY Marks DEF ConnInv, CleanInv
    <3> QED BY <3>2, <3>3 DEF Changes
  <2> USE <2>3
  <2>4. \A f \in File : Res(d, f) =>
          /\ jrnl'[f] = jrnl[f] /\ (IsGone(f)' <=> IsGone(f)) /\ NewVersion(d, f)' = NewVersion(d, f)
          /\ Done(d, f) => Done(d, f)'
    BY DEF Done, NewVersion
  <2> USE <2>4
  <2>5. /\ pc[d] \in PhaseOne \cup {"deletesuper"} => \A f \in loc[d].write : f \in File /\ Res(d, f)
        /\ pc[d] = "phasetwo" => \A f \in loc[d].todo : f \in File /\ Res(d, f)
        /\ pc[d] \in PhaseOne \ {"phaseone"} => g \in loc[d].write
    BY DEF WriteInv
  <2> USE <2>5
  <2>6. pc[d] \in PhaseOne \cup {"deletesuper"} =>
          /\ Multi(d)' => super'[n] = loc'[d].write
          /\ \A f \in loc'[d].write : ~IsGone(f)'
          /\ \A f \in loc'[d].write \ loc'[d].todo : f = g \/ Done(d, f)'
    BY DEF CommitInv, Committing
  <2>7. /\ pc[d] = "syncjournal" /\ Multi(d)' => jrnl'[g].super = n
        /\ pc[d] \in {"writelist", "syncdb"} => jrnl'[g].hot /\ (Multi(d)' => jrnl'[g].super = n)
        /\ pc[d] = "syncdb" => cache'[d][g] = NewVersion(d, g)'
    BY DEF CommitInv, PhaseOne
  <2>8. pc[d] = "deletesuper" => Multi(d)' /\ \A f \in loc'[d].write : Done(d, f)'
    BY DEF CommitInv
  <2>9. pc[d] = "phasetwo" =>
          /\ ~Multi(d)' => \A f \in loc'[d].todo : Done(d, f)' /\ ~IsGone(f)'
          /\ Multi(d)' => /\ super'[n] = Null
                          /\ \A f \in loc'[d].todo : jrnl'[f].hot /\ jrnl'[f].super = n
    BY DEF CommitInv, Committing
  <2>10. pc[d] = "phaseone" => \A f \in loc'[d].write \ loc'[d].todo : Done(d, f)'
    BY DEF CommitInv, PhaseOne
  <2> QED BY <2>6, <2>7, <2>8, <2>9, <2>10 DEF CommitInv
<1>11. CleanInv(d)'
  <2>0. PICK g, n : g = F(d) /\ g = F(d)' /\ n = loc[d].zSuper /\ n = loc'[d].zSuper
    OBVIOUS
  <2> USE <2>0
  <2>1. HoldsInv(d) /\ CleanInv(d) /\ n \in 1 .. MaxTx \cup {Null} /\ nTx \in Nat
    <3>1. HoldsInv(d) /\ CleanInv(d) /\ n \in 1 .. MaxTx \cup {Null}
      BY DEF ConnInv, Local
    <3>2. nTx \in 0 .. MaxTx
      BY DEF Types
    <3> QED BY SMT, <3>1, <3>2, SuperJournalAssumption
  <2> USE <2>1
  <2>2. n # Null => /\ pc[d] \in {"restore", "endplayback"} \cup Cleaning
                   /\ n <= nTx /\ \A e \in Conn : ~ActiveAs(e, n)
    BY DEF CleanInv
  <2> USE <2>2
  <2>3. n # Null => n <= nTx'
    BY SMT, <2>1, <2>2
  <2>4. n # Null => \A e \in Conn : ~ActiveAs(e, n)'
    <3>1. SUFFICES ASSUME n # Null, NEW e \in Conn PROVE ~ActiveAs(e, n)'
      OBVIOUS
    <3> USE <3>1
    <3>2. CASE e = c
      BY <3>2
    <3>3. CASE e # c
      BY <3>3, OthersSame
    <3> QED BY <3>2, <3>3
  <2>5. n # Null => \A f \in File : Names(f, n)' => Names(f, n)
    BY DEF Changes
  <2> USE <2>5
  <2>6. n # Null => (super[n] = Null => super'[n] = Null)
    BY DEF Changes
  <2>7. pc[d] \in Cleaning => n # Null /\ g \in File /\ ~Names(g, n)
    BY DEF CleanInv, HoldsInv
  <2> USE <2>7
  <2>8. pc[d] \in Cleaning => ~Names(g, n)'
    OBVIOUS
  <2>9. pc[d] \in {"delother", "delread"} =>
          \A f \in File : Names(f, n)' =>
            super'[n] = Null \/ f \in loc[d].others \/ (pc[d] = "delread" /\ f = loc[d].g)
    <3>1. SUFFICES ASSUME pc[d] \in {"delother", "delread"}, NEW f \in File, Names(f, n)'
                   PROVE  super'[n] = Null \/ f \in loc[d].others \/ (pc[d] = "delread" /\ f = loc[d].g)
      OBVIOUS
    <3> USE <3>1
    <3>2. n # Null
      BY DEF Cleaning
    <3> USE <3>2
    <3>3. super[n] = Null \/ f \in loc[d].others \/ (pc[d] = "delread" /\ f = loc[d].g)
      BY DEF CleanInv
    <3> QED BY <2>6, <3>3
  <2>10. pc[d] = "delread" => loc[d].g \in File
    BY DEF CleanInv
  <2> QED BY <2>3, <2>4, <2>8, <2>9, <2>10 DEF CleanInv
<1>12. CacheInv(d)'
  <2>1. HoldsInv(d) /\ CacheInv(d) /\ loc[d].open \in SUBSET File
    BY DEF ConnInv, Local
  <2> USE <2>1
  <2>2. \A f \in File : Restoring(d, f)' <=> Restoring(d, f)
    BY DEF Restoring
  <2>3. \A f \in File : Stale(d, f) => Stale(d, f)'
    BY StaleKept DEF Changes
  <2>4. \A f \in loc[d].open : current'[f] = current[f]
    BY DEF HoldsInv
  <2> QED BY <2>2, <2>3, <2>4 DEF CacheInv
<1> QED BY <1>6, <1>7, <1>9, <1>10, <1>11, <1>12 DEF ConnInv

-----------------------------------------------------------------------------
(* A file that is left alone keeps its invariant.                          *)
LEMMA FileKept ==
  ASSUME IInv, NEW c \in Conn, Apart(c), Older(c), NEW g \in File, Kept(c, g)
  PROVE  FileInv(g)'
<1>1. Types /\ FileInv(g) /\ nTx \in Nat
  <2>1. Types /\ FileInv(g)
    BY DEF IInv
  <2>2. nTx \in 0 .. MaxTx
    BY <2>1 DEF Types
  <2> QED BY SMT, <2>1, <2>2, SuperJournalAssumption
<1> USE <1>1
<1>2. IsHot(g)' <=> IsHot(g)
  BY DEF Kept, IsHot
<1> USE <1>2
<1>3. Live(g)' <=> Live(g)
  BY DEF Kept, Live
<1>4. ImageInv(g)'
  <2>1. ImageInv(g)
    BY DEF FileInv
  <2>2. \A j \in jrnlDisk[g] : j # Null /\ j.super # Null /\ superDisk[j.super] = {Null} => superDisk'[j.super] = {Null}
    BY DEF Kept
  <2> QED BY <1>3, <2>1, <2>2 DEF ImageInv, Kept
<1>5. HotInv(g)'
  <2>1. SUFFICES ASSUME IsHot(g)', NEW d \in Conn, Holds(d, g)'
                 PROVE  Exc(d, g)' \/ (pc'[d] \in Looking /\ F(d)' = g)
    BY DEF HotInv
  <2> USE <2>1
  <2>2. IsHot(g)
    OBVIOUS
  <2> USE <2>2
  <2>3. CASE d = c
    BY <2>3 DEF Kept
  <2>4. CASE d # c
    <3>1. /\ pc'[d] = pc[d] /\ F(d)' = F(d) /\ (Exc(d, g)' <=> Exc(d, g)) /\ (Holds(d, g)' <=> Holds(d, g))
      BY <2>4, OthersSame
    <3> USE <3>1
    <3>2. Exc(d, g) \/ (pc[d] \in Looking /\ F(d) = g)
      BY DEF FileInv, HotInv
    <3> QED BY <3>2
  <2> QED BY <2>3, <2>4
<1>6. GoneInv(g)'
  <2>1. SUFFICES ASSUME IsGone(g)'
                 PROVE  jrnl'[g].hot /\ (Delete' \/ \E d \in Conn : pc'[d] = "phasetwo" /\ Multi(d)' /\ g \in loc'[d].todo)
    BY DEF GoneInv
  <2>2. IsGone(g) /\ jrnl'[g] = jrnl[g]
    BY <2>1 DEF Kept
  <2> USE <2>2
  <2>3. jrnl[g].hot /\ (Delete \/ \E d \in Conn : pc[d] = "phasetwo" /\ Multi(d) /\ g \in loc[d].todo)
    BY DEF FileInv, GoneInv
  <2> USE <2>3
  <2>4. Delete' <=> Delete
    BY DEF Apart, Delete, Env
  <2> USE <2>4
  <2>5. CASE Delete
    BY <2>5
  <2>6. CASE \E d \in Conn : pc[d] = "phasetwo" /\ Multi(d) /\ g \in loc[d].todo
    <3>1. PICK d \in Conn : pc[d] = "phasetwo" /\ Multi(d) /\ g \in loc[d].todo
      BY <2>6
    <3> USE <3>1
    <3>2. CASE d = c
      BY <3>2 DEF Kept
    <3>3. CASE d # c
      BY <3>3, OthersSame
    <3> QED BY <3>2, <3>3
  <2> QED BY <2>5, <2>6
<1>7. NamesInv(g)'
  <2>1. SUFFICES ASSUME NEW j \in jrnlDisk'[g], j # Null, j.super # Null
                 PROVE  /\ j.super <= nTx'
                        /\ \A d \in Conn : ActiveAs(d, j.super)' => Multi(d)' /\ pc'[d] \in Committing
                        /\ \A s \in superDisk'[j.super] : s # Null => g \in s
    BY DEF NamesInv
  <2> USE <2>1
  <2>2. j \in jrnlDisk[g]
    BY DEF Kept
  <2> USE <2>2
  <2>3. /\ j.super <= nTx
        /\ \A d \in Conn : ActiveAs(d, j.super) => Multi(d) /\ pc[d] \in Committing
        /\ \A s \in superDisk[j.super] : s # Null => g \in s
    BY DEF FileInv, NamesInv
  <2> USE <2>3
  <2>4. j.super \in 1 .. MaxTx
    <3>1. j \in Journal
      BY DEF Types, TypeOK
    <3> QED BY <3>1 DEF Journal
  <2>5. j.super <= nTx'
    BY SMT, <1>1, <2>3, <2>4 DEF Older
  <2>6. \A d \in Conn : ActiveAs(d, j.super)' => Multi(d)' /\ pc'[d] \in Committing
    <3>1. SUFFICES ASSUME NEW d \in Conn, ActiveAs(d, j.super)' PROVE Multi(d)' /\ pc'[d] \in Committing
      OBVIOUS
    <3> USE <3>1
    <3>2. CASE d = c
      BY <2>4, <3>2 DEF Older
    <3>3. CASE d # c
      BY <3>3, OthersSame
    <3> QED BY <3>2, <3>3
  <2>7. \A s \in superDisk'[j.super] : s # Null => g \in s
    BY DEF Kept
  <2> QED BY <2>5, <2>6, <2>7
<1> QED BY <1>4, <1>5, <1>6, <1>7 DEF FileInv

(* The journals of the other transactions do not become hot.               *)
LEMMA OthersCold ==
  ASSUME IInv, NEW c \in Conn, Apart(c), Changes(c), NEW d \in Conn, d # c
  PROVE  ColdInv(d)'
<1>1. /\ pc'[d] = pc[d] /\ loc'[d] = loc[d] /\ (Active(d)' <=> Active(d))
  BY OthersSame
<1>2. Types /\ HoldsInv(d) /\ ColdInv(d)
  BY DEF IInv, ConnInv
<1> USE <1>2
<1>3. \A f \in loc[d].opened : f \in File /\ Res(d, f)
  BY DEF HoldsInv, Types, Local
<1> USE <1>3
<1>4. \A f \in loc[d].opened : ~Res(c, f)
  BY Disjoint
<1>5. \A f \in loc[d].opened : jrnl'[f] = jrnl[f]
  BY <1>4 DEF Changes
<1>6. \A f \in loc[d].opened : IsHot(f)' <=> IsHot(f)
  BY <1>5 DEF IsHot
<1> QED BY <1>1, <1>6 DEF ColdInv

(* Nor do those of its own transaction, outside of phase one.              *)
LEMMA ColdKept ==
  ASSUME IInv, NEW c \in Conn, TxKept(c), pc'[c] \notin PhaseOne, loc'[c].opened \subseteq loc[c].opened,
         \A f \in loc'[c].opened : jrnl'[f] = jrnl[f]
  PROVE  ColdInv(c)'
<1>1. CASE pc'[c] \in Committing
  BY <1>1 DEF ColdInv
<1>2. CASE pc'[c] \notin Committing
  <2>1. Active(c)' => Active(c) /\ pc[c] \notin Committing
    BY <1>2 DEF TxKept
  <2>2. Active(c)' => \A f \in loc'[c].opened : ~IsHot(f)
    BY <2>1 DEF IInv, ColdInv
  <2> QED BY <2>2 DEF ColdInv, IsHot
<1> QED BY <1>1, <1>2

(* A step of one connection keeps the invariant if it does for what it     *)
(* changes.                                                                *)
LEMMA StepInv ==
  ASSUME IInv, NEW c \in Conn, Apart(c), Changes(c), Older(c), Types', NumbersInv', CounterInv',
         PowerInv', \A n \in 1 .. MaxTx : SuperInv(n)', \A g \in File : Kept(c, g) \/ FileInv(g)',
         ConnInv(c)', ColdInv(c)'
  PROVE  IInv'
<1>1. \A g \in File : FileInv(g)'
  BY FileKept
<1>2. \A d \in Conn : ConnInv(d)' /\ ColdInv(d)'
  <2>1. \A d \in Conn : d # c => ConnInv(d)'
    BY OthersInv DEF Older
  <2>2. \A d \in Conn : d # c => ColdInv(d)'
    BY OthersCold
  <2> QED BY <2>1, <2>2
<1> QED BY <1>1, <1>2 DEF IInv

(* A transaction that goes on, or is over, keeps the numbers apart.        *)
LEMMA NumbersKept ==
  ASSUME FiniteSetFacts, IInv, NEW c \in Conn, Apart(c), TxKept(c)
  PROVE  /\ NumbersInv' /\ Older(c)
         /\ \A f \in File : current'[f] = current[f] => current'[f][2] + Cardinality(Pending(f)') <= nTx'
         /\ \A f \in File : durable'[f] \in {durable[f], current[f]} => durable'[f][2] <= nTx'
<1>1. NumbersInv /\ nTx \in Nat /\ CounterInv /\ \A d \in Conn : loc[d].v \in Nat
  <2>1. nTx \in 0 .. MaxTx /\ loc \in [Conn -> Local] /\ NumbersInv /\ CounterInv
    BY DEF IInv, Types
  <2>2. nTx \in Nat
    BY SMT, <2>1, SuperJournalAssumption
  <2>3. \A d \in Conn : loc[d].v \in 0 .. MaxTx
    BY <2>1 DEF Local
  <2> QED BY SMT, <2>1, <2>2, <2>3, SuperJournalAssumption
<1> USE <1>1
<1>2. \A d \in Conn : d # c => loc'[d] = loc[d] /\ (Active(d)' <=> Active(d)) /\ pc'[d] = pc[d] /\ (Multi(d)' <=> Multi(d))
  BY OthersSame
<1> USE <1>2
<1>3. Active(c)' => /\ Active(c) /\ loc'[c].write = loc[c].write /\ loc'[c].v = loc[c].v
                    /\ pc[c] \in Committing => pc'[c] \in Committing
                    /\ pc[c] = "phasetwo" => pc'[c] = "phasetwo"
  BY DEF TxKept
<1> USE <1>3
<1>4. NumbersInv'
  <2>1. \A d \in Conn : loc'[d].v <= nTx' /\ (Active(d)' => loc'[d].v # 0)
    <3>1. loc'[c].v <= nTx'
      BY SMT, <1>1 DEF TxKept, NumbersInv
    <3>2. \A d \in Conn : d # c => loc'[d].v <= nTx'
      BY DEF TxKept, NumbersInv
    <3>3. \A d \in Conn : Active(d)' => loc'[d].v # 0
      BY DEF NumbersInv
    <3> QED BY <3>1, <3>2, <3>3
  <2>2. \A d, e \in Conn : Active(d)' /\ Active(e)' /\ loc'[d].v = loc'[e].v => d = e
    <3>1. \A d \in Conn : Active(d)' => Active(d) /\ loc'[d].v = loc[d].v
      OBVIOUS
    <3> QED BY <3>1 DEF NumbersInv
  <2> QED BY <2>1, <2>2 DEF NumbersInv
<1>5. Older(c)
  <2>1. nTx' \in Nat /\ nTx <= nTx'
    BY SMT, <1>1 DEF TxKept
  <2>2. Active(c)' => (Multi(c)' <=> Multi(c))
    BY DEF Multi
  <2> QED BY <2>1, <2>2 DEF Older, ActiveAs
<1>6. \A f \in File : Pending(f)' \subseteq Pending(f) /\ IsFiniteSet(Pending(f)) /\ Pending(f)' \subseteq Conn
  <2>1. SUFFICES ASSUME NEW f \in File PROVE Pending(f)' \subseteq Pending(f) /\ Pending(f) \subseteq Conn
    BY SuperJournalAssumption DEF FiniteSetFacts, SubsetsFinite
  <2>2. ASSUME NEW d \in Conn, Active(d)', f \in loc'[d].write, pc'[d] = "phasetwo" => ~Multi(d)'
        PROVE  Active(d) /\ f \in loc[d].write /\ (pc[d] = "phasetwo" => ~Multi(d))
    <3> USE <2>2
    <3>1. CASE d # c
      BY <3>1
    <3>2. CASE d = c
      <4> USE <3>2
      <4>1. Multi(c)' <=> Multi(c)
        BY DEF Multi
      <4> QED BY <4>1
    <3> QED BY <3>1, <3>2
  <2>3. \A d \in Pending(f)' : d \in Pending(f)
    BY <2>2 DEF Pending
  <2> QED BY <2>3 DEF Pending
<1> USE <1>6
<1>7. \A f \in File : current'[f] = current[f] => current'[f][2] + Cardinality(Pending(f)') <= nTx'
  <2>1. SUFFICES ASSUME NEW f \in File PROVE current[f][2] + Cardinality(Pending(f)') <= nTx'
    OBVIOUS
  <2>2. /\ Cardinality(Pending(f)') <= Cardinality(Pending(f))
        /\ Cardinality(Pending(f)') \in Nat /\ Cardinality(Pending(f)) \in Nat
    BY DEF FiniteSetFacts, SubsetsFinite, CardinalityIsNat
  <2>3. current[f][2] + Cardinality(Pending(f)) <= nTx
    BY DEF CounterInv
  <2>4. current[f] \in Version
    BY DEF IInv, Types, TypeOK
  <2>5. current[f][2] \in Nat
    BY SMT, <2>4, SuperJournalAssumption DEF Version
  <2> QED BY SMT, <1>1, <2>2, <2>3, <2>5 DEF TxKept
<1>8. \A f \in File : durable[f][2] <= nTx' /\ current[f][2] <= nTx'
  <2>1. SUFFICES ASSUME NEW f \in File PROVE durable[f][2] <= nTx' /\ current[f][2] <= nTx'
    OBVIOUS
  <2>2. Cardinality(Pending(f)) \in Nat
    BY DEF FiniteSetFacts, CardinalityIsNat
  <2>3. current[f][2] + Cardinality(Pending(f)) <= nTx /\ durable[f][2] <= nTx /\ nTx' = nTx
    BY DEF CounterInv, TxKept
  <2>4. current[f] \in Version
    BY DEF IInv, Types, TypeOK
  <2>5. current[f][2] \in Nat
    BY SMT, <2>4, SuperJournalAssumption DEF Version
  <2> QED BY SMT, <1>1, <2>2, <2>3, <2>5
<1> QED BY <1>4, <1>5, <1>7, <1>8

(* Before the loss of power.                                               *)
LEMMA PowerKept ==
  ASSUME IInv, NEW c \in Conn, Apart(c),
         PowerAhead' => PowerAhead /\ loc'[c].zSuper = Null,
         PowerAhead' => \A f \in File :
           \/ PowerFile(f)'
           \/ /\ jrnl'[f] = jrnl[f] /\ jrnlDisk'[f] = jrnlDisk[f]
              /\ Names(f, Null) \/ f \notin loc[c].opened \/ pc[c] \notin Committing
                 \/ (f \in loc'[c].opened /\ pc'[c] \in Committing)
              /\ \A j \in jrnlDisk[f] : j # Null /\ ~j.hot /\ j.super # Null =>
                   (Null \in superDisk'[j.super] => Null \in superDisk[j.super])
  PROVE  PowerInv'
<1>1. SUFFICES ASSUME PowerAhead'
               PROVE  (\A d \in Conn : loc'[d].zSuper = Null) /\ (\A f \in File : PowerFile(f)')
  BY DEF PowerInv
<1> USE <1>1
<1>2. PowerAhead /\ (\A d \in Conn : loc[d].zSuper = Null) /\ (\A f \in File : PowerFile(f))
  BY DEF IInv, PowerInv
<1> USE <1>2
<1>3. \A d \in Conn : d # c => loc'[d] = loc[d] /\ pc'[d] = pc[d]
  BY OthersSame
<1> USE <1>3
<1>4. \A d \in Conn : loc'[d].zSuper = Null
  OBVIOUS
<1>5. ASSUME NEW f \in File PROVE PowerFile(f)'
  <2>1. CASE PowerFile(f)'
    BY <2>1
  <2>2. CASE /\ jrnl'[f] = jrnl[f] /\ jrnlDisk'[f] = jrnlDisk[f]
             /\ Names(f, Null) \/ f \notin loc[c].opened \/ pc[c] \notin Committing
                \/ (f \in loc'[c].opened /\ pc'[c] \in Committing)
             /\ \A j \in jrnlDisk[f] : j # Null /\ ~j.hot /\ j.super # Null =>
                   (Null \in superDisk'[j.super] => Null \in superDisk[j.super])
    <3> USE <2>2
    <3>1. jrnl[f] # Null /\ jrnl[f].super # Null => \E d \in Conn : f \in loc'[d].opened /\ pc'[d] \in Committing
      <4>1. SUFFICES ASSUME jrnl[f] # Null, jrnl[f].super # Null
                     PROVE  \E d \in Conn : f \in loc'[d].opened /\ pc'[d] \in Committing
        OBVIOUS
      <4> USE <4>1
      <4>2. PICK d \in Conn : f \in loc[d].opened /\ pc[d] \in Committing
        BY DEF PowerFile
      <4> USE <4>2
      <4>3. CASE d = c
        BY <4>3 DEF Names
      <4>4. CASE d # c
        BY <4>4
      <4> QED BY <4>3, <4>4
    <3>2. \A j \in jrnlDisk'[f] : j # Null /\ ~j.hot /\ j.super # Null => Null \notin superDisk'[j.super]
      BY DEF PowerFile
    <3> QED BY <3>1, <3>2 DEF PowerFile
  <2> QED BY <2>1, <2>2
<1> QED BY <1>4, <1>5

(* A step that changes no file.                                            *)
LEMMA QuietInv ==
  ASSUME FiniteSetFacts, IInv, NEW c \in Conn, Apart(c), TxKept(c),
         db' = db, jrnl' = jrnl, super' = super, dbDisk' = dbDisk, jrnlDisk' = jrnlDisk, superDisk' = superDisk,
         current' = current, durable' = durable,
         \A g \in File : IsHot(g) /\ Holds(c, g)' => Exc(c, g)' \/ (pc'[c] \in Looking /\ F(c)' = g),
         pc[c] = "phasetwo" /\ Multi(c) => Delete,
         PowerAhead' => PowerAhead /\ pc[c] \notin Committing /\ loc'[c].zSuper = Null,
         pc'[c] \notin PhaseOne, loc'[c].opened \subseteq loc[c].opened,
         Types', ConnInv(c)'
  PROVE  IInv'
<1>1. \A f \in File : /\ IsGone(f)' <=> IsGone(f)
                      /\ Harmless(f)' <=> Harmless(f)
                      /\ \A n : Names(f, n)' <=> Names(f, n)
  BY DEF IsGone, Gone, Harmless, Names
<1> USE <1>1
<1>2. NumbersInv' /\ Older(c) /\ CounterInv'
  BY NumbersKept DEF CounterInv
<1>3. Changes(c)
  BY DEF Changes
<1>4. \A g \in File : Kept(c, g)
  BY DEF Kept
<1>5. \A n \in 1 .. MaxTx : SuperInv(n)'
  BY DEF IInv, SuperInv
<1>6. PowerInv'
  BY PowerKept
<1>7. ColdInv(c)'
  BY ColdKept
<1> QED BY <1>2, <1>3, <1>4, <1>5, <1>6, <1>7, StepInv

-----------------------------------------------------------------------------
(* A fault is the only one if it could be a loss of power, and it is the   *)
(* death of a process where journals stay.                                 *)
LEMMA FaultEnds ==
  ASSUME NoStaleName, Types, scenario' = scenario, NEW k, Fault(k)
  PROVE  ~PowerAhead' /\ nFault' \in Nat /\ (k # "kill" => Delete)
<1>1. scenario \in DOMAIN Scenario /\ nFault \in Nat /\ nFault' = nFault + 1 /\ k \in Env.fault
  BY DEF Types, Fault
<1> USE <1>1
<1>2. /\ Env.maxFault \in Nat
      /\ (\E c \in Conn : Env.mode[c] # "delete") => Env.fault \subseteq {"kill"}
      /\ "power" \in Env.fault => Env.maxFault <= 1
  BY SuperJournalAssumption DEF NoStaleName, Env
<1>3. ~PowerAhead'
  BY SMT, <1>1, <1>2 DEF PowerAhead, Env
<1>4. k # "kill" => Delete
  BY <1>2 DEF Delete
<1> QED BY SMT, <1>1, <1>3, <1>4

(* Without a fault.                                                        *)
LEMMA SameFaults ==
  ASSUME scenario' = scenario, nFault' = nFault
  PROVE  PowerAhead' <=> PowerAhead
  BY DEF PowerAhead, Env

(* The types of a state, from the types of its variables.                  *)
LEMMA TypesFrom ==
  ASSUME db' \in [File -> Version \cup {Torn}], jrnl' \in [File -> Journal \cup {Null}],
         super' \in [1 .. MaxTx -> (SUBSET File) \cup {Null}],
         dbDisk' \in [File -> SUBSET (Version \cup {Torn})], jrnlDisk' \in [File -> SUBSET (Journal \cup {Null})],
         superDisk' \in [1 .. MaxTx -> SUBSET ((SUBSET File) \cup {Null})],
         pc' \in [Conn -> Labels], loc' \in [Conn -> Local], cache' \in [Conn -> [File -> Version \cup {Null, Torn}]],
         current' \in [File -> Version], durable' \in [File -> Version],
         lock' \in [Handle -> Level], Exclusion', scenario' \in DOMAIN Scenario, nTx' \in 0 .. MaxTx,
         calls' \in [Conn -> Nat], nFault' \in Nat
  PROVE  Types'
<1>1. \A n \in 1 .. MaxTx : super'[n] = Null \/ super'[n] \subseteq File
  OBVIOUS
<1>2. \A f \in File : dbDisk'[f] \subseteq Version \cup {Torn} /\ jrnlDisk'[f] \subseteq Journal \cup {Null}
  OBVIOUS
<1> QED BY <1>1, <1>2 DEF Types, TypeOK

(* The types of the files are kept.                                        *)
LEMMA TypesQuiet ==
  ASSUME Types, db' = db, jrnl' = jrnl, super' = super, dbDisk' = dbDisk, jrnlDisk' = jrnlDisk, superDisk' = superDisk,
         current' = current, durable' = durable, scenario' = scenario,
         pc' \in [Conn -> Labels], loc' \in [Conn -> Local], cache' \in [Conn -> [File -> Version \cup {Null, Torn}]],
         lock' \in [Handle -> Level], Exclusion', nTx' \in 0 .. MaxTx, calls' \in [Conn -> Nat], nFault' \in Nat
  PROVE  Types'
<1>1. /\ db \in [File -> Version \cup {Torn}] /\ jrnl \in [File -> Journal \cup {Null}]
      /\ super \in [1 .. MaxTx -> (SUBSET File) \cup {Null}]
      /\ dbDisk \in [File -> SUBSET (Version \cup {Torn})] /\ jrnlDisk \in [File -> SUBSET (Journal \cup {Null})]
      /\ superDisk \in [1 .. MaxTx -> SUBSET ((SUBSET File) \cup {Null})]
      /\ current \in [File -> Version] /\ durable \in [File -> Version]
      /\ scenario \in DOMAIN Scenario
  BY DEF Types, TypeOK
<1> QED BY <1>1, TypesFrom

(* A connection moves on.                                                  *)
LEMMA Moves ==
  ASSUME Types, NEW c \in Conn, NEW label \in Labels, NEW l \in Local, Goto(c, label, l)
  PROVE  /\ pc' \in [Conn -> Labels] /\ loc' \in [Conn -> Local]
         /\ pc'[c] = label /\ loc'[c] = l /\ F(c)' = l.f
         /\ \A d \in Conn : d # c => pc'[d] = pc[d] /\ loc'[d] = loc[d]
<1>1. pc \in [Conn -> Labels] /\ loc \in [Conn -> Local]
  BY DEF Types, TypeOK
<1> USE <1>1
<1>2. pc' = [pc EXCEPT ![c] = label] /\ loc' = [loc EXCEPT ![c] = l]
  BY DEF Goto
<1> USE <1>2
<1>3. pc' \in [Conn -> Labels] /\ pc'[c] = label /\ \A d \in Conn : d # c => pc'[d] = pc[d]
  OBVIOUS
<1>4. loc' \in [Conn -> Local] /\ loc'[c] = l /\ \A d \in Conn : d # c => loc'[d] = loc[d]
  OBVIOUS
<1> QED BY <1>3, <1>4 DEF F

(* A page cache is set.                                                    *)
LEMMA CacheSet ==
  ASSUME Types, NEW c \in Conn, NEW f \in File, NEW v \in Version \cup {Null, Torn}, SetCache(c, f, v)
  PROVE  /\ cache' \in [Conn -> [File -> Version \cup {Null, Torn}]]
         /\ cache'[c][f] = v /\ \A g \in File : g # f => cache'[c][g] = cache[c][g]
         /\ \A d \in Conn : d # c => cache'[d] = cache[d]
<1>1. cache \in [Conn -> [File -> Version \cup {Null, Torn}]]
  BY DEF Types, TypeOK
<1> USE <1>1
<1>2. cache' = [cache EXCEPT ![c] = [cache[c] EXCEPT ![f] = v]]
  BY DEF SetCache
<1>3. cache[c] \in [File -> Version \cup {Null, Torn}]
  OBVIOUS
<1>4. PICK x : x = [cache[c] EXCEPT ![f] = v]
  OBVIOUS
<1> USE <1>4
<1>5. x \in [File -> Version \cup {Null, Torn}] /\ x[f] = v /\ \A g \in File : g # f => x[g] = cache[c][g]
  BY <1>3
<1> USE <1>5
<1>6. cache' \in [Conn -> [File -> Version \cup {Null, Torn}]] /\ cache'[c] = x /\ \A d \in Conn : d # c => cache'[d] = cache[d]
  BY <1>2
<1> QED BY <1>6

-----------------------------------------------------------------------------
(* The connection that takes the step.                                     *)

(* What the types say of a connection.                                     *)
LEMMA ConnTypes ==
  ASSUME Types, NEW c \in Conn
  PROVE  /\ loc[c] \in Local /\ pc[c] \in Labels /\ lock \in [Handle -> Level] /\ Exclusion
         /\ loc[c].write \subseteq File /\ loc[c].read \subseteq File /\ loc[c].todo \subseteq File
         /\ loc[c].open \subseteq File /\ loc[c].opened \subseteq File /\ loc[c].others \subseteq File
         /\ loc[c].f \in File \cup {Null} /\ loc[c].v \in 0 .. MaxTx
<1>1. /\ loc[c] \in Local /\ pc[c] \in Labels /\ lock \in [Handle -> Level] /\ Exclusion
  BY DEF Types, TypeOK
<1> QED BY <1>1 DEF Local

(* The lock of a connection on a file that a step leaves alone.            *)
LEMMA LockSame ==
  ASSUME NEW c \in Conn, NEW f \in File, lock'[H(c, f)] = lock[H(c, f)]
  PROVE  /\ Holds(c, f)' <=> Holds(c, f)
         /\ Res(c, f)' <=> Res(c, f)
         /\ Exc(c, f)' <=> Exc(c, f)
  BY DEF Holds, Res, Exc

(* The EXCLUSIVE lock.                                                     *)
LEMMA RaiseExclusive ==
  ASSUME lock \in [Handle -> Level], Exclusion, NEW c \in Conn, NEW f \in File, Raise(H(c, f), EXCLUSIVE_LOCK)
  PROVE  /\ LocksApart(c) /\ Exc(c, f)' /\ Res(c, f)' /\ Holds(c, f)' /\ Holds(c, f)
         /\ \A d \in Conn : d # c => ~Holds(d, f)
         /\ \A g \in File : g # f => lock'[H(c, g)] = lock[H(c, g)]
<1>1. EXCLUSIVE_LOCK \in 1 .. 4 /\ EXCLUSIVE_LOCK >= RESERVED_LOCK /\ EXCLUSIVE_LOCK # SHARED_LOCK
  BY SMT DEF EXCLUSIVE_LOCK, RESERVED_LOCK, SHARED_LOCK
<1> USE <1>1
<1>2. PICK l : l = EXCLUSIVE_LOCK
  OBVIOUS
<1> USE <1>2
<1>3. /\ lock' \in [Handle -> Level] /\ Exclusion'
      /\ Holds(c, f)' /\ (Res(c, f)' <=> l >= RESERVED_LOCK) /\ (Exc(c, f)' <=> l = EXCLUSIVE_LOCK)
      /\ ~Exc(c, f) /\ (l = SHARED_LOCK => ~Holds(c, f)) /\ (l # SHARED_LOCK => Holds(c, f))
      /\ (l = EXCLUSIVE_LOCK => \A d \in Conn : d # c => ~Holds(d, f))
      /\ \A d \in Conn, g \in File : d # c \/ g # f => lock'[H(d, g)] = lock[H(d, g)]
  BY RaiseLock
<1> QED BY <1>3 DEF LocksApart

(* RESERVED or PENDING.                                                    *)
LEMMA RaiseReserved ==
  ASSUME lock \in [Handle -> Level], Exclusion, NEW c \in Conn, NEW f \in File,
         NEW l \in {RESERVED_LOCK, PENDING_LOCK}, Raise(H(c, f), l)
  PROVE  /\ LocksApart(c) /\ Res(c, f)' /\ Holds(c, f)' /\ Holds(c, f) /\ ~Exc(c, f) /\ ~Exc(c, f)'
         /\ \A g \in File : g # f => lock'[H(c, g)] = lock[H(c, g)]
<1>1. l \in 1 .. 4 /\ l >= RESERVED_LOCK /\ l # SHARED_LOCK /\ l # EXCLUSIVE_LOCK
  BY SMT DEF PENDING_LOCK, RESERVED_LOCK, SHARED_LOCK, EXCLUSIVE_LOCK
<1> USE <1>1
<1>3. /\ lock' \in [Handle -> Level] /\ Exclusion'
      /\ Holds(c, f)' /\ (Res(c, f)' <=> l >= RESERVED_LOCK) /\ (Exc(c, f)' <=> l = EXCLUSIVE_LOCK)
      /\ ~Exc(c, f) /\ (l = SHARED_LOCK => ~Holds(c, f)) /\ (l # SHARED_LOCK => Holds(c, f))
      /\ (l = EXCLUSIVE_LOCK => \A d \in Conn : d # c => ~Holds(d, f))
      /\ \A d \in Conn, g \in File : d # c \/ g # f => lock'[H(d, g)] = lock[H(d, g)]
  BY RaiseLock
<1> QED BY <1>3 DEF LocksApart

(* The lock is given up, or goes back to SHARED.                           *)
LEMMA LowerTo ==
  ASSUME lock \in [Handle -> Level], Exclusion, NEW c \in Conn, NEW f \in File,
         NEW l \in {NO_LOCK, SHARED_LOCK}, Lower(H(c, f), l)
  PROVE  /\ LocksApart(c) /\ ~Res(c, f)' /\ ~Exc(c, f)' /\ (Holds(c, f)' <=> l = SHARED_LOCK)
         /\ NO_LOCK # SHARED_LOCK
         /\ \A g \in File : g # f => lock'[H(c, g)] = lock[H(c, g)]
<1>1. NO_LOCK # SHARED_LOCK
  BY SMT DEF NO_LOCK, SHARED_LOCK
<1>2. /\ lock' \in [Handle -> Level] /\ Exclusion'
      /\ (Holds(c, f)' <=> l = SHARED_LOCK) /\ ~Res(c, f)' /\ ~Exc(c, f)'
      /\ \A d \in Conn, g \in File : d # c \/ g # f => lock'[H(d, g)] = lock[H(d, g)]
  BY LowerLock
<1> QED BY <1>1, <1>2 DEF LocksApart

(* A lock that a hot journal does not allow.                               *)
LEMMA NotHot ==
  ASSUME IInv, NEW c \in Conn, NEW f \in File, Holds(c, f), ~Exc(c, f), pc[c] \notin Looking \/ F(c) # f
  PROVE  ~IsHot(f)
  BY DEF IInv, FileInv, HotInv

(* A hot journal of a file whose lock stays.                               *)
LEMMA HotKept ==
  ASSUME IInv, NEW c \in Conn, NEW g \in File, pc[c] \notin Looking \/ F(c) # g,
         lock'[H(c, g)] = lock[H(c, g)], IsHot(g), Holds(c, g)'
  PROVE  Exc(c, g)'
<1>1. Holds(c, g) /\ (Exc(c, g) => Exc(c, g)') /\ HotInv(g)
  BY LockSame DEF IInv, FileInv
<1> QED BY <1>1 DEF HotInv

(* The locks of one connection go.                                         *)
LEMMA DropOwn ==
  ASSUME Types, NEW c \in Conn, Drop({c} \X File)
  PROVE  LocksApart(c) /\ \A f \in File : ~Holds(c, f)'
<1>1. lock \in [Handle -> Level] /\ Exclusion /\ {c} \in SUBSET Conn
  BY DEF Types, TypeOK
<1>2. /\ lock' \in [Handle -> Level] /\ Exclusion'
      /\ \A x \in {c}, f \in File : ~Holds(x, f)' /\ ~Res(x, f)' /\ ~Exc(x, f)'
      /\ \A d \in Conn \ {c}, g \in File : lock'[H(d, g)] = lock[H(d, g)]
  BY <1>1, DropLocks
<1> QED BY <1>2 DEF LocksApart

(* No transaction.                                                         *)
LEMMA NoTxFields ==
  /\ NoTx \in Local /\ NoTx.write = {} /\ NoTx.read = {} /\ NoTx.todo = {} /\ NoTx.open = {} /\ NoTx.opened = {}
  /\ NoTx.f = Null /\ NoTx.v = 0 /\ ~NoTx.isHot /\ NoTx.zSuper = Null
<1>1. 0 \in 0 .. MaxTx
  BY SMT, SuperJournalAssumption
<1>2. FALSE \in BOOLEAN
  OBVIOUS
<1> QED BY <1>1, <1>2 DEF NoTx, Local

(* A connection that is idle has nothing to promise.                       *)
LEMMA IdleInv ==
  ASSUME NEW c \in Conn, pc'[c] = "idle", loc'[c] = NoTx, \A f \in File : ~Holds(c, f)'
  PROVE  HoldsInv(c)' /\ WriteInv(c)' /\ JournalInv(c)' /\ CommitInv(c)' /\ CleanInv(c)'
<1>1. /\ NoTx.write = {} /\ NoTx.todo = {} /\ NoTx.open = {} /\ NoTx.opened = {}
      /\ NoTx.f = Null /\ NoTx.v = 0 /\ ~NoTx.isHot /\ NoTx.zSuper = Null
  BY NoTxFields
<1> USE <1>1
<1>2. HoldsInv(c)'
  BY DEF HoldsInv, Looking, Playing, Cleaning
<1>3. WriteInv(c)'
  BY DEF WriteInv, Looking, PhaseOne, Playing, Cleaning
<1>4. JournalInv(c)'
  BY DEF JournalInv, Playing
<1>5. CommitInv(c)'
  BY DEF CommitInv, PhaseOne
<1>6. CleanInv(c)'
  BY DEF CleanInv, Cleaning
<1> QED BY <1>2, <1>3, <1>4, <1>5, <1>6

(* pager_playback is over: what is left of the connection.                 *)
LEMMA AfterPlaybackConn ==
  ASSUME IInv, NEW c \in Conn, pc[c] \in {"endplayback"} \cup Cleaning, AfterPlayback(c), nTx' = nTx,
         NEW f, f = F(c), \A g \in File : g # f => lock'[H(c, g)] = lock[H(c, g)], Holds(c, f)', ~Res(c, f)',
         \A g \in loc[c].opened : OwnJournal(c, g)',
         \A g \in File : g \notin loc[c].opened => cache'[c][g] # Torn /\ Stale(c, g)',
         \A g \in loc[c].open \ loc[c].opened : cache'[c][g] = current'[g]
  PROVE  /\ ConnInv(c)' /\ TxKept(c)
         /\ \E label \in {"version", "rollback"}, l \in Local :
              Goto(c, label, l) /\ l.zSuper = Null /\ l.opened = loc[c].opened
<1>1. Types /\ HoldsInv(c) /\ WriteInv(c)
  BY DEF IInv, ConnInv
<1>2. /\ loc[c] \in Local /\ loc[c].open \subseteq File /\ loc[c].opened \subseteq File /\ loc[c].write \subseteq File
  BY <1>1, ConnTypes
<1>3. f = F(c)
  OBVIOUS
<1>4. /\ f \in File /\ f \notin loc[c].open \cup loc[c].opened /\ loc[c].f = f
      /\ loc[c].opened \subseteq loc[c].write
      /\ \A g \in loc[c].open : Holds(c, g)
      /\ \A g \in loc[c].opened : Res(c, g)
  BY <1>1, <1>3 DEF HoldsInv, Playing, F
<1>5. /\ \A g \in loc[c].open : Holds(c, g)'
      /\ \A g \in loc[c].opened : Res(c, g)'
      /\ \A g \in loc[c].write : Res(c, g)' => Res(c, g) /\ g # f
  BY <1>2, <1>3, <1>4, LockSame
<1>6. /\ loc[c].isHot => /\ loc[c].write \subseteq loc[c].todo \cup loc[c].opened \cup {f}
                         /\ \A g \in loc[c].write : Res(c, g) => g \in loc[c].opened \cup {f}
      /\ ~loc[c].isHot => loc[c].opened = loc[c].todo
  BY <1>1, <1>3 DEF WriteInv, Playing
<1>7. CASE loc[c].isHot
  <2>1. PICK l : l = [loc[c] EXCEPT !.zSuper = Null, !.journalOff = FALSE, !.others = {}, !.g = Null]
    OBVIOUS
  <2>2. FALSE \in BOOLEAN
    OBVIOUS
  <2>3. /\ l \in Local /\ l.todo = loc[c].todo /\ l.write = loc[c].write /\ l.f = f /\ l.open = loc[c].open
        /\ l.opened = loc[c].opened /\ l.v = loc[c].v /\ l.isHot = loc[c].isHot /\ l.zSuper = Null
    BY <1>2, <1>4, <2>1, <2>2 DEF Local
  <2> USE <2>3
  <2>4. Goto(c, "version", l) /\ "version" \in Labels /\ "version" \in {"version", "rollback"}
    BY <1>7, <2>1 DEF AfterPlayback, Labels
  <2>5. pc'[c] = "version" /\ loc'[c] = l /\ F(c)' = f
    BY <1>1, <2>4, Moves
  <2> USE <2>5
  <2>6. HoldsInv(c)'
    BY <1>3, <1>4, <1>5 DEF HoldsInv, Looking, Playing, Cleaning
  <2>7. WriteInv(c)'
    BY <1>5, <1>6, <1>7 DEF WriteInv, PhaseOne, Playing, Cleaning, Looking
  <2>8. JournalInv(c)'
    BY DEF JournalInv, Playing
  <2>9. CommitInv(c)'
    BY DEF CommitInv, PhaseOne
  <2>10. CleanInv(c)'
    BY DEF CleanInv, Cleaning
  <2>11. CacheInv(c)'
    BY DEF CacheInv
  <2>12. TxKept(c)
    BY <1>7 DEF TxKept, Active, Undoing, Playing, Cleaning, Committing, PhaseOne
  <2> QED BY <2>4, <2>6, <2>7, <2>8, <2>9, <2>10, <2>11, <2>12 DEF ConnInv
<1>8. CASE ~loc[c].isHot
  <2>1. PICK l : l = [loc[c] EXCEPT !.zSuper = Null, !.journalOff = FALSE, !.others = {}, !.g = Null, !.f = Null]
    OBVIOUS
  <2>2. FALSE \in BOOLEAN
    OBVIOUS
  <2>3. /\ l \in Local /\ l.todo = loc[c].todo /\ l.write = loc[c].write /\ l.f = Null /\ l.open = loc[c].open
        /\ l.opened = loc[c].opened /\ l.v = loc[c].v /\ l.isHot = loc[c].isHot /\ l.zSuper = Null
    BY <1>2, <1>4, <2>1, <2>2 DEF Local
  <2> USE <2>3
  <2>4. Goto(c, "rollback", l) /\ "rollback" \in Labels /\ "rollback" \in {"version", "rollback"}
    BY <1>8, <2>1 DEF AfterPlayback, Labels
  <2> USE <2>4
  <2>5. pc'[c] = "rollback" /\ loc'[c] = l
    BY <1>1, Moves
  <2> USE <2>5
  <2>6. HoldsInv(c)'
    BY <1>4, <1>5, <1>8 DEF HoldsInv, Looking, Playing, Cleaning
  <2>7. WriteInv(c)'
    BY <1>6, <1>8 DEF WriteInv, PhaseOne, Playing, Cleaning, Looking
  <2>8. JournalInv(c)'
    BY DEF JournalInv, Playing
  <2>9. CommitInv(c)'
    BY DEF CommitInv, PhaseOne
  <2>10. CleanInv(c)'
    BY DEF CleanInv, Cleaning
  <2>11. CacheInv(c)'
    BY DEF CacheInv
  <2>12. TxKept(c)
    BY DEF TxKept, Active, Undoing
  <2> QED BY <2>6, <2>7, <2>8, <2>9, <2>10, <2>11, <2>12 DEF ConnInv
<1> QED BY <1>7, <1>8

(* What a connection in pager_delsuper has of journals and cached pages.   *)
LEMMA CleaningFacts ==
  ASSUME IInv, NEW c \in Conn, pc[c] \in Cleaning
  PROVE  /\ F(c) \in File /\ Holds(c, F(c)) /\ ~Res(c, F(c)) /\ F(c) \notin loc[c].open \cup loc[c].opened
         /\ \A f \in loc[c].opened : f \in File /\ OwnJournal(c, f)
         /\ \A f \in File : f \notin loc[c].opened => cache[c][f] # Torn /\ Stale(c, f)
         /\ \A f \in loc[c].open \ loc[c].opened : f \in File /\ cache[c][f] = current[f]
         /\ pc[c] \notin Looking /\ pc[c] \notin Committing /\ pc[c] # "phasetwo" /\ ~PowerAhead
         /\ loc[c].zSuper \in 1 .. MaxTx
<1>1. Types /\ HoldsInv(c) /\ JournalInv(c) /\ CacheInv(c) /\ CleanInv(c) /\ PowerInv
  BY DEF IInv, ConnInv
<1> USE <1>1
<1>2. /\ loc[c] \in Local /\ loc[c].open \subseteq File /\ loc[c].opened \subseteq File
  BY ConnTypes
<1> USE <1>2
<1>3. /\ F(c) \in File /\ Holds(c, F(c)) /\ ~Res(c, F(c)) /\ F(c) \notin loc[c].open \cup loc[c].opened
  BY DEF HoldsInv
<1>4. \A f \in File : ~Restoring(c, f)
  BY DEF Restoring, Cleaning
<1>5. pc[c] \notin Looking /\ pc[c] \notin Committing /\ pc[c] # "phasetwo"
  BY DEF Looking, Committing, PhaseOne, Cleaning
<1>6. loc[c].zSuper # Null /\ ~PowerAhead
  BY DEF CleanInv, PowerInv
<1> USE <1>6
<1>7. loc[c].zSuper \in 1 .. MaxTx
  BY DEF Local
<1> QED BY <1>3, <1>4, <1>5, <1>7 DEF JournalInv, CacheInv

-----------------------------------------------------------------------------
(* Steps that change no file and no page cache.                            *)

(* A step of a connection between its file operations.                     *)
LEMMA PlainStep ==
  ASSUME FiniteSetFacts, IInv, NEW c \in Conn, NEW l \in Local, NEW label \in Labels \ (Committing \cup Playing \cup Cleaning),
         Goto(c, label, l),
         Calm, cache' = cache, LocksApart(c), nFault' \in Nat,
         PowerAhead' => PowerAhead /\ pc[c] \notin Committing,
         pc[c] = "phasetwo" /\ Multi(c) => Delete,
         pc[c] \notin Playing \cup Cleaning,
         \/ label \in {"idle", "rollback"} /\ l.v \in {loc[c].v, 0}
         \/ label # "idle" /\ pc[c] \in Front /\ l.write = loc[c].write /\ l.v = loc[c].v,
         l.zSuper = Null, l.opened = loc[c].opened, l.open \subseteq loc[c].open,
         \A g \in File : IsHot(g) /\ Holds(c, g)' => Exc(c, g)' \/ (label \in Looking /\ l.f = g),
         label \in {"hot", "hotopen"} => Harmless(l.f),
         HoldsInv(c)', WriteInv(c)'
  PROVE  IInv'
<1>0. /\ db' = db /\ jrnl' = jrnl /\ super' = super /\ dbDisk' = dbDisk /\ jrnlDisk' = jrnlDisk
      /\ superDisk' = superDisk /\ current' = current /\ durable' = durable /\ scenario' = scenario
      /\ nTx' = nTx /\ calls' = calls
      /\ lock' \in [Handle -> Level] /\ Exclusion'
      /\ \A d \in Conn : d # c => \A f \in File : lock'[H(d, f)] = lock[H(d, f)]
  BY DEF Calm, LocksApart
<1> USE <1>0
<1>1. /\ pc' \in [Conn -> Labels] /\ loc' \in [Conn -> Local]
      /\ pc'[c] = label /\ loc'[c] = l /\ F(c)' = l.f
      /\ \A d \in Conn : d # c => pc'[d] = pc[d] /\ loc'[d] = loc[d]
  BY Moves DEF IInv
<1> USE <1>1
<1>2. Apart(c)
  BY DEF Apart
<1>3. TxKept(c)
  <2>1. loc'[c].v \in {loc[c].v, 0}
    OBVIOUS
  <2> USE <2>1
  <2>2. CASE label \in {"idle", "rollback"}
    BY <2>2 DEF TxKept, Active, Undoing
  <2>3. CASE label # "idle" /\ pc[c] \in Front /\ l.write = loc[c].write /\ l.v = loc[c].v
    <3> USE <2>3
    <3>1. pc[c] \notin Committing /\ pc[c] # "idle" /\ pc[c] # "rollback" /\ pc[c] # "phasetwo"
      BY DEF Front, Looking, Committing, PhaseOne
    <3> USE <3>1
    <3>2. Active(c)' => Active(c)
      BY DEF Active, Undoing
    <3> QED BY <3>2 DEF TxKept
  <2> QED BY <2>2, <2>3
<1>4. Types'
  <2>1. Types /\ nTx \in 0 .. MaxTx /\ calls \in [Conn -> Nat] /\ cache \in [Conn -> [File -> Version \cup {Null, Torn}]]
    BY DEF IInv, Types, TypeOK
  <2> QED BY <2>1, TypesQuiet
<1>5. ConnInv(c)
  BY DEF IInv
<1> USE <1>5
<1>6. JournalInv(c)'
  <2>1. \A f \in l.opened : OwnJournal(c, f)'
    <3>1. \A f \in loc[c].opened : OwnJournal(c, f)
      BY DEF ConnInv, JournalInv
    <3> QED BY <3>1 DEF OwnJournal, IsGone, Gone
  <2>2. label \in {"hot", "hotopen"} => Harmless(l.f)'
    BY DEF Harmless
  <2>3. label \notin Playing /\ label # "playback" /\ label # "restore" /\ label # "endplayback"
    BY DEF Playing
  <2> QED BY <2>1, <2>2, <2>3 DEF JournalInv
<1>7. CommitInv(c)'
  BY DEF CommitInv, Committing, PhaseOne
<1>8. CleanInv(c)'
  BY DEF CleanInv, Cleaning
<1>9. CacheInv(c)'
  <2>1. CacheInv(c) /\ (\A f \in File : ~Restoring(c, f))
    BY DEF ConnInv, Restoring, Playing
  <2> USE <2>1
  <2>2. \A f \in File : f \notin l.opened => cache'[c][f] # Torn /\ Stale(c, f)'
    BY DEF CacheInv, Stale
  <2>3. \A f \in l.open \ l.opened : cache'[c][f] = current'[f]
    BY DEF CacheInv
  <2> QED BY <2>2, <2>3 DEF CacheInv
<1>10. HoldsInv(c)' /\ WriteInv(c)'
  OBVIOUS
<1>11. ConnInv(c)'
  BY <1>6, <1>7, <1>8, <1>9, <1>10 DEF ConnInv
<1>12. PowerAhead' => PowerAhead /\ pc[c] \notin Committing /\ loc'[c].zSuper = Null
  OBVIOUS
<1>13. \A g \in File : IsHot(g) /\ Holds(c, g)' => Exc(c, g)' \/ (pc'[c] \in Looking /\ F(c)' = g)
  OBVIOUS
<1>14. pc'[c] \notin PhaseOne /\ loc'[c].opened \subseteq loc[c].opened
  BY DEF Committing
<1> QED BY <1>2, <1>3, <1>4, <1>11, <1>12, <1>13, <1>14, QuietInv

(* The same on the way to the files, and where it turns back.              *)
LEMMA FrontStep ==
  ASSUME FiniteSetFacts, IInv, NEW c \in Conn, NEW l \in Local, NEW label \in Front \cup {"rollback"}, Goto(c, label, l),
         Calm, cache' = cache, LocksApart(c), nFault' = nFault, pc[c] \in Front,
         l.write = loc[c].write, l.v = loc[c].v, l.opened = loc[c].opened, l.open \subseteq loc[c].open,
         l.zSuper = loc[c].zSuper,
         \A g \in File : IsHot(g) /\ Holds(c, g)' => Exc(c, g)' \/ (label \in Looking /\ l.f = g),
         label \in {"hot", "hotopen"} => Harmless(l.f),
         HoldsInv(c)', WriteInv(c)'
  PROVE  IInv'
<1>1. Types /\ CleanInv(c)
  BY DEF IInv, ConnInv
<1> USE <1>1
<1>2. label \in Labels \ (Committing \cup Playing \cup Cleaning)
  BY DEF Labels, Committing, PhaseOne, Playing, Cleaning, Front, Looking
<1>3. pc[c] \notin Committing /\ pc[c] \notin Playing \cup Cleaning /\ pc[c] # "phasetwo" /\ loc[c].zSuper = Null
  BY DEF Committing, PhaseOne, Playing, Cleaning, Front, Looking, CleanInv
<1>4. (PowerAhead' => PowerAhead) /\ nFault' \in Nat
  BY SameFaults DEF Calm, Types
<1>5. label # "idle"
  BY DEF Front, Looking
<1> QED BY <1>2, <1>3, <1>4, <1>5, PlainStep

(* pager_wait_on_lock gets the SHARED lock on the next file: the           *)
(* connection begins to look for a hot journal there, whatever it finds.   *)
LEMMA WaitOnLockInv ==
  ASSUME FiniteSetFacts, IInv, NEW c \in Conn, NEW f \in File, pager_wait_on_lock(c, f)
  PROVE  IInv'
<1>1. /\ Types /\ ConnInv(c) /\ pc[c] = "next" /\ f \in loc[c].todo /\ Raise(H(c, f), SHARED_LOCK)
      /\ Goto(c, "exists", [loc[c] EXCEPT !.todo = @ \ {f}, !.f = f])
      /\ Calm /\ cache' = cache /\ nFault' = nFault
  BY DEF IInv, pager_wait_on_lock, Calm, files, disk, history
<1> USE <1>1
<1>2. /\ loc[c] \in Local /\ lock \in [Handle -> Level] /\ Exclusion
      /\ loc[c].open \subseteq File /\ loc[c].opened \subseteq File /\ loc[c].write \subseteq File /\ nFault \in Nat
      /\ HoldsInv(c) /\ WriteInv(c) /\ CleanInv(c)
  BY ConnTypes DEF Types, ConnInv
<1>3. PICK l : l = [loc[c] EXCEPT !.todo = @ \ {f}, !.f = f]
  OBVIOUS
<1>4. /\ l \in Local /\ l.todo = loc[c].todo \ {f} /\ l.f = f /\ l.write = loc[c].write /\ l.open = loc[c].open
      /\ l.opened = loc[c].opened /\ l.v = loc[c].v /\ l.isHot = loc[c].isHot /\ l.zSuper = loc[c].zSuper
  BY <1>2, <1>3 DEF Local
<1> USE <1>4
<1>5. SHARED_LOCK \in 1 .. 4 /\ ~(SHARED_LOCK >= RESERVED_LOCK)
  BY SMT DEF SHARED_LOCK, RESERVED_LOCK
<1>6. /\ lock' \in [Handle -> Level] /\ Exclusion'
      /\ Holds(c, f)' /\ ~Res(c, f)' /\ ~Holds(c, f)
      /\ \A d \in Conn, g \in File : d # c \/ g # f => lock'[H(d, g)] = lock[H(d, g)]
  BY <1>2, <1>5, RaiseLock
<1>7. Goto(c, "exists", l) /\ pc'[c] = "exists" /\ loc'[c] = l /\ F(c)' = f
  <2>1. Goto(c, "exists", l) /\ "exists" \in Labels
    BY <1>3 DEF Labels
  <2> QED BY <2>1, Moves
<1> USE <1>7
<1>8. \A g \in File : Holds(c, g) => Holds(c, g)' /\ (Res(c, g) => Res(c, g)')
  BY <1>6, LockSame
<1>9. loc[c].opened \subseteq loc[c].write /\ f \notin loc[c].open /\ f \notin loc[c].opened /\ ~loc[c].isHot
      /\ (\A g \in loc[c].open : Holds(c, g)) /\ (\A g \in loc[c].opened : Res(c, g) /\ Holds(c, g))
  BY <1>2, <1>6, Levels DEF HoldsInv, Playing, Cleaning
<1>10. HoldsInv(c)'
  BY <1>2, <1>6, <1>8, <1>9 DEF HoldsInv, Looking, Playing, Cleaning
<1>11. WriteInv(c)'
  <2>1. /\ loc[c].write \subseteq loc[c].todo \cup loc[c].opened
        /\ \A g \in loc[c].write : Res(c, g) => g \in loc[c].opened
    BY <1>2 DEF WriteInv
  <2>2. \A g \in loc[c].write : Res(c, g)' => Res(c, g)
    BY <1>2, <1>6, LockSame
  <2> QED BY <1>9, <2>1, <2>2 DEF WriteInv, PhaseOne, Playing, Cleaning
<1>12. \A g \in File : IsHot(g) /\ Holds(c, g)' => Exc(c, g)' \/ ("exists" \in Looking /\ l.f = g)
  <2>1. ASSUME NEW g \in File, g # f, IsHot(g), Holds(c, g)' PROVE Exc(c, g)'
    <3> USE <2>1
    <3>1. Holds(c, g) /\ (Exc(c, g) => Exc(c, g)') /\ HotInv(g)
      BY <1>6, LockSame DEF IInv, FileInv
    <3> QED BY <3>1 DEF HotInv, Looking
  <2> QED BY <2>1 DEF Looking
<1>13. pc[c] \in Front /\ "exists" \in Front \cup {"rollback"} /\ ~("exists" \in {"hot", "hotopen"})
  BY DEF Front, Looking
<1>14. LocksApart(c)
  BY <1>6 DEF LocksApart
<1> QED BY <1>10, <1>11, <1>12, <1>13, <1>14, FrontStep

(* A step of hasHotJournal.                                                *)
LEMMA LookStep ==
  ASSUME FiniteSetFacts, IInv, NEW c \in Conn, NEW label \in {"reserved", "first", "hot", "version"}, Goto(c, label, loc[c]),
         Calm, cache' = cache, lock' = lock, nFault' = nFault, pc[c] \in {"exists", "reserved", "first"},
         label = "version" => ~IsHot(F(c)),
         label = "hot" => Harmless(F(c))
  PROVE  IInv'
<1>1. /\ Types /\ HoldsInv(c) /\ WriteInv(c)
  BY DEF IInv, ConnInv
<1> USE <1>1
<1>2. /\ loc[c] \in Local /\ lock \in [Handle -> Level] /\ Exclusion
      /\ loc[c].open \subseteq File /\ loc[c].opened \subseteq File /\ loc[c].write \subseteq File
  BY ConnTypes
<1> USE <1>2
<1>3. label \in Front \cup {"rollback"} /\ label \in Labels /\ pc[c] \in Front /\ pc[c] \in Looking
  BY DEF Front, Looking, Labels
<1> USE <1>3
<1>4. pc'[c] = label /\ loc'[c] = loc[c] /\ F(c)' = F(c)
  BY Moves DEF F
<1> USE <1>4
<1>5. \A g \in File : /\ Holds(c, g)' <=> Holds(c, g)
                      /\ Res(c, g)' <=> Res(c, g)
                      /\ Exc(c, g)' <=> Exc(c, g)
  BY LockSame
<1> USE <1>5
<1>6. PICK g, l : g = F(c) /\ l = loc[c] /\ g = F(c)' /\ l = loc'[c]
  OBVIOUS
<1> USE <1>6
<1>7. /\ l.opened \subseteq l.write
      /\ \A f \in l.open : Holds(c, f)
      /\ \A f \in l.opened : Res(c, f)
      /\ g \in File /\ g \notin l.open \cup l.opened /\ Holds(c, g) /\ ~Res(c, g) /\ ~l.isHot
  BY DEF HoldsInv, Looking, Playing, Cleaning
<1> USE <1>7
<1>8. HoldsInv(c)'
  BY DEF HoldsInv, Looking, Playing, Cleaning
<1>9. WriteInv(c)'
  <2>1. /\ l.write \subseteq l.todo \cup l.opened \cup {g}
        /\ \A f \in l.write : Res(c, f)' => f \in l.opened \cup {g}
    BY DEF WriteInv
  <2> QED BY <2>1 DEF WriteInv, PhaseOne, Playing, Cleaning, Looking
<1>10. \A f \in File : IsHot(f) /\ Holds(c, f)' => Exc(c, f)' \/ (label \in Looking /\ loc[c].f = f)
  <2>1. ASSUME NEW f \in File, IsHot(f), Holds(c, f)', F(c) # f PROVE Exc(c, f)'
    BY <2>1, HotKept
  <2> QED BY <2>1 DEF F, Looking
<1>11. LocksApart(c)
  BY DEF LocksApart, Exclusion
<1>12. label \in {"hot", "hotopen"} => Harmless(loc[c].f)
  BY DEF F
<1> QED BY <1>8, <1>9, <1>10, <1>11, <1>12, FrontStep

(* hasHotJournal asks whether the journal exists; without one the file is  *)
(* read.                                                                   *)
LEMMA JournalExistsInv ==
  ASSUME FiniteSetFacts, IInv, NEW c \in Conn, JournalExists(c)
  PROVE  IInv'
<1>1. /\ pc[c] = "exists" /\ Calm /\ cache' = cache /\ nFault' = nFault /\ lock' = lock
      /\ Goto(c, IF jrnl[F(c)] = Null THEN "version" ELSE "reserved", loc[c])
  BY DEF JournalExists, Calm, files, disk, history
<1> USE <1>1
<1>2. CASE jrnl[F(c)] = Null
  BY <1>2, LookStep DEF IsHot
<1>3. CASE jrnl[F(c)] # Null
  BY <1>3, LookStep
<1> QED BY <1>2, <1>3

(* hasHotJournal asks for a RESERVED lock: the journal of whoever has it   *)
(* is not hot.                                                             *)
LEMMA CheckReservedLockInv ==
  ASSUME FiniteSetFacts, IInv, NEW c \in Conn, CheckReservedLock(c)
  PROVE  IInv'
<1>1. /\ pc[c] = "reserved" /\ Calm /\ cache' = cache /\ nFault' = nFault /\ lock' = lock
      /\ Goto(c, IF ReservedElsewhere(c) THEN "version" ELSE "first", loc[c])
  BY DEF CheckReservedLock, Calm, files, disk, history
<1> USE <1>1
<1>2. CASE ReservedElsewhere(c)
  <2> USE <1>2
  <2>1. Types /\ HoldsInv(c) /\ (\A d \in Conn : HoldsInv(d)) /\ (\A f \in File : HotInv(f))
    BY DEF IInv, ConnInv, FileInv
  <2> USE <2>1
  <2>2. F(c) \in File /\ Holds(c, F(c))
    BY DEF HoldsInv, Looking
  <2> USE <2>2
  <2>3. PICK h \in Rivals[H(c, F(c))] : lock[h] >= RESERVED_LOCK
    BY DEF ReservedElsewhere
  <2>4. PICK d \in Conn : d # c /\ h = H(d, F(c))
    BY SMT, <2>2, SuperJournalAssumption DEF H
  <2>5. Res(d, F(c)) /\ Holds(d, F(c)) /\ ~Exc(d, F(c))
    BY <2>3, <2>4, Disjoint, Levels DEF Res, Types, TypeOK
  <2> USE <2>5
  <2>6. ~(pc[d] \in Looking /\ F(d) = F(c))
    BY DEF HoldsInv
  <2>7. ~IsHot(F(c))
    BY <2>6 DEF HotInv
  <2> QED BY <2>7, LookStep
<1>3. CASE ~ReservedElsewhere(c)
  BY <1>3, LookStep
<1> QED BY <1>2, <1>3

(* hasHotJournal reads the first byte of the journal: a header that is     *)
(* zeroed is not hot.                                                      *)
LEMMA FirstByteInv ==
  ASSUME FiniteSetFacts, IInv, NEW c \in Conn, FirstByte(c)
  PROVE  IInv'
<1>1. /\ pc[c] = "first" /\ Calm /\ cache' = cache /\ nFault' = nFault /\ lock' = lock
      /\ Goto(c, IF jrnl[F(c)] = Null \/ jrnl[F(c)].hot THEN "hot" ELSE "version", loc[c])
  BY DEF FirstByte, Calm, files, disk, history
<1> USE <1>1
<1>2. CASE jrnl[F(c)] = Null \/ jrnl[F(c)].hot
  BY <1>2, LookStep DEF Harmless
<1>3. CASE ~(jrnl[F(c)] = Null \/ jrnl[F(c)].hot)
  BY <1>3, LookStep DEF IsHot
<1> QED BY <1>2, <1>3

(* sqlite3PagerSharedLock gets the EXCLUSIVE lock to play a hot journal    *)
(* back, or gives the file up because somebody else has a lock.            *)
LEMMA HotLockInv ==
  ASSUME FiniteSetFacts, IInv, NEW c \in Conn, HotLock(c)
  PROVE  IInv'
<1>1. /\ pc[c] = "hot" /\ Calm /\ cache' = cache /\ nFault' = nFault
      /\ Types /\ HoldsInv(c) /\ WriteInv(c) /\ JournalInv(c)
  BY DEF HotLock, Calm, files, disk, history, IInv, ConnInv
<1> USE <1>1
<1>2. /\ loc[c] \in Local /\ lock \in [Handle -> Level] /\ Exclusion
      /\ loc[c].open \subseteq File /\ loc[c].opened \subseteq File
  BY ConnTypes
<1>3. PICK f : f = F(c)
  OBVIOUS
<1>4. /\ f \in File /\ Harmless(f) /\ f \notin loc[c].open \cup loc[c].opened /\ loc[c].f = f
      /\ loc[c].opened \subseteq loc[c].write /\ ~loc[c].isHot
      /\ \A g \in loc[c].open : Holds(c, g) /\ g # f
      /\ \A g \in loc[c].opened : Res(c, g) /\ g # f
  BY <1>3 DEF HoldsInv, JournalInv, Looking, Playing, Cleaning, F
<1>5. /\ loc[c].write \subseteq loc[c].todo \cup loc[c].opened \cup {f} /\ loc[c].write \subseteq File
      /\ \A g \in loc[c].write : Res(c, g) => g \in loc[c].opened \cup {f}
  BY <1>3, ConnTypes DEF WriteInv, Looking
<1>6. pc[c] \in Front /\ "hotopen" \in Front \cup {"rollback"} /\ "next" \in Front \cup {"rollback"}
      /\ "next" \notin {"hot", "hotopen"} /\ "hotopen" \in Labels /\ "next" \in Labels
  BY DEF Front, Looking, Labels
<1> USE <1>6
<1>7. CASE Raise(H(c, f), EXCLUSIVE_LOCK) /\ Goto(c, "hotopen", loc[c])
  <2> USE <1>7
  <2>2. /\ LocksApart(c) /\ Exc(c, f)' /\ Holds(c, f)'
        /\ \A g \in File : g # f => lock'[H(c, g)] = lock[H(c, g)]
    BY <1>2, <1>4, RaiseExclusive
  <2> USE <2>2
  <2>3. pc'[c] = "hotopen" /\ loc'[c] = loc[c] /\ F(c)' = f
    BY <1>2, <1>4, Moves
  <2>4. \A g \in File : g # f => (Holds(c, g) => Holds(c, g)') /\ (Res(c, g) <=> Res(c, g)')
    BY LockSame
  <2>5. HoldsInv(c)'
    BY <1>2, <1>4, <2>3, <2>4 DEF HoldsInv, Looking, Playing, Cleaning
  <2>6. WriteInv(c)'
    BY <1>5, <2>3, <2>4 DEF WriteInv, PhaseOne, Playing, Cleaning, Looking
  <2>7. \A g \in File : IsHot(g) /\ Holds(c, g)' => Exc(c, g)' \/ ("hotopen" \in Looking /\ loc[c].f = g)
    <3>1. ASSUME NEW g \in File, IsHot(g), Holds(c, g)', g # f PROVE Exc(c, g)'
      BY <1>3, <3>1, HotKept
    <3> QED BY <3>1
  <2> QED BY <1>2, <1>4, <2>5, <2>6, <2>7, FrontStep
<1>8. CASE /\ Lower(H(c, f), NO_LOCK)
           /\ Goto(c, "next", [loc[c] EXCEPT !.todo = @ \cup {f}, !.f = Null])
  <2>1. PICK l : l = [loc[c] EXCEPT !.todo = @ \cup {f}, !.f = Null]
    OBVIOUS
  <2>2. /\ l \in Local /\ l.todo = loc[c].todo \cup {f} /\ l.f = Null /\ l.write = loc[c].write
        /\ l.open = loc[c].open /\ l.opened = loc[c].opened /\ l.v = loc[c].v /\ l.isHot = loc[c].isHot
        /\ l.zSuper = loc[c].zSuper
    BY <1>2, <1>4, <2>1 DEF Local
  <2> USE <2>2
  <2>3. NO_LOCK \in {NO_LOCK, SHARED_LOCK} /\ NO_LOCK # SHARED_LOCK
    BY SMT DEF NO_LOCK, SHARED_LOCK
  <2>4. /\ lock' \in [Handle -> Level] /\ Exclusion' /\ ~Holds(c, f)' /\ ~Res(c, f)'
        /\ \A d \in Conn, g \in File : d # c \/ g # f => lock'[H(d, g)] = lock[H(d, g)]
    BY <1>2, <1>4, <1>8, <2>3, LowerLock
  <2>5. Goto(c, "next", l)
    BY <1>8, <2>1
  <2> USE <2>5
  <2>6. pc'[c] = "next" /\ loc'[c] = l /\ F(c)' = Null
    BY Moves
  <2> USE <2>6
  <2>7. \A g \in File : g # f => (Holds(c, g) => Holds(c, g)') /\ (Res(c, g) <=> Res(c, g)')
    BY <2>4, LockSame
  <2> USE <2>7
  <2>8. HoldsInv(c)'
    BY <1>2, <1>4 DEF HoldsInv, Looking, Playing, Cleaning
  <2>9. WriteInv(c)'
    BY <1>5, <2>4 DEF WriteInv, PhaseOne, Playing, Cleaning, Looking
  <2>10. \A g \in File : IsHot(g) /\ Holds(c, g)' => Exc(c, g)' \/ ("next" \in Looking /\ l.f = g)
    <3>1. ASSUME NEW g \in File, IsHot(g), Holds(c, g)', g # f PROVE Exc(c, g)'
      BY <1>3, <2>4, <3>1, HotKept
    <3> QED BY <2>4, <3>1
  <2>11. LocksApart(c)
    BY <2>4 DEF LocksApart
  <2> QED BY <2>8, <2>9, <2>10, <2>11, FrontStep
<1> QED BY <1>3, <1>7, <1>8 DEF HotLock

(* Under the EXCLUSIVE lock the journal may be gone: somebody else has     *)
(* played it back.                                                         *)
LEMMA HotOpenGoneInv ==
  ASSUME FiniteSetFacts, IInv, NEW c \in Conn, HotOpen(c), jrnl[F(c)] = Null
  PROVE  IInv'
<1>1. /\ pc[c] = "hotopen" /\ Calm /\ cache' = cache /\ nFault' = nFault
      /\ Types /\ HoldsInv(c) /\ WriteInv(c)
      /\ Lower(H(c, F(c)), SHARED_LOCK) /\ Goto(c, "version", loc[c])
  BY DEF HotOpen, Calm, files, disk, history, IInv, ConnInv
<1> USE <1>1
<1>2. /\ loc[c] \in Local /\ lock \in [Handle -> Level] /\ Exclusion
      /\ loc[c].open \subseteq File /\ loc[c].opened \subseteq File /\ loc[c].write \subseteq File
  BY ConnTypes
<1> USE <1>2
<1>3. PICK f : f = F(c)
  OBVIOUS
<1> USE <1>3
<1>4. /\ f \in File /\ f \notin loc[c].open \cup loc[c].opened /\ loc[c].f = f
      /\ loc[c].opened \subseteq loc[c].write /\ ~loc[c].isHot
      /\ \A g \in loc[c].open : Holds(c, g) /\ g # f
      /\ \A g \in loc[c].opened : Res(c, g) /\ g # f
  BY DEF HoldsInv, Playing, Cleaning, F
<1> USE <1>4
<1>5. /\ loc[c].write \subseteq loc[c].todo \cup loc[c].opened \cup {f}
      /\ \A g \in loc[c].write : Res(c, g) => g \in loc[c].opened \cup {f}
  BY DEF WriteInv
<1>6. pc[c] \in Front /\ pc[c] \notin Looking /\ "version" \in Front \cup {"rollback"}
      /\ "version" \notin {"hot", "hotopen"} /\ "version" \in Labels /\ SHARED_LOCK \in {NO_LOCK, SHARED_LOCK}
  BY DEF Front, Looking, Labels
<1> USE <1>6
<1>7. Lower(H(c, f), SHARED_LOCK)
  OBVIOUS
<1>8. /\ LocksApart(c) /\ ~Res(c, f)' /\ Holds(c, f)'
      /\ \A g \in File : g # f => lock'[H(c, g)] = lock[H(c, g)]
  BY <1>7, LowerTo
<1> USE <1>8
<1>9. pc'[c] = "version" /\ loc'[c] = loc[c] /\ F(c)' = f
  BY Moves
<1> USE <1>9
<1>10. /\ \A g \in File : g # f => (Holds(c, g) => Holds(c, g)') /\ (Res(c, g) => Res(c, g)')
       /\ \A g \in loc[c].write : Res(c, g)' => Res(c, g)
  BY LockSame
<1> USE <1>10
<1>11. HoldsInv(c)'
  BY DEF HoldsInv, Looking, Playing, Cleaning
<1>12. WriteInv(c)'
  BY <1>5 DEF WriteInv, PhaseOne, Playing, Cleaning, Looking
<1>13. \A g \in File : IsHot(g) /\ Holds(c, g)' => Exc(c, g)'
  <2>1. ~IsHot(f)
    BY DEF IsHot
  <2> QED BY <2>1, HotKept
<1> QED BY <1>11, <1>12, <1>13, FrontStep

(* To roll back: the files that are to be restored.                        *)
LEMMA TurnsBack ==
  ASSUME IInv, NEW c \in Conn, NEW l \in Local, Goto(c, "rollback", l), lock' = lock,
         l.todo = Writing(c), l.write = loc[c].write, l.opened = loc[c].opened, l.open = loc[c].open,
         l.isHot = loc[c].isHot, pc[c] \notin Playing \cup Cleaning \cup {"version"}, Writing(c) \subseteq loc[c].opened
  PROVE  HoldsInv(c)' /\ WriteInv(c)'
<1>1. Types /\ HoldsInv(c) /\ "rollback" \in Labels
  BY DEF IInv, ConnInv, Labels
<1> USE <1>1
<1>2. loc[c].open \subseteq File /\ loc[c].opened \subseteq File
  BY ConnTypes
<1>3. pc'[c] = "rollback" /\ loc'[c] = l
  BY Moves
<1> USE <1>3
<1>4. /\ loc[c].opened \subseteq loc[c].write /\ ~loc[c].isHot
      /\ \A g \in loc[c].open : Holds(c, g)
      /\ \A g \in loc[c].opened : Res(c, g)
  BY DEF HoldsInv
<1> USE <1>4
<1>5. \A g \in File : (Holds(c, g) => Holds(c, g)') /\ (Res(c, g) => Res(c, g)')
  BY LockSame
<1>6. l.opened = l.todo
  BY DEF Writing, Res
<1>7. HoldsInv(c)'
  BY <1>2, <1>5 DEF HoldsInv, Looking, Playing, Cleaning
<1>8. WriteInv(c)'
  BY <1>6 DEF WriteInv, PhaseOne, Playing, Cleaning, Looking
<1> QED BY <1>7, <1>8

(* sqlite3RollbackAll turns a transaction back that has not begun to       *)
(* commit.                                                                 *)
LEMMA RollbackAllInv ==
  ASSUME FiniteSetFacts, IInv, NEW c \in Conn, sqlite3RollbackAll(c)
  PROVE  IInv'
<1>1. /\ pc[c] \in {"next", "exclusive"} /\ Calm /\ cache' = cache /\ nFault' = nFault /\ lock' = lock /\ Types
      /\ Goto(c, "rollback", [loc[c] EXCEPT !.todo = Writing(c)]) /\ WriteInv(c)
  BY DEF sqlite3RollbackAll, Calm, files, disk, history, IInv, ConnInv
<1> USE <1>1
<1>2. loc[c] \in Local /\ lock \in [Handle -> Level] /\ Exclusion /\ Writing(c) \subseteq File
      /\ Writing(c) \subseteq loc[c].opened
  BY ConnTypes DEF Writing, WriteInv, Res
<1> USE <1>2
<1>3. PICK l : l = [loc[c] EXCEPT !.todo = Writing(c)]
  OBVIOUS
<1> USE <1>3
<1>4. /\ l \in Local /\ l.todo = Writing(c) /\ l.write = loc[c].write /\ l.f = loc[c].f
      /\ l.open = loc[c].open /\ l.opened = loc[c].opened /\ l.v = loc[c].v /\ l.isHot = loc[c].isHot
      /\ l.zSuper = loc[c].zSuper
  BY DEF Local
<1> USE <1>4
<1>5. Goto(c, "rollback", l)
  OBVIOUS
<1> USE <1>5
<1>6. pc[c] \notin Playing \cup Cleaning \cup {"version"} /\ pc[c] \in Front /\ pc[c] \notin Looking
  BY DEF Playing, Cleaning, Front, Looking
<1> USE <1>6
<1>7. HoldsInv(c)' /\ WriteInv(c)'
  BY TurnsBack
<1>8. \A g \in File : IsHot(g) /\ Holds(c, g)' => Exc(c, g)'
  BY HotKept
<1>9. LocksApart(c)
  BY DEF LocksApart, Exclusion
<1> QED BY <1>7, <1>8, <1>9, FrontStep

(* vdbeCommit begins once every file is open and has its journal.          *)
LEMMA vdbeCommitInv ==
  ASSUME FiniteSetFacts, IInv, NEW c \in Conn, vdbeCommit(c)
  PROVE  IInv'
<1>1. /\ pc[c] = "next" /\ Calm /\ cache' = cache /\ nFault' = nFault /\ lock' = lock /\ Types
      /\ loc[c].todo = {} /\ loc[c].write # {} /\ HoldsInv(c) /\ WriteInv(c)
      /\ Goto(c, "exclusive", [loc[c] EXCEPT !.todo = loc[c].write])
  BY DEF vdbeCommit, Calm, files, disk, history, IInv, ConnInv
<1> USE <1>1
<1>2. /\ loc[c] \in Local /\ lock \in [Handle -> Level] /\ Exclusion /\ loc[c].write \subseteq File
      /\ loc[c].open \subseteq File /\ loc[c].opened \subseteq File
  BY ConnTypes
<1> USE <1>2
<1>3. PICK l : l = [loc[c] EXCEPT !.todo = loc[c].write]
  OBVIOUS
<1> USE <1>3
<1>4. /\ l \in Local /\ l.todo = loc[c].write /\ l.write = loc[c].write /\ l.f = loc[c].f
      /\ l.open = loc[c].open /\ l.opened = loc[c].opened /\ l.v = loc[c].v /\ l.isHot = loc[c].isHot
      /\ l.zSuper = loc[c].zSuper
  BY DEF Local
<1> USE <1>4
<1>5. Goto(c, "exclusive", l) /\ "exclusive" \in Labels /\ "exclusive" \in Front \cup {"rollback"}
  BY DEF Labels, Front
<1> USE <1>5
<1>6. pc'[c] = "exclusive" /\ loc'[c] = l
  BY Moves
<1> USE <1>6
<1>7. pc[c] \in Front /\ pc[c] \notin Looking /\ ~loc[c].isHot
  BY DEF Playing, Cleaning, Front, Looking, HoldsInv
<1> USE <1>7
<1>8. \A g \in File : (Holds(c, g) => Holds(c, g)') /\ (Res(c, g) => Res(c, g)')
  BY LockSame
<1>9. /\ loc[c].opened \subseteq loc[c].write
      /\ \A g \in loc[c].open : Holds(c, g)
      /\ \A g \in loc[c].opened : Res(c, g)
      /\ loc[c].write \subseteq loc[c].opened
  BY DEF HoldsInv, WriteInv
<1> USE <1>9
<1>10. HoldsInv(c)'
  BY <1>8 DEF HoldsInv, Looking, Playing, Cleaning
<1>11. WriteInv(c)'
  BY DEF WriteInv, PhaseOne, Playing, Cleaning, Looking
<1>12. \A g \in File : IsHot(g) /\ Holds(c, g)' => Exc(c, g)'
  BY HotKept
<1>13. LocksApart(c)
  BY DEF LocksApart, Exclusion
<1> QED BY <1>10, <1>11, <1>12, <1>13, FrontStep

(* sqlite3PagerExclusiveLock: the EXCLUSIVE lock on one file of the        *)
(* transaction, or busy.                                                   *)
LEMMA ExclusiveLockInv ==
  ASSUME FiniteSetFacts, IInv, NEW c \in Conn, NEW f \in File, sqlite3PagerExclusiveLock(c, f)
  PROVE  IInv'
<1>1. /\ pc[c] = "exclusive" /\ Calm /\ cache' = cache /\ nFault' = nFault /\ Types
      /\ f \in loc[c].todo /\ HoldsInv(c) /\ WriteInv(c)
  BY DEF sqlite3PagerExclusiveLock, Turn, Calm, files, disk, history, IInv, ConnInv
<1> USE <1>1
<1>2. /\ loc[c] \in Local /\ lock \in [Handle -> Level] /\ Exclusion /\ loc[c].write \subseteq File
      /\ loc[c].open \subseteq File /\ loc[c].opened \subseteq File
  BY ConnTypes
<1>3. /\ "exclusive" \in Labels /\ "exclusive" \in Front \cup {"rollback"} /\ pc[c] \in Front /\ pc[c] \notin Looking
      /\ ~loc[c].isHot
  BY DEF Labels, Front, Looking, HoldsInv, Playing, Cleaning
<1> USE <1>3
<1>4. /\ loc[c].opened \subseteq loc[c].write /\ loc[c].write \subseteq loc[c].opened
      /\ loc[c].todo \subseteq loc[c].write /\ loc[c].write # {}
      /\ \A g \in loc[c].open : Holds(c, g)
      /\ \A g \in loc[c].opened : Res(c, g)
      /\ \A g \in loc[c].write \ loc[c].todo : Exc(c, g)
  BY DEF HoldsInv, WriteInv
<1>5. CASE /\ Raise(H(c, f), EXCLUSIVE_LOCK)
           /\ Goto(c, "exclusive", [loc[c] EXCEPT !.todo = @ \ {f}])
  <2>1. PICK l : l = [loc[c] EXCEPT !.todo = @ \ {f}]
    OBVIOUS
  <2>2. /\ l \in Local /\ l.todo = loc[c].todo \ {f} /\ l.write = loc[c].write /\ l.f = loc[c].f
        /\ l.open = loc[c].open /\ l.opened = loc[c].opened /\ l.v = loc[c].v /\ l.isHot = loc[c].isHot
        /\ l.zSuper = loc[c].zSuper
    BY <1>2, <2>1 DEF Local
  <2> USE <2>2
  <2>3. Goto(c, "exclusive", l)
    BY <1>5, <2>1
  <2> USE <2>3
  <2>4. pc'[c] = "exclusive" /\ loc'[c] = l
    BY Moves
  <2> USE <2>4
  <2>5. /\ LocksApart(c) /\ Exc(c, f)' /\ Res(c, f)' /\ Holds(c, f)'
        /\ \A g \in File : g # f => lock'[H(c, g)] = lock[H(c, g)]
    BY <1>2, <1>5, RaiseExclusive
  <2> USE <2>5
  <2>6. \A g \in File : /\ (Holds(c, g) => Holds(c, g)') /\ (Res(c, g) => Res(c, g)')
                        /\ (Exc(c, g) => Exc(c, g)')
    BY LockSame
  <2> USE <2>6
  <2>7. HoldsInv(c)'
    BY <1>2, <1>4 DEF HoldsInv, Looking, Playing, Cleaning
  <2>8. WriteInv(c)'
    <3>1. \A g \in l.write \ l.todo : Exc(c, g)'
      BY <1>2, <1>4
    <3> QED BY <1>4, <3>1 DEF WriteInv, PhaseOne, Playing, Cleaning, Looking
  <2>9. \A g \in File : IsHot(g) /\ Holds(c, g)' => Exc(c, g)'
    BY HotKept
  <2> QED BY <2>7, <2>8, <2>9, FrontStep
<1>6. CASE Raise(H(c, f), PENDING_LOCK) /\ pc' = pc /\ loc' = loc
  <2> USE <1>6
  <2>1. Goto(c, "exclusive", loc[c])
    BY DEF Goto, Types, TypeOK
  <2>2. pc'[c] = "exclusive" /\ loc'[c] = loc[c]
    OBVIOUS
  <2> USE <2>2
  <2>3. PENDING_LOCK \in {RESERVED_LOCK, PENDING_LOCK}
    OBVIOUS
  <2>4. /\ LocksApart(c) /\ Res(c, f)' /\ Holds(c, f)' /\ Holds(c, f) /\ ~Exc(c, f)
        /\ \A g \in File : g # f => lock'[H(c, g)] = lock[H(c, g)]
    BY <1>2, <2>3, RaiseReserved
  <2> USE <2>4
  <2>5. \A g \in File : /\ (Holds(c, g) => Holds(c, g)') /\ (Res(c, g) => Res(c, g)')
                        /\ (Exc(c, g) => Exc(c, g)')
    BY LockSame
  <2> USE <2>5
  <2>6. HoldsInv(c)'
    BY <1>2, <1>4 DEF HoldsInv, Looking, Playing, Cleaning
  <2>7. WriteInv(c)'
    <3>1. \A g \in loc[c].write \ loc[c].todo : Exc(c, g)'
      BY <1>2, <1>4
    <3> QED BY <1>4, <3>1 DEF WriteInv, PhaseOne, Playing, Cleaning, Looking
  <2>8. \A g \in File : IsHot(g) /\ Holds(c, g)' => Exc(c, g)'
    BY HotKept, NotHot
  <2> QED BY <1>2, <2>1, <2>6, <2>7, <2>8, FrontStep
<1> QED BY <1>5, <1>6 DEF sqlite3PagerExclusiveLock

(* sqlite3PagerBegin: the RESERVED lock on a file to be written, or busy.  *)
LEMMA PagerBeginInv ==
  ASSUME FiniteSetFacts, IInv, NEW c \in Conn, sqlite3PagerBegin(c)
  PROVE  IInv'
<1>1. /\ pc[c] = "reserve" /\ Calm /\ cache' = cache /\ nFault' = nFault /\ Types /\ HoldsInv(c) /\ WriteInv(c)
  BY DEF sqlite3PagerBegin, Calm, files, disk, history, IInv, ConnInv
<1> USE <1>1
<1>2. /\ loc[c] \in Local /\ lock \in [Handle -> Level] /\ Exclusion /\ loc[c].write \subseteq File
      /\ loc[c].open \subseteq File /\ loc[c].opened \subseteq File /\ Writing(c) \subseteq File
  BY ConnTypes DEF Writing
<1>3. PICK f : f = F(c)
  OBVIOUS
<1>4. /\ f \in File /\ loc[c].f = f /\ f \in loc[c].open /\ f \in loc[c].write /\ f \notin loc[c].opened
      /\ Holds(c, f) /\ ~Res(c, f) /\ loc[c].opened \subseteq loc[c].write /\ ~loc[c].isHot
      /\ \A g \in loc[c].open : Holds(c, g)
      /\ \A g \in loc[c].opened : Res(c, g)
  BY <1>3 DEF HoldsInv, Looking, Playing, Cleaning, F
<1>5. /\ loc[c].write \subseteq loc[c].todo \cup loc[c].opened \cup {f}
      /\ \A g \in loc[c].write : Res(c, g) => g \in loc[c].opened \cup {f}
      /\ Writing(c) \subseteq loc[c].opened
  <2>1. /\ loc[c].write \subseteq loc[c].todo \cup loc[c].opened \cup {f}
        /\ \A g \in loc[c].write : Res(c, g) => g \in loc[c].opened \cup {f}
    BY <1>3 DEF WriteInv
  <2> QED BY <1>4, <2>1 DEF Writing, Res
<1>6. pc[c] \in Front /\ pc[c] \notin Looking /\ "journal" \in Labels /\ "next" \in Labels
      /\ "journal" \in Front \cup {"rollback"} /\ "next" \in Front \cup {"rollback"}
      /\ pc[c] \notin Playing \cup Cleaning \cup {"version"}
  BY DEF Front, Looking, Labels, Playing, Cleaning
<1> USE <1>6
<1>7. CASE Raise(H(c, f), RESERVED_LOCK) /\ Goto(c, "journal", loc[c])
  <2> USE <1>7
  <2>1. RESERVED_LOCK \in {RESERVED_LOCK, PENDING_LOCK}
    OBVIOUS
  <2>2. /\ LocksApart(c) /\ Res(c, f)' /\ Holds(c, f)' /\ Holds(c, f) /\ ~Exc(c, f) /\ ~Exc(c, f)'
        /\ \A g \in File : g # f => lock'[H(c, g)] = lock[H(c, g)]
    BY <1>2, <1>4, <2>1, RaiseReserved
  <2> USE <2>2
  <2>3. pc'[c] = "journal" /\ loc'[c] = loc[c] /\ F(c)' = f
    BY <1>2, <1>4, Moves
  <2> USE <2>3
  <2>4. /\ \A g \in File : (Holds(c, g) => Holds(c, g)') /\ (Res(c, g) => Res(c, g)')
        /\ \A g \in loc[c].write : Res(c, g)' => Res(c, g) \/ g = f
    BY <1>2, LockSame
  <2> USE <2>4
  <2>5. HoldsInv(c)'
    BY <1>2, <1>4 DEF HoldsInv, Looking, Playing, Cleaning
  <2>6. WriteInv(c)'
    BY <1>5 DEF WriteInv, PhaseOne, Playing, Cleaning, Looking
  <2>7. \A g \in File : IsHot(g) /\ Holds(c, g)' => Exc(c, g)'
    BY HotKept, NotHot
  <2> QED BY <1>2, <2>5, <2>6, <2>7, FrontStep
<1>8. CASE lock' = lock /\ Goto(c, "rollback", [[loc[c] EXCEPT !.f = Null] EXCEPT !.todo = Writing(c)])
  <2> USE <1>8
  <2>1. PICK l : l = [[loc[c] EXCEPT !.f = Null] EXCEPT !.todo = Writing(c)]
    OBVIOUS
  <2> USE <2>1
  <2>2. /\ l \in Local /\ l.todo = Writing(c) /\ l.write = loc[c].write
        /\ l.open = loc[c].open /\ l.opened = loc[c].opened /\ l.v = loc[c].v /\ l.isHot = loc[c].isHot
        /\ l.zSuper = loc[c].zSuper
    BY <1>2 DEF Local
  <2> USE <2>2
  <2>3. Goto(c, "rollback", l)
    OBVIOUS
  <2> USE <2>3
  <2>4. HoldsInv(c)' /\ WriteInv(c)'
    BY <1>5, TurnsBack
  <2>5. \A g \in File : IsHot(g) /\ Holds(c, g)' => Exc(c, g)'
    BY HotKept
  <2>6. LocksApart(c)
    BY <1>2 DEF LocksApart, Exclusion
  <2> QED BY <2>4, <2>5, <2>6, FrontStep
<1>9. CASE /\ Lower(H(c, f), NO_LOCK)
           /\ Goto(c, "next", [[loc[c] EXCEPT !.f = Null] EXCEPT !.todo = @ \cup {f}, !.open = @ \ {f}])
  <2>1. PICK l : l = [[loc[c] EXCEPT !.f = Null] EXCEPT !.todo = @ \cup {f}, !.open = @ \ {f}]
    OBVIOUS
  <2>2. /\ l \in Local /\ l.todo = loc[c].todo \cup {f} /\ l.write = loc[c].write
        /\ l.open = loc[c].open \ {f} /\ l.opened = loc[c].opened /\ l.v = loc[c].v /\ l.isHot = loc[c].isHot
        /\ l.zSuper = loc[c].zSuper
    BY <1>2, <1>4, <2>1 DEF Local
  <2> USE <2>2
  <2>3. Goto(c, "next", l) /\ NO_LOCK \in {NO_LOCK, SHARED_LOCK}
    BY <1>9, <2>1
  <2> USE <2>3
  <2>4. pc'[c] = "next" /\ loc'[c] = l
    BY Moves
  <2> USE <2>4
  <2>5. /\ LocksApart(c) /\ ~Holds(c, f)' /\ ~Res(c, f)'
        /\ \A g \in File : g # f => lock'[H(c, g)] = lock[H(c, g)]
    BY <1>2, <1>4, <1>9, LowerTo
  <2> USE <2>5
  <2>6. /\ \A g \in File : g # f => (Holds(c, g) => Holds(c, g)') /\ (Res(c, g) => Res(c, g)')
        /\ \A g \in loc[c].write : Res(c, g)' => Res(c, g) /\ g # f
    BY <1>2, LockSame
  <2> USE <2>6
  <2>7. HoldsInv(c)'
    BY <1>2, <1>4 DEF HoldsInv, Looking, Playing, Cleaning
  <2>8. WriteInv(c)'
    BY <1>5 DEF WriteInv, PhaseOne, Playing, Cleaning, Looking
  <2>9. \A g \in File : IsHot(g) /\ Holds(c, g)' => Exc(c, g)'
    BY HotKept
  <2> QED BY <2>7, <2>8, <2>9, FrontStep
<1>10. \/ Raise(H(c, f), RESERVED_LOCK) /\ Goto(c, "journal", loc[c])
       \/ lock' = lock /\ Goto(c, "rollback", [[loc[c] EXCEPT !.f = Null] EXCEPT !.todo = Writing(c)])
       \/ /\ Lower(H(c, f), NO_LOCK)
          /\ Goto(c, "next", [[loc[c] EXCEPT !.f = Null] EXCEPT !.todo = @ \cup {f}, !.open = @ \ {f}])
  BY <1>3 DEF sqlite3PagerBegin
<1> QED BY <1>7, <1>8, <1>9, <1>10

(* An I/O error anywhere in phase one turns the whole transaction back,    *)
(* also where journals are hot already.                                    *)
LEMMA CommitIOErrorInv ==
  ASSUME FiniteSetFacts, NoStaleName, IInv, NEW c \in Conn, CommitIOError(c)
  PROVE  IInv'
<1>1. /\ pc[c] \in {"exclusive", "phaseone", "syncjournal", "writelist", "syncdb", "deletesuper"}
      /\ Calm /\ cache' = cache /\ lock' = lock /\ Types /\ Fault("ioerr") /\ scenario' = scenario
      /\ Goto(c, "rollback", [loc[c] EXCEPT !.todo = Writing(c), !.f = Null]) /\ CleanInv(c) /\ WriteInv(c)
  BY DEF CommitIOError, Calm, files, disk, history, IInv, ConnInv
<1> USE <1>1
<1>2. loc[c] \in Local /\ lock \in [Handle -> Level] /\ Exclusion /\ Writing(c) \subseteq File
      /\ Writing(c) \subseteq loc[c].opened
  BY ConnTypes DEF Writing, WriteInv, PhaseOne
<1> USE <1>2
<1>3. PICK l : l = [loc[c] EXCEPT !.todo = Writing(c), !.f = Null]
  OBVIOUS
<1> USE <1>3
<1>4. /\ l \in Local /\ l.todo = Writing(c) /\ l.write = loc[c].write
      /\ l.open = loc[c].open /\ l.opened = loc[c].opened /\ l.v = loc[c].v /\ l.isHot = loc[c].isHot
      /\ l.zSuper = loc[c].zSuper
  BY DEF Local
<1> USE <1>4
<1>5. Goto(c, "rollback", l) /\ "rollback" \in Labels \ (Committing \cup Playing \cup Cleaning)
      /\ "rollback" \notin {"hot", "hotopen"}
  BY DEF Labels, Committing, PhaseOne, Playing, Cleaning
<1> USE <1>5
<1>6. /\ pc[c] \notin Playing \cup Cleaning \cup {"version"} /\ pc[c] \notin Playing \cup Cleaning
      /\ pc[c] \notin Looking /\ pc[c] # "phasetwo"
  BY DEF Playing, Cleaning, Looking
<1> USE <1>6
<1>7. HoldsInv(c)' /\ WriteInv(c)'
  BY TurnsBack
<1>8. \A g \in File : IsHot(g) /\ Holds(c, g)' => Exc(c, g)'
  BY HotKept
<1>9. LocksApart(c)
  BY DEF LocksApart, Exclusion
<1>10. ~PowerAhead' /\ nFault' \in Nat
  BY FaultEnds
<1>11. loc[c].zSuper = Null
  BY DEF CleanInv, Cleaning
<1> QED BY <1>7, <1>8, <1>9, <1>10, <1>11, PlainStep

(* The end of a transaction whose journals are finalised.                  *)
LEMMA GoesIdle ==
  ASSUME FiniteSetFacts, IInv, NEW c \in Conn, Calm, cache' = cache, nFault' = nFault, Drop({c} \X File), Goto(c, "idle", NoTx),
         loc[c].opened = {}, pc[c] \in {"next", "rollback"}
  PROVE  IInv'
<1>1. Types /\ nFault \in Nat
  BY DEF IInv, Types
<1> USE <1>1
<1>2. /\ NoTx \in Local /\ NoTx.opened = {} /\ NoTx.open = {} /\ NoTx.v = 0 /\ NoTx.zSuper = Null /\ NoTx.write = {}
  BY NoTxFields
<1> USE <1>2
<1>3. "idle" \in Labels /\ "idle" \in Labels \ (Committing \cup Playing \cup Cleaning) /\ "idle" \notin {"hot", "hotopen"}
  BY DEF Labels, Committing, PhaseOne, Playing, Cleaning
<1> USE <1>3
<1>4. pc'[c] = "idle" /\ loc'[c] = NoTx
  BY Moves
<1>5. LocksApart(c) /\ \A g \in File : ~Holds(c, g)'
  BY DropOwn
<1> USE <1>5
<1>6. HoldsInv(c)' /\ WriteInv(c)'
  BY <1>4, IdleInv
<1>7. pc[c] \notin Committing /\ pc[c] \notin Playing \cup Cleaning /\ pc[c] # "phasetwo"
  BY DEF Committing, PhaseOne, Playing, Cleaning
<1>8. (PowerAhead' => PowerAhead) /\ nFault' \in Nat
  BY SameFaults DEF Calm
<1> QED BY <1>6, <1>7, <1>8, PlainStep

(* A transaction that has nothing left to do gives its locks back.         *)
LEMMA EndReadInv ==
  ASSUME FiniteSetFacts, IInv, NEW c \in Conn, EndRead(c)
  PROVE  IInv'
<1>1. /\ pc[c] = "next" /\ Calm /\ cache' = cache /\ nFault' = nFault /\ Drop({c} \X File) /\ Goto(c, "idle", NoTx)
      /\ loc[c].write = {}
  BY DEF EndRead, Calm, files, disk, history
<1> USE <1>1
<1>2. loc[c].opened = {}
  BY DEF IInv, ConnInv, HoldsInv
<1> QED BY <1>2, GoesIdle

(* A transaction whose journals are all rolled back gives its locks back.  *)
LEMMA RolledBackInv ==
  ASSUME FiniteSetFacts, IInv, NEW c \in Conn, RolledBack(c)
  PROVE  IInv'
<1>1. /\ pc[c] = "rollback" /\ Calm /\ cache' = cache /\ nFault' = nFault /\ Drop({c} \X File) /\ Goto(c, "idle", NoTx)
      /\ loc[c].todo = {}
  BY DEF RolledBack, Calm, files, disk, history
<1> USE <1>1
<1>2. loc[c].opened = {}
  BY DEF IInv, ConnInv, WriteInv
<1> QED BY <1>2, GoesIdle

-----------------------------------------------------------------------------
(* Steps of a rollback or a playback that change no file.                  *)

(* A step that changes no file, with the page cache of the connection.     *)
LEMMA CalmStep ==
  ASSUME FiniteSetFacts, IInv, NEW c \in Conn, NEW l \in Local, NEW label \in Labels, Goto(c, label, l),
         Calm, LocksApart(c), nFault' \in Nat, TxKept(c),
         cache' \in [Conn -> [File -> Version \cup {Null, Torn}]], \A d \in Conn : d # c => cache'[d] = cache[d],
         \A g \in File : IsHot(g) /\ Holds(c, g)' => Exc(c, g)' \/ (label \in Looking /\ l.f = g),
         pc[c] = "phasetwo" /\ Multi(c) => Delete,
         PowerAhead' => PowerAhead /\ pc[c] \notin Committing /\ l.zSuper = Null,
         label \notin PhaseOne, l.opened \subseteq loc[c].opened,
         ConnInv(c)'
  PROVE  IInv'
<1>1. /\ db' = db /\ jrnl' = jrnl /\ super' = super /\ dbDisk' = dbDisk /\ jrnlDisk' = jrnlDisk
      /\ superDisk' = superDisk /\ current' = current /\ durable' = durable /\ scenario' = scenario
      /\ nTx' = nTx /\ calls' = calls
      /\ lock' \in [Handle -> Level] /\ Exclusion'
      /\ \A d \in Conn : d # c => \A f \in File : lock'[H(d, f)] = lock[H(d, f)]
  BY DEF Calm, LocksApart
<1> USE <1>1
<1>2. /\ pc' \in [Conn -> Labels] /\ loc' \in [Conn -> Local]
      /\ pc'[c] = label /\ loc'[c] = l /\ F(c)' = l.f
      /\ \A d \in Conn : d # c => pc'[d] = pc[d] /\ loc'[d] = loc[d]
  BY Moves DEF IInv
<1> USE <1>2
<1>3. Apart(c)
  BY DEF Apart
<1>4. Types'
  <2>1. Types /\ nTx \in 0 .. MaxTx /\ calls \in [Conn -> Nat]
    BY DEF IInv, Types
  <2> QED BY <2>1, TypesQuiet
<1>5. PowerAhead' => PowerAhead /\ pc[c] \notin Committing /\ loc'[c].zSuper = Null
  OBVIOUS
<1>6. \A g \in File : IsHot(g) /\ Holds(c, g)' => Exc(c, g)' \/ (pc'[c] \in Looking /\ F(c)' = g)
  OBVIOUS
<1>7. pc'[c] \notin PhaseOne /\ loc'[c].opened \subseteq loc[c].opened
  OBVIOUS
<1> QED BY <1>3, <1>4, <1>5, <1>6, <1>7, QuietInv

(* What a connection keeps of its journals and its page cache.             *)
LEMMA OwnKept ==
  ASSUME Calm, NEW c \in Conn, NEW f \in File, cache'[c][f] = cache[c][f]
  PROVE  /\ OwnJournal(c, f) => OwnJournal(c, f)'
         /\ Stale(c, f) => Stale(c, f)'
  BY DEF Calm, OwnJournal, IsGone, Gone, Stale

(* sqlite3PagerRollback turns to one file of the transaction, with its     *)
(* journal or without.                                                     *)
LEMMA PagerRollbackInv ==
  ASSUME FiniteSetFacts, IInv, NEW c \in Conn, NEW f \in File, sqlite3PagerRollback(c, f)
  PROVE  IInv'
<1>1. /\ pc[c] = "rollback" /\ Calm /\ cache' = cache /\ nFault' = nFault /\ Types /\ scenario' = scenario
      /\ f \in loc[c].todo /\ HoldsInv(c) /\ WriteInv(c) /\ JournalInv(c) /\ CacheInv(c) /\ CleanInv(c)
      /\ cache \in [Conn -> [File -> Version \cup {Null, Torn}]] /\ nFault \in Nat
  BY DEF sqlite3PagerRollback, Turn, Calm, files, disk, history, IInv, ConnInv, Types, TypeOK
<1> USE <1>1
<1>2. /\ loc[c] \in Local /\ lock \in [Handle -> Level] /\ Exclusion
      /\ loc[c].open \subseteq File /\ loc[c].opened \subseteq File
  BY ConnTypes
<1>3. /\ loc[c].opened \subseteq loc[c].write /\ loc[c].opened = loc[c].todo /\ ~loc[c].isHot
      /\ \A g \in loc[c].open : Holds(c, g)
      /\ \A g \in loc[c].opened : Res(c, g)
      /\ loc[c].zSuper = Null /\ pc[c] \notin Looking
  BY DEF HoldsInv, WriteInv, CleanInv, Playing, Cleaning, Looking
<1>4. /\ "playback" \in Labels /\ "playback" \notin PhaseOne /\ "rollback" \in Labels /\ pc[c] \notin Committing /\ pc[c] # "phasetwo"
      /\ pc[c] \notin Playing \cup Cleaning
      /\ "rollback" \in Labels \ (Committing \cup Playing \cup Cleaning) /\ "rollback" \notin {"hot", "hotopen"}
  BY DEF Labels, Committing, PhaseOne, Playing, Cleaning
<1> USE <1>4
<1>5. PowerAhead' => PowerAhead
  BY SameFaults
<1>6. CASE /\ f \in loc[c].opened /\ lock' = lock
           /\ Goto(c, "playback", [loc[c] EXCEPT !.todo = @ \ {f}, !.opened = @ \ {f}, !.open = @ \ {f}, !.f = f])
  <2>1. PICK l : l = [loc[c] EXCEPT !.todo = @ \ {f}, !.opened = @ \ {f}, !.open = @ \ {f}, !.f = f]
    OBVIOUS
  <2>2. /\ l \in Local /\ l.todo = loc[c].todo \ {f} /\ l.write = loc[c].write /\ l.f = f
        /\ l.open = loc[c].open \ {f} /\ l.opened = loc[c].opened \ {f} /\ l.v = loc[c].v /\ l.isHot = loc[c].isHot
        /\ l.zSuper = loc[c].zSuper
    BY <1>2, <2>1 DEF Local
  <2> USE <2>2
  <2>3. Goto(c, "playback", l)
    BY <1>6, <2>1
  <2> USE <2>3
  <2>4. pc'[c] = "playback" /\ loc'[c] = l /\ F(c)' = f
    BY Moves
  <2> USE <2>4
  <2>5. \A g \in File : (Holds(c, g) => Holds(c, g)') /\ (Res(c, g) => Res(c, g)')
    BY <1>6, LockSame
  <2>6. HoldsInv(c)'
    BY <1>2, <1>3, <1>6, <2>5 DEF HoldsInv, Looking, Playing, Cleaning
  <2>7. WriteInv(c)'
    BY <1>3 DEF WriteInv, PhaseOne, Playing, Cleaning, Looking
  <2>8. \A g \in loc[c].opened : OwnJournal(c, g)'
    BY <1>2, OwnKept DEF JournalInv
  <2> USE <2>8
  <2>9. JournalInv(c)'
    <3>1. jrnl'[f] # Null
      BY <1>6 DEF OwnJournal
    <3> QED BY <1>3, <1>6, <3>1 DEF JournalInv, Playing
  <2>10. CommitInv(c)'
    BY DEF CommitInv, PhaseOne
  <2>11. CleanInv(c)'
    BY <1>3 DEF CleanInv, Cleaning
  <2>12. CacheInv(c)'
    <3>1. \A g \in File : g \notin loc[c].opened => cache'[c][g] # Torn /\ Stale(c, g)'
      BY OwnKept DEF CacheInv, Restoring
    <3>2. \A g \in loc[c].open \ loc[c].opened : cache'[c][g] = current'[g]
      BY DEF CacheInv, Calm
    <3>3. Restoring(c, f)'
      BY <1>3 DEF Restoring
    <3> QED BY <3>1, <3>2, <3>3 DEF CacheInv
  <2>13. ConnInv(c)'
    BY <2>6, <2>7, <2>9, <2>10, <2>11, <2>12 DEF ConnInv
  <2>14. TxKept(c)
    BY <1>3 DEF TxKept, Calm, Active, Undoing, Playing
  <2>15. \A g \in File : IsHot(g) /\ Holds(c, g)' => Exc(c, g)'
    BY <1>3, <1>6, HotKept
  <2>16. LocksApart(c)
    BY <1>2, <1>6 DEF LocksApart, Exclusion
  <2> QED BY <1>3, <1>5, <2>13, <2>14, <2>15, <2>16, CalmStep
<1> QED BY <1>3, <1>6 DEF sqlite3PagerRollback

(* pager_delsuper gives up, or has done its work.                          *)
LEMMA AfterCleaning ==
  ASSUME FiniteSetFacts, IInv, NEW c \in Conn, pc[c] \in Cleaning, Calm, nFault' = nFault, lock' = lock, AfterPlayback(c),
         cache' = cache \/ SetCache(c, F(c), Null)
  PROVE  IInv'
<1>1. /\ Types /\ lock \in [Handle -> Level] /\ Exclusion /\ nFault \in Nat
      /\ cache \in [Conn -> [File -> Version \cup {Null, Torn}]]
  BY DEF IInv, Types, TypeOK
<1> USE <1>1
<1>2. /\ F(c) \in File /\ Holds(c, F(c)) /\ ~Res(c, F(c)) /\ F(c) \notin loc[c].open \cup loc[c].opened
      /\ \A f \in loc[c].opened : f \in File /\ OwnJournal(c, f)
      /\ \A f \in File : f \notin loc[c].opened => cache[c][f] # Torn /\ Stale(c, f)
      /\ \A f \in loc[c].open \ loc[c].opened : f \in File /\ cache[c][f] = current[f]
      /\ pc[c] \notin Looking /\ pc[c] \notin Committing /\ pc[c] # "phasetwo" /\ ~PowerAhead
  BY CleaningFacts
<1> USE <1>2
<1>3. PICK f \in File : f = F(c)
  OBVIOUS
<1> USE <1>3
<1>4. /\ cache' \in [Conn -> [File -> Version \cup {Null, Torn}]] /\ \A d \in Conn : d # c => cache'[d] = cache[d]
      /\ \A g \in File : g # f => cache'[c][g] = cache[c][g]
      /\ cache'[c][f] = cache[c][f] \/ cache'[c][f] = Null
  <2>1. CASE cache' = cache
    BY <2>1
  <2>2. CASE SetCache(c, F(c), Null)
    <3>1. SetCache(c, f, Null) /\ Null \in Version \cup {Null, Torn}
      BY <2>2
    <3> QED BY <3>1, CacheSet
  <2> QED BY <2>1, <2>2
<1> USE <1>4
<1>5. \A g \in File : g # f => (OwnJournal(c, g) => OwnJournal(c, g)') /\ (Stale(c, g) => Stale(c, g)')
  BY OwnKept
<1> USE <1>5
<1>6. \A g \in loc[c].opened : OwnJournal(c, g)'
  OBVIOUS
<1>7. cache'[c][f] # Torn /\ Stale(c, f)'
  <2>1. CASE cache'[c][f] = cache[c][f]
    BY <2>1, OwnKept
  <2>2. CASE cache'[c][f] = Null
    BY <2>2, Marks DEF Stale
  <2> QED BY <2>1, <2>2
<1>8. /\ \A g \in File : g \notin loc[c].opened => cache'[c][g] # Torn /\ Stale(c, g)'
      /\ \A g \in loc[c].open \ loc[c].opened : cache'[c][g] = current'[g]
  BY <1>7 DEF Calm
<1>9. Holds(c, f)' /\ ~Res(c, f)'
  BY LockSame
<1>10. nTx' = nTx /\ (PowerAhead' <=> PowerAhead) /\ pc[c] \in {"endplayback"} \cup Cleaning
       /\ \A g \in File : g # f => lock'[H(c, g)] = lock[H(c, g)]
  BY SameFaults DEF Calm
<1> USE <1>10
<1>11. /\ ConnInv(c)' /\ TxKept(c)
       /\ \E label \in {"version", "rollback"}, l \in Local :
            Goto(c, label, l) /\ l.zSuper = Null /\ l.opened = loc[c].opened
  BY <1>6, <1>8, <1>9, AfterPlaybackConn
<1> USE <1>11
<1>12. PICK label \in {"version", "rollback"}, l \in Local :
         Goto(c, label, l) /\ l.zSuper = Null /\ l.opened = loc[c].opened
  OBVIOUS
<1>13. \A g \in File : IsHot(g) /\ Holds(c, g)' => Exc(c, g)'
  BY HotKept
<1>14. LocksApart(c) /\ label \in Labels /\ label \notin PhaseOne
  BY DEF LocksApart, Exclusion, Labels, PhaseOne
<1> QED BY <1>12, <1>13, <1>14, CalmStep

(* pager_delsuper fails.                                                   *)
LEMMA PlaybackFailsInv ==
  ASSUME FiniteSetFacts, IInv, NEW c \in Conn, pc[c] \in Cleaning, Calm, nFault' = nFault, PlaybackFails(c)
  PROVE  IInv'
<1>1. CASE ~loc[c].isHot
  BY <1>1, AfterCleaning DEF PlaybackFails
<1>2. CASE loc[c].isHot
  <2>1. /\ Types /\ lock \in [Handle -> Level] /\ Exclusion /\ nFault \in Nat /\ HoldsInv(c) /\ WriteInv(c)
    BY DEF IInv, Types, TypeOK, ConnInv
  <2>2. /\ F(c) \in File /\ Holds(c, F(c)) /\ ~Res(c, F(c)) /\ F(c) \notin loc[c].open \cup loc[c].opened
        /\ \A f \in loc[c].opened : f \in File /\ OwnJournal(c, f)
        /\ \A f \in File : f \notin loc[c].opened => cache[c][f] # Torn /\ Stale(c, f)
        /\ \A f \in loc[c].open \ loc[c].opened : f \in File /\ cache[c][f] = current[f]
        /\ pc[c] \notin Looking /\ pc[c] \notin Committing /\ pc[c] # "phasetwo" /\ ~PowerAhead
    BY CleaningFacts
  <2>3. PICK f \in File : f = F(c)
    BY <2>2
  <2>4. /\ SetCache(c, f, Null) /\ Lower(H(c, f), NO_LOCK)
        /\ Goto(c, "rollback", [loc[c] EXCEPT !.todo = Writing(c), !.isHot = FALSE,
                                              !.zSuper = Null, !.journalOff = FALSE, !.others = {}, !.g = Null,
                                              !.f = Null])
    BY <1>2, <2>3 DEF PlaybackFails
  <2>5. /\ loc[c] \in Local /\ loc[c].open \subseteq File /\ loc[c].opened \subseteq File /\ loc[c].write \subseteq File
        /\ Writing(c) \subseteq File
    BY <2>1, ConnTypes DEF Writing
  <2>6. PICK l : l = [loc[c] EXCEPT !.todo = Writing(c), !.isHot = FALSE, !.zSuper = Null, !.journalOff = FALSE,
                                    !.others = {}, !.g = Null, !.f = Null]
    OBVIOUS
  <2>7. FALSE \in BOOLEAN
    OBVIOUS
  <2>8. /\ l \in Local /\ l.todo = Writing(c) /\ l.write = loc[c].write /\ l.open = loc[c].open
        /\ l.opened = loc[c].opened /\ l.v = loc[c].v /\ ~l.isHot /\ l.zSuper = Null
    BY <2>5, <2>6, <2>7 DEF Local
  <2>9. Goto(c, "rollback", l) /\ "rollback" \in Labels /\ NO_LOCK \in {NO_LOCK, SHARED_LOCK}
        /\ Null \in Version \cup {Null, Torn} /\ "rollback" \notin PhaseOne
    BY <2>4, <2>6 DEF Labels, PhaseOne
  <2>10. pc'[c] = "rollback" /\ loc'[c] = l
    BY <2>1, <2>8, <2>9, Moves
  <2>11. /\ LocksApart(c) /\ ~Holds(c, f)'
         /\ \A g \in File : g # f => lock'[H(c, g)] = lock[H(c, g)]
    BY <2>1, <2>4, <2>9, LowerTo
  <2>12. /\ cache' \in [Conn -> [File -> Version \cup {Null, Torn}]] /\ cache'[c][f] = Null
         /\ \A g \in File : g # f => cache'[c][g] = cache[c][g]
         /\ \A d \in Conn : d # c => cache'[d] = cache[d]
    BY <2>1, <2>4, <2>9, CacheSet
  <2>13. \A g \in File : g # f => (Holds(c, g) => Holds(c, g)') /\ (Res(c, g) => Res(c, g)')
    BY <2>11, LockSame
  <2>14. HoldsInv(c)'
    <3>1. loc[c].opened \subseteq loc[c].write /\ (\A g \in loc[c].open : Holds(c, g)) /\ (\A g \in loc[c].opened : Res(c, g))
      BY <2>1 DEF HoldsInv
    <3> QED BY <2>2, <2>3, <2>5, <2>8, <2>10, <2>13, <3>1 DEF HoldsInv, Looking, Playing, Cleaning
  <2>15. WriteInv(c)'
    <3>1. \A g \in loc[c].write : Res(c, g) => g \in loc[c].opened
      <4>1. \A g \in loc[c].write : Res(c, g) => g \in loc[c].opened \cup {f}
        BY <1>2, <2>1, <2>3 DEF WriteInv
      <4> QED BY <2>2, <2>3, <4>1
    <3>2. loc[c].opened \subseteq loc[c].write /\ \A g \in loc[c].opened : Res(c, g)
      BY <2>1 DEF HoldsInv
    <3>3. Writing(c) = loc[c].opened
      BY <3>1, <3>2 DEF Writing, Res
    <3> QED BY <2>8, <2>10, <3>3 DEF WriteInv, PhaseOne, Playing, Cleaning, Looking
  <2>16. \A g \in File : g # f => (OwnJournal(c, g) => OwnJournal(c, g)') /\ (Stale(c, g) => Stale(c, g)')
    BY <2>12, OwnKept
  <2>17. JournalInv(c)'
    BY <2>2, <2>3, <2>8, <2>10, <2>16 DEF JournalInv, Playing
  <2>18. CommitInv(c)'
    BY <2>10 DEF CommitInv, PhaseOne
  <2>19. CleanInv(c)'
    BY <2>8, <2>10 DEF CleanInv, Cleaning
  <2>20. CacheInv(c)'
    <3>1. cache'[c][f] # Torn /\ Stale(c, f)'
      BY <2>12, Marks DEF Stale
    <3>2. /\ \A g \in File : g \notin loc[c].opened => cache'[c][g] # Torn /\ Stale(c, g)'
          /\ \A g \in loc[c].open \ loc[c].opened : cache'[c][g] = current'[g]
      BY <2>2, <2>3, <2>12, <2>16, <3>1 DEF Calm
    <3> QED BY <2>8, <2>10, <3>2 DEF CacheInv
  <2>21. ConnInv(c)'
    BY <2>14, <2>15, <2>17, <2>18, <2>19, <2>20 DEF ConnInv
  <2>22. TxKept(c)
    BY <2>8, <2>10 DEF TxKept, Calm, Active, Undoing
  <2>23. \A g \in File : IsHot(g) /\ Holds(c, g)' => Exc(c, g)'
    BY <2>2, <2>11, HotKept
  <2>24. (PowerAhead' <=> PowerAhead) /\ nFault' \in Nat
    BY <2>1, SameFaults DEF Calm
  <2> QED BY <2>2, <2>8, <2>9, <2>11, <2>12, <2>21, <2>22, <2>23, <2>24, CalmStep
<1> QED BY <1>1, <1>2

(* A step within pager_delsuper.                                           *)
LEMMA CleanStays ==
  ASSUME FiniteSetFacts, IInv, NEW c \in Conn, pc[c] \in Cleaning, NEW label \in {"delother", "delread"}, NEW l \in Local,
         Goto(c, label, l), Calm, nFault' = nFault, lock' = lock, cache' = cache,
         l.todo = loc[c].todo, l.write = loc[c].write, l.open = loc[c].open, l.opened = loc[c].opened, l.f = loc[c].f,
         l.v = loc[c].v, l.isHot = loc[c].isHot, l.zSuper = loc[c].zSuper,
         label = "delread" => l.g \in File,
         \A f \in File : Names(f, l.zSuper) => super[l.zSuper] = Null \/ f \in l.others \/ (label = "delread" /\ f = l.g)
  PROVE  IInv'
<1>1. /\ Types /\ lock \in [Handle -> Level] /\ Exclusion /\ nFault \in Nat /\ HoldsInv(c) /\ WriteInv(c) /\ CleanInv(c)
      /\ cache \in [Conn -> [File -> Version \cup {Null, Torn}]]
  BY DEF IInv, Types, TypeOK, ConnInv
<1>2. /\ F(c) \in File /\ Holds(c, F(c)) /\ ~Res(c, F(c)) /\ F(c) \notin loc[c].open \cup loc[c].opened
      /\ \A f \in loc[c].opened : f \in File /\ OwnJournal(c, f)
      /\ \A f \in File : f \notin loc[c].opened => cache[c][f] # Torn /\ Stale(c, f)
      /\ \A f \in loc[c].open \ loc[c].opened : f \in File /\ cache[c][f] = current[f]
      /\ pc[c] \notin Looking /\ pc[c] \notin Committing /\ pc[c] # "phasetwo" /\ ~PowerAhead
      /\ loc[c].zSuper \in 1 .. MaxTx
  BY CleaningFacts
<1>3. /\ loc[c].open \subseteq File /\ loc[c].opened \subseteq File /\ loc[c].write \subseteq File
  BY <1>1, ConnTypes
<1>4. label \in Labels /\ label \in Cleaning /\ label \notin PhaseOne
  BY DEF Labels, Cleaning, PhaseOne
<1>5. pc'[c] = label /\ loc'[c] = l /\ F(c)' = F(c)
  BY <1>1, <1>4, Moves DEF F
<1>6. PICK f, n : f = F(c) /\ f = F(c)' /\ n = l.zSuper /\ n = loc[c].zSuper
  BY <1>5
<1>7. \A g \in File : (Holds(c, g)' <=> Holds(c, g)) /\ (Res(c, g)' <=> Res(c, g))
  BY LockSame
<1>8. HoldsInv(c)'
  <2>1. /\ loc[c].opened \subseteq loc[c].write
        /\ \A g \in loc[c].open : Holds(c, g)
        /\ \A g \in loc[c].opened : Res(c, g)
    BY <1>1 DEF HoldsInv
  <2> QED BY <1>2, <1>3, <1>5, <1>6, <1>7, <2>1 DEF HoldsInv, Looking, Playing, Cleaning
<1>9. WriteInv(c)'
  <2>1. /\ loc[c].isHot => /\ loc[c].write \subseteq loc[c].todo \cup loc[c].opened \cup {f}
                           /\ \A g \in loc[c].write : Res(c, g)' => g \in loc[c].opened \cup {f}
        /\ ~loc[c].isHot => loc[c].opened = loc[c].todo
    BY <1>1, <1>3, <1>6, <1>7 DEF WriteInv
  <2> QED BY <1>5, <1>6, <2>1 DEF WriteInv, PhaseOne, Playing, Cleaning, Looking
<1>10. JournalInv(c)'
  <2>1. \A g \in loc[c].opened : OwnJournal(c, g)'
    BY <1>2, OwnKept
  <2> QED BY <1>5, <2>1 DEF JournalInv, Playing
<1>11. CommitInv(c)'
  BY <1>5 DEF CommitInv, PhaseOne
<1>12. TxKept(c)
  <2>1. pc[c] # "idle" /\ pc[c] # "rollback"
    BY DEF Cleaning
  <2>2. Active(c)' => Active(c)
    BY <1>4, <1>5, <2>1 DEF Active, Undoing
  <2> QED BY <1>2, <1>5, <2>2 DEF TxKept, Calm
<1>13. CleanInv(c)'
  <2>1. n \in 1 .. MaxTx /\ n # Null /\ n <= nTx /\ ~Names(f, n) /\ \A d \in Conn : ~ActiveAs(d, n)
    BY <1>1, <1>2, <1>6, Marks DEF CleanInv
  <2> USE <2>1
  <2>2. \A g \in File : Names(g, n)' <=> Names(g, n)
    BY DEF Calm, Names
  <2>3. \A d \in Conn : ~ActiveAs(d, n)'
    <3>1. \A d \in Conn : d # c => (pc'[d] = pc[d] /\ loc'[d] = loc[d])
      BY <1>1, <1>4, Moves
    <3>2. \A d \in Conn : d # c => ~ActiveAs(d, n)'
      BY <3>1 DEF ActiveAs, Active, Undoing
    <3>3. ~ActiveAs(c, n)'
      BY <1>5, <1>12 DEF ActiveAs, TxKept
    <3> QED BY <3>2, <3>3
  <2>4. super' = super /\ nTx' = nTx
    BY DEF Calm
  <2> USE <2>4
  <2>5. \A g \in File : Names(g, n)' => super'[n] = Null \/ g \in l.others \/ (label = "delread" /\ g = l.g)
    BY <1>6, <2>2
  <2>6. ~Names(f, n)'
    BY <1>2, <1>6, <2>2
  <2> QED BY <1>4, <1>5, <1>6, <2>3, <2>5, <2>6 DEF CleanInv
<1>14. CacheInv(c)'
  <2>1. /\ \A g \in File : g \notin loc[c].opened => cache'[c][g] # Torn /\ Stale(c, g)'
        /\ \A g \in loc[c].open \ loc[c].opened : cache'[c][g] = current'[g]
    BY <1>2, OwnKept DEF Calm
  <2> QED BY <1>5, <2>1 DEF CacheInv
<1>15. ConnInv(c)'
  BY <1>8, <1>9, <1>10, <1>11, <1>13, <1>14 DEF ConnInv
<1>16. \A g \in File : IsHot(g) /\ Holds(c, g)' => Exc(c, g)'
  BY <1>2, HotKept
<1>17. LocksApart(c)
  BY <1>1 DEF LocksApart, Exclusion
<1>18. (PowerAhead' <=> PowerAhead) /\ nFault' \in Nat
  BY <1>1, SameFaults DEF Calm
<1> QED BY <1>1, <1>2, <1>4, <1>12, <1>15, <1>16, <1>17, <1>18, CalmStep

(* pager_delsuper reads the super-journal, or finds that it is gone.       *)
LEMMA DelSuperInv ==
  ASSUME FiniteSetFacts, IInv, NEW c \in Conn, pager_delsuper(c)
  PROVE  IInv'
<1>1. pc[c] = "delsuper" /\ pc[c] \in Cleaning /\ Calm /\ nFault' = nFault
  BY DEF pager_delsuper, Calm, files, disk, history, Cleaning
<1> USE <1>1
<1>2. CASE super[loc[c].zSuper] = Null
  BY <1>2, PlaybackFailsInv DEF pager_delsuper
<1>3. CASE super[loc[c].zSuper] # Null
  <2> USE <1>3
  <2>1. PICK n, f : n = loc[c].zSuper /\ f = F(c)
    OBVIOUS
  <2> USE <2>1
  <2>2. /\ Goto(c, "delother", [loc[c] EXCEPT !.others = super[n] \ {f}]) /\ lock' = lock /\ cache' = cache
    BY DEF pager_delsuper
  <2> USE <2>2
  <2>3. /\ Types /\ CleanInv(c) /\ (\A g \in File : ImageInv(g) /\ NamesInv(g)) /\ \A m \in 1 .. MaxTx : SuperInv(m)
    BY DEF IInv, ConnInv, FileInv
  <2> USE <2>3
  <2>4. n \in 1 .. MaxTx /\ ~Names(f, n)
    BY CleaningFacts DEF CleanInv
  <2> USE <2>4
  <2>5. loc[c] \in Local /\ super[n] \in SUBSET File /\ super[n] \in superDisk[n]
    BY ConnTypes DEF Types, SuperInv
  <2> USE <2>5
  <2>6. PICK l : l = [loc[c] EXCEPT !.others = super[n] \ {f}]
    OBVIOUS
  <2> USE <2>6
  <2>7. /\ l \in Local /\ l.todo = loc[c].todo /\ l.write = loc[c].write /\ l.open = loc[c].open
        /\ l.opened = loc[c].opened /\ l.f = loc[c].f /\ l.v = loc[c].v /\ l.isHot = loc[c].isHot
        /\ l.zSuper = loc[c].zSuper /\ l.others = super[n] \ {f}
    BY DEF Local
  <2> USE <2>7
  <2>8. \A g \in File : Names(g, l.zSuper) => g \in l.others
    <3>1. SUFFICES ASSUME NEW g \in File, Names(g, n) PROVE g \in super[n] \ {f}
      OBVIOUS
    <3> USE <3>1
    <3>2. jrnl[g] \in jrnlDisk[g] /\ jrnl[g] # Null /\ jrnl[g].super = n /\ n # Null
      BY Marks DEF ImageInv, Names
    <3>3. \A s \in superDisk[n] : s # Null => g \in s
      BY <3>2 DEF NamesInv
    <3> QED BY <3>3
  <2>9. Goto(c, "delother", l) /\ "delother" \in {"delother", "delread"} /\ "delother" # "delread"
    OBVIOUS
  <2> QED BY <2>8, <2>9, CleanStays
<1> QED BY <1>2, <1>3

(* pager_delsuper turns to another journal that the super-journal names.   *)
LEMMA DelSuperOtherInv ==
  ASSUME FiniteSetFacts, IInv, NEW c \in Conn, NEW f \in File, DelSuperOther(c, f)
  PROVE  IInv'
<1>1. /\ pc[c] = "delother" /\ pc[c] \in Cleaning /\ Calm /\ nFault' = nFault /\ lock' = lock /\ cache' = cache
      /\ Types /\ CleanInv(c)
  BY DEF DelSuperOther, Calm, files, disk, history, Cleaning, IInv, ConnInv
<1> USE <1>1
<1>2. loc[c] \in Local
  BY ConnTypes
<1> USE <1>2
<1>3. \A g \in File : Names(g, loc[c].zSuper) => super[loc[c].zSuper] = Null \/ g \in loc[c].others
  BY DEF CleanInv
<1> USE <1>3
<1>4. CASE jrnl[f] = Null
  <2> USE <1>4
  <2>1. PICK l : l = [loc[c] EXCEPT !.others = @ \ {f}]
    OBVIOUS
  <2> USE <2>1
  <2>2. /\ l \in Local /\ l.todo = loc[c].todo /\ l.write = loc[c].write /\ l.open = loc[c].open
        /\ l.opened = loc[c].opened /\ l.f = loc[c].f /\ l.v = loc[c].v /\ l.isHot = loc[c].isHot
        /\ l.zSuper = loc[c].zSuper /\ l.others = loc[c].others \ {f}
    BY DEF Local
  <2> USE <2>2
  <2>3. Goto(c, "delother", l) /\ "delother" \in {"delother", "delread"} /\ "delother" # "delread"
    BY DEF DelSuperOther
  <2>4. \A g \in File : Names(g, l.zSuper) => super[l.zSuper] = Null \/ g \in l.others
    BY DEF Names
  <2> QED BY <2>3, <2>4, CleanStays
<1>5. CASE jrnl[f] # Null
  <2>1. PICK l : l = [[loc[c] EXCEPT !.others = @ \ {f}] EXCEPT !.g = f]
    OBVIOUS
  <2> USE <2>1
  <2>2. /\ l \in Local /\ l.todo = loc[c].todo /\ l.write = loc[c].write /\ l.open = loc[c].open
        /\ l.opened = loc[c].opened /\ l.f = loc[c].f /\ l.v = loc[c].v /\ l.isHot = loc[c].isHot
        /\ l.zSuper = loc[c].zSuper /\ l.others = loc[c].others \ {f} /\ l.g = f
    BY DEF Local
  <2> USE <2>2
  <2>3. Goto(c, "delread", l) /\ "delread" \in {"delother", "delread"}
    BY <1>5 DEF DelSuperOther
  <2>4. \A g \in File : Names(g, l.zSuper) => super[l.zSuper] = Null \/ g \in l.others \/ g = l.g
    OBVIOUS
  <2> QED BY <2>3, <2>4, CleanStays
<1> QED BY <1>4, <1>5

(* pager_delsuper reads a journal: if it names the super-journal still,    *)
(* the super-journal stays.                                                *)
LEMMA DelSuperReadInv ==
  ASSUME FiniteSetFacts, IInv, NEW c \in Conn, DelSuperRead(c)
  PROVE  IInv'
<1>1. /\ pc[c] = "delread" /\ pc[c] \in Cleaning /\ Calm /\ nFault' = nFault /\ Types /\ CleanInv(c)
  BY DEF DelSuperRead, Calm, files, disk, history, Cleaning, IInv, ConnInv
<1> USE <1>1
<1>2. loc[c] \in Local
  BY ConnTypes
<1>3. CASE jrnl[loc[c].g] = Null
  BY <1>3, PlaybackFailsInv DEF DelSuperRead
<1>4. CASE jrnl[loc[c].g] # Null /\ StillNeeded(c)
  BY <1>4, AfterCleaning DEF DelSuperRead
<1>5. CASE jrnl[loc[c].g] # Null /\ ~StillNeeded(c)
  <2> USE <1>5
  <2>1. PICK l : l = [loc[c] EXCEPT !.g = Null]
    OBVIOUS
  <2> USE <2>1
  <2>2. /\ l \in Local /\ l.todo = loc[c].todo /\ l.write = loc[c].write /\ l.open = loc[c].open
        /\ l.opened = loc[c].opened /\ l.f = loc[c].f /\ l.v = loc[c].v /\ l.isHot = loc[c].isHot
        /\ l.zSuper = loc[c].zSuper /\ l.others = loc[c].others
    BY <1>2 DEF Local
  <2> USE <2>2
  <2>3. /\ Goto(c, "delother", l) /\ "delother" \in {"delother", "delread"} /\ "delother" # "delread"
        /\ lock' = lock /\ cache' = cache
    BY DEF DelSuperRead
  <2>4. \A g \in File : Names(g, loc[c].zSuper) => super[loc[c].zSuper] = Null \/ g \in loc[c].others \/ g = loc[c].g
    BY DEF CleanInv
  <2>5. ~Names(loc[c].g, loc[c].zSuper)
    BY DEF StillNeeded, Names
  <2>6. \A g \in File : Names(g, l.zSuper) => super[l.zSuper] = Null \/ g \in l.others
    BY <2>4, <2>5
  <2> QED BY <2>3, <2>6, CleanStays
<1> QED BY <1>3, <1>4, <1>5

(* pager_delsuper deletes a super-journal that is gone by then.            *)
LEMMA DelSuperGoneInv ==
  ASSUME FiniteSetFacts, IInv, NEW c \in Conn, DelSuperDelete(c), super[loc[c].zSuper] = Null
  PROVE  IInv'
<1>1. pc[c] \in Cleaning /\ Calm /\ nFault' = nFault /\ PlaybackFails(c)
  BY DEF DelSuperDelete, Calm, history, Cleaning
<1> QED BY <1>1, PlaybackFailsInv

(* sqlite3PagerSharedLock compares the change counter with that of the     *)
(* cache, and drops a cache that is out of date.                           *)
LEMMA CheckVersionInv ==
  ASSUME FiniteSetFacts, IInv, NEW c \in Conn, CheckVersion(c)
  PROVE  IInv'
<1>1. /\ pc[c] = "version" /\ Calm /\ nFault' = nFault /\ lock' = lock
      /\ Types /\ HoldsInv(c) /\ WriteInv(c) /\ JournalInv(c) /\ CacheInv(c) /\ CleanInv(c) /\ nFault \in Nat
      /\ cache \in [Conn -> [File -> Version \cup {Null, Torn}]] /\ current \in [File -> Version]
  BY DEF CheckVersion, Calm, files, disk, history, IInv, ConnInv, Types, TypeOK
<1>2. /\ loc[c] \in Local /\ lock \in [Handle -> Level] /\ Exclusion /\ loc[c].write \subseteq File
      /\ loc[c].open \subseteq File /\ loc[c].opened \subseteq File
  BY <1>1, ConnTypes
<1>3. PICK f : f = F(c)
  OBVIOUS
<1>4. /\ f \in File /\ loc[c].f = f /\ f \notin loc[c].open \cup loc[c].opened
      /\ Holds(c, f) /\ ~Res(c, f) /\ loc[c].opened \subseteq loc[c].write
      /\ \A g \in loc[c].open : Holds(c, g)
      /\ \A g \in loc[c].opened : Res(c, g)
  BY <1>1, <1>3 DEF HoldsInv, F
<1>5. /\ loc[c].write \subseteq loc[c].todo \cup loc[c].opened \cup {f}
      /\ \A g \in loc[c].write : Res(c, g) => g \in loc[c].opened
  BY <1>1, <1>3, <1>4 DEF WriteInv
<1>6. pc[c] \notin Looking /\ pc[c] \notin Committing /\ pc[c] # "phasetwo" /\ "reserve" \in Labels /\ "next" \in Labels
  BY <1>1 DEF Looking, Committing, PhaseOne, Labels
<1>7. db[f] = current[f] /\ current[f] \in Version
  <2>1. ~IsHot(f)
    BY <1>2, <1>4, <1>6, NotHot, Levels
  <2> QED BY <1>1, <1>4, <2>1 DEF IInv, FileInv, ImageInv, Live
<1>8. /\ \A g \in File : g \notin loc[c].opened => cache[c][g] # Torn /\ Stale(c, g)
      /\ \A g \in loc[c].open \ loc[c].opened : cache[c][g] = current[g]
  BY <1>1 DEF CacheInv, Restoring
<1>9. /\ cache' \in [Conn -> [File -> Version \cup {Null, Torn}]] /\ cache'[c][f] = current[f]
      /\ \A g \in File : g # f => cache'[c][g] = cache[c][g]
      /\ \A d \in Conn : d # c => cache'[d] = cache[d]
  <2>1. CASE CacheValid(c, f)
    <3>1. cache' = cache /\ cache[c][f] # Null /\ cache[c][f][2] = db[f][2]
      BY <1>3, <2>1 DEF CheckVersion, CacheValid
    <3>2. cache[c][f] \in Version \cup {Null, Torn} /\ cache[c][f] # Torn /\ Stale(c, f)
      BY <1>1, <1>4, <1>8
    <3>3. cache[c][f] = current[f]
      BY <1>7, <3>1, <3>2 DEF Stale
    <3> QED BY <1>1, <3>1, <3>3
  <2>2. CASE ~CacheValid(c, f)
    <3>1. PICK v \in Version \cup {Null, Torn} : v = current[f]
      BY <1>7
    <3>2. SetCache(c, f, v)
      BY <1>3, <1>7, <2>2, <3>1 DEF CheckVersion
    <3>3. /\ cache' \in [Conn -> [File -> Version \cup {Null, Torn}]]
          /\ cache'[c][f] = v /\ \A g \in File : g # f => cache'[c][g] = cache[c][g]
          /\ \A d \in Conn : d # c => cache'[d] = cache[d]
      BY <1>1, <1>4, <3>2, CacheSet
    <3> QED BY <3>1, <3>3
  <2> QED BY <2>1, <2>2
<1>10. \A g \in File : (Holds(c, g)' <=> Holds(c, g)) /\ (Res(c, g)' <=> Res(c, g))
  BY <1>1, LockSame
<1>11. /\ \A g \in loc[c].opened : OwnJournal(c, g)'
       /\ \A g \in File : g # f /\ g \notin loc[c].opened => cache'[c][g] # Torn /\ Stale(c, g)'
       /\ \A g \in (loc[c].open \cup {f}) \ loc[c].opened : cache'[c][g] = current'[g]
  <2>1. \A g \in File : g # f => (OwnJournal(c, g) => OwnJournal(c, g)') /\ (Stale(c, g) => Stale(c, g)')
    BY <1>1, <1>9, OwnKept
  <2>2. \A g \in loc[c].opened : OwnJournal(c, g)
    BY <1>1 DEF JournalInv
  <2>3. current' = current
    BY <1>1 DEF Calm
  <2> QED BY <1>2, <1>4, <1>8, <1>9, <2>1, <2>2, <2>3
<1>12. cache'[c][f] # Torn /\ Stale(c, f)'
  <2>1. current[f][2] <= current[f][2]
    <3>1. current[f][2] \in Nat
      BY SMT, <1>7, SuperJournalAssumption DEF Version
    <3> QED BY SMT, <3>1
  <2> QED BY <1>1, <1>7, <1>9, <2>1, Marks DEF Stale, Calm
<1>13. PICK l : l = [loc[c] EXCEPT !.open = @ \cup {f}, !.isHot = FALSE, !.zSuper = Null]
  OBVIOUS
<1>14. /\ l \in Local /\ l.todo = loc[c].todo /\ l.write = loc[c].write /\ l.f = f /\ l.open = loc[c].open \cup {f}
       /\ l.opened = loc[c].opened /\ l.v = loc[c].v /\ ~l.isHot /\ l.zSuper = Null
  <2>1. FALSE \in BOOLEAN
    OBVIOUS
  <2> QED BY <1>2, <1>4, <1>13, <2>1 DEF Local
<1>15. PICK k : k = [l EXCEPT !.f = Null]
  OBVIOUS
<1>16. /\ k \in Local /\ k.todo = loc[c].todo /\ k.write = loc[c].write /\ k.open = loc[c].open \cup {f}
       /\ k.opened = loc[c].opened /\ k.v = loc[c].v /\ ~k.isHot /\ k.zSuper = Null
  BY <1>14, <1>15 DEF Local
<1>17. PICK label \in {"reserve", "next"}, m \in Local :
         /\ Goto(c, label, m) /\ (label = "reserve" => f \in loc[c].write /\ m.f = f)
         /\ (label = "next" => f \notin loc[c].write)
         /\ m.todo = loc[c].todo /\ m.write = loc[c].write /\ m.open = loc[c].open \cup {f}
         /\ m.opened = loc[c].opened /\ m.v = loc[c].v /\ ~m.isHot /\ m.zSuper = Null
  <2>1. CASE f \in loc[c].write
    <3> USE <2>1
    <3>1. Goto(c, "reserve", l) /\ "reserve" # "next"
      BY <1>3, <1>13 DEF CheckVersion
    <3> QED BY <1>14, <3>1
  <2>2. CASE f \notin loc[c].write
    <3> USE <2>2
    <3>1. Goto(c, "next", k) /\ "reserve" # "next"
      BY <1>3, <1>13, <1>15 DEF CheckVersion
    <3> QED BY <1>16, <3>1
  <2> QED BY <2>1, <2>2
<1> USE <1>17
<1>18. pc'[c] = label /\ loc'[c] = m /\ F(c)' = m.f /\ label \in Labels /\ label \notin PhaseOne
  BY <1>1, <1>6, Moves DEF PhaseOne
<1> USE <1>18
<1>19. HoldsInv(c)'
  BY <1>2, <1>4, <1>10 DEF HoldsInv, Looking, Playing, Cleaning
<1>20. WriteInv(c)'
  <2>1. \A g \in loc[c].write : Res(c, g)' => g \in loc[c].opened
    BY <1>2, <1>5, <1>10
  <2> QED BY <1>5, <2>1 DEF WriteInv, PhaseOne, Playing, Cleaning, Looking
<1>21. JournalInv(c)'
  BY <1>11 DEF JournalInv, Playing
<1>22. CommitInv(c)'
  BY DEF CommitInv, PhaseOne
<1>23. CleanInv(c)'
  BY DEF CleanInv, Cleaning
<1>24. CacheInv(c)'
  BY <1>11, <1>12 DEF CacheInv
<1>25. ConnInv(c)'
  BY <1>19, <1>20, <1>21, <1>22, <1>23, <1>24 DEF ConnInv
<1>26. TxKept(c)
  BY <1>1, <1>6 DEF TxKept, Calm, Active, Undoing, Playing, Cleaning
<1>27. \A g \in File : IsHot(g) /\ Holds(c, g)' => Exc(c, g)'
  BY <1>1, <1>6, HotKept
<1>28. LocksApart(c)
  BY <1>1, <1>2 DEF LocksApart, Exclusion
<1>29. (PowerAhead' => PowerAhead) /\ nFault' \in Nat
  BY <1>1, SameFaults DEF Calm
<1> QED BY <1>1, <1>6, <1>9, <1>25, <1>26, <1>27, <1>28, <1>29, CalmStep

(* A process dies: its locks and its cache are gone, its files and         *)
(* journals stay as they are.                                              *)
LEMMA KillInv ==
  ASSUME FiniteSetFacts, NoStaleName, IInv, NEW c \in Conn, Kill(c)
  PROVE  IInv'
<1>1. /\ Types /\ Calm /\ scenario' = scenario /\ Drop({c} \X File) /\ Goto(c, "idle", NoTx)
      /\ Fault(IF pc[c] = "phasetwo" /\ Multi(c) THEN "killPhaseTwo" ELSE "kill")
      /\ cache' = [cache EXCEPT ![c] = [f \in File |-> Null]]
      /\ cache \in [Conn -> [File -> Version \cup {Null, Torn}]]
  BY DEF Kill, Calm, files, disk, history, IInv, Types, TypeOK
<1> USE <1>1
<1>2. PICK k : k = IF pc[c] = "phasetwo" /\ Multi(c) THEN "killPhaseTwo" ELSE "kill"
  OBVIOUS
<1> USE <1>2
<1>3. ~PowerAhead' /\ nFault' \in Nat /\ (k # "kill" => Delete)
  BY FaultEnds
<1> USE <1>3
<1>4. pc[c] = "phasetwo" /\ Multi(c) => Delete
  OBVIOUS
<1>5. LocksApart(c) /\ \A f \in File : ~Holds(c, f)'
  BY DropOwn
<1> USE <1>5
<1>6. NoTx \in Local /\ NoTx.write = {} /\ NoTx.opened = {} /\ NoTx.open = {} /\ NoTx.zSuper = Null /\ NoTx.v = 0 /\ "idle" \in Labels
      /\ "idle" \notin PhaseOne
  BY NoTxFields DEF Labels, PhaseOne
<1> USE <1>6
<1>7. pc'[c] = "idle" /\ loc'[c] = NoTx
  <2>1. pc \in [Conn -> Labels] /\ loc \in [Conn -> Local]
    BY DEF Types, TypeOK
  <2> QED BY <2>1 DEF Goto
<1> USE <1>7
<1>8. PICK x : x = [f \in File |-> Null]
  OBVIOUS
<1> USE <1>8
<1>9. x \in [File -> Version \cup {Null, Torn}] /\ \A f \in File : x[f] = Null
  OBVIOUS
<1> USE <1>9
<1>10. /\ cache' \in [Conn -> [File -> Version \cup {Null, Torn}]] /\ cache'[c] = x
       /\ \A d \in Conn : d # c => cache'[d] = cache[d]
  OBVIOUS
<1> USE <1>10
<1>11. CacheInv(c)'
  <2>1. \A f \in File : cache'[c][f] # Torn /\ Stale(c, f)'
    BY Marks DEF Stale
  <2> QED BY <2>1 DEF CacheInv
<1>12. ConnInv(c)'
  BY <1>11, IdleInv DEF ConnInv
<1>13. TxKept(c)
  BY DEF TxKept, Active, Calm
<1> QED BY <1>4, <1>12, <1>13, CalmStep

(* An I/O error in phase two: the journal stays, the file is let go and    *)
(* the commit goes on.                                                     *)
LEMMA PhaseTwoIOErrorInv ==
  ASSUME FiniteSetFacts, NoStaleName, IInv, NEW c \in Conn, NEW f \in File, PhaseTwoIOError(c, f)
  PROVE  IInv'
<1>1. /\ pc[c] = "phasetwo" /\ f \in loc[c].todo /\ Calm /\ Fault("ioerr") /\ scenario' = scenario
      /\ Lower(H(c, f), NO_LOCK) /\ SetCache(c, f, Null)
      /\ Types /\ HoldsInv(c) /\ WriteInv(c) /\ JournalInv(c) /\ CommitInv(c) /\ CacheInv(c) /\ CleanInv(c)
  BY DEF PhaseTwoIOError, Turn, Calm, files, disk, history, IInv, ConnInv
<1>2. /\ loc[c] \in Local /\ lock \in [Handle -> Level] /\ Exclusion /\ loc[c].write \subseteq File
      /\ loc[c].open \subseteq File /\ loc[c].opened \subseteq File /\ loc[c].todo \subseteq File
  BY <1>1, ConnTypes
<1>3. ~PowerAhead' /\ nFault' \in Nat /\ Delete
  <2>1. PICK k : k = "ioerr"
    OBVIOUS
  <2> USE <2>1
  <2>2. ~PowerAhead' /\ nFault' \in Nat /\ (k # "kill" => Delete)
    BY <1>1, FaultEnds
  <2> QED BY <2>2
<1>4. /\ loc[c].opened \subseteq loc[c].write /\ loc[c].opened = loc[c].todo /\ ~loc[c].isHot /\ loc[c].write # {}
      /\ \A g \in loc[c].open : Holds(c, g)
      /\ \A g \in loc[c].opened : Res(c, g) /\ Exc(c, g)
      /\ loc[c].zSuper = Null
  BY <1>1 DEF HoldsInv, WriteInv, CleanInv, Playing, Cleaning
<1>5. pc[c] \notin Looking /\ "phasetwo" \in Labels /\ "next" \in Labels /\ "phasetwo" # "next"
      /\ NO_LOCK \in {NO_LOCK, SHARED_LOCK} /\ Null \in Version \cup {Null, Torn}
      /\ "phasetwo" \notin PhaseOne /\ "next" \notin PhaseOne
  BY <1>1 DEF Looking, Labels, PhaseOne
<1>6. /\ LocksApart(c) /\ ~Holds(c, f)' /\ ~Res(c, f)'
      /\ \A g \in File : g # f => lock'[H(c, g)] = lock[H(c, g)]
  BY <1>1, <1>2, <1>5, LowerTo
<1>7. \A g \in File : g # f => /\ (Holds(c, g) => Holds(c, g)') /\ (Res(c, g) => Res(c, g)')
                              /\ (Exc(c, g) => Exc(c, g)')
  BY <1>6, LockSame
<1>8. /\ cache' \in [Conn -> [File -> Version \cup {Null, Torn}]] /\ cache'[c][f] = Null
      /\ \A g \in File : g # f => cache'[c][g] = cache[c][g]
      /\ \A d \in Conn : d # c => cache'[d] = cache[d]
  BY <1>1, <1>5, CacheSet
<1>9. PICK l : l = [loc[c] EXCEPT !.todo = @ \ {f}, !.opened = @ \ {f}, !.open = @ \ {f}]
  OBVIOUS
<1>10. /\ l \in Local /\ l.todo = loc[c].todo \ {f} /\ l.write = loc[c].write /\ l.open = loc[c].open \ {f}
       /\ l.opened = loc[c].opened \ {f} /\ l.v = loc[c].v /\ ~l.isHot /\ l.zSuper = Null /\ l.f = loc[c].f
  BY <1>2, <1>4, <1>9 DEF Local
<1>11. PICK k : k = [l EXCEPT !.write = {}]
  OBVIOUS
<1>12. /\ k \in Local /\ k.todo = loc[c].todo \ {f} /\ k.write = {} /\ k.open = loc[c].open \ {f}
       /\ k.opened = loc[c].opened \ {f} /\ k.v = loc[c].v /\ ~k.isHot /\ k.zSuper = Null /\ k.f = loc[c].f
  BY <1>10, <1>11 DEF Local
<1>13. PICK label \in {"next", "phasetwo"}, m \in Local :
         /\ Goto(c, label, m)
         /\ (label = "next" => m.write = {} /\ loc[c].todo \ {f} = {})
         /\ (label = "phasetwo" => m.write = loc[c].write)
         /\ m.todo = loc[c].todo \ {f} /\ m.open = loc[c].open \ {f}
         /\ m.opened = loc[c].opened \ {f} /\ m.v = loc[c].v /\ ~m.isHot /\ m.zSuper = Null
  <2>1. CASE l.todo = {}
    <3> USE <2>1
    <3>1. Goto(c, "next", k)
      BY <1>9, <1>11 DEF PhaseTwoIOError
    <3> QED BY <1>5, <1>10, <1>12, <3>1
  <2>2. CASE l.todo # {}
    <3>1. Goto(c, "phasetwo", l)
      BY <1>9, <2>2 DEF PhaseTwoIOError
    <3> QED BY <1>5, <1>10, <3>1
  <2> QED BY <2>1, <2>2
<1>14. pc'[c] = label /\ loc'[c] = m /\ label \in Labels
  <2>1. Types /\ Goto(c, label, m) /\ label \in Labels
    BY <1>1, <1>5, <1>13
  <2> QED BY <2>1, Moves
<1>15. HoldsInv(c)'
  BY <1>2, <1>4, <1>7, <1>13, <1>14 DEF HoldsInv, Looking, Playing, Cleaning
<1>16. WriteInv(c)'
  BY <1>2, <1>4, <1>7, <1>13, <1>14 DEF WriteInv, PhaseOne, Playing, Cleaning, Looking
<1>17. \A g \in File : g # f => (OwnJournal(c, g) => OwnJournal(c, g)') /\ (Stale(c, g) => Stale(c, g)')
  BY <1>1, <1>8, OwnKept
<1>18. JournalInv(c)'
  <2>1. \A g \in m.opened : OwnJournal(c, g)'
    BY <1>1, <1>2, <1>13, <1>17 DEF JournalInv
  <2> QED BY <1>13, <1>14, <2>1 DEF JournalInv, Playing
<1>19. CommitInv(c)'
  <2>1. CASE label = "next"
    BY <1>14, <2>1 DEF CommitInv, PhaseOne
  <2>2. CASE label = "phasetwo"
    <3> USE <2>2
    <3>1. Multi(c)' <=> Multi(c)
      BY <1>13, <1>14 DEF Multi
    <3> USE <3>1
    <3>2. \A g \in m.todo : g \in loc[c].todo /\ g \in File /\ g # f
      BY <1>2, <1>13
    <3> USE <3>2
    <3>3. ~Multi(c) => \A g \in m.todo : Done(c, g)' /\ ~IsGone(g)'
      <4>1. SUFFICES ASSUME ~Multi(c), NEW g \in m.todo PROVE Done(c, g)' /\ ~IsGone(g)'
        OBVIOUS
      <4>2. Done(c, g) /\ ~IsGone(g)
        BY <1>1, <4>1 DEF CommitInv
      <4>3. cache'[c][g] = cache[c][g] /\ jrnl' = jrnl /\ super' = super /\ db' = db /\ dbDisk' = dbDisk
            /\ loc'[c].v = loc[c].v
        BY <1>1, <1>8, <1>13, <1>14 DEF Calm
      <4> QED BY <4>2, <4>3 DEF Done, IsGone, Gone, NewVersion
    <3>4. Multi(c) => /\ super'[loc'[c].v] = Null
                      /\ \A g \in m.todo : jrnl'[g].hot /\ jrnl'[g].super = loc'[c].v
      BY <1>1, <1>13, <1>14 DEF CommitInv, Calm
    <3> QED BY <1>14, <3>3, <3>4 DEF CommitInv, PhaseOne
  <2> QED BY <1>13, <2>1, <2>2
<1>20. CleanInv(c)'
  BY <1>13, <1>14 DEF CleanInv, Cleaning
<1>21. CacheInv(c)'
  <2>1. cache'[c][f] # Torn /\ Stale(c, f)'
    BY <1>8, Marks DEF Stale
  <2>2. /\ \A g \in File : g \notin loc[c].opened => cache[c][g] # Torn /\ Stale(c, g)
        /\ \A g \in loc[c].open \ loc[c].opened : cache[c][g] = current[g]
    BY <1>1 DEF CacheInv, Restoring
  <2> USE <2>2
  <2>3. \A g \in File : g \notin m.opened => cache'[c][g] # Torn /\ Stale(c, g)'
    BY <1>8, <1>13, <1>17, <2>1
  <2>4. \A g \in m.open \ m.opened : cache'[c][g] = current'[g]
    BY <1>1, <1>2, <1>8, <1>13 DEF Calm
  <2> QED BY <1>14, <2>3, <2>4 DEF CacheInv
<1>22. ConnInv(c)'
  BY <1>15, <1>16, <1>18, <1>19, <1>20, <1>21 DEF ConnInv
<1>23. TxKept(c)
  <2>1. CASE label = "next"
    BY <1>1, <1>13, <1>14, <2>1 DEF TxKept, Calm, Active
  <2>2. CASE label = "phasetwo"
    BY <1>1, <1>4, <1>13, <1>14, <2>2 DEF TxKept, Calm, Active, Undoing, Playing, Cleaning, Committing
  <2> QED BY <1>13, <2>1, <2>2
<1>24. \A g \in File : IsHot(g) /\ Holds(c, g)' => Exc(c, g)'
  BY <1>5, <1>6, HotKept
<1>25. label \notin PhaseOne /\ m.opened \subseteq loc[c].opened
  BY <1>5, <1>13
<1> QED BY <1>1, <1>3, <1>6, <1>8, <1>13, <1>14, <1>22, <1>23, <1>24, <1>25, CalmStep
===============================================================================
