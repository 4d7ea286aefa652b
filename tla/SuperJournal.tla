----------------------------- MODULE SuperJournal -----------------------------
(***************************************************************************)
(* Transactions over several database files that connections of several    *)
(* processes share, in the rollback journal modes (pager.c, vdbeCommit):   *)
(* the locks of each file (FileLocks), hot journals and who plays them     *)
(* back, the super-journal of a transaction that writes more than one      *)
(* file, the page cache that outlives a transaction, the death of          *)
(* processes, the loss of power and I/O errors.                            *)
(*                                                                         *)
(* A file is one version: <<n, k>>, written by transaction n, with change  *)
(* counter k.  It is Torn while its pages are being written.  A journal    *)
(* file has a header that is valid (hot) or not, the version it restores   *)
(* and the super-journal that readSuperJournal finds at its end.           *)
(***************************************************************************)
EXTENDS FileLocks, FiniteSets

CONSTANTS
  Conn, File,
  Scenario,         \* environments by name, one is chosen in Init
  MaxTx,            \* bound: transactions that write
  Torn, Null

VARIABLES
  scenario,
  db, jrnl,         \* the files and their journals
  super,            \* of each super-journal the files it names; Null: no file
  dbDisk, jrnlDisk, superDisk,   \* what of them may be there after a power loss
  pc, loc, cache,   \* of each connection
  current,          \* history: the version of each file committed last
  durable,          \* history: an earlier one that a power loss may bring back
  nTx, calls, nFault

files == <<db, jrnl, super>>
disk == <<dbDisk, jrnlDisk, superDisk>>
history == <<current, durable>>
vars == <<scenario, lock, files, disk, pc, loc, cache, history, nTx, calls, nFault>>

Env == Scenario[scenario]
H(c, f) == <<c, f>>

ASSUME SuperJournalAssumption ==
  /\ IsFiniteSet(Conn) /\ IsFiniteSet(File) /\ MaxTx \in Nat
  /\ Handle = Conn \X File
  /\ Rivals = [h \in Handle |-> {g \in Handle : g[2] = h[2] /\ g # h}]
  /\ \A s \in DOMAIN Scenario : Scenario[s] \in
       [tx : [Conn -> SUBSET [read : SUBSET File, write : SUBSET File]],
        mode : [Conn -> {"delete", "truncate", "persist"}],    \* journal_mode
        attached : [Conn -> [File -> Nat]],                    \* index in db->aDb
        extraSync : BOOLEAN,                                   \* synchronous=EXTRA
        fault : SUBSET {"kill", "killPhaseTwo", "power", "ioerr"},
        maxCall : [Conn -> Nat], maxFault : Nat]

(* The versions of a file and what is in a journal file.                   *)
Version == (0 .. MaxTx) \X (0 .. MaxTx)
Journal == [hot : BOOLEAN, orig : Version \cup {Null}, super : 1 .. MaxTx \cup {Null}]

ASSUME MarksAssumption ==
  /\ Null \notin File /\ Null \notin 0 .. MaxTx /\ Torn # Null
  /\ \A S \in SUBSET File : S # Null
  /\ \A v \in Version : v # Null /\ v # Torn
  /\ \A j \in Journal : j # Null

(* A journal file: of length 0, and of a transaction that is not synced.   *)
EmptyJournal == [hot |-> FALSE, orig |-> Null, super |-> Null]

NoTx == [write |-> {}, read |-> {}, todo |-> {}, open |-> {}, opened |-> {}, f |-> Null,
         v |-> 0, isHot |-> FALSE, zSuper |-> Null, journalOff |-> FALSE, others |-> {}, g |-> Null]

Init ==
  /\ scenario \in DOMAIN Scenario /\ LInit
  /\ db = [f \in File |-> <<0, 0>>] /\ jrnl = [f \in File |-> Null]
  /\ super = [n \in 1 .. MaxTx |-> Null]
  /\ dbDisk = [f \in File |-> {<<0, 0>>}] /\ jrnlDisk = [f \in File |-> {Null}]
  /\ superDisk = [n \in 1 .. MaxTx |-> {Null}]
  /\ pc = [c \in Conn |-> "idle"] /\ loc = [c \in Conn |-> NoTx]
  /\ cache = [c \in Conn |-> [f \in File |-> Null]]
  /\ current = db /\ durable = db
  /\ nTx = 0 /\ calls = [c \in Conn |-> 0] /\ nFault = 0

Goto(c, label, l) == pc' = [pc EXCEPT ![c] = label] /\ loc' = [loc EXCEPT ![c] = l]
SetCache(c, f, v) == cache' = [cache EXCEPT ![c][f] = v]
SetDb(f, v) == db' = [db EXCEPT ![f] = v]
SetJournal(f, j) == jrnl' = [jrnl EXCEPT ![f] = j]
MayLose(f, S) == dbDisk' = [dbDisk EXCEPT ![f] = @ \cup S]
SyncDb(f) == dbDisk' = [dbDisk EXCEPT ![f] = {db'[f]}]
SyncJournal(f) == jrnlDisk' = [jrnlDisk EXCEPT ![f] = {jrnl'[f]}]
F(c) == loc[c].f

(* Mutant: the counter goes up in both calls of a commit                   *)
(* (changeCountDone is not looked at).                                     *)
NewVersion_Twice(c, f) == <<loc[c].v, jrnl[f].orig[2] + 2>>

(* pager_incr_changecounter: a commit counts once.                         *)
NewVersion(c, f) == <<loc[c].v, jrnl[f].orig[2] + 1>>

(* The loops over the files go by their index in db->aDb.                  *)
Turn(c, f) ==
  f \in loc[c].todo /\ \A g \in loc[c].todo : Env.attached[c][f] <= Env.attached[c][g]

-----------------------------------------------------------------------------
(* A transaction reads some files and writes some; a file in both is read  *)
(* first, so that SQLITE_BUSY for RESERVED ends the transaction.           *)
Begin(c) ==
  /\ pc[c] = "idle" /\ calls[c] < Env.maxCall[c]
  /\ calls' = [calls EXCEPT ![c] = @ + 1]
  /\ \E t \in Env.tx[c] :
       /\ t.write # {} => nTx < MaxTx
       /\ nTx' = IF t.write # {} THEN nTx + 1 ELSE nTx
       /\ Goto(c, "next", [NoTx EXCEPT !.read = t.read, !.write = t.write,
                                       !.todo = t.read \cup t.write, !.v = nTx'])
  /\ UNCHANGED <<scenario, lock, files, disk, cache, history, nFault>>

(* sqlite3PagerSharedLock on the next file.  Where the lock is not to be   *)
(* had the busy handler waits, or gives up (sqlite3RollbackAll).           *)
pager_wait_on_lock(c, f) ==
  /\ pc[c] = "next" /\ f \in loc[c].todo
  /\ Raise(H(c, f), SHARED_LOCK)
  /\ Goto(c, "exists", [loc[c] EXCEPT !.todo = @ \ {f}, !.f = f])
  /\ UNCHANGED <<scenario, files, disk, cache, history, nTx, calls, nFault>>

(* hasHotJournal: is there a journal ...                                   *)
JournalExists(c) ==
  /\ pc[c] = "exists"
  /\ Goto(c, IF jrnl[F(c)] = Null THEN "version" ELSE "reserved", loc[c])
  /\ UNCHANGED <<scenario, lock, files, disk, cache, history, nTx, calls, nFault>>

ReservedElsewhere(c) == \E h \in Rivals[H(c, F(c))] : lock[h] >= RESERVED_LOCK

(* ... that no writer holds ...                                            *)
CheckReservedLock(c) ==
  /\ pc[c] = "reserved"
  /\ Goto(c, IF ReservedElsewhere(c) THEN "version" ELSE "first", loc[c])
  /\ UNCHANGED <<scenario, lock, files, disk, cache, history, nTx, calls, nFault>>

(* ... and whose header is valid?  One that is gone by now is taken for    *)
(* hot, to be looked at under the EXCLUSIVE lock.                          *)
FirstByte(c) ==
  /\ pc[c] = "first"
  /\ Goto(c, IF jrnl[F(c)] = Null \/ jrnl[F(c)].hot THEN "hot" ELSE "version", loc[c])
  /\ UNCHANGED <<scenario, lock, files, disk, cache, history, nTx, calls, nFault>>

(* The EXCLUSIVE lock for the playback, straight from SHARED and without   *)
(* waiting: if it is refused btreeBeginTrans starts over.                  *)
HotLock(c) ==
  /\ pc[c] = "hot"
  /\ \/ /\ Raise(H(c, F(c)), EXCLUSIVE_LOCK) /\ Goto(c, "hotopen", loc[c])
     \/ /\ ~Compatible(H(c, F(c)), EXCLUSIVE_LOCK) /\ Lower(H(c, F(c)), NO_LOCK)
        /\ Goto(c, "next", [loc[c] EXCEPT !.todo = @ \cup {F(c)}, !.f = Null])
  /\ UNCHANGED <<scenario, files, disk, cache, history, nTx, calls, nFault>>

(* The journal may have been played back by another meanwhile.             *)
HotOpen(c) ==
  /\ pc[c] = "hotopen"
  /\ IF jrnl[F(c)] = Null
     THEN /\ Lower(H(c, F(c)), SHARED_LOCK) /\ Goto(c, "version", loc[c])
          /\ UNCHANGED jrnlDisk
     ELSE /\ Goto(c, "playback", [loc[c] EXCEPT !.isHot = TRUE]) /\ UNCHANGED lock
          /\ jrnlDisk' = [jrnlDisk EXCEPT ![F(c)] = {jrnl[F(c)]}]
  /\ UNCHANGED <<scenario, files, dbDisk, superDisk, cache, history, nTx, calls, nFault>>

(* Mutant: pages that are in the cache are taken to be valid.              *)
CacheValid_Assumed(c, f) == cache[c][f] # Null

CacheValid(c, f) == cache[c][f] # Null /\ db[f] # Torn /\ cache[c][f][2] = db[f][2]

(* The page cache is kept if the change counter in the file is the one it  *)
(* belongs to.                                                             *)
CheckVersion(c) ==
  LET f == F(c)
      l == [loc[c] EXCEPT !.open = @ \cup {f}, !.isHot = FALSE, !.zSuper = Null]
  IN  /\ pc[c] = "version"
      /\ IF CacheValid(c, f) THEN UNCHANGED cache ELSE SetCache(c, f, db[f])
      /\ IF f \in loc[c].write THEN Goto(c, "reserve", l) ELSE Goto(c, "next", [l EXCEPT !.f = Null])
      /\ UNCHANGED <<scenario, lock, files, disk, history, nTx, calls, nFault>>

-----------------------------------------------------------------------------
(* pager_playback, of a hot journal or to roll the own transaction back.   *)

(* A journal whose super-journal is not there any more belongs to a        *)
(* transaction that committed.                                             *)
Gone(j) == j.super # Null /\ super[j.super] = Null

(* The first pages are restored, if the journal is to be played back.      *)
pager_playback(c) ==
  LET f == F(c)
      j == jrnl[f]
      restores == ~Gone(j) /\ (loc[c].isHot => j.hot)
  IN  /\ pc[c] = "playback"
      /\ IF restores /\ db[f] # j.orig
         THEN SetDb(f, Torn) /\ MayLose(f, {Torn, j.orig}) ELSE UNCHANGED <<db, dbDisk>>
      /\ Goto(c, IF restores THEN "restore" ELSE "endplayback",
              [loc[c] EXCEPT !.zSuper = IF Gone(j) THEN Null ELSE j.super,
                             !.journalOff = restores \/ ~loc[c].isHot])
      /\ UNCHANGED <<scenario, lock, jrnl, super, jrnlDisk, superDisk, cache, history, nTx,
                     calls, nFault>>

(* The last ones; the own rollback restores the cached pages as well.      *)
RestorePages(c) ==
  LET f == F(c) IN
  /\ pc[c] = "restore"
  /\ SetDb(f, jrnl[f].orig)
  /\ SetCache(c, f, IF loc[c].isHot THEN Null ELSE jrnl[f].orig)
  /\ Goto(c, "endplayback", loc[c])
  /\ UNCHANGED <<scenario, lock, jrnl, super, disk, history, nTx, calls, nFault>>

(* The journal after pager_end_transaction: deleted, truncated, or with a  *)
(* header of zeroes; not touched in the latter modes if nothing was read   *)
(* from it or written to it (journalOff).                                  *)
Finalised(c, f, hasSuper, journalOff) ==
  IF Env.mode[c] = "delete" THEN Null
  ELSE IF ~journalOff THEN jrnl[f]
  ELSE IF Env.mode[c] = "truncate" \/ hasSuper THEN EmptyJournal
  ELSE [jrnl[f] EXCEPT !.hot = FALSE, !.orig = Null]
pager_end_transaction(c, f, hasSuper, journalOff) ==
  /\ SetJournal(f, Finalised(c, f, hasSuper, journalOff))
  /\ IF Env.mode[c] = "delete" /\ ~Env.extraSync
     THEN jrnlDisk' = [jrnlDisk EXCEPT ![f] = @ \cup {Null}] ELSE SyncJournal(f)
  /\ Lower(H(c, f), SHARED_LOCK)

AfterPlayback(c) ==
  IF loc[c].isHot THEN Goto(c, "version", [loc[c] EXCEPT !.zSuper = Null, !.journalOff = FALSE, !.others = {}, !.g = Null])
  ELSE Goto(c, "rollback", [loc[c] EXCEPT !.zSuper = Null, !.journalOff = FALSE, !.others = {}, !.g = Null, !.f = Null])

EndPlayback(c) ==
  LET f == F(c) IN
  /\ pc[c] = "endplayback"
  /\ dbDisk' = [dbDisk EXCEPT ![f] = {db[f]}]
  /\ pager_end_transaction(c, f, jrnl[f].super # Null, loc[c].journalOff)
  /\ IF loc[c].zSuper # Null THEN Goto(c, "delsuper", loc[c]) ELSE AfterPlayback(c)
  /\ UNCHANGED <<scenario, db, super, superDisk, cache, history, nTx, calls, nFault>>

(* The files a rollback has to restore.                                    *)
Writing(c) == {f \in loc[c].write : lock[H(c, f)] >= RESERVED_LOCK}

(* An error in the playback: the pager is reset; for a hot journal         *)
(* sqlite3PagerSharedLock fails and the transaction is rolled back.        *)
PlaybackFails(c) ==
  /\ SetCache(c, F(c), Null)
  /\ IF loc[c].isHot
     THEN /\ Lower(H(c, F(c)), NO_LOCK)
          /\ Goto(c, "rollback", [loc[c] EXCEPT !.todo = Writing(c), !.isHot = FALSE,
                                                !.zSuper = Null, !.journalOff = FALSE, !.others = {}, !.g = Null,
                                                !.f = Null])
     ELSE AfterPlayback(c) /\ UNCHANGED lock

(* pager_delsuper: the names in the super-journal ...                      *)
pager_delsuper(c) ==
  /\ pc[c] = "delsuper"
  /\ IF super[loc[c].zSuper] = Null THEN PlaybackFails(c)
     ELSE /\ Goto(c, "delother", [loc[c] EXCEPT !.others = super[loc[c].zSuper] \ {F(c)}])
          /\ UNCHANGED <<lock, cache>>
  /\ UNCHANGED <<scenario, files, disk, history, nTx, calls, nFault>>

(* ... of which none may belong to a journal ...                          *)
DelSuperOther(c, f) ==
  /\ pc[c] = "delother" /\ f \in loc[c].others
  /\ LET l == [loc[c] EXCEPT !.others = @ \ {f}]
     IN  IF jrnl[f] = Null THEN Goto(c, "delother", l) ELSE Goto(c, "delread", [l EXCEPT !.g = f])
  /\ UNCHANGED <<scenario, lock, files, disk, cache, history, nTx, calls, nFault>>

(* Mutant: the other journals are not read.                                *)
StillNeeded_Never(c) == FALSE

StillNeeded(c) == jrnl[loc[c].g].super = loc[c].zSuper

(* ... that points back to it (if it can still be opened) ...              *)
DelSuperRead(c) ==
  /\ pc[c] = "delread"
  /\ IF jrnl[loc[c].g] = Null THEN PlaybackFails(c)
     ELSE /\ IF StillNeeded(c) THEN AfterPlayback(c)
             ELSE Goto(c, "delother", [loc[c] EXCEPT !.g = Null])
          /\ UNCHANGED <<lock, cache>>
  /\ UNCHANGED <<scenario, files, disk, history, nTx, calls, nFault>>

(* ... before it is deleted, unless another has deleted it meanwhile.      *)
DelSuperDelete(c) ==
  LET s == loc[c].zSuper IN
  /\ pc[c] = "delother" /\ loc[c].others = {}
  /\ IF super[s] = Null THEN PlaybackFails(c) /\ UNCHANGED <<super, superDisk>>
     ELSE /\ super' = [super EXCEPT ![s] = Null]
          /\ superDisk' = [superDisk EXCEPT ![s] = @ \cup {Null}]
          /\ AfterPlayback(c) /\ UNCHANGED <<lock, cache>>
  /\ UNCHANGED <<scenario, db, jrnl, dbDisk, jrnlDisk, history, nTx, calls, nFault>>

-----------------------------------------------------------------------------
(* sqlite3PagerBegin.  If another has the RESERVED lock, a transaction     *)
(* that has read the file fails, and one that has not starts over.         *)
sqlite3PagerBegin(c) ==
  LET f == F(c)
      l == [loc[c] EXCEPT !.f = Null]
  IN  /\ pc[c] = "reserve"
      /\ \/ Raise(H(c, f), RESERVED_LOCK) /\ Goto(c, "journal", loc[c])
         \/ /\ ~Compatible(H(c, f), RESERVED_LOCK)
            /\ IF f \in loc[c].read
               THEN Goto(c, "rollback", [l EXCEPT !.todo = Writing(c)]) /\ UNCHANGED lock
               ELSE /\ Lower(H(c, f), NO_LOCK)
                    /\ Goto(c, "next", [l EXCEPT !.todo = @ \cup {f}, !.open = @ \ {f}])
      /\ UNCHANGED <<scenario, files, disk, cache, history, nTx, calls, nFault>>

(* The header is written over a journal file that is there, and a longer   *)
(* file keeps its end.  The header is not valid before the sync.           *)
pager_open_journal(c) ==
  LET f == F(c) IN
  /\ pc[c] = "journal"
  /\ \E s \in IF jrnl[f] = Null THEN {Null} ELSE {Null, jrnl[f].super} :
       SetJournal(f, [hot |-> FALSE, orig |-> db[f], super |-> s])
  /\ jrnlDisk' = [jrnlDisk EXCEPT ![f] = @ \cup {jrnl'[f]}]
  /\ SetCache(c, f, <<loc[c].v, db[f][2]>>)
  /\ Goto(c, "next", [loc[c] EXCEPT !.opened = @ \cup {f}, !.f = Null])
  /\ UNCHANGED <<scenario, lock, db, super, dbDisk, superDisk, history, nTx, calls, nFault>>

EndRead(c) ==
  /\ pc[c] = "next" /\ loc[c].todo = {} /\ loc[c].write = {}
  /\ Drop({c} \X File) /\ Goto(c, "idle", NoTx)
  /\ UNCHANGED <<scenario, files, disk, cache, history, nTx, calls, nFault>>

(* ROLLBACK, or the busy handler has given up.                             *)
sqlite3RollbackAll(c) ==
  /\ \/ pc[c] = "next" /\ (loc[c].todo # {} \/ loc[c].write # {})
     \/ pc[c] = "exclusive" /\ loc[c].todo # {}
  /\ Goto(c, "rollback", [loc[c] EXCEPT !.todo = Writing(c)])
  /\ UNCHANGED <<scenario, lock, files, disk, cache, history, nTx, calls, nFault>>

(* sqlite3PagerRollback: with a journal it is played back.                 *)
sqlite3PagerRollback(c, f) ==
  /\ pc[c] = "rollback" /\ Turn(c, f)
  /\ IF f \in loc[c].opened
     THEN /\ Goto(c, "playback", [loc[c] EXCEPT !.todo = @ \ {f}, !.opened = @ \ {f},
                                                !.open = @ \ {f}, !.f = f])
          /\ UNCHANGED lock
     ELSE Lower(H(c, f), SHARED_LOCK) /\ Goto(c, "rollback", [loc[c] EXCEPT !.todo = @ \ {f}])
  /\ UNCHANGED <<scenario, files, disk, cache, history, nTx, calls, nFault>>

RolledBack(c) ==
  /\ pc[c] = "rollback" /\ loc[c].todo = {}
  /\ Drop({c} \X File) /\ Goto(c, "idle", NoTx)
  /\ UNCHANGED <<scenario, files, disk, cache, history, nTx, calls, nFault>>

-----------------------------------------------------------------------------
(* vdbeCommit.                                                             *)
Multi(c) == Cardinality(loc[c].write) > 1

vdbeCommit(c) ==
  /\ pc[c] = "next" /\ loc[c].todo = {} /\ loc[c].write # {}
  /\ Goto(c, "exclusive", [loc[c] EXCEPT !.todo = loc[c].write])
  /\ UNCHANGED <<scenario, lock, files, disk, cache, history, nTx, calls, nFault>>

(* The EXCLUSIVE lock of every file; PENDING while there are readers.      *)
sqlite3PagerExclusiveLock(c, f) ==
  /\ pc[c] = "exclusive" /\ Turn(c, f)
  /\ \/ /\ Raise(H(c, f), EXCLUSIVE_LOCK)
        /\ Goto(c, "exclusive", [loc[c] EXCEPT !.todo = @ \ {f}])
     \/ /\ lock[H(c, f)] = RESERVED_LOCK /\ ~Compatible(H(c, f), EXCLUSIVE_LOCK)
        /\ Raise(H(c, f), PENDING_LOCK) /\ UNCHANGED <<pc, loc>>
  /\ UNCHANGED <<scenario, files, disk, cache, history, nTx, calls, nFault>>

(* Mutant: the super-journal is not synced.                                *)
SyncedSuper_Not(n) == [superDisk EXCEPT ![n] = @ \cup {super'[n]}]

SyncedSuper(n) == [superDisk EXCEPT ![n] = {super'[n]}]

(* The super-journal of a transaction on several files, synced.            *)
CreateSuper(c) ==
  /\ pc[c] = "exclusive" /\ loc[c].todo = {}
  /\ IF Multi(c)
     THEN super' = [super EXCEPT ![loc[c].v] = loc[c].write] /\ superDisk' = SyncedSuper(loc[c].v)
     ELSE UNCHANGED <<super, superDisk>>
  /\ Goto(c, "phaseone", [loc[c] EXCEPT !.todo = loc[c].write])
  /\ UNCHANGED <<scenario, lock, db, jrnl, dbDisk, jrnlDisk, cache, history, nTx, calls, nFault>>

(* sqlite3PagerCommitPhaseOne of each file: its journal gets the name of   *)
(* the super-journal, as the end of the file, ...                          *)
writeSuperJournal(c, f) ==
  /\ pc[c] = "phaseone" /\ Turn(c, f)
  /\ SetJournal(f, IF Multi(c) THEN [jrnl[f] EXCEPT !.super = loc[c].v] ELSE jrnl[f])
  /\ jrnlDisk' = [jrnlDisk EXCEPT ![f] = @ \cup {jrnl'[f]}]
  /\ Goto(c, "syncjournal", [loc[c] EXCEPT !.todo = @ \ {f}, !.f = f])
  /\ UNCHANGED <<scenario, lock, db, super, dbDisk, superDisk, cache, history, nTx, calls, nFault>>

(* ... is synced with a valid header, ...                                  *)
syncJournal(c) ==
  LET f == F(c) IN
  /\ pc[c] = "syncjournal"
  /\ SetJournal(f, [jrnl[f] EXCEPT !.hot = TRUE]) /\ SyncJournal(f)
  /\ durable' = [durable EXCEPT ![f] = current[f]]
  /\ Goto(c, "writelist", loc[c])
  /\ UNCHANGED <<scenario, lock, db, super, dbDisk, superDisk, cache, current, nTx, calls, nFault>>

(* ... the pages are written to the file ...                               *)
pager_write_pagelist(c) ==
  LET f == F(c) IN
  /\ pc[c] = "writelist"
  /\ SetDb(f, Torn) /\ MayLose(f, {Torn, NewVersion(c, f)})
  /\ SetCache(c, f, NewVersion(c, f))
  /\ Goto(c, "syncdb", loc[c])
  /\ UNCHANGED <<scenario, lock, jrnl, super, jrnlDisk, superDisk, history, nTx, calls, nFault>>

(* ... and synced.                                                         *)
sqlite3PagerSync(c) ==
  LET f == F(c)
      l == [loc[c] EXCEPT !.f = Null]
  IN  /\ pc[c] = "syncdb"
      /\ SetDb(f, NewVersion(c, f)) /\ SyncDb(f)
      /\ IF loc[c].todo # {} THEN Goto(c, "phaseone", l)
         ELSE IF Multi(c) THEN Goto(c, "deletesuper", l)
         ELSE Goto(c, "phasetwo", [l EXCEPT !.todo = l.write])
      /\ UNCHANGED <<scenario, lock, jrnl, super, jrnlDisk, superDisk, cache, history, nTx,
                     calls, nFault>>

(* The deletion of the super-journal commits the transaction.              *)
Committed(S) == [f \in File |-> IF f \in S THEN db[f] ELSE current[f]]
DeleteSuper(c) ==
  /\ pc[c] = "deletesuper"
  /\ super' = [super EXCEPT ![loc[c].v] = Null] /\ superDisk' = SyncedSuper(loc[c].v)
  /\ current' = Committed(loc[c].write)
  /\ durable' = [f \in File |-> IF f \in loc[c].write THEN db[f] ELSE durable[f]]
  /\ Goto(c, "phasetwo", [loc[c] EXCEPT !.todo = loc[c].write])
  /\ UNCHANGED <<scenario, lock, db, jrnl, dbDisk, jrnlDisk, cache, nTx, calls, nFault>>

AfterPhaseTwo(c, f) ==
  LET l == [loc[c] EXCEPT !.todo = @ \ {f}, !.opened = @ \ {f}]
  IN  IF l.todo = {} THEN Goto(c, "next", [l EXCEPT !.write = {}]) ELSE Goto(c, "phasetwo", l)

(* The journals are finalised; without a super-journal this commits.       *)
sqlite3PagerCommitPhaseTwo(c, f) ==
  /\ pc[c] = "phasetwo" /\ Turn(c, f)
  /\ pager_end_transaction(c, f, Multi(c), TRUE)
  /\ current' = Committed({f})
  /\ durable' = IF Env.mode[c] = "delete" /\ ~Env.extraSync THEN durable
                ELSE [durable EXCEPT ![f] = db[f]]
  /\ AfterPhaseTwo(c, f)
  /\ UNCHANGED <<scenario, db, super, dbDisk, superDisk, cache, nTx, calls, nFault>>

-----------------------------------------------------------------------------
Fault(kind) == kind \in Env.fault /\ nFault < Env.maxFault /\ nFault' = nFault + 1

(* A write, sync or deletion of the commit fails, and it rolls back.       *)
CommitIOError(c) ==
  /\ \/ pc[c] = "exclusive" /\ loc[c].todo = {}
     \/ pc[c] \in {"phaseone", "syncjournal", "writelist", "syncdb", "deletesuper"}
  /\ Fault("ioerr")
  /\ Goto(c, "rollback", [loc[c] EXCEPT !.todo = Writing(c), !.f = Null])
  /\ UNCHANGED <<scenario, lock, files, disk, cache, history, nTx, calls>>

(* The super-journal is deleted, and the sync of the directory fails.      *)
DirSyncFails(c) ==
  /\ pc[c] = "deletesuper" /\ Fault("ioerr")
  /\ super' = [super EXCEPT ![loc[c].v] = Null]
  /\ superDisk' = [superDisk EXCEPT ![loc[c].v] = @ \cup {Null}]
  /\ current' = Committed(loc[c].write)
  /\ Goto(c, "rollback", [loc[c] EXCEPT !.todo = Writing(c), !.f = Null])
  /\ UNCHANGED <<scenario, lock, db, jrnl, dbDisk, jrnlDisk, cache, durable, nTx, calls>>

(* The journal cannot be finalised: it stays, for whoever comes next.      *)
PhaseTwoIOError(c, f) ==
  /\ pc[c] = "phasetwo" /\ Turn(c, f) /\ Fault("ioerr")
  /\ Lower(H(c, f), NO_LOCK) /\ SetCache(c, f, Null)
  /\ LET l == [loc[c] EXCEPT !.todo = @ \ {f}, !.opened = @ \ {f}, !.open = @ \ {f}]
     IN  IF l.todo = {} THEN Goto(c, "next", [l EXCEPT !.write = {}]) ELSE Goto(c, "phasetwo", l)
  /\ UNCHANGED <<scenario, files, disk, history, nTx, calls>>

(* The process of a connection dies; in the second phase of a commit that  *)
(* has deleted its super-journal this leaves journals behind.              *)
Kill(c) ==
  /\ pc[c] # "idle"
  /\ Fault(IF pc[c] = "phasetwo" /\ Multi(c) THEN "killPhaseTwo" ELSE "kill")
  /\ Drop({c} \X File) /\ Goto(c, "idle", NoTx)
  /\ cache' = [cache EXCEPT ![c] = [f \in File |-> Null]]
  /\ UNCHANGED <<scenario, files, disk, history, nTx, calls>>

(* The version of a file that the next reader is to find, given a journal, *)
(* the file, and the super-journals.                                       *)
Recovered(j, d, s) ==
  IF j # Null /\ j.hot /\ (j.super = Null \/ s[j.super] # Null) THEN j.orig ELSE d

PowerLoss ==
  /\ Fault("power")
  /\ db' \in [File -> UNION {dbDisk[f] : f \in File}] /\ \A f \in File : db'[f] \in dbDisk[f]
  /\ jrnl' \in [File -> UNION {jrnlDisk[f] : f \in File}] /\ \A f \in File : jrnl'[f] \in jrnlDisk[f]
  /\ super' \in [1 .. MaxTx -> UNION {superDisk[n] : n \in 1 .. MaxTx}]
  /\ \A n \in 1 .. MaxTx : super'[n] \in superDisk[n]
  /\ dbDisk' = [f \in File |-> {db'[f]}] /\ jrnlDisk' = [f \in File |-> {jrnl'[f]}]
  /\ superDisk' = [n \in 1 .. MaxTx |-> {super'[n]}]
  /\ Drop(Handle) /\ pc' = [c \in Conn |-> "idle"] /\ loc' = [c \in Conn |-> NoTx]
  /\ cache' = [c \in Conn |-> [f \in File |-> Null]]
  /\ current' = [f \in File |-> Recovered(jrnl'[f], db'[f], super')] /\ durable' = current'
  /\ UNCHANGED <<scenario, nTx, calls>>

Step(c) ==
  \/ Begin(c) \/ JournalExists(c) \/ CheckReservedLock(c) \/ FirstByte(c) \/ HotLock(c)
  \/ HotOpen(c) \/ CheckVersion(c) \/ pager_playback(c) \/ RestorePages(c) \/ EndPlayback(c)
  \/ pager_delsuper(c) \/ DelSuperRead(c) \/ DelSuperDelete(c) \/ sqlite3PagerBegin(c) \/ pager_open_journal(c)
  \/ EndRead(c) \/ sqlite3RollbackAll(c) \/ RolledBack(c) \/ vdbeCommit(c) \/ CreateSuper(c)
  \/ syncJournal(c) \/ pager_write_pagelist(c) \/ sqlite3PagerSync(c) \/ DeleteSuper(c)
  \/ CommitIOError(c) \/ DirSyncFails(c) \/ Kill(c)
  \/ \E f \in File : \/ pager_wait_on_lock(c, f) \/ DelSuperOther(c, f)
                     \/ sqlite3PagerRollback(c, f) \/ sqlite3PagerExclusiveLock(c, f)
                     \/ writeSuperJournal(c, f) \/ sqlite3PagerCommitPhaseTwo(c, f)
                     \/ PhaseTwoIOError(c, f)

Next == PowerLoss \/ \E c \in Conn : Step(c)

Spec == Init /\ [][Next]_vars

-----------------------------------------------------------------------------
Labels == {"idle", "next", "exists", "reserved", "first", "hot", "hotopen", "version", "playback",
           "restore", "endplayback", "delsuper", "delother", "delread", "reserve", "journal", "rollback",
           "exclusive", "phaseone", "syncjournal", "writelist", "syncdb", "deletesuper", "phasetwo"}

TypeOK ==
  /\ db \in [File -> Version \cup {Torn}] /\ jrnl \in [File -> Journal \cup {Null}]
  /\ \A n \in 1 .. MaxTx : super[n] = Null \/ super[n] \subseteq File
  /\ \A f \in File : dbDisk[f] \subseteq Version \cup {Torn} /\ jrnlDisk[f] \subseteq Journal \cup {Null}
  /\ pc \in [Conn -> Labels] /\ cache \in [Conn -> [File -> Version \cup {Null, Torn}]]
  /\ current \in [File -> Version] /\ durable \in [File -> Version]
  /\ lock \in [Handle -> Level] /\ Exclusion

(* Whenever the processes die, whoever opens the files next finds the last *)
(* committed version of each: a transaction on several files is there in   *)
(* all of them or in none, and one on a single file as a whole             *)
(* (vdbeCommit, pager_playback, pager_delsuper).                           *)
AtomicCommit == \A f \in File : Recovered(jrnl[f], db[f], super) = current[f]

(* The same for a loss of power at any time.  Only a commit whose journal  *)
(* was deleted without a sync of the directory may be taken back, and none *)
(* with a super-journal.                                                   *)
PowerLossAtomic ==
  \A f \in File : \A j \in jrnlDisk[f], d \in dbDisk[f] :
    \A s \in IF j = Null \/ j.super = Null THEN {Null} ELSE superDisk[j.super] :
      Recovered(j, d, [n \in 1 .. MaxTx |-> s]) \in {current[f], durable[f]}

(* What a transaction reads of a file, from the file or from a page cache  *)
(* that has survived since an earlier transaction, is the version          *)
(* committed last, as long as it has not changed it itself                 *)
(* (sqlite3PagerSharedLock).                                               *)
ReadsCommitted ==
  \A c \in Conn : \A f \in loc[c].open \ loc[c].opened : cache[c][f] = current[f]
===============================================================================
