--------------------------------- MODULE Wal ---------------------------------
(***************************************************************************)
(* The write-ahead log of wal.c: connections that read a snapshot, append  *)
(* frames, restart the log, checkpoint it and recover its index, with the  *)
(* death of a process at any step and the loss of power.                   *)
(*                                                                         *)
(* A step of a connection is one access to what it shares with the others: *)
(* a lock byte, a word or header copy of the wal-index, one frame of the   *)
(* log, one page of the database, or a sync.  Loads and stores of the      *)
(* wal-index are sequentially consistent (the code's barriers).  Salts are *)
(* drawn from a counter, so two generations of the log never share one,    *)
(* and checksums never collide: the checksum of a frame is the sequence of *)
(* what it covers.  Every call of walFrames writes one fresh value.        *)
(***************************************************************************)
EXTENDS Integers, FiniteSets, Sequences

CONSTANTS
  Conn,         \* connections, each in a process of its own
  MaxPage,      \* largest database, in pages
  NReader,      \* WAL_NREADER
  Scenario,     \* by name, who does what with which settings: see WalAssumption
  MaxFrame,     \* bound: frames of the log in any scenario
  RetryLimit,   \* WAL_RETRY_PROTOCOL_LIMIT
  Null

VARIABLES
  scenario,             \* which one
  walFile, db,          \* the log and the database as the processes see them
  walDisk, dbDisk,      \* what the log, and each page, may be after a power loss
  shm,                  \* the wal-index
  sh, ex,               \* who holds each lock byte shared, exclusive
  pc, loc,              \* per connection: where it is, and its locals
  hdr, nCkpt,           \* per connection: Wal.hdr and Wal.nCkpt
  cache,                \* per connection: the version its page cache holds
  calls, nVal, nSalt, nFault,
  hist, tents, floor, synced \* history: see Recovered below

Env == Scenario[scenario]
file == <<scenario, walFile, db, walDisk, dbDisk>>
locks == <<sh, ex>>
conn == <<pc, loc, hdr, nCkpt, cache>>
bounds == <<nVal, nSalt, nFault>>
ghost == <<hist, tents, floor, synced>>
vars == <<file, shm, locks, conn, calls, bounds, ghost>>

(* A scenario: the connections that read, write and checkpoint, the modes  *)
(* of checkpoints, PRAGMA synchronous=FULL or NORMAL, the faults that may  *)
(* happen, the calls of walFrames (pages, and the new size or 0 to spill), *)
(* and bounds: calls of each connection to open, read, checkpoint or       *)
(* close, calls of walFrames, frames and generations of the log, faults.   *)
ASSUME WalAssumption ==
  /\ Null \notin Conn /\ MaxPage \in Nat \ {0} /\ NReader \in Nat /\ NReader > 1
  /\ MaxFrame \in Nat \ {0} /\ RetryLimit \in Nat
  /\ \A s \in DOMAIN Scenario : Scenario[s] \in
       [reader : SUBSET Conn, writer : SUBSET Conn, checkpointer : SUBSET Conn,
        mode : SUBSET {"passive", "full", "restart", "truncate"}, fullSync : BOOLEAN,
        fault : SUBSET {"kill", "killRestart", "power", "ioerr"},
        tx : SUBSET ((SUBSET (1 .. MaxPage)) \X (0 .. MaxPage)),
        maxCall : [Conn -> Nat], maxVal : Nat, maxFrame : 1 .. MaxFrame, maxSalt : Nat,
        maxFault : Nat]

Page == 1 .. MaxPage
FrameNo == 1 .. MaxFrame
Absent == -1                \* a page past the end of the database
Torn == -2                  \* a page that a power loss left half written
READMARK_NOT_USED == MaxFrame + 1
WAL_WRITE_LOCK == 0
WAL_CKPT_LOCK == 1
WAL_RECOVER_LOCK == 2
WAL_READ_LOCK(i) == 3 + i
AllReadMarks == {WAL_READ_LOCK(i) : i \in 1 .. NReader - 1}
Lock == 0 .. WAL_READ_LOCK(NReader - 1)
MaxOf(S) == CHOOSE x \in S : \A y \in S : y <= x
MaxVal == MaxOf({Scenario[s].maxVal : s \in DOMAIN Scenario})

(* The locals of a connection that is in no call.                          *)
NoLocals == [op |-> "none", h1 |-> Null, cnt |-> 0, changed |-> FALSE, mode |-> "passive",
             readLock |-> -1, minFrame |-> 0, i |-> 0, mxI |-> 0, mark |-> 0,
             mxSafeFrame |-> 0, todo |-> {}, list |-> <<>>, n |-> 0, iFirst |-> 0,
             iReCksum |-> 0, iFrame |-> 0, appended |-> <<>>, pend |-> Null]
ZeroShm == [h0 |-> Null, h1 |-> Null, nBackfill |-> 0, nBackfillAttempted |-> 0,
            aReadMark |-> [i \in 1 .. NReader - 1 |-> 0], aPgno |-> [f \in FrameNo |-> 0]]
NoLog == [hdr |-> Null, frame |-> [f \in FrameNo |-> Null]]
FirstVersion == [p \in Page |-> 0]

Init ==
  /\ scenario \in DOMAIN Scenario
  /\ walFile = NoLog /\ db = FirstVersion
  /\ walDisk = {NoLog}
  /\ dbDisk = [p \in Page |-> {0}]
  /\ shm = ZeroShm
  /\ sh = [l \in Lock |-> {}] /\ ex = [l \in Lock |-> Null]
  /\ pc = [c \in Conn |-> "closed"] /\ loc = [c \in Conn |-> NoLocals]
  /\ hdr = [c \in Conn |-> Null] /\ nCkpt = [c \in Conn |-> 0]
  /\ cache = [c \in Conn |-> Null]
  /\ calls = [c \in Conn |-> 0] /\ nVal = 0 /\ nSalt = 0 /\ nFault = 0
  /\ hist = <<FirstVersion>> /\ tents = {} /\ floor = 1 /\ synced = 1

-----------------------------------------------------------------------------
(* Locks.                                                                  *)
CanLock(c, L) == \A l \in L : ex[l] \in {Null, c} /\ sh[l] = {}
(* Mutant: a shared lock is granted over an exclusive one.                *)
CanShare_Ignored(l) == l \in Lock

CanShare(l) == ex[l] = Null
LockExclusive(c, L) == ex' = [l \in Lock |-> IF l \in L THEN c ELSE ex[l]]
UnlockExclusive(c, L) == ex' = [l \in Lock |-> IF l \in L /\ ex[l] = c THEN Null ELSE ex[l]]
LockShared(c, l) == sh' = [sh EXCEPT ![l] = @ \cup {c}]
UnlockShared(c, l) == sh' = [sh EXCEPT ![l] = @ \ {c}]

(* A call that a program makes.                                            *)
Call(c) == calls[c] < Env.maxCall[c] /\ calls' = [calls EXCEPT ![c] = @ + 1]
(* Move connection c to a step, with new locals.                           *)
Goto(c, step, l) == pc' = [pc EXCEPT ![c] = step] /\ loc' = [loc EXCEPT ![c] = l]
(* The cached header of c.                                                 *)
SetHdr(c, h) == hdr' = [hdr EXCEPT ![c] = h]
Live == shm.h0

(* Reading.  The size of the database, the frame that holds a page, and    *)
(* the database as connection c reads it.                                  *)
DbSize == IF \E p \in Page : db[p] # Absent THEN MaxOf({p \in Page : db[p] # Absent}) ELSE 0
sqlite3WalDbsize(h) == IF h.nPage = 0 THEN DbSize ELSE h.nPage
walFindFrame(c, h, p) ==
  LET S == {f \in FrameNo : f <= h.mxFrame /\ f >= loc[c].minFrame /\ shm.aPgno[f] = p}
  IN IF loc[c].readLock = 0 \/ S = {} THEN 0 ELSE MaxOf(S)
PageAt(c, p) ==
  LET f == walFindFrame(c, hdr[c], p) IN IF f = 0 THEN db[p] ELSE walFile.frame[f].val
View(c) == [p \in Page |-> IF p <= sqlite3WalDbsize(hdr[c]) THEN PageAt(c, p) ELSE Absent]

(* What may be on the disk: a write that is not synced may be there, may   *)
(* not be there, or may be there in part; a truncation or deletion may or  *)
(* may not have happened.                                                  *)
Power == "power" \in Env.fault
WriteFrameFile(f, x) ==
  /\ walFile' = [walFile EXCEPT !.frame[f] = x]
  /\ walDisk' = IF ~Power THEN walDisk
                ELSE walDisk \cup {[d EXCEPT !.frame[f] = y] : d \in walDisk, y \in {x, Null}}
WriteHdrFile(h) ==
  /\ walFile' = [walFile EXCEPT !.hdr = h]
  /\ walDisk' = IF ~Power THEN walDisk
                ELSE walDisk \cup {[d EXCEPT !.hdr = y] : d \in walDisk, y \in {h, Null}}
TruncateLog == walFile' = NoLog /\ walDisk' = IF Power THEN walDisk \cup {NoLog} ELSE walDisk
SyncLog == walDisk' = IF Power THEN {walFile} ELSE walDisk
WriteDb(p, x) ==
  /\ db' = [db EXCEPT ![p] = x]
  /\ dbDisk' = IF Power THEN [dbDisk EXCEPT ![p] = @ \cup {x, Torn}] ELSE dbDisk
TruncateDb(n) ==
  /\ db' = [p \in Page |-> IF p <= n THEN db[p] ELSE Absent]
  /\ dbDisk' = IF Power THEN [p \in Page |-> IF p <= n THEN dbDisk[p] ELSE dbDisk[p] \cup {Absent}]
               ELSE dbDisk
SyncDb == dbDisk' = IF Power THEN [p \in Page |-> {db[p]}] ELSE dbDisk

-----------------------------------------------------------------------------
(* sqlite3WalOpen, at the first access of a connection.  The first one of  *)
(* all finds the wal-index file empty (the VFS truncates it).              *)
sqlite3WalOpen(c) ==
  /\ Call(c) /\ pc[c] = "closed"
  /\ \A d \in Conn : loc[d].op # "close"
  /\ shm' = IF \A d \in Conn : pc[d] = "closed" THEN ZeroShm ELSE shm
  /\ Goto(c, "idle", NoLocals) /\ SetHdr(c, Null)
  /\ nCkpt' = [nCkpt EXCEPT ![c] = 0] /\ cache' = [cache EXCEPT ![c] = Null]
  /\ UNCHANGED <<file, locks, bounds, ghost>>

(* sqlite3WalClose.  The last connection checkpoints and deletes the log.  *)
sqlite3WalClose(c) ==
  /\ Call(c) /\ pc[c] = "idle"
  /\ IF \A d \in Conn \ {c} : pc[d] = "closed"
     THEN /\ Goto(c, "try1", [NoLocals EXCEPT !.op = "close"])
          /\ LockExclusive(c, {WAL_CKPT_LOCK})
          /\ UNCHANGED <<hdr, nCkpt, cache>>
     ELSE /\ Goto(c, "closed", NoLocals) /\ SetHdr(c, Null)
          /\ nCkpt' = [nCkpt EXCEPT ![c] = 0] /\ cache' = [cache EXCEPT ![c] = Null]
          /\ UNCHANGED ex
  /\ UNCHANGED <<file, shm, sh, bounds, ghost>>

-----------------------------------------------------------------------------
(* walIndexTryHdr and walIndexReadHdr, called to begin a read or to        *)
(* checkpoint.                                                             *)
AfterHdr(c) == IF loc[c].op = "read" THEN "nbackfill" ELSE "ckpt"
(* A connection that gives up before its read transaction begins; the      *)
(* pager then drops its page cache.                                        *)
GiveUp(c) ==
  IF loc[c].op = "write" THEN Goto(c, "undo", loc[c]) /\ UNCHANGED cache
  ELSE Goto(c, "idle", NoLocals) /\ cache' = [cache EXCEPT ![c] = Null]
Retry(c) ==
  IF loc[c].cnt >= RetryLimit THEN GiveUp(c)
  ELSE /\ Goto(c, IF loc[c].op = "write" THEN "marks" ELSE "try1",
               [loc[c] EXCEPT !.cnt = @ + 1, !.h1 = Null, !.mark = 0, !.mxI = 0, !.i = 0,
                              !.minFrame = 0])
       /\ UNCHANGED cache

sqlite3WalBeginReadTransaction(c) ==
  /\ Call(c) /\ pc[c] = "idle" /\ c \in Env.reader \cup Env.writer
  /\ Goto(c, "try1", [NoLocals EXCEPT !.op = "read"])
  /\ UNCHANGED <<file, shm, locks, hdr, nCkpt, cache, bounds, ghost>>

TryHdrFirst(c) ==
  /\ pc[c] = "try1"
  /\ Goto(c, "try2", [loc[c] EXCEPT !.h1 = shm.h0])
  /\ UNCHANGED <<calls, file, shm, locks, hdr, nCkpt, cache, bounds, ghost>>

TryHdrSecond(c) ==
  /\ pc[c] = "try2"
  /\ IF loc[c].h1 # Null /\ loc[c].h1 = shm.h1
     THEN /\ SetHdr(c, loc[c].h1)
          /\ Goto(c, AfterHdr(c), [loc[c] EXCEPT !.changed = @ \/ loc[c].h1 # hdr[c], !.h1 = Null])
     ELSE Goto(c, "badhdr", [loc[c] EXCEPT !.h1 = Null]) /\ UNCHANGED hdr
  /\ UNCHANGED <<calls, file, shm, locks, nCkpt, cache, bounds, ghost>>

(* walIndexRecover: what the log holds, up to its last commit.             *)
Chain(f) == IF f = 1 THEN <<walFile.hdr.salt>> ELSE walFile.frame[f - 1].ck
walDecodeFrame(f) ==
  /\ walFile.frame[f] # Null /\ walFile.frame[f].salt = walFile.hdr.salt
  /\ walFile.frame[f].ck = Append(Chain(f), <<walFile.frame[f].pgno, walFile.frame[f].val>>)
ValidFrames ==
  IF walFile.hdr = Null THEN {}
  ELSE {f \in FrameNo : \A g \in 1 .. f : walDecodeFrame(g)}
(* Mutant: every valid frame ends a transaction.                          *)
CommitFrames_All == ValidFrames

CommitFrames == {f \in ValidFrames : walFile.frame[f].nTruncate > 0}
RecoveredHdr ==
  IF CommitFrames = {}
  THEN [mxFrame |-> 0, nPage |-> 0, iChange |-> 0, ck |-> <<>>,
        salt |-> IF walFile.hdr = Null THEN 0 ELSE walFile.hdr.salt]
  ELSE LET m == MaxOf(CommitFrames)
       IN [mxFrame |-> m, nPage |-> walFile.frame[m].nTruncate, iChange |-> 0,
           ck |-> walFile.frame[m].ck, salt |-> walFile.hdr.salt]
(* The database that the log and the database file make up.                *)
RecoveredVersion ==
  LET h == RecoveredHdr
      of(p) == {f \in 1 .. h.mxFrame : walFile.frame[f].pgno = p}
  IN [p \in Page |-> IF p > sqlite3WalDbsize(h) THEN Absent
                     ELSE IF of(p) = {} THEN db[p] ELSE walFile.frame[MaxOf(of(p))].val]
(* History: hist is the sequence of committed versions, tents the commits  *)
(* that were started and not acknowledged, floor the versions of hist that *)
(* a recovery may not lose, synced those that survive a loss of power.     *)
Recovered(v) ==
  LET kept == {k \in floor .. Len(hist) : hist[k] = v}
      late == {t \in tents : t.v = v /\ t.base >= floor}
  IN /\ hist' = IF kept # {} THEN SubSeq(hist, 1, MaxOf(kept))
                ELSE IF late # {} THEN Append(SubSeq(hist, 1, (CHOOSE t \in late : TRUE).base), v)
                ELSE hist
     /\ tents' = {} /\ floor' = Len(hist')
     /\ synced' = IF synced > Len(hist') THEN Len(hist') ELSE synced

(* Mutant: the page numbers of the frames are not indexed anew.           *)
BadHdr_NoIndex(c) ==
  /\ pc[c] = "badhdr"
  /\ LET good == shm.h0 # Null /\ shm.h0 = shm.h1
         needed == {WAL_CKPT_LOCK, WAL_RECOVER_LOCK}
     IN \/ /\ CanLock(c, {WAL_WRITE_LOCK}) /\ good
           /\ SetHdr(c, shm.h0)
           /\ Goto(c, AfterHdr(c), [loc[c] EXCEPT !.changed = @ \/ shm.h0 # hdr[c]])
           /\ UNCHANGED <<shm, ex, nCkpt, cache>>
        \/ /\ CanLock(c, {WAL_WRITE_LOCK}) /\ ~good /\ CanLock(c, needed)
           /\ LockExclusive(c, needed \cup {WAL_WRITE_LOCK})
           /\ SetHdr(c, RecoveredHdr)
           /\ nCkpt' = IF walFile.hdr = Null THEN nCkpt
                       ELSE [nCkpt EXCEPT ![c] = walFile.hdr.nCkpt]
           /\ UNCHANGED shm
           /\ Goto(c, "recover1", [loc[c] EXCEPT !.changed = TRUE]) /\ UNCHANGED cache
        \/ /\ ~CanLock(c, {WAL_WRITE_LOCK}) \/ (~good /\ ~CanLock(c, needed))
           /\ IF loc[c].op # "read" THEN Goto(c, "ckptout", loc[c]) /\ UNCHANGED cache
              ELSE IF CanShare(WAL_RECOVER_LOCK) THEN Retry(c) ELSE GiveUp(c)
           /\ UNCHANGED <<shm, ex, hdr, nCkpt>>
  /\ UNCHANGED <<calls, file, sh, bounds, ghost>>

(* Both copies of the header differ or are not initialised: look again     *)
(* under the write lock, and rebuild the index if it is still so.          *)
BadHdr(c) ==
  /\ pc[c] = "badhdr"
  /\ LET good == shm.h0 # Null /\ shm.h0 = shm.h1
         needed == {WAL_CKPT_LOCK, WAL_RECOVER_LOCK}
     IN \/ /\ CanLock(c, {WAL_WRITE_LOCK}) /\ good
           /\ SetHdr(c, shm.h0)
           /\ Goto(c, AfterHdr(c), [loc[c] EXCEPT !.changed = @ \/ shm.h0 # hdr[c]])
           /\ UNCHANGED <<shm, ex, nCkpt, cache>>
        \/ /\ CanLock(c, {WAL_WRITE_LOCK}) /\ ~good /\ CanLock(c, needed)
           /\ LockExclusive(c, needed \cup {WAL_WRITE_LOCK})
           /\ SetHdr(c, RecoveredHdr)
           /\ nCkpt' = IF walFile.hdr = Null THEN nCkpt
                       ELSE [nCkpt EXCEPT ![c] = walFile.hdr.nCkpt]
           /\ shm' = [shm EXCEPT !.aPgno = [f \in FrameNo |-> IF f \in ValidFrames
                                            THEN walFile.frame[f].pgno ELSE 0]]
           /\ Goto(c, "recover1", [loc[c] EXCEPT !.changed = TRUE]) /\ UNCHANGED cache
        \/ /\ ~CanLock(c, {WAL_WRITE_LOCK}) \/ (~good /\ ~CanLock(c, needed))
           /\ IF loc[c].op # "read" THEN Goto(c, "ckptout", loc[c]) /\ UNCHANGED cache
              ELSE IF CanShare(WAL_RECOVER_LOCK) THEN Retry(c) ELSE GiveUp(c)
           /\ UNCHANGED <<shm, ex, hdr, nCkpt>>
  /\ UNCHANGED <<calls, file, sh, bounds, ghost>>

RecoverHdrSecond(c) ==
  /\ pc[c] = "recover1" /\ shm' = [shm EXCEPT !.h1 = hdr[c]]
  /\ Goto(c, "recover0", loc[c])
  /\ UNCHANGED <<calls, file, locks, hdr, nCkpt, cache, bounds, ghost>>

RecoverHdrFirst(c) ==
  /\ pc[c] = "recover0" /\ shm' = [shm EXCEPT !.h0 = hdr[c]]
  /\ Recovered(RecoveredVersion)
  /\ Goto(c, "recoverinfo", loc[c])
  /\ UNCHANGED <<calls, file, locks, hdr, nCkpt, cache, bounds>>

RecoverInfo(c) ==
  /\ pc[c] = "recoverinfo"
  /\ shm' = [shm EXCEPT !.nBackfill = 0, !.nBackfillAttempted = hdr[c].mxFrame]
  /\ Goto(c, "recovermark", [loc[c] EXCEPT !.mxI = 1])
  /\ UNCHANGED <<calls, file, locks, hdr, nCkpt, cache, bounds, ghost>>

(* The read-marks that nobody uses; then release the locks.                *)
RecoverMark(c) ==
  /\ pc[c] = "recovermark"
  /\ LET i == loc[c].mxI
         release == {WAL_RECOVER_LOCK} \cup (IF loc[c].mode = "passive" THEN {WAL_WRITE_LOCK} ELSE {})
                    \cup (IF loc[c].op = "read" THEN {WAL_CKPT_LOCK} ELSE {})
     IN /\ shm' = IF ~CanLock(c, {WAL_READ_LOCK(i)}) THEN shm
                  ELSE [shm EXCEPT !.aReadMark[i] = IF i = 1 /\ hdr[c].mxFrame > 0
                                                    THEN hdr[c].mxFrame ELSE READMARK_NOT_USED]
        /\ IF i < NReader - 1
           THEN Goto(c, "recovermark", [loc[c] EXCEPT !.mxI = i + 1]) /\ UNCHANGED ex
           ELSE /\ Goto(c, AfterHdr(c), [loc[c] EXCEPT !.mxI = 0])
                /\ UnlockExclusive(c, release)
  /\ UNCHANGED <<calls, file, sh, hdr, nCkpt, cache, bounds, ghost>>

-----------------------------------------------------------------------------
(* walTryBeginRead.                                                        *)

(* A read transaction begins.  pager_reset drops the page cache unless the *)
(* header is the one of the transaction before.  A writer that restarted   *)
(* the log goes on with its frames.                                        *)
Begun(c, slot) ==
  IF loc[c].op = "write"
  THEN /\ Goto(c, "loghdr", [loc[c] EXCEPT !.readLock = slot, !.cnt = 0, !.mark = 0, !.mxI = 0])
       /\ UNCHANGED cache
  ELSE /\ Goto(c, "read", [NoLocals EXCEPT !.readLock = slot, !.minFrame = loc[c].minFrame])
       /\ cache' = IF loc[c].changed \/ cache[c] = Null THEN [cache EXCEPT ![c] = hist[Len(hist)]] ELSE cache

(* Is the log completely backfilled?                                       *)
LoadBackfill(c) ==
  /\ pc[c] = "nbackfill"
  /\ Goto(c, IF shm.nBackfill = hdr[c].mxFrame THEN "lock0" ELSE "marks", loc[c])
  /\ UNCHANGED <<calls, file, shm, locks, hdr, nCkpt, cache, bounds, ghost>>

LockRead0(c) ==
  /\ pc[c] = "lock0"
  /\ IF CanShare(WAL_READ_LOCK(0))
     THEN LockShared(c, WAL_READ_LOCK(0)) /\ Goto(c, "check0", loc[c])
     ELSE Goto(c, "marks", loc[c]) /\ UNCHANGED sh
  /\ UNCHANGED <<calls, file, shm, ex, hdr, nCkpt, cache, bounds, ghost>>

CheckRead0(c) ==
  /\ pc[c] = "check0"
  /\ IF Live = hdr[c]
     THEN Begun(c, 0) /\ UNCHANGED sh
     ELSE UnlockShared(c, WAL_READ_LOCK(0)) /\ Retry(c)
  /\ UNCHANGED <<calls, file, shm, ex, hdr, nCkpt, bounds, ghost>>

(* The largest read-mark that is not past the snapshot.                    *)
ScanMarks(c) ==
  /\ pc[c] = "marks"
  /\ LET mx == hdr[c].mxFrame
         fit == {i \in 1 .. NReader - 1 : shm.aReadMark[i] <= mx}
         best == {i \in fit : \A j \in fit : shm.aReadMark[j] <= shm.aReadMark[i]}
         l == IF fit = {} THEN [loc[c] EXCEPT !.mxI = 0, !.mark = 0]
              ELSE [loc[c] EXCEPT !.mxI = MaxOf(best), !.mark = shm.aReadMark[MaxOf(best)]]
     IN IF fit = {} \/ l.mark < mx THEN Goto(c, "raise", [l EXCEPT !.i = 1])
        ELSE Goto(c, "lockmark", l)
  /\ UNCHANGED <<calls, file, shm, locks, hdr, nCkpt, cache, bounds, ghost>>

(* Take a read-mark that nobody uses, to raise it to the snapshot.         *)
LockRaise(c) ==
  /\ pc[c] = "raise"
  /\ IF CanLock(c, {WAL_READ_LOCK(loc[c].i)})
     THEN LockExclusive(c, {WAL_READ_LOCK(loc[c].i)}) /\ Goto(c, "store", loc[c]) /\ UNCHANGED cache
     ELSE /\ UNCHANGED ex
          /\ IF loc[c].i = NReader - 1 /\ loc[c].mxI = 0 THEN Retry(c)
             ELSE /\ UNCHANGED cache
                  /\ IF loc[c].i < NReader - 1 THEN Goto(c, "raise", [loc[c] EXCEPT !.i = @ + 1])
                     ELSE Goto(c, "lockmark", [loc[c] EXCEPT !.i = 0])
  /\ UNCHANGED <<calls, file, shm, sh, hdr, nCkpt, bounds, ghost>>

StoreMark(c) ==
  /\ pc[c] = "store"
  /\ shm' = [shm EXCEPT !.aReadMark[loc[c].i] = hdr[c].mxFrame]
  /\ UnlockExclusive(c, {WAL_READ_LOCK(loc[c].i)})
  /\ Goto(c, "lockmark", [loc[c] EXCEPT !.mxI = loc[c].i, !.mark = hdr[c].mxFrame, !.i = 0])
  /\ UNCHANGED <<calls, file, sh, hdr, nCkpt, cache, bounds, ghost>>

LockMark(c) ==
  /\ pc[c] = "lockmark"
  /\ IF CanShare(WAL_READ_LOCK(loc[c].mxI))
     THEN LockShared(c, WAL_READ_LOCK(loc[c].mxI)) /\ Goto(c, "minframe", loc[c]) /\ UNCHANGED cache
     ELSE Retry(c) /\ UNCHANGED sh
  /\ UNCHANGED <<calls, file, shm, ex, hdr, nCkpt, bounds, ghost>>

LoadMinFrame(c) ==
  /\ pc[c] = "minframe"
  /\ Goto(c, "checkmark", [loc[c] EXCEPT !.minFrame = shm.nBackfill + 1])
  /\ UNCHANGED <<calls, file, shm, locks, hdr, nCkpt, cache, bounds, ghost>>

(* Mutant: the header is not compared again.                              *)
CheckMark_NoHeader(c) ==
  /\ pc[c] = "checkmark"
  /\ IF shm.aReadMark[loc[c].mxI] = loc[c].mark
     THEN Begun(c, loc[c].mxI) /\ UNCHANGED sh
     ELSE UnlockShared(c, WAL_READ_LOCK(loc[c].mxI)) /\ Retry(c)
  /\ UNCHANGED <<calls, file, shm, ex, hdr, nCkpt, bounds, ghost>>

(* Neither the mark nor the header may have changed meanwhile.             *)
CheckMark(c) ==
  /\ pc[c] = "checkmark"
  /\ IF shm.aReadMark[loc[c].mxI] = loc[c].mark /\ Live = hdr[c]
     THEN Begun(c, loc[c].mxI) /\ UNCHANGED sh
     ELSE UnlockShared(c, WAL_READ_LOCK(loc[c].mxI)) /\ Retry(c)
  /\ UNCHANGED <<calls, file, shm, ex, hdr, nCkpt, bounds, ghost>>

sqlite3WalEndReadTransaction(c) ==
  /\ pc[c] = "read"
  /\ UnlockShared(c, WAL_READ_LOCK(loc[c].readLock))
  /\ Goto(c, "idle", NoLocals)
  /\ UNCHANGED <<calls, file, shm, ex, hdr, nCkpt, cache, bounds, ghost>>

-----------------------------------------------------------------------------
(* Writing.                                                                *)

(* Only from the newest snapshot, and one writer at a time.                *)
sqlite3WalBeginWriteTransaction(c) ==
  /\ pc[c] = "read" /\ c \in Env.writer
  /\ CanLock(c, {WAL_WRITE_LOCK}) /\ Live = hdr[c]
  /\ LockExclusive(c, {WAL_WRITE_LOCK})
  /\ Goto(c, "write", [loc[c] EXCEPT !.op = "write", !.pend = cache[c]])
  /\ UNCHANGED <<calls, file, shm, sh, hdr, nCkpt, cache, bounds, ghost>>

(* The version after pages S of version v get value x, with n pages.       *)
Updated(v, S, x, n) ==
  [p \in Page |-> IF p > n THEN Absent ELSE IF p \in S THEN x ELSE v[p]]
PagesOf(v) == {p \in Page : v[p] # Absent}
Ascending(S) == CHOOSE s \in [1 .. Cardinality(S) -> S] :
                  \A i, j \in DOMAIN s : i < j => s[i] < s[j]

(* walFrames is called with the dirty pages S: to commit a database of n   *)
(* pages, or (n = 0) to spill one page of a transaction that goes on.      *)
walFrames(c, S, n) ==
  /\ pc[c] = "write" /\ nVal < Env.maxVal
  /\ Cardinality(S) + (IF loc[c].readLock = 0 /\ shm.nBackfill > 0 THEN 0 ELSE hdr[c].mxFrame)
       <= Env.maxFrame
  /\ \/ n > 0 /\ S \subseteq 1 .. n /\ (1 .. n) \ S \subseteq PagesOf(loc[c].pend)
     \/ n = 0 /\ Cardinality(S) = 1 /\ S \subseteq PagesOf(loc[c].pend)
  /\ nVal' = nVal + 1
  /\ LET size == IF n > 0 THEN n ELSE Cardinality(PagesOf(loc[c].pend))
         v == Updated(loc[c].pend, S, nVal + 1, size)
     IN /\ Goto(c, IF loc[c].readLock = 0 THEN "restart" ELSE "loghdr",
                [loc[c] EXCEPT !.list = Ascending(S), !.n = n, !.pend = v,
                               !.iFirst = IF Live # hdr[c] THEN Live.mxFrame + 1 ELSE 0])
        /\ tents' = IF n = 0 THEN tents ELSE tents \cup {[v |-> v, base |-> Len(hist)]}
  /\ UNCHANGED <<calls, file, shm, locks, hdr, nCkpt, cache, nSalt, nFault, hist, floor, synced>>

(* walRestartLog: if everything is backfilled and nobody reads the log,    *)
(* start it over; in any case stop reading the database alone.             *)
walRestartLog(c) ==
  /\ pc[c] = "restart"
  /\ IF shm.nBackfill > 0 /\ CanLock(c, AllReadMarks)
     THEN LockExclusive(c, AllReadMarks) /\ Goto(c, "restart1", loc[c]) /\ UNCHANGED sh
     ELSE /\ UnlockShared(c, WAL_READ_LOCK(0)) /\ UNCHANGED ex
          /\ Goto(c, "marks", [loc[c] EXCEPT !.readLock = -1])
  /\ UNCHANGED <<calls, file, shm, hdr, nCkpt, cache, bounds, ghost>>

(* walRestartHdr: the header, second copy first, then the checkpoint info. *)
RestartHdrSecond(c) ==
  /\ pc[c] = "restart1" /\ nSalt < Env.maxSalt
  /\ nSalt' = nSalt + 1 /\ nCkpt' = [nCkpt EXCEPT ![c] = @ + 1]
  /\ SetHdr(c, [hdr[c] EXCEPT !.mxFrame = 0, !.salt = nSalt + 1])
  /\ shm' = [shm EXCEPT !.h1 = hdr'[c]]
  /\ Goto(c, "restart0", loc[c])
  /\ UNCHANGED <<calls, file, locks, cache, nVal, nFault, ghost>>

RestartHdrFirst(c) ==
  /\ pc[c] = "restart0" /\ shm' = [shm EXCEPT !.h0 = hdr[c]]
  /\ Goto(c, "restartinfo", loc[c])
  /\ UNCHANGED <<calls, file, locks, hdr, nCkpt, cache, bounds, ghost>>

(* Mutant: nBackfill is not reset.                                        *)
RestartBackfill_Kept(c) ==
  /\ pc[c] = "restartinfo" /\ UNCHANGED shm
  /\ Goto(c, "restartmarks", loc[c])
  /\ UNCHANGED <<calls, file, locks, hdr, nCkpt, cache, bounds, ghost>>

RestartBackfill(c) ==
  /\ pc[c] = "restartinfo" /\ shm' = [shm EXCEPT !.nBackfill = 0]
  /\ Goto(c, "restartmarks", loc[c])
  /\ UNCHANGED <<calls, file, locks, hdr, nCkpt, cache, bounds, ghost>>

RestartMarks(c) ==
  /\ pc[c] = "restartmarks"
  /\ shm' = [shm EXCEPT !.nBackfillAttempted = 0,
                        !.aReadMark = [i \in 1 .. NReader - 1 |->
                                         IF i = 1 THEN 0 ELSE READMARK_NOT_USED]]
  /\ IF loc[c].op = "write"
     THEN /\ UnlockExclusive(c, AllReadMarks) /\ UnlockShared(c, WAL_READ_LOCK(0))
          /\ Goto(c, "marks", [loc[c] EXCEPT !.readLock = -1])
     ELSE Goto(c, "truncate", loc[c]) /\ UNCHANGED locks
  /\ UNCHANGED <<calls, file, hdr, nCkpt, cache, bounds, ghost>>

(* The header of the log file, when the log is (re)started.                *)
WriteLogHdr(c) ==
  /\ pc[c] = "loghdr"
  /\ LET fresh == nCkpt[c] = 0
         salt == IF fresh THEN nSalt + 1 ELSE hdr[c].salt
         h == [salt |-> salt, nCkpt |-> nCkpt[c]]
     IN IF hdr[c].mxFrame > 0
        THEN /\ Goto(c, "frames", [loc[c] EXCEPT !.iFrame = hdr[c].mxFrame])
             /\ UNCHANGED <<walFile, walDisk, hdr, nSalt>>
        ELSE /\ ~fresh \/ nSalt < Env.maxSalt
             /\ nSalt' = IF fresh THEN nSalt + 1 ELSE nSalt
             /\ WriteHdrFile(h)
             /\ SetHdr(c, [hdr[c] EXCEPT !.salt = salt, !.ck = <<salt>>])
             /\ Goto(c, "synchdr", [loc[c] EXCEPT !.iFrame = 0])
  /\ UNCHANGED <<scenario, calls, db, dbDisk, shm, locks, nCkpt, cache, nVal, nFault, ghost>>

(* Mutant: the header of a new log is not synced.                         *)
SyncLogHdr_None(c) ==
  /\ pc[c] = "synchdr"
  /\ Goto(c, "frames", loc[c])
  /\ UNCHANGED <<scenario, calls, walFile, walDisk, db, dbDisk, shm, locks, hdr, nCkpt, cache, bounds, ghost>>

SyncLogHdr(c) ==
  /\ pc[c] = "synchdr" /\ SyncLog
  /\ Goto(c, "frames", loc[c])
  /\ UNCHANGED <<scenario, calls, walFile, db, dbDisk, shm, locks, hdr, nCkpt, cache, bounds, ghost>>

(* Mutant: checksums are not rewritten.                                   *)
AfterFrames_NoReCksum(l) == IF l.n = 0 THEN "append"
                  ELSE IF Env.fullSync THEN "sync" ELSE "append"

(* The step after the last frame.                                          *)
AfterFrames(l) == IF l.n = 0 THEN "append" ELSE IF l.iReCksum > 0 THEN "recksum"
                  ELSE IF Env.fullSync THEN "sync" ELSE "append"

(* Mutant: a frame of an earlier transaction is written over.             *)
walWriteOneFrame_AnyFrame(c) ==
  /\ pc[c] = "frames"
  /\ LET p == Head(loc[c].list)
         last == Len(loc[c].list) = 1
         f == walFindFrame(c, hdr[c], p)
         over == loc[c].iFirst > 0 /\ (~last \/ loc[c].n = 0) /\ f > 0
         ck == Append(hdr[c].ck, <<p, nVal>>)
         cksum == loc[c].iReCksum = 0
         new == [pgno |-> p, val |-> nVal, nTruncate |-> IF last THEN loc[c].n ELSE 0,
                 salt |-> IF cksum THEN hdr[c].salt ELSE 0, ck |-> IF cksum THEN ck ELSE <<>>]
         l == IF over
              THEN [loc[c] EXCEPT !.list = Tail(@),
                                  !.iReCksum = IF @ = 0 \/ f < @ THEN f ELSE @]
              ELSE [loc[c] EXCEPT !.list = Tail(@), !.iFrame = @ + 1, !.appended = Append(@, p)]
     IN /\ over \/ loc[c].iFrame < Env.maxFrame
        /\ IF over
           THEN WriteFrameFile(f, [walFile.frame[f] EXCEPT !.val = nVal]) /\ UNCHANGED hdr
           ELSE /\ WriteFrameFile(loc[c].iFrame + 1, new)
                /\ SetHdr(c, IF cksum THEN [hdr[c] EXCEPT !.ck = ck] ELSE hdr[c])
        /\ Goto(c, IF last THEN AfterFrames(l) ELSE "frames", l)
  /\ UNCHANGED <<scenario, calls, db, dbDisk, shm, locks, nCkpt, cache, bounds, ghost>>

(* One page: over the frame that this transaction wrote for it before, or  *)
(* in a new frame.                                                         *)
walWriteOneFrame(c) ==
  /\ pc[c] = "frames"
  /\ LET p == Head(loc[c].list)
         last == Len(loc[c].list) = 1
         f == walFindFrame(c, hdr[c], p)
         over == loc[c].iFirst > 0 /\ (~last \/ loc[c].n = 0) /\ f >= loc[c].iFirst
         ck == Append(hdr[c].ck, <<p, nVal>>)
         cksum == loc[c].iReCksum = 0
         new == [pgno |-> p, val |-> nVal, nTruncate |-> IF last THEN loc[c].n ELSE 0,
                 salt |-> IF cksum THEN hdr[c].salt ELSE 0, ck |-> IF cksum THEN ck ELSE <<>>]
         l == IF over
              THEN [loc[c] EXCEPT !.list = Tail(@),
                                  !.iReCksum = IF @ = 0 \/ f < @ THEN f ELSE @]
              ELSE [loc[c] EXCEPT !.list = Tail(@), !.iFrame = @ + 1, !.appended = Append(@, p)]
     IN /\ over \/ loc[c].iFrame < Env.maxFrame
        /\ IF over
           THEN WriteFrameFile(f, [walFile.frame[f] EXCEPT !.val = nVal]) /\ UNCHANGED hdr
           ELSE /\ WriteFrameFile(loc[c].iFrame + 1, new)
                /\ SetHdr(c, IF cksum THEN [hdr[c] EXCEPT !.ck = ck] ELSE hdr[c])
        /\ Goto(c, IF last THEN AfterFrames(l) ELSE "frames", l)
  /\ UNCHANGED <<scenario, calls, db, dbDisk, shm, locks, nCkpt, cache, bounds, ghost>>

(* walRewriteChecksums: from the first frame that was overwritten.         *)
walRewriteChecksums(c) ==
  /\ pc[c] = "recksum"
  /\ LET f == loc[c].iReCksum
         old == walFile.frame[f]
         ck == Append(Chain(f), <<old.pgno, old.val>>)
     IN /\ WriteFrameFile(f, [old EXCEPT !.salt = hdr[c].salt, !.ck = ck])
        /\ SetHdr(c, [hdr[c] EXCEPT !.ck = ck])
        /\ IF f < loc[c].iFrame THEN Goto(c, "recksum", [loc[c] EXCEPT !.iReCksum = f + 1])
           ELSE Goto(c, IF Env.fullSync THEN "sync" ELSE "append", [loc[c] EXCEPT !.iReCksum = 0])
  /\ UNCHANGED <<scenario, calls, db, dbDisk, shm, locks, nCkpt, cache, bounds, ghost>>

(* Mutant: a commit does not sync the log.                                *)
SyncFrames_None(c) ==
  /\ pc[c] = "sync"
  /\ Goto(c, "append", loc[c])
  /\ UNCHANGED <<scenario, calls, walFile, walDisk, db, dbDisk, shm, locks, hdr, nCkpt, cache, bounds, ghost>>

SyncFrames(c) ==
  /\ pc[c] = "sync" /\ SyncLog
  /\ Goto(c, "append", loc[c])
  /\ UNCHANGED <<scenario, calls, walFile, db, dbDisk, shm, locks, hdr, nCkpt, cache, bounds, ghost>>

(* walIndexAppend for the new frames.  A commit goes on to publish the     *)
(* header, second copy first.                                              *)
walIndexAppend(c) ==
  /\ pc[c] = "append"
  /\ LET mx == hdr[c].mxFrame
         a == loc[c].appended
         pgno == [f \in FrameNo |-> IF f <= mx THEN shm.aPgno[f]
                                    ELSE IF f - mx <= Len(a) THEN a[f - mx] ELSE 0]
         h == [hdr[c] EXCEPT !.mxFrame = loc[c].iFrame]
         l == [loc[c] EXCEPT !.appended = <<>>, !.iFrame = 0, !.iFirst = 0]
     IN IF loc[c].n = 0
        THEN /\ shm' = [shm EXCEPT !.aPgno = pgno]
             /\ SetHdr(c, h) /\ Goto(c, "write", l)
        ELSE /\ SetHdr(c, [h EXCEPT !.iChange = @ + 1, !.nPage = loc[c].n])
             /\ shm' = [shm EXCEPT !.aPgno = pgno, !.h1 = hdr'[c]]
             /\ Goto(c, "publish", l)
  /\ UNCHANGED <<calls, file, locks, nCkpt, cache, bounds, ghost>>

(* The first copy of the header: the commit is visible.  The pager then    *)
(* calls sqlite3WalEndWriteTransaction.                                    *)
PublishHdr(c) ==
  /\ pc[c] = "publish"
  /\ shm' = [shm EXCEPT !.h0 = hdr[c]]
  /\ UnlockExclusive(c, {WAL_WRITE_LOCK})
  /\ cache' = [cache EXCEPT ![c] = loc[c].pend]
  /\ hist' = Append(hist, loc[c].pend) /\ floor' = Len(hist')
  /\ tents' = {t \in tents : t.v # loc[c].pend}
  /\ synced' = IF Env.fullSync THEN Len(hist') ELSE synced
  /\ Goto(c, "read", [NoLocals EXCEPT !.readLock = loc[c].readLock, !.minFrame = loc[c].minFrame])
  /\ UNCHANGED <<calls, file, sh, hdr, nCkpt, bounds>>

(* sqlite3WalUndo, after a ROLLBACK or an error.                           *)
sqlite3WalUndo(c) ==
  /\ pc[c] \in {"write", "undo"}
  /\ SetHdr(c, Live)
  /\ shm' = IF hdr[c].mxFrame = Live.mxFrame \/ Live.mxFrame = 0 THEN shm
            ELSE [shm EXCEPT !.aPgno = [f \in FrameNo |-> IF f <= Live.mxFrame THEN @[f] ELSE 0]]
  /\ UnlockExclusive(c, {WAL_WRITE_LOCK})
  /\ IF loc[c].readLock >= 0
     THEN Goto(c, "read", [NoLocals EXCEPT !.readLock = loc[c].readLock,
                                           !.minFrame = loc[c].minFrame])
     ELSE Goto(c, "idle", NoLocals)
  /\ UNCHANGED <<calls, file, sh, nCkpt, cache, bounds, ghost>>

(* A write or a sync of the log fails; the transaction is rolled back.     *)
WriteFails(c) ==
  /\ "ioerr" \in Env.fault /\ nFault < Env.maxFault
  /\ pc[c] \in {"synchdr", "frames", "recksum", "sync"}
  /\ Goto(c, "undo", [loc[c] EXCEPT !.list = <<>>, !.appended = <<>>, !.iFrame = 0, !.iFirst = 0,
                                    !.iReCksum = 0])
  /\ nFault' = nFault + 1
  /\ UNCHANGED <<calls, file, shm, locks, hdr, nCkpt, cache, nVal, nSalt, ghost>>

-----------------------------------------------------------------------------
(* sqlite3WalCheckpoint and walCheckpoint.                                 *)
sqlite3WalCheckpoint(c, mode) ==
  /\ Call(c) /\ pc[c] = "idle" /\ c \in Env.checkpointer
  /\ CanLock(c, {WAL_CKPT_LOCK}) /\ LockExclusive(c, {WAL_CKPT_LOCK})
  /\ Goto(c, IF mode = "passive" THEN "try1" ELSE "ckptwrite",
          [NoLocals EXCEPT !.op = "ckpt", !.mode = mode])
  /\ UNCHANGED <<file, shm, sh, hdr, nCkpt, cache, bounds, ghost>>

(* All modes but PASSIVE take the write lock, or become PASSIVE when the   *)
(* busy handler gives up.                                                  *)
LockCkptWrite(c) ==
  /\ pc[c] = "ckptwrite"
  /\ IF CanLock(c, {WAL_WRITE_LOCK})
     THEN LockExclusive(c, {WAL_WRITE_LOCK}) /\ Goto(c, "try1", loc[c])
     ELSE Goto(c, "try1", [loc[c] EXCEPT !.mode = "passive"]) /\ UNCHANGED ex
  /\ UNCHANGED <<calls, file, shm, sh, hdr, nCkpt, cache, bounds, ghost>>

CkptStart(c) ==
  /\ pc[c] = "ckpt"
  /\ IF shm.nBackfill < hdr[c].mxFrame
     THEN Goto(c, "ckptmark", [loc[c] EXCEPT !.mxSafeFrame = hdr[c].mxFrame, !.i = 1])
     ELSE Goto(c, "ckptpost", loc[c])
  /\ UNCHANGED <<calls, file, shm, locks, hdr, nCkpt, cache, bounds, ghost>>

(* The next read-mark, or the backfill when there is none left.            *)
NextMark(c, l) ==
  IF l.i < NReader - 1 THEN Goto(c, "ckptmark", [l EXCEPT !.i = @ + 1, !.mark = 0])
  ELSE Goto(c, "iterator", [l EXCEPT !.i = 0, !.mark = 0])

(* mxSafeFrame: no further than a reader that uses its read-mark.          *)
CkptLoadMark(c) ==
  /\ pc[c] = "ckptmark"
  /\ LET y == shm.aReadMark[loc[c].i]
     IN IF loc[c].mxSafeFrame > y THEN Goto(c, "ckptlock", [loc[c] EXCEPT !.mark = y])
        ELSE NextMark(c, loc[c])
  /\ UNCHANGED <<calls, file, shm, locks, hdr, nCkpt, cache, bounds, ghost>>

CkptLockMark(c) ==
  /\ pc[c] = "ckptlock"
  /\ IF CanLock(c, {WAL_READ_LOCK(loc[c].i)})
     THEN LockExclusive(c, {WAL_READ_LOCK(loc[c].i)}) /\ Goto(c, "ckptstore", loc[c])
     ELSE NextMark(c, [loc[c] EXCEPT !.mxSafeFrame = loc[c].mark]) /\ UNCHANGED ex
  /\ UNCHANGED <<calls, file, shm, sh, hdr, nCkpt, cache, bounds, ghost>>

CkptStoreMark(c) ==
  /\ pc[c] = "ckptstore"
  /\ shm' = [shm EXCEPT !.aReadMark[loc[c].i] =
                          IF loc[c].i = 1 THEN loc[c].mxSafeFrame ELSE READMARK_NOT_USED]
  /\ UnlockExclusive(c, {WAL_READ_LOCK(loc[c].i)})
  /\ NextMark(c, loc[c])
  /\ UNCHANGED <<calls, file, sh, hdr, nCkpt, cache, bounds, ghost>>

(* walIteratorInit: the last frame of every page of the log.               *)
walIteratorInit(c) ==
  /\ pc[c] = "iterator"
  /\ LET in(p) == {f \in 1 .. hdr[c].mxFrame : shm.aPgno[f] = p}
     IN IF shm.nBackfill < loc[c].mxSafeFrame
        THEN Goto(c, "ckptlock0", [loc[c] EXCEPT !.todo =
                    {<<p, MaxOf(in(p))>> : p \in {q \in Page : in(q) # {}}}])
        ELSE Goto(c, "ckptpost", loc[c])
  /\ UNCHANGED <<calls, file, shm, locks, hdr, nCkpt, cache, bounds, ghost>>

(* Mutant: the salt is not compared again under the lock.                  *)
CkptLockRead0_NoSaltCheck(c) ==
  /\ pc[c] = "ckptlock0"
  /\ IF CanLock(c, {WAL_READ_LOCK(0)})
     THEN /\ LockExclusive(c, {WAL_READ_LOCK(0)})
          /\ shm' = [shm EXCEPT !.nBackfillAttempted = loc[c].mxSafeFrame]
          /\ Goto(c, "ckptsync", [loc[c] EXCEPT !.todo =
               {x \in @ : x[2] > shm.nBackfill /\ x[2] <= loc[c].mxSafeFrame /\ x[1] <= hdr[c].nPage}])
     ELSE Goto(c, "ckptpost", [loc[c] EXCEPT !.todo = {}]) /\ UNCHANGED <<shm, ex>>
  /\ UNCHANGED <<calls, file, sh, hdr, nCkpt, cache, bounds, ghost>>

(* No reader of the database file, and still the same log?  What is left   *)
(* to do: pages whose last frame is safe and is not backfilled yet.        *)
CkptLockRead0(c) ==
  /\ pc[c] = "ckptlock0"
  /\ IF CanLock(c, {WAL_READ_LOCK(0)}) /\ Live.salt = hdr[c].salt
     THEN /\ LockExclusive(c, {WAL_READ_LOCK(0)})
          /\ shm' = [shm EXCEPT !.nBackfillAttempted = loc[c].mxSafeFrame]
          /\ Goto(c, "ckptsync", [loc[c] EXCEPT !.todo =
               {x \in @ : x[2] > shm.nBackfill /\ x[2] <= loc[c].mxSafeFrame /\ x[1] <= hdr[c].nPage}])
     ELSE Goto(c, "ckptpost", [loc[c] EXCEPT !.todo = {}]) /\ UNCHANGED <<shm, ex>>
  /\ UNCHANGED <<calls, file, sh, hdr, nCkpt, cache, bounds, ghost>>

(* Mutant: the log is not synced before the backfill.                     *)
CkptSyncLog_None(c) ==
  /\ pc[c] = "ckptsync"
  /\ synced' = Len(hist)
  /\ Goto(c, "copy", loc[c])
  /\ UNCHANGED <<scenario, calls, walFile, walDisk, db, dbDisk, shm, locks, hdr, nCkpt, cache, bounds, hist, tents, floor>>

CkptSyncLog(c) ==
  /\ pc[c] = "ckptsync" /\ SyncLog
  /\ synced' = Len(hist)
  /\ Goto(c, "copy", loc[c])
  /\ UNCHANGED <<scenario, calls, walFile, db, dbDisk, shm, locks, hdr, nCkpt, cache, bounds, hist, tents, floor>>

(* Copy the pages in ascending order; when all are done, cut the database  *)
(* to size if the whole log is in it.                                      *)
CkptCopy(c) ==
  /\ pc[c] = "copy"
  /\ IF loc[c].todo # {}
     THEN LET x == CHOOSE x \in loc[c].todo : \A y \in loc[c].todo : x[1] <= y[1]
          IN WriteDb(x[1], walFile.frame[x[2]].val) /\ Goto(c, "copy", [loc[c] EXCEPT !.todo = @ \ {x}])
     ELSE IF loc[c].mxSafeFrame = Live.mxFrame
     THEN TruncateDb(hdr[c].nPage) /\ Goto(c, "ckptsyncdb", loc[c])
     ELSE Goto(c, "backfilled", loc[c]) /\ UNCHANGED <<db, dbDisk>>
  /\ UNCHANGED <<scenario, calls, walFile, walDisk, shm, locks, hdr, nCkpt, cache, bounds, ghost>>

(* Mutant: the database is not synced after the backfill.                 *)
CkptSyncDb_None(c) ==
  /\ pc[c] = "ckptsyncdb"
  /\ Goto(c, "backfilled", loc[c])
  /\ UNCHANGED <<scenario, calls, walFile, db, dbDisk, walDisk, shm, locks, hdr, nCkpt, cache, bounds, ghost>>

CkptSyncDb(c) ==
  /\ pc[c] = "ckptsyncdb" /\ SyncDb
  /\ Goto(c, "backfilled", loc[c])
  /\ UNCHANGED <<scenario, calls, walFile, db, walDisk, shm, locks, hdr, nCkpt, cache, bounds, ghost>>

CkptBackfilled(c) ==
  /\ pc[c] = "backfilled"
  /\ shm' = [shm EXCEPT !.nBackfill = loc[c].mxSafeFrame]
  /\ UnlockExclusive(c, {WAL_READ_LOCK(0)})
  /\ Goto(c, "ckptpost", [loc[c] EXCEPT !.mxSafeFrame = 0])
  /\ UNCHANGED <<calls, file, sh, hdr, nCkpt, cache, bounds, ghost>>

(* Mutant: a connection that closes deletes a log it could not backfill.  *)
CkptFails_Deletes(c) ==
  /\ "ioerr" \in Env.fault /\ nFault < Env.maxFault /\ nFault' = nFault + 1
  /\ pc[c] \in {"ckptsync", "copy", "ckptsyncdb"}
  /\ UnlockExclusive(c, {WAL_READ_LOCK(0)})
  /\ Goto(c, "ckptout", [loc[c] EXCEPT !.mxSafeFrame = 0, !.todo = {}])
  /\ UNCHANGED <<calls, file, shm, sh, hdr, nCkpt, cache, nVal, nSalt, ghost>>

(* A sync, a copy or the truncation fails, or the checkpoint is            *)
(* interrupted: nBackfill stays as it is.                                  *)
CkptFails(c) ==
  /\ "ioerr" \in Env.fault /\ nFault < Env.maxFault /\ nFault' = nFault + 1
  /\ pc[c] \in {"ckptsync", "copy", "ckptsyncdb"}
  /\ UnlockExclusive(c, {WAL_READ_LOCK(0)})
  /\ Goto(c, "ckptout", [loc[c] EXCEPT !.mxSafeFrame = 0, !.todo = {},
                                       !.op = IF @ = "close" THEN "closeerr" ELSE @])
  /\ UNCHANGED <<calls, file, shm, sh, hdr, nCkpt, cache, nVal, nSalt, ghost>>

(* Mutant: the log is truncated without all of it backfilled.             *)
CkptPost_Unchecked(c) ==
  /\ pc[c] = "ckptpost"
  /\ IF /\ loc[c].mode = "truncate"
        /\ CanLock(c, AllReadMarks) /\ nSalt < Env.maxSalt
     THEN LockExclusive(c, AllReadMarks) /\ Goto(c, "restart1", loc[c])
     ELSE Goto(c, "ckptout", loc[c]) /\ UNCHANGED ex
  /\ UNCHANGED <<calls, file, shm, sh, hdr, nCkpt, cache, bounds, ghost>>

(* RESTART waits until nobody reads the log; TRUNCATE also starts it over. *)
CkptPost(c) ==
  /\ pc[c] = "ckptpost"
  /\ IF /\ loc[c].mode = "truncate" /\ shm.nBackfill >= hdr[c].mxFrame
        /\ CanLock(c, AllReadMarks) /\ nSalt < Env.maxSalt
     THEN LockExclusive(c, AllReadMarks) /\ Goto(c, "restart1", loc[c])
     ELSE Goto(c, "ckptout", loc[c]) /\ UNCHANGED ex
  /\ UNCHANGED <<calls, file, shm, sh, hdr, nCkpt, cache, bounds, ghost>>

CkptTruncateLog(c) ==
  /\ pc[c] = "truncate" /\ TruncateLog
  /\ UnlockExclusive(c, AllReadMarks)
  /\ Goto(c, "ckptout", loc[c])
  /\ UNCHANGED <<scenario, calls, db, dbDisk, shm, sh, hdr, nCkpt, cache, bounds, ghost>>

(* Mutant: a header that changed is kept.                                 *)
CkptOut_KeepHdr(c) ==
  /\ pc[c] = "ckptout"
  /\ UnlockExclusive(c, {WAL_WRITE_LOCK, WAL_CKPT_LOCK})
  /\ IF loc[c].op = "ckpt"
     THEN /\ Goto(c, "idle", NoLocals)
          /\ SetHdr(c, hdr[c])
          /\ UNCHANGED <<nCkpt, cache, walFile, walDisk>>
     ELSE /\ Goto(c, "closed", NoLocals) /\ SetHdr(c, Null)
          /\ nCkpt' = [nCkpt EXCEPT ![c] = 0] /\ cache' = [cache EXCEPT ![c] = Null]
          /\ IF loc[c].op = "close" THEN TruncateLog ELSE UNCHANGED <<walFile, walDisk>>
  /\ UNCHANGED <<scenario, calls, db, dbDisk, shm, sh, bounds, ghost>>

(* Forget a header that the page cache does not belong to; release the     *)
(* locks.  When the last connection closes, delete the log.                *)
CkptOut(c) ==
  /\ pc[c] = "ckptout"
  /\ UnlockExclusive(c, {WAL_WRITE_LOCK, WAL_CKPT_LOCK})
  /\ IF loc[c].op = "ckpt"
     THEN /\ Goto(c, "idle", NoLocals)
          /\ SetHdr(c, IF loc[c].changed THEN Null ELSE hdr[c])
          /\ UNCHANGED <<nCkpt, cache, walFile, walDisk>>
     ELSE /\ Goto(c, "closed", NoLocals) /\ SetHdr(c, Null)
          /\ nCkpt' = [nCkpt EXCEPT ![c] = 0] /\ cache' = [cache EXCEPT ![c] = Null]
          /\ IF loc[c].op = "close" THEN TruncateLog ELSE UNCHANGED <<walFile, walDisk>>
  /\ UNCHANGED <<scenario, calls, db, dbDisk, shm, sh, bounds, ghost>>

-----------------------------------------------------------------------------
(* Faults.  A process dies: the system releases its locks.  A death between *)
(* the header and nBackfill in walRestartHdr is a fault of its own.        *)
RestartWindow == {"restartinfo"}
Kill(c) ==
  /\ nFault < Env.maxFault /\ pc[c] # "closed"
  /\ IF pc[c] \in RestartWindow THEN "killRestart" \in Env.fault ELSE "kill" \in Env.fault
  /\ nFault' = nFault + 1
  /\ Goto(c, "closed", NoLocals) /\ SetHdr(c, Null)
  /\ nCkpt' = [nCkpt EXCEPT ![c] = 0] /\ cache' = [cache EXCEPT ![c] = Null]
  /\ ex' = [l \in Lock |-> IF ex[l] = c THEN Null ELSE ex[l]]
  /\ sh' = [l \in Lock |-> sh[l] \ {c}]
  /\ UNCHANGED <<calls, file, shm, nVal, nSalt, ghost>>

(* The power fails: every process dies, and of what was not synced any     *)
(* part may be on the disk.                                                *)
PowerLoss ==
  /\ Power /\ nFault < Env.maxFault /\ nFault' = nFault + 1
  /\ walFile' \in walDisk /\ walDisk' = {walFile'}
  /\ \E d \in [Page -> UNION {dbDisk[p] : p \in Page}] :
       (\A p \in Page : d[p] \in dbDisk[p]) /\ db' = d
  /\ dbDisk' = [p \in Page |-> {db'[p]}]
  /\ pc' = [c \in Conn |-> "closed"] /\ loc' = [c \in Conn |-> NoLocals]
  /\ hdr' = [c \in Conn |-> Null] /\ nCkpt' = [c \in Conn |-> 0]
  /\ cache' = [c \in Conn |-> Null]
  /\ sh' = [l \in Lock |-> {}] /\ ex' = [l \in Lock |-> Null]
  /\ floor' = synced
  /\ UNCHANGED <<scenario, calls, shm, nVal, nSalt, hist, tents, synced>>

-----------------------------------------------------------------------------
ReadSteps(c) ==
  \/ sqlite3WalBeginReadTransaction(c) \/ TryHdrFirst(c) \/ TryHdrSecond(c) \/ BadHdr(c)
  \/ RecoverHdrSecond(c) \/ RecoverHdrFirst(c) \/ RecoverInfo(c) \/ RecoverMark(c)
  \/ LoadBackfill(c) \/ LockRead0(c) \/ CheckRead0(c) \/ ScanMarks(c) \/ LockRaise(c)
  \/ StoreMark(c) \/ LockMark(c) \/ LoadMinFrame(c) \/ CheckMark(c)
  \/ sqlite3WalEndReadTransaction(c)
WriteSteps(c) ==
  \/ sqlite3WalBeginWriteTransaction(c)
  \/ \E t \in Env.tx : walFrames(c, t[1], t[2])
  \/ walRestartLog(c) \/ RestartHdrSecond(c) \/ RestartHdrFirst(c) \/ RestartBackfill(c)
  \/ RestartMarks(c) \/ WriteLogHdr(c) \/ SyncLogHdr(c) \/ walWriteOneFrame(c)
  \/ walRewriteChecksums(c) \/ SyncFrames(c) \/ walIndexAppend(c) \/ PublishHdr(c)
  \/ sqlite3WalUndo(c) \/ WriteFails(c)
CkptSteps(c) ==
  \/ \E mode \in Env.mode : sqlite3WalCheckpoint(c, mode)
  \/ LockCkptWrite(c) \/ CkptStart(c) \/ CkptLoadMark(c) \/ CkptLockMark(c) \/ CkptStoreMark(c)
  \/ walIteratorInit(c) \/ CkptLockRead0(c) \/ CkptSyncLog(c) \/ CkptCopy(c) \/ CkptSyncDb(c)
  \/ CkptBackfilled(c) \/ CkptFails(c) \/ CkptPost(c) \/ CkptTruncateLog(c) \/ CkptOut(c)

Next ==
  \/ \E c \in Conn : \/ sqlite3WalOpen(c) \/ sqlite3WalClose(c) \/ ReadSteps(c)
                      \/ WriteSteps(c) \/ CkptSteps(c) \/ Kill(c)
  \/ PowerLoss

Spec == Init /\ [][Next]_vars

-----------------------------------------------------------------------------
(* The state of the log and its index is well formed.                      *)
TypeOK ==
  /\ DOMAIN walFile.frame = FrameNo /\ db \in [Page -> {Absent, Torn} \cup 0 .. Env.maxVal]
  /\ shm.nBackfill \in 0 .. MaxFrame
  /\ shm.aReadMark \in [1 .. NReader - 1 -> 0 .. READMARK_NOT_USED]
  /\ shm.aPgno \in [FrameNo -> 0 .. MaxPage]
  /\ ex \in [Lock -> Conn \cup {Null}] /\ sh \in [Lock -> SUBSET Conn]
  /\ \A l \in Lock : ex[l] # Null => sh[l] = {}
  /\ nVal \in 0 .. Env.maxVal /\ nSalt \in 0 .. Env.maxSalt /\ nFault \in 0 .. Env.maxFault
  /\ floor \in 1 .. Len(hist) /\ synced \in 1 .. Len(hist)

(* A read transaction sees one committed version, from beginning to end,   *)
(* whatever writers, checkpointers and recoveries do meanwhile, and a      *)
(* writer sees that version with its own spilled pages (walFindFrame).     *)
SnapshotRead ==
  \A c \in Conn : /\ pc[c] = "read" => View(c) = cache[c]
                  /\ pc[c] = "write" => View(c) = loc[c].pend

(* The log implements a database with snapshots (SnapshotDb): what a       *)
(* transaction reads through the wal-index is the version committed last   *)
(* when it began (walTryBeginRead), also when its page cache is that of    *)
(* the transaction before; a writer builds on the newest version           *)
(* (sqlite3WalBeginWriteTransaction).                                      *)
InTransaction(c) == pc[c] \in {"read", "write"} \/ loc[c].op = "write"
Db == INSTANCE SnapshotDb WITH
        Version <- [Page -> {Absent} \cup 0 .. MaxVal], None <- Null, current <- hist[Len(hist)],
        doubt <- {t.v : t \in {u \in tents : u.base = Len(hist)}},
        snap <- [c \in Conn |-> IF pc[c] = "read" THEN View(c)
                                ELSE IF InTransaction(c) THEN cache[c] ELSE Null]
ImplementsSnapshotDb == Db!SSpec

(* A recovery finds every acknowledged commit (after a loss of power:      *)
(* every synced one) and nothing of a transaction that did not commit      *)
(* (walIndexRecover).                                                      *)
CommitsSurvive ==
  \A c \in Conn : pc[c] = "recoverinfo" => RecoveredVersion = hist[Len(hist)]

(* nBackfill is never greater than mxFrame (WalCkptInfo), but while the    *)
(* log is being restarted or recovered, and in an index that the first to  *)
(* open the database will discard.                                         *)
NBackfillInLog ==
  \/ Live = Null \/ Live # shm.h1 \/ \A c \in Conn : pc[c] = "closed"
  \/ \E c \in Conn : pc[c] \in {"restartinfo", "recoverinfo"}
  \/ shm.nBackfill <= Live.mxFrame
==============================================================================
