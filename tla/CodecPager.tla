----------------------------- MODULE CodecPager -----------------------------
(***************************************************************************)
(* One connection to an encrypted database in rollback-journal mode: the   *)
(* pager of pager.c with its codec hooks, the btree transaction calls on   *)
(* top of it, and sqlite3_rekey_v2.  Every write to the database file is a *)
(* step of its own, so a crash may fall between any two of them.           *)
(*                                                                         *)
(* The operating system keeps, for every page, the set of versions that    *)
(* may be found after a power loss (disk); a sync leaves only the current  *)
(* one (file).  Journal records count for recovery once the journal is     *)
(* synced and its header's nRec covers them (jsync); until then they are   *)
(* in jpend.                                                               *)
(*                                                                         *)
(* Assumed of the environment: page writes are not torn, journal deletion  *)
(* is durable, the file does not change size, and no other process writes  *)
(* it (other readers only make a lock attempt fail).                       *)
(***************************************************************************)
EXTENDS CodecContext

CONSTANTS
  IOFaults,              \* whether the VFS may fail a call
  RekeyCommitMayFail,    \* whether the commit inside a rekey may fail
  ReuseAfterFailedRekey, \* whether the application goes on after a failed rekey
  NoRec, NoPage, NoCtx

VARIABLES
  file,     \* the database file as the operating system shows it
  disk,     \* the versions of each page a power loss may leave
  jsync,    \* journal records that a recovery would play back
  jpend,    \* journal records written but not yet counted in a synced header
  cache,    \* the page cache
  eState,   \* Pager.eState
  ctx,      \* the codec context attached to the pager
  readonly, \* BTS_READ_ONLY of the shared btree
  op,       \* what the connection is doing
  caller,   \* on whose behalf: the SQL layer or sqlite3_rekey_v2
  todo,     \* the pages the current loop has still to handle
  pgno,     \* the page counter of the rekey loop
  told,     \* the key argument the application believes opens the database
  rekeyTo,  \* the key argument of a rekey whose outcome the application has not seen
  mustClose \* a rekey has failed on this handle

fileVars == <<file, disk>>
journalVars == <<jsync, jpend>>
appVars == <<told, rekeyTo, mustClose>>
vars == <<file, disk, jsync, jpend, cache, eState, ctx, readonly, op, caller,
          todo, pgno, told, rekeyTo, mustClose>>

ASSUME EnvironmentAssumption ==
  /\ IOFaults \in BOOLEAN
  /\ RekeyCommitMayFail \in BOOLEAN
  /\ ReuseAfterFailedRekey \in BOOLEAN
  /\ NoRec \notin SealedPage
  /\ NoPage \notin [val : Value \cup {Zero}, dirty : BOOLEAN]
  /\ NoCtx \notin codec_ctx

States == {"OPEN", "READER", "WRITER_LOCKED", "WRITER_CACHEMOD", "WRITER_DBMOD",
           "WRITER_FINISHED", "ERROR"}
Ops == {"closed", "idle", "recover", "lock", "read", "txn", "rekey",
        "commit", "rollback"}

NoRecs == [p \in Page |-> NoRec]
NoPages == [p \in Page |-> NoPage]
Cached(p) == cache[p] # NoPage
Dirty(p) == Cached(p) /\ cache[p].dirty
(* pInJournal of the pager *)
InJournal(p) == jsync[p] # NoRec \/ jpend[p] # NoRec
Journaled == {p \in Page : InJournal(p)}
(* hasHotJournal: a journal nobody is writing, with records to play back.  *)
HotJournal == \E p \in Page : jsync[p] # NoRec

(* What opening the database now, after any crash, would find: the journal *)
(* records over the file.                                                  *)
Recovered == [p \in Page |-> IF jsync[p] # NoRec THEN jsync[p] ELSE file[p]]

(* An image the key argument k opens: the key is derived from k and the    *)
(* salt in the header (or in k), and every page is sealed with it.         *)
Opens(image, k) ==
  \A p \in Page : image[p].key = [pass |-> k, salt |-> salt_for(k, image[1].hdr)]

Init ==
  \E k \in Pass, s \in Salt, v \in [Page -> Value] :
    /\ file = [p \in Page |-> [key |-> [pass |-> k, salt |-> salt_for(k, s)], val |-> v[p],
                               hdr |-> IF p = 1 THEN salt_for(k, s) ELSE NoSalt]]
    /\ disk = [p \in Page |-> {file[p]}]
    /\ jsync = NoRecs
    /\ jpend = NoRecs
    /\ cache = NoPages
    /\ eState = "OPEN"
    /\ ctx = NoCtx
    /\ readonly = FALSE
    /\ op = "closed"
    /\ caller = "sql"
    /\ todo = {}
    /\ pgno = 1
    /\ told = k
    /\ rekeyTo = NoPass
    /\ mustClose = FALSE

-----------------------------------------------------------------------------
(* Shared pieces of the actions.                                           *)

(* The application may use the handle.                                     *)
InUse == caller = "sql" /\ (mustClose => ReuseAfterFailedRekey)

WriteFile(p, page) ==
  /\ file' = [file EXCEPT ![p] = page]
  /\ disk' = [disk EXCEPT ![p] = @ \cup {page}]

SyncFile == disk' = [p \in Page |-> {file[p]}]

(* syncJournal: every record becomes one that a recovery plays back.       *)
SyncedJournal(pend) == [p \in Page |-> IF pend[p] # NoRec THEN pend[p] ELSE jsync[p]]

(* Mutant: a NULL from the codec is taken for the page.                    *)
PageGet_NullCached(p) ==
  IF Cached(p) THEN {[ctx |-> ctx, cache |-> cache, ok |-> TRUE]}
  ELSE {[ctx |-> r.ctx, ok |-> TRUE,
         cache |-> [cache EXCEPT ![p] = [val |-> r.out, dirty |-> FALSE]]]
         : r \in codec_read(ctx, file[1].hdr, file[p])}

(* readDbPage into the cache, or the copy already there: the set of        *)
(* possible [ctx, cache, ok].  CODEC1 turns a NULL page into an error and  *)
(* the page is dropped.                                                    *)
PageGet(p) ==
  IF Cached(p) THEN {[ctx |-> ctx, cache |-> cache, ok |-> TRUE]}
  ELSE {[ctx |-> r.ctx, ok |-> r.out # Null,
         cache |-> IF r.out = Null THEN cache
                   ELSE [cache EXCEPT ![p] = [val |-> r.out, dirty |-> FALSE]]]
         : r \in codec_read(ctx, file[1].hdr, file[p])}

(* Mutant: a page that is in the journal already is not marked dirty.      *)
PageWrite_NotDirty(c, cch, p) ==
  IF InJournal(p) THEN {[ctx |-> c, cache |-> cch, jpend |-> jpend, ok |-> TRUE]}
  ELSE {[ctx |-> r.ctx, cache |-> [cch EXCEPT ![p].dirty = TRUE], ok |-> r.out # Null,
         jpend |-> IF r.out = Null THEN jpend ELSE [jpend EXCEPT ![p] = r.out]]
         : r \in codec_journal(c, file[1].hdr, p, cch[p].val)}

(* pager_write on a cached page: it is marked dirty, then its original     *)
(* content is appended to the journal unless it is there already.          *)
PageWrite(c, cch, p) ==
  LET marked == [cch EXCEPT ![p].dirty = TRUE]
  IN  IF InJournal(p) THEN {[ctx |-> c, cache |-> marked, jpend |-> jpend, ok |-> TRUE]}
      ELSE {[ctx |-> r.ctx, cache |-> marked, ok |-> r.out # Null,
             jpend |-> IF r.out = Null THEN jpend ELSE [jpend EXCEPT ![p] = r.out]]
             : r \in codec_journal(c, file[1].hdr, p, cch[p].val)}

(* pager_open_journal, on the first page written by a transaction.         *)
OpenJournal == IF eState = "WRITER_LOCKED" THEN "WRITER_CACHEMOD" ELSE eState

(* sqlcipher_codec_ctx_set_error, called for page p outside a write        *)
(* transaction, also marks the shared btree read-only.                     *)
MarkReadonly(p, c) == readonly' = (readonly \/ (~Cached(p) /\ c.error))

(* sqlite3_rekey_v2 returns an error; the write context keeps the new key. *)
RekeyReturnsError ==
  /\ caller' = "sql"
  /\ rekeyTo' = NoPass
  /\ mustClose' = TRUE
  /\ UNCHANGED told

(* sqlite3_rekey_v2 returns SQLITE_OK.                                     *)
RekeyReturnsOk ==
  /\ caller' = "sql"
  /\ told' = rekeyTo
  /\ rekeyTo' = NoPass
  /\ UNCHANGED mustClose

-----------------------------------------------------------------------------
(* Opening, keying and closing.                                            *)

(* sqlite3_open and sqlite3_key_v2 on the new handle.                      *)
Open(k) ==
  /\ op = "closed"
  /\ op' = "idle"
  /\ ctx' = sqlcipher_codec_ctx_init(k)
  /\ UNCHANGED <<fileVars, journalVars, cache, eState, readonly, caller, todo, pgno, appVars>>

(* Mutant: the pager is not reset.                                         *)
sqlcipherCodecAttach_NoReset(k) ==
  /\ op = "idle" /\ InUse
  /\ ~ctx.key_used
  /\ ctx' = sqlcipher_codec_ctx_init(k)
  /\ UNCHANGED <<fileVars, journalVars, cache, eState, readonly, op, caller, todo, pgno, appVars>>

(* sqlite3_key_v2 again: sqlcipherCodecAttach ignores it once the key has  *)
(* been used, and otherwise replaces the codec and resets the pager.       *)
sqlcipherCodecAttach(k) ==
  /\ op = "idle" /\ InUse
  /\ ~ctx.key_used
  /\ ctx' = sqlcipher_codec_ctx_init(k)
  /\ cache' = NoPages
  /\ UNCHANGED <<fileVars, journalVars, eState, readonly, op, caller, todo, pgno, appVars>>

sqlite3PagerClose ==
  /\ op = "idle" /\ caller = "sql"
  /\ op' = "closed"
  /\ ctx' = NoCtx
  /\ cache' = NoPages
  /\ readonly' = FALSE
  /\ mustClose' = FALSE
  /\ UNCHANGED <<fileVars, journalVars, eState, caller, todo, pgno, told, rekeyTo>>

(* A crash of the process or of the machine.  Records not covered by a     *)
(* synced header are ignored by the recovery.                              *)
Crash ==
  /\ op # "closed"
  /\ op' = "closed"
  /\ file' \in {f \in [Page -> UNION {disk[p] : p \in Page}] : \A p \in Page : f[p] \in disk[p]}
  /\ disk' = [p \in Page |-> {file'[p]}]
  /\ jpend' = NoRecs
  /\ cache' = NoPages
  /\ eState' = "OPEN"
  /\ ctx' = NoCtx
  /\ readonly' = FALSE
  /\ caller' = "sql"
  /\ todo' = {}
  /\ pgno' = 1
  /\ mustClose' = FALSE
  /\ UNCHANGED <<jsync, told, rekeyTo>>

-----------------------------------------------------------------------------
(* Read transactions and hot-journal recovery.                             *)

(* sqlite3PagerSharedLock: play back a hot journal first.                  *)
SharedLock ==
  /\ op' = IF HotJournal THEN "recover" ELSE "lock"
  /\ todo' = IF HotJournal THEN Journaled ELSE {}
  /\ cache' = IF HotJournal THEN NoPages ELSE cache

BeginRead ==
  /\ op = "idle" /\ InUse
  /\ SharedLock
  /\ UNCHANGED <<fileVars, journalVars, eState, ctx, readonly, caller, pgno, appVars>>

(* pager_playback_one_page on a hot journal: the record goes to the file   *)
(* as it is, without the codec.                                            *)
RecoverPage(p) ==
  /\ op = "recover" /\ p \in todo
  /\ WriteFile(p, jsync[p])
  /\ todo' = todo \ {p}
  /\ UNCHANGED <<journalVars, cache, eState, ctx, readonly, op, caller, pgno, appVars>>

(* The end of pager_playback: sync the file, then delete the journal.      *)
RecoverEnd ==
  /\ op = "recover" /\ todo = {}
  /\ SyncFile
  /\ jsync' = NoRecs
  /\ op' = "lock"
  /\ UNCHANGED <<file, jpend, cache, eState, ctx, readonly, caller, todo, pgno, appVars>>

(* lockBtree: page 1 must read as a database header.  A failure leaves the *)
(* zeroed page in the cache and releases the lock.                         *)
lockBtree ==
  /\ op = "lock"
  /\ \E g \in PageGet(1) :
       LET ok == g.ok /\ g.cache[1].val # Zero
           opened == ok /\ ~g.ctx.error
       IN  /\ ctx' = g.ctx
           /\ cache' = g.cache
           /\ MarkReadonly(1, g.ctx)
           /\ op' = IF ok THEN "read" ELSE "idle"
           /\ eState' = IF ok THEN "READER" ELSE "OPEN"
           /\ IF caller = "rekey"
              THEN IF ok THEN UNCHANGED <<caller, appVars>> ELSE RekeyReturnsError
              ELSE /\ told' = IF opened THEN g.ctx.read_ctx.key.pass ELSE told
                   /\ rekeyTo' = IF opened THEN NoPass ELSE rekeyTo
                   /\ UNCHANGED <<caller, mustClose>>
  /\ UNCHANGED <<fileVars, journalVars, todo, pgno>>

EndRead ==
  /\ op = "read" /\ caller = "sql"
  /\ op' = "idle"
  /\ eState' = "OPEN"
  /\ UNCHANGED <<fileVars, journalVars, cache, ctx, readonly, caller, todo, pgno, appVars>>

(* sqlite3PagerGet of a page that is not cached.                           *)
sqlite3PagerGet(p) ==
  /\ op \in {"read", "txn"} /\ InUse
  /\ eState # "ERROR"
  /\ ~Cached(p)
  /\ \E g \in PageGet(p) :
       /\ ctx' = g.ctx
       /\ cache' = g.cache
       /\ IF op = "read" THEN MarkReadonly(p, g.ctx) ELSE UNCHANGED readonly
  /\ UNCHANGED <<fileVars, journalVars, eState, op, caller, todo, pgno, appVars>>

(* The page cache recycles a clean page; page 1 is pinned by a             *)
(* transaction.                                                            *)
Evict(p) ==
  /\ op \in {"idle", "read", "txn", "rekey"}
  /\ Cached(p) /\ ~Dirty(p)
  /\ p = 1 => op = "idle"
  /\ cache' = [cache EXCEPT ![p] = NoPage]
  /\ UNCHANGED <<fileVars, journalVars, eState, ctx, readonly, op, caller, todo, pgno, appVars>>

-----------------------------------------------------------------------------
(* Write transactions.                                                     *)

(* sqlite3BtreeBeginTrans from a read transaction; SQLITE_BUSY changes     *)
(* nothing.                                                                *)
sqlite3BtreeBeginTrans ==
  /\ op = "read" /\ InUse
  /\ ~readonly
  /\ op' = "txn"
  /\ eState' = "WRITER_LOCKED"
  /\ UNCHANGED <<fileVars, journalVars, cache, ctx, readonly, caller, todo, pgno, appVars>>

(* sqlite3PagerWrite and the change of the page's content by the btree.    *)
sqlite3PagerWrite(p, v) ==
  /\ op = "txn" /\ InUse
  /\ eState # "ERROR"
  /\ Cached(p)
  /\ \E w \in PageWrite(ctx, cache, p) :
       /\ ctx' = w.ctx
       /\ jpend' = w.jpend
       /\ cache' = IF w.ok THEN [w.cache EXCEPT ![p].val = v] ELSE w.cache
  /\ eState' = OpenJournal
  /\ UNCHANGED <<fileVars, jsync, readonly, op, caller, todo, pgno, appVars>>

(* Mutant: the journal is synced for the first spilled page only.          *)
NeedsSync_FirstOnly(p) == eState = "WRITER_CACHEMOD"

(* pagerStress: the cache is full and a dirty page is written early.  A    *)
(* codec failure leaves the page dirty; an I/O error stops the pager.      *)
NeedsSync(p) == jpend[p] # NoRec \/ eState = "WRITER_CACHEMOD"
MaySpill(p) ==
  /\ op = "txn" \/ (op = "rekey" /\ pgno <= N)
  /\ eState \in {"WRITER_CACHEMOD", "WRITER_DBMOD"}
  /\ Dirty(p) /\ p # 1

pagerStress(p) ==
  /\ MaySpill(p)
  /\ IF NeedsSync(p)
     THEN /\ jsync' = SyncedJournal(jpend)
          /\ jpend' = NoRecs
     ELSE UNCHANGED journalVars
  /\ \E r \in codec_write(ctx, file[1].hdr, p, cache[p].val) :
       /\ ctx' = r.ctx
       /\ IF r.out = Null
          THEN UNCHANGED <<fileVars, cache>>
          ELSE /\ WriteFile(p, r.out)
               /\ cache' = [cache EXCEPT ![p].dirty = FALSE]
  /\ eState' = "WRITER_DBMOD"
  /\ UNCHANGED <<readonly, op, caller, todo, pgno, appVars>>

pagerStressIOError(p) ==
  /\ IOFaults
  /\ MaySpill(p)
  /\ eState' = "ERROR"
  /\ UNCHANGED <<fileVars, journalVars, cache, ctx, readonly, op, caller, todo, pgno, appVars>>

-----------------------------------------------------------------------------
(* Commit.  The SQL layer rolls a failed commit back, except that          *)
(* SQLITE_BUSY leaves the transaction open.  sqlite3_rekey_v2 ignores the  *)
(* result: it copies the write key and returns SQLITE_OK, and the          *)
(* transaction stays open.                                                 *)

RekeyIgnoresFailure(c) ==
  /\ RekeyCommitMayFail
  /\ ctx' = sqlcipher_codec_key_copy(c)
  /\ RekeyReturnsOk
  /\ op' = "txn"
  /\ todo' = {}

CommitFails(c) ==
  IF caller = "rekey" THEN RekeyIgnoresFailure(c)
  ELSE /\ ctx' = c
       /\ op' = "rollback"
       /\ todo' = Journaled
       /\ UNCHANGED <<caller, appVars>>

(* Mutant: the rekey loop stops one page early.                            *)
CommitCalled_Early ==
  /\ \/ op = "txn" /\ InUse
     \/ op = "rekey" /\ pgno = N
  /\ eState \in {"WRITER_CACHEMOD", "WRITER_DBMOD"}

CommitCalled ==
  /\ \/ op = "txn" /\ InUse
     \/ op = "rekey" /\ pgno = N + 1
  /\ eState \in {"WRITER_CACHEMOD", "WRITER_DBMOD"}

(* Nothing was written: end the transaction.                               *)
CommitNothing ==
  /\ op = "txn" /\ InUse
  /\ eState = "WRITER_LOCKED"
  /\ op' = "idle"
  /\ eState' = "OPEN"
  /\ UNCHANGED <<fileVars, journalVars, cache, ctx, readonly, caller, todo, pgno, appVars>>

(* sqlite3PagerCommitPhaseOne up to syncJournal: the change counter on     *)
(* page 1 is rewritten, then the journal is synced under the exclusive     *)
(* lock.                                                                   *)
CommitSyncJournal ==
  /\ CommitCalled
  /\ \E w \in PageWrite(ctx, cache, 1) :
       /\ cache' = w.cache
       /\ IF w.ok
          THEN /\ ctx' = w.ctx
               /\ jsync' = SyncedJournal(w.jpend)
               /\ jpend' = NoRecs
               /\ eState' = "WRITER_DBMOD"
               /\ op' = "commit"
               /\ todo' = {p \in Page : w.cache[p] # NoPage /\ w.cache[p].dirty}
               /\ UNCHANGED <<caller, appVars>>
          ELSE /\ CommitFails(w.ctx)
               /\ UNCHANGED <<journalVars, eState>>
  /\ UNCHANGED <<fileVars, readonly, pgno>>

(* SQLITE_BUSY: a reader keeps the exclusive lock from being taken.        *)
CommitBusy ==
  /\ CommitCalled
  /\ \E w \in PageWrite(ctx, cache, 1) :
       /\ w.ok
       /\ cache' = w.cache
       /\ jpend' = w.jpend
       /\ IF caller = "rekey" THEN RekeyIgnoresFailure(w.ctx)
          ELSE ctx' = w.ctx /\ UNCHANGED <<op, todo, caller, appVars>>
  /\ UNCHANGED <<fileVars, jsync, readonly, eState, pgno>>

(* pager_write_pagelist, one page.                                         *)
CommitWritePage(p) ==
  /\ op = "commit" /\ p \in todo
  /\ \E r \in codec_write(ctx, file[1].hdr, p, cache[p].val) :
       IF r.out # Null
       THEN /\ ctx' = r.ctx
            /\ WriteFile(p, r.out)
            /\ todo' = todo \ {p}
            /\ UNCHANGED <<op, caller, appVars>>
       ELSE /\ CommitFails(r.ctx)
            /\ UNCHANGED fileVars
  /\ UNCHANGED <<journalVars, cache, eState, readonly, pgno>>

(* A write or sync of the file fails, or the journal cannot be deleted:    *)
(* only the latter stops the pager.                                        *)
CommitIOError ==
  /\ IOFaults
  /\ op = "commit"
  /\ CommitFails(ctx)
  /\ eState' = IF eState = "WRITER_FINISHED" THEN "ERROR" ELSE eState
  /\ UNCHANGED <<fileVars, journalVars, cache, readonly, pgno>>

(* sqlite3PcacheCleanAll.                                                  *)
CleanAll == [p \in Page |-> IF Cached(p) THEN [cache[p] EXCEPT !.dirty = FALSE] ELSE NoPage]

(* The rest of phase one: every page is written, sync the file.            *)
CommitSyncFile ==
  /\ op = "commit" /\ todo = {}
  /\ eState = "WRITER_DBMOD"
  /\ cache' = CleanAll
  /\ SyncFile
  /\ eState' = "WRITER_FINISHED"
  /\ UNCHANGED <<file, journalVars, ctx, readonly, op, caller, todo, pgno, appVars>>

(* sqlite3PagerCommitPhaseTwo: deleting the journal commits.  A rekey then *)
(* copies the write key to the read context and returns.                   *)
sqlite3PagerCommitPhaseTwo ==
  /\ op = "commit" /\ eState = "WRITER_FINISHED"
  /\ jsync' = NoRecs
  /\ op' = "idle"
  /\ eState' = "OPEN"
  /\ IF caller = "rekey"
     THEN /\ ctx' = sqlcipher_codec_key_copy(ctx)
          /\ RekeyReturnsOk
     ELSE UNCHANGED <<ctx, caller, appVars>>
  /\ UNCHANGED <<fileVars, jpend, cache, readonly, todo, pgno>>

-----------------------------------------------------------------------------
(* Rollback, by the SQL layer or by sqlite3_rekey_v2 after a failed loop.  *)

sqlite3PagerRollback ==
  /\ op = "txn" /\ caller = "sql"
  /\ op' = "rollback"
  /\ todo' = Journaled
  /\ UNCHANGED <<fileVars, journalVars, cache, eState, ctx, readonly, caller, pgno, appVars>>

(* pager_playback_one_page on the own journal: a synced record goes to the *)
(* file if the file was written to, and a cached page is reloaded from the *)
(* record through the codec.  If that returns no page the playback stops,  *)
(* and pagerUnlockAndRollback starts it again.                             *)
RollbackPage(p) ==
  /\ op = "rollback" /\ p \in todo
  /\ eState # "ERROR"
  /\ LET rec == IF jsync[p] # NoRec THEN jsync[p] ELSE jpend[p]
     IN  /\ IF jsync[p] # NoRec /\ eState = "WRITER_DBMOD"
            THEN WriteFile(p, rec)
            ELSE UNCHANGED fileVars
         /\ IF Cached(p)
            THEN \E r \in codec_read(ctx, file[1].hdr, rec) :
                   /\ ctx' = r.ctx
                   /\ IF r.out = Null
                      THEN todo' = Journaled /\ UNCHANGED cache
                      ELSE /\ todo' = todo \ {p}
                           /\ cache' = [cache EXCEPT ![p].val = r.out]
            ELSE /\ todo' = todo \ {p}
                 /\ UNCHANGED <<ctx, cache>>
  /\ UNCHANGED <<journalVars, eState, readonly, op, caller, pgno, appVars>>

RollbackReturns ==
  /\ op' = "idle"
  /\ eState' = "OPEN"
  /\ IF caller = "rekey" THEN RekeyReturnsError ELSE UNCHANGED <<caller, appVars>>

(* The end of the playback: sync the file, delete the journal, mark every  *)
(* cached page clean and end the transaction.                              *)
RollbackEnd ==
  /\ op = "rollback" /\ todo = {}
  /\ eState # "ERROR"
  /\ IF eState = "WRITER_DBMOD" THEN SyncFile ELSE UNCHANGED disk
  /\ jsync' = NoRecs
  /\ jpend' = NoRecs
  /\ cache' = CleanAll
  /\ RollbackReturns
  /\ UNCHANGED <<file, ctx, readonly, todo, pgno>>

(* The playback meets an I/O error.                                        *)
RollbackIOError ==
  /\ IOFaults
  /\ op = "rollback"
  /\ eState \in {"WRITER_CACHEMOD", "WRITER_DBMOD"}
  /\ eState' = "ERROR"
  /\ UNCHANGED <<fileVars, journalVars, cache, ctx, readonly, op, caller, todo, pgno, appVars>>

(* Mutant: a stopped pager deletes its journal.                            *)
RollbackStopped_Deletes ==
  /\ op = "rollback" /\ eState = "ERROR"
  /\ jsync' = NoRecs
  /\ jpend' = NoRecs
  /\ cache' = NoPages
  /\ todo' = {}
  /\ RollbackReturns
  /\ UNCHANGED <<fileVars, ctx, readonly, pgno>>

(* A stopped pager does not play back: pager_unlock drops its cache and    *)
(* leaves the journal to the next recovery.                                *)
RollbackStopped ==
  /\ op = "rollback" /\ eState = "ERROR"
  /\ jpend' = NoRecs
  /\ cache' = NoPages
  /\ todo' = {}
  /\ RollbackReturns
  /\ UNCHANGED <<fileVars, jsync, ctx, readonly, pgno>>

-----------------------------------------------------------------------------
(* sqlite3_rekey_v2.                                                       *)

(* The new pass goes to the write context, then a write transaction is     *)
(* begun unless one is open.                                               *)
sqlite3_rekey_v2(k) ==
  /\ op \in {"idle", "read", "txn"} /\ InUse
  /\ rekeyTo = NoPass
  /\ ctx' = set_write_pass(ctx, k)
  /\ caller' = "rekey"
  /\ rekeyTo' = k
  /\ pgno' = 1
  /\ IF op = "idle" /\ ~readonly
     THEN SharedLock
     ELSE /\ op' = IF op = "txn" THEN "rekey" ELSE op
          /\ UNCHANGED <<todo, cache>>
  /\ UNCHANGED <<fileVars, journalVars, eState, readonly, told, mustClose>>

RekeyBegin ==
  /\ op = "read" /\ caller = "rekey"
  /\ ~readonly
  /\ op' = "rekey"
  /\ eState' = "WRITER_LOCKED"
  /\ UNCHANGED <<fileVars, journalVars, cache, ctx, readonly, caller, todo, pgno, appVars>>

(* SQLITE_READONLY, or SQLITE_BUSY on the reserved lock.  A read           *)
(* transaction that was open before the call stays open.                   *)
RekeyCannotBegin ==
  /\ op \in {"idle", "read"} /\ caller = "rekey"
  /\ op = "idle" => readonly
  /\ \/ op' = "idle" /\ eState' = "OPEN"
     \/ op = "read" /\ UNCHANGED <<op, eState>>
  /\ RekeyReturnsError
  /\ UNCHANGED <<fileVars, journalVars, cache, ctx, readonly, todo, pgno>>

(* One turn of the loop: sqlite3PagerGet, then sqlite3PagerWrite.  Any     *)
(* failure ends the loop and rolls back.                                   *)
RekeyRollback ==
  /\ op' = "rollback"
  /\ todo' = {p \in Page : jsync[p] # NoRec \/ jpend'[p] # NoRec}

RekeyPage ==
  /\ op = "rekey" /\ pgno <= N
  /\ eState # "ERROR"
  /\ \E g \in PageGet(pgno) :
       IF ~g.ok
       THEN /\ ctx' = g.ctx
            /\ UNCHANGED <<cache, jpend, eState, pgno>>
            /\ RekeyRollback
       ELSE \E w \in PageWrite(g.ctx, g.cache, pgno) :
              /\ ctx' = w.ctx
              /\ cache' = w.cache
              /\ jpend' = w.jpend
              /\ eState' = OpenJournal
              /\ IF w.ok
                 THEN pgno' = pgno + 1 /\ UNCHANGED <<op, todo>>
                 ELSE RekeyRollback /\ UNCHANGED pgno
  /\ UNCHANGED <<fileVars, jsync, readonly, caller, appVars>>

(* A page cannot be read, or the pager was stopped while spilling.         *)
RekeyAbort ==
  /\ op = "rekey" /\ pgno <= N
  /\ IOFaults \/ eState = "ERROR"
  /\ UNCHANGED jpend
  /\ RekeyRollback
  /\ UNCHANGED <<fileVars, jsync, cache, eState, ctx, readonly, caller, pgno, appVars>>

-----------------------------------------------------------------------------
Next ==
  \/ \E k \in Pass : Open(k) \/ sqlcipherCodecAttach(k) \/ sqlite3_rekey_v2(k)
  \/ sqlite3PagerClose \/ Crash
  \/ BeginRead \/ RecoverEnd \/ lockBtree \/ EndRead
  \/ \E p \in Page : \/ RecoverPage(p) \/ sqlite3PagerGet(p) \/ Evict(p)
                     \/ pagerStress(p) \/ pagerStressIOError(p)
                     \/ CommitWritePage(p) \/ RollbackPage(p)
  \/ \E p \in Page, v \in Value : sqlite3PagerWrite(p, v)
  \/ sqlite3BtreeBeginTrans
  \/ CommitNothing \/ CommitSyncJournal \/ CommitBusy \/ CommitIOError
  \/ CommitSyncFile \/ sqlite3PagerCommitPhaseTwo
  \/ sqlite3PagerRollback \/ RollbackEnd \/ RollbackIOError \/ RollbackStopped
  \/ RekeyBegin \/ RekeyCannotBegin \/ RekeyPage \/ RekeyAbort

Spec == Init /\ [][Next]_vars

(* The thread that called into the library keeps running until the call    *)
(* returns: the steps inside a call are taken when nothing else is.        *)
CallStep ==
  \/ RecoverEnd \/ lockBtree
  \/ \E p \in Page : RecoverPage(p) \/ CommitWritePage(p) \/ RollbackPage(p)
  \/ op # "txn" /\ (CommitSyncJournal \/ CommitBusy)
  \/ CommitSyncFile \/ sqlite3PagerCommitPhaseTwo
  \/ RollbackEnd \/ RollbackStopped
  \/ RekeyBegin \/ RekeyCannotBegin \/ RekeyPage \/ RekeyAbort

FairSpec == Spec /\ WF_vars(CallStep)

-----------------------------------------------------------------------------
(* The variables hold values the code can put there.                       *)
TypeOK ==
  /\ file \in [Page -> SealedPage]
  /\ disk \in [Page -> SUBSET SealedPage]
  /\ jsync \in [Page -> SealedPage \cup {NoRec}]
  /\ jpend \in [Page -> SealedPage \cup {NoRec}]
  /\ cache \in [Page -> [val : Value \cup {Zero}, dirty : BOOLEAN] \cup {NoPage}]
  /\ eState \in States
  /\ ctx \in codec_ctx \cup {NoCtx}
  /\ readonly \in BOOLEAN
  /\ op \in Ops
  /\ caller \in {"sql", "rekey"}
  /\ todo \subseteq Page
  /\ pgno \in 1 .. N + 1
  /\ told \in Pass
  /\ rekeyTo \in Pass \cup {NoPass}
  /\ mustClose \in BOOLEAN

(* At every instant, the image that a recovery would restore is sealed as  *)
(* a whole with one key, the one derived from some key argument and the    *)
(* salt in its own header: no crash, error or rekey leaves a mixed         *)
(* database (pager_playback, syncJournal, sqlite3_rekey_v2).               *)
OneKey == \E k \in Pass : Opens(Recovered, k)

(* A page that differs between the versions a power loss may leave has its *)
(* original content in the synced journal (pagerStress, syncJournal,       *)
(* pager_write_pagelist): which version survives never matters.            *)
PowerLossSafe == \A p \in Page : jsync[p] = NoRec => disk[p] = {file[p]}

(* The key argument the application was last told to use opens the         *)
(* database; while the outcome of a rekey is unknown to it, that one or    *)
(* the new one does (the result code of sqlite3_rekey_v2).                 *)
AppKeyOpens == Opens(Recovered, told) \/ (rekeyTo # NoPass /\ Opens(Recovered, rekeyTo))

(* The recoverable image changes in one step only, the deletion of the     *)
(* journal by a commit: not by a spill, a rollback, a recovery or a crash. *)
OnlyCommitChanges == [][Recovered' = Recovered \/ sqlite3PagerCommitPhaseTwo]_vars

(* A page zeroed by a failed decryption never reaches the file or the      *)
(* journal (the permanent error of sqlite3Codec).                          *)
NoZeroedPageStored ==
  \A p \in Page : /\ file[p].val # Zero
                  /\ jsync[p] # NoRec => jsync[p].val # Zero
                  /\ jpend[p] # NoRec => jpend[p].val # Zero

(* Between transactions, a cached page of a working codec is what the file *)
(* holds, under the key the codec reads with: rollback, commit and rekey   *)
(* leave no stale page behind (pager_playback_one_page, pager_unlock).     *)
CacheCoherent ==
  op \in {"idle", "read"} /\ ~ctx.error =>
    \A p \in Page : Cached(p) =>
      /\ cache[p].val = file[p].val
      /\ ctx.read_ctx.key = file[p].key

(* After the application replaces an incorrect key by the correct one, the *)
(* handle can write (sqlcipherCodecAttach resets the codec).               *)
RightKeyCanWrite == op = "read" /\ ~ctx.error => ~readonly

(* A call of sqlite3_rekey_v2 returns, whatever fails inside it.           *)
RekeyReturns == caller = "rekey" ~> caller = "sql"
=============================================================================
