---------------------------- MODULE CodecPagerInv ---------------------------
(***************************************************************************)
(* The inductive invariant of CodecPager, for an application that gives    *)
(* no keyspec with a salt of its own and closes the handle after a failed  *)
(* rekey.  CodecPager_proofs shows that it is one.                         *)
(***************************************************************************)
EXTENDS CodecPager

(* What the theorems assume of the application (see above).                *)
CarefulApplication == PlainKeys /\ ~ReuseAfterFailedRekey

(* The key and the salt of the recoverable image.                          *)
TheKey == Recovered[1].key
TheSalt == Recovered[1].hdr

(* The codec is attached and has no permanent error.                       *)
Working == ctx # NoCtx /\ ~ctx.error

(* The page x is content of page p and carries the right header.           *)
GoodPage(p, x) == x.val # Zero /\ x.hdr = IF p = 1 THEN TheSalt ELSE NoSalt

-----------------------------------------------------------------------------
(* The file and the journal.                                               *)

Uniform ==
  /\ TheSalt \in Salt /\ TheKey.salt = TheSalt
  /\ \A p \in Page : Recovered[p].key = TheKey /\ GoodPage(p, Recovered[p])

DiskPages ==
  \A p \in Page : file[p] \in disk[p] /\ \A x \in disk[p] : GoodPage(p, x)

PendingIsFile ==
  \A p \in Page : jpend[p] # NoRec => jsync[p] = NoRec /\ jpend[p] = file[p]

ImageInv == Uniform /\ DiskPages /\ PowerLossSafe /\ PendingIsFile

(* Where the journal may hold records.                                     *)
JournalInv ==
  /\ HotJournal => \/ op \in {"closed", "idle", "recover"}
                   \/ /\ op \in {"txn", "rekey", "commit", "rollback"}
                      /\ eState \in {"WRITER_DBMOD", "WRITER_FINISHED", "ERROR"}
  /\ \A p \in Page : jpend[p] # NoRec =>
       /\ op \in {"txn", "rekey", "rollback"}
       /\ eState \in {"WRITER_CACHEMOD", "WRITER_DBMOD", "ERROR"}
  /\ op \in {"recover", "rollback"} => todo \subseteq Journaled

(* What pager_playback has already restored.                               *)
PlayedBack ==
  op = "recover" \/ (op = "rollback" /\ eState = "WRITER_DBMOD") =>
    \A p \in Page : jsync[p] # NoRec /\ p \notin todo => file[p] = jsync[p]

-----------------------------------------------------------------------------
(* The control state.                                                      *)
ControlInv ==
  /\ op \in {"closed", "idle", "recover", "lock"} => eState = "OPEN"
  /\ op = "read" => eState = "READER"
  /\ op \in {"txn", "rekey", "rollback"} =>
       eState \in {"WRITER_LOCKED", "WRITER_CACHEMOD", "WRITER_DBMOD", "ERROR"}
  /\ op = "commit" => eState \in {"WRITER_DBMOD", "WRITER_FINISHED"}
  /\ op = "commit" /\ eState = "WRITER_FINISHED" => todo = {}
  /\ op = "closed" <=> ctx = NoCtx
  /\ op = "closed" => caller = "sql"
  /\ op = "txn" => caller = "sql"
  /\ op = "rekey" => caller = "rekey"
  /\ caller = "rekey" => rekeyTo \in Pass
  /\ caller = "rekey" /\ op \in {"idle", "recover", "lock", "read"} => pgno = 1
  /\ mustClose => op \in {"idle", "read"} /\ caller = "sql"
  /\ todo # {} => op \in {"recover", "commit", "rollback"}

-----------------------------------------------------------------------------
(* The page cache.                                                         *)

CacheInv ==
  /\ op \in {"closed", "recover"} => cache = NoPages
  /\ op = "idle" /\ HotJournal => cache = NoPages
  /\ op \in {"idle", "lock", "read"} \/ eState = "WRITER_LOCKED" => \A p \in Page : ~Dirty(p)
  /\ op \in {"read", "txn", "rekey", "commit", "rollback"} => Cached(1)
  /\ op = "commit" => \A p \in todo : Dirty(p)

(* A cached page that is not journaled, or that the rollback has reloaded, *)
(* is the original, and the read key is the one of the image.              *)
Original(p) == ~InJournal(p) \/ (op = "rollback" /\ p \notin todo)
OriginalCached ==
  Working => \A p \in Page : Cached(p) /\ Original(p) =>
    /\ ~ctx.read_ctx.derive_key
    /\ ctx.read_ctx.key = TheKey
    /\ cache[p].val = Recovered[p].val

NoZeroCached == Working => \A p \in Page : Cached(p) => cache[p].val # Zero

DirtyJournaled ==
  Working /\ op \in {"txn", "rekey", "commit"} => \A p \in Page : Dirty(p) => InJournal(p)

(* A page that needs no writing is in the file as cached.                  *)
Settled(p) == IF op = "commit" THEN p \notin todo ELSE ~Dirty(p)
SettledInFile ==
  Working /\ op \in {"txn", "rekey", "commit"} =>
    \A p \in Page : Cached(p) /\ Settled(p) => cache[p].val = file[p].val

-----------------------------------------------------------------------------
(* The codec context.                                                      *)

CtxInv ==
  /\ ctx # NoCtx => CtxOK(ctx, TheSalt)
  /\ Working /\ op \in {"read", "txn", "rekey", "commit", "rollback"} => ctx.kdf_salt = TheSalt

(* Outside a rekey the two cipher contexts agree.                          *)
SameKeys == Working /\ caller = "sql" /\ ~mustClose => ctx.read_ctx = ctx.write_ctx

(* The pages that the transaction leaves under the write key.              *)
WriteKey == KeyOf(ctx.write_ctx, TheSalt)
WriteKeyCovers ==
  /\ Working =>
       /\ op = "txn" => \A p \in Page : Dirty(p) \/ file[p].key = WriteKey
       /\ op = "rekey" => \A p \in Page : p < pgno => Dirty(p) \/ file[p].key = WriteKey
       /\ op = "commit" => \A p \in Page : p \in todo \/ file[p].key = WriteKey
  /\ op = "commit" => 1 \in todo \/ (Working /\ ~ctx.write_ctx.derive_key)

(* The rekey loop journals every page it passes.                           *)
RekeyJournaled ==
  /\ op = "rekey" => \A p \in Page : p < pgno => InJournal(p)
  /\ op = "commit" /\ caller = "rekey" => \A p \in Page : InJournal(p)

(* At the end of phase one the file is synced and no page is dirty.        *)
CommitSynced ==
  op = "commit" /\ eState = "WRITER_FINISHED" =>
    \A p \in Page : disk[p] = {file[p]} /\ ~Dirty(p)

IInv ==
  /\ TypeOK /\ ImageInv /\ JournalInv /\ PlayedBack /\ ControlInv
  /\ CacheInv /\ OriginalCached /\ NoZeroCached /\ DirtyJournaled /\ SettledInFile
  /\ CtxInv /\ SameKeys /\ WriteKeyCovers /\ RekeyJournaled /\ CommitSynced

-----------------------------------------------------------------------------
(* What the application knows of the key, if the commit inside a rekey     *)
(* does not fail: AppInv is inductive together with IInv.                  *)
Transacting == op \in {"read", "txn", "rekey", "commit", "rollback"}

(* Until its commit, a rekey leaves the database under the key that was    *)
(* told, and in a transaction a working codec reads with the key of the    *)
(* image.                                                                  *)
AppInv ==
  /\ TheKey.pass = told \/ (rekeyTo # NoPass /\ TheKey.pass = rekeyTo)
  /\ caller = "rekey" => /\ TheKey.pass = told
                         /\ Working => WriteKey.pass = rekeyTo
  /\ Working /\ Transacting => ~ctx.read_ctx.derive_key /\ ctx.read_ctx.key = TheKey
=============================================================================
