------------------------- MODULE CodecPager_proofs --------------------------
(***************************************************************************)
(* CodecPagerInv!IInv is kept by the rekey loop, by the phases of a commit *)
(* and by its errors: one lemma per action.  Then the safety theorems:     *)
(* every property the runs check as an invariant, and the commit point.    *)
(* Then CodecPager implements EncryptedDb, and the application always      *)
(* knows a key that opens the database: one lemma per kind of step.  All   *)
(* of it for any number of pages, key arguments, salts and contents.       *)
(***************************************************************************)
EXTENDS CodecPagerSteps_proofs, CodecPagerImpl

USE Zenon DEF fileVars, journalVars, appVars

(* Keeping the keys is transitive.                                         *)
LEMMA KeepsTrans ==
  ASSUME NEW s, NEW c, NEW d, NEW e, KeepsKeys(c, d, s), KeepsKeys(d, e, s)
  PROVE  KeepsKeys(c, e, s)
  BY DEF KeepsKeys

(* A turn of the loop that fails: nothing was written, and the transaction *)
(* is rolled back.                                                         *)
LEMMA RekeyFailsInv ==
  ASSUME CarefulApplication, IInv, op = "rekey", RekeyRollback,
         UNCHANGED <<file, disk, jsync, jpend, readonly, caller, told, rekeyTo, mustClose, pgno>>,
         KeepsKeys(ctx, ctx', TheSalt), ctx'.error,
         cache' \in [Page -> [val : Value \cup {Zero}, dirty : BOOLEAN] \cup {NoPage}],
         \A q \in Page : cache[q] # NoPage => cache'[q] # NoPage,
         \/ cache' = cache /\ eState' = eState
         \/ eState' \in {"WRITER_CACHEMOD", "WRITER_DBMOD"} /\ eState \in {"WRITER_LOCKED", eState'}
  PROVE  IInv' /\ Recovered' = Recovered
<1>a. /\ op' = "rollback" /\ todo' = Journaled /\ ~Working'
      /\ ctx # NoCtx /\ ctx' # NoCtx /\ ctx' \in codec_ctx /\ CtxOK(ctx', TheSalt)
      /\ Journaled \subseteq Page
  BY OpenCtx DEF RekeyRollback, Journaled, InJournal, Working, KeepsKeys, CtxOK
<1>b. /\ ImageInv' /\ Recovered' = Recovered /\ TheSalt' = TheSalt /\ Journaled' = Journaled /\ HotJournal' = HotJournal
  BY SameImage DEF IInv
<1>c. eState' \in {"WRITER_LOCKED", "WRITER_CACHEMOD", "WRITER_DBMOD", "ERROR"}
  BY DEF IInv, ControlInv
<1>1. TypeOK'
  BY <1>a, <1>c DEF IInv, TypeOK, States, Ops
<1>2. JournalInv'
  <2>1. /\ HotJournal => eState' \in {"WRITER_DBMOD", "ERROR"}
        /\ \A p \in Page : jpend[p] # NoRec => eState' \in {"WRITER_CACHEMOD", "WRITER_DBMOD", "ERROR"}
    BY <1>c DEF IInv, JournalInv
  <2> QED BY <1>a, <1>b, <2>1 DEF JournalInv
<1>3. PlayedBack'
  BY <1>a DEF PlayedBack, Journaled, InJournal
<1>4. ControlInv'
  BY <1>a, <1>c DEF IInv, ControlInv
<1>5. CacheInv'
  <2>1. eState' = "WRITER_LOCKED" => cache' = cache /\ eState = "WRITER_LOCKED"
    OBVIOUS
  <2> QED BY <1>a, <2>1, FileFacts DEF IInv, CacheInv, Dirty, Cached
<1>6. OriginalCached' /\ NoZeroCached' /\ DirtyJournaled' /\ SettledInFile'
  BY <1>a DEF OriginalCached, NoZeroCached, DirtyJournaled, SettledInFile
<1>7. CtxInv' /\ SameKeys'
  BY <1>a, <1>b DEF CtxInv, SameKeys
<1>8. WriteKeyCovers' /\ RekeyJournaled' /\ CommitSynced'
  BY <1>a DEF WriteKeyCovers, RekeyJournaled, CommitSynced
<1> QED BY <1>1, <1>b, <1>2, <1>3, <1>4, <1>5, <1>6, <1>7, <1>8 DEF IInv

(* One turn of the rekey loop.                                             *)
LEMMA RekeyPageInv ==
  ASSUME CarefulApplication, IInv, RekeyPage
  PROVE  IInv' /\ Recovered' = Recovered
<1>0. pgno \in Page /\ pgno + 1 \in 1 .. N + 1
  <2>1. pgno \in 1 .. N + 1 /\ pgno <= N /\ N \in Nat
    BY PagesAssumption DEF RekeyPage, IInv, TypeOK
  <2> QED BY SMT, <2>1 DEF Page
<1>p. PICK p \in Page : p = pgno
  BY <1>0
<1>a. /\ op = "rekey" /\ op # "closed" /\ p \in Page /\ p + 1 \in 1 .. N + 1 /\ eState # "ERROR"
      /\ UNCHANGED <<file, disk, jsync, readonly, caller, told, rekeyTo, mustClose>>
  BY <1>0, <1>p DEF RekeyPage
<1>b. /\ ctx # NoCtx /\ CtxOK(ctx, TheSalt) /\ TheSalt \in Salt
      /\ eState \in {"WRITER_LOCKED", "WRITER_CACHEMOD", "WRITER_DBMOD"}
  BY <1>a, OpenCtx, FileFacts DEF IInv, ControlInv
<1>g. PICK g \in PageGet(p) :
        IF ~g.ok
        THEN ctx' = g.ctx /\ UNCHANGED <<cache, jpend, eState, pgno>> /\ RekeyRollback
        ELSE \E w \in PageWrite(g.ctx, g.cache, p) :
               /\ ctx' = w.ctx /\ cache' = w.cache /\ jpend' = w.jpend /\ eState' = OpenJournal
               /\ IF w.ok THEN pgno' = p + 1 /\ UNCHANGED <<op, todo>>
                  ELSE RekeyRollback /\ UNCHANGED pgno
  BY <1>p DEF RekeyPage
<1>c. /\ KeepsKeys(ctx, g.ctx, TheSalt)
      /\ g.cache \in [Page -> [val : Value \cup {Zero}, dirty : BOOLEAN] \cup {NoPage}]
      /\ g.ok => g.cache[p] # NoPage
      /\ \A q \in Page : q # p => g.cache[q] = cache[q]
      /\ Cached(p) => g.ctx = ctx /\ g.cache = cache /\ g.ok
      /\ ~g.ok => g.cache = cache /\ g.ctx.error
      /\ ~Cached(p) /\ ~g.ctx.error =>
           /\ g.ok /\ g.cache[p].val = file[p].val
           /\ file[p].key = KeyOf(ctx.read_ctx, TheSalt)
  BY <1>a, PageGetStep
<1>x. CASE ~g.ok
  <2>1. ctx' = g.ctx /\ UNCHANGED <<cache, jpend, eState, pgno>> /\ RekeyRollback
    BY <1>g, <1>x
  <2>2. cache' \in [Page -> [val : Value \cup {Zero}, dirty : BOOLEAN] \cup {NoPage}]
    BY <2>1 DEF IInv, TypeOK
  <2> QED BY <1>a, <1>c, <1>x, <2>1, <2>2, RekeyFailsInv
<1>y. CASE g.ok
  <2>w. PICK w \in PageWrite(g.ctx, g.cache, p) :
          /\ ctx' = w.ctx /\ cache' = w.cache /\ jpend' = w.jpend /\ eState' = OpenJournal
          /\ IF w.ok THEN pgno' = p + 1 /\ UNCHANGED <<op, todo>>
             ELSE RekeyRollback /\ UNCHANGED pgno
    BY <1>g, <1>y
  <2>a. ~g.ctx.error /\ ~InJournal(p) =>
          KeyOf(g.ctx.read_ctx, TheSalt) = TheKey /\ g.cache[p].val = file[p].val
    <3>1. ASSUME ~g.ctx.error, ~InJournal(p)
          PROVE  file[p].key = TheKey /\ file[p].val = Recovered[p].val
                 /\ KeyOf(g.ctx.read_ctx, TheSalt) = KeyOf(ctx.read_ctx, TheSalt)
                 /\ ~ctx.error
      BY SMT, <1>a, <1>c, <3>1, FileFacts DEF IInv, KeepsKeys
    <3>2. CASE Cached(p)
      BY <1>a, <1>b, <1>c, <3>1, <3>2 DEF IInv, OriginalCached, Original, Working, KeyOf
    <3>3. CASE ~Cached(p)
      BY <1>c, <3>1, <3>3
    <3> QED BY <3>2, <3>3
  <2>b. /\ CtxOK(g.ctx, TheSalt) /\ g.cache[p] # NoPage
    BY <1>c, <1>y DEF KeepsKeys
  <2>c. /\ KeepsKeys(g.ctx, ctx', TheSalt)
        /\ cache' \in [Page -> [val : Value \cup {Zero}, dirty : BOOLEAN] \cup {NoPage}]
        /\ cache'[p] # NoPage /\ cache'[p].dirty /\ cache'[p].val = g.cache[p].val
        /\ \A q \in Page : q # p => cache'[q] = g.cache[q]
        /\ InJournal(p) => ctx' = g.ctx /\ jpend' = jpend /\ w.ok
        /\ w.ok /\ ~InJournal(p) =>
             ~ctx'.error /\ jsync[p] = NoRec /\ jpend' = [jpend EXCEPT ![p] = file[p]]
        /\ ~w.ok => ctx'.error /\ jpend' = jpend
        /\ jpend' \in [Page -> SealedPage \cup {NoRec}]
    <3>1. /\ KeepsKeys(g.ctx, w.ctx, TheSalt)
          /\ w.cache \in [Page -> [val : Value \cup {Zero}, dirty : BOOLEAN] \cup {NoPage}]
          /\ w.cache[p] # NoPage /\ w.cache[p].dirty /\ w.cache[p].val = g.cache[p].val
          /\ \A q \in Page : q # p => w.cache[q] = g.cache[q]
          /\ InJournal(p) => w.ctx = g.ctx /\ w.jpend = jpend /\ w.ok
          /\ w.ok /\ ~InJournal(p) => ~w.ctx.error /\ w.jpend = [jpend EXCEPT ![p] = file[p]]
          /\ ~w.ok => w.ctx.error /\ w.jpend = jpend
          /\ ~InJournal(p) => jsync[p] = NoRec
          /\ w.jpend \in [Page -> SealedPage \cup {NoRec}]
      BY SMT, <1>a, <1>c, <2>a, <2>b, PageWriteStep
    <3> QED BY <2>w, <3>1
  <2>d. KeepsKeys(ctx, ctx', TheSalt)
    BY <1>c, <2>c, KeepsTrans
  <2>e. /\ eState' \in {"WRITER_CACHEMOD", "WRITER_DBMOD"} /\ eState \in {"WRITER_LOCKED", eState'}
        /\ \A q \in Page : q # p => cache'[q] = cache[q]
        /\ cache[p] # NoPage => cache'[p].val = cache[p].val
    BY SMT, <1>b, <1>c, <2>c, <2>w DEF OpenJournal, Cached
  <2>x. CASE ~w.ok
    <3>1. RekeyRollback /\ UNCHANGED <<pgno, jpend>> /\ ctx'.error
      BY <2>c, <2>w, <2>x
    <3>2. \A q \in Page : cache[q] # NoPage => cache'[q] # NoPage
      BY <2>c, <2>e
    <3> QED BY <1>a, <2>c, <2>d, <2>e, <3>1, <3>2, RekeyFailsInv
  <2>y. CASE w.ok
    <3>0. pgno' = p + 1 /\ UNCHANGED <<op, todo>>
      BY <2>w, <2>y
    <3>i. /\ ImageInv' /\ Recovered' = Recovered /\ TheKey' = TheKey /\ TheSalt' = TheSalt
          /\ HotJournal' = HotJournal /\ \A q \in Page : InJournal(q) => InJournal(q)'
      BY <1>a, <2>c, <2>y, AppendImage DEF IInv
    <3>j. InJournal(p)'
      <4>1. jpend \in [Page -> SealedPage \cup {NoRec}] /\ file[p] # NoRec
        BY <1>a, FileFacts DEF IInv, TypeOK
      <4> QED BY <1>a, <2>c, <2>y, <3>i, <4>1 DEF InJournal
    <3>c. ctx' # NoCtx /\ ctx' \in codec_ctx /\ CtxOK(ctx', TheSalt) /\ (Working' => Working)
      BY <1>b, <2>d DEF KeepsKeys, CtxOK, Working
    <3>v. Working' => cache'[p].val # Zero
      BY SMT, <1>a, <1>c, <2>c, <3>c, FileFacts DEF IInv, NoZeroCached, Cached, Working, GoodPage, KeepsKeys
    <3>1. TypeOK'
      BY <1>a, <2>c, <2>e, <3>0, <3>c DEF IInv, TypeOK, States
    <3>2. JournalInv'
      <4>1. HotJournal => eState' = "WRITER_DBMOD"
        BY <1>a, <1>b, <2>e DEF IInv, JournalInv
      <4> QED BY <1>a, <2>e, <3>0, <3>i, <4>1 DEF JournalInv
    <3>3. PlayedBack'
      BY <1>a, <3>0 DEF PlayedBack
    <3>4. ControlInv'
      BY <1>a, <1>b, <2>e, <3>0, <3>c DEF IInv, ControlInv
    <3>5. CacheInv'
      BY <1>a, <2>c, <2>e, <3>0, FileFacts DEF IInv, CacheInv, Cached
    <3>6. OriginalCached'
      BY <1>a, <2>d, <2>e, <3>0, <3>i, <3>j, <3>c
         DEF IInv, OriginalCached, Original, Working, Cached, KeepsKeys
    <3>7. NoZeroCached'
      BY <2>e, <3>c, <3>v DEF IInv, NoZeroCached, Cached
    <3>8. DirtyJournaled' /\ SettledInFile'
      BY <1>a, <2>c, <2>e, <3>0, <3>i, <3>j, <3>c
         DEF IInv, DirtyJournaled, SettledInFile, Settled, Dirty, Cached
    <3>9. CtxInv' /\ SameKeys'
      BY <1>a, <1>b, <2>d, <3>0, <3>i, <3>c DEF IInv, ControlInv, CtxInv, SameKeys, Working, KeepsKeys
    <3>10. \A q \in Page : q < p + 1 => q = p \/ q < pgno
      BY SMT, <1>p, PagesAssumption DEF Page
    <3>11. WriteKeyCovers'
      <4>1. Working' => WriteKey' = WriteKey
        BY <2>d, <3>c, <3>i DEF WriteKey, Working, KeepsKeys
      <4> QED BY <1>a, <2>c, <2>e, <3>0, <3>c, <3>10, <4>1 DEF IInv, WriteKeyCovers, Dirty, Cached
    <3>12. RekeyJournaled' /\ CommitSynced'
      BY <1>a, <3>0, <3>10, <3>i, <3>j DEF IInv, RekeyJournaled, CommitSynced
    <3> QED BY <3>i, <3>1, <3>2, <3>3, <3>4, <3>5, <3>6, <3>7, <3>8, <3>9, <3>11, <3>12 DEF IInv
  <2> QED BY <2>x, <2>y
<1> QED BY <1>x, <1>y

(* The invariant and the recoverable image survive syncing the file at the *)
(* end of phase one of a commit.                                           *)
LEMMA CommitSyncFileInv ==
  ASSUME CarefulApplication, IInv, CommitSyncFile
  PROVE  IInv' /\ Recovered' = Recovered
<1>0. UNCHANGED <<file, jsync, jpend, ctx, op, caller, todo>>
  BY DEF CommitSyncFile
<1>c. /\ op = "commit" /\ todo = {} /\ eState = "WRITER_DBMOD" /\ eState' = "WRITER_FINISHED"
      /\ disk' = [p \in Page |-> {file[p]}] /\ UNCHANGED <<readonly, pgno, told, rekeyTo, mustClose>>
  BY DEF CommitSyncFile, SyncFile
<1>d. /\ cache' \in [Page -> [val : Value \cup {Zero}, dirty : BOOLEAN] \cup {NoPage}]
      /\ \A q \in Page : cache'[q] = NoPage <=> cache[q] = NoPage
      /\ \A q \in Page : cache'[q] # NoPage => cache'[q].val = cache[q].val /\ ~cache'[q].dirty
  BY CleanAllFacts DEF CommitSyncFile, IInv
<1>2. /\ ImageInv' /\ Recovered' = Recovered /\ TheKey' = TheKey /\ TheSalt' = TheSalt
      /\ HotJournal' = HotJournal /\ \A q \in Page : InJournal(q)' = InJournal(q)
  <2>1. Recovered' = Recovered /\ TheKey' = TheKey /\ TheSalt' = TheSalt
    BY <1>0 DEF Recovered, TheKey, TheSalt
  <2>2. DiskPages' /\ PowerLossSafe'
    BY SMT, <1>0, <1>c, <2>1, FileFacts DEF IInv, DiskPages, PowerLossSafe, GoodPage
  <2> QED BY <1>0, <2>1, <2>2 DEF IInv, ImageInv, Uniform, PendingIsFile, GoodPage, HotJournal, InJournal
<1>1. TypeOK'
  BY ZenonT(30), <1>0, <1>c, <1>d DEF IInv, TypeOK, States
<1>3. JournalInv'
  BY <1>0, <1>2, <1>c DEF IInv, JournalInv
<1>4. PlayedBack'
  BY <1>0, <1>c DEF PlayedBack
<1>5. ControlInv'
  BY <1>0, <1>c DEF IInv, ControlInv
<1>6. CacheInv'
  BY <1>0, <1>2, <1>c, <1>d, FileFacts DEF IInv, CacheInv, Dirty, Cached
<1>7. OriginalCached'
  BY <1>0, <1>2, <1>c, <1>d DEF IInv, OriginalCached, Original, Working, Cached
<1>8. NoZeroCached'
  BY <1>0, <1>d DEF IInv, NoZeroCached, Working, Cached
<1>9. DirtyJournaled' /\ SettledInFile'
  BY <1>0, <1>c, <1>d DEF IInv, DirtyJournaled, SettledInFile, Settled, Dirty, Cached, Working
<1>10. CtxInv' /\ SameKeys'
  BY <1>0, <1>2, <1>c DEF IInv, CtxInv, SameKeys, Working
<1>11. WriteKeyCovers'
  BY <1>0, <1>2, <1>c DEF IInv, WriteKeyCovers, WriteKey, Working
<1>12. RekeyJournaled' /\ CommitSynced'
  BY <1>0, <1>2, <1>c, <1>d DEF IInv, RekeyJournaled, CommitSynced, Dirty, Cached
<1> QED BY <1>1, <1>2, <1>3, <1>4, <1>5, <1>6, <1>7, <1>8, <1>9, <1>10, <1>11, <1>12 DEF IInv

(* A rekey whose commit fails: every page is journaled, so the new read key *)
(* is not used for any page in the file.                                   *)
LEMMA RekeyIgnoresInv ==
  ASSUME CarefulApplication, IInv, caller = "rekey", op = "commit" \/ (op = "rekey" /\ pgno = N + 1),
         NEW c, KeepsKeys(ctx, c, TheSalt), RekeyIgnoresFailure(c),
         UNCHANGED <<file, disk, jsync, jpend, readonly, pgno>>,
         cache' \in [Page -> [val : Value \cup {Zero}, dirty : BOOLEAN] \cup {NoPage}],
         \A q \in Page : cache'[q] = NoPage <=> cache[q] = NoPage,
         \A q \in Page : cache[q] # NoPage =>
            cache'[q].val = cache[q].val /\ (cache[q].dirty => cache'[q].dirty),
         \/ eState \in {"WRITER_CACHEMOD", "WRITER_DBMOD"} /\ eState' = eState
         \/ eState = "WRITER_FINISHED" /\ eState' = "ERROR"
  PROVE  IInv' /\ Recovered' = Recovered
<1>c. /\ op' = "txn" /\ caller' = "sql" /\ todo' = {} /\ ctx' = sqlcipher_codec_key_copy(c)
      /\ told' = rekeyTo /\ rekeyTo' = NoPass /\ UNCHANGED mustClose
  BY DEF RekeyIgnoresFailure, RekeyReturnsOk
<1>d. \A q \in Page : InJournal(q)
  BY PastTheEnd DEF IInv, RekeyJournaled
<1>e. ctx # NoCtx /\ TheSalt \in Salt /\ CtxOK(c, TheSalt) /\ (c.error \/ c.kdf_salt = TheSalt)
      /\ (~c.error => Working)
  BY OpenCtx, FileFacts DEF IInv, CtxInv, Working, KeepsKeys
<1>f. /\ CtxOK(ctx', TheSalt) /\ ctx'.error = c.error /\ ctx'.read_ctx = ctx'.write_ctx
      /\ ctx'.write_ctx = c.write_ctx /\ ctx'.kdf_salt = c.kdf_salt
  BY <1>c, <1>e, KeyCopyStep
<1>g. ctx' \in codec_ctx /\ ctx' # NoCtx
  BY <1>f, EnvironmentAssumption DEF CtxOK
<1>k. Working' => Working
  BY <1>e, <1>f DEF Working
<1>h. Working' => WriteKey' = WriteKey
  <2>1. TheSalt' = TheSalt
    BY SameImage
  <2> QED BY <1>e, <1>f, <2>1 DEF Working, WriteKey, KeepsKeys
<1>i. rekeyTo \in Pass /\ ~mustClose
  BY DEF IInv, ControlInv
<1>2. /\ ImageInv' /\ Recovered' = Recovered /\ TheKey' = TheKey /\ TheSalt' = TheSalt
      /\ HotJournal' = HotJournal /\ Journaled' = Journaled /\ \A q \in Page : InJournal(q)' = InJournal(q)
  BY SameImage DEF IInv
<1>1. TypeOK'
  BY <1>c, <1>g, <1>i DEF IInv, TypeOK, States, Ops
<1>3. JournalInv'
  BY <1>2, <1>c DEF IInv, JournalInv
<1>4. PlayedBack'
  BY <1>c DEF PlayedBack
<1>5. ControlInv'
  BY <1>c, <1>g, <1>i DEF ControlInv
<1>6. CacheInv'
  BY <1>2, <1>c, FileFacts DEF IInv, CacheInv, Cached
<1>7. OriginalCached'
  BY <1>2, <1>c, <1>d DEF OriginalCached, Original
<1>8. NoZeroCached'
  BY <1>k DEF IInv, NoZeroCached, Cached
<1>9. DirtyJournaled' /\ SettledInFile'
  BY <1>2, <1>c, <1>d, <1>k DEF IInv, CacheInv, DirtyJournaled, SettledInFile, Settled, Dirty, Cached
<1>10. CtxInv' /\ SameKeys'
  BY <1>2, <1>c, <1>e, <1>f, <1>g DEF CtxInv, SameKeys, Working
<1>11. WriteKeyCovers'
  BY <1>2, <1>c, <1>h, <1>k, PastTheEnd DEF IInv, WriteKeyCovers, CacheInv, Dirty, Cached
<1>12. RekeyJournaled' /\ CommitSynced'
  BY <1>c DEF RekeyJournaled, CommitSynced
<1> QED BY <1>1, <1>2, <1>3, <1>4, <1>5, <1>6, <1>7, <1>8, <1>9, <1>10, <1>11, <1>12 DEF IInv

(* A failed commit of the SQL layer is rolled back.                        *)
LEMMA CommitFailsInv ==
  ASSUME CarefulApplication, IInv, caller = "sql", op \in {"txn", "commit"},
         NEW c, KeepsKeys(ctx, c, TheSalt), CommitFails(c),
         UNCHANGED <<file, disk, jsync, jpend, readonly, pgno>>,
         cache' \in [Page -> [val : Value \cup {Zero}, dirty : BOOLEAN] \cup {NoPage}],
         \A q \in Page : cache'[q] = NoPage <=> cache[q] = NoPage,
         c.error \/ cache' = cache,
         \/ eState \in {"WRITER_CACHEMOD", "WRITER_DBMOD"} /\ eState' = eState
         \/ eState = "WRITER_FINISHED" /\ eState' = "ERROR"
  PROVE  IInv' /\ Recovered' = Recovered
<1>c. /\ op' = "rollback" /\ caller' = "sql" /\ todo' = Journaled /\ ctx' = c
      /\ UNCHANGED <<told, rekeyTo, mustClose>>
  BY DEF CommitFails
<1>d. ctx # NoCtx /\ ctx' # NoCtx /\ CtxOK(ctx', TheSalt) /\ ctx' \in codec_ctx
  BY <1>c, OpenCtx DEF KeepsKeys, CtxOK
<1>k. Working' => Working /\ cache' = cache
  BY <1>c, <1>d DEF Working, KeepsKeys
<1>i. ~mustClose /\ Journaled \subseteq Page
  BY DEF IInv, ControlInv, Journaled
<1>2. /\ ImageInv' /\ Recovered' = Recovered /\ TheKey' = TheKey /\ TheSalt' = TheSalt
      /\ HotJournal' = HotJournal /\ Journaled' = Journaled /\ \A q \in Page : InJournal(q)' = InJournal(q)
  BY SameImage DEF IInv
<1>1. TypeOK'
  BY <1>c, <1>d, <1>i DEF IInv, TypeOK, States, Ops
<1>3. JournalInv'
  BY <1>2, <1>c DEF IInv, JournalInv
<1>4. PlayedBack'
  BY <1>c DEF PlayedBack, Journaled, InJournal
<1>5. ControlInv'
  BY <1>c, <1>d, <1>i DEF IInv, ControlInv
<1>6. CacheInv'
  BY <1>2, <1>c, FileFacts DEF IInv, CacheInv, Cached
<1>7. OriginalCached'
  BY <1>2, <1>c, <1>d, <1>k DEF IInv, OriginalCached, Original, Working, Cached, KeepsKeys, Journaled
<1>8. NoZeroCached'
  BY <1>k DEF IInv, NoZeroCached, Cached
<1>9. DirtyJournaled' /\ SettledInFile'
  BY <1>c DEF DirtyJournaled, SettledInFile
<1>10. CtxInv' /\ SameKeys'
  BY <1>2, <1>c, <1>d, <1>i, <1>k DEF IInv, CtxInv, SameKeys, Working, KeepsKeys
<1>11. WriteKeyCovers'
  BY <1>c DEF WriteKeyCovers
<1>12. RekeyJournaled' /\ CommitSynced'
  BY <1>c DEF RekeyJournaled, CommitSynced
<1> QED BY <1>1, <1>2, <1>3, <1>4, <1>5, <1>6, <1>7, <1>8, <1>9, <1>10, <1>11, <1>12 DEF IInv

(* Marking page 1 for the change counter, at the start of a commit.        *)
LEMMA CommitPageOne ==
  ASSUME CarefulApplication, IInv, CommitCalled, NEW w \in PageWrite(ctx, cache, 1)
  PROVE  /\ 1 \in Page /\ ctx # NoCtx /\ KeepsKeys(ctx, w.ctx, TheSalt)
         /\ w.cache \in [Page -> [val : Value \cup {Zero}, dirty : BOOLEAN] \cup {NoPage}]
         /\ w.cache[1] # NoPage /\ w.cache[1].dirty /\ w.cache[1].val = cache[1].val
         /\ \A q \in Page : q # 1 => w.cache[q] = cache[q]
         /\ InJournal(1) => w.ctx = ctx /\ w.jpend = jpend /\ w.ok
         /\ w.ok /\ ~InJournal(1) =>
              ~w.ctx.error /\ jsync[1] = NoRec /\ w.jpend = [jpend EXCEPT ![1] = file[1]]
         /\ ~w.ok => w.ctx.error /\ w.jpend = jpend
         /\ w.jpend \in [Page -> SealedPage \cup {NoRec}]
         /\ Cached(1)
<1>1. op \in {"txn", "rekey"} /\ op # "closed" /\ 1 \in Page /\ Cached(1)
  BY FileFacts DEF CommitCalled, IInv, CacheInv
<1>2. ctx # NoCtx /\ CtxOK(ctx, TheSalt)
  BY <1>1, OpenCtx
<1>3. ~ctx.error /\ ~InJournal(1) => KeyOf(ctx.read_ctx, TheSalt) = TheKey /\ cache[1].val = file[1].val
  BY <1>1, <1>2, FileFacts DEF IInv, OriginalCached, Original, Working, KeyOf
<1>4. cache \in [Page -> [val : Value \cup {Zero}, dirty : BOOLEAN] \cup {NoPage}] /\ cache[1] # NoPage
  BY <1>1 DEF IInv, TypeOK, Cached
<1> QED BY SMT, <1>1, <1>2, <1>3, <1>4, PageWriteStep

(* The first part of a commit.                                             *)
LEMMA CommitSyncJournalInv ==
  ASSUME CarefulApplication, IInv, CommitSyncJournal
  PROVE  IInv' /\ Recovered' = Recovered
<1>w. PICK w \in PageWrite(ctx, cache, 1) :
        /\ cache' = w.cache
        /\ IF w.ok
           THEN /\ ctx' = w.ctx
                /\ jsync' = SyncedJournal(w.jpend) /\ jpend' = NoRecs
                /\ eState' = "WRITER_DBMOD" /\ op' = "commit"
                /\ todo' = {p \in Page : w.cache[p] # NoPage /\ w.cache[p].dirty}
                /\ UNCHANGED <<caller, told, rekeyTo, mustClose>>
           ELSE CommitFails(w.ctx) /\ UNCHANGED <<jsync, jpend, eState>>
  BY DEF CommitSyncJournal
<1>a. /\ CommitCalled /\ UNCHANGED <<file, disk, readonly, pgno>>
      /\ eState \in {"WRITER_CACHEMOD", "WRITER_DBMOD"}
      /\ (op = "txn" /\ caller = "sql") \/ (op = "rekey" /\ pgno = N + 1 /\ caller = "rekey")
  BY DEF CommitSyncJournal, CommitCalled, InUse, IInv, ControlInv
<1>b. /\ 1 \in Page /\ ctx # NoCtx /\ KeepsKeys(ctx, w.ctx, TheSalt)
      /\ cache' \in [Page -> [val : Value \cup {Zero}, dirty : BOOLEAN] \cup {NoPage}]
      /\ cache'[1] # NoPage /\ cache'[1].dirty /\ cache'[1].val = cache[1].val
      /\ \A q \in Page : q # 1 => cache'[q] = cache[q]
      /\ InJournal(1) => w.ctx = ctx /\ w.jpend = jpend /\ w.ok
      /\ w.ok /\ ~InJournal(1) =>
           ~w.ctx.error /\ jsync[1] = NoRec /\ w.jpend = [jpend EXCEPT ![1] = file[1]]
      /\ ~w.ok => w.ctx.error /\ w.jpend = jpend
      /\ Cached(1)
  BY <1>a, <1>w, CommitPageOne
<1>x. CASE ~w.ok
  <2>1. /\ CommitFails(w.ctx) /\ UNCHANGED <<jsync, jpend, eState>> /\ w.ctx.error
    BY <1>b, <1>w, <1>x
  <2>2. \A q \in Page : cache'[q] = NoPage <=> cache[q] = NoPage
    BY <1>b DEF Cached
  <2>3. op = "txn" /\ caller = "sql"
    BY <1>a, <1>b, <1>x, PastTheEnd DEF IInv, RekeyJournaled
  <2> QED BY <1>a, <1>b, <2>1, <2>2, <2>3, CommitFailsInv
<1>y. CASE w.ok
  <2>0. /\ ctx' = w.ctx /\ jsync' = SyncedJournal(w.jpend) /\ jpend' = NoRecs
        /\ eState' = "WRITER_DBMOD" /\ op' = "commit"
        /\ todo' = {p \in Page : Dirty(p)'}
        /\ UNCHANGED <<caller, told, rekeyTo, mustClose>>
    BY <1>w, <1>y DEF Dirty, Cached
  <2>i. /\ ImageInv' /\ Recovered' = Recovered /\ TheKey' = TheKey /\ TheSalt' = TheSalt
        /\ \A q \in Page : (InJournal(q) => InJournal(q)') /\ jpend'[q] = NoRec
        /\ InJournal(1)'
        /\ jsync' \in [Page -> SealedPage \cup {NoRec}]
        /\ jpend' \in [Page -> SealedPage \cup {NoRec}]
    <3>1. w.jpend = jpend \/ (jsync[1] = NoRec /\ w.jpend = [jpend EXCEPT ![1] = file[1]])
      BY <1>b, <1>y
    <3>2. InJournal(1) \/ w.jpend[1] # NoRec
      <4>1. jpend \in [Page -> SealedPage \cup {NoRec}] /\ file[1] # NoRec
        BY <1>b, FileFacts DEF IInv, TypeOK
      <4> QED BY <1>b, <1>y, <4>1
    <3> QED BY SMT, <1>a, <1>b, <2>0, <3>1, <3>2, SyncImage DEF IInv, InJournal
  <2>c. ctx' # NoCtx /\ ctx' \in codec_ctx /\ CtxOK(ctx', TheSalt) /\ (Working' => Working)
    BY <1>b, <2>0 DEF KeepsKeys, CtxOK, Working
  <2>d. /\ \A q \in Page : q \in todo' <=> (q = 1 \/ Dirty(q))
        /\ \A q \in Page : Dirty(q)' => q = 1 \/ Dirty(q)
    BY <1>b, <2>0 DEF Dirty, Cached
  <2>1. TypeOK'
    BY <1>a, <1>b, <2>0, <2>i, <2>c DEF IInv, TypeOK, States, Ops
  <2>3. JournalInv' /\ PlayedBack'
    BY <2>0, <2>i DEF JournalInv, PlayedBack
  <2>5. ControlInv'
    BY <1>a, <2>0, <2>c DEF IInv, ControlInv
  <2>6. CacheInv'
    BY <1>b, <2>0 DEF CacheInv, Cached, Dirty
  <2>7. OriginalCached'
    BY SMT, <1>a, <1>b, <2>0, <2>i, <2>c DEF IInv, OriginalCached, Original, Working, Cached, KeepsKeys
  <2>8. NoZeroCached'
    BY SMT, <1>b, <2>c DEF IInv, NoZeroCached, Cached
  <2>9. DirtyJournaled' /\ SettledInFile'
    BY <1>a, <1>b, <2>0, <2>i, <2>c, <2>d DEF IInv, DirtyJournaled, SettledInFile, Settled, Cached
  <2>10. CtxInv' /\ SameKeys'
    BY <1>a, <1>b, <2>0, <2>i, <2>c DEF IInv, CtxInv, SameKeys, Working, KeepsKeys
  <2>11. WriteKeyCovers'
    <3>1. Working' => WriteKey' = WriteKey
      BY <1>b, <2>0, <2>i, <2>c DEF WriteKey, Working, KeepsKeys
    <3> QED BY <1>a, <1>b, <2>0, <2>c, <2>d, <3>1, PastTheEnd DEF IInv, WriteKeyCovers
  <2>12. RekeyJournaled' /\ CommitSynced'
    BY <1>a, <2>0, <2>i, PastTheEnd DEF IInv, RekeyJournaled, CommitSynced
  <2> QED BY <2>i, <2>1, <2>3, <2>5, <2>6, <2>7, <2>8, <2>9, <2>10, <2>11, <2>12 DEF IInv
<1> QED BY <1>x, <1>y

(* A commit that meets SQLITE_BUSY.                                        *)
LEMMA CommitBusyInv ==
  ASSUME CarefulApplication, IInv, CommitBusy
  PROVE  IInv' /\ Recovered' = Recovered
<1>w. PICK w \in PageWrite(ctx, cache, 1) :
        /\ w.ok /\ cache' = w.cache /\ jpend' = w.jpend
        /\ IF caller = "rekey" THEN RekeyIgnoresFailure(w.ctx)
           ELSE ctx' = w.ctx /\ UNCHANGED <<op, todo, caller, told, rekeyTo, mustClose>>
  BY DEF CommitBusy
<1>a. /\ CommitCalled /\ UNCHANGED <<file, disk, jsync, readonly, eState, pgno>>
      /\ eState \in {"WRITER_CACHEMOD", "WRITER_DBMOD"}
      /\ (op = "txn" /\ caller = "sql") \/ (op = "rekey" /\ pgno = N + 1 /\ caller = "rekey")
  BY DEF CommitBusy, CommitCalled, InUse, IInv, ControlInv
<1>b. /\ 1 \in Page /\ ctx # NoCtx /\ KeepsKeys(ctx, w.ctx, TheSalt)
      /\ cache' \in [Page -> [val : Value \cup {Zero}, dirty : BOOLEAN] \cup {NoPage}]
      /\ cache'[1] # NoPage /\ cache'[1].dirty /\ cache'[1].val = cache[1].val
      /\ \A q \in Page : q # 1 => cache'[q] = cache[q]
      /\ InJournal(1) => w.ctx = ctx /\ jpend' = jpend
      /\ ~InJournal(1) => ~w.ctx.error /\ jsync[1] = NoRec /\ jpend' = [jpend EXCEPT ![1] = file[1]]
      /\ jpend' \in [Page -> SealedPage \cup {NoRec}]
      /\ Cached(1)
  BY <1>a, <1>w, CommitPageOne
<1>x. CASE caller = "rekey"
  <2>1. RekeyIgnoresFailure(w.ctx) /\ op = "rekey" /\ pgno = N + 1
    BY <1>a, <1>w, <1>x
  <2>2. jpend' = jpend
    BY <1>b, <2>1, PastTheEnd DEF IInv, RekeyJournaled
  <2>3. /\ \A q \in Page : cache'[q] = NoPage <=> cache[q] = NoPage
        /\ \A q \in Page : cache[q] # NoPage =>
             cache'[q].val = cache[q].val /\ (cache[q].dirty => cache'[q].dirty)
    BY <1>b DEF Cached
  <2> QED BY <1>a, <1>b, <1>x, <2>1, <2>2, <2>3, RekeyIgnoresInv
<1>y. CASE caller = "sql"
  <2>0. ctx' = w.ctx /\ op = "txn" /\ UNCHANGED <<op, todo, caller, told, rekeyTo, mustClose>>
    BY <1>a, <1>w, <1>y
  <2>i. /\ ImageInv' /\ Recovered' = Recovered /\ TheKey' = TheKey /\ TheSalt' = TheSalt
        /\ HotJournal' = HotJournal /\ \A q \in Page : InJournal(q) => InJournal(q)'
    BY <1>a, <1>b, AppendImage DEF IInv
  <2>j. InJournal(1)'
    BY SMT, <1>a, <1>b, FileFacts DEF IInv, TypeOK, InJournal
  <2>c. ctx' # NoCtx /\ ctx' \in codec_ctx /\ CtxOK(ctx', TheSalt) /\ (Working' => Working)
    BY <1>b, <2>0 DEF KeepsKeys, CtxOK, Working
  <2>1. TypeOK'
    BY <1>a, <1>b, <2>0, <2>c DEF IInv, TypeOK
  <2>3. JournalInv' /\ PlayedBack'
    BY <1>a, <2>0, <2>i DEF IInv, JournalInv, PlayedBack
  <2>5. ControlInv'
    BY <1>a, <1>b, <2>0, <2>c DEF IInv, ControlInv
  <2>6. CacheInv'
    BY <1>a, <1>b, <2>0 DEF CacheInv, Cached, Dirty
  <2>7. OriginalCached'
    BY SMT, <1>b, <2>0, <2>i, <2>c DEF IInv, OriginalCached, Original, Working, Cached, KeepsKeys
  <2>8. NoZeroCached'
    BY SMT, <1>b, <2>c DEF IInv, NoZeroCached, Cached
  <2>9. DirtyJournaled' /\ SettledInFile'
    BY <1>a, <1>b, <2>0, <2>i, <2>j, <2>c DEF IInv, DirtyJournaled, SettledInFile, Settled, Dirty, Cached
  <2>10. CtxInv' /\ SameKeys'
    BY <1>b, <2>0, <2>i, <2>c DEF IInv, CtxInv, SameKeys, Working, KeepsKeys
  <2>11. WriteKeyCovers'
    <3>1. Working' => WriteKey' = WriteKey
      BY <1>b, <2>0, <2>i, <2>c DEF WriteKey, Working, KeepsKeys
    <3> QED BY <1>a, <1>b, <2>0, <2>c, <3>1 DEF IInv, WriteKeyCovers, Dirty, Cached
  <2>12. RekeyJournaled' /\ CommitSynced'
    BY <2>0 DEF RekeyJournaled, CommitSynced
  <2> QED BY <2>i, <2>1, <2>3, <2>5, <2>6, <2>7, <2>8, <2>9, <2>10, <2>11, <2>12 DEF IInv
<1> QED BY <1>a, <1>x, <1>y

(* An I/O error while the commit writes, syncs or deletes the journal.     *)
LEMMA CommitIOErrorInv ==
  ASSUME CarefulApplication, IInv, CommitIOError
  PROVE  IInv' /\ Recovered' = Recovered
<1>1. /\ op = "commit" /\ CommitFails(ctx) /\ UNCHANGED <<file, disk, jsync, jpend, cache, readonly, pgno>>
      /\ \/ eState \in {"WRITER_CACHEMOD", "WRITER_DBMOD"} /\ eState' = eState
         \/ eState = "WRITER_FINISHED" /\ eState' = "ERROR"
  BY DEF CommitIOError, IInv, ControlInv
<1>2. KeepsKeys(ctx, ctx, TheSalt)
  BY <1>1, OpenCtx
<1>3. cache' \in [Page -> [val : Value \cup {Zero}, dirty : BOOLEAN] \cup {NoPage}]
  BY <1>1 DEF IInv, TypeOK
<1>4. CASE caller = "sql"
  BY <1>1, <1>2, <1>3, <1>4, CommitFailsInv
<1>5. CASE caller = "rekey"
  <2>1. RekeyIgnoresFailure(ctx)
    BY <1>1, <1>5 DEF CommitFails
  <2> QED BY <1>1, <1>2, <1>3, <1>5, <2>1, RekeyIgnoresInv
<1> QED BY <1>4, <1>5 DEF IInv, TypeOK

(* One page written by the commit.                                         *)
LEMMA CommitWritePageInv ==
  ASSUME CarefulApplication, NEW p \in Page, IInv, CommitWritePage(p)
  PROVE  IInv' /\ Recovered' = Recovered
<1>a. /\ op = "commit" /\ p \in todo /\ UNCHANGED <<jsync, jpend, cache, eState, readonly, pgno>>
      /\ eState = "WRITER_DBMOD" /\ Dirty(p) /\ cache[p].val \in Value \cup {Zero}
  BY DEF CommitWritePage, IInv, ControlInv, CacheInv, Dirty, Cached, TypeOK
<1>b. /\ ctx # NoCtx /\ CtxOK(ctx, TheSalt) /\ file[1].hdr = TheSalt /\ TheSalt \in Salt /\ 1 \in Page
  BY <1>a, OpenCtx, FileFacts DEF IInv
<1>r. PICK r \in codec_write(ctx, TheSalt, p, cache[p].val) :
        IF r.out # Null
        THEN /\ ctx' = r.ctx /\ WriteFile(p, r.out) /\ todo' = todo \ {p}
             /\ UNCHANGED <<op, caller, told, rekeyTo, mustClose>>
        ELSE CommitFails(r.ctx) /\ UNCHANGED <<file, disk>>
  BY <1>b DEF CommitWritePage
<1>c. /\ CodecStep(ctx, r.ctx, TheSalt)
      /\ r.out = Null <=> r.ctx.error
      /\ ~r.ctx.error => /\ r.out \in SealedPage
                         /\ r.out = [key |-> WriteKey, val |-> cache[p].val,
                                     hdr |-> IF p = 1 THEN TheSalt ELSE NoSalt]
  BY <1>a, <1>b, WriteStep DEF CarefulApplication, WriteKey
<1>d. KeepsKeys(ctx, r.ctx, TheSalt)
  BY <1>b, <1>c, CodecKeepsKeys
<1>x. CASE r.out = Null
  <2>1. cache' \in [Page -> [val : Value \cup {Zero}, dirty : BOOLEAN] \cup {NoPage}] /\ CommitFails(r.ctx) /\ UNCHANGED <<file, disk>>
    BY <1>a, <1>r, <1>x DEF IInv, TypeOK
  <2>2. CASE caller = "sql"
    BY <1>a, <1>d, <2>1, <2>2, CommitFailsInv
  <2>3. CASE caller = "rekey"
    <3>1. RekeyIgnoresFailure(r.ctx)
      BY <2>1, <2>3 DEF CommitFails
    <3> QED BY <1>a, <1>d, <2>1, <2>3, <3>1, RekeyIgnoresInv
  <2> QED BY <2>2, <2>3 DEF IInv, TypeOK
<1>y. CASE r.out # Null
  <2>0. /\ ctx' = r.ctx /\ WriteFile(p, r.out) /\ todo' = todo \ {p} /\ ~r.ctx.error
        /\ UNCHANGED <<op, caller, told, rekeyTo, mustClose>>
    BY <1>c, <1>r, <1>y
  <2>1. Working /\ Working' /\ ~ctx'.write_ctx.derive_key /\ ctx' \in codec_ctx
    BY <1>b, <1>c, <1>d, <2>0 DEF Working, KeepsKeys, CodecStep, CtxOK
  <2>2. jsync[p] # NoRec /\ cache[p].val # Zero
    BY <1>a, <2>1 DEF IInv, DirtyJournaled, JournalInv, InJournal, NoZeroCached, Dirty
  <2>3. /\ r.out \in SealedPage /\ GoodPage(p, r.out)
        /\ r.out.key = WriteKey /\ r.out.val = cache[p].val
    BY SMT, <1>c, <2>0, <2>2 DEF GoodPage
  <2>i. /\ ImageInv' /\ Recovered' = Recovered /\ TheKey' = TheKey /\ TheSalt' = TheSalt
        /\ HotJournal' = HotJournal /\ \A q \in Page : InJournal(q)' = InJournal(q)
        /\ file' \in [Page -> SealedPage] /\ disk' \in [Page -> SUBSET SealedPage]
        /\ file'[p] = r.out /\ \A q \in Page : q # p => file'[q] = file[q]
    BY <1>a, <2>0, <2>2, <2>3, WriteImage DEF IInv
  <2>4. TypeOK'
    BY <1>a, <2>0, <2>1, <2>i DEF IInv, TypeOK
  <2>5. JournalInv' /\ PlayedBack'
    BY <1>a, <2>0, <2>i DEF IInv, JournalInv, PlayedBack
  <2>6. ControlInv'
    BY <1>a, <2>0, <2>1 DEF IInv, ControlInv, Working
  <2>7. CacheInv'
    BY <1>a, <2>0 DEF IInv, CacheInv, Dirty, Cached
  <2>8. OriginalCached'
    BY <1>a, <1>d, <2>0, <2>1, <2>i DEF IInv, OriginalCached, Original, Cached, KeepsKeys
  <2>9. NoZeroCached'
    BY <1>a, <2>1 DEF IInv, NoZeroCached, Cached
  <2>10. DirtyJournaled' /\ SettledInFile'
    BY <1>a, <2>0, <2>1, <2>3, <2>i DEF IInv, DirtyJournaled, SettledInFile, Settled, Dirty, Cached
  <2>11. CtxInv' /\ SameKeys'
    BY <1>a, <1>d, <2>0, <2>1, <2>i DEF IInv, CtxInv, SameKeys, KeepsKeys
  <2>12. WriteKeyCovers'
    <3>1. WriteKey' = WriteKey
      BY <1>d, <2>0, <2>i DEF WriteKey, KeepsKeys
    <3> QED BY <1>a, <2>0, <2>1, <2>3, <2>i, <3>1 DEF IInv, WriteKeyCovers
  <2>13. RekeyJournaled' /\ CommitSynced'
    BY <1>a, <2>0, <2>i DEF IInv, RekeyJournaled, CommitSynced
  <2> QED BY <2>i, <2>4, <2>5, <2>6, <2>7, <2>8, <2>9, <2>10, <2>11, <2>12, <2>13 DEF IInv
<1> QED BY <1>x, <1>y

(* The commit point: the journal is deleted and the file is the image.     *)
LEMMA PhaseTwoInv ==
  ASSUME CarefulApplication, IInv, sqlite3PagerCommitPhaseTwo
  PROVE  IInv'
<1>a. /\ op = "commit" /\ eState = "WRITER_FINISHED" /\ todo = {} /\ op' = "idle" /\ eState' = "OPEN"
      /\ jsync' = NoRecs /\ jpend' = jpend /\ UNCHANGED <<file, disk, cache, readonly, todo, pgno>>
  BY DEF sqlite3PagerCommitPhaseTwo, IInv, ControlInv
<1>b. /\ Working /\ ~ctx.write_ctx.derive_key /\ CtxOK(ctx, TheSalt) /\ TheSalt \in Salt
      /\ ctx.kdf_salt = TheSalt /\ 1 \in Page /\ ~mustClose
  BY <1>a, FileFacts DEF IInv, WriteKeyCovers, CtxInv, Working, ControlInv
<1>c. /\ \A p \in Page : /\ file[p].key = WriteKey /\ disk[p] = {file[p]} /\ jpend[p] = NoRec
                         /\ cache[p] # NoPage => cache[p].val = file[p].val
  BY <1>a, <1>b DEF IInv, WriteKeyCovers, CommitSynced, JournalInv, SettledInFile, Settled, Cached
<1>d. WriteKey = ctx.write_ctx.key /\ WriteKey \in Key /\ WriteKey.salt = TheSalt
  BY <1>b DEF WriteKey, KeyOf, CtxOK, CipherOK, Working
<1>e. /\ caller' = "sql" /\ mustClose' = mustClose /\ ~mustClose /\ told' \in Pass /\ rekeyTo' \in Pass \cup {NoPass}
      /\ CtxOK(ctx', TheSalt) /\ ~ctx'.error /\ ctx'.read_ctx = ctx.write_ctx /\ ctx'.write_ctx = ctx.write_ctx
  <2>1. CASE caller = "rekey"
    <3>1. ctx' = sqlcipher_codec_key_copy(ctx) /\ caller' = "sql" /\ told' = rekeyTo /\ rekeyTo' = NoPass
          /\ mustClose' = mustClose /\ rekeyTo \in Pass
      BY <2>1 DEF sqlite3PagerCommitPhaseTwo, RekeyReturnsOk, IInv, ControlInv
    <3> QED BY <1>b, <3>1, KeyCopyStep DEF Working
  <2>2. CASE caller = "sql"
    <3>1. UNCHANGED <<ctx, caller, told, rekeyTo, mustClose>>
      BY <2>2 DEF sqlite3PagerCommitPhaseTwo
    <3> QED BY <1>b, <2>2, <3>1 DEF IInv, TypeOK, SameKeys, Working
  <2> QED BY <2>1, <2>2 DEF IInv, TypeOK
<1>f. ctx' \in codec_ctx /\ ctx' # NoCtx
  BY <1>e, EnvironmentAssumption DEF CtxOK
<1>g. /\ \A p \in Page : Recovered'[p] = file[p] /\ ~InJournal(p)'
      /\ TheKey' = WriteKey /\ TheSalt' = TheSalt /\ ~HotJournal'
  <2>1. \A p \in Page : Recovered'[p] = file[p] /\ ~InJournal(p)'
    BY <1>a, <1>c DEF Recovered, NoRecs, InJournal
  <2> QED BY <1>b, <1>c, <2>1, FileFacts DEF IInv, TheKey, TheSalt, HotJournal, InJournal
<1>2. ImageInv'
  <2>1. Uniform'
    BY SMT, <1>a, <1>b, <1>c, <1>d, <1>g, FileFacts DEF IInv, Uniform, GoodPage
  <2>2. DiskPages'
    BY <1>a, <1>g DEF IInv, ImageInv, DiskPages, GoodPage
  <2>3. PowerLossSafe' /\ PendingIsFile'
    BY <1>a, <1>c DEF PowerLossSafe, PendingIsFile
  <2> QED BY <2>1, <2>2, <2>3 DEF ImageInv
<1>1. TypeOK'
  <2>1. jsync' \in [Page -> SealedPage \cup {NoRec}]
    BY <1>a DEF NoRecs
  <2>2. mustClose' \in BOOLEAN
    BY <1>e DEF IInv, TypeOK
  <2> QED BY <1>a, <1>e, <1>f, <2>1, <2>2 DEF IInv, TypeOK, States, Ops
<1>3. JournalInv' /\ PlayedBack'
  BY <1>a, <1>c, <1>g DEF JournalInv, PlayedBack
<1>5. ControlInv'
  BY <1>a, <1>e, <1>f DEF ControlInv
<1>6. CacheInv'
  <2>1. \A p \in Page : ~Dirty(p)
    BY <1>a DEF IInv, CommitSynced
  <2> QED BY <1>a, <1>g, <2>1 DEF CacheInv, Dirty, Cached
<1>7. OriginalCached'
  BY <1>a, <1>b, <1>c, <1>d, <1>e, <1>g DEF OriginalCached, Original, Working, Cached
<1>8. NoZeroCached'
  BY <1>a, <1>b DEF IInv, NoZeroCached, Cached
<1>9. DirtyJournaled' /\ SettledInFile'
  BY <1>a DEF DirtyJournaled, SettledInFile
<1>10. CtxInv' /\ SameKeys'
  BY <1>a, <1>e, <1>g DEF CtxInv, SameKeys
<1>11. WriteKeyCovers' /\ RekeyJournaled' /\ CommitSynced'
  BY <1>a DEF WriteKeyCovers, RekeyJournaled, CommitSynced
<1> QED BY <1>1, <1>2, <1>3, <1>5, <1>6, <1>7, <1>8, <1>9, <1>10, <1>11 DEF IInv

-----------------------------------------------------------------------------
(* A database sealed with one key, not yet opened.                         *)
LEMMA InitInv ==
  ASSUME CarefulApplication, Init
  PROVE  IInv
<1>1. PICK k \in Pass, s \in Salt, v \in [Page -> Value] :
        file = [p \in Page |-> [key |-> [pass |-> k, salt |-> salt_for(k, s)], val |-> v[p],
                               hdr |-> IF p = 1 THEN salt_for(k, s) ELSE NoSalt]]
        /\ told = k
  BY SMT DEF Init
<1>2. /\ disk = [p \in Page |-> {file[p]}] /\ jsync = NoRecs /\ jpend = NoRecs /\ cache = NoPages
      /\ eState = "OPEN" /\ ctx = NoCtx /\ readonly = FALSE /\ op = "closed" /\ caller = "sql"
      /\ todo = {} /\ pgno = 1 /\ rekeyTo = NoPass /\ mustClose = FALSE
  BY DEF Init
<1>3. salt_for(k, s) = s
  BY DEF CarefulApplication, PlainKeys, salt_for
<1>4. /\ 1 \in Page
      /\ \A p \in Page : /\ file[p] = [key |-> [pass |-> k, salt |-> s], val |-> v[p],
                                       hdr |-> IF p = 1 THEN s ELSE NoSalt]
                        /\ file[p] \in SealedPage /\ file[p].key = [pass |-> k, salt |-> s]
                        /\ file[p].val \in Value /\ file[p].hdr = IF p = 1 THEN s ELSE NoSalt
  BY SMT, <1>1, <1>3, PagesAssumption DEF Page, SealedPage, Key
<1>5. /\ \A p \in Page : Recovered[p] = file[p]
      /\ TheKey = [pass |-> k, salt |-> s] /\ TheSalt = s
  BY Zenon, <1>2, <1>4 DEF Recovered, NoRecs, TheKey, TheSalt
<1>6. \A p \in Page : GoodPage(p, file[p])
  BY Zenon, <1>4, <1>5, NoneAssumption DEF GoodPage
<1>7. TypeOK
  <2>1. file \in [Page -> SealedPage]
    BY Zenon, <1>1, <1>4
  <2>2. /\ disk \in [Page -> SUBSET SealedPage]
        /\ jsync \in [Page -> SealedPage \cup {NoRec}] /\ jpend \in [Page -> SealedPage \cup {NoRec}]
        /\ cache \in [Page -> [val : Value \cup {Zero}, dirty : BOOLEAN] \cup {NoPage}]
    BY Zenon, <1>2, <1>4 DEF NoRecs, NoPages
  <2>3. pgno \in 1 .. N + 1
    BY SMT, <1>2, PagesAssumption
  <2> QED BY Zenon, <1>1, <1>2, <2>1, <2>2, <2>3 DEF TypeOK, States, Ops
<1>8. ImageInv
  BY Zenon, <1>2, <1>4, <1>5, <1>6 DEF ImageInv, Uniform, DiskPages, PowerLossSafe, PendingIsFile, NoRecs
<1>9. JournalInv /\ PlayedBack /\ ControlInv /\ CacheInv
  BY <1>2 DEF JournalInv, PlayedBack, ControlInv, CacheInv, NoRecs
<1>10. /\ OriginalCached /\ NoZeroCached /\ DirtyJournaled /\ SettledInFile /\ CtxInv /\ SameKeys
       /\ WriteKeyCovers /\ RekeyJournaled /\ CommitSynced
  BY <1>2 DEF OriginalCached, NoZeroCached, DirtyJournaled, SettledInFile, CtxInv, SameKeys,
     WriteKeyCovers, RekeyJournaled, CommitSynced, Working
<1> QED BY <1>7, <1>8, <1>9, <1>10 DEF IInv

(* A step that changes nothing.                                            *)
LEMMA StutterInv ==
  ASSUME IInv, UNCHANGED vars
  PROVE  IInv' /\ Recovered' = Recovered
<1>1. /\ UNCHANGED <<file, disk, jsync, jpend, cache, eState, ctx, readonly, op, caller>>
      /\ UNCHANGED <<todo, pgno, told, rekeyTo, mustClose>>
  BY DEF vars
<1>2. /\ ImageInv' /\ Recovered' = Recovered /\ TheKey' = TheKey /\ TheSalt' = TheSalt
      /\ HotJournal' = HotJournal /\ Journaled' = Journaled
      /\ \A p \in Page : InJournal(p)' = InJournal(p)
  BY Zenon, <1>1, SameImage DEF IInv
<1>3. TypeOK' /\ JournalInv' /\ PlayedBack' /\ ControlInv'
  <2>1. TypeOK'
    BY <1>1 DEF IInv, TypeOK
  <2>2. JournalInv' /\ PlayedBack'
    BY <1>1, <1>2 DEF IInv, JournalInv, PlayedBack
  <2>3. ControlInv'
    BY <1>1, <1>2 DEF IInv, ControlInv
  <2> QED BY <2>1, <2>2, <2>3
<1>4. CacheInv' /\ OriginalCached' /\ NoZeroCached'
  BY Zenon, <1>1, <1>2 DEF IInv, CacheInv, OriginalCached, Original, NoZeroCached, Working, Dirty, Cached
<1>5. DirtyJournaled' /\ SettledInFile' /\ CtxInv' /\ SameKeys'
  BY Zenon, <1>1, <1>2 DEF IInv, DirtyJournaled, SettledInFile, Settled, CtxInv, SameKeys, Working, Dirty, Cached
<1>6. WriteKeyCovers' /\ RekeyJournaled' /\ CommitSynced'
  BY <1>1, <1>2 DEF IInv, WriteKeyCovers, WriteKey, RekeyJournaled, CommitSynced, Working, Dirty, Cached
<1> QED BY <1>2, <1>3, <1>4, <1>5, <1>6 DEF IInv

(* IInv is inductive, and only phase two of a commit changes the           *)
(* recoverable image: one case per action.                                 *)
LEMMA NextInv ==
  ASSUME CarefulApplication, IInv, [Next]_vars
  PROVE  IInv' /\ (Recovered' = Recovered \/ sqlite3PagerCommitPhaseTwo)
<1>1. ASSUME NEW k \in Pass, Open(k) \/ sqlcipherCodecAttach(k) \/ sqlite3_rekey_v2(k)
      PROVE  IInv' /\ (Recovered' = Recovered \/ sqlite3PagerCommitPhaseTwo)
  BY <1>1, OpenInv, AttachInv, RekeyInv
<1>2. CASE sqlite3PagerClose \/ Crash
  BY <1>2, PagerCloseInv, CrashInv
<1>3. CASE BeginRead \/ RecoverEnd \/ lockBtree \/ EndRead
  BY <1>3, BeginReadInv, RecoverEndInv, lockBtreeInv, EndReadInv
<1>4. ASSUME NEW p \in Page, RecoverPage(p) \/ sqlite3PagerGet(p) \/ Evict(p) \/ pagerStress(p)
      PROVE  IInv' /\ (Recovered' = Recovered \/ sqlite3PagerCommitPhaseTwo)
  BY <1>4, RecoverPageInv, PagerGetInv, EvictInv, StressInv
<1>5. ASSUME NEW p \in Page, pagerStressIOError(p) \/ CommitWritePage(p) \/ RollbackPage(p)
      PROVE  IInv' /\ (Recovered' = Recovered \/ sqlite3PagerCommitPhaseTwo)
  BY <1>5, StressIOErrorInv, CommitWritePageInv, RollbackPageInv
<1>6. ASSUME NEW p \in Page, NEW v \in Value, sqlite3PagerWrite(p, v)
      PROVE  IInv' /\ (Recovered' = Recovered \/ sqlite3PagerCommitPhaseTwo)
  BY <1>6, PagerWriteInv
<1>7. CASE sqlite3BtreeBeginTrans
  BY <1>7, BeginTransInv
<1>8. CASE CommitNothing \/ CommitSyncJournal \/ CommitBusy \/ CommitIOError
  BY <1>8, CommitNothingInv, CommitSyncJournalInv, CommitBusyInv, CommitIOErrorInv
<1>9. CASE CommitSyncFile \/ sqlite3PagerCommitPhaseTwo
  BY <1>9, CommitSyncFileInv, PhaseTwoInv
<1>10. CASE sqlite3PagerRollback \/ RollbackEnd \/ RollbackIOError \/ RollbackStopped
  BY <1>10, PagerRollbackInv, RollbackEndInv, RollbackIOErrorInv, RollbackStoppedInv
<1>11. CASE RekeyBegin \/ RekeyCannotBegin \/ RekeyPage \/ RekeyAbort
  BY <1>11, RekeyBeginInv, RekeyCannotBeginInv, RekeyPageInv, RekeyAbortInv
<1>12. CASE UNCHANGED vars
  BY <1>12, StutterInv
<1> QED BY <1>1, <1>2, <1>3, <1>4, <1>5, <1>6, <1>7, <1>8, <1>9, <1>10, <1>11, <1>12 DEF Next

(* What the invariant says of the properties.                              *)
LEMMA InvImplies ==
  ASSUME CarefulApplication, IInv
  PROVE  TypeOK /\ OneKey /\ PowerLossSafe /\ NoZeroedPageStored /\ CacheCoherent
<1>1. TypeOK /\ PowerLossSafe
  BY DEF IInv, ImageInv
<1>2. OneKey
  <2>1. TheKey \in Key /\ TheKey.salt = TheSalt /\ \A p \in Page : Recovered[p].key = TheKey
    BY FileFacts DEF IInv
  <2>2. TheKey.pass \in Pass /\ TheKey = [pass |-> TheKey.pass, salt |-> TheSalt]
    BY <2>1 DEF Key
  <2>3. salt_for(TheKey.pass, Recovered[1].hdr) = TheSalt
    BY <2>2 DEF CarefulApplication, PlainKeys, salt_for, TheSalt
  <2>4. Opens(Recovered, TheKey.pass)
    BY <2>1, <2>2, <2>3 DEF Opens
  <2> QED BY <2>2, <2>4 DEF OneKey
<1>3. NoZeroedPageStored
  <2>1. \A p \in Page : /\ GoodPage(p, file[p]) /\ GoodPage(p, Recovered[p])
                        /\ jsync[p] # NoRec => jsync[p] = Recovered[p]
                        /\ jpend[p] # NoRec => jpend[p] = Recovered[p]
    BY FileFacts DEF IInv, Recovered
  <2> QED BY <2>1 DEF NoZeroedPageStored, GoodPage
<1>4. CacheCoherent
  <2>1. SUFFICES ASSUME op \in {"idle", "read"}, ~ctx.error, NEW p \in Page, Cached(p)
                 PROVE  cache[p].val = file[p].val /\ ctx.read_ctx.key = file[p].key
    BY DEF CacheCoherent
  <2>2. Working
    BY <2>1 DEF IInv, ControlInv, Working
  <2>3. ~InJournal(p)
    BY <2>1 DEF IInv, JournalInv, CacheInv, Cached, NoPages, HotJournal, InJournal
  <2> QED BY <2>1, <2>2, <2>3, FileFacts DEF IInv, OriginalCached, Original
<1> QED BY <1>1, <1>2, <1>3, <1>4

-----------------------------------------------------------------------------
(* The inductive invariant holds in every reachable state.                 *)
THEOREM Inductive ==
  ASSUME CarefulApplication
  PROVE  Spec => []IInv
  BY InitInv, NextInv, PTL DEF Spec

(* Type correctness of the pager and the codec context.                    *)
THEOREM TypeCorrect ==
  ASSUME CarefulApplication
  PROVE  Spec => []TypeOK
  BY Inductive, InvImplies, PTL

(* However a commit, a rollback, a recovery or a rekey is interrupted, the *)
(* database that a recovery restores is sealed with one key.               *)
THEOREM NeverMixed ==
  ASSUME CarefulApplication
  PROVE  Spec => []OneKey
  BY Inductive, InvImplies, PTL

(* A page is written to the file only after its original is in the synced  *)
(* journal, so the version a power loss leaves does not matter.            *)
THEOREM JournalFirst ==
  ASSUME CarefulApplication
  PROVE  Spec => []PowerLossSafe
  BY Inductive, InvImplies, PTL

(* No page that failed to decrypt is written back as zeroes.               *)
THEOREM NoZeroes ==
  ASSUME CarefulApplication
  PROVE  Spec => []NoZeroedPageStored
  BY Inductive, InvImplies, PTL

(* No stale page survives in the cache of a working codec.                 *)
THEOREM Coherent ==
  ASSUME CarefulApplication
  PROVE  Spec => []CacheCoherent
  BY Inductive, InvImplies, PTL

(* The deletion of the journal is the only commit point.                   *)
THEOREM CommitPoint ==
  ASSUME CarefulApplication
  PROVE  Spec => OnlyCommitChanges
<1>1. IInv /\ [Next]_vars => [Recovered' = Recovered \/ sqlite3PagerCommitPhaseTwo]_vars
  BY NextInv
<1> QED BY <1>1, Inductive, PTL DEF Spec, OnlyCommitChanges

-----------------------------------------------------------------------------
(* The abstract database, and what the application knows.                  *)

InTxn == op \in {"txn", "rekey", "commit"}

(* What a step does to the abstract database.                              *)
DbStep == Abstract!DbNext \/ UNCHANGED <<DbOf, TxnOf>>

(* What a step does to the knowledge of the application.                   *)
AppStep == ~RekeyCommitMayFail /\ AppInv => AppInv'

(* Changing the key or a page of a database.                               *)
LEMMA ChangedDatabase ==
  \A d, a, b : d = [key |-> a, content |-> b] =>
    /\ \A c : [d EXCEPT !.key = c] = [key |-> c, content |-> b]
    /\ \A p, v : [d EXCEPT !.content[p] = v] = [key |-> a, content |-> [b EXCEPT ![p] = v]]
  BY SMT

(* The image is a database of the abstract specification.                  *)
LEMMA DbOfType ==
  ASSUME IInv
  PROVE  DbOf \in [key : Key, content : [Page -> Value]]
<1>1. TheKey \in Key /\ \A p \in Page : Recovered[p].val \in Value
  BY SMT, FileFacts DEF IInv, SealedPage, GoodPage
<1> QED BY <1>1 DEF DbOf

(* So is what a working transaction would commit.                          *)
LEMMA TxnOfType ==
  ASSUME IInv, InTxn
  PROVE  /\ TxnOf # NoTxn
         /\ ctx.error => TxnOf = Failed
         /\ ~ctx.error => /\ Working
                          /\ TxnOf = [key |-> WriteKey, content |-> [p \in Page |-> View(p)]]
                          /\ TxnOf \in [key : Key, content : [Page -> Value]]
                          /\ TxnOf # Failed
<1>1. CASE ctx.error
  BY <1>1, MarksAssumption DEF TxnOf, InTxn
<1>2. CASE ~ctx.error
  <2>1. Working /\ CtxOK(ctx, TheSalt) /\ TheSalt \in Salt
    BY <1>2, OpenCtx, FileFacts DEF IInv, InTxn, Working
  <2>2. WriteKey \in Key
    BY SMT, <2>1 DEF WriteKey, KeyOf, CtxOK, CipherOK, Working, Key
  <2>3. \A p \in Page : View(p) \in Value
    BY <2>1, FileFacts DEF View, IInv, NoZeroCached, Cached, TypeOK
  <2>4. TxnOf = [key |-> WriteKey, content |-> [p \in Page |-> View(p)]]
    BY <1>2 DEF TxnOf, InTxn
  <2>5. [p \in Page |-> View(p)] \in [Page -> Value]
    BY <2>3
  <2>6. TxnOf \in [key : Key, content : [Page -> Value]]
    BY <2>2, <2>4, <2>5
  <2>7. TxnOf # NoTxn /\ TxnOf # Failed
    BY <2>6, MarksAssumption
  <2> QED BY <1>2, <2>1, <2>4, <2>6, <2>7
<1> QED BY <1>1, <1>2

(* A step outside a transaction, to a state outside one.                   *)
LEMMA DbOutside ==
  ASSUME Recovered' = Recovered, ~InTxn, ~InTxn'
  PROVE  DbStep
  BY DEF DbStep, DbOf, TxnOf, InTxn, TheKey

(* A step that ends a transaction without a commit.                        *)
LEMMA DbAborts ==
  ASSUME IInv, Recovered' = Recovered, InTxn, ~InTxn'
  PROVE  DbStep
<1>1. DbOf' = DbOf /\ TxnOf' = NoTxn
  BY DEF DbOf, TxnOf, InTxn, TheKey
<1>2. Abstract!Abort
  BY <1>1, TxnOfType DEF Abstract!Abort
<1> QED BY <1>2 DEF DbStep, Abstract!DbNext

(* A step inside a transaction that leaves its view of the pages.          *)
LEMMA DbInside ==
  ASSUME IInv, IInv', Recovered' = Recovered, InTxn, InTxn', ctx.error => ctx'.error,
         ~ctx'.error => WriteKey' = WriteKey /\ \A p \in Page : View(p)' = View(p)
  PROVE  DbStep
<1>1. DbOf' = DbOf
  BY DEF DbOf, TheKey
<1>2. CASE ctx.error
  <2>1. TxnOf = Failed /\ TxnOf' = Failed
    BY <1>2 DEF TxnOf, InTxn
  <2> QED BY <1>1, <2>1 DEF DbStep
<1>3. CASE ~ctx.error /\ ctx'.error
  <2>1. TxnOf # Failed /\ TxnOf' = Failed
    BY <1>3, TxnOfType DEF TxnOf, InTxn
  <2>2. Abstract!Fail
    BY <1>1, <2>1 DEF Abstract!Fail
  <2> QED BY <2>2 DEF DbStep, Abstract!DbNext
<1>4. CASE ~ctx.error /\ ~ctx'.error
  <2>1. TxnOf' = TxnOf
    BY <1>4 DEF TxnOf, InTxn
  <2> QED BY <1>1, <2>1 DEF DbStep
<1> QED BY <1>2, <1>3, <1>4

(* A step that keeps the keys keeps what the application knows.            *)
LEMMA AppKept ==
  ASSUME Recovered' = Recovered, ctx # NoCtx, KeepsKeys(ctx, ctx', TheSalt),
         UNCHANGED <<caller, told, rekeyTo>>, Transacting' => Transacting
  PROVE  AppStep
<1> SUFFICES ASSUME AppInv PROVE AppInv'
  BY DEF AppStep
<1>1. TheKey' = TheKey /\ TheSalt' = TheSalt
  BY DEF TheKey, TheSalt
<1>2. Working' => /\ Working /\ WriteKey' = WriteKey
                  /\ ~ctx.read_ctx.derive_key => ~ctx'.read_ctx.derive_key /\ ctx'.read_ctx.key = ctx.read_ctx.key
  BY <1>1 DEF Working, KeepsKeys, WriteKey
<1> QED BY <1>1, <1>2 DEF AppInv

(* A call that returns to the application, or a new handle: a rekey that   *)
(* fails leaves the key that was told.                                     *)
LEMMA AppReturns ==
  ASSUME Recovered' = Recovered, caller' = "sql", told' = told,
         rekeyTo' = rekeyTo \/ caller = "rekey",
         Transacting' => Transacting /\ ctx' = ctx
  PROVE  AppStep
<1> SUFFICES ASSUME AppInv PROVE AppInv'
  BY DEF AppStep
<1>1. TheKey' = TheKey
  BY DEF TheKey
<1>2. Transacting' => (Working' => Working)
  BY DEF Working
<1> QED BY <1>1, <1>2 DEF AppInv

-----------------------------------------------------------------------------
(* The steps that leave the codec alone and stay outside a transaction or  *)
(* leave one: a read begins or ends, a hot journal is played back, a       *)
(* commit has nothing to write, a rollback begins or fails.                *)
LEMMA PlainSteps ==
  ASSUME IInv, Recovered' = Recovered,
         \/ BeginRead \/ EndRead \/ RecoverEnd \/ CommitNothing \/ sqlite3PagerRollback
         \/ RollbackIOError \/ RekeyAbort \/ \E p \in Page : RecoverPage(p)
  PROVE  AppStep /\ DbStep
<1>1. /\ op # "closed" /\ ctx' = ctx /\ UNCHANGED <<caller, told, rekeyTo>> /\ ~InTxn'
      /\ Transacting' => Transacting
  BY DEF BeginRead, SharedLock, EndRead, RecoverEnd, CommitNothing, sqlite3PagerRollback,
     RollbackIOError, RekeyAbort, RekeyRollback, RecoverPage, InTxn, Transacting
<1>2. ctx # NoCtx /\ KeepsKeys(ctx, ctx', TheSalt)
  BY <1>1, OpenCtx
<1> QED BY <1>1, <1>2, AppKept, DbOutside, DbAborts

(* The steps that leave the codec and what the transaction sees alone: a   *)
(* page leaves the cache, a spill fails, the file is synced.               *)
LEMMA CacheSteps ==
  ASSUME IInv, IInv', Recovered' = Recovered,
         \/ CommitSyncFile \/ \E p \in Page : Evict(p) \/ pagerStressIOError(p)
  PROVE  AppStep /\ DbStep
<1>1. op # "closed" /\ ctx' = ctx /\ op' = op /\ file' = file /\ UNCHANGED <<caller, told, rekeyTo>>
  BY DEF CommitSyncFile, Evict, pagerStressIOError, MaySpill
<1>2. ctx # NoCtx /\ KeepsKeys(ctx, ctx', TheSalt)
  BY <1>1, OpenCtx
<1>3. AppStep
  BY <1>1, <1>2, AppKept DEF Transacting
<1>4. ASSUME InTxn, ~ctx'.error PROVE WriteKey' = WriteKey /\ \A q \in Page : View(q)' = View(q)
  <2>1. WriteKey' = WriteKey
    BY <1>1 DEF WriteKey, TheSalt
  <2>2. Working
    BY <1>1, <1>2, <1>4 DEF Working
  <2>3. CASE CommitSyncFile
    <3>1. \A q \in Page : (cache'[q] = NoPage <=> cache[q] = NoPage) /\ (cache'[q] # NoPage => cache'[q].val = cache[q].val)
      BY <2>3, CleanAllFacts DEF IInv, CommitSyncFile
    <3> QED BY <1>1, <2>1, <3>1 DEF View, Cached
  <2>4. ASSUME NEW p \in Page, Evict(p) PROVE \A q \in Page : View(q)' = View(q)
    <3>1. /\ cache'[p] = NoPage /\ \A q \in Page : q # p => cache'[q] = cache[q]
      BY <2>4 DEF Evict, IInv, TypeOK
    <3>2. cache[p].val = file[p].val /\ Cached(p)
      BY <1>4, <2>2, <2>4 DEF Evict, IInv, SettledInFile, Settled, InTxn
    <3> QED BY <1>1, <3>1, <3>2 DEF View, Cached
  <2>5. ASSUME NEW p \in Page, pagerStressIOError(p) PROVE \A q \in Page : View(q)' = View(q)
    BY <1>1, <2>5 DEF pagerStressIOError, View, Cached
  <2> QED BY <2>1, <2>3, <2>4, <2>5
<1>5. DbStep
  BY <1>1, <1>4, DbOutside, DbInside DEF InTxn
<1> QED BY <1>3, <1>5

(* The steps that open, key or close a handle, and a crash.                *)
LEMMA HandleSteps ==
  ASSUME IInv, Recovered' = Recovered,
         \/ sqlite3PagerClose \/ Crash \/ \E k \in Pass : Open(k) \/ sqlcipherCodecAttach(k)
  PROVE  AppStep /\ DbStep
<1>1. caller' = "sql" /\ ~InTxn' /\ ~Transacting' /\ UNCHANGED <<told, rekeyTo>>
  BY DEF sqlite3PagerClose, Crash, Open, sqlcipherCodecAttach, InUse, InTxn, Transacting, IInv, ControlInv
<1> QED BY <1>1, AppReturns, DbOutside, DbAborts

(* A rollback returns, or a rekey cannot begin its transaction.            *)
LEMMA ReturnSteps ==
  ASSUME IInv, Recovered' = Recovered, RollbackEnd \/ RollbackStopped \/ RekeyCannotBegin
  PROVE  AppStep /\ DbStep
<1>1. /\ caller' = "sql" /\ told' = told /\ (rekeyTo' = rekeyTo \/ caller = "rekey")
      /\ ~InTxn /\ ~InTxn' /\ (Transacting' => Transacting /\ ctx' = ctx)
  BY DEF RollbackEnd, RollbackStopped, RollbackReturns, RekeyCannotBegin, RekeyReturnsError,
     InTxn, Transacting, IInv, TypeOK
<1> QED BY <1>1, AppReturns, DbOutside

-----------------------------------------------------------------------------
(* In a read transaction page 1 is cached, so a working codec reads with   *)
(* the key of the image, and every cached page is as in the image.         *)
LEMMA Reading ==
  ASSUME IInv, op = "read", ~ctx.error
  PROVE  /\ Working /\ ~ctx.read_ctx.derive_key /\ ctx.read_ctx.key = TheKey
         /\ \A p \in Page : View(p) = Recovered[p].val
<1>1. Working /\ 1 \in Page /\ Cached(1) /\ \A p \in Page : ~InJournal(p)
  BY FileFacts DEF IInv, ControlInv, Working, CacheInv, JournalInv, HotJournal, InJournal
<1>2. /\ ~ctx.read_ctx.derive_key /\ ctx.read_ctx.key = TheKey
      /\ \A p \in Page : Cached(p) => cache[p].val = Recovered[p].val
  BY <1>1 DEF IInv, OriginalCached, Original
<1> QED BY <1>1, <1>2, FileFacts DEF IInv, View

(* A write transaction begins as the database.                             *)
LEMMA BeginStep ==
  ASSUME CarefulApplication, IInv, Recovered' = Recovered, sqlite3BtreeBeginTrans
  PROVE  AppStep /\ DbStep
<1>1. /\ op = "read" /\ op' = "txn" /\ caller = "sql" /\ ~mustClose
      /\ UNCHANGED <<file, jsync, cache, ctx, caller, told, rekeyTo>>
  BY DEF sqlite3BtreeBeginTrans, InUse, CarefulApplication
<1>2. ctx # NoCtx /\ KeepsKeys(ctx, ctx', TheSalt)
  BY <1>1, OpenCtx
<1>3. AppStep
  BY <1>1, <1>2, AppKept DEF Transacting
<1>4. DbOf' = DbOf /\ TxnOf = NoTxn
  BY <1>1 DEF DbOf, TheKey, TxnOf
<1>5. CASE ctx.error
  <2>1. TxnOf' = Failed
    BY <1>1, <1>5 DEF TxnOf
  <2>2. Abstract!Fail
    BY <1>4, <2>1, MarksAssumption DEF Abstract!Fail
  <2> QED BY <1>3, <2>2 DEF DbStep, Abstract!DbNext
<1>6. CASE ~ctx.error
  <2>1. /\ Working /\ ~ctx.read_ctx.derive_key /\ ctx.read_ctx.key = TheKey
        /\ \A p \in Page : View(p) = Recovered[p].val
    BY <1>1, <1>6, Reading
  <2>2. WriteKey = TheKey
    BY <1>1, <2>1 DEF IInv, SameKeys, WriteKey, KeyOf
  <2>3. WriteKey' = WriteKey /\ \A p \in Page : View(p)' = View(p)
    BY <1>1 DEF WriteKey, TheSalt, View, Cached
  <2>4. TxnOf' = [key |-> WriteKey', content |-> [p \in Page |-> View(p)']]
    BY <1>1, <1>6 DEF TxnOf
  <2>5. TxnOf' = DbOf
    BY <2>1, <2>2, <2>3, <2>4 DEF DbOf
  <2>6. Abstract!Begin
    BY <1>4, <2>5 DEF Abstract!Begin
  <2> QED BY <1>3, <2>6 DEF DbStep, Abstract!DbNext
<1> QED BY <1>5, <1>6

(* The transaction of a rekey begins as the database under the new key.    *)
LEMMA RekeyBeginStep ==
  ASSUME IInv, Recovered' = Recovered, RekeyBegin
  PROVE  AppStep /\ DbStep
<1>1. /\ op = "read" /\ op' = "rekey" /\ UNCHANGED <<file, jsync, cache, ctx, caller, told, rekeyTo>>
  BY DEF RekeyBegin
<1>2. ctx # NoCtx /\ KeepsKeys(ctx, ctx', TheSalt) /\ CtxOK(ctx, TheSalt) /\ TheSalt \in Salt
  BY <1>1, OpenCtx, FileFacts DEF IInv
<1>3. AppStep
  BY <1>1, <1>2, AppKept DEF Transacting
<1>4. DbOf' = DbOf /\ TxnOf = NoTxn
  BY <1>1 DEF DbOf, TheKey, TxnOf
<1>5. CASE ctx.error
  <2>1. TxnOf' = Failed
    BY <1>1, <1>5 DEF TxnOf
  <2>2. Abstract!Fail
    BY <1>4, <2>1, MarksAssumption DEF Abstract!Fail
  <2> QED BY <1>3, <2>2 DEF DbStep, Abstract!DbNext
<1>6. CASE ~ctx.error
  <2>1. \A p \in Page : View(p) = Recovered[p].val
    BY <1>1, <1>6, Reading
  <2>2. WriteKey \in Key
    BY SMT, <1>2, <1>6 DEF WriteKey, KeyOf, CtxOK, CipherOK, Key
  <2>3. WriteKey' = WriteKey /\ \A p \in Page : View(p)' = View(p)
    BY <1>1 DEF WriteKey, TheSalt, View, Cached
  <2>4. TxnOf' = [key |-> WriteKey', content |-> [p \in Page |-> View(p)']]
    BY <1>1, <1>6 DEF TxnOf
  <2>5. TxnOf' = [DbOf EXCEPT !.key = WriteKey]
    <3>1. [p \in Page |-> View(p)'] = [p \in Page |-> Recovered[p].val]
      BY <2>1, <2>3
    <3>2. DbOf = [key |-> TheKey, content |-> [p \in Page |-> Recovered[p].val]]
      BY DEF DbOf
    <3>3. [DbOf EXCEPT !.key = WriteKey] = [key |-> WriteKey, content |-> [p \in Page |-> Recovered[p].val]]
      BY SMT, <3>2, ChangedDatabase
    <3> QED BY <2>3, <2>4, <3>1, <3>3
  <2>6. Abstract!Rekey(WriteKey)
    BY <1>4, <2>5, MarksAssumption DEF Abstract!Rekey
  <2> QED BY <1>3, <2>2, <2>6 DEF DbStep, Abstract!DbNext
<1> QED BY <1>5, <1>6

(* sqlite3_rekey_v2 changes the key of the open transaction, if there is   *)
(* one.                                                                    *)
LEMMA RekeyCallStep ==
  ASSUME CarefulApplication, IInv, IInv', Recovered' = Recovered, NEW k \in Pass, sqlite3_rekey_v2(k)
  PROVE  AppStep /\ DbStep
<1>1. /\ op \in {"idle", "read", "txn"} /\ caller' = "rekey" /\ rekeyTo = NoPass /\ rekeyTo' = k
      /\ told' = told /\ file' = file /\ ctx' = set_write_pass(ctx, k) /\ caller = "sql"
      /\ op = "txn" => op' = "rekey" /\ cache' = cache
      /\ op # "txn" => ~InTxn' /\ (op' = op \/ ~Transacting')
  BY DEF sqlite3_rekey_v2, InUse, SharedLock, InTxn, Transacting
<1>2. ctx # NoCtx /\ CtxOK(ctx, TheSalt) /\ TheSalt \in Salt /\ TheSalt' = TheSalt /\ TheKey' = TheKey
  BY <1>1, OpenCtx, FileFacts DEF IInv, TheSalt, TheKey
<1>3. /\ ctx'.error = ctx.error /\ ctx'.read_ctx = ctx.read_ctx /\ ctx'.write_ctx.derive_key
      /\ ctx'.write_ctx.pass = k
  BY <1>1, <1>2, SetWritePassStep
<1>4. WriteKey' = [pass |-> k, salt |-> TheSalt] /\ WriteKey' \in Key /\ WriteKey'.pass = k
  BY <1>2, <1>3 DEF WriteKey, KeyOf, Key
<1>5. AppStep
  <2> SUFFICES ASSUME AppInv PROVE AppInv'
    BY DEF AppStep
  <2>1. TheKey.pass = told /\ (Working' => Working) /\ (Transacting' => Transacting)
    BY <1>1, <1>2, <1>3 DEF AppInv, Working, Transacting
  <2> QED BY <1>1, <1>2, <1>3, <1>4, <2>1 DEF AppInv
<1>6. DbOf' = DbOf
  BY DEF DbOf, TheKey
<1>7. CASE op # "txn"
  BY <1>1, <1>5, <1>7, DbOutside DEF InTxn
<1>8. CASE op = "txn" /\ ctx.error
  <2>1. TxnOf' = Failed /\ TxnOf = Failed
    BY <1>1, <1>3, <1>8 DEF TxnOf
  <2> QED BY <1>5, <1>6, <2>1 DEF DbStep
<1>9. CASE op = "txn" /\ ~ctx.error
  <2>1. /\ TxnOf = [key |-> WriteKey, content |-> [p \in Page |-> View(p)]]
        /\ TxnOf # Failed /\ TxnOf # NoTxn
    BY <1>9, TxnOfType DEF InTxn
  <2>2. TxnOf' = [key |-> WriteKey', content |-> [p \in Page |-> View(p)']]
    BY <1>1, <1>3, <1>9 DEF TxnOf
  <2>3. \A p \in Page : View(p)' = View(p)
    BY <1>1, <1>9 DEF View, Cached
  <2>4. TxnOf' = [TxnOf EXCEPT !.key = WriteKey']
    <3>1. [TxnOf EXCEPT !.key = WriteKey'] = [key |-> WriteKey', content |-> [p \in Page |-> View(p)]]
      BY SMT, <2>1, ChangedDatabase
    <3> QED BY <2>2, <2>3, <3>1
  <2>5. Abstract!Rekey(WriteKey')
    BY <1>6, <2>1, <2>4 DEF Abstract!Rekey
  <2> QED BY <1>4, <1>5, <2>5 DEF DbStep, Abstract!DbNext
<1> QED BY <1>7, <1>8, <1>9

-----------------------------------------------------------------------------
(* A step of the codec inside a transaction that leaves what the           *)
(* transaction sees, if the codec still works.                             *)
LEMMA CodecStepInside ==
  ASSUME IInv, IInv', Recovered' = Recovered, InTxn, InTxn', KeepsKeys(ctx, ctx', TheSalt),
         UNCHANGED <<caller, told, rekeyTo>>,
         ~ctx'.error => \A p \in Page : View(p)' = View(p)
  PROVE  AppStep /\ DbStep
<1>1. ctx # NoCtx /\ Transacting
  BY DEF IInv, ControlInv, InTxn, Transacting
<1>2. ctx.error => ctx'.error
  BY DEF KeepsKeys
<1>3. ~ctx'.error => WriteKey' = WriteKey
  BY DEF KeepsKeys, WriteKey, TheSalt
<1> QED BY <1>1, <1>2, <1>3, AppKept, DbInside

(* A commit that fails is rolled back, or leaves the transaction of a      *)
(* rekey as it was.                                                        *)
LEMMA CommitFailsStep ==
  ASSUME IInv, IInv', Recovered' = Recovered, InTxn, NEW c, KeepsKeys(ctx, c, TheSalt), CommitFails(c),
         ~c.error => \A p \in Page : View(p)' = View(p)
  PROVE  AppStep /\ DbStep
<1>1. ctx # NoCtx /\ Transacting
  BY DEF IInv, ControlInv, InTxn, Transacting
<1>2. CASE caller # "rekey"
  <2>1. ctx' = c /\ ~InTxn' /\ UNCHANGED <<caller, told, rekeyTo>>
    BY <1>2 DEF CommitFails, InTxn
  <2> QED BY <1>1, <2>1, AppKept, DbAborts
<1>3. CASE caller = "rekey"
  <2>1. RekeyCommitMayFail /\ ctx' = sqlcipher_codec_key_copy(c) /\ InTxn'
    BY <1>3 DEF CommitFails, RekeyIgnoresFailure, InTxn
  <2>2. CtxOK(c, TheSalt) /\ TheSalt \in Salt /\ (c.error \/ c.kdf_salt = TheSalt)
    BY <1>1, FileFacts DEF KeepsKeys, IInv, CtxInv, InTxn, Working
  <2>3. ctx'.error = c.error /\ ctx'.write_ctx = c.write_ctx
    BY <2>1, <2>2, KeyCopyStep
  <2>4. /\ ctx.error => ctx'.error
        /\ ~ctx'.error => WriteKey' = WriteKey /\ \A p \in Page : View(p)' = View(p)
    BY <2>3 DEF KeepsKeys, WriteKey, TheSalt
  <2> QED BY <2>1, <2>4, DbInside DEF AppStep
<1> QED BY <1>2, <1>3

(* A page is read into the cache.                                          *)
LEMMA PagerGetStep ==
  ASSUME CarefulApplication, IInv, IInv', Recovered' = Recovered, NEW p \in Page, sqlite3PagerGet(p)
  PROVE  AppStep /\ DbStep
<1>1. /\ op # "closed" /\ op' = op /\ Transacting /\ ~Cached(p) /\ file' = file
      /\ UNCHANGED <<caller, told, rekeyTo>>
  BY DEF sqlite3PagerGet, Transacting
<1>2. PICK g \in PageGet(p) : ctx' = g.ctx /\ cache' = g.cache
  BY DEF sqlite3PagerGet
<1>3. /\ KeepsKeys(ctx, ctx', TheSalt)
      /\ \A q \in Page : q # p => cache'[q] = cache[q]
      /\ ~ctx'.error => cache'[p] # NoPage /\ cache'[p].val = file[p].val
  BY <1>1, <1>2, PageGetStep
<1>4. ~ctx'.error => \A q \in Page : View(q)' = View(q)
  BY <1>1, <1>3 DEF View, Cached
<1>5. ctx # NoCtx
  BY <1>1, OpenCtx
<1>6. CASE InTxn
  BY <1>1, <1>3, <1>4, <1>6, CodecStepInside DEF InTxn
<1>7. CASE ~InTxn
  BY <1>1, <1>3, <1>5, <1>7, AppKept, DbOutside DEF InTxn
<1> QED BY <1>6, <1>7

(* lockBtree: the application learns the key once page 1 opens.            *)
LEMMA lockBtreeStep ==
  ASSUME CarefulApplication, IInv, IInv', Recovered' = Recovered, lockBtree
  PROVE  AppStep /\ DbStep
<1> DEFINE ok(g) == g.ok /\ g.cache[1].val # Zero
<1>1. PICK g \in PageGet(1) :
        /\ ctx' = g.ctx
        /\ op' = IF ok(g) THEN "read" ELSE "idle"
        /\ IF caller = "rekey"
           THEN IF ok(g) THEN UNCHANGED <<caller, told, rekeyTo>> ELSE RekeyReturnsError
           ELSE /\ told' = IF ok(g) /\ ~g.ctx.error THEN g.ctx.read_ctx.key.pass ELSE told
                /\ rekeyTo' = IF ok(g) /\ ~g.ctx.error THEN NoPass ELSE rekeyTo
                /\ caller' = caller
  BY DEF lockBtree
<1>2. op = "lock" /\ op # "closed" /\ 1 \in Page /\ ~InTxn
  BY FileFacts DEF lockBtree, IInv, InTxn
<1>3. ctx # NoCtx /\ KeepsKeys(ctx, ctx', TheSalt)
  BY <1>1, <1>2, OpenCtx, PageGetStep
<1> HIDE DEF ok
<1>4. (op' = "read" <=> ok(g)) /\ ~InTxn' /\ (Transacting' <=> op' = "read")
  BY <1>1 DEF InTxn, Transacting
<1>5. op' = "read" /\ ~ctx'.error => ~ctx'.read_ctx.derive_key /\ ctx'.read_ctx.key = TheKey'
  <2> SUFFICES ASSUME op' = "read", ~ctx'.error PROVE ~ctx'.read_ctx.derive_key /\ ctx'.read_ctx.key = TheKey'
    OBVIOUS
  <2>0. CacheInv' /\ JournalInv' /\ OriginalCached'
    BY DEF IInv
  <2>1. Working' /\ Cached(1)' /\ ~InJournal(1)'
    BY <1>2, <1>3, <2>0 DEF Working, KeepsKeys, CacheInv, JournalInv, HotJournal, InJournal
  <2> QED BY <1>2, <2>0, <2>1 DEF OriginalCached, Original
<1>6. DbStep
  BY <1>2, <1>4, DbOutside
<1>7. AppStep
  <2> SUFFICES ASSUME AppInv PROVE AppInv'
    BY DEF AppStep
  <2>1. /\ TheKey' = TheKey /\ TheSalt' = TheSalt
        /\ Working' => Working /\ ~ctx'.error /\ WriteKey' = WriteKey
    BY <1>3 DEF TheKey, TheSalt, Working, KeepsKeys, WriteKey
  <2>2. Working' /\ Transacting' => ~ctx'.read_ctx.derive_key /\ ctx'.read_ctx.key = TheKey'
    BY <1>4, <1>5, <2>1
  <2>3. CASE caller = "rekey" /\ ok(g)
    BY <1>1, <2>1, <2>2, <2>3 DEF AppInv
  <2>4. CASE caller = "rekey" /\ ~ok(g)
    BY <1>1, <2>1, <2>2, <2>4 DEF AppInv, RekeyReturnsError
  <2>5. CASE caller # "rekey" /\ ok(g) /\ ~g.ctx.error
    <3>1. ctx' = g.ctx /\ caller' # "rekey" /\ told' = g.ctx.read_ctx.key.pass
      BY <1>1, <2>5
    <3>2. TheKey'.pass = told'
      BY <1>4, <1>5, <2>5, <3>1
    <3> QED BY <2>2, <3>1, <3>2 DEF AppInv
  <2>6. CASE caller # "rekey" /\ ~(ok(g) /\ ~g.ctx.error)
    BY <1>1, <2>1, <2>2, <2>6 DEF AppInv
  <2> QED BY <2>3, <2>4, <2>5, <2>6
<1> QED BY <1>6, <1>7

-----------------------------------------------------------------------------
(* pager_write marks a page dirty and changes no content, whatever the     *)
(* journal record is.                                                      *)
LEMMA PageWriteKeeps ==
  ASSUME CarefulApplication, IInv, NEW p \in Page, NEW c, CtxOK(c, TheSalt),
         NEW cch \in [Page -> [val : Value \cup {Zero}, dirty : BOOLEAN] \cup {NoPage}],
         cch[p] # NoPage, NEW w \in PageWrite(c, cch, p)
  PROVE  /\ KeepsKeys(c, w.ctx, TheSalt) /\ (~w.ok => w.ctx.error)
         /\ w.cache \in [Page -> [val : Value \cup {Zero}, dirty : BOOLEAN] \cup {NoPage}]
         /\ w.cache[p] # NoPage /\ w.cache[p].val = cch[p].val
         /\ \A q \in Page : q # p => w.cache[q] = cch[q]
<1>0. file[1].hdr = TheSalt /\ TheSalt \in Salt /\ cch[p].val \in Value \cup {Zero}
  BY FileFacts DEF IInv
<1>1. PICK d : d = [cch EXCEPT ![p].dirty = TRUE]
  OBVIOUS
<1>2. /\ d \in [Page -> [val : Value \cup {Zero}, dirty : BOOLEAN] \cup {NoPage}]
      /\ d[p] # NoPage /\ d[p].val = cch[p].val /\ \A q \in Page : q # p => d[q] = cch[q]
  BY <1>1, EnvironmentAssumption
<1>3. CASE InJournal(p)
  <2>1. w = [ctx |-> c, cache |-> d, jpend |-> jpend, ok |-> TRUE]
    BY <1>1, <1>3 DEF PageWrite
  <2>2. KeepsKeys(c, c, TheSalt)
    BY <1>0, CodecKeepsKeys
  <2> QED BY <1>2, <2>1, <2>2
<1>4. CASE ~InJournal(p)
  <2>1. PICK r \in codec_journal(c, TheSalt, p, cch[p].val) :
          w.ctx = r.ctx /\ w.cache = d /\ w.ok = (r.out # Null)
    <3>1. PICK r \in codec_journal(c, TheSalt, p, cch[p].val) :
            w = [ctx |-> r.ctx, cache |-> d, ok |-> r.out # Null,
                 jpend |-> IF r.out = Null THEN jpend ELSE [jpend EXCEPT ![p] = r.out]]
      BY <1>0, <1>1, <1>4 DEF PageWrite
    <3> QED BY <3>1
  <2>2. CodecStep(c, r.ctx, TheSalt) /\ (r.out = Null <=> r.ctx.error)
    BY <1>0, JournalStep DEF CarefulApplication
  <2>3. KeepsKeys(c, r.ctx, TheSalt)
    BY <1>0, <2>2, CodecKeepsKeys
  <2> QED BY <1>2, <2>1, <2>2, <2>3
<1> QED BY <1>3, <1>4

(* sqlite3PagerWrite writes one page of the transaction.                   *)
LEMMA PagerWriteStep ==
  ASSUME CarefulApplication, IInv, IInv', Recovered' = Recovered, NEW p \in Page, NEW v \in Value,
         sqlite3PagerWrite(p, v)
  PROVE  AppStep /\ DbStep
<1>1. op = "txn" /\ op # "closed" /\ op' = op /\ Cached(p) /\ file' = file /\ UNCHANGED <<caller, told, rekeyTo>>
  BY DEF sqlite3PagerWrite
<1>2. PICK w \in PageWrite(ctx, cache, p) :
        /\ ctx' = w.ctx /\ cache' = IF w.ok THEN [w.cache EXCEPT ![p].val = v] ELSE w.cache
  BY DEF sqlite3PagerWrite
<1>3. /\ ctx # NoCtx /\ CtxOK(ctx, TheSalt) /\ cache[p] # NoPage
      /\ cache \in [Page -> [val : Value \cup {Zero}, dirty : BOOLEAN] \cup {NoPage}]
  BY <1>1, OpenCtx DEF IInv, TypeOK, Cached
<1>4. /\ KeepsKeys(ctx, ctx', TheSalt) /\ (~w.ok => ctx'.error)
      /\ w.cache \in [Page -> [val : Value \cup {Zero}, dirty : BOOLEAN] \cup {NoPage}]
      /\ w.cache[p] # NoPage /\ \A q \in Page : q # p => w.cache[q] = cache[q]
  BY SMT, <1>2, <1>3, PageWriteKeeps
<1>5. CASE ctx'.error
  BY <1>1, <1>4, <1>5, CodecStepInside DEF InTxn
<1>6. CASE ~ctx'.error
  <2>1. cache' = [w.cache EXCEPT ![p].val = v]
    BY <1>2, <1>4, <1>6
  <2>2. /\ cache'[p] # NoPage /\ cache'[p].val = v /\ \A q \in Page : q # p => cache'[q] = cache[q]
    BY SMT, <1>4, <2>1, EnvironmentAssumption
  <2>3. View(p)' = v /\ \A q \in Page : q # p => View(q)' = View(q)
    BY <1>1, <2>2 DEF View, Cached
  <2>4. WriteKey' = WriteKey /\ ~ctx.error
    BY <1>4, <1>6 DEF KeepsKeys, WriteKey, TheSalt
  <2>5. /\ TxnOf = [key |-> WriteKey, content |-> [q \in Page |-> View(q)]]
        /\ TxnOf \in [key : Key, content : [Page -> Value]]
    BY <1>1, <2>4, TxnOfType DEF InTxn
  <2>6. TxnOf' = [key |-> WriteKey, content |-> [q \in Page |-> View(q)']]
    BY <1>1, <1>6, <2>4 DEF TxnOf
  <2>7. [q \in Page |-> View(q)'] = [[q \in Page |-> View(q)] EXCEPT ![p] = v]
    BY <2>3
  <2>8. [TxnOf EXCEPT !.content[p] = v] = [key |-> WriteKey, content |-> [[q \in Page |-> View(q)] EXCEPT ![p] = v]]
    BY SMT, <2>5
  <2>9. Abstract!Write(p, v)
    <3>1. DbOf' = DbOf
      BY DEF DbOf, TheKey
    <3> QED BY <2>5, <2>6, <2>7, <2>8, <3>1 DEF Abstract!Write, Abstract!Database
  <2>10. AppStep
    BY <1>1, <1>3, <1>4, AppKept DEF Transacting
  <2> QED BY <2>9, <2>10 DEF DbStep, Abstract!DbNext
<1> QED BY <1>5, <1>6

(* A page spilled by a full cache stays what the transaction sees.         *)
LEMMA StressStep ==
  ASSUME CarefulApplication, IInv, IInv', Recovered' = Recovered, NEW p \in Page, pagerStress(p)
  PROVE  AppStep /\ DbStep
<1>1. /\ op \in {"txn", "rekey"} /\ op # "closed" /\ op' = op /\ Cached(p) /\ UNCHANGED <<caller, told, rekeyTo>>
      /\ cache[p].val \in Value \cup {Zero}
  BY DEF pagerStress, MaySpill, Dirty, Cached, IInv, TypeOK
<1>2. ctx # NoCtx /\ CtxOK(ctx, TheSalt) /\ file[1].hdr = TheSalt /\ TheSalt \in Salt
  BY <1>1, OpenCtx, FileFacts DEF IInv
<1>3. PICK r \in codec_write(ctx, TheSalt, p, cache[p].val) :
        /\ ctx' = r.ctx
        /\ IF r.out = Null THEN UNCHANGED <<file, disk, cache>>
           ELSE WriteFile(p, r.out) /\ cache' = [cache EXCEPT ![p].dirty = FALSE]
  BY <1>2 DEF pagerStress
<1>4. CodecStep(ctx, ctx', TheSalt)
  BY <1>1, <1>2, <1>3, WriteStep DEF CarefulApplication
<1>5. KeepsKeys(ctx, ctx', TheSalt)
  BY <1>2, <1>4, CodecKeepsKeys
<1>6. \A q \in Page : View(q)' = View(q)
  <2>1. CASE r.out = Null
    BY <1>3, <2>1 DEF View, Cached
  <2>2. CASE r.out # Null
    <3>1. /\ \A q \in Page : q # p => cache'[q] = cache[q] /\ file'[q] = file[q]
          /\ cache'[p] # NoPage /\ cache'[p].val = cache[p].val
      <4>1. /\ cache' = [cache EXCEPT ![p].dirty = FALSE] /\ file' = [file EXCEPT ![p] = r.out]
            /\ cache \in [Page -> [val : Value \cup {Zero}, dirty : BOOLEAN] \cup {NoPage}]
            /\ file \in [Page -> SealedPage] /\ cache[p] # NoPage
        BY <1>1, <1>3, <2>2 DEF WriteFile, IInv, TypeOK, Cached
      <4>2. \A q \in Page : q # p => cache'[q] = cache[q] /\ file'[q] = file[q]
        BY <4>1
      <4>3. cache'[p] # NoPage /\ cache'[p].val = cache[p].val
        <5>1. /\ cache'[p] = [cache[p] EXCEPT !.dirty = FALSE]
              /\ cache[p] \in [val : Value \cup {Zero}, dirty : BOOLEAN]
          BY <4>1
        <5>2. cache'[p] \in [val : Value \cup {Zero}, dirty : BOOLEAN] /\ cache'[p].val = cache[p].val
          BY <5>1
        <5> QED BY <5>2, EnvironmentAssumption
      <4> QED BY <4>2, <4>3
    <3> QED BY <1>1, <3>1 DEF View, Cached
  <2> QED BY <2>1, <2>2
<1> QED BY <1>1, <1>5, <1>6, CodecStepInside DEF InTxn

(* The first part of a commit, or one that meets SQLITE_BUSY: page 1 is    *)
(* marked for the change counter.                                          *)
LEMMA CommitCallStep ==
  ASSUME CarefulApplication, IInv, IInv', Recovered' = Recovered, CommitSyncJournal \/ CommitBusy
  PROVE  AppStep /\ DbStep
<1>1. CommitCalled /\ InTxn /\ file' = file
  BY DEF CommitSyncJournal, CommitBusy, CommitCalled, InTxn
<1>2. PICK w \in PageWrite(ctx, cache, 1) :
        /\ cache' = w.cache
        /\ \/ CommitFails(w.ctx)
           \/ ctx' = w.ctx /\ InTxn' /\ UNCHANGED <<caller, told, rekeyTo>>
  <2>1. CASE CommitSyncJournal
    BY <2>1 DEF CommitSyncJournal, InTxn
  <2>2. CASE CommitBusy
    <3>1. PICK w \in PageWrite(ctx, cache, 1) :
            /\ cache' = w.cache
            /\ IF caller = "rekey" THEN RekeyIgnoresFailure(w.ctx)
               ELSE ctx' = w.ctx /\ UNCHANGED <<op, caller, told, rekeyTo>>
      BY <2>2 DEF CommitBusy
    <3> QED BY <1>1, <3>1 DEF CommitFails, InTxn
  <2> QED BY <2>1, <2>2
<1>3. /\ KeepsKeys(ctx, w.ctx, TheSalt) /\ Cached(1)
      /\ cache'[1] # NoPage /\ cache'[1].val = cache[1].val /\ \A q \in Page : q # 1 => cache'[q] = cache[q]
  BY <1>1, <1>2, CommitPageOne
<1>4. \A q \in Page : View(q)' = View(q)
  BY <1>1, <1>3 DEF View, Cached
<1>5. CASE CommitFails(w.ctx)
  BY <1>1, <1>3, <1>4, <1>5, CommitFailsStep
<1>6. CASE ctx' = w.ctx /\ InTxn' /\ UNCHANGED <<caller, told, rekeyTo>>
  BY <1>1, <1>3, <1>4, <1>6, CodecStepInside
<1> QED BY <1>2, <1>5, <1>6

(* An I/O error of a commit.                                               *)
LEMMA CommitIOErrorStep ==
  ASSUME IInv, IInv', Recovered' = Recovered, CommitIOError
  PROVE  AppStep /\ DbStep
<1>1. op # "closed" /\ InTxn /\ CommitFails(ctx) /\ \A q \in Page : View(q)' = View(q)
  BY DEF CommitIOError, InTxn, View, Cached
<1> QED BY <1>1, OpenCtx, CommitFailsStep

(* One page written by the commit: the transaction sees the cached page.   *)
LEMMA CommitWritePageStep ==
  ASSUME CarefulApplication, IInv, IInv', Recovered' = Recovered, NEW p \in Page, CommitWritePage(p)
  PROVE  AppStep /\ DbStep
<1>1. /\ op = "commit" /\ op # "closed" /\ InTxn /\ Cached(p) /\ cache' = cache
      /\ cache[p].val \in Value \cup {Zero}
  BY DEF CommitWritePage, InTxn, IInv, CacheInv, Dirty, Cached, TypeOK
<1>2. ctx # NoCtx /\ CtxOK(ctx, TheSalt) /\ file[1].hdr = TheSalt /\ TheSalt \in Salt
  BY <1>1, OpenCtx, FileFacts DEF IInv
<1>3. PICK r \in codec_write(ctx, TheSalt, p, cache[p].val) :
        IF r.out # Null
        THEN ctx' = r.ctx /\ WriteFile(p, r.out) /\ UNCHANGED <<op, caller, told, rekeyTo>>
        ELSE CommitFails(r.ctx) /\ UNCHANGED <<file, disk>>
  BY <1>2 DEF CommitWritePage
<1>4. CodecStep(ctx, r.ctx, TheSalt)
  BY <1>1, <1>2, <1>3, WriteStep DEF CarefulApplication
<1>5. KeepsKeys(ctx, r.ctx, TheSalt)
  BY <1>2, <1>4, CodecKeepsKeys
<1>6. \A q \in Page : View(q)' = View(q)
  <2>1. \A q \in Page : q # p => file'[q] = file[q]
    BY <1>3 DEF WriteFile, IInv, TypeOK
  <2> QED BY <1>1, <2>1 DEF View, Cached
<1>7. CASE r.out # Null
  BY <1>1, <1>3, <1>5, <1>6, <1>7, CodecStepInside DEF InTxn
<1>8. CASE r.out = Null
  BY <1>1, <1>3, <1>5, <1>6, <1>8, CommitFailsStep
<1> QED BY <1>7, <1>8

(* One turn of the rekey loop writes back what it read.                    *)
LEMMA RekeyPageStep ==
  ASSUME CarefulApplication, IInv, IInv', Recovered' = Recovered, RekeyPage
  PROVE  AppStep /\ DbStep
<1>1. pgno \in Page
  <2>1. pgno \in 1 .. N + 1 /\ pgno <= N /\ N \in Nat
    BY PagesAssumption DEF RekeyPage, IInv, TypeOK
  <2> QED BY SMT, <2>1 DEF Page
<1>2. PICK p \in Page : p = pgno
  BY <1>1
<1>3. op = "rekey" /\ op # "closed" /\ InTxn /\ file' = file /\ UNCHANGED <<caller, told, rekeyTo>>
  BY DEF RekeyPage, InTxn
<1>4. ctx # NoCtx /\ CtxOK(ctx, TheSalt)
  BY <1>3, OpenCtx
<1>5. PICK g \in PageGet(p) :
        IF ~g.ok THEN ctx' = g.ctx /\ cache' = cache /\ RekeyRollback
        ELSE \E w \in PageWrite(g.ctx, g.cache, p) :
               ctx' = w.ctx /\ cache' = w.cache /\ IF w.ok THEN op' = op ELSE RekeyRollback
  BY <1>2 DEF RekeyPage
<1>6. /\ KeepsKeys(ctx, g.ctx, TheSalt)
      /\ g.cache \in [Page -> [val : Value \cup {Zero}, dirty : BOOLEAN] \cup {NoPage}]
      /\ g.ok => g.cache[p] # NoPage
      /\ \A q \in Page : q # p => g.cache[q] = cache[q]
      /\ Cached(p) => g.cache = cache
      /\ ~Cached(p) /\ ~g.ctx.error => g.cache[p].val = file[p].val
  BY <1>3, PageGetStep
<1>7. CASE ~g.ok
  <2>1. ctx' = g.ctx /\ ~InTxn' /\ Transacting
    BY <1>3, <1>5, <1>7 DEF RekeyRollback, InTxn, Transacting
  <2> QED BY <1>3, <1>4, <1>6, <2>1, AppKept, DbAborts
<1>8. CASE g.ok
  <2>1. PICK w \in PageWrite(g.ctx, g.cache, p) :
          ctx' = w.ctx /\ cache' = w.cache /\ IF w.ok THEN op' = op ELSE RekeyRollback
    BY <1>5, <1>8
  <2>2. /\ KeepsKeys(g.ctx, ctx', TheSalt)
        /\ cache'[p] # NoPage /\ cache'[p].val = g.cache[p].val /\ \A q \in Page : q # p => cache'[q] = g.cache[q]
    <3>1. CtxOK(g.ctx, TheSalt) /\ g.cache[p] # NoPage
      BY <1>6, <1>8 DEF KeepsKeys
    <3> QED BY SMT, <1>6, <2>1, <3>1, PageWriteKeeps
  <2>3. KeepsKeys(ctx, ctx', TheSalt)
    BY <1>6, <2>2, KeepsTrans
  <2>4. ~ctx'.error => \A q \in Page : View(q)' = View(q)
    <3>1. ~ctx'.error => ~g.ctx.error
      BY <2>2 DEF KeepsKeys
    <3> QED BY <1>3, <1>6, <2>2, <3>1 DEF View, Cached
  <2>5. CASE w.ok
    BY <1>3, <2>1, <2>3, <2>4, <2>5, CodecStepInside DEF InTxn
  <2>6. CASE ~w.ok
    <3>1. ~InTxn' /\ Transacting
      BY <1>3, <2>1, <2>6 DEF RekeyRollback, InTxn, Transacting
    <3> QED BY <1>3, <1>4, <2>3, <3>1, AppKept, DbAborts
  <2> QED BY <2>5, <2>6
<1> QED BY <1>7, <1>8

(* One page played back by a rollback.                                     *)
LEMMA RollbackPageStep ==
  ASSUME CarefulApplication, IInv, IInv', Recovered' = Recovered, NEW p \in Page, RollbackPage(p)
  PROVE  AppStep /\ DbStep
<1>1. op = "rollback" /\ op # "closed" /\ op' = op /\ UNCHANGED <<caller, told, rekeyTo>>
  BY DEF RollbackPage
<1>2. /\ ctx # NoCtx /\ CtxOK(ctx, TheSalt) /\ KeepsKeys(ctx, ctx, TheSalt)
      /\ file[1].hdr = TheSalt /\ TheSalt \in Salt
  BY <1>1, OpenCtx, FileFacts DEF IInv
<1>3. KeepsKeys(ctx, ctx', TheSalt)
  <2>1. CASE Cached(p)
    <3> DEFINE rec == IF jsync[p] # NoRec THEN jsync[p] ELSE jpend[p]
    <3>1. PICK r \in codec_read(ctx, TheSalt, rec) : ctx' = r.ctx
      BY <1>2, <2>1 DEF RollbackPage
    <3>2. CodecStep(ctx, ctx', TheSalt)
      BY <1>2, <3>1, ReadStep DEF CarefulApplication
    <3> QED BY <1>2, <3>2, CodecKeepsKeys
  <2>2. CASE ~Cached(p)
    BY <1>2, <2>2 DEF RollbackPage
  <2> QED BY <2>1, <2>2
<1> QED BY <1>1, <1>2, <1>3, AppKept, DbOutside DEF InTxn, Transacting

(* The commit point publishes what the transaction would commit, and a     *)
(* rekey that returns has told the new key.                                *)
LEMMA PhaseTwoStep ==
  ASSUME CarefulApplication, IInv, sqlite3PagerCommitPhaseTwo
  PROVE  AppStep /\ DbStep
<1>1. /\ op = "commit" /\ InTxn /\ eState = "WRITER_FINISHED" /\ todo = {} /\ op' = "idle"
      /\ jsync' = NoRecs /\ file' = file /\ caller \in {"sql", "rekey"} /\ ~mustClose
  BY DEF sqlite3PagerCommitPhaseTwo, IInv, ControlInv, InTxn, TypeOK
<1>2. /\ Working /\ ~ctx.error /\ Transacting /\ 1 \in Page
      /\ \A p \in Page : file[p].key = WriteKey /\ View(p) = file[p].val
  BY <1>1, FileFacts DEF IInv, WriteKeyCovers, Working, SettledInFile, Settled, View, Transacting
<1>3. \A p \in Page : Recovered'[p] = file[p]
  BY <1>1 DEF Recovered, NoRecs
<1>4. TheKey' = WriteKey
  BY <1>2, <1>3 DEF TheKey
<1>5. AppStep
  <2> SUFFICES ASSUME AppInv PROVE AppInv'
    BY DEF AppStep
  <2>1. CASE caller = "rekey"
    <3>1. caller' = "sql" /\ told' = rekeyTo /\ WriteKey.pass = rekeyTo
      BY <1>2, <2>1 DEF sqlite3PagerCommitPhaseTwo, RekeyReturnsOk, AppInv
    <3> QED BY <1>1, <1>4, <3>1 DEF AppInv, Transacting
  <2>2. CASE caller = "sql"
    <3>1. UNCHANGED <<caller, told, rekeyTo>>
      BY <2>2 DEF sqlite3PagerCommitPhaseTwo
    <3>2. WriteKey = TheKey
      BY <1>1, <1>2, <2>2 DEF AppInv, IInv, SameKeys, WriteKey, KeyOf
    <3> QED BY <1>1, <1>4, <2>2, <3>1, <3>2 DEF AppInv, Transacting
  <2> QED BY <1>1, <2>1, <2>2
<1>6. DbStep
  <2>1. /\ TxnOf = [key |-> WriteKey, content |-> [p \in Page |-> View(p)]]
        /\ TxnOf \in [key : Key, content : [Page -> Value]]
    BY <1>1, <1>2, TxnOfType
  <2>2. DbOf' = [key |-> TheKey', content |-> [p \in Page |-> Recovered'[p].val]] /\ TxnOf' = NoTxn
    BY <1>1 DEF DbOf, TxnOf
  <2>3. [p \in Page |-> Recovered'[p].val] = [p \in Page |-> View(p)]
    BY <1>2, <1>3
  <2>4. Abstract!Commit
    BY <1>4, <2>1, <2>2, <2>3 DEF Abstract!Commit, Abstract!Database
  <2> QED BY <2>4 DEF DbStep, Abstract!DbNext
<1> QED BY <1>5, <1>6

-----------------------------------------------------------------------------
(* Every step of the pager is a step of the abstract database or leaves it *)
(* alone, and keeps what the application knows: one case per action.       *)
LEMMA NextStep ==
  ASSUME CarefulApplication, IInv, [Next]_vars
  PROVE  AppStep /\ DbStep
<1>0. CASE sqlite3PagerCommitPhaseTwo
  BY <1>0, PhaseTwoStep
<1>u. IInv' /\ (Recovered' = Recovered \/ sqlite3PagerCommitPhaseTwo)
  BY NextInv
<1> SUFFICES ASSUME IInv', Recovered' = Recovered, ~sqlite3PagerCommitPhaseTwo PROVE AppStep /\ DbStep
  BY <1>0, <1>u
<1>1. ASSUME NEW k \in Pass, Open(k) \/ sqlcipherCodecAttach(k) \/ sqlite3_rekey_v2(k)
      PROVE  AppStep /\ DbStep
  BY <1>1, HandleSteps, RekeyCallStep
<1>2. CASE sqlite3PagerClose \/ Crash
  BY <1>2, HandleSteps
<1>3. CASE BeginRead \/ RecoverEnd \/ lockBtree \/ EndRead
  BY <1>3, PlainSteps, lockBtreeStep
<1>4. ASSUME NEW p \in Page, RecoverPage(p) \/ sqlite3PagerGet(p) \/ Evict(p) \/ pagerStress(p)
      PROVE  AppStep /\ DbStep
  BY <1>4, PlainSteps, PagerGetStep, CacheSteps, StressStep
<1>5. ASSUME NEW p \in Page, pagerStressIOError(p) \/ CommitWritePage(p) \/ RollbackPage(p)
      PROVE  AppStep /\ DbStep
  BY <1>5, CacheSteps, CommitWritePageStep, RollbackPageStep
<1>6. ASSUME NEW p \in Page, NEW v \in Value, sqlite3PagerWrite(p, v)
      PROVE  AppStep /\ DbStep
  BY <1>6, PagerWriteStep
<1>7. CASE sqlite3BtreeBeginTrans
  BY <1>7, BeginStep
<1>8. CASE CommitNothing \/ CommitSyncJournal \/ CommitBusy \/ CommitIOError \/ CommitSyncFile
  BY <1>8, PlainSteps, CommitCallStep, CommitIOErrorStep, CacheSteps
<1>9. CASE sqlite3PagerRollback \/ RollbackEnd \/ RollbackIOError \/ RollbackStopped
  BY <1>9, PlainSteps, ReturnSteps
<1>10. CASE RekeyBegin \/ RekeyCannotBegin \/ RekeyPage \/ RekeyAbort
  BY <1>10, RekeyBeginStep, ReturnSteps, RekeyPageStep, PlainSteps
<1>11. CASE UNCHANGED vars
  <2>1. UNCHANGED <<file, jsync, cache, ctx, op, caller, told, rekeyTo>>
    BY <1>11 DEF vars
  <2>2. /\ UNCHANGED <<DbOf, TxnOf>>
    BY <2>1 DEF DbOf, TheKey, TxnOf, View, Cached, WriteKey, TheSalt
  <2>3. AppInv => AppInv'
    BY <2>1 DEF AppInv, TheKey, WriteKey, TheSalt, Working, Transacting
  <2> QED BY <2>2, <2>3 DEF AppStep, DbStep
<1> QED BY <1>1, <1>2, <1>3, <1>4, <1>5, <1>6, <1>7, <1>8, <1>9, <1>10, <1>11 DEF Next

(* The database that was created opens with the key it was created with.   *)
LEMMA InitStep ==
  ASSUME CarefulApplication, Init
  PROVE  AppInv /\ Abstract!DbInit
<1>1. IInv
  BY InitInv
<1>2. PICK k \in Pass, s \in Salt, v \in [Page -> Value] :
        /\ file = [p \in Page |-> [key |-> [pass |-> k, salt |-> salt_for(k, s)], val |-> v[p],
                                  hdr |-> IF p = 1 THEN salt_for(k, s) ELSE NoSalt]]
        /\ told = k
  BY SMT DEF Init
<1>3. 1 \in Page /\ jsync = NoRecs /\ ctx = NoCtx /\ op = "closed" /\ caller = "sql"
  BY <1>1, FileFacts DEF Init, IInv
<1>4. Recovered[1] = file[1]
  BY <1>3 DEF Recovered, NoRecs
<1>5. file[1].key.pass = k
  <2>1. file[1].key = [pass |-> k, salt |-> salt_for(k, s)]
    BY SMT, <1>2, <1>3
  <2> QED BY SMT, <2>1
<1>6. AppInv
  BY <1>2, <1>3, <1>4, <1>5 DEF AppInv, TheKey, Working
<1>7. Abstract!DbInit
  BY <1>1, <1>3, DbOfType DEF Abstract!DbInit, Abstract!Database, TxnOf
<1> QED BY <1>6, <1>7

(* With the invariant, a key that the application knows opens the image.   *)
LEMMA KnownKeyOpens ==
  ASSUME CarefulApplication, IInv, AppInv
  PROVE  AppKeyOpens
<1>1. TheKey \in Key /\ TheKey.salt = TheSalt /\ \A p \in Page : Recovered[p].key = TheKey
  BY FileFacts DEF IInv
<1>2. TheKey.pass \in Pass /\ TheKey = [pass |-> TheKey.pass, salt |-> TheSalt]
  BY <1>1 DEF Key
<1>3. salt_for(TheKey.pass, Recovered[1].hdr) = TheSalt
  BY <1>2 DEF CarefulApplication, PlainKeys, salt_for, TheSalt
<1>4. Opens(Recovered, TheKey.pass)
  BY <1>1, <1>2, <1>3 DEF Opens
<1> QED BY <1>4 DEF AppInv, AppKeyOpens

(* Whatever crashes and fails, a key that the application was told opens   *)
(* the database, or the new key of a rekey whose result it has not seen,   *)
(* as long as the commit inside sqlite3_rekey_v2 does not fail.            *)
THEOREM ToldKeyOpens ==
  ASSUME CarefulApplication, ~RekeyCommitMayFail
  PROVE  Spec => []AppKeyOpens
<1>1. Init => AppInv
  BY InitStep
<1>2. IInv /\ AppInv /\ [Next]_vars => AppInv'
  BY NextStep DEF AppStep
<1>3. IInv /\ AppInv => AppKeyOpens
  BY KnownKeyOpens
<1> QED BY <1>1, <1>2, <1>3, Inductive, PTL DEF Spec

(* The pager with its codec implements a transactional database under one  *)
(* key: commits, rollbacks, spills, recoveries, crashes and rekeys change  *)
(* it only as EncryptedDb allows.                                          *)
THEOREM PagerImplementsDb ==
  ASSUME CarefulApplication
  PROVE  Spec => ImplementsDb
<1>1. Init => Abstract!DbInit
  BY InitStep
<1>2. IInv /\ [Next]_vars => [Abstract!DbNext]_(<<DbOf, TxnOf>>)
  BY NextStep DEF DbStep
<1> QED BY <1>1, <1>2, Inductive, PTL DEF Spec, ImplementsDb, Abstract!DbSpec, Abstract!dbVars
=============================================================================
