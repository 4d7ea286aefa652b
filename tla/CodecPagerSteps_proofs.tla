---------------------- MODULE CodecPagerSteps_proofs -----------------------
(***************************************************************************)
(* What the codec does to its context, for plain key arguments, and what   *)
(* the shared pieces of the actions of CodecPager do to the invariant;     *)
(* then CodecPagerInv!IInv is kept by opening, keying and closing, by      *)
(* reading, by the recovery from a hot journal and by a crash, by write    *)
(* transactions, spills and rollbacks, and by the beginning of a rekey:    *)
(* one lemma per action.                                                   *)
(***************************************************************************)
EXTENDS CodecPagerInv, TLAPS

(* What any call of the codec does to the context: an error stays; while   *)
(* there is none both keys are derived, and they are the keys the context  *)
(* was going to hold.                                                      *)
CodecStep(c, d, s) ==
  /\ CtxOK(d, s)
  /\ c.error => d = c
  /\ ~d.error => /\ ~d.read_ctx.derive_key /\ ~d.write_ctx.derive_key
                 /\ d.read_ctx.key = KeyOf(c.read_ctx, s)
                 /\ d.write_ctx.key = KeyOf(c.write_ctx, s)
                 /\ c.read_ctx = c.write_ctx => d.read_ctx = d.write_ctx

-----------------------------------------------------------------------------
(* A new context waits for the derivation of one key, the same for both.   *)
LEMMA NewCtxOK ==
  ASSUME NEW k \in Pass, NEW s \in Salt
  PROVE  /\ CtxOK(sqlcipher_codec_ctx_init(k), s)
         /\ ~sqlcipher_codec_ctx_init(k).error
         /\ sqlcipher_codec_ctx_init(k).read_ctx = sqlcipher_codec_ctx_init(k).write_ctx
  BY NoneAssumption DEF sqlcipher_codec_ctx_init, CtxOK, CipherOK, codec_ctx, cipher_ctx

(* With plain key arguments a derivation uses the salt of the database     *)
(* only, so it gives the keys that the context was going to hold; copying  *)
(* the read key when the passes agree gives the same write key.            *)
LEMMA DeriveStep ==
  ASSUME PlainKeys, NEW s \in Salt, NEW c, CtxOK(c, s), ~c.error
  PROVE  LET d == sqlcipher_codec_key_derive(c, s)
         IN  CodecStep(c, d, s) /\ ~d.error /\ d.kdf_salt = s
<1> DEFINE r == IF c.read_ctx.derive_key
                THEN sqlcipher_cipher_ctx_key_derive(c.read_ctx, s)
                ELSE c.read_ctx
           w == IF c.write_ctx.derive_key
                THEN IF r.pass = c.write_ctx.pass THEN r
                     ELSE sqlcipher_cipher_ctx_key_derive(c.write_ctx, s)
                ELSE c.write_ctx
           d == sqlcipher_codec_key_derive(c, s)
<1>0. /\ c \in codec_ctx /\ c.read_ctx \in cipher_ctx /\ c.write_ctx \in cipher_ctx
      /\ CipherOK(c.read_ctx, s) /\ CipherOK(c.write_ctx, s)
      /\ c.kdf_salt \in {NoSalt, s}
      /\ ~c.read_ctx.derive_key => c.kdf_salt = s
  BY DEF CtxOK, codec_ctx
<1>1. d = [c EXCEPT !.read_ctx = wipe_pass(r), !.write_ctx = wipe_pass(w), !.kdf_salt = s]
  BY Zenon, <1>0, NoneAssumption DEF PlainKeys, CipherOK, sqlcipher_codec_key_derive, salt_for, init_kdf_salt
<1>2. /\ r \in cipher_ctx /\ CipherOK(r, s) /\ ~r.derive_key
      /\ r.key = KeyOf(c.read_ctx, s)
      /\ c.read_ctx.derive_key => r.pass = c.read_ctx.pass
  BY Zenon, <1>0, NoneAssumption
     DEF CipherOK, KeyOf, sqlcipher_cipher_ctx_key_derive, cipher_ctx, Key
<1>3. /\ w \in cipher_ctx /\ CipherOK(w, s) /\ ~w.derive_key
      /\ w.key = KeyOf(c.write_ctx, s)
  BY Zenon, <1>0, <1>2, NoneAssumption
     DEF CipherOK, KeyOf, sqlcipher_cipher_ctx_key_derive, cipher_ctx, Key
<1>4. c.read_ctx = c.write_ctx => r = w
  BY <1>2
<1>5. ASSUME NEW x \in cipher_ctx, CipherOK(x, s), ~x.derive_key
      PROVE  /\ wipe_pass(x) \in cipher_ctx /\ CipherOK(wipe_pass(x), s)
             /\ ~wipe_pass(x).derive_key /\ wipe_pass(x).key = x.key
  BY <1>5, NoneAssumption DEF wipe_pass, cipher_ctx, CipherOK
<1>6. /\ wipe_pass(r) \in cipher_ctx /\ CipherOK(wipe_pass(r), s)
      /\ ~wipe_pass(r).derive_key /\ wipe_pass(r).key = r.key
      /\ wipe_pass(w) \in cipher_ctx /\ CipherOK(wipe_pass(w), s)
      /\ ~wipe_pass(w).derive_key /\ wipe_pass(w).key = w.key
  BY <1>2, <1>3, <1>5
<1> HIDE DEF r, w, d
<1>7. /\ d \in codec_ctx /\ d.error = c.error /\ d.kdf_salt = s
      /\ d.read_ctx = wipe_pass(r) /\ d.write_ctx = wipe_pass(w)
  BY Zenon, <1>0, <1>1, <1>6 DEF codec_ctx
<1>8. CodecStep(c, d, s) /\ ~d.error /\ d.kdf_salt = s
  BY <1>2, <1>3, <1>4, <1>6, <1>7 DEF CodecStep, CtxOK
<1> QED BY <1>8 DEF d

(* Recording the permanent error is a step of the codec.                   *)
LEMMA ErrorStep ==
  ASSUME NEW s \in Salt, NEW c, NEW d, CtxOK(d, s), ~c.error
  PROVE  CodecStep(c, set_error(d), s) /\ set_error(d).error
<1>1. set_error(d) \in codec_ctx /\ set_error(d).error
  BY Zenon DEF CtxOK, set_error, codec_ctx
<1> QED BY <1>1 DEF CodecStep, CtxOK

(* So is recording that the key has been used.                             *)
LEMMA UsedStep ==
  ASSUME NEW s \in Salt, NEW c, NEW d, CodecStep(c, d, s), ~c.error
  PROVE  CodecStep(c, set_key_used(d), s) /\ set_key_used(d).error = d.error
<1>1. d \in codec_ctx
  BY DEF CodecStep, CtxOK
<1>2. /\ set_key_used(d) \in codec_ctx
      /\ set_key_used(d).read_ctx = d.read_ctx
      /\ set_key_used(d).write_ctx = d.write_ctx
      /\ set_key_used(d).kdf_salt = d.kdf_salt
      /\ set_key_used(d).error = d.error
  BY Zenon, <1>1 DEF set_key_used, codec_ctx
<1> QED BY <1>2 DEF CodecStep, CtxOK

(* A read through the codec: without an error it returns the content of a  *)
(* page sealed with the read key, and otherwise a zeroed page or none.     *)
LEMMA ReadStep ==
  ASSUME PlainKeys, NEW s \in Salt, NEW c, CtxOK(c, s), NEW sealed,
         NEW r \in codec_read(c, s, sealed)
  PROVE  /\ CodecStep(c, r.ctx, s)
         /\ r.ctx.error => r.out \in {Zero, Null}
         /\ ~r.ctx.error => r.out = sealed.val /\ sealed.key = KeyOf(c.read_ctx, s)
<1>1. CASE c.error
  BY <1>1 DEF codec_read, CodecStep
<1>2. CASE ~c.error
  <2> DEFINE d == sqlcipher_codec_key_derive(c, s)
  <2>1. CodecStep(c, d, s) /\ ~d.error /\ CtxOK(d, s)
    BY <1>2, DeriveStep DEF CodecStep
  <2>2. d.read_ctx.key = KeyOf(c.read_ctx, s)
    BY <2>1 DEF CodecStep
  <2>3. /\ CodecStep(c, set_error(c), s) /\ set_error(c).error
        /\ CodecStep(c, set_error(d), s) /\ set_error(d).error
    BY <1>2, <2>1, ErrorStep
  <2>4. CodecStep(c, set_key_used(d), s) /\ ~set_key_used(d).error
    BY <1>2, <2>1, UsedStep
  <2>5. \/ r = [ctx |-> set_error(c), out |-> Null]
        \/ r = [ctx |-> set_key_used(d), out |-> sealed.val] /\ sealed.key = d.read_ctx.key
        \/ r = [ctx |-> set_error(d), out |-> Zero]
    BY <1>2 DEF codec_read, derive_failure
  <2> HIDE DEF d
  <2> QED BY <2>2, <2>3, <2>4, <2>5
<1> QED BY <1>1, <1>2

(* Sealing a page: without an error it returns the page under the key of   *)
(* the mode, with the salt of the database in front of page 1.             *)
LEMMA SealStep ==
  ASSUME PlainKeys, NEW s \in Salt, NEW c, CtxOK(c, s), NEW p \in Page,
         NEW v \in Value \cup {Zero}, NEW mode \in {"write", "journal"},
         NEW r \in codec_seal(c, s, p, v, mode)
  PROVE  /\ CodecStep(c, r.ctx, s)
         /\ r.out = Null <=> r.ctx.error
         /\ ~r.ctx.error =>
              /\ r.out \in SealedPage
              /\ r.out = [key |-> IF mode = "write" THEN KeyOf(c.write_ctx, s)
                                  ELSE KeyOf(c.read_ctx, s),
                          val |-> v, hdr |-> IF p = 1 THEN s ELSE NoSalt]
<1>1. CASE c.error
  BY <1>1 DEF codec_seal, CodecStep
<1>2. CASE ~c.error
  <2> DEFINE d == sqlcipher_codec_key_derive(c, s)
             page == [key |-> IF mode = "write" THEN d.write_ctx.key ELSE d.read_ctx.key,
                      val |-> v, hdr |-> IF p = 1 THEN d.kdf_salt ELSE NoSalt]
  <2>1. CodecStep(c, d, s) /\ ~d.error /\ CtxOK(d, s) /\ d.kdf_salt = s
    BY <1>2, DeriveStep DEF CodecStep
  <2>2. /\ d.read_ctx.key = KeyOf(c.read_ctx, s) /\ d.write_ctx.key = KeyOf(c.write_ctx, s)
        /\ d.read_ctx.key \in Key /\ d.write_ctx.key \in Key
    BY <2>1 DEF CodecStep, CtxOK, CipherOK
  <2>3. /\ CodecStep(c, set_error(c), s) /\ set_error(c).error
        /\ CodecStep(c, set_error(d), s) /\ set_error(d).error
    BY <1>2, <2>1, ErrorStep
  <2>4. CodecStep(c, set_key_used(d), s) /\ ~set_key_used(d).error
    BY <1>2, <2>1, UsedStep
  <2>5. \/ r = [ctx |-> set_error(c), out |-> Null]
        \/ r = [ctx |-> set_key_used(d), out |-> page]
        \/ r = [ctx |-> set_error(d), out |-> Null]
    BY <1>2 DEF codec_seal, derive_failure
  <2>6. page \in SealedPage
    BY <2>1, <2>2 DEF SealedPage
  <2>7. page # Null
    BY <2>6, NoneAssumption
  <2> HIDE DEF d
  <2> QED BY <2>1, <2>2, <2>3, <2>4, <2>5, <2>6, <2>7
<1> QED BY <1>1, <1>2

(* A page for the file is sealed with the write key.                       *)
LEMMA WriteStep ==
  ASSUME PlainKeys, NEW s \in Salt, NEW c, CtxOK(c, s), NEW p \in Page,
         NEW v \in Value \cup {Zero}, NEW r \in codec_write(c, s, p, v)
  PROVE  /\ CodecStep(c, r.ctx, s)
         /\ r.out = Null <=> r.ctx.error
         /\ ~r.ctx.error =>
              /\ r.out \in SealedPage
              /\ r.out = [key |-> KeyOf(c.write_ctx, s), val |-> v,
                          hdr |-> IF p = 1 THEN s ELSE NoSalt]
<1>1. \A mode \in {"write", "journal"} : mode = "write" /\ r \in codec_seal(c, s, p, v, mode) =>
        /\ CodecStep(c, r.ctx, s)
        /\ r.out = Null <=> r.ctx.error
        /\ ~r.ctx.error =>
             /\ r.out \in SealedPage
             /\ r.out = [key |-> KeyOf(c.write_ctx, s), val |-> v,
                         hdr |-> IF p = 1 THEN s ELSE NoSalt]
  BY Zenon, SealStep
<1> QED BY <1>1 DEF codec_write

(* A page for the journal is sealed with the read key.                     *)
LEMMA JournalStep ==
  ASSUME PlainKeys, NEW s \in Salt, NEW c, CtxOK(c, s), NEW p \in Page,
         NEW v \in Value \cup {Zero}, NEW r \in codec_journal(c, s, p, v)
  PROVE  /\ CodecStep(c, r.ctx, s)
         /\ r.out = Null <=> r.ctx.error
         /\ ~r.ctx.error =>
              /\ r.out \in SealedPage
              /\ r.out = [key |-> KeyOf(c.read_ctx, s), val |-> v,
                          hdr |-> IF p = 1 THEN s ELSE NoSalt]
<1>1. \A mode \in {"write", "journal"} : mode # "write" /\ r \in codec_seal(c, s, p, v, mode) =>
        /\ CodecStep(c, r.ctx, s)
        /\ r.out = Null <=> r.ctx.error
        /\ ~r.ctx.error =>
             /\ r.out \in SealedPage
             /\ r.out = [key |-> KeyOf(c.read_ctx, s), val |-> v,
                         hdr |-> IF p = 1 THEN s ELSE NoSalt]
  BY Zenon, SealStep
<1> QED BY <1>1 DEF codec_journal

(* The pass of a rekey changes only the key that write_ctx will hold.      *)
LEMMA SetWritePassStep ==
  ASSUME NEW s \in Salt, NEW c, CtxOK(c, s), NEW k \in Pass
  PROVE  LET d == set_write_pass(c, k)
         IN  /\ CtxOK(d, s) /\ d.error = c.error /\ d.read_ctx = c.read_ctx /\ d.kdf_salt = c.kdf_salt
             /\ d.write_ctx.derive_key /\ d.write_ctx.pass = k
<1> DEFINE d == set_write_pass(c, k)
<1>1. /\ d \in codec_ctx /\ d.error = c.error /\ d.read_ctx = c.read_ctx /\ d.kdf_salt = c.kdf_salt
      /\ d.write_ctx = [derive_key |-> TRUE, pass |-> k, key |-> c.write_ctx.key]
  BY Zenon DEF CtxOK, set_write_pass, codec_ctx, cipher_ctx
<1> HIDE DEF d
<1>2. CtxOK(d, s) /\ d.write_ctx.derive_key /\ d.write_ctx.pass = k
  BY <1>1 DEF CtxOK, CipherOK
<1> QED BY <1>1, <1>2 DEF d

(* Copying the write context leaves both contexts equal.                   *)
LEMMA KeyCopyStep ==
  ASSUME NEW s \in Salt, NEW c, CtxOK(c, s), c.error \/ c.kdf_salt = s
  PROVE  LET d == sqlcipher_codec_key_copy(c)
         IN  /\ CtxOK(d, s) /\ d.error = c.error
             /\ d.read_ctx = c.write_ctx /\ d.write_ctx = c.write_ctx /\ d.kdf_salt = c.kdf_salt
<1> DEFINE d == sqlcipher_codec_key_copy(c)
<1>1. /\ d \in codec_ctx /\ d.error = c.error /\ d.read_ctx = c.write_ctx
      /\ d.write_ctx = c.write_ctx /\ d.kdf_salt = c.kdf_salt
  BY DEF CtxOK, sqlcipher_codec_key_copy, codec_ctx
<1> HIDE DEF d
<1>2. CtxOK(d, s)
  BY <1>1 DEF CtxOK
<1> QED BY <1>1, <1>2 DEF d

-----------------------------------------------------------------------------
(* The pieces of the actions of CodecPager.                                *)

USE DEF fileVars, journalVars, appVars

(* When the rekey loop is done, it has passed every page.                  *)
LEMMA PastTheEnd == \A p \in Page : p < N + 1
  BY PagesAssumption DEF Page

(* Nothing in the file or the journal changes.                             *)
LEMMA SameImage ==
  ASSUME UNCHANGED <<file, disk, jsync, jpend>>
  PROVE  /\ Recovered' = Recovered /\ TheKey' = TheKey /\ TheSalt' = TheSalt
         /\ ImageInv => ImageInv'
         /\ HotJournal' = HotJournal /\ Journaled' = Journaled
         /\ \A p \in Page : InJournal(p)' = InJournal(p)
  BY DEF Recovered, TheKey, TheSalt, ImageInv, Uniform, DiskPages, PowerLossSafe, PendingIsFile,
         GoodPage, HotJournal, Journaled, InJournal

(* The salt read from the file is the salt of the image, whatever version  *)
(* of page 1 is there.                                                     *)
LEMMA FileFacts ==
  ASSUME TypeOK, ImageInv
  PROVE  /\ 1 \in Page /\ TheSalt \in Salt /\ file[1].hdr = TheSalt
         /\ TheKey \in Key /\ TheKey.salt = TheSalt
         /\ \A p \in Page : /\ file[p] \in SealedPage /\ file[p] # NoRec /\ GoodPage(p, file[p])
                            /\ file[p].val \in Value
                            /\ Recovered[p] \in SealedPage /\ GoodPage(p, Recovered[p])
                            /\ Recovered[p].key = TheKey
                            /\ jpend[p] # NoRec => Recovered[p] = jpend[p]
                            /\ ~InJournal(p) => Recovered[p] = file[p]
<1>1. 1 \in Page
  BY PagesAssumption DEF Page
<1>2. \A p \in Page : /\ file[p] \in SealedPage /\ Recovered[p] \in SealedPage
                      /\ jpend[p] # NoRec => Recovered[p] = jpend[p]
                      /\ ~InJournal(p) => Recovered[p] = file[p]
  BY DEF TypeOK, Recovered, ImageInv, PendingIsFile, InJournal
<1>3. \A p \in Page : GoodPage(p, file[p]) /\ file[p] # NoRec
  BY <1>2, EnvironmentAssumption DEF ImageInv, DiskPages
<1>4. \A p \in Page : file[p].val \in Value
  BY <1>2, <1>3 DEF SealedPage, GoodPage
<1>5. TheSalt \in Salt /\ TheKey.salt = TheSalt /\ TheKey \in Key
  BY <1>1, <1>2 DEF ImageInv, Uniform, TheKey, SealedPage
<1>6. file[1].hdr = TheSalt
  BY <1>1, <1>3 DEF GoodPage
<1> QED BY <1>1, <1>2, <1>3, <1>4, <1>5, <1>6 DEF ImageInv, Uniform

(* A page is appended to the journal: the record is the page in the file.  *)
LEMMA AppendImage ==
  ASSUME TypeOK, ImageInv, UNCHANGED <<file, disk, jsync>>, NEW p \in Page,
         \/ jpend' = jpend
         \/ jsync[p] = NoRec /\ jpend' = [jpend EXCEPT ![p] = file[p]]
  PROVE  /\ ImageInv' /\ Recovered' = Recovered /\ TheKey' = TheKey /\ TheSalt' = TheSalt
         /\ HotJournal' = HotJournal
         /\ \A q \in Page : InJournal(q) => InJournal(q)'
         /\ \A q \in Page : q # p => jpend'[q] = jpend[q]
<1>1. Recovered' = Recovered /\ TheKey' = TheKey /\ TheSalt' = TheSalt /\ HotJournal' = HotJournal
  BY DEF Recovered, TheKey, TheSalt, HotJournal
<1>2. PendingIsFile'
  BY DEF ImageInv, PendingIsFile, TypeOK
<1>3. ImageInv'
  BY <1>1, <1>2 DEF ImageInv, Uniform, DiskPages, PowerLossSafe, GoodPage
<1>4. /\ \A q \in Page : InJournal(q) => InJournal(q)'
      /\ \A q \in Page : q # p => jpend'[q] = jpend[q]
  BY FileFacts DEF TypeOK, InJournal
<1> QED BY <1>1, <1>3, <1>4

(* The journal is synced: the records join the ones a recovery plays back, *)
(* and the recoverable image stays the same.                               *)
LEMMA SyncImage ==
  ASSUME TypeOK, ImageInv, UNCHANGED <<file, disk>>, NEW pend, NEW p \in Page,
         \/ pend = jpend
         \/ jsync[p] = NoRec /\ pend = [jpend EXCEPT ![p] = file[p]],
         jsync' = SyncedJournal(pend), jpend' = NoRecs
  PROVE  /\ ImageInv' /\ Recovered' = Recovered /\ TheKey' = TheKey /\ TheSalt' = TheSalt
         /\ \A q \in Page : /\ InJournal(q) => jsync'[q] # NoRec
                            /\ jsync'[q] # NoRec => InJournal(q) \/ q = p
                            /\ jpend'[q] = NoRec
         /\ pend[p] # NoRec => jsync'[p] # NoRec
         /\ jsync' \in [Page -> SealedPage \cup {NoRec}]
         /\ jpend' \in [Page -> SealedPage \cup {NoRec}]
<1>1. \A q \in Page : /\ pend[q] \in SealedPage \cup {NoRec}
                      /\ pend[q] # NoRec => jsync[q] = NoRec /\ pend[q] = file[q]
                      /\ q # p => pend[q] = jpend[q]
                      /\ jpend[q] # NoRec => pend[q] # NoRec
  BY FileFacts DEF TypeOK, ImageInv, PendingIsFile
<1>2. \A q \in Page : Recovered'[q] = Recovered[q]
  BY <1>1 DEF Recovered, SyncedJournal
<1>3. Recovered' = Recovered
  BY <1>2 DEF Recovered
<1>4. TheKey' = TheKey /\ TheSalt' = TheSalt
  BY <1>3 DEF TheKey, TheSalt
<1>5. ImageInv'
  BY <1>1, <1>3, <1>4 DEF ImageInv, Uniform, DiskPages, PowerLossSafe, PendingIsFile, GoodPage,
     SyncedJournal, NoRecs
<1> QED BY <1>1, <1>3, <1>4, <1>5 DEF TypeOK, SyncedJournal, NoRecs, InJournal

(* A page whose original is in the synced journal is written to the file.  *)
LEMMA WriteImage ==
  ASSUME TypeOK, ImageInv, NEW p \in Page, jsync[p] # NoRec, UNCHANGED journalVars,
         NEW x \in SealedPage, GoodPage(p, x), WriteFile(p, x)
  PROVE  /\ ImageInv' /\ Recovered' = Recovered /\ TheKey' = TheKey /\ TheSalt' = TheSalt
         /\ HotJournal' = HotJournal /\ Journaled' = Journaled
         /\ \A q \in Page : InJournal(q)' = InJournal(q)
         /\ file' \in [Page -> SealedPage] /\ disk' \in [Page -> SUBSET SealedPage]
         /\ file'[p] = x /\ \A q \in Page : q # p => file'[q] = file[q]
<1>1. /\ file' \in [Page -> SealedPage] /\ disk' \in [Page -> SUBSET SealedPage]
      /\ file'[p] = x /\ \A q \in Page : q # p => file'[q] = file[q]
      /\ disk'[p] = disk[p] \cup {x} /\ \A q \in Page : q # p => disk'[q] = disk[q]
  BY DEF TypeOK, WriteFile
<1>2. \A q \in Page : Recovered'[q] = Recovered[q]
  BY <1>1 DEF Recovered
<1>3. Recovered' = Recovered
  BY <1>2 DEF Recovered
<1>4. TheKey' = TheKey /\ TheSalt' = TheSalt
  BY <1>3 DEF TheKey, TheSalt
<1>5. DiskPages'
  BY <1>1, <1>4 DEF ImageInv, DiskPages, GoodPage
<1>6. PowerLossSafe' /\ PendingIsFile'
  BY <1>1 DEF ImageInv, PowerLossSafe, PendingIsFile
<1>7. Uniform'
  BY <1>3, <1>4 DEF ImageInv, Uniform, GoodPage
<1> QED BY <1>1, <1>3, <1>4, <1>5, <1>6, <1>7 DEF ImageInv, HotJournal, Journaled, InJournal

(* The journal is gone and the file is the image that was recoverable.     *)
LEMMA CleanImage ==
  ASSUME TypeOK, ImageInv, UNCHANGED file, jsync' = NoRecs, jpend' = NoRecs,
         \A p \in Page : file[p] = Recovered[p],
         \/ disk' = [p \in Page |-> {file[p]}]
         \/ disk' = disk /\ ~HotJournal
  PROVE  /\ ImageInv' /\ Recovered' = Recovered /\ TheKey' = TheKey /\ TheSalt' = TheSalt
         /\ ~HotJournal' /\ \A p \in Page : ~InJournal(p)'
         /\ disk' \in [Page -> SUBSET SealedPage]
         /\ jsync' \in [Page -> SealedPage \cup {NoRec}]
         /\ jpend' \in [Page -> SealedPage \cup {NoRec}]
<1>1. \A p \in Page : Recovered'[p] = Recovered[p]
  BY DEF Recovered, NoRecs
<1>2. Recovered' = Recovered
  BY <1>1 DEF Recovered
<1>3. TheKey' = TheKey /\ TheSalt' = TheSalt
  BY <1>2 DEF TheKey, TheSalt
<1>4. \A p \in Page : disk'[p] = {file[p]}
  BY DEF ImageInv, PowerLossSafe, HotJournal
<1>5. ImageInv'
  BY <1>2, <1>3, <1>4, FileFacts DEF ImageInv, Uniform, DiskPages, PowerLossSafe, PendingIsFile, GoodPage, NoRecs
<1>6. disk' \in [Page -> SUBSET SealedPage]
  BY FileFacts DEF TypeOK
<1> QED BY <1>2, <1>3, <1>5, <1>6 DEF HotJournal, InJournal, NoRecs

-----------------------------------------------------------------------------
(* What the codec context keeps from c to d, in a database with salt s.    *)
KeepsKeys(c, d, s) ==
  /\ CtxOK(d, s) /\ d # NoCtx
  /\ c.error => d.error
  /\ ~d.error =>
       /\ KeyOf(d.read_ctx, s) = KeyOf(c.read_ctx, s)
       /\ KeyOf(d.write_ctx, s) = KeyOf(c.write_ctx, s)
       /\ c.read_ctx = c.write_ctx => d.read_ctx = d.write_ctx
       /\ c.kdf_salt = s => d.kdf_salt = s
       /\ ~c.read_ctx.derive_key => ~d.read_ctx.derive_key /\ d.read_ctx.key = c.read_ctx.key
       /\ ~c.write_ctx.derive_key => ~d.write_ctx.derive_key

(* Every call of the codec, and no call, keeps the keys.                   *)
LEMMA CodecKeepsKeys ==
  ASSUME NEW s \in Salt, NEW c, NEW d, CtxOK(c, s), CodecStep(c, d, s) \/ d = c
  PROVE  KeepsKeys(c, d, s)
<1>1. d # NoCtx
  BY EnvironmentAssumption DEF CtxOK, CodecStep
<1> QED BY <1>1 DEF KeepsKeys, CodecStep, KeyOf, CtxOK, CipherOK

(* The context of an open connection.                                      *)
LEMMA OpenCtx ==
  ASSUME IInv, op # "closed"
  PROVE  ctx # NoCtx /\ CtxOK(ctx, TheSalt) /\ KeepsKeys(ctx, ctx, TheSalt)
<1>1. ctx # NoCtx /\ CtxOK(ctx, TheSalt)
  BY DEF IInv, ControlInv, CtxInv
<1> QED BY <1>1, FileFacts, CodecKeepsKeys DEF IInv

(* Getting a page: it was cached, or it is read through the codec.         *)
LEMMA PageGetStep ==
  ASSUME CarefulApplication, IInv, op # "closed", NEW p \in Page, NEW g \in PageGet(p)
  PROVE  /\ KeepsKeys(ctx, g.ctx, TheSalt)
         /\ g.cache \in [Page -> [val : Value \cup {Zero}, dirty : BOOLEAN] \cup {NoPage}]
         /\ g.ok => g.cache[p] # NoPage
         /\ \A q \in Page : q # p => g.cache[q] = cache[q]
         /\ Cached(p) => g.ctx = ctx /\ g.cache = cache /\ g.ok
         /\ ~g.ok => g.cache = cache /\ g.ctx.error
         /\ ~Cached(p) /\ g.ok => ~g.cache[p].dirty
         /\ ~Cached(p) /\ g.ctx.error /\ g.ok => g.cache[p].val = Zero
         /\ ~Cached(p) /\ ~g.ctx.error =>
              /\ g.ok /\ g.cache[p].val = file[p].val
              /\ file[p].key = KeyOf(ctx.read_ctx, TheSalt)
              /\ ~g.ctx.read_ctx.derive_key /\ ~g.ctx.write_ctx.derive_key
              /\ g.ctx.read_ctx.key = file[p].key /\ g.ctx.kdf_salt = TheSalt
<1>1. CASE Cached(p)
  BY <1>1, OpenCtx DEF PageGet, IInv, TypeOK, Cached
<1>2. CASE ~Cached(p)
  <2>1. /\ CtxOK(ctx, TheSalt) /\ file[1].hdr = TheSalt /\ TheSalt \in Salt /\ file[p].val \in Value
    BY OpenCtx, FileFacts DEF IInv
  <2>2. PICK r \in codec_read(ctx, TheSalt, file[p]) :
          g = [ctx |-> r.ctx, ok |-> r.out # Null,
               cache |-> IF r.out = Null THEN cache
                         ELSE [cache EXCEPT ![p] = [val |-> r.out, dirty |-> FALSE]]]
    BY <1>2, <2>1 DEF PageGet
  <2>3. /\ CodecStep(ctx, r.ctx, TheSalt)
        /\ r.ctx.error => r.out \in {Zero, Null}
        /\ ~r.ctx.error => r.out = file[p].val /\ file[p].key = KeyOf(ctx.read_ctx, TheSalt)
    BY <2>1, ReadStep DEF CarefulApplication
  <2>4. KeepsKeys(ctx, r.ctx, TheSalt)
    BY <2>1, <2>3, CodecKeepsKeys
  <2>5. ~r.ctx.error => /\ ~r.ctx.read_ctx.derive_key /\ ~r.ctx.write_ctx.derive_key
                        /\ r.ctx.read_ctx.key = file[p].key /\ r.ctx.kdf_salt = TheSalt
    BY <2>3 DEF CodecStep, CtxOK
  <2>6. Null \notin Value \cup {Zero} /\ NoPage \notin [val : Value \cup {Zero}, dirty : BOOLEAN]
    BY NoneAssumption, EnvironmentAssumption
  <2>7. r.out # Null => r.out \in Value \cup {Zero}
    BY <2>1, <2>3
  <2>8. /\ g.ctx = r.ctx /\ g.ok = (r.out # Null)
        /\ g.cache = IF r.out = Null THEN cache
                     ELSE [cache EXCEPT ![p] = [val |-> r.out, dirty |-> FALSE]]
    BY <2>2
  <2>9. /\ g.cache \in [Page -> [val : Value \cup {Zero}, dirty : BOOLEAN] \cup {NoPage}]
        /\ \A q \in Page : q # p => g.cache[q] = cache[q]
        /\ g.ok => g.cache[p] # NoPage /\ ~g.cache[p].dirty /\ g.cache[p].val = r.out
        /\ ~g.ok => g.cache = cache
    <3>1. CASE r.out = Null
      BY Zenon, <2>8, <3>1 DEF IInv, TypeOK
    <3>2. CASE r.out # Null
      <4> DEFINE page == [val |-> r.out, dirty |-> FALSE]
      <4>1. page \in [val : Value \cup {Zero}, dirty : BOOLEAN] /\ page.val = r.out /\ ~page.dirty
        BY <2>7, <3>2
      <4>2. g.cache = [cache EXCEPT ![p] = page] /\ g.ok
        BY Zenon, <2>8, <3>2
      <4> HIDE DEF page
      <4> QED BY <2>6, <4>1, <4>2 DEF IInv, TypeOK
    <3> QED BY <3>1, <3>2
  <2>10. /\ ~g.ok => g.ctx.error
         /\ g.ctx.error /\ g.ok => r.out = Zero
         /\ ~g.ctx.error => g.ok /\ r.out = file[p].val
    BY Zenon, <2>1, <2>3, <2>6, <2>8
  <2> QED BY <1>2, <2>3, <2>4, <2>5, <2>8, <2>9, <2>10
<1> QED BY <1>1, <1>2

(* Marking a page for writing: if it is not in the journal yet, the record *)
(* appended for it is the page in the file.                                *)
LEMMA PageWriteStep ==
  ASSUME CarefulApplication, IInv, op # "closed", NEW p \in Page, NEW c, CtxOK(c, TheSalt),
         NEW cch \in [Page -> [val : Value \cup {Zero}, dirty : BOOLEAN] \cup {NoPage}],
         cch[p] # NoPage,
         ~c.error /\ ~InJournal(p) => KeyOf(c.read_ctx, TheSalt) = TheKey /\ cch[p].val = file[p].val,
         NEW w \in PageWrite(c, cch, p)
  PROVE  /\ KeepsKeys(c, w.ctx, TheSalt)
         /\ w.cache \in [Page -> [val : Value \cup {Zero}, dirty : BOOLEAN] \cup {NoPage}]
         /\ w.cache[p] # NoPage /\ w.cache[p].dirty /\ w.cache[p].val = cch[p].val
         /\ \A q \in Page : q # p => w.cache[q] = cch[q]
         /\ InJournal(p) => w.ctx = c /\ w.jpend = jpend /\ w.ok
         /\ w.ok /\ ~InJournal(p) => ~w.ctx.error /\ w.jpend = [jpend EXCEPT ![p] = file[p]]
         /\ ~w.ok => w.ctx.error /\ w.jpend = jpend
         /\ ~InJournal(p) => jsync[p] = NoRec
         /\ w.jpend \in [Page -> SealedPage \cup {NoRec}]
<1>0. /\ file[1].hdr = TheSalt /\ TheSalt \in Salt /\ file[p] \in SealedPage
      /\ GoodPage(p, file[p]) /\ cch[p].val \in Value \cup {Zero}
      /\ ~InJournal(p) => file[p].key = TheKey /\ jsync[p] = NoRec
  BY FileFacts DEF IInv, InJournal
<1>1. /\ [cch EXCEPT ![p].dirty = TRUE] \in [Page -> [val : Value \cup {Zero}, dirty : BOOLEAN] \cup {NoPage}]
      /\ [cch EXCEPT ![p].dirty = TRUE][p] # NoPage /\ [cch EXCEPT ![p].dirty = TRUE][p].dirty
      /\ [cch EXCEPT ![p].dirty = TRUE][p].val = cch[p].val
      /\ \A q \in Page : q # p => [cch EXCEPT ![p].dirty = TRUE][q] = cch[q]
  BY Zenon, EnvironmentAssumption
<1>2. CASE InJournal(p)
  <2>1. w = [ctx |-> c, cache |-> [cch EXCEPT ![p].dirty = TRUE], jpend |-> jpend, ok |-> TRUE]
    BY <1>2 DEF PageWrite
  <2>2. KeepsKeys(c, c, TheSalt)
    BY <1>0, CodecKeepsKeys
  <2> QED BY <1>1, <1>2, <2>1, <2>2 DEF IInv, TypeOK
<1>3. CASE ~InJournal(p)
  <2>1. PICK r \in codec_journal(c, TheSalt, p, cch[p].val) :
          w = [ctx |-> r.ctx, cache |-> [cch EXCEPT ![p].dirty = TRUE], ok |-> r.out # Null,
               jpend |-> IF r.out = Null THEN jpend ELSE [jpend EXCEPT ![p] = r.out]]
    BY <1>0, <1>3 DEF PageWrite
  <2>2. /\ CodecStep(c, r.ctx, TheSalt)
        /\ r.out = Null <=> r.ctx.error
        /\ ~r.ctx.error => r.out = [key |-> KeyOf(c.read_ctx, TheSalt), val |-> cch[p].val,
                                    hdr |-> IF p = 1 THEN TheSalt ELSE NoSalt]
    BY <1>0, JournalStep DEF CarefulApplication
  <2>3. KeepsKeys(c, r.ctx, TheSalt)
    BY <1>0, <2>2, CodecKeepsKeys
  <2>4. ~r.ctx.error => ~c.error
    BY <2>3 DEF KeepsKeys
  <2>5. ~r.ctx.error => r.out = file[p]
    BY <1>0, <1>3, <2>2, <2>4 DEF GoodPage, SealedPage
  <2>6. /\ w.ctx = r.ctx /\ w.ok = (r.out # Null) /\ w.cache = [cch EXCEPT ![p].dirty = TRUE]
        /\ w.jpend = IF r.out = Null THEN jpend ELSE [jpend EXCEPT ![p] = r.out]
    BY <2>1
  <2>7. w.jpend \in [Page -> SealedPage \cup {NoRec}]
    BY <1>0, <2>2, <2>5, <2>6 DEF IInv, TypeOK
  <2> QED BY Zenon, <1>0, <1>1, <1>3, <2>2, <2>3, <2>5, <2>6, <2>7
<1> QED BY Zenon, <1>2, <1>3

(* sqlite3PcacheCleanAll changes no content.                               *)
LEMMA CleanAllFacts ==
  ASSUME TypeOK, cache' = CleanAll
  PROVE  /\ cache' \in [Page -> [val : Value \cup {Zero}, dirty : BOOLEAN] \cup {NoPage}]
         /\ \A q \in Page : cache'[q] = NoPage <=> cache[q] = NoPage
         /\ \A q \in Page : cache'[q] # NoPage => cache'[q].val = cache[q].val /\ ~cache'[q].dirty
<1>1. \A q \in Page : Cached(q) =>
        /\ [cache[q] EXCEPT !.dirty = FALSE] \in [val : Value \cup {Zero}, dirty : BOOLEAN]
        /\ [cache[q] EXCEPT !.dirty = FALSE].val = cache[q].val
        /\ ~[cache[q] EXCEPT !.dirty = FALSE].dirty
  BY Zenon DEF TypeOK, Cached
<1> QED BY Zenon, <1>1, EnvironmentAssumption DEF CleanAll, Cached
-----------------------------------------------------------------------------
USE Zenon

(* The invariant and the recoverable image survive ending a read           *)
(* transaction (unlockBtreeIfUnused).                                      *)
LEMMA EndReadInv ==
  ASSUME CarefulApplication, IInv, EndRead
  PROVE  IInv' /\ Recovered' = Recovered
<1>0. UNCHANGED <<file, disk, jsync, jpend, cache, ctx, todo>>
  BY DEF EndRead
<1>2. /\ ImageInv' /\ Recovered' = Recovered /\ TheKey' = TheKey /\ TheSalt' = TheSalt
      /\ HotJournal' = HotJournal /\ Journaled' = Journaled /\ \A q \in Page : InJournal(q)' = InJournal(q)
  BY <1>0, SameImage DEF IInv
<1>1. TypeOK'
  BY <1>0 DEF IInv, TypeOK, States, Ops, EndRead
<1>3. JournalInv'
  BY <1>0, <1>2 DEF IInv, JournalInv, ControlInv, EndRead
<1>4. PlayedBack'
  BY <1>0, <1>2 DEF IInv, PlayedBack, ControlInv, EndRead
<1>5. ControlInv'
  BY <1>0, <1>2 DEF IInv, TypeOK, ControlInv, EndRead
<1>6. CacheInv'
  BY <1>0, <1>2 DEF IInv, JournalInv, ControlInv, CacheInv, Dirty, Cached, NoPages, EndRead
<1>7. OriginalCached'
  BY <1>0, <1>2 DEF IInv, OriginalCached, Original, Working, Cached, ControlInv, EndRead
<1>8. NoZeroCached'
  BY <1>0, <1>2 DEF IInv, NoZeroCached, Working, Cached, NoPages, EndRead
<1>9. DirtyJournaled' /\ SettledInFile'
  BY <1>0, <1>2 DEF IInv, DirtyJournaled, SettledInFile, Settled, Dirty, Cached, Working, CacheInv, EndRead
<1>10. CtxInv' /\ SameKeys'
  BY <1>0, <1>2 DEF IInv, CtxInv, SameKeys, Working, ControlInv, EndRead
<1>11. WriteKeyCovers'
  BY <1>0, <1>2 DEF IInv, WriteKeyCovers, WriteKey, Dirty, Cached, Working, ControlInv, EndRead
<1>12. RekeyJournaled' /\ CommitSynced'
  BY <1>0, <1>2 DEF IInv, RekeyJournaled, CommitSynced, ControlInv, Dirty, Cached, EndRead
<1> QED BY <1>1, <1>2, <1>3, <1>4, <1>5, <1>6, <1>7, <1>8, <1>9, <1>10, <1>11, <1>12 DEF IInv

(* The invariant and the recoverable image survive beginning a read        *)
(* transaction, which may find a hot journal (sqlite3PagerSharedLock).     *)
LEMMA BeginReadInv ==
  ASSUME CarefulApplication, IInv, BeginRead
  PROVE  IInv' /\ Recovered' = Recovered
<1>0. UNCHANGED <<file, disk, jsync, jpend, ctx, eState, caller>>
  BY DEF BeginRead, SharedLock, InUse
<1>2. /\ ImageInv' /\ Recovered' = Recovered /\ TheKey' = TheKey /\ TheSalt' = TheSalt
      /\ HotJournal' = HotJournal /\ Journaled' = Journaled /\ \A q \in Page : InJournal(q)' = InJournal(q)
  BY <1>0, SameImage DEF IInv
<1>1. TypeOK'
  BY <1>0 DEF IInv, TypeOK, Ops, BeginRead, SharedLock, NoPages, Journaled
<1>3. JournalInv'
  BY <1>0, <1>2 DEF IInv, JournalInv, ControlInv, BeginRead, SharedLock, InUse
<1>4. PlayedBack'
  BY <1>0, <1>2 DEF IInv, PlayedBack, BeginRead, SharedLock, Journaled, InJournal
<1>5. ControlInv'
  BY <1>0 DEF IInv, ControlInv, BeginRead, SharedLock, InUse, CarefulApplication
<1>6. CacheInv'
  BY <1>0, <1>2 DEF IInv, JournalInv, ControlInv, CacheInv, Dirty, Cached, NoPages, BeginRead, SharedLock, InUse
<1>7. OriginalCached'
  BY <1>0, <1>2 DEF IInv, OriginalCached, Original, Working, Cached, NoPages, CacheInv, BeginRead, SharedLock
<1>8. NoZeroCached'
  BY <1>0, <1>2 DEF IInv, NoZeroCached, Working, Cached, NoPages, BeginRead, SharedLock, InUse
<1>9. DirtyJournaled' /\ SettledInFile'
  BY <1>0, <1>2 DEF IInv, DirtyJournaled, SettledInFile, Settled, Dirty, Cached, Working, CacheInv, BeginRead, SharedLock, InUse
<1>10. CtxInv' /\ SameKeys'
  BY <1>0, <1>2 DEF IInv, CtxInv, SameKeys, Working, ControlInv, BeginRead, SharedLock, InUse
<1>11. WriteKeyCovers'
  BY <1>0, <1>2 DEF IInv, WriteKeyCovers, WriteKey, Dirty, Cached, Working, ControlInv, BeginRead, SharedLock, InUse
<1>12. RekeyJournaled' /\ CommitSynced'
  BY <1>0, <1>2 DEF IInv, RekeyJournaled, CommitSynced, ControlInv, Dirty, Cached, BeginRead, SharedLock, InUse
<1> QED BY <1>1, <1>2, <1>3, <1>4, <1>5, <1>6, <1>7, <1>8, <1>9, <1>10, <1>11, <1>12 DEF IInv

(* The invariant and the recoverable image survive sqlite3PagerGet,        *)
(* whatever the codec returns.                                             *)
LEMMA PagerGetInv ==
  ASSUME CarefulApplication, NEW p \in Page, IInv, sqlite3PagerGet(p)
  PROVE  IInv' /\ Recovered' = Recovered
<1>0. UNCHANGED <<file, disk, jsync, jpend, todo, eState, op, caller>>
  BY DEF sqlite3PagerGet
<1>g. PICK g \in PageGet(p) : ctx' = g.ctx /\ cache' = g.cache /\ readonly' \in BOOLEAN
  BY DEF sqlite3PagerGet, MarkReadonly, IInv, TypeOK
<1>c. /\ op \in {"read", "txn"} /\ ~Cached(p)
      /\ UNCHANGED <<pgno, told, rekeyTo, mustClose>>
  BY DEF sqlite3PagerGet
<1>d. /\ KeepsKeys(ctx, ctx', TheSalt)
      /\ cache' \in [Page -> [val : Value \cup {Zero}, dirty : BOOLEAN] \cup {NoPage}]
      /\ \A q \in Page : q # p => cache'[q] = cache[q]
      /\ cache'[p] # NoPage => ~cache'[p].dirty
      /\ ~ctx'.error => /\ cache'[p].val = file[p].val /\ file[p].key = ctx'.read_ctx.key
                        /\ ~ctx'.read_ctx.derive_key /\ file[p].key = KeyOf(ctx.read_ctx, TheSalt)
  BY SMT, <1>c, <1>g, PageGetStep DEF Cached
<1>e. ctx # NoCtx /\ ctx' # NoCtx /\ ctx' \in codec_ctx
  BY <1>c, <1>d, OpenCtx DEF KeepsKeys, CtxOK
<1>k. Working' => Working
  BY <1>d, <1>e DEF Working, KeepsKeys
<1>2. /\ ImageInv' /\ Recovered' = Recovered /\ TheKey' = TheKey /\ TheSalt' = TheSalt
      /\ HotJournal' = HotJournal /\ Journaled' = Journaled /\ \A q \in Page : InJournal(q)' = InJournal(q)
  BY <1>0, SameImage DEF IInv
<1>1. TypeOK'
  BY <1>0, <1>c, <1>d, <1>e, <1>g DEF IInv, TypeOK
<1>3. JournalInv'
  BY <1>0, <1>2 DEF IInv, JournalInv
<1>4. PlayedBack'
  BY <1>0, <1>2 DEF IInv, PlayedBack
<1>5. ControlInv'
  BY <1>0, <1>c, <1>e DEF IInv, ControlInv
<1>6. CacheInv'
  BY <1>0, <1>2, <1>c, <1>d, FileFacts DEF IInv, CacheInv, Dirty, Cached
<1>7. OriginalCached'
  BY <1>0, <1>2, <1>c, <1>d, <1>e, FileFacts DEF IInv, OriginalCached, Original, Working, Cached, KeepsKeys
<1>8. NoZeroCached'
  BY SMT, <1>c, <1>d, <1>k, FileFacts DEF IInv, NoZeroCached, Working, Cached, GoodPage
<1>9. DirtyJournaled' /\ SettledInFile'
  BY <1>0, <1>2, <1>c, <1>d, <1>k DEF IInv, DirtyJournaled, SettledInFile, Settled, Dirty, Cached, Working
<1>10. CtxInv' /\ SameKeys'
  BY <1>0, <1>2, <1>c, <1>d, <1>e DEF IInv, CtxInv, SameKeys, Working, KeepsKeys
<1>11. WriteKeyCovers'
  BY <1>0, <1>2, <1>c, <1>d, <1>e DEF IInv, WriteKeyCovers, WriteKey, Dirty, Cached, Working, KeepsKeys
<1>12. RekeyJournaled' /\ CommitSynced'
  BY <1>0, <1>2 DEF IInv, RekeyJournaled, CommitSynced, ControlInv, Dirty, Cached, sqlite3PagerGet
<1> QED BY <1>1, <1>2, <1>3, <1>4, <1>5, <1>6, <1>7, <1>8, <1>9, <1>10, <1>11, <1>12 DEF IInv

(* The invariant and the recoverable image survive lockBtree, whether or   *)
(* not page 1 opens.                                                       *)
LEMMA lockBtreeInv ==
  ASSUME CarefulApplication, IInv, lockBtree
  PROVE  IInv' /\ Recovered' = Recovered
<1>0. UNCHANGED <<file, disk, jsync, jpend, todo, pgno>>
  BY DEF lockBtree
<1> DEFINE ok(g) == g.ok /\ g.cache[1].val # Zero
<1>g. PICK g \in PageGet(1) :
        /\ ctx' = g.ctx /\ cache' = g.cache /\ readonly' \in BOOLEAN
        /\ op' = IF ok(g) THEN "read" ELSE "idle"
        /\ eState' = IF ok(g) THEN "READER" ELSE "OPEN"
        /\ IF caller = "rekey"
           THEN IF ok(g) THEN UNCHANGED <<caller, told, rekeyTo, mustClose>> ELSE RekeyReturnsError
           ELSE /\ told' = IF ok(g) /\ ~g.ctx.error THEN g.ctx.read_ctx.key.pass ELSE told
                /\ rekeyTo' = IF ok(g) /\ ~g.ctx.error THEN NoPass ELSE rekeyTo
                /\ UNCHANGED <<caller, mustClose>>
  BY DEF lockBtree, MarkReadonly, IInv, TypeOK
<1>c. op = "lock" /\ 1 \in Page /\ ~HotJournal /\ \A q \in Page : ~InJournal(q) /\ ~Dirty(q)
  <2>1. op = "lock" /\ 1 \in Page /\ JournalInv /\ CacheInv
    BY FileFacts DEF lockBtree, IInv
  <2> QED BY <2>1 DEF JournalInv, HotJournal, InJournal, CacheInv
<1>d. /\ KeepsKeys(ctx, ctx', TheSalt)
      /\ cache' \in [Page -> [val : Value \cup {Zero}, dirty : BOOLEAN] \cup {NoPage}]
      /\ \A q \in Page : q # 1 => cache'[q] = cache[q]
      /\ cache'[1] = cache[1] \/ ~cache'[1].dirty
      /\ ok(g) => cache'[1] # NoPage
      /\ Cached(1) => ctx' = ctx /\ cache' = cache
      /\ ~Cached(1) /\ ~ctx'.error =>
           /\ cache'[1].val = file[1].val /\ file[1].key = ctx'.read_ctx.key
           /\ ~ctx'.read_ctx.derive_key /\ ctx'.kdf_salt = TheSalt
  BY SMT, <1>c, <1>g, PageGetStep DEF Cached
<1>e. ctx # NoCtx /\ ctx' # NoCtx /\ ctx' \in codec_ctx /\ CtxOK(ctx, TheSalt)
  BY <1>c, <1>d, OpenCtx DEF KeepsKeys, CtxOK
<1>k. Working' => Working
  BY <1>d, <1>e DEF Working, KeepsKeys
<1>f. ok(g) /\ ~ctx'.error => ctx'.kdf_salt = TheSalt /\ ctx'.read_ctx.key \in Key
  <2>1. CASE ~Cached(1)
    BY <1>d, <2>1, FileFacts DEF IInv, SealedPage
  <2>2. CASE Cached(1)
    <3>1. ~ctx.error => ~ctx.read_ctx.derive_key /\ ctx.read_ctx.key = TheKey
      BY <1>c, <1>e, <2>2 DEF IInv, OriginalCached, Original, Working
    <3> QED BY SMT, <1>d, <1>e, <2>2, <3>1, FileFacts DEF IInv, CtxOK
  <2> QED BY <2>1, <2>2
<1> HIDE DEF ok
<1>h. /\ op' \in {"read", "idle"} /\ (op' = "read" <=> ok(g))
      /\ eState' = IF op' = "read" THEN "READER" ELSE "OPEN"
      /\ caller' = "sql" \/ (caller' = caller /\ op' = "read" /\ rekeyTo' = rekeyTo)
      /\ mustClose' = mustClose \/ caller' = "sql"
      /\ caller = "rekey" /\ caller' = "sql" => mustClose'
  BY <1>g DEF RekeyReturnsError, IInv, TypeOK
<1>2. /\ ImageInv' /\ Recovered' = Recovered /\ TheKey' = TheKey /\ TheSalt' = TheSalt
      /\ HotJournal' = HotJournal /\ Journaled' = Journaled /\ \A q \in Page : InJournal(q)' = InJournal(q)
  BY <1>0, SameImage DEF IInv
<1>1. TypeOK'
  BY <1>0, <1>d, <1>e, <1>f, <1>g DEF IInv, TypeOK, States, Ops, RekeyReturnsError, Key
<1>3. JournalInv'
  BY <1>0, <1>2, <1>c, <1>h DEF IInv, JournalInv, InJournal
<1>4. PlayedBack'
  BY <1>h DEF PlayedBack
<1>5. ControlInv'
  BY SMT, <1>0, <1>c, <1>e, <1>h DEF IInv, ControlInv
<1>6. CacheInv'
  <2>1. (op' = "read" => Cached(1)') /\ \A q \in Page : ~Dirty(q)'
    BY <1>c, <1>d, <1>h DEF Dirty, Cached
  <2> QED BY <1>2, <1>c, <1>h, <2>1 DEF CacheInv
<1>7. OriginalCached'
  <2>1. SUFFICES ASSUME Working', NEW q \in Page, Cached(q)'
                 PROVE  /\ ~ctx'.read_ctx.derive_key /\ ctx'.read_ctx.key = TheKey
                        /\ cache'[q].val = Recovered[q].val
    BY <1>2 DEF OriginalCached
  <2>2. Working /\ ~ctx'.error /\ \A x \in Page : Recovered[x] = file[x] /\ file[x].key = TheKey
    BY <1>c, <1>k, <2>1, FileFacts DEF IInv, Working
  <2>3. \A x \in Page : Cached(x) => /\ ~ctx.read_ctx.derive_key /\ ctx.read_ctx.key = TheKey
                                    /\ cache[x].val = Recovered[x].val
    BY <1>c, <2>2 DEF IInv, OriginalCached, Original
  <2>4. ~ctx.read_ctx.derive_key => ~ctx'.read_ctx.derive_key /\ ctx'.read_ctx.key = ctx.read_ctx.key
    BY <1>d, <2>2 DEF KeepsKeys
  <2>5. CASE q = 1 /\ ~Cached(1)
    BY <1>c, <1>d, <2>2, <2>5
  <2>6. CASE q # 1 \/ Cached(1)
    BY <1>d, <2>1, <2>3, <2>4, <2>6 DEF Cached
  <2> QED BY <2>5, <2>6
<1>8. NoZeroCached'
  BY SMT, <1>c, <1>d, <1>k, FileFacts DEF IInv, NoZeroCached, Working, Cached, GoodPage
<1>9. DirtyJournaled' /\ SettledInFile'
  BY <1>h DEF DirtyJournaled, SettledInFile
<1>10. CtxInv' /\ SameKeys'
  BY <1>0, <1>2, <1>c, <1>d, <1>e, <1>f, <1>h DEF IInv, TypeOK, ControlInv, CtxInv, SameKeys, Working, KeepsKeys
<1>11. WriteKeyCovers'
  BY <1>h DEF WriteKeyCovers
<1>12. RekeyJournaled' /\ CommitSynced'
  BY <1>0, <1>2 DEF IInv, RekeyJournaled, CommitSynced, ControlInv, Dirty, Cached, lockBtree
<1> QED BY <1>1, <1>2, <1>3, <1>4, <1>5, <1>6, <1>7, <1>8, <1>9, <1>10, <1>11, <1>12 DEF IInv

(* The invariant and the recoverable image survive the recycling of a      *)
(* clean cached page.                                                      *)
LEMMA EvictInv ==
  ASSUME CarefulApplication, NEW p \in Page, IInv, Evict(p)
  PROVE  IInv' /\ Recovered' = Recovered
<1>0. UNCHANGED <<file, disk, jsync, jpend, todo, eState, ctx>>
  BY DEF Evict
<1>c. /\ cache' \in [Page -> [val : Value \cup {Zero}, dirty : BOOLEAN] \cup {NoPage}]
      /\ cache'[p] = NoPage /\ \A q \in Page : q # p => cache'[q] = cache[q]
  BY DEF IInv, TypeOK, Evict
<1>2. /\ ImageInv' /\ Recovered' = Recovered /\ TheKey' = TheKey /\ TheSalt' = TheSalt
      /\ HotJournal' = HotJournal /\ Journaled' = Journaled /\ \A q \in Page : InJournal(q)' = InJournal(q)
  BY <1>0, SameImage DEF IInv
<1>1. TypeOK'
  BY <1>0 DEF IInv, TypeOK, States, Ops, Evict
<1>3. JournalInv'
  BY <1>0, <1>2 DEF IInv, JournalInv, ControlInv, Evict
<1>4. PlayedBack'
  BY <1>0, <1>2 DEF IInv, PlayedBack, ControlInv, Evict
<1>5. ControlInv'
  BY <1>0, <1>2 DEF IInv, TypeOK, ControlInv, Evict
<1>6. CacheInv'
  BY <1>0, <1>2, <1>c, FileFacts DEF IInv, TypeOK, CacheInv, Dirty, Cached, NoPages, Evict
<1>7. OriginalCached'
  BY <1>0, <1>2, <1>c DEF IInv, OriginalCached, Original, Working, Cached, Evict
<1>8. NoZeroCached'
  BY SMT, <1>0, <1>2 DEF IInv, NoZeroCached, Working, Cached, NoPages, Evict
<1>9. DirtyJournaled' /\ SettledInFile'
  BY SMT, <1>0, <1>2 DEF IInv, DirtyJournaled, SettledInFile, Settled, Dirty, Cached, Working, CacheInv, Evict
<1>10. CtxInv' /\ SameKeys'
  BY <1>0, <1>2 DEF IInv, CtxInv, SameKeys, Working, ControlInv, Evict
<1>11. WriteKeyCovers'
  BY SMT, <1>0, <1>2 DEF IInv, WriteKeyCovers, WriteKey, Dirty, Cached, Working, ControlInv, Evict
<1>12. RekeyJournaled' /\ CommitSynced'
  BY <1>0, <1>2 DEF IInv, RekeyJournaled, CommitSynced, ControlInv, Dirty, Cached, Evict
<1> QED BY <1>1, <1>2, <1>3, <1>4, <1>5, <1>6, <1>7, <1>8, <1>9, <1>10, <1>11, <1>12 DEF IInv

(* The invariant and the recoverable image survive playing back one page   *)
(* of a hot journal.                                                       *)
LEMMA RecoverPageInv ==
  ASSUME CarefulApplication, NEW p \in Page, IInv, RecoverPage(p)
  PROVE  IInv' /\ Recovered' = Recovered
<1>0. UNCHANGED <<jsync, jpend, cache, eState, ctx, op, caller>>
  BY DEF RecoverPage
<1>c. op = "recover" /\ p \in todo /\ todo' = todo \ {p} /\ UNCHANGED <<readonly, pgno, told, rekeyTo, mustClose>>
  BY DEF RecoverPage
<1>d. jsync[p] # NoRec /\ jsync[p] = Recovered[p]
  BY <1>c DEF IInv, JournalInv, Journaled, InJournal, Recovered
<1>e. WriteFile(p, jsync[p]) /\ jsync[p] \in SealedPage /\ GoodPage(p, jsync[p])
  BY <1>d, FileFacts DEF IInv, RecoverPage
<1>f. /\ file' \in [Page -> SealedPage] /\ disk' \in [Page -> SUBSET SealedPage]
      /\ file'[p] = jsync[p] /\ \A q \in Page : q # p => file'[q] = file[q]
  BY <1>0, <1>d, <1>e, WriteImage DEF IInv
<1>2. /\ ImageInv' /\ Recovered' = Recovered /\ TheKey' = TheKey /\ TheSalt' = TheSalt
      /\ HotJournal' = HotJournal /\ Journaled' = Journaled /\ \A q \in Page : InJournal(q)' = InJournal(q)
  BY <1>0, <1>d, <1>e, WriteImage DEF IInv
<1>1. TypeOK'
  BY <1>0, <1>c, <1>f DEF IInv, TypeOK
<1>3. JournalInv'
  BY <1>0, <1>2, <1>c DEF IInv, JournalInv
<1>4. PlayedBack'
  BY <1>0, <1>c, <1>f DEF IInv, PlayedBack
<1>5. ControlInv'
  BY <1>0, <1>c DEF IInv, ControlInv
<1>6. CacheInv'
  BY <1>0, <1>c DEF IInv, CacheInv, Dirty, Cached
<1>7. OriginalCached'
  BY <1>0, <1>c DEF IInv, CacheInv, OriginalCached, Cached, NoPages
<1>8. NoZeroCached'
  BY <1>0 DEF IInv, NoZeroCached, Working, Cached
<1>9. DirtyJournaled' /\ SettledInFile'
  BY <1>0, <1>c DEF DirtyJournaled, SettledInFile
<1>10. CtxInv' /\ SameKeys'
  BY <1>0, <1>2, <1>c DEF IInv, CtxInv, SameKeys, Working
<1>11. WriteKeyCovers'
  BY <1>0, <1>c DEF WriteKeyCovers
<1>12. RekeyJournaled' /\ CommitSynced'
  BY <1>0, <1>2 DEF IInv, RekeyJournaled, CommitSynced, ControlInv, Dirty, Cached, RecoverPage
<1> QED BY <1>1, <1>2, <1>3, <1>4, <1>5, <1>6, <1>7, <1>8, <1>9, <1>10, <1>11, <1>12 DEF IInv

(* The invariant and the recoverable image survive deleting the hot        *)
(* journal after the playback.                                             *)
LEMMA RecoverEndInv ==
  ASSUME CarefulApplication, IInv, RecoverEnd
  PROVE  IInv' /\ Recovered' = Recovered
<1>0. UNCHANGED <<file, jpend, cache, eState, ctx, caller, todo>>
  BY DEF RecoverEnd
<1>c. op = "recover" /\ op' = "lock" /\ todo = {} /\ UNCHANGED <<readonly, pgno, told, rekeyTo, mustClose>>
  BY DEF RecoverEnd
<1>d. jpend = NoRecs
  BY <1>c DEF IInv, TypeOK, JournalInv, NoRecs
<1>e. \A p \in Page : file[p] = Recovered[p]
  BY <1>c DEF IInv, PlayedBack, Recovered
<1>2. /\ ImageInv' /\ Recovered' = Recovered /\ TheKey' = TheKey /\ TheSalt' = TheSalt
      /\ ~HotJournal' /\ (\A q \in Page : ~InJournal(q)') /\ disk' \in [Page -> SUBSET SealedPage]
      /\ jsync' \in [Page -> SealedPage \cup {NoRec}] /\ jpend' \in [Page -> SealedPage \cup {NoRec}]
  BY <1>0, <1>d, <1>e, CleanImage DEF IInv, RecoverEnd, SyncFile
<1>1. TypeOK'
  BY <1>0, <1>2, <1>c DEF IInv, TypeOK, Ops
<1>3. JournalInv'
  BY <1>0, <1>2, <1>c DEF IInv, JournalInv, InJournal
<1>4. PlayedBack'
  BY <1>c DEF PlayedBack
<1>5. ControlInv'
  BY <1>0, <1>c DEF IInv, ControlInv
<1>6. CacheInv'
  BY <1>0, <1>c DEF IInv, CacheInv, Dirty, Cached, NoPages, ControlInv
<1>7. OriginalCached'
  BY <1>0, <1>c DEF IInv, CacheInv, OriginalCached, Cached, NoPages
<1>8. NoZeroCached'
  BY <1>0 DEF IInv, NoZeroCached, Working, Cached
<1>9. DirtyJournaled' /\ SettledInFile'
  BY <1>c DEF DirtyJournaled, SettledInFile
<1>10. CtxInv' /\ SameKeys'
  BY <1>0, <1>2, <1>c DEF IInv, CtxInv, SameKeys, Working
<1>11. WriteKeyCovers'
  BY <1>c DEF WriteKeyCovers
<1>12. RekeyJournaled' /\ CommitSynced'
  BY <1>0, <1>2 DEF IInv, RekeyJournaled, CommitSynced, ControlInv, Dirty, Cached, RecoverEnd
<1> QED BY <1>1, <1>2, <1>3, <1>4, <1>5, <1>6, <1>7, <1>8, <1>9, <1>10, <1>11, <1>12 DEF IInv

(* The invariant and the recoverable image survive opening a handle and    *)
(* keying it.                                                              *)
LEMMA OpenInv ==
  ASSUME CarefulApplication, NEW k \in Pass, IInv, Open(k)
  PROVE  IInv' /\ Recovered' = Recovered
<1>0. UNCHANGED <<file, disk, jsync, jpend, cache, eState, caller, todo>>
  BY DEF Open
<1>c. /\ CtxOK(ctx', TheSalt) /\ ~ctx'.error /\ ctx'.read_ctx = ctx'.write_ctx /\ ctx' \in codec_ctx /\ ctx' # NoCtx
      /\ cache = NoPages
  BY NewCtxOK, FileFacts, EnvironmentAssumption DEF IInv, Open, CtxOK, CacheInv
<1>2. /\ ImageInv' /\ Recovered' = Recovered /\ TheKey' = TheKey /\ TheSalt' = TheSalt
      /\ HotJournal' = HotJournal /\ Journaled' = Journaled /\ \A q \in Page : InJournal(q)' = InJournal(q)
  BY <1>0, SameImage DEF IInv
<1>1. TypeOK'
  BY <1>0, <1>c DEF IInv, TypeOK, States, Ops, Open
<1>3. JournalInv'
  BY <1>0, <1>2, <1>c DEF IInv, JournalInv, ControlInv, Open
<1>4. PlayedBack'
  BY <1>0, <1>2, <1>c DEF IInv, PlayedBack, ControlInv, Open
<1>5. ControlInv'
  BY <1>0, <1>2, <1>c DEF IInv, TypeOK, ControlInv, Open
<1>6. CacheInv'
  BY <1>0, <1>2, <1>c DEF IInv, CacheInv, Dirty, Cached, NoPages, Open
<1>7. OriginalCached'
  BY <1>0, <1>c DEF OriginalCached, Cached, NoPages
<1>8. NoZeroCached'
  BY <1>0, <1>2, <1>c DEF IInv, NoZeroCached, Working, Cached, NoPages, Open
<1>9. DirtyJournaled' /\ SettledInFile'
  BY <1>0, <1>2, <1>c DEF IInv, DirtyJournaled, SettledInFile, Settled, Dirty, Cached, Working, CacheInv, Open
<1>10. CtxInv' /\ SameKeys'
  BY <1>0, <1>2, <1>c DEF IInv, CtxInv, SameKeys, Working, ControlInv, Open
<1>11. WriteKeyCovers'
  BY <1>0, <1>2, <1>c DEF IInv, WriteKeyCovers, WriteKey, Dirty, Cached, Working, ControlInv, Open
<1>12. RekeyJournaled' /\ CommitSynced'
  BY <1>0, <1>2, <1>c DEF IInv, RekeyJournaled, CommitSynced, ControlInv, Dirty, Cached, Open
<1> QED BY <1>1, <1>2, <1>3, <1>4, <1>5, <1>6, <1>7, <1>8, <1>9, <1>10, <1>11, <1>12 DEF IInv

(* The invariant and the recoverable image survive sqlcipherCodecAttach    *)
(* with another key.                                                       *)
LEMMA AttachInv ==
  ASSUME CarefulApplication, NEW k \in Pass, IInv, sqlcipherCodecAttach(k)
  PROVE  IInv' /\ Recovered' = Recovered
<1>0. UNCHANGED <<file, disk, jsync, jpend, eState, caller, todo, op>>
  BY DEF sqlcipherCodecAttach
<1>c. /\ CtxOK(ctx', TheSalt) /\ ~ctx'.error /\ ctx'.read_ctx = ctx'.write_ctx /\ ctx' \in codec_ctx /\ ctx' # NoCtx
      /\ cache' = NoPages /\ cache' \in [Page -> [val : Value \cup {Zero}, dirty : BOOLEAN] \cup {NoPage}]
  BY NewCtxOK, FileFacts, EnvironmentAssumption DEF IInv, sqlcipherCodecAttach, CtxOK, NoPages
<1>2. /\ ImageInv' /\ Recovered' = Recovered /\ TheKey' = TheKey /\ TheSalt' = TheSalt
      /\ HotJournal' = HotJournal /\ Journaled' = Journaled /\ \A q \in Page : InJournal(q)' = InJournal(q)
  BY <1>0, SameImage DEF IInv
<1>1. TypeOK'
  BY <1>0, <1>c DEF IInv, TypeOK, States, Ops, sqlcipherCodecAttach
<1>3. JournalInv'
  BY <1>0, <1>2, <1>c DEF IInv, JournalInv, ControlInv, sqlcipherCodecAttach
<1>4. PlayedBack'
  BY <1>0, <1>2, <1>c DEF IInv, PlayedBack, ControlInv, sqlcipherCodecAttach
<1>5. ControlInv'
  BY <1>0, <1>2, <1>c DEF IInv, TypeOK, ControlInv, sqlcipherCodecAttach
<1>6. CacheInv'
  BY <1>0, <1>2, <1>c DEF IInv, JournalInv, ControlInv, CacheInv, Dirty, Cached, NoPages, sqlcipherCodecAttach
<1>7. OriginalCached'
  BY <1>0, <1>c DEF OriginalCached, Cached, NoPages
<1>8. NoZeroCached'
  BY <1>0, <1>2, <1>c DEF IInv, NoZeroCached, Working, Cached, NoPages, sqlcipherCodecAttach
<1>9. DirtyJournaled' /\ SettledInFile'
  BY <1>0, <1>2, <1>c DEF IInv, DirtyJournaled, SettledInFile, Settled, Dirty, Cached, Working, CacheInv, sqlcipherCodecAttach
<1>10. CtxInv' /\ SameKeys'
  BY <1>0, <1>2, <1>c DEF IInv, CtxInv, SameKeys, Working, ControlInv, sqlcipherCodecAttach
<1>11. WriteKeyCovers'
  BY <1>0, <1>2, <1>c DEF IInv, WriteKeyCovers, WriteKey, Dirty, Cached, Working, ControlInv, sqlcipherCodecAttach
<1>12. RekeyJournaled' /\ CommitSynced'
  BY <1>0, <1>2, <1>c DEF IInv, RekeyJournaled, CommitSynced, ControlInv, Dirty, Cached, sqlcipherCodecAttach
<1> QED BY <1>1, <1>2, <1>3, <1>4, <1>5, <1>6, <1>7, <1>8, <1>9, <1>10, <1>11, <1>12 DEF IInv

(* The invariant and the recoverable image survive sqlite3PagerClose.      *)
LEMMA PagerCloseInv ==
  ASSUME CarefulApplication, IInv, sqlite3PagerClose
  PROVE  IInv' /\ Recovered' = Recovered
<1>0. UNCHANGED <<file, disk, jsync, jpend, todo, eState>>
  BY DEF sqlite3PagerClose
<1>2. /\ ImageInv' /\ Recovered' = Recovered /\ TheKey' = TheKey /\ TheSalt' = TheSalt
      /\ HotJournal' = HotJournal /\ Journaled' = Journaled /\ \A q \in Page : InJournal(q)' = InJournal(q)
  BY <1>0, SameImage DEF IInv
<1>1. TypeOK'
  BY <1>0 DEF IInv, TypeOK, Ops, sqlite3PagerClose, NoPages
<1>3. JournalInv'
  BY <1>0, <1>2 DEF IInv, JournalInv, ControlInv, sqlite3PagerClose
<1>4. PlayedBack'
  BY <1>0, <1>2 DEF IInv, PlayedBack, ControlInv, sqlite3PagerClose
<1>5. ControlInv'
  BY <1>0, <1>2 DEF IInv, TypeOK, ControlInv, sqlite3PagerClose
<1>6. CacheInv'
  BY <1>0, <1>2 DEF IInv, JournalInv, ControlInv, CacheInv, Dirty, Cached, NoPages, sqlite3PagerClose
<1>7. OriginalCached'
  BY <1>0, <1>2 DEF IInv, OriginalCached, Original, Working, Cached, ControlInv, sqlite3PagerClose
<1>8. NoZeroCached'
  BY <1>0, <1>2 DEF IInv, NoZeroCached, Working, Cached, NoPages, sqlite3PagerClose
<1>9. DirtyJournaled' /\ SettledInFile'
  BY <1>0, <1>2 DEF IInv, DirtyJournaled, SettledInFile, Settled, Dirty, Cached, Working, CacheInv, sqlite3PagerClose
<1>10. CtxInv' /\ SameKeys'
  BY <1>0, <1>2 DEF IInv, CtxInv, SameKeys, Working, ControlInv, sqlite3PagerClose
<1>11. WriteKeyCovers'
  BY <1>0, <1>2 DEF IInv, WriteKeyCovers, WriteKey, Dirty, Cached, Working, ControlInv, sqlite3PagerClose
<1>12. RekeyJournaled' /\ CommitSynced'
  BY <1>0, <1>2 DEF IInv, RekeyJournaled, CommitSynced, ControlInv, Dirty, Cached, sqlite3PagerClose
<1> QED BY <1>1, <1>2, <1>3, <1>4, <1>5, <1>6, <1>7, <1>8, <1>9, <1>10, <1>11, <1>12 DEF IInv

(* The invariant and the recoverable image survive a crash, which leaves   *)
(* any written version of each page.                                       *)
LEMMA CrashInv ==
  ASSUME CarefulApplication, IInv, Crash
  PROVE  IInv' /\ Recovered' = Recovered
<1>0. UNCHANGED <<jsync, told, rekeyTo>>
  BY DEF Crash
<1>c. /\ op' = "closed" /\ cache' = NoPages /\ eState' = "OPEN" /\ ctx' = NoCtx /\ readonly' = FALSE
      /\ caller' = "sql" /\ todo' = {} /\ pgno' = 1 /\ mustClose' = FALSE /\ jpend' = NoRecs
      /\ disk' = [p \in Page |-> {file'[p]}]
  BY DEF Crash
<1>d. \A p \in Page : file'[p] \in disk[p]
  BY DEF Crash
<1>e. /\ file' \in [Page -> SealedPage] /\ disk' \in [Page -> SUBSET SealedPage]
  BY SMT, <1>c, <1>d DEF IInv, TypeOK, Crash
<1>f. \A p \in Page : jsync[p] = NoRec => file'[p] = file[p]
  BY <1>d DEF IInv, ImageInv, PowerLossSafe
<1>g. \A p \in Page : Recovered'[p] = Recovered[p]
  BY <1>0, <1>f DEF Recovered
<1>h. Recovered' = Recovered
  BY <1>g DEF Recovered
<1>i. TheKey' = TheKey /\ TheSalt' = TheSalt
  BY <1>h DEF TheKey, TheSalt
<1>2. ImageInv'
  <2>1. Uniform'
    BY <1>h, <1>i DEF IInv, ImageInv, Uniform, GoodPage
  <2>2. DiskPages'
    BY <1>c, <1>d, <1>i DEF IInv, ImageInv, DiskPages, GoodPage
  <2>3. PowerLossSafe' /\ PendingIsFile'
    BY <1>c DEF PowerLossSafe, PendingIsFile, NoRecs
  <2> QED BY <2>1, <2>2, <2>3 DEF ImageInv
<1>1. TypeOK'
  <2>1. /\ cache' \in [Page -> [val : Value \cup {Zero}, dirty : BOOLEAN] \cup {NoPage}]
        /\ jpend' \in [Page -> SealedPage \cup {NoRec}] /\ pgno' \in 1 .. N + 1
    BY SMT, <1>c, PagesAssumption DEF NoPages, NoRecs
  <2> QED BY <1>0, <1>c, <1>e, <2>1 DEF IInv, TypeOK, States, Ops
<1>3. JournalInv'
  BY <1>0, <1>c DEF JournalInv, NoRecs
<1>4. PlayedBack'
  BY <1>c DEF PlayedBack
<1>5. ControlInv'
  BY <1>c DEF ControlInv
<1>6. CacheInv'
  BY <1>c DEF CacheInv
<1>7. OriginalCached'
  BY <1>c DEF OriginalCached, Working
<1>8. NoZeroCached'
  BY <1>c DEF NoZeroCached, Working
<1>9. DirtyJournaled' /\ SettledInFile'
  BY <1>c DEF DirtyJournaled, SettledInFile
<1>10. CtxInv' /\ SameKeys'
  BY <1>c DEF CtxInv, SameKeys, Working
<1>11. WriteKeyCovers'
  BY <1>c DEF WriteKeyCovers
<1>12. RekeyJournaled' /\ CommitSynced'
  BY <1>0, <1>2 DEF IInv, RekeyJournaled, CommitSynced, ControlInv, Dirty, Cached, Crash
<1> QED BY <1>h, <1>1, <1>2, <1>3, <1>4, <1>5, <1>6, <1>7, <1>8, <1>9, <1>10, <1>11, <1>12 DEF IInv

-----------------------------------------------------------------------------
(* The invariant and the recoverable image survive beginning a write       *)
(* transaction (sqlite3BtreeBeginTrans).                                   *)
LEMMA BeginTransInv ==
  ASSUME CarefulApplication, IInv, sqlite3BtreeBeginTrans
  PROVE  IInv' /\ Recovered' = Recovered
<1>0. UNCHANGED <<file, disk, jsync, jpend, cache, ctx, todo>>
  BY DEF sqlite3BtreeBeginTrans, InUse
<1>2. /\ ImageInv' /\ Recovered' = Recovered /\ TheKey' = TheKey /\ TheSalt' = TheSalt
      /\ HotJournal' = HotJournal /\ Journaled' = Journaled /\ \A q \in Page : InJournal(q)' = InJournal(q)
  BY <1>0, SameImage DEF IInv
<1>1. TypeOK'
  BY <1>0 DEF IInv, TypeOK, States, Ops, sqlite3BtreeBeginTrans, InUse
<1>3. JournalInv'
  BY <1>0, <1>2 DEF IInv, JournalInv, ControlInv, sqlite3BtreeBeginTrans, InUse
<1>4. PlayedBack'
  BY <1>0, <1>2 DEF IInv, PlayedBack, ControlInv, sqlite3BtreeBeginTrans, InUse
<1>5. ControlInv'
  BY <1>0 DEF IInv, ControlInv, sqlite3BtreeBeginTrans, InUse, CarefulApplication
<1>6. CacheInv'
  BY <1>0, <1>2 DEF IInv, JournalInv, ControlInv, CacheInv, Dirty, Cached, NoPages, sqlite3BtreeBeginTrans, InUse
<1>7. OriginalCached'
  BY <1>0, <1>2 DEF IInv, OriginalCached, Original, Working, Cached, ControlInv, sqlite3BtreeBeginTrans, InUse
<1>8. NoZeroCached'
  BY <1>0, <1>2 DEF IInv, NoZeroCached, Working, Cached, NoPages, sqlite3BtreeBeginTrans, InUse
<1>9. DirtyJournaled' /\ SettledInFile'
  BY <1>0, <1>2 DEF IInv, DirtyJournaled, SettledInFile, Settled, Dirty, Cached, Working,
     CacheInv, OriginalCached, Original, JournalInv, ControlInv, Recovered, HotJournal, InJournal, sqlite3BtreeBeginTrans
<1>10. CtxInv' /\ SameKeys'
  BY <1>0, <1>2 DEF IInv, CtxInv, SameKeys, Working, ControlInv, sqlite3BtreeBeginTrans, InUse
<1>11. WriteKeyCovers'
  <2>1. /\ ~HotJournal /\ Cached(1) /\ ~InJournal(1) /\ \A p \in Page : file[p].key = TheKey
    <3>1. op = "read" /\ 1 \in Page /\ JournalInv /\ CacheInv
      BY FileFacts DEF sqlite3BtreeBeginTrans, IInv
    <3>2. ~HotJournal /\ Cached(1) /\ \A p \in Page : ~InJournal(p)
      BY <3>1 DEF JournalInv, CacheInv, HotJournal, InJournal
    <3> QED BY <3>1, <3>2, FileFacts DEF IInv
  <2>2. Working => WriteKey = TheKey
    BY SMT, <2>1, PagesAssumption DEF IInv, OriginalCached, Original, SameKeys, ControlInv, WriteKey, KeyOf, Page,
       InUse, CarefulApplication, sqlite3BtreeBeginTrans
  <2> QED BY <1>0, <1>2, <2>1, <2>2 DEF WriteKeyCovers, WriteKey, Working, sqlite3BtreeBeginTrans
<1>12. RekeyJournaled' /\ CommitSynced'
  BY <1>0, <1>2 DEF IInv, RekeyJournaled, CommitSynced, ControlInv, Dirty, Cached, sqlite3BtreeBeginTrans, InUse
<1> QED BY <1>1, <1>2, <1>3, <1>4, <1>5, <1>6, <1>7, <1>8, <1>9, <1>10, <1>11, <1>12 DEF IInv

(* The invariant and the recoverable image survive sqlite3PagerWrite,      *)
(* which journals the original page first.                                 *)
LEMMA PagerWriteInv ==
  ASSUME CarefulApplication, NEW p \in Page, NEW v \in Value, IInv, sqlite3PagerWrite(p, v)
  PROVE  IInv' /\ Recovered' = Recovered
<1>0. UNCHANGED <<file, disk, jsync, todo, op, caller, pgno>>
  BY DEF sqlite3PagerWrite
<1>w. PICK w \in PageWrite(ctx, cache, p) :
        /\ ctx' = w.ctx /\ jpend' = w.jpend
        /\ cache' = IF w.ok THEN [w.cache EXCEPT ![p].val = v] ELSE w.cache
  BY DEF sqlite3PagerWrite
<1>c. /\ op = "txn" /\ Cached(p) /\ eState # "ERROR" /\ UNCHANGED <<readonly, told, rekeyTo, mustClose>>
      /\ eState' \in {"WRITER_CACHEMOD", "WRITER_DBMOD"}
      /\ eState = "WRITER_DBMOD" => eState' = "WRITER_DBMOD"
  BY DEF sqlite3PagerWrite, OpenJournal, IInv, ControlInv
<1>d. ctx # NoCtx /\ CtxOK(ctx, TheSalt)
  BY <1>c, OpenCtx
<1>e. ~ctx.error /\ ~InJournal(p) => KeyOf(ctx.read_ctx, TheSalt) = TheKey /\ cache[p].val = file[p].val
  BY <1>c, <1>d, FileFacts DEF IInv, OriginalCached, Original, Working, KeyOf
<1>f. /\ KeepsKeys(ctx, ctx', TheSalt)
      /\ w.cache \in [Page -> [val : Value \cup {Zero}, dirty : BOOLEAN] \cup {NoPage}]
      /\ w.cache[p] # NoPage /\ w.cache[p].dirty /\ w.cache[p].val = cache[p].val
      /\ \A q \in Page : q # p => w.cache[q] = cache[q]
      /\ jpend' \in [Page -> SealedPage \cup {NoRec}]
      /\ jpend' = jpend \/ (jsync[p] = NoRec /\ jpend' = [jpend EXCEPT ![p] = file[p]])
      /\ ~ctx'.error => w.ok /\ (InJournal(p) \/ jpend' = [jpend EXCEPT ![p] = file[p]])
  <2>1. cache \in [Page -> [val : Value \cup {Zero}, dirty : BOOLEAN] \cup {NoPage}] /\ cache[p] # NoPage /\ op # "closed"
    BY <1>c DEF IInv, TypeOK, Cached
  <2> QED BY SMT, <1>d, <1>e, <1>w, <2>1, PageWriteStep
<1>g. /\ cache' \in [Page -> [val : Value \cup {Zero}, dirty : BOOLEAN] \cup {NoPage}]
      /\ cache'[p] # NoPage /\ cache'[p].dirty /\ (w.ok => cache'[p].val = v)
      /\ \A q \in Page : q # p => cache'[q] = cache[q]
  BY SMT, <1>f, <1>w, EnvironmentAssumption
<1>h. ctx' # NoCtx /\ ctx' \in codec_ctx
  BY <1>f DEF KeepsKeys, CtxOK
<1>k. Working' => Working
  BY <1>d, <1>f DEF Working, KeepsKeys
<1>i. /\ \A q \in Page : InJournal(q) => InJournal(q)'
      /\ ~ctx'.error => InJournal(p)'
  BY ZenonT(30), <1>0, <1>f, FileFacts, AppendImage DEF IInv, TypeOK, InJournal
<1>2. ImageInv' /\ Recovered' = Recovered /\ TheKey' = TheKey /\ TheSalt' = TheSalt /\ HotJournal' = HotJournal
  BY <1>0, <1>f, AppendImage DEF IInv
<1>1. TypeOK'
  BY <1>0, <1>c, <1>f, <1>g, <1>h DEF IInv, TypeOK, States
<1>3. JournalInv'
  BY <1>0, <1>2, <1>c DEF IInv, JournalInv, ControlInv
<1>4. PlayedBack'
  BY <1>0, <1>c DEF PlayedBack
<1>5. ControlInv'
  BY <1>0, <1>c, <1>d, <1>h DEF IInv, ControlInv
<1>6. CacheInv'
  <2>1. Cached(1)'
    BY <1>c, <1>g, FileFacts DEF IInv, CacheInv, Cached
  <2> QED BY <1>0, <1>c, <2>1 DEF CacheInv
<1>7. OriginalCached'
  <2>1. SUFFICES ASSUME Working', NEW q \in Page, Cached(q)', ~InJournal(q)'
                 PROVE  /\ ~ctx'.read_ctx.derive_key /\ ctx'.read_ctx.key = TheKey
                        /\ cache'[q].val = Recovered[q].val
    BY <1>0, <1>2, <1>c DEF OriginalCached, Original
  <2>2. Working /\ ~ctx'.error /\ q # p /\ ~InJournal(q)
    BY <1>i, <1>k, <2>1 DEF Working
  <2>3. cache'[q] = cache[q] /\ Cached(q)
    BY <1>g, <2>1, <2>2 DEF Cached
  <2>4. ~ctx.read_ctx.derive_key /\ ctx.read_ctx.key = TheKey /\ cache[q].val = Recovered[q].val
    BY <2>2, <2>3 DEF IInv, OriginalCached, Original
  <2> QED BY <1>f, <2>2, <2>3, <2>4 DEF KeepsKeys
<1>8. NoZeroCached'
  <2>1. SUFFICES ASSUME Working', NEW q \in Page, Cached(q)' PROVE cache'[q].val # Zero
    BY DEF NoZeroCached
  <2>2. CASE q = p
    BY <1>f, <1>g, <2>1, <2>2, NoneAssumption DEF Working
  <2>3. CASE q # p
    BY <1>g, <1>k, <2>1, <2>3 DEF IInv, NoZeroCached, Cached
  <2> QED BY <2>2, <2>3
<1>9. DirtyJournaled' /\ SettledInFile'
  BY <1>0, <1>c, <1>g, <1>i, <1>k DEF IInv, DirtyJournaled, SettledInFile, Settled, Dirty, Cached, Working
<1>10. CtxInv' /\ SameKeys'
  <2>1. CtxInv'
    BY <1>0, <1>2, <1>c, <1>f, <1>k DEF IInv, CtxInv, Working, KeepsKeys
  <2>2. SameKeys'
    BY <1>0, <1>c, <1>f, <1>k DEF IInv, SameKeys, Working, KeepsKeys
  <2> QED BY <2>1, <2>2
<1>11. WriteKeyCovers'
  <2>1. Working' => WriteKey' = WriteKey
    BY <1>2, <1>f DEF WriteKey, Working, KeepsKeys
  <2>2. \A q \in Page : Dirty(q) \/ q = p => Dirty(q)'
    BY <1>g DEF Dirty, Cached
  <2> QED BY <1>0, <1>c, <1>k, <2>1, <2>2 DEF IInv, WriteKeyCovers
<1>12. RekeyJournaled' /\ CommitSynced'
  BY <1>0, <1>2 DEF IInv, RekeyJournaled, CommitSynced, ControlInv, Dirty, Cached, sqlite3PagerWrite
<1> QED BY <1>1, <1>2, <1>3, <1>4, <1>5, <1>6, <1>7, <1>8, <1>9, <1>10, <1>11, <1>12 DEF IInv

(* A page spilled by a full cache: the journal is synced first if the page *)
(* needs it.                                                               *)
LEMMA StressInv ==
  ASSUME CarefulApplication, NEW p \in Page, IInv, pagerStress(p)
  PROVE  IInv' /\ Recovered' = Recovered
<1>a. /\ op \in {"txn", "rekey"} /\ Dirty(p) /\ p # 1 /\ eState' = "WRITER_DBMOD"
      /\ eState \in {"WRITER_CACHEMOD", "WRITER_DBMOD"}
      /\ UNCHANGED <<readonly, op, caller, todo, pgno, told, rekeyTo, mustClose>>
      /\ cache[p].val \in Value \cup {Zero}
  BY DEF pagerStress, MaySpill, IInv, Dirty, Cached, TypeOK
<1>b. /\ ctx # NoCtx /\ CtxOK(ctx, TheSalt) /\ file[1].hdr = TheSalt /\ TheSalt \in Salt /\ 1 \in Page
  BY <1>a, OpenCtx, FileFacts DEF IInv
<1>r. PICK r \in codec_write(ctx, TheSalt, p, cache[p].val) :
        /\ ctx' = r.ctx
        /\ IF r.out = Null THEN UNCHANGED <<file, disk, cache>>
           ELSE WriteFile(p, r.out) /\ cache' = [cache EXCEPT ![p].dirty = FALSE]
  BY <1>b DEF pagerStress
<1>j. \/ jsync' = SyncedJournal(jpend) /\ jpend' = NoRecs
      \/ UNCHANGED <<jsync, jpend>> /\ jpend[p] = NoRec
  BY DEF pagerStress, NeedsSync
<1>c. /\ CodecStep(ctx, ctx', TheSalt)
      /\ r.out = Null <=> ctx'.error
      /\ ~ctx'.error => /\ r.out \in SealedPage
                        /\ r.out = [key |-> WriteKey, val |-> cache[p].val,
                                    hdr |-> IF p = 1 THEN TheSalt ELSE NoSalt]
  BY SMT, <1>a, <1>b, <1>r, WriteStep DEF CarefulApplication, WriteKey
<1>d. KeepsKeys(ctx, ctx', TheSalt)
  BY <1>b, <1>c, CodecKeepsKeys
<1>k. ctx' # NoCtx /\ ctx' \in codec_ctx /\ CtxOK(ctx', TheSalt) /\ (Working' => Working)
  BY <1>b, <1>d DEF Working, KeepsKeys, CtxOK
<1>e. /\ \A q \in Page : /\ jsync'[q] \in {jsync[q], jpend[q]}
                         /\ jsync[q] # NoRec => jsync'[q] = jsync[q]
                         /\ jsync'[q] # NoRec => InJournal(q) /\ jsync'[q] = Recovered[q]
                         /\ jpend'[q] # NoRec => jpend'[q] = jpend[q] /\ jsync'[q] = jsync[q]
                         /\ InJournal(q) => InJournal(q)'
      /\ InJournal(p) => jsync'[p] # NoRec
      /\ jsync' \in [Page -> SealedPage \cup {NoRec}]
      /\ jpend' \in [Page -> SealedPage \cup {NoRec}]
  BY <1>j DEF IInv, TypeOK, ImageInv, PendingIsFile, SyncedJournal, NoRecs, InJournal, Recovered
<1>f. /\ Working' => jsync'[p] # NoRec /\ cache[p].val # Zero
  BY <1>a, <1>e, <1>k DEF IInv, DirtyJournaled, NoZeroCached, Dirty
<1>g. /\ ~ctx'.error => /\ file' = [file EXCEPT ![p] = r.out] /\ disk' = [disk EXCEPT ![p] = @ \cup {r.out}]
                        /\ cache' = [cache EXCEPT ![p].dirty = FALSE]
                        /\ GoodPage(p, r.out) /\ r.out \in SealedPage /\ jsync'[p] # NoRec
                        /\ r.out.key = WriteKey /\ r.out.val = cache[p].val
      /\ ctx'.error => UNCHANGED <<file, disk, cache>>
  BY SMT, <1>c, <1>f, <1>k, <1>r DEF GoodPage, WriteFile, Working
<1>h. /\ file' \in [Page -> SealedPage] /\ disk' \in [Page -> SUBSET SealedPage]
      /\ cache' \in [Page -> [val : Value \cup {Zero}, dirty : BOOLEAN] \cup {NoPage}]
      /\ \A q \in Page : /\ cache'[q] = NoPage <=> cache[q] = NoPage
                         /\ cache'[q] # NoPage => cache'[q].val = cache[q].val
                         /\ q # p => cache'[q] = cache[q] /\ file'[q] = file[q] /\ disk'[q] = disk[q]
      /\ ~ctx'.error => /\ file'[p] = r.out /\ disk'[p] = disk[p] \cup {r.out} /\ ~cache'[p].dirty
  <2>1. CASE ctx'.error
    BY <1>g, <2>1 DEF IInv, TypeOK
  <2>2. CASE ~ctx'.error
    <3>1. cache \in [Page -> [val : Value \cup {Zero}, dirty : BOOLEAN] \cup {NoPage}] /\ cache[p] # NoPage
      BY <1>a DEF IInv, TypeOK, Dirty, Cached
    <3>2. /\ cache' \in [Page -> [val : Value \cup {Zero}, dirty : BOOLEAN] \cup {NoPage}]
          /\ ~cache'[p].dirty /\ cache'[p].val = cache[p].val /\ cache'[p] # NoPage
          /\ \A q \in Page : q # p => cache'[q] = cache[q]
      <4>1. cache' = [cache EXCEPT ![p].dirty = FALSE]
        BY <1>g, <2>2
      <4> QED BY <3>1, <4>1, EnvironmentAssumption
    <3>3. /\ file' \in [Page -> SealedPage] /\ disk' \in [Page -> SUBSET SealedPage]
          /\ file'[p] = r.out /\ disk'[p] = disk[p] \cup {r.out}
          /\ \A q \in Page : q # p => file'[q] = file[q] /\ disk'[q] = disk[q]
      BY SMT, <1>g, <2>2 DEF IInv, TypeOK
    <3> QED BY <2>2, <3>1, <3>2, <3>3
  <2> QED BY <2>1, <2>2
<1>i. Recovered' = Recovered
  <2>1. \A q \in Page : Recovered'[q] = Recovered[q]
    BY <1>e, <1>g, <1>h DEF Recovered
  <2> QED BY <2>1 DEF Recovered
<1>l. TheKey' = TheKey /\ TheSalt' = TheSalt
  BY <1>i DEF TheKey, TheSalt
<1>2. ImageInv'
  <2>1. Uniform'
    BY <1>i, <1>l DEF IInv, ImageInv, Uniform, GoodPage
  <2>2. DiskPages' /\ PowerLossSafe' /\ PendingIsFile'
    <3>1. CASE ctx'.error
      BY SMT, <1>e, <1>g, <1>l, <3>1 DEF IInv, ImageInv, DiskPages, PowerLossSafe, PendingIsFile, GoodPage
    <3>2. CASE ~ctx'.error
      <4>1. DiskPages'
        BY SMT, <1>g, <1>h, <1>l, <3>2 DEF IInv, ImageInv, DiskPages, GoodPage
      <4>2. PowerLossSafe' /\ PendingIsFile'
        BY SMT, <1>e, <1>g, <1>h, <3>2 DEF IInv, ImageInv, PowerLossSafe, PendingIsFile
      <4> QED BY <4>1, <4>2
    <3> QED BY <3>1, <3>2
  <2> QED BY <2>1, <2>2 DEF ImageInv
<1>1. TypeOK'
  BY <1>a, <1>e, <1>h, <1>k DEF IInv, TypeOK, States
<1>3. JournalInv' /\ PlayedBack'
  BY <1>a DEF JournalInv, PlayedBack
<1>5. ControlInv'
  BY <1>a, <1>b, <1>k DEF IInv, ControlInv
<1>6. CacheInv'
  BY <1>a, <1>b, <1>h DEF IInv, CacheInv, Cached
<1>7. OriginalCached'
  <2>1. SUFFICES ASSUME Working', NEW q \in Page, Cached(q)', ~InJournal(q)'
                 PROVE  /\ ~ctx'.read_ctx.derive_key /\ ctx'.read_ctx.key = TheKey
                        /\ cache'[q].val = Recovered[q].val
    BY <1>a, <1>i, <1>l DEF OriginalCached, Original
  <2>2. Working /\ ~ctx'.error /\ ~InJournal(q) /\ Cached(q) /\ cache'[q].val = cache[q].val
    BY <1>e, <1>h, <1>k, <2>1 DEF Working, Cached
  <2>3. ~ctx.read_ctx.derive_key /\ ctx.read_ctx.key = TheKey /\ cache[q].val = Recovered[q].val
    BY <2>2 DEF IInv, OriginalCached, Original
  <2> QED BY <1>d, <2>2, <2>3 DEF KeepsKeys
<1>8. NoZeroCached'
  BY <1>h, <1>k DEF IInv, NoZeroCached, Cached
<1>9. DirtyJournaled' /\ SettledInFile'
  BY SMT, <1>a, <1>e, <1>g, <1>h, <1>k DEF IInv, DirtyJournaled, SettledInFile, Settled, Dirty, Cached, Working
<1>10. CtxInv' /\ SameKeys'
  BY <1>a, <1>d, <1>k, <1>l DEF IInv, CtxInv, SameKeys, Working, KeepsKeys
<1>11. WriteKeyCovers'
  <2>1. Working' => WriteKey' = WriteKey
    BY <1>d, <1>l DEF WriteKey, Working, KeepsKeys
  <2> QED BY SMT, <1>a, <1>g, <1>h, <1>k, <2>1 DEF IInv, WriteKeyCovers, Dirty, Cached, Working
<1>12. RekeyJournaled' /\ CommitSynced'
  BY <1>a, <1>e DEF IInv, RekeyJournaled, CommitSynced
<1> QED BY <1>i, <1>1, <1>2, <1>3, <1>5, <1>6, <1>7, <1>8, <1>9, <1>10, <1>11, <1>12 DEF IInv

(* The invariant and the recoverable image survive an I/O error in         *)
(* pagerStress, which stops the pager.                                     *)
LEMMA StressIOErrorInv ==
  ASSUME CarefulApplication, NEW p \in Page, IInv, pagerStressIOError(p)
  PROVE  IInv' /\ Recovered' = Recovered
<1>0. UNCHANGED <<file, disk, jsync, jpend, cache, ctx, todo>>
  BY DEF pagerStressIOError, MaySpill
<1>2. /\ ImageInv' /\ Recovered' = Recovered /\ TheKey' = TheKey /\ TheSalt' = TheSalt
      /\ HotJournal' = HotJournal /\ Journaled' = Journaled /\ \A q \in Page : InJournal(q)' = InJournal(q)
  BY <1>0, SameImage DEF IInv
<1>1. TypeOK'
  BY <1>0 DEF IInv, TypeOK, States, Ops, pagerStressIOError, MaySpill
<1>3. JournalInv'
  BY <1>0, <1>2 DEF IInv, JournalInv, ControlInv, pagerStressIOError, MaySpill
<1>4. PlayedBack'
  BY <1>0, <1>2 DEF IInv, PlayedBack, ControlInv, pagerStressIOError, MaySpill
<1>5. ControlInv'
  BY <1>0, <1>2 DEF IInv, TypeOK, ControlInv, pagerStressIOError, MaySpill
<1>6. CacheInv'
  BY <1>0, <1>2 DEF IInv, JournalInv, ControlInv, CacheInv, Dirty, Cached, NoPages, pagerStressIOError, MaySpill
<1>7. OriginalCached'
  BY <1>0, <1>2 DEF IInv, OriginalCached, Original, Working, Cached, ControlInv, pagerStressIOError, MaySpill
<1>8. NoZeroCached'
  BY <1>0, <1>2 DEF IInv, NoZeroCached, Working, Cached, NoPages, pagerStressIOError, MaySpill
<1>9. DirtyJournaled' /\ SettledInFile'
  BY <1>0, <1>2 DEF IInv, DirtyJournaled, SettledInFile, Settled, Dirty, Cached, Working, CacheInv, pagerStressIOError, MaySpill
<1>10. CtxInv' /\ SameKeys'
  BY <1>0, <1>2 DEF IInv, CtxInv, SameKeys, Working, ControlInv, pagerStressIOError, MaySpill
<1>11. WriteKeyCovers'
  BY <1>0, <1>2 DEF IInv, WriteKeyCovers, WriteKey, Dirty, Cached, Working, ControlInv, pagerStressIOError, MaySpill
<1>12. RekeyJournaled' /\ CommitSynced'
  BY <1>0, <1>2 DEF IInv, RekeyJournaled, CommitSynced, ControlInv, Dirty, Cached, pagerStressIOError, MaySpill
<1> QED BY <1>1, <1>2, <1>3, <1>4, <1>5, <1>6, <1>7, <1>8, <1>9, <1>10, <1>11, <1>12 DEF IInv

(* The invariant and the recoverable image survive committing a            *)
(* transaction that wrote nothing.                                         *)
LEMMA CommitNothingInv ==
  ASSUME CarefulApplication, IInv, CommitNothing
  PROVE  IInv' /\ Recovered' = Recovered
<1>0. UNCHANGED <<file, disk, jsync, jpend, cache, ctx, todo>>
  BY DEF CommitNothing, InUse
<1>2. /\ ImageInv' /\ Recovered' = Recovered /\ TheKey' = TheKey /\ TheSalt' = TheSalt
      /\ HotJournal' = HotJournal /\ Journaled' = Journaled /\ \A q \in Page : InJournal(q)' = InJournal(q)
  BY <1>0, SameImage DEF IInv
<1>1. TypeOK'
  BY <1>0 DEF IInv, TypeOK, States, Ops, CommitNothing, InUse
<1>3. JournalInv'
  BY <1>0, <1>2 DEF IInv, JournalInv, ControlInv, CommitNothing, InUse
<1>4. PlayedBack'
  BY <1>0, <1>2 DEF IInv, PlayedBack, ControlInv, CommitNothing, InUse
<1>5. ControlInv'
  BY <1>0, <1>2 DEF IInv, TypeOK, ControlInv, CommitNothing, InUse
<1>6. CacheInv'
  BY <1>0, <1>2 DEF IInv, JournalInv, ControlInv, CacheInv, Dirty, Cached, NoPages, CommitNothing, InUse
<1>7. OriginalCached'
  BY <1>0, <1>2 DEF IInv, OriginalCached, Original, Working, Cached, ControlInv, CommitNothing, InUse
<1>8. NoZeroCached'
  BY <1>0, <1>2 DEF IInv, NoZeroCached, Working, Cached, NoPages, CommitNothing, InUse
<1>9. DirtyJournaled' /\ SettledInFile'
  BY <1>0, <1>2 DEF IInv, DirtyJournaled, SettledInFile, Settled, Dirty, Cached, Working, CacheInv, CommitNothing, InUse
<1>10. CtxInv' /\ SameKeys'
  BY <1>0, <1>2 DEF IInv, CtxInv, SameKeys, Working, ControlInv, CommitNothing, InUse
<1>11. WriteKeyCovers'
  BY <1>0, <1>2 DEF IInv, WriteKeyCovers, WriteKey, Dirty, Cached, Working, ControlInv, CommitNothing, InUse
<1>12. RekeyJournaled' /\ CommitSynced'
  BY <1>0, <1>2 DEF IInv, RekeyJournaled, CommitSynced, ControlInv, Dirty, Cached, CommitNothing, InUse
<1> QED BY <1>1, <1>2, <1>3, <1>4, <1>5, <1>6, <1>7, <1>8, <1>9, <1>10, <1>11, <1>12 DEF IInv

(* The invariant and the recoverable image survive the start of            *)
(* sqlite3PagerRollback.                                                   *)
LEMMA PagerRollbackInv ==
  ASSUME CarefulApplication, IInv, sqlite3PagerRollback
  PROVE  IInv' /\ Recovered' = Recovered
<1>0. UNCHANGED <<file, disk, jsync, jpend, cache, ctx, eState>>
  BY DEF sqlite3PagerRollback
<1>2. /\ ImageInv' /\ Recovered' = Recovered /\ TheKey' = TheKey /\ TheSalt' = TheSalt
      /\ HotJournal' = HotJournal /\ Journaled' = Journaled /\ \A q \in Page : InJournal(q)' = InJournal(q)
  BY <1>0, SameImage DEF IInv
<1>1. TypeOK'
  BY <1>0 DEF IInv, TypeOK, Ops, sqlite3PagerRollback, Journaled
<1>3. JournalInv'
  BY <1>0, <1>2 DEF IInv, JournalInv, ControlInv, sqlite3PagerRollback
<1>4. PlayedBack'
  BY <1>0, <1>2 DEF PlayedBack, sqlite3PagerRollback, Journaled, InJournal
<1>5. ControlInv'
  BY <1>0, <1>2 DEF IInv, TypeOK, ControlInv, sqlite3PagerRollback
<1>6. CacheInv'
  BY <1>0, <1>2 DEF IInv, JournalInv, ControlInv, CacheInv, Dirty, Cached, NoPages, sqlite3PagerRollback
<1>7. OriginalCached'
  BY <1>0, <1>2 DEF IInv, OriginalCached, Original, Working, Cached, sqlite3PagerRollback, Journaled
<1>8. NoZeroCached'
  BY <1>0, <1>2 DEF IInv, NoZeroCached, Working, Cached, NoPages, sqlite3PagerRollback
<1>9. DirtyJournaled' /\ SettledInFile'
  BY <1>0, <1>2 DEF IInv, DirtyJournaled, SettledInFile, Settled, Dirty, Cached, Working, CacheInv, sqlite3PagerRollback
<1>10. CtxInv' /\ SameKeys'
  BY <1>0, <1>2 DEF IInv, CtxInv, SameKeys, Working, ControlInv, sqlite3PagerRollback
<1>11. WriteKeyCovers'
  BY <1>0, <1>2 DEF IInv, WriteKeyCovers, WriteKey, Dirty, Cached, Working, ControlInv, sqlite3PagerRollback
<1>12. RekeyJournaled' /\ CommitSynced'
  BY <1>0, <1>2 DEF IInv, RekeyJournaled, CommitSynced, ControlInv, Dirty, Cached, sqlite3PagerRollback
<1> QED BY <1>1, <1>2, <1>3, <1>4, <1>5, <1>6, <1>7, <1>8, <1>9, <1>10, <1>11, <1>12 DEF IInv

(* The invariant and the recoverable image survive playing back one page   *)
(* of the own journal.                                                     *)
LEMMA RollbackPageInv ==
  ASSUME CarefulApplication, NEW p \in Page, IInv, RollbackPage(p)
  PROVE  IInv' /\ Recovered' = Recovered
<1>0. UNCHANGED <<jsync, jpend, eState, op, caller>>
  BY DEF RollbackPage
<1> DEFINE rec == IF jsync[p] # NoRec THEN jsync[p] ELSE jpend[p]
           writes == jsync[p] # NoRec /\ eState = "WRITER_DBMOD"
<1>c. /\ op = "rollback" /\ p \in todo /\ eState # "ERROR" /\ InJournal(p)
      /\ eState # "WRITER_LOCKED" /\ UNCHANGED <<readonly, pgno, told, rekeyTo, mustClose>>
  BY DEF RollbackPage, IInv, JournalInv, Journaled, InJournal, HotJournal
<1>d. rec = Recovered[p] /\ rec \in SealedPage /\ GoodPage(p, rec) /\ rec.key = TheKey
  BY <1>c, FileFacts DEF IInv, Recovered, InJournal
<1>e. ctx # NoCtx /\ CtxOK(ctx, TheSalt) /\ file[1].hdr = TheSalt /\ TheSalt \in Salt
      /\ rec.val \in Value /\ KeepsKeys(ctx, ctx, TheSalt)
  BY <1>c, <1>d, OpenCtx, FileFacts DEF IInv, GoodPage, SealedPage
<1>f. IF writes THEN WriteFile(p, rec) ELSE UNCHANGED fileVars
  BY DEF RollbackPage
<1>g. /\ file' \in [Page -> SealedPage] /\ disk' \in [Page -> SUBSET SealedPage]
      /\ (writes => file'[p] = rec) /\ \A q \in Page : file'[q] = file[q] \/ (q = p /\ writes)
  BY <1>0, <1>d, <1>f, WriteImage DEF IInv, TypeOK
<1>h. /\ KeepsKeys(ctx, ctx', TheSalt)
      /\ cache' \in [Page -> [val : Value \cup {Zero}, dirty : BOOLEAN] \cup {NoPage}]
      /\ todo' = Journaled \/ todo' = todo \ {p}
      /\ \A q \in Page : (cache'[q] = NoPage <=> cache[q] = NoPage) /\ (q # p => cache'[q] = cache[q])
      /\ Cached(p) /\ ~ctx'.error =>
           /\ cache'[p].val = rec.val /\ ~ctx'.read_ctx.derive_key /\ ctx'.read_ctx.key = TheKey
           /\ todo' = todo \ {p}
  <2>1. CASE ~Cached(p)
    BY <1>e, <2>1 DEF RollbackPage, IInv, TypeOK
  <2>2. CASE Cached(p)
    <3>1. PICK r \in codec_read(ctx, TheSalt, rec) :
            /\ ctx' = r.ctx
            /\ IF r.out = Null THEN todo' = Journaled /\ UNCHANGED cache
               ELSE todo' = todo \ {p} /\ cache' = [cache EXCEPT ![p].val = r.out]
      BY <1>e, <2>2 DEF RollbackPage
    <3>2. /\ CodecStep(ctx, r.ctx, TheSalt)
          /\ r.ctx.error => r.out \in {Zero, Null}
          /\ ~r.ctx.error => r.out = rec.val /\ rec.key = KeyOf(ctx.read_ctx, TheSalt)
      BY SMT, <1>e, ReadStep DEF CarefulApplication
    <3>3. KeepsKeys(ctx, r.ctx, TheSalt)
      BY <1>e, <3>2, CodecKeepsKeys
    <3>4. ~r.ctx.error => ~r.ctx.read_ctx.derive_key /\ r.ctx.read_ctx.key = TheKey
      BY <1>d, <3>2 DEF CodecStep
    <3>5. (r.out # Null => r.out \in Value \cup {Zero}) /\ (~r.ctx.error => r.out # Null)
      BY <1>e, <3>2, NoneAssumption
    <3>6. /\ cache' \in [Page -> [val : Value \cup {Zero}, dirty : BOOLEAN] \cup {NoPage}]
          /\ \A q \in Page : (cache'[q] = NoPage <=> cache[q] = NoPage) /\ (q # p => cache'[q] = cache[q])
          /\ r.out # Null => cache'[p].val = r.out
      BY SMT, <2>2, <3>1, <3>5, EnvironmentAssumption DEF IInv, TypeOK, Cached
    <3> HIDE DEF rec
    <3> QED BY <3>1, <3>2, <3>3, <3>4, <3>5, <3>6
  <2> QED BY <2>1, <2>2
<1>i. ctx' # NoCtx /\ ctx' \in codec_ctx /\ todo' \subseteq Journaled /\ todo' \subseteq Page
  BY <1>c, <1>h DEF KeepsKeys, CtxOK, IInv, JournalInv, TypeOK, Journaled
<1> HIDE DEF rec, writes
<1>2. /\ ImageInv' /\ Recovered' = Recovered /\ TheKey' = TheKey /\ TheSalt' = TheSalt
      /\ HotJournal' = HotJournal /\ Journaled' = Journaled /\ \A q \in Page : InJournal(q)' = InJournal(q)
  <2>1. CASE writes
    BY <1>0, <1>d, <1>f, <2>1, WriteImage DEF IInv, writes
  <2>2. CASE ~writes
    BY <1>0, <1>f, <2>2, SameImage DEF IInv
  <2> QED BY <2>1, <2>2
<1>1. TypeOK'
  BY <1>0, <1>c, <1>g, <1>h, <1>i DEF IInv, TypeOK
<1>3. JournalInv'
  BY <1>0, <1>2, <1>i DEF IInv, JournalInv
<1>4. PlayedBack'
  <2>1. \A q \in Page : jsync[q] # NoRec /\ q \notin todo' /\ eState = "WRITER_DBMOD" => file'[q] = jsync[q]
    BY <1>0, <1>c, <1>g, <1>h DEF IInv, PlayedBack, Journaled, InJournal, rec, writes
  <2> QED BY <1>0, <1>c, <2>1 DEF PlayedBack
<1>5. ControlInv'
  BY <1>0, <1>c, <1>e, <1>i DEF IInv, ControlInv
<1>6. CacheInv'
  BY <1>0, <1>2, <1>c, <1>h, FileFacts DEF IInv, CacheInv, ControlInv, Dirty, Cached
<1>7. OriginalCached'
  BY <1>0, <1>2, <1>c, <1>d, <1>e, <1>h DEF IInv, OriginalCached, Original, Working, Cached, KeepsKeys, Journaled
<1>8. NoZeroCached'
  BY <1>0, <1>c, <1>d, <1>e, <1>h DEF IInv, NoZeroCached, Working, Cached, KeepsKeys, GoodPage
<1>9. DirtyJournaled' /\ SettledInFile'
  BY <1>0, <1>c DEF DirtyJournaled, SettledInFile
<1>10. CtxInv' /\ SameKeys'
  BY <1>0, <1>2, <1>c, <1>e, <1>h, <1>i DEF IInv, CtxInv, SameKeys, Working, KeepsKeys
<1>11. WriteKeyCovers'
  BY <1>0, <1>c DEF WriteKeyCovers
<1>12. RekeyJournaled' /\ CommitSynced'
  BY <1>0, <1>2 DEF IInv, RekeyJournaled, CommitSynced, ControlInv, Dirty, Cached, RollbackPage
<1> QED BY <1>1, <1>2, <1>3, <1>4, <1>5, <1>6, <1>7, <1>8, <1>9, <1>10, <1>11, <1>12 DEF IInv

(* The invariant and the recoverable image survive the end of a rollback.  *)
LEMMA RollbackEndInv ==
  ASSUME CarefulApplication, IInv, RollbackEnd
  PROVE  IInv' /\ Recovered' = Recovered
<1>0. UNCHANGED <<file, ctx, todo>>
  BY DEF RollbackEnd
<1>c. /\ op = "rollback" /\ todo = {} /\ eState # "ERROR" /\ UNCHANGED <<readonly, pgno>>
      /\ op' = "idle" /\ eState' = "OPEN" /\ caller' = "sql" /\ ~mustClose
      /\ (caller = "rekey" => mustClose') /\ (caller = "sql" => ~mustClose')
      /\ told' \in Pass /\ rekeyTo' \in Pass \cup {NoPass} /\ mustClose' \in BOOLEAN
  BY DEF RollbackEnd, RollbackReturns, RekeyReturnsError, IInv, TypeOK, ControlInv
<1>d. /\ cache' \in [Page -> [val : Value \cup {Zero}, dirty : BOOLEAN] \cup {NoPage}]
      /\ \A q \in Page : cache'[q] = NoPage <=> cache[q] = NoPage
      /\ \A q \in Page : cache'[q] # NoPage => cache'[q].val = cache[q].val /\ ~cache'[q].dirty
  BY CleanAllFacts DEF RollbackEnd, IInv
<1>e. /\ \A p \in Page : file[p] = Recovered[p]
      /\ eState # "WRITER_DBMOD" => ~HotJournal
  BY <1>c DEF IInv, PlayedBack, Recovered, JournalInv, ControlInv, HotJournal
<1>f. disk' = [p \in Page |-> {file[p]}] \/ (disk' = disk /\ ~HotJournal)
  BY <1>e DEF RollbackEnd, SyncFile
<1>2. /\ ImageInv' /\ Recovered' = Recovered /\ TheKey' = TheKey /\ TheSalt' = TheSalt
      /\ ~HotJournal' /\ (\A q \in Page : ~InJournal(q)') /\ disk' \in [Page -> SUBSET SealedPage]
      /\ jsync' \in [Page -> SealedPage \cup {NoRec}] /\ jpend' \in [Page -> SealedPage \cup {NoRec}]
  BY <1>0, <1>e, <1>f, CleanImage DEF IInv, RollbackEnd
<1>1. TypeOK'
  BY <1>0, <1>2, <1>c, <1>d DEF IInv, TypeOK, States, Ops
<1>3. JournalInv'
  BY <1>0, <1>2, <1>c DEF JournalInv, InJournal
<1>4. PlayedBack'
  BY <1>c DEF PlayedBack
<1>5. ControlInv'
  BY <1>0, <1>c DEF IInv, ControlInv
<1>6. CacheInv'
  BY <1>0, <1>2, <1>c, <1>d DEF IInv, CacheInv, Dirty, Cached
<1>7. OriginalCached'
  BY <1>0, <1>2, <1>c, <1>d DEF IInv, OriginalCached, Original, Working, Cached
<1>8. NoZeroCached'
  BY <1>0, <1>d DEF IInv, NoZeroCached, Working, Cached
<1>9. DirtyJournaled' /\ SettledInFile'
  BY <1>c DEF DirtyJournaled, SettledInFile
<1>10. CtxInv' /\ SameKeys'
  BY <1>0, <1>2, <1>c DEF IInv, TypeOK, CtxInv, SameKeys, Working
<1>11. WriteKeyCovers'
  BY <1>c DEF WriteKeyCovers
<1>12. RekeyJournaled' /\ CommitSynced'
  BY <1>c DEF RekeyJournaled, CommitSynced
<1> QED BY <1>1, <1>2, <1>3, <1>4, <1>5, <1>6, <1>7, <1>8, <1>9, <1>10, <1>11, <1>12 DEF IInv

(* The invariant and the recoverable image survive an I/O error in the     *)
(* playback of a rollback.                                                 *)
LEMMA RollbackIOErrorInv ==
  ASSUME CarefulApplication, IInv, RollbackIOError
  PROVE  IInv' /\ Recovered' = Recovered
<1>0. UNCHANGED <<file, disk, jsync, jpend, cache, ctx, todo>>
  BY DEF RollbackIOError
<1>2. /\ ImageInv' /\ Recovered' = Recovered /\ TheKey' = TheKey /\ TheSalt' = TheSalt
      /\ HotJournal' = HotJournal /\ Journaled' = Journaled /\ \A q \in Page : InJournal(q)' = InJournal(q)
  BY <1>0, SameImage DEF IInv
<1>1. TypeOK'
  BY <1>0 DEF IInv, TypeOK, States, Ops, RollbackIOError
<1>3. JournalInv'
  BY <1>0, <1>2 DEF IInv, JournalInv, ControlInv, RollbackIOError
<1>4. PlayedBack'
  BY <1>0, <1>2 DEF IInv, PlayedBack, ControlInv, RollbackIOError
<1>5. ControlInv'
  BY <1>0, <1>2 DEF IInv, TypeOK, ControlInv, RollbackIOError
<1>6. CacheInv'
  BY <1>0, <1>2 DEF IInv, JournalInv, ControlInv, CacheInv, Dirty, Cached, NoPages, RollbackIOError
<1>7. OriginalCached'
  BY <1>0, <1>2 DEF IInv, OriginalCached, Original, Working, Cached, ControlInv, RollbackIOError
<1>8. NoZeroCached'
  BY <1>0, <1>2 DEF IInv, NoZeroCached, Working, Cached, NoPages, RollbackIOError
<1>9. DirtyJournaled' /\ SettledInFile'
  BY <1>0, <1>2 DEF IInv, DirtyJournaled, SettledInFile, Settled, Dirty, Cached, Working, CacheInv, RollbackIOError
<1>10. CtxInv' /\ SameKeys'
  BY <1>0, <1>2 DEF IInv, CtxInv, SameKeys, Working, ControlInv, RollbackIOError
<1>11. WriteKeyCovers'
  BY <1>0, <1>2 DEF IInv, WriteKeyCovers, WriteKey, Dirty, Cached, Working, ControlInv, RollbackIOError
<1>12. RekeyJournaled' /\ CommitSynced'
  BY <1>0, <1>2 DEF IInv, RekeyJournaled, CommitSynced, ControlInv, Dirty, Cached, RollbackIOError
<1> QED BY <1>1, <1>2, <1>3, <1>4, <1>5, <1>6, <1>7, <1>8, <1>9, <1>10, <1>11, <1>12 DEF IInv

(* The invariant and the recoverable image survive giving up a stopped     *)
(* pager.                                                                  *)
LEMMA RollbackStoppedInv ==
  ASSUME CarefulApplication, IInv, RollbackStopped
  PROVE  IInv' /\ Recovered' = Recovered
<1>0. UNCHANGED <<file, disk, jsync, ctx>>
  BY DEF RollbackStopped
<1>c. /\ op = "rollback" /\ todo' = {} /\ cache' = NoPages /\ jpend' = NoRecs /\ UNCHANGED <<readonly, pgno>>
      /\ op' = "idle" /\ eState' = "OPEN" /\ caller' = "sql" /\ ~mustClose
      /\ (caller = "rekey" => mustClose') /\ (caller = "sql" => ~mustClose')
      /\ told' \in Pass /\ rekeyTo' \in Pass \cup {NoPass} /\ mustClose' \in BOOLEAN
  BY DEF RollbackStopped, RollbackReturns, RekeyReturnsError, IInv, TypeOK, ControlInv
<1>2. /\ ImageInv' /\ Recovered' = Recovered /\ TheKey' = TheKey /\ TheSalt' = TheSalt
  <2>1. Recovered' = Recovered /\ TheKey' = TheKey /\ TheSalt' = TheSalt
    BY <1>0 DEF Recovered, TheKey, TheSalt
  <2> QED BY <1>0, <1>c, <2>1 DEF IInv, ImageInv, Uniform, DiskPages, PowerLossSafe, PendingIsFile, GoodPage, NoRecs
<1>1. TypeOK'
  <2>1. /\ cache' \in [Page -> [val : Value \cup {Zero}, dirty : BOOLEAN] \cup {NoPage}]
        /\ jpend' \in [Page -> SealedPage \cup {NoRec}]
    BY <1>c DEF NoPages, NoRecs
  <2> QED BY <1>0, <1>c, <2>1 DEF IInv, TypeOK, States, Ops
<1>3. JournalInv'
  BY <1>0, <1>c DEF JournalInv, NoRecs
<1>4. PlayedBack'
  BY <1>c DEF PlayedBack
<1>5. ControlInv'
  BY <1>0, <1>c DEF IInv, ControlInv
<1>6. CacheInv'
  BY <1>c DEF CacheInv, Dirty, Cached, NoPages
<1>7. OriginalCached'
  BY <1>c DEF OriginalCached, Cached, NoPages
<1>8. NoZeroCached'
  BY <1>c DEF NoZeroCached, Cached, NoPages
<1>9. DirtyJournaled' /\ SettledInFile'
  BY <1>c DEF DirtyJournaled, SettledInFile
<1>10. CtxInv' /\ SameKeys'
  BY <1>0, <1>2, <1>c DEF IInv, TypeOK, CtxInv, SameKeys, Working
<1>11. WriteKeyCovers'
  BY <1>c DEF WriteKeyCovers
<1>12. RekeyJournaled' /\ CommitSynced'
  BY <1>c DEF RekeyJournaled, CommitSynced
<1> QED BY <1>1, <1>2, <1>3, <1>4, <1>5, <1>6, <1>7, <1>8, <1>9, <1>10, <1>11, <1>12 DEF IInv

(* The invariant and the recoverable image survive the call of             *)
(* sqlite3_rekey_v2.                                                       *)
LEMMA RekeyInv ==
  ASSUME CarefulApplication, NEW k \in Pass, IInv, sqlite3_rekey_v2(k)
  PROVE  IInv' /\ Recovered' = Recovered
<1>0. UNCHANGED <<file, disk, jsync, jpend, eState>>
  BY DEF sqlite3_rekey_v2, SharedLock
<1>c. /\ ctx # NoCtx /\ CtxOK(ctx', TheSalt) /\ ctx' \in codec_ctx /\ ctx' # NoCtx /\ ctx'.error = ctx.error
      /\ ctx'.read_ctx = ctx.read_ctx /\ ctx'.kdf_salt = ctx.kdf_salt
  <2>1. ctx # NoCtx /\ CtxOK(ctx, TheSalt) /\ TheSalt \in Salt
    BY OpenCtx, FileFacts DEF IInv, sqlite3_rekey_v2
  <2>2. ctx' = set_write_pass(ctx, k)
    BY DEF sqlite3_rekey_v2
  <2> QED BY SMT, <2>1, <2>2, SetWritePassStep, EnvironmentAssumption DEF CtxOK
<1>d. caller' = "rekey" /\ pgno' = 1 /\ rekeyTo' = k /\ ~mustClose' /\ ~mustClose /\ caller = "sql"
  BY DEF sqlite3_rekey_v2, InUse, CarefulApplication, IInv, TypeOK
<1>e. \/ op' = op /\ op \in {"idle", "read"} /\ UNCHANGED <<todo, cache>>
      \/ op = "txn" /\ op' = "rekey" /\ UNCHANGED <<todo, cache>>
      \/ op = "idle" /\ op' = "recover" /\ HotJournal /\ todo' = Journaled /\ cache' = NoPages
      \/ op = "idle" /\ op' = "lock" /\ ~HotJournal /\ todo' = {} /\ cache' = cache
  BY DEF sqlite3_rekey_v2, SharedLock
<1>2. /\ ImageInv' /\ Recovered' = Recovered /\ TheKey' = TheKey /\ TheSalt' = TheSalt
      /\ HotJournal' = HotJournal /\ Journaled' = Journaled /\ \A q \in Page : InJournal(q)' = InJournal(q)
  BY <1>0, SameImage DEF IInv
<1>1. TypeOK'
  BY SMT, <1>0, <1>c, <1>d, <1>e, PagesAssumption DEF IInv, TypeOK, Ops, NoPages, Journaled, sqlite3_rekey_v2
<1>3. JournalInv'
  BY <1>0, <1>2, <1>e DEF IInv, JournalInv, ControlInv
<1>4. PlayedBack'
  BY <1>0, <1>2, <1>e DEF IInv, PlayedBack, ControlInv, Journaled, InJournal
<1>5. ControlInv'
  BY <1>0, <1>2, <1>c, <1>d, <1>e DEF IInv, ControlInv
<1>6. CacheInv'
  BY <1>0, <1>2, <1>e DEF IInv, CacheInv, Dirty, Cached, ControlInv
<1>7. OriginalCached'
  BY <1>0, <1>2, <1>c, <1>e DEF IInv, OriginalCached, Original, Working, Cached, NoPages
<1>8. NoZeroCached'
  BY <1>0, <1>2, <1>c, <1>e DEF IInv, NoZeroCached, Working, Cached, NoPages
<1>9. DirtyJournaled' /\ SettledInFile'
  BY <1>0, <1>2, <1>c, <1>e DEF IInv, DirtyJournaled, SettledInFile, Settled, Dirty, Cached, Working
<1>10. CtxInv' /\ SameKeys'
  BY <1>0, <1>2, <1>c, <1>d, <1>e DEF IInv, CtxInv, SameKeys, Working, ControlInv
<1>11. WriteKeyCovers'
  BY SMT, <1>d, <1>e DEF WriteKeyCovers, Page
<1>12. RekeyJournaled' /\ CommitSynced'
  BY SMT, <1>d, <1>e DEF RekeyJournaled, CommitSynced, Page
<1> QED BY <1>1, <1>2, <1>3, <1>4, <1>5, <1>6, <1>7, <1>8, <1>9, <1>10, <1>11, <1>12 DEF IInv

(* The invariant and the recoverable image survive beginning the write     *)
(* transaction of a rekey.                                                 *)
LEMMA RekeyBeginInv ==
  ASSUME CarefulApplication, IInv, RekeyBegin
  PROVE  IInv' /\ Recovered' = Recovered
<1>0. UNCHANGED <<file, disk, jsync, jpend, cache, ctx, todo>>
  BY DEF RekeyBegin
<1>2. /\ ImageInv' /\ Recovered' = Recovered /\ TheKey' = TheKey /\ TheSalt' = TheSalt
      /\ HotJournal' = HotJournal /\ Journaled' = Journaled /\ \A q \in Page : InJournal(q)' = InJournal(q)
  BY <1>0, SameImage DEF IInv
<1>1. TypeOK'
  BY <1>0 DEF IInv, TypeOK, States, Ops, RekeyBegin
<1>3. JournalInv'
  BY <1>0, <1>2 DEF IInv, JournalInv, ControlInv, RekeyBegin
<1>4. PlayedBack'
  BY <1>0, <1>2 DEF IInv, PlayedBack, ControlInv, RekeyBegin
<1>5. ControlInv'
  BY <1>0, <1>2 DEF IInv, TypeOK, ControlInv, RekeyBegin
<1>6. CacheInv'
  BY <1>0, <1>2 DEF IInv, JournalInv, ControlInv, CacheInv, Dirty, Cached, NoPages, RekeyBegin
<1>7. OriginalCached'
  BY <1>0, <1>2 DEF IInv, OriginalCached, Original, Working, Cached, ControlInv, RekeyBegin
<1>8. NoZeroCached'
  BY <1>0, <1>2 DEF IInv, NoZeroCached, Working, Cached, NoPages, RekeyBegin
<1>9. DirtyJournaled' /\ SettledInFile'
  BY <1>0, <1>2 DEF IInv, DirtyJournaled, SettledInFile, Settled, Dirty, Cached, Working,
     CacheInv, OriginalCached, Original, JournalInv, ControlInv, Recovered, HotJournal, InJournal, RekeyBegin
<1>10. CtxInv' /\ SameKeys'
  BY <1>0, <1>2 DEF IInv, CtxInv, SameKeys, Working, ControlInv, RekeyBegin
<1>11. WriteKeyCovers'
  <2>1. op' = "rekey" /\ pgno' = 1
    BY DEF RekeyBegin, IInv, ControlInv
  <2>2. \A p \in Page : ~(p < 1)
    BY SMT DEF Page
  <2> QED BY <2>1, <2>2 DEF WriteKeyCovers
<1>12. RekeyJournaled' /\ CommitSynced'
  BY SMT, <1>0, <1>2 DEF IInv, RekeyJournaled, CommitSynced, ControlInv, Page, RekeyBegin
<1> QED BY <1>1, <1>2, <1>3, <1>4, <1>5, <1>6, <1>7, <1>8, <1>9, <1>10, <1>11, <1>12 DEF IInv

(* The invariant and the recoverable image survive a rekey that cannot     *)
(* begin its transaction.                                                  *)
LEMMA RekeyCannotBeginInv ==
  ASSUME CarefulApplication, IInv, RekeyCannotBegin
  PROVE  IInv' /\ Recovered' = Recovered
<1>0. UNCHANGED <<file, disk, jsync, jpend, cache, ctx, todo>>
  BY DEF RekeyCannotBegin, RekeyReturnsError
<1>2. /\ ImageInv' /\ Recovered' = Recovered /\ TheKey' = TheKey /\ TheSalt' = TheSalt
      /\ HotJournal' = HotJournal /\ Journaled' = Journaled /\ \A q \in Page : InJournal(q)' = InJournal(q)
  BY <1>0, SameImage DEF IInv
<1>1. TypeOK'
  BY <1>0, NoneAssumption DEF IInv, TypeOK, States, Ops, RekeyCannotBegin, RekeyReturnsError
<1>3. JournalInv'
  BY <1>0, <1>2 DEF IInv, JournalInv, ControlInv, RekeyCannotBegin, RekeyReturnsError
<1>4. PlayedBack'
  BY <1>0, <1>2 DEF IInv, PlayedBack, ControlInv, RekeyCannotBegin, RekeyReturnsError
<1>5. ControlInv'
  BY <1>0, <1>2, NoneAssumption DEF IInv, TypeOK, ControlInv, RekeyCannotBegin, RekeyReturnsError
<1>6. CacheInv'
  BY <1>0, <1>2 DEF IInv, JournalInv, ControlInv, CacheInv, Dirty, Cached, NoPages, RekeyCannotBegin, RekeyReturnsError
<1>7. OriginalCached'
  BY <1>0, <1>2 DEF IInv, OriginalCached, Original, Working, Cached, ControlInv, RekeyCannotBegin, RekeyReturnsError
<1>8. NoZeroCached'
  BY <1>0, <1>2 DEF IInv, NoZeroCached, Working, Cached, NoPages, RekeyCannotBegin, RekeyReturnsError
<1>9. DirtyJournaled' /\ SettledInFile'
  BY <1>0, <1>2 DEF IInv, DirtyJournaled, SettledInFile, Settled, Dirty, Cached, Working, CacheInv, RekeyCannotBegin, RekeyReturnsError
<1>10. CtxInv' /\ SameKeys'
  BY <1>0, <1>2, NoneAssumption DEF IInv, CtxInv, SameKeys, Working, ControlInv, RekeyCannotBegin, RekeyReturnsError
<1>11. WriteKeyCovers'
  BY <1>0, <1>2 DEF IInv, WriteKeyCovers, WriteKey, Dirty, Cached, Working, ControlInv, RekeyCannotBegin, RekeyReturnsError
<1>12. RekeyJournaled' /\ CommitSynced'
  BY <1>0, <1>2 DEF IInv, RekeyJournaled, CommitSynced, ControlInv, Dirty, Cached, RekeyCannotBegin, RekeyReturnsError
<1> QED BY <1>1, <1>2, <1>3, <1>4, <1>5, <1>6, <1>7, <1>8, <1>9, <1>10, <1>11, <1>12 DEF IInv

(* The invariant and the recoverable image survive a rekey loop that       *)
(* cannot read a page.                                                     *)
LEMMA RekeyAbortInv ==
  ASSUME CarefulApplication, IInv, RekeyAbort
  PROVE  IInv' /\ Recovered' = Recovered
<1>0. UNCHANGED <<file, disk, jsync, jpend, cache, ctx, eState>>
  BY DEF RekeyAbort, RekeyRollback
<1>2. /\ ImageInv' /\ Recovered' = Recovered /\ TheKey' = TheKey /\ TheSalt' = TheSalt
      /\ HotJournal' = HotJournal /\ Journaled' = Journaled /\ \A q \in Page : InJournal(q)' = InJournal(q)
  BY <1>0, SameImage DEF IInv
<1>1. TypeOK'
  BY <1>0 DEF IInv, TypeOK, States, Ops, RekeyAbort, RekeyRollback
<1>3. JournalInv'
  BY <1>0, <1>2 DEF IInv, JournalInv, RekeyAbort, RekeyRollback, Journaled, InJournal
<1>4. PlayedBack'
  BY <1>0, <1>2 DEF IInv, PlayedBack, RekeyAbort, RekeyRollback
<1>5. ControlInv'
  BY <1>0, <1>2 DEF IInv, TypeOK, ControlInv, RekeyAbort, RekeyRollback
<1>6. CacheInv'
  BY <1>0, <1>2 DEF IInv, JournalInv, ControlInv, CacheInv, Dirty, Cached, NoPages, RekeyAbort, RekeyRollback
<1>7. OriginalCached'
  BY <1>0, <1>2 DEF IInv, OriginalCached, Original, Working, Cached, RekeyAbort, RekeyRollback, InJournal
<1>8. NoZeroCached'
  BY <1>0, <1>2 DEF IInv, NoZeroCached, Working, Cached, NoPages, RekeyAbort, RekeyRollback
<1>9. DirtyJournaled' /\ SettledInFile'
  BY <1>0, <1>2 DEF IInv, DirtyJournaled, SettledInFile, Settled, Dirty, Cached, Working, CacheInv, RekeyAbort, RekeyRollback
<1>10. CtxInv' /\ SameKeys'
  BY <1>0, <1>2 DEF IInv, CtxInv, SameKeys, Working, ControlInv, RekeyAbort, RekeyRollback
<1>11. WriteKeyCovers'
  BY <1>0, <1>2 DEF IInv, WriteKeyCovers, WriteKey, Dirty, Cached, Working, ControlInv, RekeyAbort, RekeyRollback
<1>12. RekeyJournaled' /\ CommitSynced'
  BY <1>0, <1>2 DEF IInv, RekeyJournaled, CommitSynced, ControlInv, Dirty, Cached, RekeyAbort, RekeyRollback
<1> QED BY <1>1, <1>2, <1>3, <1>4, <1>5, <1>6, <1>7, <1>8, <1>9, <1>10, <1>11, <1>12 DEF IInv
=============================================================================
