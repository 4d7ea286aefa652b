---------------------------- MODULE CodecContext ----------------------------
(***************************************************************************)
(* The codec context of SQLCipher (codec_ctx and cipher_ctx of             *)
(* sqlcipher.c) and the page codec the pager calls through it.             *)
(*                                                                         *)
(* A codec context holds two cipher contexts: read_ctx opens pages of the  *)
(* database file and seals pages of the rollback journal, write_ctx seals  *)
(* pages of the database file.  They differ only while a rekey is under    *)
(* way.  The operators below are the functions of the source on this       *)
(* record; the pager that calls them is in CodecPager.                     *)
(*                                                                         *)
(* Data is abstracted to what decides whether a page opens.  A key is the  *)
(* pair of the key argument it was derived from and the salt used: the     *)
(* HMAC key depends on the salt even for a raw key, so two keys open each  *)
(* other's pages only when both parts agree.  An encrypted page carries    *)
(* the key it was sealed with, its content and, on page 1, the salt stored *)
(* in the first 16 bytes of the file.                                      *)
(***************************************************************************)
EXTENDS Naturals

CONSTANTS
  N,          \* the number of pages of the database
  Pass,       \* the key arguments an application may give
  Salt,       \* the KDF salts
  SpecSalt,   \* the salt a key argument carries itself (a keyspec), or NoSalt
  Value,      \* the contents of a page
  Zero,       \* the content of a page the codec has zeroed after a failure
  NoPass, NoSalt, NoKey, Null,
  StorePass,  \* PRAGMA cipher_store_pass
  CodecFaults \* whether the crypto provider may fail an operation

Page == 1 .. N
Key == [pass : Pass, salt : Salt]
SealedPage == [key : Key, val : Value \cup {Zero}, hdr : Salt \cup {NoSalt}]

cipher_ctx == [derive_key : BOOLEAN, pass : Pass \cup {NoPass}, key : Key \cup {NoKey}]
codec_ctx == [read_ctx : cipher_ctx, write_ctx : cipher_ctx,
              kdf_salt : Salt \cup {NoSalt}, key_used : BOOLEAN, error : BOOLEAN]

ASSUME PagesAssumption == N \in Nat \ {0}
ASSUME SaltsAssumption == SpecSalt \in [Pass -> Salt \cup {NoSalt}]
ASSUME FlagsAssumption == StorePass \in BOOLEAN /\ CodecFaults \in BOOLEAN
ASSUME NoneAssumption ==
  /\ NoPass \notin Pass
  /\ NoSalt \notin Salt
  /\ NoKey \notin Key
  /\ Zero \notin Value
  /\ Null \notin Value \cup {Zero}
  /\ Null \notin SealedPage

-----------------------------------------------------------------------------
(* sqlcipher_codec_ctx_init: the key argument goes to read_ctx, which is   *)
(* then copied to write_ctx.  Neither key is derived yet.                  *)
sqlcipher_codec_ctx_init(k) ==
  LET x == [derive_key |-> TRUE, pass |-> k, key |-> NoKey]
  IN  [read_ctx |-> x, write_ctx |-> x, kdf_salt |-> NoSalt,
       key_used |-> FALSE, error |-> FALSE]

(* codec_set_pass_key with CIPHER_WRITE_CTX, the first step of a rekey.    *)
set_write_pass(c, k) ==
  [c EXCEPT !.write_ctx = [derive_key |-> TRUE, pass |-> k, key |-> c.write_ctx.key]]

(* sqlcipher_codec_key_copy from the write to the read context: the whole  *)
(* cipher_ctx is copied, its derive_key flag and pass included.            *)
sqlcipher_codec_key_copy(c) == [c EXCEPT !.read_ctx = c.write_ctx]

(* sqlcipher_codec_ctx_init_kdf_salt reads the salt from the file once.    *)
init_kdf_salt(s, hdr) == IF s = NoSalt THEN hdr ELSE s

(* A keyspec that carries a salt replaces the salt of the whole context.   *)
salt_for(k, s) == IF SpecSalt[k] = NoSalt THEN s ELSE SpecSalt[k]

sqlcipher_cipher_ctx_key_derive(x, s) ==
  [x EXCEPT !.key = [pass |-> x.pass, salt |-> s], !.derive_key = FALSE]

(* The pass is wiped after derivation unless cipher_store_pass is on.      *)
wipe_pass(x) == IF StorePass THEN x ELSE [x EXCEPT !.pass = NoPass]

pending_derive(c) == c.read_ctx.derive_key \/ c.write_ctx.derive_key

(* sqlcipher_codec_key_derive: derive what is marked for derivation, the   *)
(* write key by copying when both contexts hold the same pass.             *)
sqlcipher_codec_key_derive(c, hdr) ==
  LET rs == IF c.read_ctx.derive_key
            THEN salt_for(c.read_ctx.pass, init_kdf_salt(c.kdf_salt, hdr))
            ELSE c.kdf_salt
      r == IF c.read_ctx.derive_key
           THEN sqlcipher_cipher_ctx_key_derive(c.read_ctx, rs)
           ELSE c.read_ctx
      copied == c.write_ctx.derive_key /\ r.pass = c.write_ctx.pass
      derived == c.write_ctx.derive_key /\ ~copied
      ws == IF derived
            THEN salt_for(c.write_ctx.pass, init_kdf_salt(rs, hdr))
            ELSE rs
      w == IF copied THEN r
           ELSE IF derived THEN sqlcipher_cipher_ctx_key_derive(c.write_ctx, ws)
           ELSE c.write_ctx
  IN  [c EXCEPT !.read_ctx = wipe_pass(r), !.write_ctx = wipe_pass(w), !.kdf_salt = ws]

-----------------------------------------------------------------------------
(* sqlite3Codec.  hdr is the salt now in the file.  The result is a set:   *)
(* what may happen to the context, and what the pager is handed.  A failed *)
(* operation leaves a permanent error in the context, and every later call *)
(* then refuses to seal and reads zeroes.                                  *)
set_error(c) == [c EXCEPT !.error = TRUE]
set_key_used(c) == [c EXCEPT !.key_used = TRUE]

(* Mutant: a failed derivation is not made permanent.                      *)
derive_failure_Transient(c) ==
  IF CodecFaults /\ pending_derive(c) THEN {[ctx |-> c, out |-> Null]} ELSE {}

(* A provider that fails while deriving: no page is returned in any mode.  *)
derive_failure(c) ==
  IF CodecFaults /\ pending_derive(c) THEN {[ctx |-> set_error(c), out |-> Null]} ELSE {}

(* CODEC_READ_OP: a page that does not authenticate is read as zeroes.     *)
codec_read(c, hdr, sealed) ==
  IF c.error THEN {[ctx |-> c, out |-> Zero]}
  ELSE LET d == sqlcipher_codec_key_derive(c, hdr)
           opens == sealed.key = d.read_ctx.key
       IN  derive_failure(c)
           \cup (IF opens THEN {[ctx |-> set_key_used(d), out |-> sealed.val]} ELSE {})
           \cup (IF ~opens \/ CodecFaults THEN {[ctx |-> set_error(d), out |-> Zero]} ELSE {})

(* Mutant: sealing goes on after a permanent error.                        *)
codec_seal_AfterError(c, hdr, p, v, mode) ==
  LET d == sqlcipher_codec_key_derive(c, hdr)
      key == IF mode = "write" THEN d.write_ctx.key ELSE d.read_ctx.key
  IN  {[ctx |-> d, out |-> [key |-> key, val |-> v,
                            hdr |-> IF p = 1 THEN d.kdf_salt ELSE NoSalt]]}

(* CODEC_WRITE_OP seals with the write key, CODEC_JOURNAL_OP with the read *)
(* key; both put the salt of the context in front of page 1.               *)
codec_seal(c, hdr, p, v, mode) ==
  IF c.error THEN {[ctx |-> c, out |-> Null]}
  ELSE LET d == sqlcipher_codec_key_derive(c, hdr)
           key == IF mode = "write" THEN d.write_ctx.key ELSE d.read_ctx.key
           page == [key |-> key, val |-> v, hdr |-> IF p = 1 THEN d.kdf_salt ELSE NoSalt]
       IN  derive_failure(c)
           \cup {[ctx |-> set_key_used(d), out |-> page]}
           \cup (IF CodecFaults THEN {[ctx |-> set_error(d), out |-> Null]} ELSE {})

codec_write(c, hdr, p, v) == codec_seal(c, hdr, p, v, "write")
(* Mutant: the journal is sealed with the new key of a rekey.              *)
codec_journal_WriteKey(c, hdr, p, v) == codec_seal(c, hdr, p, v, "write")
codec_journal(c, hdr, p, v) == codec_seal(c, hdr, p, v, "journal")

-----------------------------------------------------------------------------
(* What is true of the context of a database with salt s.                  *)

(* No key argument is a keyspec with a salt of its own.                    *)
PlainKeys == \A k \in Pass : SpecSalt[k] = NoSalt

(* A cipher context waits for a derivation and holds the pass, or its key  *)
(* was derived with s, and from the pass if it still holds one.            *)
CipherOK(x, s) ==
  IF x.derive_key THEN x.pass \in Pass
  ELSE /\ x.key \in Key
       /\ x.key.salt = s
       /\ x.pass # NoPass => x.key.pass = x.pass

CtxOK(c, s) ==
  /\ c \in codec_ctx
  /\ ~c.error => /\ CipherOK(c.read_ctx, s)
                 /\ CipherOK(c.write_ctx, s)
                 /\ c.kdf_salt \in {NoSalt, s}
                 /\ ~c.read_ctx.derive_key => c.kdf_salt = s

(* The key a cipher context holds, or will hold once it is derived.        *)
KeyOf(x, s) == IF x.derive_key THEN [pass |-> x.pass, salt |-> s] ELSE x.key
=============================================================================
