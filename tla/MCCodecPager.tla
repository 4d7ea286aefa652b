---------------------------- MODULE MCCodecPager ----------------------------
(* CodecPager on small instances.                                          *)
EXTENDS CodecPagerImpl, TLC

CONSTANTS k1, k2, s1, s2, v1, v2

(* Passphrases and raw keys only: no key argument carries a salt.          *)
PlainSpecs == [k \in Pass |-> NoSalt]

(* k2 is a keyspec with a salt of its own.                                 *)
SaltedSpecs == [k \in Pass |-> IF k = k2 THEN s2 ELSE NoSalt]

Symmetry == Permutations(Pass) \cup Permutations(Value)
=============================================================================
