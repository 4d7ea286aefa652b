--------------------------- MODULE FiniteCounting ---------------------------
(***************************************************************************)
(* What the proofs use of finite sets and their cardinality.  The lemmas   *)
(* of a proof have FiniteSetFacts as a hypothesis; the module that states  *)
(* the theorems derives it from the library's FiniteSetTheorems.  (With    *)
(* the library in its context the prover is several times slower at every  *)
(* step of a long proof.)                                                  *)
(***************************************************************************)
EXTENDS Integers, Sequences, FiniteSets

(* Names for the two operators of FiniteSets that an instance of the       *)
(* library's module, which has definitions of its own for them, leaves     *)
(* alone.                                                                  *)
Finite(S) == IsFiniteSet(S)
Size(S) == Cardinality(S)

CardinalityIsNat == \A S : IsFiniteSet(S) => Cardinality(S) \in Nat

EmptyIsFinite ==
  /\ IsFiniteSet({}) /\ Cardinality({}) = 0
  /\ \A S : IsFiniteSet(S) => (Cardinality(S) = 0 <=> S = {})

SingletonIsFinite ==
  /\ \A x : IsFiniteSet({x}) /\ Cardinality({x}) = 1
  /\ \A S : IsFiniteSet(S) => (Cardinality(S) = 1 <=> \E x : S = {x})

SubsetsFinite ==
  \A S : IsFiniteSet(S) =>
    \A T \in SUBSET S : IsFiniteSet(T) /\ Cardinality(T) <= Cardinality(S)

ElementAdded ==
  \A S, x : IsFiniteSet(S) =>
    /\ IsFiniteSet(S \cup {x})
    /\ Cardinality(S \cup {x}) = IF x \in S THEN Cardinality(S) ELSE Cardinality(S) + 1

ElementRemoved ==
  \A S, x : IsFiniteSet(S) =>
    /\ IsFiniteSet(S \ {x})
    /\ Cardinality(S \ {x}) = IF x \in S THEN Cardinality(S) - 1 ELSE Cardinality(S)

FiniteSetFacts ==
  /\ CardinalityIsNat /\ EmptyIsFinite /\ SingletonIsFinite
  /\ SubsetsFinite /\ ElementAdded /\ ElementRemoved
=============================================================================
