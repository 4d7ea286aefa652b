----------------------- MODULE LibraryLifecycle_proofs ----------------------
(***************************************************************************)
(* The start and stop of the library is safe for any number of threads,    *)
(* providers and initialisations: the inductive invariant, and the         *)
(* properties that follow from it.                                         *)
(***************************************************************************)
EXTENDS LibraryLifecycle, FiniteSetTheorems, TLAPS

USE Zenon

(* The steps under the main mutex inside sqlcipher_extra_init.             *)
Extra == {"mutexes", "heap", "provider", "seed", "error"}
Ended == {"idle", "return"}

(* The thread that initialises the library.                                *)
Active(t) == depth[t] = 1 \/ pc[t] = "os" \/ (run[t] /\ pc[t] \notin Ended)

(* What a thread's place in sqlite3_initialize says of the flags.          *)
Control(t) ==
  /\ depth[t] = 1 => pc[t] \in {"main1", "enter", "leave", "main2"} /\ ~run[t] /\ inProgress
  /\ pc[t] = "os" => ~run[t] /\ inProgress
  /\ pc[t] \in {"main1", "enter"} => ~run[t]
  /\ pc[t] \in Extra \cup {"extra", "auto"} => run[t]
  /\ run[t] /\ pc[t] \notin Ended => isInit
  /\ run[t] /\ pc[t] \in {"leave", "main2", "extra", "mutexes", "heap"} =>
       ~sqlcipher_init /\ inits < MaxInits
  /\ pc[t] \in Extra <=> main = t

(* What it holds.                                                          *)
Holds(t) ==
  /\ provider[t] # Null => pc[t] = "error" /\ provider[t] = private_heap
  /\ codec[t] # Null => pc[t] = "idle" /\ sqlcipher_init /\ codec[t].heap = private_heap
  /\ codec[t] # Null /\ ~lateFailure => codec[t].provider \in alive

(* What sqlcipher_extra_init has allocated at each of its steps.           *)
Stage(t) ==
  /\ pc[t] \in {"mutexes", "heap"} => private_heap = Null
  /\ pc[t] \in {"heap", "provider", "seed"} => sqlcipher_static_mutex
  /\ pc[t] \in {"provider", "seed"} => private_heap # Null
  /\ pc[t] = "seed" => default_provider # Null
  /\ ~lateFailure => /\ pc[t] \in {"mutexes", "heap", "provider"} => alive \subseteq AppProvider
                     /\ pc[t] = "error" => Registered \subseteq AppProvider

Flags ==
  /\ inProgress => ~isInit
  /\ ~isInit => inits < MaxInits
  /\ sqlcipher_init => /\ isInit /\ main = Null /\ private_heap # Null /\ default_provider # Null
                       /\ sqlcipher_shield_mask /\ sqlcipher_static_mutex
  /\ ~sqlcipher_init /\ main = Null =>
       private_heap = Null /\ ~sqlcipher_shield_mask /\ ~sqlcipher_static_mutex

ListInv ==
  /\ \A p, q \in Registered : next[p] = next[q] => p = q
  /\ \A p \in Registered : next[p] # default_provider
  /\ Registered # {} => \E p \in Registered : next[p] = Null

(* What is allocated is registered, but for a built-in provider that the   *)
(* error path is going to free.                                            *)
Allocated ==
  ~lateFailure =>
    /\ Registered \subseteq alive
    /\ alive \subseteq AppProvider \cup {private_heap}
    /\ \A p \in alive : p \in Registered \/ (p = private_heap /\ \E t \in Thread : pc[t] = "error")

Single == \A t, u \in Thread : Active(t) /\ Active(u) => t = u

LifeInv ==
  /\ TypeOK /\ InitMutexCounted /\ Flags /\ ListInv /\ Allocated /\ Single
  /\ \A t \in Thread : Control(t) /\ Holds(t) /\ Stage(t)

-----------------------------------------------------------------------------
(* The list of providers.                                                  *)

(* A built-in provider is named by its heap, and no application's is.      *)
LEMMA Providers ==
  /\ Null \notin Provider /\ Null \notin Thread
  /\ \A h \in 1 .. MaxInits : h \in Provider /\ h \notin AppProvider
  /\ \A p \in Provider : p \in AppProvider \/ p \in 1 .. MaxInits
BY SMT, BoundsAssumption DEF Provider

(* Registered is the least closed set.                                     *)
LEMMA Least ==
  ASSUME TypeOK
  PROVE  /\ Closed(Registered) /\ Registered \subseteq Provider
         /\ \A S \in SUBSET Provider : Closed(S) => Registered \subseteq S
         /\ default_provider = Null => Registered = {}
         /\ default_provider # Null => default_provider \in Registered
<1>1. /\ default_provider \in Provider \cup {Null}
      /\ \A p \in Provider : next[p] \in Provider \cup {Null}
  BY DEF TypeOK
<1>2. Registered \subseteq Provider BY DEF Registered
<1>3. \A S \in SUBSET Provider : Closed(S) => Registered \subseteq S BY DEF Registered
<1>4. default_provider \in Registered \cup {Null} BY <1>1 DEF Registered, Closed
<1>5. ASSUME NEW p \in Registered PROVE next[p] \in Registered \cup {Null}
  BY <1>1, <1>2 DEF Registered, Closed
<1>6. Closed({}) <=> default_provider = Null BY DEF Closed
<1> QED BY <1>1, <1>2, <1>3, <1>4, <1>5, <1>6 DEF Closed

(* Every provider but the head is the next of another.                     *)
LEMMA Predecessor ==
  ASSUME TypeOK, NEW p \in Registered, p # default_provider
  PROVE  \E q \in Registered : next[q] = p
<1> SUFFICES ASSUME \A q \in Registered : next[q] # p PROVE FALSE
  OBVIOUS
<1>1. Closed(Registered) /\ Registered \subseteq Provider BY Least
<1>2. Closed(Registered \ {p}) BY <1>1 DEF Closed
<1> QED BY <1>1, <1>2, Least

(* sqlcipher_register_provider puts p in front of the list, or leaves the  *)
(* list as it is, and p is on it once.                                     *)
LEMMA Register ==
  ASSUME TypeOK, ListInv, NEW p \in Provider, NEW initOk \in BOOLEAN,
         sqlcipher_register_provider(p, initOk)
  PROVE  /\ next' \in [Provider -> Provider \cup {Null}]
         /\ default_provider' \in {default_provider, p}
         /\ p \in Registered \/ initOk => /\ default_provider' = p
                                          /\ Registered' = Registered \cup {p}
         /\ ~(p \in Registered \/ initOk) => UNCHANGED <<default_provider, Registered>>
         /\ ListInv'
<1>0. PICK R : R = Registered OBVIOUS
<1>1. /\ Closed(R) /\ R \subseteq Provider /\ default_provider \in Provider \cup {Null}
      /\ next \in [Provider -> Provider \cup {Null}]
      /\ \A S \in SUBSET Provider : Closed(S) => R \subseteq S
      /\ default_provider = Null => R = {}
      /\ default_provider # Null => default_provider \in R
      /\ Null \notin Provider
  BY <1>0, Least, Providers DEF TypeOK
<1>2. CASE default_provider = p
  <2>1. UNCHANGED <<default_provider, next>> BY <1>2 DEF sqlcipher_register_provider
  <2>2. Registered' = Registered BY <2>1 DEF Registered, Closed
  <2>3. p \in Registered BY <1>0, <1>1, <1>2
  <2>4. Registered' = Registered \cup {p} BY <2>2, <2>3
  <2>5. ListInv' BY <2>1, <2>2 DEF ListInv
  <2> QED BY <1>1, <1>2, <2>1, <2>3, <2>4, <2>5
<1>3. CASE default_provider # p
  <2>1. /\ next' \in [Provider -> Provider \cup {Null}] /\ next'[p] = default_provider
        /\ \A q \in Provider : q # p =>
             next'[q] = IF q \in R /\ next[q] = p THEN next[p] ELSE next[q]
        /\ default_provider' = IF p \in R \/ initOk THEN p ELSE default_provider
    BY <1>0, <1>1, <1>3 DEF sqlcipher_register_provider
  <2>2. \A q \in R : next[q] \in R \cup {Null} BY <1>1 DEF Closed
  <2>3. CASE ~(p \in R \/ initOk)
    <3>1. \A q \in R : next'[q] = next[q] BY <1>1, <2>1, <2>2, <2>3
    <3>2. Closed(R)' BY <1>1, <2>1, <2>3, <3>1 DEF Closed
    <3>3. ASSUME NEW S \in SUBSET Provider, Closed(S)' PROVE R \subseteq S
      <4>1. Closed(S \cap R) BY <1>1, <2>1, <2>2, <2>3, <3>1, <3>3 DEF Closed
      <4> QED BY <1>1, <4>1
    <3>4. Registered' = R BY <1>1, <3>2, <3>3 DEF Registered
    <3>5. default_provider' = default_provider BY <2>1, <2>3
    <3>6. ListInv' BY SMT, <1>0, <3>1, <3>4, <3>5 DEF ListInv
    <3> QED BY <1>0, <2>1, <2>3, <3>4, <3>5, <3>6
  <2>4. CASE p \in R \/ initOk
    <3> DEFINE R2 == R \cup {p}
    <3>1. default_provider' = p BY <2>1, <2>4
    <3>2. Closed(R2)' BY <1>1, <2>1, <2>2, <3>1 DEF Closed
    <3>3. ASSUME NEW S \in SUBSET Provider, Closed(S)' PROVE R2 \subseteq S
      <4> DEFINE T == {q \in S \cap R : q = p => next[p] \in S \cup {Null}}
      <4>1. p \in S /\ default_provider \in S \cup {Null}
        BY <1>1, <2>1, <3>1, <3>3 DEF Closed
      <4>2. default_provider \in T \cup {Null} BY <1>1, <1>3, <4>1
      <4>3. ASSUME NEW q \in T PROVE next[q] \in T \cup {Null}
        <5>1. q \in R /\ q \in S /\ q \in Provider BY <1>1
        <5>2. CASE q # p /\ next[q] = p
          <6>1. next'[q] = next[p] BY <2>1, <5>1, <5>2
          <6>2. next[p] \in S \cup {Null} BY <3>3, <5>1, <6>1 DEF Closed
          <6> QED BY <1>1, <2>2, <4>1, <5>1, <5>2, <6>2
        <5>3. CASE q # p /\ next[q] # p
          <6>1. next'[q] = next[q] BY <2>1, <5>1, <5>3
          <6> QED BY <2>2, <3>3, <5>1, <5>3, <6>1 DEF Closed
        <5>4. CASE q = p
          <6>1. next[q] \in S \cup {Null} BY <5>4
          <6>2. next[q] \in R \cup {Null} BY <2>2, <5>1
          <6> QED BY <5>4, <6>1, <6>2
        <5> QED BY <5>2, <5>3, <5>4
      <4>4. Closed(T) BY <4>2, <4>3 DEF Closed
      <4> QED BY <1>1, <4>1, <4>4
    <3>4. Registered' = R2 BY <1>1, <3>2, <3>3 DEF Registered
    <3>5. /\ \A q, r \in R : next[q] = next[r] => q = r
          /\ \A q \in R : next[q] # default_provider
          /\ R # {} => \E q \in R : next[q] = Null
      BY <1>0 DEF ListInv
    <3>6. \A q \in R : q # p => next'[q] = IF next[q] = p THEN next[p] ELSE next[q]
      BY <1>1, <2>1
    <3>7. ASSUME NEW q \in R, q # p
          PROVE  next'[q] # default_provider /\ next'[q] # p
      <4>1. CASE next[q] = p
        <5>1. p \in R BY <2>2, <4>1, <1>1
        <5> QED BY <3>5, <3>6, <3>7, <4>1, <5>1
      <4>2. CASE next[q] # p BY <3>5, <3>6, <3>7, <4>2
      <4> QED BY <4>1, <4>2
    <3>8. ASSUME NEW q \in R, NEW r \in R, q # p, r # p, next'[q] = next'[r] PROVE q = r
      <4>1. next[q] = p \/ next[r] = p => p \in R BY <1>1, <2>2
      <4> QED BY <3>5, <3>6, <3>8, <4>1
    <3>9. \E q \in R2 : next'[q] = Null
      <4>1. CASE R = {}
        <5>1. default_provider = Null BY <1>1, <4>1
        <5> QED BY <2>1, <5>1
      <4>2. CASE R # {}
        <5>1. PICK l \in R : next[l] = Null BY <3>5, <4>2
        <5>2. CASE l # p
          <6>1. next'[l] = Null BY <1>1, <3>6, <5>1, <5>2
          <6> QED BY <6>1
        <5>3. CASE l = p
          <6>1. PICK q \in R : next[q] = p BY <1>3, <5>3, <1>0, Predecessor
          <6>2. q # p BY <1>1, <5>1, <5>3, <6>1
          <6>3. next'[q] = Null BY <3>6, <5>1, <5>3, <6>1, <6>2
          <6> QED BY <6>3
        <5> QED BY <5>2, <5>3
      <4> QED BY <4>1, <4>2
    <3>10. ListInv'
      <4>1. \A q, r \in R2 : next'[q] = next'[r] => q = r BY <2>1, <3>7, <3>8
      <4>2. \A q \in R2 : next'[q] # default_provider' BY <1>3, <2>1, <3>1, <3>7
      <4> QED BY <3>4, <3>9, <4>1, <4>2 DEF ListInv
    <3> QED BY <2>1, <2>4, <3>1, <3>4, <3>10, <1>0
  <2> QED BY <2>3, <2>4
<1> QED BY <1>2, <1>3

-----------------------------------------------------------------------------
(* One thread comes, goes or stays.                                        *)
LEMMA CardMove ==
  ASSUME NEW A \in SUBSET Thread, NEW B \in SUBSET Thread, NEW t \in Thread,
         \A u \in Thread : u # t => (u \in A <=> u \in B)
  PROVE  /\ Cardinality(A) \in Nat /\ Cardinality(B) \in Nat
         /\ t \in A /\ t \in B => Cardinality(B) = Cardinality(A)
         /\ t \notin A /\ t \notin B => Cardinality(B) = Cardinality(A)
         /\ t \in A /\ t \notin B => Cardinality(B) = Cardinality(A) - 1
         /\ t \notin A /\ t \in B => Cardinality(B) = Cardinality(A) + 1
<1>1. IsFiniteSet(A) /\ IsFiniteSet(B) BY BoundsAssumption, FS_Subset
<1>2. Cardinality(A) \in Nat /\ Cardinality(B) \in Nat BY <1>1, FS_CardinalityType
<1>3. (t \in A <=> t \in B) => A = B BY SMT
<1>4. t \in A /\ t \notin B => B = A \ {t} OBVIOUS
<1>5. t \notin A /\ t \in B => B = A \cup {t} OBVIOUS
<1>6. Cardinality(A \ {t}) = IF t \in A THEN Cardinality(A) - 1 ELSE Cardinality(A)
  BY <1>1, FS_RemoveElement
<1>7. Cardinality(A \cup {t}) = IF t \in A THEN Cardinality(A) ELSE Cardinality(A) + 1
  BY <1>1, FS_AddElement
<1> QED BY <1>2, <1>3, <1>4, <1>5, <1>6, <1>7

Inside == {t \in Thread : pc[t] \in {"enter", "leave", "main2"}}
Outer == {t \in Thread : depth[t] = 1 \/ pc[t] = "os"}

(* InitMutexCounted in terms of the two sets of threads it counts.         *)
LEMMA Counted ==
  InitMutexCounted <=> /\ nRefInitMutex = Cardinality(Inside) + Cardinality(Outer)
                       /\ pInitMutex = (nRefInitMutex > 0)
BY DEF InitMutexCounted, Inside, Outer

(* The count when only t moves.                                            *)
LEMMA Counting ==
  ASSUME LifeInv, NEW t \in Thread,
         \A u \in Thread : u # t => pc'[u] = pc[u] /\ depth'[u] = depth[u],
         pInitMutex' = (nRefInitMutex' > 0)
  PROVE  /\ nRefInitMutex \in Nat /\ pInitMutex = (nRefInitMutex > 0)
         /\ t \in Inside \cup Outer => nRefInitMutex > 0
         /\ nRefInitMutex' = nRefInitMutex + (IF t \in Inside' THEN 1 ELSE 0)
              + (IF t \in Outer' THEN 1 ELSE 0) - (IF t \in Inside THEN 1 ELSE 0)
              - (IF t \in Outer THEN 1 ELSE 0)
            => InitMutexCounted' /\ nRefInitMutex' \in 0 .. 2 * Cardinality(Thread)
<1> DEFINE i == Cardinality(Inside)
           o == Cardinality(Outer)
<1>1. /\ \A u \in Thread : u # t => (u \in Inside <=> u \in Inside') /\ (u \in Outer <=> u \in Outer')
      /\ Inside \in SUBSET Thread /\ Outer \in SUBSET Thread
      /\ Inside' \in SUBSET Thread /\ Outer' \in SUBSET Thread
  BY DEF Inside, Outer
<1>2. /\ i \in Nat /\ i' \in Nat
      /\ i' = i + (IF t \in Inside' THEN 1 ELSE 0) - (IF t \in Inside THEN 1 ELSE 0)
  BY SMT, <1>1, CardMove
<1>3. /\ o \in Nat /\ o' \in Nat
      /\ o' = o + (IF t \in Outer' THEN 1 ELSE 0) - (IF t \in Outer THEN 1 ELSE 0)
  BY SMT, <1>1, CardMove
<1>4. t \in Inside => i > 0
  <2>1. ASSUME t \in Inside PROVE i > 0
    <3>1. Cardinality(Inside \ {t}) \in Nat /\ Cardinality(Inside \ {t}) = i - 1
      BY <1>1, <2>1, CardMove
    <3> QED BY SMT, <1>2, <3>1
  <2> QED BY <2>1
<1>5. t \in Outer => o > 0
  <2>1. ASSUME t \in Outer PROVE o > 0
    <3>1. Cardinality(Outer \ {t}) \in Nat /\ Cardinality(Outer \ {t}) = o - 1
      BY <1>1, <2>1, CardMove
    <3> QED BY SMT, <1>3, <3>1
  <2> QED BY <2>1
<1>6. /\ i' <= Cardinality(Thread) /\ o' <= Cardinality(Thread) /\ Cardinality(Thread) \in Nat
  BY <1>1, BoundsAssumption, FS_Subset, FS_CardinalityType
<1>7. nRefInitMutex = i + o /\ pInitMutex = (nRefInitMutex > 0) BY Counted DEF LifeInv
<1>8. nRefInitMutex' = i' + o' => InitMutexCounted' BY DEF InitMutexCounted, Inside, Outer
<1> HIDE DEF i, o
<1>9. nRefInitMutex \in Nat /\ (t \in Inside \cup Outer => nRefInitMutex > 0)
  BY SMT, <1>2, <1>3, <1>4, <1>5, <1>7
<1>10. nRefInitMutex' = nRefInitMutex + (IF t \in Inside' THEN 1 ELSE 0)
              + (IF t \in Outer' THEN 1 ELSE 0) - (IF t \in Inside THEN 1 ELSE 0)
              - (IF t \in Outer THEN 1 ELSE 0)
       => nRefInitMutex' = i' + o' /\ nRefInitMutex' \in 0 .. 2 * Cardinality(Thread)
  BY SMT, <1>2, <1>3, <1>6, <1>7
<1> QED BY <1>7, <1>8, <1>9, <1>10

(* A step that leaves the list alone.                                      *)
LEMMA ListKept ==
  ASSUME UNCHANGED <<default_provider, next>>
  PROVE  Registered' = Registered /\ (ListInv => ListInv')
<1>1. Registered' = Registered BY DEF Registered, Closed
<1> QED BY <1>1 DEF ListInv

(* A step of t that touches neither the list nor what sqlcipher_extra_init *)
(* allocates, and that is no step of it.                                   *)
LEMMA Quiet ==
  ASSUME LifeInv, NEW t \in Thread, UNCHANGED <<codec, provider, cipherVars, registry, history>>,
         \A u \in Thread : u # t => pc'[u] = pc[u],
         pc[t] \notin Extra, pc'[t] \notin Extra, codec[t] = Null
  PROVE  ListInv' /\ Allocated' /\ \A u \in Thread : Holds(u)' /\ Stage(u)'
<1>1. ListInv' /\ Registered' = Registered BY ListKept DEF registry, LifeInv
<1>2. /\ UNCHANGED <<codec, provider, alive, default_provider, private_heap, lateFailure, sqlcipher_init,
                     sqlcipher_static_mutex>>
      /\ Allocated /\ Holds(t)
  BY DEF registry, history, cipherVars, LifeInv
<1>3. \A u \in Thread : pc'[u] = "error" <=> pc[u] = "error" BY DEF Extra
<1>4. Allocated' BY <1>1, <1>2, <1>3 DEF Allocated
<1>5. ASSUME NEW u \in Thread PROVE Holds(u)'
  BY <1>2, <1>5 DEF LifeInv, Holds, Extra
<1>6. ASSUME NEW u \in Thread PROVE Stage(u)'
  <2>1. CASE u = t BY <2>1 DEF Stage, Extra
  <2>2. CASE u # t BY <1>1, <1>2, <2>2 DEF LifeInv, Stage
  <2> QED BY <2>1, <2>2
<1> QED BY <1>1, <1>4, <1>5, <1>6

(* The types after a step that touches neither codecs nor what is          *)
(* allocated.                                                              *)
LEMMA QuietType ==
  ASSUME TypeOK, UNCHANGED <<codec, provider, cipherVars, registry, history>>,
         pc' \in [Thread -> Labels], depth' \in [Thread -> 0 .. 1], run' \in [Thread -> BOOLEAN],
         rc' \in [Thread -> {"OK", "NOMEM", "ERROR"}], calls' \in [Thread -> 0 .. MaxCalls],
         main' \in Thread \cup {Null}, initHolder' \in Thread \cup {Null},
         pInitMutex' \in BOOLEAN, isInit' \in BOOLEAN, inProgress' \in BOOLEAN,
         nRefInitMutex' \in 0 .. 2 * Cardinality(Thread)
  PROVE  TypeOK'
BY DEF TypeOK, cipherVars, registry, history

(* The flags of both libraries when a step touches none of them.           *)
LEMMA FlagsKept ==
  ASSUME Flags, UNCHANGED <<main, isInit, inProgress, cipherVars, registry, history>>
  PROVE  Flags'
<1>1. UNCHANGED <<main, isInit, inProgress, sqlcipher_init, sqlcipher_static_mutex, inits,
                  sqlcipher_shield_mask, private_heap, default_provider>>
  BY DEF cipherVars, registry, history
<1> QED BY SMT, <1>1 DEF Flags

(* Only t moves.                                                           *)
LEMMA Moves ==
  ASSUME LifeInv, NEW t \in Thread, NEW l \in Labels, Goto(t, l)
  PROVE  pc' \in [Thread -> Labels] /\ pc'[t] = l /\ \A u \in Thread : u # t => pc'[u] = pc[u]
BY DEF LifeInv, TypeOK, Goto

(* Entering sqlite3_initialize.                                            *)
LEMMA InitializeInv ==
  ASSUME LifeInv, NEW t \in Thread, sqlite3_initialize(t)
  PROVE  LifeInv'
<1> USE DEF mainVars
<1>1. TypeOK /\ pc[t] = "idle" /\ codec[t] = Null /\ Control(t) BY DEF LifeInv, sqlite3_initialize
<1>2. PICK l \in {"return", "main1"} : Goto(t, l) BY DEF sqlite3_initialize
<1>3. pc' \in [Thread -> Labels] /\ pc'[t] = l /\ \A u \in Thread : u # t => pc'[u] = pc[u]
  BY <1>2, Moves DEF Labels
<1>4. /\ run' \in [Thread -> BOOLEAN] /\ run'[t] = FALSE /\ \A u \in Thread : u # t => run'[u] = run[u]
  BY <1>1 DEF sqlite3_initialize, TypeOK
<1>5. UNCHANGED <<depth, codec, provider, main, pInitMutex, initHolder, nRefInitMutex, isInit,
                  inProgress, cipherVars, registry, history, sqlcipher_init, inits>>
  BY DEF sqlite3_initialize, cipherVars, history
<1>6. calls' \in [Thread -> 0 .. MaxCalls] /\ rc' \in [Thread -> {"OK", "NOMEM", "ERROR"}]
  BY SMT, <1>1, BoundsAssumption DEF sqlite3_initialize, TypeOK, Result
<1>7. depth[t] # 1 BY <1>1 DEF Control
<1>8. InitMutexCounted' /\ nRefInitMutex' \in 0 .. 2 * Cardinality(Thread)
  <2>1. t \notin Inside /\ t \notin Inside' /\ t \notin Outer /\ t \notin Outer'
    BY <1>1, <1>2, <1>3, <1>5, <1>7 DEF Inside, Outer
  <2>2. pInitMutex' = (nRefInitMutex' > 0) BY <1>5, Counted DEF LifeInv
  <2> QED BY SMT, <1>3, <1>5, <2>1, <2>2, Counting
<1>9. TypeOK' BY <1>1, <1>3, <1>4, <1>5, <1>6, <1>8, QuietType DEF TypeOK
<1>10. ASSUME NEW u \in Thread PROVE Control(u)'
  <2>1. CASE u = t BY <1>1, <1>2, <1>3, <1>4, <1>5, <1>7, <2>1 DEF Control, Extra, Ended
  <2>2. CASE u # t BY <1>3, <1>4, <1>5, <2>2 DEF LifeInv, Control
  <2> QED BY <2>1, <2>2
<1>11. Single'
  <2>1. \A u \in Thread : Active(u)' => Active(u) BY <1>1, <1>2, <1>3, <1>4, <1>5, <1>7 DEF Active
  <2> QED BY <2>1 DEF LifeInv, Single
<1>12. Flags' BY <1>5, FlagsKept DEF LifeInv
<1>13. ListInv' /\ Allocated' /\ \A u \in Thread : Holds(u)' /\ Stage(u)'
  BY <1>1, <1>2, <1>3, <1>5, Quiet DEF Extra
<1> QED BY <1>8, <1>9, <1>10, <1>11, <1>12, <1>13 DEF LifeInv

(* The first section under the main mutex.                                 *)
LEMMA InitMutexRefInv ==
  ASSUME LifeInv, NEW t \in Thread, InitMutexRef(t)
  PROVE  LifeInv'
<1>1. TypeOK /\ pc[t] = "main1" /\ Control(t) /\ Holds(t) BY DEF LifeInv, InitMutexRef
<1>2. PICK l \in {"enter", "return"} : Goto(t, l) BY DEF InitMutexRef
<1>3. pc' \in [Thread -> Labels] /\ pc'[t] = l /\ \A u \in Thread : u # t => pc'[u] = pc[u]
  BY <1>2, Moves DEF Labels
<1>4. UNCHANGED <<depth, run, codec, provider, calls, main, initHolder, isInit, inProgress,
                  cipherVars, registry, history, sqlcipher_init, inits>>
  BY DEF InitMutexRef, cipherVars, history
<1>5. /\ l = "enter" => pInitMutex' = TRUE /\ nRefInitMutex' = nRefInitMutex + 1
      /\ l = "return" => ~pInitMutex /\ UNCHANGED <<pInitMutex, nRefInitMutex>>
  BY <1>1, <1>2 DEF InitMutexRef, Goto, TypeOK
<1>6. rc' \in [Thread -> {"OK", "NOMEM", "ERROR"}] BY <1>1 DEF InitMutexRef, TypeOK, Result
<1>7. nRefInitMutex \in Nat /\ pInitMutex = (nRefInitMutex > 0) /\ pInitMutex \in BOOLEAN
  BY SMT, Counted, <1>1 DEF LifeInv, TypeOK
<1>8. pInitMutex' = (nRefInitMutex' > 0)
  <2>1. l = "return" => pInitMutex' = pInitMutex /\ nRefInitMutex' = nRefInitMutex BY <1>5
  <2>2. nRefInitMutex + 1 > 0 BY SMT, <1>7
  <2>3. CASE l = "enter" BY <1>5, <2>2, <2>3
  <2> QED BY <1>2, <1>7, <2>1, <2>3
<1>9. depth[t] = 1 => l = "enter"
  <2>1. depth[t] = 1 => t \in Outer BY DEF Outer
  <2>2. t \in Outer => pInitMutex BY <1>3, <1>4, <1>8, Counting
  <2> QED BY <1>2, <1>5, <2>1, <2>2
<1>10. InitMutexCounted' /\ nRefInitMutex' \in 0 .. 2 * Cardinality(Thread)
  <2>1. /\ t \notin Inside /\ (t \in Inside' <=> l = "enter") /\ (t \in Outer' <=> t \in Outer)
    BY <1>1, <1>2, <1>3, <1>4 DEF Inside, Outer
  <2> QED BY SMT, <1>2, <1>3, <1>4, <1>5, <1>8, <2>1, Counting
<1>11. TypeOK'
  <2>1. pInitMutex' \in BOOLEAN BY <1>2, <1>5, <1>7
  <2> QED BY <1>1, <1>3, <1>4, <1>6, <1>10, <2>1, QuietType DEF TypeOK
<1>12. ASSUME NEW u \in Thread PROVE Control(u)'
  <2>1. CASE u = t BY <1>1, <1>2, <1>3, <1>4, <1>9, <2>1 DEF Control, Extra, Ended
  <2>2. CASE u # t BY <1>3, <1>4, <2>2 DEF LifeInv, Control
  <2> QED BY <2>1, <2>2
<1>13. Single'
  <2>1. \A u \in Thread : Active(u)' => Active(u) BY <1>1, <1>2, <1>3, <1>4 DEF Active, Control
  <2> QED BY <2>1 DEF LifeInv, Single
<1>14. Flags' BY <1>4, FlagsKept DEF LifeInv
<1>15. ListInv' /\ Allocated' /\ \A u \in Thread : Holds(u)' /\ Stage(u)'
  BY <1>1, <1>2, <1>3, <1>4, Quiet DEF Extra, Holds
<1> QED BY <1>10, <1>11, <1>12, <1>13, <1>14, <1>15 DEF LifeInv

(* Entering pInitMutex: the thread that begins is the only one.            *)
LEMMA EnterInitMutexInv ==
  ASSUME LifeInv, NEW t \in Thread, EnterInitMutex(t)
  PROVE  LifeInv'
<1>1. /\ TypeOK /\ pc[t] = "enter" /\ Control(t) /\ Holds(t) /\ Single
      /\ \A u \in Thread : Control(u)
  BY DEF LifeInv, EnterInitMutex
<1>2. /\ UNCHANGED <<run, rc, codec, provider, calls, main, isInit, pInitMutex, nRefInitMutex,
                     cipherVars, registry, history, sqlcipher_init, inits>>
      /\ initHolder' = t
  BY DEF EnterInitMutex, cipherVars, history
<1>3. pInitMutex' = (nRefInitMutex' > 0) BY <1>2, Counted DEF LifeInv
<1>4. CASE ~isInit /\ ~inProgress
  <2>1. Goto(t, "main1") /\ inProgress' = TRUE /\ depth' = [depth EXCEPT ![t] = 1]
    BY <1>4 DEF EnterInitMutex
  <2>2. pc' \in [Thread -> Labels] /\ pc'[t] = "main1" /\ \A u \in Thread : u # t => pc'[u] = pc[u]
    BY <2>1, Moves DEF Labels
  <2>3. depth'[t] = 1 /\ \A u \in Thread : u # t => depth'[u] = depth[u] BY <1>1, <2>1 DEF TypeOK
  <2>4. depth' \in [Thread -> 0 .. 1] BY SMT, <1>1, <2>1 DEF TypeOK
  <2>5. \A u \in Thread : ~Active(u) BY <1>1, <1>4 DEF Control, Active
  <2>6. t \in Inside /\ t \notin Inside' /\ t \notin Outer /\ t \in Outer'
    BY <1>1, <2>2, <2>3, <2>5 DEF Inside, Outer, Active
  <2>7. InitMutexCounted' /\ nRefInitMutex' \in 0 .. 2 * Cardinality(Thread)
    BY SMT, <1>2, <1>3, <2>2, <2>3, <2>6, Counting
  <2>8. TypeOK' BY <1>1, <1>2, <2>1, <2>2, <2>4, <2>7, QuietType DEF TypeOK
  <2>9. ASSUME NEW u \in Thread PROVE Control(u)'
    <3>1. CASE u = t BY <1>1, <1>2, <2>1, <2>2, <2>3, <3>1 DEF Control, Extra, Ended
    <3>2. CASE u # t BY <1>1, <1>2, <2>1, <2>2, <2>3, <3>2 DEF Control
    <3> QED BY <3>1, <3>2
  <2>10. \A u \in Thread : Active(u)' => u = t BY <1>2, <2>2, <2>3, <2>5 DEF Active
  <2>11. Single' BY <2>10 DEF Single
  <2>12. Flags' BY SMT, <1>2, <1>4, <2>1 DEF LifeInv, Flags, cipherVars, registry, history
  <2>13. ListInv' /\ Allocated' /\ \A u \in Thread : Holds(u)' /\ Stage(u)'
    BY <1>1, <1>2, <2>2, Quiet DEF Extra, Holds
  <2> QED BY <2>7, <2>8, <2>9, <2>11, <2>12, <2>13 DEF LifeInv
<1>5. CASE ~(~isInit /\ ~inProgress)
  <2>1. Goto(t, "leave") /\ UNCHANGED <<inProgress, depth>> BY <1>5 DEF EnterInitMutex
  <2>2. pc' \in [Thread -> Labels] /\ pc'[t] = "leave" /\ \A u \in Thread : u # t => pc'[u] = pc[u]
    BY <2>1, Moves DEF Labels
  <2>3. t \in Inside /\ t \in Inside' /\ (t \in Outer <=> t \in Outer')
    BY <1>1, <2>1, <2>2 DEF Inside, Outer
  <2>4. InitMutexCounted' /\ nRefInitMutex' \in 0 .. 2 * Cardinality(Thread)
    BY SMT, <1>2, <1>3, <2>1, <2>2, <2>3, Counting
  <2>5. TypeOK' BY <1>1, <1>2, <2>1, <2>2, <2>4, QuietType DEF TypeOK
  <2>6. ASSUME NEW u \in Thread PROVE Control(u)'
    <3>1. CASE u = t BY <1>1, <1>2, <2>1, <2>2, <3>1 DEF Control, Extra, Ended
    <3>2. CASE u # t BY <1>1, <1>2, <2>1, <2>2, <3>2 DEF Control
    <3> QED BY <3>1, <3>2
  <2>7. \A u \in Thread : Active(u)' => Active(u) BY <1>1, <1>2, <2>1, <2>2 DEF Active, Control
  <2>8. Single' BY <1>1, <2>7 DEF Single
  <2>9. Flags' BY <1>2, <2>1, FlagsKept DEF LifeInv
  <2>10. ListInv' /\ Allocated' /\ \A u \in Thread : Holds(u)' /\ Stage(u)'
    BY <1>1, <1>2, <2>2, Quiet DEF Extra, Holds
  <2> QED BY <2>4, <2>5, <2>6, <2>8, <2>9, <2>10 DEF LifeInv
<1> QED BY <1>4, <1>5

(* The end of the work done under pInitMutex.                              *)
LEMMA OsInitInv ==
  ASSUME LifeInv, NEW t \in Thread, OsInit(t)
  PROVE  LifeInv'
<1>1. /\ TypeOK /\ pc[t] = "os" /\ Control(t) /\ Holds(t) /\ Single /\ Flags
      /\ \A u \in Thread : Control(u)
  BY DEF LifeInv, OsInit
<1>2. /\ UNCHANGED <<depth, codec, provider, calls, main, initHolder, pInitMutex, nRefInitMutex,
                     cipherVars, registry, history, sqlcipher_init, inits>>
      /\ Goto(t, "leave") /\ inProgress' = FALSE
  BY DEF OsInit, cipherVars, history
<1>3. pInitMutex' = (nRefInitMutex' > 0) BY <1>2, Counted DEF LifeInv
<1>4. pc' \in [Thread -> Labels] /\ pc'[t] = "leave" /\ \A u \in Thread : u # t => pc'[u] = pc[u]
  BY <1>2, Moves DEF Labels
<1>5. /\ isInit' \in BOOLEAN /\ run' \in [Thread -> BOOLEAN] /\ run'[t] = isInit'
      /\ \A u \in Thread : u # t => run'[u] = run[u]
      /\ rc' \in [Thread -> {"OK", "NOMEM", "ERROR"}]
  <2>1. CASE isInit' = TRUE /\ run' = [run EXCEPT ![t] = TRUE] /\ UNCHANGED rc BY <1>1, <2>1 DEF TypeOK
  <2>2. CASE Result(t, "NOMEM") /\ UNCHANGED <<isInit, run>>
    <3>1. run[t] = FALSE /\ isInit = FALSE BY <1>1 DEF TypeOK, Control, Flags
    <3> QED BY <1>1, <2>2, <3>1 DEF TypeOK, Result
  <2> QED BY <2>1, <2>2 DEF OsInit
<1>6. ~isInit /\ ~run[t] /\ ~sqlcipher_init /\ inits < MaxInits /\ depth[t] # 1
  BY <1>1 DEF Control, Flags
<1>7. t \notin Inside /\ t \in Inside' /\ t \in Outer /\ t \notin Outer'
  BY <1>1, <1>2, <1>4, <1>6 DEF Inside, Outer
<1>8. InitMutexCounted' /\ nRefInitMutex' \in 0 .. 2 * Cardinality(Thread)
  BY SMT, <1>2, <1>3, <1>4, <1>7, Counting
<1>9. TypeOK' BY <1>1, <1>2, <1>4, <1>5, <1>8, QuietType DEF TypeOK
<1>10. \A u \in Thread : u # t => ~Active(u) BY <1>1 DEF Single, Active
<1>11. ASSUME NEW u \in Thread PROVE Control(u)'
  <2>1. CASE u = t BY <1>1, <1>2, <1>4, <1>5, <1>6, <2>1 DEF Control, Extra, Ended
  <2>2. CASE u # t BY <1>1, <1>2, <1>4, <1>5, <1>10, <2>2 DEF Control, Active
  <2> QED BY <2>1, <2>2
<1>12. \A u \in Thread : Active(u)' => u = t BY <1>2, <1>4, <1>5, <1>10 DEF Active
<1>13. Single' BY <1>12 DEF Single
<1>14. Flags' BY SMT, <1>1, <1>2, <1>6 DEF Flags, cipherVars, registry, history
<1>15. ListInv' /\ Allocated' /\ \A u \in Thread : Holds(u)' /\ Stage(u)'
  BY <1>1, <1>2, <1>4, Quiet DEF Extra, Holds
<1> QED BY <1>8, <1>9, <1>11, <1>13, <1>14, <1>15 DEF LifeInv

(* Leaving pInitMutex.                                                     *)
LEMMA LeaveInitMutexInv ==
  ASSUME LifeInv, NEW t \in Thread, LeaveInitMutex(t)
  PROVE  LifeInv'
<1>1. /\ TypeOK /\ pc[t] = "leave" /\ Control(t) /\ Holds(t) /\ Single
      /\ \A u \in Thread : Control(u)
  BY DEF LifeInv, LeaveInitMutex
<1>2. /\ UNCHANGED <<depth, run, rc, codec, provider, calls, main, pInitMutex, nRefInitMutex, isInit,
                     inProgress, cipherVars, registry, history, sqlcipher_init, inits>>
      /\ Goto(t, "main2") /\ initHolder' \in Thread \cup {Null}
  BY DEF LeaveInitMutex, cipherVars, history
<1>3. pInitMutex' = (nRefInitMutex' > 0) BY <1>2, Counted DEF LifeInv
<1>4. pc' \in [Thread -> Labels] /\ pc'[t] = "main2" /\ \A u \in Thread : u # t => pc'[u] = pc[u]
  BY <1>2, Moves DEF Labels
<1>5. t \in Inside /\ t \in Inside' /\ (t \in Outer <=> t \in Outer')
  BY <1>1, <1>2, <1>4 DEF Inside, Outer
<1>6. InitMutexCounted' /\ nRefInitMutex' \in 0 .. 2 * Cardinality(Thread)
  BY SMT, <1>2, <1>3, <1>4, <1>5, Counting
<1>7. TypeOK' BY <1>1, <1>2, <1>4, <1>6, QuietType DEF TypeOK
<1>8. ASSUME NEW u \in Thread PROVE Control(u)'
  <2>1. CASE u = t BY <1>1, <1>2, <1>4, <2>1 DEF Control, Extra, Ended
  <2>2. CASE u # t BY <1>1, <1>2, <1>4, <2>2 DEF Control
  <2> QED BY <2>1, <2>2
<1>9. \A u \in Thread : Active(u)' => Active(u) BY <1>1, <1>2, <1>4 DEF Active, Ended
<1>10. Single' BY <1>1, <1>9 DEF Single
<1>11. Flags' BY <1>2, FlagsKept DEF LifeInv
<1>12. ListInv' /\ Allocated' /\ \A u \in Thread : Holds(u)' /\ Stage(u)'
  BY <1>1, <1>2, <1>4, Quiet DEF Extra, Holds
<1> QED BY <1>6, <1>7, <1>8, <1>10, <1>11, <1>12 DEF LifeInv

(* The second section under the main mutex.                                *)
LEMMA InitMutexUnrefInv ==
  ASSUME LifeInv, NEW t \in Thread, InitMutexUnref(t)
  PROVE  LifeInv'
<1>1. /\ TypeOK /\ pc[t] = "main2" /\ Control(t) /\ Holds(t) /\ Single
      /\ \A u \in Thread : Control(u)
  BY DEF LifeInv, InitMutexUnref
<1>2. /\ UNCHANGED <<run, rc, codec, provider, calls, main, initHolder, isInit, inProgress,
                     cipherVars, registry, history, sqlcipher_init, inits>>
      /\ depth' = [depth EXCEPT ![t] = 0]
      /\ nRefInitMutex' = nRefInitMutex - 1
      /\ pInitMutex' = (pInitMutex /\ nRefInitMutex' > 0)
  BY DEF InitMutexUnref, cipherVars, history
<1> DEFINE l == IF depth[t] = 1 THEN "os" ELSE IF run[t] THEN "extra" ELSE "return"
<1>3. Goto(t, l) BY DEF InitMutexUnref
<1>4. pc' \in [Thread -> Labels] /\ pc'[t] = l /\ \A u \in Thread : u # t => pc'[u] = pc[u]
  BY <1>3, Moves DEF Labels
<1>5. depth'[t] = 0 /\ \A u \in Thread : u # t => depth'[u] = depth[u] BY <1>1, <1>2 DEF TypeOK
<1>6. depth' \in [Thread -> 0 .. 1] BY SMT, <1>1, <1>2 DEF TypeOK
<1>7. t \in Inside /\ t \notin Inside' /\ (t \in Outer <=> depth[t] = 1) /\ (t \in Outer' <=> depth[t] = 1)
  <2>1. 0 # 1 BY SMT
  <2> QED BY <1>1, <1>4, <1>5, <2>1 DEF Inside, Outer
<1>8. nRefInitMutex \in Nat /\ pInitMutex = (nRefInitMutex > 0) BY SMT, <1>1, Counted DEF LifeInv, TypeOK
<1>9. nRefInitMutex' > 0 => nRefInitMutex > 0 BY SMT, <1>2, <1>8
<1>10. pInitMutex' = (nRefInitMutex' > 0)
  <2>1. CASE nRefInitMutex' > 0
    <3>1. pInitMutex BY <1>8, <1>9, <2>1
    <3> QED BY <1>2, <2>1, <3>1
  <2>2. CASE ~(nRefInitMutex' > 0) BY SMT, <1>2, <2>2
  <2> QED BY <2>1, <2>2
<1>11. InitMutexCounted' /\ nRefInitMutex' \in 0 .. 2 * Cardinality(Thread)
  BY SMT, <1>2, <1>4, <1>5, <1>7, <1>10, Counting
<1>12. TypeOK'
  <2>1. pInitMutex' \in BOOLEAN BY SMT, <1>2
  <2> QED BY <1>1, <1>2, <1>4, <1>6, <1>11, <2>1, QuietType DEF TypeOK
<1>13. ASSUME NEW u \in Thread PROVE Control(u)'
  <2>1. CASE u = t
    <3>1. 0 # 1 BY SMT
    <3>2. CASE depth[t] = 1 BY <1>1, <1>2, <1>4, <1>5, <2>1, <3>1, <3>2 DEF Control, Extra, Ended
    <3>3. CASE depth[t] # 1 /\ run[t] BY <1>1, <1>2, <1>4, <1>5, <2>1, <3>1, <3>3 DEF Control, Extra, Ended
    <3>4. CASE depth[t] # 1 /\ ~run[t] BY <1>1, <1>2, <1>4, <1>5, <2>1, <3>1, <3>4 DEF Control, Extra, Ended
    <3> QED BY <3>2, <3>3, <3>4
  <2>2. CASE u # t BY <1>1, <1>2, <1>4, <1>5, <2>2 DEF Control
  <2> QED BY <2>1, <2>2
<1>14. \A u \in Thread : Active(u)' => Active(u)
  <2>1. 0 # 1 BY SMT
  <2> QED BY <1>1, <1>2, <1>4, <1>5, <2>1 DEF Active, Ended
<1>15. Single' BY <1>1, <1>14 DEF Single
<1>16. Flags' BY <1>2, FlagsKept DEF LifeInv
<1>17. ListInv' /\ Allocated' /\ \A u \in Thread : Holds(u)' /\ Stage(u)'
  <2>1. pc'[t] \notin Extra BY <1>4 DEF Extra
  <2> QED BY <1>1, <1>2, <1>4, <2>1, Quiet DEF Extra, Holds
<1> QED BY <1>11, <1>12, <1>13, <1>15, <1>16, <1>17 DEF LifeInv

(* The steps that only end a call.                                         *)
LEMMA EndsInv ==
  ASSUME LifeInv, NEW t \in Thread, AutoExtension(t) \/ OpenFails(t)
  PROVE  LifeInv'
<1>1. PICK k \in {"auto", "return"}, l \in Ended : pc[t] = k /\ Goto(t, l)
  BY DEF AutoExtension, OpenFails, Ended
<1>2. /\ TypeOK /\ Control(t) /\ Holds(t) /\ Single
      /\ \A u \in Thread : Control(u)
  BY DEF LifeInv
<1>3. /\ UNCHANGED <<depth, run, rc, codec, provider, calls, main, pInitMutex, nRefInitMutex, isInit,
                     initHolder, inProgress, cipherVars, registry, history, sqlcipher_init, inits>>
  BY DEF AutoExtension, OpenFails, cipherVars, history, mainVars
<1>4. pInitMutex' = (nRefInitMutex' > 0) BY <1>3, Counted DEF LifeInv
<1>5. pc' \in [Thread -> Labels] /\ pc'[t] = l /\ \A u \in Thread : u # t => pc'[u] = pc[u]
  BY <1>1, Moves DEF Labels, Ended
<1>6. depth[t] # 1 BY <1>1, <1>2 DEF Control
<1>7. t \notin Inside /\ t \notin Inside' /\ t \notin Outer /\ t \notin Outer'
  BY <1>1, <1>3, <1>5, <1>6 DEF Inside, Outer, Ended
<1>8. InitMutexCounted' /\ nRefInitMutex' \in 0 .. 2 * Cardinality(Thread)
  BY SMT, <1>3, <1>4, <1>5, <1>7, Counting
<1>9. TypeOK' BY <1>2, <1>3, <1>5, <1>8, QuietType DEF TypeOK
<1>10. ASSUME NEW u \in Thread PROVE Control(u)'
  <2>1. CASE u = t BY <1>1, <1>2, <1>3, <1>5, <1>6, <2>1 DEF Control, Extra, Ended
  <2>2. CASE u # t BY <1>2, <1>3, <1>5, <2>2 DEF Control
  <2> QED BY <2>1, <2>2
<1>11. \A u \in Thread : Active(u)' => Active(u) BY <1>1, <1>3, <1>5, <1>6 DEF Active, Ended
<1>12. Single' BY <1>2, <1>11 DEF Single
<1>13. Flags' BY <1>3, FlagsKept DEF LifeInv
<1>14. CASE codec[t] = Null
  <2>1. pc[t] \notin Extra /\ pc'[t] \notin Extra BY <1>1, <1>5 DEF Extra, Ended
  <2>2. ListInv' /\ Allocated' /\ \A u \in Thread : Holds(u)' /\ Stage(u)'
    BY <1>3, <1>5, <1>14, <2>1, Quiet
  <2> QED BY <1>8, <1>9, <1>10, <1>12, <1>13, <2>2 DEF LifeInv
<1> QED BY <1>1, <1>2, <1>14 DEF Holds

-----------------------------------------------------------------------------
(* The steps of sqlcipher_extra_init: t is the only one that initialises,  *)
(* and no codec is attached.                                               *)
LEMMA ExtraAlone ==
  ASSUME LifeInv, NEW t \in Thread, pc[t] \in Extra \cup {"extra"}
  PROVE  /\ run[t] /\ isInit /\ ~inProgress /\ ~sqlcipher_init /\ depth[t] # 1
         /\ \A u \in Thread : codec[u] = Null
         /\ \A u \in Thread : u # t => ~Active(u) /\ pc[u] \notin Extra /\ provider[u] = Null
         /\ pc[t] \in Extra => main = t
<1>1. /\ TypeOK /\ Control(t) /\ Flags /\ Single
      /\ \A u \in Thread : Control(u) /\ Holds(u)
  BY DEF LifeInv
<1>2. run[t] /\ pc[t] \notin Ended BY <1>1 DEF Control, Extra, Ended
<1>3. isInit /\ ~inProgress BY <1>1, <1>2 DEF Control, Flags
<1>4. pc[t] \in Extra => main = t BY <1>1 DEF Control
<1>5. ~sqlcipher_init BY <1>1, <1>2, <1>4, Providers DEF Control, Flags
<1>6. depth[t] # 1 BY <1>1, <1>2 DEF Control
<1>7. \A u \in Thread : codec[u] = Null BY <1>1, <1>5 DEF Holds
<1>8. \A u \in Thread : u # t => ~Active(u) BY <1>1, <1>2 DEF Single, Active
<1>9. ASSUME NEW u \in Thread, u # t PROVE pc[u] \notin Extra /\ provider[u] = Null
  <2>1. pc[u] \notin Extra BY <1>1, <1>8, <1>9 DEF Control, Active, Extra, Ended
  <2> QED BY <1>1, <2>1 DEF Holds, Extra
<1> QED BY <1>2, <1>3, <1>4, <1>5, <1>6, <1>7, <1>8, <1>9

(* A step of sqlcipher_extra_init leaves the count and the other threads   *)
(* as they are.                                                            *)
LEMMA ExtraStep ==
  ASSUME LifeInv, NEW t \in Thread, pc[t] \in Extra \cup {"extra"},
         NEW l \in Extra \cup {"auto", "return"}, Goto(t, l),
         UNCHANGED <<depth, run, codec, mainVars>>, main' \in {t, Null},
         \A u \in Thread : u # t => provider'[u] = provider[u],
         l \in Extra <=> main' = t,
         l \in {"mutexes", "heap"} => ~sqlcipher_init' /\ inits' < MaxInits
  PROVE  /\ pc' \in [Thread -> Labels] /\ pc'[t] = l
         /\ InitMutexCounted' /\ nRefInitMutex' \in 0 .. 2 * Cardinality(Thread)
         /\ Single' /\ Control(t)'
         /\ \A u \in Thread : u # t => Control(u)' /\ Holds(u)' /\ Stage(u)' /\ pc'[u] \notin Extra
         /\ \A u \in Thread : codec'[u] = Null
<1>1. /\ run[t] /\ isInit /\ ~inProgress /\ ~sqlcipher_init /\ depth[t] # 1
      /\ \A u \in Thread : codec[u] = Null
      /\ \A u \in Thread : u # t => ~Active(u) /\ pc[u] \notin Extra /\ provider[u] = Null
  BY ExtraAlone
<1>2. pc' \in [Thread -> Labels] /\ pc'[t] = l /\ \A u \in Thread : u # t => pc'[u] = pc[u]
  BY Moves DEF Extra, Labels
<1>3. UNCHANGED <<depth, run, codec, pInitMutex, initHolder, nRefInitMutex, isInit, inProgress>>
  BY DEF mainVars
<1>4. InitMutexCounted' /\ nRefInitMutex' \in 0 .. 2 * Cardinality(Thread)
  <2>1. t \notin Inside /\ t \notin Inside' /\ t \notin Outer /\ t \notin Outer'
    BY <1>1, <1>2, <1>3 DEF Inside, Outer, Extra
  <2>2. pInitMutex' = (nRefInitMutex' > 0) BY <1>3, Counted DEF LifeInv
  <2> QED BY SMT, <1>2, <1>3, <2>1, <2>2, Counting
<1>5. \A u \in Thread : u # t => ~Active(u)' BY <1>1, <1>2, <1>3 DEF Active
<1>6. Single' BY <1>5 DEF Single
<1>7. Control(t)' BY <1>1, <1>2, <1>3 DEF Control, Extra, Ended
<1>8. ASSUME NEW u \in Thread, u # t PROVE Control(u)' /\ Holds(u)' /\ Stage(u)' /\ pc'[u] \notin Extra
  <2>1. pc'[u] = pc[u] /\ pc[u] \notin Extra /\ provider'[u] = Null /\ codec'[u] = Null /\ u # Null
    BY <1>1, <1>2, <1>3, <1>8, Providers
  <2>2. Control(u)'
    <3>1. Control(u) BY DEF LifeInv
    <3>2. main' # u BY <1>8, <2>1
    <3>3. depth'[u] # 1 /\ pc'[u] # "os" /\ ~(run'[u] /\ pc'[u] \notin Ended)
      BY <1>5, <1>8 DEF Active
    <3> QED BY <1>3, <2>1, <3>1, <3>2, <3>3 DEF Control, Ended
  <2>3. Holds(u)' BY <2>1 DEF Holds
  <2>4. Stage(u)' BY <2>1 DEF Stage, Extra
  <2> QED BY <2>1, <2>2, <2>3, <2>4
<1> QED BY <1>1, <1>2, <1>3, <1>4, <1>6, <1>7, <1>8

(* What is allocated stays so, and is still accounted for.                 *)
LEMMA AllocatedKept ==
  ASSUME LifeInv, NEW t \in Thread, UNCHANGED <<registry, private_heap, lateFailure>>,
         \A u \in Thread : pc[u] = "error" => pc'[u] = "error"
  PROVE  Registered' = Registered /\ ListInv' /\ Allocated'
<1>1. Registered' = Registered /\ ListInv' /\ UNCHANGED alive BY ListKept DEF registry, LifeInv
<1> QED BY <1>1 DEF LifeInv, Allocated

(* sqlcipher_extra_init takes the main mutex.                              *)
LEMMA ExtraEnterInv ==
  ASSUME LifeInv, NEW t \in Thread, ExtraEnter(t)
  PROVE  LifeInv'
<1>1. /\ pc[t] = "extra" /\ TypeOK /\ Control(t) /\ Holds(t) /\ Flags /\ Allocated /\ main = Null
  BY DEF LifeInv, ExtraEnter
<1>2. /\ run[t] /\ isInit /\ ~inProgress /\ ~sqlcipher_init
      /\ \A u \in Thread : u # t => pc[u] \notin Extra
  BY <1>1, ExtraAlone
<1>3. /\ Goto(t, "mutexes") /\ main' = t
      /\ UNCHANGED <<depth, run, rc, provider, codec, calls, mainVars, cipherVars, registry, history>>
  BY <1>2 DEF ExtraEnter
<1>4. UNCHANGED <<isInit, inProgress, sqlcipher_init, sqlcipher_shield_mask, sqlcipher_static_mutex,
                  private_heap, private_heap_sz, default_provider, next, alive, inits, lateFailure>>
  BY <1>3 DEF mainVars, cipherVars, registry, history
<1>5. ~sqlcipher_init' /\ inits' < MaxInits BY <1>1, <1>2, <1>4 DEF Control
<1>6. /\ pc' \in [Thread -> Labels] /\ pc'[t] = "mutexes"
      /\ InitMutexCounted' /\ nRefInitMutex' \in 0 .. 2 * Cardinality(Thread)
      /\ Single' /\ Control(t)'
      /\ \A u \in Thread : u # t => Control(u)' /\ Holds(u)' /\ Stage(u)' /\ pc'[u] \notin Extra
      /\ \A u \in Thread : codec'[u] = Null
  BY <1>1, <1>3, <1>5, ExtraStep DEF Extra
<1>7. Registered' = Registered /\ ListInv' /\ Allocated'
  BY <1>1, <1>2, <1>3, <1>4, AllocatedKept DEF Extra
<1>8. TypeOK'
  BY <1>1, <1>3, <1>4, <1>6, QuietType DEF mainVars, TypeOK
<1>9. Flags' BY <1>2, <1>3, <1>4, Providers DEF Flags
<1>10. private_heap = Null BY <1>1, <1>2 DEF Flags
<1>11. Stage(t)'
  <2>1. ~lateFailure => alive \subseteq AppProvider
    BY <1>1, <1>10, Providers DEF Allocated, TypeOK
  <2> QED BY <1>4, <1>6, <1>10, <2>1 DEF Stage
<1>12. Holds(t)' BY <1>1, <1>3, <1>6 DEF Holds
<1> QED BY <1>6, <1>7, <1>8, <1>9, <1>11, <1>12 DEF LifeInv

(* Its mutexes are allocated, or one of them cannot be.                    *)
LEMMA ExtraMutexesInv ==
  ASSUME LifeInv, NEW t \in Thread, ExtraMutexes(t)
  PROVE  LifeInv'
<1>1. /\ pc[t] = "mutexes" /\ TypeOK /\ Control(t) /\ Holds(t) /\ Stage(t) /\ Flags /\ Allocated
  BY DEF LifeInv, ExtraMutexes
<1>2. /\ run[t] /\ isInit /\ ~inProgress /\ ~sqlcipher_init /\ main = t
      /\ \A u \in Thread : u # t => pc[u] \notin Extra
  BY <1>1, ExtraAlone DEF Extra
<1>3. /\ sqlcipher_static_mutex' = TRUE
      /\ UNCHANGED <<depth, run, provider, codec, calls, main, mainVars, registry, history>>
      /\ UNCHANGED <<isInit, inProgress, pInitMutex, initHolder, sqlcipher_init, sqlcipher_shield_mask,
            private_heap, private_heap_sz, default_provider, next, alive, inits, lateFailure>>
  BY DEF ExtraMutexes, mainVars, registry, history
<1>4. PICK l \in {"heap", "error"} : Goto(t, l) BY DEF ExtraMutexes
<1>5. ~sqlcipher_init' /\ inits' < MaxInits BY <1>1, <1>2, <1>3 DEF Control
<1>6. /\ pc' \in [Thread -> Labels] /\ pc'[t] = l
      /\ InitMutexCounted' /\ nRefInitMutex' \in 0 .. 2 * Cardinality(Thread)
      /\ Single' /\ Control(t)'
      /\ \A u \in Thread : u # t => Control(u)' /\ Holds(u)' /\ Stage(u)' /\ pc'[u] \notin Extra
      /\ \A u \in Thread : codec'[u] = Null
  BY <1>1, <1>2, <1>3, <1>4, <1>5, ExtraStep DEF Extra
<1>7. Registered' = Registered /\ ListInv' /\ Allocated'
  BY <1>1, <1>2, <1>3, AllocatedKept DEF Extra
<1>8. TypeOK'
  <2>1. rc' \in [Thread -> {"OK", "NOMEM", "ERROR"}] BY <1>1 DEF ExtraMutexes, TypeOK, Result
  <2> QED BY <1>1, <1>3, <1>6, <2>1 DEF TypeOK
<1>9. Flags' BY <1>2, <1>3, Providers DEF Flags
<1>10. Stage(t)'
  <2>1. ~lateFailure => Registered \subseteq AppProvider BY <1>1 DEF Stage, Allocated
  <2> QED BY <1>1, <1>3, <1>4, <1>6, <1>7, <2>1 DEF Stage
<1>11. Holds(t)' BY <1>1, <1>3, <1>6 DEF Holds
<1> QED BY <1>6, <1>7, <1>8, <1>9, <1>10, <1>11 DEF LifeInv

(* A new private heap is known by the number of the initialisation.        *)
LEMMA ExtraHeapInv ==
  ASSUME LifeInv, NEW t \in Thread, ExtraHeap(t)
  PROVE  LifeInv'
<1>1. /\ pc[t] = "heap" /\ TypeOK /\ Control(t) /\ Holds(t) /\ Stage(t) /\ Flags /\ Allocated
  BY DEF LifeInv, ExtraHeap
<1>2. /\ run[t] /\ isInit /\ ~inProgress /\ ~sqlcipher_init /\ main = t
      /\ \A u \in Thread : u # t => pc[u] \notin Extra
  BY <1>1, ExtraAlone DEF Extra
<1>3. /\ UNCHANGED <<depth, run, provider, codec, calls, main, mainVars, registry, lateFailure>>
      /\ UNCHANGED <<isInit, inProgress, pInitMutex, initHolder, sqlcipher_init, sqlcipher_shield_mask,
            sqlcipher_static_mutex, default_provider, next, alive>>
  BY DEF ExtraHeap, mainVars, registry
<1>4. private_heap_sz' \in 0 .. HeapSteps
  BY SMT, <1>1, BoundsAssumption DEF ExtraHeap, TypeOK
<1>5. \/ Goto(t, "provider") /\ inits' = inits + 1 /\ private_heap' = inits' /\ UNCHANGED rc
      \/ Goto(t, "error") /\ Result(t, "NOMEM") /\ UNCHANGED <<inits, private_heap>>
  BY DEF ExtraHeap
<1>6. PICK l \in {"provider", "error"} : Goto(t, l) BY <1>5
<1>7. /\ pc' \in [Thread -> Labels] /\ pc'[t] = l
      /\ InitMutexCounted' /\ nRefInitMutex' \in 0 .. 2 * Cardinality(Thread)
      /\ Single' /\ Control(t)'
      /\ \A u \in Thread : u # t => Control(u)' /\ Holds(u)' /\ Stage(u)' /\ pc'[u] \notin Extra
      /\ \A u \in Thread : codec'[u] = Null
  BY <1>1, <1>2, <1>3, <1>6, ExtraStep DEF Extra
<1>8. Registered' = Registered /\ ListInv' BY <1>3, ListKept DEF LifeInv
<1>9. private_heap = Null /\ (~lateFailure => alive \subseteq AppProvider /\ Registered \subseteq AppProvider)
  BY <1>1 DEF Stage, Allocated
<1>10. inits < MaxInits BY <1>1, <1>2 DEF Control, Ended
<1>11. /\ inits' \in 0 .. MaxInits /\ private_heap' \in 1 .. MaxInits \cup {Null}
       /\ l = "provider" => private_heap' # Null
       /\ l = "error" => private_heap' = private_heap
       /\ rc' \in [Thread -> {"OK", "NOMEM", "ERROR"}]
  <2>1. CASE Goto(t, "provider") /\ inits' = inits + 1 /\ private_heap' = inits' /\ UNCHANGED rc
    <3>1. l = "provider" BY <1>1, <1>6, <2>1 DEF Goto, TypeOK
    <3>2. inits' \in 0 .. MaxInits /\ inits' \in 1 .. MaxInits
      BY SMT, <1>1, <1>10, <2>1, BoundsAssumption DEF TypeOK
    <3> QED BY <1>1, <2>1, <3>1, <3>2, BoundsAssumption DEF TypeOK
  <2>2. CASE Goto(t, "error") /\ Result(t, "NOMEM") /\ UNCHANGED <<inits, private_heap>>
    <3>1. l = "error" BY <1>1, <1>6, <2>2 DEF Goto, TypeOK
    <3> QED BY <1>1, <2>2, <3>1 DEF TypeOK, Result
  <2> QED BY <1>5, <2>1, <2>2
<1>12. TypeOK' BY <1>1, <1>3, <1>4, <1>7, <1>11 DEF TypeOK
<1>13. Allocated'
  <2>1. ~lateFailure => \A p \in alive : p \in Registered
    BY <1>1, <1>9, Providers DEF Allocated, TypeOK
  <2> QED BY <1>1, <1>3, <1>8, <1>9, <2>1 DEF Allocated
<1>14. Flags' BY <1>2, <1>3, Providers DEF Flags
<1>15. Stage(t)' BY <1>1, <1>3, <1>6, <1>7, <1>8, <1>9, <1>11 DEF Stage
<1>16. Holds(t)' BY <1>1, <1>3, <1>7 DEF Holds
<1> QED BY <1>7, <1>8, <1>12, <1>13, <1>14, <1>15, <1>16 DEF LifeInv

(* The built-in provider is registered, or an application's is there, or   *)
(* it is going to be freed.                                                *)
LEMMA ExtraProviderInv ==
  ASSUME LifeInv, NEW t \in Thread, ExtraProvider(t)
  PROVE  LifeInv'
<1>1. /\ pc[t] = "provider" /\ TypeOK /\ Control(t) /\ Holds(t) /\ Stage(t) /\ Flags /\ Allocated /\ ListInv
  BY DEF LifeInv, ExtraProvider
<1>2. /\ run[t] /\ isInit /\ ~inProgress /\ ~sqlcipher_init /\ main = t
      /\ \A u \in Thread : u # t => pc[u] \notin Extra
  BY <1>1, ExtraAlone DEF Extra
<1>3. /\ UNCHANGED <<depth, run, codec, calls, main, mainVars, cipherVars, history>>
      /\ UNCHANGED <<isInit, inProgress, pInitMutex, initHolder, sqlcipher_init, sqlcipher_shield_mask,
            sqlcipher_static_mutex, private_heap, private_heap_sz, inits, lateFailure>>
  BY DEF ExtraProvider, mainVars, cipherVars, history
<1>4. PICK l \in {"seed", "error"} : Goto(t, l) BY DEF ExtraProvider
<1>5. /\ provider' \in [Thread -> Provider \cup {Null}] /\ provider'[t] \in {Null, private_heap}
      /\ \A u \in Thread : u # t => provider'[u] = provider[u]
      /\ rc' \in [Thread -> {"OK", "NOMEM", "ERROR"}]
  <2>1. provider \in [Thread -> Provider \cup {Null}] /\ provider[t] = Null /\ private_heap \in Provider
    BY <1>1, Providers DEF TypeOK, Holds, Stage
  <2>2. UNCHANGED provider \/ provider' = [provider EXCEPT ![t] = private_heap] BY DEF ExtraProvider
  <2>3. rc' \in [Thread -> {"OK", "NOMEM", "ERROR"}] BY <1>1 DEF ExtraProvider, TypeOK, Result
  <2> QED BY <2>1, <2>2, <2>3
<1>6. /\ pc' \in [Thread -> Labels] /\ pc'[t] = l
      /\ InitMutexCounted' /\ nRefInitMutex' \in 0 .. 2 * Cardinality(Thread)
      /\ Single' /\ Control(t)'
      /\ \A u \in Thread : u # t => Control(u)' /\ Holds(u)' /\ Stage(u)' /\ pc'[u] \notin Extra
      /\ \A u \in Thread : codec'[u] = Null
  BY <1>1, <1>2, <1>3, <1>4, <1>5, ExtraStep DEF Extra
<1>7. private_heap \in Provider /\ private_heap # Null /\ private_heap \notin AppProvider
  BY <1>1, Providers DEF Stage, TypeOK
<1>8. /\ default_provider = Null => Registered = {}
      /\ ~lateFailure => alive \subseteq AppProvider /\ Registered \subseteq AppProvider
                         /\ \A p \in alive : p \in Registered
  <2>1. default_provider = Null => Registered = {} BY <1>1, Least
  <2>2. ~lateFailure => alive \subseteq AppProvider BY <1>1 DEF Stage
  <2> QED BY <1>1, <1>7, <2>1, <2>2 DEF Allocated
<1>9. Flags' BY <1>2, <1>3, Providers DEF Flags
<1>10. CASE UNCHANGED <<provider, registry>> /\ (l = "seed" => default_provider # Null)
  <2>1. UNCHANGED <<default_provider, next, alive>> BY <1>10 DEF registry
  <2>2. Registered' = Registered /\ ListInv' /\ Allocated'
    BY <1>1, <1>2, <1>3, <1>10, AllocatedKept DEF Extra
  <2>3. TypeOK' BY <1>1, <1>3, <1>5, <1>6, <2>1 DEF TypeOK
  <2>4. Stage(t)' BY <1>1, <1>3, <1>4, <1>6, <1>8, <1>10, <2>1, <2>2 DEF Stage
  <2>5. Holds(t)' BY <1>1, <1>6, <1>10 DEF Holds
  <2> QED BY <1>6, <1>9, <2>2, <2>3, <2>4, <2>5 DEF LifeInv
<1>11. CASE /\ default_provider = Null /\ l = "seed" /\ UNCHANGED provider
            /\ sqlcipher_register_provider(private_heap, TRUE) /\ alive' = alive \cup {private_heap}
  <2>1. /\ next' \in [Provider -> Provider \cup {Null}] /\ default_provider' = private_heap
        /\ Registered' = Registered \cup {private_heap} /\ ListInv'
    BY <1>1, <1>7, <1>11, Register
  <2>2. TypeOK' BY <1>1, <1>3, <1>5, <1>6, <1>7, <1>11, <2>1 DEF TypeOK
  <2>3. Allocated' BY <1>3, <1>8, <1>11, <2>1 DEF Allocated
  <2>4. Stage(t)' BY <1>1, <1>3, <1>6, <1>7, <1>11, <2>1 DEF Stage
  <2>5. Holds(t)' BY <1>1, <1>6, <1>11 DEF Holds
  <2> QED BY <1>6, <1>9, <2>1, <2>2, <2>3, <2>4, <2>5 DEF LifeInv
<1>12. CASE /\ default_provider = Null /\ l = "error" /\ provider' = [provider EXCEPT ![t] = private_heap]
            /\ sqlcipher_register_provider(private_heap, FALSE) /\ alive' = alive \cup {private_heap}
  <2>1. /\ next' \in [Provider -> Provider \cup {Null}] /\ default_provider' = default_provider
        /\ Registered' = Registered /\ ListInv'
    BY <1>1, <1>7, <1>8, <1>12, Register
  <2>2. TypeOK' BY <1>1, <1>3, <1>5, <1>6, <1>7, <1>12, <2>1 DEF TypeOK
  <2>3. Allocated' BY <1>1, <1>3, <1>6, <1>8, <1>12, <2>1 DEF Allocated
  <2>4. Stage(t)' BY <1>1, <1>3, <1>6, <1>8, <1>12, <2>1 DEF Stage
  <2>5. Holds(t)' BY <1>3, <1>5, <1>6, <1>12 DEF Holds
  <2> QED BY <1>6, <1>9, <2>1, <2>2, <2>3, <2>4, <2>5 DEF LifeInv
<1>13. \A k \in {"seed", "error"} : Goto(t, k) => k = l BY <1>1, <1>4 DEF Goto, TypeOK
<1> QED BY <1>10, <1>11, <1>12, <1>13 DEF ExtraProvider

(* The library is up, or fails late.                                       *)
LEMMA ExtraFinishInv ==
  ASSUME LifeInv, NEW t \in Thread, ExtraFinish(t)
  PROVE  LifeInv'
<1>1. /\ pc[t] = "seed" /\ TypeOK /\ Control(t) /\ Holds(t) /\ Stage(t) /\ Flags /\ Allocated /\ ListInv
  BY DEF LifeInv, ExtraFinish
<1>2. /\ run[t] /\ isInit /\ ~inProgress /\ ~sqlcipher_init /\ main = t
      /\ \A u \in Thread : u # t => pc[u] \notin Extra
  BY <1>1, ExtraAlone DEF Extra
<1>3. /\ UNCHANGED <<depth, run, provider, codec, calls, mainVars, registry, inits>>
      /\ UNCHANGED <<isInit, inProgress, pInitMutex, initHolder, sqlcipher_static_mutex,
            private_heap, private_heap_sz, default_provider, next, alive>>
  BY DEF ExtraFinish, mainVars, registry
<1>4. Registered' = Registered /\ ListInv' BY <1>1, <1>3, ListKept
<1>5. CASE /\ sqlcipher_shield_mask' = TRUE /\ sqlcipher_init' = TRUE
           /\ main' = Null /\ Goto(t, "auto") /\ UNCHANGED <<rc, lateFailure>>
  <2>1. /\ pc' \in [Thread -> Labels] /\ pc'[t] = "auto"
        /\ InitMutexCounted' /\ nRefInitMutex' \in 0 .. 2 * Cardinality(Thread)
        /\ Single' /\ Control(t)'
        /\ \A u \in Thread : u # t => Control(u)' /\ Holds(u)' /\ Stage(u)' /\ pc'[u] \notin Extra
        /\ \A u \in Thread : codec'[u] = Null
    BY <1>1, <1>3, <1>5, Providers, ExtraStep DEF Extra
  <2>2. Flags' BY <1>1, <1>2, <1>3, <1>5 DEF Flags, Stage
  <2>3. TypeOK' BY <1>1, <1>3, <1>5, <2>1 DEF TypeOK
  <2>4. Allocated' BY <1>1, <1>2, <1>3, <1>4, <1>5 DEF Allocated, Extra
  <2>5. Stage(t)' /\ Holds(t)' BY <1>1, <1>3, <2>1 DEF Stage, Holds
  <2> QED BY <1>4, <2>1, <2>2, <2>3, <2>4, <2>5 DEF LifeInv
<1>6. CASE /\ sqlcipher_shield_mask' \in {sqlcipher_shield_mask, TRUE} /\ lateFailure' = TRUE
           /\ Result(t, "ERROR") /\ Goto(t, "error") /\ UNCHANGED <<sqlcipher_init, main>>
  <2>1. /\ pc' \in [Thread -> Labels] /\ pc'[t] = "error"
        /\ InitMutexCounted' /\ nRefInitMutex' \in 0 .. 2 * Cardinality(Thread)
        /\ Single' /\ Control(t)'
        /\ \A u \in Thread : u # t => Control(u)' /\ Holds(u)' /\ Stage(u)' /\ pc'[u] \notin Extra
        /\ \A u \in Thread : codec'[u] = Null
    BY <1>1, <1>2, <1>3, <1>6, ExtraStep DEF Extra
  <2>2. Flags' BY <1>1, <1>2, <1>3, <1>6, Providers DEF Flags
  <2>3. TypeOK'
    <3>1. rc' \in [Thread -> {"OK", "NOMEM", "ERROR"}] BY <1>1, <1>6 DEF TypeOK, Result
    <3> QED BY <1>1, <1>3, <1>6, <2>1, <3>1 DEF TypeOK
  <2>4. Allocated' BY <1>6 DEF Allocated
  <2>5. Stage(t)' /\ Holds(t)' BY <1>1, <1>3, <1>6, <2>1 DEF Stage, Holds
  <2> QED BY <1>4, <2>1, <2>2, <2>3, <2>4, <2>5 DEF LifeInv
<1> QED BY <1>5, <1>6 DEF ExtraFinish

(* The error path frees what the failed initialisation has allocated.      *)
LEMMA ExtraErrorInv ==
  ASSUME LifeInv, NEW t \in Thread, ExtraError(t)
  PROVE  LifeInv'
<1>1. /\ pc[t] = "error" /\ TypeOK /\ Control(t) /\ Holds(t) /\ Stage(t) /\ Flags /\ Allocated /\ ListInv
  BY DEF LifeInv, ExtraError
<1>2. /\ run[t] /\ isInit /\ ~inProgress /\ ~sqlcipher_init /\ main = t
      /\ \A u \in Thread : u # t => pc[u] \notin Extra
  BY <1>1, ExtraAlone DEF Extra
<1>3. /\ UNCHANGED <<depth, run, rc, codec, calls, mainVars, sqlcipher_init, private_heap_sz,
                     default_provider, next, history>>
      /\ UNCHANGED <<isInit, inProgress, pInitMutex, initHolder, inits, lateFailure>>
      /\ provider' = [provider EXCEPT ![t] = Null] /\ private_heap' = Null
      /\ sqlcipher_shield_mask' = FALSE /\ sqlcipher_static_mutex' = FALSE
      /\ main' = Null /\ Goto(t, "return") /\ alive' = alive \ {provider[t], private_heap}
  BY DEF ExtraError, mainVars, history
<1>4. /\ provider' \in [Thread -> Provider \cup {Null}] /\ provider'[t] = Null
      /\ \A u \in Thread : u # t => provider'[u] = provider[u]
  BY <1>1, <1>3 DEF TypeOK
<1>5. /\ pc' \in [Thread -> Labels] /\ pc'[t] = "return"
      /\ InitMutexCounted' /\ nRefInitMutex' \in 0 .. 2 * Cardinality(Thread)
      /\ Single' /\ Control(t)'
      /\ \A u \in Thread : u # t => Control(u)' /\ Holds(u)' /\ Stage(u)' /\ pc'[u] \notin Extra
      /\ \A u \in Thread : codec'[u] = Null
  BY <1>1, <1>3, <1>4, Providers, ExtraStep DEF Extra
<1>6. Registered' = Registered /\ ListInv' BY <1>1, <1>3, ListKept
<1>7. Flags' BY <1>2, <1>3 DEF Flags
<1>8. TypeOK' BY <1>1, <1>3, <1>4, <1>5 DEF TypeOK
<1>9. Allocated'
  <2>1. provider[t] \in {Null, private_heap} BY <1>1 DEF Holds
  <2>2. private_heap \notin AppProvider /\ Null \notin AppProvider
    BY <1>1, Providers, BoundsAssumption DEF TypeOK
  <2>3. ~lateFailure => Registered \subseteq AppProvider BY <1>1 DEF Stage
  <2> QED BY <1>1, <1>3, <1>6, <2>1, <2>2, <2>3 DEF Allocated
<1>10. Stage(t)' /\ Holds(t)' BY <1>4, <1>5 DEF Stage, Holds
<1> QED BY <1>5, <1>6, <1>7, <1>8, <1>9, <1>10 DEF LifeInv

-----------------------------------------------------------------------------
(* The steps of a thread that is in no call of sqlite3_initialize.         *)
LEMMA OutsideCounted ==
  ASSUME LifeInv, UNCHANGED <<depth, nRefInitMutex, pInitMutex>>,
         \A u \in Thread : pc'[u] = pc[u] \/ (pc[u] = "return" /\ pc'[u] = "idle")
  PROVE  InitMutexCounted'
<1>1. Inside' = Inside /\ Outer' = Outer BY DEF Inside, Outer
<1>2. nRefInitMutex = Cardinality(Inside) + Cardinality(Outer) /\ pInitMutex = (nRefInitMutex > 0)
  BY Counted DEF LifeInv
<1>3. /\ nRefInitMutex' = Cardinality(Inside') + Cardinality(Outer')
      /\ pInitMutex' = (nRefInitMutex' > 0)
  BY <1>1, <1>2
<1> QED BY <1>3 DEF InitMutexCounted, Inside, Outer

(* A codec is attached to the heap and the provider that are there.        *)
LEMMA CodecAttachInv ==
  ASSUME LifeInv, NEW t \in Thread, sqlcipherCodecAttach(t)
  PROVE  LifeInv'
<1>1. pc[t] = "return" /\ TypeOK /\ Flags /\ ListInv /\ Allocated /\ Single
  BY DEF LifeInv, sqlcipherCodecAttach
<1>2. /\ UNCHANGED <<depth, run, rc, provider, calls, main, pInitMutex, initHolder, nRefInitMutex, isInit,
                     inProgress, cipherVars, registry, history>>
      /\ UNCHANGED <<sqlcipher_init, sqlcipher_shield_mask, sqlcipher_static_mutex, private_heap,
                     private_heap_sz, default_provider, next, alive, inits, lateFailure>>
      /\ Goto(t, "idle")
  BY DEF sqlcipherCodecAttach, mainVars, cipherVars, registry, history
<1>3. pc' \in [Thread -> Labels] /\ pc'[t] = "idle" /\ \A u \in Thread : u # t => pc'[u] = pc[u]
  BY <1>2, Moves DEF Labels
<1> DEFINE x == IF sqlcipher_init THEN [heap |-> private_heap, provider |-> default_provider] ELSE Null
<1>4. codec' = [codec EXCEPT ![t] = x] BY DEF sqlcipherCodecAttach
<1>5. sqlcipher_init => /\ private_heap \in 1 .. MaxInits /\ default_provider \in Provider
                        /\ default_provider \in Registered
  BY <1>1, Least DEF Flags, TypeOK
<1>6. sqlcipher_init =>
        /\ x \in [heap : 1 .. MaxInits, provider : Provider]
        /\ x.heap = private_heap /\ x.provider = default_provider
  BY SMT, <1>5
<1>7. x \in [heap : 1 .. MaxInits, provider : Provider] \cup {Null} BY <1>6
<1> HIDE DEF x
<1>8. codec' \in [Thread -> [heap : 1 .. MaxInits, provider : Provider] \cup {Null}]
  BY <1>1, <1>4, <1>7 DEF TypeOK
<1>9. codec'[t] = x /\ \A u \in Thread : u # t => codec'[u] = codec[u] BY <1>1, <1>4 DEF TypeOK
<1>10. TypeOK' BY <1>1, <1>2, <1>3, <1>8 DEF TypeOK
<1>11. InitMutexCounted' BY <1>1, <1>2, <1>3, OutsideCounted
<1>12. Flags' BY <1>1, <1>2, FlagsKept
<1>13. Registered' = Registered /\ ListInv' /\ Allocated'
  BY <1>1, <1>2, <1>3, AllocatedKept
<1>14. \A u \in Thread : Active(u)' => Active(u) BY <1>1, <1>2, <1>3 DEF Active, Ended
<1>15. Single' BY <1>1, <1>14 DEF Single
<1>16. ASSUME NEW u \in Thread PROVE Control(u)' /\ Holds(u)' /\ Stage(u)'
  <2>1. Control(u) /\ Holds(u) /\ Stage(u) BY DEF LifeInv
  <2>2. CASE u # t
    <3>1. Control(u)' BY <1>2, <1>3, <2>1, <2>2 DEF Control
    <3>2. Holds(u)' BY <1>2, <1>3, <1>9, <2>1, <2>2 DEF Holds
    <3>3. Stage(u)' BY <1>2, <1>3, <1>13, <2>1, <2>2 DEF Stage
    <3> QED BY <3>1, <3>2, <3>3
  <2>3. CASE u = t
    <3>1. Control(u)' BY <1>1, <1>2, <1>3, <2>1, <2>3 DEF Control, Extra, Ended
    <3>2. provider'[t] = Null BY <1>1, <1>2, <2>1, <2>3 DEF Holds
    <3>3. x # Null => sqlcipher_init BY DEF x
    <3>4. sqlcipher_init /\ ~lateFailure => default_provider \in alive BY <1>1, <1>5 DEF Allocated
    <3>5. Holds(u)' BY <1>2, <1>3, <1>6, <1>9, <2>3, <3>2, <3>3, <3>4 DEF Holds
    <3>6. Stage(u)' BY <1>3, <2>3 DEF Stage
    <3> QED BY <3>1, <3>5, <3>6
  <2> QED BY <2>2, <2>3
<1> QED BY <1>10, <1>11, <1>12, <1>13, <1>15, <1>16 DEF LifeInv

(* A connection is closed and its codec freed.                             *)
LEMMA FreeCodecArgInv ==
  ASSUME LifeInv, NEW t \in Thread, sqlite3FreeCodecArg(t)
  PROVE  LifeInv'
<1>1. TypeOK /\ Flags /\ ListInv /\ Allocated /\ Single BY DEF LifeInv
<1>2. /\ UNCHANGED <<pc, depth, run, rc, provider, calls, main, pInitMutex, initHolder, nRefInitMutex,
                     isInit, inProgress, cipherVars, registry, history>>
      /\ UNCHANGED <<sqlcipher_init, sqlcipher_shield_mask, sqlcipher_static_mutex, private_heap,
                     private_heap_sz, default_provider, next, alive, inits, lateFailure>>
      /\ codec' = [codec EXCEPT ![t] = Null]
  BY DEF sqlite3FreeCodecArg, threadVars, mainVars, cipherVars, registry, history
<1>3. /\ codec' \in [Thread -> [heap : 1 .. MaxInits, provider : Provider] \cup {Null}]
      /\ codec'[t] = Null /\ \A u \in Thread : u # t => codec'[u] = codec[u]
  BY <1>1, <1>2 DEF TypeOK
<1>4. TypeOK' BY <1>1, <1>2, <1>3 DEF TypeOK
<1>5. InitMutexCounted' BY <1>2, OutsideCounted
<1>6. Flags' BY <1>1, <1>2, FlagsKept
<1>7. Registered' = Registered /\ ListInv' /\ Allocated' BY <1>2, AllocatedKept
<1>8. Single' BY <1>1, <1>2 DEF Single, Active
<1>9. ASSUME NEW u \in Thread PROVE Control(u)' /\ Holds(u)' /\ Stage(u)'
  <2>1. Control(u) /\ Holds(u) /\ Stage(u) BY DEF LifeInv
  <2>2. Control(u)' BY <1>2, <2>1 DEF Control
  <2>3. Holds(u)' BY <1>2, <1>3, <2>1 DEF Holds
  <2>4. Stage(u)' BY <1>2, <1>7, <2>1 DEF Stage
  <2> QED BY <2>2, <2>3, <2>4
<1> QED BY <1>4, <1>5, <1>6, <1>7, <1>8, <1>9 DEF LifeInv

(* An application registers a provider of its own while no one             *)
(* initialises.                                                            *)
LEMMA RegisterProviderInv ==
  ASSUME LifeInv, NEW t \in Thread, NEW p \in AppProvider, RegisterProvider(t, p)
  PROVE  LifeInv'
<1>1. /\ TypeOK /\ Flags /\ ListInv /\ Allocated /\ Single /\ p \in Provider
      /\ \A u \in Thread : pc[u] \in Ended
  BY DEF LifeInv, RegisterProvider, Provider, Ended
<1>2. /\ UNCHANGED <<pc, depth, run, rc, provider, codec, main, pInitMutex, initHolder, nRefInitMutex,
                     isInit, inProgress, cipherVars, history>>
      /\ UNCHANGED <<sqlcipher_init, sqlcipher_shield_mask, sqlcipher_static_mutex, private_heap,
                     private_heap_sz, inits, lateFailure>>
  BY DEF RegisterProvider, threadVars, mainVars, cipherVars, history
<1>3. calls' \in [Thread -> 0 .. MaxCalls] BY SMT, <1>1, BoundsAssumption DEF RegisterProvider, TypeOK
<1>4. PICK initOk \in BOOLEAN : /\ sqlcipher_register_provider(p, initOk)
                                /\ alive' = IF initOk THEN alive \cup {p} ELSE alive
  BY DEF RegisterProvider
<1>5. /\ next' \in [Provider -> Provider \cup {Null}] /\ default_provider' \in {default_provider, p}
      /\ p \in Registered \/ initOk => Registered' = Registered \cup {p}
      /\ ~(p \in Registered \/ initOk) => Registered' = Registered
      /\ ListInv'
  BY <1>1, <1>4, Register
<1>6. alive \subseteq alive' /\ alive' \subseteq alive \cup {p} /\ (initOk => p \in alive') BY <1>4
<1>7. TypeOK' BY <1>1, <1>2, <1>3, <1>5, <1>6 DEF TypeOK
<1>8. InitMutexCounted' BY <1>2, OutsideCounted
<1>9. Flags'
  <2>1. default_provider # Null => default_provider' # Null BY <1>1, <1>5, Providers
  <2> QED BY SMT, <1>1, <1>2, <2>1 DEF Flags
<1>10. Allocated'
  <2>1. \A u \in Thread : pc[u] # "error" BY <1>1 DEF Ended
  <2>2. ASSUME ~lateFailure PROVE Registered' \subseteq alive'
    BY <1>1, <1>5, <1>6, <2>2 DEF Allocated
  <2>3. ASSUME ~lateFailure, NEW q \in alive' PROVE q \in Registered'
    <3>1. CASE initOk BY <1>1, <1>5, <1>6, <2>1, <2>3, <3>1 DEF Allocated
    <3>2. CASE ~initOk BY <1>1, <1>4, <1>5, <2>1, <2>3, <3>2 DEF Allocated
    <3> QED BY <3>1, <3>2
  <2>4. ~lateFailure => alive' \subseteq AppProvider \cup {private_heap}
    BY <1>1, <1>6 DEF Allocated
  <2> QED BY <1>2, <2>2, <2>3, <2>4 DEF Allocated
<1>11. Single' BY <1>1, <1>2 DEF Single, Active
<1>12. ASSUME NEW u \in Thread PROVE Control(u)' /\ Holds(u)' /\ Stage(u)'
  <2>1. Control(u) /\ Holds(u) /\ Stage(u) BY DEF LifeInv
  <2>2. Control(u)' BY <1>2, <2>1 DEF Control
  <2>3. Holds(u)' BY <1>2, <1>6, <2>1 DEF Holds
  <2>4. Stage(u)' BY <1>1, <1>2 DEF Stage, Ended
  <2> QED BY <2>2, <2>3, <2>4
<1> QED BY <1>5, <1>7, <1>8, <1>9, <1>10, <1>11, <1>12 DEF LifeInv

(* sqlite3_shutdown frees every provider on the list.                      *)
LEMMA ShutdownInv ==
  ASSUME LifeInv, NEW t \in Thread, sqlite3_shutdown(t)
  PROVE  LifeInv'
<1>1. /\ TypeOK /\ Flags /\ ListInv /\ Allocated /\ Single /\ inits < MaxInits
      /\ \A u \in Thread : pc[u] = "idle" /\ codec[u] = Null /\ Control(u) /\ Holds(u)
  BY DEF LifeInv, sqlite3_shutdown
<1>2. /\ UNCHANGED <<pc, depth, run, rc, provider, codec, main, pInitMutex, initHolder, nRefInitMutex,
                     inProgress, private_heap_sz, inits, lateFailure>>
      /\ isInit' = FALSE
  BY DEF sqlite3_shutdown, threadVars, history
<1>3. calls' \in [Thread -> 0 .. MaxCalls] BY SMT, <1>1, BoundsAssumption DEF sqlite3_shutdown, TypeOK
<1>4. main = Null BY <1>1 DEF Control, Extra, TypeOK
<1>5. InitMutexCounted' BY <1>2, OutsideCounted
<1>6. Single' BY <1>1, <1>2 DEF Single, Active, Ended
<1>7. ASSUME NEW u \in Thread PROVE Control(u)' /\ Holds(u)' /\ Stage(u)'
  <2>1. Control(u)' BY <1>1, <1>2 DEF Control, Extra, Ended
  <2>2. Holds(u)' BY <1>1, <1>2 DEF Holds
  <2>3. Stage(u)' BY <1>1, <1>2 DEF Stage
  <2> QED BY <2>1, <2>2, <2>3
<1>8. CASE isInit /\ sqlcipher_init
  <2>1. /\ sqlcipher_init' = FALSE /\ sqlcipher_shield_mask' = FALSE /\ private_heap' = Null
        /\ sqlcipher_static_mutex' = FALSE /\ alive' = alive \ Registered
        /\ default_provider' = Null /\ next' = next
    BY <1>8 DEF sqlite3_shutdown, sqlcipher_extra_shutdown
  <2>2. Registered' = {}
    <3>1. Closed({})' BY <2>1 DEF Closed
    <3>2. {} \in SUBSET Provider OBVIOUS
    <3> QED BY <3>1, <3>2 DEF Registered
  <2>3. ListInv' BY <2>2 DEF ListInv
  <2>4. ~lateFailure => alive' = {} BY <1>1, <2>1 DEF Allocated
  <2>5. Allocated' BY <1>2, <2>2, <2>4 DEF Allocated
  <2>6. TypeOK' BY <1>1, <1>2, <1>3, <2>1 DEF TypeOK
  <2>7. Flags' BY <1>1, <1>2, <2>1 DEF Flags
  <2> QED BY <1>5, <1>6, <1>7, <2>3, <2>5, <2>6, <2>7 DEF LifeInv
<1>9. CASE ~(isInit /\ sqlcipher_init)
  <2>1. sqlcipher_init = FALSE BY <1>1, <1>9 DEF Flags, TypeOK
  <2>2. /\ UNCHANGED <<sqlcipher_shield_mask, private_heap, sqlcipher_static_mutex, registry>>
        /\ sqlcipher_init' = FALSE
    BY <2>1 DEF sqlite3_shutdown, sqlcipher_extra_shutdown
  <2>3. UNCHANGED <<default_provider, next, alive>> BY <2>2 DEF registry
  <2>4. ListInv' /\ Allocated' BY <1>2, <2>2, AllocatedKept
  <2>5. TypeOK' BY <1>1, <1>2, <1>3, <2>2, <2>3 DEF TypeOK
  <2>6. Flags' BY <1>1, <1>2, <1>4, <2>1, <2>2 DEF Flags
  <2> QED BY <1>5, <1>6, <1>7, <2>4, <2>5, <2>6 DEF LifeInv
<1> QED BY <1>8, <1>9

-----------------------------------------------------------------------------
(* A step that changes nothing.                                            *)
LEMMA StutterInv ==
  ASSUME LifeInv, UNCHANGED vars
  PROVE  LifeInv'
<1>1. /\ UNCHANGED <<pc, depth, run, rc, provider, codec, calls, main, pInitMutex, initHolder,
                     nRefInitMutex, isInit, inProgress, cipherVars, registry, history>>
      /\ UNCHANGED <<sqlcipher_init, sqlcipher_shield_mask, sqlcipher_static_mutex, private_heap,
                     private_heap_sz, default_provider, next, alive, inits, lateFailure>>
  BY DEF vars, threadVars, mainVars, cipherVars, registry, history
<1>2. TypeOK /\ Flags /\ Single /\ \A u \in Thread : Control(u) /\ Holds(u) /\ Stage(u) BY DEF LifeInv
<1>3. TypeOK' BY <1>1, <1>2 DEF TypeOK
<1>4. InitMutexCounted' BY <1>1, OutsideCounted
<1>5. Flags' BY <1>1, <1>2, FlagsKept
<1>6. Registered' = Registered /\ ListInv' /\ Allocated'
  <2>1. Registered' = Registered /\ ListInv' BY <1>1, ListKept DEF LifeInv
  <2>2. Allocated BY DEF LifeInv
  <2>3. Allocated' BY SMT, <1>1, <2>1, <2>2 DEF Allocated
  <2> QED BY <2>1, <2>3
<1>7. Single' BY <1>1, <1>2 DEF Single, Active
<1>8. ASSUME NEW u \in Thread PROVE Control(u)' /\ Holds(u)' /\ Stage(u)'
  <2>1. Control(u)' BY <1>1, <1>2 DEF Control
  <2>2. Holds(u)' BY <1>1, <1>2 DEF Holds
  <2>3. Stage(u)' BY <1>1, <1>2, <1>6 DEF Stage
  <2> QED BY <2>1, <2>2, <2>3
<1> QED BY <1>3, <1>4, <1>5, <1>6, <1>7, <1>8 DEF LifeInv

(* The invariant holds before the first call.                              *)
LEMMA InitInv ==
  Init => LifeInv
<1> SUFFICES ASSUME Init PROVE LifeInv
  OBVIOUS
<1> USE DEF Init
<1>1. TypeOK
  <2>1. /\ 0 \in 0 .. 1 /\ 0 \in 0 .. MaxCalls /\ 0 \in 0 .. MaxInits /\ HeapSteps \in 0 .. HeapSteps
    BY SMT, BoundsAssumption
  <2>2. Cardinality(Thread) \in Nat BY BoundsAssumption, FS_CardinalityType
  <2>3. 0 \in 0 .. 2 * Cardinality(Thread) BY SMT, <2>2
  <2> QED BY <2>1, <2>3 DEF TypeOK, Labels
<1>2. InitMutexCounted
  <2>1. 0 # 1 /\ 0 = 0 + 0 /\ FALSE = (0 > 0) BY SMT
  <2>2. Inside = {} /\ Outer = {} BY <2>1 DEF Inside, Outer
  <2>3. Cardinality({}) = 0 BY FS_EmptySet
  <2> QED BY <2>1, <2>2, <2>3, Counted
<1>3. Flags BY SMT, BoundsAssumption DEF Flags
<1>4. Registered = {}
  <2>1. Closed({}) BY DEF Closed
  <2>2. {} \in SUBSET Provider OBVIOUS
  <2> QED BY <2>1, <2>2 DEF Registered
<1>5. ListInv /\ Allocated BY <1>4 DEF ListInv, Allocated
<1>6. 0 # 1 BY SMT
<1>7. Single BY <1>6 DEF Single, Active, Ended
<1>8. ASSUME NEW t \in Thread PROVE Control(t) /\ Holds(t) /\ Stage(t)
  BY <1>6, Providers DEF Control, Holds, Stage, Extra, Ended
<1> QED BY <1>1, <1>2, <1>3, <1>5, <1>7, <1>8 DEF LifeInv

(* Every step of every thread keeps the invariant.                         *)
LEMMA NextInv ==
  LifeInv /\ [Next]_vars => LifeInv'
<1> SUFFICES ASSUME LifeInv, [Next]_vars PROVE LifeInv'
  OBVIOUS
<1>1. ASSUME NEW t \in Thread, Step(t) PROVE LifeInv'
  BY <1>1, InitMutexRefInv, EnterInitMutexInv, OsInitInv, LeaveInitMutexInv, InitMutexUnrefInv,
     ExtraEnterInv, ExtraMutexesInv, ExtraHeapInv, ExtraProviderInv, ExtraFinishInv, ExtraErrorInv,
     EndsInv, CodecAttachInv DEF Step
<1>2. ASSUME NEW t \in Thread, NEW p \in AppProvider, RegisterProvider(t, p) PROVE LifeInv'
  BY <1>2, RegisterProviderInv
<1> QED BY <1>1, <1>2, InitializeInv, FreeCodecArgInv, ShutdownInv, StutterInv DEF Next

(* The inductive invariant holds whatever the threads do.                  *)
THEOREM LifecycleInvariant == Spec => []LifeInv
BY InitInv, NextInv, PTL DEF Spec

(* Every flag, pointer and counter of the start and stop of the library    *)
(* keeps its type; nRefInitMutex stays within twice the number of threads. *)
THEOREM LifecycleTypeOK == Spec => []TypeOK
<1>1. LifeInv => TypeOK BY DEF LifeInv
<1> QED BY <1>1, LifecycleInvariant, PTL

(* pInitMutex exists exactly as long as some thread of sqlite3_initialize  *)
(* is counted for it, for any number of threads.                           *)
THEOREM InitMutexIsCounted == Spec => []InitMutexCounted
<1>1. LifeInv => InitMutexCounted BY DEF LifeInv
<1> QED BY <1>1, LifecycleInvariant, PTL

(* At most one thread is between the start of sqlite3_os_init and the end  *)
(* of sqlcipher_extra_init, although the latter runs outside pInitMutex.   *)
THEOREM InitialisersSerialised == Spec => []OneInitialiser
<1>1. ASSUME LifeInv PROVE OneInitialiser
  <2> DEFINE S == {t \in Thread : pc[t] \in {"os", "extra", "mutexes", "heap", "provider", "seed",
                                             "auto", "error"} \/ depth[t] = 1}
  <2>1. \A t \in S : t \in Thread /\ Active(t)
    BY <1>1 DEF LifeInv, Control, Active, Extra, Ended
  <2>2. \A t, u \in S : t = u BY <1>1, <2>1 DEF LifeInv, Single
  <2>3. Cardinality(S) <= 1
    <3>1. CASE S = {}
      <4>1. Cardinality(S) = 0 BY <3>1, FS_EmptySet
      <4> QED BY SMT, <4>1
    <3>2. CASE S # {}
      <4>1. PICK t : t \in S BY <3>2
      <4>2. S = {t} BY <2>2, <4>1
      <4>3. Cardinality({t}) = 1 BY FS_Singleton
      <4>4. Cardinality(S) = 1 BY <4>2, <4>3
      <4> QED BY SMT, <4>4
    <3> QED BY <3>1, <3>2
  <2> QED BY <2>3 DEF OneInitialiser
<1> QED BY <1>1, LifecycleInvariant, PTL

(* A codec points into the heap that is there and to an allocated          *)
(* provider, as long as no initialisation failed late.                     *)
THEOREM CodecsAreLive == Spec => []CodecLive
<1>1. LifeInv => CodecLive BY DEF LifeInv, CodecLive, Holds, Flags
<1> QED BY <1>1, LifecycleInvariant, PTL

(* The list of providers has neither a repetition nor a cycle.             *)
THEOREM RegistryStaysList == Spec => []RegistryIsList
<1>1. LifeInv => RegistryIsList BY DEF LifeInv, RegistryIsList, ListInv, Allocated
<1> QED BY <1>1, LifecycleInvariant, PTL

(* Outside an initialisation nothing but an application's providers is     *)
(* left.                                                                   *)
THEOREM NothingIsLeft == Spec => []NothingLeft
<1>1. ASSUME LifeInv, ~isInit, ~inProgress, ~lateFailure
      PROVE  /\ private_heap = Null /\ ~sqlcipher_shield_mask /\ ~sqlcipher_static_mutex
             /\ alive = Registered /\ alive \subseteq AppProvider
  <2>1. TypeOK /\ Flags /\ Allocated /\ \A t \in Thread : Control(t) BY <1>1 DEF LifeInv
  <2>2. \A t \in Thread : pc[t] \notin Extra BY <1>1, <2>1 DEF Control, Extra, Ended
  <2>3. main = Null BY <2>1, <2>2 DEF Control, TypeOK
  <2>4. private_heap = Null /\ ~sqlcipher_shield_mask /\ ~sqlcipher_static_mutex
    BY <1>1, <2>1, <2>3 DEF Flags
  <2>5. alive = Registered BY <1>1, <2>1, <2>2 DEF Allocated, Extra
  <2>6. alive \subseteq AppProvider BY <1>1, <2>1, <2>4, Providers DEF Allocated, TypeOK
  <2> QED BY <2>4, <2>5, <2>6
<1>2. LifeInv => NothingLeft BY <1>1 DEF NothingLeft
<1> QED BY <1>2, LifecycleInvariant, PTL
=============================================================================
