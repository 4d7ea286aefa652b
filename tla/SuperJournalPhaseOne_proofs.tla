--------------------- MODULE SuperJournalPhaseOne_proofs --------------------
(***************************************************************************)
(* The steps of SuperJournal that play a journal back, open or write one,  *)
(* or write the pages of phase one of a commit keep the inductive          *)
(* invariant.                                                              *)
(***************************************************************************)
EXTENDS SuperJournalSteps_proofs

USE Zenon

-----------------------------------------------------------------------------
(* Steps that change a file or its journal.                                *)

(* Where it is then.                                                       *)
LEMMA Arrives ==
  ASSUME Types, NEW c \in Conn, NEW label, NEW l, GoesTo(c, label, l)
  PROVE  /\ pc' \in [Conn -> Labels] /\ loc' \in [Conn -> Local]
         /\ pc'[c] = label /\ loc'[c] = l /\ F(c)' = l.f
         /\ \A d \in Conn : d # c => pc'[d] = pc[d] /\ loc'[d] = loc[d]
  BY Moves DEF GoesTo

(* The file that such a step changes keeps its invariant.                  *)
LEMMA OwnFileInv ==
  ASSUME IInv, NEW c \in Conn, Apart(c), Older(c), NEW f \in File, OneFile(f), OwnFile(c, f), OwnNames(c, f)
  PROVE  FileInv(f)'
<1>1. Types /\ NamesInv(f) /\ NumbersInv
  BY DEF IInv, FileInv
<1> USE <1>1
<1>2. HotInv(f)'
  <2>1. SUFFICES ASSUME IsHot(f)', NEW d \in Conn, Holds(d, f)', d # c
                 PROVE  FALSE
    BY DEF HotInv, OwnFile
  <2> USE <2>1
  <2>2. Exc(c, f) /\ Holds(d, f)
    BY OthersSame DEF OwnFile
  <2> QED BY <2>2, Disjoint
<1>3. GoneInv(f)'
  <2>1. Delete' <=> Delete
    BY DEF Apart, Delete, Env
  <2> QED BY <2>1 DEF GoneInv, OwnFile
<1>4. NamesInv(f)'
  <2>1. SUFFICES ASSUME NEW j \in jrnlDisk'[f], j # Null, j.super # Null
                 PROVE  /\ j.super <= nTx'
                        /\ \A d \in Conn : ActiveAs(d, j.super)' => Multi(d)' /\ pc'[d] \in Committing
                        /\ \A s \in superDisk'[j.super] : s # Null => f \in s
    BY DEF NamesInv
  <2> USE <2>1
  <2>2. j.super \in 1 .. MaxTx /\ nTx' = nTx /\ superDisk' = superDisk
    <3>1. j \in Journal /\ nTx' = nTx /\ superDisk' = superDisk
      BY DEF OneFile
    <3> QED BY <3>1 DEF Journal
  <2> USE <2>2
  <2>3. CASE \E i \in jrnlDisk[f] : i # Null /\ i.super = j.super
    <3>1. /\ j.super <= nTx
          /\ \A d \in Conn : ActiveAs(d, j.super) => Multi(d) /\ pc[d] \in Committing
          /\ \A s \in superDisk[j.super] : s # Null => f \in s
      BY <2>3 DEF NamesInv
    <3> USE <3>1
    <3>2. ASSUME NEW d \in Conn, ActiveAs(d, j.super)' PROVE Multi(d)' /\ pc'[d] \in Committing
      <4> USE <3>2
      <4>1. CASE d = c
        BY <4>1 DEF Older
      <4>2. CASE d # c
        BY <4>2, OthersSame
      <4> QED BY <4>1, <4>2
    <3> QED BY <3>2
  <2>4. CASE ActiveAs(c, j.super) /\ Multi(c)' /\ pc'[c] \in Committing /\ \A s \in superDisk[j.super] : f \in s
    <3> USE <2>4
    <3>1. j.super <= nTx
      BY DEF NumbersInv, ActiveAs
    <3>2. ASSUME NEW d \in Conn, ActiveAs(d, j.super)' PROVE d = c
      <4>1. d # c => ActiveAs(d, j.super)
        BY <3>2, OthersSame
      <4> QED BY <4>1 DEF NumbersInv, ActiveAs
    <3> QED BY <3>1, <3>2
  <2> QED BY <2>3, <2>4 DEF OwnNames
<1> QED BY <1>2, <1>3, <1>4 DEF FileInv, OwnFile

(* A step that changes one file.                                           *)
LEMMA FileStep ==
  ASSUME FiniteSetFacts, IInv, NEW c \in Conn, NEW f \in File, NEW label, NEW l, GoesTo(c, label, l), OneFile(f), LocksApart(c),
         TxKept(c), OwnFile(c, f), OwnNames(c, f), PowerSafe(c, f, label, l),
         \A g \in File : g # f /\ IsHot(g) /\ Holds(c, g)' => Exc(c, g)',
         pc[c] = "phasetwo" =>
           \/ loc[c].todo \subseteq {f}
           \/ label = "phasetwo" /\ l.write = loc[c].write /\ loc[c].todo \ {f} \subseteq l.todo,
         ConnInv(c)', ColdInv(c)'
  PROVE  IInv'
<1>1. /\ pc' \in [Conn -> Labels] /\ loc' \in [Conn -> Local]
      /\ pc'[c] = label /\ loc'[c] = l /\ F(c)' = l.f
      /\ \A d \in Conn : d # c => pc'[d] = pc[d] /\ loc'[d] = loc[d]
  BY Arrives DEF IInv
<1> USE <1>1
<1>2. Apart(c)
  BY DEF Apart, GoesTo, OneFile, LocksApart
<1> USE <1>2
<1>3. Types'
  <2>1. /\ scenario \in DOMAIN Scenario /\ nTx \in 0 .. MaxTx /\ calls \in [Conn -> Nat] /\ nFault \in Nat
        /\ super \in [1 .. MaxTx -> (SUBSET File) \cup {Null}]
        /\ superDisk \in [1 .. MaxTx -> SUBSET ((SUBSET File) \cup {Null})]
    BY DEF IInv, Types
  <2>2. /\ db' \in [File -> Version \cup {Torn}] /\ jrnl' \in [File -> Journal \cup {Null}]
        /\ dbDisk' \in [File -> SUBSET (Version \cup {Torn})] /\ jrnlDisk' \in [File -> SUBSET (Journal \cup {Null})]
        /\ current' \in [File -> Version] /\ durable' \in [File -> Version]
        /\ cache' \in [Conn -> [File -> Version \cup {Null, Torn}]] /\ lock' \in [Handle -> Level] /\ Exclusion'
    BY DEF OneFile, GoesTo, LocksApart
  <2>3. super' = super /\ superDisk' = superDisk /\ scenario' = scenario /\ nTx' = nTx /\ calls' = calls /\ nFault' = nFault
    BY DEF OneFile
  <2> QED BY <2>1, <2>2, <2>3, TypesFrom
<1> USE <1>3
<1>4. /\ NumbersInv' /\ Older(c)
      /\ \A g \in File : current'[g] = current[g] => current'[g][2] + Cardinality(Pending(g)') <= nTx'
      /\ \A g \in File : durable'[g] \in {durable[g], current[g]} => durable'[g][2] <= nTx'
  BY NumbersKept
<1> USE <1>4
<1>5. CounterInv'
  <2>1. \A g \in File : current'[g][2] + Cardinality(Pending(g)') <= nTx'
    BY DEF OneFile, OwnFile
  <2>2. durable'[f] = current'[f] => durable'[f][2] <= nTx'
    <3>1. Cardinality(Pending(f)') \in Nat
      <4>1. Pending(f)' \subseteq Conn /\ IsFiniteSet(Conn)
        BY SuperJournalAssumption DEF Pending
      <4>2. IsFiniteSet(Pending(f)')
        BY <4>1 DEF FiniteSetFacts, SubsetsFinite
      <4> QED BY <4>2 DEF FiniteSetFacts, CardinalityIsNat
    <3>2. current'[f] \in Version /\ nTx' \in 0 .. MaxTx
      BY DEF Types, TypeOK
    <3>3. current'[f][2] \in Nat /\ nTx' \in Nat
      BY SMT, <3>2, SuperJournalAssumption DEF Version
    <3>4. current'[f][2] <= nTx'
      BY SMT, <2>1, <3>1, <3>3
    <3> QED BY <3>4
  <2>3. \A g \in File : durable'[g][2] <= nTx'
    BY <2>2 DEF OneFile, OwnFile
  <2> QED BY <2>1, <2>3 DEF CounterInv
<1>6. \A g \in File : g # f => (IsGone(g)' <=> IsGone(g)) /\ (Harmless(g)' <=> Harmless(g)) /\ \A n : Names(g, n)' <=> Names(g, n)
  BY DEF IsGone, Gone, Harmless, Names, OneFile
<1> USE <1>6
<1>7. Changes(c)
  BY DEF Changes, OneFile, OwnFile
<1>8. \A n \in 1 .. MaxTx : SuperInv(n)'
  BY DEF IInv, SuperInv, OneFile
<1>9. FileInv(f)'
  BY OwnFileInv
<1>10. ASSUME NEW g \in File, g # f PROVE Kept(c, g)
  <2> USE <1>10
  <2>1. IsGone(g) /\ pc[c] = "phasetwo" /\ Multi(c) /\ g \in loc[c].todo => pc'[c] = "phasetwo" /\ Multi(c)' /\ g \in loc'[c].todo
    BY DEF Multi
  <2> QED BY <2>1 DEF Kept, OneFile
<1>11. PowerInv'
  <2>1. (PowerAhead' <=> PowerAhead) /\ superDisk' = superDisk
    BY SameFaults DEF OneFile
  <2> USE <2>1
  <2>2. PowerAhead' => PowerAhead /\ loc'[c].zSuper = Null
    BY DEF PowerSafe
  <2>3. ASSUME PowerAhead', NEW g \in File
        PROVE  \/ PowerFile(g)'
               \/ /\ jrnl'[g] = jrnl[g] /\ jrnlDisk'[g] = jrnlDisk[g]
                  /\ Names(g, Null) \/ g \notin loc[c].opened \/ pc[c] \notin Committing
                     \/ (g \in loc'[c].opened /\ pc'[c] \in Committing)
                  /\ \A j \in jrnlDisk[g] : j # Null /\ ~j.hot /\ j.super # Null =>
                       (Null \in superDisk'[j.super] => Null \in superDisk[j.super])
    BY <2>3 DEF PowerSafe, OneFile
  <2> QED BY <2>2, <2>3, PowerKept
<1> QED BY <1>5, <1>7, <1>8, <1>9, <1>10, <1>11, StepInv

(* Who has the RESERVED lock of a file and is not committing.              *)
LEMMA OwnFacts ==
  ASSUME IInv, NEW c \in Conn, NEW f \in File, Res(c, f), pc[c] \notin Committing
  PROVE  /\ Types /\ ImageInv(f) /\ NamesInv(f) /\ Holds(c, f)
         /\ IsHot(f) => Exc(c, f)
         /\ IsGone(f) => Delete /\ jrnl[f].hot
         /\ jrnl[f] # Null => jrnl[f] \in Journal
         /\ PowerAhead /\ jrnl[f] # Null => jrnl[f].super = Null
<1>1. Types /\ FileInv(f) /\ PowerInv /\ (\A d \in Conn : HoldsInv(d) /\ WriteInv(d))
  BY DEF IInv, ConnInv
<1> USE <1>1
<1>2. Holds(c, f)
  BY Levels DEF Types, TypeOK
<1> USE <1>2
<1>3. IsHot(f) => Exc(c, f)
  <2>1. ~(pc[c] \in Looking /\ F(c) = f)
    BY DEF HoldsInv
  <2> QED BY <2>1 DEF FileInv, HotInv
<1>4. IsGone(f) => Delete /\ jrnl[f].hot
  <2>1. ASSUME NEW d \in Conn, pc[d] = "phasetwo", f \in loc[d].todo PROVE FALSE
    <3>1. Exc(d, f) /\ d # c
      BY <2>1 DEF WriteInv, Committing
    <3> QED BY <3>1, Disjoint
  <2> QED BY <2>1 DEF FileInv, GoneInv
<1>5. PowerAhead /\ jrnl[f] # Null => jrnl[f].super = Null
  <2>1. ASSUME NEW d \in Conn, pc[d] \in Committing, f \in loc[d].opened PROVE FALSE
    <3>1. Res(d, f) /\ d # c
      BY <2>1 DEF HoldsInv
    <3> QED BY <3>1, Disjoint
  <2> QED BY <2>1 DEF PowerInv, PowerFile
<1>6. jrnl[f] # Null => jrnl[f] \in Journal
  BY DEF Types, TypeOK
<1> QED BY <1>3, <1>4, <1>5, <1>6 DEF FileInv

(* The super-journal that such a journal names is of no transaction that   *)
(* is under way, unless it is gone.                                        *)
LEMMA NotNamed ==
  ASSUME IInv, NEW c \in Conn, NEW f \in File, Res(c, f), pc[c] \notin Committing,
         jrnl[f] # Null, jrnl[f].super # Null, NEW n, n = jrnl[f].super, ~IsGone(f)
  PROVE  n \in 1 .. MaxTx /\ n <= nTx /\ \A d \in Conn : ~ActiveAs(d, n)
<1>1. /\ Types /\ ImageInv(f) /\ NamesInv(f) /\ jrnl[f] \in Journal
  BY OwnFacts
<1> USE <1>1
<1>2. n \in 1 .. MaxTx
  BY DEF Journal
<1> USE <1>2
<1>3. jrnl[f] \in jrnlDisk[f]
  BY DEF ImageInv
<1>4. /\ n <= nTx
      /\ \A d \in Conn : ActiveAs(d, n) => Multi(d) /\ pc[d] \in Committing
      /\ \A s \in superDisk[n] : s # Null => f \in s
  BY <1>3 DEF NamesInv
<1> USE <1>4
<1>5. super[n] # Null /\ SuperInv(n)
  BY DEF IsGone, Gone, IInv
<1> USE <1>5
<1>6. ASSUME NEW d \in Conn, ActiveAs(d, n) PROVE FALSE
  <2>1. Multi(d) /\ pc[d] \in Committing /\ d # c /\ loc[d].v = n /\ CommitInv(d) /\ WriteInv(d)
    BY <1>6 DEF ActiveAs, IInv, ConnInv
  <2> USE <2>1
  <2>2. pc[d] # "phasetwo"
    BY DEF CommitInv
  <2>3. pc[d] \in PhaseOne \cup {"deletesuper"}
    BY <2>2 DEF Committing
  <2> USE <2>3
  <2>4. f \in loc[d].write
    BY DEF CommitInv, SuperInv
  <2>5. Exc(d, f)
    BY <2>4 DEF WriteInv
  <2> QED BY <2>5, Disjoint
<1> QED BY <1>6

(* A number that no transaction has stays so.                              *)
LEMMA NotActive ==
  ASSUME NEW c \in Conn, Apart(c), TxKept(c), NEW n, \A d \in Conn : ~ActiveAs(d, n)
  PROVE  \A d \in Conn : ~ActiveAs(d, n)'
<1>1. \A d \in Conn : d # c => ~ActiveAs(d, n)'
  BY OthersSame
<1>2. ~ActiveAs(c, n)'
  BY DEF TxKept, ActiveAs
<1> QED BY <1>1, <1>2

(* The journals and the cached pages of the other files.                   *)
LEMMA OtherOwn ==
  ASSUME NEW f, OneFile(f), NEW c \in Conn, NEW g \in File, g # f, cache'[c][g] = cache[c][g]
  PROVE  /\ OwnJournal(c, g) => OwnJournal(c, g)'
         /\ Stale(c, g) => Stale(c, g)'
         /\ (IsGone(g)' <=> IsGone(g)) /\ current'[g] = current[g]
  BY DEF OneFile, OwnJournal, IsGone, Gone, Stale

(* What a connection that plays a journal back has.                        *)
LEMMA PlayFacts ==
  ASSUME IInv, NEW c \in Conn, pc[c] \in Playing \cup {"hotopen"}, NEW f, f = F(c)
  PROVE  /\ f \in File /\ Res(c, f) /\ f \notin loc[c].open \cup loc[c].opened /\ loc[c].f = f
         /\ pc[c] \notin Committing /\ pc[c] \notin Looking /\ pc[c] # "phasetwo"
         /\ loc[c].isHot \/ pc[c] = "hotopen" => Exc(c, f)
         /\ \A g \in loc[c].opened : g \in File /\ OwnJournal(c, g)
         /\ \A g \in File : g \notin loc[c].opened /\ ~Restoring(c, g) => cache[c][g] # Torn /\ Stale(c, g)
         /\ \A g \in loc[c].open \ loc[c].opened : g \in File /\ cache[c][g] = current[g]
<1>1. Types /\ HoldsInv(c) /\ JournalInv(c) /\ CacheInv(c)
  BY DEF IInv, ConnInv
<1> USE <1>1
<1>2. /\ loc[c] \in Local /\ loc[c].open \subseteq File /\ loc[c].opened \subseteq File
      /\ lock \in [Handle -> Level]
  BY ConnTypes
<1> USE <1>2
<1>3. /\ f \in File /\ f \notin loc[c].open \cup loc[c].opened /\ loc[c].f = f
      /\ (loc[c].isHot \/ pc[c] = "hotopen" => Exc(c, f)) /\ (pc[c] # "hotopen" => Res(c, f))
  BY DEF HoldsInv, F
<1> USE <1>3
<1>4. Res(c, f)
  BY Levels
<1>5. pc[c] \notin Committing /\ pc[c] \notin Looking /\ pc[c] # "phasetwo"
  BY DEF Playing, Committing, PhaseOne, Looking
<1> QED BY <1>4, <1>5 DEF JournalInv, CacheInv

(* A step of the playback.                                                 *)
LEMMA PlayStays ==
  ASSUME IInv, NEW c \in Conn, pc[c] \in Playing \cup {"hotopen"}, NEW f, f = F(c), OneFile(f),
         NEW label \in Playing \cup {"delsuper"}, NEW l, GoesTo(c, label, l),
         l.todo = loc[c].todo, l.write = loc[c].write, l.open = loc[c].open, l.opened = loc[c].opened, l.f = f,
         l.v = loc[c].v, l.isHot <=> (loc[c].isHot \/ pc[c] = "hotopen"),
         \A g \in File : g # f => lock'[H(c, g)] = lock[H(c, g)] /\ cache'[c][g] = cache[c][g],
         label \in Playing => lock' = lock,
         label = "delsuper" => Holds(c, f)' /\ ~Res(c, f)',
         Restoring(c, f)' \/ (cache'[c][f] # Torn /\ Stale(c, f)')
  PROVE  /\ HoldsInv(c)' /\ WriteInv(c)' /\ CommitInv(c)' /\ CacheInv(c)' /\ TxKept(c)
         /\ (\A g \in l.opened : OwnJournal(c, g)')
         /\ pc'[c] = label /\ loc'[c] = l /\ F(c)' = f
         /\ \A g \in File : g # f /\ IsHot(g) /\ Holds(c, g)' => Exc(c, g)'
<1>1. Types /\ HoldsInv(c) /\ WriteInv(c)
  BY DEF IInv, ConnInv
<1>2. /\ loc[c] \in Local /\ loc[c].open \subseteq File /\ loc[c].opened \subseteq File /\ loc[c].write \subseteq File
  BY <1>1, ConnTypes
<1>3. /\ f \in File /\ Res(c, f) /\ f \notin loc[c].open \cup loc[c].opened /\ loc[c].f = f
      /\ pc[c] \notin Committing /\ pc[c] \notin Looking /\ pc[c] # "phasetwo"
      /\ loc[c].isHot \/ pc[c] = "hotopen" => Exc(c, f)
      /\ \A g \in loc[c].opened : g \in File /\ OwnJournal(c, g)
      /\ \A g \in File : g \notin loc[c].opened /\ ~Restoring(c, g) => cache[c][g] # Torn /\ Stale(c, g)
      /\ \A g \in loc[c].open \ loc[c].opened : g \in File /\ cache[c][g] = current[g]
  BY PlayFacts
<1>4. pc'[c] = label /\ loc'[c] = l /\ F(c)' = f
  BY <1>1, Arrives
<1>5. /\ \A g \in File : g # f => (Holds(c, g)' <=> Holds(c, g)) /\ (Res(c, g)' <=> Res(c, g))
      /\ label \in Playing => Res(c, f)' /\ (Exc(c, f) => Exc(c, f)')
  BY <1>3, LockSame
<1>6. HoldsInv(c)'
  <2>1. /\ loc[c].opened \subseteq loc[c].write
        /\ \A g \in loc[c].open : Holds(c, g)' /\ g # f
        /\ \A g \in loc[c].opened : Res(c, g)' /\ g # f
    BY <1>1, <1>2, <1>3, <1>5 DEF HoldsInv
  <2> QED BY <1>3, <1>4, <1>5, <2>1 DEF HoldsInv, Looking, Playing, Cleaning
<1>7. WriteInv(c)'
  <2>1. /\ l.isHot => /\ loc[c].write \subseteq loc[c].todo \cup loc[c].opened \cup {f}
                      /\ \A g \in loc[c].write : Res(c, g)' => g \in loc[c].opened \cup {f}
        /\ ~l.isHot => loc[c].opened = loc[c].todo
    BY <1>1, <1>2, <1>5 DEF WriteInv
  <2> QED BY <1>4, <2>1 DEF WriteInv, PhaseOne, Playing, Cleaning, Looking
<1>8. CommitInv(c)'
  BY <1>4 DEF CommitInv, PhaseOne, Playing
<1>9. TxKept(c)
  <2>1. pc[c] # "idle" /\ pc[c] # "rollback" /\ label \in Playing \cup Cleaning
    BY DEF Playing, Cleaning
  <2> USE <2>1
  <2>2. (loc[c].isHot \/ pc[c] = "hotopen") => ~Undoing(c)
    BY DEF Undoing, Playing, Cleaning
  <2>3. Active(c)' => Active(c)
    BY <1>4, <2>2 DEF Active, Undoing
  <2> QED BY <1>3, <1>4, <2>3 DEF TxKept, OneFile
<1>10. \A g \in File : g # f => /\ OwnJournal(c, g) => OwnJournal(c, g)'
                                /\ Stale(c, g) => Stale(c, g)'
                                /\ current'[g] = current[g]
  BY OtherOwn
<1> USE <1>10
<1>11. CacheInv(c)'
  <2>1. \A g \in File : g # f => ~Restoring(c, g)
    BY DEF Restoring
  <2>2. /\ \A g \in File : g \notin loc[c].opened /\ g # f => cache'[c][g] # Torn /\ Stale(c, g)'
        /\ \A g \in loc[c].open \ loc[c].opened : cache'[c][g] = current'[g]
    BY <1>3, <2>1
  <2> QED BY <1>4, <2>2 DEF CacheInv
<1>12. \A g \in File : g # f /\ IsHot(g) /\ Holds(c, g)' => Exc(c, g)'
  BY <1>3, HotKept
<1>13. \A g \in l.opened : OwnJournal(c, g)'
  BY <1>3
<1> QED BY <1>4, <1>6, <1>7, <1>8, <1>9, <1>11, <1>12, <1>13

(* One entry of a table changes.                                           *)
LEMMA SetOne ==
  ASSUME NEW S, NEW x \in [File -> S], NEW f \in File, NEW v \in S, NEW y, y = [x EXCEPT ![f] = v]
  PROVE  y \in [File -> S] /\ y[f] = v /\ \A g \in File : g # f => y[g] = x[g]
  OBVIOUS

(* The types of the files.                                                 *)
LEMMA FileTypes ==
  ASSUME Types
  PROVE  /\ db \in [File -> Version \cup {Torn}] /\ jrnl \in [File -> Journal \cup {Null}]
         /\ dbDisk \in [File -> SUBSET (Version \cup {Torn})] /\ jrnlDisk \in [File -> SUBSET (Journal \cup {Null})]
         /\ current \in [File -> Version] /\ durable \in [File -> Version]
         /\ cache \in [Conn -> [File -> Version \cup {Null, Torn}]]
         /\ lock \in [Handle -> Level] /\ Exclusion
  BY DEF Types, TypeOK

(* The locks stay.                                                         *)
LEMMA LocksSame ==
  ASSUME Types, NEW c \in Conn, lock' = lock
  PROVE  LocksApart(c)
<1>1. lock \in [Handle -> Level] /\ Exclusion
  BY FileTypes
<1> QED BY <1>1 DEF LocksApart, Exclusion

(* A step of the playback keeps the invariant if it does for the file, its *)
(* journal and the super-journal.                                          *)
LEMMA PlayStep ==
  ASSUME FiniteSetFacts, IInv, NEW c \in Conn, pc[c] \in Playing \cup {"hotopen"}, NEW f, f = F(c), OneFile(f),
         NEW label \in Playing \cup {"delsuper"}, NEW l, GoesTo(c, label, l), LocksApart(c),
         l.todo = loc[c].todo, l.write = loc[c].write, l.open = loc[c].open, l.opened = loc[c].opened, l.f = f,
         l.v = loc[c].v, l.isHot <=> (loc[c].isHot \/ pc[c] = "hotopen"),
         \A g \in File : g # f => lock'[H(c, g)] = lock[H(c, g)] /\ cache'[c][g] = cache[c][g],
         label \in Playing => lock' = lock,
         label = "delsuper" => Holds(c, f)' /\ ~Res(c, f)',
         Restoring(c, f)' \/ (cache'[c][f] # Torn /\ Stale(c, f)'),
         OwnFile(c, f), OwnNames(c, f), PowerAhead => l.zSuper = Null /\ PowerFile(f)',
         (\A g \in l.opened : OwnJournal(c, g)') => JournalInv(c)',
         l.zSuper # Null =>
           /\ label # "playback" /\ l.zSuper <= nTx /\ (\A d \in Conn : ~ActiveAs(d, l.zSuper))
           /\ label = "delsuper" => ~Names(f, l.zSuper)',
         label = "delsuper" => l.zSuper # Null
  PROVE  IInv'
<1>1. /\ HoldsInv(c)' /\ WriteInv(c)' /\ CommitInv(c)' /\ CacheInv(c)' /\ TxKept(c)
      /\ (\A g \in l.opened : OwnJournal(c, g)')
      /\ pc'[c] = label /\ loc'[c] = l /\ F(c)' = f
      /\ \A g \in File : g # f /\ IsHot(g) /\ Holds(c, g)' => Exc(c, g)'
  BY PlayStays
<1>2. f \in File /\ pc[c] \notin Committing /\ pc[c] # "phasetwo"
  BY PlayFacts
<1>3. JournalInv(c)'
  BY <1>1
<1>4. Apart(c)
  <2>1. \A d \in Conn : d # c => pc'[d] = pc[d] /\ loc'[d] = loc[d]
    BY Arrives DEF IInv
  <2> QED BY <2>1 DEF Apart, OneFile, LocksApart, GoesTo
<1>5. CleanInv(c)'
  <2>1. PICK n : n = l.zSuper
    OBVIOUS
  <2> USE <2>1
  <2>2. n # Null => \A d \in Conn : ~ActiveAs(d, n)'
    BY <1>1, <1>4, NotActive
  <2>3. nTx' = nTx
    BY DEF OneFile
  <2>4. /\ label \notin {"delother", "delread"} /\ (label \in Cleaning => label = "delsuper")
        /\ (label # "playback" => label \in {"restore", "endplayback"} \cup Cleaning)
    BY DEF Playing, Cleaning
  <2> QED BY <1>1, <2>2, <2>3, <2>4 DEF CleanInv
<1>6. ConnInv(c)'
  BY <1>1, <1>3, <1>5 DEF ConnInv
<1>7. PowerSafe(c, f, label, l)
  BY <1>2 DEF PowerSafe
<1>8. ColdInv(c)'
  <2>1. label \notin PhaseOne
    BY DEF Playing, PhaseOne
  <2>2. \A g \in loc[c].opened : g \in File /\ g # f
    BY PlayFacts
  <2>3. \A g \in loc[c].opened : jrnl'[g] = jrnl[g]
    BY <2>2 DEF OneFile
  <2> QED BY <1>1, <2>1, <2>3, ColdKept
<1> QED BY <1>1, <1>2, <1>6, <1>7, <1>8, FileStep

(* sqlite3PagerSharedLock opens the hot journal under the EXCLUSIVE lock   *)
(* and begins to play it back.                                             *)
LEMMA HotOpenInv ==
  ASSUME FiniteSetFacts, IInv, NEW c \in Conn, HotOpen(c), jrnl[F(c)] # Null
  PROVE  IInv'
<1>1. Types /\ CleanInv(c) /\ JournalInv(c) /\ pc[c] = "hotopen"
  BY DEF IInv, ConnInv, HotOpen
<1>2. PICK f : f = F(c)
  OBVIOUS
<1>3. /\ f \in File /\ Res(c, f) /\ Exc(c, f) /\ f \notin loc[c].open \cup loc[c].opened /\ loc[c].f = f
      /\ pc[c] \notin Committing /\ pc[c] \in Playing \cup {"hotopen"}
      /\ \A g \in File : g \notin loc[c].opened /\ ~Restoring(c, g) => cache[c][g] # Torn /\ Stale(c, g)
  BY <1>1, <1>2, PlayFacts
<1>4. /\ ImageInv(f) /\ (IsGone(f) => Delete /\ jrnl[f].hot) /\ jrnl[f] \in Journal
      /\ PowerAhead => jrnl[f].super = Null
  BY <1>2, <1>3, OwnFacts
<1>5. /\ Goto(c, "playback", [loc[c] EXCEPT !.isHot = TRUE]) /\ lock' = lock /\ cache' = cache
      /\ jrnlDisk' = [jrnlDisk EXCEPT ![f] = {jrnl[f]}]
      /\ db' = db /\ jrnl' = jrnl /\ dbDisk' = dbDisk /\ current' = current /\ durable' = durable
      /\ super' = super /\ superDisk' = superDisk /\ scenario' = scenario /\ nTx' = nTx /\ calls' = calls /\ nFault' = nFault
  BY <1>2 DEF HotOpen, files, history
<1>6. /\ db \in [File -> Version \cup {Torn}] /\ jrnl \in [File -> Journal \cup {Null}]
      /\ dbDisk \in [File -> SUBSET (Version \cup {Torn})] /\ jrnlDisk \in [File -> SUBSET (Journal \cup {Null})]
      /\ current \in [File -> Version] /\ durable \in [File -> Version]
      /\ cache \in [Conn -> [File -> Version \cup {Null, Torn}]]
  BY <1>1, FileTypes
<1>7. /\ jrnlDisk' \in [File -> SUBSET (Journal \cup {Null})] /\ jrnlDisk'[f] = {jrnl[f]}
      /\ \A g \in File : g # f => jrnlDisk'[g] = jrnlDisk[g]
  <2>1. {jrnl[f]} \in SUBSET (Journal \cup {Null})
    BY <1>4
  <2> QED BY <1>3, <1>5, <1>6, <2>1, SetOne
<1>8. OneFile(f)
  BY <1>5, <1>6, <1>7 DEF OneFile
<1>9. PICK l : l = [loc[c] EXCEPT !.isHot = TRUE]
  OBVIOUS
<1>10. TRUE \in BOOLEAN /\ loc[c] \in Local
  BY <1>1, ConnTypes
<1>11. /\ l \in Local /\ l.todo = loc[c].todo /\ l.write = loc[c].write /\ l.open = loc[c].open
       /\ l.opened = loc[c].opened /\ l.f = f /\ l.v = loc[c].v /\ l.isHot /\ l.zSuper = loc[c].zSuper
  BY <1>3, <1>9, <1>10 DEF Local
<1>12. GoesTo(c, "playback", l) /\ "playback" \in Playing
  BY <1>5, <1>6, <1>9, <1>11 DEF GoesTo, Labels, Playing
<1>13. l.zSuper = Null
  BY <1>1, <1>11 DEF CleanInv, Cleaning
<1>14. /\ IsHot(f)' <=> IsHot(f)
       /\ IsGone(f)' <=> IsGone(f)
       /\ Live(f)' <=> Live(f)
       /\ \A n : Names(f, n)' <=> Names(f, n)
  BY <1>5 DEF IsHot, IsGone, Gone, Live, Names
<1>15. ImageInv(f)'
  BY <1>4, <1>5, <1>7, <1>14 DEF ImageInv
<1>16. OwnFile(c, f)
  <2>1. (Exc(c, f) => Exc(c, f)') /\ (Delete' <=> Delete)
    BY <1>3, <1>5, LockSame DEF Delete, Env
  <2> QED BY <1>3, <1>4, <1>5, <1>14, <1>15, <2>1 DEF OwnFile
<1>17. OwnNames(c, f)
  BY <1>4, <1>7 DEF OwnNames, ImageInv
<1>18. PowerAhead => PowerFile(f)'
  BY <1>4, <1>5, <1>7 DEF PowerFile
<1>19. pc'[c] = "playback" /\ loc'[c] = l /\ F(c)' = f
  BY <1>1, <1>11, <1>12, Arrives
<1>20. (\A g \in l.opened : OwnJournal(c, g)') => JournalInv(c)'
  <2>1. Harmless(f)' /\ jrnl'[f] # Null
    BY <1>1, <1>2, <1>5 DEF JournalInv, Harmless
  <2> QED BY <1>11, <1>19, <2>1 DEF JournalInv, Playing
<1>21. cache'[c][f] # Torn /\ Stale(c, f)'
  <2>1. ~Restoring(c, f)
    BY <1>1 DEF Restoring
  <2> QED BY <1>3, <1>5, <2>1 DEF Stale
<1>22. LocksApart(c) /\ \A g \in File : g # f => lock'[H(c, g)] = lock[H(c, g)] /\ cache'[c][g] = cache[c][g]
  BY <1>1, <1>5, LocksSame
<1>23. "playback" # "delsuper"
  OBVIOUS
<1> QED BY <1>1, <1>2, <1>3, <1>5, <1>8, <1>11, <1>12, <1>13, <1>16, <1>17, <1>18, <1>20, <1>21, <1>22, <1>23, PlayStep

(* pager_playback reads the name of the super-journal: a journal whose     *)
(* super-journal is gone is not played back.                               *)
LEMMA PlaybackInv ==
  ASSUME FiniteSetFacts, IInv, NEW c \in Conn, pager_playback(c)
  PROVE  IInv'
<1>1. Types /\ CleanInv(c) /\ JournalInv(c) /\ HoldsInv(c) /\ pc[c] = "playback"
  BY DEF IInv, ConnInv, pager_playback
<1>2. PICK f, j, restores : f = F(c) /\ j = jrnl[f] /\ restores = (~Gone(j) /\ (loc[c].isHot => j.hot))
  OBVIOUS
<1>3. /\ f \in File /\ Res(c, f) /\ f \notin loc[c].open \cup loc[c].opened /\ loc[c].f = f
      /\ pc[c] \notin Committing /\ pc[c] \in Playing \cup {"hotopen"} /\ (loc[c].isHot => Exc(c, f))
      /\ \A g \in File : g \notin loc[c].opened /\ ~Restoring(c, g) => cache[c][g] # Torn /\ Stale(c, g)
  BY <1>1, <1>2, PlayFacts DEF Playing
<1>4. j # Null /\ (loc[c].isHot => Harmless(f)) /\ (~loc[c].isHot => OwnJournal(c, f)) /\ (Gone(j) <=> IsGone(f))
      /\ (restores <=> ~IsGone(f) /\ (loc[c].isHot => j.hot))
  BY <1>1, <1>2 DEF JournalInv, Playing, IsGone
<1>5. /\ ImageInv(f) /\ (IsHot(f) => Exc(c, f)) /\ (IsGone(f) => Delete /\ jrnl[f].hot) /\ j \in Journal
      /\ PowerAhead => j.super = Null
  BY <1>2, <1>3, <1>4, OwnFacts
<1>6. /\ IF restores /\ db[f] # j.orig THEN SetDb(f, Torn) /\ MayLose(f, {Torn, j.orig}) ELSE db' = db /\ dbDisk' = dbDisk
      /\ Goto(c, IF restores THEN "restore" ELSE "endplayback",
              [loc[c] EXCEPT !.zSuper = IF Gone(j) THEN Null ELSE j.super, !.journalOff = restores \/ ~loc[c].isHot])
      /\ lock' = lock /\ cache' = cache /\ jrnlDisk' = jrnlDisk
      /\ jrnl' = jrnl /\ current' = current /\ durable' = durable
      /\ super' = super /\ superDisk' = superDisk /\ scenario' = scenario /\ nTx' = nTx /\ calls' = calls /\ nFault' = nFault
  BY <1>2 DEF pager_playback, history
<1>7. /\ db \in [File -> Version \cup {Torn}] /\ jrnl \in [File -> Journal \cup {Null}]
      /\ dbDisk \in [File -> SUBSET (Version \cup {Torn})] /\ jrnlDisk \in [File -> SUBSET (Journal \cup {Null})]
      /\ current \in [File -> Version] /\ durable \in [File -> Version]
      /\ cache \in [Conn -> [File -> Version \cup {Null, Torn}]]
  BY <1>1, FileTypes
<1>8. restores => j.orig = current[f] /\ j.orig \in Version
  <2>1. restores /\ loc[c].isHot => Live(f)
    BY <1>2, <1>4 DEF Live, IsHot
  <2>2. restores => j.orig = current[f]
    BY <1>2, <1>4, <1>5, <2>1 DEF ImageInv, OwnJournal
  <2> QED BY <1>3, <1>7, <2>2
<1>9. restores /\ db[f] # j.orig => Live(f)
  BY <1>5, <1>8 DEF ImageInv
<1>10. /\ db' \in [File -> Version \cup {Torn}] /\ dbDisk' \in [File -> SUBSET (Version \cup {Torn})]
       /\ \A g \in File : g # f => db'[g] = db[g] /\ dbDisk'[g] = dbDisk[g]
       /\ ~Live(f) => db'[f] = db[f] /\ dbDisk'[f] = dbDisk[f]
  <2>1. CASE restores /\ db[f] # j.orig
    <3> USE <2>1
    <3>1. /\ db' = [db EXCEPT ![f] = Torn] /\ dbDisk' = [dbDisk EXCEPT ![f] = dbDisk[f] \cup {Torn, j.orig}]
      BY <1>6 DEF SetDb, MayLose
    <3> USE <3>1
    <3>2. Torn \in Version \cup {Torn} /\ dbDisk[f] \cup {Torn, j.orig} \in SUBSET (Version \cup {Torn})
      BY <1>3, <1>7, <1>8
    <3> USE <3>2
    <3>3. db' \in [File -> Version \cup {Torn}] /\ \A g \in File : g # f => db'[g] = db[g]
      BY <1>3, <1>7, SetOne
    <3>4. dbDisk' \in [File -> SUBSET (Version \cup {Torn})] /\ \A g \in File : g # f => dbDisk'[g] = dbDisk[g]
      BY <1>3, <1>7, SetOne
    <3> QED BY <1>9, <3>3, <3>4
  <2>2. CASE ~(restores /\ db[f] # j.orig)
    BY <1>6, <1>7, <2>2
  <2> QED BY <2>1, <2>2
<1>11. OneFile(f)
  BY <1>6, <1>7, <1>10 DEF OneFile
<1>12. PICK l : l = [loc[c] EXCEPT !.zSuper = IF Gone(j) THEN Null ELSE j.super, !.journalOff = restores \/ ~loc[c].isHot]
  OBVIOUS
<1>13. /\ loc[c] \in Local /\ (restores \/ ~loc[c].isHot) \in BOOLEAN
       /\ (IF Gone(j) THEN Null ELSE j.super) \in 1 .. MaxTx \cup {Null}
  BY <1>1, <1>2, <1>5, ConnTypes DEF Journal
<1>14. /\ l \in Local /\ l.todo = loc[c].todo /\ l.write = loc[c].write /\ l.open = loc[c].open
       /\ l.opened = loc[c].opened /\ l.f = f /\ l.v = loc[c].v /\ (l.isHot <=> loc[c].isHot)
       /\ l.zSuper = (IF Gone(j) THEN Null ELSE j.super) /\ (l.journalOff <=> (restores \/ ~loc[c].isHot))
  BY <1>3, <1>12, <1>13 DEF Local
<1>15. PICK label : label = IF restores THEN "restore" ELSE "endplayback"
  OBVIOUS
<1>16. GoesTo(c, label, l) /\ label \in Playing \cup {"delsuper"} /\ label \in Playing /\ label # "playback" /\ label # "delsuper"
  BY <1>6, <1>7, <1>12, <1>14, <1>15 DEF GoesTo, Labels, Playing
<1>17. pc'[c] = label /\ loc'[c] = l /\ F(c)' = f
  BY <1>1, <1>14, <1>16, Arrives
<1>18. /\ IsHot(f)' <=> IsHot(f)
       /\ IsGone(f)' <=> IsGone(f)
       /\ Live(f)' <=> Live(f)
       /\ Harmless(f)' <=> Harmless(f)
       /\ \A n : Names(f, n)' <=> Names(f, n)
  BY <1>6 DEF IsHot, IsGone, Gone, Live, Names, Harmless
<1>19. ImageInv(f)'
  BY <1>5, <1>6, <1>10, <1>18 DEF ImageInv
<1>20. OwnFile(c, f)
  <2>1. (Exc(c, f) => Exc(c, f)') /\ (Delete' <=> Delete)
    BY <1>3, <1>6, LockSame DEF Delete, Env
  <2>2. Exc(c, f) \/ (~IsHot(f) /\ ~Live(f))
    BY <1>5 DEF Live
  <2> QED BY <1>3, <1>5, <1>6, <1>10, <1>18, <1>19, <2>1, <2>2 DEF OwnFile
<1>21. OwnNames(c, f)
  BY <1>6 DEF OwnNames
<1>22. PowerAhead => l.zSuper = Null /\ PowerFile(f)'
  <2>1. PowerAhead => PowerFile(f)
    BY <1>3 DEF IInv, PowerInv
  <2>2. PowerAhead => jrnl'[f].super = Null
    BY <1>2, <1>5, <1>6
  <2> QED BY <1>5, <1>6, <1>14, <2>1, <2>2 DEF PowerFile
<1>23. (\A g \in l.opened : OwnJournal(c, g)') => JournalInv(c)'
  <2>1. CASE restores
    <3>1. label = "restore" /\ ~IsGone(f)' /\ jrnl'[f].orig = current'[f] /\ l.journalOff /\ l.zSuper = jrnl'[f].super /\ jrnl'[f] # Null
      BY <1>2, <1>4, <1>6, <1>8, <1>14, <1>15, <1>18, <2>1
    <3> QED BY <1>17, <3>1 DEF JournalInv, Playing
  <2>2. CASE ~restores
    <3> USE <2>2
    <3>1. ~Live(f) /\ label = "endplayback" /\ jrnl'[f] # Null
      BY <1>2, <1>4, <1>6, <1>15 DEF Live, IsHot
    <3> USE <3>1
    <3>2. db'[f] = current'[f]
      BY <1>5, <1>6, <1>10 DEF ImageInv
    <3>3. l.zSuper # Null => FALSE
      BY <1>2, <1>4, <1>14 DEF Harmless
    <3>4. ~l.journalOff => l.isHot /\ (jrnl'[f].hot => IsGone(f)')
      BY <1>2, <1>4, <1>6, <1>14, <1>18
    <3> QED BY <1>17, <3>2, <3>3, <3>4 DEF JournalInv, Playing
  <2> QED BY <2>1, <2>2
<1>24. Restoring(c, f)' \/ (cache'[c][f] # Torn /\ Stale(c, f)')
  <2>1. CASE loc[c].isHot
    <3>1. ~Restoring(c, f)
      BY <2>1 DEF Restoring
    <3> QED BY <1>3, <1>6, <3>1 DEF Stale
  <2>2. CASE ~loc[c].isHot /\ restores
    BY <1>14, <1>15, <1>17, <2>2 DEF Restoring
  <2>3. CASE ~loc[c].isHot /\ ~restores
    <3>1. cache'[c][f] = current'[f] /\ current[f] \in Version
      BY <1>3, <1>4, <1>6, <1>7, <2>3 DEF OwnJournal
    <3> USE <3>1
    <3>2. cache'[c][f] # Torn
      BY <1>6, Marks
    <3>3. current'[f][2] <= current'[f][2]
      <4>1. current'[f][2] \in Nat
        BY SMT, <1>6, <3>1, SuperJournalAssumption DEF Version
      <4> QED BY SMT, <4>1
    <3> QED BY <3>2, <3>3 DEF Stale
  <2> QED BY <2>1, <2>2, <2>3
<1>25. LocksApart(c) /\ \A g \in File : g # f => lock'[H(c, g)] = lock[H(c, g)] /\ cache'[c][g] = cache[c][g]
  BY <1>1, <1>6, LocksSame
<1>26. l.zSuper # Null => /\ label # "playback" /\ l.zSuper <= nTx /\ (\A d \in Conn : ~ActiveAs(d, l.zSuper))
                          /\ label = "delsuper" => ~Names(f, l.zSuper)'
  <2>1. l.zSuper # Null => /\ jrnl[f] # Null /\ jrnl[f].super # Null /\ ~IsGone(f) /\ l.zSuper = jrnl[f].super
    BY <1>2, <1>4, <1>14
  <2> QED BY <1>3, <1>16, <2>1, NotNamed
<1>27. l.isHot <=> (loc[c].isHot \/ pc[c] = "hotopen")
  BY <1>1, <1>14
<1> QED BY <1>2, <1>3, <1>6, <1>11, <1>14, <1>16, <1>20, <1>21, <1>22, <1>23, <1>24, <1>25, <1>26, <1>27, PlayStep

(* pager_playback writes the original pages back and syncs the file.       *)
LEMMA RestorePagesInv ==
  ASSUME FiniteSetFacts, IInv, NEW c \in Conn, RestorePages(c)
  PROVE  IInv'
<1>1. Types /\ CleanInv(c) /\ JournalInv(c) /\ pc[c] = "restore"
  BY DEF IInv, ConnInv, RestorePages
<1>2. PICK f : f = F(c)
  OBVIOUS
<1>3. /\ f \in File /\ Res(c, f) /\ f \notin loc[c].open \cup loc[c].opened /\ loc[c].f = f
      /\ pc[c] \notin Committing /\ pc[c] \in Playing \cup {"hotopen"} /\ (loc[c].isHot => Exc(c, f))
  BY <1>1, <1>2, PlayFacts DEF Playing
<1>4. /\ jrnl[f] # Null /\ ~IsGone(f) /\ jrnl[f].orig = current[f] /\ loc[c].journalOff /\ loc[c].zSuper = jrnl[f].super
  BY <1>1, <1>2 DEF JournalInv, Playing
<1>5. /\ ImageInv(f) /\ (IsHot(f) => Exc(c, f)) /\ (IsGone(f) => Delete /\ jrnl[f].hot)
      /\ PowerAhead => jrnl[f].super = Null
  BY <1>3, <1>4, OwnFacts
<1>6. PICK w : w = IF loc[c].isHot THEN Null ELSE jrnl[f].orig
  OBVIOUS
<1>7. /\ db' = [db EXCEPT ![f] = current[f]] /\ SetCache(c, f, w) /\ Goto(c, "endplayback", loc[c])
      /\ lock' = lock /\ dbDisk' = dbDisk /\ jrnlDisk' = jrnlDisk
      /\ jrnl' = jrnl /\ current' = current /\ durable' = durable
      /\ super' = super /\ superDisk' = superDisk /\ scenario' = scenario /\ nTx' = nTx /\ calls' = calls /\ nFault' = nFault
  BY <1>2, <1>4, <1>6 DEF RestorePages, history, disk, SetDb
<1>8. /\ db \in [File -> Version \cup {Torn}] /\ jrnl \in [File -> Journal \cup {Null}]
      /\ dbDisk \in [File -> SUBSET (Version \cup {Torn})] /\ jrnlDisk \in [File -> SUBSET (Journal \cup {Null})]
      /\ current \in [File -> Version] /\ durable \in [File -> Version]
  BY <1>1, FileTypes
<1>9. /\ db' \in [File -> Version \cup {Torn}] /\ db'[f] = current[f] /\ \A g \in File : g # f => db'[g] = db[g]
  <2>1. current[f] \in Version \cup {Torn}
    BY <1>3, <1>8
  <2> QED BY <1>3, <1>7, <1>8, <2>1, SetOne
<1>10. /\ cache' \in [Conn -> [File -> Version \cup {Null, Torn}]]
       /\ cache'[c][f] = w /\ (\A g \in File : g # f => cache'[c][g] = cache[c][g])
       /\ \A d \in Conn : d # c => cache'[d] = cache[d]
  <2>1. w \in Version \cup {Null, Torn}
    BY <1>3, <1>4, <1>6, <1>8
  <2> QED BY <1>1, <1>3, <1>7, <2>1, CacheSet
<1>11. OneFile(f)
  BY <1>7, <1>8, <1>9 DEF OneFile
<1>12. loc[c] \in Local
  BY <1>1, ConnTypes
<1>13. /\ GoesTo(c, "endplayback", loc[c]) /\ "endplayback" \in Playing \cup {"delsuper"} /\ "endplayback" \in Playing
       /\ "endplayback" # "delsuper" /\ "endplayback" # "playback"
  BY <1>7, <1>10, <1>12 DEF GoesTo, Labels, Playing
<1>14. pc'[c] = "endplayback" /\ loc'[c] = loc[c] /\ F(c)' = f
  BY <1>1, <1>3, <1>13, Arrives
<1>15. /\ IsHot(f)' <=> IsHot(f)
       /\ IsGone(f)' <=> IsGone(f)
       /\ Live(f)' <=> Live(f)
       /\ Harmless(f)' <=> Harmless(f)
       /\ \A n : Names(f, n)' <=> Names(f, n)
  BY <1>7 DEF IsHot, IsGone, Gone, Live, Names, Harmless
<1>16. ~Live(f) => db'[f] = db[f]
  BY <1>5, <1>9 DEF ImageInv
<1>17. ImageInv(f)'
  BY <1>5, <1>7, <1>15, <1>16 DEF ImageInv
<1>18. OwnFile(c, f)
  <2>1. (Exc(c, f) => Exc(c, f)') /\ (Delete' <=> Delete)
    BY <1>3, <1>7, LockSame DEF Delete, Env
  <2>2. Exc(c, f) \/ (~IsHot(f) /\ ~Live(f))
    BY <1>5 DEF Live
  <2> QED BY <1>3, <1>5, <1>7, <1>15, <1>16, <1>17, <2>1, <2>2 DEF OwnFile
<1>19. OwnNames(c, f)
  BY <1>7 DEF OwnNames
<1>20. PowerAhead => loc[c].zSuper = Null /\ PowerFile(f)'
  <2>1. PowerAhead => PowerFile(f)
    BY <1>3 DEF IInv, PowerInv
  <2>2. PowerAhead => jrnl'[f].super = Null
    BY <1>5, <1>7
  <2> QED BY <1>4, <1>5, <1>7, <2>1, <2>2 DEF PowerFile
<1>21. (\A g \in loc[c].opened : OwnJournal(c, g)') => JournalInv(c)'
  BY <1>4, <1>7, <1>9, <1>14 DEF JournalInv, Playing
<1>22. cache'[c][f] # Torn /\ Stale(c, f)'
  <2>1. CASE loc[c].isHot
    BY <1>6, <1>10, <2>1, Marks DEF Stale
  <2>2. CASE ~loc[c].isHot
    <3>1. cache'[c][f] = current'[f] /\ current[f] \in Version
      BY <1>3, <1>4, <1>6, <1>7, <1>8, <1>10, <2>2
    <3> USE <3>1
    <3>2. cache'[c][f] # Torn
      BY <1>7, Marks
    <3>3. current'[f][2] <= current'[f][2]
      <4>1. current'[f][2] \in Nat
        BY SMT, <1>7, <3>1, SuperJournalAssumption DEF Version
      <4> QED BY SMT, <4>1
    <3> QED BY <3>2, <3>3 DEF Stale
  <2> QED BY <2>1, <2>2
<1>23. LocksApart(c) /\ \A g \in File : g # f => lock'[H(c, g)] = lock[H(c, g)] /\ cache'[c][g] = cache[c][g]
  BY <1>1, <1>7, <1>10, LocksSame
<1>24. loc[c].zSuper # Null => loc[c].zSuper <= nTx /\ (\A d \in Conn : ~ActiveAs(d, loc[c].zSuper))
  BY <1>1 DEF CleanInv
<1>25. loc[c].isHot <=> (loc[c].isHot \/ pc[c] = "hotopen")
  BY <1>1
<1> QED BY <1>2, <1>3, <1>7, <1>11, <1>13, <1>18, <1>19, <1>20, <1>21, <1>22, <1>23, <1>24, <1>25, PlayStep

(* Finalised leaves such a journal.                                        *)
LEMMA FinalisedIs ==
  ASSUME Types, NEW c \in Conn, NEW f \in File, jrnl[f] \in Journal, NEW hasSuper \in BOOLEAN, NEW journalOff \in BOOLEAN,
         NEW j, j = Finalised(c, f, hasSuper, journalOff)
  PROVE  j \in Journal \cup {Null} /\ Ends(c, f, hasSuper, journalOff, j)
<1>1. CASE Env.mode[c] = "delete"
  BY <1>1 DEF Finalised, Ends
<1>2. CASE Env.mode[c] # "delete" /\ ~journalOff
  BY <1>2 DEF Finalised, Ends
<1>3. CASE Env.mode[c] # "delete" /\ journalOff /\ (Env.mode[c] = "truncate" \/ hasSuper)
  <2>1. j = EmptyJournal
    BY <1>3 DEF Finalised
  <2>2. EmptyJournal \in Journal /\ ~EmptyJournal.hot /\ EmptyJournal.super = Null
    <3>1. FALSE \in BOOLEAN
      OBVIOUS
    <3> QED BY <3>1 DEF EmptyJournal, Journal
  <2> QED BY <2>1, <2>2, Marks DEF Ends
<1>4. CASE Env.mode[c] # "delete" /\ journalOff /\ ~(Env.mode[c] = "truncate" \/ hasSuper)
  <2> USE <1>4
  <2>1. j = [jrnl[f] EXCEPT !.hot = FALSE, !.orig = Null]
    BY DEF Finalised
  <2>2. FALSE \in BOOLEAN
    OBVIOUS
  <2>3. j \in Journal /\ ~j.hot /\ j.super = jrnl[f].super
    BY <2>1, <2>2 DEF Journal
  <2> QED BY <2>3, Marks DEF Ends
<1> QED BY <1>1, <1>2, <1>3, <1>4

(* It does so.                                                             *)
LEMMA EndTransaction ==
  ASSUME Types, NEW c \in Conn, NEW f \in File, jrnl[f] \in Journal, NEW hasSuper \in BOOLEAN, NEW journalOff \in BOOLEAN,
         pager_end_transaction(c, f, hasSuper, journalOff)
  PROVE  Ended(c, f, hasSuper, journalOff)
<1>1. PICK j : j = Finalised(c, f, hasSuper, journalOff)
  OBVIOUS
<1> USE <1>1
<1>2. j \in Journal \cup {Null} /\ Ends(c, f, hasSuper, journalOff, j)
  BY FinalisedIs
<1> USE <1>2
<1>3. /\ jrnl \in [File -> Journal \cup {Null}] /\ jrnlDisk \in [File -> SUBSET (Journal \cup {Null})]
      /\ lock \in [Handle -> Level] /\ Exclusion
  BY FileTypes
<1> USE <1>3
<1>4. jrnl' = [jrnl EXCEPT ![f] = j] /\ Lower(H(c, f), SHARED_LOCK)
  BY DEF pager_end_transaction, SetJournal
<1> USE <1>4
<1>5. jrnl' \in [File -> Journal \cup {Null}] /\ jrnl'[f] = j /\ (\A g \in File : g # f => jrnl'[g] = jrnl[g])
  BY SetOne
<1> USE <1>5
<1>6. /\ LocksApart(c) /\ ~Res(c, f)' /\ Holds(c, f)'
      /\ \A g \in File : g # f => lock'[H(c, g)] = lock[H(c, g)]
  <2>1. SHARED_LOCK \in {NO_LOCK, SHARED_LOCK}
    OBVIOUS
  <2> QED BY <2>1, LowerTo
<1>7. /\ jrnlDisk' \in [File -> SUBSET (Journal \cup {Null})] /\ (\A g \in File : g # f => jrnlDisk'[g] = jrnlDisk[g])
      /\ IF Env.mode[c] = "delete" /\ ~Env.extraSync THEN jrnlDisk'[f] = jrnlDisk[f] \cup {j}
         ELSE jrnlDisk'[f] = {j}
  <2>1. CASE Env.mode[c] = "delete" /\ ~Env.extraSync
    <3> USE <2>1
    <3>1. jrnlDisk' = [jrnlDisk EXCEPT ![f] = jrnlDisk[f] \cup {Null}] /\ j = Null
      BY DEF pager_end_transaction, Finalised
    <3>2. jrnlDisk[f] \cup {Null} \in SUBSET (Journal \cup {Null})
      OBVIOUS
    <3> QED BY <3>1, <3>2, SetOne
  <2>2. CASE ~(Env.mode[c] = "delete" /\ ~Env.extraSync)
    <3> USE <2>2
    <3>1. jrnlDisk' = [jrnlDisk EXCEPT ![f] = {jrnl'[f]}]
      BY DEF pager_end_transaction, SyncJournal
    <3>2. {j} \in SUBSET (Journal \cup {Null}) /\ jrnlDisk' = [jrnlDisk EXCEPT ![f] = {j}]
      BY <3>1
    <3> QED BY <3>2, SetOne
  <2> QED BY <2>1, <2>2
<1> USE <1>7
<1>8. jrnl'[f] \in jrnlDisk'[f]
  OBVIOUS
<1> QED BY <1>6, <1>8 DEF Ended

(* pager_playback finalises the journal that it has played back, and turns *)
(* to the super-journal it named.                                          *)
LEMMA EndPlaybackInv ==
  ASSUME FiniteSetFacts, IInv, NEW c \in Conn, EndPlayback(c)
  PROVE  IInv'
<1>1. Types /\ CleanInv(c) /\ JournalInv(c) /\ pc[c] = "endplayback"
  BY DEF IInv, ConnInv, EndPlayback
<1> USE <1>1
<1>2. PICK f, hasSuper, off : f = F(c) /\ hasSuper = (jrnl[f].super # Null) /\ off = loc[c].journalOff
  OBVIOUS
<1>3. /\ f \in File /\ Res(c, f) /\ f \notin loc[c].open \cup loc[c].opened /\ loc[c].f = f
      /\ pc[c] \notin Committing /\ pc[c] # "phasetwo" /\ pc[c] \in Playing \cup {"hotopen"} /\ (loc[c].isHot => Exc(c, f))
      /\ \A g \in loc[c].opened : g \in File /\ OwnJournal(c, g)
      /\ \A g \in File : g \notin loc[c].opened /\ ~Restoring(c, g) => cache[c][g] # Torn /\ Stale(c, g)
      /\ \A g \in loc[c].open \ loc[c].opened : g \in File /\ cache[c][g] = current[g]
      /\ pc[c] \notin Looking
  BY <1>2, PlayFacts DEF Playing
<1>4. /\ jrnl[f] # Null /\ db[f] = current[f]
      /\ loc[c].zSuper # Null => loc[c].zSuper = jrnl[f].super /\ off
      /\ ~off => loc[c].isHot /\ (jrnl[f].hot => IsGone(f))
  BY <1>2 DEF JournalInv, Playing
<1>5. /\ ImageInv(f) /\ (IsHot(f) => Exc(c, f)) /\ (IsGone(f) => Delete /\ jrnl[f].hot) /\ jrnl[f] \in Journal
      /\ PowerAhead => jrnl[f].super = Null
  BY <1>3, <1>4, OwnFacts
<1>6. /\ dbDisk' = [dbDisk EXCEPT ![f] = {db[f]}] /\ pager_end_transaction(c, f, hasSuper, off)
      /\ IF loc[c].zSuper # Null THEN Goto(c, "delsuper", loc[c]) ELSE AfterPlayback(c)
      /\ db' = db /\ cache' = cache /\ current' = current /\ durable' = durable
      /\ super' = super /\ superDisk' = superDisk /\ scenario' = scenario /\ nTx' = nTx /\ calls' = calls /\ nFault' = nFault
  BY <1>2 DEF EndPlayback, history
<1>7. /\ db \in [File -> Version \cup {Torn}] /\ dbDisk \in [File -> SUBSET (Version \cup {Torn})]
      /\ current \in [File -> Version] /\ durable \in [File -> Version]
      /\ cache \in [Conn -> [File -> Version \cup {Null, Torn}]]
  BY FileTypes
<1>8. hasSuper \in BOOLEAN /\ off \in BOOLEAN /\ loc[c] \in Local
  BY <1>2, ConnTypes DEF Local
<1>9. Ended(c, f, hasSuper, off)
  BY <1>3, <1>5, <1>6, <1>8, EndTransaction
<1>10. \A j \in jrnlDisk'[f] : j \in jrnlDisk[f] \/ j = jrnl'[f]
  BY <1>9 DEF Ended
<1>11. /\ dbDisk' \in [File -> SUBSET (Version \cup {Torn})] /\ dbDisk'[f] = {db[f]}
       /\ \A g \in File : g # f => dbDisk'[g] = dbDisk[g]
  <2>1. db[f] \in Version \cup {Torn}
    BY <1>3, <1>7
  <2>2. {db[f]} \in SUBSET (Version \cup {Torn})
    BY <2>1
  <2> QED BY <1>3, <1>6, <1>7, <2>2, SetOne
<1>12. OneFile(f)
  BY <1>6, <1>7, <1>9, <1>11 DEF OneFile, Ended
<1>13. \/ jrnl'[f] = Null
       \/ jrnl'[f] # Null /\ ~jrnl'[f].hot /\ jrnl'[f].super = Null
       \/ jrnl'[f] # Null /\ ~jrnl'[f].hot /\ jrnl'[f] = jrnl[f] /\ ~IsGone(f) /\ ~off
  <2>1. Env.mode[c] # "delete" => ~IsGone(f)
    BY <1>5 DEF Delete
  <2> QED BY <1>2, <1>4, <1>9, <2>1 DEF Ended, Ends
<1>14. ~IsHot(f)' /\ ~IsGone(f)'
  BY <1>6, <1>13 DEF IsHot, IsGone, Gone
<1>15. ImageInv(f)'
  <2>1. \A j \in jrnlDisk[f] : j # Null /\ j.hot =>
          j.orig # Null /\ (j.orig \in {current[f], durable[f]} \/ (j.super # Null /\ superDisk[j.super] = {Null}))
    BY <1>5 DEF ImageInv, Live
  <2>2. \A j \in jrnlDisk'[f] : j # Null /\ j.hot => j \in jrnlDisk[f]
    BY <1>10, <1>13
  <2>3. ~Live(f)'
    BY <1>14 DEF Live
  <2> QED BY <1>4, <1>6, <1>9, <1>11, <1>14, <2>1, <2>2, <2>3 DEF ImageInv, Ended
<1>16. \A n \in 1 .. MaxTx : Names(f, n)' => Names(f, n) /\ ~off
  BY <1>13, Marks DEF Names
<1>17. OwnFile(c, f)
  <2>1. Exc(c, f) \/ (dbDisk'[f] = dbDisk[f] /\ Harmless(f)')
    <3>1. ~Exc(c, f) => ~Live(f) /\ ~loc[c].isHot
      BY <1>3, <1>5 DEF Live
    <3>2. ~Live(f) => dbDisk'[f] = dbDisk[f]
      BY <1>5, <1>11 DEF ImageInv
    <3>3. ~loc[c].isHot => Harmless(f)'
      BY <1>4, <1>13 DEF Harmless
    <3> QED BY <3>1, <3>2, <3>3
  <2> QED BY <1>3, <1>6, <1>14, <1>15, <1>16, <2>1 DEF OwnFile
<1>18. OwnNames(c, f)
  <2>1. jrnl[f] \in jrnlDisk[f]
    BY <1>5 DEF ImageInv
  <2> QED BY <1>4, <1>10, <1>13, <2>1 DEF OwnNames
<1>19. PowerAhead => loc[c].zSuper = Null /\ PowerFile(f)'
  <2>1. PowerAhead => PowerFile(f)
    BY <1>3 DEF IInv, PowerInv
  <2>2. PowerAhead => (jrnl'[f] = Null \/ jrnl'[f].super = Null)
    BY <1>5, <1>13
  <2>3. PowerAhead => loc[c].zSuper = Null
    BY <1>4, <1>5
  <2> QED BY <1>6, <1>10, <2>1, <2>2, <2>3 DEF PowerFile
<1>20. /\ \A g \in loc[c].opened : OwnJournal(c, g)'
       /\ \A g \in File : g \notin loc[c].opened => cache'[c][g] # Torn /\ Stale(c, g)'
       /\ \A g \in loc[c].open \ loc[c].opened : cache'[c][g] = current'[g]
  <2>1. \A g \in File : g # f => (OwnJournal(c, g) => OwnJournal(c, g)')
    <3>1. ASSUME NEW g \in File, g # f PROVE OwnJournal(c, g) => OwnJournal(c, g)'
      <4>1. cache'[c][g] = cache[c][g]
        BY <1>6
      <4> QED BY <1>12, <3>1, <4>1 DEF OneFile, OwnJournal, IsGone, Gone
    <3> QED BY <3>1
  <2>2. \A g \in File : ~Restoring(c, g)
    BY DEF Restoring
  <2>3. \A g \in File : Stale(c, g) => Stale(c, g)'
    BY <1>6 DEF Stale
  <2> QED BY <1>3, <1>6, <2>1, <2>2, <2>3
<1>21. CASE loc[c].zSuper # Null
  <2>0. PICK l : l = loc[c]
    OBVIOUS
  <2>1. Goto(c, "delsuper", l) /\ "delsuper" \in Playing \cup {"delsuper"} /\ "delsuper" \notin Playing /\ "delsuper" # "playback"
        /\ "delsuper" \in Labels
    BY <1>6, <1>21, <2>0 DEF Playing, Labels
  <2>2. GoesTo(c, "delsuper", l)
    BY <1>6, <1>7, <1>8, <2>0, <2>1 DEF GoesTo
  <2> USE <2>2
  <2>3. pc'[c] = "delsuper" /\ loc'[c] = l
    BY Arrives
  <2>4. (\A g \in l.opened : OwnJournal(c, g)') => JournalInv(c)'
    BY <2>3 DEF JournalInv, Playing
  <2>5. PICK n : n = l.zSuper
    OBVIOUS
  <2> USE <2>5
  <2>6. n \in 1 .. MaxTx /\ off
    BY <1>4, <1>8, <1>21, <2>0 DEF Local
  <2>7. ~Names(f, n)'
    BY <1>16, <2>6
  <2>8. n <= nTx /\ (\A d \in Conn : ~ActiveAs(d, n))
    BY <1>21, <2>0 DEF CleanInv
  <2>9. l.isHot <=> (loc[c].isHot \/ pc[c] = "hotopen")
    BY <2>0
  <2>10. \A g \in File : g # f => lock'[H(c, g)] = lock[H(c, g)] /\ cache'[c][g] = cache[c][g]
    BY <1>6, <1>9 DEF Ended
  <2>11. cache'[c][f] # Torn /\ Stale(c, f)'
    BY <1>3, <1>20
  <2>12. l.zSuper <= nTx /\ (\A d \in Conn : ~ActiveAs(d, l.zSuper)) /\ ~Names(f, l.zSuper)'
    BY <2>7, <2>8 DEF Names
  <2>13. /\ LocksApart(c) /\ ~Res(c, f)' /\ Holds(c, f)'
         /\ l.todo = loc[c].todo /\ l.write = loc[c].write /\ l.open = loc[c].open /\ l.opened = loc[c].opened /\ l.f = f
         /\ l.v = loc[c].v /\ l.zSuper # Null /\ (PowerAhead => l.zSuper = Null /\ PowerFile(f)')
    BY <1>3, <1>9, <1>19, <1>21, <2>0 DEF Ended
  <2> QED BY <1>2, <1>3, <1>12, <1>17, <1>18, <2>1, <2>4, <2>9, <2>10, <2>11, <2>12, <2>13, PlayStep
<1>22. CASE loc[c].zSuper = Null
  <2>1. AfterPlayback(c) /\ pc[c] \in {"endplayback"} \cup Cleaning /\ nTx' = nTx
    BY <1>6, <1>22
  <2>2. /\ ConnInv(c)' /\ TxKept(c)
        /\ \E label \in {"version", "rollback"}, l \in Local :
             Goto(c, label, l) /\ l.zSuper = Null /\ l.opened = loc[c].opened
    <3>1. /\ \A g \in File : g # f => lock'[H(c, g)] = lock[H(c, g)]
          /\ Holds(c, f)' /\ ~Res(c, f)'
      BY <1>9 DEF Ended
    <3> QED BY <1>2, <1>20, <2>1, <3>1, AfterPlaybackConn
  <2>3. PICK label \in {"version", "rollback"}, l \in Local :
          Goto(c, label, l) /\ l.zSuper = Null /\ l.opened = loc[c].opened
    BY <2>2
  <2>4. GoesTo(c, label, l)
    BY <1>6, <1>7, <2>3 DEF GoesTo, Labels
  <2> USE <2>4
  <2>5. PowerSafe(c, f, label, l)
    BY <1>3, <1>19, <2>3 DEF PowerSafe
  <2>6. \A g \in File : g # f /\ IsHot(g) /\ Holds(c, g)' => Exc(c, g)'
    <3>1. \A g \in File : g # f => lock'[H(c, g)] = lock[H(c, g)]
      BY <1>9 DEF Ended
    <3> QED BY <1>3, <3>1, HotKept
  <2>7. LocksApart(c)
    BY <1>9 DEF Ended
  <2>8. ColdInv(c)'
    <3>1. pc'[c] = label /\ loc'[c] = l
      BY Arrives
    <3>2. label \notin PhaseOne
      BY DEF PhaseOne
    <3>3. \A g \in loc[c].opened : jrnl'[g] = jrnl[g]
      BY <1>3, <1>12 DEF OneFile
    <3> QED BY <2>2, <2>3, <3>1, <3>2, <3>3, ColdKept
  <2> QED BY <1>3, <1>12, <1>17, <1>18, <2>2, <2>5, <2>6, <2>7, <2>8, FileStep
<1> QED BY <1>21, <1>22

-----------------------------------------------------------------------------
(* Steps that create or delete a super-journal.                            *)

(* The tables of super-journals with one entry set.                        *)
LEMMA SuperSet ==
  ASSUME Types, NEW n \in 1 .. MaxTx, NEW v \in (SUBSET File) \cup {Null}, NEW S \in SUBSET ((SUBSET File) \cup {Null}),
         super' = [super EXCEPT ![n] = v], superDisk' = [superDisk EXCEPT ![n] = S], v \in S, v # Null => S = {v}
  PROVE  /\ \A m \in 1 .. MaxTx : m # n => super'[m] = super[m] /\ superDisk'[m] = superDisk[m]
         /\ super' \in [1 .. MaxTx -> (SUBSET File) \cup {Null}]
         /\ superDisk' \in [1 .. MaxTx -> SUBSET ((SUBSET File) \cup {Null})]
         /\ SuperInv(n)' /\ super'[n] = v /\ superDisk'[n] = S
<1>1. /\ super \in [1 .. MaxTx -> (SUBSET File) \cup {Null}]
      /\ superDisk \in [1 .. MaxTx -> SUBSET ((SUBSET File) \cup {Null})]
  BY DEF Types
<1> USE <1>1
<1>2. super' \in [1 .. MaxTx -> (SUBSET File) \cup {Null}] /\ super'[n] = v /\ \A m \in 1 .. MaxTx : m # n => super'[m] = super[m]
  OBVIOUS
<1>3. /\ superDisk' \in [1 .. MaxTx -> SUBSET ((SUBSET File) \cup {Null})] /\ superDisk'[n] = S
      /\ \A m \in 1 .. MaxTx : m # n => superDisk'[m] = superDisk[m]
  OBVIOUS
<1> QED BY <1>2, <1>3 DEF SuperInv

(* What follows for the other connections, the other super-journals and    *)
(* the types.                                                              *)
LEMMA OneSuperFacts ==
  ASSUME IInv, NEW c \in Conn, NEW label \in Labels, NEW l \in Local, Goto(c, label, l), NEW n \in 1 .. MaxTx, OneSuper(n),
         current' \in [File -> Version], durable' \in [File -> Version], nFault' \in Nat
  PROVE  /\ Types' /\ Apart(c) /\ (\A m \in 1 .. MaxTx : SuperInv(m)')
         /\ pc'[c] = label /\ loc'[c] = l /\ F(c)' = l.f
         /\ \A g \in File : /\ (Holds(c, g)' <=> Holds(c, g)) /\ (Res(c, g)' <=> Res(c, g)) /\ (Exc(c, g)' <=> Exc(c, g))
                            /\ (IsHot(g)' <=> IsHot(g)) /\ (Harmless(g)' <=> Harmless(g))
                            /\ \A m : Names(g, m)' <=> Names(g, m)
                            /\ ~Names(g, n) => (IsGone(g)' <=> IsGone(g))
<1>1. Types
  BY DEF IInv
<1> USE <1>1
<1>2. /\ pc' \in [Conn -> Labels] /\ loc' \in [Conn -> Local]
      /\ pc'[c] = label /\ loc'[c] = l /\ F(c)' = l.f
      /\ \A d \in Conn : d # c => pc'[d] = pc[d] /\ loc'[d] = loc[d]
  BY Moves
<1> USE <1>2
<1>3. /\ db \in [File -> Version \cup {Torn}] /\ jrnl \in [File -> Journal \cup {Null}]
      /\ dbDisk \in [File -> SUBSET (Version \cup {Torn})] /\ jrnlDisk \in [File -> SUBSET (Journal \cup {Null})]
      /\ cache \in [Conn -> [File -> Version \cup {Null, Torn}]]
      /\ lock \in [Handle -> Level] /\ Exclusion /\ calls \in [Conn -> Nat] /\ nTx \in 0 .. MaxTx /\ scenario \in DOMAIN Scenario
  BY DEF Types, TypeOK
<1> USE <1>3
<1>4. /\ db' = db /\ jrnl' = jrnl /\ dbDisk' = dbDisk /\ jrnlDisk' = jrnlDisk /\ lock' = lock /\ cache' = cache
      /\ scenario' = scenario /\ nTx' = nTx /\ calls' = calls
      /\ super' \in [1 .. MaxTx -> (SUBSET File) \cup {Null}]
      /\ superDisk' \in [1 .. MaxTx -> SUBSET ((SUBSET File) \cup {Null})]
  BY DEF OneSuper
<1> USE <1>4
<1>5. Exclusion'
  BY DEF Exclusion
<1>6. Types'
  BY <1>5, TypesFrom
<1>7. Apart(c)
  BY DEF Apart
<1>8. \A m \in 1 .. MaxTx : SuperInv(m)'
  BY DEF OneSuper, SuperInv, IInv
<1>9. \A g \in File : (Holds(c, g)' <=> Holds(c, g)) /\ (Res(c, g)' <=> Res(c, g)) /\ (Exc(c, g)' <=> Exc(c, g))
  BY DEF Holds, Res, Exc
<1>10. \A g \in File : (IsHot(g)' <=> IsHot(g)) /\ (Harmless(g)' <=> Harmless(g)) /\ \A m : Names(g, m)' <=> Names(g, m)
  BY DEF IsHot, Harmless, Names
<1>11. ASSUME NEW g \in File, ~Names(g, n) PROVE IsGone(g)' <=> IsGone(g)
  <2>1. jrnl[g] # Null /\ jrnl[g].super # Null => jrnl[g].super \in 1 .. MaxTx /\ jrnl[g].super # n
    BY <1>11 DEF Journal, Names
  <2> QED BY <2>1 DEF IsGone, Gone, OneSuper
<1> QED BY <1>6, <1>7, <1>8, <1>9, <1>10, <1>11

(* pager_delsuper deletes a super-journal that no journal names any more.  *)
LEMMA DelSuperDeleteInv ==
  ASSUME FiniteSetFacts, IInv, NEW c \in Conn, DelSuperDelete(c), super[loc[c].zSuper] # Null
  PROVE  IInv'
<1>1. Types /\ CleanInv(c) /\ pc[c] = "delother" /\ pc[c] \in Cleaning /\ loc[c].others = {}
  BY DEF IInv, ConnInv, DelSuperDelete, Cleaning
<1>2. PICK n, f : n = loc[c].zSuper /\ f = F(c)
  OBVIOUS
<1>3. /\ f \in File /\ Holds(c, f) /\ ~Res(c, f)
      /\ \A g \in loc[c].opened : g \in File /\ OwnJournal(c, g)
      /\ \A g \in File : g \notin loc[c].opened => cache[c][g] # Torn /\ Stale(c, g)
      /\ \A g \in loc[c].open \ loc[c].opened : g \in File /\ cache[c][g] = current[g]
      /\ pc[c] \notin Looking /\ pc[c] \notin Committing /\ pc[c] # "phasetwo" /\ ~PowerAhead
      /\ n \in 1 .. MaxTx
  BY <1>1, <1>2, CleaningFacts
<1>4. \A g \in File : ~Names(g, n)
  BY <1>1, <1>2 DEF CleanInv
<1>5. /\ super' = [super EXCEPT ![n] = Null] /\ superDisk' = [superDisk EXCEPT ![n] = superDisk[n] \cup {Null}]
      /\ AfterPlayback(c) /\ lock' = lock /\ cache' = cache
      /\ db' = db /\ jrnl' = jrnl /\ dbDisk' = dbDisk /\ jrnlDisk' = jrnlDisk /\ current' = current /\ durable' = durable
      /\ scenario' = scenario /\ nTx' = nTx /\ calls' = calls /\ nFault' = nFault
  BY <1>2 DEF DelSuperDelete, history
<1>6. OneSuper(n) /\ superDisk'[n] = superDisk[n] \cup {Null} /\ super'[n] = Null
  <2>1. superDisk[n] \in SUBSET ((SUBSET File) \cup {Null})
    BY <1>1, <1>3 DEF Types
  <2>2. PICK S : S = superDisk[n] \cup {Null}
    OBVIOUS
  <2>3. S \in SUBSET ((SUBSET File) \cup {Null}) /\ Null \in S /\ Null \in (SUBSET File) \cup {Null}
    BY <2>1, <2>2
  <2>4. superDisk' = [superDisk EXCEPT ![n] = S]
    BY <1>5, <2>2
  <2>5. /\ \A m \in 1 .. MaxTx : m # n => super'[m] = super[m] /\ superDisk'[m] = superDisk[m]
        /\ super' \in [1 .. MaxTx -> (SUBSET File) \cup {Null}]
        /\ superDisk' \in [1 .. MaxTx -> SUBSET ((SUBSET File) \cup {Null})]
        /\ SuperInv(n)' /\ super'[n] = Null /\ superDisk'[n] = S
    BY <1>1, <1>3, <1>5, <2>3, <2>4, SuperSet
  <2> QED BY <1>5, <2>2, <2>5 DEF OneSuper
<1>7. \A g \in File : g \in File /\ (jrnl[g] # Null /\ jrnl[g].super # Null => jrnl[g].super \in 1 .. MaxTx /\ jrnl[g].super # n)
  BY <1>1, <1>4 DEF Types, TypeOK, Journal, Names
<1>8. \A g \in File : IsGone(g)' <=> IsGone(g)
  BY <1>5, <1>6, <1>7 DEF IsGone, Gone, OneSuper
<1>9. /\ ConnInv(c)' /\ TxKept(c)
      /\ \E label \in {"version", "rollback"}, l \in Local :
           Goto(c, label, l) /\ l.zSuper = Null /\ l.opened = loc[c].opened
  <2>1. \A g \in loc[c].opened : OwnJournal(c, g)'
    BY <1>3, <1>5, <1>8 DEF OwnJournal
  <2>2. /\ \A g \in File : g \notin loc[c].opened => cache'[c][g] # Torn /\ Stale(c, g)'
        /\ \A g \in loc[c].open \ loc[c].opened : cache'[c][g] = current'[g]
    BY <1>3, <1>5 DEF Stale
  <2>3. /\ \A g \in File : g # f => lock'[H(c, g)] = lock[H(c, g)]
        /\ Holds(c, f)' /\ ~Res(c, f)'
    BY <1>3, <1>5 DEF Holds, Res
  <2> QED BY <1>1, <1>2, <1>5, <2>1, <2>2, <2>3, AfterPlaybackConn
<1>10. PICK label \in {"version", "rollback"}, l \in Local :
         Goto(c, label, l) /\ l.zSuper = Null /\ l.opened = loc[c].opened
  BY <1>9
<1>11. /\ Types' /\ Apart(c) /\ (\A m \in 1 .. MaxTx : SuperInv(m)')
       /\ \A g \in File : /\ (Holds(c, g)' <=> Holds(c, g)) /\ (Res(c, g)' <=> Res(c, g)) /\ (Exc(c, g)' <=> Exc(c, g))
                          /\ (IsHot(g)' <=> IsHot(g)) /\ (Harmless(g)' <=> Harmless(g))
                          /\ \A m : Names(g, m)' <=> Names(g, m)
  <2>1. label \in Labels
    BY <1>10 DEF Labels
  <2>2. current' \in [File -> Version] /\ durable' \in [File -> Version] /\ nFault' \in Nat
    BY <1>1, <1>5 DEF Types, TypeOK
  <2> QED BY <1>3, <1>6, <1>10, <2>1, <2>2, OneSuperFacts
<1>12. NumbersInv' /\ Older(c) /\ CounterInv'
  BY <1>5, <1>9, <1>11, NumbersKept DEF CounterInv
<1>13. Changes(c)
  BY <1>2, <1>5, <1>6, <1>8, <1>11 DEF Changes, OneSuper
<1>14. ASSUME NEW g \in File PROVE Kept(c, g)
  <2> USE <1>14
  <2>1. IsHot(g) /\ Holds(c, g)' => Exc(c, g)'
    BY <1>3, <1>5, HotKept
  <2>2. \A j \in jrnlDisk[g] : j # Null /\ j.super # Null => j.super \in 1 .. MaxTx
    BY <1>1 DEF Types, Journal
  <2>3. \A m \in 1 .. MaxTx : /\ superDisk[m] = {Null} => superDisk'[m] = {Null}
                             /\ \A s \in superDisk'[m] : s # Null => s \in superDisk[m]
    BY <1>6 DEF OneSuper
  <2> QED BY <1>3, <1>5, <1>8, <2>1, <2>2, <2>3 DEF Kept
<1>15. PowerInv'
  BY <1>3, <1>5, SameFaults DEF PowerInv
<1>16. ColdInv(c)'
  <2>1. label \notin PhaseOne /\ label \in Labels
    BY DEF PhaseOne, Labels
  <2> USE <2>1
  <2>2. pc'[c] = label /\ loc'[c] = l
    BY <1>1, <1>10, Moves
  <2> QED BY <1>5, <1>9, <1>10, <2>2, ColdKept
<1> QED BY <1>9, <1>11, <1>12, <1>13, <1>14, <1>15, <1>16, StepInv

(* pager_open_journal starts the journal of a file under the RESERVED      *)
(* lock; a journal left from before may come back with a loss of power.    *)
LEMMA OpenJournalInv ==
  ASSUME FiniteSetFacts, IInv, NEW c \in Conn, pager_open_journal(c)
  PROVE  IInv'
<1>1. Types /\ HoldsInv(c) /\ WriteInv(c) /\ JournalInv(c) /\ CleanInv(c) /\ CacheInv(c) /\ ColdInv(c) /\ pc[c] = "journal"
  BY DEF IInv, ConnInv, pager_open_journal
<1>2. PICK f : f = F(c)
  OBVIOUS
<1>3. /\ loc[c] \in Local /\ loc[c].open \subseteq File /\ loc[c].opened \subseteq File /\ loc[c].write \subseteq File
      /\ loc[c].v \in 0 .. MaxTx
  BY <1>1, ConnTypes
<1>4. /\ f \in File /\ f \in loc[c].write /\ f \notin loc[c].opened /\ Res(c, f) /\ ~Exc(c, f)
      /\ pc[c] \notin Committing /\ pc[c] \notin Looking /\ ~loc[c].isHot /\ loc[c].zSuper = Null
  BY <1>1, <1>2 DEF HoldsInv, CleanInv, Committing, PhaseOne, Looking, Playing, Cleaning
<1>5. /\ ImageInv(f) /\ ~IsHot(f) /\ ~IsGone(f) /\ Holds(c, f)
      /\ jrnl[f] # Null => jrnl[f] \in Journal
      /\ PowerAhead /\ jrnl[f] # Null => jrnl[f].super = Null
  BY <1>4, OwnFacts DEF IsHot, IsGone
<1>6. PICK s \in IF jrnl[f] = Null THEN {Null} ELSE {Null, jrnl[f].super} :
        jrnl' = [jrnl EXCEPT ![f] = [hot |-> FALSE, orig |-> db[f], super |-> s]]
  BY <1>2 DEF pager_open_journal, SetJournal
<1>7. PICK j, w : j = [hot |-> FALSE, orig |-> db[f], super |-> s] /\ w = <<loc[c].v, db[f][2]>>
  OBVIOUS
<1>8. PICK l : l = [loc[c] EXCEPT !.opened = loc[c].opened \cup {f}, !.f = Null]
  OBVIOUS
<1>9. /\ jrnlDisk' = [jrnlDisk EXCEPT ![f] = jrnlDisk[f] \cup {jrnl'[f]}] /\ SetCache(c, f, w)
      /\ Goto(c, "next", l)
      /\ lock' = lock /\ db' = db /\ dbDisk' = dbDisk /\ current' = current /\ durable' = durable
      /\ super' = super /\ superDisk' = superDisk /\ scenario' = scenario /\ nTx' = nTx /\ calls' = calls /\ nFault' = nFault
  BY <1>2, <1>7, <1>8 DEF pager_open_journal, history
<1>10. /\ db \in [File -> Version \cup {Torn}] /\ jrnl \in [File -> Journal \cup {Null}]
       /\ dbDisk \in [File -> SUBSET (Version \cup {Torn})] /\ jrnlDisk \in [File -> SUBSET (Journal \cup {Null})]
       /\ current \in [File -> Version] /\ durable \in [File -> Version]
  BY <1>1, FileTypes
<1>11. /\ db[f] = current[f] /\ db[f] \in Version /\ dbDisk[f] = {db[f]}
       /\ \A i \in jrnlDisk[f] : i # Null /\ i.hot =>
            i.orig \in {current[f], durable[f]} \/ (i.super # Null /\ superDisk[i.super] = {Null})
  <2>1. ~Live(f)
    BY <1>5 DEF Live
  <2> QED BY <1>4, <1>5, <1>10, <2>1 DEF ImageInv
<1>12. j \in Journal /\ j # Null /\ ~j.hot /\ j.orig = db[f] /\ j.super = s
  <2>1. FALSE \in BOOLEAN /\ s \in 1 .. MaxTx \cup {Null} /\ db[f] \in Version \cup {Null}
    BY <1>5, <1>6, <1>11 DEF Journal
  <2>2. j \in Journal /\ ~j.hot /\ j.orig = db[f] /\ j.super = s
    BY <1>7, <2>1 DEF Journal
  <2> QED BY <2>2, Marks
<1>13. jrnl' \in [File -> Journal \cup {Null}] /\ jrnl'[f] = j /\ \A g \in File : g # f => jrnl'[g] = jrnl[g]
  BY <1>4, <1>6, <1>7, <1>10, <1>12, SetOne
<1>14. /\ jrnlDisk' \in [File -> SUBSET (Journal \cup {Null})] /\ jrnlDisk'[f] = jrnlDisk[f] \cup {j}
       /\ \A g \in File : g # f => jrnlDisk'[g] = jrnlDisk[g]
  <2>0. PICK D : D = jrnlDisk[f] \cup {j}
    OBVIOUS
  <2>1. D \in SUBSET (Journal \cup {Null})
    BY <1>4, <1>10, <1>12, <2>0
  <2>2. jrnlDisk' = [jrnlDisk EXCEPT ![f] = D]
    BY <1>9, <1>13, <2>0
  <2>3. /\ jrnlDisk' \in [File -> SUBSET (Journal \cup {Null})] /\ jrnlDisk'[f] = D
        /\ \A g \in File : g # f => jrnlDisk'[g] = jrnlDisk[g]
    <3>1. f \in File /\ jrnlDisk \in [File -> SUBSET (Journal \cup {Null})]
      BY <1>4, <1>10
    <3> QED BY <2>1, <2>2, <3>1, SetOne
  <2> QED BY <2>0, <2>3
<1>15. w \in Version
  <2>1. db[f][2] \in 0 .. MaxTx
    BY SMT, <1>11 DEF Version
  <2> QED BY SMT, <1>3, <1>7, <2>1 DEF Version
<1>16. /\ cache' \in [Conn -> [File -> Version \cup {Null, Torn}]]
       /\ (\A g \in File : g # f => cache'[c][g] = cache[c][g])
       /\ \A d \in Conn : d # c => cache'[d] = cache[d]
  BY <1>1, <1>4, <1>9, <1>15, CacheSet
<1>17. OneFile(f)
  BY <1>9, <1>10, <1>13, <1>14 DEF OneFile
<1>18. /\ l \in Local /\ l.todo = loc[c].todo /\ l.write = loc[c].write /\ l.open = loc[c].open
       /\ l.opened = loc[c].opened \cup {f} /\ l.v = loc[c].v /\ ~l.isHot /\ l.zSuper = Null
  BY <1>3, <1>4, <1>8 DEF Local
<1>19. GoesTo(c, "next", l)
  BY <1>9, <1>16, <1>18 DEF GoesTo, Labels
<1>20. pc'[c] = "next" /\ loc'[c] = l
  BY <1>1, <1>19, Arrives
<1>21. ~IsHot(f)' /\ ~IsGone(f)' /\ ~Live(f)'
  BY <1>5, <1>6, <1>9, <1>12, <1>13 DEF IsHot, IsGone, Gone, Live
<1>22. ImageInv(f)'
  <2>1. \A i \in jrnlDisk'[f] : i # Null /\ i.hot => i \in jrnlDisk[f] /\ i.orig # Null
    BY <1>5, <1>12, <1>14 DEF ImageInv
  <2> QED BY <1>9, <1>11, <1>13, <1>14, <1>21, <2>1 DEF ImageInv
<1>23. OwnFile(c, f)
  <2>1. \A n \in 1 .. MaxTx : Names(f, n)' => Names(f, n)
    BY <1>6, <1>12, <1>13, Marks DEF Names
  <2>2. Harmless(f) => Harmless(f)'
    BY <1>5, <1>6, <1>12, <1>13 DEF Harmless, IsHot
  <2> QED BY <1>4, <1>9, <1>21, <1>22, <2>1, <2>2 DEF OwnFile
<1>24. OwnNames(c, f)
  <2>1. jrnl[f] \in jrnlDisk[f]
    BY <1>5 DEF ImageInv
  <2> QED BY <1>6, <1>12, <1>14, <2>1 DEF OwnNames
<1>25. PowerSafe(c, f, "next", l)
  <2>1. PowerAhead => PowerFile(f)
    BY <1>4 DEF IInv, PowerInv
  <2>2. PowerAhead => s = Null
    BY <1>5, <1>6
  <2>3. PowerAhead => PowerFile(f)'
    BY <1>9, <1>12, <1>13, <1>14, <2>1, <2>2 DEF PowerFile
  <2> QED BY <1>4, <1>18, <2>3 DEF PowerSafe
<1>26. TxKept(c)
  <2>1. Active(c)' => Active(c)
    BY <1>1, <1>18, <1>20 DEF Active, Undoing, Playing, Cleaning
  <2> QED BY <1>1, <1>4, <1>9, <1>18, <1>20, <2>1 DEF TxKept
<1>27. LocksApart(c)
  BY <1>1, <1>9, LocksSame
<1>28. \A g \in File : IsHot(g) /\ Holds(c, g)' => Exc(c, g)'
  BY <1>4, <1>9, HotKept
<1>29. ColdInv(c)'
  <2>1. \A g \in loc[c].opened : g \in File /\ g # f /\ (IsHot(g)' <=> IsHot(g))
    BY <1>3, <1>4, <1>13 DEF IsHot
  <2>2. Active(c) => \A g \in loc[c].opened : ~IsHot(g)
    BY <1>1, <1>4 DEF ColdInv
  <2>3. Active(c)' => Active(c)
    BY <1>26 DEF TxKept
  <2> QED BY <1>18, <1>20, <1>21, <2>1, <2>2, <2>3 DEF ColdInv
<1>30. \A g \in File : /\ Holds(c, g)' <=> Holds(c, g)
                       /\ Res(c, g)' <=> Res(c, g)
  BY <1>9 DEF Holds, Res
<1>31. HoldsInv(c)'
  <2>1. loc[c].opened \subseteq loc[c].write /\ (\A g \in loc[c].open : Holds(c, g)) /\ (\A g \in loc[c].opened : Res(c, g))
    BY <1>1 DEF HoldsInv
  <2> QED BY <1>3, <1>4, <1>18, <1>20, <1>30, <2>1 DEF HoldsInv, Looking, Playing, Cleaning
<1>32. WriteInv(c)'
  <2>1. /\ loc[c].write \subseteq loc[c].todo \cup loc[c].opened \cup {f}
        /\ \A g \in loc[c].write : Res(c, g) => g \in loc[c].opened \cup {f}
    BY <1>1, <1>2 DEF WriteInv
  <2> QED BY <1>3, <1>18, <1>20, <1>30, <2>1 DEF WriteInv, PhaseOne, Playing, Cleaning, Looking
<1>33. JournalInv(c)'
  <2>1. OwnJournal(c, f)'
    BY <1>9, <1>11, <1>12, <1>13, <1>21 DEF OwnJournal
  <2>2. \A g \in loc[c].opened : OwnJournal(c, g)'
    <3>1. \A g \in loc[c].opened : g \in File /\ g # f /\ OwnJournal(c, g)
      BY <1>1, <1>3, <1>4 DEF JournalInv
    <3> QED BY <1>16, <1>17, <3>1, OtherOwn
  <2> QED BY <1>18, <1>20, <2>1, <2>2 DEF JournalInv, Playing
<1>34. CommitInv(c)'
  BY <1>20 DEF CommitInv, PhaseOne
<1>35. CleanInv(c)'
  BY <1>18, <1>20 DEF CleanInv, Cleaning
<1>36. CacheInv(c)'
  <2>1. \A g \in File : ~Restoring(c, g)
    BY <1>1 DEF Restoring
  <2>2. /\ \A g \in File : g \notin loc[c].opened /\ g # f => cache'[c][g] # Torn /\ Stale(c, g)'
        /\ \A g \in loc[c].open \ loc[c].opened : g # f => cache'[c][g] = current'[g]
    <3>1. /\ \A g \in File : g \notin loc[c].opened => cache[c][g] # Torn /\ Stale(c, g)
          /\ \A g \in loc[c].open \ loc[c].opened : g \in File /\ cache[c][g] = current[g]
      BY <1>1, <1>3, <2>1 DEF CacheInv
    <3>2. \A g \in File : g # f => (Stale(c, g) => Stale(c, g)')
      BY <1>9, <1>16 DEF Stale
    <3> QED BY <1>9, <1>16, <3>1, <3>2
  <2> QED BY <1>18, <1>20, <2>2 DEF CacheInv
<1>37. ConnInv(c)'
  BY <1>31, <1>32, <1>33, <1>34, <1>35, <1>36 DEF ConnInv
<1> QED BY <1>1, <1>4, <1>17, <1>19, <1>23, <1>24, <1>25, <1>26, <1>27, <1>28, <1>29, <1>37, FileStep

(* A commit in its first phase, and a file that it writes.                 *)
LEMMA PhaseOneFacts ==
  ASSUME IInv, NEW c \in Conn, pc[c] \in PhaseOne, NEW f \in loc[c].write
  PROVE  /\ f \in File /\ Exc(c, f) /\ Res(c, f) /\ Holds(c, f)
         /\ jrnl[f] \in Journal /\ jrnl[f] # Null /\ ~IsGone(f) /\ jrnl[f].orig = current[f]
         /\ ImageInv(f) /\ (IsHot(f) => f \notin loc[c].todo)
         /\ Active(c) /\ loc[c].opened = loc[c].write /\ ~loc[c].isHot /\ loc[c].zSuper = Null
         /\ pc[c] # "phasetwo" /\ pc[c] \notin Looking /\ pc[c] \in Committing
         /\ loc[c].v \in 1 .. MaxTx /\ loc[c].v <= nTx
         /\ Multi(c) => super[loc[c].v] = loc[c].write /\ superDisk[loc[c].v] = {loc[c].write}
                        /\ super[loc[c].v] # Null
<1>1. Types /\ HoldsInv(c) /\ WriteInv(c) /\ JournalInv(c) /\ CommitInv(c) /\ CleanInv(c) /\ ColdInv(c) /\ NumbersInv
  BY DEF IInv, ConnInv
<1> USE <1>1
<1>2. /\ loc[c] \in Local /\ loc[c].write \subseteq File /\ loc[c].v \in 0 .. MaxTx /\ lock \in [Handle -> Level]
  BY ConnTypes
<1> USE <1>2
<1>3. f \in File /\ ImageInv(f)
  BY DEF IInv, FileInv
<1> USE <1>3
<1>4. /\ pc[c] # "phasetwo" /\ pc[c] \notin Looking /\ pc[c] \in Committing /\ pc[c] # "idle" /\ pc[c] # "rollback"
      /\ pc[c] \notin Playing \cup Cleaning \cup {"version"} /\ pc[c] \notin {"restore", "endplayback"}
  BY DEF PhaseOne, Committing, Looking, Playing, Cleaning
<1> USE <1>4
<1>5. loc[c].opened = loc[c].write /\ ~loc[c].isHot /\ loc[c].zSuper = Null
  BY DEF HoldsInv, WriteInv, CleanInv
<1> USE <1>5
<1>6. Exc(c, f)
  BY DEF WriteInv
<1> USE <1>6
<1>7. Res(c, f) /\ Holds(c, f)
  BY Levels
<1>8. Active(c)
  BY DEF Active, Undoing
<1> USE <1>8
<1>9. ~IsGone(f) /\ (Multi(c) => super[loc[c].v] = loc[c].write)
  BY DEF CommitInv
<1> USE <1>9
<1>10. jrnl[f] # Null /\ jrnl[f].orig = current[f]
  BY DEF JournalInv, OwnJournal
<1> USE <1>10
<1>11. jrnl[f] \in Journal
  BY FileTypes
<1>12. IsHot(f) => f \notin loc[c].todo
  BY DEF ColdInv
<1>13. loc[c].v \in 1 .. MaxTx /\ loc[c].v <= nTx
  <2>1. loc[c].v # 0 /\ loc[c].v <= nTx
    BY DEF NumbersInv
  <2> QED BY SMT, <1>2, <2>1, SuperJournalAssumption
<1> USE <1>13
<1>14. Multi(c) => superDisk[loc[c].v] = {loc[c].write} /\ super[loc[c].v] # Null
  <2>1. loc[c].write # Null
    BY MarksAssumption
  <2> QED BY <2>1 DEF IInv, SuperInv
<1> QED BY <1>7, <1>11, <1>12, <1>14

(* What the commit has then.                                               *)
LEMMA PhaseOneConn ==
  ASSUME IInv, NEW c \in Conn, pc[c] \in PhaseOne, NEW f \in loc[c].write, pc[c] = "phaseone" \/ F(c) = f,
         OneFile(f), NEW label \in Committing, NEW l, GoesTo(c, label, l), SameCommit(c, f, label, l), lock' = lock,
         \A g \in File : g # f => cache'[c][g] = cache[c][g],
         jrnl'[f] # Null, ~IsGone(f)', jrnl'[f].orig = current'[f], Advances(c, f, label)
  PROVE  ConnInv(c)' /\ ColdInv(c)' /\ TxKept(c) /\ pc'[c] = label /\ loc'[c] = l
<1>1. Types /\ HoldsInv(c) /\ WriteInv(c) /\ JournalInv(c) /\ CommitInv(c) /\ CacheInv(c) /\ ColdInv(c)
  BY DEF IInv, ConnInv
<1>2. /\ f \in File /\ Active(c) /\ loc[c].opened = loc[c].write
      /\ pc[c] # "phasetwo" /\ pc[c] \in Committing
  BY PhaseOneFacts
<1>3. /\ loc[c] \in Local /\ loc[c].open \subseteq File /\ loc[c].write \subseteq File
  BY <1>1, ConnTypes
<1>4. pc'[c] = label /\ loc'[c] = l /\ F(c)' = l.f
  BY <1>1, Arrives
<1>5. /\ l.write = loc[c].write /\ l.opened = loc[c].write /\ l.open = loc[c].open /\ l.v = loc[c].v
      /\ ~l.isHot /\ l.zSuper = Null
      /\ label \in PhaseOne => l.todo = loc[c].todo \ {f}
      /\ label \in PhaseOne \ {"phaseone"} => l.f = f
      /\ label \in {"deletesuper", "phasetwo"} => loc[c].todo \ {f} = {}
      /\ label = "phasetwo" => l.todo = loc[c].write
  BY <1>2 DEF SameCommit
<1>6. label \in PhaseOne \cup {"deletesuper", "phasetwo"}
  BY DEF Committing
<1>7. \A g \in File : /\ Holds(c, g)' <=> Holds(c, g)
                      /\ Res(c, g)' <=> Res(c, g)
                      /\ Exc(c, g)' <=> Exc(c, g)
  BY DEF Holds, Res, Exc
<1>8. loc[c].todo \subseteq loc[c].write
  BY <1>1 DEF WriteInv
<1>9. HoldsInv(c)'
  <2>1. (\A g \in loc[c].open : Holds(c, g)) /\ (\A g \in loc[c].write : Res(c, g))
    BY <1>1, <1>2 DEF HoldsInv
  <2>2. label \notin Looking \cup Playing \cup Cleaning \cup {"hotopen", "version", "reserve", "journal", "idle"}
    BY <1>6 DEF PhaseOne, Looking, Playing, Cleaning
  <2>3. label \in {"syncjournal", "writelist", "syncdb"} => F(c)' = f
    BY <1>4, <1>5 DEF PhaseOne
  <2> QED BY <1>2, <1>3, <1>4, <1>5, <1>7, <2>1, <2>2, <2>3 DEF HoldsInv
<1>10. WriteInv(c)'
  <2>1. (\A g \in loc[c].write : Exc(c, g)) /\ loc[c].write # {}
    BY <1>1 DEF WriteInv
  <2>2. label \notin Looking \cup Playing \cup Cleaning \cup {"hotopen", "version", "reserve", "journal", "next", "exclusive", "rollback"}
    BY <1>6 DEF PhaseOne, Looking, Playing, Cleaning
  <2> QED BY <1>3, <1>4, <1>5, <1>7, <1>8, <2>1, <2>2 DEF WriteInv
<1>11. \A g \in loc[c].write : g # f => /\ g \in File /\ g \in File /\ cache'[c][g] = cache[c][g]
                                         /\ jrnl'[g] = jrnl[g] /\ db'[g] = db[g] /\ dbDisk'[g] = dbDisk[g]
  BY <1>3 DEF OneFile
<1>12. JournalInv(c)'
  <2>1. OwnJournal(c, f)'
    BY DEF OwnJournal
  <2>2. \A g \in loc[c].write : g # f => OwnJournal(c, g)'
    <3>1. \A g \in loc[c].write : OwnJournal(c, g)
      BY <1>1, <1>2 DEF JournalInv
    <3> QED BY <1>11, <3>1, OtherOwn
  <2>3. label \notin Playing /\ label \notin {"hot", "hotopen", "playback", "restore", "endplayback"}
    BY <1>6 DEF PhaseOne, Playing
  <2> QED BY <1>4, <1>5, <2>1, <2>2, <2>3 DEF JournalInv
<1>13. \A g \in loc[c].write : ~IsGone(g)'
  <2>1. \A g \in loc[c].write : ~IsGone(g)
    BY PhaseOneFacts
  <2>2. super' = super
    BY DEF OneFile
  <2> QED BY <1>11, <2>1, <2>2 DEF IsGone, Gone
<1>14. \A g \in loc[c].write : g # f /\ g \notin loc[c].todo => Done(c, g)'
  <2>1. \A g \in loc[c].write : g # f /\ g \notin loc[c].todo => Done(c, g)
    BY <1>1 DEF CommitInv
  <2>2. ASSUME NEW g \in loc[c].write, g # f, Done(c, g) PROVE Done(c, g)'
    BY <1>4, <1>5, <1>11, <2>2 DEF Done, NewVersion, Multi
  <2> QED BY <2>1, <2>2
<1>15. CommitInv(c)'
  <2>1. super' = super /\ (Multi(c) => super[loc[c].v] = loc[c].write)
    BY <1>1 DEF OneFile, CommitInv
  <2> USE <2>1
  <2>2. Multi(c)' <=> Multi(c)
    BY <1>4, <1>5 DEF Multi
  <2> USE <2>2
  <2>3. CASE label \in PhaseOne \ {"phaseone"}
    <3> USE <2>3
    <3>1. F(c)' = f /\ l.todo = loc[c].todo \ {f}
      BY <1>4, <1>5
    <3>2. label \notin {"phaseone", "deletesuper", "phasetwo"}
      BY DEF PhaseOne
    <3> QED BY <1>4, <1>5, <1>13, <1>14, <3>1, <3>2 DEF CommitInv, Advances
  <2>4. CASE label = "phaseone"
    <3> USE <2>4
    <3>1. l.todo = loc[c].todo \ {f} /\ Done(c, f)'
      BY <1>5 DEF PhaseOne, Advances
    <3>2. \A g \in loc[c].write \ l.todo : Done(c, g)'
      BY <1>14, <3>1
    <3> QED BY <1>4, <1>5, <1>13, <3>2 DEF CommitInv
  <2>5. CASE label \in {"deletesuper", "phasetwo"}
    <3> USE <2>5
    <3>1. \A g \in loc[c].write : Done(c, g)'
      BY <1>5, <1>14 DEF Advances
    <3>2. label \notin PhaseOne /\ (label = "deletesuper" => Multi(c)) /\ (label = "phasetwo" => ~Multi(c))
      BY DEF PhaseOne, Advances
    <3> QED BY <1>4, <1>5, <1>13, <3>1, <3>2 DEF CommitInv, PhaseOne
  <2> QED BY <1>6, <2>3, <2>4, <2>5
<1>16. CleanInv(c)'
  <2>1. label \notin Cleaning /\ label \notin {"delother", "delread"}
    BY <1>6 DEF Cleaning, PhaseOne
  <2> QED BY <1>4, <1>5, <2>1 DEF CleanInv
<1>17. CacheInv(c)'
  <2>1. \A g \in File : ~Restoring(c, g)
    BY DEF Restoring, PhaseOne
  <2>2. /\ \A g \in File : g \notin loc[c].write => cache[c][g] # Torn /\ Stale(c, g)
        /\ \A g \in loc[c].open \ loc[c].write : g \in File /\ cache[c][g] = current[g]
    BY <1>1, <1>2, <1>3, <2>1 DEF CacheInv
  <2>3. \A g \in File : g # f => (Stale(c, g) => Stale(c, g)') /\ current'[g] = current[g]
    BY DEF Stale, OneFile
  <2>4. /\ \A g \in File : g \notin loc[c].write => cache'[c][g] # Torn /\ Stale(c, g)'
        /\ \A g \in loc[c].open \ loc[c].write : cache'[c][g] = current'[g]
    BY <2>2, <2>3
  <2> QED BY <1>4, <1>5, <2>4 DEF CacheInv
<1>18. ColdInv(c)'
  <2>1. \A g \in loc[c].write : g # f /\ IsHot(g)' => g \notin loc[c].todo
    <3>1. \A g \in loc[c].write : g # f /\ IsHot(g)' => IsHot(g)
      BY <1>11 DEF IsHot
    <3> QED BY <3>1, PhaseOneFacts
  <2>2. \A g \in loc[c].write : IsHot(g)' /\ label \in PhaseOne => g \notin l.todo
    BY <1>5, <2>1
  <2> QED BY <1>4, <1>5, <2>2 DEF ColdInv
<1>19. TxKept(c)
  BY <1>2, <1>4, <1>5 DEF TxKept, OneFile
<1> QED BY <1>4, <1>9, <1>10, <1>12, <1>15, <1>16, <1>17, <1>18, <1>19 DEF ConnInv

(* A step of the first phase keeps the invariant if it does for the file   *)
(* and its journal.                                                        *)
LEMMA PhaseOneStep ==
  ASSUME FiniteSetFacts, IInv, NEW c \in Conn, pc[c] \in PhaseOne, NEW f \in loc[c].write, pc[c] = "phaseone" \/ F(c) = f,
         OneFile(f), NEW label \in Committing, NEW l, GoesTo(c, label, l), SameCommit(c, f, label, l), lock' = lock,
         \A g \in File : g # f => cache'[c][g] = cache[c][g],
         jrnl'[f] # Null, ~IsGone(f)', jrnl'[f].orig = current[f], Advances(c, f, label),
         ImageInv(f)', current'[f] = current[f], durable'[f] \in {durable[f], current[f]},
         \A n \in 1 .. MaxTx : Names(f, n)' => Names(f, n) \/ ActiveAs(c, n),
         OwnNames(c, f),
         PowerAhead => \A j \in jrnlDisk'[f] : j # Null /\ ~j.hot /\ j.super # Null => Null \notin superDisk[j.super]
  PROVE  IInv'
<1>1. /\ f \in File /\ Exc(c, f) /\ Res(c, f) /\ loc[c].opened = loc[c].write
      /\ pc[c] # "phasetwo" /\ pc[c] \notin Looking /\ pc[c] \in Committing
  BY PhaseOneFacts
<1>2. ConnInv(c)' /\ ColdInv(c)' /\ TxKept(c) /\ pc'[c] = label /\ loc'[c] = l
  BY PhaseOneConn
<1> USE <1>2
<1>3. Exc(c, f)'
  BY <1>1, LockSame
<1>4. OwnFile(c, f)
  BY <1>1, <1>3 DEF OwnFile
<1>5. PowerSafe(c, f, label, l)
  <2>1. l.opened = loc[c].write /\ l.zSuper = Null
    BY <1>1 DEF SameCommit
  <2> USE <2>1
  <2>2. f \in loc'[c].opened /\ pc'[c] \in Committing /\ superDisk' = superDisk
    BY DEF OneFile
  <2>3. PowerAhead => PowerFile(f)'
    BY <2>2 DEF PowerFile
  <2> QED BY <1>1, <2>3 DEF PowerSafe
<1>6. LocksApart(c)
  BY LocksSame DEF IInv
<1>7. \A g \in File : IsHot(g) /\ Holds(c, g)' => Exc(c, g)'
  BY <1>1, HotKept
<1> QED BY <1>1, <1>4, <1>5, <1>6, <1>7, FileStep

(* writeSuperJournal writes the name of the super-journal into the journal *)
(* of one file.                                                            *)
LEMMA WriteSuperJournalInv ==
  ASSUME FiniteSetFacts, IInv, NEW c \in Conn, NEW f \in File, writeSuperJournal(c, f)
  PROVE  IInv'
<1>1. Types /\ WriteInv(c) /\ pc[c] = "phaseone" /\ pc[c] \in PhaseOne /\ f \in loc[c].todo /\ "phaseone" \in PhaseOne
  BY DEF IInv, ConnInv, writeSuperJournal, Turn, PhaseOne
<1>2. f \in loc[c].write
  BY <1>1 DEF WriteInv
<1>3. /\ jrnl[f] \in Journal /\ jrnl[f] # Null /\ ~IsGone(f) /\ jrnl[f].orig = current[f]
      /\ ImageInv(f) /\ ~IsHot(f)
      /\ Active(c) /\ ~loc[c].isHot /\ loc[c].zSuper = Null /\ loc[c].v \in 1 .. MaxTx
      /\ Multi(c) => superDisk[loc[c].v] = {loc[c].write} /\ super[loc[c].v] # Null
  BY <1>1, <1>2, PhaseOneFacts
<1>4. loc[c] \in Local
  BY <1>1, ConnTypes
<1>5. PICK j : j = IF Multi(c) THEN [jrnl[f] EXCEPT !.super = loc[c].v] ELSE jrnl[f]
  OBVIOUS
<1>6. PICK l : l = [loc[c] EXCEPT !.todo = loc[c].todo \ {f}, !.f = f]
  OBVIOUS
<1>7. /\ jrnl' = [jrnl EXCEPT ![f] = j] /\ jrnlDisk' = [jrnlDisk EXCEPT ![f] = jrnlDisk[f] \cup {jrnl'[f]}]
      /\ Goto(c, "syncjournal", l)
      /\ lock' = lock /\ db' = db /\ dbDisk' = dbDisk /\ cache' = cache /\ current' = current /\ durable' = durable
      /\ super' = super /\ superDisk' = superDisk /\ scenario' = scenario /\ nTx' = nTx /\ calls' = calls /\ nFault' = nFault
  BY <1>5, <1>6 DEF writeSuperJournal, SetJournal, history
<1>8. /\ db \in [File -> Version \cup {Torn}] /\ jrnl \in [File -> Journal \cup {Null}]
      /\ dbDisk \in [File -> SUBSET (Version \cup {Torn})] /\ jrnlDisk \in [File -> SUBSET (Journal \cup {Null})]
      /\ current \in [File -> Version] /\ durable \in [File -> Version]
      /\ cache \in [Conn -> [File -> Version \cup {Null, Torn}]]
  BY <1>1, FileTypes
<1>9. /\ j \in Journal /\ j # Null /\ ~j.hot /\ j.orig = current[f]
      /\ IF Multi(c) THEN j.super = loc[c].v ELSE j = jrnl[f]
  <2>1. CASE Multi(c)
    <3> USE <2>1
    <3>1. j \in Journal /\ (j.hot <=> jrnl[f].hot) /\ j.orig = jrnl[f].orig /\ j.super = loc[c].v
      BY <1>3, <1>5 DEF Journal
    <3> QED BY <1>3, <3>1, Marks DEF IsHot
  <2>2. CASE ~Multi(c)
    BY <1>3, <1>5, <2>2 DEF IsHot
  <2> QED BY <2>1, <2>2
<1>10. jrnl' \in [File -> Journal \cup {Null}] /\ jrnl'[f] = j /\ \A g \in File : g # f => jrnl'[g] = jrnl[g]
  BY <1>7, <1>8, <1>9, SetOne
<1>11. PICK D : D = jrnlDisk[f] \cup {j}
  OBVIOUS
<1>12. /\ jrnlDisk' \in [File -> SUBSET (Journal \cup {Null})] /\ jrnlDisk'[f] = D
       /\ \A g \in File : g # f => jrnlDisk'[g] = jrnlDisk[g]
  <2>1. D \in SUBSET (Journal \cup {Null}) /\ jrnlDisk' = [jrnlDisk EXCEPT ![f] = D]
    BY <1>7, <1>8, <1>9, <1>10, <1>11
  <2> QED BY <1>8, <2>1, SetOne
<1>13. OneFile(f)
  BY <1>7, <1>8, <1>10, <1>12 DEF OneFile
<1>14. /\ l \in Local /\ l.todo = loc[c].todo \ {f} /\ l.write = loc[c].write /\ l.open = loc[c].open /\ l.f = f
       /\ l.opened = loc[c].opened /\ l.v = loc[c].v /\ ~l.isHot /\ l.zSuper = Null
  BY <1>3, <1>4, <1>6 DEF Local
<1>15. /\ GoesTo(c, "syncjournal", l) /\ "syncjournal" \in Committing
       /\ "syncjournal" \notin {"phaseone", "deletesuper", "phasetwo", "writelist", "syncdb"}
  BY <1>7, <1>8, <1>14 DEF GoesTo, Labels, Committing, PhaseOne
<1>16. SameCommit(c, f, "syncjournal", l)
  BY <1>14, <1>15 DEF SameCommit
<1>17. Advances(c, f, "syncjournal")
  BY <1>9, <1>10, <1>15 DEF Advances
<1>18. ~IsHot(f)' /\ ~IsGone(f)' /\ ~Live(f)'
  BY <1>3, <1>7, <1>9, <1>10 DEF IsHot, IsGone, Gone, Live
<1>19. ImageInv(f)'
  <2>1. ~Live(f)
    BY <1>3 DEF Live
  <2>2. /\ db[f] = current[f] /\ dbDisk[f] = {db[f]}
        /\ \A i \in jrnlDisk[f] : i # Null /\ i.hot =>
             i.orig \in {current[f], durable[f]} \/ (i.super # Null /\ superDisk[i.super] = {Null})
    BY <1>3, <2>1 DEF ImageInv
  <2>3. \A i \in jrnlDisk'[f] : i # Null /\ i.hot => i \in jrnlDisk[f] /\ i.orig # Null
    BY <1>3, <1>9, <1>11, <1>12 DEF ImageInv
  <2> QED BY <1>7, <1>10, <1>11, <1>12, <1>18, <2>2, <2>3 DEF ImageInv
<1>20. \A n \in 1 .. MaxTx : Names(f, n)' => Names(f, n) \/ ActiveAs(c, n)
  BY <1>3, <1>9, <1>10 DEF Names, ActiveAs
<1>21. pc'[c] = "syncjournal" /\ loc'[c] = l
  BY <1>1, <1>15, Arrives
<1>22. jrnl[f] \in jrnlDisk[f]
  BY <1>3 DEF ImageInv
<1>23. OwnNames(c, f)
  <2>1. Multi(c) => /\ ActiveAs(c, j.super) /\ Multi(c)' /\ pc'[c] \in Committing
                    /\ \A s \in superDisk[j.super] : f \in s
    BY <1>2, <1>3, <1>9, <1>14, <1>15, <1>21 DEF ActiveAs, Multi
  <2>2. ~Multi(c) => j \in jrnlDisk[f]
    BY <1>9, <1>22
  <2>3. \A i \in jrnlDisk'[f] : i \in jrnlDisk[f] \/ i = j
    BY <1>11, <1>12
  <2> QED BY <2>1, <2>2, <2>3 DEF OwnNames
<1>24. PowerAhead => \A i \in jrnlDisk'[f] : i # Null /\ ~i.hot /\ i.super # Null => Null \notin superDisk[i.super]
  <2>1. PowerAhead => PowerFile(f)
    BY DEF IInv, PowerInv
  <2>2. Multi(c) => Null \notin superDisk[j.super]
    <3>1. loc[c].write # Null
      BY <1>4, MarksAssumption DEF Local
    <3> QED BY <1>3, <1>9, <3>1
  <2> QED BY <1>9, <1>11, <1>12, <1>22, <2>1, <2>2 DEF PowerFile
<1>25. durable'[f] \in {durable[f], current[f]} /\ current'[f] = current[f] /\ \A g \in File : g # f => cache'[c][g] = cache[c][g]
  BY <1>7
<1>26. jrnl'[f] # Null /\ jrnl'[f].orig = current[f] /\ lock' = lock
  BY <1>7, <1>9, <1>10
<1> QED BY <1>1, <1>2, <1>13, <1>15, <1>16, <1>17, <1>18, <1>19, <1>20, <1>23, <1>24, <1>25, <1>26, PhaseOneStep

(* syncJournal syncs the journal and makes it hot.                         *)
LEMMA SyncJournalInv ==
  ASSUME FiniteSetFacts, IInv, NEW c \in Conn, syncJournal(c)
  PROVE  IInv'
<1>1. Types /\ WriteInv(c) /\ CommitInv(c) /\ pc[c] = "syncjournal" /\ pc[c] \in PhaseOne \ {"phaseone"}
  BY DEF IInv, ConnInv, syncJournal, PhaseOne
<1>2. PICK f : f = F(c)
  OBVIOUS
<1>3. f \in loc[c].write /\ f \notin loc[c].todo
  BY <1>1, <1>2 DEF WriteInv
<1>4. /\ f \in File /\ jrnl[f] \in Journal /\ jrnl[f] # Null /\ ~IsGone(f) /\ jrnl[f].orig = current[f]
      /\ ImageInv(f) /\ ~loc[c].isHot /\ loc[c].zSuper = Null
  BY <1>1, <1>3, PhaseOneFacts
<1> USE <1>4
<1>5. loc[c] \in Local
  BY <1>1, ConnTypes
<1>6. PICK j, l : j = [jrnl[f] EXCEPT !.hot = TRUE] /\ l = loc[c]
  OBVIOUS
<1>7. /\ jrnl' = [jrnl EXCEPT ![f] = j] /\ jrnlDisk' = [jrnlDisk EXCEPT ![f] = {jrnl'[f]}]
      /\ durable' = [durable EXCEPT ![f] = current[f]]
      /\ Goto(c, "writelist", l)
      /\ lock' = lock /\ db' = db /\ dbDisk' = dbDisk /\ cache' = cache /\ current' = current
      /\ super' = super /\ superDisk' = superDisk /\ scenario' = scenario /\ nTx' = nTx /\ calls' = calls /\ nFault' = nFault
  BY <1>2, <1>6 DEF syncJournal, SetJournal, SyncJournal
<1>8. /\ db \in [File -> Version \cup {Torn}] /\ jrnl \in [File -> Journal \cup {Null}]
      /\ dbDisk \in [File -> SUBSET (Version \cup {Torn})] /\ jrnlDisk \in [File -> SUBSET (Journal \cup {Null})]
      /\ current \in [File -> Version] /\ durable \in [File -> Version]
      /\ cache \in [Conn -> [File -> Version \cup {Null, Torn}]]
  BY <1>1, FileTypes
<1>9. j \in Journal /\ j # Null /\ j.hot /\ j.orig = current[f] /\ j.super = jrnl[f].super
  <2>1. TRUE \in BOOLEAN
    OBVIOUS
  <2>2. j \in Journal /\ j.hot /\ j.orig = jrnl[f].orig /\ j.super = jrnl[f].super
    BY <1>6, <2>1 DEF Journal
  <2> QED BY <2>2, Marks
<1>10. jrnl' \in [File -> Journal \cup {Null}] /\ jrnl'[f] = j /\ \A g \in File : g # f => jrnl'[g] = jrnl[g]
  BY <1>7, <1>8, <1>9, SetOne
<1>11. /\ jrnlDisk' \in [File -> SUBSET (Journal \cup {Null})] /\ jrnlDisk'[f] = {j}
       /\ \A g \in File : g # f => jrnlDisk'[g] = jrnlDisk[g]
  <2>1. {j} \in SUBSET (Journal \cup {Null}) /\ jrnlDisk' = [jrnlDisk EXCEPT ![f] = {j}]
    BY <1>7, <1>9, <1>10
  <2> QED BY <1>8, <2>1, SetOne
<1>12. durable' \in [File -> Version] /\ durable'[f] = current[f] /\ \A g \in File : g # f => durable'[g] = durable[g]
  <2>1. current[f] \in Version
    BY <1>8
  <2> QED BY <1>7, <1>8, <2>1, SetOne
<1>13. OneFile(f)
  BY <1>7, <1>8, <1>10, <1>11, <1>12 DEF OneFile
<1>14. /\ l \in Local /\ l.todo = loc[c].todo \ {f} /\ l.write = loc[c].write /\ l.open = loc[c].open /\ l.f = f
       /\ l.opened = loc[c].opened /\ l.v = loc[c].v /\ ~l.isHot /\ l.zSuper = Null
  BY <1>2, <1>3, <1>5, <1>6 DEF F
<1>15. /\ GoesTo(c, "writelist", l) /\ "writelist" \in Committing
       /\ "writelist" \notin {"phaseone", "deletesuper", "phasetwo", "syncjournal", "syncdb"}
  BY <1>7, <1>8, <1>14 DEF GoesTo, Labels, Committing, PhaseOne
<1>16. SameCommit(c, f, "writelist", l)
  BY <1>14, <1>15 DEF SameCommit
<1>17. Advances(c, f, "writelist")
  <2>1. Multi(c) => jrnl[f].super = loc[c].v
    BY <1>1, <1>2 DEF CommitInv
  <2> QED BY <1>9, <1>10, <1>15, <2>1 DEF Advances
<1>18. IsHot(f)' /\ ~IsGone(f)' /\ Live(f)'
  BY <1>7, <1>9, <1>10 DEF IsHot, IsGone, Gone, Live
<1>19. ImageInv(f)'
  <2>1. current[f] # Null
    BY <1>8, Marks
  <2> QED BY <1>7, <1>9, <1>10, <1>11, <1>12, <1>18, <2>1 DEF ImageInv
<1>20. \A n \in 1 .. MaxTx : Names(f, n)' => Names(f, n) \/ ActiveAs(c, n)
  BY <1>9, <1>10 DEF Names
<1>21. OwnNames(c, f)
  BY <1>9, <1>11 DEF OwnNames, ImageInv
<1>22. \A i \in jrnlDisk'[f] : i.hot
  BY <1>9, <1>11
<1>23. durable'[f] \in {durable[f], current[f]} /\ current'[f] = current[f] /\ \A g \in File : g # f => cache'[c][g] = cache[c][g]
  BY <1>7, <1>12
<1>24. jrnl'[f] # Null /\ jrnl'[f].orig = current[f] /\ lock' = lock
  BY <1>7, <1>9, <1>10
<1> QED BY <1>1, <1>2, <1>3, <1>13, <1>15, <1>16, <1>17, <1>18, <1>19, <1>20, <1>21, <1>22, <1>23, <1>24, PhaseOneStep

(* The version that a transaction writes is one more than the last, and    *)
(* every one of them has a number of its own.                              *)
LEMMA NextVersion ==
  ASSUME FiniteSetFacts, IInv, NEW c \in Conn, NEW f \in loc[c].write, Active(c), pc[c] = "phasetwo" => ~Multi(c),
         jrnl[f].orig = current[f]
  PROVE  /\ NewVersion(c, f) \in Version /\ NewVersion(c, f)[2] = current[f][2] + 1
         /\ current[f][2] \in Nat /\ nTx \in Nat /\ c \in Pending(f) /\ IsFiniteSet(Pending(f))
         /\ current[f][2] + Cardinality(Pending(f)) <= nTx
<1>1. Types /\ CounterInv /\ f \in File /\ loc[c].v \in 0 .. MaxTx
  BY ConnTypes DEF IInv
<1> USE <1>1
<1>2. current[f] \in Version /\ nTx \in 0 .. MaxTx
  BY FileTypes DEF Types
<1>3. current[f][2] \in Nat /\ nTx \in Nat /\ nTx <= MaxTx
  BY SMT, <1>2, SuperJournalAssumption DEF Version
<1>4. c \in Pending(f)
  BY DEF Pending
<1> USE <1>4
<1>5. IsFiniteSet(Pending(f))
  <2>1. Pending(f) \subseteq Conn /\ IsFiniteSet(Conn)
    BY SuperJournalAssumption DEF Pending
  <2> QED BY <2>1 DEF FiniteSetFacts, SubsetsFinite
<1> USE <1>5
<1>6. Cardinality(Pending(f)) \in Nat /\ Cardinality(Pending(f)) # 0
  BY DEF FiniteSetFacts, CardinalityIsNat, EmptyIsFinite
<1>7. current[f][2] + Cardinality(Pending(f)) <= nTx
  BY DEF CounterInv
<1>8. current[f][2] + 1 \in 0 .. MaxTx
  BY SMT, <1>3, <1>6, <1>7, SuperJournalAssumption
<1>9. NewVersion(c, f) = <<loc[c].v, current[f][2] + 1>>
  BY DEF NewVersion
<1>10. NewVersion(c, f) \in Version /\ NewVersion(c, f)[2] = current[f][2] + 1
  BY SMT, <1>1, <1>8, <1>9 DEF Version
<1> QED BY <1>3, <1>7, <1>10

(* pager_write_pagelist writes the new pages into a file whose journal is  *)
(* hot and synced.                                                         *)
LEMMA WritePagelistInv ==
  ASSUME FiniteSetFacts, IInv, NEW c \in Conn, pager_write_pagelist(c)
  PROVE  IInv'
<1>1. Types /\ WriteInv(c) /\ CommitInv(c) /\ pc[c] = "writelist" /\ pc[c] \in PhaseOne \ {"phaseone"}
  BY DEF IInv, ConnInv, pager_write_pagelist, PhaseOne
<1> USE <1>1
<1>2. PICK f : f = F(c)
  OBVIOUS
<1>3. f \in loc[c].write /\ f \notin loc[c].todo
  BY <1>2 DEF WriteInv
<1>4. /\ f \in File /\ jrnl[f] # Null /\ ~IsGone(f) /\ jrnl[f].orig = current[f]
      /\ ImageInv(f) /\ ~loc[c].isHot /\ loc[c].zSuper = Null /\ Active(c)
  BY <1>3, PhaseOneFacts
<1>5. loc[c] \in Local
  BY ConnTypes
<1>6. jrnl[f].hot /\ (Multi(c) => jrnl[f].super = loc[c].v)
  BY <1>2 DEF CommitInv
<1>7. PICK w, l, D : w = NewVersion(c, f) /\ l = loc[c] /\ D = dbDisk[f] \cup {Torn, w}
  OBVIOUS
<1>8. /\ db' = [db EXCEPT ![f] = Torn] /\ dbDisk' = [dbDisk EXCEPT ![f] = D] /\ SetCache(c, f, w)
      /\ Goto(c, "syncdb", l)
      /\ lock' = lock /\ jrnl' = jrnl /\ jrnlDisk' = jrnlDisk /\ current' = current /\ durable' = durable
      /\ super' = super /\ superDisk' = superDisk /\ scenario' = scenario /\ nTx' = nTx /\ calls' = calls /\ nFault' = nFault
  BY <1>2, <1>7 DEF pager_write_pagelist, SetDb, MayLose, history
<1>9. /\ db \in [File -> Version \cup {Torn}] /\ jrnl \in [File -> Journal \cup {Null}]
      /\ dbDisk \in [File -> SUBSET (Version \cup {Torn})] /\ jrnlDisk \in [File -> SUBSET (Journal \cup {Null})]
      /\ current \in [File -> Version] /\ durable \in [File -> Version]
  BY FileTypes
<1>10. w \in Version
  BY <1>3, <1>4, <1>7, NextVersion
<1>11. db' \in [File -> Version \cup {Torn}] /\ \A g \in File : g # f => db'[g] = db[g]
  <2>1. Torn \in Version \cup {Torn}
    OBVIOUS
  <2> QED BY <1>4, <1>8, <1>9, <2>1, SetOne
<1>12. /\ dbDisk' \in [File -> SUBSET (Version \cup {Torn})] /\ \A g \in File : g # f => dbDisk'[g] = dbDisk[g]
  <2>1. D \in SUBSET (Version \cup {Torn})
    BY <1>4, <1>7, <1>9, <1>10
  <2> QED BY <1>4, <1>8, <1>9, <2>1, SetOne
<1>13. /\ cache' \in [Conn -> [File -> Version \cup {Null, Torn}]] /\ cache'[c][f] = w
       /\ (\A g \in File : g # f => cache'[c][g] = cache[c][g])
       /\ \A d \in Conn : d # c => cache'[d] = cache[d]
  <2>1. w \in Version \cup {Null, Torn} /\ SetCache(c, f, w) /\ f \in File
    BY <1>4, <1>8, <1>10
  <2> QED BY <2>1, CacheSet
<1>14. OneFile(f)
  BY <1>8, <1>9, <1>11, <1>12 DEF OneFile
<1>15. /\ l \in Local /\ l.todo = loc[c].todo \ {f} /\ l.write = loc[c].write /\ l.open = loc[c].open /\ l.f = f
       /\ l.opened = loc[c].opened /\ l.v = loc[c].v /\ ~l.isHot /\ l.zSuper = Null
  BY <1>2, <1>3, <1>4, <1>5, <1>7 DEF F
<1>16. /\ GoesTo(c, "syncdb", l) /\ "syncdb" \in Committing
       /\ "syncdb" \notin {"phaseone", "deletesuper", "phasetwo", "syncjournal"}
  BY <1>8, <1>13, <1>15 DEF GoesTo, Labels, Committing, PhaseOne
<1> USE <1>16
<1>17. SameCommit(c, f, "syncdb", l)
  BY <1>15 DEF SameCommit
<1>18. Advances(c, f, "syncdb")
  <2>1. loc'[c] = l
    BY Arrives
  <2>2. NewVersion(c, f)' = w
    BY <1>7, <1>8, <2>1 DEF NewVersion
  <2> QED BY <1>6, <1>8, <1>13, <2>2 DEF Advances
<1>19. IsHot(f) /\ IsHot(f)' /\ ~IsGone(f)' /\ Live(f) /\ Live(f)'
  BY <1>4, <1>6, <1>8 DEF IsHot, IsGone, Gone, Live
<1> USE <1>19
<1>20. ImageInv(f)'
  BY <1>4, <1>8 DEF ImageInv
<1>21. \A n \in 1 .. MaxTx : Names(f, n)' => Names(f, n) \/ ActiveAs(c, n)
  BY <1>8 DEF Names
<1>22. OwnNames(c, f)
  BY <1>8 DEF OwnNames
<1>23. \A i \in jrnlDisk'[f] : i.hot
  BY <1>6, <1>8, <1>4 DEF ImageInv
<1>24. durable'[f] \in {durable[f], current[f]} /\ current'[f] = current[f]
  BY <1>8
<1>25. jrnl'[f] # Null /\ jrnl'[f].orig = current[f] /\ lock' = lock
  BY <1>4, <1>8
<1> QED BY <1>2, <1>3, <1>13, <1>14, <1>17, <1>18, <1>20, <1>21, <1>22, <1>23, <1>24, <1>25, PhaseOneStep

(* sqlite3PagerSync syncs the file: phase one is done with it.             *)
LEMMA PagerSyncInv ==
  ASSUME FiniteSetFacts, IInv, NEW c \in Conn, sqlite3PagerSync(c)
  PROVE  IInv'
<1>1. Types /\ WriteInv(c) /\ CommitInv(c) /\ pc[c] = "syncdb" /\ pc[c] \in PhaseOne \ {"phaseone"}
  BY DEF IInv, ConnInv, sqlite3PagerSync, PhaseOne
<1>2. PICK f : f = F(c)
  OBVIOUS
<1>3. f \in loc[c].write /\ f \notin loc[c].todo /\ loc[c].todo \subseteq loc[c].write
  BY <1>1, <1>2 DEF WriteInv
<1>4. /\ f \in File /\ jrnl[f] # Null /\ ~IsGone(f) /\ jrnl[f].orig = current[f]
      /\ ImageInv(f) /\ ~loc[c].isHot /\ loc[c].zSuper = Null /\ Active(c)
  BY <1>1, <1>3, PhaseOneFacts
<1>5. loc[c] \in Local
  BY <1>1, ConnTypes
<1>6. jrnl[f].hot /\ (Multi(c) => jrnl[f].super = loc[c].v) /\ cache[c][f] = NewVersion(c, f)
  BY <1>1, <1>2 DEF CommitInv
<1>7. PICK w : w = NewVersion(c, f)
  OBVIOUS
<1>8. PICK label, l :
        /\ label = IF loc[c].todo # {} THEN "phaseone" ELSE IF Multi(c) THEN "deletesuper" ELSE "phasetwo"
        /\ l = [loc[c] EXCEPT !.f = Null, !.todo = IF label = "phasetwo" THEN loc[c].write ELSE loc[c].todo]
  OBVIOUS
<1>9. Goto(c, label, l)
  <2>1. CASE label = "phasetwo"
    <3> USE <2>1
    <3>1. l = [[loc[c] EXCEPT !.f = Null] EXCEPT !.todo = [loc[c] EXCEPT !.f = Null].write]
      BY <1>5, <1>8 DEF Local
    <3>2. loc[c].todo = {} /\ ~Multi(c)
      BY <1>8
    <3> QED BY <3>1, <3>2 DEF sqlite3PagerSync
  <2>2. CASE label # "phasetwo"
    <3> USE <2>2
    <3>1. l = [loc[c] EXCEPT !.f = Null]
      BY <1>5, <1>8 DEF Local
    <3> QED BY <1>8, <3>1 DEF sqlite3PagerSync
  <2> QED BY <2>1, <2>2
<1>10. /\ db' = [db EXCEPT ![f] = w] /\ dbDisk' = [dbDisk EXCEPT ![f] = {db'[f]}]
       /\ lock' = lock /\ jrnl' = jrnl /\ jrnlDisk' = jrnlDisk /\ cache' = cache /\ current' = current /\ durable' = durable
       /\ super' = super /\ superDisk' = superDisk /\ scenario' = scenario /\ nTx' = nTx /\ calls' = calls /\ nFault' = nFault
  BY <1>2, <1>7 DEF sqlite3PagerSync, SetDb, SyncDb, history
<1>11. /\ db \in [File -> Version \cup {Torn}] /\ jrnl \in [File -> Journal \cup {Null}]
       /\ dbDisk \in [File -> SUBSET (Version \cup {Torn})] /\ jrnlDisk \in [File -> SUBSET (Journal \cup {Null})]
       /\ current \in [File -> Version] /\ durable \in [File -> Version]
       /\ cache \in [Conn -> [File -> Version \cup {Null, Torn}]]
  BY <1>1, FileTypes
<1>12. w \in Version
  BY <1>1, <1>3, <1>4, <1>7, NextVersion
<1>13. db' \in [File -> Version \cup {Torn}] /\ db'[f] = w /\ \A g \in File : g # f => db'[g] = db[g]
  <2>1. w \in Version \cup {Torn}
    BY <1>12
  <2> QED BY <1>4, <1>10, <1>11, <2>1, SetOne
<1>14. /\ dbDisk' \in [File -> SUBSET (Version \cup {Torn})] /\ dbDisk'[f] = {w}
       /\ \A g \in File : g # f => dbDisk'[g] = dbDisk[g]
  <2>1. {w} \in SUBSET (Version \cup {Torn}) /\ dbDisk' = [dbDisk EXCEPT ![f] = {w}]
    BY <1>10, <1>12, <1>13
  <2> QED BY <1>4, <1>11, <2>1, SetOne
<1>15. OneFile(f)
  BY <1>10, <1>11, <1>13, <1>14 DEF OneFile
<1>16. label \in {"phaseone", "deletesuper", "phasetwo"} /\ label \in Committing /\ label \in Labels
  BY <1>8 DEF Committing, PhaseOne, Labels
<1>17. /\ l \in Local /\ l.write = loc[c].write /\ l.open = loc[c].open
       /\ l.todo = (IF label = "phasetwo" THEN loc[c].write ELSE loc[c].todo)
       /\ l.opened = loc[c].opened /\ l.v = loc[c].v /\ ~l.isHot /\ l.zSuper = Null
  <2>1. (IF label = "phasetwo" THEN loc[c].write ELSE loc[c].todo) \in SUBSET File
    BY <1>5 DEF Local
  <2> QED BY <1>4, <1>5, <1>8, <2>1 DEF Local
<1>18. GoesTo(c, label, l)
  BY <1>9, <1>10, <1>11, <1>16, <1>17 DEF GoesTo
<1>19. SameCommit(c, f, label, l)
  <2>1. label \in {"deletesuper", "phasetwo"} => loc[c].todo = {}
    BY <1>8
  <2>2. "phasetwo" \notin PhaseOne /\ (label \in PhaseOne => label = "phaseone")
    BY <1>16 DEF PhaseOne
  <2> QED BY <1>3, <1>16, <1>17, <2>1, <2>2 DEF SameCommit
<1>20. Advances(c, f, label)
  <2>1. loc'[c] = l
    BY <1>1, <1>18, Arrives
  <2>2. NewVersion(c, f)' = w /\ (Multi(c)' <=> Multi(c)) /\ loc'[c].v = loc[c].v
    BY <1>7, <1>10, <1>17, <2>1 DEF NewVersion, Multi
  <2>3. Done(c, f)'
    BY <1>6, <1>7, <1>10, <1>13, <1>14, <2>2 DEF Done
  <2>4. (label = "deletesuper" => Multi(c)) /\ (label = "phasetwo" => ~Multi(c))
    BY <1>8
  <2> QED BY <1>16, <2>3, <2>4 DEF Advances
<1>21. IsHot(f) /\ IsHot(f)' /\ ~IsGone(f)' /\ Live(f) /\ Live(f)'
  BY <1>4, <1>6, <1>10 DEF IsHot, IsGone, Gone, Live
<1> USE <1>21
<1>22. ImageInv(f)'
  BY <1>4, <1>10 DEF ImageInv
<1>23. \A n \in 1 .. MaxTx : Names(f, n)' => Names(f, n) \/ ActiveAs(c, n)
  BY <1>10 DEF Names
<1>24. OwnNames(c, f)
  BY <1>10 DEF OwnNames
<1>25. \A i \in jrnlDisk'[f] : i.hot
  BY <1>4, <1>6, <1>10 DEF ImageInv
<1>26. durable'[f] \in {durable[f], current[f]} /\ current'[f] = current[f] /\ \A g \in File : g # f => cache'[c][g] = cache[c][g]
  BY <1>10
<1>27. jrnl'[f] # Null /\ jrnl'[f].orig = current[f] /\ lock' = lock
  BY <1>4, <1>10
<1> QED BY <1>1, <1>2, <1>3, <1>15, <1>16, <1>18, <1>19, <1>20, <1>22, <1>23, <1>24, <1>25, <1>26, <1>27, PhaseOneStep

=============================================================================
