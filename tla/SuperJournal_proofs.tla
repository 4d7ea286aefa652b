------------------------- MODULE SuperJournal_proofs ------------------------
(***************************************************************************)
(* The commit of SuperJournal, the beginning of a transaction and the loss *)
(* of power keep the inductive invariant; atomic commit and what follows   *)
(* from it.                                                                *)
(***************************************************************************)
EXTENDS SuperJournalPhaseOne_proofs

USE Zenon

-----------------------------------------------------------------------------
(* Phase two of a commit, and the super-journal.                           *)

(* A transaction on one file.                                              *)
LEMMA Single ==
  ASSUME FiniteSetFacts, Types, NEW c \in Conn, NEW f \in loc[c].write, ~Multi(c)
  PROVE  loc[c].write = {f}
<1>1. loc[c].write \subseteq File /\ IsFiniteSet(File)
  BY ConnTypes, SuperJournalAssumption
<1>2. IsFiniteSet(loc[c].write)
  BY <1>1 DEF FiniteSetFacts, SubsetsFinite
<1> USE <1>2
<1>3. PICK W : W = loc[c].write \ {f}
  OBVIOUS
<1> USE <1>3
<1>4. IsFiniteSet(W) /\ Cardinality(W) = Cardinality(loc[c].write) - 1
  BY DEF FiniteSetFacts, ElementRemoved
<1> USE <1>4
<1>5. Cardinality(loc[c].write) \in Nat /\ Cardinality(W) \in Nat
  BY DEF FiniteSetFacts, CardinalityIsNat
<1>6. Cardinality(W) = 0
  BY SMT, <1>4, <1>5 DEF Multi
<1>7. W = {}
  BY <1>6 DEF FiniteSetFacts, EmptyIsFinite
<1> QED BY <1>7

(* A commit in its second phase, and a file that is still to come.         *)
LEMMA PhaseTwoFacts ==
  ASSUME FiniteSetFacts, IInv, NEW c \in Conn, pc[c] = "phasetwo", NEW f \in loc[c].todo
  PROVE  /\ f \in File /\ f \in loc[c].write /\ Exc(c, f) /\ Res(c, f)
         /\ jrnl[f] \in Journal /\ jrnl[f] # Null /\ IsHot(f) /\ jrnlDisk[f] = {jrnl[f]}
         /\ ImageInv(f) /\ cache[c][f] = db[f] /\ dbDisk[f] = {db[f]} /\ db[f] \in Version
         /\ Active(c) /\ loc[c].opened = loc[c].todo /\ ~loc[c].isHot /\ loc[c].zSuper = Null
         /\ Multi(c) => IsGone(f) /\ db[f] = current[f] /\ super[loc[c].v] = Null
         /\ ~Multi(c) => /\ ~IsGone(f) /\ db[f][2] = current[f][2] + 1 /\ loc[c].write = {f}
                         /\ jrnl[f].orig = durable[f] /\ db[f][2] + Cardinality(Pending(f) \ {c}) <= nTx
<1>1. Types /\ HoldsInv(c) /\ WriteInv(c) /\ JournalInv(c) /\ CommitInv(c) /\ CleanInv(c)
  BY DEF IInv, ConnInv
<1> USE <1>1
<1>2. /\ loc[c] \in Local /\ loc[c].write \subseteq File /\ loc[c].todo \subseteq File /\ lock \in [Handle -> Level]
  BY ConnTypes
<1> USE <1>2
<1>3. f \in File /\ ImageInv(f) /\ f \in loc[c].write /\ Exc(c, f) /\ f \in loc[c].opened /\ loc[c].opened = loc[c].todo
  BY DEF IInv, FileInv, WriteInv
<1> USE <1>3
<1>4. Res(c, f)
  BY Levels
<1> USE <1>4
<1>5. ~loc[c].isHot /\ loc[c].zSuper = Null /\ Active(c)
  BY DEF HoldsInv, CleanInv, Active, Undoing, Playing, Cleaning
<1> USE <1>5
<1>6. OwnJournal(c, f)
  BY DEF JournalInv
<1> USE <1>6
<1>7. jrnl[f] # Null /\ jrnl[f].hot
  BY DEF OwnJournal, CommitInv, Done
<1> USE <1>7
<1>8. IsHot(f) /\ jrnlDisk[f] = {jrnl[f]} /\ jrnl[f] \in Journal
  BY FileTypes DEF IsHot, ImageInv
<1> USE <1>8
<1>9. CASE Multi(c)
  <2> USE <1>9
  <2>1. super[loc[c].v] = Null /\ jrnl[f].super = loc[c].v
    BY DEF CommitInv
  <2> USE <2>1
  <2>2. loc[c].v # Null
    BY MarksAssumption DEF Local
  <2>3. IsGone(f)
    BY <2>2 DEF IsGone, Gone
  <2> USE <2>3
  <2>4. db[f] = current[f] /\ dbDisk[f] = {db[f]} /\ cache[c][f] = current[f]
    BY DEF ImageInv, Live, OwnJournal
  <2>5. current[f] \in Version
    BY FileTypes
  <2> QED BY <2>4, <2>5
<1>10. CASE ~Multi(c)
  <2> USE <1>10
  <2>1. Done(c, f) /\ ~IsGone(f)
    BY DEF CommitInv
  <2> USE <2>1
  <2>2. db[f] = NewVersion(c, f) /\ dbDisk[f] = {db[f]} /\ cache[c][f] = db[f]
    BY DEF Done
  <2>3. jrnl[f].orig = current[f] /\ durable[f] = current[f]
    BY DEF ImageInv, Live
  <2> USE <2>3
  <2>4. /\ NewVersion(c, f) \in Version /\ NewVersion(c, f)[2] = current[f][2] + 1
        /\ current[f][2] \in Nat /\ nTx \in Nat /\ c \in Pending(f) /\ IsFiniteSet(Pending(f))
        /\ current[f][2] + Cardinality(Pending(f)) <= nTx
    BY NextVersion
  <2> USE <2>4
  <2>5. Cardinality(Pending(f) \ {c}) = Cardinality(Pending(f)) - 1 /\ Cardinality(Pending(f)) \in Nat
    BY DEF FiniteSetFacts, ElementRemoved, CardinalityIsNat
  <2>6. db[f][2] + Cardinality(Pending(f) \ {c}) <= nTx
    BY SMT, <2>2, <2>4, <2>5
  <2>7. loc[c].write = {f}
    BY Single
  <2> QED BY <2>2, <2>6, <2>7
<1> QED BY <1>9, <1>10

(* It does so.                                                             *)
LEMMA AfterPhaseTwoIs ==
  ASSUME Types, NEW c \in Conn, NEW f, AfterPhaseTwo(c, f), ~loc[c].isHot, loc[c].zSuper = Null,
         loc[c].opened = loc[c].todo
  PROVE  \E label \in {"next", "phasetwo"}, l \in Local : Leaves(c, f, label, l)
<1>1. loc[c] \in Local
  BY ConnTypes
<1>2. PICK l : l = [loc[c] EXCEPT !.todo = loc[c].todo \ {f}, !.opened = loc[c].opened \ {f}]
  OBVIOUS
<1> USE <1>2
<1>3. /\ l \in Local /\ l.todo = loc[c].todo \ {f} /\ l.opened = loc[c].todo \ {f} /\ l.open = loc[c].open
      /\ l.v = loc[c].v /\ ~l.isHot /\ l.zSuper = Null /\ l.write = loc[c].write
  BY <1>1 DEF Local
<1> USE <1>3
<1>4. IF l.todo = {} THEN Goto(c, "next", [l EXCEPT !.write = {}]) ELSE Goto(c, "phasetwo", l)
  BY DEF AfterPhaseTwo
<1> USE <1>4
<1>5. CASE l.todo = {}
  <2> USE <1>5
  <2>1. PICK m : m = [l EXCEPT !.write = {}]
    OBVIOUS
  <2> USE <2>1
  <2>2. /\ m \in Local /\ m.todo = l.todo /\ m.opened = l.opened /\ m.open = l.open
        /\ m.v = l.v /\ (m.isHot <=> l.isHot) /\ m.zSuper = l.zSuper /\ m.write = {}
    BY DEF Local
  <2>3. Goto(c, "next", m)
    OBVIOUS
  <2>4. "next" # "phasetwo"
    OBVIOUS
  <2> QED BY <2>2, <2>3, <2>4 DEF Leaves
<1>6. CASE l.todo # {}
  <2> USE <1>6
  <2>1. Goto(c, "phasetwo", l) /\ "next" # "phasetwo"
    OBVIOUS
  <2> QED BY <2>1 DEF Leaves
<1> QED BY <1>5, <1>6

(* sqlite3PagerCommitPhaseTwo finalises the journal of one file: of a      *)
(* transaction on one file that is its commit, of one on several files the *)
(* commit is done.                                                         *)
LEMMA CommitPhaseTwoInv ==
  ASSUME FiniteSetFacts, NoStaleName, IInv, NEW c \in Conn, NEW f \in File, sqlite3PagerCommitPhaseTwo(c, f)
  PROVE  IInv'
<1>1. Types /\ HoldsInv(c) /\ WriteInv(c) /\ JournalInv(c) /\ CommitInv(c) /\ CacheInv(c) /\ pc[c] = "phasetwo" /\ f \in loc[c].todo
  BY DEF IInv, ConnInv, sqlite3PagerCommitPhaseTwo, Turn
<1>2. /\ f \in loc[c].write /\ Exc(c, f) /\ Res(c, f)
      /\ jrnl[f] \in Journal /\ jrnl[f] # Null /\ IsHot(f) /\ jrnlDisk[f] = {jrnl[f]}
      /\ ImageInv(f) /\ cache[c][f] = db[f] /\ dbDisk[f] = {db[f]} /\ db[f] \in Version
      /\ Active(c) /\ loc[c].opened = loc[c].todo /\ ~loc[c].isHot /\ loc[c].zSuper = Null
      /\ Multi(c) => IsGone(f) /\ db[f] = current[f] /\ super[loc[c].v] = Null
      /\ ~Multi(c) => /\ ~IsGone(f) /\ db[f][2] = current[f][2] + 1 /\ loc[c].write = {f}
                      /\ jrnl[f].orig = durable[f] /\ db[f][2] + Cardinality(Pending(f) \ {c}) <= nTx
  BY <1>1, PhaseTwoFacts
<1>3. /\ loc[c].open \subseteq File /\ loc[c].write \subseteq File /\ loc[c].todo \subseteq loc[c].write
  BY <1>1, ConnTypes DEF WriteInv
<1>4. PICK hasSuper : hasSuper = Multi(c)
  OBVIOUS
<1>5. /\ pager_end_transaction(c, f, hasSuper, TRUE) /\ current' = Committed({f}) /\ AfterPhaseTwo(c, f)
      /\ durable' = IF Env.mode[c] = "delete" /\ ~Env.extraSync THEN durable ELSE [durable EXCEPT ![f] = db[f]]
      /\ db' = db /\ dbDisk' = dbDisk /\ cache' = cache
      /\ super' = super /\ superDisk' = superDisk /\ scenario' = scenario /\ nTx' = nTx /\ calls' = calls /\ nFault' = nFault
  BY <1>4 DEF sqlite3PagerCommitPhaseTwo
<1>6. /\ db \in [File -> Version \cup {Torn}] /\ dbDisk \in [File -> SUBSET (Version \cup {Torn})]
      /\ current \in [File -> Version] /\ durable \in [File -> Version]
      /\ cache \in [Conn -> [File -> Version \cup {Null, Torn}]]
  BY <1>1, FileTypes
<1>7. Ended(c, f, hasSuper, TRUE)
  <2>1. hasSuper \in BOOLEAN /\ TRUE \in BOOLEAN
    BY SMT, <1>4 DEF Multi
  <2> QED BY <1>1, <1>2, <1>5, <2>1, EndTransaction
<1>8. current' \in [File -> Version] /\ current'[f] = db[f] /\ \A g \in File : g # f => current'[g] = current[g]
  BY <1>2, <1>5, <1>6 DEF Committed
<1>9. /\ durable' \in [File -> Version] /\ (\A g \in File : g # f => durable'[g] = durable[g])
      /\ durable'[f] = IF Env.mode[c] = "delete" /\ ~Env.extraSync THEN durable[f] ELSE db[f]
  <2>1. CASE Env.mode[c] = "delete" /\ ~Env.extraSync
    BY <1>5, <1>6, <2>1
  <2>2. CASE ~(Env.mode[c] = "delete" /\ ~Env.extraSync)
    <3> USE <2>2
    <3>1. durable' = [durable EXCEPT ![f] = db[f]]
      BY <1>5
    <3>2. durable' \in [File -> Version] /\ (\A g \in File : g # f => durable'[g] = durable[g]) /\ durable'[f] = db[f]
      BY <1>2, <1>6, <3>1, SetOne
    <3> QED BY <3>2
  <2> QED BY <2>1, <2>2
<1>10. OneFile(f)
  BY <1>5, <1>6, <1>7, <1>8, <1>9 DEF OneFile, Ended
<1>l. PICK label \in {"next", "phasetwo"}, l \in Local : Leaves(c, f, label, l)
  <2>1. Types /\ AfterPhaseTwo(c, f) /\ ~loc[c].isHot /\ loc[c].zSuper = Null /\ loc[c].opened = loc[c].todo
    BY <1>1, <1>2, <1>5
  <2> QED BY <2>1, AfterPhaseTwoIs
<1>11. /\ Goto(c, label, l) /\ l.todo = loc[c].todo \ {f} /\ l.opened = loc[c].todo \ {f} /\ l.open = loc[c].open
       /\ l.v = loc[c].v /\ ~l.isHot /\ l.zSuper = Null
       /\ IF label = "next" THEN l.todo = {} /\ l.write = {} ELSE l.todo # {} /\ l.write = loc[c].write
       /\ label \in {"next", "phasetwo"} /\ l \in Local
  BY <1>l DEF Leaves
<1>12. GoesTo(c, label, l)
  BY <1>5, <1>6, <1>11 DEF GoesTo, Labels
<1>13. pc'[c] = label /\ loc'[c] = l
  BY <1>1, <1>12, Arrives
<1>14. \/ jrnl'[f] = Null /\ Env.mode[c] = "delete"
       \/ jrnl'[f] # Null /\ ~jrnl'[f].hot /\ (jrnl'[f].super = Null \/ (~Multi(c) /\ jrnl'[f].super = jrnl[f].super))
  BY <1>4, <1>7 DEF Ended, Ends
<1>15. ~IsHot(f)' /\ ~IsGone(f)' /\ ~Live(f)'
  <2>1. ~Multi(c) /\ jrnl[f].super # Null => super[jrnl[f].super] # Null
    BY <1>2 DEF IsGone, Gone
  <2> QED BY <1>5, <1>14, <2>1 DEF IsHot, IsGone, Gone, Live
<1>16. \A j \in jrnlDisk'[f] : j = jrnl'[f] \/ (j = jrnl[f] /\ durable'[f] = durable[f])
  BY <1>2, <1>7, <1>9 DEF Ended
<1>17. ImageInv(f)'
  <2>1. /\ jrnl[f].orig # Null
        /\ jrnl[f].orig \in {current[f], durable[f]} \/ (jrnl[f].super # Null /\ superDisk[jrnl[f].super] = {Null})
    <3>1. CASE Multi(c)
      BY <1>2, <3>1 DEF ImageInv, Live, IsHot
    <3>2. CASE ~Multi(c)
      BY <1>2, <3>2 DEF ImageInv, IsHot
    <3> QED BY <3>1, <3>2
  <2>2. jrnl[f].orig = current[f] => jrnl[f].orig = durable[f] \/ current[f] = current'[f]
    BY <1>2, <1>8
  <2>3. \A j \in jrnlDisk'[f] : j # Null /\ j.hot =>
          /\ j.orig # Null
          /\ j.orig \in {current'[f], durable'[f]} \/ (j.super # Null /\ superDisk'[j.super] = {Null})
    BY <1>5, <1>14, <1>16, <2>1, <2>2
  <2>4. db'[f] = current'[f] /\ dbDisk'[f] = {db'[f]} /\ jrnl'[f] \in jrnlDisk'[f]
    BY <1>2, <1>5, <1>7, <1>8 DEF Ended
  <2> QED BY <1>15, <2>3, <2>4 DEF ImageInv
<1>18. current'[f] = current[f] \/ (current'[f][2] = current[f][2] + 1 /\ current'[f][2] + Cardinality(Pending(f)') <= nTx')
  <2>1. CASE Multi(c)
    BY <1>2, <1>8, <2>1
  <2>2. CASE ~Multi(c)
    <3>1. label = "next" /\ l.write = {}
      <4>1. loc[c].todo \ {f} = {}
        BY <1>2, <1>3, <2>2
      <4> QED BY <1>11, <4>1
    <3>2. ~Active(c)'
      BY <1>13, <3>1 DEF Active
    <3>3. Pending(f)' = Pending(f) \ {c}
      <4>1. \A d \in Conn : d # c => pc'[d] = pc[d] /\ loc'[d] = loc[d]
        BY <1>1, <1>12, Arrives
      <4>2. \A d \in Conn : d # c => (Active(d)' <=> Active(d)) /\ (Multi(d)' <=> Multi(d))
        BY <4>1 DEF Active, Undoing, Multi
      <4>3. \A d : d \in Pending(f)' <=> d \in Pending(f) /\ d # c
        BY <3>2, <4>1, <4>2 DEF Pending
      <4> QED BY <4>3
    <3> QED BY <1>2, <1>5, <1>8, <2>2, <3>3
  <2> QED BY <2>1, <2>2
<1>19. OwnFile(c, f)
  <2>1. \A n \in 1 .. MaxTx : Names(f, n)' => Names(f, n)
    BY <1>2, <1>14, Marks DEF Names
  <2>2. durable'[f] \in {durable[f], current[f], current'[f]}
    BY <1>8, <1>9
  <2> QED BY <1>2, <1>15, <1>17, <1>18, <2>1, <2>2 DEF OwnFile
<1>20. OwnNames(c, f)
  <2>1. jrnl[f] \in jrnlDisk[f]
    BY <1>2
  <2> QED BY <1>2, <1>14, <1>16, <2>1 DEF OwnNames
<1>21. \A g \in loc[c].todo : g # f => label = "phasetwo" /\ g \in l.todo
  BY <1>11
<1>22. PowerSafe(c, f, label, l)
  <2>1. PowerAhead => Env.mode[c] = "delete"
    <3>1. scenario \in DOMAIN Scenario
      BY <1>1 DEF Types
    <3> QED BY <3>1 DEF PowerAhead, NoStaleName, Env
  <2>2. PowerAhead => jrnl'[f] = Null
    <3>1. jrnl' = [jrnl EXCEPT ![f] = Finalised(c, f, hasSuper, TRUE)] /\ jrnl \in [File -> Journal \cup {Null}]
      BY <1>1, <1>5, FileTypes DEF pager_end_transaction, SetJournal
    <3>2. Env.mode[c] = "delete" => Finalised(c, f, hasSuper, TRUE) = Null
      BY DEF Finalised
    <3> QED BY <2>1, <3>1, <3>2
  <2>3. \A j \in jrnlDisk'[f] : j = jrnl'[f] \/ j.hot
    BY <1>2, <1>16 DEF IsHot
  <2>4. PowerAhead => PowerFile(f)'
    BY <2>2, <2>3 DEF PowerFile
  <2>5. "phasetwo" \in Committing
    BY DEF Committing
  <2> QED BY <1>2, <1>11, <1>21, <2>4, <2>5 DEF PowerSafe
<1>23. LocksApart(c) /\ Holds(c, f)' /\ \A g \in File : g # f => lock'[H(c, g)] = lock[H(c, g)]
  BY <1>7 DEF Ended
<1>24. pc[c] \notin Looking
  BY <1>1 DEF Looking
<1>25. \A g \in File : g # f /\ IsHot(g) /\ Holds(c, g)' => Exc(c, g)'
  BY <1>23, <1>24, HotKept
<1>26. TxKept(c)
  <2>1. CASE label = "next"
    <3>1. ~Active(c)'
      BY <1>11, <1>13, <2>1 DEF Active
    <3> QED BY <1>5, <1>11, <1>13, <3>1 DEF TxKept
  <2>2. CASE label = "phasetwo"
    <3>1. "phasetwo" # "next" /\ "phasetwo" \in Committing
      BY DEF Committing
    <3> QED BY <1>2, <1>5, <1>11, <1>13, <2>2, <3>1 DEF TxKept
  <2> QED BY <1>11, <2>1, <2>2
<1>27. ColdInv(c)'
  <2>1. label = "next" => ~Active(c)'
    BY <1>11, <1>13 DEF Active
  <2>2. "phasetwo" \in Committing /\ "phasetwo" \notin PhaseOne
    BY DEF Committing, PhaseOne
  <2> QED BY <1>13, <2>1, <2>2 DEF ColdInv
<1>28. \A g \in File : g # f => /\ Holds(c, g)' <=> Holds(c, g)
                                /\ Res(c, g)' <=> Res(c, g)
                                /\ Exc(c, g)' <=> Exc(c, g)
  BY <1>23, LockSame
<1>29. \A g \in loc[c].todo : g \in File
  BY <1>3
<1>30. HoldsInv(c)'
  <2>1. (\A g \in loc[c].open : Holds(c, g)) /\ (\A g \in loc[c].todo : Res(c, g)) /\ loc[c].todo \subseteq loc[c].write
    BY <1>1, <1>2, <1>3 DEF HoldsInv
  <2> USE <2>1
  <2>2. (\A g \in loc[c].open : Holds(c, g)') /\ (\A g \in loc[c].todo : g # f => Res(c, g)')
    BY <1>3, <1>23, <1>28, <1>29
  <2> QED BY <1>11, <1>13, <2>2 DEF HoldsInv, Looking, Playing, Cleaning
<1>31. WriteInv(c)'
  <2>1. \A g \in loc[c].todo : g # f => Exc(c, g)'
    BY <1>1, <1>28, <1>29 DEF WriteInv
  <2>2. loc[c].write # {}
    BY <1>2
  <2>3. label \notin PhaseOne \cup Looking \cup Playing \cup Cleaning
    BY DEF PhaseOne, Looking, Playing, Cleaning
  <2> QED BY <1>3, <1>11, <1>13, <2>1, <2>2, <2>3 DEF WriteInv
<1>32. JournalInv(c)'
  <2>1. \A g \in loc[c].todo : g # f => OwnJournal(c, g)'
    <3>1. \A g \in loc[c].todo : OwnJournal(c, g)
      BY <1>1, <1>2 DEF JournalInv
    <3> QED BY <1>5, <1>10, <1>29, <3>1, OtherOwn
  <2> QED BY <1>11, <1>13, <2>1 DEF JournalInv, Playing
<1>33. CommitInv(c)'
  <2>1. CASE label = "next"
    BY <1>13, <2>1 DEF CommitInv, PhaseOne
  <2>2. CASE label = "phasetwo"
    <3>1. Multi(c) /\ l.write = loc[c].write
      <4>1. ~Multi(c) => loc[c].todo \ {f} = {}
        BY <1>2, <1>3
      <4>2. "next" # "phasetwo"
        OBVIOUS
      <4> QED BY <1>11, <2>2, <4>1, <4>2
    <3> USE <3>1
    <3>2. Multi(c)'
      BY <1>13 DEF Multi
    <3>3. super'[loc[c].v] = Null /\ \A g \in loc[c].todo : g # f => jrnl'[g].hot /\ jrnl'[g].super = loc[c].v
      <4>1. \A g \in loc[c].todo : jrnl[g].hot /\ jrnl[g].super = loc[c].v
        BY <1>1 DEF CommitInv
      <4> QED BY <1>2, <1>10, <1>29, <4>1 DEF OneFile
    <3> QED BY <1>11, <1>13, <2>2, <3>2, <3>3 DEF CommitInv, PhaseOne
  <2> QED BY <1>11, <2>1, <2>2
<1>34. CleanInv(c)'
  BY <1>11, <1>13 DEF CleanInv, Cleaning
<1>35. CacheInv(c)'
  <2>1. \A g \in File : ~Restoring(c, g)
    BY <1>1 DEF Restoring
  <2>2. /\ \A g \in File : g \notin loc[c].todo => cache[c][g] # Torn /\ Stale(c, g)
        /\ \A g \in loc[c].open \ loc[c].todo : g \in File /\ cache[c][g] = current[g]
    BY <1>1, <1>2, <1>3, <2>1 DEF CacheInv
  <2>3. \A g \in File : g # f => (Stale(c, g) => Stale(c, g)')
    BY <1>5, <1>8 DEF Stale
  <2>4. cache'[c][f] = current'[f] /\ cache'[c][f] # Torn
    BY <1>2, <1>5, <1>8, Marks
  <2>5. Stale(c, f)'
    <3>1. current'[f] \in Version
      BY <1>8
    <3>2. current'[f][2] <= current'[f][2]
      BY SMT, <3>1, SuperJournalAssumption DEF Version
    <3> QED BY <2>4, <3>2 DEF Stale
  <2>6. /\ \A g \in File : g \notin loc[c].todo \ {f} => cache'[c][g] # Torn /\ Stale(c, g)'
        /\ \A g \in loc[c].open \ (loc[c].todo \ {f}) : cache'[c][g] = current'[g]
    BY <1>5, <1>8, <2>2, <2>3, <2>4, <2>5
  <2> QED BY <1>11, <1>13, <2>6 DEF CacheInv
<1>36. ConnInv(c)'
  BY <1>30, <1>31, <1>32, <1>33, <1>34, <1>35 DEF ConnInv
<1>37. loc[c].todo \subseteq {f} \/ (label = "phasetwo" /\ l.write = loc[c].write /\ loc[c].todo \ {f} \subseteq l.todo)
  BY <1>11
<1> QED BY <1>10, <1>12, <1>19, <1>20, <1>22, <1>23, <1>25, <1>26, <1>27, <1>36, <1>37, FileStep

(* vdbeCommit writes the super-journal with the names of all journals and  *)
(* syncs it, before any journal names it.                                  *)
LEMMA CreateSuperInv ==
  ASSUME FiniteSetFacts, IInv, NEW c \in Conn, CreateSuper(c)
  PROVE  IInv'
<1>1. /\ Types /\ HoldsInv(c) /\ WriteInv(c) /\ JournalInv(c) /\ CleanInv(c) /\ CacheInv(c) /\ ColdInv(c) /\ NumbersInv
      /\ pc[c] = "exclusive" /\ loc[c].todo = {}
  BY DEF IInv, ConnInv, CreateSuper
<1>2. PICK n, l, label : n = loc[c].v /\ l = [loc[c] EXCEPT !.todo = loc[c].write] /\ label = "phaseone"
  OBVIOUS
<1>3. /\ loc[c] \in Local /\ loc[c].open \subseteq File /\ loc[c].write \subseteq File /\ n \in 0 .. MaxTx
  BY <1>1, <1>2, ConnTypes
<1>4. /\ loc[c].opened = loc[c].write /\ loc[c].write # {} /\ (\A f \in loc[c].write : Exc(c, f) /\ Res(c, f))
      /\ (\A f \in loc[c].open : Holds(c, f)) /\ ~loc[c].isHot /\ loc[c].zSuper = Null
      /\ pc[c] \notin Committing /\ pc[c] \notin Looking
  <2>1. /\ loc[c].opened \subseteq loc[c].write /\ loc[c].write \subseteq loc[c].opened /\ loc[c].write # {}
    BY <1>1 DEF HoldsInv, WriteInv
  <2>2. /\ (\A f \in loc[c].opened : Res(c, f)) /\ (\A f \in loc[c].open : Holds(c, f)) /\ ~loc[c].isHot
    BY <1>1 DEF HoldsInv, Playing, Cleaning
  <2>3. \A f \in loc[c].write : Exc(c, f)
    BY <1>1 DEF WriteInv
  <2>4. loc[c].zSuper = Null /\ pc[c] \notin Committing /\ pc[c] \notin Looking
    BY <1>1 DEF CleanInv, Committing, PhaseOne, Looking, Cleaning
  <2> QED BY <2>1, <2>2, <2>3, <2>4
<1>5. ActiveAs(c, n) /\ n \in 1 .. MaxTx
  <2>1. Active(c)
    BY <1>1, <1>4 DEF Active, Undoing, Playing, Cleaning
  <2> USE <2>1
  <2>2. n # 0
    BY <1>1, <1>2 DEF NumbersInv
  <2>3. n \in 1 .. MaxTx
    BY SMT, <1>3, <2>2, SuperJournalAssumption
  <2> QED BY <1>2, <2>3 DEF ActiveAs
<1>6. \A g \in File : \A j \in jrnlDisk[g] : j # Null /\ j.super # Null => j.super \in 1 .. MaxTx /\ j.super # n
  <2>1. \A g \in File : NamesInv(g)
    BY DEF IInv, FileInv
  <2>2. \A g \in File : jrnlDisk[g] \subseteq Journal \cup {Null}
    BY <1>1 DEF Types
  <2>3. \A g \in File : \A j \in jrnlDisk[g] : j # Null /\ j.super # Null => j.super \in 1 .. MaxTx
    BY <2>2 DEF Journal
  <2>4. ASSUME NEW g \in File, NEW j \in jrnlDisk[g], j # Null, j.super # Null, j.super = n PROVE FALSE
    <3> USE <2>4
    <3>1. ActiveAs(c, j.super)
      BY <1>5
    <3>2. pc[c] \in Committing
      BY <2>1, <3>1 DEF NamesInv
    <3> QED BY <1>4, <3>2
  <2> QED BY <2>3, <2>4
<1>7. \A g \in File : ~Names(g, n)
  <2>1. \A g \in File : jrnl[g] \in jrnlDisk[g]
    BY DEF IInv, FileInv, ImageInv
  <2> QED BY <1>5, <1>6, <2>1, Marks DEF Names
<1>8. \A f \in loc[c].write : ~IsHot(f) /\ ~IsGone(f)
  <2>1. \A f \in loc[c].write : ~IsHot(f)
    BY <1>1, <1>4, <1>5 DEF ColdInv, ActiveAs
  <2>2. \A f \in loc[c].write : IsGone(f) => jrnl[f].hot
    BY <1>3 DEF IInv, FileInv, GoneInv
  <2> QED BY <2>1, <2>2 DEF IsHot, IsGone
<1>9. /\ IF Multi(c) THEN super' = [super EXCEPT ![n] = loc[c].write] /\ superDisk' = [superDisk EXCEPT ![n] = {super'[n]}]
         ELSE super' = super /\ superDisk' = superDisk
      /\ Goto(c, label, l)
      /\ lock' = lock /\ cache' = cache /\ db' = db /\ jrnl' = jrnl /\ dbDisk' = dbDisk /\ jrnlDisk' = jrnlDisk
      /\ current' = current /\ durable' = durable
      /\ scenario' = scenario /\ nTx' = nTx /\ calls' = calls /\ nFault' = nFault
  BY <1>2 DEF CreateSuper, SyncedSuper, history
<1>10. OneSuper(n) /\ (Multi(c) => super'[n] = loc[c].write)
  <2>1. CASE Multi(c)
    <3>1. PICK w : w = loc[c].write
      OBVIOUS
    <3>2. super' = [super EXCEPT ![n] = w] /\ super \in [1 .. MaxTx -> (SUBSET File) \cup {Null}]
      BY <1>1, <1>9, <2>1, <3>1 DEF Types
    <3> USE <3>2
    <3>3. super'[n] = w
      BY <1>5
    <3>4. PICK S : S = {w}
      OBVIOUS
    <3> USE <3>4
    <3>5. superDisk' = [superDisk EXCEPT ![n] = S]
      BY <1>9, <2>1, <3>3
    <3>6. w \in (SUBSET File) \cup {Null} /\ S \in SUBSET ((SUBSET File) \cup {Null}) /\ w \in S
      BY <1>3, <3>1
    <3>7. /\ \A m \in 1 .. MaxTx : m # n => super'[m] = super[m] /\ superDisk'[m] = superDisk[m]
          /\ super' \in [1 .. MaxTx -> (SUBSET File) \cup {Null}]
          /\ superDisk' \in [1 .. MaxTx -> SUBSET ((SUBSET File) \cup {Null})]
          /\ SuperInv(n)'
      BY <1>1, <1>5, <3>5, <3>6, SuperSet
    <3> QED BY <1>9, <3>1, <3>3, <3>7 DEF OneSuper
  <2>2. CASE ~Multi(c)
    <3> USE <2>2
    <3>1. super' = super /\ superDisk' = superDisk
      BY <1>9
    <3> USE <3>1
    <3>2. SuperInv(n)'
      BY <1>5 DEF IInv, SuperInv
    <3>3. super \in [1 .. MaxTx -> (SUBSET File) \cup {Null}] /\ superDisk \in [1 .. MaxTx -> SUBSET ((SUBSET File) \cup {Null})]
      BY <1>1 DEF Types
    <3> QED BY <1>9, <3>2, <3>3 DEF OneSuper
  <2> QED BY <2>1, <2>2
<1>11. /\ l \in Local /\ l.todo = loc[c].write /\ l.write = loc[c].write /\ l.open = loc[c].open
       /\ l.opened = loc[c].write /\ l.v = n /\ ~l.isHot /\ l.zSuper = Null
  BY <1>2, <1>3, <1>4 DEF Local
<1>12. label \in Labels /\ label \in PhaseOne /\ label \in Committing
  BY <1>2 DEF Labels, PhaseOne, Committing
<1>13. /\ Types' /\ Apart(c) /\ (\A m \in 1 .. MaxTx : SuperInv(m)')
       /\ \A g \in File : /\ (Holds(c, g)' <=> Holds(c, g)) /\ (Res(c, g)' <=> Res(c, g)) /\ (Exc(c, g)' <=> Exc(c, g))
                          /\ (IsHot(g)' <=> IsHot(g)) /\ (Harmless(g)' <=> Harmless(g))
                          /\ \A m : Names(g, m)' <=> Names(g, m)
                          /\ ~Names(g, n) => (IsGone(g)' <=> IsGone(g))
  <2>1. current' \in [File -> Version] /\ durable' \in [File -> Version] /\ nFault' \in Nat
    BY <1>1, <1>9 DEF Types, TypeOK
  <2> QED BY <1>5, <1>9, <1>10, <1>11, <1>12, <2>1, OneSuperFacts
<1>14. \A g \in File : IsGone(g)' <=> IsGone(g)
  BY <1>7, <1>13
<1>15. pc'[c] = "phaseone" /\ loc'[c] = l
  <2>1. Types /\ l \in Local /\ label \in Labels /\ Goto(c, label, l)
    BY <1>1, <1>9, <1>11, <1>12
  <2>2. pc'[c] = label /\ loc'[c] = l
    BY <2>1, Moves
  <2> QED BY <1>2, <2>2
<1> USE <1>15
<1>16. TxKept(c)
  <2>1. Active(c)
    BY <1>5 DEF ActiveAs
  <2> QED BY <1>1, <1>2, <1>4, <1>9, <1>11, <2>1 DEF TxKept
<1>17. NumbersInv' /\ Older(c) /\ CounterInv'
  BY <1>9, <1>13, <1>16, NumbersKept DEF CounterInv
<1>18. Changes(c)
  BY <1>5, <1>9, <1>10, <1>13, <1>14 DEF Changes, OneSuper
<1>19. \A g \in File : \A j \in jrnlDisk[g] : j # Null /\ j.super # Null => superDisk'[j.super] = superDisk[j.super]
  BY <1>6, <1>10 DEF OneSuper
<1> USE <1>19
<1>20. ASSUME NEW g \in File PROVE Kept(c, g)
  <2>1. IsHot(g) /\ Holds(c, g)' => Exc(c, g)'
    BY <1>4, <1>9, <1>20, HotKept
  <2>2. pc[c] # "phasetwo"
    BY <1>1
  <2> QED BY <1>9, <1>14, <2>1, <2>2 DEF Kept
<1>21. PowerInv'
  <2>1. PowerAhead' => PowerAhead /\ loc'[c].zSuper = Null
    BY <1>9, <1>11, SameFaults
  <2> QED BY <1>4, <1>9, <1>13, <2>1, PowerKept
<1>22. ColdInv(c)'
  BY <1>3, <1>8, <1>11, <1>13 DEF ColdInv
<1>23. HoldsInv(c)'
  BY <1>3, <1>4, <1>11, <1>13 DEF HoldsInv, Looking, Playing, Cleaning
<1>24. WriteInv(c)'
  BY <1>3, <1>4, <1>11, <1>13 DEF WriteInv, Looking, Playing, Cleaning, PhaseOne
<1>25. JournalInv(c)'
  <2>1. \A f \in loc[c].write : OwnJournal(c, f)'
    <3>1. \A f \in loc[c].write : OwnJournal(c, f)
      BY <1>1, <1>4 DEF JournalInv
    <3> QED BY <1>3, <1>9, <1>14, <3>1 DEF OwnJournal
  <2> QED BY <1>11, <2>1 DEF JournalInv, Playing
<1>26. CommitInv(c)'
  <2>1. Multi(c)' <=> Multi(c)
    BY <1>11 DEF Multi
  <2>2. \A f \in loc[c].write : ~IsGone(f)'
    BY <1>3, <1>8, <1>14
  <2> QED BY <1>10, <1>11, <2>1, <2>2 DEF CommitInv
<1>27. CleanInv(c)'
  BY <1>11 DEF CleanInv, Cleaning
<1>28. CacheInv(c)'
  <2>1. \A f \in File : ~Restoring(c, f) /\ (Stale(c, f) => Stale(c, f)')
    BY <1>1, <1>9 DEF Restoring, Stale
  <2> QED BY <1>1, <1>4, <1>9, <1>11, <2>1 DEF CacheInv
<1>29. ConnInv(c)'
  BY <1>23, <1>24, <1>25, <1>26, <1>27, <1>28 DEF ConnInv
<1> QED BY <1>13, <1>17, <1>18, <1>20, <1>21, <1>22, <1>29, StepInv

(* A commit of several files that is about to delete its super-journal.    *)
LEMMA DeleteFacts ==
  ASSUME FiniteSetFacts, IInv, NEW c \in Conn, pc[c] = "deletesuper"
  PROVE  /\ Multi(c) /\ Active(c) /\ loc[c].opened = loc[c].write /\ loc[c].write # {} /\ loc[c].write \subseteq File
         /\ ~loc[c].isHot /\ loc[c].zSuper = Null
         /\ loc[c].v \in 1 .. MaxTx /\ loc[c].v <= nTx /\ superDisk[loc[c].v] = {loc[c].write}
         /\ \A f \in loc[c].write :
              /\ Exc(c, f) /\ Res(c, f) /\ IsHot(f) /\ ~IsGone(f) /\ jrnlDisk[f] = {jrnl[f]}
              /\ jrnl[f].super = loc[c].v /\ jrnl[f].orig = current[f] /\ durable[f] = current[f]
              /\ db[f] \in Version /\ dbDisk[f] = {db[f]} /\ cache[c][f] = db[f]
              /\ db[f][2] = current[f][2] + 1 /\ db[f][2] + Cardinality(Pending(f) \ {c}) <= nTx
<1>1. Types /\ HoldsInv(c) /\ WriteInv(c) /\ JournalInv(c) /\ CommitInv(c) /\ CleanInv(c) /\ NumbersInv
  BY DEF IInv, ConnInv
<1> USE <1>1
<1>2. /\ loc[c] \in Local /\ loc[c].write \subseteq File /\ loc[c].v \in 0 .. MaxTx /\ lock \in [Handle -> Level]
  BY ConnTypes
<1> USE <1>2
<1>3. /\ loc[c].opened = loc[c].write /\ loc[c].write # {} /\ (\A f \in loc[c].write : Exc(c, f) /\ Res(c, f))
      /\ ~loc[c].isHot /\ loc[c].zSuper = Null
  <2>1. /\ loc[c].opened \subseteq loc[c].write /\ loc[c].write \subseteq loc[c].opened /\ loc[c].write # {}
        /\ (\A f \in loc[c].write : Exc(c, f))
    BY DEF HoldsInv, WriteInv
  <2>2. /\ (\A f \in loc[c].opened : Res(c, f)) /\ ~loc[c].isHot
    BY DEF HoldsInv, Playing, Cleaning
  <2>3. loc[c].zSuper = Null
    BY DEF CleanInv, Cleaning
  <2> QED BY <2>1, <2>2, <2>3
<1> USE <1>3
<1>4. Active(c)
  BY DEF Active, Undoing, Playing, Cleaning
<1> USE <1>4
<1>5. loc[c].v \in 1 .. MaxTx /\ loc[c].v <= nTx
  <2>1. loc[c].v # 0 /\ loc[c].v <= nTx
    BY DEF NumbersInv
  <2>2. loc[c].v \in 1 .. MaxTx
    BY SMT, <1>2, <2>1, SuperJournalAssumption
  <2> QED BY <2>1, <2>2
<1> USE <1>5
<1>6. Multi(c) /\ super[loc[c].v] = loc[c].write /\ \A f \in loc[c].write : ~IsGone(f) /\ Done(c, f)
  BY DEF CommitInv
<1> USE <1>6
<1>7. superDisk[loc[c].v] = {loc[c].write}
  <2>1. SuperInv(loc[c].v)
    BY DEF IInv
  <2>2. loc[c].write # Null
    BY MarksAssumption
  <2> QED BY <2>1, <2>2 DEF SuperInv
<1>8. ASSUME NEW f \in loc[c].write
      PROVE  /\ IsHot(f) /\ ~IsGone(f) /\ jrnlDisk[f] = {jrnl[f]}
             /\ jrnl[f].super = loc[c].v /\ jrnl[f].orig = current[f] /\ durable[f] = current[f]
             /\ db[f] \in Version /\ dbDisk[f] = {db[f]} /\ cache[c][f] = db[f]
             /\ db[f][2] = current[f][2] + 1 /\ db[f][2] + Cardinality(Pending(f) \ {c}) <= nTx
  <2>1. f \in File /\ ImageInv(f) /\ OwnJournal(c, f)
    BY DEF IInv, FileInv, JournalInv
  <2>2. /\ jrnl[f].hot /\ db[f] = NewVersion(c, f) /\ dbDisk[f] = {db[f]} /\ cache[c][f] = db[f]
        /\ jrnl[f].super = loc[c].v /\ ~IsGone(f)
    BY DEF Done
  <2> USE <2>2
  <2>3. IsHot(f) /\ jrnlDisk[f] = {jrnl[f]} /\ jrnl[f].orig = current[f] /\ durable[f] = current[f]
    BY <2>1 DEF OwnJournal, IsHot, ImageInv, Live
  <2> USE <2>3
  <2>4. /\ NewVersion(c, f) \in Version /\ NewVersion(c, f)[2] = current[f][2] + 1
        /\ current[f][2] \in Nat /\ nTx \in Nat /\ c \in Pending(f) /\ IsFiniteSet(Pending(f))
        /\ current[f][2] + Cardinality(Pending(f)) <= nTx
    <3>1. Active(c) /\ (pc[c] = "phasetwo" => ~Multi(c)) /\ jrnl[f].orig = current[f]
      OBVIOUS
    <3> QED BY <3>1, NextVersion
  <2> USE <2>4
  <2>5. Cardinality(Pending(f) \ {c}) = Cardinality(Pending(f)) - 1 /\ Cardinality(Pending(f)) \in Nat
    BY DEF FiniteSetFacts, ElementRemoved, CardinalityIsNat
  <2>6. db[f][2] + Cardinality(Pending(f) \ {c}) <= nTx
    BY SMT, <2>2, <2>4, <2>5
  <2> QED BY <2>6
<1> QED BY <1>7, <1>8

(* What such a step does to the super-journal and to the versions.         *)
LEMMA CommitsAllFacts ==
  ASSUME FiniteSetFacts, IInv, NEW c \in Conn, pc[c] = "deletesuper", NEW label, NEW l, CommitsAll(c, label, l)
  PROVE  /\ OneSuper(loc[c].v) /\ super'[loc[c].v] = Null
         /\ label = "phasetwo" => superDisk'[loc[c].v] = {Null}
         /\ superDisk'[loc[c].v] \subseteq {loc[c].write, Null}
         /\ current' \in [File -> Version]
         /\ \A f \in loc[c].write : current'[f] = db[f]
         /\ \A f \in File : f \notin loc[c].write => current'[f] = current[f] /\ durable'[f] = durable[f]
<1>1. Types
  BY DEF IInv
<1> USE <1>1
<1>2. PICK n, w, v : n = loc[c].v /\ w = loc[c].write /\ v = Null
  OBVIOUS
<1>3. /\ n \in 1 .. MaxTx /\ superDisk[n] = {w} /\ w \subseteq File /\ (\A f \in w : db[f] \in Version)
  BY <1>2, DeleteFacts
<1> USE <1>3
<1>4. PICK S : S = IF label = "phasetwo" THEN {v} ELSE {w, v}
  OBVIOUS
<1>5. superDisk' = [superDisk EXCEPT ![n] = S] /\ super' = [super EXCEPT ![n] = v]
  <2>1. CASE label = "phasetwo"
    BY <1>2, <1>4, <2>1 DEF CommitsAll
  <2>2. CASE label # "phasetwo"
    <3> USE <2>2
    <3>1. superDisk' = [superDisk EXCEPT ![n] = superDisk[n] \cup {v}]
      BY <1>2 DEF CommitsAll
    <3>2. superDisk[n] \cup {v} = S
      BY <1>4
    <3> QED BY <1>2, <3>1, <3>2 DEF CommitsAll
  <2> QED BY <2>1, <2>2
<1>6. v \in (SUBSET File) \cup {Null} /\ S \in SUBSET ((SUBSET File) \cup {Null}) /\ v \in S /\ (v # Null => S = {v})
  BY <1>2, <1>4
<1>7. /\ \A m \in 1 .. MaxTx : m # n => super'[m] = super[m] /\ superDisk'[m] = superDisk[m]
      /\ super' \in [1 .. MaxTx -> (SUBSET File) \cup {Null}]
      /\ superDisk' \in [1 .. MaxTx -> SUBSET ((SUBSET File) \cup {Null})]
      /\ SuperInv(n)' /\ super'[n] = v /\ superDisk'[n] = S
  BY <1>5, <1>6, SuperSet
<1> USE <1>7
<1>8. OneSuper(n)
  BY DEF OneSuper, CommitsAll
<1>9. current \in [File -> Version] /\ durable \in [File -> Version]
  BY FileTypes
<1>10. current' = [f \in File |-> IF f \in w THEN db[f] ELSE current[f]]
  BY <1>2 DEF CommitsAll, Committed
<1>11. /\ current' \in [File -> Version] /\ (\A f \in w : current'[f] = db[f])
       /\ \A f \in File : f \notin w => current'[f] = current[f]
  BY <1>9, <1>10
<1>12. \A f \in File : f \notin w => durable'[f] = durable[f]
  BY <1>2 DEF CommitsAll
<1>13. S \subseteq {w, v} /\ (label = "phasetwo" => S = {v})
  BY <1>4
<1> QED BY <1>2, <1>8, <1>11, <1>12, <1>13

(* The step that removes the name of a super-journal.                      *)
LEMMA CommitsAllInv ==
  ASSUME FiniteSetFacts, IInv, NEW c \in Conn, pc[c] = "deletesuper", NEW label, NEW l, CommitsAll(c, label, l)
  PROVE  IInv'
<1>1. Types /\ HoldsInv(c) /\ JournalInv(c) /\ CacheInv(c) /\ NumbersInv /\ CounterInv
  BY DEF IInv, ConnInv
<1>2. PICK n, w : n = loc[c].v /\ w = loc[c].write
  OBVIOUS
<1>3. /\ Multi(c) /\ Active(c) /\ loc[c].opened = w /\ w # {} /\ w \subseteq File
      /\ ~loc[c].isHot /\ loc[c].zSuper = Null
      /\ n \in 1 .. MaxTx /\ n <= nTx /\ superDisk[n] = {w}
  BY <1>2, DeleteFacts
<1>4. \A f \in w : /\ Exc(c, f) /\ Res(c, f) /\ IsHot(f) /\ ~IsGone(f) /\ jrnlDisk[f] = {jrnl[f]}
                   /\ jrnl[f].super = n /\ jrnl[f].orig = current[f] /\ durable[f] = current[f]
                   /\ db[f] \in Version /\ dbDisk[f] = {db[f]} /\ cache[c][f] = db[f]
                   /\ db[f][2] = current[f][2] + 1 /\ db[f][2] + Cardinality(Pending(f) \ {c}) <= nTx
  BY <1>2, DeleteFacts
<1>5. /\ OneSuper(n) /\ super'[n] = Null
      /\ label = "phasetwo" => superDisk'[n] = {Null}
      /\ superDisk'[n] \subseteq {w, Null}
      /\ current' \in [File -> Version]
      /\ \A f \in w : current'[f] = db[f]
      /\ \A f \in File : f \notin w => current'[f] = current[f] /\ durable'[f] = durable[f]
  BY <1>2, CommitsAllFacts
<1>6. /\ durable' \in [File -> Version] /\ nFault' \in Nat
      /\ Goto(c, label, l) /\ label \in {"phasetwo", "rollback"}
      /\ lock' = lock /\ cache' = cache /\ db' = db /\ jrnl' = jrnl /\ dbDisk' = dbDisk /\ jrnlDisk' = jrnlDisk
      /\ scenario' = scenario /\ nTx' = nTx /\ calls' = calls
  BY DEF CommitsAll
<1>7. /\ l \in Local /\ l.todo = w /\ l.opened = w /\ l.write = w /\ l.open = loc[c].open
      /\ l.v = n /\ ~l.isHot /\ l.zSuper = Null
  BY <1>2 DEF CommitsAll
<1>8. /\ label = "phasetwo" => nFault' = nFault
      /\ label = "rollback" => durable' = durable /\ Delete /\ ~PowerAhead'
  <2>1. "rollback" # "phasetwo"
    OBVIOUS
  <2> QED BY <2>1 DEF CommitsAll
<1>9. label \in Labels /\ ("phasetwo" \in Committing) /\ ("phasetwo" \notin PhaseOne)
  BY <1>6 DEF Labels, Committing, PhaseOne
<1>10. /\ Types' /\ Apart(c) /\ (\A m \in 1 .. MaxTx : SuperInv(m)')
       /\ \A g \in File : /\ (Holds(c, g)' <=> Holds(c, g)) /\ (Res(c, g)' <=> Res(c, g)) /\ (Exc(c, g)' <=> Exc(c, g))
                          /\ (IsHot(g)' <=> IsHot(g)) /\ (Harmless(g)' <=> Harmless(g))
                          /\ \A m : Names(g, m)' <=> Names(g, m)
                          /\ ~Names(g, n) => (IsGone(g)' <=> IsGone(g))
  BY <1>3, <1>5, <1>6, <1>7, <1>9, OneSuperFacts
<1>11. pc'[c] = label /\ loc'[c] = l /\ \A d \in Conn : d # c => pc'[d] = pc[d] /\ loc'[d] = loc[d]
  BY <1>1, <1>6, <1>7, <1>9, Moves
<1>12. \A g \in File : g \notin w => \A j \in jrnlDisk[g] : j # Null /\ j.super # Null => j.super \in 1 .. MaxTx /\ j.super # n
  <2>1. \A g \in File : NamesInv(g)
    BY DEF IInv, FileInv
  <2>2. \A g \in File : jrnlDisk[g] \subseteq Journal \cup {Null}
    BY <1>1 DEF Types
  <2>3. \A g \in File : \A j \in jrnlDisk[g] : j # Null /\ j.super # Null => j.super \in 1 .. MaxTx
    BY <2>2 DEF Journal
  <2>4. ASSUME NEW g \in File, g \notin w, NEW j \in jrnlDisk[g], j # Null, j.super # Null, j.super = n PROVE FALSE
    <3> USE <2>4
    <3>1. \A s \in superDisk[j.super] : s # Null => g \in s
      BY <2>1 DEF NamesInv
    <3>2. w \in superDisk[j.super] /\ w # Null
      BY <1>3, MarksAssumption
    <3> QED BY <3>1, <3>2
  <2> QED BY <2>3, <2>4
<1>13. \A g \in File : g \notin w => ~Names(g, n) /\ (IsGone(g)' <=> IsGone(g))
  <2>1. \A g \in File : jrnl[g] \in jrnlDisk[g]
    BY DEF IInv, FileInv, ImageInv
  <2>2. \A g \in File : g \notin w => ~Names(g, n)
    BY <1>3, <1>12, <2>1, Marks DEF Names
  <2> QED BY <1>10, <2>2
<1>14. \A f \in w : f \in File /\ IsHot(f)' /\ IsGone(f)' /\ ~Live(f)'
  <2>1. \A f \in w : f \in File /\ IsHot(f)' /\ jrnl'[f] # Null
    BY <1>3, <1>4, <1>6, <1>10 DEF IsHot
  <2> USE <2>1
  <2>2. \A f \in w : IsGone(f)'
    <3>1. n # Null
      BY <1>3, Marks
    <3> QED BY <1>4, <1>5, <1>6, <3>1 DEF IsGone, Gone
  <2> QED BY <2>2 DEF Live
<1>15. Multi(c)' /\ (label = "rollback" => ~Active(c)')
  BY <1>2, <1>3, <1>7, <1>11 DEF Multi, Active, Undoing
<1>16. TxKept(c)
  <2>1. pc[c] # "phasetwo"
    OBVIOUS
  <2>2. Active(c)' => pc'[c] = "phasetwo"
    BY <1>6, <1>11, <1>15
  <2> QED BY <1>2, <1>3, <1>6, <1>7, <1>9, <1>11, <2>1, <2>2 DEF TxKept
<1>17. /\ NumbersInv' /\ Older(c)
       /\ \A f \in File : current'[f] = current[f] => current'[f][2] + Cardinality(Pending(f)') <= nTx'
       /\ \A f \in File : durable'[f] \in {durable[f], current[f]} => durable'[f][2] <= nTx'
  BY <1>10, <1>16, NumbersKept
<1>18. Changes(c)
  <2>1. \A f \in File : ~Res(c, f) \/ ~Exc(c, f) => f \notin w
    BY <1>4
  <2>2. \A f \in File : current'[f] = current[f] \/ current'[f][2] = current[f][2] + 1
    BY <1>4, <1>5
  <2>3. \A m \in 1 .. MaxTx : super'[m] = super[m] \/ ActiveAs(c, m)
    BY <1>2, <1>3, <1>5 DEF OneSuper, ActiveAs
  <2>4. \A f \in File, m \in 1 .. MaxTx : Names(f, m)' => Names(f, m)
    BY <1>10
  <2> QED BY <1>5, <1>6, <1>10, <1>13, <2>1, <2>2, <2>3, <2>4 DEF Changes
<1>19. CounterInv'
  <2>1. ASSUME NEW f \in w PROVE current'[f][2] + Cardinality(Pending(f)') <= nTx' /\ durable'[f][2] <= nTx'
    <3> USE <2>1
    <3>1. Pending(f)' = Pending(f) \ {c}
      <4>1. \A d \in Conn : d # c => (Active(d)' <=> Active(d)) /\ (Multi(d)' <=> Multi(d))
        BY <1>11 DEF Active, Undoing, Multi
      <4>2. c \notin Pending(f)'
        BY <1>6, <1>11, <1>15 DEF Pending
      <4>3. \A d : d \in Pending(f)' <=> d \in Pending(f) /\ d # c
        BY <1>11, <4>1, <4>2 DEF Pending
      <4> QED BY <4>3
    <3> USE <3>1
    <3>2. current'[f][2] + Cardinality(Pending(f)') <= nTx'
      BY <1>4, <1>5, <1>6
    <3>3. IsFiniteSet(Pending(f) \ {c})
      <4>1. Pending(f) \ {c} \subseteq Conn /\ IsFiniteSet(Conn)
        BY SuperJournalAssumption DEF Pending
      <4> QED BY <4>1 DEF FiniteSetFacts, SubsetsFinite
    <3>4. Cardinality(Pending(f)') \in Nat
      BY <3>3 DEF FiniteSetFacts, CardinalityIsNat
    <3>5. current'[f] \in Version /\ nTx' \in 0 .. MaxTx
      BY <1>3, <1>5, <1>10 DEF Types
    <3>6. current'[f][2] <= nTx'
      BY SMT, <3>2, <3>4, <3>5, SuperJournalAssumption DEF Version
    <3>7. durable'[f] = current'[f] \/ durable'[f] = durable[f]
      BY <1>2, <1>5, <1>14 DEF CommitsAll
    <3> QED BY <1>14, <1>17, <3>2, <3>6, <3>7
  <2>2. ASSUME NEW f \in File, f \notin w PROVE current'[f][2] + Cardinality(Pending(f)') <= nTx' /\ durable'[f][2] <= nTx'
    <3> USE <2>2
    <3>1. current'[f] = current[f] /\ durable'[f] = durable[f]
      BY <1>5
    <3> QED BY <1>17, <3>1
  <2> QED BY <2>1, <2>2 DEF CounterInv
<1>20. \A d \in Conn, g \in File : Holds(d, g)' => Holds(d, g)
  BY <1>6 DEF Holds
<1>21. ASSUME NEW f \in w PROVE FileInv(f)'
  <2>1. f \in File /\ IsHot(f)' /\ IsGone(f)' /\ ~Live(f)' /\ jrnl'[f] = jrnl[f] /\ jrnlDisk'[f] = {jrnl[f]}
    BY <1>4, <1>6, <1>14, <1>21
  <2>2. FileInv(f)
    BY <2>1 DEF IInv
  <2>3. jrnl[f].super = n /\ jrnl[f].orig = durable[f] /\ jrnl[f] # Null /\ n # Null /\ jrnl[f].hot /\ Exc(c, f)
    BY <1>3, <1>4, <1>21, Marks DEF IsHot
  <2>4. ImageInv(f)'
    <3>1. jrnl[f].orig # Null
      BY <1>21, <2>2, <2>3, <1>4 DEF FileInv, ImageInv
    <3>2. superDisk'[n] = {Null} \/ jrnl[f].orig = durable'[f]
      BY <1>5, <1>6, <1>8, <2>3
    <3>3. db'[f] = current'[f] /\ dbDisk'[f] = {db'[f]}
      BY <1>4, <1>5, <1>6, <1>21
    <3> QED BY <2>1, <2>3, <3>1, <3>2, <3>3 DEF ImageInv
  <2>5. HotInv(f)'
    <3>1. \A d \in Conn : Holds(d, f) => Exc(d, f) \/ (pc[d] \in Looking /\ F(d) = f)
      BY <1>4, <1>21, <2>2 DEF FileInv, HotInv
    <3>2. \A d \in Conn : d # c => (Holds(d, f)' => Exc(d, f)' \/ (pc'[d] \in Looking /\ F(d)' = f))
      BY <1>6, <1>11, <3>1 DEF Holds, Exc, F
    <3>3. Exc(c, f)'
      BY <1>10, <2>1, <2>3
    <3> QED BY <3>2, <3>3 DEF HotInv
  <2>6. GoneInv(f)'
    <3>1. jrnl'[f].hot
      BY <2>1, <2>3
    <3> USE <3>1
    <3>2. CASE label = "phasetwo"
      <4>1. pc'[c] = "phasetwo" /\ Multi(c)' /\ f \in loc'[c].todo
        BY <1>7, <1>11, <1>15, <1>21, <3>2
      <4> QED BY <4>1 DEF GoneInv
    <3>3. CASE label = "rollback"
      <4>1. Delete'
        BY <1>6, <1>8, <3>3 DEF Delete, Env
      <4> QED BY <4>1 DEF GoneInv
    <3> QED BY <1>6, <3>2, <3>3
  <2>7. NamesInv(f)'
    <3>1. n <= nTx' /\ \A s \in superDisk'[n] : s # Null => f \in s
      BY <1>3, <1>5, <1>6, <1>21
    <3>2. ASSUME NEW d \in Conn, ActiveAs(d, n)' PROVE Multi(d)' /\ pc'[d] \in Committing
      <4>1. CASE d = c
        <5> USE <4>1
        <5>1. label = "phasetwo"
          BY <1>6, <1>15, <3>2 DEF ActiveAs
        <5> QED BY <1>9, <1>11, <1>15, <5>1
      <4>2. CASE d # c
        <5> USE <4>2
        <5>1. ActiveAs(d, n)
          BY <1>11, <3>2 DEF ActiveAs, Active, Undoing
        <5>2. Active(d) /\ loc[d].v = loc[c].v
          BY <1>2, <5>1 DEF ActiveAs
        <5>3. d = c
          BY <1>1, <1>3, <5>2 DEF NumbersInv
        <5> QED BY <5>3
      <4> QED BY <4>1, <4>2
    <3> QED BY <2>1, <2>3, <3>1, <3>2 DEF NamesInv
  <2> QED BY <2>4, <2>5, <2>6, <2>7 DEF FileInv
<1>22. ASSUME NEW g \in File, g \notin w PROVE Kept(c, g)
  <2> USE <1>22
  <2>1. IsHot(g) /\ Holds(c, g)' => Exc(c, g)'
    <3>1. pc[c] \notin Looking
      BY DEF Looking
    <3> QED BY <1>6, <3>1, HotKept
  <2>2. \A j \in jrnlDisk[g] : j # Null /\ j.super # Null => superDisk'[j.super] = superDisk[j.super]
    BY <1>5, <1>12 DEF OneSuper
  <2>3. pc[c] # "phasetwo"
    OBVIOUS
  <2> QED BY <1>5, <1>6, <1>13, <2>1, <2>2, <2>3 DEF Kept
<1>23. PowerInv'
  <2>1. ASSUME PowerAhead' PROVE label = "phasetwo" /\ PowerAhead
    <3> USE <2>1
    <3>1. label = "phasetwo"
      BY <1>6, <1>8
    <3> QED BY <1>6, <1>8, <3>1, SameFaults
  <2>2. PowerAhead' => PowerAhead /\ loc'[c].zSuper = Null
    BY <1>7, <1>11, <2>1
  <2>3. ASSUME PowerAhead', NEW f \in File
        PROVE  /\ jrnl'[f] = jrnl[f] /\ jrnlDisk'[f] = jrnlDisk[f]
               /\ f \notin loc[c].opened \/ (f \in loc'[c].opened /\ pc'[c] \in Committing)
               /\ \A j \in jrnlDisk[f] : j # Null /\ ~j.hot /\ j.super # Null =>
                    (Null \in superDisk'[j.super] => Null \in superDisk[j.super])
    <3>1. \A j \in jrnlDisk[f] : j # Null /\ ~j.hot /\ j.super # Null => superDisk'[j.super] = superDisk[j.super]
      <4>1. CASE f \in w
        <5>1. jrnlDisk[f] = {jrnl[f]} /\ jrnl[f].hot
          BY <1>4, <4>1 DEF IsHot
        <5> QED BY <5>1
      <4>2. CASE f \notin w
        BY <1>5, <1>12, <4>2 DEF OneSuper
      <4> QED BY <4>1, <4>2
    <3> QED BY <1>3, <1>6, <1>7, <1>9, <1>11, <2>1, <2>3, <3>1
  <2> QED BY <1>10, <2>2, <2>3, PowerKept
<1>24. ColdInv(c)'
  BY <1>6, <1>9, <1>11, <1>15 DEF ColdInv
<1>25. HoldsInv(c)'
  <2>1. \A f \in loc[c].open : f \in File /\ Holds(c, f)
    BY <1>1, ConnTypes DEF HoldsInv
  <2>2. (\A f \in loc[c].open : Holds(c, f)') /\ (\A f \in w : Res(c, f)')
    BY <1>4, <1>10, <1>14, <2>1
  <2> QED BY <1>6, <1>7, <1>11, <2>2 DEF HoldsInv, Looking, Playing, Cleaning
<1>26. WriteInv(c)'
  <2>1. \A f \in w : Exc(c, f)'
    BY <1>4, <1>10, <1>14
  <2>2. label \notin PhaseOne \cup Looking \cup Playing \cup Cleaning
    BY <1>6 DEF PhaseOne, Looking, Playing, Cleaning
  <2> QED BY <1>3, <1>6, <1>7, <1>11, <2>1, <2>2 DEF WriteInv
<1>27. JournalInv(c)'
  <2>1. ASSUME NEW f \in w PROVE OwnJournal(c, f)'
    <3>1. cache[c][f] = db[f] /\ current'[f] = db[f] /\ IsGone(f)' /\ jrnl[f] # Null
      BY <1>4, <1>5, <1>14, <2>1 DEF IsHot
    <3> QED BY <1>6, <3>1 DEF OwnJournal
  <2> QED BY <1>6, <1>7, <1>11, <2>1 DEF JournalInv, Playing
<1>28. CommitInv(c)'
  <2>1. \A f \in w : jrnl'[f].hot /\ jrnl'[f].super = n
    BY <1>4, <1>6 DEF IsHot
  <2> QED BY <1>5, <1>6, <1>7, <1>11, <1>15, <2>1 DEF CommitInv, PhaseOne
<1>29. CleanInv(c)'
  BY <1>6, <1>7, <1>11 DEF CleanInv, Cleaning
<1>30. CacheInv(c)'
  <2>1. \A g \in File : ~Restoring(c, g)
    BY DEF Restoring
  <2>2. /\ \A g \in File : g \notin w => cache[c][g] # Torn /\ Stale(c, g)
        /\ \A g \in loc[c].open \ w : g \in File /\ cache[c][g] = current[g]
    BY <1>1, <1>3, <2>1, ConnTypes DEF CacheInv
  <2>3. \A g \in File : g \notin w => (Stale(c, g) => Stale(c, g)')
    BY <1>5, <1>6 DEF Stale
  <2> QED BY <1>5, <1>6, <1>7, <1>11, <2>2, <2>3 DEF CacheInv
<1>31. ConnInv(c)'
  BY <1>25, <1>26, <1>27, <1>28, <1>29, <1>30 DEF ConnInv
<1>32. \A g \in File : Kept(c, g) \/ FileInv(g)'
  BY <1>21, <1>22
<1> QED BY <1>10, <1>17, <1>18, <1>19, <1>23, <1>24, <1>31, <1>32, StepInv

(* vdbeCommit deletes the super-journal and syncs the directory: the       *)
(* commit of all files at once.                                            *)
LEMMA DeleteSuperInv ==
  ASSUME FiniteSetFacts, IInv, NEW c \in Conn, DeleteSuper(c)
  PROVE  IInv'
<1>1. Types /\ pc[c] = "deletesuper"
  BY DEF IInv, DeleteSuper
<1> USE <1>1
<1>2. PICK n, w, label, l : n = loc[c].v /\ w = loc[c].write /\ label = "phasetwo" /\ l = [loc[c] EXCEPT !.todo = loc[c].write]
  OBVIOUS
<1> USE <1>2
<1>3. /\ loc[c] \in Local /\ loc[c].opened = w /\ w \subseteq File /\ ~loc[c].isHot /\ loc[c].zSuper = Null
      /\ n \in 1 .. MaxTx /\ (\A f \in w : db[f] \in Version)
  BY ConnTypes, DeleteFacts
<1> USE <1>3
<1>4. /\ l \in Local /\ l.todo = w /\ l.opened = w /\ l.write = w /\ l.open = loc[c].open
      /\ l.v = loc[c].v /\ ~l.isHot /\ l.zSuper = Null
  BY DEF Local
<1>5. super' = [super EXCEPT ![n] = Null] /\ superDisk' = [superDisk EXCEPT ![n] = {super'[n]}]
  BY DEF DeleteSuper, SyncedSuper
<1> USE <1>5
<1>6. super'[n] = Null
  <2>1. super \in [1 .. MaxTx -> (SUBSET File) \cup {Null}]
    BY DEF Types
  <2> QED BY <2>1
<1>7. durable' = [f \in File |-> IF f \in w THEN db[f] ELSE durable[f]] /\ durable \in [File -> Version] /\ nFault \in Nat
  BY FileTypes DEF DeleteSuper, Types
<1> USE <1>7
<1>8. durable' \in [File -> Version] /\ \A f \in File : durable'[f] = durable[f] \/ (f \in w /\ durable'[f] = db[f])
  OBVIOUS
<1>9. CommitsAll(c, label, l)
  BY <1>4, <1>6, <1>8 DEF CommitsAll, DeleteSuper
<1> QED BY <1>9, CommitsAllInv

(* The super-journal is deleted and the sync of the directory fails: the   *)
(* transaction is committed and vdbeCommit rolls it back all the same.     *)
LEMMA DirSyncFailsInv ==
  ASSUME FiniteSetFacts, NoStaleName, IInv, NEW c \in Conn, DirSyncFails(c)
  PROVE  IInv'
<1>1. Types /\ pc[c] = "deletesuper"
  BY DEF IInv, DirSyncFails
<1> USE <1>1
<1>2. PICK w, label, l : w = loc[c].write /\ label = "rollback" /\ l = [loc[c] EXCEPT !.todo = Writing(c), !.f = Null]
  OBVIOUS
<1> USE <1>2
<1>3. /\ loc[c] \in Local /\ loc[c].opened = w /\ w \subseteq File /\ ~loc[c].isHot /\ loc[c].zSuper = Null
      /\ (\A f \in w : Res(c, f))
  BY ConnTypes, DeleteFacts
<1> USE <1>3
<1>4. Writing(c) = w
  BY DEF Writing, Res
<1>5. /\ l \in Local /\ l.todo = w /\ l.opened = w /\ l.write = w /\ l.open = loc[c].open
      /\ l.v = loc[c].v /\ ~l.isHot /\ l.zSuper = Null
  BY <1>4 DEF Local
<1>6. durable \in [File -> Version]
  BY FileTypes
<1>7. Delete /\ ~PowerAhead' /\ nFault' \in Nat
  <2>1. PICK k : k = "ioerr"
    OBVIOUS
  <2>2. Fault(k) /\ scenario' = scenario /\ k # "kill"
    BY <2>1 DEF DirSyncFails
  <2> QED BY <2>2, FaultEnds
<1>8. "rollback" # "phasetwo"
  OBVIOUS
<1>9. CommitsAll(c, label, l)
  BY <1>5, <1>6, <1>7, <1>8 DEF CommitsAll, DirSyncFails
<1> QED BY <1>9, CommitsAllInv

(* The number of a transaction that begins is new, and so is its claim to  *)
(* a commit.                                                               *)
LEMMA NumbersBegin ==
  ASSUME FiniteSetFacts, IInv, NEW c \in Conn, Apart(c), ~Active(c), current' = current, durable' = durable,
         nTx' = IF loc'[c].write # {} THEN nTx + 1 ELSE nTx, loc'[c].v = nTx'
  PROVE  NumbersInv' /\ Older(c) /\ CounterInv'
<1>1. NumbersInv /\ nTx \in Nat /\ CounterInv /\ \A d \in Conn : loc[d].v \in Nat
  <2>1. nTx \in 0 .. MaxTx /\ loc \in [Conn -> Local] /\ NumbersInv /\ CounterInv
    BY DEF IInv, Types
  <2>2. nTx \in Nat
    BY SMT, <2>1, SuperJournalAssumption
  <2>3. \A d \in Conn : loc[d].v \in 0 .. MaxTx
    BY <2>1 DEF Local
  <2> QED BY SMT, <2>1, <2>2, <2>3, SuperJournalAssumption
<1> USE <1>1
<1>2. \A d \in Conn : d # c => loc'[d] = loc[d] /\ (Active(d)' <=> Active(d)) /\ pc'[d] = pc[d] /\ (Multi(d)' <=> Multi(d))
  BY OthersSame
<1> USE <1>2
<1>3. Active(c)' => loc'[c].write # {} /\ nTx' = nTx + 1
  BY DEF Active
<1>4. nTx' \in Nat /\ nTx <= nTx' /\ nTx' <= nTx' /\ (Active(c)' => nTx < nTx' /\ nTx' # 0)
  BY SMT, <1>1, <1>3
<1> USE <1>4
<1>5. \A d \in Conn : loc[d].v <= nTx /\ loc[d].v <= nTx' /\ (Active(c)' => loc[d].v # nTx')
  <2>1. \A d \in Conn : loc[d].v <= nTx
    BY DEF NumbersInv
  <2> QED BY SMT, <1>1, <1>4, <2>1
<1> USE <1>5
<1>6. NumbersInv'
  <2>1. \A d \in Conn : loc'[d].v <= nTx' /\ (Active(d)' => loc'[d].v # 0)
    BY DEF NumbersInv
  <2>2. \A d, e \in Conn : Active(d)' /\ Active(e)' /\ loc'[d].v = loc'[e].v => d = e
    BY DEF NumbersInv
  <2> QED BY <2>1, <2>2 DEF NumbersInv
<1>7. Older(c)
  <2>1. ASSUME NEW n \in 1 .. MaxTx, ActiveAs(c, n)', n <= nTx PROVE FALSE
    <3>1. Active(c)' /\ n = nTx'
      BY <2>1 DEF ActiveAs
    <3> QED BY SMT, <1>1, <1>4, <2>1, <3>1
  <2> QED BY <2>1 DEF Older
<1>8. ASSUME NEW f \in File PROVE current'[f][2] + Cardinality(Pending(f)') <= nTx' /\ durable'[f][2] <= nTx'
  <2>1. /\ Pending(f)' \subseteq Pending(f) \cup {c} /\ (~Active(c)' => Pending(f)' \subseteq Pending(f))
        /\ c \notin Pending(f) /\ Pending(f) \subseteq Conn
    <3>1. \A d \in Pending(f)' : d = c \/ d \in Pending(f)
      BY DEF Pending
    <3>2. ~Active(c)' => c \notin Pending(f)'
      BY DEF Pending
    <3>3. c \notin Pending(f) /\ Pending(f) \subseteq Conn
      BY DEF Pending
    <3> QED BY <3>1, <3>2, <3>3
  <2> USE <2>1
  <2>2. IsFiniteSet(Pending(f)) /\ Cardinality(Pending(f)) \in Nat
    BY SuperJournalAssumption DEF FiniteSetFacts, SubsetsFinite, CardinalityIsNat
  <2> USE <2>2
  <2>3. PICK P : P = Pending(f) \cup {c}
    OBVIOUS
  <2> USE <2>3
  <2>4. IsFiniteSet(P) /\ Cardinality(P) = Cardinality(Pending(f)) + 1
    BY DEF FiniteSetFacts, ElementAdded
  <2>5. PICK Q : Q = Pending(f)'
    OBVIOUS
  <2> USE <2>5
  <2>6. Q \subseteq P /\ (~Active(c)' => Q \subseteq Pending(f))
    OBVIOUS
  <2>7. Cardinality(Q) \in Nat /\ Cardinality(Q) <= Cardinality(P) /\ (~Active(c)' => Cardinality(Q) <= Cardinality(Pending(f)))
    BY <2>4, <2>6 DEF FiniteSetFacts, SubsetsFinite, CardinalityIsNat
  <2>8. current[f][2] + Cardinality(Pending(f)) <= nTx /\ durable[f][2] <= nTx
    BY DEF CounterInv
  <2>9. current[f] \in Version /\ durable[f] \in Version
    BY DEF IInv, Types, TypeOK
  <2>10. current[f][2] \in Nat /\ durable[f][2] \in Nat
    BY SMT, <2>9, SuperJournalAssumption DEF Version
  <2>11. current[f][2] + Cardinality(Q) <= nTx'
    <3>1. CASE Active(c)'
      <4>1. nTx' = nTx + 1
        BY <1>3, <3>1
      <4> QED BY SMT, <1>1, <2>2, <2>4, <2>7, <2>8, <2>10, <4>1
    <3>2. CASE ~Active(c)'
      <4>1. Cardinality(Q) <= Cardinality(Pending(f))
        BY <2>7, <3>2
      <4> QED BY SMT, <1>1, <1>4, <2>2, <2>7, <2>8, <2>10, <4>1
    <3> QED BY <3>1, <3>2
  <2>12. durable[f][2] <= nTx'
    BY SMT, <1>1, <1>4, <2>8, <2>10
  <2> QED BY <2>11, <2>12
<1> QED BY <1>6, <1>7, <1>8 DEF CounterInv

(* A transaction begins.                                                   *)
LEMMA BeginInv ==
  ASSUME FiniteSetFacts, IInv, NEW c \in Conn, Begin(c)
  PROVE  IInv'
<1>1. /\ Types /\ HoldsInv(c) /\ CacheInv(c) /\ pc[c] = "idle" /\ lock \in [Handle -> Level] /\ Exclusion
      /\ cache \in [Conn -> [File -> Version \cup {Null, Torn}]] /\ calls \in [Conn -> Nat] /\ nTx \in 0 .. MaxTx /\ nFault \in Nat
      /\ scenario \in DOMAIN Scenario
  BY DEF IInv, ConnInv, Begin, Types, TypeOK
<1> USE <1>1
<1>2. PICK t \in Env.tx[c] :
        /\ t.write # {} => nTx < MaxTx
        /\ nTx' = IF t.write # {} THEN nTx + 1 ELSE nTx
        /\ Goto(c, "next", [NoTx EXCEPT !.read = t.read, !.write = t.write, !.todo = t.read \cup t.write, !.v = nTx'])
  BY DEF Begin
<1>3. /\ db' = db /\ jrnl' = jrnl /\ super' = super /\ dbDisk' = dbDisk /\ jrnlDisk' = jrnlDisk
      /\ superDisk' = superDisk /\ current' = current /\ durable' = durable /\ scenario' = scenario
      /\ lock' = lock /\ cache' = cache /\ nFault' = nFault /\ calls' = [calls EXCEPT ![c] = @ + 1]
  BY DEF Begin, files, disk, history
<1>4. t.read \subseteq File /\ t.write \subseteq File
  <2>1. Env.tx \in [Conn -> SUBSET [read : SUBSET File, write : SUBSET File]]
    BY SuperJournalAssumption DEF Env
  <2>2. Env.tx[c] \subseteq [read : SUBSET File, write : SUBSET File]
    BY <2>1
  <2>3. t \in [read : SUBSET File, write : SUBSET File]
    BY <2>2
  <2> QED BY <2>3
<1>5. nTx' \in 0 .. MaxTx
  BY SMT, <1>1, <1>2, SuperJournalAssumption
<1>6. PICK l : l = [NoTx EXCEPT !.read = t.read, !.write = t.write, !.todo = t.read \cup t.write, !.v = nTx']
  OBVIOUS
<1>7. /\ l \in Local /\ l.write = t.write /\ l.todo = t.read \cup t.write /\ l.v = nTx'
      /\ l.open = {} /\ l.opened = {} /\ ~l.isHot /\ l.zSuper = Null
  BY <1>4, <1>5, <1>6, NoTxFields DEF Local
<1> USE <1>7
<1>8. "next" \in Labels /\ "next" \notin Looking \cup Playing \cup Cleaning \cup PhaseOne
  BY DEF Labels, Looking, Playing, Cleaning, PhaseOne
<1> USE <1>8
<1>9. /\ pc' \in [Conn -> Labels] /\ loc' \in [Conn -> Local] /\ pc'[c] = "next" /\ loc'[c] = l
      /\ \A d \in Conn : d # c => pc'[d] = pc[d] /\ loc'[d] = loc[d]
  <2>1. Goto(c, "next", l)
    BY <1>2, <1>6
  <2> QED BY <2>1, Moves
<1> USE <1>9
<1>10. Apart(c)
  BY <1>3 DEF Apart
<1> USE <1>10
<1>11. Types'
  <2>1. calls' \in [Conn -> Nat]
    <3>1. calls[c] + 1 \in Nat
      BY SMT, <1>1
    <3> QED BY <1>3, <3>1
  <2>2. lock' \in [Handle -> Level] /\ Exclusion' /\ nFault' \in Nat
    BY <1>3 DEF Exclusion
  <2> QED BY <1>3, <1>5, <2>1, <2>2, TypesQuiet
<1>12. \A g \in File : ~Holds(c, g)' /\ ~Res(c, g)' /\ ~Exc(c, g)'
  <2>1. \A g \in File : ~Holds(c, g)
    BY DEF HoldsInv
  <2>2. \A g \in File : Res(c, g) => Holds(c, g)
    BY Levels
  <2>3. \A g \in File : Exc(c, g) => Holds(c, g)
    BY SMT DEF Exc, Holds, EXCLUSIVE_LOCK, NO_LOCK
  <2> QED BY <1>3, <2>1, <2>2, <2>3 DEF Holds, Res, Exc
<1> USE <1>12
<1>13. NumbersInv' /\ Older(c) /\ CounterInv'
  <2>1. ~Active(c)
    BY DEF Active
  <2>2. nTx' = IF loc'[c].write # {} THEN nTx + 1 ELSE nTx
    BY <1>2
  <2> QED BY <1>3, <2>1, <2>2, NumbersBegin
<1>14. \A g \in File : /\ IsGone(g)' <=> IsGone(g)
                       /\ Harmless(g)' <=> Harmless(g)
                       /\ \A n : Names(g, n)' <=> Names(g, n)
  BY <1>3 DEF IsGone, Gone, Harmless, Names
<1> USE <1>14
<1>15. Changes(c)
  BY <1>3 DEF Changes
<1>16. \A n \in 1 .. MaxTx : SuperInv(n)'
  BY <1>3 DEF IInv, SuperInv
<1>17. \A g \in File : Kept(c, g)
  BY <1>3 DEF Kept
<1>18. PowerInv'
  <2>1. PowerAhead' => PowerAhead /\ loc'[c].zSuper = Null
    BY <1>3, SameFaults
  <2>2. pc[c] \notin Committing
    BY DEF Committing, PhaseOne
  <2> QED BY <1>3, <2>1, <2>2, PowerKept
<1>19. HoldsInv(c)' /\ WriteInv(c)' /\ JournalInv(c)' /\ CommitInv(c)' /\ CleanInv(c)' /\ ColdInv(c)'
  <2>1. HoldsInv(c)'
    BY DEF HoldsInv
  <2>2. WriteInv(c)'
    BY <1>4 DEF WriteInv
  <2>3. JournalInv(c)' /\ CommitInv(c)' /\ CleanInv(c)' /\ ColdInv(c)'
    BY DEF JournalInv, CommitInv, CleanInv, ColdInv
  <2> QED BY <2>1, <2>2, <2>3
<1>20. CacheInv(c)'
  <2>1. \A f \in File : cache[c][f] # Torn /\ Stale(c, f)
    <3>1. loc[c].opened = {}
      BY NoTxFields DEF HoldsInv
    <3> QED BY <3>1 DEF CacheInv, Restoring
  <2> QED BY <1>3, <2>1 DEF CacheInv, Stale
<1>21. ConnInv(c)' /\ ColdInv(c)'
  BY <1>19, <1>20 DEF ConnInv
<1> QED BY <1>11, <1>13, <1>15, <1>16, <1>17, <1>18, <1>21, StepInv

(* What recovery makes of any version of a file that may be on disk.       *)
LEMMA RecoveredIs ==
  ASSUME IInv, NEW f \in File, NEW j \in jrnlDisk[f], NEW d \in dbDisk[f], NEW s,
         j # Null /\ j.super # Null => s[j.super] \in superDisk[j.super]
  PROVE  Recovered(j, d, s) \in {current[f], durable[f]}
<1>1. ImageInv(f) /\ Types
  BY DEF IInv, FileInv
<1> USE <1>1
<1>2. CASE Live(f)
  <2>1. j = jrnl[f] /\ j # Null /\ j.hot /\ j.orig = current[f] /\ ~Gone(j)
    BY <1>2 DEF Live, ImageInv, IsHot, IsGone
  <2> USE <2>1
  <2>2. j.super = Null \/ s[j.super] # Null
    <3>1. SUFFICES ASSUME j.super # Null PROVE s[j.super] # Null
      OBVIOUS
    <3> USE <3>1
    <3>2. j.super \in 1 .. MaxTx
      BY DEF Types, Journal
    <3>3. SuperInv(j.super) /\ super[j.super] # Null
      BY <3>2 DEF IInv, Gone
    <3> QED BY <3>3 DEF SuperInv
  <2> QED BY <2>2 DEF Recovered
<1>3. CASE ~Live(f)
  <2>1. d = current[f] /\ (j # Null /\ j.hot => j.orig \in {current[f], durable[f]} \/ (j.super # Null /\ superDisk[j.super] = {Null}))
    BY <1>3 DEF ImageInv
  <2>2. j # Null /\ j.super # Null /\ superDisk[j.super] = {Null} => s[j.super] = Null
    OBVIOUS
  <2> QED BY <2>1, <2>2 DEF Recovered
<1> QED BY <1>2, <1>3

(* What a loss of power leaves is one of the versions on disk, and nobody  *)
(* is left to work on it.                                                  *)
LEMMA PowerLossTypes ==
  ASSUME IInv, NoStaleName, PowerLoss
  PROVE  /\ Types' /\ (\A c \in Conn : pc'[c] = "idle" /\ loc'[c] = NoTx /\ \A f \in File : ~Holds(c, f)' /\ cache'[c][f] = Null)
         /\ (\A f \in File : jrnl'[f] \in jrnlDisk[f] /\ jrnlDisk'[f] = {jrnl'[f]} /\ dbDisk'[f] = {db'[f]}
                             /\ current'[f] = Recovered(jrnl'[f], db'[f], super') /\ durable'[f] = current'[f]
                             /\ current'[f] \in {current[f], durable[f]})
         /\ (\A n \in 1 .. MaxTx : super'[n] \in superDisk[n] /\ superDisk'[n] = {super'[n]})
         /\ PowerAhead /\ ~PowerAhead' /\ Delete' /\ nTx' = nTx
<1>1. Types /\ nFault \in Nat
  BY DEF IInv, Types
<1> USE <1>1
<1>2. /\ Fault("power")
      /\ db' \in [File -> UNION {dbDisk[f] : f \in File}] /\ (\A f \in File : db'[f] \in dbDisk[f])
      /\ jrnl' \in [File -> UNION {jrnlDisk[f] : f \in File}] /\ (\A f \in File : jrnl'[f] \in jrnlDisk[f])
      /\ super' \in [1 .. MaxTx -> UNION {superDisk[n] : n \in 1 .. MaxTx}]
      /\ \A n \in 1 .. MaxTx : super'[n] \in superDisk[n]
  BY DEF PowerLoss
<1> USE <1>2
<1>3. /\ dbDisk' = [f \in File |-> {db'[f]}] /\ jrnlDisk' = [f \in File |-> {jrnl'[f]}]
      /\ superDisk' = [n \in 1 .. MaxTx |-> {super'[n]}]
      /\ Drop(Handle) /\ pc' = [c \in Conn |-> "idle"] /\ loc' = [c \in Conn |-> NoTx]
      /\ cache' = [c \in Conn |-> [f \in File |-> Null]]
      /\ current' = [f \in File |-> Recovered(jrnl'[f], db'[f], super')] /\ durable' = current'
      /\ scenario' = scenario /\ nTx' = nTx /\ calls' = calls
  BY DEF PowerLoss
<1> USE <1>3
<1>4. /\ dbDisk \in [File -> SUBSET (Version \cup {Torn})] /\ jrnlDisk \in [File -> SUBSET (Journal \cup {Null})]
      /\ superDisk \in [1 .. MaxTx -> SUBSET ((SUBSET File) \cup {Null})]
      /\ current \in [File -> Version] /\ durable \in [File -> Version]
      /\ scenario \in DOMAIN Scenario /\ nTx \in 0 .. MaxTx /\ calls \in [Conn -> Nat]
      /\ lock \in [Handle -> Level] /\ Exclusion
  BY DEF Types, TypeOK
<1> USE <1>4
<1>5. \A f \in File : db'[f] \in Version \cup {Torn} /\ jrnl'[f] \in Journal \cup {Null}
  <2>1. \A f \in File : dbDisk[f] \subseteq Version \cup {Torn} /\ jrnlDisk[f] \subseteq Journal \cup {Null}
    OBVIOUS
  <2> QED BY <2>1
<1> USE <1>5
<1>6. \A n \in 1 .. MaxTx : super'[n] \in (SUBSET File) \cup {Null}
  <2>1. \A n \in 1 .. MaxTx : superDisk[n] \subseteq (SUBSET File) \cup {Null}
    OBVIOUS
  <2> QED BY <2>1
<1> USE <1>6
<1>7. /\ db' \in [File -> Version \cup {Torn}] /\ jrnl' \in [File -> Journal \cup {Null}]
      /\ super' \in [1 .. MaxTx -> (SUBSET File) \cup {Null}]
  <2>1. db' = [f \in File |-> db'[f]] /\ jrnl' = [f \in File |-> jrnl'[f]] /\ super' = [n \in 1 .. MaxTx |-> super'[n]]
    OBVIOUS
  <2> USE <2>1
  <2>2. db' \in [File -> Version \cup {Torn}]
    OBVIOUS
  <2>3. jrnl' \in [File -> Journal \cup {Null}]
    OBVIOUS
  <2>4. super' \in [1 .. MaxTx -> (SUBSET File) \cup {Null}]
    OBVIOUS
  <2> QED BY <2>2, <2>3, <2>4
<1>8. ASSUME NEW f \in File PROVE /\ current'[f] = Recovered(jrnl'[f], db'[f], super') /\ durable'[f] = current'[f]
                                  /\ current'[f] \in {current[f], durable[f]}
  <2>1. current'[f] = Recovered(jrnl'[f], db'[f], super') /\ durable'[f] = current'[f]
    OBVIOUS
  <2>2. PICK j, d, s : j = jrnl'[f] /\ d = db'[f] /\ s = super'
    OBVIOUS
  <2> USE <2>2
  <2>3. j \in jrnlDisk[f] /\ d \in dbDisk[f]
    OBVIOUS
  <2>4. j # Null /\ j.super # Null => s[j.super] \in superDisk[j.super]
    <3>1. j # Null /\ j.super # Null => j.super \in 1 .. MaxTx
      BY DEF Journal
    <3> QED BY <3>1
  <2>5. Recovered(j, d, s) \in {current[f], durable[f]}
    BY <2>3, <2>4, RecoveredIs
  <2> QED BY <2>1, <2>5
<1> USE <1>8
<1>9. current' \in [File -> Version] /\ durable' \in [File -> Version]
  <2>1. \A f \in File : current'[f] \in Version
    OBVIOUS
  <2>2. current' = [f \in File |-> current'[f]]
    OBVIOUS
  <2>3. current' \in [File -> Version]
    BY <2>1, <2>2
  <2> QED BY <2>3
<1>10. /\ dbDisk' \in [File -> SUBSET (Version \cup {Torn})] /\ jrnlDisk' \in [File -> SUBSET (Journal \cup {Null})]
       /\ superDisk' \in [1 .. MaxTx -> SUBSET ((SUBSET File) \cup {Null})]
  <2>1. \A f \in File : {db'[f]} \in SUBSET (Version \cup {Torn}) /\ {jrnl'[f]} \in SUBSET (Journal \cup {Null})
    OBVIOUS
  <2>2. \A n \in 1 .. MaxTx : {super'[n]} \in SUBSET ((SUBSET File) \cup {Null})
    OBVIOUS
  <2> QED BY <2>1, <2>2
<1>11. pc' \in [Conn -> Labels] /\ loc' \in [Conn -> Local] /\ cache' \in [Conn -> [File -> Version \cup {Null, Torn}]]
  <2>1. "idle" \in Labels /\ NoTx \in Local
    BY NoTxFields DEF Labels
  <2>2. [f \in File |-> Null] \in [File -> Version \cup {Null, Torn}]
    OBVIOUS
  <2> QED BY <2>1, <2>2
<1>12. lock' \in [Handle -> Level] /\ Exclusion' /\ \A c \in Conn, f \in File : ~Holds(c, f)'
  <2>1. PICK S : S = Conn
    OBVIOUS
  <2> USE <2>1
  <2>2. S \in SUBSET Conn /\ Drop(S \X File)
    BY SuperJournalAssumption
  <2> QED BY <2>2, DropLocks
<1> USE <1>12
<1>13. PowerAhead /\ ~PowerAhead' /\ nFault' \in Nat /\ Delete'
  <2>1. PICK k : k = "power"
    OBVIOUS
  <2>2. Fault(k) /\ k # "kill"
    BY <2>1
  <2> USE <2>2
  <2>3. ~PowerAhead' /\ nFault' \in Nat /\ (k # "kill" => Delete)
    BY FaultEnds
  <2> USE <2>3
  <2>4. Delete'
    BY DEF Delete, Env
  <2>5. PowerAhead
    BY DEF Fault, PowerAhead
  <2> QED BY <2>4, <2>5
<1> USE <1>13
<1>14. Types'
  BY <1>7, <1>9, <1>10, <1>11, TypesFrom
<1>15. \A c \in Conn : pc'[c] = "idle" /\ loc'[c] = NoTx /\ \A f \in File : ~Holds(c, f)' /\ cache'[c][f] = Null
  OBVIOUS
<1> QED BY <1>14, <1>15

(* A loss of power leaves any of the versions of each file that may be on  *)
(* disk, and no locks.                                                     *)
LEMMA PowerLossInv ==
  ASSUME FiniteSetFacts, NoStaleName, IInv, PowerLoss
  PROVE  IInv'
<1>1. /\ Types' /\ PowerAhead /\ ~PowerAhead' /\ Delete' /\ nTx' = nTx
      /\ \A c \in Conn : pc'[c] = "idle" /\ loc'[c] = NoTx /\ \A f \in File : ~Holds(c, f)' /\ cache'[c][f] = Null
  BY PowerLossTypes
<1>2. /\ \A f \in File : jrnl'[f] \in jrnlDisk[f] /\ jrnlDisk'[f] = {jrnl'[f]} /\ dbDisk'[f] = {db'[f]}
                         /\ current'[f] = Recovered(jrnl'[f], db'[f], super') /\ durable'[f] = current'[f]
                         /\ current'[f] \in {current[f], durable[f]}
      /\ \A n \in 1 .. MaxTx : super'[n] \in superDisk[n] /\ superDisk'[n] = {super'[n]}
  BY PowerLossTypes
<1>3. /\ NoTx.write = {} /\ NoTx.opened = {} /\ NoTx.open = {} /\ NoTx.v = 0 /\ NoTx.zSuper = Null
  BY NoTxFields
<1>4. \A c \in Conn : ~Active(c)' /\ \A n : ~ActiveAs(c, n)'
  BY <1>1 DEF Active, ActiveAs
<1>5. ASSUME NEW f \in File PROVE FileInv(f)'
  <2>1. PICK j : j = jrnl'[f]
    OBVIOUS
  <2>2. j \in jrnlDisk[f] /\ jrnlDisk'[f] = {j} /\ FileInv(f) /\ PowerFile(f)
    BY <1>1, <1>2, <2>1 DEF IInv, PowerInv
  <2> USE <2>2
  <2>3. j # Null /\ j.super # Null => /\ j.super \in 1 .. MaxTx /\ super'[j.super] \in superDisk[j.super]
                                      /\ superDisk'[j.super] = {super'[j.super]}
    <3>1. jrnl' \in [File -> Journal \cup {Null}]
      BY <1>1 DEF Types, TypeOK
    <3>2. j \in Journal \cup {Null}
      BY <2>1, <3>1
    <3>3. j # Null /\ j.super # Null => j.super \in 1 .. MaxTx
      BY <3>2 DEF Journal
    <3> QED BY <1>2, <3>3
  <2> USE <2>3
  <2>4. (IsHot(f)' <=> j # Null /\ j.hot) /\ (IsGone(f)' <=> j # Null /\ j.super # Null /\ super'[j.super] = Null)
    BY <2>1 DEF IsHot, IsGone, Gone
  <2>5. ImageInv(f)'
    <3>1. j # Null /\ j.hot => j.orig # Null
      BY DEF FileInv, ImageInv
    <3>2. current'[f] = Recovered(j, db'[f], super') /\ durable'[f] = current'[f] /\ dbDisk'[f] = {db'[f]}
      BY <1>2, <2>1
    <3> USE <3>2
    <3>3. Live(f)' => j.orig = current'[f]
      BY <2>4 DEF Live, Recovered
    <3>4. ~Live(f)' => db'[f] = current'[f] /\ (j # Null /\ j.hot => j.super # Null /\ superDisk'[j.super] = {Null})
      BY <2>4 DEF Live, Recovered
    <3> QED BY <2>1, <3>1, <3>3, <3>4 DEF ImageInv
  <2>6. HotInv(f)'
    BY <1>1, <1>5 DEF HotInv
  <2>7. GoneInv(f)'
    <3>1. j # Null /\ j.super # Null /\ super'[j.super] = Null => j.hot
      BY DEF PowerFile
    <3> QED BY <1>1, <2>1, <2>4, <3>1 DEF GoneInv
  <2>8. NamesInv(f)'
    <3>1. j # Null /\ j.super # Null => j.super <= nTx' /\ \A s \in superDisk'[j.super] : s # Null => f \in s
      BY <1>1 DEF FileInv, NamesInv
    <3> QED BY <1>4, <3>1 DEF NamesInv
  <2> QED BY <2>5, <2>6, <2>7, <2>8 DEF FileInv
<1>6. \A n \in 1 .. MaxTx : SuperInv(n)'
  BY <1>2 DEF SuperInv
<1>7. PowerInv'
  BY <1>1 DEF PowerInv
<1>8. NumbersInv'
  <2>1. nTx \in 0 .. MaxTx
    BY DEF IInv, Types
  <2>2. 0 <= nTx
    BY SMT, <2>1, SuperJournalAssumption
  <2> QED BY <1>1, <1>3, <1>4, <2>2 DEF NumbersInv
<1>9. CounterInv'
  <2>1. ASSUME NEW f \in File PROVE current'[f][2] + Cardinality(Pending(f)') <= nTx' /\ durable'[f][2] <= nTx'
    <3>1. Pending(f)' = {}
      BY <1>4 DEF Pending
    <3>2. Cardinality(Pending(f)') = 0
      BY <3>1 DEF FiniteSetFacts, EmptyIsFinite
    <3>3. current[f][2] <= nTx /\ durable[f][2] <= nTx
      <4>1. current[f][2] + Cardinality(Pending(f)) <= nTx /\ durable[f][2] <= nTx
        BY DEF IInv, CounterInv
      <4>2. IsFiniteSet(Pending(f))
        <5>1. Pending(f) \subseteq Conn /\ IsFiniteSet(Conn)
          BY SuperJournalAssumption DEF Pending
        <5> QED BY <5>1 DEF FiniteSetFacts, SubsetsFinite
      <4>3. Cardinality(Pending(f)) \in Nat
        BY <4>2 DEF FiniteSetFacts, CardinalityIsNat
      <4>4. current[f] \in Version /\ nTx \in 0 .. MaxTx
        BY DEF IInv, Types, TypeOK
      <4> QED BY SMT, <4>1, <4>3, <4>4, SuperJournalAssumption DEF Version
    <3>4. current'[f] \in {current[f], durable[f]} /\ durable'[f] = current'[f]
      BY <1>2
    <3>5. current'[f][2] <= nTx' /\ durable'[f][2] <= nTx'
      BY <1>1, <3>3, <3>4
    <3>6. current'[f] \in Version
      BY <1>1 DEF Types, TypeOK
    <3>7. current'[f][2] + 0 = current'[f][2]
      BY SMT, <3>6, SuperJournalAssumption DEF Version
    <3> QED BY <3>2, <3>5, <3>7
  <2> QED BY <2>1 DEF CounterInv
<1>10. ASSUME NEW c \in Conn PROVE ConnInv(c)' /\ ColdInv(c)'
  <2>1. pc'[c] = "idle" /\ loc'[c] = NoTx /\ \A f \in File : ~Holds(c, f)' /\ cache'[c][f] = Null
    BY <1>1
  <2> USE <2>1
  <2>2. HoldsInv(c)' /\ WriteInv(c)' /\ JournalInv(c)' /\ CommitInv(c)' /\ CleanInv(c)'
    BY IdleInv
  <2>3. CacheInv(c)'
    <3>1. \A f \in File : cache'[c][f] # Torn /\ Stale(c, f)'
      BY Marks DEF Stale
    <3> QED BY <1>3, <3>1 DEF CacheInv
  <2> QED BY <1>4, <2>2, <2>3 DEF ConnInv, ColdInv
<1> QED BY <1>1, <1>5, <1>6, <1>7, <1>8, <1>9, <1>10 DEF IInv

(* New files without journals, and connections without transactions.       *)
LEMMA InitInv ==
  ASSUME FiniteSetFacts, Init
  PROVE  IInv
<1>1. /\ scenario \in DOMAIN Scenario /\ LInit
      /\ db = [f \in File |-> <<0, 0>>] /\ jrnl = [f \in File |-> Null]
      /\ super = [n \in 1 .. MaxTx |-> Null]
      /\ dbDisk = [f \in File |-> {<<0, 0>>}] /\ jrnlDisk = [f \in File |-> {Null}]
      /\ superDisk = [n \in 1 .. MaxTx |-> {Null}]
      /\ pc = [c \in Conn |-> "idle"] /\ loc = [c \in Conn |-> NoTx]
      /\ cache = [c \in Conn |-> [f \in File |-> Null]]
      /\ current = db /\ durable = db
      /\ nTx = 0 /\ calls = [c \in Conn |-> 0] /\ nFault = 0
  BY DEF Init
<1>2. /\ NoTx \in Local /\ NoTx.write = {} /\ NoTx.todo = {} /\ NoTx.open = {} /\ NoTx.opened = {} /\ NoTx.v = 0
      /\ ~NoTx.isHot /\ NoTx.zSuper = Null
  BY NoTxFields
<1>3. <<0, 0>> \in Version /\ <<0, 0>>[2] = 0 /\ 0 \in 0 .. MaxTx /\ 0 \in Nat /\ 0 <= 0 /\ 0 + 0 = 0
  BY SMT, SuperJournalAssumption DEF Version
<1>4. \A c \in Conn : pc[c] = "idle" /\ loc[c] = NoTx /\ \A f \in File : cache[c][f] = Null
  BY <1>1
<1>5. \A f \in File : /\ db[f] = <<0, 0>> /\ jrnl[f] = Null /\ dbDisk[f] = {db[f]} /\ jrnlDisk[f] = {Null}
                      /\ current[f] = db[f] /\ durable[f] = db[f]
  BY <1>1
<1>6. lock \in [Handle -> Level] /\ Exclusion /\ \A c \in Conn, f \in File : ~Holds(c, f)
  <2>1. lock = [h \in Handle |-> 0]
    BY <1>1 DEF LInit, NO_LOCK
  <2>2. \A h \in Handle : lock[h] = 0
    BY <2>1
  <2>3. lock \in [Handle -> Level]
    BY SMT, <2>1 DEF Level
  <2>4. \A h \in Handle : Rivals[h] \subseteq Handle
    BY SuperJournalAssumption
  <2>5. Exclusion
    BY SMT, <2>2, <2>4 DEF Exclusion, EXCLUSIVE_LOCK, RESERVED_LOCK, NO_LOCK
  <2>6. \A c \in Conn, f \in File : H(c, f) \in Handle
    BY SuperJournalAssumption DEF H
  <2> QED BY <2>2, <2>3, <2>5, <2>6 DEF Holds, NO_LOCK
<1>7. Types
  <2>1. /\ db \in [File -> Version \cup {Torn}] /\ current \in [File -> Version] /\ durable \in [File -> Version]
        /\ dbDisk \in [File -> SUBSET (Version \cup {Torn})]
    <3>1. PICK v : v = <<0, 0>>
      OBVIOUS
    <3>2. v \in Version /\ {v} \in SUBSET (Version \cup {Torn})
      BY <1>3, <3>1
    <3>3. db = [f \in File |-> v] /\ dbDisk = [f \in File |-> {v}] /\ current = db /\ durable = db
      BY <1>1, <3>1
    <3> QED BY <3>2, <3>3
  <2> USE <2>1
  <2>2. /\ jrnl \in [File -> Journal \cup {Null}] /\ jrnlDisk \in [File -> SUBSET (Journal \cup {Null})]
        /\ super \in [1 .. MaxTx -> (SUBSET File) \cup {Null}]
        /\ superDisk \in [1 .. MaxTx -> SUBSET ((SUBSET File) \cup {Null})]
    BY <1>1
  <2> USE <2>2
  <2>3. pc \in [Conn -> Labels] /\ loc \in [Conn -> Local] /\ cache \in [Conn -> [File -> Version \cup {Null, Torn}]]
    <3>1. "idle" \in Labels
      BY DEF Labels
    <3>2. [f \in File |-> Null] \in [File -> Version \cup {Null, Torn}]
      OBVIOUS
    <3> QED BY <1>1, <1>2, <3>1, <3>2
  <2> USE <2>3
  <2>4. calls \in [Conn -> Nat] /\ nFault \in Nat /\ nTx \in 0 .. MaxTx
    BY <1>1, <1>3
  <2>5. TypeOK
    <3>1. \A n \in 1 .. MaxTx : super[n] = Null \/ super[n] \subseteq File
      BY <1>1
    <3>2. \A f \in File : dbDisk[f] \subseteq Version \cup {Torn} /\ jrnlDisk[f] \subseteq Journal \cup {Null}
      BY <1>3, <1>5
    <3> QED BY <1>6, <3>1, <3>2 DEF TypeOK
  <2> QED BY <1>1, <2>4, <2>5 DEF Types
<1>8. ASSUME NEW f \in File PROVE FileInv(f) /\ PowerFile(f)
  <2>1. ~IsHot(f) /\ ~IsGone(f) /\ ~Live(f)
    BY <1>5 DEF IsHot, IsGone, Live
  <2>2. \A j \in jrnlDisk[f] : j = Null
    <3>1. jrnlDisk[f] = {Null}
      BY <1>5
    <3> QED BY <3>1
  <2> USE <2>2
  <2>3. ImageInv(f) /\ HotInv(f) /\ GoneInv(f) /\ NamesInv(f)
    BY <1>5, <2>1 DEF ImageInv, HotInv, GoneInv, NamesInv
  <2> QED BY <1>5, <2>3 DEF FileInv, PowerFile
<1> USE <1>8
<1>9. \A n \in 1 .. MaxTx : SuperInv(n)
  BY <1>1 DEF SuperInv
<1>10. PowerInv
  BY <1>2, <1>4 DEF PowerInv
<1>11. \A c \in Conn : ~Active(c)
  BY <1>4 DEF Active
<1> USE <1>11
<1>12. NumbersInv
  BY <1>1, <1>2, <1>3, <1>4 DEF NumbersInv
<1>13. CounterInv
  <2>1. ASSUME NEW f \in File PROVE current[f][2] + Cardinality(Pending(f)) <= nTx /\ durable[f][2] <= nTx
    <3>1. Pending(f) = {}
      BY DEF Pending
    <3>2. Cardinality(Pending(f)) = 0
      BY <3>1 DEF FiniteSetFacts, EmptyIsFinite
    <3>3. current[f][2] = 0 /\ durable[f][2] = 0
      BY <1>3, <1>5
    <3> QED BY <1>1, <1>3, <3>2, <3>3
  <2> QED BY <2>1 DEF CounterInv
<1>14. ASSUME NEW c \in Conn PROVE ConnInv(c) /\ ColdInv(c)
  <2>1. pc[c] = "idle" /\ loc[c] = NoTx /\ \A f \in File : ~Holds(c, f) /\ cache[c][f] = Null
    BY <1>4, <1>6
  <2> USE <2>1
  <2>2. pc[c] \notin Looking \cup Playing \cup Cleaning \cup PhaseOne
    BY DEF Looking, Playing, Cleaning, PhaseOne
  <2> USE <2>2
  <2>3. HoldsInv(c)
    BY <1>2 DEF HoldsInv
  <2>4. WriteInv(c)
    BY <1>2 DEF WriteInv
  <2>5. JournalInv(c) /\ CommitInv(c) /\ CleanInv(c)
    BY <1>2 DEF JournalInv, CommitInv, CleanInv
  <2>6. CacheInv(c)
    <3>1. \A f \in File : cache[c][f] # Torn /\ Stale(c, f)
      BY Marks DEF Stale
    <3> QED BY <1>2, <3>1 DEF CacheInv
  <2> QED BY <2>3, <2>4, <2>5, <2>6 DEF ConnInv, ColdInv
<1> QED BY <1>7, <1>9, <1>10, <1>12, <1>13, <1>14 DEF IInv

(* A step of one connection.                                               *)
LEMMA ConnectionStep ==
  ASSUME FiniteSetFacts, NoStaleName, IInv, NEW c \in Conn, Step(c)
  PROVE  IInv'
<1>1. CASE Begin(c) BY <1>1, BeginInv
<1>2. CASE JournalExists(c) BY <1>2, JournalExistsInv
<1>3. CASE CheckReservedLock(c) BY <1>3, CheckReservedLockInv
<1>4. CASE FirstByte(c) BY <1>4, FirstByteInv
<1>5. CASE HotLock(c) BY <1>5, HotLockInv
<1>6. CASE HotOpen(c) BY <1>6, HotOpenInv, HotOpenGoneInv
<1>7. CASE CheckVersion(c) BY <1>7, CheckVersionInv
<1>8. CASE pager_playback(c) BY <1>8, PlaybackInv
<1>9. CASE RestorePages(c) BY <1>9, RestorePagesInv
<1>10. CASE EndPlayback(c) BY <1>10, EndPlaybackInv
<1>11. CASE pager_delsuper(c) BY <1>11, DelSuperInv
<1>12. CASE DelSuperRead(c) BY <1>12, DelSuperReadInv
<1>13. CASE DelSuperDelete(c) BY <1>13, DelSuperDeleteInv, DelSuperGoneInv
<1>14. CASE sqlite3PagerBegin(c) BY <1>14, PagerBeginInv
<1>15. CASE pager_open_journal(c) BY <1>15, OpenJournalInv
<1>16. CASE EndRead(c) BY <1>16, EndReadInv
<1>17. CASE sqlite3RollbackAll(c) BY <1>17, RollbackAllInv
<1>18. CASE RolledBack(c) BY <1>18, RolledBackInv
<1>19. CASE vdbeCommit(c) BY <1>19, vdbeCommitInv
<1>20. CASE CreateSuper(c) BY <1>20, CreateSuperInv
<1>21. CASE syncJournal(c) BY <1>21, SyncJournalInv
<1>22. CASE pager_write_pagelist(c) BY <1>22, WritePagelistInv
<1>23. CASE sqlite3PagerSync(c) BY <1>23, PagerSyncInv
<1>24. CASE DeleteSuper(c) BY <1>24, DeleteSuperInv
<1>25. CASE CommitIOError(c) BY <1>25, CommitIOErrorInv
<1>26. CASE DirSyncFails(c) BY <1>26, DirSyncFailsInv
<1>27. CASE Kill(c) BY <1>27, KillInv
<1>28. ASSUME NEW f \in File,
              \/ pager_wait_on_lock(c, f) \/ DelSuperOther(c, f)
              \/ sqlite3PagerRollback(c, f) \/ sqlite3PagerExclusiveLock(c, f)
              \/ writeSuperJournal(c, f) \/ sqlite3PagerCommitPhaseTwo(c, f)
              \/ PhaseTwoIOError(c, f)
       PROVE  IInv'
  <2>1. CASE pager_wait_on_lock(c, f) BY <2>1, WaitOnLockInv
  <2>2. CASE DelSuperOther(c, f) BY <2>2, DelSuperOtherInv
  <2>3. CASE sqlite3PagerRollback(c, f) BY <2>3, PagerRollbackInv
  <2>4. CASE sqlite3PagerExclusiveLock(c, f) BY <2>4, ExclusiveLockInv
  <2>5. CASE writeSuperJournal(c, f) BY <2>5, WriteSuperJournalInv
  <2>6. CASE sqlite3PagerCommitPhaseTwo(c, f) BY <2>6, CommitPhaseTwoInv
  <2>7. CASE PhaseTwoIOError(c, f) BY <2>7, PhaseTwoIOErrorInv
  <2> QED BY <1>28, <2>1, <2>2, <2>3, <2>4, <2>5, <2>6, <2>7
<1> QED BY <1>1, <1>2, <1>3, <1>4, <1>5, <1>6, <1>7, <1>8, <1>9, <1>10, <1>11, <1>12, <1>13, <1>14, <1>15, <1>16,
           <1>17, <1>18, <1>19, <1>20, <1>21, <1>22, <1>23, <1>24, <1>25, <1>26, <1>27, <1>28 DEF Step

(* Nothing happens.                                                        *)
LEMMA StutterInv ==
  ASSUME IInv, UNCHANGED vars
  PROVE  IInv'
<1>1. /\ scenario' = scenario /\ lock' = lock /\ db' = db /\ jrnl' = jrnl /\ super' = super
      /\ dbDisk' = dbDisk /\ jrnlDisk' = jrnlDisk /\ superDisk' = superDisk
      /\ pc' = pc /\ loc' = loc /\ cache' = cache /\ current' = current /\ durable' = durable
      /\ nTx' = nTx /\ calls' = calls /\ nFault' = nFault
  BY DEF vars, files, disk, history
<1> USE <1>1
<1>2. Types'
  BY DEF IInv, Types, TypeOK, Exclusion
<1>3. \A c \in Conn, f \in File : /\ Holds(c, f)' <=> Holds(c, f)
                                  /\ Res(c, f)' <=> Res(c, f)
                                  /\ Exc(c, f)' <=> Exc(c, f)
  BY DEF Holds, Res, Exc
<1>4. /\ \A c \in Conn : /\ Active(c)' <=> Active(c)
                         /\ Multi(c)' <=> Multi(c)
                         /\ F(c)' = F(c)
                         /\ \A n : ActiveAs(c, n)' <=> ActiveAs(c, n)
      /\ Delete' <=> Delete
      /\ PowerAhead' <=> PowerAhead
  BY DEF Active, Undoing, Multi, F, ActiveAs, Delete, PowerAhead, Env
<1> USE <1>4
<1>5. \A f \in File : /\ IsHot(f)' <=> IsHot(f)
                      /\ IsGone(f)' <=> IsGone(f)
                      /\ Live(f)' <=> Live(f)
                      /\ Harmless(f)' <=> Harmless(f)
                      /\ Pending(f)' = Pending(f)
                      /\ \A n : Names(f, n)' <=> Names(f, n)
  <2>1. \A f \in File : /\ IsHot(f)' <=> IsHot(f)
                        /\ IsGone(f)' <=> IsGone(f)
                        /\ Live(f)' <=> Live(f)
                        /\ Harmless(f)' <=> Harmless(f)
                        /\ \A n : Names(f, n)' <=> Names(f, n)
    BY DEF IsHot, IsGone, Gone, Live, Harmless, Names
  <2>2. \A f \in File : Pending(f)' = Pending(f)
    BY DEF Pending
  <2> QED BY <2>1, <2>2
<1> USE <1>5
<1>6. ASSUME NEW f \in File PROVE FileInv(f)'
  <2>1. FileInv(f)
    BY DEF IInv
  <2> QED BY <1>3, <2>1 DEF FileInv, ImageInv, HotInv, GoneInv, NamesInv
<1>7. (\A n \in 1 .. MaxTx : SuperInv(n)') /\ PowerInv' /\ NumbersInv' /\ CounterInv'
  BY DEF IInv, SuperInv, PowerInv, PowerFile, NumbersInv, CounterInv
<1>8. ASSUME NEW c \in Conn PROVE ConnInv(c)' /\ ColdInv(c)'
  <2>1. ConnInv(c) /\ ColdInv(c)
    BY DEF IInv
  <2> USE <2>1
  <2>2. HoldsInv(c)' /\ WriteInv(c)'
    <3>1. HoldsInv(c) /\ WriteInv(c)
      BY DEF ConnInv
    <3> USE <3>1
    <3>2. HoldsInv(c)'
      BY DEF HoldsInv, Holds, Res, Exc, F
    <3>3. WriteInv(c)'
      BY DEF WriteInv, Res, Exc, F
    <3> QED BY <3>2, <3>3
  <2>3. JournalInv(c)' /\ CleanInv(c)'
    BY DEF ConnInv, JournalInv, CleanInv, OwnJournal, IsGone, Gone, Harmless, Names, F, ActiveAs, Active, Undoing
  <2>4. CommitInv(c)' /\ ColdInv(c)'
    BY DEF ConnInv, CommitInv, ColdInv, IsGone, Gone, IsHot, Done, NewVersion, F, Active, Undoing, Multi
  <2>5. CacheInv(c)'
    BY DEF ConnInv, CacheInv, Stale, Restoring, F
  <2> QED BY <2>2, <2>3, <2>4, <2>5 DEF ConnInv
<1> QED BY <1>2, <1>6, <1>7, <1>8 DEF IInv

-----------------------------------------------------------------------------
(* The facts about finite sets that the lemmas above take for granted.     *)
(* First, what the operators of FiniteSets are: an instance of the         *)
(* library's module has definitions of its own for them.                   *)
LEMMA FiniteIs ==
  ASSUME NEW S
  PROVE  Finite(S) <=> \E seq \in Seq(S) : \A s \in S : \E n \in 1 .. Len(seq) : seq[n] = s
  BY DEF Finite, IsFiniteSet
(* The same for the number of the elements.                                *)
LEMMA SizeIs ==
  ASSUME NEW S
  PROVE  Size(S) = (CHOOSE CS : CS = [T \in SUBSET S |-> IF T = {} THEN 0
                                                        ELSE 1 + CS[T \ {CHOOSE x : x \in T}]])[S]
  BY DEF Size, Cardinality

LOCAL INSTANCE FiniteSetTheorems

(* What the lemmas take for granted of finite sets (of connections, files  *)
(* and locks) is what the library proves.                                  *)
LEMMA FiniteFacts == FiniteSetFacts
<1>1. ASSUME NEW S PROVE (IsFiniteSet(S) <=> Finite(S)) /\ Cardinality(S) = Size(S)
  BY FiniteIs, SizeIs DEF IsFiniteSet, Cardinality
<1> USE <1>1
<1>2. CardinalityIsNat
  <2>1. \A S : Finite(S) => Size(S) \in Nat BY FS_CardinalityType
  <2> QED BY <2>1 DEF CardinalityIsNat, Finite, Size
<1>3. EmptyIsFinite
  <2>1. Finite({}) /\ Size({}) = 0 /\ \A S : Finite(S) => (Size(S) = 0 <=> S = {}) BY FS_EmptySet
  <2> QED BY <2>1 DEF EmptyIsFinite, Finite, Size
<1>4. SingletonIsFinite
  <2>1. /\ \A x : Finite({x}) /\ Size({x}) = 1
        /\ \A S : Finite(S) => (Size(S) = 1 <=> \E x : S = {x})
    BY FS_Singleton
  <2> QED BY <2>1 DEF SingletonIsFinite, Finite, Size
<1>5. SubsetsFinite
  <2>1. ASSUME NEW S, Finite(S), NEW T \in SUBSET S PROVE Finite(T) /\ Size(T) <= Size(S)
    BY <2>1, FS_Subset
  <2> QED BY <2>1 DEF SubsetsFinite, Finite, Size
<1>6. ElementAdded
  <2>1. ASSUME NEW S, NEW x, Finite(S)
        PROVE  Finite(S \cup {x}) /\ Size(S \cup {x}) = IF x \in S THEN Size(S) ELSE Size(S) + 1
    BY <2>1, FS_AddElement
  <2> QED BY <2>1 DEF ElementAdded, Finite, Size
<1>7. ElementRemoved
  <2>1. ASSUME NEW S, NEW x, Finite(S)
        PROVE  Finite(S \ {x}) /\ Size(S \ {x}) = IF x \in S THEN Size(S) - 1 ELSE Size(S)
    BY <2>1, FS_RemoveElement
  <2> QED BY <2>1 DEF ElementRemoved, Finite, Size
<1> QED BY <1>2, <1>3, <1>4, <1>5, <1>6, <1>7 DEF FiniteSetFacts

(* IInv is an invariant of the pager's protocol for files that commit      *)
(* together, in every environment without a stale name of a super-journal. *)
THEOREM SuperJournalInductive ==
  ASSUME NoStaleName
  PROVE  Spec => []IInv
<1>1. Init => IInv
  BY InitInv, FiniteFacts
<1>2. IInv /\ [Next]_vars => IInv'
  <2>1. ASSUME IInv, PowerLoss PROVE IInv'
    BY <2>1, PowerLossInv, FiniteFacts
  <2>2. ASSUME IInv, NEW c \in Conn, Step(c) PROVE IInv'
    BY <2>2, ConnectionStep, FiniteFacts
  <2>3. ASSUME IInv, UNCHANGED vars PROVE IInv'
    BY <2>3, StutterInv
  <2> QED BY <2>1, <2>2, <2>3 DEF Next
<1> QED BY <1>1, <1>2, PTL DEF Spec

(* Every variable keeps its type, and the locks exclude each other.        *)
THEOREM SuperJournalTypeOK ==
  ASSUME NoStaleName
  PROVE  Spec => []TypeOK
<1>1. IInv => TypeOK
  BY DEF IInv, Types
<1> QED BY <1>1, SuperJournalInductive, PTL

(* The commit of a transaction on several files is one step for all of     *)
(* them: what the journals, rolled back or left alone by the rule of       *)
(* hasHotJournal and pager_playback, make of the files is the last commit. *)
THEOREM CommitIsAtomic ==
  ASSUME NoStaleName
  PROVE  Spec => []AtomicCommit
<1>1. IInv => AtomicCommit
  <2>1. SUFFICES ASSUME IInv, NEW f \in File PROVE Recovered(jrnl[f], db[f], super) = current[f]
    BY DEF AtomicCommit
  <2>2. ImageInv(f)
    BY <2>1 DEF IInv, FileInv
  <2> QED BY <2>2 DEF ImageInv, Live, IsHot, IsGone, Gone, Recovered
<1> QED BY <1>1, SuperJournalInductive, PTL

(* Whatever part of the writes since the last xSync is lost with the       *)
(* power, recovery makes the last commit of every file, or the last one    *)
(* that was promised to be durable.                                        *)
THEOREM PowerLossIsAtomic ==
  ASSUME NoStaleName
  PROVE  Spec => []PowerLossAtomic
<1>1. IInv => PowerLossAtomic
  <2>1. SUFFICES ASSUME IInv, NEW f \in File, NEW j \in jrnlDisk[f], NEW d \in dbDisk[f],
                        NEW s \in IF j = Null \/ j.super = Null THEN {Null} ELSE superDisk[j.super]
                 PROVE  Recovered(j, d, [n \in 1 .. MaxTx |-> s]) \in {current[f], durable[f]}
    BY DEF PowerLossAtomic
  <2> USE <2>1
  <2>2. PICK t : t = [n \in 1 .. MaxTx |-> s]
    OBVIOUS
  <2> USE <2>2
  <2>3. j # Null /\ j.super # Null => t[j.super] \in superDisk[j.super]
    <3>1. j # Null /\ j.super # Null => j.super \in 1 .. MaxTx
      BY DEF IInv, Types, Journal
    <3> QED BY <3>1
  <2> QED BY <2>3, RecoveredIs
<1> QED BY <1>1, SuperJournalInductive, PTL

(* A connection that has a read transaction on a file and has not begun to *)
(* change it has the last commit of it in its cache.                       *)
THEOREM ReadsAreCommitted ==
  ASSUME NoStaleName
  PROVE  Spec => []ReadsCommitted
<1>1. IInv => ReadsCommitted
  BY DEF IInv, ConnInv, CacheInv, ReadsCommitted
<1> QED BY <1>1, SuperJournalInductive, PTL
===============================================================================
