--------------------------- MODULE SuperJournalInv ---------------------------
(***************************************************************************)
(* The inductive invariant of SuperJournal, and the environments in which  *)
(* it holds.                                                               *)
(***************************************************************************)
EXTENDS SuperJournal, FiniteCounting

Delete == \A c \in Conn : Env.mode[c] = "delete"

(* The environments without the stale name of a super-journal: journals    *)
(* that stay after a transaction only where processes die before they      *)
(* commit, and at most one fault if it is a loss of power.                 *)
NoStaleName ==
  \A s \in DOMAIN Scenario :
    /\ (\E c \in Conn : Scenario[s].mode[c] # "delete") => Scenario[s].fault \subseteq {"kill"}
    /\ "power" \in Scenario[s].fault => Scenario[s].maxFault <= 1

-----------------------------------------------------------------------------
Holds(c, f) == lock[H(c, f)] # NO_LOCK
Res(c, f) == lock[H(c, f)] >= RESERVED_LOCK
Exc(c, f) == lock[H(c, f)] = EXCLUSIVE_LOCK

Looking == {"exists", "reserved", "first", "hot"}
Playing == {"playback", "restore", "endplayback"}
Cleaning == {"delsuper", "delother", "delread"}
PhaseOne == {"phaseone", "syncjournal", "writelist", "syncdb"}
Committing == PhaseOne \cup {"deletesuper", "phasetwo"}

(* A connection takes a transaction back, or still means to commit it.     *)
Undoing(c) == pc[c] = "rollback" \/ (pc[c] \in Playing \cup Cleaning /\ ~loc[c].isHot)
Active(c) == pc[c] # "idle" /\ loc[c].write # {} /\ ~Undoing(c)
ActiveAs(c, n) == Active(c) /\ loc[c].v = n

Names(f, n) == jrnl[f] # Null /\ jrnl[f].super = n
IsGone(f) == jrnl[f] # Null /\ Gone(jrnl[f])
IsHot(f) == jrnl[f] # Null /\ jrnl[f].hot
Live(f) == IsHot(f) /\ ~IsGone(f)

-----------------------------------------------------------------------------
(* The files.                                                              *)

Local ==
  [write : SUBSET File, read : SUBSET File, todo : SUBSET File, open : SUBSET File,
   opened : SUBSET File, f : File \cup {Null}, v : 0 .. MaxTx, isHot : BOOLEAN,
   zSuper : 1 .. MaxTx \cup {Null}, journalOff : BOOLEAN, others : SUBSET File,
   g : File \cup {Null}]

Types ==
  /\ TypeOK
  /\ scenario \in DOMAIN Scenario /\ nTx \in 0 .. MaxTx
  /\ loc \in [Conn -> Local]
  /\ super \in [1 .. MaxTx -> (SUBSET File) \cup {Null}]
  /\ superDisk \in [1 .. MaxTx -> SUBSET ((SUBSET File) \cup {Null})]
  /\ dbDisk \in [File -> SUBSET (Version \cup {Torn})]
  /\ jrnlDisk \in [File -> SUBSET (Journal \cup {Null})]
  /\ calls \in [Conn -> Nat] /\ nFault \in Nat

(* What a file, its journal and their versions on disk may be.             *)
ImageInv(f) ==
  /\ jrnl[f] \in jrnlDisk[f]
  /\ \A j \in jrnlDisk[f] : j # Null /\ j.hot => j.orig # Null
  /\ IsHot(f) => jrnlDisk[f] = {jrnl[f]}
  /\ Live(f) => jrnl[f].orig = current[f] /\ durable[f] = current[f]
  /\ ~Live(f) => /\ db[f] = current[f] /\ dbDisk[f] = {db[f]}
                 /\ \A j \in jrnlDisk[f] : j # Null /\ j.hot =>
                      \/ j.orig \in {current[f], durable[f]}
                      \/ j.super # Null /\ superDisk[j.super] = {Null}

(* Of a file with a hot journal only whoever plays it back, or has not yet *)
(* looked for it, has a lock.                                              *)
HotInv(f) ==
  IsHot(f) => \A c \in Conn : Holds(c, f) => Exc(c, f) \/ (pc[c] \in Looking /\ F(c) = f)

(* A journal whose super-journal is gone is hot.  Where journals stay, it  *)
(* belongs to a transaction that is committing.                            *)
GoneInv(f) ==
  IsGone(f) => /\ jrnl[f].hot
               /\ Delete \/ \E c \in Conn : pc[c] = "phasetwo" /\ Multi(c) /\ f \in loc[c].todo

(* What names a super-journal is named by it, and a transaction that has   *)
(* not yet created one is not named.                                       *)
NamesInv(f) ==
  \A j \in jrnlDisk[f] : j # Null /\ j.super # Null =>
    /\ j.super <= nTx
    /\ \A c \in Conn : ActiveAs(c, j.super) =>
         Multi(c) /\ pc[c] \in Committing
    /\ \A s \in superDisk[j.super] : s # Null => f \in s

SuperInv(n) ==
  /\ super[n] \in superDisk[n]
  /\ super[n] # Null => superDisk[n] = {super[n]}

(* Before the one loss of power no journal can bring back a name that is   *)
(* gone: every name in a journal is that of a transaction that commits.    *)
PowerAhead == "power" \in Env.fault /\ nFault < Env.maxFault
PowerFile(f) ==
  /\ jrnl[f] # Null /\ jrnl[f].super # Null =>
       \E c \in Conn : f \in loc[c].opened /\ pc[c] \in Committing
  /\ \A j \in jrnlDisk[f] : j # Null /\ ~j.hot /\ j.super # Null => Null \notin superDisk[j.super]
PowerInv ==
  PowerAhead => /\ \A c \in Conn : loc[c].zSuper = Null
                /\ \A f \in File : PowerFile(f)

(* Transactions that write have numbers of their own.                      *)
NumbersInv ==
  /\ \A c \in Conn : loc[c].v <= nTx /\ (Active(c) => loc[c].v # 0)
  /\ \A c, d \in Conn : Active(c) /\ Active(d) /\ loc[c].v = loc[d].v => c = d

(* Every commit has a transaction of its own.                              *)
Pending(f) ==
  {c \in Conn : Active(c) /\ f \in loc[c].write /\ (pc[c] = "phasetwo" => ~Multi(c))}
CounterInv ==
  \A f \in File : current[f][2] + Cardinality(Pending(f)) <= nTx /\ durable[f][2] <= nTx

-----------------------------------------------------------------------------
(* The connections.                                                        *)

(* The locks and the files of a transaction.                               *)
HoldsInv(c) ==
  /\ loc[c].opened \subseteq loc[c].write
  /\ \A f \in loc[c].open : Holds(c, f)
  /\ \A f \in loc[c].opened : Res(c, f)
  /\ pc[c] \in Looking \cup {"hotopen", "version", "reserve", "journal", "syncjournal", "writelist", "syncdb"}
               \cup Playing \cup Cleaning => F(c) \in File
  /\ pc[c] \in Looking \cup {"hotopen", "version"} \cup Playing \cup Cleaning =>
       F(c) \notin loc[c].open \cup loc[c].opened
  /\ pc[c] \in Looking \cup Cleaning \cup {"version", "reserve"} => Holds(c, F(c)) /\ ~Res(c, F(c))
  /\ pc[c] \in {"reserve", "journal"} =>
       F(c) \in loc[c].open \cap loc[c].write /\ F(c) \notin loc[c].opened
  /\ pc[c] = "journal" => Res(c, F(c)) /\ ~Exc(c, F(c))
  /\ pc[c] = "hotopen" \/ (pc[c] \in Playing /\ loc[c].isHot) => Exc(c, F(c))
  /\ pc[c] \in Playing => Res(c, F(c))
  /\ loc[c].isHot => pc[c] \in Playing \cup Cleaning \cup {"version"}
  /\ pc[c] = "idle" => loc[c] = NoTx /\ \A f \in File : ~Holds(c, f)

(* Which files of a transaction have a journal, or are still to come.      *)
WriteInv(c) ==
  /\ pc[c] = "next" => /\ loc[c].write \subseteq loc[c].todo \cup loc[c].opened
                       /\ \A f \in loc[c].write : Res(c, f) => f \in loc[c].opened
  /\ pc[c] \in Looking \cup {"hotopen", "version", "reserve", "journal"}
     \/ (pc[c] \in Playing \cup Cleaning /\ loc[c].isHot) =>
       /\ loc[c].write \subseteq loc[c].todo \cup loc[c].opened \cup {F(c)}
       /\ \A f \in loc[c].write : Res(c, f) => f \in loc[c].opened \cup {F(c)}
  /\ pc[c] \in {"exclusive", "deletesuper"} \cup PhaseOne => loc[c].write \subseteq loc[c].opened
  /\ pc[c] \in {"exclusive", "phasetwo"} \cup PhaseOne => loc[c].todo \subseteq loc[c].write
  /\ pc[c] = "exclusive" => \A f \in loc[c].write \ loc[c].todo : Exc(c, f)
  /\ pc[c] \in PhaseOne \cup {"deletesuper"} => \A f \in loc[c].write : Exc(c, f)
  /\ pc[c] = "phasetwo" => \A f \in loc[c].todo : f \in loc[c].opened /\ Exc(c, f)
  /\ pc[c] \in PhaseOne \ {"phaseone"} => F(c) \in loc[c].write \ loc[c].todo
  /\ pc[c] \in {"exclusive", "deletesuper", "phasetwo"} \cup PhaseOne => loc[c].write # {}
  /\ pc[c] \in {"rollback", "phasetwo"} \/ (pc[c] \in Playing \cup Cleaning /\ ~loc[c].isHot) =>
       loc[c].opened = loc[c].todo

(* A journal of the connection's own transaction.                          *)
OwnJournal(c, f) ==
  /\ jrnl[f] # Null
  /\ IF IsGone(f) THEN cache[c][f] = current[f] ELSE jrnl[f].orig = current[f]

(* A journal that does not name a super-journal before it is hot.          *)
Harmless(f) == jrnl[f] = Null \/ jrnl[f].hot \/ jrnl[f].super = Null

JournalInv(c) ==
  /\ \A f \in loc[c].opened : OwnJournal(c, f)
  /\ pc[c] \in {"hot", "hotopen"} \/ (pc[c] = "playback" /\ loc[c].isHot) =>
       Harmless(F(c))
  /\ pc[c] \in Playing => jrnl[F(c)] # Null
  /\ pc[c] = "playback" /\ ~loc[c].isHot => OwnJournal(c, F(c))
  /\ pc[c] = "restore" =>
       /\ ~IsGone(F(c)) /\ jrnl[F(c)].orig = current[F(c)] /\ loc[c].journalOff
       /\ loc[c].zSuper = jrnl[F(c)].super
  /\ pc[c] = "endplayback" =>
       /\ db[F(c)] = current[F(c)]
       /\ loc[c].zSuper # Null => loc[c].zSuper = jrnl[F(c)].super /\ loc[c].journalOff
       /\ ~loc[c].journalOff => loc[c].isHot /\ (jrnl[F(c)].hot => IsGone(F(c)))

(* The journal of a transaction is not hot before syncJournal.             *)
ColdInv(c) ==
  Active(c) => \A f \in loc[c].opened : IsHot(f) =>
    pc[c] \in Committing /\ (pc[c] \in PhaseOne => f \notin loc[c].todo)

(* A file that phase one of a commit is done with.                         *)
Done(c, f) ==
  /\ jrnl[f].hot /\ db[f] = NewVersion(c, f) /\ dbDisk[f] = {db[f]} /\ cache[c][f] = db[f]
  /\ Multi(c) => jrnl[f].super = loc[c].v

CommitInv(c) ==
  /\ pc[c] \in PhaseOne \cup {"deletesuper"} =>
       /\ Multi(c) => super[loc[c].v] = loc[c].write
       /\ \A f \in loc[c].write : ~IsGone(f)
       /\ \A f \in loc[c].write \ loc[c].todo : f = F(c) \/ Done(c, f)
  /\ pc[c] = "phaseone" => \A f \in loc[c].write \ loc[c].todo : Done(c, f)
  /\ pc[c] = "syncjournal" /\ Multi(c) => jrnl[F(c)].super = loc[c].v
  /\ pc[c] \in {"writelist", "syncdb"} =>
       jrnl[F(c)].hot /\ (Multi(c) => jrnl[F(c)].super = loc[c].v)
  /\ pc[c] = "syncdb" => cache[c][F(c)] = NewVersion(c, F(c))
  /\ pc[c] = "deletesuper" => Multi(c) /\ \A f \in loc[c].write : Done(c, f)
  /\ pc[c] = "phasetwo" =>
       /\ ~Multi(c) => \A f \in loc[c].todo : Done(c, f) /\ ~IsGone(f)
       /\ Multi(c) => /\ super[loc[c].v] = Null
                      /\ \A f \in loc[c].todo : jrnl[f].hot /\ jrnl[f].super = loc[c].v

(* The super-journal that pager_delsuper may delete.                       *)
CleanInv(c) ==
  LET n == loc[c].zSuper IN
  /\ n # Null => /\ pc[c] \in {"restore", "endplayback"} \cup Cleaning
                 /\ n <= nTx /\ \A d \in Conn : ~ActiveAs(d, n)
  /\ pc[c] \in Cleaning => n # Null /\ ~Names(F(c), n)
  /\ pc[c] = "delread" => loc[c].g \in File
  /\ pc[c] \in {"delother", "delread"} =>
       \A f \in File : Names(f, n) =>
         super[n] = Null \/ f \in loc[c].others \/ (pc[c] = "delread" /\ f = loc[c].g)

(* What is cached of a file that the transaction has not changed.          *)
Stale(c, f) ==
  cache[c][f] \in Version => /\ cache[c][f][2] <= current[f][2]
                             /\ cache[c][f][2] = current[f][2] => cache[c][f] = current[f]
Restoring(c, f) == pc[c] \in {"playback", "restore"} /\ ~loc[c].isHot /\ F(c) = f
CacheInv(c) ==
  /\ \A f \in File : f \notin loc[c].opened /\ ~Restoring(c, f) => cache[c][f] # Torn /\ Stale(c, f)
  /\ \A f \in loc[c].open \ loc[c].opened : cache[c][f] = current[f]

ConnInv(c) ==
  HoldsInv(c) /\ WriteInv(c) /\ JournalInv(c) /\ CommitInv(c) /\ CleanInv(c) /\ CacheInv(c)

FileInv(f) == ImageInv(f) /\ HotInv(f) /\ GoneInv(f) /\ NamesInv(f)

IInv ==
  /\ Types
  /\ \A f \in File : FileInv(f)
  /\ \A n \in 1 .. MaxTx : SuperInv(n)
  /\ PowerInv /\ NumbersInv /\ CounterInv
  /\ \A c \in Conn : ConnInv(c) /\ ColdInv(c)

-----------------------------------------------------------------------------
(* What it leaves alone of the others.                                     *)
Apart(c) ==
  /\ scenario' = scenario
  /\ \A d \in Conn : d # c =>
       /\ pc'[d] = pc[d] /\ loc'[d] = loc[d] /\ cache'[d] = cache[d]
       /\ \A f \in File : lock'[H(d, f)] = lock[H(d, f)]

(* What it may do to files, journals and super-journals.                   *)
Changes(c) ==
  /\ \A f \in File : ~Res(c, f) => jrnl'[f] = jrnl[f] /\ (IsGone(f)' <=> IsGone(f))
  /\ \A f \in File : ~Exc(c, f) =>
       /\ current'[f] = current[f] /\ db'[f] = db[f] /\ dbDisk'[f] = dbDisk[f]
       /\ Harmless(f) => Harmless(f)'
  /\ \A f \in File : current'[f] = current[f] \/ current'[f][2] = current[f][2] + 1
  /\ \A f \in File, n \in 1 .. MaxTx : Names(f, n)' => Names(f, n) \/ ActiveAs(c, n)
  /\ \A n \in 1 .. MaxTx :
       super'[n] = super[n] \/ ActiveAs(c, n) \/ (super'[n] = Null /\ loc[c].zSuper = n)

(* What becomes of its transaction: it goes on, or it is over.             *)
TxKept(c) ==
  /\ nTx' = nTx /\ loc'[c].v \in {loc[c].v, 0}
  /\ Active(c)' => /\ Active(c) /\ loc'[c].write = loc[c].write /\ loc'[c].v = loc[c].v
                   /\ pc[c] \in Committing => pc'[c] \in Committing
                   /\ pc[c] = "phasetwo" => pc'[c] = "phasetwo"

(* What a step of c has to show of a file it leaves alone.                 *)
Kept(c, g) ==
  /\ jrnl'[g] = jrnl[g] /\ db'[g] = db[g] /\ dbDisk'[g] = dbDisk[g] /\ jrnlDisk'[g] = jrnlDisk[g]
  /\ current'[g] = current[g] /\ durable'[g] = durable[g]
  /\ IsGone(g)' <=> IsGone(g)
  /\ \A j \in jrnlDisk[g] : j # Null /\ j.super # Null =>
       /\ superDisk[j.super] = {Null} => superDisk'[j.super] = {Null}
       /\ \A s \in superDisk'[j.super] : s # Null => s \in superDisk[j.super]
  /\ IsHot(g) /\ Holds(c, g)' => Exc(c, g)' \/ (pc'[c] \in Looking /\ F(c)' = g)
  /\ IsGone(g) /\ pc[c] = "phasetwo" /\ Multi(c) /\ g \in loc[c].todo =>
       Delete \/ (pc'[c] = "phasetwo" /\ Multi(c)' /\ g \in loc'[c].todo)

(* The numbers of transactions that names in journals can be.              *)
Older(c) ==
  /\ nTx' \in Nat /\ nTx <= nTx'
  /\ \A n \in 1 .. MaxTx : ActiveAs(c, n)' /\ n <= nTx =>
       /\ ActiveAs(c, n)
       /\ Multi(c) /\ pc[c] \in Committing => Multi(c)' /\ pc'[c] \in Committing

(* No file changes, and no transaction begins.                             *)
Calm ==
  /\ db' = db /\ jrnl' = jrnl /\ super' = super /\ dbDisk' = dbDisk /\ jrnlDisk' = jrnlDisk
  /\ superDisk' = superDisk /\ current' = current /\ durable' = durable /\ scenario' = scenario
  /\ nTx' = nTx /\ calls' = calls

(* The locks of the other connections stay.                                *)
LocksApart(c) ==
  /\ lock' \in [Handle -> Level] /\ Exclusion'
  /\ \A d \in Conn : d # c => \A f \in File : lock'[H(d, f)] = lock[H(d, f)]

Front == Looking \cup {"next", "hotopen", "version", "reserve", "journal", "exclusive"}

(* Nothing but one file changes, and no transaction begins.                *)
OneFile(f) ==
  /\ super' = super /\ superDisk' = superDisk /\ scenario' = scenario /\ nTx' = nTx /\ calls' = calls /\ nFault' = nFault
  /\ db' \in [File -> Version \cup {Torn}] /\ jrnl' \in [File -> Journal \cup {Null}]
  /\ dbDisk' \in [File -> SUBSET (Version \cup {Torn})] /\ jrnlDisk' \in [File -> SUBSET (Journal \cup {Null})]
  /\ current' \in [File -> Version] /\ durable' \in [File -> Version]
  /\ \A g \in File : g # f =>
       /\ db'[g] = db[g] /\ jrnl'[g] = jrnl[g] /\ dbDisk'[g] = dbDisk[g] /\ jrnlDisk'[g] = jrnlDisk[g]
       /\ current'[g] = current[g] /\ durable'[g] = durable[g]

(* A step goes to a label with the variables l, and may set the page cache *)
(* of the connection.                                                      *)
GoesTo(c, label, l) ==
  /\ l \in Local /\ label \in Labels /\ Goto(c, label, l)
  /\ cache' \in [Conn -> [File -> Version \cup {Null, Torn}]] /\ \A d \in Conn : d # c => cache'[d] = cache[d]

(* What a connection may do to a file that it has locked.                  *)
OwnFile(c, f) ==
  /\ Res(c, f) /\ ImageInv(f)'
  /\ \/ Exc(c, f)
     \/ /\ current'[f] = current[f] /\ db'[f] = db[f] /\ dbDisk'[f] = dbDisk[f] /\ ~IsHot(f)'
        /\ Harmless(f) => Harmless(f)'
  /\ IsHot(f)' /\ Holds(c, f)' => Exc(c, f)'
  /\ IsGone(f)' => jrnl'[f].hot /\ Delete
  /\ \/ current'[f] = current[f]
     \/ /\ current'[f][2] = current[f][2] + 1
        /\ current'[f][2] + Cardinality(Pending(f)') <= nTx'
  /\ durable'[f] \in {durable[f], current[f], current'[f]}
  /\ \A n \in 1 .. MaxTx : Names(f, n)' => Names(f, n) \/ ActiveAs(c, n)

(* The names in a journal after a step.                                    *)
OwnNames(c, f) ==
  \A j \in jrnlDisk'[f] : j # Null /\ j.super # Null =>
    \/ \E i \in jrnlDisk[f] : i # Null /\ i.super = j.super
    \/ ActiveAs(c, j.super) /\ Multi(c)' /\ pc'[c] \in Committing /\ \A s \in superDisk[j.super] : f \in s

(* Before the loss of power, the journals of the other files are still     *)
(* those of the transaction.                                               *)
PowerSafe(c, f, label, l) ==
  PowerAhead => /\ l.zSuper = Null /\ PowerFile(f)'
                /\ \A g \in File : g # f /\ g \in loc[c].opened /\ pc[c] \in Committing =>
                     label \in Committing /\ g \in l.opened

(* The journal that pager_end_transaction leaves.                          *)
Ends(c, f, hasSuper, journalOff, j) ==
  \/ j = Null /\ Env.mode[c] = "delete"
  \/ j = jrnl[f] /\ ~journalOff /\ Env.mode[c] # "delete"
  \/ j # Null /\ ~j.hot /\ (j.super = Null \/ (~hasSuper /\ j.super = jrnl[f].super))

(* What pager_end_transaction does to the journal and to the lock.         *)
Ended(c, f, hasSuper, journalOff) ==
  /\ jrnl' \in [File -> Journal \cup {Null}] /\ (\A g \in File : g # f => jrnl'[g] = jrnl[g])
  /\ jrnlDisk' \in [File -> SUBSET (Journal \cup {Null})] /\ (\A g \in File : g # f => jrnlDisk'[g] = jrnlDisk[g])
  /\ jrnl'[f] \in jrnlDisk'[f]
  /\ IF Env.mode[c] = "delete" /\ ~Env.extraSync THEN jrnlDisk'[f] = jrnlDisk[f] \cup {jrnl'[f]}
     ELSE jrnlDisk'[f] = {jrnl'[f]}
  /\ Ends(c, f, hasSuper, journalOff, jrnl'[f])
  /\ LocksApart(c) /\ ~Res(c, f)' /\ Holds(c, f)'
  /\ \A g \in File : g # f => lock'[H(c, g)] = lock[H(c, g)]

(* Nothing but one super-journal and the connection changes.               *)
OneSuper(n) ==
  /\ db' = db /\ jrnl' = jrnl /\ dbDisk' = dbDisk /\ jrnlDisk' = jrnlDisk /\ lock' = lock /\ cache' = cache
  /\ scenario' = scenario /\ nTx' = nTx /\ calls' = calls
  /\ \A m \in 1 .. MaxTx : m # n => super'[m] = super[m] /\ superDisk'[m] = superDisk[m]
  /\ super' \in [1 .. MaxTx -> (SUBSET File) \cup {Null}]
  /\ superDisk' \in [1 .. MaxTx -> SUBSET ((SUBSET File) \cup {Null})]
  /\ SuperInv(n)'

(* What is so of the file after each step of the first phase.              *)
Advances(c, f, label) ==
  /\ label \in {"phaseone", "deletesuper", "phasetwo"} => Done(c, f)'
  /\ (label = "deletesuper" => Multi(c)) /\ (label = "phasetwo" => ~Multi(c))
  /\ label = "syncjournal" /\ Multi(c) => jrnl'[f].super = loc[c].v
  /\ label \in {"writelist", "syncdb"} => jrnl'[f].hot /\ (Multi(c) => jrnl'[f].super = loc[c].v)
  /\ label = "syncdb" => cache'[c][f] = NewVersion(c, f)'

(* The files it writes stay, and it goes through those to come.            *)
SameCommit(c, f, label, l) ==
  /\ l.write = loc[c].write /\ l.opened = loc[c].opened /\ l.open = loc[c].open /\ l.v = loc[c].v
  /\ ~l.isHot /\ l.zSuper = Null
  /\ label \in PhaseOne => l.todo = loc[c].todo \ {f}
  /\ label \in PhaseOne \ {"phaseone"} => l.f = f
  /\ label \in {"deletesuper", "phasetwo"} => loc[c].todo \ {f} = {}
  /\ label = "phasetwo" => l.todo = loc[c].write

(* Where the second phase goes on.                                         *)
Leaves(c, f, label, l) ==
  /\ Goto(c, label, l) /\ l.todo = loc[c].todo \ {f} /\ l.opened = loc[c].todo \ {f} /\ l.open = loc[c].open
  /\ l.v = loc[c].v /\ ~l.isHot /\ l.zSuper = Null
  /\ IF label = "next" THEN l.todo = {} /\ l.write = {} ELSE l.todo # {} /\ l.write = loc[c].write

(* The step that removes the name of the super-journal of a commit: all    *)
(* files of the transaction take their new version in it.  The directory   *)
(* is synced or, if that fails, may still have the name.                   *)
CommitsAll(c, label, l) ==
  /\ super' = [super EXCEPT ![loc[c].v] = Null]
  /\ IF label = "phasetwo" THEN superDisk' = [superDisk EXCEPT ![loc[c].v] = {Null}] /\ nFault' = nFault
     ELSE /\ superDisk' = [superDisk EXCEPT ![loc[c].v] = @ \cup {Null}] /\ durable' = durable
          /\ Delete /\ ~PowerAhead'
  /\ current' = Committed(loc[c].write) /\ durable' \in [File -> Version] /\ nFault' \in Nat
  /\ \A f \in File : durable'[f] = durable[f] \/ (f \in loc[c].write /\ durable'[f] = db[f])
  /\ Goto(c, label, l) /\ label \in {"phasetwo", "rollback"}
  /\ l \in Local /\ l.todo = loc[c].write /\ l.opened = loc[c].write /\ l.write = loc[c].write /\ l.open = loc[c].open
  /\ l.v = loc[c].v /\ ~l.isHot /\ l.zSuper = Null
  /\ lock' = lock /\ cache' = cache /\ db' = db /\ jrnl' = jrnl /\ dbDisk' = dbDisk /\ jrnlDisk' = jrnlDisk
  /\ scenario' = scenario /\ nTx' = nTx /\ calls' = calls
===============================================================================
