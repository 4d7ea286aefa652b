---------------------------- MODULE MCSuperJournal ----------------------------
(***************************************************************************)
(* Instances of SuperJournal: two connections, each a process of its own,  *)
(* and two files.                                                          *)
(***************************************************************************)
EXTENDS SuperJournal, TLC

CONSTANTS c1, c2, a, b

Handles == Conn \X File
OnSameFile == [h \in Handles |-> {g \in Handles : g[2] = h[2] /\ g # h}]

Tx(R, W) == [read |-> R, write |-> W]
Modes(m1, m2) == c1 :> m1 @@ c2 :> m2
(* The connections have the files attached in different orders.           *)
Indices == c1 :> (a :> 0 @@ b :> 1) @@ c2 :> (b :> 0 @@ a :> 1)

Both == Tx({}, {a, b})
WriteB == Tx({b}, {b})
ReadAll == Tx({a, b}, {})

(* Both connections use journal_mode=DELETE.                               *)
Crashing(other, fault, extra) ==
  [tx |-> c1 :> {Both} @@ c2 :> other, mode |-> Modes("delete", "delete"),
   attached |-> Indices, extraSync |-> extra, fault |-> fault, maxCall |-> c1 :> 1 @@ c2 :> 2, maxFault |-> 1]

(* Journals stay after a transaction.                                      *)
Staying(m1, m2, other, fault) ==
  [tx |-> c1 :> {Both} @@ c2 :> other, mode |-> Modes(m1, m2),
   attached |-> Indices, extraSync |-> FALSE, fault |-> fault, maxCall |-> c1 :> 1 @@ c2 :> 2, maxFault |-> 1]

Short(e) == [e EXCEPT !.maxCall = c1 :> 1 @@ c2 :> 1]

Recoverable ==
  "killed" :> Crashing({Both, ReadAll}, {"kill"}, FALSE)
  @@ "failing" :> Crashing({WriteB, ReadAll}, {"killPhaseTwo", "ioerr"}, FALSE)
  @@ "both" :> Short(Crashing({Both, ReadAll}, {"killPhaseTwo", "ioerr", "power"}, FALSE))
  @@ "power" :> Crashing({WriteB, ReadAll}, {"power"}, FALSE)
  @@ "extra" :> Crashing({WriteB, ReadAll}, {"power"}, TRUE)
  @@ "persist" :> Staying("persist", "truncate", {WriteB}, {"kill"})
  @@ "stay" :> Short(Staying("truncate", "persist", {Both, WriteB}, {"kill"}))

(* A process dies after it has deleted its super-journal.                  *)
LeftBehind == "persist" :> Staying("delete", "persist", {Both, WriteB}, {"kill", "killPhaseTwo"})
===============================================================================
