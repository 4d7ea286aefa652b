------------------------------- MODULE MCWal -------------------------------
(* The write-ahead log for TLC: r reads, w writes, k checkpoints.          *)
EXTENDS Wal, TLC

CONSTANTS r, w, k

(* Transactions over two pages: one page, both, some that grow or shrink   *)
(* the database, and some that spill a page.                               *)
Commits == {<<{1}, 2>>, <<{1, 2}, 2>>}
Resizes == {<<{1}, 1>>, <<{1, 2}, 2>>}
Spills == {<<{2}, 0>>, <<{1}, 2>>, <<{1, 2}, 2>>}

(* A reader, a writer and a checkpointer that never fail.  Calls count the *)
(* open, and after a death the open again.                                 *)
Plain == [reader |-> {r}, writer |-> {w}, checkpointer |-> {k}, mode |-> {"passive"},
          fullSync |-> TRUE, fault |-> {}, tx |-> Commits,
          maxCall |-> (r :> 2 @@ w :> 3 @@ k :> 2), maxVal |-> 2,
          maxFrame |-> 2, maxSalt |-> 2, maxFault |-> 0]
(* k reads as well as it checkpoints, and there is one fault.              *)
Pair == [Plain EXCEPT !.reader = {k}, !.maxSalt = 3, !.maxFault = 1]
Die == [Pair EXCEPT !.fault = {"kill"}, !.maxCall = (r :> 0 @@ w :> 4 @@ k :> 3)]
Dark == [Pair EXCEPT !.fault = {"power"}, !.maxCall = (r :> 0 @@ w :> 3 @@ k :> 3)]
DarkNormal == [Dark EXCEPT !.fullSync = FALSE, !.maxCall = (r :> 0 @@ w :> 3 @@ k :> 4), !.maxVal = 3]
Modes == [Pair EXCEPT !.fault = {"ioerr"}, !.mode = {"full", "restart", "truncate"},
                      !.tx = Resizes, !.maxCall = (r :> 0 @@ w :> 3 @@ k :> 3)]
Spill == [Pair EXCEPT !.fault = {"kill"}, !.tx = Spills,
                      !.maxCall = (r :> 0 @@ w :> 3 @@ k :> 2), !.maxVal = 3, !.maxFrame = 4]
SpillFails == [Spill EXCEPT !.fault = {"ioerr"}, !.tx = {<<{2}, 0>>, <<{1}, 2>>}, !.maxFrame = 3]

(* One transaction between two checkpoints.                                *)
Twice == [Plain EXCEPT !.maxCall = (r :> 2 @@ w :> 2 @@ k :> 3)]

Concurrent == [plain |-> Plain, twice |-> Twice, die |-> Die]
Faults == [dark |-> Dark, normal |-> DarkNormal, modes |-> Modes,
           spill |-> Spill, fails |-> SpillFails]
=============================================================================
