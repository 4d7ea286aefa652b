----------------------------- MODULE MCUnixLock -----------------------------
(* A process with two handles on the file, and another with one.           *)
EXTENDS UnixLock, TLC

CONSTANTS p1, p2, f1, f2, f3

TwoOne == (f1 :> p1 @@ f2 :> p1 @@ f3 :> p2)
=============================================================================
