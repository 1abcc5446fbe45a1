----------------------------- MODULE MCSnapshot -----------------------------
(* Snapshot for TLC: which call runs in which process.                     *)
EXTENDS Snapshot, TLC

CONSTANTS c1, c2, c3, o1, o2

OneProcess == c1 :> o1
TwoProcesses == c1 :> o1 @@ c2 :> o2
SharedAndOwn == c1 :> o1 @@ c2 :> o1 @@ c3 :> o2
=============================================================================
