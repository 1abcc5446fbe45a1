------------------------------ MODULE MCRunner ------------------------------
(* Runner for TLC: processes are interchangeable in the safety runs.       *)
EXTENDS Runner, TLC

Symmetry == Permutations(Procs)
=============================================================================
