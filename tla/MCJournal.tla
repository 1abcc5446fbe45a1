----------------------------- MODULE MCJournal -----------------------------
(* Journal for TLC: shapes are interchangeable.                            *)
EXTENDS Journal, TLC

Symmetry == Permutations(Shapes) \cup Permutations(Tables)
=============================================================================
