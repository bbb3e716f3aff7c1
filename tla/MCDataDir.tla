------------------------------ MODULE MCDataDir ------------------------------
(* DataDir on a small instance; files and requests are interchangeable.    *)
EXTENDS DataDir, TLC

Symmetry == Permutations(Files) \cup Permutations(Restorers)
=============================================================================
