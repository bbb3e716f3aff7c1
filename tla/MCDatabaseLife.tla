---------------------------- MODULE MCDatabaseLife ----------------------------
(* DatabaseLife on a small instance; files and requests are interchangeable. *)
EXTENDS DatabaseLife, TLC

Symmetry == Permutations(Files) \cup Permutations(Restorers)
=============================================================================
