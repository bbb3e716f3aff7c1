------------------------------- MODULE MCWebUI -------------------------------
(* Symmetry of WebUI's constants for TLC.  Every property is a safety      *)
(* property; calls in flight, tabs and people are interchangeable.         *)
EXTENDS WebUI, TLC

Symmetry == Permutations(Calls) \cup Permutations(Tabs) \cup Permutations(People)
=============================================================================
