----------------------------- MODULE MCBackground -----------------------------
(* Values of Background's constants for TLC.                               *)
EXTENDS Background

CONSTANTS e1, e2, p1, p2

(* p1 wants every event, p2 only the first.                                *)
MCMatching == {<<e1, p1>>, <<e1, p2>>, <<e2, p1>>}
=============================================================================
