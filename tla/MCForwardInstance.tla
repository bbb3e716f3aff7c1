------------------------- MODULE MCForwardInstance -------------------------
(* Values of ForwardInstance's constants for TLC.                          *)
EXTENDS ForwardInstance

CONSTANTS a1, b1, b2, x

(* The b clients arrive on "tcp6", the others on "tcp"; the ACL refuses x. *)
MCNetOf == [c \in Conns |-> IF c \in {b1, b2} THEN "tcp6" ELSE "tcp"]
=============================================================================
