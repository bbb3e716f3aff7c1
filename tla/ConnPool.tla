------------------------------ MODULE ConnPool ------------------------------
(***************************************************************************)
(* What a rule's max_conns promises: the clients that are forwarded at one *)
(* moment are never more than the limit, and a client enters or leaves     *)
(* alone.  ConnLimit is shown to implement this specification.             *)
(***************************************************************************)
EXTENDS Naturals, FiniteSets

CONSTANTS Conns,     \* client connections
          MaxConns   \* 0: no limit

VARIABLE forwarded   \* the connections being forwarded

Init == forwarded = {}

Enter(c) ==
    /\ c \notin forwarded
    /\ MaxConns > 0 => Cardinality(forwarded) < MaxConns
    /\ forwarded' = forwarded \cup {c}

Leave(c) ==
    /\ c \in forwarded
    /\ forwarded' = forwarded \ {c}

Next == \E c \in Conns : Enter(c) \/ Leave(c)

Spec == Init /\ [][Next]_forwarded
=============================================================================
