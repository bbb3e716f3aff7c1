--------------------------- MODULE MCForwardEngine ---------------------------
(* Values of ForwardEngine's constants for TLC.                            *)
EXTENDS ForwardEngine, TLC

MCPorts1 == {1}
MCPorts == 1..2

(* Every address can be bound.                                             *)
MCBindAll == {}

(* "tcp6" on an IPv4 literal: the second listener never binds.             *)
MCNoV6 == {"tcp6"} \X Ports

(* Slots are allocated by CHOOSE, so they are not symmetric.               *)
MCSymmetry == Permutations(Rules) \cup Permutations(Handlers) \cup Permutations(Ports)
=============================================================================
