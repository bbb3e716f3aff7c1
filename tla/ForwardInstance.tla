--------------------------- MODULE ForwardInstance ---------------------------
(***************************************************************************)
(* One instance of a forward rule (internal/engine/forward/forward.go:     *)
(* startRule, networks, listen).                                           *)
(*                                                                         *)
(* The rule's protocol decides which listener goroutines startRule spawns: *)
(* accept loops (ConnLimit) or datagram loops with their session map       *)
(* (UDPSessions).  The two share nothing but the instance's context, so an *)
(* instance of protocol "both" is one of each side by side.                *)
(***************************************************************************)
EXTENDS ConnLimit, UDPSessions

CONSTANT Protocols   \* the values of forward_rules.protocol considered

ASSUME InstanceAssumption == Protocols \subseteq {"tcp", "udp", "both"}

VARIABLE protocol    \* rule.Protocol

Init ==
    /\ protocol \in Protocols
    /\ ConnInit
    /\ UDPInit

(* networks: the goroutines of a protocol that was not asked for are never *)
(* started.                                                                *)
TCP(step) ==
    /\ protocol \in {"tcp", "both"}
    /\ step
    /\ UNCHANGED <<protocol, udpVars>>

UDP(step) ==
    /\ protocol \in {"udp", "both"}
    /\ step
    /\ UNCHANGED <<protocol, connVars>>

Next == TCP(ConnNext) \/ UDP(UDPNext)

vars == <<protocol, connVars, udpVars>>

(* The fairness of ConnLimit and of UDPSessions, for the goroutines there  *)
(* are.                                                                    *)
Fairness ==
    /\ \A n \in Nets :
          WF_vars(TCP(AcceptLoop(n))) /\ WF_vars(TCP(CloseListener(n)))
    /\ \A c \in Conns : WF_vars(TCP(handleTCP(c)))
    /\ \A l \in Listeners : WF_vars(UDP(handleUDP(l)))
    /\ \A s \in Cells : WF_vars(UDP(Reader(s))) /\ WF_vars(UDP(Collect(s)))
    /\ WF_vars(UDP(map = "open" /\ Clean)) /\ WF_vars(UDP(Close)) /\ WF_vars(UDP(Tick))

FairSpec == Init /\ [][Next]_vars /\ Fairness
=============================================================================
