--------------------------- MODULE ForwardService ---------------------------
(***************************************************************************)
(* What the port-forwarding engine promises to the rest of NetBerth,       *)
(* without instances, locks, snapshots or sockets.  A configuration is in  *)
(* charge of its rule from its start until its context is cancelled (the   *)
(* sockets close a little later).  At most one configuration is in charge  *)
(* of a rule, one rule is switched at a time, nothing is in charge twice   *)
(* during a switch, and a stop, or the death of the process, ends all of   *)
(* them at once.  A switch may still follow a stop: requests are drained   *)
(* after it.                                                               *)
(*                                                                         *)
(* ForwardEngine is shown to implement this specification.                 *)
(***************************************************************************)
CONSTANTS Rules,    \* the ids of forward rules
          Configs   \* the configurations a rule can be served under

VARIABLE active     \* active[r]: the configurations in charge of rule r

TypeOK == active \in [Rules -> SUBSET Configs]

Init == active = [r \in Rules |-> {}]

(* Put c in charge of r, in place of whatever was.                         *)
Install(r, c) == active' = [active EXCEPT ![r] = {c}]

(* Nothing is in charge of r any more.                                     *)
Uninstall(r) == active' = [active EXCEPT ![r] = {}]

(* Engine.Stop, or the process is gone.                                    *)
StopAll == active' = [r \in Rules |-> {}]

Next ==
    \/ \E r \in Rules, c \in Configs : Install(r, c)
    \/ \E r \in Rules : Uninstall(r)
    \/ StopAll

Spec == Init /\ [][Next]_active
=============================================================================
