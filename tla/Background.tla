------------------------------ MODULE Background ------------------------------
(***************************************************************************)
(* The goroutines that work beside the forwarding of ports: the webhook    *)
(* deliveries, the status hub with its dashboards, the orders of           *)
(* certificates, and the pool of database connections under all of them.   *)
(*                                                                         *)
(* Their variables are disjoint, so one of them at a time is looked at     *)
(* while the others rest.                                                  *)
(***************************************************************************)
EXTENDS DbPool, WebhookDispatcher, StatusHub, AcmeEngine

VARIABLE part    \* the one that is looked at

vars == <<part, poolVars, webhookVars, hubVars, acmeVars>>

Init ==
    /\ part \in {"pool", "webhooks", "hub", "certificates"}
    /\ PoolInit
    /\ WebhookInit
    /\ HubInit
    /\ AcmeInit
    /\ part # "hub" => running = "empty"

Pools(step) ==
    /\ part = "pool" /\ step
    /\ UNCHANGED <<part, webhookVars, hubVars, acmeVars>>

Webhooks(step) ==
    /\ part = "webhooks" /\ step
    /\ UNCHANGED <<part, poolVars, hubVars, acmeVars>>

Hub(step) ==
    /\ part = "hub" /\ step
    /\ UNCHANGED <<part, poolVars, webhookVars, acmeVars>>

Certificates(step) ==
    /\ part = "certificates" /\ step
    /\ UNCHANGED <<part, poolVars, webhookVars, hubVars>>

Next ==
    \/ Pools(PoolNext) \/ Webhooks(WebhookNext) \/ Hub(HubNext)
    \/ Certificates(AcmeNext)

(* The fairness of each module.  The hub's goroutines run; a page that is  *)
(* not stalled takes up what has arrived, also if it stalls again and      *)
(* again, and nothing ends a stall.  An order ends, whatever its steps run *)
(* into: every call to the authority has a timeout; and the ticker ticks.  *)
Fairness ==
    /\ \A g \in Goroutines : WF_vars(Pools(Work(g))) /\ SF_vars(Pools(Get(g)))
    /\ \A e \in Events : WF_vars(Webhooks(Dispatch(e)))
    /\ \A j \in Jobs : WF_vars(Webhooks(Delivery(j)))
    /\ WF_vars(Webhooks(Shutdown))
    /\ WF_vars(Hub(StartRound)) /\ WF_vars(Hub(EndRound))
    /\ \A v \in Visits :
          /\ WF_vars(Hub(Register(v))) /\ WF_vars(Hub(Unregister(v)))
          /\ WF_vars(Hub(ReadError(v))) /\ WF_vars(Hub(WriteStatus(v)))
          /\ SF_vars(Hub(onmessage(v)))
    /\ WF_vars(Certificates(Tick))
    /\ \A c \in Certs : WF_vars(Certificates(Order(c)))

Spec == Init /\ [][Next]_vars /\ Fairness
=============================================================================
