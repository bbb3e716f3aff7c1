-------------------------- MODULE WebhookDispatcher --------------------------
(***************************************************************************)
(* Webhook deliveries and their end at shutdown                            *)
(*   internal/service/webhook.go   WebhookDispatcher                       *)
(*   internal/service/notifier.go  Bus.Publish                             *)
(*   cmd/netberth/main.go          signal, Shutdown, the deferred Stop     *)
(*                                                                         *)
(* A request handler publishes its event in its own goroutine: dispatch    *)
(* reads the endpoints and offers the event to each that wants it.  An     *)
(* offer takes a place in the semaphore and starts a delivery goroutine,   *)
(* or drops the event when no place is free.  A delivery sends up to       *)
(* MaxAttempts times, gives its place back and then signs off from the     *)
(* wait group.  At shutdown main waits (ten seconds) for the handlers and  *)
(* then, in a deferred call, for the wait group; when the handlers take    *)
(* longer it exits at once, deferred calls and all.                        *)
(*                                                                         *)
(* Abstracted: payload, signature, the pauses between attempts.  An event  *)
(* is published once; an endpoint is enabled or not when it is read.       *)
(***************************************************************************)
EXTENDS Naturals, FiniteSets

CONSTANTS
    Events,       \* events, one request handler each
    Endpoints,    \* rows of webhook_endpoints
    Matching,     \* the <<event, endpoint>> pairs webhookMatches is true of
    QueueSize,    \* webhookQueueSize
    MaxAttempts   \* webhookMaxAttempts

Jobs == Events \X Endpoints

ASSUME WebhookAssumption ==
    /\ IsFiniteSet(Jobs)
    /\ Matching \subseteq Jobs
    /\ QueueSize \in Nat \ {0}
    /\ MaxAttempts \in Nat \ {0}

VARIABLES
    handler,   \* event -> its request handler
    todo,      \* event -> endpoints dispatch still has to look at
    job,       \* <<event, endpoint>> -> its delivery
    attempt,   \* <<event, endpoint>> -> the attempt under way
    sem,       \* places taken in the semaphore
    wg,        \* the wait group's counter
    process    \* "serving", "draining", "waiting", "exited" or "killed"

webhookVars == <<handler, todo, job, attempt, sem, wg, process>>

(* "sent": the request is under way.  "over": the loop of sendWithRetry    *)
(* ended.  "released": its place is free again.  "done": it signed off.    *)
JobStates == {"none", "dropped", "sent", "over", "released", "done"}

WebhookTypeOK ==
    /\ handler \in [Events -> {"idle", "publish", "offer", "done"}]
    /\ todo \in [Events -> SUBSET Endpoints]
    /\ job \in [Jobs -> JobStates]
    /\ attempt \in [Jobs -> Nat]
    /\ sem \in Nat
    /\ wg \in Nat
    /\ process \in {"serving", "draining", "waiting", "exited", "killed"}

WebhookInit ==
    /\ handler = [e \in Events |-> "idle"]
    /\ todo = [e \in Events |-> {}]
    /\ job = [j \in Jobs |-> "none"]
    /\ attempt = [j \in Jobs |-> 0]
    /\ sem = 0
    /\ wg = 0
    /\ process = "serving"

Alive == process \notin {"exited", "killed"}

-----------------------------------------------------------------------------
(* Request handlers: Bus.Publish, dispatch *)

(* A request changed a resource and publishes its event.                   *)
Publish(e) ==
    /\ process = "serving"
    /\ handler[e] = "idle"
    /\ handler' = [handler EXCEPT ![e] = "publish"]
    /\ UNCHANGED <<todo, job, attempt, sem, wg, process>>

(* loadEndpoints: those that are enabled now and want e; an error ends the *)
(* dispatch as if there were none.                                         *)
LoadEndpoints(e) ==
    /\ Alive
    /\ handler[e] = "publish"
    /\ \E wanted \in SUBSET {p \in Endpoints : <<e, p>> \in Matching} :
           todo' = [todo EXCEPT ![e] = wanted]
    /\ handler' = [handler EXCEPT ![e] = "offer"]
    /\ UNCHANGED <<job, attempt, sem, wg, process>>

(* Mutant: the goroutine signs on itself, once it runs.                    *)
OfferAddsLate(e, p) ==
    /\ Alive
    /\ handler[e] = "offer"
    /\ p \in todo[e]
    /\ todo' = [todo EXCEPT ![e] = @ \ {p}]
    /\ IF sem < QueueSize
       THEN /\ job' = [job EXCEPT ![<<e, p>>] = "sent"]
            /\ attempt' = [attempt EXCEPT ![<<e, p>>] = 1]
            /\ sem' = sem + 1
       ELSE /\ job' = [job EXCEPT ![<<e, p>>] = "dropped"]
            /\ UNCHANGED <<attempt, sem>>
    /\ UNCHANGED <<handler, wg, process>>

(* Mutant: a place is taken even when all are taken.                       *)
OfferAlways(e, p) ==
    /\ Alive
    /\ handler[e] = "offer"
    /\ p \in todo[e]
    /\ todo' = [todo EXCEPT ![e] = @ \ {p}]
    /\ job' = [job EXCEPT ![<<e, p>>] = "sent"]
    /\ attempt' = [attempt EXCEPT ![<<e, p>>] = 1]
    /\ sem' = sem + 1
    /\ wg' = wg + 1
    /\ UNCHANGED <<handler, process>>

(* Mutant: a dropped event is not signed off again.                        *)
OfferKeepsCount(e, p) ==
    /\ Alive
    /\ handler[e] = "offer"
    /\ p \in todo[e]
    /\ todo' = [todo EXCEPT ![e] = @ \ {p}]
    /\ IF sem < QueueSize
       THEN /\ job' = [job EXCEPT ![<<e, p>>] = "sent"]
            /\ attempt' = [attempt EXCEPT ![<<e, p>>] = 1]
            /\ sem' = sem + 1
       ELSE /\ job' = [job EXCEPT ![<<e, p>>] = "dropped"]
            /\ UNCHANGED <<attempt, sem>>
    /\ wg' = wg + 1
    /\ UNCHANGED <<handler, process>>

(* One turn of dispatch's loop: wg.Add(1), then the select.  (What is      *)
(* dropped signs off at once.)                                             *)
Offer(e, p) ==
    /\ Alive
    /\ handler[e] = "offer"
    /\ p \in todo[e]
    /\ todo' = [todo EXCEPT ![e] = @ \ {p}]
    /\ IF sem < QueueSize
       THEN /\ job' = [job EXCEPT ![<<e, p>>] = "sent"]
            /\ attempt' = [attempt EXCEPT ![<<e, p>>] = 1]
            /\ sem' = sem + 1
            /\ wg' = wg + 1
       ELSE /\ job' = [job EXCEPT ![<<e, p>>] = "dropped"]
            /\ UNCHANGED <<attempt, sem, wg>>
    /\ UNCHANGED <<handler, process>>

(* dispatch returns, and with it the request.                              *)
Published(e) ==
    /\ Alive
    /\ handler[e] = "offer"
    /\ todo[e] = {}
    /\ handler' = [handler EXCEPT ![e] = "done"]
    /\ UNCHANGED <<todo, job, attempt, sem, wg, process>>

-----------------------------------------------------------------------------
(* Delivery goroutines: sendWithRetry *)

(* A failed attempt: another one, or the loop ends.                        *)
NextAttempt(j) ==
    IF attempt[j] < MaxAttempts
    THEN /\ attempt' = [attempt EXCEPT ![j] = @ + 1]
         /\ UNCHANGED job
    ELSE /\ job' = [job EXCEPT ![j] = "over"]
         /\ UNCHANGED attempt

(* send: the endpoint answers 2xx ...                                      *)
Deliver(j) ==
    /\ Alive
    /\ job[j] = "sent"
    /\ job' = [job EXCEPT ![j] = "over"]
    /\ UNCHANGED <<handler, todo, attempt, sem, wg, process>>

(* ... or otherwise or too late, or it never gets the request.             *)
SendFails(j) ==
    /\ Alive
    /\ job[j] = "sent"
    /\ NextAttempt(j)
    /\ UNCHANGED <<handler, todo, sem, wg, process>>

(* Mutant: the deferred d.sem <- struct{}{} takes one more place.          *)
ReleaseTakes(j) ==
    /\ Alive
    /\ job[j] = "over"
    /\ sem < QueueSize
    /\ job' = [job EXCEPT ![j] = "released"]
    /\ sem' = sem + 1
    /\ UNCHANGED <<handler, todo, attempt, wg, process>>

(* defer func() { <-d.sem }() runs first ...                               *)
Release(j) ==
    /\ Alive
    /\ job[j] = "over"
    /\ job' = [job EXCEPT ![j] = "released"]
    /\ sem' = sem - 1
    /\ UNCHANGED <<handler, todo, attempt, wg, process>>

(* ... and defer d.wg.Done() last.                                         *)
SignOff(j) ==
    /\ Alive
    /\ job[j] = "released"
    /\ job' = [job EXCEPT ![j] = "done"]
    /\ wg' = wg - 1
    /\ UNCHANGED <<handler, todo, attempt, sem, process>>

-----------------------------------------------------------------------------
(* main *)

(* A signal: srv.Shutdown refuses new requests.                            *)
Drain ==
    /\ process = "serving"
    /\ process' = "draining"
    /\ UNCHANGED <<handler, todo, job, attempt, sem, wg>>

(* Shutdown returns: no handler is left.  The deferred Stop waits.         *)
Drained ==
    /\ process = "draining"
    /\ \A e \in Events : handler[e] \in {"idle", "done"}
    /\ process' = "waiting"
    /\ UNCHANGED <<handler, todo, job, attempt, sem, wg>>

(* Ten seconds pass first: Fatal ends the process.                         *)
ForcedShutdown ==
    /\ process = "draining"
    /\ \E e \in Events : handler[e] \notin {"idle", "done"}
    /\ process' = "killed"
    /\ UNCHANGED <<handler, todo, job, attempt, sem, wg>>

(* d.wg.Wait() returns.                                                    *)
Waited ==
    /\ process = "waiting"
    /\ wg = 0
    /\ process' = "exited"
    /\ UNCHANGED <<handler, todo, job, attempt, sem, wg>>

-----------------------------------------------------------------------------
Dispatch(e) ==
    LoadEndpoints(e) \/ (\E p \in Endpoints : Offer(e, p)) \/ Published(e)

Delivery(j) ==
    \/ Deliver(j) \/ SendFails(j) \/ Release(j) \/ SignOff(j)

Shutdown == Drained \/ ForcedShutdown \/ Waited

WebhookNext ==
    \/ \E e \in Events : Publish(e) \/ Dispatch(e)
    \/ \E j \in Jobs : Delivery(j)
    \/ Drain \/ Shutdown

WebhookSpec == WebhookInit /\ [][WebhookNext]_webhookVars

(* Goroutines run, every send ends within webhookTimeout, main goes on.    *)
WebhookFairness ==
    /\ \A e \in Events : WF_webhookVars(Dispatch(e))
    /\ \A j \in Jobs : WF_webhookVars(Delivery(j))
    /\ WF_webhookVars(Shutdown)

-----------------------------------------------------------------------------
(* Properties *)

InFlight == {j \in Jobs : job[j] \in {"sent", "over"}}

(* "Bounded concurrency": however many handlers publish at once, at most   *)
(* QueueSize deliveries run, and no path of a delivery leaks its place.    *)
BoundedConcurrency ==
    Cardinality(InFlight) = sem /\ Cardinality(InFlight) <= QueueSize

(* "Stop waits for in-flight deliveries": a process that was not forced    *)
(* out leaves no delivery behind, although deliveries sign on while others *)
(* sign off and main begins to wait only after the last handler.           *)
GracefulStopLeavesNothing ==
    process = "exited" => \A j \in Jobs : job[j] \in {"none", "dropped", "done"}

(* A delivery that was accepted comes to its end, unless forced out.       *)
DeliveriesEnd ==
    \A j \in Jobs : job[j] = "sent" ~> job[j] = "done" \/ process = "killed"

(* Stop returns, and the process with it: every wg.Add has its Done, for   *)
(* what was dropped at a full queue as for what was delivered or given up. *)
StopReturns == process = "waiting" ~> process = "exited"
=============================================================================
