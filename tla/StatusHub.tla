------------------------------ MODULE StatusHub -----------------------------
(***************************************************************************)
(* The status hub and the dashboards it feeds                              *)
(*   internal/api/websocket/hub.go   HandleWS, readLoop, Broadcast         *)
(*   web/src/pages/Dashboard.tsx     the socket, the polls, the cards      *)
(*                                                                         *)
(* One goroutine writes the status to every registered connection under    *)
(* the read lock, to one connection after the other in the map's order; a  *)
(* connection is registered and removed under the write lock, and removed  *)
(* by its own readLoop only.  A write has no deadline: one to a peer that  *)
(* takes nothing up waits, and with it the round, the connections behind   *)
(* it and everyone who wants the write lock.                               *)
(* A dashboard opens one socket when it is mounted and never another;      *)
(* beside it, it polls two endpoints.                                      *)
(*                                                                         *)
(* Abstracted: a visit is one mounting of the page; one that is over and   *)
(* gone on both sides stands for the next.  A status message is whether    *)
(* the forward engine runs a rule; its other fields are always there.      *)
(***************************************************************************)
EXTENDS Naturals, FiniteSets, Sequences

CONSTANTS
    Visits,
    Room       \* messages a connection's buffers hold

ASSUME HubAssumption == Room \in Nat \ {0}

VARIABLES
    running,   \* what the forward engine has to report
    clients,   \* h.clients
    round,     \* broadcastOnce: no, waiting for the read lock, or writing
    msg,       \* the message of this round
    pending,   \* the connections this round has still to write to, in order
    queue,     \* the goroutines that wait in h.mu.Lock
    loop,      \* visit -> the server's goroutine, from Upgrade on
    socket,    \* visit -> the connection; broken: lost, closed or none
    buffer,    \* visit -> messages written and not read
    here,      \* visit -> the page is mounted
    stalled,   \* pages that take up nothing: suspended, or cut off unnoticed
    connected, \* visit -> wsConnected
    status     \* visit -> wsStatus: none yet, or what it said of the rules

lockVars == <<clients, round, msg, pending, queue>>
wireVars == <<loop, socket, buffer>>
boardVars == <<here, stalled, connected, status>>
hubVars == <<running, lockVars, wireVars, boardVars>>

(* forward: the rules that run, or no rule.                                *)
Reports == {"rules", "empty"}

HubTypeOK ==
    /\ running \in Reports
    /\ clients \subseteq Visits
    /\ round \in {"no", "waiting", "writing"}
    /\ msg \in {"none"} \cup Reports
    /\ pending \in Seq(clients)
    /\ queue \in Seq(Visits)
    /\ loop \in [Visits -> {"none", "joining", "reading", "leaving"}]
    /\ socket \in [Visits -> {"connecting", "up", "broken"}]
    /\ \A v \in Visits : buffer[v] \in Seq(Reports) /\ Len(buffer[v]) <= Room
    /\ here \in [Visits -> BOOLEAN]
    /\ stalled \subseteq Visits
    /\ connected \in [Visits -> BOOLEAN]
    /\ status \in [Visits -> {"none"} \cup Reports]

HubInit ==
    /\ running \in Reports
    /\ clients = {} /\ round = "no" /\ msg = "none" /\ pending = <<>> /\ queue = <<>>
    /\ loop = [v \in Visits |-> "none"]
    /\ socket = [v \in Visits |-> "broken"]
    /\ buffer = [v \in Visits |-> <<>>]
    /\ here = [v \in Visits |-> FALSE]
    /\ stalled = {}
    /\ connected = [v \in Visits |-> FALSE]
    /\ status = [v \in Visits |-> "none"]

-----------------------------------------------------------------------------
(* The hub.  Those who wait in Lock get it in turn; while one waits an     *)
(* RLock waits, too, and goes before the next Lock.                        *)

RuleRuns ==
    /\ running' \in Reports \ {running}
    /\ UNCHANGED <<lockVars, wireVars, boardVars>>

(* The orders in which range may go through a map.                         *)
MapOrders(members) ==
    {o \in [1..Cardinality(members) -> members] :
        \A i, j \in DOMAIN o : i # j => o[i] # o[j]}

(* buildStatus, before the lock is asked for.                              *)
StartRound ==
    /\ round = "no"
    /\ msg' = running
    /\ IF queue # <<>>
       THEN round' = "waiting" /\ UNCHANGED pending
       ELSE round' = "writing" /\ pending' \in MapOrders(clients)
    /\ UNCHANGED <<running, clients, queue, wireVars, boardVars>>

Lock(v, from, to) ==
    /\ loop[v] = from
    /\ loop' = [loop EXCEPT ![v] = to]
    /\ queue' = Append(queue, v)

Locked(v, from, to, members) ==
    /\ loop[v] = from /\ queue # <<>> /\ Head(queue) = v /\ round # "writing"
    /\ loop' = [loop EXCEPT ![v] = to]
    /\ queue' = Tail(queue)
    /\ clients' = members
    /\ IF round = "waiting" THEN round' = "writing" /\ pending' \in MapOrders(members)
                            ELSE UNCHANGED <<round, pending>>

(* Upgrade, up to h.mu.Lock, and the page's onopen.                        *)
Upgraded(v) ==
    /\ socket[v] = "connecting"
    /\ Lock(v, "none", "joining")
    /\ socket' = [socket EXCEPT ![v] = "up"]
    /\ connected' = [connected EXCEPT ![v] = TRUE]
    /\ UNCHANGED <<running, clients, round, msg, pending, buffer, here, stalled, status>>

Register(v) ==
    /\ Locked(v, "joining", "reading", clients \cup {v})
    /\ UNCHANGED <<running, msg, socket, buffer, boardVars>>

(* ReadMessage fails.                                                      *)
ReadError(v) ==
    /\ socket[v] = "broken"
    /\ Lock(v, "reading", "leaving")
    /\ UNCHANGED <<running, clients, round, msg, pending, socket, buffer, boardVars>>

Unregister(v) ==
    /\ Locked(v, "leaving", "none", clients \ {v})
    /\ UNCHANGED <<running, msg, socket, buffer, boardVars>>

Written(v) ==
    /\ round = "writing" /\ pending # <<>> /\ Head(pending) = v
    /\ \/ /\ socket[v] = "up" /\ Len(buffer[v]) < Room
          /\ buffer' = [buffer EXCEPT ![v] = Append(@, msg)]
       \/ socket[v] = "broken" /\ UNCHANGED buffer
    /\ UNCHANGED <<running, clients, round, msg, queue, loop, socket, boardVars>>

(* Mutant: the first error ends the round.                                 *)
WriteStatusOnce(v) ==
    /\ Written(v)
    /\ pending' = IF socket[v] = "up" THEN Tail(pending) ELSE <<>>

(* WriteJSON to the next connection; its error is logged, and the next one *)
(* gets its message.  A connection that has no room is waited for.         *)
WriteStatus(v) == Written(v) /\ pending' = Tail(pending)

EndRound ==
    /\ round = "writing" /\ pending = <<>>
    /\ round' = "no" /\ msg' = "none"
    /\ UNCHANGED <<running, clients, pending, queue, wireVars, boardVars>>

-----------------------------------------------------------------------------
(* The dashboard.                                                          *)

Mount(v) ==
    /\ ~here[v] /\ loop[v] = "none" /\ socket[v] = "broken"
    /\ here' = [here EXCEPT ![v] = TRUE]
    /\ socket' = [socket EXCEPT ![v] = "connecting"]
    /\ UNCHANGED <<running, lockVars, loop, buffer, stalled, connected, status>>

(* What was written and not read is lost.                                  *)
Broken(v) ==
    /\ socket' = [socket EXCEPT ![v] = "broken"]
    /\ buffer' = [buffer EXCEPT ![v] = <<>>]
    /\ stalled' = stalled \ {v}

(* The effect's cleanup closes the socket; one that was still connecting   *)
(* may have reached the server.  The component's state goes.               *)
Unmount(v) ==
    /\ here[v]
    /\ here' = [here EXCEPT ![v] = FALSE]
    /\ Broken(v)
    /\ \/ UNCHANGED <<loop, queue>>
       \/ socket[v] = "connecting" /\ Lock(v, "none", "joining")
    /\ connected' = [connected EXCEPT ![v] = FALSE]
    /\ status' = [status EXCEPT ![v] = "none"]
    /\ UNCHANGED <<running, clients, round, msg, pending>>

Break(v) ==
    /\ socket[v] \in {"connecting", "up"}
    /\ Broken(v)
    /\ UNCHANGED <<running, lockVars, loop, here, connected, status>>

(* The page's process or its host is suspended, or the network between is  *)
(* gone and neither end knows.  Resume ends the first, Break the second.   *)
Stall(v) ==
    /\ here[v] /\ socket[v] = "up" /\ v \notin stalled
    /\ stalled' = stalled \cup {v}
    /\ UNCHANGED <<running, lockVars, wireVars, here, connected, status>>

Resume(v) ==
    /\ v \in stalled
    /\ stalled' = stalled \ {v}
    /\ UNCHANGED <<running, lockVars, wireVars, here, connected, status>>

onclose(v) ==
    /\ here[v] /\ socket[v] = "broken" /\ connected[v]
    /\ connected' = [connected EXCEPT ![v] = FALSE]
    /\ UNCHANGED <<running, lockVars, wireVars, here, stalled, status>>

onmessage(v) ==
    /\ here[v] /\ socket[v] = "up" /\ buffer[v] # <<>> /\ v \notin stalled
    /\ status' = [status EXCEPT ![v] = Head(buffer[v])]
    /\ buffer' = [buffer EXCEPT ![v] = Tail(@)]
    /\ UNCHANGED <<running, lockVars, loop, socket, here, stalled, connected>>

(* What is drawn, given whether the last answers to the polls hold data    *)
(* (the body of a refusal has none): always the module counts, or dashes   *)
(* for them; the STUN topology only for a message that has one, and        *)
(* buildStatus sends none.                                                 *)
Cards(v, polled) ==
    {IF polled THEN "counts" ELSE "dashes"}
    \cup {c \in {"mounts"} : polled}
    \cup {c \in {"forward"} : status[v] = "rules"}
    \cup {c \in {"system"} : polled \/ status[v] # "none"}

(* The badge of the forward card; it never connects again.                 *)
Badge(v) == IF connected[v] THEN "Live" ELSE "Connecting..."

-----------------------------------------------------------------------------
HubNext ==
    \/ RuleRuns \/ StartRound \/ EndRound
    \/ \E v \in Visits :
          \/ Upgraded(v) \/ Register(v) \/ ReadError(v) \/ Unregister(v)
          \/ WriteStatus(v)
          \/ Mount(v) \/ Unmount(v) \/ Break(v) \/ Stall(v) \/ Resume(v)
          \/ onclose(v) \/ onmessage(v)

-----------------------------------------------------------------------------
Reads(v) == here[v] /\ socket[v] = "up" /\ v \notin stalled

(* The forward card is there exactly when a rule runs, the system card     *)
(* even if every poll is refused.                                          *)
Shows(v) ==
    \A polled \in BOOLEAN :
        /\ Badge(v) = "Live"
        /\ "system" \in Cards(v, polled)
        /\ "forward" \in Cards(v, polled) <=> running = "rules"

(* A dashboard that reads comes to show what runs, whatever other          *)
(* dashboards come, go, break, are slow or stall, as long as none of them  *)
(* is stalled for ever.                                                    *)
CardsSettle ==
    \A v \in Visits, r \in Reports :
        /\ <>[](Reads(v) /\ running = r)
        /\ \A u \in Visits : []<>(u \notin stalled)
        => <>[]Shows(v)
=============================================================================
