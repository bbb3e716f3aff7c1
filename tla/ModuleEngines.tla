---------------------------- MODULE ModuleEngines ----------------------------
(***************************************************************************)
(* The engines NetBerth runs beside port forwarding and the proxy          *)
(*   internal/engine/{ddns,stun,cron,storage}   Start, Reload, Remove, Stop*)
(*   internal/service/wire.go       StartAll, StopAll, setupEvents, loaders*)
(*   internal/api/handler/ddns_handler.go, module_handlers.go              *)
(*                                                                         *)
(* The four have one control plane: a map from the id of a row to a        *)
(* running instance, filled by Start from all rows, changed by Reload and  *)
(* Remove when a handler publishes a change, emptied (or only cancelled)   *)
(* by Stop.  They differ in what an instance does, in which changes their  *)
(* handlers publish, in which rows they refuse, and in whether StopAll     *)
(* remembers them.  They share no state, so one of them at a time is       *)
(* modelled: the variable engine.                                          *)
(*                                                                         *)
(* A DDNS job fetches the public address and writes it to the DNS record,  *)
(* again and again; a STUN tunnel holds a local port and renews its        *)
(* binding.  Both look at their context only between two rounds.           *)
(*                                                                         *)
(* Abstracted: a row is its enabled flag and one value: the domain of a    *)
(* DDNS configuration, the local port of a tunnel or a mount, the schedule *)
(* of a cron job.  Commands, files and packets are left out.               *)
(***************************************************************************)
EXTENDS Naturals, FiniteSets

CONSTANTS
    Engines,      \* the engines considered
    Resources,    \* ids of rows: an id is never given out twice
    Values,       \* domains, ports or schedules
    Watched,      \* domains whose DNS record is looked at
    Refused,      \* schedules that do not parse, paths that cannot be made
    MaxAddress,   \* bound: public addresses the host has one after another
    Cells,        \* heap cells of instances (bound: a start waits for one)
    Handlers,     \* HTTP request goroutines
    Unborn,       \* row of an id that was not created yet
    Gone,         \* row of an id that was deleted
    None,         \* no entry, no address, nothing in a cell
    MaxEvents     \* bound: requests that write, and restarts

VARIABLES
    engine,    \* the engine under consideration
    serial,    \* the client waits for a request on a resource to finish
    db,        \* the engine's table: id -> row
    jobs,      \* Engine.jobs, tunnels or mounts: id -> cell
    conf,      \* cell -> the row it was started with, or None
    live,      \* cells that are not cancelled (removed, stopped)
    work,      \* cell -> what its instance does
    held,      \* cell -> the address a DDNS job fetched
    address,   \* the host's public address
    record,    \* watched domain -> the address in the DNS
    req,       \* the request goroutines
    phase,     \* life of the process
    boot,      \* rows that Start still has to look at, with what it read
    events,    \* requests that wrote and restarts so far
    missed     \* history: rows whose last change or start failed unnoticed

instances == <<jobs, conf, live, work, held>>
outside == <<address, record>>
vars == <<engine, serial, db, instances, outside, req, phase, boot, events, missed>>

Row    == [enabled : BOOLEAN, value : Values]
Absent == {Unborn, Gone}
Table  == [Resources -> Row \cup Absent]
Config == [id : Resources, value : Values]
Addresses == 1..MaxAddress

ASSUME ModuleAssumption ==
    /\ Engines \subseteq {"ddns", "stun", "cron", "storage"}
    /\ Unborn # Gone
    /\ Row \cap Absent = {}
    /\ None \notin Cells \cup Config \cup Addresses
    /\ Watched \cup Refused \subseteq Values
    /\ MaxAddress \in Nat \ {0}
    /\ MaxEvents \in Nat

Idle == [pc : {"idle"}]
Request == Idle \cup [pc : {"written", "remove"}, id : Resources]
                \cup [pc : {"loaded"}, id : Resources, row : Row]

(* "fetch", "put", "wait": a DDNS job.  "start", "bind", "wait": a tunnel, *)
(* which holds its port from "bind" on.  "on", "mute": a cron entry or a   *)
(* mount, a mount that got no port.  "off": the goroutine returned.        *)
Works == {"off", "fetch", "put", "wait", "start", "bind", "on", "mute"}

TypeOK ==
    /\ engine \in Engines
    /\ serial \in BOOLEAN
    /\ db \in Table
    /\ jobs \in [Resources -> Cells \cup {None}]
    /\ conf \in [Cells -> Config \cup {None}]
    /\ live \subseteq Cells
    /\ work \in [Cells -> Works]
    /\ held \in [Cells -> Addresses \cup {None}]
    /\ address \in Addresses
    /\ record \in [Watched -> Addresses \cup {None}]
    /\ req \in [Handlers -> Request]
    /\ phase \in {"boot", "running", "stopped", "down"}
    /\ boot \in [snap : Table, todo : SUBSET Resources]
    /\ events \in 0..MaxEvents
    /\ missed \subseteq Resources

-----------------------------------------------------------------------------
(* What distinguishes the engines *)

(* The changes the engine's handlers publish on the bus.                   *)
Publishes ==
    CASE engine = "ddns" -> {"create", "update", "delete"}
      [] engine = "stun" -> {"update", "delete"}
      [] OTHER           -> {}

(* StopAll stops these.                                                    *)
Stoppable == engine \in {"ddns", "stun"}

(* A cron schedule that does not parse, a directory that cannot be made.   *)
Refuses(row) == engine \in {"cron", "storage"} /\ row.value \in Refused

HoldsPort(c) ==
    CASE engine = "stun"    -> work[c] \in {"bind", "wait"}
      [] engine = "storage" -> work[c] = "on"
      [] OTHER              -> FALSE

Busy(p) == \E c \in Cells : HoldsPort(c) /\ conf[c].value = p

(* What an instance does first: mounts listen before startMount returns,   *)
(* tunnels in their own goroutine.                                         *)
FirstWork(row) ==
    CASE engine = "ddns" -> "fetch"
      [] engine = "stun" -> "start"
      [] engine = "storage" /\ Busy(row.value) -> "mute"
      [] OTHER           -> "on"

-----------------------------------------------------------------------------
(* Instances *)

FreeCells == {c \in Cells : conf[c] = None}

(* startJob, startTunnel, addJob, startMount: the instance of r becomes    *)
(* the map's entry beside the live cells C, or the row is refused.         *)
startJob(r, row, C) ==
    IF Refuses(row)
    THEN /\ jobs' = [jobs EXCEPT ![r] = None]
         /\ live' = C
         /\ UNCHANGED <<conf, work, held>>
    ELSE /\ FreeCells # {}
         /\ LET c == CHOOSE c \in FreeCells : TRUE IN
            /\ jobs' = [jobs EXCEPT ![r] = c]
            /\ conf' = [conf EXCEPT ![c] = [id |-> r, value |-> row.value]]
            /\ live' = C \cup {c}
            /\ work' = [work EXCEPT ![c] = FirstWork(row)]
            /\ UNCHANGED held

(* Mutant: the instance is taken out of the map but not cancelled.         *)
CancelledNone(r) == live

(* cancel() of the map's entry, if there is one.                           *)
Cancelled(r) == live \ {jobs[r]}

(* The entry is cancelled and deleted.                                     *)
drop(r) ==
    /\ jobs' = [jobs EXCEPT ![r] = None]
    /\ live' = Cancelled(r)
    /\ UNCHANGED <<conf, work, held>>

-----------------------------------------------------------------------------
(* Process life *)

Stored(S) == {r \in S : db[r] \in Row}

(* GetConfigs, GetTunnels, GetJobs, GetMounts: a read that breaks off      *)
(* returns the rows so far (nobody asks rows.Err); one that fails returns  *)
(* none, and so does one that is never made because Forward.Start failed   *)
(* and StartAll returned.                                                  *)
ReadRows(skipped) ==
    [snap |-> [r \in Resources |-> IF r \in skipped THEN Unborn ELSE db[r]],
     todo |-> Resources]

Init ==
    /\ engine \in Engines
    /\ serial \in BOOLEAN
    /\ db \in [Resources -> Row \cup {Unborn}]
    /\ jobs = [r \in Resources |-> None]
    /\ conf = [c \in Cells |-> None]
    /\ live = {}
    /\ work = [c \in Cells |-> "off"]
    /\ held = [c \in Cells |-> None]
    /\ address = 1
    /\ record = [v \in Watched |-> None]
    /\ req = [h \in Handlers |-> [pc |-> "idle"]]
    /\ phase = "boot"
    /\ \E skipped \in SUBSET Resources :
          boot = ReadRows(skipped) /\ missed = Stored(skipped)
    /\ events = 0

(* One turn of the loop of Start, before the server runs.                  *)
StartRow(r) ==
    /\ phase = "boot"
    /\ r \in boot.todo
    /\ boot' = [boot EXCEPT !.todo = @ \ {r}]
    /\ IF boot.snap[r] \in Row /\ boot.snap[r].enabled
       THEN startJob(r, boot.snap[r], live)
       ELSE UNCHANGED instances
    /\ UNCHANGED <<engine, serial, db, outside, req, phase, events, missed>>

(* The loop is done, or Start returned an error: the server comes up.      *)
Started ==
    /\ phase = "boot"
    /\ boot.todo = {}
    /\ phase' = "running"
    /\ UNCHANGED <<engine, serial, db, instances, outside, req, boot, events, missed>>

(* StopAll: every context is cancelled, entries stay; two engines are      *)
(* forgotten.                                                              *)
Stop ==
    /\ phase = "running"
    /\ phase' = "stopped"
    /\ live' = IF Stoppable
               THEN {c \in live : \A r \in Resources : jobs[r] # c}
               ELSE live
    /\ UNCHANGED <<engine, serial, db, jobs, conf, work, held, outside, req,
                   boot, events, missed>>

(* The process ends, in order or not.                                      *)
Exit ==
    /\ phase # "down"
    /\ phase' = "down"
    /\ jobs' = [r \in Resources |-> None]
    /\ conf' = [c \in Cells |-> None]
    /\ live' = {}
    /\ work' = [c \in Cells |-> "off"]
    /\ held' = [c \in Cells |-> None]
    /\ req' = [h \in Handlers |-> [pc |-> "idle"]]
    /\ boot' = [boot EXCEPT !.todo = {}]
    /\ missed' = {}
    /\ UNCHANGED <<engine, serial, db, outside, events>>

Restart ==
    /\ phase = "down"
    /\ events < MaxEvents
    /\ events' = events + 1
    /\ phase' = "boot"
    /\ \E skipped \in SUBSET Resources :
          boot' = ReadRows(skipped) /\ missed' = Stored(skipped)
    /\ UNCHANGED <<engine, serial, db, instances, outside, req>>

-----------------------------------------------------------------------------
(* Request handlers *)

MayWrite(h, r) ==
    /\ phase \in {"running", "stopped"}
    /\ req[h].pc = "idle"
    /\ events < MaxEvents
    /\ serial => \A g \in Handlers : req[g].pc # "idle" => req[g].id # r

(* The statement was executed; what follows depends on whether the handler *)
(* publishes the change.                                                   *)
Written(h, r, change, next) ==
    /\ req' = IF change \in Publishes
              THEN [req EXCEPT ![h] = [pc |-> next, id |-> r]]
              ELSE req
    /\ events' = events + 1
    /\ UNCHANGED <<engine, serial, instances, outside, phase, boot>>

Create(h, r, row) ==
    /\ MayWrite(h, r)
    /\ db[r] = Unborn
    /\ db' = [db EXCEPT ![r] = row]
    /\ Written(h, r, "create", "written")
    /\ UNCHANGED missed

(* UPDATE ... WHERE id may match no row, or fail (which is an update to    *)
(* the row there is); the event is published even so.                      *)
Update(h, r, row) ==
    /\ MayWrite(h, r)
    /\ db[r] # Unborn
    /\ db' = [db EXCEPT ![r] = IF @ = Gone THEN Gone ELSE row]
    /\ Written(h, r, "update", "written")
    /\ UNCHANGED missed

(* The DELETE's error is not looked at; "deleted" is published even so.    *)
Delete(h, r) ==
    /\ MayWrite(h, r)
    /\ db[r] # Unborn
    /\ \/ db' = [db EXCEPT ![r] = Gone] /\ missed' = missed \ {r}
       \/ UNCHANGED db /\ missed' = missed \cup Stored({r})
    /\ Written(h, r, "delete", "remove")

(* loadDDNSConfig and its like: no row, and any error, ends the request.   *)
Load(h) ==
    /\ req[h].pc = "written"
    /\ LET r == req[h].id IN
       \/ /\ db[r] \in Row
          /\ req' = [req EXCEPT ![h] = [pc |-> "loaded", id |-> r, row |-> db[r]]]
          /\ missed' = missed \ {r}
       \/ /\ req' = [req EXCEPT ![h] = [pc |-> "idle"]]
          /\ missed' = missed \cup Stored({r})
    /\ UNCHANGED <<engine, serial, db, instances, outside, phase, boot, events>>

(* Mutant: an entry is replaced only when the row is enabled.              *)
ReloadEnabled(h) ==
    /\ req[h].pc = "loaded"
    /\ LET r == req[h].id
           row == req[h].row IN
       IF row.enabled THEN startJob(r, row, Cancelled(r)) ELSE UNCHANGED instances
    /\ req' = [req EXCEPT ![h] = [pc |-> "idle"]]
    /\ UNCHANGED <<engine, serial, db, outside, phase, boot, events, missed>>

(* Engine.Reload with the row read by Load.                                *)
Reload(h) ==
    /\ req[h].pc = "loaded"
    /\ LET r == req[h].id
           row == req[h].row IN
       IF row.enabled THEN startJob(r, row, Cancelled(r)) ELSE drop(r)
    /\ req' = [req EXCEPT ![h] = [pc |-> "idle"]]
    /\ UNCHANGED <<engine, serial, db, outside, phase, boot, events, missed>>

(* Engine.Remove.                                                          *)
Remove(h) ==
    /\ req[h].pc = "remove"
    /\ drop(req[h].id)
    /\ req' = [req EXCEPT ![h] = [pc |-> "idle"]]
    /\ UNCHANGED <<engine, serial, db, outside, phase, boot, events, missed>>

-----------------------------------------------------------------------------
(* The goroutine of a DDNS job or a tunnel *)

rest == <<engine, serial, db, jobs, conf, live, req, phase, boot, events, missed>>

Turn(c, from, to) == work[c] = from /\ work' = [work EXCEPT ![c] = to]

(* getPublicIP answers: the first update, or one after a tick, which the   *)
(* select may prefer to a context that is done ...                         *)
Fetch(c) ==
    /\ engine = "ddns"
    /\ Turn(c, "fetch", "put") \/ Turn(c, "wait", "put")
    /\ held' = [held EXCEPT ![c] = address]
    /\ UNCHANGED <<outside, rest>>

(* ... or does not: back to the select.                                    *)
FetchFails(c) ==
    /\ Turn(c, "fetch", "wait")
    /\ UNCHANGED <<held, outside, rest>>

(* Mutant: the address that was in the row at the start is written.        *)
PutOnce(c) ==
    /\ Turn(c, "put", "wait")
    /\ record' = [record EXCEPT ![conf[c].value] = IF @ = None THEN held[c] ELSE @]
    /\ UNCHANGED <<held, address, rest>>

(* updateDNS: the provider sets the record (its answer may still be an     *)
(* error, which is only logged).                                           *)
Put(c) ==
    /\ Turn(c, "put", "wait")
    /\ record' = [record EXCEPT ![conf[c].value] = held[c]]
    /\ held' = [held EXCEPT ![c] = None]
    /\ UNCHANGED <<address, rest>>

PutFails(c) ==
    /\ Turn(c, "put", "wait")
    /\ held' = [held EXCEPT ![c] = None]
    /\ UNCHANGED <<outside, rest>>

(* ListenUDP on the tunnel's port; any failure ends the goroutine for good *)
(* and leaves the entry.                                                   *)
Listen(c) ==
    /\ Turn(c, "start", IF Busy(conf[c].value) THEN "off" ELSE "bind")
    /\ UNCHANGED <<held, outside, rest>>

(* The server's name cannot be resolved.                                   *)
ResolveFails(c) ==
    /\ Turn(c, "start", "off")
    /\ UNCHANGED <<held, outside, rest>>

(* The first stunBind, up to maxRetries times stunTimeout: the goroutine   *)
(* ends (and closes its socket) if it fails.                               *)
Bind(c) ==
    /\ Turn(c, "bind", "wait") \/ Turn(c, "bind", "off")
    /\ UNCHANGED <<held, outside, rest>>

(* Mutant: the context is looked at when the map still has the instance.   *)
ReturnListed(c) ==
    /\ c \notin live
    /\ \E r \in Resources : jobs[r] = c
    /\ Turn(c, "wait", "off")
    /\ UNCHANGED <<held, outside, rest>>

(* <-ctx.Done().  (A tick renews a tunnel's binding, whose failure is      *)
(* ignored: no step.)                                                      *)
Return(c) ==
    /\ c \notin live
    /\ Turn(c, "wait", "off")
    /\ UNCHANGED <<held, outside, rest>>

(* Nothing refers to the cell any more.                                    *)
Collect(c) ==
    /\ conf[c] # None
    /\ c \notin live
    /\ work[c] \in {"off", "on", "mute"}
    /\ \A r \in Resources : jobs[r] # c
    /\ conf' = [conf EXCEPT ![c] = None]
    /\ work' = [work EXCEPT ![c] = "off"]
    /\ UNCHANGED <<engine, serial, db, jobs, live, held, outside, req, phase,
                   boot, events, missed>>

(* The provider gives the host another address.                            *)
ChangeAddress ==
    /\ engine = "ddns"
    /\ address < MaxAddress
    /\ address' = address + 1
    /\ UNCHANGED <<work, held, record, rest>>

-----------------------------------------------------------------------------
Boot == (\E r \in Resources : StartRow(r)) \/ Started

Write(h) ==
    \/ \E r \in Resources, row \in Row : Create(h, r, row) \/ Update(h, r, row)
    \/ \E r \in Resources : Delete(h, r)

Handle(h) == Load(h) \/ Reload(h) \/ Remove(h)

Run(c) ==
    \/ Fetch(c) \/ FetchFails(c) \/ Put(c) \/ PutFails(c)
    \/ Listen(c) \/ ResolveFails(c) \/ Bind(c) \/ Return(c)

Next ==
    \/ Boot \/ Stop \/ Exit \/ Restart
    \/ \E h \in Handlers : Write(h) \/ Handle(h)
    \/ \E c \in Cells : Run(c) \/ Collect(c)
    \/ ChangeAddress

Spec == Init /\ [][Next]_vars

(* Goroutines run and tickers tick; a select with two ready cases takes    *)
(* each of them again and again; a provider that is asked again and again  *)
(* answers now and then.                                                   *)
Fairness ==
    /\ WF_vars(Boot)
    /\ \A h \in Handlers : WF_vars(Handle(h))
    /\ \A c \in Cells :
          /\ WF_vars(Run(c)) /\ WF_vars(Collect(c))
          /\ SF_vars(Return(c)) /\ SF_vars(Put(c))

FairSpec == Spec /\ Fairness

-----------------------------------------------------------------------------
(* Properties *)

(* An instance that is not cancelled is the map's entry of its resource:   *)
(* nothing keeps writing a DNS record or holding a port out of reach of    *)
(* Reload, Remove and Stop.                                                *)
NoOrphan ==
    \A c \in live : conf[c] # None /\ jobs[conf[c].id] = c

Settled(r) ==
    \A h \in Handlers : req[h].pc # "idle" => req[h].id # r

Wanted(r) == db[r] \in Row /\ db[r].enabled

(* A client that waits for its answers sees the engine follow the table:   *)
(* an instance of a DDNS or STUN resource runs the stored row, none runs   *)
(* for a row that is disabled or deleted, and every enabled DDNS row runs. *)
(* Only a row that a start did not read, that could not be read back after *)
(* the last change, or whose DELETE failed may differ, and only until the  *)
(* next change of it is read back, the next DELETE or the next start.      *)
FollowsTable ==
    \A r \in Resources :
        phase = "running" /\ serial /\ Settled(r) /\ r \notin missed =>
            /\ engine \in {"ddns", "stun"} /\ jobs[r] # None =>
                  Wanted(r) /\ conf[jobs[r]].value = db[r].value
            /\ engine = "ddns" /\ Wanted(r) => jobs[r] # None

(* The work of a cancelled instance comes to an end and its port is free,  *)
(* however often the ticker wins against the context.                      *)
CancelledWorkEnds ==
    \A c \in Cells : c \notin live ~> (c \in live \/ work[c] \in {"off", "on", "mute"})

(* The DNS settles on the host's address: once the address and the row of  *)
(* a configuration stay, so does the record, although updates of cancelled *)
(* jobs that hold an older address may still arrive after newer ones.      *)
Steady(r, d, a) ==
    /\ engine = "ddns" /\ serial /\ phase = "running" /\ r \notin missed
    /\ Wanted(r) /\ db[r].value = d
    /\ address = a

RecordConverges ==
    \A r \in Resources, d \in Watched, a \in Addresses :
        (<>[]Steady(r, d, a)) => <>[](record[d] = a)
=============================================================================
