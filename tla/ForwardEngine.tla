---------------------------- MODULE ForwardEngine ----------------------------
(***************************************************************************)
(* The port-forwarding control plane of NetBerth:                          *)
(*   internal/engine/forward/forward.go    Engine: Start, Stop, Reload,    *)
(*                                         Remove, startRule, watchdog     *)
(*   internal/service/wire.go              the bus subscription and the    *)
(*                                         loader that connect both        *)
(*   internal/api/handler/forward_handler.go  Create, Update, Delete       *)
(*                                                                         *)
(* A request handler commits its statement to the database, then (in the   *)
(* same goroutine, through the event bus) reads the row back and hands it  *)
(* to Engine.Reload; Delete calls Engine.Remove.  The read and the call    *)
(* are separate steps: nothing orders two handlers, or a handler and the   *)
(* watchdog, between them.  The watchdog reads all rows before it takes    *)
(* Engine.mu and applies that snapshot while holding it.  Each instance    *)
(* runs one listener goroutine per network, which binds after startRule    *)
(* returned and closes its socket some time after the context was          *)
(* cancelled.                                                              *)
(*                                                                         *)
(* Abstracted: a row is its enabled flag and its listen port (every other  *)
(* column is carried along unread by the control plane); ACL tables, the   *)
(* data plane and the UDP session map have modules of their own.  Slots    *)
(* are the heap cells of *ruleInstance; a cell whose context is cancelled  *)
(* and whose sockets are closed is garbage and can be used again.          *)
(***************************************************************************)
EXTENDS Naturals, FiniteSets

CONSTANTS
    Rules,        \* rule ids (UUIDs): an id is never given out twice
    Ports,        \* listen ports
    Nets,         \* networks of one instance, e.g. {"tcp", "tcp6"}
    Slots,        \* cells for rule instances (bound: a start waits for one)
    Handlers,     \* HTTP request goroutines
    Unbindable,   \* the <<net, port>> pairs this host cannot bind
    Unborn,       \* row of an id that was not created yet
    Gone,         \* row of an id that was deleted
    None,         \* no entry in the rules map, no rule in a cell
    MaxRequests,  \* bound: requests that write to the database, and restarts
    MaxRestarts,  \* bound: times the process is started again
    Serial,       \* TRUE: the client waits for a rule's request to finish
    DbMayFail     \* TRUE: reads of the database and DELETEs may fail

VARIABLES
    db,        \* forward_rules: id -> row
    rules,     \* Engine.rules: id -> slot
    conf,      \* slot -> the rule it was started with, or None
    live,      \* slots whose context is not cancelled
    sock,      \* listener goroutine of <<slot, net>>
    mu,        \* Engine.mu is held across steps by the watchdog
    wd,        \* the watchdog goroutine
    req,       \* the request goroutines
    phase,     \* life of the process
    served,    \* requests so far
    restarts,  \* restarts so far
    missed     \* history: rules whose last change failed unnoticed

engine == <<rules, conf, live, sock>>
vars == <<db, rules, conf, live, sock, mu, wd, req, phase, served, restarts,
          missed>>

Row    == [enabled : BOOLEAN, port : Ports]
Absent == {Unborn, Gone}
Table  == [Rules -> Row \cup Absent]
Config == [rule : Rules, port : Ports]

ASSUME ForwardAssumption ==
    /\ Unborn # Gone
    /\ Row \cap Absent = {}
    /\ None \notin Slots
    /\ None \notin Config
    /\ Unbindable \subseteq Nets \X Ports
    /\ MaxRequests \in Nat
    /\ MaxRestarts \in Nat
    /\ {Serial, DbMayFail} \subseteq BOOLEAN

NoRows == [r \in Rules |-> Unborn]
Idle   == [pc : {"idle"}]
Request == Idle \cup [pc : {"written", "remove"}, rule : Rules]
                \cup [pc : {"loaded"}, rule : Rules, row : Row]
Watchdog == [pc : {"off", "wait", "apply"}, snap : Table, todo : SUBSET Rules]

NoWatchdog == [pc |-> "off", snap |-> NoRows, todo |-> {}]

TypeOK ==
    /\ db \in Table
    /\ rules \in [Rules -> Slots \cup {None}]
    /\ conf \in [Slots -> Config \cup {None}]
    /\ live \subseteq Slots
    /\ sock \in [Slots \X Nets -> {"none", "starting", "open"}]
    /\ mu \in BOOLEAN
    /\ wd \in Watchdog
    /\ req \in [Handlers -> Request]
    /\ phase \in {"boot", "running", "stopping", "stopped", "down"}
    /\ served \in 0..MaxRequests
    /\ restarts \in 0..MaxRestarts
    /\ missed \subseteq Rules

(* What GetRules may return: it does not look at rows.Err(), so that a read *)
(* that breaks off is a shorter list without an error.                     *)
GetRules ==
    {[r \in Rules |-> IF r \in S THEN db[r] ELSE Unborn] :
        S \in IF DbMayFail THEN SUBSET Rules ELSE {Rules}}

-----------------------------------------------------------------------------
(* Instances *)

Free(s) == conf[s] = None

FreeSlots == {s \in Slots : Free(s)}

(* startRule: a new instance becomes the map's entry of r and its listener *)
(* goroutines are spawned.  C is the set of live slots it starts from.     *)
startRule(r, row, C) ==
    /\ FreeSlots # {}
    /\ LET s == CHOOSE s \in FreeSlots : TRUE IN
       /\ rules' = [rules EXCEPT ![r] = s]
       /\ conf'  = [conf EXCEPT ![s] = [rule |-> r, port |-> row.port]]
       /\ live'  = C \cup {s}
       /\ sock'  = [k \in Slots \X Nets |->
                       IF k[1] = s THEN "starting" ELSE sock[k]]

(* Mutants: the context is never cancelled; one context for all instances. *)
CancelledNone(r) == live
CancelledShared(r) == {}

(* inst.cancel() of the map's entry, if there is one.                      *)
Cancelled(r) == live \ {rules[r]}

(* delete(e.rules, id) after inst.cancel(); nothing when there is no entry *)
drop(r) ==
    /\ rules' = [rules EXCEPT ![r] = None]
    /\ live' = Cancelled(r)
    /\ UNCHANGED <<conf, sock>>

-----------------------------------------------------------------------------
(* Process life *)

Init ==
    /\ db \in [Rules -> Row \cup {Unborn}]
    /\ rules = [r \in Rules |-> None]
    /\ conf = [s \in Slots |-> None]
    /\ live = {}
    /\ sock = [k \in Slots \X Nets |-> "none"]
    /\ mu = FALSE
    /\ \E snap \in GetRules :
          wd = [NoWatchdog EXCEPT !.snap = snap, !.todo = Rules]
    /\ req = [h \in Handlers |-> [pc |-> "idle"]]
    /\ phase = "boot"
    /\ served = 0
    /\ restarts = 0
    /\ missed = {}

(* Engine.Start, one turn of its loop over the rows it loaded: no lock is  *)
(* taken, no request is served yet and the watchdog does not run yet.      *)
StartRule(r) ==
    /\ phase = "boot"
    /\ r \in wd.todo
    /\ wd' = [wd EXCEPT !.todo = @ \ {r}]
    /\ IF wd.snap[r] \in Row /\ wd.snap[r].enabled
       THEN startRule(r, wd.snap[r], live)
       ELSE UNCHANGED engine
    /\ UNCHANGED <<db, mu, req, phase, served, restarts, missed>>

(* Engine.Start returns the error of its first read: the process serves    *)
(* requests all the same, with no rule started and no watchdog.            *)
StartFails ==
    /\ phase = "boot"
    /\ DbMayFail
    /\ wd.todo = Rules
    /\ phase' = "running"
    /\ wd' = NoWatchdog
    /\ UNCHANGED <<db, engine, mu, req, served, restarts, missed>>

(* The end of Engine.Start: go e.watchdog(); the HTTP server comes up.     *)
Started ==
    /\ phase = "boot"
    /\ wd.todo = {}
    /\ phase' = "running"
    /\ wd' = [NoWatchdog EXCEPT !.pc = "wait"]
    /\ UNCHANGED <<db, engine, mu, req, served, restarts, missed>>

(* Engine.Stop: close(e.stopCh) ...                                        *)
Stop ==
    /\ phase = "running"
    /\ phase' = "stopping"
    /\ UNCHANGED <<db, engine, mu, wd, req, served, restarts, missed>>

(* Mutant: Stop forgets the entries of what it cancels.                    *)
StopForgets ==
    /\ phase = "stopping"
    /\ ~mu
    /\ phase' = "stopped"
    /\ live' = {s \in live : \A r \in Rules : rules[r] # s}
    /\ rules' = [r \in Rules |-> None]
    /\ UNCHANGED <<db, conf, sock, mu, wd, req, served, restarts, missed>>

(* ... then every context is cancelled under the lock.  The entries stay.  *)
StopCancel ==
    /\ phase = "stopping"
    /\ ~mu
    /\ phase' = "stopped"
    /\ live' = {s \in live : \A r \in Rules : rules[r] # s}
    /\ UNCHANGED <<db, rules, conf, sock, mu, wd, req,
                   served, restarts, missed>>

(* The process ends: main returns after srv.Shutdown (or its timeout), or  *)
(* it is killed at any moment.  Rows stay; goroutines and sockets go.      *)
Exit ==
    /\ phase # "down"
    /\ phase' = "down"
    /\ rules' = [r \in Rules |-> None]
    /\ conf' = [s \in Slots |-> None]
    /\ live' = {}
    /\ sock' = [k \in Slots \X Nets |-> "none"]
    /\ mu' = FALSE
    /\ wd' = NoWatchdog
    /\ req' = [h \in Handlers |-> [pc |-> "idle"]]
    /\ missed' = {}
    /\ UNCHANGED <<db, served, restarts>>

(* A new process reads the rows that survived.                             *)
Restart ==
    /\ phase = "down"
    /\ restarts < MaxRestarts
    /\ served + restarts < MaxRequests
    /\ restarts' = restarts + 1
    /\ phase' = "boot"
    /\ \E snap \in GetRules :
          wd' = [NoWatchdog EXCEPT !.snap = snap, !.todo = Rules]
    /\ UNCHANGED <<db, engine, mu, req, served, missed>>

-----------------------------------------------------------------------------
(* Request handlers *)

Serving == phase \in {"running", "stopping", "stopped"}

(* A request may write to rule r now (a statement about the clients).      *)
MayWrite(h, r) ==
    /\ Serving
    /\ req[h].pc = "idle"
    /\ served + restarts < MaxRequests
    /\ Serial => \A g \in Handlers : req[g].pc # "idle" => req[g].rule # r

(* Create: INSERT of a row under a new id.                                 *)
Create(h, r, row) ==
    /\ MayWrite(h, r)
    /\ db[r] = Unborn
    /\ db' = [db EXCEPT ![r] = row]
    /\ req' = [req EXCEPT ![h] = [pc |-> "written", rule |-> r]]
    /\ served' = served + 1
    /\ UNCHANGED <<engine, mu, wd, phase, restarts, missed>>

(* Update: UPDATE ... WHERE id, which may match no row; the event is       *)
(* published either way.                                                   *)
Update(h, r, row) ==
    /\ MayWrite(h, r)
    /\ db[r] # Unborn
    /\ db' = [db EXCEPT ![r] = IF @ = Gone THEN Gone ELSE row]
    /\ req' = [req EXCEPT ![h] = [pc |-> "written", rule |-> r]]
    /\ served' = served + 1
    /\ UNCHANGED <<engine, mu, wd, phase, restarts, missed>>

(* Delete: DELETE ... WHERE id, whose error is ignored, then the "deleted" *)
(* event.                                                                  *)
Delete(h, r) ==
    /\ MayWrite(h, r)
    /\ db[r] # Unborn
    /\ \/ db' = [db EXCEPT ![r] = Gone] /\ missed' = missed \ {r}
       \/ DbMayFail /\ UNCHANGED db /\ missed' = missed \cup {r}
    /\ req' = [req EXCEPT ![h] = [pc |-> "remove", rule |-> r]]
    /\ served' = served + 1
    /\ UNCHANGED <<engine, mu, wd, phase, restarts>>

(* loadForwardRule: nil (no row, or an error) ends the request here.       *)
Load(h) ==
    /\ req[h].pc = "written"
    /\ LET r == req[h].rule IN
       \/ /\ db[r] \in Row
          /\ req' = [req EXCEPT ![h] = [pc |-> "loaded", rule |-> r,
                                        row |-> db[r]]]
          /\ missed' = missed \ {r}
       \/ /\ db[r] \notin Row \/ DbMayFail
          /\ req' = [req EXCEPT ![h] = [pc |-> "idle"]]
          /\ missed' = missed \cup {q \in {r} : db[q] \in Row}
    /\ UNCHANGED <<db, engine, mu, wd, phase, served, restarts>>

(* Mutant: a rule that runs already is left as it is.                      *)
ReloadOnlyNew(h) ==
    /\ req[h].pc = "loaded"
    /\ ~mu
    /\ LET r == req[h].rule
           row == req[h].row IN
       CASE row.enabled /\ rules[r] = None -> startRule(r, row, live)
         [] row.enabled /\ rules[r] # None -> UNCHANGED engine
         [] ~row.enabled -> drop(r)
    /\ req' = [req EXCEPT ![h] = [pc |-> "idle"]]
    /\ UNCHANGED <<db, mu, wd, phase, served, restarts, missed>>

(* Engine.Reload with the row read by Load.                                *)
Reload(h) ==
    /\ req[h].pc = "loaded"
    /\ ~mu
    /\ LET r == req[h].rule
           row == req[h].row IN
       IF row.enabled THEN startRule(r, row, Cancelled(r)) ELSE drop(r)
    /\ req' = [req EXCEPT ![h] = [pc |-> "idle"]]
    /\ UNCHANGED <<db, mu, wd, phase, served, restarts, missed>>

(* Engine.Remove.                                                          *)
Remove(h) ==
    /\ req[h].pc = "remove"
    /\ ~mu
    /\ drop(req[h].rule)
    /\ req' = [req EXCEPT ![h] = [pc |-> "idle"]]
    /\ UNCHANGED <<db, mu, wd, phase, served, restarts, missed>>

-----------------------------------------------------------------------------
(* Watchdog *)

(* A tick: GetRules, without the lock.  With stopCh closed as well the     *)
(* select may still take the ticker's branch.  (A failed read: no step.)   *)
WdTick ==
    /\ wd.pc = "wait"
    /\ \E snap \in GetRules : wd' = [pc |-> "apply", snap |-> snap, todo |-> {}]
    /\ UNCHANGED <<db, engine, mu, req, phase, served, restarts, missed>>

(* e.mu.Lock().                                                            *)
WdLock ==
    /\ wd.pc = "apply"
    /\ ~mu
    /\ mu' = TRUE
    /\ wd' = [wd EXCEPT !.todo = {r \in Rules : wd.snap[r] \in Row}]
    /\ UNCHANGED <<db, engine, req, phase, served, restarts, missed>>

(* Mutant: the watchdog starts missing rules and stops none.               *)
WdApplyStartsOnly(r) ==
    /\ mu
    /\ r \in wd.todo
    /\ wd' = [wd EXCEPT !.todo = @ \ {r}]
    /\ IF rules[r] = None /\ wd.snap[r].enabled
       THEN startRule(r, wd.snap[r], live)
       ELSE UNCHANGED engine
    /\ UNCHANGED <<db, mu, req, phase, served, restarts, missed>>

(* Mutant: the watchdog also replaces an instance that is not running.     *)
WdApplyRevives(r) ==
    /\ mu
    /\ r \in wd.todo
    /\ wd' = [wd EXCEPT !.todo = @ \ {r}]
    /\ CASE rules[r] # None /\ ~wd.snap[r].enabled -> drop(r)
         [] rules[r] \notin live /\ wd.snap[r].enabled ->
                startRule(r, wd.snap[r], live)
         [] OTHER -> UNCHANGED engine
    /\ UNCHANGED <<db, mu, req, phase, served, restarts, missed>>

(* One turn of the loop over the snapshot.                                 *)
WdApply(r) ==
    /\ mu
    /\ r \in wd.todo
    /\ wd' = [wd EXCEPT !.todo = @ \ {r}]
    /\ CASE rules[r] # None /\ ~wd.snap[r].enabled -> drop(r)
         [] rules[r] = None /\ wd.snap[r].enabled ->
                startRule(r, wd.snap[r], live)
         [] OTHER -> UNCHANGED engine
    /\ UNCHANGED <<db, mu, req, phase, served, restarts, missed>>

(* e.mu.Unlock(), back to the select.                                      *)
WdUnlock ==
    /\ mu
    /\ wd.todo = {}
    /\ mu' = FALSE
    /\ wd' = [NoWatchdog EXCEPT !.pc = "wait"]
    /\ UNCHANGED <<db, engine, req, phase, served, restarts, missed>>

(* <-e.stopCh: the goroutine returns.                                      *)
WdReturn ==
    /\ wd.pc = "wait"
    /\ phase \in {"stopping", "stopped"}
    /\ wd' = NoWatchdog
    /\ UNCHANGED <<db, engine, mu, req, phase, served, restarts, missed>>

-----------------------------------------------------------------------------
(* Listener goroutines *)

Busy(n, p) ==
    \E s \in Slots : sock[<<s, n>>] = "open" /\ conf[s].port = p

(* Mutant: an address that cannot be bound fails the whole instance.       *)
ListenAllOrNothing(s, n) ==
    /\ sock[<<s, n>>] = "starting"
    /\ LET p == conf[s].port IN
       sock' = IF Busy(n, p) \/ <<n, p>> \in Unbindable
               THEN [k \in Slots \X Nets |->
                        IF k[1] = s THEN "none" ELSE sock[k]]
               ELSE [sock EXCEPT ![<<s, n>>] = "open"]
    /\ UNCHANGED <<db, rules, conf, live, mu, wd, req, phase,
                   served, restarts, missed>>

(* lc.Listen / lc.ListenPacket: an error is logged and the goroutine ends, *)
(* a cancelled context does not prevent the bind of a literal address.     *)
Listen(s, n) ==
    /\ sock[<<s, n>>] = "starting"
    /\ LET p == conf[s].port IN
       sock' = [sock EXCEPT ![<<s, n>>] =
                   IF Busy(n, p) \/ <<n, p>> \in Unbindable
                   THEN "none" ELSE "open"]
    /\ UNCHANGED <<db, rules, conf, live, mu, wd, req, phase,
                   served, restarts, missed>>

(* <-ctx.Done(): the closer goroutine (TCP), or the read loop at its next  *)
(* one-second deadline (UDP), closes the socket.                           *)
CloseListener(s, n) ==
    /\ sock[<<s, n>>] = "open"
    /\ s \notin live
    /\ sock' = [sock EXCEPT ![<<s, n>>] = "none"]
    /\ UNCHANGED <<db, rules, conf, live, mu, wd, req, phase,
                   served, restarts, missed>>

(* Nothing refers to the cell any more: no entry, no context, no goroutine *)
Collect(s) ==
    /\ ~Free(s)
    /\ s \notin live
    /\ \A r \in Rules : rules[r] # s
    /\ \A n \in Nets : sock[<<s, n>>] = "none"
    /\ conf' = [conf EXCEPT ![s] = None]
    /\ UNCHANGED <<db, rules, live, sock, mu, wd, req, phase,
                   served, restarts, missed>>

-----------------------------------------------------------------------------
Request_(h) ==
    \/ \E r \in Rules, row \in Row : Create(h, r, row) \/ Update(h, r, row)
    \/ \E r \in Rules : Delete(h, r)

Handle(h) == Load(h) \/ Reload(h) \/ Remove(h)

Watch == WdTick \/ WdLock \/ (\E r \in Rules : WdApply(r)) \/ WdUnlock

Boot == (\E r \in Rules : StartRule(r)) \/ StartFails \/ Started

Next ==
    \/ Boot \/ Stop \/ StopCancel \/ Exit \/ Restart
    \/ \E h \in Handlers : Request_(h) \/ Handle(h)
    \/ Watch \/ WdReturn
    \/ \E s \in Slots, n \in Nets : Listen(s, n) \/ CloseListener(s, n)
    \/ \E s \in Slots : Collect(s)

Spec == Init /\ [][Next]_vars

(* A tick that reads all rows.                                             *)
WdReads == WdTick /\ wd'.snap = db

(* Goroutines that can run do run: the Go scheduler is fair, the ticker    *)
(* keeps ticking, mutexes are handed on, and of the watchdog's reads one   *)
(* succeeds now and then.  Requests, signals and crashes are not required  *)
(* to happen.                                                              *)
Fairness ==
    /\ WF_vars(Boot)
    /\ WF_vars(StopCancel)
    /\ WF_vars(Watch)
    /\ SF_vars(WdReads)
    /\ \A h \in Handlers : SF_vars(Handle(h))
    /\ \A s \in Slots : WF_vars(Collect(s))
    /\ \A s \in Slots, n \in Nets :
          WF_vars(Listen(s, n)) /\ WF_vars(CloseListener(s, n))

FairSpec == Spec /\ Fairness

-----------------------------------------------------------------------------
(* Properties *)

(* A context that is not cancelled belongs to the map's entry of its rule: *)
(* an instance that Reload, Remove or Stop could no longer reach would     *)
(* keep its port until the process ends.                                   *)
NoOrphan ==
    \A s \in live : conf[s] # None /\ rules[conf[s].rule] = s

(* Until Stop an entry of the map is a running instance of that rule: an   *)
(* entry left behind a cancelled context would make the watchdog believe   *)
(* the rule is up for ever.                                                *)
EntriesRun ==
    phase \in {"boot", "running", "stopping"} =>
        \A r \in Rules : rules[r] # None =>
            /\ rules[r] \in live
            /\ conf[rules[r]] # None
            /\ conf[rules[r]].rule = r

(* No request on r is between its statement and the end of its event.      *)
Settled(r) ==
    \A h \in Handlers : req[h].pc # "idle" => req[h].rule # r

(* Once the requests on a rule have returned, an instance of the rule runs *)
(* the port of the stored row, although the watchdog starts rules from     *)
(* snapshots that may be older, and starts read a part of the rows only.   *)
(* Only a rule whose row could not be read back after its last change, or  *)
(* whose DELETE failed, may run another port, and only until the next      *)
(* change of it is read back or the process starts again.                  *)
ConfigFresh ==
    \A r \in Rules :
        /\ phase = "running"
        /\ Settled(r) /\ r \notin missed
        /\ db[r] \in Row /\ db[r].enabled
        /\ rules[r] # None
        => conf[rules[r]].port = db[r].port

(* A stored rule ends up running exactly when its row says enabled,        *)
(* whatever the watchdog did from an older snapshot in between, and though *)
(* reads and statements may fail.  (The watchdog has to be there: a start  *)
(* whose first read returns an error starts none.)                         *)
Agrees ==
    \A r \in Rules : db[r] \in Row => (db[r].enabled <=> rules[r] # None)

Watched == <>[](phase = "running" /\ wd.pc # "off")

Converges == Watched => <>[]Agrees

(* An enabled rule ends up with a listening socket when the host can bind  *)
(* its port on some network and no other enabled row asks for that port.   *)
Servable(r) ==
    /\ db[r] \in Row /\ db[r].enabled
    /\ \E n \in Nets : <<n, db[r].port>> \notin Unbindable
    /\ \A q \in Rules \ {r} :
          db[q] \in Row /\ db[q].enabled => db[q].port # db[r].port

Listening(r) ==
    \E n \in Nets : rules[r] # None /\ sock[<<rules[r], n>>] = "open"

EnabledServes ==
    (<>[](phase = "running")) =>
        <>[](\A r \in Rules : Servable(r) => Listening(r))

(* A new listener finds its port still bound by another instance.          *)
Contested ==
    \E s \in Slots, n \in Nets :
        sock[<<s, n>>] = "starting" /\ Busy(n, conf[s].port)

(* Nothing but such a collision keeps an enabled rule from listening for   *)
(* ever: not a crash between the statement and its Reload, not a row that  *)
(* could not be read back or was missing in what the boot read, not the    *)
(* network that the host cannot bind.  (A boot whose first read returns an *)
(* error starts no watchdog; the next one makes up for it.)                *)
UncontestedServes ==
    /\ []~Contested
    /\ Watched
    => <>[](\A r \in Rules : Servable(r) => Listening(r))

(* What Stop ended stays down: the watchdog may take further ticks after   *)
(* it, but only an update that was under way starts such a rule again.     *)
StopHolds ==
    [][\A r \in Rules :
          /\ phase = "stopped" /\ phase' = "stopped"
          /\ rules[r] # None /\ rules[r] \notin live
          /\ rules'[r] \in live'
          => \E h \in Handlers :
                req[h].pc = "loaded" /\ req[h].rule = r /\ req'[h].pc = "idle"
      ]_vars

(* If nothing was pending when Stop came, and no request comes after it,   *)
(* every port is given back: the ticks that the watchdog may still take    *)
(* find entries, though the contexts behind them are cancelled.            *)
StopEnds ==
    /\ <>[](phase = "stopped")
    /\ [](phase = "stopping" => Agrees /\ wd.pc # "apply")
    /\ [](phase \in {"stopping", "stopped"} =>
              \A h \in Handlers : req[h].pc = "idle")
    => <>[](\A k \in Slots \X Nets : sock[k] = "none")

(* After a rule was deleted and every request on it returned, nothing of   *)
(* it runs.                                                                *)
DeletedStaysDown ==
    \A r \in Rules : phase = "running" /\ db[r] = Gone /\ Settled(r)
        => rules[r] = None

(* The engine implements the abstract service: in charge of r are the      *)
(* configurations of its instances whose context is not cancelled, one at  *)
(* most, although requests, watchdog, boot and Stop all start and cancel.  *)
Service == INSTANCE ForwardService WITH
    Configs <- Config,
    active <- [r \in Rules |->
                 {c \in Config : \E s \in live : conf[s] = c /\ c.rule = r}]

ImplementsService == Service!Spec
=============================================================================
