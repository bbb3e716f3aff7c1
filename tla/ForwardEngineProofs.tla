------------------------- MODULE ForwardEngineProofs -------------------------
(***************************************************************************)
(* Proofs about ForwardEngine for every set of rules, ports, networks,     *)
(* slots and handlers, and every bound.                                    *)
(*                                                                         *)
(* The inductive invariant adds to the properties what ties them to the    *)
(* steps: an entry of the map always refers to a cell configured for that  *)
(* rule (also after Stop, when its context is cancelled), rules that       *)
(* Start still has to start have no entry, the watchdog holds the lock     *)
(* only over rows, a dead process owns nothing and nothing runs beside     *)
(* Start.  FreshInv says why an old snapshot of the watchdog does no harm. *)
(***************************************************************************)
EXTENDS ForwardEngine, TLAPS

EntriesOwn ==
    \A r \in Rules : rules[r] # None =>
        conf[rules[r]] # None /\ conf[rules[r]].rule = r

BootTodo == phase = "boot" => \A r \in wd.todo : rules[r] = None

LockedRows == mu => \A r \in wd.todo : wd.snap[r] \in Row

DeadOwnsNothing == phase = "down" => \A r \in Rules : rules[r] = None

AloneBefore ==
    phase \in {"down", "boot"} =>
        /\ ~mu
        /\ wd.pc = "off"
        /\ \A h \in Handlers : req[h].pc = "idle"

EngineTypes ==
    /\ rules \in [Rules -> Slots \cup {None}]
    /\ conf \in [Slots -> Config \cup {None}]
    /\ live \subseteq Slots
    /\ sock \in [Slots \X Nets -> {"none", "starting", "open"}]

(* The engine's discipline, whoever holds it: types, no orphan, own entries. *)
EngineInv == EngineTypes /\ NoOrphan /\ EntriesOwn

(* The state of the process around the engine.                             *)
RestTypes ==
    /\ db \in Table
    /\ mu \in BOOLEAN
    /\ wd \in Watchdog
    /\ req \in [Handlers -> Request]
    /\ phase \in {"boot", "running", "stopping", "stopped", "down"}
    /\ served \in 0..MaxRequests
    /\ restarts \in 0..MaxRestarts
    /\ missed \subseteq Rules

IInv ==
    /\ EngineInv
    /\ RestTypes
    /\ EntriesRun
    /\ BootTodo
    /\ LockedRows
    /\ DeadOwnsNothing
    /\ AloneBefore

(* The invariant gives the properties that the runs check.                 *)
LEMMA InvParts == IInv => TypeOK /\ NoOrphan /\ EntriesRun
BY DEF IInv, EngineInv, EngineTypes, RestTypes, TypeOK

-----------------------------------------------------------------------------
(* What a start and a drop do to the engine *)

(* The instance of rule r at row is created in cell s.                     *)
Placed(r, row, C, s) ==
    /\ conf[s] = None
    /\ rules' = [rules EXCEPT ![r] = s]
    /\ conf'  = [conf EXCEPT ![s] = [rule |-> r, port |-> row.port]]
    /\ live'  = C \cup {s}
    /\ sock'  = [k \in Slots \X Nets |->
                    IF k[1] = s THEN "starting" ELSE sock[k]]

(* startRule takes a cell nothing is configured in.                        *)
LEMMA StartRuleStep ==
    ASSUME NEW r \in Rules, NEW row \in Row, NEW C,
           startRule(r, row, C)
    PROVE  \E s \in Slots : Placed(r, row, C, s)
<1> DEFINE cell == CHOOSE s \in FreeSlots : TRUE
<1>1. cell \in FreeSlots
  BY DEF startRule
<1>2. cell \in Slots /\ conf[cell] = None
  BY <1>1 DEF FreeSlots, Free
<1> QED
  BY <1>2 DEF startRule, Placed

(* Starting r leaves the engine's discipline intact when no live instance  *)
(* of r survives the start, and makes the entry of r a live one.           *)
LEMMA StartRuleInv ==
    ASSUME EngineInv,
           NEW r \in Rules, NEW row \in Row, NEW C \in SUBSET live,
           rules[r] \notin C,
           startRule(r, row, C)
    PROVE  /\ EngineInv'
           /\ rules'[r] \in live'
           /\ \A q \in Rules \ {r} : rules'[q] = rules[q]
           /\ live \ {rules[r]} \subseteq C => live \ {rules[r]} \subseteq live'
<1>a. PICK s \in Slots : Placed(r, row, C, s)
  BY StartRuleStep
<1>1. /\ conf[s] = None
      /\ rules' = [rules EXCEPT ![r] = s]
      /\ conf'  = [conf EXCEPT ![s] = [rule |-> r, port |-> row.port]]
      /\ live'  = C \cup {s}
      /\ sock'  = [k \in Slots \X Nets |->
                      IF k[1] = s THEN "starting" ELSE sock[k]]
  BY <1>a DEF Placed
<1> DEFINE new == [rule |-> r, port |-> row.port]
<1>2. new \in Config /\ new # None /\ None \notin Slots
  BY ForwardAssumption DEF Config, Row
<1>3. EngineTypes'
  BY <1>1, <1>2 DEF EngineInv, EngineTypes
<1>4. NoOrphan'
  <2> SUFFICES ASSUME NEW t \in live'
               PROVE  conf'[t] # None /\ rules'[conf'[t].rule] = t
    BY DEF NoOrphan
  <2>1. CASE t = s
    BY <1>1, <1>2, <2>1 DEF EngineInv, EngineTypes
  <2>2. CASE t # s
    <3>1. t \in C /\ t \in live /\ t \in Slots
      BY <1>1, <2>2 DEF EngineInv, EngineTypes
    <3>2. conf[t] # None /\ conf[t] \in Config /\ rules[conf[t].rule] = t
      BY <3>1 DEF EngineInv, EngineTypes, NoOrphan
    <3>3. conf[t].rule \in Rules /\ conf[t].rule # r
      BY <3>1, <3>2 DEF Config
    <3>4. conf'[t] = conf[t] /\ rules'[conf[t].rule] = t
      BY <1>1, <2>2, <3>1, <3>2, <3>3 DEF EngineInv, EngineTypes
    <3> QED
      BY <3>2, <3>4
  <2> QED
    BY <2>1, <2>2
<1>5. EntriesOwn'
  <2> SUFFICES ASSUME NEW q \in Rules, rules'[q] # None
               PROVE  conf'[rules'[q]] # None /\ conf'[rules'[q]].rule = q
    BY DEF EntriesOwn
  <2>1. CASE q = r
    BY <1>1, <1>2, <2>1 DEF EngineInv, EngineTypes
  <2>2. CASE q # r
    <3>1. rules'[q] = rules[q] /\ rules[q] \in Slots
      BY <1>1, <2>2 DEF EngineInv, EngineTypes
    <3>2. conf[rules[q]] # None /\ conf[rules[q]].rule = q
      BY <3>1 DEF EngineInv, EntriesOwn
    <3>3. rules[q] # s
      BY <1>1, <3>2
    <3> QED
      BY <1>1, <3>1, <3>2, <3>3 DEF EngineInv, EngineTypes
  <2> QED
    BY <2>1, <2>2
<1>6. rules'[r] \in live' /\ \A q \in Rules \ {r} : rules'[q] = rules[q]
  BY <1>1 DEF EngineInv, EngineTypes
<1> QED
  BY <1>1, <1>3, <1>4, <1>5, <1>6 DEF EngineInv

(* Dropping r cancels its instance and nothing else.                       *)
LEMMA DropInv ==
    ASSUME EngineInv, NEW r \in Rules, drop(r)
    PROVE  /\ EngineInv'
           /\ rules'[r] = None
           /\ \A q \in Rules \ {r} : rules'[q] = rules[q]
           /\ live' = live \ {rules[r]}
<1>1. /\ rules' = [rules EXCEPT ![r] = None]
      /\ live' = live \ {rules[r]}
      /\ conf' = conf /\ sock' = sock
  BY DEF drop, Cancelled
<1>2. EngineTypes'
  BY <1>1 DEF EngineInv, EngineTypes
<1>3. NoOrphan'
  <2> SUFFICES ASSUME NEW t \in live'
               PROVE  conf[t] # None /\ rules'[conf[t].rule] = t
    BY <1>1 DEF NoOrphan
  <2>1. t \in live /\ t \in Slots /\ t # rules[r]
    BY <1>1 DEF EngineInv, EngineTypes
  <2>2. conf[t] # None /\ conf[t] \in Config /\ rules[conf[t].rule] = t
    BY <2>1 DEF EngineInv, EngineTypes, NoOrphan
  <2>3. conf[t].rule \in Rules \ {r}
    BY <2>1, <2>2 DEF Config
  <2> QED
    BY <1>1, <2>2, <2>3 DEF EngineInv, EngineTypes
<1>4. EntriesOwn'
  BY <1>1 DEF EngineInv, EngineTypes, EntriesOwn
<1> QED
  BY <1>1, <1>2, <1>3, <1>4 DEF EngineInv, EngineTypes
-----------------------------------------------------------------------------
(* The inductive step, one lemma per group of actions *)

LEMMA NoWatchdogType ==
    /\ NoWatchdog \in Watchdog
    /\ NoWatchdog.todo = {} /\ NoWatchdog.pc = "off"
    /\ [NoWatchdog EXCEPT !.pc = "wait"] \in Watchdog
    /\ [NoWatchdog EXCEPT !.pc = "wait"].todo = {}
    /\ \A t \in Table :
          /\ [NoWatchdog EXCEPT !.snap = t, !.todo = Rules] \in Watchdog
          /\ [NoWatchdog EXCEPT !.snap = t, !.todo = Rules].pc = "off"
BY DEF NoWatchdog, Watchdog, Table, NoRows, Absent

(* What is read is a table.                                                *)
LEMMA ReadIsTable ==
    ASSUME db \in Table, NEW t \in GetRules
    PROVE  t \in Table
<1>1. PICK S : t = [r \in Rules |-> IF r \in S THEN db[r] ELSE Unborn]
  BY DEF GetRules
<1> QED
  BY <1>1 DEF Table, Absent

(* A row that was read is the row that is stored.                          *)
LEMMA ReadIsPart ==
    ASSUME NEW t \in GetRules, NEW r \in Rules, t[r] \in Row
    PROVE  t[r] = db[r]
<1>1. PICK S : t = [q \in Rules |-> IF q \in S THEN db[q] ELSE Unborn]
  BY DEF GetRules
<1>2. Unborn \notin Row
  BY ForwardAssumption DEF Absent
<1> QED
  BY <1>1, <1>2

LEMMA InitInv == Init => IInv
<1> SUFFICES ASSUME Init PROVE IInv
  OBVIOUS
<1>1. db \in Table
  BY DEF Init, Table, Absent
<1>2. wd \in Watchdog /\ wd.pc = "off"
  <2>1. PICK t \in GetRules : wd = [NoWatchdog EXCEPT !.snap = t, !.todo = Rules]
    BY DEF Init
  <2> QED
    BY <1>1, <2>1, NoWatchdogType, ReadIsTable
<1>3. RestTypes
  <2>1. req \in [Handlers -> Request]
    BY DEF Init, Request, Idle
  <2>2. served \in 0..MaxRequests /\ restarts \in 0..MaxRestarts
    BY ForwardAssumption DEF Init
  <2> QED
    BY <1>1, <1>2, <2>1, <2>2 DEF Init, RestTypes
<1>4. EngineTypes
  BY DEF Init, EngineTypes
<1>5. wd.pc = "off"
  BY <1>2
<1>6. NoOrphan /\ EntriesOwn /\ EntriesRun
  BY DEF Init, NoOrphan, EntriesOwn, EntriesRun
<1>7. BootTodo /\ LockedRows /\ DeadOwnsNothing /\ AloneBefore
  BY <1>2, <1>5
     DEF Init, BootTodo, LockedRows, DeadOwnsNothing, AloneBefore, Watchdog
<1> QED
  BY <1>3, <1>4, <1>6, <1>7 DEF IInv, EngineInv

(* Actions that leave the engine alone.                                    *)
LEMMA EngineUnchanged ==
    ASSUME EngineInv, EntriesRun, UNCHANGED engine
    PROVE  /\ EngineInv'
           /\ (phase' \in {"boot", "running", "stopping"}
                => phase \in {"boot", "running", "stopping"}) => EntriesRun'
BY DEF EngineInv, EngineTypes, NoOrphan, EntriesOwn, EntriesRun, engine

(* A start or a drop keeps the entries running.                            *)
LEMMA StartKeepsEntries ==
    ASSUME EngineInv, EntriesRun, phase' = phase,
           NEW r \in Rules, NEW row \in Row, NEW C \in SUBSET live,
           rules[r] \notin C, live \ {rules[r]} \subseteq C,
           startRule(r, row, C)
    PROVE  EngineInv' /\ EntriesRun'
<1>1. /\ EngineInv'
      /\ rules'[r] \in live'
      /\ \A q \in Rules \ {r} : rules'[q] = rules[q]
      /\ live \ {rules[r]} \subseteq live'
  BY StartRuleInv
<1> SUFFICES ASSUME phase \in {"boot", "running", "stopping"},
                    NEW q \in Rules, rules'[q] # None
             PROVE  rules'[q] \in live'
  BY <1>1 DEF EntriesRun, EngineInv, EntriesOwn
<1>2. CASE q = r
  BY <1>1, <1>2
<1>3. CASE q # r
  <2>1. rules'[q] = rules[q] /\ rules[q] \in live /\ conf[rules[q]].rule = q
    BY <1>1, <1>3 DEF EntriesRun
  <2>2. rules[q] # rules[r]
    BY <2>1, <1>1, <1>3 DEF EngineInv, EntriesOwn
  <2> QED
    BY <1>1, <2>1, <2>2
<1> QED
  BY <1>2, <1>3

LEMMA DropKeepsEntries ==
    ASSUME EngineInv, EntriesRun, phase' = phase, NEW r \in Rules, drop(r)
    PROVE  EngineInv' /\ EntriesRun'
<1>1. /\ EngineInv'
      /\ rules'[r] = None
      /\ \A q \in Rules \ {r} : rules'[q] = rules[q]
      /\ live' = live \ {rules[r]}
  BY DropInv
<1> SUFFICES ASSUME phase \in {"boot", "running", "stopping"},
                    NEW q \in Rules, rules'[q] # None
             PROVE  rules'[q] \in live'
  BY <1>1 DEF EntriesRun, EngineInv, EntriesOwn
<1>2. q # r /\ rules'[q] = rules[q]
  BY <1>1
<1>3. rules[q] \in live /\ conf[rules[q]].rule = q
  BY <1>2 DEF EntriesRun
<1>4. rules[q] # rules[r]
  BY <1>2, <1>3 DEF EngineInv, EntriesOwn
<1> QED
  BY <1>1, <1>2, <1>3, <1>4

(* A live instance is its rule's entry, so a rule without entry has none.  *)
LEMMA NoEntryNoInstance ==
    ASSUME EngineInv, NEW r \in Rules, rules[r] = None
    PROVE  rules[r] \notin live
BY ForwardAssumption DEF EngineInv, EngineTypes

-----------------------------------------------------------------------------
LEMMA StartRuleKeeps ==
    ASSUME IInv, NEW r \in Rules, StartRule(r)
    PROVE  IInv'
<1> USE DEF IInv
<1>1. phase = "boot" /\ phase' = "boot" /\ r \in wd.todo /\ rules[r] = None
  BY DEF StartRule, BootTodo
<1>2. wd' = [wd EXCEPT !.todo = @ \ {r}] /\ wd \in Watchdog /\ wd' \in Watchdog
  BY DEF StartRule, RestTypes, Watchdog
<1>3. wd'.todo = wd.todo \ {r} /\ wd'.snap = wd.snap /\ wd'.pc = wd.pc
  BY <1>2 DEF Watchdog
<1>4. UNCHANGED <<db, mu, req, served, restarts, missed>>
  BY DEF StartRule
<1>5. RestTypes'
  BY <1>1, <1>2, <1>4 DEF RestTypes
<1>6. LockedRows' /\ DeadOwnsNothing' /\ AloneBefore'
  BY <1>1, <1>3, <1>4 DEF LockedRows, DeadOwnsNothing, AloneBefore, Watchdog
<1>7. CASE wd.snap[r] \in Row /\ wd.snap[r].enabled
  <2>1. startRule(r, wd.snap[r], live)
    BY <1>7 DEF StartRule
  <2>2. rules[r] \notin live
    BY <1>1, NoEntryNoInstance
  <2>3. EngineInv' /\ EntriesRun'
    BY <1>1, <1>7, <2>1, <2>2, StartKeepsEntries
  <2>4. \A q \in Rules \ {r} : rules'[q] = rules[q]
    BY <1>7, <2>1, <2>2, StartRuleInv
  <2>5. BootTodo'
    BY <1>1, <1>2, <1>3, <2>4 DEF BootTodo, Watchdog
  <2> QED
    BY <1>5, <1>6, <2>3, <2>5
<1>8. CASE ~(wd.snap[r] \in Row /\ wd.snap[r].enabled)
  <2>1. UNCHANGED engine
    BY <1>8 DEF StartRule
  <2>2. BootTodo'
    BY <1>1, <1>3, <2>1 DEF BootTodo, engine
  <2> QED
    BY <1>1, <1>5, <1>6, <2>1, <2>2, EngineUnchanged
<1> QED
  BY <1>7, <1>8

LEMMA LifeKeeps ==
    ASSUME IInv, StartFails \/ Started \/ Stop \/ StopCancel \/ Exit \/ Restart
    PROVE  IInv'
<1> USE DEF IInv
<1>1. CASE StartFails \/ Started
  <2>1. /\ phase = "boot" /\ phase' = "running"
        /\ wd' \in Watchdog /\ wd'.todo = {}
        /\ UNCHANGED engine
        /\ UNCHANGED <<db, mu, req, served, restarts, missed>>
    BY <1>1, NoWatchdogType DEF StartFails, Started
  <2> QED
    BY <2>1, EngineUnchanged
       DEF RestTypes, BootTodo, LockedRows, DeadOwnsNothing, AloneBefore
<1>2. CASE Stop
  BY <1>2, EngineUnchanged
     DEF Stop, RestTypes, BootTodo, LockedRows, DeadOwnsNothing, AloneBefore
<1>3. CASE StopCancel
  <2>1. EngineInv'
    BY <1>3 DEF StopCancel, EngineInv, EngineTypes, NoOrphan, EntriesOwn
  <2> QED
    BY <1>3, <2>1 DEF StopCancel, RestTypes, EntriesRun, BootTodo, LockedRows,
                      DeadOwnsNothing, AloneBefore
<1>4. CASE Exit
  <2>1. EngineInv'
    BY <1>4 DEF Exit, EngineInv, EngineTypes, NoOrphan, EntriesOwn
  <2>2. RestTypes'
    BY <1>4, NoWatchdogType DEF Exit, RestTypes, Request, Idle
  <2> QED
    BY <1>4, <2>1, <2>2, NoWatchdogType DEF Exit, EntriesRun, BootTodo, LockedRows,
                            DeadOwnsNothing, AloneBefore
<1>5. CASE Restart
  <2>1. /\ phase = "down" /\ phase' = "boot" /\ ~mu' /\ UNCHANGED engine
        /\ \A r \in Rules : rules'[r] = None
    BY <1>5 DEF Restart, DeadOwnsNothing, AloneBefore, engine
  <2>2. wd' \in Watchdog /\ wd'.todo \subseteq Rules /\ wd'.pc = "off"
    <3>1. PICK t \in GetRules :
             wd' = [NoWatchdog EXCEPT !.snap = t, !.todo = Rules]
      BY <1>5 DEF Restart
    <3> QED
      BY <3>1, NoWatchdogType, ReadIsTable DEF RestTypes, Watchdog
  <2>3. RestTypes'
    <3>1. restarts' \in 0..MaxRestarts
      <4>1. restarts \in 0..MaxRestarts /\ restarts < MaxRestarts
            /\ restarts' = restarts + 1
        BY <1>5 DEF Restart, RestTypes
      <4>2. MaxRestarts \in Nat
        BY ForwardAssumption
      <4> QED
        BY <4>1, <4>2
    <3> QED
      BY <1>5, <2>1, <2>2, <3>1 DEF Restart, RestTypes
  <2>4. EngineInv'
    BY <2>1, EngineUnchanged
  <2> QED
    BY <1>5, <2>1, <2>2, <2>3, <2>4
       DEF Restart, EntriesRun, BootTodo, LockedRows, DeadOwnsNothing, AloneBefore
<1> QED
  BY <1>1, <1>2, <1>3, <1>4, <1>5

LEMMA RequestKeeps ==
    ASSUME IInv, NEW h \in Handlers, Request_(h) \/ Load(h)
    PROVE  IInv'
<1> USE DEF IInv
<1>1. /\ UNCHANGED engine /\ UNCHANGED <<mu, wd, phase, restarts>>
      /\ served' \in 0..MaxRequests /\ missed' \subseteq Rules
      /\ db' \in Table
      /\ req' \in [Handlers -> Request]
      /\ phase \notin {"down", "boot"}
  <2>1. CASE Request_(h)
    <3>1. served' \in 0..MaxRequests
      BY <2>1, ForwardAssumption
         DEF Request_, Create, Update, Delete, MayWrite, RestTypes
    <3> QED
      BY <2>1, <3>1
         DEF Request_, Create, Update, Delete, MayWrite, Serving, RestTypes,
             Table, Absent, Request
  <2>2. CASE Load(h)
    BY <2>2 DEF Load, RestTypes, Request, Idle, AloneBefore
  <2> QED
    BY <2>1, <2>2
<1>2. RestTypes'
  BY <1>1 DEF RestTypes
<1>3. EngineInv' /\ EntriesRun'
  BY <1>1, EngineUnchanged
<1> QED
  BY <1>1, <1>2, <1>3 DEF BootTodo, LockedRows, DeadOwnsNothing, AloneBefore, engine

LEMMA ApplyKeeps ==
    ASSUME IInv, NEW h \in Handlers, Reload(h) \/ Remove(h)
    PROVE  IInv'
<1> USE DEF IInv
<1>1. /\ ~mu /\ UNCHANGED <<db, mu, wd, phase, served, restarts, missed>>
      /\ req' = [req EXCEPT ![h] = [pc |-> "idle"]]
      /\ req[h] \in Request
      /\ req[h].pc \in {"loaded", "remove"}
  BY DEF Reload, Remove, RestTypes
<1>2. phase \notin {"down", "boot"}
  BY <1>1 DEF AloneBefore
<1>3. RestTypes' /\ BootTodo' /\ LockedRows' /\ DeadOwnsNothing' /\ AloneBefore'
  BY <1>1, <1>2
     DEF RestTypes, Request, Idle, BootTodo, LockedRows, DeadOwnsNothing,
         AloneBefore
<1>4. req[h].rule \in Rules
  BY <1>1 DEF Request, Idle
<1>5. CASE Reload(h) /\ req[h].row.enabled
  <2>1. req[h].row \in Row
    BY <1>1, <1>5 DEF Reload, Request, Idle
  <2>2. startRule(req[h].rule, req[h].row, live \ {rules[req[h].rule]})
    BY <1>5 DEF Reload, Cancelled
  <2> QED
    BY <1>1, <1>3, <1>4, <2>1, <2>2, StartKeepsEntries
<1>6. CASE ~(Reload(h) /\ req[h].row.enabled)
  <2>1. drop(req[h].rule)
    BY <1>6 DEF Reload, Remove
  <2> QED
    BY <1>1, <1>3, <1>4, <2>1, DropKeepsEntries
<1> QED
  BY <1>5, <1>6

LEMMA WatchKeeps ==
    ASSUME IInv, Watch \/ WdReturn
    PROVE  IInv'
<1> USE DEF IInv
<1>1. phase' = phase /\ UNCHANGED <<db, req, served, restarts, missed>>
  BY DEF Watch, WdTick, WdLock, WdApply, WdUnlock, WdReturn
<1>2. phase \notin {"down", "boot"}
  BY DEF Watch, WdTick, WdLock, WdApply, WdUnlock, WdReturn, AloneBefore
<1>3. BootTodo' /\ DeadOwnsNothing' /\ AloneBefore'
  BY <1>1, <1>2 DEF BootTodo, DeadOwnsNothing, AloneBefore
<1>4. CASE WdTick
  <2>1. wd' \in Watchdog /\ wd'.todo = {}
    <3>1. PICK t \in GetRules : wd' = [pc |-> "apply", snap |-> t, todo |-> {}]
      BY <1>4 DEF WdTick
    <3> QED
      BY <3>1, ReadIsTable DEF RestTypes, Watchdog
  <2>2. RestTypes' /\ LockedRows'
    BY <1>1, <1>4, <2>1 DEF WdTick, RestTypes, LockedRows
  <2> QED
    BY <1>1, <1>3, <1>4, <2>2, EngineUnchanged DEF WdTick
<1>5. CASE WdLock
  <2>1. wd \in Watchdog
    BY DEF RestTypes
  <2>2. wd' \in Watchdog /\ wd'.snap = wd.snap
        /\ wd'.todo = {r \in Rules : wd.snap[r] \in Row}
    BY <1>5, <2>1 DEF WdLock, Watchdog
  <2>3. RestTypes' /\ LockedRows'
    BY <1>1, <1>5, <2>2 DEF WdLock, RestTypes, LockedRows
  <2> QED
    BY <1>1, <1>3, <1>5, <2>3, EngineUnchanged DEF WdLock
<1>6. CASE \E r \in Rules : WdApply(r)
  <2>1. PICK r \in Rules : WdApply(r)
    BY <1>6
  <2>2. wd \in Watchdog /\ mu /\ mu' = mu /\ r \in wd.todo
        /\ wd' = [wd EXCEPT !.todo = @ \ {r}]
    BY <2>1 DEF WdApply, RestTypes
  <2>3. wd' \in Watchdog /\ wd'.snap = wd.snap /\ wd'.todo = wd.todo \ {r}
    BY <2>2 DEF Watchdog
  <2>4. wd.snap[r] \in Row
    BY <2>2 DEF LockedRows
  <2>5. RestTypes' /\ LockedRows'
    BY <1>1, <2>2, <2>3 DEF RestTypes, LockedRows
  <2>6. CASE rules[r] # None /\ ~wd.snap[r].enabled
    <3>1. drop(r)
      BY <2>1, <2>6 DEF WdApply
    <3> QED
      BY <1>1, <1>3, <2>5, <3>1, DropKeepsEntries
  <2>7. CASE rules[r] = None /\ wd.snap[r].enabled
    <3>1. startRule(r, wd.snap[r], live)
      BY <2>1, <2>7 DEF WdApply
    <3>2. rules[r] \notin live
      BY <2>7, NoEntryNoInstance
    <3> QED
      BY <1>1, <1>3, <2>4, <2>5, <3>1, <3>2, StartKeepsEntries
  <2>8. CASE /\ ~(rules[r] # None /\ ~wd.snap[r].enabled)
             /\ ~(rules[r] = None /\ wd.snap[r].enabled)
    <3>1. UNCHANGED engine
      BY <2>1, <2>8 DEF WdApply
    <3> QED
      BY <1>1, <1>3, <2>5, <3>1, EngineUnchanged
  <2> QED
    BY <2>6, <2>7, <2>8
<1>7. CASE WdUnlock \/ WdReturn
  <2>1. wd' \in Watchdog /\ wd'.todo = {} /\ mu' \in BOOLEAN /\ UNCHANGED engine
    BY <1>7, NoWatchdogType DEF WdUnlock, WdReturn, RestTypes
  <2>2. RestTypes' /\ LockedRows'
    BY <1>1, <2>1 DEF RestTypes, LockedRows
  <2> QED
    BY <1>1, <1>3, <2>1, <2>2, EngineUnchanged
<1> QED
  BY <1>4, <1>5, <1>6, <1>7 DEF Watch

LEMMA SocketKeeps ==
    ASSUME IInv, NEW s \in Slots,
           Collect(s) \/ \E n \in Nets : Listen(s, n) \/ CloseListener(s, n)
    PROVE  IInv'
<1> USE DEF IInv
<1>1. UNCHANGED <<db, rules, live, mu, wd, req, phase, served, restarts, missed>>
  BY DEF Collect, Listen, CloseListener
<1>2. /\ RestTypes' /\ BootTodo' /\ LockedRows' /\ DeadOwnsNothing'
      /\ AloneBefore'
  BY <1>1 DEF RestTypes, BootTodo, LockedRows, DeadOwnsNothing, AloneBefore
<1>3. CASE Collect(s)
  <2>1. /\ s \notin live /\ \A r \in Rules : rules[r] # s
        /\ conf' = [conf EXCEPT ![s] = None] /\ sock' = sock
    BY <1>3 DEF Collect
  <2>2. \A t \in Slots \ {s} : conf'[t] = conf[t]
    BY <2>1 DEF EngineInv, EngineTypes
  <2>3. EngineTypes'
    BY <1>1, <2>1 DEF EngineInv, EngineTypes
  <2>4. NoOrphan' /\ EntriesOwn' /\ EntriesRun'
    BY <1>1, <2>1, <2>2
       DEF EngineInv, EngineTypes, NoOrphan, EntriesOwn, EntriesRun
  <2> QED
    BY <1>2, <2>3, <2>4 DEF EngineInv
<1>4. CASE \E n \in Nets : Listen(s, n) \/ CloseListener(s, n)
  <2>1. conf' = conf
    BY <1>4 DEF Listen, CloseListener
  <2>2. sock' \in [Slots \X Nets -> {"none", "starting", "open"}]
    BY <1>4 DEF Listen, CloseListener, EngineInv, EngineTypes
  <2> QED
    BY <1>1, <1>2, <2>1, <2>2
       DEF EngineInv, EngineTypes, NoOrphan, EntriesOwn, EntriesRun
<1> QED
  BY <1>3, <1>4

LEMMA NextInv == IInv /\ [Next]_vars => IInv'
<1> SUFFICES ASSUME IInv, [Next]_vars PROVE IInv'
  OBVIOUS
<1>1. CASE Boot
  BY <1>1, StartRuleKeeps, LifeKeeps DEF Boot
<1>2. CASE Stop \/ StopCancel \/ Exit \/ Restart
  BY <1>2, LifeKeeps
<1>3. CASE \E h \in Handlers : Request_(h) \/ Handle(h)
  BY <1>3, RequestKeeps, ApplyKeeps DEF Handle
<1>4. CASE Watch \/ WdReturn
  BY <1>4, WatchKeeps
<1>5. CASE \/ \E s \in Slots, n \in Nets : Listen(s, n) \/ CloseListener(s, n)
           \/ \E s \in Slots : Collect(s)
  BY <1>5, SocketKeeps
<1>6. CASE UNCHANGED vars
  BY <1>6
     DEF vars, engine, IInv, EngineInv, EngineTypes, RestTypes, NoOrphan, EntriesRun, EntriesOwn, BootTodo,
         LockedRows, DeadOwnsNothing, AloneBefore
<1> QED
  BY <1>1, <1>2, <1>3, <1>4, <1>5, <1>6 DEF Next

(* IInv holds through every request, watchdog round, Stop, crash and boot. *)
THEOREM Invariance == Spec => []IInv
<1>1. Init => IInv
  BY InitInv
<1>2. IInv /\ [Next]_vars => IInv'
  BY NextInv
<1> QED
  BY <1>1, <1>2, PTL DEF Spec

(* Every state is well formed.                                             *)
THEOREM TypeCorrect == Spec => []TypeOK
BY Invariance, InvParts, PTL

(* However requests, watchdog and shutdown interleave, a context that was  *)
(* not cancelled is the map's entry of its rule: Reload, Remove and Stop   *)
(* reach every running instance.                                           *)
THEOREM NoOrphanHolds == Spec => []NoOrphan
BY Invariance, InvParts, PTL

(* Until Stop an entry of the map is a running instance of its own rule.   *)
THEOREM EntriesRunHolds == Spec => []EntriesRun
BY Invariance, InvParts, PTL

-----------------------------------------------------------------------------
(* The engine implements the abstract service *)

Serving_(r) == {c \in Config : \E s \in live : conf[s] = c /\ c.rule = r}

Active == [r \in Rules |-> Serving_(r)]

(* Replacing an entry is one step of the service: no state in between has  *)
(* both configurations, or a configuration nobody can take down.           *)
LEMMA StartIsInstall ==
    ASSUME EngineInv,
           NEW r \in Rules, NEW row \in Row, NEW C \in SUBSET live,
           rules[r] \notin C, live \ {rules[r]} \subseteq C,
           startRule(r, row, C)
    PROVE  Service!Next
<1>a. PICK s \in Slots : Placed(r, row, C, s)
  BY StartRuleStep
<1>1. /\ conf[s] = None
      /\ rules' = [rules EXCEPT ![r] = s]
      /\ conf'  = [conf EXCEPT ![s] = [rule |-> r, port |-> row.port]]
      /\ live'  = C \cup {s}
      /\ sock'  = [k \in Slots \X Nets |->
                      IF k[1] = s THEN "starting" ELSE sock[k]]
  BY <1>a DEF Placed
<1> DEFINE new == [rule |-> r, port |-> row.port]
<1>2. new \in Config /\ new.rule = r
  BY DEF Config, Row
<1>3. \A t \in C : t \in Slots /\ t # s /\ conf'[t] = conf[t] /\ conf[t].rule # r
  BY <1>1 DEF EngineInv, EngineTypes, NoOrphan
<1>4. conf'[s] = new
  BY <1>1 DEF EngineInv, EngineTypes
<1>5. Serving_(r)' = {new}
  BY <1>1, <1>2, <1>3, <1>4 DEF Serving_
<1>6. ASSUME NEW q \in Rules, q # r
      PROVE  Serving_(q)' = Serving_(q)
  <2>1. \A t \in live : conf[t].rule = q => t \in C
    <3>1. None \notin live
      BY ForwardAssumption DEF EngineInv, EngineTypes
    <3>2. ASSUME NEW t \in live, t = rules[r] PROVE conf[t].rule = r
      BY <3>1, <3>2 DEF EngineInv, EntriesOwn
    <3> QED
      BY <1>6, <3>2
  <2> QED
    BY <1>1, <1>2, <1>3, <1>4, <1>6, <2>1 DEF Serving_
<1>7. Active' = [Active EXCEPT ![r] = {new}]
  BY <1>5, <1>6 DEF Active
<1> QED
  BY <1>2, <1>7 DEF Service!Next, Service!Install, Active, Serving_

LEMMA DropIsUninstall ==
    ASSUME EngineInv, NEW r \in Rules, drop(r)
    PROVE  Service!Next
<1>1. /\ live' = live \ {rules[r]} /\ conf' = conf
  BY DEF drop, Cancelled
<1>2. Serving_(r)' = {}
  BY <1>1 DEF Serving_, EngineInv, NoOrphan
<1>3. ASSUME NEW q \in Rules, q # r
      PROVE  Serving_(q)' = Serving_(q)
  <2>1. \A t \in live : conf[t].rule = q => t # rules[r]
    <3>1. None \notin live
      BY ForwardAssumption DEF EngineInv, EngineTypes
    <3>2. ASSUME NEW t \in live, t = rules[r] PROVE conf[t].rule = r
      BY <3>1, <3>2 DEF EngineInv, EntriesOwn
    <3> QED
      BY <1>3, <3>2
  <2> QED
    BY <1>1, <2>1 DEF Serving_
<1>4. Active' = [Active EXCEPT ![r] = {}]
  BY <1>2, <1>3 DEF Active
<1> QED
  BY <1>4 DEF Service!Next, Service!Uninstall, Active, Serving_

LEMMA EndIsStopAll ==
    ASSUME EngineInv, StopCancel \/ Exit
    PROVE  Service!Next
<1>1. live' = {}
  <2>1. CASE StopCancel
    BY <2>1 DEF StopCancel, EngineInv, EngineTypes, NoOrphan, Config
  <2> QED
    BY <2>1 DEF Exit
<1>2. Active' = [q \in Rules |-> {}]
  BY <1>1 DEF Active, Serving_
<1> QED
  BY <1>2 DEF Service!Next, Service!StopAll, Active, Serving_

(* Everything else leaves what is served alone.                            *)
LEMMA Stutters ==
    ASSUME EngineInv, live' = live, \A t \in live : conf'[t] = conf[t]
    PROVE  Active' = Active
BY DEF Active, Serving_

LEMMA StepImplements == IInv /\ [Next]_vars => [Service!Next]_Active
<1> SUFFICES ASSUME IInv, [Next]_vars PROVE Service!Next \/ Active' = Active
  OBVIOUS
<1> USE DEF IInv
<1>1. ASSUME NEW r \in Rules, StartRule(r)
      PROVE  Service!Next \/ Active' = Active
  <2>1. rules[r] = None /\ rules[r] \notin live
    BY <1>1, NoEntryNoInstance DEF StartRule, BootTodo
  <2>2. CASE wd.snap[r] \in Row /\ wd.snap[r].enabled
    BY <1>1, <2>1, <2>2, StartIsInstall DEF StartRule
  <2>3. CASE ~(wd.snap[r] \in Row /\ wd.snap[r].enabled)
    BY <1>1, <2>3, Stutters DEF StartRule, engine
  <2> QED
    BY <2>2, <2>3
<1>2. CASE StopCancel \/ Exit
  BY <1>2, EndIsStopAll
<1>3. CASE \/ StartFails \/ Started \/ Stop \/ Restart
           \/ WdTick \/ WdLock \/ WdUnlock \/ WdReturn
           \/ UNCHANGED vars
           \/ \E h \in Handlers : Request_(h) \/ Load(h)
           \/ \E s \in Slots, n \in Nets : Listen(s, n) \/ CloseListener(s, n)
  <2>1. live' = live /\ conf' = conf
    BY <1>3 DEF StartFails, Started, Stop, Restart, WdTick, WdLock, WdUnlock,
                WdReturn, vars, engine, Request_, Create, Update, Delete, Load,
                Listen, CloseListener
  <2> QED
    BY <2>1, Stutters
<1>4. ASSUME NEW s \in Slots, Collect(s)
      PROVE  Active' = Active
  <2>1. live' = live /\ \A t \in live : conf'[t] = conf[t]
    BY <1>4 DEF Collect, EngineInv, EngineTypes
  <2> QED
    BY <2>1, Stutters
<1>5. ASSUME NEW h \in Handlers, Reload(h) \/ Remove(h)
      PROVE  Service!Next
  <2>1. req[h] \in Request /\ req[h].pc \in {"loaded", "remove"}
    BY <1>5 DEF Reload, Remove, RestTypes
  <2>2. req[h].rule \in Rules
    BY <2>1 DEF Request, Idle
  <2>3. CASE Reload(h) /\ req[h].row.enabled
    <3>1. req[h].row \in Row
      BY <2>1, <2>3 DEF Reload, Request, Idle
    <3>2. startRule(req[h].rule, req[h].row, live \ {rules[req[h].rule]})
      BY <2>3 DEF Reload, Cancelled
    <3> QED
      BY <2>2, <3>1, <3>2, StartIsInstall
  <2>4. CASE ~(Reload(h) /\ req[h].row.enabled)
    BY <1>5, <2>2, <2>4, DropIsUninstall DEF Reload, Remove
  <2> QED
    BY <2>3, <2>4
<1>6. ASSUME NEW r \in Rules, WdApply(r)
      PROVE  Service!Next \/ Active' = Active
  <2>1. wd.snap[r] \in Row
    BY <1>6 DEF WdApply, LockedRows
  <2>2. CASE rules[r] # None /\ ~wd.snap[r].enabled
    BY <1>6, <2>2, DropIsUninstall DEF WdApply
  <2>3. CASE rules[r] = None /\ wd.snap[r].enabled
    <3>1. startRule(r, wd.snap[r], live)
      BY <1>6, <2>3 DEF WdApply
    <3> QED
      BY <2>1, <2>3, <3>1, StartIsInstall, NoEntryNoInstance
  <2>4. CASE /\ ~(rules[r] # None /\ ~wd.snap[r].enabled)
             /\ ~(rules[r] = None /\ wd.snap[r].enabled)
    BY <1>6, <2>4, Stutters DEF WdApply, engine
  <2> QED
    BY <2>2, <2>3, <2>4
<1> QED
  BY <1>1, <1>2, <1>3, <1>4, <1>5, <1>6 DEF Next, Boot, Watch, Handle

(* The engine, with its locks, snapshots and asynchronous listeners,       *)
(* implements ForwardService: a rule is served under at most one           *)
(* configuration and each switch is atomic.                                *)
THEOREM Refinement == Spec => ImplementsService
<1>1. Init => Service!Init
  BY DEF Init, Service!Init
<1>2. IInv /\ [Next]_vars => [Service!Next]_Active
  BY StepImplements
<1> QED
  BY <1>1, <1>2, Invariance, PTL
     DEF Spec, ImplementsService, Service!Spec, Active, Serving_

-----------------------------------------------------------------------------
(* What a waiting client may rely on: the running port is the stored one.  *)
(*                                                                         *)
(* The watchdog may apply a snapshot of any age.  It does no harm because  *)
(* a rule that the snapshot can still start - no entry, its turn yet to    *)
(* come, its row enabled - has not been written since the snapshot: a      *)
(* write ends with an entry, or with a row that is not enabled.            *)

(* A rule has one request at a time, and what that read is still stored.   *)
OneAtATime ==
    /\ \A h, g \in Handlers :
          req[h].pc # "idle" /\ req[g].pc # "idle" /\ req[h].rule = req[g].rule
             => h = g
    /\ \A h \in Handlers :
          /\ req[h].pc = "loaded" => req[h].row = db[req[h].rule]
          /\ req[h].pc = "remove" =>
                db[req[h].rule] = Gone \/ req[h].rule \in missed

LockedApplies == mu => wd.pc = "apply"

BootFresh ==
    phase = "boot" =>
        /\ \A r \in Rules : wd.snap[r] \in Row => wd.snap[r] = db[r]
        /\ \A r \in Rules : rules[r] # None => conf[rules[r]].port = db[r].port

(* The watchdog has yet to come to rule r.                                 *)
Ahead(r) == wd.pc = "apply" /\ (mu => r \in wd.todo)

Fresh(r) ==
    db[r] \in Row /\ db[r].enabled =>
        /\ rules[r] # None => conf[rules[r]].port = db[r].port
        /\ rules[r] = None /\ Ahead(r) /\ wd.snap[r] \in Row => wd.snap[r] = db[r]

FreshInv ==
    /\ OneAtATime
    /\ LockedApplies
    /\ BootFresh
    /\ phase = "running" => \A r \in Rules \ missed : Settled(r) => Fresh(r)

(* Nothing happens to the entry of rule r.                                 *)
Same(r) ==
    /\ rules'[r] = rules[r]
    /\ rules[r] # None => conf'[rules[r]] = conf[rules[r]]

LEMMA StartIsFresh ==
    ASSUME EngineInv, NEW r \in Rules, NEW row \in Row, NEW C,
           startRule(r, row, C)
    PROVE  /\ rules'[r] # None /\ conf'[rules'[r]].port = row.port
           /\ \A q \in Rules \ {r} : Same(q)
<1>1. PICK s \in Slots : Placed(r, row, C, s)
  BY StartRuleStep
<1>2. /\ conf[s] = None
      /\ rules'[r] = s /\ \A q \in Rules \ {r} : rules'[q] = rules[q]
      /\ conf'[s] = [rule |-> r, port |-> row.port]
      /\ \A t \in Slots \ {s} : conf'[t] = conf[t]
  BY <1>1 DEF Placed, EngineInv, EngineTypes
<1>3. s # None
  BY ForwardAssumption
<1>4. \A q \in Rules \ {r} : rules[q] # None => rules[q] \in Slots \ {s}
  BY <1>2 DEF EngineInv, EngineTypes, EntriesOwn
<1> QED
  BY <1>2, <1>3, <1>4 DEF Same

LEMMA DropIsFresh ==
    ASSUME EngineInv, NEW r \in Rules, drop(r)
    PROVE  rules'[r] = None /\ \A q \in Rules \ {r} : Same(q)
BY DropInv DEF drop, Same

LEMMA RequestShape ==
    ASSUME RestTypes, NEW h \in Handlers
    PROVE  /\ req[h].pc # "idle" => req[h].rule \in Rules
           /\ req[h].pc = "loaded" => req[h].row \in Row
BY DEF RestTypes, Request, Idle

(* Only rule r gains or loses its mark.                                    *)
OthersMarked(r) == \A q \in Rules \ {r} : q \in missed' <=> q \in missed

(* A statement on rule r.                                                  *)
LEMMA WriteFresh ==
    ASSUME Serial, IInv, FreshInv, NEW h \in Handlers, NEW r \in Rules,
           NEW new \in Row \cup {Gone}, NEW mine \in Request,
           mine.pc \in {"written", "remove"}, mine.rule = r,
           mine.pc = "remove" => new = Gone \/ r \in missed',
           MayWrite(h, r), OthersMarked(r),
           db' = [db EXCEPT ![r] = new],
           req' = [req EXCEPT ![h] = mine],
           UNCHANGED <<engine, mu, wd, phase, restarts>>
    PROVE  FreshInv'
<1> USE DEF IInv, FreshInv
<1>1. /\ phase \notin {"boot", "down"} /\ req[h].pc = "idle" /\ Settled(r)
  BY DEF MayWrite, Serving, Settled
<1>2. /\ db'[r] = new /\ \A q \in Rules \ {r} : db'[q] = db[q]
      /\ req'[h] = mine /\ \A g \in Handlers \ {h} : req'[g] = req[g]
  BY DEF RestTypes, Table
<1>3. \A g \in Handlers : req[g].pc # "idle" => req[g].rule \in Rules \ {r}
  BY <1>1, RequestShape DEF Settled
<1>4. OneAtATime'
  BY <1>1, <1>2, <1>3 DEF OneAtATime, OthersMarked
<1>5. LockedApplies' /\ BootFresh'
  BY <1>1 DEF LockedApplies, BootFresh
<1>6. ASSUME phase' = "running", NEW q \in Rules, q \notin missed', Settled(q)'
      PROVE  Fresh(q)'
  <2>1. q # r
    BY <1>2, <1>6 DEF Settled
  <2>2. Settled(q) /\ q \notin missed
    BY <1>1, <1>2, <1>6, <2>1 DEF Settled, OthersMarked
  <2> QED
    BY <1>2, <1>6, <2>1, <2>2 DEF Fresh, Ahead, engine
<1> QED
  BY <1>4, <1>5, <1>6

LEMMA StatementFresh ==
    ASSUME Serial, IInv, FreshInv, NEW h \in Handlers, Request_(h)
    PROVE  FreshInv'
<1>1. Unborn # Gone /\ Gone \notin Row
  BY ForwardAssumption DEF Absent
<1> DEFINE written(r) == [pc |-> "written", rule |-> r]
<1>2. ASSUME NEW r \in Rules
      PROVE  written(r) \in Request /\ [pc |-> "remove", rule |-> r] \in Request
  BY DEF Request
<1>3. ASSUME NEW r \in Rules, NEW row \in Row, Create(h, r, row)
      PROVE  FreshInv'
  BY <1>1, <1>2, <1>3, WriteFresh DEF Create, OthersMarked
<1>4. ASSUME NEW r \in Rules, NEW row \in Row, Update(h, r, row)
      PROVE  FreshInv'
  <2> DEFINE new == IF db[r] = Gone THEN Gone ELSE row
  <2>1. db' = [db EXCEPT ![r] = new] /\ new \in Row \cup {Gone}
    BY <1>4 DEF Update
  <2> QED
    BY <1>1, <1>2, <1>4, <2>1, WriteFresh DEF Update, OthersMarked
<1>5. ASSUME NEW r \in Rules, Delete(h, r)
      PROVE  FreshInv'
  <2> DEFINE mine == [pc |-> "remove", rule |-> r]
  <2>1. /\ MayWrite(h, r) /\ OthersMarked(r)
        /\ req' = [req EXCEPT ![h] = mine]
        /\ UNCHANGED <<engine, mu, wd, phase, restarts>>
    BY <1>5 DEF Delete, OthersMarked
  <2>2. mine \in Request /\ mine.pc = "remove" /\ mine.rule = r
    BY <1>2
  <2> HIDE DEF mine
  <2>3. CASE db' = [db EXCEPT ![r] = Gone]
    BY <2>1, <2>2, <2>3, WriteFresh
  <2>4. CASE db' = db /\ missed' = missed \cup {r}
    <3>1. db[r] \in Row \cup {Gone} /\ db' = [db EXCEPT ![r] = db[r]]
      BY <1>5, <2>4 DEF Delete, IInv, RestTypes, Table, Absent
    <3> QED
      BY <2>1, <2>2, <2>4, <3>1, WriteFresh
  <2> QED
    BY <1>5, <2>3, <2>4 DEF Delete
<1> QED
  BY <1>3, <1>4, <1>5 DEF Request_

(* A request goes on.  If it ends, what the engine has of its rule is      *)
(* fresh, or the rule is marked.                                           *)
LEMMA HandleFresh ==
    ASSUME Serial, IInv, FreshInv, NEW h \in Handlers, NEW r \in Rules,
           req[h].pc # "idle", req[h].rule = r,
           NEW next \in Request,
           next.pc # "idle" => next.rule = r,
           next.pc = "loaded" => next.row = db[r],
           next.pc # "remove",
           req' = [req EXCEPT ![h] = next],
           UNCHANGED <<db, mu, wd, phase>>,
           \A q \in Rules \ {r} : Same(q), OthersMarked(r),
           next.pc = "idle" => r \in missed' \/ Fresh(r)'
    PROVE  FreshInv'
<1> USE DEF IInv, FreshInv
<1>1. phase \notin {"boot", "down"}
  BY DEF AloneBefore
<1>2. req'[h] = next /\ \A g \in Handlers \ {h} : req'[g] = req[g]
  BY DEF RestTypes
<1>3. OneAtATime'
  <2>1. \A g \in Handlers \ {h} : req[g].pc # "idle" =>
            req[g].rule \in Rules \ {r}
    BY RequestShape DEF OneAtATime
  <2> QED
    BY <1>2, <2>1 DEF OneAtATime, OthersMarked
<1>4. LockedApplies' /\ BootFresh'
  BY <1>1 DEF LockedApplies, BootFresh
<1>5. ASSUME phase' = "running", NEW q \in Rules, q \notin missed', Settled(q)'
      PROVE  Fresh(q)'
  <2>1. CASE q = r
    BY <1>2, <1>5, <2>1 DEF Settled
  <2>2. CASE q # r
    <3>1. Settled(q) /\ Same(q) /\ q \notin missed
      BY <1>2, <1>5, <2>2 DEF Settled, OthersMarked
    <3> QED
      BY <1>5, <3>1 DEF Fresh, Ahead, Same
  <2> QED
    BY <2>1, <2>2
<1> QED
  BY <1>3, <1>4, <1>5

LEMMA LoadFresh ==
    ASSUME Serial, IInv, FreshInv, NEW h \in Handlers, Load(h)
    PROVE  FreshInv'
<1>0. PICK r \in Rules : r = req[h].rule /\ req[h].pc = "written"
  BY RequestShape DEF Load, IInv
<1>1. /\ UNCHANGED <<db, engine, mu, wd, phase>>
      /\ \A q \in Rules \ {r} : Same(q)
      /\ OthersMarked(r)
  BY <1>0 DEF Load, Same, engine, OthersMarked
<1>2. CASE /\ db[r] \in Row
           /\ req' = [req EXCEPT ![h] = [pc |-> "loaded", rule |-> r,
                                         row |-> db[r]]]
  <2> DEFINE next == [pc |-> "loaded", rule |-> r, row |-> db[r]]
  <2>1. /\ next \in Request /\ next.pc = "loaded" /\ next.rule = r
        /\ next.row = db[r] /\ req' = [req EXCEPT ![h] = next]
    BY <1>2 DEF Request
  <2> HIDE DEF next
  <2> QED
    BY <1>0, <1>1, <2>1, HandleFresh
<1>3. CASE /\ req' = [req EXCEPT ![h] = [pc |-> "idle"]]
           /\ missed' = missed \cup {q \in {r} : db[q] \in Row}
  <2> DEFINE next == [pc |-> "idle"]
  <2>1. /\ next \in Request /\ next.pc = "idle"
        /\ req' = [req EXCEPT ![h] = next]
    BY <1>3 DEF Request, Idle
  <2>2. r \in missed' \/ Fresh(r)'
    BY <1>1, <1>3 DEF Fresh
  <2> HIDE DEF next
  <2> QED
    BY <1>0, <1>1, <2>1, <2>2, HandleFresh
<1> QED
  BY <1>0, <1>2, <1>3 DEF Load

LEMMA ApplyFresh ==
    ASSUME Serial, IInv, FreshInv, NEW h \in Handlers, Reload(h) \/ Remove(h)
    PROVE  FreshInv'
<1>0. PICK r \in Rules : r = req[h].rule /\ req[h].pc \in {"loaded", "remove"}
  BY RequestShape DEF Reload, Remove, IInv
<1> DEFINE idle == [pc |-> "idle"]
<1>1. /\ req' = [req EXCEPT ![h] = idle]
      /\ UNCHANGED <<db, mu, wd, phase>>
      /\ EngineInv /\ OthersMarked(r) /\ missed' = missed
  BY DEF Reload, Remove, IInv, OthersMarked
<1>2. idle \in Request /\ idle.pc = "idle"
  BY DEF Request, Idle
<1>3. /\ \A q \in Rules \ {r} : Same(q)
      /\ r \in missed' \/ Fresh(r)'
  <2>1. CASE Reload(h)
    <3>1. PICK row \in Row : row = req[h].row /\ req[h].pc = "loaded"
      BY <2>1, RequestShape DEF Reload, IInv
    <3>2. row = db[r] /\ db' = db
      BY <1>0, <1>1, <3>1 DEF FreshInv, OneAtATime
    <3>3. CASE row.enabled
      <4>1. startRule(r, row, Cancelled(r))
        BY <1>0, <2>1, <3>1, <3>3 DEF Reload
      <4> QED
        BY <1>1, <3>2, <4>1, StartIsFresh DEF Fresh
    <3>4. CASE ~row.enabled
      <4>1. drop(r)
        BY <1>0, <2>1, <3>1, <3>4 DEF Reload
      <4> QED
        BY <1>1, <3>2, <3>4, <4>1, DropIsFresh DEF Fresh
    <3> QED
      BY <3>3, <3>4
  <2>2. CASE Remove(h)
    <3>1. /\ drop(r) /\ Gone \notin Row /\ db' = db
          /\ db[r] = Gone \/ r \in missed
      BY <1>0, <2>2, ForwardAssumption DEF Remove, FreshInv, OneAtATime, Absent
    <3> QED
      BY <1>1, <3>1, DropIsFresh DEF Fresh
  <2> QED
    BY <2>1, <2>2
<1> QED
  BY <1>0, <1>1, <1>2, <1>3, HandleFresh

(* The watchdog: rules that are settled are the same in its snapshot and   *)
(* in the table if it may start them.                                      *)
LEMMA WatchFresh ==
    ASSUME Serial, IInv, FreshInv, Watch \/ WdReturn
    PROVE  FreshInv'
<1> USE DEF IInv, FreshInv
<1>1. /\ UNCHANGED <<db, req, phase, missed>> /\ phase # "boot"
      /\ wd \in Watchdog
  BY DEF Watch, WdTick, WdLock, WdApply, WdUnlock, WdReturn, AloneBefore,
         RestTypes
<1>2. OneAtATime' /\ BootFresh' /\ \A q \in Rules : Settled(q)' <=> Settled(q)
  BY <1>1 DEF OneAtATime, BootFresh, Settled
<1>3. CASE WdTick
  <2>1. /\ wd'.pc = "apply" /\ UNCHANGED engine
        /\ \A q \in Rules : wd'.snap[q] \in Row => wd'.snap[q] = db[q]
    BY <1>3, ReadIsPart DEF WdTick
  <2>2. \A q \in Rules : Fresh(q) => Fresh(q)'
    BY <1>1, <2>1 DEF Fresh, engine
  <2> QED
    BY <1>1, <1>2, <2>1, <2>2 DEF LockedApplies
<1>4. CASE WdLock
  <2>1. /\ wd.pc = "apply" /\ ~mu /\ UNCHANGED engine
        /\ wd'.pc = "apply" /\ wd'.snap = wd.snap
    BY <1>1, <1>4 DEF WdLock, Watchdog
  <2>2. \A q \in Rules : Fresh(q) => Fresh(q)'
    BY <1>1, <2>1 DEF Fresh, Ahead, engine
  <2> QED
    BY <1>1, <1>2, <2>1, <2>2 DEF LockedApplies
<1>5. ASSUME NEW r \in Rules, WdApply(r)
      PROVE  FreshInv'
  <2>1. /\ mu /\ mu' /\ r \in wd.todo /\ wd.pc = "apply"
        /\ wd.snap[r] \in Row
        /\ wd'.pc = "apply" /\ wd'.snap = wd.snap /\ wd'.todo = wd.todo \ {r}
    BY <1>1, <1>5 DEF WdApply, Watchdog, LockedRows, LockedApplies
  <2>2. \A q \in Rules \ {r} : Same(q)
    <3>1. CASE drop(r)
      BY <3>1, DropIsFresh
    <3>2. CASE startRule(r, wd.snap[r], live)
      BY <2>1, <3>2, StartIsFresh
    <3>3. CASE UNCHANGED engine
      BY <3>3 DEF engine, Same
    <3> QED
      BY <1>5, <3>1, <3>2, <3>3 DEF WdApply
  <2>3. \A q \in Rules \ {r} : Fresh(q) => Fresh(q)'
    BY <1>1, <2>1, <2>2 DEF Fresh, Ahead, Same
  <2>4. Fresh(r) => Fresh(r)'
    <3>1. CASE rules[r] # None /\ ~wd.snap[r].enabled
      <4>1. rules'[r] = None
        BY <1>5, <3>1, DropIsFresh DEF WdApply
      <4> QED
        BY <2>1, <4>1 DEF Fresh, Ahead
    <3>2. CASE rules[r] = None /\ wd.snap[r].enabled
      <4>1. startRule(r, wd.snap[r], live)
        BY <1>5, <3>2 DEF WdApply
      <4>2. rules'[r] # None /\ conf'[rules'[r]].port = wd.snap[r].port
        BY <2>1, <4>1, StartIsFresh
      <4> QED
        BY <1>1, <2>1, <3>2, <4>2 DEF Fresh, Ahead
    <3>3. CASE /\ ~(rules[r] # None /\ ~wd.snap[r].enabled)
               /\ ~(rules[r] = None /\ wd.snap[r].enabled)
      <4>1. UNCHANGED engine
        BY <1>5, <3>3 DEF WdApply
      <4> QED
        BY <1>1, <2>1, <4>1 DEF Fresh, Ahead, engine
    <3> QED
      BY <3>1, <3>2, <3>3
  <2> QED
    BY <1>1, <1>2, <2>1, <2>3, <2>4 DEF LockedApplies
<1>6. CASE WdUnlock \/ WdReturn
  <2>1. wd'.pc # "apply" /\ ~mu' /\ UNCHANGED engine
    <3>1. CASE WdUnlock
      <4>1. [NoWatchdog EXCEPT !.pc = "wait"].pc = "wait"
        BY DEF NoWatchdog
      <4> QED
        BY <3>1, <4>1 DEF WdUnlock
    <3>2. CASE WdReturn
      BY <3>2, NoWatchdogType DEF WdReturn, LockedApplies
    <3> QED
      BY <1>6, <3>1, <3>2
  <2>2. \A q \in Rules : Fresh(q) => Fresh(q)'
    BY <1>1, <2>1 DEF Fresh, Ahead, engine
  <2> QED
    BY <1>1, <1>2, <2>1, <2>2 DEF LockedApplies
<1> QED
  BY <1>3, <1>4, <1>5, <1>6 DEF Watch

LEMMA BootIsFresh ==
    ASSUME IInv, FreshInv, Boot
    PROVE  FreshInv'
<1> USE DEF IInv, FreshInv
<1>1. phase = "boot" /\ UNCHANGED <<db, mu, req, missed>> /\ ~mu
  BY DEF Boot, StartRule, StartFails, Started, AloneBefore
<1>2. OneAtATime' /\ LockedApplies'
  BY <1>1 DEF OneAtATime, LockedApplies
<1>3. ASSUME NEW r \in Rules, StartRule(r)
      PROVE  FreshInv'
  <2>1. /\ phase' = "boot" /\ r \in wd.todo /\ rules[r] = None
        /\ wd'.snap = wd.snap
        /\ wd.snap[r] \in Row => wd.snap[r] = db[r]
    BY <1>1, <1>3 DEF StartRule, BootTodo, BootFresh, RestTypes, Watchdog
  <2>2. CASE wd.snap[r] \in Row /\ wd.snap[r].enabled
    <3>1. startRule(r, wd.snap[r], live)
      BY <1>3, <2>2 DEF StartRule
    <3>2. conf'[rules'[r]].port = db[r].port /\ \A q \in Rules \ {r} : Same(q)
      BY <2>1, <2>2, <3>1, StartIsFresh
    <3>3. BootFresh'
      BY <1>1, <2>1, <3>2 DEF BootFresh, Same
    <3> QED
      BY <1>2, <2>1, <3>3
  <2>3. CASE ~(wd.snap[r] \in Row /\ wd.snap[r].enabled)
    <3>1. UNCHANGED engine
      BY <1>3, <2>3 DEF StartRule
    <3>2. BootFresh'
      BY <1>1, <2>1, <3>1 DEF BootFresh, engine
    <3> QED
      BY <1>2, <2>1, <3>2
  <2> QED
    BY <2>2, <2>3
<1>4. CASE Started
  <2>1. UNCHANGED engine /\ wd'.pc = "wait" /\ phase' = "running"
    BY <1>4 DEF Started, NoWatchdog
  <2>2. \A q \in Rules : Fresh(q)'
    BY <1>1, <2>1 DEF BootFresh, Fresh, Ahead, engine
  <2> QED
    BY <1>2, <2>1, <2>2 DEF BootFresh
<1>5. CASE StartFails
  <2>1. UNCHANGED engine /\ phase' = "running" /\ wd'.pc = "off"
    BY <1>5, NoWatchdogType DEF StartFails
  <2>2. \A q \in Rules : rules[q] = None
    BY <1>1, <1>5 DEF StartFails, BootTodo
  <2>3. \A q \in Rules : Fresh(q)'
    BY <2>1, <2>2 DEF Fresh, Ahead, engine
  <2> QED
    BY <1>2, <2>1, <2>3 DEF BootFresh
<1> QED
  BY <1>3, <1>4, <1>5 DEF Boot

LEMMA LifeFresh ==
    ASSUME IInv, FreshInv, Stop \/ StopCancel \/ Exit \/ Restart
    PROVE  FreshInv'
<1> USE DEF IInv, FreshInv
<1>1. CASE Stop \/ StopCancel
  BY <1>1 DEF Stop, StopCancel, OneAtATime, LockedApplies, BootFresh
<1>2. CASE Exit
  BY <1>2 DEF Exit, OneAtATime, LockedApplies, BootFresh
<1>3. CASE Restart
  <2>1. /\ phase' = "boot" /\ ~mu' /\ UNCHANGED <<db, req, engine>>
        /\ \A r \in Rules : rules'[r] = None
        /\ missed' = missed
    BY <1>3 DEF Restart, AloneBefore, DeadOwnsNothing, engine
  <2>2. \A r \in Rules : wd'.snap[r] \in Row => wd'.snap[r] = db[r]
    <3>1. PICK t \in GetRules :
             wd' = [NoWatchdog EXCEPT !.snap = t, !.todo = Rules]
      BY <1>3 DEF Restart
    <3>2. wd'.snap = t
      BY <3>1 DEF NoWatchdog
    <3> QED
      BY <3>2, ReadIsPart
  <2> QED
    BY <2>1, <2>2 DEF OneAtATime, LockedApplies, BootFresh
<1> QED
  BY <1>1, <1>2, <1>3

LEMMA SocketFresh ==
    ASSUME IInv, FreshInv,
           \/ UNCHANGED vars
           \/ \E s \in Slots : Collect(s)
           \/ \E s \in Slots, n \in Nets : Listen(s, n) \/ CloseListener(s, n)
    PROVE  FreshInv'
<1> USE DEF IInv, FreshInv
<1>1. UNCHANGED <<db, rules, mu, wd, req, phase, missed>>
  BY DEF vars, Collect, Listen, CloseListener
<1>2. \A r \in Rules : Same(r)
  BY <1>1 DEF Same, vars, Collect, Listen, CloseListener, EngineInv, EngineTypes
<1>3. \A r \in Rules : (Settled(r)' => Settled(r)) /\ (Fresh(r) => Fresh(r)')
  BY <1>1, <1>2 DEF Settled, Fresh, Ahead, Same
<1>4. OneAtATime' /\ LockedApplies' /\ BootFresh'
  BY <1>1, <1>2 DEF OneAtATime, LockedApplies, BootFresh, Same
<1> QED
  BY <1>1, <1>3, <1>4

LEMMA FreshInitHolds == Init => FreshInv
<1> SUFFICES ASSUME Init PROVE FreshInv
  OBVIOUS
<1>1. PICK t \in GetRules : wd = [NoWatchdog EXCEPT !.snap = t, !.todo = Rules]
  BY DEF Init
<1>2. \A r \in Rules : wd.snap[r] \in Row => wd.snap[r] = db[r]
  BY <1>1, ReadIsPart DEF NoWatchdog
<1> QED
  BY <1>2 DEF Init, FreshInv, OneAtATime, LockedApplies, BootFresh

LEMMA FreshNextKeeps ==
    ASSUME Serial
    PROVE  IInv /\ FreshInv /\ [Next]_vars => FreshInv'
<1> SUFFICES ASSUME IInv, FreshInv, [Next]_vars PROVE FreshInv'
  OBVIOUS
<1>1. CASE Boot \/ Stop \/ StopCancel \/ Exit \/ Restart
  BY <1>1, BootIsFresh, LifeFresh
<1>2. CASE \E h \in Handlers : Request_(h) \/ Handle(h)
  BY <1>2, StatementFresh, LoadFresh, ApplyFresh DEF Handle
<1>3. CASE Watch \/ WdReturn
  BY <1>3, WatchFresh
<1>4. CASE \/ UNCHANGED vars
           \/ \E s \in Slots : Collect(s)
           \/ \E s \in Slots, n \in Nets : Listen(s, n) \/ CloseListener(s, n)
  BY <1>4, SocketFresh
<1> QED
  BY <1>1, <1>2, <1>3, <1>4 DEF Next

(* A client that waits for its answers: whatever snapshot the watchdog     *)
(* applies and whatever reads miss, a rule that runs and whose requests    *)
(* returned runs the stored port, unless its last change could not be read *)
(* back or its DELETE failed.                                              *)
THEOREM ConfigFreshHolds == Serial => (Spec => []ConfigFresh)
<1> SUFFICES ASSUME Serial PROVE Spec => []ConfigFresh
  OBVIOUS
<1>1. FreshInv => ConfigFresh
  BY DEF FreshInv, Fresh, ConfigFresh
<1>2. IInv /\ FreshInv /\ [Next]_vars => FreshInv'
  BY FreshNextKeeps
<1> QED
  BY <1>1, <1>2, FreshInitHolds, Invariance, PTL DEF Spec
-----------------------------------------------------------------------------
(* After Stop *)

(* A start concerns one rule: the others keep their entries and contexts.  *)
LEMMA StartsNoOther ==
    ASSUME EngineInv, NEW r \in Rules, NEW row, NEW C, C \subseteq live,
           startRule(r, row, C), NEW q \in Rules \ {r}, rules[q] # None,
           rules[q] \notin live
    PROVE  rules'[q] \notin live'
<1>1. PICK s \in FreeSlots :
         /\ rules' = [rules EXCEPT ![r] = s]
         /\ live' = C \cup {s}
  BY DEF startRule, FreeSlots
<1>2. rules'[q] = rules[q]
  BY <1>1 DEF EngineInv, EngineTypes
<1>3. rules[q] # s
  BY <1>1, ForwardAssumption
     DEF FreeSlots, Free, EngineInv, EngineTypes, EntriesOwn, Config
<1> QED
  BY <1>1, <1>2, <1>3

LEMMA DropsOnly ==
    ASSUME EngineInv, NEW r \in Rules, drop(r), NEW q \in Rules,
           rules[q] \notin live
    PROVE  rules'[q] = None \/ rules'[q] \notin live'
BY DEF drop, Cancelled, EngineInv, EngineTypes

(* After Stop the watchdog may go on, but what it does about a rule that   *)
(* has an entry is to drop it; only an update in flight starts such a rule.*)
THEOREM StopIsFinal == Spec => StopHolds
<1> DEFINE P == \A r \in Rules :
          /\ phase = "stopped" /\ phase' = "stopped"
          /\ rules[r] # None /\ rules[r] \notin live
          /\ rules'[r] \in live'
          => \E h \in Handlers :
                req[h].pc = "loaded" /\ req[h].rule = r /\ req'[h].pc = "idle"
<1>1. ASSUME IInv, [Next]_vars PROVE [P]_vars
  <2> SUFFICES ASSUME NEW q \in Rules,
                      phase = "stopped", phase' = "stopped",
                      rules[q] # None, rules[q] \notin live, rules'[q] \in live'
               PROVE  \E h \in Handlers : /\ req[h].pc = "loaded"
                                          /\ req[h].rule = q /\ req'[h].pc = "idle"
    OBVIOUS
  <2> USE <1>1 DEF IInv
  <2>0. None \notin live /\ None \notin live'
    BY NextInv, ForwardAssumption DEF EngineInv, EngineTypes
  <2>1. ASSUME UNCHANGED <<rules, live>> PROVE FALSE
    BY <2>1
  <2>2. ASSUME NEW h \in Handlers, Reload(h) PROVE req[h].rule = q
    <3> DEFINE r == req[h].rule
    <3>1. r \in Rules
      BY <2>2 DEF Reload, RestTypes, Request, Idle
    <3>2. CASE startRule(r, req[h].row, Cancelled(r))
      BY <3>1, <3>2, StartsNoOther DEF Cancelled
    <3>3. CASE drop(r)
      BY <3>1, <3>3, <2>0, DropsOnly
    <3> QED
      BY <2>2, <3>2, <3>3 DEF Reload
  <2>3. ASSUME NEW h \in Handlers, Reload(h) PROVE req[h].pc = "loaded" /\ req'[h].pc = "idle"
    BY <2>3 DEF Reload, RestTypes
  <2>4. ASSUME NEW h \in Handlers, Remove(h) PROVE FALSE
    <3>1. req[h].rule \in Rules
      BY <2>4 DEF Remove, RestTypes, Request, Idle
    <3> QED
      BY <3>1, <2>0, <2>4, DropsOnly DEF Remove
  <2>5. ASSUME NEW r \in Rules, WdApply(r) PROVE FALSE
    <3>1. CASE drop(r)
      BY <3>1, <2>0, DropsOnly
    <3>2. CASE rules[r] = None /\ startRule(r, wd.snap[r], live)
      BY <3>2, StartsNoOther
    <3> QED
      BY <2>5, <3>1, <3>2, <2>1 DEF WdApply, engine
  <2>6. ASSUME NEW s \in Slots, Collect(s) \/ \E n \in Nets : Listen(s, n) \/ CloseListener(s, n)
        PROVE  FALSE
    BY <2>1, <2>6 DEF Collect, Listen, CloseListener
  <2>7. CASE Boot \/ Stop \/ StopCancel \/ Exit \/ Restart
    BY <2>7 DEF Boot, StartRule, StartFails, Started, Stop, StopCancel, Exit, Restart
  <2>8. CASE WdTick \/ WdLock \/ WdUnlock \/ WdReturn \/ UNCHANGED vars
    BY <2>1, <2>8 DEF WdTick, WdLock, WdUnlock, WdReturn, vars, engine
  <2>9. ASSUME NEW h \in Handlers, Request_(h) \/ Load(h) PROVE FALSE
    BY <2>1, <2>9 DEF Request_, Create, Update, Delete, Load, engine
  <2> QED
    BY <2>2, <2>3, <2>4, <2>5, <2>6, <2>7, <2>8, <2>9 DEF Next, Handle, Watch
<1> QED
  BY <1>1, Invariance, PTL DEF Spec, StopHolds
=============================================================================
