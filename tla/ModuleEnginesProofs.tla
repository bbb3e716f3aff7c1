------------------------- MODULE ModuleEnginesProofs -------------------------
(***************************************************************************)
(* Proofs about ModuleEngines for every set of rows, values, cells and     *)
(* request goroutines, and every bound.                                    *)
(*                                                                         *)
(* The inductive invariant has two halves.  The engine's: an entry of the  *)
(* map always refers to an instance of its own row, and an instance that   *)
(* is not cancelled is an entry.  The requests': what Start has looked at  *)
(* agrees with the table, the rows it missed apart; a client that waits    *)
(* has one request a row, and the row that request read is still the       *)
(* table's; between two requests the entry of the row is what the table    *)
(* says, unless the last change of it was missed.                          *)
(***************************************************************************)
EXTENDS ModuleEngines, TLAPS

(* An entry of the map refers to an instance of its own row, also after    *)
(* Stop, when its context is cancelled.                                    *)
EntriesOwn ==
    \A r \in Resources : jobs[r] # None =>
        conf[jobs[r]] # None /\ conf[jobs[r]].id = r

EngineTypes ==
    /\ engine \in Engines
    /\ jobs \in [Resources -> Cells \cup {None}]
    /\ conf \in [Cells -> Config \cup {None}]
    /\ live \subseteq Cells
    /\ work \in [Cells -> Works]
    /\ held \in [Cells -> Addresses \cup {None}]

EngineInv == EngineTypes /\ NoOrphan /\ EntriesOwn

(* The state of the process around the engine.                             *)
RestTypes ==
    /\ serial \in BOOLEAN
    /\ db \in Table
    /\ address \in Addresses
    /\ record \in [Watched -> Addresses \cup {None}]
    /\ req \in [Handlers -> Request]
    /\ phase \in {"boot", "running", "stopped", "down"}
    /\ boot \in [snap : Table, todo : SUBSET Resources]
    /\ events \in 0..MaxEvents
    /\ missed \subseteq Resources

(* Start reads the table before anybody can change it, but for the rows it *)
(* misses, and has not touched the rows that are still to come.            *)
Starting ==
    phase = "boot" =>
        \A r \in Resources :
            /\ r \in missed => boot.snap[r] \notin Row
            /\ r \notin missed /\ db[r] \in Row => boot.snap[r] = db[r]
            /\ db[r] \notin Row => boot.snap[r] \notin Row
            /\ r \in boot.todo => jobs[r] = None
            /\ r \notin boot.todo /\ jobs[r] # None =>
                  Wanted(r) /\ conf[jobs[r]].value = db[r].value
            /\ r \notin boot.todo /\ r \notin missed /\ Wanted(r) =>
                  jobs[r] # None \/ Refuses(db[r])

(* What is missed is a stored row.                                         *)
MissedStored == \A r \in missed : db[r] \in Row

DeadOwnsNothing == phase = "down" => \A r \in Resources : jobs[r] = None

NoneBefore ==
    phase \in {"down", "boot"} => \A h \in Handlers : req[h].pc = "idle"

(* Requests that publish belong to the two engines that listen.            *)
Listeners ==
    \A h \in Handlers : req[h].pc # "idle" => engine \in {"ddns", "stun"}

(* With a client that waits for its answers a row has one request at a     *)
(* time, what that request read is what the table holds, and the row of a  *)
(* DELETE is gone or known to be missed.                                   *)
OneAtATime ==
    serial =>
        /\ \A h, g \in Handlers :
              req[h].pc # "idle" /\ req[g].pc # "idle" /\ req[h].id = req[g].id
                 => h = g
        /\ \A h \in Handlers :
              /\ req[h].pc = "loaded" => req[h].row = db[req[h].id]
              /\ req[h].pc = "remove" =>
                    db[req[h].id] = Gone \/ req[h].id \in missed

(* The engine follows the table in resource r.                             *)
Follows(r) ==
    /\ engine \in {"ddns", "stun"} /\ jobs[r] # None =>
          Wanted(r) /\ conf[jobs[r]].value = db[r].value
    /\ engine = "ddns" /\ Wanted(r) => jobs[r] # None

(* An update that found no row will find none to load: nothing runs.       *)
Following ==
    phase = "running" /\ serial =>
        /\ \A r \in Resources : Settled(r) /\ r \notin missed => Follows(r)
        /\ \A h \in Handlers :
              req[h].pc = "written" /\ db[req[h].id] \notin Row =>
                 jobs[req[h].id] = None

ModulesInv ==
    /\ EngineInv
    /\ RestTypes
    /\ Starting
    /\ MissedStored
    /\ DeadOwnsNothing
    /\ NoneBefore
    /\ Listeners
    /\ OneAtATime
    /\ Following

(* The invariant gives the type invariant and the two properties.          *)
LEMMA ModulesParts ==
    ModulesInv => TypeOK /\ NoOrphan /\ FollowsTable
<1> SUFFICES ASSUME ModulesInv
             PROVE  TypeOK /\ NoOrphan /\ FollowsTable
  OBVIOUS
<1>1. TypeOK /\ NoOrphan
  BY DEF ModulesInv, EngineInv, EngineTypes, RestTypes, TypeOK
<1>2. FollowsTable
  BY DEF ModulesInv, Following, Follows, FollowsTable
<1> QED
  BY <1>1, <1>2

-----------------------------------------------------------------------------
(* What a start and a drop do to the engine *)

(* Nothing happens to the entry of row r.                                  *)
Same(r) ==
    /\ jobs'[r] = jobs[r]
    /\ jobs[r] # None => conf'[jobs[r]] = conf[jobs[r]]

(* A cell nothing is configured in becomes the instance of r.              *)
Placed(r, row, C, c) ==
    /\ conf[c] = None
    /\ jobs' = [jobs EXCEPT ![r] = c]
    /\ conf' = [conf EXCEPT ![c] = [id |-> r, value |-> row.value]]
    /\ live' = C \cup {c}
    /\ work' = [work EXCEPT ![c] = FirstWork(row)]
    /\ held' = held

LEMMA FirstWorkType == \A row : FirstWork(row) \in Works
BY DEF FirstWork, Works

LEMMA StartJobStep ==
    ASSUME NEW r \in Resources, NEW row \in Row, NEW C,
           startJob(r, row, C), ~Refuses(row)
    PROVE  \E c \in Cells : Placed(r, row, C, c)
<1> DEFINE cell == CHOOSE c \in FreeCells : TRUE
<1>1. cell \in FreeCells
  BY DEF startJob
<1>2. cell \in Cells /\ conf[cell] = None
  BY <1>1 DEF FreeCells
<1> QED
  BY <1>2 DEF startJob, Placed

(* The engine's discipline survives when no live cell is r's any more and  *)
(* the entry of r goes.                                                    *)
LEMMA EntryGoes ==
    ASSUME EngineInv, NEW r \in Resources,
           NEW C \in SUBSET live, jobs[r] \notin C,
           engine' = engine,
           jobs' = [jobs EXCEPT ![r] = None],
           live' = C,
           UNCHANGED <<conf, work, held>>
    PROVE  /\ EngineInv'
           /\ jobs'[r] = None
           /\ \A q \in Resources \ {r} : Same(q)
<1>1. EngineTypes'
  BY DEF EngineInv, EngineTypes
<1>2. jobs'[r] = None /\ \A q \in Resources \ {r} : Same(q)
  BY DEF EngineInv, EngineTypes, Same
<1>3. NoOrphan'
  <2> SUFFICES ASSUME NEW t \in C
               PROVE  conf[t] # None /\ jobs'[conf[t].id] = t
    BY DEF NoOrphan
  <2>1. t \in live /\ t \in Cells /\ t # jobs[r]
    BY DEF EngineInv, EngineTypes
  <2>2. conf[t] # None /\ conf[t] \in Config /\ jobs[conf[t].id] = t
    BY <2>1 DEF EngineInv, EngineTypes, NoOrphan
  <2>3. conf[t].id \in Resources \ {r}
    BY <2>1, <2>2 DEF Config
  <2> QED
    BY <1>2, <2>2, <2>3 DEF Same
<1>4. EntriesOwn'
  BY <1>2 DEF EngineInv, EntriesOwn, Same
<1> QED
  BY <1>1, <1>2, <1>3, <1>4 DEF EngineInv

(* startJob makes r the entry of an instance of the row it was given, or   *)
(* refuses the row and leaves r without one.                               *)
LEMMA StartJobInv ==
    ASSUME EngineInv, NEW r \in Resources, NEW row \in Row,
           NEW C \in SUBSET live, jobs[r] \notin C,
           engine' = engine,
           startJob(r, row, C)
    PROVE  /\ EngineInv'
           /\ \A q \in Resources \ {r} : Same(q)
           /\ jobs'[r] # None <=> ~Refuses(row)
           /\ jobs'[r] # None => conf'[jobs'[r]].value = row.value
<1>1. CASE Refuses(row)
  <2>1. /\ jobs' = [jobs EXCEPT ![r] = None] /\ live' = C
        /\ UNCHANGED <<conf, work, held>>
    BY <1>1 DEF startJob
  <2> QED
    BY <1>1, <2>1, EntryGoes
<1>2. CASE ~Refuses(row)
  <2>1. PICK c \in Cells : Placed(r, row, C, c)
    BY <1>2, StartJobStep
  <2> DEFINE new == [id |-> r, value |-> row.value]
  <2>2. new \in Config /\ new # None /\ None \notin Cells
    BY ModuleAssumption DEF Config, Row
  <2>3. /\ conf[c] = None /\ c \notin live
        /\ \A q \in Resources : jobs[q] # c
    BY <2>1, <2>2 DEF Placed, EngineInv, NoOrphan, EntriesOwn
  <2>4. /\ jobs'[r] = c /\ jobs' \in [Resources -> Cells \cup {None}]
        /\ \A q \in Resources \ {r} : jobs'[q] = jobs[q]
    BY <2>1 DEF Placed, EngineInv, EngineTypes
  <2>5. /\ conf'[c] = new /\ conf' \in [Cells -> Config \cup {None}]
        /\ \A t \in Cells \ {c} : conf'[t] = conf[t]
    BY <2>1, <2>2 DEF Placed, EngineInv, EngineTypes
  <2>6. EngineTypes'
    BY <2>1, <2>4, <2>5, FirstWorkType DEF Placed, EngineInv, EngineTypes
  <2>7. \A q \in Resources \ {r} : Same(q)
    BY <2>3, <2>4, <2>5 DEF EngineInv, EngineTypes, Same
  <2>8. NoOrphan'
    <3> SUFFICES ASSUME NEW t \in live'
                 PROVE  conf'[t] # None /\ jobs'[conf'[t].id] = t
      BY DEF NoOrphan
    <3>1. CASE t = c
      BY <2>2, <2>4, <2>5, <3>1
    <3>2. CASE t # c
      <4>1. t \in C /\ t \in Cells /\ t # jobs[r] /\ t \in live
        BY <2>1, <3>2 DEF Placed, EngineInv, EngineTypes
      <4>2. conf[t] # None /\ conf[t] \in Config /\ jobs[conf[t].id] = t
        BY <4>1 DEF EngineInv, EngineTypes, NoOrphan
      <4>3. conf[t].id \in Resources \ {r}
        BY <4>1, <4>2 DEF Config
      <4> QED
        BY <2>4, <2>5, <3>2, <4>1, <4>2, <4>3
    <3> QED
      BY <3>1, <3>2
  <2>9. EntriesOwn'
    <3> SUFFICES ASSUME NEW q \in Resources, jobs'[q] # None
                 PROVE  conf'[jobs'[q]] # None /\ conf'[jobs'[q]].id = q
      BY DEF EntriesOwn
    <3>1. CASE q = r
      BY <2>2, <2>4, <2>5, <3>1
    <3>2. CASE q # r
      BY <2>7, <3>2 DEF EngineInv, EntriesOwn, Same
    <3> QED
      BY <3>1, <3>2
  <2> QED
    BY <1>2, <2>2, <2>4, <2>5, <2>6, <2>7, <2>8, <2>9 DEF EngineInv
<1> QED
  BY <1>1, <1>2

LEMMA DropInv ==
    ASSUME EngineInv, NEW r \in Resources, engine' = engine, drop(r)
    PROVE  /\ EngineInv'
           /\ jobs'[r] = None
           /\ \A q \in Resources \ {r} : Same(q)
<1>1. /\ jobs' = [jobs EXCEPT ![r] = None]
      /\ live' = live \ {jobs[r]}
      /\ UNCHANGED <<conf, work, held>>
  BY DEF drop, Cancelled
<1> QED
  BY <1>1, EntryGoes

-----------------------------------------------------------------------------
(* Process life *)

(* Before the first row is looked at.                                      *)
LEMMA ReadStarts ==
    ASSUME NEW skipped \in SUBSET Resources, db \in Table,
           NEW b, b = ReadRows(skipped)
    PROVE  /\ b \in [snap : Table, todo : SUBSET Resources]
           /\ b.todo = Resources
           /\ Stored(skipped) \subseteq Resources
           /\ \A r \in Resources :
                 /\ r \in Stored(skipped) => db[r] \in Row /\ b.snap[r] \notin Row
                 /\ r \notin Stored(skipped) /\ db[r] \in Row => b.snap[r] = db[r]
                 /\ db[r] \notin Row => b.snap[r] \notin Row
<1>1. Unborn \notin Row
  BY ModuleAssumption DEF Absent
<1>2. [r \in Resources |-> IF r \in skipped THEN Unborn ELSE db[r]] \in Table
  BY DEF Table, Absent
<1> QED
  BY <1>1, <1>2 DEF ReadRows, Stored

LEMMA ModulesInitHolds == Init => ModulesInv
<1> SUFFICES ASSUME Init PROVE ModulesInv
  OBVIOUS
<1>0. PICK skipped \in SUBSET Resources :
         boot = ReadRows(skipped) /\ missed = Stored(skipped)
  BY DEF Init
<1>1. EngineInv
  BY DEF Init, EngineInv, EngineTypes, NoOrphan, EntriesOwn, Works
<1>2. db \in Table
  BY DEF Init, Table, Absent
<1>3. RestTypes
  BY <1>0, <1>2, ReadStarts, ModuleAssumption
     DEF Init, RestTypes, Addresses, Request, Idle
<1>4. Starting /\ MissedStored
  BY <1>0, <1>2, ReadStarts DEF Init, Starting, MissedStored
<1>5. DeadOwnsNothing /\ NoneBefore
  BY DEF Init, DeadOwnsNothing, NoneBefore
<1>6. Listeners /\ OneAtATime /\ Following
  BY DEF Init, Listeners, OneAtATime, Following
<1> QED
  BY <1>1, <1>3, <1>4, <1>5, <1>6 DEF ModulesInv

LEMMA StartRowKeeps ==
    ASSUME ModulesInv, NEW r \in Resources, StartRow(r)
    PROVE  ModulesInv'
<1> USE DEF ModulesInv
<1> DEFINE row == boot.snap[r]
<1>1. /\ phase = "boot" /\ r \in boot.todo
      /\ boot' = [snap |-> boot.snap, todo |-> boot.todo \ {r}]
      /\ UNCHANGED <<engine, serial, db, outside, req, phase, events, missed>>
  BY DEF StartRow, RestTypes
<1>2. /\ jobs[r] = None /\ jobs[r] \notin live
      /\ row \in Row => row = db[r] /\ db[r] \in Row /\ r \notin missed
  BY <1>1, ModuleAssumption DEF Starting, EngineInv, EngineTypes
<1>3. /\ EngineInv'
      /\ \A q \in Resources \ {r} : Same(q)
      /\ jobs'[r] # None <=> row \in Row /\ row.enabled /\ ~Refuses(row)
      /\ jobs'[r] # None => conf'[jobs'[r]].value = row.value
  <2>1. CASE row \in Row /\ row.enabled
    <3>1. startJob(r, row, live) /\ engine' = engine
      BY <1>1, <2>1 DEF StartRow
    <3> QED
      BY <1>2, <2>1, <3>1, StartJobInv
  <2>2. CASE ~(row \in Row /\ row.enabled)
    <3>1. UNCHANGED instances /\ engine' = engine
      BY <1>1, <2>2 DEF StartRow
    <3> QED
      BY <1>2, <2>2, <3>1
         DEF instances, EngineInv, EngineTypes, NoOrphan, EntriesOwn, Same
  <2> QED
    BY <2>1, <2>2
<1>4. RestTypes'
  BY <1>1 DEF RestTypes, outside
<1>5. Starting'
  <2>1. \A q \in Resources \ {r} :
           /\ jobs'[q] = jobs[q]
           /\ jobs[q] # None => conf'[jobs'[q]] = conf[jobs[q]]
    BY <1>3 DEF Same
  <2>2. \A q \in Resources :
           (Wanted(q) <=> Wanted(q)') /\ (Refuses(db[q]) <=> Refuses(db[q])')
    BY <1>1 DEF Wanted, Refuses
  <2>3. /\ jobs'[r] # None => Wanted(r) /\ conf'[jobs'[r]].value = db[r].value
        /\ r \notin missed /\ Wanted(r) => jobs'[r] # None \/ Refuses(db[r])
    BY <1>1, <1>2, <1>3 DEF Wanted, Starting
  <2>4. /\ phase' = "boot" /\ db' = db /\ missed' = missed
        /\ boot'.snap = boot.snap /\ boot'.todo = boot.todo \ {r}
    BY <1>1
  <2> HIDE DEF row
  <2>5. ASSUME NEW q \in Resources \ {r}
        PROVE /\ q \in boot'.todo => jobs'[q] = None
              /\ q \notin boot'.todo /\ jobs'[q] # None =>
                    Wanted(q)' /\ conf'[jobs'[q]].value = db'[q].value
              /\ q \notin boot'.todo /\ q \notin missed' /\ Wanted(q)' =>
                    jobs'[q] # None \/ Refuses(db[q])'
    BY <1>1, <2>1, <2>2, <2>4 DEF Starting
  <2> QED
    BY <1>1, <2>2, <2>3, <2>4, <2>5 DEF Starting
<1>6. /\ DeadOwnsNothing' /\ NoneBefore' /\ Listeners' /\ OneAtATime'
      /\ Following' /\ MissedStored'
  BY <1>1
     DEF DeadOwnsNothing, NoneBefore, Listeners, OneAtATime, Following, outside,
         MissedStored
<1> QED
  BY <1>3, <1>4, <1>5, <1>6

(* The server comes up: whatever Start did agrees with the table.          *)
LEMMA ServerKeeps ==
    ASSUME ModulesInv, Started
    PROVE  ModulesInv'
<1> USE DEF ModulesInv
<1>1. /\ phase = "boot" /\ phase' = "running"
      /\ boot.todo = {}
      /\ UNCHANGED <<engine, serial, db, instances, outside, req, boot, events,
                     missed>>
  BY DEF Started
<1>2. EngineInv'
  BY <1>1 DEF instances, EngineInv, EngineTypes, NoOrphan, EntriesOwn
<1>3. RestTypes' /\ Starting' /\ DeadOwnsNothing' /\ NoneBefore' /\ MissedStored'
  BY <1>1 DEF RestTypes, outside, Starting, DeadOwnsNothing, NoneBefore, MissedStored
<1>4. Listeners' /\ OneAtATime'
  BY <1>1 DEF Listeners, OneAtATime
<1>5. Following'
  <2>1. \A r \in Resources : r \notin missed => Follows(r)
    BY <1>1 DEF Starting, Follows, Refuses
  <2>2. \A r \in Resources : r \notin missed' => Follows(r)'
    BY <1>1, <2>1 DEF Follows, Wanted, instances
  <2>3. \A h \in Handlers : req'[h].pc = "idle"
    BY <1>1 DEF NoneBefore
  <2> QED
    BY <2>2, <2>3 DEF Following
<1> QED
  BY <1>2, <1>3, <1>4, <1>5

LEMMA StopKeeps ==
    ASSUME ModulesInv, Stop
    PROVE  ModulesInv'
<1> USE DEF ModulesInv, Stop
<1>1. live' \subseteq live
  OBVIOUS
<1>2. EngineInv'
  BY <1>1 DEF EngineInv, EngineTypes, NoOrphan, EntriesOwn
<1>3. RestTypes' /\ Starting' /\ DeadOwnsNothing' /\ NoneBefore' /\ MissedStored'
  BY DEF RestTypes, outside, Starting, DeadOwnsNothing, NoneBefore, MissedStored
<1>4. Listeners' /\ OneAtATime' /\ Following'
  BY DEF Listeners, OneAtATime, Following
<1> QED
  BY <1>2, <1>3, <1>4

LEMMA ExitKeeps ==
    ASSUME ModulesInv, Exit
    PROVE  ModulesInv'
<1> USE DEF ModulesInv, Exit
<1>1. EngineInv'
  BY DEF EngineInv, EngineTypes, NoOrphan, EntriesOwn, Works
<1>2. boot' = [snap |-> boot.snap, todo |-> {}]
  BY DEF RestTypes
<1>3. RestTypes'
  BY <1>2 DEF RestTypes, outside, Request, Idle
<1>4. /\ Starting' /\ DeadOwnsNothing' /\ NoneBefore'
      /\ Listeners' /\ OneAtATime' /\ Following' /\ MissedStored'
  BY DEF Starting, DeadOwnsNothing, NoneBefore, Listeners, OneAtATime, Following,
         MissedStored
<1> QED
  BY <1>1, <1>3, <1>4

LEMMA RestartKeeps ==
    ASSUME ModulesInv, Restart
    PROVE  ModulesInv'
<1> USE DEF ModulesInv
<1>0. PICK skipped \in SUBSET Resources :
         boot' = ReadRows(skipped) /\ missed' = Stored(skipped)
  BY DEF Restart
<1>1. EngineInv'
  BY DEF Restart, instances, EngineInv, EngineTypes, NoOrphan, EntriesOwn
<1>2. db \in Table
  BY DEF RestTypes
<1>3. RestTypes'
  BY <1>0, <1>2, ReadStarts, ModuleAssumption DEF Restart, RestTypes, outside
<1>4. \A r \in Resources : jobs'[r] = None
  BY DEF Restart, DeadOwnsNothing, instances
<1>5. Starting' /\ MissedStored'
  BY <1>0, <1>2, <1>4, ReadStarts DEF Restart, Starting, MissedStored
<1>6. DeadOwnsNothing' /\ NoneBefore' /\ Listeners' /\ OneAtATime' /\ Following'
  BY DEF Restart, DeadOwnsNothing, NoneBefore, Listeners, OneAtATime, Following
<1> QED
  BY <1>1, <1>3, <1>5, <1>6

-----------------------------------------------------------------------------
(* Requests *)

LEMMA RequestShape ==
    ASSUME RestTypes, NEW h \in Handlers
    PROVE  /\ req[h].pc # "idle" => req[h].id \in Resources
           /\ req[h].pc = "loaded" => req[h].row \in Row
BY DEF RestTypes, Request, Idle

(* A statement that changes row r, before the change is published.         *)
LEMMA WriteKeeps ==
    ASSUME ModulesInv, NEW h \in Handlers, NEW r \in Resources,
           NEW new \in Row \cup {Gone},
           NEW change \in {"create", "update", "delete"},
           NEW next \in {"written", "remove"},
           MayWrite(h, r),
           db' = [db EXCEPT ![r] = new],
           db[r] = Gone => new = Gone,
           db[r] = Unborn <=> change = "create",
           change = "delete" <=> next = "remove",
           change # "delete" /\ new = Gone => db[r] = Gone,
           missed' \subseteq Resources,
           missed' \ {r} = missed \ {r},
           r \in missed' => new \in Row,
           change # "delete" => missed' = missed,
           change = "delete" => new = Gone \/ r \in missed',
           Written(h, r, change, next)
    PROVE  ModulesInv'
<1> USE DEF ModulesInv
<1>1. /\ phase \in {"running", "stopped"} /\ req[h].pc = "idle"
      /\ events' = events + 1 /\ events' \in 0..MaxEvents
      /\ UNCHANGED <<engine, serial, instances, outside, phase, boot>>
  BY ModuleAssumption DEF MayWrite, Written, RestTypes
<1>2. /\ db'[r] = new /\ \A q \in Resources \ {r} : db'[q] = db[q]
      /\ db' \in Table
  BY DEF RestTypes, Table, Absent
<1> DEFINE told == change \in Publishes
           mine == [pc |-> next, id |-> r]
<1>3. /\ told => engine \in {"ddns", "stun"}
      /\ engine = "ddns" => told
      /\ engine = "stun" /\ change # "create" => told
  BY DEF Publishes
<1>4. /\ req' \in [Handlers -> Request]
      /\ req'[h] = IF told THEN mine ELSE req[h]
      /\ \A g \in Handlers \ {h} : req'[g] = req[g]
  <2>1. mine \in Request
    BY DEF Request
  <2> QED
    BY <2>1 DEF Written, RestTypes
<1>5. serial => Settled(r)
  BY DEF MayWrite, Settled
<1>6. EngineInv'
  BY <1>1 DEF instances, EngineInv, EngineTypes, NoOrphan, EntriesOwn
<1>7. RestTypes'
  BY <1>1, <1>2, <1>4 DEF RestTypes, outside
<1>8. Starting' /\ DeadOwnsNothing' /\ NoneBefore' /\ MissedStored'
  BY <1>1, <1>2 DEF Starting, DeadOwnsNothing, NoneBefore, MissedStored
<1>9. Listeners'
  BY <1>1, <1>3, <1>4 DEF Listeners
<1>10. OneAtATime'
  <2> SUFFICES ASSUME serial
               PROVE  /\ \A k, g \in Handlers :
                            req'[k].pc # "idle" /\ req'[g].pc # "idle"
                              /\ req'[k].id = req'[g].id => k = g
                      /\ \A k \in Handlers :
                            /\ req'[k].pc = "loaded" => req'[k].row = db'[req'[k].id]
                            /\ req'[k].pc = "remove" =>
                                  db'[req'[k].id] = Gone \/ req'[k].id \in missed'
    BY <1>1 DEF OneAtATime
  <2>1. \A g \in Handlers : req[g].pc # "idle" => req[g].id \in Resources \ {r}
    BY <1>5, RequestShape DEF Settled
  <2>2. mine.pc = next /\ mine.id = r
    OBVIOUS
  <2> QED
    BY <1>1, <1>2, <1>4, <2>1, <2>2 DEF OneAtATime
<1>11. Following'
  <2> SUFFICES ASSUME phase = "running", serial
               PROVE  /\ \A q \in Resources : Settled(q)' /\ q \notin missed' => Follows(q)'
                      /\ \A k \in Handlers :
                            req'[k].pc = "written" /\ db'[req'[k].id] \notin Row
                              => jobs'[req'[k].id] = None
    BY <1>1 DEF Following
  <2>1. r \notin missed => Follows(r)
    BY <1>5 DEF Following
  <2>2. \A q \in Resources \ {r} : Settled(q)' /\ q \notin missed' => Follows(q)'
    <3> SUFFICES ASSUME NEW q \in Resources \ {r}, Settled(q)', q \notin missed'
                 PROVE  Follows(q)'
      OBVIOUS
    <3>1. Settled(q)
      BY <1>1, <1>4 DEF Settled
    <3> QED
      BY <1>1, <1>2, <3>1 DEF Following, Follows, Wanted, instances
  <2>3. Settled(r)' => ~told
    BY <1>4 DEF Settled
  <2>4. ~told /\ r \notin missed' => Follows(r)'
    <3>1. ~told /\ engine \in {"ddns", "stun"} => engine = "stun" /\ db[r] = Unborn
      BY <1>3
    <3>2. db[r] = Unborn => ~Wanted(r)
      BY ModuleAssumption DEF Wanted, Absent
    <3>3. db[r] = Unborn => r \notin missed
      BY ModuleAssumption DEF MissedStored, Absent
    <3> QED
      BY <1>1, <2>1, <3>1, <3>2, <3>3 DEF Follows, instances
  <2>5. told /\ next = "written" /\ new \notin Row => jobs[r] = None
    <3>1. new \notin Row => new = Gone
      OBVIOUS
    <3>2. db[r] = Gone => ~Wanted(r) /\ r \notin missed
      BY ModuleAssumption DEF Wanted, Absent, MissedStored
    <3> QED
      BY <1>3, <2>1, <3>1, <3>2 DEF Follows
  <2>6. \A k \in Handlers \ {h} :
           req'[k].pc = "written" /\ db'[req'[k].id] \notin Row
              => jobs'[req'[k].id] = None
    <3> SUFFICES ASSUME NEW k \in Handlers \ {h}, req[k].pc = "written",
                        db'[req[k].id] \notin Row
                 PROVE  jobs[req[k].id] = None
      BY <1>1, <1>4 DEF instances
    <3>1. req[k].id \in Resources \ {r}
      BY <1>5, RequestShape DEF Settled
    <3> QED
      BY <1>2, <3>1 DEF Following
  <2> QED
    BY <1>1, <1>2, <1>4, <2>2, <2>3, <2>4, <2>5, <2>6 DEF instances
<1> QED
  BY <1>6, <1>7, <1>8, <1>9, <1>10, <1>11

LEMMA StatementKeeps ==
    ASSUME ModulesInv, NEW h \in Handlers, Write(h)
    PROVE  ModulesInv'
<1>1. Unborn # Gone /\ Unborn \notin Row /\ Gone \notin Row
  BY ModuleAssumption DEF Absent
<1>2. ASSUME NEW r \in Resources, NEW row \in Row, Create(h, r, row)
      PROVE  ModulesInv'
  <2>1. missed \subseteq Resources
    BY DEF ModulesInv, RestTypes
  <2> QED
    BY <1>1, <1>2, <2>1, WriteKeeps DEF Create
<1>3. ASSUME NEW r \in Resources, NEW row \in Row, Update(h, r, row)
      PROVE  ModulesInv'
  <2> DEFINE new == IF db[r] = Gone THEN Gone ELSE row
  <2>1. db' = [db EXCEPT ![r] = new] /\ new \in Row \cup {Gone}
    BY <1>3 DEF Update
  <2>2. missed \subseteq Resources /\ (r \in missed => new \in Row)
    BY <1>1 DEF ModulesInv, RestTypes, MissedStored
  <2> QED
    BY <1>1, <1>3, <2>1, <2>2, WriteKeeps DEF Update
<1>4. ASSUME NEW r \in Resources, Delete(h, r)
      PROVE  ModulesInv'
  <2>0. missed \subseteq Resources /\ db \in [Resources -> Row \cup Absent]
    BY DEF ModulesInv, RestTypes, Table
  <2>1. CASE db' = [db EXCEPT ![r] = Gone] /\ missed' = missed \ {r}
    BY <1>1, <1>4, <2>0, <2>1, WriteKeeps DEF Delete
  <2>2. CASE UNCHANGED db /\ missed' = missed \cup Stored({r})
    <3>1. /\ db' = [db EXCEPT ![r] = db[r]] /\ db[r] \in Row \cup {Gone}
          /\ db[r] # Unborn
      BY <1>4, <2>0, <2>2 DEF Delete, Absent
    <3>2. /\ missed' \ {r} = missed \ {r} /\ missed' \subseteq Resources
          /\ r \in missed' => db[r] \in Row
          /\ db[r] = Gone \/ r \in missed'
      BY <2>0, <2>2, <3>1 DEF Stored, ModulesInv, MissedStored
    <3> QED
      BY <1>1, <1>4, <3>1, <3>2, WriteKeeps DEF Delete
  <2> QED
    BY <1>4, <2>1, <2>2 DEF Delete
<1> QED
  BY <1>2, <1>3, <1>4 DEF Write

(* The row of a change that was published is read.                         *)
LEMMA LoadKeeps ==
    ASSUME ModulesInv, NEW h \in Handlers, Load(h)
    PROVE  ModulesInv'
<1> USE DEF ModulesInv
<1>0. PICK r \in Resources : r = req[h].id /\ req[h].pc = "written"
  BY RequestShape DEF Load
<1> DEFINE loaded == [pc |-> "loaded", id |-> r, row |-> db[r]]
           idle == [pc |-> "idle"]
<1>1. UNCHANGED <<engine, serial, db, instances, outside, phase, boot, events>>
  BY DEF Load
<1>2. PICK next \in Request :
         /\ req' = [req EXCEPT ![h] = next]
         /\ \/ /\ next.pc = "loaded" /\ next.id = r /\ next.row = db[r]
               /\ db[r] \in Row /\ missed' = missed \ {r}
            \/ /\ next.pc = "idle"
               /\ missed' = missed \cup Stored({r})
  <2>1. CASE /\ db[r] \in Row /\ missed' = missed \ {r}
             /\ req' = [req EXCEPT ![h] = loaded]
    <3>1. loaded \in Request
      BY <2>1 DEF Request
    <3> QED
      BY <2>1, <3>1
  <2>2. CASE req' = [req EXCEPT ![h] = idle] /\ missed' = missed \cup Stored({r})
    <3>1. idle \in Request
      BY DEF Request, Idle
    <3> QED
      BY <2>2, <3>1
  <2> QED
    BY <1>0, <2>1, <2>2 DEF Load
<1>3. /\ req'[h] = next /\ req' \in [Handlers -> Request]
      /\ \A g \in Handlers \ {h} : req'[g] = req[g]
  BY <1>2 DEF RestTypes
<1>4. EngineInv'
  BY <1>1 DEF instances, EngineInv, EngineTypes, NoOrphan, EntriesOwn
<1>5. /\ missed' \subseteq Resources /\ MissedStored'
      /\ missed' \ {r} = missed \ {r}
  BY <1>1, <1>2 DEF Stored, RestTypes, MissedStored
<1>6. RestTypes'
  BY <1>1, <1>3, <1>5 DEF RestTypes, outside
<1>7. Starting' /\ DeadOwnsNothing' /\ NoneBefore'
  <2>1. phase \notin {"boot", "down"}
    BY <1>0 DEF NoneBefore
  <2> QED
    BY <1>1, <2>1 DEF Starting, DeadOwnsNothing, NoneBefore
<1>8. Listeners'
  BY <1>0, <1>1, <1>2, <1>3 DEF Listeners
<1>9. OneAtATime'
  <2> SUFFICES ASSUME serial
               PROVE  /\ \A k, g \in Handlers :
                            req'[k].pc # "idle" /\ req'[g].pc # "idle"
                              /\ req'[k].id = req'[g].id => k = g
                      /\ \A k \in Handlers :
                            /\ req'[k].pc = "loaded" => req'[k].row = db'[req'[k].id]
                            /\ req'[k].pc = "remove" =>
                                  db'[req'[k].id] = Gone \/ req'[k].id \in missed'
    BY <1>1 DEF OneAtATime
  <2>1. \A k \in Handlers \ {h} : req[k].pc # "idle" => req[k].id # r
    BY <1>0 DEF OneAtATime
  <2>2. next.pc # "idle" => next.id = r /\ next.pc = "loaded" /\ next.row = db[r]
    BY <1>2
  <2>3. \A k, g \in Handlers :
           req'[k].pc # "idle" /\ req'[g].pc # "idle" /\ req'[k].id = req'[g].id
              => k = g
    BY <1>3, <2>1, <2>2 DEF OneAtATime
  <2>4. ASSUME NEW k \in Handlers
        PROVE  /\ req'[k].pc = "loaded" => req'[k].row = db'[req'[k].id]
               /\ req'[k].pc = "remove" =>
                     db'[req'[k].id] = Gone \/ req'[k].id \in missed'
    <3>1. CASE k = h
      BY <1>1, <1>2, <1>3, <2>2, <3>1
    <3>2. CASE k # h
      <4>1. /\ req'[k] = req[k] /\ db' = db
            /\ req[k].pc # "idle" => req[k].id \in Resources \ {r}
        BY <1>1, <1>3, <2>1, <3>2, RequestShape
      <4> QED
        BY <1>5, <4>1 DEF OneAtATime
    <3> QED
      BY <3>1, <3>2
  <2> QED
    BY <2>3, <2>4
<1>10. Following'
  <2> SUFFICES ASSUME phase = "running", serial
               PROVE  /\ \A q \in Resources :
                            Settled(q)' /\ q \notin missed' => Follows(q)'
                      /\ \A k \in Handlers :
                            req'[k].pc = "written" /\ db'[req'[k].id] \notin Row
                              => jobs'[req'[k].id] = None
    BY <1>1 DEF Following
  <2>1. \A q \in Resources : Follows(q)' <=> Follows(q)
    BY <1>1 DEF Follows, Wanted, instances
  <2>2. \A q \in Resources \ {r} : Settled(q)' => Settled(q)
    BY <1>0, <1>3 DEF Settled
  <2>3. Settled(r)' /\ r \notin missed' => jobs[r] = None /\ db[r] \notin Row
    BY <1>0, <1>2, <1>3 DEF Settled, Following, Stored
  <2>4. Settled(r)' /\ r \notin missed' => Follows(r)
    BY <2>3 DEF Follows, Wanted
  <2>5. \A k \in Handlers : req'[k].pc = "written" => k # h /\ req'[k] = req[k]
    BY <1>2, <1>3
  <2>6. \A q \in Resources \ {r} : q \notin missed' => q \notin missed
    BY <1>5
  <2> QED
    BY <1>1, <2>1, <2>2, <2>4, <2>5, <2>6 DEF Following, instances
<1> QED
  BY <1>4, <1>5, <1>6, <1>7, <1>8, <1>9, <1>10

(* The engine acts on the row of request h, which ends: with the row that  *)
(* was read as its instance, or without one.                               *)
LEMMA EndKeeps ==
    ASSUME ModulesInv, NEW h \in Handlers, NEW r \in Resources,
           req[h].pc \in {"loaded", "remove"}, req[h].id = r,
           req' = [req EXCEPT ![h] = [pc |-> "idle"]],
           UNCHANGED <<engine, serial, db, outside, phase, boot, events, missed>>,
           EngineInv',
           \A q \in Resources \ {r} : Same(q),
           serial /\ r \notin missed => Follows(r)'
    PROVE  ModulesInv'
<1> USE DEF ModulesInv
<1>2. /\ req'[h].pc = "idle" /\ req' \in [Handlers -> Request]
      /\ \A g \in Handlers \ {h} : req'[g] = req[g]
  BY DEF RestTypes, Request, Idle
<1>3. phase \notin {"boot", "down"}
  BY DEF NoneBefore
<1>4. RestTypes'
  BY <1>2 DEF RestTypes, outside
<1>5. Starting' /\ DeadOwnsNothing' /\ NoneBefore' /\ MissedStored'
  BY <1>3 DEF Starting, DeadOwnsNothing, NoneBefore, MissedStored
<1>6. Listeners' /\ OneAtATime'
  BY <1>2 DEF Listeners, OneAtATime
<1>7. Following'
  <2> SUFFICES ASSUME phase = "running", serial
               PROVE  /\ \A q \in Resources :
                            Settled(q)' /\ q \notin missed' => Follows(q)'
                      /\ \A k \in Handlers :
                            req'[k].pc = "written" /\ db'[req'[k].id] \notin Row
                              => jobs'[req'[k].id] = None
    BY DEF Following
  <2>1. ASSUME NEW q \in Resources \ {r}, Settled(q)', q \notin missed'
        PROVE  Follows(q)'
    <3>1. Settled(q) /\ Follows(q) /\ Same(q)
      BY <1>2, <2>1 DEF Settled, Following
    <3> QED
      BY <3>1 DEF Follows, Wanted, Same
  <2>2. ASSUME NEW k \in Handlers,
               req'[k].pc = "written", db'[req'[k].id] \notin Row
        PROVE  jobs'[req'[k].id] = None
    <3>1. k # h /\ req'[k] = req[k] /\ req[k].id \in Resources
      BY <1>2, <2>2, RequestShape
    <3>2. req[k].id # r
      BY <2>2, <3>1 DEF OneAtATime
    <3> QED
      BY <2>2, <3>1, <3>2 DEF Following, Same
  <2> QED
    BY <2>1, <2>2
<1> QED
  BY <1>4, <1>5, <1>6, <1>7

LEMMA ReloadKeeps ==
    ASSUME ModulesInv, NEW h \in Handlers, Reload(h)
    PROVE  ModulesInv'
<1>0. PICK r \in Resources, row \in Row :
         req[h].pc = "loaded" /\ r = req[h].id /\ row = req[h].row
  BY RequestShape DEF Reload, ModulesInv
<1>1. /\ IF row.enabled THEN startJob(r, row, Cancelled(r)) ELSE drop(r)
      /\ req' = [req EXCEPT ![h] = [pc |-> "idle"]]
      /\ UNCHANGED <<engine, serial, db, outside, phase, boot, events, missed>>
      /\ engine \in {"ddns", "stun"}
      /\ serial => row = db[r]
  BY <1>0 DEF Reload, ModulesInv, Listeners, OneAtATime
<1>2. /\ EngineInv'
      /\ \A q \in Resources \ {r} : Same(q)
      /\ jobs'[r] # None <=> row.enabled
      /\ jobs'[r] # None => conf'[jobs'[r]].value = row.value
  <2>1. CASE row.enabled
    <3>1. /\ startJob(r, row, Cancelled(r)) /\ engine' = engine
          /\ Cancelled(r) \subseteq live /\ jobs[r] \notin Cancelled(r)
          /\ ~Refuses(row)
      BY <1>1, <2>1 DEF Cancelled, Refuses
    <3> QED
      BY <1>1, <2>1, <3>1, StartJobInv DEF ModulesInv
  <2>2. CASE ~row.enabled
    <3>1. drop(r) /\ engine' = engine
      BY <1>1, <2>2
    <3> QED
      BY <1>1, <2>2, <3>1, DropInv DEF ModulesInv
  <2> QED
    BY <2>1, <2>2
<1>3. serial => Follows(r)'
  BY <1>1, <1>2 DEF Follows, Wanted
<1> QED
  BY <1>0, <1>1, <1>2, <1>3, EndKeeps

LEMMA RemoveKeeps ==
    ASSUME ModulesInv, NEW h \in Handlers, Remove(h)
    PROVE  ModulesInv'
<1>0. PICK r \in Resources : req[h].pc = "remove" /\ r = req[h].id
  BY RequestShape DEF Remove, ModulesInv
<1>1. /\ drop(r)
      /\ req' = [req EXCEPT ![h] = [pc |-> "idle"]]
      /\ UNCHANGED <<engine, serial, db, outside, phase, boot, events, missed>>
  BY <1>0 DEF Remove
<1>4. serial => db[r] = Gone \/ r \in missed
  BY <1>0 DEF ModulesInv, OneAtATime
<1>2. /\ EngineInv' /\ jobs'[r] = None
      /\ \A q \in Resources \ {r} : Same(q)
  BY <1>1, DropInv DEF ModulesInv
<1>3. serial /\ r \notin missed => Follows(r)'
  BY <1>1, <1>2, <1>4, ModuleAssumption DEF Follows, Wanted, Absent
<1> QED
  BY <1>0, <1>1, <1>2, <1>3, EndKeeps

-----------------------------------------------------------------------------
(* Instances *)

(* Whatever an instance does, the map and the requests do not change.      *)
LEMMA WorkKeeps ==
    ASSUME ModulesInv,
           UNCHANGED <<engine, serial, db, jobs, live, req, phase, boot, events, missed>>,
           conf' \in [Cells -> Config \cup {None}],
           \A c \in Cells : (c \in live \/ \E r \in Resources : jobs[r] = c)
                               => conf'[c] = conf[c],
           work' \in [Cells -> Works],
           held' \in [Cells -> Addresses \cup {None}],
           address' \in Addresses,
           record' \in [Watched -> Addresses \cup {None}]
    PROVE  ModulesInv'
<1> USE DEF ModulesInv
<1>1. \A r \in Resources : jobs[r] # None => conf'[jobs[r]] = conf[jobs[r]]
  BY DEF EngineInv, EngineTypes
<1>2. EngineInv'
  BY <1>1 DEF EngineInv, EngineTypes, NoOrphan, EntriesOwn
<1>3. RestTypes' /\ DeadOwnsNothing' /\ NoneBefore' /\ MissedStored'
  BY DEF RestTypes, DeadOwnsNothing, NoneBefore, MissedStored
<1>4. Starting'
  BY <1>1 DEF Starting, Wanted, Refuses
<1>5. Listeners' /\ OneAtATime'
  BY DEF Listeners, OneAtATime
<1>6. Following'
  <2>1. \A r \in Resources :
           (Settled(r)' <=> Settled(r)) /\ (Follows(r)' <=> Follows(r))
    BY <1>1 DEF Settled, Follows, Wanted
  <2> QED
    BY <2>1 DEF Following
<1> QED
  BY <1>2, <1>3, <1>4, <1>5, <1>6

LEMMA RunKeeps ==
    ASSUME ModulesInv, NEW c \in Cells, Run(c)
    PROVE  ModulesInv'
<1>0. /\ work \in [Cells -> Works]
      /\ held \in [Cells -> Addresses \cup {None}]
      /\ record \in [Watched -> Addresses \cup {None}]
      /\ address \in Addresses
  BY DEF ModulesInv, EngineInv, EngineTypes, RestTypes
<1>1. UNCHANGED <<rest, address>>
  BY DEF Run, Fetch, FetchFails, Put, PutFails, Listen, ResolveFails, Bind,
         Return, outside
<1>2. \E to \in Works : work' = [work EXCEPT ![c] = to]
  BY DEF Run, Fetch, FetchFails, Put, PutFails, Listen, ResolveFails, Bind,
         Return, Turn, Works
<1>3. held' \in [Cells -> Addresses \cup {None}]
  BY <1>0 DEF Run, Fetch, FetchFails, Put, PutFails, Listen, ResolveFails,
              Bind, Return
<1>4. record' \in [Watched -> Addresses \cup {None}]
  BY <1>0 DEF Run, Fetch, FetchFails, Put, PutFails, Listen, ResolveFails,
              Bind, Return, outside
<1> QED
  BY <1>0, <1>1, <1>2, <1>3, <1>4, WorkKeeps
     DEF rest, ModulesInv, EngineInv, EngineTypes

LEMMA CollectKeeps ==
    ASSUME ModulesInv, NEW c \in Cells, Collect(c)
    PROVE  ModulesInv'
<1>1. /\ conf \in [Cells -> Config \cup {None}]
      /\ work \in [Cells -> Works] /\ "off" \in Works
      /\ held' \in [Cells -> Addresses \cup {None}]
      /\ record' \in [Watched -> Addresses \cup {None}]
      /\ address' \in Addresses
  BY DEF ModulesInv, EngineInv, EngineTypes, RestTypes, Collect, outside, Works
<1>2. /\ conf' \in [Cells -> Config \cup {None}]
      /\ work' \in [Cells -> Works]
      /\ \A t \in Cells \ {c} : conf'[t] = conf[t]
  BY <1>1 DEF Collect
<1>3. c \notin live /\ \A r \in Resources : jobs[r] # c
  BY DEF Collect
<1>4. UNCHANGED <<engine, serial, db, jobs, live, req, phase, boot, events, missed>>
  BY DEF Collect
<1> QED
  BY <1>1, <1>2, <1>3, <1>4, WorkKeeps

LEMMA AddressKeeps ==
    ASSUME ModulesInv, ChangeAddress
    PROVE  ModulesInv'
<1>1. address' \in Addresses
  BY ModuleAssumption DEF ModulesInv, RestTypes, ChangeAddress, Addresses
<1> QED
  BY <1>1, WorkKeeps
     DEF ChangeAddress, rest, ModulesInv, EngineInv, EngineTypes, RestTypes

-----------------------------------------------------------------------------
LEMMA ModulesNextKeeps == ModulesInv /\ [Next]_vars => ModulesInv'
<1> SUFFICES ASSUME ModulesInv, [Next]_vars PROVE ModulesInv'
  OBVIOUS
<1>1. CASE Boot \/ Stop \/ Exit \/ Restart
  BY <1>1, StartRowKeeps, ServerKeeps, StopKeeps, ExitKeeps, RestartKeeps DEF Boot
<1>2. CASE \E h \in Handlers : Write(h) \/ Handle(h)
  BY <1>2, StatementKeeps, LoadKeeps, ReloadKeeps, RemoveKeeps DEF Handle
<1>3. CASE \E c \in Cells : Run(c) \/ Collect(c)
  BY <1>3, RunKeeps, CollectKeeps
<1>4. CASE ChangeAddress
  BY <1>4, AddressKeeps
<1>5. CASE UNCHANGED vars
  BY <1>5, WorkKeeps
     DEF vars, instances, outside, ModulesInv, EngineInv, EngineTypes, RestTypes
<1> QED
  BY <1>1, <1>2, <1>3, <1>4, <1>5 DEF Next

(* Map entries and instances stay in step in the four engines.             *)
THEOREM ModulesInvariance == Spec => []ModulesInv
BY ModulesInitHolds, ModulesNextKeeps, PTL DEF Spec

(* The variables of the four engines have the types their code gives them. *)
THEOREM ModulesTypeCorrect == Spec => []TypeOK
BY ModulesInvariance, ModulesParts, PTL

(* However requests, Stop and restarts follow each other: no instance of   *)
(* startJob, startTunnel, addJob or startMount escapes Reload, Remove and  *)
(* Stop.                                                                   *)
THEOREM NoOrphanHolds == Spec => []NoOrphan
BY ModulesInvariance, ModulesParts, PTL

(* A client that waits for its answers sees the engine follow the table,   *)
(* but for the rows a start, a loader or a DELETE missed, and as long as   *)
(* they are.                                                               *)
THEOREM FollowsTableHolds == Spec => []FollowsTable
BY ModulesInvariance, ModulesParts, PTL
=============================================================================
