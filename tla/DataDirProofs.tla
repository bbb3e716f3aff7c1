----------------------------- MODULE DataDirProofs -----------------------------
(***************************************************************************)
(* Proofs about what NetBerth keeps on its disk.                           *)
(*                                                                         *)
(* The database, for any files, requests, versions and starts.  The        *)
(* inductive invariant follows a file from its upload to its name: what a  *)
(* restore holds past its check is sound (Validated), a file with a name   *)
(* exists (Exist), the log is never behind its file (LogAhead), a process  *)
(* that starts is alone with a database that opens (Connected, Starting),  *)
(* and one restore at a time leaves the name free only while the old       *)
(* database waits under .bak (Between).                                    *)
(*                                                                         *)
(* The certificates.  A row that says valid has matching files because an  *)
(* order comes to its end only with a pair it wrote itself (Written), and  *)
(* an order that got to the files and did not come to its end either says  *)
(* so in the row or is remembered in cut.                                  *)
(***************************************************************************)
EXTENDS DataDir, TLAPS

-----------------------------------------------------------------------------
(* The database *)

(* What has a name or is being restored is there.                          *)
Exist ==
    /\ \A f \in {db, bak, last} \ {None} : files[f] # None
    /\ \A r \in Restorers : restore[r].pc # "idle" =>
          /\ restore[r].file \in Files
          /\ files[restore[r].file] # None

(* The log belongs to a file and is not behind it.                         *)
LogAhead ==
    wal # None => /\ files[wal.file] # None
                  /\ files[wal.file].version <= wal.version

Connected ==
    /\ proc.pc # "down" =>
          /\ starts > 0
          /\ proc.open \in Files
          /\ files[proc.open] # None
    /\ \A r \in Restorers : restore[r].pc # "idle" => proc.pc = "running"

Sound(f) == files[f].kind \notin {"cut", "junk"}

Validated ==
    \A r \in Restorers :
        restore[r].pc \in {"valid", "moved", "back", "placed"}
            => Sound(restore[r].file)

Starting ==
    /\ proc.pc \in {"opened", "copying", "migrating"} =>
          Opens(proc.open) /\ db = proc.open
    /\ proc.pc \in {"copying", "migrating"} =>
          files[proc.open].version < proc.version

Between ==
    serial =>
        /\ \A q, r \in Restorers :
              restore[q].pc # "idle" /\ restore[r].pc # "idle" => q = r
        /\ proc.pc # "down" /\ Waiting = {} => db # None
        /\ \A r \in Waiting : db = None /\ bak # None /\ (torn \/ bak = last)

(* The parts that hold however restores overlap ...                        *)
FilesInv ==
    /\ DatabaseTypeOK /\ Exist /\ LogAhead /\ Connected
    /\ PathWhole /\ Validated
    /\ Starting /\ UpgradeHasCopy

(* ... and those about one restore at a time.                              *)
DatabaseInv == FilesInv /\ Between /\ AllOrNothing

LEMMA DatabaseInitHolds == DatabaseInit => DatabaseInv
<1> SUFFICES ASSUME DatabaseInit PROVE DatabaseInv
  OBVIOUS
<1>1. DatabaseTypeOK
  <2>1. 1 \in 1..MaxVersion /\ 0 \in 0..MaxStarts
    BY DatabaseAssumption
  <2>2. proc \in [pc : {"down", "opened", "copying", "migrating", "running"},
                  open : Files \cup {None}, version : 1..MaxVersion]
    BY <2>1 DEF DatabaseInit
  <2> QED
    BY <2>1, <2>2 DEF DatabaseInit, DatabaseTypeOK, Idle
<1>2. \A r \in Restorers : restore[r].pc = "idle"
  BY DEF DatabaseInit, Idle
<1>3. Exist /\ LogAhead /\ Connected /\ Validated
  BY <1>2 DEF DatabaseInit, Exist, LogAhead, Connected, Validated
<1>4. PathWhole /\ Starting /\ UpgradeHasCopy
  BY DEF DatabaseInit, PathWhole, Starting, UpgradeHasCopy
<1>5. Between /\ AllOrNothing
  BY <1>2 DEF DatabaseInit, Between, AllOrNothing, Waiting
<1> QED
  BY <1>1, <1>3, <1>4, <1>5 DEF DatabaseInv, FilesInv

(* A file with the log's pages in it is a file, no worse than it was.      *)
LEMMA MergedFile ==
    ASSUME DatabaseTypeOK, NEW f \in Files, files[f] # None
    PROVE  /\ Merged(f) \in Content /\ Merged(f) # None
           /\ Sound(f) => Merged(f).kind \notin {"cut", "junk"}
<1>1. files[f] \in Content
  BY DEF DatabaseTypeOK
<1>2. wal # None => wal \in Log
  BY DEF DatabaseTypeOK
<1>3. Merged(f) \in Content
  BY <1>1, <1>2 DEF Merged, Content, Log
<1>4. Sound(f) => Merged(f).kind \notin {"cut", "junk"}
  BY <1>1, <1>2 DEF Merged, Sound, Content
<1> QED
  BY <1>3, <1>4, DatabaseAssumption

LEMMA SeqVersion ==
    ASSUME DatabaseTypeOK, NEW f \in Files, files[f] # None
    PROVE  Commits(f) \in 0..MaxSeq /\ Version(f) \in 0..MaxVersion
<1>1. files[f] \in Content /\ (wal # None => wal \in Log)
  BY DEF DatabaseTypeOK
<1>2. files[f].seq \in 0..MaxSeq /\ files[f].version \in 0..MaxVersion
  BY <1>1 DEF Content
<1>3. wal # None => wal.seq \in 0..MaxSeq /\ wal.version \in 0..MaxVersion
  BY <1>1 DEF Log
<1> QED
  BY <1>2, <1>3 DEF Commits, Version

(* What every step but an upload and a first start does to the files: one  *)
(* of them takes in the log, at most.                                      *)
Merges(f) ==
    /\ f \in Files /\ files[f] # None
    /\ files' = [files EXCEPT ![f] = Merged(f)]

(* The files that are there stay there and do not get worse.               *)
Kept ==
    /\ files' \in [Files -> Content \cup {None}]
    /\ \A f \in Files : files[f] # None =>
          files'[f] # None /\ (Sound(f) => Sound(f)')

LEMMA MergesKeeps ==
    ASSUME DatabaseTypeOK, NEW f, Merges(f)
    PROVE  Kept
<1>1. Merged(f) \in Content /\ Merged(f) # None
      /\ (Sound(f) => Merged(f).kind \notin {"cut", "junk"})
  BY MergedFile DEF Merges
<1> QED
  BY <1>1 DEF Merges, Kept, DatabaseTypeOK, Sound

LEMMA UnchangedKeeps == ASSUME DatabaseTypeOK, files' = files PROVE Kept
BY DEF Kept, DatabaseTypeOK, Sound

(* A new file takes a place where none was.                                *)
LEMMA NewKeeps ==
    ASSUME DatabaseTypeOK, NEW f \in Unused, NEW c \in Content,
           files' = [files EXCEPT ![f] = c]
    PROVE  Kept /\ files'[f] = c
<1>1. f \in Files /\ files[f] = None
  BY DEF Unused
<1> QED
  BY <1>1, DatabaseAssumption DEF Kept, DatabaseTypeOK, Sound

(* A process at work leaves the names and the restores alone.              *)
LEMMA NamesKeep ==
    ASSUME DatabaseInv, Kept, proc.pc # "down",
           UNCHANGED <<serial, db, bak, restore, last, torn, starts>>
    PROVE  Exist' /\ PathWhole' /\ Validated' /\ Between' /\ AllOrNothing'
<1> USE DEF DatabaseInv, FilesInv
<1>1. \A f \in {db, bak, last} \ {None} : f \in Files /\ files[f] # None
  BY DEF DatabaseTypeOK, Exist
<1>2. Exist'
  BY <1>1 DEF Exist, Kept
<1>3. PathWhole'
  BY <1>1 DEF PathWhole, Kept, Sound
<1>4. Validated'
  BY DEF Validated, Exist, Kept
<1>5. Between' /\ AllOrNothing'
  BY DEF Between, AllOrNothing, Waiting
<1> QED
  BY <1>2, <1>3, <1>4, <1>5

(* openSQLite: the file is there and opens, or it is created.              *)
LEMMA StartKeeps ==
    ASSUME DatabaseInv, NEW v \in 1..MaxVersion, Start(v)
    PROVE  DatabaseInv'
<1> USE DEF DatabaseInv, FilesInv
<1>1. /\ proc.pc = "down" /\ starts' = starts + 1 /\ starts' \in 1..MaxStarts
      /\ UNCHANGED <<serial, bak, pre, restore, torn>>
  BY DatabaseAssumption DEF Start, DatabaseTypeOK
<1>2. \A r \in Restorers : restore[r].pc = "idle"
  BY <1>1 DEF Connected
<1>3. Waiting = {} /\ Waiting' = {}
  BY <1>1, <1>2 DEF Waiting
<1>4. CASE db = None
  <2>1. PICK f \in Unused :
          /\ db' = f /\ last' = f /\ wal' = Bookkeeping(f, 0)
          /\ files' = [files EXCEPT ![f] =
                         [seq |-> 0, version |-> 0, kind |-> "whole"]]
          /\ proc' = [pc |-> "opened", open |-> f, version |-> v]
    BY <1>4 DEF Start
  <2>2. [seq |-> 0, version |-> 0, kind |-> "whole"] \in Content
    BY DatabaseAssumption DEF Content
  <2>3. Kept /\ files'[f] = [seq |-> 0, version |-> 0, kind |-> "whole"]
    BY <2>1, <2>2, NewKeeps
  <2>4. f \in Files /\ f # None /\ files'[f] # None
    BY <2>2, <2>3, DatabaseAssumption DEF Unused
  <2>10. wal' \in Log /\ wal'.file = f /\ wal'.version = 0
    BY <2>1, <2>4, DatabaseAssumption DEF Log, Bookkeeping
  <2>5. DatabaseTypeOK'
    BY <1>1, <2>1, <2>3, <2>4, <2>10 DEF DatabaseTypeOK, Kept
  <2>6. Exist' /\ LogAhead' /\ Connected'
    <3>1. bak # None => bak \in Files /\ files'[bak] # None
      BY <2>3 DEF Exist, Kept, DatabaseTypeOK
    <3> QED
      BY <1>1, <1>2, <2>1, <2>3, <2>4, <2>10, <3>1 DEF Exist, LogAhead, Connected
  <2>7. PathWhole'
    <3>1. bak # None => Sound(bak)'
      BY <1>1, <2>3 DEF Exist, Kept, DatabaseTypeOK, PathWhole, Sound
    <3> QED
      BY <1>1, <2>1, <2>3, <2>4, <3>1 DEF PathWhole, Sound
  <2>8. Validated' /\ Between' /\ AllOrNothing'
    BY <1>1, <1>2, <1>3, <2>1, <2>4 DEF Validated, Between, AllOrNothing
  <2>9. Starting' /\ UpgradeHasCopy'
    BY <2>1, <2>3, <2>10 DEF Starting, UpgradeHasCopy, Opens, Fits
  <2> QED
    BY <2>5, <2>6, <2>7, <2>8, <2>9
<1>5. CASE db # None
  <2>1. /\ Opens(db)
        /\ proc' = [pc |-> "opened", open |-> db, version |-> v]
        /\ UNCHANGED <<db, files, last>>
        /\ wal' = wal \/ (Version(db) = 0 /\ wal' = Bookkeeping(db, Commits(db)))
    BY <1>5 DEF Start
  <2>2. db \in Files /\ files[db] # None
    BY <1>5 DEF DatabaseTypeOK, Exist
  <2>8. wal' # wal => wal' \in Log /\ wal'.file = db /\ files[db].version <= wal'.version
    <3>1. Commits(db) \in 0..MaxSeq /\ Version(db) \in 0..MaxVersion
          /\ files[db].version \in 0..MaxVersion
      BY <2>2, SeqVersion DEF DatabaseTypeOK, Content
    <3>2. files[db].version <= Version(db)
      BY <2>1, <3>1 DEF Version, LogAhead, Opens, Fits
    <3> QED
      BY <2>1, <2>2, <3>1, <3>2, DatabaseAssumption DEF Log, Bookkeeping
  <2>3. DatabaseTypeOK'
    BY <1>1, <2>1, <2>2, <2>8 DEF DatabaseTypeOK
  <2>4. Exist' /\ LogAhead' /\ Connected'
    BY <1>1, <1>2, <2>1, <2>2, <2>8 DEF Exist, LogAhead, Connected
  <2>5. PathWhole'
    BY <1>1, <2>1 DEF PathWhole
  <2>6. Validated' /\ Between' /\ AllOrNothing'
    BY <1>1, <1>2, <1>3, <1>5, <2>1 DEF Validated, Between, AllOrNothing, Connected
  <2>7. Starting' /\ UpgradeHasCopy'
    BY <2>1, <2>8 DEF Starting, UpgradeHasCopy, Opens, Fits
  <2> QED
    BY <2>3, <2>4, <2>5, <2>6, <2>7
<1> QED
  BY <1>4, <1>5

(* A start that goes on: the copy is made while nothing else happens to    *)
(* the file, and is still what the log is ahead of when a row is written.  *)
LEMMA UpgradeKeeps ==
    ASSUME DatabaseInv,
           UpToDate \/ BeginCopy \/ EndCopy \/ MigrateSome \/ Migrate
    PROVE  DatabaseInv'
<1> USE DEF DatabaseInv, FilesInv
<1> DEFINE f == proc.open
<1>1. /\ proc.pc \in {"opened", "copying", "migrating"}
      /\ UNCHANGED <<serial, files, db, bak, restore, last, torn, starts>>
  BY DEF UpToDate, BeginCopy, EndCopy, MigrateSome, Migrate
<1>2. f \in Files /\ files[f] # None /\ Opens(f) /\ db = f
  BY <1>1 DEF Connected, Starting
<1>3. \A r \in Restorers : restore[r].pc = "idle"
  BY <1>1 DEF Connected
<1>4. Exist' /\ PathWhole' /\ Validated' /\ Between' /\ AllOrNothing'
  BY <1>1, UnchangedKeeps, NamesKeep
<1>5. /\ files[f] \in Content /\ Commits(f) \in 0..MaxSeq
      /\ Version(f) \in 0..MaxVersion
      /\ files[f].seq \in 0..MaxSeq /\ files[f].version \in 0..MaxVersion
      /\ proc.version \in 1..MaxVersion
      /\ files[f].version <= Version(f)
  <2>1. files[f] \in Content
    BY <1>2 DEF DatabaseTypeOK
  <2>2. files[f].seq \in 0..MaxSeq /\ files[f].version \in 0..MaxVersion
    BY <2>1 DEF Content
  <2>3. files[f].version <= Version(f)
    BY <1>2, <2>2 DEF Version, LogAhead, Opens, Fits
  <2>4. proc.version \in 1..MaxVersion
    BY DEF DatabaseTypeOK
  <2> QED
    BY <1>2, <2>1, <2>2, <2>3, <2>4, SeqVersion
<1>6. CASE UpToDate
  <2>1. /\ UNCHANGED <<pre, wal>>
        /\ proc' = [proc EXCEPT !.pc = "running"]
    BY <1>6 DEF UpToDate
  <2>2. DatabaseTypeOK'
    BY <1>1, <2>1 DEF DatabaseTypeOK
  <2>3. proc'.pc = "running" /\ proc'.open = f
    BY <2>1 DEF DatabaseTypeOK
  <2>4. LogAhead' /\ Connected'
    BY <1>1, <1>2, <1>3, <2>1, <2>3 DEF LogAhead, Connected
  <2>5. Starting' /\ UpgradeHasCopy'
    BY <2>3 DEF Starting, UpgradeHasCopy
  <2> QED
    BY <1>4, <2>2, <2>4, <2>5
<1>7. CASE BeginCopy
  <2>1. /\ wal' = wal /\ Version(f) < proc.version
        /\ proc' = [proc EXCEPT !.pc = "copying"]
        /\ pre' = [file |-> f, seq |-> 0, version |-> 0, whole |-> FALSE]
    BY <1>7 DEF BeginCopy
  <2>2. pre' \in Copy
    BY <1>2, <2>1, DatabaseAssumption DEF Copy
  <2>3. DatabaseTypeOK'
    BY <1>1, <2>1, <2>2 DEF DatabaseTypeOK
  <2>4. proc'.pc = "copying" /\ proc'.open = f /\ proc'.version = proc.version
    BY <2>1 DEF DatabaseTypeOK
  <2>5. LogAhead' /\ Connected'
    BY <1>1, <1>2, <1>3, <2>1, <2>4 DEF LogAhead, Connected
  <2>6. Starting' /\ UpgradeHasCopy'
    BY <1>1, <1>2, <1>5, <2>1, <2>4
       DEF Starting, UpgradeHasCopy, Opens, Fits
  <2> QED
    BY <1>4, <2>3, <2>5, <2>6
<1>8. CASE EndCopy
  <2>1. /\ wal' = wal /\ proc.pc = "copying"
        /\ proc' = [proc EXCEPT !.pc = "migrating"]
        /\ pre' = [file |-> f, seq |-> files[f].seq,
                   version |-> files[f].version, whole |-> TRUE]
    BY <1>8 DEF EndCopy
  <2>2. pre' \in Copy /\ pre' # None
    <3>1. pre' \in Copy
      BY <1>2, <1>5, <2>1 DEF Copy
    <3> QED
      BY <3>1, DatabaseAssumption
  <2>3. DatabaseTypeOK'
    BY <1>1, <2>1, <2>2 DEF DatabaseTypeOK
  <2>4. proc'.pc = "migrating" /\ proc'.open = f /\ proc'.version = proc.version
    BY <2>1 DEF DatabaseTypeOK
  <2>5. LogAhead' /\ Connected'
    BY <1>1, <1>2, <1>3, <2>1, <2>4 DEF LogAhead, Connected
  <2>6. files[f].version < proc.version
    BY <1>5, <2>1 DEF Starting
  <2>7. Starting' /\ UpgradeHasCopy'
    BY <1>1, <1>2, <2>1, <2>2, <2>4, <2>6
       DEF Starting, UpgradeHasCopy, Opens, Fits, Commits
  <2> QED
    BY <1>4, <2>3, <2>5, <2>7
<1>9. CASE MigrateSome \/ Migrate
  <2>1. /\ pre' = pre /\ proc.pc = "migrating"
        /\ proc' \in {proc, [proc EXCEPT !.pc = "running"]}
        /\ \E n \in {Version(f), proc.version} :
              wal' = [file |-> f, seq |-> Commits(f), version |-> n]
    BY <1>9 DEF MigrateSome, Migrate
  <2>2. \A n \in {Version(f), proc.version} :
           n \in 0..MaxVersion /\ files[f].version <= n
    BY <1>5, <2>1 DEF Starting
  <2>3. wal' \in Log /\ wal' # None /\ wal'.file = f
        /\ files[f].version <= wal'.version
    BY <1>2, <1>5, <2>1, <2>2, DatabaseAssumption DEF Log
  <2>4. DatabaseTypeOK'
    BY <1>1, <2>1, <2>3 DEF DatabaseTypeOK
  <2>5. proc'.pc \in {"migrating", "running"} /\ proc'.open = f
        /\ proc'.version = proc.version
    BY <2>1 DEF DatabaseTypeOK
  <2>6. LogAhead' /\ Connected'
    BY <1>1, <1>2, <1>3, <2>3, <2>5 DEF LogAhead, Connected
  <2>8. Commits(proc.open)' = Commits(proc.open)
    BY <1>1, <2>1, <2>3, <2>5 DEF Commits
  <2>7. Starting' /\ UpgradeHasCopy'
    BY <1>1, <1>2, <2>1, <2>3, <2>5, <2>8
       DEF Starting, UpgradeHasCopy, Opens, Fits
  <2> QED
    BY <1>4, <2>4, <2>6, <2>7
<1> QED
  BY <1>6, <1>7, <1>8, <1>9

(* SQLite at work: a log is written or taken in by the file it belongs to. *)
LEMMA RunningKeeps ==
    ASSUME DatabaseInv, Commit \/ Checkpoint \/ Truncate \/ Reconnect
    PROVE  DatabaseInv'
<1> USE DEF DatabaseInv, FilesInv
<1> DEFINE f == proc.open
<1>1. /\ proc.pc = "running"
      /\ UNCHANGED <<serial, db, bak, pre, restore, last, torn, starts>>
  BY DEF Commit, Checkpoint, Truncate, Reconnect
<1>2. f \in Files /\ files[f] # None
  BY <1>1 DEF Connected
<1>3. /\ Commits(f) \in 0..MaxSeq /\ Version(f) \in 0..MaxVersion
      /\ files[f] \in Content /\ files[f].version \in 0..MaxVersion
  <2>1. files[f] \in Content
    BY <1>2 DEF DatabaseTypeOK
  <2> QED
    BY <1>2, <2>1, SeqVersion DEF Content
<1>4. CASE Commit
  <2>1. /\ UNCHANGED <<files, proc>>
        /\ Opens(f) /\ Commits(f) < MaxSeq
        /\ wal' = [file |-> f, seq |-> Commits(f) + 1, version |-> Version(f)]
    BY <1>4 DEF Commit
  <2>2. Commits(f) + 1 \in 0..MaxSeq
    BY <1>3, <2>1, DatabaseAssumption
  <2>3. files[f].version <= Version(f)
    BY <1>3, <2>1 DEF Version, LogAhead, Opens, Fits
  <2>4. wal' \in Log
    BY <1>2, <1>3, <2>1, <2>2 DEF Log
  <2>5. DatabaseTypeOK'
    BY <1>1, <2>1, <2>4 DEF DatabaseTypeOK
  <2>6. LogAhead' /\ Connected'
    BY <1>1, <1>2, <2>1, <2>3 DEF LogAhead, Connected
  <2>7. Starting' /\ UpgradeHasCopy'
    BY <1>1, <2>1 DEF Starting, UpgradeHasCopy
  <2>8. Exist' /\ PathWhole' /\ Validated' /\ Between' /\ AllOrNothing'
    BY <1>1, <2>1, UnchangedKeeps, NamesKeep
  <2> QED
    BY <2>5, <2>6, <2>7, <2>8
<1>5. CASE Checkpoint \/ Truncate
  <2>1. /\ Opens(f) /\ wal # None /\ proc' = proc
        /\ files' = [files EXCEPT ![f] = Merged(f)]
        /\ wal' \in {wal, None}
    BY <1>5 DEF Checkpoint, Truncate
  <2>2. Kept
    BY <1>2, <2>1, MergesKeeps DEF Merges
  <2>3. DatabaseTypeOK'
    BY <1>1, <2>1, <2>2 DEF DatabaseTypeOK, Kept
  <2>4. wal.file = f /\ Merged(f).version = wal.version
    BY <1>3, <2>1 DEF Opens, Fits, Merged, Content
  <2>5. files'[f].version = wal.version /\ wal \in Log
    BY <1>2, <2>1, <2>4 DEF DatabaseTypeOK
  <2>6. LogAhead' /\ Connected'
    <3>1. wal.version <= wal.version
      BY <2>5 DEF Log
    <3> QED
      BY <1>1, <1>2, <2>1, <2>2, <2>4, <2>5, <3>1 DEF LogAhead, Connected, Kept
  <2>7. Starting' /\ UpgradeHasCopy'
    BY <1>1, <2>1 DEF Starting, UpgradeHasCopy
  <2>8. Exist' /\ PathWhole' /\ Validated' /\ Between' /\ AllOrNothing'
    BY <1>1, <2>2, NamesKeep
  <2> QED
    BY <2>3, <2>6, <2>7, <2>8
<1>6. CASE Reconnect
  <2>1. /\ UNCHANGED <<files, wal>> /\ db # None
        /\ proc' = [proc EXCEPT !.open = db]
    BY <1>6 DEF Reconnect
  <2>2. db \in Files /\ files[db] # None
    BY <2>1 DEF DatabaseTypeOK, Exist
  <2>3. DatabaseTypeOK'
    BY <1>1, <2>1, <2>2 DEF DatabaseTypeOK
  <2>4. proc'.pc = "running" /\ proc'.open = db
    BY <1>1, <2>1 DEF DatabaseTypeOK
  <2>5. LogAhead' /\ Connected'
    BY <1>1, <2>1, <2>2, <2>4 DEF LogAhead, Connected
  <2>6. Starting' /\ UpgradeHasCopy'
    BY <2>4 DEF Starting, UpgradeHasCopy
  <2>7. Exist' /\ PathWhole' /\ Validated' /\ Between' /\ AllOrNothing'
    BY <1>1, <2>1, UnchangedKeeps, NamesKeep
  <2> QED
    BY <2>3, <2>5, <2>6, <2>7
<1> QED
  BY <1>4, <1>5, <1>6

(* The process ends, in order or not: a restore that had its database      *)
(* moved away is remembered in torn.                                       *)
LEMMA DownKeeps ==
    ASSUME DatabaseInv, Close \/ Crash
    PROVE  DatabaseInv'
<1> USE DEF DatabaseInv, FilesInv
<1>1. /\ proc.pc # "down"
      /\ proc' = [proc EXCEPT !.pc = "down", !.open = None]
      /\ restore' = [r \in Restorers |-> Idle]
      /\ torn' = (torn \/ Waiting # {})
      /\ UNCHANGED <<serial, db, bak, pre, last, starts>>
  BY DEF Close, Crash, down
<1>2. proc.open \in Files /\ files[proc.open] # None /\ starts > 0
  BY <1>1 DEF Connected
<1>3. /\ Kept /\ wal' \in {wal, None}
      /\ wal' # None => files' = files
  <2>1. CASE proc.open = db /\ files' = [files EXCEPT ![db] = Merged(db)]
             /\ wal' = None
    BY <1>2, <2>1, MergesKeeps DEF Merges
  <2>2. CASE UNCHANGED <<files, wal>>
    BY <2>2, UnchangedKeeps
  <2> QED
    BY <2>1, <2>2 DEF Close, Crash
<1>4. /\ proc' \in [pc : {"down"}, open : {None}, version : 1..MaxVersion]
      /\ \A r \in Restorers : restore'[r] = Idle
  BY <1>1 DEF DatabaseTypeOK
<1>5. /\ proc'.pc = "down"
      /\ \A r \in Restorers : restore'[r].pc = "idle" /\ restore'[r].file = None
      /\ Waiting' = {}
  BY <1>4 DEF Idle, Waiting
<1>6. DatabaseTypeOK'
  <2>1. torn' \in BOOLEAN
    BY <1>1 DEF DatabaseTypeOK
  <2> QED
    BY <1>1, <1>3, <1>4, <2>1 DEF DatabaseTypeOK, Kept, Idle
<1>7. Exist' /\ LogAhead' /\ Connected'
  BY <1>1, <1>3, <1>5 DEF Exist, LogAhead, Connected, Kept, DatabaseTypeOK
<1>8. PathWhole'
  BY <1>1, <1>3 DEF PathWhole, Exist, Kept, Sound, DatabaseTypeOK
<1>9. Validated' /\ Starting' /\ UpgradeHasCopy'
  BY <1>5 DEF Validated, Starting, UpgradeHasCopy
<1>10. Between'
  BY <1>5 DEF Between
<1>11. AllOrNothing'
  BY <1>1 DEF AllOrNothing
<1> QED
  BY <1>6, <1>7, <1>8, <1>9, <1>10, <1>11

(* A restore before its renames: an upload is a file of its own, and goes  *)
(* on only when it is sound.                                               *)
LEMMA UploadKeeps ==
    ASSUME DatabaseInv, NEW r \in Restorers, Upload(r) \/ Validate(r)
    PROVE  DatabaseInv'
<1> USE DEF DatabaseInv, FilesInv
<1>1. /\ proc.pc = "running"
      /\ UNCHANGED <<serial, db, bak, pre, wal, proc, last, torn, starts>>
  BY DEF Upload, Validate, Connected
<1>2. CASE Upload(r)
  <2>1. PICK f \in Unused, v \in 0..MaxVersion,
             kind \in {"whole", "cut", "junk", "damaged"} :
          /\ files' = [files EXCEPT ![f] =
                         [seq |-> 0, version |-> v, kind |-> kind]]
          /\ restore' = [restore EXCEPT ![r] = [pc |-> "sent", file |-> f]]
    BY <1>2 DEF Upload
  <2>2. [seq |-> 0, version |-> v, kind |-> kind] \in Content
    BY DatabaseAssumption DEF Content
  <2>3. Kept /\ files'[f] # None /\ f \in Files
    BY <2>1, <2>2, NewKeeps, DatabaseAssumption DEF Unused
  <2>4. \A g \in Files : files[g] # None => files'[g] = files[g]
    BY <2>1 DEF Unused, DatabaseTypeOK
  <2>5. DatabaseTypeOK'
    BY <1>1, <2>1, <2>3 DEF DatabaseTypeOK, Kept
  <2>6. /\ restore'[r].pc = "sent" /\ restore'[r].file = f
        /\ \A q \in Restorers \ {r} : restore'[q] = restore[q]
    BY <2>1 DEF DatabaseTypeOK
  <2>7. Exist' /\ LogAhead' /\ Connected'
    <3>1. \A g \in {db, bak, last} \ {None} : files'[g] # None
      BY <2>3 DEF Exist, Kept, DatabaseTypeOK
    <3>2. wal # None => files'[wal.file] = files[wal.file]
      <4>1. wal # None => wal.file \in Files
        BY DEF DatabaseTypeOK, Log
      <4> QED
        BY <2>4, <4>1 DEF LogAhead
    <3>3. files'[proc.open] # None
      BY <1>1, <2>3 DEF Connected, Kept
    <3> QED
      BY <1>1, <2>3, <2>6, <3>1, <3>2, <3>3 DEF Exist, LogAhead, Connected, Kept
  <2>8. PathWhole' /\ Validated' /\ Starting' /\ UpgradeHasCopy'
    BY <1>1, <2>3, <2>6
       DEF PathWhole, Validated, Starting, UpgradeHasCopy, Exist, Kept, Sound,
           DatabaseTypeOK
  <2>9. Waiting' = Waiting
    BY <1>2, <2>6 DEF Waiting, Upload
  <2>10. Between' /\ AllOrNothing'
    BY <1>1, <1>2, <2>6, <2>9 DEF Between, AllOrNothing, Upload
  <2> QED
    BY <2>5, <2>7, <2>8, <2>10
<1>3. CASE Validate(r)
  <2>1. /\ restore[r].pc = "sent" /\ files' = files
        /\ restore' = [restore EXCEPT ![r] =
                         IF files[restore[r].file].kind \in {"whole", "damaged"}
                         THEN [@ EXCEPT !.pc = "valid"] ELSE Idle]
    BY <1>3 DEF Validate
  <2>2. restore[r].file \in Files
    BY <2>1 DEF Exist
  <2>3. [restore[r] EXCEPT !.pc = "valid"]
           = [pc |-> "valid", file |-> restore[r].file]
    BY DEF DatabaseTypeOK
  <2>4. PICK s : /\ restore' = [restore EXCEPT ![r] = s]
                 /\ s \in {[pc |-> "valid", file |-> restore[r].file], Idle}
                 /\ s.pc = "valid" => Sound(restore[r].file)
    <3>1. CASE files[restore[r].file].kind \in {"whole", "damaged"}
      <4>1. restore' = [restore EXCEPT ![r] =
                          [pc |-> "valid", file |-> restore[r].file]]
        BY <2>1, <2>3, <3>1
      <4> QED
        BY <3>1, <4>1 DEF Sound
    <3>2. CASE files[restore[r].file].kind \notin {"whole", "damaged"}
      <4>1. restore' = [restore EXCEPT ![r] = Idle]
        BY <2>1, <3>2
      <4>2. Idle.pc # "valid"
        BY DEF Idle
      <4> QED
        BY <4>1, <4>2
    <3> QED
      BY <3>1, <3>2
  <2>5. DatabaseTypeOK'
    BY <1>1, <2>1, <2>2, <2>4 DEF DatabaseTypeOK, Idle
  <2>6. /\ restore'[r] = s
        /\ \A q \in Restorers \ {r} : restore'[q] = restore[q]
        /\ s.pc \in {"valid", "idle"}
        /\ s.pc = "valid" => s.file = restore[r].file
    BY <2>4 DEF DatabaseTypeOK, Idle
  <2>7. Exist' /\ LogAhead' /\ Connected'
    BY <1>1, <2>1, <2>6 DEF Exist, LogAhead, Connected
  <2>8. PathWhole' /\ Starting' /\ UpgradeHasCopy'
    BY <1>1, <2>1 DEF PathWhole, Starting, UpgradeHasCopy
  <2>9. Validated'
    BY <2>1, <2>4, <2>6 DEF Validated, Sound
  <2>10. Waiting' = Waiting
    BY <2>1, <2>6 DEF Waiting
  <2>11. Between' /\ AllOrNothing'
    BY <1>1, <2>1, <2>6, <2>10 DEF Between, AllOrNothing
  <2> QED
    BY <2>5, <2>7, <2>8, <2>9, <2>11
<1> QED
  BY <1>2, <1>3

Requests ==
    [Restorers -> [pc : {"idle", "sent", "valid", "moved", "back", "placed"},
                   file : Files \cup {None}]]

(* One request goes on to its next step, with the file it has or none.     *)
Moves(r, pc) ==
    /\ \A q \in Restorers \ {r} : restore'[q] = restore[q]
    /\ restore'[r].pc = pc
    /\ pc # "idle" => restore'[r].file = restore[r].file

(* The renames.  No file changes, and every name that is given is that of  *)
(* a database which had a name before or was checked.                      *)
LEMMA RenameKeeps ==
    ASSUME DatabaseInv, NEW r \in Restorers,
           MoveAway(r) \/ Place(r) \/ PlaceFails(r) \/ MoveBack(r) \/ Done(r)
    PROVE  DatabaseInv'
<1> USE DEF DatabaseInv, FilesInv
<1>1. /\ restore[r].pc \in {"valid", "moved", "back", "placed"}
      /\ UNCHANGED <<serial, files, pre, wal, proc, torn, starts>>
  BY DEF MoveAway, Place, PlaceFails, MoveBack, Done
<1> DEFINE f == restore[r].file
<1>2. /\ f \in Files /\ f # None /\ files[f] # None /\ Sound(f)
      /\ proc.pc = "running" /\ starts > 0
  BY <1>1, DatabaseAssumption DEF Exist, Validated, Connected
<1> DEFINE pc == restore'[r].pc
<1>3. /\ Moves(r, pc)
      /\ restore' \in Requests
      /\ MoveAway(r) => pc = "moved"
      /\ Place(r) => pc = "placed"
      /\ PlaceFails(r) => pc = "back"
      /\ MoveBack(r) \/ Done(r) => pc = "idle"
  <2>1. MoveAway(r) => restore' = [restore EXCEPT ![r] = [pc |-> "moved", file |-> f]]
    <3>1. [restore[r] EXCEPT !.pc = "moved"] = [pc |-> "moved", file |-> f]
      BY DEF DatabaseTypeOK
    <3> QED
      BY <3>1 DEF MoveAway
  <2>2. Place(r) => restore' = [restore EXCEPT ![r] = [pc |-> "placed", file |-> f]]
    <3>1. [restore[r] EXCEPT !.pc = "placed"] = [pc |-> "placed", file |-> f]
      BY DEF DatabaseTypeOK
    <3> QED
      BY <3>1 DEF Place
  <2>3. PlaceFails(r) => restore' = [restore EXCEPT ![r] = [pc |-> "back", file |-> f]]
    <3>1. [restore[r] EXCEPT !.pc = "back"] = [pc |-> "back", file |-> f]
      BY DEF DatabaseTypeOK
    <3> QED
      BY <3>1 DEF PlaceFails
  <2>4. MoveBack(r) \/ Done(r) => restore' = [restore EXCEPT ![r] = Idle]
    BY DEF MoveBack, Done
  <2>5. MoveAway(r) => Moves(r, "moved") /\ restore' \in Requests
    BY <2>1 DEF DatabaseTypeOK, Moves, Requests, Idle
  <2>6. Place(r) => Moves(r, "placed") /\ restore' \in Requests
    BY <2>2 DEF DatabaseTypeOK, Moves, Requests, Idle
  <2>7. PlaceFails(r) => Moves(r, "back") /\ restore' \in Requests
    BY <2>3 DEF DatabaseTypeOK, Moves, Requests, Idle
  <2>8. MoveBack(r) \/ Done(r) => Moves(r, "idle") /\ restore' \in Requests
    BY <2>4 DEF DatabaseTypeOK, Moves, Requests, Idle
  <2>9. \A s \in {"moved", "placed", "back", "idle"} : Moves(r, s) => pc = s
    BY DEF Moves
  <2> HIDE DEF pc
  <2> QED
    BY <2>5, <2>6, <2>7, <2>8, <2>9
<1>4. \A g \in {db', bak', last'} \ {None} : g \in {db, bak, last, f}
  BY <1>2 DEF MoveAway, Place, PlaceFails, MoveBack, Done
<1>5. \A g \in {db', bak'} \ {None} : g \in {db, bak, f}
  BY <1>2 DEF MoveAway, Place, PlaceFails, MoveBack, Done
<1>6. DatabaseTypeOK'
  BY <1>1, <1>2, <1>3, <1>4 DEF DatabaseTypeOK, Requests
<1>7. Exist' /\ LogAhead' /\ Connected'
  BY <1>1, <1>2, <1>3, <1>4 DEF Exist, LogAhead, Connected, Moves
<1>8. PathWhole' /\ Validated'
  BY <1>1, <1>2, <1>3, <1>5 DEF PathWhole, Validated, Moves, Sound
<1>9. Starting' /\ UpgradeHasCopy'
  BY <1>1, <1>2 DEF Starting, UpgradeHasCopy
<1>10. ASSUME serial
       PROVE  /\ \A q \in Restorers \ {r} : restore'[q].pc = "idle"
              /\ Waiting' = {r} \cap {q \in {r} : pc \in {"moved", "back"}}
              /\ Waiting = {r} \cap {q \in {r} : restore[r].pc \in {"moved", "back"}}
  <2>1. \A q \in Restorers \ {r} : restore[q].pc = "idle"
    BY <1>1, <1>10 DEF Between
  <2>2. \A q \in Restorers \ {r} : restore'[q].pc = "idle"
    BY <1>3, <2>1 DEF Moves
  <2> QED
    BY <1>3, <2>1, <2>2 DEF Waiting, Moves
<1>11. Between' /\ AllOrNothing'
  <2> SUFFICES ASSUME serial PROVE Between' /\ AllOrNothing'
    BY <1>1 DEF Between, AllOrNothing
  <2>1. \A p, q \in Restorers :
           restore'[p].pc # "idle" /\ restore'[q].pc # "idle" => p = q
    BY <1>10
  <2>2. CASE MoveAway(r)
    <3>1. /\ Waiting = {} /\ Waiting' = {r}
          /\ db' = None /\ last' = last
          /\ db # None /\ bak' = db
          /\ torn \/ db = last
      BY <1>1, <1>2, <1>3, <1>10, <2>2 DEF MoveAway, Between, AllOrNothing
    <3> QED
      BY <1>1, <2>1, <3>1 DEF Between, AllOrNothing
  <2>3. CASE Place(r)
    <3>1. Waiting' = {} /\ db' = f /\ last' = f /\ bak' = bak
      BY <1>3, <1>10, <2>3 DEF Place
    <3> QED
      BY <1>1, <1>2, <2>1, <3>1 DEF Between, AllOrNothing
  <2>4. CASE PlaceFails(r)
    <3>1. /\ Waiting = {r} /\ Waiting' = {r}
          /\ UNCHANGED <<db, bak, last>>
      BY <1>3, <1>10, <2>4 DEF PlaceFails
    <3> QED
      BY <1>1, <2>1, <3>1 DEF Between, AllOrNothing
  <2>5. CASE MoveBack(r)
    <3>1. Waiting = {r} /\ Waiting' = {}
      BY <1>3, <1>10, <2>5 DEF MoveBack
    <3>2. bak # None /\ (torn \/ bak = last)
      BY <3>1 DEF Between
    <3>3. db' = bak /\ last' = last
      BY <2>5, <3>2 DEF MoveBack
    <3> QED
      BY <1>1, <2>1, <3>1, <3>2, <3>3 DEF Between, AllOrNothing
  <2>6. CASE Done(r)
    <3>1. Waiting = {} /\ Waiting' = {} /\ db' = db /\ last' = last
      BY <1>3, <1>10, <2>6 DEF Done
    <3> QED
      BY <1>1, <1>2, <2>1, <3>1 DEF Between, AllOrNothing
  <2> QED
    BY <2>2, <2>3, <2>4, <2>5, <2>6
<1> QED
  BY <1>6, <1>7, <1>8, <1>9, <1>11

LEMMA DatabaseNextKeeps == DatabaseInv /\ [DatabaseNext]_databaseVars => DatabaseInv'
<1> SUFFICES ASSUME DatabaseInv, [DatabaseNext]_databaseVars PROVE DatabaseInv'
  OBVIOUS
<1>1. CASE \E v \in 1..MaxVersion : Start(v)
  BY <1>1, StartKeeps
<1>2. CASE UpToDate \/ BeginCopy \/ EndCopy \/ MigrateSome \/ Migrate
  BY <1>2, UpgradeKeeps
<1>3. CASE Commit \/ Checkpoint \/ Truncate \/ Reconnect
  BY <1>3, RunningKeeps
<1>4. CASE Close \/ Crash
  BY <1>4, DownKeeps
<1>5. CASE \E r \in Restorers : Restore(r)
  BY <1>5, UploadKeeps, RenameKeeps DEF Restore
<1>6. CASE UNCHANGED databaseVars
  BY <1>6 DEF databaseVars, DatabaseInv, FilesInv, DatabaseTypeOK, Exist, LogAhead,
              Connected, PathWhole, Validated, Starting, UpgradeHasCopy, Between,
              AllOrNothing, Sound, Opens, Fits, Commits, Version, Waiting
<1> QED
  BY <1>1, <1>2, <1>3, <1>4, <1>5, <1>6 DEF DatabaseNext

(* The invariant of the database files, for any files, requests, versions  *)
(* and starts, through every crash.                                        *)
THEOREM DatabaseInvariant == DatabaseSpec => []DatabaseInv
  BY DatabaseInitHolds, DatabaseNextKeeps, PTL DEF DatabaseSpec

(* Restore, validSQLiteFile: whatever was uploaded and however restores    *)
(* overlap, what SQLite refuses to open gets neither the name nor .bak.    *)
THEOREM NamesAreSound == DatabaseSpec => []PathWhole
<1>1. DatabaseInv => PathWhole
  BY DEF DatabaseInv, FilesInv
<1> QED
  BY <1>1, DatabaseInvariant, PTL

(* Restore's two renames and their undoing: one restore at a time never    *)
(* leaves the directory without a database, and leaves the old or the new  *)
(* one under the name unless the process died in the gap.                  *)
THEOREM RestoreIsAtomic == DatabaseSpec => []AllOrNothing
<1>1. DatabaseInv => AllOrNothing
  BY DEF DatabaseInv
<1> QED
  BY <1>1, DatabaseInvariant, PTL

(* backupSQLiteBeforeUpgrade: while runMigrations is at work there is a    *)
(* complete copy of this very database with its old schema.                *)
THEOREM CopyPrecedesUpgrade == DatabaseSpec => []UpgradeHasCopy
<1>1. DatabaseInv => UpgradeHasCopy
  BY DEF DatabaseInv, FilesInv
<1> QED
  BY <1>1, DatabaseInvariant, PTL

-----------------------------------------------------------------------------
(* The certificates *)

Match(c) == keyFile[c] = crtFile[c] /\ keyFile[c] \in Keys

Written ==
    \A c \in Certs :
        /\ order[c] = "savecrt" => keyFile[c] \in Keys
        /\ order[c] = "finish" => Match(c)

AcmeInv == AcmeTypeOK /\ Written /\ PairMatches

-----------------------------------------------------------------------------
(* There is always another key, and it is one.                             *)
LEMMA AnotherIsKey == ASSUME NEW file PROVE Another(file) \in Keys
<1>1. "k1" \in Keys /\ "k2" \in Keys /\ "k1" # "k2"
  BY DEF Keys
<1>2. \E k \in Keys : k # file
  BY <1>1
<1> QED
  BY <1>2 DEF Another

LEMMA AcmeInitHolds == AcmeInit => AcmeInv
<1> SUFFICES ASSUME AcmeInit PROVE AcmeInv
  OBVIOUS
<1>1. /\ certs \in [Certs -> Statuses \cup {"new", "gone"}]
      /\ order \in [Certs -> Stages \cup {"idle"}]
  BY DEF AcmeInit
<1>2. /\ keyFile \in [Certs -> File] /\ crtFile \in [Certs -> File] /\ account \in File
  BY DEF AcmeInit, File
<1>3. ticking \in BOOLEAN /\ cut \subseteq Certs
  BY DEF AcmeInit
<1>4. turns \in 0..MaxTurns
  BY AcmeAssumption DEF AcmeInit
<1>5. Written /\ PairMatches
  BY DEF AcmeInit, Written, PairMatches
<1> QED
  BY <1>1, <1>2, <1>3, <1>4, <1>5 DEF AcmeInv, AcmeTypeOK

(* What the handlers, the clock and the starts do: no file changes, and an *)
(* order that begins is not at the files yet.                              *)
LEMMA BesideOrders ==
    ASSUME AcmeInv, UNCHANGED <<fileVars, cut>>,
           certs' \in [Certs -> Statuses \cup {"new", "gone"}],
           \A c \in Certs : certs'[c] \in {"valid", "due"} => certs[c] \in {"valid", "due"},
           order' \in [Certs -> Stages \cup {"idle"}],
           \A c \in Certs : order'[c] # order[c] => order[c] = "idle" /\ order'[c] = "account",
           ticking' \in BOOLEAN, turns' \in 0..MaxTurns
    PROVE  AcmeInv'
<1>1. AcmeTypeOK'
  BY DEF AcmeInv, AcmeTypeOK, fileVars
<1>2. Written'
  BY DEF AcmeInv, AcmeTypeOK, Written, Match, fileVars
<1>3. PairMatches'
  BY DEF AcmeInv, AcmeTypeOK, PairMatches, fileVars
<1> QED
  BY <1>1, <1>2, <1>3 DEF AcmeInv

(* A turn is counted.                                                      *)
LEMMA TurnCounts == ASSUME AcmeTypeOK, Turn PROVE turns' \in 0..MaxTurns
BY AcmeAssumption DEF AcmeTypeOK, Turn

LEMMA HandlersKeep ==
    ASSUME AcmeInv, NEW c \in Certs,
           CreateCert(c) \/ NotDue(c) \/ DeleteCert(c) \/ GrowsDue(c)
    PROVE  AcmeInv'
<1>1. UNCHANGED <<fileVars, order, ticking, cut>> /\ turns' \in 0..MaxTurns
  BY TurnCounts DEF AcmeInv, AcmeTypeOK, CreateCert, NotDue, DeleteCert, GrowsDue
<1>2. certs' \in [Certs -> Statuses \cup {"new", "gone"}]
  BY DEF AcmeInv, AcmeTypeOK, CreateCert, NotDue, DeleteCert, GrowsDue, Statuses
<1>3. \A d \in Certs : certs'[d] \in {"valid", "due"} => certs[d] \in {"valid", "due"}
  BY DEF AcmeInv, AcmeTypeOK, CreateCert, NotDue, DeleteCert, GrowsDue
<1> QED
  BY <1>1, <1>2, <1>3, BesideOrders DEF AcmeInv, AcmeTypeOK

LEMMA BeginKeeps ==
    ASSUME AcmeInv, StartOrders \/ Tick
    PROVE  AcmeInv'
<1>1. UNCHANGED <<certs, fileVars, cut>> /\ ticking' \in BOOLEAN /\ turns' \in 0..MaxTurns
  BY TurnCounts DEF AcmeInv, AcmeTypeOK, StartOrders, Tick
<1>2. PICK chosen \in SUBSET Certs : Begin(chosen)
  BY DEF StartOrders, Tick
<1>3. \A c \in Certs : order[c] = "idle"
  BY DEF StartOrders, Tick, Ordering
<1>4. /\ order' \in [Certs -> Stages \cup {"idle"}]
      /\ \A c \in Certs : order'[c] # order[c] => order'[c] = "account"
  BY <1>2 DEF AcmeInv, AcmeTypeOK, Begin, Stages
<1> QED
  BY <1>1, <1>3, <1>4, BesideOrders DEF AcmeInv, AcmeTypeOK

(* One certificate at a time: what a step of an order leaves alone.        *)
LEMMA OrderKeeps ==
    ASSUME AcmeInv, NEW c \in Certs, Order(c)
    PROVE  AcmeInv'
<1>1. CASE LoadAccountKey(c)
  <2>1. /\ UNCHANGED <<certs, fileVars, ticking, turns, cut>>
        /\ order[c] = "account"
        /\ \E s \in {"newkey", "obtain", "failing"} : Goes(c, s)
    BY <1>1 DEF LoadAccountKey
  <2> QED
    BY <2>1 DEF AcmeInv, AcmeTypeOK, Written, PairMatches, Match, Goes, Stages, fileVars
<1>2. CASE CreateAccountKey(c)
  <2>1. /\ UNCHANGED <<certs, keyFile, crtFile, ticking, turns, cut>>
        /\ order[c] \in {"newkey", "writekey"}
        /\ \E s \in {"writekey", "obtain", "failing"} : Goes(c, s)
    BY <1>2 DEF CreateAccountKey
  <2>2. account' \in File
    BY <1>2, AnotherIsKey DEF AcmeInv, AcmeTypeOK, CreateAccountKey, Spoilt, File
  <2> QED
    BY <2>1, <2>2 DEF AcmeInv, AcmeTypeOK, Written, PairMatches, Match, Goes, Stages
<1>3. CASE ObtainAndSaveKey(c)
  <2>1. /\ UNCHANGED <<certs, crtFile, account, ticking, turns, cut>>
        /\ order[c] = "obtain"
    BY <1>3 DEF ObtainAndSaveKey
  <2>2. PICK f \in File, s \in {"savecrt", "failing"} :
           /\ keyFile' = [keyFile EXCEPT ![c] = f] /\ Goes(c, s)
           /\ s = "savecrt" => f \in Keys
    <3>1. Another(crtFile[c]) \in Keys
      BY AnotherIsKey
    <3>2. CASE /\ keyFile' = [keyFile EXCEPT ![c] = Another(crtFile[c])]
               /\ Goes(c, "savecrt")
      BY <3>1, <3>2 DEF File
    <3>3. CASE \E f \in Spoilt(keyFile[c], Another(crtFile[c])) :
                  keyFile' = [keyFile EXCEPT ![c] = f] /\ Goes(c, "failing")
      BY <3>1, <3>3 DEF File, Spoilt, AcmeInv, AcmeTypeOK
    <3> QED
      BY <1>3, <3>2, <3>3 DEF ObtainAndSaveKey
  <2>3. AcmeTypeOK'
    BY <2>1, <2>2 DEF AcmeInv, AcmeTypeOK, Goes, Stages
  <2>4. Written' /\ PairMatches'
    BY <2>1, <2>2 DEF AcmeInv, AcmeTypeOK, Written, PairMatches, Match, Goes
  <2> QED
    BY <2>3, <2>4 DEF AcmeInv
<1>4. CASE SaveCrt(c)
  <2>1. /\ UNCHANGED <<certs, keyFile, account, ticking, turns, cut>>
        /\ order[c] = "savecrt" /\ keyFile[c] \in Keys
    BY <1>4 DEF SaveCrt, AcmeInv, Written
  <2>2. PICK f \in File, s \in {"finish", "failing"} :
           /\ crtFile' = [crtFile EXCEPT ![c] = f] /\ Goes(c, s)
           /\ s = "finish" => f = keyFile[c]
    <3>1. CASE crtFile' = [crtFile EXCEPT ![c] = keyFile[c]] /\ Goes(c, "finish")
      BY <2>1, <3>1 DEF File
    <3>2. CASE \E f \in Spoilt(crtFile[c], crtFile[c]) :
                  crtFile' = [crtFile EXCEPT ![c] = f] /\ Goes(c, "failing")
      BY <3>2 DEF File, Spoilt, AcmeInv, AcmeTypeOK
    <3> QED
      BY <1>4, <3>1, <3>2 DEF SaveCrt
  <2>3. AcmeTypeOK'
    BY <2>1, <2>2 DEF AcmeInv, AcmeTypeOK, Goes, Stages
  <2>4. Written' /\ PairMatches'
    BY <2>1, <2>2 DEF AcmeInv, AcmeTypeOK, Written, PairMatches, Match, Goes
  <2> QED
    BY <2>3, <2>4 DEF AcmeInv
<1>5. CASE EndOrder(c)
  <2>1. /\ UNCHANGED <<fileVars, ticking>> /\ turns' \in 0..MaxTurns
        /\ Goes(c, "idle")
        /\ certs' \in [Certs -> Statuses \cup {"new", "gone"}]
        /\ \A d \in Certs \ {c} : certs'[d] = certs[d]
        /\ cut' \subseteq Certs /\ \A d \in Certs \ {c} : d \in cut => d \in cut'
    BY <1>5, TurnCounts DEF EndOrder, Record, AcmeInv, AcmeTypeOK, Statuses
  <2>2. certs'[c] \in {"valid", "due"} /\ c \notin cut' => Match(c)
    BY <1>5 DEF EndOrder, Record, Stored, AcmeInv, AcmeTypeOK, Written, Statuses
  <2>3. AcmeTypeOK'
    BY <2>1 DEF AcmeInv, AcmeTypeOK, Goes, fileVars
  <2>4. Written' /\ PairMatches'
    BY <2>1, <2>2 DEF AcmeInv, AcmeTypeOK, Written, PairMatches, Match, Goes, fileVars
  <2> QED
    BY <2>3, <2>4 DEF AcmeInv
<1> QED
  BY <1>1, <1>2, <1>3, <1>4, <1>5 DEF Order

LEMMA EndKeeps == ASSUME AcmeInv, ProcessEnds PROVE AcmeInv'
<1>1. /\ UNCHANGED <<certs, account, turns>>
      /\ ticking' = FALSE
      /\ order' = [c \in Certs |-> "idle"]
      /\ cut' = cut \cup {c \in Certs : order[c] \in {"obtain", "savecrt", "failing"}}
      /\ keyFile' \in [Certs -> File] /\ crtFile' \in [Certs -> File]
  BY DEF ProcessEnds
<1>2. \A c \in Certs :
         /\ keyFile'[c] # keyFile[c] => order[c] = "obtain"
         /\ crtFile'[c] # crtFile[c] => order[c] = "savecrt"
  BY DEF ProcessEnds
<1>3. AcmeTypeOK'
  BY <1>1 DEF AcmeInv, AcmeTypeOK
<1>4. Written'
  BY <1>1 DEF Written
<1>5. PairMatches'
  BY <1>1, <1>2 DEF AcmeInv, AcmeTypeOK, PairMatches
<1> QED
  BY <1>3, <1>4, <1>5 DEF AcmeInv

LEMMA AcmeNextKeeps == AcmeInv /\ [AcmeNext]_acmeVars => AcmeInv'
<1> SUFFICES ASSUME AcmeInv, [AcmeNext]_acmeVars PROVE AcmeInv'
  OBVIOUS
<1>1. CASE StartOrders \/ Tick
  BY <1>1, BeginKeeps
<1>2. CASE ProcessEnds
  BY <1>2, EndKeeps
<1>3. CASE \E c \in Certs : Order(c)
  BY <1>3, OrderKeeps
<1>4. CASE \E c \in Certs : CreateCert(c) \/ NotDue(c) \/ DeleteCert(c) \/ GrowsDue(c)
  BY <1>4, HandlersKeep
<1>5. CASE UNCHANGED acmeVars
  BY <1>5 DEF acmeVars, fileVars, AcmeInv, AcmeTypeOK, Written, PairMatches, Match
<1> QED
  BY <1>1, <1>2, <1>3, <1>4, <1>5 DEF AcmeNext

(* The invariant of the orders, for any certificates and any number of     *)
(* starts, faults and renewals.                                            *)
THEOREM AcmeInvariant == AcmeSpec => []AcmeInv
  BY AcmeInitHolds, AcmeNextKeeps, PTL DEF AcmeSpec

(* savePEMKey, os.WriteFile and UpdateCertificate, wherever they fail or   *)
(* are cut off: a certificate that the table calls valid has a key and a   *)
(* certificate that belong together, unless an order broke off at the      *)
(* files and could not say so.                                             *)
THEOREM ValidMatches == AcmeSpec => []PairMatches
<1>1. AcmeInv => PairMatches
  BY DEF AcmeInv
<1> QED
  BY <1>1, AcmeInvariant, PTL

-----------------------------------------------------------------------------
(* The directory *)

(* Database and certificates side by side: whichever of them moves, the    *)
(* directory has the properties of both.                                   *)
THEOREM DirectoryIsBoth ==
    Spec => []PathWhole /\ []AllOrNothing /\ []UpgradeHasCopy
              /\ []PairMatches
<1>1. Init => DatabaseInit /\ AcmeInit
  BY DEF Init
<1>2. [Next]_vars => [DatabaseNext]_databaseVars /\ [AcmeNext]_acmeVars
  BY DEF Next, Database, Certificates, vars
<1>3. Spec => DatabaseSpec /\ AcmeSpec
  BY <1>1, <1>2, PTL DEF Spec, DatabaseSpec, AcmeSpec
<1> QED
  BY <1>3, NamesAreSound, RestoreIsAtomic, CopyPrecedesUpgrade, ValidMatches, PTL
=============================================================================
