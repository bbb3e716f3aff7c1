---------------------------- MODULE DatabaseLife ----------------------------
(***************************************************************************)
(* The SQLite files through starts, upgrades, restores and crashes         *)
(*   internal/db/db.go                      openSQLite                     *)
(*   internal/db/migrations_version.go      backupSQLiteBeforeUpgrade      *)
(*   internal/api/handler/backup_handler.go Download, Restore              *)
(*                                                                         *)
(* A file is one database from its creation on, whatever its name becomes. *)
(* Its committed state is the file with the write-ahead log beside it: the *)
(* log belongs to the name of the database, not to the file, so it stays   *)
(* where it is when a restore renames the files.                           *)
(*                                                                         *)
(* Abstracted: rows are counted (seq commits have happened), the schema is *)
(* its version (0: without the table that holds it).  An upload is whole,  *)
(* only part of a database, no database at all, or a database with damaged *)
(* pages.  Encryption is one more way for an upload to be refused.         *)
(***************************************************************************)
EXTENDS Naturals

CONSTANTS
    Files,       \* databases (bound: each is created or uploaded once)
    Restorers,   \* requests that restore
    None,        \* no file, no log, no copy
    MaxSeq,      \* bound: commits in one database
    MaxVersion,  \* bound: versions of the program
    MaxStarts    \* bound: starts of the process

VARIABLES
    serial,    \* one restore at a time
    files,     \* file -> content
    db,        \* the file with the name of the database
    bak,       \* the file named .bak
    pre,       \* content of the copy named .pre-upgrade.bak
    wal,       \* the log named after the database
    proc,      \* the process: pc, the file its connections have open, version
    restore,   \* the restore requests
    last,      \* the file that was created or restored last
    torn,      \* the process ended between the two renames of a restore
    starts     \* starts so far

databaseVars == <<serial, files, db, bak, pre, wal, proc, restore, last, torn, starts>>

(* "cut": it lacks whole pages that its header says it has; "junk": it is  *)
(* not a database; "damaged": pages that opening does not read are not     *)
(* what they should be, or the end of the last one is missing; "mixed": a  *)
(* log of another database was written into it.  (An empty file is an      *)
(* empty database.)                                                        *)
Content == [seq : 0..MaxSeq, version : 0..MaxVersion,
            kind : {"whole", "cut", "junk", "damaged", "mixed"}]
Copy == [file : Files, seq : 0..MaxSeq, version : 0..MaxVersion,
         whole : BOOLEAN]
Log  == [file : Files, seq : 0..MaxSeq, version : 0..MaxVersion]

ASSUME DatabaseAssumption ==
    /\ None \notin Files \cup Content \cup Copy \cup Log
    /\ MaxSeq \in Nat /\ MaxVersion \in Nat \ {0} /\ MaxStarts \in Nat

DatabaseTypeOK ==
    /\ serial \in BOOLEAN
    /\ files \in [Files -> Content \cup {None}]
    /\ db \in Files \cup {None}
    /\ bak \in Files \cup {None}
    /\ pre \in Copy \cup {None}
    /\ wal \in Log \cup {None}
    /\ proc \in [pc : {"down", "opened", "copying", "migrating", "running"},
                 open : Files \cup {None}, version : 1..MaxVersion]
    /\ restore \in [Restorers ->
                      [pc : {"idle", "sent", "valid", "moved", "back", "placed"},
                       file : Files \cup {None}]]
    /\ last \in Files \cup {None}
    /\ torn \in BOOLEAN
    /\ starts \in 0..MaxStarts

Idle == [pc |-> "idle", file |-> None]

DatabaseInit ==
    /\ serial \in BOOLEAN
    /\ files = [f \in Files |-> None]
    /\ db = None
    /\ bak = None
    /\ pre = None
    /\ wal = None
    /\ proc = [pc |-> "down", open |-> None, version |-> 1]
    /\ restore = [r \in Restorers |-> Idle]
    /\ last = None
    /\ torn = FALSE
    /\ starts = 0

-----------------------------------------------------------------------------
(* What SQLite makes of a file and the log beside it *)

Unused == {f \in Files : files[f] = None}

(* The log continues file f.                                               *)
Fits(f) == IF wal = None THEN TRUE ELSE wal.file = f

Commits(f) == IF wal = None THEN files[f].seq ELSE wal.seq
Version(f) == IF wal = None THEN files[f].version ELSE wal.version

(* The pages of the log are written into file f.  (Another database's log  *)
(* damages it; which pages survive is not told.)                           *)
Merged(f) ==
    IF wal = None THEN files[f]
    ELSE IF wal.file = f
         THEN [files[f] EXCEPT !.seq = wal.seq, !.version = wal.version]
         ELSE [files[f] EXCEPT !.kind = "mixed"]

(* SQLite opens the file: it looks at the header and the size, and reads   *)
(* no page that nobody asks for.                                           *)
Opens(f) == files[f].kind \in {"whole", "damaged"} /\ Fits(f)

Readable(f) == files[f].kind = "whole" /\ Fits(f)

(* Checkpoint by size: the log stays as it is.                             *)
Checkpoint ==
    /\ proc.pc = "running"
    /\ wal # None
    /\ Opens(proc.open)
    /\ files' = [files EXCEPT ![proc.open] = Merged(proc.open)]
    /\ UNCHANGED <<serial, db, bak, pre, wal, proc, restore, last, torn, starts>>

(* The first statement of Download: wal_checkpoint(TRUNCATE).              *)
Truncate ==
    /\ proc.pc = "running"
    /\ wal # None
    /\ Opens(proc.open)
    /\ files' = [files EXCEPT ![proc.open] = Merged(proc.open)]
    /\ wal' = None
    /\ UNCHANGED <<serial, db, bak, pre, proc, restore, last, torn, starts>>

(* Any handler writes a row.                                               *)
Commit ==
    /\ proc.pc = "running"
    /\ LET f == proc.open IN
       /\ Opens(f)
       /\ Commits(f) < MaxSeq
       /\ wal' = [file |-> f, seq |-> Commits(f) + 1, version |-> Version(f)]
    /\ UNCHANGED <<serial, files, db, bak, pre, proc, restore, last, torn, starts>>

(* SetConnMaxLifetime: connections are replaced after five minutes and     *)
(* then find whatever file has the name.                                   *)
Reconnect ==
    /\ proc.pc = "running"
    /\ db \notin {None, proc.open}
    /\ proc' = [proc EXCEPT !.open = db]
    /\ UNCHANGED <<serial, files, db, bak, pre, wal, restore, last, torn, starts>>

-----------------------------------------------------------------------------
(* Start and end of the process.  A program is replaced by a newer one     *)
(* only.                                                                   *)

(* openSQLite by a program of version v.  Without a database an empty one  *)
(* is created, and SQLite removes a log that has no pages to go with.      *)
(* What cannot be opened ends the start, and what is damaged may end it.   *)
(* ensureSchemaMigrations writes where the table of versions is not there. *)
Bookkeeping(f, seq) == [file |-> f, seq |-> seq, version |-> 0]

Start(v) ==
    /\ proc.pc = "down"
    /\ starts < MaxStarts
    /\ starts' = starts + 1
    /\ v >= proc.version
    /\ IF db = None
       THEN \E f \in Unused :
              /\ db' = f
              /\ files' = [files EXCEPT ![f] =
                             [seq |-> 0, version |-> 0, kind |-> "whole"]]
              /\ wal' = Bookkeeping(f, 0)
              /\ last' = f
              /\ proc' = [pc |-> "opened", open |-> f, version |-> v]
       ELSE /\ Opens(db)
            /\ proc' = [pc |-> "opened", open |-> db, version |-> v]
            /\ \/ UNCHANGED wal
               \/ Version(db) = 0 /\ wal' = Bookkeeping(db, Commits(db))
            /\ UNCHANGED <<db, files, last>>
    /\ UNCHANGED <<serial, bak, pre, restore, torn>>

(* currentSchemaVersion is up to date: the migrations run all the same and *)
(* find nothing to do.                                                     *)
UpToDate ==
    /\ proc.pc = "opened"
    /\ Version(proc.open) >= proc.version
    /\ proc' = [proc EXCEPT !.pc = "running"]
    /\ UNCHANGED <<serial, files, db, bak, pre, wal, restore, last, torn, starts>>

(* Mutant: an existing copy is taken for the one that is wanted.           *)
BeginCopyOnce ==
    /\ proc.pc = "opened"
    /\ Version(proc.open) < proc.version
    /\ pre' = IF pre # None THEN pre
              ELSE [file |-> proc.open, seq |-> 0, version |-> 0, whole |-> FALSE]
    /\ proc' = [proc EXCEPT !.pc = IF pre # None THEN "migrating" ELSE "copying"]
    /\ UNCHANGED <<serial, files, db, bak, wal, restore, last, torn, starts>>

(* backupSQLiteBeforeUpgrade truncates the copy ...                        *)
BeginCopy ==
    /\ proc.pc = "opened"
    /\ Version(proc.open) < proc.version
    /\ pre' = [file |-> proc.open, seq |-> 0, version |-> 0, whole |-> FALSE]
    /\ proc' = [proc EXCEPT !.pc = "copying"]
    /\ UNCHANGED <<serial, files, db, bak, wal, restore, last, torn, starts>>

(* ... and copies the file, without the log.                               *)
EndCopy ==
    /\ proc.pc = "copying"
    /\ LET f == proc.open IN
       pre' = [file |-> f, seq |-> files[f].seq, version |-> files[f].version,
               whole |-> TRUE]
    /\ proc' = [proc EXCEPT !.pc = "migrating"]
    /\ UNCHANGED <<serial, files, db, bak, wal, restore, last, torn, starts>>

(* One statement of runMigrations: its row is not counted, as it can be    *)
(* repeated and counts for the old version until recordSchemaVersion.      *)
MigrateSome ==
    /\ proc.pc = "migrating"
    /\ LET f == proc.open IN
       wal' = [file |-> f, seq |-> Commits(f), version |-> Version(f)]
    /\ UNCHANGED <<serial, files, db, bak, pre, proc, restore, last, torn, starts>>

(* The rest of runMigrations, and recordSchemaVersion.                     *)
Migrate ==
    /\ proc.pc = "migrating"
    /\ LET f == proc.open IN
       wal' = [file |-> f, seq |-> Commits(f), version |-> proc.version]
    /\ proc' = [proc EXCEPT !.pc = "running"]
    /\ UNCHANGED <<serial, files, db, bak, pre, restore, last, torn, starts>>

Waiting == {r \in Restorers : restore[r].pc \in {"moved", "back"}}

down ==
    /\ proc' = [proc EXCEPT !.pc = "down", !.open = None]
    /\ restore' = [r \in Restorers |-> Idle]
    /\ torn' = (torn \/ Waiting # {})
    /\ UNCHANGED <<serial, db, bak, pre, last, starts>>

(* database.Close, of a service that ends or of a start that failed: the   *)
(* last connection moves the log into its file, unless that file has lost  *)
(* its name.                                                               *)
Close ==
    /\ proc.pc # "down"
    /\ Waiting = {}
    /\ IF proc.open = db
       THEN /\ files' = [files EXCEPT ![db] = Merged(db)]
            /\ wal' = None
       ELSE UNCHANGED <<files, wal>>
    /\ down

Crash ==
    /\ proc.pc # "down"
    /\ UNCHANGED <<files, wal>>
    /\ down

-----------------------------------------------------------------------------
(* Restore *)

(* The upload is written to a temporary file and flushed: a backup, whole  *)
(* or not, or any other file.                                              *)
Upload(r) ==
    /\ proc.pc = "running"
    /\ restore[r].pc = "idle"
    /\ serial => \A q \in Restorers : restore[q].pc = "idle"
    /\ \E f \in Unused, v \in 0..MaxVersion,
             kind \in {"whole", "cut", "junk", "damaged"} :
          /\ files' = [files EXCEPT ![f] =
                         [seq |-> 0, version |-> v, kind |-> kind]]
          /\ restore' = [restore EXCEPT ![r] = [pc |-> "sent", file |-> f]]
    /\ UNCHANGED <<serial, db, bak, pre, wal, proc, last, torn, starts>>

(* Mutant: what has arrived is taken, without a look at it.                *)
ValidateNothing(r) ==
    /\ restore[r].pc = "sent"
    /\ restore' = [restore EXCEPT ![r].pc = "valid"]
    /\ UNCHANGED <<serial, files, db, bak, pre, wal, proc, last, torn, starts>>

(* io.Copy reports an upload that broke off; validSQLiteFile opens the     *)
(* file and sets its journal mode.  SQLite then refuses what is no         *)
(* database and a file that lacks pages its header counts, and looks at    *)
(* no other page.  The temporary file of a refused upload is removed.      *)
Validate(r) ==
    /\ restore[r].pc = "sent"
    /\ restore' = [restore EXCEPT ![r] =
                     IF files[restore[r].file].kind \in {"whole", "damaged"}
                     THEN [@ EXCEPT !.pc = "valid"] ELSE Idle]
    /\ UNCHANGED <<serial, files, db, bak, pre, wal, proc, last, torn, starts>>

(* os.Rename of the database to .bak; there may be nothing to rename.     *)
(* (Renames within the directory are taken to fail for good reasons only:  *)
(* a file that is there can be renamed.)                                   *)
MoveAway(r) ==
    /\ restore[r].pc = "valid"
    /\ db' = None
    /\ bak' = IF db # None THEN db ELSE bak
    /\ restore' = [restore EXCEPT ![r].pc = "moved"]
    /\ UNCHANGED <<serial, files, pre, wal, proc, last, torn, starts>>

(* os.Rename of the upload to the database's name.                         *)
Place(r) ==
    /\ restore[r].pc = "moved"
    /\ db' = restore[r].file
    /\ last' = restore[r].file
    /\ restore' = [restore EXCEPT ![r].pc = "placed"]
    /\ UNCHANGED <<serial, files, bak, pre, wal, proc, torn, starts>>

PlaceFails(r) ==
    /\ restore[r].pc = "moved"
    /\ restore' = [restore EXCEPT ![r].pc = "back"]
    /\ UNCHANGED <<serial, files, db, bak, pre, wal, proc, last, torn, starts>>

(* Mutant: a restore that failed leaves the old database where it is.      *)
MoveBackNot(r) ==
    /\ restore[r].pc = "back"
    /\ restore' = [restore EXCEPT ![r] = Idle]
    /\ UNCHANGED <<serial, files, db, bak, pre, wal, proc, last, torn, starts>>

(* os.Rename of .bak to the database's name; the request failed.           *)
MoveBack(r) ==
    /\ restore[r].pc = "back"
    /\ IF bak # None
       THEN db' = bak /\ bak' = None
       ELSE UNCHANGED <<db, bak>>
    /\ restore' = [restore EXCEPT ![r] = Idle]
    /\ UNCHANGED <<serial, files, pre, wal, proc, last, torn, starts>>

(* .bak is removed; the request succeeded.                                 *)
Done(r) ==
    /\ restore[r].pc = "placed"
    /\ bak' = None
    /\ restore' = [restore EXCEPT ![r] = Idle]
    /\ UNCHANGED <<serial, files, db, pre, wal, proc, last, torn, starts>>

Restore(r) ==
    \/ Upload(r) \/ Validate(r) \/ MoveAway(r) \/ Place(r) \/ PlaceFails(r)
    \/ MoveBack(r) \/ Done(r)

DatabaseNext ==
    \/ \E v \in 1..MaxVersion : Start(v)
    \/ UpToDate \/ BeginCopy \/ EndCopy \/ MigrateSome \/ Migrate
    \/ Commit \/ Checkpoint \/ Truncate \/ Reconnect
    \/ Close \/ Crash
    \/ \E r \in Restorers : Restore(r)

DatabaseSpec == DatabaseInit /\ [][DatabaseNext]_databaseVars

-----------------------------------------------------------------------------
(* Properties *)

(* Whatever was uploaded, and however restores overlap or break off: what  *)
(* SQLite refuses to open, because it is no database or lacks pages, does  *)
(* not get the name of the database or of its backup.                      *)
PathWhole ==
    \A f \in {db, bak} \ {None} : files[f].kind \notin {"cut", "junk"}

(* A restore, one at a time, is all or nothing.  It never gives up one     *)
(* database before it has the other: from the first start on there is one  *)
(* under either name, at every step and after every crash.  While none is  *)
(* between its renames the database is the one that was restored or        *)
(* created last, and so it is after every crash but one in that very gap,  *)
(* which no start undoes.                                                  *)
AllOrNothing ==
    serial =>
        /\ starts > 0 => db # None \/ bak # None
        /\ ~torn /\ Waiting = {} => db = last

(* Migrations run on a database of which there is a complete copy with the *)
(* old schema.  Where the log held no row that the file had not, as after  *)
(* an orderly stop, the copy has every row.                                *)
UpgradeHasCopy ==
    proc.pc = "migrating" =>
        /\ pre # None /\ pre.whole
        /\ pre.file = proc.open
        /\ pre.version < proc.version
        /\ files[proc.open].seq = Commits(proc.open) => pre.seq = Commits(proc.open)

(* A restore is applied by a restart: the next start finds the uploaded    *)
(* database, if that was in order, in good order.                          *)
RestoreApplies ==
    proc.pc = "down" /\ starts > 0 /\ db = last /\ files[db].kind # "damaged"
        => Readable(db)
=============================================================================
