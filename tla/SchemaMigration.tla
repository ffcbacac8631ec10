-------------------------- MODULE SchemaMigration --------------------------
(***************************************************************************)
(* How a SQLite store is opened, migrated to the schema of the running     *)
(* code and recovered when that was interrupted: init,                     *)
(* recoverInterruptedMigration and migrate of StateStore                   *)
(* (apps/agent/src/state-store.js) and AuthStore                           *)
(* (packages/auth/src/auth-store.js), which follow the same protocol.      *)
(*                                                                         *)
(* The database is two files: the main file, and the write-ahead log with  *)
(* the commits not yet copied into it.  A connection sees both; copyFile   *)
(* copies the main file.  When the last connection is closed the log is    *)
(* moved into the main file; a process that dies leaves it.  Only deaths   *)
(* of the process are modelled, not the loss of unsynced pages with the    *)
(* machine.                                                                *)
(***************************************************************************)
EXTENDS Naturals

CONSTANTS Target,        \* SCHEMA_VERSION, AUTH_SCHEMA_VERSION
          Rows,          \* rows a committed transaction may have added
          Imported,      \* those that are also in sessions/*/session.json
          MaxCrashes     \* deaths and failures during a start

ASSUME TargetAssumption == Target \in Nat \ {0}
ASSUME RowsAssumption == Imported \subseteq Rows
ASSUME BoundAssumption == MaxCrashes \in Nat

VARIABLES
    mainVer, mainRows,   \* the main file; version Torn while it is half written
    walVer, walRows,     \* what a connection sees through the log, or version NoWal
    bakVer, bakRows,     \* state.sqlite.backup-v<n>; Torn, or Absent
    marker,              \* state.sqlite.migrating: none, torn, plain, backup
    pc,                  \* where the starting process is
    committed,           \* rows whose commit was acknowledged (in no file)
    liveWal,             \* the backup was copied beside a log with rows of its own
    crashes

mainVars == <<mainVer, mainRows>>
walVars == <<walVer, walRows>>
bakVars == <<bakVer, bakRows>>
vars == <<mainVars, walVars, bakVars, marker, pc, committed, liveWal, crashes>>

Newer == Target + 1      \* the schema of a later release
Torn == Target + 2
Absent == Target + 3
NoWal == Target + 4

Versions == 0..Newer

\* What a connection to the database sees.
SeenVer == IF walVer = NoWal THEN mainVer ELSE walVer
SeenRows == IF walVer = NoWal THEN mainRows ELSE walRows

Steps == {"down", "check", "restore", "unmark", "open", "backup", "markPlain", "mark", "ddl",
          "finish", "import", "running"}

TypeOK ==
    /\ mainVer \in Versions \cup {Torn}
    /\ mainRows \in SUBSET Rows
    /\ walVer \in Versions \cup {NoWal}
    /\ walRows \in SUBSET Rows
    /\ bakVer \in Versions \cup {Torn, Absent}
    /\ bakRows \in SUBSET Rows
    /\ marker \in {"none", "torn", "plain", "backup"}
    /\ pc \in Steps
    /\ committed \in SUBSET Rows
    /\ liveWal \in {"no", "yes"}
    /\ crashes \in 0..MaxCrashes

\* The previous release has stopped: closed, or killed with a log that holds
\* some of its commits.  Version 0 is a database that does not exist yet, or
\* has no tables; sessions may have been recorded in files alone then.
Init ==
    /\ mainVer \in Versions
    /\ mainRows \in SUBSET Rows
    /\ mainVer = 0 => mainRows = {}
    /\ \/ walVer = NoWal /\ walRows = {}
       \/ /\ mainVer > 0
          /\ walVer = mainVer
          /\ walRows \in SUBSET Rows
          /\ mainRows \subseteq walRows
    /\ committed \in IF mainVer = 0 THEN SUBSET Imported ELSE {SeenRows}
    /\ bakVer = Absent
    /\ bakRows = {}
    /\ marker = "none"
    /\ pc = "down"
    /\ liveWal = "no"
    /\ crashes = 0

Step(from, to) == pc = from /\ pc' = to

-----------------------------------------------------------------------------
\* recoverInterruptedMigration.

\* The marker is read; one that is not JSON ends every start here.
ReadMarker ==
    /\ pc = "down"
    /\ marker # "torn"
    /\ pc' = IF marker = "none" THEN "open" ELSE "check"
    /\ UNCHANGED <<mainVars, walVars, bakVars, marker, committed, liveWal, crashes>>

\* Closing the only connection moves the log into the main file.
MoveLog ==
    /\ mainVer' = SeenVer
    /\ mainRows' = SeenRows
    /\ walVer' = NoWal
    /\ walRows' = {}

\* Mutant: a database that cannot be opened ends the start.
CheckCandidateThrows ==
    /\ pc = "check"
    /\ IF mainVer = Torn
       THEN pc' = "down" /\ UNCHANGED <<mainVars, walVars>>
       ELSE pc' = (IF SeenVer = Target THEN "unmark" ELSE "restore") /\ MoveLog
    /\ UNCHANGED <<bakVars, marker, committed, liveWal, crashes>>

\* Version and integrity of what is there; a torn file is not complete.
CheckCandidate ==
    /\ pc = "check"
    /\ IF mainVer = Torn
       THEN pc' = "restore" /\ UNCHANGED <<mainVars, walVars>>
       ELSE pc' = (IF SeenVer = Target THEN "unmark" ELSE "restore") /\ MoveLog
    /\ UNCHANGED <<bakVars, marker, committed, liveWal, crashes>>

\* copyFile truncates the database ...
RestoreBegins ==
    /\ pc = "restore"
    /\ marker = "backup"
    /\ mainVer # Torn
    /\ mainVer' = Torn
    /\ UNCHANGED <<mainRows, walVars, bakVars, marker, pc, committed, liveWal, crashes>>

\* ... and copies the backup.
RestoreEnds ==
    /\ Step("restore", "unmark")
    /\ marker = "backup"
    /\ mainVer = Torn
    /\ mainVer' = bakVer
    /\ mainRows' = bakRows
    /\ UNCHANGED <<walVars, bakVars, marker, committed, liveWal, crashes>>

\* There was no database before: what there is now is removed.
RestoreRemoves ==
    /\ Step("restore", "unmark")
    /\ marker = "plain"
    /\ mainVer' = 0
    /\ mainRows' = {}
    /\ UNCHANGED <<walVars, bakVars, marker, committed, liveWal, crashes>>

RemoveMarker ==
    /\ Step("unmark", "open")
    /\ marker' = "none"
    /\ UNCHANGED <<mainVars, walVars, bakVars, committed, liveWal, crashes>>

-----------------------------------------------------------------------------
\* init and migrate.

\* The version decides.  AuthStore looks for a file before it opens one, and
\* makes no backup when there is none; StateStore looks after, and always does.
OpenDatabase ==
    /\ pc = "open"
    /\ \/ SeenVer = Target /\ pc' = "import"
       \/ SeenVer < Target /\ pc' = "backup"
       \/ SeenVer = 0 /\ pc' = "markPlain"
    /\ UNCHANGED <<mainVars, walVars, bakVars, marker, committed, liveWal, crashes>>

\* A database of a later release is closed and the start refused.
RefuseNewer ==
    /\ Step("open", "down")
    /\ SeenVer > Target
    /\ MoveLog
    /\ UNCHANGED <<bakVars, marker, committed, liveWal, crashes>>

\* copyFile to the backup: truncate, then the main file's bytes.
BackupBegins ==
    /\ pc = "backup"
    /\ bakVer # Torn
    /\ bakVer' = Torn
    /\ UNCHANGED <<mainVars, walVars, bakRows, marker, pc, committed, liveWal, crashes>>

BackupEnds ==
    /\ Step("backup", "mark")
    /\ bakVer = Torn
    /\ bakVer' = mainVer
    /\ bakRows' = mainRows
    /\ liveWal' = IF SeenRows # mainRows THEN "yes" ELSE liveWal
    /\ UNCHANGED <<mainVars, walVars, marker, committed, crashes>>

\* writeFile: the marker exists before it has its content.
MarkBegins ==
    /\ pc \in {"mark", "markPlain"}
    /\ marker = "none"
    /\ marker' = "torn"
    /\ UNCHANGED <<mainVars, walVars, bakVars, pc, committed, liveWal, crashes>>

\* Mutant: the backup is not recorded in the marker.
MarkForgetsBackup ==
    /\ pc \in {"mark", "markPlain"}
    /\ marker = "torn"
    /\ marker' = "plain"
    /\ pc' = "ddl"
    /\ UNCHANGED <<mainVars, walVars, bakVars, committed, liveWal, crashes>>

MarkEnds ==
    /\ pc \in {"mark", "markPlain"}
    /\ marker = "torn"
    /\ marker' = IF pc = "mark" THEN "backup" ELSE "plain"
    /\ pc' = "ddl"
    /\ UNCHANGED <<mainVars, walVars, bakVars, committed, liveWal, crashes>>

\* BEGIN IMMEDIATE ... PRAGMA user_version; COMMIT.
CommitSchema ==
    /\ Step("ddl", "finish")
    /\ walVer' = Target
    /\ walRows' = SeenRows
    /\ UNCHANGED <<mainVars, bakVars, marker, committed, liveWal, crashes>>

\* Mutant: the marker is left where it is.
KeepMarker ==
    /\ Step("finish", "import")
    /\ UNCHANGED <<mainVars, walVars, bakVars, marker, committed, liveWal, crashes>>

MigrationDone ==
    /\ Step("finish", "import")
    /\ marker' = "none"
    /\ UNCHANGED <<mainVars, walVars, bakVars, committed, liveWal, crashes>>

\* importLegacySessions: INSERT OR IGNORE of what the session files record.
ImportLegacySessions ==
    /\ Step("import", "running")
    /\ walVer' = SeenVer
    /\ walRows' = SeenRows \cup (Imported \cap committed)
    /\ UNCHANGED <<mainVars, bakVars, marker, committed, liveWal, crashes>>

-----------------------------------------------------------------------------
\* The running store, and its ends.

Commit(row) ==
    /\ pc = "running"
    /\ row \notin committed
    /\ walVer' = SeenVer
    /\ walRows' = SeenRows \cup {row}
    /\ committed' = committed \cup {row}
    /\ UNCHANGED <<mainVars, bakVars, marker, pc, liveWal, crashes>>

Checkpoint ==
    /\ pc = "running"
    /\ walVer # NoWal
    /\ mainVer' = walVer
    /\ mainRows' = walRows
    /\ UNCHANGED <<walVars, bakVars, marker, pc, committed, liveWal, crashes>>

Close ==
    /\ Step("running", "down")
    /\ MoveLog
    /\ UNCHANGED <<bakVars, marker, committed, liveWal, crashes>>

\* migrate of AuthStore fails: the database is closed before the error goes on.
MigrationFails ==
    /\ pc \in {"backup", "mark", "markPlain", "ddl", "finish"}
    /\ crashes < MaxCrashes
    /\ crashes' = crashes + 1
    /\ pc' = "down"
    /\ MoveLog
    /\ UNCHANGED <<bakVars, marker, committed, liveWal>>

\* The process dies, or a step fails and ends it: an uncommitted transaction is
\* rolled back either way.
Crash ==
    /\ pc # "down"
    /\ crashes < MaxCrashes
    /\ crashes' = crashes + 1
    /\ pc' = "down"
    /\ UNCHANGED <<mainVars, walVars, bakVars, marker, committed, liveWal>>

Start ==
    \/ ReadMarker \/ CheckCandidate \/ RestoreBegins \/ RestoreEnds \/ RestoreRemoves
    \/ RemoveMarker \/ OpenDatabase \/ RefuseNewer \/ BackupBegins \/ BackupEnds \/ MarkBegins
    \/ MarkEnds \/ CommitSchema \/ MigrationDone \/ ImportLegacySessions

Next ==
    \/ Start
    \/ \E row \in Rows : Commit(row)
    \/ Checkpoint \/ Close \/ MigrationFails \/ Crash

Spec == Init /\ [][Next]_vars

\* The service is started again (Restart=on-failure), and a start goes on.
FairSpec == Spec /\ WF_vars(Start)

-----------------------------------------------------------------------------
\* The store serves only a complete database of the code's own version, with
\* no interrupted migration left to recover: a start after any crash reaches
\* this or does not serve at all.
ServesOnlyTarget ==
    pc = "running" => SeenVer = Target /\ mainVer # Torn /\ marker = "none"

\* A marker that sends recovery to a backup names a complete backup of an
\* earlier version, whatever was interrupted before.
MarkerHasBackup == marker = "backup" => bakVer \in 0..Target - 1

\* Deaths and failures in any number of starts lose no acknowledged row, provided
\* each backup was copied from a database whose log had no rows of its own.
NothingIsLost == pc = "running" /\ liveWal = "no" => committed \subseteq SeenRows

\* "preserves the prior database as `state.sqlite.backup-v<version>`"
\* (docs/OPERATION_LEDGER.md:22): what was committed before the migration is
\* there when the store serves again.
PriorStateIsPreserved == pc = "running" => committed \subseteq SeenRows

\* Every interrupted start is made good by a later one, whatever the interruptions
\* left, except a half-written marker and a newer database, which stop every start.
ServesAgain == []<>(pc = "running" \/ marker = "torn" \/ SeenVer = Newer)
=============================================================================
