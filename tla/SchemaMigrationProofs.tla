----------------------- MODULE SchemaMigrationProofs -----------------------
(***************************************************************************)
(* The safety of opening, migrating and recovering a store, for every      *)
(* schema version, every set of rows and any number of interruptions.      *)
(*                                                                         *)
(* The invariants of SchemaMigration are not inductive.  What they rest on *)
(* is where a process can be while the marker has each of its values, that *)
(* the log is never behind the main file and is empty while the main file  *)
(* is being overwritten, and that a backup holds every row a recovery      *)
(* would need until the migration is over.                                 *)
(***************************************************************************)
EXTENDS SchemaMigration, TLAPS

\* Which marker there can be at each step of a start.
MarkerFollowsStep ==
    /\ pc \in {"check", "restore", "unmark", "ddl", "finish"} => marker \in {"plain", "backup"}
    /\ pc \in {"open", "backup", "import", "running"} => marker = "none"
    /\ pc \in {"mark", "markPlain"} => marker \in {"none", "torn"}

\* What is known of the version at each step.
VersionFollowsStep ==
    /\ pc \in {"backup", "mark", "markPlain", "ddl"} => SeenVer < Target
    /\ pc \in {"finish", "import", "running"} => SeenVer = Target
    /\ pc = "markPlain" => SeenVer = 0

\* The main file is torn only while a recovery overwrites it, and the log has
\* been moved by then; the log is never behind the main file.
LogFollowsMain ==
    /\ mainVer = Torn => marker = "backup" /\ walVer = NoWal /\ pc \in {"down", "check", "restore"}
    /\ pc \in {"restore", "unmark"} => walVer = NoWal
    /\ walVer # NoWal => mainVer <= walVer

\* A backup that a marker names, or is about to name, is complete and older.
BackupIsOlder == marker = "backup" \/ pc = "mark" => bakVer \in 0..Target - 1

\* A database without tables has no rows.
EmptyAtZero ==
    /\ mainVer = 0 => mainRows = {}
    /\ walVer = 0 => walRows = {}
    /\ bakVer = 0 => bakRows = {}

\* Where every acknowledged row is, while no backup was taken beside a log with
\* rows of its own.
RowsAreSomewhere ==
    liveWal = "no" =>
        /\ mainVer # Torn => committed \subseteq SeenRows \cup Imported
        /\ marker = "backup" \/ pc = "mark" => committed \subseteq bakRows \cup Imported
        /\ marker = "plain" \/ pc = "markPlain" => committed \subseteq Imported
        /\ pc = "running" => committed \subseteq SeenRows

IInv ==
    /\ TypeOK
    /\ MarkerFollowsStep
    /\ VersionFollowsStep
    /\ LogFollowsMain
    /\ BackupIsOlder
    /\ EmptyAtZero
    /\ RowsAreSomewhere

USE TargetAssumption, RowsAssumption, BoundAssumption

\* Every state a release may have left behind satisfies the invariant.
LEMMA InitIInv == Init => IInv
<1> SUFFICES ASSUME Init PROVE IInv
    OBVIOUS
<1>1. TypeOK
    BY DEF Init, TypeOK, Versions, Newer, Torn, Absent, NoWal, Steps, SeenRows
<1>2. MarkerFollowsStep /\ VersionFollowsStep /\ BackupIsOlder
    BY DEF Init, MarkerFollowsStep, VersionFollowsStep, BackupIsOlder
<1>3. LogFollowsMain /\ EmptyAtZero
    BY DEF Init, LogFollowsMain, EmptyAtZero, Versions, Newer, Torn, Absent, NoWal
<1>4. RowsAreSomewhere
    BY DEF Init, RowsAreSomewhere, SeenRows
<1> QED
    BY <1>1, <1>2, <1>3, <1>4 DEF IInv

\* Every step of a start, of the running store and of their ends keeps it.
LEMMA NextIInv == IInv /\ [Next]_vars => IInv'
<1> SUFFICES ASSUME IInv, [Next]_vars PROVE IInv'
    OBVIOUS
<1> USE DEF IInv, TypeOK, MarkerFollowsStep, VersionFollowsStep, LogFollowsMain, BackupIsOlder,
            EmptyAtZero, RowsAreSomewhere, Versions, Newer, Torn, Absent, NoWal, Steps, SeenVer,
            SeenRows, Step, MoveLog, mainVars, walVars, bakVars
<1>1. CASE ReadMarker
    BY <1>1 DEF ReadMarker
<1>2. CASE CheckCandidate
    BY <1>2 DEF CheckCandidate
<1>3. CASE RestoreBegins
    BY <1>3 DEF RestoreBegins
<1>4. CASE RestoreEnds
    BY <1>4 DEF RestoreEnds
<1>5. CASE RestoreRemoves
    BY <1>5 DEF RestoreRemoves
<1>6. CASE RemoveMarker
    BY <1>6 DEF RemoveMarker
<1>7. CASE OpenDatabase
    BY <1>7 DEF OpenDatabase
<1>8. CASE RefuseNewer
    BY <1>8 DEF RefuseNewer
<1>9. CASE BackupBegins
    BY <1>9 DEF BackupBegins
<1>10. CASE BackupEnds
    BY <1>10 DEF BackupEnds
<1>11. CASE MarkBegins
    BY <1>11 DEF MarkBegins
<1>12. CASE MarkEnds
    BY <1>12 DEF MarkEnds
<1>13. CASE CommitSchema
    BY <1>13 DEF CommitSchema
<1>14. CASE MigrationDone
    BY <1>14 DEF MigrationDone
<1>15. CASE ImportLegacySessions
    BY <1>15 DEF ImportLegacySessions
<1>16. ASSUME NEW row \in Rows, Commit(row) PROVE IInv'
    BY <1>16 DEF Commit
<1>17. CASE Checkpoint
    BY <1>17 DEF Checkpoint
<1>18. CASE Close
    BY <1>18 DEF Close
<1>19. CASE MigrationFails
    BY <1>19 DEF MigrationFails
<1>20. CASE Crash
    BY <1>20 DEF Crash
<1>21. CASE UNCHANGED vars
    BY <1>21 DEF vars
<1> QED
    BY <1>1, <1>2, <1>3, <1>4, <1>5, <1>6, <1>7, <1>8, <1>9, <1>10, <1>11, <1>12, <1>13,
       <1>14, <1>15, <1>16, <1>17, <1>18, <1>19, <1>20, <1>21 DEF Next, Start

\* The inductive invariant holds in every state of every behaviour.
THEOREM Invariance == Spec => []IInv
<1>1. Init => IInv
    BY InitIInv
<1>2. IInv /\ [Next]_vars => IInv'
    BY NextIInv
<1> QED
    BY <1>1, <1>2, PTL DEF Spec

\* The types of the files, the marker and the counters hold for any schema version.
THEOREM TypeCorrect == Spec => []TypeOK
<1>1. IInv => TypeOK
    BY DEF IInv
<1> QED
    BY <1>1, Invariance, PTL

\* However often init, migrate and recoverInterruptedMigration are interrupted, the
\* store serves only a complete database of its own version without a marker.
THEOREM ServesTarget == Spec => []ServesOnlyTarget
<1>1. IInv => ServesOnlyTarget
    BY DEF IInv, ServesOnlyTarget, MarkerFollowsStep, VersionFollowsStep, LogFollowsMain
<1> QED
    BY <1>1, Invariance, PTL

\* A marker never sends recovery to a missing, torn or newer backup.
THEOREM BackedUp == Spec => []MarkerHasBackup
<1>1. IInv => MarkerHasBackup
    BY DEF IInv, MarkerHasBackup, BackupIsOlder
<1> QED
    BY <1>1, Invariance, PTL

\* No interruption of migrations and recoveries loses an acknowledged row, as long
\* as every backup was copied from a database whose log had no rows of its own.
THEOREM Preserved == Spec => []NothingIsLost
<1>1. IInv => NothingIsLost
    BY DEF IInv, NothingIsLost, RowsAreSomewhere
<1> QED
    BY <1>1, Invariance, PTL
=============================================================================
