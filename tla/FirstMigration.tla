--------------------------- MODULE FirstMigration ---------------------------
(***************************************************************************)
(* The first migration (scripts/release): a journaled transaction that     *)
(* closes the public ingress, stops the legacy writers, copies their       *)
(* state, switches their units to the candidate release, starts it behind  *)
(* a paused admission gate and opens the ingress again; and the rollback   *)
(* that puts the legacy state, units and services back while nothing has   *)
(* been exposed.                                                           *)
(*                                                                         *)
(* One process runs at a time: the scripts have no command line and a      *)
(* caller runs them one after another.  What makes them hard is that any   *)
(* system call or proof may fail, the process may be killed and the        *)
(* machine may reboot between any two steps; systemd then starts every     *)
(* enabled unit whose conditions hold.  Only files survive, and those      *)
(* under /run do not survive a reboot.                                     *)
(***************************************************************************)
EXTENDS Integers, FiniteSets

CONSTANTS
    NW,          \* the number of writers (Session Host, Agent, MCP, OAuth MCP)
    NI,          \* the number of ingress units
    NT,          \* the number of live targets: the configuration and the databases
    Wal,         \* 1: databases are kept open in WAL mode, as the services of this
                 \* repository do; 0: inert services, as in the rehearsals
    MaxFaults    \* bound: failing calls and proofs, kills, service deaths and reboots

ASSUME SizeAssumption == NW \in Nat \ {0} /\ NI \in Nat \ {0} /\ NT \in Nat \ {0}
ASSUME BoundAssumption == MaxFaults \in Nat /\ Wal \in 0..1

Writers == 1..NW         \* in START_ORDER
Ingress == 1..NI
Targets == 1..NT

VARIABLES
    phase,           \* the migration journal's phase; -1 when there is no journal
    files,           \* the files that exist, among Files
    guards,          \* how many boot guards are on disk, ingress first
    managed,         \* the writers with a managed drop-in on disk
    loadedGuards,    \* what systemd has read of guards
    loadedManaged,   \* and of managed
    run,             \* run[w]: the code that writer w runs, "none" when stopped
    open,            \* the ingress units that run
    live,            \* live[t]: whose data the live target holds
    copy,            \* copy[t]: the destination-local copy of the snapshot
    snap,            \* the snapshot: "none", "current", or "stale"
    rec,             \* rec[r]: the rollback's own records
    at, op,          \* where the process is, and which entry point it runs
    exposed,         \* history: 1 once ingress was open after the snapshot
    faults

disk    == <<files, guards, managed>>
view    == <<loadedGuards, loadedManaged>>
units   == <<run, open>>
data    == <<live, copy, snap>>
process == <<at, op>>
history == <<exposed, faults>>
vars    == <<phase, disk, view, units, data, rec, process, history>>

Files == {"journalLock", "marker", "permit", "pause", "current", "activationLock",
          "sidecars"}
Codes == {"legacy", "candidate"}
Records == {"plan", "stop", "unit", "copy", "ledger", "pointer", "restart", "ingress"}

\* The journal's phases.
Prepared       == 0
Guarded        == 1
IngressClosed  == 2
Quiesced       == 3
Snapshotted    == 4
Switched       == 5
LocallyHealthy == 6
IngressOpen    == 7
Completed      == 8

Has(f) == f \in files

\* Something outside the scripts fails.
Fault == faults < MaxFaults /\ faults' = faults + 1

Proceed(place) == at' = place /\ UNCHANGED op
Stop           == at' = "idle" /\ op' = "none"

\* The recovery goes on to its next step; a step that was called by itself ends.
Then(place) == IF op = "resume" THEN Stop ELSE Proceed(place)

-----------------------------------------------------------------------------
(***************************************************************************)
(* Units: what systemd starts.                                             *)
(***************************************************************************)
AllGuards == NI + NW

\* Mutant: a guarded writer does not look at the marker.
WriterAlwaysStarts(w, g, fs) == TRUE

\* The conditions of the first g drop-ins when the files fs exist: without a
\* marker everything starts, under it no ingress, and a writer only while the
\* permit exists.
IngressGuard(i, g, fs) == i <= g => "marker" \notin fs
WriterGuard(w, g, fs)  == NI + w <= g => "marker" \notin fs \/ "permit" \in fs

MayOpen(i)  == IngressGuard(i, loadedGuards, files)
MayStart(w) == WriterGuard(w, loadedGuards, files)

\* The code a writer's unit runs; a managed unit needs the current link.
Code(w) == IF w \notin loadedManaged THEN "legacy"
           ELSE IF Has("current") THEN "candidate" ELSE "none"

\* Starting a unit whose condition fails is a success that starts nothing.
Started(w) == IF MayStart(w) THEN Code(w) ELSE run[w]

\* A candidate brings every live target to its own format; legacy code writes
\* to the live targets, so that a snapshot taken before is out of date.
DataAfter(c) ==
    /\ live' = IF c = "candidate" THEN [t \in Targets |-> "candidate"] ELSE live
    /\ snap' = IF c = "legacy" /\ snap = "current" THEN "stale" ELSE snap
    /\ UNCHANGED copy

\* An open database has its -wal and -shm files beside it; a process that ends
\* by itself closes its databases and so removes them.
SidecarsAfter(now) ==
    IF \E w \in Writers : now[w] # "none"
    THEN IF Wal = 1 THEN files \cup {"sidecars"} ELSE files
    ELSE files \ {"sidecars"}

\* systemctl start of the first writer that does not run.
StartNext(w) ==
    /\ run[w] = "none" /\ \A v \in Writers : v < w => run[v] # "none"
    /\ run' = [run EXCEPT ![w] = Started(w)]
    /\ files' = SidecarsAfter(run')
    /\ DataAfter(Started(w))

\* systemctl stop of the last writer that runs.
StopLast(w) ==
    /\ run[w] # "none" /\ \A v \in Writers : v > w => run[v] = "none"
    /\ run' = [run EXCEPT ![w] = "none"]
    /\ files' = SidecarsAfter(run')

WritersStopped == \A w \in Writers : run[w] = "none"
AllRun(c)      == \A w \in Writers : run[w] = c
IngressStopped == open = {}

\* inspectInstalledIngressGuard, inspectInstalledWriterGuards, inspectInstalledManagedUnits:
\* the files are there and systemd has read them.
IngressGuardsInstalled == guards >= NI /\ loadedGuards >= NI
WriterGuardsInstalled  == guards = AllGuards /\ loadedGuards = AllGuards
GuardsInstalled   == IngressGuardsInstalled /\ WriterGuardsInstalled
ManagedInstalled  == managed = Writers /\ loadedManaged = Writers
OriginalInstalled == managed = {} /\ loadedManaged = {}

-----------------------------------------------------------------------------
(***************************************************************************)
(* The journal.                                                            *)
(***************************************************************************)

\* prepareFirstMigration and startMigrationJournal: everything it stages is inert.
PrepareFirstMigration ==
    /\ at = "idle" /\ phase = -1
    /\ phase' = Prepared
    /\ UNCHANGED <<disk, view, units, data, rec, process, history>>

\* advanceMigrationJournal: O_EXCL lock, rename of the new record, unlock.
LockJournal ==
    /\ at = "advance" /\ ~Has("journalLock")
    /\ files' = files \cup {"journalLock"}
    /\ Proceed("locked")
    /\ UNCHANGED <<phase, guards, managed, view, units, data, rec, history>>

RenameJournal ==
    /\ at = "locked"
    /\ phase' = phase + 1
    /\ Proceed("renamed")
    /\ UNCHANGED <<disk, view, units, data, rec, history>>

\* Where the caller of advanceMigrationJournal goes on.
After(n) == CASE n = Guarded       -> "guarding"
              [] n = IngressClosed -> "closing"
              [] n = Quiesced      -> "quiescing"
              [] n = Switched      -> "managing"
              [] n = IngressOpen   -> "exposing"
              [] OTHER             -> "step"

UnlockJournal ==
    /\ at = "renamed"
    /\ files' = files \ {"journalLock"}
    /\ IF phase = Completed THEN Stop ELSE Proceed(After(phase))
    /\ UNCHANGED <<phase, guards, managed, view, units, data, rec, history>>

AdvanceMigrationJournal == LockJournal \/ RenameJournal \/ UnlockJournal

-----------------------------------------------------------------------------
(***************************************************************************)
(* runFirstMigration: seven steps, one attempt.                            *)
(***************************************************************************)
RunFirstMigration ==
    /\ at = "idle" /\ phase = Prepared
    /\ at' = "step" /\ op' = "forward"
    /\ UNCHANGED <<phase, disk, view, units, data, rec, history>>

\* installMigrationBootGuards.
CanGuard == ~Has("marker") /\ ~Has("permit") /\ guards = 0 /\ managed = {}
InstallMigrationBootGuards ==
    /\ at = "step" /\ phase = Prepared /\ CanGuard
    /\ Proceed("advance")
    /\ UNCHANGED <<phase, disk, view, units, data, rec, history>>

WriteGuard ==
    /\ at = "guarding" /\ guards < AllGuards
    /\ guards' = guards + 1
    /\ UNCHANGED <<phase, files, managed, view, units, data, rec, process, history>>
ReloadGuards ==
    /\ at = "guarding" /\ guards = AllGuards
    /\ loadedGuards' = guards /\ loadedManaged' = managed
    /\ Proceed("step")
    /\ UNCHANGED <<phase, disk, units, data, rec, history>>

\* closeLegacyIngress: the marker is durable before the journal claims that
\* ingress is closed.
CanClose ==
    /\ GuardsInstalled /\ ~Has("permit") /\ ~Has("marker")
    /\ open = Ingress /\ AllRun("legacy")

\* Mutant: the journal claims a closed ingress before the marker is written.
CloseWithoutMarker ==
    /\ at = "step" /\ phase = Guarded /\ CanClose
    /\ Proceed("advance")
    /\ UNCHANGED <<phase, disk, view, units, data, rec, history>>

CloseLegacyIngress ==
    /\ at = "step" /\ phase = Guarded /\ CanClose
    /\ files' = files \cup {"marker"}
    /\ Proceed("advance")
    /\ UNCHANGED <<phase, guards, managed, view, units, data, rec, history>>
StopIngressUnit ==
    /\ at = "closing"
    /\ \E i \in open :
          /\ \A j \in open : i <= j
          /\ open' = open \ {i}
    /\ UNCHANGED <<phase, disk, view, run, data, rec, process, history>>
IngressIsClosed ==
    /\ at = "closing" /\ IngressStopped
    /\ Proceed("step")
    /\ UNCHANGED <<phase, disk, view, units, data, rec, history>>

\* quiesceLegacyWriters.
Closed == Has("marker") /\ ~Has("permit") /\ GuardsInstalled

CanQuiesce == Closed /\ IngressStopped
QuiesceLegacyWriters ==
    /\ at = "step" /\ phase = IngressClosed /\ CanQuiesce
    /\ Proceed("advance")
    /\ UNCHANGED <<phase, disk, view, units, data, rec, history>>
StopLegacyWriter ==
    /\ at = "quiescing"
    /\ \E w \in Writers : StopLast(w)
    /\ UNCHANGED <<phase, guards, managed, view, open, data, rec, process, history>>
WritersAreStopped ==
    /\ at = "quiescing" /\ WritersStopped
    /\ Proceed("step")
    /\ UNCHANGED <<phase, disk, view, units, data, rec, history>>

\* snapshotLegacyState: the bundle is copied between two inspections.
CanSnapshot == Closed /\ WritersStopped
SnapshotLegacyState ==
    /\ at = "step" /\ phase = Quiesced /\ CanSnapshot
    /\ Proceed("copying")
    /\ UNCHANGED <<phase, disk, view, units, data, rec, history>>
BackupStateBundle ==
    /\ at = "copying" /\ CanSnapshot
    /\ snap' = "current"
    /\ Proceed("advance")
    /\ UNCHANGED <<phase, disk, view, units, live, copy, rec, history>>

\* installManagedOverrides.
CanSwitch == Closed /\ WritersStopped /\ IngressStopped /\ managed = {}
InstallManagedOverrides ==
    /\ at = "step" /\ phase = Snapshotted /\ CanSwitch
    /\ Proceed("advance")
    /\ UNCHANGED <<phase, disk, view, units, data, rec, history>>
WriteManaged ==
    /\ at = "managing"
    /\ \E w \in Writers \ managed :
          /\ \A v \in Writers \ managed : w <= v
          /\ managed' = managed \cup {w}
    /\ UNCHANGED <<phase, files, guards, view, units, data, rec, process, history>>
ReloadManaged ==
    /\ at = "managing" /\ managed = Writers
    /\ loadedGuards' = guards /\ loadedManaged' = managed
    /\ Proceed("step")
    /\ UNCHANGED <<phase, disk, units, data, rec, history>>

-----------------------------------------------------------------------------
(***************************************************************************)
(* activateManagedRelease, with switchVersion around the permit and the    *)
(* permit around the start.                                                *)
(***************************************************************************)
CanActivate == Closed /\ WritersStopped /\ IngressStopped /\ ManagedInstalled

\* pauseAdmission tolerates a flag that is already there.
ActivateManagedRelease ==
    /\ at = "step" /\ phase = Switched /\ CanActivate
    /\ files' = files \cup {"pause"}
    /\ Proceed("pointing")
    /\ UNCHANGED <<phase, guards, managed, view, units, data, rec, history>>
LockActivation ==
    /\ at = "pointing" /\ ~Has("activationLock")
    /\ files' = files \cup {"activationLock"}
    /\ Proceed("linking")
    /\ UNCHANGED <<phase, guards, managed, view, units, data, rec, history>>
LinkCandidate ==
    /\ at = "linking" /\ ~Has("current")
    /\ files' = files \cup {"current"}
    /\ Proceed("permitting")
    /\ UNCHANGED <<phase, guards, managed, view, units, data, rec, history>>

\* withWriterStartPermit: the permit exists only around the start.
CreatePermit(from, to) ==
    /\ at = from /\ Has("marker") /\ ~Has("permit")
    /\ files' = files \cup {"permit"}
    /\ Proceed(to)
    /\ UNCHANGED <<phase, guards, managed, view, units, data, rec, history>>
RemovePermit(from, to) ==
    /\ at = from
    /\ files' = files \ {"permit"}
    /\ Proceed(to)
    /\ UNCHANGED <<phase, guards, managed, view, units, data, rec, history>>

StartWriter(place) ==
    /\ at = place
    /\ \E w \in Writers : StartNext(w)
    /\ UNCHANGED <<phase, guards, managed, view, open, rec, process, history>>
CandidateHealthy ==
    /\ at = "starting" /\ AllRun("candidate") /\ Has("pause")
    /\ Proceed("started")
    /\ UNCHANGED <<phase, disk, view, units, data, rec, history>>
UnlockActivation ==
    /\ at = "unlocking"
    /\ files' = files \ {"activationLock"}
    /\ Proceed("advance")
    /\ UNCHANGED <<phase, guards, managed, view, units, data, rec, history>>

\* The catch clauses: the permit goes, the link goes, the started units stop.
\* Each may fail; a link that cannot be removed keeps the activation lock.
UndoPermit ==
    /\ at = "undoPermit"
    /\ \/ files' = files \ {"permit"} /\ UNCHANGED faults
       \/ UNCHANGED files /\ Fault
    /\ Proceed("undoPointer")
    /\ UNCHANGED <<phase, guards, managed, view, units, data, rec, exposed>>
UndoPointer ==
    /\ at = "undoPointer"
    /\ \/ files' = files \ {"current", "activationLock"} /\ UNCHANGED faults
       \/ files' \in {files, files \ {"current"}} /\ Fault
    /\ Proceed("undoStart")
    /\ UNCHANGED <<phase, guards, managed, view, units, data, rec, exposed>>
UndoStart ==
    /\ at = "undoStart"
    /\ \/ run' = [w \in Writers |-> "none"] /\ UNCHANGED faults
       \/ /\ \E left \in SUBSET Writers :
                run' = [w \in Writers |-> IF w \in left THEN run[w] ELSE "none"]
          /\ Fault
    /\ files' = SidecarsAfter(run')
    /\ Stop
    /\ UNCHANGED <<phase, guards, managed, view, open, data, rec, exposed>>

Activate ==
    \/ ActivateManagedRelease \/ LockActivation \/ LinkCandidate
    \/ CreatePermit("permitting", "starting") \/ StartWriter("starting") \/ CandidateHealthy
    \/ RemovePermit("started", "unlocking") \/ UnlockActivation
    \/ UndoPermit \/ UndoPointer \/ UndoStart

-----------------------------------------------------------------------------
(***************************************************************************)
(* openManagedIngress, and the opening that reopenLegacyIngress shares.    *)
(***************************************************************************)
CanOpen ==
    /\ Closed /\ Has("pause") /\ Has("current") /\ ~Has("activationLock")
    /\ ManagedInstalled /\ IngressStopped /\ AllRun("candidate")

\* Mutant: the marker goes before the journal records the possible exposure.
OpenBeforeJournal ==
    /\ at = "step" /\ phase = LocallyHealthy /\ CanOpen
    /\ Proceed("exposing")
    /\ UNCHANGED <<phase, disk, view, units, data, rec, history>>

\* The possible exposure is journaled before the boot guard is cleared.
OpenManagedIngress ==
    /\ at = "step" /\ phase = LocallyHealthy /\ CanOpen
    /\ Proceed("advance")
    /\ UNCHANGED <<phase, disk, view, units, data, rec, history>>
RemoveMarker ==
    /\ at = "exposing" /\ Has("marker")
    /\ files' = files \ {"marker"}
    /\ Proceed("opening")
    /\ UNCHANGED <<phase, guards, managed, view, units, data, rec, history>>
StartIngressUnit ==
    /\ at = "opening"
    /\ \E i \in Ingress \ open :
          /\ \A j \in Ingress \ open : i <= j
          /\ MayOpen(i)
          /\ open' = open \cup {i}
    /\ exposed' = 1
    /\ UNCHANGED <<phase, disk, view, run, data, rec, process, faults>>

\* The candidate is reachable and denies: the gate is still paused.
CandidateExposed == open = Ingress /\ AllRun("candidate") /\ Has("pause")
IngressProven ==
    /\ at = "opening" /\ op = "forward" /\ CandidateExposed
    /\ Proceed("resuming")
    /\ UNCHANGED <<phase, disk, view, units, data, rec, history>>
ResumeAdmission ==
    /\ at = "resuming" /\ CandidateExposed
    /\ files' = files \ {"pause"}
    /\ Proceed("advance")
    /\ UNCHANGED <<phase, guards, managed, view, units, data, rec, history>>

\* The catch clause: the marker first, then the ingress; each may fail.
RestoreMarker ==
    /\ at = "undoMarker"
    /\ \/ files' = files \cup {"marker"} /\ UNCHANGED faults
       \/ UNCHANGED files /\ Fault
    /\ Proceed("undoIngress")
    /\ UNCHANGED <<phase, guards, managed, view, units, data, rec, exposed>>
StopIngress ==
    /\ at = "undoIngress"
    /\ \/ open' = {} /\ UNCHANGED faults
       \/ open' \in SUBSET open /\ Fault
    /\ Stop
    /\ UNCHANGED <<phase, disk, view, run, data, rec, exposed>>

Open == \/ OpenManagedIngress \/ RemoveMarker \/ StartIngressUnit \/ IngressProven
        \/ ResumeAdmission \/ RestoreMarker \/ StopIngress

Forward ==
    \/ RunFirstMigration
    \/ InstallMigrationBootGuards \/ WriteGuard \/ ReloadGuards
    \/ CloseLegacyIngress \/ StopIngressUnit \/ IngressIsClosed
    \/ QuiesceLegacyWriters \/ StopLegacyWriter \/ WritersAreStopped
    \/ SnapshotLegacyState \/ BackupStateBundle
    \/ InstallManagedOverrides \/ WriteManaged \/ ReloadManaged
    \/ Activate \/ Open

-----------------------------------------------------------------------------
(***************************************************************************)
(* recoverFirstMigration: the rollback of a healthy, unexposed candidate.  *)
(***************************************************************************)

\* assertPreExposureRecoveryBoundary, with the view of the units it expects.
Boundary == /\ phase = LocallyHealthy /\ ~Has("journalLock")
            /\ Closed /\ IngressStopped

\* inspectRecoveryDestinations: the live targets are there, without sidecars.
DestinationsIntact == ~Has("sidecars") /\ \A t \in Targets : live[t] # "none"

\* verifyStagedRecoveryPair and verifyPreparedRollbackIntent.
PairVerified == Boundary /\ ManagedInstalled /\ DestinationsIntact

\* inspectMigrationRecovery classifies a journal as one that may be rolled back.
InspectMigrationRecovery == phase = LocallyHealthy /\ ~Has("journalLock") /\ Has("marker")

RecoverFirstMigration ==
    /\ at = "idle" /\ InspectMigrationRecovery
    /\ at' = "stage" /\ op' = "recover"
    /\ UNCHANGED <<phase, disk, view, units, data, rec, history>>

\* stageCompletePreExposureRecovery: the originals are unpacked beside, nothing
\* live changes.
StageCompletePreExposureRecovery ==
    /\ at = "stage" /\ PairVerified
    /\ Proceed("intent")
    /\ UNCHANGED <<phase, disk, view, units, data, rec, history>>

\* preparePreExposureRollback.  Every attempt uses new paths, so that nothing an
\* earlier one has recorded or copied is read any more.
PreparePreExposureRollback ==
    /\ at = "intent" /\ PairVerified
    /\ rec' = [r \in Records |-> IF r = "plan" THEN "done" ELSE "none"]
    /\ copy' = [t \in Targets |-> "none"]
    /\ Proceed("stop")
    /\ UNCHANGED <<phase, disk, view, units, live, snap, history>>

\* stopCandidateForRollback.
CanStop == PairVerified /\ Has("pause") /\ AllRun("candidate")
StopCandidateForRollback ==
    /\ at = "stop" /\ CanStop
    /\ rec' = [rec EXCEPT !["stop"] = "doing"]
    /\ Proceed("stopping")
    /\ UNCHANGED <<phase, disk, view, units, data, history>>
StopCandidateWriter ==
    /\ at = "stopping"
    /\ \E w \in Writers : StopLast(w)
    /\ UNCHANGED <<phase, guards, managed, view, open, data, rec, process, history>>
CandidateIsStopped ==
    /\ at = "stopping" /\ WritersStopped /\ PairVerified /\ Has("pause")
    /\ rec' = [rec EXCEPT !["stop"] = "done"]
    /\ Proceed("units")
    /\ UNCHANGED <<phase, disk, view, units, data, history>>

\* verifyCandidateRollbackStopped.
CandidateStopped == rec["stop"] = "done" /\ PairVerified /\ Has("pause") /\ WritersStopped

\* restoreOriginalUnitView.
RestoreOriginalUnitView ==
    /\ at = "units" /\ CandidateStopped
    /\ rec' = [rec EXCEPT !["unit"] = "doing"]
    /\ Proceed("unlinking")
    /\ UNCHANGED <<phase, disk, view, units, data, history>>
UnlinkManaged ==
    /\ at = "unlinking"
    /\ \E w \in managed :
          /\ \A v \in managed : w <= v
          /\ managed' = managed \ {w}
    /\ UNCHANGED <<phase, files, guards, view, units, data, rec, process, history>>
OriginalViewLoaded ==
    /\ at = "unlinking" /\ managed = {}
    /\ Closed /\ WritersStopped /\ IngressStopped
    /\ loadedGuards' = guards /\ loadedManaged' = managed
    /\ rec' = [rec EXCEPT !["unit"] = "done"]
    /\ Proceed("copies")
    /\ UNCHANGED <<phase, disk, units, data, history>>

\* verifyOriginalUnitViewBoundary, and with the staged pair and its destinations.
OriginalView ==
    /\ rec["plan"] = "done" /\ rec["stop"] = "done" /\ rec["unit"] = "done"
    /\ Boundary /\ Has("pause") /\ WritersStopped /\ OriginalInstalled
OriginalViewRestored == OriginalView /\ DestinationsIntact

\* stageLiveStateRecovery.
StageLiveStateRecovery ==
    /\ at = "copies" /\ OriginalViewRestored
    /\ rec' = [rec EXCEPT !["copy"] = "doing"]
    /\ Proceed("copyingBack")
    /\ UNCHANGED <<phase, disk, view, units, data, history>>
CopyTarget ==
    /\ at = "copyingBack"
    /\ \E t \in Targets :
          /\ copy[t] = "none" /\ \A u \in Targets : u < t => copy[u] # "none"
          /\ copy' = [copy EXCEPT ![t] = "legacy"]
    /\ UNCHANGED <<phase, disk, view, units, live, snap, rec, process, history>>
AllCopied == \A t \in Targets : copy[t] # "none"
CopiesVerified ==
    /\ at = "copyingBack" /\ AllCopied /\ OriginalViewRestored
    /\ rec' = [rec EXCEPT !["copy"] = "done"]
    /\ Proceed("ledger")
    /\ UNCHANGED <<phase, disk, view, units, data, history>>

-----------------------------------------------------------------------------
(***************************************************************************)
(* live-state-replacement-ledger.                                          *)
(***************************************************************************)

\* targetPosition, by the inodes of the live entry and of the copy.
Position(t) == IF copy[t] = "none" THEN "installed"
               ELSE IF live[t] = "none" THEN "parked" ELSE "pending"

PrepareLiveReplacementLedger ==
    /\ at = "ledger" /\ rec["copy"] = "done" /\ OriginalViewRestored
    /\ \A t \in Targets : Position(t) = "pending"
    /\ rec' = [rec EXCEPT !["ledger"] = "prepared"]
    /\ Proceed("replace")
    /\ UNCHANGED <<phase, disk, view, units, data, history>>

\* inspectLiveReplacementLedger: the positions agree with the ledger's phase,
\* and the boundary still holds.
LedgerInspected ==
    /\ rec["copy"] = "done" /\ rec["ledger"] # "none"
    /\ rec["ledger"] = "prepared" => \A t \in Targets : Position(t) = "pending"
    /\ rec["ledger"] = "done" => \A t \in Targets : Position(t) = "installed"
    /\ ~Has("sidecars") /\ OriginalView

\* Mutant: a replacement is begun only from the prepared phase.
ReplaceOnlyPrepared ==
    /\ at = "replace" /\ LedgerInspected /\ rec["ledger"] = "prepared"
    /\ rec' = [rec EXCEPT !["ledger"] = "doing"]
    /\ Proceed("replacing")
    /\ UNCHANGED <<phase, disk, view, units, data, history>>

\* replaceLiveStateFromLedger: an interrupted replacement goes on where it was.
ReplaceLiveStateFromLedger ==
    /\ at = "replace" /\ LedgerInspected
    /\ IF rec["ledger"] = "done"
       THEN Then("pointer") /\ UNCHANGED rec
       ELSE rec' = [rec EXCEPT !["ledger"] = "doing"] /\ Proceed("replacing")
    /\ UNCHANGED <<phase, disk, view, units, data, history>>

\* The first target that is not installed is parked, then its copy is renamed.
Current(t) == Position(t) # "installed" /\ \A u \in Targets : u < t => Position(u) = "installed"
ParkTarget ==
    /\ at = "replacing" /\ LedgerInspected
    /\ \E t \in Targets :
          /\ Current(t) /\ Position(t) = "pending"
          /\ live' = [live EXCEPT ![t] = "none"]
    /\ UNCHANGED <<phase, disk, view, units, copy, snap, rec, process, history>>
InstallTarget ==
    /\ at = "replacing" /\ LedgerInspected
    /\ \E t \in Targets :
          /\ Current(t) /\ Position(t) = "parked"
          /\ live' = [live EXCEPT ![t] = copy[t]]
          /\ copy' = [copy EXCEPT ![t] = "none"]
    /\ UNCHANGED <<phase, disk, view, units, snap, rec, process, history>>
StateReplaced ==
    /\ at = "replacing" /\ LedgerInspected
    /\ \A t \in Targets : Position(t) = "installed"
    /\ rec' = [rec EXCEPT !["ledger"] = "done"]
    /\ Then("pointer")
    /\ UNCHANGED <<phase, disk, view, units, data, history>>

\* deactivateCandidatePointer: intent, removal, confirmation; it may be called again.
ReplacementProof == rec["ledger"] = "done" /\ LedgerInspected
DeactivateCandidatePointer ==
    /\ at = "pointer" /\ ReplacementProof
    /\ \/ /\ rec["pointer"] = "none" /\ Has("current")
          /\ rec' = [rec EXCEPT !["pointer"] = "prepared"] /\ UNCHANGED <<files, process>>
       \/ /\ rec["pointer"] = "prepared" /\ Has("current")
          /\ rec' = [rec EXCEPT !["pointer"] = "doing"] /\ UNCHANGED <<files, process>>
       \/ /\ rec["pointer"] = "doing" /\ Has("current")
          /\ files' = files \ {"current"} /\ UNCHANGED <<rec, process>>
       \/ /\ rec["pointer"] = "doing" /\ ~Has("current")
          /\ rec' = [rec EXCEPT !["pointer"] = "done"] /\ UNCHANGED <<files, process>>
       \/ /\ rec["pointer"] = "done" /\ ~Has("current")
          /\ Then("restart") /\ UNCHANGED <<files, rec>>
    /\ UNCHANGED <<phase, guards, managed, view, units, data, history>>

-----------------------------------------------------------------------------
(***************************************************************************)
(* restartLegacyAfterRollback and reopenLegacyIngress.                     *)
(***************************************************************************)

\* Its boundary: everything is restored, recorded and bound.
RestartBoundary ==
    /\ rec["pointer"] = "done" /\ rec["ledger"] = "done" /\ rec["unit"] = "done"
    /\ ~Has("current") /\ ~Has("activationLock")
    /\ Boundary /\ OriginalInstalled

\* A first call finds the writers stopped and the ledger unchanged.
RestartLegacyAfterRollback ==
    /\ at = "restart" /\ rec["restart"] = "none"
    /\ RestartBoundary /\ ReplacementProof
    /\ rec' = [rec EXCEPT !["restart"] = "doing"]
    /\ Proceed("prefix")
    /\ UNCHANGED <<phase, disk, view, units, data, history>>
RestartAgain ==
    /\ at = "restart" /\ rec["restart"] # "none" /\ RestartBoundary
    /\ Proceed("prefix")
    /\ UNCHANGED <<phase, disk, view, units, data, rec, history>>

\* The writers that run must be a prefix of the start order.
RunsAPrefix ==
    \E k \in 0..NW : \A w \in Writers : (run[w] # "none") <=> (w <= k)
FindPrefix ==
    /\ at = "prefix" /\ RunsAPrefix
    /\ Proceed(IF rec["restart"] = "doing" /\ \E w \in Writers : run[w] = "none"
               THEN "permittingLegacy" ELSE "restarted")
    /\ UNCHANGED <<phase, disk, view, units, data, rec, history>>
LegacyStarted ==
    /\ at = "startingLegacy" /\ \A w \in Writers : run[w] # "none"
    /\ Proceed("unpermitting")
    /\ UNCHANGED <<phase, disk, view, units, data, rec, history>>
LegacyHealthy ==
    /\ at = "restarted" /\ RestartBoundary /\ AllRun("legacy")
    /\ rec' = [rec EXCEPT !["restart"] = "done"]
    /\ Then("reopen")
    /\ UNCHANGED <<phase, disk, view, units, data, history>>

\* The catch clause of withWriterStartPermit: started units go on running.
UndoLegacyPermit ==
    /\ at = "undoLegacyPermit"
    /\ \/ files' = files \ {"permit"} /\ UNCHANGED faults
       \/ UNCHANGED files /\ Fault
    /\ Stop
    /\ UNCHANGED <<phase, guards, managed, view, units, data, rec, exposed>>

\* recoveryBindings and the proof with the marker in place.
CanReopen ==
    /\ rec["restart"] = "done" /\ rec["pointer"] = "done" /\ rec["ledger"] = "done"
    /\ phase = LocallyHealthy /\ rec["ingress"] = "none"
    /\ ~Has("current") /\ ~Has("activationLock")
    /\ Closed /\ OriginalInstalled /\ AllRun("legacy") /\ IngressStopped
ReopenLegacyIngress ==
    /\ at = "reopen" /\ CanReopen
    /\ rec' = [rec EXCEPT !["ingress"] = "doing"]
    /\ Proceed("advance")
    /\ UNCHANGED <<phase, disk, view, units, data, history>>
LegacyExposed == open = Ingress /\ AllRun("legacy") /\ ~Has("marker")
LegacyIngressProven ==
    /\ at = "opening" /\ op \in {"recover", "resume"} /\ LegacyExposed
    /\ rec' = [rec EXCEPT !["ingress"] = "done"]
    /\ Stop
    /\ UNCHANGED <<phase, disk, view, units, data, history>>

\* The steps that a caller may call again by themselves.
ResumeRollback ==
    /\ at = "idle" /\ phase = LocallyHealthy
    /\ \/ rec["ledger"] # "none" /\ at' = "replace"
       \/ rec["ledger"] = "done" /\ at' = "pointer"
       \/ rec["pointer"] = "done" /\ at' = "restart"
       \/ rec["restart"] = "done" /\ at' = "reopen"
    /\ op' = "resume"
    /\ UNCHANGED <<phase, disk, view, units, data, rec, history>>

Rollback ==
    \/ RecoverFirstMigration \/ StageCompletePreExposureRecovery
    \/ PreparePreExposureRollback
    \/ StopCandidateForRollback \/ StopCandidateWriter \/ CandidateIsStopped
    \/ RestoreOriginalUnitView \/ UnlinkManaged \/ OriginalViewLoaded
    \/ StageLiveStateRecovery \/ CopyTarget \/ CopiesVerified
    \/ PrepareLiveReplacementLedger \/ ReplaceLiveStateFromLedger
    \/ ParkTarget \/ InstallTarget \/ StateReplaced
    \/ DeactivateCandidatePointer
    \/ RestartLegacyAfterRollback \/ RestartAgain \/ FindPrefix
    \/ CreatePermit("permittingLegacy", "startingLegacy") \/ StartWriter("startingLegacy")
    \/ LegacyStarted \/ RemovePermit("unpermitting", "restarted") \/ LegacyHealthy
    \/ UndoLegacyPermit \/ ReopenLegacyIngress \/ LegacyIngressProven
    \/ ResumeRollback

-----------------------------------------------------------------------------
(***************************************************************************)
(* Failures.                                                               *)
(***************************************************************************)

\* What the script checks where it is.
StartCheck(c) == \A w \in Writers : run[w] = c \/ (run[w] = "none" /\ Started(w) = c)
StepCheck ==
    CASE phase = Prepared       -> CanGuard
      [] phase = Guarded        -> CanClose
      [] phase = IngressClosed  -> CanQuiesce
      [] phase = Quiesced       -> CanSnapshot
      [] phase = Snapshotted    -> CanSwitch
      [] phase = Switched       -> CanActivate
      [] phase = LocallyHealthy -> CanOpen
      [] OTHER                  -> FALSE
PointerCheck ==
    /\ ReplacementProof
    /\ rec["pointer"] \in {"none", "prepared"} => Has("current")
    /\ rec["pointer"] = "done" => ~Has("current")
Check ==
    CASE at = "step"                               -> StepCheck
      [] at = "advance"                            -> ~Has("journalLock")
      [] at = "copying"                            -> CanSnapshot
      [] at = "pointing"                           -> ~Has("activationLock")
      [] at = "linking"                            -> ~Has("current")
      [] at \in {"permitting", "permittingLegacy"} -> Has("marker") /\ ~Has("permit")
      [] at = "starting"                           -> StartCheck("candidate") /\ Has("pause")
      [] at = "opening" /\ op = "forward"          -> AllRun("candidate") /\ Has("pause")
      [] at = "opening" /\ op # "forward"          -> AllRun("legacy")
      [] at = "resuming"                           -> CandidateExposed
      [] at \in {"stage", "intent"}                -> PairVerified
      [] at = "stop"                               -> CanStop
      [] at = "stopping"                           -> WritersStopped => PairVerified /\ Has("pause")
      [] at = "units"                              -> CandidateStopped
      [] at = "copies"                             -> OriginalViewRestored
      [] at = "copyingBack"                        -> OriginalViewRestored
      [] at = "ledger"                             -> OriginalViewRestored
      [] at \in {"replace", "replacing"}           -> LedgerInspected
      [] at = "pointer"                            -> PointerCheck
      [] at = "restart"  -> RestartBoundary /\ (rec["restart"] = "none" => ReplacementProof)
      [] at = "prefix"                             -> RunsAPrefix
      [] at = "startingLegacy"                     -> StartCheck("legacy")
      [] at = "restarted"                          -> RestartBoundary /\ AllRun("legacy")
      [] at = "reopen"                             -> CanReopen
      [] OTHER                                     -> TRUE

\* The catch clause that an error reaches; most errors end the script.
Catch == CASE at = "starting"                             -> "undoPermit"
           [] at \in {"linking", "permitting", "started"} -> "undoPointer"
           [] at = "unlocking"                            -> "undoStart"
           [] at \in {"exposing", "opening"}              -> "undoMarker"
           [] at = "startingLegacy"                       -> "undoLegacyPermit"
           [] OTHER                                       -> "idle"
Undoing == {"undoPermit", "undoPointer", "undoStart", "undoMarker", "undoIngress",
            "undoLegacyPermit"}

\* A call, an inspection or a proof fails; a false check fails for certain.
Throw ==
    /\ at \notin Undoing \cup {"idle"}
    /\ IF Check THEN Fault ELSE UNCHANGED faults
    /\ IF Catch = "idle" THEN Stop ELSE Proceed(Catch)
    /\ UNCHANGED <<phase, disk, view, units, data, rec, exposed>>

\* The process is killed: no catch clause runs.
Kill ==
    /\ at # "idle" /\ Fault
    /\ Stop
    /\ UNCHANGED <<phase, disk, view, units, data, rec, exposed>>

\* A writer dies; systemd starts it again when its conditions hold.  Its
\* databases are not closed, so that their sidecars stay.
ServiceDies ==
    /\ Fault
    /\ \E w \in Writers :
          LET next == IF MayStart(w) THEN Code(w) ELSE "none"
          IN  /\ run[w] # "none"
              /\ run' = [run EXCEPT ![w] = next]
              /\ DataAfter(next)
    /\ UNCHANGED <<phase, disk, view, open, rec, process, exposed>>

\* Power is lost and the machine boots: /run is empty, systemd reads the
\* drop-ins and starts what may start.
Reboot ==
    LET kept == files \ {"permit"}
        boots == {w \in Writers : WriterGuard(w, guards, kept)}
        code(w) == IF w \notin managed THEN "legacy"
                   ELSE IF Has("current") THEN "candidate" ELSE "none"
        some(c) == \E w \in boots : code(w) = c
    IN  /\ Fault
        /\ Stop
        /\ loadedGuards' = guards /\ loadedManaged' = managed
        /\ run' = [w \in Writers |-> IF w \in boots THEN code(w) ELSE "none"]
        /\ open' = {i \in Ingress : IngressGuard(i, guards, kept)}
        /\ files' = kept \cup IF Wal = 1 /\ boots # {} THEN {"sidecars"} ELSE {}
        /\ live' = IF some("candidate") THEN [t \in Targets |-> "candidate"] ELSE live
        /\ snap' = IF some("legacy") /\ snap = "current" THEN "stale" ELSE snap
        /\ exposed' = IF open' # {} /\ snap # "none" THEN 1 ELSE exposed
        /\ UNCHANGED <<phase, guards, managed, copy, rec>>

-----------------------------------------------------------------------------
Init ==
    /\ phase = -1 /\ files = IF Wal = 1 THEN {"sidecars"} ELSE {}
    /\ guards = 0 /\ managed = {} /\ loadedGuards = 0 /\ loadedManaged = {}
    /\ run = [w \in Writers |-> "legacy"] /\ open = Ingress
    /\ live = [t \in Targets |-> "legacy"] /\ copy = [t \in Targets |-> "none"]
    /\ snap = "none"
    /\ rec = [r \in Records |-> "none"]
    /\ at = "idle" /\ op = "none"
    /\ exposed = 0 /\ faults = 0

Next ==
    \/ PrepareFirstMigration \/ AdvanceMigrationJournal \/ Forward \/ Rollback
    \/ Throw \/ Kill \/ ServiceDies \/ Reboot

Spec == Init /\ [][Next]_vars

\* A script that runs goes on; an interrupted replacement is called again, whatever
\* else the operator tries between.
Continue == at # "idle" /\ (AdvanceMigrationJournal \/ Forward \/ Rollback \/ Throw)
Retry    == rec["ledger"] = "doing" /\ ResumeRollback /\ at' = "replace"
FairSpec == Spec /\ WF_vars(Continue) /\ SF_vars(Retry)

-----------------------------------------------------------------------------
(***************************************************************************)
(* Properties.                                                             *)
(***************************************************************************)
Places == {"idle", "step", "advance", "locked", "renamed", "guarding", "closing",
           "quiescing", "copying", "managing", "pointing", "linking", "permitting",
           "starting", "started", "unlocking", "exposing", "opening", "resuming",
           "stage", "intent", "stop", "stopping", "units", "unlinking", "copies", "copyingBack",
           "ledger", "replace", "replacing", "pointer", "restart", "prefix",
           "permittingLegacy", "startingLegacy", "unpermitting", "restarted", "reopen"}
          \cup Undoing

TypeOK ==
    /\ phase \in -1..Completed /\ files \subseteq Files
    /\ guards \in 0..AllGuards /\ managed \subseteq Writers
    /\ loadedGuards \in 0..AllGuards /\ loadedManaged \subseteq Writers
    /\ run \in [Writers -> Codes \cup {"none"}] /\ open \subseteq Ingress
    /\ live \in [Targets -> Codes \cup {"none"}]
    /\ copy \in [Targets -> {"none", "legacy"}]
    /\ snap \in {"none", "current", "stale"}
    /\ rec \in [Records -> {"none", "prepared", "doing", "done"}]
    /\ at \in Places /\ op \in {"none", "forward", "recover", "resume"}
    /\ exposed \in 0..1 /\ faults \in 0..MaxFaults

\* While the journal says that ingress is closed the persistent marker and the
\* guards that read it are on disk, and from the stop of the writers until the
\* exposure is journaled no ingress unit runs, whatever is killed or rebooted; the
\* public is let in only after the possible exposure was journaled, and until then
\* a candidate that runs has its admission gate paused.
IngressStaysClosed ==
    /\ phase \in IngressClosed..LocallyHealthy => Has("marker") /\ guards = AllGuards
    /\ phase \in Quiesced..LocallyHealthy => open = {}
    /\ exposed = 1 => phase >= IngressOpen
    /\ phase \in Switched..IngressOpen /\ ~Has("pause")
          /\ (\E w \in Writers : run[w] = "candidate") => exposed = 1

\* Writers run only on state that is theirs and complete: legacy code never
\* meets a target the candidate has written, no code meets a parked target; and
\* from the snapshot to the exposure, or to the restart of the legacy writers on
\* what was restored, nobody writes legacy state that the snapshot lacks.
WritersMatchState ==
    /\ \A w \in Writers : run[w] # "none" => \A t \in Targets : live[t] = run[w]
    /\ phase \in Snapshotted..LocallyHealthy /\ rec["restart"] = "none" => snap = "current"

\* A live target is rewound only to a snapshot that is current and while
\* nothing has been exposed ("no old-state rewind follows").
RewindsOnlyUnexposed ==
    [][(\E t \in Targets : live[t] = "none" /\ live'[t] # "none")
          => snap = "current" /\ exposed = 0 /\ phase < IngressOpen]_vars

\* "Calling again resumes a recognized parked or installed position": an
\* interrupted replacement that is called again is finished.
InterruptedReplacementFinishes ==
    rec["ledger"] = "doing" ~> rec["ledger"] = "done"

\* The recovery "for a locally healthy candidate" gets to its rollback intent when
\* nothing else fails.
HealthyCandidateCanRollBack ==
    (at = "stage" /\ CanOpen /\ faults = MaxFaults) ~> rec["plan"] = "done"
=============================================================================
