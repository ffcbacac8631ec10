------------------------ MODULE FirstMigrationProofs ------------------------
(***************************************************************************)
(* Proofs about FirstMigration, for any number of writers, ingress units   *)
(* and live targets, and any number of failures.                           *)
(***************************************************************************)
EXTENDS FirstMigration, TLAPS

USE DEF Prepared, Guarded, IngressClosed, Quiesced, Snapshotted, Switched, LocallyHealthy,
        IngressOpen, Completed, Has

-----------------------------------------------------------------------------
(***************************************************************************)
(* The inductive invariant.                                                *)
(***************************************************************************)

\* The places of a script that ask for a transition of the journal.
Claiming == at \in {"advance", "locked"}

\* The places of activateManagedRelease, of the exposure and of the rollback.
Activating  == {"pointing", "linking", "permitting", "starting", "started", "unlocking",
                "undoPermit", "undoPointer", "undoStart"}
Exposing    == {"exposing", "opening", "resuming", "undoMarker", "undoIngress"}
RollingBack == {"stage", "intent", "stop", "stopping", "units", "unlinking", "copies",
                "copyingBack", "ledger", "replace", "replacing", "pointer", "restart", "prefix",
                "permittingLegacy", "startingLegacy", "unpermitting", "restarted", "reopen",
                "undoLegacyPermit"}

\* Which phases a place belongs to.
PlaceMatchesPhase ==
    /\ at = "step" => phase \in Prepared..LocallyHealthy
    /\ Claiming => phase \in Prepared..IngressOpen
    /\ at = "renamed" => phase \in Guarded..Completed
    /\ at = "guarding" => phase = Guarded
    /\ at = "closing" => phase = IngressClosed
    /\ at \in {"quiescing", "copying"} => phase = Quiesced
    /\ at \in {"managing"} \cup Activating => phase = Switched
    /\ at \in Exposing => phase = IngressOpen
    /\ at \in RollingBack => phase = LocallyHealthy

\* The gate: marker, guards and ingress, the snapshot and what was exposed.
AllGuarded == guards = AllGuards /\ loadedGuards = AllGuards
GateHolds ==
    /\ phase >= IngressClosed \/ (phase = Guarded /\ Claiming) => AllGuarded
    /\ phase \in IngressClosed..LocallyHealthy \/ (phase = Guarded /\ Claiming) => Has("marker")
    /\ phase \in Quiesced..LocallyHealthy \/ (phase = IngressClosed /\ Claiming) => open = {}
    /\ snap # "none" => phase >= Quiesced
    /\ phase >= Snapshotted \/ (phase = Quiesced /\ Claiming) => snap # "none"
    /\ exposed = 1 => phase >= IngressOpen
    /\ phase >= IngressOpen /\ open # {} => exposed = 1

Live(c)     == \A t \in Targets : live[t] = c
NoneRuns(c) == \A w \in Writers : run[w] # c

\* A running writer runs the code that systemd has loaded for it.
RunsLoaded ==
    \A w \in Writers : /\ run[w] = "candidate" => w \in loadedManaged
                       /\ run[w] = "legacy" => w \notin loadedManaged

\* Until the units are switched everything is legacy, and from the snapshot on
\* nobody runs.
LegacyEra ==
    phase <= Snapshotted =>
        /\ OriginalInstalled /\ Live("legacy") /\ NoneRuns("candidate")
        /\ phase = Snapshotted \/ (phase = Quiesced /\ Claiming)
              => WritersStopped /\ snap = "current"

\* Nothing of a rollback exists before the candidate was healthy.
NoRollbackYet ==
    phase < LocallyHealthy => /\ \A r \in Records : rec[r] = "none"
                              /\ \A t \in Targets : copy[t] = "none" /\ live[t] # "none"

\* While the candidate is switched to: it starts behind the pause flag.
CandidateEra ==
    phase = Switched =>
        /\ NoneRuns("legacy") /\ snap = "current"
        /\ ~WritersStopped => Live("candidate") /\ loadedManaged = Writers /\ Has("pause")
        /\ at \in {"renamed", "managing"} => WritersStopped
        /\ at \in Activating \/ Claiming => ManagedInstalled /\ Has("pause")
        /\ at \in {"started", "unlocking"} \/ Claiming => Live("candidate")

\* Which data a ledger in a phase leaves.
Replaced(t) ==
    CASE rec["ledger"] = "doing" -> \/ copy[t] = "none" /\ live[t] = "legacy"
                                    \/ copy[t] = "legacy" /\ live[t] \in {"none", "candidate"}
      [] rec["ledger"] = "done"  -> copy[t] = "none" /\ live[t] = "legacy"
      [] OTHER                   -> live[t] = "candidate"

\* The rollback: each record is made when the one before it is done, the units
\* are the legacy ones before a target is touched, and legacy writers start
\* when every target is replaced.
RollbackEra ==
    phase = LocallyHealthy =>
        /\ Has("pause")
        /\ \A t \in Targets : Replaced(t)
        /\ rec["ledger"] # "none" => rec["unit"] = "done"
        /\ rec["restart"] # "none" => rec["ledger"] = "done"
        /\ rec["unit"] = "done" => OriginalInstalled
        /\ rec["unit"] = "done" /\ rec["restart"] = "none" => WritersStopped
        /\ rec["restart"] = "none" => NoneRuns("legacy") /\ snap = "current"
        /\ at = "unlinking" => rec["unit"] = "doing"
        /\ at \in {"copies", "copyingBack", "ledger"} => rec["ledger"] = "none"
        /\ at = "replacing" => rec["ledger"] = "doing"
        /\ at \in {"prefix", "permittingLegacy", "startingLegacy", "unpermitting", "restarted"}
              => rec["restart"] # "none"
        /\ Claiming => ManagedInstalled \/ rec["ledger"] = "done"

\* Once the journal allows the exposure, all is candidate or all is legacy.
Settled ==
    phase >= IngressOpen =>
        /\ \/ ManagedInstalled /\ Live("candidate") /\ NoneRuns("legacy")
           \/ OriginalInstalled /\ Live("legacy") /\ NoneRuns("candidate")
        /\ phase = IngressOpen /\ ~Has("pause") => exposed = 1

IInv == /\ PlaceMatchesPhase /\ GateHolds /\ RunsLoaded /\ LegacyEra /\ NoRollbackYet
        /\ CandidateEra /\ RollbackEra /\ Settled

-----------------------------------------------------------------------------
(***************************************************************************)
(* The steps, by what they change.                                         *)
(***************************************************************************)

\* The place of the process only.
Moves ==
    \/ RunFirstMigration \/ InstallMigrationBootGuards \/ IngressIsClosed
    \/ QuiesceLegacyWriters \/ WritersAreStopped \/ SnapshotLegacyState
    \/ InstallManagedOverrides \/ CandidateHealthy \/ OpenManagedIngress \/ IngressProven
    \/ RecoverFirstMigration \/ StageCompletePreExposureRecovery \/ RestartAgain
    \/ FindPrefix \/ LegacyStarted \/ ResumeRollback \/ Throw \/ Kill

\* Files, without the drop-ins.
FileSteps ==
    \/ LockJournal \/ UnlockJournal \/ CloseLegacyIngress \/ ActivateManagedRelease
    \/ LockActivation \/ LinkCandidate \/ UnlockActivation
    \/ CreatePermit("permitting", "starting") \/ RemovePermit("started", "unlocking")
    \/ CreatePermit("permittingLegacy", "startingLegacy")
    \/ RemovePermit("unpermitting", "restarted")
    \/ UndoPermit \/ UndoPointer \/ UndoLegacyPermit
    \/ RemoveMarker \/ ResumeAdmission \/ RestoreMarker

\* Drop-ins, or what systemd has read of them.
UnitSteps ==
    \/ WriteGuard \/ ReloadGuards \/ WriteManaged \/ ReloadManaged
    \/ UnlinkManaged \/ OriginalViewLoaded

IngressSteps == StopIngressUnit \/ StartIngressUnit \/ StopIngress
StopSteps    == StopLegacyWriter \/ StopCandidateWriter \/ UndoStart
StartSteps   == StartWriter("starting") \/ StartWriter("startingLegacy") \/ ServiceDies
JournalSteps == PrepareFirstMigration \/ RenameJournal

\* The rollback's records and copies, and the link.
RecordSteps ==
    \/ PreparePreExposureRollback \/ StopCandidateForRollback \/ CandidateIsStopped
    \/ RestoreOriginalUnitView \/ StageLiveStateRecovery \/ CopyTarget \/ CopiesVerified
    \/ PrepareLiveReplacementLedger \/ ReplaceLiveStateFromLedger \/ StateReplaced
    \/ DeactivateCandidatePointer \/ RestartLegacyAfterRollback \/ LegacyHealthy
    \/ ReopenLegacyIngress \/ LegacyIngressProven

TargetSteps == ParkTarget \/ InstallTarget

\* These are all the steps.
LEMMA StepsByEffect ==
    ASSUME Next
    PROVE  \/ Moves \/ FileSteps \/ UnitSteps \/ IngressSteps \/ StopSteps \/ StartSteps
           \/ JournalSteps \/ RecordSteps \/ TargetSteps \/ BackupStateBundle \/ Reboot
BY DEF Next, AdvanceMigrationJournal, Forward, Activate, Open, Rollback, Moves, FileSteps,
       UnitSteps, IngressSteps, StopSteps, StartSteps, JournalSteps, RecordSteps, TargetSteps

\* The constants as the provers need them.
LEMMA Constants ==
    /\ NW \in Nat /\ NI \in Nat /\ NT \in Nat /\ MaxFaults \in Nat
    /\ AllGuards \in Nat /\ NI <= AllGuards /\ AllGuards = NI + NW
    /\ 1 \in Writers /\ 1 \in Ingress /\ 1 \in Targets
    /\ Writers # {} /\ Ingress # {}
<1>1. NW \in Nat /\ NI \in Nat /\ NT \in Nat /\ NW >= 1 /\ NI >= 1 /\ NT >= 1
  BY SizeAssumption
<1>2. AllGuards \in Nat /\ NI <= AllGuards /\ AllGuards = NI + NW BY <1>1 DEF AllGuards
<1>3. 1 \in Writers /\ 1 \in Ingress /\ 1 \in Targets
  BY <1>1 DEF Writers, Ingress, Targets
<1> QED BY <1>1, <1>2, <1>3, BoundAssumption

\* Starting and stopping writers touches the sidecars and no other file.
LEMMA SidecarsOnly ==
    ASSUME files \subseteq Files, files' = SidecarsAfter(run')
    PROVE  files' \subseteq Files /\ \A f \in Files \ {"sidecars"} : Has(f)' <=> Has(f)
BY DEF SidecarsAfter, Files

-----------------------------------------------------------------------------
(***************************************************************************)
(* Type correctness, and the places.                                       *)
(***************************************************************************)

\* Every step leads to a place of the phase it leads to.
LEMMA PlaceStep == ASSUME TypeOK, PlaceMatchesPhase, [Next]_vars PROVE PlaceMatchesPhase'
<1> USE DEF process, history, disk, data, units, view, Stop, Proceed, Then,
        PlaceMatchesPhase, Claiming, Activating, Exposing, RollingBack
<1>0. CASE UNCHANGED vars BY <1>0 DEF vars
<1>1. CASE Moves /\ ~Throw
  <2>1. CASE RunFirstMigration \/ InstallMigrationBootGuards \/ IngressIsClosed
             \/ QuiesceLegacyWriters \/ WritersAreStopped \/ SnapshotLegacyState
             \/ InstallManagedOverrides \/ CandidateHealthy \/ OpenManagedIngress
             \/ IngressProven \/ Kill
    BY <2>1 DEF RunFirstMigration, InstallMigrationBootGuards, IngressIsClosed,
       QuiesceLegacyWriters, WritersAreStopped, SnapshotLegacyState,
       InstallManagedOverrides, CandidateHealthy, OpenManagedIngress, IngressProven, Kill
  <2>2. CASE RecoverFirstMigration \/ StageCompletePreExposureRecovery \/ RestartAgain
             \/ FindPrefix \/ LegacyStarted \/ ResumeRollback
    BY <2>2 DEF RecoverFirstMigration, InspectMigrationRecovery,
       StageCompletePreExposureRecovery, RestartAgain, FindPrefix, LegacyStarted, ResumeRollback
  <2> QED BY <1>1, <2>1, <2>2 DEF Moves
<1>2. CASE Throw BY <1>2 DEF Throw, Catch, Undoing
<1>3. CASE FileSteps
  <2>1. CASE UnlockJournal BY <2>1 DEF UnlockJournal, After, TypeOK
  <2>2. CASE FileSteps /\ ~UnlockJournal
    BY <2>2 DEF FileSteps, LockJournal, CloseLegacyIngress, ActivateManagedRelease,
       LockActivation, LinkCandidate, UnlockActivation, CreatePermit, RemovePermit,
       UndoPermit, UndoPointer, UndoLegacyPermit, RemoveMarker, ResumeAdmission, RestoreMarker
  <2> QED BY <1>3, <2>1, <2>2
<1>4. CASE UnitSteps
  BY <1>4 DEF UnitSteps, WriteGuard, ReloadGuards, WriteManaged, ReloadManaged,
     UnlinkManaged, OriginalViewLoaded
<1>5. CASE IngressSteps \/ StopSteps \/ StartSteps
  BY <1>5 DEF IngressSteps, StopSteps, StartSteps, StopIngressUnit, StartIngressUnit,
     StopIngress, StopLegacyWriter, StopCandidateWriter, UndoStart, StartWriter, ServiceDies
<1>6. CASE JournalSteps
  BY <1>6 DEF JournalSteps, PrepareFirstMigration, RenameJournal, TypeOK
<1>7. CASE RecordSteps
  BY <1>7 DEF RecordSteps, PreparePreExposureRollback, StopCandidateForRollback,
     CandidateIsStopped, RestoreOriginalUnitView, StageLiveStateRecovery, CopyTarget,
     CopiesVerified, PrepareLiveReplacementLedger, ReplaceLiveStateFromLedger,
     StateReplaced, DeactivateCandidatePointer, RestartLegacyAfterRollback, LegacyHealthy,
     ReopenLegacyIngress, LegacyIngressProven
<1>8. CASE TargetSteps BY <1>8 DEF TargetSteps, ParkTarget, InstallTarget
<1>9. CASE BackupStateBundle BY <1>9 DEF BackupStateBundle
<1>10. CASE Reboot BY <1>10 DEF Reboot
<1> QED BY <1>0, <1>1, <1>2, <1>3, <1>4, <1>5, <1>6, <1>7, <1>8, <1>9, <1>10, StepsByEffect
        DEF Moves

\* A failure is counted.
LEMMA FaultType ==
    ASSUME faults \in 0..MaxFaults, Fault
    PROVE  faults' \in 0..MaxFaults
BY Constants DEF Fault

\* What a start does to the data.
LEMMA DataAfterType ==
    ASSUME TypeOK, NEW c, DataAfter(c)
    PROVE  /\ live' \in [Targets -> Codes \cup {"none"}]
           /\ snap' \in {"none", "current", "stale"}
           /\ snap' # "none" <=> snap # "none"
           /\ copy' = copy
BY DEF TypeOK, DataAfter, Codes

\* Every step keeps the state well typed.
LEMMA TypeStep == ASSUME TypeOK, PlaceMatchesPhase, [Next]_vars PROVE TypeOK'
<1> USE DEF process, history, disk, data, units, view, Stop, Proceed, Then
<1>0. CASE UNCHANGED vars BY <1>0 DEF vars, TypeOK
<1>1. CASE Moves
  <2>1. at' \in Places /\ op' \in {"none", "forward", "recover", "resume"}
    BY <1>1 DEF Moves, RunFirstMigration, InstallMigrationBootGuards, IngressIsClosed,
       QuiesceLegacyWriters, WritersAreStopped, SnapshotLegacyState, InstallManagedOverrides,
       CandidateHealthy, OpenManagedIngress, IngressProven, RecoverFirstMigration,
       StageCompletePreExposureRecovery, RestartAgain, FindPrefix, LegacyStarted,
       ResumeRollback, Throw, Kill, Catch, Places, Undoing, TypeOK
  <2>2. /\ UNCHANGED <<phase, disk, view, units, data, rec, exposed>>
        /\ faults' = faults \/ Fault
    BY <1>1 DEF Moves, RunFirstMigration, InstallMigrationBootGuards, IngressIsClosed,
       QuiesceLegacyWriters, WritersAreStopped, SnapshotLegacyState, InstallManagedOverrides,
       CandidateHealthy, OpenManagedIngress, IngressProven, RecoverFirstMigration,
       StageCompletePreExposureRecovery, RestartAgain, FindPrefix, LegacyStarted,
       ResumeRollback, Throw, Kill
  <2> QED BY <2>1, <2>2, FaultType DEF TypeOK
<1>2. CASE FileSteps
  <2>1. at' \in Places /\ op' \in {"none", "forward", "recover", "resume"}
    BY <1>2 DEF FileSteps, LockJournal, UnlockJournal, CloseLegacyIngress,
       ActivateManagedRelease, LockActivation, LinkCandidate, UnlockActivation, CreatePermit,
       RemovePermit, UndoPermit, UndoPointer, UndoLegacyPermit, RemoveMarker, ResumeAdmission,
       RestoreMarker, After, Places, Undoing, TypeOK
  <2>2. files' \subseteq Files
    BY <1>2 DEF FileSteps, LockJournal, UnlockJournal, CloseLegacyIngress,
       ActivateManagedRelease, LockActivation, LinkCandidate, UnlockActivation, CreatePermit,
       RemovePermit, UndoPermit, UndoPointer, UndoLegacyPermit, RemoveMarker, ResumeAdmission,
       RestoreMarker, Files, TypeOK
  <2>3. /\ UNCHANGED <<phase, guards, managed, view, units, data, rec, exposed>>
        /\ faults' = faults \/ Fault
    BY <1>2 DEF FileSteps, LockJournal, UnlockJournal, CloseLegacyIngress,
       ActivateManagedRelease, LockActivation, LinkCandidate, UnlockActivation, CreatePermit,
       RemovePermit, UndoPermit, UndoPointer, UndoLegacyPermit, RemoveMarker, ResumeAdmission,
       RestoreMarker
  <2> QED BY <2>1, <2>2, <2>3, FaultType DEF TypeOK
<1>3. CASE UnitSteps
  BY <1>3, Constants DEF UnitSteps, WriteGuard, ReloadGuards, WriteManaged, ReloadManaged,
     UnlinkManaged, OriginalViewLoaded, Places, TypeOK
<1>4. CASE IngressSteps
  BY <1>4, FaultType DEF IngressSteps, StopIngressUnit, StartIngressUnit, StopIngress,
     Places, TypeOK
<1>5. CASE StopSteps
  <2>1. run' \in [Writers -> Codes \cup {"none"}] /\ files' = SidecarsAfter(run')
    BY <1>5 DEF StopSteps, StopLegacyWriter, StopCandidateWriter, UndoStart, StopLast, TypeOK
  <2>2. files' \subseteq Files BY <2>1, SidecarsOnly DEF TypeOK
  <2>3. /\ at' \in Places /\ op' \in {"none", "forward", "recover", "resume"}
        /\ UNCHANGED <<phase, guards, managed, view, open, data, rec, exposed>>
        /\ faults' = faults \/ Fault
    BY <1>5 DEF StopSteps, StopLegacyWriter, StopCandidateWriter, UndoStart, Places, TypeOK
  <2> QED BY <2>1, <2>2, <2>3, FaultType DEF TypeOK
<1>6. CASE StartSteps
  <2>0. \A w \in Writers : Code(w) \in Codes \cup {"none"} /\ Started(w) \in Codes \cup {"none"}
    BY DEF Code, Started, Codes, TypeOK
  <2>1. PICK w \in Writers, c \in Codes \cup {"none"} :
           /\ run' = [run EXCEPT ![w] = c] /\ DataAfter(c)
           /\ files' = SidecarsAfter(run') \/ files' = files
           /\ UNCHANGED <<phase, guards, managed, view, open, rec, process, exposed>>
           /\ faults' = faults \/ Fault
    <3>1. CASE ServiceDies BY <2>0, <3>1 DEF ServiceDies, Codes
    <3>2. CASE StartWriter("starting") \/ StartWriter("startingLegacy")
      BY <2>0, <3>2 DEF StartWriter, StartNext
    <3> QED BY <1>6, <3>1, <3>2 DEF StartSteps
  <2>2. run' \in [Writers -> Codes \cup {"none"}] BY <2>1 DEF TypeOK
  <2>3. files' \subseteq Files BY <2>1, SidecarsOnly DEF TypeOK
  <2>4. /\ live' \in [Targets -> Codes \cup {"none"}]
        /\ snap' \in {"none", "current", "stale"} /\ copy' = copy
    BY <2>1, DataAfterType
  <2> QED BY <2>1, <2>2, <2>3, <2>4, FaultType DEF TypeOK
<1>7. CASE JournalSteps
  BY <1>7 DEF JournalSteps, PrepareFirstMigration, RenameJournal, PlaceMatchesPhase, Claiming,
     Places, TypeOK
<1>8. CASE RecordSteps
  <2>1. at' \in Places /\ op' \in {"none", "forward", "recover", "resume"}
    BY <1>8 DEF RecordSteps, PreparePreExposureRollback, StopCandidateForRollback,
       CandidateIsStopped, RestoreOriginalUnitView, StageLiveStateRecovery, CopyTarget,
       CopiesVerified, PrepareLiveReplacementLedger, ReplaceLiveStateFromLedger,
       StateReplaced, DeactivateCandidatePointer, RestartLegacyAfterRollback, LegacyHealthy,
       ReopenLegacyIngress, LegacyIngressProven, Places, TypeOK
  <2>2. rec' \in [Records -> {"none", "prepared", "doing", "done"}]
    BY <1>8 DEF RecordSteps, PreparePreExposureRollback, StopCandidateForRollback,
       CandidateIsStopped, RestoreOriginalUnitView, StageLiveStateRecovery, CopyTarget,
       CopiesVerified, PrepareLiveReplacementLedger, ReplaceLiveStateFromLedger,
       StateReplaced, DeactivateCandidatePointer, RestartLegacyAfterRollback, LegacyHealthy,
       ReopenLegacyIngress, LegacyIngressProven, TypeOK
  <2>3. copy' \in [Targets -> {"none", "legacy"}]
    BY <1>8 DEF RecordSteps, PreparePreExposureRollback, StopCandidateForRollback,
       CandidateIsStopped, RestoreOriginalUnitView, StageLiveStateRecovery, CopyTarget,
       CopiesVerified, PrepareLiveReplacementLedger, ReplaceLiveStateFromLedger,
       StateReplaced, DeactivateCandidatePointer, RestartLegacyAfterRollback, LegacyHealthy,
       ReopenLegacyIngress, LegacyIngressProven, TypeOK
  <2>4. /\ files' \in {files, files \ {"current"}}
        /\ UNCHANGED <<phase, guards, managed, view, units, live, snap, history>>
    BY <1>8 DEF RecordSteps, PreparePreExposureRollback, StopCandidateForRollback,
       CandidateIsStopped, RestoreOriginalUnitView, StageLiveStateRecovery, CopyTarget,
       CopiesVerified, PrepareLiveReplacementLedger, ReplaceLiveStateFromLedger,
       StateReplaced, DeactivateCandidatePointer, RestartLegacyAfterRollback, LegacyHealthy,
       ReopenLegacyIngress, LegacyIngressProven
  <2> QED BY <2>1, <2>2, <2>3, <2>4 DEF TypeOK
<1>9. CASE TargetSteps
  BY <1>9 DEF TargetSteps, ParkTarget, InstallTarget, Codes, TypeOK
<1>10. CASE BackupStateBundle BY <1>10 DEF BackupStateBundle, Places, TypeOK
<1>11. CASE Reboot
  <2>1. /\ run' \in [Writers -> Codes \cup {"none"}] /\ open' \subseteq Ingress
        /\ live' \in [Targets -> Codes \cup {"none"}] /\ snap' \in {"none", "current", "stale"}
    BY <1>11 DEF Reboot, Codes, TypeOK
  <2>2. files' \subseteq Files BY <1>11 DEF Reboot, Files, TypeOK
  <2>3. /\ UNCHANGED <<phase, guards, managed, copy, rec>>
        /\ loadedGuards' = guards /\ loadedManaged' = managed
        /\ at' = "idle" /\ op' = "none" /\ exposed' \in {1, exposed} /\ Fault
    BY <1>11 DEF Reboot
  <2> QED BY <2>1, <2>2, <2>3, FaultType DEF TypeOK, Places
<1> QED BY <1>0, <1>1, <1>2, <1>3, <1>4, <1>5, <1>6, <1>7, <1>8, <1>9, <1>10, <1>11,
        StepsByEffect

-----------------------------------------------------------------------------
(***************************************************************************)
(* What the steps of a group leave alone, and what starts.                 *)
(***************************************************************************)

\* A move keeps everything but the place.
LEMMA MovesEffect ==
    ASSUME Moves
    PROVE  UNCHANGED <<phase, files, guards, managed, loadedGuards, loadedManaged, run, open,
                       live, copy, snap, rec, exposed>>
BY DEF Moves, RunFirstMigration, InstallMigrationBootGuards, IngressIsClosed,
   QuiesceLegacyWriters, WritersAreStopped, SnapshotLegacyState, InstallManagedOverrides,
   CandidateHealthy, OpenManagedIngress, IngressProven, RecoverFirstMigration,
   StageCompletePreExposureRecovery, RestartAgain, FindPrefix, LegacyStarted, ResumeRollback,
   Throw, Kill, process, history, disk, data, units, view

\* A step on files keeps the rest; only the closing adds and only the exposure
\* removes the marker, only the activation adds and only the end of the
\* exposure removes the pause flag.
LEMMA FileStepsEffect ==
    ASSUME FileSteps
    PROVE  /\ UNCHANGED <<phase, guards, managed, loadedGuards, loadedManaged, run, open,
                          live, copy, snap, rec, exposed>>
           /\ Has("marker")' /\ ~Has("marker") => CloseLegacyIngress \/ RestoreMarker
           /\ Has("marker") /\ ~Has("marker")' => RemoveMarker
           /\ Has("pause")' /\ ~Has("pause") => ActivateManagedRelease
           /\ Has("pause") /\ ~Has("pause")' => ResumeAdmission
<1> USE DEF process, history, disk, data, units, view
<1>1. CASE LockJournal \/ UnlockJournal \/ CloseLegacyIngress \/ ActivateManagedRelease
           \/ LockActivation \/ LinkCandidate \/ UnlockActivation
  BY <1>1 DEF LockJournal, UnlockJournal, CloseLegacyIngress, ActivateManagedRelease,
     LockActivation, LinkCandidate, UnlockActivation
<1>2. CASE CreatePermit("permitting", "starting") \/ RemovePermit("started", "unlocking")
           \/ CreatePermit("permittingLegacy", "startingLegacy")
           \/ RemovePermit("unpermitting", "restarted")
  BY <1>2 DEF CreatePermit, RemovePermit
<1>3. CASE UndoPermit \/ UndoPointer \/ UndoLegacyPermit \/ RemoveMarker \/ ResumeAdmission
           \/ RestoreMarker
  BY <1>3 DEF UndoPermit, UndoPointer, UndoLegacyPermit, RemoveMarker, ResumeAdmission,
     RestoreMarker
<1> QED BY <1>1, <1>2, <1>3 DEF FileSteps

\* Stopping writers stops writers.
LEMMA StopStepsEffect ==
    ASSUME TypeOK, StopSteps
    PROVE  /\ UNCHANGED <<phase, guards, managed, loadedGuards, loadedManaged, open,
                          live, copy, snap, rec, exposed>>
           /\ \A f \in Files \ {"sidecars"} : Has(f)' <=> Has(f)
           /\ \A w \in Writers : run'[w] \in {"none", run[w]}
           /\ at' = at \/ (at = "undoStart" /\ at' = "idle")
<1> USE DEF process, history, disk, data, units, view
<1>1. /\ files' = SidecarsAfter(run')
      /\ \A w \in Writers : run'[w] \in {"none", run[w]}
      /\ UNCHANGED <<phase, guards, managed, loadedGuards, loadedManaged, open,
                     live, copy, snap, rec, exposed>>
      /\ at' = at \/ (at = "undoStart" /\ at' = "idle")
  BY DEF StopSteps, StopLegacyWriter, StopCandidateWriter, UndoStart, StopLast, TypeOK, Stop
<1> QED BY <1>1, SidecarsOnly DEF TypeOK

\* A start concerns one writer, which then runs what it ran, nothing, or the
\* code that systemd has loaded for it; systemd starts by itself only a writer
\* that ran.
LEMMA StartStepsEffect ==
    ASSUME TypeOK, StartSteps
    PROVE  /\ UNCHANGED <<phase, guards, managed, loadedGuards, loadedManaged, open,
                          copy, rec, at, op, exposed>>
           /\ \A f \in Files \ {"sidecars"} : Has(f)' <=> Has(f)
           /\ \E w \in Writers, c \in Codes \cup {"none"} :
                 /\ run' = [run EXCEPT ![w] = c] /\ DataAfter(c)
                 /\ c = "candidate" => w \in loadedManaged
                 /\ c = "legacy" => w \notin loadedManaged \/ run[w] = "legacy"
                 /\ run[w] # "none" \/ (run[w] = "none" /\ at \in {"starting", "startingLegacy"})
<1> USE DEF process, history, disk, data, units, view
<1>0. \A w \in Writers : /\ Code(w) \in Codes \cup {"none"}
                         /\ Code(w) = "candidate" => w \in loadedManaged
                         /\ Code(w) = "legacy" => w \notin loadedManaged
  BY DEF Code, Codes
<1>1. CASE ServiceDies
  <2>1. PICK w \in Writers, c \in Codes \cup {"none"} :
           /\ c \in {Code(w), "none"}
           /\ run[w] # "none" /\ run' = [run EXCEPT ![w] = c] /\ DataAfter(c)
    BY <1>0, <1>1 DEF ServiceDies
  <2>2. /\ UNCHANGED <<phase, guards, managed, loadedGuards, loadedManaged, open,
                       copy, rec, at, op, exposed>>
        /\ UNCHANGED files
    BY <1>1, <2>1 DEF ServiceDies, DataAfter
  <2>3. c \in Codes \cup {"none"} BY <1>0, <2>1
  <2>4. /\ c = "candidate" => w \in loadedManaged
        /\ c = "legacy" => w \notin loadedManaged
    BY <1>0, <2>1
  <2> QED BY <2>1, <2>2, <2>3, <2>4
<1>2. CASE StartWriter("starting") \/ StartWriter("startingLegacy")
  <2>1. PICK w \in Writers :
           /\ run[w] = "none" /\ run' = [run EXCEPT ![w] = Started(w)] /\ DataAfter(Started(w))
    BY <1>2 DEF StartWriter, StartNext
  <2>2. /\ UNCHANGED <<phase, guards, managed, loadedGuards, loadedManaged, open,
                       copy, rec, at, op, exposed>>
        /\ files' = SidecarsAfter(run') /\ at \in {"starting", "startingLegacy"}
    BY <1>2, <2>1 DEF StartWriter, StartNext, DataAfter
  <2>3. Started(w) \in {"none", Code(w)} BY <2>1 DEF Started
  <2>4. /\ Started(w) \in Codes \cup {"none"}
        /\ Started(w) = "candidate" => w \in loadedManaged
        /\ Started(w) = "legacy" => w \notin loadedManaged
    BY <1>0, <2>3
  <2>5. \A f \in Files \ {"sidecars"} : Has(f)' <=> Has(f)
    BY <2>2, SidecarsOnly DEF TypeOK
  <2> QED BY <2>1, <2>2, <2>4, <2>5
<1> QED BY <1>1, <1>2 DEF StartSteps

\* After a reboot systemd has read the drop-ins that are on disk, and what it
\* starts runs the code that they say; under a marker that every unit looks at
\* it starts nothing.
LEMMA RebootEffect ==
    ASSUME TypeOK, Reboot
    PROVE  /\ UNCHANGED <<phase, guards, managed, copy, rec>> /\ at' = "idle"
           /\ loadedGuards' = guards /\ loadedManaged' = managed
           /\ \A f \in Files \ {"permit", "sidecars"} : Has(f)' <=> Has(f)
           /\ \A w \in Writers : /\ run'[w] \in Codes \cup {"none"}
                                 /\ run'[w] = "candidate" => w \in managed
                                 /\ run'[w] = "legacy" => w \notin managed
           /\ live' # live => /\ live' = [t \in Targets |-> "candidate"]
                              /\ \E w \in Writers : run'[w] = "candidate"
           /\ (\E w \in Writers : run'[w] = "candidate") => live' = [t \in Targets |-> "candidate"]
           /\ snap' # snap => /\ snap = "current" /\ snap' = "stale"
                              /\ \E w \in Writers : run'[w] = "legacy"
           /\ exposed' = IF open' # {} /\ snap # "none" THEN 1 ELSE exposed
           /\ Has("marker") /\ guards = AllGuards
                => /\ \A w \in Writers : run'[w] = "none"
                   /\ open' = {}
<1> DEFINE kept == files \ {"permit"}
           boots == {w \in Writers : WriterGuard(w, guards, kept)}
           code(w) == IF w \notin managed THEN "legacy"
                      ELSE IF Has("current") THEN "candidate" ELSE "none"
<1>1. /\ UNCHANGED <<phase, guards, managed, copy, rec>> /\ at' = "idle"
      /\ loadedGuards' = guards /\ loadedManaged' = managed
      /\ run' = [w \in Writers |-> IF w \in boots THEN code(w) ELSE "none"]
      /\ open' = {i \in Ingress : IngressGuard(i, guards, kept)}
      /\ files' = kept \cup IF Wal = 1 /\ boots # {} THEN {"sidecars"} ELSE {}
      /\ live' = IF \E w \in boots : code(w) = "candidate"
                   THEN [t \in Targets |-> "candidate"] ELSE live
      /\ snap' = IF (\E w \in boots : code(w) = "legacy") /\ snap = "current"
                   THEN "stale" ELSE snap
      /\ exposed' = IF open' # {} /\ snap # "none" THEN 1 ELSE exposed
  BY DEF Reboot, Stop
<1>2. \A f \in Files \ {"permit", "sidecars"} : Has(f)' <=> Has(f) BY <1>1
<1>3. ASSUME Has("marker"), guards = AllGuards PROVE boots = {} /\ open' = {}
  <2>1. "marker" \in kept /\ "permit" \notin kept BY <1>3
  <2>2. \A w \in Writers : ~WriterGuard(w, guards, kept)
    BY <1>3, <2>1, Constants DEF WriterGuard, Writers
  <2>3. \A i \in Ingress : ~IngressGuard(i, guards, kept)
    BY <1>3, <2>1, Constants DEF IngressGuard, Ingress
  <2> QED BY <1>1, <2>2, <2>3
<1>4. boots \subseteq Writers OBVIOUS
<1> HIDE DEF kept, boots
<1>5. \A w \in Writers : /\ run'[w] \in Codes \cup {"none"}
                         /\ run'[w] = "candidate" => w \in managed
                         /\ run'[w] = "legacy" => w \notin managed
  BY <1>1 DEF Codes
<1>6. \A w \in boots : run'[w] = code(w) BY <1>1, <1>4
<1>7. \A w \in Writers : run'[w] = "candidate" => w \in boots /\ code(w) = "candidate"
  BY <1>1
<1> QED BY <1>1, <1>2, <1>3, <1>4, <1>5, <1>6, <1>7

\* A record step keeps the units, and what it does is done with the phase
\* LOCALLY_HEALTHY, apart from the last record of a rollback.
LEMMA RecordStepsEffect ==
    ASSUME RecordSteps
    PROVE  /\ UNCHANGED <<phase, guards, managed, loadedGuards, loadedManaged, run, open,
                          live, snap, exposed>>
           /\ \A f \in Files \ {"current"} : Has(f)' <=> Has(f)
           /\ at \in RollingBack \/ LegacyIngressProven
<1> USE DEF process, history, disk, data, units, view
<1>1. /\ UNCHANGED <<phase, guards, managed, loadedGuards, loadedManaged, run, open,
                     live, snap, exposed>>
      /\ files' \in {files, files \ {"current"}}
  BY DEF RecordSteps, PreparePreExposureRollback, StopCandidateForRollback,
     CandidateIsStopped, RestoreOriginalUnitView, StageLiveStateRecovery, CopyTarget,
     CopiesVerified, PrepareLiveReplacementLedger, ReplaceLiveStateFromLedger,
     StateReplaced, DeactivateCandidatePointer, RestartLegacyAfterRollback, LegacyHealthy,
     ReopenLegacyIngress, LegacyIngressProven
<1>2. at \in RollingBack \/ LegacyIngressProven
  BY DEF RecordSteps, PreparePreExposureRollback, StopCandidateForRollback,
     CandidateIsStopped, RestoreOriginalUnitView, StageLiveStateRecovery, CopyTarget,
     CopiesVerified, PrepareLiveReplacementLedger, ReplaceLiveStateFromLedger,
     StateReplaced, DeactivateCandidatePointer, RestartLegacyAfterRollback, LegacyHealthy,
     ReopenLegacyIngress, RollingBack
<1> QED BY <1>1, <1>2

\* A step of the replacement moves one target.
LEMMA TargetStepsEffect ==
    ASSUME TypeOK, TargetSteps
    PROVE  /\ UNCHANGED <<phase, files, guards, managed, loadedGuards, loadedManaged, run, open,
                          snap, rec, at, op, exposed>>
           /\ at = "replacing" /\ LedgerInspected
           /\ \E t \in Targets :
                 /\ copy[t] = "legacy" /\ live' = [live EXCEPT ![t] = live'[t]]
                 /\ \/ live[t] # "none" /\ live'[t] = "none" /\ copy' = copy
                    \/ /\ live[t] = "none" /\ live'[t] = "legacy"
                       /\ copy' = [copy EXCEPT ![t] = "none"]
<1> USE DEF process, history, disk, data, units, view
<1>1. CASE ParkTarget
  BY <1>1 DEF ParkTarget, Position, TypeOK
<1>2. CASE InstallTarget
  BY <1>2 DEF InstallTarget, Position, TypeOK
<1> QED BY <1>1, <1>2 DEF TargetSteps

-----------------------------------------------------------------------------
(***************************************************************************)
(* Each part of the invariant is kept.                                     *)
(***************************************************************************)

\* The gate.
LEMMA GateStep == ASSUME TypeOK, IInv, [Next]_vars PROVE GateHolds'
<1>g. GateHolds /\ PlaceMatchesPhase BY DEF IInv
<1> USE DEF process, history, disk, data, units, view, Stop, Proceed, Then, AllGuarded, Claiming
<1>0. CASE UNCHANGED vars BY <1>0, <1>g DEF vars, GateHolds
<1>1. CASE Moves
  <2>1. at' \in {"advance", "locked"} =>
           \/ Claiming \/ phase \in {Prepared, Snapshotted, LocallyHealthy}
           \/ phase = IngressClosed /\ open = {}
    BY <1>1 DEF Moves, RunFirstMigration, InstallMigrationBootGuards, IngressIsClosed,
       QuiesceLegacyWriters, WritersAreStopped, SnapshotLegacyState, InstallManagedOverrides,
       CandidateHealthy, OpenManagedIngress, IngressProven, RecoverFirstMigration,
       StageCompletePreExposureRecovery, RestartAgain, FindPrefix, LegacyStarted,
       ResumeRollback, Throw, Kill, Catch, CanQuiesce, IngressStopped
  <2> QED BY <1>1, <1>g, <2>1, MovesEffect DEF GateHolds
<1>2. CASE FileSteps
  <2>1. at' \in {"advance", "locked"} =>
           Claiming \/ CloseLegacyIngress \/ phase \in {Switched, IngressOpen}
    BY <1>2, <1>g DEF FileSteps, LockJournal, UnlockJournal, ActivateManagedRelease,
       LockActivation, LinkCandidate, UnlockActivation, CreatePermit, RemovePermit,
       UndoPermit, UndoPointer, UndoLegacyPermit, RemoveMarker, ResumeAdmission, RestoreMarker,
       After, PlaceMatchesPhase, Activating, Exposing
  <2>2. CloseLegacyIngress => /\ phase = Guarded /\ Has("marker")'
                              /\ guards >= NI /\ AllGuarded
    BY DEF CloseLegacyIngress, CanClose, GuardsInstalled, WriterGuardsInstalled,
       IngressGuardsInstalled
  <2>3. Has("marker") /\ ~Has("marker")' => phase = IngressOpen
    BY <1>2, <1>g, FileStepsEffect DEF RemoveMarker, PlaceMatchesPhase, Exposing
  <2> QED BY <1>2, <1>g, <2>1, <2>2, <2>3, FileStepsEffect DEF GateHolds
<1>3. CASE UnitSteps
  <2>1. CASE WriteGuard BY <2>1, <1>g DEF WriteGuard, GateHolds, PlaceMatchesPhase
  <2>2. CASE ReloadGuards BY <2>2, <1>g DEF ReloadGuards, GateHolds, PlaceMatchesPhase
  <2>3. CASE WriteManaged \/ UnlinkManaged
    BY <2>3, <1>g DEF WriteManaged, UnlinkManaged, GateHolds
  <2>4. CASE ReloadManaged \/ OriginalViewLoaded
    BY <2>4, <1>g DEF ReloadManaged, OriginalViewLoaded, GateHolds, PlaceMatchesPhase,
       RollingBack
  <2> QED BY <1>3, <2>1, <2>2, <2>3, <2>4 DEF UnitSteps
<1>4. CASE IngressSteps
  <2>1. CASE StopIngressUnit BY <2>1, <1>g DEF StopIngressUnit, GateHolds
  <2>2. CASE StopIngress BY <2>2, <1>g DEF StopIngress, GateHolds
  <2>3. CASE StartIngressUnit
    BY <2>3, <1>g DEF StartIngressUnit, GateHolds, PlaceMatchesPhase, Exposing
  <2> QED BY <1>4, <2>1, <2>2, <2>3 DEF IngressSteps
<1>5. CASE StopSteps
  BY <1>5, <1>g, StopStepsEffect DEF GateHolds, Files
<1>6. CASE StartSteps
  <2>1. snap' # "none" <=> snap # "none" BY <1>6, StartStepsEffect, DataAfterType
  <2> QED BY <1>6, <1>g, <2>1, StartStepsEffect DEF GateHolds, Files
<1>7. CASE JournalSteps
  <2>1. CASE PrepareFirstMigration BY <2>1, <1>g DEF PrepareFirstMigration, GateHolds
  <2>2. CASE RenameJournal
    BY <2>2, <1>g DEF RenameJournal, GateHolds, PlaceMatchesPhase
  <2> QED BY <1>7, <2>1, <2>2 DEF JournalSteps
<1>8. CASE RecordSteps
  <2>1. phase \in {LocallyHealthy, IngressOpen}
    BY <1>8, <1>g, RecordStepsEffect DEF LegacyIngressProven, PlaceMatchesPhase, Exposing
  <2> QED BY <1>8, <1>g, <2>1, RecordStepsEffect DEF GateHolds, Files
<1>9. CASE TargetSteps
  BY <1>9, <1>g, TargetStepsEffect DEF GateHolds
<1>10. CASE BackupStateBundle
  BY <1>10, <1>g DEF BackupStateBundle, GateHolds, PlaceMatchesPhase
<1>11. CASE Reboot
  <2>1. snap' # "none" <=> snap # "none" BY <1>11, RebootEffect
  <2>2. /\ UNCHANGED <<phase, guards>> /\ loadedGuards' = guards /\ at' = "idle"
        /\ Has("marker")' <=> Has("marker")
        /\ Has("marker") /\ guards = AllGuards => open' = {}
        /\ exposed' = IF open' # {} /\ snap # "none" THEN 1 ELSE exposed
    BY <1>11, RebootEffect DEF Files
  <2> QED BY <1>g, <2>1, <2>2 DEF GateHolds, TypeOK
<1> QED BY <1>0, <1>1, <1>2, <1>3, <1>4, <1>5, <1>6, <1>7, <1>8, <1>9, <1>10, <1>11,
        StepsByEffect

\* What runs is what systemd has loaded.
LEMMA RunsLoadedStep == ASSUME TypeOK, IInv, [Next]_vars PROVE RunsLoaded'
<1>g. RunsLoaded /\ PlaceMatchesPhase BY DEF IInv
<1> USE DEF process, history, disk, data, units, view
<1>0. ASSUME UNCHANGED <<run, loadedManaged>> PROVE RunsLoaded'
  BY <1>0, <1>g DEF RunsLoaded
<1>1. CASE Moves \/ FileSteps \/ RecordSteps \/ TargetSteps
  BY <1>0, <1>1, MovesEffect, FileStepsEffect, RecordStepsEffect, TargetStepsEffect
<1>2. CASE UnitSteps
  <2>1. CASE WriteGuard \/ WriteManaged \/ UnlinkManaged
    BY <1>0, <2>1 DEF WriteGuard, WriteManaged, UnlinkManaged
  <2>2. CASE ReloadGuards
    <3>1. loadedManaged' = {} /\ loadedManaged = {}
      BY <2>2, <1>g DEF ReloadGuards, IInv, LegacyEra, PlaceMatchesPhase, OriginalInstalled
    <3> QED BY <2>2, <3>1, <1>0 DEF ReloadGuards
  <2>3. CASE ReloadManaged \/ OriginalViewLoaded
    <3>1. UNCHANGED run /\ WritersStopped
      BY <2>3, <1>g DEF ReloadManaged, OriginalViewLoaded, IInv, CandidateEra, PlaceMatchesPhase
    <3> QED BY <3>1 DEF RunsLoaded, WritersStopped
  <2> QED BY <1>2, <2>1, <2>2, <2>3 DEF UnitSteps
<1>3. CASE IngressSteps
  BY <1>0, <1>3 DEF IngressSteps, StopIngressUnit, StartIngressUnit, StopIngress
<1>4. CASE StopSteps
  BY <1>4, <1>g, StopStepsEffect DEF RunsLoaded
<1>5. CASE StartSteps
  <2>1. PICK w \in Writers, c \in Codes \cup {"none"} :
           /\ run' = [run EXCEPT ![w] = c]
           /\ c = "candidate" => w \in loadedManaged
           /\ c = "legacy" => w \notin loadedManaged \/ run[w] = "legacy"
    BY <1>5, StartStepsEffect
  <2>2. UNCHANGED loadedManaged BY <1>5, StartStepsEffect
  <2> QED BY <1>g, <2>1, <2>2 DEF RunsLoaded, TypeOK
<1>6. CASE JournalSteps \/ BackupStateBundle \/ UNCHANGED vars
  BY <1>0, <1>6 DEF JournalSteps, PrepareFirstMigration, RenameJournal, BackupStateBundle, vars
<1>7. CASE Reboot
  BY <1>7, RebootEffect DEF RunsLoaded
<1> QED BY <1>1, <1>2, <1>3, <1>4, <1>5, <1>6, <1>7, StepsByEffect

\* A marker that every unit looks at, in the phases that the gate is closed.
LEMMA RebootUnderMarker ==
    ASSUME TypeOK, IInv, Reboot, phase \in IngressClosed..LocallyHealthy
    PROVE  /\ UNCHANGED <<phase, managed, copy, rec, live, snap>> /\ loadedManaged' = managed
           /\ at' = "idle" /\ \A w \in Writers : run'[w] = "none"
           /\ \A f \in Files \ {"permit", "sidecars"} : Has(f)' <=> Has(f)
<1>1. Has("marker") /\ guards = AllGuards BY DEF IInv, GateHolds, AllGuarded
<1>2. \A w \in Writers : run'[w] = "none" BY <1>1, RebootEffect
<1>3. live' = live /\ snap' = snap BY <1>2, RebootEffect
<1> QED BY <1>2, <1>3, RebootEffect

\* Before the units are switched.
LEMMA LegacyStep == ASSUME TypeOK, IInv, [Next]_vars PROVE LegacyEra'
<1> SUFFICES ASSUME phase' <= Snapshotted
             PROVE  /\ OriginalInstalled' /\ Live("legacy")' /\ NoneRuns("candidate")'
                    /\ phase' = Snapshotted \/ (phase' = Quiesced /\ Claiming')
                          => WritersStopped' /\ snap' = "current"
  BY DEF LegacyEra
<1> USE DEF process, history, disk, data, units, view, Stop, Proceed, Then, Claiming,
        OriginalInstalled, Live, NoneRuns, WritersStopped
<1>g. LegacyEra /\ GateHolds BY DEF IInv
<1>p. PlaceMatchesPhase BY DEF IInv
<1>k. ASSUME UNCHANGED <<phase, managed, loadedManaged, live, run, snap>>,
             phase' = Quiesced /\ Claiming' => Claiming
      PROVE  LegacyEra'
  BY <1>k, <1>g, <1>p DEF LegacyEra
<1>0. CASE UNCHANGED vars BY <1>0, <1>k DEF vars, LegacyEra
<1>1. CASE Moves
  <2>1. at' \in {"advance", "locked"} => Claiming \/ phase # Quiesced
    BY <1>1 DEF Moves, RunFirstMigration, InstallMigrationBootGuards, IngressIsClosed,
       QuiesceLegacyWriters, WritersAreStopped, SnapshotLegacyState, InstallManagedOverrides,
       CandidateHealthy, OpenManagedIngress, IngressProven, RecoverFirstMigration,
       StageCompletePreExposureRecovery, RestartAgain, FindPrefix, LegacyStarted,
       ResumeRollback, Throw, Kill, Catch
  <2> QED BY <1>1, <1>k, <2>1, MovesEffect DEF LegacyEra
<1>2. CASE FileSteps
  <2>1. at' \in {"advance", "locked"} => Claiming \/ phase # Quiesced
    BY <1>2, <1>p DEF FileSteps, LockJournal, UnlockJournal, CloseLegacyIngress,
       ActivateManagedRelease, LockActivation, LinkCandidate, UnlockActivation, CreatePermit,
       RemovePermit, UndoPermit, UndoPointer, UndoLegacyPermit, RemoveMarker, ResumeAdmission,
       RestoreMarker, After, PlaceMatchesPhase, Activating, Exposing
  <2> QED BY <1>2, <1>k, <2>1, FileStepsEffect DEF LegacyEra
<1>3. CASE UnitSteps
  <2>1. CASE WriteGuard BY <2>1, <1>k DEF WriteGuard, LegacyEra
  <2>2. CASE ReloadGuards
    BY <2>2, <1>g, <1>p DEF ReloadGuards, LegacyEra, PlaceMatchesPhase
  <2>3. CASE WriteManaged \/ ReloadManaged \/ UnlinkManaged \/ OriginalViewLoaded
    BY <2>3, <1>p DEF WriteManaged, ReloadManaged, UnlinkManaged, OriginalViewLoaded,
       PlaceMatchesPhase, RollingBack
  <2> QED BY <1>3, <2>1, <2>2, <2>3 DEF UnitSteps
<1>4. CASE IngressSteps
  BY <1>4, <1>k DEF IngressSteps, StopIngressUnit, StartIngressUnit, StopIngress, LegacyEra
<1>5. CASE StopSteps
  BY <1>5, <1>g, <1>p, StopStepsEffect DEF LegacyEra
<1>6. CASE StartSteps
  <2>1. PICK w \in Writers, c \in Codes \cup {"none"} :
           /\ run' = [run EXCEPT ![w] = c] /\ DataAfter(c)
           /\ c = "candidate" => w \in loadedManaged
           /\ run[w] # "none" \/ (run[w] = "none" /\ at \in {"starting", "startingLegacy"})
    BY <1>6, StartStepsEffect
  <2>2. UNCHANGED <<phase, managed, loadedManaged, at>> BY <1>6, StartStepsEffect
  <2>3. LegacyEra /\ phase <= Snapshotted BY <1>g, <1>p, <2>2
  <2>4. c # "candidate" /\ run[w] # "none"
    BY <1>p, <2>1, <2>2, <2>3 DEF LegacyEra, PlaceMatchesPhase, Activating, RollingBack
  <2>5. ~(phase = Snapshotted \/ (phase = Quiesced /\ Claiming)) BY <2>3, <2>4 DEF LegacyEra
  <2>6. live' = live BY <2>1, <2>4 DEF DataAfter
  <2> QED BY <2>1, <2>2, <2>3, <2>4, <2>5, <2>6 DEF LegacyEra, TypeOK
<1>7. CASE JournalSteps
  <2>1. CASE PrepareFirstMigration BY <2>1, <1>g, <1>p DEF PrepareFirstMigration, LegacyEra
  <2>2. CASE RenameJournal BY <2>2, <1>g, <1>p DEF RenameJournal, LegacyEra, TypeOK
  <2> QED BY <1>7, <2>1, <2>2 DEF JournalSteps
<1>8. CASE RecordSteps
  BY <1>8, <1>p, RecordStepsEffect DEF LegacyIngressProven, PlaceMatchesPhase, RollingBack,
     Exposing
<1>9. CASE TargetSteps
  BY <1>9, <1>p, TargetStepsEffect DEF PlaceMatchesPhase, RollingBack
<1>10. CASE BackupStateBundle
  BY <1>10, <1>g, <1>p DEF BackupStateBundle, CanSnapshot, LegacyEra, PlaceMatchesPhase
<1>11. CASE Reboot
  <2>1. CASE phase \in IngressClosed..LocallyHealthy
    BY <1>11, <1>g, <1>p, <2>1, RebootUnderMarker DEF LegacyEra
  <2>2. CASE phase < IngressClosed
    <3>1. /\ LegacyEra /\ snap = "none" BY <1>g, <1>p, <2>2 DEF GateHolds, TypeOK
    <3>2. phase' = phase /\ managed' = managed /\ loadedManaged' = managed /\ at' = "idle"
      BY <1>11, RebootEffect
    <3>3. \A w \in Writers : run'[w] # "candidate"
      BY <1>11, <2>2, <3>1, RebootEffect DEF LegacyEra
    <3>4. live' = live BY <1>11, <3>3, RebootEffect
    <3> QED BY <2>2, <3>1, <3>2, <3>3, <3>4 DEF LegacyEra
  <2>3. phase = phase' /\ phase \in Int BY <1>11, RebootEffect DEF TypeOK
  <2> QED BY <2>1, <2>2, <2>3
<1> QED BY <1>0, <1>1, <1>2, <1>3, <1>4, <1>5, <1>6, <1>7, <1>8, <1>9, <1>10, <1>11,
        StepsByEffect

\* Before the candidate was healthy.
LEMMA NoRollbackStep == ASSUME TypeOK, IInv, [Next]_vars PROVE NoRollbackYet'
<1> SUFFICES ASSUME phase' < LocallyHealthy
             PROVE  /\ \A r \in Records : rec'[r] = "none"
                    /\ \A t \in Targets : copy'[t] = "none" /\ live'[t] # "none"
  BY DEF NoRollbackYet
<1> USE DEF process, history, disk, data, units, view
<1>g. NoRollbackYet /\ PlaceMatchesPhase BY DEF IInv
<1>p. phase < LocallyHealthy
  <2>1. phase' \in {phase, phase + 1} \/ PrepareFirstMigration
    BY StepsByEffect, MovesEffect, FileStepsEffect, StopStepsEffect, StartStepsEffect,
       RecordStepsEffect, TargetStepsEffect, RebootEffect
    DEF UnitSteps, WriteGuard, ReloadGuards, WriteManaged, ReloadManaged, UnlinkManaged,
        OriginalViewLoaded, IngressSteps, StopIngressUnit, StartIngressUnit, StopIngress,
        JournalSteps, RenameJournal, BackupStateBundle, vars
  <2> QED BY <2>1 DEF TypeOK, PrepareFirstMigration
<1>k. ASSUME UNCHANGED <<rec, copy>>, live' = live \/ live' = [t \in Targets |-> "candidate"]
      PROVE  NoRollbackYet'
  BY <1>k, <1>g, <1>p DEF NoRollbackYet
<1>1. CASE Moves \/ FileSteps \/ StopSteps
  BY <1>1, <1>k, MovesEffect, FileStepsEffect, StopStepsEffect DEF NoRollbackYet
<1>2. CASE UnitSteps \/ IngressSteps \/ JournalSteps \/ BackupStateBundle \/ UNCHANGED vars
  <2>1. UNCHANGED <<copy, live>>
    BY <1>2 DEF UnitSteps, WriteGuard, ReloadGuards, WriteManaged, ReloadManaged,
       UnlinkManaged, OriginalViewLoaded, IngressSteps, StopIngressUnit, StartIngressUnit,
       StopIngress, JournalSteps, PrepareFirstMigration, RenameJournal, BackupStateBundle, vars
  <2>2. UNCHANGED rec
    BY <1>2, <1>g, <1>p DEF UnitSteps, WriteGuard, ReloadGuards, WriteManaged, ReloadManaged,
       UnlinkManaged, OriginalViewLoaded, IngressSteps, StopIngressUnit, StartIngressUnit,
       StopIngress, JournalSteps, PrepareFirstMigration, RenameJournal, BackupStateBundle, vars,
       PlaceMatchesPhase, RollingBack
  <2> QED BY <1>k, <2>1, <2>2 DEF NoRollbackYet
<1>3. CASE StartSteps
  <2>1. live' = live \/ live' = [t \in Targets |-> "candidate"]
    BY <1>3, StartStepsEffect DEF DataAfter
  <2> QED BY <1>3, <1>k, <2>1, StartStepsEffect DEF NoRollbackYet
<1>4. CASE RecordSteps
  BY <1>4, <1>g, <1>p, RecordStepsEffect DEF LegacyIngressProven, PlaceMatchesPhase,
     RollingBack, Exposing
<1>5. CASE TargetSteps
  BY <1>5, <1>g, <1>p, TargetStepsEffect DEF PlaceMatchesPhase, RollingBack
<1>6. CASE Reboot
  <2>1. live' = live \/ live' = [t \in Targets |-> "candidate"] BY <1>6, RebootEffect
  <2> QED BY <1>6, <1>k, <2>1, RebootEffect DEF NoRollbackYet
<1> QED BY <1>1, <1>2, <1>3, <1>4, <1>5, <1>6, StepsByEffect

\* While the candidate is switched to.
LEMMA CandidateStep == ASSUME TypeOK, IInv, [Next]_vars PROVE CandidateEra'
<1> SUFFICES ASSUME phase' = Switched
             PROVE  CandidateEra'
  BY DEF CandidateEra
<1> USE DEF process, history, disk, data, units, view, Stop, Proceed, Then, Claiming,
        ManagedInstalled, Live, NoneRuns, WritersStopped
<1>g. CandidateEra /\ GateHolds /\ PlaceMatchesPhase BY DEF IInv
<1>0. CASE UNCHANGED vars BY <1>0, <1>g DEF vars, CandidateEra
<1>1. CASE Moves
  <2>0. phase = Switched /\ CandidateEra /\ PlaceMatchesPhase BY <1>1, <1>g, MovesEffect
  <2>1. at' \notin {"renamed", "managing", "unlocking"}
    BY <1>1, <2>0 DEF Moves, RunFirstMigration, InstallMigrationBootGuards, IngressIsClosed,
       QuiesceLegacyWriters, WritersAreStopped, SnapshotLegacyState, InstallManagedOverrides,
       CandidateHealthy, OpenManagedIngress, IngressProven, RecoverFirstMigration,
       StageCompletePreExposureRecovery, RestartAgain, FindPrefix, LegacyStarted,
       ResumeRollback, Throw, Kill, Catch
  <2>2. at' \in Activating \cup {"advance", "locked"} => at \in Activating
    BY <1>1, <2>0 DEF Moves, RunFirstMigration, InstallMigrationBootGuards, IngressIsClosed,
       QuiesceLegacyWriters, WritersAreStopped, SnapshotLegacyState, InstallManagedOverrides,
       CandidateHealthy, OpenManagedIngress, IngressProven, RecoverFirstMigration,
       InspectMigrationRecovery,
       StageCompletePreExposureRecovery, RestartAgain, FindPrefix, LegacyStarted,
       ResumeRollback, Throw, Kill, Catch, Activating, PlaceMatchesPhase, RollingBack, Exposing
  <2>3. at' = "started" => AllRun("candidate")
    BY <1>1, <2>0 DEF Moves, RunFirstMigration, InstallMigrationBootGuards, IngressIsClosed,
       QuiesceLegacyWriters, WritersAreStopped, SnapshotLegacyState, InstallManagedOverrides,
       CandidateHealthy, OpenManagedIngress, IngressProven, RecoverFirstMigration,
       StageCompletePreExposureRecovery, RestartAgain, FindPrefix, LegacyStarted,
       ResumeRollback, Throw, Kill, Catch
  <2>4. at' \notin {"advance", "locked"}
    BY <1>1, <2>0 DEF Moves, RunFirstMigration, InstallMigrationBootGuards, IngressIsClosed,
       QuiesceLegacyWriters, WritersAreStopped, SnapshotLegacyState, InstallManagedOverrides,
       CandidateHealthy, OpenManagedIngress, IngressProven, RecoverFirstMigration,
       StageCompletePreExposureRecovery, RestartAgain, FindPrefix, LegacyStarted,
       ResumeRollback, Throw, Kill, Catch
  <2>5. AllRun("candidate") => ~WritersStopped BY Constants DEF AllRun
  <2> QED BY <1>1, <2>0, <2>1, <2>2, <2>3, <2>4, <2>5, MovesEffect DEF CandidateEra
<1>2. CASE FileSteps
  <2>0. phase = Switched /\ CandidateEra /\ PlaceMatchesPhase BY <1>2, <1>g, FileStepsEffect
  <2>1. CASE ActivateManagedRelease
    BY <2>1, <2>0 DEF ActivateManagedRelease, CanActivate, CandidateEra, Activating
  <2>2. CASE ~ActivateManagedRelease
    <3>1. Has("pause")' <=> Has("pause")
      BY <1>2, <2>0, <2>2, FileStepsEffect DEF ResumeAdmission, PlaceMatchesPhase, Exposing
    <3>2. /\ at' # "renamed"
          /\ at' = "managing" => at = "renamed"
          /\ at' \in Activating => at \in Activating
          /\ at' \in {"advance", "locked"} => at \in {"advance", "unlocking"}
          /\ at' = "unlocking" => at = "started"
          /\ at' # "started"
      BY <1>2, <2>0, <2>2 DEF FileSteps, LockJournal, UnlockJournal, CloseLegacyIngress,
         LockActivation, LinkCandidate, UnlockActivation, CreatePermit, RemovePermit,
         UndoPermit, UndoPointer, UndoLegacyPermit, RemoveMarker, ResumeAdmission,
         RestoreMarker, After, Activating, PlaceMatchesPhase, Exposing, RollingBack
    <3> QED BY <1>2, <2>0, <3>1, <3>2, FileStepsEffect DEF CandidateEra, Activating
  <2> QED BY <2>1, <2>2
<1>3. CASE UnitSteps
  <2>1. CASE WriteManaged \/ ReloadManaged
    BY <2>1, <1>g DEF WriteManaged, ReloadManaged, CandidateEra, Activating
  <2>2. CASE WriteGuard \/ ReloadGuards \/ UnlinkManaged \/ OriginalViewLoaded
    BY <2>2, <1>g DEF WriteGuard, ReloadGuards, UnlinkManaged, OriginalViewLoaded,
       PlaceMatchesPhase, RollingBack
  <2> QED BY <1>3, <2>1, <2>2 DEF UnitSteps
<1>4. CASE IngressSteps
  <2>1. /\ UNCHANGED <<phase, run, snap, live, files, managed, loadedManaged>>
        /\ at' \in {at, "idle"}
    BY <1>4 DEF IngressSteps, StopIngressUnit, StartIngressUnit, StopIngress
  <2> QED BY <1>g, <2>1 DEF CandidateEra, Activating
<1>5. CASE StopSteps
  BY <1>5, <1>g, StopStepsEffect DEF CandidateEra, Activating, Files
<1>6. CASE StartSteps
  <2>1. PICK w \in Writers, c \in Codes \cup {"none"} :
           /\ run' = [run EXCEPT ![w] = c] /\ DataAfter(c)
           /\ c = "candidate" => w \in loadedManaged
           /\ c = "legacy" => w \notin loadedManaged \/ run[w] = "legacy"
           /\ run[w] # "none" \/ (run[w] = "none" /\ at \in {"starting", "startingLegacy"})
    BY <1>6, StartStepsEffect
  <2>2. /\ UNCHANGED <<phase, managed, loadedManaged, at>>
        /\ Has("pause")' <=> Has("pause")
    BY <1>6, StartStepsEffect DEF Files
  <2>3. phase = Switched /\ CandidateEra /\ at # "startingLegacy"
    BY <1>g, <2>2 DEF PlaceMatchesPhase, RollingBack
  <2>4. loadedManaged = Writers /\ Has("pause")
    BY <2>1, <2>3 DEF CandidateEra, Activating
  <2>5. c # "legacy" /\ at \notin {"renamed", "managing"}
    BY <2>1, <2>3, <2>4 DEF CandidateEra
  <2>6. snap' = snap /\ (c = "candidate" => Live("candidate")') /\ (c = "none" => live' = live)
    BY <2>1, <2>5 DEF DataAfter
  <2>7. \A v \in Writers : v # w => run'[v] = run[v] BY <2>1 DEF TypeOK
  <2>8. run'[w] = c BY <2>1 DEF TypeOK
  <2>9. NoneRuns("legacy")' BY <2>3, <2>5, <2>7, <2>8 DEF CandidateEra
  <2>10. Live("candidate") => Live("candidate")' BY <2>5, <2>6 DEF Codes
  <2>11. ~WritersStopped' => Live("candidate")'
    BY <2>3, <2>6, <2>7, <2>8, <2>10, <2>5 DEF CandidateEra, Codes
  <2> QED BY <2>2, <2>3, <2>4, <2>5, <2>6, <2>9, <2>10, <2>11 DEF CandidateEra
<1>7. CASE JournalSteps
  <2>1. CASE PrepareFirstMigration BY <2>1 DEF PrepareFirstMigration
  <2>2. CASE RenameJournal
    <3>1. LegacyEra /\ phase = Snapshotted BY <2>2 DEF RenameJournal, IInv, TypeOK
    <3> QED BY <2>2, <3>1 DEF RenameJournal, LegacyEra, CandidateEra, Activating
  <2> QED BY <1>7, <2>1, <2>2 DEF JournalSteps
<1>8. CASE RecordSteps
  BY <1>8, <1>g, RecordStepsEffect DEF LegacyIngressProven, PlaceMatchesPhase, RollingBack,
     Exposing
<1>9. CASE TargetSteps
  BY <1>9, <1>g, TargetStepsEffect DEF PlaceMatchesPhase, RollingBack
<1>10. CASE BackupStateBundle
  BY <1>10, <1>g DEF BackupStateBundle, PlaceMatchesPhase
<1>11. CASE Reboot
  <2>1. phase = Switched BY <1>11, RebootEffect
  <2> QED BY <1>11, <1>g, <2>1, RebootUnderMarker DEF CandidateEra, Activating
<1> QED BY <1>0, <1>1, <1>2, <1>3, <1>4, <1>5, <1>6, <1>7, <1>8, <1>9, <1>10, <1>11,
        StepsByEffect

\* During the rollback.
LEMMA RollbackStep == ASSUME TypeOK, IInv, [Next]_vars PROVE RollbackEra'
<1> SUFFICES ASSUME phase' = LocallyHealthy PROVE RollbackEra'
  BY DEF RollbackEra
<1> USE DEF process, history, disk, data, units, view, Stop, Proceed, Then, Claiming
<1>g. RollbackEra /\ GateHolds /\ PlaceMatchesPhase BY DEF IInv
<1>r. \A r \in Records : \A x :
         [rec EXCEPT ![r] = x] = [q \in Records |-> IF q = r THEN x ELSE rec[q]]
  BY DEF TypeOK
<1>n. {"plan", "stop", "unit", "copy", "ledger", "pointer", "restart", "ingress"} \subseteq Records
  BY DEF Records
\* No place of the script is entered whose part of the invariant is new.
<1>k. ASSUME UNCHANGED <<phase, managed, loadedManaged, live, copy, rec, run, snap>>,
             Has("pause") => Has("pause")',
             at' = "unlinking" => rec["unit"] = "doing",
             at' \in {"copies", "copyingBack", "ledger"} => rec["ledger"] = "none",
             at' = "replacing" => rec["ledger"] = "doing",
             at' \in {"prefix", "permittingLegacy", "startingLegacy", "unpermitting", "restarted"}
                => rec["restart"] # "none",
             at' \in {"advance", "locked"} => Claiming \/ ManagedInstalled
      PROVE  RollbackEra'
  BY <1>k, <1>g DEF RollbackEra, Replaced, OriginalInstalled, ManagedInstalled, WritersStopped,
     NoneRuns
<1>0. CASE UNCHANGED vars BY <1>0, <1>g, <1>k DEF vars, RollbackEra
<1>1. CASE Moves
  <2>0. phase = LocallyHealthy /\ RollbackEra BY <1>1, <1>g, MovesEffect
  <2>1. at' \notin {"unlinking", "copies", "copyingBack", "ledger", "replacing"}
    BY <1>1, <2>0 DEF Moves, RunFirstMigration, InstallMigrationBootGuards, IngressIsClosed,
       QuiesceLegacyWriters, WritersAreStopped, SnapshotLegacyState, InstallManagedOverrides,
       CandidateHealthy, OpenManagedIngress, IngressProven, RecoverFirstMigration,
       StageCompletePreExposureRecovery, RestartAgain, FindPrefix, LegacyStarted,
       ResumeRollback, Throw, Kill, Catch
  <2>2. at' \in {"prefix", "permittingLegacy", "startingLegacy", "unpermitting", "restarted"}
           => rec["restart"] # "none"
    BY <1>1, <2>0 DEF Moves, RunFirstMigration, InstallMigrationBootGuards, IngressIsClosed,
       QuiesceLegacyWriters, WritersAreStopped, SnapshotLegacyState, InstallManagedOverrides,
       CandidateHealthy, OpenManagedIngress, IngressProven, RecoverFirstMigration,
       StageCompletePreExposureRecovery, RestartAgain, FindPrefix, LegacyStarted,
       ResumeRollback, Throw, Kill, Catch, RollbackEra
  <2>3. at' \in {"advance", "locked"} => Claiming \/ ManagedInstalled
    BY <1>1, <2>0 DEF Moves, RunFirstMigration, InstallMigrationBootGuards, IngressIsClosed,
       QuiesceLegacyWriters, WritersAreStopped, SnapshotLegacyState, InstallManagedOverrides,
       CandidateHealthy, OpenManagedIngress, CanOpen, IngressProven, RecoverFirstMigration,
       StageCompletePreExposureRecovery, RestartAgain, FindPrefix, LegacyStarted,
       ResumeRollback, Throw, Kill, Catch
  <2> QED BY <1>1, <1>k, <2>1, <2>2, <2>3, MovesEffect
<1>2. CASE FileSteps
  <2>0. phase = LocallyHealthy /\ RollbackEra BY <1>2, <1>g, FileStepsEffect
  <2>1. /\ at' \notin {"unlinking", "copies", "copyingBack", "ledger", "replacing"}
        /\ at' \in {"prefix", "permittingLegacy", "startingLegacy", "unpermitting", "restarted"}
              => at \in {"permittingLegacy", "unpermitting"}
        /\ at' \in {"advance", "locked"} => Claiming
    BY <1>2, <1>g, <2>0 DEF FileSteps, LockJournal, UnlockJournal, CloseLegacyIngress,
       ActivateManagedRelease, LockActivation, LinkCandidate, UnlockActivation, CreatePermit,
       RemovePermit, UndoPermit, UndoPointer, UndoLegacyPermit, RemoveMarker, ResumeAdmission,
       RestoreMarker, After, PlaceMatchesPhase, Activating, Exposing
  <2>2. Has("pause") => Has("pause")'
    BY <1>2, <1>g, <2>0, FileStepsEffect DEF ResumeAdmission, PlaceMatchesPhase, Exposing
  <2> QED BY <1>2, <1>k, <2>0, <2>1, <2>2, FileStepsEffect DEF RollbackEra
<1>3. CASE UnitSteps
  <2>1. CASE UnlinkManaged
    <3>1. /\ RollbackEra /\ at = "unlinking" /\ at' = at
          /\ UNCHANGED <<phase, files, loadedManaged, live, copy, rec, run, snap>>
      BY <2>1, <1>g DEF UnlinkManaged
    <3>2. rec["unit"] # "done" /\ rec["ledger"] = "none" /\ rec["restart"] = "none"
      BY <3>1, <1>g DEF RollbackEra, PlaceMatchesPhase, RollingBack
    <3> QED BY <3>1, <3>2 DEF RollbackEra, Replaced, NoneRuns
  <2>2. CASE OriginalViewLoaded
    <3>1. /\ RollbackEra /\ at = "unlinking" /\ at' = "copies" /\ phase = LocallyHealthy
          /\ UNCHANGED <<files, live, copy, run, snap>>
          /\ WritersStopped /\ managed' = {} /\ loadedManaged' = {}
          /\ rec' = [rec EXCEPT !["unit"] = "done"]
      BY <2>2, <1>g DEF OriginalViewLoaded
    <3>2. rec["ledger"] = "none" /\ rec["restart"] = "none"
      BY <3>1 DEF RollbackEra
    <3>3. rec'["ledger"] = "none" /\ rec'["restart"] = "none"
      BY <3>1, <3>2, <1>r, <1>n
    <3> QED BY <3>1, <3>2, <3>3
       DEF RollbackEra, Replaced, NoneRuns, WritersStopped, OriginalInstalled
  <2>3. CASE WriteGuard \/ ReloadGuards \/ WriteManaged \/ ReloadManaged
    BY <2>3, <1>g DEF WriteGuard, ReloadGuards, WriteManaged, ReloadManaged, PlaceMatchesPhase
  <2> QED BY <1>3, <2>1, <2>2, <2>3 DEF UnitSteps
<1>4. CASE IngressSteps
  <2>1. /\ UNCHANGED <<phase, managed, loadedManaged, live, copy, rec, run, snap, files>>
        /\ at' \in {at, "idle"}
    BY <1>4 DEF IngressSteps, StopIngressUnit, StartIngressUnit, StopIngress
  <2> QED BY <1>g, <1>k, <2>1 DEF RollbackEra
<1>5. CASE StopSteps
  <2>1. /\ UNCHANGED <<phase, managed, loadedManaged, live, copy, rec, snap>>
        /\ Has("pause") => Has("pause")'
        /\ at' \in {at, "idle"} /\ RollbackEra /\ phase = LocallyHealthy
        /\ \A w \in Writers : run'[w] \in {"none", run[w]}
    BY <1>5, <1>g, StopStepsEffect DEF Files
  <2> QED BY <2>1 DEF RollbackEra, Replaced, OriginalInstalled, ManagedInstalled,
     WritersStopped, NoneRuns
<1>6. CASE StartSteps
  <2>1. PICK w \in Writers, c \in Codes \cup {"none"} :
           /\ run' = [run EXCEPT ![w] = c] /\ DataAfter(c)
           /\ c = "candidate" => w \in loadedManaged
           /\ c = "legacy" => w \notin loadedManaged \/ run[w] = "legacy"
           /\ run[w] # "none" \/ (run[w] = "none" /\ at \in {"starting", "startingLegacy"})
    BY <1>6, StartStepsEffect
  <2>2. /\ UNCHANGED <<phase, managed, loadedManaged, at, copy, rec>>
        /\ Has("pause") => Has("pause")'
    BY <1>6, StartStepsEffect DEF Files
  <2>3. phase = LocallyHealthy /\ RollbackEra /\ at # "starting" /\ RunsLoaded
    BY <1>g, <2>2 DEF PlaceMatchesPhase, Activating, IInv
  <2>4. \A v \in Writers : run'[v] = IF v = w THEN c ELSE run[v] BY <2>1 DEF TypeOK
  \* Legacy code runs again only once the restart is recorded.
  <2>5. CASE rec["restart"] # "none"
    <3>1. rec["unit"] = "done" /\ rec["ledger"] = "done" /\ loadedManaged = {}
      BY <2>3, <2>5 DEF RollbackEra, OriginalInstalled
    <3>2. live' = live BY <2>1, <3>1 DEF DataAfter
    <3> QED BY <2>2, <2>3, <2>5, <3>1, <3>2 DEF RollbackEra, Replaced, OriginalInstalled,
       ManagedInstalled
  \* Before that only a candidate that ran starts again, and its units are managed.
  <2>6. CASE rec["restart"] = "none"
    <3>1. run[w] = "candidate" /\ w \in loadedManaged
      BY <2>1, <2>3, <2>6 DEF RollbackEra, NoneRuns, RunsLoaded, Codes, TypeOK
    <3>2. c # "legacy" /\ rec["unit"] # "done" /\ rec["ledger"] = "none"
      BY <2>1, <2>3, <3>1 DEF RollbackEra, OriginalInstalled
    <3>3. snap' = snap /\ \A t \in Targets : live'[t] = "candidate"
      BY <2>1, <2>3, <3>2 DEF DataAfter, RollbackEra, Replaced
    <3>4. NoneRuns("legacy")' BY <2>3, <2>4, <2>6, <3>2 DEF RollbackEra, NoneRuns
    <3> QED BY <2>2, <2>3, <2>6, <3>2, <3>3, <3>4 DEF RollbackEra, Replaced,
       ManagedInstalled
  <2> QED BY <2>5, <2>6
<1>7. CASE JournalSteps
  <2>1. CASE PrepareFirstMigration BY <2>1 DEF PrepareFirstMigration
  <2>2. CASE RenameJournal
    <3>1. CandidateEra /\ NoRollbackYet /\ phase = Switched /\ at = "locked" /\ at' = "renamed"
      BY <2>2 DEF RenameJournal, IInv, TypeOK
    <3>2. UNCHANGED <<files, managed, loadedManaged, live, copy, rec, run, snap>>
      BY <2>2 DEF RenameJournal
    <3>3. /\ rec["ledger"] = "none" /\ rec["unit"] = "none" /\ rec["restart"] = "none"
          /\ Has("pause") /\ Live("candidate") /\ NoneRuns("legacy") /\ snap = "current"
      BY <3>1, <1>n DEF NoRollbackYet, CandidateEra
    <3> QED BY <3>1, <3>2, <3>3 DEF RollbackEra, Replaced, Live, NoneRuns
  <2> QED BY <1>7, <2>1, <2>2 DEF JournalSteps
<1>9. CASE TargetSteps
  <2>1. /\ UNCHANGED <<phase, files, guards, managed, loadedGuards, loadedManaged, run, open,
                       snap, rec, at, op, exposed>>
        /\ at = "replacing"
    BY <1>9, TargetStepsEffect
  <2>2. PICK t \in Targets :
           /\ copy[t] = "legacy" /\ live' = [live EXCEPT ![t] = live'[t]]
           /\ \/ live[t] # "none" /\ live'[t] = "none" /\ copy' = copy
              \/ /\ live[t] = "none" /\ live'[t] = "legacy"
                 /\ copy' = [copy EXCEPT ![t] = "none"]
    BY <1>9, TargetStepsEffect
  <2>3. phase = LocallyHealthy /\ RollbackEra /\ rec["ledger"] = "doing"
    BY <1>g, <2>1 DEF RollbackEra
  <2>4. \A u \in Targets : u # t => live'[u] = live[u] /\ copy'[u] = copy[u]
    BY <2>2 DEF TypeOK
  <2>5. \/ live'[t] = "none" /\ copy'[t] = "legacy"
        \/ live'[t] = "legacy" /\ copy'[t] = "none"
    BY <2>2 DEF TypeOK
  <2>6. \A u \in Targets : Replaced(u)'
    <3>1. rec'["ledger"] = "doing" BY <2>1, <2>3
    <3>2. Replaced(t)' BY <2>5, <3>1 DEF Replaced
    <3>3. ASSUME NEW u \in Targets, u # t PROVE Replaced(u)'
      BY <2>3, <2>4, <3>1, <3>3 DEF RollbackEra, Replaced
    <3> QED BY <3>2, <3>3
  <2> QED BY <2>1, <2>3, <2>6 DEF RollbackEra, OriginalInstalled, ManagedInstalled,
     WritersStopped, NoneRuns
<1>10. CASE BackupStateBundle
  BY <1>10, <1>g DEF BackupStateBundle, PlaceMatchesPhase
<1>11. CASE Reboot
  <2>1. phase = LocallyHealthy BY <1>11, RebootEffect
  <2>2. /\ UNCHANGED <<phase, managed, copy, rec, live, snap>> /\ loadedManaged' = managed
        /\ at' = "idle" /\ \A w \in Writers : run'[w] = "none"
        /\ Has("pause") => Has("pause")'
    BY <1>11, <2>1, RebootUnderMarker DEF Files
  <2>3. RollbackEra BY <1>g
  <2> QED BY <2>1, <2>2, <2>3 DEF RollbackEra, Replaced, OriginalInstalled, WritersStopped,
     NoneRuns
<1>8. CASE RecordSteps
  <2>1. CASE LegacyIngressProven
    BY <2>1, <1>g DEF LegacyIngressProven, PlaceMatchesPhase, Exposing
  <2>2. /\ UNCHANGED <<phase, managed, loadedManaged, run, live, snap>>
        /\ Has("pause") => Has("pause")'
        /\ phase = LocallyHealthy /\ RollbackEra
    BY <1>8, <1>g, RecordStepsEffect DEF Files
  <2>k. ASSUME NEW r \in Records \ {"unit", "ledger", "restart"}, NEW x,
               rec' = [rec EXCEPT ![r] = x], UNCHANGED copy,
               at' = "unlinking" => rec["unit"] = "doing",
               at' \in {"copies", "copyingBack", "ledger"} => rec["ledger"] = "none",
               at' = "replacing" => rec["ledger"] = "doing",
               at' \in {"prefix", "permittingLegacy", "startingLegacy", "unpermitting", "restarted"}
                  => rec["restart"] # "none",
               at' \in {"advance", "locked"} => ManagedInstalled \/ rec["ledger"] = "done"
        PROVE  RollbackEra'
    <3>1. /\ rec'["unit"] = rec["unit"] /\ rec'["ledger"] = rec["ledger"]
          /\ rec'["restart"] = rec["restart"]
      BY <2>k, <1>r, <1>n
    <3> QED BY <2>2, <2>k, <3>1 DEF RollbackEra, Replaced, OriginalInstalled,
       ManagedInstalled, WritersStopped, NoneRuns
  <2>m. ManagedInstalled => /\ rec["unit"] # "done" /\ rec["ledger"] = "none"
                            /\ rec["restart"] = "none"
    BY <2>2, Constants DEF RollbackEra, ManagedInstalled, OriginalInstalled
  <2>3. CASE PreparePreExposureRollback
    <3>1. /\ rec' = [r \in Records |-> IF r = "plan" THEN "done" ELSE "none"]
          /\ at' = "stop" /\ ManagedInstalled
      BY <2>3 DEF PreparePreExposureRollback, PairVerified
    <3>2. rec'["unit"] = "none" /\ rec'["ledger"] = "none" /\ rec'["restart"] = "none"
      BY <3>1, <1>n
    <3> QED BY <2>2, <2>m, <3>1, <3>2 DEF RollbackEra, Replaced, NoneRuns
  <2>4. CASE StopCandidateForRollback \/ CandidateIsStopped
    <3>1. \E x : rec' = [rec EXCEPT !["stop"] = x]
      BY <2>4 DEF StopCandidateForRollback, CandidateIsStopped
    <3>2. at' \in {"stopping", "units"} /\ UNCHANGED copy
      BY <2>4 DEF StopCandidateForRollback, CandidateIsStopped
    <3> QED BY <2>k, <3>1, <3>2, <1>n
  <2>5. CASE RestoreOriginalUnitView
    <3>1. /\ rec' = [rec EXCEPT !["unit"] = "doing"] /\ at' = "unlinking" /\ UNCHANGED copy
          /\ ManagedInstalled
      BY <2>5 DEF RestoreOriginalUnitView, CandidateStopped, PairVerified
    <3>2. /\ rec'["unit"] = "doing" /\ rec'["ledger"] = rec["ledger"]
          /\ rec'["restart"] = rec["restart"]
      BY <3>1, <1>r, <1>n
    <3> QED BY <2>2, <2>m, <3>1, <3>2 DEF RollbackEra, Replaced, NoneRuns
  <2>6. CASE StageLiveStateRecovery \/ CopiesVerified
    <3>1. \E x : rec' = [rec EXCEPT !["copy"] = x]
      BY <2>6 DEF StageLiveStateRecovery, CopiesVerified
    <3>2. /\ at' \in {"copyingBack", "ledger"} /\ UNCHANGED copy /\ rec["ledger"] = "none"
      BY <2>2, <2>6 DEF StageLiveStateRecovery, CopiesVerified, RollbackEra
    <3> QED BY <2>k, <3>1, <3>2, <1>n
  <2>7. CASE CopyTarget
    <3>1. /\ UNCHANGED <<rec, at>> /\ at = "copyingBack"
      BY <2>7 DEF CopyTarget
    <3>2. rec["ledger"] = "none" BY <2>2, <3>1 DEF RollbackEra
    <3> QED BY <2>2, <3>1, <3>2 DEF RollbackEra, Replaced, OriginalInstalled,
       ManagedInstalled, WritersStopped, NoneRuns
  <2>8. CASE PrepareLiveReplacementLedger \/ ReplaceLiveStateFromLedger \/ StateReplaced
    <3>1. CASE UNCHANGED <<rec, copy>> /\ at' \in {"pointer", "idle"}
      BY <1>k, <2>2, <3>1
    <3>2. CASE /\ rec' = [rec EXCEPT !["ledger"] = "prepared"] /\ at' = "replace"
               /\ UNCHANGED copy /\ rec["ledger"] = "none" /\ rec["unit"] = "done"
      <4>1. /\ rec'["unit"] = rec["unit"] /\ rec'["ledger"] = "prepared"
            /\ rec'["restart"] = rec["restart"]
        BY <3>2, <1>r, <1>n
      <4> QED BY <2>2, <3>2, <4>1 DEF RollbackEra, Replaced, OriginalInstalled,
         WritersStopped, NoneRuns
    <3>3. CASE /\ rec' = [rec EXCEPT !["ledger"] = "doing"] /\ at' = "replacing"
               /\ UNCHANGED copy /\ LedgerInspected /\ rec["ledger"] # "done"
      <4>1. /\ rec'["unit"] = rec["unit"] /\ rec'["ledger"] = "doing"
            /\ rec'["restart"] = rec["restart"]
        BY <3>3, <1>r, <1>n
      <4>2. rec["ledger"] \in {"prepared", "doing"} /\ rec["unit"] = "done"
        BY <2>2, <3>3, <1>n DEF LedgerInspected, RollbackEra, TypeOK
      <4>3. \A t \in Targets : Replaced(t)'
        BY <2>2, <3>3, <4>1, <4>2
        DEF RollbackEra, Replaced, LedgerInspected, Position, TypeOK
      <4> QED BY <2>2, <3>3, <4>1, <4>2, <4>3 DEF RollbackEra, OriginalInstalled,
         WritersStopped, NoneRuns
    <3>4. CASE /\ rec' = [rec EXCEPT !["ledger"] = "done"] /\ at' \in {"pointer", "idle"}
               /\ UNCHANGED copy /\ rec["ledger"] = "doing"
               /\ \A t \in Targets : Position(t) = "installed"
      <4>1. /\ rec'["unit"] = rec["unit"] /\ rec'["ledger"] = "done"
            /\ rec'["restart"] = rec["restart"]
        BY <3>4, <1>r, <1>n
      <4>2. \A t \in Targets : Replaced(t)'
        BY <2>2, <3>4, <4>1 DEF RollbackEra, Replaced, Position
      <4> QED BY <2>2, <3>4, <4>1, <4>2 DEF RollbackEra, OriginalInstalled,
         WritersStopped, NoneRuns
    <3>5. CASE PrepareLiveReplacementLedger
      BY <2>2, <3>2, <3>5 DEF PrepareLiveReplacementLedger, OriginalViewRestored,
         OriginalView, RollbackEra
    <3>6. CASE ReplaceLiveStateFromLedger BY <3>1, <3>3, <3>6 DEF ReplaceLiveStateFromLedger
    <3>7. CASE StateReplaced BY <2>2, <3>4, <3>7 DEF StateReplaced, RollbackEra
    <3> QED BY <2>8, <3>5, <3>6, <3>7
  <2>9. CASE DeactivateCandidatePointer
    <3>1. /\ at' \in {"pointer", "restart", "idle"} /\ UNCHANGED copy
          /\ rec' = rec \/ \E x : rec' = [rec EXCEPT !["pointer"] = x]
      BY <2>9 DEF DeactivateCandidatePointer
    <3> QED BY <1>k, <2>k, <2>2, <3>1, <1>n
  <2>10. CASE RestartLegacyAfterRollback \/ LegacyHealthy
    <3>1. PICK x \in {"doing", "done"} : rec' = [rec EXCEPT !["restart"] = x]
      BY <2>10 DEF RestartLegacyAfterRollback, LegacyHealthy
    <3>2. /\ at' \in {"prefix", "reopen", "idle"} /\ UNCHANGED copy
          /\ rec["ledger"] = "done" /\ rec["unit"] = "done"
      BY <2>10 DEF RestartLegacyAfterRollback, LegacyHealthy, RestartBoundary
    <3>3. /\ rec'["unit"] = rec["unit"] /\ rec'["ledger"] = rec["ledger"]
          /\ rec'["restart"] # "none"
      BY <3>1, <1>r, <1>n
    <3> QED BY <2>2, <3>2, <3>3 DEF RollbackEra, Replaced, OriginalInstalled
  <2>11. CASE ReopenLegacyIngress
    <3>1. /\ rec' = [rec EXCEPT !["ingress"] = "doing"] /\ at' = "advance" /\ UNCHANGED copy
          /\ rec["ledger"] = "done"
      BY <2>11 DEF ReopenLegacyIngress, CanReopen
    <3> QED BY <2>k, <3>1, <1>n
  <2> QED BY <1>8, <2>1, <2>3, <2>4, <2>5, <2>6, <2>7, <2>8, <2>9, <2>10, <2>11
          DEF RecordSteps
<1> QED BY <1>0, <1>1, <1>2, <1>3, <1>4, <1>5, <1>6, <1>7, <1>8, <1>9, <1>10, <1>11,
        StepsByEffect

\* From the journaled exposure on.
LEMMA SettledStep == ASSUME TypeOK, IInv, [Next]_vars PROVE Settled'
<1> SUFFICES ASSUME phase' >= IngressOpen PROVE Settled'
  BY DEF Settled
<1> USE DEF process, history, disk, data, units, view, Stop, Proceed, Then, Claiming
<1>g. Settled /\ GateHolds /\ PlaceMatchesPhase BY DEF IInv
<1>k. ASSUME UNCHANGED <<phase, managed, loadedManaged, live, exposed>>,
             \A w \in Writers : run'[w] \in {"none", run[w]},
             phase = IngressOpen /\ Has("pause") => Has("pause")' \/ exposed = 1
      PROVE  Settled'
  BY <1>k, <1>g DEF Settled, ManagedInstalled, OriginalInstalled, Live, NoneRuns
<1>0. CASE UNCHANGED vars BY <1>0, <1>k DEF vars
<1>1. CASE Moves BY <1>1, <1>k, MovesEffect
<1>2. CASE FileSteps
  <2>1. CASE ResumeAdmission
    <3>1. phase = IngressOpen /\ open # {}
      BY <2>1, <1>g, Constants
      DEF ResumeAdmission, CandidateExposed, PlaceMatchesPhase, Exposing
    <3>2. exposed = 1 BY <3>1, <1>g DEF GateHolds
    <3> QED BY <1>2, <1>k, <3>2, FileStepsEffect
  <2>2. CASE ~ResumeAdmission BY <1>2, <1>k, <2>2, FileStepsEffect
  <2> QED BY <2>1, <2>2
<1>3. CASE UnitSteps
  BY <1>3, <1>g DEF UnitSteps, WriteGuard, ReloadGuards, WriteManaged, ReloadManaged,
     UnlinkManaged, OriginalViewLoaded, PlaceMatchesPhase, RollingBack
<1>4. CASE IngressSteps
  <2>1. /\ UNCHANGED <<phase, managed, loadedManaged, live, run, files>>
        /\ exposed' \in {1, exposed}
    BY <1>4 DEF IngressSteps, StopIngressUnit, StartIngressUnit, StopIngress
  <2> QED BY <1>g, <2>1 DEF Settled, ManagedInstalled, OriginalInstalled, Live, NoneRuns
<1>5. CASE StopSteps
  BY <1>5, <1>k, StopStepsEffect DEF Files
<1>6. CASE StartSteps
  <2>1. PICK w \in Writers, c \in Codes \cup {"none"} :
           /\ run' = [run EXCEPT ![w] = c] /\ DataAfter(c)
           /\ c = "candidate" => w \in loadedManaged
           /\ c = "legacy" => w \notin loadedManaged \/ run[w] = "legacy"
    BY <1>6, StartStepsEffect
  <2>2. /\ UNCHANGED <<phase, managed, loadedManaged, exposed>>
        /\ Has("pause")' <=> Has("pause")
    BY <1>6, StartStepsEffect DEF Files
  <2>3. \A v \in Writers : run'[v] = IF v = w THEN c ELSE run[v] BY <2>1 DEF TypeOK
  <2>4. Settled /\ phase >= IngressOpen BY <1>g, <2>2
  <2>5. CASE ManagedInstalled /\ Live("candidate") /\ NoneRuns("legacy")
    <3>1. c # "legacy" BY <2>1, <2>5 DEF ManagedInstalled, NoneRuns
    <3>2. Live("candidate")' BY <2>1, <2>5 DEF DataAfter, Live
    <3>3. NoneRuns("legacy")' BY <2>3, <2>5, <3>1 DEF NoneRuns
    <3> QED BY <2>2, <2>4, <2>5, <3>2, <3>3 DEF Settled, ManagedInstalled
  <2>6. CASE OriginalInstalled /\ Live("legacy") /\ NoneRuns("candidate")
    <3>1. c # "candidate" BY <2>1, <2>6 DEF OriginalInstalled
    <3>2. live' = live BY <2>1, <3>1 DEF DataAfter
    <3>3. NoneRuns("candidate")' BY <2>3, <2>6, <3>1 DEF NoneRuns
    <3> QED BY <2>2, <2>4, <2>6, <3>2, <3>3 DEF Settled, OriginalInstalled, Live
  <2> QED BY <2>4, <2>5, <2>6 DEF Settled
<1>7. CASE JournalSteps
  <2>1. CASE PrepareFirstMigration BY <2>1 DEF PrepareFirstMigration
  <2>2. CASE RenameJournal
    <3>1. /\ at = "locked" /\ phase >= LocallyHealthy /\ phase' = phase + 1
          /\ UNCHANGED <<files, managed, loadedManaged, live, copy, rec, run, snap, exposed>>
      BY <2>2 DEF RenameJournal, TypeOK
    <3>2. CASE phase >= IngressOpen
      BY <3>1, <3>2, <1>g DEF Settled, ManagedInstalled, OriginalInstalled, Live, NoneRuns,
         PlaceMatchesPhase
    <3>3. CASE phase = LocallyHealthy
      <4>1. RollbackEra /\ RunsLoaded BY DEF IInv
      <4>2. Has("pause") BY <3>3, <4>1 DEF RollbackEra
      <4>3. CASE rec["ledger"] = "done"
        <5>1. OriginalInstalled /\ Live("legacy")
          BY <3>3, <4>1, <4>3 DEF RollbackEra, Replaced, Live
        <5>2. NoneRuns("candidate")
          BY <4>1, <5>1 DEF RunsLoaded, OriginalInstalled, NoneRuns
        <5> QED BY <3>1, <4>2, <5>1, <5>2 DEF Settled, OriginalInstalled, Live, NoneRuns
      <4>4. CASE rec["ledger"] # "done"
        <5>1. ManagedInstalled /\ rec["ledger"] = "none"
          BY <3>1, <3>3, <4>1, <4>4, Constants
          DEF RollbackEra, ManagedInstalled, OriginalInstalled
        <5>2. Live("candidate") BY <3>3, <4>1, <5>1 DEF RollbackEra, Replaced, Live
        <5>3. NoneRuns("legacy")
          BY <4>1, <5>1 DEF RunsLoaded, ManagedInstalled, NoneRuns
        <5> QED BY <3>1, <4>2, <5>1, <5>2, <5>3 DEF Settled, ManagedInstalled, Live, NoneRuns
      <4> QED BY <4>3, <4>4
    <3>4. phase \in Int BY DEF TypeOK
    <3> QED BY <3>1, <3>2, <3>3, <3>4
  <2> QED BY <1>7, <2>1, <2>2 DEF JournalSteps
<1>8. CASE RecordSteps BY <1>8, <1>k, RecordStepsEffect DEF Files
<1>9. CASE TargetSteps
  BY <1>9, <1>g, TargetStepsEffect DEF PlaceMatchesPhase, RollingBack
<1>10. CASE BackupStateBundle
  BY <1>10, <1>g DEF BackupStateBundle, PlaceMatchesPhase
<1>11. CASE Reboot
  <2>1. /\ UNCHANGED <<phase, managed>> /\ loadedManaged' = managed
        /\ Has("pause")' <=> Has("pause")
        /\ exposed' \in {1, exposed}
        /\ \A w \in Writers : /\ run'[w] = "candidate" => w \in managed
                              /\ run'[w] = "legacy" => w \notin managed
        /\ live' = live \/ (/\ live' = [t \in Targets |-> "candidate"]
                            /\ \E w \in Writers : run'[w] = "candidate")
    BY <1>11, RebootEffect DEF Files
  <2>2. Settled /\ phase >= IngressOpen BY <1>g, <2>1
  <2>3. CASE ManagedInstalled /\ Live("candidate")
    BY <2>1, <2>2, <2>3 DEF Settled, ManagedInstalled, Live, NoneRuns
  <2>4. CASE OriginalInstalled /\ Live("legacy")
    BY <2>1, <2>2, <2>4 DEF Settled, OriginalInstalled, Live, NoneRuns
  <2> QED BY <2>2, <2>3, <2>4 DEF Settled
<1> QED BY <1>0, <1>1, <1>2, <1>3, <1>4, <1>5, <1>6, <1>7, <1>8, <1>9, <1>10, <1>11,
        StepsByEffect


-----------------------------------------------------------------------------
(***************************************************************************)
(* The theorems.                                                           *)
(***************************************************************************)

\* The invariant and the types hold in every state.
LEMMA Inductive == Spec => [](TypeOK /\ IInv)
<1>1. Init => TypeOK /\ IInv
  <2> SUFFICES ASSUME Init PROVE TypeOK /\ IInv OBVIOUS
  <2>1. TypeOK
    BY Constants DEF Init, TypeOK, Files, Places, Undoing, Codes
  <2>2. phase = -1 /\ at = "idle" /\ snap = "none" /\ exposed = 0 BY DEF Init
  <2>3. PlaceMatchesPhase
    BY <2>2 DEF PlaceMatchesPhase, Claiming, Activating, Exposing, RollingBack
  <2>4. GateHolds BY <2>2 DEF GateHolds
  <2>5. RunsLoaded BY DEF Init, RunsLoaded
  <2>6. LegacyEra /\ NoRollbackYet
    BY DEF Init, LegacyEra, NoRollbackYet, OriginalInstalled, Live, NoneRuns
  <2>7. CandidateEra /\ RollbackEra /\ Settled BY <2>2 DEF CandidateEra, RollbackEra, Settled
  <2> QED BY <2>1, <2>3, <2>4, <2>5, <2>6, <2>7 DEF IInv
<1>2. TypeOK /\ IInv /\ [Next]_vars => (TypeOK /\ IInv)'
  <2> SUFFICES ASSUME TypeOK, IInv, [Next]_vars PROVE (TypeOK /\ IInv)' OBVIOUS
  <2>1. PlaceMatchesPhase BY DEF IInv
  <2>2. TypeOK' BY <2>1, TypeStep
  <2>3. PlaceMatchesPhase' BY <2>1, PlaceStep
  <2>4. GateHolds' BY GateStep
  <2>5. RunsLoaded' BY RunsLoadedStep
  <2>6. LegacyEra' BY LegacyStep
  <2>7. NoRollbackYet' BY NoRollbackStep
  <2>8. CandidateEra' BY CandidateStep
  <2>9. RollbackEra' BY RollbackStep
  <2>10. Settled' BY SettledStep
  <2> QED BY <2>2, <2>3, <2>4, <2>5, <2>6, <2>7, <2>8, <2>9, <2>10 DEF IInv
<1> QED BY <1>1, <1>2, PTL DEF Spec

\* The values of the files, the units, the data, the records and the places of the
\* scripts: in particular no writer runs, and no target holds, anything but legacy
\* or candidate.
THEOREM TypeCorrect == Spec => []TypeOK
<1> QED BY Inductive, PTL

\* From closeLegacyIngress to the journaled exposure the marker and the guards are on
\* disk and no ingress unit runs, whatever is killed or rebooted, and a candidate that
\* runs before the public is let in has its admission gate paused.
THEOREM IngressStaysClosedHolds == Spec => []IngressStaysClosed
<1>1. TypeOK /\ IInv => IngressStaysClosed
  <2> SUFFICES ASSUME TypeOK, IInv PROVE IngressStaysClosed OBVIOUS
  <2>1. /\ phase \in IngressClosed..LocallyHealthy => Has("marker") /\ guards = AllGuards
        /\ phase \in Quiesced..LocallyHealthy => open = {}
        /\ exposed = 1 => phase >= IngressOpen
    BY DEF IInv, GateHolds, AllGuarded, TypeOK
  <2>2. ASSUME phase \in Switched..IngressOpen, ~Has("pause"),
               \E w \in Writers : run[w] = "candidate"
        PROVE  exposed = 1
    <3>1. CASE phase = Switched BY <2>2, <3>1 DEF IInv, CandidateEra, WritersStopped
    <3>2. CASE phase = LocallyHealthy BY <2>2, <3>2 DEF IInv, RollbackEra
    <3>3. CASE phase = IngressOpen BY <2>2, <3>3 DEF IInv, Settled
    <3> QED BY <2>2, <3>1, <3>2, <3>3
  <2> QED BY <2>1, <2>2 DEF IngressStaysClosed
<1> QED BY <1>1, Inductive, PTL

\* Legacy code never runs on a target that the candidate has written, no code runs on a
\* parked target, and from snapshotLegacyState to the exposure or the restart of the
\* legacy writers the snapshot has all legacy state.
THEOREM WritersMatchStateHolds == Spec => []WritersMatchState
<1>1. TypeOK /\ IInv => WritersMatchState
  <2> SUFFICES ASSUME TypeOK, IInv PROVE WritersMatchState OBVIOUS
  <2>1. phase \in -1..Completed BY DEF TypeOK
  <2>2. ASSUME phase \in Snapshotted..LocallyHealthy, rec["restart"] = "none"
        PROVE  snap = "current"
    BY <2>2 DEF IInv, LegacyEra, CandidateEra, RollbackEra
  <2>3. ASSUME NEW w \in Writers, run[w] # "none", NEW t \in Targets
        PROVE  live[t] = run[w]
    <3>1. run[w] \in {"legacy", "candidate"} BY <2>3 DEF TypeOK, Codes
    <3>2. CASE phase <= Snapshotted
      BY <2>3, <3>1, <3>2 DEF IInv, LegacyEra, Live, NoneRuns
    <3>3. CASE phase = Switched
      BY <2>3, <3>1, <3>3 DEF IInv, CandidateEra, Live, NoneRuns, WritersStopped
    <3>4. CASE phase = LocallyHealthy
      <4>0. RollbackEra /\ RunsLoaded BY DEF IInv
      <4>1. CASE run[w] = "candidate"
        <5>1. w \in loadedManaged BY <4>0, <4>1 DEF RunsLoaded
        <5>2. rec["unit"] # "done" BY <3>4, <4>0, <5>1 DEF RollbackEra, OriginalInstalled
        <5>3. rec["ledger"] = "none" BY <3>4, <4>0, <5>2 DEF RollbackEra
        <5> QED BY <3>4, <4>0, <4>1, <5>3 DEF RollbackEra, Replaced
      <4>2. CASE run[w] = "legacy"
        <5>1. rec["ledger"] = "done" BY <3>4, <4>0, <4>2 DEF RollbackEra, NoneRuns
        <5> QED BY <3>4, <4>0, <4>2, <5>1 DEF RollbackEra, Replaced
      <4> QED BY <3>1, <4>1, <4>2
    <3>5. CASE phase >= IngressOpen
      BY <2>3, <3>1, <3>5 DEF IInv, Settled, Live, NoneRuns
    <3> QED BY <2>1, <3>2, <3>3, <3>4, <3>5
  <2> QED BY <2>2, <2>3 DEF WritersMatchState
<1> QED BY <1>1, Inductive, PTL

\* installParkedTarget puts a snapshot's data over a live target only while the snapshot
\* is current and nothing has been exposed: a parked target is there only while the
\* ledger of a locally healthy candidate is being worked off.
THEOREM RewindsOnlyUnexposedHolds == Spec => RewindsOnlyUnexposed
<1>1. TypeOK /\ IInv =>
         ((\E t \in Targets : live[t] = "none" /\ live'[t] # "none")
             => snap = "current" /\ exposed = 0 /\ phase < IngressOpen)
  <2> SUFFICES ASSUME TypeOK, IInv, NEW t \in Targets, live[t] = "none"
               PROVE  snap = "current" /\ exposed = 0 /\ phase < IngressOpen
    OBVIOUS
  <2>0. phase \in -1..Completed BY DEF TypeOK
  <2>1. phase = LocallyHealthy
    <3>1. ~(phase < LocallyHealthy) BY DEF IInv, NoRollbackYet
    <3>2. ~(phase >= IngressOpen) BY DEF IInv, Settled, Live
    <3> QED BY <2>0, <3>1, <3>2
  <2>2. RollbackEra /\ GateHolds BY DEF IInv
  <2>3. rec["ledger"] = "doing" BY <2>1, <2>2 DEF RollbackEra, Replaced
  <2>4. rec["restart"] = "none" BY <2>1, <2>2, <2>3 DEF RollbackEra
  <2>5. snap = "current" BY <2>1, <2>2, <2>4 DEF RollbackEra
  <2>6. exposed = 0 BY <2>1, <2>2 DEF GateHolds, TypeOK
  <2> QED BY <2>1, <2>5, <2>6
<1>2. TypeOK /\ IInv =>
         [(\E t \in Targets : live[t] = "none" /\ live'[t] # "none")
             => snap = "current" /\ exposed = 0 /\ phase < IngressOpen]_vars
  BY <1>1
<1> QED BY <1>2, Inductive, PTL DEF RewindsOnlyUnexposed
=============================================================================
