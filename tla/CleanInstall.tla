---------------------------- MODULE CleanInstall ----------------------------
(***************************************************************************)
(* The clean private installation (scripts/release): a journal             *)
(* whose phase moves along eleven steps, one installer and one recovery    *)
(* script for each step, the controller that runs the installers in order, *)
(* and the start of the three services behind a paused admission gate.     *)
(*                                                                         *)
(* Everything is coordinated through files created with O_EXCL: one lock   *)
(* for the journal, one per installer and one per recovery.  A process     *)
(* may fail or be killed between any two of its steps, and the machine may *)
(* reboot.  Only files survive.                                            *)
(***************************************************************************)
EXTENDS Integers, FiniteSets

CONSTANTS
    Procs,       \* processes that operators start
    MaxFaults    \* bound: kills, reboots, failing system calls and inspections,
                 \* services that die

ASSUME ProcsAssumption == IsFiniteSet(Procs) /\ "none" \notin Procs /\ "done" \notin Procs
ASSUME BoundAssumption == MaxFaults \in Nat

VARIABLES
    auth,     \* the authorization profile signed into the candidate
    phase,    \* the journal's phase; -1 when there is no journal
    art,      \* art[i]: what step i has left on the machine
    ilock,    \* the steps whose install lock file exists
    rlock,    \* the steps whose recovery lock file exists
    jlock,    \* the journal's lock file, and why it is there
    running,  \* the units that run, numbered in START_ORDER
    dead,     \* those that have died by themselves: failed, or waiting for a restart
    begun,    \* the length of the list of started units of the last start
    used,     \* the units that have run and initialised their data
    at,       \* at[p]: where process p is suspended
    op, stp,  \* op[p], stp[p]: the script p runs and the step it is for
    ctl,      \* the process that runs the controller, "none", or "done"
    cphase,   \* the phase the controller expects
    alone,    \* history: 1 while no script but the controller's has run
    faults

disk  == <<art, ilock, rlock>>
svc   == <<running, dead, begun, used>>
procs == <<at, op, stp>>
ctrl  == <<ctl, cphase>>
vars  == <<auth, phase, disk, jlock, svc, procs, ctrl, alone, faults>>

-----------------------------------------------------------------------------
(***************************************************************************)
(* The steps and the phases.                                               *)
(***************************************************************************)
Identities  == 1
Config      == 2
UnitFiles   == 3
Data        == 4
ReleaseRoot == 5
Promotion   == 6
Pointer     == 7
Systemd     == 8
Admission   == 9
Owner       == 10
Startup     == 11

Installed == 1..10         \* the steps that leave something on disk
Steps     == 1..11
Units     == {1, 2, 3}     \* Session Host, Agent, MCP

Intent(i) == 2 * i - 1
Ready(i)  == 2 * i

\* The phase from which step i is announced: a static profile has no owner.
Before(i) == IF i = Startup /\ auth = "static" THEN Ready(Admission) ELSE 2 * i - 2

\* The phase at which the controller stops: it never starts a service.
FinalPhase == IF auth = "oauth" THEN Ready(Owner) ELSE Ready(Admission)

Artefacts == {"absent", "partial", "placed", "complete"}
Places == {"idle", "checked", "locked", "mutating", "advance", "held", "valid",
           "renamed", "advanced", "recovering", "closing", "starting", "stopping"}
Scripts == {"none", "intend", "install", "recover", "retry"}

\* The places at which a process is inside advanceCleanInstallJournal with the lock.
InJournal == {"held", "valid", "renamed"}

-----------------------------------------------------------------------------
(***************************************************************************)
(* The inspections.                                                        *)
(***************************************************************************)
InspectCreatedIdentities == art[Identities] = "complete"
InspectInstalledConfig   == art[Config] = "complete"
InspectInstalledUnits    == art[UnitFiles] = "complete"

\* The strict inspection wants directories that hold nothing but the owner's
\* data, once there is an owner; the others accept what the services write.
InspectInstalledData(ownerReady) ==
    /\ art[Data] = "complete" /\ used = {}
    /\ art[Owner] = IF ownerReady THEN "complete" ELSE "absent"
InspectStartupData == art[Data] = "complete"
InspectInitialized == art[Data] = "complete" /\ {1, 2} \subseteq used

InspectReleaseRoot == art[ReleaseRoot] = "complete" /\ art[Promotion] = "absent"
InspectPromoted    == art[Promotion] = "complete" /\ art[Pointer] = "absent"
InspectCurrent     == art[Promotion] = "complete" /\ art[Pointer] = "complete"

InspectSystemdInactivity == running = {} /\ dead = {}
InspectSystemdBoundary ==
    /\ phase \in Ready(Pointer)..Intent(Startup)
    /\ InspectInstalledUnits /\ InspectCurrent
    /\ art[Systemd] = "complete" /\ InspectSystemdInactivity
InspectRunningSystemd ==
    /\ phase \in Intent(Startup)..Ready(Startup)
    /\ InspectInstalledUnits /\ InspectCurrent
    /\ art[Systemd] = "complete" /\ running = Units

VerifyAdmissionPause == art[Admission] = "complete"
InspectOwner         == art[Owner] = "complete"

\* inspectCleanOwnerInstallBoundary, before the owner exists and after.
OwnerBoundary(expectOwner) ==
    /\ auth = "oauth"
    /\ InspectCreatedIdentities /\ InspectInstalledConfig
    /\ InspectInstalledData(expectOwner)
    /\ InspectSystemdBoundary /\ VerifyAdmissionPause

\* What every start, and every recovery of a start, inspects.
StartupBoundary ==
    /\ InspectCreatedIdentities /\ InspectInstalledConfig /\ InspectStartupData
    /\ VerifyAdmissionPause
    /\ auth = "oauth" => InspectOwner

-----------------------------------------------------------------------------
(***************************************************************************)
(* Processes.                                                              *)
(***************************************************************************)
Idle(p)       == at[p] = "idle"
Runs(p, o, i) == op[p] = o /\ stp[p] = i

GoTo(p, place) == at' = [at EXCEPT ![p] = place] /\ UNCHANGED <<op, stp>>
Launch(p, o, i, place) ==
    /\ Idle(p)
    /\ at' = [at EXCEPT ![p] = place]
    /\ op' = [op EXCEPT ![p] = o]
    /\ stp' = [stp EXCEPT ![p] = i]
Exit(p) ==
    /\ at' = [at EXCEPT ![p] = "idle"]
    /\ op' = [op EXCEPT ![p] = "none"]
    /\ stp' = [stp EXCEPT ![p] = 0]

\* A script that ends well lets the controller go on; one that fails stops it.
Succeed(p) ==
    /\ Exit(p)
    /\ cphase' = IF ctl = p THEN cphase + 1 ELSE cphase
    /\ UNCHANGED <<ctl, alone, faults>>
Fail(p) ==
    /\ Exit(p)
    /\ ctl' = IF ctl = p THEN "none" ELSE ctl
    /\ cphase' = IF ctl = p THEN 0 ELSE cphase
    /\ UNCHANGED alone

\* Something outside the scripts fails.
Fault == faults < MaxFaults /\ faults' = faults + 1

\* A check that may fail by itself fails for certain when what it wants is false.
Refused(ok) == IF ok THEN Fault ELSE UNCHANGED faults

\* The processes that run the installer of step i and have created its lock.
Holders(i) == {p \in Procs : Runs(p, "install", i) /\ at[p] \notin {"idle", "checked"}}
Recoverers(i) == {p \in Procs : op[p] \in {"recover", "retry"} /\ stp[p] = i}

\* Another process than the controller's starts a script.
Disturb(p) == alone' = IF ctl = p THEN alone ELSE 0

-----------------------------------------------------------------------------
(***************************************************************************)
(* advanceCleanInstallJournal.                                             *)
(***************************************************************************)

\* Mutant: the journal is not compared with what the caller read.
AnyPhase(p) == phase

\* The phase a process wants to commit, and the one it expects to find.
Expected(p) == IF op[p] = "intend" THEN Before(stp[p]) ELSE Intent(stp[p])
Wanted(p)   == IF op[p] = "intend" THEN Intent(stp[p]) ELSE Ready(stp[p])

\* The install locks that must be gone before step i is announced.
Unresolved(i) ==
    ilock \cap CASE i = Identities -> {}
                 [] i = Startup    -> {Admission} \cup IF auth = "oauth" THEN {Owner} ELSE {}
                 [] OTHER          -> {i - 1}

\* The owner's phases belong to an OAuth profile only.
AuthMatches(n) == n \in Intent(Owner)..Ready(Owner) => auth = "oauth"

\* What must be in place before phase n is written.
Bound(n) ==
    /\ n >= Ready(Identities) => InspectCreatedIdentities
    /\ n >= Ready(Config) => InspectInstalledConfig
    /\ n = Intent(UnitFiles) => art[UnitFiles] = "absent"
    /\ n >= Ready(UnitFiles) => InspectInstalledUnits
    /\ n = Intent(Data) => art[Data] = "absent"
    /\ n \in Ready(Data)..Intent(Startup) =>
          InspectInstalledData(auth = "oauth" /\ n > Intent(Owner))
    /\ n = Intent(ReleaseRoot) => art[ReleaseRoot] = "absent"
    /\ n \in Ready(ReleaseRoot)..Intent(Promotion) => InspectReleaseRoot
    /\ n \in Ready(Promotion)..Intent(Pointer) => InspectPromoted
    /\ n \in Ready(Pointer)..Ready(Systemd) => InspectCurrent
    /\ n \in Ready(Systemd)..Intent(Startup) => InspectSystemdBoundary
    /\ n = Intent(Admission) => art[Admission] = "absent"
    /\ n >= Ready(Admission) => VerifyAdmissionPause
    /\ n >= Ready(Owner) /\ auth = "oauth" => InspectOwner
    /\ n = Ready(Startup) => InspectInitialized /\ InspectRunningSystemd

\* How a script ends when its call of advance fails: an installer keeps its
\* lock, a recovery goes to its finally clause, and a start stops what it
\* started unless the journal already says that the start is complete.
AdvanceThrows(p, now) ==
    CASE op[p] \in {"recover", "retry"} -> GoTo(p, "closing") /\ UNCHANGED <<ctrl, alone>>
      [] Runs(p, "install", Startup) /\ now # Ready(Startup) ->
            GoTo(p, "stopping") /\ UNCHANGED <<ctrl, alone>>
      [] OTHER -> Fail(p)

LockJournal(p) ==
    /\ at[p] = "advance"
    /\ \/ jlock = "free" /\ jlock' = "held" /\ GoTo(p, "held") /\ UNCHANGED <<ctrl, alone>>
       \/ jlock # "free" /\ AdvanceThrows(p, phase) /\ UNCHANGED jlock
    /\ UNCHANGED <<auth, phase, disk, svc, faults>>

\* The journal has moved on since the caller read it: the only refusal, beside
\* a missing file, that takes the lock away again.
RejectTransition(p) ==
    /\ at[p] = "held" /\ phase # Expected(p)
    /\ jlock' = "free"
    /\ AdvanceThrows(p, phase)
    /\ UNCHANGED <<auth, phase, disk, svc, faults>>

\* The lock of the step before is gone, and everything installed is inspected.
Resolved(p) == op[p] = "intend" => Unresolved(stp[p]) = {}
Valid(p) == Resolved(p) /\ AuthMatches(Wanted(p)) /\ Bound(Wanted(p))

Validate(p) ==
    /\ at[p] = "held" /\ phase = Expected(p) /\ Valid(p)
    /\ GoTo(p, "valid")
    /\ UNCHANGED <<auth, phase, disk, jlock, svc, ctrl, alone, faults>>

\* An inspection fails, on what it finds or on an error of its own: unless the
\* error is a missing file, the lock stays.
RefuseTransition(p) ==
    /\ at[p] = "held" /\ phase = Expected(p)
    /\ Refused(Valid(p))
    /\ jlock' = "refused" \/ (Resolved(p) /\ jlock' = "free")
    /\ AdvanceThrows(p, phase)
    /\ UNCHANGED <<auth, phase, disk, svc>>

RenameJournal(p) ==
    /\ at[p] = "valid"
    /\ phase' = Wanted(p)
    /\ GoTo(p, "renamed")
    /\ UNCHANGED <<auth, disk, jlock, svc, ctrl, alone, faults>>

\* Mutant: a successful transition forgets to remove the journal's lock.
UnlockForgotten(p) ==
    /\ at[p] = "renamed"
    /\ jlock' = "left"
    /\ IF op[p] = "intend" THEN Succeed(p)
       ELSE GoTo(p, "advanced") /\ UNCHANGED <<ctrl, alone, faults>>
    /\ UNCHANGED <<auth, phase, disk, svc>>

UnlockJournal(p) ==
    /\ at[p] = "renamed"
    /\ jlock' = "free"
    /\ IF op[p] = "intend" THEN Succeed(p)
       ELSE GoTo(p, "advanced") /\ UNCHANGED <<ctrl, alone, faults>>
    /\ UNCHANGED <<auth, phase, disk, svc>>

\* The directory cannot be synced, or the lock not removed, after the rename.
InterruptedCommit(p) ==
    /\ at[p] = "renamed" /\ Fault
    /\ jlock' = "left"
    /\ AdvanceThrows(p, phase)
    /\ UNCHANGED <<auth, phase, disk, svc>>

AdvanceCleanInstallJournal(p) ==
    \/ LockJournal(p) \/ RejectTransition(p) \/ Validate(p) \/ RefuseTransition(p)
    \/ RenameJournal(p) \/ UnlockJournal(p) \/ InterruptedCommit(p)

\* An operator announces step i; an OAuth start is announced by startCleanProtected.
AnnounceStep(p) ==
    /\ ctl # p
    /\ \E i \in Steps :
          /\ phase = Before(i) /\ (i = Startup => auth = "static")
          /\ Launch(p, "intend", i, "advance")
    /\ Disturb(p)
    /\ UNCHANGED <<auth, phase, disk, jlock, svc, ctrl, faults>>

-----------------------------------------------------------------------------
(***************************************************************************)
(* The installers.                                                         *)
(***************************************************************************)

\* Mutant: the lock file is opened without O_EXCL.
TakeSharedLock(p, i) ==
    /\ at[p] = "checked" /\ Runs(p, "install", i)
    /\ ilock' = ilock \cup {i} /\ GoTo(p, "locked")
    /\ UNCHANGED <<auth, phase, art, rlock, jlock, svc, ctrl, alone, faults>>

\* open(lock, O_EXCL) of an installer.
TakeInstallLock(p, i) ==
    /\ at[p] = "checked" /\ Runs(p, "install", i)
    /\ \/ i \notin ilock /\ ilock' = ilock \cup {i} /\ GoTo(p, "locked") /\ UNCHANGED <<ctrl, alone>>
       \/ i \in ilock /\ UNCHANGED ilock /\ Fail(p)
    /\ UNCHANGED <<auth, phase, art, rlock, jlock, svc, faults>>

\* What a step may look like after one more of its system calls.
After(i) ==
    CASE i \in {Pointer, Systemd}                        -> {"complete"}
      [] i = Promotion /\ art[i] = "partial"             -> {"placed"}
      [] i \notin {Pointer, Systemd} /\ art[i] = "absent" -> {"partial"}
      [] OTHER                                           -> {"complete"}

\* promotePreparedRelease removes its own lock directory in a finally clause.
AfterThrow(i) ==
    CASE i = Promotion /\ art[i] = "partial" -> "absent"
      [] i = Promotion /\ art[i] = "placed"  -> "complete"
      [] OTHER                               -> art[i]

\* Mutant: a failed change removes its lock as a failed inspection does.
MutateUnlocks(p, i, proven) ==
    /\ at[p] = "mutating" /\ Runs(p, "install", i)
    /\ UNCHANGED <<auth, phase, rlock, jlock, svc>>
    /\ \/ \E a \in After(i) :
             /\ art' = [art EXCEPT ![i] = a]
             /\ GoTo(p, IF a = "complete" THEN "advance" ELSE "mutating")
             /\ UNCHANGED <<ilock, ctrl, alone, faults>>
       \/ /\ art' = [art EXCEPT ![i] = AfterThrow(i)]
          /\ ilock' = ilock \ {i} /\ Fault /\ Fail(p)

Mutate(p, i, proven) ==
    /\ at[p] = "mutating" /\ Runs(p, "install", i)
    /\ UNCHANGED <<auth, phase, ilock, rlock, jlock, svc>>
    /\ \/ \E a \in After(i) :
             /\ art' = [art EXCEPT ![i] = a]
             /\ \/ /\ a = "complete" => proven'
                   /\ GoTo(p, IF a = "complete" THEN "advance" ELSE "mutating")
                   /\ UNCHANGED <<ctrl, alone, faults>>
                \/ a = "complete" /\ Refused(proven') /\ Fail(p)
       \/ art' = [art EXCEPT ![i] = AfterThrow(i)] /\ Fault /\ Fail(p)

\* The first inspections of an installer; the controller runs the one it announced.
BeginInstall(p, i, before) ==
    /\ phase = Intent(i) /\ before
    /\ ctl = p => cphase = phase
    /\ Launch(p, "install", i, "checked")
    /\ Disturb(p)
    /\ UNCHANGED <<auth, phase, disk, jlock, svc, ctrl, faults>>

\* Mutant: an installer that finds its target occupied clears it away.
InspectAgainClears(p, i, again) ==
    /\ at[p] = "locked" /\ Runs(p, "install", i)
    /\ \/ again /\ GoTo(p, "mutating") /\ UNCHANGED <<art, ilock, ctrl, alone, faults>>
       \/ /\ ~again /\ art' = [art EXCEPT ![i] = "absent"]
          /\ ilock' = ilock \ {i} /\ Fail(p) /\ UNCHANGED faults
    /\ UNCHANGED <<auth, phase, rlock, jlock, svc>>

\* The inspections under the lock: a failure before any change removes it.
InspectAgain(p, i, again) ==
    /\ at[p] = "locked" /\ Runs(p, "install", i)
    /\ \/ again /\ GoTo(p, "mutating") /\ UNCHANGED <<ilock, ctrl, alone, faults>>
       \/ ilock' = ilock \ {i} /\ Refused(again) /\ Fail(p)
    /\ UNCHANGED <<auth, phase, art, rlock, jlock, svc>>

FinishInstall(p, i) ==
    /\ at[p] = "advanced" /\ Runs(p, "install", i)
    /\ ilock' = ilock \ {i}
    /\ Succeed(p)
    /\ UNCHANGED <<auth, phase, art, rlock, jlock, svc>>

\* An installer: inspect, take the lock, inspect again, change the machine,
\* advance the journal, remove the lock.  Once the change has begun, a failure
\* leaves the lock.
Installer(p, i, before, again, proven) ==
    \/ BeginInstall(p, i, before) \/ TakeInstallLock(p, i) \/ InspectAgain(p, i, again)
    \/ Mutate(p, i, proven) \/ FinishInstall(p, i)

Missing(i) == art[i] = "absent"

InstallCleanIdentities(p) ==
    Installer(p, Identities, Missing(Identities), Missing(Identities), TRUE)
InstallCleanConfig(p) ==
    Installer(p, Config, InspectCreatedIdentities /\ Missing(Config), Missing(Config), TRUE)
InstallCleanUnits(p) ==
    Installer(p, UnitFiles,
              InspectCreatedIdentities /\ InspectInstalledConfig /\ Missing(UnitFiles),
              Missing(UnitFiles), TRUE)
InstallCleanData(p) ==
    Installer(p, Data,
              /\ InspectCreatedIdentities /\ InspectInstalledConfig /\ InspectInstalledUnits
              /\ Missing(Data),
              Missing(Data), TRUE)
InstallCleanReleaseRoot(p) ==
    Installer(p, ReleaseRoot, Missing(ReleaseRoot), Missing(ReleaseRoot), TRUE)
PromoteCleanInstall(p) ==
    Installer(p, Promotion,
              /\ InspectCreatedIdentities /\ InspectInstalledConfig /\ InspectInstalledUnits
              /\ InspectInstalledData(FALSE) /\ InspectReleaseRoot,
              InspectReleaseRoot, InspectPromoted)
InstallCleanPointer(p) ==
    Installer(p, Pointer,
              /\ InspectCreatedIdentities /\ InspectInstalledConfig /\ InspectInstalledUnits
              /\ InspectInstalledData(FALSE) /\ InspectPromoted,
              InspectPromoted, InspectCurrent)
LoadCleanSystemdUnits(p) ==
    LET Preflight == InspectInstalledUnits /\ InspectCurrent /\ InspectSystemdInactivity
    IN  Installer(p, Systemd, Preflight, Preflight, InspectSystemdBoundary)
InstallCleanAdmissionPause(p) ==
    LET Preflight == InspectSystemdBoundary /\ Missing(Admission)
    IN  Installer(p, Admission, Preflight, Preflight, VerifyAdmissionPause)
InstallCleanOwner(p) ==
    Installer(p, Owner, OwnerBoundary(FALSE), OwnerBoundary(FALSE) /\ jlock = "free",
              OwnerBoundary(TRUE))

-----------------------------------------------------------------------------
(***************************************************************************)
(* The recoveries of completed steps.                                      *)
(***************************************************************************)

\* "Call only after the original installer has stopped": a lock was left, and
\* no process that holds it is running.
Abandoned(i) == i \in ilock /\ Holders(i) = {}

\* The journal is read, the recovery lock is created and the journal is read
\* again; only an unchanged phase goes on.
BeginRecovery(p, i) ==
    /\ ctl # p
    /\ phase \in Intent(i)..Ready(i) /\ Abandoned(i) /\ i \notin rlock
    /\ Launch(p, "recover", i, "recovering")
    /\ rlock' = rlock \cup {i}
    /\ Disturb(p)
    /\ UNCHANGED <<auth, phase, art, ilock, jlock, svc, ctrl, faults>>

EndRecovery(p, i) ==
    /\ at[p] = "closing" /\ stp[p] = i
    /\ rlock' = rlock \ {i}
    /\ Exit(p)
    /\ UNCHANGED <<auth, phase, art, ilock, jlock, svc, ctrl, alone, faults>>

\* The install lock and everything up to this step are inspected; a journal
\* that is not at the ready phase yet is advanced.
InspectCompleted(p, i, proven) ==
    /\ at[p] = "recovering" /\ Runs(p, "recover", i)
    /\ \/ /\ i \in ilock /\ proven /\ UNCHANGED faults
          /\ GoTo(p, IF phase = Ready(i) THEN "advanced" ELSE "advance")
       \/ Refused(i \in ilock /\ proven) /\ GoTo(p, "closing")
    /\ UNCHANGED <<auth, phase, disk, jlock, svc, ctrl, alone>>

ReleaseCompleted(p, i) ==
    /\ at[p] = "advanced" /\ Runs(p, "recover", i)
    /\ ilock' = ilock \ {i}
    /\ GoTo(p, "closing")
    /\ UNCHANGED <<auth, phase, art, rlock, jlock, svc, ctrl, alone, faults>>

Recovery(p, i, proven) ==
    \/ BeginRecovery(p, i) \/ InspectCompleted(p, i, proven) \/ ReleaseCompleted(p, i)
    \/ EndRecovery(p, i)

RecoverCompletedCleanIdentities(p) == Recovery(p, Identities, InspectCreatedIdentities)
RecoverCompletedCleanConfig(p) ==
    Recovery(p, Config, InspectCreatedIdentities /\ InspectInstalledConfig)
RecoverCompletedCleanUnits(p) ==
    Recovery(p, UnitFiles,
             InspectCreatedIdentities /\ InspectInstalledConfig /\ InspectInstalledUnits)
RecoverCompletedCleanData(p) ==
    Recovery(p, Data,
             /\ InspectCreatedIdentities /\ InspectInstalledConfig /\ InspectInstalledUnits
             /\ InspectInstalledData(FALSE))
RecoverCompletedCleanReleaseRoot(p) ==
    Recovery(p, ReleaseRoot,
             /\ InspectCreatedIdentities /\ InspectInstalledConfig /\ InspectInstalledUnits
             /\ InspectInstalledData(FALSE) /\ InspectReleaseRoot)


\* A promotion that was killed between its rename and its finally clause has
\* left the lock directory of promotePreparedRelease, which is removed here.
RemovePromotionLock(p) ==
    /\ at[p] = "recovering" /\ Runs(p, "recover", Promotion)
    /\ InspectCreatedIdentities /\ InspectInstalledConfig /\ InspectInstalledUnits
    /\ InspectInstalledData(FALSE)
    /\ Promotion \in ilock /\ art[Promotion] = "placed" /\ art[Pointer] = "absent"
    /\ art' = [art EXCEPT ![Promotion] = "complete"]
    /\ UNCHANGED <<auth, phase, ilock, rlock, jlock, svc, procs, ctrl, alone, faults>>
RecoverCompletedCleanPromotion(p) ==
    \/ RemovePromotionLock(p)
    \/ Recovery(p, Promotion,
                /\ InspectCreatedIdentities /\ InspectInstalledConfig /\ InspectInstalledUnits
                /\ InspectInstalledData(FALSE) /\ InspectPromoted)
RecoverCompletedCleanPointer(p) ==
    Recovery(p, Pointer,
             /\ InspectCreatedIdentities /\ InspectInstalledConfig /\ InspectInstalledUnits
             /\ InspectInstalledData(FALSE) /\ InspectCurrent)
RecoverCompletedCleanSystemd(p) ==
    Recovery(p, Systemd,
             /\ InspectCreatedIdentities /\ InspectInstalledConfig /\ InspectInstalledUnits
             /\ InspectInstalledData(FALSE) /\ InspectCurrent /\ InspectSystemdBoundary)
RecoverCompletedCleanAdmission(p) ==
    Recovery(p, Admission,
             /\ InspectCreatedIdentities /\ InspectInstalledConfig /\ InspectInstalledUnits
             /\ InspectInstalledData(FALSE) /\ InspectCurrent /\ InspectSystemdBoundary
             /\ VerifyAdmissionPause)
RecoverCompletedCleanOwner(p) ==
    Recovery(p, Owner, jlock = "free" /\ OwnerBoundary(TRUE))

-----------------------------------------------------------------------------
(***************************************************************************)
(* The start of the services.  The proof that the public route is closed   *)
(* comes from outside and may fail at any time.                            *)
(***************************************************************************)
StartPreflight == jlock = "free" /\ StartupBoundary /\ InspectSystemdBoundary

BeginStart(p) ==
    /\ ctl # p
    /\ phase = Intent(Startup) /\ StartPreflight
    /\ Launch(p, "install", Startup, "checked")
    /\ Disturb(p)
    /\ UNCHANGED <<auth, phase, disk, jlock, svc, ctrl, faults>>

\* The second preflight; when it fails nothing has been started, and the lock
\* goes unless another process has completed the start.
PreflightAgain(p) ==
    /\ at[p] = "locked" /\ Runs(p, "install", Startup)
    /\ \/ /\ StartPreflight /\ GoTo(p, "starting") /\ begun' = 0
          /\ UNCHANGED <<ilock, ctrl, alone, faults>>
       \/ /\ Refused(StartPreflight)
          /\ ilock' = IF phase = Ready(Startup) THEN ilock ELSE ilock \ {Startup}
          /\ Fail(p) /\ UNCHANGED begun
    /\ UNCHANGED <<auth, phase, art, rlock, jlock, running, dead, used>>

\* The units are started in order, and listed as started before systemctl is
\* called, which may fail with or without having created the process.
StartUnit(p) ==
    /\ at[p] = "starting" /\ VerifyAdmissionPause
    /\ begun < 3 /\ begun' = begun + 1
    /\ \/ /\ running' = running \cup {begun'} /\ used' = used \cup {begun'}
          /\ dead' = dead \ {begun'}
          /\ at' = at \/ at' = [at EXCEPT ![p] = "stopping"]
       \/ /\ at' = [at EXCEPT ![p] = "stopping"]
          /\ UNCHANGED <<running, dead, used>>
    /\ IF at' = at THEN UNCHANGED faults ELSE Fault
    /\ UNCHANGED <<auth, phase, disk, jlock, op, stp, ctrl, alone>>

\* All three run and are healthy.
StartHealthy(p) ==
    /\ at[p] = "starting" /\ begun = 3 /\ InspectRunningSystemd /\ VerifyAdmissionPause
    /\ GoTo(p, "advance")
    /\ UNCHANGED <<auth, phase, disk, jlock, svc, ctrl, alone, faults>>

\* What is checked before a unit is started, and after the last one.
StartProven == VerifyAdmissionPause /\ (begun = 3 => InspectRunningSystemd)

\* Mutant: a start that cannot be proven gives its lock back at once.
StartUnprovenUnlocks(p) ==
    /\ at[p] = "starting" /\ Refused(StartProven)
    /\ ilock' = ilock \ {Startup}
    /\ IF begun = 0 THEN Fail(p) ELSE GoTo(p, "stopping") /\ UNCHANGED <<ctrl, alone>>
    /\ UNCHANGED <<auth, phase, art, rlock, jlock, svc>>

\* A check between two units, or the health check after them, fails.
StartUnproven(p) ==
    /\ at[p] = "starting" /\ Refused(StartProven)
    /\ IF begun = 0
       THEN ilock' = ilock \ {Startup} /\ Fail(p)
       ELSE GoTo(p, "stopping") /\ UNCHANGED <<ilock, ctrl, alone>>
    /\ UNCHANGED <<auth, phase, art, rlock, jlock, svc>>

\* Every started unit is stopped; a stop may fail, and a unit that has failed
\* stays so.  The lock stays.
StopStarted(p) ==
    /\ at[p] = "stopping"
    /\ \/ running' = {} /\ UNCHANGED faults
       \/ running' \in SUBSET running \ {{}} /\ Fault
    /\ dead' \in SUBSET dead
    /\ Fail(p)
    /\ UNCHANGED <<auth, phase, disk, jlock, begun, used>>

StartCleanLocalServices(p) ==
    \/ BeginStart(p) \/ TakeInstallLock(p, Startup) \/ PreflightAgain(p) \/ StartUnit(p)
    \/ StartHealthy(p) \/ StartUnproven(p) \/ StopStarted(p)
    \/ FinishInstall(p, Startup)

\* startCleanProtected announces the start when no lock is left; it goes on as
\* startCleanLocalServices.
StartCleanProtected(p) ==
    /\ ctl # p
    /\ phase = Ready(Owner) /\ jlock = "free" /\ Startup \notin ilock \cup rlock
    /\ Launch(p, "intend", Startup, "advance")
    /\ Disturb(p)
    /\ UNCHANGED <<auth, phase, disk, jlock, svc, ctrl, faults>>

\* An inactive attempt may be retried, a healthy one adopted; everything else
\* keeps the startup lock.
Attempted == Startup \in ilock /\ jlock = "free" /\ StartupBoundary /\ InspectInstalledUnits /\ InspectCurrent
Retriable == Attempted /\ phase = Intent(Startup) /\ InspectSystemdBoundary
Adoptable == Attempted /\ InspectInitialized /\ InspectRunningSystemd
InspectAttempt(p) ==
    /\ at[p] = "recovering" /\ Runs(p, "recover", Startup)
    /\ \/ /\ Retriable /\ UNCHANGED <<stp, faults>>
          /\ at' = [at EXCEPT ![p] = "advanced"]
          /\ op' = [op EXCEPT ![p] = "retry"]
       \/ /\ Adoptable /\ UNCHANGED faults
          /\ GoTo(p, IF phase = Ready(Startup) THEN "advanced" ELSE "advance")
       \/ Refused(Retriable \/ Adoptable) /\ GoTo(p, "closing")
    /\ UNCHANGED <<auth, phase, disk, jlock, svc, ctrl, alone>>

\* The gate is inspected once more before the startup lock is removed.
GateUnchanged(p) ==
    /\ VerifyAdmissionPause
    /\ IF op[p] = "retry" THEN InspectSystemdBoundary ELSE InspectRunningSystemd
ReleaseAttempt(p) ==
    /\ at[p] = "advanced" /\ op[p] \in {"recover", "retry"} /\ stp[p] = Startup
    /\ \/ GateUnchanged(p) /\ ilock' = ilock \ {Startup} /\ UNCHANGED faults
       \/ Refused(GateUnchanged(p)) /\ UNCHANGED ilock
    /\ GoTo(p, "closing")
    /\ UNCHANGED <<auth, phase, art, rlock, jlock, svc, ctrl, alone>>

RecoverCleanLocalStartup(p) ==
    \/ BeginRecovery(p, Startup) \/ InspectAttempt(p) \/ ReleaseAttempt(p)
    \/ EndRecovery(p, Startup)

-----------------------------------------------------------------------------
(***************************************************************************)
(* The controller.                                                         *)
(***************************************************************************)

\* startCleanInstallJournal, for a controller that finds no journal.
StartCleanInstallJournal(p) ==
    /\ Idle(p) /\ ctl = "none" /\ phase = -1
    /\ phase' = 0
    /\ ctl' = p /\ cphase' = 0
    /\ UNCHANGED <<auth, disk, jlock, svc, procs, alone, faults>>

\* The controller announces the next step; its installer follows.
ControllerAnnounces(p) ==
    /\ ctl = p /\ phase = cphase /\ cphase # FinalPhase
    /\ \E i \in Installed : cphase = 2 * i - 2 /\ Launch(p, "intend", i, "advance")
    /\ UNCHANGED <<auth, phase, disk, jlock, svc, ctrl, alone, faults>>

\* The last verification: services inactive, admission paused, owner bound.
ControllerVerifies(p) ==
    /\ ctl = p /\ Idle(p) /\ phase = cphase /\ cphase = FinalPhase
    /\ InspectSystemdBoundary /\ VerifyAdmissionPause /\ (auth = "oauth" => InspectOwner)
    /\ ctl' = "done" /\ cphase' = 0
    /\ UNCHANGED <<auth, phase, disk, jlock, svc, procs, alone, faults>>

\* An unexpected phase, or an inspection that fails, stops the controller.
ControllerStops(p) ==
    /\ ctl = p /\ Idle(p) /\ Refused(phase = cphase /\ alone = 1)
    /\ Fail(p)
    /\ UNCHANGED <<auth, phase, disk, jlock, svc>>

InstallCleanPrivateRuntime(p) ==
    \/ StartCleanInstallJournal(p) \/ ControllerAnnounces(p)
    \/ ControllerVerifies(p) \/ ControllerStops(p)

-----------------------------------------------------------------------------
(***************************************************************************)
(* Faults.                                                                 *)
(***************************************************************************)

\* A process is killed; every file stays as it is.
Crash(p) ==
    /\ ~Idle(p) /\ Fault
    /\ jlock' = IF at[p] \in InJournal THEN "left" ELSE jlock
    /\ Fail(p)
    /\ UNCHANGED <<auth, phase, disk, svc>>

\* A service dies, at any time and whatever a script has just inspected.
ServiceDies(u) ==
    /\ u \in running /\ Fault
    /\ running' = running \ {u} /\ dead' = dead \cup {u}
    /\ UNCHANGED <<auth, phase, disk, jlock, begun, used, procs, ctrl, alone>>

\* Restart=on-failure, or the start of a unit that wants this one.
ServiceRestarts(u) ==
    /\ u \in dead
    /\ running' = running \cup {u} /\ dead' = dead \ {u}
    /\ UNCHANGED <<auth, phase, disk, jlock, begun, used, procs, ctrl, alone, faults>>

\* The machine reboots: no process and, since nothing is enabled, no service.
Reboot ==
    /\ Fault
    /\ jlock' = IF jlock = "held" THEN "left" ELSE jlock
    /\ running' = {} /\ dead' = {}
    /\ at' = [p \in Procs |-> "idle"]
    /\ op' = [p \in Procs |-> "none"]
    /\ stp' = [p \in Procs |-> 0]
    /\ ctl' = IF ctl \in Procs THEN "none" ELSE ctl
    /\ cphase' = 0 /\ UNCHANGED alone
    /\ UNCHANGED <<auth, phase, disk, begun, used>>

-----------------------------------------------------------------------------
Init ==
    /\ auth \in {"static", "oauth"}
    /\ phase = -1
    /\ art = [i \in Installed |-> "absent"]
    /\ ilock = {} /\ rlock = {} /\ jlock = "free"
    /\ running = {} /\ dead = {} /\ begun = 0 /\ used = {}
    /\ at = [p \in Procs |-> "idle"]
    /\ op = [p \in Procs |-> "none"]
    /\ stp = [p \in Procs |-> 0]
    /\ ctl = "none" /\ cphase = 0
    /\ alone = 1 /\ faults = 0

Install(p) ==
    \/ InstallCleanIdentities(p) \/ InstallCleanConfig(p) \/ InstallCleanUnits(p)
    \/ InstallCleanData(p) \/ InstallCleanReleaseRoot(p) \/ PromoteCleanInstall(p)
    \/ InstallCleanPointer(p) \/ LoadCleanSystemdUnits(p)
    \/ InstallCleanAdmissionPause(p) \/ InstallCleanOwner(p)

Recover(p) ==
    \/ RecoverCompletedCleanIdentities(p) \/ RecoverCompletedCleanConfig(p)
    \/ RecoverCompletedCleanUnits(p) \/ RecoverCompletedCleanData(p)
    \/ RecoverCompletedCleanReleaseRoot(p) \/ RecoverCompletedCleanPromotion(p)
    \/ RecoverCompletedCleanPointer(p) \/ RecoverCompletedCleanSystemd(p)
    \/ RecoverCompletedCleanAdmission(p) \/ RecoverCompletedCleanOwner(p)

Step(p) ==
    \/ AnnounceStep(p) \/ AdvanceCleanInstallJournal(p) \/ Install(p) \/ Recover(p)
    \/ StartCleanLocalServices(p) \/ StartCleanProtected(p) \/ RecoverCleanLocalStartup(p)
    \/ InstallCleanPrivateRuntime(p)

Next ==
    \/ \E p \in Procs : Step(p) \/ Crash(p)
    \/ \E u \in Units : ServiceDies(u) \/ ServiceRestarts(u)
    \/ Reboot

Spec == Init /\ [][Next]_vars

\* The process of the controller goes on, within a script and to the next one;
\* nobody is bound to start one.
Continue(p) == ctl = p /\ Step(p)
FairSpec == Spec /\ \A p \in Procs : WF_vars(Continue(p))

-----------------------------------------------------------------------------
(***************************************************************************)
(* Properties.                                                             *)
(***************************************************************************)
TypeOK ==
    /\ auth \in {"static", "oauth"} /\ phase \in -1..Ready(Startup)
    /\ art \in [Installed -> Artefacts]
    /\ ilock \subseteq Steps /\ rlock \subseteq Steps
    /\ jlock \in {"free", "held", "left", "refused"}
    /\ running \subseteq Units /\ dead \subseteq Units /\ used \subseteq Units
    /\ begun \in 0..3
    /\ at \in [Procs -> Places] /\ op \in [Procs -> Scripts] /\ stp \in [Procs -> 0..11]
    /\ ctl \in Procs \cup {"none", "done"} /\ cphase \in Nat
    /\ ctl \notin Procs => cphase = 0
    /\ alone \in 0..1 /\ faults \in 0..MaxFaults

\* The journal tells the truth: a step whose ready phase was written is complete
\* on the machine, whatever was killed, retried or run twice on the way
\* (advanceCleanInstallJournal inspects, the installers lock and inspect again).
JournalIsTruthful ==
    \A i \in Installed :
        phase >= Ready(i) /\ (i = Owner => auth = "oauth") => art[i] = "complete"

\* A half-made step is under its install lock, so that no installer takes it for
\* a fresh target and no later step is announced over it (the mutationStarted
\* flag of the installers).
PartialIsLocked ==
    \A i \in Installed : art[i] \in {"partial", "placed"} => i \in ilock

\* Services run, or wait for systemd to start them again, only behind the
\* persistent pause, after their start was announced, and under the startup lock
\* until the journal says they run (startCleanLocalServices and
\* recoverCleanLocalStartup).
ServicesAreAccountedFor ==
    running \cup dead # {} =>
        /\ art[Admission] = "complete"
        /\ phase >= Intent(Startup)
        /\ phase = Intent(Startup) => Startup \in ilock

\* An installer that has created its lock is alone and still has it: nobody
\* removes the lock of a live installer, by recovering or by failing late.
LockIsExclusive ==
    \A i \in Steps :
        /\ \A p, q \in Holders(i) : p = q
        /\ Holders(i) # {} => i \in ilock

\* The staircase that an operator who reads only the journal relies on.
Stairs == INSTANCE StepwiseInstall WITH
    Steps <- 10, Skippable <- Owner, Services <- Units,
    level <- IF phase = -1 THEN 0 ELSE phase,
    built <- {i \in Installed : art[i] = "complete"},
    up <- running, lost <- dead

\* The installation implements the staircase: steps are announced, built and
\* confirmed one after the other, nothing built is lost, and the start is
\* confirmed only when all services have been started and none stopped since, so
\* that one that does not run at the rename has died by itself.
ImplementsStairs == Stairs!Spec

\* A controller that nothing disturbs runs the installation to its end.
UndisturbedInstallCompletes == phase = 0 ~> (ctl = "done" \/ alone = 0 \/ faults > 0)
=============================================================================
