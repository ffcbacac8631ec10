------------------------- MODULE CleanInstallProofs -------------------------
(***************************************************************************)
(* The invariants of CleanInstall and its refinement of StepwiseInstall,   *)
(* for any number of processes and faults.                                 *)
(*                                                                         *)
(* The inductive invariant is TypeOK /\ Core.  The proof has three layers: *)
(* the effects a step may have on files, services and scripts (Fx...), the *)
(* lemmas that each effect keeps Core (Keep...), and the lemmas that each  *)
(* action has one of the effects (...Effect).  The refinement uses the     *)
(* same effects.                                                           *)
(***************************************************************************)
EXTENDS CleanInstall, TLAPS

\* The places inside and just before advanceCleanInstallJournal.
JournalPlaces == {"advance", "held", "valid", "renamed"}
Has(p)        == op[p] = "install" /\ at[p] \notin {"idle", "checked"}
Recovers(p)   == op[p] \in {"recover", "retry"}

\* Which places belong to which script.
Shape ==
    \A p \in Procs :
        /\ op[p] = "none" <=> at[p] = "idle"
        /\ op[p] # "none" => stp[p] \in Steps /\ phase >= 0
        /\ op[p] = "intend" => at[p] \in JournalPlaces
        /\ op[p] = "install" =>
              /\ at[p] \in JournalPlaces \cup {"checked", "locked", "mutating", "advanced",
                                               "starting", "stopping"}
              /\ at[p] = "mutating" => stp[p] # Startup
              /\ at[p] \in {"starting", "stopping"} => stp[p] = Startup
        /\ Recovers(p) => at[p] \in JournalPlaces \cup {"recovering", "advanced", "closing"}
        /\ op[p] = "retry" => stp[p] = Startup /\ at[p] \in {"advanced", "closing"}

\* A script for a step runs after the step was announced.
Announced ==
    \A p \in Procs : op[p] = "install" \/ Recovers(p) =>
        phase >= Intent(stp[p]) /\ (stp[p] = Owner => auth = "oauth")

StaticSkips == auth = "static" => phase \notin {19, 20}

JournalHeld ==
    /\ \A p \in Procs : at[p] \in InJournal => jlock = "held"
    /\ \A p, q \in Procs : at[p] \in InJournal /\ at[q] \in InJournal => p = q

LockHeld ==
    /\ \A p \in Procs : Has(p) => stp[p] \in ilock
    /\ \A p, q \in Procs : Has(p) /\ Has(q) /\ stp[p] = stp[q] => p = q

\* A recovery works on a lock that no live installer holds, and is alone.
RecoveryAlone ==
    /\ \A p \in Procs : Recovers(p) => stp[p] \in rlock
    /\ \A p, q \in Procs : Recovers(p) /\ Recovers(q) /\ stp[p] = stp[q] => p = q
    /\ \A p, q \in Procs : Recovers(p) /\ at[p] # "closing" =>
          stp[p] \in ilock /\ ~(Has(q) /\ stp[q] = stp[p])

\* What a validated transition knows until it is committed.
ValidKnown ==
    \A p \in Procs : at[p] = "valid" =>
        /\ phase = Expected(p) /\ AuthMatches(Wanted(p))
        /\ op[p] # "intend" /\ stp[p] = Startup => running \cup dead = Units

Committed ==
    \A p \in Procs : at[p] \in {"renamed", "advanced"} /\ op[p] \in {"install", "recover"} =>
        phase >= Ready(stp[p])

Built ==
    \A p \in Procs : /\ at[p] \in JournalPlaces \cup {"advanced"}
                     /\ op[p] \in {"install", "recover"} /\ stp[p] # Startup
                     => art[stp[p]] = "complete"

\* What an installer finds when it has just taken its lock.
Fresh ==
    \A p \in Procs : at[p] = "locked" =>
        /\ stp[p] # Startup => art[stp[p]] \in {"absent", "complete"}
        /\ stp[p] = Startup => running \cup dead = {} \/ phase = Ready(Startup)

\* A start that has listed no unit has left nothing.
Starting ==
    \A p \in Procs : at[p] = "starting" =>
        phase = Intent(Startup) /\ (begun = 0 => running \cup dead = {})

USE DEF Identities, Config, UnitFiles, Data, ReleaseRoot, Promotion, Pointer, Systemd,
        Admission, Owner, Startup, Installed, Steps, Units, Intent, Ready

\* What one process may do, by its effect on the shared state: the actions of
\* CleanInstall are instances of these.
Shared == <<auth, phase, art, ilock, rlock, jlock, running, dead, begun>>
Moves(p, a, o, i) ==
    /\ at' = [at EXCEPT ![p] = a]
    /\ op' = [op EXCEPT ![p] = o]
    /\ stp' = [stp EXCEPT ![p] = i]
Leaves(p) == Moves(p, "idle", "none", 0)
\* The journal's lock changes only in the hands of the process that has it.
JournalOnly(p) ==
    /\ UNCHANGED <<auth, phase, art, ilock, rlock, running, dead, begun>>
    /\ jlock' \in {"free", "held", "left", "refused"}
    /\ at[p] \notin InJournal => jlock' = jlock

FxNothing(p) == UNCHANGED <<Shared, at, op, stp>>
FxAnnounce(p) ==
    \E i \in Steps : /\ at[p] = "idle" /\ phase >= 0
                    /\ Moves(p, "advance", "intend", i) /\ UNCHANGED Shared
FxBegin(p) ==
    \E i \in Steps : /\ at[p] = "idle" /\ phase = Intent(i) /\ (i = Owner => auth = "oauth")
                    /\ Moves(p, "checked", "install", i) /\ UNCHANGED Shared
FxLeave(p) == Leaves(p) /\ JournalOnly(p)
FxClose(p) == Recovers(p) /\ Moves(p, "closing", op[p], stp[p]) /\ JournalOnly(p)
FxStopping(p) ==
    /\ at[p] \in JournalPlaces \cup {"starting"} /\ op[p] = "install" /\ stp[p] = Startup
    /\ Moves(p, "stopping", op[p], stp[p]) /\ JournalOnly(p)
FxLockJournal(p) ==
    /\ at[p] = "advance" /\ jlock = "free" /\ jlock' = "held" /\ Moves(p, "held", op[p], stp[p])
    /\ UNCHANGED <<auth, phase, art, ilock, rlock, running, dead, begun>>
FxValidate(p) ==
    /\ at[p] = "held" /\ phase = Expected(p) /\ AuthMatches(Wanted(p))
    /\ op[p] # "intend" /\ stp[p] = Startup => running \cup dead = Units
    /\ Moves(p, "valid", op[p], stp[p]) /\ UNCHANGED Shared
FxRename(p) ==
    /\ at[p] = "valid" /\ phase' = Wanted(p) /\ Moves(p, "renamed", op[p], stp[p])
    /\ UNCHANGED <<auth, art, ilock, rlock, jlock, running, dead, begun>>
FxUnlock(p) ==
    /\ at[p] = "renamed" /\ op[p] # "intend" /\ Moves(p, "advanced", op[p], stp[p])
    /\ JournalOnly(p)
FxTake(p) ==
    /\ at[p] = "checked" /\ op[p] = "install" /\ stp[p] \notin ilock
    /\ ilock' = ilock \cup {stp[p]} /\ Moves(p, "locked", op[p], stp[p])
    /\ UNCHANGED <<auth, phase, art, rlock, jlock, running, dead, begun>>
FxMutating(p) ==
    /\ at[p] = "locked" /\ op[p] = "install" /\ stp[p] # Startup
    /\ Moves(p, "mutating", op[p], stp[p]) /\ UNCHANGED Shared
FxStarting(p) ==
    /\ at[p] = "locked" /\ op[p] = "install" /\ stp[p] = Startup /\ phase <= Intent(Startup)
    /\ running \cup dead = {}
    /\ Moves(p, "starting", op[p], stp[p])
    /\ UNCHANGED <<auth, phase, art, ilock, rlock, jlock, running, dead>> /\ begun' \in 0..3
FxDrop(p) ==
    /\ at[p] \in {"locked", "starting"} /\ op[p] = "install"
    /\ stp[p] = Startup => phase # Ready(Startup)
    /\ at[p] = "starting" => running \cup dead = {}
    /\ ilock' = ilock \ {stp[p]} /\ Leaves(p)
    /\ UNCHANGED <<auth, phase, art, rlock, jlock, running, dead, begun>>
FxMutate(p) ==
    /\ at[p] = "mutating" /\ op[p] = "install"
    /\ \E a \in Artefacts :
          /\ art' = [art EXCEPT ![stp[p]] = a]
          /\ art[stp[p]] = "complete" => a = "complete"
          /\ \/ a = "complete" /\ Moves(p, "advance", op[p], stp[p])
             \/ Moves(p, "mutating", op[p], stp[p])
             \/ Leaves(p)
    /\ UNCHANGED <<auth, phase, ilock, rlock, jlock, running, dead, begun>>
FxFinish(p) ==
    /\ at[p] = "advanced" /\ op[p] = "install" /\ ilock' = ilock \ {stp[p]} /\ Leaves(p)
    /\ UNCHANGED <<auth, phase, art, rlock, jlock, running, dead, begun>>
FxRecover(p) ==
    \E i \in Steps :
       /\ at[p] = "idle" /\ phase \in Intent(i)..Ready(i) /\ Abandoned(i) /\ i \notin rlock
       /\ rlock' = rlock \cup {i} /\ Moves(p, "recovering", "recover", i)
       /\ UNCHANGED <<auth, phase, art, ilock, jlock, running, dead, begun>>
FxInspect(p) ==
    /\ at[p] = "recovering" /\ op[p] = "recover"
    /\ stp[p] # Startup => art[stp[p]] = "complete"
    /\ \/ Moves(p, "advance", op[p], stp[p])
       \/ phase = Ready(stp[p]) /\ Moves(p, "advanced", op[p], stp[p])
       \/ stp[p] = Startup /\ Moves(p, "advanced", "retry", stp[p])
    /\ UNCHANGED Shared
FxPromotion(p) ==
    /\ at[p] = "recovering" /\ op[p] = "recover" /\ stp[p] = Promotion
    /\ art[Promotion] = "placed" /\ art' = [art EXCEPT ![Promotion] = "complete"]
    /\ UNCHANGED <<auth, phase, ilock, rlock, jlock, running, dead, begun, at, op, stp>>
FxRelease(p) ==
    /\ at[p] = "advanced" /\ Recovers(p) /\ Moves(p, "closing", op[p], stp[p])
    /\ op[p] = "retry" => running \cup dead = {}
    /\ ilock' = ilock \ {stp[p]}
    /\ UNCHANGED <<auth, phase, art, rlock, jlock, running, dead, begun>>
FxEnd(p) ==
    /\ at[p] = "closing" /\ rlock' = rlock \ {stp[p]} /\ Leaves(p)
    /\ UNCHANGED <<auth, phase, art, ilock, jlock, running, dead, begun>>
FxStartUnit(p) ==
    /\ at[p] = "starting" /\ art[Admission] = "complete"
    /\ begun' \in 1..3
    /\ \/ \E u \in Units : running' = running \cup {u} /\ dead' = dead \ {u}
       \/ UNCHANGED <<running, dead>>
    /\ Moves(p, "starting", op[p], stp[p]) \/ Moves(p, "stopping", op[p], stp[p])
    /\ UNCHANGED <<auth, phase, art, ilock, rlock, jlock>>
FxHealthy(p) ==
    /\ at[p] = "starting" /\ running = Units
    /\ Moves(p, "advance", op[p], stp[p]) /\ UNCHANGED Shared
FxStop(p) ==
    /\ at[p] = "stopping" /\ running' \subseteq running /\ dead' \subseteq dead /\ Leaves(p)
    /\ UNCHANGED <<auth, phase, art, ilock, rlock, jlock, begun>>
FxJournal(p) ==
    phase = -1 /\ phase' = 0 /\ UNCHANGED <<auth, art, ilock, rlock, jlock, running, dead, begun, at, op, stp>>

\* The inductive invariant, beside the types.
Core ==
    /\ Shape /\ Announced /\ StaticSkips /\ JournalHeld /\ LockHeld /\ RecoveryAlone
    /\ ValidKnown /\ Committed /\ Built /\ Fresh /\ Starting
    /\ JournalIsTruthful /\ PartialIsLocked /\ ServicesAreAccountedFor

\* A step that touches neither a file nor a service keeps the invariant.
LEMMA KeepNothing == ASSUME TypeOK, Core, NEW p \in Procs, FxNothing(p) PROVE Core'
<1> USE DEF FxNothing, Shared, Moves, Leaves, JournalOnly, Has, Recovers,
            JournalPlaces, InJournal
<1>1. Shape' /\ Announced' /\ StaticSkips' /\ JournalHeld' /\ LockHeld' /\
       RecoveryAlone' /\ Committed' /\ Built' /\ Fresh' /\ Starting' /\
       JournalIsTruthful' /\ PartialIsLocked' /\ ServicesAreAccountedFor'
  BY DEF Core, TypeOK, Shape, Announced, StaticSkips, JournalHeld, LockHeld,
         RecoveryAlone, Committed, Built, Fresh, Starting, JournalIsTruthful,
         PartialIsLocked, ServicesAreAccountedFor
<1>2. ValidKnown'
  BY DEF Core, TypeOK, ValidKnown, Expected, Wanted, Before, AuthMatches
<1> QED BY <1>1, <1>2 DEF Core

\* Starting to announce a step keeps the invariant.
LEMMA KeepAnnounce == ASSUME TypeOK, Core, NEW p \in Procs, FxAnnounce(p) PROVE Core'
<1> USE DEF FxAnnounce, Shared, Moves, Leaves, JournalOnly, Has, Recovers,
            JournalPlaces, InJournal
<1>1. Shape' /\ Announced' /\ StaticSkips' /\ JournalHeld' /\ LockHeld' /\
       RecoveryAlone' /\ Committed' /\ Built' /\ Fresh' /\ Starting' /\
       JournalIsTruthful' /\ PartialIsLocked' /\ ServicesAreAccountedFor'
  BY DEF Core, TypeOK, Shape, Announced, StaticSkips, JournalHeld, LockHeld,
         RecoveryAlone, Committed, Built, Fresh, Starting, JournalIsTruthful,
         PartialIsLocked, ServicesAreAccountedFor
<1>2. ValidKnown'
  BY DEF Core, TypeOK, ValidKnown, Expected, Wanted, Before, AuthMatches
<1> QED BY <1>1, <1>2 DEF Core

\* Starting an installer keeps the invariant.
LEMMA KeepBegin == ASSUME TypeOK, Core, NEW p \in Procs, FxBegin(p) PROVE Core'
<1> USE DEF FxBegin, Shared, Moves, Leaves, JournalOnly, Has, Recovers, JournalPlaces,
            InJournal
<1>1. Shape' /\ Announced' /\ StaticSkips' /\ JournalHeld' /\ LockHeld' /\
       RecoveryAlone' /\ Committed' /\ Built' /\ Fresh' /\ Starting' /\
       JournalIsTruthful' /\ PartialIsLocked' /\ ServicesAreAccountedFor'
  BY DEF Core, TypeOK, Shape, Announced, StaticSkips, JournalHeld, LockHeld,
         RecoveryAlone, Committed, Built, Fresh, Starting, JournalIsTruthful,
         PartialIsLocked, ServicesAreAccountedFor
<1>2. ValidKnown'
  BY DEF Core, TypeOK, ValidKnown, Expected, Wanted, Before, AuthMatches
<1> QED BY <1>1, <1>2 DEF Core

\* A script that ends, well or badly, and leaves every install lock as it is keeps the invariant.
LEMMA KeepLeave == ASSUME TypeOK, Core, NEW p \in Procs, FxLeave(p) PROVE Core'
<1> USE DEF FxLeave, Shared, Moves, Leaves, JournalOnly, Has, Recovers, JournalPlaces,
            InJournal
<1>1. Shape' /\ Announced' /\ StaticSkips' /\ JournalHeld' /\ LockHeld' /\
       RecoveryAlone' /\ Committed' /\ Built' /\ Fresh' /\ Starting' /\
       JournalIsTruthful' /\ PartialIsLocked' /\ ServicesAreAccountedFor'
  BY DEF Core, TypeOK, Shape, Announced, StaticSkips, JournalHeld, LockHeld,
         RecoveryAlone, Committed, Built, Fresh, Starting, JournalIsTruthful,
         PartialIsLocked, ServicesAreAccountedFor
<1>2. ValidKnown'
  BY DEF Core, TypeOK, ValidKnown, Expected, Wanted, Before, AuthMatches
<1> QED BY <1>1, <1>2 DEF Core

\* A recovery that gives up keeps the invariant.
LEMMA KeepClose == ASSUME TypeOK, Core, NEW p \in Procs, FxClose(p) PROVE Core'
<1> USE DEF FxClose, Shared, Moves, Leaves, JournalOnly, Has, Recovers, JournalPlaces,
            InJournal
<1>1. Shape' /\ Announced' /\ StaticSkips' /\ JournalHeld' /\ LockHeld' /\
       RecoveryAlone' /\ Committed' /\ Built' /\ Fresh' /\ Starting' /\
       JournalIsTruthful' /\ PartialIsLocked' /\ ServicesAreAccountedFor'
  BY DEF Core, TypeOK, Shape, Announced, StaticSkips, JournalHeld, LockHeld,
         RecoveryAlone, Committed, Built, Fresh, Starting, JournalIsTruthful,
         PartialIsLocked, ServicesAreAccountedFor
<1>2. ValidKnown'
  BY DEF Core, TypeOK, ValidKnown, Expected, Wanted, Before, AuthMatches
<1> QED BY <1>1, <1>2 DEF Core

\* A start that gives up keeps the invariant.
LEMMA KeepStopping == ASSUME TypeOK, Core, NEW p \in Procs, FxStopping(p) PROVE Core'
<1> USE DEF FxStopping, Shared, Moves, Leaves, JournalOnly, Has, Recovers,
            JournalPlaces, InJournal
<1>1. Shape' /\ Announced' /\ StaticSkips' /\ JournalHeld' /\ LockHeld' /\
       RecoveryAlone' /\ Committed' /\ Built' /\ Fresh' /\ Starting' /\
       JournalIsTruthful' /\ PartialIsLocked' /\ ServicesAreAccountedFor'
  BY DEF Core, TypeOK, Shape, Announced, StaticSkips, JournalHeld, LockHeld,
         RecoveryAlone, Committed, Built, Fresh, Starting, JournalIsTruthful,
         PartialIsLocked, ServicesAreAccountedFor
<1>2. ValidKnown'
  BY DEF Core, TypeOK, ValidKnown, Expected, Wanted, Before, AuthMatches
<1> QED BY <1>1, <1>2 DEF Core

\* Taking the journal's lock keeps the invariant.
LEMMA KeepLockJournal == ASSUME TypeOK, Core, NEW p \in Procs, FxLockJournal(p) PROVE Core'
<1> USE DEF FxLockJournal, Shared, Moves, Leaves, JournalOnly, Has, Recovers,
            JournalPlaces, InJournal
<1>1. Shape' /\ Announced' /\ StaticSkips' /\ JournalHeld' /\ LockHeld' /\
       RecoveryAlone' /\ Committed' /\ Built' /\ Fresh' /\ Starting' /\
       JournalIsTruthful' /\ PartialIsLocked' /\ ServicesAreAccountedFor'
  BY DEF Core, TypeOK, Shape, Announced, StaticSkips, JournalHeld, LockHeld,
         RecoveryAlone, Committed, Built, Fresh, Starting, JournalIsTruthful,
         PartialIsLocked, ServicesAreAccountedFor
<1>2. ValidKnown'
  BY DEF Core, TypeOK, ValidKnown, Expected, Wanted, Before, AuthMatches
<1> QED BY <1>1, <1>2 DEF Core

\* Passing the inspections of a transition keeps the invariant.
LEMMA KeepValidate == ASSUME TypeOK, Core, NEW p \in Procs, FxValidate(p) PROVE Core'
<1> USE DEF FxValidate, Shared, Moves, Leaves, JournalOnly, Has, Recovers,
            JournalPlaces, InJournal
<1>1. Shape'
  BY DEF Core, TypeOK, Shape, Expected, Wanted, Before, AuthMatches
<1>2. Announced'
  BY DEF Core, TypeOK, Announced, Expected, Wanted, Before, AuthMatches
<1>3. StaticSkips'
  BY DEF Core, TypeOK, StaticSkips, Expected, Wanted, Before, AuthMatches
<1>4. JournalHeld'
  BY DEF Core, TypeOK, JournalHeld, Expected, Wanted, Before, AuthMatches
<1>5. LockHeld'
  BY DEF Core, TypeOK, LockHeld, Expected, Wanted, Before, AuthMatches
<1>6. RecoveryAlone'
  BY DEF Core, TypeOK, RecoveryAlone, Expected, Wanted, Before, AuthMatches
<1>7. ValidKnown'
  BY DEF Core, TypeOK, ValidKnown, Expected, Wanted, Before, AuthMatches
<1>8. Committed'
  BY DEF Core, TypeOK, Committed, Expected, Wanted, Before, AuthMatches
<1>9. Built'
  BY DEF Core, TypeOK, Built, Expected, Wanted, Before, AuthMatches
<1>10. Fresh'
  BY DEF Core, TypeOK, Fresh, Expected, Wanted, Before, AuthMatches
<1>11. Starting'
  BY DEF Core, TypeOK, Starting, Expected, Wanted, Before, AuthMatches
<1>12. JournalIsTruthful'
  BY DEF Core, TypeOK, JournalIsTruthful, Expected, Wanted, Before, AuthMatches
<1>13. PartialIsLocked'
  BY DEF Core, TypeOK, PartialIsLocked, Expected, Wanted, Before, AuthMatches
<1>14. ServicesAreAccountedFor'
  BY DEF Core, TypeOK, ServicesAreAccountedFor, Expected, Wanted, Before, AuthMatches
<1> QED BY <1>1, <1>2, <1>3, <1>4, <1>5, <1>6, <1>7, <1>8, <1>9, <1>10, <1>11, <1>12,
           <1>13, <1>14 DEF Core

\* The rename that commits a transition keeps the invariant.
LEMMA KeepRename == ASSUME TypeOK, Core, NEW p \in Procs, FxRename(p) PROVE Core'
<1> USE DEF FxRename, Shared, Moves, Leaves, JournalOnly, Has, Recovers,
            JournalPlaces, InJournal
<1>1. Shape'
  BY DEF Core, TypeOK, Shape, Expected, Wanted, Before, AuthMatches
<1>2. Announced'
  BY DEF Core, TypeOK, Announced, Expected, Wanted, Before, AuthMatches, Shape,
         ValidKnown, StaticSkips, JournalHeld
<1>3. StaticSkips'
  BY DEF Core, TypeOK, StaticSkips, Expected, Wanted, Before, AuthMatches, Shape,
         ValidKnown, JournalHeld, Announced
<1>4. JournalHeld'
  BY DEF Core, TypeOK, JournalHeld, Expected, Wanted, Before, AuthMatches
<1>5. LockHeld'
  BY DEF Core, TypeOK, LockHeld, Expected, Wanted, Before, AuthMatches
<1>6. RecoveryAlone'
  BY DEF Core, TypeOK, RecoveryAlone, Expected, Wanted, Before, AuthMatches
<1>7. ValidKnown'
  BY DEF Core, TypeOK, ValidKnown, Expected, Wanted, Before, AuthMatches, Shape,
         JournalHeld, Announced
<1>8. Committed'
  BY DEF Core, TypeOK, Committed, Expected, Wanted, Before, AuthMatches, Shape,
         ValidKnown, StaticSkips, JournalHeld, Announced
<1>9. Built'
  BY DEF Core, TypeOK, Built, Expected, Wanted, Before, AuthMatches
<1>10. Fresh'
  BY DEF Core, TypeOK, Fresh, Expected, Wanted, Before, AuthMatches, Shape,
         ValidKnown, StaticSkips, JournalHeld, Announced
<1>11. Starting'
  <2> SUFFICES ASSUME NEW q \in Procs, at'[q] = "starting" PROVE FALSE
    BY DEF Starting
  <2>1. q # p /\ at[q] = "starting"
    BY DEF TypeOK
  <2>2. op[q] = "install" /\ stp[q] = Startup
    BY <2>1 DEF Core, Shape, TypeOK, Scripts
  <2>3. phase = 21 /\ phase = Expected(p)
    BY <2>1 DEF Core, Starting, ValidKnown
  <2>4. stp[p] \in 1..11 /\ op[p] \in Scripts \ {"none"}
    BY DEF Core, Shape, TypeOK, Scripts
  <2>5. op[p] # "intend" /\ stp[p] = Startup
    BY <2>3, <2>4 DEF Expected, Before
  <2> QED BY <2>1, <2>2, <2>4, <2>5 DEF Core, LockHeld, RecoveryAlone, Scripts
<1>12. JournalIsTruthful'
  <2> SUFFICES ASSUME NEW i \in Installed, phase' >= Ready(i), i = Owner => auth = "oauth"
               PROVE  art[i] = "complete"
    BY DEF JournalIsTruthful
  <2>1. phase = Expected(p) /\ phase' = Wanted(p)
    BY DEF Core, ValidKnown
  <2>2. stp[p] \in 1..11 /\ op[p] \in Scripts \ {"none"} /\ phase \in Int
    BY DEF Core, Shape, TypeOK, Scripts
  <2>3. CASE phase >= Ready(i)
    BY <2>3 DEF Core, JournalIsTruthful
  <2>4. CASE phase < Ready(i)
    <3>1. CASE op[p] = "intend"
      BY <2>1, <2>2, <2>4, <3>1 DEF Expected, Wanted, Before, Core, StaticSkips
    <3>2. CASE op[p] # "intend"
      <4>1. i = stp[p] /\ op[p] \in {"install", "recover"}
        BY <2>1, <2>2, <2>4, <3>2 DEF Expected, Wanted, Core, Shape, Scripts
      <4> QED BY <4>1 DEF Core, Built
    <3> QED BY <3>1, <3>2
  <2> QED BY <2>2, <2>3, <2>4
<1>13. PartialIsLocked'
  BY DEF Core, TypeOK, PartialIsLocked, Expected, Wanted, Before, AuthMatches
<1>14. ServicesAreAccountedFor'
  BY DEF Core, TypeOK, ServicesAreAccountedFor, Expected, Wanted, Before, AuthMatches,
         Shape, ValidKnown, StaticSkips, JournalHeld, Announced
<1> QED BY <1>1, <1>2, <1>3, <1>4, <1>5, <1>6, <1>7, <1>8, <1>9, <1>10, <1>11, <1>12,
           <1>13, <1>14 DEF Core

\* The end of a transition keeps the invariant.
LEMMA KeepUnlock == ASSUME TypeOK, Core, NEW p \in Procs, FxUnlock(p) PROVE Core'
<1> USE DEF FxUnlock, Shared, Moves, Leaves, JournalOnly, Has, Recovers,
            JournalPlaces, InJournal
<1>1. Shape' /\ Announced' /\ StaticSkips' /\ JournalHeld' /\ LockHeld' /\
       RecoveryAlone' /\ Committed' /\ Built' /\ Fresh' /\ Starting' /\
       JournalIsTruthful' /\ PartialIsLocked' /\ ServicesAreAccountedFor'
  BY DEF Core, TypeOK, Shape, Announced, StaticSkips, JournalHeld, LockHeld,
         RecoveryAlone, Committed, Built, Fresh, Starting, JournalIsTruthful,
         PartialIsLocked, ServicesAreAccountedFor
<1>2. ValidKnown'
  BY DEF Core, TypeOK, ValidKnown, Expected, Wanted, Before, AuthMatches
<1> QED BY <1>1, <1>2 DEF Core

\* Taking an install lock keeps the invariant.
LEMMA KeepTake == ASSUME TypeOK, Core, NEW p \in Procs, FxTake(p) PROVE Core'
<1> USE DEF FxTake, Shared, Moves, Leaves, JournalOnly, Has, Recovers, JournalPlaces,
            InJournal
<1>1. Shape' /\ Announced' /\ StaticSkips' /\ JournalHeld' /\ LockHeld' /\
       RecoveryAlone' /\ Committed' /\ Built' /\ Starting' /\ JournalIsTruthful' /\
       PartialIsLocked' /\ ServicesAreAccountedFor'
  BY DEF Core, TypeOK, Shape, Announced, StaticSkips, JournalHeld, LockHeld,
         RecoveryAlone, Committed, Built, Starting, JournalIsTruthful,
         PartialIsLocked, ServicesAreAccountedFor
<1>2. ValidKnown'
  BY DEF Core, TypeOK, ValidKnown, Expected, Wanted, Before, AuthMatches
<1>3. Fresh'
  BY DEF Core, TypeOK, Fresh, Shape, Announced, PartialIsLocked,
         ServicesAreAccountedFor, Artefacts
<1> QED BY <1>1, <1>2, <1>3 DEF Core

\* The last inspection before a change keeps the invariant.
LEMMA KeepMutating == ASSUME TypeOK, Core, NEW p \in Procs, FxMutating(p) PROVE Core'
<1> USE DEF FxMutating, Shared, Moves, Leaves, JournalOnly, Has, Recovers,
            JournalPlaces, InJournal
<1>1. Shape' /\ Announced' /\ StaticSkips' /\ JournalHeld' /\ LockHeld' /\
       RecoveryAlone' /\ Committed' /\ Built' /\ Fresh' /\ Starting' /\
       JournalIsTruthful' /\ PartialIsLocked' /\ ServicesAreAccountedFor'
  BY DEF Core, TypeOK, Shape, Announced, StaticSkips, JournalHeld, LockHeld,
         RecoveryAlone, Committed, Built, Fresh, Starting, JournalIsTruthful,
         PartialIsLocked, ServicesAreAccountedFor
<1>2. ValidKnown'
  BY DEF Core, TypeOK, ValidKnown, Expected, Wanted, Before, AuthMatches
<1> QED BY <1>1, <1>2 DEF Core

\* The last inspection before a start keeps the invariant.
LEMMA KeepStarting == ASSUME TypeOK, Core, NEW p \in Procs, FxStarting(p) PROVE Core'
<1> USE DEF FxStarting, Shared, Moves, Leaves, JournalOnly, Has, Recovers,
            JournalPlaces, InJournal
<1>1. Shape' /\ Announced' /\ StaticSkips' /\ JournalHeld' /\ LockHeld' /\
       RecoveryAlone' /\ Committed' /\ Built' /\ Fresh' /\ JournalIsTruthful' /\
       PartialIsLocked' /\ ServicesAreAccountedFor'
  BY DEF Core, TypeOK, Shape, Announced, StaticSkips, JournalHeld, LockHeld,
         RecoveryAlone, Committed, Built, Fresh, JournalIsTruthful, PartialIsLocked,
         ServicesAreAccountedFor
<1>2. ValidKnown'
  BY DEF Core, TypeOK, ValidKnown, Expected, Wanted, Before, AuthMatches
<1>3. Starting'
  BY DEF Core, TypeOK, Starting, Shape, Announced
<1> QED BY <1>1, <1>2, <1>3 DEF Core

\* An installer that fails before its first change and takes its lock away keeps the invariant.
LEMMA KeepDrop == ASSUME TypeOK, Core, NEW p \in Procs, FxDrop(p) PROVE Core'
<1> USE DEF FxDrop, Shared, Moves, Leaves, JournalOnly, Has, Recovers, JournalPlaces,
            InJournal
<1>1. Shape' /\ Announced' /\ StaticSkips' /\ JournalHeld' /\ LockHeld' /\
       RecoveryAlone' /\ Committed' /\ Built' /\ Fresh' /\ Starting' /\
       JournalIsTruthful'
  BY DEF Core, TypeOK, Shape, Announced, StaticSkips, JournalHeld, LockHeld,
         RecoveryAlone, Committed, Built, Fresh, Starting, JournalIsTruthful
<1>2. ValidKnown'
  BY DEF Core, TypeOK, ValidKnown, Expected, Wanted, Before, AuthMatches
<1>3. PartialIsLocked'
  BY DEF Core, TypeOK, PartialIsLocked, Fresh, Shape
<1>4. ServicesAreAccountedFor'
  BY DEF Core, TypeOK, ServicesAreAccountedFor, Fresh, Shape, Starting
<1> QED BY <1>1, <1>2, <1>3, <1>4 DEF Core

\* One system call of an installer keeps the invariant.
LEMMA KeepMutate == ASSUME TypeOK, Core, NEW p \in Procs, FxMutate(p) PROVE Core'
<1> USE DEF FxMutate, Shared, Moves, Leaves, JournalOnly, Has, Recovers,
            JournalPlaces, InJournal
<1>1. Shape'
  BY DEF Core, TypeOK, Shape, Artefacts
<1>2. Announced'
  BY DEF Core, TypeOK, Announced, Artefacts
<1>3. StaticSkips'
  BY DEF Core, TypeOK, StaticSkips, Artefacts
<1>4. JournalHeld'
  BY DEF Core, TypeOK, JournalHeld, Artefacts
<1>5. LockHeld'
  BY DEF Core, TypeOK, LockHeld, Artefacts
<1>6. RecoveryAlone'
  BY DEF Core, TypeOK, RecoveryAlone, Artefacts
<1>7. ValidKnown'
  BY DEF Core, TypeOK, ValidKnown, Expected, Wanted, Before, AuthMatches, Artefacts
<1>8. Committed'
  BY DEF Core, TypeOK, Committed, Artefacts
<1>9. Built'
  BY DEF Core, TypeOK, Built, Artefacts, Shape
<1>10. Fresh'
  <2> SUFFICES ASSUME NEW q \in Procs, at'[q] = "locked"
               PROVE  /\ stp'[q] # Startup => art'[stp'[q]] \in {"absent", "complete"}
                      /\ stp'[q] = Startup => running' \cup dead' = {} \/ phase' = Ready(Startup)
    BY DEF Fresh
  <2>1. q # p /\ at[q] = "locked" /\ stp'[q] = stp[q] /\ op'[q] = op[q]
    BY DEF TypeOK
  <2>2. op[q] = "install" /\ stp[q] \in Steps
    BY <2>1 DEF Core, Shape, TypeOK, Scripts
  <2>3. stp[q] # stp[p]
    BY <2>1, <2>2 DEF Core, LockHeld
  <2> QED BY <2>1, <2>2, <2>3 DEF Core, Fresh, TypeOK
<1>11. Starting'
  BY DEF Core, TypeOK, Starting, Artefacts
<1>12. JournalIsTruthful'
  BY DEF Core, TypeOK, JournalIsTruthful, Artefacts
<1>13. PartialIsLocked'
  BY DEF Core, TypeOK, PartialIsLocked, Artefacts, Shape, LockHeld, RecoveryAlone
<1>14. ServicesAreAccountedFor'
  BY DEF Core, TypeOK, ServicesAreAccountedFor, Artefacts
<1> QED BY <1>1, <1>2, <1>3, <1>4, <1>5, <1>6, <1>7, <1>8, <1>9, <1>10, <1>11, <1>12,
           <1>13, <1>14 DEF Core

\* An installer that removes its lock when the journal has advanced keeps the invariant.
LEMMA KeepFinish == ASSUME TypeOK, Core, NEW p \in Procs, FxFinish(p) PROVE Core'
<1> USE DEF FxFinish, Shared, Moves, Leaves, JournalOnly, Has, Recovers,
            JournalPlaces, InJournal
<1>1. Shape' /\ Announced' /\ StaticSkips' /\ JournalHeld' /\ LockHeld' /\
       RecoveryAlone' /\ Committed' /\ Built' /\ Fresh' /\ Starting' /\
       JournalIsTruthful'
  BY DEF Core, TypeOK, Shape, Announced, StaticSkips, JournalHeld, LockHeld,
         RecoveryAlone, Committed, Built, Fresh, Starting, JournalIsTruthful
<1>2. ValidKnown'
  BY DEF Core, TypeOK, ValidKnown, Expected, Wanted, Before, AuthMatches
<1>3. PartialIsLocked'
  BY DEF Core, TypeOK, PartialIsLocked, Built, Shape
<1>4. ServicesAreAccountedFor'
  BY DEF Core, TypeOK, ServicesAreAccountedFor, Committed, Shape
<1> QED BY <1>1, <1>2, <1>3, <1>4 DEF Core

\* Starting a recovery keeps the invariant.
LEMMA KeepRecover == ASSUME TypeOK, Core, NEW p \in Procs, FxRecover(p) PROVE Core'
<1> USE DEF FxRecover, Shared, Moves, Leaves, JournalOnly, Has, Recovers,
            JournalPlaces, InJournal
<1>1. Shape'
  BY DEF Core, TypeOK, Shape, Abandoned, Holders, Runs
<1>2. Announced'
  BY DEF Core, TypeOK, Announced, Abandoned, Holders, Runs, Shape, ValidKnown,
         StaticSkips, JournalHeld, Expected, Wanted, Before, AuthMatches
<1>3. StaticSkips'
  BY DEF Core, TypeOK, StaticSkips, Abandoned, Holders, Runs
<1>4. JournalHeld'
  BY DEF Core, TypeOK, JournalHeld, Abandoned, Holders, Runs
<1>5. LockHeld'
  BY DEF Core, TypeOK, LockHeld, Abandoned, Holders, Runs
<1>6. RecoveryAlone'
  BY DEF Core, TypeOK, RecoveryAlone, Abandoned, Holders, Runs
<1>7. ValidKnown'
  BY DEF Core, TypeOK, ValidKnown, Expected, Wanted, Before, AuthMatches, Abandoned,
         Holders, Runs
<1>8. Committed'
  BY DEF Core, TypeOK, Committed, Abandoned, Holders, Runs
<1>9. Built'
  BY DEF Core, TypeOK, Built, Abandoned, Holders, Runs
<1>10. Fresh'
  BY DEF Core, TypeOK, Fresh, Abandoned, Holders, Runs
<1>11. Starting'
  BY DEF Core, TypeOK, Starting, Abandoned, Holders, Runs
<1>12. JournalIsTruthful'
  BY DEF Core, TypeOK, JournalIsTruthful, Abandoned, Holders, Runs
<1>13. PartialIsLocked'
  BY DEF Core, TypeOK, PartialIsLocked, Abandoned, Holders, Runs
<1>14. ServicesAreAccountedFor'
  BY DEF Core, TypeOK, ServicesAreAccountedFor, Abandoned, Holders, Runs
<1> QED BY <1>1, <1>2, <1>3, <1>4, <1>5, <1>6, <1>7, <1>8, <1>9, <1>10, <1>11, <1>12,
           <1>13, <1>14 DEF Core

\* Passing the inspections of a recovery keeps the invariant.
LEMMA KeepInspect == ASSUME TypeOK, Core, NEW p \in Procs, FxInspect(p) PROVE Core'
<1> USE DEF FxInspect, Shared, Moves, Leaves, JournalOnly, Has, Recovers,
            JournalPlaces, InJournal
<1>1. Shape' /\ Announced' /\ StaticSkips' /\ JournalHeld' /\ LockHeld' /\
       RecoveryAlone' /\ Committed' /\ Built' /\ Fresh' /\ Starting' /\
       JournalIsTruthful' /\ PartialIsLocked' /\ ServicesAreAccountedFor'
  BY DEF Core, TypeOK, Shape, Announced, StaticSkips, JournalHeld, LockHeld,
         RecoveryAlone, Committed, Built, Fresh, Starting, JournalIsTruthful,
         PartialIsLocked, ServicesAreAccountedFor
<1>2. ValidKnown'
  BY DEF Core, TypeOK, ValidKnown, Expected, Wanted, Before, AuthMatches
<1> QED BY <1>1, <1>2 DEF Core

\* Removing the lock directory of an interrupted promotion keeps the invariant.
LEMMA KeepPromotion == ASSUME TypeOK, Core, NEW p \in Procs, FxPromotion(p) PROVE Core'
<1> USE DEF FxPromotion, Shared, Moves, Leaves, JournalOnly, Has, Recovers,
            JournalPlaces, InJournal
<1>1. Shape'
  BY DEF Core, TypeOK, Shape, Artefacts
<1>2. Announced'
  BY DEF Core, TypeOK, Announced, Artefacts
<1>3. StaticSkips'
  BY DEF Core, TypeOK, StaticSkips, Artefacts
<1>4. JournalHeld'
  BY DEF Core, TypeOK, JournalHeld, Artefacts
<1>5. LockHeld'
  BY DEF Core, TypeOK, LockHeld, Artefacts
<1>6. RecoveryAlone'
  BY DEF Core, TypeOK, RecoveryAlone, Artefacts
<1>7. ValidKnown'
  BY DEF Core, TypeOK, ValidKnown, Expected, Wanted, Before, AuthMatches, Artefacts
<1>8. Committed'
  BY DEF Core, TypeOK, Committed, Artefacts
<1>9. Built'
  BY DEF Core, TypeOK, Built, Artefacts
<1>10. Fresh'
  BY DEF Core, TypeOK, Fresh, Artefacts
<1>11. Starting'
  BY DEF Core, TypeOK, Starting, Artefacts
<1>12. JournalIsTruthful'
  BY DEF Core, TypeOK, JournalIsTruthful, Artefacts
<1>13. PartialIsLocked'
  BY DEF Core, TypeOK, PartialIsLocked, Artefacts
<1>14. ServicesAreAccountedFor'
  BY DEF Core, TypeOK, ServicesAreAccountedFor, Artefacts
<1> QED BY <1>1, <1>2, <1>3, <1>4, <1>5, <1>6, <1>7, <1>8, <1>9, <1>10, <1>11, <1>12,
           <1>13, <1>14 DEF Core

\* A recovery that removes the install lock keeps the invariant.
LEMMA KeepRelease == ASSUME TypeOK, Core, NEW p \in Procs, FxRelease(p) PROVE Core'
<1> USE DEF FxRelease, Shared, Moves, Leaves, JournalOnly, Has, Recovers,
            JournalPlaces, InJournal
<1>1. Shape' /\ Announced' /\ StaticSkips' /\ JournalHeld' /\ RecoveryAlone' /\
       Committed' /\ Built' /\ Fresh' /\ Starting' /\ JournalIsTruthful'
  BY DEF Core, TypeOK, Shape, Announced, StaticSkips, JournalHeld, RecoveryAlone,
         Committed, Built, Fresh, Starting, JournalIsTruthful
<1>2. LockHeld'
  BY DEF Core, TypeOK, LockHeld, Shape, RecoveryAlone
<1>3. ValidKnown'
  BY DEF Core, TypeOK, ValidKnown, Expected, Wanted, Before, AuthMatches
<1>4. PartialIsLocked'
  BY DEF Core, TypeOK, PartialIsLocked, Built, Shape
<1>5. ServicesAreAccountedFor'
  <2>1. op[p] = "recover" => phase >= Ready(stp[p])
    BY DEF Core, Committed
  <2>2. stp[p] \in Steps
    BY DEF Core, Shape, TypeOK
  <2>3. CASE stp[p] = Startup /\ op[p] = "recover"
    BY <2>1, <2>3 DEF Core, ServicesAreAccountedFor, TypeOK
  <2>4. CASE op[p] = "retry"
    BY <2>4 DEF Core, ServicesAreAccountedFor
  <2>5. CASE stp[p] # Startup
    BY <2>2, <2>5 DEF Core, ServicesAreAccountedFor
  <2> QED BY <2>3, <2>4, <2>5
<1> QED BY <1>1, <1>2, <1>3, <1>4, <1>5 DEF Core

\* The end of a recovery keeps the invariant.
LEMMA KeepEnd == ASSUME TypeOK, Core, NEW p \in Procs, FxEnd(p) PROVE Core'
<1> USE DEF FxEnd, Shared, Moves, Leaves, JournalOnly, Has, Recovers, JournalPlaces,
            InJournal
<1>1. Shape' /\ Announced' /\ StaticSkips' /\ JournalHeld' /\ LockHeld' /\ Committed' /\
       Built' /\ Fresh' /\ Starting' /\ JournalIsTruthful' /\ PartialIsLocked' /\
       ServicesAreAccountedFor'
  BY DEF Core, TypeOK, Shape, Announced, StaticSkips, JournalHeld, LockHeld,
         Committed, Built, Fresh, Starting, JournalIsTruthful, PartialIsLocked,
         ServicesAreAccountedFor
<1>2. RecoveryAlone'
  <2>1. Recovers(p)
    BY DEF Core, Shape, TypeOK, Scripts
  <2>2. \A q \in Procs : q # p =>
           at'[q] = at[q] /\ op'[q] = op[q] /\ stp'[q] = stp[q]
    BY DEF TypeOK
  <2>3. op'[p] = "none"
    BY DEF TypeOK
  <2>4. \A q \in Procs : q # p /\ Recovers(q) => stp[q] # stp[p]
    BY <2>1 DEF Core, RecoveryAlone
  <2> HIDE DEF FxEnd, Leaves, Moves
  <2>5. rlock' = rlock \ {stp[p]} /\ ilock' = ilock
    BY DEF FxEnd
  <2> QED BY <2>2, <2>3, <2>4, <2>5 DEF Core, RecoveryAlone
<1>3. ValidKnown'
  BY DEF Core, TypeOK, ValidKnown, Expected, Wanted, Before, AuthMatches
<1> QED BY <1>1, <1>2, <1>3 DEF Core

\* Starting one unit keeps the invariant.
LEMMA KeepStartUnit == ASSUME TypeOK, Core, NEW p \in Procs, FxStartUnit(p) PROVE Core'
<1> USE DEF FxStartUnit, Shared, Moves, Leaves, JournalOnly, Has, Recovers,
            JournalPlaces, InJournal
<1>1. Shape' /\ Announced' /\ StaticSkips' /\ JournalHeld' /\ LockHeld' /\
       RecoveryAlone' /\ Committed' /\ Built' /\ Starting' /\ JournalIsTruthful' /\
       PartialIsLocked'
  BY DEF Core, TypeOK, Shape, Announced, StaticSkips, JournalHeld, LockHeld,
         RecoveryAlone, Committed, Built, Starting, JournalIsTruthful, PartialIsLocked
<1>2. ValidKnown'
  BY DEF Core, TypeOK, ValidKnown, Expected, Wanted, Before, AuthMatches
<1>3. Fresh'
  <2> SUFFICES ASSUME NEW q \in Procs, at'[q] = "locked"
               PROVE  /\ stp'[q] # Startup => art'[stp'[q]] \in {"absent", "complete"}
                      /\ stp'[q] = Startup => running' \cup dead' = {} \/ phase' = Ready(Startup)
    BY DEF Fresh
  <2>1. q # p /\ at[q] = "locked" /\ stp'[q] = stp[q]
    BY DEF TypeOK
  <2>2. op[q] = "install" /\ op[p] = "install" /\ stp[p] = Startup
    BY <2>1 DEF Core, Shape, TypeOK, Scripts
  <2>3. stp[q] # Startup
    BY <2>1, <2>2 DEF Core, LockHeld
  <2> QED BY <2>1, <2>3 DEF Core, Fresh
<1>4. ServicesAreAccountedFor'
  <2>1. op[p] = "install" /\ stp[p] = Startup
    BY DEF Core, Shape, TypeOK, Scripts
  <2>2. Startup \in ilock /\ phase = Intent(Startup)
    BY <2>1 DEF Core, LockHeld, Starting
  <2> QED BY <2>2 DEF ServicesAreAccountedFor, TypeOK
<1> QED BY <1>1, <1>2, <1>3, <1>4 DEF Core

\* The health check of a start keeps the invariant.
LEMMA KeepHealthy == ASSUME TypeOK, Core, NEW p \in Procs, FxHealthy(p) PROVE Core'
<1> USE DEF FxHealthy, Shared, Moves, Leaves, JournalOnly, Has, Recovers,
            JournalPlaces, InJournal
<1>1. Shape' /\ Announced' /\ StaticSkips' /\ JournalHeld' /\ LockHeld' /\
       RecoveryAlone' /\ Committed' /\ Fresh' /\ Starting' /\ JournalIsTruthful' /\
       PartialIsLocked' /\ ServicesAreAccountedFor'
  BY DEF Core, TypeOK, Shape, Announced, StaticSkips, JournalHeld, LockHeld,
         RecoveryAlone, Committed, Fresh, Starting, JournalIsTruthful,
         PartialIsLocked, ServicesAreAccountedFor
<1>2. ValidKnown'
  BY DEF Core, TypeOK, ValidKnown, Expected, Wanted, Before, AuthMatches
<1>3. Built'
  BY DEF Core, TypeOK, Built, Shape
<1> QED BY <1>1, <1>2, <1>3 DEF Core

\* Stopping what was started keeps the invariant.
LEMMA KeepStop == ASSUME TypeOK, Core, NEW p \in Procs, FxStop(p) PROVE Core'
<1> USE DEF FxStop, Shared, Moves, Leaves, JournalOnly, Has, Recovers, JournalPlaces,
            InJournal
<1>1. Shape'
  BY DEF Core, TypeOK, Shape
<1>2. Announced'
  BY DEF Core, TypeOK, Announced
<1>3. StaticSkips'
  BY DEF Core, TypeOK, StaticSkips
<1>4. JournalHeld'
  BY DEF Core, TypeOK, JournalHeld
<1>5. LockHeld'
  BY DEF Core, TypeOK, LockHeld
<1>6. RecoveryAlone'
  BY DEF Core, TypeOK, RecoveryAlone
<1>7. ValidKnown'
  <2> SUFFICES ASSUME NEW q \in Procs, at'[q] = "valid"
               PROVE  /\ phase' = Expected(q)' /\ AuthMatches(Wanted(q))'
                      /\ op'[q] # "intend" /\ stp'[q] = Startup => running' \cup dead' = Units
    BY DEF ValidKnown
  <2>1. q # p /\ at[q] = "valid" /\ stp'[q] = stp[q] /\ op'[q] = op[q]
    BY DEF TypeOK
  <2>2. op[p] = "install" /\ stp[p] = Startup /\ op[q] \in Scripts \ {"none"}
    BY <2>1 DEF Core, Shape, TypeOK, Scripts
  <2>3. op[q] # "intend" => stp[q] # Startup
    BY <2>1, <2>2 DEF Core, LockHeld, RecoveryAlone, Scripts
  <2>4. phase' = Expected(q)' /\ AuthMatches(Wanted(q))'
    BY <2>1 DEF Core, ValidKnown, Expected, Wanted, Before, AuthMatches
  <2> QED BY <2>1, <2>3, <2>4
<1>8. Committed'
  BY DEF Core, TypeOK, Committed
<1>9. Built'
  BY DEF Core, TypeOK, Built
<1>10. Fresh'
  BY DEF Core, TypeOK, Fresh
<1>11. Starting'
  BY DEF Core, TypeOK, Starting
<1>12. JournalIsTruthful'
  BY DEF Core, TypeOK, JournalIsTruthful
<1>13. PartialIsLocked'
  BY DEF Core, TypeOK, PartialIsLocked
<1>14. ServicesAreAccountedFor'
  BY DEF Core, TypeOK, ServicesAreAccountedFor
<1> QED BY <1>1, <1>2, <1>3, <1>4, <1>5, <1>6, <1>7, <1>8, <1>9, <1>10, <1>11, <1>12,
           <1>13, <1>14 DEF Core

\* Creating the journal keeps the invariant.
LEMMA KeepJournal == ASSUME TypeOK, Core, NEW p \in Procs, FxJournal(p) PROVE Core'
<1> USE DEF FxJournal, Shared, Moves, Leaves, JournalOnly, Has, Recovers,
            JournalPlaces, InJournal
<1>1. Shape' /\ Announced' /\ StaticSkips' /\ JournalHeld' /\ LockHeld' /\
       RecoveryAlone' /\ Committed' /\ Built' /\ Fresh' /\ Starting' /\
       JournalIsTruthful' /\ PartialIsLocked' /\ ServicesAreAccountedFor'
  BY DEF Core, TypeOK, Shape, Announced, StaticSkips, JournalHeld, LockHeld,
         RecoveryAlone, Committed, Built, Fresh, Starting, JournalIsTruthful,
         PartialIsLocked, ServicesAreAccountedFor
<1>2. ValidKnown'
  BY DEF Core, TypeOK, ValidKnown, Expected, Wanted, Before, AuthMatches, Shape
<1> QED BY <1>1, <1>2 DEF Core

-----------------------------------------------------------------------------
(***************************************************************************)
(* Every action has one of these effects.                                  *)
(***************************************************************************)
Effect(p) ==
    \/ FxNothing(p) \/ FxAnnounce(p) \/ FxBegin(p) \/ FxLeave(p) \/ FxClose(p)
    \/ FxStopping(p) \/ FxLockJournal(p) \/ FxValidate(p) \/ FxRename(p) \/ FxUnlock(p)
    \/ FxTake(p) \/ FxMutating(p) \/ FxStarting(p) \/ FxDrop(p) \/ FxMutate(p)
    \/ FxFinish(p) \/ FxRecover(p) \/ FxInspect(p) \/ FxPromotion(p) \/ FxRelease(p)
    \/ FxEnd(p) \/ FxStartUnit(p) \/ FxHealthy(p) \/ FxStop(p) \/ FxJournal(p)

\* A service that dies or is restarted by systemd keeps the invariant.
FxService ==
    /\ running' \cup dead' = running \cup dead
    /\ running' \subseteq Units /\ dead' \subseteq Units
    /\ UNCHANGED <<auth, phase, art, ilock, rlock, jlock, begun, at, op, stp>>

LEMMA KeepService == ASSUME TypeOK, Core, FxService PROVE Core'
<1> USE DEF FxService
<1>1. Shape' /\ Announced' /\ StaticSkips' /\ JournalHeld' /\ LockHeld' /\
       RecoveryAlone' /\ Committed' /\ Built' /\ JournalIsTruthful' /\ PartialIsLocked'
  BY DEF Core, Shape, Announced, StaticSkips, JournalHeld, LockHeld, RecoveryAlone, Committed,
         Built, JournalIsTruthful, PartialIsLocked, Has, Recovers, InJournal, JournalPlaces
<1>2. Fresh' /\ Starting' /\ ServicesAreAccountedFor'
  BY DEF Core, Fresh, Starting, ServicesAreAccountedFor
<1>3. ValidKnown'
  BY DEF Core, ValidKnown, Expected, Wanted, Before, AuthMatches
<1> QED BY <1>1, <1>2, <1>3 DEF Core

\* Every effect keeps the invariant.
LEMMA EffectKeeps == ASSUME TypeOK, Core, NEW p \in Procs, Effect(p) PROVE Core'
BY KeepNothing, KeepAnnounce, KeepBegin, KeepLeave, KeepClose, KeepStopping,
   KeepLockJournal, KeepValidate, KeepRename, KeepUnlock, KeepTake, KeepMutating,
   KeepStarting, KeepDrop, KeepMutate, KeepFinish, KeepRecover, KeepInspect,
   KeepPromotion, KeepRelease, KeepEnd, KeepStartUnit, KeepHealthy, KeepStop,
   KeepJournal DEF Effect

\* The part of the type invariant that is about the files, services and scripts.
Typed ==
    /\ auth \in {"static", "oauth"} /\ phase \in -1..22
    /\ art \in [Installed -> Artefacts]
    /\ ilock \subseteq Steps /\ rlock \subseteq Steps
    /\ jlock \in {"free", "held", "left", "refused"}
    /\ running \subseteq Units /\ dead \subseteq Units /\ begun \in 0..3
    /\ at \in [Procs -> Places] /\ op \in [Procs -> Scripts] /\ stp \in [Procs -> 0..11]

\* The rest of it: the history, the controller and the count of faults.
Booked ==
    /\ used \subseteq Units
    /\ ctl \in Procs \cup {"none", "done"} /\ cphase \in Nat
    /\ ctl \notin Procs => cphase = 0
    /\ alone \in 0..1 /\ faults \in 0..MaxFaults

\* An effect keeps files, services and scripts well typed.
LEMMA EffectTyped == ASSUME TypeOK, Core, NEW p \in Procs, Effect(p) PROVE Typed'
<1> USE DEF TypeOK, Typed, Shared, Moves, Leaves, JournalOnly, Places, Scripts
<1>0. stp[p] \in 0..11 /\ (op[p] # "none" => stp[p] \in Steps)
  BY DEF Core, Shape
<1>1. CASE FxNothing(p) BY <1>1 DEF FxNothing
<1>2. CASE FxAnnounce(p) BY <1>2 DEF FxAnnounce
<1>3. CASE FxBegin(p) BY <1>3 DEF FxBegin
<1>4. CASE FxLeave(p) BY <1>4 DEF FxLeave
<1>5. CASE FxClose(p) BY <1>0, <1>5 DEF FxClose
<1>6. CASE FxStopping(p) BY <1>0, <1>6 DEF FxStopping
<1>7. CASE FxLockJournal(p) BY <1>0, <1>7 DEF FxLockJournal
<1>8. CASE FxValidate(p) BY <1>0, <1>8 DEF FxValidate
<1>9. CASE FxRename(p)
  <2>1. stp[p] \in Steps
    BY <1>0, <1>9 DEF FxRename, Core, Shape
  <2>2. Wanted(p) \in -1..22
    BY <2>1 DEF Wanted
  <2> QED BY <1>0, <1>9, <2>2 DEF FxRename
<1>10. CASE FxUnlock(p) BY <1>0, <1>10 DEF FxUnlock
<1>11. CASE FxTake(p)
  <2>1. ilock' \subseteq Steps BY <1>0, <1>11 DEF FxTake, Has, Core, Shape
  <2> QED BY <1>0, <1>11, <2>1 DEF FxTake
<1>12. CASE FxMutating(p) BY <1>0, <1>12 DEF FxMutating
<1>13. CASE FxStarting(p) BY <1>0, <1>13 DEF FxStarting
<1>14. CASE FxDrop(p)
  <2>1. ilock' \subseteq Steps BY <1>0, <1>14 DEF FxDrop, Has, Core, Shape
  <2> QED BY <1>0, <1>14, <2>1 DEF FxDrop
<1>15. CASE FxMutate(p)
  <2>1. art' \in [Installed -> Artefacts] BY <1>15 DEF FxMutate
  <2>2. /\ at' \in [Procs -> Places] /\ op' \in [Procs -> Scripts]
        /\ stp' \in [Procs -> 0..11]
    BY <1>0, <1>15 DEF FxMutate
  <2> QED BY <1>15, <2>1, <2>2 DEF FxMutate
<1>16. CASE FxFinish(p)
  <2>1. ilock' \subseteq Steps BY <1>0, <1>16 DEF FxFinish, Has, Core, Shape
  <2> QED BY <1>0, <1>16, <2>1 DEF FxFinish
<1>17. CASE FxRecover(p) BY <1>17 DEF FxRecover
<1>18. CASE FxInspect(p) BY <1>0, <1>18 DEF FxInspect
<1>19. CASE FxPromotion(p) BY <1>19 DEF FxPromotion, Artefacts
<1>20. CASE FxRelease(p)
  <2>1. ilock' \subseteq Steps BY <1>0, <1>20 DEF FxRelease, Has, Core, Shape
  <2> QED BY <1>0, <1>20, <2>1 DEF FxRelease
<1>21. CASE FxEnd(p)
  <2>1. rlock' \subseteq Steps BY <1>21 DEF FxEnd
  <2> QED BY <1>21, <2>1 DEF FxEnd
<1>22. CASE FxStartUnit(p)
  <2>1. running' \subseteq Units /\ dead' \subseteq Units /\ begun' \in 0..3
    <3>1. \/ \E u \in Units : running' = running \cup {u} /\ dead' = dead \ {u}
          \/ running' = running /\ dead' = dead
      BY <1>22 DEF FxStartUnit
    <3>2. begun' \in 0..3 BY <1>22 DEF FxStartUnit
    <3>3. running' \subseteq Units BY <3>1
    <3>4. dead' \subseteq Units BY <3>1
    <3> QED BY <3>2, <3>3, <3>4
  <2>2. /\ at' \in [Procs -> Places] /\ op' \in [Procs -> Scripts]
        /\ stp' \in [Procs -> 0..11]
    BY <1>0, <1>22 DEF FxStartUnit
  <2> QED BY <1>22, <2>1, <2>2 DEF FxStartUnit
<1>23. CASE FxHealthy(p) BY <1>0, <1>23 DEF FxHealthy
<1>24. CASE FxStop(p) BY <1>24 DEF FxStop
<1>25. CASE FxJournal(p) BY <1>25 DEF FxJournal
<1> QED BY <1>1, <1>2, <1>3, <1>4, <1>5, <1>6, <1>7, <1>8, <1>9, <1>10, <1>11, <1>12, <1>13,
           <1>14, <1>15, <1>16, <1>17, <1>18, <1>19, <1>20, <1>21, <1>22, <1>23, <1>24, <1>25
        DEF Effect

\* What a script is doing at a place, from Shape.
LEMMA Whereabouts ==
    ASSUME TypeOK, Core, NEW p \in Procs
    PROVE  /\ at[p] \in {"starting", "stopping"} => op[p] = "install" /\ stp[p] = Startup
           /\ at[p] \in InJournal \cup {"advance"} => op[p] \in {"intend", "install", "recover"}
           /\ at[p] = "closing" => Recovers(p)
           /\ at[p] # "idle" => stp[p] \in Steps
<1>1. op[p] \in Scripts BY DEF TypeOK
<1>2. /\ at[p] \in {"starting", "stopping"} => op[p] = "install" /\ stp[p] = Startup
      /\ at[p] # "idle" => stp[p] \in Steps
  BY <1>1 DEF Core, Shape, Scripts, JournalPlaces, Recovers
<1>3. at[p] \in InJournal \cup {"advance"} => op[p] \in {"intend", "install", "recover"}
  BY <1>1 DEF Core, Shape, Scripts, JournalPlaces, InJournal, Recovers
<1>4. at[p] = "closing" => Recovers(p)
  BY <1>1 DEF Core, Shape, Scripts, JournalPlaces, Recovers
<1> QED BY <1>2, <1>3, <1>4

\* advanceCleanInstallJournal fails: the script leaves, closes or stops.
LEMMA ThrowEffect ==
    ASSUME TypeOK, Core, NEW p \in Procs, NEW now, at[p] \in JournalPlaces,
           AdvanceThrows(p, now), JournalOnly(p)
    PROVE  Effect(p)
<1>1. CASE Recovers(p)
  <2>1. GoTo(p, "closing")
    BY <1>1 DEF AdvanceThrows, Recovers, Runs
  <2>2. FxClose(p)
    BY <1>1, <2>1 DEF GoTo, FxClose, Moves, TypeOK
  <2> QED BY <2>2 DEF Effect
<1>2. CASE ~Recovers(p) /\ Runs(p, "install", Startup) /\ now # Ready(Startup)
  BY <1>2 DEF AdvanceThrows, GoTo, FxStopping, Moves, TypeOK, Recovers, Runs, Effect
<1>3. CASE ~Recovers(p) /\ ~(Runs(p, "install", Startup) /\ now # Ready(Startup))
  BY <1>3 DEF AdvanceThrows, Fail, Exit, FxLeave, Leaves, Moves, Recovers, Effect
<1> QED BY <1>1, <1>2, <1>3

\* The steps of advanceCleanInstallJournal.
LEMMA AdvanceEffect ==
    ASSUME TypeOK, Core, NEW p \in Procs, AdvanceCleanInstallJournal(p)
    PROVE  Effect(p)
<1> USE DEF disk, svc, GoTo, Moves, Leaves, Shared
<1>1. CASE LockJournal(p)
  <2>1. CASE jlock = "free"
    BY <1>1, <2>1 DEF LockJournal, FxLockJournal, TypeOK, Effect
  <2>2. CASE jlock # "free"
    <3>1. AdvanceThrows(p, phase) /\ JournalOnly(p) /\ at[p] \in JournalPlaces
      BY <1>1, <2>2 DEF LockJournal, JournalOnly, JournalPlaces, TypeOK
    <3> QED BY <3>1, ThrowEffect
  <2> QED BY <2>1, <2>2
<1>2. CASE RejectTransition(p)
  <2>1. AdvanceThrows(p, phase) /\ JournalOnly(p) /\ at[p] \in JournalPlaces
    BY <1>2 DEF RejectTransition, JournalOnly, JournalPlaces, InJournal, TypeOK
  <2> QED BY <2>1, ThrowEffect
<1>3. CASE Validate(p)
  <2>1. op[p] # "intend" /\ stp[p] = Startup => running \cup dead = Units
    <3>1. op[p] # "intend" /\ stp[p] = Startup => running = Units
      BY <1>3 DEF Validate, Valid, Wanted, Bound, InspectRunningSystemd
    <3> QED BY <3>1 DEF TypeOK
  <2> QED BY <1>3, <2>1 DEF Validate, Valid, FxValidate, TypeOK, Effect
<1>4. CASE RefuseTransition(p)
  <2>1. AdvanceThrows(p, phase) /\ JournalOnly(p) /\ at[p] \in JournalPlaces
    BY <1>4 DEF RefuseTransition, JournalOnly, JournalPlaces, InJournal, TypeOK
  <2> QED BY <2>1, ThrowEffect
<1>5. CASE RenameJournal(p)
  BY <1>5 DEF RenameJournal, FxRename, TypeOK, Effect
<1>6. CASE UnlockJournal(p)
  <2>1. JournalOnly(p)
    BY <1>6 DEF UnlockJournal, JournalOnly, InJournal
  <2>2. CASE op[p] = "intend"
    BY <1>6, <2>1, <2>2 DEF UnlockJournal, Succeed, Exit, FxLeave, Effect
  <2>3. CASE op[p] # "intend"
    BY <1>6, <2>1, <2>3 DEF UnlockJournal, FxUnlock, TypeOK, Effect
  <2> QED BY <2>2, <2>3
<1>7. CASE InterruptedCommit(p)
  <2>1. AdvanceThrows(p, phase) /\ JournalOnly(p) /\ at[p] \in JournalPlaces
    BY <1>7 DEF InterruptedCommit, JournalOnly, JournalPlaces, InJournal, TypeOK
  <2> QED BY <2>1, ThrowEffect
<1> QED BY <1>1, <1>2, <1>3, <1>4, <1>5, <1>6, <1>7 DEF AdvanceCleanInstallJournal

\* The ten installers, without what each of them inspects.
AnyInstaller(p, i) ==
    \/ /\ phase = Intent(i) /\ (i = Owner => auth = "oauth")
       /\ Launch(p, "install", i, "checked") /\ UNCHANGED Shared
    \/ TakeInstallLock(p, i)
    \/ /\ at[p] = "locked" /\ Runs(p, "install", i)
       /\ \/ GoTo(p, "mutating") /\ UNCHANGED Shared
          \/ /\ ilock' = ilock \ {i} /\ Exit(p)
             /\ UNCHANGED <<auth, phase, art, rlock, jlock, running, dead, begun>>
    \/ /\ at[p] = "mutating" /\ Runs(p, "install", i)
       /\ UNCHANGED <<auth, phase, ilock, rlock, jlock, running, dead, begun>>
       /\ \/ \E a \in After(i) :
                /\ art' = [art EXCEPT ![i] = a]
                /\ \/ GoTo(p, IF a = "complete" THEN "advance" ELSE "mutating")
                   \/ Exit(p)
          \/ art' = [art EXCEPT ![i] = AfterThrow(i)] /\ Exit(p)
    \/ FinishInstall(p, i)

\* Each installer is one of them.
LEMMA InstallIsAny ==
    ASSUME NEW p \in Procs, Install(p) PROVE \E i \in Installed : AnyInstaller(p, i)
<1> USE DEF Installer, AnyInstaller, BeginInstall, InspectAgain, Mutate, Fail, Shared, disk, svc,
            Missing, Refused, Fault, Exit, GoTo, Launch
<1>1. InstallCleanIdentities(p) => AnyInstaller(p, Identities) BY DEF InstallCleanIdentities
<1>2. InstallCleanConfig(p) => AnyInstaller(p, Config) BY DEF InstallCleanConfig
<1>3. InstallCleanUnits(p) => AnyInstaller(p, UnitFiles) BY DEF InstallCleanUnits
<1>4. InstallCleanData(p) => AnyInstaller(p, Data) BY DEF InstallCleanData
<1>5. InstallCleanReleaseRoot(p) => AnyInstaller(p, ReleaseRoot) BY DEF InstallCleanReleaseRoot
<1>6. PromoteCleanInstall(p) => AnyInstaller(p, Promotion)
  BY DEF PromoteCleanInstall, InspectPromoted, InspectInstalledData
<1>7. InstallCleanPointer(p) => AnyInstaller(p, Pointer)
  BY DEF InstallCleanPointer, InspectCurrent, InspectInstalledData
<1>8. LoadCleanSystemdUnits(p) => AnyInstaller(p, Systemd) BY DEF LoadCleanSystemdUnits
<1>9. InstallCleanAdmissionPause(p) => AnyInstaller(p, Admission) BY DEF InstallCleanAdmissionPause
<1>10. InstallCleanOwner(p) => AnyInstaller(p, Owner) BY DEF InstallCleanOwner, OwnerBoundary
<1> QED BY <1>1, <1>2, <1>3, <1>4, <1>5, <1>6, <1>7, <1>8, <1>9, <1>10
        DEF Install

\* The steps of an installer.
LEMMA InstallEffect ==
    ASSUME TypeOK, Core, NEW p \in Procs, NEW i \in Installed, AnyInstaller(p, i)
    PROVE  Effect(p)
<1> USE DEF GoTo, Exit, Launch, Moves, Leaves, Shared, Runs, TypeOK, disk, svc
<1>1. CASE /\ phase = Intent(i) /\ (i = Owner => auth = "oauth")
           /\ Launch(p, "install", i, "checked") /\ UNCHANGED Shared
  <2>1. i \in Steps OBVIOUS
  <2>2. FxBegin(p) BY <1>1, <2>1 DEF Idle, FxBegin
  <2> QED BY <2>2 DEF Effect
<1>2. CASE TakeInstallLock(p, i)
  <2>1. CASE i \notin ilock
    BY <1>2, <2>1 DEF TakeInstallLock, FxTake, Effect
  <2>2. CASE i \in ilock
    BY <1>2, <2>2 DEF TakeInstallLock, Fail, FxLeave, JournalOnly, Effect
  <2> QED BY <2>1, <2>2
<1>3. CASE at[p] = "locked" /\ Runs(p, "install", i) /\ GoTo(p, "mutating") /\ UNCHANGED Shared
  BY <1>3 DEF FxMutating, Effect
<1>4. CASE /\ at[p] = "locked" /\ Runs(p, "install", i)
           /\ ilock' = ilock \ {i} /\ Exit(p)
           /\ UNCHANGED <<auth, phase, art, rlock, jlock, running, dead, begun>>
  BY <1>4 DEF FxDrop, Effect
<1>5. CASE /\ at[p] = "mutating" /\ Runs(p, "install", i)
           /\ UNCHANGED <<auth, phase, ilock, rlock, jlock, running, dead, begun>>
           /\ \/ \E a \in After(i) :
                    /\ art' = [art EXCEPT ![i] = a]
                    /\ \/ GoTo(p, IF a = "complete" THEN "advance" ELSE "mutating")
                       \/ Exit(p)
              \/ art' = [art EXCEPT ![i] = AfterThrow(i)] /\ Exit(p)
  <2>1. After(i) \subseteq Artefacts /\ (art[i] = "complete" => After(i) = {"complete"})
    BY DEF After, Artefacts
  <2>2. AfterThrow(i) \in Artefacts /\ (art[i] = "complete" => AfterThrow(i) = "complete")
    BY DEF AfterThrow, Artefacts
  <2>3. CASE \E a \in After(i) :
                    /\ art' = [art EXCEPT ![i] = a]
                    /\ \/ GoTo(p, IF a = "complete" THEN "advance" ELSE "mutating")
                       \/ Exit(p)
    BY <1>5, <2>1, <2>3 DEF FxMutate, Effect
  <2>4. CASE art' = [art EXCEPT ![i] = AfterThrow(i)] /\ Exit(p)
    BY <1>5, <2>2, <2>4 DEF FxMutate, Effect
  <2> QED BY <1>5, <2>3, <2>4
<1>6. CASE FinishInstall(p, i)
  BY <1>6 DEF FinishInstall, Succeed, FxFinish, Effect
<1> QED BY <1>1, <1>2, <1>3, <1>4, <1>5, <1>6 DEF AnyInstaller

\* The ten recoveries, without what each of them inspects beside its own step.
AnyRecovery(p, i) ==
    \/ BeginRecovery(p, i) \/ ReleaseCompleted(p, i) \/ EndRecovery(p, i)
    \/ /\ at[p] = "recovering" /\ Runs(p, "recover", i) /\ UNCHANGED Shared
       /\ \/ art[i] = "complete" /\ GoTo(p, IF phase = Ready(i) THEN "advanced" ELSE "advance")
          \/ GoTo(p, "closing")
    \/ i = Promotion /\ RemovePromotionLock(p)

\* Each recovery is one of them.
LEMMA RecoverIsAny ==
    ASSUME NEW p \in Procs, Recover(p) PROVE \E i \in Installed : AnyRecovery(p, i)
<1> USE DEF Recovery, AnyRecovery, InspectCompleted, Shared, disk, svc, Refused, Fault, GoTo
<1>1. CASE RecoverCompletedCleanIdentities(p)
  BY <1>1 DEF RecoverCompletedCleanIdentities, InspectCreatedIdentities
<1>2. CASE RecoverCompletedCleanConfig(p)
  BY <1>2 DEF RecoverCompletedCleanConfig, InspectInstalledConfig
<1>3. CASE RecoverCompletedCleanUnits(p)
  BY <1>3 DEF RecoverCompletedCleanUnits, InspectInstalledUnits
<1>4. CASE RecoverCompletedCleanData(p)
  BY <1>4 DEF RecoverCompletedCleanData, InspectInstalledData
<1>5. CASE RecoverCompletedCleanReleaseRoot(p)
  BY <1>5 DEF RecoverCompletedCleanReleaseRoot, InspectReleaseRoot, InspectInstalledData
<1>6. CASE RecoverCompletedCleanPromotion(p)
  BY <1>6 DEF RecoverCompletedCleanPromotion, InspectPromoted, InspectInstalledData
<1>7. CASE RecoverCompletedCleanPointer(p)
  BY <1>7 DEF RecoverCompletedCleanPointer, InspectCurrent, InspectInstalledData
<1>8. CASE RecoverCompletedCleanSystemd(p)
  BY <1>8 DEF RecoverCompletedCleanSystemd, InspectSystemdBoundary, InspectInstalledData
<1>9. CASE RecoverCompletedCleanAdmission(p)
  BY <1>9 DEF RecoverCompletedCleanAdmission, VerifyAdmissionPause, InspectInstalledData
<1>10. CASE RecoverCompletedCleanOwner(p)
  BY <1>10 DEF RecoverCompletedCleanOwner, OwnerBoundary, InspectInstalledData
<1> QED BY <1>1, <1>2, <1>3, <1>4, <1>5, <1>6, <1>7, <1>8, <1>9, <1>10 DEF Recover

\* The start of a recovery, of a completed step or of a start.
LEMMA BeginRecoveryEffect ==
    ASSUME TypeOK, NEW p \in Procs, NEW i \in Steps, BeginRecovery(p, i) PROVE Effect(p)
BY DEF BeginRecovery, Launch, Idle, FxRecover, Moves, disk, svc, Effect

\* The end of either.
LEMMA EndRecoveryEffect ==
    ASSUME NEW p \in Procs, NEW i \in Steps, EndRecovery(p, i) PROVE Effect(p)
BY DEF EndRecovery, Exit, FxEnd, Leaves, Moves, svc, Effect

\* The steps of the recovery of a completed step.
LEMMA RecoveryEffect ==
    ASSUME TypeOK, Core, NEW p \in Procs, NEW i \in Installed, AnyRecovery(p, i)
    PROVE  Effect(p)
<1> USE DEF GoTo, Moves, Shared, Runs, Recovers, TypeOK, disk, svc
<1>1. CASE BeginRecovery(p, i) BY <1>1, BeginRecoveryEffect
<1>2. CASE ReleaseCompleted(p, i)
  BY <1>2 DEF ReleaseCompleted, FxRelease, Effect
<1>3. CASE EndRecovery(p, i) BY <1>3, EndRecoveryEffect
<1>4. CASE /\ at[p] = "recovering" /\ Runs(p, "recover", i) /\ UNCHANGED Shared
           /\ art[i] = "complete" /\ GoTo(p, IF phase = Ready(i) THEN "advanced" ELSE "advance")
  BY <1>4 DEF FxInspect, Effect
<1>5. CASE /\ at[p] = "recovering" /\ Runs(p, "recover", i) /\ UNCHANGED Shared
           /\ GoTo(p, "closing")
  BY <1>5 DEF FxClose, JournalOnly, Effect
<1>6. CASE RemovePromotionLock(p)
  BY <1>6 DEF RemovePromotionLock, FxPromotion, procs, Effect
<1> QED BY <1>1, <1>2, <1>3, <1>4, <1>5, <1>6 DEF AnyRecovery

\* The steps of startCleanLocalServices.
LEMMA StartEffect ==
    ASSUME TypeOK, Core, NEW p \in Procs, StartCleanLocalServices(p)
    PROVE  Effect(p)
<1> USE DEF GoTo, Exit, Moves, Leaves, Shared, Runs, TypeOK, disk, svc
<1>0. at[p] \in {"starting", "stopping"} => op[p] = "install" /\ stp[p] = Startup
  BY Whereabouts
<1>1. CASE BeginStart(p)
  BY <1>1 DEF BeginStart, Launch, Idle, FxBegin, Effect
<1>2. CASE TakeInstallLock(p, Startup)
  <2>1. CASE Startup \notin ilock
    BY <1>2, <2>1 DEF TakeInstallLock, FxTake, Effect
  <2>2. CASE Startup \in ilock
    BY <1>2, <2>2 DEF TakeInstallLock, Fail, FxLeave, JournalOnly, Effect
  <2> QED BY <2>1, <2>2
<1>3. CASE PreflightAgain(p)
  <2>1. CASE StartPreflight /\ GoTo(p, "starting") /\ UNCHANGED ilock /\ begun' = 0
    <3>1. FxStarting(p)
      BY <1>3, <2>1 DEF PreflightAgain, StartPreflight, InspectSystemdBoundary,
                        InspectSystemdInactivity, FxStarting
    <3> QED BY <3>1 DEF Effect
  <2>2. CASE phase = Ready(Startup) /\ UNCHANGED <<ilock, begun>> /\ Fail(p)
    BY <1>3, <2>2 DEF PreflightAgain, Fail, FxLeave, JournalOnly, Effect
  <2>3. CASE phase # Ready(Startup) /\ ilock' = ilock \ {Startup} /\ Fail(p)
             /\ UNCHANGED begun
    BY <1>3, <2>3 DEF PreflightAgain, Fail, FxDrop, Effect
  <2> QED BY <1>3, <2>1, <2>2, <2>3 DEF PreflightAgain
<1>4. CASE StartUnit(p)
  <2>1. begun' \in 1..3 /\ begun' \in Units
    BY <1>4 DEF StartUnit
  <2>2. \/ \E u \in Units : running' = running \cup {u} /\ dead' = dead \ {u}
        \/ UNCHANGED <<running, dead>>
    BY <1>4, <2>1 DEF StartUnit
  <2>3. FxStartUnit(p)
    BY <1>0, <1>4, <2>1, <2>2 DEF StartUnit, VerifyAdmissionPause, FxStartUnit
  <2> QED BY <2>3 DEF Effect
<1>5. CASE StartHealthy(p)
  BY <1>0, <1>5 DEF StartHealthy, InspectRunningSystemd, FxHealthy, Effect
<1>6. CASE StartUnproven(p)
  <2>1. CASE begun = 0
    <3>1. phase # Ready(Startup) /\ running \cup dead = {}
      BY <1>6, <2>1 DEF StartUnproven, Core, Starting
    <3> QED BY <1>0, <1>6, <2>1, <3>1 DEF StartUnproven, Fail, FxDrop, Effect
  <2>2. CASE begun # 0
    BY <1>0, <1>6, <2>2 DEF StartUnproven, FxStopping, JournalOnly, Effect
  <2> QED BY <2>1, <2>2
<1>7. CASE StopStarted(p)
  BY <1>7 DEF StopStarted, Fail, FxStop, Effect
<1>8. CASE FinishInstall(p, Startup)
  BY <1>8 DEF FinishInstall, Succeed, FxFinish, Effect
<1> QED BY <1>1, <1>2, <1>3, <1>4, <1>5, <1>6, <1>7, <1>8 DEF StartCleanLocalServices

\* The steps of recoverCleanLocalStartup.
LEMMA RecoverStartEffect ==
    ASSUME TypeOK, Core, NEW p \in Procs, RecoverCleanLocalStartup(p)
    PROVE  Effect(p)
<1> USE DEF GoTo, Moves, Shared, Runs, Recovers, TypeOK, disk, svc
<1>1. CASE BeginRecovery(p, Startup) BY <1>1, BeginRecoveryEffect
<1>2. CASE EndRecovery(p, Startup) BY <1>2, EndRecoveryEffect
<1>3. CASE InspectAttempt(p)
  <2>1. CASE GoTo(p, "closing")
    BY <1>3, <2>1 DEF InspectAttempt, FxClose, JournalOnly, Effect
  <2>2. CASE ~GoTo(p, "closing")
    BY <1>3, <2>2 DEF InspectAttempt, FxInspect, Effect
  <2> QED BY <2>1, <2>2
<1>4. CASE ReleaseAttempt(p)
  <2>1. CASE UNCHANGED ilock
    BY <1>4, <2>1 DEF ReleaseAttempt, FxClose, JournalOnly, Effect
  <2>2. CASE GateUnchanged(p) /\ ilock' = ilock \ {Startup}
    <3>1. op[p] = "retry" => running \cup dead = {}
      BY <2>2 DEF GateUnchanged, InspectSystemdBoundary, InspectSystemdInactivity
    <3> QED BY <1>4, <2>2, <3>1 DEF ReleaseAttempt, FxRelease, Effect
  <2> QED BY <1>4, <2>1, <2>2 DEF ReleaseAttempt
<1> QED BY <1>1, <1>2, <1>3, <1>4 DEF RecoverCleanLocalStartup

\* Announcing a step, by an operator, by startCleanProtected or by the controller,
\* and the other steps of the controller.
LEMMA ControlEffect ==
    ASSUME TypeOK, Core, NEW p \in Procs,
           \/ AnnounceStep(p) \/ StartCleanProtected(p) \/ InstallCleanPrivateRuntime(p)
    PROVE  Effect(p)
<1> USE DEF Exit, Launch, Idle, Moves, Leaves, Shared, TypeOK, disk, svc, procs
<1>1. CASE AnnounceStep(p)
  <2>1. FxAnnounce(p)
    <3>1. \A i \in Steps : Before(i) >= 0 BY DEF Before
    <3> QED BY <1>1, <3>1 DEF AnnounceStep, FxAnnounce
  <2> QED BY <2>1 DEF Effect
<1>2. CASE StartCleanProtected(p)
  BY <1>2 DEF StartCleanProtected, FxAnnounce, Effect
<1>3. CASE StartCleanInstallJournal(p)
  BY <1>3 DEF StartCleanInstallJournal, FxJournal, Effect
<1>4. CASE ControllerAnnounces(p)
  <2>1. PICK i \in Installed : cphase = 2 * i - 2 /\ Launch(p, "intend", i, "advance")
    BY <1>4 DEF ControllerAnnounces
  <2>2. i \in Steps /\ phase >= 0 BY <1>4, <2>1 DEF ControllerAnnounces
  <2>3. FxAnnounce(p) BY <1>4, <2>1, <2>2 DEF ControllerAnnounces, FxAnnounce
  <2> QED BY <2>3 DEF Effect
<1>5. CASE ControllerVerifies(p)
  BY <1>5 DEF ControllerVerifies, FxNothing, Effect
<1>6. CASE ControllerStops(p)
  BY <1>6 DEF ControllerStops, Fail, FxLeave, JournalOnly, Effect
<1> QED BY <1>1, <1>2, <1>3, <1>4, <1>5, <1>6 DEF InstallCleanPrivateRuntime

\* Every step of a process, a crash included, has one of the effects.
LEMMA StepEffect ==
    ASSUME TypeOK, Core, NEW p \in Procs, Step(p) \/ Crash(p)
    PROVE  Effect(p)
<1>1. CASE AdvanceCleanInstallJournal(p) BY <1>1, AdvanceEffect
<1>2. CASE Install(p) BY <1>2, InstallIsAny, InstallEffect
<1>3. CASE Recover(p) BY <1>3, RecoverIsAny, RecoveryEffect
<1>4. CASE StartCleanLocalServices(p) BY <1>4, StartEffect
<1>5. CASE RecoverCleanLocalStartup(p) BY <1>5, RecoverStartEffect
<1>6. CASE AnnounceStep(p) \/ StartCleanProtected(p) \/ InstallCleanPrivateRuntime(p)
  BY <1>6, ControlEffect
<1>7. CASE Crash(p)
  BY <1>7 DEF Crash, Fail, Exit, FxLeave, Leaves, Moves, JournalOnly, disk, svc, TypeOK, Effect
<1> QED BY <1>1, <1>2, <1>3, <1>4, <1>5, <1>6, <1>7 DEF Step

\* What a script may do to the controller's place, the history and the faults.
Book(p) ==
    /\ used' = used /\ alone' \in {alone, 0}
    /\ faults' = faults \/ Fault
    /\ ctl = p => \/ ctl' = p /\ cphase' \in {cphase, cphase + 1}
                  \/ ctl' = "none" /\ cphase' = 0
    /\ ctl # p => UNCHANGED <<ctl, cphase>>

\* That keeps them well typed.
LEMMA BookTyped == ASSUME TypeOK, NEW p \in Procs, Book(p) PROVE Booked'
<1> USE ProcsAssumption, BoundAssumption
<1>1. used' \subseteq Units /\ alone' \in 0..1 BY DEF Book, TypeOK
<1>2. faults' \in 0..MaxFaults BY DEF Book, TypeOK, Fault
<1>3. ctl' \in Procs \cup {"none", "done"} /\ cphase' \in Nat /\ (ctl' \notin Procs => cphase' = 0)
   BY DEF Book, TypeOK
<1> QED BY <1>1, <1>2, <1>3 DEF Booked

\* The installers do no more.
LEMMA InstallBooks == ASSUME NEW p \in Procs, Install(p) PROVE Book(p)
<1> USE DEF Book, Installer, BeginInstall, TakeInstallLock, InspectAgain, Mutate, FinishInstall,
            Succeed, Fail, Refused, Disturb, Missing, ctrl, svc, Exit, GoTo, Launch
<1>1. CASE InstallCleanIdentities(p) BY <1>1 DEF InstallCleanIdentities
<1>2. CASE InstallCleanConfig(p) BY <1>2 DEF InstallCleanConfig
<1>3. CASE InstallCleanUnits(p) BY <1>3 DEF InstallCleanUnits
<1>4. CASE InstallCleanData(p) BY <1>4 DEF InstallCleanData
<1>5. CASE InstallCleanReleaseRoot(p) BY <1>5 DEF InstallCleanReleaseRoot
<1>6. CASE PromoteCleanInstall(p) BY <1>6 DEF PromoteCleanInstall, InspectPromoted, InspectInstalledData
<1>7. CASE InstallCleanPointer(p) BY <1>7 DEF InstallCleanPointer, InspectCurrent, InspectInstalledData
<1>8. CASE LoadCleanSystemdUnits(p) BY <1>8 DEF LoadCleanSystemdUnits, InspectSystemdBoundary
<1>9. CASE InstallCleanAdmissionPause(p) BY <1>9 DEF InstallCleanAdmissionPause, VerifyAdmissionPause
<1>10. CASE InstallCleanOwner(p) BY <1>10 DEF InstallCleanOwner, OwnerBoundary, InspectInstalledData
<1> QED BY <1>1, <1>2, <1>3, <1>4, <1>5, <1>6, <1>7, <1>8, <1>9, <1>10 DEF Install

\* Nor do the recoveries.
LEMMA RecoverBooks == ASSUME NEW p \in Procs, Recover(p) PROVE Book(p)
<1> USE DEF Book, Recovery, BeginRecovery, EndRecovery, InspectCompleted, ReleaseCompleted,
            Refused, Disturb, ctrl, svc, GoTo, Launch, Exit
<1>1. CASE RecoverCompletedCleanIdentities(p) BY <1>1 DEF RecoverCompletedCleanIdentities
<1>2. CASE RecoverCompletedCleanConfig(p) BY <1>2 DEF RecoverCompletedCleanConfig
<1>3. CASE RecoverCompletedCleanUnits(p) BY <1>3 DEF RecoverCompletedCleanUnits
<1>4. CASE RecoverCompletedCleanData(p) BY <1>4 DEF RecoverCompletedCleanData, InspectInstalledData
<1>5. CASE RecoverCompletedCleanReleaseRoot(p) BY <1>5 DEF RecoverCompletedCleanReleaseRoot, InspectInstalledData
<1>6. CASE RecoverCompletedCleanPromotion(p)
  BY <1>6 DEF RecoverCompletedCleanPromotion, RemovePromotionLock, InspectInstalledData
<1>7. CASE RecoverCompletedCleanPointer(p) BY <1>7 DEF RecoverCompletedCleanPointer, InspectInstalledData
<1>8. CASE RecoverCompletedCleanSystemd(p) BY <1>8 DEF RecoverCompletedCleanSystemd, InspectInstalledData
<1>9. CASE RecoverCompletedCleanAdmission(p) BY <1>9 DEF RecoverCompletedCleanAdmission, InspectInstalledData
<1>10. CASE RecoverCompletedCleanOwner(p) BY <1>10 DEF RecoverCompletedCleanOwner, OwnerBoundary, InspectInstalledData
<1> QED BY <1>1, <1>2, <1>3, <1>4, <1>5, <1>6, <1>7, <1>8, <1>9, <1>10 DEF Recover

\* The controller's place, the history and the count of faults stay well typed.
LEMMA StepBooked ==
    ASSUME TypeOK, NEW p \in Procs, Step(p) \/ Crash(p)
    PROVE  Booked'
<1> USE ProcsAssumption, BoundAssumption
<1>1. CASE AdvanceCleanInstallJournal(p)
  BY <1>1 DEF AdvanceCleanInstallJournal, LockJournal, RejectTransition, Validate,
              RefuseTransition, RenameJournal, UnlockJournal, InterruptedCommit, AdvanceThrows,
              TypeOK, Booked, Succeed, Fail, Fault, Refused, ctrl, svc
<1>2. CASE Install(p) BY <1>2, InstallBooks, BookTyped
<1>3. CASE Recover(p) BY <1>3, RecoverBooks, BookTyped
<1>4. CASE StartCleanLocalServices(p)
  <2>1. CASE StartUnit(p)
    <3>0. begun' \in Units
      BY <2>1 DEF StartUnit, TypeOK
    <3>1. used' = used \/ \E u \in Units : used' = used \cup {u}
      BY <2>1, <3>0 DEF StartUnit
    <3>2. used' \subseteq Units
      BY <3>1 DEF TypeOK
    <3>3. UNCHANGED <<ctl, cphase, alone>> /\ (faults' = faults \/ Fault)
      BY <2>1 DEF StartUnit, ctrl
    <3>4. faults' \in 0..MaxFaults
      BY <3>3 DEF TypeOK, Fault
    <3> QED BY <3>2, <3>3, <3>4 DEF TypeOK, Booked
  <2>2. CASE \/ BeginStart(p) \/ TakeInstallLock(p, Startup) \/ PreflightAgain(p)
             \/ StartHealthy(p) \/ StartUnproven(p) \/ StopStarted(p)
             \/ FinishInstall(p, Startup)
    <3>1. Book(p)
      BY <2>2 DEF Book, BeginStart, TakeInstallLock, PreflightAgain, StartHealthy,
                  StartUnproven, StopStarted, FinishInstall, Succeed, Fail, Refused, Disturb,
                  ctrl, svc
    <3> QED BY <3>1, BookTyped
  <2> QED BY <1>4, <2>1, <2>2 DEF StartCleanLocalServices
<1>5. CASE RecoverCleanLocalStartup(p)
  <2>1. Book(p)
    BY <1>5 DEF Book, RecoverCleanLocalStartup, BeginRecovery, EndRecovery, InspectAttempt,
                ReleaseAttempt, Refused, Disturb, ctrl, svc, GoTo, Launch, Exit
  <2> QED BY <2>1, BookTyped
<1>6. CASE \/ AnnounceStep(p) \/ StartCleanProtected(p) \/ ControllerAnnounces(p)
           \/ ControllerStops(p)
  <2>1. Book(p)
    BY <1>6 DEF Book, AnnounceStep, StartCleanProtected, ControllerAnnounces, ControllerStops,
                Refused, Disturb, ctrl, svc, Launch, Exit, Fail
  <2> QED BY <2>1, BookTyped
<1>7. CASE StartCleanInstallJournal(p)
  BY <1>7 DEF StartCleanInstallJournal, TypeOK, Booked, svc
<1>8. CASE ControllerVerifies(p)
  BY <1>8 DEF ControllerVerifies, TypeOK, Booked, svc
<1>9. CASE Crash(p)
  BY <1>9 DEF Crash, TypeOK, Booked, Fail, Fault, svc
<1> QED BY <1>1, <1>2, <1>3, <1>4, <1>5, <1>6, <1>7, <1>8, <1>9
        DEF Step, InstallCleanPrivateRuntime

\* A reboot ends every script and every service and keeps the invariant.
LEMMA RebootKeeps == ASSUME TypeOK, Core, Reboot PROVE TypeOK' /\ Core'
<1> USE ProcsAssumption, BoundAssumption
<1>1. TypeOK'
  BY DEF Reboot, Fault, TypeOK, Places, Scripts, disk
<1>2. Core'
  BY DEF Reboot, Core, TypeOK, disk, Shape, Announced, StaticSkips, JournalHeld, LockHeld,
         RecoveryAlone, ValidKnown, Committed, Built, Fresh, Starting, JournalIsTruthful,
         PartialIsLocked, ServicesAreAccountedFor, Has, Recovers, InJournal, JournalPlaces
<1> QED BY <1>1, <1>2

-----------------------------------------------------------------------------
(***************************************************************************)
(* The invariants.                                                         *)
(***************************************************************************)

\* The inductive invariant holds in the initial states.
LEMMA Initially == Init => TypeOK /\ Core
<1> SUFFICES ASSUME Init PROVE TypeOK /\ Core OBVIOUS
<1> USE DEF Init
<1>1. TypeOK
  BY BoundAssumption, ProcsAssumption DEF TypeOK, Places, Scripts, Artefacts
<1>2. Core
  BY DEF Core, Shape, Announced, StaticSkips, JournalHeld, LockHeld,
         RecoveryAlone, ValidKnown, Committed, Built, Fresh, Starting, JournalIsTruthful,
         PartialIsLocked, ServicesAreAccountedFor, Has, Recovers, InJournal, JournalPlaces
<1> QED BY <1>1, <1>2

\* Every step keeps it.
LEMMA Inductive == TypeOK /\ Core /\ [Next]_vars => TypeOK' /\ Core'
<1> SUFFICES ASSUME TypeOK, Core, [Next]_vars PROVE TypeOK' /\ Core' OBVIOUS
<1>1. ASSUME NEW p \in Procs, Step(p) \/ Crash(p) PROVE TypeOK' /\ Core'
  <2>1. Effect(p) BY <1>1, StepEffect
  <2>2. Typed' /\ Core' BY <2>1, EffectTyped, EffectKeeps
  <2>3. Booked' BY <1>1, StepBooked
  <2> QED BY <2>2, <2>3 DEF Typed, Booked, TypeOK
<1>2. CASE Reboot BY <1>2, RebootKeeps
<1>3. ASSUME NEW u \in Units, ServiceDies(u) \/ ServiceRestarts(u) PROVE TypeOK' /\ Core'
  <2>1. FxService
    BY <1>3 DEF ServiceDies, ServiceRestarts, FxService, TypeOK, disk, procs
  <2>2. Core' BY <2>1, KeepService
  <2>3. UNCHANGED <<used, ctl, cphase, alone>> /\ faults' \in 0..MaxFaults
    BY <1>3, BoundAssumption DEF ServiceDies, ServiceRestarts, Fault, TypeOK, ctrl
  <2>4. TypeOK' BY <2>1, <2>3 DEF FxService, TypeOK
  <2> QED BY <2>2, <2>4
<1>4. CASE UNCHANGED vars
  BY <1>4 DEF vars, disk, svc, procs, ctrl, Core, TypeOK, Shape, Announced, StaticSkips,
         JournalHeld, LockHeld, RecoveryAlone, ValidKnown, Committed, Built, Fresh, Starting,
         JournalIsTruthful, PartialIsLocked, ServicesAreAccountedFor, Has, Recovers, InJournal,
         JournalPlaces, Expected, Wanted, Before, AuthMatches
<1> QED BY <1>1, <1>2, <1>3, <1>4 DEF Next

\* The inductive invariant always holds.
THEOREM Invariance == Spec => [](TypeOK /\ Core)
BY Initially, Inductive, PTL DEF Spec

\* The state is well typed for any number of processes and faults.
THEOREM TypeCorrect == Spec => []TypeOK
BY Invariance, PTL

\* What the journal confirms is on the machine, for any number of processes and
\* faults (advanceCleanInstallJournal and the installers).
THEOREM Truthful == Spec => []JournalIsTruthful
<1>1. TypeOK /\ Core => JournalIsTruthful BY DEF Core
<1> QED BY <1>1, Invariance, PTL

\* A half-made step is always under its lock.
THEOREM Locked == Spec => []PartialIsLocked
<1>1. TypeOK /\ Core => PartialIsLocked BY DEF Core
<1> QED BY <1>1, Invariance, PTL

\* Services never run unannounced or before the pause.
THEOREM AccountedFor == Spec => []ServicesAreAccountedFor
<1>1. TypeOK /\ Core => ServicesAreAccountedFor BY DEF Core
<1> QED BY <1>1, Invariance, PTL

\* At most one process is in the protected part of an installer, and it has its lock.
THEOREM Exclusive == Spec => []LockIsExclusive
<1>1. TypeOK /\ Core => LockIsExclusive
  BY DEF Core, LockHeld, LockIsExclusive, Holders, Runs, Has
<1> QED BY <1>1, Invariance, PTL

-----------------------------------------------------------------------------
(***************************************************************************)
(* The refinement.                                                         *)
(***************************************************************************)
Level  == IF phase = -1 THEN 0 ELSE phase
Done   == {i \in Installed : art[i] = "complete"}

\* A step that changes neither journal nor artefacts nor services is a stutter.
LEMMA StairsStutter ==
    ASSUME UNCHANGED <<phase, art, running, dead>> PROVE UNCHANGED Stairs!stairs
BY DEF Stairs!stairs

\* Committing a transition announces a step, confirms it, or confirms the start.
LEMMA RenameClimbs ==
    ASSUME TypeOK, Core, NEW p \in Procs, FxRename(p) PROVE Stairs!Next
<1>1. /\ phase = Expected(p) /\ phase' = Wanted(p) /\ AuthMatches(Wanted(p))
      /\ op[p] # "intend" /\ stp[p] = Startup => running \cup dead = Units
      /\ UNCHANGED <<art, running, dead, auth>>
  BY DEF FxRename, Core, ValidKnown
<1>2. stp[p] \in 1..11 /\ phase \in 0..22 /\ phase' \in 1..22
  BY <1>1 DEF FxRename, Core, Shape, TypeOK, Expected, Wanted, Before
<1>3. Level = phase /\ Level' = phase' /\ Done' = Done
  BY <1>1, <1>2 DEF Level, Done
<1>4. CASE op[p] = "intend"
  <2>1. \/ \E i \in 0..10 : phase = 2 * i /\ phase' = 2 * i + 1
        \/ phase = 18 /\ phase' = 21
    BY <1>1, <1>2, <1>4 DEF Expected, Wanted, Before
  <2>2. phase < 21
    BY <1>1, <1>2, <1>4 DEF Expected, Before
  <2>3. Stairs!Announce
    BY <1>1, <1>3, <2>1, <2>2 DEF Stairs!Announce, Stairs!StartIntent, Level, Done
  <2> QED BY <2>3 DEF Stairs!Next
<1>5. CASE op[p] # "intend" /\ stp[p] # Startup
  <2>1. op[p] \in {"install", "recover"} /\ stp[p] \in Installed
    BY <1>2, <1>5, Whereabouts DEF FxRename, InJournal
  <2>2. art[stp[p]] = "complete"
    BY <1>5, <2>1 DEF FxRename, Core, Built, JournalPlaces
  <2>3. Stairs!Confirm
    <3>1. phase = 2 * stp[p] - 1 /\ phase' = 2 * stp[p]
      BY <1>1, <1>5 DEF Expected, Wanted
    <3>2. stp[p] \in Done BY <2>1, <2>2 DEF Done
    <3> QED BY <1>1, <1>3, <2>1, <3>1, <3>2 DEF Stairs!Confirm, Level, Done
  <2> QED BY <2>3 DEF Stairs!Next
<1>6. CASE op[p] # "intend" /\ stp[p] = Startup
  <2>1. phase = 21 /\ phase' = 22 /\ running \cup dead = Units
    BY <1>1, <1>6 DEF Expected, Wanted
  <2>2. Stairs!ConfirmServing
    BY <1>1, <2>1 DEF Stairs!ConfirmServing, Stairs!StartIntent, Stairs!StartReady
  <2> QED BY <2>2 DEF Stairs!Next
<1> QED BY <1>4, <1>5, <1>6

\* An installer's system call builds its step, while the step is announced, or is
\* not seen in the staircase.
LEMMA MutateBuilds ==
    ASSUME TypeOK, Core, NEW p \in Procs, NEW i \in Installed, NEW a,
           phase >= Intent(i), i = Owner => auth = "oauth",
           art' = [art EXCEPT ![i] = a], art[i] = "complete" => a = "complete",
           UNCHANGED <<phase, running, dead>>
    PROVE  Stairs!Next \/ UNCHANGED Stairs!stairs
<1>1. CASE art[i] = "complete" \/ a # "complete"
  <2>1. Done' = Done
    BY <1>1 DEF Done, TypeOK
  <2> QED BY <2>1 DEF Stairs!stairs, Done
<1>2. CASE art[i] # "complete" /\ a = "complete"
  <2>1. phase = 2 * i - 1
    BY <1>2 DEF Core, JournalIsTruthful, TypeOK
  <2>2. Done' = Done \cup {i}
    BY <1>2 DEF Done, TypeOK
  <2>3. Stairs!Build
    BY <2>1, <2>2 DEF Stairs!Build, Done
  <2> QED BY <2>3 DEF Stairs!Next
<1> QED BY <1>1, <1>2

\* Services stop.
LEMMA StopHalts ==
    ASSUME running' \subseteq running, dead' \subseteq dead, UNCHANGED <<phase, art>>
    PROVE  Stairs!Next
BY DEF Stairs!Halt, Stairs!Next

\* Every effect is a step of the staircase or a stutter.
LEMMA EffectClimbs ==
    ASSUME TypeOK, Core, NEW p \in Procs, Effect(p)
    PROVE  Stairs!Next \/ UNCHANGED Stairs!stairs
<1>1. CASE UNCHANGED <<phase, art, running, dead>> BY <1>1, StairsStutter
<1>2. CASE FxRename(p) BY <1>2, RenameClimbs
<1>3. CASE FxJournal(p) BY <1>3 DEF FxJournal, Stairs!stairs
<1>4. CASE FxMutate(p)
  <2>1. stp[p] \in Installed /\ op[p] = "install"
    BY <1>4 DEF FxMutate, Core, Shape
  <2>2. phase >= Intent(stp[p]) /\ (stp[p] = Owner => auth = "oauth")
    BY <2>1 DEF Core, Announced
  <2> QED BY <1>4, <2>1, <2>2, MutateBuilds DEF FxMutate
<1>5. CASE FxPromotion(p)
  <2>1. phase >= Intent(Promotion)
    BY <1>5 DEF FxPromotion, Core, Announced, Recovers
  <2>2. Promotion \in Installed /\ Promotion # Owner OBVIOUS
  <2>3. /\ art' = [art EXCEPT ![Promotion] = "complete"] /\ UNCHANGED <<phase, running, dead>>
    BY <1>5 DEF FxPromotion
  <2> QED BY <2>1, <2>2, <2>3, MutateBuilds
<1>6. CASE FxStop(p) BY <1>6, StopHalts DEF FxStop
<1>7. CASE FxStartUnit(p)
  <2>1. phase = 21 BY <1>7 DEF FxStartUnit, Core, Starting
  <2>2. UNCHANGED <<phase, art>> BY <1>7 DEF FxStartUnit
  <2>3. CASE \E u \in Units : running' = running \cup {u} /\ dead' = dead \ {u}
    <3>1. Stairs!Serve
      BY <2>1, <2>2, <2>3 DEF Stairs!Serve, Stairs!StartIntent
    <3> QED BY <3>1 DEF Stairs!Next
  <2>4. CASE UNCHANGED <<running, dead>> BY <2>2, <2>4, StairsStutter
  <2> QED BY <1>7, <2>3, <2>4 DEF FxStartUnit
<1>8. \/ UNCHANGED <<phase, art, running, dead>> \/ FxRename(p) \/ FxJournal(p) \/ FxMutate(p)
      \/ FxPromotion(p) \/ FxStop(p) \/ FxStartUnit(p)
  BY DEF Effect, Shared, JournalOnly, FxNothing, FxAnnounce, FxBegin, FxLeave, FxClose,
         FxStopping, FxLockJournal, FxValidate, FxUnlock, FxTake, FxMutating, FxStarting,
         FxDrop, FxFinish, FxRecover, FxInspect, FxRelease, FxEnd, FxHealthy
<1> QED BY <1>1, <1>2, <1>3, <1>4, <1>5, <1>6, <1>7, <1>8

\* The installation implements the staircase, for any number of processes and
\* faults: an operator who reads only the journal is never misled.
THEOREM Refinement == Spec => ImplementsStairs
<1>1. Init => Stairs!Init
  BY DEF Init, Stairs!Init
<1>2. TypeOK /\ Core /\ [Next]_vars => [Stairs!Next]_(Stairs!stairs)
  <2> SUFFICES ASSUME TypeOK, Core, [Next]_vars PROVE Stairs!Next \/ UNCHANGED Stairs!stairs
    OBVIOUS
  <2>1. ASSUME NEW p \in Procs, Step(p) \/ Crash(p)
        PROVE  Stairs!Next \/ UNCHANGED Stairs!stairs
    BY <2>1, StepEffect, EffectClimbs
  <2>2. CASE Reboot BY <2>2, StopHalts DEF Reboot, disk
  <2>3. ASSUME NEW u \in Units, ServiceDies(u) PROVE Stairs!Next
    <3>1. Stairs!Die BY <2>3 DEF ServiceDies, disk, Stairs!Die
    <3> QED BY <3>1 DEF Stairs!Next
  <2>4. ASSUME NEW u \in Units, ServiceRestarts(u) PROVE Stairs!Next
    <3>1. Stairs!Revive BY <2>4 DEF ServiceRestarts, disk, Stairs!Revive
    <3> QED BY <3>1 DEF Stairs!Next
  <2>5. CASE UNCHANGED vars BY <2>5, StairsStutter DEF vars, disk, svc
  <2> QED BY <2>1, <2>2, <2>3, <2>4, <2>5 DEF Next
<1> QED BY <1>1, <1>2, Invariance, PTL DEF Spec, Stairs!Spec, ImplementsStairs
=============================================================================
