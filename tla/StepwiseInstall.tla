--------------------------- MODULE StepwiseInstall ---------------------------
(***************************************************************************)
(* What the clean-install journal promises to an operator who reads only   *)
(* the journal: the installation is a staircase.  A step is announced,     *)
(* then built, then confirmed, one step after the other; what is built is  *)
(* never taken away; services are started only once their start is         *)
(* announced, and their start is confirmed only when every one has been    *)
(* started and none stopped since: one that does not run has died by       *)
(* itself.  CleanInstall implements this with lock files, several          *)
(* processes and crashes.                                                  *)
(***************************************************************************)
EXTENDS Naturals

CONSTANTS
    Steps,      \* the number of steps that build something on disk, at least one
    Skippable,  \* one of them, which one authorization profile leaves out
    Services    \* what is started in the end

VARIABLES
    level,   \* 2i-1: step i is announced; 2i: it is confirmed
    built,   \* the steps that are complete on disk
    up,      \* the services that run
    lost     \* those that were started and have died by themselves

stairs == <<level, built, up, lost>>

StartIntent == 2 * Steps + 1
StartReady  == 2 * Steps + 2

Init == level = 0 /\ built = {} /\ up = {} /\ lost = {}

Announce ==
    /\ level < StartIntent
    /\ \/ \E i \in 0..Steps : level = 2 * i /\ level' = 2 * i + 1
       \/ level = 2 * (Skippable - 1) /\ level' = 2 * Skippable + 1
    /\ UNCHANGED <<built, up, lost>>

Build ==
    /\ \E i \in 1..Steps : level = 2 * i - 1 /\ built' = built \cup {i}
    /\ UNCHANGED <<level, up, lost>>

Confirm ==
    /\ \E i \in 1..Steps : level = 2 * i - 1 /\ i \in built /\ level' = 2 * i
    /\ UNCHANGED <<built, up, lost>>

Serve ==
    /\ level = StartIntent
    /\ \E s \in Services : up' = up \cup {s} /\ lost' = lost \ {s}
    /\ UNCHANGED <<level, built>>

ConfirmServing ==
    /\ level = StartIntent /\ up \cup lost = Services
    /\ level' = StartReady
    /\ UNCHANGED <<built, up, lost>>

Die ==
    /\ \E s \in up : up' = up \ {s} /\ lost' = lost \cup {s}
    /\ UNCHANGED <<level, built>>

Revive ==
    /\ \E s \in lost : up' = up \cup {s} /\ lost' = lost \ {s}
    /\ UNCHANGED <<level, built>>

Halt == up' \subseteq up /\ lost' \subseteq lost /\ UNCHANGED <<level, built>>

Next ==
    \/ Announce \/ Build \/ Confirm \/ Serve \/ ConfirmServing
    \/ Die \/ Revive \/ Halt

Spec == Init /\ [][Next]_stairs
=============================================================================
