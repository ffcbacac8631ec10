---------------------------- MODULE MCTranscript ----------------------------
(* Transcript on a small instance: see Transcript.cfg.  The follower and   *)
(* the archiver do not meet but in the row, and the other reads write that *)
(* too: the states in which both are at work are left to the proofs.       *)
EXTENDS Transcript

FollowedOrArchived ==
    arch.pc = "none" \/ (rd.pc = "idle" /\ got = <<>> /\ last = NoResponse)
=============================================================================
