-------------------------- MODULE MCSessionRegistry --------------------------
(* Small instances of SessionRegistry for TLC. *)
EXTENDS SessionRegistry, TLC

\* Sessions that fill their transcript are not interchangeable with the others.
SessionSymmetry == Permutations(FullTranscripts) \cup Permutations(Sessions \ FullTranscripts)

=============================================================================
