--------------------------- MODULE MCCleanInstall ---------------------------
(* Small instances of CleanInstall for TLC. *)
EXTENDS CleanInstall, TLC

ProcSymmetry == Permutations(Procs)

=============================================================================
