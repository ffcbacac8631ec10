-------------------------- MODULE MCOperationLedger --------------------------
(* Small instances of OperationLedger for TLC. *)
EXTENDS OperationLedger, TLC

\* Keys and commands are only compared for equality, and calls are not ordered.
CallSymmetry == Permutations(Calls) \cup Permutations(Keys) \cup Permutations(Commands)

=============================================================================
