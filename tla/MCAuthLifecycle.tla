--------------------------- MODULE MCAuthLifecycle ---------------------------
(* Small instances of AuthLifecycle for TLC. *)
EXTENDS AuthLifecycle, TLC

Symmetry == Permutations(Auths) \cup Permutations(Clients)

=============================================================================
