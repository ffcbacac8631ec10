--------------------------- MODULE MCRequestPath ---------------------------
(* RequestPath on a small instance: see RequestPath.cfg.                   *)
EXTENDS RequestPath, TLC

Symmetry == Permutations(Requests) \cup Permutations(Owners)
=============================================================================
