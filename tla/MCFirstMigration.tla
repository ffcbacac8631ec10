-------------------------- MODULE MCFirstMigration --------------------------
(***************************************************************************)
(* The first migration on a small machine.                                 *)
(***************************************************************************)
EXTENDS FirstMigration
=============================================================================
