------------------------- MODULE MCSchemaMigration -------------------------
(***************************************************************************)
(* SchemaMigration for TLC.                                                *)
(***************************************************************************)
EXTENDS SchemaMigration

CONSTANTS session, operation

MCRows == {session, operation}
MCImported == {session}
=============================================================================
