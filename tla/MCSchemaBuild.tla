--------------------------- MODULE MCSchemaBuild ---------------------------
(***************************************************************************)
(* SchemaBuild with its real script; three starts, so that a rebuild can   *)
(* follow a rebuild that failed or was killed.                             *)
(***************************************************************************)
EXTENDS SchemaBuild
=============================================================================
