---------------------------- MODULE MCRestServer ----------------------------
(***************************************************************************)
(* Constants for RestServer: two clients share a single thread, so that    *)
(* one of them can keep it from the other.                                 *)
(***************************************************************************)
EXTENDS RestServer

CONSTANTS c1, c2
=============================================================================
