---------------------------- MODULE MCStatusStream ----------------------------
(***************************************************************************)
(* Small instances of StatusStream for TLC.                                *)
(***************************************************************************)
EXTENDS StatusStream
=============================================================================
