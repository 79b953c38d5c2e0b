---------------------------- MODULE MCConnection ----------------------------
(* An instance of Connection for TLC; its constants are in the .cfg. *)
EXTENDS Connection
=============================================================================
