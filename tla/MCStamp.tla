------------------------------ MODULE MCStamp ------------------------------
(* An instance of Stamp for TLC; the constants are in the configuration. *)
EXTENDS Stamp
============================================================================
