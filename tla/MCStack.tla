------------------------------ MODULE MCStack ------------------------------
(* An instance of Stack for TLC; the constants are in the configuration. *)
EXTENDS Stack
============================================================================
