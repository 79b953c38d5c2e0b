----------------------------- MODULE MCCheetah -----------------------------
(* Instances of Cheetah for TLC; the constants are in the configurations. *)
EXTENDS Cheetah
============================================================================
