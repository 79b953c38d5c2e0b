---------------------------- MODULE MCDelivery ----------------------------
(* Instances of Delivery for TLC; the constants are in the configurations. *)
EXTENDS Delivery
============================================================================
