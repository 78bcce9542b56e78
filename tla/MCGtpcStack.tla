----------------------------- MODULE MCGtpcStack ------------------------------
(* Values of the constants of GtpcStack for TLC. *)
EXTENDS GtpcStack
==============================================================================
