-------------------------- MODULE MCHssAuthentication --------------------------
(* HssAuthentication with the values the configurations give its constants. *)
EXTENDS HssAuthentication
=============================================================================
