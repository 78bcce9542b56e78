----------------------------- MODULE MCEmmAttach -----------------------------
(* EmmAttach with the values the configurations give its constants. *)
EXTENDS EmmAttach
=============================================================================
