----------------------------- MODULE MCIttiTimers -----------------------------
(* IttiTimers with the values the configurations give its constants. *)
EXTENDS IttiTimers
==============================================================================
