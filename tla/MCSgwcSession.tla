----------------------------- MODULE MCSgwcSession ----------------------------
(* SgwcSession with the values the configurations give its constants. *)
EXTENDS SgwcSession
==============================================================================
