----------------------------- MODULE MCPgwcSession ----------------------------
(* PgwcSession with the values the configurations give its constants. *)
EXTENDS PgwcSession
==============================================================================
