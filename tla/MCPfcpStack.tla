------------------------------ MODULE MCPfcpStack -----------------------------
(* PfcpStack with the values the configurations give its constants. *)
EXTENDS PfcpStack
==============================================================================
