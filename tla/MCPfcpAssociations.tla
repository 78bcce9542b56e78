-------------------------- MODULE MCPfcpAssociations --------------------------
(* PfcpAssociations with the values the configurations give its constants. *)
EXTENDS PfcpAssociations
==============================================================================
