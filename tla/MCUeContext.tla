---------------------------- MODULE MCUeContext ----------------------------
(* UeContext with the values the configurations give its constants. *)
EXTENDS UeContext

EnbSymmetry == Permutations(Enbs)
=============================================================================
