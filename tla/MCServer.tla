------------------------------ MODULE MCServer ------------------------------
(***************************************************************************)
(* The instance of Server the model checker explores.  No symmetry: the    *)
(* run checks liveness.                                                    *)
(***************************************************************************)
EXTENDS Server

=============================================================================
