----------------------------- MODULE MCCadence -----------------------------
(***************************************************************************)
(* The instance of Cadence the model checker explores.                     *)
(***************************************************************************)
EXTENDS Cadence, TLC

\* A request has no identity of its own, and neither has a caller.
Symmetry == Permutations(Requests) \cup Permutations(Keys)

=============================================================================
