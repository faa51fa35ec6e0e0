------------------------------ MODULE MCBound -------------------------------
(***************************************************************************)
(* Three calls over two places, on a row whose password was first hashed   *)
(* at a lower cost.  One password is enough: a carrier that holds another  *)
(* is a row whose key, altered in place, is that of Flipped.               *)
(***************************************************************************)
EXTENDS Bound

\* The cost of now, and the one of an earlier deployment.
MCCosts == {1, 2}

=============================================================================
