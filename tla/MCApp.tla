------------------------------- MODULE MCApp -------------------------------
(***************************************************************************)
(* The instance of App the model checker explores: runners 1 and 2 are     *)
(* built by RunnerFrom, and 3 is a function of the service's own.          *)
(***************************************************************************)
EXTENDS App

MCPairs == {1, 2}

=============================================================================
