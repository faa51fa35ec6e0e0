------------------------------- MODULE Runner -------------------------------
(***************************************************************************)
(* What app.Runner promises (app/app.go:29-34): Run occupies its goroutine *)
(* until its context is cancelled or it fails, and then it returns, once.  *)
(* An App, a Server and a RunnerFrom adapter are all mounted on the        *)
(* strength of this contract, so each is shown to implement it.            *)
(***************************************************************************)

VARIABLES cancelled,   \* the context Run was given is cancelled
          returned     \* Run has returned

vars == <<cancelled, returned>>

Init == cancelled = FALSE /\ returned = FALSE

\* Whoever holds the context cancels it; it stays cancelled.
Cancel ==
    /\ ~cancelled
    /\ cancelled' = TRUE
    /\ UNCHANGED returned

\* Run returns: because its context is cancelled, or by itself.
Return ==
    /\ ~returned
    /\ returned' = TRUE
    /\ UNCHANGED cancelled

Next == Cancel \/ Return

\* A cancelled runner does return.
Stops == cancelled /\ Return

Spec == Init /\ [][Next]_vars /\ WF_vars(Stops)

=============================================================================
