------------------------------- MODULE Probe -------------------------------
(***************************************************************************)
(* The readiness handler of health: serve starts every check in a          *)
(* goroutine of its own under one deadline, each sends what it found into  *)
(* a channel with room for all of them, and the verdict is read once the   *)
(* last has been sent.                                                     *)
(*                                                                         *)
(* A check asks a dependency, which may be up, down, or hung and answer    *)
(* nothing.  It is the service's: one that honours its context gives up at *)
(* the deadline, or when the caller has gone; another waits for its        *)
(* dependency however long that takes.                                     *)
(***************************************************************************)
EXTENDS Naturals, FiniteSets

CONSTANTS Checks,    \* the checks the handler was built with
          Honouring  \* those that give up when their context is done

ASSUME ProbeAssumption == Honouring \subseteq Checks /\ IsFiniteSet(Checks)

VARIABLES dep,     \* each check's dependency: "up", "down" or "hung"
          probe,   \* "none", "running" or "answered"
          check,   \* where each check is, and what it found
          results, \* the channel: the checks that have sent what they found
          done,    \* the context of the checks is done: deadline, or caller gone
          failed,  \* what the answer names: 503 if any, 200 if none
          wasUp,   \* auxiliary: the dependencies that have been up since it began
          wasDown  \* auxiliary: those that have been down, hung or closed to it

probeVars == <<dep, probe, check, results, done, failed, wasUp, wasDown>>

-----------------------------------------------------------------------------
ProbeInit ==
    /\ dep \in [Checks -> {"up", "hung"}]
    /\ probe = "none"
    /\ check = [c \in Checks |-> "idle"]
    /\ results = {}
    /\ done = FALSE
    /\ failed = {}
    /\ wasUp = {}
    /\ wasDown = {}

\* What the dependencies are as a step leaves them, kept for the verdict.
Witness(up, down) ==
    /\ wasUp'   = up \cup {c \in Checks : dep'[c] = "up"}
    /\ wasDown' = down \cup {c \in Checks : dep'[c] # "up"}

DependencyMoves(c, state) ==
    /\ dep[c] # state
    /\ dep' = [dep EXCEPT ![c] = state]
    /\ Witness(wasUp, wasDown)
    /\ UNCHANGED <<probe, check, results, done, failed>>

\* A probe arrives: its context, its channel, and a goroutine per check.
ProbeArrives ==
    /\ probe # "running"
    /\ probe' = "running"
    /\ check' = [c \in Checks |-> "asking"]
    /\ results' = {}
    /\ done' = FALSE
    /\ failed' = {}
    /\ UNCHANGED dep
    /\ Witness({}, {})

\* The deadline passes, or the caller hangs up.
ContextDone ==
    /\ probe = "running"
    /\ ~done
    /\ done' = TRUE
    /\ UNCHANGED <<dep, probe, check, results, failed, wasUp, wasDown>>

\* A check hears from its dependency.
CheckReturns(c) ==
    /\ check[c] = "asking"
    /\ dep[c] # "hung"
    /\ check' = [check EXCEPT ![c] = IF dep[c] = "up" THEN "passed" ELSE "failed"]
    /\ UNCHANGED <<dep, probe, results, done, failed, wasUp, wasDown>>

\* A check gives up with its context's error, whatever its dependency is.
CheckGivesUp(c) ==
    /\ check[c] = "asking"
    /\ c \in Honouring
    /\ done
    /\ check' = [check EXCEPT ![c] = "failed"]
    /\ UNCHANGED <<dep, probe, results, done, failed, wasUp, wasDown>>

\* A channel with room for one result, read only after the last is sent.
HasRoomForOne == results = {}

\* make(chan outcome, len(rd.checks))
HasRoom == Cardinality(results) < Cardinality(Checks)

\* A check's goroutine sends what it found, and its wg.Done follows.
Send(c) ==
    /\ check[c] \in {"passed", "failed"}
    /\ c \notin results
    /\ HasRoom
    /\ results' = results \cup {c}
    /\ UNCHANGED <<dep, probe, check, done, failed, wasUp, wasDown>>

\* A verdict that names the first failure it meets and stops there.
NamedFirst(reports) ==
    IF \E c \in reports : check[c] = "failed"
    THEN {CHOOSE c \in reports : check[c] = "failed"} ELSE {}

\* The checks a verdict names: every result with an error.
Named(reports) == {c \in reports : check[c] = "failed"}

\* wg.Wait returns, the channel is closed and read, and the probe answered.
ProbeAnswered ==
    /\ probe = "running"
    /\ results = Checks
    /\ failed' = Named(results)
    /\ probe' = "answered"
    /\ UNCHANGED <<dep, check, results, done, wasUp, wasDown>>

ProbeStep ==
    \/ ContextDone
    \/ \E c \in Checks : CheckReturns(c)
    \/ \E c \in Checks : CheckGivesUp(c)
    \/ \E c \in Checks : Send(c)
    \/ ProbeAnswered

-----------------------------------------------------------------------------
Answered == probe = "answered"

\* The answer is about the dependencies of the time it took: a check is named
\* when its dependency was not up once in that time, and only when it was not
\* up at some point of it or the context was done first; so a 200 means that
\* every one of them has been up (health.go:68-70).
ProbeVerdict ==
    Answered =>
        /\ \A c \in Checks \ failed : c \in wasUp
        /\ \A c \in failed : c \in wasDown \/ done

=============================================================================
