-------------------------------- MODULE App --------------------------------
(***************************************************************************)
(* app.App: a fixed set of runners run side by side under one context and  *)
(* stopped together.  Run starts a goroutine per runner, the first return  *)
(* cancels the context of the others, and Run returns when the last of     *)
(* them has.                                                               *)
(*                                                                         *)
(* Runners are numbered in the order of their names, the order Run starts  *)
(* them and joins their errors in.  Those in Pairs are built by RunnerFrom *)
(* from a blocking start and a separate stop, and are modelled in full:    *)
(* the goroutine start runs in, the channel of one it reports to, and the  *)
(* select that may find both the report and the cancellation ready.  Any   *)
(* other runner is a function of the service's, which keeps the contract   *)
(* of Runner and no more.                                                  *)
(***************************************************************************)
EXTENDS Naturals

CONSTANTS N,        \* how many runners
          Pairs     \* those RunnerFrom built

ASSUME AppAssumption == N \in Nat /\ Pairs \subseteq 1 .. N

VARIABLES outer,      \* the context given to Run is cancelled
          inner,      \* the cancel of Run has been called
          started,    \* how many goroutines Run has started
          goroutine,  \* each runner's goroutine
          adapter,    \* where a RunnerFrom's function is
          body,       \* a pair's start, or a runner's own function: running, or what it returned
          errs,       \* the slot of each runner in errs
          result,     \* the runners whose errors Run joined, once it has
          alone,      \* auxiliary: the runners whose body returned uncancelled
          stoppedDead \* auxiliary: the pairs stopped although start had returned

aux  == <<alone, stoppedDead>>
vars == <<outer, inner, started, goroutine, adapter, body, errs, result, alone, stoppedDead>>

Runners == 1 .. N
Errors  == {"nil", "error"}

\* What result holds before Run returns.
Running == {0}

\* ctx.Done() of a context that does not derive from the caller's.
CtxDoneDetached == inner

\* ctx.Done() of the derived context: it follows its parent.
CtxDone == outer \/ inner

AppReturned == result # Running

-----------------------------------------------------------------------------
Init ==
    /\ outer = FALSE
    /\ inner = FALSE
    /\ started = 0
    /\ goroutine = [r \in Runners |-> "off"]
    /\ adapter = [r \in Runners |-> "off"]
    /\ body = [r \in Runners |-> "off"]
    /\ errs = [r \in Runners |-> "nil"]
    /\ result = Running
    /\ alone = {}
    /\ stoppedDead = {}

\* SIGTERM reaches main, or the App above this one is stopping.
CancelOuter ==
    /\ ~outer
    /\ outer' = TRUE
    /\ UNCHANGED <<inner, started, goroutine, adapter, body, errs, result, aux>>

\* wg.Go for the next name.  Nothing asks whether the context is cancelled
\* already, so a runner is started under one that a runner before it failed.
\* RunnerFrom's function spawns start and comes to its select.
Go(r) ==
    /\ ~AppReturned
    /\ started = r - 1
    /\ started' = r
    /\ goroutine' = [goroutine EXCEPT ![r] = "running"]
    /\ adapter' = [adapter EXCEPT ![r] = IF r \in Pairs THEN "select" ELSE "none"]
    /\ body' = [body EXCEPT ![r] = "running"]
    /\ UNCHANGED <<outer, inner, errs, result, aux>>

\* runner.Run(ctx) has returned e: errs[i] = err, and the log line.
Record(r, e) ==
    /\ errs' = [errs EXCEPT ![r] = e]
    /\ goroutine' = [goroutine EXCEPT ![r] = "leaving"]

\* The body of r has returned e.
BodyReturns(r, e) ==
    /\ body' = [body EXCEPT ![r] = e]
    /\ alone' = IF CtxDone THEN alone ELSE alone \cup {r}

\* A runner of the service's own returns, cancelled or not.
PlainReturn(r, e) ==
    /\ r \notin Pairs
    /\ goroutine[r] = "running"
    /\ BodyReturns(r, e)
    /\ Record(r, e)
    /\ UNCHANGED <<outer, inner, started, adapter, result, stoppedDead>>

\* done <- start(): the channel holds one, so start's goroutine never blocks
\* on it.  start returns by itself, or because stop was called.
StartReturns(p, e) ==
    /\ p \in Pairs
    /\ body[p] = "running"
    /\ BodyReturns(p, e)
    /\ UNCHANGED <<outer, inner, started, goroutine, adapter, errs, result, stoppedDead>>

Reported(p) == body[p] \in Errors

\* case err := <-done: return err
SelectDone(p) ==
    /\ adapter[p] = "select"
    /\ Reported(p)
    /\ adapter' = [adapter EXCEPT ![p] = "none"]
    /\ Record(p, body[p])
    /\ UNCHANGED <<outer, inner, started, body, result, aux>>

\* case <-ctx.Done(), and the call of stop().  A select with both cases ready
\* takes either, so start may have reported already.
SelectCancelled(p) ==
    /\ adapter[p] = "select"
    /\ CtxDone
    /\ adapter' = [adapter EXCEPT ![p] = "stopping"]
    /\ stoppedDead' = IF Reported(p) THEN stoppedDead \cup {p} ELSE stoppedDead
    /\ UNCHANGED <<outer, inner, started, goroutine, body, errs, result, alone>>

\* stop() returns, and the adapter with it, without waiting for start.
StopReturnsAtOnce(p) ==
    /\ adapter[p] = "stopping"
    /\ adapter' = [adapter EXCEPT ![p] = "none"]
    /\ Record(p, "nil")
    /\ UNCHANGED <<outer, inner, started, body, result, aux>>

\* stop() returns.
StopReturns(p) ==
    /\ adapter[p] = "stopping"
    /\ adapter' = [adapter EXCEPT ![p] = "draining"]
    /\ UNCHANGED <<outer, inner, started, goroutine, body, errs, result, aux>>

\* A start that was stopped is taken to have stopped cleanly.
DrainDropsError(p) ==
    /\ adapter[p] = "draining"
    /\ Reported(p)
    /\ adapter' = [adapter EXCEPT ![p] = "none"]
    /\ Record(p, "nil")
    /\ UNCHANGED <<outer, inner, started, body, result, aux>>

\* return <-done
Drain(p) ==
    /\ adapter[p] = "draining"
    /\ Reported(p)
    /\ adapter' = [adapter EXCEPT ![p] = "none"]
    /\ Record(p, body[p])
    /\ UNCHANGED <<outer, inner, started, body, result, aux>>

\* What errgroup would do: only a failure stops the rest.
LeaveOnError(r) ==
    /\ goroutine[r] = "leaving"
    /\ inner' = (inner \/ errs[r] = "error")
    /\ goroutine' = [goroutine EXCEPT ![r] = "gone"]
    /\ UNCHANGED <<outer, started, adapter, body, errs, result, aux>>

\* The deferred cancel, error or not, and the wg.Done of wg.Go after it.
Leave(r) ==
    /\ goroutine[r] = "leaving"
    /\ inner' = TRUE
    /\ goroutine' = [goroutine EXCEPT ![r] = "gone"]
    /\ UNCHANGED <<outer, started, adapter, body, errs, result, aux>>

\* wg.Wait(), errors.Join(errs...) and the deferred cancel of Run.
Join ==
    /\ ~AppReturned
    /\ started = N
    /\ \A r \in Runners : goroutine[r] = "gone"
    /\ result' = {r \in Runners : errs[r] = "error"}
    /\ inner' = TRUE
    /\ UNCHANGED <<outer, started, goroutine, adapter, body, errs, aux>>

\* Run has returned, and whoever called it is done with it.
Stopped ==
    /\ AppReturned
    /\ UNCHANGED vars

Next ==
    \/ CancelOuter
    \/ \E r \in Runners : Go(r)
    \/ \E r \in Runners, e \in Errors : PlainReturn(r, e)
    \/ \E p \in Pairs, e \in Errors : StartReturns(p, e)
    \/ \E p \in Pairs : SelectDone(p)
    \/ \E p \in Pairs : SelectCancelled(p)
    \/ \E p \in Pairs : StopReturns(p)
    \/ \E p \in Pairs : Drain(p)
    \/ \E r \in Runners : Leave(r)
    \/ Join
    \/ Stopped

(***************************************************************************)
(* Fairness.  App's own goroutines are scheduled.  A runner of the         *)
(* service's returns once its context is cancelled, which is the contract  *)
(* of Runner (app.go:31-33); and stop returns and makes start return,      *)
(* which is the one of RunnerFrom (app.go:57).  Nothing makes a runner     *)
(* return by itself, and nothing makes the outer context be cancelled.     *)
(***************************************************************************)
PlainStops(r) == CtxDone /\ \E e \in Errors : PlainReturn(r, e)

StopStops(p) ==
    /\ adapter[p] \in {"stopping", "draining"}
    /\ \E e \in Errors : StartReturns(p, e)

Fairness ==
    /\ WF_vars(Join)
    /\ \A r \in Runners : WF_vars(Go(r)) /\ WF_vars(Leave(r)) /\ WF_vars(PlainStops(r))
    /\ \A p \in Pairs :
        /\ WF_vars(SelectDone(p) \/ SelectCancelled(p))
        /\ WF_vars(StopReturns(p))
        /\ WF_vars(StopStops(p))
        /\ WF_vars(Drain(p))

Spec == Init /\ [][Next]_vars /\ Fairness

-----------------------------------------------------------------------------
TypeOK ==
    /\ outer \in BOOLEAN
    /\ inner \in BOOLEAN
    /\ started \in 0 .. N
    /\ goroutine \in [Runners -> {"off", "running", "leaving", "gone"}]
    /\ adapter \in [Runners -> {"off", "none", "select", "stopping", "draining"}]
    /\ body \in [Runners -> {"off", "running"} \cup Errors]
    /\ errs \in [Runners -> Errors]
    /\ result \in (SUBSET Runners) \cup {Running}
    /\ alone \subseteq Runners
    /\ stoppedDead \subseteq Pairs

\* Run returns only once nothing it started is running any more: no runner,
\* and no start of a pair (app.go:88-90, 57).
NothingOutlivesRun ==
    AppReturned => \A r \in Runners : goroutine[r] = "gone" /\ body[r] \in Errors

\* Every error a runner or a start reported is in what Run returns, and
\* nothing else is, on whichever way down it was reported (app.go:92-93).
ErrorsJoined ==
    AppReturned => result = {r \in Runners : body[r] = "error"}

\* Nobody is stopped for nothing: behind every cancellation is the caller's
\* own, or a runner that returned while nothing asked it to (app.go:89-90).
CancelHasCause ==
    inner /\ ~outer /\ N > 0 => alone # {}

\* app_test.go:137-139: a start returning on its own is reported without stop
\* being called.
StopsOnlyTheRunning == stoppedDead = {}

\* One runner returning, error or not, or the caller's cancellation, brings
\* Run down with every other (app.go:88-90).
OneBringsDownAll ==
    (outer \/ \E r \in Runners : goroutine[r] \in {"leaving", "gone"}) ~> AppReturned

\* An App is a Runner, which is what lets it be mounted in another App
\* (app_test.go:157-159).
Contract == INSTANCE Runner WITH cancelled <- outer, returned <- AppReturned

IsARunner == Contract!Spec

=============================================================================
