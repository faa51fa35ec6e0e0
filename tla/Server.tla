------------------------------- MODULE Server -------------------------------
(***************************************************************************)
(* transport/http.Server: Run binds, serves, and on cancellation drains    *)
(* the requests in flight within the shutdown timeout.                     *)
(*                                                                         *)
(* Two goroutines of the package run here: Run itself, which blocks in     *)
(* Serve and then waits, and the watcher, which blocks on the context and  *)
(* then in Shutdown.  Serve and Shutdown are net/http's; they are modelled *)
(* as Run uses them: Shutdown closes the listener, waits for Serve to      *)
(* leave, then polls until no request is in flight or its context is done, *)
(* and closes no connection that is serving; Serve answers ErrServerClosed *)
(* once Shutdown has been called, even when it was called before it.  A    *)
(* connection is kept alive between its requests, so one that Shutdown is  *)
(* about to close as idle may come in with another.  Handlers are the      *)
(* service's, and may hang.                                                *)
(***************************************************************************)
EXTENDS Naturals

CONSTANTS Conns       \* the connections clients open

VARIABLES outer,      \* the context given to Run is cancelled
          inner,      \* the cancel of Run has been called
          run,        \* where Run is
          listener,   \* the listener Run serves
          serveErr,   \* what Serve returned
          watcher,    \* where the watcher is
          expired,    \* the context of the drain is past its timeout
          lnerr,      \* what closing the listener gave Shutdown
          shutdownErr,\* what Shutdown returned
          conn,       \* each connection: active while a handler serves its request
          result      \* what Run returned

vars == <<outer, inner, run, listener, serveErr, watcher, expired, lnerr, shutdownErr, conn, result>>

\* ctx.Done() of a context that does not derive from the caller's.
CtxDoneDetached == inner

\* ctx.Done() of the context Run derives.
CtxDone == outer \/ inner

\* The server's inShutdown: Shutdown has been called.
InShutdown == watcher \in {"polling", "sleeping", "done"}

InFlight == {c \in Conns : conn[c] = "active"}

RunReturned == run = "returned"

\* What Run answers, a failure of the shutdown going first.
VerdictIgnoringShutdown == IF serveErr # "closed" THEN "serve" ELSE "nil"

\* What Run answers, from what Serve and Shutdown returned.
Verdict ==
    IF serveErr # "closed" THEN "serve"
    ELSE IF shutdownErr # "nil" THEN "shutdown"
    ELSE "nil"

-----------------------------------------------------------------------------
Init ==
    /\ outer = FALSE
    /\ inner = FALSE
    /\ run = "binding"
    /\ listener = "none"
    /\ serveErr = "none"
    /\ watcher = "off"
    /\ expired = FALSE
    /\ lnerr = "nil"
    /\ shutdownErr = "none"
    /\ conn = [c \in Conns |-> "new"]
    /\ result = "none"

\* The App above, or main, stops this runner.
CancelOuter ==
    /\ ~outer
    /\ outer' = TRUE
    /\ UNCHANGED <<inner, run, listener, serveErr, watcher, expired, lnerr, shutdownErr, conn, result>>

\* net.Listen fails, and so does Run, with nothing started.
BindFails ==
    /\ run = "binding"
    /\ run' = "returned"
    /\ result' = "listen"
    /\ UNCHANGED <<outer, inner, listener, serveErr, watcher, expired, lnerr, shutdownErr, conn>>

\* The listener is bound, or came from WithListener, and the watcher starts.
Bind ==
    /\ run = "binding"
    /\ run' = "starting"
    /\ listener' = "open"
    /\ watcher' = "waiting"
    /\ UNCHANGED <<outer, inner, serveErr, expired, lnerr, shutdownErr, conn, result>>

\* Run calls Serve before Shutdown was called: Serve tracks the listener.
ServeStarts ==
    /\ run = "starting"
    /\ ~InShutdown
    /\ run' = "serving"
    /\ UNCHANGED <<outer, inner, listener, serveErr, watcher, expired, lnerr, shutdownErr, conn, result>>

\* Serve returns e, closing the listener as it does.
ServeReturns(e) ==
    /\ run' = "served"
    /\ serveErr' = e
    /\ listener' = "closed"
    /\ UNCHANGED <<outer, inner, watcher, expired, lnerr, shutdownErr, conn, result>>

\* Run calls Serve after the watcher called Shutdown, or Shutdown closes the
\* listener Serve is accepting on.
ServeFindsShutdown ==
    /\ run \in {"starting", "serving"}
    /\ InShutdown
    /\ ServeReturns("closed")

\* The listener fails under Serve, and nobody asked for it.
ServeFails ==
    /\ run = "serving"
    /\ ~InShutdown
    /\ ServeReturns("failed")

\* Serve accepts a connection and its request reaches the handler.
Accept(c) ==
    /\ run = "serving"
    /\ listener = "open"
    /\ conn[c] = "new"
    /\ conn' = [conn EXCEPT ![c] = "active"]
    /\ UNCHANGED <<outer, inner, run, listener, serveErr, watcher, expired, lnerr, shutdownErr, result>>

\* The handler of c returns.  It may never, and it may after Run has.  The
\* connection is kept for another request unless Shutdown has been called.
HandlerReturns(c) ==
    /\ conn[c] = "active"
    /\ conn' = [conn EXCEPT ![c] = IF InShutdown THEN "closed" ELSE "idle"]
    /\ UNCHANGED <<outer, inner, run, listener, serveErr, watcher, expired, lnerr, shutdownErr, result>>

\* Another request on a connection kept alive.  Its goroutine is net/http's
\* and asks nobody: it runs until the connection is closed.
NextRequest(c) ==
    /\ conn[c] = "idle"
    /\ conn' = [conn EXCEPT ![c] = "active"]
    /\ UNCHANGED <<outer, inner, run, listener, serveErr, watcher, expired, lnerr, shutdownErr, result>>

\* <-ctx.Done(), and Shutdown is called: no listener accepts any more.  With
\* Serve not yet called there is no listener Shutdown knows of to close; the
\* one it closes may fail to, and Shutdown keeps that to return.
ShutdownStarts ==
    /\ watcher = "waiting"
    /\ CtxDone
    /\ watcher' = "polling"
    /\ \/ /\ run = "serving"
          /\ listener' = "closed"
          /\ lnerr' \in {"nil", "close"}
       \/ run # "serving" /\ UNCHANGED <<listener, lnerr>>
    /\ UNCHANGED <<outer, inner, run, serveErr, expired, shutdownErr, conn, result>>

\* The drain's own timeout passes, counted from the call of Shutdown.
Expire ==
    /\ watcher \in {"polling", "sleeping"}
    /\ ~expired
    /\ expired' = TRUE
    /\ UNCHANGED <<outer, inner, run, listener, serveErr, watcher, lnerr, shutdownErr, conn, result>>

\* Shutdown, with Serve out of its loop, closes what is idle; it returns, with
\* what the listener gave it, if nothing is in flight, and waits for its ticker or its context otherwise.
Poll ==
    /\ watcher = "polling"
    /\ run # "serving"
    /\ conn' = [c \in Conns |-> IF conn[c] = "idle" THEN "closed" ELSE conn[c]]
    /\ watcher' = IF InFlight = {} THEN "done" ELSE "sleeping"
    /\ shutdownErr' = IF InFlight = {} THEN lnerr ELSE shutdownErr
    /\ UNCHANGED <<outer, inner, run, listener, serveErr, expired, lnerr, result>>

\* The ticker of Shutdown.
PollAgain ==
    /\ watcher = "sleeping"
    /\ watcher' = "polling"
    /\ UNCHANGED <<outer, inner, run, listener, serveErr, expired, lnerr, shutdownErr, conn, result>>

\* A drain under a context derived from the one whose end triggered it.
ShutdownDerived ==
    /\ watcher = "sleeping"
    /\ watcher' = "done"
    /\ shutdownErr' = "timeout"
    /\ UNCHANGED <<outer, inner, run, listener, serveErr, expired, lnerr, conn, result>>

\* Shutdown gives up: what is in flight stays in flight.
ShutdownTimesOut ==
    /\ watcher = "sleeping"
    /\ expired
    /\ watcher' = "done"
    /\ shutdownErr' = "timeout"
    /\ UNCHANGED <<outer, inner, run, listener, serveErr, expired, lnerr, conn, result>>

\* Run goes on to wait without cancelling what the watcher waits for.
WaitUncancelled ==
    /\ run = "served"
    /\ run' = "waiting"
    /\ UNCHANGED <<outer, inner, listener, serveErr, watcher, expired, lnerr, shutdownErr, conn, result>>

\* cancel(): the watcher leaves its wait even when Serve failed by itself.
Wait ==
    /\ run = "served"
    /\ run' = "waiting"
    /\ inner' = TRUE
    /\ UNCHANGED <<outer, listener, serveErr, watcher, expired, lnerr, shutdownErr, conn, result>>

\* A Run that returns on the heels of Serve: Serve leaves as soon as Shutdown
\* is called, not once it has drained.
ReturnAtOnce ==
    /\ run = "waiting"
    /\ run' = "returned"
    /\ result' = IF serveErr # "closed" THEN "serve" ELSE "nil"
    /\ UNCHANGED <<outer, inner, listener, serveErr, watcher, expired, lnerr, shutdownErr, conn>>

\* wg.Wait() lets Run through, and it returns.
Return ==
    /\ run = "waiting"
    /\ watcher = "done"
    /\ run' = "returned"
    /\ result' = Verdict
    /\ UNCHANGED <<outer, inner, listener, serveErr, watcher, expired, lnerr, shutdownErr, conn>>

\* Run has returned; only handlers may still be at work.
Stopped ==
    /\ RunReturned
    /\ UNCHANGED vars

Next ==
    \/ CancelOuter
    \/ BindFails
    \/ Bind
    \/ ServeStarts
    \/ ServeFindsShutdown
    \/ ServeFails
    \/ \E c \in Conns : Accept(c)
    \/ \E c \in Conns : HandlerReturns(c)
    \/ \E c \in Conns : NextRequest(c)
    \/ ShutdownStarts
    \/ Expire
    \/ Poll
    \/ PollAgain
    \/ ShutdownTimesOut
    \/ Wait
    \/ Return
    \/ Stopped

(***************************************************************************)
(* Fairness.  The two goroutines are scheduled and the timer of the drain  *)
(* fires.  Shutdown's select finds its context done on every pass once it  *)
(* has expired, and does not pick its ticker for ever: strong fairness.    *)
(* Nothing is assumed of the service's handlers, which may hang, of the    *)
(* clients, or of the listener.                                            *)
(***************************************************************************)
Fairness ==
    /\ WF_vars(Bind \/ BindFails)
    /\ WF_vars(ServeStarts \/ ServeFindsShutdown)
    /\ WF_vars(ShutdownStarts)
    /\ WF_vars(Expire)
    /\ WF_vars(Poll)
    /\ WF_vars(PollAgain)
    /\ SF_vars(ShutdownTimesOut)
    /\ WF_vars(Wait)
    /\ WF_vars(Return)

Spec == Init /\ [][Next]_vars /\ Fairness

-----------------------------------------------------------------------------
TypeOK ==
    /\ outer \in BOOLEAN
    /\ inner \in BOOLEAN
    /\ run \in {"binding", "starting", "serving", "served", "waiting", "returned"}
    /\ listener \in {"none", "open", "closed"}
    /\ serveErr \in {"none", "closed", "failed"}
    /\ watcher \in {"off", "waiting", "polling", "sleeping", "done"}
    /\ expired \in BOOLEAN
    /\ lnerr \in {"nil", "close"}
    /\ shutdownErr \in {"none", "nil", "close", "timeout"}
    /\ conn \in [Conns -> {"new", "active", "idle", "closed"}]
    /\ result \in {"none", "listen", "serve", "shutdown", "nil"}

\* A nil from Run is a clean stop: it was asked to, and every request it
\* accepted was answered before it returned (httpd.go:144-146).
NilIsClean == result = "nil" => outer /\ InFlight = {}

\* Whatever brings Run down, a listener that failed included, requests in
\* flight have the whole of the shutdown timeout before it returns
\* (httpd.go:144-146, 164-165).
DrainedOrExpired == RunReturned /\ InFlight # {} => expired

\* The watcher and the listener do not outlive Run, whether Shutdown came
\* before Serve or Serve failed before Shutdown (httpd.go:164-165, 115-117).
NothingOutlivesRun ==
    RunReturned => watcher \in {"off", "done"} /\ listener # "open"

\* httpd.go:106-107: past the shutdown timeout, Run returns and the
\* connections drop.
ConnectionsDrop == RunReturned => InFlight = {}

\* A server that has stopped serving does not hang on: Run returns, and the
\* App around it brings the process down (httpd.go:164-165).
FailureReturns == (serveErr # "none") ~> RunReturned

\* A Server is a Runner: cancelled, it returns, though a handler hangs.
Contract == INSTANCE Runner WITH cancelled <- outer, returned <- RunReturned

IsARunner == Contract!Spec

=============================================================================
