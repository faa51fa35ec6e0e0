---------------------------- MODULE ServerProofs ----------------------------
(***************************************************************************)
(* What is proved of Server for any set of connections.                    *)
(*                                                                         *)
(* Run returns after the watcher, and the watcher after Shutdown has an    *)
(* error to show: nil, or the listener's own, only with every connection   *)
(* closed, and none opened since because Serve had left by then; a timeout *)
(* only past the drain's own.  Behind a Shutdown that Run did not ask for  *)
(* by itself is the caller's cancellation.                                 *)
(***************************************************************************)
EXTENDS Server, TLAPS

\* Before the bind, or when it failed, there is nothing.
NothingYet ==
    (run = "binding" \/ result = "listen") =>
        /\ watcher = "off"
        /\ listener = "none"
        /\ serveErr = "none"
        /\ conn = [c \in Conns |-> "new"]

\* Where Run is says what it has made and what is left of it.
RunsCourse ==
    /\ run = "returned" <=> result # "none"
    /\ result = "listen" => run = "returned"
    /\ inner => run \in {"waiting", "returned"}
    /\ run \in {"served", "waiting"} => listener = "closed" /\ serveErr # "none"
    /\ run \in {"binding", "starting", "serving"} => serveErr = "none"
    /\ run = "returned" /\ result # "listen" => watcher = "done" /\ listener = "closed"

\* Shutdown has a cause, and Serve answers ErrServerClosed to the caller's.
ShutdownHasCause ==
    /\ InShutdown => outer \/ inner
    /\ serveErr = "closed" => outer

\* What Shutdown returned, it returned in due form.
ShutdownInForm ==
    /\ watcher = "done" <=> shutdownErr # "none"
    /\ watcher \in {"sleeping", "done"} => run # "serving"
    /\ shutdownErr = "timeout" => expired
    /\ shutdownErr \in {"nil", "close"} => \A c \in Conns : conn[c] \in {"new", "closed"}

\* What Run returned says what Serve and Shutdown did.
NilVerdict == result = "nil" => serveErr = "closed" /\ shutdownErr = "nil"

SInv ==
    /\ TypeOK
    /\ NothingYet
    /\ RunsCourse
    /\ ShutdownHasCause
    /\ ShutdownInForm
    /\ NilVerdict

-----------------------------------------------------------------------------
LEMMA InitSInv == Init => SInv
  BY DEF Init, SInv, TypeOK, NothingYet, RunsCourse, ShutdownHasCause, ShutdownInForm,
         NilVerdict, InShutdown

\* Each step keeps the invariant: those of Run, of the watcher, of the
\* connections.
LEMMA NextSInv == SInv /\ [Next]_vars => SInv'
<1> SUFFICES ASSUME SInv, [Next]_vars PROVE SInv'
  OBVIOUS
<1> USE DEF SInv, TypeOK, NothingYet, RunsCourse, ShutdownHasCause, ShutdownInForm,
            NilVerdict, InShutdown
<1>1. CASE CancelOuter
  BY <1>1 DEF CancelOuter
<1>2. CASE BindFails
  BY <1>2 DEF BindFails
<1>3. CASE Bind
  BY <1>3 DEF Bind
<1>4. CASE ServeStarts
  BY <1>4 DEF ServeStarts
<1>5. CASE ServeFindsShutdown
  BY <1>5 DEF ServeFindsShutdown, ServeReturns
<1>6. CASE ServeFails
  BY <1>6 DEF ServeFails, ServeReturns
<1>7. CASE \E c \in Conns : Accept(c)
  BY <1>7 DEF Accept
<1>8. CASE \E c \in Conns : HandlerReturns(c)
  BY <1>8 DEF HandlerReturns
<1>9. CASE \E c \in Conns : NextRequest(c)
  BY <1>9 DEF NextRequest
<1>10. CASE ShutdownStarts
  BY <1>10 DEF ShutdownStarts, CtxDone
<1>11. CASE Expire
  BY <1>11 DEF Expire
<1>12. CASE Poll
  BY <1>12 DEF Poll, InFlight
<1>13. CASE PollAgain
  BY <1>13 DEF PollAgain
<1>14. CASE ShutdownTimesOut
  BY <1>14 DEF ShutdownTimesOut
<1>15. CASE Wait
  BY <1>15 DEF Wait
<1>16. CASE Return
  BY <1>16 DEF Return, Verdict
<1>17. CASE UNCHANGED vars
  BY <1>17 DEF vars
<1> QED BY <1>1, <1>2, <1>3, <1>4, <1>5, <1>6, <1>7, <1>8, <1>9, <1>10, <1>11, <1>12,
           <1>13, <1>14, <1>15, <1>16, <1>17 DEF Next, Stopped

\* The invariant holds of every behaviour.
THEOREM Invariance == Spec => []SInv
  BY InitSInv, NextSInv, PTL DEF Spec

\* Every variable of the server keeps its type.
THEOREM TypeCorrect == Spec => []TypeOK
<1>1. SInv => TypeOK
  BY DEF SInv
<1> QED BY <1>1, Invariance, PTL

\* A nil from Run is a clean stop (httpd.go:144-146).
THEOREM NilMeansClean == Spec => []NilIsClean
<1>1. SInv => NilIsClean
  BY DEF SInv, NilIsClean, NilVerdict, ShutdownHasCause, ShutdownInForm, InFlight
<1> QED BY <1>1, Invariance, PTL

\* Requests in flight had the whole of the shutdown timeout (httpd.go:144-146).
THEOREM DrainHonoured == Spec => []DrainedOrExpired
<1>1. SInv => DrainedOrExpired
  <2> SUFFICES ASSUME SInv, RunReturned, InFlight # {} PROVE expired
    BY DEF DrainedOrExpired
  <2>1. CASE result = "listen"
    BY <2>1 DEF SInv, NothingYet, InFlight
  <2>2. CASE result # "listen"
    BY <2>2 DEF SInv, RunReturned, RunsCourse, ShutdownInForm, InFlight, TypeOK
  <2> QED BY <2>1, <2>2
<1> QED BY <1>1, Invariance, PTL

\* No watcher and no open listener is left behind (httpd.go:164-165).
THEOREM NothingOutlives == Spec => []NothingOutlivesRun
<1>1. SInv => NothingOutlivesRun
  BY DEF SInv, NothingOutlivesRun, NothingYet, RunsCourse, RunReturned
<1> QED BY <1>1, Invariance, PTL

\* A Server is a Runner, its fairness apart: it is cancelled once and returns
\* once.
THEOREM ServerImplementsRunner == Spec => Contract!Init /\ [][Contract!Next]_Contract!vars
<1>1. Init => Contract!Init
  BY DEF Init, Contract!Init, RunReturned
<1>2. SInv /\ [Next]_vars => [Contract!Next]_Contract!vars
  <2> SUFFICES ASSUME SInv, [Next]_vars PROVE [Contract!Next]_Contract!vars
    OBVIOUS
  <2> USE DEF RunReturned, Contract!Next, Contract!vars
  <2>1. CASE CancelOuter
    BY <2>1 DEF CancelOuter, Contract!Cancel, SInv, TypeOK
  <2>2. CASE BindFails \/ Return
    BY <2>2 DEF BindFails, Return, Contract!Return
  <2>3. CASE Bind \/ ServeStarts \/ Wait
    BY <2>3 DEF Bind, ServeStarts, Wait
  <2>4. CASE ServeFindsShutdown \/ ServeFails
    BY <2>4 DEF ServeFindsShutdown, ServeFails, ServeReturns
  <2>5. CASE \E c \in Conns : Accept(c) \/ HandlerReturns(c) \/ NextRequest(c)
    BY <2>5 DEF Accept, HandlerReturns, NextRequest
  <2>6. CASE ShutdownStarts \/ Expire \/ Poll \/ PollAgain \/ ShutdownTimesOut
    BY <2>6 DEF ShutdownStarts, Expire, Poll, PollAgain, ShutdownTimesOut
  <2>7. CASE UNCHANGED vars
    BY <2>7 DEF vars
  <2> QED BY <2>1, <2>2, <2>3, <2>4, <2>5, <2>6, <2>7 DEF Next, Stopped
<1> QED BY <1>1, <1>2, Invariance, PTL DEF Spec

=============================================================================
