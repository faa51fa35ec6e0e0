-------------------------------- MODULE Boot --------------------------------
(***************************************************************************)
(* The life of a service's binary, as the README has main written: read    *)
(* the configuration, set telemetry up, open the Postgres pool, run until  *)
(* cancelled, and undo what was built in the reverse order.                *)
(*                                                                         *)
(* Each part is this repository's: config.Env, prometheus.Reader and       *)
(* otel.Setup, postgres.New.  What runs in between is app.Run, which       *)
(* returns some time after it is cancelled or a runner fails and may leave *)
(* handlers behind it (App and Server say when); of those handlers the     *)
(* readiness probe and one that works on a connection of the pool are kept *)
(* here, since closing the pool waits for the connections they hold.       *)
(***************************************************************************)
EXTENDS Probe, Integers, Sequences

CONSTANTS Environments, \* what main may read, and what the environment holds of it
          Telemetries,  \* what it may hand otel.Setup
          Pools,        \* what it may hand postgres.New
          Milli,        \* units of a duration in a millisecond
          MaxInt32,     \* the largest bound in milliseconds the server accepts
          DefaultStatementTimeout,
          Postgres      \* the check that pings the pool, as its context allows

ASSUME BootAssumption ==
    /\ Milli \in Nat \ {0} /\ MaxInt32 \in Nat
    /\ DefaultStatementTimeout \div Milli \in 1 .. MaxInt32
    /\ Postgres \in Honouring

\* What is read is of one of Env's kinds, and any text parses as a string.
ASSUME EnvironmentAssumption ==
    \A e \in Environments : \A k \in DOMAIN e.reads :
        /\ e.reads[k].kind \in {"required", "string", "int", "between", "list", "duration"}
        /\ e.reads[k].kind \in {"required", "string"} /\ e.raw[k].set => e.raw[k].parses

VARIABLES env,       \* the settings main reads, and the raw value of each
          tel,       \* the telemetry it wants
          db,        \* the pool it wants
          stage,     \* how far main has come
          problems,  \* Env.errs, by the setting they name
          provider,  \* "none", "up" or "shut", for the tracer and the meter
          installed, \* the OpenTelemetry globals are this process's
          pool,      \* "none", "open", "closing" or "closed"
          held,      \* what a handler has of the pool: "none", a connection
                     \* "between" two statements, or one in a "statement"
          deferred   \* what main has deferred, the last one first

bootVars == <<env, tel, db, stage, problems, provider, installed, pool, held, deferred>>
vars     == <<probeVars, bootVars>>

-----------------------------------------------------------------------------
(***************************************************************************)
(* config.Env.  A raw value is set or not, parses as its kind or not (for  *)
(* a list: holds no empty element), and stands for a number.               *)
(***************************************************************************)

\* Bounds that admit nothing, or a fallback outside them: the code's defect.
Defective(s) == s.kind = "between" /\ s.fallback \notin s.lo .. s.hi

\* A value that does not parse quietly replaced by the fallback.
ProblemQuiet(s, raw) ==
    \/ s.kind = "required" /\ ~raw.set
    \/ Defective(s)
    \/ s.kind = "between" /\ raw.set /\ raw.parses /\ raw.n \notin s.lo .. s.hi

\* What is recorded against a setting, by Required, Int, IntBetween, List and
\* Duration; String records nothing.
Problem(s, raw) ==
    \/ s.kind = "required" /\ ~raw.set
    \/ Defective(s)
    \/ s.kind \in {"int", "between", "list", "duration"} /\ raw.set /\ ~raw.parses
    \/ s.kind = "between" /\ raw.set /\ raw.parses /\ raw.n \notin s.lo .. s.hi

\* What each of them returns.
Value(s, raw) ==
    IF Defective(s) THEN s.lo
    ELSE IF raw.set /\ ~Problem(s, raw) THEN raw.n ELSE s.fallback

-----------------------------------------------------------------------------
(***************************************************************************)
(* otel.Setup and postgres.New.                                            *)
(***************************************************************************)

\* parseBaseURL: absolute, http or https, a host, and nothing signalURL
\* would drop.
IsBaseURL(u) ==
    /\ u.parses
    /\ u.scheme \in {"http", "https"}
    /\ u.host
    /\ u.carries \cap {"userinfo", "query", "fragment"} = {}

\* What Setup refuses before it builds anything.
SetupAccepts(t) ==
    /\ t.named
    /\ "nil" \notin t.readers
    /\ t.endpoint.set => IsBaseURL(t.endpoint)

\* d.Milliseconds(): whole ones, towards zero.
Milliseconds(d) == IF d < 0 THEN -((-d) \div Milli) ELSE d \div Milli

\* The statement_timeout the options leave, each of them overwriting or
\* deleting the one before it, from the default on; the DSN's own is gone.
Bound(p) ==
    LET all  == SelectSeq(<<[kind |-> "bound", d |-> DefaultStatementTimeout]>> \o p.options,
                          LAMBDA o : o.kind \in {"bound", "unbound"})
        last == all[Len(all)]
    IN  IF last.kind = "unbound" THEN [sent |-> FALSE, ms |-> 0]
        ELSE [sent |-> TRUE, ms |-> Milliseconds(last.d)]

\* A bound of zero let through, which Postgres reads as none.
CheckStatementTimeoutOfNegative(p) ==
    Bound(p).sent => Bound(p).ms \in 0 .. MaxInt32

\* checkStatementTimeout: none, or from one millisecond to what fits 32 bits.
CheckStatementTimeout(p) ==
    Bound(p).sent => Bound(p).ms \in 1 .. MaxInt32

\* The server cuts a statement off: it was sent a bound above zero.
IsBounded(p) == Bound(p).sent /\ Bound(p).ms > 0

-----------------------------------------------------------------------------
Providers == {"tracer", "meter"}

BootInit ==
    /\ env \in Environments
    /\ tel \in Telemetries
    /\ db \in Pools
    /\ stage = "config"
    /\ problems = {}
    /\ provider = [p \in Providers |-> "none"]
    /\ installed = FALSE
    /\ pool = "none"
    /\ held = "none"
    /\ deferred = <<>>

\* main returns an error: what it deferred runs.
Fail == stage' = "unwind"

\* The whole struct is read, and Err asked once.
ReadConfig ==
    /\ stage = "config"
    /\ problems' = {k \in DOMAIN env.reads : Problem(env.reads[k], env.raw[k])}
    /\ IF problems' = {} THEN stage' = "telemetry" ELSE Fail
    /\ UNCHANGED <<probeVars, env, tel, db, provider, installed, pool, held, deferred>>

\* prometheus.Reader fails: its registry knows one of its names already.
ReaderFails ==
    /\ stage = "telemetry"
    /\ "prometheus" \in tel.readers
    /\ Fail
    /\ UNCHANGED <<probeVars, env, tel, db, problems, provider, installed, pool, held, deferred>>

\* Setup refuses what it is given, or the resource does not merge: nothing is
\* built.
SetupFails ==
    /\ stage = "telemetry"
    /\ Fail
    /\ UNCHANGED <<probeVars, env, tel, db, problems, provider, installed, pool, held, deferred>>

\* newTracerProvider: a connection to the collector, if one is named.
BuildTracer ==
    /\ stage = "telemetry"
    /\ SetupAccepts(tel)
    /\ provider' = [provider EXCEPT !["tracer"] = "up"]
    /\ stage' = "tracer"
    /\ UNCHANGED <<probeVars, env, tel, db, problems, installed, pool, held, deferred>>

\* newMeterProvider fails, and the error alone is returned.
MeterFailsAlone ==
    /\ stage = "tracer"
    /\ tel.endpoint.set
    /\ Fail
    /\ UNCHANGED <<probeVars, env, tel, db, problems, provider, installed, pool, held, deferred>>

\* newMeterProvider fails, having an exporter to open: the tracer is shut
\* down and nothing is installed.
MeterFails ==
    /\ stage = "tracer"
    /\ tel.endpoint.set
    /\ provider' = [provider EXCEPT !["tracer"] = "shut"]
    /\ Fail
    /\ UNCHANGED <<probeVars, env, tel, db, problems, installed, pool, held, deferred>>

\* Both are built and become the globals; main defers their shutdown.
Install ==
    /\ stage = "tracer"
    /\ provider' = [provider EXCEPT !["meter"] = "up"]
    /\ installed' = TRUE
    /\ deferred' = <<"telemetry">> \o deferred
    /\ stage' = "pool"
    /\ UNCHANGED <<probeVars, env, tel, db, problems, pool, held>>

\* New refuses the DSN or the bound, or the pool does not open.
PoolFails ==
    /\ stage = "pool"
    /\ Fail
    /\ UNCHANGED <<probeVars, env, tel, db, problems, provider, installed, pool, held, deferred>>

OpenPool ==
    /\ stage = "pool"
    /\ db.parses
    /\ CheckStatementTimeout(db)
    /\ pool' = "open"
    /\ deferred' = <<"pool">> \o deferred
    /\ stage' = "run"
    /\ UNCHANGED <<probeVars, env, tel, db, problems, provider, installed, held>>

-----------------------------------------------------------------------------
(***************************************************************************)
(* What runs while app.Run does, and what it may leave behind.             *)
(***************************************************************************)

Serving == stage \in {"run", "unwind"} /\ pool # "none"

\* What a step of a handler's on its connection leaves alone.
HandlerOnly ==
    UNCHANGED <<probeVars, env, tel, db, stage, problems, provider, installed, pool, deferred>>

\* A handler takes a connection, to send a statement or to begin a transaction;
\* a pool that is being closed hands none out.
Acquire ==
    /\ Serving /\ pool = "open"
    /\ held = "none" /\ held' = "between"
    /\ HandlerOnly

SendStatement ==
    /\ Serving
    /\ held = "between" /\ held' = "statement"
    /\ HandlerOnly

\* The server answers, however long the statement took.
StatementAnswered ==
    /\ Serving
    /\ dep[Postgres] = "up"
    /\ held = "statement" /\ held' = "between"
    /\ HandlerOnly

\* The server cuts the statement off at its bound, or is gone and the
\* connection broken.  One that says nothing does neither.
StatementCutOff ==
    /\ Serving
    /\ (dep[Postgres] = "up" /\ IsBounded(db)) \/ dep[Postgres] = "down"
    /\ held = "statement" /\ held' = "between"
    /\ HandlerOnly

\* The connection goes back: the handler is through, or its transaction ends.
Release ==
    /\ Serving
    /\ held = "between" /\ held' = "none"
    /\ HandlerOnly

\* A handler is at work while the server runs and past a drain that expired.
AtWork(Step) == Serving /\ Step /\ UNCHANGED bootVars

ProbeBegins == stage = "run" /\ AtWork(ProbeArrives)

ProbeGoesOn == AtWork(ProbeStep)

\* A ping that finds the pool closing before it has a connection is refused.
PingRefused ==
    /\ Serving /\ pool = "closing"
    /\ check[Postgres] = "asking"
    /\ check' = [check EXCEPT ![Postgres] = "failed"]
    /\ UNCHANGED <<dep, probe, results, done, failed, wasUp, wasDown, bootVars>>

Weather ==
    /\ Serving
    /\ \E c \in Checks, state \in {"up", "down", "hung"} : DependencyMoves(c, state)
    /\ UNCHANGED bootVars

\* app.Run returns: it was told to stop, or a runner failed.
RunReturns ==
    /\ stage = "run"
    /\ stage' = "unwind"
    /\ UNCHANGED <<probeVars, env, tel, db, problems, provider, installed, pool, held, deferred>>

-----------------------------------------------------------------------------
(***************************************************************************)
(* What main deferred.                                                     *)
(***************************************************************************)

\* pool.Close: from now on nobody is handed a connection, which a probe that is
\* still asking may meet as it would a database that is down.
BeginClose ==
    /\ stage = "unwind"
    /\ deferred # <<>> /\ Head(deferred) = "pool"
    /\ pool = "open"
    /\ pool' = "closing"
    /\ wasDown' = wasDown \cup {Postgres}
    /\ UNCHANGED <<dep, probe, check, results, done, failed, wasUp,
                   env, tel, db, stage, problems, provider, installed, held, deferred>>

\* It returns once every connection is back: the handler's, in a statement or
\* between two of a transaction, and the ping's.
ClosePool ==
    /\ pool = "closing"
    /\ held = "none"
    /\ check[Postgres] # "asking"
    /\ pool' = "closed"
    /\ deferred' = Tail(deferred)
    /\ UNCHANGED <<probeVars, env, tel, db, stage, problems, provider, installed, held>>

\* Shutdown: every one is called, whatever the others answered.
ShutTelemetry ==
    /\ stage = "unwind"
    /\ deferred # <<>> /\ Head(deferred) = "telemetry"
    /\ provider' = [p \in Providers |-> "shut"]
    /\ deferred' = Tail(deferred)
    /\ UNCHANGED <<probeVars, env, tel, db, stage, problems, installed, pool, held>>

\* The process is gone, and whatever it still ran with it.
Exit ==
    /\ stage = "unwind"
    /\ deferred = <<>>
    /\ stage' = "exited"
    /\ UNCHANGED <<probeVars, env, tel, db, problems, provider, installed, pool, held, deferred>>

BootNext ==
    \/ ReadConfig
    \/ ReaderFails \/ SetupFails \/ BuildTracer \/ MeterFails \/ Install
    \/ PoolFails \/ OpenPool
    \/ Acquire \/ SendStatement \/ StatementAnswered \/ StatementCutOff \/ Release
    \/ ProbeBegins \/ ProbeGoesOn \/ PingRefused \/ Weather
    \/ RunReturns
    \/ BeginClose \/ ClosePool \/ ShutTelemetry \/ Exit

\* main and the deferred calls go on; a server that is there enforces the bound
\* it was sent, and one that is gone breaks its connections; a context ends at
\* its deadline, and a goroutine of a probe that can go on does.  Nothing makes
\* a dependency answer, a handler let go of its connection, or anybody cancel
\* Run.
BootFairness ==
    /\ WF_vars(StatementCutOff) /\ WF_vars(PingRefused)
    /\ WF_vars(BeginClose) /\ WF_vars(ClosePool) /\ WF_vars(ShutTelemetry) /\ WF_vars(Exit)
    /\ WF_vars(AtWork(ContextDone)) /\ WF_vars(AtWork(ProbeAnswered))
    /\ \A c \in Checks :
        /\ WF_vars(AtWork(CheckReturns(c))) /\ WF_vars(AtWork(CheckGivesUp(c)))
        /\ WF_vars(AtWork(Send(c)))

-----------------------------------------------------------------------------
\* What main was given for a setting is what its environment says, or the
\* fallback of one that says nothing.
Faithful(s, raw) ==
    /\ raw.set => raw.parses /\ Value(s, raw) = raw.n
    /\ ~raw.set => s.kind # "required" /\ Value(s, raw) = s.fallback
    /\ s.kind = "between" => Value(s, raw) \in s.lo .. s.hi

\* A boot goes on only with values that are faithful and inside their bounds,
\* and one that stops names every setting that was not, having opened nothing
\* (config.go:46-49, 90-99, 123-127).
NoQuietFallback ==
    stage # "config" =>
        /\ \A k \in DOMAIN env.reads : k \in problems \/ Faithful(env.reads[k], env.raw[k])
        /\ problems # {} => pool = "none" /\ \A p \in Providers : provider[p] = "none"

\* Whichever step fails, a process that is gone has shut down all it built; a
\* Setup that failed installed nothing (otel.go:100-101, 137-138), and a pool
\* that is closed has every connection back, those of the handlers an expired
\* drain left at work too (httpd.go:179).
NothingLeftOpen ==
    /\ stage = "exited" =>
        pool \notin {"open", "closing"} /\ \A p \in Providers : provider[p] # "up"
    /\ installed => \A p \in Providers : provider[p] # "none"
    /\ pool = "closed" => held = "none"

\* A handler whose statements end lets go of its connection in the end.
HandlersLetGo == []<>(held = "between") => []<>(held = "none")

\* The server is not silent for ever: up or down, it keeps its side.
ServerIsThere == <>[](dep[Postgres] # "hung")

\* A service that keeps the statement bound is gone some time after Run
\* returned, also with a handler left behind whose statement would never be
\* answered, as long as handlers let go and the server is there to enforce the
\* bound: no bound it was sent is one the server reads as none
\* (postgres.go:23-29, 89-102).
ExitsBounded ==
    HandlersLetGo /\ ServerIsThere =>
        (stage = "unwind" /\ Bound(db).sent ~> stage = "exited")

\* A probe is answered, by the deadline at the latest, unless a check that
\* does not honour its context waits for a dependency that says nothing, or
\* the process is gone first (health.go:90-105).
ProbesAnswered ==
    probe = "running" ~>
        \/ Answered
        \/ \E c \in Checks \ Honouring : check[c] = "asking" /\ dep[c] = "hung"
        \/ stage = "exited"

=============================================================================
