------------------------------ MODULE Cadence ------------------------------
(***************************************************************************)
(* The call-rate meter of transport/http: LimitRate wrapping a route with  *)
(* the Counter that CountWithin builds for a single process.               *)
(*                                                                         *)
(* Every request the server has in flight runs in a goroutine of its own   *)
(* and reaches the same map.  count reads the service's clock BEFORE it    *)
(* takes the mutex (rate.go:215-217), so between the reading and the       *)
(* critical section any number of other requests may be counted, under     *)
(* later readings: the reading a request is judged by may be stale.  That  *)
(* is the interleaving this module is about.  The critical section itself  *)
(* holds the mutex from its first line to its last, and is one step here.  *)
(*                                                                         *)
(* Instants are natural numbers of clock ticks; Second is how many of them *)
(* make the whole second a Retry-After header counts in.                   *)
(***************************************************************************)
EXTENDS Integers, FiniteSets

CONSTANTS Requests,   \* the requests of a behaviour, each answered once
          Keys,       \* what a CallerKey can name
          NoKey,      \* CallerKey answering false
          Ceiling,    \* calls granted to a key inside one window
          Window,     \* length of a window, in ticks
          Second,     \* ticks in a second
          NoWindow,   \* what the map answers for a key it does not hold
          MaxClock    \* bound on the clock, for the model checker

\* CountWithin refuses a ceiling below one and a window of zero or less.
ASSUME CadenceAssumption ==
    /\ Ceiling \in Nat \ {0}
    /\ Window \in Nat \ {0}
    /\ Second \in Nat \ {0}
    /\ MaxClock \in Nat
    /\ NoKey \notin Keys
    /\ NoWindow \notin [opened : Nat, calls : Nat]

VARIABLES clock,    \* what now() answers
          seen,     \* cadence.seen: the window each key has open, or NoWindow
          swept,    \* cadence.swept: the reading of the last sweep
          phase,    \* where each request is
          key,      \* the caller it belongs to
          at,       \* its reading of the clock
          answer,   \* what it was answered, and on the strength of what
          latest,   \* auxiliary: the greatest reading counted so far
          sweeps    \* auxiliary: how many sweeps there have been

server == <<seen, swept>>
aux    == <<latest, sweeps>>
vars   == <<clock, seen, swept, phase, key, at, answer, latest, sweeps>>

\* The zero time.Time: at least a window before anything the clock answers.
ZeroTime == -Window

Held == {k \in Keys : seen[k] # NoWindow}

-----------------------------------------------------------------------------
(***************************************************************************)
(* What the code computes.                                                 *)
(***************************************************************************)

\* at.After(w.opened.Add(c.window)): the instant a window ends still in it.
PassedStrictly(w, t) == t > w.opened + Window

\* !at.Before(w.opened.Add(c.window))
Passed(w, t) == t >= w.opened + Window

DueForSweep(t) == t >= swept + Window

\* A sweep that keeps no window, whether it has passed or not.
ForgetAll(t) ==
    [k \in Keys |-> IF DueForSweep(t) THEN NoWindow ELSE seen[k]]

\* A sweep that never runs.
ForgetNone(t) == seen

\* The map after forget(t).
Forget(t) ==
    [k \in Keys |->
        IF DueForSweep(t) /\ seen[k] # NoWindow /\ Passed(seen[k], t)
        THEN NoWindow
        ELSE seen[k]]

\* The window a call of k read at t is charged to: the one k has open, or a
\* fresh one if it has none or its own has passed.
WindowOf(k, t) ==
    LET w == Forget(t)[k]
    IN  IF w = NoWindow \/ Passed(w, t)
        THEN [opened |-> t, calls |-> 0]
        ELSE w

\* An off-by-one in the comparison with the ceiling.
HasCallLeftOffByOne(w) == w.calls <= Ceiling

HasCallLeft(w) == w.calls < Ceiling

\* w.opened.Add(c.window).Sub(at)
Delay(w, t) == w.opened + Window - t

\* The delay in whole seconds, rounded down.
RetryAfterTruncated(d) == IF d <= Second THEN 1 ELSE d \div Second

\* The delay in whole seconds, a second added whether or not one is due.
RetryAfterPadded(d) == (d \div Second) + 1

\* The seconds of the Retry-After header: d rounded up, and never below one.
RetryAfter(d) ==
    IF d <= Second
    THEN 1
    ELSE (d \div Second) + (IF d % Second # 0 THEN 1 ELSE 0)

NoAnswer == [verdict |-> "none", opened |-> 0, delay |-> 0, retry |-> 0,
             after |-> ZeroTime, epoch |-> 0]

-----------------------------------------------------------------------------
Init ==
    /\ clock = 0
    /\ seen = [k \in Keys |-> NoWindow]
    /\ swept = ZeroTime
    /\ phase = [r \in Requests |-> "new"]
    /\ key = [r \in Requests |-> NoKey]
    /\ at = [r \in Requests |-> 0]
    /\ answer = [r \in Requests |-> NoAnswer]
    /\ latest = ZeroTime
    /\ sweeps = 0

\* time.Now carries a monotonic reading: it never steps back.
Tick ==
    /\ clock < MaxClock
    /\ clock' = clock + 1
    /\ UNCHANGED <<server, phase, key, at, answer, aux>>

\* A request its CallerKey names no caller for is served, nothing counted.
ServeUnmetered(r) ==
    /\ phase[r] = "new"
    /\ phase' = [phase EXCEPT ![r] = "answered"]
    /\ answer' = [answer EXCEPT ![r].verdict = "unmetered"]
    /\ UNCHANGED <<clock, server, key, at, aux>>

\* caller(r) names k, and count reads the clock: at := c.now().  The mutex is
\* not held.
ReadClock(r, k) ==
    /\ phase[r] = "new"
    /\ phase' = [phase EXCEPT ![r] = "read"]
    /\ key' = [key EXCEPT ![r] = k]
    /\ at' = [at EXCEPT ![r] = clock]
    /\ UNCHANGED <<clock, server, answer, aux>>

\* What every critical section of count does first: forget(at).  The
\* auxiliary variables follow.
Sweep(t) ==
    /\ swept' = IF DueForSweep(t) THEN t ELSE swept
    /\ sweeps' = IF DueForSweep(t) THEN sweeps + 1 ELSE sweeps
    /\ latest' = IF latest < t THEN t ELSE latest

\* The critical section of a call its key has a budget for, and next serving.
Serve(r) ==
    LET k == key[r]
        t == at[r]
        w == WindowOf(k, t)
    IN  /\ phase[r] = "read"
        /\ HasCallLeft(w)
        /\ Sweep(t)
        /\ seen' = [Forget(t) EXCEPT ![k] = [opened |-> w.opened, calls |-> w.calls + 1]]
        /\ answer' = [answer EXCEPT ![r] =
                        [verdict |-> "served", opened |-> w.opened, delay |-> 0,
                         retry |-> 0, after |-> latest, epoch |-> sweeps']]
        /\ phase' = [phase EXCEPT ![r] = "answered"]
        /\ UNCHANGED <<clock, key, at>>

\* The critical section of a call over the ceiling, and the 429 with its
\* Retry-After.  The window it was judged by is not written back.
Refuse(r) ==
    LET k == key[r]
        t == at[r]
        w == WindowOf(k, t)
        d == Delay(w, t)
    IN  /\ phase[r] = "read"
        /\ ~HasCallLeft(w)
        /\ Sweep(t)
        /\ seen' = Forget(t)
        /\ answer' = [answer EXCEPT ![r] =
                        [verdict |-> "refused", opened |-> w.opened, delay |-> d,
                         retry |-> RetryAfter(d), after |-> latest, epoch |-> sweeps']]
        /\ phase' = [phase EXCEPT ![r] = "answered"]
        /\ UNCHANGED <<clock, key, at>>

\* Every request has its answer: nothing is left to do but let time pass.
Quiet ==
    /\ \A r \in Requests : phase[r] = "answered"
    /\ UNCHANGED vars

Next ==
    \/ Tick
    \/ \E r \in Requests : ServeUnmetered(r)
    \/ \E r \in Requests, k \in Keys : ReadClock(r, k)
    \/ \E r \in Requests : Serve(r)
    \/ \E r \in Requests : Refuse(r)
    \/ Quiet

Spec == Init /\ [][Next]_vars

-----------------------------------------------------------------------------
Answers == [verdict : {"none", "unmetered", "served", "refused"},
            opened : Nat, delay : Nat, retry : Nat, after : Int, epoch : Nat]

TypeOK ==
    /\ clock \in Nat
    /\ seen \in [Keys -> [opened : Nat, calls : Nat] \cup {NoWindow}]
    /\ swept \in Int
    /\ phase \in [Requests -> {"new", "read", "answered"}]
    /\ key \in [Requests -> Keys \cup {NoKey}]
    /\ at \in [Requests -> Nat]
    /\ answer \in [Requests -> Answers]
    /\ latest \in Int
    /\ sweeps \in Nat

Served(r)  == answer[r].verdict = "served"
Refused(r) == answer[r].verdict = "refused"

\* r was counted after some request that had read the clock later than it did.
Late(r) == at[r] < answer[r].after

\* A refusal names a delay above zero (rate.go:226-229), and one no longer than
\* the window and what its reading was behind the readings counted before it:
\* no longer than the window when none was later, as rate.go:227-229 says of
\* every refusal, and otherwise the caller is told to wait out the window that
\* a later reading opened.
DelayBounded ==
    \A r \in Requests : Refused(r) =>
        /\ answer[r].delay > 0
        /\ answer[r].delay <= Window + (IF Late(r) THEN answer[r].after - at[r] ELSE 0)

\* "A caller coming back on the second it was told finds the call it was
\* promised" (rate.go:86): no request is refused on the strength of a window
\* that an earlier refusal of the same caller said would be over by then.
PromiseKept ==
    \A r, q \in Requests :
        /\ Refused(r) /\ Refused(q)
        /\ key[r] = key[q]
        /\ answer[r].opened = answer[q].opened
        => at[q] < at[r] + answer[r].retry * Second

\* The promise is not later than it has to be: a second sooner, the window
\* the caller was refused on is still open; one second is the least a header
\* says (rate.go:138-141).
PromiseTight ==
    \A r \in Requests : Refused(r) =>
        \/ answer[r].retry = 1
        \/ at[r] + (answer[r].retry - 1) * Second < answer[r].opened + Window

\* The requests of k whose reading is in the window opened at o.
ServedIn(k, o) ==
    {r \in Requests : Served(r) /\ key[r] = k /\ at[r] >= o /\ at[r] < o + Window}

\* Readings counted in the order they were taken spend at most the ceiling
\* between them in any window that one of them opened.
InOrderCeiling ==
    \A r \in Requests :
        Served(r) /\ ~Late(r) /\ at[r] = answer[r].opened =>
            Cardinality({q \in ServedIn(key[r], at[r]) : ~Late(q)}) <= Ceiling

\* What rate.go:153-155 says of every key: ceiling calls inside a window, and
\* the window opening on that key's own first call.
WindowCeiling ==
    \A r \in Requests : Served(r) =>
        Cardinality(ServedIn(key[r], answer[r].opened)) <= Ceiling

\* The memory bound: what the map holds is the keys served since the sweep
\* before the last one (rate.go:237-239), the windows of every other key
\* having been forgotten, however late the readings were counted.
HeldIsRecent ==
    \A k \in Held : \E r \in Requests :
        /\ Served(r)
        /\ key[r] = k
        /\ answer[r].epoch + 1 >= sweeps

\* No budget is handed back early: a step leaves an open window as it was,
\* charges it one call more, or finds that by the clock it has passed.
BudgetKept ==
    [][\A k \in Held :
        \/ seen'[k] = seen[k]
        \/ seen'[k] = [opened |-> seen[k].opened, calls |-> seen[k].calls + 1]
        \/ Passed(seen[k], clock)]_vars

=============================================================================
