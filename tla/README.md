# A verification of go-tk

go-tk is a toolkit of Go packages a service is wired from: a supervisor for its
runners, an HTTP server with a graceful stop, the wraps a route is mounted
behind, a password hasher under a bound, sortable ids and the paging over them,
probes, configuration, a Postgres pool and its migrations, telemetry, and the
script that tags a release. This directory holds TLA+ models of the parts that
keep state or run concurrently, the TLC configurations that check them, and
proofs checked by TLAPS. Paths below are relative to the repository (`src/`).

1. [Inventory](#1-inventory) — the parts, their state, what is hard about them
2. [Modules](#2-modules) — which module models what, and how
3. [Runs](#3-runs) — what each run checks, its bounds, what it shows
4. [Fairness](#4-fairness)
5. [Proofs](#5-proofs)
6. [Disagreements found](#6-disagreements-between-the-code-and-what-is-said-of-it)
7. [What is only model-checked, and what is not modelled](#7-what-is-only-model-checked-and-what-is-not-modelled)
8. [Plan](#8-plan)

## 1. Inventory

| part | code | state it keeps | operations | what is hard |
|---|---|---|---|---|
| Supervisor | `app/app.go` | a cancel, an error slot per runner, a wait group | `Run`; `RunnerFrom`'s adapter | N goroutines ending in any order; a `select` with both cases ready; errors on the way down; the last to leave |
| HTTP server | `transport/http/httpd.go` | listener, watcher goroutine, two error values | `Run` | cancellation before, during or after `Serve`; a drain that races its timeout; handlers that outlive it |
| Call-rate meter | `transport/http/rate.go` | a map of windows, the last sweep, a mutex | `LimitRate`, `CountWithin`'s `count` and `forget` | the clock is read before the mutex is taken; a sweep shrinks what other callers depend on; rounding to seconds |
| Request pipeline | `router.go`, `origin.go`, `chain.go`, `bearer.go`, `right.go`, `envelope.go` of `transport/http`, `authctx/` | the table and the origin policy, fixed at wiring; a context and one answer per request | `NewRouter`, `GrantOrigins`, `ServeHTTP`, `Wrap`, `Chain`, `RequireBearer`, `RequireRight`, `LimitRate`, `DecodeJSON` | the order of the wraps decides which budget a refused request spends and which status it gets; an outage taken for a verdict; a revoked token in flight; a cache in front of a grant |
| Bounded hasher | `crypto/password/bound.go` | a channel of places | `Hash`, `Verify` | a panic or an early return that loses a place; a refusal with a place free |
| Password, PBKDF2 | `crypto/password/{password,hasher,pbkdf2}.go` | a carrier; stored values live in the service's rows | `New`, `Hash`, `Verify`, `parse` | rows from another cost, rows damaged, an unfilled carrier |
| Token | `crypto/token/token.go` | none; its digest is the key of a row | `Issue`, `Parse`, `Stored` | several texts decode to one secret |
| Sortable ids | `sortid/sortid.go` | the last timestamp, a mutex | `Mint`, `Parse` | the clock is read before the mutex is taken, and may stand still or step back; 64-bit arithmetic |
| Keyset paging | `storage/keyset/keyset.go` | none past wiring; a walk's state is its cursor | `Query`, `Page` | a walk spans many requests while rows are committed out of order and deleted; the query is the service's |
| Health probes | `health/health.go` | per request: a context, a channel and a wait group | `Live`, `Ready` | checks that hang, ignore their deadline, or answer while the dependency changes |
| Telemetry | `telemetry/otel/otel.go`, `telemetry/prometheus/` | global providers, a list of shutdowns | `Setup`, `Shutdown` | a part failing after another was built; what was built shut down whatever fails |
| Configuration | `config/config.go` | the list of problems | `String`, `Int`, …, `Err` | a typo replaced by a fallback quietly; a boot that stops at the first problem |
| Postgres pool, errors | `storage/postgres/{postgres,errors}.go` | pgx's pool | `New`, `Classify` | a statement bound Postgres reads as none; errors classified twice |
| Migrations | `storage/postgres/migrate/migrate.go` | the database's version | `Run` | a failure or a kill inside a migration; two commands at once; fewer migrations than asked for |
| Release script | `scripts/tag.sh` | local tags, remote tags, the proxy | check, tag, push loops | a failure between any two steps, a rerun from another commit, a version sealed in between |

How they interact. `main` mounts runners on an `App`: a `Server`, a
`RunnerFrom` pair, another `App`. All the App relies on is the contract of
`app.Runner`. The Server runs the service's handler, which is a `Router` whose
routes are wrapped by `Chain`; a wrap calls the next one or answers itself. The
rate meter's `Counter` is a callback the service may supply. A handler reads a
`Password` off a body and verifies it through the bounded hasher; it mints ids
for the rows it writes and pages over them with `keyset`. The packages share no
state with one another: what crosses them is a context, an error or an id.
`main` reads its configuration, sets telemetry up and opens the pool before
`App.Run`, and undoes them in the reverse order after it; migrations are a
binary of their own, and the release script runs in a maintainer's clone.

What makes each part correct is stated as the properties of its module, below.
The hazards each property is aimed at are listed with their lines in
`PROJECT.json`.

## 2. Modules

| module | models | role |
|---|---|---|
| `Runner` | `app.Runner`'s contract, `app/app.go:28-34` | abstract specification |
| `App` | `App.Run`, `RunnerFrom` | implements `Runner` |
| `Server` | `Server.Run` over `net/http` | implements `Runner` |
| `Cadence` | `CountWithin` and the answers `LimitRate` gives | |
| `Minter` | `sortid.Minter` | |
| `Feed` | `keyset.Pager` and `Page` in a client's walk | extends `Minter` |
| `Budget` | what `password.Bound` promises | abstract specification |
| `Bound` | `bounded`, `Password.Hash/Verify`, `pbkdf2Hasher` | implements `Budget` |
| `Router` | the table, its wiring checks, the origin grant, `Chain`'s order | operators |
| `Pipeline` | requests through table, wraps and handler; `token`, `authctx`, `Classify`, `DecodeJSON` | extends `Router` |
| `Probe` | `health.Ready` over dependencies that come, go and hang | |
| `Boot` | a binary's life: `config.Env`, `otel.Setup`, `postgres.New`, Run, the deferred calls | extends `Probe` |
| `Migration` | `migrate.Run`, several commands on one database | |
| `Process` | either binary's life | composes `Boot` and `Migration` |
| `Release` | `scripts/tag.sh` in several clones | |
| `*Proofs` | | theorems |
| `MC*` | | instances for TLC |

### App and Runner

`Runner` has two variables, `cancelled` and `returned`: the context is
cancelled by whoever holds it, Run returns once, and a cancelled Run does
return. `App` keeps `outer` (the context it was given) and `inner` (the cancel
it derived) apart, since which of the two fired is what its properties are
about. A runner is a number, the order `Run` starts and joins in. `goroutine`
is where `wg.Go`'s function is: `Leave` is its deferred `cancel()` with the
`wg.Done` that follows, and nothing between them is visible to anybody else.
`Go` starts one runner at a time and asks nobody whether the context is already
cancelled, as in the loop (app.go:101-103). For a pair, `adapter` is where
`RunnerFrom`'s function is and `body` is where the goroutine of `start` is; the
channel of one is the value `body` has once start has returned, so `start`
never blocks reporting. `SelectDone` and `SelectCancelled` are both enabled
when both cases of the `select` are ready. `stop` may take a while
(`StopReturns`), and start may return, cleanly or not, before, during or after.

`alone` and `stoppedDead` are auxiliary: they record which bodies returned
uncancelled and which pairs were stopped though start had returned, and no
action reads them.

### Server

`run` is Run's own goroutine and `watcher` the one that waits for the context
and then sits in `Shutdown`. `net/http` is external and modelled by what `Run`
relies on: `Serve` answers `ErrServerClosed` whenever Shutdown was called, also
before it; `Shutdown` closes the listener it knows of, waits for `Serve` to
leave, then polls, closing idle connections, until none is active or its
context is done. Connections are kept alive between requests (`NextRequest`),
so an idle one may become active again between two polls. Two details of
`net/http` are left out: a connection that has sent nothing for five seconds
counts as idle, and hijacked connections are not tracked. The bind may fail
(`BindFails`); `WithListener` skips it, which is `Bind`. Closing the listener may
fail, and a Shutdown that drained everything then returns that error: `lnerr`
keeps it from `ShutdownStarts` to `Poll`.

### Cadence

`count` reads the clock (`ReadClock`) and then takes the mutex; everything
under the mutex is one action, `Serve` or `Refuse`. Between the two any number
of other requests may be counted under later readings. `forget` runs first in
every critical section, so `Forget` is part of both actions. Instants are
ticks, `Second` of them to the second `Retry-After` counts in, which is what
makes the rounding of `retryAfter` visible. The clock never steps back:
`time.Now` carries a monotonic reading. `latest`, `sweeps` and the `after` and
`epoch` fields of an answer are auxiliary: they say whether a request was
counted after one that had read a later instant (`Late`), and between which
sweeps.

### Minter and Feed

`Minter` reads the clock outside the mutex too. An instant is a whole number of
ticks, `Frac` (4,096 in the code) to a millisecond; `Stamp` is the conversion
to a machine word of `Word` values, which for an instant before 1970 is a huge
number; `Encode` drops the bits an id has no room for and puts the version
between the milliseconds and the fraction. The 62 random bits behind these
eight bytes never decide between two ids of one minter. `Unwrapped` says that
the timestamps minted share the bits an id drops, those above 60: the clocks of
today do, and so do the clocks before 1970 among themselves. The order of ids is
promised under it.

`Feed` adds the table and one client's walk. A writer mints, and commits later
or never, so rows become visible out of the order of their ids. A page is one
request: `Query` accepts the cursor, the service's query reads a snapshot, and
`Page` checks it, cuts it and writes the next cursor. The query is the
service's and modelled twice: `Fetch` gets the rows it asked for, `FetchBroken`
gets any sequence of table rows and an alien one, longer than the limit, out of
order, above the bound, on the first page as on any other. `cut` is auxiliary:
the rows a walk owes its client (those of the first page's snapshot, and those
committed since below the cursor), the ids minted at the moment of the first
page, and whether every query so far was honest.

### Bound and Budget

`Budget` is a set of holders and a set of refused calls: enter when a place is
free, be refused only when none is, leave. `Bound` has the channel as its
length `places`, and each call's steps: `Take` or `Refuse` (the send of
`take`), `Returns` or `Panics` in the wrapped hasher, and `GiveBack`, the
deferred receive, which would wait on an empty channel. What the caller sees,
it sees after the give-back. The wrapped hasher is the PBKDF2 one: a stored
value is a record of algorithm, cost, salt and key, the derivation an injection
(external). Damage is of two kinds: `Cut` leaves a shape `parse` refuses, and
`Altered` changes characters in place, of the salt, the key or the cost, which
`parse` accepts as it would any other row. Each hash has a salt of its own, named
by the call. The row starts out empty or as an earlier
deployment stored it, under any of `Costs`; it is rewritten by `Store` and
damaged by `RowDamaged` while verifications that read it earlier still run.

### Router and Pipeline

`Router` has no variables: past wiring nothing of the table changes, so it is
operators over a wiring. What `ServeMux` decides (which patterns match a path,
the most specific of them, a panic on two routes neither of which is) is stated
once, over the sets of method and path a route opens; `Check`, `CheckOrigin`,
`CheckRequestHeader`, `Allow`, `Answering`, `Preflight`, `Wrap` and
`TableAnswer` are the functions of router.go and origin.go of those names, the
last being `ServeHTTP`. `Wired` says whether a wiring serves, is refused or
panics. `Compose` follows Chain's loop, which runs downwards.

In `Pipeline` a request is where it has got to in its chain, `depth`, and what
was written of its answer. Each wrap is one action, since it makes one call to
something shared: the service's rights, its counter, its rows. A bearer is two,
its resolver asking the store (`BearerAsks`, which keeps in `found` what the row
said) and the wrap going by what it handed back (`BearerAnswers`). Between any
two of them another request may run, and a token be issued (`Issue`) or revoked
(`Revoke`), the one that was just looked up too. The resolver, the rights, the counter
and the two handlers are the service's, and written as the repository's README
has a service write them: the resolver parses the text, looks the row up by
`Stored`, inside a transaction or not, classifies what pgx answered, and answers
`ErrUnauthenticated` for a missing row. A text is the token it stands for and
what was done to it (`form`), since the last character's unused bits are what
`Parse` refuses to ignore; an error is the chain `errors.Is` walks. `Cached` is
a shared cache, which goes by the `Vary` of the answer it keeps. `live` and
`story` are auxiliary: the rows that stood at every lookup made for the request, which wraps
let the request through, which took a call from a budget, how many answers were
written and whether one was owed to something that could not judge.

### Probe, Boot, Migration and Process

`Probe` is `serve`: a goroutine per check, the send into a channel with room for
all, the wait, the verdict. A check in `Honouring` gives up when its context is
done; another waits for as long as its dependency hangs. `wasUp` and `wasDown`
are auxiliary and hold the dependencies' states since the probe began, which is
what a verdict can be about.

`Boot` is a service's `main` in the order the README shows it: `ReadConfig`
(every setting is read, and `Err` asked once), `Setup` as `BuildTracer` and
`Install` with the failures around them (`ReaderFails`: `prometheus.Reader`, called for it), `OpenPool`, Run, and the deferred
calls, last one first. `App.Run` itself is `App`'s and `Server`'s business: here
it returns at some moment (`RunReturns`) and may leave handlers behind, of which
one that uses the pool and the readiness probe are kept, because closing the pool
waits for their connections. `held` is what that handler has of the pool: nothing,
a connection between two statements, or a statement the server has not answered.
It may take a connection, send one statement after another and hold a transaction
open at any moment until the pool is closing, the one Run left behind too.
`pool.Close` is two steps: from `BeginClose` on nobody is handed a connection, and
`ClosePool` is its return, once every connection is back. A setting is a record of its kind,
its fallback and its bounds; a raw value is unset, unparseable or a number.
`Problem` and `Value` are Env's readers: what each records and what it returns.
A pool is the list of options it is opened with; `Bound` is the statement bound
they leave, in whole milliseconds, and `CheckStatementTimeout` the check on it.

`Migration` is `Run` of `migrate`, for commands that share a database and may be
killed at any step. golang-migrate is external and modelled by what Run relies
on: its lock, the dirty flag around each migration, `ErrNoChange` and the error
of a `Steps` that falls short. The connection golang-migrate's driver takes is
left to the process's exit; nothing is claimed of it.

`Process` puts the two binaries in one specification. They share no memory, so a
behaviour is a life of one of them (`binary`), the other's variables staying at
one initial value: the state space is the sum of the two and not the product.

### Release

Each clone runs the three loops of tag.sh, one module a step, in any order. Any
command may fail and end the run (`Abort`, for `set -euo pipefail`), the
network included: `remote` and `reachable` say whether origin and the proxy
answered a check. Between runs a releaser commits (`Work`) and deletes tags
(`ClearLocal`, `ClearOrigin`), and anybody's `go get` makes the proxy seal what
origin has (`Serve`). Nobody commits in a clone, or clears origin, while a run
is in progress there: that is an assumption about people, and the model's
guards on those actions. `blind`, `wrote` and `advised` are auxiliary.

## 3. Runs

| run | bounds | distinct states |
|---|---|---|
| `cadence` | 5 requests, 2 callers, ceiling 2, window 3, 2 ticks a second, clock to 6; symmetry | 1.15 M |
| `cadence_ceiling` | 3 requests, ceiling 1, clock to 4 | violation, section 6 |
| `app` | 2 pairs and a plain runner | 16 k |
| `app_stop` | same | violation, section 6 |
| `server` | 3 connections | 2.2 k |
| `server_drop` | 2 connections | violation, section 6 |
| `feed` | 3 writers, readings −2, 1, 2 and 4, 4 ticks a millisecond, 4 milliseconds, word of 32; pages of 1 and 2; symmetry | 303 k |
| `bound` | 3 calls over 2 places, 1 password, 2 costs | 184 k |
| `pipeline` | 2 requests, 17 askings, 4 wirings that serve and 7 that must not, 2 tokens, 2 keys, ceiling 1; symmetry | 211 k |
| `process` | 6 environments, 6 telemetries, 7 pools, 2 checks; 2 commands over 2 migrations | 192 k |
| `release` | 2 clones, 2 commits, 2 modules; symmetry | 2.31 M |
| `release_advice` | same | violation, section 6 |

A type invariant is stated in each module and proved (section 5) where it is
not a run's property: a run spends its time on what may be wrong.

**cadence.** `DelayBounded`: a refusal names a delay above zero, and one longer
than the window by no more than its reading was behind those counted before it. `PromiseKept`: no request is refused on a window an earlier
refusal of its caller said would be over by then. `PromiseTight`: the promise
is not a second later than it must be. `InOrderCeiling`: readings counted in order spend at most the ceiling in a
window one of them opened. `BudgetKept`: no step hands a budget back before its
window has passed by the clock. `HeldIsRecent`: the map holds only callers
served since the sweep before the last. The bounds: three requests of one
caller spend a ceiling of 2 and are refused, a fourth is the one that comes
back, and a fifth, of the other caller, sweeps between. A clock of 6 is two
windows of 3, so a window is opened, spent, swept and reopened; 3 ticks are not
a whole number of seconds of 2, so rounding shows. `MaxClock` bounds the clock.

**app.** `NothingOutlivesRun`, `ErrorsJoined` (exactly the errors reported, on
whichever way down), `OneBringsDownAll` (liveness) and
`IsARunner`: an App keeps the contract it asks of its runners, so it can be
mounted in another. Two pairs meet both orders of failing and being stopped at
once; the third runner is one the App knows only by its contract, and starts
after the others may have ended.

**server.** `NilIsClean`: nil means it was asked to stop and nothing is in
flight. `DrainedOrExpired`: requests in flight had the whole timeout, whatever
brought Run down. `NothingOutlivesRun`: neither the watcher nor an open
listener is left, in particular when Shutdown came before Serve.
`FailureReturns` (liveness): a Serve that failed by itself does not hang Run.
`IsARunner`: cancelled, it returns, though a handler hangs. Connections are
independent of one another but for `InFlight`; three let one be idle, one
active and one new at the same poll.

**feed.** The mints come first. `MintsUpward`: an id is above every one minted
before it, in the order of the mutex. `AheadByOne`: it is never behind its
call's clock and ahead of it only by standing one tick past another id. The
readings include one before 1970, whose timestamp is past the bits of an id and
two below the largest word: two ids are minted off it in order, and the third
wraps and makes `Unwrapped` false, as does a clock that steps back over 1970 once an
id was minted after it. Then the walk. `NoRepeat`: over all pages of a walk no row comes twice, rows come
newest first. `NoneLost`: a row that was there when the walk began, or was
committed since below its cursor, and still is, has been served once the walk is
past it, whatever is deleted, the cursor's own row included, and however page
sizes change; one committed above the cursor is lost (section 6). `NothingNewer`: nothing minted
since the walk began is served. `CursorAccepted`: a cursor handed out is one
the next request is accepted on. The first and last hold whatever the service's
query returns, the second while it is honest. Three rows make a walk of up to
three pages, with an extra row, an exact last page and an empty one.

**bound.** `PlacesAreHeld`: the channel's length is the number of calls between
take and give-back, panics included. `IsABudget`: the refinement, with every
place given back (liveness). `VerifiesItsOwn`: a verification is nil exactly on a value Hash wrote
of that very password, whatever cost it carries, however the row was rewritten
meanwhile and whatever damage it took. `MismatchIsCompared`: a value as Hash wrote
it is never unreadable, and one of a shape `parse` refuses is never a wrong
password. A row altered in place keeps its shape and is answered as a wrong
password: nothing in it tells it from another password's row, and the code claims
no more. Three calls over two places is the smallest instance with a refusal
while two run side by side; two costs tell a row from one of the hasher's own, and
another password's row is one whose key was altered, to that of `Flipped`.

**pipeline.** `TableIsHonest`: a route is reached by its own method, GET's HEAD
excepted, and the Allow of a 405 is exactly what would not be refused on that
path. HEAD is in it only where a route names HEAD, though a GET answers it too:
that is what right.go:79-80 documents, and the property says `\cup {"HEAD"}`.
`ServedIsEntitled`: a handler behind a bearer runs only on a text the service
issued whose row stood at every lookup its chain made, one behind a right only if the
principal under that right's own key holds it, whatever the order of the chain.
`OutageIsNotVerdict`: 500 exactly when something could not be judged, and a
challenge or a Retry-After only with its verdict. `SpentInOrder`: a budget is
touched only by requests every earlier wrap let through. `OneBudgetPerToken`:
keyed on the text, a token has one budget. `GrantIsOwn`: the origin an answer
names is that of the request that gets it, through a shared cache too.
`AnsweredOnce`: one answer is written, and a refused body changes nothing. Two
requests are what the properties relate: one to spend a budget or fill a cache,
one to meet it; a token's row may change between any two of their steps. The
wirings put every kind of wrap before and after every other one it matters to,
two keys of one type among them; each wrong one is refused for a reason of its
own. `Ceiling` is 1, so the second call of a caller is one too many.

**process.** `NoQuietFallback`: a boot goes on only with values that are what
the environment says, or the fallback of one that says nothing, inside their
bounds; one that stops has named every problem and opened nothing.
`NothingLeftOpen`: whichever step fails, a process that is gone has shut down
what it built, and a pool that is closed has every connection back.
`ExitsBounded` (liveness): a service that keeps a statement bound is gone after Run
returned, with a handler left behind whose statement would never be answered too,
under two hypotheses that are part of the property: a handler whose statements end
lets go of its connection in the end (`HandlersLetGo`), since the bound is on a
statement and not on a transaction, and the server is not silent for ever
(`ServerIsThere`), since it is the server that enforces the bound. What it refutes
is a bound the pool was opened with and Postgres reads as none. `ProbesAnswered` (liveness): a probe is
answered unless a check that ignores its context waits for a dependency that
says nothing. `ProbeVerdict`: it is about the dependencies of the time it took.
`NilMeansApplied`: a migration that returned nil applied all it was asked, and a
usage error opened nothing. The environments hold a right and a wrong value of
each kind and a setting whose fallback is out of its own bounds; the pools hold
bounds of zero, of half a millisecond, negative, beyond 32 bits (scaled to
`MaxInt32` = 4), dropped, and set again after being dropped. Of two checks one
honours its context. Two migrations are enough for a kill between them and a
`down 2` that falls short; two commands for one to find the other's dirt.

**release.** `WholeOrRefused`: a run that says it published has every module of
its commit on origin, and one that refused made no tag. `SealedIsKept`: what
origin has is what the proxy sealed, however often a release was cleared away
and made again, unless the proxy could not be asked. The second commit has a
module more than the first, so a rerun's loops are over other modules than the
run before it; a second clone races the first at every step.

Deadlock is checked in every run; where the system comes to rest the module has
an explicit last step (`Quiet`, `Stopped`), and where the environment can always
act the run ends on its own.

## 4. Fairness

Every action that is a goroutine's next step is weakly fair: the Go scheduler
runs what can run. Nothing is assumed of clients, of a listener, of the outer
context, or of the service's handlers, which may hang.

- `App`: a runner returns once its context is cancelled, which is the contract
  it signs (app.go:31-33); `stop` returns and makes `start` return, which is
  what `RunnerFrom` asks (app.go:57). None returns by itself by fairness.
- `Server`: the drain's timer fires (`Expire`). `ShutdownTimesOut` is strongly
  fair: Shutdown's loop comes back to a `select` where its context is done every
  time, and a `select` does not choose its ticker for ever.
- `Bound`: the wrapped hasher returns or panics, a cost being a finite number.
- `Boot`: main goes on with what it deferred; a context ends at its deadline; a
  goroutine of a probe that can go on does; a server that is up cuts a statement
  off at the bound it was sent, which is what `statement_timeout` is for
  (postgres.go:23-29), and one that is gone breaks its connections, while one that
  is silent does neither; a pool that is closing refuses a ping that has no
  connection yet; telemetry is shut down under a context of its own with a
  deadline, as the README writes it. Nothing makes a dependency answer, a
  handler let go of its connection, or a check that ignores its context end, and
  nobody need cancel Run or send a probe.
- `Cadence`, `Minter`, `Feed`, `Pipeline`, `Migration` and `Release` state no
  liveness and assume no fairness: a request may hang in any wrap, a command be
  killed, a releaser walk away.

## 5. Proofs

Each proof is an inductive invariant of named parts: `Init => Inv`,
`Inv /\ [Next]_vars => Inv'`, `Inv => property`, with one step per action.

**CadenceProofs**, for any requests, callers, ceiling, window and clock. The
invariant `IInv` says that a counted reading never is ahead of the clock, that
one a window past the last sweep has swept, that an open window holds from 1 to
`Ceiling` calls and was opened by a counted reading, and that an answer's delay
is the one its window gives. `HeldSince` is the strengthening the memory bound
needs: a window opened after the last sweep belongs to a request counted since.
`RetryAfterRoundsUp` is the arithmetic: rounding up, never below one.
`CeilingInOrder` needs `CInv` besides, which counts the served requests of a
window against its `calls` field. Proved: `TypeOK`, `DelayBounded`,
`PromiseKept`, `PromiseTight`, `HeldIsRecent`, `BudgetKept`, `InOrderCeiling`.

**AppProofs**, for any number of runners and pairs. The invariant ties
`goroutine`, `adapter` and `body` together (an adapter past its select has
recorded what start reported, a runner is off exactly if it has not been
started) and says a cancellation by the App has a recorded cause. Proved:
`TypeOK`, `NothingOutlivesRun`, `ErrorsJoined`, `CancelHasCause`, and that every
step of App is a step of `Runner` or a stutter.

**ServerProofs**, for any set of connections. The invariant follows Run's
course: before the bind there is nothing, Serve left before Shutdown could
answer, a nil from Shutdown, or the listener's close error, left every connection
closed and none can be accepted any more, a timeout came past the drain's own, and `ErrServerClosed`
means that the caller had cancelled, since Run's own cancel comes after Serve
has returned. Proved: `TypeOK`, `NilIsClean`, `DrainedOrExpired`,
`NothingOutlivesRun`, and that every step is one of `Runner` or a stutter.

**FeedProofs**, for any calls, any clock and any widths, and for any page sizes.
Of the minter, `MInv`: `last` is zero or the timestamp of some id minted, and
among timestamps that share the bits an id drops none is above it
(`NoneAboveLast`); so the next is above all, or wrapped and shares them no more
(`WrapLeavesEra`). `EncodeKeepsOrder` shows that the encoding keeps the order of
what it drops nothing of, the milliseconds weighing more than version and fraction
together, and `EncodeDrops` that the rest has no say.
Of the walk, `FInv`: the cursor parts what was served, all of it at or above the
cursor (`ServedAbove`), from the rows the walk owes that still stand, all of
them served or below it; it is the id of one minted by that moment
(`CursorOfCut`), and every id minted since is above those (`CutBelow`, which is
where `MintsUpward` enters). `DescendingSorts` and `SelectTakes` say what a query
that keeps its contract returns, `ServeTurns` what a page adds to the walk,
whatever the query returned. Proved: `MinterTypeOK`, `MintsUpward` and
`AheadByOne`, of the minter alone and under the walk's specification;
`FeedTypeOK`, `NoRepeat`, `CursorAccepted`, `NoneLost`, `NothingNewer`.

**PipelineProofs**, for any wirings, requests in flight, tokens, keys, rights and
ceiling. Two arguments meet. That of the table is about the wiring alone: where
no two routes conflict, the routes that open one request are nested, and finitely
many, so one of them is innermost (`MatchOpens`, by the well-foundedness of strict
inclusion); `AllowIsExact` reads off it that the `Allow` of a path names what the
path answers. That of the chain is the invariant `PInv`, which follows a request:
the wraps it has passed are those its route lists before the one it has reached
(`Walks`, on `ComposeKeepsOrder`: Chain's loop, run downwards, meets them in the
order of the list), and each has left behind what it demands. A bearer leaves
a principal that only its text accounts for (`Known`), and there is none in the
context without one (`Introduced`); so a right that was passed stands behind a
bearer of its own key (`Entitled`), which no order of wraps gets round.
`ResolveJudges` and `InsertJudges` carry the errors from pgx to a status:
classified once, or in a transaction twice with a wrapping between, an answer of
the store stays a verdict and a failure never becomes one; `ClassIsKept` says so of any error. `LookupsKeep`
follows each lookup from the store's answer to the wrap's, in between which the row
may go. `Budgeted` bounds the
requests past a meter on texts by the calls taken from that text's budget, and
`Known` says that all of one secret came under one text. Proved: `TypeOK`,
`TableIsHonest`, `ServedIsEntitled`, `OutageIsNotVerdict`, `SpentInOrder`,
`OneBudgetPerToken`, `GrantIsOwn`, `AnsweredOnce`.

**BoundProofs**, for any finite set of calls and any number of places. The
channel's length is the number of holders; a row is empty, one Hash wrote, or one
of those cut out of shape or altered in place; a verdict is the one on what the
call was handed, and `Flipped`, which stands for what nobody hashed, is no
password and no salt. Proved:
`TypeOK`, `PlacesAreHeld`, `VerifiesItsOwn`, `MismatchIsCompared`, and that every
step of Bound is a step of `Budget` or a stutter.

**ReleaseProofs**, for any number of clones, commits and modules. The invariant
says where the loops of a run stand: while it checks it has made no tag, while
it tags the modules behind it are tagged on the clone's commit, while it pushes
all are and the ones behind it are on origin at that commit; and of a module
checked while the proxy answered, that no proxy serves it before it is on origin
(`PastIsUnserved`), so that what a push puts there is what gets sealed. Proved:
`TypeOK` with `LoopsOverModules`, `WholeOrRefused`, `SealedIsKept`.

**ProcessProofs**, for any checks, settings, telemetry, pools, commands and
migrations, in three parts that only two steps of `Boot` mix: `BeginClose` and
`PingRefused`, by which a pool that is closing is met by a probe as a database that
is down (`ClosingKeeps`). `ProbeInv`: what a
check found is what its dependency was at that time, or what its context said
once done. `BootInv`: `Built` is what main has built and what it has deferred to
undo it, at every stage, so that an unwinding boot stands in one of three shapes;
`Held` is what may not outlive what it rests on; `Refused` rests on
`UnproblematicIsFaithful`, which says of every reader of `Env` that what records
nothing returns what the environment says or the fallback of what it does not.
`MigrationInv`, for each command: `Holding` (the one that is at work has the
lock), `OnCourse` (the version and what is left to do make up what was asked),
`Through` (what it answers is what it did); `StepOf` shows once that a step of one
command leaves the others theirs, since only the lock's holder moves the version.
Proved: `ProbeVerdict`, `NoQuietFallback`, `NothingLeftOpen`, `NilMeansApplied`.

The assumptions are those on the constants, named in each module: a ceiling, a
window and a number of places of at least one, as the constructors enforce; a
word wider than an id's timestamp; costs of at least one; settings of the kinds
`Env` reads, of which a string always parses; whole steps for a migration;
page sizes of at least one, and of the id another version wrote only that it is
another version's. Of a service's wiring `WiringAssumption` asks that its chains
be made of the wraps there are, under keys it declared, and nothing of their
order or of the routes: the wirings the table refuses are among those the
theorems range over. Of a request `AskAssumption` asks for one of the methods
modelled, and that a text in it be made out of a secret, which is how the model
tells texts apart.

## 6. Disagreements between the code and what is said of it

Each is a run that violates one property, the one a comment or document states.

- `cadence_ceiling`: a request that reads the clock inside its caller's spent
  window and is counted after another caller's sweep opens a second window at
  its stale reading, and is served: more than the ceiling inside one window
  (rate.go:153-155). It takes a request held between its clock reading and the
  mutex for as long as the window's remainder.
- `app_stop`: with the report of `start` and the cancellation both ready, the
  `select` may call `stop` on a start that returned by itself
  (app_test.go:137-139).
- `server_drop`: past the shutdown timeout Run returns and closes nothing; a
  handler goes on serving its connection (httpd.go:106-107 says they drop).
- `release_advice`: a run without `--push` prints the command to publish with
  (tag.sh:86-87), and that command refuses the tags the run has just made
  (tag.sh:58-61) until somebody deletes them by hand.

Four more were met while modelling. They have no run of their own; the properties
say what holds instead.

- The same interval between reading and mutex lets another request open the window
  in it: the one that read first is then refused with a delay longer than the
  window, which rate.go:227-229 says cannot be. `DelayBounded` allows for it, and
  `PromiseKept` does not notice: by the instant the delay names the window is over
  all the same.
- A row minted before the walk began and committed after a page was read, above that
  page's cursor, is on no later page, where README.md:793-794 says no older row is
  skipped. `NoneLost` promises the rows of the first page's snapshot and those
  committed below the cursor.
- A clock that reads the last 4,096th of a millisecond before 1970 leaves 2^64 − 1
  in `last`; the next mint's `last + 1` wraps to 0, an id below the one before it
  (sortid.go:140). A clock may read so on a device without one. It is where
  `Unwrapped` becomes false; what `MintsUpward` promises of a clock before 1970 is
  all up to it.
- A check that does not honour its context keeps the probe waiting past the deadline
  for as long as its dependency says nothing; health.go:19-20 says of a hung
  dependency, without exception, that it turns into a 503. `ProbesAnswered` leaves
  that case out.

## 7. What is only model-checked, and what is not modelled

Liveness (`OneBringsDownAll`, `FailureReturns`, `ExitsBounded`,
`ProbesAnswered` and the fairness part of the three refinements) is out of
TLAPS's reach and stays with TLC. Every safety and action property of the passing
runs is stated by a theorem. What pgx may answer is a fixed set (`Failures`) in
the model, and so in the theorems; `ClassIsKept` alone is about any error.

Partly modelled. `Token` and `Password` without the redactions of their
carriers, and ids without their text: single-step functions that the tests
reach. `Keyset paging` without the parsing of a page size.

Not modelled. The bodies of answers, log lines and formatting. ServeMux's
matching beyond the sets it opens, `errors.Is` beyond a chain, pgx's pool, the
derivation, OpenTelemetry's exporters and golang-migrate, which are external and
stand as what the code relies on of them. `Live`, which answers 200. The timeouts
`net/http` enforces on connections. `App.Run` inside `Boot` is one step, since
what it promises is checked in `App` and `Server`; the two are not composed with
`Boot` state by state, which would multiply their state spaces and relate
nothing that `RunReturns` does not.

## 8. Plan

1. A stronger promise of the meters, over `Cadence`'s windows and `Pipeline`'s
   chains together: what one principal is served behind a meter of its key in one
   window, where `OneBudgetPerToken` says it of a text and one budget.
2. The safety half of `ExitsBounded` and `ProbesAnswered` in `ProcessProofs`: that
   what still runs at a deadline is one of the steps the fairness is about.
3. `Password`'s carrier in `Bound`: a row read back through `UnmarshalJSON`.
