------------------------------ MODULE Pipeline ------------------------------
(***************************************************************************)
(* A service of transport/http, from its wiring to its answers: requests   *)
(* in flight together, each going through Wrap, the table, the wraps of    *)
(* the chain its route carries, and the handler, while the rows a          *)
(* credential is judged by are issued and revoked under them.              *)
(*                                                                         *)
(* A wrap is one action where what it does is local to the request but for *)
(* one call to something shared, the table of rights, the Counter, or the  *)
(* rows a handler writes; Authenticate is two, the store's answer to its   *)
(* Resolver and what it makes of it, with anything in between.  The        *)
(* Resolver and the handlers are the service's: they are wired here the    *)
(* way the README of the repository has a service write them, out of       *)
(* token.Parse, Token.Stored, DecodeJSON and postgres.Classify.            *)
(***************************************************************************)
EXTENDS Router, Integers

CONSTANTS Requests,  \* the requests of a behaviour
          Wirings,   \* how a service may be wired
          Asks,      \* what a request may carry
          Secrets,   \* the tokens a service may issue
          Keys,      \* the authctx keys it declared
          Owner,     \* Owner[key][secret]: the principal of that token
          Rights,    \* <<principal, right>>: what the service granted
          Ceiling    \* calls a caller has left before its budget is spent

ASSUME PipelineAssumption == Ceiling \in Nat /\ None \notin Secrets

\* Routes and chains are sequences, and a wrap is one of the three this
\* repository has, or nil, under keys the service declared.
ASSUME WiringAssumption ==
    \A v \in Wirings :
        /\ Len(v.routes) \in Nat /\ DOMAIN v.routes = 1 .. Len(v.routes)
        /\ \A i \in DOMAIN v.routes :
            LET chain == v.routes[i].chain
            IN  /\ Len(chain) \in Nat /\ DOMAIN chain = 1 .. Len(chain)
                /\ \A k \in DOMAIN chain :
                    /\ chain[k].kind \in {"bearer", "right", "meter", "nil"}
                    /\ chain[k].kind \in {"bearer", "right"} => chain[k].key \in Keys
                    /\ chain[k].kind = "meter" => chain[k].by \in Keys \cup {"text"}

\* A request has a method and a header, and a text in it, where there is one,
\* is made out of a secret.
ASSUME AskAssumption ==
    /\ None \notin Asks
    /\ \A a \in Asks :
        /\ DOMAIN a = {"method", "path", "header", "origin", "preflight", "body", "name"}
        /\ a.method \in Methods
        /\ a.header.text # None =>
            /\ a.header.text = [secret |-> a.header.text.secret, form |-> a.header.text.form]
            /\ a.header.text.secret \in Secrets

VARIABLES w,       \* the wiring
          wired,   \* what became of it
          ask,     \* what each request carries
          depth,   \* the wrap it has reached, Len(chain) + 1 at the handler
          ctx,     \* the principals in its context, by key
          answer,  \* what was written of its answer
          rows,    \* the row of each token
          spent,   \* the Counter: calls taken, by caller
          names,   \* the names the service's handler has inserted
          found,   \* what the store has answered its Resolver, until the wrap acts on it
          live,    \* auxiliary: the rows that stood at every lookup it was judged by
          story    \* auxiliary: what happened to it on the way

wiring == <<w, wired>>
shared == <<rows, spent, names>>
vars   == <<w, wired, ask, depth, ctx, answer, rows, spent, names, live, found, story>>

-----------------------------------------------------------------------------
(***************************************************************************)
(* authctx, crypto/token and the errors of storage/postgres.               *)
(***************************************************************************)

\* Bearer: the text of an Authorization header of that scheme, none when
\* there is nothing after it or a blank inside.
Bearer(header) ==
    IF header.scheme = "bearer" /\ ~header.blank THEN header.text ELSE None

\* The characters of a text, by what was done to one Issue wrote: nothing,
\* its last character's unused bits set, a padding, a hash taken, a character
\* that is not base64url.
Length(text) == CASE text.form = "stored" -> 64
                  [] text.form = "padded" -> 44
                  [] OTHER -> 43

Decodes(text) == text.form \in {"issued", "loose"}

\* EncodeToString(secret) = text
Canonical(text) == text.form = "issued"

\* Every text that decodes to a secret, not only the one Issue wrote.
ParseDecoded(text) ==
    IF Length(text) = 43 /\ Decodes(text) THEN text.secret ELSE None

\* Parse: the secret of a text Issue could have written.
Parse(text) ==
    IF Length(text) = 43 /\ Decodes(text) /\ Canonical(text) THEN text.secret ELSE None

\* An error is the chain errors.Is walks, from the outside in; nil is empty.
Is(err, target) == \E i \in DOMAIN err : err[i] = target

NoRows == <<"ErrNoRows", "pgx.ErrNoRows">>

\* Everything but a unique violation read as a missing row.
ClassifyLoose(err) ==
    IF err = <<>> \/ Is(err, "ErrNoRows") \/ Is(err, "Error") THEN err
    ELSE IF Is(err, "23505") THEN <<"ErrUniqueViolation">>
    ELSE NoRows

\* Classify: nil and what it classified before unchanged, a missing row, a
\* unique violation, and every other error under Error.
Classify(err) ==
    IF err = <<>> \/ Is(err, "ErrNoRows") \/ Is(err, "ErrUniqueViolation") \/ Is(err, "Error")
    THEN err
    ELSE IF Is(err, "pgx.ErrNoRows") THEN NoRows
    ELSE IF Is(err, "23505") THEN <<"ErrUniqueViolation">>
    ELSE <<"Error">> \o err

\* Inside a transaction: classified in the callback, wrapped by the service
\* when there is an error to wrap, handed back through BeginFunc and
\* classified once more.
InTransaction(err) ==
    IF Classify(err) = <<>> THEN Classify(<<>>) ELSE Classify(<<"service">> \o Classify(err))

\* What pgx answers besides a row: the server refusing the statement, or the
\* connection or the request's own context failing.
Failures == {<<"57014">>, <<"context", "deadline">>}

\* What the store answers for a query of the row of s, nil for its row, where
\* those of stood are there; it is not asked about a text that holds no token.
RowErrors(s, stood) ==
    IF s = None THEN {<<>>}
    ELSE IF s \in stood THEN {<<>>} \cup Failures
    ELSE {<<"pgx.ErrNoRows">>} \cup Failures

\* What the service's Resolver makes of a text and of what the store answered
\* for its row, asked in a transaction or not: a text that does not parse and
\* a row that is not there match httpd.ErrUnauthenticated, nil is the row's
\* principal, and any other error is no verdict.
Resolve(text, raw, transaction) ==
    LET err == IF transaction THEN InTransaction(raw) ELSE Classify(raw)
    IN  IF Parse(text) = None THEN <<"ErrUnauthenticated">>
        ELSE IF Is(err, "ErrNoRows") THEN <<"ErrUnauthenticated">>
        ELSE err

-----------------------------------------------------------------------------
(***************************************************************************)
(* DecodeJSON.                                                             *)
(***************************************************************************)

\* What the first Decode answers, and the one that asks for a second value.
First(body) == CASE body = "torn"  -> <<"syntax">>
                 [] body = "none"  -> <<"EOF">>
                 [] body = "large" -> <<"MaxBytesError">>
                 [] OTHER          -> <<>>

Second(body) == CASE body = "two"      -> <<>>
                  [] body = "trailing" -> <<"MaxBytesError">>
                  [] OTHER             -> <<"EOF">>

\* The decoder's own error handed back, and nothing for a second value.
RefuseSilently(err) ==
    [status |-> IF Is(err, "MaxBytesError") THEN 413 ELSE 400, err |-> err]

\* refuse: the status written, and an error for a second value too.
Refuse(err) ==
    [status |-> IF Is(err, "MaxBytesError") THEN 413 ELSE 400,
     err    |-> IF err = <<>> THEN <<"second value">> ELSE err]

Decoded == [status |-> 0, err |-> <<>>]

DecodeJSON(body) ==
    IF First(body) # <<>> THEN Refuse(First(body))
    ELSE IF ~Is(Second(body), "EOF") THEN Refuse(Second(body))
    ELSE Decoded

-----------------------------------------------------------------------------
Route(r) == w.routes[Match(w, ask[r].method, ask[r].path)]

\* Where the service listed the wrap r has reached, and the wrap.
Listed(r) == Compose(Route(r).chain)[depth[r]]
WrapOf(r) == Route(r).chain[Listed(r)]

Answered(r)  == answer[r].status # 0
InFlight(r)  == ask[r] # None /\ ~Answered(r)
AtHandler(r) == InFlight(r) /\ depth[r] > Len(Route(r).chain)

Inside(r, kind) ==
    /\ InFlight(r)
    /\ ~AtHandler(r)
    /\ WrapOf(r).kind = kind

\* The principals a context may hold, and who may be charged a call.
Principals == {None} \cup {Owner[k][s] : k \in Keys, s \in Secrets}

Callers == {a.header.text : a \in Asks} \cup {Owner[k][s] : k \in Keys, s \in Secrets}

NoStory == [passed |-> {}, charged |-> {}, unjudged |-> FALSE, writes |-> 0, cached |-> FALSE]

Init ==
    /\ w \in Wirings
    /\ wired = "unwired"
    /\ ask = [r \in Requests |-> None]
    /\ depth = [r \in Requests |-> 1]
    /\ ctx = [r \in Requests |-> [k \in Keys |-> None]]
    /\ answer = [r \in Requests |-> NoAnswer]
    /\ rows = [s \in Secrets |-> "none"]
    /\ spent = [c \in Callers |-> 0]
    /\ names = {}
    /\ found = [r \in Requests |-> {}]
    /\ live = [r \in Requests |-> Secrets]
    /\ story = [r \in Requests |-> NoStory]

Wire ==
    /\ wired = "unwired"
    /\ wired' = Wired(w)
    /\ UNCHANGED <<w, ask, depth, ctx, answer, shared, live, found, story>>

\* The service stores the row of a token it issued.
Issue(s) ==
    /\ wired = "serving"
    /\ rows[s] = "none"
    /\ rows' = [rows EXCEPT ![s] = "live"]
    /\ UNCHANGED <<wiring, ask, depth, ctx, answer, spent, names, live, found, story>>

\* It revokes one.
Revoke(s) ==
    /\ rows[s] = "live"
    /\ rows' = [rows EXCEPT ![s] = "gone"]
    /\ UNCHANGED <<wiring, ask, depth, ctx, answer, spent, names, live, found, story>>

\* A request arrives: the front wrap and the table, and either the table's
\* own answer or the outermost wrap of its route.
ServeHTTP(r, a) ==
    /\ wired = "serving"
    /\ ask[r] = None
    /\ ask' = [ask EXCEPT ![r] = a]
    /\ answer' = [answer EXCEPT ![r] = TableAnswer(w, a)]
    /\ story' = [story EXCEPT ![r].writes = IF Answered(r)' THEN 1 ELSE 0]
    /\ UNCHANGED <<wiring, depth, ctx, shared, live, found>>

\* What a cache may keep without being told to.
Cacheable == {200, 404, 405}

\* A cache in front of the service answers r with what q was answered: the
\* same question, as far as q's answer said what it depends on.
Cached(r, q, a) ==
    /\ ask[r] = None
    /\ answer[q].status \in Cacheable
    /\ ask[q].method = "GET" /\ a.method = "GET"
    /\ ask[q].path = a.path
    /\ ask[q].header.text = None /\ a.header.text = None
    /\ answer[q].vary => a.origin = ask[q].origin
    /\ ask' = [ask EXCEPT ![r] = a]
    /\ answer' = [answer EXCEPT ![r] = answer[q]]
    /\ story' = [story EXCEPT ![r].cached = TRUE]
    /\ UNCHANGED <<wiring, depth, ctx, shared, live, found>>

-----------------------------------------------------------------------------
(***************************************************************************)
(* The wraps.                                                              *)
(***************************************************************************)

\* A refusal: WriteError, and next not called.  Unjudged when what should
\* have judged the request could not.
TurnAway(r, status, unjudged) ==
    /\ answer' = [answer EXCEPT ![r].status = status,
                                ![r].challenge = (status = 401),
                                ![r].retry = (status = 429)]
    /\ story' = [story EXCEPT ![r].writes = @ + 1, ![r].unjudged = unjudged]
    /\ UNCHANGED depth

\* next.ServeHTTP, charged a call of the Counter or not.
PassOn(r, charged) ==
    /\ depth' = [depth EXCEPT ![r] = @ + 1]
    /\ story' = [story EXCEPT ![r].passed = @ \cup {Listed(r)},
                              ![r].charged = IF charged THEN @ \cup {Listed(r)} ELSE @]
    /\ UNCHANGED answer

\* The principal found by every reader of its type, whatever key it was put
\* in the context under.
WithAny(c, key, v) == [k \in Keys |-> v]

\* key.With: v under that key alone.
With(c, key, v) == [c EXCEPT ![key] = v]

\* No credential in the request, or none that can be read: the resolver is
\* not asked.
BearerMissing(r) ==
    /\ Inside(r, "bearer")
    /\ Bearer(ask[r].header) = None
    /\ TurnAway(r, 401, FALSE)
    /\ UNCHANGED <<wiring, ask, ctx, shared, live, found>>

\* The resolver is asked, and the store answers it.
BearerAsks(r) ==
    LET text  == Bearer(ask[r].header)
        stood == {s \in Secrets : rows[s] = "live"}
    IN  /\ Inside(r, "bearer")
        /\ text # None
        /\ found[r] = {}
        /\ \E raw \in RowErrors(Parse(text), stood) :
            found' = [found EXCEPT ![r] = {[raw |-> raw, stood |-> stood]}]
        /\ UNCHANGED <<wiring, ask, depth, ctx, answer, shared, live, story>>

\* It hands back the principal, a verdict, or neither, and the wrap goes by it,
\* whatever became of the row since.
BearerAnswers(r) ==
    LET text == Bearer(ask[r].header)
        key  == WrapOf(r).key
    IN  /\ Inside(r, "bearer")
        /\ \E row \in found[r], transaction \in BOOLEAN :
            LET err == Resolve(text, row.raw, transaction)
            IN  /\ \/ /\ err = <<>>
                      /\ ctx' = [ctx EXCEPT ![r] = With(@, key, Owner[key][Parse(text)])]
                      /\ PassOn(r, FALSE)
                   \/ /\ Is(err, "ErrUnauthenticated")
                      /\ TurnAway(r, 401, row.raw \in Failures)
                      /\ UNCHANGED ctx
                   \/ /\ err # <<>> /\ ~Is(err, "ErrUnauthenticated")
                      /\ TurnAway(r, 500, row.raw \in Failures)
                      /\ UNCHANGED ctx
                /\ live' = [live EXCEPT ![r] = @ \cap row.stood]
        /\ found' = [found EXCEPT ![r] = {}]
        /\ UNCHANGED <<wiring, ask, shared>>

\* No principal under the wrap's key, or a check that fails: nothing judged.
RightUnavailable(r) ==
    /\ Inside(r, "right")
    /\ TurnAway(r, 500, TRUE)
    /\ UNCHANGED <<wiring, ask, ctx, shared, live, found>>

\* The service's check is asked about the principal.
RightJudged(r) ==
    LET principal == ctx[r][WrapOf(r).key]
    IN  /\ Inside(r, "right")
        /\ principal # None
        /\ IF <<principal, WrapOf(r).right>> \in Rights
           THEN PassOn(r, FALSE)
           ELSE TurnAway(r, 403, FALSE)
        /\ UNCHANGED <<wiring, ask, ctx, shared, live, found>>

\* What the service's CallerKey reads: the text the request carries, or the
\* principal under a key.
Caller(r) ==
    IF WrapOf(r).by = "text" THEN Bearer(ask[r].header) ELSE ctx[r][WrapOf(r).by]

\* No caller to name: served, with nothing counted.
Unmetered(r) ==
    /\ Inside(r, "meter")
    /\ Caller(r) = None
    /\ PassOn(r, FALSE)
    /\ UNCHANGED <<wiring, ask, ctx, shared, live, found>>

CallLeft(c) == spent[c] < Ceiling

\* The counter is asked: a call left, none left, or a failure to tell.
Metered(r) ==
    /\ Inside(r, "meter")
    /\ Caller(r) # None
    /\ \/ /\ CallLeft(Caller(r))
          /\ spent' = [spent EXCEPT ![Caller(r)] = @ + 1]
          /\ PassOn(r, TRUE)
       \/ /\ ~CallLeft(Caller(r))
          /\ TurnAway(r, 429, FALSE)
          /\ UNCHANGED spent
       \/ /\ TurnAway(r, 500, TRUE)
          /\ UNCHANGED spent
    /\ UNCHANGED <<wiring, ask, ctx, rows, names, live, found>>

\* A handler that reads nothing.
Show(r) ==
    /\ AtHandler(r)
    /\ Route(r).handler = "show"
    /\ answer' = [answer EXCEPT ![r].status = 200]
    /\ story' = [story EXCEPT ![r].writes = @ + 1]
    /\ UNCHANGED <<wiring, ask, depth, ctx, shared, live, found>>

\* What the store answers an INSERT of name.
InsertErrors(name) ==
    IF name \in names THEN {<<"23505">>} \cup Failures ELSE {<<>>} \cup Failures

\* A handler that reads a body and inserts a row under a unique index: it
\* returns on DecodeJSON's error, and answers a violation 409.
Create(r) ==
    LET decoded == DecodeJSON(ask[r].body)
    IN  /\ AtHandler(r)
        /\ Route(r).handler = "create"
        /\ \E raw \in InsertErrors(ask[r].name) :
            LET err    == Classify(raw)
                goesOn == decoded.err = <<>>
                status == IF err = <<>> THEN 201 ELSE IF Is(err, "ErrUniqueViolation") THEN 409 ELSE 500
            IN  /\ names' = IF goesOn /\ err = <<>> THEN names \cup {ask[r].name} ELSE names
                /\ answer' = [answer EXCEPT ![r].status =
                                IF decoded.status # 0 THEN decoded.status ELSE status]
                /\ story' = [story EXCEPT
                        ![r].writes = @ + (IF decoded.status # 0 THEN 1 ELSE 0)
                                        + (IF goesOn THEN 1 ELSE 0),
                        ![r].unjudged = goesOn /\ raw \in Failures]
        /\ UNCHANGED <<wiring, ask, depth, ctx, rows, spent, live, found>>

\* Everything is answered, or the wiring never came to serve.
Quiet ==
    /\ wired # "unwired"
    /\ wired = "serving" => \A r \in Requests : Answered(r)
    /\ UNCHANGED vars

Next ==
    \/ Wire
    \/ \E s \in Secrets : Issue(s) \/ Revoke(s)
    \/ \E r \in Requests, a \in Asks : ServeHTTP(r, a)
    \/ \E r, q \in Requests, a \in Asks : Cached(r, q, a)
    \/ \E r \in Requests :
        \/ BearerMissing(r) \/ BearerAsks(r) \/ BearerAnswers(r)
        \/ RightUnavailable(r) \/ RightJudged(r)
        \/ Unmetered(r) \/ Metered(r)
        \/ Show(r) \/ Create(r)
    \/ Quiet

Spec == Init /\ [][Next]_vars

-----------------------------------------------------------------------------
\* What a request may be answered under v, what a lookup may have found, and
\* what may be told of a request.
Answers(v) ==
    [status : {0, 200, 201, 204, 400, 401, 403, 404, 405, 409, 413, 429, 500},
     challenge : BOOLEAN, retry : BOOLEAN, vary : BOOLEAN,
     allow : SUBSET (Named(v) \cup {"OPTIONS"}), methods : SUBSET Named(v),
     grant : {None} \cup {o.origin : o \in v.origins},
     headers : SUBSET {h.names : h \in v.headers}]

Lookups == [raw : {<<>>, <<"pgx.ErrNoRows">>} \cup Failures, stood : SUBSET Secrets]

Stories == [passed : SUBSET Nat, charged : SUBSET Nat, unjudged : BOOLEAN,
            writes : Nat, cached : BOOLEAN]

TypeOK ==
    /\ w \in Wirings
    /\ wired \in {"unwired", "panicked", "refused", "serving"}
    /\ ask \in [Requests -> Asks \cup {None}]
    /\ depth \in [Requests -> Nat \ {0}]
    /\ rows \in [Secrets -> {"none", "live", "gone"}]
    /\ spent \in [Callers -> 0 .. Ceiling]
    /\ ctx \in [Requests -> [Keys -> Principals]]
    /\ answer \in [Requests -> Answers(w)]
    /\ names \subseteq {a.name : a \in Asks}
    /\ live \in [Requests -> SUBSET Secrets]
    /\ found \in [Requests -> SUBSET Lookups]
    /\ story \in [Requests -> Stories]

\* r was handed to a route of the table.
Routed(r) == ask[r] # None /\ ~story[r].cached /\ Match(w, ask[r].method, ask[r].path) # 0

\* Its handler runs or has run.
Handled(r) == Routed(r) /\ depth[r] > Len(Route(r).chain)

\* Where its route lists the wraps of one kind.
Wraps(r, kind) == {i \in DOMAIN Route(r).chain : Route(r).chain[i].kind = kind}

\* What a table answers is what the service named.  A route is reached by its
\* own method, GET's HEAD excepted, and a pattern of its own, with a handler at
\* the end of it (router.go:69-73, 88-91): what ServeMux would open besides was
\* refused at wiring.  The Allow of a 405 names exactly the methods the path
\* answers, OPTIONS among them where a preflight is (router.go:161-174): every
\* one of them would not be refused, and any other but HEAD would.
TableIsHonest ==
    \A r \in Requests :
        /\ Routed(r) =>
            /\ \/ Route(r).method = ask[r].method
               \/ Route(r).method = "GET" /\ ask[r].method = "HEAD"
            /\ Route(r).pattern \in Rooted
            /\ Route(r).handler # "nil"
        /\ answer[r].status = 405 =>
            \A m \in Methods :
                LET again == TableAnswer(w, [ask[r] EXCEPT !.method = m, !.preflight = TRUE])
                IN  /\ m \in answer[r].allow => again.status \notin {404, 405}
                    /\ again.status \notin {404, 405} => m \in answer[r].allow \cup {"HEAD"}

\* Whatever order a service listed its wraps in and however many keys it
\* declared, a request reaches a handler behind a bearer only on a text the
\* service issued whose row stood at every lookup, and one behind a
\* right only if the principal of that token under that right's own key
\* holds it, resolved by a bearer listed before the right (right.go:57-64).
ServedIsEntitled ==
    \A r \in Requests : Handled(r) =>
        LET text  == ask[r].header.text
            chain == Route(r).chain
        IN  /\ Wraps(r, "bearer") # {} =>
                /\ text # None /\ text.form = "issued"
                /\ text.secret \in live[r]
            /\ \A i \in Wraps(r, "right") :
                /\ \E j \in Wraps(r, "bearer") : j < i /\ chain[j].key = chain[i].key
                /\ <<Owner[chain[i].key][text.secret], chain[i].right>> \in Rights
            /\ \A i \in Wraps(r, "bearer") :
                ctx[r][chain[i].key] = Owner[chain[i].key][text.secret]

\* A status is a verdict only when there was one: what could not be judged is
\* a 500 with no challenge and no Retry-After, never a 401, 403, 409 or 429,
\* and nothing that was judged is a 500 (bearer.go:46-51, right.go:57-64,
\* rate.go:118-123, errors.go:60-69).
OutageIsNotVerdict ==
    \A r \in Requests : Answered(r) =>
        /\ (answer[r].status = 500) <=> story[r].unjudged
        /\ answer[r].challenge <=> (answer[r].status = 401)
        /\ answer[r].retry <=> (answer[r].status = 429)
        /\ answer[r].status = 401 =>
            LET text == Bearer(ask[r].header)
            IN  text = None \/ Parse(text) = None \/ text.secret \notin live[r]

\* A call is taken from a budget only for a request that every wrap the
\* service listed before the meter let through, so the position of the meter
\* decides what a refused request spends (rate.go:100-106, chain.go:19-20).
SpentInOrder ==
    /\ \A r \in Requests : \A i \in story[r].charged : 1 .. (i - 1) \subseteq story[r].passed
    /\ \A r \in Requests : Handled(r) => story[r].passed = DOMAIN Route(r).chain

\* A meter in front of the bearer, keyed on the text of the request, grants
\* one budget to one token: no second text of the same secret is served
\* (token.go:97-100).
OneBudgetPerToken ==
    \A s \in Secrets :
        Cardinality({r \in Requests :
            /\ Handled(r)
            /\ Wraps(r, "bearer") # {}
            /\ \E i \in Wraps(r, "meter") : Route(r).chain[i].by = "text"
            /\ ask[r].header.text.secret = s}) <= Ceiling

\* Behind Wrap, the answer a request gets names its own origin when that one
\* is listed and none otherwise, also when a shared cache gives it the answer
\* of another request (origin.go:91-94); a preflight names methods and
\* headers to a listed origin alone.
GrantIsOwn ==
    \A r \in Requests : Answered(r) =>
        /\ answer[r].grant = IF w.front /\ Lists(w, ask[r].origin) THEN ask[r].origin ELSE None
        /\ answer[r].methods # {} => Lists(w, ask[r].origin)

\* One answer is written for a request, whatever refuses it on the way, and a
\* handler that was told of a refused body changes nothing: the names in the
\* store are those of the requests answered 201 (envelope.go:71-73).
AnsweredOnce ==
    /\ \A r \in Requests : story[r].writes <= 1
    /\ names = {ask[r].name : r \in {q \in Requests : answer[q].status = 201}}

=============================================================================
