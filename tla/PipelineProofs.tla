--------------------------- MODULE PipelineProofs ---------------------------
(***************************************************************************)
(* What a service of transport/http promises, for any wirings, requests,   *)
(* tokens, keys, rights and ceiling.                                       *)
(*                                                                         *)
(* The invariant follows a request along the wraps its route lists: those  *)
(* it has passed are the first of them, in the order of the list, and each *)
(* has left behind what it demands.  What the table answers rests on one   *)
(* fact of the wiring: no two routes it kept conflict, so the routes that  *)
(* open a request stand one inside the other and one of them is innermost. *)
(***************************************************************************)
EXTENDS Pipeline, FiniteSetTheorems, SequenceTheorems, WellFoundedInduction, TLAPS

Chain(r) == Route(r).chain

\* What the steps need of the types, and what is said of them besides.
Base ==
    /\ w \in Wirings
    /\ wired \in {"unwired", "panicked", "refused", "serving"}
    /\ ask \in [Requests -> Asks \cup {None}]
    /\ depth \in [Requests -> Nat \ {0}]
    /\ rows \in [Secrets -> {"none", "live", "gone"}]
    /\ spent \in [Callers -> 0 .. Ceiling]

Details ==
    /\ ctx \in [Requests -> [Keys -> Principals]]
    /\ answer \in [Requests -> Answers(w)]
    /\ names \subseteq {a.name : a \in Asks}
    /\ live \in [Requests -> SUBSET Secrets]
    /\ found \in [Requests -> SUBSET Lookups]
    /\ story \in [Requests -> Stories]

Types ==
    /\ Base
    /\ DOMAIN ctx = Requests /\ \A r \in Requests : ctx[r] \in [Keys -> Principals]
    /\ DOMAIN answer = Requests /\ \A r \in Requests : DOMAIN answer[r] = DOMAIN NoAnswer
    /\ DOMAIN live = Requests
    /\ DOMAIN story = Requests /\ \A r \in Requests : DOMAIN story[r] = DOMAIN NoStory

\* A request is served by a wiring that came to serve.
Serving ==
    /\ wired = "serving" => Wired(w) = "serving"
    /\ (\E r \in Requests : ask[r] # None) => wired = "serving"

\* A request that has not arrived left no trace.
Fresh(r) ==
    ask[r] = None =>
        /\ answer[r] = NoAnswer /\ depth[r] = 1 /\ story[r] = NoStory
        /\ \A k \in Keys : ctx[r][k] = None

\* One no route serves was answered at once.
Unrouted(r) ==
    ask[r] # None /\ ~Routed(r) =>
        Answered(r) /\ depth[r] = 1 /\ story[r].passed = {} /\ story[r].charged = {}

\* The wraps passed are those the route lists before the one reached.
Walks(r) ==
    Routed(r) =>
        /\ depth[r] <= Len(Chain(r)) + 1
        /\ story[r].passed = 1 .. (depth[r] - 1)
        /\ story[r].charged \subseteq story[r].passed

\* A bearer that was passed read a text the service issued, of a row that
\* stood at the last lookup unless that one refused the request, and left its
\* principal under its key.
Known(r) ==
    Routed(r) => \A i \in 1 .. (depth[r] - 1) : Chain(r)[i].kind = "bearer" =>
        LET text == ask[r].header.text
            key  == Chain(r)[i].key
        IN  /\ Bearer(ask[r].header) # None /\ text.form = "issued"
            /\ ctx[r][key] = Owner[key][text.secret]
            /\ InFlight(r) \/ Handled(r) => text.secret \in live[r]

\* A principal is in the context only behind a bearer of its key.
Introduced(r) ==
    Routed(r) => \A k \in Keys : ctx[r][k] # None =>
        \E j \in 1 .. (depth[r] - 1) : Chain(r)[j].kind = "bearer" /\ Chain(r)[j].key = k

\* A right that was passed is held by the principal of a bearer listed before.
Entitled(r) ==
    Routed(r) => \A i \in 1 .. (depth[r] - 1) : Chain(r)[i].kind = "right" =>
        LET key == Chain(r)[i].key
        IN  /\ \E j \in 1 .. (i - 1) : Chain(r)[j].kind = "bearer" /\ Chain(r)[j].key = key
            /\ <<Owner[key][ask[r].header.text.secret], Chain(r)[i].right>> \in Rights

\* A status is a verdict, and there is none before the answer.
Judged(r) ==
    /\ (answer[r].status = 500) <=> story[r].unjudged
    /\ answer[r].challenge <=> (answer[r].status = 401)
    /\ answer[r].retry <=> (answer[r].status = 429)
    /\ answer[r].status = 401 =>
        LET text == Bearer(ask[r].header)
        IN  text = None \/ Parse(text) = None \/ text.secret \notin live[r]

\* The grant is of the request's own origin, and declared to depend on it.
Granted(r) ==
    ask[r] # None =>
        /\ answer[r].grant = IF w.front /\ Lists(w, ask[r].origin) THEN ask[r].origin ELSE None
        /\ w.front => answer[r].vary
        /\ answer[r].methods # {} => answer[r].status = 204 /\ Lists(w, ask[r].origin)
        /\ answer[r].status = 405 =>
            /\ Allow(w, ask[r].path) # {}
            /\ answer[r].allow = Answering(w, Allow(w, ask[r].path))

\* One answer, or a cache's.
Written(r) == story[r].writes = IF Answered(r) /\ ~story[r].cached THEN 1 ELSE 0

Fine(r) ==
    /\ Fresh(r) /\ Unrouted(r) /\ Walks(r)
    /\ Known(r) /\ Introduced(r) /\ Entitled(r)
    /\ Judged(r) /\ Granted(r) /\ Written(r)

Inserted == names = {ask[r].name : r \in {q \in Requests : answer[q].status = 201}}

\* The requests that took a call from the budget of a text.
Took(text) ==
    {r \in Requests : Routed(r) /\ Bearer(ask[r].header) = text
        /\ \E i \in 1 .. (depth[r] - 1) : Chain(r)[i].kind = "meter" /\ Chain(r)[i].by = "text"}

Budgeted ==
    \A c \in Callers \ {None} : IsFiniteSet(Took(c)) /\ Cardinality(Took(c)) <= spent[c]

\* A token stood at every lookup a request in flight has been judged by, and
\* what the store has answered it waits inside a bearer.
Lookup(r) ==
    LET text == Bearer(ask[r].header)
    IN  /\ ask[r] = None => live[r] = Secrets
        /\ InFlight(r) /\ text # None /\ Parse(text) # None => Parse(text) \in live[r]
        /\ \A row \in found[r] :
            /\ Inside(r, "bearer") /\ text # None
            /\ row.raw \in RowErrors(Parse(text), row.stood)

PInv == Types /\ Serving /\ (\A r \in Requests : Fine(r)) /\ Inserted /\ Budgeted

-----------------------------------------------------------------------------
(***************************************************************************)
(* The wiring and the table.                                               *)
(***************************************************************************)

\* A set of naturals with something in it has a least one.
LEMMA Least ==
  ASSUME NEW S \in SUBSET Nat, S # {}
  PROVE  \E m \in S : \A x \in S : m <= x
<1>1. PICK m \in S : \A x \in S : <<x, m>> \notin OpToRel(<, Nat)
  BY NatLessThanWellFounded, WFMin
<1>2. \A x \in S : ~(x < m)
  BY <1>1 DEF OpToRel
<1> QED BY <1>2

\* A wiring that came to serve kept only routes check accepts, no two of
\* which conflict.
LEMMA ServedTable ==
  ASSUME NEW v \in Wirings, Wired(v) = "serving"
  PROVE  /\ \A i \in DOMAIN v.routes : Check(v.routes[i])
         /\ \A i, j \in DOMAIN v.routes : i # j => ~Conflict(v.routes[i], v.routes[j])
<1> DEFINE refused  == {i \in DOMAIN v.routes : ~Check(v.routes[i])}
           panicked == {i \in DOMAIN v.routes :
                           \E j \in 1 .. (i - 1) : Conflict(v.routes[i], v.routes[j])}
<1>1. Len(v.routes) \in Nat /\ DOMAIN v.routes = 1 .. Len(v.routes)
  BY WiringAssumption
<1>2. panicked = {} /\ ~(refused # {} /\ Min(refused \cup panicked) \in refused)
  BY DEF Wired
<1>3. refused = {}
  <2>1. SUFFICES ASSUME refused # {} PROVE FALSE
    OBVIOUS
  <2>2. refused \in SUBSET Nat /\ refused \cup panicked = refused
    BY <1>1, <1>2
  <2> HIDE DEF refused, panicked
  <2>3. Min(refused) \in refused
    BY <2>1, <2>2, Least DEF Min
  <2> QED BY <1>2, <2>1, <2>2, <2>3
<1>4. \A i \in DOMAIN v.routes : Check(v.routes[i])
  BY <1>3
<1>5. ASSUME NEW i \in DOMAIN v.routes, NEW j \in DOMAIN v.routes, i # j
      PROVE  ~Conflict(v.routes[i], v.routes[j])
  <2>1. CASE j < i
    <3>1. j \in 1 .. (i - 1)
      BY <1>1, <2>1
    <3> QED BY <1>2, <3>1
  <2>2. CASE i < j
    <3>1. i \in 1 .. (j - 1)
      BY <1>1, <2>2
    <3>2. ~Conflict(v.routes[j], v.routes[i])
      BY <1>2, <3>1
    <3> QED BY <3>2 DEF Conflict
  <2> QED BY <1>1, <1>5, <2>1, <2>2
<1> QED BY <1>4, <1>5

\* A request that some route opens is matched by one that opens it.
LEMMA MatchOpens ==
  ASSUME NEW v \in Wirings, Wired(v) = "serving", NEW m, NEW p
  PROVE  /\ Match(v, m, p) # 0 <=> \E i \in DOMAIN v.routes : <<m, p>> \in Opens(v.routes[i])
         /\ Match(v, m, p) # 0 =>
                /\ Match(v, m, p) \in DOMAIN v.routes
                /\ <<m, p>> \in Opens(v.routes[Match(v, m, p)])
<1> DEFINE routes == v.routes
           n == Len(routes)
           open == {i \in DOMAIN routes : <<m, p>> \in Opens(routes[i])}
           best == {i \in open : \A j \in open : Opens(routes[i]) \subseteq Opens(routes[j])}
           Down(i) == {j \in open : Opens(routes[j]) \subseteq Opens(routes[i])}
           Downs == {Down(i) : i \in open}
<1>1. n \in Nat /\ DOMAIN routes = 1 .. n
  BY WiringAssumption
<1>2. ASSUME NEW i \in open, NEW j \in open
      PROVE  Opens(routes[i]) \subseteq Opens(routes[j]) \/ Opens(routes[j]) \subseteq Opens(routes[i])
  BY ServedTable DEF Conflict
<1>3. Match(v, m, p) = IF open = {} THEN 0 ELSE CHOOSE i \in best : TRUE
  BY DEF Match
<1>4. ASSUME open # {} PROVE best # {}
  <2>1. Downs \subseteq FiniteSubsetsOf(1 .. n)
    <3>1. \A i \in open : Down(i) \in SUBSET (1 .. n)
      BY <1>1
    <3>2. FiniteSubsetsOf(1 .. n) = SUBSET (1 .. n)
      <4>1. IsFiniteSet(1 .. n)
        BY <1>1, FS_Interval
      <4> QED BY <4>1, FS_FiniteSubsetsOfFinite
    <3> QED BY <3>1, <3>2
  <2>2. Downs # {}
    BY <1>4
  <2> HIDE DEF Downs
  <2>3. PICK D \in Downs : \A E \in Downs : <<E, D>> \notin StrictSubsetOrdering(1 .. n)
    BY <2>1, <2>2, FS_StrictSubsetOrderingWellFounded, WFMin
  <2>4. PICK i \in open : D = Down(i)
    BY DEF Downs
  <2>5. ASSUME NEW j \in open PROVE Opens(routes[i]) \subseteq Opens(routes[j])
    <3>1. SUFFICES ASSUME Opens(routes[j]) \subseteq Opens(routes[i])
                   PROVE  Opens(routes[i]) \subseteq Opens(routes[j])
      BY <1>2
    <3>2. Down(j) \subseteq Down(i) /\ Down(j) \in Downs
      BY <3>1 DEF Downs
    <3>3. Down(j) \in SUBSET (1 .. n) /\ Down(i) \in SUBSET (1 .. n)
      BY <1>1
    <3>4. Down(j) = Down(i)
      BY <2>3, <2>4, <3>2, <3>3 DEF StrictSubsetOrdering
    <3>5. i \in Down(j)
      BY <3>4
    <3> QED BY <3>5
  <2> QED BY <2>5
<1>5. best \subseteq open /\ open \subseteq DOMAIN routes /\ 0 \notin DOMAIN routes
  BY <1>1
<1>6. Match(v, m, p) # 0 <=> open # {}
  BY <1>3, <1>4, <1>5
<1>7. open # {} => Match(v, m, p) \in open
  BY <1>3, <1>4, <1>5
<1> QED BY <1>6, <1>7

\* The chain of a route is met in the order it is listed in.
LEMMA ComposeKeepsOrder ==
  ASSUME NEW chain, Len(chain) \in Nat, DOMAIN chain = 1 .. Len(chain), NEW d \in DOMAIN chain
  PROVE  Compose(chain)[d] = d
<1>1. Len(chain) + 1 - d \in DOMAIN chain /\ d \in Nat
  OBVIOUS
<1>2. Len(chain) + 1 - (Len(chain) + 1 - d) = d
  BY <1>1
<1> QED BY <1>1, <1>2 DEF Compose

\* What Wrap declares for a request, and no answer yet.
LEMMA WrapDeclares ==
  ASSUME NEW v, NEW a
  PROVE  LET head == Wrap(v, a)
         IN  /\ DOMAIN head = DOMAIN NoAnswer
             /\ head.status = 0 /\ head.challenge = FALSE /\ head.retry = FALSE
             /\ head.allow = {} /\ head.methods = {}
             /\ head.grant = IF v.front /\ Lists(v, a.origin) THEN a.origin ELSE None
             /\ v.front => head.vary
  BY DEF Wrap, NoAnswer

\* What the table answers, or leaves to a route.
LEMMA TableAnswers ==
  ASSUME NEW v, NEW a
  PROVE  LET head    == TableAnswer(v, a)
             matched == Match(v, a.method, a.path)
         IN  /\ DOMAIN head = DOMAIN NoAnswer
             /\ head.status \in {0, 204, 404, 405}
             /\ head.status = 0 <=> matched # 0
             /\ head.challenge = FALSE /\ head.retry = FALSE
             /\ head.grant = IF v.front /\ Lists(v, a.origin) THEN a.origin ELSE None
             /\ v.front => head.vary
             /\ head.methods # {} => head.status = 204 /\ Lists(v, a.origin)
             /\ head.status = 404 => Allow(v, a.path) = {}
             /\ head.status = 204 => v.granting /\ IsPreflight(a)
             /\ head.status = 405 =>
                    /\ Allow(v, a.path) # {}
                    /\ head.allow = Answering(v, Allow(v, a.path))
                    /\ ~(v.granting /\ IsPreflight(a))
<1> DEFINE head == Wrap(v, a)
           allow == Allow(v, a.path)
<1>1. /\ DOMAIN head = DOMAIN NoAnswer
      /\ DOMAIN NoAnswer = {"status", "challenge", "retry", "allow", "vary", "grant", "methods", "headers"}
      /\ head.status = 0 /\ head.challenge = FALSE /\ head.retry = FALSE
      /\ head.allow = {} /\ head.methods = {}
      /\ head.grant = IF v.front /\ Lists(v, a.origin) THEN a.origin ELSE None
      /\ v.front => head.vary
  BY WrapDeclares DEF NoAnswer
<1> HIDE DEF head, allow
<1>2. CASE Match(v, a.method, a.path) # 0
  <2>1. TableAnswer(v, a) = head
    BY <1>2 DEF TableAnswer, head
  <2> QED BY <1>1, <1>2, <2>1
<1>3. CASE Match(v, a.method, a.path) = 0 /\ allow = {}
  <2>1. TableAnswer(v, a) = [head EXCEPT !.status = 404]
    BY <1>3 DEF TableAnswer, head, allow
  <2> QED BY <1>1, <1>3, <2>1 DEF allow
<1>4. CASE Match(v, a.method, a.path) = 0 /\ allow # {} /\ v.granting /\ IsPreflight(a)
  <2>1. TableAnswer(v, a) = Preflight(v, a)
    BY <1>4 DEF TableAnswer, allow
  <2>2. CASE Lists(v, a.origin)
    <3>1. TableAnswer(v, a) =
            [[head EXCEPT !.status = 204] EXCEPT !.methods = allow,
                                                 !.headers = {h.names : h \in v.headers}]
      BY <2>1, <2>2 DEF Preflight, head, allow
    <3> QED BY <1>1, <1>4, <2>2, <3>1
  <2>3. CASE ~Lists(v, a.origin)
    <3>1. TableAnswer(v, a) = [head EXCEPT !.status = 204]
      BY <2>1, <2>3 DEF Preflight, head
    <3> QED BY <1>1, <1>4, <2>3, <3>1
  <2> QED BY <2>2, <2>3
<1>5. CASE Match(v, a.method, a.path) = 0 /\ allow # {} /\ ~(v.granting /\ IsPreflight(a))
  <2>1. TableAnswer(v, a) = [head EXCEPT !.status = 405, !.allow = Answering(v, allow)]
    BY <1>5 DEF TableAnswer, head, allow
  <2> QED BY <1>1, <1>5, <2>1 DEF allow
<1> QED BY <1>2, <1>3, <1>4, <1>5

-----------------------------------------------------------------------------
(***************************************************************************)
(* Errors.                                                                 *)
(***************************************************************************)

\* The errors a chain is made of here.
Errors == {"Error", "ErrNoRows", "ErrUniqueViolation", "ErrUnauthenticated", "service",
           "pgx.ErrNoRows", "23505", "57014", "context", "deadline"}

LEMMA OneError ==
  ASSUME NEW x \in Errors
  PROVE  <<x>> \in Seq(Errors) /\ <<x>> # <<>> /\ \A target : Is(<<x>>, target) <=> x = target
<1>1. \A target : Is(<<x>>, target) <=> x = target
  BY DEF Is
<1>2. <<x>> \in Seq(Errors) /\ <<x>> # <<>>
  OBVIOUS
<1> QED BY <1>1, <1>2

LEMMA TwoErrors ==
  ASSUME NEW x \in Errors, NEW y \in Errors
  PROVE  /\ <<x, y>> \in Seq(Errors) /\ <<x, y>> # <<>>
         /\ \A target : Is(<<x, y>>, target) <=> x = target \/ y = target
<1>1. \A target : Is(<<x, y>>, target) <=> x = target \/ y = target
  BY DEF Is
<1>2. <<x, y>> \in Seq(Errors) /\ <<x, y>> # <<>>
  OBVIOUS
<1> QED BY <1>1, <1>2

\* An error in front of a chain is found there, and hides nothing behind it.
LEMMA InFront ==
  ASSUME NEW S, NEW x \in S, NEW err \in Seq(S), NEW target
  PROVE  /\ Is(<<x>> \o err, target) <=> x = target \/ Is(err, target)
         /\ <<x>> \o err \in Seq(S) /\ <<x>> \o err # <<>>
<1> DEFINE s == <<x>>
<1>0. s \in Seq(S) /\ Len(s) = 1 /\ s[1] = x
  OBVIOUS
<1>1. Len(err) \in Nat /\ DOMAIN err = 1 .. Len(err)
  BY LenProperties
<1> HIDE DEF s
<1>2. /\ s \o err \in Seq(S)
      /\ Len(s \o err) = 1 + Len(err)
      /\ \A i \in 1 .. 1 + Len(err) : (s \o err)[i] = IF i <= 1 THEN x ELSE err[i - 1]
  <2>1. /\ s \o err \in Seq(S)
        /\ Len(s \o err) = Len(s) + Len(err)
        /\ \A i \in 1 .. Len(s) + Len(err) :
              (s \o err)[i] = IF i <= Len(s) THEN s[i] ELSE err[i - Len(s)]
    BY <1>0, ConcatProperties
  <2>2. \A i \in 1 .. 1 + Len(err) : i <= 1 => s[i] = x
    BY <1>0, <1>1
  <2> QED BY <1>0, <2>1, <2>2
<1>3. DOMAIN (s \o err) = 1 .. 1 + Len(err)
  BY <1>2, LenProperties
<1>4. ASSUME Is(s \o err, target) PROVE x = target \/ Is(err, target)
  <2>1. PICK i \in 1 .. 1 + Len(err) : (s \o err)[i] = target
    BY <1>3, <1>4 DEF Is
  <2>2. i = 1 \/ i - 1 \in 1 .. Len(err)
    BY <1>1
  <2> QED BY <1>1, <1>2, <2>1, <2>2, SMTT(30) DEF Is
<1>5. ASSUME x = target PROVE Is(s \o err, target)
  <2>1. 1 \in 1 .. 1 + Len(err) /\ (s \o err)[1] = x
    BY <1>1, <1>2
  <2> QED BY <1>3, <1>5, <2>1 DEF Is
<1>6. ASSUME Is(err, target) PROVE Is(s \o err, target)
  <2>1. PICK i \in 1 .. Len(err) : err[i] = target
    BY <1>1, <1>6 DEF Is
  <2>2. i + 1 \in 1 .. 1 + Len(err) /\ ~(i + 1 <= 1) /\ (i + 1) - 1 = i
    BY <1>1
  <2>3. (s \o err)[i + 1] = target
    BY <1>2, <2>1, <2>2
  <2> QED BY <1>3, <2>2, <2>3 DEF Is
<1>7. s \o err # <<>>
  <2>1. Len(s \o err) # 0
    BY <1>1, <1>2
  <2> QED BY <2>1, EmptySeq
<1> QED BY <1>2, <1>4, <1>5, <1>6, <1>7 DEF s

LEMMA NilIsNone == \A target : ~Is(<<>>, target)
  <1>1. DOMAIN <<>> = {}
    OBVIOUS
  <1> QED BY <1>1 DEF Is

\* What Classify makes of an error that is not nil (postgres/errors.go:60-62).
Classes == {"ErrNoRows", "ErrUniqueViolation", "Error"}

\* Every error is classified, and its class is kept whatever a caller wraps
\* around it and however often it is classified again (postgres/errors.go:62-64): a
\* callback of BeginFunc may classify what BeginFunc's caller classifies too.
THEOREM ClassIsKept ==
  ASSUME NEW S, {"ErrUniqueViolation", "Error", "pgx.ErrNoRows", "ErrNoRows"} \subseteq S,
         NEW err \in Seq(S), err # <<>>, NEW x \in S \ Classes
  PROVE  LET classified == Classify(err)
             again      == Classify(<<x>> \o classified)
         IN  /\ \E class \in Classes : Is(classified, class)
             /\ Classify(classified) = classified
             /\ \A class \in Classes : Is(again, class) <=> Is(classified, class)
<1> DEFINE classified == Classify(err)
           wrapped == <<x>> \o classified
<1>1. classified \in Seq(S) /\ classified # <<>> /\ \E class \in Classes : Is(classified, class)
  <2>1. CASE \E class \in Classes : Is(err, class)
    <3>1. classified = err
      BY <2>1 DEF Classify, Classes
    <3> QED BY <2>1, <3>1
  <2>2. CASE (\A class \in Classes : ~Is(err, class)) /\ Is(err, "pgx.ErrNoRows")
    <3>1. classified = NoRows
      BY <2>2 DEF Classify, Classes
    <3>2. DOMAIN NoRows = 1 .. 2 /\ NoRows[1] = "ErrNoRows"
      BY DEF NoRows
    <3>3. NoRows \in Seq(S) /\ NoRows # <<>>
      BY DEF NoRows
    <3>4. Is(NoRows, "ErrNoRows")
      BY <3>2 DEF Is
    <3> QED BY <3>1, <3>3, <3>4 DEF Classes
  <2>3. CASE (\A class \in Classes : ~Is(err, class)) /\ ~Is(err, "pgx.ErrNoRows") /\ Is(err, "23505")
    <3>1. classified = <<"ErrUniqueViolation">>
      BY <2>3 DEF Classify, Classes
    <3>2. Is(<<"ErrUniqueViolation">>, "ErrUniqueViolation")
      BY DEF Is
    <3>3. <<"ErrUniqueViolation">> \in Seq(S) /\ <<"ErrUniqueViolation">> # <<>>
      OBVIOUS
    <3> QED BY <3>1, <3>2, <3>3 DEF Classes
  <2>4. CASE (\A class \in Classes : ~Is(err, class)) /\ ~Is(err, "pgx.ErrNoRows") /\ ~Is(err, "23505")
    <3>1. classified = <<"Error">> \o err
      BY <2>4 DEF Classify, Classes
    <3>2. "Error" \in S
      OBVIOUS
    <3> QED BY <3>1, <3>2, InFront DEF Classes
  <2> QED BY <2>1, <2>2, <2>3, <2>4
<1> HIDE DEF classified
<1>2. ASSUME NEW e, e # <<>>, \E class \in Classes : Is(e, class)
      PROVE  Classify(e) = e
  BY <1>2 DEF Classify, Classes
<1>3. /\ wrapped # <<>>
      /\ \A class \in Classes : Is(wrapped, class) <=> Is(classified, class)
  <2>1. ASSUME NEW class \in Classes
        PROVE  /\ Is(wrapped, class) <=> x = class \/ Is(classified, class)
               /\ wrapped # <<>>
    BY <1>1, InFront
  <2> HIDE DEF wrapped
  <2>2. "Error" \in Classes
    BY DEF Classes
  <2> QED BY <2>1, <2>2
<1> HIDE DEF wrapped
<1>4. Classify(classified) = classified /\ Classify(wrapped) = wrapped
  BY <1>1, <1>2, <1>3
<1> QED BY <1>1, <1>3, <1>4 DEF classified, wrapped

\* What classifying makes of an answer that is no verdict on a row: an error
\* that is none of the three a service goes by.
NoVerdict(err) ==
    /\ err \in Seq(Errors) /\ err # <<>> /\ Is(err, "Error")
    /\ ~Is(err, "ErrNoRows") /\ ~Is(err, "ErrUniqueViolation") /\ ~Is(err, "ErrUnauthenticated")

LEMMA FailureIsNoVerdict ==
  ASSUME NEW raw \in Failures
  PROVE  raw # <<>> /\ NoVerdict(Classify(raw)) /\ NoVerdict(InTransaction(raw))
<1>1. /\ raw \in Seq(Errors) /\ raw # <<>>
      /\ \A target \in {"ErrNoRows", "ErrUniqueViolation", "ErrUnauthenticated", "Error",
                        "pgx.ErrNoRows", "23505"} : ~Is(raw, target)
  <2>1. CASE raw = <<"57014">>
    <3>1. "57014" \in Errors
      BY DEF Errors
    <3> QED BY <2>1, <3>1, OneError
  <2>2. CASE raw = <<"context", "deadline">>
    <3>1. "context" \in Errors /\ "deadline" \in Errors
      BY DEF Errors
    <3> QED BY <2>2, <3>1, TwoErrors
  <2> QED BY <2>1, <2>2 DEF Failures
<1>2. Classify(raw) = <<"Error">> \o raw
  BY <1>1 DEF Classify
<1> DEFINE err == <<"Error">> \o raw
           back == <<"service">> \o err
<1>3. NoVerdict(err)
  <2>1. "Error" \in Errors
    BY DEF Errors
  <2>2. /\ err \in Seq(Errors) /\ err # <<>>
        /\ \A target : Is(err, target) <=> "Error" = target \/ Is(raw, target)
    BY <1>1, <2>1, InFront
  <2> HIDE DEF err
  <2> QED BY <1>1, <2>2 DEF NoVerdict
<1> HIDE DEF err
<1>4. NoVerdict(back)
  <2>1. "service" \in Errors
    BY DEF Errors
  <2>2. /\ back \in Seq(Errors) /\ back # <<>>
        /\ \A target : Is(back, target) <=> "service" = target \/ Is(err, target)
    BY <1>3, <2>1, InFront DEF NoVerdict
  <2> HIDE DEF back
  <2> QED BY <1>3, <2>2 DEF NoVerdict
<1> HIDE DEF back
<1>5. Classify(back) = back
  BY <1>4 DEF Classify, NoVerdict
<1>6. InTransaction(raw) = back
  BY <1>2, <1>3, <1>5 DEF InTransaction, NoVerdict, err, back
<1> QED BY <1>1, <1>2, <1>3, <1>4, <1>6 DEF err

\* A missing row stays one, classified once or twice.
LEMMA MissingIsNoRows ==
  /\ Is(Classify(<<"pgx.ErrNoRows">>), "ErrNoRows")
  /\ Is(InTransaction(<<"pgx.ErrNoRows">>), "ErrNoRows")
<1>0. {"pgx.ErrNoRows", "ErrNoRows", "service"} \subseteq Errors
  BY DEF Errors
<1>1. Classify(<<"pgx.ErrNoRows">>) = NoRows
  BY <1>0, OneError DEF Classify
<1> DEFINE back == <<"service">> \o NoRows
<1>2. NoRows \in Seq(Errors) /\ NoRows # <<>> /\ Is(NoRows, "ErrNoRows")
  BY <1>0, TwoErrors DEF NoRows
<1>3. Is(back, "ErrNoRows")
  BY <1>0, <1>2, InFront
<1>4. Classify(back) = back
  BY <1>3 DEF Classify
<1>5. InTransaction(<<"pgx.ErrNoRows">>) = back
  BY <1>1, <1>2, <1>4 DEF InTransaction
<1> QED BY <1>1, <1>2, <1>3, <1>5

LEMMA NilIsNil == Classify(<<>>) = <<>> /\ InTransaction(<<>>) = <<>>
  BY DEF Classify, InTransaction

\* A resolver says yes only to a text Issue wrote whose row stands, no only
\* when the store has answered, and neither only when it has not.
LEMMA ResolveJudges ==
  ASSUME NEW text, NEW stood, NEW raw \in RowErrors(Parse(text), stood), NEW transaction \in BOOLEAN
  PROVE  LET err == Resolve(text, raw, transaction)
         IN  /\ err = <<>> => Parse(text) # None /\ Parse(text) \in stood
             /\ Is(err, "ErrUnauthenticated") =>
                    raw \notin Failures /\ (Parse(text) = None \/ Parse(text) \notin stood)
             /\ err # <<>> /\ ~Is(err, "ErrUnauthenticated") => raw \in Failures
<1> DEFINE classified == IF transaction THEN InTransaction(raw) ELSE Classify(raw)
           err == Resolve(text, raw, transaction)
<1>1. <<"ErrUnauthenticated">> # <<>> /\ Is(<<"ErrUnauthenticated">>, "ErrUnauthenticated")
  <2>1. "ErrUnauthenticated" \in Errors
    BY DEF Errors
  <2> QED BY <2>1, OneError
<1>2. <<>> \notin Failures /\ <<"pgx.ErrNoRows">> \notin Failures
  BY DEF Failures
<1>3. err = IF Parse(text) = None \/ Is(classified, "ErrNoRows")
            THEN <<"ErrUnauthenticated">> ELSE classified
  BY DEF Resolve
<1> HIDE DEF err, classified
<1>4. CASE Parse(text) = None
  <2>1. raw = <<>>
    BY <1>4 DEF RowErrors
  <2> QED BY <1>1, <1>2, <1>3, <1>4, <2>1 DEF err
<1>5. CASE Parse(text) # None /\ raw \in Failures
  <2>1. NoVerdict(classified)
    BY <1>5, FailureIsNoVerdict DEF classified
  <2> QED BY <1>3, <1>5, <2>1 DEF err, NoVerdict
<1>6. CASE Parse(text) # None /\ raw \notin Failures /\ Parse(text) \in stood
  <2>1. raw = <<>>
    BY <1>6 DEF RowErrors
  <2>2. classified = <<>>
    BY <2>1, NilIsNil DEF classified
  <2> QED BY <1>3, <1>6, <2>2, NilIsNone DEF err
<1>7. CASE Parse(text) # None /\ raw \notin Failures /\ Parse(text) \notin stood
  <2>1. raw = <<"pgx.ErrNoRows">>
    BY <1>7 DEF RowErrors
  <2>2. Is(classified, "ErrNoRows")
    BY <2>1, MissingIsNoRows DEF classified
  <2> QED BY <1>1, <1>3, <1>7, <2>2 DEF err
<1> QED BY <1>4, <1>5, <1>6, <1>7

\* An insert is answered 201 only when the row went in, and 500 only when the
\* store gave no verdict.
LEMMA InsertJudges ==
  ASSUME NEW name, NEW raw \in InsertErrors(name)
  PROVE  LET err == Classify(raw)
         IN  /\ err = <<>> <=> raw = <<>>
             /\ raw \in Failures => err # <<>> /\ ~Is(err, "ErrUniqueViolation")
             /\ raw \notin Failures => err = <<>> \/ Is(err, "ErrUniqueViolation")
<1>1. raw \in {<<>>, <<"23505">>} \cup Failures
  BY DEF InsertErrors
<1>2. CASE raw \in Failures
  BY <1>2, FailureIsNoVerdict DEF NoVerdict
<1>3. CASE raw = <<>>
  <2>1. raw \notin Failures
    BY <1>3 DEF Failures
  <2> QED BY <1>3, <2>1, NilIsNil
<1>4. CASE raw = <<"23505">>
  <2>1. "23505" \in Errors /\ "ErrUniqueViolation" \in Errors
    BY DEF Errors
  <2>2. Classify(raw) = <<"ErrUniqueViolation">>
    BY <1>4, <2>1, OneError DEF Classify
  <2>3. raw \notin Failures /\ raw # <<>>
    BY <1>4 DEF Failures
  <2> QED BY <2>1, <2>2, <2>3, OneError
<1> QED BY <1>1, <1>2, <1>3, <1>4

\* A handler goes on exactly when nothing was written for its body.
LEMMA DecodeAnswers ==
  ASSUME NEW body
  PROVE  LET decoded == DecodeJSON(body)
         IN  /\ decoded.status \in {0, 400, 413}
             /\ decoded.status = 0 <=> decoded.err = <<>>
<1>1. ASSUME NEW err PROVE Refuse(err).status \in {400, 413} /\ Refuse(err).err # <<>>
  <2>1. <<"second value">> # <<>>
    OBVIOUS
  <2> QED BY <2>1 DEF Refuse
<1> QED BY <1>1 DEF DecodeJSON, Decoded

-----------------------------------------------------------------------------
(***************************************************************************)
(* A request on its way.                                                   *)
(***************************************************************************)

\* What is said of a request stands while the request does.
LEMMA Stands ==
  ASSUME NEW q \in Requests, Fine(q), w' = w,
         ask'[q] = ask[q], depth'[q] = depth[q], ctx'[q] = ctx[q],
         answer'[q] = answer[q], live'[q] = live[q], story'[q] = story[q]
  PROVE  Fine(q)'
<1> USE DEF Fine, Chain, Route, Routed, Answered, InFlight, Handled
<1>same. Chain(q)' = Chain(q) /\ (Routed(q)' <=> Routed(q))
  OBVIOUS
<1>1. Fresh(q)' /\ Unrouted(q)' /\ Walks(q)'
  <2>1. Fresh(q)'
    BY DEF Fresh
  <2>2. Unrouted(q)'
    BY DEF Unrouted
  <2>3. Walks(q)'
    <3>1. Walks(q)
      OBVIOUS
    <3> HIDE DEF Chain, Routed
    <3> QED BY <3>1, <1>same DEF Walks
  <2> QED BY <2>1, <2>2, <2>3
<1>2. Known(q)'
  <2>1. Known(q)
    OBVIOUS
  <2> HIDE DEF Chain, Routed
  <2> QED BY <2>1, <1>same DEF Known
<1>3. Introduced(q)'
  <2>1. Introduced(q)
    BY SMTT(30)
  <2> HIDE DEF Chain, Routed
  <2> QED BY <2>1, <1>same DEF Introduced
<1>5. Entitled(q)'
  <2>1. Entitled(q)
    OBVIOUS
  <2> HIDE DEF Chain, Routed
  <2> QED BY <2>1, <1>same DEF Entitled
<1>4. Judged(q)' /\ Granted(q)' /\ Written(q)'
  BY DEF Judged, Granted, Written
<1> QED BY <1>1, <1>2, <1>3, <1>4, <1>5

\* The route a request was handed to is one of the table's, opens it, and
\* lists wraps under keys the service declared.
LEMMA RouteServes ==
  ASSUME PInv, NEW r \in Requests, Routed(r)
  PROVE  /\ ask[r] \in Asks /\ w \in Wirings /\ Wired(w) = "serving"
         /\ \E i \in DOMAIN w.routes : Route(r) = w.routes[i]
         /\ Check(Route(r))
         /\ <<ask[r].method, ask[r].path>> \in Opens(Route(r))
         /\ Len(Chain(r)) \in Nat /\ DOMAIN Chain(r) = 1 .. Len(Chain(r))
         /\ \A k \in 1 .. Len(Chain(r)) :
                /\ Chain(r)[k].kind \in {"bearer", "right"} => Chain(r)[k].key \in Keys
                /\ Chain(r)[k].kind = "meter" => Chain(r)[k].by \in Keys \cup {"text"}
<1> DEFINE m == Match(w, ask[r].method, ask[r].path)
<1>1. ask[r] # None /\ m # 0
  BY DEF Routed
<1>2. ask[r] \in Asks /\ w \in Wirings
  BY <1>1 DEF PInv, Types, Base
<1>3. Wired(w) = "serving"
  BY <1>1 DEF PInv, Serving
<1>4. m \in DOMAIN w.routes /\ <<ask[r].method, ask[r].path>> \in Opens(w.routes[m])
  BY <1>1, <1>2, <1>3, MatchOpens
<1>5. Route(r) = w.routes[m]
  BY DEF Route
<1> HIDE DEF m
<1>6. Check(Route(r))
  BY <1>2, <1>3, <1>4, <1>5, ServedTable
<1>7. /\ Len(Chain(r)) \in Nat /\ DOMAIN Chain(r) = 1 .. Len(Chain(r))
      /\ \A k \in 1 .. Len(Chain(r)) :
            /\ Chain(r)[k].kind \in {"bearer", "right"} => Chain(r)[k].key \in Keys
            /\ Chain(r)[k].kind = "meter" => Chain(r)[k].by \in Keys \cup {"text"}
  BY <1>2, <1>4, <1>5, WiringAssumption DEF Chain
<1> QED BY <1>2, <1>3, <1>4, <1>5, <1>6, <1>7

\* A request in flight was handed to a route, and has met as many wraps.
LEMMA FlightIsRouted ==
  ASSUME PInv, NEW r \in Requests, InFlight(r)
  PROVE  /\ Routed(r) /\ ask[r] # None /\ answer[r].status = 0
         /\ depth[r] \in 1 .. (Len(Chain(r)) + 1)
         /\ story[r].passed = 1 .. (depth[r] - 1) /\ story[r].charged \subseteq story[r].passed
         /\ ~story[r].unjudged /\ ~answer[r].challenge /\ ~answer[r].retry
         /\ answer[r].methods = {} /\ story[r].writes = 0 /\ ~story[r].cached
<1>1. Fine(r)
  BY DEF PInv
<1>2. ask[r] # None /\ answer[r].status = 0
  BY DEF InFlight, Answered
<1>3. Routed(r)
  BY <1>1, <1>2 DEF Fine, Unrouted, Answered
<1>4. depth[r] \in Nat \ {0} /\ Len(Chain(r)) \in Nat
  BY <1>3, RouteServes DEF PInv, Types, Base
<1>5. /\ depth[r] <= Len(Chain(r)) + 1 /\ story[r].passed = 1 .. (depth[r] - 1)
      /\ story[r].charged \subseteq story[r].passed
  BY <1>1, <1>3 DEF Fine, Walks
<1>6. ~story[r].unjudged /\ ~answer[r].challenge /\ ~answer[r].retry
  <2>1. Judged(r)
    BY <1>1 DEF Fine
  <2> QED BY <1>2, <2>1 DEF Judged
<1>7. answer[r].methods = {}
  <2>1. answer[r].methods # {} => answer[r].status = 204
    BY <1>1, <1>2 DEF Fine, Granted
  <2> QED BY <1>2, <2>1
<1>8. story[r].writes = 0 /\ ~story[r].cached
  BY <1>1, <1>2, <1>3 DEF Fine, Written, Answered, Routed
<1> QED BY <1>2, <1>3, <1>4, <1>5, <1>6, <1>7, <1>8

\* The wrap a request is inside is the one its route lists at its depth.
LEMMA InsideIsListed ==
  ASSUME PInv, NEW r \in Requests, NEW kind, Inside(r, kind)
  PROVE  /\ InFlight(r) /\ Routed(r)
         /\ depth[r] \in 1 .. Len(Chain(r))
         /\ Listed(r) = depth[r]
         /\ WrapOf(r) = Chain(r)[depth[r]]
         /\ Chain(r)[depth[r]].kind = kind
<1>1. InFlight(r) /\ ~(depth[r] > Len(Chain(r))) /\ WrapOf(r).kind = kind
  BY DEF Inside, AtHandler, Chain
<1>2. Routed(r) /\ depth[r] \in 1 .. (Len(Chain(r)) + 1)
  BY <1>1, FlightIsRouted
<1>3. Len(Chain(r)) \in Nat /\ DOMAIN Chain(r) = 1 .. Len(Chain(r))
  BY <1>2, RouteServes
<1>4. depth[r] \in 1 .. Len(Chain(r))
  BY <1>1, <1>2, <1>3
<1>5. Listed(r) = depth[r]
  BY <1>3, <1>4, ComposeKeepsOrder DEF Listed, Chain
<1> QED BY <1>1, <1>2, <1>4, <1>5 DEF WrapOf, Chain

\* A step that is about r alone.
Only(r) ==
    /\ w' = w /\ wired' = wired
    /\ \A q \in Requests \ {r} :
        /\ ask'[q] = ask[q] /\ depth'[q] = depth[q] /\ ctx'[q] = ctx[q]
        /\ answer'[q] = answer[q] /\ live'[q] = live[q] /\ story'[q] = story[q]

\* Such a step leaves what is said of the others.
LEMMA OthersStand ==
  ASSUME PInv, NEW r \in Requests, Only(r), Fine(r)', NEW q \in Requests
  PROVE  Fine(q)'
<1>1. CASE q = r
  BY <1>1
<1>2. CASE q # r
  <2>1. Fine(q) /\ w' = w
    BY DEF PInv, Only
  <2>2. /\ ask'[q] = ask[q] /\ depth'[q] = depth[q] /\ ctx'[q] = ctx[q]
        /\ answer'[q] = answer[q] /\ live'[q] = live[q] /\ story'[q] = story[q]
    BY <1>2 DEF Only
  <2> QED BY <2>1, <2>2, Stands
<1> QED BY <1>1, <1>2

\* No budget is touched where no wrap is passed.
LEMMA TookStands ==
  ASSUME w' = w, ask' = ask, depth' = depth,
         \A q \in Requests : story'[q].cached = story[q].cached, NEW c
  PROVE  Took(c)' = Took(c)
<1>1. ASSUME NEW q \in Requests
      PROVE  (Routed(q)' <=> Routed(q)) /\ Chain(q)' = Chain(q) /\ ask'[q] = ask[q] /\ depth'[q] = depth[q]
  BY DEF Routed, Chain, Route
<1> QED BY <1>1 DEF Took

-----------------------------------------------------------------------------
(***************************************************************************)
(* The steps.                                                              *)
(***************************************************************************)

\* What updating an answer's fields, or a story's, one by one leaves.
LEMMA Said ==
  ASSUME NEW f, DOMAIN f = Requests, NEW r \in Requests, DOMAIN f[r] = DOMAIN NoAnswer,
         NEW status, NEW challenge, NEW retry
  PROVE  LET g == [f EXCEPT ![r].status = status, ![r].challenge = challenge, ![r].retry = retry]
         IN  /\ DOMAIN g = Requests /\ \A q \in Requests \ {r} : g[q] = f[q]
             /\ DOMAIN g[r] = DOMAIN NoAnswer
             /\ g[r].status = status /\ g[r].challenge = challenge /\ g[r].retry = retry
             /\ g[r].allow = f[r].allow /\ g[r].vary = f[r].vary
             /\ g[r].grant = f[r].grant /\ g[r].methods = f[r].methods
<1> DEFINE said == [f[r] EXCEPT !.status = status, !.challenge = challenge, !.retry = retry]
<1>1. [f EXCEPT ![r].status = status, ![r].challenge = challenge, ![r].retry = retry]
        = [f EXCEPT ![r] = said]
  OBVIOUS
<1>2. /\ DOMAIN said = DOMAIN NoAnswer
      /\ said.status = status /\ said.challenge = challenge /\ said.retry = retry
      /\ said.allow = f[r].allow /\ said.vary = f[r].vary
      /\ said.grant = f[r].grant /\ said.methods = f[r].methods
  BY DEF NoAnswer
<1> HIDE DEF said
<1> QED BY <1>1, <1>2

LEMMA Told ==
  ASSUME NEW f, DOMAIN f = Requests, NEW r \in Requests, DOMAIN f[r] = DOMAIN NoStory,
         NEW unjudged
  PROVE  LET g == [f EXCEPT ![r].writes = @ + 1, ![r].unjudged = unjudged]
         IN  /\ DOMAIN g = Requests /\ \A q \in Requests \ {r} : g[q] = f[q]
             /\ DOMAIN g[r] = DOMAIN NoStory
             /\ g[r].writes = f[r].writes + 1 /\ g[r].unjudged = unjudged
             /\ g[r].passed = f[r].passed /\ g[r].charged = f[r].charged
             /\ g[r].cached = f[r].cached
<1> DEFINE told == [f[r] EXCEPT !.writes = @ + 1, !.unjudged = unjudged]
<1>1. [f EXCEPT ![r].writes = @ + 1, ![r].unjudged = unjudged] = [f EXCEPT ![r] = told]
  OBVIOUS
<1>2. /\ DOMAIN told = DOMAIN NoStory
      /\ told.writes = f[r].writes + 1 /\ told.unjudged = unjudged
      /\ told.passed = f[r].passed /\ told.charged = f[r].charged
      /\ told.cached = f[r].cached
  BY DEF NoStory
<1> HIDE DEF told
<1> QED BY <1>1, <1>2

\* A wrap turns r away, with a verdict where it had one.
Refuses(r, kind, status, unjudged) ==
    /\ Inside(r, kind) /\ TurnAway(r, status, unjudged)
    /\ status \in {401, 403, 429, 500} /\ unjudged \in BOOLEAN
    /\ (status = 500) <=> unjudged
    /\ status = 401 =>
        LET text == Bearer(ask[r].header)
        IN  text = None \/ Parse(text) = None \/ text.secret \notin live'[r]
    /\ UNCHANGED <<wiring, ask, ctx, shared>>
    /\ DOMAIN live' = Requests /\ \A q \in Requests \ {r} : live'[q] = live[q]

\* A request turned away by a wrap.
LEMMA TurnAwayKeeps ==
  ASSUME PInv, NEW r \in Requests, NEW kind, NEW status, NEW unjudged,
         Refuses(r, kind, status, unjudged)
  PROVE  PInv'
<1>0. /\ Inside(r, kind) /\ TurnAway(r, status, unjudged)
      /\ status \in {401, 403, 429, 500} /\ unjudged \in BOOLEAN /\ ((status = 500) <=> unjudged)
      /\ UNCHANGED <<wiring, ask, ctx, shared>>
      /\ DOMAIN live' = Requests /\ \A q \in Requests \ {r} : live'[q] = live[q]
      /\ status = 401 =>
            LET text == Bearer(ask[r].header)
            IN  text = None \/ Parse(text) = None \/ text.secret \notin live'[r]
  BY DEF Refuses
<1>1. /\ InFlight(r) /\ Routed(r) /\ depth[r] \in 1 .. Len(Chain(r))
      /\ Len(Chain(r)) \in Nat
  BY <1>0, InsideIsListed, RouteServes
<1>2. /\ ask[r] # None /\ answer[r].status = 0
      /\ answer[r].methods = {} /\ story[r].writes = 0 /\ ~story[r].cached
  BY <1>1, FlightIsRouted
<1>3. Types /\ Fine(r)
  BY DEF PInv
<1>4. /\ w' = w /\ wired' = wired /\ ask' = ask /\ ctx' = ctx /\ depth' = depth
      /\ rows' = rows /\ spent' = spent /\ names' = names
  BY <1>0 DEF TurnAway, wiring, shared
<1>5. /\ answer' = [answer EXCEPT ![r].status = status, ![r].challenge = (status = 401),
                                  ![r].retry = (status = 429)]
      /\ story' = [story EXCEPT ![r].writes = @ + 1, ![r].unjudged = unjudged]
  BY <1>0 DEF TurnAway
<1>6. /\ DOMAIN answer'[r] = DOMAIN NoAnswer
      /\ answer'[r].status = status
      /\ answer'[r].challenge = (status = 401)
      /\ answer'[r].retry = (status = 429)
      /\ answer'[r].grant = answer[r].grant /\ answer'[r].vary = answer[r].vary
      /\ answer'[r].methods = {} /\ answer'[r].allow = answer[r].allow
      /\ DOMAIN answer' = Requests
      /\ \A q \in Requests \ {r} : answer'[q] = answer[q]
  BY <1>2, <1>3, <1>5, Said DEF Types
<1>7. /\ DOMAIN story'[r] = DOMAIN NoStory
      /\ story'[r].passed = story[r].passed /\ story'[r].charged = story[r].charged
      /\ story'[r].cached = story[r].cached /\ story'[r].writes = 1
      /\ story'[r].unjudged = unjudged
      /\ DOMAIN story' = Requests
      /\ \A q \in Requests \ {r} : story'[q] = story[q]
  BY <1>2, <1>3, <1>5, Told DEF Types
<1>8. Types'
  <2>1. Base'
    BY <1>3, <1>4 DEF Types, Base
  <2>2. Principals' = Principals
    BY DEF Principals
  <2> QED BY <1>0, <1>3, <1>4, <1>6, <1>7, <2>1, <2>2 DEF Types, NoAnswer, NoStory
<1>9. Serving'
  BY <1>4 DEF PInv, Serving
<1>10. Fine(r)'
  <2>1. /\ Chain(r)' = Chain(r) /\ (Routed(r)' <=> Routed(r))
        /\ Answered(r)' /\ ~InFlight(r)' /\ ~Handled(r)'
    BY <1>0, <1>1, <1>2, <1>4, <1>6, <1>7 DEF Chain, Route, Routed, Answered, InFlight, Handled
  <2>2. Fresh(r)' /\ Unrouted(r)' /\ Written(r)'
    BY <1>1, <1>2, <1>4, <1>7, <2>1 DEF Fresh, Unrouted, Written
  <2>3. Walks(r)' /\ Introduced(r)'
    BY <1>3, <1>4, <1>7, <2>1 DEF Fine, Walks, Introduced
  <2>4. Known(r)'
    BY <1>3, <1>4, <2>1 DEF Fine, Known
  <2>5. Entitled(r)'
    <3>1. Entitled(r)
      BY <1>3 DEF Fine
    <3> QED BY <3>1, <1>4, <2>1 DEF Entitled
  <2>6. Judged(r)'
    <3>1. (answer'[r].status = 500) <=> story'[r].unjudged
      BY <1>0, <1>6, <1>7
    <3>2. /\ answer'[r].challenge <=> (answer'[r].status = 401)
          /\ answer'[r].retry <=> (answer'[r].status = 429)
      BY <1>6
    <3>3. answer'[r].status = 401 =>
            LET text == Bearer(ask'[r].header)
            IN  text = None \/ Parse(text) = None \/ text.secret \notin live'[r]
      BY <1>0, <1>4, <1>6
    <3> QED BY <3>1, <3>2, <3>3 DEF Judged
  <2>7. Granted(r)'
    BY <1>0, <1>2, <1>3, <1>4, <1>6 DEF Fine, Granted
  <2> QED BY <2>2, <2>3, <2>4, <2>5, <2>6, <2>7 DEF Fine
<1>11. Only(r)
  BY <1>0, <1>4, <1>6, <1>7 DEF Only
<1>12. \A q \in Requests : Fine(q)'
  BY <1>10, <1>11, OthersStand
<1>13. Inserted'
  <2>1. \A q \in Requests : answer'[q].status = 201 <=> answer[q].status = 201
    BY <1>0, <1>2, <1>6
  <2> QED BY <1>4, <2>1 DEF PInv, Inserted
<1>14. Budgeted'
  <2>1. \A c : Took(c)' = Took(c)
    BY <1>4, <1>7, TookStands
  <2>2. Callers' = Callers
    BY DEF Callers
  <2> QED BY <1>4, <2>1, <2>2 DEF PInv, Budgeted
<1> QED BY <1>8, <1>9, <1>12, <1>13, <1>14 DEF PInv

\* What passing a wrap leaves of a story.
LEMMA Moved ==
  ASSUME NEW f, DOMAIN f = Requests, NEW r \in Requests, DOMAIN f[r] = DOMAIN NoStory,
         NEW passed, NEW charged
  PROVE  LET g == [f EXCEPT ![r].passed = passed, ![r].charged = charged]
         IN  /\ DOMAIN g = Requests /\ \A q \in Requests \ {r} : g[q] = f[q]
             /\ DOMAIN g[r] = DOMAIN NoStory
             /\ g[r].passed = passed /\ g[r].charged = charged
             /\ g[r].writes = f[r].writes /\ g[r].unjudged = f[r].unjudged
             /\ g[r].cached = f[r].cached
<1> DEFINE told == [f[r] EXCEPT !.passed = passed, !.charged = charged]
<1>1. [f EXCEPT ![r].passed = passed, ![r].charged = charged] = [f EXCEPT ![r] = told]
  OBVIOUS
<1>2. /\ DOMAIN told = DOMAIN NoStory
      /\ told.passed = passed /\ told.charged = charged
      /\ told.writes = f[r].writes /\ told.unjudged = f[r].unjudged
      /\ told.cached = f[r].cached
  BY DEF NoStory
<1> HIDE DEF told
<1> QED BY <1>1, <1>2

\* A request let through by a wrap goes on to the next one of its list.
LEMMA PassOnWalks ==
  ASSUME PInv, NEW r \in Requests, NEW kind, Inside(r, kind), NEW charged \in BOOLEAN,
         PassOn(r, charged),
         UNCHANGED <<wiring, ask, rows, names>>,
         spent' \in [Callers -> 0 .. Ceiling],
         DOMAIN ctx' = Requests, \A q \in Requests \ {r} : ctx'[q] = ctx[q],
         ctx'[r] \in [Keys -> Principals],
         DOMAIN live' = Requests, \A q \in Requests \ {r} : live'[q] = live[q]
  PROVE  /\ Types' /\ Serving' /\ Only(r) /\ Inserted'
         /\ Fresh(r)' /\ Unrouted(r)' /\ Walks(r)'
         /\ Judged(r)' /\ Granted(r)' /\ Written(r)'
         /\ Routed(r)' /\ InFlight(r)' /\ Chain(r)' = Chain(r)
         /\ depth'[r] = depth[r] + 1
         /\ \A q \in Requests \ {r} : depth'[q] = depth[q]
         /\ \A q \in Requests : story'[q].cached = story[q].cached
<1>1. /\ InFlight(r) /\ Routed(r) /\ depth[r] \in 1 .. Len(Chain(r))
      /\ Len(Chain(r)) \in Nat /\ Listed(r) = depth[r]
  BY InsideIsListed, RouteServes
<1>2. /\ ask[r] # None /\ answer[r].status = 0
      /\ story[r].passed = 1 .. (depth[r] - 1) /\ story[r].charged \subseteq story[r].passed
      /\ ~story[r].unjudged /\ ~answer[r].challenge /\ ~answer[r].retry
      /\ story[r].writes = 0 /\ ~story[r].cached
  BY <1>1, FlightIsRouted
<1>3. Types /\ Fine(r)
  BY DEF PInv
<1>4. /\ w' = w /\ wired' = wired /\ ask' = ask /\ rows' = rows /\ names' = names
      /\ answer' = answer
  BY DEF PassOn, wiring
<1>5. /\ depth' = [depth EXCEPT ![r] = depth[r] + 1]
      /\ story' = [story EXCEPT ![r].passed = @ \cup {depth[r]},
                                ![r].charged = IF charged THEN @ \cup {depth[r]} ELSE @]
  BY <1>1 DEF PassOn
<1>6. /\ DOMAIN story'[r] = DOMAIN NoStory
      /\ story'[r].passed = story[r].passed \cup {depth[r]}
      /\ story'[r].charged \subseteq story[r].charged \cup {depth[r]}
      /\ story'[r].writes = 0 /\ story'[r].cached = story[r].cached /\ ~story'[r].unjudged
      /\ DOMAIN story' = Requests
      /\ \A q \in Requests \ {r} : story'[q] = story[q]
  <2> DEFINE passed == story[r].passed \cup {depth[r]}
             spending == IF charged THEN story[r].charged \cup {depth[r]} ELSE story[r].charged
  <2>1. DOMAIN story = Requests /\ DOMAIN story[r] = DOMAIN NoStory
    BY <1>3 DEF Types
  <2>2. story' = [story EXCEPT ![r].passed = passed, ![r].charged = spending]
    BY <1>5, <2>1 DEF NoStory
  <2>3. spending \subseteq story[r].charged \cup {depth[r]}
    OBVIOUS
  <2> HIDE DEF spending, passed
  <2>4. /\ DOMAIN story'[r] = DOMAIN NoStory
        /\ story'[r].passed = passed /\ story'[r].charged = spending
        /\ story'[r].writes = story[r].writes /\ story'[r].unjudged = story[r].unjudged
        /\ story'[r].cached = story[r].cached
        /\ DOMAIN story' = Requests
        /\ \A q \in Requests \ {r} : story'[q] = story[q]
    BY <2>1, <2>2, Moved
  <2> QED BY <1>2, <2>3, <2>4 DEF passed
<1>7. /\ depth'[r] = depth[r] + 1 /\ \A q \in Requests \ {r} : depth'[q] = depth[q]
      /\ depth' \in [Requests -> Nat \ {0}]
  BY <1>1, <1>3, <1>5 DEF Types, Base
<1>8. Types'
  <2>1. Base'
    BY <1>3, <1>4, <1>7 DEF Types, Base
  <2>2. Principals' = Principals
    BY DEF Principals
  <2>3. \A q \in Requests : ctx'[q] \in [Keys -> Principals]
    BY <1>3 DEF Types
  <2> QED BY <1>3, <1>4, <1>6, <2>1, <2>2, <2>3 DEF Types, NoAnswer, NoStory
<1>9. Serving' /\ Inserted'
  BY <1>4 DEF PInv, Serving, Inserted
<1>10. Only(r)
  BY <1>4, <1>6, <1>7 DEF Only
<1>11. /\ Chain(r)' = Chain(r) /\ Routed(r)' /\ InFlight(r)' /\ ~Answered(r)'
  BY <1>1, <1>2, <1>4, <1>6 DEF Chain, Route, Routed, Answered, InFlight
<1>12. Fresh(r)' /\ Unrouted(r)' /\ Written(r)'
  BY <1>2, <1>4, <1>6, <1>11 DEF Fresh, Unrouted, Written
<1>13. Walks(r)'
  <2>1. /\ depth'[r] <= Len(Chain(r)) + 1
        /\ 1 .. (depth'[r] - 1) = 1 .. (depth[r] - 1) \cup {depth[r]}
    BY <1>1, <1>7
  <2> QED BY <1>2, <1>6, <1>11, <2>1 DEF Walks
<1>14. Judged(r)'
  BY <1>2, <1>4, <1>6 DEF Judged
<1>15. Granted(r)'
  BY <1>3, <1>4 DEF Fine, Granted
<1>16. \A q \in Requests : story'[q].cached = story[q].cached
  BY <1>6
<1> QED BY <1>7, <1>8, <1>9, <1>10, <1>11, <1>12, <1>13, <1>14, <1>15, <1>16

\* Passing a wrap takes a call from the budget of a text only at a meter that
\* counts texts.
LEMMA TookGrows ==
  ASSUME NEW r \in Requests, Only(r), Routed(r), Routed(r)', Chain(r)' = Chain(r),
         depth[r] \in 1 .. Len(Chain(r)), Len(Chain(r)) \in Nat, depth'[r] = depth[r] + 1,
         ask' = ask, \A q \in Requests : story'[q].cached = story[q].cached, NEW c
  PROVE  Took(c)' \subseteq Took(c) \cup
           {q \in {r} : /\ Chain(r)[depth[r]].kind = "meter" /\ Chain(r)[depth[r]].by = "text"
                        /\ Bearer(ask[r].header) = c}
<1>1. ASSUME NEW q \in Requests, q # r
      PROVE  (Routed(q)' <=> Routed(q)) /\ Chain(q)' = Chain(q) /\ ask'[q] = ask[q] /\ depth'[q] = depth[q]
  BY <1>1 DEF Only, Routed, Chain, Route
<1>2. ASSUME NEW q \in Took(c)', q # r PROVE q \in Took(c)
  BY <1>1, <1>2 DEF Took
<1>3. ASSUME r \in Took(c)', r \notin Took(c)
      PROVE  /\ Chain(r)[depth[r]].kind = "meter" /\ Chain(r)[depth[r]].by = "text"
             /\ Bearer(ask[r].header) = c
  <2>1. /\ Bearer(ask[r].header) = c
        /\ \E i \in 1 .. (depth'[r] - 1) : Chain(r)[i].kind = "meter" /\ Chain(r)[i].by = "text"
    BY <1>3 DEF Took
  <2>2. PICK i \in 1 .. depth[r] : Chain(r)[i].kind = "meter" /\ Chain(r)[i].by = "text"
    BY <2>1
  <2>3. i \notin 1 .. (depth[r] - 1)
    BY <1>3, <2>1, <2>2 DEF Took
  <2>4. i = depth[r]
    BY <2>3
  <2> QED BY <2>1, <2>2, <2>4
<1> QED BY <1>2, <1>3

\* The budgets stand where it takes none, and where the call it takes is
\* counted.
LEMMA BudgetStands ==
  ASSUME Budgeted, Types, NEW r, spent' \in [Callers -> 0 .. Ceiling],
         \A c \in Callers \ {None} :
            \/ Took(c)' \subseteq Took(c) /\ spent[c] <= spent'[c]
            \/ Took(c)' \subseteq Took(c) \cup {r} /\ spent'[c] = spent[c] + 1
  PROVE  Budgeted'
<1>0. Callers' = Callers
  BY DEF Callers
<1>1. SUFFICES ASSUME NEW c \in Callers \ {None}
               PROVE  IsFiniteSet(Took(c)') /\ Cardinality(Took(c)') <= spent'[c]
  BY <1>0 DEF Budgeted
<1>2. IsFiniteSet(Took(c)) /\ Cardinality(Took(c)) <= spent[c] /\ Cardinality(Took(c)) \in Nat
  BY FS_CardinalityType DEF Budgeted
<1>3. spent[c] \in Nat /\ spent'[c] \in Nat
  BY PipelineAssumption DEF Types, Base
<1>4. CASE Took(c)' \subseteq Took(c) /\ spent[c] <= spent'[c]
  <2>1. /\ IsFiniteSet(Took(c)') /\ Cardinality(Took(c)') <= Cardinality(Took(c))
        /\ Cardinality(Took(c)') \in Nat
    BY <1>2, <1>4, FS_Subset, FS_CardinalityType
  <2> QED BY <1>2, <1>3, <1>4, <2>1
<1>5. CASE Took(c)' \subseteq Took(c) \cup {r} /\ spent'[c] = spent[c] + 1
  <2> DEFINE more == Took(c) \cup {r}
  <2>1. /\ IsFiniteSet(more) /\ Cardinality(more) \in Nat
        /\ Cardinality(more) = Cardinality(Took(c)) \/ Cardinality(more) = Cardinality(Took(c)) + 1
    BY <1>2, FS_AddElement, FS_CardinalityType
  <2> HIDE DEF more
  <2>2. Took(c)' \subseteq more
    BY <1>5 DEF more
  <2>3. /\ IsFiniteSet(Took(c)') /\ Cardinality(Took(c)') <= Cardinality(more)
        /\ Cardinality(Took(c)') \in Nat
    BY <2>1, <2>2, FS_Subset, FS_CardinalityType
  <2> QED BY <1>2, <1>3, <1>5, <2>1, <2>3
<1> QED BY <1>4, <1>5

\* A request let through by a right or a meter, with what that demands.
LEMMA PassOnKeeps ==
  ASSUME PInv, NEW r \in Requests, NEW kind \in {"right", "meter"}, Inside(r, kind),
         NEW charged \in BOOLEAN, PassOn(r, charged),
         UNCHANGED <<wiring, ask, ctx, rows, names, live>>,
         spent' \in [Callers -> 0 .. Ceiling],
         kind = "right" =>
            LET wrap == Chain(r)[depth[r]]
            IN  ctx[r][wrap.key] # None /\ <<ctx[r][wrap.key], wrap.right>> \in Rights
  PROVE  /\ Types' /\ Serving' /\ Inserted' /\ \A q \in Requests : Fine(q)'
         /\ \A c : Took(c)' \subseteq Took(c) \cup
              {q \in {r} : /\ Chain(r)[depth[r]].kind = "meter" /\ Chain(r)[depth[r]].by = "text"
                           /\ Bearer(ask[r].header) = c}
<1>1. /\ InFlight(r) /\ Routed(r) /\ depth[r] \in 1 .. Len(Chain(r))
      /\ Len(Chain(r)) \in Nat /\ Chain(r)[depth[r]].kind = kind
      /\ kind = "right" => Chain(r)[depth[r]].key \in Keys
  BY InsideIsListed, RouteServes
<1>2. Types /\ Fine(r)
  BY DEF PInv
<1>3. ask' = ask /\ ctx' = ctx /\ live' = live
  OBVIOUS
<1>4. /\ Types' /\ Serving' /\ Only(r) /\ Inserted'
      /\ Fresh(r)' /\ Unrouted(r)' /\ Walks(r)'
      /\ Judged(r)' /\ Granted(r)' /\ Written(r)'
      /\ Routed(r)' /\ InFlight(r)' /\ Chain(r)' = Chain(r)
      /\ depth'[r] = depth[r] + 1
      /\ \A q \in Requests : story'[q].cached = story[q].cached
  BY <1>2, <1>3, PassOnWalks DEF Types
<1>5. \A i \in 1 .. (depth'[r] - 1) : i \in 1 .. (depth[r] - 1) \/ i = depth[r]
  BY <1>1, <1>4
<1>6. Known(r)'
  <2>1. SUFFICES ASSUME NEW i \in 1 .. (depth'[r] - 1), Chain(r)[i].kind = "bearer"
                 PROVE  LET text == ask[r].header.text
                            key  == Chain(r)[i].key
                        IN  /\ Bearer(ask[r].header) # None /\ text.form = "issued"
                            /\ ctx[r][key] = Owner[key][text.secret]
                            /\ text.secret \in live[r]
    BY <1>3, <1>4 DEF Known
  <2>2. i \in 1 .. (depth[r] - 1)
    BY <1>1, <1>5, <2>1
  <2> QED BY <1>1, <1>2, <2>1, <2>2 DEF Fine, Known
<1>7. Introduced(r)'
  <2>1. SUFFICES ASSUME NEW k \in Keys, ctx[r][k] # None
                 PROVE  \E j \in 1 .. (depth'[r] - 1) : Chain(r)[j].kind = "bearer" /\ Chain(r)[j].key = k
    BY <1>3, <1>4 DEF Introduced
  <2>2. PICK j \in 1 .. (depth[r] - 1) : Chain(r)[j].kind = "bearer" /\ Chain(r)[j].key = k
    BY <1>1, <1>2, <2>1 DEF Fine, Introduced
  <2>3. j \in 1 .. (depth'[r] - 1)
    BY <1>1, <1>4
  <2> QED BY <2>2, <2>3
<1>8. Entitled(r)'
  <2>1. SUFFICES ASSUME NEW i \in 1 .. (depth'[r] - 1), Chain(r)[i].kind = "right"
                 PROVE  LET key == Chain(r)[i].key
                        IN  /\ \E j \in 1 .. (i - 1) : Chain(r)[j].kind = "bearer" /\ Chain(r)[j].key = key
                            /\ <<Owner[key][ask[r].header.text.secret], Chain(r)[i].right>> \in Rights
    BY <1>3, <1>4 DEF Entitled
  <2>2. CASE i \in 1 .. (depth[r] - 1)
    BY <1>1, <1>2, <2>1, <2>2 DEF Fine, Entitled
  <2>3. CASE i = depth[r]
    <3> DEFINE key == Chain(r)[i].key
    <3>1. kind = "right" /\ key \in Keys /\ ctx[r][key] # None /\ <<ctx[r][key], Chain(r)[i].right>> \in Rights
      BY <1>1, <2>1, <2>3
    <3>2. PICK j \in 1 .. (i - 1) : Chain(r)[j].kind = "bearer" /\ Chain(r)[j].key = key
      BY <1>1, <1>2, <2>3, <3>1 DEF Fine, Introduced
    <3>3. ctx[r][key] = Owner[key][ask[r].header.text.secret]
      BY <1>1, <1>2, <2>3, <3>2 DEF Fine, Known
    <3> QED BY <3>1, <3>2, <3>3
  <2> QED BY <1>5, <2>2, <2>3, SMTT(30)
<1>9. Fine(r)'
  BY <1>4, <1>6, <1>7, <1>8 DEF Fine
<1>10. \A q \in Requests : Fine(q)'
  BY <1>4, <1>9, OthersStand
<1>11. ASSUME NEW c
       PROVE  Took(c)' \subseteq Took(c) \cup
                {q \in {r} : /\ Chain(r)[depth[r]].kind = "meter" /\ Chain(r)[depth[r]].by = "text"
                             /\ Bearer(ask[r].header) = c}
  BY <1>1, <1>3, <1>4, TookGrows
<1> QED BY <1>4, <1>10, <1>11

\* The secret of a text a request bears, where it parses.
LEMMA ParseReads ==
  ASSUME NEW a \in Asks, NEW text, text = Bearer(a.header), text # None, Parse(text) # None
  PROVE  /\ text = a.header.text /\ text.form = "issued"
         /\ Parse(text) = text.secret /\ text.secret \in Secrets
<1>1. text = a.header.text
  BY DEF Bearer
<1>2. text.form = "issued" /\ Parse(text) = text.secret
  BY DEF Parse, Canonical
<1> QED BY <1>1, <1>2, AskAssumption

\* A request let through by a bearer, on a text that parses and whose row
\* stands.
LEMMA BearerPasses ==
  ASSUME PInv, NEW r \in Requests, Inside(r, "bearer"), PassOn(r, FALSE),
         NEW text, text = Bearer(ask[r].header), text # None,
         Parse(text) # None, NEW stood, Parse(text) \in stood, Parse(text) \in live[r],
         NEW key, key = WrapOf(r).key,
         ctx' = [ctx EXCEPT ![r] = With(@, key, Owner[key][Parse(text)])],
         live' = [live EXCEPT ![r] = @ \cap stood],
         UNCHANGED <<wiring, ask, shared>>
  PROVE  PInv'
<1>0. /\ InFlight(r) /\ Routed(r) /\ depth[r] \in 1 .. Len(Chain(r))
      /\ Chain(r)[depth[r]].kind = "bearer" /\ key = Chain(r)[depth[r]].key
  BY InsideIsListed
<1>1. /\ InFlight(r) /\ Routed(r) /\ depth[r] \in 1 .. Len(Chain(r))
      /\ Len(Chain(r)) \in Nat /\ Chain(r)[depth[r]].kind = "bearer"
      /\ key = Chain(r)[depth[r]].key /\ key \in Keys /\ ask[r] \in Asks
      /\ \A k \in 1 .. Len(Chain(r)) : Chain(r)[k].kind = "bearer" => Chain(r)[k].key \in Keys
  <2>1. /\ ask[r] \in Asks /\ Len(Chain(r)) \in Nat
        /\ \A k \in 1 .. Len(Chain(r)) :
              Chain(r)[k].kind \in {"bearer", "right"} => Chain(r)[k].key \in Keys
    BY <1>0, RouteServes
  <2> QED BY <1>0, <2>1
<1>2. Types /\ Fine(r)
  BY DEF PInv
<1>3. ask' = ask /\ spent' = spent /\ rows' = rows /\ names' = names
  BY DEF shared
<1>4. /\ text = ask[r].header.text /\ text.form = "issued"
      /\ Parse(text) = text.secret /\ text.secret \in Secrets
  BY <1>1, ParseReads
<1> DEFINE v == Owner[key][text.secret]
<1>5. v \in Principals
  BY <1>1, <1>4 DEF Principals
<1> HIDE DEF v
<1>6. /\ DOMAIN ctx' = Requests /\ \A q \in Requests \ {r} : ctx'[q] = ctx[q]
      /\ ctx'[r] = [ctx[r] EXCEPT ![key] = v]
  <2>1. DOMAIN ctx = Requests
    BY <1>2 DEF Types
  <2>2. ctx' = [ctx EXCEPT ![r] = [ctx[r] EXCEPT ![key] = v]]
    BY <1>4 DEF With, v
  <2> QED BY <2>1, <2>2
<1>7. /\ ctx'[r] \in [Keys -> Principals] /\ ctx'[r][key] = v
      /\ \A k \in Keys \ {key} : ctx'[r][k] = ctx[r][k]
  <2>1. ctx[r] \in [Keys -> Principals]
    BY <1>2 DEF Types
  <2> QED BY <1>1, <1>5, <1>6, <2>1
<1>8. /\ DOMAIN live' = Requests /\ \A q \in Requests \ {r} : live'[q] = live[q]
      /\ text.secret \in live'[r]
  BY <1>2, <1>4 DEF Types
<1>9. spent' \in [Callers -> 0 .. Ceiling]
  BY <1>2, <1>3 DEF Types, Base
<1>10. /\ Types' /\ Serving' /\ Only(r) /\ Inserted'
       /\ Fresh(r)' /\ Unrouted(r)' /\ Walks(r)'
       /\ Judged(r)' /\ Granted(r)' /\ Written(r)'
       /\ Routed(r)' /\ InFlight(r)' /\ Chain(r)' = Chain(r)
       /\ depth'[r] = depth[r] + 1
       /\ \A q \in Requests : story'[q].cached = story[q].cached
  BY <1>3, <1>6, <1>7, <1>8, <1>9, PassOnWalks
<1>11. \A i \in 1 .. (depth'[r] - 1) : i \in 1 .. (depth[r] - 1) \/ i = depth[r]
  BY <1>1, <1>10
<1>12. Known(r)'
  <2>1. SUFFICES ASSUME NEW i \in 1 .. (depth'[r] - 1), Chain(r)[i].kind = "bearer"
                 PROVE  ctx'[r][Chain(r)[i].key] = Owner[Chain(r)[i].key][text.secret]
    BY <1>3, <1>4, <1>8, <1>10 DEF Known
  <2>2. CASE Chain(r)[i].key = key
    BY <1>7, <2>2 DEF v
  <2>3. CASE Chain(r)[i].key # key
    <3>1. i \in 1 .. (depth[r] - 1)
      BY <1>1, <1>11, <2>3
    <3>2. Chain(r)[i].key \in Keys
      BY <1>1, <2>1, <3>1
    <3>3. ctx[r][Chain(r)[i].key] = Owner[Chain(r)[i].key][text.secret]
      <4>1. Known(r)
        BY <1>2 DEF Fine
      <4> QED BY <1>1, <1>4, <2>1, <3>1, <4>1 DEF Known
    <3> QED BY <1>7, <2>3, <3>2, <3>3
  <2> QED BY <2>2, <2>3
<1>13. Introduced(r)'
  <2>1. SUFFICES ASSUME NEW k \in Keys, ctx'[r][k] # None
                 PROVE  \E j \in 1 .. (depth'[r] - 1) : Chain(r)[j].kind = "bearer" /\ Chain(r)[j].key = k
    BY <1>3, <1>10 DEF Introduced
  <2>2. CASE k = key
    <3>1. depth[r] \in 1 .. (depth'[r] - 1)
      BY <1>1, <1>10
    <3> QED BY <1>1, <2>2, <3>1
  <2>3. CASE k # key
    <3>1. PICK j \in 1 .. (depth[r] - 1) : Chain(r)[j].kind = "bearer" /\ Chain(r)[j].key = k
      BY <1>1, <1>2, <1>7, <2>1, <2>3 DEF Fine, Introduced
    <3>2. j \in 1 .. (depth'[r] - 1)
      <4>1. depth'[r] = depth[r] + 1
        BY <1>10
      <4>2. depth[r] \in Nat /\ j \in Nat
        BY <1>1
      <4> QED BY <4>1, <4>2
    <3> QED BY <3>1, <3>2
  <2> QED BY <2>2, <2>3
<1>14. Entitled(r)'
  <2>1. SUFFICES ASSUME NEW i \in 1 .. (depth'[r] - 1), Chain(r)[i].kind = "right"
                 PROVE  LET rights == Chain(r)[i].key
                        IN  /\ \E j \in 1 .. (i - 1) : Chain(r)[j].kind = "bearer" /\ Chain(r)[j].key = rights
                            /\ <<Owner[rights][ask[r].header.text.secret], Chain(r)[i].right>> \in Rights
    BY <1>3, <1>10 DEF Entitled
  <2>2. i \in 1 .. (depth[r] - 1)
    BY <1>1, <1>11, <2>1
  <2> QED BY <1>1, <1>2, <2>1, <2>2 DEF Fine, Entitled
<1>15. Fine(r)'
  BY <1>10, <1>12, <1>13, <1>14 DEF Fine
<1>16. \A q \in Requests : Fine(q)'
  BY <1>10, <1>15, OthersStand
<1>17. Budgeted'
  <2>1. ASSUME NEW c PROVE Took(c)' \subseteq Took(c)
    <3>1. Took(c)' \subseteq Took(c) \cup
            {q \in {r} : /\ Chain(r)[depth[r]].kind = "meter" /\ Chain(r)[depth[r]].by = "text"
                         /\ Bearer(ask[r].header) = c}
      BY <1>1, <1>3, <1>10, TookGrows
    <3> QED BY <1>1, <3>1
  <2>2. \A c \in Callers : spent[c] <= spent'[c]
    <3>1. \A c \in Callers : spent[c] \in 0 .. Ceiling
      BY <1>2 DEF Types, Base
    <3> QED BY <1>3, <3>1, PipelineAssumption
  <2> QED BY <1>2, <1>9, <2>1, <2>2, BudgetStands DEF PInv
<1> QED BY <1>10, <1>16, <1>17 DEF PInv

LEMMA BearerMissingKeeps ==
  ASSUME PInv, NEW r \in Requests, BearerMissing(r)
  PROVE  PInv'
<1>1. /\ Inside(r, "bearer") /\ Bearer(ask[r].header) = None /\ TurnAway(r, 401, FALSE)
      /\ UNCHANGED <<wiring, ask, ctx, shared>> /\ live' = live
  BY DEF BearerMissing
<1>2. DOMAIN live' = Requests /\ \A q \in Requests \ {r} : live'[q] = live[q]
  BY <1>1 DEF PInv, Types
<1>3. Refuses(r, "bearer", 401, FALSE)
  <2>1. 401 \in {401, 403, 429, 500} /\ FALSE \in BOOLEAN /\ ((401 = 500) <=> FALSE)
    OBVIOUS
  <2> QED BY <1>1, <1>2, <2>1, Zenon DEF Refuses
<1> QED BY <1>3, TurnAwayKeeps

LEMMA BearerAnswersKeeps ==
  ASSUME PInv, NEW r \in Requests, Lookup(r), BearerAnswers(r)
  PROVE  PInv'
<1> DEFINE text == Bearer(ask[r].header)
           key == WrapOf(r).key
<1>1. Inside(r, "bearer") /\ UNCHANGED <<wiring, ask, shared>>
  BY DEF BearerAnswers
<1>2. PICK row \in found[r], transaction \in BOOLEAN :
      /\ live' = [live EXCEPT ![r] = @ \cap row.stood]
      /\ \/ /\ Resolve(text, row.raw, transaction) = <<>>
            /\ ctx' = [ctx EXCEPT ![r] = With(@, key, Owner[key][Parse(text)])]
            /\ PassOn(r, FALSE)
         \/ /\ Is(Resolve(text, row.raw, transaction), "ErrUnauthenticated")
            /\ TurnAway(r, 401, row.raw \in Failures)
            /\ UNCHANGED ctx
         \/ /\ Resolve(text, row.raw, transaction) # <<>>
            /\ ~Is(Resolve(text, row.raw, transaction), "ErrUnauthenticated")
            /\ TurnAway(r, 500, row.raw \in Failures)
            /\ UNCHANGED ctx
  BY DEF BearerAnswers
<1> DEFINE raw == row.raw
           stood == row.stood
           err == Resolve(text, raw, transaction)
<1>3. raw \in RowErrors(Parse(text), stood) /\ text # None
  BY DEF Lookup
<1>4. /\ Inside(r, "bearer") /\ text # None
      /\ live' = [live EXCEPT ![r] = @ \cap stood]
      /\ UNCHANGED <<wiring, ask, shared>>
  BY <1>1, <1>2, <1>3
<1>5. /\ err = <<>> => Parse(text) # None /\ Parse(text) \in stood
      /\ Is(err, "ErrUnauthenticated") =>
             raw \notin Failures /\ (Parse(text) = None \/ Parse(text) \notin stood)
      /\ err # <<>> /\ ~Is(err, "ErrUnauthenticated") => raw \in Failures
  BY <1>3, ResolveJudges
<1>6. /\ DOMAIN live' = Requests /\ live'[r] = live[r] \cap stood
      /\ \A q \in Requests \ {r} : live'[q] = live[q]
  <2>1. DOMAIN live = Requests
    BY DEF PInv, Types
  <2> QED BY <1>4, <2>1
<1>7. ask[r] \in Asks
  BY <1>4, InsideIsListed, RouteServes
<1> HIDE DEF err
<1>8. CASE /\ err = <<>>
           /\ ctx' = [ctx EXCEPT ![r] = With(@, key, Owner[key][Parse(text)])]
           /\ PassOn(r, FALSE)
  <2>1. Parse(text) # None /\ Parse(text) \in stood
    BY <1>5, <1>8
  <2> HIDE DEF text, key
  <2>2. text = Bearer(ask[r].header) /\ key = WrapOf(r).key
    BY DEF text, key
  <2>3. Parse(text) \in live[r]
    BY <1>4, <2>1, <2>2 DEF Lookup, Inside
  <2> HIDE DEF stood
  <2> QED BY <1>4, <1>8, <2>1, <2>2, <2>3, BearerPasses
<1>9. CASE Is(err, "ErrUnauthenticated") /\ TurnAway(r, 401, raw \in Failures) /\ UNCHANGED ctx
  <2>1. (raw \in Failures) = FALSE /\ (Parse(text) = None \/ Parse(text) \notin stood)
    BY <1>5, <1>9
  <2>2. TurnAway(r, 401, FALSE)
    BY <1>9, <2>1
  <2>3. Parse(text) = None \/ text.secret \notin live'[r]
    <3>1. Parse(text) # None => Parse(text) = text.secret
      BY <1>4, <1>7, ParseReads
    <3> QED BY <1>6, <2>1, <3>1
  <2>4. UNCHANGED <<wiring, ask, ctx, shared>>
    BY <1>4, <1>9
  <2>5. Refuses(r, "bearer", 401, FALSE)
    <3>1. 401 \in {401, 403, 429, 500} /\ FALSE \in BOOLEAN /\ ((401 = 500) <=> FALSE)
      OBVIOUS
    <3> QED BY <1>4, <1>6, <2>2, <2>3, <2>4, <3>1, Zenon DEF Refuses
  <2> QED BY <2>5, TurnAwayKeeps
<1>10. CASE /\ err # <<>> /\ ~Is(err, "ErrUnauthenticated")
           /\ TurnAway(r, 500, raw \in Failures) /\ UNCHANGED ctx
  <2>1. (raw \in Failures) = TRUE
    BY <1>5, <1>10
  <2>2. TurnAway(r, 500, TRUE)
    BY <1>10, <2>1
  <2>3. UNCHANGED <<wiring, ask, ctx, shared>>
    BY <1>4, <1>10
  <2>4. Refuses(r, "bearer", 500, TRUE)
    <3>1. 500 \in {401, 403, 429, 500} /\ TRUE \in BOOLEAN /\ ((500 = 500) <=> TRUE) /\ 500 # 401
      OBVIOUS
    <3> QED BY <1>4, <1>6, <2>2, <2>3, <3>1, Zenon DEF Refuses
  <2> QED BY <2>4, TurnAwayKeeps
<1> QED BY <1>2, <1>8, <1>9, <1>10 DEF err

LEMMA RightUnavailableKeeps ==
  ASSUME PInv, NEW r \in Requests, RightUnavailable(r)
  PROVE  PInv'
<1>1. /\ Inside(r, "right") /\ TurnAway(r, 500, TRUE)
      /\ UNCHANGED <<wiring, ask, ctx, shared>> /\ live' = live
  BY DEF RightUnavailable
<1>2. DOMAIN live' = Requests /\ \A q \in Requests \ {r} : live'[q] = live[q]
  BY <1>1 DEF PInv, Types
<1>3. Refuses(r, "right", 500, TRUE)
  <2>1. 500 \in {401, 403, 429, 500} /\ TRUE \in BOOLEAN /\ ((500 = 500) <=> TRUE) /\ 500 # 401
    OBVIOUS
  <2> QED BY <1>1, <1>2, <2>1, Zenon DEF Refuses
<1> QED BY <1>3, TurnAwayKeeps

LEMMA RightJudgedKeeps ==
  ASSUME PInv, NEW r \in Requests, RightJudged(r)
  PROVE  PInv'
<1> DEFINE principal == ctx[r][WrapOf(r).key]
           right == WrapOf(r).right
<1>1. /\ Inside(r, "right") /\ principal # None
      /\ UNCHANGED <<wiring, ask, ctx, shared, live>>
      /\ IF <<principal, right>> \in Rights THEN PassOn(r, FALSE) ELSE TurnAway(r, 403, FALSE)
  BY DEF RightJudged
<1>2. DOMAIN live' = Requests /\ \A q \in Requests \ {r} : live'[q] = live[q]
  BY <1>1 DEF PInv, Types
<1>3. CASE <<principal, right>> \in Rights
  <2>1. PassOn(r, FALSE)
    BY <1>1, <1>3
  <2>2. WrapOf(r) = Chain(r)[depth[r]] /\ Chain(r)[depth[r]].kind = "right"
    BY <1>1, InsideIsListed
  <2>3. spent' = spent /\ spent \in [Callers -> 0 .. Ceiling]
    BY <1>1 DEF shared, PInv, Types, Base
  <2>4. UNCHANGED <<wiring, ask, ctx, rows, names, live>>
    BY <1>1 DEF shared
  <2>5. LET wrap == Chain(r)[depth[r]]
        IN  ctx[r][wrap.key] # None /\ <<ctx[r][wrap.key], wrap.right>> \in Rights
    BY <1>1, <1>3, <2>2
  <2> HIDE DEF principal, right
  <2>6. /\ Types' /\ Serving' /\ Inserted' /\ \A q \in Requests : Fine(q)'
        /\ \A c : Took(c)' \subseteq Took(c) \cup
              {q \in {r} : /\ Chain(r)[depth[r]].kind = "meter" /\ Chain(r)[depth[r]].by = "text"
                           /\ Bearer(ask[r].header) = c}
    BY <1>1, <2>1, <2>3, <2>4, <2>5, PassOnKeeps
  <2>7. \A c : Took(c)' \subseteq Took(c)
    BY <2>2, <2>6
  <2>8. Budgeted'
    <3>1. \A c \in Callers : spent[c] <= spent'[c]
      BY <2>3, PipelineAssumption
    <3> QED BY <2>3, <2>7, <3>1, BudgetStands DEF PInv
  <2> QED BY <2>6, <2>8 DEF PInv
<1>4. CASE <<principal, right>> \notin Rights
  <2>1. TurnAway(r, 403, FALSE) /\ UNCHANGED <<wiring, ask, ctx, shared>>
    BY <1>1, <1>4
  <2>2. Refuses(r, "right", 403, FALSE)
    <3>1. 403 \in {401, 403, 429, 500} /\ FALSE \in BOOLEAN /\ ((403 = 500) <=> FALSE) /\ 403 # 401
      OBVIOUS
    <3> QED BY <1>1, <1>2, <2>1, <3>1, Zenon DEF Refuses
  <2> QED BY <2>2, TurnAwayKeeps
<1> QED BY <1>3, <1>4

LEMMA UnmeteredKeeps ==
  ASSUME PInv, NEW r \in Requests, Unmetered(r)
  PROVE  PInv'
<1>1. /\ Inside(r, "meter") /\ Caller(r) = None /\ PassOn(r, FALSE)
      /\ UNCHANGED <<wiring, ask, ctx, rows, names, live>> /\ spent' = spent
  BY DEF Unmetered, shared
<1>2. spent' \in [Callers -> 0 .. Ceiling] /\ \A c \in Callers : spent[c] <= spent'[c]
  <2>1. spent \in [Callers -> 0 .. Ceiling]
    BY DEF PInv, Types, Base
  <2> QED BY <1>1, <2>1, PipelineAssumption
<1>3. /\ Types' /\ Serving' /\ Inserted' /\ \A q \in Requests : Fine(q)'
      /\ \A c : Took(c)' \subseteq Took(c) \cup
            {q \in {r} : /\ Chain(r)[depth[r]].kind = "meter" /\ Chain(r)[depth[r]].by = "text"
                         /\ Bearer(ask[r].header) = c}
  BY <1>1, <1>2, PassOnKeeps
<1>4. WrapOf(r) = Chain(r)[depth[r]]
  BY <1>1, InsideIsListed
<1>5. \A c \in Callers \ {None} : Took(c)' \subseteq Took(c)
  BY <1>1, <1>3, <1>4 DEF Caller
<1>6. Budgeted'
  BY <1>2, <1>5, BudgetStands DEF PInv
<1> QED BY <1>3, <1>6 DEF PInv

\* Who a meter counts is one of those the counter knows.
LEMMA CallerIsKnown ==
  ASSUME PInv, NEW r \in Requests, Inside(r, "meter"), Caller(r) # None
  PROVE  Caller(r) \in Callers
<1>1. /\ Routed(r) /\ depth[r] \in 1 .. Len(Chain(r)) /\ WrapOf(r) = Chain(r)[depth[r]]
      /\ Chain(r)[depth[r]].kind = "meter"
  BY InsideIsListed
<1>2. ask[r] \in Asks /\ WrapOf(r).by \in Keys \cup {"text"}
  <2>1. /\ ask[r] \in Asks
        /\ \A k \in 1 .. Len(Chain(r)) :
              Chain(r)[k].kind = "meter" => Chain(r)[k].by \in Keys \cup {"text"}
    BY <1>1, RouteServes
  <2> QED BY <1>1, <2>1
<1>3. CASE WrapOf(r).by = "text"
  <2>1. Caller(r) = ask[r].header.text
    BY <1>3 DEF Caller, Bearer
  <2> QED BY <1>2, <2>1 DEF Callers
<1>4. CASE WrapOf(r).by # "text"
  <2>1. Caller(r) = ctx[r][WrapOf(r).by] /\ WrapOf(r).by \in Keys
    BY <1>2, <1>4 DEF Caller
  <2>2. ctx[r] \in [Keys -> Principals]
    BY DEF PInv, Types
  <2>3. Caller(r) \in Principals
    BY <2>1, <2>2
  <2> QED BY <2>3 DEF Principals, Callers
<1> QED BY <1>3, <1>4

LEMMA MeteredKeeps ==
  ASSUME PInv, NEW r \in Requests, Metered(r)
  PROVE  PInv'
<1> DEFINE c0 == Caller(r)
<1>1. /\ Inside(r, "meter") /\ c0 # None
      /\ UNCHANGED <<wiring, ask, ctx, rows, names, live>>
  BY DEF Metered
<1>0. \/ CallLeft(c0) /\ spent' = [spent EXCEPT ![c0] = @ + 1] /\ PassOn(r, TRUE)
      \/ TurnAway(r, 429, FALSE) /\ spent' = spent
      \/ TurnAway(r, 500, TRUE) /\ spent' = spent
  BY DEF Metered
<1>2. DOMAIN live' = Requests /\ \A q \in Requests \ {r} : live'[q] = live[q]
  BY <1>1 DEF PInv, Types
<1>3. CASE CallLeft(c0) /\ spent' = [spent EXCEPT ![c0] = @ + 1] /\ PassOn(r, TRUE)
  <2>1. c0 \in Callers
    BY <1>1, CallerIsKnown
  <2>2. WrapOf(r) = Chain(r)[depth[r]]
    BY <1>1, InsideIsListed
  <2>3. WrapOf(r).by = "text" => c0 = Bearer(ask[r].header)
    BY DEF Caller
  <2>4. spent[c0] < Ceiling
    BY <1>3 DEF CallLeft
  <2> HIDE DEF c0
  <2>5. /\ spent' \in [Callers -> 0 .. Ceiling]
        /\ spent'[c0] = spent[c0] + 1
        /\ \A c \in Callers : spent[c] <= spent'[c]
    <3>1. spent \in [Callers -> 0 .. Ceiling]
      BY DEF PInv, Types, Base
    <3> QED BY <1>3, <2>1, <2>4, <3>1, PipelineAssumption
  <2>6. /\ Types' /\ Serving' /\ Inserted' /\ \A q \in Requests : Fine(q)'
        /\ \A c : Took(c)' \subseteq Took(c) \cup
              {q \in {r} : /\ Chain(r)[depth[r]].kind = "meter" /\ Chain(r)[depth[r]].by = "text"
                           /\ Bearer(ask[r].header) = c}
    BY <1>1, <1>3, <2>5, PassOnKeeps
  <2>7. ASSUME NEW c \in Callers \ {None}
        PROVE  \/ Took(c)' \subseteq Took(c) /\ spent[c] <= spent'[c]
               \/ Took(c)' \subseteq Took(c) \cup {r} /\ spent'[c] = spent[c] + 1
    BY <2>2, <2>3, <2>5, <2>6
  <2>8. Budgeted'
    BY <2>5, <2>7, BudgetStands DEF PInv
  <2> QED BY <2>6, <2>8 DEF PInv
<1>4. CASE TurnAway(r, 429, FALSE) /\ spent' = spent
  <2>1. UNCHANGED <<wiring, ask, ctx, shared>>
    BY <1>1, <1>4 DEF shared
  <2>2. Refuses(r, "meter", 429, FALSE)
    <3>1. 429 \in {401, 403, 429, 500} /\ FALSE \in BOOLEAN /\ ((429 = 500) <=> FALSE) /\ 429 # 401
      OBVIOUS
    <3> QED BY <1>1, <1>2, <1>4, <2>1, <3>1, Zenon DEF Refuses
  <2> QED BY <2>2, TurnAwayKeeps
<1>5. CASE TurnAway(r, 500, TRUE) /\ spent' = spent
  <2>1. UNCHANGED <<wiring, ask, ctx, shared>>
    BY <1>1, <1>5 DEF shared
  <2>2. Refuses(r, "meter", 500, TRUE)
    <3>1. 500 \in {401, 403, 429, 500} /\ TRUE \in BOOLEAN /\ ((500 = 500) <=> TRUE) /\ 500 # 401
      OBVIOUS
    <3> QED BY <1>1, <1>2, <1>5, <2>1, <3>1, Zenon DEF Refuses
  <2> QED BY <2>2, TurnAwayKeeps
<1> QED BY <1>3, <1>4, <1>5, <1>0

\* A handler answers r, with a verdict where it had one.
Replies(r, status) ==
    /\ AtHandler(r) /\ status \in {200, 201, 400, 409, 413, 500}
    /\ answer' = [answer EXCEPT ![r].status = status]
    /\ DOMAIN story' = Requests /\ \A q \in Requests \ {r} : story'[q] = story[q]
    /\ DOMAIN story'[r] = DOMAIN NoStory
    /\ story'[r].passed = story[r].passed /\ story'[r].charged = story[r].charged
    /\ story'[r].cached = story[r].cached /\ story'[r].writes = 1
    /\ (status = 500) <=> story'[r].unjudged
    /\ names' = IF status = 201 THEN names \cup {ask[r].name} ELSE names
    /\ UNCHANGED <<wiring, ask, depth, ctx, rows, spent, live>>

\* A request its handler answers.
LEMMA HandlerKeeps ==
  ASSUME PInv, NEW r \in Requests, NEW status, Replies(r, status)
  PROVE  PInv'
<1>0. /\ AtHandler(r) /\ status \in {200, 201, 400, 409, 413, 500}
      /\ answer' = [answer EXCEPT ![r].status = status]
      /\ DOMAIN story' = Requests /\ \A q \in Requests \ {r} : story'[q] = story[q]
      /\ DOMAIN story'[r] = DOMAIN NoStory
      /\ story'[r].passed = story[r].passed /\ story'[r].charged = story[r].charged
      /\ story'[r].cached = story[r].cached /\ story'[r].writes = 1
      /\ (status = 500) <=> story'[r].unjudged
      /\ names' = IF status = 201 THEN names \cup {ask[r].name} ELSE names
      /\ UNCHANGED <<wiring, ask, depth, ctx, rows, spent, live>>
  BY DEF Replies
<1>1. InFlight(r) /\ Routed(r) /\ Types /\ Fine(r)
  BY <1>0, FlightIsRouted DEF AtHandler, PInv
<1>2. /\ ask[r] # None /\ answer[r].status = 0 /\ ~answer[r].challenge /\ ~answer[r].retry
      /\ answer[r].methods = {} /\ ~story[r].cached
  BY <1>1, FlightIsRouted
<1>3. /\ w' = w /\ wired' = wired /\ ask' = ask /\ ctx' = ctx /\ depth' = depth
      /\ rows' = rows /\ spent' = spent /\ live' = live
  BY <1>0 DEF wiring
<1>4. /\ DOMAIN answer'[r] = DOMAIN NoAnswer /\ answer'[r].status = status
      /\ answer'[r].challenge = answer[r].challenge /\ answer'[r].retry = answer[r].retry
      /\ answer'[r].grant = answer[r].grant /\ answer'[r].vary = answer[r].vary
      /\ answer'[r].methods = {} /\ answer'[r].allow = answer[r].allow
      /\ DOMAIN answer' = Requests
      /\ \A q \in Requests \ {r} : answer'[q] = answer[q]
  <2> DEFINE said == [answer[r] EXCEPT !.status = status]
  <2>1. DOMAIN answer = Requests /\ DOMAIN answer[r] = DOMAIN NoAnswer
    BY <1>1 DEF Types
  <2>2. /\ DOMAIN said = DOMAIN NoAnswer /\ said.status = status
        /\ said.challenge = answer[r].challenge /\ said.retry = answer[r].retry
        /\ said.grant = answer[r].grant /\ said.vary = answer[r].vary
        /\ said.methods = answer[r].methods /\ said.allow = answer[r].allow
    BY <2>1 DEF NoAnswer
  <2>3. answer' = [answer EXCEPT ![r] = said]
    BY <1>0, <2>1
  <2> HIDE DEF said
  <2> QED BY <1>2, <2>1, <2>2, <2>3
<1>5. Types'
  <2>1. Base'
    BY <1>1, <1>3 DEF Types, Base
  <2>2. Principals' = Principals
    BY DEF Principals
  <2> QED BY <1>0, <1>1, <1>3, <1>4, <2>1, <2>2 DEF Types, NoAnswer, NoStory
<1>6. Serving'
  BY <1>3 DEF PInv, Serving
<1>7. Fine(r)'
  <2>1. /\ Chain(r)' = Chain(r) /\ (Routed(r)' <=> Routed(r)) /\ Answered(r)'
    BY <1>0, <1>1, <1>2, <1>3, <1>4 DEF Chain, Route, Routed, Answered
  <2>2. Fresh(r)' /\ Unrouted(r)' /\ Written(r)'
    BY <1>0, <1>1, <1>2, <1>3, <2>1 DEF Fresh, Unrouted, Written
  <2>3. Walks(r)' /\ Introduced(r)'
    BY <1>0, <1>1, <1>3, <2>1 DEF Fine, Walks, Introduced
  <2>4. Known(r)'
    BY <1>1, <1>3, <2>1 DEF Fine, Known
  <2>5. Entitled(r)'
    <3>1. Entitled(r)
      BY <1>1 DEF Fine
    <3> QED BY <3>1, <1>3, <2>1 DEF Entitled
  <2>6. Judged(r)'
    BY <1>0, <1>2, <1>4 DEF Judged
  <2>7. Granted(r)'
    BY <1>0, <1>1, <1>2, <1>3, <1>4 DEF Fine, Granted
  <2> QED BY <2>2, <2>3, <2>4, <2>5, <2>6, <2>7 DEF Fine
<1>8. Only(r)
  BY <1>0, <1>3, <1>4 DEF Only
<1>9. \A q \in Requests : Fine(q)'
  BY <1>7, <1>8, OthersStand
<1>10. Inserted'
  <2>1. \A q \in Requests \ {r} : answer'[q].status = 201 <=> answer[q].status = 201
    BY <1>4
  <2>2. answer[r].status # 201 /\ (answer'[r].status = 201 <=> status = 201)
    BY <1>2, <1>4
  <2>3. names = {ask[q].name : q \in {x \in Requests : answer[x].status = 201}}
    BY DEF PInv, Inserted
  <2> QED BY <1>0, <1>3, <2>1, <2>2, <2>3 DEF Inserted
<1>11. \A q \in Requests : story'[q].cached = story[q].cached
  BY <1>0
<1>12. Budgeted'
  <2>1. \A c : Took(c)' = Took(c)
    BY <1>0, <1>3, <1>11, TookStands
  <2>2. Callers' = Callers
    BY DEF Callers
  <2> QED BY <1>3, <2>1, <2>2 DEF PInv, Budgeted
<1> QED BY <1>5, <1>6, <1>9, <1>10, <1>12 DEF PInv

LEMMA ShowKeeps ==
  ASSUME PInv, NEW r \in Requests, Show(r)
  PROVE  PInv'
<1>1. /\ AtHandler(r) /\ answer' = [answer EXCEPT ![r].status = 200]
      /\ story' = [story EXCEPT ![r].writes = @ + 1]
      /\ UNCHANGED <<wiring, ask, depth, ctx, rows, spent, live>> /\ names' = names
  BY DEF Show, shared
<1>2. ~story[r].unjudged /\ story[r].writes = 0
  BY <1>1, FlightIsRouted DEF AtHandler
<1>3. /\ DOMAIN story' = Requests /\ \A q \in Requests \ {r} : story'[q] = story[q]
      /\ DOMAIN story'[r] = DOMAIN NoStory
      /\ story'[r].passed = story[r].passed /\ story'[r].charged = story[r].charged
      /\ story'[r].cached = story[r].cached /\ story'[r].writes = 1
      /\ story'[r].unjudged = story[r].unjudged
  <2> DEFINE told == [story[r] EXCEPT !.writes = @ + 1]
  <2>1. DOMAIN story = Requests /\ DOMAIN story[r] = DOMAIN NoStory
    BY DEF PInv, Types
  <2>2. /\ DOMAIN told = DOMAIN NoStory
        /\ told.passed = story[r].passed /\ told.charged = story[r].charged
        /\ told.cached = story[r].cached /\ told.writes = 1
        /\ told.unjudged = story[r].unjudged
    BY <1>2, <2>1 DEF NoStory
  <2>3. story' = [story EXCEPT ![r] = told]
    BY <1>1, <2>1
  <2> HIDE DEF told
  <2> QED BY <2>1, <2>2, <2>3
<1>4. /\ (200 = 500) <=> story'[r].unjudged
      /\ names' = IF 200 = 201 THEN names \cup {ask[r].name} ELSE names
  BY <1>1, <1>2, <1>3
<1>5. 200 \in {200, 201, 400, 409, 413, 500}
  OBVIOUS
<1>6. Replies(r, 200)
  BY <1>1, <1>3, <1>4, <1>5 DEF Replies
<1> QED BY <1>6, HandlerKeeps

LEMMA CreateKeeps ==
  ASSUME PInv, NEW r \in Requests, Create(r)
  PROVE  PInv'
<1> DEFINE decoded == DecodeJSON(ask[r].body)
           goesOn == decoded.err = <<>>
<1>1. AtHandler(r) /\ UNCHANGED <<wiring, ask, depth, ctx, rows, spent, live>>
  BY DEF Create
<1>2. PICK raw \in InsertErrors(ask[r].name) :
        LET err    == Classify(raw)
            status == IF err = <<>> THEN 201 ELSE IF Is(err, "ErrUniqueViolation") THEN 409 ELSE 500
        IN  /\ names' = IF goesOn /\ err = <<>> THEN names \cup {ask[r].name} ELSE names
            /\ answer' = [answer EXCEPT ![r].status =
                            IF decoded.status # 0 THEN decoded.status ELSE status]
            /\ story' = [story EXCEPT
                    ![r].writes = @ + (IF decoded.status # 0 THEN 1 ELSE 0)
                                    + (IF goesOn THEN 1 ELSE 0),
                    ![r].unjudged = goesOn /\ raw \in Failures]
  BY DEF Create
<1> DEFINE err == Classify(raw)
           inserted == IF err = <<>> THEN 201 ELSE IF Is(err, "ErrUniqueViolation") THEN 409 ELSE 500
           status == IF decoded.status # 0 THEN decoded.status ELSE inserted
           failed == goesOn /\ raw \in Failures
<1>3. decoded.status \in {0, 400, 413} /\ (decoded.status = 0 <=> goesOn)
  BY DecodeAnswers
<1>4. /\ err = <<>> <=> raw = <<>>
      /\ raw \in Failures => err # <<>> /\ ~Is(err, "ErrUniqueViolation")
      /\ raw \notin Failures => err = <<>> \/ Is(err, "ErrUniqueViolation")
  BY InsertJudges
<1>5. /\ names' = IF goesOn /\ err = <<>> THEN names \cup {ask[r].name} ELSE names
      /\ answer' = [answer EXCEPT ![r].status = status]
      /\ story' = [story EXCEPT
              ![r].writes = @ + (IF decoded.status # 0 THEN 1 ELSE 0) + (IF goesOn THEN 1 ELSE 0),
              ![r].unjudged = failed]
  BY <1>2
<1>6. ~story[r].unjudged /\ story[r].writes = 0
  BY <1>1, FlightIsRouted DEF AtHandler
<1> HIDE DEF decoded, goesOn, err
<1>7. /\ status \in {200, 201, 400, 409, 413, 500}
      /\ (status = 500) <=> failed
      /\ (status = 201) <=> (goesOn /\ err = <<>>)
  BY <1>3, <1>4
<1>8. (IF decoded.status # 0 THEN 1 ELSE 0) + (IF goesOn THEN 1 ELSE 0) = 1
  BY <1>3
<1> HIDE DEF status, failed
<1>9. /\ DOMAIN story' = Requests /\ \A q \in Requests \ {r} : story'[q] = story[q]
      /\ DOMAIN story'[r] = DOMAIN NoStory
      /\ story'[r].passed = story[r].passed /\ story'[r].charged = story[r].charged
      /\ story'[r].cached = story[r].cached /\ story'[r].writes = 1
      /\ story'[r].unjudged = failed
  <2> DEFINE once == story[r].writes + (IF decoded.status # 0 THEN 1 ELSE 0) + (IF goesOn THEN 1 ELSE 0)
             told == [story[r] EXCEPT !.writes = once, !.unjudged = failed]
  <2>0. once = 1
    BY <1>3, <1>6
  <2>1. DOMAIN story = Requests /\ DOMAIN story[r] = DOMAIN NoStory
    BY DEF PInv, Types
  <2>2. story' = [story EXCEPT ![r].writes = once, ![r].unjudged = failed]
    BY <1>5, <2>1 DEF NoStory
  <2> HIDE DEF once
  <2>3. /\ DOMAIN told = DOMAIN NoStory
        /\ told.passed = story[r].passed /\ told.charged = story[r].charged
        /\ told.cached = story[r].cached /\ told.writes = 1
        /\ told.unjudged = failed
    BY <2>0, <2>1 DEF NoStory
  <2>4. story' = [story EXCEPT ![r] = told]
    BY <2>1, <2>2
  <2> HIDE DEF told
  <2> QED BY <2>1, <2>3, <2>4
<1>10. names' = IF status = 201 THEN names \cup {ask[r].name} ELSE names
  BY <1>5, <1>7
<1>11. (status = 500) <=> story'[r].unjudged
  BY <1>7, <1>9
<1>12. answer' = [answer EXCEPT ![r].status = status]
  BY <1>5
<1>13. Replies(r, status)
  BY <1>1, <1>7, <1>9, <1>10, <1>11, <1>12 DEF Replies
<1> QED BY <1>13, HandlerKeeps

\* What is not about a request leaves what is said of all.
LEMMA AllStand ==
  ASSUME PInv, w' = w, UNCHANGED <<ask, depth, ctx, answer, names, spent, live, story>>,
         rows' \in [Secrets -> {"none", "live", "gone"}],
         wired' \in {"unwired", "panicked", "refused", "serving"}, Serving'
  PROVE  PInv'
<1>1. /\ w' = w /\ ask' = ask /\ ctx' = ctx /\ depth' = depth /\ answer' = answer
      /\ names' = names /\ spent' = spent /\ live' = live /\ story' = story
  OBVIOUS
<1>2. Types'
  <2>1. Types
    BY DEF PInv
  <2>2. Base'
    BY <1>1, <2>1 DEF Types, Base
  <2>3. Principals' = Principals
    BY DEF Principals
  <2> QED BY <1>1, <2>1, <2>2, <2>3 DEF Types
<1>3. ASSUME NEW q \in Requests PROVE Fine(q)'
  <2>1. Fine(q)
    BY DEF PInv
  <2> QED BY <1>1, <2>1, Stands
<1>4. Inserted'
  BY <1>1 DEF PInv, Inserted
<1>5. Budgeted'
  <2>1. \A c : Took(c)' = Took(c)
    BY <1>1, TookStands
  <2>2. Callers' = Callers
    BY DEF Callers
  <2> QED BY <1>1, <2>1, <2>2 DEF PInv, Budgeted
<1> QED BY <1>2, <1>3, <1>4, <1>5 DEF PInv

LEMMA WireKeeps ==
  ASSUME PInv, Wire
  PROVE  PInv'
<1>1. /\ wired = "unwired" /\ wired' = Wired(w) /\ w' = w /\ rows' = rows
      /\ UNCHANGED <<ask, depth, ctx, answer, names, spent, live, story>>
  BY DEF Wire, shared
<1>2. wired' \in {"unwired", "panicked", "refused", "serving"}
  BY <1>1 DEF Wired
<1>3. Serving'
  BY <1>1 DEF PInv, Serving
<1>4. rows' \in [Secrets -> {"none", "live", "gone"}]
  BY <1>1 DEF PInv, Types, Base
<1> QED BY <1>1, <1>2, <1>3, <1>4, AllStand

LEMMA RowsKeep ==
  ASSUME PInv, NEW s \in Secrets, Issue(s) \/ Revoke(s)
  PROVE  PInv'
<1>1. /\ wired' = wired /\ w' = w
      /\ UNCHANGED <<ask, depth, ctx, answer, names, spent, live, story>>
      /\ rows' = [rows EXCEPT ![s] = "live"] \/ rows' = [rows EXCEPT ![s] = "gone"]
  BY DEF Issue, Revoke, wiring
<1>2. Serving' /\ wired' \in {"unwired", "panicked", "refused", "serving"}
  BY <1>1 DEF PInv, Serving, Types, Base
<1>3. rows' \in [Secrets -> {"none", "live", "gone"}]
  BY <1>1 DEF PInv, Types, Base
<1> QED BY <1>1, <1>2, <1>3, AllStand

\* r arrives with a, and is answered or handed to a route.
Arrives(r, a) ==
    /\ wired = "serving" /\ ask[r] = None /\ ask' = [ask EXCEPT ![r] = a]
    /\ DOMAIN answer' = Requests /\ \A q \in Requests \ {r} : answer'[q] = answer[q]
    /\ DOMAIN answer'[r] = DOMAIN NoAnswer
    /\ answer'[r].status \in {0, 200, 204, 404, 405}
    /\ answer'[r].status = 0 => ~story'[r].cached /\ Match(w, a.method, a.path) # 0
    /\ ~answer'[r].challenge /\ ~answer'[r].retry
    /\ DOMAIN story' = Requests /\ \A q \in Requests \ {r} : story'[q] = story[q]
    /\ DOMAIN story'[r] = DOMAIN NoStory
    /\ story'[r].passed = {} /\ story'[r].charged = {} /\ ~story'[r].unjudged
    /\ story'[r].writes = IF answer'[r].status # 0 /\ ~story'[r].cached THEN 1 ELSE 0
    /\ UNCHANGED <<wiring, depth, ctx, shared, live>>

LEMMA ArrivalKeeps ==
  ASSUME PInv, NEW r \in Requests, NEW a \in Asks, Arrives(r, a), Granted(r)'
  PROVE  PInv'
<1>1. /\ wired = "serving" /\ ask[r] = None /\ ask' = [ask EXCEPT ![r] = a]
      /\ w' = w /\ wired' = wired /\ depth' = depth /\ ctx' = ctx
      /\ rows' = rows /\ spent' = spent /\ names' = names /\ live' = live
  BY DEF Arrives, wiring, shared
<1>2. /\ DOMAIN answer' = Requests /\ \A q \in Requests \ {r} : answer'[q] = answer[q]
      /\ DOMAIN answer'[r] = DOMAIN NoAnswer
      /\ answer'[r].status \in {0, 200, 204, 404, 405}
      /\ answer'[r].status = 0 => ~story'[r].cached /\ Match(w, a.method, a.path) # 0
      /\ ~answer'[r].challenge /\ ~answer'[r].retry
  BY DEF Arrives
<1>3. /\ DOMAIN story' = Requests /\ \A q \in Requests \ {r} : story'[q] = story[q]
      /\ DOMAIN story'[r] = DOMAIN NoStory
      /\ story'[r].passed = {} /\ story'[r].charged = {} /\ ~story'[r].unjudged
      /\ story'[r].writes = IF answer'[r].status # 0 /\ ~story'[r].cached THEN 1 ELSE 0
  BY DEF Arrives
<1>4. Types /\ Fine(r)
  BY DEF PInv
<1>5. /\ depth[r] = 1 /\ answer[r].status = 0 /\ \A k \in Keys : ctx[r][k] = None
  BY <1>1, <1>4 DEF Fine, Fresh, NoAnswer
<1>6. /\ ask' \in [Requests -> Asks \cup {None}] /\ ask'[r] = a
      /\ \A q \in Requests \ {r} : ask'[q] = ask[q]
  BY <1>1, <1>4 DEF Types, Base
<1>7. a # None
  BY AskAssumption
<1>8. Types'
  <2>1. Base'
    BY <1>1, <1>4, <1>6 DEF Types, Base
  <2>2. Principals' = Principals
    BY DEF Principals
  <2> QED BY <1>1, <1>2, <1>3, <1>4, <2>1, <2>2 DEF Types, NoAnswer, NoStory
<1>9. Serving'
  BY <1>1 DEF PInv, Serving
<1>10. 1 .. (depth'[r] - 1) = {}
  BY <1>1, <1>5
<1>11. Fine(r)'
  <2>1. Routed(r)' => depth'[r] = 1 /\ Len(Chain(r)') \in Nat
    <3>1. ASSUME Routed(r)' PROVE Len(Chain(r)') \in Nat
      <4>1. Match(w, a.method, a.path) # 0
        BY <1>1, <1>6, <3>1 DEF Routed
      <4>2. w \in Wirings /\ Wired(w) = "serving"
        BY <1>1 DEF PInv, Serving, Types, Base
      <4>3. Match(w, a.method, a.path) \in DOMAIN w.routes
        BY <4>1, <4>2, MatchOpens
      <4>4. Chain(r)' = w.routes[Match(w, a.method, a.path)].chain
        BY <1>1, <1>6 DEF Chain, Route
      <4> QED BY <4>2, <4>3, <4>4, WiringAssumption
    <3> QED BY <1>1, <1>5, <3>1
  <2>2. Fresh(r)' /\ Unrouted(r)'
    BY <1>1, <1>2, <1>3, <1>5, <1>6, <1>7 DEF Fresh, Unrouted, Routed, Answered
  <2>3. Walks(r)'
    BY <1>3, <1>10, <2>1 DEF Walks
  <2>4. Known(r)'
    BY <1>10 DEF Known
  <2>5. Introduced(r)'
    BY <1>1, <1>5 DEF Introduced
  <2>6. Entitled(r)'
    BY <1>10 DEF Entitled
  <2>7. Judged(r)'
    BY <1>2, <1>3 DEF Judged
  <2>8. Written(r)'
    BY <1>3 DEF Written, Answered
  <2> QED BY <2>2, <2>3, <2>4, <2>5, <2>6, <2>7, <2>8 DEF Fine
<1>12. Only(r)
  BY <1>1, <1>2, <1>3, <1>6 DEF Only
<1>13. \A q \in Requests : Fine(q)'
  BY <1>11, <1>12, OthersStand
<1>14. Inserted'
  <2>1. \A q \in Requests \ {r} : ask'[q] = ask[q] /\ answer'[q] = answer[q]
    BY <1>2, <1>6
  <2>2. answer[r].status # 201 /\ answer'[r].status # 201
    BY <1>2, <1>5
  <2>3. names = {ask[q].name : q \in {x \in Requests : answer[x].status = 201}}
    BY DEF PInv, Inserted
  <2> QED BY <1>1, <2>1, <2>2, <2>3 DEF Inserted
<1>15. Budgeted'
  <2>1. ASSUME NEW c PROVE Took(c)' \subseteq Took(c)
    <3>1. SUFFICES ASSUME NEW q \in Took(c)' PROVE q \in Took(c)
      OBVIOUS
    <3>2. q # r /\ q \in Requests
      BY <1>10 DEF Took
    <3>3. (Routed(q)' <=> Routed(q)) /\ Chain(q)' = Chain(q) /\ ask'[q] = ask[q] /\ depth'[q] = depth[q]
      BY <1>12, <3>2 DEF Only, Routed, Chain, Route
    <3> QED BY <3>2, <3>3 DEF Took
  <2>2. spent' \in [Callers -> 0 .. Ceiling] /\ \A c \in Callers : spent[c] <= spent'[c]
    <3>1. spent \in [Callers -> 0 .. Ceiling]
      BY <1>4 DEF Types, Base
    <3> QED BY <1>1, <3>1, PipelineAssumption
  <2> QED BY <1>4, <2>1, <2>2, BudgetStands DEF PInv
<1> QED BY <1>8, <1>9, <1>13, <1>14, <1>15 DEF PInv

LEMMA ServeKeeps ==
  ASSUME PInv, NEW r \in Requests, NEW a \in Asks, ServeHTTP(r, a)
  PROVE  PInv'
<1> DEFINE head == TableAnswer(w, a)
           once == IF answer'[r].status # 0 THEN 1 ELSE 0
<1>1. /\ wired = "serving" /\ ask[r] = None /\ ask' = [ask EXCEPT ![r] = a]
      /\ answer' = [answer EXCEPT ![r] = head]
      /\ UNCHANGED <<wiring, depth, ctx, shared, live>>
      /\ story' = [story EXCEPT ![r].writes = once]
  BY DEF ServeHTTP, Answered
<1>2. /\ DOMAIN head = DOMAIN NoAnswer
      /\ head.status \in {0, 204, 404, 405}
      /\ head.status = 0 <=> Match(w, a.method, a.path) # 0
      /\ head.challenge = FALSE /\ head.retry = FALSE
      /\ head.grant = IF w.front /\ Lists(w, a.origin) THEN a.origin ELSE None
      /\ w.front => head.vary
      /\ head.methods # {} => head.status = 204 /\ Lists(w, a.origin)
      /\ head.status = 404 => Allow(w, a.path) = {}
      /\ head.status = 204 => w.granting /\ IsPreflight(a)
      /\ head.status = 405 =>
            /\ Allow(w, a.path) # {}
            /\ head.allow = Answering(w, Allow(w, a.path))
            /\ ~(w.granting /\ IsPreflight(a))
  BY TableAnswers, ZenonT(60)
<1> HIDE DEF head, once
<1>3. /\ DOMAIN answer = Requests /\ DOMAIN story = Requests /\ DOMAIN story[r] = DOMAIN NoStory
      /\ DOMAIN ask = Requests /\ story[r] = NoStory
  BY <1>1 DEF PInv, Types, Base, Fine, Fresh
<1>4. DOMAIN answer' = Requests /\ answer'[r] = head /\ \A q \in Requests \ {r} : answer'[q] = answer[q]
  BY <1>1, <1>3
<1>5. /\ DOMAIN story' = Requests /\ \A q \in Requests \ {r} : story'[q] = story[q]
      /\ DOMAIN story'[r] = DOMAIN NoStory
      /\ story'[r].passed = {} /\ story'[r].charged = {} /\ ~story'[r].unjudged
      /\ ~story'[r].cached /\ story'[r].writes = once
  <2> DEFINE told == [NoStory EXCEPT !.writes = once]
  <2>1. story' = [story EXCEPT ![r] = told]
    BY <1>1, <1>3
  <2>2. /\ DOMAIN told = DOMAIN NoStory /\ told.passed = {} /\ told.charged = {}
        /\ ~told.unjudged /\ ~told.cached /\ told.writes = once
    BY DEF NoStory
  <2> HIDE DEF told
  <2> QED BY <1>3, <2>1, <2>2
<1>6. Arrives(r, a)
  BY <1>1, <1>2, <1>4, <1>5 DEF Arrives, once
<1>7. Granted(r)'
  <2>1. ask'[r] = a /\ w' = w
    BY <1>1, <1>3 DEF wiring
  <2> QED BY <1>2, <1>4, <2>1 DEF Granted
<1> QED BY <1>6, <1>7, ArrivalKeeps

\* A cache answers for the table what the table would have declared.
LEMMA CachedKeeps ==
  ASSUME PInv, NEW r \in Requests, NEW q \in Requests, NEW a \in Asks, Cached(r, q, a)
  PROVE  PInv'
<1>1. /\ ask[r] = None /\ answer[q].status \in {200, 404, 405}
      /\ ask[q].path = a.path /\ (answer[q].vary => a.origin = ask[q].origin)
      /\ ask' = [ask EXCEPT ![r] = a] /\ answer' = [answer EXCEPT ![r] = answer[q]]
      /\ UNCHANGED <<wiring, depth, ctx, shared, live>>
      /\ story' = [story EXCEPT ![r].cached = TRUE]
  BY DEF Cached, Cacheable
<1>2. Types /\ Fine(r) /\ Fine(q)
  BY DEF PInv
<1>3. ask[q] # None
  BY <1>1, <1>2 DEF Fine, Fresh, NoAnswer
<1>4. wired = "serving"
  BY <1>3 DEF PInv, Serving
<1>5. /\ DOMAIN answer = Requests /\ DOMAIN answer[q] = DOMAIN NoAnswer
      /\ DOMAIN story = Requests /\ DOMAIN ask = Requests /\ story[r] = NoStory
  BY <1>1, <1>2 DEF Types, Base, Fine, Fresh
<1>6. /\ DOMAIN answer' = Requests /\ answer'[r] = answer[q]
      /\ \A x \in Requests \ {r} : answer'[x] = answer[x]
  BY <1>1, <1>5
<1>7. /\ DOMAIN story' = Requests /\ \A x \in Requests \ {r} : story'[x] = story[x]
      /\ DOMAIN story'[r] = DOMAIN NoStory
      /\ story'[r].passed = {} /\ story'[r].charged = {} /\ ~story'[r].unjudged
      /\ story'[r].cached /\ story'[r].writes = 0
  <2> DEFINE told == [NoStory EXCEPT !.cached = TRUE]
  <2>1. story' = [story EXCEPT ![r] = told]
    BY <1>1, <1>5
  <2>2. /\ DOMAIN told = DOMAIN NoStory /\ told.passed = {} /\ told.charged = {}
        /\ ~told.unjudged /\ told.cached /\ told.writes = 0
    BY DEF NoStory
  <2> HIDE DEF told
  <2> QED BY <1>5, <2>1, <2>2
<1>8. ~answer[q].challenge /\ ~answer[q].retry
  <2>1. Judged(q)
    BY <1>2 DEF Fine
  <2> QED BY <1>1, <2>1 DEF Judged
<1>9. Arrives(r, a)
  BY <1>1, <1>4, <1>5, <1>6, <1>7, <1>8 DEF Arrives
<1>10. Granted(r)'
  <2>1. ask'[r] = a /\ w' = w
    BY <1>1, <1>5 DEF wiring
  <2>2. /\ answer[q].grant = IF w.front /\ Lists(w, ask[q].origin) THEN ask[q].origin ELSE None
        /\ w.front => answer[q].vary
        /\ answer[q].methods # {} => answer[q].status = 204 /\ Lists(w, ask[q].origin)
        /\ answer[q].status = 405 =>
              /\ Allow(w, ask[q].path) # {}
              /\ answer[q].allow = Answering(w, Allow(w, ask[q].path))
    BY <1>2, <1>3 DEF Fine, Granted
  <2> QED BY <1>1, <1>6, <2>1, <2>2 DEF Granted
<1> QED BY <1>9, <1>10, ArrivalKeeps

-----------------------------------------------------------------------------
(***************************************************************************)
(* The lookups.                                                            *)
(***************************************************************************)

\* What is said of a lookup stands while its request does.
LEMMA LookupStands ==
  ASSUME NEW q \in Requests, Lookup(q), w' = w, ask'[q] = ask[q], depth'[q] = depth[q],
         answer'[q] = answer[q], live'[q] = live[q], found'[q] = found[q]
  PROVE  Lookup(q)'
<1>1. Route(q)' = Route(q)
  BY DEF Route
<1>2. Listed(q)' = Listed(q) /\ WrapOf(q)' = WrapOf(q)
  BY <1>1 DEF Listed, WrapOf
<1>3. (InFlight(q)' <=> InFlight(q)) /\ (AtHandler(q)' <=> AtHandler(q))
  BY <1>1 DEF InFlight, AtHandler, Answered
<1>4. Inside(q, "bearer")' <=> Inside(q, "bearer")
  BY <1>2, <1>3 DEF Inside
<1> QED BY <1>3, <1>4 DEF Lookup

\* A step about a request in flight that waits for no store, and looks
\* nothing up.
LEMMA NoLookup ==
  ASSUME NEW r \in Requests, \A q \in Requests : Lookup(q), InFlight(r), found[r] = {},
         w' = w, ask' = ask, live' = live, found' = found,
         \A q \in Requests \ {r} : depth'[q] = depth[q] /\ answer'[q] = answer[q]
  PROVE  \A q \in Requests : Lookup(q)'
<1>1. Lookup(r)'
  <2>1. Lookup(r) /\ found'[r] = {} /\ ask'[r] # None
    BY DEF InFlight
  <2> QED BY <2>1 DEF Lookup
<1>2. ASSUME NEW q \in Requests \ {r} PROVE Lookup(q)'
  BY LookupStands
<1> QED BY <1>1, <1>2

\* The store is asked inside a bearer alone.
LEMMA AwaitedInside ==
  ASSUME NEW r \in Requests, Lookup(r),
         \/ ~InFlight(r)
         \/ AtHandler(r)
         \/ Inside(r, "right")
         \/ Inside(r, "meter")
         \/ Bearer(ask[r].header) = None
  PROVE  found[r] = {}
  BY DEF Lookup, Inside

\* What a refusal, and the way past a wrap, leave of the others.
LEMMA WrapLeaves ==
  ASSUME PInv, NEW r \in Requests, NEW status, NEW charged, NEW unjudged,
         TurnAway(r, status, unjudged) \/ PassOn(r, charged)
  PROVE  \A q \in Requests \ {r} : depth'[q] = depth[q] /\ answer'[q] = answer[q]
<1>1. depth \in [Requests -> Nat \ {0}] /\ DOMAIN answer = Requests
  BY DEF PInv, Types, Base
<1> QED BY <1>1 DEF TurnAway, PassOn

LEMMA BearerAsksLookup ==
  ASSUME PInv, NEW r \in Requests, \A q \in Requests : Lookup(q), Details, BearerAsks(r)
  PROVE  \A q \in Requests : Lookup(q)'
<1> DEFINE text  == Bearer(ask[r].header)
           stood == {s \in Secrets : rows[s] = "live"}
<1>1. /\ Inside(r, "bearer") /\ text # None
      /\ w' = w /\ ask' = ask /\ depth' = depth /\ answer' = answer /\ live' = live
  BY DEF BearerAsks, wiring
<1>2. PICK raw \in RowErrors(Parse(text), stood) :
        found' = [found EXCEPT ![r] = {[raw |-> raw, stood |-> stood]}]
  BY DEF BearerAsks
<1>3. DOMAIN found = Requests
  BY DEF Details
<1>4. Lookup(r)'
  <2>1. Route(r)' = Route(r)
    BY <1>1 DEF Route
  <2>2. Listed(r)' = Listed(r) /\ WrapOf(r)' = WrapOf(r)
    BY <1>1, <2>1 DEF Listed, WrapOf
  <2>3. (InFlight(r)' <=> InFlight(r)) /\ (AtHandler(r)' <=> AtHandler(r))
    BY <1>1, <2>1 DEF InFlight, AtHandler, Answered
  <2>4. Inside(r, "bearer")'
    BY <1>1, <2>2, <2>3 DEF Inside
  <2>5. \A row \in found'[r] : row.raw \in RowErrors(Parse(text), row.stood)
    BY <1>2, <1>3
  <2> QED BY <1>1, <2>3, <2>4, <2>5 DEF Lookup
<1>5. ASSUME NEW q \in Requests \ {r} PROVE Lookup(q)'
  BY <1>1, <1>2, <1>3, LookupStands
<1> QED BY <1>4, <1>5

LEMMA BearerAnswersLookup ==
  ASSUME PInv, NEW r \in Requests, \A q \in Requests : Lookup(q), Details, BearerAnswers(r)
  PROVE  \A q \in Requests : Lookup(q)'
<1> DEFINE text == Bearer(ask[r].header)
<1>1. /\ Inside(r, "bearer") /\ found' = [found EXCEPT ![r] = {}]
      /\ w' = w /\ ask' = ask
  BY DEF BearerAnswers, wiring
<1>2. PICK row \in found[r], transaction \in BOOLEAN :
      /\ live' = [live EXCEPT ![r] = @ \cap row.stood]
      /\ \/ Resolve(text, row.raw, transaction) = <<>> /\ PassOn(r, FALSE)
         \/ TurnAway(r, 401, row.raw \in Failures)
         \/ TurnAway(r, 500, row.raw \in Failures)
  BY ZenonT(60) DEF BearerAnswers
<1>3. /\ DOMAIN found = Requests /\ DOMAIN live = Requests /\ DOMAIN answer = Requests
      /\ DOMAIN answer[r] = DOMAIN NoAnswer
  BY DEF Details, PInv, Types
<1>4. \A q \in Requests \ {r} : depth'[q] = depth[q] /\ answer'[q] = answer[q]
  BY <1>2, WrapLeaves
<1>5. Lookup(r)'
  <2>1. Lookup(r) /\ InFlight(r) /\ ask[r] # None /\ found'[r] = {} /\ live'[r] = live[r] \cap row.stood
    BY <1>1, <1>2, <1>3 DEF Inside, InFlight
  <2>2. SUFFICES ASSUME InFlight(r)', text # None, Parse(text) # None
                 PROVE  Parse(text) \in live'[r]
    BY <1>1, <2>1 DEF Lookup
  <2>3. CASE Resolve(text, row.raw, transaction) = <<>> /\ PassOn(r, FALSE)
    <3>1. row.raw \in RowErrors(Parse(text), row.stood)
      BY <2>1 DEF Lookup
    <3>2. Parse(text) \in row.stood
      BY <2>3, <3>1, ResolveJudges
    <3> QED BY <2>1, <2>2, <3>2 DEF Lookup
  <2>4. ASSUME NEW status \in {401, 500}, TurnAway(r, status, row.raw \in Failures) PROVE FALSE
    <3>1. answer' = [answer EXCEPT ![r].status = status, ![r].challenge = (status = 401),
                                   ![r].retry = (status = 429)]
      BY <2>4 DEF TurnAway
    <3>2. answer'[r].status = status
      BY <1>3, <3>1, Said
    <3> QED BY <2>2, <3>2 DEF InFlight, Answered
  <2> QED BY <1>2, <2>3, <2>4
<1>6. ASSUME NEW q \in Requests \ {r} PROVE Lookup(q)'
  BY <1>1, <1>2, <1>3, <1>4, LookupStands
<1> QED BY <1>5, <1>6

\* A request that arrives has been looked up nowhere yet.
LEMMA ArrivalLookup ==
  ASSUME PInv, NEW r \in Requests, NEW a \in Asks, \A q \in Requests : Lookup(q),
         ask[r] = None, ask' = [ask EXCEPT ![r] = a], w' = w, depth' = depth,
         live' = live, found' = found,
         \A q \in Requests \ {r} : answer'[q] = answer[q]
  PROVE  \A q \in Requests : Lookup(q)'
<1>1. ask'[r] = a /\ a # None /\ \A q \in Requests \ {r} : ask'[q] = ask[q]
  BY AskAssumption DEF PInv, Types, Base
<1>2. Lookup(r)'
  <2>1. found'[r] = {}
    BY AwaitedInside DEF InFlight
  <2>2. live'[r] = Secrets
    BY DEF Lookup
  <2>3. ASSUME Bearer(a.header) # None, Parse(Bearer(a.header)) # None
        PROVE  Parse(Bearer(a.header)) \in Secrets
    BY <2>3, ParseReads
  <2> QED BY <1>1, <2>1, <2>2, <2>3 DEF Lookup
<1>3. ASSUME NEW q \in Requests \ {r} PROVE Lookup(q)'
  BY <1>1, LookupStands
<1> QED BY <1>2, <1>3

LEMMA LookupsKeep ==
  ASSUME PInv, \A q \in Requests : Lookup(q), Details, [Next]_vars
  PROVE  \A q \in Requests : Lookup(q)'
<1>1. CASE Wire \/ (\E s \in Secrets : Issue(s) \/ Revoke(s)) \/ Quiet \/ UNCHANGED vars
  <2>1. /\ w' = w /\ ask' = ask /\ depth' = depth /\ answer' = answer
        /\ live' = live /\ found' = found
    BY <1>1 DEF Wire, Issue, Revoke, Quiet, vars, wiring
  <2> QED BY <2>1, LookupStands
<1>2. ASSUME NEW r \in Requests, NEW a \in Asks,
             ServeHTTP(r, a) \/ \E q \in Requests : Cached(r, q, a)
      PROVE  \A q \in Requests : Lookup(q)'
  <2>1. /\ ask[r] = None /\ ask' = [ask EXCEPT ![r] = a] /\ w' = w /\ depth' = depth
        /\ live' = live /\ found' = found /\ \E v : answer' = [answer EXCEPT ![r] = v]
    BY <1>2 DEF ServeHTTP, Cached, wiring
  <2>2. \A q \in Requests \ {r} : answer'[q] = answer[q]
    BY <2>1 DEF PInv, Types
  <2> QED BY <2>1, <2>2, ArrivalLookup
<1>3. ASSUME NEW r \in Requests,
             BearerMissing(r) \/ RightUnavailable(r) \/ RightJudged(r) \/ Unmetered(r) \/ Metered(r)
      PROVE  \A q \in Requests : Lookup(q)'
  <2>1. /\ w' = w /\ ask' = ask /\ live' = live /\ found' = found
        /\ \E status, unjudged, charged : TurnAway(r, status, unjudged) \/ PassOn(r, charged)
        /\ \/ Inside(r, "bearer") /\ Bearer(ask[r].header) = None
           \/ Inside(r, "right")
           \/ Inside(r, "meter")
    BY <1>3 DEF BearerMissing, RightUnavailable, RightJudged, Unmetered, Metered, wiring
  <2>2. InFlight(r) /\ found[r] = {}
    BY <2>1, AwaitedInside DEF Inside
  <2>3. \A q \in Requests \ {r} : depth'[q] = depth[q] /\ answer'[q] = answer[q]
    BY <2>1, WrapLeaves
  <2> QED BY <2>1, <2>2, <2>3, NoLookup
<1>4. ASSUME NEW r \in Requests, Show(r) \/ Create(r) PROVE \A q \in Requests : Lookup(q)'
  <2>1. /\ AtHandler(r) /\ w' = w /\ ask' = ask /\ depth' = depth /\ live' = live /\ found' = found
        /\ \E status : answer' = [answer EXCEPT ![r].status = status]
    BY <1>4 DEF Show, Create, wiring
  <2>2. InFlight(r) /\ found[r] = {}
    BY <2>1, AwaitedInside DEF AtHandler
  <2>3. \A q \in Requests \ {r} : answer'[q] = answer[q]
    BY <2>1 DEF PInv, Types
  <2> QED BY <2>1, <2>2, <2>3, NoLookup
<1> QED BY <1>1, <1>2, <1>3, <1>4, BearerAsksLookup, BearerAnswersLookup DEF Next

-----------------------------------------------------------------------------
(***************************************************************************)
(* The types.                                                              *)
(***************************************************************************)

Statuses == {0, 200, 201, 204, 400, 401, 403, 404, 405, 409, 413, 429, 500}

\* What updating one field of an answer, or of a story, leaves of its type.
LEMMA FieldTyped ==
  ASSUME NEW v, NEW x \in Answers(v)
  PROVE  /\ \A status \in Statuses : [x EXCEPT !.status = status] \in Answers(v)
         /\ \A flag \in BOOLEAN : [x EXCEPT !.challenge = flag] \in Answers(v)
         /\ \A flag \in BOOLEAN : [x EXCEPT !.retry = flag] \in Answers(v)
         /\ [x EXCEPT !.vary = TRUE] \in Answers(v)
         /\ \A grant \in {None} \cup {o.origin : o \in v.origins} : [x EXCEPT !.grant = grant] \in Answers(v)
         /\ \A allow \in SUBSET (Named(v) \cup {"OPTIONS"}) : [x EXCEPT !.allow = allow] \in Answers(v)
         /\ \A methods \in SUBSET Named(v) : [x EXCEPT !.methods = methods] \in Answers(v)
         /\ [x EXCEPT !.headers = {h.names : h \in v.headers}] \in Answers(v)
<1> DEFINE allowed == SUBSET (Named(v) \cup {"OPTIONS"})
           named == SUBSET Named(v)
           origins == {None} \cup {o.origin : o \in v.origins}
           listed == {h.names : h \in v.headers}
           granted == SUBSET listed
<1>1. Answers(v) =
        [status : Statuses, challenge : BOOLEAN, retry : BOOLEAN, vary : BOOLEAN,
         allow : allowed, methods : named, grant : origins, headers : granted]
  BY DEF Answers, Statuses
<1>2. listed \in granted
  OBVIOUS
<1> HIDE DEF allowed, named, origins, granted, listed
<1>3. \A status \in Statuses : [x EXCEPT !.status = status] \in Answers(v)
  BY <1>1
<1>4. \A flag \in BOOLEAN : [x EXCEPT !.challenge = flag] \in Answers(v)
  BY <1>1
<1>5. \A flag \in BOOLEAN : [x EXCEPT !.retry = flag] \in Answers(v)
  BY <1>1
<1>6. [x EXCEPT !.vary = TRUE] \in Answers(v)
  <2>1. \A flag \in BOOLEAN : [x EXCEPT !.vary = flag] \in Answers(v)
    BY <1>1
  <2> QED BY <2>1, Zenon
<1>7. \A grant \in origins : [x EXCEPT !.grant = grant] \in Answers(v)
  BY <1>1
<1>8. \A allow \in allowed : [x EXCEPT !.allow = allow] \in Answers(v)
  BY <1>1
<1>9. \A methods \in named : [x EXCEPT !.methods = methods] \in Answers(v)
  BY <1>1
<1>10. [x EXCEPT !.headers = listed] \in Answers(v)
  BY <1>1, <1>2
<1> QED BY <1>3, <1>4, <1>5, <1>6, <1>7, <1>8, <1>9, <1>10 DEF allowed, named, origins, listed

LEMMA StoryTyped ==
  ASSUME NEW x \in Stories
  PROVE  /\ \A writes \in Nat : [x EXCEPT !.writes = writes] \in Stories
         /\ [x EXCEPT !.cached = TRUE] \in Stories
         /\ \A flag \in BOOLEAN : [x EXCEPT !.unjudged = flag] \in Stories
         /\ \A passed \in SUBSET Nat : [x EXCEPT !.passed = passed] \in Stories
         /\ \A charged \in SUBSET Nat : [x EXCEPT !.charged = charged] \in Stories
<1> DEFINE sets == SUBSET Nat
           counts == Nat
<1>1. Stories = [passed : sets, charged : sets, unjudged : BOOLEAN, writes : counts, cached : BOOLEAN]
  BY DEF Stories
<1> HIDE DEF sets, counts
<1>2. \A writes \in counts : [x EXCEPT !.writes = writes] \in Stories
  BY <1>1
<1>3. [x EXCEPT !.cached = TRUE] \in Stories
  BY <1>1
<1>4. \A flag \in BOOLEAN : [x EXCEPT !.unjudged = flag] \in Stories
  BY <1>1
<1>5. \A passed \in sets : [x EXCEPT !.passed = passed] \in Stories
  BY <1>1
<1>6. \A charged \in sets : [x EXCEPT !.charged = charged] \in Stories
  BY <1>1
<1> QED BY <1>2, <1>3, <1>4, <1>5, <1>6 DEF sets, counts

LEMMA NothingTyped == \A v : NoAnswer \in Answers(v)
<1> TAKE v
<1> DEFINE allowed == SUBSET (Named(v) \cup {"OPTIONS"})
           named == SUBSET Named(v)
           origins == {None} \cup {o.origin : o \in v.origins}
           granted == SUBSET {h.names : h \in v.headers}
<1>1. Answers(v) =
        [status : Statuses, challenge : BOOLEAN, retry : BOOLEAN, vary : BOOLEAN,
         allow : allowed, methods : named, grant : origins, headers : granted]
  BY DEF Answers, Statuses
<1>2. {} \in allowed /\ {} \in named /\ None \in origins /\ {} \in granted /\ 0 \in Statuses
  BY DEF Statuses
<1> HIDE DEF allowed, named, origins, granted
<1> QED BY <1>1, <1>2 DEF NoAnswer

\* The table's own answer is of the wiring's.
LEMMA TableAnswerTyped ==
  ASSUME NEW v, NEW a
  PROVE  TableAnswer(v, a) \in Answers(v)
<1> DEFINE origins == {None} \cup {o.origin : o \in v.origins}
           grant == IF Lists(v, a.origin) THEN a.origin ELSE None
           allow == Allow(v, a.path)
           head == Wrap(v, a)
           varied == [NoAnswer EXCEPT !.vary = TRUE]
           head404 == [head EXCEPT !.status = 404]
           head204 == [head EXCEPT !.status = 204]
           head405 == [head EXCEPT !.status = 405]
           named204 == [head204 EXCEPT !.methods = allow]
<1>1. allow \in SUBSET Named(v) /\ Answering(v, allow) \in SUBSET (Named(v) \cup {"OPTIONS"})
  BY DEF Allow, Answering
<1>2. grant \in origins
  BY DEF Lists
<1>3. 204 \in Statuses /\ 404 \in Statuses /\ 405 \in Statuses
  BY DEF Statuses
<1>4. varied \in Answers(v)
  BY NothingTyped, FieldTyped
<1> HIDE DEF grant, allow, varied
<1>5. [varied EXCEPT !.grant = grant] \in Answers(v)
  BY <1>2, <1>4, FieldTyped
<1>6. head \in Answers(v)
  BY <1>5, NothingTyped DEF Wrap, varied, grant
<1> HIDE DEF head
<1>status. \A status \in Statuses : [head EXCEPT !.status = status] \in Answers(v)
  BY <1>6, FieldTyped
<1>7. head404 \in Answers(v)
  BY <1>3, <1>status
<1>8. head204 \in Answers(v)
  BY <1>3, <1>status
<1>9. head405 \in Answers(v)
  BY <1>3, <1>status
<1> HIDE DEF head404, head204, head405
<1>10. named204 \in Answers(v)
  BY <1>1, <1>8, FieldTyped
<1>11. [head405 EXCEPT !.allow = Answering(v, allow)] \in Answers(v)
  BY <1>1, <1>9, FieldTyped
<1> HIDE DEF named204
<1>12. [named204 EXCEPT !.headers = {h.names : h \in v.headers}] \in Answers(v)
  BY <1>10, FieldTyped
<1>13. Preflight(v, a) \in Answers(v)
  BY <1>8, <1>12 DEF Preflight, named204, head204, head, allow
<1> QED BY <1>6, <1>7, <1>11, <1>13 DEF TableAnswer, head404, head405, head, allow

\* A refusal writes what an answer and a story hold.
LEMMA TurnAwayTypes ==
  ASSUME PInv, Details, NEW r \in Requests,
         NEW status \in Statuses, NEW unjudged \in BOOLEAN,
         TurnAway(r, status, unjudged)
  PROVE  answer' \in [Requests -> Answers(w)] /\ story' \in [Requests -> Stories]
<1>1. /\ answer \in [Requests -> Answers(w)] /\ story \in [Requests -> Stories]
      /\ DOMAIN answer = Requests /\ DOMAIN story = Requests
  BY DEF Details
<1>2. PICK had \in Answers(w) : had = answer[r]
  BY <1>1
<1>3. PICK was \in Stories : was = story[r]
  BY <1>1
<1> DEFINE challenge == (status = 401)
           retry == (status = 429)
           writes == story[r].writes + 1
           said1 == [had EXCEPT !.status = status]
           said2 == [said1 EXCEPT !.challenge = challenge]
           said == [said2 EXCEPT !.retry = retry]
           told1 == [was EXCEPT !.writes = writes]
           told == [told1 EXCEPT !.unjudged = unjudged]
<1>4. answer' = [answer EXCEPT ![r].status = status, ![r].challenge = challenge,
                               ![r].retry = retry]
  BY DEF TurnAway
<1>5. story' = [story EXCEPT ![r].writes = @ + 1, ![r].unjudged = unjudged]
  BY DEF TurnAway
<1>6. story' = [story EXCEPT ![r] = told]
  BY <1>1, <1>3, <1>5
<1>7. challenge \in BOOLEAN /\ retry \in BOOLEAN /\ writes \in Nat
  BY <1>3 DEF Stories
<1> HIDE DEF challenge, retry, writes
<1>8. answer' = [answer EXCEPT ![r] = said]
  BY <1>1, <1>2, <1>4
<1>9. said1 \in Answers(w)
  BY FieldTyped
<1>10. told1 \in Stories
  BY <1>7, StoryTyped
<1> HIDE DEF said1, told1
<1>11. said2 \in Answers(w)
  BY <1>7, <1>9, FieldTyped
<1>12. told \in Stories
  BY <1>10, StoryTyped
<1> HIDE DEF said2, told
<1>13. said \in Answers(w)
  BY <1>7, <1>11, FieldTyped
<1> HIDE DEF said
<1> QED BY <1>1, <1>6, <1>8, <1>12, <1>13

\* And so does going on past a wrap.
LEMMA PassOnTypes ==
  ASSUME PInv, Details, NEW r \in Requests, NEW kind, Inside(r, kind),
         NEW charged \in BOOLEAN, PassOn(r, charged)
  PROVE  answer' \in [Requests -> Answers(w)] /\ story' \in [Requests -> Stories]
<1>1. /\ answer \in [Requests -> Answers(w)] /\ story \in [Requests -> Stories]
      /\ DOMAIN answer = Requests /\ DOMAIN story = Requests
  BY DEF Details
<1>2. PICK was \in Stories : was = story[r]
  BY <1>1
<1>3. Listed(r) \in Nat
  BY InsideIsListed, RouteServes
<1> DEFINE passed == story[r].passed \cup {Listed(r)}
           taken == IF charged THEN story[r].charged \cup {Listed(r)} ELSE story[r].charged
           told1 == [was EXCEPT !.passed = passed]
           told == [told1 EXCEPT !.charged = taken]
<1>4. answer' = answer
  BY DEF PassOn
<1>5. story' = [story EXCEPT ![r].passed = passed, ![r].charged = taken]
  BY <1>1 DEF PassOn
<1>6. passed \in SUBSET Nat /\ taken \in SUBSET Nat
  BY <1>2, <1>3 DEF Stories
<1> HIDE DEF passed, taken
<1>7. story' = [story EXCEPT ![r] = told]
  BY <1>1, <1>2, <1>5
<1>8. told1 \in Stories
  BY <1>6, StoryTyped
<1> HIDE DEF told1
<1>9. told \in Stories
  BY <1>6, <1>8, StoryTyped
<1> HIDE DEF told
<1> QED BY <1>1, <1>4, <1>7, <1>9

\* The two things a wrap comes to.
Decides(r) ==
    \/ \E status \in Statuses, unjudged \in BOOLEAN : TurnAway(r, status, unjudged)
    \/ \E charged \in BOOLEAN : PassOn(r, charged)

LEMMA WrapWrites ==
  ASSUME PInv, Details, NEW r \in Requests, NEW kind, Inside(r, kind), Decides(r)
  PROVE  answer' \in [Requests -> Answers(w)] /\ story' \in [Requests -> Stories]
<1>1. ASSUME NEW status \in Statuses, NEW unjudged \in BOOLEAN, TurnAway(r, status, unjudged)
      PROVE  answer' \in [Requests -> Answers(w)] /\ story' \in [Requests -> Stories]
  BY <1>1, TurnAwayTypes
<1>2. ASSUME NEW charged \in BOOLEAN, PassOn(r, charged)
      PROVE  answer' \in [Requests -> Answers(w)] /\ story' \in [Requests -> Stories]
  BY <1>2, PassOnTypes
<1> QED BY <1>1, <1>2 DEF Decides

LEMMA DetailsKeep ==
  ASSUME PInv, \A q \in Requests : Lookup(q), Details, [Next]_vars
  PROVE  Details'
<1>1. w' = w
  BY DEF Next, Wire, Issue, Revoke, ServeHTTP, Cached, BearerMissing, BearerAsks, BearerAnswers,
         RightUnavailable, RightJudged, Unmetered, Metered, Show, Create, Quiet, vars, wiring
<1>2. CASE Wire \/ (\E s \in Secrets : Issue(s) \/ Revoke(s)) \/ Quiet \/ UNCHANGED vars
  <2>1. /\ ctx' = ctx /\ answer' = answer /\ names' = names
        /\ live' = live /\ found' = found /\ story' = story
    BY <1>2 DEF Wire, Issue, Revoke, Quiet, vars, shared
  <2> QED BY <1>1, <2>1 DEF Details, Principals
<1>3. ASSUME NEW r \in Requests, NEW a \in Asks, ServeHTTP(r, a) PROVE Details'
  <2>1. /\ ctx' = ctx /\ names' = names /\ live' = live /\ found' = found
        /\ answer' = [answer EXCEPT ![r] = TableAnswer(w, a)]
        /\ story' = [story EXCEPT ![r].writes = IF Answered(r)' THEN 1 ELSE 0]
    BY <1>3 DEF ServeHTTP, shared
  <2>2. answer' \in [Requests -> Answers(w)]
    BY <2>1, TableAnswerTyped DEF Details
  <2>3. story' \in [Requests -> Stories]
    BY <2>1 DEF Details, Stories
  <2> QED BY <1>1, <2>1, <2>2, <2>3 DEF Details, Principals
<1>4. ASSUME NEW r \in Requests, NEW q \in Requests, NEW a \in Asks, Cached(r, q, a) PROVE Details'
  <2>1. /\ ctx' = ctx /\ names' = names /\ live' = live /\ found' = found
        /\ answer' = [answer EXCEPT ![r] = answer[q]]
        /\ story' = [story EXCEPT ![r].cached = TRUE]
    BY <1>4 DEF Cached, shared
  <2>2. answer' \in [Requests -> Answers(w)]
    BY <2>1 DEF Details
  <2>3. story' \in [Requests -> Stories]
    BY <2>1 DEF Details, Stories
  <2> QED BY <1>1, <2>1, <2>2, <2>3 DEF Details, Principals
<1>5. ASSUME NEW r \in Requests,
             BearerMissing(r) \/ RightUnavailable(r) \/ RightJudged(r) \/ Unmetered(r) \/ Metered(r)
      PROVE  Details'
  <2>1. /\ ctx' = ctx /\ live' = live /\ found' = found /\ names' = names
        /\ \E kind : Inside(r, kind)
    BY <1>5 DEF BearerMissing, RightUnavailable, RightJudged, Unmetered, Metered, shared
  <2>2. Decides(r)
    <3>1. /\ 401 \in Statuses /\ 403 \in Statuses /\ 429 \in Statuses /\ 500 \in Statuses
          /\ TRUE \in BOOLEAN /\ FALSE \in BOOLEAN
      BY DEF Statuses
    <3>2. CASE BearerMissing(r)
      <4>1. TurnAway(r, 401, FALSE)
        BY <3>2 DEF BearerMissing
      <4> QED BY <3>1, <4>1, Zenon DEF Decides
    <3>3. CASE RightUnavailable(r)
      <4>1. TurnAway(r, 500, TRUE)
        BY <3>3 DEF RightUnavailable
      <4> QED BY <3>1, <4>1, Zenon DEF Decides
    <3>4. CASE RightJudged(r)
      <4>1. PassOn(r, FALSE) \/ TurnAway(r, 403, FALSE)
        BY <3>4 DEF RightJudged
      <4> QED BY <3>1, <4>1, Zenon DEF Decides
    <3>5. CASE Unmetered(r)
      <4>1. PassOn(r, FALSE)
        BY <3>5 DEF Unmetered
      <4> QED BY <3>1, <4>1, Zenon DEF Decides
    <3>6. CASE Metered(r)
      <4>1. PassOn(r, TRUE) \/ TurnAway(r, 429, FALSE) \/ TurnAway(r, 500, TRUE)
        BY <3>6, Zenon DEF Metered
      <4> QED BY <3>1, <4>1, Zenon DEF Decides
    <3> QED BY <1>5, <3>2, <3>3, <3>4, <3>5, <3>6
  <2>3. answer' \in [Requests -> Answers(w)] /\ story' \in [Requests -> Stories]
    BY <2>1, <2>2, WrapWrites
  <2> QED BY <1>1, <2>1, <2>3 DEF Details, Principals
<1>6. ASSUME NEW r \in Requests, BearerAsks(r) PROVE Details'
  <2> DEFINE text  == Bearer(ask[r].header)
             stood == {s \in Secrets : rows[s] = "live"}
  <2>1. /\ ctx' = ctx /\ answer' = answer /\ names' = names /\ live' = live /\ story' = story
        /\ \E raw \in RowErrors(Parse(text), stood) :
             found' = [found EXCEPT ![r] = {[raw |-> raw, stood |-> stood]}]
    BY <1>6 DEF BearerAsks, shared
  <2>2. RowErrors(Parse(text), stood) \subseteq {<<>>, <<"pgx.ErrNoRows">>} \cup Failures
    BY DEF RowErrors
  <2>3. found' \in [Requests -> SUBSET Lookups]
    BY <2>1, <2>2 DEF Details, Lookups
  <2> QED BY <1>1, <2>1, <2>3 DEF Details, Principals
<1>7. ASSUME NEW r \in Requests, BearerAnswers(r) PROVE Details'
  <2> DEFINE text == Bearer(ask[r].header)
             key  == WrapOf(r).key
  <2>1. /\ Inside(r, "bearer") /\ names' = names /\ found' = [found EXCEPT ![r] = {}]
    BY <1>7 DEF BearerAnswers, shared
  <2>2. PICK row \in found[r], transaction \in BOOLEAN :
          /\ live' = [live EXCEPT ![r] = @ \cap row.stood]
          /\ \/ /\ Resolve(text, row.raw, transaction) = <<>>
                /\ ctx' = [ctx EXCEPT ![r] = With(@, key, Owner[key][Parse(text)])]
                /\ PassOn(r, FALSE)
             \/ TurnAway(r, 401, row.raw \in Failures) /\ ctx' = ctx
             \/ TurnAway(r, 500, row.raw \in Failures) /\ ctx' = ctx
    BY <1>7 DEF BearerAnswers
  <2>3. answer' \in [Requests -> Answers(w)] /\ story' \in [Requests -> Stories]
    <3> DEFINE unjudged == row.raw \in Failures
    <3>1. /\ 401 \in Statuses /\ 500 \in Statuses
          /\ unjudged \in BOOLEAN /\ FALSE \in BOOLEAN
      BY DEF Statuses
    <3>2. PassOn(r, FALSE) \/ TurnAway(r, 401, unjudged) \/ TurnAway(r, 500, unjudged)
      BY <2>2
    <3> HIDE DEF unjudged
    <3>3. Decides(r)
      <4>1. CASE PassOn(r, FALSE)
        BY <3>1, <4>1, Zenon DEF Decides
      <4>2. CASE TurnAway(r, 401, unjudged)
        BY <3>1, <4>2 DEF Decides
      <4>3. CASE TurnAway(r, 500, unjudged)
        BY <3>1, <4>3 DEF Decides
      <4> QED BY <3>2, <4>1, <4>2, <4>3
    <3> QED BY <2>1, <3>3, WrapWrites
  <2>4. ctx' \in [Requests -> [Keys -> Principals]]
    <3>1. CASE ctx' = ctx
      BY <3>1 DEF Details
    <3>2. CASE /\ Resolve(text, row.raw, transaction) = <<>>
               /\ ctx' = [ctx EXCEPT ![r] = With(@, key, Owner[key][Parse(text)])]
      <4>1. row.raw \in RowErrors(Parse(text), row.stood) /\ text # None
        BY DEF Lookup
      <4>2. Parse(text) # None
        BY <3>2, <4>1, ResolveJudges
      <4>3. key \in Keys /\ ask[r] \in Asks
        <5>1. /\ Routed(r) /\ depth[r] \in 1 .. Len(Chain(r))
              /\ WrapOf(r) = Chain(r)[depth[r]] /\ Chain(r)[depth[r]].kind = "bearer"
          BY <2>1, InsideIsListed
        <5>2. /\ ask[r] \in Asks
              /\ \A k \in 1 .. Len(Chain(r)) :
                    Chain(r)[k].kind \in {"bearer", "right"} => Chain(r)[k].key \in Keys
          BY <5>1, RouteServes
        <5> QED BY <5>1, <5>2
      <4>4. Parse(text) \in Secrets
        BY <4>1, <4>2, <4>3, ParseReads
      <4> DEFINE v == Owner[key][Parse(text)]
      <4>5. v \in Principals
        BY <4>3, <4>4 DEF Principals
      <4> HIDE DEF v, key
      <4>6. ctx' = [ctx EXCEPT ![r] = [ctx[r] EXCEPT ![key] = v]]
        BY <3>2 DEF With, v, Details
      <4> QED BY <4>5, <4>6 DEF Details
    <3> QED BY <2>2, <3>1, <3>2
  <2>5. live' \in [Requests -> SUBSET Secrets] /\ found' \in [Requests -> SUBSET Lookups]
    BY <2>1, <2>2 DEF Details
  <2> QED BY <1>1, <2>1, <2>3, <2>4, <2>5 DEF Details, Principals
<1>8. ASSUME NEW r \in Requests, Show(r) \/ Create(r) PROVE Details'
  <2>1. /\ ctx' = ctx /\ live' = live /\ found' = found
        /\ AtHandler(r)
    BY <1>8 DEF Show, Create
  <2>2. ask[r] \in Asks
    BY <2>1 DEF AtHandler, InFlight, PInv, Types, Base
  <2>3. names' \subseteq {a.name : a \in Asks}
    BY <1>8, <2>2 DEF Show, Create, shared, Details
  <2>4. answer' \in [Requests -> Answers(w)]
    <3>1. PICK status \in Statuses : answer' = [answer EXCEPT ![r].status = status]
      <4>1. CASE Show(r)
        BY <4>1 DEF Show, Statuses
      <4>2. CASE Create(r)
        <5> DEFINE decoded == DecodeJSON(ask[r].body)
                   goesOn == decoded.err = <<>>
        <5>1. PICK raw \in InsertErrors(ask[r].name) :
                LET err    == Classify(raw)
                    status == IF err = <<>> THEN 201 ELSE IF Is(err, "ErrUniqueViolation") THEN 409 ELSE 500
                IN  /\ names' = IF goesOn /\ err = <<>> THEN names \cup {ask[r].name} ELSE names
                    /\ answer' = [answer EXCEPT ![r].status =
                                    IF decoded.status # 0 THEN decoded.status ELSE status]
                    /\ story' = [story EXCEPT
                            ![r].writes = @ + (IF decoded.status # 0 THEN 1 ELSE 0)
                                            + (IF goesOn THEN 1 ELSE 0),
                            ![r].unjudged = goesOn /\ raw \in Failures]
          BY <4>2 DEF Create
        <5> DEFINE err == Classify(raw)
                   inserted == IF err = <<>> THEN 201
                               ELSE IF Is(err, "ErrUniqueViolation") THEN 409 ELSE 500
                   status == IF decoded.status # 0 THEN decoded.status ELSE inserted
        <5>2. status \in Statuses
          BY DecodeAnswers DEF Statuses
        <5>3. answer' = [answer EXCEPT ![r].status = status]
          BY <5>1
        <5> HIDE DEF status
        <5> QED BY <5>2, <5>3
      <4> QED BY <1>8, <4>1, <4>2
    <3>2. PICK had \in Answers(w) : had = answer[r]
      BY DEF Details
    <3> DEFINE said == [had EXCEPT !.status = status]
    <3>3. said \in Answers(w)
      BY FieldTyped
    <3>4. answer' = [answer EXCEPT ![r] = said]
      BY <3>1, <3>2 DEF Details
    <3> HIDE DEF said
    <3> QED BY <3>3, <3>4 DEF Details
  <2>5. story' \in [Requests -> Stories]
    <3>1. DOMAIN story = Requests
      BY DEF Details
    <3>2. PICK was \in Stories : was = story[r]
      BY DEF Details
    <3>3. was.writes \in Nat
      BY DEF Stories
    <3>4. CASE Show(r)
      <4> DEFINE writes == was.writes + 1
                 told == [was EXCEPT !.writes = writes]
      <4>1. story' = [story EXCEPT ![r] = told]
        BY <3>1, <3>2, <3>4 DEF Show
      <4>2. writes \in Nat
        BY <3>3
      <4> HIDE DEF writes
      <4>3. told \in Stories
        BY <4>2, StoryTyped
      <4> HIDE DEF told
      <4> QED BY <4>1, <4>3 DEF Details
    <3>5. CASE Create(r)
      <4> DEFINE decoded == DecodeJSON(ask[r].body)
                 goesOn == decoded.err = <<>>
      <4>1. PICK raw :
              story' = [story EXCEPT
                          ![r].writes = @ + (IF decoded.status # 0 THEN 1 ELSE 0)
                                          + (IF goesOn THEN 1 ELSE 0),
                          ![r].unjudged = goesOn /\ raw \in Failures]
        BY <3>5 DEF Create
      <4> DEFINE writes == was.writes + (IF decoded.status # 0 THEN 1 ELSE 0) + (IF goesOn THEN 1 ELSE 0)
                 unjudged == goesOn /\ raw \in Failures
                 told1 == [was EXCEPT !.writes = writes]
                 told == [told1 EXCEPT !.unjudged = unjudged]
      <4>2. writes \in Nat
        BY <3>3
      <4>3. unjudged \in BOOLEAN
        OBVIOUS
      <4>4. story' = [story EXCEPT ![r].writes = writes, ![r].unjudged = unjudged]
        BY <3>1, <3>2, <4>1
      <4> HIDE DEF writes, unjudged
      <4>5. story' = [story EXCEPT ![r] = told]
        BY <3>1, <3>2, <4>4
      <4>6. told1 \in Stories
        BY <4>2, StoryTyped
      <4> HIDE DEF told1
      <4>7. told \in Stories
        BY <4>3, <4>6, StoryTyped
      <4> HIDE DEF told
      <4> QED BY <4>5, <4>7 DEF Details
    <3> QED BY <1>8, <3>4, <3>5
  <2> QED BY <1>1, <2>1, <2>3, <2>4, <2>5 DEF Details, Principals
<1> QED BY <1>2, <1>3, <1>4, <1>5, <1>6, <1>7, <1>8 DEF Next

-----------------------------------------------------------------------------
(***************************************************************************)
(* The invariant.                                                          *)
(***************************************************************************)

LEMMA InitKeeps == Init => PInv
<1> SUFFICES ASSUME Init PROVE PInv
  OBVIOUS
<1>1. \A r \in Requests :
        /\ ask[r] = None /\ depth[r] = 1 /\ answer[r] = NoAnswer /\ story[r] = NoStory
        /\ \A k \in Keys : ctx[r][k] = None
  BY DEF Init
<1>2. Types
  <2>1. Base
    BY PipelineAssumption DEF Init, Base
  <2>2. \A r \in Requests : ctx[r] \in [Keys -> Principals]
    <3>1. None \in Principals
      BY DEF Principals
    <3> QED BY <3>1 DEF Init
  <2>3. /\ DOMAIN ctx = Requests /\ DOMAIN answer = Requests
        /\ DOMAIN live = Requests /\ DOMAIN story = Requests
    BY DEF Init
  <2> QED BY <1>1, <2>1, <2>2, <2>3 DEF Types
<1>3. Serving
  BY <1>1 DEF Init, Serving
<1>4. ASSUME NEW r \in Requests PROVE Fine(r)
  <2>1. ~Routed(r)
    BY <1>1 DEF Routed
  <2>2. /\ answer[r].status = 0 /\ ~answer[r].challenge /\ ~answer[r].retry
        /\ ~story[r].unjudged /\ story[r].writes = 0
    BY <1>1 DEF NoAnswer, NoStory
  <2>3. Fresh(r) /\ Unrouted(r) /\ Granted(r)
    BY <1>1 DEF Fresh, Unrouted, Granted
  <2>4. Walks(r) /\ Known(r) /\ Introduced(r) /\ Entitled(r)
    BY <2>1 DEF Walks, Known, Introduced, Entitled
  <2>5. Judged(r) /\ Written(r)
    BY <2>2 DEF Judged, Written, Answered
  <2> QED BY <2>3, <2>4, <2>5 DEF Fine
<1>5. Inserted
  <2>1. \A r \in Requests : answer[r].status # 201
    BY <1>1 DEF NoAnswer
  <2> QED BY <2>1 DEF Init, Inserted
<1>6. Budgeted
  <2>1. ASSUME NEW c \in Callers \ {None}
        PROVE  IsFiniteSet(Took(c)) /\ Cardinality(Took(c)) <= spent[c]
    <3>1. Took(c) = {}
      BY <1>1 DEF Took, Routed
    <3>2. IsFiniteSet(Took(c)) /\ Cardinality(Took(c)) = 0
      BY <3>1, FS_EmptySet
    <3>3. spent[c] = 0
      BY DEF Init
    <3> QED BY <3>2, <3>3
  <2> QED BY <2>1 DEF Budgeted
<1> QED BY <1>2, <1>3, <1>4, <1>5, <1>6 DEF PInv

LEMMA StepKeeps ==
  ASSUME PInv, \A q \in Requests : Lookup(q), [Next]_vars
  PROVE  PInv'
<1>1. PInv /\ [Next]_vars
  OBVIOUS
<1>2. CASE Wire
  BY <1>1, <1>2, WireKeeps
<1>3. ASSUME NEW s \in Secrets, Issue(s) \/ Revoke(s) PROVE PInv'
  BY <1>1, <1>3, RowsKeep
<1>4. ASSUME NEW r \in Requests, NEW a \in Asks, ServeHTTP(r, a) PROVE PInv'
  BY <1>1, <1>4, ServeKeeps
<1>5. ASSUME NEW r \in Requests, NEW q \in Requests, NEW a \in Asks, Cached(r, q, a) PROVE PInv'
  BY <1>1, <1>5, CachedKeeps
<1>6. ASSUME NEW r \in Requests, BearerMissing(r) PROVE PInv'
  BY <1>1, <1>6, BearerMissingKeeps
<1>7. ASSUME NEW r \in Requests, BearerAsks(r) PROVE PInv'
  <2>1. /\ w' = w /\ UNCHANGED <<ask, depth, ctx, answer, names, spent, live, story>>
        /\ rows' = rows /\ wired' = wired
    BY <1>7 DEF BearerAsks, wiring, shared
  <2>2. /\ rows' \in [Secrets -> {"none", "live", "gone"}]
        /\ wired' \in {"unwired", "panicked", "refused", "serving"}
    BY <1>1, <2>1 DEF PInv, Types, Base
  <2>3. Serving'
    BY <1>1, <2>1 DEF PInv, Serving
  <2> QED BY <1>1, <2>1, <2>2, <2>3, AllStand
<1>15. ASSUME NEW r \in Requests, BearerAnswers(r) PROVE PInv'
  BY <1>1, <1>15, BearerAnswersKeeps
<1>8. ASSUME NEW r \in Requests, RightUnavailable(r) PROVE PInv'
  BY <1>1, <1>8, RightUnavailableKeeps
<1>9. ASSUME NEW r \in Requests, RightJudged(r) PROVE PInv'
  BY <1>1, <1>9, RightJudgedKeeps
<1>10. ASSUME NEW r \in Requests, Unmetered(r) PROVE PInv'
  BY <1>1, <1>10, UnmeteredKeeps
<1>11. ASSUME NEW r \in Requests, Metered(r) PROVE PInv'
  BY <1>1, <1>11, MeteredKeeps
<1>12. ASSUME NEW r \in Requests, Show(r) PROVE PInv'
  BY <1>1, <1>12, ShowKeeps
<1>13. ASSUME NEW r \in Requests, Create(r) PROVE PInv'
  BY <1>1, <1>13, CreateKeeps
<1>14. CASE Quiet \/ UNCHANGED vars
  <2>1. /\ w' = w /\ UNCHANGED <<ask, depth, ctx, answer, names, spent, live, story>>
        /\ rows' = rows /\ wired' = wired
    BY <1>14 DEF Quiet, vars
  <2>2. /\ rows' \in [Secrets -> {"none", "live", "gone"}]
        /\ wired' \in {"unwired", "panicked", "refused", "serving"}
    BY <1>1, <2>1 DEF PInv, Types, Base
  <2>3. Serving'
    BY <1>1, <2>1 DEF PInv, Serving
  <2> QED BY <1>1, <2>1, <2>2, <2>3, AllStand
<1> QED BY <1>1, <1>2, <1>3, <1>4, <1>5, <1>6, <1>7, <1>8, <1>9, <1>10, <1>11, <1>12, <1>13, <1>14, <1>15 DEF Next

Invariant == PInv /\ Details /\ \A r \in Requests : Lookup(r)

LEMMA InitInvariant == Init => Invariant
<1> SUFFICES ASSUME Init PROVE Invariant
  OBVIOUS
<1>1. PInv
  BY InitKeeps
<1>2. Details
  <2>1. NoAnswer \in Answers(w) /\ NoStory \in Stories /\ None \in Principals
    BY DEF NoAnswer, Answers, NoStory, Stories, Principals
  <2> QED BY <2>1 DEF Init, Details
<1>3. ASSUME NEW r \in Requests PROVE Lookup(r)
  BY DEF Init, Lookup, InFlight
<1> QED BY <1>1, <1>2, <1>3 DEF Invariant

\* What is said of every request, of its lookups, of the names and of the
\* budgets holds in every state a service reaches.
THEOREM PipelineInvariance == Spec => []Invariant
<1>1. Invariant /\ [Next]_vars => Invariant'
  BY StepKeeps, LookupsKeep, DetailsKeep DEF Invariant
<1> QED BY <1>1, InitInvariant, PTL DEF Spec

LEMMA Inductive == Spec => []PInv
<1>1. Invariant => PInv
  BY DEF Invariant
<1> QED BY <1>1, PipelineInvariance, PTL

\* Every variable of a service keeps its type, and no budget is overdrawn.
THEOREM TypeCorrect == Spec => []TypeOK
<1>1. Invariant => TypeOK
  BY DEF Invariant, PInv, Types, Base, Details, TypeOK
<1> QED BY <1>1, PipelineInvariance, PTL

-----------------------------------------------------------------------------
(***************************************************************************)
(* What it promises.                                                       *)
(***************************************************************************)

\* A route that opens a method names it, GET's HEAD excepted.
LEMMA NamesWhatItOpens ==
  ASSUME NEW route, Check(route), NEW m, NEW p, <<m, p>> \in Opens(route)
  PROVE  /\ route.method = m \/ (route.method = "GET" /\ m = "HEAD")
         /\ route.pattern \in Rooted /\ route.handler # "nil"
<1>1. m \in Reached(route.method) /\ route.method \notin Unnamed
  BY DEF Opens, Check
<1>2. CASE route.method = "GET"
  BY <1>1, <1>2 DEF Reached, Check
<1>3. CASE route.method # "GET"
  BY <1>1, <1>3 DEF Reached, Check
<1> QED BY <1>2, <1>3

\* The question of a, asked again under a method.
Again(v, a, m) == TableAnswer(v, [a EXCEPT !.method = m, !.preflight = TRUE])

\* A wiring that came to serve answers each method of a path it knows the way
\* the Allow it writes for that path says.
LEMMA AllowIsExact ==
  ASSUME NEW v \in Wirings, Wired(v) = "serving", NEW a \in Asks, NEW m \in Methods,
         Allow(v, a.path) # {}
  PROVE  LET allow == Answering(v, Allow(v, a.path))
         IN  /\ m \in allow => Again(v, a, m).status \notin {404, 405}
             /\ Again(v, a, m).status \notin {404, 405} => m \in allow \cup {"HEAD"}
<1> DEFINE b == [a EXCEPT !.method = m, !.preflight = TRUE]
           again == TableAnswer(v, b)
<1>1. b.method = m /\ b.path = a.path /\ b.preflight = TRUE
  BY AskAssumption
<1> HIDE DEF b
<1>2. /\ DOMAIN again = DOMAIN NoAnswer
      /\ again.status \in {0, 204, 404, 405}
      /\ again.status = 0 <=> Match(v, b.method, b.path) # 0
      /\ again.challenge = FALSE /\ again.retry = FALSE
      /\ again.grant = IF v.front /\ Lists(v, b.origin) THEN b.origin ELSE None
      /\ v.front => again.vary
      /\ again.methods # {} => again.status = 204 /\ Lists(v, b.origin)
      /\ again.status = 404 => Allow(v, b.path) = {}
      /\ again.status = 204 => v.granting /\ IsPreflight(b)
      /\ again.status = 405 =>
            /\ Allow(v, b.path) # {}
            /\ again.allow = Answering(v, Allow(v, b.path))
            /\ ~(v.granting /\ IsPreflight(b))
  BY TableAnswers, ZenonT(60)
<1> HIDE DEF again
<1>3. /\ again.status \in {0, 204, 405}
      /\ (again.status = 0) <=> (Match(v, m, a.path) # 0)
      /\ again.status = 204 => v.granting /\ m = "OPTIONS"
      /\ again.status = 405 => ~(v.granting /\ m = "OPTIONS")
  BY <1>1, <1>2 DEF IsPreflight
<1>4. ASSUME m \in Answering(v, Allow(v, a.path)) PROVE again.status \notin {404, 405}
  BY <1>3, <1>4 DEF Answering, Allow
<1>5. ASSUME again.status \notin {404, 405}
      PROVE  m \in Answering(v, Allow(v, a.path)) \cup {"HEAD"}
  <2>1. CASE again.status = 204
    BY <1>3, <2>1 DEF Answering
  <2>2. CASE again.status = 0
    <3>1. Match(v, m, a.path) # 0
      BY <1>3, <2>2
    <3>2. PICK i \in DOMAIN v.routes : <<m, a.path>> \in Opens(v.routes[i])
      BY <3>1, MatchOpens
    <3>3. v.routes[i].method = m \/ m = "HEAD"
      BY <3>2, ServedTable, NamesWhatItOpens
    <3>4. m \in Allow(v, a.path) \/ m = "HEAD"
      BY <3>1, <3>3 DEF Allow, Named
    <3> QED BY <3>4 DEF Answering
  <2> QED BY <1>3, <1>5, <2>1, <2>2
<1> QED BY <1>4, <1>5 DEF Again, again, b

\* TableIsHonest, for any wirings of any routes: from no two routes of a table
\* that serves being in conflict.
THEOREM HonestTable == Spec => []TableIsHonest
<1>1. PInv => TableIsHonest
  <2> SUFFICES ASSUME PInv, NEW r \in Requests
               PROVE  /\ Routed(r) =>
                          /\ \/ Route(r).method = ask[r].method
                             \/ Route(r).method = "GET" /\ ask[r].method = "HEAD"
                          /\ Route(r).pattern \in Rooted
                          /\ Route(r).handler # "nil"
                      /\ answer[r].status = 405 =>
                          \A m \in Methods :
                              LET again == TableAnswer(w, [ask[r] EXCEPT !.method = m, !.preflight = TRUE])
                              IN  /\ m \in answer[r].allow => again.status \notin {404, 405}
                                  /\ again.status \notin {404, 405} => m \in answer[r].allow \cup {"HEAD"}
    BY DEF TableIsHonest
  <2>1. ASSUME Routed(r)
        PROVE  /\ \/ Route(r).method = ask[r].method
                  \/ Route(r).method = "GET" /\ ask[r].method = "HEAD"
               /\ Route(r).pattern \in Rooted
               /\ Route(r).handler # "nil"
    <3>1. Check(Route(r)) /\ <<ask[r].method, ask[r].path>> \in Opens(Route(r))
      BY <2>1, RouteServes
    <3> QED BY <3>1, NamesWhatItOpens
  <2>2. ASSUME answer[r].status = 405, NEW m \in Methods
        PROVE  LET again == TableAnswer(w, [ask[r] EXCEPT !.method = m, !.preflight = TRUE])
               IN  /\ m \in answer[r].allow => again.status \notin {404, 405}
                   /\ again.status \notin {404, 405} => m \in answer[r].allow \cup {"HEAD"}
    <3>1. ask[r] # None /\ Fine(r)
      BY <2>2 DEF PInv, Fine, Fresh, NoAnswer
    <3>2. ask[r] \in Asks /\ w \in Wirings /\ Wired(w) = "serving"
      BY <3>1 DEF PInv, Types, Base, Serving
    <3>3. Allow(w, ask[r].path) # {} /\ answer[r].allow = Answering(w, Allow(w, ask[r].path))
      BY <2>2, <3>1 DEF Fine, Granted
    <3>4. /\ m \in answer[r].allow => Again(w, ask[r], m).status \notin {404, 405}
          /\ Again(w, ask[r], m).status \notin {404, 405} => m \in answer[r].allow \cup {"HEAD"}
      BY <2>2, <3>2, <3>3, AllowIsExact
    <3> QED BY <3>4 DEF Again
  <2> QED BY <2>1, <2>2
<1> QED BY <1>1, Inductive, PTL

\* OutageIsNotVerdict, for any requests and tokens.
THEOREM VerdictsAreJudged == Spec => []OutageIsNotVerdict
<1>1. PInv => OutageIsNotVerdict
  <2> SUFFICES ASSUME PInv, NEW r \in Requests, Answered(r)
               PROVE  /\ (answer[r].status = 500) <=> story[r].unjudged
                      /\ answer[r].challenge <=> (answer[r].status = 401)
                      /\ answer[r].retry <=> (answer[r].status = 429)
                      /\ answer[r].status = 401 =>
                          LET text == Bearer(ask[r].header)
                          IN  text = None \/ Parse(text) = None \/ text.secret \notin live[r]
    BY DEF OutageIsNotVerdict
  <2>1. Judged(r)
    BY DEF PInv, Fine
  <2> QED BY <2>1 DEF Judged
<1> QED BY <1>1, Inductive, PTL

\* SpentInOrder, for chains of any length.
THEOREM SpendsInOrder == Spec => []SpentInOrder
<1>1. PInv => SpentInOrder
  <2> SUFFICES ASSUME PInv PROVE SpentInOrder
    OBVIOUS
  <2>1. ASSUME NEW r \in Requests, NEW i \in story[r].charged
        PROVE  1 .. (i - 1) \subseteq story[r].passed
    <3>1. Fine(r)
      BY DEF PInv
    <3>2. Routed(r)
      BY <2>1, <3>1 DEF Fine, Fresh, Unrouted, NoStory
    <3>3. story[r].passed = 1 .. (depth[r] - 1) /\ story[r].charged \subseteq story[r].passed
      BY <3>1, <3>2 DEF Fine, Walks
    <3>4. depth[r] \in Nat
      BY DEF PInv, Types, Base
    <3> QED BY <3>3, <3>4
  <2>2. ASSUME NEW r \in Requests, Handled(r)
        PROVE  story[r].passed = DOMAIN Route(r).chain
    <3>1. Routed(r) /\ depth[r] > Len(Chain(r))
      BY <2>2 DEF Handled, Chain
    <3>2. story[r].passed = 1 .. (depth[r] - 1) /\ depth[r] <= Len(Chain(r)) + 1
      BY <3>1 DEF PInv, Fine, Walks
    <3>3. depth[r] \in Nat
      BY DEF PInv, Types, Base
    <3>4. Len(Chain(r)) \in Nat /\ DOMAIN Chain(r) = 1 .. Len(Chain(r))
      BY <3>1, RouteServes
    <3> QED BY <3>1, <3>2, <3>3, <3>4 DEF Chain
  <2> QED BY <2>1, <2>2 DEF SpentInOrder
<1> QED BY <1>1, Inductive, PTL

\* GrantIsOwn, for any origins, answers of a cache included.
THEOREM GrantsItsOwn == Spec => []GrantIsOwn
<1>1. PInv => GrantIsOwn
  <2> SUFFICES ASSUME PInv, NEW r \in Requests, Answered(r)
               PROVE  /\ answer[r].grant =
                           IF w.front /\ Lists(w, ask[r].origin) THEN ask[r].origin ELSE None
                      /\ answer[r].methods # {} => Lists(w, ask[r].origin)
    BY DEF GrantIsOwn
  <2>1. ask[r] # None /\ Granted(r)
    BY DEF PInv, Fine, Fresh, NoAnswer, Answered
  <2> QED BY <2>1 DEF Granted
<1> QED BY <1>1, Inductive, PTL

\* AnsweredOnce, for any number of requests.
THEOREM AnswersOnce == Spec => []AnsweredOnce
<1>1. PInv => AnsweredOnce
  BY DEF PInv, Fine, Written, Inserted, AnsweredOnce
<1> QED BY <1>1, Inductive, PTL

\* What a request past the wraps of its route has shown of its text.
LEMMA BearerShown ==
  ASSUME PInv, NEW r \in Requests, Handled(r), NEW i \in Wraps(r, "bearer")
  PROVE  LET text == ask[r].header.text
             key  == Route(r).chain[i].key
         IN  /\ text # None /\ text.form = "issued" /\ text.secret \in live[r]
             /\ ctx[r][key] = Owner[key][text.secret]
             /\ Bearer(ask[r].header) = text
<1>1. Routed(r) /\ depth[r] > Len(Chain(r)) /\ depth[r] \in Nat
  BY DEF Handled, Chain, PInv, Types, Base
<1>2. Len(Chain(r)) \in Nat /\ DOMAIN Chain(r) = 1 .. Len(Chain(r))
  BY <1>1, RouteServes
<1>3. i \in 1 .. (depth[r] - 1) /\ Chain(r)[i].kind = "bearer"
  BY <1>1, <1>2 DEF Wraps, Chain
<1>4. Known(r)
  BY DEF PInv, Fine
<1>5. /\ Bearer(ask[r].header) # None /\ ask[r].header.text.form = "issued"
      /\ ctx[r][Chain(r)[i].key] = Owner[Chain(r)[i].key][ask[r].header.text.secret]
      /\ ask[r].header.text.secret \in live[r]
  BY <1>1, <1>3, <1>4 DEF Known
<1>6. Bearer(ask[r].header) = ask[r].header.text
  <2> DEFINE h == ask[r].header
  <2>1. Bearer(h) # None
    BY <1>5
  <2> HIDE DEF h
  <2>2. Bearer(h) = h.text
    BY <2>1, SMTT(30) DEF Bearer
  <2> QED BY <2>2 DEF h
<1> QED BY <1>5, <1>6 DEF Chain

\* ServedIsEntitled, for chains of any wraps in any order, under any keys.
THEOREM EntitledIsServed == Spec => []ServedIsEntitled
<1>1. PInv => ServedIsEntitled
  <2> SUFFICES ASSUME PInv, NEW r \in Requests, Handled(r)
               PROVE  LET text  == ask[r].header.text
                          chain == Route(r).chain
                      IN  /\ Wraps(r, "bearer") # {} =>
                              /\ text # None /\ text.form = "issued"
                              /\ text.secret \in live[r]
                          /\ \A i \in Wraps(r, "right") :
                              /\ \E j \in Wraps(r, "bearer") : j < i /\ chain[j].key = chain[i].key
                              /\ <<Owner[chain[i].key][text.secret], chain[i].right>> \in Rights
                          /\ \A i \in Wraps(r, "bearer") :
                              ctx[r][chain[i].key] = Owner[chain[i].key][text.secret]
    BY DEF ServedIsEntitled
  <2> DEFINE text == ask[r].header.text
             chain == Route(r).chain
  <2>1. Routed(r) /\ depth[r] > Len(Chain(r)) /\ depth[r] \in Nat
    BY DEF Handled, Chain, PInv, Types, Base
  <2>2. Len(Chain(r)) \in Nat /\ DOMAIN Chain(r) = 1 .. Len(Chain(r))
    BY <2>1, RouteServes
  <2>3. ASSUME NEW i \in Wraps(r, "right")
        PROVE  /\ \E j \in Wraps(r, "bearer") : j < i /\ chain[j].key = chain[i].key
               /\ <<Owner[chain[i].key][text.secret], chain[i].right>> \in Rights
    <3>1. i \in 1 .. Len(Chain(r)) /\ i \in 1 .. (depth[r] - 1) /\ Chain(r)[i].kind = "right"
      BY <2>1, <2>2 DEF Wraps, Chain
    <3>2. Entitled(r)
      BY DEF PInv, Fine
    <3>3. /\ \E j \in 1 .. (i - 1) : Chain(r)[j].kind = "bearer" /\ Chain(r)[j].key = Chain(r)[i].key
          /\ <<Owner[Chain(r)[i].key][text.secret], Chain(r)[i].right>> \in Rights
      BY <2>1, <3>1, <3>2 DEF Entitled
    <3>4. PICK j \in 1 .. (i - 1) : Chain(r)[j].kind = "bearer" /\ Chain(r)[j].key = Chain(r)[i].key
      BY <3>3
    <3>5. j \in DOMAIN Chain(r) /\ j < i
      BY <2>2, <3>1
    <3>6. j \in Wraps(r, "bearer")
      BY <3>4, <3>5 DEF Wraps, Chain
    <3> QED BY <3>3, <3>4, <3>5, <3>6 DEF Chain
  <2>4. \A i \in Wraps(r, "bearer") :
            /\ text # None /\ text.form = "issued" /\ text.secret \in live[r]
            /\ ctx[r][chain[i].key] = Owner[chain[i].key][text.secret]
    BY BearerShown
  <2> QED BY <2>3, <2>4, SMTT(30)
<1> QED BY <1>1, Inductive, PTL

\* OneBudgetPerToken, for any ceiling: the requests it counts all took a call
\* from the budget of one text, the one Issue wrote for that secret.
THEOREM BudgetsAreOfTokens == Spec => []OneBudgetPerToken
<1>1. PInv => OneBudgetPerToken
  <2> SUFFICES ASSUME PInv, NEW s \in Secrets
               PROVE  Cardinality({r \in Requests :
                          /\ Handled(r)
                          /\ Wraps(r, "bearer") # {}
                          /\ \E i \in Wraps(r, "meter") : Route(r).chain[i].by = "text"
                          /\ ask[r].header.text.secret = s}) <= Ceiling
    BY DEF OneBudgetPerToken
  <2> DEFINE served == {r \in Requests :
                          /\ Handled(r)
                          /\ Wraps(r, "bearer") # {}
                          /\ \E i \in Wraps(r, "meter") : Route(r).chain[i].by = "text"
                          /\ ask[r].header.text.secret = s}
             c == [secret |-> s, form |-> "issued"]
  <2>1. ASSUME NEW r \in served
        PROVE  r \in Took(c) /\ c \in Callers \ {None}
    <3>1. PICK i \in Wraps(r, "bearer") : TRUE
      OBVIOUS
    <3>2. /\ ask[r].header.text # None /\ ask[r].header.text.form = "issued"
          /\ Bearer(ask[r].header) = ask[r].header.text
      BY <3>1, BearerShown
    <3>3. Routed(r) /\ depth[r] > Len(Chain(r)) /\ depth[r] \in Nat
      BY DEF Handled, Chain, PInv, Types, Base
    <3>4. ask[r] \in Asks /\ Len(Chain(r)) \in Nat /\ DOMAIN Chain(r) = 1 .. Len(Chain(r))
      BY <3>3, RouteServes
    <3>5. ask[r].header.text = [secret |-> ask[r].header.text.secret, form |-> ask[r].header.text.form]
      BY <3>2, <3>4, AskAssumption
    <3>6. ask[r].header.text = c
      BY <3>2, <3>5
    <3>7. PICK j \in Wraps(r, "meter") : Route(r).chain[j].by = "text"
      OBVIOUS
    <3>8. j \in 1 .. (depth[r] - 1) /\ Chain(r)[j].kind = "meter" /\ Chain(r)[j].by = "text"
      BY <3>3, <3>4, <3>7 DEF Wraps, Chain
    <3> HIDE DEF c
    <3>9. r \in Took(c)
      BY <3>2, <3>3, <3>6, <3>8 DEF Took
    <3>10. c \in Callers \ {None}
      BY <3>2, <3>4, <3>6 DEF Callers
    <3> QED BY <3>9, <3>10
  <2> HIDE DEF served, c
  <2>2. CASE served = {}
    <3>1. Cardinality(served) = 0
      BY <2>2, FS_EmptySet
    <3> QED BY <3>1, PipelineAssumption DEF served
  <2>3. CASE served # {}
    <3>1. c \in Callers \ {None} /\ served \subseteq Took(c)
      BY <2>1, <2>3
    <3>2. IsFiniteSet(Took(c)) /\ Cardinality(Took(c)) <= spent[c]
      BY <3>1 DEF PInv, Budgeted
    <3>3. /\ Cardinality(served) <= Cardinality(Took(c))
          /\ Cardinality(served) \in Nat /\ Cardinality(Took(c)) \in Nat
      BY <3>1, <3>2, FS_Subset, FS_CardinalityType
    <3>4. spent[c] \in 0 .. Ceiling
      BY <3>1 DEF PInv, Types, Base
    <3>5. Cardinality(served) <= Ceiling
      BY <3>2, <3>3, <3>4, PipelineAssumption
    <3> QED BY <3>5 DEF served
  <2> QED BY <2>2, <2>3
<1> QED BY <1>1, Inductive, PTL

=============================================================================
