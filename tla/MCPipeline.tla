----------------------------- MODULE MCPipeline -----------------------------
(***************************************************************************)
(* Two requests in flight over the wirings a service may write, the wrong  *)
(* ones included.                                                          *)
(***************************************************************************)
EXTENDS Pipeline, TLC

CONSTANTS u1, u2, t  \* two users, and the tenant of both

MCCovers == ("/things" :> {"/things"}) @@ ("/{id}" :> {"/things", "/x"})
            @@ ("host/things" :> {"/things"})

\* The principals: a user to each token, and one tenant for both.
MCOwner == [user |-> [s1 |-> u1, s2 |-> u2], tenant |-> [s1 |-> t, s2 |-> t]]

\* The first user may read, and owns as the tenant does: under another key it
\* could be taken for one.
MCRights == {<<u1, "read">>, <<u1, "own">>, <<t, "own">>}

Auth(key)         == [kind |-> "bearer", key |-> key]
Demand(key, right) == [kind |-> "right", key |-> key, right |-> right]
Meter(by)         == [kind |-> "meter", by |-> by]
NilWrap           == [kind |-> "nil"]

To(method, pattern, chain, handler) ==
    [method |-> method, pattern |-> pattern, chain |-> chain, handler |-> handler]

Listed1 == [origin |-> "o1", carries |-> {"scheme", "host"}]
Header  == [names |-> "X-Id", carries |-> {"letter", "punctuation"}]

Wiring(granting, front, routes) ==
    [granting |-> granting, front |-> front, routes |-> routes,
     origins |-> IF granting \/ front THEN {Listed1} ELSE {},
     headers |-> IF granting \/ front THEN {Header} ELSE {}]

Good == {
    \* The order the repository's README lists: bearer, right, meter.
    Wiring(TRUE, TRUE,
        << To("GET", "/things", <<Auth("user"), Auth("tenant"), Demand("user", "read"), Meter("user")>>, "show"),
           To("POST", "/things", <<Meter("text"), Auth("user")>>, "create") >>),
    \* A meter before the right, an uncovered route, and a more specific one.
    Wiring(FALSE, FALSE,
        << To("GET", "/{id}", <<Meter("user")>>, "show"),
           To("POST", "/things", <<Auth("tenant"), Meter("tenant"), Demand("tenant", "own")>>, "create"),
           To("HEAD", "/things", <<>>, "show") >>),
    \* A right before its bearer, and one demanded under another key.
    Wiring(TRUE, FALSE,
        << To("GET", "/things", <<Demand("user", "read"), Auth("user")>>, "show"),
           To("GET", "/{id}", <<Auth("user"), Demand("tenant", "own")>>, "show") >>),
    \* Behind a front wrap: OPTIONS named by the service, and a public route.
    Wiring(TRUE, TRUE,
        << To("OPTIONS", "/things", <<>>, "show"), To("GET", "/{id}", <<>>, "show"),
           To("POST", "/{id}", <<Auth("user"), Meter("text")>>, "create") >>) }

Wrong == {
    Wiring(FALSE, FALSE, << To(" ", "/things", <<>>, "show") >>),
    Wiring(FALSE, FALSE, << To("GET", "host/things", <<>>, "show") >>),
    Wiring(FALSE, FALSE, << To("GET", "/things", <<>>, "nil") >>),
    Wiring(FALSE, FALSE, << To("GET", "/things", <<NilWrap>>, "show") >>),
    Wiring(FALSE, FALSE, << To("GET", "/things", <<>>, "show"), To("HEAD", "/{id}", <<>>, "show") >>),
    [Wiring(TRUE, TRUE, << To("GET", "/things", <<>>, "show") >>) EXCEPT
        !.origins = {[origin |-> "o1", carries |-> {"scheme", "host", "path"}]}],
    [Wiring(TRUE, TRUE, << To("GET", "/things", <<>>, "show") >>) EXCEPT
        !.headers = {[names |-> "X-Id, X-Other", carries |-> {"letter", "comma"}]}] }

MCWirings == Good \cup Wrong

NoHeader == [scheme |-> "none", blank |-> FALSE, text |-> None]
Text(secret, form) == [secret |-> secret, form |-> form]
Bears(secret, form) == [scheme |-> "bearer", blank |-> FALSE, text |-> Text(secret, form)]

Asking(method, path, header) ==
    [method |-> method, path |-> path, header |-> header, origin |-> None,
     preflight |-> FALSE, body |-> "one", name |-> "n1"]

MCAsks == {
    Asking("GET", "/things", Bears("s1", "issued")),
    Asking("GET", "/things", Bears("s2", "issued")),
    [Asking("GET", "/things", Bears("s1", "stored")) EXCEPT !.origin = "o2"],
    Asking("GET", "/things", [scheme |-> "basic", blank |-> FALSE, text |-> Text("s1", "issued")]),
    Asking("HEAD", "/things", [Bears("s1", "issued") EXCEPT !.blank = TRUE]),
    Asking("GET", "/x", Bears("s1", "issued")),
    Asking("GET", "/x", NoHeader),
    [Asking("GET", "/x", NoHeader) EXCEPT !.origin = "o1"],
    [Asking("GET", "/x", NoHeader) EXCEPT !.origin = "o2"],
    Asking("POST", "/things", Bears("s1", "issued")),
    Asking("POST", "/things", Bears("s1", "loose")),
    [Asking("POST", "/things", Bears("s2", "issued")) EXCEPT !.body = "two"],
    [Asking("POST", "/things", Bears("s2", "issued")) EXCEPT !.body = "trailing"],
    [Asking("POST", "/x", Bears("s2", "issued")) EXCEPT !.body = "torn"],
    [Asking("OPTIONS", "/things", NoHeader) EXCEPT !.preflight = TRUE, !.origin = "o1"],
    [Asking("OPTIONS", "/x", NoHeader) EXCEPT !.preflight = TRUE, !.origin = "o2"],
    Asking("OPTIONS", "/x", NoHeader) }

Symmetry == Permutations(Requests)

=============================================================================
