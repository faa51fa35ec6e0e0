------------------------------- MODULE Router -------------------------------
(***************************************************************************)
(* The table of transport/http and the origin policy beside it: what       *)
(* NewRouter, GrantOrigins and Chain accept at wiring, and what a request  *)
(* meets before any wrap on a handler runs.                                *)
(*                                                                         *)
(* Nothing here keeps state past wiring, so the module is operators over a *)
(* wiring w: its origin policy (origins, headers, and whether the service  *)
(* wrote Wrap in front and built the table with Grant.Router), and its     *)
(* routes.  Which pattern matches which path is http.ServeMux's; the       *)
(* module relies on Covers for it, and on ServeMux taking the most         *)
(* specific match and panicking on two routes none of which is.            *)
(***************************************************************************)
EXTENDS Naturals, Sequences, FiniteSets, FiniteSetsExt

CONSTANTS Patterns,  \* the patterns a route may carry
          Rooted,    \* those that start with "/"; ServeMux reads a host off the others
          Covers,    \* the paths each of them matches
          None       \* no origin, no text, no principal

ASSUME RouterAssumption == Rooted \subseteq Patterns

\* The methods a request comes with.
Methods == {"GET", "HEAD", "POST", "OPTIONS"}

\* What a route may carry in front of its pattern that names no method.
Unnamed == {"", " "}

-----------------------------------------------------------------------------
(***************************************************************************)
(* http.ServeMux.                                                          *)
(***************************************************************************)

\* A missing method opens every method, a blank one too, and GET opens HEAD.
Reached(method) ==
    CASE method \in Unnamed -> Methods
      [] method = "GET"     -> {"GET", "HEAD"}
      [] OTHER              -> {method}

Opens(route) == Reached(route.method) \X Covers[route.pattern]

\* Two routes that open a request in common, neither of them the more specific.
Conflict(r, s) ==
    /\ Opens(r) \cap Opens(s) # {}
    /\ Opens(r) = Opens(s) \/ ~(Opens(r) \subseteq Opens(s) \/ Opens(s) \subseteq Opens(r))

\* The routes that open the request, and the most specific of them: 0 where
\* the answer would be one of ServeMux's own.
Match(w, method, path) ==
    LET open == {i \in DOMAIN w.routes : <<method, path>> \in Opens(w.routes[i])}
        best == {i \in open : \A j \in open : Opens(w.routes[i]) \subseteq Opens(w.routes[j])}
    IN  IF open = {} THEN 0 ELSE CHOOSE i \in best : TRUE

-----------------------------------------------------------------------------
(***************************************************************************)
(* Wiring.                                                                 *)
(***************************************************************************)

\* A check of the missing method alone, not of one made of blanks.
CheckNoBlank(route) ==
    /\ route.method # ""
    /\ route.pattern \in Rooted
    /\ route.handler # "nil"

\* check: a method, no blank in it, a pattern that starts with /, a handler.
Check(route) ==
    /\ route.method \notin Unnamed
    /\ route.pattern \in Rooted
    /\ route.handler # "nil"

\* checkOrigin: no wildcard, and nothing but a scheme and a host.
CheckOrigin(entry) ==
    /\ "*" \notin entry.carries
    /\ entry.carries \ {"*"} = {"scheme", "host"}

\* checkRequestHeader: one header name, of the characters of a token.
CheckRequestHeader(entry) ==
    /\ entry.carries # {}
    /\ entry.carries \subseteq {"letter", "digit", "punctuation"}

\* What becomes of a wiring: Chain panics on a nil wrap as the routes are
\* written, GrantOrigins refuses a list, and newRouter takes the routes in
\* order, refusing the first that Check does and panicking, inside ServeMux,
\* on the first that conflicts with one before it.
Wired(w) ==
    LET refused  == {i \in DOMAIN w.routes : ~Check(w.routes[i])}
        panicked == {i \in DOMAIN w.routes :
                        \E j \in 1 .. (i - 1) : Conflict(w.routes[i], w.routes[j])}
        first    == Min(refused \cup panicked)
    IN  IF \E i \in DOMAIN w.routes : \E k \in DOMAIN w.routes[i].chain :
               w.routes[i].chain[k].kind = "nil"
        THEN "panicked"
        ELSE IF \/ \E o \in w.origins : ~CheckOrigin(o)
                \/ \E h \in w.headers : ~CheckRequestHeader(h)
                \/ refused # {} /\ first \in refused
        THEN "refused"
        ELSE IF panicked # {} THEN "panicked" ELSE "serving"

\* The order the loop of Chain leaves the wraps in: the last one it puts on
\* is met first, had it run upwards.
ComposeUpward(chain) == [d \in DOMAIN chain |-> Len(chain) + 1 - d]

\* Chain's loop runs from the last wrap down to the first, each turn putting
\* one around what the turns before it built: turn t puts on wrap
\* Len + 1 - t, and the wrap met at depth d is the one put on d turns from
\* the end.
Compose(chain) ==
    LET turn == [t \in DOMAIN chain |-> Len(chain) + 1 - t]
    IN  [d \in DOMAIN chain |-> turn[Len(chain) + 1 - d]]

-----------------------------------------------------------------------------
(***************************************************************************)
(* A request at the table.                                                 *)
(***************************************************************************)

\* router.methods: every method the table names anywhere.
Named(w) == {w.routes[i].method : i \in DOMAIN w.routes}

\* allow: the methods named anywhere that a request for path would be served
\* under.
Allow(w, path) == {m \in Named(w) : Match(w, m, path) # 0}

\* answering: OPTIONS beside them on a table that answers preflights.
Answering(w, allow) == IF w.granting THEN allow \cup {"OPTIONS"} ELSE allow

Lists(w, origin) == origin \in {o.origin : o \in w.origins}

\* isPreflight: an OPTIONS that carries Access-Control-Request-Method.
IsPreflight(ask) == ask.method = "OPTIONS" /\ ask.preflight

NoAnswer == [status |-> 0, challenge |-> FALSE, retry |-> FALSE, allow |-> {},
             vary |-> FALSE, grant |-> None, methods |-> {}, headers |-> {}]

\* The dependency on the origin declared with a grant, and not without.
WrapOfGranted(w, ask) ==
    IF w.front /\ Lists(w, ask.origin)
    THEN [NoAnswer EXCEPT !.vary = TRUE, !.grant = ask.origin]
    ELSE NoAnswer

\* Wrap, where the service wrote it in front: the headers every answer then
\* carries, whatever status the table answers with.
Wrap(w, ask) ==
    IF ~w.front THEN NoAnswer
    ELSE [NoAnswer EXCEPT !.vary = TRUE,
                          !.grant = IF Lists(w, ask.origin) THEN ask.origin ELSE None]

\* preflight: 204 to everyone, and to a listed origin the methods the path
\* names and the headers the service listed.
Preflight(w, ask) ==
    LET answer == [Wrap(w, ask) EXCEPT !.status = 204]
    IN  IF Lists(w, ask.origin)
        THEN [answer EXCEPT !.methods = Allow(w, ask.path),
                            !.headers = {h.names : h \in w.headers}]
        ELSE answer

\* The table's own answer to a request no route of it names: status 0 when a
\* route does, and its handler answers instead.
TableAnswer(w, ask) ==
    LET allow == Allow(w, ask.path)
    IN  IF Match(w, ask.method, ask.path) # 0 THEN Wrap(w, ask)
        ELSE IF allow = {} THEN [Wrap(w, ask) EXCEPT !.status = 404]
        ELSE IF w.granting /\ IsPreflight(ask) THEN Preflight(w, ask)
        ELSE [Wrap(w, ask) EXCEPT !.status = 405, !.allow = Answering(w, allow)]

=============================================================================
