----------------------------- MODULE MCProcess -----------------------------
(***************************************************************************)
(* A service that reads one setting of each kind, right and wrong, with    *)
(* two checks of which one does not honour its context; and two migrating  *)
(* commands over two migrations.                                           *)
(***************************************************************************)
EXTENDS Process, TLC

CONSTANTS Ping, Stubborn, Up1, Up2

MCReads(fallback) ==
    [DATABASE_URL |-> [kind |-> "required", fallback |-> 0],
     ADDR         |-> [kind |-> "string", fallback |-> 1],
     RETRIES      |-> [kind |-> "int", fallback |-> 1],
     BURST        |-> [kind |-> "between", lo |-> 1, hi |-> 3, fallback |-> fallback],
     ORIGINS      |-> [kind |-> "list", fallback |-> 1],
     TIMEOUT      |-> [kind |-> "duration", fallback |-> 1]]

Unset  == [set |-> FALSE, parses |-> FALSE, n |-> 0]
Says(n) == [set |-> TRUE, parses |-> TRUE, n |-> n]
Typo   == [set |-> TRUE, parses |-> FALSE, n |-> 0]

Holds(url, addr, retries, burst, origins, timeout) ==
    [DATABASE_URL |-> url, ADDR |-> addr, RETRIES |-> retries, BURST |-> burst,
     ORIGINS |-> origins, TIMEOUT |-> timeout]

MCEnvironments ==
    {[reads |-> MCReads(2), raw |-> raw] : raw \in
        {Holds(Says(7), Unset, Unset, Unset, Unset, Unset),
         Holds(Says(7), Says(4), Says(5), Says(3), Says(6), Says(2)),
         Holds(Unset, Unset, Unset, Says(0), Unset, Unset),
         Holds(Says(7), Unset, Typo, Typo, Unset, Unset),
         Holds(Says(7), Unset, Unset, Says(4), Typo, Typo)}}
    \cup {[reads |-> MCReads(4), raw |-> Holds(Says(7), Unset, Unset, Says(2), Unset, Unset)]}

Nowhere == [set |-> FALSE, parses |-> TRUE, scheme |-> "", host |-> FALSE, carries |-> {}]
At(scheme, host, carries) ==
    [set |-> TRUE, parses |-> TRUE, scheme |-> scheme, host |-> host, carries |-> carries]

Labelled(readers, endpoint) == [named |-> TRUE, readers |-> readers, endpoint |-> endpoint]

MCTelemetries == {
    Labelled({"prometheus"}, Nowhere), Labelled({}, At("http", TRUE, {})),
    Labelled({"nil"}, Nowhere),
    [named |-> FALSE, readers |-> {}, endpoint |-> Nowhere],
    Labelled({}, At("", FALSE, {})), Labelled({}, At("https", TRUE, {"query"})) }

BoundBy(d) == [kind |-> "bound", d |-> d]
Opens(options) == [parses |-> TRUE, options |-> options]

MCPools == {
    Opens(<<>>), Opens(<<[kind |-> "conns", d |-> 0], BoundBy(2)>>),
    Opens(<<BoundBy(0), [kind |-> "unbound", d |-> 0]>>),
    Opens(<<[kind |-> "unbound", d |-> 0], BoundBy(1)>>),
    Opens(<<BoundBy(-4)>>), Opens(<<BoundBy(10)>>),
    [parses |-> FALSE, options |-> <<>>] }

MCArguments == {
    [name |-> "up", count |-> 1, steps |-> 0], [name |-> "version", count |-> 1, steps |-> 0],
    [name |-> "down", count |-> 2, steps |-> 1], [name |-> "down", count |-> 2, steps |-> 2],
    [name |-> "down", count |-> 2, steps |-> 0], [name |-> "down", count |-> 1, steps |-> 0] }

=============================================================================
