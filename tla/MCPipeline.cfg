SPECIFICATION Spec
CONSTANTS
    Patterns = {"/things", "/{id}", "host/things"}
    Rooted = {"/things", "/{id}"}
    Covers <- MCCovers
    None = None
    Requests = {r1, r2}
    Wirings <- MCWirings
    Asks <- MCAsks
    Secrets = {"s1", "s2"}
    Keys = {"user", "tenant"}
    Owner <- MCOwner
    Rights <- MCRights
    u1 = u1
    u2 = u2
    t = t
    Ceiling = 1
SYMMETRY Symmetry
INVARIANTS
    TableIsHonest
    ServedIsEntitled
    OutageIsNotVerdict
    SpentInOrder
    OneBudgetPerToken
    GrantIsOwn
    AnsweredOnce
