SPECIFICATION Spec
CONSTANTS
    Ping = Ping
    Stubborn = Stubborn
    Up1 = Up1
    Up2 = Up2
    Checks = {Ping, Stubborn}
    Honouring = {Ping}
    Postgres = Ping
    Environments <- MCEnvironments
    Telemetries <- MCTelemetries
    Pools <- MCPools
    Milli = 2
    MaxInt32 = 4
    DefaultStatementTimeout = 6
    Commands = {Up1, Up2}
    Arguments <- MCArguments
    Latest = 2
    Nobody = Nobody
INVARIANTS
    NoQuietFallback
    NothingLeftOpen
    ProbeVerdict
    NilMeansApplied
PROPERTIES
    ExitsBounded
    ProbesAnswered
