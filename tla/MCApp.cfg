CONSTANTS
    N = 3
    Pairs <- MCPairs
SPECIFICATION Spec
INVARIANTS
    NothingOutlivesRun
    ErrorsJoined
PROPERTIES
    OneBringsDownAll
    IsARunner
