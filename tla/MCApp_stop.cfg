CONSTANTS
    N = 3
    Pairs <- MCPairs
SPECIFICATION Spec
INVARIANT StopsOnlyTheRunning
