CONSTANTS
    Requests = {r1, r2, r3}
    Keys = {k1, k2}
    NoKey = NoKey
    NoWindow = NoWindow
    Ceiling = 1
    Window = 3
    Second = 2
    MaxClock = 4
SPECIFICATION Spec
INVARIANT WindowCeiling
