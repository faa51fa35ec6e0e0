CONSTANTS
    Requests = {r1, r2, r3, r4, r5}
    Keys = {k1, k2}
    NoKey = NoKey
    NoWindow = NoWindow
    Ceiling = 2
    Window = 3
    Second = 2
    MaxClock = 6
SPECIFICATION Spec
SYMMETRY Symmetry
INVARIANTS
    DelayBounded
    PromiseKept
    PromiseTight
    InOrderCeiling
    HeldIsRecent
PROPERTY BudgetKept
