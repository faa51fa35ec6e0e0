SPECIFICATION Spec
CONSTANTS
    Calls = {c1, c2, c3}
    Readings <- MCReadings
    Frac = 4
    Millis = 4
    Word = 32
    Sizes = {1, 2}
    Alien <- MCAlien
SYMMETRY Symmetry
INVARIANTS
    AheadByOne
    NoRepeat
    CursorAccepted
    NoneLost
    NothingNewer
PROPERTY MintsUpward
