SPECIFICATION Spec
CONSTANTS
    Calls = {c1, c2, c3}
    Places = 2
    Plaintexts = {p}
    Nothing = Nothing
    Flipped = Flipped
    Costs <- MCCosts
    Cost = 2
    Old = Old
INVARIANTS
    PlacesAreHeld
    VerifiesItsOwn
    MismatchIsCompared
PROPERTY IsABudget
