SPECIFICATION Spec
CONSTANTS
    c1 = c1
    c2 = c2
    root = root
    otel = otel
    Releasers = {r1, r2}
    Commits = {c1, c2}
    Modules = {root, otel}
    ModulesOf <- MCModulesOf
    NoTag = NoTag
SYMMETRY Symmetry
INVARIANT
    AdvicePublishes
