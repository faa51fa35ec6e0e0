CONSTANT Conns = {c1, c2}
SPECIFICATION Spec
INVARIANT ConnectionsDrop
