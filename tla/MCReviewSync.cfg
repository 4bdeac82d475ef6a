SPECIFICATION Spec
CONSTANTS
    Notes = {n1}
    Batches = {a1, a2, a3}
    Exports = {x1, x2}
    Imports = {i1, i2}
    MaxClock = 3
    MaxBundles = 3
SYMMETRY Symmetry
CONSTRAINT Bounds
INVARIANTS TypeOK NoDanglingAudio ShowsNewest
PROPERTY NoResurrection
CHECK_DEADLOCK FALSE
