SPECIFICATION Spec
CONSTANTS
    Checksums = {k1, k2, k3}
    Opens = {o1, o2}
    MaxFiles = 1
    MaxClock = 2
SYMMETRY Symmetry
CONSTRAINT Bounds
INVARIANTS TypeOK ServedIsVerified CapHolds
CHECK_DEADLOCK FALSE
