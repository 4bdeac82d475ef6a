SPECIFICATION Spec
CONSTANTS
    People = {owner, ann, ben}
    Owner = owner
    MaxEdits = 2
    MaxClock = 5
    Skew = 1
    MaxOpens = 2
SYMMETRY Symmetry
CONSTRAINT Bounds
INVARIANTS TypeOK OwnEditIsRead NobodyMissesAnEdit
CHECK_DEADLOCK FALSE
