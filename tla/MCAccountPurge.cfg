SPECIFICATION PurgeSpec
CONSTANTS
    Users = {owner, ann, ben}
    Owner = owner
    MessageIds = {m1, m2}
    Calls = {c1}
    NoteIds = {n1}
    Purger = ann
SYMMETRY Symmetry
CONSTRAINT Bounds
INVARIANTS PurgeTypeOK PurgedIsGone
PROPERTY AccessSpec
CHECK_DEADLOCK FALSE
