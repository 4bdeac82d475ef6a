SPECIFICATION Spec
CONSTANTS
    Users = {owner, ann, ben}
    Owner = owner
    MessageIds = {m1, m2}
    Calls = {c1, c2}
SYMMETRY Symmetry
INVARIANT RosterConsistent
CHECK_DEADLOCK FALSE
