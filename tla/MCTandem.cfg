SPECIFICATION Spec
CONSTANTS
    People = {ann, ben}
    Shoppers = {cat}
    Items = {i1, i2}
    Rests = {milk, Milk}
    MaxQueue = 4
    None = None
SYMMETRY Symmetry
CONSTRAINT Bounds
INVARIANTS TypeOK OneItemPerName NoGhostShopper
PROPERTY KeepsReactions
