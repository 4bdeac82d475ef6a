SPECIFICATION Spec
CONSTANTS
    Strokes = {s1, s2, s3}
    Handlers = {h1, h2}
    Elsewhere = FALSE
SYMMETRY Symmetry
INVARIANT UndoStackIsInk
CHECK_DEADLOCK FALSE
