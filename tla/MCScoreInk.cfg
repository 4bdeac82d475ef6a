SPECIFICATION Spec
CONSTANTS
    Strokes = {s1, s2, s3}
    Handlers = {h1, h2}
    Elsewhere = TRUE
SYMMETRY Symmetry
INVARIANTS TypeOK InkSurvives UndoStackInOrder
CHECK_DEADLOCK FALSE
