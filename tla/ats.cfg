SPECIFICATION Spec
CONSTANTS
    Rows = {r1, r2}
    MaxEvents = 2
SYMMETRY Symmetry
INVARIANT RunsTrue
CHECK_DEADLOCK FALSE
