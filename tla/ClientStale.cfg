SPECIFICATION Spec
CHECK_DEADLOCK FALSE
CONSTANTS
    r1 = r1
    r2 = r2
    Runs = {r1, r2}
SYMMETRY Two
INVARIANT ZeroMeansExecuted
