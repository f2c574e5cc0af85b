SPECIFICATION FairSpec
\* A command that has exited does nothing more.
CHECK_DEADLOCK FALSE
CONSTANTS
    r1 = r1
    r2 = r2
    Runs = {r1, r2}
INVARIANTS
    VerdictIsOfARun
PROPERTIES
    CommandAndRunsEnd
