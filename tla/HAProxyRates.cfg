\* Restarts without overlap: the scratch file and the reset clamp.
CONSTANTS
    p1 = p1
    p2 = p2
    p3 = p3
    Procs <- MCProcs
    MaxCount = 3
    MaxRuns = 4
    Overlap = FALSE

SYMMETRY MCSymmetry
SPECIFICATION Spec
INVARIANT TypeOK
INVARIANT NoOverReport
INVARIANT ExactWithoutRestart
CHECK_DEADLOCK FALSE
