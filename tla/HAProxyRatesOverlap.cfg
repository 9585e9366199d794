\* Two processes answering the stats page at once (nbproc > 1, soft reload).
CONSTANTS
    p1 = p1
    p2 = p2
    p3 = p3
    Procs <- MCProcs
    MaxCount = 3
    MaxRuns = 4
    Overlap = TRUE

SYMMETRY MCSymmetry
SPECIFICATION Spec
INVARIANT NoOverReport
CHECK_DEADLOCK FALSE
