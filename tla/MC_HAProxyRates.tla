--------------------------- MODULE MC_HAProxyRates ---------------------------
(* Three HAProxy processes, counters up to 3, four invocations.            *)
EXTENDS HAProxyRates, TLC

CONSTANTS p1, p2, p3

MCProcs == {p1, p2, p3}

\* The processes are interchangeable: no property names one.
MCSymmetry == Permutations(MCProcs)
=============================================================================
