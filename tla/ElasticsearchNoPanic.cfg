\* Violation: NoPanic.
CONSTANTS
    NotObj = NotObj
    NotAnObject <- MCNotAnObject
    Metrics <- MCMetrics
    Keys <- MCKeys
    MetricPlace <- MCMetricPlace
    Docs <- MCDocs
    Payloads <- MCPayloads
    SuppressModes = {FALSE, TRUE}

SPECIFICATION Spec


CHECK_DEADLOCK FALSE
INVARIANT NoPanic
