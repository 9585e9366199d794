\* Safety of FetchMetrics over every payload shape, and the refinement of
\* the plugin contract, with -suppress-missing-error set.
CONSTANTS
    NotObj = NotObj
    NotAnObject <- MCNotAnObject
    Metrics <- MCMetrics
    Keys <- MCKeys
    MetricPlace <- MCMetricPlace
    Docs <- MCDocs
    Payloads <- MCPayloads
    SuppressModes = {TRUE}

SPECIFICATION Spec
INVARIANT TypeOK
INVARIANT ExtractMatchesDocument
PROPERTY ImplementsContract
CHECK_DEADLOCK FALSE
