\* Violation: NoEmitOnHTTPError.
CONSTANTS
    Bad = Bad
    Mistyped <- MCMistyped
    Fields <- MCFields
    Objects <- MCObjects
    Statuses = {200, 500}
    TimeoutModes = {5}

SPECIFICATION Spec
INVARIANT NoEmitOnHTTPError
CHECK_DEADLOCK FALSE
