\* Violation: NoPanic.
CONSTANTS
    Bad = Bad
    Mistyped <- MCMistyped
    Fields <- MCFields
    Objects <- MCObjects
    Statuses = {200, 500}
    TimeoutModes = {5}

SPECIFICATION Spec
INVARIANT NoPanic
CHECK_DEADLOCK FALSE
