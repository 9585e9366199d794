\* With a non-zero -timeout: types, and every invocation ends.
CONSTANTS
    Bad = Bad
    Mistyped <- MCMistyped
    Fields <- MCFields
    Objects <- MCObjects
    Statuses = {200, 500}
    TimeoutModes = {5}

SPECIFICATION Spec
INVARIANT TypeOK
PROPERTY Termination
CHECK_DEADLOCK FALSE
