CONSTANTS
    Accounts = {a1}
    InitialDelays = {1}
    MaxDelay = 4
SPECIFICATION Spec
INVARIANT NothingOutlivesAccount
CHECK_DEADLOCK FALSE
