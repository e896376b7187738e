CONSTANTS
    Accounts = {a1}
    InitialDelays = {1, 3}
    MaxDelay = 4
SPECIFICATION Spec
INVARIANTS
    TypeOK
    TimersHaveOwners
    DyingIsTemporary
    FatalNeverRetries
    DeletedIsForgotten
PROPERTIES
    PasswordSurvivesFailure
    BackOff
    LostSessionIsRetried
CHECK_DEADLOCK FALSE
