CONSTANTS
    Size = 5
    FT_INITIAL_BUFFER_SIZE = 2
    FT_MAX_BUFFER_SIZE = 4
SPECIFICATION Spec
INVARIANTS TypeOK WholeFile SomebodyContinues StillReferenced
PROPERTIES TransferEnds
CHECK_DEADLOCK FALSE
