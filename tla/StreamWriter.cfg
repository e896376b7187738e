SPECIFICATION Spec
CONSTANTS
    GrowSize = 3
    MaxChunk = 5
    MaxSent = 10
INVARIANTS TypeOK InOrder BufferedIsWatched
PROPERTIES EverythingIsWritten
CHECK_DEADLOCK FALSE
