SPECIFICATION Spec
CONSTANTS
    Bytes = {b1, b2}
    Junk = junk
    GrowSize = 2
    MaxChunk = 2
    MaxUsed = 5
INVARIANTS TypeOK OfferIsUnread
PROPERTY IsFifo
