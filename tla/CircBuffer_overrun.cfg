SPECIFICATION Spec
CONSTANTS
    Bytes = {b1, b2}
    Junk = junk
    GrowSize = 2
    MaxChunk = 3
    MaxUsed = 5
INVARIANT NoJunkRead
