\* Inputs up to a chunk and a half against pipes that hold one, outputs up to one unit
\* over the limit.
SPECIFICATION ExchangeSpec
CONSTANTS
    MaxInput = 3
    MaxOutput = 4
    Limit = 3
    Chunk = 2
    Cap = 2
INVARIANTS
    NothingLost
    LimitExact
PROPERTIES
    GraderReturns
CHECK_DEADLOCK FALSE
