SPECIFICATION OpenSpec
CONSTANTS
    BufferSize = 16
    MaxBufferSize = 24
    MaxFailures = 1
    SizeRange = 1024
    Files <- MCFiles
    Lookalikes <- MCLookalikes
    Ranges <- MCRanges
INVARIANTS
    WindowTrue
    ReadsTrue
    BufferBounded
    FindsBoth
PROPERTY
    Ends
CHECK_DEADLOCK FALSE
