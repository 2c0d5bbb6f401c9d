SPECIFICATION Spec
CONSTANTS
    Garbage = {0, 2}
    Movies <- MCMovies
INVARIANTS
    IndexTrue
    InBounds
    AudioMarked
    LookupsAgree
CHECK_DEADLOCK FALSE
