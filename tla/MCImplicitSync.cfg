SPECIFICATION Spec
CONSTANTS
    Garbage = {0, 2}
    Movies <- MCMovies
INVARIANT ImplicitSync
CHECK_DEADLOCK FALSE
