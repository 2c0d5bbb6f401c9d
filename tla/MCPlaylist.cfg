SPECIFICATION Spec
CONSTANTS
    MaxSize = 4
    Lengths = {0, 1, 2, 3}
    Traks <- MCTraks
INVARIANTS
    EntriesTile
    EntriesServed
    EntriesDistinct
    TargetDuration
    MatchesEntries
CHECK_DEADLOCK FALSE
