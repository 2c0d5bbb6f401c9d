SPECIFICATION Spec
CONSTANTS
    VideoSize = 3
    AudioSize = 4
    Lengths = {0, 1, 2, 5}
    Starts = {0, 1, 2}
    AudioArgs = {0, 1, 2}
    UIntRange = 4
    Movies <- MCMovies
INVARIANTS
    ChosenByNumber
    FirstFragmentCut
    SecondFollowsFirst
    SlotsFilled
    AudioCoversVideo
CHECK_DEADLOCK FALSE
