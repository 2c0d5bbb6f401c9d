SPECIFICATION Spec
CONSTANTS
    MaxTracks = 2
    ArgLength = 6
    SampleSizes = {0, 1, 1017, 8184, 8185}
    Flv = {"fl"}
    Words <- MCWords
    Names <- MCNames
    Number <- MCNumber
    Requests <- MCRequests
INVARIANTS
    TreeWhole
    Owned
    OptionsAsNamed
    AnswerTrue
    StreamsDescribed
CHECK_DEADLOCK FALSE
