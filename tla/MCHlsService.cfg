SPECIFICATION Spec
CONSTANTS
    w1 = w1
    w2 = w2
    short = short
    long = long
    plain = plain
    NoArg = NoArg
    Workers = {w1, w2}
    Sessions = {short, long, plain}
    Arg <- MCArg
    AudioArg <- MCAudioArg
    OtherArgs = {5}
    HlsLength = 2
    Movies <- MCMovies
    Limit <- MCLimit
    UIntRange = 4
INVARIANTS
    AnsweredAsAnnounced
    StartsAsAnnounced
PROPERTIES
    PlaysInOrder
    Finishes
