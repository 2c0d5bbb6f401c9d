SPECIFICATION Spec
CONSTANTS
    AudioSize = 3
    PairedAudioSize = 3
    VideoSize = 2
    ParamsSize = 40
    NoPts = 1073741824
    FileSizes = {30, 9000, 100000}
    MaxFailures = 1
    Inputs <- MCInputs
INVARIANT
    FragmentsDelivered
CHECK_DEADLOCK FALSE
