SPECIFICATION Spec
CONSTANTS
    Streams = {"stdout", "stderr"}
    Codes = {0, 1, 2}
    MaxOutput = 2
    MaxSignals = 1
INVARIANTS RealExitStatus
CHECK_DEADLOCK FALSE
