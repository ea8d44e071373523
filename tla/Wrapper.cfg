SPECIFICATION FairSpec
CONSTANTS
    Streams = {"stdout", "stderr"}
    Codes = {0, 1, 2}
    MaxOutput = 2
    MaxSignals = 2
INVARIANTS TypeOK NeverFalseSuccess ChildNotOrphaned UndisturbedIsFaithful
PROPERTIES ScriptEnds CancelEnds
CHECK_DEADLOCK FALSE
