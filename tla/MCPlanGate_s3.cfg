SPECIFICATION FairSpec
CONSTANTS
    p1 = p1
    p2 = p2
    w1 = w1
    w2 = w2
    lockfile = lockfile
    table = table
    lock = lock
    NoOne = NoOne
    Plans = {p1}
    Writers = {w1, w2}
    Order <- S3Order
    Uses <- S3Uses
    Modes = {"warn", "strict", "require", "invalid"}
    LockArgs = {TRUE, FALSE}
    FlockFails = FALSE
    PeekKinds = {"object"}
    Platform <- AllUnix
INVARIANTS TypeOK GateInv HeldHasEvidence RequireSawFree StrictRefusalJustified
PROPERTIES WarnPlanRuns GateKept
