SPECIFICATION FairSpec
CONSTANTS
    p1 = p1
    p2 = p2
    w1 = w1
    w2 = w2
    lockfile = lockfile
    table = table
    lock = lock
    NoOne = NoOne
    Plans = {p1, p2}
    Writers = {w1}
    Order <- OneOrder
    Uses <- OneUses
    Modes = {"require", "warn"}
    LockArgs = {TRUE}
    FlockFails = TRUE
    PeekKinds = {"flock", "advisory"}
    Platform <- Mixed
INVARIANTS RequireSawFree NoProbeOutlivesParraform
PROPERTIES PlanDecided ProbeReleased
