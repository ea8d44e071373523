SPECIFICATION Spec
CONSTANTS
    p1 = p1
    p2 = p2
    w1 = w1
    w2 = w2
    lockfile = lockfile
    table = table
    lock = lock
    NoOne = NoOne
    Plans = {p1}
    Writers = {w1}
    Order <- OneOrder
    Uses <- OneUses
    Modes = {"warn"}
    LockArgs = {FALSE}
    FlockFails = FALSE
    PeekKinds = {"flock"}
    Platform <- AllUnix
PROPERTIES ContentionIsReal
