SPECIFICATION Spec
CONSTANTS
    Fragments <- MCFragments
    Configs <- OCIOnly
    Rivals <- OCIRivals
    Workspaces <- SomeWorkspaces
    Settings <- SomeSettings
    Cwd <- MyCwd
    MaxChanges = 1
    MaxLocked = 1
    MaxRecords = 1
INVARIANT FreeOnlyIfSeen
CHECK_DEADLOCK FALSE
