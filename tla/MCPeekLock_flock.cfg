SPECIFICATION Spec
CONSTANTS
    Fragments <- MCFragments
    Configs <- LocalOnly
    Rivals <- LocalRivals
    Workspaces <- SomeWorkspaces
    Settings <- SomeSettings
    Cwd <- MyCwd
    MaxChanges = 1
    MaxLocked = 1
    MaxRecords = 1
INVARIANT UncertaintyIsUnknown
CHECK_DEADLOCK FALSE
