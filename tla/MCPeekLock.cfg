SPECIFICATION Spec
CONSTANTS
    Fragments <- MCFragments
    Configs <- MCBackends
    Rivals <- NextInRing
    Workspaces <- SomeWorkspaces
    Settings <- SomeSettings
    Cwd <- MyCwd
    MaxChanges = 2
    MaxLocked = 1
    MaxRecords = 1
INVARIANTS TypeOK NamesApart VerdictTruthful PairWasReal ErrorsAreUnknown
CHECK_DEADLOCK FALSE
