SPECIFICATION Spec
CONSTANTS
    MaxArgs = 3
    MaxEnv = 4
    Fragments <- PlainFragments
    Inputs <- AllInputs
INVARIANTS TypeOK PlanStripped PlanArgsKept PlanNeverSeesLockCheck PlanRunsUnlocked WarningTruthful ModeHonoured
CHECK_DEADLOCK FALSE
