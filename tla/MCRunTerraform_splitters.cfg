SPECIFICATION Spec
CONSTANTS
    MaxArgs = 3
    MaxEnv = 4
    Fragments <- ShellFragments
    Inputs <- EscapeInputs
INVARIANTS PlanArgsKept
CHECK_DEADLOCK FALSE
