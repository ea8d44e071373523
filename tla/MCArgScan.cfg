SPECIFICATION Spec
CONSTANTS
    MaxLen = 5
    Fragments <- SmallFragments
    Inputs <- SmallInputs
INVARIANTS TypeOK ScanCorrect FoldAgrees KeptInOrder
CHECK_DEADLOCK FALSE
