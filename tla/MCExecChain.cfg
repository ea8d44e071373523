SPECIFICATION FairSpec
CONSTANTS
    MaxPath = 4
    Parraforms = {par1, par2}
    Terraforms = {tf1, tf2}
    Plain = {text}
    NoOverride = NoOverride
    Paths <- SmallPaths
INVARIANTS TypeOK DelegatesToFirst EndsOnlyIfSane
PROPERTIES ChainEnds
CHECK_DEADLOCK FALSE
