\* A parent run at most twice and two children; any read of the wait may fail.
SPECIFICATION Spec
CONSTANTS
    c1 = c1  c2 = c2
    None = None
    Children <- TwoChildren
    Templates <- TwoTemplates
    Images <- TwoImages
    Payload <- Keys
    Upper <- Uppercase
    Outs <- OneKeyOrNone
    MaxRuns = 2
    Polls = 2
CHECK_DEADLOCK FALSE
INVARIANTS
    OneSource
    IInv
    EnvPrecedence
    OutputsReachContainers
