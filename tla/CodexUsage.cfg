SPECIFICATION Spec
CONSTANTS
    Kinds = {input, output}
    Sources = {"default", "weekly"}
    Default = "default"
    Mixtures <- MCMixtures
    MaxLog = 4
    MaxAborts = 1
    None = none
SYMMETRY Interchangeable
CHECK_DEADLOCK FALSE
INVARIANT
    UsageIsExact
