SPECIFICATION FairSpec
CONSTANTS
    Pid = {1, 2, 3, 4}
    Self = 3
    Tree <- MCTree
    MaxRecords = 1
INVARIANTS OutsiderAlerted LiveHelperIgnored
PROPERTY WalkEnds
CHECK_DEADLOCK FALSE
