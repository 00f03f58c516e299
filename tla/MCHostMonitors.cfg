SPECIFICATION FairSpec
CONSTANTS
    FileType <- MCFileType
    MaxFileEvents = 2
    MaxCalls = 2
INVARIANTS HandledIsAlerted SeenExact
PROPERTIES StableReport ShutsDown CallAlerted
CHECK_DEADLOCK FALSE
