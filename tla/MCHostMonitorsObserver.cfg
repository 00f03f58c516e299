SPECIFICATION FairSpec
CONSTANTS
    FileType <- MCFileType
    MaxFileEvents = 2
    MaxCalls = 2
PROPERTY FileAlerted
CHECK_DEADLOCK FALSE
