SPECIFICATION PartsSpec
CONSTANTS
    OtherName = {".text"}
    MaxAddr = 2
    MaxSize = 1
    MaxSections = 3
    MaxCalls = 2
    BYTE = 3
    NOP = 1
    SLED = 3
    RUN = 2
    WORD = 2
    UserSpace <- MCUserSpace
    MaxLen = 6
    Byte = {0, 1}
    CHUNK = 2
    IocHashes <- MCIocHashes
    HighEntropy <- MCHighEntropy
    MaxFileLen = 4
    MaxFiles = 2
    MaxChanges = 2
INVARIANTS SledsCovered RunsMaximal PointersComplete GotPointersFound WholeVersions
CHECK_DEADLOCK FALSE
