SPECIFICATION PipeSpec
CONSTANTS
    Thread = {"capture", "observer", "ebpf"}
    Task = {}
    MaxSize = 0
    WindowDuration = 0
    MaxTime = 1
    MaxEvents = 3
INVARIANT NeverEscalates
PROPERTY ImplementsKillChain
CHECK_DEADLOCK FALSE
