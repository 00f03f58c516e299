SPECIFICATION FairSpec
CONSTANTS
    Host = {h1, h2}
    MaxInitChunks = 1
    MaxFindings = 2
    MaxPackets = 3
    MaxWindows = 2
INVARIANTS FloodExact FindingsPublished
PROPERTY FloodAlerted
CHECK_DEADLOCK FALSE
