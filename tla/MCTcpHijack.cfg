SPECIFICATION Spec
CONSTANTS
    Conn = {c1}
    MAX_SEQ = 10
    SEQ_JUMP_THRESHOLD = 5
    FirstSeq = {8}
    MaxPayload = 2
    MaxSent = 2
    MaxPackets = 4
INVARIANTS BaselineTracks InOrderSilent AlertPerAnomaly
PROPERTIES JumpDetected StepTolerated
CHECK_DEADLOCK FALSE
