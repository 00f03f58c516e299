SPECIFICATION Spec
CONSTANTS
    Src = {s1}
    EventType <- MCEventTypeModified
    WindowDuration = 1
    MaxSkew = 0
    MaxTime = 1
    MaxEvents = 3
PROPERTY DocumentedDetection
CHECK_DEADLOCK FALSE
