SPECIFICATION Spec
CONSTANTS
    Src = {s1}
    EventType <- MCEventType
    WindowDuration = 1
    MaxSkew = 1
    MaxTime = 4
    MaxEvents = 4
INVARIANTS TypeOK RetainsFresh IncidentSpan TimelineOrdered
PROPERTY ImplementsSlidingWindow
CHECK_DEADLOCK FALSE
