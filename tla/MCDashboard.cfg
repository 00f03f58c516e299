SPECIFICATION FairSpec
CONSTANTS
    Client = {c1, c2}
    Injector = {i1}
    MaxEvents = 2
INVARIANTS FeedExact ServedIsRegistered CorrelatedInOrder
PROPERTIES EventCorrelated GoneIsRemoved
CHECK_DEADLOCK FALSE
