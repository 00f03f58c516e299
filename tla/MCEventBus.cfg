SPECIFICATION ProgramsFairSpec
CONSTANTS
    Thread = {t1, t2}
    Task = {a1}
    MaxSize = 2
    MaxEvents = 4
INVARIANTS PublisherOrder NoLoss NeverUnbound
PROPERTIES Delivery ReplayDelivered
CHECK_DEADLOCK FALSE
