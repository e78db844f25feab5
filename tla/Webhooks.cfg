SPECIFICATION Spec
CONSTANTS
    Polls = {p1, p2}
    MaxBlocks = 2
    MaxRebuilds = 1
    MaxRestarts = 1
    maxPerPoll = 2
    alertsKeep = 1
    MAX_BACKOFF = 2
INVARIANTS
    CursorMeansReceived
    FirstDeliveriesInOrder
PROPERTIES
    RetentionKeepsUndelivered
    EventuallyDelivered
CHECK_DEADLOCK FALSE
