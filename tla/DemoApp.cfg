SPECIFICATION DemoSpec
CONSTANTS
    MaxDemos = 2
    MaxClicks = 4
    MaxInFlight = 3
    Timelocks = {"none", "instant", "delayed"}
INVARIANTS
    PageTellsTruth
PROPERTIES
    AcknowledgedNotRepeated
CHECK_DEADLOCK FALSE
