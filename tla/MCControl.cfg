CONSTANTS
    MaxFaults = 1
    MaxRequests = 2
    MaxGeneration = 4
SPECIFICATION LiveSpec
INVARIANTS
    OneCommander
PROPERTIES
    OrderSpec
    WaitEnds
CHECK_DEADLOCK FALSE
