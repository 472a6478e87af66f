SPECIFICATION Spec
CONSTANTS
    Pedals = {brake}
    Observing = 1
    MaxTime = 4
    MaxFaults = 2
    Queue = 1
INVARIANTS
    HazardIsRecordedAsMet
    ActorsAreReturned
CHECK_DEADLOCK FALSE
