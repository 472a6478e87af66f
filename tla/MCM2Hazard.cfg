SPECIFICATION M2Spec
CONSTANTS
    Oversize = {4}
    FlushAt = 3
    RowLimit = 2
    MaxPolls = 6
    MaxWriteFaults = 2
    WindowStart = 3
    WindowEnd = 4
    SceneEnd = 5
    PlannedAt = 3
    Preparation = 2
    LaneChange = 1
    Retry = 1
    MaxFrames = 3
    Stamped = 2
    MaxFailures = 1
INVARIANTS
    SamplesAreWhole
PROPERTIES
    StreamSpec
    SceneIsSound
CHECK_DEADLOCK FALSE
