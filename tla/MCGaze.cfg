SPECIFICATION GazeStageSpec
CONSTANTS
    Ticks = 5
    Samples = 2
    Toggles = 1
    Faults = 1
    MaxGap = 1
    Attempts = 2
    Followed = {{}, {"FORWARD", "TABLET"}}
    NoStart = no_start
    NoTime = no_time
INVARIANTS
    GazeIsTrue
PROPERTIES
    MovedIsQuiet
CHECK_DEADLOCK FALSE
