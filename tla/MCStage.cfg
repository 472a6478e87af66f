SPECIFICATION StageSpec
CONSTANTS
    Drives <- MCDrives
    Kinds = {"error", "stop"}
    MaxFaults = 2
    MaxFrames = 2
    Posts = {p1, p2, p3}
    Main = main
    NoItem = nothing
    NoSample = no_sample
    Capacity = 3
    GazeCapacity = 1
    Samples = 3
    Reporters = {p1}
    Viewers = {p3}
    Closes = 1
INVARIANTS
    DriveIsAccounted
    CollectionIsWhole
PROPERTIES
    VehicleSpec
    InterruptedReturns
CHECK_DEADLOCK FALSE
