SPECIFICATION Spec
CONSTANTS
    Contexts = {c1, c2}
    EffectTargets <- StrengthTargets
    MaxStrength = 2
    Rise = 1
    Fall = 1
    WheelAge = 1
    VehicleAge = 2
    FfbGap = 2
    MaxTime = 3
    MaxCalls = 3
    MaxEvents = 3
    MaxFrames = 4
    Starts = {a, b, c}
    Participants = {p}
    LastNumber = 2
    MaxByHand = 2
    SpeedLimit = 2
    LegacyGuard = 1
    TopSpeed = 3
    MaxThrottle = 2
    MaxBrake = 2
    MaxSteering = 1
    AccelerationGain = 1
    BrakingGain = 1
    IntegralGain = 1
    Deadband = 1
    WheelAngles = {2}
    LaneAnswers = {0}
    MaxWorldFrame = 2
    MaxEngagements = 2
    Capacity = 2
    MaxRecords = 4
    MaxFrame = 2
    MaxFaults = 2
    MaxImages = 2
    MaxCameras = 3
    MaxIterations = 2
    MaxLoopRaises = 1
    MaxRuns = 2
    MaxInputs = 2
    MaxLosses = 1
    MaxKept = 1
SYMMETRY Symmetry
INVARIANTS
    EffectsAreLawful
    PressesAreCounted
    StartsKeepApart
    BackendIsSound
    TraceIsTrue
    ViewReportsTruly
    ResultIsTrue
CHECK_DEADLOCK FALSE
