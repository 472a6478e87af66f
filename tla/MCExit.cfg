CONSTANTS
    MaxFaults = 1
SPECIFICATION LiveSpec
PROPERTIES
    ExitIsInvited
    OpportunitySpec
    GuidanceEnds
CHECK_DEADLOCK FALSE
