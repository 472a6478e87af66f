CONSTANTS
    Runs = 2
    PrepareAt = 1
    Planned = 2
    WindowEnd = 3
    DriveEnd = 5
    Placement = 1
    MaxFaults = 2
    MaxContacts = 1
SPECIFICATION LiveSpec
INVARIANTS
    OneReveal
    ContactsConserved
PROPERTIES
    SceneIsHonest
    DriveEnds
CHECK_DEADLOCK FALSE
