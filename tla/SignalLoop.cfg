\* A gateway that starts late and restarts once; requests may be lost.
SPECIFICATION LoopFairSpec
CONSTANTS
    MinGreen = 3
    MaxGreen = 4
    Headroom = 1
    Green = 3
    AllRed = 1
    Step5 = 2
    Step10 = 4
    PedClearance = 2
    Interval = 2
    MaxPending = 1
    MaxLag = 1
    MaxAge = 6
    MaxRestarts = 1
PROPERTIES
    ObservationNeverOlder
    CommandsLeaveTheQueue
