\* An event bus is attached: frames suspend.
SPECIFICATION Spec
CONSTANTS
    Vehicle = {v1}
    Roadside = {}
    Hazard = {}
    Client = {c1}
    Mode = {}
    Bus = TRUE
    Ttl = 1
    QueueLimit = 2
    WireLimit = 1
    MaxStored = 3
    MaxDrops = 0
CHECK_DEADLOCK FALSE
INVARIANTS
    NoPhantomVehicle
