\* One vehicle, one pedestrian, one dashboard that reconnects once.
SPECIFICATION WorldSpec
CONSTANTS
    Vehicle = {v1}
    Roadside = {p1}
    Hazard = {h1}
    Client = {c1}
    Mode = {"FULL"}
    Bus = FALSE
    Ttl = 1
    QueueLimit = 2
    WireLimit = 1
    MaxStored = 3
    MaxDrops = 1
    t1 = t1
    t2 = t2
    map = map
    studio = studio
    Tabs = {t1, t2}
    Views <- MCViews
    RefreshEvery = 1
    LeaseLasts = 2
    Fleet <- MCFleet
    MaxBorn <- MCFleet
CHECK_DEADLOCK FALSE
INVARIANTS
    CatchesUp
    DeletedStaysDeleted
PROPERTIES
    NeverOlder
    AbandonedDisappear
    DisplacedStops
    FeedGoesOn
