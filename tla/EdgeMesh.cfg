\* The gateway without a bound, and the stand-alone service with four updates,
\* two of which can be under way at once.
SPECIFICATION Spec
CONSTANTS
    Actor = {a, b, c}
    Pose <- Place
    Unknown = Unknown
    InRange <- Radio
    Danger <- Street
    Slot = {u1, u2}
    MaxUpdates = 4
SYMMETRY Slots
CHECK_DEADLOCK FALSE
INVARIANTS
    RiskIsCurrent
    ViewsFreshInTurn
