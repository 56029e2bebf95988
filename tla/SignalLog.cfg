\* One junction, telemetry at three instants, a log of two decisions, a queue
\* of one: three decisions.  Two requests at a time to the stand-alone service,
\* one training besides the first.  The service does not start again
\* after a stop that tore its policy file.
SPECIFICATION SignalsSpec
CONSTANTS
    Junction = {j1}
    Phase = {p1, p2}
    Time = {0, 1, 2}
    Remaining = {0}
    MinGreen = 1
    MaxGreen = 2
    Headroom = 2
    PedClearance = 1
    DefaultDuration = 3
    DecisionLimit = 1
    MaxPending = 1
    HistoryLimit = 1
    MaxDecisions = 2
    u1 = u1  u2 = u2
    Clients = {u1, u2}
    StepS = 5
    GreenS = 10
    RedS = 2
    LeastGreenS = 5
    MostGreenS = 10
    CapS = 5
    ClearanceS = 5
    MaxTrainings = 2
CHECK_DEADLOCK FALSE
SYMMETRY Symmetry
INVARIANTS
    CommandedOnce
    RecordsMatchCommands
    LostOnlyToNewer
    DecisionsEnveloped
    PhasesEnd
