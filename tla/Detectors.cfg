CONSTANTS
  g1 = g1 g2 = g2 v1 = v1 v2 = v2 e1 = e1 e2 = e2
  Absent = Absent
  Cars = {v1, v2}
  Roads = {g1, g2}
  Scenes <- MCScenes
  Undirected = {g2}
  MinSpeed = 10
  Persistence = 2
  StandingSpeed = 0
  StandingTime = 2
  FlowSpeed = 2
  BrakingTime = 1
  MaxMoment = 2
  MaxScenes = 3
  Unknown = Unknown Naive = Naive
  Responders = {e1, e2}
  Batches <- MCBatches
  HeartbeatTimeout = 1
  Animals = {"cow"}
  Reports <- MCReports
  Fades <- MCFades
  MinCertainty = 300
  PredictionTime = 2
  MaxInstant = 3
  MaxObserved = 4
  Approaches = {"north", "east"}
  Paces = {5, 10}
  Doubts = {2, 20, 80}
  Distances = {10, 20, 40}
  ApproachLength <- MCApproachLength
  OverlapNeeded = 50
  ConfidenceFloor = 30
  ApproachWithin = 100
  Links <- MCLinks
  Layouts <- MCLayouts
  LinkLength <- MCLength
  LinkCurve <- MCCurve
  Begin = "s"
  ScanWithin = 150
  CurveNeeded = 45
  ClosingNeeded = 5
  Drivers <- MCDrivers
  None = None  a1 = a1  a2 = a2  k1 = k1  k2 = k2  k12 = k12
  Actors <- MCActors
  Keys <- MCKeys
  Risks <- MCKeys
  KeyOf <- MCKeyOf
  ActorsOf <- MCActorsOf
  TypeWeight <- MCTypeWeight
  SpeedOf <- MCSpeedOf
  Scores <- MCScores
  Ttcs <- MCTtcs
  CollisionRisks <- MCCollisions
  MaxConcurrent = 1
  SuppressionWindow = 2
  HysteresisThreshold = 60
  MaxTime = 2
  MaxIssued = 3
  MaxReinits = 1
  MaxRounds = 2
SPECIFICATION DetectorsSpec
CHECK_DEADLOCK FALSE
INVARIANTS
    CountsMatchStore
    ReportsSustained
    PriorityIsBacked
    OnCourseIsWarned
PROPERTIES
    DisplacedByHigher
