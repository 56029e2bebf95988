\* Four requests, two at a time, and a restart at any step; three runs of the
\* simulation that may overlap; 70 s of the mock simulation, all its phases
\* and a lap of the fastest car; two failures of ten in two runs.
SPECIFICATION RunsSpec
CONSTANTS
    Speed = {1, 2}
    MaxInFlight = 2
    MaxRequests = 4
    MaxSteps = 1
    MaxCrashes = 1
    r1 = r1  r2 = r2  r3 = r3  car = car  walker = walker
    Runs = {r1, r2, r3}
    Cars = {car}
    TypeId <- MCTypeId
    Walkers = {walker}
    Strings <- MCStrings
    Lanes = 1
    MaxTicks = 2
    MaxErrors = 2
    ego = ego  bus = bus  wrong = wrong  bg = bg  t1 = t1  t2 = t2  t3 = t3  t4 = t4
    Routes <- MCRoutes
    Recovery = "recovery_east"
    EastWest = {"west_east"}
    Fleet <- MCFleet
    Traffic = {t1, t2, t3, t4}
    Ego = ego  Bus = bus  Wrong = wrong
    GreenTicks = {180, 250, 320}
    FirstGreen = 250
    Phases <- MCPhases
    Duration = 700
    ScenarioRun = {r1, r2}
    Actor = {"veh1", "veh2"}
    Failure <- MCFailures
    Reported <- MCReported
    MaxInjections = 2
    EndOfTime = 2
CHECK_DEADLOCK FALSE
INVARIANTS
    StoppedStaysDown
    LabelledByItsRun
    ProgressIsPlace
PROPERTIES
    StopCloses
    OnlyWorsensInTurn
