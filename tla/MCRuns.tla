------------------------------- MODULE MCRuns -------------------------------
(* The runs of the scenario service, the runner of the simulation and the   *)
(* mock simulation, which share nothing: each is explored while the others  *)
(* rest.                                                                    *)
EXTENDS ScenarioRuns, SimulationRun, MockTraffic, FailureEffects, TLC
CONSTANTS r1, r2, r3, car, walker, ego, bus, wrong, bg, t1, t2, t3, t4

MCTypeId == [c \in {car} |-> "cow"]
MCStrings == {<<"G", "r">>, <<"y", "r">>}

\* _ROUTES and _build_actors: the lane with the background car, the two that
\* meet, the bus.
Straight == <<120000, 80224, 80224, 120000>>
MCRoutes ==
    [south_north   |-> Straight, west_east |-> Straight, wrongway |-> Straight,
     recovery_east |-> <<60000, 120000>>,
     north_south   |-> <<130000, 90200, 90200, 130000>>]
Car(n, on, speed, at) == [nth |-> n, route |-> on, cruise |-> speed, start |-> at]
Queued(n, at) == Car(n, "north_south", 4700, at)
MCFleet ==
    ego :> Car(1, "west_east", 5500, 0) @@ bus :> Car(2, "south_north", 6500, 0)
    @@ bg :> Car(3, "north_south", 8000, 0) @@ wrong :> Car(4, "wrongway", 5200, 0)
    @@ t1 :> Queued(5, 50000) @@ t2 :> Queued(6, 118000) @@ t3 :> Queued(7, 186000)
    @@ t4 :> Queued(8, 254000)
MCPhases == <<200, 250, 280, 320, 400, 450, 520>>

\* One failure of each kind, and GPS failures that overlap.
Fails(type, about, amount, lasts) ==
    [type |-> type, about |-> about, amount |-> amount, lasts |-> lasts]
MCFailures ==
    {Fails("gps_degradation", All, 50, 2), Fails("gps_degradation", "veh1", 20, NoEnd),
     Fails("gps_degradation", "veh1", 80, 1), Fails("connectivity_loss", "maps", 0, 1),
     Fails("rsu_failure", "rsu1", 0, 2), Fails("road_closure", "e1", 0, NoEnd),
     Fails("road_narrowing", "e1", 1, 1), Fails("animal_crossing", "e1", 1, 1),
     Fails("weather_visibility", "fog", 100, 2), Fails("weather_visibility", "rain", 60, 1)}
MCReported == {[uncertainty |-> 5, confidence |-> 90], [uncertainty |-> 60, confidence |-> 30]}

\* The runs are alike, so the first injection is into r1. Clocks go on while it is
\* to be saved, and a run ends while the second, a failure of its GPS, is to be
\* loaded: either makes its start stale. Injections overlap while clocks rest, and
\* are then of a roadside unit only: of the others nothing is claimed.
Injected(q) == Last(q.got).failure

InjectionsApart ==
    /\ \A q \in injecting' : q.id = 1 => q.run = r1
    /\ \A run \in ended' \ ended : \E q \in injecting : q.run = run /\ q.id = 2 /\ q.at = "load"
    /\ \A q \in injecting' : q.got # <<>> =>
           /\ ended' # {} => Injected(q).type = "gps_degradation"
           /\ overlapped' => Injected(q).type = "rsu_failure"
    /\ simTime' # simTime =>
           ~overlapped /\ \A q \in injecting : q.id = 1 /\ q.at = "empty"

RunsInit == Init /\ SimulationInit /\ MockInit /\ FailuresInit

RunsNext ==
    \/ SimulationInit /\ MockInit /\ FailuresInit /\ Next /\ UNCHANGED <<simulation, mock, failures>>
    \/ Init /\ MockInit /\ FailuresInit /\ SimulationNext /\ UNCHANGED <<vars, mock, failures>>
    \/ Init /\ SimulationInit /\ FailuresInit /\ MockNext /\ UNCHANGED <<vars, simulation, failures>>
    \/ Init /\ SimulationInit /\ MockInit /\ FailuresNext /\ InjectionsApart
       /\ UNCHANGED <<vars, simulation, mock>>

RunsSpec ==
    RunsInit /\ [][RunsNext]_<<vars, simulation, mock, failures>> /\ SimulationFairness
=============================================================================
