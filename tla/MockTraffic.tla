----------------------------- MODULE MockTraffic -----------------------------
(***************************************************************************)
(* The mock simulation of the scenario service: a junction with a two-     *)
(* phase signal, cars that follow their lanes, and seven scheduled phases  *)
(* of degradation.  One task moves everything, a tenth of a second at a    *)
(* time, posts what it did to the gateway, where any post may fail, and    *)
(* can be cancelled wherever it waits.                                     *)
(*                                                                         *)
(* Lengths are in mm, speeds in mm/s, times in ticks.  Of a car's place    *)
(* its route says all: the waypoint it passed last, the way left to the    *)
(* next, and the progress that headway is kept by.                         *)
(***************************************************************************)
EXTENDS Integers, Sequences, FiniteSets

CONSTANTS Routes,    \* route -> the lengths of its segments
          Recovery,  \* recovery_east, the route of phase 7
          EastWest,  \* the routes that the EW green serves
          Fleet,     \* car -> [nth, route, cruise, start]: nth by _build_actors
          Traffic,   \* the cars named traffic_..., which obey the signal
          Ego, Bus, Wrong, \* the cars that the phases command
          GreenTicks,      \* the green times of the bandit
          FirstGreen,      \* remaining_s at the start
          Phases,    \* _PHASE_TIMES
          Duration   \* duration_s of the scenario

ASSUME MockConstants ==
    /\ \A r \in DOMAIN Routes : Routes[r] \in Seq(Nat \ {0})
    /\ Recovery \in DOMAIN Routes
    /\ EastWest \subseteq DOMAIN Routes
    /\ \A c \in DOMAIN Fleet : Fleet[c].route \in DOMAIN Routes /\ Fleet[c].nth \in Nat
    /\ \A c \in DOMAIN Fleet : \A d \in DOMAIN Fleet \ {c} : Fleet[c].nth # Fleet[d].nth
    /\ Traffic \subseteq DOMAIN Fleet
    /\ GreenTicks # {} /\ GreenTicks \subseteq Nat \ {0}
    /\ Len(Phases) = 7

VARIABLES
    cars,    \* car -> where and how fast it goes
    light,   \* [movement, left] of the signal
    elapsed, \* sim_time
    fired,   \* phases_fired
    running, \* the task
    mode     \* the connectivity the gateway was told last

mock == <<cars, light, elapsed, fired, running, mode>>

-----------------------------------------------------------------------------
(* Cars.                                                                    *)
SafeGap     == 9000     \* or 1.7 s of the follower's speed
Approach    == 45000    \* where a red light is heeded
WaypointAt  == 2000     \* a waypoint is reached
Acceleration == 50      \* 0.5 m/s^2 for a tick

\* The way from the start of a route to its n-th waypoint.
WayTo(route, n) ==
    LET way[k \in 0 .. n] == IF k = 0 THEN 0 ELSE way[k - 1] + Routes[route][k]
    IN  way[n]

\* Cars start on their routes, and none is so fast that a tick takes it past a
\* waypoint unseen: the fastest of _build_actors goes 9.5 m/s.
ASSUME FleetAssumption ==
    \A c \in DOMAIN Fleet :
        /\ Fleet[c].cruise \in 0 .. 10 * WaypointAt
        /\ Fleet[c].start \in Nat
        /\ Fleet[c].start < WayTo(Fleet[c].route, Len(Routes[Fleet[c].route]))

\* A car placed the given way along its route.
Placed(c) ==
    LET route  == Fleet[c].route
        way    == Fleet[c].start
        passed == CHOOSE n \in 0 .. (Len(Routes[route]) - 1) :
                      WayTo(route, n) <= way /\ way < WayTo(route, n + 1)
    IN  [route |-> route, passed |-> passed, left |-> WayTo(route, passed + 1) - way,
         progress |-> way, speed |-> Fleet[c].cruise, target |-> Fleet[c].cruise,
         cruise |-> Fleet[c].cruise]

Lower(a, b)  == IF a < b THEN a ELSE b
Higher(a, b) == IF a > b THEN a ELSE b

IsGreen(route, movement) == (IF route \in EastWest THEN "EW" ELSE "NS") = movement

\* Background traffic stops at a red light and else goes on at its own pace;
\* nobody but the phases raises the target of another car.
Complied(fleet, movement) ==
    [c \in DOMAIN fleet |->
        IF c \notin Traffic THEN fleet[c]
        ELSE LET one == fleet[c]
                 held == /\ one.passed = 1 /\ one.left < Approach
                         /\ ~IsGreen(one.route, movement)
             IN  [one EXCEPT !.target = IF held THEN 0 ELSE one.cruise]]

\* d comes before c in the sorted lane; cars level stay in the order of their
\* building.
Precedes(fleet, d, c) ==
    /\ fleet[d].route = fleet[c].route
    /\ \/ fleet[d].progress > fleet[c].progress
       \/ fleet[d].progress = fleet[c].progress /\ Fleet[d].nth < Fleet[c].nth

\* The pairs that zip makes: the last of those before c, if any.
Leaders(fleet, c) ==
    LET ahead == {d \in DOMAIN fleet : Precedes(fleet, d, c)}
    IN  {d \in ahead : \A o \in ahead \ {d} : Precedes(fleet, o, d)}
Leader(fleet, c) == CHOOSE d \in Leaders(fleet, c) : TRUE

Gap(fleet, c)   == fleet[Leader(fleet, c)].progress - fleet[c].progress
GapNeeded(car)  == Higher(SafeGap, (car.speed * 17) \div 10)

TooClose(fleet, c) ==
    /\ Leaders(fleet, c) # {}
    /\ 0 < Gap(fleet, c) /\ Gap(fleet, c) < GapNeeded(fleet[c])

\* A follower that is too close slows below its leader.
Spaced(fleet) ==
    [c \in DOMAIN fleet |->
        IF ~TooClose(fleet, c) THEN fleet[c]
        ELSE LET short == GapNeeded(fleet[c]) - Gap(fleet, c)
                 brake == Higher(0, fleet[Leader(fleet, c)].speed - (short * 45) \div 100)
             IN  [fleet[c] EXCEPT !.target = Lower(@, brake)]]

\* step: towards the target speed, then along the route, round and round.
Accelerated(car) ==
    [car EXCEPT !.speed =
        IF car.target >= @ THEN @ + Lower(car.target - @, Acceleration)
        ELSE @ - Lower(@ - car.target, Acceleration)]

LapKeepsProgress(car) ==                                        \* variant
    IF car.passed < Len(Routes[car.route]) THEN car
    ELSE [car EXCEPT !.passed = 0, !.left = Routes[car.route][1]]

Lap(car) ==
    IF car.passed < Len(Routes[car.route]) THEN car
    ELSE [car EXCEPT !.passed = 0, !.left = Routes[car.route][1], !.progress = 0]

Advanced(car) ==
    IF car.left >= WaypointAt
    THEN [car EXCEPT !.left = @ - car.speed \div 10, !.progress = @ + car.speed \div 10]
    ELSE [car EXCEPT !.passed = @ + 1,
                     !.left = IF car.passed + 1 = Len(Routes[car.route]) THEN 0
                              ELSE Routes[car.route][car.passed + 2]]

Stepped(car) ==
    LET faster == Accelerated(car)
    IN  IF faster.speed < 10 THEN faster ELSE Advanced(Lap(faster))

-----------------------------------------------------------------------------
(* The signal and the phases.                                               *)
Other(movement) == IF movement = "EW" THEN "NS" ELSE "EW"

\* When the green is over the other movement gets one, as long as the bandit
\* says, which may be any of its times.
Switched ==
    IF light.left > 1 THEN {[light EXCEPT !.left = @ - 1]}
    ELSE {[movement |-> Other(light.movement), left |-> green] : green \in GreenTicks}

Due == {i \in 1 .. 7 : elapsed >= Phases[i]} \ fired

Targeted(fleet, c, speed) == [fleet EXCEPT ![c].target = speed]

\* The car on the wrong side turns round where it stands.
TurnedRound(car) ==
    [car EXCEPT !.route = Recovery, !.passed = 0, !.target = 4000, !.cruise = 4000,
                !.left = WayTo(car.route, car.passed + 1) - @ - Routes[car.route][1]]

\* What the phases do to the cars: the two fronts stop, and are released.
Phased(fleet) ==
    IF 4 \in Due THEN Targeted(Targeted(fleet, Ego, 0), Wrong, 0)
    ELSE IF 7 \in Due
    THEN LET released == Targeted(Targeted(fleet, Ego, 5500), Bus, 6000)
         IN  [released EXCEPT ![Wrong] = TurnedRound(@)]
    ELSE fleet

\* Connectivity is posted once, and the failure of a post is ignored.
Told ==
    IF 2 \in Due THEN {mode, "DIRECT_ONLY"}
    ELSE IF 5 \in Due THEN {mode, "FULL"}
    ELSE {mode}

-----------------------------------------------------------------------------
MockInit ==
    /\ cars = [c \in DOMAIN Fleet |-> Placed(c)]
    /\ light = [movement |-> "EW", left |-> FirstGreen]
    /\ elapsed = 0
    /\ fired = {}
    /\ running = TRUE
    /\ mode = "FULL"

\* One pass of run_mock_simulation.
MockTick ==
    /\ running
    /\ elapsed < Duration
    /\ fired' = fired \cup Due
    /\ mode' \in Told
    /\ light' \in Switched
    /\ LET fleet == Spaced(Complied(Phased(cars), light'.movement))
       IN  cars' = [c \in DOMAIN fleet |-> Stepped(fleet[c])]
    /\ elapsed' = elapsed + 1
    /\ UNCHANGED running

\* The end, or a cancellation by stop.
MockEnds ==
    /\ running
    /\ running' = FALSE
    /\ UNCHANGED <<cars, light, elapsed, fired, mode>>

MockNext == MockTick \/ MockEnds

MockSpec == MockInit /\ [][MockNext]_mock

-----------------------------------------------------------------------------
\* The progress by which headway finds leaders and gaps says where a car is,
\* lap after lap: a waypoint costs it two metres at most, and none is carried
\* into the next lap.  Only the one that turns round is off.
ProgressIsPlace ==
    \A c \in DOMAIN cars :
        LET one   == cars[c]
            place == WayTo(one.route, one.passed) + (IF one.passed = Len(Routes[one.route]) THEN 0
                                                    ELSE Routes[one.route][one.passed + 1] - one.left)
        IN  one.route # Recovery =>
                /\ one.progress <= place
                /\ place - one.progress <= WaypointAt * one.passed

(***************************************************************************)
(* Claims of comments.                                                     *)
(***************************************************************************)
\* "producing a queue behind a stop or blockage instead of overlapping bodies".
Body == 2000
NoOverlap ==
    \A c \in DOMAIN cars : \A d \in DOMAIN cars \ {c} :
        cars[c].route = cars[d].route =>
            \/ cars[c].progress - cars[d].progress >= Body
            \/ cars[d].progress - cars[c].progress >= Body

\* The same: once nobody is near, a car goes again.
GoesAgain ==
    \A c \in DOMAIN cars \ {Ego, Wrong} :
        cars[c].target = 0 /\ c \notin Traffic => TooClose(cars, c)

\* "connectivity -> FULL (restoring)": no run leaves the gateway degraded.
Restored == ~running => mode = "FULL"
=============================================================================
