--------------------------- MODULE MotionDetectors ---------------------------
(***************************************************************************)
(* The safety detectors that remember vehicles between evaluations:        *)
(* wrong_way, stalled_vehicle and emergency_braking of safety-detectors,   *)
(* behind POST /v1/evaluate and POST /v1/evaluate/{detector_name}.         *)
(*                                                                         *)
(* An evaluation receives a scene: the vehicles a client saw and whether   *)
(* it sent the road network.  evaluate never awaits, so it is one step.    *)
(* A vehicle that does not parse or a segment without an id fails every    *)
(* detector before it looks at any vehicle; a segment without a direction  *)
(* fails wrong_way in the middle of them.                                  *)
(*                                                                         *)
(* Severity, confidence, evidence and the list of endangered road users    *)
(* are left out: no detector reads them again.                             *)
(***************************************************************************)
EXTENDS Integers, Sequences, FiniteSets

CONSTANTS Cars, Roads,
          Scenes,         \* what a client may send
          Undirected,     \* segments that may come without direction_deg
          MinSpeed,       \* wrong_way.min_speed_mps
          Persistence,    \* wrong_way.min_persistence_updates
          StandingSpeed,  \* stalled_vehicle.max_speed_mps
          StandingTime,   \* stalled_vehicle.min_stopped_duration_s
          FlowSpeed,      \* stalled_vehicle.surrounding_flow_threshold_mps
          BrakingTime,    \* emergency_braking.min_duration_s
          MaxMoment, MaxScenes, \* bounds of the model
          Absent

\* road is the segment the vehicle was matched to, and lane may be unknown.
Sightings == [speed : Nat, road : Roads \cup {Absent}, against : BOOLEAN,
              lane : {"travel", "shoulder", Absent}, hard : BOOLEAN]

ASSUME MotionConstants ==
    /\ Scenes \subseteq [cars : [Cars -> Sightings \cup {Absent}], roads : BOOLEAN]
    /\ Undirected \subseteq Roads
    /\ {MinSpeed, Persistence, StandingSpeed, StandingTime, FlowSpeed,
        BrakingTime, MaxMoment, MaxScenes} \subseteq Nat

VARIABLES
    moment,     \* the clock
    countOf,    \* wrong_way._persistence
    standing,   \* stalled_vehicle._stopped_state
    braking,    \* emergency_braking._braking_state
    raised,     \* the risks of the last evaluation: detector and car
    history     \* history: the scenes evaluated since the detectors were built,
                \* and the vehicles that wrong_way got to

memory == <<countOf, standing, braking>>
motion == <<moment, countOf, standing, braking, raised, history>>

Nothing == [c \in Cars |-> Absent]

MotionInit ==
    /\ moment = 0
    /\ countOf = Nothing /\ standing = Nothing /\ braking = Nothing
    /\ raised = {}
    /\ history = <<>>

Present(scene) == {c \in Cars : scene.cars[c] # Absent}
-----------------------------------------------------------------------------
\* wrong_way: only a moving vehicle matched to a segment, against it, counts,
\* and only on the segment it was counted on before.
Against(s, scene) == /\ s # Absent /\ scene.roads
                     /\ s.speed >= MinSpeed /\ s.road # Absent /\ s.against

CountedAnywhere(c, scene) ==
    LET s == scene.cars[c]
    IN  IF ~Against(s, scene) THEN Absent
        ELSE IF countOf[c] # Absent
             THEN [count |-> countOf[c].count + 1, road |-> s.road]
             ELSE [count |-> 1, road |-> s.road]
Counted(c, scene) ==
    LET s == scene.cars[c]
    IN  IF ~Against(s, scene) THEN Absent
        ELSE IF countOf[c] # Absent /\ countOf[c].road = s.road
             THEN [countOf[c] EXCEPT !.count = @ + 1]
             ELSE [count |-> 1, road |-> s.road]

\* Without vehicles or without roads the detector returns at once; an
\* exception leaves the vehicles it did not get to as they were.
WrongWayAfter(scene, got) ==
    IF Present(scene) = {} \/ ~scene.roads THEN countOf
    ELSE [c \in Cars |-> IF c \in got THEN Counted(c, scene) ELSE countOf[c]]

WrongWayRisks(scene) ==
    IF Present(scene) = {} \/ ~scene.roads THEN {}
    ELSE {c \in Present(scene) :
             /\ Counted(c, scene) # Absent
             /\ Counted(c, scene).count >= Persistence}

\* The direction of a vehicle's segment is read when it moves; that of the
\* others' segments when a driver is confirmed that they may meet.
ReadsDirection(c, scene, road) ==
    /\ c \in Present(scene)
    /\ scene.cars[c].speed >= MinSpeed /\ scene.cars[c].road = road
Meets(c, scene, road) ==
    /\ c \in WrongWayRisks(scene)
    /\ \E d \in Present(scene) \ {c} : scene.cars[d].road = road
-----------------------------------------------------------------------------
Stands(s) == s # Absent /\ s.speed <= StandingSpeed

SinceForever(c, scene) ==
    IF scene.cars[c] = Absent THEN Absent
    ELSE IF standing[c] # Absent THEN standing[c]
    ELSE IF Stands(scene.cars[c]) THEN [since |-> moment, escalated |-> FALSE] ELSE Absent
\* A vehicle that moves, or is missing among others, is forgotten.
Since(c, scene) ==
    IF ~Stands(scene.cars[c]) THEN Absent
    ELSE IF standing[c] # Absent THEN standing[c]
    ELSE [since |-> moment, escalated |-> FALSE]

\* The mean speed of the others is compared without a division; alone on the
\* road a vehicle is not in a queue.
FlowsAround(c, scene) ==
    LET others == Present(scene) \ {c}
        total[S \in SUBSET Cars] ==
            IF S = {} THEN 0
            ELSE LET d == CHOOSE d \in S : TRUE IN scene.cars[d].speed + total[S \ {d}]
    IN  total[others] >= FlowSpeed * Cardinality(others)

InLane(s, scene) == \/ s.lane = "travel"
                    \/ s.lane = Absent /\ s.road # Absent /\ scene.roads

Obstructs(c, scene) ==
    /\ Stands(scene.cars[c])
    /\ moment - Since(c, scene).since >= StandingTime
    /\ InLane(scene.cars[c], scene)
    /\ FlowsAround(c, scene)

StalledAfter(scene) ==
    IF Present(scene) = {} THEN standing
    ELSE [c \in Cars |-> IF Obstructs(c, scene)
                         THEN [Since(c, scene) EXCEPT !.escalated = TRUE]
                         ELSE Since(c, scene)]

StalledRisks(scene) == {c \in Present(scene) : Obstructs(c, scene)}
-----------------------------------------------------------------------------
Brakes(s) == s # Absent /\ s.hard

BrakingSince(c, scene) ==
    IF ~Brakes(scene.cars[c]) THEN Absent
    ELSE IF braking[c] # Absent THEN braking[c] ELSE [since |-> moment]

BrakingAfter(scene) ==
    IF Present(scene) = {} THEN braking ELSE [c \in Cars |-> BrakingSince(c, scene)]

BrakingRisks(scene) ==
    {c \in Present(scene) : /\ Brakes(scene.cars[c])
                            /\ moment - BrakingSince(c, scene).since >= BrakingTime}
-----------------------------------------------------------------------------
\* POST /v1/evaluate runs every detector.
Watch(scene, got, confirmed) ==
    /\ Len(history) < MaxScenes
    /\ countOf' = WrongWayAfter(scene, got)
    /\ standing' = StalledAfter(scene)
    /\ braking' = BrakingAfter(scene)
    /\ raised' = ({"wrong_way"} \X confirmed)
                   \cup ({"stalled"} \X StalledRisks(scene))
                   \cup ({"braking"} \X BrakingRisks(scene))
    /\ history' = Append(history, [at |-> moment, scene |-> scene, got |-> got])
    /\ UNCHANGED moment

EvaluateAll(scene) == Watch(scene, Cars, WrongWayRisks(scene))

\* A segment without its direction: wrong_way raises at the first vehicle that
\* needs it, having got to those before it in the list of the client, returns
\* no risk and forgets nobody.  The others read no directions.
EvaluateUndirected(scene, road, got) ==
    /\ scene.roads
    /\ \A c \in got : ~ReadsDirection(c, scene, road)
    /\ \/ \E c \in Present(scene) \ got : ReadsDirection(c, scene, road)
       \/ \E c \in got : Meets(c, scene, road)
    /\ Watch(scene, got, {})

\* A vehicle that is not a VehicleState, or a segment without an id: the
\* exception is caught by the endpoint, which answers with the error and no
\* risk.
EvaluateMalformed ==
    /\ raised' = {}
    /\ UNCHANGED <<moment, memory, history>>

\* PUT /v1/config builds every detector anew.
RebuildDetectors ==
    /\ history # <<>>
    /\ countOf' = Nothing /\ standing' = Nothing /\ braking' = Nothing
    /\ raised' = {} /\ history' = <<>>
    /\ UNCHANGED moment

Later ==
    /\ moment < MaxMoment
    /\ moment' = moment + 1
    /\ raised' = {}
    /\ UNCHANGED <<memory, history>>

MotionNext ==
    \/ \E scene \in Scenes : EvaluateAll(scene)
    \/ \E scene \in Scenes, road \in Undirected : \E got \in SUBSET Present(scene) :
          EvaluateUndirected(scene, road, got)
    \/ EvaluateMalformed
    \/ RebuildDetectors
    \/ Later

MotionSpec == MotionInit /\ [][MotionNext]_motion
-----------------------------------------------------------------------------
\* The evaluations that looked at vehicles, from the i-th on.
Looked(i) == {j \in i..Len(history) : Present(history[j].scene) # {}}

\* A wrong-way risk is backed by as many evaluations in a row that got to the
\* vehicle, each of which saw it moving against one and the same segment:
\* speed, a lost map match, another segment or a scene without it starts the
\* count again, also when evaluations in between fail half way.
WrongWayPersists ==
    \A c \in Cars : <<"wrong_way", c>> \in raised =>
        \E i \in 1..Len(history) : \E road \in Roads :
            LET rows == {j \in Looked(i) : history[j].scene.roads /\ c \in history[j].got}
            IN  /\ Cardinality(rows) >= Persistence
                /\ \A j \in rows : LET s == history[j].scene.cars[c]
                                   IN  Against(s, history[j].scene) /\ s.road = road

\* A vehicle reported as stalled, or as braking hard, did so in every scene
\* with vehicles for the whole of the required time.
HeldAllAlong ==
    \A c \in Cars, kind \in {"stalled", "braking"} : <<kind, c>> \in raised =>
        \E i \in 1..Len(history) :
            /\ moment - history[i].at >= IF kind = "stalled" THEN StandingTime ELSE BrakingTime
            /\ \A j \in Looked(i) : LET s == history[j].scene.cars[c]
                                     IN  IF kind = "stalled" THEN Stands(s) ELSE Brakes(s)

\* Both: what is reported was sustained.
ReportsSustained == WrongWayPersists /\ HeldAllAlong

\* What a comment says and the code does not do: "Prune stale entries for
\* actors no longer in the world state".  When no vehicle is left nothing is
\* pruned, and a vehicle that comes back is taken to have stood there.
AbsenceForgets ==
    history # <<>> =>
        \A c \in Cars : history[Len(history)].scene.cars[c] = Absent =>
            /\ standing[c] = Absent /\ braking[c] = Absent /\ countOf[c] = Absent

\* And another: "across min_persistence_updates consecutive ticks".  One in
\* which the detector raises before it gets to the vehicle does not start the
\* count again.
ConsecutiveUpdates ==
    \A c \in Cars : <<"wrong_way", c>> \in raised =>
        \A j \in Looked(1) :
            LET s == history[j].scene.cars[c]
            IN  j > Len(history) - Persistence /\ history[j].scene.roads =>
                    /\ Against(s, history[j].scene)
                    /\ s.road = history[Len(history)].scene.cars[c].road
=============================================================================
