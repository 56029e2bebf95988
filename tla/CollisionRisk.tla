---------------------------- MODULE CollisionRisk ----------------------------
(***************************************************************************)
(* The collision risks of the gateway (services/risk over the states that  *)
(* services/position fuses) and of the edge nodes (edge_v2x/risk.py): cars *)
(* drive straight on, some brake; each is reported from one of two sources *)
(* once a second, in any order; the gateway evaluates all pairs of the     *)
(* states it has after every report, the edge those of an ego car.         *)
(*                                                                         *)
(* Lengths are in half metres on a plane, speeds in half metres a second,  *)
(* times in seconds; headings are compass points.  Closest approaches are  *)
(* compared squared and multiplied out, which is exact; a fused position   *)
(* is rounded to half metres, its uncertainty up.  Of a risk there is the  *)
(* pair and its kind: severities and confidences decide nothing here.      *)
(***************************************************************************)
EXTENDS Integers, FiniteSets

CONSTANTS Scenes,      \* car -> [at, heading, speed, lane, braking, vru] of each start
          Accuracy,    \* source -> its position_uncertainty_m
          Errors,      \* source -> how far off its places may be
          LastSecond   \* bound of the model on time

Car == UNION {DOMAIN scene : scene \in Scenes}
Unknown == [ts |-> -1]

VARIABLES road,    \* the cars as they are
          second,  \* the time
          poses,   \* car -> the state the gateway has of it
          risks,   \* [centre, edge]: pairs at risk, by the last report
          warned   \* the risks of a second before, and the cars that were where they seemed

collision == <<road, second, poses, risks, warned>>

-----------------------------------------------------------------------------
(* Arithmetic.                                                              *)
Square(n) == n * n
Abs(n)    == IF n < 0 THEN -n ELSE n
Dot(a, b) == a[1] * b[1] + a[2] * b[2]
Minus(a, b) == <<a[1] - b[1], a[2] - b[2]>>

\* The least root whose square is n at least.
RootUp(n) == CHOOSE r \in 0 .. n : Square(r) >= n /\ (r = 0 \/ Square(r - 1) < n)

Towards == [north |-> <<0, 1>>, east |-> <<1, 0>>, south |-> <<0, -1>>, west |-> <<-1, 0>>]
Bearing == [north |-> 0, east |-> 90, south |-> 180, west |-> 270]

Velocity(car) == <<Towards[car.heading][1] * car.speed, Towards[car.heading][2] * car.speed>>

HeadingDelta(a, b) ==
    LET turn == Abs(Bearing[a.heading] - Bearing[b.heading])
    IN  IF turn > 180 THEN 360 - turn ELSE turn

-----------------------------------------------------------------------------
(* services/position: fuse_with_previous and fuse.                          *)
MemoryLasts == 10     \* a prior older than this says nothing
Growth      == 3      \* 1.5 m a second

\* Weights are the inverse variances.
FusedAt(prior, new) ==
    [i \in 1 .. 2 |-> (prior.at[i] * Square(new.unsure) + new.at[i] * Square(prior.unsure))
                          \div (Square(prior.unsure) + Square(new.unsure))]

\* The prior has been given the time of the new state, and of two states of one
\* time the first is the latest: speed, heading, segment and source stay those
\* of the prior.
Fused(prior, new) ==
    [prior EXCEPT !.ts = new.ts,
                  !.at = FusedAt(prior, new),
                  !.unsure = RootUp((Square(prior.unsure) * Square(new.unsure))
                                        \div (Square(prior.unsure) + Square(new.unsure)))]

\* The prior ages by its uncertainty only: it stays where it was.
WithPrevious(prior, new) ==
    IF new.ts - prior.ts \in 1 .. MemoryLasts
    THEN Fused([prior EXCEPT !.unsure = @ + Growth * (new.ts - prior.ts)], new)
    ELSE new

\* ingest_vehicle_state fuses with what another source said.
Ingested(prior, new) ==
    IF prior = Unknown \/ prior.source = new.source THEN new ELSE WithPrevious(prior, new)

-----------------------------------------------------------------------------
(* services/risk: evaluate_pair.                                            *)
Horizon    == 19      \* 9.5 s, in half seconds
Clearance  == 7       \* 3.5 m
MaxRange   == 150     \* 75 m
LaneMates  == 36      \* 18 m

Offset(a, b)    == Minus(b.at, a.at)
Relative(a, b) == Minus(Velocity(b), Velocity(a))
Near(a, b, d)  == Dot(Offset(a, b), Offset(a, b)) <= Square(d)

\* Minus the time to the closest approach, times the relative speed squared.
Receding(a, b) == Dot(Offset(a, b), Relative(a, b))

BeforeHorizon(a, b) ==
    -2 * Receding(a, b) < Horizon * Dot(Relative(a, b), Relative(a, b))

\* The distance of the closest approach, squared, times the relative speed
\* squared when it is yet to come.
Approach(a, b) ==
    IF Receding(a, b) >= 0 THEN Dot(Offset(a, b), Offset(a, b))
    ELSE Dot(Offset(a, b), Offset(a, b)) - Square(Receding(a, b)) \div Dot(Relative(a, b), Relative(a, b))

CollidesExactly(a, b) ==                                        \* variant
    Relative(a, b) # <<0, 0>> /\ Approach(a, b) <= Square(Clearance) /\ BeforeHorizon(a, b)

Collides(a, b) ==
    /\ Relative(a, b) # <<0, 0>>
    /\ Approach(a, b) <= Square(Clearance + a.unsure + b.unsure)
    /\ BeforeHorizon(a, b)

\* Cars that follow each other on a segment count only when close.
Following(a, b) ==
    /\ a.lane # "" /\ a.lane = b.lane
    /\ HeadingDelta(a, b) <= 30
    /\ ~Near(a, b, LaneMates)

Risky(a, b) == Near(a, b, MaxRange) /\ Collides(a, b) /\ ~Following(a, b)

KindOf(a, b) ==
    IF HeadingDelta(a, b) >= 150 THEN "HEAD_ON"
    ELSE IF HeadingDelta(a, b) <= 30 THEN "REAR_END"
    ELSE "INTERSECTION_CONFLICT"

KnownCars(heard) == {c \in Car : heard[c] # Unknown}

\* evaluate_all.
CentreRisks(heard) ==
    {[pair |-> {c, d}, kind |-> KindOf(heard[c], heard[d])] :
        <<c, d>> \in {p \in KnownCars(heard) \X KnownCars(heard) :
                        p[1] # p[2] /\ Risky(heard[p[1]], heard[p[2]])}}

-----------------------------------------------------------------------------
(* edge_v2x/risk.py, for an ego car and a peer.                             *)
HardBraking == 8      \* 4 m/s^2

\* A peer that brakes hard while the ego car is faster the same way; that the
\* peer is ahead is not asked.
Braking(ego, peer) ==
    /\ peer.braking >= HardBraking
    /\ HeadingDelta(ego, peer) <= 30
    /\ ego.speed > peer.speed
    /\ 4 * Dot(Offset(ego, peer), Offset(ego, peer)) <= Square(Horizon * (ego.speed - peer.speed))

EdgeKind(ego, peer) ==
    IF Braking(ego, peer) THEN "EMERGENCY_BRAKING"
    ELSE IF (ego.vru \/ peer.vru) /\ KindOf(ego, peer) = "INTERSECTION_CONFLICT"
    THEN "PEDESTRIAN_CONFLICT"
    ELSE KindOf(ego, peer)

EdgeRisks(heard) ==
    {[ego |-> p[1], peer |-> p[2], kind |-> EdgeKind(heard[p[1]], heard[p[2]])] :
        p \in {q \in KnownCars(heard) \X KnownCars(heard) :
                 /\ q[1] # q[2]
                 /\ Near(heard[q[1]], heard[q[2]], MaxRange)
                 /\ \/ Braking(heard[q[1]], heard[q[2]])
                    \/ Collides(heard[q[1]], heard[q[2]]) /\ ~Following(heard[q[1]], heard[q[2]])}}

-----------------------------------------------------------------------------
NoRisk == [centre |-> {}, edge |-> {}]

RiskInit ==
    /\ road \in Scenes
    /\ second = 0
    /\ poses = [c \in Car |-> Unknown]
    /\ risks = NoRisk
    /\ warned = [risks |-> NoRisk, true |-> {}]

\* A source's report of a car, as far off as the source's errors go.
Seen(c, s, error) ==
    [at |-> <<road[c].at[1] + error[1], road[c].at[2] + error[2]>>, heading |-> road[c].heading, speed |-> road[c].speed, lane |-> road[c].lane,
     braking |-> IF road[c].speed > 0 THEN road[c].braking ELSE 0, vru |-> road[c].vru,
     unsure |-> Accuracy[s], source |-> s, ts |-> second]

Report(c, s) ==
    /\ \E error \in Errors[s] : poses' = [poses EXCEPT ![c] = Ingested(@, Seen(c, s, error))]
    /\ risks' = [centre |-> CentreRisks(poses'), edge |-> EdgeRisks(poses')]
    /\ UNCHANGED <<road, second, warned>>

Complete == \A c \in DOMAIN road : poses[c] # Unknown /\ poses[c].ts = second

Driven(car) ==
    LET speed == IF car.speed > car.braking THEN car.speed - car.braking ELSE 0
    IN  [car EXCEPT !.at = [i \in 1 .. 2 |-> @[i] + Towards[car.heading][i] * speed], !.speed = speed]

\* The place of a state is as close to the car as it says.
Placed(c) == Near(poses[c], road[c], poses[c].unsure)

Moving(c) == Velocity(poses[c]) = Velocity(road[c])

\* A second later; every car has been reported.
Second ==
    /\ second < LastSecond /\ Complete
    /\ second' = second + 1
    /\ road' = [c \in DOMAIN road |-> Driven(road[c])]
    /\ warned' = [risks |-> risks, true |-> {c \in DOMAIN road : Placed(c) /\ Moving(c)}]
    /\ UNCHANGED <<poses, risks>>

RiskNext ==
    \/ \E c \in DOMAIN road, s \in DOMAIN Accuracy : Report(c, s)
    \/ Second

-----------------------------------------------------------------------------
\* Two cars that come within the clearance of each other were at risk a second
\* before, to the gateway and to each at the edge, whichever sources reported
\* them, in whatever order and with whatever error, provided that each was then
\* where the gateway thought, as far as that claims to know, and as fast.
Foretold ==
    \A c, d \in warned.true :
        c # d /\ Near(road[c], road[d], Clearance) /\ Relative(road[c], road[d]) # <<0, 0>> =>
            /\ \E r \in warned.risks.centre : r.pair = {c, d}
            /\ \E r \in warned.risks.edge : r.ego = c /\ r.peer = d

(***************************************************************************)
(* Claims of comments.                                                     *)
(***************************************************************************)
\* "Detect emergency braking by a peer ahead of the ego vehicle".
BrakesAhead ==
    \A r \in risks.edge : r.kind = "EMERGENCY_BRAKING" =>
        Dot(Offset(poses[r.ego], poses[r.peer]), Velocity(poses[r.ego])) > 0

\* "The newest kinematic fields are retained": a state that was just reported
\* moves as the car does.
NewestKinematics == \A c \in DOMAIN road : poses[c] # Unknown /\ poses[c].ts = second => Moving(c)

\* "Fusion is reserved for truly independent sources": what two sources say of
\* a car is as precise, together, as it claims.
PrecisionIsHonest ==
    \A c \in DOMAIN road : poses[c] # Unknown /\ poses[c].ts = second => Placed(c)
=============================================================================
