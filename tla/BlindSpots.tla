----------------------------- MODULE BlindSpots -----------------------------
(***************************************************************************)
(* The detectors of safety-detectors that keep nothing: blind_intersection *)
(* and blind_curve.  What they compute for a scene is an operator; the     *)
(* state is the scene, two vehicles on the approaches of a junction and a  *)
(* road network, and the steps are what may happen to it between two       *)
(* evaluations.                                                            *)
(*                                                                         *)
(* Times are tenths of a second, distances metres, confidences percent.    *)
(* The signal only scales the severity, which is left out, and so does the *)
(* distance of two vehicles around a curve; these drive up or down a road. *)
(***************************************************************************)
EXTENDS Integers, Sequences, FiniteSets

CONSTANTS Approaches, Paces, Doubts, Distances,
          ApproachLength,  \* length_m of each approach, 0 when it is not known
          OverlapNeeded,   \* blind_intersection.eta_overlap_threshold_s
          ConfidenceFloor, \* blind_intersection.min_confidence
          ApproachWithin,  \* blind_intersection.approach_distance_m
          Links, Layouts, LinkLength, LinkCurve, Begin,
          ScanWithin,      \* blind_curve.network_distance_threshold_m
          CurveNeeded,     \* blind_curve.curvature_threshold_deg
          ClosingNeeded,   \* blind_curve.min_closing_speed_mps
          Drivers          \* [on, speed, up] of vehicles on the network

ASSUME BlindConstants ==
    /\ Paces \subseteq Nat /\ Doubts \subseteq Nat /\ Distances \subseteq Nat
    /\ ApproachLength \in [Approaches -> Nat]
    /\ {OverlapNeeded, ConfidenceFloor, ApproachWithin, ScanWithin} \subseteq Nat
    /\ Layouts \subseteq [Links -> Seq(Links)]
    /\ Begin \in Links
    /\ LinkLength \in [Links -> Nat] /\ LinkCurve \in [Links -> Nat]

VARIABLES
    first, second, \* two vehicles on approaches of one conflict zone
    layout,        \* connected_segments of each link
    drivers        \* the two vehicles on the network

blind == <<first, second, layout, drivers>>

Approachers == [away : Distances, pace : Paces, doubt : Doubts, on : Approaches]
-----------------------------------------------------------------------------
MaxOf(x, y) == IF x > y THEN x ELSE y
MinOf(x, y) == IF x < y THEN x ELSE y

\* In centimetres: the distance along the road is taken to be 1.15 times the
\* straight one, and no more than the approach is long.
RoadLeft(v) ==
    IF ApproachLength[v.on] = 0 THEN 115 * v.away
    ELSE MinOf(115 * v.away, 100 * ApproachLength[v.on])

Eta(v) == RoadLeft(v) \div (10 * v.pace)
EtaDoubt(v) == (10 * v.doubt) \div v.pace + 5

Earliest(v) == MaxOf(0, Eta(v) - EtaDoubt(v))
Latest(v) == Eta(v) + EtaDoubt(v)

OverlapOfMeans(v, w) ==
    MaxOf(0, MinOf(Eta(v), Latest(w)) - MaxOf(Earliest(v), Earliest(w)))
\* _eta_overlap
Overlap(v, w) == MaxOf(0, MinOf(Latest(v), Latest(w)) - MaxOf(Earliest(v), Earliest(w)))

Confidence(v, w) == MinOf(100, (100 * Overlap(v, w)) \div (EtaDoubt(v) + EtaDoubt(w)))

Approaching(v) == v.pace > 0 /\ RoadLeft(v) <= 100 * ApproachWithin

JunctionWarns(v, w) ==
    /\ Approaching(v) /\ Approaching(w)
    /\ v.on # w.on
    /\ Overlap(v, w) > 0
    /\ Overlap(v, w) >= OverlapNeeded
    /\ Confidence(v, w) >= ConfidenceFloor
-----------------------------------------------------------------------------
\* _reachable_segments: breadth first by the number of links, and a link is
\* visited the first time it is taken from the frontier, too far or not.
Visit(walk) ==
    LET entry == Head(walk.frontier)
        link == entry.link
        dist == entry.dist + LinkLength[link]
        curve == entry.curve + LinkCurve[link]
        visited == walk.visited \cup {link}
        onward == SelectSeq(layout[link], LAMBDA n : n \notin visited)
    IN  IF link \in walk.visited THEN [walk EXCEPT !.frontier = Tail(@)]
        ELSE IF dist > ScanWithin THEN [walk EXCEPT !.frontier = Tail(@), !.visited = visited]
        ELSE [frontier |-> Tail(walk.frontier)
                               \o [i \in DOMAIN onward |-> [link |-> onward[i], dist |-> dist,
                                                            curve |-> curve]],
              visited |-> visited,
              found |-> walk.found \cup {[link |-> link, dist |-> dist, curve |-> curve]}]

StartUncounted(from) ==
    [i \in DOMAIN layout[from] |-> [link |-> layout[from][i], dist |-> 0,
                                    curve |-> LinkCurve[from]]]
Start(from) ==
    [i \in DOMAIN layout[from] |-> [link |-> layout[from][i], dist |-> LinkLength[from],
                                    curve |-> LinkCurve[from]]]

\* Each link is walked on from once, so the connections bound the turns.
Reachable(from) ==
    LET turns == Cardinality(UNION {{link} \X DOMAIN layout[link] : link \in Links})
        walk[n \in 0 .. turns] ==
            IF n = 0 THEN [frontier |-> Start(from), visited |-> {from}, found |-> {}]
            ELSE IF walk[n - 1].frontier = <<>> THEN walk[n - 1] ELSE Visit(walk[n - 1])
    IN  walk[turns].found

\* The vehicle looks round curves as far as it scans, when it moves itself.
LooksAt(v, w) ==
    /\ v.speed > 0
    /\ \E r \in Reachable(v.on) : r.link = w.on /\ r.curve >= CurveNeeded

\* _closing_speed: opposing speeds add up, others differ.
ClosingSpeed(v, w) ==
    IF v.up # w.up THEN v.speed + w.speed ELSE MaxOf(v.speed, w.speed) - MinOf(v.speed, w.speed)

\* A pair is judged once, by whichever of the two sees the other.
CurveWarns(v, w) == (LooksAt(v, w) \/ LooksAt(w, v)) /\ ClosingSpeed(v, w) >= ClosingNeeded

-----------------------------------------------------------------------------
BlindInit ==
    /\ first \in Approachers /\ second \in Approachers
    /\ layout \in Layouts
    /\ drivers = <<>>

\* A vehicle comes closer, changes its speed or is located better or worse.
Move ==
    \/ first' \in {v \in Approachers : v.on = first.on /\ v.away <= first.away} /\ UNCHANGED second
    \/ second' \in {v \in Approachers : v.on = second.on /\ v.away <= second.away} /\ UNCHANGED first

\* Two vehicles drive on the network; until then the approaches are explored.
Drive ==
    /\ drivers' \in Drivers \X Drivers
    /\ UNCHANGED <<first, second, layout>>

BlindNext ==
    \/ drivers = <<>> /\ Move /\ UNCHANGED <<layout, drivers>>
    \/ Drive

BlindSpec == BlindInit /\ [][BlindNext]_blind
-----------------------------------------------------------------------------
\* Whether a vehicle may be in the zone at a time, as far as one can tell.
MayBeThere(v, t) == Eta(v) - EtaDoubt(v) <= t /\ t <= Eta(v) + EtaDoubt(v)

\* For how long two must be expected at once: the threshold, and the share of
\* both doubts that the confidence asks for.
StretchNeeded(v, w) ==
    MaxOf(MaxOf(1, OverlapNeeded),
          (ConfidenceFloor * (EtaDoubt(v) + EtaDoubt(w)) + 99) \div 100)

\* Two vehicles on different approaches are warned of exactly when each may be
\* in the zone throughout the same stretch of the time to come, however surely or
\* vaguely each is located and whoever comes first.
OnCourseIsWarned ==
    first.on # second.on /\ Approaching(first) /\ Approaching(second) =>
        (JunctionWarns(first, second) <=>
            \E t \in 0 .. Latest(first) :
                \A x \in {t, t + StretchNeeded(first, second)} :
                    MayBeThere(first, x) /\ MayBeThere(second, x))

\* "vehicles on intersecting approach segments whose ETA distributions to the
\* conflict zone overlap" are identified: two that arrive at the same time are.
CollisionIsWarned ==
    /\ first.on # second.on
    /\ Approaching(first) /\ Approaching(second)
    /\ Eta(first) = Eta(second)
    => JunctionWarns(first, second)

\* The paths from Begin without a repeated link.
Extended(p) == {Append(p, layout[p[Len(p)]][i]) : i \in
                  {k \in DOMAIN layout[p[Len(p)]] : \A j \in DOMAIN p : p[j] # layout[p[Len(p)]][k]}}
Paths(goal) ==
    LET paths[n \in 0 .. Cardinality(Links)] ==
            IF n = 0 THEN {<<Begin>>}
            ELSE paths[n - 1] \cup UNION {Extended(p) : p \in paths[n - 1]}
    IN  {p \in paths[Cardinality(Links)] : p[Len(p)] = goal}

Along(p, measure) ==
    LET total[i \in 0..Len(p)] == IF i = 0 THEN 0 ELSE total[i - 1] + measure[p[i]]
    IN  total[Len(p)]

\* What the walk returns for a link are the length and the curvature of one
\* path to it, its own link included, within the distance scanned.
ReachIsAPath ==
    \A r \in Reachable(Begin) :
        /\ r.dist <= ScanWithin
        /\ \E p \in Paths(r.link) : Along(p, LinkLength) = r.dist /\ Along(p, LinkCurve) = r.curve

\* What the docstring says and the code does not do: "every reachable segment
\* within max_distance_m network distance".  A link first met on a path that
\* is too long stays visited, and the shorter path finds it taken.
ReachIsComplete ==
    \A link \in Links \ {Begin} :
        (\E p \in Paths(link) : Along(p, LinkLength) <= ScanWithin)
            => \E r \in Reachable(Begin) : r.link = link

\* "actors [...] closing on a shared curve": two that face each other within the
\* curve are on one segment, and no segment reaches itself.
SharedCurveWarned ==
    drivers # <<>> =>
        LET v == drivers[1]
            w == drivers[2]
        IN  (/\ v.on = w.on
             /\ LinkCurve[v.on] >= CurveNeeded
             /\ v.up # w.up
             /\ ClosingSpeed(v, w) >= ClosingNeeded)
            => CurveWarns(v, w)
=============================================================================
