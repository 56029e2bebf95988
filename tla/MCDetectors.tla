---------------------------- MODULE MCDetectors ----------------------------
(* The detectors of safety-detectors and the alerts they are judged into,   *)
(* which share nothing: exploring some while the others rest in an initial  *)
(* state visits every state of each.                                        *)
EXTENDS SafetyAlerts, MotionDetectors, TrackDetectors, BlindSpots, TLC
CONSTANTS g1, g2, v1, v2, e1, e2, a1, a2, k1, k2, k12

\* A pedestrian (a1) and a car (a2); one risk for each and one for both.
MCActors == {a1, a2}
MCKeys == {k1, k2, k12}
MCKeyOf == [r \in Risks |-> r]
MCActorsOf == (k1 :> <<a1>>) @@ (k2 :> <<a2>>) @@ (k12 :> <<a1, a2>>)
MCTypeWeight == (a1 :> 15) @@ (a2 :> 10)
MCSpeedOf == (a1 :> 2) @@ (a2 :> 14)
MCCollisions == {k2}
MCScores == {0, 100}
MCTtcs == {1, 8}

Sighting(speed, road, against, lane, hard) ==
    [speed |-> speed, road |-> road, against |-> against, lane |-> lane, hard |-> hard]
\* A vehicle that stands in its lane, stands on a shoulder, drives against g1,
\* against g2, or brakes hard; another that is slow on g2, or not there.
MCScenes ==
    LET one == {Sighting(0, g1, FALSE, Absent, FALSE), Sighting(0, g1, FALSE, "shoulder", FALSE),
                Sighting(12, g1, TRUE, "travel", FALSE), Sighting(12, g2, TRUE, "travel", TRUE),
                Absent}
        other == {Sighting(9, g2, FALSE, "travel", FALSE), Absent}
    IN  {[cars |-> (v1 :> s) @@ (v2 :> t), roads |-> b] : s \in one, t \in other, b \in BOOLEAN}

\* Two emergency vehicles; the first credential may be refused, late, fine or
\* without a time zone.
MCBatches ==
    LET cred(c, ok, until) == [car |-> c, verified |-> ok, expires |-> until]
    IN  {<<>>, <<cred(e1, TRUE, 1)>>, <<cred(e1, FALSE, Unknown)>>,
         <<cred(e1, TRUE, Naive), cred(e2, FALSE, 1)>>, <<cred(e1, TRUE, Unknown), cred(e2, TRUE, 1)>>}
MCFades == [d \in 1..(MaxInstant + 1) |-> <<600, 360, 220, 130, 80>>[d]]
MCReports == {[age |-> g, at |-> 10, speed |-> 3, certainty |-> n] : g \in {-1, 0, 1}, n \in {200, 900}}

\* A junction with two approaches, the length of one of them known; the road
\* begins at "s" and forks to "p" and "q", which may lead on to "t" by way of
\* "u" or directly.
MCApproachLength == [north |-> 0, east |-> 30]
MCLinks == {"s", "p", "q", "t", "u"}
MCLayouts ==
    LET net(s, p, q) == [l \in MCLinks |-> CASE l = "s" -> s [] l = "p" -> p [] l = "q" -> q
                                            [] l = "u" -> <<"t">> [] OTHER -> <<>>]
    IN  {net(s, p, q) : s \in {<<"p", "q">>, <<"q", "p">>, <<"p">>},
                        p \in {<<"t">>, <<"q">>, <<"s">>}, q \in {<<"u">>, <<"u", "t">>, <<>>}}
MCLength == [s |-> 20, p |-> 90, q |-> 30, t |-> 50, u |-> 20]
MCCurve == [s |-> 0, p |-> 60, q |-> 40, t |-> 10, u |-> 20]

MCDrivers == [on : {"p", "q", "t"}, speed : {0, 8}, up : BOOLEAN]

Waiting == [way \in Approaches |-> [away |-> 10, pace |-> 5, doubt |-> 80, on |-> way]]
SomeLayout == CHOOSE net \in Layouts : TRUE

NobodyNear == first = Waiting["north"] /\ second = Waiting["east"]
AnyRoads == layout = SomeLayout

BlindRest == NobodyNear /\ drivers = <<>> /\ AnyRoads

\* The junction and the network share nothing either.
DetectorsInit == Init /\ MotionInit /\ FollowInit /\ BlindInit /\ (NobodyNear \/ AnyRoads)

\* The entry points of the prioritizer share only the log of suppressions,
\* which each fills by itself: one of them is used at a time.
OneEntry == rounds' # 0 => issued' = <<>> /\ call' = None

\* A prioritizer made by a reconfiguration evaluates one risk after the last
\* alert but one: it may refuse it or displace an alert, and returns none.
LastAfterReinit == reinits' > 0 => Len(issued') < MaxIssued /\ now' < MaxTime

DetectorsNext ==
    \/ /\ MotionInit /\ FollowInit /\ BlindRest /\ Next /\ OneEntry /\ LastAfterReinit
       /\ UNCHANGED <<motion, following, blind>>
    \/ Init /\ FollowInit /\ BlindRest /\ MotionNext /\ UNCHANGED <<vars, following, blind>>
    \/ Init /\ MotionInit /\ BlindRest /\ FollowNext /\ UNCHANGED <<vars, motion, blind>>
    \/ /\ Init /\ MotionInit /\ FollowInit /\ BlindNext
       /\ NobodyNear' \/ (AnyRoads /\ drivers' = <<>>)
       /\ UNCHANGED <<vars, motion, following>>

DetectorsSpec == DetectorsInit /\ [][DetectorsNext]_<<vars, motion, following, blind>>
=============================================================================
