----------------------------- MODULE MCServices -----------------------------
(* The alert platform, the trust pipeline and the collision risks, which    *)
(* share nothing: exploring one while the others rest in their initial      *)
(* states visits every state of each.                                       *)
(*                                                                          *)
(* Two connections, one of which sees one of the two keys only.  One sender *)
(* that may earn a level and one that may not, with three messages of the   *)
(* first: two share a nonce, one claims an emergency role.                  *)
EXTENDS AlertService, Trust, CollisionRisk, TLC

CONSTANTS c1, c2, k1, k2, s1, s2, a1, ca, cb, gps, rsu

NarrowBox == (c1 :> {k1, k2}) @@ (c2 :> {k1})

MCBurst == [l \in Levels |-> IF l = "UNTRUSTED" THEN 1 ELSE 2]
MCRate == [l \in Levels |-> 1]

Plain(s, n, h, exp) == [sender |-> s, nonce |-> n, hash |-> h, issued |-> 0, expires |-> exp,
                        role |-> Nothing, report |-> Nothing]
At(place, speed, at) == [actor |-> a1, place |-> place, speed |-> speed, at |-> at]

MCMessages == {Plain(s1, 1, 0, 2), Plain(s1, 1, 1, 5),
               [Plain(s1, 2, 0, 5) EXCEPT !.role = 7, !.report = At(0, 10, 0)],
               [Plain(s1, 3, 0, 5) EXCEPT !.report = At(60, 10, 1), !.issued = 1],
               [Plain(s2, 1, 0, 4) EXCEPT !.report = At(500, -1, 2)]}

MCGrants == {[level |-> "HIGH", roles |-> {7}, expires |-> 3],
             [level |-> "HIGH", roles |-> {}, expires |-> Nothing]}

MCMaxSpeed == [a \in Actors |-> 20]
MCMaxAccel == [a \in Actors |-> 5]

\* Two cars on crossing roads, face to face, and behind each other, one of
\* them standing or braking, that all meet at the fourth second.
Going(at, heading, speed, lane, braking, vru) ==
    [at |-> at, heading |-> heading, speed |-> speed, lane |-> lane, braking |-> braking, vru |-> vru]
Drives(at, speed) == Going(<<at, 0>>, "east", speed, "we", 0, FALSE)
MCScenes ==
    {ca :> Drives(-4 * v, v) @@ cb :> Going(<<0, -4 * w>>, "north", w, "sn", 0, w = 4) :
        v \in {12, 20, 30}, w \in {4, 16, 30}}
    \cup {ca :> Drives(-4 * v, v) @@ cb :> Going(<<120, 3>>, "west", 30, "ew", 0, FALSE) :
        v \in {0, 16, 30}}
    \cup {ca :> Drives(0, 16) @@ cb :> Drives(66, 0),
          ca :> Drives(0, 14) @@ cb :> Going(<<36, 0>>, "east", 14, "we", 10, FALSE),
          ca :> Drives(60, 14) @@ cb :> Going(<<0, 0>>, "east", 24, "we", 10, FALSE)}
MCAccuracy == gps :> 8 @@ rsu :> 3
MCErrors == gps :> {<<8, 0>>, <<0, -5>>} @@ rsu :> {<<0, 3>>}

ServicesInit == Init /\ TrustInit /\ RiskInit

\* One start of the cars is enough for the others to be explored from.
FirstScene == CHOOSE scene \in MCScenes : TRUE
Parked == second = 0 /\ road = FirstScene /\ poses = [c \in Car |-> Unknown]

\* A connection is told of one alert by the side of another, or of two alerts
\* alone.
OneWatchesTwo == Len(born') = MaxAlerts => \E c \in Clients : link'[c] = "new"

ServicesNext ==
    \/ TrustInit /\ Parked /\ Next /\ OneWatchesTwo /\ UNCHANGED <<trust, collision>>
    \/ Init /\ Parked /\ TrustNext /\ UNCHANGED <<vars, collision>>
    \/ Init /\ TrustInit /\ RiskNext /\ UNCHANGED <<vars, trust>>

ServicesSpec == ServicesInit /\ [][ServicesNext]_<<vars, trust, collision>>
=============================================================================
