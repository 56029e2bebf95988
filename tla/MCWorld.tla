------------------------------ MODULE MCWorld ------------------------------
(* The world with its stream to the dashboards, and the browser tabs that   *)
(* feed it.  They share nothing here: what the tabs publish is one of the   *)
(* frames the world takes in any order.  Exploring one while the other is   *)
(* in its initial state, where fairness obliges it to nothing, visits every *)
(* behaviour of each.                                                       *)
EXTENDS WorldState, TelemetryFeed, TLC

CONSTANTS t1, t2, map, studio

MCViews == t1 :> {map, studio} @@ t2 :> {map}
MCFleet == t1 :> 1 @@ t2 :> 0

WorldInit == Init /\ FeedInit

\* Bounds of the model: connectivity is reported before anything is stored and
\* hazards while at most one object was, which everything else may follow; no
\* more than two views are open, of one tab or of both.
ModeFirst == mode' # mode => stored = 0
HazardEarly == (\E h \in Hazard : world'[h] # world[h]) => stored <= 1
TwoOpen == Cardinality(holders[t1]) + Cardinality(holders[t2]) <= 2

WorldNext ==
    \/ FeedInit /\ Next /\ ModeFirst /\ HazardEarly /\ UNCHANGED telemetry
    \/ Init /\ FeedNext /\ TwoOpen' /\ UNCHANGED vars

WorldSpec ==
    /\ WorldInit /\ [][WorldNext]_<<vars, telemetry>>
    /\ Fairness /\ FeedFairness
=============================================================================
