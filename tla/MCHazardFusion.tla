--------------------------- MODULE MCHazardFusion ---------------------------
(* The two hazard maps, which share nothing: exploring one while the other  *)
(* rests in its initial state visits every state of each.                   *)
(*                                                                          *)
(* The service has two places on either side of a cell boundary, within one *)
(* another's association radius; its sources and road segments are          *)
(* interchangeable, and so are the engine's observers.                      *)
EXTENDS HazardFusion, HazardEngine, TLC

\* Two places within the radius; the segment is not always named.
MCPoints == {[spot |-> 0, way |-> "main"], [spot |-> 40, way |-> "main"], [spot |-> 40, way |-> Nowhere]}
MCLives == [ACCIDENT |-> 1, LANE_CLOSURE |-> 2]

MapsInit == Init /\ EngineInit

\* The last moment is for what is tracked to age, not for more reports.
AllHeardInTime == clock' = MaxClock => Reports = MaxReports

MapsNext ==
    \/ EngineInit /\ Next /\ UNCHANGED engine
    \/ Init /\ EngineNext /\ AllHeardInTime /\ UNCHANGED vars

MapsSpec == MapsInit /\ [][MapsNext]_<<vars, engine>>

Symmetry == Permutations(Sources) \cup Permutations(Segments) \cup Permutations(Observers)
=============================================================================
