----------------------------- MODULE MCEdgeV2X -----------------------------
(***************************************************************************)
(* EdgeV2X on a street with three places, each in range of the next.       *)
(* Vehicles at one place are in the worse conflict, those at neighbouring  *)
(* places in a lesser one that only the one behind (the lower place) sees, *)
(* as with a vehicle that brakes ahead.                                    *)
(***************************************************************************)
EXTENDS EdgeV2X, TLC

Place  == 0..2
Radio  == {<<x, y>> \in Place \X Place : x <= y + 1 /\ y <= x + 1}
Street == [xy \in Place \X Place |->
              IF xy[1] = xy[2] THEN 2 ELSE IF xy[2] = xy[1] + 1 THEN 1 ELSE 0]

Slots  == Permutations(Slot)

=============================================================================
