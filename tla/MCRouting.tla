----------------------------- MODULE MCRouting -----------------------------
(* The network of the path finder's tests, with a road between the two      *)
(* detours: three ways from a to d.                                         *)
EXTENDS Routing, TLC

R(s, d, m) == [src |-> s, dst |-> d, length |-> m, capacity |-> 16]
MCNetwork == [ab |-> R("a", "b", 109), ac |-> R("a", "c", 225), bd |-> R("b", "d", 218),
              cd |-> R("c", "d", 110), bc |-> R("b", "c", 115)]
\* Metres east of a.
East == [a |-> 0, b |-> 108, c |-> 217, d |-> 326]
MCStraight == [p \in (DOMAIN East) \X (DOMAIN East) |->
                 IF East[p[1]] < East[p[2]] THEN East[p[2]] - East[p[1]] ELSE East[p[1]] - East[p[2]]]
MCRank == [ab |-> 1, ac |-> 2, bc |-> 3, bd |-> 4, cd |-> 5]
MCRegistered == [ab |-> [capacity |-> 2, next |-> {"bd"}, junction |-> "j"],
                 bd |-> [capacity |-> 2, next |-> {}, junction |-> "j"]]
M(s, n, ratio, h, closed) ==
    [count |-> n, speed |-> s, ratio |-> ratio, hazard |-> h, downstream |-> 0, closure |-> closed]
MCPosted == {<<"bd", M(80, 0, 0, 0, TRUE)>>, <<"ac", M(80, 0, 0, 90, FALSE)>>}
MCConditions == {BuiltIn, M(130, 0, 0, 0, FALSE), M(80, 13, 90, 0, FALSE)}
FastPosted == {<<r, M(250, 0, 0, 0, FALSE)>> : r \in {"ab", "bd", "ac", "cd"}}
MCTrips == {<<"a", "d">>, <<"a", "c">>}

\* A rider's route is read by its next request only, and what becomes of the
\* graph reaches a request through reports and posts only.  So the requests
\* come when the clock has run out, and once there is a route the graph is told
\* of no further hazard and no vehicle leaves.
RequestsLast ==
    (\E v \in Riders : route'[v] # None) =>
        /\ now = MaxTime
        /\ world' = {c \in Cars : cars'[c] # None}
        /\ route = route' => UNCHANGED everSeen

MCRoutingNext == RoutingNext /\ RequestsLast

MCRoutingSpec == RoutingInit /\ [][MCRoutingNext]_roadNetwork

Symmetry == Permutations(Cars)
=============================================================================
