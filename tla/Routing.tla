------------------------------ MODULE Routing ------------------------------
(***************************************************************************)
(* Cooperative routing over the live mobility graph: a road network with   *)
(* the last metrics of each road, a shortest-path search over a composite  *)
(* cost, and the route last computed for each rider.  The gateway feeds    *)
(* each report of a vehicle to the graph and the states of the affected    *)
(* roads to the router, without awaiting in between.                       *)
(*                                                                         *)
(* Costs are milliseconds.  Positions are certain, so that the cost's      *)
(* uncertainty term is zero.                                               *)
(***************************************************************************)
EXTENDS MobilityGraph

CONSTANTS Network,  \* road -> [src, dst, length, capacity]
          Straight, \* straight-line metres between nodes
          Riders, Trips,
          Reported, \* the roads vehicles are reported on
          Posted,   \* what POST /v1/graph/edge may say: road and metrics
          Conditions \* metrics plans are checked with

VARIABLES
    metrics,  \* Edge.metrics
    origin,   \* who set them last: the built-in graph, the live graph, a post
    route,    \* RouteStore: the current path of each rider, or None
    trip,     \* and the end points of its last request
    world,    \* the vehicles the gateway still shows
    untold    \* roads an observation that raised left untold, for CountsFollow

roadNetwork ==
    <<now, defs, cars, carRoad, entries, onRoad, everSeen, metrics, origin, route, trip, world, untold>>
routing == <<metrics, origin, route, trip, world, untold>>

Nodes == {Network[r].src : r \in DOMAIN Network} \cup {Network[r].dst : r \in DOMAIN Network}

\* EdgeMetrics; speeds are tenths of a metre per second.
Metrics == [count : Nat, speed : Nat, ratio : Nat, hazard : Nat, downstream : Nat, closure : BOOLEAN]

ASSUME RoutingConstants ==
    /\ IsFiniteSet(Cars) /\ IsFiniteSet(Roads)
    /\ DOMAIN Network \subseteq Roads /\ Reported \subseteq Roads
    /\ \A r \in DOMAIN Network : Network[r].length \in Nat /\ Network[r].capacity \in Nat \ {0}
    /\ Trips \subseteq Nodes \X Nodes /\ Nodes \X Nodes \subseteq DOMAIN Straight
    /\ \A p \in Nodes \X Nodes : Straight[p] \in Nat
    /\ Posted \subseteq (DOMAIN Network) \X Metrics
    /\ None \notin [from : Nodes, roads : Seq(DOMAIN Network)]

BuiltIn == [count |-> 12, speed |-> 75, ratio |-> 30, hazard |-> 0, downstream |-> 0, closure |-> FALSE]

Blocked == 3600000
Unreachable == 1000000000
CriticalHazard == 70
Alternatives == 3

AtLeast(a, b) == IF a < b THEN b ELSE a
AtMost(a, b) == IF a < b THEN a ELSE b
Square(a) == a * a

\* edge_cost.
EdgeCost(m, road, load) ==
    LET ratio == AtMost(100, m.ratio + (100 * load) \div road.capacity)
    IN  IF m.closure \/ (m.ratio >= 100 /\ m.speed < 3) THEN Blocked
        ELSE (road.length * 10000) \div AtLeast(m.speed, 3)
             + (Square(AtLeast(ratio - 70, 0)) * 120000) \div 900
             + m.hazard * 600 + m.downstream * 100

Costs(ms, load) == [r \in DOMAIN Network |-> EdgeCost(ms[r], Network[r], load[r])]
NoLoad == [r \in DOMAIN Network |-> 0]
PathCost(cost, path) ==
    IF path = None THEN 0
    ELSE LET total[i \in 0 .. Len(path.roads)] ==
                 IF i = 0 THEN 0 ELSE total[i - 1] + cost[path.roads[i]]
         IN  total[Len(path.roads)]

HeuristicTwice(n, d) == (Straight[<<n, d>>] * 20000) \div 139
\* The heuristic: straight-line distance at 13.9 m/s.
Heuristic(n, d) == (Straight[<<n, d>>] * 10000) \div 139

\* One turn of find_path's loop: the open item with the least f is taken.
Turn(cost, d, s) ==
    LET item == CHOOSE i \in s.open : \A j \in s.open : i.f <= j.f
        n == item.node
        onward == {r \in DOMAIN Network :
                     /\ Network[r].src = n /\ Network[r].dst \notin s.closed \cup {n}
                     /\ item.g + cost[r] < s.best[Network[r].dst]}
        pushed == {[node |-> Network[r].dst, g |-> item.g + cost[r],
                    f |-> item.g + cost[r] + Heuristic(Network[r].dst, d),
                    roads |-> Append(item.roads, r), from |-> item.from] : r \in onward}
        best == [m \in Nodes |-> Min({s.best[m]} \cup {i.g : i \in {i \in pushed : i.node = m}})]
        rest == s.open \ {item}
    IN  IF s.open = {} \/ s.found.path # None THEN s
        ELSE IF n \in s.closed THEN [s EXCEPT !.open = rest]
        ELSE IF n = d
        THEN [s EXCEPT !.found = [path |-> [from |-> item.from, roads |-> item.roads], cost |-> item.g]]
        ELSE [open |-> rest \cup pushed, best |-> best, closed |-> s.closed \cup {n}, found |-> s.found]

\* find_path: a road is pushed once, when the node it leaves is closed.
FindPath(cost, o, d) ==
    LET start == [open   |-> {[node |-> o, g |-> 0, f |-> Heuristic(o, d), roads |-> <<>>, from |-> o]},
                  best   |-> [n \in Nodes |-> IF n = o THEN 0 ELSE Unreachable],
                  closed |-> {},
                  found  |-> [path |-> None, cost |-> Unreachable]]
        turns == Cardinality(DOMAIN Network) + 1
        after[n \in 0 .. turns] == IF n = 0 THEN start ELSE Turn(cost, d, after[n - 1])
    IN  after[turns].found

\* _k_alternatives: the best path, and the best with one of its roads saturated.
KAlternatives(ms, load, o, d) ==
    LET first == FindPath(Costs(ms, load), o, d)
        Without(r) == FindPath(Costs(ms, [load EXCEPT ![r] = Network[r].capacity]), o, d)
        Extend(alts, r) ==
            LET alt == Without(r)
            IN  IF \/ Len(alts) >= Alternatives \/ alt.path \in {None, first.path}
                   \/ alt \in {alts[i] : i \in DOMAIN alts}
                THEN alts ELSE Append(alts, alt)
        after[i \in 0 .. Len(first.path.roads)] ==
            IF i = 0 THEN <<first>> ELSE Extend(after[i - 1], first.path.roads[i])
    IN  IF first.path = None THEN <<>> ELSE after[Len(first.path.roads)]

RoadsOf(path) == IF path = None THEN {} ELSE {path.roads[i] : i \in DOMAIN path.roads}

\* _check_trigger: a closed or very hazardous road forces a new route.
Forced(ms, path) == \E r \in RoadsOf(path) : ms[r].closure \/ ms[r].hazard >= CriticalHazard
Material(old, new) == old > 0 /\ 5 * (old - new) >= old

\* _fits_capacity: 75 % of each road.
Fits(ms, load, path) ==
    \A r \in RoadsOf(path) : 4 * (ms[r].count + load[r]) <= 3 * Network[r].capacity

Cheaper(cost, old) == cost < old

\* plan for one vehicle: the first alternative that is wanted, cheaper and not
\* full; otherwise the old path stays.
Planned(ms, load, o, d, current) ==
    LET old == IF current = None THEN FindPath(Costs(ms, NoLoad), o, d).path ELSE current
        oldCost == PathCost(Costs(ms, load), old)
        alts == KAlternatives(ms, load, o, d)
        better == {i \in DOMAIN alts :
                     /\ Forced(ms, old) \/ Material(oldCost, alts[i].cost)
                     /\ Cheaper(alts[i].cost, oldCost)
                     /\ Fits(ms, load, alts[i].path)}
    IN  [old |-> old, new |-> IF better = {} THEN old ELSE alts[Min(better)].path]

\* plan: vehicles on these paths are planned for in turn, and those that were
\* moved weigh on the roads of later ones.
Plan(ms, o, d, current) ==
    LET Assign(load, path) ==
            LET p == Planned(ms, load, o, d, path)
                taken == IF p.new # p.old THEN RoadsOf(p.new) ELSE {}
            IN  [r \in DOMAIN Network |-> load[r] + IF r \in taken THEN 1 ELSE 0]
    IN  FoldLeft(Assign, NoLoad, current)
-----------------------------------------------------------------------------
RoutingInit ==
    /\ GraphInit
    /\ metrics = [r \in DOMAIN Network |-> BuiltIn]
    /\ origin = [r \in DOMAIN Network |-> "built in"]
    /\ route = [v \in Riders |-> None] /\ trip = [v \in Riders |-> None]
    /\ world = {} /\ untold = {}

\* ingest_edge_state for each affected road the network has.
Ingest(rs) ==
    LET fed == rs \cap DOMAIN Network
    IN  /\ metrics' = [r \in DOMAIN Network |->
                         IF r \in fed THEN EdgeState(defs', cars', onRoad'[r], r) ELSE metrics[r]]
        /\ origin' = [r \in DOMAIN Network |-> IF r \in fed THEN "live graph" ELSE origin[r]]
        /\ untold' = untold \ rs

\* ingest_vehicle_state: the graph has the report and the gateway the vehicle
\* when the evaluation raises, the router nothing.
Report(c, r, speed, at) ==
    LET affected == Affected(carRoad[c], r)
    IN  /\ ObserveVehicle(c, r, speed, at)
        /\ \/ Raises(defs', affected) /\ untold' = untold \cup affected /\ UNCHANGED <<metrics, origin>>
           \/ ~Raises(defs', affected) /\ Ingest(affected)
        /\ world' = world \cup {c}
        /\ UNCHANGED <<route, trip>>

\* Hazards, registrations and reads reach the graph only.
Hazard(r, penalty, at) == ObserveHazard(r, penalty, at) /\ UNCHANGED routing
Register(r) == RegisterEdge(r) /\ UNCHANGED routing
Read(r) == ReadEdge(r) /\ UNCHANGED routing
RoutingTick == GraphTick /\ UNCHANGED routing

\* POST /v1/graph/edge.
Post(r, m) ==
    /\ metrics' = [metrics EXCEPT ![r] = m]
    /\ origin' = [origin EXCEPT ![r] = "post"]
    /\ UNCHANGED <<now, defs, cars, carRoad, entries, onRoad, everSeen, route, trip, world, untold>>

\* retire_actor and the sweep: the graph is not told.
Retire(c) ==
    /\ c \in world
    /\ world' = world \ {c}
    /\ UNCHANGED <<now, defs, cars, carRoad, entries, onRoad, everSeen, metrics, origin, route, trip, untold>>

\* POST /v1/routes/recalculate: the stored path is the old one, whichever
\* trip it was computed for.
Recalculate(v, t) ==
    /\ route' = [route EXCEPT ![v] = Planned(metrics, NoLoad, t[1], t[2], @).new]
    /\ trip' = [trip EXCEPT ![v] = t]
    /\ UNCHANGED <<now, defs, cars, carRoad, entries, onRoad, everSeen, metrics, origin, world, untold>>

RoutingNext ==
    \/ \E c \in Cars, r \in Reported \cup {None}, s \in Speeds, at \in ReportTimes : Report(c, r, s, at)
    \/ \E r \in Reported, p \in Penalties, at \in ReportTimes : Hazard(r, p, at)
    \/ \E r \in DOMAIN Registered : Register(r)
    \/ \E r \in Reported : Read(r)
    \/ \E x \in Posted : Post(x[1], x[2])
    \/ \E c \in Cars : Retire(c)
    \/ \E v \in Riders, t \in Trips : Recalculate(v, t)
    \/ RoutingTick

RoutingSpec == RoutingInit /\ [][RoutingNext]_roadNetwork
-----------------------------------------------------------------------------
\* The router counts on a road exactly the vehicles last reported there, for
\* every road the live graph wrote last and no observation that raised touched
\* since: a vehicle that moves on is taken off the road it left.
CountsFollow ==
    \A r \in DOMAIN Network :
       origin[r] = "live graph" /\ r \notin untold => metrics[r].count = Cardinality(ActorsOn(cars, r))

\* A path leads from node to node along roads of the network.
Leads(path, o, d) ==
    /\ path.from = o
    /\ \A i \in DOMAIN path.roads :
          Network[path.roads[i]].src = IF i = 1 THEN o ELSE Network[path.roads[i - 1]].dst
    /\ d = IF path.roads = <<>> THEN o ELSE Network[Last(path.roads)].dst

\* A rider is moved to another path only for one that leads where it asked to
\* go and is cheaper as the roads are now, although alternatives were priced
\* with a road saturated and the old path may be of an earlier trip.
RerouteImproves ==
    [][\A v \in Riders :
          route[v] # None /\ route'[v] # route[v] =>
             /\ Leads(route'[v], trip'[v][1], trip'[v][2])
             /\ PathCost(Costs(metrics, NoLoad), route'[v]) < PathCost(Costs(metrics, NoLoad), route[v])]_roadNetwork

\* Every path without repeated nodes, the reference for the search.
SimplePaths(o, d) ==
    {p \in UNION {[1..n -> DOMAIN Network] : n \in 0..Cardinality(Nodes) - 1} :
        /\ Leads([from |-> o, roads |-> p], o, d)
        /\ \A i, j \in DOMAIN p : Network[p[i]].src = Network[p[j]].src => i = j}

Ways == [t \in Trips |-> {[from |-> t[1], roads |-> p] : p \in SimplePaths(t[1], t[2])}]

\* What a road costs at the speed the heuristic assumes.
Least(r) == (Network[r].length * 10000) \div 139

\* The heuristic fits the network: no road is driven faster than it assumes, at
\* its speed no road is shorter than the way it saves, nor longer than blocked.
HeuristicFits ==
    /\ Speeds \cup {x[2].speed : x \in Posted} \subseteq 0 .. 139
    /\ \A r \in DOMAIN Network :
          /\ Least(r) <= Blocked
          /\ \A t \in Trips : Heuristic(Network[r].src, t[2]) <= Least(r) + Heuristic(Network[r].dst, t[2])

\* On roads no faster than the heuristic assumes, the search returns a path of
\* least cost for every trip, whatever became of the roads.
PathOptimal ==
    LET cost == Costs(metrics, NoLoad)
    IN  \A t \in Trips :
           FindPath(cost, t[1], t[2]).cost = Min({PathCost(cost, p) : p \in Ways[t]} \cup {Unreachable})

\* What the documentation says and the code does not do.
\* The stored route is the route of the stored trip.
RouteArrives == \A v \in Riders : route[v] # None => Leads(route[v], trip[v][1], trip[v][2])
\* "Never assign more than this fraction of edge capacity" (distributor.py).
LoadCapped ==
    \A ms \in [DOMAIN Network -> Conditions], t \in Trips : \A p \in Ways[t] :
       LET load == Plan(ms, t[1], t[2], <<p, p>>)
       IN  \A r \in DOMAIN Network : load[r] > 0 => 4 * (ms[r].count + load[r]) <= 3 * Network[r].capacity
\* "Projects canonical actor state into confidence-aware edge metrics": also when
\* no road downstream is known.
CountsAlwaysFollow ==
    \A r \in DOMAIN Network :
       origin[r] = "live graph" => metrics[r].count = Cardinality(ActorsOn(cars, r))
\* A vehicle that left the world no longer counts on its road.
GhostsLeave ==
    \A r \in DOMAIN Network :
       origin[r] = "live graph" => metrics[r].count <= Cardinality(ActorsOn(cars, r) \cap world)
\* A closure lasts until it is lifted.
ClosureLasts == [][\A r \in DOMAIN Network : metrics[r].closure /\ origin'[r] = "live graph" => metrics'[r].closure]_roadNetwork
\* A road without vehicles is no slower than the built-in estimate.
EmptyRoadIsFree ==
    \A r \in DOMAIN Network :
       metrics[r].count = 0 /\ ~metrics[r].closure /\ metrics[r].hazard = 0 /\ metrics[r].downstream = 0
          => EdgeCost(metrics[r], Network[r], 0) <= EdgeCost(BuiltIn, Network[r], 0)
=============================================================================
