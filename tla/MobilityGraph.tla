--------------------------- MODULE MobilityGraph ---------------------------
(***************************************************************************)
(* The live mobility graph: reports of vehicles and hazards projected onto *)
(* road edges.  The unit of time is half a minute, speeds are tenths of a  *)
(* metre per second and ratios are percents.  Every operation runs without *)
(* awaiting, so each is one step.  A report carries its producer's time,   *)
(* which may lie Late units behind the clock.                              *)
(***************************************************************************)
EXTENDS Integers, FiniteSets, FiniteSetsExt, Sequences, SequencesExt, Functions

CONSTANTS Roads, Cars, Speeds, Penalties,
          Rank,       \* where sorting the ids puts each road
          Registered, \* what register_edge may say: road -> [capacity, next, junction]
          Late, MaxTime, MaxEntries, MaxHazards, \* bounds of the model
          None

ASSUME GraphConstants ==
    /\ Speeds \subseteq Nat /\ Penalties \subseteq 0..100
    /\ \A r \in DOMAIN Registered : r \in Roads /\ Registered[r].capacity \in Nat \ {0}
    /\ Rank \in [Roads -> Nat]
    /\ \A q, r \in Roads : Rank[q] = Rank[r] => q = r
    /\ {Late, MaxTime, MaxEntries, MaxHazards} \subseteq Nat
    /\ None \notin Roads

VARIABLES
    now,
    defs,      \* _definitions
    cars,      \* _vehicles: road and speed of the last report, or None
    carRoad,   \* _actor_edges
    entries,   \* _entry_times: when vehicles entered each road
    onRoad,    \* _hazards: penalty and end of life, per road
    everSeen   \* what the graph was told of hazards, for HazardsKept

graph == <<now, defs, cars, carRoad, entries, onRoad, everSeen>>

Window == 2      \* the longest of WINDOWS_S
HazardTtl == 1
Unregistered == [capacity |-> 20, next |-> {}, junction |-> None] \* the default of a road no adapter registered

ActorsOn(seen, r) == {c \in Cars : seen[c] # None /\ seen[c].road = r}
Load(seen, known, r) == (100 * Cardinality(ActorsOn(seen, r))) \div known[r].capacity

\* deque.popleft while the head is too old.
Trim(s, at) ==
    LET kept == {i \in DOMAIN s : s[i] >= at - Window}
    IN  IF kept = {} THEN <<>> ELSE SubSeq(s, Min(kept), Len(s))
StillActiveBefore(hs, at) == {h \in hs : h.until > at}
StillActive(hs, at) == {h \in hs : h.until >= at}

\* Evaluating a road of which no road downstream is known raises: the mean of
\* nothing is taken, after the road was trimmed.
Broken(known, r) == known[r].next # {} /\ known[r].next \cap DOMAIN known = {}
BrokenIn(known) == {r \in DOMAIN known : Broken(known, r)}

\* _edge_state: what is published of a road that is not broken.
EdgeState(known, seen, hs, r) ==
    LET here == ActorsOn(seen, r)
        next == known[r].next \cap DOMAIN known
        load == MapThenSumSet(LAMBDA n : Load(seen, known, n), next)
    IN  [count |-> Cardinality(here),
         speed |-> IF here = {} THEN 0
                   ELSE MapThenSumSet(LAMBDA c : seen[c].speed, here) \div Cardinality(here),
         ratio |-> Load(seen, known, r),
         hazard |-> IF hs = {} THEN 0 ELSE Max({h.penalty : h \in hs}),
         downstream |-> IF known[r].next = {} THEN 0 ELSE load \div Cardinality(next),
         closure |-> FALSE]

\* Publishing a road publishes its junction, which evaluates the junction's
\* roads in their order; each evaluation trims what it reads.
RoadsOfJunction(known, r) ==
    {q \in DOMAIN known : known[r].junction # None /\ known[q].junction = known[r].junction}
Fails(known, r) == \E q \in {r} \cup RoadsOfJunction(known, r) : Broken(known, q)

\* Of roads in their order, those up to the first that raises.
UpTo(rs, raising) == {r \in rs : \A q \in rs \cap raising : Rank[r] <= Rank[q]}

Visited(known, r) ==
    {r} \cup (IF r \in BrokenIn(known) THEN {}
              ELSE UpTo(RoadsOfJunction(known, r), BrokenIn(known)))

\* What publishing some roads evaluates, and whether an exception ends it.
Evaluated(known, rs) ==
    LET published == rs \cap DOMAIN known
    IN  UNION {Visited(known, r) : r \in UpTo(published, {q \in published : Fails(known, q)})}
Raises(known, rs) == \E r \in rs : r \notin DOMAIN known \/ Fails(known, r)

Publish(known, arrived, told, rs, at) ==
    LET read == Evaluated(known, rs)
    IN  /\ entries' = [r \in Roads |-> IF r \in read THEN Trim(arrived[r], at) ELSE arrived[r]]
        /\ onRoad' = [r \in Roads |-> IF r \in read THEN StillActive(told[r], at) ELSE told[r]]

GraphInit ==
    /\ now = 0
    /\ defs = <<>>
    /\ cars = [c \in Cars |-> None] /\ carRoad = [c \in Cars |-> None]
    /\ entries = [r \in Roads |-> <<>>]
    /\ onRoad = [r \in Roads |-> {}] /\ everSeen = {}

\* register_edge: an adapter's definition replaces what was known, and stays
\* when the evaluation raises.
RegisterEdge(r) ==
    /\ defs' = [q \in DOMAIN defs \cup {r} |-> IF q = r THEN Registered[r] ELSE defs[q]]
    /\ Publish(defs', entries, onRoad, {r}, now)
    /\ UNCHANGED <<now, cars, carRoad, everSeen>>

\* The roads an observation publishes again.
AffectedEntered(prior, r) == {r} \ {None}
Affected(prior, r) == {prior, r} \ {None}

\* _observe_actor.
ObserveVehicle(c, r, speed, at) ==
    /\ (r # None /\ carRoad[c] # r) => Len(entries[r]) < MaxEntries
    /\ cars' = [cars EXCEPT ![c] = [road |-> r, speed |-> speed]]
    /\ carRoad' = [carRoad EXCEPT ![c] = r]
    /\ defs' = [q \in DOMAIN defs \cup ({r} \ {None}) |-> IF q \in DOMAIN defs THEN defs[q] ELSE Unregistered]
    /\ Publish(defs', IF r \in {None, carRoad[c]} THEN entries ELSE [entries EXCEPT ![r] = Append(@, at)],
               onRoad, Affected(carRoad[c], r), at)
    /\ UNCHANGED <<now, everSeen>>

\* observe_hazard: on a road nobody registered or drove on the lookup of the
\* definition fails after the hazard was noted.
ObserveHazard(r, penalty, at) ==
    LET h == [penalty |-> penalty, until |-> at + HazardTtl]
    IN  /\ Cardinality(everSeen) < MaxHazards
        /\ Publish(defs, entries, [onRoad EXCEPT ![r] = @ \cup {h}], {r}, at)
        /\ everSeen' = everSeen \cup {<<r, h>>}
        /\ UNCHANGED <<now, defs, cars, carRoad>>

\* get_edge evaluates the road at the clock, and so trims it.
ReadEdge(r) ==
    /\ r \in DOMAIN defs
    /\ entries' = [entries EXCEPT ![r] = Trim(@, now)]
    /\ onRoad' = [onRoad EXCEPT ![r] = StillActive(@, now)]
    /\ UNCHANGED <<now, defs, cars, carRoad, everSeen>>

GraphTick ==
    /\ now < MaxTime
    /\ now' = now + 1
    /\ UNCHANGED <<defs, cars, carRoad, entries, onRoad, everSeen>>

ReportTimes == {t \in 0..now : t >= now - Late}
-----------------------------------------------------------------------------
\* The edge an actor is remembered on is the edge of its last report, and the
\* graph has a definition for it.
EdgesAgree ==
    \A c \in Cars :
       /\ carRoad[c] = IF cars[c] = None THEN None ELSE cars[c].road
       /\ carRoad[c] # None => carRoad[c] \in DOMAIN defs

\* A hazard is remembered until its life ends, whatever late reports are
\* evaluated in between: the penalty of a road never drops early.
HazardsKept == \A x \in everSeen : x[2].until >= now => x[2] \in onRoad[x[1]]

\* What the code does not do: the flow rate of a road counts the arrivals of
\* the last minute, as its 60 s window does.
FlowIsTheWindow ==
    \A r \in Roads : Len(Trim(entries[r], now)) = Cardinality({i \in DOMAIN entries[r] : entries[r][i] >= now - Window})
=============================================================================
