------------------------------ MODULE EdgeV2X ------------------------------
(***************************************************************************)
(* The simulated PC5 mesh: EdgeV2XManager, its nodes and their transports  *)
(* (services/edge_v2x), as the gateway drives it through its bridge        *)
(* (services/gateway/v2x_bridge.py) and as the stand-alone service does    *)
(* (services/edge_v2x/api.py).                                             *)
(*                                                                         *)
(* A state update prunes views that went out of range, has newly found     *)
(* neighbours repeat their state, broadcasts the new state, and announces  *)
(* the risks this activates.  What is left of an update is a stack of jobs *)
(* in requests.  The gateway's listeners never suspend, so there an update *)
(* runs to its end; the stand-alone service sends to its WebSocket clients *)
(* inside the listeners and another update can start at each announcement. *)
(***************************************************************************)
EXTENDS Naturals, Sequences

CONSTANTS Actor,    \* vehicles
          Pose,     \* what a vehicle reports: place, heading, speed
          Unknown,  \* no report yet
          InRange,  \* pairs of poses within pc5_range_m of each other
          Danger,   \* rank of the conflict of an ego pose with a peer's, or 0
          Slot,     \* updates that can be under way at once
          MaxUpdates \* bound: updates of the stand-alone service

ASSUME MeshAssumption ==
    /\ Unknown \notin Pose /\ Unknown \notin Actor
    /\ InRange \subseteq Pose \X Pose
    /\ \A x, y \in Pose : <<x, y>> \in InRange => <<y, x>> \in InRange
    /\ Danger \in [Pose \X Pose -> Nat]
    /\ "nobody" \notin Slot
    /\ MaxUpdates \in Nat

VARIABLES standalone,  \* which deployment this is; never changes
          nodes,       \* _nodes: every node is registered with every other
          pose,        \* _state of a node, which its transport knows too
          peers,       \* _peers of a node: the states it has received
          active,      \* _active_risk and _active_signature of a node
          recent,      \* actors the bridge took a report of < 0.35 s ago
          requests,    \* jobs left of each update, the next one first
          running,     \* the update that has not given way, or Nobody
          raced,       \* history: an update began while another was suspended
          updates      \* updates of the stand-alone service, for the bound

mesh == <<nodes, pose, peers, active>>
vars == <<standalone, mesh, recent, requests, running, raced, updates>>

Nobody == "nobody"
NoRisk == [rank |-> 0]

\* A risk is known by its peer and its kind; a kind is one rank of the
\* prioritizer's composite score.
Risk == [with : Actor, rank : Nat \ {0}]

\* What a job is: newly found peers repeat their state; a node broadcasts its
\* state; the message goes to one peer after the other; a node warns its peers
\* of a risk; the listeners are told of it.
Repeat(found)         == [op |-> "repeat", found |-> found]
Broadcast(n)          == [op |-> "broadcast", node |-> n]
Message(n, x, left, heard) ==
    [op |-> "message", node |-> n, pose |-> x, left |-> left, heard |-> heard]
Warn(n, risk)         == [op |-> "warn", node |-> n, risk |-> risk]
Announce(n, risk)     == [op |-> "announce", node |-> n, risk |-> risk]

\* A new transport has no position, a new node has heard of nobody.
Nowhere == [n \in Actor |-> Unknown]
NoView  == [p \in Actor |-> Unknown]

Init ==
    /\ standalone \in BOOLEAN
    /\ nodes = {} /\ recent = {}
    /\ pose = Nowhere
    /\ peers = [n \in Actor |-> NoView]
    /\ active = [n \in Actor |-> NoRisk]
    /\ requests = [r \in Slot |-> <<>>]
    /\ running = Nobody
    /\ raced = FALSE
    /\ updates = 0

-----------------------------------------------------------------------------
(* A node's view *)

\* _is_in_range: a position that is not known is not in range.
Near(at, n, p) == <<at[n], at[p]>> \in InRange

Neighbours(at, n) == {p \in Actor \ {n} : Near(at, n, p)}

\* update_state of a node: its transport knows the new place at once.
Moved(a, x) == [pose EXCEPT ![a] = x]

\* update_peer_state: what p sees once the state of n reached it.
Heard(p, n, x) == [peers[p] EXCEPT ![n] = x]

\* evaluate_all: the peers that a vehicle at x is in conflict with.
Threats(x, view) ==
    IF x = Unknown THEN {}
    ELSE {p \in Actor : view[p] # Unknown /\ Danger[<<x, view[p]>>] > 0}

\* The most dangerous conflict of a vehicle at x with the peers it sees.  The
\* code breaks ties by the order in which peers were first heard of; here
\* they are broken by a fixed choice.
Prioritized(x, view) ==
    LET Rank(p) == Danger[<<x, view[p]>>]
        threats == Threats(x, view)
        worst   == CHOOSE p \in threats : \A q \in threats : Rank(q) <= Rank(p)
    IN  IF threats = {} THEN NoRisk ELSE [with |-> worst, rank |-> Rank(worst)]

\* _evaluate_risks returns a risk only if it was not the active one already.
Activated(n, risk) == risk # NoRisk /\ risk # active[n]

Warnings(n, risk) == IF Activated(n, risk) THEN <<Warn(n, risk)>> ELSE <<>>

\* Variant: nothing is dropped.
PrunedNever(at, n) == peers[n]

\* refresh_direct_peers: what n still sees when everyone is where at says.
Pruned(at, n) == [p \in Actor |-> IF Near(at, n, p) THEN peers[n][p] ELSE Unknown]

\* Variant: what is dropped changes no risk.
RefreshedNever(at, n) == active[n]

\* The manager prunes the views of all others too, and a view that lost a
\* peer is evaluated again; nobody is told of what that activates.
Refreshed(at, n) ==
    IF Pruned(at, n) = peers[n] THEN active[n] ELSE Prioritized(at[n], Pruned(at, n))

-----------------------------------------------------------------------------
(* Updates *)

\* create_node: the new transport and all others are registered with each
\* other, so that to be a node is to be registered with all other nodes.
Joined(a) == nodes \cup {a}

\* Variant: nobody answers a newcomer.
FoundNobody(at, a) == {}

\* Peers that see the moved node for the first time.
Found(at, a) == Neighbours(at, a) \ Neighbours(pose, a)

\* update_actor_state up to its first await: create the node if it is new,
\* take its state, prune, evaluate, and plan the rest.
Update(r, a, x) ==
    LET at   == Moved(a, x)
        risk == Prioritized(x, Pruned(at, a))
    IN  /\ running = Nobody /\ requests[r] = <<>>
        /\ nodes' = Joined(a)
        /\ pose' = at
        /\ peers' = [n \in Actor |-> Pruned(at, n)]
        /\ active' = [n \in Actor |-> IF n = a THEN risk ELSE Refreshed(at, n)]
        /\ requests' = [requests EXCEPT ![r] =
               <<Repeat(Found(at, a)), Broadcast(a)>> \o Warnings(a, risk)]
        /\ running' = r
        /\ raced' = (raced \/ \E s \in Slot : requests[s] # <<>>)
        /\ UNCHANGED standalone

\* An update goes on with these jobs; it gives way when it is over, and in the
\* stand-alone service whenever listeners were called.
GoesOn(r, jobs, called) ==
    /\ running \in {r, Nobody}
    /\ requests' = [requests EXCEPT ![r] = jobs]
    /\ running' = IF jobs = <<>> \/ (called /\ standalone) THEN Nobody ELSE r
    /\ UNCHANGED <<standalone, recent, raced, updates>>

Job(r, op) == requests[r] # <<>> /\ Head(requests[r]).op = op
Rest(r)    == Tail(requests[r])

\* The PC5 handshake: one newly found peer after the other, in any order.
Handshake(r) ==
    /\ Job(r, "repeat")
    /\ LET found == Head(requests[r]).found
       IN  \/ found = {} /\ GoesOn(r, Rest(r), FALSE)
           \/ \E p \in found :
                GoesOn(r, <<Broadcast(p), Repeat(found \ {p})>> \o Rest(r), FALSE)
    /\ UNCHANGED mesh

\* Variant: a transport is registered with itself as well.
RegisteredItself(n) == nodes \cup {n}

\* Registered transports: everyone else.
Registered(n) == nodes \ {n}

\* broadcast_state: the message carries the state of now, and send takes the
\* registered transports of now.
Send(r) ==
    /\ Job(r, "broadcast")
    /\ LET n == Head(requests[r]).node
       IN  GoesOn(r, IF pose[n] = Unknown THEN Rest(r)
                     ELSE <<Message(n, pose[n], Registered(n), FALSE)>> \o Rest(r), FALSE)
    /\ UNCHANGED mesh

\* One round of the loop in send: the peer, if it is in range by now, takes
\* the state, evaluates, and deals with what that activated before the next
\* peer gets its copy.
Deliver(r) ==
    /\ Job(r, "message")
    /\ LET m == Head(requests[r])
           n == m.node
       IN  \E p \in m.left :
             IF Near(pose, p, n)
             THEN LET view == Heard(p, n, m.pose)
                      risk == Prioritized(pose[p], view)
                  IN  /\ peers' = [peers EXCEPT ![p] = view]
                      /\ active' = [active EXCEPT ![p] = risk]
                      /\ GoesOn(r, Warnings(p, risk) \o
                                   (<<Message(n, m.pose, m.left \ {p}, TRUE)>> \o Rest(r)), FALSE)
                      /\ UNCHANGED <<nodes, pose>>
             ELSE /\ GoesOn(r, <<Message(n, m.pose, m.left \ {p}, m.heard)>> \o Rest(r), FALSE)
                  /\ UNCHANGED mesh

\* The end of that loop: message listeners learn of a message someone got.
Delivered(r) ==
    /\ Job(r, "message")
    /\ Head(requests[r]).left = {}
    /\ GoesOn(r, Rest(r), Head(requests[r]).heard)
    /\ UNCHANGED mesh

\* broadcast_risk: receivers only count the message.
WarnPeers(r) ==
    /\ Job(r, "warn")
    /\ LET w == Head(requests[r])
       IN  GoesOn(r, <<Announce(w.node, w.risk)>> \o Rest(r), Neighbours(pose, w.node) # {})
    /\ UNCHANGED mesh

\* _emit_risk: the risk listeners are told.
TellListeners(r) ==
    /\ Job(r, "announce")
    /\ GoesOn(r, Rest(r), TRUE)
    /\ UNCHANGED mesh

-----------------------------------------------------------------------------
(* The two deployments *)

\* observe_actor of the bridge; a report that comes too soon is dropped.
Observe(r, a, x) ==
    /\ ~standalone /\ a \notin recent
    /\ recent' = recent \cup {a}
    /\ Update(r, a, x)
    /\ UNCHANGED updates

Elapse(a) ==
    /\ a \in recent
    /\ recent' = recent \ {a}
    /\ UNCHANGED <<standalone, mesh, requests, running, raced, updates>>

\* Variant: the bridge remembers actors that left.
DepartedRemembered(a) == recent

\* What the bridge remembers when an actor leaves.
Departed(a) == recent \ {a}

\* remove_node: the others forget the node and evaluate, telling nobody.
Retire(a) ==
    /\ ~standalone /\ running = Nobody /\ a \in nodes
    /\ recent' = Departed(a)
    /\ nodes' = nodes \ {a}
    /\ pose' = [pose EXCEPT ![a] = Unknown]
    /\ peers' = [n \in Actor |-> IF n = a THEN NoView
                                 ELSE [peers[n] EXCEPT ![a] = Unknown]]
    /\ active' = [n \in Actor |-> Prioritized(pose'[n], peers'[n])]
    /\ UNCHANGED <<standalone, requests, running, raced, updates>>

\* POST /nodes: a node that has not reported yet.
CreateNode(a) ==
    /\ standalone /\ running = Nobody /\ a \notin nodes
    /\ nodes' = Joined(a)
    /\ UNCHANGED <<standalone, pose, peers, active, recent, requests, running, raced, updates>>

\* POST /nodes/{actor_id}/state.
UpdateState(r, a, x) ==
    /\ standalone /\ updates < MaxUpdates
    /\ updates' = updates + 1
    /\ Update(r, a, x)
    /\ UNCHANGED recent

GoOn(r) ==
    \/ Handshake(r) \/ Send(r) \/ Deliver(r) \/ Delivered(r)
    \/ WarnPeers(r) \/ TellListeners(r)

Next ==
    \/ \E r \in Slot : GoOn(r)
    \/ \E r \in Slot, a \in Actor, x \in Pose : Observe(r, a, x) \/ UpdateState(r, a, x)
    \/ \E a \in Actor : Elapse(a) \/ Retire(a) \/ CreateNode(a)

Spec == Init /\ [][Next]_vars

-----------------------------------------------------------------------------
(* Properties *)

Idle == \A r \in Slot : requests[r] = <<>>

JobOK(job) ==
    \/ job.op = "repeat" /\ job.found \subseteq Actor
    \/ job.op = "broadcast" /\ job.node \in Actor
    \/ /\ job.op = "message" /\ job.node \in Actor /\ job.pose \in Pose
       /\ job.left \subseteq Actor \ {job.node} /\ job.heard \in BOOLEAN
    \/ job.op \in {"warn", "announce"} /\ job.node \in Actor /\ job.risk \in Risk

\* The mesh keeps its types; a node never sends to itself, and only nodes have
\* reported.
TypeOK ==
    /\ standalone \in BOOLEAN /\ raced \in BOOLEAN
    /\ nodes \subseteq Actor /\ recent \subseteq Actor
    /\ pose \in [Actor -> Pose \cup {Unknown}]
    /\ \A n \in Actor \ nodes : pose[n] = Unknown
    /\ peers \in [Actor -> [Actor -> Pose \cup {Unknown}]]
    /\ active \in [Actor -> Risk \cup {NoRisk}]
    /\ \A r \in Slot : \A i \in 1..Len(requests[r]) : JobOK(requests[r][i])
    /\ running \in Slot \cup {Nobody}

\* Whatever updates overlap, a node never holds the state of a vehicle that is
\* out of its radio range or gone (the comment in node.update_state).
SeesOnlyInRange ==
    \A n, p \in Actor :
        peers[n][p] # Unknown => n # p /\ {n, p} \subseteq nodes /\ Near(pose, n, p)

\* Whatever updates overlap, a node's active risk is the worst of what it sees
\* now: no risk outlives the view it came from, and none is overlooked.
RiskIsCurrent == \A n \in Actor : active[n] = Prioritized(pose[n], peers[n])

\* When all updates are over, vehicles in range hold each other's latest state.
ViewsFresh ==
    Idle => \A n \in Actor : \A p \in Neighbours(pose, n) : peers[n][p] = pose[p]

\* As long as no two updates overlapped, and so always in the gateway, every
\* vehicle knows the latest state of all others in range: the handshake tells
\* a newcomer of the others, whose next report may be a long time off.
ViewsFreshInTurn == ~raced => ViewsFresh

\* An actor that left the mesh and comes back is not turned away as too soon.
NewcomersAreHeard == recent \subseteq nodes

\* The doc of /risk.created: "the single prioritised active risk per node is
\* streamed": a risk is announced while it is the active one.
AnnouncedIsActive ==
    [][\A r \in Slot : TellListeners(r) =>
           Head(requests[r]).risk = active[Head(requests[r]).node]]_vars

\* on_risk: "Observe one newly activated local risk": what becomes active is
\* going to be announced.
ActivationsAnnounced ==
    [][\A n \in Actor : Activated(n, active'[n]) =>
           \E r \in Slot : \E i \in 1..Len(requests'[r]) :
               requests'[r][i] = Warn(n, active'[n])]_vars

=============================================================================
