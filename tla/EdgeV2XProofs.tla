---------------------------- MODULE EdgeV2XProofs ----------------------------
(***************************************************************************)
(* Safety of the mesh, for any number of vehicles and of overlapping       *)
(* updates, any poses and any way of ranking conflicts.                    *)
(***************************************************************************)
EXTENDS EdgeV2X, TLAPS

View == [Actor -> Pose \cup {Unknown}]

\* What the evaluator and the prioritizer can return.
AnyRisk == {Prioritized(x, view) : x \in Pose \cup {Unknown}, view \in View}

JobSet ==
    [op : {"repeat"}, found : SUBSET Actor]
    \cup [op : {"broadcast"}, node : Actor]
    \cup {m \in [op : {"message"}, node : Actor, pose : Pose,
                 left : SUBSET Actor, heard : BOOLEAN] : m.node \notin m.left}
    \cup [op : {"warn", "announce"}, node : Actor, risk : AnyRisk]

MeshTypes ==
    /\ nodes \in SUBSET Actor
    /\ recent \in SUBSET Actor
    /\ pose \in View
    /\ peers \in [Actor -> View]
    /\ requests \in [Slot -> Seq(JobSet)]

\* Only nodes report.
OnlyNodesReport == \A n \in Actor : pose[n] # Unknown => n \in nodes

\* RiskIsCurrent, as an equation of functions.
RiskOfView == active = [n \in Actor |-> Prioritized(pose[n], peers[n])]

IInv ==
    /\ MeshTypes
    /\ OnlyNodesReport
    /\ SeesOnlyInRange
    /\ RiskOfView
    /\ NewcomersAreHeard

-----------------------------------------------------------------------------

\* Two vehicles in range of each other have both reported, so they are nodes.
LEMMA NearAreNodes ==
    ASSUME NEW at \in View, NEW n \in Actor, NEW p \in Actor, Near(at, n, p)
    PROVE  at[n] \in Pose /\ at[p] \in Pose
BY MeshAssumption DEF Near

\* A view with what is out of range dropped is a view.
LEMMA PrunedIsView ==
    ASSUME peers \in [Actor -> View], NEW at, NEW n \in Actor
    PROVE  Pruned(at, n) \in View
BY DEF Pruned, View

\* What an evaluation of a view returns.
LEMMA EvaluationIsRisk ==
    ASSUME NEW x \in Pose \cup {Unknown}, NEW view \in View
    PROVE  Prioritized(x, view) \in AnyRisk
BY DEF AnyRisk

\* A job put on a stack of jobs, and two stacks on each other.
LEMMA OneMore ==
    ASSUME NEW S, NEW job \in S, NEW jobs \in Seq(S)
    PROVE  <<job>> \o jobs \in Seq(S)
OBVIOUS

LEMMA Both ==
    ASSUME NEW S, NEW some \in Seq(S), NEW others \in Seq(S)
    PROVE  some \o others \in Seq(S)
OBVIOUS

LEMMA InitIInv == Init => IInv
<1> SUFFICES ASSUME Init PROVE IInv
  OBVIOUS
<1>1. MeshTypes
  BY DEF Init, MeshTypes, View, NoView, Nowhere
<1>2. OnlyNodesReport /\ SeesOnlyInRange /\ NewcomersAreHeard
  BY DEF Init, OnlyNodesReport, SeesOnlyInRange, NewcomersAreHeard, NoView, Nowhere
<1>3. RiskOfView
  BY DEF Init, RiskOfView, Prioritized, Threats, NoView, Nowhere
<1> QED
  BY <1>1, <1>2, <1>3 DEF IInv

\* An update may move anyone anywhere: what is kept is in range, and who lost
\* something from its view was evaluated again.
LEMMA UpdateIInv ==
    ASSUME IInv, NEW r \in Slot, NEW a \in Actor, NEW x \in Pose, Update(r, a, x),
           recent' \in SUBSET Actor, recent' \subseteq nodes'
    PROVE  IInv'
<1> DEFINE at   == [pose EXCEPT ![a] = x]
           risk == Prioritized(x, Pruned(at, a))
<1>1. /\ nodes' = nodes \cup {a}
      /\ pose' = at
      /\ peers' = [n \in Actor |-> Pruned(at, n)]
      /\ active' = [n \in Actor |-> IF n = a THEN risk ELSE Refreshed(at, n)]
      /\ requests' = [requests EXCEPT ![r] =
             <<Repeat(Found(at, a)), Broadcast(a)>> \o Warnings(a, risk)]
  BY DEF Update, Moved, Joined
<1>2. /\ MeshTypes /\ OnlyNodesReport /\ SeesOnlyInRange /\ RiskOfView
      /\ pose \in View /\ peers \in [Actor -> View] /\ nodes \in SUBSET Actor
  BY DEF IInv, MeshTypes
<1>3. at \in View /\ at[a] = x /\ \A n \in Actor \ {a} : at[n] = pose[n]
  BY <1>2 DEF View
<1>4. \A n \in Actor : Pruned(at, n) \in View
  BY <1>2, PrunedIsView
<1>5. MeshTypes'
  <2>1. risk \in AnyRisk
    BY <1>4, EvaluationIsRisk
  <2>2. Warnings(a, risk) \in Seq(JobSet)
    <3>1. Warn(a, risk) \in JobSet
      BY <2>1 DEF Warn, JobSet
    <3> QED
      BY <3>1 DEF Warnings
  <2>3. Repeat(Found(at, a)) \in JobSet /\ Broadcast(a) \in JobSet
    BY DEF Repeat, Found, Neighbours, Broadcast, JobSet
  <2>4. <<Repeat(Found(at, a)), Broadcast(a)>> \o Warnings(a, risk) \in Seq(JobSet)
    BY <2>2, <2>3
  <2> QED
    BY <1>1, <1>2, <1>3, <1>4, <2>4 DEF MeshTypes
<1>6. OnlyNodesReport'
  BY <1>1, <1>2, <1>3 DEF OnlyNodesReport
<1>7. SeesOnlyInRange'
  <2> SUFFICES ASSUME NEW n \in Actor, NEW p \in Actor, peers'[n][p] # Unknown
               PROVE  n # p /\ {n, p} \subseteq nodes' /\ Near(pose', n, p)
    BY DEF SeesOnlyInRange
  <2>1. Near(at, n, p) /\ peers[n][p] # Unknown
    BY <1>1 DEF Pruned
  <2>2. n # p
    BY <2>1, <1>2 DEF SeesOnlyInRange
  <2>3. at[n] # Unknown /\ at[p] # Unknown
    <3>1. at[n] \in Pose /\ at[p] \in Pose
      BY <2>1, <1>3, NearAreNodes
    <3> QED BY <3>1, MeshAssumption
  <2> QED
    BY <2>1, <2>2, <2>3, <1>1, <1>6 DEF OnlyNodesReport
<1>8. RiskOfView'
  <2>1. \A n \in Actor \ {a} : Refreshed(at, n) = Prioritized(at[n], Pruned(at, n))
    BY <1>2, <1>3 DEF Refreshed, RiskOfView
  <2>2. \A n \in Actor : active'[n] = Prioritized(pose'[n], peers'[n])
    BY <2>1, <1>1, <1>3
  <2> QED
    BY <2>2, <1>1 DEF RiskOfView
<1>9. NewcomersAreHeard'
  BY DEF NewcomersAreHeard
<1> QED
  BY <1>5, <1>6, <1>7, <1>8, <1>9 DEF IInv

\* What an update has left to do are jobs.
LEMMA RestIsJobs ==
    ASSUME MeshTypes, NEW r \in Slot, requests[r] # <<>>
    PROVE  Head(requests[r]) \in JobSet /\ Rest(r) \in Seq(JobSet)
BY DEF MeshTypes, Rest

\* A step that only works on the jobs leaves the mesh as it is.
LEMMA MeshUnchanged ==
    ASSUME IInv, NEW r \in Slot, NEW jobs \in Seq(JobSet), NEW called,
           GoesOn(r, jobs, called), UNCHANGED mesh
    PROVE  IInv'
<1>1. requests' \in [Slot -> Seq(JobSet)] /\ recent' = recent
  BY DEF IInv, MeshTypes, GoesOn
<1>2. nodes' = nodes /\ pose' = pose /\ peers' = peers /\ active' = active
  BY DEF mesh
<1> QED
  BY <1>1, <1>2 DEF IInv, MeshTypes, OnlyNodesReport, SeesOnlyInRange, Near,
                    RiskOfView, NewcomersAreHeard

\* A delivery changes one view, by the state of a peer in range, and evaluates it.
LEMMA DeliverIInv ==
    ASSUME IInv, NEW r \in Slot, Deliver(r)
    PROVE  IInv'
<1> DEFINE m == Head(requests[r])
           n == m.node
<1>1. MeshTypes /\ OnlyNodesReport /\ SeesOnlyInRange /\ RiskOfView /\ NewcomersAreHeard
      /\ pose \in View /\ peers \in [Actor -> View]
  BY DEF IInv, MeshTypes
<1>2. Job(r, "message") /\ requests[r] # <<>>
  BY DEF Deliver, Job
<1>3. m \in JobSet /\ Rest(r) \in Seq(JobSet)
  BY <1>1, <1>2, RestIsJobs
<1>4. /\ n \in Actor /\ m.pose \in Pose /\ m.left \in SUBSET Actor
      /\ n \notin m.left /\ m.heard \in BOOLEAN
  BY <1>2, <1>3 DEF Job, JobSet
<1>5. \A q, h : h \in BOOLEAN => Message(n, m.pose, m.left \ {q}, h) \in JobSet
  BY <1>4 DEF Message, JobSet
<1>6. PICK p \in m.left :
        IF Near(pose, p, n)
        THEN LET view == [peers[p] EXCEPT ![n] = m.pose]
                 risk == Prioritized(pose[p], view)
             IN  /\ peers' = [peers EXCEPT ![p] = view]
                 /\ active' = [active EXCEPT ![p] = risk]
                 /\ GoesOn(r, Warnings(p, risk) \o
                              (<<Message(n, m.pose, m.left \ {p}, TRUE)>> \o Rest(r)), FALSE)
                 /\ UNCHANGED <<nodes, pose>>
        ELSE /\ GoesOn(r, <<Message(n, m.pose, m.left \ {p}, m.heard)>> \o Rest(r), FALSE)
             /\ UNCHANGED mesh
  BY DEF Deliver, Heard
<1>7. CASE ~Near(pose, p, n)
  <2>0. Message(n, m.pose, m.left \ {p}, m.heard) \in JobSet
    BY <1>4, <1>5
  <2>1. <<Message(n, m.pose, m.left \ {p}, m.heard)>> \o Rest(r) \in Seq(JobSet)
    BY <1>3, <2>0, OneMore
  <2> QED
    BY <1>6, <1>7, <2>1, MeshUnchanged
<1>8. CASE Near(pose, p, n)
  <2> DEFINE view == [peers[p] EXCEPT ![n] = m.pose]
             risk == Prioritized(pose[p], view)
             jobs == Warnings(p, risk) \o
                     (<<Message(n, m.pose, m.left \ {p}, TRUE)>> \o Rest(r))
  <2>1. /\ peers' = [peers EXCEPT ![p] = view]
        /\ active' = [active EXCEPT ![p] = risk]
        /\ GoesOn(r, jobs, FALSE)
        /\ nodes' = nodes /\ pose' = pose
    BY <1>6, <1>8
  <2>2. p \in Actor /\ p # n
    BY <1>4
  <2>3. view \in View
    BY <1>1, <1>4, <2>2 DEF View
  <2>4. jobs \in Seq(JobSet)
    <3>1. risk \in AnyRisk
      <4>1. pose[p] \in Pose \cup {Unknown}
        BY <2>2, <1>1 DEF View
      <4> QED
        BY <2>3, <4>1, EvaluationIsRisk
    <3>2. Warn(p, risk) \in JobSet
      BY <3>1, <2>2 DEF Warn, JobSet
    <3>3. Warnings(p, risk) \in Seq(JobSet)
      BY <3>2 DEF Warnings
    <3>4. Message(n, m.pose, m.left \ {p}, TRUE) \in JobSet
      BY <1>5
    <3>5. <<Message(n, m.pose, m.left \ {p}, TRUE)>> \o Rest(r) \in Seq(JobSet)
      BY <3>4, <1>3, OneMore
    <3>6. Warnings(p, risk) \o (<<Message(n, m.pose, m.left \ {p}, TRUE)>> \o Rest(r))
             \in Seq(JobSet)
      BY <3>3, <3>5, Both
    <3> QED
      BY <3>6
  <2>5. MeshTypes'
    <3> HIDE DEF jobs
    <3>1. requests' \in [Slot -> Seq(JobSet)] /\ recent' = recent
      BY <2>1, <2>4, <1>1 DEF GoesOn, MeshTypes
    <3> QED
      BY <3>1, <2>1, <2>2, <2>3, <1>1 DEF MeshTypes
  <2>6. OnlyNodesReport' /\ NewcomersAreHeard'
    BY <2>1, <1>1 DEF OnlyNodesReport, NewcomersAreHeard, GoesOn
  <2>7. SeesOnlyInRange'
    <3> SUFFICES ASSUME NEW k \in Actor, NEW l \in Actor, peers'[k][l] # Unknown
                 PROVE  k # l /\ {k, l} \subseteq nodes' /\ Near(pose', k, l)
      BY DEF SeesOnlyInRange
    <3>1. CASE k = p /\ l = n
      <4>1. pose[p] # Unknown /\ pose[n] # Unknown
        BY <1>1, <1>4, <1>8, <2>2, NearAreNodes, MeshAssumption
      <4> QED
        BY <3>1, <4>1, <1>1, <1>4, <1>8, <2>1, <2>2 DEF OnlyNodesReport
    <3>2. CASE ~(k = p /\ l = n)
      <4>1. peers[k][l] # Unknown
        BY <3>2, <2>1, <2>2, <1>1 DEF View
      <4> QED
        BY <4>1, <1>1, <2>1 DEF SeesOnlyInRange
    <3> QED
      BY <3>1, <3>2
  <2>8. RiskOfView'
    <3>1. \A k \in Actor \ {p} : peers'[k] = peers[k] /\ active'[k] = active[k]
      BY <2>1, <1>1 DEF RiskOfView
    <3>2. peers'[p] = view /\ active'[p] = risk
      BY <2>1, <2>2, <1>1 DEF RiskOfView
    <3>3. \A k \in Actor : active'[k] = Prioritized(pose'[k], peers'[k])
      BY <3>1, <3>2, <2>1, <1>1 DEF RiskOfView
    <3>4. active' = [k \in Actor |-> active'[k]]
      BY <2>1, <1>1 DEF RiskOfView
    <3> QED
      BY <3>3, <3>4 DEF RiskOfView
  <2> QED
    BY <2>5, <2>6, <2>7, <2>8 DEF IInv
<1> QED
  BY <1>7, <1>8

\* The other jobs change no view.
LEMMA GoOnIInv ==
    ASSUME IInv, NEW r \in Slot, GoOn(r)
    PROVE  IInv'
<1>0. MeshTypes
  BY DEF IInv
<1>1. CASE Handshake(r)
  <2>1. Job(r, "repeat") /\ requests[r] # <<>>
    BY <1>1 DEF Handshake, Job
  <2>2. Head(requests[r]) \in JobSet /\ Rest(r) \in Seq(JobSet)
    BY <1>0, <2>1, RestIsJobs
  <2>3. Head(requests[r]).found \in SUBSET Actor
    BY <2>1, <2>2 DEF Job, JobSet
  <2>4. \A p \in Head(requests[r]).found :
          <<Broadcast(p), Repeat(Head(requests[r]).found \ {p})>> \o Rest(r) \in Seq(JobSet)
    <3> TAKE p \in Head(requests[r]).found
    <3>1. Broadcast(p) \in JobSet /\ Repeat(Head(requests[r]).found \ {p}) \in JobSet
      BY <2>3 DEF Broadcast, Repeat, JobSet
    <3> QED
      BY <3>1, <2>2
  <2> QED
    BY <1>1, <2>2, <2>4, MeshUnchanged DEF Handshake
<1>2. CASE Send(r)
  <2> DEFINE n == Head(requests[r]).node
  <2>1. Job(r, "broadcast") /\ requests[r] # <<>>
    BY <1>2 DEF Send, Job
  <2>2. Head(requests[r]) \in JobSet /\ Rest(r) \in Seq(JobSet)
    BY <1>0, <2>1, RestIsJobs
  <2>3. n \in Actor
    BY <2>1, <2>2 DEF Job, JobSet
  <2>4. pose[n] # Unknown => Message(n, pose[n], Registered(n), FALSE) \in JobSet
    BY <1>0, <2>3 DEF Message, Registered, JobSet, MeshTypes, View
  <2>5. (IF pose[n] = Unknown THEN Rest(r)
         ELSE <<Message(n, pose[n], Registered(n), FALSE)>> \o Rest(r)) \in Seq(JobSet)
    BY <2>2, <2>4, OneMore
  <2> QED
    BY <1>2, <2>5, MeshUnchanged DEF Send
<1>3. CASE Deliver(r)
  BY <1>3, DeliverIInv
<1>4. CASE Delivered(r)
  <2>1. Rest(r) \in Seq(JobSet)
    BY <1>0, <1>4, RestIsJobs DEF Delivered, Job
  <2> QED
    BY <1>4, <2>1, MeshUnchanged DEF Delivered
<1>5. CASE WarnPeers(r)
  <2> DEFINE w == Head(requests[r])
  <2>1. Job(r, "warn") /\ requests[r] # <<>>
    BY <1>5 DEF WarnPeers, Job
  <2>2. w \in JobSet /\ Rest(r) \in Seq(JobSet)
    BY <1>0, <2>1, RestIsJobs
  <2>3. Announce(w.node, w.risk) \in JobSet
    BY <2>1, <2>2 DEF Job, JobSet, Announce
  <2>4. <<Announce(w.node, w.risk)>> \o Rest(r) \in Seq(JobSet)
    BY <2>2, <2>3
  <2> QED
    BY <1>5, <2>4, MeshUnchanged DEF WarnPeers
<1>6. CASE TellListeners(r)
  <2>1. Rest(r) \in Seq(JobSet)
    BY <1>0, <1>6, RestIsJobs DEF TellListeners, Job
  <2> QED
    BY <1>6, <2>1, MeshUnchanged DEF TellListeners
<1> QED
  BY <1>1, <1>2, <1>3, <1>4, <1>5, <1>6 DEF GoOn

\* An actor that leaves takes with it what the others knew of it.
LEMMA RetireIInv ==
    ASSUME IInv, NEW a \in Actor, Retire(a)
    PROVE  IInv'
<1>1. /\ MeshTypes /\ OnlyNodesReport /\ SeesOnlyInRange /\ NewcomersAreHeard
      /\ pose \in View /\ peers \in [Actor -> View]
  BY DEF IInv, MeshTypes
<1>2. /\ nodes' = nodes \ {a} /\ recent' = recent \ {a}
      /\ pose' = [pose EXCEPT ![a] = Unknown]
      /\ peers' = [n \in Actor |-> IF n = a THEN [p \in Actor |-> Unknown]
                                   ELSE [peers[n] EXCEPT ![a] = Unknown]]
      /\ active' = [n \in Actor |-> Prioritized(pose'[n], peers'[n])]
      /\ requests' = requests
  BY DEF Retire, Departed, NoView
<1>3. MeshTypes'
  BY <1>1, <1>2 DEF MeshTypes, View
<1>4. OnlyNodesReport' /\ NewcomersAreHeard'
  BY <1>1, <1>2 DEF OnlyNodesReport, NewcomersAreHeard, View
<1>5. SeesOnlyInRange'
  <2> SUFFICES ASSUME NEW n \in Actor, NEW p \in Actor, peers'[n][p] # Unknown
               PROVE  n # p /\ {n, p} \subseteq nodes' /\ Near(pose', n, p)
    BY DEF SeesOnlyInRange
  <2>1. n # a /\ p # a /\ peers[n][p] # Unknown
    BY <1>1, <1>2 DEF View
  <2> QED
    BY <2>1, <1>1, <1>2 DEF SeesOnlyInRange, Near, View
<1>6. RiskOfView'
  BY <1>2 DEF RiskOfView
<1> QED
  BY <1>3, <1>4, <1>5, <1>6 DEF IInv

LEMMA NextIInv == IInv /\ [Next]_vars => IInv'
<1> SUFFICES ASSUME IInv, [Next]_vars PROVE IInv'
  OBVIOUS
<1>0. MeshTypes /\ NewcomersAreHeard
  BY DEF IInv
<1>1. ASSUME NEW r \in Slot, GoOn(r) PROVE IInv'
  BY <1>1, GoOnIInv
<1>2. ASSUME NEW r \in Slot, NEW a \in Actor, NEW x \in Pose,
             Observe(r, a, x) \/ UpdateState(r, a, x)
      PROVE IInv'
  <2>1. Update(r, a, x)
    BY <1>2 DEF Observe, UpdateState
  <2>2. recent' \in SUBSET Actor /\ recent' \subseteq nodes'
    BY <1>0, <1>2 DEF Observe, UpdateState, Update, Joined, MeshTypes,
                          NewcomersAreHeard
  <2> QED
    BY <2>1, <2>2, UpdateIInv
<1>3. ASSUME NEW a \in Actor, Elapse(a) PROVE IInv'
  BY <1>3 DEF Elapse, mesh, IInv, MeshTypes, OnlyNodesReport, SeesOnlyInRange, Near,
              RiskOfView, NewcomersAreHeard
<1>4. ASSUME NEW a \in Actor, Retire(a) PROVE IInv'
  BY <1>4, RetireIInv
<1>5. ASSUME NEW a \in Actor, CreateNode(a) PROVE IInv'
  BY <1>5 DEF CreateNode, Joined, IInv, MeshTypes, OnlyNodesReport, SeesOnlyInRange, Near,
              RiskOfView, NewcomersAreHeard
<1>6. CASE UNCHANGED vars
  BY <1>6 DEF vars, mesh, IInv, MeshTypes, OnlyNodesReport, SeesOnlyInRange, Near,
              RiskOfView, NewcomersAreHeard
<1> QED
  BY <1>1, <1>2, <1>3, <1>4, <1>5, <1>6 DEF Next

THEOREM Invariance == Spec => []IInv
BY InitIInv, NextIInv, PTL DEF Spec

-----------------------------------------------------------------------------

\* However updates overlap, no node holds the state of a vehicle out of its
\* radio range or gone (refresh_direct_peers, update_peer_state, remove_peer).
THEOREM NoStaleNeighbour == Spec => []SeesOnlyInRange
<1>1. IInv => SeesOnlyInRange
  BY DEF IInv
<1> QED
  BY <1>1, Invariance, PTL

\* However updates overlap, every node's active risk is the worst of what the
\* node sees at that moment (_evaluate_risks).
THEOREM RiskFollowsView == Spec => []RiskIsCurrent
<1>1. IInv => RiskIsCurrent
  BY DEF IInv, RiskOfView, RiskIsCurrent
<1> QED
  BY <1>1, Invariance, PTL

\* The bridge throttles only actors that are in the mesh (retire_actor).
THEOREM ReturningIsHeard == Spec => []NewcomersAreHeard
<1>1. IInv => NewcomersAreHeard
  BY DEF IInv
<1> QED
  BY <1>1, Invariance, PTL

-----------------------------------------------------------------------------
(* What everyone knows when updates take turns: whoever has not heard the   *)
(* latest state of a vehicle in range is told by one of the jobs left.      *)

\* The job will bring the state p is in now to n.
Tells(job, n, p) ==
    \/ job.op = "repeat" /\ p \in job.found
    \/ job.op = "broadcast" /\ job.node = p
    \/ job.op = "message" /\ job.node = p /\ job.pose = pose[p] /\ n \in job.left

Owed(n, p) == \E r \in Slot : \E i \in 1 .. Len(requests[r]) : Tells(requests[r][i], n, p)

UnheardIsOwed ==
    \A n \in Actor, p \in Actor :
        n # p /\ Near(pose, n, p) /\ peers[n][p] # pose[p] => Owed(n, p)

\* A state on its way is the sender's latest.
MessagesAreCurrent ==
    \A r \in Slot : \A i \in 1 .. Len(requests[r]) :
        requests[r][i].op = "message" => requests[r][i].pose = pose[requests[r][i].node]

\* In the gateway nothing is left of an update but of the one that runs.
GatewayRunsToTheEnd ==
    ~standalone => \A r \in Slot : requests[r] # << >> => running = r

TurnInv == GatewayRunsToTheEnd /\ (~raced => UnheardIsOwed /\ MessagesAreCurrent)

\* The jobs below the one that is worked on stay where they are.
LEMMA RestStays ==
    ASSUME MeshTypes, NEW r \in Slot, requests[r] # << >>,
           NEW front \in Seq(JobSet),
           requests' = [requests EXCEPT ![r] = front \o Rest(r)],
           UNCHANGED pose,
           NEW n, NEW p, Owed(n, p)
    PROVE  \/ Owed(n, p)'
           \/ Tells(Head(requests[r]), n, p)
<1>0. PICK s \in Slot : \E i \in 1 .. Len(requests[s]) : Tells(requests[s][i], n, p)
  BY DEF Owed
<1>1. PICK i \in 1 .. Len(requests[s]) : Tells(requests[s][i], n, p)
  BY <1>0
<1>2. requests \in [Slot -> Seq(JobSet)]
  BY DEF MeshTypes
<1>3. CASE s # r
  <2>1. requests'[s] = requests[s]
    BY <1>2, <1>3
  <2> QED BY <1>1, <2>1 DEF Owed, Tells
<1>4. CASE s = r /\ i = 1
  BY <1>1, <1>2, <1>4
<1>5. CASE s = r /\ i # 1
  <2> DEFINE rest == Rest(r)
  <2>1. rest \in Seq(JobSet) /\ i - 1 \in 1 .. Len(rest) /\ rest[i - 1] = requests[r][i]
    BY <1>1, <1>2, <1>5 DEF Rest
  <2>2. requests'[r] = front \o rest
    BY <1>2
  <2> HIDE DEF rest
  <2>3. /\ Len(front) + (i - 1) \in 1 .. Len(front \o rest)
        /\ (front \o rest)[Len(front) + (i - 1)] = rest[i - 1]
    BY <2>1
  <2>a. Len(front) + (i - 1) \in Nat
    BY <1>1, <1>5, <2>2, <2>3
  <2>4. PICK k \in Nat : k = Len(front) + (i - 1)
    BY <2>a
  <2>5. k \in 1 .. Len(requests'[r]) /\ requests'[r][k] = requests[r][i]
    BY <1>5, <2>1, <2>2, <2>3, <2>4
  <2>6. Tells(requests[r][k], n, p)'
    BY <1>1, <1>5, <2>5 DEF Tells
  <2> QED BY <2>5, <2>6 DEF Owed
<1> QED BY <1>3, <1>4, <1>5

\* A job of those put in its place tells, too.
LEMMA FrontTells ==
    ASSUME MeshTypes, NEW r \in Slot, requests[r] # << >>,
           NEW front \in Seq(JobSet),
           requests' = [requests EXCEPT ![r] = front \o Rest(r)],
           NEW n, NEW p, NEW i \in 1 .. Len(front), Tells(front[i], n, p)'
    PROVE  Owed(n, p)'
<1>1. requests \in [Slot -> Seq(JobSet)] /\ Rest(r) \in Seq(JobSet)
  BY RestIsJobs DEF MeshTypes
<1>2. requests'[r] = front \o Rest(r)
  BY <1>1
<1>3. i \in 1 .. Len(front \o Rest(r)) /\ (front \o Rest(r))[i] = front[i]
  BY <1>1
<1> QED BY <1>2, <1>3 DEF Owed

\* New messages carry the sender's state; those below are untouched.
LEMMA MessagesStayCurrent ==
    ASSUME MeshTypes, MessagesAreCurrent, NEW r \in Slot, requests[r] # << >>,
           NEW front \in Seq(JobSet),
           requests' = [requests EXCEPT ![r] = front \o Rest(r)],
           UNCHANGED pose,
           \A i \in 1 .. Len(front) :
              front[i].op = "message" => front[i].pose = pose[front[i].node]
    PROVE  MessagesAreCurrent'
<1>1. requests \in [Slot -> Seq(JobSet)]
  BY DEF MeshTypes
<1> SUFFICES ASSUME NEW s \in Slot, NEW i \in 1 .. Len(requests'[s]),
                    requests'[s][i].op = "message"
             PROVE  requests'[s][i].pose = pose'[requests'[s][i].node]
  BY DEF MessagesAreCurrent
<1>2. CASE s # r
  <2>1. requests'[s] = requests[s]
    BY <1>1, <1>2
  <2>2. i \in 1 .. Len(requests[s]) /\ requests[s][i].op = "message"
    BY <2>1
  <2>3. requests[s][i].pose = pose[requests[s][i].node]
    BY <2>2 DEF MessagesAreCurrent
  <2> QED BY <2>1, <2>3
<1>3. CASE s = r
  <2> DEFINE rest == Rest(r)
  <2>1. /\ rest \in Seq(JobSet)
        /\ \A k \in 1 .. Len(rest) : k + 1 \in 1 .. Len(requests[r]) /\ rest[k] = requests[r][k + 1]
    BY <1>1 DEF Rest
  <2>2. requests'[s] = front \o rest
    BY <1>1, <1>3
  <2> HIDE DEF rest
  <2>3. CASE i <= Len(front)
    <3>1. i \in 1 .. Len(front) /\ requests'[s][i] = front[i]
      BY <2>1, <2>2, <2>3
    <3> QED BY <3>1
  <2>4. CASE i > Len(front)
    <3>1. PICK k \in 1 .. Len(rest) : requests'[s][i] = rest[k]
      <4>1. i - Len(front) \in 1 .. Len(rest) /\ requests'[s][i] = rest[i - Len(front)]
        BY <2>1, <2>2, <2>4
      <4> QED BY <4>1
    <3>2. k + 1 \in 1 .. Len(requests[r]) /\ requests'[s][i] = requests[r][k + 1]
      BY <2>1, <3>1
    <3> QED BY <3>2 DEF MessagesAreCurrent
  <2> QED BY <2>1, <2>3, <2>4
<1> QED BY <1>2, <1>3

\* An update that gives way in the gateway is over.
LEMMA GatewayStep ==
    ASSUME MeshTypes, GatewayRunsToTheEnd, NEW r \in Slot, requests[r] # << >>,
           NEW jobs, NEW called, GoesOn(r, jobs, called)
    PROVE  GatewayRunsToTheEnd'
BY MeshAssumption DEF MeshTypes, GatewayRunsToTheEnd, GoesOn, Nobody

\* A step on the jobs that leaves the mesh as it is: what the job told someone
\* is told by those that replace it, or that someone is not in range.
LEMMA JobTurn ==
    ASSUME IInv, TurnInv, NEW r \in Slot, requests[r] # << >>,
           NEW front \in Seq(JobSet), NEW called,
           GoesOn(r, front \o Rest(r), called), UNCHANGED mesh,
           ~raced => \A i \in 1 .. Len(front) :
              front[i].op = "message" => front[i].pose = pose[front[i].node],
           \A n \in Actor, p \in Actor :
              n # p /\ Near(pose, n, p) /\ Tells(Head(requests[r]), n, p) =>
                 \E i \in 1 .. Len(front) : Tells(front[i], n, p)
    PROVE  TurnInv'
<1>1. MeshTypes /\ GatewayRunsToTheEnd
  BY DEF IInv, TurnInv
<1>2. /\ requests' = [requests EXCEPT ![r] = front \o Rest(r)] /\ raced' = raced
      /\ pose' = pose /\ peers' = peers
  BY DEF GoesOn, mesh
<1>3. GatewayRunsToTheEnd'
  BY <1>1, GatewayStep
<1>4. ASSUME ~raced PROVE UnheardIsOwed' /\ MessagesAreCurrent'
  <2>1. UnheardIsOwed /\ MessagesAreCurrent
    BY <1>4 DEF TurnInv
  <2>2. MessagesAreCurrent'
    BY <1>1, <1>2, <1>4, <2>1, MessagesStayCurrent
  <2>3. ASSUME NEW n \in Actor, NEW p \in Actor, n # p, Near(pose, n, p), peers[n][p] # pose[p]
        PROVE  Owed(n, p)'
    <3>1. Owed(n, p)
      BY <2>1, <2>3 DEF UnheardIsOwed
    <3>2. Owed(n, p)' \/ Tells(Head(requests[r]), n, p)
      BY <1>1, <1>2, <3>1, RestStays
    <3>3. ASSUME Tells(Head(requests[r]), n, p) PROVE Owed(n, p)'
      <4>1. PICK i \in 1 .. Len(front) : Tells(front[i], n, p)
        BY <2>3, <3>3
      <4>2. Tells(front[i], n, p)'
        BY <1>2, <4>1 DEF Tells
      <4> QED BY <1>1, <1>2, <4>2, FrontTells
    <3> QED BY <3>2, <3>3
  <2>4. UnheardIsOwed'
    BY <1>2, <2>3 DEF UnheardIsOwed, Near
  <2> QED BY <2>2, <2>4
<1> QED BY <1>2, <1>3, <1>4 DEF TurnInv

\* Two jobs put on a stack, one after the other or together.
LEMMA TwoOnTop ==
    ASSUME NEW S, NEW first \in S, NEW second \in S, NEW jobs \in Seq(S)
    PROVE  /\ <<first>> \o (<<second>> \o jobs) = (<<first>> \o <<second>>) \o jobs
           /\ <<first>> \o <<second>> \in Seq(S)
           /\ Len(<<first>> \o <<second>>) = 2
           /\ (<<first>> \o <<second>>)[1] = first
           /\ (<<first>> \o <<second>>)[2] = second
OBVIOUS

\* A delivery tells one peer; the others still wait for theirs.
LEMMA DeliverTurn ==
    ASSUME IInv, TurnInv, NEW r \in Slot, Deliver(r)
    PROVE  TurnInv'
<1> DEFINE m == Head(requests[r])
           n == m.node
<1>1. MeshTypes /\ GatewayRunsToTheEnd /\ pose \in View /\ peers \in [Actor -> View]
  BY DEF IInv, MeshTypes, TurnInv
<1>2. Job(r, "message") /\ requests[r] # << >>
  BY DEF Deliver, Job
<1>3. m \in JobSet /\ m.op = "message" /\ Rest(r) \in Seq(JobSet)
  BY <1>1, <1>2, RestIsJobs DEF Job
<1>4. /\ n \in Actor /\ m.pose \in Pose /\ m.left \in SUBSET Actor
      /\ n \notin m.left /\ m.heard \in BOOLEAN
  BY <1>3 DEF JobSet
<1>5. ~raced => m.pose = pose[n]
  <2>1. requests[r] \in Seq(JobSet)
    BY <1>1 DEF MeshTypes
  <2>2. 1 \in 1 .. Len(requests[r]) /\ m = requests[r][1]
    BY <1>2, <2>1
  <2> QED BY <1>3, <2>2 DEF TurnInv, MessagesAreCurrent
<1>6. PICK p \in m.left :
        IF Near(pose, p, n)
        THEN LET view == [peers[p] EXCEPT ![n] = m.pose]
                 risk == Prioritized(pose[p], view)
             IN  /\ peers' = [peers EXCEPT ![p] = view]
                 /\ active' = [active EXCEPT ![p] = risk]
                 /\ GoesOn(r, Warnings(p, risk) \o
                              (<<Message(n, m.pose, m.left \ {p}, TRUE)>> \o Rest(r)), FALSE)
                 /\ UNCHANGED <<nodes, pose>>
        ELSE /\ GoesOn(r, <<Message(n, m.pose, m.left \ {p}, m.heard)>> \o Rest(r), FALSE)
             /\ UNCHANGED mesh
  BY DEF Deliver, Heard
<1>7. \A h \in BOOLEAN : Message(n, m.pose, m.left \ {p}, h) \in JobSet
  BY <1>4 DEF Message, JobSet
<1>8. ASSUME NEW front \in Seq(JobSet), NEW h \in BOOLEAN,
             NEW k \in 1 .. Len(front), front[k] = Message(n, m.pose, m.left \ {p}, h),
             \A i \in 1 .. Len(front) : front[i].op = "message" => i = k,
             GoesOn(r, front \o Rest(r), FALSE), UNCHANGED pose,
             \A a \in Actor, b \in Actor : <<a, b>> # <<p, n>> => peers'[a][b] = peers[a][b],
             Near(pose, p, n) => peers'[p][n] = m.pose
      PROVE  TurnInv'
  <2>1. /\ requests' = [requests EXCEPT ![r] = front \o Rest(r)] /\ raced' = raced
        /\ pose' = pose
    BY <1>8 DEF GoesOn
  <2>2. GatewayRunsToTheEnd'
    BY <1>1, <1>2, <1>8, GatewayStep
  <2>3. ASSUME ~raced PROVE UnheardIsOwed' /\ MessagesAreCurrent'
    <3>1. UnheardIsOwed /\ MessagesAreCurrent /\ m.pose = pose[n]
      BY <1>5, <2>3 DEF TurnInv
    <3>2. \A i \in 1 .. Len(front) : front[i].op = "message" => front[i].pose = pose[front[i].node]
      BY <1>8, <3>1 DEF Message
    <3>3. MessagesAreCurrent'
      BY <1>1, <1>2, <2>1, <3>1, <3>2, MessagesStayCurrent
    <3>4. ASSUME NEW a \in Actor, NEW b \in Actor, a # b, Near(pose, a, b), peers'[a][b] # pose[b]
          PROVE  Owed(a, b)'
      <4>1. <<a, b>> # <<p, n>>
        BY <1>8, <3>1, <3>4
      <4>2. Owed(a, b)
        BY <1>8, <3>1, <3>4, <4>1 DEF UnheardIsOwed
      <4>3. Owed(a, b)' \/ Tells(m, a, b)
        BY <1>1, <1>2, <2>1, <4>2, RestStays
      <4>4. ASSUME Tells(m, a, b) PROVE Owed(a, b)'
        <5>1. b = n /\ a \in m.left /\ a # p
          BY <1>3, <4>1, <4>4 DEF Tells
        <5>2. Tells(front[k], a, b)'
          BY <1>8, <3>1, <2>1, <5>1 DEF Tells, Message
        <5> QED BY <1>1, <1>2, <2>1, <5>2, FrontTells
      <4> QED BY <4>3, <4>4
    <3>5. UnheardIsOwed'
      BY <2>1, <3>4 DEF UnheardIsOwed, Near
    <3> QED BY <3>3, <3>5
  <2> QED BY <2>1, <2>2, <2>3 DEF TurnInv
<1>9. CASE ~Near(pose, p, n)
  <2> DEFINE front == <<Message(n, m.pose, m.left \ {p}, m.heard)>>
  <2>1. /\ GoesOn(r, front \o Rest(r), FALSE) /\ UNCHANGED mesh
    BY <1>6, <1>9
  <2>2. front \in Seq(JobSet) /\ 1 \in 1 .. Len(front)
    BY <1>4, <1>7
  <2>3. front[1] = Message(n, m.pose, m.left \ {p}, m.heard)
    OBVIOUS
  <2>4. \A i \in 1 .. Len(front) : front[i].op = "message" => i = 1
    OBVIOUS
  <2>5. peers' = peers /\ pose' = pose
    BY <2>1 DEF mesh
  <2> HIDE DEF front
  <2> QED BY <1>4, <1>8, <1>9, <2>1, <2>2, <2>3, <2>4, <2>5
<1>10. CASE Near(pose, p, n)
  <2> DEFINE view == [peers[p] EXCEPT ![n] = m.pose]
             risk == Prioritized(pose[p], view)
             copy == Message(n, m.pose, m.left \ {p}, TRUE)
             front == Warnings(p, risk) \o <<copy>>
             k == Len(Warnings(p, risk)) + 1
  <2>1. /\ peers' = [peers EXCEPT ![p] = view]
        /\ GoesOn(r, Warnings(p, risk) \o (<<copy>> \o Rest(r)), FALSE)
        /\ pose' = pose
    BY <1>6, <1>10
  <2>2. p \in Actor /\ p # n /\ view \in View
    BY <1>1, <1>4 DEF View
  <2>3. risk \in AnyRisk
    <3>1. pose[p] \in Pose \cup {Unknown}
      BY <2>2, <1>1 DEF View
    <3> QED
      BY <2>2, <3>1, EvaluationIsRisk
  <2>4. Warn(p, risk) \in JobSet /\ copy \in JobSet /\ Warn(p, risk).op # "message"
    BY <1>7, <2>2, <2>3 DEF Warn, JobSet
  <2>5. peers'[p][n] = m.pose /\ \A a \in Actor, b \in Actor : <<a, b>> # <<p, n>> => peers'[a][b] = peers[a][b]
    BY <1>1, <1>4, <2>1, <2>2 DEF View
  <2>6. Warnings(p, risk) = << >> \/ Warnings(p, risk) = <<Warn(p, risk)>>
    BY DEF Warnings
  <2> HIDE DEF copy, risk
  <2>7. /\ front \in Seq(JobSet) /\ k \in 1 .. Len(front) /\ front[k] = copy
        /\ \A i \in 1 .. Len(front) : front[i].op = "message" => i = k
        /\ Warnings(p, risk) \o (<<copy>> \o Rest(r)) = front \o Rest(r)
    <3>1. CASE Warnings(p, risk) = << >>
      BY <1>3, <2>4, <3>1
    <3>2. CASE Warnings(p, risk) = <<Warn(p, risk)>>
      <4> DEFINE w == Warn(p, risk)
      <4> HIDE DEF w
      <4>0. Warnings(p, risk) = <<w>>
        BY <3>2 DEF w
      <4>2. w \in JobSet /\ w.op # "message"
        BY <2>4 DEF w
      <4>1. PICK x \in JobSet, y \in JobSet, rest \in Seq(JobSet) :
               x = w /\ y = copy /\ rest = Rest(r)
        BY <1>3, <2>4, <4>2
      <4>3. /\ <<x>> \o (<<y>> \o rest) = (<<x>> \o <<y>>) \o rest
            /\ <<x>> \o <<y>> \in Seq(JobSet)
            /\ Len(<<x>> \o <<y>>) = 2
            /\ (<<x>> \o <<y>>)[1] = x /\ (<<x>> \o <<y>>)[2] = y
        BY TwoOnTop
      <4>4. front = <<x>> \o <<y>> /\ k = 2
        BY <4>0, <4>1
      <4>5. \A i \in 1 .. Len(front) : i = 1 \/ i = 2
        BY <4>3, <4>4
      <4> QED BY <4>0, <4>1, <4>2, <4>3, <4>4, <4>5
    <3> QED BY <2>6, <3>1, <3>2
  <2> HIDE DEF front, k
  <2>8. GoesOn(r, front \o Rest(r), FALSE)
    BY <2>1, <2>7
  <2>9. front[k] = Message(n, m.pose, m.left \ {p}, TRUE)
    BY <2>7 DEF copy
  <2>10. PICK f \in Seq(JobSet), l \in Nat : f = front /\ l = k
    BY <2>7
  <2> QED BY <1>8, <2>1, <2>5, <2>7, <2>8, <2>9, <2>10
<1> QED BY <1>9, <1>10

LEMMA PopTurn ==
    ASSUME IInv, TurnInv, NEW r \in Slot, requests[r] # << >>, NEW called,
           GoesOn(r, Rest(r), called), UNCHANGED mesh,
           \A n \in Actor, p \in Actor : Near(pose, n, p) => ~Tells(Head(requests[r]), n, p)
    PROVE  TurnInv'
<1>1. Rest(r) \in Seq(JobSet)
  BY RestIsJobs DEF IInv
<1> DEFINE front == << >>
           jobs  == front \o Rest(r)
<1>2. jobs = Rest(r) /\ front \in Seq(JobSet) /\ Len(front) = 0
  BY <1>1
<1> HIDE DEF front, jobs
<1>3. GoesOn(r, jobs, called)
  BY <1>2 DEF GoesOn
<1>4. GoesOn(r, front \o Rest(r), called)
  BY <1>3 DEF jobs
<1>5. \A i \in 1 .. Len(front) : FALSE
  BY <1>2
<1> QED BY <1>2, <1>4, <1>5, JobTurn

LEMMA GoOnTurn ==
    ASSUME IInv, TurnInv, NEW r \in Slot, GoOn(r)
    PROVE  TurnInv'
<1> DEFINE m == Head(requests[r])
<1>0. MeshTypes /\ pose \in View
  BY DEF IInv, MeshTypes
<1>1. CASE Handshake(r)
  <2>1. m.op = "repeat" /\ requests[r] # << >>
    BY <1>1 DEF Handshake, Job
  <2>2. m \in JobSet /\ Rest(r) \in Seq(JobSet)
    BY <1>0, <2>1, RestIsJobs
  <2>3. m.found \in SUBSET Actor
    BY <2>1, <2>2 DEF JobSet
  <2>4. ASSUME m.found = {}, GoesOn(r, Rest(r), FALSE) PROVE TurnInv'
    <3>1. \A n, p : ~Tells(m, n, p)
      BY <2>1, <2>4 DEF Tells
    <3>2. UNCHANGED mesh
      BY <1>1 DEF Handshake
    <3> QED BY <2>1, <2>4, <3>1, <3>2, PopTurn
  <2>5. ASSUME NEW q \in m.found,
               GoesOn(r, <<Broadcast(q), Repeat(m.found \ {q})>> \o Rest(r), FALSE)
        PROVE  TurnInv'
    <3> DEFINE front == <<Broadcast(q), Repeat(m.found \ {q})>>
    <3>1. Broadcast(q) \in JobSet /\ Repeat(m.found \ {q}) \in JobSet
      BY <2>3 DEF Broadcast, Repeat, JobSet
    <3>2. front \in Seq(JobSet) /\ Len(front) = 2
      BY <3>1
    <3>3. front[1] = Broadcast(q) /\ front[2] = Repeat(m.found \ {q})
      OBVIOUS
    <3> HIDE DEF front
    <3>4. \A k \in 1 .. Len(front) : front[k].op # "message"
      BY <3>2, <3>3 DEF Broadcast, Repeat
    <3>5. ASSUME NEW n, NEW p, Tells(m, n, p) PROVE \E k \in 1 .. Len(front) : Tells(front[k], n, p)
      <4>1. p \in m.found
        BY <2>1, <3>5 DEF Tells
      <4>2. CASE p = q
        BY <3>2, <3>3, <4>2 DEF Tells, Broadcast
      <4>3. CASE p # q
        BY <3>2, <3>3, <4>1, <4>3 DEF Tells, Repeat
      <4> QED BY <4>2, <4>3
    <3>6. GoesOn(r, front \o Rest(r), FALSE) /\ UNCHANGED mesh
      BY <1>1, <2>5 DEF front, Handshake
    <3> QED BY <2>1, <3>2, <3>4, <3>5, <3>6, JobTurn
  <2> QED BY <1>1, <2>4, <2>5 DEF Handshake
<1>2. CASE Send(r)
  <2> DEFINE n == m.node
  <2>1. m.op = "broadcast" /\ requests[r] # << >>
    BY <1>2 DEF Send, Job
  <2>2. m \in JobSet /\ Rest(r) \in Seq(JobSet)
    BY <1>0, <2>1, RestIsJobs
  <2>3. n \in Actor
    BY <2>1, <2>2 DEF JobSet
  <2>4. CASE pose[n] = Unknown
    <3>1. GoesOn(r, Rest(r), FALSE) /\ UNCHANGED mesh
      BY <1>2, <2>4 DEF Send
    <3>2. ASSUME NEW a \in Actor, NEW b \in Actor, Near(pose, a, b), Tells(m, a, b)
          PROVE  FALSE
      <4>1. pose[b] \in Pose
        BY <1>0, <3>2, NearAreNodes
      <4>2. b = n
        BY <2>1, <3>2 DEF Tells
      <4> QED BY <2>4, <4>1, <4>2, MeshAssumption
    <3> QED BY <2>1, <3>1, <3>2, PopTurn
  <2>5. CASE pose[n] # Unknown
    <3> DEFINE msg == Message(n, pose[n], Registered(n), FALSE)
               front == <<msg>>
    <3>1. msg \in JobSet
      BY <1>0, <2>3, <2>5 DEF Message, Registered, JobSet, MeshTypes, View
    <3>a. /\ msg.op = "message" /\ msg.node = n /\ msg.pose = pose[n]
          /\ msg.left = nodes \ {n}
      BY DEF Message, Registered
    <3> HIDE DEF msg
    <3>2. front \in Seq(JobSet) /\ Len(front) = 1 /\ front[1] = msg
      BY <3>1
    <3> HIDE DEF front
    <3>3. \A k \in 1 .. Len(front) : front[k].pose = pose[front[k].node]
      BY <3>2, <3>a
    <3>4. ASSUME NEW a \in Actor, NEW b \in Actor, a # b, Near(pose, a, b), Tells(m, a, b)
          PROVE  \E k \in 1 .. Len(front) : Tells(front[k], a, b)
      <4>1. b = n
        BY <2>1, <3>4 DEF Tells
      <4>2. a \in nodes
        BY <1>0, <3>4, NearAreNodes, MeshAssumption DEF IInv, OnlyNodesReport
      <4>3. Tells(msg, a, b)
        BY <3>4, <3>a, <4>1, <4>2 DEF Tells
      <4> QED BY <3>2, <4>3
    <3>5. GoesOn(r, front \o Rest(r), FALSE) /\ UNCHANGED mesh
      BY <1>2, <2>5 DEF front, msg, Send
    <3> QED BY <2>1, <3>2, <3>3, <3>4, <3>5, JobTurn
  <2> QED BY <2>4, <2>5
<1>3. CASE Deliver(r)
  BY <1>3, DeliverTurn
<1>4. CASE Delivered(r)
  <2>1. m.op = "message" /\ requests[r] # << >> /\ m.left = {}
    BY <1>4 DEF Delivered, Job
  <2>2. Rest(r) \in Seq(JobSet)
    BY <1>0, <2>1, RestIsJobs
  <2>3. \A n, p : ~Tells(m, n, p)
    BY <2>1 DEF Tells
  <2>4. GoesOn(r, Rest(r), m.heard) /\ UNCHANGED mesh
    BY <1>4 DEF Delivered
  <2> QED BY <2>1, <2>3, <2>4, PopTurn
<1>5. CASE WarnPeers(r)
  <2>1. m.op = "warn" /\ requests[r] # << >>
    BY <1>5 DEF WarnPeers, Job
  <2>2. m \in JobSet /\ Rest(r) \in Seq(JobSet)
    BY <1>0, <2>1, RestIsJobs
  <2> DEFINE front == <<Announce(m.node, m.risk)>>
  <2>3. Announce(m.node, m.risk) \in JobSet
    BY <2>1, <2>2 DEF JobSet, Announce
  <2>4. front \in Seq(JobSet) /\ \A k \in 1 .. Len(front) : front[k].op # "message"
    BY <2>3 DEF Announce
  <2>5. \A n, p : ~Tells(m, n, p)
    BY <2>1 DEF Tells
  <2>6. GoesOn(r, front \o Rest(r), Neighbours(pose, m.node) # {}) /\ UNCHANGED mesh
    BY <1>5 DEF WarnPeers
  <2> HIDE DEF front
  <2> QED BY <2>1, <2>4, <2>5, <2>6, JobTurn
<1>6. CASE TellListeners(r)
  <2>1. m.op = "announce" /\ requests[r] # << >>
    BY <1>6 DEF TellListeners, Job
  <2>2. Rest(r) \in Seq(JobSet)
    BY <1>0, <2>1, RestIsJobs
  <2>3. \A n, p : ~Tells(m, n, p)
    BY <2>1 DEF Tells
  <2>4. GoesOn(r, Rest(r), TRUE) /\ UNCHANGED mesh
    BY <1>6 DEF TellListeners
  <2> QED BY <2>1, <2>3, <2>4, PopTurn
<1> QED
  BY <1>1, <1>2, <1>3, <1>4, <1>5, <1>6 DEF GoOn

\* An update that nobody's is in the way of: the others knew each other, a
\* vehicle the moved one newly finds is asked to repeat its state.
LEMMA UpdateTurn ==
    ASSUME IInv, TurnInv, NEW r \in Slot, NEW a \in Actor, NEW x \in Pose, Update(r, a, x)
    PROVE  TurnInv'
<1> DEFINE at    == [pose EXCEPT ![a] = x]
           risk  == Prioritized(x, Pruned(at, a))
           found == Found(at, a)
           jobs  == <<Repeat(found), Broadcast(a)>> \o Warnings(a, risk)
<1>1. /\ running = Nobody /\ requests[r] = << >>
      /\ pose' = at /\ running' = r /\ standalone' = standalone
      /\ peers' = [n \in Actor |-> Pruned(at, n)]
      /\ requests' = [requests EXCEPT ![r] = jobs]
      /\ raced' = (raced \/ \E s \in Slot : requests[s] # << >>)
  BY DEF Update, Moved
<1>2. /\ MeshTypes /\ SeesOnlyInRange /\ GatewayRunsToTheEnd
      /\ pose \in View /\ peers \in [Actor -> View] /\ requests \in [Slot -> Seq(JobSet)]
  BY DEF IInv, MeshTypes, TurnInv
<1>3. at \in View /\ at[a] = x /\ \A n \in Actor \ {a} : at[n] = pose[n]
  BY <1>2 DEF View
<1>4. GatewayRunsToTheEnd'
  BY <1>1, <1>2, MeshAssumption DEF GatewayRunsToTheEnd, Nobody
<1>5. ASSUME ~raced' PROVE UnheardIsOwed' /\ MessagesAreCurrent'
  <2>1. /\ ~raced
        /\ \A s \in Slot : requests[s] = << >>
        /\ \A s \in Slot \ {r} : requests'[s] = << >>
        /\ requests'[r] = jobs
    BY <1>1, <1>2, <1>5
  <2>2. ASSUME NEW n \in Actor, NEW p \in Actor, n # p, Near(pose, n, p)
        PROVE  peers[n][p] = pose[p]
    <3>1. ~Owed(n, p)
      BY <2>1 DEF Owed
    <3> QED BY <2>1, <2>2, <3>1 DEF TurnInv, UnheardIsOwed
  <2>3. Warn(a, risk).op = "warn"
    BY DEF Warn
  <2>4. /\ 1 \in 1 .. Len(jobs) /\ 2 \in 1 .. Len(jobs)
        /\ jobs[1] = Repeat(found) /\ jobs[2] = Broadcast(a)
        /\ \A i \in 1 .. Len(jobs) : jobs[i].op # "message"
    <3> HIDE DEF risk, found
    <3>1. CASE Warnings(a, risk) = << >>
      BY <3>1 DEF Repeat, Broadcast
    <3>2. CASE Warnings(a, risk) = <<Warn(a, risk)>>
      BY <2>3, <3>2 DEF Repeat, Broadcast
    <3> QED BY <3>1, <3>2 DEF Warnings
  <2> HIDE DEF jobs
  <2>5. MessagesAreCurrent'
    BY <2>1, <2>4 DEF MessagesAreCurrent
  <2>6. ASSUME NEW n \in Actor, NEW p \in Actor, n # p, Near(at, n, p), peers'[n][p] # at[p]
        PROVE  Owed(n, p)'
    <3>1. peers'[n][p] = peers[n][p]
      BY <1>1, <2>6 DEF Pruned
    <3>2. CASE p = a
      <4>1. Tells(requests[r][2], n, p)'
        BY <2>1, <2>4, <3>2 DEF Tells, Broadcast
      <4> QED BY <2>1, <2>4, <4>1 DEF Owed
    <3>3. CASE n = a
      <4>1. at[p] = pose[p]
        BY <1>3, <2>6, <3>3
      <4>2. ~Near(pose, a, p)
        BY <2>2, <2>6, <3>1, <3>3, <4>1
      <4>3. p \in found
        BY <2>6, <3>3, <4>2 DEF Found, Neighbours
      <4>4. Tells(requests[r][1], n, p)'
        BY <2>1, <2>4, <4>3 DEF Tells, Repeat
      <4> QED BY <2>1, <2>4, <4>4 DEF Owed
    <3>4. CASE n # a /\ p # a
      <4>1. at[p] = pose[p] /\ Near(pose, n, p)
        BY <1>3, <2>6, <3>4 DEF Near
      <4> QED BY <2>2, <2>6, <3>1, <4>1
    <3> QED BY <3>2, <3>3, <3>4
  <2>7. UnheardIsOwed'
    BY <1>1, <2>6 DEF UnheardIsOwed, Near
  <2> QED BY <2>5, <2>7
<1> QED BY <1>4, <1>5 DEF TurnInv

\* An actor leaves the gateway's mesh between two updates.
LEMMA RetireTurn ==
    ASSUME IInv, TurnInv, NEW a \in Actor, Retire(a)
    PROVE  TurnInv'
<1>1. /\ pose \in View /\ peers \in [Actor -> View] /\ GatewayRunsToTheEnd
      /\ ~standalone /\ running = Nobody
  BY DEF IInv, MeshTypes, TurnInv, Retire
<1>2. /\ pose' = [pose EXCEPT ![a] = Unknown]
      /\ peers' = [n \in Actor |-> IF n = a THEN [p \in Actor |-> Unknown]
                                   ELSE [peers[n] EXCEPT ![a] = Unknown]]
      /\ standalone' = standalone /\ requests' = requests /\ running' = running /\ raced' = raced
  BY DEF Retire, NoView
<1>3. \A r \in Slot : requests[r] = << >>
  BY <1>1, MeshAssumption DEF GatewayRunsToTheEnd, Nobody
<1>4. ASSUME ~raced PROVE UnheardIsOwed' /\ MessagesAreCurrent'
  <2>1. MessagesAreCurrent'
    BY <1>2, <1>3 DEF MessagesAreCurrent
  <2>2. ASSUME NEW n \in Actor, NEW p \in Actor, n # p, Near(pose', n, p)
        PROVE  peers'[n][p] = pose'[p]
    <3>1. pose' \in View
      BY <1>1, <1>2 DEF View
    <3>2. pose'[n] # Unknown /\ pose'[p] # Unknown
      BY <2>2, <3>1, NearAreNodes, MeshAssumption
    <3>3. n # a /\ p # a
      BY <1>1, <1>2, <3>2 DEF View
    <3>4. Near(pose, n, p) /\ peers'[n][p] = peers[n][p] /\ pose'[p] = pose[p]
      BY <1>1, <1>2, <2>2, <3>3 DEF Near, View
    <3>5. ~Owed(n, p)
      BY <1>3 DEF Owed
    <3> QED BY <1>4, <2>2, <3>4, <3>5 DEF TurnInv, UnheardIsOwed
  <2> QED BY <2>1, <2>2 DEF UnheardIsOwed, Near
<1> QED BY <1>1, <1>2, <1>3, <1>4 DEF TurnInv, GatewayRunsToTheEnd

LEMMA InitTurn == Init => TurnInv
<1> SUFFICES ASSUME Init PROVE TurnInv
  OBVIOUS
<1>1. \A n \in Actor, p \in Actor : ~Near(pose, n, p)
  BY MeshAssumption DEF Init, Near, Nowhere
<1> QED
  BY <1>1 DEF Init, TurnInv, GatewayRunsToTheEnd, UnheardIsOwed, MessagesAreCurrent

LEMMA NextTurn == IInv /\ TurnInv /\ [Next]_vars => TurnInv'
<1> SUFFICES ASSUME IInv, TurnInv, [Next]_vars PROVE TurnInv'
  OBVIOUS
<1>0. ASSUME UNCHANGED <<standalone, pose, peers, requests, running, raced>> PROVE TurnInv'
  BY <1>0 DEF TurnInv, GatewayRunsToTheEnd, UnheardIsOwed, MessagesAreCurrent, Near, Owed, Tells
<1>1. ASSUME NEW r \in Slot, GoOn(r) PROVE TurnInv'
  BY <1>1, GoOnTurn
<1>2. ASSUME NEW r \in Slot, NEW a \in Actor, NEW x \in Pose,
             Observe(r, a, x) \/ UpdateState(r, a, x)
      PROVE TurnInv'
  BY <1>2, UpdateTurn DEF Observe, UpdateState
<1>3. ASSUME NEW a \in Actor, Elapse(a) PROVE TurnInv'
  BY <1>0, <1>3 DEF Elapse, mesh
<1>4. ASSUME NEW a \in Actor, Retire(a) PROVE TurnInv'
  BY <1>4, RetireTurn
<1>5. ASSUME NEW a \in Actor, CreateNode(a) PROVE TurnInv'
  BY <1>0, <1>5 DEF CreateNode
<1>6. CASE UNCHANGED vars
  BY <1>0, <1>6 DEF vars, mesh
<1> QED
  BY <1>1, <1>2, <1>3, <1>4, <1>5, <1>6 DEF Next

\* As long as no update began while another was suspended, vehicles in range
\* hold each other's latest state whenever nothing is left to do: the state
\* that is broadcast and the handshake with newcomers reach everyone
\* (update_actor_state, refresh_direct_peers).
THEOREM InTurnAllKnow == Spec => []ViewsFreshInTurn
<1>1. TurnInv => ViewsFreshInTurn
  BY DEF TurnInv, ViewsFreshInTurn, ViewsFresh, Idle, UnheardIsOwed, Owed, Neighbours
<1> QED
  BY <1>1, InitTurn, NextTurn, Invariance, PTL DEF Spec

=============================================================================
