----------------------------- MODULE WorldState -----------------------------
(***************************************************************************)
(* The live world of services/gateway/world_state.py, its stream to the    *)
(* dashboards, and the store each dashboard keeps of it.                   *)
(*                                                                         *)
(* The gateway is one event loop: a handler is one action unless it really *)
(* suspends.  Ingesting a frame (the legacy batch) suspends after each     *)
(* vehicle when an event bus or Redis is attached (Bus) and never          *)
(* otherwise; the radio mesh the handlers await takes no suspension.  A    *)
(* report's content is the number of the object stored for it, so equal    *)
(* numbers mean equal reports, and "edited" holds the objects that a       *)
(* command or a position-quality event changed in place.                   *)
(***************************************************************************)
EXTENDS Integers, FiniteSets, SequencesExt

CONSTANTS Vehicle,      \* actor ids of vehicles
          Roadside,     \* ids of pedestrians and signals
          Hazard,       \* ids of hazards
          Client,       \* dashboards
          Mode,         \* connectivity modes
          Bus,          \* whether an event bus or Redis is attached
          Ttl,          \* DEFAULT_ACTOR_TTL_S, in sweeps
          QueueLimit,   \* maxsize of a subscriber's queue
          WireLimit,    \* messages a socket takes before send suspends
          MaxStored,    \* bound of the model on stored objects
          MaxDrops      \* bound of the model on lost connections

ASSUME WorldAssumption ==
    /\ Bus \in BOOLEAN
    /\ Ttl \in Nat
    /\ QueueLimit \in Nat \ {0}
    /\ WireLimit \in Nat \ {0}
    /\ MaxStored \in Nat
    /\ MaxDrops \in Nat
    /\ "unset" \notin Mode
    /\ Vehicle \cap Roadside = {}
    /\ Hazard \cap (Vehicle \cup Roadside) = {}   \* a key has its kind in it

VARIABLES world,        \* _entities without the risks: the object of each key
          edited,       \* objects changed in place
          risks,        \* the risk entities, with the frame that found them
          idle,         \* time since _last_seen; a key without one is overdue
          stored,       \* objects stored so far
          mode,         \* _connectivity_state
          frame,        \* the frame being ingested, or NoFrame
          link,         \* per dashboard, whether its stream is open
          queue,        \* _subscribers: the bounded queue of each open stream
          wire,         \* messages sent and not yet received
          missed,       \* history: a delta of the open stream was dropped
          drops,        \* connections lost so far
          view          \* the world store of each dashboard

server  == <<world, edited, risks, idle, stored, mode, frame>>
streams == <<link, queue, wire, missed, drops, view>>
vars    == <<server, streams>>

Key        == Vehicle \cup Roadside \cup Hazard
Perishable == Vehicle \cup Roadside

Absent  == 0
Overdue == Ttl + 1
Object  == 1 .. stored

Present(keys) == {k \in keys : world[k] # Absent}

Pair == {p \in SUBSET Vehicle : Cardinality(p) = 2}
Risk == [frame : Nat, actors : Pair]

NoFrame == [open |-> FALSE]
Frame   == [open : {TRUE}, vehicles : SUBSET Vehicle, roadside : SUBSET Roadside,
            done : SUBSET (Key \X Nat)]

AlwaysFree == TRUE                              \* variant: frames suspend

\* Other handlers run: no frame is in a stretch without suspension.
LoopFree == Bus \/ frame = NoFrame

\* Objects the open frame has still to store; the bound keeps room for them.
Pending == IF frame.open THEN Cardinality(frame.vehicles) + 1 ELSE 0

NoView == [world |-> [k \in Key |-> <<Absent, FALSE>>], risks |-> {}, mode |-> "unset"]

Init ==
    /\ world = [k \in Key |-> Absent]
    /\ edited = {}
    /\ risks = {}
    /\ idle = [k \in Perishable |-> Overdue]
    /\ stored = 0
    /\ mode = "unset"
    /\ frame = NoFrame
    /\ link = [c \in Client |-> FALSE]
    /\ queue = [c \in Client |-> << >>]
    /\ wire = [c \in Client |-> << >>]
    /\ missed = [c \in Client |-> FALSE]
    /\ drops = 0
    /\ view = [c \in Client |-> NoView]

-----------------------------------------------------------------------------
(***************************************************************************)
(* Deltas.  An upsert names the stored object and not its content: the     *)
(* queue holds references, and a later edit shows when it is sent.  (A     *)
(* "variant" is what a plausible bug would make of the definition below    *)
(* it; no specification uses one.)                                         *)
(***************************************************************************)
Delta(upserts, deletes, riskUpserts, riskDeletes, connectivity) ==
    [kind |-> "delta", upserts |-> upserts, deletes |-> deletes,
     riskUpserts |-> riskUpserts, riskDeletes |-> riskDeletes,
     mode |-> connectivity]

\* _snapshot_delta: every entity there is.
Snapshot ==
    [kind |-> "snapshot", upserts |-> {<<k, world[k]>> : k \in Present(Key)},
     deletes |-> {}, riskUpserts |-> risks, riskDeletes |-> {}, mode |-> mode]

HasRoomTooLong(c) == Len(queue[c]) <= QueueLimit    \* variant

HasRoom(c) == Len(queue[c]) < QueueLimit

\* Each subscriber gets the delta, or loses it when its queue is full.
Notify(delta) ==
    /\ queue' = [c \in Client |-> IF link[c] /\ HasRoom(c)
                                  THEN Append(queue[c], delta)
                                  ELSE queue[c]]
    /\ missed' = [c \in Client |-> missed[c] \/ (link[c] /\ ~HasRoom(c))]
    /\ UNCHANGED <<link, wire, drops, view>>

(***************************************************************************)
(* _refresh_risks: the risks of the vehicles present replace the last ones.*)
(***************************************************************************)
RefreshRisks(found, present) ==
    /\ found \subseteq {p \in Pair : p \subseteq present}
    /\ risks' = {[frame |-> stored', actors |-> p] : p \in found}

ReplacedNone == {}                              \* variant: old risks stay

Replaced == risks

-----------------------------------------------------------------------------
(***************************************************************************)
(* Ingestion.                                                              *)
(***************************************************************************)
RoomFor(n) == stored + Pending + n <= MaxStored

Store(keys) ==
    /\ stored' = stored + 1
    /\ world' = [k \in Key |-> IF k \in keys THEN stored + 1 ELSE world[k]]
    /\ idle' = [k \in Perishable |-> IF k \in keys THEN 0 ELSE idle[k]]

Upserts(keys) == {<<k, stored + 1>> : k \in keys}

IngestVehicle(v, found) ==
    /\ LoopFree /\ RoomFor(1)
    /\ Store({v})
    /\ RefreshRisks(found, Present(Vehicle) \cup {v})
    /\ Notify(Delta(Upserts({v}), {}, risks', Replaced, mode))
    /\ UNCHANGED <<edited, mode, frame>>

\* Pedestrians, signals (one report or one frame of them) and hazards.
IngestOther(keys) ==
    /\ LoopFree /\ RoomFor(1)
    /\ Store(keys)
    /\ Notify(Delta(Upserts(keys), {}, {}, {}, mode))
    /\ UNCHANGED <<edited, risks, mode, frame>>

\* ingest_legacy: a frame lists its vehicles before its pedestrians.
OpenFrame(vehicles, roadside) ==
    /\ frame = NoFrame /\ RoomFor(Cardinality(vehicles) + 1)
    /\ frame' = [open |-> TRUE, vehicles |-> vehicles, roadside |-> roadside,
                 done |-> {}]
    /\ UNCHANGED <<world, edited, risks, idle, stored, mode, streams>>

FrameVehicle(v) ==
    /\ frame.open /\ v \in frame.vehicles
    /\ Store({v})
    /\ frame' = [frame EXCEPT !.vehicles = @ \ {v}, !.done = @ \cup Upserts({v})]
    /\ UNCHANGED <<edited, risks, mode, streams>>

\* The rest of the frame, with its risks and its one delta.  (Store is taken
\* even without a pedestrian: its number is the fresh name of the risks.)
CloseFrame(found) ==
    /\ frame.open /\ frame.vehicles = {}
    /\ Store(frame.roadside)
    /\ IF frame.done = {}
       THEN /\ UNCHANGED risks
            /\ Notify(Delta(Upserts(frame.roadside), {}, {}, {}, mode))
       ELSE /\ RefreshRisks(found, Present(Vehicle))
            /\ Notify(Delta(frame.done \cup Upserts(frame.roadside), {},
                            risks', Replaced, mode))
    /\ frame' = NoFrame
    /\ UNCHANGED <<edited, mode>>

(***************************************************************************)
(* An operator's command or a position-quality event changes the stored    *)
(* object itself.  A second edit of an object shows nothing new here.      *)
(***************************************************************************)
Edit(v) ==
    /\ LoopFree
    /\ world[v] # Absent /\ world[v] \notin edited
    /\ edited' = edited \cup {world[v]}
    /\ Notify(Delta({<<v, world[v]>>}, {}, {}, {}, mode))
    /\ UNCHANGED <<world, risks, idle, stored, mode, frame>>

IngestConnectivity(m) ==
    /\ LoopFree
    /\ mode # m
    /\ mode' = m
    /\ Notify(Delta({}, {}, {}, {}, m))
    /\ UNCHANGED <<world, edited, risks, idle, stored, frame>>

-----------------------------------------------------------------------------
(***************************************************************************)
(* Departure.                                                              *)
(***************************************************************************)
Forget(keys) ==
    /\ world' = [k \in Key |-> IF k \in keys THEN Absent ELSE world[k]]
    /\ idle' = [k \in Perishable |-> IF k \in keys THEN Overdue ELSE idle[k]]
    /\ UNCHANGED <<edited, risks, stored, mode, frame>>

Retire(v) ==
    /\ LoopFree
    /\ world[v] # Absent
    /\ Forget({v})
    /\ Notify(Delta({}, {v}, {}, {}, mode))

Silent == {k \in Present(Perishable) : idle[k] > Ttl}

ToldVehiclesOnly(keys) == keys \cap Vehicle     \* variant

Told(keys) == keys

\* sweep_stale_entities, which the reaper runs for ever.
Sweep ==
    /\ LoopFree
    /\ Silent # {}
    /\ Forget(Silent)
    /\ Notify(Delta({}, Told(Silent), {}, {}, mode))

Tick ==
    /\ \E k \in Perishable : idle[k] < Overdue
    /\ idle' = [k \in Perishable |-> IF idle[k] < Overdue THEN idle[k] + 1 ELSE idle[k]]
    /\ UNCHANGED <<world, edited, risks, stored, mode, frame, streams>>

-----------------------------------------------------------------------------
(***************************************************************************)
(* The stream and the dashboard.  The handler subscribes and takes its     *)
(* snapshot in one stretch.                                                *)
(***************************************************************************)
\* What json.dumps makes of a queued message when it is sent.
Sent(delta) ==
    [delta EXCEPT !.upserts = {<<u[1], <<u[2], u[2] \in edited>>>> : u \in @}]

NoMessages == << >>                             \* variant: deltas only

FirstMessages == <<Sent(Snapshot)>>

Connect(c) ==
    /\ LoopFree
    /\ ~link[c]
    /\ link' = [link EXCEPT ![c] = TRUE]
    /\ wire' = [wire EXCEPT ![c] = FirstMessages]
    /\ missed' = [missed EXCEPT ![c] = FALSE]
    /\ UNCHANGED <<server, queue, drops, view>>

Send(c) ==
    /\ LoopFree
    /\ queue[c] # << >> /\ Len(wire[c]) < WireLimit
    /\ wire' = [wire EXCEPT ![c] = Append(@, Sent(Head(queue[c])))]
    /\ queue' = [queue EXCEPT ![c] = Tail(@)]
    /\ UNCHANGED <<server, link, missed, drops, view>>

\* applyDelta: a snapshot replaces the store; upserts come before deletes.
Apply(store, delta) ==
    LET base      == IF delta.kind = "snapshot" THEN NoView ELSE store
        fresh(k)  == {u[2] : u \in {w \in delta.upserts : w[1] = k}}
    IN  [world |-> [k \in Key |->
                      IF k \in delta.deletes THEN <<Absent, FALSE>>
                      ELSE IF fresh(k) # {} THEN CHOOSE d \in fresh(k) : TRUE
                      ELSE base.world[k]],
         risks |-> (base.risks \cup delta.riskUpserts) \ delta.riskDeletes,
         mode  |-> IF delta.mode # "unset" THEN delta.mode ELSE store.mode]

Receive(c) ==
    /\ wire[c] # << >>
    /\ view' = [view EXCEPT ![c] = Apply(@, Head(wire[c]))]
    /\ wire' = [wire EXCEPT ![c] = Tail(@)]
    /\ UNCHANGED <<server, link, queue, missed, drops>>

\* The connection breaks; what the dashboard shows stays on its screen.
Drop(c) ==
    /\ link[c] /\ drops < MaxDrops
    /\ drops' = drops + 1
    /\ link' = [link EXCEPT ![c] = FALSE]
    /\ queue' = [queue EXCEPT ![c] = << >>]
    /\ wire' = [wire EXCEPT ![c] = << >>]
    /\ UNCHANGED <<server, missed, view>>

Next ==
    \/ \E v \in Vehicle, found \in SUBSET Pair : IngestVehicle(v, found)
    \/ \E keys \in (SUBSET Roadside) \ {{}} : IngestOther(keys)
    \/ \E h \in Hazard : IngestOther({h})
    \/ \E vehicles \in SUBSET Vehicle, roadside \in SUBSET Roadside :
          vehicles \cup roadside # {} /\ OpenFrame(vehicles, roadside)
    \/ \E v \in Vehicle : FrameVehicle(v)
    \/ \E found \in SUBSET Pair : CloseFrame(found)
    \/ \E v \in Vehicle : Edit(v) \/ Retire(v)
    \/ \E m \in Mode : IngestConnectivity(m)
    \/ Sweep
    \/ Tick
    \/ \E c \in Client : Connect(c) \/ Send(c) \/ Receive(c) \/ Drop(c)

\* The reaper and the senders are tasks that always run again, a frame being
\* ingested is finished, and an open connection delivers.
Fairness ==
    /\ WF_vars(Tick)
    /\ WF_vars(Sweep)
    /\ WF_vars(\E v \in Vehicle : FrameVehicle(v))
    /\ WF_vars(\E found \in SUBSET Pair : CloseFrame(found))
    /\ \A c \in Client : WF_vars(Send(c)) /\ WF_vars(Receive(c))

Spec     == Init /\ [][Next]_vars
FairSpec == Spec /\ Fairness

-----------------------------------------------------------------------------
Shown == [world : [Key -> (0 .. stored) \X BOOLEAN], risks : SUBSET Risk,
          mode : Mode \cup {"unset"}]

TypeOK ==
    /\ world \in [Key -> 0 .. stored]
    /\ edited \subseteq Object
    /\ risks \subseteq Risk
    /\ idle \in [Perishable -> 0 .. Overdue]
    /\ stored \in 0 .. MaxStored
    /\ mode \in Mode \cup {"unset"}
    /\ frame \in Frame \cup {NoFrame}
    /\ link \in [Client -> BOOLEAN]
    /\ \A c \in Client : Len(queue[c]) <= QueueLimit /\ Len(wire[c]) <= WireLimit
    /\ missed \in [Client -> BOOLEAN]
    /\ drops \in 0 .. MaxDrops
    /\ view \in [Client -> Shown]

\* What the gateway holds, in the form a dashboard stores it.
WorldView == [world |-> [k \in Key |-> <<world[k], world[k] \in edited>>],
              risks |-> risks,
              mode  |-> mode]

InFlight(c) == wire[c] \o [i \in 1 .. Len(queue[c]) |-> Sent(queue[c][i])]

\* The messages that say anything of an entity, and those of a risk.
Concerns(m, k) == m.kind = "snapshot" \/ k \in m.deletes \/ \E u \in m.upserts : u[1] = k
ConcernsRisk(m, r) == m.kind = "snapshot" \/ r \in m.riskUpserts \cup m.riskDeletes

\* Of the messages about an entry (about: their places) the last says what is
\* held, or there is none and it is shown already.
Settles(about, shown, said, held) ==
    /\ about = {} => shown = held
    /\ \A i \in about : (\A j \in about : j <= i) => said[i] = held

Said(m) == Apply(NoView, m)

EntitySettled(c, k) ==
    LET flight == InFlight(c)
    IN  Settles({i \in DOMAIN flight : Concerns(flight[i], k)}, view[c].world[k],
                [i \in DOMAIN flight |-> Said(flight[i]).world[k]], WorldView.world[k])

RiskSettled(c, r) ==
    LET flight == InFlight(c)
    IN  Settles({i \in DOMAIN flight : ConcernsRisk(flight[i], r)}, view[c].risks \cap {r},
                [i \in DOMAIN flight |-> Said(flight[i]).risks \cap {r}], risks \cap {r})

ModeSettled(c) ==
    LET flight == InFlight(c)
    IN  Settles({i \in DOMAIN flight : flight[i].mode # "unset"}, view[c].mode,
                [i \in DOMAIN flight |-> Said(flight[i]).mode], mode)

\* A dashboard that lost no delta converges on the gateway: of each entity and
\* risk and of the connectivity the last message on its way to the dashboard
\* tells what the gateway holds, and of what no message tells the dashboard
\* shows that, whenever it connected and whatever was ingested, edited, retired
\* or swept since.
CatchesUp ==
    frame = NoFrame =>
        \A c \in Client : link[c] /\ ~missed[c] =>
            LET flight == InFlight(c)
            IN  /\ \A k \in Key : EntitySettled(c, k)
                /\ \A r \in risks \cup view[c].risks
                        \cup UNION {flight[i].riskUpserts : i \in DOMAIN flight} : RiskSettled(c, r)
                /\ ModeSettled(c)

\* The same, told by taking the messages in one after the other.
ReplayYieldsWorld ==
    frame = NoFrame =>
        \A c \in Client : link[c] /\ ~missed[c] =>
            FoldLeft(Apply, view[c], InFlight(c)) = WorldView

\* An older report of an actor never replaces a newer one on a screen.
NeverOlder ==
    [][\A c \in Client, k \in Key :
          view'[c].world[k][1] # Absent => view'[c].world[k][1] >= view[c].world[k][1]]_vars

\* "connected dashboards remove the actor immediately rather than waiting for
\* a reload": once the producers have stopped, the actors they left behind
\* disappear from every connected dashboard that lost no delta.
AbandonedDisappear ==
    <>[](\A c \in Client, k \in Perishable :
            link[c] /\ ~missed[c] => view[c].world[k][1] = Absent)

(***************************************************************************)
(* Claims of comments.                                                     *)
(***************************************************************************)
\* "caused the dashboard to select conflicts that no longer existed", which
\* replacing the risks was to end: a connected dashboard shows the risks of a
\* single frame.
RisksOfOneFrame ==
    \A c \in Client : link[c] =>
        \A r, s \in view[c].risks : r.frame = s.frame

\* "a cleared incident must not leave a phantom vehicle": when everything sent
\* has arrived, a dashboard that lost no delta shows no vehicle that has left.
NoPhantomVehicle ==
    frame = NoFrame =>
        \A c \in Client : link[c] /\ ~missed[c] /\ InFlight(c) = << >> =>
            \A v \in Vehicle : view[c].world[v][1] # Absent => world[v] # Absent

\* "risks are recomputed every frame, so neither is swept": risks do not
\* outlive the vehicles they concern.
RisksLeaveWithVehicles ==
    Present(Vehicle) = {} ~> (risks = {} \/ Present(Vehicle) # {})
=============================================================================
