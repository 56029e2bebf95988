# Marga: TLA+ models, model checking and proofs

Marga is a traffic-safety platform: simulated or real road users report to a
Python gateway, services judge the situation, and browser dashboards show it
and drive a junction simulator. This directory models the parts of it whose
correctness depends on order, loss, time, bounds and restarts.

Paths below are relative to `src/`. `PROJECT.json` lists components, runs,
mutants, the source lines of every definition, findings, hazards and theorems.

## 1. The system

### Components

| Component | State it keeps | Operations | Who it talks to | Module |
|---|---|---|---|---|
| Message queue `services/messaging/.../priority.py` | four lanes, latest sequence per sender, tombstones, counters | `enqueue`, `dequeue`, `get_stats` | the messaging API | `PriorityQueue` |
| Store and forward `store_forward.py` | entries, an index from message to entry, counters | `store`, `flush`, `cleanup` | its caller says what the connectivity allows | `StoreForward`, `Outbox` |
| Connectivity monitor `connectivity.py` | outcome windows per route, mode, listeners, a lock | reports, listeners | told by whoever sends | `Connectivity` |
| WebSocket transport `transport.py` | one connection, a receive loop, handlers | `publish`, `subscribe`, `close` | a WebSocket server | `WebSocketTransport` |
| Signal safety and live controller `services/signal-rl` | topologies, newest signal state, phase clock per junction, bounded decision log, executor | `observe_signal`, `recommend`, `apply`, `decide_and_apply`, `clear` | reads policy and graph, sends to its executor | `SignalSafety`, `SignalController` |
| Signal training service `signal-rl/.../api.py`, `environment.py` | a simulated junction per environment, a policy in memory and on disk | `observe`, `action`, `train` | threads of one process | `SignalTraining` |
| Gateway signal control and adaptive loop | pending commands (at most 256), history | endpoints; a loop every interval | the controller's executor; browsers poll it | `SignalController`, `SignalLoop` |
| Gateway world state `world_state.py` | entities, last-seen times, connectivity, one bounded queue per dashboard | ingestion, commands, retirement, sweep, stream | event bus, dashboards | `WorldState` |
| Dashboard world store and streams `apps/web-dashboard/src/state`, `net` | what is on the screen; sockets and timers | `applyDelta`, connect, close, dispose | consumes the streams | `WorldState`, `StreamClient` |
| Junction simulator and telemetry | lamp clock, publishing and registration flags, producer lease | frame loop, telemetry, polling, applying commands | posts to the gateway and polls it | `SignalLoop`, `TelemetryFeed` |
| Scenario service | JSON files of scenarios and runs; a clock and a task per run | start, pause, resume, stop, speed, inject | files through aiofiles, the gateway | `ScenarioRuns` |
| Failure injector, mock simulation | schedules and active failures; cars, signal, phases | `inject`, `update`, the effects; one task per run | the gateway | `FailureEffects`, `MockTraffic` |
| Simulation adapters `services/simulation_adapter` | SUMO connection, run id, vehicles known | `run`, `stop`, `tick` | SUMO, a callback | `SimulationRun` |
| Edge V2X mesh and the gateway's bridge | a node per vehicle, what it received, its active risk | state update, delivery, removal | the bridge, or its own HTTP service | `EdgeV2X` |
| Position, risk | fused states | fuse, evaluate pairs | gateway, edge nodes | `CollisionRisk` |
| Alerts `services/alerts` | registry, store, history, clients | create, patch, resolve, stream | WebSocket clients | `AlertService` |
| Hazards `services/hazards` | hazards, spatial index, archive | observe, contradict, sweep, query | | `HazardFusion` |
| Trust `services/trust` | replay cache, buckets, trust levels, last reports | validate, issue, adjust | in front of other services | `Trust` |
| Routing, mobility graph | road metrics, actors, hazards; routes and loads | reports, `route`, `reroute` | the gateway feeds both | `MobilityGraph`, `Routing` |
| Safety detectors | alerts issued, counters, suppression; vehicles remembered; a hazard map | `evaluate`, `prioritize`, `fuse` | one HTTP service | `SafetyAlerts`, `MotionDetectors`, `TrackDetectors`, `BlindSpots`, `HazardEngine` |
| Policy learning, map service, integration, packages, views | numeric estimates, conversions, read-only queries, rendering | | | see section 6 |

### What is hard in it

* **Interleaving across suspensions.** The Python services are single event
  loops: code without an `await` that really suspends is atomic, everything
  else is not. The scenario service reads a record, awaits, and writes it back;
  the gateway's frame ingestion suspends when an event bus is attached; alert
  broadcasts wait on every client's socket; two callers may connect one
  transport at once. The training service is synchronous, so its requests run
  on threads.
* **Bookkeeping in two places.** Message lanes and tombstones, entries and
  index, alerts and the counters of their actors, lifecycle and store, hazards
  and spatial index, cars and road counts, progress and place of a car.
* **Bounded containers.** The queue's capacity, the decision log (500), the
  command queue (256), a dashboard's delta queue, the limit of alerts per actor.
* **A control loop over an unreliable link.** Lamp, telemetry, phase clock,
  decision, command queue, poll, lamp: each hop has its own clock and may lose,
  delay or repeat.
* **Two clocks.** Replay protection remembers on the monotonic clock and refuses
  on the wall clock.
* **Restarts and reconnects.** The gateway keeps all in memory, the scenario
  service half in files, the browser outlives both.
* **Thresholds.** Envelopes, windows, decays and the geometry of collisions are
  decided by comparisons that must leave no gap.

### What makes each component correct

* *Message queue*: newest per sender wins in a compacted lane; dispatch by lane
  and age; a safety message is never shed.
* *Store and forward*: of each message the newest version is handed over once,
  urgent ones first, none too old.
* *Streams and transport*: after every loss the connection comes back, and there
  is one.
* *Signal safety and controller*: no early switch, no extension close to the
  maximum; a decision is commanded at most once, its record tells what happened
  to its command; a command is lost only to newer ones.
* *Control loop*: telemetry is applied in order; queued commands leave.
* *Telemetry feed*: the tab that is looked at keeps publishing, one that lost its
  lease in the background stops, what was deleted stays deleted.
* *World stream*: a dashboard that lost no delta converges on the gateway, never
  shows an older report in place of a newer one; abandoned actors vanish.
* *Mesh*: the active risk of a vehicle is the worst of what it sees, and it sees
  the latest state of all in range and nothing else.
* *Scenario and simulation runs*: stop is final for clock, task and SUMO; events
  carry the run they show.
* *Alerts*: lifecycle, store and clients agree. *Safety alerts*: counters agree
  with the store; only a graver alert displaces one. *Detectors*: only what
  persisted is reported; priority needs a live credential.
* *Hazards*: the index finds each hazard where it is; what counts as verified
  is confident enough to.
* *Trust*: no message passes twice while its time could still be accepted; a sender stays within its rate.
* *Routing*: counts follow the cars, paths are cheapest.

The hazards, each at its line, with the properties aimed at it, are in
`PROJECT.json`.

## 2. The modules

| Module | Models |
|---|---|
| `PriorityQueue` | `MessagePriorityQueue` |
| `StoreForward`, `Outbox` | the store-and-forward manager, and what it promises; the first is shown to implement the second |
| `Connectivity`, `WebSocketTransport` | the monitor with its lock; the transport with its loop |
| `SignalSafety` | `SignalSafetyController.validate` and its envelope; extended by the next two |
| `SignalController` | `LiveSignalController` with the gateway's endpoints and command queue |
| `SignalLoop` | lamp, telemetry, phase clock, adaptive loop, command queue and poll together |
| `SignalTraining` | the stand-alone service: environments on threads, training, the policy file |
| `WorldState` | the gateway's world, its stream and the dashboards' stores together |
| `TelemetryFeed` | the browser's simulator in several tabs: animation loop, producer lease, publication |
| `StreamClient` | both reconnecting sockets of the dashboard, and their mounting |
| `ScenarioRuns` | the endpoints of one run over the file store |
| `SimulationRun` | the runner, the SUMO adapter, SUMO and the normaliser |
| `MockTraffic`, `FailureEffects` | the mock simulation; the failure injector |
| `EdgeV2X` | the mesh, its bridge and its stand-alone service |
| `CollisionRisk` | fusion of positions and the evaluation of pairs, in the gateway and in edge nodes, over cars that really move |
| `AlertService`, `Trust` | the alert platform; the trust pipeline |
| `HazardFusion`, `HazardEngine` | the hazard service; the detectors' own hazard map |
| `MobilityGraph`, `Routing` | road metrics from reports; costs, A*, routes. `Routing` extends `MobilityGraph` and drives it as the gateway does |
| `SafetyAlerts` | the alert prioritizer |
| `MotionDetectors`, `TrackDetectors`, `BlindSpots` | the detectors: those that remember vehicles, those that keep tracks, those that keep nothing |
| `MessagingProofs`, `TrafficProofs`, `GatewayProofs`, `RunsProofs`, `EdgeV2XProofs`, `ServicesProofs`, `DetectorsProofs`, `HazardProofs` | the theorems, section 4 |
| `MC...` | values for the constants and, where noted in section 3, several modules side by side |

Definitions marked *variant* say what a plausible bug would make of the
definition below them. No specification uses one; they are there to show that
each property notices the bug (`PROJECT.json`, "mutants").

### PriorityQueue

One action per outcome of a method, because each method holds the queue's lock
throughout. The heaps are one set of entries with their lane: a heap of
`(order, seq, message)` pops by sequence within a lane and sequences are unique,
so the set determines every pop. `latest`, `tombstones`, `seq` and `dropped` are
`_latest_by_sender`, `_tombstones`, `_seq` and `_total_dropped`. Expiry is
relative to each message's own TTL, so any queued entry may become stale at any
time (`Expire`); the code only looks at it in `dequeue`, and so does the model.
An `enqueue` of an already expired message changes nothing and is a stutter.
`EnqueueRefused` is a whole refused call: the fruitless search for a victim
already removed tombstoned entries from the lanes it went through. `returned` is
the result of the last call and `newest` a history variable.

### SignalSafety, SignalController

Times are whole ticks, proposals are any action: the learned policy is not
trusted. `Verdict` is the observation, the proposal and `Validate`; `Record` is
`_record` with the eviction from a full log; `Execute` is `_adapter_command`
and, for the gateway's executor, `_queue_command`. `Outcome` is what `apply` leaves
in the record: applied, or failed because nobody was there to command, because the
state the command is made from was gone (`_adapter_command` looks it up again,
inside the `try`), or because an adapter raised; only the last of these failures
comes after a call. `ApplyOpen`/`ApplyAgain` are
the endpoint `apply` with a decision id (the code looks at the decision's
junction only after applying it, and so does the model), `DecideAndApply` the
adaptive loop and the requests that recommend and apply at once, `Drain` the
poll, `Clear` the reset between runs. Telemetry may carry any timestamp in any
order. `calls` and `drained` are history variables.

### SignalLoop

One junction in time. A tick is the same time everywhere; instants are kept as
ages so that time is unbounded, and ages stop growing at `MaxAge`, which is
above every threshold they are compared with. `Publish`, `Deliver`, `LoseFrame`
are the telemetry request, of which the browser has one in flight at a time;
`Deliver` applies both signal heads the frame carries in their order, each
through `observe_signal`. `ControlTick` is one round of `_adaptive_signal_loop`,
`Announce`, `Poll`, `ApplyCommands` and `LoseResponse` are `syncSignalControl`
with requests that fail before or after the gateway acted. `Applied` is
`applySignalAction` on the lamp's modular clock. `Start` and `Crash` are the
gateway process; a crash empties all its memory.

Left out: pausing the browser's simulation, its time scale (lamp and wall clock
run at one speed here), `reset()`, and the decision log (each decision of the
loop is applied at once, so `SignalController` covers it).

### WorldState

A handler is one action unless it really suspends. With `Bus = FALSE` nothing
between storing and notifying suspends (awaiting a coroutine that never blocks
does not give way); with `Bus = TRUE` a legacy frame suspends after each
vehicle. A report's content is the number of the object stored for it; since
queued deltas hold references and commands edit objects in place, `edited`
keeps which objects changed, and `Sent` reads it when a message is serialised.
Risks are any set of pairs of present vehicles, replaced by each frame.
`queue` is a subscriber's bounded queue, `wire` what the socket holds, `view`
the browser's store; `Apply` is `applyDelta`. A connection may break at any
time (`Drop`) and the dashboard reconnects. `missed` is a history variable.
A key stands for a pair of a kind and an id, so no vehicle is a road-side user or
a hazard.

`CatchesUp` says of every entity, risk and mode that the last message on its way
that concerns it tells what the gateway holds, and that the dashboard shows that
already when there is none. `ReplayYieldsWorld` says the same of the whole: all
messages on their way applied in turn give the gateway's world. The first form is
the one that can be proved.

Left out: position quality, signal overrides (written, never read), rerouting
and incident traces, policy feedback; one legacy frame at a time; the window in
which a broken connection is still subscribed until its next send.

### ScenarioRuns

aiofiles runs each file operation on a thread, so requests interleave between
operations: reading, opening for writing (which empties the file), writing and
closing. What lies between two of them is one action (`Act`: the checks, the
clock and the cancelled task). `got` is the record a request has read, and later
the one it will write: the window in which it can be stale. A write over another
writer's text may leave the other's end behind (`Torn`) or not, depending on
lengths the model leaves out. `Restart` keeps files and empties memory. The
initial state is that of a run whose start has been answered.

Left out: creating, importing, listing and deleting scenarios, seek, replay
recording, and time itself.

### EdgeV2X

`Update` is `update_actor_state` up to its first await: creating the node,
pruning everyone's view, evaluating. What is left of it is a stack of jobs in
`requests`: newly found peers repeat their state, the state is broadcast, each
delivery evaluates the receiver and may put a warning on top. In the gateway
the listeners only fill queues and nothing suspends, so an update runs to its
end (`running`); in the stand-alone service the listeners await WebSocket sends,
and another update may start or go on at each of them. `standalone` chooses the
deployment at the start: the bridge's `Observe` and `Retire` exist only in the
gateway, `CreateNode` and `UpdateState` only in the service. A pose is what a
vehicle reports; which poses are in range of each other, and how bad the
conflict of two of them is, are constants. Every node is registered with every
other (`create_node` and `remove_node` see to it without suspending). A conflict
kind is identified with its rank, so a change of score alone counts as a new
risk, which the code would not announce; ties are broken by a fixed choice, in
the code by the order of discovery. `raced` is a history variable.

Left out: the internet flag and cloud contact times (no delivery depends on
them), counters, and the bridge's stream to dashboards.

### StoreForward, Outbox

`store` is `StoreNew` or, for a message already there, `StoreAgain`, which
replaces an older version and ignores a newer one's predecessor; `flush` is one
step, with the caller's word for the connectivity; `cleanup` and the expiry in
`flush` drop what is older than its own lifetime (`kind.ttl`). `Outbox` has neither entries nor index:
per message, what waits. The refinement maps `box` to the entry the index
names.

### Connectivity, WebSocketTransport

A report waits for the lock (`reports`), updates its window and tells the
listeners one by one, still holding the lock. In the transport, `calls` says at
which await each caller is, and `loops` where each receive loop is: `publish`,
`subscribe` and the loop connect on their own, and `ws` is whoever assigned
last. The server and the network (`Drop`, `Return`) are external.

### SignalTraining

Requests run on threads: looking for an environment, making one, judging an
action, judging it again inside the step, and stepping are separate, and so are
training, opening the policy file, writing it and installing the policy. The
episodes that training and the comparison with a fixed plan run, each on an
environment of its own, are steps too (`Practises`, `Compares`, `EpisodesEnd`). One
junction; of the traffic there is whether pedestrians wait; learning and rewards
are floating point and left out.

`PhasesEnd` bounds a phase by the maximum, a step, the clearance and ten seconds
for each other request. Ten and not a step, because a judgement goes stale: a
request judged an extension may make it after another has taken the phase to
its maximum, and each such extension also lengthens what is left, so that the
next judgement holds although the maximum has passed. Nobody else acts in the
environment of an episode, whose phases outlast the maximum by one step.

### TelemetryFeed

A tab's runtime (`references`, `scheduled` for `frameHandle`, `owns` for
`ownsProducerLease`, `asked` for the time since `lastLeaseRefresh`, `publishing`)
beside the views that hold it, the lease in the browser's storage, and the
publications under way. One callback is one action: `Animate` is a whole frame,
claim, simulation and start of a publication, thrown or not; `Ingest`, `Delete`
and `Published` are the answers a publication awaits. Ingestion may store a part
of a batch and fail; a DELETE may be done, refused or get no answer, and the
others go on when one fails. What a failed request did at the gateway it did
before its failure is seen. `CloseTab` is a crash of the page: no cleanup, the
lease stays behind, what is under way arrives or not. Of the simulation there is
which actors are shown and which are named as despawned.

### StreamClient

`sockets` are the browser's, `current` and `timer` the object's, `badge` the
last call of `onConnectionChange`. `Wrapped` channels go through
`ReconnectingSocket`, the others through `WorldStream`; they differ in what a
fired timer leaves behind. Constructors may throw (`throws`), and the gateway
may be away (`Outage`).

### SimulationRun

What `run` does from one sleep to the next is one step (`BeginRun`, `Wake`);
SUMO may refuse to start, and die. Events carry the adapter's run id; `batch`
keeps, beside what the last callback got, the run that SUMO really shows.
Commands are those the adapter offers. Both adapters (traci and libsumo) are
this one module.

### MockTraffic, FailureEffects

`MockTick` is a round of the task: phases, signal, then each car in the order of
the fleet, headway included, and posts of which any may fail. Of a car there is
its waypoint, the way left, and the progress headway uses. `FailureEffects` has
a schedule per scenario, a clock per run, and the effects as operators on what
is reported. An injection reads the schedule, empties the file and writes back
what it read with one entry more, each a step of its own (as in `ScenarioRuns`,
which has the restarts as well); a run may end
in between, and the failure then begins at the time its record says.
`OnlyWorsensInTurn` compares the effects before and after each injection that met
no other; of two that overlap one may be lost, and its effects with it
(`OnlyWorsens`, section 5).

### CollisionRisk

Cars drive straight on or brake, and are reported by one of two sources in any
order; `Report` fuses, evaluates every pair for the gateway, and those of the
ego for an edge node. Closest approach, range, horizon and lane filter are
integers, squared and multiplied out. `warned` keeps the risks of a second
before.

### AlertService, Trust

A POST or PATCH changes registry and store in one step and then queues for the
lock of the clients (`waiting`, `holder`), under which each send may give way.
`Trust` runs the stages of `validate` in their order, each with its memory;
`SetBack` sets the wall clock back while `mono` goes on.

### HazardFusion, HazardEngine

Places are metres on a road; cells of the index are those the code computes from
degrees, which at the modelled latitude are narrower than its radius assumes
(`CellMetres` and `NominalCell`). `Ingest` fuses into the nearest hazard of the
type or makes one. `HazardEngine` scores associations by distance, type, age, road
segment and observer, and a report that comes late sets back when a hazard was
last seen.

### MobilityGraph, Routing

A report moves a vehicle between roads, counts entries, and makes speeds and
densities that `Read` and the gateway's hand-over take to the router. A road none
of whose downstream roads is known is `Broken`: its evaluation raises, in the
middle of those an observation makes, and what was done until then stays done
(`Evaluated` are the roads reached, in the order of their ids); the router is told
nothing, which `untold` keeps for the property. `Routing`
has the built-in network, costs in milliseconds, A* as the code runs it, its
alternatives, and the distributor with its forced reroutes. The loop of the
search is a recursive function of its `Turn`s, and so are the alternatives: a node
is expanded once and pushes each of its roads once, so one turn more than there
are roads empties the heap.

### SafetyAlerts, MotionDetectors, TrackDetectors, BlindSpots

An evaluation of the prioritizer goes through the affected actors one step
each (`CheckActor`), as each sees what the ones before displaced, and ends in
`Issue`; the caller's list of alerts may be any. `prioritize`, the batch, is a
`round`: the risks in the order given, each dropped, kept or shown anew, what the
batch no longer has resolved, and the limit enforced from the highest down. A
list of actors that names one twice is not modelled (no detector makes one). The
detectors evaluate a scene in one step. A segment without a direction makes
`wrong_way` raise half way (`EvaluateUndirected`): the vehicles before it in the
client's list, `got`, have their counts updated, the others keep theirs, and the
other detectors run. `BlindSpots` keeps nothing: the windows of
arrival and the reach are functions of a scene, and its steps are what may happen
to the scene.

## 3. Model checking

Components that share nothing are explored in one run by an MC module in which
one of them moves while the others rest in their initial states: every state
and behaviour of each is visited, and fairness obliges none of the resting ones.

| Run | Module | What it shows |
|---|---|---|
| `PriorityQueueCompacted` | MCPriorityQueue | with compaction, shedding, expiry and refusals in any order: `OneLivePerSender`, `DispatchOrder`, `CriticalKept` |
| `SignalLog` | MCSignalController: SignalController, SignalTraining | `CommandedOnce`, `RecordsMatchCommands`, `LostOnlyToNewer`, `DecisionsEnveloped` over telemetry, repeated applications, executor changes, resets and polls; `PhasesEnd` over requests on threads and restarts |
| `SignalLoop` | SignalLoop | `ObservationNeverOlder`, `CommandsLeaveTheQueue` with losses, a late start and a restart |
| `WorldStream` | MCWorld: WorldState, TelemetryFeed | `CatchesUp`, `NeverOlder`, `AbandonedDisappear` over ingestion, edits, sweeps and a reconnect; `FeedGoesOn`, `DisplacedStops`, `DeletedStaysDeleted` over mounts, tabs shown, hidden and closed, failing frames and requests |
| `WorldPhantom` | WorldState | counterexample, section 5 |
| `RunsRaced` | MCRuns: ScenarioRuns, SimulationRun, MockTraffic, FailureEffects | `StoppedStaysDown` for racing requests and a restart; `LabelledByItsRun`, `StopCloses` for overlapping runs, failing starts and a dying SUMO; `ProgressIsPlace`; `OnlyWorsensInTurn` |
| `EdgeMesh` | MCEdgeV2X | `RiskIsCurrent` however updates overlap, `ViewsFreshInTurn` as long as they do not |
| `Detectors` | MCDetectors: SafetyAlerts, MotionDetectors, TrackDetectors, BlindSpots | `CountsMatchStore`, `DisplacedByHigher`, `ReportsSustained`, `PriorityIsBacked`, `OnCourseIsWarned` |
| `HazardFusion` | MCHazardFusion: HazardFusion, HazardEngine | `IndexAgrees`, `VerifiedIsConfident` |
| `Services` | MCServices: AlertService, Trust, CollisionRisk | `StoreMatchesLifecycle`, `ClientsAgreeInTurn`; `NeverAcceptedTwice`, `RateHeld`; `Foretold` |
| `Messaging` | MCMessaging: StoreForward, Connectivity, WebSocketTransport, StreamClient | `KeepsPromise` (the refinement of `Outbox`), `LoopComesBack`, `Reconnects` |
| `Routing` | MCRouting | `CountsFollow`, `PathOptimal` |

Deadlock is checked in `SignalLoop`. Elsewhere the bounded supply of messages,
requests, reports or time lets the modelled system stop where the real one
would be given more.

### Bounds, and why they are enough

* *PriorityQueueCompacted*: two senders, capacity 2, five accepted and one shed or
  refused message. Compaction needs two messages of a sender in a lane, shedding
  a full queue with a lower lane, and a tombstone of either must meet the next
  enqueue: all within five. Senders are symmetric.
* *SignalLog*: one junction of two phases, a log of one and a queue of one with two
  decisions: both overflow. Three instants around thresholds 1 and 2. Two
  requests at a time to the service and one training besides the first;
  while the steps of an episode are explored nothing else moves (`EpisodesApart`),
  for nobody else sees its environment, and the second training is explored while no
  junction has an environment (`PoliciesApart`), for none of its steps looks at
  the policy.
  Junctions, phases and clients are symmetric; the run checks no liveness.
* *SignalLoop*: a cycle of 3+1+3+1 ticks, extensions of 2 and 4 (one shorter and one
  longer than a green), one tick of lag, one restart. `MaxAge` is beyond
  `MaxGreen + MaxLag`, as an assumption of the module demands.
* *WorldStream*: three stored objects, one dashboard (dashboards do not affect each
  other), a queue of 2, a wire of 1, one broken connection: a report, its
  replacement and a deletion can be in flight at once, and the queue overflows.
  Two tabs, one with two views; one actor, which is enough to be deleted and to
  come back; a lease of two refreshes, so that it can expire and be renewed.
  With RefreshEvery = 2 and LeaseLasts = 3 the same holds. The connectivity is reported
  before anything is stored (`ModeFirst`) and hazards come and go while at most one
  object was (`HazardEarly`): everything else may follow either. No more than two
  views are open at a time, of one tab or of both (`TwoOpen`).
* *RunsRaced*: four requests, two in flight, one restart; three runs of the
  simulation, two ticks each, two errors; 70 s of mock simulation with all its
  phases and a lap of the fastest car; two failures of ten, in two runs. The runs are
  alike, so the first failure is injected into the first; clocks go on while it is
  saved, and a run ends while a second failure of its GPS is loaded, which are the two
  ways a start can be stale; injections overlap while clocks rest, and of a roadside
  unit only, for nothing is claimed of them (`InjectionsApart`).
* *EdgeMesh*: three vehicles on three places each in range of the next, so that one
  is out of one's range and in another's. The gateway is unbounded; the
  stand-alone service has four updates, two at once, which is what the stale
  view of section 5 takes. The slots are symmetric.
* *Detectors*: two actors, a risk for each and one for both, a limit of one alert,
  three alerts, one re-initialisation: displacement, suppression and a clipped
  counter all fit. Two batches in a row (`MaxRounds`); the single entry point and
  the batch, which share a log that each fills by itself, are explored one at a
  time (`OneEntry`). A prioritizer that was re-initialised evaluates a risk after two alerts
  and returns no third (`LastAfterReinit`). Three scenes in a row against a persistence of two, in which segment g2 may come
  without its direction: a slow vehicle on it needs none, a fast one does. Credentials
  fine, refused, late and without a time zone. Of the junction, the code's default
  thresholds (5 s of overlap, 30 % confidence) and vehicles located so well that
  their windows are too short for them, and so badly that they are not; one
  approach is shorter than the distance some stand from it. Five links in 27
  layouts.
* *HazardFusion*: two hazards of two types, places in one cell and across a border,
  late reports, a second one of the same source, a sweep and a return. In the
  engine's map, places on either side of the association threshold, reports late
  by one unit of time and of no known segment; the last unit is for decay only
  (`AllHeardInTime`).
* *Services*: two clients of which one sees one key only, two alerts, a history of
  two; two alerts are told to either client and one to both (`OneWatchesTwo`), which
  takes three broadcasts behind one another;
  five messages of which two share a nonce, a clock set back once, a
  token bucket that empties and refills; 15 pairs of cars that meet, sources
  with errors, six seconds.
* *Messaging*: three messages of three classes, with lifetimes of one, two and
  one, stored four times; two listeners; two callers with four calls and two drops; three
  channels, two mounts, two outages.
* *Routing*: five roads with two ways and a short cut, two cars, one rider, one
  hazard, reports one unit late, two roads registered in any order, of which one
  leads to the other alone and makes its junction raise as long as that is not
  known. The rider asks when the clock has run out, and then
  neither hazards nor departures come (`RequestsLast`): they reach a request through
  the metrics of the roads only, which the run goes through all the same.

### Fairness

* `SignalLoop`: the browser's frame loop runs on (`Tick`, `Publish`, `Poll`,
  `ApplyCommands`: `requestAnimationFrame`, retried each second); a request ends,
  delivered or lost; the adaptive loop (`while True` with a sleep) wakes; the
  gateway is started if it is down. The announcement is repeated until it
  succeeds, and not every answer is lost: strong fairness on an answered
  announcement, because a restart may disable it in between.
* `WorldState`: the reaper and each stream's sender are endless tasks, an ingestion
  under way is finished, an open connection delivers.
* `WebSocketTransport`: the receive loop and each pending connect go on, and the
  endpoint comes back.
* `TelemetryFeed`: the browser calls the frames of a visible tab, of which some come
  due and do not throw; each request ends, with an answer or without; time
  passes once a view is open. A tab in the background is owed no frame.
* `StreamClient`: timers fire, a connecting socket opens or closes, and the gateway
  comes back.
* `SimulationRun`: a sleeping run wakes.

Nothing forces a crash, a loss, a producer, a user or a mount.

## 4. Proofs

Checked with TLAPS for all values of the constants that the named assumptions
allow. The bounds of the models (`MaxSeq`, `MaxDecisions`, `MaxRequests`, ...)
are constants too, so the theorems hold for histories of any length. Below, a
theorem is followed by the property it states if that has a name of its own.
Each inductive invariant was checked by TLC on the run of its module first.

### MessagingProofs: PriorityQueue and StoreForward

* `QueueTypeCorrect`, `CompactionUnique` (`OneLivePerSender`), `NewestWins`,
  `InOrder` (`DispatchOrder`), `CriticalNeverShed` (`CriticalKept`). That a lane
  holds one live message per sender says nothing about which one
  `_latest_by_sender` knows, so `QueueInv` adds that the live entry of a sender
  in a compacted lane is the tracked one (`TrackedIsLive`), that a tracked number
  still in the heaps belongs to that sender and lane (`TrackedIsOwn`), and that
  it is the newest (`TrackedIsNewest`). Both ways of accepting share `PushQueue`,
  all ways of popping `PopQueue`.
* `IndexAlwaysFinds`, `EveryMessageAccounted`, `ImplementsOutbox`
  (`KeepsPromise`). Index and entries are inverse to each other (`IndexFinds`),
  so messages and entries can be exchanged one for the other: a flush entry by
  entry is a hand-over message by message, in the same order, and each step of
  the store is a step of `Outbox` or a stutter.

### TrafficProofs: SignalController, SignalTraining, Routing

* `TypeCorrect`, `AtMostOneCommand` (`CommandedOnce`), `RecordsTellTheTruth`
  (`RecordsMatchCommands`), `EnvelopeHolds` (`DecisionsEnveloped`). `IInv` adds
  that every command belongs to an issued decision, that an open decision has
  none, and that only junctions
  with a signal are recorded; `ExecuteOnce` is the common step of applying and of
  deciding and applying, `VerdictEnveloped` the envelope as a fact of arithmetic.
* `OnlyNewerPushOut` (`LostOnlyToNewer`). `QueueInv`: behind a queued command
  that has n others behind it at least n newer ones have been queued
  (`BehindAreNewer`), so the one a full queue drops has as many as the queue holds
  (`LostHaveNewer`).
* `NoPhaseIsEndless` (`PhasesEnd`), for any number of clients. An environment at
  or past the maximum green is either `Calm`, with room for every action that is
  judged and not made yet, or `Ending`: so little is left of its phase, judged
  extensions included, that it ends in time by itself, because a switch is put
  off only when less than the clearance is left. `TrainingConstants` asks for a
  clearance of at most a step and a step of at most ten seconds, which the
  service's constants satisfy.
* `CountsAreRight` (`CountsFollow`). `CountsInv`: what the graph remembers of a
  vehicle is the road it was last reported on. Of roads an observation that raised
  left untold nothing is claimed until they are told again.
* `SearchIsOptimal` (`PathOptimal`), for every network, every trip and every state
  of the roads, under the hypothesis `HeuristicFits`: no speed is above the 13.9 m/s
  the heuristic assumes, and at that speed no road is shorter than the way it
  saves, nor dearer than a blocked one. The constants of the run satisfy it;
  section 5 shows what happens without. `Search`, kept by each turn: closed nodes
  have their least cost and were closed in the order of f, an open item is a path
  of closed nodes at its cost, a node that was reached is open at its best, every
  road out of a closed node is relaxed. A path to a node that is not closed leaves
  the closed ones somewhere (`PathsCross`), and what is open there is no dearer
  than the path. Turns are counted by the roads pushed, so there are enough of
  them. `FiguresInv`: whatever is reported, each road keeps figures the cost can be
  computed from.
* `MovesImprove` (`RerouteImproves`), without that hypothesis: a rider is moved by
  force only to a path that is cheaper as the roads really are. What the search finds
  leads to the end at its cost whether or not it is the best (`FindPathLeads`), and
  saturating a road only makes roads and paths dearer (`EdgeCostIs`, `PathCostRises`),
  so an alternative found among saturated roads costs no more without the saturation.
  `RoutesInv`: what is stored for a rider is a path.

### GatewayProofs: WorldState, TelemetryFeed, SignalLoop

* `ScreensNeverGoBack` (`NeverOlder`), under the hypothesis `~Bus`: neither an
  event bus nor Redis is attached, so ingestion never suspends between storing
  and notifying. With a bus the property fails, as the finding in section 5
  shows. `WorldInv` says of every dashboard and every key that what is shown,
  what is on the wire and what is queued follow each other in the order of their
  numbers, and nothing is newer than what is stored (`InOrder`), and that a
  broken connection has nothing queued or on the wire; `FrameInv` that what a
  frame has announced is still what is stored.
* `DashboardsCatchUp` (`CatchesUp`), under the same hypothesis. What a dashboard
  shows once everything has arrived is decided entry by entry, by the last message
  that concerns the entry, so `ConvergeInv` says of every entity, risk and mode
  that this message tells what the gateway holds, and when there is none the
  screen does (`Converges`), except of what the open frame has stored and not told
  yet (`Untold`). A new message must tell every change (`TellsEntity`,
  `TellsRisk`, `Announced`); an edit changes messages that are queued already, but
  for its own vehicle only, since a vehicle shares its object with nothing
  (`OwnNumbers`); risks found anew have new names (`RisksRenewed`); a message that
  arrives leaves on the screen what it said (`AppliedOrShown`). That a frame
  concerns vehicles first and then road-side users that are no vehicles is the
  assumption that the kinds of keys are disjoint: they are pairs of a kind and an
  id (`world_state.py:127`).
* `NothingComesBack` (`DeletedStaysDeleted`). Each tab has at most one
  publication under way, of ids it gave out itself, and never ingests what it is
  about to delete (`Own`); the tab that feeds the gateway alone has none of the
  deleted actors in its simulation nor in what it is publishing (`Fed`).
* `HiddenTabsStop` (`DisplacedStops`). A tab that remembers owning the lease has
  looked at least as recently as it lost it (`Leased`).
* `TelemetryInOrder` (`ObservationNeverOlder`): at most one frame is on its way,
  and the gateway holds nothing newer (`OneFrame`).

### RunsProofs: ScenarioRuns, SimulationRun, MockTraffic, FailureEffects

* `TypeCorrect`, `StopTakesEffect` (`StoppedStaysDown`). `IInv` adds that a
  request carries the kind of record its stage needs (`GotFits`) and that a stop
  past its decision has already taken clock and simulation away
  (`StopActsFirst`), which is why racing writers, though they can put the
  *record* back, cannot revive the run.
* `EventsCarryTheirRun` (`LabelledByItsRun`). While SUMO is up the adapter runs
  and holds the id of the run that started it (`UpIsRunning`): a start that fails
  leaves its id behind, but no SUMO to label.
* `HeadwayGoesByPlace` (`ProgressIsPlace`), for any fleet, routes and phases. A round
  moves the cars one after the other, and of each it keeps that the progress is no
  more than its place on the route and falls short of it by at most what the waypoints
  it passed may swallow (`Sound`), whatever signal and headway do to its speed.
* `FailuresOnlyWorsen` (`OnlyWorsensInTurn`), for any schedules and any injections that
  do not overlap, in any order and with runs that end meanwhile. The one injection
  that is under way will save what the file says and one entry more (`Injecting`). A
  failure is appended to those before it, so what a run sees is the fold over
  the earlier ones and one step more (`OneMoreWorsens`), and that step is shown never
  to better the fold: for positions and trust (`OneWorseIsWorse`), weather
  (`WeatherGrows`), the commands to the adapter (`CommandsGrow`) and the rest
  (`TypesGrow`).

### EdgeV2XProofs

* `NoStaleNeighbour`, `RiskFollowsView` (`RiskIsCurrent`), `ReturningIsHeard`,
  from a symmetric radio range. `IInv` adds that only nodes have reported and
  that the jobs are well-formed; `UpdateIInv` and `DeliverIInv` are the two steps
  that change views. That the worst conflict exists needs finitely many vehicles,
  so the type of `active` is left to TLC.
* `InTurnAllKnow` (`ViewsFreshInTurn`). As long as no update began while another
  was suspended, whoever has not heard the latest state of a vehicle in range is
  told by a job that is left (`UnheardIsOwed`), and every state on its way is the
  sender's latest (`MessagesAreCurrent`).

### ServicesProofs: AlertService and Trust

* `AlertTypeCorrect`, `StoreAgrees` (`StoreMatchesLifecycle`): an alert the
  lifecycle can still move was never put away, so the patch that ends it puts it
  into the history once. `CooldownHolds`: a key last fired no earlier than any of
  its alerts (`FiredLast`). `ClientsAgree` (`ClientsAgreeInTurn`): of the
  broadcasts of an alert that wait for the lock the last one tells its present
  state, when none waits the one that holds the lock does, and when there is
  neither everybody was told (`LastIsTrue`, `HolderIsTrue`, `RestIsTold`).
  `NobodyBroadcasts` says that the value for "no holder" is not a broadcast.
* `TrustTypeCorrect`, `NoReplayPasses` (`NeverAcceptedTwice`), `NeverAboveRate`
  (`RateHeld`). `Remembering`: a message once accepted is either still cached,
  past its expiry and the retention, or that deadline has gone by on the
  monotonic clock; with a wall clock set back by no more than the retention, it
  is then refused as expired. `Owed`: since any admission, the tokens left and
  those passed come to no more than capacity and refill.

### DetectorsProofs: SafetyAlerts, MotionDetectors, TrackDetectors, BlindSpots

* `TypeCorrect`, `CountersAreExact` (`CountsMatchStore`), `OnlyHigherDisplaces`
  (`DisplacedByHigher`). Counters are exact because an alert is released only
  when it is active here, and is then one of those its actors are counted for, so
  the subtraction never clips; a new id is new to the store. Of a batch, no alert
  that waits for the limit is higher than one the limit let pass
  (`BatchInOrder`).
* `ReportsAreSustained` (`ReportsSustained`). What a detector remembers of a
  vehicle goes back to an evaluation since which every scene it looked at agreed
  (`MemoryBacked`); for a wrong-way count, every evaluation that got to the
  vehicle, also when others raised before it.
* `PriorityBacked` (`PriorityIsBacked`). An emergency is active since the
  judgement that accepted it (`ActiveIsAccepted`). `UnknownIsNoJudgement` keeps
  the value for "never judged" apart from the judgements.
* `OnCourseAreWarned` (`OnCourseIsWarned`), for any approaches and lengths of them,
  speeds, doubts, distances and thresholds: a warning is given exactly when there
  is a stretch of time as long as the thresholds ask (`StretchNeeded`) throughout
  which both may be in the zone. `CommonStretch` is the part about the windows and
  `ShareNeeded` that about the confidence. It does not say that a collision is
  warned of, and at the default thresholds not every one is (section 5).

### HazardProofs: HazardFusion and HazardEngine

* `IndexIsTheStore` (`IndexAgrees`), `TwoSourcesVerify` (`PromotionExact`).
  `IInv` adds that ids are given out one after the other, so a new hazard meets
  nothing archived, and that the sources of a hazard are finitely many.
* `VerifiedMeansConfident` (`VerifiedIsConfident`): every way a hazard changes
  ends in the same comparison of its confidence, whatever the confidence has
  become, and one given up is associated with nothing any more. It does not say
  that a hazard nobody reports ceases to be verified (section 5).

### Only model-checked

* Liveness under fairness (`CommandsLeaveTheQueue`, `AbandonedDisappear`,
  `FeedGoesOn`, `LoopComesBack`, `Reconnects`, `StopCloses`): neither fairness nor
  ENABLED is supported by the prover.
* `Foretold`, the one safety property of the runs that no theorem states: it compares
  the closest approach of positions with errors, which is nonlinear, and holds of
  the speeds, errors and braking of the run's scenes only.
* `ReplayYieldsWorld` (`CatchesUp` as a replay of all that is queued), `ApplyCommands`,
  and the powers of two by which `TracksFade` and the half-lives decay.
* The type invariants of `WorldState` (its proofs type only what they read),
  `SignalLoop`, `TelemetryFeed` and `HazardFusion`.

### Induction over data

The library's theorems of induction take an operator as a parameter, which no
installed prover can instantiate. `SetInduction` (in `TrafficProofs` and `RunsProofs`)
takes a *set* instead: a set of naturals with 0 and closed under successor
contains them all, by the least element that `<` on the naturals, being
well-founded, has in every set that has one (`WFMin`). The recursive functions of
the models - the turns of a search, the sum along a path, the cars of a fleet, the
failures of a schedule - have domains on which such sets can be formed, which is
why they are functions and not RECURSIVE operators.

## 5. Counterexamples

### Finding

**A retired vehicle comes back** (run `WorldPhantom`). With an event bus attached,
a frame's ingestion suspends between storing a vehicle and notifying; a
retirement in between is announced before the frame's own delta, whose upsert
puts the vehicle back on every dashboard. The docstring of `retire_actor` says
that a cleared incident must not leave a phantom vehicle
(`gateway/world_state.py:534`).

### Further disagreements

Each of these definitions states what a comment, a document or a test says, and
fails on the model of the code. To see a counterexample, replace the properties
in the configuration named at the head of the table by the definition, as an
INVARIANT, or as a PROPERTY when it is temporal, and change the constants if the
line says so.

`MCPriorityQueue.cfg`

| Definition | What the code does | What is said |
|---|---|---|
| `DepthWithinCapacity` (Capacity = 1) | shedding and expiry leave the sender in `_latest_by_sender`; its next message buries an entry that is gone, and the size is one too small for ever | "when total queue exceeds capacity, shed lowest priority first" |

`SignalLog.cfg`

| Definition | What the code does | What is said |
|---|---|---|
| `MaxGreenForced` | past the maximum a switch becomes HOLD while pedestrians wait | "maximum green before NEXT_PHASE is forced" (`safety.py:17`) |
| `PedestriansClear` | past the maximum a hold or extension becomes a switch while pedestrians clear | "cannot transition while pedestrians need to clear" (`safety.py:63`) |
| `CommandsRespectMinGreen` | a decision validated in one phase is sent in the next | "minimum green before NEXT_PHASE is permitted" (`safety.py:16`) |
| `ConflictChangesNothing` (Junction = {j1, j2}) | a request refused as another junction's has already applied | "decision belongs to a different junction" (`signal_control.py:193`) |
| `ReportedIsTaken` | the answer names the action judged first, the step makes another | "action_applied" |
| `AllRedInBetween` | a forced switch takes the green straight to the other green | "all-red inter-green (enforced by the phase programme itself)" (`safety.py:19`) |
| `PolicyPersisted` | two trainings: one is served, the other's file remains | "Train the agent and persist the policy." (`api.py:239`) |
| `StartsAgain` | a stop while the policy is written leaves a file that the next start fails on | the same |

`SignalLoop.cfg` (SPECIFICATION LoopSpec with MaxRestarts = 0, except for the last)

| Definition | What the code does | What is said |
|---|---|---|
| `MaxGreenEndsExtensions` | two heads of one junction whose phases differ restart its phase clock with every frame | as `MaxGreenForced` |
| `ExtendHoldsPhase` | an extension early in a green rewinds into the phase before | "holds the current phase for the requested extra seconds" (`vehicleEngine.ts:324`) |
| `AllRedBetweenGreens` | the rewind goes from one green to the other | as `AllRedInBetween` |
| `BecomesControllable` | after a gateway restart the topology is never announced again | "Registration is retried until it succeeds" (`networkTelemetry.ts:289`) |

`WorldPhantom.cfg`, with Bus = FALSE, but for the last

| Definition | What the code does | What is said |
|---|---|---|
| `RisksOfOneFrame` (Vehicle = {v1, v2}, QueueLimit 1, MaxStored 5) | a dropped delta leaves its risks on the screen | old risks "caused the dashboard to select conflicts that no longer existed" (`world_state.py:174`) |
| `RisksLeaveWithVehicles` (FairSpec, the same objects, Client = {}) | risks outlive the vehicles that left | "risks are recomputed every frame" (`world_state.py:58`) |
| `SameRoadUsers` (`WorldStream.cfg`) | only the frame that is published names who left, and about ten frames pass between two: the others are never deleted | "the control center receives the same road users and signals" (`SimulationStudio.tsx:24`) |

`RunsRaced.cfg`

| Definition | What the code does | What is said |
|---|---|---|
| `StopIsFinal` | a pause that read the record before a stop writes it back after | "Stop and cancel run" |
| `InjectionsVisible` | of two injections one is lost | "visible to all consumers" (`main.py:446`) |
| `OnlyWorsens` | and with it the effects it had, which end before their time | the same |
| `RunReadable` | two writers leave a record that does not parse | "Overwrite an existing run record" (`scenario_store.py:133`) |
| `PauseHolds` | the simulation goes on while paused | "Pause run" (`docs/api.md:39`) |
| `OneOff` | an injected failure joins the schedule all runs of the scenario share | "Inject a one-off failure into a running scenario" (`main.py:435`) |
| `OneLoop` | the flag is set again before the old loop looks: two loops tick | "stop after the current tick" (`runner.py`) |
| `EndsOnError` | an exception in a tick is counted and the loop goes on | "or the adapter raises an exception" (`runner.py`) |
| `ClosureIsReported` | a closed road is reported with the lanes it was built with | "open lanes" (`normalizer.py`) |
| `NoOverlap`, `GoesAgain` (Duration 1200) | equal progress counts as free road; a target lowered for the car ahead is never raised again | "a queue ... instead of overlapping bodies" (`mock_sim.py:309`) |
| `MockTraffic!Restored` | cancelled in its degraded phase it leaves the gateway degraded | "connectivity -> FULL (restoring)" |

`EdgeMesh.cfg`

| Definition | What the code does | What is said |
|---|---|---|
| `ViewsFresh` | stand-alone: a delivery that was held up puts an older state back | "stale state must not keep a risk active" (`manager.py:160`) |
| `AnnouncedIsActive` | a risk is announced after a worse one replaced it | "Only the single prioritised active risk per node is streamed" (`api.py:431`) |
| `ActivationsAnnounced` (MaxUpdates = 0) | a risk that becomes active when a worse one leaves is not announced | "Observe one newly activated local risk" (`node.py:110`) |

`Detectors.cfg`

| Definition | What the code does | What is said |
|---|---|---|
| `LimitAlways`, `NothingDisplacedInVain` | the second risk of a request displaces the alert the first displaced; a risk refused for one actor has taken an alert of another | "Maximum active alerts per actor at once" (`config.py:196`) |
| `MutedOnlyAfterAlert` | the score is remembered before the risk is refused, and it stays silent when there is room | `alert_prioritization.py:259` |
| `AbsenceForgets` | with no vehicle left nothing is pruned | "Prune stale entries for actors no longer in the world state" (`stalled_vehicle.py:178`) |
| `ConsecutiveUpdates` | an evaluation in which `wrong_way` raises at a segment without a direction, before it gets to the vehicle, leaves its count standing | "across ``min_persistence_updates`` consecutive ticks" (`wrong_way.py:25`) |
| `PredictedOnCourse` | each prediction adds the whole distance to the one before | "the track continues with decaying confidence" |
| `NewestReportCounts`, `CredentialNotExpired`, `RefusalEnds` | older sightings replace newer; an expiry is looked at only on presentation; a refusal before a credential without a zone is lost | the modules' docstrings |
| `ReachIsComplete` | a link first met on a path too long stays visited | "every reachable segment within max_distance_m network distance" |
| `SharedCurveWarned` | no segment reaches itself | "closing on a shared curve" (`blind_curve.py`) |
| `CollisionIsWarned` | at the default threshold of 5 s two well-located vehicles that arrive at the same time are not warned of: their windows are shorter than that | "vehicles on intersecting approach segments whose ETA distributions to the conflict zone overlap" (`blind_intersection.py:3`) |

`HazardFusion.cfg`

| Definition | What the code does | What is said |
|---|---|---|
| `HalvesPerHalfLife` | each sweep applies the decay since the last report again | "Confidence halves every half_life seconds of inactivity" (`lifecycle.py:40`) |
| `QueryComplete` (Places {107, 216}, Radii {110}) | cells are narrower on the ground than the query takes them for | index "fan out to neighboring cells to avoid boundary misses" |
| `QuietIsStale` (KeptPerUnit = 80) | with a decay slow enough a decay pass sets a hazard that is still confident back from STALE to VERIFIED (`hazard_fusion.py:664`) | "Staleness triggers after `stale_threshold_s` without any supporting observation" (`hazard_fusion.py:17`); "Seconds without observation before marking STALE" (`config.py:239`) |
| `OneSourceNeverVerifies`, `AbsenceAddsNothing` | repeated reports of one source verify; negative evidence with no hazard adds one | "only truly independent sources can drive confidence toward 1.0" (`hazard_fusion.py:9`) |

`Services.cfg`

| Definition | What the code does | What is said |
|---|---|---|
| `BucketFitsLevel` | a bucket keeps the size of the sender's first message | "a bucket sized according to its TrustLevel" (`rate_limiter.py:68`) |
| `RetryPasses` | a message refused for its rate is a duplicate when it is sent again | `validator.py:97` |
| `BrakesAhead` | a braking peer behind is warned of | "a peer ahead of the ego vehicle" (`edge_v2x/risk.py:150`) |
| `PrecisionIsHonest` | a state is fused with its own past as if independent | "Fusion is reserved for truly independent sources" |
| `NewestKinematics` | the prior is given the new time and wins the tie | "The newest kinematic fields are retained" (`position/service.py:102`) |

`Messaging.cfg`

| Definition | What the code does | What is said |
|---|---|---|
| `NothingLeftOpen` | a connection in the making stays open after `close` | "Gracefully shut down the transport" (`transport.py:46`) |
| `SubscriberListens` | after a first connection that fails no loop is started | "Start receive loop if not already running" (`transport.py:247`) |
| `BadgeHonest` | the late close of a superseded socket turns the badge off | the badge is the connection |

`Routing.cfg`

| Definition | What the code does | What is said |
|---|---|---|
| `RouteArrives` | the old path of another trip is kept when no alternative pays | `api.py:134` |
| `CountsAlwaysFollow` | the mean over no known downstream road raises `StatisticsError` after the vehicle was moved (`service.py:154`), and the router keeps the old counts of both roads | "Projects canonical actor state into confidence-aware edge metrics" (`service.py:28`), and the filter "if next_edge in self._definitions" (`service.py:157`) |
| `GhostsLeave` | retiring a vehicle does not tell the graph | `world_state.py:529` |
| `ClosureLasts` | the next report of a vehicle opens the road again | `api.py:50` |
| `EmptyRoadIsFree` | a road nobody drives has speed 0 and is as slow as can be | `service.py:139`, `cost.py:39` |
| `FlowIsTheWindow` (MaxEntries 2, MaxTime 3, Late 3) | trimming stops at the first entry that is young enough, and late ones stand behind it | the 60 s window |
| `LoadCapped` | the vehicle to be placed is not counted itself | "Never assign more than this fraction of edge capacity" (`distributor.py:25`) |
| `PathOptimal` (Posted <- FastPosted, Reported = {"ab"}) | the heuristic assumes 13.9 m/s, and faster roads break it | A* finds a cheapest path (`pathfinder.py:59`) |

True as well, and left to a reader who wants to run them: `FeedTypeOK`,
`LoopTypeOK`, `SumoIsOwned`,
`StopIsFinalInTurn`, `InjectionsVisibleInTurn`, `ClockMatchesRecord`,
`TrustOnlyLowered`, `KnownUntilRestart`, `TracksFade`, `RepeatsSpaced`,
`LimitHeld`, `CountWithinCapacity`, `EdgesAgree`, `HazardsKept`,
`TransitionsChain`, `OneLoop` of the transport, `OneSocket`,
`ReplayYieldsWorld` (the states of `WorldStream` satisfy it exactly when they
satisfy `CatchesUp`); and, proved,
`NeverSuperseded`, `IndexFinds`, `AllAccounted`, `SeesOnlyInRange`,
`NewcomersAreHeard`, `PromotionExact`, `FiredSpaced`, `RerouteImproves` (a property of
`Routing.cfg`, which TLC confirms in under a minute).

### Seen while reading

* `flush` trusts its caller's word for the connectivity (`messaging api.py:156`);
  nothing ever dequeues (`api.py:114`); a listener that reports an outcome waits
  for the lock it runs under (`connectivity.py:61`); a message stored again after
  a flush is forwarded again (`store_forward.py:70`).
* `POST /v1/hazards/fuse` of safety-detectors passes arguments the engine does not
  take and always answers 500 (`main.py:367`).
* `expire_stale` of alerts is never called (`lifecycle.py:134`); the dashboard waits
  for messages of kind `alert` while the service sends others; who connects late
  is told of no earlier alert.
* A batch of the prioritizer returns an advisory alert of a risk that is gone as
  suppressed instead of resolved when a critical one covers its actors
  (`alert_prioritization.py:636`), and of a risk repeated within the suppression
  window it returns nothing at all (`:166`).
* Cars that head the same way on one segment are compared only within 18 m
  (`risk/engine.py:73`), so a car standing ahead is warned of late; with two
  sources in turn the fused place lags, which is `Foretold`'s proviso.
* Two visible dashboard windows both simulate and publish, as `FeedGoesOn`
  implies, although the lease is to make "exactly one tab the telemetry producer"
  (`networkTelemetry.ts:200`); a car that waits ten seconds for a pedestrian is
  reported as an accident, because its stop reason is `QUEUE`; cars are first
  placed without regard for the bodies of the neighbouring junctions.

## 6. Not modelled

Partly modelled components say in `PROJECT.json` what they leave out. Left out
altogether, or in the greater part:

* *Learning*: Q-learning and rewards of the signal policy, the contextual bandit:
  random draws and floating point. The models take any proposal.
* *Movement in the dashboard's simulator*: `SignalLoop` takes the lamp,
  `TelemetryFeed` any actors that come and go. Pausing, resets, storage that
  throws and the time scale are left out with it.
* *Numeric detail*: coordinates, headings, severities, confidences, predicted
  trajectories, expected arrival times. Places are metres on a road or a plane,
  confidences thousandths, and what rounding may decide is avoided by the
  constants.
* *Map service, integration, packages, views, incidents and replay of the
  gateway*: queries, conversions, data classes, rendering, read models.
* *The in-process transport and the network simulation*, adapters for real
  receivers (stubs), the SUMO environment of the training service, scenario
  import, listing and deletion, seek and replay recording, pseudonym rotation,
  the road-hazard detector (a stateless filter), position-quality tables.

`services/simulation-adapter` is a copy of `services/simulation_adapter`;
`SimulationRun` stands for both.

## 7. What is left

* A module for the simulated road users: spawn, hand-over between junctions,
  removal, in place of the actors of `TelemetryFeed`.
* Refinements: a latest-value mailbox implemented by `PriorityQueue`; an
  at-most-once command channel implemented by `SignalController`; a replicated
  store implemented by `WorldState`.
* Theorems: the type invariants section 4 lists; `EdgesAgree` and `HazardsKept` for
  `MobilityGraph`; `OneSocket` for `StreamClient`; `SumoIsOwned`, which `SimInv`
  already contains.
