---------------------------- MODULE SimulationRun ----------------------------
(***************************************************************************)
(* SimulationRunner over a SUMO adapter: run() resets and starts the       *)
(* adapter and then ticks it until stop(); every tick steps SUMO, reads    *)
(* it and hands the canonical events to a callback.  The adapters for      *)
(* traci and for libsumo are the same in all this.                         *)
(*                                                                         *)
(* run() is a coroutine that waits only in its sleep, so all it does from  *)
(* one sleep to the next is one step.  A caller may begin a run while an   *)
(* earlier one still sleeps.  SUMO itself is external: a process that      *)
(* moves its traffic, may refuse to start and may die.                     *)
(***************************************************************************)
EXTENDS Integers, FiniteSets, Sequences

CONSTANTS Runs,        \* scenario_run_id, a fresh one for each call of run()
          Cars, TypeId, Walkers,
          Strings,     \* phase strings of the one traffic light
          Lanes,       \* lanes of the one road
          MaxTicks, MaxErrors \* bounds of the model

ASSUME SimulationConstants ==
    /\ TypeId \in [Cars -> STRING]
    /\ Strings # {}
    /\ {Lanes, MaxTicks, MaxErrors} \subseteq Nat

VARIABLES
    sumo,      \* the process: [on, alive, run, cars, walkers, light, lanes]
    adapter,   \* [running, run, clock]
    runner,    \* [running, ticks, errors]
    sleeping,  \* the runs whose loop sleeps
    begun,     \* the runs that were called
    batch      \* the events the last callback got, and the simulation they show

simulation == <<sumo, adapter, runner, sleeping, begun, batch>>

-----------------------------------------------------------------------------
(* The normaliser.                                                          *)

VehicleType(t) ==
    CASE t \in {"truck", "trailer", "heavy"}                  -> "truck"
      [] t \in {"bus", "coach", "minibus"}                    -> "bus"
      [] t \in {"ambulance", "police", "fire", "firebrigade"} -> "emergency"
      [] OTHER                                                -> "car"

Signs == {"G", "g", "r", "R", "y", "Y", "u", "o", "O"}
PhaseOf(c) ==
    CASE c \in {"G", "g"} -> "green"
      [] c \in {"y", "Y"} -> "yellow"
      [] c \in {"r", "R"} -> "red"
      [] c = "u" -> "flashing_yellow" [] c = "o" -> "flashing_red" [] c = "O" -> "off"

PhasePriority == <<"green", "yellow", "flashing_yellow", "red", "flashing_red", "off">>

\* The whole string of a light, one character per lane, as one phase.
Summary(string) ==
    LET seen == {PhaseOf(c) : c \in {string[i] : i \in DOMAIN string} \cap Signs}
        first == {i \in DOMAIN PhasePriority :
                    /\ PhasePriority[i] \in seen
                    /\ \A k \in 1 .. (i - 1) : PhasePriority[k] \notin seen}
    IN  IF seen = {} THEN "off" ELSE PhasePriority[CHOOSE i \in first : TRUE]

CarEvent(car, label)  == [event |-> "actor", who |-> car,
                          what |-> VehicleType(TypeId[car]), run |-> label]
WalkerEvent(w, label) == [event |-> "actor", who |-> w, what |-> "pedestrian", run |-> label]
LightEvent(s, label)  == [event |-> "signal", who |-> "light", what |-> Summary(s), run |-> label]

\* One batch; an actor whose state cannot be read is left out.
Events(process, label, unread) ==
    {CarEvent(c, label) : c \in process.cars \ unread}
        \cup {WalkerEvent(w, label) : w \in process.walkers \ unread}
        \cup {LightEvent(process.light, label)}

\* What get_road_states says of the road's lanes.
LanesAvailable(process) == Lanes

-----------------------------------------------------------------------------
(* The adapter.                                                             *)
NoSumo == [on |-> FALSE, alive |-> FALSE, run |-> "none", cars |-> {}, walkers |-> {},
           light |-> <<>>, lanes |-> 0]
Launched(r) == {[on |-> TRUE, alive |-> TRUE, run |-> r, cars |-> {}, walkers |-> {},
                 light |-> s, lanes |-> Lanes] : s \in Strings}

\* The traffic goes on: cars and walkers come and go, the light switches.
Moved(process, c, w, s) == [process EXCEPT !.cars = c, !.walkers = w, !.light = s]

SumoStillOpen == sumo                           \* variant: reset does not stop

\* What stop leaves of SUMO; a dead process is gone whatever closing it says.
SumoClosed == IF adapter.running THEN NoSumo ELSE sumo

Reset(r) == [running |-> FALSE, run |-> r, clock |-> 0]

-----------------------------------------------------------------------------
SimulationInit ==
    /\ sumo = NoSumo
    /\ adapter = [running |-> FALSE, run |-> "none", clock |-> 0]
    /\ runner = [running |-> FALSE, ticks |-> 0, errors |-> 0]
    /\ sleeping = {}
    /\ begun = {}
    /\ batch = [events |-> {}, of |-> "none"]

(***************************************************************************)
(* One pass of the loop: step, read, call back, sleep.  Whatever raises is *)
(* logged and counted, and the callback gets an empty batch.               *)
(***************************************************************************)
ReadSumo(process, label) ==
    \E c \in SUBSET Cars, w \in SUBSET Walkers, s \in Strings \cup {process.light},
       unread \in SUBSET (Cars \cup Walkers) :
        LET after == Moved(process, c, w, s)
        IN  /\ sumo' = after
            /\ batch' = [events |-> Events(after, label, unread), of |-> after.run]

Nothing == [events |-> {}, of |-> "none"]

TickReads(process, base, stats) ==
    /\ process.alive
    /\ ReadSumo(process, base.run)
    /\ adapter' = [base EXCEPT !.clock = @ + 1]
    /\ runner' = [stats EXCEPT !.ticks = @ + 1]

TickLosesSumo(process, base, stats) ==          \* the step is made, reading fails
    /\ process.alive
    /\ sumo' = [process EXCEPT !.alive = FALSE]
    /\ batch' = Nothing
    /\ adapter' = [base EXCEPT !.clock = @ + 1]
    /\ runner' = [stats EXCEPT !.errors = @ + 1]

TickFails(process, base, stats) ==
    /\ ~process.alive
    /\ batch' = Nothing
    /\ runner' = [stats EXCEPT !.errors = @ + 1]
    /\ sumo' = process
    /\ adapter' = base

Tick(r, process, base, stats) ==
    /\ base.clock < MaxTicks /\ stats.errors < MaxErrors
    /\ sleeping' = sleeping \cup {r}
    /\ \/ TickReads(process, base, stats)
       \/ TickLosesSumo(process, base, stats)
       \/ TickFails(process, base, stats)

(***************************************************************************)
(* run(): reset, start, and the first tick.  Starting may fail, and the    *)
(* call then ends without touching the runner; it always fails while the   *)
(* module of traci still has its one connection.                           *)
(***************************************************************************)
Starts(r) ==
    /\ ~SumoClosed.on
    /\ \E process \in Launched(r) :
         Tick(r, process, [Reset(r) EXCEPT !.running = TRUE],
              [running |-> TRUE, ticks |-> 0, errors |-> 0])

StartFails(r) ==
    /\ sumo' = SumoClosed
    /\ adapter' = Reset(r)
    /\ UNCHANGED <<runner, sleeping, batch>>

BeginRun(r) ==
    /\ r \notin begun
    /\ begun' = begun \cup {r}
    /\ Starts(r) \/ StartFails(r)

\* The loop of a run wakes: another pass, or the end, which stops the adapter.
GoesOn(r) == runner.running /\ Tick(r, sumo, adapter, runner)

FinishedOpen(r) ==                              \* variant: leaves SUMO running
    /\ runner' = [runner EXCEPT !.running = FALSE]
    /\ sleeping' = sleeping \ {r}
    /\ UNCHANGED <<sumo, adapter, batch>>

Finished(r) ==
    /\ sumo' = SumoClosed
    /\ adapter' = [adapter EXCEPT !.running = FALSE]
    /\ runner' = [runner EXCEPT !.running = FALSE]
    /\ sleeping' = sleeping \ {r}
    /\ UNCHANGED batch

Wake(r) ==
    /\ r \in sleeping
    /\ \/ GoesOn(r)
       \/ ~runner.running /\ Finished(r)
    /\ UNCHANGED begun

\* The task of a run is cancelled in its sleep.
CancelRun(r) == r \in sleeping /\ Finished(r) /\ UNCHANGED begun

Stop ==
    /\ runner.running
    /\ runner' = [runner EXCEPT !.running = FALSE]
    /\ UNCHANGED <<sumo, adapter, sleeping, begun, batch>>

-----------------------------------------------------------------------------
(* Commands go straight to SUMO, and raise when it is not there.            *)
Commanded(process) ==
    /\ sumo.alive
    /\ sumo' = process
    /\ UNCHANGED <<adapter, runner, sleeping, begun, batch>>

ApplyVehicleCommand(c) == c \in sumo.cars /\ Commanded([sumo EXCEPT !.cars = @ \ {c}])
ApplySignalCommand(s)  == s # sumo.light /\ Commanded([sumo EXCEPT !.light = s])

\* "close" takes every lane, "narrow" some.
ApplyRoadEvent(n) ==
    /\ n < sumo.lanes
    /\ Commanded([sumo EXCEPT !.lanes = n])

SumoDies == sumo.alive /\ Commanded([sumo EXCEPT !.alive = FALSE])

SimulationNext ==
    \/ \E r \in Runs : BeginRun(r) \/ Wake(r) \/ CancelRun(r)
    \/ Stop
    \/ \E c \in Cars : ApplyVehicleCommand(c)
    \/ \E s \in Strings : ApplySignalCommand(s)
    \/ \E n \in 0 .. Lanes : ApplyRoadEvent(n)
    \/ SumoDies

\* A loop that sleeps is woken by its timer.
SimulationFairness == \A r \in Runs : WF_simulation(Wake(r))

SimulationSpec == SimulationInit /\ [][SimulationNext]_simulation /\ SimulationFairness

-----------------------------------------------------------------------------
\* Every event carries the id of the run whose simulation it shows, although
\* runs overlap and a run that fails to start leaves its id on the adapter.
LabelledByItsRun == \A e \in batch.events : e.run = batch.of

\* A SUMO process always has a loop that will close it.
SumoIsOwned == sumo.on => sleeping # {}

\* Once the runner is told to stop, SUMO is closed, unless another run begins.
StopCloses == ~runner.running ~> (runner.running \/ ~sumo.on)

(***************************************************************************)
(* Claims of comments and documents.                                       *)
(***************************************************************************)
\* "drives the tick loop until stop() is called or the adapter raises an
\* exception".
EndsOnError == [][runner'.errors > runner.errors => ~runner'.running]_simulation

\* "lanes_available (int, optional): open lanes".
ClosureIsReported == sumo.alive => LanesAvailable(sumo) = sumo.lanes

\* "Signal the run loop to stop after the current tick": a stopped run's loop
\* ticks no more, even when the next run has begun.
OneLoop == Cardinality(sleeping) <= 1
=============================================================================
