--------------------------- MODULE FailureEffects ---------------------------
(***************************************************************************)
(* The failure injector of services/scenario-service: a scenario's         *)
(* schedule of failures, to which a run may add, and what the failures     *)
(* that are active in a run do to positions, services, roadside units,     *)
(* roads, actors and the weather.  Each run has a clock of its own, and    *)
(* the runs of a scenario have the schedule in common.                     *)
(*                                                                         *)
(* Confidence is in hundredths.  Of the parameters of a failure there is   *)
(* what its effect depends on: whom or what it is about, and how bad.      *)
(***************************************************************************)
EXTENDS Integers, Sequences, SequencesExt, FiniteSetsExt

CONSTANTS ScenarioRun,    \* runs of one scenario
          Actor,          \* vehicles
          Failure,        \* what can be injected: [type, about, amount, lasts]
          Reported,       \* uncertainties and confidences of positions
          MaxInjections,  \* bound of the model on injections
          EndOfTime       \* bound of the model on the clock of a run

All    == "all"         \* affected_actors
NoEnd  == -1            \* duration_s is None
NoWeather == [visibility |-> -1, precipitation |-> "none"]

ASSUME FailureAssumption ==
    /\ \A f \in Failure : f.lasts \in Nat \cup {NoEnd} /\ f.amount \in Nat
    /\ \A position \in Reported : position.uncertainty \in Int /\ position.confidence \in Int
    /\ MaxInjections \in Nat /\ EndOfTime \in Nat

VARIABLES schedule,     \* failure_schedule of the scenario
          scheduleFile, \* the scenario's file: "whole", emptied by a writer, or torn
          simTime,      \* run -> sim_time_s
          ended,        \* runs that are neither running nor paused any more
          injecting,    \* the injections under way
          asked,        \* injections so far
          overlapped    \* history: the one asked for last met another under way

failures == <<schedule, scheduleFile, simTime, ended, injecting, asked, overlapped>>

FailuresInit ==
    /\ schedule = <<>>
    /\ scheduleFile = "whole"
    /\ simTime = [run \in ScenarioRun |-> 0]
    /\ ended = {}
    /\ injecting = {}
    /\ asked = 0
    /\ overlapped = FALSE

-----------------------------------------------------------------------------
(***************************************************************************)
(* inject_failure awaits each file operation, so injections interleave.    *)
(* It has found its run running or paused, reads the schedule, and writes  *)
(* back what it read with one entry more.                                  *)
(***************************************************************************)
AskInjection(run) ==
    /\ asked < MaxInjections
    /\ run \notin ended
    /\ asked' = asked + 1
    /\ injecting' = injecting \cup {[id |-> asked + 1, run |-> run, at |-> "load", got |-> <<>>]}
    /\ overlapped' = (injecting # {})
    /\ UNCHANGED <<schedule, scheduleFile, simTime, ended>>

Becoming(q, next) == injecting' = (injecting \ {q}) \cup {next}

\* The time a failure begins at: that of the run's clock, and when it has gone
\* meanwhile the one in the record that was read, which may be any before.
StartTimes(run) == IF run \in ended THEN 0 .. simTime[run] ELSE {simTime[run]}

\* A file that does not parse fails the request.
LoadSchedule(q, f) ==
    /\ q.at = "load"
    /\ IF scheduleFile = "whole"
       THEN \E start \in StartTimes(q.run) :
              Becoming(q, [q EXCEPT !.at = "empty",
                  !.got = Append(schedule, [failure |-> f, start |-> start, by |-> q.run])])
       ELSE injecting' = injecting \ {q}
    /\ UNCHANGED <<schedule, scheduleFile, simTime, ended, asked, overlapped>>

\* save_scenario: opening empties the file ...
EmptySchedule(q) ==
    /\ q.at = "empty"
    /\ scheduleFile' = "empty"
    /\ Becoming(q, [q EXCEPT !.at = "save"])
    /\ UNCHANGED <<schedule, simTime, ended, asked, overlapped>>

\* ... and writing fills it; over another writer's longer text the other's end
\* is left behind.
SaveSchedule(q) ==
    /\ q.at = "save"
    /\ \/ schedule' = q.got /\ scheduleFile' = "whole"
       \/ scheduleFile # "empty" /\ scheduleFile' = "torn" /\ UNCHANGED schedule
    /\ injecting' = injecting \ {q}
    /\ UNCHANGED <<simTime, ended, asked, overlapped>>

Advance(run) ==
    /\ run \notin ended
    /\ simTime[run] < EndOfTime
    /\ simTime' = [simTime EXCEPT ![run] = @ + 1]
    /\ UNCHANGED <<schedule, scheduleFile, ended, injecting, asked, overlapped>>

\* stop_run takes the clock away; the record says so a little later, and whoever
\* asked until then asked before, as far as this module is concerned.
EndRun(run) ==
    /\ ended' = ended \cup {run}
    /\ UNCHANGED <<schedule, scheduleFile, simTime, injecting, asked, overlapped>>

FailuresNext ==
    \/ \E run \in ScenarioRun : AskInjection(run) \/ Advance(run) \/ EndRun(run)
    \/ \E q \in injecting :
         \/ \E f \in Failure : LoadSchedule(q, f)
         \/ EmptySchedule(q) \/ SaveSchedule(q)

FailuresSpec == FailuresInit /\ [][FailuresNext]_failures

-----------------------------------------------------------------------------
Begun(entry, t) == entry.start <= t
Over(entry, t)  == entry.failure.lasts # NoEnd /\ t >= entry.start + entry.failure.lasts

\* The entries of a list that are kept, in their order.
Kept(entries, keep) ==
    LET kept[i \in 0 .. Len(entries)] ==
            IF i = 0 THEN <<>>
            ELSE IF entries[i] \in keep THEN Append(kept[i - 1], entries[i]) ELSE kept[i - 1]
    IN  kept[Len(entries)]

\* get_active_failures, in the order of the schedule.
ActiveAt(t) ==
    Kept(schedule, {entry \in ToSet(schedule) : Begun(entry, t) /\ ~Over(entry, t)})

OfTypes(t, types) ==
    Kept(ActiveAt(t), {entry \in ToSet(schedule) : entry.failure.type \in types})

About(t, type) == {entry.failure.about : entry \in ToSet(OfTypes(t, {type}))}

Penalised(confidence, uncertainty) == Max({0, confidence - Min({100, uncertainty})})

\* One effect on the worst so far, by the loop of apply_gps_degradation.
WorsenedLast(position, worst, f) ==                             \* variant
    [uncertainty |-> f.amount,
     confidence  |-> Min({worst.confidence, Penalised(position.confidence, f.amount)})]

Worsened(position, worst, f) ==
    IF f.amount <= worst.uncertainty THEN worst
    ELSE [uncertainty |-> f.amount,
          confidence  |-> Min({worst.confidence, Penalised(position.confidence, f.amount)})]

Concerns(f, actor) == f.about = All \/ f.about = actor

WorstOf(effects, actor, position) ==
    LET worst[i \in 0 .. Len(effects)] ==
            IF i = 0 THEN position
            ELSE IF Concerns(effects[i].failure, actor)
            THEN Worsened(position, worst[i - 1], effects[i].failure) ELSE worst[i - 1]
    IN  worst[Len(effects)]

Degraded(t, actor, position) == WorstOf(OfTypes(t, {"gps_degradation"}), actor, position)

OfflineServices(t) == About(t, "connectivity_loss")

RsuOperational(t, rsu) == rsu \notin About(t, "rsu_failure")

\* Commands for the adapter, one for each effect, in order.
RoadCommand(f) ==
    IF f.type = "road_closure" THEN [edge |-> f.about, event |-> "close"]
    ELSE [edge |-> f.about, event |-> "narrow", lanes |-> f.amount]

RoadEvents(t) ==
    LET about == OfTypes(t, {"road_closure", "road_narrowing"})
    IN  [i \in DOMAIN about |-> RoadCommand(about[i].failure)]

Inserting == {"malicious_input", "animal_crossing", "wrong_way_vehicle", "stalled_vehicle",
              "emergency_vehicle"}

InjectedActors(t) == OfTypes(t, Inserting)

\* The first of the effects with the lowest visibility decides.
WeatherOf(effects) ==
    LET worst[i \in 0 .. Len(effects)] ==
            IF i = 0 THEN NoWeather
            ELSE IF worst[i - 1] = NoWeather \/ effects[i].failure.amount < worst[i - 1].visibility
            THEN [visibility |-> effects[i].failure.amount, precipitation |-> effects[i].failure.about]
            ELSE worst[i - 1]
    IN  worst[Len(effects)]

Weather(t) == WeatherOf(OfTypes(t, {"weather_visibility"}))

-----------------------------------------------------------------------------
Units == {f.about : f \in {g \in Failure : g.type = "rsu_failure"}}

NoBetter(now, before) ==
    now.uncertainty >= before.uncertainty /\ now.confidence <= before.confidence

\* Nothing a run sees is better in the next state than in this one: positions
\* get no more certain and no more trusted, no service or roadside unit comes
\* back, no command to the adapter is withdrawn and the view gets no longer.
NothingBetter ==
    \A run \in ScenarioRun :
        LET t == simTime[run]
        IN  /\ \A actor \in Actor, position \in Reported :
                   NoBetter(Degraded(t, actor, position)', Degraded(t, actor, position))
            /\ OfflineServices(t) \subseteq OfflineServices(t)'
            /\ \A rsu \in Units : RsuOperational(t, rsu)' => RsuOperational(t, rsu)
            /\ IsPrefix(RoadEvents(t), RoadEvents(t)')
            /\ IsPrefix(InjectedActors(t), InjectedActors(t)')
            /\ Weather(t) # NoWeather =>
                   Weather(t)'.visibility \in 0 .. Weather(t).visibility

\* Whatever order failures are injected in, and whenever runs end meanwhile, one
\* more never makes anything better, as long as its request overlaps with no
\* other (inject_failure writes back what it read before).
OnlyWorsensInTurn == [][schedule' # schedule /\ ~overlapped' => NothingBetter]_failures

\* "appended to the scenario's failure schedule so that it is visible to all
\* consumers": the same of every injection.
OnlyWorsens == [][schedule' # schedule => NothingBetter]_failures

\* "Inject a one-off failure into a running scenario": a failure is active in
\* the run it was injected into only.
OneOff == \A run \in ScenarioRun : \A entry \in ToSet(ActiveAt(simTime[run])) : entry.by = run
=============================================================================
