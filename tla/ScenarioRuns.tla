---------------------------- MODULE ScenarioRuns ----------------------------
(***************************************************************************)
(* The runs of services/scenario-service: the endpoints that pause,        *)
(* resume, stop, re-time and inject failures into one run, over the file   *)
(* store that keeps the run's record and its scenario.                     *)
(*                                                                         *)
(* An endpoint reads a file, decides and touches the in-memory clock in    *)
(* one stretch of the event loop, and writes a file back.  aiofiles does   *)
(* each file operation on a thread, so requests interleave between them:   *)
(* opening for writing empties the file, and closing puts the contents in. *)
(* Times are left out; a scenario is the set of failures injected into it, *)
(* each named by its request.  The run has been started.                   *)
(***************************************************************************)
EXTENDS Integers, FiniteSets

CONSTANTS Speed,        \* speed multipliers
          MaxInFlight,  \* bound of the model on concurrent requests
          MaxRequests,  \* bound of the model on requests
          MaxSteps,     \* steps of the simulation
          MaxCrashes    \* bound of the model on restarts of the service

ASSUME RunsAssumption ==
    /\ 1 \in Speed
    /\ {MaxInFlight, MaxRequests, MaxSteps, MaxCrashes} \subseteq Nat

VARIABLES runFile,      \* <run_id>.json
          scenarioFile, \* <scenario_id>.json: the failures scheduled in it
          clock,        \* controllers[run_id], or NoClock
          simulating,   \* whether sim_tasks[run_id] runs
          progress,     \* steps the simulation has made
          requests,     \* requests being served
          issued,       \* requests so far
          stopped,      \* history: a stop was answered with success
          injected,     \* history: injections answered with success
          raced,        \* history: two requests were served at the same time
          crashes       \* restarts so far

files   == <<runFile, scenarioFile>>
memory  == <<clock, simulating>>
answers == <<stopped, injected>>
vars    == <<files, memory, progress, requests, issued, answers, raced, crashes>>

Running   == "running"
Paused    == "paused"
Cancelled == "cancelled"
State     == {Running, Paused, Cancelled}
Active    == {Running, Paused}

Op == {"pause", "resume", "stop", "speed", "inject"}

\* A file holds a record, is empty between opening and closing, or is torn.
Empty == [kind |-> "empty"]
Torn  == [kind |-> "torn"]
Run(state, speed)   == [kind |-> "run", state |-> state, speed |-> speed]
Scenario(schedule)  == [kind |-> "scenario", schedule |-> schedule]

RunRecord      == [kind : {"run"}, state : State, speed : Speed]
ScenarioRecord == [kind : {"scenario"}, schedule : SUBSET (1 .. MaxRequests)]

NoClock == [there |-> FALSE]
Clock   == [there : {TRUE}, paused : BOOLEAN, speed : Speed]

Request == [id : 1 .. MaxRequests, op : Op, speed : Speed,
            at : {"read", "schedule", "act", "open", "close"},
            got : RunRecord \cup ScenarioRecord \cup {Empty}]

Init ==
    /\ runFile = Run(Running, 1)
    /\ scenarioFile = Scenario({})
    /\ clock = [there |-> TRUE, paused |-> FALSE, speed |-> 1]
    /\ simulating = TRUE
    /\ progress = 0
    /\ requests = {}
    /\ issued = 0
    /\ stopped = FALSE
    /\ injected = {}
    /\ raced = FALSE
    /\ crashes = 0

-----------------------------------------------------------------------------
BecomesBoth(r, next) == requests' = requests \cup {next}    \* variant

Becomes(r, next) == requests' = (requests \ {r}) \cup {next}
Ends(r)          == requests' = requests \ {r}

Arrive(op, speed) ==
    /\ issued < MaxRequests
    /\ Cardinality(requests) < MaxInFlight
    /\ issued' = issued + 1
    /\ requests' = requests \cup
          {[id |-> issued + 1, op |-> op, speed |-> speed, at |-> "read", got |-> Empty]}
    /\ raced' = (raced \/ requests # {})
    /\ UNCHANGED <<files, memory, progress, answers, crashes>>

\* _require_run; a record that does not parse fails the request.
Read(r) ==
    /\ r.at = "read"
    /\ IF runFile \in RunRecord
       THEN Becomes(r, [r EXCEPT !.at = "act", !.got = runFile])
       ELSE Ends(r)
    /\ UNCHANGED <<files, memory, progress, issued, answers, raced, crashes>>

(***************************************************************************)
(* What an endpoint asks of the record it has read.  (A "variant" is what  *)
(* a plausible bug would make of the definition below it.)                 *)
(***************************************************************************)
Allowed(op, state) ==
    CASE op = "pause"              -> state = Running
      [] op = "resume"             -> state = Paused
      [] op = "stop"               -> state # Cancelled
      [] op \in {"speed", "inject"} -> state \in Active

Refuse(r) ==
    /\ r.at = "act" /\ ~Allowed(r.op, r.got.state)
    /\ Ends(r)
    /\ UNCHANGED <<files, memory, progress, issued, answers, raced, crashes>>

\* The clock after pause, resume, stop and set_speed; there may be none.
ClockKeepsRunning(r) == clock                   \* variant

\* Variant: resuming without a clock makes one.
ClockRevived(r) ==
    CASE r.op = "resume" -> [there |-> TRUE, paused |-> FALSE, speed |-> 1]
      [] r.op = "stop"   -> NoClock
      [] OTHER           -> clock

ClockAfter(r) ==
    IF ~clock.there THEN clock
    ELSE CASE r.op = "pause"  -> [clock EXCEPT !.paused = TRUE]
           [] r.op = "resume" -> [clock EXCEPT !.paused = FALSE]
           [] r.op = "stop"   -> NoClock
           [] r.op = "speed"  -> [clock EXCEPT !.speed = r.speed]

RecordAfter(r) ==
    CASE r.op = "pause"  -> [r.got EXCEPT !.state = Paused]
      [] r.op = "resume" -> [r.got EXCEPT !.state = Running]
      [] r.op = "stop"   -> [r.got EXCEPT !.state = Cancelled]
      [] r.op = "speed"  -> [r.got EXCEPT !.speed = r.speed]

\* The record in "got" is from here on the one to be written.
Act(r) ==
    /\ r.at = "act" /\ r.op # "inject" /\ Allowed(r.op, r.got.state)
    /\ clock' = ClockAfter(r)
    /\ simulating' = (simulating /\ r.op # "stop")
    /\ Becomes(r, [r EXCEPT !.at = "open", !.got = RecordAfter(r)])
    /\ UNCHANGED <<files, progress, issued, answers, raced, crashes>>

\* inject_failure goes on to read the scenario, and appends to what it read.
AskSchedule(r) ==
    /\ r.at = "act" /\ r.op = "inject" /\ Allowed(r.op, r.got.state)
    /\ Becomes(r, [r EXCEPT !.at = "schedule"])
    /\ UNCHANGED <<files, memory, progress, issued, answers, raced, crashes>>

Appended(schedule, id) == schedule \cup {id}

ReadSchedule(r) ==
    /\ r.at = "schedule"
    /\ IF scenarioFile \in ScenarioRecord
       THEN Becomes(r, [r EXCEPT !.at = "open",
                                 !.got = Scenario(Appended(scenarioFile.schedule, r.id))])
       ELSE Ends(r)
    /\ UNCHANGED <<files, memory, progress, issued, answers, raced, crashes>>

-----------------------------------------------------------------------------
\* save_run and save_scenario: open(path, "w") ...
Open(r) ==
    /\ r.at = "open"
    /\ IF r.op = "inject"
       THEN scenarioFile' = Empty /\ UNCHANGED runFile
       ELSE runFile' = Empty /\ UNCHANGED scenarioFile
    /\ Becomes(r, [r EXCEPT !.at = "close"])
    /\ UNCHANGED <<memory, progress, issued, answers, raced, crashes>>

\* ... and write and close.  Over another writer's longer text the new text
\* leaves the other's end behind.
Closed(file, text) == IF file \in {Empty, text} THEN {text} ELSE {text, Torn}

Close(r) ==
    /\ r.at = "close"
    /\ IF r.op = "inject"
       THEN scenarioFile' \in Closed(scenarioFile, r.got) /\ UNCHANGED runFile
       ELSE runFile' \in Closed(runFile, r.got) /\ UNCHANGED scenarioFile
    /\ stopped' = (stopped \/ r.op = "stop")
    /\ injected' = IF r.op = "inject" THEN injected \cup {r.id} ELSE injected
    /\ Ends(r)
    /\ UNCHANGED <<memory, progress, issued, raced, crashes>>

Serve(r) == \/ Read(r) \/ Refuse(r) \/ Act(r)
            \/ AskSchedule(r) \/ ReadSchedule(r)
            \/ Open(r) \/ Close(r)

\* run_mock_simulation goes on until it ends or its task is cancelled.
Simulate ==
    /\ simulating
    /\ progress < MaxSteps
    /\ progress' = progress + 1
    /\ simulating' = (progress' < MaxSteps)
    /\ UNCHANGED <<files, clock, requests, issued, answers, raced, crashes>>

\* The service stops and starts again: the files stay, the memory does not.
Restart ==
    /\ crashes < MaxCrashes
    /\ crashes' = crashes + 1
    /\ clock' = NoClock
    /\ simulating' = FALSE
    /\ requests' = {}
    /\ UNCHANGED <<files, progress, issued, answers, raced>>

Next ==
    \/ \E op \in Op \ {"speed"} : Arrive(op, 1)
    \/ \E speed \in Speed : Arrive("speed", speed)
    \/ \E r \in requests : Serve(r)
    \/ Simulate
    \/ Restart

Spec == Init /\ [][Next]_vars

-----------------------------------------------------------------------------
TypeOK ==
    /\ runFile \in RunRecord \cup {Empty, Torn}
    /\ scenarioFile \in ScenarioRecord \cup {Empty, Torn}
    /\ clock \in Clock \cup {NoClock}
    /\ simulating \in BOOLEAN
    /\ progress \in 0 .. MaxSteps
    /\ requests \subseteq Request
    /\ \A r \in requests : r.id <= issued
    /\ \A r, s \in requests : r.id = s.id => r = s
    /\ issued \in 0 .. MaxRequests
    /\ stopped \in BOOLEAN
    /\ injected \subseteq 1 .. issued
    /\ raced \in BOOLEAN
    /\ crashes \in 0 .. MaxCrashes

Quiet == requests = {}

\* As long as requests do not overlap, the record says between them what the
\* clock does: it runs, at the recorded speed, exactly when the record says
\* so; a restart may have lost the clock but makes no other difference; and a
\* cancelled run has neither a clock nor a simulation.
ClockMatchesRecord ==
    ~raced /\ Quiet /\ runFile \in RunRecord =>
        IF runFile.state = Cancelled
        THEN ~clock.there /\ ~simulating
        ELSE /\ crashes = 0 => clock.there
             /\ clock.there => /\ clock.paused = (runFile.state = Paused)
                               /\ clock.speed = runFile.speed

\* However requests race, a run that was stopped with success never gets its
\* clock or its simulation back.
StoppedStaysDown == stopped => ~clock.there /\ ~simulating

\* "Stop and cancel run": once a stop has succeeded, the record says cancelled
\* whenever no request is in progress and there is a record to read.
StopIsFinal == stopped /\ Quiet /\ runFile \in RunRecord => runFile.state = Cancelled

\* That holds as long as requests do not overlap, whenever the service restarts.
StopIsFinalInTurn == ~raced => StopIsFinal

\* "appended to the scenario's failure schedule so that it is visible to all
\* consumers": an injection that succeeded is in the schedule whenever no
\* request is in progress and there is a schedule to read.
InjectionsVisible ==
    Quiet /\ scenarioFile \in ScenarioRecord => injected \subseteq scenarioFile.schedule

\* That holds as long as requests do not overlap.
InjectionsVisibleInTurn == ~raced => InjectionsVisible

\* "Overwrite an existing run record": a run can be read whenever no request
\* is in progress.
RunReadable == Quiet => runFile \in RunRecord

\* "pause" is a part of a run's life cycle: the simulation does not advance
\* while the run is paused.
PauseHolds ==
    [][progress' # progress => ~(Quiet /\ runFile \in RunRecord /\ runFile.state = Paused)]_vars
=============================================================================
