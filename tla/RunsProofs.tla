------------------------------ MODULE RunsProofs ------------------------------
(***************************************************************************)
(* Proofs about the runs of the scenario service, the runner of the        *)
(* simulation, the mock simulation and the injected failures, for any      *)
(* number of requests, runs, vehicles and failures.                        *)
(*                                                                         *)
(* However the requests of a run race, and whenever the service restarts,  *)
(* a run that was stopped stays down: what a race may bring back is the    *)
(* record, never the clock or the simulation.                              *)
(*                                                                         *)
(* Runs of the simulation may overlap in any way.  SUMO is up only while   *)
(* the adapter is running (UpIsRunning), so whoever resets the adapter to  *)
(* another run also closes the SUMO of the one before, and the process     *)
(* that is read always belongs to the run whose id the adapter puts on the *)
(* events.                                                                 *)
(*                                                                         *)
(* The mock simulation and the failures are computed by recursion, so      *)
(* their proofs need induction over data: SetInduction, from the           *)
(* well-foundedness of the naturals.  A step of the simulation moves the   *)
(* vehicles one after the other, and each keeps the place that its         *)
(* progress tells.  A failure is appended to those before it, so the fold  *)
(* over all of them is the fold over the earlier ones and one step more.   *)
(***************************************************************************)
EXTENDS ScenarioRuns, SimulationRun, MockTraffic, FailureEffects, TLAPS, WellFoundedInduction

(* The requests of a run.                                                   *)

\* A request carries the kind of record its next file operation needs.
GotFits ==
    \A r \in requests :
        /\ r.at = "act" => r.got \in RunRecord
        /\ r.at = "schedule" => r.op = "inject"
        /\ r.at \in {"open", "close"} =>
              IF r.op = "inject" THEN r.got \in ScenarioRecord ELSE r.got \in RunRecord

\* A stop has taken the clock and the simulation away before it writes, which
\* is long before it is answered.
StopActsFirst ==
    \A r \in requests : r.op = "stop" /\ r.at \in {"open", "close"} =>
        ~clock.there /\ ~simulating

IInv == TypeOK /\ GotFits /\ StopActsFirst /\ StoppedStaysDown

LEMMA InitIInv == Init => IInv
<1>1. /\ 1 \in Speed
      /\ 0 \in 0 .. MaxSteps /\ 0 \in 0 .. MaxRequests /\ 0 \in 0 .. MaxCrashes
  BY RunsAssumption
<1>2. /\ Run(Running, 1) \in RunRecord
      /\ Scenario({}) \in ScenarioRecord
      /\ [there |-> TRUE, paused |-> FALSE, speed |-> 1] \in Clock
  BY <1>1 DEF Run, Scenario, RunRecord, ScenarioRecord, State, Running, Clock
<1>3. Init => TypeOK
  BY <1>1, <1>2 DEF Init, TypeOK
<1>4. Init => GotFits /\ StopActsFirst /\ StoppedStaysDown
  BY DEF Init, GotFits, StopActsFirst, StoppedStaysDown
<1> QED
  BY <1>3, <1>4 DEF IInv

\* A request that moves on keeps its id, its operation and its speed, and the
\* others stay as they were.
LEMMA MovesOn ==
  ASSUME NEW r \in requests, TypeOK,
         NEW at \in {"read", "schedule", "act", "open", "close"},
         NEW got \in RunRecord \cup ScenarioRecord \cup {Empty},
         NEW next, next = [r EXCEPT !.at = at, !.got = got],
         Becomes(r, next), issued' = issued
  PROVE  /\ next.op = r.op /\ next.at = at /\ next.got = got
         /\ requests' = (requests \ {r}) \cup {next}
         /\ requests' \subseteq Request
         /\ \A s \in requests' : s.id <= issued'
         /\ \A s, t \in requests' : s.id = t.id => s = t
<1>1. r \in Request /\ requests \subseteq Request
  BY DEF TypeOK
<1>2. next \in Request /\ next.id = r.id /\ next.op = r.op /\ next.at = at /\ next.got = got
  BY <1>1 DEF Request
<1>3. requests' = (requests \ {r}) \cup {next}
  BY DEF Becomes
<1>4. \A s, t \in requests : s.id = t.id => s = t
  BY DEF TypeOK
<1>5. \A s \in requests : s.id <= issued
  BY DEF TypeOK
<1>6. requests' \subseteq Request
  BY <1>1, <1>2, <1>3
<1>7. \A s \in requests' : s.id <= issued'
  BY <1>2, <1>3, <1>5
<1>8. ASSUME NEW s \in requests', NEW t \in requests', s.id = t.id
      PROVE  s = t
  BY <1>2, <1>3, <1>4, <1>8
<1> QED
  BY <1>2, <1>3, <1>6, <1>7, <1>8

\* A request that ends leaves the others as they were.
LEMMA EndsRequests ==
  ASSUME NEW r \in requests, IInv, Ends(r), issued' = issued
  PROVE  /\ requests' \subseteq requests
         /\ requests' \subseteq Request
         /\ \A s \in requests' : s.id <= issued'
         /\ \A s, t \in requests' : s.id = t.id => s = t
BY DEF Ends, IInv, TypeOK

\* What a request writes to the record of its run.
LEMMA RecordFits ==
  ASSUME NEW r \in Request, r.got \in RunRecord, r.op # "inject"
  PROVE  RecordAfter(r) \in RunRecord
<1>1. r.speed \in Speed /\ r.op \in {"pause", "resume", "stop", "speed"}
  BY DEF Request, Op
<1> QED
  BY <1>1 DEF RecordAfter, RunRecord, State, Running, Paused, Cancelled

\* No operation makes a clock where there is none, and a stop takes it away.
LEMMA ClockFits ==
  ASSUME NEW r \in Request, r.op # "inject", clock \in Clock \cup {NoClock}
  PROVE  /\ ClockAfter(r) \in Clock \cup {NoClock}
         /\ ~clock.there => ~ClockAfter(r).there
         /\ r.op = "stop" => ~ClockAfter(r).there
<1>1. r.speed \in Speed /\ r.op \in {"pause", "resume", "stop", "speed"}
  BY DEF Request, Op
<1>2. CASE clock = NoClock
  BY <1>2 DEF ClockAfter, NoClock
<1>3. CASE clock \in Clock
  BY <1>1, <1>3 DEF ClockAfter, Clock, NoClock
<1> QED
  BY <1>2, <1>3

-----------------------------------------------------------------------------
(***************************************************************************)
(* The invariant is kept: one lemma for each action.                       *)
(***************************************************************************)
LEMMA ArriveIInv ==
  ASSUME IInv, NEW op \in Op, NEW speed \in Speed, Arrive(op, speed)
  PROVE  IInv'
<1> DEFINE new == [id |-> issued + 1, op |-> op, speed |-> speed, at |-> "read", got |-> Empty]
<1>1. /\ issued + 1 \in 1 .. MaxRequests /\ issued' = issued + 1
      /\ requests' = requests \cup {new}
  BY RunsAssumption DEF IInv, TypeOK, Arrive
<1>2. new \in Request
  BY <1>1 DEF Request
<1>3. requests \subseteq Request /\ \A r \in requests : r.id <= issued
  BY DEF IInv, TypeOK
<1>4. \A r \in requests : r.id \in Nat /\ r.id # new.id
  BY <1>1, <1>3, RunsAssumption DEF Request, IInv, TypeOK
<1>5. /\ requests' \subseteq Request
      /\ \A r \in requests' : r.id <= issued'
      /\ \A r, s \in requests' : r.id = s.id => r = s
  BY <1>1, <1>2, <1>3, <1>4 DEF IInv, TypeOK, Request
<1>6. TypeOK'
  BY <1>1, <1>5, RunsAssumption DEF IInv, TypeOK, Arrive, files, memory, answers
<1>7. (GotFits /\ StopActsFirst /\ StoppedStaysDown)'
  BY <1>1 DEF IInv, GotFits, StopActsFirst, StoppedStaysDown, Arrive, memory, answers
<1> QED
  BY <1>6, <1>7 DEF IInv

LEMMA ReadIInv ==
  ASSUME IInv, NEW r \in requests, Read(r)
  PROVE  IInv'
<1> USE DEF IInv
<1>0. r \in Request
  BY DEF TypeOK
<1>1. CASE runFile \in RunRecord
  <2> DEFINE next == [r EXCEPT !.at = "act", !.got = runFile]
  <2>1. Becomes(r, next) /\ issued' = issued
    BY <1>1 DEF Read
  <2>2. /\ next.op = r.op /\ next.at = "act" /\ next.got = runFile
        /\ requests' = (requests \ {r}) \cup {next}
        /\ requests' \subseteq Request
        /\ \A s \in requests' : s.id <= issued'
        /\ \A s, t \in requests' : s.id = t.id => s = t
    BY <1>1, <2>1, MovesOn
  <2>3. TypeOK'
    BY <2>2 DEF TypeOK, Read, files, memory, answers
  <2>4. (GotFits /\ StopActsFirst /\ StoppedStaysDown)'
    BY <1>1, <2>2 DEF GotFits, StopActsFirst, StoppedStaysDown, Read, memory, answers
  <2> QED
    BY <2>3, <2>4
<1>2. CASE runFile \notin RunRecord
  <2>1. Ends(r) /\ issued' = issued
    BY <1>2 DEF Read
  <2>2. /\ requests' \subseteq requests
        /\ requests' \subseteq Request
        /\ \A s \in requests' : s.id <= issued'
        /\ \A s, t \in requests' : s.id = t.id => s = t
    BY <2>1, EndsRequests
  <2>3. TypeOK'
    BY <2>2 DEF TypeOK, Read, files, memory, answers
  <2>4. (GotFits /\ StopActsFirst /\ StoppedStaysDown)'
    BY <2>2 DEF GotFits, StopActsFirst, StoppedStaysDown, Read, memory, answers
  <2> QED
    BY <2>3, <2>4
<1> QED
  BY <1>1, <1>2

LEMMA RefuseIInv ==
  ASSUME IInv, NEW r \in requests, Refuse(r)
  PROVE  IInv'
<1>1. /\ requests' \subseteq requests
      /\ requests' \subseteq Request
      /\ \A s \in requests' : s.id <= issued'
      /\ \A s, t \in requests' : s.id = t.id => s = t
  BY EndsRequests DEF Refuse
<1>2. TypeOK'
  BY <1>1 DEF IInv, TypeOK, Refuse, files, memory, answers
<1>3. (GotFits /\ StopActsFirst /\ StoppedStaysDown)'
  BY <1>1 DEF IInv, GotFits, StopActsFirst, StoppedStaysDown, Refuse, memory, answers
<1> QED
  BY <1>2, <1>3 DEF IInv

LEMMA ActIInv ==
  ASSUME IInv, NEW r \in requests, Act(r)
  PROVE  IInv'
<1> DEFINE next == [r EXCEPT !.at = "open", !.got = RecordAfter(r)]
<1>1. r \in Request /\ r.at = "act" /\ r.op # "inject" /\ r.got \in RunRecord
  BY DEF Act, IInv, TypeOK, GotFits
<1>2. RecordAfter(r) \in RunRecord
  BY <1>1, RecordFits
<1>3. Becomes(r, next) /\ issued' = issued
  BY DEF Act
<1>4. /\ next.op = r.op /\ next.at = "open" /\ next.got = RecordAfter(r)
      /\ requests' = (requests \ {r}) \cup {next}
      /\ requests' \subseteq Request
      /\ \A s \in requests' : s.id <= issued'
      /\ \A s, t \in requests' : s.id = t.id => s = t
  BY <1>2, <1>3, MovesOn DEF IInv
<1>5. /\ clock' \in Clock \cup {NoClock}
      /\ ~clock.there => ~clock'.there
      /\ r.op = "stop" => ~clock'.there
  BY <1>1, ClockFits DEF Act, IInv, TypeOK
<1>6. /\ simulating' \in BOOLEAN
      /\ ~simulating => ~simulating'
      /\ r.op = "stop" => ~simulating'
  BY DEF Act, IInv, TypeOK
<1>7. TypeOK'
  BY <1>4, <1>5, <1>6 DEF IInv, TypeOK, Act, files, answers
<1>8. GotFits'
  BY <1>1, <1>2, <1>4 DEF IInv, GotFits
<1>9. (StopActsFirst /\ StoppedStaysDown)'
  BY <1>4, <1>5, <1>6 DEF IInv, StopActsFirst, StoppedStaysDown, Act, answers
<1> QED
  BY <1>7, <1>8, <1>9 DEF IInv

LEMMA AskScheduleIInv ==
  ASSUME IInv, NEW r \in requests, AskSchedule(r)
  PROVE  IInv'
<1> DEFINE next == [r EXCEPT !.at = "schedule", !.got = r.got]
<1>1. r \in Request /\ r.got \in RunRecord /\ r.op = "inject"
  BY DEF AskSchedule, IInv, TypeOK, GotFits
<1>2. next = [r EXCEPT !.at = "schedule"]
  BY <1>1 DEF Request
<1>3. Becomes(r, next) /\ issued' = issued
  BY <1>2 DEF AskSchedule
<1>4. /\ next.op = r.op /\ next.at = "schedule" /\ next.got = r.got
      /\ requests' = (requests \ {r}) \cup {next}
      /\ requests' \subseteq Request
      /\ \A s \in requests' : s.id <= issued'
      /\ \A s, t \in requests' : s.id = t.id => s = t
    <2>1. r.got \in RunRecord \cup ScenarioRecord \cup {Empty}
      BY <1>1
    <2> QED
      BY <2>1, <1>3, MovesOn DEF IInv
<1>5. TypeOK'
  BY <1>4 DEF IInv, TypeOK, AskSchedule, files, memory, answers
<1>6. (GotFits /\ StopActsFirst /\ StoppedStaysDown)'
  BY <1>1, <1>4 DEF IInv, GotFits, StopActsFirst, StoppedStaysDown, AskSchedule, memory, answers
<1> QED
  BY <1>5, <1>6 DEF IInv

LEMMA ReadScheduleIInv ==
  ASSUME IInv, NEW r \in requests, ReadSchedule(r)
  PROVE  IInv'
<1> USE DEF IInv
<1>0. r \in Request /\ r.id \in 1 .. MaxRequests /\ r.op = "inject"
  BY DEF TypeOK, Request, GotFits, ReadSchedule
<1>1. CASE scenarioFile \in ScenarioRecord
  <2> DEFINE text == Scenario(Appended(scenarioFile.schedule, r.id))
  <2> DEFINE next == [r EXCEPT !.at = "open", !.got = text]
  <2>1. text \in ScenarioRecord
    BY <1>0, <1>1 DEF Scenario, Appended, ScenarioRecord
  <2>2. Becomes(r, next) /\ issued' = issued
    BY <1>1 DEF ReadSchedule
  <2>3. /\ next.op = r.op /\ next.at = "open" /\ next.got = text
        /\ requests' = (requests \ {r}) \cup {next}
        /\ requests' \subseteq Request
        /\ \A s \in requests' : s.id <= issued'
        /\ \A s, t \in requests' : s.id = t.id => s = t
    <3> HIDE DEF text
    <3> QED
      BY <2>1, <2>2, MovesOn
  <2>4. TypeOK'
    BY <2>3 DEF TypeOK, ReadSchedule, files, memory, answers
  <2>5. (GotFits /\ StopActsFirst /\ StoppedStaysDown)'
    BY <2>1, <2>3 DEF GotFits, StopActsFirst, StoppedStaysDown, ReadSchedule, memory, answers
  <2> QED
    BY <2>4, <2>5
<1>2. CASE scenarioFile \notin ScenarioRecord
  <2>1. Ends(r) /\ issued' = issued
    BY <1>2 DEF ReadSchedule
  <2>2. /\ requests' \subseteq requests
        /\ requests' \subseteq Request
        /\ \A s \in requests' : s.id <= issued'
        /\ \A s, t \in requests' : s.id = t.id => s = t
    BY <2>1, EndsRequests
  <2>3. TypeOK'
    BY <2>2 DEF TypeOK, ReadSchedule, files, memory, answers
  <2>4. (GotFits /\ StopActsFirst /\ StoppedStaysDown)'
    BY <2>2 DEF GotFits, StopActsFirst, StoppedStaysDown, ReadSchedule, memory, answers
  <2> QED
    BY <2>3, <2>4
<1> QED
  BY <1>1, <1>2

LEMMA OpenIInv ==
  ASSUME IInv, NEW r \in requests, Open(r)
  PROVE  IInv'
<1> DEFINE next == [r EXCEPT !.at = "close", !.got = r.got]
<1>1. r \in Request /\ r.at = "open"
  BY DEF Open, IInv, TypeOK
<1>2. next = [r EXCEPT !.at = "close"]
  BY <1>1 DEF Request
<1>3. Becomes(r, next) /\ issued' = issued
  BY <1>2 DEF Open
<1>4. r.got \in RunRecord \cup ScenarioRecord \cup {Empty}
  BY <1>1 DEF Request
<1>5. /\ next.op = r.op /\ next.at = "close" /\ next.got = r.got
      /\ requests' = (requests \ {r}) \cup {next}
      /\ requests' \subseteq Request
      /\ \A s \in requests' : s.id <= issued'
      /\ \A s, t \in requests' : s.id = t.id => s = t
  BY <1>3, <1>4, MovesOn DEF IInv
<1>6. /\ runFile' \in RunRecord \cup {Empty, Torn}
      /\ scenarioFile' \in ScenarioRecord \cup {Empty, Torn}
  BY DEF Open, IInv, TypeOK
<1>7. TypeOK'
  BY <1>5, <1>6 DEF IInv, TypeOK, Open, memory, answers
<1>8. (GotFits /\ StopActsFirst /\ StoppedStaysDown)'
  BY <1>1, <1>5 DEF IInv, GotFits, StopActsFirst, StoppedStaysDown, Open, memory, answers
<1> QED
  BY <1>7, <1>8 DEF IInv

LEMMA CloseIInv ==
  ASSUME IInv, NEW r \in requests, Close(r)
  PROVE  IInv'
<1>1. r \in Request /\ r.id \in 1 .. issued /\ r.at = "close"
  BY DEF Close, IInv, TypeOK, Request
<1>2. /\ requests' \subseteq requests
      /\ requests' \subseteq Request
      /\ \A s \in requests' : s.id <= issued'
      /\ \A s, t \in requests' : s.id = t.id => s = t
  BY EndsRequests DEF Close
<1>3. /\ runFile' \in RunRecord \cup {Empty, Torn}
      /\ scenarioFile' \in ScenarioRecord \cup {Empty, Torn}
  BY <1>1 DEF Close, Closed, IInv, TypeOK, GotFits
<1>4. stopped' \in BOOLEAN /\ injected' \subseteq 1 .. issued'
  BY <1>1 DEF Close, IInv, TypeOK
<1>5. TypeOK'
  BY <1>2, <1>3, <1>4 DEF IInv, TypeOK, Close, memory
<1>6. (GotFits /\ StopActsFirst)'
  BY <1>2 DEF IInv, GotFits, StopActsFirst, Close, memory
<1>7. StoppedStaysDown'
  BY <1>1 DEF IInv, StoppedStaysDown, StopActsFirst, Close, memory
<1> QED
  BY <1>5, <1>6, <1>7 DEF IInv

LEMMA SimulateIInv ==
  ASSUME IInv, Simulate
  PROVE  IInv'
<1>1. progress' \in 0 .. MaxSteps /\ simulating' \in BOOLEAN
  BY RunsAssumption DEF IInv, TypeOK, Simulate
<1>2. TypeOK'
  BY <1>1 DEF IInv, TypeOK, Simulate, files, answers
<1>3. (GotFits /\ StopActsFirst /\ StoppedStaysDown)'
  BY DEF IInv, GotFits, StopActsFirst, StoppedStaysDown, Simulate, answers
<1> QED
  BY <1>2, <1>3 DEF IInv

LEMMA RestartIInv ==
  ASSUME IInv, Restart
  PROVE  IInv'
<1>1. crashes' \in 0 .. MaxCrashes
  BY RunsAssumption DEF IInv, TypeOK, Restart
<1>2. TypeOK'
  BY <1>1 DEF IInv, TypeOK, Restart, files, answers
<1>3. (GotFits /\ StopActsFirst /\ StoppedStaysDown)'
  BY DEF IInv, GotFits, StopActsFirst, StoppedStaysDown, Restart, NoClock
<1> QED
  BY <1>2, <1>3 DEF IInv

-----------------------------------------------------------------------------
LEMMA NextIInv == IInv /\ [Next]_vars => IInv'
<1> SUFFICES ASSUME IInv, [Next]_vars PROVE IInv'
  OBVIOUS
<1>1. ASSUME NEW op \in Op \ {"speed"}, Arrive(op, 1) PROVE IInv'
  BY <1>1, ArriveIInv, RunsAssumption
<1>2. ASSUME NEW speed \in Speed, Arrive("speed", speed) PROVE IInv'
  BY <1>2, ArriveIInv DEF Op
<1>3. ASSUME NEW r \in requests, Serve(r) PROVE IInv'
  BY <1>3, ReadIInv, RefuseIInv, ActIInv, AskScheduleIInv, ReadScheduleIInv,
     OpenIInv, CloseIInv DEF Serve
<1>4. CASE Simulate
  BY <1>4, SimulateIInv
<1>5. CASE Restart
  BY <1>5, RestartIInv
<1>6. CASE UNCHANGED vars
  BY <1>6 DEF IInv, TypeOK, GotFits, StopActsFirst, StoppedStaysDown, vars, files,
     memory, answers
<1> QED
  BY <1>1, <1>2, <1>3, <1>4, <1>5, <1>6 DEF Next

LEMMA Inductive == Spec => []IInv
BY InitIInv, NextIInv, PTL DEF Spec

\* Files, clock and requests keep their types, and no two requests share an id.
THEOREM TypeCorrect == Spec => []TypeOK
BY Inductive, PTL DEF IInv

\* However requests race, a run that was stopped with success never gets its
\* clock or its simulation back (stop_run pops both before it writes, and no
\* other handler makes either).
THEOREM StopTakesEffect == Spec => []StoppedStaysDown
BY Inductive, PTL DEF IInv

-----------------------------------------------------------------------------
(* The runner of the simulation.                                            *)

UpIsRunning ==
    /\ sumo.alive => sumo.on
    /\ sumo.on => adapter.running /\ sumo.run = adapter.run

Fields ==
    /\ sumo \in [on : BOOLEAN, alive : BOOLEAN, run : Runs \cup {"none"},
                 cars : SUBSET Cars, walkers : SUBSET Walkers,
                 light : Strings \cup {<<>>}, lanes : Nat]
    /\ adapter \in [running : BOOLEAN, run : Runs \cup {"none"}, clock : Nat]
    /\ runner \in [running : BOOLEAN, ticks : Nat, errors : Nat]

SimInv == Fields /\ UpIsRunning /\ LabelledByItsRun /\ SumoIsOwned

-----------------------------------------------------------------------------
\* Init establishes the invariant: nothing runs.
LEMMA SimulationInitInv == SimulationInit => SimInv
BY SimulationConstants
   DEF SimulationInit, SimInv, Fields, UpIsRunning, LabelledByItsRun, SumoIsOwned, NoSumo

\* Every event of a batch carries the label it was made with.
LEMMA EventsCarryLabel ==
    ASSUME NEW process, NEW label, NEW unread, NEW e \in Events(process, label, unread)
    PROVE  e.run = label
BY DEF Events, CarEvent, WalkerEvent, LightEvent

\* A pass of the loop over a process that belongs to the adapter's run.
LEMMA TickIInv ==
    ASSUME LabelledByItsRun,
           NEW r \in Runs, NEW process, NEW base, NEW stats,
           process \in [on : BOOLEAN, alive : BOOLEAN, run : Runs \cup {"none"},
                        cars : SUBSET Cars, walkers : SUBSET Walkers,
                        light : Strings \cup {<<>>}, lanes : Nat],
           base \in [running : BOOLEAN, run : Runs \cup {"none"}, clock : Nat],
           stats \in [running : BOOLEAN, ticks : Nat, errors : Nat],
           process.alive => process.on,
           process.on => base.running /\ process.run = base.run,
           Tick(r, process, base, stats)
    PROVE  SimInv'
<1>1. SumoIsOwned'
  BY DEF Tick, SumoIsOwned
<1>2. CASE TickReads(process, base, stats)
  <2>1. PICK c \in SUBSET Cars, w \in SUBSET Walkers, s \in Strings \cup {process.light},
             unread \in SUBSET (Cars \cup Walkers) :
          /\ sumo' = Moved(process, c, w, s)
          /\ batch' = [events |-> Events(Moved(process, c, w, s), base.run, unread),
                       of |-> Moved(process, c, w, s).run]
    BY <1>2 DEF TickReads, ReadSumo
  <2> DEFINE after == Moved(process, c, w, s)
  <2>2. /\ after \in [on : BOOLEAN, alive : BOOLEAN, run : Runs \cup {"none"},
                      cars : SUBSET Cars, walkers : SUBSET Walkers,
                      light : Strings \cup {<<>>}, lanes : Nat]
        /\ after.on = process.on /\ after.alive = process.alive /\ after.run = process.run
    <3>2. after = [on |-> process.on, alive |-> process.alive, run |-> process.run,
                   cars |-> c, walkers |-> w, light |-> s, lanes |-> process.lanes]
      <4>1. process = [on |-> process.on, alive |-> process.alive, run |-> process.run,
                       cars |-> process.cars, walkers |-> process.walkers,
                       light |-> process.light, lanes |-> process.lanes]
        OBVIOUS
      <4> HIDE DEF after
      <4>2. after = [process EXCEPT !.cars = c, !.walkers = w, !.light = s]
        BY DEF after, Moved
      <4> QED BY <4>1, <4>2
    <3>3. /\ process.on \in BOOLEAN /\ process.alive \in BOOLEAN
          /\ process.run \in Runs \cup {"none"} /\ process.lanes \in Nat
          /\ process.light \in Strings \cup {<<>>}
      OBVIOUS
    <3>4. s \in Strings \cup {<<>>}
      BY <3>3
    <3> QED BY <3>2, <3>3, <3>4
  <2> HIDE DEF after
  <2>3. process.alive /\ adapter' = [base EXCEPT !.clock = @ + 1]
        /\ runner' = [stats EXCEPT !.ticks = @ + 1]
    BY <1>2 DEF TickReads
  <2>4. Fields'
    BY <2>1, <2>2, <2>3 DEF Fields, after
  <2>5. UpIsRunning'
    BY <2>1, <2>2, <2>3 DEF UpIsRunning, after
  <2>6. LabelledByItsRun'
    BY <2>1, <2>2, <2>3, EventsCarryLabel DEF LabelledByItsRun, after
  <2> QED BY <1>1, <2>4, <2>5, <2>6 DEF SimInv
<1>3. CASE TickLosesSumo(process, base, stats)
  <2>1. /\ sumo' = [process EXCEPT !.alive = FALSE] /\ batch' = Nothing
        /\ adapter' = [base EXCEPT !.clock = @ + 1]
        /\ runner' = [stats EXCEPT !.errors = @ + 1]
    BY <1>3 DEF TickLosesSumo
  <2>2. Fields'
    <3>1. sumo' \in [on : BOOLEAN, alive : BOOLEAN, run : Runs \cup {"none"},
                     cars : SUBSET Cars, walkers : SUBSET Walkers,
                     light : Strings \cup {<<>>}, lanes : Nat]
      BY <2>1
    <3>2. adapter' \in [running : BOOLEAN, run : Runs \cup {"none"}, clock : Nat]
      BY <2>1
    <3>3. runner' \in [running : BOOLEAN, ticks : Nat, errors : Nat]
      BY <2>1
    <3> QED BY <3>1, <3>2, <3>3 DEF Fields
  <2>3. UpIsRunning'
    <3>1. sumo'.alive = FALSE /\ sumo'.on = process.on /\ sumo'.run = process.run
      BY <2>1
    <3>2. adapter'.running = base.running /\ adapter'.run = base.run
      BY <2>1
    <3> QED BY <3>1, <3>2 DEF UpIsRunning
  <2>4. LabelledByItsRun'
    BY <2>1 DEF LabelledByItsRun, Nothing
  <2> QED BY <1>1, <2>2, <2>3, <2>4 DEF SimInv
<1>4. CASE TickFails(process, base, stats)
  <2>1. /\ sumo' = process /\ batch' = Nothing /\ adapter' = base
        /\ runner' = [stats EXCEPT !.errors = @ + 1]
    BY <1>4 DEF TickFails
  <2> QED BY <1>1, <2>1 DEF SimInv, Fields, UpIsRunning, LabelledByItsRun, Nothing
<1> QED BY <1>2, <1>3, <1>4 DEF Tick

\* What closing leaves is not up.
LEMMA ClosedIsDown ==
    ASSUME SimInv
    PROVE  /\ ~SumoClosed.on /\ ~SumoClosed.alive
           /\ SumoClosed \in [on : BOOLEAN, alive : BOOLEAN, run : Runs \cup {"none"},
                              cars : SUBSET Cars, walkers : SUBSET Walkers,
                              light : Strings \cup {<<>>}, lanes : Nat]
BY DEF SimInv, Fields, UpIsRunning, SumoClosed, NoSumo

\* A run that begins, whether SUMO starts or not.
LEMMA BeginIInv ==
    ASSUME SimInv, NEW r \in Runs, BeginRun(r)
    PROVE  SimInv'
<1>1. CASE Starts(r)
  <2>1. PICK process \in Launched(r) :
           Tick(r, process, [Reset(r) EXCEPT !.running = TRUE],
                [running |-> TRUE, ticks |-> 0, errors |-> 0])
    BY <1>1 DEF Starts
  <2>2. /\ process \in [on : BOOLEAN, alive : BOOLEAN, run : Runs \cup {"none"},
                        cars : SUBSET Cars, walkers : SUBSET Walkers,
                        light : Strings \cup {<<>>}, lanes : Nat]
        /\ process.on /\ process.run = r
    <3>1. PICK s \in Strings :
            process = [on |-> TRUE, alive |-> TRUE, run |-> r, cars |-> {}, walkers |-> {},
                       light |-> s, lanes |-> Lanes]
      BY <2>1 DEF Launched
    <3>2. Lanes \in Nat
      BY SimulationConstants
    <3> QED BY <3>1, <3>2
  <2> DEFINE base == [Reset(r) EXCEPT !.running = TRUE]
             stats == [running |-> TRUE, ticks |-> 0, errors |-> 0]
  <2>3. /\ base \in [running : BOOLEAN, run : Runs \cup {"none"}, clock : Nat]
        /\ base.running /\ base.run = r
        /\ stats \in [running : BOOLEAN, ticks : Nat, errors : Nat]
    BY DEF Reset
  <2>4. Tick(r, process, base, stats)
    BY <2>1
  <2> HIDE DEF base, stats
  <2> QED BY <2>2, <2>3, <2>4, TickIInv DEF SimInv
<1>2. CASE StartFails(r)
  <2>1. /\ sumo' = SumoClosed /\ adapter' = Reset(r) /\ runner' = runner
        /\ sleeping' = sleeping /\ batch' = batch
    BY <1>2 DEF StartFails
  <2>2. Reset(r) \in [running : BOOLEAN, run : Runs \cup {"none"}, clock : Nat]
    BY DEF Reset
  <2> QED BY <2>1, <2>2, ClosedIsDown
          DEF SimInv, Fields, UpIsRunning, LabelledByItsRun, SumoIsOwned
<1> QED BY <1>1, <1>2 DEF BeginRun

\* A loop that ends stops the adapter.
LEMMA FinishedIInv ==
    ASSUME SimInv, NEW r \in Runs, Finished(r)
    PROVE  SimInv'
<1>1. /\ sumo' = SumoClosed /\ adapter' = [adapter EXCEPT !.running = FALSE]
      /\ runner' = [runner EXCEPT !.running = FALSE] /\ batch' = batch
  BY DEF Finished
<1> QED BY <1>1, ClosedIsDown DEF SimInv, Fields, UpIsRunning, LabelledByItsRun, SumoIsOwned

LEMMA WakeIInv ==
    ASSUME SimInv, NEW r \in Runs, Wake(r)
    PROVE  SimInv'
<1>1. CASE GoesOn(r)
  BY <1>1, TickIInv DEF GoesOn, SimInv, Fields, UpIsRunning
<1>2. CASE ~runner.running /\ Finished(r)
  BY <1>2, FinishedIInv
<1> QED BY <1>1, <1>2 DEF Wake

\* A command changes the process but not whose it is.
LEMMA CommandedIInv ==
    ASSUME SimInv, NEW process, Commanded(process),
           process \in [on : BOOLEAN, alive : BOOLEAN, run : Runs \cup {"none"},
                        cars : SUBSET Cars, walkers : SUBSET Walkers,
                        light : Strings \cup {<<>>}, lanes : Nat],
           process.on = sumo.on, process.run = sumo.run
    PROVE  SimInv'
<1>1. /\ sumo.alive /\ sumo' = process
      /\ adapter' = adapter /\ runner' = runner /\ sleeping' = sleeping /\ batch' = batch
  BY DEF Commanded
<1> QED BY <1>1 DEF SimInv, Fields, UpIsRunning, LabelledByItsRun, SumoIsOwned

-----------------------------------------------------------------------------
\* Every step keeps the invariant.
LEMMA SimulationNextInv == SimInv /\ [SimulationNext]_simulation => SimInv'
<1> SUFFICES ASSUME SimInv, [SimulationNext]_simulation PROVE SimInv'
  OBVIOUS
<1>1. ASSUME NEW r \in Runs, BeginRun(r) PROVE SimInv'
  BY <1>1, BeginIInv
<1>2. ASSUME NEW r \in Runs, Wake(r) PROVE SimInv'
  BY <1>2, WakeIInv
<1>3. ASSUME NEW r \in Runs, CancelRun(r) PROVE SimInv'
  BY <1>3, FinishedIInv DEF CancelRun
<1>4. CASE Stop
  BY <1>4 DEF Stop, SimInv, Fields, UpIsRunning, LabelledByItsRun, SumoIsOwned
<1>5. ASSUME NEW c \in Cars, ApplyVehicleCommand(c) PROVE SimInv'
  BY <1>5, CommandedIInv DEF ApplyVehicleCommand, SimInv, Fields
<1>6. ASSUME NEW s \in Strings, ApplySignalCommand(s) PROVE SimInv'
  BY <1>6, CommandedIInv DEF ApplySignalCommand, SimInv, Fields
<1>7. ASSUME NEW n \in 0 .. Lanes, ApplyRoadEvent(n) PROVE SimInv'
  <2>1. n \in Nat
    BY SimulationConstants
  <2> QED BY <1>7, <2>1, CommandedIInv DEF ApplyRoadEvent, SimInv, Fields
<1>8. CASE SumoDies
  BY <1>8, CommandedIInv DEF SumoDies, SimInv, Fields
<1>9. CASE UNCHANGED simulation
  BY <1>9 DEF simulation, SimInv, Fields, UpIsRunning, LabelledByItsRun, SumoIsOwned
<1> QED BY <1>1, <1>2, <1>3, <1>4, <1>5, <1>6, <1>7, <1>8, <1>9 DEF SimulationNext

\* However runs overlap, fail to start, are stopped or cancelled, no event
\* ever carries the id of another run than the one whose SUMO it shows.
THEOREM EventsCarryTheirRun == SimulationSpec => []LabelledByItsRun
<1>1. SimInv => LabelledByItsRun
  BY DEF SimInv
<1> QED BY <1>1, SimulationInitInv, SimulationNextInv, PTL DEF SimulationSpec

-----------------------------------------------------------------------------
(* Induction.                                                               *)

LEMMA LessIsWellFounded == IsWellFoundedOn({p \in Nat \X Nat : p[1] < p[2]}, Nat)
  BY NatLessThanWellFounded, Zenon DEF OpToRel

\* Induction: a set with 0, and with the successor of each of its numbers, has
\* all of them.  A sequence is treated by the numbers of its places.
LEMMA SetInduction ==
  ASSUME NEW T, 0 \in T, \A n \in Nat : n \in T => n + 1 \in T
  PROVE  Nat \subseteq T
<1> DEFINE R == {p \in Nat \X Nat : p[1] < p[2]}
           U == Nat \ T
<1> SUFFICES ASSUME U # {} PROVE FALSE
  OBVIOUS
<1>1. \E x \in U : \A y \in U : ~(<<y, x>> \in R)
  <2>1. IsWellFoundedOn(R, Nat)
    BY LessIsWellFounded
  <2>2. U \subseteq Nat
    OBVIOUS
  <2> HIDE DEF R, U
  <2> QED
    BY <2>1, <2>2, WFMin
<1>2. PICK x \in U : \A y \in U : ~(<<y, x>> \in R)
  BY <1>1
<1>3. x \in Nat /\ x # 0 /\ x \notin T
  OBVIOUS
<1>4. x - 1 \in Nat /\ x - 1 \in T
  <2>1. x - 1 \in Nat /\ x - 1 < x
    BY <1>3
  <2>2. <<x - 1, x>> \in R
    BY <2>1, <1>3
  <2> QED
    BY <1>2, <2>1, <2>2
<1>5. x = (x - 1) + 1
  BY <1>3
<1> QED
  BY <1>3, <1>4, <1>5

\* w sums the first n segments of the route.
Sums(w, route, n) ==
    w = [k \in 0 .. n |-> IF k = 0 THEN 0 ELSE w[k - 1] + Routes[route][k]]

LEMMA SumsExist == \A route : \A n \in Nat : \E w : Sums(w, route, n)
<1> TAKE route
<1> DEFINE T == {n \in Nat : \E w : Sums(w, route, n)}
<1>1. 0 \in T
  <2>1. Sums([k \in 0 .. 0 |-> 0], route, 0)
    BY DEF Sums
  <2> QED
    BY <2>1
<1>2. ASSUME NEW n \in Nat, n \in T PROVE n + 1 \in T
  <2>1. PICK w : Sums(w, route, n)
    BY <1>2
  <2> DEFINE v == [k \in 0 .. n + 1 |-> IF k <= n THEN w[k] ELSE w[n] + Routes[route][n + 1]]
  <2>2. \A k \in 0 .. n + 1 : v[k] = IF k = 0 THEN 0 ELSE v[k - 1] + Routes[route][k]
    BY <2>1 DEF Sums
  <2>3. Sums(v, route, n + 1)
    BY <2>2 DEF Sums
  <2> HIDE DEF v
  <2> QED
    BY <2>3
<1> HIDE DEF T
<1>3. Nat \subseteq T
  BY <1>1, <1>2, SetInduction
<1> QED
  BY <1>3 DEF T

LEMMA SumsAgree ==
  ASSUME NEW route, NEW n \in Nat, NEW m \in Nat, NEW w, NEW v,
         Sums(w, route, n), Sums(v, route, m)
  PROVE  \A k \in Nat : k <= n /\ k <= m => w[k] = v[k]
<1> DEFINE T == {k \in Nat : k <= n /\ k <= m => w[k] = v[k]}
<1>1. 0 \in T
  BY DEF Sums
<1>2. ASSUME NEW k \in Nat, k \in T PROVE k + 1 \in T
  <2> SUFFICES ASSUME k + 1 <= n, k + 1 <= m PROVE w[k + 1] = v[k + 1]
    OBVIOUS
  <2>1. w[k] = v[k]
    BY <1>2
  <2>2. k + 1 \in 0 .. n /\ k + 1 \in 0 .. m /\ k + 1 # 0 /\ (k + 1) - 1 = k
    OBVIOUS
  <2>3. w[k + 1] = w[k] + Routes[route][k + 1] /\ v[k + 1] = v[k] + Routes[route][k + 1]
    BY <2>2 DEF Sums
  <2> QED
    BY <2>1, <2>3
<1> HIDE DEF T
<1>3. Nat \subseteq T
  BY <1>1, <1>2, SetInduction
<1> QED
  BY <1>3 DEF T

LEMMA WayIsSum ==
  ASSUME NEW route, NEW n \in Nat
  PROVE  \E w : Sums(w, route, n) /\ WayTo(route, n) = w[n]
<1> DEFINE w == CHOOSE w : Sums(w, route, n)
<1>1. Sums(w, route, n)
  BY SumsExist
<1>2. WayTo(route, n) = w[n]
  BY DEF WayTo, Sums
<1> QED
  BY <1>1, <1>2

LEMMA WayAdds ==
  ASSUME NEW route, NEW n \in Nat
  PROVE  /\ WayTo(route, 0) = 0
         /\ WayTo(route, n + 1) = WayTo(route, n) + Routes[route][n + 1]
<1>1. PICK w : Sums(w, route, n) /\ WayTo(route, n) = w[n]
  BY WayIsSum
<1>2. PICK v : Sums(v, route, n + 1) /\ WayTo(route, n + 1) = v[n + 1]
  BY WayIsSum
<1>3. PICK u : Sums(u, route, 0) /\ WayTo(route, 0) = u[0]
  BY WayIsSum
<1>4. u[0] = 0
  BY <1>3 DEF Sums
<1>5. v[n + 1] = v[n] + Routes[route][n + 1]
  BY <1>2 DEF Sums
<1>6. v[n] = w[n]
  <2>1. n + 1 \in Nat /\ n <= n + 1 /\ n <= n
    OBVIOUS
  <2> QED
    BY <1>1, <1>2, <2>1, SumsAgree
<1> QED
  BY <1>1, <1>2, <1>3, <1>4, <1>5, <1>6

-----------------------------------------------------------------------------
Top == 10 * WaypointAt

IsCar(x) ==
    x = [route |-> x.route, passed |-> x.passed, left |-> x.left, progress |-> x.progress,
         speed |-> x.speed, target |-> x.target, cruise |-> x.cruise]

Moves(x) ==
    /\ x.route \in DOMAIN Routes /\ x.progress \in Nat
    /\ x.speed \in 0 .. Top /\ x.target \in 0 .. Top /\ x.cruise \in 0 .. Top

\* Where the route says that a car is.
Place(x) ==
    WayTo(x.route, x.passed)
        + (IF x.passed = Len(Routes[x.route]) THEN 0 ELSE Routes[x.route][x.passed + 1] - x.left)

OnRoute(x) ==
    /\ Len(Routes[x.route]) > 0
    /\ x.passed \in 0 .. Len(Routes[x.route]) /\ x.left \in Nat
    /\ x.progress <= Place(x) /\ Place(x) - x.progress <= WaypointAt * x.passed

Sound(x) == IsCar(x) /\ Moves(x) /\ (x.route # Recovery => OnRoute(x))

SoundFleet(fleet) ==
    /\ fleet = [c \in DOMAIN Fleet |-> fleet[c]]
    /\ \A c \in DOMAIN Fleet : Sound(fleet[c])

LEMMA WayIsNat ==
  ASSUME NEW route \in DOMAIN Routes, NEW n \in 0 .. Len(Routes[route])
  PROVE  WayTo(route, n) \in Nat
<1> DEFINE T == {k \in Nat : k <= Len(Routes[route]) => WayTo(route, k) \in Nat}
<1>0. Routes[route] \in Seq(Nat \ {0}) /\ Len(Routes[route]) \in Nat
  BY MockConstants
<1>1. 0 \in T
  BY WayAdds
<1>2. ASSUME NEW k \in Nat, k \in T PROVE k + 1 \in T
  <2>1. k + 1 <= Len(Routes[route]) => Routes[route][k + 1] \in Nat
    BY <1>0
  <2>2. WayTo(route, k + 1) = WayTo(route, k) + Routes[route][k + 1]
    BY WayAdds
  <2> QED
    BY <1>2, <1>0, <2>1, <2>2
<1> HIDE DEF T
<1>3. Nat \subseteq T
  BY <1>1, <1>2, SetInduction
<1>4. n \in Nat /\ n <= Len(Routes[route])
  BY <1>0
<1> QED
  BY <1>3, <1>4 DEF T

\* Whoever starts on its route starts between two of its waypoints.
LEMMA StartsBetween ==
  ASSUME NEW route \in DOMAIN Routes, NEW way \in Nat, way < WayTo(route, Len(Routes[route]))
  PROVE  \E n \in 0 .. (Len(Routes[route]) - 1) :
            WayTo(route, n) <= way /\ way < WayTo(route, n + 1)
<1> DEFINE last == Len(Routes[route])
           Between == \E n \in 0 .. last - 1 : WayTo(route, n) <= way /\ way < WayTo(route, n + 1)
           T == {k \in Nat : k <= last => (Between \/ WayTo(route, k) <= way)}
<1>0. last \in Nat
  BY MockConstants
<1>1. 0 \in T
  BY WayAdds
<1>2. ASSUME NEW k \in Nat, k \in T PROVE k + 1 \in T
  <2> SUFFICES ASSUME k + 1 <= last, ~Between PROVE WayTo(route, k + 1) <= way
    OBVIOUS
  <2>1. k \in 0 .. last /\ k + 1 \in 0 .. last /\ k \in 0 .. last - 1
    BY <1>0
  <2>2. WayTo(route, k) <= way
    BY <1>2, <2>1
  <2>3. WayTo(route, k + 1) \in Nat
    BY <2>1, WayIsNat
  <2> QED
    BY <2>1, <2>2, <2>3
<1> HIDE DEF T
<1>3. Nat \subseteq T
  BY <1>1, <1>2, SetInduction
<1>4. Between \/ WayTo(route, last) <= way
  BY <1>0, <1>3 DEF T
<1>5. WayTo(route, last) \in Nat
  BY <1>0, WayIsNat
<1> QED
  BY <1>4, <1>5

LEMMA WaypointIs ==
  /\ WaypointAt \in Nat
  /\ \A n \in Nat : /\ WaypointAt * n \in Nat
                    /\ WaypointAt * (n + 1) = WaypointAt * n + WaypointAt
BY DEF WaypointAt

LEMMA PlacedIsSound ==
  ASSUME NEW c \in DOMAIN Fleet
  PROVE  Sound(Placed(c))
<1> DEFINE route == Fleet[c].route
           way == Fleet[c].start
           passed == CHOOSE n \in 0 .. (Len(Routes[route]) - 1) :
                        WayTo(route, n) <= way /\ way < WayTo(route, n + 1)
           cruise == Fleet[c].cruise
           one == Placed(c)
<1>1. route \in DOMAIN Routes /\ way \in Nat /\ way < WayTo(route, Len(Routes[route]))
  BY MockConstants, FleetAssumption
<1>2. /\ passed \in 0 .. (Len(Routes[route]) - 1)
      /\ WayTo(route, passed) <= way /\ way < WayTo(route, passed + 1)
  BY <1>1, StartsBetween
<1>3. cruise \in 0 .. Top
  BY FleetAssumption DEF Top
<1>4. one = [route |-> route, passed |-> passed, left |-> WayTo(route, passed + 1) - way,
             progress |-> way, speed |-> cruise, target |-> cruise, cruise |-> cruise]
  BY DEF Placed
<1>5. Len(Routes[route]) \in Nat
  BY <1>1, MockConstants
<1>13. one = Placed(c)
  OBVIOUS
<1> HIDE DEF one, passed, route, way, cruise
<1>6. /\ passed \in Nat /\ passed # Len(Routes[route]) /\ passed \in 0 .. Len(Routes[route])
      /\ passed + 1 \in 0 .. Len(Routes[route])
  BY <1>2, <1>5
<1>7. WayTo(route, passed) \in Nat /\ WayTo(route, passed + 1) \in Nat
  BY <1>1, <1>6, WayIsNat
<1>8. WayTo(route, passed + 1) = WayTo(route, passed) + Routes[route][passed + 1]
  BY <1>6, WayAdds
<1>9. Routes[route][passed + 1] \in Nat
  <2>1. passed + 1 \in 1 .. Len(Routes[route]) /\ Routes[route] \in Seq(Nat \ {0})
    BY <1>1, <1>2, <1>5, MockConstants
  <2> QED
    BY <2>1
<1>10. IsCar(one) /\ Moves(one)
  <2>1. /\ one.route = route /\ one.passed = passed /\ one.left = WayTo(route, passed + 1) - way
        /\ one.progress = way /\ one.speed = cruise /\ one.target = cruise /\ one.cruise = cruise
    BY <1>4
  <2>2. IsCar(one)
    BY <1>4, <2>1, Zenon DEF IsCar
  <2>3. Moves(one)
    BY <1>1, <1>3, <2>1, Zenon DEF Moves
  <2> QED
    BY <2>2, <2>3
<1>11. Place(one) = way
  <2>1. one.route = route /\ one.passed = passed /\ one.left = WayTo(route, passed + 1) - way
    BY <1>4
  <2>2. Place(one) = WayTo(route, passed) + (Routes[route][passed + 1] - (WayTo(route, passed + 1) - way))
    BY <1>6, <2>1 DEF Place
  <2> QED
    BY <1>1, <1>7, <1>8, <1>9, <2>2
<1>12. OnRoute(one)
  <2>1. one.route = route /\ one.passed = passed /\ one.progress = way
        /\ one.left = WayTo(route, passed + 1) - way
    BY <1>4
  <2>2. WayTo(route, passed + 1) - way \in Nat
    BY <1>1, <1>2, <1>7
  <2>3. way <= way /\ way - way <= WaypointAt * passed
    <3>1. PICK v, p : v = way /\ p = WaypointAt * passed
      OBVIOUS
    <3>2. v \in Nat /\ p \in Nat
      BY <1>1, <1>6, <3>1, WaypointIs
    <3>3. v <= v /\ v - v <= p
      BY <3>2
    <3> QED
      BY <3>1, <3>3
  <2>4. Len(Routes[route]) > 0
    BY <1>5, <1>6
  <2> QED
    BY <1>6, <1>11, <2>1, <2>2, <2>3, <2>4, Zenon DEF OnRoute
<1> QED
  BY <1>10, <1>12, <1>13, Zenon DEF Sound

\* A new speed or target leaves a car where it is.
Keeps(y, x) ==
    /\ IsCar(y) /\ y.route = x.route /\ y.passed = x.passed /\ y.left = x.left
    /\ y.progress = x.progress /\ y.cruise = x.cruise

LEMMA FieldsKept ==
  ASSUME NEW x, IsCar(x), NEW e, NEW y
  PROVE  /\ y = [x EXCEPT !.speed = e] => Keeps(y, x) /\ y.speed = e /\ y.target = x.target
         /\ y = [x EXCEPT !.target = e] => Keeps(y, x) /\ y.speed = x.speed /\ y.target = e
<1>1. PICK a1, a2, a3, a4, a5, a6, a7 :
          x = [route |-> a1, passed |-> a2, left |-> a3, progress |-> a4,
               speed |-> a5, target |-> a6, cruise |-> a7]
  BY Zenon DEF IsCar
<1>2. [x EXCEPT !.speed = e] = [route |-> a1, passed |-> a2, left |-> a3, progress |-> a4,
                                speed |-> e, target |-> a6, cruise |-> a7]
  BY <1>1
<1>3. [x EXCEPT !.target = e] = [route |-> a1, passed |-> a2, left |-> a3, progress |-> a4,
                                 speed |-> a5, target |-> e, cruise |-> a7]
  BY <1>1
<1> QED
  BY <1>1, <1>2, <1>3 DEF IsCar, Keeps

\* Where a car is does not depend on how fast it goes.
LEMMA SoundAtSpeed ==
  ASSUME NEW x, Sound(x), NEW e \in 0 .. Top, NEW y,
         y = [x EXCEPT !.speed = e] \/ y = [x EXCEPT !.target = e]
  PROVE  Sound(y)
<1>1. IsCar(x)
  BY DEF Sound
<1>2. CASE y = [x EXCEPT !.speed = e]
  <2>1. Keeps(y, x) /\ y.speed = e /\ y.target = x.target
    BY <1>1, <1>2, FieldsKept
  <2> QED
    BY <2>1, Zenon DEF Sound, Moves, OnRoute, Place, Keeps
<1>3. CASE y = [x EXCEPT !.target = e]
  <2>1. Keeps(y, x) /\ y.speed = x.speed /\ y.target = e
    BY <1>1, <1>3, FieldsKept
  <2> QED
    BY <2>1, Zenon DEF Sound, Moves, OnRoute, Place, Keeps
<1> QED
  BY <1>2, <1>3

\* A car at the end of its route starts over, and has a waypoint before it.
LEMMA LapIsSound ==
  ASSUME NEW x, Sound(x)
  PROVE  /\ Sound(Lap(x)) /\ Lap(x).route = x.route /\ Lap(x).speed = x.speed
         /\ x.route # Recovery => Lap(x).passed < Len(Routes[x.route])
<1>1. CASE x.passed < Len(Routes[x.route])
  BY <1>1 DEF Lap
<1>2. CASE ~(x.passed < Len(Routes[x.route]))
  <2> DEFINE first == Routes[x.route][1]
  <2>1. PICK y : y = Lap(x)
    OBVIOUS
  <2>2. y = [x EXCEPT !.passed = 0, !.left = first, !.progress = 0]
    BY <1>2, <2>1 DEF Lap
  <2>3. /\ IsCar(y) /\ y.route = x.route /\ y.passed = 0 /\ y.left = first /\ y.progress = 0
        /\ y.speed = x.speed /\ y.target = x.target /\ y.cruise = x.cruise
    <3>1. PICK a1, a2, a3, a4, a5, a6, a7 :
              x = [route |-> a1, passed |-> a2, left |-> a3, progress |-> a4,
                   speed |-> a5, target |-> a6, cruise |-> a7]
      BY Zenon DEF IsCar, Sound
    <3>2. PICK f : f = first
      OBVIOUS
    <3>3. y = [x EXCEPT !.passed = 0, !.left = f, !.progress = 0]
      BY <2>2, <3>2
    <3> HIDE DEF first
    <3>4. y = [route |-> a1, passed |-> 0, left |-> f, progress |-> 0,
               speed |-> a5, target |-> a6, cruise |-> a7]
      BY <3>1, <3>3
    <3> QED
      BY <3>1, <3>2, <3>4 DEF IsCar
  <2>4. Moves(y)
    BY <2>3 DEF Moves, Sound
  <2>5. ASSUME x.route # Recovery PROVE OnRoute(y) /\ y.passed < Len(Routes[x.route])
    <3>1. Len(Routes[x.route]) \in Nat /\ Len(Routes[x.route]) > 0
          /\ Routes[x.route] \in Seq(Nat \ {0})
      BY <2>5, MockConstants DEF Sound, OnRoute, Moves
    <3>2. first \in Nat
      BY <3>1
    <3>3. WayTo(x.route, 0) = 0
      BY WayAdds
    <3> HIDE DEF first
    <3>4. Place(y) = 0
      <4>1. y.passed # Len(Routes[y.route]) /\ Routes[y.route][y.passed + 1] = first
        BY <2>3, <3>1 DEF first
      <4> QED
        BY <2>3, <3>2, <3>3, <4>1 DEF Place
    <3> QED
      <4>1. 0 \in Nat /\ WaypointAt * 0 \in Nat
        BY WaypointIs
      <4> QED
        BY <2>3, <3>1, <3>2, <3>4, <4>1 DEF OnRoute
  <2> QED
    BY <2>1, <2>3, <2>4, <2>5 DEF Sound
<1> QED
  BY <1>1, <1>2

LEMMA TopIs == Top \in Nat /\ 0 \in 0 .. Top /\ {4000, 5500, 6000} \subseteq 0 .. Top
  BY DEF Top, WaypointAt

LEMMA ATickIsShort ==
  ASSUME NEW v \in 0 .. Top
  PROVE  v \div 10 \in 0 .. WaypointAt /\ v \div 10 \in Nat
<1>1. \A w \in Nat, u \in Nat : u <= 10 * w => u \div 10 \in 0 .. w /\ u \div 10 \in Nat
  OBVIOUS
<1>2. v \in Nat /\ v <= 10 * WaypointAt
  BY WaypointIs DEF Top
<1> QED
  BY <1>1, <1>2, WaypointIs

\* A tick brings a car on by what its progress says, or to its next waypoint,
\* which it was no further from than WaypointAt.
LEMMA AdvancedIsSound ==
  ASSUME NEW x, Sound(x), x.route # Recovery => x.passed < Len(Routes[x.route])
  PROVE  Sound(Advanced(x))
<1> DEFINE way == x.speed \div 10
<1>0. way \in 0 .. WaypointAt /\ way \in Nat
  <2>1. x.speed \in 0 .. Top
    BY Zenon DEF Sound, Moves
  <2> QED
    BY <2>1, ATickIsShort, Zenon
<1>1. PICK a1, a2, a3, a4, a5, a6, a7 :
          x = [route |-> a1, passed |-> a2, left |-> a3, progress |-> a4,
               speed |-> a5, target |-> a6, cruise |-> a7]
  BY Zenon DEF IsCar, Sound
<1>2. PICK y : y = Advanced(x)
  OBVIOUS
<1>3. CASE x.left >= WaypointAt
  <2>1. y = [x EXCEPT !.left = @ - way, !.progress = @ + way]
    BY <1>2, <1>3 DEF Advanced
  <2> HIDE DEF way
  <2>2. y = [route |-> a1, passed |-> a2, left |-> a3 - way, progress |-> a4 + way,
             speed |-> a5, target |-> a6, cruise |-> a7]
    BY <1>1, <2>1
  <2>3. /\ IsCar(y) /\ y.route = x.route /\ y.passed = x.passed /\ y.left = x.left - way
        /\ y.progress = x.progress + way
        /\ y.speed = x.speed /\ y.target = x.target /\ y.cruise = x.cruise
    BY <1>1, <2>2 DEF IsCar
  <2>4. Moves(y)
    <3>1. x.progress + way \in Nat
      <4>1. x.progress \in Nat
        BY Zenon DEF Moves, Sound
      <4> QED
        BY <1>0, <4>1
    <3> QED
      BY <2>3, <3>1, Zenon DEF Moves, Sound
  <2>5. ASSUME x.route # Recovery PROVE OnRoute(y)
    <3>1. /\ Routes[x.route] \in Seq(Nat \ {0}) /\ Len(Routes[x.route]) \in Nat
          /\ x.passed \in 0 .. Len(Routes[x.route]) /\ x.passed < Len(Routes[x.route])
          /\ x.left \in Nat /\ x.progress \in Nat /\ OnRoute(x) /\ x.route \in DOMAIN Routes
      BY <2>5, MockConstants DEF Sound, Moves, OnRoute
    <3>0. x.passed # Len(Routes[x.route])
      BY <3>1
    <3>2. Routes[x.route][x.passed + 1] \in Nat
      BY <3>1
    <3>3. WayTo(x.route, x.passed) \in Nat
      BY <3>1, WayIsNat
    <3>4. /\ Place(x) = WayTo(x.route, x.passed) + (Routes[x.route][x.passed + 1] - x.left)
          /\ Place(y) = WayTo(x.route, x.passed) + (Routes[x.route][x.passed + 1] - (x.left - way))
      BY <2>3, <3>0, Zenon DEF Place
    <3>5. Place(x) \in Int /\ Place(y) = Place(x) + way /\ x.left - way \in Nat
      <4>1. PICK a, b, l, px, py : /\ a = WayTo(x.route, x.passed)
                                   /\ b = Routes[x.route][x.passed + 1] /\ l = x.left
                                   /\ px = Place(x) /\ py = Place(y)
        OBVIOUS
      <4>2. a \in Nat /\ b \in Nat /\ l \in Nat /\ l >= WaypointAt /\ way <= WaypointAt
        BY <1>0, <1>3, <3>1, <3>2, <3>3, <4>1
      <4>3. px = a + (b - l) /\ py = a + (b - (l - way))
        BY <3>4, <4>1, Zenon
      <4>4. px \in Int /\ py = px + way /\ l - way \in Nat
        BY <1>0, <4>2, <4>3, WaypointIs
      <4> QED
        BY <4>1, <4>4
    <3>6. /\ x.progress + way <= Place(y)
          /\ Place(y) - (x.progress + way) <= WaypointAt * x.passed
      <4>1. PICK g, p, px, py : /\ g = x.progress /\ p = WaypointAt * x.passed
                                /\ px = Place(x) /\ py = Place(y)
        OBVIOUS
      <4>2. g \in Nat /\ p \in Nat /\ px \in Int /\ py = px + way
        BY <3>1, <3>5, <4>1, WaypointIs
      <4>3. g <= px /\ px - g <= p
        BY <3>1, <4>1, Zenon DEF OnRoute
      <4>4. g + way <= py /\ py - (g + way) <= p
        BY <1>0, <4>2, <4>3
      <4> QED
        BY <4>1, <4>4, Zenon
    <3> QED
      BY <2>3, <3>1, <3>5, <3>6, Zenon DEF OnRoute
  <2> QED
    BY <1>2, <2>3, <2>4, <2>5 DEF Sound
<1>4. CASE ~(x.left >= WaypointAt)
  <2> DEFINE ahead == IF x.passed + 1 = Len(Routes[x.route]) THEN 0
                      ELSE Routes[x.route][x.passed + 2]
  <2>1. y = [x EXCEPT !.passed = @ + 1, !.left = ahead]
    BY <1>2, <1>4 DEF Advanced
  <2>2. PICK far : far = ahead
    OBVIOUS
  <2> HIDE DEF way, ahead
  <2>3. y = [route |-> a1, passed |-> a2 + 1, left |-> far, progress |-> a4,
             speed |-> a5, target |-> a6, cruise |-> a7]
    BY <1>1, <2>1, <2>2
  <2>4. /\ IsCar(y) /\ y.route = x.route /\ y.passed = x.passed + 1 /\ y.left = far
        /\ y.progress = x.progress
        /\ y.speed = x.speed /\ y.target = x.target /\ y.cruise = x.cruise
    BY <1>1, <2>3 DEF IsCar
  <2>5. Moves(y)
    BY <2>4 DEF Moves, Sound
  <2>6. ASSUME x.route # Recovery PROVE OnRoute(y)
    <3>1. /\ Routes[x.route] \in Seq(Nat \ {0}) /\ Len(Routes[x.route]) \in Nat
          /\ x.passed \in 0 .. Len(Routes[x.route]) /\ x.passed < Len(Routes[x.route])
          /\ x.left \in Nat /\ x.progress \in Nat /\ OnRoute(x) /\ x.route \in DOMAIN Routes
      BY <2>6, MockConstants DEF Sound, Moves, OnRoute
    <3>2. /\ Routes[x.route][x.passed + 1] \in Nat
          /\ x.passed + 1 # Len(Routes[x.route]) => Routes[x.route][x.passed + 2] \in Nat
      <4>1. PICK s, p : s = Routes[x.route] /\ p = x.passed
        OBVIOUS
      <4>2. s \in Seq(Nat \ {0}) /\ p \in Nat /\ p < Len(s)
        BY <3>1, <4>1
      <4>3. s[p + 1] \in Nat /\ (p + 1 # Len(s) => s[p + 2] \in Nat)
        BY <4>2
      <4> QED
        BY <4>1, <4>3
    <3>3. WayTo(x.route, x.passed) \in Nat
      BY <3>1, WayIsNat
    <3>0. x.passed # Len(Routes[x.route]) /\ x.passed \in Nat
      BY <3>1
    <3>4. WayTo(x.route, x.passed + 1) = WayTo(x.route, x.passed) + Routes[x.route][x.passed + 1]
      BY <3>0, WayAdds, Zenon
    <3>5. Place(x) = WayTo(x.route, x.passed) + (Routes[x.route][x.passed + 1] - x.left)
      BY <3>0, Zenon DEF Place
    <3>6. far \in Nat /\ Place(y) = WayTo(x.route, x.passed + 1)
      <4>1. CASE x.passed + 1 = Len(Routes[x.route])
        <5>1. WayTo(x.route, x.passed + 1) \in Nat
          BY <3>1, WayIsNat
        <5>2. Place(y) = WayTo(x.route, x.passed + 1) + 0
          BY <2>4, <4>1, Zenon DEF Place
        <5> QED
          BY <2>2, <4>1, <5>1, <5>2 DEF ahead
      <4>2. CASE x.passed + 1 # Len(Routes[x.route])
        <5>1. WayTo(x.route, x.passed + 1) \in Nat
          BY <3>1, WayIsNat
        <5>2. (x.passed + 1) + 1 = x.passed + 2
          BY <3>1
        <5>3. Place(y) = WayTo(x.route, x.passed + 1) + (Routes[x.route][x.passed + 2] - far)
          BY <2>4, <4>2, <5>2, Zenon DEF Place
        <5>4. far = Routes[x.route][x.passed + 2] /\ far \in Nat
          BY <2>2, <3>2, <4>2 DEF ahead
        <5> QED
          BY <5>1, <5>3, <5>4
      <4> QED
        BY <4>1, <4>2
    <3>7. Place(y) = Place(x) + x.left /\ Place(x) \in Int
      <4>1. PICK a, b, l, px, py : /\ a = WayTo(x.route, x.passed)
                                   /\ b = Routes[x.route][x.passed + 1] /\ l = x.left
                                   /\ px = Place(x) /\ py = Place(y)
        OBVIOUS
      <4>2. a \in Nat /\ b \in Nat /\ l \in Nat
        BY <3>1, <3>2, <3>3, <4>1
      <4>3. px = a + (b - l) /\ py = a + b
        BY <3>4, <3>5, <3>6, <4>1, Zenon
      <4>4. py = px + l /\ px \in Int
        BY <4>2, <4>3
      <4> QED
        BY <4>1, <4>4, Zenon
    <3>8. /\ x.progress <= Place(y) /\ Place(y) - x.progress <= WaypointAt * (x.passed + 1)
      <4>1. PICK g, p, l, px, py : /\ g = x.progress /\ p = WaypointAt * x.passed /\ l = x.left
                                   /\ px = Place(x) /\ py = Place(y)
        OBVIOUS
      <4>2. /\ g \in Nat /\ p \in Nat /\ l \in Nat /\ ~(l >= WaypointAt)
            /\ px \in Int /\ py = px + l
        BY <1>4, <3>0, <3>1, <3>7, <4>1, WaypointIs
      <4>3. g <= px /\ px - g <= p
        BY <3>1, <4>1, Zenon DEF OnRoute
      <4>4. g <= py /\ py - g <= p + WaypointAt
        BY <4>2, <4>3, WaypointIs
      <4>5. WaypointAt * (x.passed + 1) = p + WaypointAt
        BY <3>0, <4>1, WaypointIs, Zenon
      <4> QED
        BY <4>1, <4>4, <4>5
    <3>9. x.passed + 1 \in 0 .. Len(Routes[x.route])
      BY <3>1
    <3> QED
      BY <2>4, <3>1, <3>6, <3>8, <3>9, Zenon DEF OnRoute
  <2> QED
    BY <1>2, <2>4, <2>5, <2>6 DEF Sound
<1> QED
  BY <1>3, <1>4

LEMMA SteppedIsSound ==
  ASSUME NEW x, Sound(x)
  PROVE  Sound(Stepped(x))
<1>1. PICK y : y = Accelerated(x)
  OBVIOUS
<1>2. Sound(y)
  <2>1. x.speed \in 0 .. Top /\ x.target \in 0 .. Top
    BY Zenon DEF Sound, Moves
  <2> DEFINE e == IF x.target >= x.speed THEN x.speed + Lower(x.target - x.speed, Acceleration)
                  ELSE x.speed - Lower(x.speed - x.target, Acceleration)
  <2>2. y = [x EXCEPT !.speed = e]
    BY <1>1 DEF Accelerated
  <2>3. e \in 0 .. Top
    <3>1. PICK v, t : v = x.speed /\ t = x.target
      OBVIOUS
    <3>2. v \in 0 .. Top /\ t \in 0 .. Top
      BY <2>1, <3>1
    <3>3. e = IF t >= v THEN v + Lower(t - v, 50) ELSE v - Lower(v - t, 50)
      BY <3>1, Zenon DEF Acceleration
    <3> HIDE DEF e
    <3> QED
      BY <3>2, <3>3, TopIs DEF Lower
  <2> HIDE DEF e
  <2> QED
    BY <2>2, <2>3, SoundAtSpeed
<1>3. PICK z : z = Lap(y)
  OBVIOUS
<1>4. Sound(z) /\ (z.route # Recovery => z.passed < Len(Routes[z.route]))
  BY <1>2, <1>3, LapIsSound, Zenon
<1>5. Sound(Advanced(z))
  BY <1>4, AdvancedIsSound, Zenon
<1>6. Stepped(x) = y \/ Stepped(x) = Advanced(z)
  BY <1>1, <1>3, Zenon DEF Stepped
<1> QED
  BY <1>2, <1>5, <1>6, Zenon

LEMMA TargetedIsSound ==
  ASSUME NEW fleet, SoundFleet(fleet), NEW c, NEW speed \in 0 .. Top
  PROVE  SoundFleet(Targeted(fleet, c, speed))
<1>1. Targeted(fleet, c, speed) =
          [d \in DOMAIN Fleet |-> IF d = c THEN [fleet[d] EXCEPT !.target = speed] ELSE fleet[d]]
  BY DEF Targeted, SoundFleet
<1>2. PICK g : g = Targeted(fleet, c, speed)
  OBVIOUS
<1>3. g = [d \in DOMAIN Fleet |-> g[d]]
  BY <1>1, <1>2
<1>4. ASSUME NEW d \in DOMAIN Fleet PROVE Sound(g[d])
  <2>1. Sound(fleet[d])
    BY DEF SoundFleet
  <2>2. g[d] = fleet[d] \/ g[d] = [fleet[d] EXCEPT !.target = speed]
    BY <1>1, <1>2
  <2> QED
    BY <2>1, <2>2, SoundAtSpeed
<1> QED
  BY <1>2, <1>3, <1>4, Zenon DEF SoundFleet

LEMMA TurnedRoundIsSound ==
  ASSUME NEW x, Sound(x)
  PROVE  Sound(TurnedRound(x))
<1>1. PICK a1, a2, a3, a4, a5, a6, a7 :
          x = [route |-> a1, passed |-> a2, left |-> a3, progress |-> a4,
               speed |-> a5, target |-> a6, cruise |-> a7]
  BY Zenon DEF IsCar, Sound
<1>2. PICK far : far = WayTo(x.route, x.passed + 1) - x.left - Routes[x.route][1]
  OBVIOUS
<1>3. PICK y : y = TurnedRound(x)
  OBVIOUS
<1>4. y = [x EXCEPT !.route = Recovery, !.passed = 0, !.target = 4000, !.cruise = 4000, !.left = far]
  BY <1>2, <1>3 DEF TurnedRound
<1>5. y = [route |-> Recovery, passed |-> 0, left |-> far, progress |-> a4,
           speed |-> a5, target |-> 4000, cruise |-> 4000]
  <2> DEFINE u == [x EXCEPT !.route = Recovery]
             w == [u EXCEPT !.passed = 0]
             r == [w EXCEPT !.target = 4000]
             v == [r EXCEPT !.cruise = 4000]
  <2>1. y = [v EXCEPT !.left = far]
    BY <1>4
  <2>4. u = [route |-> Recovery, passed |-> a2, left |-> a3, progress |-> a4,
             speed |-> a5, target |-> a6, cruise |-> a7]
    BY <1>1
  <2> HIDE DEF u
  <2>2. w = [route |-> Recovery, passed |-> 0, left |-> a3, progress |-> a4,
             speed |-> a5, target |-> a6, cruise |-> a7]
    BY <2>4
  <2> HIDE DEF w
  <2>5. r = [route |-> Recovery, passed |-> 0, left |-> a3, progress |-> a4,
             speed |-> a5, target |-> 4000, cruise |-> a7]
    BY <2>2
  <2> HIDE DEF r
  <2>3. v = [route |-> Recovery, passed |-> 0, left |-> a3, progress |-> a4,
             speed |-> a5, target |-> 4000, cruise |-> 4000]
    BY <2>5
  <2> HIDE DEF v
  <2> QED
    BY <2>1, <2>3
<1>6. /\ IsCar(y) /\ y.route = Recovery /\ y.progress = x.progress /\ y.speed = x.speed
      /\ y.target = 4000 /\ y.cruise = 4000
  BY <1>1, <1>5 DEF IsCar
<1>7. 4000 \in 0 .. Top /\ Recovery \in DOMAIN Routes
  BY TopIs, MockConstants
<1>8. Moves(y)
  BY <1>6, <1>7 DEF Moves, Sound
<1>9. Sound(y)
  BY <1>6, <1>8 DEF Sound
<1> QED
  BY <1>3, <1>9

LEMMA PhasedIsSound ==
  ASSUME NEW fleet, SoundFleet(fleet)
  PROVE  SoundFleet(Phased(fleet))
<1>1. 0 \in 0 .. Top /\ 5500 \in 0 .. Top /\ 6000 \in 0 .. Top
  BY TopIs
<1>2. SoundFleet(Targeted(Targeted(fleet, Ego, 0), Wrong, 0))
  BY <1>1, TargetedIsSound
<1>3. PICK released : released = Targeted(Targeted(fleet, Ego, 5500), Bus, 6000)
  OBVIOUS
<1>4. SoundFleet(released)
  BY <1>1, <1>3, TargetedIsSound
<1>5. SoundFleet([released EXCEPT ![Wrong] = TurnedRound(@)])
  <2>1. PICK g : g = [released EXCEPT ![Wrong] = TurnedRound(@)]
    OBVIOUS
  <2>2. g = [d \in DOMAIN Fleet |-> IF d = Wrong THEN TurnedRound(released[d]) ELSE released[d]]
    BY <1>4, <2>1 DEF SoundFleet
  <2>3. \A d \in DOMAIN Fleet : Sound(released[d]) /\ Sound(TurnedRound(released[d]))
    BY <1>4, TurnedRoundIsSound DEF SoundFleet
  <2>4. g = [d \in DOMAIN Fleet |-> g[d]] /\ \A d \in DOMAIN Fleet : Sound(g[d])
    BY <2>2, <2>3
  <2> QED
    BY <2>1, <2>4, Zenon DEF SoundFleet
<1>6. \/ Phased(fleet) = Targeted(Targeted(fleet, Ego, 0), Wrong, 0)
      \/ Phased(fleet) = [released EXCEPT ![Wrong] = TurnedRound(@)]
      \/ Phased(fleet) = fleet
  BY <1>3 DEF Phased
<1> QED
  BY <1>2, <1>5, <1>6, Zenon

LEMMA CompliedIsSound ==
  ASSUME NEW fleet, SoundFleet(fleet), NEW movement
  PROVE  SoundFleet(Complied(fleet, movement))
<1>1. PICK g : g = Complied(fleet, movement)
  OBVIOUS
<1>2. DOMAIN fleet = DOMAIN Fleet /\ \A c \in DOMAIN Fleet : Sound(fleet[c])
  BY DEF SoundFleet
<1>3. g = [c \in DOMAIN Fleet |-> g[c]]
  BY <1>1, <1>2 DEF Complied
<1>4. ASSUME NEW c \in DOMAIN Fleet PROVE Sound(g[c])
  <2>1. \/ g[c] = fleet[c] \/ g[c] = [fleet[c] EXCEPT !.target = 0]
        \/ g[c] = [fleet[c] EXCEPT !.target = fleet[c].cruise]
    BY <1>1, <1>2 DEF Complied
  <2>2. 0 \in 0 .. Top /\ fleet[c].cruise \in 0 .. Top
    <3>1. 0 \in 0 .. Top
      BY TopIs
    <3>2. fleet[c].cruise \in 0 .. Top
      BY <1>2 DEF Sound, Moves
    <3> QED
      BY <3>1, <3>2
  <2> QED
    BY <1>2, <2>1, <2>2, SoundAtSpeed
<1> QED
  BY <1>1, <1>3, <1>4, Zenon DEF SoundFleet

LEMMA SpacedIsSound ==
  ASSUME NEW fleet, SoundFleet(fleet)
  PROVE  SoundFleet(Spaced(fleet))
<1>1. PICK g : g = Spaced(fleet)
  OBVIOUS
<1>2. DOMAIN fleet = DOMAIN Fleet /\ \A c \in DOMAIN Fleet : Sound(fleet[c])
  BY DEF SoundFleet
<1>3. g = [c \in DOMAIN Fleet |-> g[c]]
  BY <1>1, <1>2 DEF Spaced
<1>4. ASSUME NEW c \in DOMAIN Fleet PROVE Sound(g[c])
  <2>1. CASE ~TooClose(fleet, c)
    BY <1>1, <1>2, <2>1 DEF Spaced
  <2>2. CASE TooClose(fleet, c)
    <3> DEFINE short == GapNeeded(fleet[c]) - Gap(fleet, c)
               brake == Higher(0, fleet[Leader(fleet, c)].speed - (short * 45) \div 100)
    <3>1. Leader(fleet, c) \in DOMAIN Fleet
      BY <1>2, <2>2 DEF TooClose, Leader, Leaders
    <3>2. PICK v, p, q, s, t : /\ v = fleet[Leader(fleet, c)].speed
                               /\ p = fleet[Leader(fleet, c)].progress /\ q = fleet[c].progress
                               /\ s = fleet[c].speed /\ t = fleet[c].target
      OBVIOUS
    <3>3. /\ v \in 0 .. Top /\ s \in 0 .. Top /\ t \in 0 .. Top /\ p \in Nat /\ q \in Nat
      BY <1>2, <3>1, <3>2, Zenon DEF Sound, Moves
    <3>4. short \in Int
      <4>1. short = Higher(9000, (s * 17) \div 10) - (p - q)
        BY <3>2 DEF GapNeeded, Gap, SafeGap
      <4>2. (s * 17) \div 10 \in Int
        BY <3>3, TopIs
      <4>3. Higher(9000, (s * 17) \div 10) \in Int
        BY <4>2 DEF Higher
      <4> HIDE DEF short
      <4> QED
        BY <3>3, <4>1, <4>3
    <3> HIDE DEF short
    <3>5. (short * 45) \div 100 \in Int
      BY <3>4
    <3>6. PICK b : b = brake
      OBVIOUS
    <3>7. b \in Nat
      BY <3>2, <3>3, <3>5, <3>6 DEF Higher
    <3>8. g[c] = [fleet[c] EXCEPT !.target = Lower(t, b)]
      <4>1. g[c] = [fleet[c] EXCEPT !.target = Lower(@, b)]
        <5>1. g[c] = [fleet[c] EXCEPT !.target = Lower(@, brake)]
          BY <1>1, <1>2, <2>2 DEF Spaced, short
        <5> HIDE DEF brake
        <5> QED
          BY <3>6, <5>1
      <4> QED
        BY <3>2, <4>1
    <3>9. Lower(t, b) \in 0 .. Top
      BY <3>3, <3>7, TopIs DEF Lower
    <3> QED
      BY <1>2, <3>8, <3>9, SoundAtSpeed
  <2> QED
    BY <2>1, <2>2
<1> QED
  BY <1>1, <1>3, <1>4, Zenon DEF SoundFleet

-----------------------------------------------------------------------------
LEMMA MockInitSound == MockInit => SoundFleet(cars)
  BY PlacedIsSound DEF MockInit, SoundFleet

LEMMA MockNextSound == SoundFleet(cars) /\ [MockNext]_mock => SoundFleet(cars)'
<1> SUFFICES ASSUME SoundFleet(cars), [MockNext]_mock PROVE SoundFleet(cars')
  BY Zenon DEF SoundFleet
<1>1. CASE MockTick
  <2>1. PICK fleet : fleet = Spaced(Complied(Phased(cars), light'.movement))
    OBVIOUS
  <2>2. SoundFleet(fleet)
    BY <2>1, PhasedIsSound, CompliedIsSound, SpacedIsSound, Zenon
  <2>3. cars' = [c \in DOMAIN fleet |-> Stepped(fleet[c])]
    BY <1>1, <2>1, Zenon DEF MockTick
  <2>4. DOMAIN fleet = DOMAIN Fleet /\ \A c \in DOMAIN Fleet : Sound(Stepped(fleet[c]))
    BY <2>2, SteppedIsSound DEF SoundFleet
  <2> QED
    BY <2>3, <2>4 DEF SoundFleet
<1>2. CASE MockEnds \/ UNCHANGED mock
  BY <1>2 DEF MockEnds, mock
<1> QED
  BY <1>1, <1>2 DEF MockNext

LEMMA SoundIsPlace == SoundFleet(cars) => ProgressIsPlace
<1> SUFFICES ASSUME SoundFleet(cars), NEW c \in DOMAIN Fleet, cars[c].route # Recovery
             PROVE  /\ cars[c].progress <= Place(cars[c])
                    /\ Place(cars[c]) - cars[c].progress <= WaypointAt * cars[c].passed
  BY Zenon DEF ProgressIsPlace, Place, SoundFleet
<1> QED
  BY Zenon DEF SoundFleet, Sound, OnRoute

\* Headway goes by the place a car is at, lap after lap, whatever the signal
\* and the phases make it do (mock_sim.py, _Actor.step).
THEOREM HeadwayGoesByPlace == MockSpec => []ProgressIsPlace
<1>1. MockSpec => []SoundFleet(cars)
  BY MockInitSound, MockNextSound, PTL DEF MockSpec
<1> QED
  BY <1>1, SoundIsPlace, PTL

-----------------------------------------------------------------------------
\* k is the list of what is kept of the first n entries of s.
Keeping(k, s, n, keep) ==
    k = [i \in 0 .. n |-> IF i = 0 THEN <<>>
                          ELSE IF s[i] \in keep THEN Append(k[i - 1], s[i]) ELSE k[i - 1]]

LEMMA KeepingExists ==
  ASSUME NEW s, NEW keep, NEW n \in Nat
  PROVE  \E k : Keeping(k, s, n, keep)
<1> DEFINE T == {m \in Nat : \E k : Keeping(k, s, m, keep)}
<1>1. 0 \in T
  <2>1. Keeping([i \in 0 .. 0 |-> <<>>], s, 0, keep)
    BY DEF Keeping
  <2> QED
    BY <2>1
<1>2. ASSUME NEW m \in Nat, m \in T PROVE m + 1 \in T
  <2>1. PICK k : Keeping(k, s, m, keep)
    BY <1>2
  <2> DEFINE last == IF s[m + 1] \in keep THEN Append(k[m], s[m + 1]) ELSE k[m]
             h == [i \in 0 .. m + 1 |-> IF i <= m THEN k[i] ELSE last]
  <2>2. h[m + 1] = last /\ \A i \in 0 .. m : h[i] = k[i]
    OBVIOUS
  <2>3. \A i \in 0 .. m : k[i] = IF i = 0 THEN <<>>
                                 ELSE IF s[i] \in keep THEN Append(k[i - 1], s[i]) ELSE k[i - 1]
    BY <2>1 DEF Keeping
  <2>4. h = [i \in 0 .. m + 1 |-> h[i]]
    OBVIOUS
  <2> HIDE DEF h
  <2>5. \A i \in 0 .. m + 1 : h[i] = IF i = 0 THEN <<>>
                                     ELSE IF s[i] \in keep THEN Append(h[i - 1], s[i]) ELSE h[i - 1]
    BY <2>2, <2>3
  <2>6. Keeping(h, s, m + 1, keep)
    BY <2>4, <2>5 DEF Keeping
  <2> QED
    BY <2>6
<1> HIDE DEF T
<1>3. Nat \subseteq T
  BY <1>1, <1>2, SetInduction
<1> QED
  BY <1>3 DEF T

\* What is kept of the first entries depends on these entries only.
LEMMA KeepingAgrees ==
  ASSUME NEW s, NEW keep, NEW n \in Nat, NEW k, Keeping(k, s, n, keep),
         NEW z, NEW save, NEW m \in Nat, NEW h, Keeping(h, z, m, save), n <= m,
         \A i \in 1 .. n : z[i] = s[i] /\ (s[i] \in keep <=> s[i] \in save)
  PROVE  k[n] = h[n]
<1> DEFINE T == {i \in Nat : i <= n => k[i] = h[i]}
<1>1. 0 \in T
  <2>1. 0 \in 0 .. n /\ 0 \in 0 .. m
    OBVIOUS
  <2> QED
    BY <2>1 DEF Keeping
<1>2. ASSUME NEW i \in Nat, i \in T PROVE i + 1 \in T
  <2> SUFFICES ASSUME i + 1 <= n PROVE k[i + 1] = h[i + 1]
    OBVIOUS
  <2>1. k[i] = h[i]
    BY <1>2
  <2>2. /\ i + 1 \in 0 .. n /\ i + 1 \in 0 .. m /\ i + 1 \in 1 .. n
        /\ i + 1 # 0 /\ (i + 1) - 1 = i
    OBVIOUS
  <2>3. /\ k[i + 1] = IF s[i + 1] \in keep THEN Append(k[i], s[i + 1]) ELSE k[i]
        /\ h[i + 1] = IF z[i + 1] \in save THEN Append(h[i], z[i + 1]) ELSE h[i]
    BY <2>2 DEF Keeping
  <2> QED
    BY <2>1, <2>2, <2>3
<1> HIDE DEF T
<1>3. Nat \subseteq T
  BY <1>1, <1>2, SetInduction
<1> QED
  BY <1>3 DEF T

LEMMA KeptIs ==
  ASSUME NEW s, NEW keep, Len(s) \in Nat
  PROVE  \E k : Keeping(k, s, Len(s), keep) /\ Kept(s, keep) = k[Len(s)]
<1> DEFINE k == CHOOSE k : Keeping(k, s, Len(s), keep)
<1>1. Keeping(k, s, Len(s), keep)
  BY KeepingExists
<1>2. Kept(s, keep) = k[Len(s)]
  BY DEF Kept, Keeping
<1> QED
  BY <1>1, <1>2

\* One more entry is kept at the end or not at all.
LEMMA KeptGrows ==
  ASSUME NEW S, NEW s \in Seq(S), NEW e \in S, NEW keep, NEW save,
         \A i \in 1 .. Len(s) : s[i] \in keep <=> s[i] \in save
  PROVE  Kept(Append(s, e), save) = IF e \in save THEN Append(Kept(s, keep), e) ELSE Kept(s, keep)
<1> DEFINE n == Len(s)
           z == Append(s, e)
<1>1. n \in Nat /\ Len(z) = n + 1 /\ z[n + 1] = e /\ \A i \in 1 .. n : z[i] = s[i]
  OBVIOUS
<1>2. PICK k : Keeping(k, s, n, keep) /\ Kept(s, keep) = k[n]
  BY <1>1, KeptIs
<1> HIDE DEF z
<1>3. PICK h : Keeping(h, z, n + 1, save) /\ Kept(z, save) = h[n + 1]
  <2>1. Len(z) \in Nat
    BY <1>1
  <2> QED
    BY <1>1, <2>1, KeptIs
<1> HIDE DEF n
<1>4. h[n + 1] = IF e \in save THEN Append(h[n], e) ELSE h[n]
  <2>1. n + 1 \in 0 .. n + 1 /\ n + 1 # 0 /\ (n + 1) - 1 = n
    BY <1>1
  <2> QED
    BY <1>1, <1>3, <2>1 DEF Keeping
<1>5. k[n] = h[n]
  <2>1. \A i \in 1 .. n : z[i] = s[i] /\ (s[i] \in keep <=> s[i] \in save)
    BY <1>1 DEF n
  <2>2. n + 1 \in Nat /\ n <= n + 1
    BY <1>1
  <2> QED
    BY <1>1, <1>2, <1>3, <2>1, <2>2, KeepingAgrees
<1> QED
  BY <1>2, <1>3, <1>4, <1>5 DEF z

\* What is kept is of the list.
LEMMA KeptType ==
  ASSUME NEW S, NEW s \in Seq(S), NEW keep
  PROVE  /\ Kept(s, keep) \in Seq(S)
         /\ \A i \in 1 .. Len(Kept(s, keep)) :
               Kept(s, keep)[i] \in keep /\ \E j \in 1 .. Len(s) : Kept(s, keep)[i] = s[j]
<1>1. PICK k : Keeping(k, s, Len(s), keep) /\ Kept(s, keep) = k[Len(s)]
  BY KeptIs
<1> DEFINE Good(q) == /\ q \in Seq(S)
                      /\ \A i \in 1 .. Len(q) : q[i] \in keep /\ \E j \in 1 .. Len(s) : q[i] = s[j]
           T == {i \in Nat : i <= Len(s) => Good(k[i])}
<1>2. 0 \in T
  <2>1. k[0] = <<>>
    BY <1>1 DEF Keeping
  <2>2. Good(<<>>)
    OBVIOUS
  <2> HIDE DEF Good
  <2> QED
    BY <2>1, <2>2
<1>3. ASSUME NEW i \in Nat, i \in T PROVE i + 1 \in T
  <2> SUFFICES ASSUME i + 1 <= Len(s) PROVE Good(k[i + 1])
    OBVIOUS
  <2>1. Good(k[i])
    BY <1>3
  <2>2. i + 1 \in 0 .. Len(s) /\ i + 1 \in 1 .. Len(s) /\ i + 1 # 0 /\ (i + 1) - 1 = i
    OBVIOUS
  <2>3. k[i + 1] = IF s[i + 1] \in keep THEN Append(k[i], s[i + 1]) ELSE k[i]
    BY <1>1, <2>2 DEF Keeping
  <2>4. CASE s[i + 1] \notin keep
    BY <2>1, <2>3, <2>4
  <2>5. CASE s[i + 1] \in keep
    <3>1. PICK q, e : q = k[i] /\ e = s[i + 1]
      OBVIOUS
    <3>2. Good(q) /\ e \in S /\ e \in keep /\ \E j \in 1 .. Len(s) : e = s[j]
      BY <2>1, <2>2, <2>5, <3>1
    <3>3. Append(q, e) \in Seq(S) /\ Len(Append(q, e)) = Len(q) + 1
      BY <3>2
    <3>4. \A l \in 1 .. Len(q) + 1 : Append(q, e)[l] = IF l <= Len(q) THEN q[l] ELSE e
      BY <3>2
    <3>5. Good(Append(q, e))
      BY <3>2, <3>3, <3>4
    <3> QED
      BY <2>3, <2>5, <3>1, <3>5
  <2> QED
    BY <2>4, <2>5
<1> HIDE DEF T, Good
<1>4. Nat \subseteq T
  BY <1>2, <1>3, SetInduction
<1>5. Good(k[Len(s)])
  BY <1>4 DEF T
<1> QED
  BY <1>1, <1>5 DEF Good

-----------------------------------------------------------------------------
\* What one effect makes of the worst so far.
OneWorse(effect, worst, actor, position) ==
    IF Concerns(effect.failure, actor) THEN Worsened(position, worst, effect.failure) ELSE worst

\* w is what the first n of the effects s leave of a position.
Worsening(w, s, n, actor, position) ==
    w = [i \in 0 .. n |-> IF i = 0 THEN position ELSE OneWorse(s[i], w[i - 1], actor, position)]

LEMMA WorseningExists ==
  ASSUME NEW s, NEW actor, NEW position, NEW n \in Nat
  PROVE  \E w : Worsening(w, s, n, actor, position)
<1> DEFINE T == {m \in Nat : \E w : Worsening(w, s, m, actor, position)}
<1>1. 0 \in T
  <2>1. Worsening([i \in 0 .. 0 |-> position], s, 0, actor, position)
    BY DEF Worsening
  <2> QED
    BY <2>1
<1>2. ASSUME NEW m \in Nat, m \in T PROVE m + 1 \in T
  <2>1. PICK w : Worsening(w, s, m, actor, position)
    BY <1>2
  <2> DEFINE h == [i \in 0 .. m + 1 |-> IF i <= m THEN w[i] ELSE OneWorse(s[m + 1], w[m], actor, position)]
  <2>2. h[m + 1] = OneWorse(s[m + 1], w[m], actor, position) /\ \A i \in 0 .. m : h[i] = w[i]
    OBVIOUS
  <2>3. \A i \in 0 .. m : w[i] = IF i = 0 THEN position ELSE OneWorse(s[i], w[i - 1], actor, position)
    BY <2>1 DEF Worsening
  <2>4. h = [i \in 0 .. m + 1 |-> h[i]]
    OBVIOUS
  <2> HIDE DEF h
  <2>5. \A i \in 0 .. m + 1 : h[i] = IF i = 0 THEN position ELSE OneWorse(s[i], h[i - 1], actor, position)
    BY <2>2, <2>3
  <2>6. Worsening(h, s, m + 1, actor, position)
    BY <2>4, <2>5 DEF Worsening
  <2> QED
    BY <2>6
<1> HIDE DEF T
<1>3. Nat \subseteq T
  BY <1>1, <1>2, SetInduction
<1> QED
  BY <1>3 DEF T

LEMMA WorseningAgrees ==
  ASSUME NEW s, NEW actor, NEW position, NEW n \in Nat, NEW w, Worsening(w, s, n, actor, position),
         NEW z, NEW m \in Nat, NEW h, Worsening(h, z, m, actor, position), n <= m,
         \A i \in 1 .. n : z[i] = s[i]
  PROVE  w[n] = h[n]
<1> DEFINE T == {i \in Nat : i <= n => w[i] = h[i]}
<1>1. 0 \in T
  <2>1. 0 \in 0 .. n /\ 0 \in 0 .. m
    OBVIOUS
  <2> QED
    BY <2>1 DEF Worsening
<1>2. ASSUME NEW i \in Nat, i \in T PROVE i + 1 \in T
  <2> SUFFICES ASSUME i + 1 <= n PROVE w[i + 1] = h[i + 1]
    OBVIOUS
  <2>1. w[i] = h[i]
    BY <1>2
  <2>2. /\ i + 1 \in 0 .. n /\ i + 1 \in 0 .. m /\ i + 1 \in 1 .. n
        /\ i + 1 # 0 /\ (i + 1) - 1 = i
    OBVIOUS
  <2>3. w[i + 1] = OneWorse(s[i + 1], w[i], actor, position) /\ h[i + 1] = OneWorse(z[i + 1], h[i], actor, position)
    BY <2>2 DEF Worsening
  <2> QED
    BY <2>1, <2>2, <2>3
<1> HIDE DEF T
<1>3. Nat \subseteq T
  BY <1>1, <1>2, SetInduction
<1> QED
  BY <1>3 DEF T

LEMMA WorstIs ==
  ASSUME NEW s, NEW actor, NEW position, Len(s) \in Nat
  PROVE  \E w : Worsening(w, s, Len(s), actor, position) /\ WorstOf(s, actor, position) = w[Len(s)]
<1> DEFINE w == CHOOSE w : Worsening(w, s, Len(s), actor, position)
<1>1. Worsening(w, s, Len(s), actor, position)
  BY WorseningExists
<1>2. WorstOf(s, actor, position) = w[Len(s)]
  BY DEF WorstOf, Worsening, OneWorse
<1> QED
  BY <1>1, <1>2

LEMMA WorstGrows ==
  ASSUME NEW S, NEW s \in Seq(S), NEW e \in S, NEW actor, NEW position
  PROVE  WorstOf(Append(s, e), actor, position) = OneWorse(e, WorstOf(s, actor, position), actor, position)
<1> DEFINE n == Len(s)
           z == Append(s, e)
<1>1. n \in Nat /\ Len(z) = n + 1 /\ z[n + 1] = e /\ \A i \in 1 .. n : z[i] = s[i]
  OBVIOUS
<1>2. PICK w : Worsening(w, s, n, actor, position) /\ WorstOf(s, actor, position) = w[n]
  BY <1>1, WorstIs
<1> HIDE DEF z
<1>3. PICK h : Worsening(h, z, n + 1, actor, position) /\ WorstOf(z, actor, position) = h[n + 1]
  <2>1. Len(z) \in Nat
    BY <1>1
  <2> QED
    BY <1>1, <2>1, WorstIs
<1> HIDE DEF n
<1>4. h[n + 1] = OneWorse(e, h[n], actor, position)
  <2>1. n + 1 \in 0 .. n + 1 /\ n + 1 # 0 /\ (n + 1) - 1 = n
    BY <1>1
  <2> QED
    BY <1>1, <1>3, <2>1 DEF Worsening
<1>5. w[n] = h[n]
  <2>2. n + 1 \in Nat /\ n <= n + 1
    BY <1>1
  <2> QED
    BY <1>1, <1>2, <1>3, <2>2, WorseningAgrees
<1> QED
  BY <1>2, <1>3, <1>4, <1>5 DEF z


-----------------------------------------------------------------------------
OneFoggier(effect, worst) ==
    IF worst = NoWeather \/ effect.failure.amount < worst.visibility
    THEN [visibility |-> effect.failure.amount, precipitation |-> effect.failure.about]
    ELSE worst

\* w is what the first n of the effects s make of the weather.
Fogging(w, s, n) ==
    w = [i \in 0 .. n |-> IF i = 0 THEN NoWeather ELSE OneFoggier(s[i], w[i - 1])]

LEMMA FoggingExists ==
  ASSUME NEW s, NEW n \in Nat
  PROVE  \E w : Fogging(w, s, n)
<1> DEFINE T == {m \in Nat : \E w : Fogging(w, s, m)}
<1>1. 0 \in T
  <2>1. Fogging([i \in 0 .. 0 |-> NoWeather], s, 0)
    BY DEF Fogging
  <2> QED
    BY <2>1
<1>2. ASSUME NEW m \in Nat, m \in T PROVE m + 1 \in T
  <2>1. PICK w : Fogging(w, s, m)
    BY <1>2
  <2> DEFINE h == [i \in 0 .. m + 1 |-> IF i <= m THEN w[i] ELSE OneFoggier(s[m + 1], w[m])]
  <2>2. h[m + 1] = OneFoggier(s[m + 1], w[m]) /\ \A i \in 0 .. m : h[i] = w[i]
    OBVIOUS
  <2>3. \A i \in 0 .. m : w[i] = IF i = 0 THEN NoWeather ELSE OneFoggier(s[i], w[i - 1])
    BY <2>1 DEF Fogging
  <2>4. h = [i \in 0 .. m + 1 |-> h[i]]
    OBVIOUS
  <2> HIDE DEF h
  <2>5. \A i \in 0 .. m + 1 : h[i] = IF i = 0 THEN NoWeather ELSE OneFoggier(s[i], h[i - 1])
    BY <2>2, <2>3
  <2>6. Fogging(h, s, m + 1)
    BY <2>4, <2>5 DEF Fogging
  <2> QED
    BY <2>6
<1> HIDE DEF T
<1>3. Nat \subseteq T
  BY <1>1, <1>2, SetInduction
<1> QED
  BY <1>3 DEF T

LEMMA FoggingAgrees ==
  ASSUME NEW s, NEW n \in Nat, NEW w, Fogging(w, s, n),
         NEW z, NEW m \in Nat, NEW h, Fogging(h, z, m), n <= m,
         \A i \in 1 .. n : z[i] = s[i]
  PROVE  w[n] = h[n]
<1> DEFINE T == {i \in Nat : i <= n => w[i] = h[i]}
<1>1. 0 \in T
  <2>1. 0 \in 0 .. n /\ 0 \in 0 .. m
    OBVIOUS
  <2> QED
    BY <2>1 DEF Fogging
<1>2. ASSUME NEW i \in Nat, i \in T PROVE i + 1 \in T
  <2> SUFFICES ASSUME i + 1 <= n PROVE w[i + 1] = h[i + 1]
    OBVIOUS
  <2>1. w[i] = h[i]
    BY <1>2
  <2>2. /\ i + 1 \in 0 .. n /\ i + 1 \in 0 .. m /\ i + 1 \in 1 .. n
        /\ i + 1 # 0 /\ (i + 1) - 1 = i
    OBVIOUS
  <2>3. w[i + 1] = OneFoggier(s[i + 1], w[i]) /\ h[i + 1] = OneFoggier(z[i + 1], h[i])
    BY <2>2 DEF Fogging
  <2> QED
    BY <2>1, <2>2, <2>3
<1> HIDE DEF T
<1>3. Nat \subseteq T
  BY <1>1, <1>2, SetInduction
<1> QED
  BY <1>3 DEF T

LEMMA WeatherIs ==
  ASSUME NEW s, Len(s) \in Nat
  PROVE  \E w : Fogging(w, s, Len(s)) /\ WeatherOf(s) = w[Len(s)]
<1> DEFINE w == CHOOSE w : Fogging(w, s, Len(s))
<1>1. Fogging(w, s, Len(s))
  BY FoggingExists
<1>2. WeatherOf(s) = w[Len(s)]
  BY DEF WeatherOf, Fogging, OneFoggier
<1> QED
  BY <1>1, <1>2

LEMMA WeatherGrows ==
  ASSUME NEW S, NEW s \in Seq(S), NEW e \in S
  PROVE  WeatherOf(Append(s, e)) = OneFoggier(e, WeatherOf(s))
<1> DEFINE n == Len(s)
           z == Append(s, e)
<1>1. n \in Nat /\ Len(z) = n + 1 /\ z[n + 1] = e /\ \A i \in 1 .. n : z[i] = s[i]
  OBVIOUS
<1>2. PICK w : Fogging(w, s, n) /\ WeatherOf(s) = w[n]
  BY <1>1, WeatherIs
<1> HIDE DEF z
<1>3. PICK h : Fogging(h, z, n + 1) /\ WeatherOf(z) = h[n + 1]
  <2>1. Len(z) \in Nat
    BY <1>1
  <2> QED
    BY <1>1, <2>1, WeatherIs
<1> HIDE DEF n
<1>4. h[n + 1] = OneFoggier(e, h[n])
  <2>1. n + 1 \in 0 .. n + 1 /\ n + 1 # 0 /\ (n + 1) - 1 = n
    BY <1>1
  <2> QED
    BY <1>1, <1>3, <2>1 DEF Fogging
<1>5. w[n] = h[n]
  <2>2. n + 1 \in Nat /\ n <= n + 1
    BY <1>1
  <2> QED
    BY <1>1, <1>2, <1>3, <2>2, FoggingAgrees
<1> QED
  BY <1>2, <1>3, <1>4, <1>5 DEF z

-----------------------------------------------------------------------------
Rates(x) == x.uncertainty \in Int /\ x.confidence \in Int

LEMMA PairMin ==
  ASSUME NEW a \in Int, NEW b \in Int
  PROVE  /\ Min({a, b}) \in Int /\ Min({a, b}) <= a /\ Min({a, b}) <= b
         /\ Max({a, b}) \in Int
<1>1. Min({a, b}) = IF a <= b THEN a ELSE b
  BY DEF Min
<1>2. Max({a, b}) = IF a >= b THEN a ELSE b
  BY DEF Max
<1> QED
  BY <1>1, <1>2

\* One effect more and a position is no more certain and no more trusted.
LEMMA WorsenedIsWorse ==
  ASSUME NEW position, Rates(position), NEW worst, Rates(worst), NEW f, f.amount \in Nat
  PROVE  /\ Rates(Worsened(position, worst, f))
         /\ Worsened(position, worst, f).uncertainty >= worst.uncertainty
         /\ Worsened(position, worst, f).confidence <= worst.confidence
<1>1. CASE f.amount <= worst.uncertainty
  BY <1>1 DEF Worsened, Rates
<1>2. CASE ~(f.amount <= worst.uncertainty)
  <2>1. Penalised(position.confidence, f.amount) \in Int
    <3>1. Min({100, f.amount}) \in Int
      BY PairMin
    <3>2. position.confidence - Min({100, f.amount}) \in Int
      BY <3>1 DEF Rates
    <3>3. PICK v : v = position.confidence - Min({100, f.amount})
      OBVIOUS
    <3>5. v \in Int /\ 0 \in Int
      BY <3>2, <3>3
    <3>4. Max({0, v}) \in Int
      BY <3>5, PairMin
    <3> QED
      BY <3>3, <3>4 DEF Penalised
  <2>2. PICK p : p = Penalised(position.confidence, f.amount)
    OBVIOUS
  <2>3. PICK c : c = Min({worst.confidence, p})
    OBVIOUS
  <2>4. c \in Int /\ c <= worst.confidence
    BY <2>1, <2>2, <2>3, PairMin DEF Rates
  <2>5. Worsened(position, worst, f) = [uncertainty |-> f.amount, confidence |-> c]
    BY <1>2, <2>2, <2>3 DEF Worsened
  <2> QED
    BY <1>2, <2>4, <2>5 DEF Rates
<1> QED
  BY <1>1, <1>2

\* What an entry of the schedule is.
Entry == [failure : Failure, start : Nat, by : ScenarioRun]

LEMMA EntryAmount == \A e \in Entry : e.failure \in Failure /\ e.failure.amount \in Nat
  BY FailureAssumption DEF Entry

LEMMA OneWorseIsWorse ==
  ASSUME NEW e \in Entry, NEW actor, NEW position, Rates(position), NEW worst, Rates(worst)
  PROVE  /\ Rates(OneWorse(e, worst, actor, position))
         /\ OneWorse(e, worst, actor, position).uncertainty >= worst.uncertainty
         /\ OneWorse(e, worst, actor, position).confidence <= worst.confidence
<1>1. e.failure.amount \in Nat
  BY EntryAmount
<1>2. CASE ~Concerns(e.failure, actor)
  BY <1>2 DEF OneWorse, Rates
<1>3. CASE Concerns(e.failure, actor)
  <2>1. OneWorse(e, worst, actor, position) = Worsened(position, worst, e.failure)
    BY <1>3 DEF OneWorse
  <2> QED
    BY <1>1, <2>1, WorsenedIsWorse
<1> QED
  BY <1>2, <1>3

LEMMA WorstRates ==
  ASSUME NEW s \in Seq(Entry), NEW actor, NEW position, Rates(position)
  PROVE  Rates(WorstOf(s, actor, position))
<1>1. PICK w : Worsening(w, s, Len(s), actor, position) /\ WorstOf(s, actor, position) = w[Len(s)]
  BY WorstIs
<1> DEFINE T == {i \in Nat : i <= Len(s) => Rates(w[i])}
<1>2. 0 \in T
  BY <1>1 DEF Worsening
<1>3. ASSUME NEW i \in Nat, i \in T PROVE i + 1 \in T
  <2> SUFFICES ASSUME i + 1 <= Len(s) PROVE Rates(w[i + 1])
    OBVIOUS
  <2>1. i + 1 \in 0 .. Len(s) /\ i + 1 # 0 /\ (i + 1) - 1 = i /\ s[i + 1] \in Entry
    OBVIOUS
  <2>2. w[i + 1] = OneWorse(s[i + 1], w[i], actor, position)
    BY <1>1, <2>1 DEF Worsening
  <2>3. Rates(w[i])
    BY <1>3
  <2> QED
    BY <2>1, <2>2, <2>3, OneWorseIsWorse
<1> HIDE DEF T
<1>4. Nat \subseteq T
  BY <1>2, <1>3, SetInduction
<1> QED
  BY <1>1, <1>4 DEF T

Sees(x) == x = NoWeather \/ x.visibility \in Nat

LEMMA OneFoggierSees ==
  ASSUME NEW e \in Entry, NEW worst, Sees(worst)
  PROVE  /\ Sees(OneFoggier(e, worst))
         /\ worst # NoWeather => OneFoggier(e, worst).visibility \in 0 .. worst.visibility
<1>1. e.failure.amount \in Nat
  BY EntryAmount
<1> QED
  BY <1>1 DEF OneFoggier, Sees

LEMMA WeatherSees ==
  ASSUME NEW s \in Seq(Entry)
  PROVE  Sees(WeatherOf(s))
<1>1. PICK w : Fogging(w, s, Len(s)) /\ WeatherOf(s) = w[Len(s)]
  BY WeatherIs
<1> DEFINE T == {i \in Nat : i <= Len(s) => Sees(w[i])}
<1>2. 0 \in T
  BY <1>1 DEF Fogging, Sees
<1>3. ASSUME NEW i \in Nat, i \in T PROVE i + 1 \in T
  <2> SUFFICES ASSUME i + 1 <= Len(s) PROVE Sees(w[i + 1])
    OBVIOUS
  <2>1. i + 1 \in 0 .. Len(s) /\ i + 1 # 0 /\ (i + 1) - 1 = i /\ s[i + 1] \in Entry
    OBVIOUS
  <2>2. w[i + 1] = OneFoggier(s[i + 1], w[i])
    BY <1>1, <2>1 DEF Fogging
  <2>3. Sees(w[i])
    BY <1>3
  <2> QED
    BY <2>1, <2>2, <2>3, OneFoggierSees
<1> HIDE DEF T
<1>4. Nat \subseteq T
  BY <1>2, <1>3, SetInduction
<1> QED
  BY <1>1, <1>4 DEF T

-----------------------------------------------------------------------------
FailuresType == schedule \in Seq(Entry) /\ simTime \in [ScenarioRun -> Nat]

\* As long as the injections under way do not overlap there is one at the most,
\* and what it is going to save is what the file says and an entry more.
Injecting ==
    /\ injecting \subseteq [id : Nat, run : ScenarioRun, at : {"load", "empty", "save"},
                             got : Seq(Entry)]
    /\ ~overlapped => \A q, p \in injecting : q = p
    /\ ~overlapped => \A q \in injecting :
           q.at # "load" => \E e \in Entry : q.got = Append(schedule, e)

FailuresInv == FailuresType /\ asked \in Nat /\ Injecting

LEMMA FailuresInitInv == FailuresInit => FailuresInv
  BY DEF FailuresInit, FailuresInv, FailuresType, Injecting

\* A request under way that moves on is still one of its kind.
LEMMA InjectionMoves ==
  ASSUME FailuresInv, NEW q \in injecting, NEW stage \in {"load", "empty", "save"},
         NEW text \in Seq(Entry),
         Becoming(q, [q EXCEPT !.at = stage, !.got = text]),
         stage # "load" => overlapped \/ \E e \in Entry : text = Append(schedule, e),
         overlapped' = overlapped, schedule' = schedule
  PROVE  Injecting'
<1> DEFINE next == [q EXCEPT !.at = stage, !.got = text]
<1>1. /\ next \in [id : Nat, run : ScenarioRun, at : {"load", "empty", "save"}, got : Seq(Entry)]
      /\ next.at = stage /\ next.got = text
  BY DEF FailuresInv, Injecting
<1>2. injecting' = (injecting \ {q}) \cup {next}
  BY DEF Becoming
<1> HIDE DEF next
<1>3. ~overlapped => injecting' = {next}
  BY <1>2 DEF FailuresInv, Injecting
<1> QED
  BY <1>1, <1>2, <1>3 DEF FailuresInv, Injecting

\* The steps keep the types, and as long as injections do not overlap the only
\* change of the schedule is one entry more, at a time that stands.
LEMMA OneMore ==
  ASSUME FailuresInv, [FailuresNext]_failures
  PROVE  /\ FailuresInv'
         /\ schedule' # schedule /\ ~overlapped' =>
               simTime' = simTime /\ \E e \in Entry : schedule' = Append(schedule, e)
<1> DEFINE Stands == schedule' = schedule /\ FailuresType' /\ asked' \in Nat /\ Injecting'
<1>1. ASSUME NEW run \in ScenarioRun, AskInjection(run) PROVE Stands
  <2> DEFINE q == [id |-> asked + 1, run |-> run, at |-> "load", got |-> <<>>]
  <2>1. q \in [id : Nat, run : ScenarioRun, at : {"load", "empty", "save"}, got : Seq(Entry)]
    BY DEF FailuresInv
  <2>2. /\ injecting' = injecting \cup {q} /\ q.at = "load"
        /\ overlapped' = (injecting # {}) /\ schedule' = schedule
    BY <1>1 DEF AskInjection
  <2>3. FailuresType' /\ asked' \in Nat
    BY <1>1 DEF AskInjection, FailuresInv, FailuresType
  <2> HIDE DEF q
  <2>4. ~overlapped' => injecting' = {q}
    BY <2>2
  <2>5. Injecting'
    BY <2>1, <2>2, <2>4 DEF FailuresInv, Injecting
  <2> QED
    BY <2>2, <2>3, <2>5
<1>2. ASSUME NEW q \in injecting, NEW f \in Failure, LoadSchedule(q, f) PROVE Stands
  <2>1. /\ schedule' = schedule /\ overlapped' = overlapped
        /\ FailuresType' /\ asked' \in Nat
    BY <1>2 DEF LoadSchedule, FailuresInv, FailuresType
  <2>2. CASE scheduleFile = "whole"
    <3>1. PICK start \in StartTimes(q.run) :
            Becoming(q, [q EXCEPT !.at = "empty",
                !.got = Append(schedule, [failure |-> f, start |-> start, by |-> q.run])])
      BY <1>2, <2>2 DEF LoadSchedule
    <3> DEFINE e == [failure |-> f, start |-> start, by |-> q.run]
    <3>2. q.run \in ScenarioRun
      BY DEF FailuresInv, Injecting
    <3>3. start \in Nat
      BY <3>1, <3>2 DEF StartTimes, FailuresInv, FailuresType
    <3>4. e \in Entry
      BY <3>2, <3>3 DEF Entry
    <3> HIDE DEF e
    <3>5. Append(schedule, e) \in Seq(Entry)
      BY <3>4 DEF FailuresInv, FailuresType
    <3>6. Becoming(q, [q EXCEPT !.at = "empty", !.got = Append(schedule, e)])
      BY <3>1 DEF e
    <3>7. Injecting'
      BY <2>1, <3>4, <3>5, <3>6, InjectionMoves
    <3> QED
      BY <2>1, <3>7
  <2>3. CASE scheduleFile # "whole"
    <3>1. injecting' = injecting \ {q}
      BY <1>2, <2>3 DEF LoadSchedule
    <3> QED
      BY <2>1, <3>1 DEF FailuresInv, Injecting
  <2> QED
    BY <2>2, <2>3
<1>3. ASSUME NEW q \in injecting, EmptySchedule(q) PROVE Stands
  <2>1. /\ schedule' = schedule /\ overlapped' = overlapped
        /\ FailuresType' /\ asked' \in Nat
    BY <1>3 DEF EmptySchedule, FailuresInv, FailuresType
  <2>2. /\ q.got \in Seq(Entry)
        /\ overlapped \/ \E e \in Entry : q.got = Append(schedule, e)
        /\ [q EXCEPT !.at = "save"] = [q EXCEPT !.at = "save", !.got = q.got]
    BY <1>3 DEF EmptySchedule, FailuresInv, Injecting
  <2>3. Becoming(q, [q EXCEPT !.at = "save", !.got = q.got])
    BY <1>3, <2>2 DEF EmptySchedule
  <2>4. Injecting'
    BY <2>1, <2>2, <2>3, InjectionMoves
  <2> QED
    BY <2>1, <2>4
<1>4. ASSUME NEW q \in injecting, SaveSchedule(q)
      PROVE  /\ FailuresInv' /\ simTime' = simTime
             /\ schedule' # schedule /\ ~overlapped' =>
                   \E e \in Entry : schedule' = Append(schedule, e)
  <2>1. /\ injecting' = injecting \ {q} /\ overlapped' = overlapped
        /\ simTime' = simTime /\ asked' = asked
        /\ schedule' = q.got \/ schedule' = schedule
        /\ q.at = "save"
    BY <1>4 DEF SaveSchedule
  <2>2. /\ q.got \in Seq(Entry)
        /\ ~overlapped => \E e \in Entry : q.got = Append(schedule, e)
    BY <2>1 DEF FailuresInv, Injecting
  <2>3. ~overlapped => injecting' = {}
    BY <2>1 DEF FailuresInv, Injecting
  <2>4. FailuresType'
    BY <2>1, <2>2 DEF FailuresInv, FailuresType
  <2>5. Injecting'
    BY <2>1, <2>3 DEF FailuresInv, Injecting
  <2> QED
    BY <2>1, <2>2, <2>4, <2>5 DEF FailuresInv
<1>5. ASSUME NEW run \in ScenarioRun, Advance(run) \/ EndRun(run) PROVE Stands
  <2>1. UNCHANGED <<schedule, injecting, asked, overlapped>>
    BY <1>5 DEF Advance, EndRun
  <2>2. simTime' \in [ScenarioRun -> Nat]
    BY <1>5 DEF Advance, EndRun, FailuresInv, FailuresType
  <2> QED
    BY <2>1, <2>2 DEF FailuresInv, FailuresType, Injecting
<1>6. CASE UNCHANGED failures
  BY <1>6 DEF failures, FailuresInv, FailuresType, Injecting
<1> QED
  BY <1>1, <1>2, <1>3, <1>4, <1>5, <1>6 DEF FailuresNext, FailuresInv

LEMMA KeptSame ==
  ASSUME NEW S, NEW s \in Seq(S), NEW keep, NEW save,
         \A i \in 1 .. Len(s) : s[i] \in keep <=> s[i] \in save
  PROVE  Kept(s, save) = Kept(s, keep)
<1>1. PICK k : Keeping(k, s, Len(s), keep) /\ Kept(s, keep) = k[Len(s)]
  BY KeptIs
<1>2. PICK h : Keeping(h, s, Len(s), save) /\ Kept(s, save) = h[Len(s)]
  BY KeptIs
<1>3. k[Len(s)] = h[Len(s)]
  <2>1. Len(s) \in Nat /\ Len(s) <= Len(s)
    OBVIOUS
  <2> QED
    BY <1>1, <1>2, <2>1, KeepingAgrees
<1> QED
  BY <1>1, <1>2, <1>3

\* Of what is active, and of each type of it, there is at the most one entry
\* more, at the end.
LEMMA ActiveGrows ==
  ASSUME FailuresType, NEW e \in Entry, schedule' = Append(schedule, e), NEW t
  PROVE  /\ ActiveAt(t) \in Seq(Entry)
         /\ \A i \in 1 .. Len(ActiveAt(t)) : ActiveAt(t)[i] \in ToSet(schedule)
         /\ LET next == Kept(schedule', {entry \in ToSet(schedule') : Begun(entry, t) /\ ~Over(entry, t)})
            IN  next = ActiveAt(t) \/ next = Append(ActiveAt(t), e)
<1> DEFINE keep == {entry \in ToSet(schedule) : Begun(entry, t) /\ ~Over(entry, t)}
           save == {entry \in ToSet(schedule') : Begun(entry, t) /\ ~Over(entry, t)}
<1>1. schedule \in Seq(Entry)
  BY DEF FailuresType
<1>2. \A i \in 1 .. Len(schedule) : schedule[i] \in ToSet(schedule) /\ schedule[i] \in ToSet(schedule')
  <2>1. \A i \in 1 .. Len(schedule) : i \in DOMAIN schedule' /\ schedule'[i] = schedule[i]
    BY <1>1
  <2> QED
    BY <1>1, <2>1 DEF ToSet
<1>3. \A i \in 1 .. Len(schedule) : schedule[i] \in keep <=> schedule[i] \in save
  BY <1>2
<1>4. ActiveAt(t) = Kept(schedule, keep)
  BY DEF ActiveAt
<1> HIDE DEF keep, save
<1>5. Kept(Append(schedule, e), save) =
          IF e \in save THEN Append(Kept(schedule, keep), e) ELSE Kept(schedule, keep)
  BY <1>1, <1>3, KeptGrows
<1>6. /\ Kept(schedule, keep) \in Seq(Entry)
      /\ \A i \in 1 .. Len(Kept(schedule, keep)) : Kept(schedule, keep)[i] \in keep
  BY <1>1, KeptType
<1>7. \A i \in 1 .. Len(Kept(schedule, keep)) : Kept(schedule, keep)[i] \in ToSet(schedule)
  BY <1>6 DEF keep
<1> QED
  BY <1>4, <1>5, <1>6, <1>7 DEF save

LEMMA TypesGrow ==
  ASSUME FailuresType, NEW e \in Entry, schedule' = Append(schedule, e), NEW t, NEW types
  PROVE  /\ OfTypes(t, types) \in Seq(Entry)
         /\ OfTypes(t, types)' = OfTypes(t, types) \/ OfTypes(t, types)' = Append(OfTypes(t, types), e)
<1> DEFINE keep == {entry \in ToSet(schedule) : entry.failure.type \in types}
           save == {entry \in ToSet(schedule') : entry.failure.type \in types}
           next == Kept(schedule', {entry \in ToSet(schedule') : Begun(entry, t) /\ ~Over(entry, t)})
<1>1. schedule \in Seq(Entry)
  BY DEF FailuresType
<1>2. PICK active : active = ActiveAt(t)
  OBVIOUS
<1>3. PICK after : after = next
  OBVIOUS
<1>4. /\ active \in Seq(Entry)
      /\ \A i \in 1 .. Len(active) : active[i] \in ToSet(schedule)
      /\ after = active \/ after = Append(active, e)
  BY <1>2, <1>3, ActiveGrows
<1>5. OfTypes(t, types) = Kept(active, keep)
  BY <1>2 DEF OfTypes
<1>6. OfTypes(t, types)' = Kept(after, save)
  BY <1>3 DEF OfTypes, ActiveAt
<1>7. ToSet(schedule) \subseteq ToSet(schedule')
  <2>1. \A i \in 1 .. Len(schedule) : i \in DOMAIN schedule' /\ schedule'[i] = schedule[i]
    BY <1>1
  <2> QED
    BY <1>1, <2>1 DEF ToSet
<1>8. \A i \in 1 .. Len(active) : active[i] \in keep <=> active[i] \in save
  BY <1>4, <1>7
<1> HIDE DEF keep, save, next
<1>9. Kept(active, keep) \in Seq(Entry)
  BY <1>4, KeptType
<1>10. CASE after = active
  BY <1>4, <1>5, <1>6, <1>8, <1>9, <1>10, KeptSame
<1>11. CASE after = Append(active, e)
  <2>1. Kept(Append(active, e), save) =
            IF e \in save THEN Append(Kept(active, keep), e) ELSE Kept(active, keep)
    BY <1>4, <1>8, KeptGrows
  <2> QED
    BY <1>5, <1>6, <1>9, <1>11, <2>1
<1> QED
  BY <1>4, <1>10, <1>11

-----------------------------------------------------------------------------
\* A list that grows at the end, and what is made of its members.
LEMMA LongerIsPrefix ==
  ASSUME NEW S, NEW s \in Seq(S), NEW e \in S, NEW z, z = s \/ z = Append(s, e)
  PROVE  IsPrefix(s, z)
<1>1. Len(s) <= Len(z) /\ \A i \in 1 .. Len(s) : z[i] = s[i]
  OBVIOUS
<1>2. Len(s) \in Nat /\ Len(z) \in Nat
  OBVIOUS
<1>3. SubSeq(s, 1, Len(s)) = SubSeq(z, 1, Len(s))
  <2>1. z \in Seq(S)
    OBVIOUS
  <2>2. SubSeq(s, 1, Len(s)) = s
    OBVIOUS
  <2>3. SubSeq(z, 1, Len(s)) = s
    BY <1>1, <1>2, <2>1
  <2> QED
    BY <2>2, <2>3
<1> QED
  BY <1>1, <1>3 DEF IsPrefix

LEMMA CommandsGrow ==
  ASSUME NEW s \in Seq(Entry), NEW e \in Entry, NEW z, z = s \/ z = Append(s, e)
  PROVE  IsPrefix([i \in DOMAIN s |-> RoadCommand(s[i].failure)],
                  [i \in DOMAIN z |-> RoadCommand(z[i].failure)])
<1> DEFINE S == {RoadCommand(f) : f \in Failure}
           c == [i \in DOMAIN s |-> RoadCommand(s[i].failure)]
           d == [i \in DOMAIN z |-> RoadCommand(z[i].failure)]
           x == RoadCommand(e.failure)
<1>1. e.failure \in Failure /\ \A i \in 1 .. Len(s) : s[i].failure \in Failure
  BY EntryAmount
<1>2. c \in Seq(S) /\ Len(c) = Len(s)
  <2>1. c \in [1 .. Len(s) -> S]
    BY <1>1
  <2> QED
    BY <2>1
<1>3. x \in S
  BY <1>1
<1>4. z = s => d = c
  OBVIOUS
<1>5. z = Append(s, e) => d = Append(c, x)
  <2> SUFFICES ASSUME z = Append(s, e) PROVE d = Append(c, x)
    OBVIOUS
  <2>1. DOMAIN z = 1 .. Len(s) + 1 /\ z[Len(s) + 1] = e /\ \A i \in 1 .. Len(s) : z[i] = s[i]
    OBVIOUS
  <2>2. Append(c, x) = [i \in 1 .. Len(s) + 1 |-> IF i <= Len(s) THEN c[i] ELSE x]
    BY <1>2
  <2>3. d = [i \in 1 .. Len(s) + 1 |-> IF i <= Len(s) THEN c[i] ELSE x]
    BY <2>1
  <2> QED
    BY <2>2, <2>3
<1> HIDE DEF S, c, d, x
<1>6. d = c \/ d = Append(c, x)
  BY <1>4, <1>5
<1>7. IsPrefix(c, d)
  BY <1>2, <1>3, <1>6, LongerIsPrefix
<1> QED
  BY <1>7 DEF c, d

\* One failure more, in a list or not, and nothing of the view is better.
LEMMA OneMoreWorsens ==
  ASSUME FailuresType, NEW e \in Entry, schedule' = Append(schedule, e), NEW t
  PROVE  /\ \A actor \in Actor, position \in Reported :
               NoBetter(Degraded(t, actor, position)', Degraded(t, actor, position))
         /\ OfflineServices(t) \subseteq OfflineServices(t)'
         /\ \A rsu \in Units : RsuOperational(t, rsu)' => RsuOperational(t, rsu)
         /\ IsPrefix(RoadEvents(t), RoadEvents(t)')
         /\ IsPrefix(InjectedActors(t), InjectedActors(t)')
         /\ Weather(t) # NoWeather => Weather(t)'.visibility \in 0 .. Weather(t).visibility
<1>1. ASSUME NEW actor \in Actor, NEW position \in Reported
      PROVE  NoBetter(Degraded(t, actor, position)', Degraded(t, actor, position))
  <2>1. PICK s : s = OfTypes(t, {"gps_degradation"})
    OBVIOUS
  <2>2. PICK z : z = OfTypes(t, {"gps_degradation"})'
    OBVIOUS
  <2>3. s \in Seq(Entry) /\ (z = s \/ z = Append(s, e))
    BY <2>1, <2>2, TypesGrow
  <2>4. Rates(position)
    BY FailureAssumption DEF Rates
  <2>5. PICK d : d = WorstOf(s, actor, position)
    OBVIOUS
  <2>6. Rates(d)
    BY <2>3, <2>4, <2>5, WorstRates
  <2>7. WorstOf(z, actor, position) = d \/ WorstOf(z, actor, position) = OneWorse(e, d, actor, position)
    <3>1. WorstOf(Append(s, e), actor, position) = OneWorse(e, WorstOf(s, actor, position), actor, position)
      BY <2>3, WorstGrows
    <3> QED
      BY <2>3, <2>5, <3>1
  <2>8. PICK b : b = WorstOf(z, actor, position)
    OBVIOUS
  <2>9. b.uncertainty >= d.uncertainty /\ b.confidence <= d.confidence
    <3>1. CASE b = d
      BY <2>6, <3>1 DEF Rates
    <3>2. CASE b = OneWorse(e, d, actor, position)
      BY <2>4, <2>6, <3>2, OneWorseIsWorse
    <3> QED
      BY <2>7, <2>8, <3>1, <3>2
  <2>10. Degraded(t, actor, position) = d
    BY <2>1, <2>5 DEF Degraded
  <2>11. Degraded(t, actor, position)' = b
    BY <2>2, <2>8 DEF Degraded
  <2> QED
    BY <2>9, <2>10, <2>11 DEF NoBetter
<1>2. ASSUME NEW type PROVE About(t, type) \subseteq About(t, type)'
  <2>1. PICK s : s = OfTypes(t, {type})
    OBVIOUS
  <2>2. PICK z : z = OfTypes(t, {type})'
    OBVIOUS
  <2>3. s \in Seq(Entry) /\ (z = s \/ z = Append(s, e))
    BY <2>1, <2>2, TypesGrow
  <2>4. ToSet(s) \subseteq ToSet(z)
    <3>1. \A i \in 1 .. Len(s) : i \in DOMAIN z /\ z[i] = s[i]
      BY <2>3
    <3> QED
      BY <2>3, <3>1 DEF ToSet
  <2>5. About(t, type) = {entry.failure.about : entry \in ToSet(s)}
    BY <2>1 DEF About
  <2>6. About(t, type)' = {entry.failure.about : entry \in ToSet(z)}
    BY <2>2 DEF About
  <2> QED
    BY <2>4, <2>5, <2>6
<1>3. OfflineServices(t) \subseteq OfflineServices(t)'
  BY <1>2 DEF OfflineServices
<1>4. \A rsu \in Units : RsuOperational(t, rsu)' => RsuOperational(t, rsu)
  BY <1>2 DEF RsuOperational
<1>5. IsPrefix(RoadEvents(t), RoadEvents(t)')
  <2>1. PICK s : s = OfTypes(t, {"road_closure", "road_narrowing"})
    OBVIOUS
  <2>2. PICK z : z = OfTypes(t, {"road_closure", "road_narrowing"})'
    OBVIOUS
  <2>3. s \in Seq(Entry) /\ (z = s \/ z = Append(s, e))
    BY <2>1, <2>2, TypesGrow
  <2>4. RoadEvents(t) = [i \in DOMAIN s |-> RoadCommand(s[i].failure)]
    BY <2>1 DEF RoadEvents
  <2>5. RoadEvents(t)' = [i \in DOMAIN z |-> RoadCommand(z[i].failure)]
    BY <2>2 DEF RoadEvents
  <2> QED
    BY <2>3, <2>4, <2>5, CommandsGrow
<1>6. IsPrefix(InjectedActors(t), InjectedActors(t)')
  <2>1. PICK s : s = InjectedActors(t)
    OBVIOUS
  <2>2. PICK z : z = InjectedActors(t)'
    OBVIOUS
  <2>3. s \in Seq(Entry) /\ (z = s \/ z = Append(s, e))
    BY <2>1, <2>2, TypesGrow DEF InjectedActors
  <2> QED
    BY <2>1, <2>2, <2>3, LongerIsPrefix
<1>7. Weather(t) # NoWeather => Weather(t)'.visibility \in 0 .. Weather(t).visibility
  <2>1. PICK s : s = OfTypes(t, {"weather_visibility"})
    OBVIOUS
  <2>2. PICK z : z = OfTypes(t, {"weather_visibility"})'
    OBVIOUS
  <2>3. s \in Seq(Entry) /\ (z = s \/ z = Append(s, e))
    BY <2>1, <2>2, TypesGrow
  <2>4. PICK w : w = WeatherOf(s)
    OBVIOUS
  <2>5. Sees(w)
    BY <2>3, <2>4, WeatherSees
  <2>6. PICK v : v = WeatherOf(z)
    OBVIOUS
  <2>7. v = w \/ v = OneFoggier(e, w)
    BY <2>3, <2>4, <2>6, WeatherGrows
  <2>8. w # NoWeather => v.visibility \in 0 .. w.visibility
    BY <2>5, <2>7, OneFoggierSees DEF Sees
  <2>9. Weather(t) = w
    BY <2>1, <2>4 DEF Weather
  <2>10. Weather(t)' = v
    BY <2>2, <2>6 DEF Weather
  <2> HIDE DEF NoWeather
  <2> QED
    BY <2>8, <2>9, <2>10
<1> QED
  BY <1>1, <1>3, <1>4, <1>5, <1>6, <1>7

\* Whatever failures are injected, in whatever order and whenever runs end, one
\* more never makes the view of a run better, as long as its request overlaps with
\* no other (inject_failure and FailureInjector).
THEOREM FailuresOnlyWorsen == FailuresSpec => OnlyWorsensInTurn
<1> DEFINE Worse == schedule' # schedule /\ ~overlapped' => NothingBetter
<1>1. FailuresInv /\ [FailuresNext]_failures => Worse
  <2> SUFFICES ASSUME FailuresInv, [FailuresNext]_failures, schedule' # schedule, ~overlapped'
               PROVE  NothingBetter
    OBVIOUS
  <2>1. simTime' = simTime
    BY OneMore
  <2>2. PICK e \in Entry : schedule' = Append(schedule, e)
    BY OneMore
  <2>3. FailuresType
    BY DEF FailuresInv
  <2>4. ASSUME NEW run \in ScenarioRun
        PROVE  LET t == simTime[run]
               IN  /\ \A actor \in Actor, position \in Reported :
                          NoBetter(Degraded(t, actor, position)', Degraded(t, actor, position))
                   /\ OfflineServices(t) \subseteq OfflineServices(t)'
                   /\ \A rsu \in Units : RsuOperational(t, rsu)' => RsuOperational(t, rsu)
                   /\ IsPrefix(RoadEvents(t), RoadEvents(t)')
                   /\ IsPrefix(InjectedActors(t), InjectedActors(t)')
                   /\ Weather(t) # NoWeather =>
                          Weather(t)'.visibility \in 0 .. Weather(t).visibility
    <3>1. PICK now : now = simTime[run] /\ now = simTime'[run]
      BY <2>1
    <3> QED
      BY <2>2, <2>3, <3>1, OneMoreWorsens, Zenon
  <2> QED
    BY <2>4, Zenon DEF NothingBetter
<1>2. FailuresInv /\ [FailuresNext]_failures => FailuresInv'
  BY OneMore
<1> HIDE DEF Worse
<1>3. FailuresSpec => [][Worse]_failures
  BY <1>1, <1>2, FailuresInitInv, PTL DEF FailuresSpec
<1> QED
  BY <1>3 DEF OnlyWorsensInTurn, Worse
=============================================================================
