----------------------------- MODULE SignalLoop -----------------------------
(***************************************************************************)
(* The closed loop around one signalised junction: the browser simulator's *)
(* lamp (vehicleEngine.ts), the telemetry and the command polling of       *)
(* networkTelemetry.ts, the gateway's phase clock (live_controller.py),    *)
(* its adaptive loop (app.py) and its command queue (signal_control.py).   *)
(*                                                                         *)
(* One tick is a fixed amount of time for browser and gateway alike.       *)
(* Instants are kept as ages, so that time is unbounded; an age stops      *)
(* growing at MaxAge.  Requests may fail on the way out or on the way      *)
(* back, and the gateway may start late and restart.  The adaptive loop is *)
(* enabled and is the only source of decisions; the decision log is left   *)
(* to SignalController, each decision being applied at once.               *)
(***************************************************************************)
EXTENDS SignalSafety, SequencesExt

CONSTANTS Green,        \* greenMs of the junction
          AllRed,       \* allRedMs of the junction
          Step5,        \* what EXTEND_GREEN_5 takes off the lamp's clock
          Step10,       \* what EXTEND_GREEN_10 takes off it
          PedClearance, \* PED_CLEARANCE_BUFFER_S
          Interval,     \* MARGA_SIGNAL_CONTROL_INTERVAL_S
          MaxPending,   \* _MAX_PENDING_COMMANDS
          MaxLag,       \* bound of the model on a telemetry frame's time in flight
          MaxAge,       \* bound of the model on ages
          MaxRestarts   \* bound of the model on gateway restarts

ASSUME LoopAssumption ==
    /\ Green \in Nat \ {0} /\ AllRed \in Nat \ {0}
    /\ Step5 \in Nat /\ Step10 \in Nat /\ PedClearance \in Nat
    /\ Interval \in Nat \ {0} /\ MaxPending \in Nat \ {0}
    /\ MaxLag \in Nat /\ MaxAge \in Nat /\ MaxRestarts \in Nat
    /\ MaxAge > MaxGreen + MaxLag

VARIABLES pos,          \* lamp: signalCycleMs()
          held,         \* history variable: ticks the lamp has shown its phase
          frames,       \* telemetry requests on their way
          seen,         \* gateway: _last_phase of the junction
          startAge,     \* gateway: age of _phase_started_at
          elapsed,      \* gateway: phase_elapsed_s of the newest signal state
          obsAge,       \* gateway: age of that state, MaxAge when there is none
          loopAge,      \* gateway: ticks the adaptive loop has slept
          pending,      \* gateway: _pending_commands
          response,     \* drained commands on their way back to the browser
          announced,    \* browser: topologiesRegistered
          known,        \* gateway: the topology is registered
          up,           \* the gateway is running
          restarts      \* gateway restarts so far

lamp    == <<pos, held>>
clock   == <<seen, startAge, elapsed, obsAge>>
gateway == <<known, up, restarts>>
signalLoop == <<lamp, frames, clock, loopAge, pending, response, announced, gateway>>

Cycle == 2 * (Green + AllRed)

PhaseAt(p) ==
    CASE p < Green                                        -> "A"
      [] p >= Green + AllRed /\ p < 2 * Green + AllRed    -> "B"
      [] OTHER                                            -> "NONE"

LampPhase  == PhaseAt(pos)
NoPhase    == "none"
NoResponse == << >>

Older(age) == IF age < MaxAge THEN age + 1 ELSE MaxAge

LoopInit ==
    /\ pos = 0 /\ held = 0
    /\ frames = {}
    /\ seen = NoPhase /\ startAge = 0 /\ elapsed = 0 /\ obsAge = MaxAge
    /\ loopAge = 0
    /\ pending = << >> /\ response = NoResponse
    /\ announced = FALSE
    /\ known = FALSE /\ up = FALSE /\ restarts = 0

-----------------------------------------------------------------------------
(***************************************************************************)
(* Time passes: the lamp's cycle, the frames in flight, the phase clock    *)
(* and the adaptive loop's sleep.                                          *)
(***************************************************************************)
LoopTick ==
    /\ \A f \in frames : f.age < MaxLag
    /\ pos' = (pos + 1) % Cycle
    /\ held' = IF PhaseAt(pos') = LampPhase THEN Older(held) ELSE 0
    /\ frames' = {[f EXCEPT !.age = @ + 1] : f \in frames}
    /\ startAge' = Older(startAge)
    /\ obsAge' = Older(obsAge)
    /\ loopAge' = IF up /\ loopAge < Interval THEN loopAge + 1 ELSE loopAge
    /\ UNCHANGED <<seen, elapsed, pending, response, announced, gateway>>

(***************************************************************************)
(* Telemetry: the browser publishes one frame at a time.  (A "variant" is  *)
(* what a plausible bug would make of the definition below it.)            *)
(***************************************************************************)
\* Variant: the next frame does not wait for the last one.
PublishAnyway ==
    /\ frames' = frames \cup {[phase |-> LampPhase, age |-> 0]}
    /\ UNCHANGED <<lamp, clock, loopAge, pending, response, announced, gateway>>

Publish ==
    /\ frames = {}
    /\ frames' = frames \cup {[phase |-> LampPhase, age |-> 0]}
    /\ UNCHANGED <<lamp, clock, loopAge, pending, response, announced, gateway>>

\* A frame carries both signal heads; each publishes its group's state, and
\* publishFrame names the phase after the movement that is green.
HeadPhases(phase) ==
    CASE phase = "A"    -> <<"A", "RED">>
      [] phase = "B"    -> <<"RED", "B">>
      [] phase = "NONE" -> <<"AMBER", "AMBER">>

\* observe_signal, for a state of age "age": the age its phase start gets.
StartAfter(last, start, phase, age) == IF last = phase THEN start ELSE age

Deliver(f) ==
    LET heads == HeadPhases(f.phase)
        first == StartAfter(seen, startAge, heads[1], f.age)
        start == StartAfter(heads[1], first, heads[2], f.age)
    IN  /\ up
        /\ frames' = frames \ {f}
        /\ startAge' = start
        /\ elapsed' = IF start > f.age THEN start - f.age ELSE 0
        /\ seen' = heads[2]
        /\ obsAge' = f.age
        /\ UNCHANGED <<lamp, loopAge, pending, response, announced, gateway>>

LoseFrame(f) ==
    /\ frames' = frames \ {f}
    /\ UNCHANGED <<lamp, clock, loopAge, pending, response, announced, gateway>>

(***************************************************************************)
(* The adaptive loop wakes, decides and applies.  The simulator reports no *)
(* remaining time, so the controller derives it from the default duration. *)
(***************************************************************************)
Clearing(waiting) == waiting /\ Green - elapsed < PedClearance

AllOf(s, n) == s                                \* variant: no bound

LastN(s, n) == IF Len(s) <= n THEN s ELSE SubSeq(s, Len(s) - n + 1, Len(s))

Effective(proposed, waiting) == Validate(elapsed, Clearing(waiting), proposed)

Decide(proposed, waiting) ==
    /\ known /\ seen # NoPhase
    /\ pending' = IF Effective(proposed, waiting) = Hold
                  THEN pending
                  ELSE LastN(Append(pending, Effective(proposed, waiting)), MaxPending)

ControlTick(proposed, waiting) ==
    /\ up /\ loopAge = Interval
    /\ loopAge' = 0
    /\ \/ Decide(proposed, waiting)
       \/ ~(known /\ seen # NoPhase) /\ UNCHANGED pending
    /\ UNCHANGED <<lamp, frames, clock, response, announced, gateway>>

(***************************************************************************)
(* syncSignalControl: announce the topology until that succeeds, then      *)
(* drain the queue and apply what the response brings.                     *)
(***************************************************************************)
\* Variant: success is never noted.
AnnounceForgetful ==
    /\ ~announced /\ up
    /\ known' = TRUE
    /\ UNCHANGED <<lamp, frames, clock, loopAge, pending, response, announced, up, restarts>>

\* Variant: a failed request counts as success.
AnnounceOnce ==
    /\ ~announced /\ up
    /\ known' \in BOOLEAN
    /\ announced' = TRUE
    /\ UNCHANGED <<lamp, frames, clock, loopAge, pending, response, up, restarts>>

Announce ==
    /\ ~announced /\ up
    /\ known' = TRUE
    /\ announced' \in BOOLEAN       \* FALSE when the response is lost
    /\ UNCHANGED <<lamp, frames, clock, loopAge, pending, response, up, restarts>>

Poll ==
    /\ announced /\ up
    /\ response = NoResponse /\ pending # << >>
    /\ response' = pending
    /\ pending' = << >>
    /\ UNCHANGED <<lamp, frames, clock, loopAge, announced, gateway>>

\* applySignalAction on the lamp's clock.
NextBoundary(p) ==
    CHOOSE b \in {Green, Green + AllRed, 2 * Green + AllRed, Cycle} :
        b > p /\ \A c \in {Green, Green + AllRed, 2 * Green + AllRed, Cycle} :
                    c > p => b <= c

Applied(p, action) ==
    CASE action = Extend5   -> (p - Step5) % Cycle
      [] action = Extend10  -> (p - Step10) % Cycle
      [] action = NextPhase -> NextBoundary(p) % Cycle

ApplyCommands ==
    /\ response # NoResponse
    /\ pos' = FoldLeft(Applied, pos, response)
    /\ held' = IF PhaseAt(pos') = LampPhase THEN held ELSE 0
    /\ response' = NoResponse
    /\ UNCHANGED <<frames, clock, loopAge, pending, announced, gateway>>

LoseResponse ==
    /\ response # NoResponse
    /\ response' = NoResponse
    /\ UNCHANGED <<lamp, frames, clock, loopAge, pending, announced, gateway>>

(***************************************************************************)
(* The gateway starts with empty memory.                                   *)
(***************************************************************************)
Start ==
    /\ ~up
    /\ up' = TRUE
    /\ UNCHANGED <<lamp, frames, clock, loopAge, pending, response, announced,
                   known, restarts>>

Crash ==
    /\ up /\ restarts < MaxRestarts
    /\ restarts' = restarts + 1
    /\ up' = FALSE /\ known' = FALSE
    /\ seen' = NoPhase /\ startAge' = 0 /\ elapsed' = 0 /\ obsAge' = MaxAge
    /\ loopAge' = 0 /\ pending' = << >>
    /\ UNCHANGED <<lamp, frames, response, announced>>

LoopNext ==
    \/ LoopTick
    \/ Publish
    \/ \E f \in frames : Deliver(f) \/ LoseFrame(f)
    \/ \E a \in Action, waiting \in BOOLEAN : ControlTick(a, waiting)
    \/ Announce
    \/ Poll
    \/ ApplyCommands
    \/ LoseResponse
    \/ Start
    \/ Crash

\* The frame loop of the browser keeps running and keeps publishing and
\* polling, the gateway starts, requests that can be answered are, and not
\* every announcement loses its response.
LoopFairness ==
    /\ WF_signalLoop(LoopTick)
    /\ WF_signalLoop(Publish)
    /\ WF_signalLoop(\E f \in frames : Deliver(f) \/ LoseFrame(f))
    /\ WF_signalLoop(\E a \in Action, waiting \in BOOLEAN : ControlTick(a, waiting))
    /\ SF_signalLoop(Announce /\ announced')
    /\ WF_signalLoop(Poll)
    /\ WF_signalLoop(ApplyCommands \/ LoseResponse)
    /\ WF_signalLoop(Start)

LoopSpec     == LoopInit /\ [][LoopNext]_signalLoop
LoopFairSpec == LoopSpec /\ LoopFairness

-----------------------------------------------------------------------------
LoopTypeOK ==
    /\ pos \in 0 .. Cycle - 1 /\ held \in 0 .. MaxAge
    /\ frames \subseteq [phase : {"A", "B", "NONE"}, age : 0 .. MaxLag]
    /\ seen \in {"A", "B", "RED", "AMBER", NoPhase}
    /\ {startAge, elapsed, obsAge} \subseteq 0 .. MaxAge
    /\ loopAge \in 0 .. Interval
    /\ pending \in Seq(Action \ {Hold}) /\ Len(pending) <= MaxPending
    /\ response \in Seq(Action \ {Hold})
    /\ {announced, known, up} \subseteq BOOLEAN
    /\ restarts \in 0 .. MaxRestarts

\* Telemetry is never applied out of order: the state the controller decides
\* on is not replaced by an older one.
ObservationNeverOlder ==
    [][\A f \in frames : Deliver(f) => f.age <= obsAge]_signalLoop

\* "a simulator started before the gateway still becomes controllable": a
\* gateway that starts late is told the topology unless it restarts first.
KnownUntilRestart == up /\ restarts = 0 ~> known \/ restarts > 0

\* No applied command stays queued for ever.
CommandsLeaveTheQueue == pending # << >> ~> pending = << >>

(***************************************************************************)
(* Claims of comments.                                                     *)
(***************************************************************************)
\* "Registration is retried until it succeeds so a simulator started before
\* the gateway still becomes controllable": the same, whatever restarts there
\* were before the gateway stayed up.
BecomesControllable == <>[]up => <>[]known

\* "EXTEND_GREEN_* holds the current phase for the requested extra seconds".
ExtendHoldsPhase ==
    [][ApplyCommands /\ ToSet(response) \subseteq Extension
          => PhaseAt(pos') = PhaseAt(pos)]_signalLoop

\* "all-red inter-green (enforced by the phase programme itself)": the lamp
\* never goes from one green straight to the other.
AllRedBetweenGreens ==
    [][{PhaseAt(pos), PhaseAt(pos')} # {"A", "B"}]_signalLoop

\* "maximum green before NEXT_PHASE is forced": a decision made on telemetry
\* of the same tick does not extend a green that has lasted the maximum.
MaxGreenEndsExtensions ==
    [][\A a \in Extension, waiting \in BOOLEAN :
          /\ ControlTick(a, waiting) /\ Effective(a, waiting) \in Extension
          /\ known /\ seen # NoPhase /\ obsAge = 0
          => held < MaxGreen]_signalLoop
=============================================================================
