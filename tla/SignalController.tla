-------------------------- MODULE SignalController --------------------------
(***************************************************************************)
(* LiveSignalController of services/signal-rl with the gateway endpoints   *)
(* and the command queue of services/gateway/signal_control.py.            *)
(*                                                                         *)
(* Telemetry enters as timestamps, phases and remaining times in any       *)
(* order; the controller turns them into an observation, records decisions *)
(* in a bounded log, and hands the command of an applied decision to the   *)
(* registered executor.  Every handler runs on the event loop without a    *)
(* suspension and is one action.  The policy's proposal is any action.     *)
(*                                                                         *)
(* The graph evidence of a recommendation is left out except for whether   *)
(* pedestrians wait: a junction without evidence refuses the request and   *)
(* changes nothing.  It may be gone again when a decision is applied, for  *)
(* the graph and the topology have changed meanwhile.  Bodies, confidences *)
(* and timestamps of decisions are left out.                               *)
(***************************************************************************)
EXTENDS SignalSafety, Sequences, FiniteSets

CONSTANTS Junction,        \* junction identifiers
          Phase,           \* current_phase values
          Time,            \* timestamps telemetry may carry, in ticks
          Remaining,       \* reported phase_remaining_s values
          PedClearance,    \* PED_CLEARANCE_BUFFER_S
          DefaultDuration, \* default_phase_duration_s of a topology
          DecisionLimit,   \* decision_limit
          MaxPending,      \* _MAX_PENDING_COMMANDS
          HistoryLimit,    \* length of _command_history
          MaxDecisions     \* bound of the model on recorded decisions

ASSUME ControllerAssumption ==
    /\ "none" \notin Phase
    /\ Time \subseteq Nat
    /\ Remaining \subseteq Nat
    /\ PedClearance \in Nat
    /\ DefaultDuration \in Nat
    /\ DecisionLimit \in Nat \ {0}
    /\ MaxPending \in Nat \ {0}
    /\ HistoryLimit \in Nat \ {0}
    /\ MaxDecisions \in Nat

VARIABLES topologies,   \* _topologies: the registered junctions
          signal,       \* _signal_states, _last_phase and _phase_started_at
          executor,     \* _executor: absent, the gateway's queue, or an adapter
          issued,       \* decisions recorded so far; the newest has this id
          decisions,    \* _decisions, from id to record
          order,        \* _decision_order
          pending,      \* _pending_commands, as decision ids
          history,      \* _command_history, as decision ids
          calls,        \* history variable: every command an executor received
          drained,      \* history variable: the ids handed to pollers, in order
          reply         \* what the last request answered

telemetry == <<topologies, signal, executor>>
log       == <<issued, decisions, order>>
commands  == <<pending, history, calls, drained>>
vars      == <<telemetry, log, commands, reply>>

Ids == 1 .. issued

NoSignal    == [phase |-> "none"]
NotReported == -1
Observed    == [phase : Phase, ts : Time, started : Time,
                remaining : Remaining \cup {NotReported}]

Executor == {"none", "queue", "adapter"}

\* applied and application_error: applied, or why it was not - nobody to command,
\* no state of the junction to make the command from, an adapter that raised.
Status   == {"open", "applied", "no executor", "no state", "refused"}
Decision == [junction : Junction, elapsed : Nat, clearing : BOOLEAN,
             action : Action, status : Status]
Call     == [id : Nat \ {0}, junction : Junction, action : Action,
             elapsed : Nat, queued : BOOLEAN]
Reply    == [kind : {"none", "ok", "conflict"}, id : Nat]

NoReply == [kind |-> "none", id |-> 0]

FirstN(s, n) == IF Len(s) <= n THEN s ELSE SubSeq(s, 1, n)    \* variant

\* The last n elements of a sequence: what del s[:-n] leaves.
LastN(s, n) == IF Len(s) <= n THEN s ELSE SubSeq(s, Len(s) - n + 1, Len(s))

\* A "variant" is what a plausible bug would make of the definition below it;
\* no specification uses one.

Init ==
    /\ topologies = {}
    /\ signal = [j \in Junction |-> NoSignal]
    /\ executor = "queue"
    /\ issued = 0
    /\ decisions = << >>
    /\ order = << >>
    /\ pending = << >>
    /\ history = << >>
    /\ calls = << >>
    /\ drained = << >>
    /\ reply = NoReply

-----------------------------------------------------------------------------
RegisterTopology(j) ==
    /\ j \notin topologies
    /\ topologies' = topologies \cup {j}
    /\ reply' = NoReply
    /\ UNCHANGED <<signal, executor, log, commands>>

\* register_executor: an adapter attaches, detaches, or the queue comes back.
RegisterExecutor(e) ==
    /\ e # executor
    /\ executor' = e
    /\ reply' = NoReply
    /\ UNCHANGED <<topologies, signal, log, commands>>

\* The phase clock restarts when the reported phase differs from the last one.
PhaseStart(j, phase, ts) ==
    IF signal[j].phase = phase THEN signal[j].started ELSE ts

ObserveSignal(j, phase, ts, remaining) ==
    /\ signal' = [signal EXCEPT ![j] =
                    [phase |-> phase, ts |-> ts,
                     started |-> PhaseStart(j, phase, ts),
                     remaining |-> remaining]]
    /\ reply' = NoReply
    /\ UNCHANGED <<topologies, executor, log, commands>>

\* clear, the reset between runs; issued ids are never used again.
Clear ==
    /\ topologies' = {}
    /\ signal' = [j \in Junction |-> NoSignal]
    /\ executor' = "none"
    /\ decisions' = << >>
    /\ order' = << >>
    /\ reply' = NoReply
    /\ UNCHANGED <<issued, commands>>

-----------------------------------------------------------------------------
(***************************************************************************)
(* The observation of a junction.                                          *)
(***************************************************************************)
Observable(j) == j \in topologies /\ signal[j] # NoSignal

AsItIs(n) == n                                  \* variant: no lower bound

AtLeastZero(n) == IF n < 0 THEN 0 ELSE n

Elapsed(j) == AtLeastZero(signal[j].ts - signal[j].started)

PhaseRemaining(j) ==
    IF signal[j].remaining = NotReported
    THEN AtLeastZero(DefaultDuration - Elapsed(j))
    ELSE signal[j].remaining

Clearing(j, waiting) == waiting /\ PhaseRemaining(j) < PedClearance

\* What the verdict reads of a junction; the queues only move the proposal.
Observation(j, waiting) == [elapsed |-> Elapsed(j), clearing |-> Clearing(j, waiting)]

(***************************************************************************)
(* recommend: the verdict on a proposal, recorded under a fresh id; a full *)
(* log forgets its oldest decision.                                        *)
(***************************************************************************)
Verdict(j, proposed, waiting) ==
    LET o == Observation(j, waiting)
    IN  [junction |-> j, elapsed |-> o.elapsed, clearing |-> o.clearing,
         action |-> Validate(o.elapsed, o.clearing, proposed), status |-> "open"]

Kept == IF Len(order) = DecisionLimit THEN Tail(order) ELSE order

ForgetNothing == {}                             \* variant

Forgotten == IF Len(order) = DecisionLimit THEN {Head(order)} ELSE {}

Record(decision) ==
    /\ issued < MaxDecisions
    /\ issued' = issued + 1
    /\ order' = Append(Kept, issued + 1)
    /\ decisions' = [i \in (DOMAIN decisions \ Forgotten) \cup {issued + 1} |->
                        IF i = issued + 1 THEN decision ELSE decisions[i]]

Recommend(j, proposed, waiting) ==
    /\ Observable(j)
    /\ Record(Verdict(j, proposed, waiting))
    /\ reply' = [kind |-> "ok", id |-> issued + 1]
    /\ UNCHANGED <<telemetry, commands>>

(***************************************************************************)
(* apply: the outcome of a decision, and the call it makes.  Hold needs no *)
(* executor; without an executor the decision fails.  The command is made  *)
(* from the junction's state as it is now, whose evidence may be gone:     *)
(* then nobody is called.  An adapter may raise.                           *)
(***************************************************************************)
OutcomeOptimistic(decision, evident) == {"applied"} \* variant: nothing looked at

Outcome(decision, evident) ==
    IF decision.action = Hold THEN {"applied"}
    ELSE IF executor = "none" THEN {"no executor"}
    ELSE IF ~evident THEN {"no state"}
    ELSE {"applied"} \cup (IF executor = "adapter" THEN {"refused"} ELSE {})

Calls(decision, evident) == decision.action # Hold /\ executor # "none" /\ evident

Command(id, decision) ==
    [id |-> id, junction |-> decision.junction, action |-> decision.action,
     elapsed |-> Elapsed(decision.junction), queued |-> executor = "queue"]

\* The executor is called; the gateway's one is _queue_command.
Execute(id, decision, evident) ==
    /\ calls' = IF Calls(decision, evident)
                THEN Append(calls, Command(id, decision))
                ELSE calls
    /\ IF Calls(decision, evident) /\ executor = "queue"
       THEN /\ pending' = LastN(Append(pending, id), MaxPending)
            /\ history' = LastN(Append(history, id), HistoryLimit)
       ELSE UNCHANGED <<pending, history>>
    /\ UNCHANGED drained

\* The endpoint looks at the junction after apply has returned.
Answer(j, id) ==
    [kind |-> IF decisions'[id].junction = j THEN "ok" ELSE "conflict", id |-> id]

\* Variant: a failed decision may be tried again.
OpenOrFailed(id) == id \in DOMAIN decisions /\ decisions[id].status # "applied"

Open(id) == id \in DOMAIN decisions /\ decisions[id].status = "open"

ApplyOpen(j, id) ==
    /\ Open(id)
    /\ \E evident \in BOOLEAN :
         /\ \E s \in Outcome(decisions[id], evident) :
              decisions' = [decisions EXCEPT ![id].status = s]
         /\ Execute(id, decisions[id], evident)
    /\ reply' = Answer(j, id)
    /\ UNCHANGED <<telemetry, issued, order>>

\* A decision that was applied, or failed, is answered as it stands.
ApplyAgain(j, id) ==
    /\ id \in DOMAIN decisions
    /\ decisions[id].status # "open"
    /\ reply' = [kind |-> IF decisions[id].junction = j THEN "ok" ELSE "conflict",
                 id |-> id]
    /\ UNCHANGED <<telemetry, log, commands>>

ApplyById(j, id) == ApplyOpen(j, id) \/ ApplyAgain(j, id)

(***************************************************************************)
(* decide_and_apply, and the requests that recommend and apply in one      *)
(* breath: a controller tick, apply without a decision id, recommend with  *)
(* apply set.  The state that was recommended from is there to command.    *)
(***************************************************************************)
DecideAndApply(j, proposed, waiting) ==
    /\ Observable(j)
    /\ LET decision == Verdict(j, proposed, waiting)
       IN  /\ \E s \in Outcome(decision, TRUE) : Record([decision EXCEPT !.status = s])
           /\ Execute(issued + 1, decision, TRUE)
    /\ reply' = [kind |-> "ok", id |-> issued + 1]
    /\ UNCHANGED telemetry

\* Variant: reading does not empty the queue.
DrainKeeping ==
    /\ pending # << >>
    /\ drained' = drained \o pending
    /\ reply' = NoReply
    /\ UNCHANGED <<telemetry, log, pending, history, calls>>

\* drain_pending_commands answers with the whole queue and empties it.
Drain ==
    /\ pending # << >>
    /\ drained' = drained \o pending
    /\ pending' = << >>
    /\ reply' = NoReply
    /\ UNCHANGED <<telemetry, log, history, calls>>

Next ==
    \/ \E j \in Junction : RegisterTopology(j)
    \/ \E e \in Executor : RegisterExecutor(e)
    \/ \E j \in Junction, p \in Phase, t \in Time, r \in Remaining \cup {NotReported} :
         ObserveSignal(j, p, t, r)
    \/ Clear
    \/ \E j \in Junction, a \in Action, waiting \in BOOLEAN :
         Recommend(j, a, waiting) \/ DecideAndApply(j, a, waiting)
    \/ \E j \in Junction, id \in Ids : ApplyById(j, id)
    \/ Drain

Spec == Init /\ [][Next]_vars

-----------------------------------------------------------------------------
CalledFor(id) == {k \in DOMAIN calls : calls[k].id = id}
Delivered     == drained \o pending

TypeOK ==
    /\ topologies \subseteq Junction
    /\ signal \in [Junction -> Observed \cup {NoSignal}]
    /\ executor \in Executor
    /\ issued \in Nat
    /\ DOMAIN decisions \subseteq Ids
    /\ \A i \in DOMAIN decisions : decisions[i] \in Decision
    /\ order \in Seq(Ids)
    /\ pending \in Seq(Ids)
    /\ history \in Seq(Ids)
    /\ calls \in Seq(Call)
    /\ drained \in Seq(Ids)
    /\ reply \in Reply

\* The decision log and its order agree, so latest_decision and the eviction
\* of the oldest never meet an id that is gone, and the log stays bounded.
LogConsistent ==
    /\ \A i \in 1 .. Len(order) : order[i] \in DOMAIN decisions
    /\ \A d \in DOMAIN decisions : \E i \in 1 .. Len(order) : order[i] = d
    /\ \A i, k \in 1 .. Len(order) : i < k => order[i] < order[k]
    /\ Len(order) <= DecisionLimit

\* No decision reaches an executor twice, however often it is applied and
\* whatever becomes of the log meanwhile.
CommandedOnce == \A i, k \in DOMAIN calls : calls[i].id = calls[k].id => i = k

\* A record tells the truth about its command, long after the executor, the
\* evidence and the topology have changed: an executor was called for the
\* decisions that were applied and not Hold and for those it refused, and for
\* no other - an open decision, one that found no executor, and one whose
\* junction had no state to make the command from.
RecordsMatchCommands ==
    \A id \in DOMAIN decisions :
        CalledFor(id) # {} <=>
            decisions[id].status \in {"applied", "refused"} /\ decisions[id].action # Hold

\* Draining is destructive: no command is handed out, or still queued, twice.
DeliveredOnce ==
    \A i, k \in DOMAIN Delivered : Delivered[i] = Delivered[k] => i = k

\* A queued command is only ever lost to MaxPending newer ones.
LostOnlyToNewer ==
    \A i \in DOMAIN calls :
        calls[i].queued /\ (\A k \in DOMAIN Delivered : Delivered[k] # calls[i].id)
           => Cardinality({k \in DOMAIN calls : k > i /\ calls[k].queued}) >= MaxPending

\* Every recorded decision is inside the envelope for the observation it was
\* made from.
DecisionsEnveloped ==
    \A id \in DOMAIN decisions :
        Enveloped(decisions[id].elapsed, decisions[id].clearing, decisions[id].action)

\* The outcome of a decision is final: while it is in the log it is neither
\* reopened nor turned from a failure into a success.
OutcomeFinal ==
    [][\A id \in DOMAIN decisions \cap DOMAIN decisions' :
          decisions[id].status # "open" => decisions'[id] = decisions[id]]_vars

(***************************************************************************)
(* Claims of comments and documents.                                       *)
(***************************************************************************)
\* "maximum green before NEXT_PHASE is forced".
MaxGreenForced ==
    \A id \in DOMAIN decisions :
        decisions[id].elapsed >= MaxGreen => decisions[id].action = NextPhase

\* "pedestrian clearance: cannot transition while pedestrians need to clear".
PedestriansClear ==
    \A id \in DOMAIN decisions :
        decisions[id].clearing => decisions[id].action # NextPhase

\* "minimum green before NEXT_PHASE is permitted", at the moment the command
\* goes out.
CommandsRespectMinGreen ==
    \A k \in DOMAIN calls :
        calls[k].action = NextPhase => calls[k].elapsed >= MinGreen

\* "decision belongs to a different junction": a request refused with this
\* answer has changed no decision and sent no command.
ConflictChangesNothing ==
    [][reply'.kind = "conflict" => UNCHANGED <<log, commands>>]_vars
=============================================================================
