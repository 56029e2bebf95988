--------------------------- MODULE TrafficProofs ---------------------------
(***************************************************************************)
(* Proofs about SignalController and SignalTraining, for every set of      *)
(* junctions, phases, timestamps and clients, every threshold and bound,   *)
(* and about the counts, the search and the moves of Routing, for every    *)
(* network and fleet.                                                      *)
(*                                                                         *)
(* The controller: ids only grow, so a new decision is one no command      *)
(* carries (CallsAreIssued); a decision in the log that is still open has  *)
(* no command either (OpenIsUncalled), and apply calls an executor only    *)
(* for an open decision and closes it in the same step.  Those two make    *)
(* CommandedOnce inductive.  The training service and the counts of the    *)
(* router have their arguments where their proofs begin.                   *)
(*                                                                         *)
(* The search: closed nodes have their least cost, an open item is a path  *)
(* of closed nodes, a node that was reached and is not closed is open at   *)
(* its best, nodes are closed in the order of f and every road out of a    *)
(* closed node is relaxed (Search, kept by each turn).  A path to a node   *)
(* that is not closed leaves the closed ones somewhere, and what is open   *)
(* there is no dearer than the path.  Each road is pushed once, so that    *)
(* the turns counted are enough.                                           *)
(*                                                                         *)
(* Rerouting: what the search finds leads to the end at its cost whether   *)
(* or not the heuristic fits, and a saturated road only makes roads and    *)
(* paths dearer, so that an alternative cheaper than the old path is       *)
(* cheaper as the roads are.                                               *)
(***************************************************************************)
EXTENDS SignalController, SignalTraining, Routing, FiniteSetTheorems, FunctionTheorems,
        WellFoundedInduction, TLAPS

CallsAreIssued == \A k \in 1 .. Len(calls) : calls[k].id \in Ids

OpenIsUncalled ==
    \A id \in DOMAIN decisions : decisions[id].status = "open" =>
        \A k \in 1 .. Len(calls) : calls[k].id # id

\* A junction with a decision in the log has been observed, so a command's
\* elapsed time is that of a signal state.
LoggedIsObserved ==
    \A id \in DOMAIN decisions : signal[decisions[id].junction] # NoSignal

IInv == /\ TypeOK
        /\ CallsAreIssued
        /\ OpenIsUncalled
        /\ LoggedIsObserved
        /\ CommandedOnce
        /\ DecisionsEnveloped

-----------------------------------------------------------------------------
\* The verdict on any proposal is an action inside the envelope.
LEMMA VerdictEnveloped ==
    ASSUME NEW elapsed \in Nat, NEW clearing \in BOOLEAN, NEW proposed \in Action
    PROVE  /\ Validate(elapsed, clearing, proposed) \in Action
           /\ Enveloped(elapsed, clearing, Validate(elapsed, clearing, proposed))
BY ThresholdsAssumption
   DEF Validate, Enveloped, TooEarly, TooLong, StillClearing, NearTheCap,
       Action, Extension, Hold, Extend5, Extend10, NextPhase

\* The elapsed time of an observable junction is a natural number.
LEMMA ElapsedNat ==
    ASSUME TypeOK, NEW j \in Junction, signal[j] # NoSignal
    PROVE  Elapsed(j) \in Nat
<1>1. signal[j] \in Observed
  BY DEF TypeOK
<1>2. signal[j].ts \in Time /\ signal[j].started \in Time
  BY <1>1 DEF Observed
<1>3. signal[j].ts \in Nat /\ signal[j].started \in Nat
  BY <1>2, ControllerAssumption
<1>4. QED
  BY <1>3 DEF Elapsed, AtLeastZero

\* A recorded verdict is a decision inside the envelope.
LEMMA VerdictOK ==
    ASSUME TypeOK, NEW j \in Junction, Observable(j),
           NEW proposed \in Action, NEW waiting \in BOOLEAN
    PROVE  LET d == Verdict(j, proposed, waiting)
           IN  /\ d \in Decision /\ d.status = "open" /\ d.junction = j
               /\ Enveloped(d.elapsed, d.clearing, d.action)
<1>1. Elapsed(j) \in Nat
  BY ElapsedNat DEF Observable
<1>2. Clearing(j, waiting) \in BOOLEAN
  BY DEF Clearing
<1>3. /\ Validate(Elapsed(j), Clearing(j, waiting), proposed) \in Action
      /\ Enveloped(Elapsed(j), Clearing(j, waiting),
                   Validate(Elapsed(j), Clearing(j, waiting), proposed))
  BY <1>1, <1>2, VerdictEnveloped
<1>4. QED
  BY <1>1, <1>2, <1>3 DEF Verdict, Observation, Decision, Status

\* Keeping the newest elements of a sequence yields a sequence.
LEMMA LastNSeq ==
    ASSUME NEW S, NEW s \in Seq(S), NEW n \in Nat
    PROVE  LastN(s, n) \in Seq(S)
BY DEF LastN

-----------------------------------------------------------------------------
\* Init establishes the inductive invariant: nothing has been recorded.
LEMMA InitIInv == Init => IInv
BY DEF Init, IInv, TypeOK, CallsAreIssued, OpenIsUncalled, CommandedOnce,
       DecisionsEnveloped, LoggedIsObserved, Executor, NoReply, Reply, Ids

\* Handing the command of an id that no earlier command carries to an
\* executor, or handing over nothing, keeps every command's id unique.
LEMMA ExecuteOnce ==
    ASSUME IInv, issued' \in Nat, issued' >= issued,
           NEW id \in 1 .. issued', NEW decision \in Decision, NEW evident \in BOOLEAN,
           Calls(decision, evident) => Elapsed(decision.junction) \in Nat,
           \A k \in 1 .. Len(calls) : calls[k].id # id,
           Execute(id, decision, evident)
    PROVE  /\ calls' \in Seq(Call) /\ pending' \in Seq(Ids') /\ history' \in Seq(Ids')
           /\ drained' \in Seq(Ids')
           /\ CallsAreIssued' /\ CommandedOnce'
           /\ \A k \in 1 .. Len(calls') :
                 \/ calls'[k].id = id
                 \/ \E i \in 1 .. Len(calls) : calls'[k].id = calls[i].id
<1>1. /\ calls \in Seq(Call) /\ issued \in Nat
      /\ pending \in Seq(Ids) /\ history \in Seq(Ids) /\ drained \in Seq(Ids)
  BY DEF IInv, TypeOK
<1>2. /\ pending \in Seq(Ids') /\ history \in Seq(Ids') /\ drained \in Seq(Ids')
      /\ id \in Ids'
  BY <1>1 DEF Ids
<1>3. /\ Append(pending, id) \in Seq(Ids') /\ Append(history, id) \in Seq(Ids')
  BY <1>2
<1>4. LastN(Append(pending, id), MaxPending) \in Seq(Ids')
  BY <1>3, LastNSeq, ControllerAssumption
<1>5. LastN(Append(history, id), HistoryLimit) \in Seq(Ids')
  BY <1>3, LastNSeq, ControllerAssumption
<1>6. pending' \in Seq(Ids') /\ history' \in Seq(Ids') /\ drained' \in Seq(Ids')
  BY <1>2, <1>4, <1>5 DEF Execute
<1>7. CASE Calls(decision, evident)
  <2> DEFINE c == Command(id, decision)
  <2>1. c \in Call /\ c.id = id
    BY <1>7 DEF Command, Call, Decision
  <2>2. calls' = Append(calls, c)
    BY <1>7 DEF Execute
  <2> HIDE DEF c
  <2>3. /\ calls' \in Seq(Call) /\ Len(calls') = Len(calls) + 1
        /\ \A k \in 1 .. Len(calls) : calls'[k] = calls[k]
        /\ calls'[Len(calls) + 1] = c
    BY <1>1, <2>1, <2>2
  <2>4. \A k \in 1 .. Len(calls') :
           k \in 1 .. Len(calls) \/ k = Len(calls) + 1
    BY <1>1, <2>3
  <2>5. CallsAreIssued'
    <3>1. ASSUME NEW k \in 1 .. Len(calls)
          PROVE  calls'[k].id \in 1 .. issued'
      <4>1. calls[k].id \in 1 .. issued
        BY DEF CallsAreIssued, IInv, Ids
      <4>2. QED
        BY <1>1, <2>3, <4>1
    <3>2. calls'[Len(calls) + 1].id \in 1 .. issued'
      BY <2>1, <2>3
    <3>3. QED
      BY <2>4, <3>1, <3>2 DEF CallsAreIssued, Ids
  <2>6. CommandedOnce'
    <3>1. DOMAIN calls = 1 .. Len(calls) /\ DOMAIN calls' = 1 .. Len(calls')
      BY <1>1, <2>3
    <3>2. QED
      BY <2>1, <2>3, <2>4, <3>1 DEF CommandedOnce, IInv
  <2>7. QED
    BY <1>6, <2>1, <2>3, <2>4, <2>5, <2>6
<1>8. CASE ~Calls(decision, evident)
  <2>1. calls' = calls
    BY <1>8 DEF Execute
  <2>2. CallsAreIssued'
    BY <1>1, <2>1 DEF CallsAreIssued, IInv, Ids
  <2>3. QED
    BY <1>1, <1>6, <2>1, <2>2 DEF CommandedOnce, IInv
<1>9. QED
  BY <1>7, <1>8

\* Recording a decision under a fresh id keeps the log well-formed.
LEMMA RecordOK ==
    ASSUME IInv, NEW decision \in Decision, Record(decision)
    PROVE  /\ issued' = issued + 1 /\ issued' \in Nat
           /\ DOMAIN decisions' \subseteq Ids'
           /\ order' \in Seq(Ids')
           /\ issued + 1 \in DOMAIN decisions'
           /\ decisions'[issued + 1] = decision
           /\ \A i \in DOMAIN decisions' :
                 i # issued + 1 => i \in DOMAIN decisions /\ decisions'[i] = decisions[i]
<1>1. issued \in Nat /\ order \in Seq(Ids) /\ DOMAIN decisions \subseteq Ids
  BY DEF IInv, TypeOK
<1>2. issued' = issued + 1
  BY DEF Record
<1>3. order \in Seq(Ids') /\ issued + 1 \in Ids'
  BY <1>1, <1>2 DEF Ids
<1>4. Kept \in Seq(Ids')
  <2>1. CASE Len(order) = DecisionLimit
    <3>1. order # << >>
      BY <1>3, <2>1, ControllerAssumption
    <3>2. QED
      BY <1>3, <2>1, <3>1 DEF Kept
  <2>2. QED
    BY <1>3, <2>1 DEF Kept
<1>5. order' \in Seq(Ids')
  BY <1>3, <1>4 DEF Record
<1>6. /\ DOMAIN decisions' = (DOMAIN decisions \ Forgotten) \cup {issued + 1}
      /\ \A i \in DOMAIN decisions' :
            decisions'[i] = IF i = issued + 1 THEN decision ELSE decisions[i]
  BY DEF Record
<1>7. QED
  BY <1>1, <1>2, <1>5, <1>6 DEF Ids

\* What has not been touched stays as it was.
LEMMA Untouched ==
    ASSUME IInv, UNCHANGED <<log, commands>>,
           topologies' \subseteq Junction,
           signal' \in [Junction -> Observed \cup {NoSignal}],
           \A j \in Junction : signal[j] # NoSignal => signal'[j] # NoSignal,
           executor' \in Executor, reply' \in Reply
    PROVE  IInv'
<1>1. \A id \in DOMAIN decisions : decisions[id].junction \in Junction
  BY DEF IInv, TypeOK, Decision
<1>2. QED
  BY <1>1 DEF IInv, TypeOK, CallsAreIssued, OpenIsUncalled, CommandedOnce,
              LoggedIsObserved, DecisionsEnveloped, log, commands, Ids

\* A decision recorded, and perhaps applied, for an observable junction.
LEMMA RecordIInv ==
    ASSUME IInv, UNCHANGED telemetry, reply' \in Reply,
           NEW decision \in Decision,
           Enveloped(decision.elapsed, decision.clearing, decision.action),
           signal[decision.junction] # NoSignal,
           Record(decision),
           \/ UNCHANGED commands
           \/ decision.status # "open" /\ \E d \in Decision, evident \in BOOLEAN :
                 /\ Calls(d, evident) => Elapsed(d.junction) \in Nat
                 /\ Execute(issued + 1, d, evident)
    PROVE  IInv'
<1>1. /\ issued' = issued + 1 /\ issued' \in Nat /\ issued \in Nat
      /\ DOMAIN decisions' \subseteq Ids' /\ order' \in Seq(Ids')
      /\ decisions'[issued + 1] = decision
      /\ \A i \in DOMAIN decisions' :
            i # issued + 1 => i \in DOMAIN decisions /\ decisions'[i] = decisions[i]
  BY RecordOK DEF IInv, TypeOK
<1>2. /\ \A i \in DOMAIN decisions' : decisions'[i] \in Decision
      /\ DecisionsEnveloped' /\ LoggedIsObserved'
  BY <1>1 DEF IInv, TypeOK, DecisionsEnveloped, LoggedIsObserved, telemetry
<1>3. \A k \in 1 .. Len(calls) : calls[k].id \in 1 .. issued /\ calls[k].id # issued + 1
  BY <1>1 DEF IInv, CallsAreIssued, Ids
<1>4. /\ calls' \in Seq(Call) /\ pending' \in Seq(Ids') /\ history' \in Seq(Ids')
      /\ drained' \in Seq(Ids')
      /\ CallsAreIssued' /\ CommandedOnce' /\ OpenIsUncalled'
  <2>1. CASE UNCHANGED commands
    <3>1. calls \in Seq(Call) /\ pending \in Seq(Ids) /\ history \in Seq(Ids)
          /\ drained \in Seq(Ids)
      BY DEF IInv, TypeOK
    <3>2. /\ pending \in Seq(Ids') /\ history \in Seq(Ids') /\ drained \in Seq(Ids')
      BY <1>1, <3>1 DEF Ids
    <3>3. /\ calls' = calls /\ pending' = pending /\ history' = history
          /\ drained' = drained
      BY <2>1 DEF commands
    <3>4. CallsAreIssued'
      BY <1>1, <1>3, <3>3 DEF CallsAreIssued, Ids
    <3>5. ASSUME NEW id \in DOMAIN decisions', decisions'[id].status = "open",
                 NEW k \in 1 .. Len(calls)
          PROVE  calls[k].id # id
      <4>1. CASE id = issued + 1
        BY <1>3, <4>1
      <4>2. CASE id # issued + 1
        <5>1. id \in DOMAIN decisions /\ decisions[id].status = "open"
          BY <1>1, <3>5, <4>2
        <5>2. OpenIsUncalled
          BY DEF IInv
        <5>3. QED
          BY <5>1, <5>2 DEF OpenIsUncalled
      <4>3. QED
        BY <4>1, <4>2
    <3>6. OpenIsUncalled'
      BY <3>3, <3>5 DEF OpenIsUncalled
    <3>7. CommandedOnce'
      BY <3>3 DEF CommandedOnce, IInv
    <3>8. QED
      BY <3>1, <3>2, <3>3, <3>4, <3>6, <3>7
  <2>2. CASE decision.status # "open" /\ \E d \in Decision, evident \in BOOLEAN :
                 /\ Calls(d, evident) => Elapsed(d.junction) \in Nat
                 /\ Execute(issued + 1, d, evident)
    <3>1. PICK d \in Decision, evident \in BOOLEAN :
                 /\ Calls(d, evident) => Elapsed(d.junction) \in Nat
                 /\ Execute(issued + 1, d, evident)
      BY <2>2
    <3>2. issued + 1 \in 1 .. issued' /\ issued' >= issued
      BY <1>1
    <3>3. /\ calls' \in Seq(Call) /\ pending' \in Seq(Ids') /\ history' \in Seq(Ids')
          /\ drained' \in Seq(Ids')
          /\ CallsAreIssued' /\ CommandedOnce'
          /\ \A k \in 1 .. Len(calls') :
                \/ calls'[k].id = issued + 1
                \/ \E i \in 1 .. Len(calls) : calls'[k].id = calls[i].id
      BY <1>1, <1>3, <3>1, <3>2, ExecuteOnce
    <3>4. ASSUME NEW id \in DOMAIN decisions', decisions'[id].status = "open",
                 NEW k \in 1 .. Len(calls')
          PROVE  calls'[k].id # id
      <4>1. id # issued + 1
        BY <1>1, <2>2, <3>4
      <4>2. \A i \in 1 .. Len(calls) : calls[i].id # id
        <5>1. id \in DOMAIN decisions /\ decisions[id].status = "open"
          BY <1>1, <3>4, <4>1
        <5>2. OpenIsUncalled
          BY DEF IInv
        <5>3. QED
          BY <5>1, <5>2 DEF OpenIsUncalled
      <4>3. QED
        BY <3>3, <4>1, <4>2
    <3>5. OpenIsUncalled'
      BY <3>4 DEF OpenIsUncalled
    <3>6. QED
      BY <3>3, <3>5
  <2>3. QED
    BY <2>1, <2>2
<1>5. QED
  BY <1>1, <1>2, <1>4 DEF IInv, TypeOK, telemetry

\* The answer to a request about a decision of the log.
LEMMA ApplyOpenIInv ==
    ASSUME IInv, NEW j \in Junction, NEW id \in Ids, ApplyOpen(j, id)
    PROVE  IInv'
<1>1. /\ id \in DOMAIN decisions /\ decisions[id].status = "open"
      /\ decisions[id] \in Decision /\ issued \in Nat /\ id \in Nat
  BY DEF ApplyOpen, Open, IInv, TypeOK, Ids
<1>0. PICK evident \in BOOLEAN :
         /\ \E s \in Outcome(decisions[id], evident) :
               decisions' = [decisions EXCEPT ![id].status = s]
         /\ Execute(id, decisions[id], evident)
  BY DEF ApplyOpen
<1>2. UNCHANGED <<telemetry, issued, order>>
  BY DEF ApplyOpen
<1>3. PICK s \in Outcome(decisions[id], evident) :
             decisions' = [decisions EXCEPT ![id].status = s]
  BY <1>0
<1>4. s \in {"applied", "no executor", "no state", "refused"}
  BY DEF Outcome, IInv, TypeOK, Executor
<1>5. /\ DOMAIN decisions' = DOMAIN decisions
      /\ decisions'[id] = [decisions[id] EXCEPT !.status = s]
      /\ \A i \in DOMAIN decisions : i # id => decisions'[i] = decisions[i]
  BY <1>1, <1>3
<1>6. /\ decisions'[id] \in Decision /\ decisions'[id].status = s
      /\ decisions'[id].junction = decisions[id].junction
      /\ decisions'[id].elapsed = decisions[id].elapsed
      /\ decisions'[id].clearing = decisions[id].clearing
      /\ decisions'[id].action = decisions[id].action
  BY <1>1, <1>4, <1>5 DEF Decision, Status
<1>7. /\ \A i \in DOMAIN decisions' : decisions'[i] \in Decision
      /\ DecisionsEnveloped' /\ LoggedIsObserved'
  BY <1>1, <1>2, <1>5, <1>6
     DEF IInv, TypeOK, DecisionsEnveloped, LoggedIsObserved, telemetry
<1>8. /\ \A k \in 1 .. Len(calls) : calls[k].id # id
      /\ Elapsed(decisions[id].junction) \in Nat
  <2>1. decisions[id].junction \in Junction /\ signal[decisions[id].junction] # NoSignal
    BY <1>1 DEF IInv, LoggedIsObserved, Decision
  <2>2. QED
    BY <1>1, <2>1, ElapsedNat DEF IInv, OpenIsUncalled
<1>9. issued' = issued /\ id \in 1 .. issued'
  BY <1>2 DEF Ids
<1>10. /\ calls' \in Seq(Call) /\ pending' \in Seq(Ids') /\ history' \in Seq(Ids')
       /\ drained' \in Seq(Ids')
       /\ CallsAreIssued' /\ CommandedOnce'
       /\ \A k \in 1 .. Len(calls') :
             \/ calls'[k].id = id
             \/ \E i \in 1 .. Len(calls) : calls'[k].id = calls[i].id
  BY <1>0, <1>1, <1>2, <1>8, <1>9, ExecuteOnce
<1>11. OpenIsUncalled'
  <2>1. ASSUME NEW i \in DOMAIN decisions', decisions'[i].status = "open",
               NEW k \in 1 .. Len(calls')
        PROVE  calls'[k].id # i
    <3>1. i # id
      BY <1>4, <1>6, <2>1
    <3>2. i \in DOMAIN decisions /\ decisions[i].status = "open"
      BY <1>5, <2>1, <3>1
    <3>3. \A m \in 1 .. Len(calls) : calls[m].id # i
      BY <3>2 DEF OpenIsUncalled, IInv
    <3>4. QED
      BY <1>10, <3>1, <3>3
  <2>2. QED
    BY <2>1 DEF OpenIsUncalled
<1>12. reply' \in Reply
  BY <1>1, <1>9 DEF ApplyOpen, Answer, Reply
<1>13. DOMAIN decisions' \subseteq Ids' /\ order' \in Seq(Ids')
  BY <1>2, <1>5, <1>9 DEF IInv, TypeOK, Ids
<1>14. QED
  BY <1>2, <1>7, <1>9, <1>10, <1>11, <1>12, <1>13 DEF IInv, TypeOK, telemetry

-----------------------------------------------------------------------------
\* Every step keeps the inductive invariant.
LEMMA NextIInv == IInv /\ [Next]_vars => IInv'
<1> SUFFICES ASSUME IInv, [Next]_vars
             PROVE  IInv'
  OBVIOUS
<1>1. /\ topologies \subseteq Junction /\ executor \in Executor
      /\ signal \in [Junction -> Observed \cup {NoSignal}] /\ issued \in Nat
      /\ NoReply \in Reply
  BY DEF IInv, TypeOK, NoReply, Reply
<1>2. ASSUME NEW j \in Junction, RegisterTopology(j)
      PROVE  IInv'
  BY <1>1, <1>2, Untouched DEF RegisterTopology
<1>3. ASSUME NEW e \in Executor, RegisterExecutor(e)
      PROVE  IInv'
  BY <1>1, <1>3, Untouched DEF RegisterExecutor
<1>4. ASSUME NEW j \in Junction, NEW p \in Phase, NEW t \in Time,
             NEW r \in Remaining \cup {NotReported}, ObserveSignal(j, p, t, r)
      PROVE  IInv'
  <2> DEFINE new == [phase |-> p, ts |-> t, started |-> PhaseStart(j, p, t),
                     remaining |-> r]
  <2>1. signal[j] \in Observed \/ signal[j] = NoSignal
    BY <1>1
  <2>2. PhaseStart(j, p, t) \in Time
    BY <2>1, ControllerAssumption DEF PhaseStart, NoSignal, Observed
  <2>3. new \in Observed /\ new # NoSignal
    BY <2>2, ControllerAssumption DEF Observed, NoSignal
  <2>4. signal' = [signal EXCEPT ![j] = new]
    BY <1>4 DEF ObserveSignal
  <2> HIDE DEF new
  <2>5. /\ signal' \in [Junction -> Observed \cup {NoSignal}]
        /\ \A i \in Junction : signal[i] # NoSignal => signal'[i] # NoSignal
    BY <1>1, <2>3, <2>4
  <2>6. QED
    BY <1>1, <1>4, <2>5, Untouched DEF ObserveSignal
<1>5. CASE Clear
  BY <1>1, <1>5
     DEF Clear, IInv, TypeOK, CallsAreIssued, OpenIsUncalled, LoggedIsObserved,
         CommandedOnce, DecisionsEnveloped, commands, Ids, Executor
<1>6. ASSUME NEW j \in Junction, NEW a \in Action, NEW w \in BOOLEAN,
             Recommend(j, a, w)
      PROVE  IInv'
  <2> DEFINE d == Verdict(j, a, w)
  <2>1. /\ d \in Decision /\ d.junction = j
        /\ Enveloped(d.elapsed, d.clearing, d.action)
        /\ signal[j] # NoSignal
    BY <1>6, VerdictOK DEF Recommend, Observable, IInv
  <2>2. reply' \in Reply
    BY <1>1, <1>6 DEF Recommend, Reply
  <2>3. Record(d) /\ UNCHANGED telemetry /\ UNCHANGED commands
    BY <1>6 DEF Recommend
  <2> HIDE DEF d
  <2>4. QED
    BY <2>1, <2>2, <2>3, RecordIInv
<1>7. ASSUME NEW j \in Junction, NEW a \in Action, NEW w \in BOOLEAN,
             DecideAndApply(j, a, w)
      PROVE  IInv'
  <2> DEFINE d == Verdict(j, a, w)
  <2>1. /\ d \in Decision /\ d.junction = j
        /\ Enveloped(d.elapsed, d.clearing, d.action)
        /\ signal[j] # NoSignal
    BY <1>7, VerdictOK DEF DecideAndApply, Observable, IInv
  <2>2. Elapsed(d.junction) \in Nat
    BY <2>1, ElapsedNat DEF IInv
  <2>0. Execute(issued + 1, d, TRUE)
    BY <1>7, Zenon DEF DecideAndApply
  <2>3. reply' \in Reply /\ UNCHANGED telemetry
    BY <1>1, <1>7 DEF DecideAndApply, Reply
  <2>4. PICK s \in Outcome(d, TRUE) : Record([d EXCEPT !.status = s])
    BY <1>7 DEF DecideAndApply
  <2>5. s \in {"applied", "no executor", "no state", "refused"}
    BY <1>1 DEF Outcome, Executor
  <2> DEFINE e == [d EXCEPT !.status = s]
  <2> HIDE DEF d
  <2>6. /\ e \in Decision /\ e.status # "open" /\ e.junction = j
        /\ Enveloped(e.elapsed, e.clearing, e.action)
    BY <2>1, <2>5 DEF Decision, Status
  <2>7. Record(e)
    BY <2>4
  <2> HIDE DEF e
  <2>8. \E c \in Decision, evident \in BOOLEAN :
            /\ Calls(c, evident) => Elapsed(c.junction) \in Nat
            /\ Execute(issued + 1, c, evident)
    BY <2>1, <2>2, <2>0, Zenon
  <2>9. QED
    BY <2>1, <2>3, <2>6, <2>7, <2>8, RecordIInv
<1>8. ASSUME NEW j \in Junction, NEW id \in Ids, ApplyById(j, id)
      PROVE  IInv'
  <2>1. CASE ApplyOpen(j, id)
    BY <2>1, ApplyOpenIInv
  <2>2. CASE ApplyAgain(j, id)
    <3>1. reply' \in Reply
      BY <1>1, <2>2 DEF ApplyAgain, Reply, Ids
    <3>2. QED
      BY <1>1, <2>2, <3>1, Untouched DEF ApplyAgain, telemetry
  <2>3. QED
    BY <1>8, <2>1, <2>2 DEF ApplyById
<1>9. CASE Drain
  <2>1. drained \in Seq(Ids) /\ pending \in Seq(Ids)
    BY DEF IInv, TypeOK
  <2>2. drained' \in Seq(Ids) /\ pending' \in Seq(Ids)
    BY <1>9, <2>1 DEF Drain
  <2>3. QED
    BY <1>1, <1>9, <2>2
       DEF Drain, IInv, TypeOK, CallsAreIssued, OpenIsUncalled, LoggedIsObserved,
           CommandedOnce, DecisionsEnveloped, telemetry, log, Ids
<1>10. CASE UNCHANGED vars
  BY <1>1, <1>10, Untouched DEF vars, telemetry, IInv, TypeOK
<1>11. QED
  BY <1>2, <1>3, <1>4, <1>5, <1>6, <1>7, <1>8, <1>9, <1>10 DEF Next

LEMMA Invariance == Spec => []IInv
BY InitIInv, NextIInv, PTL DEF Spec

\* Every reachable state has the declared types: no id of the queue, of the
\* history or of a command was never given out.
THEOREM TypeCorrect == Spec => []TypeOK
<1>1. IInv => TypeOK
  BY DEF IInv
<1>2. QED
  BY <1>1, Invariance, PTL

\* No decision reaches an executor twice.
THEOREM AtMostOneCommand == Spec => []CommandedOnce
<1>1. IInv => CommandedOnce
  BY DEF IInv
<1>2. QED
  BY <1>1, Invariance, PTL

\* Every recorded decision is inside the safety envelope.
THEOREM EnvelopeHolds == Spec => []DecisionsEnveloped
<1>1. IInv => DecisionsEnveloped
  BY DEF IInv
<1>2. QED
  BY <1>1, Invariance, PTL

-----------------------------------------------------------------------------
\* What handing over the command of an id that no command carries changes.
LEMMA ExecuteCalls ==
    ASSUME calls \in Seq(Call), NEW id, NEW decision, NEW evident,
           CalledFor(id) = {},
           Execute(id, decision, evident)
    PROVE  /\ CalledFor(id)' # {} <=> Calls(decision, evident)
           /\ \A i : i # id => (CalledFor(i)' = {} <=> CalledFor(i) = {})
<1>1. CASE Calls(decision, evident)
  <2> DEFINE c == Command(id, decision)
  <2>1. c.id = id
    BY DEF Command
  <2>2. calls' = Append(calls, c)
    BY <1>1 DEF Execute
  <2> HIDE DEF c
  <2>3. /\ DOMAIN calls' = DOMAIN calls \cup {Len(calls) + 1}
        /\ \A k \in DOMAIN calls : calls'[k] = calls[k]
        /\ calls'[Len(calls) + 1] = c
    BY <2>2
  <2>4. Len(calls) + 1 \in CalledFor(id)'
    BY <2>1, <2>3 DEF CalledFor
  <2>5. \A i : i # id => (CalledFor(i)' = {} <=> CalledFor(i) = {})
    BY <2>1, <2>3 DEF CalledFor
  <2> QED BY <1>1, <2>4, <2>5
<1>2. CASE ~Calls(decision, evident)
  <2>1. calls' = calls
    BY <1>2 DEF Execute
  <2> QED BY <1>2, <2>1 DEF CalledFor
<1> QED BY <1>1, <1>2

\* An outcome of an open decision says whether an executor was called.
LEMMA OutcomeTells ==
    ASSUME IInv, NEW decision \in Decision, NEW evident \in BOOLEAN,
           NEW s \in Outcome(decision, evident)
    PROVE  /\ s \in {"applied", "no executor", "no state", "refused"}
           /\ s \in {"applied", "refused"} /\ decision.action # Hold
                 <=> Calls(decision, evident)
BY DEF Outcome, Calls, Executor, IInv, TypeOK

\* A record of a decision and its command, made under a fresh id.
LEMMA RecordTells ==
    ASSUME IInv, RecordsMatchCommands, NEW decision \in Decision, Record(decision),
           \/ decision.status = "open" /\ UNCHANGED calls
           \/ \E d \in Decision, evident \in BOOLEAN :
                /\ d.action = decision.action
                /\ decision.status \in Outcome(d, evident)
                /\ Execute(issued + 1, d, evident)
    PROVE  RecordsMatchCommands'
<1>1. /\ decisions'[issued + 1] = decision
      /\ \A i \in DOMAIN decisions' :
            i # issued + 1 => i \in DOMAIN decisions /\ decisions'[i] = decisions[i]
  BY RecordOK
<1>2. calls \in Seq(Call) /\ issued \in Nat
  BY DEF IInv, TypeOK
<1>3. CalledFor(issued + 1) = {}
  BY <1>2 DEF IInv, CallsAreIssued, CalledFor, Ids
<1>4. CASE decision.status = "open" /\ UNCHANGED calls
  <2>1. \A i : CalledFor(i)' = CalledFor(i)
    BY <1>4 DEF CalledFor
  <2> QED BY <1>1, <1>3, <1>4, <2>1 DEF RecordsMatchCommands
<1>5. CASE \E d \in Decision, evident \in BOOLEAN :
             /\ d.action = decision.action
             /\ decision.status \in Outcome(d, evident)
             /\ Execute(issued + 1, d, evident)
  <2>a. PICK id : id = issued + 1
    OBVIOUS
  <2>1. PICK d \in Decision, evident \in BOOLEAN :
               /\ d.action = decision.action
               /\ decision.status \in Outcome(d, evident)
               /\ Execute(id, d, evident)
    BY <1>5, <2>a
  <2>0. /\ CalledFor(id) = {}
        /\ decisions'[id] = decision
        /\ \A i \in DOMAIN decisions' :
              i # id => i \in DOMAIN decisions /\ decisions'[i] = decisions[i]
    BY <1>1, <1>3, <2>a
  <2>2. /\ CalledFor(id)' # {} <=> Calls(d, evident)
        /\ \A i : i # id => (CalledFor(i)' = {} <=> CalledFor(i) = {})
    BY <1>2, <2>0, <2>1, ExecuteCalls
  <2>3. /\ decision.status # "open"
        /\ decision.status \in {"applied", "refused"} /\ decision.action # Hold
              <=> Calls(d, evident)
    BY <2>1, OutcomeTells
  <2> QED BY <2>0, <2>2, <2>3 DEF RecordsMatchCommands
<1> QED BY <1>4, <1>5

\* Applying an open decision.
LEMMA ApplyOpenTells ==
    ASSUME IInv, RecordsMatchCommands, NEW j \in Junction, NEW id \in Ids, ApplyOpen(j, id)
    PROVE  RecordsMatchCommands'
<1>1. /\ id \in DOMAIN decisions /\ decisions[id].status = "open"
      /\ decisions[id] \in Decision /\ calls \in Seq(Call)
  BY DEF ApplyOpen, Open, IInv, TypeOK
<1>2. CalledFor(id) = {}
  BY <1>1 DEF RecordsMatchCommands
<1>0. PICK evident \in BOOLEAN :
         /\ \E s \in Outcome(decisions[id], evident) :
               decisions' = [decisions EXCEPT ![id].status = s]
         /\ Execute(id, decisions[id], evident)
  BY DEF ApplyOpen
<1>3. PICK s \in Outcome(decisions[id], evident) :
             decisions' = [decisions EXCEPT ![id].status = s]
  BY <1>0
<1>4. /\ DOMAIN decisions' = DOMAIN decisions
      /\ decisions'[id].status = s /\ decisions'[id].action = decisions[id].action
      /\ \A i \in DOMAIN decisions : i # id => decisions'[i] = decisions[i]
  BY <1>1, <1>3 DEF Decision
<1>5. Execute(id, decisions[id], evident)
  BY <1>0
<1>6. /\ CalledFor(id)' # {} <=> Calls(decisions[id], evident)
      /\ \A i : i # id => (CalledFor(i)' = {} <=> CalledFor(i) = {})
  BY <1>1, <1>2, <1>5, ExecuteCalls
<1>7. /\ s # "open"
      /\ s \in {"applied", "refused"} /\ decisions[id].action # Hold
            <=> Calls(decisions[id], evident)
  BY <1>1, <1>3, OutcomeTells
<1> QED BY <1>4, <1>6, <1>7 DEF RecordsMatchCommands

LEMMA NextTells == IInv /\ RecordsMatchCommands /\ [Next]_vars => RecordsMatchCommands'
<1> SUFFICES ASSUME IInv, RecordsMatchCommands, [Next]_vars PROVE RecordsMatchCommands'
  OBVIOUS
<1>1. ASSUME UNCHANGED <<decisions, calls>> PROVE RecordsMatchCommands'
  BY <1>1 DEF RecordsMatchCommands, CalledFor
<1>2. ASSUME NEW j \in Junction, NEW a \in Action, NEW w \in BOOLEAN, Recommend(j, a, w)
      PROVE  RecordsMatchCommands'
  <2>1. Verdict(j, a, w) \in Decision /\ Verdict(j, a, w).status = "open"
    BY <1>2, VerdictOK DEF Recommend, IInv
  <2> QED BY <1>2, <2>1, RecordTells DEF Recommend, commands
<1>3. ASSUME NEW j \in Junction, NEW a \in Action, NEW w \in BOOLEAN, DecideAndApply(j, a, w)
      PROVE  RecordsMatchCommands'
  <2> DEFINE d == Verdict(j, a, w)
  <2>1. d \in Decision
    BY <1>3, VerdictOK DEF DecideAndApply, IInv
  <2>2. Execute(issued + 1, d, TRUE)
    BY <1>3 DEF DecideAndApply
  <2>3. PICK s \in Outcome(d, TRUE) : Record([d EXCEPT !.status = s])
    BY <1>3 DEF DecideAndApply
  <2>4. s \in {"applied", "no executor", "no state", "refused"}
    BY <2>1, <2>3, OutcomeTells
  <2> DEFINE e == [d EXCEPT !.status = s]
  <2> HIDE DEF d
  <2>5. e \in Decision /\ e.status = s /\ e.action = d.action
    BY <2>1, <2>4 DEF Decision, Status
  <2>6. Record(e)
    BY <2>3
  <2> HIDE DEF e
  <2> QED BY <2>1, <2>2, <2>3, <2>5, <2>6, RecordTells
<1>4. ASSUME NEW j \in Junction, NEW id \in Ids, ApplyById(j, id)
      PROVE  RecordsMatchCommands'
  <2>1. CASE ApplyOpen(j, id)
    BY <2>1, ApplyOpenTells
  <2>2. CASE ApplyAgain(j, id)
    BY <1>1, <2>2 DEF ApplyAgain, log, commands
  <2> QED BY <1>4, <2>1, <2>2 DEF ApplyById
<1>5. CASE Clear
  BY <1>5 DEF Clear, RecordsMatchCommands
<1>6. CASE Drain
  BY <1>1, <1>6 DEF Drain, log
<1>7. CASE UNCHANGED vars
  BY <1>1, <1>7 DEF vars, log, commands
<1>8. ASSUME NEW j \in Junction, RegisterTopology(j) PROVE RecordsMatchCommands'
  BY <1>1, <1>8 DEF RegisterTopology, log, commands
<1>9. ASSUME NEW x \in Executor, RegisterExecutor(x) PROVE RecordsMatchCommands'
  BY <1>1, <1>9 DEF RegisterExecutor, log, commands
<1>10. ASSUME NEW j \in Junction, NEW p \in Phase, NEW t \in Time,
              NEW r \in Remaining \cup {NotReported}, ObserveSignal(j, p, t, r)
       PROVE  RecordsMatchCommands'
  BY <1>1, <1>10 DEF ObserveSignal, log, commands
<1> QED BY <1>2, <1>3, <1>4, <1>5, <1>6, <1>7, <1>8, <1>9, <1>10 DEF Next

\* A record tells the truth about its command, whatever the executor and the
\* evidence were when it was applied and however often it was asked for: an
\* executor was called for the decisions applied and not Hold and for those it
\* refused, and for none that is open or found no executor or no state.
THEOREM RecordsTellTheTruth == Spec => []RecordsMatchCommands
<1>1. Init => RecordsMatchCommands
  BY DEF Init, RecordsMatchCommands
<1> QED BY <1>1, Invariance, NextTells, PTL DEF Spec

-----------------------------------------------------------------------------
(* The queue of commands.  A queued command that is not the last of the     *)
(* queue has at least as many queued after it as stand behind it, so the    *)
(* one a full queue drops has MaxPending newer ones.                        *)

QueuedAfter(i) == {k \in DOMAIN calls : k > i /\ calls[k].queued}

NewerThan(i) == Cardinality(QueuedAfter(i))

PendingAreCalled ==
    \A p \in 1 .. Len(pending) : \E i \in DOMAIN calls : calls[i].id = pending[p]

BehindAreNewer ==
    \A p \in 1 .. Len(pending), i \in DOMAIN calls :
        calls[i].id = pending[p] => NewerThan(i) >= Len(pending) - p

Handed(id) == \E k \in DOMAIN Delivered : Delivered[k] = id

LostHaveNewer ==
    \A i \in DOMAIN calls :
        calls[i].queued => Handed(calls[i].id) \/ NewerThan(i) >= MaxPending

QueueInv ==
    /\ Len(pending) <= MaxPending
    /\ PendingAreCalled
    /\ BehindAreNewer
    /\ LostHaveNewer

\* What has been handed out or waits in the queue.
LEMMA HandedMeans ==
    ASSUME TypeOK, NEW id
    PROVE  Handed(id) <=> \/ \E k \in 1 .. Len(drained) : drained[k] = id
                          \/ \E k \in 1 .. Len(pending) : pending[k] = id
<1>1. drained \in Seq(Ids) /\ pending \in Seq(Ids)
  BY DEF TypeOK
<1>2. /\ DOMAIN Delivered = 1 .. (Len(drained) + Len(pending))
      /\ \A k \in 1 .. Len(drained) : Delivered[k] = drained[k]
      /\ \A k \in 1 .. Len(pending) : Delivered[Len(drained) + k] = pending[k]
  BY <1>1 DEF Delivered
<1>3. Len(drained) \in Nat /\ Len(pending) \in Nat
  BY <1>1
<1>4. ASSUME NEW k \in 1 .. (Len(drained) + Len(pending))
      PROVE  \/ k \in 1 .. Len(drained)
             \/ \E l \in 1 .. Len(pending) : k = Len(drained) + l
  <2>1. CASE k > Len(drained)
    <3>1. k - Len(drained) \in 1 .. Len(pending) /\ k = Len(drained) + (k - Len(drained))
      BY <1>3, <2>1
    <3> QED BY <3>1
  <2> QED BY <1>3, <2>1
<1>5. \A l \in 1 .. Len(pending) : Len(drained) + l \in DOMAIN Delivered
  BY <1>2, <1>3
<1>6. \A l \in 1 .. Len(drained) : l \in DOMAIN Delivered
  BY <1>2, <1>3
<1>7. ASSUME NEW k \in 1 .. Len(drained), drained[k] = id PROVE Handed(id)
  BY <1>2, <1>6, <1>7 DEF Handed
<1>8. ASSUME NEW k \in 1 .. Len(pending), pending[k] = id PROVE Handed(id)
  BY <1>2, <1>5, <1>8 DEF Handed
<1>9. ASSUME Handed(id)
      PROVE  \/ \E k \in 1 .. Len(drained) : drained[k] = id
             \/ \E k \in 1 .. Len(pending) : pending[k] = id
  <2>1. PICK k \in 1 .. (Len(drained) + Len(pending)) : Delivered[k] = id
    BY <1>2, <1>9 DEF Handed
  <2>2. CASE k \in 1 .. Len(drained)
    BY <1>2, <2>1, <2>2
  <2>3. ASSUME NEW l \in 1 .. Len(pending), k = Len(drained) + l
        PROVE  pending[l] = id
    BY <1>2, <2>1, <2>3
  <2> QED BY <1>4, <2>2, <2>3
<1> QED BY <1>7, <1>8, <1>9

\* Queued commands after one can be counted.
LEMMA NewerIsNat ==
    ASSUME calls \in Seq(Call), NEW i
    PROVE  IsFiniteSet(QueuedAfter(i)) /\ NewerThan(i) \in Nat
<1>1. IsFiniteSet(DOMAIN calls)
  <2>1. DOMAIN calls = 1 .. Len(calls) /\ Len(calls) \in Nat
    OBVIOUS
  <2> QED BY <2>1, FS_Interval
<1>2. IsFiniteSet(QueuedAfter(i))
  BY <1>1, FS_Subset DEF QueuedAfter
<1> QED BY <1>2, FS_CardinalityType DEF NewerThan

NewerCounted == \A i : NewerThan(i) \in Nat

LEMMA NewerAreCounted == TypeOK => NewerCounted
BY NewerIsNat DEF TypeOK, NewerCounted

HandedSaid ==
    \A id : Handed(id) <=> \/ \E k \in 1 .. Len(drained) : drained[k] = id
                           \/ \E k \in 1 .. Len(pending) : pending[k] = id

LEMMA HandedIsSaid == TypeOK => HandedSaid
BY HandedMeans DEF HandedSaid

\* One more queued command is one more after each of the earlier.
LEMMA OneMoreNewer ==
    ASSUME calls \in Seq(Call), NEW c \in Call, calls' = Append(calls, c),
           NEW i \in 1 .. Len(calls)
    PROVE  NewerThan(i)' = IF c.queued THEN NewerThan(i) + 1 ELSE NewerThan(i)
<1>1. /\ DOMAIN calls = 1 .. Len(calls) /\ Len(calls) \in Nat
      /\ DOMAIN calls' = 1 .. (Len(calls) + 1)
      /\ \A k \in 1 .. Len(calls) : calls'[k] = calls[k]
      /\ calls'[Len(calls) + 1] = c
  OBVIOUS
<1>2. IsFiniteSet(QueuedAfter(i)) /\ NewerThan(i) \in Nat
  BY NewerIsNat
<1>3. Len(calls) + 1 \notin QueuedAfter(i)
  BY <1>1 DEF QueuedAfter
<1>4. CASE c.queued
  <2>1. QueuedAfter(i)' = QueuedAfter(i) \cup {Len(calls) + 1}
    BY <1>1, <1>4 DEF QueuedAfter
  <2>2. Cardinality(QueuedAfter(i) \cup {Len(calls) + 1}) = Cardinality(QueuedAfter(i)) + 1
    BY <1>2, <1>3, FS_AddElement
  <2> QED BY <1>4, <2>1, <2>2 DEF NewerThan
<1>5. CASE ~c.queued
  <2>1. QueuedAfter(i)' = QueuedAfter(i)
    BY <1>1, <1>5 DEF QueuedAfter
  <2> QED BY <1>5, <2>1 DEF NewerThan
<1> QED BY <1>4, <1>5

\* A full queue loses its first command to the new one.
LEMMA PendingAfter ==
    ASSUME pending \in Seq(Ids), Len(pending) <= MaxPending, NEW id,
           NEW after, after = LastN(Append(pending, id), MaxPending)
    PROVE  /\ Len(pending) < MaxPending =>
                 /\ Len(after) = Len(pending) + 1
                 /\ \A p \in 1 .. Len(pending) : after[p] = pending[p]
           /\ Len(pending) = MaxPending =>
                 /\ Len(after) = MaxPending
                 /\ \A p \in 1 .. MaxPending : p > 1 => after[p - 1] = pending[p]
           /\ after[Len(after)] = id
<1> DEFINE T == Ids \cup {id}
<1>1. pending \in Seq(T) /\ MaxPending \in Nat /\ MaxPending > 0 /\ Len(pending) \in Nat
  BY ControllerAssumption
<1>a. id \in T
  OBVIOUS
<1> DEFINE all == Append(pending, id)
<1> HIDE DEF T
<1>2. /\ all \in Seq(T) /\ Len(all) = Len(pending) + 1 /\ all[Len(pending) + 1] = id
      /\ \A p \in 1 .. Len(pending) : all[p] = pending[p]
  BY <1>1, <1>a
<1> HIDE DEF all
<1>3. CASE Len(pending) < MaxPending
  <2>1. after = all
    BY <1>1, <1>2, <1>3 DEF LastN, all
  <2> QED BY <1>1, <1>2, <1>3, <2>1
<1>4. CASE Len(pending) = MaxPending
  <2>1. after = SubSeq(all, 2, MaxPending + 1)
    BY <1>1, <1>2, <1>4 DEF LastN, all
  <2>2. /\ after \in Seq(T) /\ Len(after) = MaxPending
        /\ \A p \in 1 .. MaxPending : after[p] = all[p + 1]
    BY <1>1, <1>2, <1>4, <2>1
  <2>3. after[MaxPending] = id
    BY <1>1, <1>2, <1>4, <2>2
  <2>4. \A p \in 1 .. MaxPending : p > 1 => after[p - 1] = pending[p]
    BY <1>1, <1>2, <1>4, <2>2
  <2> QED BY <1>4, <2>2, <2>3, <2>4
<1> QED BY <1>1, <1>3, <1>4

\* Handing over the command of an id that no command carries.
LEMMA ExecuteQueue ==
    ASSUME TypeOK, QueueInv, NEW id, NEW decision \in Decision, NEW evident \in BOOLEAN,
           Calls(decision, evident) => Command(id, decision) \in Call,
           \A k \in DOMAIN calls : calls[k].id # id,
           TypeOK', Execute(id, decision, evident)
    PROVE  QueueInv'
<1> DEFINE c == Command(id, decision)
<1>1. /\ calls \in Seq(Call) /\ DOMAIN calls = 1 .. Len(calls) /\ Len(calls) \in Nat
      /\ pending \in Seq(Ids) /\ Len(pending) \in Nat /\ MaxPending \in Nat /\ MaxPending > 0
  BY ControllerAssumption DEF TypeOK
<1>2. /\ Len(pending) <= MaxPending /\ PendingAreCalled /\ BehindAreNewer /\ LostHaveNewer
      /\ drained' = drained
  BY DEF QueueInv, Execute
<1>3. CASE ~Calls(decision, evident)
  <2>1. calls' = calls /\ pending' = pending
    BY <1>3 DEF Execute
  <2> QED
    BY <1>2, <2>1 DEF QueueInv, PendingAreCalled, BehindAreNewer, LostHaveNewer,
                      NewerThan, QueuedAfter, Handed, Delivered
<1>4. CASE Calls(decision, evident)
  <2>1. c.id = id /\ c \in Call /\ (c.queued <=> executor = "queue")
    BY <1>4 DEF Command
  <2>2. calls' = Append(calls, c)
    BY <1>4 DEF Execute
  <2> HIDE DEF c
  <2>3. /\ DOMAIN calls' = 1 .. (Len(calls) + 1)
        /\ \A k \in 1 .. Len(calls) : calls'[k] = calls[k]
        /\ calls'[Len(calls) + 1] = c
        /\ calls' \in Seq(Call)
    BY <1>1, <2>1, <2>2
  <2>4. \A i \in 1 .. Len(calls) : NewerThan(i)' = IF c.queued THEN NewerThan(i) + 1 ELSE NewerThan(i)
    BY <1>1, <2>1, <2>2, OneMoreNewer
  <2>5. \A i \in 1 .. Len(calls) : NewerThan(i) \in Nat
    BY <1>1, NewerIsNat
  <2>6. \A i : NewerThan(i)' \in Nat
    <3>1. NewerCounted'
      BY NewerAreCounted, PTL
    <3> QED BY <3>1 DEF NewerCounted
  <2>7. \A i \in 1 .. (Len(calls) + 1) : i \in 1 .. Len(calls) \/ i = Len(calls) + 1
    BY <1>1
  <2>8. CASE executor # "queue"
    <3>1. pending' = pending /\ ~c.queued
      BY <1>4, <2>1, <2>8 DEF Execute
    <3>2. \A x : Handed(x)' <=> Handed(x)
      BY <1>2, <3>1 DEF Handed, Delivered
    <3>3. \A i \in 1 .. Len(calls) : NewerThan(i)' = NewerThan(i)
      BY <2>4, <3>1
    <3>a. ASSUME NEW p \in 1 .. Len(pending)
          PROVE  \E i \in DOMAIN calls' : calls'[i].id = pending[p]
      <4>1. PICK i \in 1 .. Len(calls) : calls[i].id = pending[p]
        BY <1>1, <1>2 DEF PendingAreCalled
      <4>2. i \in DOMAIN calls' /\ calls'[i].id = pending[p]
        <5>1. i \in 1 .. (Len(calls) + 1)
          BY <1>1, <4>1
        <5> QED BY <2>3, <4>1, <5>1
      <4> QED BY <4>2
    <3>4. PendingAreCalled'
      BY <3>1, <3>a DEF PendingAreCalled
    <3>5. \A p \in 1 .. Len(pending) : pending[p] # id
      BY <1>2 DEF PendingAreCalled
    <3>6. ASSUME NEW p \in 1 .. Len(pending), NEW i \in DOMAIN calls', calls'[i].id = pending[p]
          PROVE  NewerThan(i)' >= Len(pending) - p
      <4>1. i # Len(calls) + 1
        BY <2>1, <2>3, <3>5, <3>6
      <4>2. i \in 1 .. Len(calls) /\ calls[i].id = pending[p]
        BY <2>3, <2>7, <3>6, <4>1
      <4>3. NewerThan(i) >= Len(pending) - p
        BY <1>1, <1>2, <4>2 DEF BehindAreNewer
      <4> QED BY <3>3, <4>2, <4>3
    <3>7. ASSUME NEW i \in DOMAIN calls', calls'[i].queued, NEW x, x = calls'[i].id
          PROVE  Handed(x)' \/ NewerThan(i)' >= MaxPending
      <4>1. i # Len(calls) + 1
        BY <2>3, <3>1, <3>7
      <4>2. i \in 1 .. Len(calls) /\ calls[i].queued /\ x = calls[i].id
        BY <2>3, <2>7, <3>7, <4>1
      <4>3. Handed(x) \/ NewerThan(i) >= MaxPending
        BY <1>1, <1>2, <4>2 DEF LostHaveNewer
      <4> QED BY <3>2, <3>3, <4>2, <4>3
    <3>8. BehindAreNewer'
      BY <3>1, <3>6 DEF BehindAreNewer
    <3>9. LostHaveNewer'
      BY <3>7 DEF LostHaveNewer, Handed
    <3> QED BY <1>2, <3>1, <3>4, <3>8, <3>9 DEF QueueInv
  <2>9. CASE executor = "queue"
    <3>1. pending' = LastN(Append(pending, id), MaxPending) /\ c.queued
      BY <1>4, <2>1, <2>9 DEF Execute
    <3>2. \A i \in 1 .. Len(calls) : NewerThan(i)' = NewerThan(i) + 1
      BY <2>4, <3>1
    <3>3. \A p \in 1 .. Len(pending) : pending[p] # id
      BY <1>2 DEF PendingAreCalled
    <3>4. /\ Len(pending) < MaxPending =>
                 /\ Len(pending') = Len(pending) + 1
                 /\ \A p \in 1 .. Len(pending) : pending'[p] = pending[p]
          /\ Len(pending) = MaxPending =>
                 /\ Len(pending') = MaxPending
                 /\ \A p \in 1 .. MaxPending : p > 1 => pending'[p - 1] = pending[p]
          /\ pending'[Len(pending')] = id
      <4>1. PICK after : after = pending'
        OBVIOUS
      <4>2. after = LastN(Append(pending, id), MaxPending)
        BY <3>1, <4>1
      <4> HIDE <4>1
      <4>3. /\ Len(pending) < MaxPending =>
                   /\ Len(after) = Len(pending) + 1
                   /\ \A p \in 1 .. Len(pending) : after[p] = pending[p]
            /\ Len(pending) = MaxPending =>
                   /\ Len(after) = MaxPending
                   /\ \A p \in 1 .. MaxPending : p > 1 => after[p - 1] = pending[p]
            /\ after[Len(after)] = id
        BY <1>1, <1>2, <4>2, PendingAfter
      <4> QED BY <4>1, <4>3
    <3>5. Len(pending') \in Nat /\ Len(pending') <= MaxPending /\ Len(pending') > 0
      BY <1>1, <1>2, <3>4
    \* A command of the new queue is the new one or one of the old.
    <3>6. ASSUME NEW p \in 1 .. Len(pending')
          PROVE  \/ p = Len(pending')
                 \/ \E q \in 1 .. Len(pending) :
                       pending'[p] = pending[q] /\ Len(pending') - p = (Len(pending) - q) + 1
      <4>1. CASE Len(pending) < MaxPending /\ p # Len(pending')
        <5>1. p \in 1 .. Len(pending)
          BY <1>1, <3>4, <4>1
        <5>2. Len(pending') - p = (Len(pending) - p) + 1
          BY <1>1, <3>4, <4>1
        <5>3. pending'[p] = pending[p]
          BY <3>4, <4>1, <5>1
        <5> QED BY <5>1, <5>2, <5>3
      <4>2. CASE Len(pending) = MaxPending /\ p # Len(pending')
        <5>1. p + 1 \in 1 .. MaxPending /\ p + 1 > 1 /\ (p + 1) - 1 = p
          BY <1>1, <3>4, <4>2
        <5>2. pending'[p] = pending[p + 1]
          BY <3>4, <4>2, <5>1
        <5>3. Len(pending') - p = (Len(pending) - (p + 1)) + 1
          BY <1>1, <3>4, <4>2
        <5> QED BY <4>2, <5>1, <5>2, <5>3
      <4> QED BY <1>1, <1>2, <4>1, <4>2
    <3>7. PendingAreCalled'
      <4>1. ASSUME NEW p \in 1 .. Len(pending') PROVE \E i \in DOMAIN calls' : calls'[i].id = pending'[p]
        <5>1. CASE p = Len(pending')
          BY <1>1, <2>1, <2>3, <3>4, <5>1
        <5>2. ASSUME NEW q \in 1 .. Len(pending), pending'[p] = pending[q]
              PROVE  \E i \in DOMAIN calls' : calls'[i].id = pending'[p]
          <6>1. PICK i \in DOMAIN calls : calls[i].id = pending[q]
            BY <1>2 DEF PendingAreCalled
          <6> QED BY <1>1, <2>3, <5>2, <6>1
        <5> QED BY <3>6, <5>1, <5>2
      <4> QED BY <4>1 DEF PendingAreCalled
    <3>8. BehindAreNewer'
      <4>1. ASSUME NEW p \in 1 .. Len(pending'), NEW i \in DOMAIN calls', calls'[i].id = pending'[p]
            PROVE  NewerThan(i)' >= Len(pending') - p
        <5>1. CASE p = Len(pending')
          BY <2>6, <3>5, <5>1
        <5>2. ASSUME NEW q \in 1 .. Len(pending), pending'[p] = pending[q],
                     Len(pending') - p = (Len(pending) - q) + 1
              PROVE  NewerThan(i)' >= Len(pending') - p
          <6>1. i # Len(calls) + 1
            BY <2>1, <2>3, <3>3, <4>1, <5>2
          <6>2. i \in 1 .. Len(calls) /\ calls[i].id = pending[q]
            BY <2>3, <2>7, <4>1, <5>2, <6>1
          <6>3. NewerThan(i) >= Len(pending) - q
            BY <1>1, <1>2, <6>2 DEF BehindAreNewer
          <6> QED BY <1>1, <2>5, <3>2, <5>2, <6>2, <6>3
        <5> QED BY <3>6, <5>1, <5>2
      <4> QED BY <4>1 DEF BehindAreNewer
    <3>9. LostHaveNewer'
      <4>1. HandedSaid
        BY HandedIsSaid
      <4>2. HandedSaid'
        BY HandedIsSaid, PTL
      <4>3. ASSUME NEW i \in 1 .. Len(calls), calls[i].queued, NEW x, x = calls[i].id
            PROVE  Handed(x)' \/ NewerThan(i)' >= MaxPending
        <5>1. CASE NewerThan(i) >= MaxPending
          BY <1>1, <2>5, <3>2, <5>1
        <5>2. ASSUME NEW k \in 1 .. Len(drained), drained[k] = x
              PROVE  Handed(x)'
          BY <1>2, <4>2, <5>2 DEF HandedSaid
        <5>3. ASSUME NEW q \in 1 .. Len(pending), pending[q] = x
              PROVE  Handed(x)' \/ NewerThan(i)' >= MaxPending
          <6>1. CASE Len(pending) < MaxPending
            <7>1. q \in 1 .. Len(pending') /\ pending'[q] = x
              BY <1>1, <3>4, <5>3, <6>1
            <7> QED BY <4>2, <7>1 DEF HandedSaid
          <6>2. CASE Len(pending) = MaxPending /\ q > 1
            <7>1. q - 1 \in 1 .. Len(pending') /\ pending'[q - 1] = x
              BY <1>1, <3>4, <5>3, <6>2
            <7> QED BY <4>2, <7>1 DEF HandedSaid
          <6>3. CASE Len(pending) = MaxPending /\ q = 1
            <7>1. NewerThan(i) >= MaxPending - 1
              BY <1>1, <1>2, <4>3, <5>3, <6>3 DEF BehindAreNewer
            <7> QED BY <1>1, <2>5, <3>2, <7>1
          <6> QED BY <1>1, <1>2, <6>1, <6>2, <6>3
        <5>4. Handed(x) \/ NewerThan(i) >= MaxPending
          BY <1>1, <1>2, <4>3 DEF LostHaveNewer
        <5> QED BY <4>1, <5>1, <5>2, <5>3, <5>4 DEF HandedSaid
      <4>4. Handed(id)'
        <5>1. Len(pending') \in 1 .. Len(pending')
          BY <3>5
        <5> QED BY <3>4, <4>2, <5>1 DEF HandedSaid
      <4>5. ASSUME NEW i \in DOMAIN calls', calls'[i].queued, NEW x, x = calls'[i].id
            PROVE  Handed(x)' \/ NewerThan(i)' >= MaxPending
        <5>1. CASE i = Len(calls) + 1
          <6>1. x = id
            BY <2>1, <2>3, <4>5, <5>1
          <6> QED BY <4>4, <6>1
        <5>2. CASE i \in 1 .. Len(calls)
          <6>1. calls[i].queued /\ x = calls[i].id
            BY <2>3, <4>5, <5>2
          <6> QED BY <4>3, <5>2, <6>1
        <5> QED BY <2>3, <2>7, <5>1, <5>2
      <4> QED BY <4>5 DEF LostHaveNewer, Handed
    <3> QED BY <3>5, <3>7, <3>8, <3>9 DEF QueueInv
  <2> QED BY <2>8, <2>9
<1> QED BY <1>3, <1>4

\* A step that calls no executor and drains nothing.
LEMMA QueueUntouched ==
    ASSUME QueueInv, UNCHANGED commands
    PROVE  QueueInv'
BY DEF commands, QueueInv, PendingAreCalled, BehindAreNewer, LostHaveNewer,
       NewerThan, QueuedAfter, Handed, Delivered

LEMMA NextQueue == IInv /\ IInv' /\ QueueInv /\ [Next]_vars => QueueInv'
<1> SUFFICES ASSUME IInv, IInv', QueueInv, [Next]_vars PROVE QueueInv'
  OBVIOUS
<1>0. /\ TypeOK /\ TypeOK' /\ CallsAreIssued /\ issued \in Nat
      /\ DOMAIN calls = 1 .. Len(calls)
  BY DEF IInv, TypeOK
<1>1. ASSUME UNCHANGED commands PROVE QueueInv'
  BY <1>1, QueueUntouched
<1>2. ASSUME NEW j \in Junction, NEW a \in Action, NEW w \in BOOLEAN, Recommend(j, a, w)
      PROVE  QueueInv'
  BY <1>1, <1>2 DEF Recommend
<1>3. ASSUME NEW j \in Junction, NEW a \in Action, NEW w \in BOOLEAN, DecideAndApply(j, a, w)
      PROVE  QueueInv'
  <2> DEFINE d == Verdict(j, a, w)
  <2>1. d \in Decision /\ d.junction = j
    BY <1>0, <1>3, VerdictOK DEF DecideAndApply
  <2>2. PICK id : id = issued + 1
    OBVIOUS
  <2>3. Execute(id, d, TRUE)
    BY <1>3, <2>2 DEF DecideAndApply
  <2>4. Elapsed(j) \in Nat
    BY <1>0, <1>3, ElapsedNat DEF DecideAndApply, Observable
  <2> HIDE DEF d
  <2>5. Command(id, d) \in Call
    BY <1>0, <2>1, <2>2, <2>4 DEF Command, Call, Decision
  <2>6. \A k \in DOMAIN calls : calls[k].id # id
    BY <1>0, <2>2 DEF CallsAreIssued, Ids
  <2> QED BY <1>0, <2>1, <2>3, <2>5, <2>6, ExecuteQueue
<1>4. ASSUME NEW j \in Junction, NEW id \in Ids, ApplyById(j, id)
      PROVE  QueueInv'
  <2>1. CASE ApplyOpen(j, id)
    <3>1. /\ id \in DOMAIN decisions /\ decisions[id].status = "open"
          /\ decisions[id] \in Decision /\ id \in Nat \ {0}
      BY <1>0, <2>1 DEF ApplyOpen, Open, TypeOK, Ids
    <3>2. Elapsed(decisions[id].junction) \in Nat
      <4>1. decisions[id].junction \in Junction /\ signal[decisions[id].junction] # NoSignal
        BY <3>1 DEF IInv, LoggedIsObserved, Decision
      <4> QED BY <1>0, <4>1, ElapsedNat
    <3>3. Command(id, decisions[id]) \in Call
      BY <3>1, <3>2 DEF Command, Call, Decision
    <3>4. \A k \in DOMAIN calls : calls[k].id # id
      BY <1>0, <3>1 DEF IInv, OpenIsUncalled
    <3>5. PICK evident \in BOOLEAN : Execute(id, decisions[id], evident)
      BY <2>1 DEF ApplyOpen
    <3>6. PICK d \in Decision : d = decisions[id]
      BY <3>1
    <3> QED BY <1>0, <3>3, <3>4, <3>5, <3>6, ExecuteQueue
  <2>2. CASE ApplyAgain(j, id)
    BY <1>1, <2>2 DEF ApplyAgain
  <2> QED BY <1>4, <2>1, <2>2 DEF ApplyById
<1>5. CASE Clear
  BY <1>1, <1>5 DEF Clear
<1>6. CASE Drain
  <2>1. drained \in Seq(Ids) /\ pending \in Seq(Ids)
    BY <1>0 DEF TypeOK
  <2>2. /\ drained' = drained \o pending /\ pending' = << >> /\ calls' = calls
    BY <1>6 DEF Drain
  <2>3. Delivered' = Delivered
    <3>1. (drained \o pending) \o << >> = drained \o pending
      BY <2>1
    <3> QED BY <2>2, <3>1 DEF Delivered
  <2>4. Len(pending') = 0
    BY <2>2
  <2>5. \A p \in 1 .. Len(pending') : FALSE
    BY <2>4
  <2>6. LostHaveNewer'
    BY <2>2, <2>3 DEF QueueInv, LostHaveNewer, Handed, NewerThan, QueuedAfter
  <2> QED
    BY <2>4, <2>5, <2>6, ControllerAssumption DEF QueueInv, PendingAreCalled, BehindAreNewer
<1>7. CASE UNCHANGED vars
  BY <1>1, <1>7 DEF vars
<1>8. ASSUME NEW j \in Junction, RegisterTopology(j) PROVE QueueInv'
  BY <1>1, <1>8 DEF RegisterTopology
<1>9. ASSUME NEW x \in Executor, RegisterExecutor(x) PROVE QueueInv'
  BY <1>1, <1>9 DEF RegisterExecutor
<1>10. ASSUME NEW j \in Junction, NEW p \in Phase, NEW t \in Time,
              NEW r \in Remaining \cup {NotReported}, ObserveSignal(j, p, t, r)
       PROVE  QueueInv'
  BY <1>1, <1>10 DEF ObserveSignal
<1> QED BY <1>2, <1>3, <1>4, <1>5, <1>6, <1>7, <1>8, <1>9, <1>10 DEF Next

\* A command that was queued and never handed to a poller was pushed out by at
\* least MaxPending commands queued after it (_queue_command cuts the queue),
\* however polls, resets and changes of the executor fall in between.
THEOREM OnlyNewerPushOut == Spec => []LostOnlyToNewer
<1>1. Init => QueueInv
  <2> SUFFICES ASSUME Init PROVE QueueInv
    OBVIOUS
  <2>1. Len(pending) = 0 /\ DOMAIN calls = {}
    BY DEF Init
  <2> QED
    BY <2>1, ControllerAssumption DEF QueueInv, PendingAreCalled, BehindAreNewer, LostHaveNewer
<1>2. QueueInv => LostOnlyToNewer
  BY DEF QueueInv, LostHaveNewer, LostOnlyToNewer, Handed, NewerThan, QueuedAfter
<1> QED BY <1>1, <1>2, Invariance, NextQueue, PTL DEF Spec


-----------------------------------------------------------------------------
(* The stand-alone service.  An environment at or past the maximum green    *)
(* has either (Calm) so few seconds that every action judged for it and not *)
(* made yet may still take ten, or (Ending) so little of its duration left, *)
(* extensions judged for it included, that it ends in time by itself: a     *)
(* switch is put off only when less than the clearance is left.             *)

Env == [phase : 0 .. 3, elapsed : Nat, duration : Nat, waiting : BOOLEAN]

\* A phase that is not over.
Runs(e) == e \in Env /\ e.elapsed < e.duration

Said    == Safe!Action \cup {"none"}
Stage   == {"idle", "make", "judge", "step", "act", "train", "greedy", "fixed",
            "save", "write", "install"}
Request == [at : Stage, env : Nat, said : Said, done : Said, policy : Int, own : Env]

\* Requests that are going to make an action other than a switch, and those
\* that are going to extend.
Acting(i) ==
    {c \in Clients : client[c].at = "act" /\ client[c].env = i /\ client[c].done # Safe!NextPhase}

Extending(i) == {c \in Acting(i) : client[c].done \in Safe!Extension}

OtherClients == 10 * (Cardinality(Clients) - 1)

Calm(i) ==
    envs[i].elapsed + 10 * Cardinality(Acting(i)) <= MostGreenS + StepS - 1 + OtherClients

Ending(i) ==
    envs[i].duration + 10 * Cardinality(Extending(i))
       <= MostGreenS + StepS + ClearanceS - 2 + OtherClients

EnvBounded(i) == envs[i].elapsed >= MostGreenS => Calm(i) \/ Ending(i)

RequestOK(c) ==
    /\ client[c].at = "judge" => held # 0
    /\ client[c].at \in {"step", "act"} => client[c].env \in 1 .. Len(envs)
    /\ client[c].at = "step" => client[c].said \in Safe!Action
    /\ client[c].at = "act" => client[c].done \in Safe!Action
    /\ Practising(c) => Runs(client[c].own)
    /\ client[c].own.elapsed <= MostGreenS + StepS

TrainingTypes ==
    /\ envs \in Seq(Env) /\ \A i \in 1 .. Len(envs) : Runs(envs[i])
    /\ held \in 0 .. Len(envs)
    /\ client \in [Clients -> Request]
    /\ served \in Int /\ file \in Int /\ trained \in Int

TrainingInv ==
    /\ TrainingTypes
    /\ \A c \in Clients : RequestOK(c)
    /\ \A i \in 1 .. Len(envs) : EnvBounded(i)

\* At the maximum a switch is forced, or the phase is about to end.
LEMMA JudgedAtTheMaximum ==
    ASSUME NEW e \in Env, NEW action \in Safe!Action
    PROVE  /\ Judgement(e, action) \in Safe!Action
           /\ e.elapsed >= MostGreenS /\ Judgement(e, action) # Safe!NextPhase =>
                 /\ Judgement(e, action) = Safe!Hold
                 /\ e.duration < e.elapsed + ClearanceS
<1>1. e.elapsed \in Nat /\ e.duration \in Nat /\ e.waiting \in BOOLEAN
  BY DEF Env
<1>2. /\ MostGreenS \in Nat /\ ClearanceS \in Nat /\ LeastGreenS \in Nat
      /\ LeastGreenS <= MostGreenS /\ CapS \in Nat /\ CapS > 0
  BY TrainingConstants
<1>3. TimeLeft(e) < ClearanceS /\ ClearanceS \in Nat => e.duration < e.elapsed + ClearanceS
  BY <1>1, <1>2 DEF TimeLeft
<1> QED
  BY <1>1, <1>2, <1>3
     DEF Judgement, Safe!Validate, Safe!TooEarly, Safe!TooLong, Safe!StillClearing,
         Safe!NearTheCap, Safe!Action, Safe!Extension, Safe!Hold, Safe!Extend5,
         Safe!Extend10, Safe!NextPhase

LEMMA NextPhaseRuns ==
    ASSUME NEW e \in Env
    PROVE  Runs(NextPhaseOf(e)) /\ NextPhaseOf(e).elapsed = 0
<1>1. e.phase \in 0 .. 3 /\ GreenS \in Nat /\ GreenS > 0 /\ RedS \in Nat /\ RedS > 0
  BY TrainingConstants DEF Env
<1>2. (e.phase + 1) % 4 \in 0 .. 3
  BY <1>1
<1>3. \A p : Default(p) \in Nat /\ Default(p) > 0
  BY <1>1 DEF Default
<1>4. PICK p \in 0 .. 3 : p = (e.phase + 1) % 4
  BY <1>2
<1>5. NextPhaseOf(e) = [e EXCEPT !.phase = p, !.elapsed = 0, !.duration = Default(p)]
  BY <1>4 DEF NextPhaseOf
<1>6. PICK d \in Nat : d = Default(p) /\ d > 0
  BY <1>3
<1>7. NextPhaseOf(e) = [e EXCEPT !.phase = p, !.elapsed = 0, !.duration = d]
  BY <1>5, <1>6
<1>8. [e EXCEPT !.phase = p, !.elapsed = 0, !.duration = d] \in Env
  BY <1>4, <1>6 DEF Env
<1>9. /\ [e EXCEPT !.phase = p, !.elapsed = 0, !.duration = d].elapsed = 0
      /\ [e EXCEPT !.phase = p, !.elapsed = 0, !.duration = d].duration = d
  BY DEF Env
<1> QED BY <1>6, <1>7, <1>8, <1>9 DEF Runs

\* What a step makes of an environment.
LEMMA StepTakes ==
    ASSUME NEW e, Runs(e), NEW action \in Safe!Action, NEW f \in Stepped(e, action)
    PROVE  /\ Runs(f)
           /\ action = Safe!NextPhase => f.elapsed <= StepS
           /\ action # Safe!NextPhase =>
                 \/ f.elapsed = 0
                 \/ /\ f.elapsed = e.elapsed + StepS
                    /\ action \in Safe!Extension => f.duration <= e.duration + 10
                    /\ action \notin Safe!Extension =>
                          f.duration = e.duration /\ f.elapsed < e.duration
<1>1. /\ e \in Env /\ e.elapsed \in Nat /\ e.duration \in Nat /\ e.elapsed < e.duration
      /\ StepS \in Nat
  BY TrainingConstants DEF Runs, Env
<1> DEFINE a == Acted(e, action)
<1>2. /\ a \in Env
      /\ action = Safe!NextPhase => a.elapsed = 0
      /\ action # Safe!NextPhase => a.elapsed = e.elapsed
      /\ action \in Safe!Extension => a.duration <= e.duration + 10
      /\ action # Safe!NextPhase /\ action \notin Safe!Extension => a.duration = e.duration
  <2>1. CASE action = Safe!NextPhase
    <3>1. a = NextPhaseOf(e)
      BY <2>1 DEF Acted, Safe!NextPhase, Safe!Extend5, Safe!Extend10, Safe!Hold
    <3> HIDE DEF a
    <3> QED BY <1>1, <2>1, <3>1, NextPhaseRuns DEF Runs, Safe!Extension, Safe!NextPhase, Safe!Extend5, Safe!Extend10
  <2>2. CASE action = Safe!Extend5
    <3>1. a = [e EXCEPT !.duration = @ + 5]
      BY <2>2 DEF Acted, Safe!NextPhase, Safe!Extend5, Safe!Extend10, Safe!Hold
    <3> HIDE DEF a
    <3> QED BY <1>1, <2>2, <3>1 DEF Env, Safe!Extension, Safe!NextPhase, Safe!Extend5, Safe!Extend10
  <2>3. CASE action = Safe!Extend10
    <3>1. a = [e EXCEPT !.duration = @ + 10]
      BY <2>3 DEF Acted, Safe!NextPhase, Safe!Extend5, Safe!Extend10, Safe!Hold
    <3> HIDE DEF a
    <3> QED BY <1>1, <2>3, <3>1 DEF Env, Safe!Extension, Safe!NextPhase, Safe!Extend5, Safe!Extend10
  <2>4. CASE action = Safe!Hold
    <3>1. a = e
      BY <2>4 DEF Acted, Safe!NextPhase, Safe!Extend5, Safe!Extend10, Safe!Hold
    <3> HIDE DEF a
    <3> QED BY <1>1, <2>4, <3>1 DEF Safe!Extension, Safe!NextPhase, Safe!Extend5, Safe!Extend10, Safe!Hold
  <2> QED BY <2>1, <2>2, <2>3, <2>4 DEF Safe!Action, Safe!Extension
<1> DEFINE later == [a EXCEPT !.elapsed = @ + StepS]
           g     == Simulated(a)
<1> HIDE DEF a
<1>3. /\ later \in Env /\ later.elapsed = a.elapsed + StepS /\ later.duration = a.duration
  BY <1>1, <1>2 DEF Env
<1>4. /\ Runs(g)
      /\ g.elapsed = 0 \/ (g.elapsed = later.elapsed /\ g.duration = later.duration)
  <2> HIDE DEF later
  <2>1. g = IF later.elapsed >= later.duration THEN NextPhaseOf(later) ELSE later
    BY DEF g, Simulated, Expired, later
  <2> HIDE DEF g
  <2>2. CASE later.elapsed >= later.duration
    BY <1>3, <2>1, <2>2, NextPhaseRuns
  <2>3. CASE ~(later.elapsed >= later.duration)
    BY <1>1, <1>3, <2>1, <2>3 DEF Runs, Env
  <2> QED BY <2>2, <2>3
<1>5. PICK w \in BOOLEAN : f = [g EXCEPT !.waiting = w]
  BY DEF Stepped, a
<1> HIDE DEF g, later
<1>6. Runs(f) /\ f.elapsed = g.elapsed /\ f.duration = g.duration
  BY <1>4, <1>5 DEF Runs, Env
<1>7. f.elapsed \in Nat /\ f.duration \in Nat /\ f.elapsed < f.duration
      /\ a.elapsed \in Nat /\ a.duration \in Nat
  BY <1>2, <1>6 DEF Runs, Env
<1>8. f.elapsed = 0 \/ (f.elapsed = a.elapsed + StepS /\ f.duration = a.duration)
  BY <1>3, <1>4, <1>6
<1>9. action = Safe!NextPhase => f.elapsed <= StepS
  BY <1>1, <1>2, <1>7, <1>8
<1>10. ASSUME action # Safe!NextPhase, f.elapsed # 0
       PROVE  /\ f.elapsed = e.elapsed + StepS
              /\ action \in Safe!Extension => f.duration <= e.duration + 10
              /\ action \notin Safe!Extension => f.duration = e.duration /\ f.elapsed < e.duration
  BY <1>2, <1>7, <1>8, <1>10
<1> QED BY <1>6, <1>9, <1>10

-----------------------------------------------------------------------------
LEMMA ActingCounted ==
    ASSUME NEW i
    PROVE  /\ IsFiniteSet(Acting(i)) /\ Cardinality(Acting(i)) \in Nat
           /\ IsFiniteSet(Extending(i)) /\ Cardinality(Extending(i)) \in Nat
           /\ Cardinality(Extending(i)) <= Cardinality(Acting(i))
<1>1. Acting(i) \subseteq Clients /\ Extending(i) \subseteq Acting(i) /\ IsFiniteSet(Clients)
  BY TrainingConstants DEF Acting, Extending
<1> QED BY <1>1, FS_Subset, FS_CardinalityType

\* A request that neither is about to act nor gets to that.
LEMMA OthersAct ==
    ASSUME client \in [Clients -> Request], NEW c \in Clients, NEW x,
           client' = [client EXCEPT ![c] = x],
           client[c].at # "act", x.at # "act", NEW i
    PROVE  Acting(i)' = Acting(i) /\ Extending(i)' = Extending(i)
<1>1. /\ client'[c] = x /\ \A d \in Clients \ {c} : client'[d] = client[d]
  OBVIOUS
<1>2. Acting(i)' = Acting(i)
  BY <1>1 DEF Acting
<1>3. c \notin Acting(i)
  BY DEF Acting
<1> QED BY <1>1, <1>2, <1>3 DEF Extending

\* A step of one request that makes no environment act.
LEMMA QuietStep ==
    ASSUME TrainingInv, NEW c \in Clients, NEW x \in Request,
           client' = [client EXCEPT ![c] = x],
           client[c].at # "act", x.at # "act",
           UNCHANGED <<envs, held>>, served' \in Int, file' \in Int, trained' \in Int,
           x.at = "judge" => held # 0,
           x.at = "step" => x.env \in 1 .. Len(envs) /\ x.said \in Safe!Action,
           x.at \in {"train", "greedy", "fixed"} => Runs(x.own),
           x.own.elapsed <= MostGreenS + StepS
    PROVE  TrainingInv'
<1>1. /\ TrainingTypes /\ (\A d \in Clients : RequestOK(d))
      /\ client \in [Clients -> Request] /\ envs' = envs /\ held' = held
  BY DEF TrainingInv, TrainingTypes
<1>2. TrainingTypes'
  BY <1>1 DEF TrainingTypes
<1>3. ASSUME NEW d \in Clients PROVE RequestOK(d)'
  <2>1. CASE d = c
    <3>1. client'[d] = x
      BY <1>1, <2>1
    <3> QED BY <1>1, <3>1 DEF RequestOK, Practising
  <2>2. CASE d # c
    <3>1. client'[d] = client[d]
      BY <1>1, <2>2
    <3> QED BY <1>1, <3>1 DEF RequestOK, Practising
  <2> QED BY <2>1, <2>2
<1>4. ASSUME NEW i \in 1 .. Len(envs) PROVE EnvBounded(i)'
  <2>1. Acting(i)' = Acting(i) /\ Extending(i)' = Extending(i)
    BY <1>1, OthersAct
  <2>2. EnvBounded(i)
    BY DEF TrainingInv
  <2> QED BY <1>1, <2>1, <2>2 DEF EnvBounded, Calm, Ending
<1> QED BY <1>1, <1>2, <1>3, <1>4 DEF TrainingInv

\* An action judged is one more to be made; past the maximum it is a switch,
\* or the phase is about to end.
LEMMA StepJudgesInv ==
    ASSUME TrainingInv, NEW c \in Clients, StepJudges(c)
    PROVE  TrainingInv'
<1> DEFINE j    == client[c].env
           done == Judgement(envs[j], client[c].said)
           x    == [client[c] EXCEPT !.at = "act", !.done = done]
<1>1. /\ TrainingTypes /\ RequestOK(c) /\ client[c].at = "step" /\ client[c] \in Request
      /\ client \in [Clients -> Request] /\ envs \in Seq(Env)
  BY DEF TrainingInv, TrainingTypes, StepJudges
<1>2. j \in 1 .. Len(envs) /\ client[c].said \in Safe!Action /\ envs[j] \in Env /\ Runs(envs[j])
  BY <1>1 DEF RequestOK, TrainingTypes
<1>3. /\ done \in Safe!Action
      /\ envs[j].elapsed >= MostGreenS /\ done # Safe!NextPhase =>
            done = Safe!Hold /\ envs[j].duration < envs[j].elapsed + ClearanceS
  BY <1>2, JudgedAtTheMaximum
<1>4. /\ client' = [client EXCEPT ![c] = x]
      /\ envs' = envs /\ held' = held /\ served' = served /\ file' = file /\ trained' = trained
  BY DEF StepJudges, Moves, Data
<1>p. PICK k \in 1 .. Len(envs), a \in Safe!Action : k = j /\ a = done
  BY <1>2, <1>3
<1> HIDE DEF done, j
<1>5. /\ x \in Request /\ x.at = "act" /\ x.env = k /\ x.done = a /\ x.own = client[c].own
  <2>1. PICK q \in Request : q = client[c]
    BY <1>1
  <2>2. a \in Said /\ k \in Nat /\ q.env = k
    BY <1>1, <1>p, <2>1 DEF Said, j
  <2>3. x = [q EXCEPT !.at = "act", !.done = a]
    BY <1>p, <2>1
  <2> HIDE DEF x
  <2>4. x \in Request /\ x.at = "act" /\ x.env = q.env /\ x.done = a /\ x.own = q.own
    BY <2>2, <2>3 DEF Request, Stage
  <2> QED BY <2>1, <2>2, <2>4
<1> HIDE DEF x
<1>6. client'[c] = x /\ \A d \in Clients \ {c} : client'[d] = client[d]
  BY <1>1, <1>4
<1>7. TrainingTypes'
  BY <1>1, <1>4, <1>5 DEF TrainingTypes
<1>8. ASSUME NEW d \in Clients PROVE RequestOK(d)'
  <2>1. CASE d = c
    BY <1>1, <1>4, <1>5, <1>6, <2>1 DEF RequestOK, Practising
  <2>2. CASE d # c
    BY <1>4, <1>6, <2>2 DEF RequestOK, Practising, TrainingInv
  <2> QED BY <2>1, <2>2
<1>a. \A i : Acting(i) \subseteq Clients /\ Acting(i)' \subseteq Clients
  BY DEF Acting
<1>9. ASSUME NEW i \in 1 .. Len(envs) PROVE EnvBounded(i)'
  <2>0. /\ EnvBounded(i) /\ c \notin Acting(i)
        /\ envs[i].elapsed \in Nat /\ envs[i].duration \in Nat
    <3>1. envs[i] \in Env
      BY <1>1
    <3> QED BY <1>1, <3>1 DEF TrainingInv, Acting, Env
  <2>1. CASE i # k \/ a = Safe!NextPhase
    <3>0. \A d \in Clients : d \in Acting(i)' <=> d \in Acting(i)
      <4> TAKE d \in Clients
      <4>1. CASE d = c
        BY <1>5, <1>6, <2>0, <2>1, <4>1 DEF Acting
      <4>2. CASE d # c
        BY <1>6, <4>2 DEF Acting
      <4> QED BY <4>1, <4>2
    <3>1. Acting(i)' = Acting(i)
      BY <1>a, <3>0
    <3>2. Extending(i)' = Extending(i)
      BY <1>6, <1>a, <2>0, <3>1 DEF Extending
    <3> QED BY <1>4, <2>0, <3>1, <3>2 DEF EnvBounded, Calm, Ending
  <2>2. CASE i = k /\ a # Safe!NextPhase
    <3>1. ASSUME envs[i].elapsed >= MostGreenS PROVE Ending(i)'
      <4>1. a = Safe!Hold /\ envs[i].duration < envs[i].elapsed + ClearanceS
        BY <1>3, <1>p, <2>2, <3>1 DEF j
      <4>0. \A d \in Clients : d \in Acting(i)' <=> d \in Acting(i) \/ d = c
        <5> TAKE d \in Clients
        <5>1. CASE d = c
          BY <1>5, <1>6, <2>2, <5>1 DEF Acting
        <5>2. CASE d # c
          BY <1>6, <5>2 DEF Acting
        <5> QED BY <5>1, <5>2
      <4>2. Acting(i)' = Acting(i) \cup {c}
        BY <1>a, <4>0
      <4>3. Extending(i)' = Extending(i)
        BY <1>5, <1>6, <1>a, <2>0, <4>1, <4>2
           DEF Extending, Safe!Extension, Safe!Hold, Safe!Extend5, Safe!Extend10
      <4>4. /\ Cardinality(Acting(i)) \in Nat /\ Cardinality(Extending(i)) \in Nat
            /\ Cardinality(Extending(i)) <= Cardinality(Acting(i))
        BY ActingCounted
      <4>5. Calm(i) \/ Ending(i)
        BY <2>0, <3>1 DEF EnvBounded
      <4>6. OtherClients \in Int /\ MostGreenS \in Nat /\ StepS \in Nat /\ ClearanceS \in Nat
        BY TrainingConstants, FS_CardinalityType DEF OtherClients
      <4>7. CASE Calm(i)
        <5>0. PICK act \in Nat, ext \in Nat, others \in Int :
                 /\ act = Cardinality(Acting(i)) /\ ext = Cardinality(Extending(i))
                 /\ others = OtherClients
          BY <4>4, <4>6
        <5>a. /\ envs[i].elapsed + 10 * act <= MostGreenS + StepS - 1 + others
              /\ ext <= act
          BY <4>4, <4>7, <5>0 DEF Calm
        <5>b. envs[i].duration + 10 * ext <= MostGreenS + StepS + ClearanceS - 2 + others
          <6>1. PICK len \in Nat, run \in Nat : len = envs[i].duration /\ run = envs[i].elapsed
            BY <2>0
          <6>2. len < run + ClearanceS /\ run + 10 * act <= MostGreenS + StepS - 1 + others
            BY <4>1, <5>a, <6>1
          <6>3. len <= run + ClearanceS - 1
            BY <4>6, <6>2
          <6>4. 10 * ext <= 10 * act
            BY <5>a
          <6>5. run + 10 * ext <= MostGreenS + StepS - 1 + others
            BY <4>6, <6>2, <6>4
          <6>6. len + 10 * ext <= MostGreenS + StepS + ClearanceS - 2 + others
            BY <4>6, <6>3, <6>5
          <6> QED BY <6>1, <6>6
        <5>1. envs[i].duration + 10 * Cardinality(Extending(i))
                 <= MostGreenS + StepS + ClearanceS - 2 + OtherClients
          BY <5>0, <5>b
        <5> QED BY <1>4, <4>3, <5>1 DEF Ending
      <4>8. CASE Ending(i)
        BY <1>4, <4>3, <4>8 DEF Ending
      <4> QED BY <4>5, <4>7, <4>8
    <3> QED BY <1>4, <3>1 DEF EnvBounded
  <2> QED BY <2>1, <2>2
<1> QED BY <1>4, <1>7, <1>8, <1>9 DEF TrainingInv

\* The action is made: there is one less to make, for its environment.
LEMMA StepActsInv ==
    ASSUME TrainingInv, NEW c \in Clients, StepActs(c)
    PROVE  TrainingInv'
<1>1. /\ TrainingTypes /\ RequestOK(c) /\ client[c].at = "act" /\ client[c] \in Request
      /\ client \in [Clients -> Request] /\ envs \in Seq(Env) /\ Len(envs) \in Nat
  BY DEF TrainingInv, TrainingTypes, StepActs
<1>2. client[c].env \in 1 .. Len(envs) /\ client[c].done \in Safe!Action
  BY <1>1 DEF RequestOK
<1>p. PICK k \in 1 .. Len(envs), a \in Safe!Action : k = client[c].env /\ a = client[c].done
  BY <1>2
<1>3. PICK f \in Stepped(envs[k], a) : envs' = [envs EXCEPT ![k] = f]
  BY <1>p DEF StepActs
<1>4. /\ client' = [client EXCEPT ![c] = Idle]
      /\ held' = held /\ served' = served /\ file' = file /\ trained' = trained
  BY DEF StepActs, Moves
<1>5. Runs(envs[k])
  BY <1>1 DEF TrainingTypes
<1>e. PICK e : e = envs[k]
  OBVIOUS
<1>6. /\ Runs(f)
      /\ a = Safe!NextPhase => f.elapsed <= StepS
      /\ a # Safe!NextPhase =>
            \/ f.elapsed = 0
            \/ /\ f.elapsed = e.elapsed + StepS
               /\ a \in Safe!Extension => f.duration <= e.duration + 10
               /\ a \notin Safe!Extension => f.duration = e.duration /\ f.elapsed < e.duration
  BY <1>3, <1>5, <1>e, StepTakes
<1>7. /\ envs' \in Seq(Env) /\ Len(envs') = Len(envs) /\ envs'[k] = f
      /\ \A i \in 1 .. Len(envs) : i # k => envs'[i] = envs[i]
  BY <1>1, <1>3, <1>6 DEF Runs
<1>8. /\ Idle \in Request /\ Idle.at = "idle" /\ Idle.own.elapsed = 0
      /\ client'[c] = Idle /\ \A d \in Clients \ {c} : client'[d] = client[d]
  <2>1. NoEnv \in Env /\ NoEnv.elapsed = 0
    BY DEF NoEnv, Env, NsGreen
  <2>2. Idle \in Request /\ Idle.at = "idle" /\ Idle.own = NoEnv
    BY <2>1 DEF Idle, Request, Said, Stage
  <2> HIDE DEF Idle
  <2> QED BY <1>1, <1>4, <2>1, <2>2
<1>9. TrainingTypes'
  BY <1>1, <1>4, <1>6, <1>7, <1>8 DEF TrainingTypes
<1>10. MostGreenS \in Nat /\ MostGreenS > 0 /\ StepS \in Nat /\ StepS > 0 /\ StepS <= 10 /\ ClearanceS \in Nat
       /\ Cardinality(Clients) \in Nat /\ OtherClients = 10 * (Cardinality(Clients) - 1)
  BY TrainingConstants, FS_CardinalityType DEF OtherClients
<1>11. ASSUME NEW d \in Clients PROVE RequestOK(d)'
  <2>1. CASE d = c
    BY <1>8, <1>10, <2>1 DEF RequestOK, Practising
  <2>2. CASE d # c
    BY <1>4, <1>7, <1>8, <2>2 DEF RequestOK, Practising, TrainingInv
  <2> QED BY <2>1, <2>2
<1>a. \A i : Acting(i) \subseteq Clients /\ Acting(i)' \subseteq Clients
  BY DEF Acting
<1>12. \A i : Acting(i)' = Acting(i) \ {c} /\ Extending(i)' = Extending(i) \ {c}
  <2> TAKE i
  <2>0. \A d \in Clients : d \in Acting(i)' <=> d \in Acting(i) /\ d # c
    <3> TAKE d \in Clients
    <3>1. CASE d = c
      BY <1>8, <3>1 DEF Acting
    <3>2. CASE d # c
      BY <1>8, <3>2 DEF Acting
    <3> QED BY <3>1, <3>2
  <2>1. Acting(i)' = Acting(i) \ {c}
    BY <1>a, <2>0
  <2> QED BY <1>8, <1>a, <2>1 DEF Extending
<1>13. ASSUME NEW i \in 1 .. Len(envs) PROVE EnvBounded(i)'
  <2>0. EnvBounded(i)
    BY DEF TrainingInv
  <2>1. CASE i # k
    <3>1. c \notin Acting(i)
      BY <1>p, <2>1 DEF Acting
    <3>2. Acting(i)' = Acting(i) /\ Extending(i)' = Extending(i)
      BY <1>12, <3>1 DEF Extending
    <3> QED BY <1>7, <2>0, <2>1, <3>2 DEF EnvBounded, Calm, Ending
  <2>2. CASE i = k
    <3>1. /\ e.elapsed \in Nat /\ e.duration \in Nat /\ e.elapsed < e.duration
          /\ f.elapsed \in Nat /\ f.duration \in Nat /\ f.elapsed < f.duration
      BY <1>5, <1>6, <1>e DEF Runs, Env
    <3>2. /\ Cardinality(Acting(i)) \in Nat /\ IsFiniteSet(Acting(i))
          /\ Cardinality(Extending(i)) \in Nat /\ IsFiniteSet(Extending(i))
      BY ActingCounted
    <3>3. c \in Acting(i) => Cardinality(Acting(i) \ {c}) = Cardinality(Acting(i)) - 1
      BY <3>2, FS_RemoveElement
    <3>4. c \in Extending(i) => Cardinality(Extending(i) \ {c}) = Cardinality(Extending(i)) - 1
      BY <3>2, FS_RemoveElement
    <3>5. c \notin Extending(i) => Extending(i) \ {c} = Extending(i)
      OBVIOUS
    <3>6. Cardinality(Acting(i) \ {c}) <= Cardinality(Clients) - 1
      <4>1. IsFiniteSet(Clients \ {c}) /\ Cardinality(Clients \ {c}) = Cardinality(Clients) - 1
        BY TrainingConstants, FS_RemoveElement
      <4>2. Acting(i) \ {c} \subseteq Clients \ {c}
        BY DEF Acting
      <4> QED BY <4>1, <4>2, FS_Subset
    <3>7. Cardinality(Acting(i) \ {c}) \in Nat
      <4>1. IsFiniteSet(Acting(i) \ {c})
        BY <3>2, FS_Subset
      <4> QED BY <4>1, FS_CardinalityType
    <3>8. (c \in Acting(i) <=> a # Safe!NextPhase)
          /\ (c \in Extending(i) <=> a # Safe!NextPhase /\ a \in Safe!Extension)
      BY <1>1, <1>p, <2>2 DEF Acting, Extending
    <3>a. PICK act \in Nat, ext \in Nat, act2 \in Nat, ext2 \in Nat :
             /\ act = Cardinality(Acting(i)) /\ ext = Cardinality(Extending(i))
             /\ act2 = Cardinality(Acting(i) \ {c}) /\ ext2 = Cardinality(Extending(i) \ {c})
      <4>1. Cardinality(Extending(i) \ {c}) \in Nat
        BY <3>2, FS_Subset, FS_CardinalityType
      <4> QED BY <3>2, <3>7, <4>1
    <3>b. PICK most \in Nat, others \in Int : most = MostGreenS + StepS - 1 /\ others = OtherClients
      <4>1. MostGreenS + StepS - 1 \in Nat
        BY <1>10
      <4>2. OtherClients \in Int
        BY <1>10
      <4> QED BY <4>1, <4>2
    <3>9. act2 <= Cardinality(Clients) - 1 /\ 10 * act2 <= others
      BY <1>10, <3>6, <3>a, <3>b
    <3>10. ASSUME f.elapsed >= MostGreenS
           PROVE  \/ f.elapsed + 10 * act2 <= most + others
                  \/ f.duration + 10 * ext2 <= most + ClearanceS - 1 + others
      <4>1. CASE a = Safe!NextPhase
        <5>1. f.elapsed <= StepS
          BY <1>6, <4>1
        <5>2. most >= StepS /\ 10 * act2 <= others
          BY <1>10, <3>9, <3>b
        <5>3. f.elapsed + 10 * act2 <= most + others
          BY <1>10, <3>1, <5>1, <5>2
        <5> QED BY <5>3
      <4>2. CASE a # Safe!NextPhase
        <5>1. /\ f.elapsed = e.elapsed + StepS
              /\ a \in Safe!Extension => f.duration <= e.duration + 10
              /\ a \notin Safe!Extension => f.duration = e.duration
          BY <1>6, <1>10, <3>1, <3>10, <4>2
        <5>2. act2 = act - 1
          BY <3>3, <3>8, <3>a, <4>2
        <5>3. IF a \in Safe!Extension THEN ext2 = ext - 1 ELSE ext2 = ext
          <6>1. CASE a \in Safe!Extension
            BY <3>4, <3>8, <3>a, <4>2, <6>1
          <6>2. CASE a \notin Safe!Extension
            BY <3>5, <3>8, <3>a, <6>2
          <6> QED BY <6>1, <6>2
        <5>4. CASE e.elapsed < MostGreenS
          <6>1. f.elapsed <= most
            BY <1>10, <3>1, <3>b, <5>1, <5>4
          <6>2. f.elapsed + 10 * act2 <= most + others
            BY <3>1, <3>9, <6>1
          <6> QED BY <6>2
        <5>5. CASE e.elapsed >= MostGreenS
          <6>1. Calm(i) \/ Ending(i)
            BY <1>e, <2>0, <2>2, <5>5 DEF EnvBounded
          <6>2. CASE Calm(i)
            <7>1. e.elapsed + 10 * act <= most + others
              BY <1>e, <2>2, <3>a, <3>b, <6>2 DEF Calm
            <7>2. f.elapsed = e.elapsed + StepS /\ StepS \in Nat /\ StepS <= 10
              BY <1>10, <5>1
            <7>3. f.elapsed + 10 * act2 <= e.elapsed + 10 * act
              BY <3>1, <5>2, <7>2
            <7>4. f.elapsed + 10 * act2 <= most + others
              BY <3>1, <7>1, <7>3
            <7> QED BY <7>4
          <6>3. CASE Ending(i)
            <7>1. e.duration + 10 * ext <= most + ClearanceS - 1 + others
              <8>1. MostGreenS + StepS + ClearanceS - 2 + OtherClients = most + ClearanceS - 1 + others
                BY <1>10, <3>b
              <8>2. envs[i].duration + 10 * Cardinality(Extending(i)) <= most + ClearanceS - 1 + others
                BY <6>3, <8>1 DEF Ending
              <8> QED BY <1>e, <2>2, <3>a, <8>2
            <7>2. f.duration + 10 * ext2 <= e.duration + 10 * ext
              BY <3>1, <5>1, <5>3
            <7>3. f.duration + 10 * ext2 <= most + ClearanceS - 1 + others
              BY <1>10, <3>1, <7>1, <7>2
            <7> QED BY <7>3
          <6> QED BY <6>1, <6>2, <6>3
        <5>6. e.elapsed < MostGreenS \/ e.elapsed >= MostGreenS
          BY <1>10, <3>1
        <5> QED BY <5>4, <5>5, <5>6
      <4> QED BY <4>1, <4>2
    <3>11. envs'[i] = f /\ Cardinality(Acting(i)') = act2 /\ Cardinality(Extending(i)') = ext2
      BY <1>7, <1>12, <2>2, <3>a
    <3>12. MostGreenS + StepS + ClearanceS - 2 + OtherClients = most + ClearanceS - 1 + others
           /\ MostGreenS + StepS - 1 + OtherClients = most + others
      BY <1>10, <3>b
    <3> QED BY <3>10, <3>11, <3>12 DEF EnvBounded, Calm, Ending
  <2> QED BY <2>1, <2>2
<1> QED BY <1>7, <1>9, <1>11, <1>13 DEF TrainingInv

\* A new environment has all its time left.
LEMMA FreshRuns ==
    ASSUME NEW e \in Fresh
    PROVE  e \in Env /\ Runs(e) /\ e.elapsed = 0
BY TrainingConstants DEF Fresh, Env, Runs, NsGreen

LEMMA MakesEnvInv ==
    ASSUME TrainingInv, NEW c \in Clients, MakesEnv(c)
    PROVE  TrainingInv'
<1> DEFINE x == [client[c] EXCEPT !.at = "judge"]
<1>1. /\ TrainingTypes /\ (\A d \in Clients : RequestOK(d)) /\ client[c].at = "make"
      /\ client[c] \in Request /\ client \in [Clients -> Request]
      /\ envs \in Seq(Env) /\ Len(envs) \in Nat /\ MostGreenS \in Nat /\ MostGreenS > 0
  BY TrainingConstants DEF TrainingInv, TrainingTypes, MakesEnv
<1>2. PICK e \in Fresh : envs' = Append(envs, e)
  BY DEF MakesEnv
<1>3. /\ held' = Len(envs) + 1 /\ client' = [client EXCEPT ![c] = x]
      /\ served' = served /\ file' = file /\ trained' = trained
  BY DEF MakesEnv, Moves, Data
<1>4. e \in Env /\ Runs(e) /\ e.elapsed = 0
  BY FreshRuns
<1>5. /\ envs' \in Seq(Env) /\ Len(envs') = Len(envs) + 1 /\ envs'[Len(envs) + 1] = e
      /\ \A i \in 1 .. Len(envs) : envs'[i] = envs[i]
  BY <1>1, <1>2, <1>4
<1>6. x \in Request /\ x.at = "judge" /\ x.own = client[c].own
  BY <1>1 DEF Request, Stage
<1> HIDE DEF x
<1>7. client'[c] = x /\ \A d \in Clients \ {c} : client'[d] = client[d]
  BY <1>1, <1>3
<1>8. \A i \in 1 .. Len(envs') : i \in 1 .. Len(envs) \/ i = Len(envs) + 1
  BY <1>1, <1>5
<1>9. \A i \in 1 .. Len(envs') : Runs(envs'[i])
  BY <1>1, <1>4, <1>5, <1>8 DEF TrainingTypes
<1>10. TrainingTypes'
  BY <1>1, <1>3, <1>5, <1>6, <1>9 DEF TrainingTypes
<1>11. ASSUME NEW d \in Clients PROVE RequestOK(d)'
  <2>1. CASE d = c
    BY <1>1, <1>3, <1>6, <1>7, <2>1 DEF RequestOK, Practising
  <2>2. CASE d # c
    <3>1. client'[d] = client[d] /\ 1 .. Len(envs) \subseteq 1 .. Len(envs') /\ held' # 0
      BY <1>1, <1>3, <1>5, <1>7, <2>2
    <3> QED BY <1>1, <3>1 DEF RequestOK, Practising
  <2> QED BY <2>1, <2>2
<1>12. ASSUME NEW i \in 1 .. Len(envs') PROVE EnvBounded(i)'
  <2>1. Acting(i)' = Acting(i) /\ Extending(i)' = Extending(i)
    BY <1>1, <1>3, <1>6, OthersAct
  <2>2. CASE i \in 1 .. Len(envs)
    <3>1. EnvBounded(i)
      BY <2>2 DEF TrainingInv
    <3> QED BY <1>5, <2>1, <2>2, <3>1 DEF EnvBounded, Calm, Ending
  <2>3. CASE i = Len(envs) + 1
    BY <1>1, <1>4, <1>5, <2>3 DEF EnvBounded
  <2> QED BY <1>8, <2>2, <2>3
<1> QED BY <1>10, <1>11, <1>12 DEF TrainingInv

\* A step of an episode: judged and made at once.
LEMMA PractisesInv ==
    ASSUME TrainingInv, NEW c \in Clients, NEW action \in Safe!Action, Practises(c, action)
    PROVE  TrainingInv'
<1> DEFINE own == client[c].own
           a   == Judgement(own, action)
<1>1. /\ RequestOK(c) /\ client[c] \in Request /\ client \in [Clients -> Request]
      /\ Practising(c) /\ Runs(own) /\ own \in Env
      /\ served \in Int /\ file \in Int /\ trained \in Int
  BY DEF TrainingInv, TrainingTypes, Practises, RequestOK, Runs
<1>2. /\ a \in Safe!Action
      /\ own.elapsed >= MostGreenS /\ a # Safe!NextPhase =>
            a = Safe!Hold /\ own.duration < own.elapsed + ClearanceS
  BY <1>1, JudgedAtTheMaximum
<1>3. PICK e \in Stepped(own, a) : client' = [client EXCEPT ![c] = [client[c] EXCEPT !.own = e]]
  BY DEF Practises, Moves
<1>4. UNCHANGED <<envs, held>> /\ served' = served /\ file' = file /\ trained' = trained
  BY DEF Practises, Data
<1>p. PICK o \in Env, b \in Safe!Action : o = own /\ b = a
  BY <1>1, <1>2
<1>5. /\ Runs(e)
      /\ b = Safe!NextPhase => e.elapsed <= StepS
      /\ b # Safe!NextPhase =>
            \/ e.elapsed = 0
            \/ /\ e.elapsed = o.elapsed + StepS
               /\ b \in Safe!Extension => e.duration <= o.duration + 10
               /\ b \notin Safe!Extension => e.duration = o.duration /\ e.elapsed < o.duration
  <2>1. Runs(o) /\ e \in Stepped(o, b)
    BY <1>1, <1>3, <1>p
  <2> QED BY <2>1, StepTakes
<1>6. MostGreenS \in Nat /\ StepS \in Nat /\ ClearanceS \in Nat /\ ClearanceS <= StepS
  BY TrainingConstants
<1>7. e.elapsed <= MostGreenS + StepS
  <2>0. o.elapsed \in Nat /\ o.duration \in Nat /\ e.elapsed \in Nat /\ e \in Env
    BY <1>5 DEF Runs, Env
  <2>1. CASE b = Safe!NextPhase \/ e.elapsed = 0
    BY <1>5, <1>6, <2>0, <2>1
  <2>2. CASE b # Safe!NextPhase /\ e.elapsed # 0
    <3>1. CASE o.elapsed < MostGreenS
      BY <1>5, <1>6, <2>0, <2>2, <3>1
    <3>2. CASE o.elapsed >= MostGreenS
      <4>1. b = Safe!Hold /\ o.duration < o.elapsed + ClearanceS
        BY <1>2, <1>p, <2>2, <3>2
      <4>2. b \notin Safe!Extension
        BY <4>1 DEF Safe!Extension, Safe!Hold, Safe!Extend5, Safe!Extend10
      <4> QED BY <1>5, <1>6, <2>0, <2>2, <4>1, <4>2
    <3> QED BY <1>6, <2>0, <3>1, <3>2
  <2> QED BY <2>1, <2>2
<1> DEFINE x == [client[c] EXCEPT !.own = e]
<1>8. x \in Request /\ x.own = e /\ x.at = client[c].at
  <2>1. e \in Env
    BY <1>5 DEF Runs
  <2> QED BY <1>1, <2>1 DEF Request
<1>9. client[c].at \in {"train", "greedy", "fixed"}
  BY <1>1 DEF Practising
<1>10. client' = [client EXCEPT ![c] = x]
  BY <1>3
<1> HIDE DEF x
<1>11. PICK y \in Request : y = x
  BY <1>8
<1>12. /\ y.own = e /\ y.at \in {"train", "greedy", "fixed"} /\ client' = [client EXCEPT ![c] = y]
  BY <1>8, <1>9, <1>10, <1>11
<1> QED BY <1>1, <1>4, <1>5, <1>7, <1>9, <1>12, QuietStep

LEMMA InitTraining == TrainingInit => TrainingInv
<1> SUFFICES ASSUME TrainingInit PROVE TrainingInv
  OBVIOUS
<1>1. NoEnv \in Env /\ NoEnv.elapsed = 0
  BY DEF NoEnv, Env, NsGreen
<1>2. Idle \in Request /\ Idle.at = "idle" /\ Idle.own = NoEnv
  BY <1>1 DEF Idle, Request, Said, Stage
<1>3. Len(envs) = 0 /\ envs \in Seq(Env) /\ client \in [Clients -> Request]
  BY <1>2 DEF TrainingInit
<1>4. TrainingTypes
  BY <1>3 DEF TrainingInit, TrainingTypes
<1>5. ASSUME NEW c \in Clients PROVE RequestOK(c)
  <2>1. client[c].at = "idle" /\ client[c].own.elapsed = 0
    BY <1>1, <1>2 DEF TrainingInit
  <2> QED BY <2>1, TrainingConstants DEF RequestOK, Practising
<1> QED BY <1>3, <1>4, <1>5 DEF TrainingInv

LEMMA RestartInv == ASSUME TrainingInv, Restart PROVE TrainingInv'
<1>1. NoEnv \in Env /\ NoEnv.elapsed = 0
  BY DEF NoEnv, Env, NsGreen
<1>2. Idle \in Request /\ Idle.at = "idle" /\ Idle.own = NoEnv
  BY <1>1 DEF Idle, Request, Said, Stage
<1>3. Len(envs') = 0 /\ envs' \in Seq(Env) /\ client' \in [Clients -> Request] /\ held' = 0
  BY <1>2 DEF Restart
<1>4. served' \in Int /\ file' \in Int /\ trained' \in Int
  BY DEF Restart, TrainingInv, TrainingTypes, NoPolicy
<1>5. TrainingTypes'
  BY <1>3, <1>4 DEF TrainingTypes
<1>6. ASSUME NEW c \in Clients PROVE RequestOK(c)'
  <2>1. client'[c].at = "idle" /\ client'[c].own.elapsed = 0
    BY <1>1, <1>2 DEF Restart
  <2> QED BY <2>1, TrainingConstants DEF RequestOK, Practising
<1> QED BY <1>3, <1>5, <1>6 DEF TrainingInv

\* The other steps of a request touch no environment.
LEMMA OtherStepsInv ==
    ASSUME TrainingInv, NEW c \in Clients,
           \/ LooksForEnv(c) \/ \E action \in Safe!Action : Judges(c, action)
           \/ Reads(c) \/ Compares(c) \/ NextEpisode(c) \/ Trains(c) \/ EpisodesEnd(c)
           \/ OpensFile(c) \/ WritesFile(c) \/ Installs(c)
    PROVE  TrainingInv'
<1>0. /\ TrainingTypes /\ RequestOK(c) /\ client[c] \in Request
      /\ client \in [Clients -> Request]
      /\ held \in 0 .. Len(envs) /\ envs \in Seq(Env) /\ Len(envs) \in Nat
      /\ served \in Int /\ file \in Int /\ trained \in Int
      /\ MostGreenS \in Nat /\ StepS \in Nat
  BY TrainingConstants DEF TrainingInv, TrainingTypes
<1>q. PICK q \in Request : q = client[c]
  BY <1>0
<1>1. /\ NoEnv \in Env /\ NoEnv.elapsed = 0
  BY DEF NoEnv, Env, NsGreen
<1>2. /\ Idle \in Request /\ Idle.at = "idle" /\ Idle.own = NoEnv
  BY <1>1 DEF Idle, Request, Said, Stage
<1>s. q.own.elapsed <= MostGreenS + StepS
  BY <1>0, <1>q DEF RequestOK
<1>f. ASSUME NEW e \in Fresh PROVE e \in Env /\ Runs(e) /\ e.elapsed <= MostGreenS + StepS
  <2>1. e \in Env /\ Runs(e) /\ e.elapsed = 0
    BY FreshRuns
  <2> QED BY <1>0, <2>1
<1>i. PICK idle \in Request : idle = Idle
  BY <1>2
<1>j. /\ idle.at = "idle" /\ idle.own = NoEnv
      /\ idle.own.elapsed = 0 /\ idle.own.elapsed <= MostGreenS + StepS
  BY <1>0, <1>1, <1>2, <1>i
<1>3. CASE LooksForEnv(c)
  <2>1. PICK x : x = [q EXCEPT !.at = IF held = 0 THEN "make" ELSE "judge"]
    OBVIOUS
  <2>2. /\ client' = [client EXCEPT ![c] = x] /\ client[c].at = "idle"
        /\ UNCHANGED <<envs, held>> /\ served' = served /\ file' = file /\ trained' = trained
    BY <1>0, <1>3, <1>q, <2>1 DEF LooksForEnv, Begins, Busy, Data
  <2>3. /\ x \in Request /\ x.own = q.own /\ x.at \in {"make", "judge"}
        /\ x.at = "judge" => held # 0
    BY <2>1 DEF Request, Stage
  <2> QED BY <1>0, <1>s, <2>2, <2>3, QuietStep
<1>4. ASSUME NEW action \in Safe!Action, Judges(c, action) PROVE TrainingInv'
  <2>a. client[c].at = "judge"
    BY <1>4 DEF Judges
  <2>b. held # 0
    BY <1>0, <2>a DEF RequestOK
  <2>1. client[c].at = "judge" /\ held \in 1 .. Len(envs) /\ held \in Nat
    BY <1>0, <2>a, <2>b
  <2>2. Judgement(envs[held], action) \in Safe!Action
    <3>1. envs[held] \in Env
      BY <1>0, <2>1
    <3> QED BY <3>1, JudgedAtTheMaximum
  <2>3. PICK x : x = [q EXCEPT !.at = "step", !.env = held, !.said = Judgement(envs[held], action)]
    OBVIOUS
  <2>4. /\ client' = [client EXCEPT ![c] = x]
        /\ UNCHANGED <<envs, held>> /\ served' = served /\ file' = file /\ trained' = trained
    BY <1>4, <1>q, <2>3 DEF Judges, Moves, Data
  <2>5. PICK v \in Safe!Action, h \in Nat : v = Judgement(envs[held], action) /\ h = held
    BY <2>1, <2>2
  <2>6. x = [q EXCEPT !.at = "step", !.env = h, !.said = v] /\ v \in Said
    BY <2>3, <2>5 DEF Said
  <2>7. x \in Request /\ x.own = q.own /\ x.at = "step" /\ x.env = h /\ x.said = v
    BY <2>6 DEF Request, Stage
  <2> QED BY <1>0, <1>s, <2>1, <2>4, <2>5, <2>7, QuietStep
<1>5. CASE Reads(c)
  <2>1. /\ client' = [client EXCEPT ![c] = idle] /\ client[c].at = "judge"
        /\ UNCHANGED <<envs, held>> /\ served' = served /\ file' = file /\ trained' = trained
    BY <1>5, <1>i DEF Reads, Moves, Data
  <2> QED BY <1>0, <1>j, <2>1, QuietStep
<1>6. CASE Compares(c)
  <2>1. PICK e \in Fresh : client' = [client EXCEPT ![c] = [Idle EXCEPT !.at = "greedy", !.own = e]]
    BY <1>6 DEF Compares, Moves
  <2>2. PICK x : x = [Idle EXCEPT !.at = "greedy", !.own = e]
    OBVIOUS
  <2>3. x \in Request /\ x.own = e /\ x.at = "greedy"
    BY <1>2, <1>f, <2>2 DEF Request, Stage
  <2>4. /\ client' = [client EXCEPT ![c] = x] /\ client[c].at = "idle"
        /\ UNCHANGED <<envs, held>> /\ served' = served /\ file' = file /\ trained' = trained
    BY <1>6, <2>1, <2>2 DEF Compares, Busy, Data
  <2> QED BY <1>0, <1>f, <2>3, <2>4, QuietStep
<1>7. CASE NextEpisode(c)
  <2>1. PICK e \in Fresh : client' = [client EXCEPT ![c] =
             [client[c] EXCEPT !.own = e, !.at = IF @ = "greedy" THEN "fixed" ELSE @]]
    BY <1>7 DEF NextEpisode, Moves
  <2>2. PICK x : x = [q EXCEPT !.own = e, !.at = IF @ = "greedy" THEN "fixed" ELSE @]
    OBVIOUS
  <2>3. q.at \in {"train", "greedy", "fixed"} /\ client[c].at # "act"
    BY <1>7, <1>q DEF NextEpisode, Practising
  <2>4. x \in Request /\ x.own = e /\ x.at \in {"train", "fixed"}
    BY <1>f, <2>2, <2>3 DEF Request, Stage
  <2>5. /\ client' = [client EXCEPT ![c] = x]
        /\ UNCHANGED <<envs, held>> /\ served' = served /\ file' = file /\ trained' = trained
    BY <1>7, <1>q, <2>1, <2>2 DEF NextEpisode, Data
  <2> QED BY <1>0, <1>f, <2>3, <2>4, <2>5, QuietStep
<1>8. CASE Trains(c)
  <2>1. PICK e \in Fresh : client' = [client EXCEPT ![c] = [Idle EXCEPT !.at = "train", !.own = e]]
    BY <1>8 DEF Trains, Moves
  <2>2. PICK x : x = [Idle EXCEPT !.at = "train", !.own = e]
    OBVIOUS
  <2>3. x \in Request /\ x.own = e /\ x.at = "train"
    BY <1>2, <1>f, <2>2 DEF Request, Stage
  <2>4. /\ client' = [client EXCEPT ![c] = x] /\ client[c].at = "idle"
        /\ UNCHANGED <<envs, held>> /\ served' = served /\ file' = file /\ trained' = trained
    BY <1>8, <2>1, <2>2 DEF Trains, Busy, Data
  <2> QED BY <1>0, <1>f, <2>3, <2>4, QuietStep
<1>9. CASE EpisodesEnd(c)
  <2>0. PICK stage \in {"save", "idle"} : stage = IF client[c].at = "train" THEN "save" ELSE "idle"
    OBVIOUS
  <2>1. PICK x : x = [Idle EXCEPT !.at = stage]
    OBVIOUS
  <2>2. /\ client' = [client EXCEPT ![c] = x] /\ client[c].at # "act"
        /\ UNCHANGED <<envs, held>> /\ served' = served /\ file' = file /\ trained' = trained
    BY <1>9, <2>0, <2>1 DEF EpisodesEnd, Moves, Data
  <2>3. x \in Request /\ x.own = idle.own /\ x.at \in {"save", "idle"}
    BY <1>i, <2>1 DEF Request, Stage
  <2> QED BY <1>0, <1>j, <2>2, <2>3, QuietStep
<1>10. CASE OpensFile(c)
  <2>0. PICK made \in Int : made = trained + 1
    BY <1>0
  <2>1. PICK x : x = [q EXCEPT !.at = "write", !.policy = made]
    OBVIOUS
  <2>2. /\ client' = [client EXCEPT ![c] = x] /\ client[c].at = "save"
        /\ UNCHANGED <<envs, held>> /\ served' = served /\ file' = Torn /\ trained' = made
    BY <1>10, <1>q, <2>0, <2>1 DEF OpensFile, Moves
  <2>3. x \in Request /\ x.own = q.own /\ x.at = "write"
    BY <2>1 DEF Request, Stage
  <2>4. Torn \in Int
    BY SMT DEF Torn
  <2> QED BY <1>0, <1>s, <2>2, <2>3, <2>4, QuietStep
<1>11. CASE WritesFile(c)
  <2>1. PICK x : x = [q EXCEPT !.at = "install"]
    OBVIOUS
  <2>2. /\ client' = [client EXCEPT ![c] = x] /\ client[c].at = "write"
        /\ UNCHANGED <<envs, held>> /\ served' = served /\ file' = q.policy /\ trained' = trained
    BY <1>11, <1>q, <2>1 DEF WritesFile, Moves
  <2>3. x \in Request /\ x.own = q.own /\ x.at = "install" /\ q.policy \in Int
    BY <2>1 DEF Request, Stage
  <2> QED BY <1>0, <1>s, <2>2, <2>3, QuietStep
<1>12. CASE Installs(c)
  <2>1. /\ client' = [client EXCEPT ![c] = idle] /\ client[c].at = "install"
        /\ UNCHANGED <<envs, held>> /\ served' = q.policy /\ file' = file /\ trained' = trained
    BY <1>12, <1>i, <1>q DEF Installs, Moves
  <2>2. q.policy \in Int
    BY DEF Request
  <2> QED BY <1>0, <1>j, <2>1, <2>2, QuietStep
<1> QED BY <1>3, <1>4, <1>5, <1>6, <1>7, <1>8, <1>9, <1>10, <1>11, <1>12

LEMMA NextTraining == TrainingInv /\ [TrainingNext]_training => TrainingInv'
<1> SUFFICES ASSUME TrainingInv, [TrainingNext]_training PROVE TrainingInv'
  OBVIOUS
<1>1. CASE Restart
  BY <1>1, RestartInv
<1>2. ASSUME NEW c \in Clients,
             \/ LooksForEnv(c) \/ \E action \in Safe!Action : Judges(c, action)
             \/ Reads(c) \/ Compares(c) \/ NextEpisode(c) \/ Trains(c) \/ EpisodesEnd(c)
             \/ OpensFile(c) \/ WritesFile(c) \/ Installs(c)
      PROVE  TrainingInv'
  BY <1>2, OtherStepsInv
<1>3. ASSUME NEW c \in Clients, MakesEnv(c) PROVE TrainingInv'
  BY <1>3, MakesEnvInv
<1>4. ASSUME NEW c \in Clients, StepJudges(c) PROVE TrainingInv'
  BY <1>4, StepJudgesInv
<1>5. ASSUME NEW c \in Clients, StepActs(c) PROVE TrainingInv'
  BY <1>5, StepActsInv
<1>6. ASSUME NEW c \in Clients, NEW action \in Safe!Action, Practises(c, action) PROVE TrainingInv'
  BY <1>6, PractisesInv
<1>7. CASE UNCHANGED training
  BY <1>7 DEF training, TrainingInv, TrainingTypes, RequestOK, Practising, EnvBounded, Calm,
              Ending, Acting, Extending
<1> QED BY <1>1, <1>2, <1>3, <1>4, <1>5, <1>6, <1>7 DEF TrainingNext

\* However the judging and the making of actions interleave, no phase lasts
\* longer than the maximum, a step, and ten seconds for each other request.
THEOREM NoPhaseIsEndless == TrainingSpec => []PhasesEnd
<1>1. TrainingInv => PhasesEnd
  <2> SUFFICES ASSUME TrainingInv PROVE PhasesEnd
    OBVIOUS
  <2>1. /\ MostGreenS \in Nat /\ StepS \in Nat /\ StepS > 0 /\ ClearanceS \in Nat
        /\ Cardinality(Clients) \in Nat
    BY TrainingConstants, FS_CardinalityType
  <2>2. ASSUME NEW i \in DOMAIN envs
        PROVE  envs[i].elapsed <= MostGreenS + StepS + ClearanceS + 10 * (Cardinality(Clients) - 1)
    <3>1. i \in 1 .. Len(envs) /\ Runs(envs[i]) /\ EnvBounded(i)
      BY <2>2 DEF TrainingInv, TrainingTypes
    <3>2. envs[i].elapsed \in Nat /\ envs[i].duration \in Nat /\ envs[i].elapsed < envs[i].duration
      BY <3>1 DEF Runs, Env
    <3>3. /\ Cardinality(Acting(i)) \in Nat /\ Cardinality(Extending(i)) \in Nat
      BY ActingCounted
    <3>4. \/ envs[i].elapsed < MostGreenS
          \/ envs[i].elapsed + 10 * Cardinality(Acting(i)) <= MostGreenS + StepS - 1 + 10 * (Cardinality(Clients) - 1)
          \/ envs[i].duration + 10 * Cardinality(Extending(i))
                <= MostGreenS + StepS + ClearanceS - 2 + 10 * (Cardinality(Clients) - 1)
      BY <2>1, <3>1, <3>2 DEF EnvBounded, Calm, Ending, OtherClients
    <3>5. Cardinality(Clients) >= 1
      BY TrainingConstants, FS_EmptySet, <2>1
    <3> QED BY <2>1, <3>2, <3>3, <3>4, <3>5
  <2>3. \A c \in Clients : client[c].own.elapsed <= MostGreenS + StepS
    BY DEF TrainingInv, RequestOK
  <2> QED BY <2>2, <2>3 DEF PhasesEnd
<1> QED BY <1>1, InitTraining, NextTraining, PTL DEF TrainingSpec

-----------------------------------------------------------------------------
(* The counts of the router. *)
\* What the graph remembers of a vehicle is the road it was last reported on,
\* and the counts the router took from the graph are still right where it was
\* told of every observation.
CountsInv ==
    /\ DOMAIN cars = Cars /\ DOMAIN carRoad = Cars
    /\ DOMAIN metrics = DOMAIN Network /\ DOMAIN origin = DOMAIN Network
    /\ \A c \in Cars : cars[c] # None => carRoad[c] = cars[c].road
    /\ CountsFollow

LEMMA InitCounts == RoutingInit => CountsInv
BY DEF RoutingInit, GraphInit, CountsInv, CountsFollow

\* A report moves one vehicle, and the router hears of the road it left and
\* of the one it is on, or both are noted as untold.
LEMMA ReportCounts ==
    ASSUME CountsInv, NEW c \in Cars, NEW r, NEW speed, NEW at, Report(c, r, speed, at)
    PROVE  CountsInv'
<1>1. /\ cars' = [cars EXCEPT ![c] = [road |-> r, speed |-> speed]]
      /\ carRoad' = [carRoad EXCEPT ![c] = r]
  BY DEF Report, ObserveVehicle
<1>2. PICK affected : affected = Affected(carRoad[c], r)
  OBVIOUS
<1>3. /\ DOMAIN metrics' = DOMAIN Network /\ DOMAIN origin' = DOMAIN Network
      /\ \E told : \A q \in DOMAIN Network :
            /\ q \in told => metrics'[q] = EdgeState(defs', cars', onRoad'[q], q)
            /\ q \notin told => metrics'[q] = metrics[q] /\ origin'[q] = origin[q]
            /\ q \notin told /\ q \notin untold' => q \notin affected /\ q \notin untold
  <2>1. CASE untold' = untold \cup affected /\ UNCHANGED <<metrics, origin>>
    <3>1. PICK told : told = {}
      OBVIOUS
    <3>2. \A q \in DOMAIN Network :
              /\ q \in told => metrics'[q] = EdgeState(defs', cars', onRoad'[q], q)
              /\ q \notin told => metrics'[q] = metrics[q] /\ origin'[q] = origin[q]
              /\ q \notin told /\ q \notin untold' => q \notin affected /\ q \notin untold
      BY <2>1, <3>1
    <3>3. DOMAIN metrics' = DOMAIN Network /\ DOMAIN origin' = DOMAIN Network
      BY <2>1 DEF CountsInv
    <3> QED BY <3>2, <3>3, Zenon
  <2>2. CASE Ingest(affected)
    <3>1. /\ metrics' = [q \in DOMAIN Network |->
                           IF q \in affected \cap DOMAIN Network
                           THEN EdgeState(defs', cars', onRoad'[q], q) ELSE metrics[q]]
          /\ origin' = [q \in DOMAIN Network |->
                          IF q \in affected \cap DOMAIN Network THEN "live graph" ELSE origin[q]]
      BY <2>2, Zenon DEF Ingest
    <3>2. untold' = untold \ affected
      BY <2>2 DEF Ingest
    <3>3. \A q \in DOMAIN Network :
              /\ q \in affected => metrics'[q] = EdgeState(defs', cars', onRoad'[q], q)
              /\ q \notin affected => metrics'[q] = metrics[q] /\ origin'[q] = origin[q]
              /\ q \notin affected /\ q \notin untold' => q \notin untold
      BY <3>1, <3>2
    <3> QED BY <3>1, <3>3
  <2> QED BY <1>2, <2>1, <2>2, Zenon DEF Report
<1>4. PICK told : \A q \in DOMAIN Network :
         /\ q \in told => metrics'[q] = EdgeState(defs', cars', onRoad'[q], q)
         /\ q \notin told => metrics'[q] = metrics[q] /\ origin'[q] = origin[q]
         /\ q \notin told /\ q \notin untold' => q \notin affected /\ q \notin untold
  BY <1>3, Zenon
<1>5. \A d \in Cars : cars'[d] # None => carRoad'[d] = cars'[d].road
  BY <1>1 DEF CountsInv
<1>6. ASSUME NEW q \in DOMAIN Network, origin'[q] = "live graph", q \notin untold'
      PROVE  metrics'[q].count = Cardinality(ActorsOn(cars, q)')
  <2>1. CASE q \in told
    <3>1. metrics'[q] = EdgeState(defs', cars', onRoad'[q], q)
      BY <1>4, <2>1
    <3>2. EdgeState(defs', cars', onRoad'[q], q).count = Cardinality(ActorsOn(cars', q))
      BY DEF EdgeState
    <3> QED BY <3>1, <3>2
  <2>2. CASE q \notin told
    <3>1. metrics'[q] = metrics[q] /\ origin'[q] = origin[q]
      BY <1>4, <2>2
    <3>2. q # None /\ q # r /\ q # carRoad[c] /\ q \notin untold
      <4>1. q \in Roads /\ q # None
        BY <1>6, GraphConstants, RoutingConstants
      <4>2. q \notin affected /\ q \notin untold
        BY <1>4, <1>6, <2>2
      <4>3. q # r /\ q # carRoad[c]
        BY <1>2, <4>1, <4>2 DEF Affected
      <4> QED BY <4>1, <4>2, <4>3
    <3>3. \A d \in Cars : (cars'[d] # None /\ cars'[d].road = q) <=> (cars[d] # None /\ cars[d].road = q)
      BY <1>1, <3>2 DEF CountsInv
    <3>4. ActorsOn(cars, q)' = ActorsOn(cars, q)
      BY <3>3 DEF ActorsOn
    <3> QED BY <1>6, <3>1, <3>2, <3>4 DEF CountsInv, CountsFollow
  <2> QED BY <2>1, <2>2
<1> QED BY <1>1, <1>3, <1>5, <1>6 DEF CountsInv, CountsFollow

LEMMA NextCounts == CountsInv /\ [RoutingNext]_roadNetwork => CountsInv'
<1> SUFFICES ASSUME CountsInv, [RoutingNext]_roadNetwork PROVE CountsInv'
  OBVIOUS
<1>1. ASSUME UNCHANGED <<cars, carRoad, metrics, origin, untold>> PROVE CountsInv'
  BY <1>1 DEF CountsInv, CountsFollow, ActorsOn
<1>2. ASSUME NEW r, NEW m, Post(r, m) PROVE CountsInv'
  <2>1. UNCHANGED <<cars, carRoad, untold>> /\ DOMAIN metrics' = DOMAIN Network /\ DOMAIN origin' = DOMAIN Network
    BY <1>2 DEF Post, CountsInv
  <2>2. ASSUME NEW q \in DOMAIN Network, origin'[q] = "live graph"
        PROVE  metrics'[q] = metrics[q] /\ origin[q] = "live graph"
    BY <1>2, <2>2 DEF Post, CountsInv
  <2>3. \A q : ActorsOn(cars, q)' = ActorsOn(cars, q)
    BY <2>1 DEF ActorsOn
  <2> QED BY <2>1, <2>2, <2>3 DEF CountsInv, CountsFollow
<1>3. ASSUME NEW r, NEW p, NEW at, Hazard(r, p, at) PROVE CountsInv'
  BY <1>1, <1>3 DEF Hazard, ObserveHazard, routing
<1>4. ASSUME NEW r, Register(r) PROVE CountsInv'
  BY <1>1, <1>4 DEF Register, RegisterEdge, routing
<1>5. ASSUME NEW r, Read(r) PROVE CountsInv'
  BY <1>1, <1>5 DEF Read, ReadEdge, routing
<1>6. ASSUME NEW c, Retire(c) PROVE CountsInv'
  BY <1>1, <1>6 DEF Retire
<1>7. ASSUME NEW v, NEW t, Recalculate(v, t) PROVE CountsInv'
  BY <1>1, <1>7 DEF Recalculate
<1>8. CASE RoutingTick
  BY <1>1, <1>8 DEF RoutingTick, GraphTick, routing
<1>9. CASE UNCHANGED roadNetwork
  BY <1>1, <1>9 DEF roadNetwork
<1> QED BY ReportCounts, <1>2, <1>3, <1>4, <1>5, <1>6, <1>7, <1>8, <1>9 DEF RoutingNext

\* For every network, fleet, set of definitions and order of reports, hazards
\* and posts, the router counts on a road it has heard of last from the live
\* graph exactly the vehicles last reported there, unless an observation of the
\* road has raised since.
THEOREM CountsAreRight == RoutingSpec => []CountsFollow
<1>1. CountsInv => CountsFollow
  BY DEF CountsInv
<1> QED BY <1>1, InitCounts, NextCounts, PTL DEF RoutingSpec

-----------------------------------------------------------------------------
(* Induction on numbers.                                                    *)

LEMMA LessIsWellFounded == IsWellFoundedOn({p \in Nat \X Nat : p[1] < p[2]}, Nat)
  BY NatLessThanWellFounded, Zenon DEF OpToRel

\* A set of numbers has a least one.
LEMMA NatHasLeast ==
  ASSUME NEW S, S \subseteq Nat, S # {}
  PROVE  \E n \in S : \A m \in S : n <= m
<1> DEFINE R == {p \in Nat \X Nat : p[1] < p[2]}
<1>1. IsWellFoundedOn(R, Nat)
  BY LessIsWellFounded
<1> HIDE DEF R
<1>2. PICK n \in S : \A m \in S : ~(<<m, n>> \in R)
  BY <1>1, WFMin
<1>3. ASSUME NEW m \in S PROVE n <= m
  <2>1. ~(m < n)
    BY <1>2 DEF R
  <2> QED
    BY <2>1
<1> QED
  BY <1>2, <1>3

\* Induction: a set with 0, and with the successor of each of its numbers, has
\* all of them.
LEMMA SetInduction ==
  ASSUME NEW T, 0 \in T, \A n \in Nat : n \in T => n + 1 \in T
  PROVE  Nat \subseteq T
<1> DEFINE U == Nat \ T
<1> SUFFICES ASSUME U # {} PROVE FALSE
  OBVIOUS
<1>1. PICK x \in U : \A y \in U : x <= y
  BY NatHasLeast
<1>2. x \in Nat /\ x # 0 /\ x \notin T
  OBVIOUS
<1>3. x - 1 \in Nat /\ x = (x - 1) + 1
  BY <1>2
<1>4. x - 1 \notin U
  BY <1>1, <1>3
<1> QED
  BY <1>2, <1>3, <1>4

\* The least of a set of numbers.
LEMMA MinIs ==
  ASSUME NEW S, S \subseteq Nat, NEW x \in S, \A y \in S : x <= y
  PROVE  Min(S) = x
<1>1. ASSUME NEW z \in S, \A y \in S : z <= y PROVE z = x
  <2>1. z <= x /\ x <= z /\ z \in Nat /\ x \in Nat
    BY <1>1
  <2> QED
    BY <2>1
<1>2. Min(S) \in S /\ \A y \in S : Min(S) <= y
  BY Zenon DEF Min
<1> QED
  BY <1>1, <1>2

LEMMA MinOfNat ==
  ASSUME NEW S, S \subseteq Nat, S # {}
  PROVE  Min(S) \in S /\ \A y \in S : Min(S) <= y
<1>1. PICK n \in S : \A m \in S : n <= m
  BY NatHasLeast
<1> QED
  BY <1>1 DEF Min

-----------------------------------------------------------------------------
(* The cost of a path.                                                      *)

N == DOMAIN Network

\* w sums the first n roads.
Totals(w, cost, roads, n) ==
    w = [i \in 0 .. n |-> IF i = 0 THEN 0 ELSE w[i - 1] + cost[roads[i]]]

LEMMA TotalsExist ==
  ASSUME NEW cost, NEW roads, NEW n \in Nat
  PROVE  \E w : Totals(w, cost, roads, n)
<1> DEFINE T == {m \in Nat : \E w : Totals(w, cost, roads, m)}
<1>1. 0 \in T
  <2>1. Totals([i \in 0 .. 0 |-> 0], cost, roads, 0)
    BY DEF Totals
  <2> QED
    BY <2>1
<1>2. ASSUME NEW m \in Nat, m \in T PROVE m + 1 \in T
  <2>1. PICK w : Totals(w, cost, roads, m)
    BY <1>2
  <2> DEFINE last == w[m] + cost[roads[m + 1]]
             h == [i \in 0 .. m + 1 |-> IF i <= m THEN w[i] ELSE last]
  <2>2. h[m + 1] = last /\ \A i \in 0 .. m : h[i] = w[i]
    OBVIOUS
  <2>3. \A i \in 0 .. m : w[i] = IF i = 0 THEN 0 ELSE w[i - 1] + cost[roads[i]]
    BY <2>1 DEF Totals
  <2>4. h = [i \in 0 .. m + 1 |-> h[i]]
    OBVIOUS
  <2> HIDE DEF h
  <2>5. \A i \in 0 .. m + 1 : h[i] = IF i = 0 THEN 0 ELSE h[i - 1] + cost[roads[i]]
    BY <2>2, <2>3
  <2>6. Totals(h, cost, roads, m + 1)
    BY <2>4, <2>5 DEF Totals
  <2> QED
    BY <2>6
<1> HIDE DEF T
<1>3. Nat \subseteq T
  BY <1>1, <1>2, SetInduction
<1> QED
  BY <1>3 DEF T

\* Two sequences have the same first n roads.
Alike(roads, more, n) == \A i \in 1 .. n : roads[i] \in N /\ more[i] = roads[i]

\* The roads summed decide the sum, which is a number.
LEMMA TotalsAgree ==
  ASSUME NEW cost \in [N -> Nat], NEW n \in Nat, NEW m \in Nat, n <= m,
         NEW roads, NEW more, Alike(roads, more, n),
         NEW w, Totals(w, cost, roads, n), NEW h, Totals(h, cost, more, m)
  PROVE  \A i \in 0 .. n : w[i] \in Nat /\ h[i] = w[i]
<1> DEFINE T == {i \in Nat : i <= n => w[i] \in Nat /\ h[i] = w[i]}
<1>1. 0 \in T
  <2>1. 0 \in 0 .. n /\ 0 \in 0 .. m
    OBVIOUS
  <2> QED
    BY <2>1 DEF Totals
<1>2. ASSUME NEW i \in Nat, i \in T PROVE i + 1 \in T
  <2> SUFFICES ASSUME i + 1 <= n PROVE w[i + 1] \in Nat /\ h[i + 1] = w[i + 1]
    OBVIOUS
  <2>1. w[i] \in Nat /\ h[i] = w[i]
    BY <1>2
  <2>2. /\ i + 1 \in 0 .. n /\ i + 1 \in 0 .. m /\ i + 1 \in 1 .. n
        /\ i + 1 # 0 /\ (i + 1) - 1 = i
    OBVIOUS
  <2>3. w[i + 1] = w[i] + cost[roads[i + 1]] /\ h[i + 1] = h[i] + cost[more[i + 1]]
    BY <2>2 DEF Totals
  <2>4. roads[i + 1] \in N /\ more[i + 1] = roads[i + 1]
    BY <2>2 DEF Alike
  <2>5. cost[roads[i + 1]] \in Nat
    BY <2>4
  <2> QED
    BY <2>1, <2>3, <2>4, <2>5
<1> HIDE DEF T
<1>3. Nat \subseteq T
  BY <1>1, <1>2, SetInduction
<1> QED
  BY <1>3 DEF T

Route(o, roads) == [from |-> o, roads |-> roads]

LEMMA PathCostIs ==
  ASSUME NEW cost \in [N -> Nat], NEW o \in Nodes, NEW roads \in Seq(N)
  PROVE  \E w : /\ Totals(w, cost, roads, Len(roads))
                /\ \A i \in 0 .. Len(roads) : w[i] \in Nat
                /\ PathCost(cost, Route(o, roads)) = w[Len(roads)]
<1>1. PICK p : p = Route(o, roads)
  OBVIOUS
<1>2. p.roads = roads /\ p # None
  <2>1. p \in [from : Nodes, roads : Seq(N)] /\ p.roads = roads
    BY <1>1 DEF Route
  <2> QED
    BY <2>1, RoutingConstants, Zenon DEF N
<1> DEFINE n == Len(roads)
           w == CHOOSE w : Totals(w, cost, p.roads, Len(p.roads))
<1>3. n \in Nat /\ \A i \in 1 .. n : roads[i] \in N
  OBVIOUS
<1>4. Totals(w, cost, p.roads, Len(p.roads))
  <2>1. Len(p.roads) \in Nat
    BY <1>2
  <2> QED
    BY <2>1, TotalsExist
<1>5. PathCost(cost, p) = w[Len(p.roads)]
  BY <1>2 DEF PathCost, Totals
<1> HIDE DEF w
<1>6. Totals(w, cost, roads, n)
  BY <1>2, <1>4
<1> HIDE DEF n
<1>7. \A i \in 0 .. n : w[i] \in Nat
  <2>1. n <= n /\ Alike(roads, roads, n)
    BY <1>3 DEF Alike
  <2> QED
    BY <1>3, <1>6, <2>1, TotalsAgree
<1> QED
  BY <1>1, <1>2, <1>5, <1>6, <1>7 DEF n

LEMMA PathCostIsNat ==
  ASSUME NEW cost \in [N -> Nat], NEW o \in Nodes, NEW roads \in Seq(N)
  PROVE  PathCost(cost, Route(o, roads)) \in Nat
<1>1. PICK w : /\ \A i \in 0 .. Len(roads) : w[i] \in Nat
               /\ PathCost(cost, Route(o, roads)) = w[Len(roads)]
  BY PathCostIs
<1>2. Len(roads) \in 0 .. Len(roads)
  OBVIOUS
<1> QED
  BY <1>1, <1>2

LEMMA PathCostGrows ==
  ASSUME NEW cost \in [N -> Nat], NEW o \in Nodes, NEW roads \in Seq(N), NEW r \in N
  PROVE  /\ PathCost(cost, Route(o, Append(roads, r))) = PathCost(cost, Route(o, roads)) + cost[r]
         /\ PathCost(cost, Route(o, roads)) \in Nat
<1> DEFINE n == Len(roads)
           more == Append(roads, r)
<1>1. /\ n \in Nat /\ Len(more) = n + 1 /\ more[n + 1] = r /\ more \in Seq(N)
      /\ \A i \in 1 .. n : more[i] = roads[i] /\ roads[i] \in N
  OBVIOUS
<1>2. PICK w : /\ Totals(w, cost, roads, n)
               /\ \A i \in 0 .. n : w[i] \in Nat
               /\ PathCost(cost, Route(o, roads)) = w[n]
  BY PathCostIs
<1> HIDE DEF more
<1>3. PICK h : /\ Totals(h, cost, more, n + 1)
               /\ PathCost(cost, Route(o, more)) = h[n + 1]
  BY <1>1, PathCostIs
<1> HIDE DEF n
<1>4. h[n] = w[n] /\ w[n] \in Nat
  <2>1. n + 1 \in Nat /\ n <= n + 1 /\ n \in 0 .. n
    BY <1>1
  <2>2. Alike(roads, more, n)
    BY <1>1 DEF Alike
  <2>3. \A i \in 0 .. n : w[i] \in Nat /\ h[i] = w[i]
    <3>1. PICK m : m = n + 1
      OBVIOUS
    <3>2. n \in Nat /\ m \in Nat /\ n <= m
      BY <1>1, <2>1, <3>1
    <3>3. Totals(w, cost, roads, n) /\ Totals(h, cost, more, m)
      BY <1>2, <1>3, <3>1
    <3> QED
      BY <2>2, <3>2, <3>3, TotalsAgree
  <2> QED
    BY <2>1, <2>3
<1>5. h[n + 1] = h[n] + cost[r]
  <2>1. n + 1 \in 0 .. n + 1 /\ n + 1 # 0 /\ (n + 1) - 1 = n
    BY <1>1
  <2> QED
    BY <1>1, <1>3, <2>1 DEF Totals
<1> QED
  BY <1>2, <1>3, <1>4, <1>5 DEF more

-----------------------------------------------------------------------------
(* The search.                                                              *)

\* The heuristic never drops by more than a road costs.
Guided(cost, d) ==
    /\ \A n \in Nodes : Heuristic(n, d) \in Nat
    /\ \A r \in N : Heuristic(Network[r].src, d) <= cost[r] + Heuristic(Network[r].dst, d)

\* An open item is a path to its node by closed nodes, each once, with its cost.
PathTo(roads, o, n, closed) ==
    /\ roads \in Seq(N)
    /\ Leads(Route(o, roads), o, n)
    /\ \A i \in 1 .. Len(roads) : Network[roads[i]].src \in closed
    /\ \A i, j \in 1 .. Len(roads) : Network[roads[i]].src = Network[roads[j]].src => i = j

Item(i, cost, o, d, closed) ==
    /\ i.node \in Nodes /\ i.from = o
    /\ PathTo(i.roads, o, i.node, closed)
    /\ i.g = PathCost(cost, Route(o, i.roads))
    /\ i.g \in Nat /\ i.g < Unreachable
    /\ i.f = i.g + Heuristic(i.node, d)

Cheapest(i, open) == i \in open /\ \A j \in open : i.f <= j.f
Behind(closed) == {r \in N : Network[r].src \in closed}

Opened(s, cost, o, d) ==
    /\ IsFiniteSet(s.open)
    /\ \A i \in s.open : Item(i, cost, o, d, s.closed) /\ s.best[i.node] <= i.g

\* A node that was reached and is not closed is open at its best.
Reached(s) ==
    \A m \in Nodes \ s.closed :
        s.best[m] < Unreachable => \E i \in s.open : i.node = m /\ i.g = s.best[m]

\* Nodes are closed in the order of f.
InOrder(s, d) == \A m \in s.closed, i \in s.open : s.best[m] + Heuristic(m, d) <= i.f

Relaxed(s, cost) ==
    \A r \in N : Network[r].src \in s.closed =>
        s.best[Network[r].dst] <= s.best[Network[r].src] + cost[r]

\* A road is pushed once, so that the search ends.
Ends(s, k, d) ==
    IF s.found.path = None
    THEN /\ s.found.cost = Unreachable
         /\ s.open # {} => k + Cardinality(s.open) <= 1 + Cardinality(Behind(s.closed))
    ELSE \E i \in s.open : Cheapest(i, s.open) /\ i.node = d /\ s.found.cost = i.g

Visits(s, o, d) ==
    /\ s = [open |-> s.open, best |-> s.best, closed |-> s.closed, found |-> s.found]
    /\ s.closed \subseteq Nodes /\ d \notin s.closed
    /\ s.best \in [Nodes -> Nat] /\ \A m \in Nodes : s.best[m] <= Unreachable
    /\ s.best[o] = 0

Search(s, k, cost, o, d) ==
    /\ Visits(s, o, d) /\ Opened(s, cost, o, d) /\ Reached(s) /\ InOrder(s, d) /\ Relaxed(s, cost)
    /\ Ends(s, k, d)

LEMMA UnreachableIs == Unreachable \in Nat /\ Unreachable > 0
BY DEF Unreachable

LEMMA NetworkIs == IsFiniteSet(N) /\ \A r \in N : Network[r].src \in Nodes /\ Network[r].dst \in Nodes
<1>1. N \in SUBSET Roads
  BY RoutingConstants, Zenon DEF N
<1> QED
  BY <1>1, RoutingConstants, FS_Subset DEF Nodes, N

\* Some open item is the cheapest.
LEMMA OneIsCheapest ==
  ASSUME NEW s, NEW cost, NEW o, NEW d, Guided(cost, d), Opened(s, cost, o, d), s.open # {}
  PROVE  \E i \in s.open : Cheapest(i, s.open)
<1> DEFINE F == {i.f : i \in s.open}
<1>1. F \subseteq Nat /\ F # {}
  <2>1. \A i \in s.open : i.f \in Nat
    BY DEF Opened, Item, Guided
  <2> QED
    BY <2>1
<1>2. PICK f \in F : \A g \in F : f <= g
  <2> HIDE DEF F
  <2> QED
    BY <1>1, NatHasLeast
<1> QED
  BY <1>2 DEF Cheapest

\* The cheapest open item of a node that is not closed is the best there.
LEMMA CheapestIsBest ==
  ASSUME NEW s, NEW cost, NEW o, NEW d, Guided(cost, d), Visits(s, o, d), Opened(s, cost, o, d),
         Reached(s), NEW i \in s.open, Cheapest(i, s.open), i.node \notin s.closed
  PROVE  i.g = s.best[i.node] /\ i.node \in Nodes
<1>1. /\ i.node \in Nodes /\ i.g \in Nat /\ i.g < Unreachable /\ i.f = i.g + Heuristic(i.node, d)
      /\ s.best[i.node] <= i.g
  BY DEF Opened, Item
<1>2. s.best[i.node] \in Nat
  BY <1>1 DEF Visits
<1>3. s.best[i.node] < Unreachable
  BY <1>1, <1>2, UnreachableIs
<1>4. PICK j \in s.open : j.node = i.node /\ j.g = s.best[i.node]
  BY <1>1, <1>3 DEF Reached
<1>5. j.f = j.g + Heuristic(i.node, d)
  BY <1>4 DEF Opened, Item
<1>6. i.f <= j.f
  BY DEF Cheapest
<1>7. Heuristic(i.node, d) \in Nat
  BY <1>1 DEF Guided
<1> QED
  BY <1>1, <1>2, <1>4, <1>5, <1>6, <1>7

\* What the turn that closes the node of item i pushes, and the bests after it.
Onward(cost, s, i) ==
    {r \in N : /\ Network[r].src = i.node /\ Network[r].dst \notin s.closed \cup {i.node}
              /\ i.g + cost[r] < s.best[Network[r].dst]}
By(cost, d, i, r) ==
    [node |-> Network[r].dst, g |-> i.g + cost[r],
     f |-> i.g + cost[r] + Heuristic(Network[r].dst, d),
     roads |-> Append(i.roads, r), from |-> i.from]
Pushed(cost, d, s, i) == {By(cost, d, i, r) : r \in Onward(cost, s, i)}
Bests(cost, d, s, i) ==
    [m \in Nodes |-> Min({s.best[m]} \cup {j.g : j \in {j \in Pushed(cost, d, s, i) : j.node = m}})]

Dropped(s, i) == [open |-> s.open \ {i}, best |-> s.best, closed |-> s.closed, found |-> s.found]
Found(s, i) ==
    [open |-> s.open, best |-> s.best, closed |-> s.closed,
     found |-> [path |-> [from |-> i.from, roads |-> i.roads], cost |-> i.g]]
Closed(cost, d, s, i) ==
    [open |-> (s.open \ {i}) \cup Pushed(cost, d, s, i), best |-> Bests(cost, d, s, i),
     closed |-> s.closed \cup {i.node}, found |-> s.found]

LEMMA TurnIs ==
  ASSUME NEW s, NEW cost, NEW d, s.found.path = None, \E i \in s.open : Cheapest(i, s.open),
         s = [open |-> s.open, best |-> s.best, closed |-> s.closed, found |-> s.found]
  PROVE  \E i \in s.open :
            /\ Cheapest(i, s.open)
            /\ Turn(cost, d, s) = IF i.node \in s.closed THEN Dropped(s, i)
                                  ELSE IF i.node = d THEN Found(s, i) ELSE Closed(cost, d, s, i)
<1> DEFINE i == CHOOSE i \in s.open : \A j \in s.open : i.f <= j.f
<1>1. i \in s.open /\ Cheapest(i, s.open)
  <2>1. \E z \in s.open : \A j \in s.open : z.f <= j.f
    BY Zenon DEF Cheapest
  <2> QED
    BY <2>1, Zenon DEF Cheapest
<1>2. s.open # {}
  BY <1>1
<1>3. Turn(cost, d, s) =
        IF i.node \in s.closed THEN [s EXCEPT !.open = s.open \ {i}]
        ELSE IF i.node = d
        THEN [s EXCEPT !.found = [path |-> [from |-> i.from, roads |-> i.roads], cost |-> i.g]]
        ELSE Closed(cost, d, s, i)
  BY <1>2 DEF Turn, Pushed, By, Bests, Onward, Closed, N
<1> HIDE DEF i
<1>4. [s EXCEPT !.open = s.open \ {i}] = Dropped(s, i)
  BY DEF Dropped
<1>5. [s EXCEPT !.found = [path |-> [from |-> i.from, roads |-> i.roads], cost |-> i.g]] = Found(s, i)
  BY DEF Found
<1> QED
  BY <1>1, <1>3, <1>4, <1>5, Zenon

LEMMA DroppedKeeps ==
  ASSUME NEW s, NEW k \in Nat, NEW cost, NEW o, NEW d, Search(s, k, cost, o, d), s.found.path = None,
         NEW i \in s.open, i.node \in s.closed
  PROVE  Search(Dropped(s, i), k + 1, cost, o, d)
<1> DEFINE t == Dropped(s, i)
<1>1. /\ t = [open |-> t.open, best |-> t.best, closed |-> t.closed, found |-> t.found]
      /\ t.open = s.open \ {i} /\ t.best = s.best /\ t.closed = s.closed /\ t.found = s.found
  BY DEF Dropped
<1> HIDE DEF t
<1>2. IsFiniteSet(s.open)
  BY DEF Search, Opened
<1>3. Visits(t, o, d) /\ Opened(t, cost, o, d) /\ InOrder(t, d) /\ Relaxed(t, cost)
  <2>1. Visits(t, o, d)
    BY <1>1 DEF Search, Visits
  <2>2. Opened(t, cost, o, d)
    BY <1>1, <1>2, FS_RemoveElement DEF Search, Opened
  <2>3. InOrder(t, d)
    BY <1>1 DEF Search, InOrder
  <2>4. Relaxed(t, cost)
    BY <1>1 DEF Search, Relaxed
  <2> QED
    BY <2>1, <2>2, <2>3, <2>4
<1>4. Reached(t)
  BY <1>1 DEF Search, Reached
<1>5. Ends(t, k + 1, d)
  <2>1. Cardinality(s.open \ {i}) = Cardinality(s.open) - 1 /\ Cardinality(s.open) \in Nat
    BY <1>2, FS_RemoveElement, FS_CardinalityType
  <2>2. k + Cardinality(s.open) <= 1 + Cardinality(Behind(s.closed)) /\ s.found.cost = Unreachable
    BY DEF Search, Ends
  <2>3. PICK c, e, b : c = Cardinality(s.open) /\ e = Cardinality(t.open) /\ b = 1 + Cardinality(Behind(s.closed))
    OBVIOUS
  <2>4. (k + 1) + e = k + c
    BY <1>1, <2>1, <2>3
  <2>5. (k + 1) + Cardinality(t.open) <= 1 + Cardinality(Behind(t.closed))
    BY <1>1, <2>2, <2>3, <2>4
  <2> QED
    BY <1>1, <2>2, <2>5 DEF Ends
<1> QED
  BY <1>3, <1>4, <1>5 DEF t, Search

LEMMA FoundKeeps ==
  ASSUME NEW s, NEW k \in Nat, NEW cost, NEW o \in Nodes, NEW d, Search(s, k, cost, o, d),
         NEW i \in s.open, Cheapest(i, s.open), i.node = d
  PROVE  Search(Found(s, i), k + 1, cost, o, d)
<1> DEFINE t == Found(s, i)
<1>1. /\ t = [open |-> t.open, best |-> t.best, closed |-> t.closed, found |-> t.found]
      /\ t.open = s.open /\ t.best = s.best /\ t.closed = s.closed
      /\ t.found.path = [from |-> i.from, roads |-> i.roads] /\ t.found.cost = i.g
  BY DEF Found
<1> HIDE DEF t
<1>2. t.found.path # None
  <2>1. i.from = o /\ i.roads \in Seq(N)
    BY DEF Search, Opened, Item, PathTo
  <2>2. t.found.path \in [from : Nodes, roads : Seq(N)]
    BY <1>1, <2>1
  <2> QED
    BY <2>2, RoutingConstants, Zenon DEF N
<1>3. Visits(t, o, d) /\ Opened(t, cost, o, d)
  BY <1>1 DEF Search, Visits, Opened
<1>4. InOrder(t, d) /\ Relaxed(t, cost) /\ Reached(t)
  BY <1>1 DEF Search, InOrder, Relaxed, Reached
<1>5. Ends(t, k + 1, d)
  BY <1>1, <1>2, Zenon DEF Ends
<1> QED
  BY <1>3, <1>4, <1>5 DEF t, Search

\* A path goes on by a road from its end.
LEMMA LeadsOn ==
  ASSUME NEW o \in Nodes, NEW roads \in Seq(N), NEW n, Leads(Route(o, roads), o, n),
         NEW r \in N, Network[r].src = n
  PROVE  Leads(Route(o, Append(roads, r)), o, Network[r].dst)
<1> DEFINE more == Append(roads, r)
           l == Len(roads)
<1>1. l \in Nat
  OBVIOUS
<1>2. /\ more \in Seq(N) /\ Len(more) = l + 1 /\ more[l + 1] = r
      /\ \A j \in 1 .. l : more[j] = roads[j]
  BY <1>1
<1> HIDE DEF more, l
<1>3. /\ DOMAIN roads = 1 .. l /\ DOMAIN more = 1 .. l + 1
  BY <1>1, <1>2 DEF l
<1>4. /\ \A j \in 1 .. l : Network[roads[j]].src = IF j = 1 THEN o ELSE Network[roads[j - 1]].dst
      /\ n = IF l = 0 THEN o ELSE Network[roads[l]].dst
  <2>1. roads = <<>> <=> l = 0
    BY <1>1 DEF l
  <2>2. l # 0 => Last(roads) = roads[l]
    BY DEF Last, l
  <2> QED
    BY <1>3, <2>1, <2>2 DEF Leads, Route
<1>5. more # <<>> /\ Last(more) = r
  BY <1>1, <1>2 DEF Last
<1>6. ASSUME NEW j \in 1 .. l + 1
      PROVE  Network[more[j]].src = IF j = 1 THEN o ELSE Network[more[j - 1]].dst
  <2>1. CASE j \in 1 .. l
    <3>1. j # 1 => j - 1 \in 1 .. l
      BY <1>1, <2>1
    <3> QED
      BY <1>2, <1>4, <2>1, <3>1
  <2>2. CASE j = l + 1
    <3>1. Network[more[j]].src = n
      BY <1>2, <2>2
    <3>2. (j = 1 <=> l = 0) /\ j - 1 = l /\ (l # 0 => l \in 1 .. l)
      BY <1>1, <2>2
    <3> QED
      BY <1>2, <1>4, <3>1, <3>2
  <2> QED
    BY <1>1, <2>1, <2>2
<1>7. Leads(Route(o, more), o, Network[r].dst)
  BY <1>3, <1>5, <1>6 DEF Leads, Route
<1> QED
  BY <1>7 DEF more

\* A path goes on by a road from its end, to a node that is closed now.
LEMMA PathGoesOn ==
  ASSUME NEW o \in Nodes, NEW closed, NEW roads, NEW n, n \notin closed, PathTo(roads, o, n, closed),
         NEW r \in N, Network[r].src = n
  PROVE  PathTo(Append(roads, r), o, Network[r].dst, closed \cup {n})
<1> DEFINE more == Append(roads, r)
           l == Len(roads)
<1>1. roads \in Seq(N) /\ l \in Nat
  BY DEF PathTo
<1>2. /\ more \in Seq(N) /\ Len(more) = l + 1 /\ more[l + 1] = r
      /\ \A j \in 1 .. l : more[j] = roads[j]
  BY <1>1
<1>3. Leads(Route(o, more), o, Network[r].dst)
  BY <1>1, LeadsOn DEF PathTo
<1> HIDE DEF more, l
<1>4. /\ \A j \in 1 .. l : Network[roads[j]].src \in closed
      /\ \A j, m \in 1 .. l : Network[roads[j]].src = Network[roads[m]].src => j = m
  BY Zenon DEF PathTo, l
<1>5. \A j \in 1 .. l + 1 : Network[more[j]].src = IF j = l + 1 THEN n ELSE Network[roads[j]].src
  BY <1>1, <1>2
<1>6. \A j \in 1 .. l + 1 : j = l + 1 \/ j \in 1 .. l
  BY <1>1
<1>7. \A j \in 1 .. l + 1 : Network[more[j]].src \in closed \cup {n}
  BY <1>4, <1>5, <1>6
<1>8. \A j, m \in 1 .. l + 1 : Network[more[j]].src = Network[more[m]].src => j = m
  <2> SUFFICES ASSUME NEW j \in 1 .. l + 1, NEW m \in 1 .. l + 1,
                      Network[more[j]].src = Network[more[m]].src
               PROVE  j = m
    OBVIOUS
  <2>1. CASE j \in 1 .. l /\ m \in 1 .. l
    <3>1. j # l + 1 /\ m # l + 1
      BY <1>1, <2>1
    <3> QED
      BY <1>4, <1>5, <2>1, <3>1
  <2>2. ASSUME NEW x \in 1 .. l PROVE Network[more[x]].src # n
    <3>1. x # l + 1 /\ x \in 1 .. l + 1
      BY <1>1
    <3> QED
      BY <1>4, <1>5, <3>1
  <2>3. Network[more[l + 1]].src = n
    BY <1>2
  <2> QED
    BY <1>6, <2>1, <2>2, <2>3
<1> QED
  BY <1>2, <1>3, <1>7, <1>8 DEF PathTo, more

\* What is pushed are items: paths that go on from the closed node.
LEMMA PushedItem ==
  ASSUME NEW s, NEW k, NEW cost \in [N -> Nat], NEW o \in Nodes, NEW d,
         Guided(cost, d), Search(s, k, cost, o, d),
         NEW i \in s.open, Cheapest(i, s.open), i.node \notin s.closed,
         NEW j \in Pushed(cost, d, s, i)
  PROVE  /\ Item(j, cost, o, d, s.closed \cup {i.node})
         /\ j.node \in Nodes \ (s.closed \cup {i.node})
         /\ j.g < s.best[j.node] /\ i.f <= j.f
         /\ \E r \in Onward(cost, s, i) : j = By(cost, d, i, r)
<1>1. PICK r \in Onward(cost, s, i) : j = By(cost, d, i, r)
  BY DEF Pushed
<1>2. /\ r \in N /\ Network[r].src = i.node /\ Network[r].dst \notin s.closed \cup {i.node}
      /\ i.g + cost[r] < s.best[Network[r].dst]
  BY DEF Onward
<1>3. /\ j.node = Network[r].dst /\ j.g = i.g + cost[r]
      /\ j.f = i.g + cost[r] + Heuristic(Network[r].dst, d)
      /\ j.roads = Append(i.roads, r) /\ j.from = i.from
  BY <1>1 DEF By
<1>4. Item(i, cost, o, d, s.closed)
  BY DEF Search, Opened
<1>5. Network[r].dst \in Nodes /\ Network[r].src \in Nodes /\ cost[r] \in Nat
  BY <1>2, NetworkIs
<1>6. /\ Heuristic(Network[r].dst, d) \in Nat /\ Heuristic(i.node, d) \in Nat
      /\ Heuristic(i.node, d) <= cost[r] + Heuristic(Network[r].dst, d)
  BY <1>2, <1>5 DEF Guided
<1>7. /\ i.g \in Nat /\ i.f = i.g + Heuristic(i.node, d) /\ i.from = o
      /\ i.g = PathCost(cost, Route(o, i.roads))
      /\ PathTo(i.roads, o, i.node, s.closed)
  BY <1>4 DEF Item
<1>8. PathTo(j.roads, o, j.node, s.closed \cup {i.node})
  <2>1. PathTo(Append(i.roads, r), o, Network[r].dst, s.closed \cup {i.node})
    <3>1. PICK roads, n, closed : roads = i.roads /\ n = i.node /\ closed = s.closed
      OBVIOUS
    <3>2. PathTo(Append(roads, r), o, Network[r].dst, closed \cup {n})
      BY <1>2, <1>7, <3>1, PathGoesOn
    <3> QED
      BY <3>1, <3>2
  <2> QED
    BY <1>3, <2>1
<1>9. j.g = PathCost(cost, Route(o, j.roads))
  <2>1. i.roads \in Seq(N)
    BY <1>7 DEF PathTo
  <2> QED
    BY <1>2, <1>3, <1>7, <2>1, PathCostGrows
<1>10. j.g \in Nat /\ j.g < s.best[j.node] /\ s.best[j.node] \in Nat /\ s.best[j.node] <= Unreachable
  BY <1>2, <1>3, <1>5, <1>7 DEF Search, Visits
<1>11. j.g < Unreachable
  BY <1>10, UnreachableIs
<1>12. i.f <= j.f
  BY <1>3, <1>5, <1>6, <1>7
<1>13. j.f = j.g + Heuristic(j.node, d)
  BY <1>3
<1> QED
  BY <1>1, <1>2, <1>3, <1>5, <1>7, <1>8, <1>9, <1>10, <1>11, <1>12, <1>13 DEF Item

LEMMA BestsAre ==
  ASSUME NEW s, NEW k, NEW cost \in [N -> Nat], NEW o \in Nodes, NEW d,
         Guided(cost, d), Search(s, k, cost, o, d),
         NEW i \in s.open, Cheapest(i, s.open), i.node \notin s.closed, NEW m \in Nodes
  PROVE  LET best == Bests(cost, d, s, i)[m]
             there == {j \in Pushed(cost, d, s, i) : j.node = m}
         IN  /\ best \in Nat /\ best <= s.best[m]
             /\ best = s.best[m] \/ \E j \in there : j.g = best
             /\ \A j \in there : best <= j.g
<1> DEFINE there == {j \in Pushed(cost, d, s, i) : j.node = m}
           S == {s.best[m]} \cup {j.g : j \in there}
<1>1. Bests(cost, d, s, i)[m] = Min(S)
  BY DEF Bests
<1>2. \A j \in there : j.g \in Nat
  BY PushedItem DEF Item
<1>3. s.best[m] \in Nat
  BY DEF Search, Visits
<1>4. S \subseteq Nat /\ S # {}
  BY <1>2, <1>3
<1>5. Min(S) \in S /\ \A y \in S : Min(S) <= y
  <2> HIDE DEF S
  <2> QED
    BY <1>4, MinOfNat
<1>6. Min(S) \in Nat /\ Min(S) <= s.best[m]
  BY <1>4, <1>5
<1>7. Min(S) = s.best[m] \/ \E j \in there : j.g = Min(S)
  BY <1>5
<1>8. \A j \in there : Min(S) <= j.g
  BY <1>5
<1> QED
  BY <1>1, <1>6, <1>7, <1>8, Zenon

\* The number of roads behind the closed nodes bounds the open items.
LEMMA PushedCounted ==
  ASSUME NEW s, NEW cost, NEW d, IsFiniteSet(s.open), NEW i \in s.open, i.node \notin s.closed
  PROVE  /\ IsFiniteSet(Pushed(cost, d, s, i))
         /\ IsFiniteSet((s.open \ {i}) \cup Pushed(cost, d, s, i))
         /\ Cardinality((s.open \ {i}) \cup Pushed(cost, d, s, i)) + 1 + Cardinality(Behind(s.closed))
              <= Cardinality(s.open) + Cardinality(Behind(s.closed \cup {i.node}))
<1> DEFINE pushed == Pushed(cost, d, s, i)
           onward == Onward(cost, s, i)
           rest == s.open \ {i}
           old == Behind(s.closed)
           new == Behind(s.closed \cup {i.node})
           f == [r \in onward |-> By(cost, d, i, r)]
<1>1. /\ IsFiniteSet(onward) /\ IsFiniteSet(old) /\ IsFiniteSet(new)
      /\ onward \cap old = {} /\ onward \cup old \subseteq new
  <2>1. onward \in SUBSET N /\ old \in SUBSET N /\ new \in SUBSET N
    BY DEF Onward, Behind
  <2>2. IsFiniteSet(onward) /\ IsFiniteSet(old) /\ IsFiniteSet(new)
    BY <2>1, NetworkIs, FS_Subset
  <2>3. onward \cap old = {} /\ onward \cup old \subseteq new
    BY DEF Onward, Behind
  <2> QED
    BY <2>2, <2>3
<1>2. f \in Surjection(onward, pushed)
  BY DEF Surjection, Pushed
<1> HIDE DEF pushed, onward, old, new, f
<1>3. IsFiniteSet(pushed) /\ Cardinality(pushed) <= Cardinality(onward)
  BY <1>1, <1>2, FS_Surjection
<1>4. IsFiniteSet(rest) /\ Cardinality(rest) = Cardinality(s.open) - 1
  BY FS_RemoveElement
<1> HIDE DEF rest
<1>5. /\ IsFiniteSet(rest \cup pushed)
      /\ Cardinality(rest \cup pushed) = Cardinality(rest) + Cardinality(pushed) - Cardinality(rest \cap pushed)
      /\ IsFiniteSet(rest \cap pushed)
  BY <1>3, <1>4, FS_Union, FS_Intersection
<1>6. Cardinality(onward \cup old) = Cardinality(onward) + Cardinality(old)
  <2>1. Cardinality(onward \cup old) = Cardinality(onward) + Cardinality(old) - Cardinality(onward \cap old)
    BY <1>1, FS_Union
  <2>2. Cardinality(onward \cap old) = 0
    BY <1>1, FS_EmptySet
  <2>3. Cardinality(onward) \in Nat /\ Cardinality(old) \in Nat
    BY <1>1, FS_CardinalityType
  <2> QED
    BY <2>1, <2>2, <2>3
<1>7. Cardinality(onward \cup old) <= Cardinality(new)
  <2>1. onward \cup old \in SUBSET new
    BY <1>1
  <2> QED
    BY <1>1, <2>1, FS_Subset
<1>8. /\ Cardinality(pushed) \in Nat /\ Cardinality(rest \cap pushed) \in Nat /\ Cardinality(onward) \in Nat
      /\ Cardinality(old) \in Nat /\ Cardinality(new) \in Nat /\ Cardinality(s.open) \in Nat
      /\ Cardinality(rest) \in Nat
  BY <1>1, <1>3, <1>4, <1>5, FS_CardinalityType
<1>9. Cardinality(rest \cup pushed) + 1 + Cardinality(old) <= Cardinality(s.open) + Cardinality(new)
  BY <1>3, <1>4, <1>5, <1>6, <1>7, <1>8
<1> QED
  BY <1>3, <1>5, <1>9 DEF rest, pushed, old, new

LEMMA ClosedKeeps ==
  ASSUME NEW s, NEW k \in Nat, NEW cost \in [N -> Nat], NEW o \in Nodes, NEW d,
         Guided(cost, d), Search(s, k, cost, o, d), s.found.path = None,
         NEW i \in s.open, Cheapest(i, s.open), i.node \notin s.closed, i.node # d
  PROVE  Search(Closed(cost, d, s, i), k + 1, cost, o, d)
<1> DEFINE t == Closed(cost, d, s, i)
           pushed == Pushed(cost, d, s, i)
<1>1. /\ t = [open |-> t.open, best |-> t.best, closed |-> t.closed, found |-> t.found]
      /\ t.open = (s.open \ {i}) \cup pushed /\ t.best = Bests(cost, d, s, i)
      /\ t.closed = s.closed \cup {i.node} /\ t.found = s.found
  BY DEF Closed
<1> HIDE DEF t, pushed
<1> PICK n : n = i.node
  OBVIOUS
<1>2. n \in Nodes /\ i.g = s.best[n]
  BY CheapestIsBest DEF Search
<1>3. /\ \A j \in s.open : Item(j, cost, o, d, s.closed) /\ s.best[j.node] <= j.g
      /\ \A m \in Nodes : s.best[m] \in Nat /\ s.best[m] <= Unreachable
      /\ s.best[o] = 0
  BY DEF Search, Opened, Visits
<1>4. \A j \in pushed : /\ Item(j, cost, o, d, t.closed)
                        /\ j.node \in Nodes \ t.closed
                        /\ i.f <= j.f
  BY <1>1, PushedItem DEF pushed
<1>5. \A m \in Nodes : /\ t.best[m] \in Nat /\ t.best[m] <= s.best[m]
                       /\ t.best[m] = s.best[m] \/ \E j \in pushed : j.node = m /\ j.g = t.best[m]
                       /\ \A j \in pushed : j.node = m => t.best[m] <= j.g
  <2> SUFFICES ASSUME NEW m \in Nodes
               PROVE  /\ t.best[m] \in Nat /\ t.best[m] <= s.best[m]
                      /\ t.best[m] = s.best[m] \/ \E j \in pushed : j.node = m /\ j.g = t.best[m]
                      /\ \A j \in pushed : j.node = m => t.best[m] <= j.g
    OBVIOUS
  <2> DEFINE there == {j \in pushed : j.node = m}
  <2>1. /\ t.best[m] \in Nat /\ t.best[m] <= s.best[m]
        /\ t.best[m] = s.best[m] \/ \E j \in there : j.g = t.best[m]
        /\ \A j \in there : t.best[m] <= j.g
    <3>1. /\ Bests(cost, d, s, i)[m] \in Nat /\ Bests(cost, d, s, i)[m] <= s.best[m]
          /\ \/ Bests(cost, d, s, i)[m] = s.best[m]
             \/ \E j \in {j \in Pushed(cost, d, s, i) : j.node = m} : j.g = Bests(cost, d, s, i)[m]
          /\ \A j \in {j \in Pushed(cost, d, s, i) : j.node = m} : Bests(cost, d, s, i)[m] <= j.g
      BY BestsAre, Zenon
    <3> QED
      BY <1>1, <3>1 DEF pushed
  <2> QED
    BY <2>1
<1>6. \A m \in t.closed : t.best[m] = s.best[m] /\ m \in Nodes
  <2>1. t.closed \subseteq Nodes
    BY <1>1, <1>2 DEF Search, Visits
  <2> QED
    BY <1>4, <1>5, <2>1
<1>7. Visits(t, o, d)
  <2>1. t.best \in [Nodes -> Nat]
    <3>1. t.best = [m \in Nodes |-> t.best[m]]
      BY <1>1 DEF Bests
    <3> QED
      BY <1>5, <3>1
  <2>2. \A m \in Nodes : t.best[m] <= Unreachable
    BY <1>3, <1>5, UnreachableIs
  <2>3. t.best[o] = 0
    BY <1>3, <1>5
  <2>4. t.closed \subseteq Nodes /\ d \notin t.closed
    BY <1>1, <1>2 DEF Search, Visits
  <2> QED
    BY <1>1, <2>1, <2>2, <2>3, <2>4, Zenon DEF Visits
<1>8. Opened(t, cost, o, d)
  <2>1. IsFiniteSet(t.open)
    <3>1. IsFiniteSet(s.open)
      BY DEF Search, Opened
    <3>2. IsFiniteSet((s.open \ {i}) \cup Pushed(cost, d, s, i))
      BY <3>1, PushedCounted, Zenon
    <3> QED
      BY <1>1, <3>2 DEF pushed
  <2>2. ASSUME NEW j \in s.open PROVE Item(j, cost, o, d, t.closed) /\ t.best[j.node] <= j.g
    <3>1. Item(j, cost, o, d, s.closed) /\ s.best[j.node] <= j.g /\ j.node \in Nodes /\ j.g \in Nat
      BY <1>3 DEF Item
    <3>2. PathTo(j.roads, o, j.node, t.closed)
      BY <1>1, <3>1 DEF Item, PathTo
    <3>3. Item(j, cost, o, d, t.closed)
      BY <3>1, <3>2, Zenon DEF Item
    <3>4. t.best[j.node] <= j.g
      BY <1>3, <1>5, <3>1
    <3> QED
      BY <3>3, <3>4
  <2>3. ASSUME NEW j \in pushed PROVE Item(j, cost, o, d, t.closed) /\ t.best[j.node] <= j.g
    BY <1>4, <1>5
  <2> QED
    BY <1>1, <2>1, <2>2, <2>3 DEF Opened
<1>9. Reached(t)
  <2> SUFFICES ASSUME NEW m \in Nodes \ t.closed, t.best[m] < Unreachable
               PROVE  \E j \in t.open : j.node = m /\ j.g = t.best[m]
    BY DEF Reached
  <2>1. CASE t.best[m] = s.best[m]
    <3>1. PICK j \in s.open : j.node = m /\ j.g = s.best[m]
      BY <1>1, <2>1 DEF Search, Reached
    <3>2. j # i
      BY <1>1, <3>1
    <3> QED
      BY <1>1, <2>1, <3>1, <3>2
  <2>2. CASE \E j \in pushed : j.node = m /\ j.g = t.best[m]
    BY <1>1, <2>2
  <2> QED
    BY <1>5, <2>1, <2>2
<1>10. \A j \in t.open : i.f <= j.f
  BY <1>1, <1>4 DEF Cheapest
<1>11. i.f = s.best[n] + Heuristic(n, d) /\ Heuristic(n, d) \in Nat
  BY <1>2, <1>3 DEF Item, Guided
<1>12. \A j \in t.open : j.f \in Nat
  BY <1>8 DEF Opened, Item, Guided
<1>13. \A m \in t.closed : s.best[m] + Heuristic(m, d) <= i.f
  <2>1. \A m \in s.closed : s.best[m] + Heuristic(m, d) <= i.f
    BY DEF Search, InOrder
  <2>2. s.best[n] + Heuristic(n, d) <= i.f
    BY <1>2, <1>3, <1>11
  <2> QED
    BY <1>1, <2>1, <2>2
<1>14. InOrder(t, d)
  <2> SUFFICES ASSUME NEW m \in t.closed, NEW j \in t.open
               PROVE  t.best[m] + Heuristic(m, d) <= j.f
    BY DEF InOrder
  <2>1. s.best[m] \in Nat /\ Heuristic(m, d) \in Nat /\ t.best[m] = s.best[m]
    BY <1>3, <1>6 DEF Guided
  <2>2. i.f \in Nat
    BY <1>2, <1>3, <1>11
  <2> QED
    BY <1>10, <1>12, <1>13, <2>1, <2>2
<1>15. Relaxed(t, cost)
  <2> SUFFICES ASSUME NEW r \in N, Network[r].src \in t.closed
               PROVE  t.best[Network[r].dst] <= t.best[Network[r].src] + cost[r]
    BY DEF Relaxed
  <2>1. PICK a, b, c : a = Network[r].src /\ b = Network[r].dst /\ c = cost[r]
    OBVIOUS
  <2>2. a \in t.closed /\ a \in Nodes /\ b \in Nodes /\ c \in Nat
    BY <2>1, NetworkIs
  <2>3. s.best[a] \in Nat /\ s.best[b] \in Nat /\ t.best[b] \in Nat /\ t.best[b] <= s.best[b]
        /\ t.best[a] = s.best[a]
    BY <1>3, <1>5, <1>6, <2>2
  <2>4. CASE a \in s.closed
    <3>1. s.best[b] <= s.best[a] + c
      BY <2>1, <2>4 DEF Search, Relaxed
    <3> QED
      BY <2>1, <2>3, <2>2, <3>1
  <2>5. CASE a = n /\ b \in t.closed
    <3>1. s.best[b] + Heuristic(b, d) <= s.best[n] + Heuristic(n, d)
      BY <1>11, <1>13, <2>5
    <3>2. Heuristic(n, d) <= c + Heuristic(b, d) /\ Heuristic(b, d) \in Nat
      BY <2>1, <2>2, <2>5 DEF Guided
    <3>3. s.best[b] <= s.best[a] + c
      <4>1. PICK x, y : x = Heuristic(n, d) /\ y = Heuristic(b, d)
        OBVIOUS
      <4> QED
        BY <1>11, <2>2, <2>3, <2>5, <3>1, <3>2, <4>1
    <3> QED
      BY <2>1, <2>2, <2>3, <3>3
  <2>6. CASE a = n /\ b \notin t.closed
    <3>1. CASE s.best[n] + c < s.best[b]
      <4>1. r \in Onward(cost, s, i)
        BY <1>1, <1>2, <2>1, <2>6, <3>1 DEF Onward
      <4>2. By(cost, d, i, r) \in pushed /\ By(cost, d, i, r).node = b /\ By(cost, d, i, r).g = s.best[n] + c
        BY <1>2, <2>1, <4>1 DEF pushed, Pushed, By
      <4>3. t.best[b] <= s.best[n] + c
        BY <1>5, <2>2, <4>2
      <4> QED
        BY <2>1, <2>3, <2>6, <4>3
    <3>2. CASE s.best[b] <= s.best[n] + c
      BY <2>1, <2>2, <2>3, <2>6, <3>2
    <3> QED
      BY <2>2, <2>3, <2>6, <3>1, <3>2
  <2> QED
    BY <1>1, <2>2, <2>4, <2>5, <2>6
<1>16. Ends(t, k + 1, d)
  <2>1. k + Cardinality(s.open) <= 1 + Cardinality(Behind(s.closed)) /\ s.found.cost = Unreachable
    BY DEF Search, Ends
  <2>2. Cardinality(t.open) + 1 + Cardinality(Behind(s.closed))
          <= Cardinality(s.open) + Cardinality(Behind(t.closed))
    <3>1. IsFiniteSet(s.open)
      BY DEF Search, Opened
    <3>2. Cardinality((s.open \ {i}) \cup Pushed(cost, d, s, i)) + 1 + Cardinality(Behind(s.closed))
            <= Cardinality(s.open) + Cardinality(Behind(s.closed \cup {i.node}))
      BY <3>1, PushedCounted, Zenon
    <3> QED
      BY <1>1, <3>2 DEF pushed
  <2>3. /\ Cardinality(t.open) \in Nat /\ Cardinality(s.open) \in Nat
        /\ Cardinality(Behind(s.closed)) \in Nat /\ Cardinality(Behind(t.closed)) \in Nat
    <3>1. IsFiniteSet(t.open) /\ IsFiniteSet(s.open)
      BY <1>8 DEF Search, Opened
    <3>2. Behind(s.closed) \in SUBSET N /\ Behind(t.closed) \in SUBSET N
      BY DEF Behind
    <3> QED
      BY <3>1, <3>2, NetworkIs, FS_Subset, FS_CardinalityType
  <2>4. (k + 1) + Cardinality(t.open) <= 1 + Cardinality(Behind(t.closed))
    BY <2>1, <2>2, <2>3
  <2> QED
    BY <1>1, <2>1, <2>4 DEF Ends
<1> QED
  BY <1>7, <1>8, <1>9, <1>14, <1>15, <1>16 DEF t, Search

\* A turn keeps the search, and counts, unless it has ended.
LEMMA TurnKeeps ==
  ASSUME NEW s, NEW k \in Nat, NEW cost \in [N -> Nat], NEW o \in Nodes, NEW d,
         Guided(cost, d), Search(s, k, cost, o, d)
  PROVE  Search(Turn(cost, d, s), k + 1, cost, o, d)
<1>1. CASE s.open = {} \/ s.found.path # None
  <2>1. Turn(cost, d, s) = s
    BY <1>1 DEF Turn
  <2>2. Ends(s, k + 1, d)
    BY <1>1 DEF Search, Ends
  <2> QED
    BY <2>1, <2>2 DEF Search
<1>2. CASE s.open # {} /\ s.found.path = None
  <2>1. PICK i \in s.open :
           /\ Cheapest(i, s.open)
           /\ Turn(cost, d, s) = IF i.node \in s.closed THEN Dropped(s, i)
                                 ELSE IF i.node = d THEN Found(s, i) ELSE Closed(cost, d, s, i)
    <3>1. \E i \in s.open : Cheapest(i, s.open)
      BY <1>2, OneIsCheapest DEF Search
    <3>2. s = [open |-> s.open, best |-> s.best, closed |-> s.closed, found |-> s.found]
      BY DEF Search, Visits
    <3> QED
      BY <1>2, <3>1, <3>2, TurnIs
  <2>2. CASE i.node \in s.closed
    BY <1>2, <2>1, <2>2, DroppedKeeps
  <2>3. CASE i.node \notin s.closed /\ i.node = d
    BY <2>1, <2>3, FoundKeeps
  <2>4. CASE i.node \notin s.closed /\ i.node # d
    BY <1>2, <2>1, <2>4, ClosedKeeps
  <2> QED
    BY <2>2, <2>3, <2>4
<1> QED
  BY <1>1, <1>2

StartOf(o, d) ==
    [open   |-> {[node |-> o, g |-> 0, f |-> Heuristic(o, d), roads |-> <<>>, from |-> o]},
     best   |-> [n \in Nodes |-> IF n = o THEN 0 ELSE Unreachable],
     closed |-> {},
     found  |-> [path |-> None, cost |-> Unreachable]]

LEMMA StartKeeps ==
  ASSUME NEW cost \in [N -> Nat], NEW o \in Nodes, NEW d, Guided(cost, d)
  PROVE  Search(StartOf(o, d), 0, cost, o, d)
<1> DEFINE i == [node |-> o, g |-> 0, f |-> Heuristic(o, d), roads |-> <<>>, from |-> o]
           t == StartOf(o, d)
<1>1. /\ t = [open |-> t.open, best |-> t.best, closed |-> t.closed, found |-> t.found]
      /\ t.open = {i} /\ t.best = [n \in Nodes |-> IF n = o THEN 0 ELSE Unreachable]
      /\ t.closed = {} /\ t.found = [path |-> None, cost |-> Unreachable]
  BY DEF StartOf
<1>2. i.node = o /\ i.g = 0 /\ i.f = Heuristic(o, d) /\ i.roads = <<>> /\ i.from = o
  OBVIOUS
<1> HIDE DEF i, t
<1>3. Heuristic(o, d) \in Nat
  BY DEF Guided
<1>4. PathCost(cost, Route(o, <<>>)) = 0
  <2>1. <<>> \in Seq(N) /\ Len(<<>>) = 0
    OBVIOUS
  <2>2. PICK w : /\ Totals(w, cost, <<>>, Len(<<>>))
                 /\ PathCost(cost, Route(o, <<>>)) = w[Len(<<>>)]
    BY <2>1, PathCostIs
  <2>3. w[0] = 0
    BY <2>1, <2>2 DEF Totals
  <2> QED
    BY <2>1, <2>2, <2>3
<1>5. PathTo(<<>>, o, o, {})
  BY DEF PathTo, Leads, Route
<1>6. Item(i, cost, o, d, {})
  BY <1>2, <1>3, <1>4, <1>5, UnreachableIs DEF Item
<1>7. Visits(t, o, d)
  <2>1. t.best \in [Nodes -> Nat] /\ t.best[o] = 0 /\ \A m \in Nodes : t.best[m] <= Unreachable
    BY <1>1, UnreachableIs
  <2> QED
    BY <1>1, <2>1 DEF Visits
<1>8. Opened(t, cost, o, d)
  <2>1. IsFiniteSet(t.open)
    <3>1. IsFiniteSet({i})
      BY FS_Singleton, Zenon
    <3>2. t.open = {i}
      BY <1>1
    <3> QED
      BY <3>1, <3>2, Zenon
  <2>2. t.best[i.node] = 0 /\ i.g = 0 /\ Item(i, cost, o, d, t.closed)
    BY <1>1, <1>2, <1>6, <1>7 DEF Visits
  <2>3. \A j \in t.open : j = i
    BY <1>1
  <2>4. t.best[i.node] <= i.g
    BY <2>2
  <2>5. \A j \in t.open : Item(j, cost, o, d, t.closed) /\ t.best[j.node] <= j.g
    BY <2>2, <2>3, <2>4, Zenon
  <2> QED
    BY <2>1, <2>5, Zenon DEF Opened
<1>9. Reached(t) /\ InOrder(t, d) /\ Relaxed(t, cost)
  <2>1. ASSUME NEW m \in Nodes, t.best[m] < Unreachable PROVE m = o /\ t.best[m] = 0
    BY <1>1, <2>1, UnreachableIs
  <2> QED
    BY <1>1, <1>2, <2>1 DEF Reached, InOrder, Relaxed
<1>10. Ends(t, 0, d)
  <2>1. Cardinality(t.open) = 1
    <3>1. Cardinality({i}) = 1
      BY FS_Singleton, Zenon
    <3>2. t.open = {i}
      BY <1>1
    <3> QED
      BY <3>1, <3>2
  <2>2. Cardinality(Behind(t.closed)) \in Nat
    <3>1. Behind(t.closed) \in SUBSET N
      BY DEF Behind
    <3> QED
      BY <3>1, NetworkIs, FS_Subset, FS_CardinalityType
  <2> QED
    BY <1>1, <2>1, <2>2 DEF Ends
<1> QED
  BY <1>7, <1>8, <1>9, <1>10 DEF t, Search

\* The states after each turn.
Turning(a, cost, o, d, n) ==
    a = [i \in 0 .. n |-> IF i = 0 THEN StartOf(o, d) ELSE Turn(cost, d, a[i - 1])]

LEMMA TurningExists ==
  ASSUME NEW cost, NEW o, NEW d, NEW n \in Nat
  PROVE  \E a : Turning(a, cost, o, d, n)
<1> DEFINE T == {m \in Nat : \E a : Turning(a, cost, o, d, m)}
<1>1. 0 \in T
  <2>1. Turning([i \in 0 .. 0 |-> StartOf(o, d)], cost, o, d, 0)
    BY DEF Turning
  <2> QED
    BY <2>1
<1>2. ASSUME NEW m \in Nat, m \in T PROVE m + 1 \in T
  <2>1. PICK a : Turning(a, cost, o, d, m)
    BY <1>2
  <2> DEFINE last == Turn(cost, d, a[m])
             h == [i \in 0 .. m + 1 |-> IF i <= m THEN a[i] ELSE last]
  <2>2. h[m + 1] = last /\ \A i \in 0 .. m : h[i] = a[i]
    OBVIOUS
  <2>3. \A i \in 0 .. m : a[i] = IF i = 0 THEN StartOf(o, d) ELSE Turn(cost, d, a[i - 1])
    BY <2>1 DEF Turning
  <2>4. h = [i \in 0 .. m + 1 |-> h[i]]
    OBVIOUS
  <2> HIDE DEF h
  <2>5. \A i \in 0 .. m + 1 : h[i] = IF i = 0 THEN StartOf(o, d) ELSE Turn(cost, d, h[i - 1])
    BY <2>2, <2>3
  <2>6. Turning(h, cost, o, d, m + 1)
    BY <2>4, <2>5 DEF Turning
  <2> QED
    BY <2>6
<1> HIDE DEF T
<1>3. Nat \subseteq T
  BY <1>1, <1>2, SetInduction
<1> QED
  BY <1>3 DEF T

\* The search ends, and what it found is what its last state says.
LEMMA FindPathIs ==
  ASSUME NEW cost \in [N -> Nat], NEW o \in Nodes, NEW d, Guided(cost, d)
  PROVE  \E s : /\ Search(s, Cardinality(N) + 1, cost, o, d)
                /\ FindPath(cost, o, d) = s.found
<1> DEFINE n == Cardinality(N) + 1
           a == CHOOSE a : Turning(a, cost, o, d, n)
<1>1. n \in Nat
  BY NetworkIs, FS_CardinalityType
<1>2. Turning(a, cost, o, d, n)
  BY <1>1, TurningExists
<1>3. FindPath(cost, o, d) = a[n].found
  BY DEF FindPath, Turning, StartOf, N
<1> HIDE DEF a, n
<1> DEFINE T == {i \in Nat : i <= n => Search(a[i], i, cost, o, d)}
<1>4. 0 \in T
  <2>1. a[0] = StartOf(o, d)
    BY <1>1, <1>2 DEF Turning
  <2> QED
    BY <2>1, StartKeeps
<1>5. ASSUME NEW i \in Nat, i \in T PROVE i + 1 \in T
  <2> SUFFICES ASSUME i + 1 <= n PROVE Search(a[i + 1], i + 1, cost, o, d)
    OBVIOUS
  <2>1. Search(a[i], i, cost, o, d)
    BY <1>1, <1>5
  <2>2. i + 1 \in 0 .. n /\ i + 1 # 0 /\ (i + 1) - 1 = i
    BY <1>1
  <2>3. a[i + 1] = Turn(cost, d, a[i])
    BY <1>2, <2>2 DEF Turning
  <2> QED
    BY <2>1, <2>3, TurnKeeps
<1> HIDE DEF T
<1>6. Nat \subseteq T
  BY <1>4, <1>5, SetInduction
<1>7. Search(a[n], n, cost, o, d)
  BY <1>1, <1>6 DEF T
<1> QED
  BY <1>3, <1>7 DEF n

-----------------------------------------------------------------------------
(* The search and the paths.                                                *)

\* The nodes along a path.
NodeAt(o, roads, i) == IF i = 0 THEN o ELSE Network[roads[i]].dst

\* A path to a node that is not closed leaves the closed nodes at one whose best
\* is no more than the way to it, nor its f more than the path with what the
\* heuristic says at its end.
LEMMA PathsCross ==
  ASSUME NEW s, NEW k, NEW cost \in [N -> Nat], NEW o \in Nodes, NEW d \in Nodes,
         Guided(cost, d), Search(s, k, cost, o, d),
         NEW roads \in Seq(N), Leads(Route(o, roads), o, d)
  PROVE  \E m \in Nodes \ s.closed :
            /\ s.best[m] <= PathCost(cost, Route(o, roads))
            /\ s.best[m] + Heuristic(m, d) <= PathCost(cost, Route(o, roads)) + Heuristic(d, d)
<1> DEFINE l == Len(roads)
           at == [i \in 0 .. l |-> NodeAt(o, roads, i)]
<1>1. PICK w : /\ Totals(w, cost, roads, l)
               /\ \A i \in 0 .. l : w[i] \in Nat
               /\ PathCost(cost, Route(o, roads)) = w[l]
  BY PathCostIs
<1>2. l \in Nat /\ \A i \in 1 .. l : roads[i] \in N
  OBVIOUS
<1>3. at[0] = o /\ at[l] = d /\ \A i \in 1 .. l : Network[roads[i]].src = at[i - 1] /\ Network[roads[i]].dst = at[i]
  <2>1. roads = <<>> <=> l = 0
    OBVIOUS
  <2>2. l # 0 => Last(roads) = roads[l]
    BY DEF Last
  <2>3. DOMAIN roads = 1 .. l
    OBVIOUS
  <2>4. /\ \A i \in 1 .. l : Network[roads[i]].src = IF i = 1 THEN o ELSE Network[roads[i - 1]].dst
        /\ d = IF l = 0 THEN o ELSE Network[roads[l]].dst
    BY <2>1, <2>2, <2>3 DEF Leads, Route
  <2>5. 0 \in 0 .. l /\ l \in 0 .. l
    BY <1>2
  <2>6. ASSUME NEW i \in 1 .. l
        PROVE  Network[roads[i]].src = at[i - 1] /\ Network[roads[i]].dst = at[i]
    <3>1. i \in 0 .. l /\ i - 1 \in 0 .. l /\ i # 0 /\ (i - 1 = 0 <=> i = 1)
      BY <1>2
    <3>2. at[i] = NodeAt(o, roads, i) /\ at[i - 1] = NodeAt(o, roads, i - 1)
      BY <3>1
    <3> HIDE DEF at
    <3> QED
      BY <2>4, <3>1, <3>2 DEF NodeAt
  <2> QED
    BY <2>4, <2>5, <2>6 DEF NodeAt
<1> HIDE DEF l, at
<1>4. \A i \in 0 .. l : at[i] \in Nodes
  <2> SUFFICES ASSUME NEW i \in 0 .. l PROVE at[i] \in Nodes
    OBVIOUS
  <2>1. CASE i = 0
    BY <1>3, <2>1
  <2>2. CASE i \in 1 .. l
    BY <1>2, <1>3, <2>2, NetworkIs
  <2> QED
    BY <1>2, <2>1, <2>2
<1> DEFINE U == {i \in 0 .. l : at[i] \notin s.closed}
<1>5. l \in U
  BY <1>2, <1>3 DEF Search, Visits
<1>6. U \subseteq Nat
  BY <1>2
<1>7. PICK j \in U : \A i \in U : j <= i
  <2> HIDE DEF U
  <2> QED
    BY <1>5, <1>6, NatHasLeast
<1>8. j \in 0 .. l /\ at[j] \in Nodes \ s.closed /\ \A i \in 0 .. l : i < j => at[i] \in s.closed
  BY <1>4, <1>7
<1> HIDE DEF U
<1>9. \A m \in Nodes : s.best[m] \in Nat /\ Heuristic(m, d) \in Nat
  BY DEF Search, Visits, Guided
<1>10. ASSUME NEW i \in Nat, i + 1 <= l
       PROVE  /\ i \in 0 .. l /\ i + 1 \in 0 .. l
              /\ roads[i + 1] \in N /\ cost[roads[i + 1]] \in Nat /\ w[i + 1] = w[i] + cost[roads[i + 1]]
              /\ Network[roads[i + 1]].src = at[i] /\ Network[roads[i + 1]].dst = at[i + 1]
  <2>1. i + 1 \in 1 .. l /\ i + 1 \in 0 .. l /\ i \in 0 .. l /\ i + 1 # 0 /\ (i + 1) - 1 = i
    BY <1>2, <1>10
  <2>2. w[i + 1] = w[i] + cost[roads[i + 1]]
    BY <1>1, <2>1 DEF Totals
  <2>3. roads[i + 1] \in N
    BY <1>2, <2>1
  <2> QED
    BY <1>3, <2>1, <2>2, <2>3
<1> DEFINE T == {i \in Nat : i <= j => s.best[at[i]] <= w[i]}
<1>11. 0 \in T
  <2>1. w[0] = 0
    BY <1>1, <1>2 DEF Totals
  <2>2. s.best[o] = 0
    BY DEF Search, Visits
  <2> QED
    BY <1>3, <2>1, <2>2
<1>12. ASSUME NEW i \in Nat, i \in T PROVE i + 1 \in T
  <2> SUFFICES ASSUME i + 1 <= j PROVE s.best[at[i + 1]] <= w[i + 1]
    OBVIOUS
  <2>1. i < j /\ i + 1 <= l /\ s.best[at[i]] <= w[i]
    BY <1>2, <1>8, <1>12
  <2>2. PICK r : r = roads[i + 1]
    OBVIOUS
  <2>3. /\ r \in N /\ Network[r].src = at[i] /\ Network[r].dst = at[i + 1]
        /\ cost[r] \in Nat /\ w[i + 1] = w[i] + cost[r] /\ i \in 0 .. l /\ i + 1 \in 0 .. l
    BY <1>10, <2>1, <2>2
  <2>4. at[i] \in s.closed
    BY <1>8, <2>1, <2>3
  <2>5. s.best[at[i + 1]] <= s.best[at[i]] + cost[r]
    BY <2>3, <2>4 DEF Search, Relaxed
  <2>6. s.best[at[i]] \in Nat /\ s.best[at[i + 1]] \in Nat /\ w[i] \in Nat
    BY <1>1, <1>4, <1>9, <2>3
  <2>7. PICK x, y, u, c : x = s.best[at[i]] /\ y = s.best[at[i + 1]] /\ u = w[i] /\ c = cost[r]
    OBVIOUS
  <2> QED
    BY <2>1, <2>3, <2>5, <2>6, <2>7
<1>13. s.best[at[j]] <= w[j]
  <2> HIDE DEF T
  <2>1. Nat \subseteq T
    BY <1>11, <1>12, SetInduction
  <2>2. j \in T /\ j <= j
    BY <1>2, <1>8, <2>1
  <2> QED
    BY <2>2 DEF T
<1> DEFINE V == {i \in Nat : j + i <= l => /\ w[j] <= w[j + i]
                                         /\ w[j] + Heuristic(at[j], d) <= w[j + i] + Heuristic(at[j + i], d)}
<1>14. 0 \in V
  <2>1. j + 0 = j /\ w[j] \in Nat /\ Heuristic(at[j], d) \in Nat
    BY <1>1, <1>2, <1>8, <1>9
  <2> QED
    BY <2>1
<1>15. ASSUME NEW i \in Nat, i \in V PROVE i + 1 \in V
  <2> SUFFICES ASSUME j + (i + 1) <= l
               PROVE  /\ w[j] <= w[j + (i + 1)]
                      /\ w[j] + Heuristic(at[j], d) <= w[j + (i + 1)] + Heuristic(at[j + (i + 1)], d)
    OBVIOUS
  <2>1. PICK e \in Nat : e = j + i
    BY <1>2, <1>8
  <2>2. j + (i + 1) = e + 1 /\ e + 1 <= l
    BY <1>2, <1>8, <2>1
  <2>3. w[j] <= w[e] /\ w[j] + Heuristic(at[j], d) <= w[e] + Heuristic(at[e], d)
    BY <1>2, <1>8, <1>15, <2>1, <2>2
  <2>4. PICK r : r = roads[e + 1]
    OBVIOUS
  <2>5. /\ r \in N /\ Network[r].src = at[e] /\ Network[r].dst = at[e + 1]
        /\ cost[r] \in Nat /\ w[e + 1] = w[e] + cost[r] /\ e \in 0 .. l /\ e + 1 \in 0 .. l
    BY <1>10, <2>2, <2>4
  <2>6. Heuristic(at[e], d) <= cost[r] + Heuristic(at[e + 1], d)
    BY <2>5 DEF Guided
  <2>7. PICK c, u, v, x, y, z : /\ c = cost[r] /\ u = w[j] /\ v = w[e]
                                /\ x = Heuristic(at[j], d) /\ y = Heuristic(at[e], d)
                                /\ z = Heuristic(at[e + 1], d)
    OBVIOUS
  <2>8. u \in Nat /\ v \in Nat /\ x \in Nat /\ y \in Nat /\ z \in Nat /\ c \in Nat
    BY <1>1, <1>4, <1>8, <1>9, <2>5, <2>7
  <2>9. u <= v /\ u + x <= v + y /\ y <= c + z
    BY <2>3, <2>6, <2>7
  <2>10. u <= v + c /\ u + x <= (v + c) + z
    BY <2>8, <2>9
  <2>11. w[e + 1] = v + c
    BY <2>5, <2>7
  <2>12. w[j] <= w[e + 1] /\ w[j] + Heuristic(at[j], d) <= w[e + 1] + Heuristic(at[e + 1], d)
    BY <2>7, <2>10, <2>11, Zenon
  <2> QED
    BY <2>2, <2>12, Zenon
<1>16. w[j] <= w[l] /\ w[j] + Heuristic(at[j], d) <= w[l] + Heuristic(d, d)
  <2> HIDE DEF V
  <2>1. Nat \subseteq V
    BY <1>14, <1>15, SetInduction
  <2>2. PICK i \in Nat : i = l - j
    BY <1>2, <1>8
  <2>3. j + i = l /\ i \in V /\ j + i <= l
    BY <1>2, <1>8, <2>1, <2>2
  <2> QED
    BY <1>3, <2>3 DEF V
<1>17. /\ s.best[at[j]] \in Nat /\ Heuristic(at[j], d) \in Nat /\ Heuristic(d, d) \in Nat
       /\ w[j] \in Nat /\ w[l] \in Nat
  BY <1>1, <1>2, <1>8, <1>9
<1>18. PICK x, y, z, u, v : /\ x = s.best[at[j]] /\ y = Heuristic(at[j], d) /\ z = Heuristic(d, d)
                           /\ u = w[j] /\ v = w[l]
  OBVIOUS
<1>19. x <= v /\ x + y <= v + z
  BY <1>13, <1>16, <1>17, <1>18
<1> QED
  BY <1>1, <1>8, <1>18, <1>19

LEMMA NodesAreFinite == IsFiniteSet(Nodes)
<1> DEFINE S == {Network[r].src : r \in N}
           D == {Network[r].dst : r \in N}
           f == [r \in N |-> Network[r].src]
           g == [r \in N |-> Network[r].dst]
<1>1. f \in Surjection(N, S)
  BY Zenon DEF Surjection
<1>2. g \in Surjection(N, D)
  BY Zenon DEF Surjection
<1>3. Nodes = S \cup D
  BY DEF Nodes, N
<1> HIDE DEF S, D, f, g
<1> QED
  BY <1>1, <1>2, <1>3, NetworkIs, FS_Surjection, FS_Union

\* An open path to a node that is not closed is one of the ways of its trip.
LEMMA OpenIsWay ==
  ASSUME NEW t \in Trips, NEW closed \in SUBSET Nodes, t[2] \notin closed,
         NEW roads, PathTo(roads, t[1], t[2], closed)
  PROVE  Route(t[1], roads) \in Ways[t]
<1>1. t[1] \in Nodes /\ t[2] \in Nodes
  BY RoutingConstants
<1> DEFINE l == Len(roads)
           f == [i \in 1 .. l |-> Network[roads[i]].src]
           F == Nodes \ {t[2]}
<1>2. /\ roads \in Seq(N) /\ Leads(Route(t[1], roads), t[1], t[2])
      /\ \A i \in 1 .. l : Network[roads[i]].src \in closed
      /\ \A i, j \in 1 .. l : Network[roads[i]].src = Network[roads[j]].src => i = j
  BY DEF PathTo
<1>3. l \in Nat /\ roads \in [1 .. l -> N]
  BY <1>2
<1>4. f \in Injection(1 .. l, F)
  <2>1. \A i \in 1 .. l : f[i] \in F
    BY <1>2
  <2> QED
    BY <1>2, <2>1 DEF Injection, IsInjective
<1> HIDE DEF f
<1>5. IsFiniteSet(F) /\ Cardinality(F) = Cardinality(Nodes) - 1 /\ Cardinality(Nodes) \in Nat
  BY <1>1, NodesAreFinite, FS_RemoveElement, FS_CardinalityType
<1> HIDE DEF F
<1>6. Cardinality(1 .. l) = l
  <2>1. l \in Int /\ 1 \in Int
    BY <1>3
  <2>2. Cardinality(1 .. l) = IF 1 > l THEN 0 ELSE l - 1 + 1
    BY <2>1, FS_Interval
  <2> QED
    BY <1>3, <2>2
<1>7. Cardinality(1 .. l) <= Cardinality(F)
  BY <1>4, <1>5, FS_Injection
<1>8. l \in 0 .. Cardinality(Nodes) - 1
  BY <1>3, <1>5, <1>6, <1>7
<1> HIDE DEF l
<1>9. roads \in UNION {[1 .. n -> N] : n \in 0 .. Cardinality(Nodes) - 1}
  BY <1>3, <1>8
<1>10. DOMAIN roads = 1 .. l
  BY <1>3
<1>11. roads \in SimplePaths(t[1], t[2])
  BY <1>2, <1>9, <1>10 DEF SimplePaths, Route, N
<1> QED
  BY <1>11 DEF Ways, Route

\* A way of a trip is a path along roads of the network.
LEMMA WayIsPath ==
  ASSUME NEW t \in Trips, NEW p \in Ways[t]
  PROVE  \E roads \in Seq(N) : p = Route(t[1], roads) /\ Leads(Route(t[1], roads), t[1], t[2])
<1>1. PICK roads \in SimplePaths(t[1], t[2]) : p = Route(t[1], roads)
  BY DEF Ways, Route
<1>2. PICK n \in 0 .. Cardinality(Nodes) - 1 : roads \in [1 .. n -> N]
  BY <1>1 DEF SimplePaths, N
<1>3. Cardinality(Nodes) \in Nat
  BY NodesAreFinite, FS_CardinalityType
<1>4. n \in Nat
  BY <1>3
<1>5. roads \in Seq(N)
  BY <1>2, <1>4
<1>6. Leads(Route(t[1], roads), t[1], t[2])
  BY <1>1 DEF SimplePaths, Route
<1> QED
  BY <1>1, <1>5, <1>6

\* What was found costs no more than any path, and nothing is found only when
\* every path costs too much.
LEMMA FoundIsLeast ==
  ASSUME NEW s, NEW cost \in [N -> Nat], NEW o \in Nodes, NEW d \in Nodes,
         Guided(cost, d), Search(s, Cardinality(N) + 1, cost, o, d),
         NEW roads \in Seq(N), Leads(Route(o, roads), o, d)
  PROVE  s.found.cost <= PathCost(cost, Route(o, roads))
<1>1. PICK c : c = PathCost(cost, Route(o, roads))
  OBVIOUS
<1>2. c \in Nat
  <2>1. PICK w : /\ \A i \in 0 .. Len(roads) : w[i] \in Nat
                 /\ PathCost(cost, Route(o, roads)) = w[Len(roads)]
    BY PathCostIs
  <2>2. Len(roads) \in 0 .. Len(roads)
    OBVIOUS
  <2> QED
    BY <1>1, <2>1, <2>2
<1>3. PICK m \in Nodes \ s.closed : /\ s.best[m] <= c
                                    /\ s.best[m] + Heuristic(m, d) <= c + Heuristic(d, d)
  BY <1>1, PathsCross
<1>4. PICK b, h, z : b = s.best[m] /\ h = Heuristic(m, d) /\ z = Heuristic(d, d)
  OBVIOUS
<1>5. b \in Nat /\ h \in Nat /\ z \in Nat /\ Unreachable \in Nat
  BY <1>4, UnreachableIs DEF Search, Visits, Guided
<1>6. CASE s.found.path = None
  <2>1. s.found.cost = Unreachable
    BY <1>6 DEF Search, Ends
  <2>2. s.open = {}
    <3> SUFFICES ASSUME s.open # {} PROVE FALSE
      OBVIOUS
    <3>1. PICK a, e, q : a = Cardinality(s.open) /\ e = Cardinality(Behind(s.closed)) /\ q = Cardinality(N)
      OBVIOUS
    <3>2. q + 1 + a <= 1 + e
      BY <1>6, <3>1 DEF Search, Ends
    <3>3. a \in Nat /\ a # 0
      BY <3>1, FS_CardinalityType, FS_EmptySet DEF Search, Opened
    <3>4. e \in Nat /\ q \in Nat /\ e <= q
      <4>1. Behind(s.closed) \in SUBSET N
        BY DEF Behind
      <4> QED
        BY <3>1, <4>1, NetworkIs, FS_Subset, FS_CardinalityType
    <3> QED
      BY <3>2, <3>3, <3>4
  <2>3. ~(b < Unreachable)
    BY <1>4, <2>2 DEF Search, Reached
  <2> QED
    BY <1>1, <1>2, <1>3, <1>4, <1>5, <2>1, <2>3
<1>7. CASE s.found.path # None
  <2>1. PICK i \in s.open : Cheapest(i, s.open) /\ i.node = d /\ s.found.cost = i.g
    BY <1>7 DEF Search, Ends
  <2>2. PICK g : g = i.g
    OBVIOUS
  <2>3. g \in Nat /\ g < Unreachable /\ i.f = g + z
    BY <1>4, <2>1, <2>2 DEF Search, Opened, Item
  <2>4. CASE b < Unreachable
    <3>1. PICK j \in s.open : j.node = m /\ j.g = b
      BY <1>4, <2>4 DEF Search, Reached
    <3>2. j.f = b + h
      BY <1>4, <3>1 DEF Search, Opened, Item
    <3>3. i.f <= j.f
      BY <2>1 DEF Cheapest
    <3>4. g + z <= b + h /\ b + h <= c + z
      BY <1>3, <1>4, <2>3, <3>2, <3>3
    <3>5. g <= c
      BY <1>2, <1>5, <2>3, <3>4
    <3> QED
      BY <1>1, <2>1, <2>2, <3>5
  <2>5. CASE ~(b < Unreachable)
    <3>1. b <= c
      BY <1>3, <1>4
    <3>2. g <= c
      BY <1>2, <1>5, <2>3, <2>5, <3>1
    <3> QED
      BY <1>1, <2>1, <2>2, <3>2
  <2> QED
    BY <2>4, <2>5
<1> QED
  BY <1>6, <1>7

\* The search returns the least cost of the ways of a trip.
LEMMA SearchIsLeast ==
  ASSUME NEW cost \in [N -> Nat], NEW t \in Trips, Guided(cost, t[2])
  PROVE  FindPath(cost, t[1], t[2]).cost
           = Min({PathCost(cost, p) : p \in Ways[t]} \cup {Unreachable})
<1> DEFINE C == {PathCost(cost, p) : p \in Ways[t]} \cup {Unreachable}
<1>1. t[1] \in Nodes /\ t[2] \in Nodes
  BY RoutingConstants
<1>2. PICK s : /\ Search(s, Cardinality(N) + 1, cost, t[1], t[2])
               /\ FindPath(cost, t[1], t[2]) = s.found
  BY <1>1, FindPathIs
<1>3. C \subseteq Nat
  <2>1. ASSUME NEW p \in Ways[t] PROVE PathCost(cost, p) \in Nat
    <3>1. PICK roads \in Seq(N) : p = Route(t[1], roads)
      BY WayIsPath
    <3>2. PICK w : /\ \A i \in 0 .. Len(roads) : w[i] \in Nat
                   /\ PathCost(cost, Route(t[1], roads)) = w[Len(roads)]
      BY <1>1, PathCostIs
    <3>3. Len(roads) \in 0 .. Len(roads)
      OBVIOUS
    <3> QED
      BY <3>1, <3>2, <3>3
  <2> QED
    BY <2>1, UnreachableIs
<1>4. s.found.cost \in C /\ s.found.cost <= Unreachable
  <2>1. CASE s.found.path = None
    BY <2>1, <1>2, UnreachableIs DEF Search, Ends
  <2>2. CASE s.found.path # None
    <3>1. PICK i \in s.open : i.node = t[2] /\ s.found.cost = i.g
      BY <1>2, <2>2 DEF Search, Ends
    <3>2. Item(i, cost, t[1], t[2], s.closed)
      BY <1>2 DEF Search, Opened
    <3>3. PathTo(i.roads, t[1], t[2], s.closed)
      BY <3>1, <3>2 DEF Item
    <3>4. s.closed \in SUBSET Nodes /\ t[2] \notin s.closed
      BY <1>2 DEF Search, Visits
    <3>5. Route(t[1], i.roads) \in Ways[t]
      BY <3>3, <3>4, OpenIsWay
    <3>6. i.g = PathCost(cost, Route(t[1], i.roads)) /\ i.g \in Nat /\ i.g < Unreachable
      BY <3>2 DEF Item
    <3>7. i.g <= Unreachable
      BY <3>6, UnreachableIs
    <3> QED
      BY <3>1, <3>5, <3>6, <3>7
  <2> QED
    BY <2>1, <2>2
<1>5. ASSUME NEW c \in C PROVE s.found.cost <= c
  <2>1. CASE c = Unreachable
    BY <1>4, <2>1
  <2>2. ASSUME NEW p \in Ways[t], c = PathCost(cost, p) PROVE s.found.cost <= c
    <3>1. PICK roads \in Seq(N) : p = Route(t[1], roads) /\ Leads(Route(t[1], roads), t[1], t[2])
      BY WayIsPath
    <3> QED
      BY <1>1, <1>2, <2>2, <3>1, FoundIsLeast
  <2> QED
    BY <2>1, <2>2
<1>6. PICK x : x = s.found.cost
  OBVIOUS
<1> HIDE DEF C
<1>7. Min(C) = x
  BY <1>3, <1>4, <1>5, <1>6, MinIs
<1> QED
  BY <1>2, <1>6, <1>7 DEF C

-----------------------------------------------------------------------------
(* The costs of the roads.                                                  *)

\* A quotient is at least what fits.
LEMMA Fitting ==
  ASSUME NEW a \in Nat, NEW b \in Nat \ {0}, NEW f \in Nat, f * b <= a
  PROVE  f <= a \div b
<1> DEFINE q == a \div b
<1>1. q \in Nat /\ a < b * (q + 1)
  OBVIOUS
<1> HIDE DEF q
<1> SUFFICES ASSUME q + 1 <= f PROVE FALSE
  BY <1>1 DEF q
<1>2. PICK d \in Nat : f = q + 1 + d
  <2>1. f - (q + 1) \in Nat /\ f = q + 1 + (f - (q + 1))
    BY <1>1
  <2> QED
    BY <2>1
<1>3. PICK r \in Nat : r = q + 1
  BY <1>1
<1>4. f * b = b * r + d * b /\ d * b \in Nat /\ b * r \in Nat
  <2>1. f = r + d
    BY <1>2, <1>3
  <2>2. (r + d) * b = b * r + d * b /\ d * b \in Nat /\ b * r \in Nat
    OBVIOUS
  <2> QED
    BY <2>1, <2>2
<1>5. a < b * r
  BY <1>1, <1>3
<1> QED
  BY <1>4, <1>5

LEMMA QuotientIsNat == ASSUME NEW a \in Nat, NEW b \in Nat \ {0} PROVE a \div b \in Nat
OBVIOUS

\* A quotient does not exceed a bound its dividend keeps to.
LEMMA QuotientKeeps ==
  ASSUME NEW a \in Nat, NEW b \in Nat \ {0}, NEW f \in Nat, a <= f * b
  PROVE  a \div b \in Nat /\ a \div b <= f
<1> DEFINE q == a \div b
<1>1. q \in Nat /\ b * q <= a
  OBVIOUS
<1> HIDE DEF q
<1> SUFFICES ASSUME f + 1 <= q PROVE FALSE
  BY <1>1 DEF q
<1>2. PICK d \in Nat : q = f + 1 + d
  <2>1. q - (f + 1) \in Nat /\ q = f + 1 + (q - (f + 1))
    BY <1>1
  <2> QED
    BY <2>1
<1>3. b * q = f * b + b + b * d /\ b * d \in Nat /\ f * b \in Nat
  BY <1>2
<1> QED
  BY <1>1, <1>3

\* The larger the divisor, the smaller the quotient.
LEMMA QuotientFalls ==
  ASSUME NEW a \in Nat, NEW b \in Nat \ {0}, NEW v \in Nat \ {0}, v <= b
  PROVE  a \div v \in Nat /\ a \div b <= a \div v
<1> DEFINE q == a \div b
<1>1. q \in Nat /\ b * q <= a
  OBVIOUS
<1> HIDE DEF q
<1>2. PICK d \in Nat : b = v + d
  <2>1. b - v \in Nat /\ b = v + (b - v)
    OBVIOUS
  <2> QED
    BY <2>1
<1>3. b * q = q * v + d * q /\ d * q \in Nat /\ q * v \in Nat
  BY <1>1, <1>2
<1>4. q * v <= a
  BY <1>1, <1>3
<1>5. q <= a \div v
  BY <1>1, <1>4, Fitting
<1> QED
  BY <1>5, QuotientIsNat DEF q

LEMMA QuotientAtSpeed ==
  ASSUME NEW a \in Nat, NEW v \in Nat \ {0}, v <= 139
  PROVE  a \div v \in Nat /\ a \div 139 \in Nat /\ a \div 139 <= a \div v
<1>1. PICK b : b = 139
  OBVIOUS
<1>2. b \in Nat \ {0} /\ v <= b
  BY <1>1
<1>3. a \div v \in Nat /\ a \div b <= a \div v
  BY <1>2, QuotientFalls
<1>4. a \div b \in Nat
  BY <1>2, QuotientIsNat
<1> QED
  BY <1>1, <1>3, <1>4

\* u sums what g says of the members of a subset of S with at most n of them.
One(s) == CHOOSE x \in s : TRUE
Added(u, g, s) == IF s = {} THEN 0 ELSE g[One(s)] + u[s \ {One(s)}]
SumsTo(u, g, S, n) ==
    /\ u = [s \in SUBSET S |-> u[s]]
    /\ \A s \in SUBSET S : Cardinality(s) <= n => u[s] = Added(u, g, s)

LEMMA OneIs ==
  ASSUME NEW S, IsFiniteSet(S), NEW s \in SUBSET S, s # {}
  PROVE  /\ One(s) \in s /\ s \ {One(s)} \in SUBSET S
         /\ Cardinality(s) \in Nat \ {0}
         /\ Cardinality(s \ {One(s)}) = Cardinality(s) - 1
<1>1. One(s) \in s
  BY DEF One
<1>2. IsFiniteSet(s)
  BY FS_Subset
<1>3. Cardinality(s \ {One(s)}) = Cardinality(s) - 1
  BY <1>1, <1>2, FS_RemoveElement
<1>4. Cardinality(s) \in Nat /\ Cardinality(s) # 0
  BY <1>2, FS_CardinalityType, FS_EmptySet
<1> QED
  BY <1>1, <1>3, <1>4

LEMMA SumsExist ==
  ASSUME NEW S, IsFiniteSet(S), NEW g, NEW n \in Nat
  PROVE  \E u : SumsTo(u, g, S, n)
<1> DEFINE T == {m \in Nat : \E u : SumsTo(u, g, S, m)}
<1>1. 0 \in T
  <2> DEFINE z == [s \in SUBSET S |-> 0]
  <2>1. ASSUME NEW s \in SUBSET S, Cardinality(s) <= 0 PROVE z[s] = Added(z, g, s)
    <3>1. s = {}
      <4> SUFFICES ASSUME s # {} PROVE FALSE
        OBVIOUS
      <4>1. Cardinality(s) \in Nat \ {0}
        BY OneIs
      <4> QED
        BY <2>1, <4>1
    <3> QED
      BY <3>1 DEF Added
  <2> QED
    BY <2>1 DEF SumsTo
<1>2. ASSUME NEW m \in Nat, m \in T PROVE m + 1 \in T
  <2>1. PICK u : SumsTo(u, g, S, m)
    BY <1>2
  <2> DEFINE h == [s \in SUBSET S |-> IF Cardinality(s) <= m THEN u[s] ELSE Added(u, g, s)]
  <2>2. ASSUME NEW s \in SUBSET S, Cardinality(s) <= m + 1 PROVE h[s] = Added(h, g, s)
    <3>1. CASE s = {}
      <4>1. h[s] = Added(u, g, s)
        BY <2>1 DEF SumsTo
      <4> QED
        BY <3>1, <4>1 DEF Added
    <3>2. CASE s # {}
      <4>1. PICK t : t = s \ {One(s)}
        OBVIOUS
      <4>2. t \in SUBSET S /\ Cardinality(t) = Cardinality(s) - 1 /\ Cardinality(s) \in Nat
        BY <3>2, <4>1, OneIs
      <4>3. Cardinality(t) <= m
        BY <2>2, <4>2
      <4>4. h[t] = u[t]
        BY <4>2, <4>3
      <4>5. h[s] = Added(u, g, s)
        BY <2>1 DEF SumsTo
      <4> HIDE DEF h
      <4> QED
        BY <3>2, <4>1, <4>4, <4>5 DEF Added
    <3> QED
      BY <3>1, <3>2
  <2>3. h = [s \in SUBSET S |-> h[s]]
    OBVIOUS
  <2> HIDE DEF h
  <2>4. SumsTo(h, g, S, m + 1)
    BY <2>2, <2>3 DEF SumsTo
  <2> QED
    BY <2>4
<1> HIDE DEF T
<1>3. Nat \subseteq T
  BY <1>1, <1>2, SetInduction
<1> QED
  BY <1>3 DEF T

\* The function a sum is defined by.
Summing(u, g, S) == u = [s \in SUBSET S |-> Added(u, g, s)]

LEMMA SummingExists ==
  ASSUME NEW S, IsFiniteSet(S), NEW g
  PROVE  \E u : Summing(u, g, S)
<1>1. PICK n \in Nat : n = Cardinality(S)
  BY FS_CardinalityType
<1>2. PICK u : SumsTo(u, g, S, n)
  BY SumsExist
<1>3. \A s \in SUBSET S : Cardinality(s) <= n
  BY <1>1, FS_Subset
<1>4. \A s \in SUBSET S : u[s] = Added(u, g, s)
  BY <1>2, <1>3 DEF SumsTo
<1>5. u = [s \in SUBSET S |-> Added(u, g, s)]
  BY <1>2, <1>4 DEF SumsTo
<1> QED
  BY <1>5 DEF Summing

\* A sum of numbers is a number, and if they are up to b, one up to b for each
\* member.
BoundedBy(g, S, b) == \A x \in S : g[x] <= b

LEMMA SumKeeps ==
  ASSUME NEW S, IsFiniteSet(S), NEW g, \A x \in S : g[x] \in Nat, NEW u, Summing(u, g, S)
  PROVE  u[S] \in Nat /\ \A b \in Nat : BoundedBy(g, S, b) => u[S] <= b * Cardinality(S)
<1> DEFINE Right(s, n) == u[s] \in Nat /\ \A b \in Nat : BoundedBy(g, S, b) => u[s] <= b * n
           T == {n \in Nat : \A s \in SUBSET S : Cardinality(s) = n => Right(s, n)}
<1>1. 0 \in T
  <2> SUFFICES ASSUME NEW s \in SUBSET S, Cardinality(s) = 0 PROVE Right(s, 0)
    OBVIOUS
  <2>1. s = {}
    BY OneIs
  <2>2. u[s] = 0
    BY <2>1 DEF Summing, Added
  <2> QED
    BY <2>2
<1>2. ASSUME NEW n \in Nat, n \in T PROVE n + 1 \in T
  <2> SUFFICES ASSUME NEW s \in SUBSET S, Cardinality(s) = n + 1 PROVE Right(s, n + 1)
    OBVIOUS
  <2>1. s # {}
    BY FS_EmptySet
  <2>2. PICK t, x : t = s \ {One(s)} /\ x = One(s)
    OBVIOUS
  <2>3. t \in SUBSET S /\ Cardinality(t) = n /\ x \in S
    BY <2>1, <2>2, OneIs
  <2>4. PICK y, z : y = g[x] /\ z = u[t]
    OBVIOUS
  <2>5. u[s] = y + z
    BY <2>1, <2>2, <2>4 DEF Summing, Added
  <2>6. y \in Nat /\ z \in Nat
    BY <1>2, <2>3, <2>4
  <2>7. ASSUME NEW b \in Nat, BoundedBy(g, S, b) PROVE y + z <= b * (n + 1)
    <3>1. z <= b * n
      BY <1>2, <2>3, <2>4, <2>7
    <3>2. y <= b
      BY <2>3, <2>4, <2>7 DEF BoundedBy
    <3> QED
      BY <2>6, <3>1, <3>2
  <2> QED
    BY <2>5, <2>6, <2>7
<1> HIDE DEF T
<1>3. Nat \subseteq T
  BY <1>1, <1>2, SetInduction
<1>4. PICK n \in Nat : n = Cardinality(S)
  BY FS_CardinalityType
<1>5. S \in SUBSET S /\ n \in T
  BY <1>3, <1>4
<1> QED
  BY <1>4, <1>5 DEF T

\* Two sums the live graph takes.
SpeedSum(seen, S) == MapThenSumSet(LAMBDA c : seen[c].speed, S)
LoadSum(seen, known, S) == MapThenSumSet(LAMBDA n : Load(seen, known, n), S)

LEMMA SpeedsAdd ==
  ASSUME NEW S, IsFiniteSet(S), NEW seen, \A c \in S : seen[c].speed \in Nat
  PROVE  /\ SpeedSum(seen, S) \in Nat
         /\ \A b \in Nat : (\A c \in S : seen[c].speed <= b) => SpeedSum(seen, S) <= b * Cardinality(S)
<1> DEFINE g == [c \in S |-> seen[c].speed]
           u == CHOOSE u : u = [s \in SUBSET S |-> IF s = {} THEN 0
                                  ELSE seen[One(s)].speed + u[s \ {One(s)}]]
<1>1. SpeedSum(seen, S) = u[S]
  BY DEF SpeedSum, MapThenSumSet, MapThenFoldSet, One
<1>2. PICK w : Summing(w, g, S)
  BY SummingExists
<1>3. w = [s \in SUBSET S |-> IF s = {} THEN 0 ELSE seen[One(s)].speed + w[s \ {One(s)}]]
  <2>1. \A s \in SUBSET S : Added(w, g, s) = IF s = {} THEN 0 ELSE seen[One(s)].speed + w[s \ {One(s)}]
    <3> TAKE s \in SUBSET S
    <3>1. CASE s = {}
      BY <3>1, Zenon DEF Added
    <3>2. CASE s # {}
      <4>1. One(s) \in s
        BY <3>2, Zenon DEF One
      <4>2. g[One(s)] = seen[One(s)].speed
        BY <4>1
      <4>3. Added(w, g, s) = g[One(s)] + w[s \ {One(s)}]
        BY <3>2, Zenon DEF Added
      <4> HIDE DEF g
      <4> QED
        BY <3>2, <4>2, <4>3, Zenon
    <3> QED
      BY <3>1, <3>2
  <2> QED
    BY <1>2, <2>1 DEF Summing
<1>4. u = [s \in SUBSET S |-> IF s = {} THEN 0 ELSE seen[One(s)].speed + u[s \ {One(s)}]]
  BY <1>3
<1> HIDE DEF u
<1>5. \A s \in SUBSET S : Added(u, g, s) = IF s = {} THEN 0 ELSE seen[One(s)].speed + u[s \ {One(s)}]
  <2> SUFFICES ASSUME NEW s \in SUBSET S, s # {}
               PROVE  Added(u, g, s) = seen[One(s)].speed + u[s \ {One(s)}]
    BY DEF Added
  <2>1. One(s) \in S
    BY OneIs
  <2> QED
    BY <2>1 DEF Added
<1>6. Summing(u, g, S)
  BY <1>4, <1>5 DEF Summing
<1>7. /\ \A c \in S : g[c] \in Nat
      /\ \A b \in Nat : (\A c \in S : seen[c].speed <= b) => BoundedBy(g, S, b)
  BY DEF BoundedBy
<1> HIDE DEF g
<1>8. u[S] \in Nat /\ \A b \in Nat : BoundedBy(g, S, b) => u[S] <= b * Cardinality(S)
  BY <1>6, <1>7, SumKeeps
<1> QED
  BY <1>1, <1>7, <1>8

LEMMA LoadsAdd ==
  ASSUME NEW S, IsFiniteSet(S), NEW seen, NEW known, \A c \in S : Load(seen, known, c) \in Nat
  PROVE  LoadSum(seen, known, S) \in Nat
<1> DEFINE g == [c \in S |-> Load(seen, known, c)]
           u == CHOOSE u : u = [s \in SUBSET S |-> IF s = {} THEN 0
                                  ELSE Load(seen, known, One(s)) + u[s \ {One(s)}]]
<1>1. LoadSum(seen, known, S) = u[S]
  BY DEF LoadSum, MapThenSumSet, MapThenFoldSet, One
<1>2. PICK w : Summing(w, g, S)
  BY SummingExists
<1>3. w = [s \in SUBSET S |-> IF s = {} THEN 0 ELSE Load(seen, known, One(s)) + w[s \ {One(s)}]]
  <2>1. \A s \in SUBSET S : Added(w, g, s) = IF s = {} THEN 0 ELSE Load(seen, known, One(s)) + w[s \ {One(s)}]
    <3> SUFFICES ASSUME NEW s \in SUBSET S, s # {}
                 PROVE  Added(w, g, s) = Load(seen, known, One(s)) + w[s \ {One(s)}]
      BY DEF Added
    <3>1. One(s) \in S
      BY OneIs
    <3> QED
      BY <3>1 DEF Added
  <2> QED
    BY <1>2, <2>1 DEF Summing
<1>4. u = [s \in SUBSET S |-> IF s = {} THEN 0 ELSE Load(seen, known, One(s)) + u[s \ {One(s)}]]
  BY <1>3
<1> HIDE DEF u
<1>5. \A s \in SUBSET S : Added(u, g, s) = IF s = {} THEN 0 ELSE Load(seen, known, One(s)) + u[s \ {One(s)}]
  <2> SUFFICES ASSUME NEW s \in SUBSET S, s # {}
               PROVE  Added(u, g, s) = Load(seen, known, One(s)) + u[s \ {One(s)}]
    BY DEF Added
  <2>1. One(s) \in S
    BY OneIs
  <2> QED
    BY <2>1 DEF Added
<1>6. Summing(u, g, S)
  BY <1>4, <1>5 DEF Summing
<1>7. \A c \in S : g[c] \in Nat
  OBVIOUS
<1> HIDE DEF g
<1>8. u[S] \in Nat
  BY <1>6, <1>7, SumKeeps
<1> QED
  BY <1>1, <1>8

\* What the graph publishes of a road are numbers, and its speed is one its
\* reports allow.
LEMMA EdgeStateIs ==
  ASSUME NEW known, DOMAIN known \subseteq Roads,
         \A r \in DOMAIN known : known[r].capacity \in Nat \ {0},
         NEW seen, \A c \in Cars : seen[c] # None => seen[c].speed \in Speeds,
         NEW hs, \A h \in hs : h.penalty \in Penalties,
         NEW r \in DOMAIN known, ~Broken(known, r)
  PROVE  LET e == EdgeState(known, seen, hs, r)
         IN  /\ e.speed \in Nat /\ e.ratio \in Nat /\ e.hazard \in Nat /\ e.downstream \in Nat
             /\ \A top \in Nat : (\A v \in Speeds : v <= top) => e.speed <= top
<1>1. Speeds \subseteq Nat /\ Penalties \subseteq 0 .. 100 /\ IsFiniteSet(Cars) /\ IsFiniteSet(Roads)
  BY GraphConstants, RoutingConstants, Zenon
<1>2. ASSUME NEW q \in DOMAIN known PROVE Load(seen, known, q) \in Nat
  <2>1. PICK n : n = Cardinality(ActorsOn(seen, q))
    OBVIOUS
  <2>2. ActorsOn(seen, q) \in SUBSET Cars
    BY DEF ActorsOn
  <2>3. n \in Nat
    BY <1>1, <2>1, <2>2, FS_Subset, FS_CardinalityType
  <2>4. PICK x \in Nat : x = 100 * n
    BY <2>3
  <2>5. known[q].capacity \in Nat \ {0}
    OBVIOUS
  <2>6. x \div known[q].capacity \in Nat
    BY <2>5, QuotientIsNat
  <2> QED
    BY <2>1, <2>4, <2>6 DEF Load
<1> DEFINE e == EdgeState(known, seen, hs, r)
           here == ActorsOn(seen, r)
           next == known[r].next \cap DOMAIN known
           speeds == SpeedSum(seen, here)
           load == LoadSum(seen, known, next)
<1>3. /\ e.speed = IF here = {} THEN 0 ELSE speeds \div Cardinality(here)
      /\ e.ratio = Load(seen, known, r)
      /\ e.hazard = IF hs = {} THEN 0 ELSE Max({h.penalty : h \in hs})
      /\ e.downstream = IF next = {} THEN 0 ELSE load \div Cardinality(next)
  BY DEF EdgeState, SpeedSum, LoadSum, Broken
<1>4. here \subseteq Cars /\ IsFiniteSet(here) /\ next \subseteq DOMAIN known /\ IsFiniteSet(next)
  <2>1. here \in SUBSET Cars /\ next \in SUBSET Roads /\ next \subseteq DOMAIN known
    BY DEF ActorsOn
  <2> QED
    BY <1>1, <2>1, FS_Subset
<1> HIDE DEF e, next
<1>5. e.speed \in Nat /\ \A top \in Nat : (\A v \in Speeds : v <= top) => e.speed <= top
  <2>1. CASE here = {}
    BY <1>3, <2>1
  <2>2. CASE here # {}
    <3>1. \A c \in here : seen[c].speed \in Speeds /\ seen[c].speed \in Nat
      BY <1>1 DEF ActorsOn
    <3> HIDE DEF here
    <3>2. /\ speeds \in Nat
          /\ \A b \in Nat : (\A c \in here : seen[c].speed <= b) => speeds <= b * Cardinality(here)
      BY <1>4, <3>1, SpeedsAdd
    <3>3. PICK n \in Nat \ {0} : n = Cardinality(here)
      BY <1>4, <2>2, FS_CardinalityType, FS_EmptySet
    <3> HIDE DEF speeds
    <3>4. e.speed = speeds \div n
      BY <1>3, <2>2, <3>3
    <3>5. ASSUME NEW top \in Nat, \A v \in Speeds : v <= top PROVE e.speed <= top
      <4>1. speeds <= top * n
        BY <3>1, <3>2, <3>3, <3>5
      <4> QED
        BY <3>2, <3>4, <4>1, QuotientKeeps
    <3> QED
      BY <3>2, <3>4, <3>5, QuotientIsNat
  <2> QED
    BY <2>1, <2>2
<1>6. e.hazard \in Nat
  <2>1. CASE hs = {}
    BY <1>3, <2>1
  <2>2. CASE hs # {}
    <3> DEFINE P == {h.penalty : h \in hs}
               U == {100 - p : p \in P}
    <3>1. P \subseteq 0 .. 100 /\ P # {}
      BY <1>1, <2>2
    <3> HIDE DEF P
    <3>2. U \subseteq Nat /\ U # {}
      <4>1. PICK p \in P : TRUE
        BY <3>1
      <4>2. 100 - p \in U
        OBVIOUS
      <4>3. \A q \in P : 100 - q \in Nat
        BY <3>1
      <4> QED
        BY <4>2, <4>3
    <3>3. PICK x \in U : \A y \in U : x <= y
      <4> HIDE DEF U
      <4> QED
        BY <3>2, NatHasLeast
    <3>4. PICK p \in P : x = 100 - p
      BY <3>3
    <3>5. \A q \in P : p >= q
      <4> SUFFICES ASSUME NEW q \in P PROVE p >= q
        OBVIOUS
      <4>1. 100 - p <= 100 - q
        BY <3>3, <3>4
      <4> QED
        BY <3>1, <4>1
    <3>6. Max(P) \in P
      BY <3>5, Zenon DEF Max
    <3> QED
      BY <1>3, <2>2, <3>1, <3>6 DEF P
  <2> QED
    BY <2>1, <2>2
<1>7. e.downstream \in Nat
  <2>1. CASE next = {}
    BY <1>3, <2>1
  <2>2. CASE next # {}
    <3>2. \A n \in next : Load(seen, known, n) \in Nat
      BY <1>2, <1>4
    <3>3. load \in Nat
      BY <1>4, <3>2, LoadsAdd
    <3>4. Cardinality(next) \in Nat \ {0}
      BY <1>4, <2>2, FS_CardinalityType, FS_EmptySet
    <3> HIDE DEF load
    <3> QED
      BY <1>3, <2>2, <3>3, <3>4, QuotientIsNat
  <2> QED
    BY <2>1, <2>2
<1> QED
  BY <1>2, <1>3, <1>5, <1>6, <1>7 DEF e

\* Figures a road can have, with no speed above the one the heuristic assumes
\* where it fits the network.
Drivable(m) ==
    /\ m.speed \in Nat /\ m.ratio \in Nat /\ m.hazard \in Nat /\ m.downstream \in Nat
    /\ HeuristicFits => m.speed <= 139

LEMMA RoadIs == \A r \in N : Network[r].length \in Nat /\ Network[r].capacity \in Nat \ {0}
BY RoutingConstants DEF N

\* A quotient does not fall when its dividend rises.
LEMMA QuotientRises ==
  ASSUME NEW a \in Nat, NEW c \in Nat, a <= c, NEW b \in Nat \ {0}
  PROVE  a \div b \in Nat /\ c \div b \in Nat /\ a \div b <= c \div b
<1> DEFINE q == a \div b
<1>1. q \in Nat /\ b * q <= a
  OBVIOUS
<1> HIDE DEF q
<1>2. q * b <= c
  <2>1. q * b = b * q /\ q * b \in Nat
    BY <1>1
  <2> QED
    BY <1>1, <2>1
<1>3. q <= c \div b
  BY <1>1, <1>2, Fitting
<1> QED
  BY <1>1, <1>3, QuotientIsNat DEF q

\* How full a road is taken to be, and what that costs.
Fullness(m, road, load) == AtMost(100, m.ratio + (100 * load) \div road.capacity)
Crowding(m, road, load) == (Square(AtLeast(Fullness(m, road, load) - 70, 0)) * 120000) \div 900

\* A crowd costs something, and no less when there is more load.
LEMMA CrowdingIs ==
  ASSUME NEW m, Drivable(m), NEW road, road.capacity \in Nat \ {0},
         NEW load \in Nat, NEW more \in Nat, load <= more
  PROVE  /\ Crowding(m, road, load) \in Nat /\ Crowding(m, road, more) \in Nat
         /\ Crowding(m, road, load) <= Crowding(m, road, more)
<1>1. PICK a \in Nat, c \in Nat : a = 100 * load /\ c = 100 * more /\ a <= c
  <2>1. 100 * load \in Nat /\ 100 * more \in Nat /\ 100 * load <= 100 * more
    OBVIOUS
  <2> QED
    BY <2>1
<1>2. PICK p, q : p = a \div road.capacity /\ q = c \div road.capacity
  OBVIOUS
<1>3. p \in Nat /\ q \in Nat /\ p <= q
  <2>1. road.capacity \in Nat \ {0} /\ a <= c
    BY <1>1
  <2> QED
    BY <1>2, <2>1, QuotientRises, Zenon
<1>4. PICK x, y : x = Fullness(m, road, load) /\ y = Fullness(m, road, more)
  OBVIOUS
<1>5. x \in Nat /\ y \in Nat /\ x <= y
  <2>1. x = AtMost(100, m.ratio + p) /\ y = AtMost(100, m.ratio + q)
    BY <1>1, <1>2, <1>4, Zenon DEF Fullness
  <2> QED
    BY <1>3, <2>1 DEF AtMost, Drivable
<1>6. PICK u, v : u = AtLeast(x - 70, 0) /\ v = AtLeast(y - 70, 0)
  OBVIOUS
<1>7. u \in Nat /\ v \in Nat /\ u <= v
  BY <1>5, <1>6 DEF AtLeast
<1>8. PICK e, g : e = Square(u) /\ g = Square(v)
  OBVIOUS
<1>9. e \in Nat /\ g \in Nat /\ e <= g
  <2>1. PICK d \in Nat : v = u + d
    <3>1. v - u \in Nat /\ v = u + (v - u)
      BY <1>7
    <3> QED
      BY <3>1
  <2>2. v * v = u * u + (2 * u * d + d * d) /\ u * u \in Nat /\ 2 * u * d + d * d \in Nat
    BY <1>7, <2>1
  <2>3. e = u * u /\ g = v * v
    BY <1>8 DEF Square
  <2> QED
    BY <2>2, <2>3
<1>10. PICK w \in Nat : w = 120000
  OBVIOUS
<1>11. PICK h \in Nat, k \in Nat : h = e * w /\ k = g * w /\ h <= k
  <2>1. PICK d \in Nat : g = e + d
    <3>1. g - e \in Nat /\ g = e + (g - e)
      BY <1>9
    <3> QED
      BY <3>1
  <2>2. g * w = e * w + d * w /\ e * w \in Nat /\ d * w \in Nat
    BY <1>9, <2>1
  <2>3. e * w \in Nat /\ g * w \in Nat /\ e * w <= g * w
    BY <2>2
  <2> QED
    BY <2>3
<1>12. h \div 900 \in Nat /\ k \div 900 \in Nat /\ h \div 900 <= k \div 900
  BY <1>11, QuotientRises
<1>13. Crowding(m, road, load) = h \div 900 /\ Crowding(m, road, more) = k \div 900
  BY <1>4, <1>6, <1>8, <1>10, <1>11 DEF Crowding
<1> QED
  BY <1>12, <1>13

\* Whatever burdens a road, it costs no less than driving it at the heuristic's
\* speed, and no less when there is more load.
LEMMA EdgeCostIs ==
  ASSUME NEW m, Drivable(m), NEW r \in N, NEW load \in Nat, NEW more \in Nat, load <= more
  PROVE  /\ EdgeCost(m, Network[r], load) \in Nat
         /\ EdgeCost(m, Network[r], load) <= EdgeCost(m, Network[r], more)
         /\ HeuristicFits => Least(r) <= EdgeCost(m, Network[r], load)
<1> DEFINE road == Network[r]
           a == road.length * 10000
           v == AtLeast(m.speed, 3)
           hazard == m.hazard * 600
           downstream == m.downstream * 100
           closed == m.closure \/ (m.ratio >= 100 /\ m.speed < 3)
<1>1. Network[r].length \in Nat /\ Network[r].capacity \in Nat \ {0}
  BY RoadIs
<1>2. \A l : EdgeCost(m, road, l) = IF closed THEN Blocked
                                   ELSE a \div v + Crowding(m, road, l) + hazard + downstream
  BY DEF EdgeCost, Crowding, Fullness
<1>3. a \in Nat
  <2>1. PICK k \in Nat : k = 10000
    OBVIOUS
  <2>2. road.length * k \in Nat
    BY <1>1
  <2> QED
    BY <2>1, <2>2
<1>4. v \in Nat \ {0} /\ (HeuristicFits => v <= 139)
  BY DEF AtLeast, Drivable
<1>5. hazard \in Nat /\ downstream \in Nat
  BY DEF Drivable
<1>6. Least(r) = a \div 139
  BY DEF Least
<1> HIDE DEF a, v, hazard, downstream, closed
<1>7. CASE closed
  <2>1. \A l : EdgeCost(m, Network[r], l) = Blocked
    BY <1>2, <1>7
  <2>2. HeuristicFits => Least(r) <= Blocked
    BY Zenon DEF HeuristicFits, N
  <2> QED
    BY <2>1, <2>2 DEF Blocked
<1>8. CASE ~closed
  <2>1. PICK p, y, z, h, g : /\ p = a \div v /\ y = Crowding(m, road, load)
                             /\ z = Crowding(m, road, more) /\ h = hazard /\ g = downstream
    OBVIOUS
  <2>2. EdgeCost(m, Network[r], load) = p + y + h + g /\ EdgeCost(m, Network[r], more) = p + z + h + g
    BY <1>2, <1>8, <2>1
  <2>3. p \in Nat
    BY <1>3, <1>4, <2>1, QuotientIsNat
  <2>4. y \in Nat /\ z \in Nat /\ y <= z
    BY <1>1, <2>1, CrowdingIs
  <2>5. h \in Nat /\ g \in Nat
    BY <1>5, <2>1
  <2>6. p + y + h + g \in Nat /\ p + y + h + g <= p + z + h + g /\ p <= p + y + h + g
    BY <2>3, <2>4, <2>5
  <2>7. ASSUME HeuristicFits PROVE Least(r) <= p + y + h + g
    <3>1. a \div v \in Nat /\ a \div 139 \in Nat /\ a \div 139 <= a \div v
      BY <1>3, <1>4, <2>7, QuotientAtSpeed
    <3>2. PICK q : q = Least(r)
      OBVIOUS
    <3>3. q \in Nat /\ q <= p
      BY <1>6, <2>1, <3>1, <3>2
    <3> QED
      BY <2>3, <2>6, <3>2, <3>3
  <2> QED
    BY <2>2, <2>6, <2>7
<1> QED
  BY <1>7, <1>8

LEMMA CostsAre ==
  ASSUME NEW ms, \A r \in N : Drivable(ms[r]), NEW load \in [N -> Nat]
  PROVE  Costs(ms, load) \in [N -> Nat]
<1>1. ASSUME NEW r \in N PROVE EdgeCost(ms[r], Network[r], load[r]) \in Nat
  <2>1. load[r] \in Nat /\ load[r] <= load[r]
    OBVIOUS
  <2> QED
    BY <2>1, EdgeCostIs
<1> QED
  BY <1>1 DEF Costs, N

LEMMA HeuristicIsNat ==
  ASSUME NEW n \in Nodes, NEW d \in Nodes
  PROVE  Heuristic(n, d) \in Nat
<1>1. <<n, d>> \in Nodes \X Nodes
  OBVIOUS
<1>2. Straight[<<n, d>>] \in Nat
  BY <1>1, RoutingConstants, Zenon
<1>3. PICK k \in Nat : k = 10000
  OBVIOUS
<1>4. Straight[<<n, d>>] * k \in Nat
  BY <1>2
<1>5. (Straight[<<n, d>>] * k) \div 139 \in Nat
  BY <1>4, QuotientIsNat
<1> QED
  BY <1>3, <1>5 DEF Heuristic

\* Where the heuristic fits, it never says more than the roads cost.
LEMMA CostsAreGuided ==
  ASSUME HeuristicFits, NEW ms, \A r \in N : Drivable(ms[r]), NEW t \in Trips
  PROVE  Costs(ms, NoLoad) \in [N -> Nat] /\ Guided(Costs(ms, NoLoad), t[2])
<1> DEFINE cost == Costs(ms, NoLoad)
<1>1. cost \in [N -> Nat]
  <2>1. NoLoad \in [N -> Nat]
    BY DEF NoLoad, N
  <2> QED
    BY <2>1, CostsAre
<1>2. ASSUME NEW r \in N PROVE Least(r) <= cost[r]
  <2>1. cost[r] = EdgeCost(ms[r], Network[r], 0)
    BY DEF Costs, NoLoad, N
  <2>2. Least(r) <= EdgeCost(ms[r], Network[r], 0)
    <3>1. 0 \in Nat /\ 0 <= 0
      OBVIOUS
    <3> QED
      BY <3>1, EdgeCostIs
  <2> QED
    BY <2>1, <2>2
<1>3. ASSUME NEW n \in Nodes PROVE Heuristic(n, t[2]) \in Nat
  <2>1. t[2] \in Nodes
    BY RoutingConstants
  <2> QED
    BY <2>1, HeuristicIsNat
<1> HIDE DEF cost
<1>4. ASSUME NEW r \in N PROVE Heuristic(Network[r].src, t[2]) <= cost[r] + Heuristic(Network[r].dst, t[2])
  <2>1. Heuristic(Network[r].src, t[2]) <= Least(r) + Heuristic(Network[r].dst, t[2])
    BY DEF HeuristicFits, N
  <2>2. PICK x, y, z, c : /\ x = Heuristic(Network[r].src, t[2]) /\ y = Heuristic(Network[r].dst, t[2])
                          /\ z = Least(r) /\ c = cost[r]
    OBVIOUS
  <2>3. z \in Nat
    <3>1. PICK k \in Nat : k = 10000
      OBVIOUS
    <3>2. Network[r].length * k \in Nat
      BY RoadIs
    <3>3. (Network[r].length * k) \div 139 \in Nat
      BY <3>2, QuotientIsNat
    <3> QED
      BY <2>2, <3>1, <3>3 DEF Least
  <2>4. x \in Nat /\ y \in Nat /\ c \in Nat
    BY <1>1, <1>3, <2>2, NetworkIs
  <2>5. x <= z + y /\ z <= c
    BY <1>2, <2>1, <2>2
  <2>6. x <= c + y
    BY <2>3, <2>4, <2>5
  <2> QED
    BY <2>2, <2>6
<1> QED
  BY <1>1, <1>3, <1>4 DEF Guided, cost

-----------------------------------------------------------------------------
(* The figures of the roads.                                                *)

GraphIs ==
    /\ DOMAIN defs \subseteq Roads /\ \A r \in DOMAIN defs : defs[r].capacity \in Nat \ {0}
    /\ DOMAIN cars = Cars /\ DOMAIN carRoad = Cars
    /\ \A c \in Cars : /\ cars[c] # None => cars[c].speed \in Speeds
                       /\ carRoad[c] # None => carRoad[c] \in DOMAIN defs
    /\ DOMAIN onRoad = Roads
    /\ \A r \in Roads : \A h \in onRoad[r] : h.penalty \in Penalties

FiguresInv == GraphIs /\ DOMAIN metrics = N /\ \A r \in N : Drivable(metrics[r])

LEMMA InitFigures == RoutingInit => FiguresInv
<1> SUFFICES ASSUME RoutingInit PROVE FiguresInv
  OBVIOUS
<1>1. GraphIs
  <2>1. /\ cars = [c \in Cars |-> None] /\ carRoad = [c \in Cars |-> None]
        /\ onRoad = [r \in Roads |-> {}]
    BY Zenon DEF RoutingInit, GraphInit
  <2>2. DOMAIN defs = {}
    <3>1. defs = <<>>
      BY Zenon DEF RoutingInit, GraphInit
    <3> QED
      BY <3>1
  <2> QED
    BY <2>1, <2>2 DEF GraphIs
<1>2. Drivable(BuiltIn)
  BY DEF Drivable, BuiltIn
<1> QED
  BY <1>1, <1>2 DEF RoutingInit, FiguresInv, N

\* What a road evaluated again still knows of hazards it knew before.
LEMMA PublishKeeps ==
  ASSUME NEW known, NEW arrived, NEW told, NEW rs, NEW at, Publish(known, arrived, told, rs, at),
         \A r \in Roads : \A h \in told[r] : h.penalty \in Penalties
  PROVE  DOMAIN onRoad' = Roads /\ \A r \in Roads : \A h \in onRoad'[r] : h.penalty \in Penalties
<1> DEFINE read == Evaluated(known, rs)
<1>1. onRoad' = [r \in Roads |-> IF r \in read THEN StillActive(told[r], at) ELSE told[r]]
  BY Zenon DEF Publish
<1> HIDE DEF read
<1> QED
  BY <1>1 DEF StillActive

LEMMA ReportGraph ==
  ASSUME GraphIs, NEW c \in Cars, NEW r \in Reported \cup {None}, NEW speed \in Speeds, NEW at,
         ObserveVehicle(c, r, speed, at)
  PROVE  GraphIs' /\ Affected(carRoad[c], r) \subseteq DOMAIN defs'
<1>1. /\ cars' = [cars EXCEPT ![c] = [road |-> r, speed |-> speed]]
      /\ carRoad' = [carRoad EXCEPT ![c] = r]
      /\ defs' = [q \in DOMAIN defs \cup ({r} \ {None}) |-> IF q \in DOMAIN defs THEN defs[q] ELSE Unregistered]
  BY DEF ObserveVehicle
<1>2. PICK known, arrived, rs : Publish(known, arrived, onRoad, rs, at)
  BY DEF ObserveVehicle
<1>3. DOMAIN onRoad' = Roads /\ \A q \in Roads : \A h \in onRoad'[q] : h.penalty \in Penalties
  BY <1>2, PublishKeeps DEF GraphIs
<1>4. Reported \subseteq Roads
  BY RoutingConstants, Zenon
<1>5. DOMAIN defs' \subseteq Roads /\ DOMAIN defs \subseteq DOMAIN defs' /\ (r # None => r \in DOMAIN defs')
  BY <1>1, <1>4 DEF GraphIs
<1>6. \A q \in DOMAIN defs' : defs'[q].capacity \in Nat \ {0}
  BY <1>1 DEF GraphIs, Unregistered
<1>7. DOMAIN cars' = Cars /\ \A d \in Cars : cars'[d] # None => cars'[d].speed \in Speeds
  <2>1. ASSUME NEW d \in Cars, cars'[d] # None PROVE cars'[d].speed \in Speeds
    <3>1. CASE d = c
      BY <1>1, <3>1 DEF GraphIs
    <3>2. CASE d # c
      <4>1. cars'[d] = cars[d]
        BY <1>1, <3>2 DEF GraphIs
      <4> QED
        BY <2>1, <4>1 DEF GraphIs
    <3> QED
      BY <3>1, <3>2
  <2> QED
    BY <1>1, <2>1 DEF GraphIs
<1>8. DOMAIN carRoad' = Cars /\ \A d \in Cars : carRoad'[d] # None => carRoad'[d] \in DOMAIN defs'
  BY <1>1, <1>5 DEF GraphIs
<1>9. Affected(carRoad[c], r) \subseteq DOMAIN defs'
  BY <1>5 DEF GraphIs, Affected
<1> QED
  BY <1>3, <1>5, <1>6, <1>7, <1>8, <1>9 DEF GraphIs

LEMMA ReportFigures ==
  ASSUME FiguresInv,
         NEW c \in Cars, NEW r \in Reported \cup {None}, NEW speed \in Speeds, NEW at,
         Report(c, r, speed, at)
  PROVE  FiguresInv'
<1>1. GraphIs' /\ Affected(carRoad[c], r) \subseteq DOMAIN defs'
  BY ReportGraph DEF Report, FiguresInv
<1>2. /\ DOMAIN metrics' = N
      /\ \E fed : \A q \in N :
            /\ q \in fed => /\ q \in Affected(carRoad[c], r) /\ ~Broken(defs', q)
                           /\ metrics'[q] = EdgeState(defs', cars', onRoad'[q], q)
            /\ q \notin fed => metrics'[q] = metrics[q]
  <2>1. CASE UNCHANGED metrics
    <3>1. PICK fed : fed = {}
      OBVIOUS
    <3>2. \A q \in N :
             /\ q \in fed => /\ q \in Affected(carRoad[c], r) /\ ~Broken(defs', q)
                            /\ metrics'[q] = EdgeState(defs', cars', onRoad'[q], q)
             /\ q \notin fed => metrics'[q] = metrics[q]
      BY <2>1, <3>1
    <3>3. DOMAIN metrics' = N
      BY <2>1 DEF FiguresInv
    <3> QED
      BY <3>2, <3>3, Zenon
  <2>2. CASE ~Raises(defs', Affected(carRoad[c], r)) /\ Ingest(Affected(carRoad[c], r))
    <3>1. metrics' = [q \in N |-> IF q \in Affected(carRoad[c], r) \cap N
                                   THEN EdgeState(defs', cars', onRoad'[q], q) ELSE metrics[q]]
      BY <2>2, Zenon DEF Ingest, N
    <3>2. \A q \in Affected(carRoad[c], r) : ~Broken(defs', q)
      BY <2>2, Zenon DEF Raises, Fails
    <3> QED
      BY <3>1, <3>2
  <2> QED
    BY <2>1, <2>2, Zenon DEF Report
<1>3. PICK fed : \A q \in N :
         /\ q \in fed => /\ q \in Affected(carRoad[c], r) /\ ~Broken(defs', q)
                        /\ metrics'[q] = EdgeState(defs', cars', onRoad'[q], q)
         /\ q \notin fed => metrics'[q] = metrics[q]
  BY <1>2, Zenon
<1>4. PICK top \in Nat : top = 139
  OBVIOUS
<1>5. HeuristicFits => \A v \in Speeds : v <= top
  <2>1. HeuristicFits => Speeds \subseteq 0 .. 139
    BY Zenon DEF HeuristicFits
  <2> QED
    BY <1>4, <2>1
<1>6. ASSUME NEW q \in N PROVE Drivable(metrics'[q])
  <2>1. CASE q \in fed
    <3>1. PICK known, seen, hs : known = defs' /\ seen = cars' /\ hs = onRoad'[q]
      OBVIOUS
    <3>2. q \in DOMAIN known /\ ~Broken(known, q) /\ DOMAIN known \subseteq Roads
      BY <1>1, <1>3, <2>1, <3>1 DEF GraphIs
    <3>3. /\ \A p \in DOMAIN known : known[p].capacity \in Nat \ {0}
          /\ \A d \in Cars : seen[d] # None => seen[d].speed \in Speeds
          /\ \A h \in hs : h.penalty \in Penalties
      BY <1>1, <3>1, <3>2 DEF GraphIs
    <3>4. PICK e : e = EdgeState(known, seen, hs, q)
      OBVIOUS
    <3>5. /\ e.speed \in Nat /\ e.ratio \in Nat /\ e.hazard \in Nat /\ e.downstream \in Nat
          /\ (\A v \in Speeds : v <= top) => e.speed <= top
      BY <3>2, <3>3, <3>4, EdgeStateIs
    <3>6. metrics'[q] = e
      BY <1>3, <2>1, <3>1, <3>4
    <3> QED
      BY <1>4, <1>5, <3>5, <3>6 DEF Drivable
  <2>2. CASE q \notin fed
    <3>1. metrics'[q] = metrics[q]
      BY <1>3, <2>2
    <3> QED
      BY <3>1 DEF FiguresInv
  <2> QED
    BY <2>1, <2>2
<1> QED
  BY <1>1, <1>2, <1>6 DEF FiguresInv, N

LEMMA HazardGraph ==
  ASSUME GraphIs, NEW r \in Reported, NEW penalty \in Penalties, NEW at, ObserveHazard(r, penalty, at)
  PROVE  GraphIs'
<1> DEFINE h == [penalty |-> penalty, until |-> at + HazardTtl]
           told == [onRoad EXCEPT ![r] = @ \cup {h}]
<1>1. Publish(defs, entries, told, {r}, at) /\ UNCHANGED <<defs, cars, carRoad>>
  BY DEF ObserveHazard
<1>2. \A q \in Roads : \A x \in told[q] : x.penalty \in Penalties
  <2>1. SUFFICES ASSUME NEW q \in Roads, NEW x \in told[q] PROVE x.penalty \in Penalties
    OBVIOUS
  <2>2. x \in onRoad[q] \/ x = h
    BY DEF GraphIs
  <2> QED
    BY <2>2 DEF GraphIs
<1> HIDE DEF told
<1>3. DOMAIN onRoad' = Roads /\ \A q \in Roads : \A x \in onRoad'[q] : x.penalty \in Penalties
  BY <1>1, <1>2, PublishKeeps
<1> QED
  BY <1>1, <1>3 DEF GraphIs

LEMMA RegisterGraph ==
  ASSUME GraphIs, NEW r \in DOMAIN Registered, RegisterEdge(r)
  PROVE  GraphIs'
<1>1. /\ defs' = [q \in DOMAIN defs \cup {r} |-> IF q = r THEN Registered[r] ELSE defs[q]]
      /\ Publish(defs', entries, onRoad, {r}, now)
      /\ UNCHANGED <<cars, carRoad>>
  BY DEF RegisterEdge
<1>2. DOMAIN onRoad' = Roads /\ \A q \in Roads : \A x \in onRoad'[q] : x.penalty \in Penalties
  BY <1>1, PublishKeeps DEF GraphIs
<1>3. r \in Roads /\ Registered[r].capacity \in Nat \ {0}
  BY GraphConstants
<1> QED
  BY <1>1, <1>2, <1>3 DEF GraphIs

LEMMA ReadGraph == ASSUME GraphIs, NEW r, ReadEdge(r) PROVE GraphIs'
<1>1. onRoad' = [onRoad EXCEPT ![r] = StillActive(@, now)] /\ UNCHANGED <<defs, cars, carRoad>>
  BY DEF ReadEdge
<1>2. \A q \in Roads : \A x \in onRoad'[q] : x \in onRoad[q]
  BY <1>1 DEF GraphIs, StillActive
<1> QED
  BY <1>1, <1>2 DEF GraphIs

LEMMA PostFigures ==
  ASSUME FiguresInv, NEW x \in Posted, Post(x[1], x[2])
  PROVE  FiguresInv'
<1>1. PICK m : m = x[2]
  OBVIOUS
<1>2. Drivable(m)
  <2>1. m \in Metrics
    <3>1. Posted \subseteq (DOMAIN Network) \X Metrics
      BY RoutingConstants, Zenon
    <3> QED
      BY <1>1, <3>1
  <2>2. HeuristicFits => m.speed \in 0 .. 139
    <3>1. HeuristicFits => {y[2].speed : y \in Posted} \subseteq 0 .. 139
      BY Zenon DEF HeuristicFits
    <3>2. x[2].speed \in {y[2].speed : y \in Posted}
      OBVIOUS
    <3> QED
      BY <1>1, <3>1, <3>2
  <2> QED
    BY <2>1, <2>2 DEF Metrics, Drivable
<1>3. metrics' = [metrics EXCEPT ![x[1]] = m] /\ UNCHANGED <<defs, cars, carRoad, onRoad>>
  BY <1>1 DEF Post
<1>4. GraphIs'
  BY <1>3 DEF GraphIs, FiguresInv
<1> QED
  BY <1>2, <1>3, <1>4 DEF FiguresInv

LEMMA NextFigures == FiguresInv /\ [RoutingNext]_roadNetwork => FiguresInv'
<1> SUFFICES ASSUME FiguresInv, [RoutingNext]_roadNetwork PROVE FiguresInv'
  OBVIOUS
<1>1. ASSUME GraphIs', UNCHANGED metrics PROVE FiguresInv'
  BY <1>1 DEF FiguresInv
<1>2. ASSUME UNCHANGED <<defs, cars, carRoad, onRoad, metrics>> PROVE FiguresInv'
  BY <1>2 DEF FiguresInv, GraphIs
<1>3. ASSUME NEW r \in Reported, NEW p \in Penalties, NEW at, Hazard(r, p, at) PROVE FiguresInv'
  BY <1>1, <1>3, HazardGraph DEF Hazard, routing, FiguresInv
<1>4. ASSUME NEW r \in DOMAIN Registered, Register(r) PROVE FiguresInv'
  BY <1>1, <1>4, RegisterGraph DEF Register, routing, FiguresInv
<1>5. ASSUME NEW r, Read(r) PROVE FiguresInv'
  BY <1>1, <1>5, ReadGraph DEF Read, routing, FiguresInv
<1>6. ASSUME NEW c, Retire(c) PROVE FiguresInv'
  BY <1>2, <1>6 DEF Retire
<1>7. ASSUME NEW v, NEW t, Recalculate(v, t) PROVE FiguresInv'
  BY <1>2, <1>7 DEF Recalculate
<1>8. CASE RoutingTick
  BY <1>2, <1>8 DEF RoutingTick, GraphTick, routing
<1>9. CASE UNCHANGED roadNetwork
  BY <1>2, <1>9 DEF roadNetwork
<1> QED
  BY ReportFigures, PostFigures, <1>3, <1>4, <1>5, <1>6, <1>7, <1>8, <1>9 DEF RoutingNext

\* On every network the heuristic fits, and whatever was reported and posted of
\* its roads, the search returns a path of least cost among all the ways of a
\* trip, and gives up only where every way costs too much.
THEOREM SearchIsOptimal == ASSUME HeuristicFits PROVE RoutingSpec => []PathOptimal
<1>1. FiguresInv => PathOptimal
  <2> SUFFICES ASSUME FiguresInv, NEW t \in Trips
               PROVE  LET cost == Costs(metrics, NoLoad)
                      IN  FindPath(cost, t[1], t[2]).cost
                            = Min({PathCost(cost, p) : p \in Ways[t]} \cup {Unreachable})
    BY DEF PathOptimal
  <2>1. PICK ms : ms = metrics
    OBVIOUS
  <2>2. PICK cost : cost = Costs(metrics, NoLoad)
    OBVIOUS
  <2>3. cost \in [N -> Nat] /\ Guided(cost, t[2])
    BY <2>1, <2>2, CostsAreGuided DEF FiguresInv
  <2> QED
    BY <2>2, <2>3, SearchIsLeast
<1> QED
  BY <1>1, InitFigures, NextFigures, PTL DEF RoutingSpec

-----------------------------------------------------------------------------
(* A rider is moved.                                                        *)

\* Whether or not the heuristic fits, an open item is a path to its node at its
\* cost, and what was found leads to the end at its cost.
Heading(i, cost, o) ==
    /\ i.node \in Nodes /\ i.from = o
    /\ i.roads \in Seq(N) /\ Leads(Route(o, i.roads), o, i.node)
    /\ i.g = PathCost(cost, Route(o, i.roads)) /\ i.g \in Nat
    /\ i.f \in Nat

Brings(f, cost, o, d, roads) ==
    /\ f.path = Route(o, roads) /\ Leads(f.path, o, d)
    /\ f.cost = PathCost(cost, f.path)
LeadsThere(f, cost, o, d) == f.path # None => \E roads \in Seq(N) : Brings(f, cost, o, d, roads)

Probes(s, cost, o, d) ==
    /\ s = [open |-> s.open, best |-> s.best, closed |-> s.closed, found |-> s.found]
    /\ \A i \in s.open : Heading(i, cost, o)
    /\ LeadsThere(s.found, cost, o, d)

LEMMA PushedHeads ==
  ASSUME NEW s, NEW cost \in [N -> Nat], NEW o \in Nodes, NEW d \in Nodes,
         NEW i, Heading(i, cost, o), NEW j \in Pushed(cost, d, s, i)
  PROVE  Heading(j, cost, o)
<1>1. PICK r \in Onward(cost, s, i) : j = By(cost, d, i, r)
  BY DEF Pushed
<1>2. r \in N /\ Network[r].src = i.node
  BY DEF Onward
<1>3. /\ j.node = Network[r].dst /\ j.g = i.g + cost[r]
      /\ j.f = i.g + cost[r] + Heuristic(Network[r].dst, d)
      /\ j.roads = Append(i.roads, r) /\ j.from = i.from
  BY <1>1 DEF By
<1>4. /\ i.from = o /\ i.roads \in Seq(N) /\ Leads(Route(o, i.roads), o, i.node)
      /\ i.g = PathCost(cost, Route(o, i.roads)) /\ i.g \in Nat
  BY DEF Heading
<1>5. Network[r].dst \in Nodes /\ cost[r] \in Nat /\ Heuristic(Network[r].dst, d) \in Nat
  BY <1>2, NetworkIs, HeuristicIsNat
<1>6. Leads(Route(o, j.roads), o, j.node)
  <2>1. PICK roads, n : roads = i.roads /\ n = i.node
    OBVIOUS
  <2>2. Leads(Route(o, Append(roads, r)), o, Network[r].dst)
    BY <1>2, <1>4, <2>1, LeadsOn
  <2> QED
    BY <1>3, <2>1, <2>2
<1>7. j.g = PathCost(cost, Route(o, j.roads)) /\ j.g \in Nat
  <2>1. PathCost(cost, Route(o, Append(i.roads, r))) = PathCost(cost, Route(o, i.roads)) + cost[r]
    BY <1>2, <1>4, PathCostGrows
  <2> QED
    BY <1>3, <1>4, <1>5, <2>1
<1>8. j.f \in Nat /\ j.roads \in Seq(N)
  BY <1>2, <1>3, <1>4, <1>5
<1> QED
  BY <1>3, <1>4, <1>5, <1>6, <1>7, <1>8 DEF Heading

LEMMA TurnProbes ==
  ASSUME NEW s, NEW cost \in [N -> Nat], NEW o \in Nodes, NEW d \in Nodes, Probes(s, cost, o, d)
  PROVE  Probes(Turn(cost, d, s), cost, o, d)
<1>1. CASE s.open = {} \/ s.found.path # None
  <2>1. Turn(cost, d, s) = s
    BY <1>1 DEF Turn
  <2> QED
    BY <2>1
<1>2. CASE s.open # {} /\ s.found.path = None
  <2>1. \E i \in s.open : Cheapest(i, s.open)
    <3> DEFINE F == {i.f : i \in s.open}
    <3>1. F \subseteq Nat /\ F # {}
      BY <1>2 DEF Probes, Heading
    <3>2. PICK f \in F : \A g \in F : f <= g
      <4> HIDE DEF F
      <4> QED
        BY <3>1, NatHasLeast
    <3> QED
      BY <3>2 DEF Cheapest
  <2>2. PICK i \in s.open :
           /\ Cheapest(i, s.open)
           /\ Turn(cost, d, s) = IF i.node \in s.closed THEN Dropped(s, i)
                                 ELSE IF i.node = d THEN Found(s, i) ELSE Closed(cost, d, s, i)
    BY <1>2, <2>1, TurnIs DEF Probes
  <2>3. Heading(i, cost, o)
    BY DEF Probes
  <2>4. Probes(Dropped(s, i), cost, o, d)
    BY DEF Probes, Dropped
  <2>5. ASSUME i.node = d PROVE Probes(Found(s, i), cost, o, d)
    <3>1. PICK f : f = [path |-> [from |-> i.from, roads |-> i.roads], cost |-> i.g]
      OBVIOUS
    <3>2. f.path = Route(o, i.roads) /\ f.cost = i.g
      BY <2>3, <3>1 DEF Heading, Route
    <3>3. Brings(f, cost, o, d, i.roads) /\ i.roads \in Seq(N)
      BY <2>3, <2>5, <3>2 DEF Brings, Heading
    <3>4. LeadsThere(f, cost, o, d)
      BY <3>3, Zenon DEF LeadsThere
    <3> QED
      BY <3>1, <3>4 DEF Probes, Found
  <2>6. Probes(Closed(cost, d, s, i), cost, o, d)
    <3>1. \A j \in Pushed(cost, d, s, i) : Heading(j, cost, o)
      BY <2>3, PushedHeads
    <3> QED
      BY <3>1 DEF Probes, Closed
  <2> QED
    BY <2>2, <2>4, <2>5, <2>6
<1> QED
  BY <1>1, <1>2

\* The search returns a path that leads where it was asked to go, at its cost.
LEMMA FindPathLeads ==
  ASSUME NEW cost \in [N -> Nat], NEW o \in Nodes, NEW d \in Nodes
  PROVE  LeadsThere(FindPath(cost, o, d), cost, o, d)
<1> DEFINE n == Cardinality(N) + 1
           a == CHOOSE a : Turning(a, cost, o, d, n)
<1>1. n \in Nat
  BY NetworkIs, FS_CardinalityType
<1>2. Turning(a, cost, o, d, n)
  BY <1>1, TurningExists
<1>3. FindPath(cost, o, d) = a[n].found
  BY DEF FindPath, Turning, StartOf, N
<1> HIDE DEF a, n
<1> DEFINE T == {i \in Nat : i <= n => Probes(a[i], cost, o, d)}
<1>4. 0 \in T
  <2>1. a[0] = StartOf(o, d)
    BY <1>1, <1>2 DEF Turning
  <2>2. PICK i : i = [node |-> o, g |-> 0, f |-> Heuristic(o, d), roads |-> <<>>, from |-> o]
    OBVIOUS
  <2>3. Heading(i, cost, o)
    <3>1. <<>> \in Seq(N) /\ Len(<<>>) = 0 /\ Heuristic(o, d) \in Nat
      BY HeuristicIsNat
    <3>2. PathCost(cost, Route(o, <<>>)) = 0
      <4>1. PICK w : /\ Totals(w, cost, <<>>, Len(<<>>))
                     /\ PathCost(cost, Route(o, <<>>)) = w[Len(<<>>)]
        BY <3>1, PathCostIs
      <4>2. w[0] = 0
        BY <3>1, <4>1 DEF Totals
      <4> QED
        BY <3>1, <4>1, <4>2
    <3>3. Leads(Route(o, <<>>), o, o)
      BY DEF Leads, Route
    <3> QED
      BY <2>2, <3>1, <3>2, <3>3 DEF Heading
  <2> QED
    BY <2>1, <2>2, <2>3 DEF Probes, StartOf, LeadsThere
<1>5. ASSUME NEW i \in Nat, i \in T PROVE i + 1 \in T
  <2> SUFFICES ASSUME i + 1 <= n PROVE Probes(a[i + 1], cost, o, d)
    OBVIOUS
  <2>1. Probes(a[i], cost, o, d)
    BY <1>1, <1>5
  <2>2. i + 1 \in 0 .. n /\ i + 1 # 0 /\ (i + 1) - 1 = i
    BY <1>1
  <2>3. a[i + 1] = Turn(cost, d, a[i])
    BY <1>2, <2>2 DEF Turning
  <2> QED
    BY <2>1, <2>3, TurnProbes
<1> HIDE DEF T
<1>6. Nat \subseteq T
  BY <1>4, <1>5, SetInduction
<1>7. Probes(a[n], cost, o, d)
  BY <1>1, <1>6 DEF T
<1> QED
  BY <1>3, <1>7 DEF Probes

\* Where roads cost no less, no path does.
LEMMA PathCostRises ==
  ASSUME NEW cost \in [N -> Nat], NEW more \in [N -> Nat], \A r \in N : cost[r] <= more[r],
         NEW o \in Nodes, NEW roads \in Seq(N)
  PROVE  /\ PathCost(cost, Route(o, roads)) \in Nat /\ PathCost(more, Route(o, roads)) \in Nat
         /\ PathCost(cost, Route(o, roads)) <= PathCost(more, Route(o, roads))
<1> DEFINE n == Len(roads)
<1>1. n \in Nat /\ \A i \in 1 .. n : roads[i] \in N
  OBVIOUS
<1>2. PICK w : /\ Totals(w, cost, roads, n) /\ \A i \in 0 .. n : w[i] \in Nat
               /\ PathCost(cost, Route(o, roads)) = w[n]
  BY PathCostIs
<1>3. PICK h : /\ Totals(h, more, roads, n) /\ \A i \in 0 .. n : h[i] \in Nat
               /\ PathCost(more, Route(o, roads)) = h[n]
  BY PathCostIs
<1> HIDE DEF n
<1> DEFINE T == {i \in Nat : i <= n => w[i] <= h[i]}
<1>4. 0 \in T
  <2>1. 0 \in 0 .. n
    BY <1>1
  <2>2. w[0] = 0 /\ h[0] = 0
    BY <1>2, <1>3, <2>1 DEF Totals
  <2> QED
    BY <2>2
<1>5. ASSUME NEW i \in Nat, i \in T PROVE i + 1 \in T
  <2> SUFFICES ASSUME i + 1 <= n PROVE w[i + 1] <= h[i + 1]
    OBVIOUS
  <2>1. /\ i \in 0 .. n /\ i + 1 \in 0 .. n /\ i + 1 \in 1 .. n
        /\ i + 1 # 0 /\ (i + 1) - 1 = i
    BY <1>1
  <2>2. w[i + 1] = w[i] + cost[roads[i + 1]] /\ h[i + 1] = h[i] + more[roads[i + 1]]
    BY <1>2, <1>3, <2>1 DEF Totals
  <2>3. PICK r \in N : r = roads[i + 1]
    BY <1>1, <2>1
  <2>4. cost[r] \in Nat /\ more[r] \in Nat /\ cost[r] <= more[r]
    OBVIOUS
  <2>5. w[i] \in Nat /\ h[i] \in Nat /\ w[i] <= h[i]
    BY <1>2, <1>3, <1>5, <2>1
  <2> QED
    BY <2>2, <2>3, <2>4, <2>5
<1> HIDE DEF T
<1>6. Nat \subseteq T
  BY <1>4, <1>5, SetInduction
<1>7. w[n] <= h[n] /\ n \in 0 .. n
  BY <1>1, <1>6 DEF T
<1> QED
  BY <1>2, <1>3, <1>7

\* What _k_alternatives holds after each road of the best path.
Saturated(ms, load, o, d, r) == FindPath(Costs(ms, [load EXCEPT ![r] = Network[r].capacity]), o, d)
Extended(ms, load, o, d, first, alts, r) ==
    LET alt == Saturated(ms, load, o, d, r)
    IN  IF \/ Len(alts) >= Alternatives \/ alt.path \in {None, first.path}
           \/ alt \in {alts[i] : i \in DOMAIN alts}
        THEN alts ELSE Append(alts, alt)
Enlarging(a, ms, load, o, d, first, n) ==
    a = [i \in 0 .. n |-> IF i = 0 THEN <<first>>
                          ELSE Extended(ms, load, o, d, first, a[i - 1], first.path.roads[i])]

LEMMA ExtendingExists ==
  ASSUME NEW ms, NEW load, NEW o, NEW d, NEW first, NEW n \in Nat
  PROVE  \E a : Enlarging(a, ms, load, o, d, first, n)
<1> DEFINE T == {m \in Nat : \E a : Enlarging(a, ms, load, o, d, first, m)}
<1>1. 0 \in T
  <2>1. Enlarging([i \in 0 .. 0 |-> <<first>>], ms, load, o, d, first, 0)
    BY DEF Enlarging
  <2> QED
    BY <2>1
<1>2. ASSUME NEW m \in Nat, m \in T PROVE m + 1 \in T
  <2>1. PICK a : Enlarging(a, ms, load, o, d, first, m)
    BY <1>2
  <2> DEFINE last == Extended(ms, load, o, d, first, a[m], first.path.roads[m + 1])
             h == [i \in 0 .. m + 1 |-> IF i <= m THEN a[i] ELSE last]
  <2>2. h[m + 1] = last /\ \A i \in 0 .. m : h[i] = a[i]
    OBVIOUS
  <2>3. \A i \in 0 .. m : a[i] = IF i = 0 THEN <<first>>
                                 ELSE Extended(ms, load, o, d, first, a[i - 1], first.path.roads[i])
    BY <2>1 DEF Enlarging
  <2>4. h = [i \in 0 .. m + 1 |-> h[i]]
    OBVIOUS
  <2> HIDE DEF h
  <2>5. \A i \in 0 .. m + 1 : h[i] = IF i = 0 THEN <<first>>
                                     ELSE Extended(ms, load, o, d, first, h[i - 1], first.path.roads[i])
    BY <2>2, <2>3
  <2>6. Enlarging(h, ms, load, o, d, first, m + 1)
    BY <2>4, <2>5 DEF Enlarging
  <2> QED
    BY <2>6
<1> HIDE DEF T
<1>3. Nat \subseteq T
  BY <1>1, <1>2, SetInduction
<1> QED
  BY <1>3 DEF T

\* An alternative leads to the end, and is priced at no less than it costs when
\* no road is taken to be saturated.
Option(x, cost, o, d) ==
    \E roads \in Seq(N) : /\ x.path = Route(o, roads) /\ Leads(x.path, o, d)
                          /\ x.cost \in Nat /\ PathCost(cost, x.path) <= x.cost
Options(alts, cost, o, d) ==
    /\ \E S : alts \in Seq(S)
    /\ \A i \in DOMAIN alts : Option(alts[i], cost, o, d)

LEMMA FoundIsOption ==
  ASSUME NEW cost \in [N -> Nat], NEW more \in [N -> Nat], \A r \in N : cost[r] <= more[r],
         NEW o \in Nodes, NEW d \in Nodes, FindPath(more, o, d).path # None
  PROVE  Option(FindPath(more, o, d), cost, o, d)
<1>1. PICK x : x = FindPath(more, o, d)
  OBVIOUS
<1>2. PICK roads \in Seq(N) : Brings(x, more, o, d, roads)
  BY <1>1, FindPathLeads DEF LeadsThere
<1>3. PathCost(cost, x.path) <= x.cost /\ x.cost \in Nat
  BY <1>2, PathCostRises DEF Brings
<1>4. Option(x, cost, o, d)
  BY <1>2, <1>3 DEF Option, Brings
<1> QED
  BY <1>1, <1>4

LEMMA ExtendedKeeps ==
  ASSUME NEW ms, \A r \in N : Drivable(ms[r]), NEW o \in Nodes, NEW d \in Nodes,
         NEW first, NEW alts, Options(alts, Costs(ms, NoLoad), o, d), NEW r \in N
  PROVE  Options(Extended(ms, NoLoad, o, d, first, alts, r), Costs(ms, NoLoad), o, d)
<1> DEFINE load == [NoLoad EXCEPT ![r] = Network[r].capacity]
           cost == Costs(ms, NoLoad)
           more == Costs(ms, load)
           alt == Saturated(ms, NoLoad, o, d, r)
<1>1. NoLoad \in [N -> Nat] /\ load \in [N -> Nat] /\ \A q \in N : NoLoad[q] <= load[q]
  <2>1. NoLoad = [q \in N |-> 0]
    BY DEF NoLoad, N
  <2>2. Network[r].capacity \in Nat
    BY RoadIs
  <2> QED
    BY <2>1, <2>2
<1>2. alt = FindPath(more, o, d)
  BY Zenon DEF Saturated
<1> HIDE DEF load
<1>3. cost \in [N -> Nat] /\ more \in [N -> Nat]
  BY <1>1, CostsAre
<1>4. \A q \in N : cost[q] <= more[q]
  <2> TAKE q \in N
  <2>1. cost[q] = EdgeCost(ms[q], Network[q], NoLoad[q]) /\ more[q] = EdgeCost(ms[q], Network[q], load[q])
    BY DEF Costs, N
  <2>2. NoLoad[q] \in Nat /\ load[q] \in Nat /\ NoLoad[q] <= load[q]
    BY <1>1
  <2>3. EdgeCost(ms[q], Network[q], NoLoad[q]) <= EdgeCost(ms[q], Network[q], load[q])
    BY <2>2, EdgeCostIs
  <2> QED
    BY <2>1, <2>3
<1> HIDE DEF cost, more
<1>5. alt.path # None => Option(alt, cost, o, d)
  BY <1>2, <1>3, <1>4, FoundIsOption
<1>6. Extended(ms, NoLoad, o, d, first, alts, r) =
        IF \/ Len(alts) >= Alternatives \/ alt.path \in {None, first.path}
           \/ alt \in {alts[i] : i \in DOMAIN alts}
        THEN alts ELSE Append(alts, alt)
  BY DEF Extended
<1> HIDE DEF alt
<1>7. Options(alts, cost, o, d)
  BY DEF cost
<1>8. ASSUME alt.path # None PROVE Options(Append(alts, alt), cost, o, d)
  <2>1. PICK S : alts \in Seq(S)
    BY <1>7 DEF Options
  <2>2. PICK R : R = S \cup {alt}
    OBVIOUS
  <2>3. alts \in Seq(R) /\ alt \in R
    BY <2>1, <2>2
  <2>4. PICK n, b : n = Len(alts) /\ b = Append(alts, alt)
    OBVIOUS
  <2>5. /\ n \in Nat /\ b \in Seq(R) /\ DOMAIN b = 1 .. n + 1 /\ b[n + 1] = alt
        /\ \A i \in 1 .. n : b[i] = alts[i]
    BY <2>3, <2>4
  <2>6. \A i \in 1 .. n : Option(alts[i], cost, o, d)
    BY <1>7, <2>3, <2>4 DEF Options
  <2>7. \A i \in DOMAIN b : i = n + 1 \/ i \in 1 .. n
    BY <2>5
  <2>8. \A i \in DOMAIN b : Option(b[i], cost, o, d)
    BY <1>5, <1>8, <2>5, <2>6, <2>7, Zenon
  <2> QED
    BY <2>4, <2>5, <2>8, Zenon DEF Options
<1> QED
  BY <1>6, <1>7, <1>8 DEF cost

LEMMA AlternativesAreOptions ==
  ASSUME NEW ms, \A r \in N : Drivable(ms[r]), NEW o \in Nodes, NEW d \in Nodes
  PROVE  Options(KAlternatives(ms, NoLoad, o, d), Costs(ms, NoLoad), o, d)
<1> DEFINE cost == Costs(ms, NoLoad)
           first == FindPath(cost, o, d)
           n == Len(first.path.roads)
           a == CHOOSE a : Enlarging(a, ms, NoLoad, o, d, first, n)
<1>1. KAlternatives(ms, NoLoad, o, d) = IF first.path = None THEN <<>> ELSE a[n]
  BY DEF KAlternatives, Enlarging, Extended, Saturated
<1>2. cost \in [N -> Nat]
  <2>1. NoLoad \in [N -> Nat]
    BY DEF NoLoad, N
  <2> QED
    BY <2>1, CostsAre
<1> HIDE DEF a, n, first
<1>3. ASSUME first.path = None PROVE Options(KAlternatives(ms, NoLoad, o, d), cost, o, d)
  <2>1. PICK alts : alts = KAlternatives(ms, NoLoad, o, d)
    OBVIOUS
  <2>2. alts = <<>>
    BY <1>1, <1>3, <2>1, Zenon
  <2>3. alts \in Seq({}) /\ DOMAIN alts = {}
    BY <2>2
  <2> QED
    BY <2>1, <2>3, Zenon DEF Options
<1>4. ASSUME first.path # None PROVE Options(KAlternatives(ms, NoLoad, o, d), cost, o, d)
  <2> HIDE DEF cost
  <2>1. PICK roads \in Seq(N) : Brings(first, cost, o, d, roads)
    BY <1>2, <1>4, FindPathLeads DEF LeadsThere, first
  <2>2. first.path.roads = roads
    BY <2>1 DEF Brings, Route
  <2>3. n \in Nat /\ \A i \in 1 .. n : first.path.roads[i] \in N
    BY <2>2 DEF n
  <2>4. Enlarging(a, ms, NoLoad, o, d, first, n)
    BY <2>3, ExtendingExists DEF a
  <2>5. Option(first, cost, o, d)
    <3>1. \A r \in N : cost[r] <= cost[r]
      BY <1>2
    <3> QED
      BY <1>2, <1>4, <3>1, FoundIsOption DEF first
  <2> DEFINE T == {i \in Nat : i <= n => Options(a[i], cost, o, d)}
  <2>6. 0 \in T
    <3>1. a[0] = <<first>>
      BY <2>3, <2>4 DEF Enlarging
    <3>2. PICK alts : alts = <<first>>
      OBVIOUS
    <3>3. alts \in Seq({first}) /\ DOMAIN alts = {1} /\ alts[1] = first
      BY <3>2
    <3>4. Options(alts, cost, o, d)
      BY <2>5, <3>3 DEF Options
    <3> QED
      BY <3>1, <3>2, <3>4
  <2>7. ASSUME NEW i \in Nat, i \in T PROVE i + 1 \in T
    <3> SUFFICES ASSUME i + 1 <= n PROVE Options(a[i + 1], cost, o, d)
      OBVIOUS
    <3>1. PICK alts, r : alts = a[i] /\ r = first.path.roads[i + 1]
      OBVIOUS
    <3>2. Options(alts, Costs(ms, NoLoad), o, d)
      BY <2>3, <2>7, <3>1 DEF cost
    <3>3. i + 1 \in 0 .. n /\ i + 1 # 0 /\ (i + 1) - 1 = i /\ i + 1 \in 1 .. n
      BY <2>3
    <3>4. a[i + 1] = Extended(ms, NoLoad, o, d, first, alts, r)
      BY <2>4, <3>1, <3>3 DEF Enlarging
    <3>5. r \in N
      BY <2>3, <3>1, <3>3
    <3>6. Options(Extended(ms, NoLoad, o, d, first, alts, r), Costs(ms, NoLoad), o, d)
      BY <3>2, <3>5, ExtendedKeeps
    <3> QED
      BY <3>4, <3>6 DEF cost
  <2> HIDE DEF T
  <2>8. Nat \subseteq T
    BY <2>6, <2>7, SetInduction
  <2>9. Options(a[n], cost, o, d)
    BY <2>3, <2>8 DEF T
  <2> QED
    BY <1>1, <1>4, <2>9
<1> QED
  BY <1>3, <1>4

\* A route is a path, if there is one.
IsRoute(p) == p # None => \E o \in Nodes, roads \in Seq(N) : p = Route(o, roads)

\* A vehicle that has a path keeps it or gets one that leads to the end and is
\* cheaper.
LEMMA PlannedImproves ==
  ASSUME NEW ms, \A r \in N : Drivable(ms[r]), NEW o \in Nodes, NEW d \in Nodes,
         NEW current, IsRoute(current), NEW p, p = Planned(ms, NoLoad, o, d, current).new
  PROVE  /\ IsRoute(p)
         /\ current # None /\ p # current =>
               /\ Leads(p, o, d)
               /\ PathCost(Costs(ms, NoLoad), p) < PathCost(Costs(ms, NoLoad), current)
<1> DEFINE cost == Costs(ms, NoLoad)
           old == IF current = None THEN FindPath(cost, o, d).path ELSE current
           alts == KAlternatives(ms, NoLoad, o, d)
           better == {i \in DOMAIN alts :
                        /\ Forced(ms, old) \/ Material(PathCost(cost, old), alts[i].cost)
                        /\ Cheaper(alts[i].cost, PathCost(cost, old))
                        /\ Fits(ms, NoLoad, alts[i].path)}
<1>1. p = IF better = {} THEN old ELSE alts[Min(better)].path
  BY DEF Planned
<1>2. cost \in [N -> Nat]
  <2>1. NoLoad \in [N -> Nat]
    BY DEF NoLoad, N
  <2> QED
    BY <2>1, CostsAre
<1>3. Options(alts, cost, o, d)
  BY AlternativesAreOptions
<1>4. \A i \in better : i \in DOMAIN alts /\ alts[i].cost < PathCost(cost, old)
  BY DEF Cheaper
<1>5. better \subseteq Nat
  BY <1>3, <1>4 DEF Options
<1> HIDE DEF better, alts, cost
<1>6. IsRoute(old)
  <2>1. CASE current = None
    <3>1. LeadsThere(FindPath(cost, o, d), cost, o, d)
      BY <1>2, FindPathLeads
    <3> QED
      BY <2>1, <3>1 DEF LeadsThere, Brings, IsRoute
  <2>2. CASE current # None
    BY <2>2
  <2> QED
    BY <2>1, <2>2
<1>7. CASE better = {}
  BY <1>1, <1>6, <1>7
<1>8. CASE better # {}
  <2>1. PICK i \in better : i = Min(better)
    BY <1>5, <1>8, MinOfNat
  <2>2. PICK x : x = alts[i]
    OBVIOUS
  <2>3. p = x.path
    BY <1>1, <1>8, <2>1, <2>2
  <2>4. Option(x, cost, o, d) /\ x.cost < PathCost(cost, old)
    BY <1>3, <1>4, <2>2 DEF Options
  <2>5. PICK roads \in Seq(N) : /\ p = Route(o, roads) /\ Leads(p, o, d)
                                /\ x.cost \in Nat /\ PathCost(cost, p) <= x.cost
    BY <2>3, <2>4 DEF Option
  <2>6. IsRoute(p)
    BY <2>5 DEF IsRoute
  <2>7. ASSUME current # None PROVE PathCost(cost, p) < PathCost(cost, current)
    <3>1. old = current
      BY <2>7
    <3>2. PathCost(cost, p) \in Nat
      BY <1>2, <2>5, PathCostIsNat
    <3>3. PathCost(cost, current) \in Nat
      <4>1. PICK q \in Nodes, way \in Seq(N) : current = Route(q, way)
        BY <2>7 DEF IsRoute
      <4> QED
        BY <1>2, <4>1, PathCostIsNat
    <3> QED
      BY <2>4, <2>5, <3>1, <3>2, <3>3
  <2> QED
    BY <2>5, <2>6, <2>7 DEF cost
<1> QED
  BY <1>7, <1>8

\* The routes stored are paths.
RoutesInv == DOMAIN route = Riders /\ DOMAIN trip = Riders /\ \A v \in Riders : IsRoute(route[v])

LEMMA NextRoutes ==
  ASSUME FiguresInv, RoutesInv, [RoutingNext]_roadNetwork
  PROVE  /\ RoutesInv'
         /\ \A v \in Riders :
               route[v] # None /\ route'[v] # route[v] =>
                  /\ Leads(route'[v], trip'[v][1], trip'[v][2])
                  /\ PathCost(Costs(metrics, NoLoad), route'[v]) < PathCost(Costs(metrics, NoLoad), route[v])
<1> DEFINE Improved(v) ==
               route[v] # None /\ route'[v] # route[v] =>
                  /\ Leads(route'[v], trip'[v][1], trip'[v][2])
                  /\ PathCost(Costs(metrics, NoLoad), route'[v]) < PathCost(Costs(metrics, NoLoad), route[v])
<1>1. ASSUME UNCHANGED <<route, trip>> PROVE RoutesInv' /\ \A v \in Riders : Improved(v)
  BY <1>1 DEF RoutesInv
<1>2. ASSUME NEW u \in Riders, NEW t \in Trips, Recalculate(u, t)
      PROVE  RoutesInv' /\ \A v \in Riders : Improved(v)
  <2>1. PICK p, current : p = Planned(metrics, NoLoad, t[1], t[2], route[u]).new /\ current = route[u]
    OBVIOUS
  <2>2. t[1] \in Nodes /\ t[2] \in Nodes
    <3>1. t \in Nodes \X Nodes
      BY RoutingConstants
    <3> QED
      BY <3>1
  <2>3. /\ IsRoute(p)
        /\ current # None /\ p # current =>
              /\ Leads(p, t[1], t[2])
              /\ PathCost(Costs(metrics, NoLoad), p) < PathCost(Costs(metrics, NoLoad), current)
    <3>1. IsRoute(current) /\ p = Planned(metrics, NoLoad, t[1], t[2], current).new
      BY <2>1 DEF RoutesInv
    <3> QED
      BY <2>2, <3>1, PlannedImproves DEF FiguresInv
  <2>4. route' = [route EXCEPT ![u] = p] /\ trip' = [trip EXCEPT ![u] = t]
    BY <1>2, <2>1 DEF Recalculate
  <2>5. RoutesInv'
    BY <2>3, <2>4 DEF RoutesInv
  <2>6. route'[u] = p /\ trip'[u] = t /\ \A v \in Riders \ {u} : route'[v] = route[v]
    BY <2>4 DEF RoutesInv
  <2>7. Improved(u)
    BY <2>1, <2>3, <2>6
  <2>8. \A v \in Riders \ {u} : Improved(v)
    BY <2>6
  <2> QED
    BY <2>5, <2>7, <2>8
<1> HIDE DEF Improved
<1>3. ASSUME RoutingNext, ~UNCHANGED <<route, trip>> PROVE \E u \in Riders, t \in Trips : Recalculate(u, t)
  BY <1>3, Zenon DEF RoutingNext, Report, Hazard, Register, Read, Post, Retire, RoutingTick, routing
<1>4. UNCHANGED roadNetwork => UNCHANGED <<route, trip>>
  BY DEF roadNetwork
<1>5. RoutesInv' /\ \A v \in Riders : Improved(v)
  BY <1>1, <1>2, <1>3, <1>4, Zenon
<1> QED
  BY <1>5, Zenon DEF Improved

\* A rider that has a route is moved to another one only if that leads where it
\* asked to go and is cheaper as the roads are at that moment, whichever trip the
\* old one was computed for and although alternatives are found and priced with a
\* road taken to be saturated.  No assumption on the heuristic is needed.
THEOREM MovesImprove == RoutingSpec => RerouteImproves
<1>1. RoutingInit => RoutesInv
  <2> SUFFICES ASSUME RoutingInit PROVE RoutesInv
    OBVIOUS
  <2>1. route = [v \in Riders |-> None] /\ trip = [v \in Riders |-> None]
    BY Zenon DEF RoutingInit
  <2> QED
    BY <2>1 DEF RoutesInv, IsRoute
<1>2. FiguresInv /\ RoutesInv /\ [RoutingNext]_roadNetwork => RoutesInv'
  BY NextRoutes
<1> DEFINE Improves ==
             \A v \in Riders :
                route[v] # None /\ route'[v] # route[v] =>
                   /\ Leads(route'[v], trip'[v][1], trip'[v][2])
                   /\ PathCost(Costs(metrics, NoLoad), route'[v]) < PathCost(Costs(metrics, NoLoad), route[v])
<1>3. FiguresInv /\ RoutesInv /\ [RoutingNext]_roadNetwork => [Improves]_roadNetwork
  BY NextRoutes
<1>4. RerouteImproves <=> [][Improves]_roadNetwork
  BY DEF RerouteImproves
<1> QED
  BY <1>1, <1>2, <1>3, <1>4, InitFigures, NextFigures, PTL DEF RoutingSpec
=============================================================================
