---------------------------- MODULE DetectorsProofs ----------------------------
(***************************************************************************)
(* Proofs about the safety detectors that remember and the prioritization  *)
(* of their alerts: SafetyAlerts, MotionDetectors and TrackDetectors, for  *)
(* any actors, risks, scenes, credentials, clocks and limits.              *)
(*                                                                         *)
(* Argument, for the alerts: an alert is released only if it is active     *)
(* here, and then it is one of the alerts its actors are counted for, so   *)
(* no counter is ever clipped at zero; a new alert has an id the store     *)
(* does not know.  Of a batch, no alert that waits for the limit is higher *)
(* than one that the limit let pass (BatchInOrder).  For the detectors:    *)
(* what a detector remembers of a vehicle goes back to an evaluation since *)
(* which every scene it looked at agreed (MemoryBacked); an emergency is   *)
(* active since the judgement that accepted it (ActiveIsAccepted).         *)
(*                                                                         *)
(* And for the junctions without sight (BlindSpots), which remember        *)
(* nothing, arithmetic: the windows of two vehicles on course for the same *)
(* time overlap by twice the smaller doubt or by what is left of the way,  *)
(* and the doubts bound what the overlap is worth.                         *)
(***************************************************************************)
EXTENDS SafetyAlerts, MotionDetectors, TrackDetectors, BlindSpots, SequenceTheorems, FiniteSetTheorems, TLAPS

(* The alerts.                                                              *)

\* An evaluation in progress has room for the alert it may issue.
HasRoom == call # None => Len(issued) < MaxIssued

StoreInv == TypeOK /\ HasRoom /\ CountsMatchStore

\* The batch: its list was shown, for a risk it has not seen it returns
\* nothing, and no alert that waits for the limit is higher than one that the
\* limit let pass.
BatchInOrder ==
    round # None =>
       /\ \A r \in round.held : shown[r] # None
       /\ round.stage = "risks" => \A r \in Risks \ round.seen : round.out[r] = None
       /\ round.stage = "limit" =>
             /\ round.left \subseteq Showing(round.out)
             /\ \A q \in Passed, p \in round.left : round.out[p].level <= round.out[q].level

IInv == StoreInv /\ BatchInOrder

-----------------------------------------------------------------------------
(* The operators.                                                           *)

LEMMA LevelIsALevel ==
    ASSUME NEW known, NEW score, NEW ttc
    PROVE  Level(known, score, ttc) \in Levels
BY DEF Level, Levels, Informational, Advisory, Warning, Critical

\* Taking n from a counter that is at least n is not clipped.
LEMMA ClipTakes ==
    ASSUME NEW x \in Nat, NEW n \in Nat, n <= x
    PROVE  Clip(x - n, 0, x) = x - n
BY DEF Clip

\* The alerts of an actor are finitely many, and known to the store.
LEMMA ActiveFinite ==
    ASSUME TypeOK, NEW a
    PROVE  IsFiniteSet(ActiveFor(a)) /\ ActiveFor(a) \subseteq DOMAIN store
<1>1. DOMAIN issued = 1 .. Len(issued) /\ Len(issued) \in Nat
  BY DEF TypeOK
<1>2. ActiveFor(a) \subseteq DOMAIN store
  BY DEF ActiveFor
<1>3. ActiveFor(a) \in SUBSET (1 .. Len(issued))
  BY <1>1, <1>2 DEF TypeOK
<1>4. IsFiniteSet(1 .. Len(issued))
  BY <1>1, FS_Interval
<1> QED BY <1>2, <1>3, <1>4, FS_Subset

\* Releasing an alert, active or not, keeps counters and store in step.
LEMMA ReleaseKeeps ==
    ASSUME TypeOK, CountsMatchStore, NEW i,
           issued' = issued, store' = Resolved(i), counts' = Released(i)
    PROVE  /\ store' \in [DOMAIN store -> {"active", "resolved"}]
           /\ DOMAIN store' = DOMAIN store
           /\ counts' \in [Actors -> Nat]
           /\ CountsMatchStore'
<1>1. CASE ~IsActive(i)
  <2>1. store' = store /\ counts' = counts
    BY <1>1 DEF Resolved, Released
  <2> QED BY <2>1 DEF TypeOK, CountsMatchStore, ActiveFor, IsActive, Affects
<1>2. CASE IsActive(i)
  <2>1. store' = [store EXCEPT ![i] = "resolved"] /\ i \in DOMAIN store /\ store[i] = "active"
    BY <1>2 DEF Resolved, IsActive
  <2>2. /\ store' \in [DOMAIN store -> {"active", "resolved"}]
        /\ DOMAIN store' = DOMAIN store
    BY <2>1 DEF TypeOK
  <2>3. ASSUME NEW a \in Actors
        PROVE  counts'[a] \in Nat /\ counts'[a] = Cardinality(ActiveFor(a)')
    <3>1. IsFiniteSet(ActiveFor(a)) /\ Cardinality(ActiveFor(a)) \in Nat
      BY ActiveFinite, FS_CardinalityType
    <3>2. counts[a] = Cardinality(ActiveFor(a))
      BY DEF CountsMatchStore
    <3>3. CASE Affects(i, a)
      <4>1. i \in ActiveFor(a)
        BY <1>2, <2>1, <3>3 DEF ActiveFor
      <4>2. ActiveFor(a)' = ActiveFor(a) \ {i}
        BY <2>1, <2>2 DEF ActiveFor, IsActive, Affects
      <4>3. Cardinality(ActiveFor(a)') = Cardinality(ActiveFor(a)) - 1
        BY <3>1, <4>1, <4>2, FS_RemoveElement
      <4>4. Cardinality(ActiveFor(a)) # 0
        BY <3>1, <4>1, FS_EmptySet
      <4>5. counts'[a] = Clip(counts[a] - 1, 0, counts[a])
        BY <1>2, <3>3 DEF Released
      <4> QED BY <3>1, <3>2, <4>3, <4>4, <4>5, ClipTakes
    <3>4. CASE ~Affects(i, a)
      <4>1. ActiveFor(a)' = ActiveFor(a)
        BY <2>1, <2>2, <3>4 DEF ActiveFor, IsActive, Affects
      <4>2. counts'[a] = counts[a]
        BY <1>2, <3>4 DEF Released
      <4> QED BY <3>1, <3>2, <4>1, <4>2
    <3> QED BY <3>3, <3>4
  <2>4. counts' \in [Actors -> Nat]
    <3>1. counts' = [a \in Actors |-> counts'[a]]
      BY <1>2 DEF Released
    <3> QED BY <2>3, <3>1
  <2> QED BY <2>2, <2>3, <2>4 DEF CountsMatchStore
<1> QED BY <1>1, <1>2

-----------------------------------------------------------------------------
LEMMA InitStoreInv == Init => StoreInv
<1> SUFFICES ASSUME Init PROVE StoreInv
  OBVIOUS
<1>1. TypeOK
  <2>1. issued \in Seq(Alerts) /\ Len(issued) = 0 /\ MaxIssued \in Nat
    BY AlertConstants DEF Init
  <2>2. store \in [DOMAIN store -> {"active", "resolved"}] /\ DOMAIN store = {}
    BY DEF Init
  <2>3. counts \in [Actors -> Nat]
    BY DEF Init
  <2>4. /\ sentAt \in [Keys -> Nat \cup {None}] /\ scoreOf \in [Keys -> Scores \cup {None}]
        /\ now \in Nat /\ reinits \in Nat /\ stale \in BOOLEAN /\ call = None
    BY DEF Init
  <2>5. /\ cache \in [Risks -> Scores \cup {None}] /\ shown \in [Risks -> Levels \cup {None}]
        /\ round = None /\ rounds \in Nat
    BY DEF Init
  <2> QED BY <2>1, <2>2, <2>3, <2>4, <2>5 DEF TypeOK
<1>2. HasRoom
  BY DEF Init, HasRoom
<1>3. ASSUME NEW a \in Actors PROVE counts[a] = Cardinality(ActiveFor(a))
  <2>1. ActiveFor(a) = {}
    BY DEF Init, ActiveFor
  <2> QED BY <2>1, FS_EmptySet DEF Init
<1> QED BY <1>1, <1>2, <1>3 DEF StoreInv, CountsMatchStore

LEMMA EvaluateStoreInv ==
    ASSUME StoreInv, NEW r \in Risks, NEW score \in Scores, NEW ttc, NEW known,
           NEW seen \in SUBSET DOMAIN issued, Evaluate(r, score, ttc, known, seen)
    PROVE  StoreInv'
<1>1. /\ scoreOf' = [scoreOf EXCEPT ![KeyOf[r]] = score] /\ KeyOf[r] \in Keys
      /\ Len(issued) < MaxIssued
      /\ UNCHANGED <<now, sentAt, issued, store, counts, reinits, stale, cache, shown, round, rounds>>
  BY AlertConstants DEF Evaluate, batched
<1>2. call' \in Calls /\ call'.seen \subseteq DOMAIN issued
  <2>1. seen \in SUBSET (1 .. MaxIssued)
    <3>1. DOMAIN issued = 1 .. Len(issued) /\ Len(issued) \in Nat /\ Len(issued) <= MaxIssued
      BY DEF StoreInv, TypeOK
    <3>2. MaxIssued \in Nat
      BY AlertConstants
    <3> QED BY <3>1, <3>2
  <2> DEFINE level == Level(known \cap ActorSet(KeyOf[r]), score, ttc)
  <2>2. level \in Levels
    BY LevelIsALevel
  <2>3. call' = [risk |-> r, score |-> score, seen |-> seen, next |-> 1, took |-> FALSE,
                 level |-> level]
    BY DEF Evaluate
  <2> HIDE DEF level
  <2> QED BY <2>1, <2>2, <2>3 DEF Calls
<1>3. TypeOK'
  BY <1>1, <1>2 DEF StoreInv, TypeOK
<1>4. HasRoom'
  BY <1>1 DEF HasRoom
<1>5. CountsMatchStore'
  BY <1>1 DEF StoreInv, CountsMatchStore, ActiveFor, IsActive, Affects
<1> QED BY <1>3, <1>4, <1>5 DEF StoreInv

\* What is left to show of a step that only releases an alert.
LEMMA ReleasingStoreInv ==
    ASSUME StoreInv, NEW i, store' = Resolved(i), counts' = Released(i),
           stale' \in BOOLEAN, call' \in Calls \cup {None},
           call' # None => call # None /\ call'.seen = call.seen,
           UNCHANGED <<now, sentAt, scoreOf, issued, reinits, batched>>
    PROVE  StoreInv'
<1>1. /\ store' \in [DOMAIN store -> {"active", "resolved"}] /\ DOMAIN store' = DOMAIN store
      /\ counts' \in [Actors -> Nat] /\ CountsMatchStore'
  BY ReleaseKeeps DEF StoreInv
<1>2. TypeOK'
  BY <1>1 DEF StoreInv, TypeOK, batched
<1>3. HasRoom'
  BY DEF StoreInv, HasRoom
<1> QED BY <1>1, <1>2, <1>3 DEF StoreInv

LEMMA CheckActorStoreInv == ASSUME StoreInv, CheckActor PROVE StoreInv'
<1>1. call \in Calls /\ UNCHANGED <<now, sentAt, scoreOf, issued, reinits, batched>>
  BY DEF StoreInv, TypeOK, CheckActor
<1>2. [call EXCEPT !.next = @ + 1] \in Calls /\ [call EXCEPT !.next = @ + 1].seen = call.seen
  BY <1>1 DEF Calls
<1> DEFINE a == Current[call.next]
<1>3. CASE /\ UNCHANGED <<store, counts, stale>>
           /\ call' = [call EXCEPT !.next = @ + 1] \/ call' = None
  <2>1. call' # None => call # None /\ call'.seen = call.seen
    BY <1>2, <1>3 DEF CheckActor
  <2>2. TypeOK'
    BY <1>1, <1>2, <1>3, <2>1 DEF StoreInv, TypeOK, batched
  <2>3. HasRoom'
    BY <1>1, <2>1 DEF StoreInv, HasRoom
  <2>4. CountsMatchStore'
    BY <1>1, <1>3 DEF StoreInv, CountsMatchStore, ActiveFor, IsActive, Affects
  <2> QED BY <2>2, <2>3, <2>4 DEF StoreInv
<1>4. ASSUME NEW i \in LowestFor(a, call.seen),
             store' = Resolved(i), counts' = Released(i), stale' = (stale \/ ~IsActive(i)),
             call' = [call EXCEPT !.next = @ + 1, !.took = @ \/ IsActive(i)]
      PROVE  StoreInv'
  <2>1. stale' \in BOOLEAN
    BY <1>4 DEF StoreInv, TypeOK
  <2>2. call' \in Calls /\ call'.seen = call.seen
    <3> DEFINE took == call.took \/ IsActive(i)
    <3>1. took \in BOOLEAN
      BY <1>1 DEF Calls, IsActive
    <3>2. call' = [call EXCEPT !.next = @ + 1, !.took = took]
      BY <1>4
    <3> HIDE DEF took
    <3>3. call = [risk |-> call.risk, score |-> call.score, seen |-> call.seen,
                  next |-> call.next, level |-> call.level, took |-> call.took]
      BY <1>1 DEF Calls
    <3>4. call' = [risk |-> call.risk, score |-> call.score, seen |-> call.seen,
                   next |-> call.next + 1, level |-> call.level, took |-> took]
      BY <3>2, <3>3
    <3>5. /\ call.risk \in Risks /\ call.score \in Scores /\ call.level \in Levels
          /\ call.seen \in SUBSET (1 .. MaxIssued) /\ call.next + 1 \in Nat \ {0}
      BY <1>1 DEF Calls
    <3> QED BY <3>1, <3>4, <3>5 DEF Calls
  <2>3. call # None
    BY DEF CheckActor
  <2> QED BY <1>1, <1>4, <2>1, <2>2, <2>3, ReleasingStoreInv
<1> QED BY <1>3, <1>4 DEF CheckActor

\* A new alert: the pre-empted leave, and its id is new to the store.
LEMMA IssueStoreInv == ASSUME StoreInv, Issue PROVE StoreInv'
<1> DEFINE k == KeyOf[call.risk]
           id == Len(issued) + 1
           gone == {i \in Preempted(k, call.level, call.seen) : IsActive(i)}
           freed(a) == Cardinality({i \in gone : Affects(i, a)})
           alert == [risk |-> call.risk, key |-> k, at |-> now,
                     level |-> call.level, score |-> call.score]
<1>1. /\ issued' = Append(issued, alert)
      /\ store' = [i \in DOMAIN store \cup {id} |->
                     IF i = id THEN "active"
                     ELSE IF i \in gone THEN "resolved" ELSE store[i]]
      /\ counts' = [a \in Actors |-> Clip(counts[a] - freed(a), 0, counts[a])
                                       + (IF a \in ActorSet(k) THEN 1 ELSE 0)]
      /\ sentAt' = [sentAt EXCEPT ![k] = now]
      /\ call' = None
      /\ UNCHANGED <<now, scoreOf, reinits, stale, cache, shown, round, rounds>>
  BY DEF Issue, batched
<1>2. call \in Calls /\ k \in Keys
  BY AlertConstants DEF Issue, StoreInv, TypeOK, Calls
<1>3. alert \in Alerts
  BY <1>2 DEF StoreInv, TypeOK, Calls, Alerts
<1>4. /\ issued \in Seq(Alerts) /\ Len(issued) \in Nat /\ Len(issued) < MaxIssued
      /\ DOMAIN issued = 1 .. Len(issued)
  BY DEF StoreInv, TypeOK, HasRoom, Issue
<1>5. id \notin DOMAIN store /\ DOMAIN store \subseteq 1 .. Len(issued)
  BY <1>4 DEF StoreInv, TypeOK
<1> HIDE DEF alert
<1>6. /\ issued' \in Seq(Alerts) /\ Len(issued') = Len(issued) + 1
      /\ DOMAIN issued' = 1 .. id
      /\ issued'[id] = alert
      /\ \A i \in 1 .. Len(issued) : issued'[i] = issued[i]
  BY <1>1, <1>3, <1>4
<1>7. alert.key = k
  BY DEF alert
<1> HIDE DEF k, gone
<1>8. ASSUME NEW a \in Actors
      PROVE  counts'[a] \in Nat /\ counts'[a] = Cardinality(ActiveFor(a)')
  <2>1. IsFiniteSet(ActiveFor(a)) /\ Cardinality(ActiveFor(a)) \in Nat
        /\ ActiveFor(a) \subseteq DOMAIN store
    BY ActiveFinite, FS_CardinalityType DEF StoreInv
  <2> DEFINE left == {i \in gone : Affects(i, a)}
  <2>2. left \in SUBSET ActiveFor(a)
    BY DEF gone, ActiveFor, IsActive
  <2>3. /\ IsFiniteSet(ActiveFor(a) \ left)
        /\ Cardinality(ActiveFor(a) \ left) = Cardinality(ActiveFor(a)) - Cardinality(left)
    <3>1. ActiveFor(a) \cap left = left
      BY <2>2
    <3> QED BY <2>1, <3>1, FS_Difference, ZenonT(60)
  <2>4. Cardinality(left) \in Nat /\ Cardinality(left) <= Cardinality(ActiveFor(a))
    BY <2>1, <2>2, FS_Subset, FS_CardinalityType
  <2>5. counts'[a] = Cardinality(ActiveFor(a)) - Cardinality(left)
                       + (IF a \in ActorSet(k) THEN 1 ELSE 0)
    <3>1. counts[a] = Cardinality(ActiveFor(a))
      BY DEF StoreInv, CountsMatchStore
    <3>2. counts'[a] = Clip(counts[a] - Cardinality(left), 0, counts[a])
                         + (IF a \in ActorSet(k) THEN 1 ELSE 0)
      BY <1>1
    <3> HIDE DEF left
    <3>3. Clip(counts[a] - Cardinality(left), 0, counts[a]) = counts[a] - Cardinality(left)
      BY <2>1, <2>4, <3>1, ClipTakes
    <3> QED BY <3>1, <3>2, <3>3
  <2>6. ASSUME NEW i \in DOMAIN store
        PROVE  i \in ActiveFor(a)' <=> i \in ActiveFor(a) \ left
    <3>1. i \in DOMAIN store' /\ store'[i] = (IF i \in gone THEN "resolved" ELSE store[i])
      BY <1>1, <1>5
    <3>2. issued'[i] = issued[i]
      BY <1>5, <1>6
    <3> QED BY <3>1, <3>2 DEF ActiveFor, IsActive, Affects
  <2>7. id \in ActiveFor(a)' <=> a \in ActorSet(k)
    <3>1. id \in DOMAIN store' /\ store'[id] = "active"
      BY <1>1
    <3> QED BY <1>6, <1>7, <3>1 DEF ActiveFor, IsActive, Affects
  <2>8. ActiveFor(a)' \subseteq DOMAIN store \cup {id}
    BY <1>1 DEF ActiveFor
  <2> HIDE DEF left, id
  <2>9. ActiveFor(a)' = (ActiveFor(a) \ left) \cup (IF a \in ActorSet(k) THEN {id} ELSE {})
    BY <2>1, <2>6, <2>7, <2>8
  <2>10. id \notin ActiveFor(a) \ left
    BY <1>5, <2>1
  <2>11. Cardinality(ActiveFor(a)') = Cardinality(ActiveFor(a) \ left)
                                        + (IF a \in ActorSet(k) THEN 1 ELSE 0)
    <3>1. Cardinality(ActiveFor(a) \ left) \in Nat
      BY <2>3, FS_CardinalityType
    <3>2. CASE a \in ActorSet(k)
      <4>1. ActiveFor(a)' = (ActiveFor(a) \ left) \cup {id}
        BY <2>9, <3>2
      <4> QED BY <2>3, <2>10, <3>1, <3>2, <4>1, FS_AddElement
    <3>3. CASE a \notin ActorSet(k)
      BY <2>9, <3>1, <3>3
    <3> QED BY <3>2, <3>3
  <2> QED BY <2>1, <2>3, <2>4, <2>5, <2>11
<1>9. TypeOK'
  <2>1. counts' \in [Actors -> Nat]
    <3>1. counts' = [a \in Actors |-> counts'[a]]
      BY <1>1
    <3> QED BY <1>8, <3>1
  <2>2. /\ store' \in [DOMAIN store' -> {"active", "resolved"}]
        /\ DOMAIN store' \subseteq DOMAIN issued'
    <3>1. DOMAIN store' = DOMAIN store \cup {id}
      BY <1>1
    <3>2. \A i \in DOMAIN store' : store'[i] \in {"active", "resolved"}
      BY <1>1 DEF StoreInv, TypeOK
    <3>3. store' = [i \in DOMAIN store' |-> store'[i]]
      BY <1>1
    <3>4. DOMAIN store' \subseteq DOMAIN issued'
      BY <1>4, <1>5, <1>6, <3>1
    <3> QED BY <3>2, <3>3, <3>4
  <2>3. sentAt' \in [Keys -> Nat \cup {None}]
    BY <1>1, <1>2 DEF StoreInv, TypeOK
  <2>4. Len(issued') <= MaxIssued
    BY <1>4, <1>6, AlertConstants
  <2> QED BY <1>1, <1>6, <2>1, <2>2, <2>3, <2>4 DEF StoreInv, TypeOK
<1>10. HasRoom'
  BY <1>1 DEF HasRoom
<1> QED BY <1>8, <1>9, <1>10 DEF StoreInv, CountsMatchStore

LEMMA ResolveRiskStoreInv == ASSUME StoreInv, NEW r \in Risks, ResolveRisk(r) PROVE StoreInv'
<1>1. PICK i \in DOMAIN store : store' = Resolved(i) /\ counts' = Released(i)
  BY DEF ResolveRisk
<1>2. call = None /\ call' = None /\ stale' = stale
      /\ UNCHANGED <<now, sentAt, scoreOf, issued, reinits, batched>>
  BY DEF ResolveRisk, Resting
<1> QED BY <1>1, <1>2, ReleasingStoreInv DEF StoreInv, TypeOK

LEMMA ReinitialiseStoreInv == ASSUME StoreInv, Reinitialise PROVE StoreInv'
<1>1. /\ reinits' = reinits + 1 /\ store' = <<>>
      /\ sentAt' = [k \in Keys |-> None] /\ scoreOf' = [k \in Keys |-> None]
      /\ counts' = [a \in Actors |-> 0]
      /\ cache' = [r \in Risks |-> None]
      /\ UNCHANGED <<now, issued, call, stale, shown, round, rounds>> /\ call = None
  BY DEF Reinitialise, Resting
<1>2. TypeOK'
  BY <1>1 DEF StoreInv, TypeOK
<1>3. ASSUME NEW a \in Actors PROVE counts'[a] = Cardinality(ActiveFor(a)')
  <2>1. ActiveFor(a)' = {}
    BY <1>1 DEF ActiveFor
  <2> QED BY <1>1, <2>1, FS_EmptySet
<1>4. HasRoom'
  BY <1>1 DEF HasRoom
<1> QED BY <1>2, <1>3, <1>4 DEF StoreInv, CountsMatchStore

\* What only moves the clock, the log and the batch leaves the store alone.
LEMMA SingleKept ==
    ASSUME StoreInv, UNCHANGED single
    PROVE  HasRoom' /\ CountsMatchStore'
BY DEF single, StoreInv, HasRoom, CountsMatchStore, ActiveFor, IsActive, Affects

\* Pre-emption only suppresses: it keeps levels, and what is at least a warning.
LEMMA PreemptingTyped ==
    ASSUME NEW out \in [Risks -> Showings \cup {None}]
    PROVE  Preempting(out) \in [Risks -> Showings \cup {None}]
<1>1. ASSUME NEW r \in Risks, out[r] # None
      PROVE  Shows(out[r].level, "suppressed") \in Showings
  BY <1>1 DEF Shows, Showings
<1> QED BY <1>1 DEF Preempting

LEMMA PrioritizeStoreInv == ASSUME StoreInv, BatchInOrder, Prioritize PROVE StoreInv'
<1>1. HasRoom' /\ CountsMatchStore'
  <2>1. UNCHANGED single
    BY Zenon DEF Prioritize, BeginRound, PassOver, Takes, Enforce, KeepAlert, ShowAlert,
                 ResolveGone, ReturnRound
  <2> QED BY <2>1, SingleKept, Zenon
<1> USE DEF StoreInv
<1>2. ASSUME UNCHANGED <<now, reinits, single>>,
             sentAt' \in [Keys -> Nat \cup {None}],
             cache' \in [Risks -> Scores \cup {None}],
             shown' \in [Risks -> Levels \cup {None}],
             round' \in Rounds \cup {None}, rounds' \in Nat
      PROVE  TypeOK'
  BY <1>2 DEF TypeOK, single
<1>3. ASSUME NEW held \in SUBSET {r \in Risks : shown[r] # None}, BeginRound(held)
      PROVE  TypeOK'
  <2>1. round' \in Rounds
    BY <1>3 DEF BeginRound, Rounds
  <2> QED BY <1>2, <1>3, <2>1 DEF BeginRound, TypeOK
<1>4. ASSUME NEW r \in Risks, NEW alert \in Showings \cup {None}, Takes(r, alert)
      PROVE  round' \in Rounds /\ UNCHANGED <<now, reinits, single, shown, rounds>>
  <2>1. round \in Rounds
    BY <1>4 DEF Takes, TypeOK
  <2> QED BY <1>4, <2>1 DEF Takes, Rounds
<1>5. ASSUME NEW r \in Risks, PassOver(r) PROVE TypeOK'
  BY <1>2, <1>4, <1>5 DEF PassOver, TypeOK
<1>6. ASSUME NEW r \in Risks, NEW score \in Scores, KeepAlert(r, score) PROVE TypeOK'
  <2>1. shown[r] \in Levels /\ round # None
    BY <1>6 DEF KeepAlert, Steady, Takes, BatchInOrder, TypeOK
  <2>2. Shows(shown[r], "active") \in Showings
    BY <2>1 DEF Shows, Showings
  <2> QED BY <1>2, <1>4, <1>6, <2>2 DEF KeepAlert, TypeOK
<1>7. ASSUME NEW r \in Risks, NEW score \in Scores, NEW ttc \in Ttcs, NEW known \in {{}, Actors},
             ShowAlert(r, score, ttc, known)
      PROVE  TypeOK'
  <2> DEFINE level == Level(known \cap ActorSet(KeyOf[r]), score, ttc)
  <2>1. Shows(level, "active") \in Showings
    BY LevelIsALevel DEF Shows, Showings
  <2>2. Takes(r, Shows(level, "active"))
    BY <1>7 DEF ShowAlert
  <2>3. sentAt' \in [Keys -> Nat \cup {None}] /\ cache' \in [Risks -> Scores \cup {None}]
    BY <1>7, AlertConstants DEF ShowAlert, TypeOK
  <2> HIDE DEF level
  <2> QED BY <1>2, <1>4, <2>1, <2>2, <2>3 DEF TypeOK
<1>8. ASSUME ResolveGone PROVE TypeOK'
  <2> DEFINE gone == round.held \ round.seen
             before == [r \in Risks |-> IF r \in gone THEN Shows(shown[r], "resolved")
                                                      ELSE round.out[r]]
             out == Preempting(before)
  <2>1. round \in Rounds
    BY <1>8 DEF ResolveGone, TypeOK
  <2>2. before \in [Risks -> Showings \cup {None}]
    <3>1. ASSUME NEW r \in gone PROVE Shows(shown[r], "resolved") \in Showings
      <4>1. shown[r] \in Levels
        BY <1>8, <2>1 DEF ResolveGone, BatchInOrder, TypeOK, Rounds
      <4> QED BY <4>1 DEF Shows, Showings
    <3> QED BY <2>1, <3>1 DEF Rounds
  <2> HIDE DEF before
  <2>3. out \in [Risks -> Showings \cup {None}]
    BY <2>2, PreemptingTyped
  <2>4. round' = [round EXCEPT !.stage = "limit", !.out = out, !.left = Showing(out)]
    BY <1>8 DEF ResolveGone, before
  <2> HIDE DEF out
  <2>5. round' \in Rounds
    BY <2>1, <2>3, <2>4 DEF Rounds, Showing
  <2>6. /\ sentAt' \in [Keys -> Nat \cup {None}]
        /\ cache' \in [Risks -> Scores \cup {None}]
    BY <1>8 DEF ResolveGone, Pruned, TypeOK
  <2>7. /\ UNCHANGED <<now, reinits, single>>
        /\ shown' \in [Risks -> Levels \cup {None}] /\ rounds' \in Nat
    BY <1>8 DEF ResolveGone, TypeOK
  <2> QED BY <1>2, <2>5, <2>6, <2>7
<1>9. ASSUME NEW r \in Risks, Enforce(r) PROVE TypeOK'
  <2>1. round \in Rounds /\ r \in round.left /\ round.out[r] # None
    BY <1>9 DEF Enforce, First, TypeOK, BatchInOrder, Showing
  <2> DEFINE alert == [round.out[r] EXCEPT !.status = IF OverLimit(r) THEN "suppressed" ELSE @]
  <2>2. alert \in Showings
    BY <2>1 DEF Rounds, Showings
  <2>3. round' = [round EXCEPT !.left = @ \ {r}, !.out[r] = alert]
    BY <1>9, <2>1 DEF Enforce, Rounds
  <2> HIDE DEF alert
  <2>4. round' \in Rounds
    BY <2>1, <2>2, <2>3 DEF Rounds
  <2> QED BY <1>2, <1>9, <2>4 DEF Enforce, TypeOK
<1>10. ASSUME ReturnRound PROVE TypeOK'
  <2>1. shown' \in [Risks -> Levels \cup {None}]
    <3>1. round \in Rounds
      BY <1>10 DEF ReturnRound, TypeOK
    <3>2. \A r \in Risks : round.out[r] # None => round.out[r].level \in Levels
      BY <3>1 DEF Rounds, Showings
    <3> QED BY <1>10, <3>2 DEF ReturnRound, TypeOK
  <2>2. /\ UNCHANGED <<now, reinits, single>> /\ round' = None
        /\ sentAt' \in [Keys -> Nat \cup {None}]
        /\ cache' \in [Risks -> Scores \cup {None}] /\ rounds' \in Nat
    BY <1>10 DEF ReturnRound, TypeOK
  <2> QED BY <1>2, <2>1, <2>2
<1>11. TypeOK'
  BY <1>3, <1>5, <1>6, <1>7, <1>8, <1>9, <1>10 DEF Prioritize
<1> QED BY <1>1, <1>11

LEMMA NextStoreInv == IInv /\ [Next]_vars => StoreInv'
<1> USE DEF IInv
<1> SUFFICES ASSUME StoreInv, BatchInOrder, [Next]_vars PROVE StoreInv'
  OBVIOUS
<1>1. ASSUME NEW r \in Risks, NEW score \in Scores, NEW ttc \in Ttcs,
             NEW known \in {{}, Actors}, NEW seen \in SUBSET DOMAIN issued,
             Evaluate(r, score, ttc, known, seen)
      PROVE  StoreInv'
  BY <1>1, EvaluateStoreInv
<1>2. CASE CheckActor
  BY <1>2, CheckActorStoreInv
<1>3. CASE Issue
  BY <1>3, IssueStoreInv
<1>4. ASSUME NEW r \in Risks, ResolveRisk(r) PROVE StoreInv'
  BY <1>4, ResolveRiskStoreInv
<1>5. CASE Reinitialise
  BY <1>5, ReinitialiseStoreInv
<1>6. CASE Tick
  BY <1>6, SingleKept DEF Tick, StoreInv, TypeOK, single, batched
<1>7. CASE Prioritize
  BY <1>7, PrioritizeStoreInv
<1>8. CASE UNCHANGED vars
  BY <1>8, SingleKept DEF vars, StoreInv, TypeOK, single, batched
<1> QED BY <1>1, <1>2, <1>3, <1>4, <1>5, <1>6, <1>7, <1>8 DEF Next

-----------------------------------------------------------------------------
(* The batch.                                                               *)

\* One alert is suppressed, or none: the others show what they showed.
LEMMA EnforceShows ==
    ASSUME TypeOK, NEW r \in Risks, Enforce(r), round.left \subseteq Showing(round.out)
    PROVE  /\ round'.stage = "limit" /\ round'.left = round.left \ {r}
           /\ \A q \in Risks : round.out[q] # None => round'.out[q].level = round.out[q].level
           /\ \A q \in Risks \ {r} : q \in Showing(round'.out) <=> q \in Showing(round.out)
           /\ r \in Showing(round.out)
           /\ r \in Showing(round'.out) \/ OverLimit(r)
<1> DEFINE status == IF OverLimit(r) THEN "suppressed" ELSE round.out[r].status
<1>1. round \in Rounds /\ r \in round.left /\ round.stage = "limit"
  BY DEF Enforce, First, TypeOK
<1>2. r \in Showing(round.out) /\ round.out[r] # None /\ round.out[r] \in Showings
  BY <1>1 DEF Showing, Rounds
<1>3. round' = [round EXCEPT !.left = @ \ {r}, !.out[r].status = status]
  BY DEF Enforce
<1>4. status \in {"active", "suppressed"} /\ (status = "active" <=> ~OverLimit(r))
  BY <1>2 DEF Showing
<1> HIDE DEF status
<1>5. /\ round' \in [stage : {"limit"}, held : SUBSET Risks, seen : SUBSET Risks,
                     left : {round.left \ {r}}, out : {[round.out EXCEPT ![r].status = status]}]
  BY <1>1, <1>3 DEF Rounds
<1>6. [round.out[r] EXCEPT !.status = status] \in Showings
      /\ [round.out[r] EXCEPT !.status = status].level = round.out[r].level
      /\ [round.out[r] EXCEPT !.status = status].status = status
  BY <1>2, <1>4 DEF Showings
<1>7. round'.stage = "limit" /\ round'.left = round.left \ {r}
  BY <1>5
<1>8. /\ round'.out[r] = [round.out[r] EXCEPT !.status = status]
      /\ \A q \in Risks \ {r} : round'.out[q] = round.out[q]
  BY <1>1, <1>5 DEF Rounds
<1>9. ASSUME ~OverLimit(r) PROVE r \in Showing(round'.out)
  <2>1. status = round.out[r].status
    BY <1>2, <1>4, <1>9 DEF Showing
  <2>2. round'.out[r] = round.out[r]
    BY <1>2, <1>8, <2>1 DEF Showings
  <2> QED BY <1>2, <2>2 DEF Showing
<1> QED BY <1>2, <1>6, <1>7, <1>8, <1>9 DEF Showing

LEMMA InitInOrder == Init => BatchInOrder
BY DEF Init, BatchInOrder

LEMMA NextInOrder == IInv /\ [Next]_vars => BatchInOrder'
<1> SUFFICES ASSUME StoreInv, BatchInOrder, [Next]_vars PROVE BatchInOrder'
  BY DEF IInv
<1> USE DEF StoreInv
<1>1. CASE UNCHANGED <<round, shown>>
  BY <1>1 DEF BatchInOrder, Passed
<1>2. CASE \E held \in SUBSET {r \in Risks : shown[r] # None} : BeginRound(held)
  BY <1>2 DEF BeginRound, BatchInOrder, batched
<1>3. ASSUME NEW r \in Risks, NEW alert, Takes(r, alert) PROVE BatchInOrder'
  <2>1. round \in Rounds /\ shown' = shown /\ round # None
    BY <1>3 DEF Takes, TypeOK
  <2>2. round' = [round EXCEPT !.seen = @ \cup {r}, !.out[r] = alert]
    BY <1>3 DEF Takes
  <2>3. round'.stage = "risks" /\ round'.held = round.held /\ round'.seen = round.seen \cup {r}
        /\ \A q \in Risks \ {r} : round'.out[q] = round.out[q]
    BY <1>3, <2>1, <2>2 DEF Takes, Rounds
  <2> QED BY <1>3, <2>1, <2>3 DEF BatchInOrder, Takes
<1>4. CASE ResolveGone
  <2>1. round \in Rounds /\ shown' = shown /\ round # None
    BY <1>4 DEF ResolveGone, TypeOK
  <2>2. PICK out : round' = [round EXCEPT !.stage = "limit", !.out = out, !.left = Showing(out)]
    BY <1>4 DEF ResolveGone
  <2>3. round'.stage = "limit" /\ round'.held = round.held /\ round'.left = Showing(round'.out)
    BY <2>1, <2>2 DEF Rounds
  <2> QED BY <2>1, <2>3 DEF BatchInOrder, Passed
<1>5. ASSUME NEW r \in Risks, Enforce(r) PROVE BatchInOrder'
  <2>1. /\ round # None /\ round.stage = "limit" /\ round \in Rounds
        /\ round.left \subseteq Showing(round.out) /\ round.left \subseteq Risks
        /\ \A q \in Passed, p \in round.left : round.out[p].level <= round.out[q].level
    BY <1>5 DEF Enforce, BatchInOrder, TypeOK, Rounds
  <2>2. /\ round'.stage = "limit" /\ round'.left = round.left \ {r}
        /\ \A q \in Risks : round.out[q] # None => round'.out[q].level = round.out[q].level
        /\ \A q \in Risks \ {r} : q \in Showing(round'.out) <=> q \in Showing(round.out)
    BY <1>5, <2>1, EnforceShows
  <2>3. shown' = shown /\ round'.held = round.held
    BY <1>5, <2>1 DEF Enforce, Rounds
  <2>4. round'.left \subseteq Showing(round'.out)
    BY <2>1, <2>2
  <2>5. ASSUME NEW q \in Passed', NEW p \in round'.left
        PROVE  round'.out[p].level <= round'.out[q].level
    <3>1. q \in Passed \/ q = r
      BY <2>2 DEF Passed, Showing
    <3>2. p \in round.left /\ q \in Risks
      BY <2>2 DEF Passed, Showing
    <3>3. round.out[p].level <= round.out[q].level
      BY <1>5, <2>1, <3>1, <3>2 DEF Enforce, First
    <3>4. round.out[p] # None /\ round.out[q] # None
      BY <1>5, <2>1, <3>1, <3>2 DEF Showing, Passed, Enforce, First
    <3> QED BY <2>1, <2>2, <3>2, <3>3, <3>4
  <2> QED BY <2>1, <2>2, <2>3, <2>4, <2>5 DEF BatchInOrder
<1>6. CASE ReturnRound
  BY <1>6 DEF ReturnRound, BatchInOrder
<1>7. CASE ~Prioritize
  <2>1. UNCHANGED <<round, shown>>
    BY <1>7 DEF Next, Evaluate, CheckActor, Issue, ResolveRisk, Reinitialise, Tick, vars, batched
  <2> QED BY <2>1, <1>1
<1>8. CASE Prioritize
  BY <1>2, <1>3, <1>4, <1>5, <1>6, <1>8 DEF Prioritize, PassOver, KeepAlert, ShowAlert
<1> QED BY <1>7, <1>8

LEMMA InitIInv == Init => IInv
BY InitStoreInv, InitInOrder DEF IInv

LEMMA NextIInv == IInv /\ [Next]_vars => IInv'
BY NextStoreInv, NextInOrder DEF IInv

-----------------------------------------------------------------------------
\* The caches, the store and the evaluation in progress keep their types.
THEOREM TypeCorrect == Spec => []TypeOK
<1>1. IInv => TypeOK
  BY DEF IInv, StoreInv
<1> QED BY <1>1, InitIInv, NextIInv, PTL DEF Spec

\* Whatever alerts are displaced, pre-empted, resolved and issued, and from
\* copies however old, the counter that the limit reads is the number of
\* active alerts of the actor.
THEOREM CountersAreExact == Spec => []CountsMatchStore
<1>1. IInv => CountsMatchStore
  BY DEF IInv, StoreInv
<1> QED BY <1>1, InitIInv, NextIInv, PTL DEF Spec

\* What the batch holds back in one step is outranked by a critical collision
\* or crowded out by alerts at least as high.
LEMMA HeldBack ==
    ASSUME IInv, Prioritize, round # None, round' # None,
           NEW r \in Showing(round.out), r \notin Showing(round'.out)
    PROVE  Outranked(r)' \/ \E a \in ActorSet(KeyOf[r]) : Crowded(r, a)
<1> USE DEF IInv, StoreInv
<1>1. r \in Risks /\ round.out[r] # None /\ round.out[r].status = "active" /\ round \in Rounds
  BY DEF Showing, TypeOK
<1>2. ASSUME NEW q \in Risks, NEW alert, Takes(q, alert) PROVE FALSE
  <2>1. r # q
    BY <1>1, <1>2 DEF Takes, BatchInOrder
  <2>2. round'.out[r] = round.out[r]
    BY <1>1, <1>2, <2>1 DEF Takes, Rounds
  <2> QED BY <1>1, <2>2 DEF Showing
<1>3. CASE ResolveGone
  <2> DEFINE gone == round.held \ round.seen
             before == [q \in Risks |-> IF q \in gone THEN Shows(shown[q], "resolved")
                                                      ELSE round.out[q]]
  <2>1. round'.out = Preempting(before)
    BY <1>1, <1>3 DEF ResolveGone, Rounds
  <2>2. before[r] = round.out[r]
    BY <1>1, <1>3 DEF ResolveGone, BatchInOrder
  <2> HIDE DEF before
  <2>3. PICK q \in Showing(before) :
            q \in CollisionRisks /\ before[q].level = Critical /\ Shared(r, q)
    BY <1>1, <2>1, <2>2 DEF Preempting, Showing
  <2>4. round'.out[q] = before[q] /\ before[q] # None
    BY <2>1, <2>3 DEF Preempting, Showing, Critical, Advisory, Informational
  <2> QED BY <2>3, <2>4 DEF Outranked
<1>4. ASSUME NEW q \in Risks, Enforce(q)
      PROVE  \E a \in ActorSet(KeyOf[r]) : Crowded(r, a)
  <2>1. /\ round.left \subseteq Showing(round.out)
        /\ \A o \in Passed, p \in round.left : round.out[p].level <= round.out[o].level
    BY <1>4 DEF Enforce, BatchInOrder
  <2>2. r = q /\ OverLimit(r)
    BY <1>1, <1>4, <2>1, EnforceShows
  <2>3. \A o \in Passed : round.out[o].level >= round.out[r].level
    <3>1. ASSUME NEW o \in Passed PROVE round.out[o].level >= round.out[r].level
      <4>1. round.out[r].level <= round.out[o].level
        BY <1>4, <2>1, <2>2 DEF Enforce, First
      <4>2. round.out[r].level \in Levels /\ round.out[o].level \in Levels
        BY <1>1 DEF Passed, Showing, Rounds, Showings
      <4> QED BY <4>1, <4>2 DEF Levels, Informational, Critical
    <3> QED BY <3>1
  <2>4. PICK a \in ActorSet(KeyOf[r]) :
            Cardinality({o \in Passed : a \in ActorSet(KeyOf[o])}) >= MaxConcurrent
    BY <2>2 DEF OverLimit
  <2>5. {o \in Passed : a \in ActorSet(KeyOf[o])} =
          {o \in Passed : a \in ActorSet(KeyOf[o]) /\ round.out[o].level >= round.out[r].level}
    BY <2>3
  <2> QED BY <2>4, <2>5 DEF Crowded
<1> QED BY <1>2, <1>3, <1>4
        DEF Prioritize, BeginRound, PassOver, KeepAlert, ShowAlert, ReturnRound, Resting

\* An evaluation only takes alerts of a lower level away, displaced for an
\* actor at its limit or pre-empted by a critical alert; and a batch only
\* holds an alert back for a critical collision, or for alerts at least as
\* high that leave one of its actors no place.
THEOREM OnlyHigherDisplaces == Spec => DisplacedByHigher
<1> DEFINE Single == call # None =>
                       \A i \in DOMAIN store :
                         (IsActive(i) /\ store'[i] = "resolved") => call.level > issued[i].level
           Batch  == round # None /\ round' # None =>
                       \A r \in Showing(round.out) \ Showing(round'.out) :
                         Outranked(r)' \/ \E a \in ActorSet(KeyOf[r]) : Crowded(r, a)
<1>1. IInv /\ [Next]_vars => Single
  <2> SUFFICES ASSUME StoreInv, [Next]_vars, call # None,
                      NEW i \in DOMAIN store, IsActive(i), store'[i] = "resolved"
               PROVE  call.level > issued[i].level
    BY DEF IInv
  <2>1. CASE CheckActor
    <3>1. store' # store
      BY DEF IsActive
    <3>2. PICK j \in LowestFor(Current[call.next], call.seen) :
            call.level > issued[j].level /\ store' = Resolved(j)
      BY <2>1, <3>1, ZenonT(60) DEF CheckActor
    <3>3. i = j
      BY <3>2 DEF Resolved, IsActive, StoreInv, TypeOK
    <3> QED BY <3>2, <3>3
  <2>2. CASE Issue
    <3> DEFINE gone == {j \in Preempted(KeyOf[call.risk], call.level, call.seen) : IsActive(j)}
    <3>1. store'[i] = IF i = Len(issued) + 1 THEN "active"
                      ELSE IF i \in gone THEN "resolved" ELSE store[i]
      BY <2>2 DEF Issue
    <3>2. i \in gone
      BY <3>1 DEF IsActive
    <3> QED BY <3>2 DEF Preempted, Critical, Advisory, Informational
  <2>3. CASE UNCHANGED store
    BY <2>3, ZenonT(60) DEF IsActive
  <2>4. CheckActor \/ Issue \/ UNCHANGED store
    BY ZenonT(60) DEF Next, Evaluate, ResolveRisk, Reinitialise, Tick, Resting, vars, single, Prioritize,
           BeginRound, PassOver, Takes, Enforce, KeepAlert, ShowAlert, ResolveGone, ReturnRound
  <2> QED BY <2>1, <2>2, <2>3, <2>4
<1>2. IInv /\ [Next]_vars => Batch
  <2>1. CASE Prioritize
    BY <2>1, HeldBack
  <2>2. CASE ~Prioritize /\ [Next]_vars
    <3>1. round' = round
      BY <2>2, ZenonT(60) DEF Next, Evaluate, CheckActor, Issue, ResolveRisk, Reinitialise, Tick, vars, batched
    <3> QED BY <3>1
  <2> QED BY <2>1, <2>2
<1>3. IInv /\ [Next]_vars => [Single /\ Batch]_vars
  BY <1>1, <1>2
<1> QED BY <1>3, InitIInv, NextIInv, PTL DEF Spec, DisplacedByHigher

-----------------------------------------------------------------------------
(* The emergency vehicles.                                                  *)

\* An emergency is active since the judgement that accepted its credential.
ActiveIsAccepted ==
    \A c \in Responders : active[c] # Unknown =>
        verdict[c] # Unknown /\ verdict[c].accepted /\ verdict[c].at = active[c]

FollowInv == instant \in Nat /\ ActiveIsAccepted /\ priority \subseteq Responders /\ PriorityIsBacked

\* Whatever a request makes of a vehicle's emergency, the judgement says why.
LEMMA JudgedTogether ==
    ASSUME FollowInv, NEW batch \in Batches, NEW vehicles \in SUBSET Responders, NEW c \in Responders
    PROVE  Verified(c, batch, vehicles) # Unknown =>
             /\ JudgementAfter(c, batch, vehicles) # Unknown
             /\ JudgementAfter(c, batch, vehicles).accepted
             /\ JudgementAfter(c, batch, vehicles).at = Verified(c, batch, vehicles)
<1>1. CASE CredentialOf(c, batch) = {}
  BY <1>1 DEF Verified, JudgementAfter, FollowInv, ActiveIsAccepted
<1>2. CASE CredentialOf(c, batch) # {} /\ \E i \in CredentialOf(c, batch) : Refused(batch[i])
  BY <1>2 DEF Verified
<1>3. CASE /\ CredentialOf(c, batch) # {} /\ ~\E i \in CredentialOf(c, batch) : Refused(batch[i])
           /\ c \notin vehicles
  BY <1>3 DEF Verified, JudgementAfter, FollowInv, ActiveIsAccepted
<1>4. CASE /\ CredentialOf(c, batch) # {} /\ ~\E i \in CredentialOf(c, batch) : Refused(batch[i])
           /\ c \in vehicles
  <2> DEFINE i == CHOOSE i \in CredentialOf(c, batch) : TRUE
             j == [accepted |-> TRUE, at |-> instant, expires |-> batch[i].expires]
  <2>1. JudgementAfter(c, batch, vehicles) = j /\ Verified(c, batch, vehicles) = instant
    BY <1>4 DEF JudgementAfter, Verified
  <2>2. i \in CredentialOf(c, batch)
    BY <1>4
  <2>3. batch[i] \in Credentials
    <3> HIDE DEF i
    <3> QED BY <2>2, TrackConstants DEF CredentialOf, Judged
  <2>4. j \in Judgements
    <3> HIDE DEF i
    <3> QED BY <2>3 DEF Judgements, Credentials, FollowInv
  <2>5. j.accepted /\ j.at = instant
    OBVIOUS
  <2> HIDE DEF j
  <2> QED BY <2>1, <2>4, <2>5, UnknownIsNoJudgement
<1> QED BY <1>1, <1>2, <1>3, <1>4

LEMMA FollowNextInv == FollowInv /\ [FollowNext]_following => FollowInv'
<1> SUFFICES ASSUME FollowInv, [FollowNext]_following PROVE FollowInv'
  OBVIOUS
<1>1. ASSUME NEW batch \in Batches, NEW vehicles \in SUBSET Responders,
             EvaluateEmergencies(batch, vehicles)
      PROVE  FollowInv'
  <2> DEFINE whole == Judged(batch) = DOMAIN batch
  <2>1. /\ active' = [c \in Responders |->
                        IF whole /\ ~Fresh(Verified(c, batch, vehicles)) THEN Unknown
                        ELSE Verified(c, batch, vehicles)]
        /\ priority' = IF whole THEN {c \in vehicles : Fresh(Verified(c, batch, vehicles))} ELSE {}
        /\ verdict' = [c \in Responders |-> JudgementAfter(c, batch, vehicles)]
        /\ instant' = instant
    BY <1>1 DEF EvaluateEmergencies
  <2> HIDE DEF whole
  <2>2. ActiveIsAccepted'
    BY <2>1, JudgedTogether DEF ActiveIsAccepted
  <2>3. ASSUME NEW c \in priority'
        PROVE  /\ verdict'[c] # Unknown /\ verdict'[c].accepted
               /\ instant - verdict'[c].at <= HeartbeatTimeout
    <3>1. c \in Responders /\ Fresh(Verified(c, batch, vehicles))
      BY <2>1
    <3> QED BY <2>1, <3>1, JudgedTogether DEF Fresh
  <2> QED BY <2>1, <2>2, <2>3 DEF FollowInv, PriorityIsBacked
<1>2. ASSUME NEW a \in Animals, NEW r \in Reports \cup {Unknown}, EvaluateAnimals(a, r)
      PROVE  FollowInv'
  BY <1>2 DEF EvaluateAnimals, emergencies, FollowInv, ActiveIsAccepted, PriorityIsBacked
<1>3. CASE ForgetAll
  BY <1>3 DEF ForgetAll, FollowInv, ActiveIsAccepted, PriorityIsBacked
<1>4. CASE Pass
  BY <1>4 DEF Pass, FollowInv, ActiveIsAccepted, PriorityIsBacked
<1>5. CASE UNCHANGED following
  BY <1>5 DEF following, FollowInv, ActiveIsAccepted, PriorityIsBacked
<1> QED BY <1>1, <1>2, <1>3, <1>4, <1>5 DEF FollowNext

\* Priority is asked for only while the latest judgement of the credential was
\* an acceptance no older than the heartbeat timeout, also when a request
\* fails half way through its credentials.
THEOREM PriorityBacked == FollowSpec => []PriorityIsBacked
<1>1. FollowInit => FollowInv
  BY DEF FollowInit, FollowInv, ActiveIsAccepted, PriorityIsBacked
<1>2. FollowInv => PriorityIsBacked
  BY DEF FollowInv
<1> QED BY <1>1, <1>2, FollowNextInv, PTL DEF FollowSpec

-----------------------------------------------------------------------------
(* The vehicles on the move.                                                *)

\* The evaluations from the i-th on that counted wrong ways and got to c.
Rows(i, c) == {j \in Looked(i) : history[j].scene.roads /\ c \in history[j].got}

\* A scene counts for c when it has vehicles and roads and gets to c.
CountsFor(c, scene, got) == Present(scene) # {} /\ scene.roads /\ c \in got

MotionTypes ==
    /\ moment \in Nat
    /\ history \in Seq([at : Nat, scene : Scenes, got : SUBSET Cars])
    /\ countOf \in [Cars -> [count : Nat, road : Roads] \cup {Absent}]
    /\ standing \in [Cars -> [since : Nat, escalated : BOOLEAN] \cup {Absent}]
    /\ braking \in [Cars -> [since : Nat] \cup {Absent}]

\* Each memory of a car goes back to an evaluation since which every scene
\* agreed with it.
CountBacked(c, count, road) ==
    \E i \in 1 .. Len(history) :
       /\ Cardinality(Rows(i, c)) >= count
       /\ \A j \in Rows(i, c) : Against(history[j].scene.cars[c], history[j].scene)
                             /\ history[j].scene.cars[c].road = road
StandingBacked(c, since) ==
    \E i \in 1 .. Len(history) :
       history[i].at = since /\ \A j \in Looked(i) : Stands(history[j].scene.cars[c])
BrakingBacked(c, since) ==
    \E i \in 1 .. Len(history) :
       history[i].at = since /\ \A j \in Looked(i) : Brakes(history[j].scene.cars[c])

MemoryBacked ==
    \A c \in Cars :
       /\ countOf[c] # Absent => CountBacked(c, countOf[c].count, countOf[c].road)
       /\ standing[c] # Absent => StandingBacked(c, standing[c].since)
       /\ braking[c] # Absent => BrakingBacked(c, braking[c].since)

MotionInv == MotionTypes /\ MemoryBacked /\ ReportsSustained

\* An evaluation appends to the history, and to what counts from the i-th
\* evaluation on if it looked at vehicles.
Grown(n, scene, got) ==
    /\ history' \in Seq([at : Nat, scene : Scenes, got : SUBSET Cars])
    /\ n \in Nat \ {0} /\ Len(history) = n - 1 /\ Len(history') = n
    /\ \A j \in 1 .. n - 1 : history'[j] = history[j]
    /\ history'[n] = [at |-> moment, scene |-> scene, got |-> got]
    /\ \A i \in 1 .. n - 1, j \in Nat :
          j \in Looked(i)' <=> j \in Looked(i) \/ (j = n /\ Present(scene) # {})
    /\ \A j \in Nat : j \in Looked(n)' <=> j = n /\ Present(scene) # {}

LEMMA Appended ==
    ASSUME MotionTypes, NEW scene \in Scenes, NEW got \in SUBSET Cars, NEW n, n = Len(history) + 1,
           history' = Append(history, [at |-> moment, scene |-> scene, got |-> got])
    PROVE  Grown(n, scene, got)
<1>1. /\ history' \in Seq([at : Nat, scene : Scenes, got : SUBSET Cars])
      /\ n \in Nat \ {0} /\ Len(history) = n - 1 /\ Len(history') = n
      /\ \A j \in 1 .. n - 1 : history'[j] = history[j]
      /\ history'[n] = [at |-> moment, scene |-> scene, got |-> got]
  <2>1. [at |-> moment, scene |-> scene, got |-> got] \in [at : Nat, scene : Scenes, got : SUBSET Cars]
    BY DEF MotionTypes
  <2> QED BY <2>1, AppendProperties, LenProperties DEF MotionTypes
<1>2. history'[n].scene = scene
  BY <1>1
<1>3. ASSUME NEW i \in 1 .. n, NEW j \in Nat
      PROVE  j \in Looked(i)' <=> \/ j \in i .. n - 1 /\ Present(history[j].scene) # {}
                                  \/ j = n /\ Present(scene) # {}
  <2>1. j \in Looked(i)' <=> j \in i .. n /\ Present(history'[j].scene) # {}
    BY <1>1 DEF Looked, Present
  <2>2. j \in i .. n <=> j = n \/ j \in i .. n - 1
    BY <1>1
  <2>3. CASE j = n
    <3>1. j \notin i .. n - 1
      BY <1>1, <2>3
    <3> QED BY <1>2, <2>1, <2>2, <2>3, <3>1
  <2>4. CASE j # n /\ j \in i .. n - 1
    <3>1. history'[j] = history[j]
      BY <1>1, <2>4
    <3> QED BY <2>1, <2>2, <2>4, <3>1
  <2>5. CASE j # n /\ j \notin i .. n - 1
    BY <2>1, <2>2, <2>5
  <2> QED BY <2>3, <2>4, <2>5
<1>4. \A i \in 1 .. n - 1, j \in Nat : j \in Looked(i)' <=> j \in Looked(i) \/ (j = n /\ Present(scene) # {})
  <2> SUFFICES ASSUME NEW i \in 1 .. n - 1, NEW j \in Nat
               PROVE  j \in Looked(i)' <=> j \in Looked(i) \/ (j = n /\ Present(scene) # {})
    OBVIOUS
  <2>1. j \in Looked(i) <=> j \in i .. n - 1 /\ Present(history[j].scene) # {}
    BY <1>1 DEF Looked
  <2>2. i \in 1 .. n
    BY <1>1
  <2> QED BY <1>3, <2>1, <2>2
<1>5. \A j \in Nat : j \in Looked(n)' <=> j = n /\ Present(scene) # {}
  <2>1. n \in 1 .. n /\ n .. n - 1 = {}
    BY <1>1
  <2> QED BY <1>3, <2>1
<1> QED BY <1>1, <1>4, <1>5 DEF Grown
\* Those that counted wrong ways are finitely many, and one more if this one
\* did.
LEMMA RowsAfter ==
    ASSUME MotionTypes, NEW scene \in Scenes, NEW got \in SUBSET Cars, NEW c,
           NEW n, n = Len(history) + 1,
           history' = Append(history, [at |-> moment, scene |-> scene, got |-> got])
    PROVE  /\ \A i \in 1 .. n - 1, j \in Nat :
                 j \in Rows(i, c)' <=> j \in Rows(i, c) \/ (j = n /\ CountsFor(c, scene, got))
           /\ \A j \in Nat : j \in Rows(n, c)' <=> j = n /\ CountsFor(c, scene, got)
           /\ \A i \in 1 .. n - 1 : Rows(i, c) \subseteq 1 .. n - 1 /\ IsFiniteSet(Rows(i, c))
           /\ \A i \in 1 .. n : Rows(i, c)' \subseteq Nat
<1>1. /\ n \in Nat \ {0} /\ Len(history) = n - 1 /\ Len(history') = n
      /\ \A j \in 1 .. n - 1 : history'[j] = history[j]
      /\ history'[n] = [at |-> moment, scene |-> scene, got |-> got]
      /\ \A i \in 1 .. n - 1, j \in Nat :
            j \in Looked(i)' <=> j \in Looked(i) \/ (j = n /\ Present(scene) # {})
      /\ \A j \in Nat : j \in Looked(n)' <=> j = n /\ Present(scene) # {}
  <2>1. Grown(n, scene, got)
    BY Appended
  <2> QED BY <2>1 DEF Grown
<1>2. history'[n].scene = scene /\ history'[n].got = got
  BY <1>1
<1>3. \A i \in 1 .. n - 1 : Looked(i) \subseteq 1 .. n - 1
  BY <1>1 DEF Looked
<1>4. \A i \in 1 .. n : Looked(i)' \subseteq Nat
  BY <1>1 DEF Looked
<1>5. \A i \in 1 .. n - 1 : Rows(i, c) \subseteq 1 .. n - 1 /\ IsFiniteSet(Rows(i, c))
  <2>1. IsFiniteSet(1 .. n - 1)
    BY <1>1, FS_Interval
  <2> QED BY <1>3, <2>1, FS_Subset DEF Rows
<1>6. ASSUME NEW i \in 1 .. n - 1, NEW j \in Nat
      PROVE  j \in Rows(i, c)' <=> j \in Rows(i, c) \/ (j = n /\ CountsFor(c, scene, got))
  <2>1. j \in Rows(i, c)' <=> j \in Looked(i)' /\ history'[j].scene.roads /\ c \in history'[j].got
    BY DEF Rows
  <2>2. j \in Rows(i, c) <=> j \in Looked(i) /\ history[j].scene.roads /\ c \in history[j].got
    BY DEF Rows
  <2>3. j \in Looked(i) => j \in 1 .. n - 1 /\ history'[j] = history[j]
    BY <1>1, <1>3
  <2>4. j \in Looked(i) => j # n
    BY <1>1, <1>3
  <2> QED BY <1>1, <1>2, <2>1, <2>2, <2>3, <2>4 DEF CountsFor
<1>7. \A j \in Nat : j \in Rows(n, c)' <=> j = n /\ CountsFor(c, scene, got)
  BY <1>1, <1>2 DEF Rows, CountsFor
<1>8. \A i \in 1 .. n : Rows(i, c)' \subseteq Nat
  BY <1>4 DEF Rows
<1> QED BY <1>5, <1>6, <1>7, <1>8

\* A scene that does not count leaves every count backed as it was.
LEMMA CountStays ==
    ASSUME MotionTypes, NEW scene \in Scenes, NEW got \in SUBSET Cars,
           NEW c \in Cars, ~CountsFor(c, scene, got),
           history' = Append(history, [at |-> moment, scene |-> scene, got |-> got]),
           NEW count, NEW road, CountBacked(c, count, road)
    PROVE  CountBacked(c, count, road)'
<1> PICK n : n = Len(history) + 1
  OBVIOUS
<1>1. /\ n \in Nat \ {0} /\ Len(history) = n - 1 /\ Len(history') = n
      /\ \A j \in 1 .. n - 1 : history'[j] = history[j]
  <2>1. Grown(n, scene, got)
    BY Appended
  <2> QED BY <2>1 DEF Grown
<1>2. PICK i \in 1 .. n - 1 :
         /\ Cardinality(Rows(i, c)) >= count
         /\ \A j \in Rows(i, c) : Against(history[j].scene.cars[c], history[j].scene)
                               /\ history[j].scene.cars[c].road = road
  BY <1>1 DEF CountBacked
<1>3. i \in 1 .. n /\ Rows(i, c)' = Rows(i, c) /\ Rows(i, c) \subseteq 1 .. n - 1
  <2>1. i \in 1 .. n
    BY <1>1
  <2>2. /\ Rows(i, c)' \subseteq Nat /\ Rows(i, c) \subseteq 1 .. n - 1
        /\ \A j \in Nat : j \in Rows(i, c)' <=> j \in Rows(i, c)
    BY <2>1, RowsAfter
  <2>3. \A j \in 1 .. n - 1 : j \in Nat
    BY <1>1
  <2>4. \A j : j \in Rows(i, c)' <=> j \in Rows(i, c)
    BY <2>2, <2>3
  <2> QED BY <2>1, <2>2, <2>4
<1>4. \A j \in Rows(i, c) : history'[j] = history[j]
  BY <1>1, <1>3
<1> QED BY <1>1, <1>2, <1>3, <1>4 DEF CountBacked

\* One that counts makes one more of a count on the same segment.
LEMMA CountGrows ==
    ASSUME MotionTypes, NEW scene \in Scenes, NEW got \in SUBSET Cars,
           NEW c \in Cars, CountsFor(c, scene, got),
           history' = Append(history, [at |-> moment, scene |-> scene, got |-> got]),
           NEW count \in Nat, NEW road, Against(scene.cars[c], scene),
           scene.cars[c].road = road, CountBacked(c, count, road)
    PROVE  CountBacked(c, count + 1, road)'
<1> PICK n : n = Len(history) + 1
  OBVIOUS
<1>1. /\ n \in Nat \ {0} /\ Len(history) = n - 1 /\ Len(history') = n
      /\ \A j \in 1 .. n - 1 : history'[j] = history[j]
      /\ history'[n] = [at |-> moment, scene |-> scene, got |-> got]
  <2>1. Grown(n, scene, got)
    BY Appended
  <2> QED BY <2>1 DEF Grown
<1>2. PICK i \in 1 .. n - 1 :
         /\ Cardinality(Rows(i, c)) >= count
         /\ \A j \in Rows(i, c) : Against(history[j].scene.cars[c], history[j].scene)
                               /\ history[j].scene.cars[c].road = road
  BY <1>1 DEF CountBacked
<1>3. i \in 1 .. n /\ n \notin Rows(i, c) /\ Rows(i, c) \subseteq 1 .. n - 1
      /\ Rows(i, c)' = Rows(i, c) \cup {n} /\ IsFiniteSet(Rows(i, c))
  <2>1. i \in 1 .. n
    BY <1>1
  <2>2. /\ Rows(i, c)' \subseteq Nat /\ Rows(i, c) \subseteq 1 .. n - 1 /\ IsFiniteSet(Rows(i, c))
        /\ \A j \in Nat : j \in Rows(i, c)' <=> j \in Rows(i, c) \/ j = n
    BY <2>1, RowsAfter
  <2> QED BY <1>1, <2>1, <2>2
<1>4. Cardinality(Rows(i, c)') >= count + 1
  <2>1. Cardinality(Rows(i, c)) \in Nat /\ Cardinality(Rows(i, c) \cup {n}) = Cardinality(Rows(i, c)) + 1
    BY <1>3, FS_CardinalityType, FS_AddElement
  <2> QED BY <1>2, <1>3, <2>1
<1>5. \A j \in Rows(i, c) : history'[j] = history[j]
  BY <1>1, <1>3
<1>6. history'[n].scene = scene
  BY <1>1
<1>7. \A j \in Rows(i, c)' : Against(history'[j].scene.cars[c], history'[j].scene)
                          /\ history'[j].scene.cars[c].road = road
  BY <1>2, <1>3, <1>5, <1>6
<1>8. i \in 1 .. Len(history')
  BY <1>1, <1>3
<1> QED BY <1>4, <1>7, <1>8 DEF CountBacked, Against

\* And the first of a new one.
LEMMA CountStarts ==
    ASSUME MotionTypes, NEW scene \in Scenes, NEW got \in SUBSET Cars,
           NEW c \in Cars, CountsFor(c, scene, got),
           history' = Append(history, [at |-> moment, scene |-> scene, got |-> got]),
           NEW road, Against(scene.cars[c], scene), scene.cars[c].road = road
    PROVE  CountBacked(c, 1, road)'
<1> PICK n : n = Len(history) + 1
  OBVIOUS
<1>1. n \in Nat \ {0} /\ Len(history') = n /\ history'[n] = [at |-> moment, scene |-> scene, got |-> got]
  <2>1. Grown(n, scene, got)
    BY Appended
  <2> QED BY <2>1 DEF Grown
<1>2. Rows(n, c)' = {n}
  <2>1. n \in 1 .. n
    BY <1>1
  <2>2. Rows(n, c)' \subseteq Nat /\ \A j \in Nat : j \in Rows(n, c)' <=> j = n
    BY <2>1, RowsAfter
  <2> QED BY <1>1, <2>2
<1>3. Cardinality(Rows(n, c)') >= 1
  <2>1. Cardinality({n}) = 1
    BY FS_Singleton
  <2>2. Cardinality(Rows(n, c)') = 1
    BY <1>2, <2>1, Zenon
  <2> QED BY <2>2
<1>4. history'[n].scene = scene /\ n \in 1 .. Len(history')
  BY <1>1
<1> QED BY <1>2, <1>3, <1>4 DEF CountBacked, Against

\* The same for a vehicle that stands, and one that brakes.
LEMMA HeldStays ==
    ASSUME MotionTypes, NEW scene \in Scenes, NEW got \in SUBSET Cars, NEW c \in Cars, NEW since,
           history' = Append(history, [at |-> moment, scene |-> scene, got |-> got])
    PROVE  /\ StandingBacked(c, since) /\ (Present(scene) # {} => Stands(scene.cars[c]))
                 => StandingBacked(c, since)'
           /\ BrakingBacked(c, since) /\ (Present(scene) # {} => Brakes(scene.cars[c]))
                 => BrakingBacked(c, since)'
<1> PICK n : n = Len(history) + 1
  OBVIOUS
<1>1. /\ n \in Nat \ {0} /\ Len(history) = n - 1 /\ Len(history') = n
      /\ \A j \in 1 .. n - 1 : history'[j] = history[j]
      /\ history'[n] = [at |-> moment, scene |-> scene, got |-> got]
      /\ \A i \in 1 .. n - 1, j \in Nat :
            j \in Looked(i)' <=> j \in Looked(i) \/ (j = n /\ Present(scene) # {})
  <2>1. Grown(n, scene, got)
    BY Appended
  <2> QED BY <2>1 DEF Grown
<1>2. history'[n].scene = scene
  BY <1>1
<1>3. ASSUME NEW i \in 1 .. n - 1, NEW j \in Looked(i)'
      PROVE  \/ j \in Looked(i) /\ history'[j] = history[j]
             \/ j = n /\ Present(scene) # {}
  <2>1. j \in Nat
    BY <1>1 DEF Looked
  <2>2. j \in Looked(i) => j \in 1 .. n - 1
    BY <1>1 DEF Looked
  <2> QED BY <1>1, <2>1, <2>2
<1>4. ASSUME StandingBacked(c, since), Present(scene) # {} => Stands(scene.cars[c])
      PROVE  StandingBacked(c, since)'
  <2>1. PICK i \in 1 .. n - 1 : history[i].at = since /\ \A j \in Looked(i) : Stands(history[j].scene.cars[c])
    BY <1>1, <1>4 DEF StandingBacked
  <2>2. i \in 1 .. Len(history') /\ history'[i].at = since
    BY <1>1, <2>1
  <2>3. \A j \in Looked(i)' : Stands(history'[j].scene.cars[c])
    BY <1>2, <1>3, <1>4, <2>1
  <2> QED BY <2>2, <2>3 DEF StandingBacked, Stands
<1>5. ASSUME BrakingBacked(c, since), Present(scene) # {} => Brakes(scene.cars[c])
      PROVE  BrakingBacked(c, since)'
  <2>1. PICK i \in 1 .. n - 1 : history[i].at = since /\ \A j \in Looked(i) : Brakes(history[j].scene.cars[c])
    BY <1>1, <1>5 DEF BrakingBacked
  <2>2. i \in 1 .. Len(history') /\ history'[i].at = since
    BY <1>1, <2>1
  <2>3. \A j \in Looked(i)' : Brakes(history'[j].scene.cars[c])
    BY <1>2, <1>3, <1>5, <2>1
  <2> QED BY <2>2, <2>3 DEF BrakingBacked, Brakes
<1> QED BY <1>4, <1>5

LEMMA HeldStarts ==
    ASSUME MotionTypes, NEW scene \in Scenes, NEW got \in SUBSET Cars, NEW c \in Cars, NEW since, since = moment,
           history' = Append(history, [at |-> moment, scene |-> scene, got |-> got])
    PROVE  /\ Stands(scene.cars[c]) => StandingBacked(c, since)'
           /\ Brakes(scene.cars[c]) => BrakingBacked(c, since)'
<1> PICK n : n = Len(history) + 1
  OBVIOUS
<1>1. /\ n \in Nat \ {0} /\ Len(history') = n /\ history'[n] = [at |-> moment, scene |-> scene, got |-> got]
      /\ \A j \in Nat : j \in Looked(n)' <=> j = n /\ Present(scene) # {}
  <2>1. Grown(n, scene, got)
    BY Appended
  <2> QED BY <2>1 DEF Grown
<1>2. history'[n].scene = scene /\ history'[n].at = since /\ n \in 1 .. Len(history')
  BY <1>1
<1>3. \A j \in Looked(n)' : j = n
  <2>1. Looked(n)' \subseteq Nat
    BY <1>1 DEF Looked
  <2> QED BY <1>1, <2>1
<1>4. Stands(scene.cars[c]) => StandingBacked(c, since)'
  BY <1>2, <1>3 DEF StandingBacked, Stands
<1>5. Brakes(scene.cars[c]) => BrakingBacked(c, since)'
  BY <1>2, <1>3 DEF BrakingBacked, Brakes
<1> QED BY <1>4, <1>5
\* An evaluation keeps every memory backed, and reports only what it
\* remembers.
LEMMA EvaluateWrongWay ==
    ASSUME MotionInv, NEW scene \in Scenes, NEW got \in SUBSET Cars, NEW confirmed,
           confirmed \subseteq WrongWayRisks(scene) \cap got, Watch(scene, got, confirmed),
           NEW c \in Cars
    PROVE  /\ countOf' \in [Cars -> [count : Nat, road : Roads] \cup {Absent}]
           /\ countOf'[c] # Absent => CountBacked(c, countOf[c].count, countOf[c].road)'
           /\ <<"wrong_way", c>> \in raised' =>
                 \E count \in Nat, road \in Roads : count >= Persistence /\ CountBacked(c, count, road)'
<1>1. /\ history' = Append(history, [at |-> moment, scene |-> scene, got |-> got])
      /\ countOf' = WrongWayAfter(scene, got)
      /\ <<"wrong_way", c>> \in raised' => c \in WrongWayRisks(scene) /\ c \in got
  BY DEF Watch
<1>2. countOf \in [Cars -> [count : Nat, road : Roads] \cup {Absent}]
  BY DEF MotionInv, MotionTypes
<1>3. ASSUME ~CountsFor(c, scene, got), countOf'[c] = countOf[c], countOf'[c] # Absent
      PROVE  CountBacked(c, countOf[c].count, countOf[c].road)'
  <2> PICK count, road : count = countOf[c].count /\ road = countOf[c].road
    OBVIOUS
  <2>1. CountBacked(c, count, road)
    BY <1>3 DEF MotionInv, MemoryBacked
  <2>2. CountBacked(c, count, road)'
    BY <1>1, <1>3, <2>1, CountStays DEF MotionInv
  <2> QED BY <1>3, <2>2 DEF CountBacked
<1>4. CASE Present(scene) = {} \/ ~scene.roads
  <2>1. countOf' = countOf /\ WrongWayRisks(scene) = {} /\ ~CountsFor(c, scene, got)
    BY <1>1, <1>4 DEF WrongWayAfter, WrongWayRisks, CountsFor
  <2> QED BY <1>1, <1>2, <1>3, <2>1
<1>5. CASE Present(scene) # {} /\ scene.roads
  <2>1. countOf' = [d \in Cars |-> IF d \in got THEN Counted(d, scene) ELSE countOf[d]]
    BY <1>1, <1>5 DEF WrongWayAfter
  <2>2. ASSUME NEW d \in Cars, Counted(d, scene) # Absent
        PROVE  /\ Counted(d, scene) \in [count : Nat, road : Roads]
               /\ Against(scene.cars[d], scene) /\ scene.cars[d].road = Counted(d, scene).road
               /\ \/ Counted(d, scene).count = 1
                  \/ /\ countOf[d] # Absent /\ countOf[d].road = Counted(d, scene).road
                     /\ Counted(d, scene).count = countOf[d].count + 1
    <3>1. Against(scene.cars[d], scene)
      BY <2>2 DEF Counted
    <3>2. scene.cars[d] \in Sightings
      BY <3>1, MotionConstants DEF Against
    <3>3. scene.cars[d].road \in Roads
      BY <3>1, <3>2 DEF Against, Sightings
    <3>4. CASE countOf[d] # Absent /\ countOf[d].road = scene.cars[d].road
      <4>1. countOf[d] \in [count : Nat, road : Roads]
        BY <1>2, <3>4
      <4>2. Counted(d, scene) = [countOf[d] EXCEPT !.count = @ + 1]
        BY <3>1, <3>4 DEF Counted
      <4> QED BY <3>1, <3>4, <4>1, <4>2
    <3>5. CASE ~(countOf[d] # Absent /\ countOf[d].road = scene.cars[d].road)
      <4>1. Counted(d, scene) = [count |-> 1, road |-> scene.cars[d].road]
        BY <3>1, <3>5 DEF Counted
      <4> QED BY <3>1, <3>3, <4>1
    <3> QED BY <3>4, <3>5
  <2>3. countOf' \in [Cars -> [count : Nat, road : Roads] \cup {Absent}]
    BY <1>2, <2>1, <2>2
  <2>4. ASSUME c \in got, countOf'[c] # Absent
        PROVE  CountBacked(c, countOf[c].count, countOf[c].road)'
    <3> PICK count, road : count = countOf'[c].count /\ road = countOf'[c].road
      OBVIOUS
    <3>1. /\ Counted(c, scene) # Absent
          /\ count = Counted(c, scene).count /\ road = Counted(c, scene).road
      BY <2>1, <2>4
    <3>2. Against(scene.cars[c], scene) /\ scene.cars[c].road = road
      BY <2>2, <3>1
    <3>3. CASE count = 1
      <4>1. CountBacked(c, 1, road)'
        BY <1>1, <1>5, <2>4, <3>2, CountStarts DEF MotionInv, CountsFor
      <4> QED BY <3>3, <4>1 DEF CountBacked
    <3>4. CASE countOf[c] # Absent /\ countOf[c].road = road /\ count = countOf[c].count + 1
      <4> PICK before : before = countOf[c].count
        OBVIOUS
      <4>1. before \in Nat /\ CountBacked(c, before, road)
        BY <1>2, <3>4 DEF MotionInv, MemoryBacked
      <4>2. CountBacked(c, before + 1, road)'
        BY <1>1, <1>5, <2>4, <3>2, <4>1, CountGrows DEF MotionInv, CountsFor
      <4> QED BY <3>4, <4>2 DEF CountBacked
    <3> QED BY <2>2, <3>1, <3>3, <3>4
  <2>5. ASSUME <<"wrong_way", c>> \in raised'
        PROVE  \E count \in Nat, road \in Roads : count >= Persistence /\ CountBacked(c, count, road)'
    <3> PICK count, road : count = countOf'[c].count /\ road = countOf'[c].road
      OBVIOUS
    <3>1. c \in got /\ Counted(c, scene) # Absent /\ Counted(c, scene).count >= Persistence
      BY <1>1, <1>5, <2>5 DEF WrongWayRisks
    <3>2. count >= Persistence /\ count \in Nat /\ road \in Roads /\ countOf'[c] # Absent
      BY <2>1, <2>2, <3>1
    <3>3. CountBacked(c, count, road)'
      BY <2>4, <3>1, <3>2 DEF CountBacked
    <3> QED BY <3>2, <3>3
  <2>6. ASSUME c \notin got, countOf'[c] # Absent
        PROVE  CountBacked(c, countOf[c].count, countOf[c].road)'
    BY <1>3, <2>1, <2>6 DEF CountsFor
  <2> QED BY <2>3, <2>4, <2>5, <2>6
<1> QED BY <1>4, <1>5

LEMMA EvaluateStalled ==
    ASSUME MotionInv, NEW scene \in Scenes, NEW got \in SUBSET Cars, NEW confirmed,
           confirmed \subseteq WrongWayRisks(scene) \cap got, Watch(scene, got, confirmed),
           NEW c \in Cars
    PROVE  /\ standing' \in [Cars -> [since : Nat, escalated : BOOLEAN] \cup {Absent}]
           /\ standing'[c] # Absent => StandingBacked(c, standing[c].since)'
           /\ <<"stalled", c>> \in raised' =>
                 \E since : moment - since >= StandingTime /\ StandingBacked(c, since)'
<1>1. /\ history' = Append(history, [at |-> moment, scene |-> scene, got |-> got])
      /\ standing' = StalledAfter(scene)
      /\ <<"stalled", c>> \in raised' => c \in StalledRisks(scene)
  BY DEF Watch
<1>2. /\ standing \in [Cars -> [since : Nat, escalated : BOOLEAN] \cup {Absent}]
      /\ moment \in Nat
  BY DEF MotionInv, MotionTypes
<1>3. ASSUME Stands(scene.cars[c]), NEW since, since = Since(c, scene).since
      PROVE  StandingBacked(c, since)'
  <2>1. CASE standing[c] # Absent
    <3>1. since = standing[c].since
      BY <1>3, <2>1 DEF Since
    <3>2. StandingBacked(c, since)
      BY <2>1, <3>1 DEF MotionInv, MemoryBacked
    <3> QED BY <1>1, <1>3, <3>2, HeldStays DEF MotionInv
  <2>2. CASE standing[c] = Absent
    <3>1. since = moment
      BY <1>3, <2>2 DEF Since
    <3> QED BY <1>1, <1>3, <3>1, HeldStarts DEF MotionInv
  <2> QED BY <2>1, <2>2
<1>4. <<"stalled", c>> \in raised' =>
         \E since : moment - since >= StandingTime /\ StandingBacked(c, since)'
  <2> SUFFICES ASSUME <<"stalled", c>> \in raised'
               PROVE  \E since : moment - since >= StandingTime /\ StandingBacked(c, since)'
    OBVIOUS
  <2> PICK since : since = Since(c, scene).since
    OBVIOUS
  <2>1. Stands(scene.cars[c]) /\ moment - since >= StandingTime
    BY <1>1 DEF StalledRisks, Obstructs
  <2> QED BY <1>3, <2>1
<1>5. CASE Present(scene) = {}
  <2>1. standing' = standing
    BY <1>1, <1>5 DEF StalledAfter
  <2>2. ASSUME standing[c] # Absent PROVE StandingBacked(c, standing[c].since)'
    <3> PICK since : since = standing[c].since
      OBVIOUS
    <3>1. StandingBacked(c, since)
      BY <2>2 DEF MotionInv, MemoryBacked
    <3>2. StandingBacked(c, since)'
      BY <1>1, <1>5, <3>1, HeldStays DEF MotionInv
    <3> QED BY <2>1, <3>2 DEF StandingBacked
  <2> QED BY <1>2, <1>4, <2>1, <2>2
<1>6. CASE Present(scene) # {}
  <2>1. standing' = [d \in Cars |-> IF Obstructs(d, scene)
                                    THEN [Since(d, scene) EXCEPT !.escalated = TRUE]
                                    ELSE Since(d, scene)]
    BY <1>1, <1>6 DEF StalledAfter
  <2>2. ASSUME NEW d \in Cars
        PROVE  Since(d, scene) = Absent
               \/ (Since(d, scene) \in [since : Nat, escalated : BOOLEAN] /\ Stands(scene.cars[d]))
    BY <1>2 DEF Since
  <2>3. ASSUME NEW d \in Cars
        PROVE  \/ standing'[d] = Absent
               \/ /\ standing'[d] \in [since : Nat, escalated : BOOLEAN]
                  /\ standing'[d].since = Since(d, scene).since /\ Stands(scene.cars[d])
    <3>1. CASE Obstructs(d, scene)
      <4>1. Stands(scene.cars[d])
        BY <3>1 DEF Obstructs
      <4>2. Since(d, scene) \in [since : Nat, escalated : BOOLEAN]
        BY <1>2, <4>1 DEF Since
      <4>3. standing'[d] = [Since(d, scene) EXCEPT !.escalated = TRUE]
        BY <2>1, <3>1
      <4> QED BY <4>1, <4>2, <4>3
    <3>2. CASE ~Obstructs(d, scene)
      <4>1. standing'[d] = Since(d, scene)
        BY <2>1, <3>2
      <4> QED BY <2>2, <4>1
    <3> QED BY <3>1, <3>2
  <2>4. standing' \in [Cars -> [since : Nat, escalated : BOOLEAN] \cup {Absent}]
    BY <2>1, <2>3
  <2>5. ASSUME standing'[c] # Absent PROVE StandingBacked(c, standing[c].since)'
    <3> PICK since : since = Since(c, scene).since
      OBVIOUS
    <3>1. standing'[c].since = since /\ Stands(scene.cars[c])
      BY <2>3, <2>5
    <3>2. StandingBacked(c, since)'
      BY <1>3, <3>1
    <3> QED BY <3>1, <3>2 DEF StandingBacked
  <2> QED BY <1>4, <2>4, <2>5
<1> QED BY <1>5, <1>6

LEMMA EvaluateBraking ==
    ASSUME MotionInv, NEW scene \in Scenes, NEW got \in SUBSET Cars, NEW confirmed,
           confirmed \subseteq WrongWayRisks(scene) \cap got, Watch(scene, got, confirmed),
           NEW c \in Cars
    PROVE  /\ braking' \in [Cars -> [since : Nat] \cup {Absent}]
           /\ braking'[c] # Absent => BrakingBacked(c, braking[c].since)'
           /\ <<"braking", c>> \in raised' =>
                 \E since : moment - since >= BrakingTime /\ BrakingBacked(c, since)'
<1>1. /\ history' = Append(history, [at |-> moment, scene |-> scene, got |-> got])
      /\ braking' = BrakingAfter(scene)
      /\ <<"braking", c>> \in raised' => c \in BrakingRisks(scene)
  BY DEF Watch
<1>2. braking \in [Cars -> [since : Nat] \cup {Absent}] /\ moment \in Nat
  BY DEF MotionInv, MotionTypes
<1>3. ASSUME Brakes(scene.cars[c]), NEW since, since = BrakingSince(c, scene).since
      PROVE  BrakingBacked(c, since)'
  <2>1. CASE braking[c] # Absent
    <3>1. since = braking[c].since
      BY <1>3, <2>1 DEF BrakingSince
    <3>2. BrakingBacked(c, since)
      BY <2>1, <3>1 DEF MotionInv, MemoryBacked
    <3> QED BY <1>1, <1>3, <3>2, HeldStays DEF MotionInv
  <2>2. CASE braking[c] = Absent
    <3>1. since = moment
      BY <1>3, <2>2 DEF BrakingSince
    <3> QED BY <1>1, <1>3, <3>1, HeldStarts DEF MotionInv
  <2> QED BY <2>1, <2>2
<1>4. <<"braking", c>> \in raised' =>
         \E since : moment - since >= BrakingTime /\ BrakingBacked(c, since)'
  <2> SUFFICES ASSUME <<"braking", c>> \in raised'
               PROVE  \E since : moment - since >= BrakingTime /\ BrakingBacked(c, since)'
    OBVIOUS
  <2> PICK since : since = BrakingSince(c, scene).since
    OBVIOUS
  <2>1. Brakes(scene.cars[c]) /\ moment - since >= BrakingTime
    BY <1>1 DEF BrakingRisks
  <2> QED BY <1>3, <2>1
<1>5. CASE Present(scene) = {}
  <2>1. braking' = braking
    BY <1>1, <1>5 DEF BrakingAfter
  <2>2. ASSUME braking[c] # Absent PROVE BrakingBacked(c, braking[c].since)'
    <3> PICK since : since = braking[c].since
      OBVIOUS
    <3>1. BrakingBacked(c, since)
      BY <2>2 DEF MotionInv, MemoryBacked
    <3>2. BrakingBacked(c, since)'
      BY <1>1, <1>5, <3>1, HeldStays DEF MotionInv
    <3> QED BY <2>1, <3>2 DEF BrakingBacked
  <2> QED BY <1>2, <1>4, <2>1, <2>2
<1>6. CASE Present(scene) # {}
  <2>1. braking' = [d \in Cars |-> BrakingSince(d, scene)]
    BY <1>1, <1>6 DEF BrakingAfter
  <2>2. \A d \in Cars : \/ BrakingSince(d, scene) = Absent
                        \/ BrakingSince(d, scene) \in [since : Nat] /\ Brakes(scene.cars[d])
    BY <1>2 DEF BrakingSince
  <2>3. braking' \in [Cars -> [since : Nat] \cup {Absent}]
    BY <2>1, <2>2
  <2>4. ASSUME braking'[c] # Absent PROVE BrakingBacked(c, braking[c].since)'
    <3> PICK since : since = BrakingSince(c, scene).since
      OBVIOUS
    <3>1. braking'[c].since = since /\ Brakes(scene.cars[c])
      BY <2>1, <2>2, <2>4
    <3>2. BrakingBacked(c, since)'
      BY <1>3, <3>1
    <3> QED BY <3>1, <3>2 DEF BrakingBacked
  <2> QED BY <1>4, <2>3, <2>4
<1> QED BY <1>5, <1>6

\* What is reported goes back to an evaluation since which it was seen.
RaisedBacked ==
    /\ Len(history) \in Nat
    /\ \A c \in Cars :
          /\ <<"wrong_way", c>> \in raised =>
                \E count \in Nat, road \in Roads : count >= Persistence /\ CountBacked(c, count, road)
          /\ <<"stalled", c>> \in raised =>
                \E since : moment - since >= StandingTime /\ StandingBacked(c, since)
          /\ <<"braking", c>> \in raised =>
                \E since : moment - since >= BrakingTime /\ BrakingBacked(c, since)

LEMMA BackedIsSustained == RaisedBacked => ReportsSustained
<1> SUFFICES ASSUME RaisedBacked PROVE ReportsSustained
  OBVIOUS
<1> USE DEF RaisedBacked
<1>1. ASSUME NEW c \in Cars, <<"wrong_way", c>> \in raised
      PROVE  \E i \in 1 .. Len(history) : \E road \in Roads :
                LET rows == {j \in Looked(i) : history[j].scene.roads /\ c \in history[j].got}
                IN  /\ Cardinality(rows) >= Persistence
                    /\ \A j \in rows : LET s == history[j].scene.cars[c]
                                       IN  Against(s, history[j].scene) /\ s.road = road
  <2>1. PICK count \in Nat, road \in Roads : count >= Persistence /\ CountBacked(c, count, road)
    BY <1>1
  <2>2. PICK i \in 1 .. Len(history) :
           /\ Cardinality(Rows(i, c)) >= count
           /\ \A j \in Rows(i, c) : Against(history[j].scene.cars[c], history[j].scene)
                                 /\ history[j].scene.cars[c].road = road
    BY <2>1 DEF CountBacked
  <2>3. Cardinality(Rows(i, c)) \in Nat
    <3>1. Rows(i, c) \subseteq i .. Len(history) /\ IsFiniteSet(i .. Len(history))
      BY <2>2, FS_Interval DEF Rows, Looked
    <3> QED BY <3>1, FS_Subset, FS_CardinalityType
  <2>4. Cardinality(Rows(i, c)) >= Persistence
    BY <2>1, <2>2, <2>3, MotionConstants
  <2> QED BY <2>2, <2>4 DEF Rows
<1>2. ASSUME NEW c \in Cars, NEW kind \in {"stalled", "braking"}, <<kind, c>> \in raised
      PROVE  \E i \in 1 .. Len(history) :
                /\ moment - history[i].at >= IF kind = "stalled" THEN StandingTime ELSE BrakingTime
                /\ \A j \in Looked(i) : LET s == history[j].scene.cars[c]
                                         IN  IF kind = "stalled" THEN Stands(s) ELSE Brakes(s)
  <2>1. CASE kind = "stalled"
    <3>1. PICK since : moment - since >= StandingTime /\ StandingBacked(c, since)
      BY <1>2, <2>1
    <3> QED BY <2>1, <3>1 DEF StandingBacked
  <2>2. CASE kind = "braking"
    <3>1. PICK since : moment - since >= BrakingTime /\ BrakingBacked(c, since)
      BY <1>2, <2>2
    <3> QED BY <2>2, <3>1 DEF BrakingBacked
  <2> QED BY <2>1, <2>2
<1> QED BY <1>1, <1>2 DEF ReportsSustained, WrongWayPersists, HeldAllAlong

\* What every evaluation, and everything between them, leaves alone.
LEMMA QuietMotion ==
    ASSUME MotionInv, UNCHANGED <<memory, history>>, moment' \in Nat,
           raised' = {} \/ UNCHANGED <<raised, moment>>
    PROVE  MotionInv'
<1>1. \A i : Looked(i)' = Looked(i) /\ \A c : Rows(i, c)' = Rows(i, c)
  BY DEF Rows, Looked, Present
<1>2. MotionTypes'
  BY DEF MotionInv, MotionTypes, memory
<1>3. \A c, a, b : CountBacked(c, a, b)' <=> CountBacked(c, a, b)
  BY <1>1 DEF CountBacked, Against
<1>4. \A c, a : /\ StandingBacked(c, a)' <=> StandingBacked(c, a)
                /\ BrakingBacked(c, a)' <=> BrakingBacked(c, a)
  BY <1>1 DEF StandingBacked, BrakingBacked, Stands, Brakes
<1>5. MemoryBacked'
  <2> SUFFICES ASSUME NEW c \in Cars
               PROVE  /\ countOf'[c] # Absent => CountBacked(c, countOf[c].count, countOf[c].road)'
                      /\ standing'[c] # Absent => StandingBacked(c, standing[c].since)'
                      /\ braking'[c] # Absent => BrakingBacked(c, braking[c].since)'
    BY DEF MemoryBacked
  <2> PICK count, road, stood, braked :
           /\ count = countOf[c].count /\ road = countOf[c].road
           /\ stood = standing[c].since /\ braked = braking[c].since
    OBVIOUS
  <2>1. /\ countOf[c] # Absent => CountBacked(c, count, road)'
        /\ standing[c] # Absent => StandingBacked(c, stood)'
        /\ braking[c] # Absent => BrakingBacked(c, braked)'
    BY <1>3, <1>4 DEF MotionInv, MemoryBacked
  <2> QED BY <2>1 DEF memory, CountBacked, StandingBacked, BrakingBacked
<1>6. ReportsSustained'
  <2>1. CASE raised' = {}
    BY <2>1 DEF ReportsSustained, WrongWayPersists, HeldAllAlong
  <2>2. CASE UNCHANGED <<raised, moment>>
    <3>1. history' = history /\ raised' = raised /\ moment' = moment
      BY <2>2
    <3>2. WrongWayPersists'
      <4> SUFFICES ASSUME NEW c \in Cars, <<"wrong_way", c>> \in raised
                   PROVE  \E i \in 1 .. Len(history) : \E road \in Roads :
                             /\ Cardinality(Rows(i, c)') >= Persistence
                             /\ \A j \in Rows(i, c)' : Against(history'[j].scene.cars[c], history'[j].scene)
                                                     /\ history'[j].scene.cars[c].road = road
        BY <3>1 DEF WrongWayPersists, Rows, Against
      <4>1. PICK i \in 1 .. Len(history), road \in Roads :
               /\ Cardinality(Rows(i, c)) >= Persistence
               /\ \A j \in Rows(i, c) : Against(history[j].scene.cars[c], history[j].scene)
                                     /\ history[j].scene.cars[c].road = road
        BY DEF MotionInv, ReportsSustained, WrongWayPersists, Rows
      <4>2. Rows(i, c)' = Rows(i, c)
        BY <1>1
      <4> QED BY <3>1, <4>1, <4>2
    <3>3. HeldAllAlong'
      <4>1. \A i : Looked(i)' = Looked(i)
        BY <1>1
      <4> QED BY <3>1, <4>1 DEF MotionInv, ReportsSustained, HeldAllAlong, Stands, Brakes
    <3> QED BY <3>2, <3>3 DEF ReportsSustained
  <2> QED BY <2>1, <2>2
<1> QED BY <1>2, <1>5, <1>6 DEF MotionInv

LEMMA MotionNextInv == MotionInv /\ [MotionNext]_motion => MotionInv'
<1> SUFFICES ASSUME MotionInv, [MotionNext]_motion PROVE MotionInv'
  OBVIOUS
<1> USE MotionConstants
<1>1. ASSUME NEW scene \in Scenes, NEW got \in SUBSET Cars, NEW confirmed,
             confirmed \subseteq WrongWayRisks(scene) \cap got, Watch(scene, got, confirmed)
      PROVE  MotionInv'
  <2>1. moment' = moment /\ history' = Append(history, [at |-> moment, scene |-> scene, got |-> got])
    BY <1>1 DEF Watch
  <2>2. history' \in Seq([at : Nat, scene : Scenes, got : SUBSET Cars])
    <3> PICK n : n = Len(history) + 1
      OBVIOUS
    <3>1. Grown(n, scene, got)
      BY <2>1, Appended DEF MotionInv
    <3> QED BY <3>1 DEF Grown
  <2>3. MotionTypes'
    <3>1. CASE Cars = {}
      <4>1. Present(scene) = {}
        BY <3>1 DEF Present
      <4> QED BY <1>1, <2>1, <2>2, <4>1 DEF MotionInv, MotionTypes, Watch, WrongWayAfter,
                                            StalledAfter, BrakingAfter
    <3>2. CASE Cars # {}
      BY <1>1, <2>1, <2>2, <3>2, EvaluateWrongWay, EvaluateStalled, EvaluateBraking
         DEF MotionInv, MotionTypes
    <3> QED BY <3>1, <3>2
  <2>4. MemoryBacked'
    BY <1>1, EvaluateWrongWay, EvaluateStalled, EvaluateBraking DEF MemoryBacked
  <2>5. ReportsSustained'
    <3>1. ASSUME NEW c \in Cars
          PROVE  /\ <<"wrong_way", c>> \in raised' =>
                      \E count \in Nat, road \in Roads : count >= Persistence /\ CountBacked(c, count, road)'
                 /\ <<"stalled", c>> \in raised' =>
                      \E since : moment' - since >= StandingTime /\ StandingBacked(c, since)'
                 /\ <<"braking", c>> \in raised' =>
                      \E since : moment' - since >= BrakingTime /\ BrakingBacked(c, since)'
      BY <1>1, <2>1, EvaluateWrongWay, EvaluateStalled, EvaluateBraking
    <3>2. Len(history') \in Nat
      BY <2>2
    <3>3. RaisedBacked'
      BY <3>1, <3>2 DEF RaisedBacked
    <3> QED BY <3>3, BackedIsSustained, PTL
  <2> QED BY <2>3, <2>4, <2>5 DEF MotionInv
<1>2. ASSUME NEW scene \in Scenes, EvaluateAll(scene) PROVE MotionInv'
  <2>1. WrongWayRisks(scene) \subseteq WrongWayRisks(scene) \cap Cars
    BY DEF WrongWayRisks, Present
  <2> QED BY <1>1, <1>2, <2>1 DEF EvaluateAll
<1>3. ASSUME NEW scene \in Scenes, NEW road \in Undirected, NEW got \in SUBSET Present(scene),
             EvaluateUndirected(scene, road, got)
      PROVE  MotionInv'
  <2>1. got \in SUBSET Cars
    BY DEF Present
  <2> QED BY <1>1, <1>3, <2>1 DEF EvaluateUndirected
<1>4. CASE EvaluateMalformed
  BY <1>4, QuietMotion DEF EvaluateMalformed, MotionInv, MotionTypes
<1>5. CASE RebuildDetectors
  BY <1>5 DEF RebuildDetectors, Nothing, MotionInv, MotionTypes, MemoryBacked, ReportsSustained,
              WrongWayPersists, HeldAllAlong
<1>6. CASE Later
  BY <1>6, QuietMotion DEF Later, MotionInv, MotionTypes
<1>7. CASE UNCHANGED motion
  BY <1>7, QuietMotion DEF motion, memory, MotionInv, MotionTypes
<1> QED BY <1>2, <1>3, <1>4, <1>5, <1>6, <1>7 DEF MotionNext

\* What is reported was sustained: a wrong-way drive in so many scenes in a
\* row on one segment, of those the detector got to the vehicle in, a stop or a
\* hard braking in every scene of the required time, for every sequence of
\* scenes, failures, clocks and configurations.
THEOREM ReportsAreSustained == MotionSpec => []ReportsSustained
<1>1. MotionInit => MotionInv
  BY DEF MotionInit, Nothing, MotionInv, MotionTypes, MemoryBacked, ReportsSustained,
         WrongWayPersists, HeldAllAlong
<1>2. MotionInv => ReportsSustained
  BY DEF MotionInv
<1> QED BY <1>1, <1>2, MotionNextInv, PTL DEF MotionSpec

-----------------------------------------------------------------------------
(* The approaches.                                                          *)

\* A quotient is at least what fits.
LEMMA Fits ==
    ASSUME NEW a \in Nat, NEW b \in Nat \ {0}, NEW f \in Nat, f * b <= a
    PROVE  f <= a \div b
<1> DEFINE q == a \div b
<1>1. q \in Nat /\ a < b * (q + 1)
  OBVIOUS
<1> HIDE DEF q
<1> SUFFICES ASSUME q + 1 <= f PROVE FALSE
  BY <1>1 DEF q
<1>2. PICK d \in Nat : f = q + 1 + d
  <2>1. f - (q + 1) \in Nat /\ f = q + 1 + (f - (q + 1))
    BY <1>1
  <2> QED
    BY <2>1
<1>3. PICK r \in Nat : r = q + 1
  BY <1>1
<1>4. f * b = b * r + d * b /\ d * b \in Nat /\ b * r \in Nat
  <2>1. f = r + d
    BY <1>2, <1>3
  <2>2. (r + d) * b = b * r + d * b /\ d * b \in Nat /\ b * r \in Nat
    OBVIOUS
  <2> QED
    BY <2>1, <2>2
<1>5. a < b * r
  BY <1>1, <1>3
<1> QED
  BY <1>4, <1>5

LEMMA QuotientIsNat ==
    ASSUME NEW a \in Nat, NEW b \in Nat \ {0}
    PROVE  a \div b \in Nat
OBVIOUS

LEMMA ApproacherType ==
    ASSUME NEW v \in Approachers
    PROVE  v.away \in Nat /\ v.pace \in Nat /\ v.doubt \in Nat
<1>1. Paces \subseteq Nat /\ Doubts \subseteq Nat /\ Distances \subseteq Nat
  BY BlindConstants, Zenon
<1>2. v.away \in Distances /\ v.pace \in Paces /\ v.doubt \in Doubts
  BY DEF Approachers
<1> QED
  BY <1>1, <1>2

LEMMA DoubtIsPositive ==
    ASSUME NEW v \in Approachers, v.pace > 0
    PROVE  EtaDoubt(v) \in Nat /\ EtaDoubt(v) >= 5
<1>1. v.doubt \in Nat /\ v.pace \in Nat \ {0}
  BY ApproacherType
<1>2. PICK d, p : d = 10 * v.doubt /\ p = v.pace
  OBVIOUS
<1>4. d \in Nat /\ p \in Nat \ {0}
  BY <1>1, <1>2
<1>3. d \div p \in Nat
  BY <1>4, QuotientIsNat
<1> QED
  BY <1>2, <1>3 DEF EtaDoubt

LEMMA RoadLeftType ==
    ASSUME NEW v \in Approachers
    PROVE  RoadLeft(v) \in Nat
<1>1. v.away \in Nat /\ v.on \in Approaches
  BY ApproacherType DEF Approachers
<1>2. ApproachLength[v.on] \in Nat
  BY <1>1, BlindConstants
<1>3. PICK a, l : a = 115 * v.away /\ l = 100 * ApproachLength[v.on]
  OBVIOUS
<1>4. a \in Nat /\ l \in Nat
  BY <1>1, <1>2, <1>3
<1> QED
  BY <1>3, <1>4 DEF RoadLeft, MinOf

LEMMA EtaType ==
    ASSUME NEW v \in Approachers, v.pace > 0
    PROVE  Eta(v) \in Nat
<1>1. PICK a, p : a = RoadLeft(v) /\ p = 10 * v.pace
  OBVIOUS
<1>2. a \in Nat /\ p \in Nat \ {0}
  BY <1>1, ApproacherType, RoadLeftType
<1> QED
  BY <1>1, <1>2, QuotientIsNat DEF Eta

\* Two windows overlap by n exactly when a stretch of n lies in both.
LEMMA CommonStretch ==
    ASSUME NEW e \in Nat, NEW g \in Nat, NEW x \in Nat, NEW y \in Nat, NEW n \in Nat,
           x >= 5, y >= 5, n >= 1
    PROVE  (\E t \in 0 .. (e + x) : e - x <= t /\ t + n <= e + x /\ g - y <= t /\ t + n <= g + y)
           <=> MaxOf(0, MinOf(e + x, g + y) - MaxOf(MaxOf(0, e - x), MaxOf(0, g - y))) >= n
<1>1. PICK lo : lo = MaxOf(MaxOf(0, e - x), MaxOf(0, g - y))
  OBVIOUS
<1>2. PICK hi : hi = MinOf(e + x, g + y)
  OBVIOUS
<1>3. lo \in Nat /\ e - x <= lo /\ g - y <= lo
  BY <1>1 DEF MaxOf
<1>4. \A t \in Nat : e - x <= t /\ g - y <= t => lo <= t
  BY <1>1 DEF MaxOf
<1>5. hi \in Nat /\ hi <= e + x /\ hi <= g + y
  BY <1>2 DEF MinOf
<1>6. \A t \in Nat : t <= e + x /\ t <= g + y => t <= hi
  BY <1>2 DEF MinOf
<1>7. MaxOf(0, hi - lo) >= n <=> lo + n <= hi
  BY <1>3, <1>5 DEF MaxOf
<1>8. ASSUME NEW t \in 0 .. (e + x),
             e - x <= t /\ t + n <= e + x /\ g - y <= t /\ t + n <= g + y
      PROVE  lo + n <= hi
  <2>1. t \in Nat /\ t + n \in Nat
    OBVIOUS
  <2>2. lo <= t
    BY <1>4, <1>8, <2>1
  <2>3. t + n <= hi
    BY <1>6, <1>8, <2>1
  <2> QED
    BY <1>3, <1>5, <2>1, <2>2, <2>3
<1>9. ASSUME lo + n <= hi
      PROVE  /\ lo \in 0 .. (e + x)
             /\ e - x <= lo /\ lo + n <= e + x /\ g - y <= lo /\ lo + n <= g + y
  BY <1>3, <1>5, <1>9
<1> QED
  BY <1>1, <1>2, <1>7, <1>8, <1>9

\* A share of both doubts reaches the floor exactly when it is that long.
LEMMA ShareNeeded ==
    ASSUME NEW o \in Nat, NEW b \in Nat \ {0}, NEW f \in Nat, o <= b
    PROVE  MinOf(100, (100 * o) \div b) >= f <=> o >= (f * b + 99) \div 100
<1>1. PICK a, c, q : a = 100 * o /\ c = f * b /\ q = a \div b
  OBVIOUS
<1>2. a \in Nat /\ c \in Nat /\ q \in Nat /\ q * b \in Nat
  <2>1. a \in Nat /\ c \in Nat
    BY <1>1
  <2>2. q \in Nat
    BY <1>1, <2>1, QuotientIsNat
  <2> QED
    BY <2>1, <2>2
<1>3. o >= (c + 99) \div 100 <=> c <= a
  BY <1>1, <1>2
<1>4. c <= a => f <= q
  BY <1>1, <1>2, Fits
<1>5. f <= q => c <= a
  <2>1. q * b <= a
    <3>1. b * (a \div b) <= a
      BY <1>2
    <3> QED
      BY <1>1, <3>1, <1>2
  <2>2. ASSUME f <= q PROVE f * b <= q * b
    <3>1. PICK d \in Nat : q = f + d
      <4>1. q - f \in Nat /\ q = f + (q - f)
        BY <1>2, <2>2
      <4> QED
        BY <4>1
    <3>2. q * b = f * b + d * b /\ d * b \in Nat /\ f * b \in Nat
      BY <3>1
    <3> QED
      BY <3>2
  <2> QED
    BY <1>1, <1>2, <2>1, <2>2
<1>6. c <= a => f <= 100
  <2> SUFFICES ASSUME f >= 101 PROVE c > a
    BY <1>1, <1>2
  <2>1. PICK d \in Nat : f = 101 + d
    <3>1. f - 101 \in Nat /\ f = 101 + (f - 101)
      OBVIOUS
    <3> QED
      BY <3>1
  <2>2. f * b = 101 * b + d * b /\ d * b \in Nat
    BY <2>1
  <2> QED
    BY <1>1, <1>2, <2>2
<1>7. MinOf(100, q) >= f <=> f <= 100 /\ f <= q
  BY <1>2 DEF MinOf
<1> QED
  BY <1>1, <1>3, <1>4, <1>5, <1>6, <1>7

BlindType == first \in Approachers /\ second \in Approachers

LEMMA BlindInductive == BlindSpec => []BlindType
<1>1. BlindInit => BlindType
  BY DEF BlindInit, BlindType
<1>2. BlindType /\ [BlindNext]_blind => BlindType'
  BY DEF BlindType, BlindNext, Move, Drive, blind
<1> QED
  BY <1>1, <1>2, PTL DEF BlindSpec

\* Whatever the approaches and their lengths, the speeds, doubts, distances and
\* thresholds: two vehicles are warned of exactly when both may be in the zone
\* throughout one stretch as long as the thresholds ask (blind_intersection.py).
THEOREM OnCourseAreWarned == BlindSpec => []OnCourseIsWarned
<1>1. BlindType => OnCourseIsWarned
  <2> SUFFICES ASSUME BlindType, first.on # second.on, Approaching(first), Approaching(second)
               PROVE  JunctionWarns(first, second) <=>
                          \E t \in 0 .. Latest(first) :
                              \A x \in {t, t + StretchNeeded(first, second)} :
                                  MayBeThere(first, x) /\ MayBeThere(second, x)
    BY Zenon DEF OnCourseIsWarned
  <2>1. PICK v \in Approachers, w \in Approachers : v = first /\ w = second
    BY DEF BlindType
  <2>2. v.pace > 0 /\ w.pace > 0
    BY <2>1 DEF Approaching
  <2>3. PICK e, g, x, y : e = Eta(v) /\ g = Eta(w) /\ x = EtaDoubt(v) /\ y = EtaDoubt(w)
    OBVIOUS
  <2>4. /\ x \in Nat /\ x >= 5 /\ y \in Nat /\ y >= 5
        /\ e \in Nat /\ g \in Nat
    BY <2>2, <2>3, DoubtIsPositive, EtaType
  <2>5. OverlapNeeded \in Nat /\ ConfidenceFloor \in Nat
    BY BlindConstants, Zenon
  <2>6. PICK o, s, n : o = Overlap(v, w)
                       /\ s = (ConfidenceFloor * (x + y) + 99) \div 100
                       /\ n = StretchNeeded(v, w)
    OBVIOUS
  <2>7. o = MaxOf(0, MinOf(e + x, g + y) - MaxOf(MaxOf(0, e - x), MaxOf(0, g - y)))
    BY <2>3, <2>6, Zenon DEF Overlap, Latest, Earliest
  <2>8. o \in Nat /\ o <= x + y
    BY <2>4, <2>7 DEF MinOf, MaxOf
  <2>9. s \in Nat
    <3>1. ConfidenceFloor * (x + y) + 99 \in Nat
      BY <2>4, <2>5
    <3> QED
      BY <2>6, <3>1, QuotientIsNat
  <2>10. n = MaxOf(MaxOf(1, OverlapNeeded), s)
    BY <2>3, <2>6, Zenon DEF StretchNeeded
  <2>11. n \in Nat /\ n >= 1 /\ (o >= n <=> o >= 1 /\ o >= OverlapNeeded /\ o >= s)
    BY <2>5, <2>8, <2>9, <2>10 DEF MaxOf
  <2>12. Confidence(v, w) >= ConfidenceFloor <=> o >= s
    <3>1. Confidence(v, w) = MinOf(100, (100 * o) \div (x + y))
      BY <2>3, <2>6, Zenon DEF Confidence
    <3>2. x + y \in Nat \ {0}
      BY <2>4
    <3>3. PICK b : b = x + y
      OBVIOUS
    <3> QED
      BY <2>5, <2>6, <2>8, <3>1, <3>2, <3>3, ShareNeeded
  <2>13. JunctionWarns(v, w) <=> o >= n
    <3>1. o > 0 <=> o >= 1
      BY <2>8
    <3> QED
      BY <2>1, <2>6, <2>11, <2>12, <3>1, Zenon DEF JunctionWarns
  <2>14. ASSUME NEW t \in Nat
         PROVE  (\A z \in {t, t + n} : MayBeThere(v, z) /\ MayBeThere(w, z))
                <=> e - x <= t /\ t + n <= e + x /\ g - y <= t /\ t + n <= g + y
    BY <2>3, <2>4, <2>11 DEF MayBeThere
  <2>15. Latest(v) = e + x
    BY <2>3 DEF Latest
  <2>16. \A t \in 0 .. (e + x) : t \in Nat
    BY <2>4
  <2>17. (\E t \in 0 .. (e + x) : \A z \in {t, t + n} : MayBeThere(v, z) /\ MayBeThere(w, z))
         <=> o >= n
    <3>1. (\E t \in 0 .. (e + x) : e - x <= t /\ t + n <= e + x /\ g - y <= t /\ t + n <= g + y)
          <=> o >= n
      BY <2>4, <2>7, <2>11, CommonStretch
    <3> QED
      BY <2>14, <2>16, <3>1, Zenon
  <2> QED
    BY <2>1, <2>6, <2>13, <2>15, <2>17
<1> QED
  BY <1>1, BlindInductive, PTL
=============================================================================
