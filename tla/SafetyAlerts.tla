---------------------------- MODULE SafetyAlerts ----------------------------
(***************************************************************************)
(* The alert prioritizer of the safety-detectors service, behind           *)
(* POST /v1/alerts/prioritize and PUT /v1/config.                          *)
(*                                                                         *)
(* A request carries risks and the caller's own copies of the alerts it    *)
(* believes active.  The handler evaluates the risks one by one and never  *)
(* awaits, so one evaluation runs alone: it is one step per affected actor *)
(* (CheckActor) and a last one (Issue), and nothing else is enabled        *)
(* between them.  The copies are read only: an alert displaced for one     *)
(* risk is still "active" in the list the next risk is judged by.  Any     *)
(* subset of the alerts ever returned is a list a caller may send.         *)
(*                                                                         *)
(* prioritize judges a whole batch at once.  It shares only the log of     *)
(* suppressions with evaluate_risk; what it shows is in no store, and a    *)
(* copy of it counts for evaluate_risk as one that was resolved.           *)
(*                                                                         *)
(* Scores are hundredths, times seconds, priorities 1/30000ths, so that    *)
(* the weighted sum of the code is an integer.                             *)
(***************************************************************************)
EXTENDS Integers, Sequences, FiniteSets

CONSTANTS Actors, Keys, Risks,
          KeyOf,       \* suppression key of a risk: type, actors and segment
          ActorsOf,    \* the actors of a key, in the order of the request
          TypeWeight,  \* vulnerability weight of an actor, in tenths
          SpeedOf,     \* speed of an actor, m/s
          Scores, Ttcs,
          CollisionRisks, \* risks of a type in _COLLISION_RISK_TYPES
          MaxConcurrent, SuppressionWindow, HysteresisThreshold,
          MaxTime, MaxIssued, MaxReinits, MaxRounds, \* bounds of the model
          None

\* The lists of the detectors name an actor once (wrong_way.py:129,
\* stalled_vehicle.py:147, the pairs of blind_intersection.py:160); a risk of a
\* client that names one twice, counted twice, is not modelled.
ASSUME AlertConstants ==
    /\ KeyOf \in [Risks -> Keys]
    /\ ActorsOf \in [Keys -> Seq(Actors)]
    /\ \A k \in Keys : \A i, j \in DOMAIN ActorsOf[k] :
          ActorsOf[k][i] = ActorsOf[k][j] => i = j
    /\ TypeWeight \in [Actors -> Nat]
    /\ SpeedOf \in [Actors -> Nat]
    /\ Scores \subseteq 0..100
    /\ None \notin Int
    /\ Ttcs \subseteq Nat \cup {None}
    /\ {MaxConcurrent, SuppressionWindow, HysteresisThreshold,
        MaxTime, MaxIssued, MaxReinits, MaxRounds} \subseteq Nat

VARIABLES
    now,       \* the clock
    sentAt,    \* _suppression_log: when a key last produced an alert
    scoreOf,   \* _risk_score_cache: the score a key was last evaluated with
    issued,    \* every alert ever returned; the index is the alert id
    store,     \* _alert_store: "active" or "resolved" by alert id
    counts,    \* _actor_alert_counts
    call,      \* the evaluation in progress, or None
    reinits,
    stale,     \* history: a displaced alert was no longer active here
    cache,     \* _active_cache: the score a risk of a batch was shown with
    shown,     \* level of the active alert the last batch with it showed
    round,     \* the batch in progress, or None
    rounds

single  == <<scoreOf, issued, store, counts, call, stale>>
batched == <<cache, shown, round, rounds>>
vars == <<now, sentAt, reinits, single, batched>>

Resting == call = None /\ round = None

Informational == 0
Advisory == 1
Warning == 2
Critical == 3
Levels == Informational..Critical

ActorSet(k) == {ActorsOf[k][i] : i \in DOMAIN ActorsOf[k]}

Clip(x, lo, hi) == IF x < lo THEN lo ELSE IF x > hi THEN hi ELSE x
Highest(S) == CHOOSE x \in S : \A y \in S : y <= x

TtcUrgency(ttc) == IF ttc = None THEN 0
                   ELSE IF ttc <= 0 THEN 0 ELSE 750 * Clip(10 - ttc, 0, 10)

Vulnerability(known) == 400 * Highest({10} \cup {TypeWeight[a] : a \in known})

\* How easily the affected actors can stop, in 1/6000ths.
BrakingFeasibility(known, ttc) ==
    IF ttc = None \/ known = {} THEN 3000
    ELSE LET speed == Highest({SpeedOf[a] : a \in known})
         IN  IF speed = 0 THEN 6000
             ELSE IF ttc <= 0 THEN 0
             ELSE Clip((42000 * ttc) \div speed - 3000, 0, 6000)

PriorityScore(known, score, ttc) ==
    Clip(105 * score + TtcUrgency(ttc) + Vulnerability(known)
           + 6000 - BrakingFeasibility(known, ttc), 0, 30000)

\* The level of a risk; known are the affected actors whose state the
\* request carries.
Level(known, score, ttc) ==
    LET p == PriorityScore(known, score, ttc)
    IN  IF p >= 24000 THEN Critical
        ELSE IF p >= 15000 THEN Warning
        ELSE IF p >= 6000 THEN Advisory ELSE Informational

SuppressedWhileActive(k) == /\ sentAt[k] # None /\ now - sentAt[k] < SuppressionWindow
                            /\ \E i \in DOMAIN store : issued[i].key = k /\ store[i] = "active"
Suppressed(k) == sentAt[k] # None /\ now - sentAt[k] < SuppressionWindow

Unchanging(k, score) ==
    /\ scoreOf[k] # None
    /\ score - scoreOf[k] < HysteresisThreshold
    /\ scoreOf[k] - score < HysteresisThreshold

IsActive(i) == i \in DOMAIN store /\ store[i] = "active"

Affects(i, a) == a \in ActorSet(issued[i].key)

\* _resolve_stored_alert: nothing happens unless the alert is active here.
Resolved(i) == IF IsActive(i) THEN [store EXCEPT ![i] = "resolved"] ELSE store
ReleasedBlindly(i) == [a \in Actors |-> IF Affects(i, a) THEN Clip(counts[a] - 1, 0, counts[a])
                                                            ELSE counts[a]]
ReleasedUnclipped(i) == [a \in Actors |-> IF Affects(i, a) THEN counts[a] - 1 ELSE counts[a]]
Released(i) ==
    IF IsActive(i)
    THEN [a \in Actors |-> IF Affects(i, a) THEN Clip(counts[a] - 1, 0, counts[a])
                                            ELSE counts[a]]
    ELSE counts

\* _find_lowest_alert_for_actor, among the caller's copies.
LowestFor(a, seen) ==
    {i \in seen : Affects(i, a)
        /\ \A j \in seen : Affects(j, a) => issued[i].level <= issued[j].level}
-----------------------------------------------------------------------------
Init ==
    /\ now = 0 /\ reinits = 0
    /\ sentAt = [k \in Keys |-> None]
    /\ scoreOf = [k \in Keys |-> None]
    /\ issued = <<>>
    /\ store = <<>>
    /\ counts = [a \in Actors |-> 0]
    /\ call = None
    /\ stale = FALSE
    /\ cache = [r \in Risks |-> None] /\ shown = [r \in Risks |-> None]
    /\ round = None /\ rounds = 0

\* evaluate_risk up to the concurrency check: a suppressed or unchanged risk
\* returns, any other is remembered by its score before anything else.
Evaluate(r, score, ttc, known, seen) ==
    /\ Resting
    /\ Len(issued) < MaxIssued
    /\ ~Suppressed(KeyOf[r])
    /\ ~Unchanging(KeyOf[r], score)
    /\ scoreOf' = [scoreOf EXCEPT ![KeyOf[r]] = score]
    /\ call' = [risk |-> r, score |-> score, seen |-> seen, next |-> 1, took |-> FALSE,
                level |-> Level(known \cap ActorSet(KeyOf[r]), score, ttc)]
    /\ UNCHANGED <<now, sentAt, issued, store, counts, reinits, stale, batched>>

Current == ActorsOf[KeyOf[call.risk]]

AtLimitTooLate(a) == counts[a] > MaxConcurrent
AtLimit(a) == counts[a] >= MaxConcurrent

\* call.took remembers whether this evaluation displaced an alert.
\* One round of the loop over the affected actors.
CheckActor ==
    /\ call # None
    /\ call.next <= Len(Current)
    /\ LET a == Current[call.next]
           lowest == LowestFor(a, call.seen)
       IN  \/ /\ ~AtLimit(a)
              /\ call' = [call EXCEPT !.next = @ + 1]
              /\ UNCHANGED <<store, counts, stale>>
           \/ /\ AtLimit(a)
              /\ \E i \in lowest :
                    /\ call.level > issued[i].level
                    /\ store' = Resolved(i)
                    /\ counts' = Released(i)
                    /\ stale' = (stale \/ ~IsActive(i))
                    /\ call' = [call EXCEPT !.next = @ + 1, !.took = @ \/ IsActive(i)]
           \/ /\ AtLimit(a)
              /\ \A i \in lowest : call.level <= issued[i].level
              /\ call' = None
              /\ UNCHANGED <<store, counts, stale>>
    /\ UNCHANGED <<now, sentAt, scoreOf, issued, reinits, batched>>

PreemptedAnyLevel(k, level, seen) ==
    {i \in seen : level = Critical /\ \E a \in ActorSet(k) : Affects(i, a)}
\* The caller's copies a critical alert resolves: _suppress_lower_priority.
Preempted(k, level, seen) ==
    {i \in seen : /\ level = Critical
                  /\ issued[i].level \in {Advisory, Informational}
                  /\ \E a \in ActorSet(k) : Affects(i, a)}

\* The alert is created, pre-empts, and is counted for every affected actor.
Issue ==
    /\ call # None
    /\ call.next > Len(Current)
    /\ LET k == KeyOf[call.risk]
           id == Len(issued) + 1
           gone == {i \in Preempted(k, call.level, call.seen) : IsActive(i)}
           freed(a) == Cardinality({i \in gone : Affects(i, a)})
       IN  /\ issued' = Append(issued, [risk |-> call.risk, key |-> k, at |-> now,
                                        level |-> call.level, score |-> call.score])
           /\ store' = [i \in DOMAIN store \cup {id} |->
                          IF i = id THEN "active"
                          ELSE IF i \in gone THEN "resolved" ELSE store[i]]
           /\ counts' = [a \in Actors |-> Clip(counts[a] - freed(a), 0, counts[a])
                                            + (IF a \in ActorSet(k) THEN 1 ELSE 0)]
           /\ sentAt' = [sentAt EXCEPT ![k] = now]
    /\ call' = None
    /\ UNCHANGED <<now, scoreOf, reinits, stale, batched>>

\* resolve_risk: the first active alert of the risk.
ResolveRisk(r) ==
    /\ Resting
    /\ \E i \in DOMAIN store :
          /\ IsActive(i) /\ issued[i].risk = r
          /\ \A j \in DOMAIN store : IsActive(j) /\ issued[j].risk = r => i <= j
          /\ store' = Resolved(i)
          /\ counts' = Released(i)
    /\ UNCHANGED <<now, sentAt, scoreOf, issued, call, reinits, stale, batched>>

\* PUT /v1/config builds a new prioritizer; the callers keep their copies.
Reinitialise ==
    /\ Resting
    /\ reinits < MaxReinits
    /\ reinits' = reinits + 1
    /\ sentAt' = [k \in Keys |-> None]
    /\ scoreOf' = [k \in Keys |-> None]
    /\ store' = <<>>
    /\ counts' = [a \in Actors |-> 0]
    /\ cache' = [r \in Risks |-> None]
    /\ UNCHANGED <<now, issued, call, stale, shown, round, rounds>>

Tick ==
    /\ Resting
    /\ now < MaxTime
    /\ now' = now + 1
    /\ UNCHANGED <<sentAt, reinits, single, batched>>

-----------------------------------------------------------------------------
(* prioritize: the risks one by one, then those that are gone, pre-emption, *)
(* and the limit, active alerts of a high level first.  The list of the     *)
(* caller holds any of the alerts that it was last shown as active.         *)

BeginRound(held) ==
    /\ Resting
    /\ rounds < MaxRounds
    /\ rounds' = rounds + 1
    /\ round' = [stage |-> "risks", held |-> held, seen |-> {}, left |-> {},
                 out |-> [r \in Risks |-> None]]
    /\ UNCHANGED <<now, sentAt, reinits, single, cache, shown>>

Shows(level, status) == [level |-> level, status |-> status]

\* A risk of the batch is looked at; what is returned for it, if anything.
Takes(r, alert) ==
    /\ round # None /\ round.stage = "risks" /\ r \notin round.seen
    /\ round' = [round EXCEPT !.seen = @ \cup {r}, !.out[r] = alert]
    /\ UNCHANGED <<now, reinits, single, shown, rounds>>

\* A suppressed risk is not returned, though it is neither gone nor resolved.
PassOver(r) ==
    /\ Takes(r, None)
    /\ Suppressed(KeyOf[r])
    /\ UNCHANGED <<sentAt, cache>>

Steady(r, score) ==
    /\ r \in round.held /\ cache[r] # None
    /\ score - cache[r] < HysteresisThreshold /\ cache[r] - score < HysteresisThreshold

KeepAlert(r, score) ==
    /\ Takes(r, Shows(shown[r], "active"))
    /\ ~Suppressed(KeyOf[r]) /\ Steady(r, score)
    /\ UNCHANGED <<sentAt, cache>>

\* A new alert, or a new version of the caller's.
ShowAlert(r, score, ttc, known) ==
    /\ Takes(r, Shows(Level(known \cap ActorSet(KeyOf[r]), score, ttc), "active"))
    /\ ~Suppressed(KeyOf[r]) /\ ~Steady(r, score)
    /\ cache' = [cache EXCEPT ![r] = score]
    /\ sentAt' = [sentAt EXCEPT ![KeyOf[r]] = now]

Shared(r, q) == ActorSet(KeyOf[r]) \cap ActorSet(KeyOf[q]) # {}

Showing(out) == {r \in Risks : out[r] # None /\ out[r].status = "active"}

\* _apply_preemption: what is below a warning, resolved or not, is suppressed
\* for the actors a critical collision alert covers.
Preempting(out) ==
    LET covers(q) == q \in CollisionRisks /\ out[q].level = Critical
    IN  [r \in Risks |->
           IF /\ out[r] # None /\ out[r].level \in {Advisory, Informational}
              /\ \E q \in Showing(out) : covers(q) /\ Shared(r, q)
           THEN Shows(out[r].level, "suppressed") ELSE out[r]]

Pruned == [k \in Keys |-> IF sentAt[k] # None /\ now - sentAt[k] > 2 * SuppressionWindow
                          THEN None ELSE sentAt[k]]

ResolveGone ==
    /\ round # None /\ round.stage = "risks"
    /\ LET gone == round.held \ round.seen
           out  == Preempting([r \in Risks |-> IF r \in gone THEN Shows(shown[r], "resolved")
                                                             ELSE round.out[r]])
       IN  /\ round' = [round EXCEPT !.stage = "limit", !.out = out, !.left = Showing(out)]
           /\ cache' = [r \in Risks |-> IF r \in gone THEN None ELSE cache[r]]
    /\ sentAt' = Pruned
    /\ UNCHANGED <<now, reinits, single, shown, rounds>>

AnyFirst(r) == r \in round.left               \* variant: in no order
\* The next one in the order of _alert_sort_key, in which risks of a level
\* may come in any order.
First(r) == r \in round.left /\ \A q \in round.left : round.out[q].level <= round.out[r].level

\* _enforce_max_concurrent: the alerts that were let pass so far.
Passed == Showing(round.out) \ round.left
OverLimit(r) == \E a \in ActorSet(KeyOf[r]) :
                   Cardinality({q \in Passed : a \in ActorSet(KeyOf[q])}) >= MaxConcurrent

Enforce(r) ==
    /\ round # None /\ round.stage = "limit" /\ First(r)
    /\ round' = [round EXCEPT !.left = @ \ {r},
                              !.out[r].status = IF OverLimit(r) THEN "suppressed" ELSE @]
    /\ UNCHANGED <<now, sentAt, reinits, single, cache, shown, rounds>>

\* Of what is not returned the caller keeps what it has.
ReturnRound ==
    /\ round # None /\ round.stage = "limit" /\ round.left = {}
    /\ shown' = [r \in Risks |-> IF round.out[r] = None THEN shown[r]
                                 ELSE IF r \in Showing(round.out) THEN round.out[r].level
                                 ELSE None]
    /\ round' = None
    /\ UNCHANGED <<now, sentAt, reinits, single, cache, rounds>>

Prioritize ==
    \/ \E held \in SUBSET {r \in Risks : shown[r] # None} : BeginRound(held)
    \/ \E r \in Risks : PassOver(r) \/ Enforce(r)
    \/ \E r \in Risks, score \in Scores : KeepAlert(r, score)
    \/ \E r \in Risks, score \in Scores, ttc \in Ttcs, known \in {{}, Actors} :
          ShowAlert(r, score, ttc, known)
    \/ ResolveGone
    \/ ReturnRound

-----------------------------------------------------------------------------
Next ==
    \/ \E r \in Risks, score \in Scores, ttc \in Ttcs, known \in {{}, Actors},
          seen \in SUBSET DOMAIN issued : Evaluate(r, score, ttc, known, seen)
    \/ CheckActor
    \/ Issue
    \/ \E r \in Risks : ResolveRisk(r)
    \/ Reinitialise
    \/ Tick
    \/ Prioritize

Spec == Init /\ [][Next]_vars
-----------------------------------------------------------------------------
Calls == [risk : Risks, score : Scores, seen : SUBSET (1..MaxIssued),
          next : Nat \ {0}, level : Levels, took : BOOLEAN]

Alerts == [risk : Risks, key : Keys, at : Nat, level : Levels, score : Scores]

Showings == [level : Levels, status : {"active", "suppressed", "resolved"}]

Rounds == [stage : {"risks", "limit"}, held : SUBSET Risks, seen : SUBSET Risks,
            left : SUBSET Risks, out : [Risks -> Showings \cup {None}]]

\* Types of the prioritizer's caches, its alert store and the evaluation in
\* progress; the store only knows alerts that were returned to a caller.
TypeOK ==
    /\ now \in Nat /\ reinits \in Nat /\ stale \in BOOLEAN
    /\ sentAt \in [Keys -> Nat \cup {None}]
    /\ scoreOf \in [Keys -> Scores \cup {None}]
    /\ issued \in Seq(Alerts)
    /\ Len(issued) <= MaxIssued
    /\ store \in [DOMAIN store -> {"active", "resolved"}]
    /\ DOMAIN store \subseteq DOMAIN issued
    /\ counts \in [Actors -> Nat]
    /\ call \in Calls \cup {None}
    /\ call # None => call.seen \subseteq DOMAIN issued
    /\ cache \in [Risks -> Scores \cup {None}] /\ shown \in [Risks -> Levels \cup {None}]
    /\ round \in Rounds \cup {None} /\ rounds \in Nat

ActiveFor(a) == {i \in DOMAIN store : IsActive(i) /\ Affects(i, a)}

\* The counter the concurrency limit reads is the number of active alerts of
\* the actor: displacing, pre-empting, resolving and issuing alerts, in any
\* order and from copies however old, never make the two disagree.
CountsMatchStore == \A a \in Actors : counts[a] = Cardinality(ActiveFor(a))

\* An actor never has more active alerts than the limit, as long as no risk
\* was admitted by displacing an alert that had been resolved already: the
\* loop over the affected actors frees one place for each actor at its limit.
LimitHeld == ~stale => \A a \in Actors : counts[a] <= MaxConcurrent

\* A critical collision alert shares an actor with the alert of r in a batch.
Outranked(r) == \E q \in CollisionRisks : round.out[q] # None /\ round.out[q].level = Critical /\ Shared(r, q)

\* Alerts of the batch at least as high as that of r take all places of a.
Crowded(r, a) ==
    Cardinality({q \in Passed : /\ a \in ActorSet(KeyOf[q])
                                /\ round.out[q].level >= round.out[r].level}) >= MaxConcurrent

\* An evaluation takes an alert away only for a risk of a higher level, and a
\* batch holds an active alert back only when a critical collision covers one
\* of its actors or alerts at least as high leave one of them no place.
DisplacedByHigher ==
    [][/\ call # None =>
          \A i \in DOMAIN store :
             (IsActive(i) /\ store'[i] = "resolved") => call.level > issued[i].level
       /\ round # None /\ round' # None =>
          \A r \in Showing(round.out) \ Showing(round'.out) :
             Outranked(r)' \/ \E a \in ActorSet(KeyOf[r]) : Crowded(r, a)]_vars

\* Two alerts of one suppression key are a suppression window apart, also
\* when the first was displaced or resolved in between.
RepeatsSpaced ==
    \A i, j \in DOMAIN store :
       (i < j /\ issued[i].key = issued[j].key)
          => issued[j].at - issued[i].at >= SuppressionWindow

\* What the documentation says and the code does not do.
\* "Maximum active alerts per actor at once" (safety_policies/config.py): the
\* second risk of a request displaces the alert the first one displaced.
LimitAlways == \A a \in Actors : counts[a] <= MaxConcurrent

\* A risk refused for one of its actors takes no alert from another.
NothingDisplacedInVain ==
    [][(call # None /\ call' = None /\ issued' = issued) => ~call.took]_vars

\* A key whose risks are held back by hysteresis has produced an alert: the
\* score is remembered before the risk is refused, and a risk that was
\* refused stays silent when there is room again.
MutedOnlyAfterAlert ==
    call = None => \A k \in Keys : scoreOf[k] # None =>
                        \E i \in DOMAIN store : issued[i].key = k
=============================================================================
