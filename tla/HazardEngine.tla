---------------------------- MODULE HazardEngine ----------------------------
(***************************************************************************)
(* The fusion engine of the safety detectors, which keeps a hazard map of  *)
(* its own: observations, positive and negative, are associated with a     *)
(* tracked hazard or start one, and decay passes age the map.              *)
(*                                                                         *)
(* Confidences and scores are thousandths, places metres along a road; a   *)
(* unit of time is short against the hour association scores fade over.    *)
(***************************************************************************)
EXTENDS Integers, FiniteSets, FiniteSetsExt, Functions

CONSTANTS Kinds,       \* types that are observed
          Points,      \* [spot, way], a place and the segment it is reported on
          Nowhere,     \* in place of a segment, when none is named
          Observers, Certainties,
          Lateness,      \* for how long an observation may be under way
          MatchRadius,   \* spatial_match_radius_m
          Promotion,     \* promotion_confidence
          SourceWeight,  \* max_source_weight, thousandths
          KeptPerUnit,   \* percent of the confidence a unit of time leaves
          StaleAfter,    \* stale_threshold_s
          Lives,         \* default_ttl_s
          MaxClock, MaxTracked, MaxReports \* bounds of the model

ASSUME EngineConstants ==
    /\ Kinds \subseteq {"DEBRIS", "ACCIDENT", "LANE_CLOSURE"}
    /\ \A p \in Points : p.spot \in Nat
    /\ MatchRadius \in Nat \ {0}
    /\ Certainties \subseteq 0..1000
    /\ {Promotion, SourceWeight} \subseteq 0..1000 /\ KeptPerUnit \in 0..100
    /\ Lives \in [Kinds -> Nat]
    /\ {StaleAfter, Lateness, MaxClock, MaxTracked, MaxReports} \subseteq Nat

VARIABLES
    clock,
    tracked,  \* the hazard map, by id
    minted    \* ids given out

engine == <<clock, tracked, minted>>

MatchThreshold == 500
MinConfidence == 10

Compatible(a, b) == a = b \/ {a, b} \in {{"DEBRIS", "ACCIDENT"}, {"ACCIDENT", "LANE_CLOSURE"}}
Temporary(kind) == kind \in {"DEBRIS", "ACCIDENT"}

Gap(a, b) == IF a < b THEN b - a ELSE a - b
Least(a, b) == IF a < b THEN a ELSE b
DownTo0(a) == IF a < 0 THEN 0 ELSE a

\* compute_association_score.
Score(o, h) ==
    IF Gap(o.place.spot, h.spot) > MatchRadius \/ ~Compatible(o.kind, h.kind) THEN 0
    ELSE Least(1000, (450 * (MatchRadius - Gap(o.place.spot, h.spot))) \div MatchRadius
                     + (IF o.kind = h.kind THEN 250 ELSE 175)
                     + 150 - Gap(o.at, h.last)
                     + (IF o.place.way = h.way /\ o.place.way # Nowhere THEN 150 ELSE 0)
                     + (IF o.by \in h.sources THEN 0 ELSE 100))

Candidates(o) == {h \in DOMAIN tracked : tracked[h].state # "EXPIRED" /\ Score(o, tracked[h]) > 0}
Best(o) == {h \in Candidates(o) :
               /\ Score(o, tracked[h]) >= MatchThreshold
               /\ \A g \in Candidates(o) : Score(o, tracked[g]) <= Score(o, tracked[h])}

\* _transition_state.
After(state, confidence) ==
    IF confidence < MinConfidence \/ state = "EXPIRED" THEN "EXPIRED"
    ELSE IF confidence >= Promotion THEN "VERIFIED"
    ELSE IF state = "VERIFIED" THEN "STALE" ELSE state

\* _recompute_confidence: the n-th report of a source weighs SourceWeight / n.
Raised(base, certainty, n) ==
    IF n = 1 THEN base + (certainty * (1000 - base)) \div 1000
    ELSE base + (certainty * SourceWeight * (1000 - base)) \div (1000000 * n)

\* _create_hazard, for negative observations too.
Minted(o) ==
    [kind |-> o.kind, spot |-> o.place.spot, way |-> o.place.way,
     confidence |-> o.certainty, first |-> o.at, last |-> o.at,
     sources |-> {o.by}, reports |-> [s \in Observers |-> IF s = o.by THEN 1 ELSE 0],
     evidence |-> 1, state |-> "CANDIDATE"]

\* _update_geometry: towards the new point, by at most a fifth of the way.
MovedTo(spot, new, confidence) == spot + (confidence * (new - spot)) \div 5000

Supported(h, o) ==
    LET n == h.reports[o.by] + 1
        c == Raised(h.confidence, o.certainty, n)
    IN  [h EXCEPT !.reports[o.by] = n, !.evidence = @ + 1, !.sources = @ \cup {o.by},
                  !.confidence = c, !.spot = MovedTo(@, o.place.spot, c),
                  !.way = IF o.place.way = Nowhere THEN @ ELSE o.place.way,
                  !.last = o.at, !.state = After(@, c)]

ContradictedOnly(h, o) ==
    [h EXCEPT !.reports[o.by] = @ + 1,
              !.confidence = DownTo0(@ - o.certainty \div (IF Temporary(h.kind) THEN 2 ELSE 4))]
\* _apply_negative_evidence: the report counts for its source all the same.
Contradicted(h, o) ==
    LET c == DownTo0(h.confidence - o.certainty \div (IF Temporary(h.kind) THEN 2 ELSE 4))
    IN  [h EXCEPT !.reports[o.by] = @ + 1, !.confidence = c, !.state = After(@, c)]

\* The last steps of _decay_single: staleness, expiry, and then the lifecycle
\* once more, which may verify what was just called stale.
Settled(h, c, dead, quiet) ==
    [h EXCEPT !.confidence = IF dead THEN 0 ELSE c,
              !.state = IF dead THEN "EXPIRED" ELSE After(IF quiet THEN "STALE" ELSE @, c)]

Faded(c, units) == (c * KeptPerUnit^units) \div 100^units

\* _decay_single.
Aged(h) ==
    LET gap == clock - h.last
        c == Faded(h.confidence, gap)
        dead == clock - h.first > Lives[h.kind] \/ c < MinConfidence
    IN  IF gap <= 0 \/ h.state = "EXPIRED" THEN h ELSE Settled(h, c, dead, gap >= StaleAfter)

\* Reports of the hazards in the map, which the model bounds.
Reports == MapThenSumSet(LAMBDA h : MapThenSumSet(LAMBDA s : tracked[h].reports[s], Observers), DOMAIN tracked)

EngineInit == clock = 0 /\ tracked = <<>> /\ minted = 0

\* process_observation.
Start(o) ==
    /\ minted < MaxTracked /\ Cardinality(DOMAIN tracked) < MaxTracked
    /\ Reports < MaxReports /\ Best(o) = {}
    /\ minted' = minted + 1
    /\ tracked' = [h \in DOMAIN tracked \cup {minted'} |-> IF h = minted' THEN Minted(o) ELSE tracked[h]]
    /\ UNCHANGED clock

Associate(o) ==
    Reports < MaxReports /\ \E h \in Best(o) :
       /\ tracked' = [tracked EXCEPT ![h] = IF o.negative THEN Contradicted(@, o) ELSE Supported(@, o)]
       /\ UNCHANGED <<clock, minted>>

\* decay_hazards: expired hazards are kept until twice their life is over.
Decay ==
    LET aged == [h \in DOMAIN tracked |-> Aged(tracked[h])]
        gone == {h \in DOMAIN aged : aged[h].state = "EXPIRED" /\ clock - aged[h].first > 2 * Lives[aged[h].kind]}
    IN  /\ tracked' = Restrict(aged, DOMAIN aged \ gone)
        /\ UNCHANGED <<clock, minted>>

Elapse ==
    /\ clock < MaxClock
    /\ clock' = clock + 1
    /\ UNCHANGED <<tracked, minted>>

\* One that comes late sets back when the hazard was last seen.
Sightings ==
    [kind : Kinds, place : Points, by : Observers, certainty : Certainties,
     at : (clock - Lateness) .. clock, negative : BOOLEAN]

EngineNext ==
    \/ \E o \in Sightings : Start(o) \/ Associate(o)
    \/ Decay
    \/ Elapse

EngineSpec == EngineInit /\ [][EngineNext]_engine
-----------------------------------------------------------------------------
\* A verified hazard is confident enough to be one and a hazard given up is not
\* believed in, after every mixture of reports, early and late, contradictions
\* and decay passes.
VerifiedIsConfident ==
    \A h \in DOMAIN tracked :
       /\ tracked[h].state = "VERIFIED" => tracked[h].confidence >= Promotion
       /\ tracked[h].state = "EXPIRED" => tracked[h].confidence < MinConfidence

\* What the documentation says and the code does not do.
\* "only truly independent sources can drive confidence toward 1.0".
OneSourceNeverVerifies ==
    \A h \in DOMAIN tracked : tracked[h].state = "VERIFIED" => Cardinality(tracked[h].sources) > 1
\* "Seconds without observation before marking STALE": a hazard that nobody has
\* reported for so long is not verified by a decay pass.
QuietIsStale ==
    [][Decay => \A h \in DOMAIN tracked' :
           clock - tracked[h].last >= StaleAfter => tracked'[h].state # "VERIFIED"]_engine
\* Negative evidence clears hazards: it never adds one to the map.
AbsenceAddsNothing ==
    [][\A o \in Sightings : o.negative /\ Start(o) => tracked' = tracked]_engine
=============================================================================
