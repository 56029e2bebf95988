---------------------------- MODULE HazardFusion ----------------------------
(***************************************************************************)
(* The hazard service: observations are fused into hazards found through a *)
(* spatial index, negative evidence and lifecycle sweeps take confidence   *)
(* away, and expired hazards move to an archive.                           *)
(*                                                                         *)
(* Places are metres along an east-west road, confidences thousandths, and *)
(* the unit of time is the half life of a confidence, one hour.  Every     *)
(* handler runs without awaiting, so each is one step.  Observations may   *)
(* arrive late: observed_at is any time up to the clock.                   *)
(***************************************************************************)
EXTENDS Integers, FiniteSets, Functions

CONSTANTS Reported,  \* the types that are reported
          Places, Sources, Segments, Confidences, Radii,
          AssociationRadius,  \* metres
          CellMetres,         \* width of an index cell on the ground
          NominalCell,        \* width of a cell the query computes with
          MaxTime, MaxHazards, MaxEvidence, MaxContradictions, \* bounds of the model
          None

ASSUME HazardConstants ==
    /\ Reported \subseteq {"POTHOLE", "BUMP", "DEBRIS"}
    /\ Places \subseteq Nat
    /\ Confidences \subseteq 0..1000
    /\ Radii \subseteq Nat \ {0}
    /\ {CellMetres, NominalCell, AssociationRadius} \subseteq Nat \ {0}
    /\ {MaxTime, MaxHazards, MaxEvidence, MaxContradictions} \subseteq Nat
    /\ None \notin Segments

VARIABLES
    now,
    hazards,  \* the active hazards, by id
    cellOf,   \* the spatial index: the cell each id is filed under
    archive,  \* expired_archive
    history   \* observation_history: observations per id, never pruned

vars == <<now, hazards, cellOf, archive, history>>

\* Two types that may be fused with one another, and one that lives an hour.
HazardTypes == {"POTHOLE", "BUMP", "DEBRIS"}
Ttl(type) == CASE type = "POTHOLE" -> 24 [] type = "BUMP" -> 168 [] type = "DEBRIS" -> 1

\* Tenths.
Compatibility(a, b) == IF a = b THEN 10
                       ELSE IF {a, b} = {"POTHOLE", "BUMP"} THEN 6 ELSE 0

VerificationSources == 2
StaleBelow == 300
ExpireBelow == 100
MinAssociation == 3000  \* of 10000
MaxGap == 2             \* 7200 s

Minus(a, b) == IF a < b THEN 0 ELSE a - b
Distance(p, q) == IF p < q THEN q - p ELSE p - q
Cell(p) == p \div CellMetres

\* Cells on either side a query of radius r looks at.
SpanOwnCell(r) == (r + NominalCell - 1) \div NominalCell - 1
Span(r) == LET n == (r + NominalCell - 1) \div NominalCell IN IF n < 1 THEN 1 ELSE n

\* query_nearby: only the ids filed under a cell in reach are measured.
Nearby(p, r) == {h \in DOMAIN cellOf :
                    /\ Distance(cellOf[h], Cell(p)) <= Span(r)
                    /\ Distance(p, hazards[h].place) <= r}

SegmentsAgree(s, t) == s = None \/ t = None \/ s = t

\* _association_score in 1/10000ths.
Association(h, o) ==
    IF SegmentsAgree(h.segment, o.segment)
    THEN (Minus(AssociationRadius, Distance(h.place, o.place)) * 10000 * Compatibility(h.type, o.type)
            * Minus(MaxGap, Distance(o.at, h.last)) * (IF o.source \in h.sources THEN 7 ELSE 10))
         \div (AssociationRadius * 100 * MaxGap)
    ELSE 0

BestMatches(o) ==
    LET near == Nearby(o.place, AssociationRadius)
    IN  {h \in near : /\ Association(hazards[h], o) >= MinAssociation
                      /\ \A g \in near : Association(hazards[g], o) <= Association(hazards[h], o)}

\* Independent evidence multiplies the doubt that is left, a repeated source
\* takes a twentieth of it.
Fused(c, d, independent) ==
    IF independent THEN 1000 - ((1000 - c) * (2000 - d)) \div 2000
                   ELSE c + (d * (1000 - c)) \div 20000

MergedOnRepeat(h, o) ==
    [h EXCEPT !.last = IF o.at > @ THEN o.at ELSE @,
              !.evidence = @ + 1,
              !.sources = @ \cup {o.source},
              !.state = IF @ = "CANDIDATE" /\ h.evidence + 1 >= VerificationSources
                        THEN "VERIFIED" ELSE @]
Merged(h, o) ==
    LET sources == h.sources \cup {o.source}
    IN  [h EXCEPT !.place = (h.place * h.evidence + o.place) \div (h.evidence + 1),
                  !.last = IF o.at > @ THEN o.at ELSE @,
                  !.sources = sources,
                  !.evidence = @ + 1,
                  !.confidence = Fused(@, o.confidence, o.source \notin h.sources),
                  !.segment = IF @ = None THEN o.segment ELSE @,
                  !.state = IF @ = "CANDIDATE" /\ Cardinality(sources) >= VerificationSources
                            THEN "VERIFIED" ELSE @]

Candidate(o) ==
    [type |-> o.type, place |-> o.place, segment |-> o.segment, first |-> o.at, last |-> o.at,
     sources |-> {o.source}, evidence |-> 1, confidence |-> o.confidence \div 2,
     contradictions |-> 0, state |-> "CANDIDATE"]

RefileOnce(c, h, p) == [g \in DOMAIN c \cup {h} |-> IF g \in DOMAIN c THEN c[g] ELSE Cell(p)]
\* insert: the id leaves the cell it was filed under.
Refile(c, h, p) == [g \in DOMAIN c \cup {h} |-> IF g = h THEN Cell(p) ELSE c[g]]

Weakened(h) ==
    LET c == h.confidence - h.confidence \div 5
    IN  [h EXCEPT !.confidence = c,
                  !.contradictions = @ + 1,
                  !.state = IF c < ExpireBelow THEN "EXPIRED"
                            ELSE IF c < StaleBelow THEN "STALE" ELSE @]

Decayed(h) ==
    LET c == h.confidence \div 2^Minus(now, h.last)
    IN  [h EXCEPT !.confidence = c,
                  !.state = IF Minus(now, h.first) > Ttl(h.type) \/ c < ExpireBelow THEN "EXPIRED"
                            ELSE IF c < StaleBelow THEN "STALE" ELSE @]

\* _remove_from_grid, of each of them.
Unfiled(c, gone) == Restrict(c, DOMAIN c \ gone)

\* Hazards are replaced by their new versions; those that expired leave the
\* store and the index for the archive.
FileAway(new) ==
    LET gone == {h \in DOMAIN new : new[h].state = "EXPIRED"}
    IN  /\ hazards' = Restrict(new, DOMAIN new \ gone)
        /\ cellOf' = Unfiled(cellOf, gone)
        /\ archive' = archive \cup gone
-----------------------------------------------------------------------------
Init ==
    /\ now = 0
    /\ hazards = <<>> /\ cellOf = <<>>
    /\ archive = {} /\ history = <<>>

Observations == [type : Reported, place : Places, segment : Segments \cup {None},
                 source : Sources, confidence : Confidences, at : 0..now]

\* POST /v1/ingest/hazard-observation that finds no match.
IngestNew(o) ==
    LET id == Cardinality(DOMAIN history) + 1
    IN  /\ id <= MaxHazards
        /\ BestMatches(o) = {}
        /\ hazards' = [h \in DOMAIN hazards \cup {id} |-> IF h = id THEN Candidate(o) ELSE hazards[h]]
        /\ cellOf' = Refile(cellOf, id, o.place)
        /\ history' = [h \in DOMAIN history \cup {id} |-> IF h = id THEN 1 ELSE history[h]]
        /\ UNCHANGED <<now, archive>>

\* The observation is merged into the best match, which is filed again.
IngestMatch(o) ==
    \E h \in DOMAIN hazards :
       /\ hazards[h].evidence < MaxEvidence
       /\ h \in BestMatches(o)
       /\ hazards' = [hazards EXCEPT ![h] = Merged(@, o)]
       /\ cellOf' = Refile(cellOf, h, Merged(hazards[h], o).place)
       /\ history' = [history EXCEPT ![h] = @ + 1]
       /\ UNCHANGED <<now, archive>>

Ingest(o) == IngestNew(o) \/ IngestMatch(o)

\* POST /v1/hazards/{id}/negative-evidence: the id in the path is not read,
\* every hazard of the type within the radius of the place loses a fifth.
NegativeEvidence(type, p, r) ==
    LET hit == {h \in Nearby(p, r) : hazards[h].type = type}
    IN  /\ hit # {}
        /\ \A h \in hit : hazards[h].contradictions < MaxContradictions
        /\ FileAway([h \in DOMAIN hazards |-> IF h \in hit THEN Weakened(hazards[h]) ELSE hazards[h]])
        /\ UNCHANGED <<now, history>>

\* HazardLifecycleManager.sweep.
Sweep ==
    /\ hazards # <<>>
    /\ FileAway([h \in DOMAIN hazards |-> Decayed(hazards[h])])
    /\ UNCHANGED <<now, history>>

Tick ==
    /\ now < MaxTime
    /\ now' = now + 1
    /\ UNCHANGED <<hazards, cellOf, archive, history>>

Next ==
    \/ \E o \in Observations : Ingest(o)
    \/ \E type \in Reported, p \in Places, r \in Radii : NegativeEvidence(type, p, r)
    \/ Sweep
    \/ Tick

Spec == Init /\ [][Next]_vars
-----------------------------------------------------------------------------
HazardRecords ==
    [type : HazardTypes, place : Nat, segment : Segments \cup {None}, first : Nat, last : Nat,
     sources : SUBSET Sources, evidence : Nat \ {0}, confidence : 0..1000,
     contradictions : Nat,
     state : {"CANDIDATE", "VERIFIED", "STALE"}]

\* Types of the store, the index, the archive and the history; an expired
\* hazard is never in the store.
TypeOK ==
    /\ now \in Nat
    /\ hazards \in [DOMAIN hazards -> HazardRecords]
    /\ cellOf \in [DOMAIN cellOf -> Nat]
    /\ history \in [DOMAIN history -> Nat]
    /\ archive \subseteq DOMAIN history

\* Store, index and archive agree: every hazard ever created is either active,
\* indexed and filed under the cell it has moved to, or archived and in
\* neither, so that a query of the index is a query of the store.
IndexAgrees ==
    /\ DOMAIN cellOf = DOMAIN hazards
    /\ \A h \in DOMAIN hazards : cellOf[h] = Cell(hazards[h].place)
    /\ DOMAIN hazards \cap archive = {}
    /\ DOMAIN hazards \cup archive = DOMAIN history

\* A verified hazard was reported by two sources, and one that two sources
\* reported is not a mere candidate, whatever was merged, moved, weakened or
\* swept in between; the evidence counted is the evidence remembered.
PromotionExact ==
    \A h \in DOMAIN hazards :
       LET n == Cardinality(hazards[h].sources)
       IN  /\ hazards[h].state = "VERIFIED" => n >= VerificationSources
           /\ hazards[h].state = "CANDIDATE" => n < VerificationSources
           /\ hazards[h].evidence = history[h]

\* The index answers a query completely: an active hazard within the radius
\* of a place is found from there, on either side of a cell boundary and
\* however far merging has moved it.
QueryComplete ==
    \A p \in Places, r \in Radii :
       {h \in DOMAIN hazards : Distance(p, hazards[h].place) <= r} \subseteq Nearby(p, r)

\* What the documentation says and the code does not do.
\* "Confidence halves every half_life seconds of inactivity" (lifecycle.py):
\* each sweep applies the whole decay since the last report again.
HalvesPerHalfLife ==
    \A h \in DOMAIN hazards :
       LET swept == Decayed(hazards[h])
       IN  swept.state # "EXPIRED" => Decayed(swept) = swept
=============================================================================
