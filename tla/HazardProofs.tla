----------------------------- MODULE HazardProofs -----------------------------
(***************************************************************************)
(* Proofs about the two hazard maps, for any places, sources, confidences  *)
(* and times: about the service's store and index (HazardFusion) and about *)
(* the map of the safety detectors (HazardEngine).                         *)
(*                                                                         *)
(* Of the records only what the invariants read is typed (Shaped): the     *)
(* decay of a confidence is a power of two, of which the provers know      *)
(* nothing, and nothing here depends on its value.                         *)
(***************************************************************************)
EXTENDS HazardFusion, HazardEngine, FiniteSetTheorems, TLAPS

(* The store and its spatial index.                                         *)

\* A hazard has the fields that matter here, and was reported by finitely many.
Shaped(h) ==
    /\ {"place", "state", "sources", "evidence", "confidence", "last", "segment",
        "contradictions"} \subseteq DOMAIN h
    /\ IsFiniteSet(h.sources)
    /\ h.state # "EXPIRED"

\* Ids are given out one after the other.
HistoryDense == \E n \in Nat : DOMAIN history = 1 .. n

IInv ==
    /\ \A h \in DOMAIN hazards : Shaped(hazards[h])
    /\ HistoryDense
    /\ IndexAgrees
    /\ PromotionExact

\* What a hazard is promoted by: the third of the parts of PromotionExact.
Promoted(h, n) ==
    /\ h.state = "VERIFIED" => Cardinality(h.sources) >= VerificationSources
    /\ h.state = "CANDIDATE" => Cardinality(h.sources) < VerificationSources
    /\ h.evidence = n

LEMMA PromotionPerHazard ==
    PromotionExact <=> \A h \in DOMAIN hazards : Promoted(hazards[h], history[h])
BY DEF PromotionExact, Promoted

LEMMA CandidateShaped ==
    ASSUME NEW o
    PROVE  Shaped(Candidate(o)) /\ Promoted(Candidate(o), 1) /\ Candidate(o).place = o.place
<1>1. IsFiniteSet({o.source}) /\ Cardinality({o.source}) = 1
  BY FS_Singleton
<1> QED BY <1>1 DEF Candidate, Shaped, Promoted, VerificationSources

\* Merging counts one report more, and verifies with the second source.
LEMMA MergedShaped ==
    ASSUME NEW h, NEW o, NEW n, Shaped(h), Promoted(h, n)
    PROVE  Shaped(Merged(h, o)) /\ Promoted(Merged(h, o), n + 1)
<1> DEFINE sources == h.sources \cup {o.source}
<1>1. /\ IsFiniteSet(sources)
      /\ Cardinality(sources) \in Nat /\ Cardinality(h.sources) \in Nat
      /\ Cardinality(h.sources) <= Cardinality(sources)
  <2>1. IsFiniteSet(sources)
    BY FS_AddElement DEF Shaped
  <2>2. h.sources \in SUBSET sources
    OBVIOUS
  <2> QED BY <2>1, <2>2, FS_Subset, FS_CardinalityType
<1> DEFINE m == Merged(h, o)
<1>2. /\ DOMAIN m = DOMAIN h
      /\ m.sources = sources
      /\ m.evidence = h.evidence + 1
      /\ m.state = IF h.state = "CANDIDATE" /\ Cardinality(sources) >= VerificationSources
                   THEN "VERIFIED" ELSE h.state
  BY DEF Merged, Shaped
<1> HIDE DEF m, sources
<1>3. Shaped(m)
  BY <1>1, <1>2 DEF Shaped
<1>4. Promoted(m, n + 1)
  BY <1>1, <1>2 DEF Promoted, VerificationSources
<1> QED BY <1>3, <1>4 DEF m

\* What takes confidence away leaves place, sources and evidence alone, and
\* promotes nothing.
Lessened(new, h) ==
    /\ DOMAIN new = DOMAIN h
    /\ new.place = h.place /\ new.sources = h.sources /\ new.evidence = h.evidence
    /\ new.state \in {h.state, "STALE", "EXPIRED"}

LEMMA WeakenedLessens == ASSUME NEW h, Shaped(h) PROVE Lessened(Weakened(h), h)
BY DEF Weakened, Shaped, Lessened

LEMMA DecayedLessens == ASSUME NEW h, Shaped(h) PROVE Lessened(Decayed(h), h)
BY DEF Decayed, Shaped, Lessened

LEMMA InitIInv == Init => IInv
<1> SUFFICES ASSUME Init PROVE IInv
  OBVIOUS
<1>1. DOMAIN hazards = {} /\ DOMAIN cellOf = {} /\ DOMAIN history = {} /\ archive = {}
  BY DEF Init
<1>2. DOMAIN history = 1 .. 0
  BY <1>1
<1> QED BY <1>1, <1>2 DEF IInv, HistoryDense, IndexAgrees, PromotionExact

LEMMA IngestNewIInv == ASSUME IInv, NEW o, IngestNew(o) PROVE IInv'
<1> DEFINE id == Cardinality(DOMAIN history) + 1
<1>1. PICK n \in Nat : DOMAIN history = 1 .. n
  BY DEF IInv, HistoryDense
<1>2. id = n + 1
  <2>1. Cardinality(1 .. n) = n
    BY FS_Interval
  <2> QED BY <1>1, <2>1
<1>3. /\ hazards' = [h \in DOMAIN hazards \cup {id} |-> IF h = id THEN Candidate(o) ELSE hazards[h]]
      /\ cellOf' = [g \in DOMAIN cellOf \cup {id} |-> IF g = id THEN Cell(o.place) ELSE cellOf[g]]
      /\ history' = [h \in DOMAIN history \cup {id} |-> IF h = id THEN 1 ELSE history[h]]
      /\ archive' = archive
  BY DEF IngestNew, Refile
<1> HIDE DEF id
<1>4. id \notin DOMAIN history /\ DOMAIN history' = 1 .. (n + 1)
  BY <1>1, <1>2, <1>3
<1>5. HistoryDense'
  BY <1>4 DEF HistoryDense
<1>6. id \notin DOMAIN hazards /\ id \notin archive
  BY <1>4 DEF IInv, IndexAgrees
<1>7. \A h \in DOMAIN hazards : Shaped(hazards[h]) /\ Promoted(hazards[h], history[h])
  BY PromotionPerHazard DEF IInv
<1>8. \A h \in DOMAIN hazards' : Shaped(hazards'[h]) /\ Promoted(hazards'[h], history'[h])
  <2> TAKE h \in DOMAIN hazards'
  <2>1. CASE h = id
    BY <1>3, <2>1, CandidateShaped
  <2>2. CASE h # id
    <3>1. h \in DOMAIN hazards /\ h \in DOMAIN history
      BY <1>3, <2>2 DEF IInv, IndexAgrees
    <3>2. hazards'[h] = hazards[h] /\ history'[h] = history[h]
      BY <1>3, <2>2, <3>1
    <3> QED BY <1>7, <3>1, <3>2
  <2> QED BY <2>1, <2>2
<1>9. IndexAgrees'
  <2>1. /\ DOMAIN cellOf = DOMAIN hazards
        /\ \A h \in DOMAIN hazards : cellOf[h] = Cell(hazards[h].place)
        /\ DOMAIN hazards \cap archive = {}
        /\ DOMAIN hazards \cup archive = DOMAIN history
    BY DEF IInv, IndexAgrees
  <2>2. \A h \in DOMAIN hazards' : cellOf'[h] = Cell(hazards'[h].place)
    BY <1>3, <2>1, CandidateShaped
  <2>3. /\ DOMAIN cellOf' = DOMAIN hazards'
        /\ DOMAIN hazards' \cap archive' = {}
        /\ DOMAIN hazards' \cup archive' = DOMAIN history'
    BY <1>3, <1>6, <2>1
  <2> QED BY <2>2, <2>3 DEF IndexAgrees
<1>10. PromotionExact'
  BY <1>8 DEF PromotionExact, Promoted
<1> QED BY <1>5, <1>8, <1>9, <1>10 DEF IInv

LEMMA IngestMatchIInv == ASSUME IInv, NEW o, IngestMatch(o) PROVE IInv'
<1>1. PICK h \in BestMatches(o) :
          /\ hazards' = [hazards EXCEPT ![h] = Merged(@, o)]
          /\ cellOf' = Refile(cellOf, h, Merged(hazards[h], o).place)
          /\ history' = [history EXCEPT ![h] = @ + 1]
          /\ UNCHANGED <<now, archive>>
  BY DEF IngestMatch
<1>2. /\ DOMAIN cellOf = DOMAIN hazards
      /\ \A g \in DOMAIN hazards : cellOf[g] = Cell(hazards[g].place)
      /\ DOMAIN hazards \cap archive = {}
      /\ DOMAIN hazards \cup archive = DOMAIN history
  BY DEF IInv, IndexAgrees
<1>3. h \in DOMAIN hazards /\ h \in DOMAIN history
  BY <1>2 DEF BestMatches, Nearby
<1> DEFINE merged == Merged(hazards[h], o)
<1>4. /\ DOMAIN hazards' = DOMAIN hazards /\ DOMAIN history' = DOMAIN history
      /\ hazards'[h] = merged /\ history'[h] = history[h] + 1
      /\ \A g \in DOMAIN hazards \ {h} : hazards'[g] = hazards[g] /\ history'[g] = history[g]
      /\ cellOf' = [g \in DOMAIN hazards |-> IF g = h THEN Cell(merged.place) ELSE cellOf[g]]
  BY <1>1, <1>2, <1>3 DEF Refile
<1>5. Shaped(merged) /\ Promoted(merged, history[h] + 1)
  BY <1>3, MergedShaped, PromotionPerHazard DEF IInv
<1> HIDE DEF merged
<1>6. \A g \in DOMAIN hazards' : Shaped(hazards'[g]) /\ Promoted(hazards'[g], history'[g])
  BY <1>4, <1>5, PromotionPerHazard DEF IInv
<1>7. HistoryDense'
  BY <1>4 DEF IInv, HistoryDense
<1>8. IndexAgrees'
  BY <1>1, <1>2, <1>4 DEF IndexAgrees
<1>9. PromotionExact'
  BY <1>6 DEF PromotionExact, Promoted
<1> QED BY <1>6, <1>7, <1>8, <1>9 DEF IInv

\* Negative evidence and sweeps: the expired leave store and index together.
LEMMA FileAwayIInv ==
    ASSUME IInv, NEW new, DOMAIN new = DOMAIN hazards,
           \A h \in DOMAIN hazards : Lessened(new[h], hazards[h]),
           FileAway(new), UNCHANGED history
    PROVE  IInv'
<1> DEFINE gone == {h \in DOMAIN new : new[h].state = "EXPIRED"}
<1>1. /\ DOMAIN cellOf = DOMAIN hazards
      /\ \A g \in DOMAIN hazards : cellOf[g] = Cell(hazards[g].place)
      /\ DOMAIN hazards \cap archive = {}
      /\ DOMAIN hazards \cup archive = DOMAIN history
  BY DEF IInv, IndexAgrees
<1>2. /\ hazards' = [h \in DOMAIN hazards \ gone |-> new[h]]
      /\ cellOf' = [h \in DOMAIN hazards \ gone |-> cellOf[h]]
      /\ archive' = archive \cup gone
  BY <1>1 DEF FileAway, Unfiled, Restrict
<1>3. gone \subseteq DOMAIN hazards
  OBVIOUS
<1>4. \A h \in DOMAIN hazards \ gone : new[h].state # "EXPIRED"
  OBVIOUS
<1> HIDE DEF gone
<1>5. \A h \in DOMAIN hazards' : Shaped(hazards'[h]) /\ Promoted(hazards'[h], history'[h])
  <2> TAKE h \in DOMAIN hazards'
  <2>1. h \in DOMAIN hazards /\ hazards'[h] = new[h] /\ new[h].state # "EXPIRED"
    BY <1>2, <1>4
  <2>2. Shaped(hazards[h]) /\ Promoted(hazards[h], history[h]) /\ Lessened(new[h], hazards[h])
    BY <2>1, PromotionPerHazard DEF IInv
  <2> QED BY <2>1, <2>2 DEF Shaped, Promoted, Lessened
<1>6. IndexAgrees'
  <2>1. \A h \in DOMAIN hazards' : cellOf'[h] = Cell(hazards'[h].place)
    BY <1>1, <1>2 DEF Lessened
  <2>2. /\ DOMAIN cellOf' = DOMAIN hazards'
        /\ DOMAIN hazards' \cap archive' = {}
        /\ DOMAIN hazards' \cup archive' = DOMAIN history'
    BY <1>1, <1>2, <1>3
  <2> QED BY <2>1, <2>2 DEF IndexAgrees
<1>7. HistoryDense'
  BY DEF IInv, HistoryDense
<1>8. PromotionExact'
  BY <1>5 DEF PromotionExact, Promoted
<1> QED BY <1>5, <1>6, <1>7, <1>8 DEF IInv

LEMMA NextIInv == IInv /\ [Next]_vars => IInv'
<1> SUFFICES ASSUME IInv, [Next]_vars PROVE IInv'
  OBVIOUS
<1>1. ASSUME NEW o \in Observations, Ingest(o) PROVE IInv'
  BY <1>1, IngestNewIInv, IngestMatchIInv DEF Ingest
<1>2. ASSUME NEW type, NEW p, NEW r, NegativeEvidence(type, p, r) PROVE IInv'
  <2> DEFINE hit == {h \in Nearby(p, r) : hazards[h].type = type}
             new == [h \in DOMAIN hazards |-> IF h \in hit THEN Weakened(hazards[h]) ELSE hazards[h]]
  <2>1. FileAway(new) /\ UNCHANGED history
    BY <1>2 DEF NegativeEvidence
  <2>2. DOMAIN new = DOMAIN hazards
    OBVIOUS
  <2>3. \A h \in DOMAIN hazards : Lessened(new[h], hazards[h])
    BY WeakenedLessens DEF IInv, Lessened
  <2> HIDE DEF new
  <2> QED BY <2>1, <2>2, <2>3, FileAwayIInv
<1>3. CASE Sweep
  <2> DEFINE new == [h \in DOMAIN hazards |-> Decayed(hazards[h])]
  <2>1. FileAway(new) /\ UNCHANGED history
    BY <1>3 DEF Sweep
  <2>2. DOMAIN new = DOMAIN hazards /\ \A h \in DOMAIN hazards : Lessened(new[h], hazards[h])
    BY DecayedLessens DEF IInv
  <2> HIDE DEF new
  <2> QED BY <2>1, <2>2, FileAwayIInv
<1>4. CASE UNCHANGED <<hazards, cellOf, archive, history>>
  BY <1>4 DEF IInv, HistoryDense, IndexAgrees, PromotionExact
<1> QED BY <1>1, <1>2, <1>3, <1>4 DEF Next, Tick, vars

\* Store, index and archive agree: every hazard ever created is active,
\* indexed and filed under the cell it has moved to, or it is archived and in
\* neither.
THEOREM IndexIsTheStore == Spec => []IndexAgrees
<1>1. IInv => IndexAgrees
  BY DEF IInv
<1> QED BY <1>1, InitIInv, NextIInv, PTL DEF Spec

\* A verified hazard was reported by two sources and a candidate by one, and
\* no report is counted twice or lost, however reports, contradictions and
\* sweeps follow one another.
THEOREM TwoSourcesVerify == Spec => []PromotionExact
<1>1. IInv => PromotionExact
  BY DEF IInv
<1> QED BY <1>1, InitIInv, NextIInv, PTL DEF Spec

-----------------------------------------------------------------------------
(* The map of the safety detectors.                                         *)

\* The fields of a hazard that its life depends on.
Tracked(h) ==
    {"state", "confidence", "spot", "way", "last", "sources", "evidence"} \subseteq DOMAIN h

\* What VerifiedIsConfident says of one hazard.
Confident(h) ==
    /\ h.state = "VERIFIED" => h.confidence >= Promotion
    /\ h.state = "EXPIRED" => h.confidence < MinConfidence

EngineInv == \A h \in DOMAIN tracked : Tracked(tracked[h]) /\ Confident(tracked[h])

LEMMA SupportedConfident ==
    ASSUME NEW h, NEW o, Tracked(h), h.state # "EXPIRED"
    PROVE  Tracked(Supported(h, o)) /\ Confident(Supported(h, o))
BY DEF Supported, Tracked, Confident, After, MinConfidence

LEMMA ContradictedConfident ==
    ASSUME NEW h, NEW o, Tracked(h), h.state # "EXPIRED"
    PROVE  Tracked(Contradicted(h, o)) /\ Confident(Contradicted(h, o))
BY DEF Contradicted, Tracked, Confident, After, MinConfidence

\* A decay pass ends with the lifecycle, whatever it found before.
LEMMA AgedConfident ==
    ASSUME NEW h, Tracked(h), Confident(h)
    PROVE  Tracked(Aged(h)) /\ Confident(Aged(h))
<1>1. ASSUME NEW c, NEW dead, NEW quiet, h.state # "EXPIRED"
      PROVE  Tracked(Settled(h, c, dead, quiet)) /\ Confident(Settled(h, c, dead, quiet))
  <2>1. CASE dead = TRUE
    BY <1>1, <2>1 DEF Settled, Tracked, Confident, After, MinConfidence
  <2>2. CASE dead # TRUE
    BY <1>1, <2>2 DEF Settled, Tracked, Confident, After, MinConfidence
  <2> QED BY <2>1, <2>2
<1> DEFINE gap == clock - h.last
           c == Faded(h.confidence, gap)
           dead == clock - h.first > Lives[h.kind] \/ c < MinConfidence
           quiet == gap >= StaleAfter
<1>2. Aged(h) = h \/ (h.state # "EXPIRED" /\ Aged(h) = Settled(h, c, dead, quiet))
  BY Zenon DEF Aged
<1>3. ASSUME h.state # "EXPIRED"
      PROVE  Tracked(Settled(h, c, dead, quiet)) /\ Confident(Settled(h, c, dead, quiet))
  <2> HIDE DEF c, dead, quiet
  <2> QED BY <1>1, <1>3
<1> QED BY <1>2, <1>3

LEMMA EngineNextInv == EngineInv /\ [EngineNext]_engine => EngineInv'
<1> SUFFICES ASSUME EngineInv, [EngineNext]_engine PROVE EngineInv'
  OBVIOUS
<1>1. ASSUME NEW o, Start(o) PROVE EngineInv'
  <2>1. Tracked(Minted(o)) /\ Confident(Minted(o))
    BY DEF Minted, Tracked, Confident
  <2> QED BY <1>1, <2>1 DEF Start, EngineInv
<1>2. ASSUME NEW o, Associate(o) PROVE EngineInv'
  <2>1. PICK h \in Best(o) :
            tracked' = [tracked EXCEPT ![h] = IF o.negative THEN Contradicted(@, o)
                                                            ELSE Supported(@, o)]
    BY <1>2 DEF Associate
  <2>2. h \in DOMAIN tracked /\ tracked[h].state # "EXPIRED"
    BY DEF Best, Candidates
  <2>3. Tracked(tracked'[h]) /\ Confident(tracked'[h])
    BY <2>1, <2>2, SupportedConfident, ContradictedConfident DEF EngineInv
  <2> QED BY <2>1, <2>3 DEF EngineInv
<1>3. CASE Decay
  <2>1. \A h \in DOMAIN tracked' : h \in DOMAIN tracked /\ tracked'[h] = Aged(tracked[h])
    BY <1>3 DEF Decay, Restrict
  <2> QED BY <2>1, AgedConfident DEF EngineInv
<1>4. CASE UNCHANGED tracked
  BY <1>4 DEF EngineInv
<1> QED BY <1>1, <1>2, <1>3, <1>4 DEF EngineNext, Elapse, engine

\* A verified hazard is confident enough to be one and a hazard given up is not
\* believed in, after every mixture of reports, contradictions and decay passes,
\* for any decay, any lateness and any thresholds.
THEOREM VerifiedMeansConfident == EngineSpec => []VerifiedIsConfident
<1>1. EngineInit => EngineInv
  BY DEF EngineInit, EngineInv
<1>2. EngineInv => VerifiedIsConfident
  BY DEF EngineInv, Confident, VerifiedIsConfident
<1> QED BY <1>1, <1>2, EngineNextInv, PTL DEF EngineSpec
=============================================================================
