--------------------------- MODULE TrackDetectors ---------------------------
(***************************************************************************)
(* Two more detectors of safety-detectors that remember: emergency_vehicle *)
(* keeps the emergency vehicles whose credentials were accepted, and       *)
(* animal_conflict keeps tracks of animals and predicts the ones that are  *)
(* no longer seen.                                                         *)
(*                                                                         *)
(* The credentials of a request are judged in their order, and an expiry   *)
(* without a time zone cannot be compared: the exception leaves the        *)
(* evaluation where it is.  Positions are metres along the animal's path,  *)
(* confidences thousandths.  Who has to yield, the arrival windows and the *)
(* severities are left out.                                                *)
(***************************************************************************)
EXTENDS Integers, Sequences, FiniteSets

CONSTANTS Responders,       \* vehicles that may present a credential
          Batches,          \* the credential lists a request may carry
          HeartbeatTimeout, \* emergency_vehicle.heartbeat_timeout_s
          Animals, Reports, \* what a detector may report of an animal
          Fades,            \* thousandths of the confidence left after 1, 2, ... s
          MinCertainty,     \* animal_conflict.min_detector_confidence
          PredictionTime,   \* animal_conflict.track_prediction_timeout_s
          MaxInstant, MaxObserved, \* bounds of the model
          Unknown, Naive    \* Naive: an expiry without a time zone

Credentials == [car : Responders, verified : BOOLEAN, expires : Nat \cup {Unknown, Naive}]

ASSUME TrackConstants ==
    /\ Batches \subseteq Seq(Credentials)
    /\ Reports \subseteq [age : Int, at : Nat, speed : Nat, certainty : 0..1000]
    /\ Fades \in [1..MaxInstant + 1 -> 0..1000]
    /\ {HeartbeatTimeout, MinCertainty, PredictionTime, MaxInstant, MaxObserved} \subseteq Nat

\* What is remembered of the latest judgement of a credential.
Judgements == [accepted : BOOLEAN, at : Nat, expires : Nat \cup {Unknown, Naive}]
ASSUME UnknownIsNoJudgement == Unknown \notin Judgements

VARIABLES
    instant,   \* the clock
    active,    \* emergency_vehicle._active_emergencies: the last heartbeat
    priority,  \* vehicles the last evaluation asked priority for
    verdict,   \* history: the latest judgement of each vehicle's credential
    tracks,    \* animal_conflict._tracks
    warned,    \* tracks that could raise a risk in the last evaluation
    sightings, \* history: the report each track was made from
    observed   \* how often the animals were evaluated

emergencies == <<active, priority, verdict>>
animals == <<tracks, warned, sightings, observed>>
following == <<instant, active, priority, verdict, tracks, warned, sightings, observed>>

FollowInit ==
    /\ instant = 0
    /\ active = [c \in Responders |-> Unknown]
    /\ priority = {}
    /\ verdict = [c \in Responders |-> Unknown]
    /\ tracks = [a \in Animals |-> Unknown]
    /\ warned = {}
    /\ sightings = [a \in Animals |-> Unknown]
    /\ observed = 0
-----------------------------------------------------------------------------
Expired(cred) == cred.expires \in Nat /\ cred.expires < instant
Refused(cred) == Expired(cred) \/ ~cred.verified

\* _process_credentials up to the first expiry that cannot be compared.
Judged(batch) ==
    {i \in DOMAIN batch : \A j \in 1..i : batch[j].expires # Naive}

\* A request is keyed by vehicle: it carries one credential of each at most.
CredentialOf(c, batch) == {i \in Judged(batch) : batch[i].car = c}

KeptWhenRefused(c, batch, vehicles) ==
    IF CredentialOf(c, batch) = {} \/ c \notin vehicles THEN active[c]
    ELSE IF \E i \in CredentialOf(c, batch) : Refused(batch[i]) THEN active[c] ELSE instant
\* A refused credential ends the emergency; an accepted one is a heartbeat if
\* the vehicle is in the scene.
Verified(c, batch, vehicles) ==
    IF CredentialOf(c, batch) = {} THEN active[c]
    ELSE IF \E i \in CredentialOf(c, batch) : Refused(batch[i]) THEN Unknown
    ELSE IF c \in vehicles THEN instant ELSE active[c]

\* _expire_stale_emergencies
Fresh(beat) == beat # Unknown /\ instant - beat <= HeartbeatTimeout

JudgementAfter(c, batch, vehicles) ==
    IF CredentialOf(c, batch) = {} THEN verdict[c]
    ELSE IF \E i \in CredentialOf(c, batch) : Refused(batch[i])
         THEN [accepted |-> FALSE, at |-> instant, expires |-> Unknown]
    ELSE IF c \in vehicles
         THEN [accepted |-> TRUE, at |-> instant,
               expires |-> batch[CHOOSE i \in CredentialOf(c, batch) : TRUE].expires]
    ELSE verdict[c]

\* When the batch cannot be read to its end nothing expires and no risk is
\* returned, but what was judged before stays.
EvaluateEmergencies(batch, vehicles) ==
    /\ LET seen(c) == Verified(c, batch, vehicles)
           whole == Judged(batch) = DOMAIN batch
       IN  /\ active' = [c \in Responders |->
                            IF whole /\ ~Fresh(seen(c)) THEN Unknown ELSE seen(c)]
           /\ priority' = IF whole THEN {c \in vehicles : Fresh(seen(c))} ELSE {}
    /\ verdict' = [c \in Responders |-> JudgementAfter(c, batch, vehicles)]
    /\ UNCHANGED <<instant, animals>>
-----------------------------------------------------------------------------
\* _update_tracks: a report that is certain enough replaces the track, also
\* one that is older than what the track was made from.
FromReport(r) == [seen |-> instant - r.age, at |-> r.at, speed |-> r.speed,
                  certainty |-> r.certainty, predicted |-> FALSE]

Usable(r) == r # Unknown /\ r.certainty >= MinCertainty
Updated(a, r) == IF Usable(r) THEN FromReport(r) ELSE tracks[a]

NeverFades(t) ==
    LET dt == IF t = Unknown THEN 0 ELSE instant - t.seen
    IN  IF dt <= 0 THEN t
        ELSE [t EXCEPT !.predicted = TRUE, !.at = @ + t.speed * dt]
\* _predict_missing_tracks: every evaluation moves the track, and takes from
\* its confidence, by the whole time since it was seen.
Predicted(t) ==
    LET dt == IF t = Unknown THEN 0 ELSE instant - t.seen
    IN  IF dt <= 0 THEN t
        ELSE [t EXCEPT !.predicted = TRUE,
                       !.at = @ + t.speed * dt,
                       !.certainty = (@ * Fades[dt]) \div 1000]

\* _expire_tracks
Outlived(t) == t # Unknown /\ instant - t.seen > PredictionTime

EvaluateAnimals(a, r) ==
    /\ observed < MaxObserved
    /\ observed' = observed + 1
    /\ LET updated == [b \in Animals |-> Updated(b, IF b = a THEN r ELSE Unknown)]
           after == [b \in Animals |-> Predicted(updated[b])]
       IN  /\ tracks' = [b \in Animals |-> IF Outlived(after[b]) THEN Unknown ELSE after[b]]
           /\ warned' = {b \in Animals : /\ after[b] # Unknown /\ ~Outlived(after[b])
                                         /\ after[b].certainty >= MinCertainty}
           /\ sightings' = [sightings EXCEPT ![a] = IF Usable(r) THEN FromReport(r) ELSE @]
    /\ UNCHANGED <<instant, emergencies>>

\* PUT /v1/config forgets the emergencies and the tracks.
ForgetAll ==
    /\ active' = [c \in Responders |-> Unknown]
    /\ verdict' = [c \in Responders |-> Unknown]
    /\ tracks' = [a \in Animals |-> Unknown]
    /\ sightings' = [a \in Animals |-> Unknown]
    /\ priority' = {} /\ warned' = {}
    /\ UNCHANGED <<instant, observed>>

Pass ==
    /\ instant < MaxInstant
    /\ instant' = instant + 1
    /\ priority' = {} /\ warned' = {}
    /\ UNCHANGED <<active, verdict, tracks, sightings, observed>>

FollowNext ==
    \/ \E batch \in Batches, vehicles \in SUBSET Responders : EvaluateEmergencies(batch, vehicles)
    \/ \E a \in Animals, r \in Reports \cup {Unknown} : EvaluateAnimals(a, r)
    \/ ForgetAll
    \/ Pass

FollowSpec == FollowInit /\ [][FollowNext]_following
-----------------------------------------------------------------------------
\* Signal priority and yielding are asked for only while the latest judgement
\* of the vehicle's credential was an acceptance, and no older than the
\* heartbeat timeout: neither a refusal nor a silence is outlived.
PriorityIsBacked ==
    \A c \in priority : /\ verdict[c] # Unknown /\ verdict[c].accepted
                        /\ instant - verdict[c].at <= HeartbeatTimeout

\* A track that can raise a risk was seen within the prediction time, and is
\* at most as certain as its age allows, however often it was predicted.
TracksFade ==
    \A a \in warned : LET s == sightings[a]
                          age == instant - s.seen
                      IN  /\ age <= PredictionTime
                          /\ tracks[a].certainty * 1000
                               <= s.certainty * (IF age > 0 THEN Fades[age] ELSE 1000)

\* What the documentation says and the code does not do.
\* "the track continues with decaying confidence": its position runs away,
\* because each prediction starts from the last and adds the whole distance.
PredictedOnCourse ==
    \A a \in warned : LET s == sightings[a]
                      IN  tracks[a].at = s.at + s.speed * (IF instant > s.seen
                                                           THEN instant - s.seen ELSE 0)

\* A report never replaces a newer one.
NewestReportCounts ==
    [][\A a \in Animals : sightings[a] # Unknown /\ sightings'[a] # Unknown
                             => sightings'[a].seen >= sightings[a].seen]_following

\* An emergency ends with its credential: the expiry is only looked at when
\* the credential is presented.
CredentialNotExpired ==
    \A c \in priority : verdict[c].expires \in Nat => verdict[c].expires >= instant

\* A request that refuses a vehicle ends its emergency, wherever in the
\* request the refusal stands.
RefusalEnds ==
    [][\A batch \in Batches, vehicles \in SUBSET Responders :
          EvaluateEmergencies(batch, vehicles) =>
             \A i \in DOMAIN batch : Refused(batch[i]) => active'[batch[i].car] = Unknown]_following
=============================================================================
