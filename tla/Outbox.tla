------------------------------- MODULE Outbox -------------------------------
(***************************************************************************)
(* What store and forward promises: of every message the newest version    *)
(* offered since it was last handed over, each handed over once, the       *)
(* urgent ones first, none that is too old.                                *)
(***************************************************************************)
EXTENDS Integers, Sequences, SequencesExt, FiniteSets, Functions

CONSTANTS Ids, Kinds,  \* a kind is a class and a lifetime
          Eligible,  \* the connectivity states a class may be forwarded in
          MaxTime, None

VARIABLES
    clock,
    box,   \* what waits: version and kind by message id, or None
    out    \* the ids handed over by the last flush, in order

vars == <<clock, box, out>>

Waiting == {k \in Ids : box[k] # None}
TooOld(k) == clock - box[k].at > box[k].kind.ttl

Urgency(class) == CASE class = "CRITICAL_LOCAL" -> 0 [] class = "REGIONAL_SAFETY" -> 1
                    [] class = "ANALYTICS" -> 2

Init == clock = 0 /\ box = [k \in Ids |-> None] /\ out = <<>>

Offer(k, at, kind) ==
    /\ box' = [box EXCEPT ![k] = IF @ = None \/ @.at < at THEN [at |-> at, kind |-> kind] ELSE @]
    /\ UNCHANGED <<clock, out>>

HandOver(connectivity) ==
    LET ready == {k \in Waiting : ~TooOld(k) /\ connectivity \in Eligible[box[k].kind.class]}
    IN  /\ out' \in SetToSeqs(ready)
        /\ \A i, j \in DOMAIN out' : i < j => Urgency(box[out'[i]].kind.class) <= Urgency(box[out'[j]].kind.class)
        /\ box' = [k \in Ids |-> IF k \in ready \/ (k \in Waiting /\ TooOld(k)) THEN None ELSE box[k]]
        /\ UNCHANGED clock

Purge ==
    /\ box' = [k \in Ids |-> IF k \in Waiting /\ TooOld(k) THEN None ELSE box[k]]
    /\ UNCHANGED <<clock, out>>

Tick == clock < MaxTime /\ clock' = clock + 1 /\ UNCHANGED <<box, out>>

Next ==
    \/ \E k \in Ids, at \in 0..clock, kind \in Kinds : Offer(k, at, kind)
    \/ \E connectivity \in UNION {Eligible[kind.class] : kind \in Kinds} : HandOver(connectivity)
    \/ Purge
    \/ Tick

Spec == Init /\ [][Next]_vars
=============================================================================
