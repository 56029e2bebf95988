---------------------------- MODULE SignalSafety ----------------------------
(***************************************************************************)
(* SignalSafetyController of services/signal-rl: the deterministic         *)
(* envelope every proposed signal action passes through.                   *)
(*                                                                         *)
(* Times are whole ticks.  "clearing" is what rule 3 asks of an            *)
(* observation: pedestrians wait and less than the clearance buffer of the *)
(* phase remains.                                                          *)
(***************************************************************************)
EXTENDS Integers

CONSTANTS MinGreen,     \* MIN_GREEN_S
          MaxGreen,     \* MAX_GREEN_S
          Headroom      \* EXTENSION_HEADROOM_S

ASSUME ThresholdsAssumption ==
    /\ MinGreen \in Nat
    /\ MaxGreen \in Nat
    /\ Headroom \in Nat \ {0}
    /\ MinGreen <= MaxGreen

Hold      == "HOLD"
Extend5   == "EXTEND_GREEN_5"
Extend10  == "EXTEND_GREEN_10"
NextPhase == "NEXT_PHASE"

Extension == {Extend5, Extend10}
Action    == Extension \cup {Hold, NextPhase}

(***************************************************************************)
(* What each rule objects to.  They are tried in this order.  A "variant"  *)
(* is what a plausible bug would make of the definition below it.          *)
(***************************************************************************)
\* Variant: the extension cap without its headroom.
AtTheCap(elapsed, proposed)    == proposed \in Extension /\ elapsed > MaxGreen

TooEarly(elapsed, proposed)    == proposed = NextPhase /\ elapsed < MinGreen
TooLong(elapsed, proposed)     == proposed # NextPhase /\ elapsed >= MaxGreen
StillClearing(clearing, proposed) == proposed = NextPhase /\ clearing
NearTheCap(elapsed, proposed)  == proposed \in Extension /\ elapsed > MaxGreen - Headroom

\* The effective action of a verdict.
Validate(elapsed, clearing, proposed) ==
    IF TooEarly(elapsed, proposed) THEN Hold
    ELSE IF TooLong(elapsed, proposed) THEN NextPhase
    ELSE IF StillClearing(clearing, proposed) \/ NearTheCap(elapsed, proposed) THEN Hold
    ELSE proposed

(***************************************************************************)
(* What the envelope promises of the action it lets through: no early      *)
(* switch, no extension into the headroom, and past the maximum green a    *)
(* switch, except that pedestrians may hold it.                            *)
(***************************************************************************)
Enveloped(elapsed, clearing, action) ==
    /\ action = NextPhase => elapsed >= MinGreen
    /\ action \in Extension => elapsed <= MaxGreen - Headroom
    /\ elapsed >= MaxGreen => \/ action = NextPhase
                              \/ action = Hold /\ clearing
=============================================================================
