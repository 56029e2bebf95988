---------------------------- MODULE Connectivity ----------------------------
(***************************************************************************)
(* The connectivity monitor: delivery outcomes in a sliding window for     *)
(* each route, the state inferred from them, and listeners that are told   *)
(* of every transition.                                                    *)
(*                                                                         *)
(* A report holds the monitor's lock from the outcome to the end of the    *)
(* last listener, and listeners may await: other reports queue up behind.  *)
(***************************************************************************)
EXTENDS Integers, Sequences, FiniteSets

CONSTANTS Listeners, WindowSize,
          MaxWaiting, \* bound of the model
          Nobody

ASSUME MonitorConstants == {WindowSize, MaxWaiting} \subseteq Nat

VARIABLES
    windows,  \* _route_windows: the latest outcomes of each route
    state,    \* _state
    reports,  \* reports waiting for the lock, in turn
    telling,  \* the transition being told and whom to tell still, or Nobody
    told      \* history: the transitions each listener was told, the last one

monitor == <<windows, state, reports, telling, told>>

Routes == {"cloud", "direct"}
Conditions == {"FULL", "DIRECT_ONLY", "INTERMITTENT", "ISOLATED"}

LastN(s, n) == IF Len(s) <= n THEN s ELSE SubSeq(s, Len(s) - n + 1, Len(s))

\* Per cent of the window that succeeded.
SuccessRate(w) ==
    IF w = <<>> THEN 0 ELSE (100 * Cardinality({i \in DOMAIN w : w[i]})) \div Len(w)

\* _infer_state.
Inferred(w) ==
    LET cloud == SuccessRate(w["cloud"])
        direct == SuccessRate(w["direct"])
    IN  IF (w["cloud"] = <<>> /\ w["direct"] = <<>>) \/ cloud >= 90 THEN "FULL"
        ELSE IF cloud < 30 /\ direct >= 90 THEN "DIRECT_ONLY"
        ELSE IF cloud >= 30 \/ direct >= 30 THEN "INTERMITTENT"
        ELSE "ISOLATED"

MonitorInit ==
    /\ windows = [r \in Routes |-> <<>>]
    /\ state = "FULL"
    /\ reports = <<>> /\ telling = Nobody
    /\ told = [l \in Listeners |-> Nobody]

\* report_delivery up to the lock.
Report(route, success) ==
    /\ Len(reports) < MaxWaiting
    /\ reports' = Append(reports, [route |-> route, success |-> success])
    /\ UNCHANGED <<windows, state, telling, told>>

LockTakenAgain == TRUE
LockFree == telling = Nobody

\* The next report has the lock; unless the state changes it is done at once.
Observe ==
    LET r == Head(reports)
        after == [windows EXCEPT ![r.route] = LastN(Append(@, r.success), WindowSize)]
        new == Inferred(after)
    IN  /\ reports # <<>>
        /\ LockFree
        /\ reports' = Tail(reports)
        /\ windows' = after
        /\ state' = new
        /\ telling' = IF new = state THEN Nobody ELSE [from |-> state, to |-> new, left |-> Listeners]
        /\ UNCHANGED told

\* A listener's turn; the last one frees the lock.
Tell(l) ==
    /\ telling # Nobody
    /\ l \in telling.left
    /\ told' = [told EXCEPT ![l] = [from |-> telling.from, to |-> telling.to]]
    /\ telling' = IF telling.left = {l} THEN Nobody ELSE [telling EXCEPT !.left = @ \ {l}]
    /\ UNCHANGED <<windows, state, reports>>

MonitorNext ==
    \/ \E route \in Routes, success \in BOOLEAN : Report(route, success)
    \/ Observe
    \/ \E l \in Listeners : Tell(l)

MonitorSpec == MonitorInit /\ [][MonitorNext]_monitor
-----------------------------------------------------------------------------
\* A listener is told an unbroken chain of transitions that ends in the
\* monitor's state: none is skipped, repeated or told before an earlier one.
TransitionsChain ==
    /\ \A l \in Listeners :
          (telling = Nobody \/ l \notin telling.left) =>
              state = (IF told[l] = Nobody THEN "FULL" ELSE told[l].to)
    /\ telling # Nobody => \A l \in telling.left :
          telling.from = (IF told[l] = Nobody THEN "FULL" ELSE told[l].to)
=============================================================================
