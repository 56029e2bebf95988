--------------------------- MODULE TelemetryFeed ---------------------------
(***************************************************************************)
(* The runtime of the browser's simulator (networkTelemetry.ts) in several *)
(* tabs of one browser: its animation loop, the lease by which the tabs    *)
(* choose their producer, and the publication of frames to the gateway.    *)
(*                                                                         *)
(* A callback of the browser is atomic, and so is a claim of the lease;    *)
(* publishing awaits its requests.  All tabs run the same network, so the  *)
(* ids of their actors are the same.  A tab in the background may get      *)
(* frames or none.  Storage that throws, the reset of a simulation, which  *)
(* begins its ids anew, and pedestrians are left out; signal commands are  *)
(* in SignalLoop.                                                          *)
(***************************************************************************)
EXTENDS Integers, FiniteSets

CONSTANTS
    Tabs,
    Views,          \* what may hold the runtime of a tab
    RefreshEvery,   \* PRODUCER_LEASE_REFRESH_MS
    LeaseLasts,     \* PRODUCER_LEASE_MS
    Fleet,          \* the actors a tab's simulation begins with: 1 .. Fleet[t]
    MaxBorn         \* bound of the model: how many it ever has

ASSUME FeedConstants ==
    /\ RefreshEvery \in Nat \ {0}
    /\ LeaseLasts \in Nat /\ RefreshEvery < LeaseLasts
    /\ {"nobody", "closed", "several"} \cap Tabs = {}
    /\ Fleet \in [Tabs -> Nat] /\ MaxBorn \in [Tabs -> Nat]
    /\ \A t \in Tabs : Fleet[t] <= MaxBorn[t]

VARIABLES
    holders,   \* the views that hold the runtime of each tab
    references,
    scheduled, \* frameHandle: whether a frame is scheduled
    visible,
    owns,      \* ownsProducerLease
    asked,     \* time since lastLeaseRefresh, as far as RefreshEvery
    lease,     \* the record in localStorage: whose, and how long it lasts
    actors,    \* what the simulation's frame shows
    gone,      \* and its despawnedActorIds
    born,      \* the ids given out
    publishing,
    posts,     \* the publications under way
    deleting,  \* the DELETEs under way, also of publications that failed
    road,      \* the actors the gateway knows
    feeder,    \* history: the tab that published, or "several"
    deleted,   \* history: the actors that one had deleted
    lost       \* history: for how long another tab's lease has been in force

runtime == <<holders, references, scheduled, visible, owns, asked, lease>>
feed    == <<actors, gone, born, publishing, posts, deleting, road, deleted, feeder>>
telemetry == <<holders, references, scheduled, visible, owns, asked, lease, lost,
               actors, gone, born, publishing, posts, deleting, road, deleted, feeder>>

Nobodys == [of |-> "nobody", left |-> 0]

FeedInit ==
    /\ holders = [t \in Tabs |-> {}]
    /\ references = [t \in Tabs |-> 0]
    /\ scheduled = [t \in Tabs |-> FALSE]
    /\ visible = [t \in Tabs |-> FALSE]
    /\ owns = [t \in Tabs |-> FALSE]
    /\ asked = [t \in Tabs |-> 0]     \* a page's clock begins with the page
    /\ lease = Nobodys
    /\ lost = [t \in Tabs |-> 0]
    /\ actors = [t \in Tabs |-> 1 .. Fleet[t]]
    /\ gone = [t \in Tabs |-> {}]
    /\ born = Fleet
    /\ publishing = [t \in Tabs |-> FALSE]
    /\ posts = [t \in Tabs |-> {}]
    /\ deleting = [t \in Tabs |-> {}]
    /\ road = {}
    /\ deleted = {}
    /\ feeder = "nobody"

-----------------------------------------------------------------------------
(* Views.                                                                   *)

Retain(t, v) ==
    /\ v \in Views[t] \ holders[t]
    /\ holders' = [holders EXCEPT ![t] = @ \cup {v}]
    /\ references' = [references EXCEPT ![t] = @ + 1]
    /\ scheduled' = [scheduled EXCEPT ![t] = TRUE]
    /\ UNCHANGED <<visible, owns, asked, lease, lost>>

\* The references after the cleanup of a view; React may call one that has
\* been spent.
CountAfter(t, spent) == IF spent THEN references[t] ELSE references[t] - 1

\* The last view gives the lease back, and the next claim is due at once.
Release(t, v, spent) ==
    LET count == CountAfter(t, spent)
        last  == count = 0 /\ scheduled[t]
    IN  /\ ~spent => v \in holders[t]
        /\ holders' = [holders EXCEPT ![t] = IF spent THEN @ ELSE @ \ {v}]
        /\ references' = [references EXCEPT ![t] = count]
        /\ scheduled' = [scheduled EXCEPT ![t] = @ /\ ~last]
        /\ lease' = IF last /\ owns[t] /\ lease.of = t THEN Nobodys ELSE lease
        /\ owns' = [owns EXCEPT ![t] = @ /\ ~last]
        /\ asked' = [asked EXCEPT ![t] = IF last /\ owns[t] THEN RefreshEvery ELSE @]
        /\ lost' = IF lease' = lease THEN lost ELSE [u \in Tabs |-> 0]
        /\ UNCHANGED visible

Turn(t) ==
    /\ visible' = [visible EXCEPT ![t] = ~@]
    /\ UNCHANGED <<holders, references, scheduled, owns, asked, lease, lost>>

\* Deletions are remembered while one tab publishes.
Kept(d) == IF feeder = "several" THEN {} ELSE d

\* The batches of actors under way.
Batches(t) == {p \in posts[t] : p.at = "ingest"}

\* A tab is closed, or reloaded: no cleanup runs, its lease stays behind under
\* an id nobody has any more, and a request under way is received or not.
CloseTab(t) ==
    /\ holders[t] # {}
    /\ holders' = [holders EXCEPT ![t] = {}]
    /\ references' = [references EXCEPT ![t] = 0]
    /\ scheduled' = [scheduled EXCEPT ![t] = FALSE]
    /\ visible' = [visible EXCEPT ![t] = FALSE]
    /\ owns' = [owns EXCEPT ![t] = FALSE]
    /\ asked' = [asked EXCEPT ![t] = 0]
    /\ lease' = IF lease.of = t THEN [lease EXCEPT !.of = "closed"] ELSE lease
    /\ actors' = [actors EXCEPT ![t] = 1 .. Fleet[t]]
    /\ gone' = [gone EXCEPT ![t] = {}]
    /\ born' = [born EXCEPT ![t] = Fleet[t]]
    /\ lost' = [lost EXCEPT ![t] = 0]
    /\ publishing' = [publishing EXCEPT ![t] = FALSE]
    /\ posts' = [posts EXCEPT ![t] = {}]
    /\ deleting' = [deleting EXCEPT ![t] = {}]
    /\ \E some \in SUBSET UNION {p.actors : p \in Batches(t)}, done \in SUBSET deleting[t] :
          /\ road' = (road \cup some) \ done
          /\ deleted' = deleted \cup Kept(done)
    /\ feeder' = IF feeder = t THEN "closed" ELSE feeder

-----------------------------------------------------------------------------
(* The lease.                                                               *)

\* A tab in the background leaves the lease to another that keeps it alive.
Yields(t) == lease.of # t /\ lease.left > 0 /\ ~visible[t]

\* Variant: a tab that owned the lease goes on.
ProducesOn(t) == owns[t] \/ (asked[t] >= RefreshEvery /\ ~Yields(t))
\* Whether the tab produces in this frame.
Produces(t) == IF asked[t] < RefreshEvery THEN owns[t] ELSE ~Yields(t)

ClaimLease(t) ==
    /\ owns' = [owns EXCEPT ![t] = Produces(t)]
    /\ IF asked[t] < RefreshEvery
       THEN UNCHANGED <<asked, lease, lost>>
       ELSE /\ asked' = [asked EXCEPT ![t] = 0]
            /\ IF Yields(t)
               THEN UNCHANGED <<lease, lost>>
               ELSE /\ lease' = [of |-> t, left |-> LeaseLasts]
                    /\ lost' = [lost EXCEPT ![t] = 0]

\* Time passes.
Later(n) == IF n < RefreshEvery THEN n + 1 ELSE n
PassTime ==
    /\ asked' = [t \in Tabs |-> Later(asked[t])]
    /\ lease' = [lease EXCEPT !.left = IF @ > 0 THEN @ - 1 ELSE 0]
    /\ lost' = [t \in Tabs |-> IF lease.of \in {t, "nobody"} \/ lease'.left = 0
                               THEN 0 ELSE Later(lost[t])]
    /\ <<asked, lease>>' # <<asked, lease>>
    /\ UNCHANGED <<holders, references, scheduled, visible, owns>>

-----------------------------------------------------------------------------
(* Frames.                                                                  *)

\* The simulation moves on: some actors leave, of whom those that retire are
\* named, and others come; or the last frame is shown again.
Simulate(t) ==
    \/ \E left \in SUBSET actors[t], more \in 0 .. (MaxBorn[t] - born[t]) :
          /\ gone' \in {[gone EXCEPT ![t] = g] : g \in SUBSET left}
          /\ actors' = [actors EXCEPT ![t] = (@ \ left) \cup (born[t] + 1 .. born[t] + more)]
          /\ born' = [born EXCEPT ![t] = @ + more]
    \/ UNCHANGED <<actors, gone, born>>

\* Variant: every quarter of a second.
PublishAlways(t) == TRUE
\* One publication at a time.
MayPublish(t) == ~publishing[t]

\* due: whether TELEMETRY_INTERVAL_MS have passed and the frame came so far
\* without throwing.  A frame that throws is dropped, and the next scheduled.
Animate(t, due) ==
    /\ scheduled[t]
    /\ ClaimLease(t)
    /\ scheduled' = [scheduled EXCEPT ![t] = references[t] > 0]
    /\ IF Produces(t)
       THEN /\ Simulate(t)
            /\ IF due /\ MayPublish(t)
               THEN /\ publishing' = [publishing EXCEPT ![t] = TRUE]
                    /\ posts' = [posts EXCEPT ![t] = @ \cup
                          {[at |-> "ingest", actors |-> actors'[t], gone |-> gone'[t]]}]
                    /\ feeder' = IF feeder \in {"nobody", t} THEN t ELSE "several"
                    /\ deleted' = IF feeder' = t THEN deleted ELSE {}
               ELSE UNCHANGED <<publishing, posts, feeder, deleted>>
       ELSE UNCHANGED <<actors, gone, born, publishing, posts, feeder, deleted>>
    /\ UNCHANGED <<holders, references, visible, deleting, road>>

-----------------------------------------------------------------------------
(* publishFrame.  What a request that failed had the gateway do it did     *)
(* before the failure is seen.                                             *)

\* Variant: reset after a success only.
ResetOnSuccess(failed) == failed
\* publishing after a publication, that has failed or not.
PublishingAfter(failed) == FALSE

End(t, p, failed) ==
    /\ posts' = [posts EXCEPT ![t] = @ \ {p}]
    /\ publishing' = [publishing EXCEPT ![t] = PublishingAfter(failed)]

\* The batch of actors, of which some are stored, and the requests up to the
\* DELETEs.
Ingest(t, p, some, ok) ==
    /\ p.at = "ingest" /\ (ok => some = p.actors)
    /\ road' = road \cup some
    /\ IF ok
       THEN /\ posts' = [posts EXCEPT ![t] = (@ \ {p}) \cup {[p EXCEPT !.at = "delete"]}]
            /\ deleting' = [deleting EXCEPT ![t] = @ \cup p.gone]
            /\ UNCHANGED publishing
       ELSE End(t, p, TRUE) /\ UNCHANGED deleting
    /\ UNCHANGED deleted

\* One DELETE, which the gateway does or refuses.  One that gets no answer
\* ends the publication that waits for it, but not the others.
Delete(t, a, done, answered) ==
    /\ a \in deleting[t]
    /\ deleting' = [deleting EXCEPT ![t] = @ \ {a}]
    /\ road' = IF done THEN road \ {a} ELSE road
    /\ deleted' = IF done THEN deleted \cup Kept({a}) ELSE deleted
    /\ \/ answered /\ UNCHANGED <<publishing, posts>>
       \/ /\ ~answered
          /\ LET waits == {p \in posts[t] : p.at = "delete" /\ a \in p.gone}
             IN  IF waits = {} THEN UNCHANGED <<publishing, posts>>
                 ELSE \E p \in waits : End(t, p, TRUE)

\* All are answered; a refusal among them makes it a failure.
Published(t, p, failed) ==
    /\ p.at = "delete" /\ p.gone \cap deleting[t] = {}
    /\ End(t, p, failed)
    /\ UNCHANGED <<deleting, road, deleted>>

Settle(t) ==
    /\ \/ \E p \in posts[t], ok \in BOOLEAN :
             (\E some \in SUBSET p.actors : Ingest(t, p, some, ok)) \/ Published(t, p, ~ok)
       \/ \E a \in deleting[t], done, answered \in BOOLEAN : Delete(t, a, done, answered)
    /\ UNCHANGED <<actors, gone, born, feeder, lost>>

FeedNext ==
    \/ \E t \in Tabs : \E v \in Views[t] :
          (Retain(t, v) \/ \E spent \in BOOLEAN : Release(t, v, spent)) /\ UNCHANGED feed
    \/ \E t \in Tabs : Turn(t) /\ UNCHANGED feed
    \/ \E t \in Tabs : CloseTab(t)
    \/ \E t \in Tabs, due \in BOOLEAN : Animate(t, due)
    \/ \E t \in Tabs : Settle(t) /\ UNCHANGED runtime
    \/ PassTime /\ UNCHANGED feed

\* The browser calls the frames of a visible tab, a quarter of a second passes
\* again and again without a throw, and each request ends.  A tab in the
\* background may get no frames; nobody has to open, close or turn to a tab.
\* Before a view is open time need not pass: nothing looks at it.
FeedFairness ==
    /\ \A t \in Tabs :
          /\ WF_telemetry(visible[t] /\ Animate(t, TRUE))
          /\ WF_telemetry(Settle(t) /\ UNCHANGED runtime)
    /\ WF_telemetry(\E t \in Tabs : holders[t] # {} /\ PassTime /\ UNCHANGED feed)

FeedSpec == FeedInit /\ [][FeedNext]_telemetry /\ FeedFairness
-----------------------------------------------------------------------------
\* Types, and the frame loop runs exactly while a view holds the runtime.
FeedTypeOK ==
    /\ \A t \in Tabs : holders[t] \subseteq Views[t]
    /\ \A t \in Tabs : references[t] = Cardinality(holders[t])
    /\ \A t \in Tabs : scheduled[t] <=> holders[t] # {}
    /\ lease.of \in Tabs \cup {"nobody", "closed"} /\ lease.left \in 0 .. LeaseLasts
    /\ \A t \in Tabs : asked[t] \in 0 .. RefreshEvery /\ lost[t] \in 0 .. RefreshEvery
    /\ \A t \in Tabs : gone[t] \cap actors[t] = {}
    /\ \A t \in Tabs : publishing[t] <=> posts[t] # {}

\* A tab that is looked at, and has a view that holds the runtime, publishes
\* again and again: mounts and cleanups in any order, frames that throw,
\* requests that fail and other tabs do not stop the world for good.
FeedGoesOn ==
    \A t \in Tabs : <>[](holders[t] # {} /\ visible[t]) => []<>(Batches(t) # {})

\* A tab in the background stops: it begins a publication only if no other
\* tab's lease has been in force for a whole refresh, however the tabs were
\* shown, hidden, closed and mounted before.
DisplacedStops ==
    [][\A t \in Tabs : Cardinality(Batches(t)') > Cardinality(Batches(t)) /\ ~visible[t]
          => lost[t] < RefreshEvery]_telemetry

\* While one tab is the only one to publish, what it had deleted at the
\* gateway never comes back: no frame from before lands after the DELETE.
DeletedStaysDeleted == feeder # "several" => deleted \cap road = {}

\* What the comments intend and the code does not do: an actor that has left
\* is deleted at the gateway.  Only the frame that is published names who
\* left, and about ten frames pass between two.
SameRoadUsers ==
    [][\A t \in Tabs : \A p \in posts[t] :
          feeder = t /\ Published(t, p, FALSE) => road \subseteq p.actors]_telemetry
=============================================================================
