---------------------------- MODULE AlertService ----------------------------
(***************************************************************************)
(* The alert platform: the lifecycle registry with its cooldown, the store *)
(* of active alerts and its bounded history, and the WebSocket fan-out.    *)
(*                                                                         *)
(* A POST or PATCH changes registry and store at once, then waits for the  *)
(* lock of the client registry to broadcast.  The lock serves its waiters  *)
(* in turn; a subscriber waits for it to be added and again to be removed, *)
(* and while a broadcast holds it every send may yield, so that further    *)
(* requests change alerts under a broadcast that is still going out.       *)
(***************************************************************************)
EXTENDS Integers, Sequences, FiniteSets, Functions

CONSTANTS Clients,     \* connections, each used once
          Keys,        \* hysteresis keys: alert type and set of actors
          InView,      \* keys inside the bounding box of a connection
          Cooldown, HistoryLimit,
          MaxTime, MaxAlerts, MaxWaiting, \* bounds of the model
          None

ASSUME AlertServiceConstants ==
    /\ InView \in [Clients -> SUBSET Keys]
    /\ HistoryLimit \in Nat \ {0}
    /\ {Cooldown, MaxTime, MaxAlerts, MaxWaiting} \subseteq Nat
    /\ None \notin Nat

VARIABLES
    now,
    fired,     \* _hysteresis: when a key last fired
    born,      \* every alert ever posted: key and time; the index is its id
    registry,  \* AlertLifecycleManager._alerts: state by id
    active,    \* AlertStore._active: state by id
    past,      \* AlertStore._history: ids, oldest first
    link,      \* "new", "open" or "closed", by connection
    clients,   \* _clients
    joined,    \* history: alerts posted before the connection was added
    waiting,   \* the requests waiting for _clients_lock, in turn
    holder,    \* the broadcast that holds it, or None
    view       \* what each connection was last told of each alert

vars == <<now, fired, born, registry, active, past,
          link, clients, joined, waiting, holder, view>>

states == <<born, registry, active, past>>
sockets == <<link, clients, joined>>

Transitions == [ACTIVE |-> {"ACKNOWLEDGED", "RESOLVED", "EXPIRED", "SUPPRESSED"},
                ACKNOWLEDGED |-> {"RESOLVED"},
                RESOLVED |-> {}, EXPIRED |-> {}, SUPPRESSED |-> {}]
AlertStates == DOMAIN Transitions
TerminalButSuppressed == {"RESOLVED", "EXPIRED"}
Terminal == {"RESOLVED", "EXPIRED", "SUPPRESSED"}

\* What a broadcast that holds the lock remembers.
Broadcasting == [id : Nat \ {0}, state : AlertStates, left : SUBSET Clients,
                 dead : SUBSET Clients]
ASSUME NobodyBroadcasts == None \notin Broadcasting

SuppressedWhileActive(k) == \E i \in DOMAIN registry : born[i].key = k /\ registry[i] = "ACTIVE"
IsSuppressed(k) == fired[k] # None /\ now - fired[k] < Cooldown

LastN(s, n) == IF Len(s) <= n THEN s ELSE SubSeq(s, Len(s) - n + 1, Len(s))

\* AlertStore.add and update.
Put(id, state) ==
    IF state \in Terminal
    THEN /\ active' = Restrict(active, DOMAIN active \ {id})
         /\ past' = LastN(Append(past, id), HistoryLimit)
    ELSE /\ active' = [i \in DOMAIN active \cup {id} |-> IF i = id THEN state ELSE active[i]]
         /\ UNCHANGED past

Known(id) == id \in DOMAIN active \/ \E i \in DOMAIN past : past[i] = id

\* GET /v1/alerts?state=...: what the store answers for a state that is not
\* terminal, the other filters and the limit left aside.
Listed(state) == {i \in DOMAIN active : active[i] = state}

Broadcast(id, state) == [do |-> "broadcast", id |-> id, state |-> state]

\* async with _clients_lock: the request joins those that wait.
Ask(request) == Len(waiting) < MaxWaiting /\ waiting' = Append(waiting, request)

Sees(c, id) == born[id].key \in InView[c]
-----------------------------------------------------------------------------
Init ==
    /\ now = 0
    /\ fired = [k \in Keys |-> None]
    /\ born = <<>> /\ registry = <<>> /\ active = <<>> /\ past = <<>>
    /\ link = [c \in Clients |-> "new"]
    /\ clients = {}
    /\ joined = [c \in Clients |-> None]
    /\ waiting = <<>> /\ holder = None
    /\ view = [c \in Clients |-> <<>>]

\* POST /v1/alerts: an alert within the cooldown is stored as suppressed, in
\* the history only, and nobody is told.
CreateSuppressed(k) ==
    /\ Len(born) < MaxAlerts
    /\ IsSuppressed(k)
    /\ born' = Append(born, [key |-> k, at |-> now])
    /\ Put(Len(born) + 1, "SUPPRESSED")
    /\ UNCHANGED <<now, fired, registry, waiting, holder, view>> /\ UNCHANGED sockets

CreateActive(k) ==
    /\ Len(born) < MaxAlerts
    /\ ~IsSuppressed(k)
    /\ born' = Append(born, [key |-> k, at |-> now])
    /\ fired' = [fired EXCEPT ![k] = now]
    /\ registry' = [i \in DOMAIN registry \cup {Len(born) + 1} |->
                      IF i = Len(born) + 1 THEN "ACTIVE" ELSE registry[i]]
    /\ Put(Len(born) + 1, "ACTIVE")
    /\ Ask(Broadcast(Len(born) + 1, "ACTIVE"))
    /\ UNCHANGED <<now, holder, view>> /\ UNCHANGED sockets

\* PATCH /v1/alerts/{id}: 404 unless the store knows the alert and the
\* registry does, 422 unless the state machine has the transition.
Patch(id, state) ==
    /\ Known(id)
    /\ id \in DOMAIN registry
    /\ state \in Transitions[registry[id]]
    /\ registry' = [registry EXCEPT ![id] = state]
    /\ Put(id, state)
    /\ Ask(Broadcast(id, state))
    /\ UNCHANGED <<now, fired, born, holder, view>> /\ UNCHANGED sockets

\* The stream endpoint accepts and asks for the lock.
Connect(c) ==
    /\ link[c] = "new"
    /\ link' = [link EXCEPT ![c] = "open"]
    /\ Ask([do |-> "add", client |-> c])
    /\ UNCHANGED <<now, fired, clients, joined, holder, view>> /\ UNCHANGED states

\* The peer goes away; once added, the endpoint's finally clause removes it.
Disconnect(c) ==
    /\ link[c] = "open"
    /\ joined[c] # None
    /\ link' = [link EXCEPT ![c] = "closed"]
    /\ Ask([do |-> "drop", client |-> c])
    /\ UNCHANGED <<now, fired, clients, joined, holder, view>> /\ UNCHANGED states

LastWaiter == IF waiting = <<>> THEN 0 ELSE Len(waiting)
NextWaiter == IF waiting = <<>> THEN 0 ELSE 1

\* The lock goes to the next waiter.
Acquire ==
    LET n == NextWaiter
        r == waiting[n]
    IN  /\ holder = None
        /\ n # 0
        /\ waiting' = SubSeq(waiting, 1, n - 1) \o SubSeq(waiting, n + 1, Len(waiting))
        /\ \/ /\ r.do = "broadcast"
              /\ holder' = [id |-> r.id, state |-> r.state, left |-> {c \in clients : Sees(c, r.id)},
                          dead |-> {}]
              /\ UNCHANGED <<clients, joined>>
           \/ /\ r.do = "add"
              /\ clients' = clients \cup {r.client}
              /\ joined' = [joined EXCEPT ![r.client] = Len(born)]
              /\ UNCHANGED holder
           \/ /\ r.do = "drop"
              /\ clients' = clients \ {r.client}
              /\ UNCHANGED <<joined, holder>>
        /\ UNCHANGED <<now, fired, link, view>> /\ UNCHANGED states

\* One send; the clients whose send failed are dropped when the broadcast
\* ends.  After the last one the lock is free.
Send(c) ==
    /\ holder # None
    /\ c \in holder.left
    /\ view' = IF link[c] = "open"
               THEN [view EXCEPT ![c] = [i \in DOMAIN view[c] \cup {holder.id} |->
                                           IF i = holder.id THEN holder.state ELSE view[c][i]]]
               ELSE view
    /\ holder' = [holder EXCEPT !.left = @ \ {c},
                                !.dead = IF link[c] = "open" THEN @ ELSE @ \cup {c}]
    /\ UNCHANGED <<now, fired, waiting>> /\ UNCHANGED states /\ UNCHANGED sockets

Release ==
    /\ holder # None
    /\ holder.left = {}
    /\ clients' = clients \ holder.dead
    /\ holder' = None
    /\ UNCHANGED <<now, fired, link, joined, waiting, view>> /\ UNCHANGED states

Tick ==
    /\ now < MaxTime
    /\ now' = now + 1
    /\ UNCHANGED <<fired, waiting, holder, view>> /\ UNCHANGED states /\ UNCHANGED sockets

Next ==
    \/ \E k \in Keys : CreateSuppressed(k) \/ CreateActive(k)
    \/ \E id \in DOMAIN born, state \in AlertStates : Patch(id, state)
    \/ \E c \in Clients : Connect(c) \/ Disconnect(c) \/ Send(c)
    \/ Acquire
    \/ Release
    \/ Tick

Spec == Init /\ [][Next]_vars
-----------------------------------------------------------------------------
Requests == [do : {"broadcast"}, id : Nat \ {0}, state : AlertStates]
              \cup [do : {"add", "drop"}, client : Clients]

\* Types of the registries, the connections, the waiters and the views.
TypeOK ==
    /\ now \in Nat
    /\ fired \in [Keys -> Nat \cup {None}]
    /\ born \in Seq([key : Keys, at : Nat])
    /\ registry \in [DOMAIN registry -> AlertStates] /\ DOMAIN registry \subseteq DOMAIN born
    /\ active \in [DOMAIN active -> AlertStates]
    /\ past \in Seq(DOMAIN born) /\ Len(past) <= HistoryLimit
    /\ link \in [Clients -> {"new", "open", "closed"}]
    /\ clients \subseteq Clients
    /\ joined \in [Clients -> Nat \cup {None}]
    /\ waiting \in Seq(Requests)
    /\ holder = None \/ holder \in [id : DOMAIN born, state : AlertStates, left : SUBSET Clients,
                                     dead : SUBSET Clients]
    /\ view \in [Clients -> UNION {[D -> AlertStates] : D \in SUBSET DOMAIN born}]

\* The two registries a PATCH reads one after the other tell one story: a list
\* of the alerts in a state the lifecycle can still move answers exactly the
\* alerts the lifecycle has in that state; the store has no other active
\* alert; none is in the history as well, which never holds one twice.
StoreMatchesLifecycle ==
    /\ \A state \in AlertStates \ Terminal :
          Listed(state) = {i \in DOMAIN registry : registry[i] = state}
    /\ \A i \in DOMAIN active : active[i] \notin Terminal
    /\ \A n \in DOMAIN past : past[n] \notin DOMAIN active
    /\ IsInjective(past)

\* Two alerts of one key that were told to clients are a cooldown apart,
\* also when the first was resolved or suppressed by an operator in between.
FiredSpaced ==
    \A i, j \in DOMAIN registry :
       (i < j /\ born[i].key = born[j].key) => born[j].at - born[i].at >= Cooldown

\* When no request is waiting for the lock and none holds it, each open
\* connection was told the present state of every alert in its box that was
\* posted since it joined, and nothing it was ever told is out of date: two
\* changes of one alert are never told in the other order.
ClientsAgreeInTurn ==
    (waiting = <<>> /\ holder = None) =>
        \A c \in Clients : (link[c] = "open" /\ joined[c] # None) =>
            \A i \in DOMAIN registry :
                /\ (Sees(c, i) /\ i > joined[c]) => i \in DOMAIN view[c]
                /\ i \in DOMAIN view[c] => view[c][i] = registry[i]
=============================================================================
