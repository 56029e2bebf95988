---------------------------- MODULE StreamClient ----------------------------
(***************************************************************************)
(* The dashboard's streams: ReconnectingSocket (graph, routes, v2x) and    *)
(* WorldStream (world, alerts), which reconnect with a growing delay.      *)
(*                                                                         *)
(* Every handler runs to its end in the browser's one thread, so each is a *)
(* step.  A socket fires its event in the task that changes its state.     *)
(* The two classes differ in what a fired timer leaves behind: WorldStream *)
(* empties the handle first, the other empties it when it opens a socket.  *)
(* Leaving the page disposes of the object, coming back makes another.     *)
(***************************************************************************)
EXTENDS Integers, Sequences, FiniteSets

CONSTANTS Channels,
          Wrapped,               \* the channels kept by a ReconnectingSocket
          Slots,                 \* sockets that can be live at a time
          MaxMounts, MaxOutages, MaxThrows, MaxDelay \* bounds of the model

ASSUME StreamConstants ==
    /\ Wrapped \subseteq Channels
    /\ Slots \subseteq Nat \ {0}
    /\ {MaxMounts, MaxOutages, MaxThrows} \subseteq Nat
    /\ MaxDelay \in Nat \ {0}

VARIABLES
    serving,  \* whether the gateway accepts connections
    outages,  \* how often it did not
    throws,   \* how often the browser refused to make a socket
    mounted,  \* the page is shown; otherwise the streams are disposed
    mounts,
    sockets,  \* the sockets of a channel: "connecting", "open" or "closed"
    current,  \* ws: the stream's socket on a channel, or 0
    timer,    \* its reconnect timer: "none", "armed", or "fired" and not emptied
    delay,    \* its backoff, in steps
    badge     \* what onConnectionChange was last told

streams == <<serving, outages, throws, mounted, mounts, sockets, current, timer, delay, badge>>

All(x) == [c \in Channels |-> x]

StreamInit ==
    /\ serving = TRUE /\ outages = 0 /\ throws = 0
    /\ mounted = FALSE /\ mounts = 0
    /\ sockets = All([s \in Slots |-> "closed"]) /\ current = All(0)
    /\ timer = All("none") /\ delay = All(1)
    /\ badge = All(FALSE)

Live(c) == current[c] # 0 /\ sockets[c][current[c]] \in {"connecting", "open"}

Longer(d) == IF d < MaxDelay THEN d + 1 ELSE d

\* scheduleReconnect: one timer, and none next to a live socket.
Scheduled(c, pending) == IF pending = "none" THEN "armed" ELSE pending

\* Constructing the socket throws: the old one stays current.
Refused(c, pending) ==
    /\ throws < MaxThrows
    /\ throws' = throws + 1
    /\ timer' = [timer EXCEPT ![c] = Scheduled(c, pending)]
    /\ delay' = [delay EXCEPT ![c] = IF pending = "none" THEN Longer(@) ELSE @]
    /\ UNCHANGED <<sockets, current>>

HandleKept(c, pending) == pending
\* What connect leaves in the timer handle.
HandleAfter(c, pending) == IF c \in Wrapped THEN "none" ELSE pending

\* A closed socket has fired its last event: its slot stands for the next one.
Vacant(c) == CHOOSE s \in Slots : sockets[c][s] = "closed"

Opening(c, pending) ==
    /\ sockets' = [sockets EXCEPT ![c][Vacant(c)] = "connecting"]
    /\ current' = [current EXCEPT ![c] = Vacant(c)]
    /\ timer' = [timer EXCEPT ![c] = HandleAfter(c, pending)]
    /\ UNCHANGED <<throws, delay>>

\* The component mounts, and every channel opens its first socket.
Mount ==
    /\ ~mounted
    /\ mounts < MaxMounts
    /\ mounted' = TRUE /\ mounts' = mounts + 1
    /\ sockets' = [c \in Channels |-> [sockets[c] EXCEPT ![Vacant(c)] = "connecting"]]
    /\ current' = [c \in Channels |-> Vacant(c)]
    /\ delay' = All(1)
    /\ UNCHANGED <<serving, outages, throws, timer, badge>>

DroppedIfOpen(c) ==
    IF current[c] # 0 /\ sockets[c][current[c]] = "open"
    THEN [sockets[c] EXCEPT ![current[c]] = "closed"] ELSE sockets[c]
\* disconnect closes the socket in whatever state it is, and deafens it.
Dropped(c) ==
    IF current[c] # 0 THEN [sockets[c] EXCEPT ![current[c]] = "closed"] ELSE sockets[c]

\* The component unmounts.  The wrappers' clients take the badge down.
Unmount ==
    /\ mounted
    /\ mounted' = FALSE
    /\ sockets' = [c \in Channels |-> Dropped(c)]
    /\ current' = All(0)
    /\ timer' = All("none")
    /\ badge' = [c \in Channels |-> badge[c] /\ c \notin Wrapped]
    /\ UNCHANGED <<serving, outages, throws, mounts, delay>>

\* The handlers ignore a socket that is not the stream's own any more.
Heard(c, s) == mounted /\ current[c] = s

Opened(c, s) ==
    /\ sockets[c][s] = "connecting"
    /\ serving
    /\ sockets' = [sockets EXCEPT ![c][s] = "open"]
    /\ IF Heard(c, s)
       THEN delay' = [delay EXCEPT ![c] = 1] /\ badge' = [badge EXCEPT ![c] = TRUE]
       ELSE UNCHANGED <<delay, badge>>
    /\ UNCHANGED <<serving, outages, throws, mounted, mounts, current, timer>>

\* onerror and onclose, or onclose alone.
Closed(c, s) ==
    /\ sockets[c][s] # "closed"
    /\ ~serving
    /\ sockets' = [sockets EXCEPT ![c][s] = "closed"]
    /\ IF Heard(c, s)
       THEN /\ current' = [current EXCEPT ![c] = 0]
            /\ badge' = [badge EXCEPT ![c] = FALSE]
            /\ timer' = [timer EXCEPT ![c] = Scheduled(c, @)]
            /\ delay' = [delay EXCEPT ![c] = IF timer[c] = "none" THEN Longer(@) ELSE @]
       ELSE UNCHANGED <<current, badge, timer, delay>>
    /\ UNCHANGED <<serving, outages, throws, mounted, mounts>>

\* The timer's callback: connect, which returns when a socket is live.
TimerFires(c) ==
    /\ timer[c] = "armed"
    /\ LET pending == IF c \in Wrapped THEN "fired" ELSE "none"
       IN  IF Live(c)
           THEN timer' = [timer EXCEPT ![c] = pending] /\ UNCHANGED <<sockets, current, throws, delay>>
           ELSE Opening(c, pending) \/ Refused(c, HandleAfter(c, pending))
    /\ UNCHANGED <<serving, outages, mounted, mounts, badge>>

Outage ==
    /\ serving
    /\ outages < MaxOutages
    /\ serving' = FALSE /\ outages' = outages + 1
    /\ UNCHANGED <<throws, mounted, mounts, sockets, current, timer, delay, badge>>

Restored ==
    /\ ~serving
    /\ serving' = TRUE
    /\ UNCHANGED <<outages, throws, mounted, mounts, sockets, current, timer, delay, badge>>

StreamNext ==
    \/ Mount
    \/ Unmount
    \/ \E c \in Channels : \E s \in Slots : Opened(c, s) \/ Closed(c, s)
    \/ \E c \in Channels : TimerFires(c)
    \/ Outage
    \/ Restored

\* Timers fire, a handshake ends one way or the other, and an outage ends.
\* Nobody has to open the page or to leave it.
StreamFairness ==
    /\ \A c \in Channels :
          /\ WF_streams(TimerFires(c))
          /\ WF_streams(\E s \in Slots : Opened(c, s) \/ Closed(c, s))
    /\ WF_streams(Restored)

StreamSpec == StreamInit /\ [][StreamNext]_streams /\ StreamFairness
-----------------------------------------------------------------------------
\* A channel never has two sockets that are open or opening, counting those
\* of streams disposed of before: closes, timers and remounts never stack
\* connections.
OneSocket ==
    \A c \in Channels : Cardinality({s \in Slots : sockets[c][s] # "closed"}) <= 1

Online(c) == Live(c) /\ sockets[c][current[c]] = "open" /\ badge[c]

\* While the page is shown every channel gets online again after every
\* outage, and says so.
Reconnects == \A c \in Channels : mounted ~> (~mounted \/ Online(c))

\* What a comment fears and the code lets happen in one more place: a badge
\* that is on has an open socket behind it.  WorldStream leaves the badge of
\* the disposed stream on until its successor fails or opens.
BadgeHonest == \A c \in Channels : mounted /\ badge[c] => Live(c) /\ Online(c)
=============================================================================
