------------------------- MODULE WebSocketTransport -------------------------
(***************************************************************************)
(* The WebSocket transport's one connection and its receive loop.          *)
(* publish, subscribe and the loop itself all call _ensure_connected,      *)
(* which awaits the connection and then assigns it, so that two of them    *)
(* may connect at once and the later one takes the earlier one's place.    *)
(* What the loop receives it dispatches and asks for more: no state here.  *)
(***************************************************************************)
EXTENDS Integers, Sequences, FiniteSets

CONSTANTS Callers,           \* requests that publish or subscribe
          MaxDrops, MaxCalls \* bounds of the model

ASSUME TransportConstants == {MaxDrops, MaxCalls} \subseteq Nat

VARIABLES
    up,      \* whether the endpoint accepts connections
    drops,   \* how often it went away
    conns,   \* every connection made: whether it is open
    ws,      \* _ws: the current connection, or 0
    phase,   \* "open"; _closed holds while "closing" and "closed"
    task,    \* _receive_task: the last loop started, or 0
    loops,   \* every receive loop: where it is and on what connection
    calls,   \* where each caller is
    made     \* calls made so far

transport == <<up, drops, conns, ws, phase, task, loops, calls, made>>

closed == phase # "open"

Running(l) == loops[l].pc # "done"
IsOpen(c) == c # 0 /\ conns[c]
Listening == \E l \in DOMAIN loops : loops[l].pc = "recv" /\ IsOpen(loops[l].on)

Idle == [pc |-> "idle", on |-> 0]
At(pc, on) == [pc |-> pc, on |-> on]

TransportInit ==
    /\ up = TRUE /\ drops = 0
    /\ conns = <<>> /\ ws = 0
    /\ phase = "open"
    /\ task = 0 /\ loops = <<>>
    /\ calls = [c \in Callers |-> Idle] /\ made = 0

\* publish or subscribe up to its first await; a closed transport refuses to
\* publish but lets a subscriber connect.
Call(c) ==
    /\ calls[c] = Idle
    /\ made < MaxCalls
    /\ made' = made + 1
    /\ calls' = [calls EXCEPT ![c] = IF IsOpen(ws) THEN At("sending", ws) ELSE At("connecting", 0)]
    /\ UNCHANGED <<up, drops, conns, ws, phase, task, loops>>

LoopNeededOnReconnect == ws = 0
LoopNeeded == task = 0 \/ ~Running(task)

\* The awaited connection is there: it becomes the current one, whatever that
\* was, and a receive loop is started unless one runs.
Connected(c) ==
    LET n == Len(conns) + 1
    IN  /\ calls[c].pc = "connecting"
        /\ up
        /\ conns' = Append(conns, TRUE)
        /\ ws' = n
        /\ calls' = [calls EXCEPT ![c] = At("sending", n)]
        /\ IF LoopNeeded
           THEN loops' = Append(loops, At("top", 0)) /\ task' = Len(loops) + 1
           ELSE UNCHANGED <<loops, task>>
        /\ UNCHANGED <<up, drops, phase, made>>

\* It failed: the current connection is forgotten, whatever that was.
Failed(c) ==
    /\ calls[c].pc = "connecting"
    /\ ~up
    /\ ws' = 0
    /\ calls' = [calls EXCEPT ![c] = Idle]
    /\ UNCHANGED <<up, drops, conns, phase, task, loops, made>>

\* The send ends, with an error when the connection is gone.
Finish(c) ==
    /\ calls[c].pc = "sending"
    /\ calls' = [calls EXCEPT ![c] = Idle]
    /\ UNCHANGED <<up, drops, conns, ws, phase, task, loops, made>>

Goes(l, pc, on) == loops' = [loops EXCEPT ![l] = At(pc, on)]

\* The head of the receive loop.
LoopTop(l) ==
    /\ loops[l].pc = "top"
    /\ \/ closed /\ Goes(l, "done", 0)
       \/ ~closed /\ ws = 0 /\ Goes(l, "sleep", 0)
       \/ ~closed /\ ws # 0 /\ Goes(l, "recv", ws)
    /\ UNCHANGED <<up, drops, conns, ws, phase, task, calls, made>>

KeepsCurrent == ws
AfterLoss == 0

\* ConnectionClosed: the current connection is forgotten, whether or not it is
\* the one that was lost, and the loop sleeps.
LoopLoses(l) ==
    /\ loops[l].pc = "recv"
    /\ ~IsOpen(loops[l].on)
    /\ ws' = AfterLoss
    /\ Goes(l, "pause", 0)
    /\ UNCHANGED <<up, drops, conns, phase, task, calls, made>>

LoopWakes(l) ==
    /\ loops[l].pc \in {"sleep", "pause"}
    /\ Goes(l, IF loops[l].pc = "sleep" /\ ~IsOpen(ws) THEN "connecting" ELSE "top", 0)
    /\ UNCHANGED <<up, drops, conns, ws, phase, task, calls, made>>

LoopConnects(l) ==
    /\ loops[l].pc = "connecting"
    /\ IF up THEN conns' = Append(conns, TRUE) /\ ws' = Len(conns) + 1
             ELSE ws' = 0 /\ UNCHANGED conns
    /\ Goes(l, "top", 0)
    /\ UNCHANGED <<up, drops, phase, task, calls, made>>

\* close cancels the loop at its await and waits for it to end, ...
CloseBegin ==
    /\ ~closed
    /\ phase' = "closing"
    /\ loops' = IF task = 0 THEN loops ELSE [loops EXCEPT ![task] = At("done", 0)]
    /\ UNCHANGED <<up, drops, conns, ws, task, calls, made>>

\* ... then closes the current connection.
CloseEnd ==
    /\ phase = "closing"
    /\ phase' = "closed"
    /\ conns' = IF ws = 0 THEN conns ELSE [conns EXCEPT ![ws] = FALSE]
    /\ ws' = 0
    /\ UNCHANGED <<up, drops, task, loops, calls, made>>

\* The endpoint goes away, with every connection to it, and comes back.
Drop ==
    /\ up
    /\ drops < MaxDrops
    /\ up' = FALSE
    /\ drops' = drops + 1
    /\ conns' = [c \in DOMAIN conns |-> FALSE]
    /\ UNCHANGED <<ws, phase, task, loops, calls, made>>

Return ==
    /\ ~up
    /\ up' = TRUE
    /\ UNCHANGED <<drops, conns, ws, phase, task, loops, calls, made>>

LoopStep == \E l \in DOMAIN loops : LoopTop(l) \/ LoopLoses(l) \/ LoopWakes(l) \/ LoopConnects(l)

TransportNext ==
    \/ \E c \in Callers : Call(c) \/ Connected(c) \/ Failed(c) \/ Finish(c)
    \/ LoopStep
    \/ CloseBegin
    \/ CloseEnd
    \/ Drop
    \/ Return

\* The loop is scheduled and its sleeps end, what a caller awaits ends, and an
\* endpoint that went away comes back.  Nothing obliges anyone to publish.
TransportFairness ==
    /\ WF_transport(LoopStep)
    /\ \A c \in Callers : WF_transport(Connected(c) \/ Failed(c) \/ Finish(c))
    /\ WF_transport(Return)

TransportSpec == TransportInit /\ [][TransportNext]_transport /\ TransportFairness
-----------------------------------------------------------------------------
\* There is one receive loop at most, however calls, losses and close
\* interleave: no message is dispatched to a handler twice.
OneLoop == Cardinality({l \in DOMAIN loops : Running(l)}) <= 1

\* A loop that was started gets back to an open connection after every loss,
\* without anyone publishing.
LoopComesBack == (task # 0 /\ ~closed) ~> (closed \/ Listening)

\* What the documentation says and the code does not do.
\* "Start receive loop if not already running" (transport.py): a subscriber
\* whose first connection fails has no loop, and nobody tries again.
SubscriberListens == \A c \in Callers : calls[c].pc = "connecting" ~> (closed \/ Listening)

\* "Gracefully shut down the transport" (transport.py): a connection that was
\* being made when the transport closed stays open.
NothingLeftOpen ==
    (phase = "closed" /\ \A c \in Callers : calls[c] = Idle) => \A c \in DOMAIN conns : ~conns[c]
=============================================================================
