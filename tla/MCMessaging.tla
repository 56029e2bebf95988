---------------------------- MODULE MCMessaging ----------------------------
(* The parts of the messaging service that share nothing -- store and       *)
(* forward, the connectivity monitor and the transport -- and the streams   *)
(* at the dashboard's end.  Exploring one while the others rest in their    *)
(* initial states, where fairness obliges none of them to move, visits      *)
(* every behaviour of each.                                                 *)
EXTENDS StoreForward, Connectivity, WebSocketTransport, StreamClient

MCEligible == [CRITICAL_LOCAL |-> {"FULL", "DIRECT_ONLY", "INTERMITTENT", "ISOLATED"},
               REGIONAL_SAFETY |-> {"FULL", "DIRECT_ONLY", "INTERMITTENT"},
               ANALYTICS |-> {"FULL"}]

MCKinds == {[class |-> "CRITICAL_LOCAL", ttl |-> 1], [class |-> "REGIONAL_SAFETY", ttl |-> 2],
            [class |-> "ANALYTICS", ttl |-> 1]}

MessagingInit == Init /\ MonitorInit /\ TransportInit /\ StreamInit

MessagingNext ==
    \/ MonitorInit /\ TransportInit /\ StreamInit /\ Next /\ UNCHANGED <<monitor, transport, streams>>
    \/ Init /\ TransportInit /\ StreamInit /\ MonitorNext /\ UNCHANGED <<vars, transport, streams>>
    \/ Init /\ MonitorInit /\ StreamInit /\ TransportNext /\ UNCHANGED <<vars, monitor, streams>>
    \/ Init /\ MonitorInit /\ TransportInit /\ StreamNext /\ UNCHANGED <<vars, monitor, transport>>

MessagingSpec ==
    /\ MessagingInit /\ [][MessagingNext]_<<vars, monitor, transport, streams>>
    /\ TransportFairness /\ StreamFairness
=============================================================================
