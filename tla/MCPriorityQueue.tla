-------------------------- MODULE MCPriorityQueue --------------------------
(* Model values of the runs of PriorityQueue; senders are interchangeable. *)
EXTENDS PriorityQueue, TLC

SenderSymmetry == Permutations(Sender)
=============================================================================
