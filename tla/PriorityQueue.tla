--------------------------- MODULE PriorityQueue ---------------------------
(***************************************************************************)
(* MessagePriorityQueue of services/messaging: four priority lanes, a      *)
(* capacity with shedding, and latest-state compaction through lazily      *)
(* reclaimed tombstones.                                                   *)
(*                                                                         *)
(* The four heaps are one set of entries that carry their lane: a heap of  *)
(* (order, sequence, message) tuples yields its least sequence number, and *)
(* sequence numbers are never reused, so the set determines every pop.     *)
(* Each method holds the queue's lock for its whole body and is one        *)
(* action.  Message bodies are left out; a time to live is the set         *)
(* "stale" of the queued sequence numbers whose TTL has elapsed, which     *)
(* Expire extends in any order because each message carries its own TTL.   *)
(***************************************************************************)
EXTENDS Integers, FiniteSets

CONSTANTS Sender,       \* sender_id values
          Capacity,     \* _capacity
          Compaction,   \* _compaction_enabled
          MaxSeq,       \* bound of the model on accepted messages
          MaxDropped    \* bound of the model on refused and shed messages

ASSUME QueueConstants ==
    /\ Capacity \in Nat \ {0}
    /\ Compaction \in BOOLEAN
    /\ MaxSeq \in Nat
    /\ MaxDropped \in Nat

VARIABLES queue,        \* _lanes: the entries of the four heaps
          latest,       \* _latest_by_sender, 0 where the sender has no key
          tombstones,   \* _tombstones
          seq,          \* _seq, which is also _total_enqueued
          dropped,      \* _total_dropped
          stale,        \* queued sequence numbers whose TTL has elapsed
          returned,     \* the entry the last call returned, or Nothing
          newest        \* history: last sequence accepted per lane and sender

queueVars == <<queue, latest, tombstones, seq, dropped, stale, returned, newest>>

Critical    == 0
Regional    == 1
Operational == 2
Analytics   == 3
Priority    == Critical .. Analytics

\* The lanes in which only the newest message of a sender is kept.
Compacted == IF Compaction THEN {Operational, Analytics} ELSE {}

Nothing  == [seq |-> 0]
Entry == [seq : Nat \ {0}, prio : Priority, sender : Sender]

Seqs(E) == {e.seq : e \in E}

Live  == {e \in queue : e.seq \notin tombstones}
Fresh == {e \in Live : e.seq \notin stale}

\* The size the code compares with its capacity.
TotalSize == Cardinality(queue) - Cardinality(tombstones)

\* The depth get_stats reports: the entries that no tombstone covers.
Depth == Cardinality(Live)

-----------------------------------------------------------------------------
QueueInit ==
    /\ queue = {}
    /\ latest = [p \in Priority |-> [s \in Sender |-> 0]]
    /\ tombstones = {}
    /\ seq = 0
    /\ dropped = 0
    /\ stale = {}
    /\ returned = Nothing
    /\ newest = [p \in Priority |-> [s \in Sender |-> 0]]

(***************************************************************************)
(* A "variant" is what a plausible bug would make of the definition below  *)
(* it; no specification uses one.                                          *)
(***************************************************************************)
\* Variant: one lane for all priorities.
DispatchByArrival(e, f) == e.seq < f.seq

\* Lane order, then first in first out within a lane.
DispatchBefore(e, f) == \/ e.prio < f.prio
                        \/ e.prio = f.prio /\ e.seq < f.seq

\* The order in which shedding looks for its victim: lowest lane, oldest first.
ShedBefore(e, f) == \/ e.prio > f.prio
                    \/ e.prio = f.prio /\ e.seq < f.seq

(***************************************************************************)
(* The entries "gone" leave the heaps: their tombstones go with them.      *)
(***************************************************************************)
Reclaimed(gone) == tombstones \ Seqs(gone)

(***************************************************************************)
(* The message of sender s joins lane p, in the queue "kept" with the      *)
(* tombstones "buried".  In a compacted lane the sender's tracked entry is *)
(* buried, whether or not it is still in the heap.                         *)
(***************************************************************************)
SupersedeNothing(p, s, buried) == buried        \* variant: no tombstone

\* Variant: the newcomer gets the tombstone.
SupersedeNewest(p, s, buried) ==
    IF p \in Compacted /\ latest[p][s] # 0 THEN buried \cup {seq + 1} ELSE buried

Supersede(p, s, buried) ==
    IF p \in Compacted /\ latest[p][s] # 0
    THEN buried \cup {latest[p][s]}
    ELSE buried

SameSeq == seq                                  \* variant: not incremented

NextSeq == seq + 1

Push(p, s, kept, buried) ==
    /\ seq' = NextSeq
    /\ queue' = kept \cup {[seq |-> NextSeq, prio |-> p, sender |-> s]}
    /\ tombstones' = Supersede(p, s, buried)
    /\ latest' = IF p \in Compacted
                 THEN [latest EXCEPT ![p][s] = NextSeq]
                 ELSE latest
    /\ newest' = [newest EXCEPT ![p][s] = NextSeq]
    /\ stale' = stale \cap Seqs(kept)
    /\ returned' = Nothing

(***************************************************************************)
(* enqueue of a message that has not expired, in its three outcomes.       *)
(***************************************************************************)
LowerOrEqual(p) == {e \in queue : e.prio >= p}    \* variant

Lower(p) == {e \in queue : e.prio > p}

\* Variant: off by one.
EnqueueOneTooMany(p, s) ==
    /\ seq < MaxSeq
    /\ TotalSize <= Capacity
    /\ Push(p, s, queue, tombstones)
    /\ UNCHANGED dropped

EnqueueWithRoom(p, s) ==
    /\ seq < MaxSeq
    /\ TotalSize < Capacity
    /\ Push(p, s, queue, tombstones)
    /\ UNCHANGED dropped


\* _shed_one removes the victim and the tombstoned entries ahead of it.
Shed(victim) == {e \in queue : ShedBefore(e, victim)} \cup {victim}

EnqueueByShedding(p, s) ==
    /\ seq < MaxSeq
    /\ dropped < MaxDropped
    /\ TotalSize >= Capacity
    /\ \E victim \in Live \cap Lower(p) :
         /\ \A e \in Live \cap Lower(p) : e = victim \/ ShedBefore(victim, e)
         /\ Push(p, s, queue \ Shed(victim), Reclaimed(Shed(victim)))
    /\ dropped' = dropped + 1

\* Nothing live below p: the search still empties those lanes of tombstones.
EnqueueRefused(p) ==
    /\ dropped < MaxDropped
    /\ TotalSize >= Capacity
    /\ Live \cap Lower(p) = {}
    /\ queue' = queue \ Lower(p)
    /\ tombstones' = Reclaimed(Lower(p))
    /\ stale' = stale \ Seqs(Lower(p))
    /\ dropped' = dropped + 1
    /\ returned' = Nothing
    /\ UNCHANGED <<latest, seq, newest>>

Enqueue(p, s) == \/ EnqueueWithRoom(p, s)
                 \/ EnqueueByShedding(p, s)
                 \/ EnqueueRefused(p)

(***************************************************************************)
(* dequeue returns the first entry in dispatch order that is neither       *)
(* tombstoned nor stale; what it passes over on the way is popped, and     *)
(* everything is when there is no such entry.                              *)
(***************************************************************************)
Passed(m) == {e \in queue : DispatchBefore(e, m)} \cup {m}

Forget(m) == IF m.prio \in Compacted /\ latest[m.prio][m.sender] = m.seq
             THEN [latest EXCEPT ![m.prio][m.sender] = 0]
             ELSE latest

DequeueMessage ==
    \E m \in Fresh :
        /\ \A e \in Fresh : e = m \/ DispatchBefore(m, e)
        /\ queue' = queue \ Passed(m)
        /\ tombstones' = Reclaimed(Passed(m))
        /\ stale' = stale \ Seqs(Passed(m))
        /\ latest' = Forget(m)
        /\ returned' = m
        /\ UNCHANGED <<seq, dropped, newest>>

DequeueNothing ==
    /\ Fresh = {}
    /\ queue # {} \/ returned # Nothing
    /\ queue' = {}
    /\ tombstones' = Reclaimed(queue)
    /\ stale' = {}
    /\ returned' = Nothing
    /\ UNCHANGED <<latest, seq, dropped, newest>>

\* The clock passes the TTL of one queued message.
Expire(e) ==
    /\ e.seq \notin stale
    /\ stale' = stale \cup {e.seq}
    /\ UNCHANGED <<queue, latest, tombstones, seq, dropped, returned, newest>>

QueueNext == \/ \E p \in Priority, s \in Sender : Enqueue(p, s)
             \/ DequeueMessage
             \/ DequeueNothing
             \/ \E e \in queue : Expire(e)

QueueSpec == QueueInit /\ [][QueueNext]_queueVars

-----------------------------------------------------------------------------
\* Types, and that no two entries share a sequence number already given out.
QueueTypeOK ==
    /\ queue \subseteq Entry
    /\ \A e \in queue : e.seq <= seq
    /\ \A e, f \in queue : e.seq = f.seq => e = f
    /\ latest \in [Priority -> [Sender -> Nat]]
    /\ tombstones \subseteq 1 .. seq
    /\ seq \in Nat
    /\ dropped \in Nat
    /\ stale \subseteq Seqs(queue)
    /\ returned \in Entry \cup {Nothing}
    /\ newest \in [Priority -> [Sender -> Nat]]

\* Latest-state compaction ("keep only the newest message per sender_id"):
\* whatever was shed, expired or dequeued in between, a compacted lane never
\* holds two messages of one sender that dequeue could both return.
OneLivePerSender ==
    \A e, f \in Live : e.prio \in Compacted /\ e.prio = f.prio /\ e.sender = f.sender
                          => e = f

\* A message that dequeue returns from a compacted lane is the newest that
\* lane ever accepted from its sender: a stale position never follows, or
\* overtakes, a newer one.
NeverSuperseded ==
    returned # Nothing /\ returned.prio \in Compacted
        => returned.seq = newest[returned.prio][returned.sender]

\* Dispatch order: what dequeue returned came before all it left behind, so no
\* lower lane overtakes a higher one and each lane is first in, first out.
DispatchOrder ==
    returned # Nothing =>
        \A e \in queue : \/ returned.prio < e.prio
                         \/ returned.prio = e.prio /\ returned.seq < e.seq

\* Backpressure never costs a safety message for a less important one: an
\* unexpired CRITICAL_SAFETY entry leaves the queue only through dequeue.
CriticalStays ==
    \A e \in Fresh : e.prio = Critical => \/ e \in Fresh' \cup {returned'}
                                          \/ e.seq \in stale'

CriticalKept == [][CriticalStays]_queueVars

\* The size the code compares with its capacity never exceeds it.
CountWithinCapacity == TotalSize <= Capacity

\* "Backpressure: when total queue exceeds capacity, shed lowest priority
\* first" (the class docstring): the messages really queued stay within the
\* capacity.
DepthWithinCapacity == Depth <= Capacity
=============================================================================
