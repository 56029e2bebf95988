-------------------------- MODULE MessagingProofs --------------------------
(***************************************************************************)
(* Proofs about PriorityQueue, for every set of senders, every capacity    *)
(* and with compaction on or off, and about StoreForward, for every set of *)
(* messages, every table of eligibility and every lifetime.                *)
(*                                                                         *)
(* The queue: what makes compaction right is not the tombstones but that   *)
(* the tracking table always names the one live entry a sender has in a    *)
(* compacted lane (TrackedIsLive), and that a name left behind by shedding *)
(* or expiry never denotes an entry of another lane or sender              *)
(* (TrackedIsOwn), so that burying it can bury nothing else.               *)
(*                                                                         *)
(* The store: the index and the entries are inverse to each other          *)
(* (IndexFinds), so that a message and its entry can be exchanged: what    *)
(* a flush does entry by entry, the outbox does message by message.        *)
(***************************************************************************)
EXTENDS PriorityQueue, StoreForward, FunctionTheorems, FiniteSetTheorems, TLAPS

(* The priority queue. *)
\* The tracked sequence number of a live entry's sender is that entry's.
TrackedIsLive ==
    \A e \in Live : e.prio \in Compacted => latest[e.prio][e.sender] = e.seq

\* A tracked sequence number that is still queued is that sender's own entry.
TrackedIsOwn ==
    \A p \in Priority, s \in Sender, e \in queue :
        latest[p][s] = e.seq => e.prio = p /\ e.sender = s

\* A tracked number is the newest its lane accepted from the sender; a lane
\* that is not compacted tracks nobody.
TrackedIsNewest ==
    \A p \in Priority, s \in Sender :
        /\ newest[p][s] <= seq
        /\ latest[p][s] \in {0, newest[p][s]}
        /\ p \notin Compacted => latest[p][s] = 0

QueueInv ==
    /\ QueueTypeOK
    /\ TrackedIsLive
    /\ TrackedIsOwn
    /\ TrackedIsNewest
    /\ NeverSuperseded

-----------------------------------------------------------------------------
\* QueueInit establishes the inductive invariant: every table is empty.
LEMMA InitQueue == QueueInit => QueueInv
BY QueueConstants
   DEF QueueInit, QueueInv, QueueTypeOK, TrackedIsLive, TrackedIsOwn, TrackedIsNewest,
       NeverSuperseded, Live, Seqs, Entry, Nothing, Priority, Critical, Analytics

\* Accepting a message into what is left of the queue keeps the invariant,
\* whichever entries backpressure removed first.
LEMMA PushQueue ==
    ASSUME QueueInv, dropped' \in Nat,
           NEW p \in Priority, NEW s \in Sender,
           NEW kept \in SUBSET queue,
           NEW buried \in SUBSET tombstones,
           \A e \in kept : e.seq \in tombstones => e.seq \in buried,
           Push(p, s, kept, buried)
    PROVE  QueueInv'
<1> DEFINE new == [seq |-> seq + 1, prio |-> p, sender |-> s]
<1> USE DEF QueueInv, QueueTypeOK
<1>1. new \in Entry /\ new.seq = seq + 1 /\ new.prio = p /\ new.sender = s
  BY DEF Entry
<1>2. queue' = kept \cup {new} /\ seq' = seq + 1 /\ returned' = Nothing
  BY DEF Push, NextSeq
<1>3. \A e \in kept : e \in Entry /\ e.seq <= seq /\ e.seq # seq + 1
  BY DEF Entry
<1>4. tombstones' \subseteq 1 .. seq
  <2>1. latest[p][s] \in Nat /\ latest[p][s] <= seq
    BY DEF TrackedIsNewest
  <2>2. buried \subseteq 1 .. seq
    OBVIOUS
  <2>3. tombstones' \subseteq buried \cup ({latest[p][s]} \ {0})
    BY DEF Push, NextSeq, Supersede
  <2>4. QED
    BY <2>1, <2>2, <2>3
<1>5. QueueTypeOK'
  <2>1. queue' \subseteq Entry /\ \A e \in queue' : e.seq <= seq'
    BY <1>1, <1>2, <1>3 DEF Entry
  <2>2. \A e, f \in queue' : e.seq = f.seq => e = f
    BY <1>1, <1>2, <1>3
  <2>3. latest' \in [Priority -> [Sender -> Nat]] /\ newest' \in [Priority -> [Sender -> Nat]]
    BY DEF Push, NextSeq
  <2>4. stale' \subseteq Seqs(queue)'
    BY <1>2 DEF Push, NextSeq, Seqs
  <2>5. tombstones' \subseteq 1 .. seq'
    BY <1>2, <1>4
  <2>6. QED
    BY <1>2, <2>1, <2>2, <2>3, <2>4, <2>5 DEF Seqs, Priority
<1>6. Live' \subseteq Live \cup {new}
  BY <1>2, <1>3 DEF Push, NextSeq, Supersede, Live
<1>7. TrackedIsLive'
  <2> SUFFICES ASSUME NEW e \in Live', e.prio \in Compacted
               PROVE  latest'[e.prio][e.sender] = e.seq
    BY DEF TrackedIsLive, Compacted
  <2>1. CASE e = new
    BY <2>1, <1>1 DEF Push, NextSeq
  <2>2. CASE e # new
    <3>1. e \in Live /\ e \in kept /\ latest[e.prio][e.sender] = e.seq
      BY <2>2, <1>2, <1>6 DEF TrackedIsLive, Live
    <3>2. e.prio \in Priority /\ e.sender \in Sender /\ e.seq # 0
      BY <3>1, <1>3 DEF Entry
    <3>3. ~ (e.prio = p /\ e.sender = s)
      BY <3>1, <3>2 DEF Push, NextSeq, Supersede, Live
    <3>4. QED
      BY <3>1, <3>2, <3>3 DEF Push, NextSeq
  <2>3. QED
    BY <2>1, <2>2
<1>8. TrackedIsOwn'
  <2> SUFFICES ASSUME NEW q \in Priority, NEW t \in Sender, NEW e \in queue',
                      latest'[q][t] = e.seq
               PROVE  e.prio = q /\ e.sender = t
    BY DEF TrackedIsOwn
  <2>1. latest'[q][t] = latest[q][t] \/ (q = p /\ t = s /\ latest'[q][t] = seq + 1)
    BY DEF Push, NextSeq
  <2>2. latest[q][t] <= seq /\ latest[q][t] \in Nat
    BY DEF TrackedIsNewest
  <2>3. CASE e = new
    BY <2>1, <2>2, <2>3, <1>1
  <2>4. CASE e # new
    BY <2>1, <2>2, <2>4, <1>2, <1>3 DEF TrackedIsOwn
  <2>5. QED
    BY <2>3, <2>4
<1>9. TrackedIsNewest'
  <2> SUFFICES ASSUME NEW q \in Priority, NEW t \in Sender
               PROVE  /\ newest'[q][t] <= seq'
                      /\ latest'[q][t] \in {0, newest'[q][t]}
                      /\ q \notin Compacted => latest'[q][t] = 0
    BY DEF TrackedIsNewest, Compacted
  <2>1. /\ newest[q][t] <= seq /\ newest[q][t] \in Nat
        /\ latest[q][t] \in {0, newest[q][t]}
        /\ q \notin Compacted => latest[q][t] = 0
    BY DEF TrackedIsNewest
  <2>2. newest'[q][t] = IF q = p /\ t = s THEN seq + 1 ELSE newest[q][t]
    BY DEF Push, NextSeq
  <2>3. latest'[q][t] = IF p \in Compacted /\ q = p /\ t = s THEN seq + 1 ELSE latest[q][t]
    BY DEF Push, NextSeq
  <2>4. p \notin Compacted => latest'[q][t] = latest[q][t]
    BY <2>3
  <2>5. QED
    BY <2>1, <2>2, <2>3, <1>2
<1>10. NeverSuperseded'
  BY <1>2 DEF NeverSuperseded
<1>11. QED
  BY <1>5, <1>7, <1>8, <1>9, <1>10

\* Popping entries together with their tombstones keeps the invariant; "table"
\* is the tracking table afterwards, which may forget only popped entries.
LEMMA PopQueue ==
    ASSUME QueueInv, dropped' \in Nat, UNCHANGED <<seq, newest>>,
           NEW gone \in SUBSET queue,
           queue' = queue \ gone,
           tombstones' = Reclaimed(gone),
           stale' = stale \ Seqs(gone),
           latest' \in [Priority -> [Sender -> Nat]],
           \A p \in Priority, s \in Sender :
               \/ latest'[p][s] = latest[p][s]
               \/ latest'[p][s] = 0 /\ latest[p][s] \in Seqs(gone),
           returned' \in Entry \cup {Nothing},
           NeverSuperseded'
    PROVE  QueueInv'
<1> USE DEF QueueInv, QueueTypeOK
<1>1. \A e \in queue : e \in Entry /\ e.prio \in Priority /\ e.sender \in Sender
                                   /\ e.seq \in Nat /\ e.seq # 0
  BY DEF Entry
<1>2. \A e \in queue : e.seq \in Seqs(gone) => e \in gone
  BY DEF Seqs
<1>3. QueueTypeOK'
  <2>1. stale' \subseteq Seqs(queue)'
    BY DEF Seqs
  <2>2. tombstones' \subseteq 1 .. seq'
    BY DEF Reclaimed
  <2>3. /\ queue' \subseteq Entry
        /\ \A e \in queue' : e.seq <= seq'
        /\ \A e, f \in queue' : e.seq = f.seq => e = f
    OBVIOUS
  <2>4. QED
    BY <2>1, <2>2, <2>3 DEF Priority
<1>4. Live' \subseteq Live \ gone
  BY <1>2 DEF Live, Reclaimed
<1>5. TrackedIsLive'
  BY <1>1, <1>2, <1>4 DEF TrackedIsLive, Live, Compacted
<1>6. TrackedIsOwn'
  BY <1>1 DEF TrackedIsOwn
<1>7. TrackedIsNewest'
  BY DEF TrackedIsNewest, Compacted
<1>8. QED
  BY <1>3, <1>5, <1>6, <1>7

\* Every operation, and the passing of a TTL, keeps the inductive invariant.
LEMMA NextQueue == QueueInv /\ [QueueNext]_queueVars => QueueInv'
<1> SUFFICES ASSUME QueueInv, [QueueNext]_queueVars PROVE QueueInv'
  OBVIOUS
<1>0. QueueTypeOK /\ NeverSuperseded
  BY DEF QueueInv
<1>1. ASSUME NEW p \in Priority, NEW s \in Sender, EnqueueWithRoom(p, s)
      PROVE  QueueInv'
  <2>1. Push(p, s, queue, tombstones) /\ dropped' \in Nat
    BY <1>0, <1>1 DEF EnqueueWithRoom, QueueTypeOK
  <2>2. QED
    BY <2>1, PushQueue
<1>2. ASSUME NEW p \in Priority, NEW s \in Sender, EnqueueByShedding(p, s)
      PROVE  QueueInv'
  <2>1. PICK victim \in Live \cap Lower(p) :
               Push(p, s, queue \ Shed(victim), Reclaimed(Shed(victim)))
    BY <1>2 DEF EnqueueByShedding
  <2>2. \A e \in queue \ Shed(victim) : e.seq \notin Seqs(Shed(victim))
    BY <1>0, <2>1 DEF Seqs, Shed, Live, QueueTypeOK
  <2>3. /\ queue \ Shed(victim) \in SUBSET queue
        /\ Reclaimed(Shed(victim)) \in SUBSET tombstones
        /\ \A e \in queue \ Shed(victim) :
              e.seq \in tombstones => e.seq \in Reclaimed(Shed(victim))
    BY <2>2 DEF Reclaimed
  <2>4. dropped' \in Nat
    BY <1>0, <1>2 DEF EnqueueByShedding, QueueTypeOK
  <2>5. QED
    BY <2>1, <2>3, <2>4, PushQueue
<1>3. ASSUME NEW p \in Priority, EnqueueRefused(p)
      PROVE  QueueInv'
  <2>1. Lower(p) \in SUBSET queue
    BY DEF Lower
  <2>2. dropped' \in Nat /\ latest' \in [Priority -> [Sender -> Nat]] /\ NeverSuperseded'
    BY <1>0, <1>3 DEF EnqueueRefused, QueueTypeOK, NeverSuperseded
  <2>3. QED
    BY <1>3, <2>1, <2>2, PopQueue DEF EnqueueRefused
<1>4. CASE DequeueMessage
  <2>1. PICK m \in Fresh : /\ queue' = queue \ Passed(m)
                           /\ tombstones' = Reclaimed(Passed(m))
                           /\ stale' = stale \ Seqs(Passed(m))
                           /\ latest' = Forget(m)
                           /\ returned' = m
                           /\ UNCHANGED <<seq, dropped, newest>>
    BY <1>4 DEF DequeueMessage
  <2>2. m \in Live /\ m \in queue /\ m \in Entry
    BY <1>0 DEF Fresh, Live, QueueTypeOK
  <2>3. m.prio \in Priority /\ m.sender \in Sender /\ m.seq # 0
    BY <2>2 DEF Entry
  <2>4. Passed(m) \in SUBSET queue /\ m.seq \in Seqs(Passed(m))
    BY <2>2 DEF Passed, Seqs
  <2>5. NeverSuperseded'
    BY <2>1, <2>2, <2>3 DEF NeverSuperseded, QueueInv, TrackedIsLive, TrackedIsNewest, Compacted
  <2>6. latest' \in [Priority -> [Sender -> Nat]]
    BY <1>0, <2>1, <2>3 DEF Forget, QueueTypeOK
  <2>7. \A p \in Priority, s \in Sender :
               \/ latest'[p][s] = latest[p][s]
               \/ latest'[p][s] = 0 /\ latest[p][s] \in Seqs(Passed(m))
    BY <1>0, <2>1, <2>3, <2>4 DEF Forget, QueueTypeOK
  <2>8. dropped' \in Nat /\ returned' \in Entry \cup {Nothing}
    BY <1>0, <2>1, <2>2 DEF QueueTypeOK
  <2>9. QED
    BY <2>1, <2>4, <2>5, <2>6, <2>7, <2>8, PopQueue
<1>5. CASE DequeueNothing
  <2>1. queue' = queue \ queue /\ stale' = stale \ Seqs(queue)
    BY <1>0, <1>5 DEF DequeueNothing, QueueTypeOK
  <2>2. /\ dropped' \in Nat /\ latest' \in [Priority -> [Sender -> Nat]]
        /\ NeverSuperseded' /\ returned' \in Entry \cup {Nothing}
    BY <1>0, <1>5 DEF DequeueNothing, QueueTypeOK, NeverSuperseded
  <2>3. QED
    BY <1>5, <2>1, <2>2, PopQueue DEF DequeueNothing
<1>6. ASSUME NEW e \in queue, Expire(e)
      PROVE  QueueInv'
  BY <1>6 DEF Expire, QueueInv, QueueTypeOK, TrackedIsLive, TrackedIsOwn, TrackedIsNewest,
              NeverSuperseded, Live, Seqs, Compacted
<1>7. CASE UNCHANGED queueVars
  BY <1>7 DEF queueVars, QueueInv, QueueTypeOK, TrackedIsLive, TrackedIsOwn, TrackedIsNewest,
              NeverSuperseded, Live, Seqs, Compacted
<1>8. QED
  BY <1>1, <1>2, <1>3, <1>4, <1>5, <1>6, <1>7 DEF QueueNext, Enqueue

LEMMA QueueInvariance == QueueSpec => []QueueInv
BY InitQueue, NextQueue, PTL DEF QueueSpec

\* Every reachable state has the declared types, and no two queued entries
\* share a sequence number.
THEOREM QueueTypeCorrect == QueueSpec => []QueueTypeOK
<1>1. QueueInv => QueueTypeOK
  BY DEF QueueInv
<1>2. QED
  BY <1>1, QueueInvariance, PTL

\* A compacted lane never holds two live messages of one sender.
THEOREM CompactionUnique == QueueSpec => []OneLivePerSender
<1>1. QueueInv => OneLivePerSender
  BY DEF QueueInv, QueueTypeOK, TrackedIsLive, OneLivePerSender, Live
<1>2. QED
  BY <1>1, QueueInvariance, PTL

\* dequeue never returns a superseded message from a compacted lane.
THEOREM NewestWins == QueueSpec => []NeverSuperseded
<1>1. QueueInv => NeverSuperseded
  BY DEF QueueInv
<1>2. QED
  BY <1>1, QueueInvariance, PTL

-----------------------------------------------------------------------------
\* What dequeue returned precedes everything that stays: only dequeue returns
\* a message, and every other call clears the result.
LEMMA DispatchOrderStep == QueueInv /\ DispatchOrder /\ [QueueNext]_queueVars => DispatchOrder'
<1> SUFFICES ASSUME QueueInv, DispatchOrder, [QueueNext]_queueVars
             PROVE  DispatchOrder'
  OBVIOUS
<1>1. ASSUME NEW p \in Priority, NEW s \in Sender, Enqueue(p, s)
      PROVE  returned' = Nothing
  BY <1>1 DEF Enqueue, EnqueueWithRoom, EnqueueByShedding, EnqueueRefused, Push
<1>2. CASE DequeueMessage
  <2>1. PICK m \in Fresh : queue' = queue \ Passed(m) /\ returned' = m
    BY <1>2 DEF DequeueMessage
  <2>2. m \in queue /\ m \in Entry
    BY <2>1 DEF Fresh, Live, QueueInv, QueueTypeOK
  <2>3. ASSUME NEW e \in queue'
        PROVE  m.prio < e.prio \/ (m.prio = e.prio /\ m.seq < e.seq)
    <3>1. e \in queue /\ e \in Entry /\ ~DispatchBefore(e, m) /\ e # m
      BY <2>1, <2>3 DEF Passed, QueueInv, QueueTypeOK
    <3>2. e.seq # m.seq
      BY <2>2, <3>1 DEF QueueInv, QueueTypeOK
    <3>3. {e.prio, m.prio} \subseteq Int /\ {e.seq, m.seq} \subseteq Int
      BY <2>2, <3>1 DEF Entry, Priority, Critical, Analytics
    <3>4. QED
      BY <3>1, <3>2, <3>3 DEF DispatchBefore
  <2>4. QED
    BY <2>1, <2>3 DEF DispatchOrder
<1>3. CASE DequeueNothing
  BY <1>3 DEF DequeueNothing, DispatchOrder
<1>4. ASSUME NEW e \in queue, Expire(e)
      PROVE  UNCHANGED <<queue, returned>>
  BY <1>4 DEF Expire
<1>5. CASE UNCHANGED queueVars
  BY <1>5 DEF queueVars, DispatchOrder
<1>6. QED
  BY <1>1, <1>2, <1>3, <1>4, <1>5 DEF QueueNext, DispatchOrder

\* Higher lanes first, first in first out within a lane.
THEOREM InOrder == QueueSpec => []DispatchOrder
<1>1. QueueInit => DispatchOrder
  BY DEF QueueInit, DispatchOrder
<1>2. QED
  BY <1>1, DispatchOrderStep, QueueInvariance, PTL DEF QueueSpec

\* A step takes an unexpired critical message returned of the queue only by
\* returning it: shedding looks below the newcomer's lane, and the entry a
\* newcomer buries is in its own, compacted lane (TrackedIsOwn).
LEMMA CriticalStep ==
    ASSUME QueueInv, [QueueNext]_queueVars, NEW e \in Fresh, e.prio = Critical
    PROVE  e \in Fresh' \cup {returned'} \/ e.seq \in stale'
<1>1. /\ e \in queue /\ e \in Entry /\ e.seq \notin tombstones /\ e.seq \notin stale
      /\ e.prio = 0
  BY DEF Fresh, Live, QueueInv, QueueTypeOK, Critical
<1>2. ASSUME NEW p \in Priority, NEW s \in Sender, NEW kept \in SUBSET queue,
             NEW buried \in SUBSET tombstones, e \in kept,
             Push(p, s, kept, buried)
      PROVE  e \in Fresh'
  <2>1. e.seq \notin Supersede(p, s, buried)
    BY <1>1, <1>2 DEF Supersede, QueueInv, TrackedIsOwn, Compacted, Operational, Analytics
  <2>2. QED
    BY <1>1, <1>2, <2>1 DEF Push, Fresh, Live
<1>3. ASSUME NEW p \in Priority, NEW s \in Sender, Enqueue(p, s)
      PROVE  e \in Fresh'
  <2>1. CASE EnqueueWithRoom(p, s)
    BY <1>1, <1>2, <2>1 DEF EnqueueWithRoom
  <2>2. CASE EnqueueByShedding(p, s)
    <3>1. PICK v \in Live \cap Lower(p) :
                 Push(p, s, queue \ Shed(v), Reclaimed(Shed(v)))
      BY <2>2 DEF EnqueueByShedding
    <3>2. v.prio > 0 /\ v.prio \in Int
      BY <3>1 DEF Live, Lower, QueueInv, QueueTypeOK, Entry, Priority, Critical, Analytics
    <3>3. e \in queue \ Shed(v) /\ Reclaimed(Shed(v)) \in SUBSET tombstones
      BY <1>1, <3>2 DEF Shed, ShedBefore, Reclaimed
    <3>4. QED
      BY <1>2, <3>1, <3>3
  <2>3. CASE EnqueueRefused(p)
    <3>1. e \notin Lower(p)
      BY <1>1 DEF Lower, Priority, Critical, Analytics
    <3>2. QED
      BY <1>1, <2>3, <3>1 DEF EnqueueRefused, Reclaimed, Fresh, Live
  <2>4. QED
    BY <1>3, <2>1, <2>2, <2>3 DEF Enqueue
<1>4. CASE DequeueMessage
  <2>1. PICK m \in Fresh : /\ \A f \in Fresh : f = m \/ DispatchBefore(m, f)
                           /\ queue' = queue \ Passed(m)
                           /\ tombstones' = Reclaimed(Passed(m))
                           /\ stale' = stale \ Seqs(Passed(m))
                           /\ returned' = m
    BY <1>4 DEF DequeueMessage
  <2>2. CASE e = m
    BY <2>1, <2>2
  <2>3. CASE e # m
    <3>1. m \in Entry /\ {e.prio, m.prio} \subseteq Int /\ {e.seq, m.seq} \subseteq Int
      BY <1>1 DEF Fresh, Live, QueueInv, QueueTypeOK, Entry, Priority, Critical, Analytics
    <3>2. ~DispatchBefore(e, m)
      BY <2>1, <2>3, <3>1 DEF DispatchBefore
    <3>3. e \in queue'
      BY <1>1, <2>1, <2>3, <3>2 DEF Passed
    <3>4. QED
      BY <1>1, <2>1, <3>3 DEF Fresh, Live, Reclaimed
  <2>4. QED
    BY <2>2, <2>3
<1>5. CASE DequeueNothing
  BY <1>5 DEF DequeueNothing
<1>6. ASSUME NEW f \in queue, Expire(f)
      PROVE  e \in Fresh' \/ e.seq \in stale'
  BY <1>1, <1>6 DEF Expire, Fresh, Live
<1>7. CASE UNCHANGED queueVars
  BY <1>1, <1>7 DEF queueVars, Fresh, Live
<1>8. QED
  BY <1>3, <1>4, <1>5, <1>6, <1>7 DEF QueueNext

\* No unexpired critical message is ever sacrificed to backpressure.
THEOREM CriticalNeverShed == QueueSpec => CriticalKept
<1>1. QueueInv /\ [QueueNext]_queueVars => [CriticalStays]_queueVars
  BY CriticalStep DEF CriticalStays
<1>2. QED
  BY <1>1, QueueInvariance, PTL DEF QueueSpec, CriticalKept

-----------------------------------------------------------------------------
(* The store. *)
IInv == TypeOK /\ IndexFinds

\* Init establishes the inductive invariant: there are no entries.
LEMMA InitIInv == Init => IInv
BY StoreConstants DEF Init, IInv, TypeOK, IndexFinds

\* What the invariant says of one entry and of one message.
LEMMA OfEntry ==
    ASSUME IInv, NEW e \in DOMAIN entries
    PROVE  /\ entries[e] \in [id : Ids, at : Nat, kind : Kinds]
           /\ entries[e].id \in Ids
           /\ entries[e].at \in Nat
           /\ entries[e].kind \in Kinds
           /\ e \in Nat
           /\ seen[entries[e].id] = e
<1>1. entries[e] \in [id : Ids, at : Nat, kind : Kinds]
  BY DEF IInv, TypeOK
<1>2. e \in 1 .. stored /\ seen[entries[e].id] = e
  BY DEF IInv, TypeOK, IndexFinds
<1> QED BY <1>1, <1>2

LEMMA OfMessage ==
    ASSUME IInv, NEW k \in Ids, seen[k] # None
    PROVE  seen[k] \in DOMAIN entries /\ entries[seen[k]].id = k
BY DEF IInv, IndexFinds

\* Removing entries together with their messages' index leaves the rest in step.
LEMMA RemovalIInv ==
    ASSUME IInv,
           NEW gone \in SUBSET DOMAIN entries,
           entries' = Restrict(entries, DOMAIN entries \ gone),
           seen' = Unindexed(gone),
           clock' = clock, stored' = stored,
           forwarded' \in Nat, expired' \in Nat, out' \in Seq(Ids)
    PROVE  IInv'
<1> USE DEF IInv, TypeOK
<1>1. /\ DOMAIN entries' = DOMAIN entries \ gone
      /\ \A e \in DOMAIN entries' : entries'[e] = entries[e]
      /\ entries' \in [DOMAIN entries' -> [id : Ids, at : Nat, kind : Kinds]]
  BY DEF Restrict
<1>2. seen' \in [Ids -> Nat \cup {None}]
  BY DEF Unindexed
<1>3. IndexFinds'
  <2>1. /\ \A e \in DOMAIN entries : entries[e].id \in Ids /\ seen[entries[e].id] = e
        /\ \A k \in Ids : seen[k] # None =>
             seen[k] \in DOMAIN entries /\ entries[seen[k]].id = k
    BY OfEntry, OfMessage
  <2>2. \A k \in Ids : seen'[k] = IF seen[k] \in gone THEN None ELSE seen[k]
    BY DEF Unindexed
  <2>3. \A e \in DOMAIN entries' : seen'[entries'[e].id] = e
    <3> SUFFICES ASSUME NEW e \in DOMAIN entries'
                 PROVE  seen'[entries'[e].id] = e
      OBVIOUS
    <3>1. e \in DOMAIN entries /\ e \notin gone /\ entries'[e] = entries[e]
      BY <1>1
    <3>2. entries[e].id \in Ids /\ seen[entries[e].id] = e
      BY <2>1, <3>1
    <3> QED BY <2>2, <3>1, <3>2
  <2>4. \A k \in Ids : seen'[k] # None =>
           seen'[k] \in DOMAIN entries' /\ entries'[seen'[k]].id = k
    <3> SUFFICES ASSUME NEW k \in Ids, seen'[k] # None
                 PROVE  seen'[k] \in DOMAIN entries' /\ entries'[seen'[k]].id = k
      OBVIOUS
    <3>1. seen[k] \notin gone /\ seen'[k] = seen[k]
      BY <2>2
    <3>2. seen[k] \in DOMAIN entries /\ entries[seen[k]].id = k
      BY <2>1, <3>1
    <3> QED BY <1>1, <3>1, <3>2
  <2> QED BY <2>3, <2>4 DEF IndexFinds
<1> QED BY <1>1, <1>2, <1>3

\* The entries are finitely many, as their ids are bounded by the counter.
LEMMA EntriesFinite ==
    ASSUME IInv, NEW S \in SUBSET DOMAIN entries
    PROVE  IsFiniteSet(S) /\ Cardinality(S) \in Nat
<1>1. stored \in Int /\ S \in SUBSET (1 .. stored)
  BY DEF IInv, TypeOK
<1>2. IsFiniteSet(S)
  <2>1. IsFiniteSet(1 .. stored)
    BY <1>1, FS_Interval
  <2> QED BY <1>1, <2>1, FS_Subset
<1> QED BY <1>2, FS_CardinalityType

\* What a flush hands over are ids of messages.
LEMMA OutIsIds ==
    ASSUME IInv, NEW ready \in SUBSET DOMAIN entries, NEW ids \in SetToSeqs(ready)
    PROVE  [n \in DOMAIN ids |-> entries[ids[n]].id] \in Seq(Ids)
<1>1. ids \in [1 .. Cardinality(ready) -> ready] /\ Cardinality(ready) \in Nat
  BY EntriesFinite DEF SetToSeqs
<1>2. [n \in DOMAIN ids |-> entries[ids[n]].id] \in [1 .. Cardinality(ready) -> Ids]
  BY <1>1 DEF IInv, TypeOK
<1> QED BY <1>1, <1>2

-----------------------------------------------------------------------------
\* Storing a message that has no entry.
LEMMA StoreNewIInv ==
    ASSUME IInv, NEW k \in Ids, NEW at \in 0 .. clock, NEW kind \in Kinds,
           StoreNew(k, at, kind)
    PROVE  IInv'
<1> DEFINE new == [id |-> k, at |-> at, kind |-> kind]
           Record == [id : Ids, at : Nat, kind : Kinds]
<1>1. clock \in Nat /\ stored \in Nat /\ forwarded \in Nat /\ expired \in Nat
      /\ out \in Seq(Ids) /\ seen \in [Ids -> Nat \cup {None}]
      /\ DOMAIN entries \subseteq 1 .. stored
  BY DEF IInv, TypeOK
<1>2. stored + 1 \notin DOMAIN entries /\ stored + 1 # None
  BY <1>1, StoreConstants
<1>3. at \in Nat /\ new \in Record
  BY <1>1
<1>4. /\ DOMAIN entries' = DOMAIN entries \cup {stored + 1}
      /\ entries'[stored + 1] = new
      /\ \A e \in DOMAIN entries : entries'[e] = entries[e]
      /\ entries' = [e \in DOMAIN entries' |-> entries'[e]]
  BY <1>2 DEF StoreNew
<1>5. seen'[k] = stored + 1 /\ \A j \in Ids \ {k} : seen'[j] = seen[j]
  BY <1>1 DEF StoreNew
<1>6. TypeOK'
  <2>1. \A e \in DOMAIN entries' : entries'[e] \in Record
    BY <1>3, <1>4, OfEntry
  <2>2. entries' \in [DOMAIN entries' -> Record]
    BY <1>4, <2>1
  <2>3. seen' \in [Ids -> Nat \cup {None}]
    BY <1>1 DEF StoreNew
  <2>4. DOMAIN entries' \subseteq 1 .. stored'
    BY <1>1, <1>4 DEF StoreNew
  <2>5. clock' \in Nat /\ {stored, forwarded, expired}' \subseteq Nat /\ out' \in Seq(Ids)
    BY <1>1 DEF StoreNew
  <2> QED BY <2>2, <2>3, <2>4, <2>5 DEF TypeOK
<1>7. IndexFinds'
  <2>0. seen[k] = None /\ None \notin DOMAIN entries
    BY <1>1, StoreConstants DEF StoreNew
  <2>1. \A e \in DOMAIN entries : entries[e].id \in Ids /\ entries[e].id # k
    BY <2>0, OfEntry
  <2>2. \A e \in DOMAIN entries' : seen'[entries'[e].id] = e
    BY <1>4, <1>5, <2>1, OfEntry
  <2>3. \A j \in Ids : seen'[j] # None =>
           seen'[j] \in DOMAIN entries' /\ entries'[seen'[j]].id = j
    BY <1>4, <1>5, OfMessage
  <2> QED BY <2>2, <2>3 DEF IndexFinds
<1> QED BY <1>6, <1>7 DEF IInv

\* Storing a duplicate keeps its entry's message.
LEMMA StoreAgainIInv ==
    ASSUME IInv, NEW k \in Ids, NEW at \in 0 .. clock, NEW kind \in Kinds,
           StoreAgain(k, at, kind)
    PROVE  IInv'
<1> DEFINE Record == [id : Ids, at : Nat, kind : Kinds]
           old == entries[seen[k]]
<1>1. seen[k] \in DOMAIN entries /\ old \in Record /\ old.id = k
  BY OfMessage, OfEntry DEF StoreAgain
<1>2. at \in Nat
  BY DEF IInv, TypeOK
<1>3. Newer(old, at, kind) \in Record /\ Newer(old, at, kind).id = k
  BY <1>1, <1>2 DEF Newer
<1>4. /\ DOMAIN entries' = DOMAIN entries
      /\ entries'[seen[k]] = Newer(old, at, kind)
      /\ \A e \in DOMAIN entries \ {seen[k]} : entries'[e] = entries[e]
      /\ entries' = [e \in DOMAIN entries' |-> entries'[e]]
  BY <1>1 DEF StoreAgain
<1>5. \A e \in DOMAIN entries : entries'[e] \in Record /\ entries'[e].id = entries[e].id
  BY <1>1, <1>3, <1>4, OfEntry
<1>6. entries' \in [DOMAIN entries' -> Record]
  BY <1>4, <1>5
<1>7. TypeOK'
  BY <1>4, <1>6 DEF StoreAgain, IInv, TypeOK
<1>8. IndexFinds'
  BY <1>4, <1>5 DEF StoreAgain, IInv, IndexFinds
<1> QED BY <1>7, <1>8 DEF IInv

\* A flush removes what is too old and what it hands over.
LEMMA FlushIInv ==
    ASSUME IInv, NEW connectivity, Flush(connectivity)
    PROVE  IInv'
<1> DEFINE old == {e \in DOMAIN entries : TooOld(e)}
           ready == {e \in DOMAIN entries \ old : connectivity \in Eligible[entries[e].kind.class]}
<1>1. old \in SUBSET DOMAIN entries /\ ready \in SUBSET DOMAIN entries
  OBVIOUS
<1>2. Cardinality(old) \in Nat /\ Cardinality(ready) \in Nat
  BY <1>1, EntriesFinite
<1>3. expired' \in Nat /\ forwarded' \in Nat
  BY <1>2 DEF Flush, ExpiredAfter, IInv, TypeOK
<1>4. out' \in Seq(Ids)
  BY <1>1, OutIsIds DEF Flush
<1>5. /\ entries' = Restrict(entries, DOMAIN entries \ (old \cup ready))
      /\ seen' = Unindexed(old \cup ready)
      /\ clock' = clock /\ stored' = stored
  BY DEF Flush
<1> HIDE DEF old, ready
<1> QED BY <1>1, <1>3, <1>4, <1>5, RemovalIInv

\* A cleanup removes what is too old.
LEMMA CleanupIInv ==
    ASSUME IInv, Cleanup
    PROVE  IInv'
<1> DEFINE old == {e \in DOMAIN entries : TooOld(e)}
<1>1. old \in SUBSET DOMAIN entries
  OBVIOUS
<1>2. expired' \in Nat
  BY <1>1, EntriesFinite DEF Cleanup, ExpiredAfter, IInv, TypeOK
<1>3. /\ entries' = Restrict(entries, DOMAIN entries \ old) /\ seen' = Unindexed(old)
      /\ clock' = clock /\ stored' = stored /\ forwarded' = forwarded /\ out' = out
  BY DEF Cleanup
<1> HIDE DEF old
<1> QED BY <1>1, <1>2, <1>3, RemovalIInv DEF IInv, TypeOK

\* Every step keeps the inductive invariant.
LEMMA NextIInv == IInv /\ [Next]_vars => IInv'
<1> SUFFICES ASSUME IInv, [Next]_vars PROVE IInv'
  OBVIOUS
<1>1. ASSUME NEW k \in Ids, NEW at \in 0 .. clock, NEW kind \in Kinds,
             StoreNew(k, at, kind) \/ StoreAgain(k, at, kind)
      PROVE  IInv'
  BY <1>1, StoreNewIInv, StoreAgainIInv
<1>2. ASSUME NEW connectivity, Flush(connectivity) PROVE IInv'
  BY <1>2, FlushIInv
<1>3. CASE Cleanup
  BY <1>3, CleanupIInv
<1>4. CASE Tick
  BY <1>4 DEF Tick, IInv, TypeOK, IndexFinds
<1>5. CASE UNCHANGED vars
  BY <1>5 DEF vars, IInv, TypeOK, IndexFinds
<1> QED BY <1>1, <1>2, <1>3, <1>4, <1>5 DEF Next

\* store_forward keeps its types, and its index finds every entry and nothing
\* else: no message waits twice, and none removed is still taken for a duplicate.
THEOREM IndexAlwaysFinds == Spec => [](TypeOK /\ IndexFinds)
<1>1. Spec => []IInv
  BY InitIInv, NextIInv, PTL DEF Spec
<1> QED BY <1>1, PTL DEF IInv

-----------------------------------------------------------------------------
\* Every stored message is accounted for.
LEMMA InitAccounted == Init => AllAccounted
BY FS_EmptySet DEF Init, AllAccounted

\* Removing some entries leaves that many fewer.
LEMMA FewerEntries ==
    ASSUME IInv,
           NEW gone \in SUBSET DOMAIN entries,
           entries' = Restrict(entries, DOMAIN entries \ gone)
    PROVE  Cardinality(DOMAIN entries') = Cardinality(DOMAIN entries) - Cardinality(gone)
<1>1. IsFiniteSet(DOMAIN entries) /\ DOMAIN entries \cap gone = gone
  BY EntriesFinite
<1>2. DOMAIN entries' = DOMAIN entries \ gone
  BY DEF Restrict
<1> QED BY <1>1, <1>2, FS_Difference

LEMMA NextAccounted == IInv /\ AllAccounted /\ [Next]_vars => AllAccounted'
<1> SUFFICES ASSUME IInv, AllAccounted, [Next]_vars PROVE AllAccounted'
  OBVIOUS
<1>1. /\ IsFiniteSet(DOMAIN entries) /\ Cardinality(DOMAIN entries) \in Nat
      /\ stored \in Nat /\ forwarded \in Nat /\ expired \in Nat
      /\ DOMAIN entries \subseteq 1 .. stored
  BY EntriesFinite DEF IInv, TypeOK
<1>2. ASSUME NEW k \in Ids, NEW at \in 0 .. clock, NEW kind \in Kinds,
             StoreNew(k, at, kind)
      PROVE  AllAccounted'
  <2>1. DOMAIN entries' = DOMAIN entries \cup {stored + 1} /\ stored + 1 \notin DOMAIN entries
    BY <1>1, <1>2 DEF StoreNew
  <2>2. Cardinality(DOMAIN entries') = Cardinality(DOMAIN entries) + 1
    BY <1>1, <2>1, FS_AddElement
  <2> QED BY <1>1, <1>2, <2>2 DEF StoreNew, AllAccounted
<1>3. ASSUME NEW k \in Ids, NEW at \in 0 .. clock, NEW kind \in Kinds,
             StoreAgain(k, at, kind)
      PROVE  AllAccounted'
  BY <1>3 DEF StoreAgain, AllAccounted
<1>4. ASSUME NEW connectivity, Flush(connectivity) PROVE AllAccounted'
  <2> DEFINE old == {e \in DOMAIN entries : TooOld(e)}
             ready == {e \in DOMAIN entries \ old : connectivity \in Eligible[entries[e].kind.class]}
  <2>1. /\ old \cup ready \in SUBSET DOMAIN entries /\ old \cap ready = {}
        /\ IsFiniteSet(old) /\ IsFiniteSet(ready)
        /\ Cardinality(old) \in Nat /\ Cardinality(ready) \in Nat
    BY EntriesFinite
  <2>2. /\ entries' = Restrict(entries, DOMAIN entries \ (old \cup ready))
        /\ expired' = expired + Cardinality(old)
        /\ forwarded' = forwarded + Cardinality(ready)
        /\ stored' = stored
    BY <1>4 DEF Flush, ExpiredAfter
  <2> HIDE DEF old, ready
  <2>3. Cardinality(old \cup ready) = Cardinality(old) + Cardinality(ready)
    <3>1. Cardinality(old \cap ready) = 0
      BY <2>1, FS_EmptySet
    <3>2. Cardinality(old \cup ready)
            = Cardinality(old) + Cardinality(ready) - Cardinality(old \cap ready)
      BY <2>1, FS_Union
    <3> QED BY <2>1, <3>1, <3>2
  <2>4. Cardinality(DOMAIN entries') = Cardinality(DOMAIN entries) - Cardinality(old \cup ready)
    BY <2>1, <2>2, FewerEntries
  <2> QED BY <1>1, <2>1, <2>2, <2>3, <2>4 DEF AllAccounted
<1>5. CASE Cleanup
  <2> DEFINE old == {e \in DOMAIN entries : TooOld(e)}
  <2>1. old \in SUBSET DOMAIN entries /\ Cardinality(old) \in Nat
    BY EntriesFinite
  <2>2. /\ entries' = Restrict(entries, DOMAIN entries \ old)
        /\ expired' = expired + Cardinality(old)
        /\ stored' = stored /\ forwarded' = forwarded
    BY <1>5 DEF Cleanup, ExpiredAfter
  <2> HIDE DEF old
  <2>3. Cardinality(DOMAIN entries') = Cardinality(DOMAIN entries) - Cardinality(old)
    BY <2>1, <2>2, FewerEntries
  <2> QED BY <1>1, <2>1, <2>2, <2>3 DEF AllAccounted
<1>6. CASE Tick
  BY <1>6 DEF Tick, AllAccounted
<1>7. CASE UNCHANGED vars
  BY <1>7 DEF vars, AllAccounted
<1> QED BY <1>2, <1>3, <1>4, <1>5, <1>6, <1>7 DEF Next

\* The counters of store_forward lose nothing: every message that was ever
\* stored waits, was forwarded or has expired, and is counted once.
THEOREM EveryMessageAccounted == Spec => []AllAccounted
<1>1. Spec => []IInv
  BY InitIInv, NextIInv, PTL DEF Spec
<1> QED BY <1>1, InitAccounted, NextAccounted, PTL DEF Spec

-----------------------------------------------------------------------------
\* The outbox seen through entries and index.
BoxOf(k) == IF seen[k] = None THEN None
            ELSE [at |-> entries[seen[k]].at, kind |-> entries[seen[k]].kind]
Box == [k \in Ids |-> BoxOf(k)]

\* A message waits in the box exactly when it has an entry.
LEMMA BoxHolds ==
    ASSUME IInv, NEW k \in Ids
    PROVE  /\ Box[k] = None <=> seen[k] = None
           /\ seen[k] # None =>
                /\ Box[k].at = entries[seen[k]].at
                /\ Box[k].kind = entries[seen[k]].kind
<1>1. CASE seen[k] = None
  BY <1>1 DEF Box, BoxOf
<1>2. CASE seen[k] # None
  <2> DEFINE version == [at |-> entries[seen[k]].at, kind |-> entries[seen[k]].kind]
  <2>1. Box[k] = version
    BY <1>2 DEF Box, BoxOf
  <2>2. version \in [at : Nat, kind : Kinds]
    BY <1>2, OfMessage, OfEntry
  <2>3. version # None
    BY <2>2, StoreConstants
  <2> QED BY <1>2, <2>1, <2>3
<1> QED BY <1>1, <1>2

\* A message with an entry is too old when its entry is.
LEMMA SameAge ==
    ASSUME IInv, NEW k \in Ids, seen[k] # None
    PROVE  TooOld(seen[k]) <=> clock - Box[k].at > Box[k].kind.ttl
BY BoxHolds DEF TooOld

\* Removing entries removes their messages from the box.
LEMMA RemovalBox ==
    ASSUME IInv,
           NEW gone \in SUBSET DOMAIN entries,
           entries' = Restrict(entries, DOMAIN entries \ gone),
           seen' = Unindexed(gone)
    PROVE  Box' = [k \in Ids |-> IF seen[k] \in gone THEN None ELSE Box[k]]
<1> SUFFICES ASSUME NEW k \in Ids
             PROVE  Box'[k] = IF seen[k] \in gone THEN None ELSE Box[k]
  BY DEF Box
<1>1. seen'[k] = IF seen[k] \in gone THEN None ELSE seen[k]
  BY DEF Unindexed
<1>2. CASE seen[k] \in gone
  BY <1>1, <1>2 DEF Box, BoxOf
<1>3. CASE seen[k] = None /\ seen[k] \notin gone
  BY <1>1, <1>3 DEF Box, BoxOf
<1>4. CASE seen[k] # None /\ seen[k] \notin gone
  <2>1. seen[k] \in DOMAIN entries \ gone
    BY <1>4, OfMessage
  <2>2. entries'[seen[k]] = entries[seen[k]]
    BY <2>1 DEF Restrict
  <2> QED BY <1>1, <1>4, <2>2 DEF Box, BoxOf
<1> QED BY <1>2, <1>3, <1>4

-----------------------------------------------------------------------------
\* An empty store is an empty outbox.
LEMMA InitMaps == Init => Promise!Init
BY DEF Init, Promise!Init

\* Storing, new or again, offers.
LEMMA StoreNewMaps ==
    ASSUME IInv, NEW k \in Ids, NEW at \in 0 .. clock, NEW kind \in Kinds,
           StoreNew(k, at, kind)
    PROVE  Promise!Offer(k, at, kind)
<1>1. seen[k] = None /\ seen \in [Ids -> Nat \cup {None}]
      /\ stored + 1 \notin DOMAIN entries /\ stored + 1 # None
  BY StoreConstants DEF StoreNew, IInv, TypeOK
<1>2. seen'[k] = stored + 1 /\ \A j \in Ids \ {k} : seen'[j] = seen[j]
  BY <1>1 DEF StoreNew
<1>3. /\ entries'[stored + 1] = [id |-> k, at |-> at, kind |-> kind]
      /\ \A e \in DOMAIN entries : entries'[e] = entries[e]
  BY <1>1 DEF StoreNew
<1>4. Box'[k] = [at |-> at, kind |-> kind]
  BY <1>1, <1>2, <1>3 DEF Box, BoxOf
<1>5. \A j \in Ids \ {k} : Box'[j] = Box[j]
  BY <1>2, <1>3, OfMessage DEF Box, BoxOf
<1>6. Box[k] = None
  BY <1>1, BoxHolds
<1>7. Box' = [Box EXCEPT ![k] = IF @ = None \/ @.at < at THEN [at |-> at, kind |-> kind] ELSE @]
  BY <1>4, <1>5, <1>6 DEF Box
<1> QED BY <1>7 DEF Promise!Offer, StoreNew, Box, BoxOf

LEMMA StoreAgainMaps ==
    ASSUME IInv, NEW k \in Ids, NEW at \in 0 .. clock, NEW kind \in Kinds,
           StoreAgain(k, at, kind)
    PROVE  Promise!Offer(k, at, kind)
<1> DEFINE old == entries[seen[k]]
<1>1. seen[k] # None /\ seen' = seen
  BY DEF StoreAgain
<1>2. seen[k] \in DOMAIN entries /\ old \in [id : Ids, at : Nat, kind : Kinds]
  BY <1>1, OfMessage, OfEntry
<1>3. /\ entries'[seen[k]] = Newer(old, at, kind)
      /\ \A e \in DOMAIN entries \ {seen[k]} : entries'[e] = entries[e]
  BY <1>2 DEF StoreAgain
<1>4. at \in Nat /\ old.at \in Nat
  BY <1>2 DEF IInv, TypeOK
<1>5. \A j \in Ids \ {k} : Box'[j] = Box[j]
  <2> SUFFICES ASSUME NEW j \in Ids \ {k} PROVE Box'[j] = Box[j]
    OBVIOUS
  <2>1. CASE seen[j] = None
    BY <1>1, <2>1 DEF Box, BoxOf
  <2>2. CASE seen[j] # None
    <3>1. seen[j] \in DOMAIN entries /\ seen[j] # seen[k]
      BY <1>1, <2>2, OfMessage
    <3>2. entries'[seen[j]] = entries[seen[j]]
      BY <1>3, <3>1
    <3> QED BY <1>1, <2>2, <3>2 DEF Box, BoxOf
  <2> QED BY <2>1, <2>2
<1>6. Box[k] = [at |-> old.at, kind |-> old.kind] /\ Box[k] # None
  BY <1>1, BoxHolds DEF Box, BoxOf
<1>7. Box'[k] = IF Box[k].at < at THEN [at |-> at, kind |-> kind] ELSE Box[k]
  BY <1>1, <1>2, <1>3, <1>4, <1>6 DEF Newer, Box, BoxOf
<1>8. Box' = [Box EXCEPT ![k] = IF @ = None \/ @.at < at THEN [at |-> at, kind |-> kind] ELSE @]
  BY <1>5, <1>6, <1>7 DEF Box
<1> QED BY <1>8 DEF Promise!Offer, StoreAgain, Box, BoxOf

\* A cleanup purges.
LEMMA CleanupMaps ==
    ASSUME IInv, Cleanup
    PROVE  Promise!Purge
<1> DEFINE old == {e \in DOMAIN entries : TooOld(e)}
<1>1. old \in SUBSET DOMAIN entries
      /\ entries' = Restrict(entries, DOMAIN entries \ old) /\ seen' = Unindexed(old)
  BY DEF Cleanup
<1>2. \A k \in Ids : seen[k] \in old <=> Box[k] # None /\ clock - Box[k].at > Box[k].kind.ttl
  <2> TAKE k \in Ids
  <2>1. CASE seen[k] = None
    BY <2>1, StoreConstants, BoxHolds DEF IInv, TypeOK
  <2>2. CASE seen[k] # None
    BY <2>2, BoxHolds, SameAge, OfMessage
  <2> QED BY <2>1, <2>2
<1> HIDE DEF old
<1>3. Box' = [k \in Ids |-> IF seen[k] \in old THEN None ELSE Box[k]]
  BY <1>1, RemovalBox
<1>4. Box' = [k \in Ids |-> IF k \in {j \in Ids : Box[j] # None} /\ clock - Box[k].at > Box[k].kind.ttl
                             THEN None ELSE Box[k]]
  BY <1>2, <1>3
<1> QED BY <1>4 DEF Promise!Purge, Promise!Waiting, Promise!TooOld, Cleanup, Box, BoxOf

\* Exchanging entries for messages maps the entries handed over one to one to
\* the messages handed over, so that a sequence of the ones is one of the others.
LEMMA SequencesMap ==
    ASSUME IInv,
           NEW ready \in SUBSET DOMAIN entries,
           NEW ids \in SetToSeqs(ready)
    PROVE  [n \in DOMAIN ids |-> entries[ids[n]].id]
             \in SetToSeqs({entries[e].id : e \in ready})
<1> DEFINE messages == {entries[e].id : e \in ready}
           named == [e \in ready |-> entries[e].id]
           names == [n \in DOMAIN ids |-> entries[ids[n]].id]
<1>1. IsFiniteSet(ready)
  BY EntriesFinite
<1>2. named \in Bijection(ready, messages)
  <2>1. \A d, e \in ready : entries[d].id = entries[e].id => d = e
    BY OfEntry
  <2> QED BY <2>1, Fun_IsBij
<1>3. Cardinality(messages) = Cardinality(ready)
  BY <1>1, <1>2, FS_Bijection DEF ExistsBijection
<1>4. /\ ids \in [1 .. Cardinality(ready) -> ready]
      /\ \A i, j \in 1 .. Cardinality(ready) : i # j => ids[i] # ids[j]
  BY DEF SetToSeqs
<1>5. names \in [1 .. Cardinality(messages) -> messages]
  BY <1>3, <1>4
<1>6. \A i, j \in 1 .. Cardinality(messages) : i # j => names[i] # names[j]
  <2> TAKE i, j \in 1 .. Cardinality(messages)
  <2> HAVE i # j
  <2>1. ids[i] \in ready /\ ids[j] \in ready /\ ids[i] # ids[j]
    BY <1>3, <1>4
  <2>2. seen[entries[ids[i]].id] = ids[i] /\ seen[entries[ids[j]].id] = ids[j]
    BY <2>1, OfEntry
  <2> QED BY <1>3, <1>4, <2>1, <2>2
<1> QED BY <1>5, <1>6 DEF SetToSeqs

LEMMA SameSequences == \A S : Promise!SetToSeqs(S) = SetToSeqs(S)
BY DEF Promise!SetToSeqs, SetToSeqs, Promise!Cardinality, Cardinality

\* Both rank the classes alike.
LEMMA SameUrgency ==
    ASSUME NEW kind \in Kinds
    PROVE  Urgency(kind.class) = Promise!Urgency(kind.class) /\ Urgency(kind.class) \in Nat
BY StoreConstants DEF Urgency, Promise!Urgency

\* A flush hands over.
LEMMA FlushMaps ==
    ASSUME IInv, NEW connectivity, Flush(connectivity)
    PROVE  Promise!HandOver(connectivity)
<1> DEFINE old == {e \in DOMAIN entries : TooOld(e)}
           ready == {e \in DOMAIN entries \ old : connectivity \in Eligible[entries[e].kind.class]}
           goes(k) == /\ Box[k] # None
                      /\ ~(clock - Box[k].at > Box[k].kind.ttl)
                      /\ connectivity \in Eligible[Box[k].kind.class]
           going == {k \in Ids : goes(k)}
<1>1. PICK ids \in SetToSeqs(ready) :
         /\ \A i, j \in DOMAIN ids : i < j => Before(ids[i], ids[j])
         /\ out' = [n \in DOMAIN ids |-> entries[ids[n]].id]
  BY DEF Flush
<1>2. /\ old \cup ready \in SUBSET DOMAIN entries /\ ready \in SUBSET DOMAIN entries
      /\ entries' = Restrict(entries, DOMAIN entries \ (old \cup ready))
      /\ seen' = Unindexed(old \cup ready)
      /\ clock' = clock
  BY DEF Flush
<1>3. \A k \in Ids : seen[k] = None => Box[k] = None /\ seen[k] \notin old \cup ready
  BY StoreConstants, BoxHolds DEF IInv, TypeOK
<1>4. \A k \in Ids : seen[k] \in old <=> Box[k] # None /\ clock - Box[k].at > Box[k].kind.ttl
  BY <1>3, BoxHolds, SameAge, OfMessage
<1>5. \A k \in Ids : seen[k] \in ready <=> goes(k)
  BY <1>3, <1>4, BoxHolds, OfMessage
<1>6. {entries[e].id : e \in ready} = going
  <2>1. \A e \in ready : entries[e].id \in going
    BY <1>2, <1>5, OfEntry
  <2>2. \A k \in going : seen[k] \in ready /\ entries[seen[k]].id = k
    BY <1>3, <1>5, OfMessage
  <2> QED BY <2>1, <2>2
<1>7. out' \in SetToSeqs(going)
  BY <1>1, <1>2, <1>6, SequencesMap
<1>8. /\ DOMAIN out' = DOMAIN ids
      /\ \A i \in DOMAIN ids : ids[i] \in ready /\ out'[i] = entries[ids[i]].id
  BY <1>1 DEF SetToSeqs
<1>9. \A i \in DOMAIN ids : Box[out'[i]].kind = entries[ids[i]].kind
                            /\ entries[ids[i]].kind \in Kinds
  BY <1>2, <1>8, OfEntry, BoxHolds, StoreConstants DEF IInv, TypeOK
<1>10. \A i, j \in DOMAIN out' : i < j =>
          Promise!Urgency(Box[out'[i]].kind.class) <= Promise!Urgency(Box[out'[j]].kind.class)
  BY <1>1, <1>8, <1>9, SameUrgency DEF Before
<1>11. Box' = [k \in Ids |-> IF seen[k] \in old \cup ready THEN None ELSE Box[k]]
  BY <1>2, RemovalBox
<1>12. Box' = [k \in Ids |-> IF k \in going \/ (k \in {j \in Ids : Box[j] # None}
                                                 /\ clock - Box[k].at > Box[k].kind.ttl)
                             THEN None ELSE Box[k]]
  BY <1>4, <1>5, <1>11
<1>13. going = {k \in {j \in Ids : Box[j] # None} : /\ ~(clock - Box[k].at > Box[k].kind.ttl)
                                                   /\ connectivity \in Eligible[Box[k].kind.class]}
  OBVIOUS
<1>14. Promise!Waiting = {j \in Ids : Box[j] # None}
  BY DEF Promise!Waiting, Box, BoxOf
<1>15. \A k \in Ids : Promise!TooOld(k) <=> clock - Box[k].at > Box[k].kind.ttl
  BY DEF Promise!TooOld, Box, BoxOf
<1>16. going = {k \in Promise!Waiting : ~Promise!TooOld(k) /\ connectivity \in Eligible[Box[k].kind.class]}
  BY <1>13, <1>14, <1>15
<1>17. Box' = [k \in Ids |-> IF k \in going \/ (k \in Promise!Waiting /\ Promise!TooOld(k))
                             THEN None ELSE Box[k]]
  BY <1>12, <1>14, <1>15
<1> DEFINE due == {k \in Promise!Waiting : ~Promise!TooOld(k) /\ connectivity \in Eligible[Box[k].kind.class]}
<1>18. ASSUME /\ out' \in SetToSeqs(due)
              /\ \A i, j \in DOMAIN out' : i < j =>
                    Promise!Urgency(Box[out'[i]].kind.class) <= Promise!Urgency(Box[out'[j]].kind.class)
              /\ Box' = [k \in Ids |-> IF k \in due \/ (k \in Promise!Waiting /\ Promise!TooOld(k))
                                       THEN None ELSE Box[k]]
              /\ UNCHANGED clock
       PROVE  Promise!HandOver(connectivity)
  BY <1>18, SameSequences DEF Promise!HandOver, Box, BoxOf
<1> HIDE DEF going, goes, ready, old
<1> QED BY <1>2, <1>7, <1>10, <1>16, <1>17, <1>18

LEMMA NextMaps == IInv /\ [Next]_vars => [Promise!Next]_Promise!vars
<1> SUFFICES ASSUME IInv, [Next]_vars PROVE [Promise!Next]_Promise!vars
  OBVIOUS
<1>1. ASSUME NEW k \in Ids, NEW at \in 0 .. clock, NEW kind \in Kinds,
             StoreNew(k, at, kind) \/ StoreAgain(k, at, kind)
      PROVE  Promise!Next
  BY <1>1, StoreNewMaps, StoreAgainMaps DEF Promise!Next
<1>2. ASSUME NEW connectivity \in UNION {Eligible[kind.class] : kind \in Kinds}, Flush(connectivity)
      PROVE  Promise!Next
  BY <1>2, FlushMaps DEF Promise!Next
<1>3. CASE Cleanup
  BY <1>3, CleanupMaps DEF Promise!Next
<1>4. CASE Tick
  BY <1>4 DEF Tick, Promise!Tick, Promise!Next
<1>5. CASE UNCHANGED vars
  BY <1>5 DEF vars, Promise!vars
<1> QED BY <1>1, <1>2, <1>3, <1>4, <1>5 DEF Next

\* The store-and-forward manager implements the outbox: however messages are
\* stored, superseded, expired and flushed, the newest version of each is
\* handed over once, the urgent ones first, and none that is too old.
THEOREM ImplementsOutbox == Spec => KeepsPromise
<1>1. Spec => []IInv
  BY InitIInv, NextIInv, PTL DEF Spec
<1> QED BY <1>1, InitMaps, NextMaps, PTL DEF Spec, KeepsPromise, Promise!Spec
=============================================================================
