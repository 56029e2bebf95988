--------------------------- MODULE GatewayProofs ---------------------------
(***************************************************************************)
(* Proofs about WorldState, for every fleet, number of dashboards, queue   *)
(* and wire, and about TelemetryFeed, for every set of tabs and views,     *)
(* every fleet and every lease, and about SignalLoop, for every timing.    *)
(*                                                                         *)
(* The stream: objects are numbered in the order they are stored, so it is *)
(* enough that what a dashboard shows of an actor, what is on the wire and *)
(* what is queued for it follow each other in that order, and that nothing *)
(* already sent is newer than what the world holds (InOrder).  A delta     *)
(* that names an object the world held before is safe only because nothing *)
(* overtakes the frame that carries it (FrameInv).  A dashboard catches up *)
(* because of every entry the last message on its way tells what is held,  *)
(* while the open frame has not told yet of what it has stored (Untold);   *)
(* an edit behind a queued message harms no other entity, for a vehicle    *)
(* shares its object with nothing (OwnNumbers).                            *)
(*                                                                         *)
(* The tabs: a simulation never gives an id out twice, so an actor that    *)
(* has left is in no later batch; and a tab has one publication under way, *)
(* so what it deletes is in no batch that is still to land (Own).  While   *)
(* one tab publishes that is all there is (Fed).  A tab that owns the      *)
(* lease has asked for it at least as recently as it was lost (Leased).    *)
(*                                                                         *)
(* The loop: one frame of telemetry is on its way at a time (OneFrame).    *)
(***************************************************************************)
EXTENDS WorldState, TelemetryFeed, SignalLoop, FiniteSetTheorems, TLAPS

(* The stream and the dashboards. *)
Connectivity == Mode \cup {"unset"}

Queued == [kind : {"snapshot", "delta"}, upserts : SUBSET (Key \X Nat), deletes : SUBSET Key,
           riskUpserts : SUBSET Risk, riskDeletes : SUBSET Risk, mode : Connectivity]
OnWire == [kind : {"snapshot", "delta"}, upserts : SUBSET (Key \X (Nat \X BOOLEAN)),
           deletes : SUBSET Key,
           riskUpserts : SUBSET Risk, riskDeletes : SUBSET Risk, mode : Connectivity]
Screen == [world : [Key -> Nat \X BOOLEAN], risks : SUBSET Risk, mode : Connectivity]

WorldTypes ==
    /\ world \in [Key -> Nat] /\ stored \in Nat
    /\ risks \subseteq Risk /\ mode \in Connectivity
    /\ link \in [Client -> BOOLEAN]
    /\ queue \in [Client -> Seq(Queued)]
    /\ wire \in [Client -> Seq(OnWire)]
    /\ view \in [Client -> Screen]

\* Message i of the queue, or of the wire, carries object n for key k.
InQueue(c, i, k, n) == i \in 1 .. Len(queue[c]) /\ <<k, n>> \in queue[c][i].upserts
InWire(c, i, k, n) ==
    i \in 1 .. Len(wire[c]) /\ \E b \in BOOLEAN : <<k, <<n, b>>>> \in wire[c][i].upserts

Shows(c, k) == view[c].world[k][1]

\* No newer object than k's own has been given the number.
NotNewer(k, n) == n <= stored /\ (world[k] # Absent => n <= world[k])

\* What a dashboard shows of a key, what is on the wire and what is queued
\* for it follow each other in the order of their numbers.
InOrder(c, k) ==
    /\ NotNewer(k, Shows(c, k))
    /\ \A i \in Nat, n \in Nat : InWire(c, i, k, n) \/ InQueue(c, i, k, n) =>
          NotNewer(k, n) /\ Shows(c, k) <= n
    /\ \A i, j, m, n \in Nat :
          /\ InWire(c, i, k, m) /\ InWire(c, j, k, n) /\ i < j => m <= n
          /\ InQueue(c, i, k, m) /\ InQueue(c, j, k, n) /\ i < j => m <= n
          /\ InWire(c, i, k, m) /\ InQueue(c, j, k, n) => m <= n

StreamInv ==
    /\ WorldTypes
    /\ \A k \in Key : world[k] <= stored
    /\ \A c \in Client : ~link[c] => queue[c] = << >> /\ wire[c] = << >>
    /\ \A c \in Client, k \in Key : InOrder(c, k)

\* Nothing overtakes a frame that does not suspend.
FrameInv ==
    frame # NoFrame =>
        /\ frame \in Frame
        /\ \A d \in frame.done : d[2] = world[d[1]] /\ d[2] # Absent /\ d[1] \notin frame.vehicles

WorldInv == StreamInv /\ FrameInv

-----------------------------------------------------------------------------
LEMMA InitWorld == Init => WorldInv
<1> SUFFICES ASSUME Init PROVE WorldInv
  OBVIOUS
<1>1. \A k \in Key : <<Absent, FALSE>> \in Nat \X BOOLEAN /\ <<Absent, FALSE>>[1] = 0
  BY DEF Absent
<1>2. NoView \in Screen /\ \A k \in Key : NoView.world[k][1] = 0
  BY <1>1 DEF NoView, Screen, Connectivity
<1>3. WorldTypes
  BY <1>2 DEF Init, WorldTypes, Connectivity, Absent
<1>4. ASSUME NEW c \in Client PROVE queue[c] = << >> /\ wire[c] = << >>
  BY DEF Init
<1>5. ASSUME NEW c \in Client, NEW k \in Key PROVE InOrder(c, k)
  <2>1. Shows(c, k) = 0 /\ world[k] = Absent /\ stored = 0
    BY <1>2 DEF Init, Shows
  <2>2. \A i, n : ~InQueue(c, i, k, n) /\ ~InWire(c, i, k, n)
    BY <1>4 DEF InQueue, InWire
  <2> QED BY <2>1, <2>2 DEF InOrder, NotNewer
<1> QED BY <1>3, <1>4, <1>5 DEF Init, WorldInv, StreamInv, FrameInv, Absent

\* What the world does to an old number: it stays old.
LEMMA StaysOld ==
    ASSUME StreamInv, NEW k \in Key, NEW n \in Nat, NotNewer(k, n),
           stored' \in Nat, stored <= stored',
           world'[k] \in {world[k], Absent, stored'}
    PROVE  NotNewer(k, n)'
BY DEF NotNewer, StreamInv, WorldTypes, Absent

\* The world moves on and no message is sent.
LEMMA WorldMoves ==
    ASSUME StreamInv, UNCHANGED streams,
           stored' \in Nat, stored <= stored', world' \in [Key -> Nat],
           \A k \in Key : world'[k] \in {world[k], Absent, stored'},
           risks' \subseteq Risk, mode' \in Connectivity
    PROVE  StreamInv'
<1>1. WorldTypes'
  <2>1. (world \in [Key -> Nat])' /\ (stored \in Nat)'
    OBVIOUS
  <2>2. (risks \subseteq Risk)' /\ (mode \in Connectivity)'
    OBVIOUS
  <2>3. (link \in [Client -> BOOLEAN])' /\ (queue \in [Client -> Seq(Queued)])'
    BY DEF StreamInv, WorldTypes, streams
  <2>4. (wire \in [Client -> Seq(OnWire)])'
    BY DEF StreamInv, WorldTypes, streams
  <2>5. (view \in [Client -> Screen])'
    BY DEF StreamInv, WorldTypes, streams
  <2> QED BY <2>1, <2>2, <2>3, <2>4, <2>5 DEF WorldTypes
<1>2. ASSUME NEW k \in Key PROVE world'[k] <= stored'
  <2>1. stored \in Nat /\ world[k] <= stored /\ world[k] \in Nat
    BY DEF StreamInv, WorldTypes
  <2>2. world'[k] \in {world[k], Absent, stored'}
    OBVIOUS
  <2> QED BY <2>1, <2>2 DEF Absent
<1>3. \A c \in Client : (~link[c] => queue[c] = << >> /\ wire[c] = << >>)'
  BY DEF StreamInv, streams
<1>4. ASSUME NEW c \in Client, NEW k \in Key PROVE InOrder(c, k)'
  <2>1. InOrder(c, k) /\ view[c] \in Screen
    BY DEF StreamInv, WorldTypes
  <2>2. Shows(c, k) \in Nat
    BY <2>1 DEF Shows, Screen
  <2>3. \A n \in Nat : NotNewer(k, n) => NotNewer(k, n)'
    BY StaysOld
  <2>4. /\ Shows(c, k)' = Shows(c, k)
        /\ \A i, n : InQueue(c, i, k, n)' = InQueue(c, i, k, n) /\ InWire(c, i, k, n)' = InWire(c, i, k, n)
    BY DEF Shows, InQueue, InWire, streams
  <2>5. NotNewer(k, Shows(c, k))'
    <3>1. PICK x \in Nat : x = Shows(c, k) /\ x = Shows(c, k)'
      BY <2>2, <2>4
    <3>2. NotNewer(k, x)'
      BY <2>1, <2>3, <3>1 DEF InOrder
    <3> QED BY <3>1, <3>2 DEF NotNewer
  <2> QED BY <2>1, <2>3, <2>4, <2>5 DEF InOrder
<1> QED BY <1>1, <1>2, <1>3, <1>4 DEF StreamInv

\* The world moves on and the dashboards are told: of new objects, or of
\* those the world holds.
LEMMA WorldTells ==
    ASSUME StreamInv, NEW d \in Queued, Notify(d),
           stored' \in Nat, stored <= stored', world' \in [Key -> Nat],
           \A k \in Key : world'[k] \in {world[k], Absent, stored'},
           risks' \subseteq Risk, mode' \in Connectivity,
           \A k \in Key, n \in Nat : <<k, n>> \in d.upserts =>
               \/ stored < stored' /\ n = stored' /\ world'[k] = n
               \/ n = world[k] /\ n # Absent
    PROVE  StreamInv'
<1>0. /\ WorldTypes /\ \A k \in Key : world[k] <= stored
      /\ UNCHANGED <<link, wire, drops, view>>
  BY DEF StreamInv, Notify
<1>1. ASSUME NEW c \in Client
      PROVE  queue'[c] = queue[c] \/ (link[c] /\ queue'[c] = Append(queue[c], d))
  BY DEF Notify
<1>2. ASSUME NEW c \in Client
      PROVE  /\ queue'[c] \in Seq(Queued)
             /\ \A i, k, n : InQueue(c, i, k, n)' =>
                   InQueue(c, i, k, n) \/ (i = Len(queue[c]) + 1 /\ <<k, n>> \in d.upserts)
             /\ Len(queue[c]) \in Nat
  <2>0. queue[c] \in Seq(Queued) /\ Len(queue[c]) \in Nat
    BY <1>0 DEF WorldTypes
  <2>1. CASE queue'[c] = queue[c]
    BY <2>0, <2>1 DEF InQueue
  <2>2. CASE queue'[c] = Append(queue[c], d)
    <3>1. /\ queue'[c] \in Seq(Queued) /\ Len(queue'[c]) = Len(queue[c]) + 1
          /\ queue'[c][Len(queue[c]) + 1] = d
          /\ \A i \in 1 .. Len(queue[c]) : queue'[c][i] = queue[c][i]
      BY <2>0, <2>2
    <3>2. \A i \in 1 .. Len(queue'[c]) : i \in 1 .. Len(queue[c]) \/ i = Len(queue[c]) + 1
      BY <2>0, <3>1
    <3> QED BY <2>0, <3>1, <3>2 DEF InQueue
  <2> QED BY <1>1, <2>1, <2>2
<1>3. queue' \in [Client -> Seq(Queued)]
  BY <1>2 DEF Notify
<1>4. WorldTypes'
  <2>1. (world \in [Key -> Nat])' /\ (stored \in Nat)'
    OBVIOUS
  <2>2. (risks \subseteq Risk)' /\ (mode \in Connectivity)'
    OBVIOUS
  <2>3. (link \in [Client -> BOOLEAN])'
    BY <1>0 DEF WorldTypes
  <2>4. (wire \in [Client -> Seq(OnWire)])'
    BY <1>0 DEF WorldTypes
  <2>5. (view \in [Client -> Screen])'
    BY <1>0 DEF WorldTypes
  <2> QED BY <1>3, <2>1, <2>2, <2>3, <2>4, <2>5 DEF WorldTypes
<1>5. ASSUME NEW k \in Key PROVE world'[k] <= stored'
  <2>1. stored \in Nat /\ world[k] <= stored /\ world[k] \in Nat
    BY <1>0 DEF WorldTypes
  <2>2. world'[k] \in {world[k], Absent, stored'}
    OBVIOUS
  <2> QED BY <2>1, <2>2 DEF Absent
<1>6. ASSUME NEW c \in Client, ~link'[c] PROVE queue'[c] = << >> /\ wire'[c] = << >>
  BY <1>0, <1>1, <1>6 DEF StreamInv
<1>7. ASSUME NEW c \in Client, NEW k \in Key PROVE InOrder(c, k)'
  <2>1. InOrder(c, k) /\ view[c] \in Screen
    BY <1>0 DEF StreamInv, WorldTypes
  <2>2. Shows(c, k) \in Nat
    BY <2>1 DEF Shows, Screen
  <2>3. \A n \in Nat : NotNewer(k, n) => NotNewer(k, n)'
    BY StaysOld
  <2>4. /\ Shows(c, k)' = Shows(c, k)
        /\ \A i, n : InWire(c, i, k, n)' = InWire(c, i, k, n)
    BY <1>0 DEF Shows, InWire
  <2>5. NotNewer(k, Shows(c, k))'
    <3>1. PICK x \in Nat : x = Shows(c, k) /\ x = Shows(c, k)'
      BY <2>2, <2>4
    <3>2. NotNewer(k, x)'
      BY <2>1, <2>3, <3>1 DEF InOrder
    <3> QED BY <3>1, <3>2 DEF NotNewer
  <2>6. ASSUME NEW n \in Nat, <<k, n>> \in d.upserts
        PROVE  NotNewer(k, n)' /\ \A m \in Nat : NotNewer(k, m) => m <= n
    BY <1>0, <1>5, <2>6 DEF NotNewer, WorldTypes, Absent
  <2>7. \A i \in Nat, n \in Nat : InQueue(c, i, k, n) => i <= Len(queue[c])
    BY <1>2 DEF InQueue
  <2>8. ASSUME NEW i \in Nat, NEW n \in Nat, InWire(c, i, k, n)' \/ InQueue(c, i, k, n)'
        PROVE  NotNewer(k, n)' /\ Shows(c, k) <= n
    BY <1>2, <2>1, <2>2, <2>3, <2>4, <2>6, <2>8 DEF InOrder
  <2>9. ASSUME NEW i \in Nat, NEW j \in Nat, NEW m \in Nat, NEW n \in Nat
        PROVE  /\ InWire(c, i, k, m)' /\ InWire(c, j, k, n)' /\ i < j => m <= n
               /\ InQueue(c, i, k, m)' /\ InQueue(c, j, k, n)' /\ i < j => m <= n
               /\ InWire(c, i, k, m)' /\ InQueue(c, j, k, n)' => m <= n
    <3>1. InQueue(c, j, k, n)' => InQueue(c, j, k, n) \/ (j = Len(queue[c]) + 1 /\ <<k, n>> \in d.upserts)
      BY <1>2
    <3>2. InQueue(c, i, k, m)' => InQueue(c, i, k, m) \/ i = Len(queue[c]) + 1
      BY <1>2
    <3>3. InWire(c, i, k, m) \/ InQueue(c, i, k, m) => NotNewer(k, m)
      BY <2>1 DEF InOrder
    <3>4. i = Len(queue[c]) + 1 /\ i < j => ~InQueue(c, j, k, n) /\ j # Len(queue[c]) + 1
      BY <1>2, <2>7
    <3>5. /\ InWire(c, i, k, m) /\ InWire(c, j, k, n) /\ i < j => m <= n
          /\ InQueue(c, i, k, m) /\ InQueue(c, j, k, n) /\ i < j => m <= n
          /\ InWire(c, i, k, m) /\ InQueue(c, j, k, n) => m <= n
      BY <2>1 DEF InOrder
    <3> QED BY <2>4, <2>6, <3>1, <3>2, <3>3, <3>4, <3>5
  <2> QED BY <2>4, <2>5, <2>8, <2>9 DEF InOrder
<1> QED BY <1>4, <1>5, <1>6, <1>7 DEF StreamInv

-----------------------------------------------------------------------------
LEMMA DeltaQueued ==
    ASSUME NEW u \in SUBSET (Key \X Nat), NEW x \in SUBSET Key,
           NEW r \in SUBSET Risk, NEW s \in SUBSET Risk, NEW m \in Connectivity
    PROVE  Delta(u, x, r, s, m) \in Queued /\ Delta(u, x, r, s, m).upserts = u
BY DEF Delta, Queued

LEMMA SentKeeps ==
    ASSUME NEW d \in Queued
    PROVE  /\ Sent(d) \in OnWire
           /\ \A k, n : (\E b \in BOOLEAN : <<k, <<n, b>>>> \in Sent(d).upserts) => <<k, n>> \in d.upserts
<1>1. PICK U : U = {<<u[1], <<u[2], u[2] \in edited>>>> : u \in d.upserts}
  OBVIOUS
<1>2. Sent(d) = [d EXCEPT !.upserts = U]
  BY <1>1 DEF Sent
<1>3. d.upserts \subseteq Key \X Nat
  BY DEF Queued
<1>4. ASSUME NEW x \in U PROVE x \in Key \X (Nat \X BOOLEAN)
  <2>1. PICK u \in d.upserts : x = <<u[1], <<u[2], u[2] \in edited>>>>
    BY <1>1
  <2>2. u[1] \in Key /\ u[2] \in Nat
    BY <1>3
  <2>3. (u[2] \in edited) \in BOOLEAN
    BY SMT
  <2>4. PICK b \in BOOLEAN : b = (u[2] \in edited)
    BY <2>3, Zenon
  <2>5. x = <<u[1], <<u[2], b>>>>
    BY <2>1, <2>4, Zenon
  <2> QED BY <2>2, <2>5
<1>5. Sent(d) \in OnWire /\ Sent(d).upserts = U
  BY <1>2, <1>4 DEF Queued, OnWire
<1>6. \A k, n : \A b \in BOOLEAN : <<k, <<n, b>>>> \in U => <<k, n>> \in d.upserts
  BY <1>1, <1>3
<1> QED BY <1>5, <1>6

LEMMA ApplyShows ==
    ASSUME NEW s \in Screen, NEW d \in OnWire
    PROVE  /\ Apply(s, d) \in Screen
           /\ \A k \in Key : LET x == Apply(s, d).world[k][1]
                             IN  \/ x = Absent
                                 \/ x = s.world[k][1]
                                 \/ \E b \in BOOLEAN : <<k, <<x, b>>>> \in d.upserts
<1> DEFINE fresh(k) == {u[2] : u \in {w \in d.upserts : w[1] = k}}
<1>1. PICK base : base = IF d.kind = "snapshot" THEN NoView ELSE s
  OBVIOUS
<1>2. PICK W : W = [k \in Key |-> IF k \in d.deletes THEN <<Absent, FALSE>>
                                ELSE IF fresh(k) # {} THEN CHOOSE e \in fresh(k) : TRUE
                                ELSE base.world[k]]
  OBVIOUS
<1>3. PICK R : R = (base.risks \cup d.riskUpserts) \ d.riskDeletes
  OBVIOUS
<1>4. PICK m : m = IF d.mode # "unset" THEN d.mode ELSE s.mode
  OBVIOUS
<1>5. Apply(s, d) = [world |-> W, risks |-> R, mode |-> m]
  BY <1>1, <1>2, <1>3, <1>4 DEF Apply
<1>6. /\ base \in Screen
      /\ \A k \in Key : base.world[k][1] = Absent \/ base.world[k][1] = s.world[k][1]
  <2>1. \A k \in Key : <<Absent, FALSE>> \in Nat \X BOOLEAN /\ <<Absent, FALSE>>[1] = Absent
    BY DEF Absent
  <2>2. NoView \in Screen /\ \A k \in Key : NoView.world[k][1] = Absent
    BY <2>1 DEF NoView, Screen, Connectivity
  <2> QED BY <1>1, <2>2
<1>7. ASSUME NEW k \in Key
      PROVE  /\ W[k] \in Nat \X BOOLEAN
             /\ \/ W[k][1] = Absent \/ W[k][1] = s.world[k][1]
                \/ \E b \in BOOLEAN : <<k, <<W[k][1], b>>>> \in d.upserts
  <2>1. CASE k \in d.deletes
    BY <1>2, <2>1 DEF Absent
  <2>2. CASE k \notin d.deletes /\ fresh(k) # {}
    <3>1. W[k] \in fresh(k)
      BY <1>2, <2>2
    <3>2. PICK u \in d.upserts : u[1] = k /\ W[k] = u[2]
      BY <3>1
    <3>3. u \in Key \X (Nat \X BOOLEAN)
      BY DEF OnWire
    <3>4. W[k] \in Nat \X BOOLEAN /\ u = <<k, <<W[k][1], W[k][2]>>>>
      BY <3>2, <3>3
    <3> QED BY <3>4
  <2>3. CASE k \notin d.deletes /\ fresh(k) = {}
    <3>1. W[k] = base.world[k]
      BY <1>2, <2>3
    <3>2. base.world[k] \in Nat \X BOOLEAN
      BY <1>6 DEF Screen
    <3> QED BY <1>6, <3>1, <3>2
  <2> QED BY <2>1, <2>2, <2>3
<1> HIDE DEF fresh
<1>8. W \in [Key -> Nat \X BOOLEAN]
  BY <1>2, <1>7
<1>9. R \subseteq Risk /\ m \in Connectivity
  BY <1>3, <1>4, <1>6 DEF Screen, OnWire
<1>10. Apply(s, d) \in Screen /\ Apply(s, d).world = W
  BY <1>5, <1>8, <1>9 DEF Screen
<1> QED BY <1>7, <1>10

\* The stream of one dashboard moves on, and the world rests.
LEMMA StreamMoves ==
    ASSUME StreamInv, NEW c \in Client, NEW l \in BOOLEAN, NEW q \in Seq(Queued),
           NEW w \in Seq(OnWire), NEW s \in Screen,
           UNCHANGED server,
           link' = [link EXCEPT ![c] = l], queue' = [queue EXCEPT ![c] = q],
           wire' = [wire EXCEPT ![c] = w], view' = [view EXCEPT ![c] = s],
           ~l => q = << >> /\ w = << >>,
           \A k \in Key : InOrder(c, k)'
    PROVE  StreamInv'
<1>1. WorldTypes /\ (\A k \in Key : world[k] <= stored)
      /\ UNCHANGED <<world, stored, risks, mode>>
  BY DEF StreamInv, server
<1>2. WorldTypes'
  BY <1>1 DEF WorldTypes
<1>3. ASSUME NEW d \in Client, ~link'[d] PROVE queue'[d] = << >> /\ wire'[d] = << >>
  BY <1>1, <1>3 DEF StreamInv, WorldTypes
<1>4. ASSUME NEW d \in Client, NEW k \in Key PROVE InOrder(d, k)'
  <2>1. CASE d = c
    BY <2>1
  <2>2. CASE d # c
    <3>1. queue'[d] = queue[d] /\ wire'[d] = wire[d] /\ view'[d] = view[d] /\ InOrder(d, k)
      BY <1>1, <2>2 DEF WorldTypes, StreamInv
    <3>2. /\ Shows(d, k)' = Shows(d, k)
          /\ \A i, n : InQueue(d, i, k, n)' = InQueue(d, i, k, n) /\ InWire(d, i, k, n)' = InWire(d, i, k, n)
          /\ \A n : NotNewer(k, n)' = NotNewer(k, n)
      BY <1>1, <3>1 DEF Shows, InQueue, InWire, NotNewer
    <3>3. NotNewer(k, Shows(d, k))'
      BY <1>1, <3>1, <3>2 DEF InOrder, NotNewer
    <3> QED BY <3>1, <3>2, <3>3 DEF InOrder
  <2> QED BY <2>1, <2>2
<1> QED BY <1>1, <1>2, <1>3, <1>4 DEF StreamInv

LEMMA DropInv == ASSUME StreamInv, NEW c \in Client, Drop(c) PROVE StreamInv'
<1>1. WorldTypes
  BY DEF StreamInv
<1>e. << >> \in Seq(Queued) /\ << >> \in Seq(OnWire)
  OBVIOUS
<1>q. PICK q \in Seq(Queued) : q = << >>
  BY <1>e
<1>w. PICK w \in Seq(OnWire) : w = << >>
  BY <1>e
<1>2. PICK l \in BOOLEAN, s \in Screen : l = FALSE /\ s = view[c]
  BY <1>1 DEF WorldTypes
<1>3. /\ UNCHANGED server /\ link' = [link EXCEPT ![c] = l] /\ queue' = [queue EXCEPT ![c] = q]
      /\ wire' = [wire EXCEPT ![c] = w] /\ view' = [view EXCEPT ![c] = s]
  BY <1>1, <1>2, <1>q, <1>w DEF Drop, WorldTypes
<1>4. ASSUME NEW k \in Key PROVE InOrder(c, k)'
  <2>1. queue'[c] = << >> /\ wire'[c] = << >> /\ view'[c] = view[c] /\ UNCHANGED <<world, stored>>
    BY <1>1, <1>2, <1>3, <1>q, <1>w DEF WorldTypes, server
  <2>2. \A i, n : ~InQueue(c, i, k, n)' /\ ~InWire(c, i, k, n)'
    BY <2>1 DEF InQueue, InWire
  <2>3. NotNewer(k, Shows(c, k))
    BY DEF StreamInv, InOrder
  <2> QED BY <2>1, <2>2, <2>3 DEF InOrder, NotNewer, Shows
<1> QED BY <1>2, <1>3, <1>4, <1>q, <1>w, StreamMoves

LEMMA ConnectInv == ASSUME StreamInv, NEW c \in Client, Connect(c) PROVE StreamInv'
<1>1. WorldTypes /\ queue[c] = << >> /\ (\A k \in Key : world[k] <= stored)
  BY DEF StreamInv, Connect
<1>2. Snapshot \in Queued /\ \A k, n : <<k, n>> \in Snapshot.upserts => n = world[k] /\ n # Absent
  BY <1>1 DEF Snapshot, Queued, WorldTypes, Present
<1>p. PICK p \in Queued : p = Snapshot
  BY <1>2
<1>3. PICK d \in OnWire : d = Sent(p)
  BY SentKeeps
<1>o. \A k, n : \A b \in BOOLEAN : <<k, <<n, b>>>> \in d.upserts => n = world[k] /\ n # Absent
  <2>1. \A k, n : (\E b \in BOOLEAN : <<k, <<n, b>>>> \in d.upserts) => <<k, n>> \in p.upserts
    BY <1>3, SentKeeps
  <2> QED BY <1>2, <1>p, <2>1
<1>e. << >> \in Seq(Queued) /\ <<d>> \in Seq(OnWire)
  OBVIOUS
<1>q. PICK q \in Seq(Queued) : q = << >>
  BY <1>e
<1>w. PICK w \in Seq(OnWire) : w = <<d>>
  BY <1>e
<1>4. PICK l \in BOOLEAN, s \in Screen : l = TRUE /\ s = view[c]
  BY <1>1 DEF WorldTypes
<1>5. /\ UNCHANGED server /\ link' = [link EXCEPT ![c] = l] /\ queue' = [queue EXCEPT ![c] = q]
      /\ wire' = [wire EXCEPT ![c] = w] /\ view' = [view EXCEPT ![c] = s]
  BY <1>1, <1>3, <1>4, <1>p, <1>q, <1>w DEF Connect, WorldTypes, FirstMessages
<1>6. ASSUME NEW k \in Key PROVE InOrder(c, k)'
  <2>1. /\ queue'[c] = << >> /\ wire'[c] = <<d>> /\ view'[c] = view[c]
        /\ UNCHANGED <<world, stored>>
    BY <1>1, <1>4, <1>5, <1>q, <1>w DEF WorldTypes, server
  <2>2. \A i, n : ~InQueue(c, i, k, n)'
    BY <2>1 DEF InQueue
  <2>3. \A i, n : InWire(c, i, k, n)' => i = 1 /\ n = world[k] /\ n # Absent
    BY <1>o, <2>1 DEF InWire
  <2>4. NotNewer(k, Shows(c, k)) /\ Shows(c, k)' = Shows(c, k)
    BY <2>1 DEF StreamInv, InOrder, Shows
  <2>5. world[k] \in Nat /\ world[k] <= stored /\ stored \in Nat
    BY <1>1 DEF WorldTypes
  <2>6. \A n : NotNewer(k, n)' <=> NotNewer(k, n)
    BY <2>1 DEF NotNewer
  <2>7. NotNewer(k, Shows(c, k))'
    BY <2>1, <2>4 DEF NotNewer
  <2>8. \A n \in Nat : n = world[k] /\ n # Absent => NotNewer(k, n) /\ Shows(c, k) <= n
    BY <2>4, <2>5 DEF NotNewer
  <2> QED BY <2>2, <2>3, <2>4, <2>6, <2>7, <2>8 DEF InOrder
<1> QED BY <1>4, <1>5, <1>6, <1>q, <1>w, StreamMoves

\* What a socket accepts is the head of the queue.
LEMMA SendInv == ASSUME StreamInv, NEW c \in Client, Send(c) PROVE StreamInv'
<1>1. WorldTypes /\ queue[c] # << >> /\ queue[c] \in Seq(Queued) /\ wire[c] \in Seq(OnWire)
  BY DEF StreamInv, Send, WorldTypes
<1>h. PICK h \in Queued : h = Head(queue[c])
  BY <1>1
<1>d. PICK d \in OnWire : d = Sent(h)
  BY SentKeeps
<1>o. \A k, n : (\E b \in BOOLEAN : <<k, <<n, b>>>> \in d.upserts) => <<k, n>> \in h.upserts
  BY <1>d, SentKeeps
<1>t. Tail(queue[c]) \in Seq(Queued) /\ Append(wire[c], d) \in Seq(OnWire)
  BY <1>1
<1>q. PICK q \in Seq(Queued) : q = Tail(queue[c])
  BY <1>t
<1>w. PICK w \in Seq(OnWire) : w = Append(wire[c], d)
  BY <1>t
<1>l. PICK l \in BOOLEAN : l = link[c]
  BY <1>1 DEF WorldTypes
<1>s. PICK s \in Screen : s = view[c]
  BY <1>1 DEF WorldTypes
<1>5. UNCHANGED server /\ queue' = [queue EXCEPT ![c] = q] /\ wire' = [wire EXCEPT ![c] = w]
  BY <1>h, <1>d, <1>q, <1>w DEF Send
<1>6. link' = [link EXCEPT ![c] = l] /\ view' = [view EXCEPT ![c] = s]
  BY <1>1, <1>l, <1>s DEF Send, WorldTypes
<1>7. ~l => q = << >> /\ w = << >>
  BY <1>1, <1>l DEF StreamInv
<1>8. ASSUME NEW k \in Key PROVE InOrder(c, k)'
  <2>1. queue'[c] = q /\ wire'[c] = w /\ view'[c] = view[c] /\ UNCHANGED <<world, stored>>
    BY <1>1, <1>5, <1>6, <1>s DEF WorldTypes, server
  <2>2. ASSUME NEW i \in Nat, NEW n, InQueue(c, i, k, n)' PROVE InQueue(c, i + 1, k, n)
    <3>1. i \in 1 .. Len(q) /\ <<k, n>> \in q[i].upserts
      BY <2>1, <2>2 DEF InQueue
    <3>2. i + 1 \in 1 .. Len(queue[c]) /\ q[i] = queue[c][i + 1]
      BY <1>1, <1>q, <3>1
    <3> QED BY <3>1, <3>2 DEF InQueue
  <2>3. ASSUME NEW i \in Nat, NEW n, InWire(c, i, k, n)'
        PROVE  InWire(c, i, k, n) \/ (i = Len(wire[c]) + 1 /\ InQueue(c, 1, k, n))
    <3>1. i \in 1 .. Len(w) /\ \E b \in BOOLEAN : <<k, <<n, b>>>> \in w[i].upserts
      BY <2>1, <2>3 DEF InWire
    <3>2. \/ i \in 1 .. Len(wire[c]) /\ w[i] = wire[c][i]
          \/ i = Len(wire[c]) + 1 /\ w[i] = d
      BY <1>1, <1>w, <3>1
    <3>3. 1 \in 1 .. Len(queue[c]) /\ h = queue[c][1]
      BY <1>1, <1>h
    <3> QED BY <1>o, <3>1, <3>2, <3>3 DEF InWire, InQueue
  <2>4. Len(wire[c]) \in Nat /\ \A i, n : InWire(c, i, k, n) => i <= Len(wire[c])
    BY <1>1 DEF InWire
  <2>5. /\ InOrder(c, k) /\ Shows(c, k)' = Shows(c, k)
        /\ \A n : NotNewer(k, n)' = NotNewer(k, n)
    BY <2>1 DEF StreamInv, Shows, NotNewer
  <2>6. NotNewer(k, Shows(c, k))'
    BY <2>1, <2>5 DEF InOrder, NotNewer
  <2>7. ASSUME NEW i \in Nat, NEW n \in Nat, InWire(c, i, k, n)' \/ InQueue(c, i, k, n)'
        PROVE  NotNewer(k, n)' /\ Shows(c, k) <= n
    <3>1. \E j \in Nat : InWire(c, j, k, n) \/ InQueue(c, j, k, n)
      BY <2>2, <2>3, <2>7
    <3> QED BY <2>5, <3>1 DEF InOrder
  <2>8. ASSUME NEW i \in Nat, NEW j \in Nat, NEW m \in Nat, NEW n \in Nat
        PROVE  /\ InWire(c, i, k, m)' /\ InWire(c, j, k, n)' /\ i < j => m <= n
               /\ InQueue(c, i, k, m)' /\ InQueue(c, j, k, n)' /\ i < j => m <= n
               /\ InWire(c, i, k, m)' /\ InQueue(c, j, k, n)' => m <= n
    <3>0. \A x, y \in Nat :
             /\ InWire(c, x, k, m) /\ InWire(c, y, k, n) /\ x < y => m <= n
             /\ InQueue(c, x, k, m) /\ InQueue(c, y, k, n) /\ x < y => m <= n
             /\ InWire(c, x, k, m) /\ InQueue(c, y, k, n) => m <= n
      BY <2>5 DEF InOrder
    <3>1. ASSUME InWire(c, i, k, m)', InWire(c, j, k, n)', i < j PROVE m <= n
      <4>1. InWire(c, i, k, m)
        BY <2>3, <2>4, <3>1
      <4>2. InWire(c, j, k, n) \/ InQueue(c, 1, k, n)
        BY <2>3, <3>1
      <4> QED BY <3>0, <3>1, <4>1, <4>2
    <3>2. ASSUME InQueue(c, i, k, m)', InQueue(c, j, k, n)', i < j PROVE m <= n
      <4>1. InQueue(c, i + 1, k, m) /\ InQueue(c, j + 1, k, n) /\ i + 1 < j + 1
        BY <2>2, <3>2
      <4> QED BY <3>0, <4>1
    <3>3. ASSUME InWire(c, i, k, m)', InQueue(c, j, k, n)' PROVE m <= n
      <4>1. InWire(c, i, k, m) \/ InQueue(c, 1, k, m)
        BY <2>3, <3>3
      <4>2. InQueue(c, j + 1, k, n) /\ j >= 1
        BY <2>2, <3>3 DEF InQueue
      <4> QED BY <3>0, <4>1, <4>2
    <3> QED BY <3>1, <3>2, <3>3
  <2> QED BY <2>5, <2>6, <2>7, <2>8 DEF InOrder
<1> QED BY <1>5, <1>6, <1>7, <1>8, StreamMoves

\* What a dashboard shows next is nothing, what it showed, or what the first
\* message on the wire carries.
LEMMA ReceiveShows ==
    ASSUME StreamInv, NEW c \in Client, Receive(c), NEW k \in Key
    PROVE  /\ Shows(c, k)' \in Nat /\ Shows(c, k) \in Nat
           /\ Shows(c, k)' \in {Absent, Shows(c, k)} \/ InWire(c, 1, k, Shows(c, k)')
<1>1. view[c] \in Screen /\ wire[c] \in Seq(OnWire) /\ wire[c] # << >> /\ view \in [Client -> Screen]
  BY DEF StreamInv, Receive, WorldTypes
<1>2. PICK d \in OnWire : d = Head(wire[c])
  BY <1>1
<1>3. PICK s \in Screen : s = Apply(view[c], d)
  BY <1>1, ApplyShows
<1>4. view'[c] = s
  BY <1>1, <1>2, <1>3 DEF Receive
<1>5. PICK x \in Nat : x = s.world[k][1]
  BY DEF Screen
<1>6. x = Absent \/ x = view[c].world[k][1] \/ \E b \in BOOLEAN : <<k, <<x, b>>>> \in d.upserts
  BY <1>1, <1>3, <1>5, ApplyShows
<1>7. 1 \in 1 .. Len(wire[c]) /\ d = wire[c][1]
  BY <1>1, <1>2
<1>8. Shows(c, k)' = x /\ Shows(c, k) \in Nat
  BY <1>1, <1>4, <1>5 DEF Shows, Screen
<1> QED BY <1>6, <1>7, <1>8 DEF Shows, InWire

LEMMA ReceiveInv == ASSUME StreamInv, NEW c \in Client, Receive(c) PROVE StreamInv'
<1>1. WorldTypes /\ queue[c] \in Seq(Queued) /\ wire[c] \in Seq(OnWire) /\ wire[c] # << >>
  BY DEF StreamInv, Receive, WorldTypes
<1>d. PICK d \in OnWire : d = Head(wire[c])
  BY <1>1
<1>q. PICK q \in Seq(Queued) : q = queue[c]
  BY <1>1
<1>t. Tail(wire[c]) \in Seq(OnWire)
  BY <1>1
<1>w. PICK w \in Seq(OnWire) : w = Tail(wire[c])
  BY <1>t
<1>l. PICK l \in BOOLEAN : l = link[c]
  BY <1>1 DEF WorldTypes
<1>s. PICK s \in Screen : s = Apply(view[c], d)
  BY <1>1, ApplyShows DEF WorldTypes
<1>5. UNCHANGED server /\ wire' = [wire EXCEPT ![c] = w] /\ view' = [view EXCEPT ![c] = s]
  BY <1>d, <1>s, <1>w DEF Receive
<1>6. link' = [link EXCEPT ![c] = l] /\ queue' = [queue EXCEPT ![c] = q]
  BY <1>1, <1>l, <1>q DEF Receive, WorldTypes
<1>7. ~l => q = << >> /\ w = << >>
  BY <1>1, <1>l DEF StreamInv
<1>8. ASSUME NEW k \in Key PROVE InOrder(c, k)'
  <2>1. queue'[c] = queue[c] /\ wire'[c] = w /\ UNCHANGED <<world, stored>>
    BY <1>1, <1>5, <1>6, <1>q DEF WorldTypes, server
  <2>2. ASSUME NEW i \in Nat, NEW n, InWire(c, i, k, n)' PROVE InWire(c, i + 1, k, n)
    <3>1. i \in 1 .. Len(w) /\ \E b \in BOOLEAN : <<k, <<n, b>>>> \in w[i].upserts
      BY <2>1, <2>2 DEF InWire
    <3>2. i + 1 \in 1 .. Len(wire[c]) /\ w[i] = wire[c][i + 1]
      BY <1>1, <1>w, <3>1
    <3> QED BY <3>1, <3>2 DEF InWire
  <2>3. /\ InOrder(c, k)
        /\ \A n : NotNewer(k, n)' = NotNewer(k, n)
        /\ \A i, n : InQueue(c, i, k, n)' = InQueue(c, i, k, n)
        /\ \A i, n : InWire(c, i, k, n)' => i \in Nat /\ i > 0
    BY <2>1 DEF StreamInv, NotNewer, InQueue, InWire
  <2>4. PICK x \in Nat : x = Shows(c, k)'
    BY ReceiveShows
  <2>5. PICK y \in Nat : y = Shows(c, k)
    BY ReceiveShows
  <2>6. x = 0 \/ x = y \/ InWire(c, 1, k, x)
    BY <2>4, <2>5, ReceiveShows DEF Absent
  <2>7. NotNewer(k, x)
    <3>1. world[k] \in Nat /\ stored \in Nat
      BY <1>1 DEF WorldTypes
    <3>2. NotNewer(k, 0)
      BY <3>1 DEF NotNewer
    <3> QED BY <2>3, <2>5, <2>6, <3>2 DEF InOrder
  <2>8. ASSUME NEW i \in Nat, NEW n \in Nat, InWire(c, i, k, n)' \/ InQueue(c, i, k, n)'
        PROVE  NotNewer(k, n)' /\ x <= n
    <3>1. (InWire(c, i + 1, k, n) /\ i > 0) \/ InQueue(c, i, k, n)
      BY <2>2, <2>3, <2>8
    <3>2. NotNewer(k, n) /\ y <= n
      BY <2>3, <2>5, <3>1 DEF InOrder
    <3>3. InWire(c, 1, k, x) => x <= n
      BY <2>3, <3>1 DEF InOrder
    <3> QED BY <2>3, <2>6, <3>2, <3>3
  <2>9. ASSUME NEW i \in Nat, NEW j \in Nat, NEW m \in Nat, NEW n \in Nat
        PROVE  /\ InWire(c, i, k, m)' /\ InWire(c, j, k, n)' /\ i < j => m <= n
               /\ InQueue(c, i, k, m)' /\ InQueue(c, j, k, n)' /\ i < j => m <= n
               /\ InWire(c, i, k, m)' /\ InQueue(c, j, k, n)' => m <= n
    <3>0. \A u, v \in Nat :
             /\ InWire(c, u, k, m) /\ InWire(c, v, k, n) /\ u < v => m <= n
             /\ InQueue(c, u, k, m) /\ InQueue(c, v, k, n) /\ u < v => m <= n
             /\ InWire(c, u, k, m) /\ InQueue(c, v, k, n) => m <= n
      BY <2>3 DEF InOrder
    <3>1. ASSUME InWire(c, i, k, m)', InWire(c, j, k, n)', i < j PROVE m <= n
      <4>1. InWire(c, i + 1, k, m) /\ InWire(c, j + 1, k, n) /\ i + 1 < j + 1
        BY <2>2, <3>1
      <4> QED BY <3>0, <4>1
    <3>2. ASSUME InWire(c, i, k, m)', InQueue(c, j, k, n)' PROVE m <= n
      <4>1. InWire(c, i + 1, k, m) /\ InQueue(c, j, k, n)
        BY <2>2, <2>3, <3>2
      <4> QED BY <3>0, <4>1
    <3> QED BY <2>3, <3>0, <3>1, <3>2
  <2>10. NotNewer(k, Shows(c, k))'
    BY <2>3, <2>4, <2>7 DEF NotNewer
  <2> QED BY <2>4, <2>8, <2>9, <2>10 DEF InOrder
<1> QED BY <1>5, <1>6, <1>7, <1>8, StreamMoves

-----------------------------------------------------------------------------
\* What the world stores.
LEMMA StoreNumbers ==
    ASSUME WorldTypes, NEW keys \in SUBSET Key, Store(keys)
    PROVE  /\ stored' \in Nat /\ stored < stored' /\ stored <= stored'
           /\ world' \in [Key -> Nat]
           /\ \A k \in Key : world'[k] \in {world[k], Absent, stored'}
           /\ Upserts(keys) \in SUBSET (Key \X Nat)
           /\ \A k \in Key, n \in Nat : <<k, n>> \in Upserts(keys) =>
                 k \in keys /\ n = stored' /\ world'[k] = n
BY DEF WorldTypes, Store, Upserts

LEMMA RisksFound ==
    ASSUME stored' \in Nat, NEW found, NEW present, RefreshRisks(found, present)
    PROVE  risks' \in SUBSET Risk
BY DEF RefreshRisks, Risk

\* What leaves is no longer there.
LEMMA ForgetNumbers ==
    ASSUME WorldTypes, NEW keys, Forget(keys)
    PROVE  /\ stored' \in Nat /\ stored <= stored' /\ world' \in [Key -> Nat]
           /\ \A k \in Key : world'[k] \in {world[k], Absent, stored'}
           /\ risks' \subseteq Risk /\ mode' \in Connectivity
BY DEF WorldTypes, Forget, Absent

LEMMA IngestVehicleInv ==
    ASSUME StreamInv, NEW v \in Vehicle, NEW found, IngestVehicle(v, found)
    PROVE  StreamInv'
<1>1. WorldTypes /\ Store({v}) /\ mode' = mode /\ {v} \in SUBSET Key
  BY DEF StreamInv, IngestVehicle, Key
<1>2. risks' \in SUBSET Risk /\ Replaced \in SUBSET Risk /\ mode \in Connectivity
  BY <1>1, StoreNumbers, RisksFound DEF IngestVehicle, WorldTypes, Replaced
<1>3. PICK u \in SUBSET (Key \X Nat) : u = Upserts({v})
  BY <1>1, StoreNumbers
<1>r. PICK r \in SUBSET Risk : r = risks'
  BY <1>2
<1>4. PICK d \in Queued : d = Delta(u, {}, r, Replaced, mode) /\ d.upserts = u
  BY <1>2, DeltaQueued
<1>5. Notify(d)
  BY <1>3, <1>4, <1>r DEF IngestVehicle
<1>6. \A k \in Key, n \in Nat : <<k, n>> \in d.upserts => n = stored' /\ world'[k] = n
  BY <1>1, <1>3, <1>4, StoreNumbers
<1>7. risks' \subseteq Risk /\ mode' \in Connectivity
  BY <1>1, <1>2
<1>8. /\ stored' \in Nat /\ stored < stored' /\ stored <= stored' /\ world' \in [Key -> Nat]
      /\ \A k \in Key : world'[k] \in {world[k], Absent, stored'}
  BY <1>1, StoreNumbers
<1> QED BY <1>5, <1>6, <1>7, <1>8, WorldTells

LEMMA IngestOtherInv ==
    ASSUME StreamInv, NEW keys \in SUBSET Key, IngestOther(keys)
    PROVE  StreamInv'
<1>1. WorldTypes /\ Store(keys) /\ mode' = mode /\ risks' = risks
  BY DEF StreamInv, IngestOther
<1>2. Upserts(keys) \in SUBSET (Key \X Nat) /\ mode \in Connectivity
  BY <1>1, StoreNumbers DEF WorldTypes
<1>3. PICK d \in Queued : d = Delta(Upserts(keys), {}, {}, {}, mode) /\ d.upserts = Upserts(keys)
  BY <1>2, DeltaQueued
<1>4. Notify(d)
  BY <1>3 DEF IngestOther
<1>5. \A k \in Key, n \in Nat : <<k, n>> \in d.upserts => n = stored' /\ world'[k] = n
  BY <1>1, <1>3, StoreNumbers
<1>6. risks' \subseteq Risk /\ mode' \in Connectivity
  BY <1>1 DEF WorldTypes
<1>7. /\ stored' \in Nat /\ stored < stored' /\ stored <= stored' /\ world' \in [Key -> Nat]
      /\ \A k \in Key : world'[k] \in {world[k], Absent, stored'}
  BY <1>1, StoreNumbers
<1> QED BY <1>4, <1>5, <1>6, <1>7, WorldTells

LEMMA CloseFrameInv ==
    ASSUME WorldInv, NEW found, CloseFrame(found)
    PROVE  StreamInv'
<1>1. /\ StreamInv /\ WorldTypes /\ Store(frame.roadside) /\ mode' = mode /\ frame # NoFrame
  BY DEF WorldInv, StreamInv, CloseFrame, NoFrame
<1>2. /\ frame.roadside \in SUBSET Key /\ frame.done \in SUBSET (Key \X Nat)
      /\ \A k \in Key, n \in Nat : <<k, n>> \in frame.done => n = world[k] /\ n # Absent
  <2>1. frame \in Frame /\ \A d \in frame.done : d[2] = world[d[1]] /\ d[2] # Absent
    BY <1>1 DEF WorldInv, FrameInv
  <2>2. frame.roadside \in SUBSET Roadside /\ frame.done \in SUBSET (Key \X Nat)
    BY <2>1 DEF Frame
  <2> QED BY <2>1, <2>2 DEF Key
<1>3. PICK old \in SUBSET (Key \X Nat) : old = frame.done
  BY <1>2
<1>4. PICK u \in SUBSET (Key \X Nat) : u = Upserts(frame.roadside)
  BY <1>1, <1>2, StoreNumbers
<1>5. /\ stored' \in Nat /\ stored < stored' /\ stored <= stored' /\ world' \in [Key -> Nat]
      /\ \A k \in Key : world'[k] \in {world[k], Absent, stored'}
      /\ \A k \in Key, n \in Nat : <<k, n>> \in u => n = stored' /\ world'[k] = n
  BY <1>1, <1>2, <1>4, StoreNumbers
<1>6. risks' \in SUBSET Risk /\ Replaced \in SUBSET Risk /\ mode \in Connectivity
  BY <1>1, <1>5, RisksFound DEF CloseFrame, WorldTypes, Replaced
<1>7. PICK d \in Queued : Notify(d) /\ d.upserts \subseteq old \cup u
  <2>1. CASE frame.done = {}
    <3>1. PICK d \in Queued : d = Delta(u, {}, {}, {}, mode) /\ d.upserts = u
      BY <1>6, DeltaQueued
    <3>2. Notify(d)
      BY <1>4, <2>1, <3>1 DEF CloseFrame
    <3> QED BY <3>1, <3>2
  <2>2. CASE frame.done # {}
    <3>1. PICK d \in Queued : d = Delta(old \cup u, {}, risks', Replaced, mode) /\ d.upserts = old \cup u
      BY <1>6, DeltaQueued
    <3>2. Notify(d)
      BY <1>3, <1>4, <2>2, <3>1 DEF CloseFrame
    <3> QED BY <3>1, <3>2
  <2> QED BY <2>1, <2>2
<1>8. \A k \in Key, n \in Nat : <<k, n>> \in d.upserts =>
         \/ stored < stored' /\ n = stored' /\ world'[k] = n
         \/ n = world[k] /\ n # Absent
  BY <1>2, <1>3, <1>5, <1>7
<1>9. risks' \subseteq Risk /\ mode' \in Connectivity
  BY <1>1, <1>6
<1> QED BY <1>1, <1>5, <1>7, <1>8, <1>9, WorldTells

LEMMA EditInv == ASSUME StreamInv, NEW v \in Vehicle, Edit(v) PROVE StreamInv'
<1>1. WorldTypes /\ UNCHANGED <<world, risks, stored, mode>> /\ v \in Key
  BY DEF StreamInv, Edit, Key
<1>p. {<<v, world[v]>>} \in SUBSET (Key \X Nat)
  BY <1>1 DEF WorldTypes
<1>2. PICK u \in SUBSET (Key \X Nat) : u = {<<v, world[v]>>}
  BY <1>p
<1>3. mode \in Connectivity /\ world[v] # Absent
  BY <1>1 DEF WorldTypes, Edit
<1>4. PICK d \in Queued : d = Delta(u, {}, {}, {}, mode) /\ d.upserts = u
  BY <1>3, DeltaQueued
<1>5. Notify(d)
  BY <1>2, <1>4 DEF Edit
<1>6. \A k \in Key, n \in Nat : <<k, n>> \in d.upserts => n = world[k] /\ n # Absent
  BY <1>2, <1>3, <1>4
<1>7. /\ stored' \in Nat /\ stored <= stored' /\ world' \in [Key -> Nat]
      /\ \A k \in Key : world'[k] \in {world[k], Absent, stored'}
      /\ risks' \subseteq Risk /\ mode' \in Connectivity
  BY <1>1 DEF WorldTypes
<1> QED BY <1>5, <1>6, <1>7, WorldTells

LEMMA ConnectivityInv ==
    ASSUME StreamInv, NEW m \in Mode, IngestConnectivity(m)
    PROVE  StreamInv'
<1>1. WorldTypes /\ UNCHANGED <<world, risks, stored>> /\ mode' = m /\ m \in Connectivity
  BY DEF StreamInv, IngestConnectivity, Connectivity
<1>2. PICK d \in Queued : d = Delta({}, {}, {}, {}, m) /\ d.upserts = {}
  BY <1>1, DeltaQueued
<1>3. Notify(d)
  BY <1>2 DEF IngestConnectivity
<1>4. /\ stored' \in Nat /\ stored <= stored' /\ world' \in [Key -> Nat]
      /\ \A k \in Key : world'[k] \in {world[k], Absent, stored'}
      /\ risks' \subseteq Risk /\ mode' \in Connectivity
  BY <1>1 DEF WorldTypes
<1> QED BY <1>2, <1>3, <1>4, WorldTells

LEMMA RetireInv == ASSUME StreamInv, NEW v \in Vehicle, Retire(v) PROVE StreamInv'
<1>1. WorldTypes /\ mode \in Connectivity /\ {v} \in SUBSET Key
  BY DEF StreamInv, WorldTypes, Key
<1>2. PICK d \in Queued : d = Delta({}, {v}, {}, {}, mode) /\ d.upserts = {}
  BY <1>1, DeltaQueued
<1>3. Notify(d) /\ Forget({v})
  BY <1>2 DEF Retire
<1> QED BY <1>1, <1>2, <1>3, ForgetNumbers, WorldTells

LEMMA SweepInv == ASSUME StreamInv, Sweep PROVE StreamInv'
<1>1. WorldTypes /\ mode \in Connectivity /\ Told(Silent) \in SUBSET Key
  BY DEF StreamInv, WorldTypes, Key, Told, Silent, Present, Perishable
<1>2. PICK d \in Queued : d = Delta({}, Told(Silent), {}, {}, mode) /\ d.upserts = {}
  BY <1>1, DeltaQueued
<1>3. Notify(d) /\ Forget(Silent)
  BY <1>2 DEF Sweep
<1> QED BY <1>1, <1>2, <1>3, ForgetNumbers, WorldTells

\* The world moves on in silence.
LEMMA FrameVehicleInv == ASSUME StreamInv, NEW v \in Vehicle, FrameVehicle(v) PROVE StreamInv'
<1>1. WorldTypes /\ Store({v}) /\ UNCHANGED <<risks, mode, streams>> /\ {v} \in SUBSET Key
  BY DEF StreamInv, FrameVehicle, Key
<1>2. risks' \subseteq Risk /\ mode' \in Connectivity
  BY <1>1 DEF WorldTypes
<1> QED BY <1>1, <1>2, StoreNumbers, WorldMoves

LEMMA RestInv ==
    ASSUME StreamInv, UNCHANGED <<world, stored, risks, mode, streams>>
    PROVE  StreamInv'
<1>1. /\ stored' \in Nat /\ stored <= stored' /\ world' \in [Key -> Nat]
      /\ \A k \in Key : world'[k] \in {world[k], Absent, stored'}
      /\ risks' \subseteq Risk /\ mode' \in Connectivity
  BY DEF StreamInv, WorldTypes
<1> QED BY <1>1, WorldMoves

-----------------------------------------------------------------------------
LEMMA NextStream == ASSUME WorldInv, [Next]_vars PROVE StreamInv'
<1>0. StreamInv
  BY DEF WorldInv
<1>1. ASSUME NEW v \in Vehicle, NEW found, IngestVehicle(v, found) PROVE StreamInv'
  BY <1>0, <1>1, IngestVehicleInv
<1>2. ASSUME NEW keys \in SUBSET Roadside, IngestOther(keys) PROVE StreamInv'
  <2>1. keys \in SUBSET Key
    BY <1>2 DEF Key
  <2> QED BY <1>0, <1>2, <2>1, IngestOtherInv
<1>3. ASSUME NEW h \in Hazard, IngestOther({h}) PROVE StreamInv'
  <2>1. {h} \in SUBSET Key
    BY <1>3 DEF Key
  <2> QED BY <1>0, <1>3, <2>1, IngestOtherInv
<1>4. ASSUME NEW vehicles, NEW roadside, OpenFrame(vehicles, roadside) PROVE StreamInv'
  BY <1>0, <1>4, RestInv DEF OpenFrame
<1>5. ASSUME NEW v \in Vehicle, FrameVehicle(v) PROVE StreamInv'
  BY <1>0, <1>5, FrameVehicleInv
<1>6. ASSUME NEW found, CloseFrame(found) PROVE StreamInv'
  BY <1>6, CloseFrameInv
<1>7. ASSUME NEW v \in Vehicle, Edit(v) \/ Retire(v) PROVE StreamInv'
  BY <1>0, <1>7, EditInv, RetireInv
<1>8. ASSUME NEW m \in Mode, IngestConnectivity(m) PROVE StreamInv'
  BY <1>0, <1>8, ConnectivityInv
<1>9. CASE Sweep
  BY <1>0, <1>9, SweepInv
<1>10. CASE Tick
  BY <1>0, <1>10, RestInv DEF Tick
<1>11. ASSUME NEW c \in Client, Connect(c) \/ Send(c) \/ Receive(c) \/ Drop(c) PROVE StreamInv'
  BY <1>0, <1>11, ConnectInv, SendInv, ReceiveInv, DropInv
<1>12. CASE UNCHANGED vars
  BY <1>0, <1>12, RestInv DEF vars, server
<1> QED BY <1>1, <1>2, <1>3, <1>4, <1>5, <1>6, <1>7, <1>8, <1>9, <1>10, <1>11, <1>12 DEF Next

\* While a frame is open, nothing but the frame changes the world.
LEMMA NextFrame == ASSUME ~Bus, WorldInv, [Next]_vars PROVE FrameInv'
<1> USE DEF WorldInv
<1>1. CASE UNCHANGED <<world, frame>>
  BY <1>1 DEF FrameInv
<1>2. ASSUME LoopFree, frame' = frame PROVE FrameInv'
  BY <1>2 DEF FrameInv, LoopFree
<1>3. ASSUME NEW vehicles \in SUBSET Vehicle, NEW roadside \in SUBSET Roadside,
             OpenFrame(vehicles, roadside)
      PROVE  FrameInv'
  BY <1>3 DEF OpenFrame, FrameInv, Frame
<1>4. ASSUME NEW v \in Vehicle, FrameVehicle(v) PROVE FrameInv'
  <2>1. /\ WorldTypes /\ frame \in Frame /\ v \in frame.vehicles /\ v \in Key
        /\ \A d \in frame.done : d[2] = world[d[1]] /\ d[2] # Absent /\ d[1] \notin frame.vehicles
    BY <1>4 DEF FrameVehicle, FrameInv, NoFrame, StreamInv, Key
  <2>2. PICK V \in SUBSET Vehicle, R \in SUBSET Roadside, D \in SUBSET (Key \X Nat) :
           frame = [open |-> TRUE, vehicles |-> V, roadside |-> R, done |-> D]
    BY <2>1 DEF Frame
  <2>3. frame' = [open |-> TRUE, vehicles |-> V \ {v}, roadside |-> R, done |-> D \cup {<<v, stored + 1>>}]
    BY <1>4, <2>2 DEF FrameVehicle, Upserts
  <2>4. stored + 1 \in Nat /\ stored + 1 # Absent /\ world'[v] = stored + 1
        /\ \A k \in Key \ {v} : world'[k] = world[k]
    BY <1>4, <2>1 DEF FrameVehicle, Store, WorldTypes, Absent
  <2>5. D \cup {<<v, stored + 1>>} \in SUBSET (Key \X Nat)
    BY <2>1, <2>4
  <2>6. frame' \in Frame
    BY <2>3, <2>5 DEF Frame
  <2>7. \A d \in D : d[2] = world'[d[1]] /\ d[2] # Absent /\ d[1] \notin V \ {v}
    BY <2>1, <2>2, <2>4
  <2>8. \A d \in frame'.done : d[2] = world'[d[1]] /\ d[2] # Absent /\ d[1] \notin frame'.vehicles
    BY <2>3, <2>4, <2>7
  <2> QED BY <2>6, <2>8 DEF FrameInv
<1>5. ASSUME NEW found, CloseFrame(found) PROVE FrameInv'
  BY <1>5 DEF CloseFrame, FrameInv
<1>6. ASSUME NEW v \in Vehicle, NEW found, IngestVehicle(v, found) PROVE FrameInv'
  BY <1>2, <1>6 DEF IngestVehicle
<1>7. ASSUME NEW keys, IngestOther(keys) PROVE FrameInv'
  BY <1>2, <1>7 DEF IngestOther
<1>8. ASSUME NEW v \in Vehicle, Edit(v) \/ Retire(v) PROVE FrameInv'
  BY <1>2, <1>8 DEF Edit, Retire, Forget
<1>9. ASSUME NEW m \in Mode, IngestConnectivity(m) PROVE FrameInv'
  BY <1>2, <1>9 DEF IngestConnectivity
<1>10. CASE Sweep
  BY <1>2, <1>10 DEF Sweep, Forget
<1>11. CASE Tick
  BY <1>1, <1>11 DEF Tick
<1>12. ASSUME NEW c \in Client, Connect(c) \/ Send(c) \/ Receive(c) \/ Drop(c) PROVE FrameInv'
  BY <1>1, <1>12 DEF Connect, Send, Receive, Drop, server
<1>13. CASE UNCHANGED vars
  BY <1>1, <1>13 DEF vars, server
<1> QED BY <1>3, <1>4, <1>5, <1>6, <1>7, <1>8, <1>9, <1>10, <1>11, <1>12, <1>13 DEF Next

\* Only a message that arrives changes a screen.
LEMMA ScreensMove ==
    ASSUME StreamInv, [Next]_vars, NEW c \in Client, NEW k \in Key
    PROVE  view'[c].world[k][1] # Absent => view'[c].world[k][1] >= view[c].world[k][1]
<1>0. Shows(c, k) \in Nat
  BY DEF StreamInv, WorldTypes, Screen, Shows
<1>1. CASE view'[c] = view[c]
  BY <1>0, <1>1 DEF Shows
<1>2. ASSUME NEW e \in Client, Receive(e), view'[c] # view[c]
      PROVE  view'[c].world[k][1] # Absent => view'[c].world[k][1] >= view[c].world[k][1]
  <2>1. e = c
    BY <1>2 DEF Receive, StreamInv, WorldTypes
  <2>2. PICK x \in Nat : x = Shows(c, k)'
    BY <1>2, <2>1, ReceiveShows
  <2>3. x = Absent \/ x = Shows(c, k) \/ InWire(c, 1, k, x)
    BY <1>2, <2>1, <2>2, ReceiveShows
  <2>4. InWire(c, 1, k, x) => Shows(c, k) <= x
    BY DEF StreamInv, InOrder
  <2> QED BY <1>0, <2>2, <2>3, <2>4 DEF Shows
<1>3. ASSUME NEW d, Notify(d) PROVE view' = view
  BY <1>3 DEF Notify
<1>4. \/ UNCHANGED view
      \/ \E e \in Client : Receive(e)
  BY <1>3 DEF Next, IngestVehicle, IngestOther, OpenFrame, FrameVehicle, CloseFrame, Edit,
              Retire, IngestConnectivity, Sweep, Tick, Connect, Send, Drop, vars, streams
<1> QED BY <1>1, <1>2, <1>4

\* While no event bus and no Redis is attached, so that a frame is taken in
\* one stretch, no screen ever goes from a newer report of an actor to an
\* older one, for any fleet, number of dashboards and queue.
THEOREM ScreensNeverGoBack == ASSUME ~Bus PROVE Spec => NeverOlder
<1>1. Init => WorldInv
  BY InitWorld
<1>2. WorldInv /\ [Next]_vars => WorldInv'
  BY NextStream, NextFrame DEF WorldInv
<1>3. WorldInv /\ [Next]_vars =>
         [\A c \in Client, k \in Key :
             view'[c].world[k][1] # Absent => view'[c].world[k][1] >= view[c].world[k][1]]_vars
  BY ScreensMove DEF WorldInv
<1> QED BY <1>1, <1>2, <1>3, PTL DEF Spec, NeverOlder

-----------------------------------------------------------------------------
(* What is on its way, entry by entry. *)
Content(n, changed) == <<n, n \in changed>>

SentWith(d, changed) ==
    [d EXCEPT !.upserts = {<<u[1], Content(u[2], changed)>> : u \in @}]

Flight(w, q, changed) == w \o [i \in 1 .. Len(q) |-> SentWith(q[i], changed)]

\* No entity has two contents in one message.
OneEach(m) ==
    \A k \in Key, n, p \in Nat : <<k, n>> \in m.upserts /\ <<k, p>> \in m.upserts => n = p

\* The open frame has still to tell of k.
Untold(k) == frame # NoFrame /\ \E d \in frame.done : d[1] = k

\* No mode has reached the gateway, nor a dashboard.
Unset(c) ==
    /\ view[c].mode = "unset"
    /\ \A i \in 1 .. Len(wire[c]) : wire[c][i].mode = "unset"
    /\ \A i \in 1 .. Len(queue[c]) : queue[c][i].mode = "unset"

Converges(c) ==
    /\ \A k \in Key : ~Untold(k) => EntitySettled(c, k)
    /\ \A r \in Risk : RiskSettled(c, r)
    /\ ModeSettled(c)

\* A vehicle shares its object with nothing.
OwnNumbers == \A v \in Vehicle, k \in Key : world[v] = world[k] /\ world[v] # Absent => k = v

\* The numbers of objects, of frames, and what is queued of them.
NumbersInv ==
    /\ missed \in [Client -> BOOLEAN]
    /\ \A n \in edited : n \in Nat /\ n # Absent /\ n <= stored
    /\ OwnNumbers
    /\ \A r \in risks : r.frame <= stored
    /\ \A c \in Client : \A i \in 1 .. Len(queue[c]) : OneEach(queue[c][i])
    /\ mode = "unset" => \A c \in Client : Unset(c)
    /\ frame # NoFrame => \A d \in frame.done : d[1] \in Vehicle

ConvergeInv == NumbersInv /\ \A c \in Client : link[c] /\ ~missed[c] => Converges(c)

-----------------------------------------------------------------------------
(* The last word on an entry, when a message is added and when one is taken. *)
OneMore(n, A, B, shown, said, said2, kept, kept2) ==
    /\ n \in Nat /\ A \in SUBSET (1 .. n) /\ B \in SUBSET (1 .. n + 1)
    /\ \A i \in 1 .. n : i \in B <=> i \in A
    /\ n + 1 \in B => said2[n + 1] = kept2
    /\ n + 1 \notin B => /\ Settles(A, shown, said, kept) /\ kept2 = kept
                        /\ \A i \in A : said[i] = kept => said2[i] = kept

OneFewer(n, A, B, shown, shown2, said, said2, kept) ==
    /\ n \in Nat /\ n >= 1 /\ A \in SUBSET (1 .. n) /\ B \in SUBSET (1 .. n - 1)
    /\ \A i \in 1 .. n - 1 : (i \in B <=> i + 1 \in A) /\ said2[i] = said[i + 1]
    /\ 1 \in A => shown2 = said[1]
    /\ 1 \notin A => shown2 = shown
    /\ Settles(A, shown, said, kept)

LEMMA LastWord ==
    ASSUME NEW n, NEW A, NEW B, NEW shown, NEW said, NEW said2, NEW kept, NEW kept2,
           OneMore(n, A, B, shown, said, said2, kept, kept2)
    PROVE  Settles(B, shown, said2, kept2)
<1> USE DEF OneMore
<1>1. ASSUME n + 1 \in B PROVE Settles(B, shown, said2, kept2)
  <2>1. ASSUME NEW i \in B, \A j \in B : j <= i PROVE said2[i] = kept2
    <3>1. i <= n + 1 /\ n + 1 <= i /\ i \in 1 .. n + 1
      BY <1>1, <2>1
    <3>2. i = n + 1
      BY <3>1
    <3> QED BY <1>1, <3>2
  <2> QED BY <1>1, <2>1 DEF Settles
<1>2. ASSUME n + 1 \notin B PROVE Settles(B, shown, said2, kept2)
  <2>1. \A i \in B : i \in 1 .. n
    BY <1>2
  <2>2. B = A
    BY <2>1
  <2> QED BY <1>2, <2>2 DEF Settles
<1> QED BY <1>1, <1>2

LEMMA FirstTaken ==
    ASSUME NEW n, NEW A, NEW B, NEW shown, NEW shown2, NEW said, NEW said2, NEW kept,
           OneFewer(n, A, B, shown, shown2, said, said2, kept)
    PROVE  Settles(B, shown2, said2, kept)
<1> USE DEF OneFewer
<1>1. \A j \in A : j = 1 \/ (j - 1 \in B /\ j - 1 \in 1 .. n - 1)
  <2>1. ASSUME NEW j \in A, j # 1 PROVE j - 1 \in B /\ j - 1 \in 1 .. n - 1
    <3>1. j - 1 \in 1 .. n - 1 /\ (j - 1) + 1 = j
      BY <2>1
    <3> QED BY <3>1
  <2> QED BY <2>1
<1>2. ASSUME B = {} PROVE shown2 = kept
  <2>1. \A j \in A : j = 1
    BY <1>1, <1>2
  <2>2. CASE 1 \in A
    <3>1. said[1] = kept
      BY <2>1, <2>2 DEF Settles
    <3> QED BY <2>2, <3>1
  <2>3. CASE 1 \notin A
    <3>1. A = {}
      BY <2>1, <2>3
    <3> QED BY <2>3, <3>1 DEF Settles
  <2> QED BY <2>2, <2>3
<1>3. ASSUME NEW i \in B, \A j \in B : j <= i PROVE said2[i] = kept
  <2>1. i \in 1 .. n - 1 /\ i + 1 \in A /\ said2[i] = said[i + 1]
    OBVIOUS
  <2>2. ASSUME NEW j \in A PROVE j <= i + 1
    <3>1. j = 1 \/ j - 1 <= i
      BY <1>1, <1>3
    <3>2. j \in Int /\ i \in Int /\ i >= 1
      BY <2>1
    <3> QED BY <3>1, <3>2
  <2> QED BY <2>1, <2>2 DEF Settles
<1> QED BY <1>2, <1>3 DEF Settles

-----------------------------------------------------------------------------
LEMMA SentIs ==
    \A d : Sent(d) = SentWith(d, edited) /\ Sent(d)' = SentWith(d, edited')
BY DEF Sent, SentWith, Content

LEMMA FlightIs ==
    \A c : /\ InFlight(c) = Flight(wire[c], queue[c], edited)
           /\ InFlight(c)' = Flight(wire'[c], queue'[c], edited')
BY DEF InFlight, Flight, Sent, SentWith, Content

LEMMA SentKeepsAll ==
    ASSUME NEW d \in Queued, NEW changed
    PROVE  LET s == SentWith(d, changed)
           IN  /\ s \in OnWire
               /\ s.kind = d.kind /\ s.deletes = d.deletes /\ s.mode = d.mode
               /\ s.riskUpserts = d.riskUpserts /\ s.riskDeletes = d.riskDeletes
               /\ s.upserts = {<<u[1], Content(u[2], changed)>> : u \in d.upserts}
               /\ \A k : (\E u \in s.upserts : u[1] = k) <=> (\E u \in d.upserts : u[1] = k)
<1>1. PICK U : U = {<<u[1], Content(u[2], changed)>> : u \in d.upserts}
  OBVIOUS
<1>2. SentWith(d, changed) = [d EXCEPT !.upserts = U]
  BY <1>1 DEF SentWith
<1>3. d.upserts \subseteq Key \X Nat
  BY DEF Queued
<1>4. ASSUME NEW x \in U PROVE x \in Key \X (Nat \X BOOLEAN)
  <2>1. PICK u \in d.upserts : x = <<u[1], Content(u[2], changed)>>
    BY <1>1
  <2>2. u[1] \in Key /\ u[2] \in Nat
    BY <1>3
  <2>3. (u[2] \in changed) \in BOOLEAN
    BY SMT
  <2>4. PICK b \in BOOLEAN : b = (u[2] \in changed)
    BY <2>3, Zenon
  <2>5. x = <<u[1], <<u[2], b>>>>
    BY <2>1, <2>4, Zenon DEF Content
  <2> QED BY <2>2, <2>5
<1>5. /\ SentWith(d, changed) \in OnWire /\ SentWith(d, changed).upserts = U
      /\ SentWith(d, changed).kind = d.kind /\ SentWith(d, changed).deletes = d.deletes
      /\ SentWith(d, changed).mode = d.mode
      /\ SentWith(d, changed).riskUpserts = d.riskUpserts
      /\ SentWith(d, changed).riskDeletes = d.riskDeletes
  BY <1>2, <1>4 DEF Queued, OnWire
<1>6. ASSUME NEW k PROVE (\E u \in U : u[1] = k) <=> (\E u \in d.upserts : u[1] = k)
  <2>1. ASSUME NEW u \in d.upserts PROVE <<u[1], Content(u[2], changed)>> \in U
    BY <1>1
  <2>2. ASSUME NEW x \in U PROVE \E u \in d.upserts : x[1] = u[1]
    <3>1. PICK u \in d.upserts : x = <<u[1], Content(u[2], changed)>>
      BY <1>1
    <3> QED BY <3>1
  <2>3. ASSUME NEW u \in d.upserts, u[1] = k PROVE \E x \in U : x[1] = k
    <3>1. <<u[1], Content(u[2], changed)>>[1] = k
      BY <2>3
    <3> QED BY <2>1, <3>1
  <2> QED BY <2>2, <2>3
<1> QED BY <1>1, <1>5, <1>6

LEMMA SaidBySent ==
    ASSUME NEW d \in Queued, NEW changed, NEW k \in Key
    PROVE  LET s == SentWith(d, changed)
           IN  /\ Concerns(s, k) <=> Concerns(d, k)
               /\ k \in d.deletes => Said(s).world[k] = <<Absent, FALSE>>
               /\ \A n \in Nat : k \notin d.deletes /\ <<k, n>> \in d.upserts /\ OneEach(d) =>
                     Said(s).world[k] = Content(n, changed)
               /\ k \notin d.deletes /\ ~(\E u \in d.upserts : u[1] = k) =>
                     Said(s).world[k] = <<Absent, FALSE>>
               /\ Said(s).risks = d.riskUpserts \ d.riskDeletes
               /\ Said(s).mode = d.mode
               /\ \A r : ConcernsRisk(s, r) <=> ConcernsRisk(d, r)
<1>1. PICK s : s = SentWith(d, changed)
  OBVIOUS
<1>2. /\ s \in OnWire
      /\ s.kind = d.kind /\ s.deletes = d.deletes /\ s.mode = d.mode
      /\ s.riskUpserts = d.riskUpserts /\ s.riskDeletes = d.riskDeletes
      /\ s.upserts = {<<u[1], Content(u[2], changed)>> : u \in d.upserts}
      /\ \A j : (\E u \in s.upserts : u[1] = j) <=> (\E u \in d.upserts : u[1] = j)
  BY <1>1, SentKeepsAll
<1> DEFINE fresh == {u[2] : u \in {w \in s.upserts : w[1] = k}}
<1>3. Said(s).world[k] = IF k \in s.deletes THEN <<Absent, FALSE>>
                         ELSE IF fresh # {} THEN CHOOSE x \in fresh : TRUE
                         ELSE <<Absent, FALSE>>
  BY DEF Said, Apply, NoView
<1>4. /\ \A x \in fresh : \E u \in d.upserts : u[1] = k /\ x = Content(u[2], changed)
      /\ \A u \in d.upserts : u[1] = k => Content(u[2], changed) \in fresh
  <2>1. ASSUME NEW x \in fresh PROVE \E u \in d.upserts : u[1] = k /\ x = Content(u[2], changed)
    <3>1. PICK w \in s.upserts : w[1] = k /\ x = w[2]
      OBVIOUS
    <3>2. PICK u \in d.upserts : w = <<u[1], Content(u[2], changed)>>
      BY <1>2
    <3> QED BY <3>1, <3>2
  <2>2. ASSUME NEW u \in d.upserts, u[1] = k PROVE Content(u[2], changed) \in fresh
    <3>1. PICK w : w = <<u[1], Content(u[2], changed)>>
      OBVIOUS
    <3>2. w \in s.upserts /\ w[1] = k /\ w[2] = Content(u[2], changed)
      BY <1>2, <2>2, <3>1
    <3> QED BY <3>2
  <2> QED BY <2>1, <2>2
<1>5. Said(s).risks = (NoView.risks \cup s.riskUpserts) \ s.riskDeletes
  BY DEF Said, Apply
<1>6. Said(s).mode = IF s.mode # "unset" THEN s.mode ELSE "unset"
  BY DEF Said, Apply, NoView
<1>7. (Concerns(s, k) <=> Concerns(d, k)) /\ (\A r : ConcernsRisk(s, r) <=> ConcernsRisk(d, r))
  BY <1>2 DEF Concerns, ConcernsRisk
<1>8. ASSUME NEW n \in Nat, k \notin d.deletes, <<k, n>> \in d.upserts, OneEach(d)
      PROVE  Said(s).world[k] = Content(n, changed)
  <2>1. ASSUME NEW u \in d.upserts, u[1] = k PROVE u[2] = n
    <3>1. u \in Key \X Nat
      BY DEF Queued
    <3>2. u = <<k, u[2]>> /\ u[2] \in Nat
      BY <2>1, <3>1
    <3> QED BY <1>8, <3>2 DEF OneEach
  <2>2. Content(n, changed) \in fresh
    <3>1. <<k, n>> \in d.upserts /\ <<k, n>>[1] = k /\ <<k, n>>[2] = n
      BY <1>8
    <3> QED BY <1>4, <3>1
  <2>3. \A x \in fresh : x = Content(n, changed)
    BY <1>4, <2>1
  <2>4. fresh = {Content(n, changed)}
    BY <2>2, <2>3
  <2>5. (CHOOSE x \in fresh : TRUE) = Content(n, changed)
    BY <2>2, <2>3
  <2> QED BY <1>2, <1>3, <1>8, <2>2, <2>5
<1>9. ~(\E u \in d.upserts : u[1] = k) => fresh = {}
  BY <1>4
<1> HIDE DEF fresh
<1>10. NoView.risks = {}
  BY DEF NoView
<1> QED BY <1>1, <1>2, <1>3, <1>5, <1>6, <1>7, <1>8, <1>9, <1>10

\* What a queued upsert says of its entity once it is sent.
LEMMA SaidOfEntity ==
    ASSUME NEW d \in Queued, NEW changed, NEW k \in Key, NEW n \in Nat,
           k \notin d.deletes, <<k, n>> \in d.upserts, OneEach(d)
    PROVE  Said(SentWith(d, changed)).world[k] = Content(n, changed)
BY SaidBySent

LEMMA SentRisks ==
    ASSUME NEW d \in Queued, NEW changed
    PROVE  LET s == SentWith(d, changed)
           IN  /\ Said(s).risks = d.riskUpserts \ d.riskDeletes
               /\ Said(s).mode = d.mode /\ s.mode = d.mode
               /\ \A r : ConcernsRisk(s, r) <=> ConcernsRisk(d, r)
<1>1. PICK s : s = SentWith(d, changed)
  OBVIOUS
<1>2. /\ s.kind = d.kind /\ s.mode = d.mode
      /\ s.riskUpserts = d.riskUpserts /\ s.riskDeletes = d.riskDeletes
  BY <1>1, SentKeepsAll
<1>3. Said(s).risks = (NoView.risks \cup s.riskUpserts) \ s.riskDeletes /\ NoView.risks = {}
  BY DEF Said, Apply, NoView
<1>4. Said(s).mode = IF s.mode # "unset" THEN s.mode ELSE "unset"
  BY DEF Said, Apply, NoView
<1> QED BY <1>1, <1>2, <1>3, <1>4 DEF ConcernsRisk

\* What a message leaves on a screen.
LEMMA AppliedOrShown ==
    ASSUME NEW s \in Screen, NEW m \in OnWire
    PROVE  /\ \A k \in Key : IF Concerns(m, k) THEN Apply(s, m).world[k] = Said(m).world[k]
                                               ELSE Apply(s, m).world[k] = s.world[k]
           /\ \A r : IF ConcernsRisk(m, r) THEN Apply(s, m).risks \cap {r} = Said(m).risks \cap {r}
                                           ELSE Apply(s, m).risks \cap {r} = s.risks \cap {r}
           /\ Apply(s, m).mode = IF m.mode # "unset" THEN m.mode ELSE s.mode
           /\ m.mode # "unset" => Said(m).mode = m.mode
<1>1. ASSUME NEW k \in Key
      PROVE  IF Concerns(m, k) THEN Apply(s, m).world[k] = Said(m).world[k]
                               ELSE Apply(s, m).world[k] = s.world[k]
  <2> DEFINE fresh == {u[2] : u \in {w \in m.upserts : w[1] = k}}
  <2>1. Said(m).world[k] = IF k \in m.deletes THEN <<Absent, FALSE>>
                           ELSE IF fresh # {} THEN CHOOSE x \in fresh : TRUE
                           ELSE NoView.world[k]
    BY DEF Said, Apply
  <2>2. Apply(s, m).world[k] = IF k \in m.deletes THEN <<Absent, FALSE>>
                               ELSE IF fresh # {} THEN CHOOSE x \in fresh : TRUE
                               ELSE IF m.kind = "snapshot" THEN NoView.world[k] ELSE s.world[k]
    BY DEF Apply
  <2>3. fresh # {} <=> \E u \in m.upserts : u[1] = k
    OBVIOUS
  <2> HIDE DEF fresh
  <2> QED BY <2>1, <2>2, <2>3 DEF Concerns
<1>2. ASSUME NEW r
      PROVE  IF ConcernsRisk(m, r) THEN Apply(s, m).risks \cap {r} = Said(m).risks \cap {r}
                                   ELSE Apply(s, m).risks \cap {r} = s.risks \cap {r}
  <2>1. Said(m).risks = (NoView.risks \cup m.riskUpserts) \ m.riskDeletes
    BY DEF Said, Apply
  <2>2. Apply(s, m).risks = ((IF m.kind = "snapshot" THEN NoView ELSE s).risks \cup m.riskUpserts) \ m.riskDeletes
    BY DEF Apply
  <2>3. NoView.risks = {}
    BY DEF NoView
  <2>4. CASE m.kind = "snapshot"
    BY <2>1, <2>2, <2>4 DEF ConcernsRisk
  <2>5. CASE m.kind # "snapshot"
    BY <2>1, <2>2, <2>3, <2>5 DEF ConcernsRisk
  <2> QED BY <2>4, <2>5
<1>3. Apply(s, m).mode = IF m.mode # "unset" THEN m.mode ELSE s.mode
  BY DEF Apply
<1>4. m.mode # "unset" => Said(m).mode = m.mode
  BY DEF Said, Apply
<1> QED BY <1>1, <1>2, <1>3, <1>4

-----------------------------------------------------------------------------
LEMMA Contents ==
    ASSUME NEW n, NEW e, NEW f
    PROVE  /\ n \notin e => Content(n, e) = <<n, FALSE>>
           /\ \A m : Content(m, e) = Content(n, f) => m = n
<1>1. (n \in e) \in BOOLEAN /\ (n \in f) \in BOOLEAN
  BY SMT
<1>2. PICK b \in BOOLEAN : b = (n \in e)
  BY <1>1, Zenon
<1>3. PICK x \in BOOLEAN : x = (n \in f)
  BY <1>1, Zenon
<1>4. Content(n, e) = <<n, b>>
  BY <1>2, Zenon DEF Content
<1>5. Content(n, f) = <<n, x>>
  BY <1>3, Zenon DEF Content
<1>7. n \notin e => b = FALSE
  BY <1>2
<1>8. ASSUME NEW m, Content(m, e) = Content(n, f) PROVE m = n
  <2>1. (m \in e) \in BOOLEAN
    BY SMT
  <2>2. PICK y \in BOOLEAN : y = (m \in e)
    BY <2>1, Zenon
  <2>3. Content(m, e) = <<m, y>>
    BY <2>2, Zenon DEF Content
  <2>4. <<m, y>> = <<n, x>>
    BY <1>5, <1>8, <2>3, Zenon
  <2> QED BY <2>4
<1> QED BY <1>4, <1>7, <1>8

LEMMA SameContent ==
    ASSUME NEW n, NEW e, NEW f, n \in e <=> n \in f
    PROVE  Content(n, e) = Content(n, f)
<1>1. (n \in e) \in BOOLEAN /\ (n \in f) \in BOOLEAN
  BY SMT
<1>2. PICK b \in BOOLEAN : b = (n \in e)
  BY <1>1, Zenon
<1>3. PICK x \in BOOLEAN : x = (n \in f)
  BY <1>1, Zenon
<1>4. b = x
  BY <1>2, <1>3
<1> QED BY <1>2, <1>3, <1>4, Zenon DEF Content

LEMMA FlightParts ==
    ASSUME NEW w \in Seq(OnWire), NEW q \in Seq(Queued), NEW changed
    PROVE  /\ Flight(w, q, changed) \in Seq(OnWire)
           /\ Len(w) \in Nat /\ Len(q) \in Nat
           /\ Len(Flight(w, q, changed)) = Len(w) + Len(q)
           /\ DOMAIN Flight(w, q, changed) = 1 .. Len(w) + Len(q)
           /\ \A i \in 1 .. Len(w) : Flight(w, q, changed)[i] = w[i]
           /\ \A i \in 1 .. Len(q) : Flight(w, q, changed)[Len(w) + i] = SentWith(q[i], changed)
<1>1. PICK t : t = [i \in 1 .. Len(q) |-> SentWith(q[i], changed)]
  OBVIOUS
<1>2. ASSUME NEW i \in 1 .. Len(q) PROVE SentWith(q[i], changed) \in OnWire
  <2>1. q[i] \in Queued
    OBVIOUS
  <2> QED BY <2>1, SentKeepsAll
<1>3. t \in Seq(OnWire) /\ Len(t) = Len(q) /\ \A i \in 1 .. Len(q) : t[i] = SentWith(q[i], changed)
  BY <1>1, <1>2
<1>4. Flight(w, q, changed) = w \o t
  BY <1>1 DEF Flight
<1>5. PICK u \in Seq(OnWire) : u = t
  BY <1>3
<1>a. w \o u \in Seq(OnWire)
  OBVIOUS
<1>6. PICK f \in Seq(OnWire) : f = w \o u
  BY <1>a
<1>7. /\ Len(w) \in Nat /\ Len(u) \in Nat /\ Len(f) = Len(w) + Len(u)
      /\ DOMAIN f = 1 .. Len(w) + Len(u)
      /\ \A i \in 1 .. Len(w) : f[i] = w[i]
  BY <1>6
<1>8. ASSUME NEW i \in 1 .. Len(u) PROVE f[Len(w) + i] = u[i]
  BY <1>6, <1>7
<1> QED BY <1>3, <1>4, <1>5, <1>6, <1>7, <1>8

\* After the n messages of F comes m in G; those of F not sent yet, which are of
\* q, show the entities as the objects of new have them, no longer those of old.
Grows(F, G, q, m, old, new, n) ==
    /\ DOMAIN F = 1 .. n /\ DOMAIN G = 1 .. n + 1 /\ G[n + 1] = SentWith(m, new)
    /\ \A i \in 1 .. n :
          \/ G[i] = F[i]
          \/ \E j \in 1 .. Len(q) : F[i] = SentWith(q[j], old) /\ G[i] = SentWith(q[j], new)

\* One message more is on its way.
LEMMA FlightGrows ==
    ASSUME StreamInv, NEW d \in Queued, Notify(d), NEW c \in Client, link'[c], ~missed'[c],
           missed \in [Client -> BOOLEAN]
    PROVE  /\ link[c] /\ ~missed[c] /\ view'[c] = view[c]
           /\ \E n \in Nat : Grows(InFlight(c), InFlight(c)', queue[c], d, edited, edited', n)
<1>1. /\ queue[c] \in Seq(Queued) /\ wire[c] \in Seq(OnWire)
      /\ view' = view /\ wire' = wire /\ link' = link
  BY DEF StreamInv, WorldTypes, Notify
<1>2. missed'[c] = (missed[c] \/ (link[c] /\ ~HasRoom(c)))
  BY DEF Notify
<1>3. queue'[c] = IF link[c] /\ HasRoom(c) THEN Append(queue[c], d) ELSE queue[c]
  BY DEF Notify
<1>4. link[c] /\ ~missed[c] /\ HasRoom(c)
  BY <1>1, <1>2
<1>5. queue'[c] = Append(queue[c], d)
  BY <1>3, <1>4
<1>q. PICK q \in Seq(Queued) : q = Append(queue[c], d)
  <2>1. Append(queue[c], d) \in Seq(Queued)
    BY <1>1
  <2> QED BY <2>1
<1>w. PICK w \in Seq(OnWire) : w = wire[c]
  BY <1>1
<1>6. /\ InFlight(c) = Flight(w, queue[c], edited)
      /\ InFlight(c)' = Flight(w, q, edited')
  BY <1>1, <1>5, <1>q, <1>w, FlightIs
<1>7. /\ Len(q) = Len(queue[c]) + 1 /\ q[Len(q)] = d /\ Len(queue[c]) \in Nat /\ Len(w) \in Nat
      /\ \A j \in 1 .. Len(queue[c]) : q[j] = queue[c][j]
  BY <1>1, <1>q
<1>8. PICK n \in Nat : n = Len(w) + Len(queue[c])
  BY <1>7
<1>9. DOMAIN InFlight(c) = 1 .. n /\ DOMAIN InFlight(c)' = 1 .. n + 1
  <2>1. n + 1 = Len(w) + Len(q)
    BY <1>7, <1>8
  <2> QED BY <1>1, <1>6, <1>8, <2>1, FlightParts
<1>10. InFlight(c)'[n + 1] = SentWith(d, edited')
  <2>1. n + 1 = Len(w) + Len(q) /\ Len(q) \in 1 .. Len(q)
    BY <1>7, <1>8
  <2>2. Flight(w, q, edited')[Len(w) + Len(q)] = SentWith(q[Len(q)], edited')
    <3>1. PICK marks : marks = edited'
      OBVIOUS
    <3>2. \A j \in 1 .. Len(q) : Flight(w, q, marks)[Len(w) + j] = SentWith(q[j], marks)
      BY FlightParts
    <3> QED BY <2>1, <3>1, <3>2
  <2> QED BY <1>6, <1>7, <2>1, <2>2
<1>11. ASSUME NEW i \in 1 .. n
       PROVE  \/ InFlight(c)'[i] = InFlight(c)[i]
              \/ \E j \in 1 .. Len(queue[c]) :
                    /\ InFlight(c)[i] = SentWith(queue[c][j], edited)
                    /\ InFlight(c)'[i] = SentWith(queue[c][j], edited')
  <2>1. CASE i \in 1 .. Len(w)
    BY <1>1, <1>6, <2>1, FlightParts
  <2>2. CASE i \notin 1 .. Len(w)
    <3>1. PICK j \in 1 .. Len(queue[c]) : i = Len(w) + j
      <4>1. i - Len(w) \in 1 .. Len(queue[c]) /\ i = Len(w) + (i - Len(w))
        BY <1>7, <1>8, <2>2
      <4> QED BY <4>1
    <3>2. j \in 1 .. Len(q) /\ q[j] = queue[c][j]
      BY <1>7
    <3>3. InFlight(c)[i] = SentWith(queue[c][j], edited)
      BY <1>1, <1>6, <3>1, FlightParts
    <3>4. InFlight(c)'[i] = SentWith(q[j], edited')
      BY <1>6, <3>1, <3>2, FlightParts
    <3> QED BY <3>2, <3>3, <3>4
  <2> QED BY <2>1, <2>2
<1>12. Grows(InFlight(c), InFlight(c)', queue[c], d, edited, edited', n)
  BY <1>9, <1>10, <1>11 DEF Grows
<1> QED BY <1>1, <1>4, <1>12

\* What is sent next was on its way already.
LEMMA FlightSent ==
    ASSUME NEW w \in Seq(OnWire), NEW q \in Seq(Queued), q # << >>, NEW changed
    PROVE  Flight(Append(w, SentWith(Head(q), changed)), Tail(q), changed) = Flight(w, q, changed)
<1>1. Head(q) \in Queued /\ Tail(q) \in Seq(Queued) /\ Len(Tail(q)) = Len(q) - 1 /\ Len(q) \in Nat
      /\ \A i \in 1 .. Len(q) - 1 : Tail(q)[i] = q[i + 1]
  OBVIOUS
<1>2. PICK h \in OnWire : h = SentWith(Head(q), changed)
  <2>1. PICK d \in Queued : d = Head(q)
    BY <1>1
  <2>2. SentWith(d, changed) \in OnWire
    BY SentKeepsAll
  <2> QED BY <2>1, <2>2
<1>a. Append(w, h) \in Seq(OnWire)
  OBVIOUS
<1>3. PICK v \in Seq(OnWire) : v = Append(w, h)
  BY <1>a
<1>4. PICK p \in Seq(Queued) : p = Tail(q)
  BY <1>1
<1>5. /\ Len(v) = Len(w) + 1 /\ v[Len(w) + 1] = h /\ Len(w) \in Nat
      /\ \A i \in 1 .. Len(w) : v[i] = w[i]
  BY <1>3
<1>6. q[1] = Head(q) /\ Len(q) >= 1
  OBVIOUS
<1>7. Len(v) + Len(p) = Len(w) + Len(q)
  BY <1>1, <1>4, <1>5
<1>8. ASSUME NEW i \in 1 .. Len(w) + Len(q)
      PROVE  Flight(v, p, changed)[i] = Flight(w, q, changed)[i]
  <2>1. CASE i \in 1 .. Len(w)
    <3>1. i \in 1 .. Len(v)
      BY <1>5, <2>1
    <3>2. Flight(v, p, changed)[i] = v[i]
      BY <3>1, FlightParts
    <3>3. Flight(w, q, changed)[i] = w[i]
      BY <2>1, FlightParts
    <3> QED BY <1>5, <2>1, <3>2, <3>3
  <2>2. CASE i = Len(w) + 1
    <3>1. i \in 1 .. Len(v) /\ 1 \in 1 .. Len(q)
      BY <1>1, <1>5, <1>6, <2>2
    <3>2. Flight(v, p, changed)[i] = h
      <4>1. Flight(v, p, changed)[i] = v[i]
        BY <3>1, FlightParts
      <4>2. v[i] = h
        BY <1>5, <2>2
      <4> QED BY <4>1, <4>2
    <3>3. Flight(w, q, changed)[i] = SentWith(q[1], changed)
      BY <2>2, <3>1, FlightParts
    <3> QED BY <1>2, <1>6, <3>2, <3>3
  <2>3. CASE i > Len(w) + 1
    <3>1. PICK j \in 1 .. Len(p) : i = Len(v) + j
      <4>1. i - Len(v) \in 1 .. Len(p) /\ i = Len(v) + (i - Len(v))
        BY <1>1, <1>4, <1>5, <2>3
      <4> QED BY <4>1
    <3>2. j + 1 \in 1 .. Len(q) /\ i = Len(w) + (j + 1) /\ p[j] = q[j + 1]
      BY <1>1, <1>4, <1>5, <3>1
    <3>3. Flight(v, p, changed)[i] = SentWith(p[j], changed)
      BY <3>1, FlightParts
    <3>4. Flight(w, q, changed)[i] = SentWith(q[j + 1], changed)
      BY <3>2, FlightParts
    <3> QED BY <3>2, <3>3, <3>4
  <2>4. i \in 1 .. Len(w) \/ i = Len(w) + 1 \/ i > Len(w) + 1
    BY <1>1, <1>5
  <2> QED BY <2>1, <2>2, <2>3, <2>4
<1>9. PICK f \in Seq(OnWire) : f = Flight(v, p, changed)
  BY FlightParts
<1>10. PICK g \in Seq(OnWire) : g = Flight(w, q, changed)
  BY FlightParts
<1>11. Len(f) = Len(g) /\ Len(g) = Len(w) + Len(q)
  BY <1>7, <1>9, <1>10, FlightParts
<1>12. f = g
  BY <1>8, <1>9, <1>10, <1>11
<1> QED BY <1>2, <1>3, <1>4, <1>9, <1>10, <1>12

\* Of the n messages of F the first, m, is taken and G is left.
Takes(F, G, m, n) ==
    /\ n \in Nat /\ n >= 1 /\ DOMAIN F = 1 .. n /\ DOMAIN G = 1 .. n - 1
    /\ F[1] = m
    /\ \A i \in 1 .. n - 1 : G[i] = F[i + 1]

\* The first message on the wire arrives.
LEMMA FlightTaken ==
    ASSUME NEW w \in Seq(OnWire), w # << >>, NEW q \in Seq(Queued), NEW changed
    PROVE  \E n : Takes(Flight(w, q, changed), Flight(Tail(w), q, changed), Head(w), n)
<1>1. /\ Tail(w) \in Seq(OnWire) /\ Len(Tail(w)) = Len(w) - 1 /\ Len(w) \in Nat /\ Len(w) >= 1
      /\ Head(w) = w[1] /\ \A i \in 1 .. Len(w) - 1 : Tail(w)[i] = w[i + 1]
  OBVIOUS
<1>2. PICK v \in Seq(OnWire) : v = Tail(w)
  BY <1>1
<1>3. Len(q) \in Nat
  OBVIOUS
<1>4. PICK n \in Nat : n = Len(w) + Len(q)
  BY <1>1, <1>3
<1>5. n >= 1 /\ n - 1 = Len(v) + Len(q)
  BY <1>1, <1>2, <1>3, <1>4
<1>6. DOMAIN Flight(w, q, changed) = 1 .. n /\ DOMAIN Flight(v, q, changed) = 1 .. n - 1
  BY <1>4, <1>5, FlightParts
<1>7. Flight(w, q, changed)[1] = Head(w)
  <2>1. 1 \in 1 .. Len(w)
    BY <1>1
  <2> QED BY <1>1, <2>1, FlightParts
<1>8. ASSUME NEW i \in 1 .. n - 1
      PROVE  Flight(v, q, changed)[i] = Flight(w, q, changed)[i + 1]
  <2>1. CASE i \in 1 .. Len(v)
    <3>1. i + 1 \in 1 .. Len(w) /\ v[i] = w[i + 1]
      BY <1>1, <1>2, <2>1
    <3> QED BY <2>1, <3>1, FlightParts
  <2>2. CASE i \notin 1 .. Len(v)
    <3>1. PICK j \in 1 .. Len(q) : i = Len(v) + j
      <4>1. i - Len(v) \in 1 .. Len(q) /\ i = Len(v) + (i - Len(v))
        BY <1>1, <1>2, <1>3, <1>5, <2>2
      <4> QED BY <4>1
    <3>2. i + 1 = Len(w) + j
      BY <1>1, <1>2, <3>1
    <3> QED BY <3>1, <3>2, FlightParts
  <2> QED BY <2>1, <2>2
<1>9. Takes(Flight(w, q, changed), Flight(v, q, changed), Head(w), n)
  BY <1>5, <1>6, <1>7, <1>8 DEF Takes
<1> QED BY <1>2, <1>9

-----------------------------------------------------------------------------
\* A message tells of an entity what the world then holds, or nothing about the
\* entity has changed.
TellsEntity(d, k) ==
    \/ Concerns(d, k) /\ Said(SentWith(d, edited')).world[k] = Content(world[k]', edited')
    \/ /\ ~Concerns(d, k) /\ ~Untold(k)
       /\ world[k]' = world[k] /\ (world[k] \in edited' <=> world[k] \in edited)

TellsRisk(d, r) ==
    \/ ConcernsRisk(d, r) /\ (r \in d.riskUpserts \ d.riskDeletes <=> r \in risks')
    \/ ~ConcernsRisk(d, r) /\ (r \in risks <=> r \in risks')

LEMMA EntityTold ==
    ASSUME StreamInv, NumbersInv, NEW d \in Queued, Notify(d), NEW c \in Client, link'[c], ~missed'[c],
           NEW k \in Key, TellsEntity(d, k), ~Untold(k) => EntitySettled(c, k)
    PROVE  EntitySettled(c, k)'
<1>g. PICK n \in Nat : Grows(InFlight(c), InFlight(c)', queue[c], d, edited, edited', n)
  BY FlightGrows DEF NumbersInv
<1>v. view'[c] = view[c]
  BY FlightGrows DEF NumbersInv
<1>1. /\ view'[c] = view[c]
      /\ DOMAIN InFlight(c) = 1 .. n /\ DOMAIN InFlight(c)' = 1 .. n + 1
      /\ InFlight(c)'[n + 1] = SentWith(d, edited')
      /\ \A i \in 1 .. n :
            \/ InFlight(c)'[i] = InFlight(c)[i]
            \/ \E j \in 1 .. Len(queue[c]) :
                  /\ InFlight(c)[i] = SentWith(queue[c][j], edited)
                  /\ InFlight(c)'[i] = SentWith(queue[c][j], edited')
  BY <1>g, <1>v DEF Grows
<1>2. PICK F : F = InFlight(c)
  OBVIOUS
<1>3. PICK G : G = InFlight(c)'
  OBVIOUS
<1>4. PICK A \in SUBSET (1 .. n) : A = {i \in 1 .. n : Concerns(F[i], k)}
  OBVIOUS
<1>5. PICK B \in SUBSET (1 .. n + 1) : B = {i \in 1 .. n + 1 : Concerns(G[i], k)}
  OBVIOUS
<1>6. PICK said : said = [i \in 1 .. n |-> Said(F[i]).world[k]]
  OBVIOUS
<1>7. PICK said2 : said2 = [i \in 1 .. n + 1 |-> Said(G[i]).world[k]]
  OBVIOUS
<1>8. /\ EntitySettled(c, k) <=> Settles(A, view[c].world[k], said, WorldView.world[k])
      /\ EntitySettled(c, k)' <=> Settles(B, view[c].world[k], said2, WorldView'.world[k])
  BY <1>1, <1>2, <1>3, <1>4, <1>5, <1>6, <1>7 DEF EntitySettled, Settles
<1>9. /\ WorldView.world[k] = Content(world[k], edited)
      /\ WorldView'.world[k] = Content(world[k]', edited')
  BY DEF WorldView, Content
<1>10. ASSUME NEW i \in 1 .. n
       PROVE  /\ Concerns(F[i], k) <=> Concerns(G[i], k)
              /\ ~Concerns(d, k) /\ said[i] = WorldView.world[k] => said2[i] = WorldView.world[k]
  <2>1. i \in 1 .. n + 1
    OBVIOUS
  <2>2. CASE G[i] = F[i]
    BY <1>6, <1>7, <2>1, <2>2
  <2>3. ASSUME NEW j \in 1 .. Len(queue[c]), F[i] = SentWith(queue[c][j], edited),
               G[i] = SentWith(queue[c][j], edited')
        PROVE  /\ Concerns(F[i], k) <=> Concerns(G[i], k)
               /\ ~Concerns(d, k) /\ said[i] = WorldView.world[k] => said2[i] = WorldView.world[k]
    <3>1. PICK q \in Queued : q = queue[c][j]
      BY DEF StreamInv, WorldTypes
    <3>2. OneEach(q)
      BY <3>1 DEF NumbersInv
    <3>3. Concerns(F[i], k) <=> Concerns(G[i], k)
      <4>1. Concerns(SentWith(q, edited), k) <=> Concerns(q, k)
        BY SaidBySent
      <4>2. Concerns(SentWith(q, edited'), k) <=> Concerns(q, k)
        BY SaidBySent
      <4> QED BY <2>3, <3>1, <4>1, <4>2
    <3>4. ASSUME ~Concerns(d, k), said[i] = WorldView.world[k] PROVE said2[i] = WorldView.world[k]
      <4>1. said[i] = Said(SentWith(q, edited)).world[k]
        BY <1>6, <2>3, <3>1
      <4>2. said2[i] = Said(SentWith(q, edited')).world[k]
        BY <1>7, <2>1, <2>3, <3>1
      <4>3. CASE k \in q.deletes \/ ~(\E u \in q.upserts : u[1] = k)
        <5>1. Said(SentWith(q, edited)).world[k] = <<Absent, FALSE>>
          BY <4>3, SaidBySent
        <5>2. Said(SentWith(q, edited')).world[k] = <<Absent, FALSE>>
          BY <4>3, SaidBySent
        <5> QED BY <3>4, <4>1, <4>2, <5>1, <5>2
      <4>4. CASE k \notin q.deletes /\ \E u \in q.upserts : u[1] = k
        <5>1. PICK m \in Nat : <<k, m>> \in q.upserts
          <6>1. PICK u \in q.upserts : u[1] = k
            BY <4>4
          <6>2. u \in Key \X Nat
            BY DEF Queued
          <6>3. u = <<k, u[2]>> /\ u[2] \in Nat
            BY <6>1, <6>2
          <6> QED BY <6>1, <6>3
        <5>2. Said(SentWith(q, edited)).world[k] = Content(m, edited)
          BY <3>2, <4>4, <5>1, SaidOfEntity
        <5>3. Said(SentWith(q, edited')).world[k] = Content(m, edited')
          BY <3>2, <4>4, <5>1, SaidOfEntity
        <5>4. Content(m, edited) = Content(world[k], edited)
          BY <1>9, <3>4, <4>1, <5>2
        <5>5. m = world[k]
          BY <5>4, Contents
        <5>6. m \in edited' <=> m \in edited
          BY <3>4, <5>5 DEF TellsEntity
        <5>7. Content(m, edited') = Content(m, edited)
          BY <5>6, SameContent
        <5> QED BY <3>4, <4>1, <4>2, <5>2, <5>3, <5>7
      <4> QED BY <4>3, <4>4
    <3> QED BY <3>3, <3>4
  <2>4. G[i] = F[i] \/ \E j \in 1 .. Len(queue[c]) :
                          F[i] = SentWith(queue[c][j], edited) /\ G[i] = SentWith(queue[c][j], edited')
    BY <1>1, <1>2, <1>3
  <2> QED BY <2>2, <2>3, <2>4
<1>11. n + 1 \in B <=> Concerns(d, k)
  <2>1. n + 1 \in 1 .. n + 1 /\ G[n + 1] = SentWith(d, edited')
    BY <1>1, <1>3
  <2>2. Concerns(SentWith(d, edited'), k) <=> Concerns(d, k)
    BY SaidBySent
  <2> QED BY <1>5, <2>1, <2>2
<1>12. n + 1 \in B => said2[n + 1] = WorldView'.world[k]
  <2>1. n + 1 \in 1 .. n + 1 /\ G[n + 1] = SentWith(d, edited')
    BY <1>1, <1>3
  <2> QED BY <1>7, <1>9, <1>11, <2>1 DEF TellsEntity
<1>13. n + 1 \notin B => /\ Settles(A, view[c].world[k], said, WorldView.world[k])
                         /\ WorldView'.world[k] = WorldView.world[k]
                         /\ \A i \in A : said[i] = WorldView.world[k] => said2[i] = WorldView.world[k]
  <2>1. SUFFICES ASSUME n + 1 \notin B
                 PROVE  /\ Settles(A, view[c].world[k], said, WorldView.world[k])
                        /\ WorldView'.world[k] = WorldView.world[k]
                        /\ \A i \in A : said[i] = WorldView.world[k] => said2[i] = WorldView.world[k]
    OBVIOUS
  <2>2. ~Concerns(d, k)
    BY <1>11, <2>1
  <2>3. ~Untold(k) /\ world[k]' = world[k] /\ (world[k] \in edited' <=> world[k] \in edited)
    BY <2>2 DEF TellsEntity
  <2>4. Content(world[k], edited') = Content(world[k], edited)
    BY <2>3, SameContent
  <2> QED BY <1>8, <1>9, <1>10, <2>2, <2>3, <2>4
<1>14. \A i \in 1 .. n : i \in B <=> i \in A
  BY <1>4, <1>5, <1>10
<1>15. PICK kept : kept = WorldView.world[k]
  OBVIOUS
<1>16. PICK kept2 : kept2 = WorldView'.world[k]
  OBVIOUS
<1>k. PICK shown : shown = view[c].world[k]
  OBVIOUS
<1>17. Settles(B, shown, said2, kept2)
  <2>1. n + 1 \in B => said2[n + 1] = kept2
    BY <1>12, <1>16
  <2>2. n + 1 \notin B => /\ Settles(A, shown, said, kept) /\ kept2 = kept
                          /\ \A i \in A : said[i] = kept => said2[i] = kept
    BY <1>13, <1>15, <1>16, <1>k, Zenon
  <2>3. OneMore(n, A, B, shown, said, said2, kept, kept2)
    BY <1>14, <2>1, <2>2 DEF OneMore
  <2> QED BY <2>3, LastWord
<1> QED BY <1>8, <1>16, <1>17, <1>k

LEMMA RiskTold ==
    ASSUME StreamInv, NumbersInv, NEW d \in Queued, Notify(d), NEW c \in Client, link'[c], ~missed'[c],
           NEW r \in Risk, TellsRisk(d, r), RiskSettled(c, r)
    PROVE  RiskSettled(c, r)'
<1>g. PICK n \in Nat : Grows(InFlight(c), InFlight(c)', queue[c], d, edited, edited', n)
  BY FlightGrows DEF NumbersInv
<1>v. view'[c] = view[c]
  BY FlightGrows DEF NumbersInv
<1>1. /\ view'[c] = view[c]
      /\ DOMAIN InFlight(c) = 1 .. n /\ DOMAIN InFlight(c)' = 1 .. n + 1
      /\ InFlight(c)'[n + 1] = SentWith(d, edited')
      /\ \A i \in 1 .. n :
            \/ InFlight(c)'[i] = InFlight(c)[i]
            \/ \E j \in 1 .. Len(queue[c]) :
                  /\ InFlight(c)[i] = SentWith(queue[c][j], edited)
                  /\ InFlight(c)'[i] = SentWith(queue[c][j], edited')
  BY <1>g, <1>v DEF Grows
<1>2. PICK F : F = InFlight(c)
  OBVIOUS
<1>3. PICK G : G = InFlight(c)'
  OBVIOUS
<1>4. PICK A \in SUBSET (1 .. n) : A = {i \in 1 .. n : ConcernsRisk(F[i], r)}
  OBVIOUS
<1>5. PICK B \in SUBSET (1 .. n + 1) : B = {i \in 1 .. n + 1 : ConcernsRisk(G[i], r)}
  OBVIOUS
<1>6. PICK said : said = [i \in 1 .. n |-> Said(F[i]).risks \cap {r}]
  OBVIOUS
<1>7. PICK said2 : said2 = [i \in 1 .. n + 1 |-> Said(G[i]).risks \cap {r}]
  OBVIOUS
<1>8. /\ RiskSettled(c, r) <=> Settles(A, view[c].risks \cap {r}, said, risks \cap {r})
      /\ RiskSettled(c, r)' <=> Settles(B, view[c].risks \cap {r}, said2, risks' \cap {r})
  BY <1>1, <1>2, <1>3, <1>4, <1>5, <1>6, <1>7 DEF RiskSettled, Settles
<1>9. ASSUME NEW q \in Queued, NEW e
      PROVE  /\ ConcernsRisk(SentWith(q, e), r) <=> ConcernsRisk(q, r)
             /\ Said(SentWith(q, e)).risks = q.riskUpserts \ q.riskDeletes
  BY SentRisks
<1>10. ASSUME NEW i \in 1 .. n
       PROVE  (ConcernsRisk(F[i], r) <=> ConcernsRisk(G[i], r)) /\ said[i] = said2[i]
  <2>1. i \in 1 .. n + 1
    OBVIOUS
  <2>2. CASE G[i] = F[i]
    BY <1>6, <1>7, <2>1, <2>2
  <2>3. ASSUME NEW j \in 1 .. Len(queue[c]), F[i] = SentWith(queue[c][j], edited),
               G[i] = SentWith(queue[c][j], edited')
        PROVE  (ConcernsRisk(F[i], r) <=> ConcernsRisk(G[i], r)) /\ said[i] = said2[i]
    <3>1. PICK q \in Queued : q = queue[c][j]
      BY DEF StreamInv, WorldTypes
    <3>2. said[i] = Said(SentWith(q, edited)).risks \cap {r} /\ said2[i] = Said(SentWith(q, edited')).risks \cap {r}
      BY <1>6, <1>7, <2>1, <2>3, <3>1
    <3> QED BY <1>9, <2>3, <3>1, <3>2
  <2>4. G[i] = F[i] \/ \E j \in 1 .. Len(queue[c]) :
                          F[i] = SentWith(queue[c][j], edited) /\ G[i] = SentWith(queue[c][j], edited')
    BY <1>1, <1>2, <1>3
  <2> QED BY <2>2, <2>3, <2>4
<1>11. (n + 1 \in B <=> ConcernsRisk(d, r)) /\ said2[n + 1] = (d.riskUpserts \ d.riskDeletes) \cap {r}
  <2>1. n + 1 \in 1 .. n + 1 /\ G[n + 1] = SentWith(d, edited')
    BY <1>1, <1>3
  <2>2. ConcernsRisk(SentWith(d, edited'), r) <=> ConcernsRisk(d, r)
    BY <1>9
  <2>3. said2[n + 1] = Said(SentWith(d, edited')).risks \cap {r}
    BY <1>7, <2>1
  <2> QED BY <1>5, <1>9, <2>1, <2>2, <2>3
<1>12. n + 1 \in B => said2[n + 1] = risks' \cap {r}
  BY <1>11 DEF TellsRisk
<1>13. n + 1 \notin B => /\ Settles(A, view[c].risks \cap {r}, said, risks \cap {r})
                         /\ risks' \cap {r} = risks \cap {r}
                         /\ \A i \in A : said[i] = risks \cap {r} => said2[i] = risks \cap {r}
  BY <1>8, <1>10, <1>11 DEF TellsRisk
<1>14. \A i \in 1 .. n : i \in B <=> i \in A
  BY <1>4, <1>5, <1>10
<1>15. PICK kept : kept = risks \cap {r}
  OBVIOUS
<1>16. PICK kept2 : kept2 = risks' \cap {r}
  OBVIOUS
<1>k. PICK shown : shown = view[c].risks \cap {r}
  OBVIOUS
<1>x. n + 1 \in B => said2[n + 1] = kept2
  BY <1>12, <1>16
<1>y. n + 1 \notin B => /\ Settles(A, shown, said, kept) /\ kept2 = kept
                        /\ \A i \in A : said[i] = kept => said2[i] = kept
  BY <1>13, <1>15, <1>16, <1>k, Zenon
<1>z. OneMore(n, A, B, shown, said, said2, kept, kept2)
  BY <1>14, <1>x, <1>y DEF OneMore
<1>17. Settles(B, shown, said2, kept2)
  BY <1>z, LastWord
<1> QED BY <1>8, <1>16, <1>17, <1>k

LEMMA ModeTold ==
    ASSUME StreamInv, NumbersInv, NEW d \in Queued, Notify(d), NEW c \in Client, link'[c], ~missed'[c],
           d.mode = mode', mode' = "unset" => mode = "unset", ModeSettled(c)
    PROVE  ModeSettled(c)'
<1>g. PICK n \in Nat : Grows(InFlight(c), InFlight(c)', queue[c], d, edited, edited', n)
  BY FlightGrows DEF NumbersInv
<1>v. view'[c] = view[c]
  BY FlightGrows DEF NumbersInv
<1>1. /\ view'[c] = view[c]
      /\ DOMAIN InFlight(c) = 1 .. n /\ DOMAIN InFlight(c)' = 1 .. n + 1
      /\ InFlight(c)'[n + 1] = SentWith(d, edited')
      /\ \A i \in 1 .. n :
            \/ InFlight(c)'[i] = InFlight(c)[i]
            \/ \E j \in 1 .. Len(queue[c]) :
                  /\ InFlight(c)[i] = SentWith(queue[c][j], edited)
                  /\ InFlight(c)'[i] = SentWith(queue[c][j], edited')
  BY <1>g, <1>v DEF Grows
<1>2. PICK F : F = InFlight(c)
  OBVIOUS
<1>3. PICK G : G = InFlight(c)'
  OBVIOUS
<1>4. PICK A \in SUBSET (1 .. n) : A = {i \in 1 .. n : F[i].mode # "unset"}
  OBVIOUS
<1>5. PICK B \in SUBSET (1 .. n + 1) : B = {i \in 1 .. n + 1 : G[i].mode # "unset"}
  OBVIOUS
<1>6. PICK said : said = [i \in 1 .. n |-> Said(F[i]).mode]
  OBVIOUS
<1>7. PICK said2 : said2 = [i \in 1 .. n + 1 |-> Said(G[i]).mode]
  OBVIOUS
<1>8. /\ ModeSettled(c) <=> Settles(A, view[c].mode, said, mode)
      /\ ModeSettled(c)' <=> Settles(B, view[c].mode, said2, mode')
  BY <1>1, <1>2, <1>3, <1>4, <1>5, <1>6, <1>7 DEF ModeSettled, Settles
<1>9. ASSUME NEW q \in Queued, NEW e
      PROVE  Said(SentWith(q, e)).mode = q.mode /\ SentWith(q, e).mode = q.mode
  BY SentRisks
<1>10. ASSUME NEW i \in 1 .. n
       PROVE  (F[i].mode # "unset" <=> G[i].mode # "unset") /\ said[i] = said2[i]
  <2>1. i \in 1 .. n + 1
    OBVIOUS
  <2>2. CASE G[i] = F[i]
    BY <1>6, <1>7, <2>1, <2>2
  <2>3. ASSUME NEW j \in 1 .. Len(queue[c]), F[i] = SentWith(queue[c][j], edited),
               G[i] = SentWith(queue[c][j], edited')
        PROVE  (F[i].mode # "unset" <=> G[i].mode # "unset") /\ said[i] = said2[i]
    <3>1. PICK q \in Queued : q = queue[c][j]
      BY DEF StreamInv, WorldTypes
    <3>2. said[i] = Said(SentWith(q, edited)).mode /\ said2[i] = Said(SentWith(q, edited')).mode
      BY <1>6, <1>7, <2>1, <2>3, <3>1
    <3> QED BY <1>9, <2>3, <3>1, <3>2
  <2>4. G[i] = F[i] \/ \E j \in 1 .. Len(queue[c]) :
                          F[i] = SentWith(queue[c][j], edited) /\ G[i] = SentWith(queue[c][j], edited')
    BY <1>1, <1>2, <1>3
  <2> QED BY <2>2, <2>3, <2>4
<1>11. (n + 1 \in B <=> d.mode # "unset") /\ said2[n + 1] = d.mode
  <2>1. n + 1 \in 1 .. n + 1 /\ G[n + 1] = SentWith(d, edited')
    BY <1>1, <1>3
  <2> QED BY <1>5, <1>7, <1>9, <2>1
<1>15. PICK kept : kept = mode
  OBVIOUS
<1>16. PICK kept2 : kept2 = mode'
  OBVIOUS
<1>k. PICK shown : shown = view[c].mode
  OBVIOUS
<1>12. n + 1 \in B => said2[n + 1] = kept2
  BY <1>11, <1>16
<1>13. n + 1 \notin B => /\ Settles(A, shown, said, kept) /\ kept2 = kept
                         /\ \A i \in A : said[i] = kept => said2[i] = kept
  BY <1>8, <1>10, <1>11, <1>15, <1>16, <1>k
<1>14. \A i \in 1 .. n : i \in B <=> i \in A
  BY <1>4, <1>5, <1>10
<1>z. OneMore(n, A, B, shown, said, said2, kept, kept2)
  BY <1>12, <1>13, <1>14 DEF OneMore
<1>17. Settles(B, shown, said2, kept2)
  BY <1>z, LastWord
<1> QED BY <1>8, <1>16, <1>17, <1>k

\* A message that tells every change keeps every dashboard converging.
LEMMA ToldConverges ==
    ASSUME StreamInv, NumbersInv, NEW d \in Queued, Notify(d),
           d.mode = mode', mode' = "unset" => mode = "unset",
           \A k \in Key : TellsEntity(d, k), \A r \in Risk : TellsRisk(d, r),
           \A c \in Client : link[c] /\ ~missed[c] => Converges(c)
    PROVE  \A c \in Client : (link[c] /\ ~missed[c] => Converges(c))'
<1> SUFFICES ASSUME NEW c \in Client, link'[c], ~missed'[c] PROVE Converges(c)'
  OBVIOUS
<1>1. link[c] /\ ~missed[c]
  BY FlightGrows DEF NumbersInv
<1>2. Converges(c)
  BY <1>1
<1>3. \A k \in Key : EntitySettled(c, k)'
  BY <1>2, EntityTold DEF Converges
<1>4. \A r \in Risk : RiskSettled(c, r)'
  BY <1>2, RiskTold DEF Converges
<1>5. ModeSettled(c)'
  BY <1>2, ModeTold DEF Converges
<1> QED BY <1>3, <1>4, <1>5 DEF Converges

LEMMA UpsertSaid ==
    ASSUME NEW d \in Queued, NEW e, NEW k \in Key, NEW n \in Nat,
           k \notin d.deletes, <<k, n>> \in d.upserts, OneEach(d)
    PROVE  Said(SentWith(d, e)).world[k] = Content(n, e)
BY SaidBySent

\* What a message of the world's own objects says is what the world holds.
LEMMA WorldSaid ==
    ASSUME NEW d \in Queued, NEW k \in Key, NEW w \in [Key -> Nat], NEW e, Absent \notin e,
           \A n \in Nat : <<k, n>> \in d.upserts => n = w[k],
           k \in d.deletes => w[k] = Absent,
           d.kind = "snapshot" /\ ~(\E u \in d.upserts : u[1] = k) => w[k] = Absent,
           Concerns(d, k), OneEach(d)
    PROVE  Said(SentWith(d, e)).world[k] = Content(w[k], e)
<1>1. Content(Absent, e) = <<Absent, FALSE>>
  BY Contents
<1>2. CASE k \in d.deletes
  <2>1. Said(SentWith(d, e)).world[k] = <<Absent, FALSE>>
    BY <1>2, SaidBySent
  <2> QED BY <1>1, <1>2, <2>1
<1>3. CASE k \notin d.deletes /\ ~(\E u \in d.upserts : u[1] = k)
  <2>1. Said(SentWith(d, e)).world[k] = <<Absent, FALSE>>
    BY <1>3, SaidBySent
  <2>2. w[k] = Absent
    BY <1>3 DEF Concerns
  <2> QED BY <1>1, <2>1, <2>2
<1>4. CASE k \notin d.deletes /\ \E u \in d.upserts : u[1] = k
  <2>1. PICK u \in d.upserts : u[1] = k
    BY <1>4
  <2>2. u \in Key \X Nat
    BY DEF Queued
  <2>3. u = <<k, u[2]>> /\ u[2] \in Nat
    BY <2>1, <2>2
  <2>4. PICK n \in Nat : <<k, n>> \in d.upserts /\ n = w[k]
    BY <2>1, <2>3
  <2>5. Said(SentWith(d, e)).world[k] = Content(n, e)
    BY <1>4, <2>4, UpsertSaid
  <2> QED BY <2>4, <2>5
<1> QED BY <1>2, <1>3, <1>4

-----------------------------------------------------------------------------
(* The numbers. *)
LEMMA StoredApart ==
    ASSUME WorldTypes, \A k \in Key : world[k] <= stored, OwnNumbers,
           NEW keys \in SUBSET Key, Store(keys),
           (\E v \in Vehicle : keys = {v}) \/ keys \cap Vehicle = {}
    PROVE  OwnNumbers'
<1>1. \A k \in Key : world'[k] = IF k \in keys THEN stored + 1 ELSE world[k]
  BY DEF Store
<1>2. \A k \in Key : world[k] \in Nat /\ world[k] # stored + 1
  BY DEF WorldTypes
<1>3. Vehicle \subseteq Key
  BY DEF Key
<1> QED BY <1>1, <1>2, <1>3 DEF OwnNumbers

LEMMA ForgottenApart ==
    ASSUME OwnNumbers, NEW keys, Forget(keys) PROVE OwnNumbers'
<1>1. \A k \in Key : world'[k] = IF k \in keys THEN Absent ELSE world[k]
  BY DEF Forget
<1>2. Vehicle \subseteq Key
  BY DEF Key
<1> QED BY <1>1, <1>2 DEF OwnNumbers

\* Whatever is told, the numbers stay in order.
LEMMA NumbersTold ==
    ASSUME StreamInv, NumbersInv, NEW d \in Queued, Notify(d), OneEach(d),
           OwnNumbers', frame' = NoFrame, d.mode = mode', mode' = "unset" => mode = "unset",
           \A n \in edited' : n \in Nat /\ n # Absent /\ n <= stored',
           \A r \in risks' : r.frame <= stored'
    PROVE  NumbersInv'
<1>1. missed' \in [Client -> BOOLEAN]
  BY DEF Notify
<1>2. ASSUME NEW c \in Client, NEW i \in 1 .. Len(queue'[c])
      PROVE  OneEach(queue'[c][i]) /\ (mode' = "unset" => queue'[c][i].mode = "unset")
  <2>1. queue'[c] = queue[c] \/ queue'[c] = Append(queue[c], d)
    BY DEF Notify
  <2>2. queue[c] \in Seq(Queued)
    BY DEF StreamInv, WorldTypes
  <2>3. \/ i \in 1 .. Len(queue[c]) /\ queue'[c][i] = queue[c][i]
        \/ queue'[c][i] = d
    BY <2>1, <2>2
  <2> QED BY <2>3 DEF NumbersInv, Unset
<1>3. ASSUME mode' = "unset", NEW c \in Client PROVE Unset(c)'
  <2>1. Unset(c) /\ view' = view /\ wire' = wire
    BY <1>3 DEF NumbersInv, Notify
  <2> QED BY <1>2, <1>3, <2>1 DEF Unset
<1> QED BY <1>1, <1>2, <1>3 DEF NumbersInv

\* Found again, a risk has a new name.
LEMMA RisksRenewed ==
    ASSUME stored \in Nat, stored' \in Nat, stored < stored', \A r \in risks : r.frame <= stored,
           NEW found, NEW present, RefreshRisks(found, present)
    PROVE  \A r \in risks' : r.frame = stored' /\ r.frame <= stored' /\ r \notin risks
BY DEF RefreshRisks

\* One message that tells every change.
LEMMA Announced ==
    ASSUME StreamInv, ConvergeInv, NEW d \in Queued, Notify(d), d.kind = "delta",
           frame' = NoFrame, world' \in [Key -> Nat], OwnNumbers',
           d.mode = mode', mode' = "unset" => mode = "unset",
           \A n \in edited' : n \in Nat /\ n # Absent /\ n <= stored',
           \A r \in risks' : r.frame <= stored',
           \A k \in Key, n \in Nat : <<k, n>> \in d.upserts => n = world'[k],
           \A k \in Key : k \in d.deletes => world'[k] = Absent,
           \A k \in Key : ~Concerns(d, k) =>
               ~Untold(k) /\ world'[k] = world[k] /\ (world[k] \in edited' <=> world[k] \in edited),
           \A r \in Risk : TellsRisk(d, r)
    PROVE  ConvergeInv'
<1>1. OneEach(d)
  BY DEF OneEach
<1>2. NumbersInv'
  BY <1>1, NumbersTold DEF ConvergeInv
<1>3. PICK w \in [Key -> Nat] : w = world'
  OBVIOUS
<1>4. Absent \notin edited'
  OBVIOUS
<1>5. ASSUME NEW k \in Key PROVE TellsEntity(d, k)
  <2>1. ASSUME Concerns(d, k) PROVE Said(SentWith(d, edited')).world[k] = Content(world[k]', edited')
    <3>1. \A n \in Nat : <<k, n>> \in d.upserts => n = w[k]
      BY <1>3
    <3>2. k \in d.deletes => w[k] = Absent
      BY <1>3
    <3>3. d.kind = "snapshot" => w[k] = Absent
      OBVIOUS
    <3>4. Said(SentWith(d, edited')).world[k] = Content(w[k], edited')
      BY <1>1, <1>4, <2>1, <3>1, <3>2, <3>3, WorldSaid
    <3> QED BY <1>3, <3>4
  <2> QED BY <2>1 DEF TellsEntity
<1> QED BY <1>2, <1>5, ToldConverges DEF ConvergeInv

LEMMA LoopAtRest == ASSUME ~Bus, LoopFree PROVE frame = NoFrame /\ \A k : ~Untold(k)
BY DEF LoopFree, Untold

LEMMA NumbersKept ==
    ASSUME NumbersInv, edited' = edited, stored \in Nat, stored' \in Nat, stored <= stored'
    PROVE  \A n \in edited' : n \in Nat /\ n # Absent /\ n <= stored'
BY DEF NumbersInv, Absent

LEMMA IngestVehicleConverges ==
    ASSUME ~Bus, StreamInv, ConvergeInv, NEW v \in Vehicle, NEW found, IngestVehicle(v, found)
    PROVE  ConvergeInv'
<1>1. /\ WorldTypes /\ NumbersInv /\ Store({v}) /\ {v} \in SUBSET Key /\ OwnNumbers
      /\ UNCHANGED <<mode, edited, frame>>
  BY DEF StreamInv, IngestVehicle, Key, ConvergeInv, NumbersInv
<1>2. frame' = NoFrame /\ \A k : ~Untold(k)
  BY <1>1, LoopAtRest DEF IngestVehicle
<1>3. risks' \in SUBSET Risk /\ risks \in SUBSET Risk /\ mode \in Connectivity
  BY <1>1, StoreNumbers, RisksFound DEF IngestVehicle, WorldTypes
<1>4. PICK u \in SUBSET (Key \X Nat) : u = Upserts({v})
  BY <1>1, StoreNumbers
<1>5. PICK d \in Queued : d = Delta(u, {}, risks', risks, mode) /\ d.upserts = u
  BY <1>3, DeltaQueued
<1>6. /\ Notify(d) /\ d.kind = "delta" /\ d.mode = mode' /\ d.deletes = {}
      /\ d.riskUpserts = risks' /\ d.riskDeletes = risks
  BY <1>1, <1>4, <1>5 DEF IngestVehicle, Replaced, Delta
<1>7. /\ stored \in Nat /\ stored' \in Nat /\ stored < stored' /\ stored <= stored' /\ world' \in [Key -> Nat]
      /\ \A k \in Key, n \in Nat : <<k, n>> \in d.upserts => n = world'[k]
  BY <1>1, <1>4, <1>5, StoreNumbers DEF WorldTypes
<1>8. OwnNumbers'
  BY <1>1, StoredApart DEF StreamInv
<1>9. \A n \in edited' : n \in Nat /\ n # Absent /\ n <= stored'
  BY <1>1, <1>7, NumbersKept
<1>10. \A r \in risks' : r.frame <= stored' /\ r \notin risks
  BY <1>1, <1>7, RisksRenewed DEF NumbersInv, IngestVehicle
<1>11. ASSUME NEW k \in Key, ~Concerns(d, k)
       PROVE  ~Untold(k) /\ world'[k] = world[k] /\ (world[k] \in edited' <=> world[k] \in edited)
  <2>1. <<v, stored + 1>> \in d.upserts
    BY <1>4, <1>5 DEF Upserts
  <2>2. k # v
    BY <1>11, <2>1 DEF Concerns
  <2> QED BY <1>1, <1>2, <2>2 DEF Store
<1>12. \A r \in Risk : TellsRisk(d, r)
  BY <1>6, <1>10 DEF TellsRisk, ConcernsRisk
<1>13. \A k \in Key : k \in d.deletes => world'[k] = Absent
  BY <1>6
<1> QED BY <1>1, <1>2, <1>6, <1>7, <1>8, <1>9, <1>10, <1>11, <1>12, <1>13, Announced

\* A message that says nothing of risks, when none has changed.
LEMMA NoRiskTold ==
    ASSUME NEW d, d.kind = "delta", d.riskUpserts = {}, d.riskDeletes = {}, risks' = risks
    PROVE  \A r \in Risk : TellsRisk(d, r)
BY DEF TellsRisk, ConcernsRisk

LEMMA IngestOtherConverges ==
    ASSUME ~Bus, StreamInv, ConvergeInv, NEW keys \in SUBSET Key, keys \cap Vehicle = {},
           IngestOther(keys)
    PROVE  ConvergeInv'
<1>1. /\ WorldTypes /\ NumbersInv /\ Store(keys) /\ OwnNumbers
      /\ UNCHANGED <<mode, edited, frame, risks>>
  BY DEF StreamInv, IngestOther, ConvergeInv, NumbersInv
<1>2. frame' = NoFrame /\ \A k : ~Untold(k)
  BY <1>1, LoopAtRest DEF IngestOther
<1>3. risks \in SUBSET Risk /\ mode \in Connectivity
  BY <1>1 DEF WorldTypes
<1>4. PICK u \in SUBSET (Key \X Nat) : u = Upserts(keys)
  BY <1>1, StoreNumbers
<1>5. PICK d \in Queued : d = Delta(u, {}, {}, {}, mode) /\ d.upserts = u
  BY <1>3, DeltaQueued
<1>6. /\ Notify(d) /\ d.kind = "delta" /\ d.mode = mode' /\ d.deletes = {}
      /\ d.riskUpserts = {} /\ d.riskDeletes = {}
  BY <1>1, <1>4, <1>5 DEF IngestOther, Delta
<1>7. /\ stored \in Nat /\ stored' \in Nat /\ stored <= stored' /\ world' \in [Key -> Nat]
      /\ \A k \in Key, n \in Nat : <<k, n>> \in d.upserts => n = world'[k]
  BY <1>1, <1>4, <1>5, StoreNumbers DEF WorldTypes
<1>8. OwnNumbers'
  BY <1>1, StoredApart DEF StreamInv
<1>9. \A n \in edited' : n \in Nat /\ n # Absent /\ n <= stored'
  BY <1>1, <1>7, NumbersKept
<1>10. \A r \in risks' : r.frame <= stored'
  BY <1>1, <1>7 DEF NumbersInv, WorldTypes, Risk
<1>11. ASSUME NEW k \in Key, ~Concerns(d, k)
       PROVE  ~Untold(k) /\ world'[k] = world[k] /\ (world[k] \in edited' <=> world[k] \in edited)
  <2>1. \A j \in keys : <<j, stored + 1>> \in d.upserts
    BY <1>4, <1>5 DEF Upserts
  <2>2. k \notin keys
    BY <1>11, <2>1 DEF Concerns
  <2> QED BY <1>1, <1>2, <2>2 DEF Store
<1>12. \A r \in Risk : TellsRisk(d, r)
  BY <1>1, <1>6, NoRiskTold
<1>13. \A k \in Key : k \in d.deletes => world'[k] = Absent
  BY <1>6
<1> QED BY <1>1, <1>2, <1>6, <1>7, <1>8, <1>9, <1>10, <1>11, <1>12, <1>13, Announced

LEMMA EditConverges ==
    ASSUME ~Bus, StreamInv, ConvergeInv, NEW v \in Vehicle, Edit(v)
    PROVE  ConvergeInv'
<1>1. /\ WorldTypes /\ NumbersInv /\ OwnNumbers /\ v \in Key /\ world[v] # Absent
      /\ UNCHANGED <<world, stored, mode, frame, risks>> /\ edited' = edited \cup {world[v]}
  BY DEF StreamInv, Edit, Key, ConvergeInv, NumbersInv
<1>2. frame' = NoFrame /\ \A k : ~Untold(k)
  BY <1>1, LoopAtRest DEF Edit
<1>3. mode \in Connectivity /\ {<<v, world[v]>>} \in SUBSET (Key \X Nat)
  BY <1>1 DEF WorldTypes
<1>4. PICK u \in SUBSET (Key \X Nat) : u = {<<v, world[v]>>}
  BY <1>3
<1>5. PICK d \in Queued : d = Delta(u, {}, {}, {}, mode) /\ d.upserts = u
  BY <1>3, DeltaQueued
<1>6. /\ Notify(d) /\ d.kind = "delta" /\ d.mode = mode' /\ d.deletes = {}
      /\ d.riskUpserts = {} /\ d.riskDeletes = {}
  BY <1>1, <1>4, <1>5 DEF Edit, Delta
<1>7. world' \in [Key -> Nat] /\ \A k \in Key, n \in Nat : <<k, n>> \in d.upserts => n = world'[k]
  BY <1>1, <1>4, <1>5 DEF WorldTypes
<1>8. OwnNumbers'
  BY <1>1 DEF OwnNumbers
<1>9. \A n \in edited' : n \in Nat /\ n # Absent /\ n <= stored'
  <2>1. world[v] \in Nat /\ world[v] <= stored
    BY <1>1 DEF StreamInv, WorldTypes
  <2> QED BY <1>1, <2>1 DEF NumbersInv
<1>10. \A r \in risks' : r.frame <= stored'
  BY <1>1 DEF NumbersInv
<1>11. ASSUME NEW k \in Key, ~Concerns(d, k)
       PROVE  ~Untold(k) /\ world'[k] = world[k] /\ (world[k] \in edited' <=> world[k] \in edited)
  <2>1. <<v, world[v]>> \in d.upserts
    BY <1>4, <1>5
  <2>2. k # v
    BY <1>11, <2>1 DEF Concerns
  <2>3. world[k] # world[v]
    BY <1>1, <2>2 DEF OwnNumbers
  <2> QED BY <1>1, <1>2, <2>3
<1>12. \A r \in Risk : TellsRisk(d, r)
  BY <1>1, <1>6, NoRiskTold
<1>13. \A k \in Key : k \in d.deletes => world'[k] = Absent
  BY <1>6
<1> QED BY <1>1, <1>2, <1>6, <1>7, <1>8, <1>9, <1>10, <1>11, <1>12, <1>13, Announced

LEMMA ConnectivityConverges ==
    ASSUME ~Bus, StreamInv, ConvergeInv, NEW m \in Mode, IngestConnectivity(m)
    PROVE  ConvergeInv'
<1>1. /\ WorldTypes /\ NumbersInv /\ OwnNumbers /\ mode' = m /\ m # "unset" /\ m \in Connectivity
      /\ UNCHANGED <<world, edited, stored, frame, risks>>
  BY WorldAssumption DEF StreamInv, IngestConnectivity, ConvergeInv, NumbersInv, Connectivity
<1>2. frame' = NoFrame /\ \A k : ~Untold(k)
  BY <1>1, LoopAtRest DEF IngestConnectivity
<1>5. PICK d \in Queued : d = Delta({}, {}, {}, {}, m) /\ d.upserts = {}
  BY <1>1, DeltaQueued
<1>6. /\ Notify(d) /\ d.kind = "delta" /\ d.mode = mode' /\ d.deletes = {}
      /\ d.riskUpserts = {} /\ d.riskDeletes = {}
  BY <1>1, <1>5 DEF IngestConnectivity, Delta
<1>7. world' \in [Key -> Nat] /\ \A k \in Key, n \in Nat : <<k, n>> \in d.upserts => n = world'[k]
  BY <1>1, <1>5 DEF WorldTypes
<1>8. OwnNumbers'
  BY <1>1 DEF OwnNumbers
<1>9. \A n \in edited' : n \in Nat /\ n # Absent /\ n <= stored'
  BY <1>1 DEF NumbersInv
<1>10. \A r \in risks' : r.frame <= stored'
  BY <1>1 DEF NumbersInv
<1>11. \A k \in Key : ~Untold(k) /\ world'[k] = world[k] /\ (world[k] \in edited' <=> world[k] \in edited)
  BY <1>1, <1>2
<1>12. \A r \in Risk : TellsRisk(d, r)
  BY <1>1, <1>6, NoRiskTold
<1>13. \A k \in Key : k \in d.deletes => world'[k] = Absent
  BY <1>6
<1> QED BY <1>1, <1>2, <1>6, <1>7, <1>8, <1>9, <1>10, <1>11, <1>12, <1>13, Announced

\* What leaves is told to have left.
LEMMA ForgetConverges ==
    ASSUME ~Bus, StreamInv, ConvergeInv, LoopFree, NEW keys \in SUBSET Key, Forget(keys),
           Notify(Delta({}, keys, {}, {}, mode))
    PROVE  ConvergeInv'
<1>1. /\ WorldTypes /\ NumbersInv /\ OwnNumbers /\ mode \in Connectivity
      /\ UNCHANGED <<edited, risks, stored, mode, frame>>
  BY DEF StreamInv, ConvergeInv, NumbersInv, Forget, WorldTypes
<1>2. frame' = NoFrame /\ \A k : ~Untold(k)
  BY <1>1, LoopAtRest
<1>5. PICK d \in Queued : d = Delta({}, keys, {}, {}, mode) /\ d.upserts = {}
  BY <1>1, DeltaQueued
<1>6. /\ Notify(d) /\ d.kind = "delta" /\ d.mode = mode' /\ d.deletes = keys
      /\ d.riskUpserts = {} /\ d.riskDeletes = {}
  BY <1>1, <1>5 DEF Delta
<1>7. world' \in [Key -> Nat] /\ \A k \in Key, n \in Nat : <<k, n>> \in d.upserts => n = world'[k]
  BY <1>1, <1>5, ForgetNumbers
<1>8. OwnNumbers'
  BY <1>1, ForgottenApart
<1>9. \A n \in edited' : n \in Nat /\ n # Absent /\ n <= stored'
  BY <1>1 DEF NumbersInv
<1>10. \A r \in risks' : r.frame <= stored'
  BY <1>1 DEF NumbersInv
<1>11. ASSUME NEW k \in Key, ~Concerns(d, k)
       PROVE  ~Untold(k) /\ world'[k] = world[k] /\ (world[k] \in edited' <=> world[k] \in edited)
  <2>1. k \notin keys
    BY <1>6, <1>11 DEF Concerns
  <2> QED BY <1>1, <1>2, <2>1 DEF Forget
<1>12. \A r \in Risk : TellsRisk(d, r)
  BY <1>1, <1>6, NoRiskTold
<1>13. \A k \in Key : k \in d.deletes => world'[k] = Absent
  BY <1>6 DEF Forget
<1> QED BY <1>1, <1>2, <1>6, <1>7, <1>8, <1>9, <1>10, <1>11, <1>12, <1>13, Announced

LEMMA CloseFrameConverges ==
    ASSUME WorldInv, ConvergeInv, NEW found, CloseFrame(found)
    PROVE  ConvergeInv'
<1>1. /\ StreamInv /\ WorldTypes /\ NumbersInv /\ OwnNumbers /\ Store(frame.roadside)
      /\ UNCHANGED <<mode, edited>> /\ frame # NoFrame /\ frame' = NoFrame
  BY DEF WorldInv, StreamInv, CloseFrame, NoFrame, ConvergeInv, NumbersInv
<1>2. /\ frame.roadside \in SUBSET Roadside /\ frame.done \in SUBSET (Key \X Nat)
      /\ \A d \in frame.done : d[2] = world[d[1]] /\ d[1] \in Vehicle
  <2>1. frame \in Frame
    BY <1>1 DEF WorldInv, FrameInv
  <2> QED BY <1>1, <2>1 DEF WorldInv, FrameInv, Frame, NumbersInv
<1>r. PICK roadside \in SUBSET Key : roadside = frame.roadside /\ roadside \cap Vehicle = {}
  <2>1. frame.roadside \in SUBSET Key /\ frame.roadside \cap Vehicle = {}
    BY <1>2, WorldAssumption DEF Key
  <2> QED BY <2>1
<1>3. PICK old \in SUBSET (Key \X Nat) : old = frame.done
  BY <1>2
<1>4. PICK u \in SUBSET (Key \X Nat) : u = Upserts(roadside)
  BY <1>1, <1>r, StoreNumbers
<1>5. /\ stored \in Nat /\ stored' \in Nat /\ stored < stored' /\ stored <= stored' /\ world' \in [Key -> Nat]
      /\ \A k \in Key, n \in Nat : <<k, n>> \in u => n = world'[k]
      /\ \A k \in Key : world'[k] = IF k \in roadside THEN stored + 1 ELSE world[k]
  BY <1>1, <1>r, <1>4, StoreNumbers DEF WorldTypes, Store
<1>6. \A k \in Key, n \in Nat : <<k, n>> \in old => n = world'[k]
  <2>1. ASSUME NEW k \in Key, NEW n \in Nat, <<k, n>> \in old PROVE n = world'[k]
    <3>1. n = world[k] /\ k \in Vehicle
      BY <1>2, <1>3, <2>1
    <3> QED BY <1>5, <1>r, <3>1
  <2> QED BY <2>1
<1>7. OwnNumbers'
  BY <1>1, <1>r, StoredApart DEF StreamInv
<1>8. \A n \in edited' : n \in Nat /\ n # Absent /\ n <= stored'
  BY <1>1, <1>5, NumbersKept
<1>9. risks \in SUBSET Risk /\ mode \in Connectivity
  BY <1>1 DEF WorldTypes
<1>10. \A k \in Key : (\E x \in old : x[1] = k) \/ ~Untold(k)
  BY <1>3 DEF Untold
<1>11. ASSUME NEW d \in Queued, Notify(d), d.kind = "delta", d.mode = mode, d.deletes = {},
              d.upserts = old \cup u
       PROVE  /\ \A k \in Key, n \in Nat : <<k, n>> \in d.upserts => n = world'[k]
              /\ \A k \in Key : k \in d.deletes => world'[k] = Absent
              /\ \A k \in Key : ~Concerns(d, k) =>
                    ~Untold(k) /\ world'[k] = world[k] /\ (world[k] \in edited' <=> world[k] \in edited)
  <2>1. \A k \in Key, n \in Nat : <<k, n>> \in d.upserts => n = world'[k]
    BY <1>5, <1>6, <1>11
  <2>2. ASSUME NEW k \in Key, ~Concerns(d, k)
        PROVE  ~Untold(k) /\ world'[k] = world[k] /\ (world[k] \in edited' <=> world[k] \in edited)
    <3>1. \A j \in roadside : <<j, stored + 1>> \in d.upserts
      BY <1>4, <1>11 DEF Upserts
    <3>2. k \notin roadside
      BY <2>2, <3>1 DEF Concerns
    <3>3. \A x \in old : x[1] # k
      BY <1>11, <2>2 DEF Concerns
    <3> QED BY <1>1, <1>5, <1>10, <3>2, <3>3
  <2> QED BY <1>11, <2>1, <2>2
<1>12. CASE frame.done = {}
  <2>1. PICK d \in Queued : d = Delta(u, {}, {}, {}, mode) /\ d.upserts = u
    BY <1>9, DeltaQueued
  <2>2. /\ Notify(d) /\ d.kind = "delta" /\ d.mode = mode' /\ d.deletes = {}
        /\ d.riskUpserts = {} /\ d.riskDeletes = {} /\ risks' = risks
    BY <1>1, <1>4, <1>12, <1>r, <2>1 DEF CloseFrame, Delta
  <2>3. d.upserts = old \cup u
    BY <1>3, <1>12, <2>1
  <2>4. \A r \in Risk : TellsRisk(d, r)
    BY <2>2, NoRiskTold
  <2>5. \A r \in risks' : r.frame <= stored'
    BY <1>1, <1>5, <2>2 DEF NumbersInv, WorldTypes, Risk
  <2>6. d.mode = mode
    BY <1>1, <2>2
  <2>7. /\ \A k \in Key, n \in Nat : <<k, n>> \in d.upserts => n = world'[k]
        /\ \A k \in Key : k \in d.deletes => world'[k] = Absent
        /\ \A k \in Key : ~Concerns(d, k) =>
              ~Untold(k) /\ world'[k] = world[k] /\ (world[k] \in edited' <=> world[k] \in edited)
    BY <1>11, <2>2, <2>3, <2>6
  <2> QED BY <1>1, <1>5, <1>7, <1>8, <2>2, <2>4, <2>5, <2>7, Announced
<1>13. CASE frame.done # {}
  <2>1. RefreshRisks(found, Present(Vehicle)) /\ risks' \in SUBSET Risk
    BY <1>5, <1>13, RisksFound DEF CloseFrame
  <2>2. PICK d \in Queued : d = Delta(old \cup u, {}, risks', risks, mode) /\ d.upserts = old \cup u
    BY <1>9, <2>1, DeltaQueued
  <2>3. /\ Notify(d) /\ d.kind = "delta" /\ d.mode = mode' /\ d.deletes = {}
        /\ d.riskUpserts = risks' /\ d.riskDeletes = risks
    BY <1>1, <1>3, <1>4, <1>13, <1>r, <2>2 DEF CloseFrame, Replaced, Delta
  <2>4. \A r \in risks' : r.frame <= stored' /\ r \notin risks
    BY <1>1, <1>5, <2>1, RisksRenewed DEF NumbersInv
  <2>5. \A r \in Risk : TellsRisk(d, r)
    BY <2>3, <2>4 DEF TellsRisk, ConcernsRisk
  <2>6. d.mode = mode
    BY <1>1, <2>3
  <2>7. /\ \A k \in Key, n \in Nat : <<k, n>> \in d.upserts => n = world'[k]
        /\ \A k \in Key : k \in d.deletes => world'[k] = Absent
        /\ \A k \in Key : ~Concerns(d, k) =>
              ~Untold(k) /\ world'[k] = world[k] /\ (world[k] \in edited' <=> world[k] \in edited)
    BY <1>11, <2>2, <2>3, <2>6
  <2> QED BY <1>1, <1>5, <1>7, <1>8, <2>3, <2>4, <2>5, <2>7, Announced
<1> QED BY <1>12, <1>13

-----------------------------------------------------------------------------
\* Nothing that concerns the dashboard has happened.
LEMMA StillConverges ==
    ASSUME NEW c \in Client, InFlight(c)' = InFlight(c), view'[c] = view[c],
           UNCHANGED <<edited, mode, risks>>,
           \A k \in Key : ~Untold(k)' => ~Untold(k) /\ world'[k] = world[k],
           Converges(c)
    PROVE  Converges(c)'
<1>1. ASSUME NEW k \in Key, ~Untold(k)' PROVE EntitySettled(c, k)'
  <2>1. ~Untold(k) /\ world'[k] = world[k] /\ EntitySettled(c, k)
    BY <1>1 DEF Converges
  <2>2. WorldView'.world[k] = WorldView.world[k]
    BY <2>1 DEF WorldView
  <2> QED BY <2>1, <2>2 DEF EntitySettled, Settles
<1>2. ASSUME NEW r \in Risk PROVE RiskSettled(c, r)'
  <2>1. RiskSettled(c, r)
    BY DEF Converges
  <2> QED BY <2>1 DEF RiskSettled, Settles
<1>3. ModeSettled(c)'
  <2>1. ModeSettled(c)
    BY DEF Converges
  <2> QED BY <2>1 DEF ModeSettled, Settles
<1> QED BY <1>1, <1>2, <1>3 DEF Converges

LEMMA SilenceConverges ==
    ASSUME StreamInv, ConvergeInv, UNCHANGED <<streams, edited, mode, risks>>,
           stored' \in Nat, stored <= stored', OwnNumbers',
           frame' # NoFrame => \A d \in frame'.done : d[1] \in Vehicle,
           \A k \in Key : ~Untold(k)' => ~Untold(k) /\ world'[k] = world[k]
    PROVE  ConvergeInv'
<1>1. /\ stored \in Nat /\ NumbersInv /\ risks \subseteq Risk
      /\ UNCHANGED <<link, queue, wire, missed, drops, view>>
  BY DEF StreamInv, WorldTypes, ConvergeInv, streams
<1>2. NumbersInv'
  <2>1. \A n \in edited' : n \in Nat /\ n # Absent /\ n <= stored'
    BY <1>1, NumbersKept
  <2>2. \A r \in risks' : r.frame <= stored'
    BY <1>1 DEF NumbersInv, Risk
  <2>3. mode' = "unset" => \A c \in Client : Unset(c)'
    BY <1>1 DEF NumbersInv, Unset
  <2> QED BY <1>1, <2>1, <2>2, <2>3 DEF NumbersInv
<1>3. ASSUME NEW c \in Client, link'[c], ~missed'[c] PROVE Converges(c)'
  <2>1. InFlight(c)' = InFlight(c)
    BY <1>1, FlightIs
  <2>2. Converges(c)
    BY <1>1, <1>3 DEF ConvergeInv
  <2> QED BY <1>1, <2>1, <2>2, StillConverges
<1> QED BY <1>2, <1>3 DEF ConvergeInv

LEMMA OpenFrameConverges ==
    ASSUME StreamInv, ConvergeInv, NEW vehicles, NEW roadside, OpenFrame(vehicles, roadside)
    PROVE  ConvergeInv'
<1>1. /\ UNCHANGED <<world, edited, risks, stored, mode, streams>> /\ stored \in Nat
      /\ frame = NoFrame /\ frame'.done = {} /\ OwnNumbers
  BY DEF OpenFrame, StreamInv, WorldTypes, ConvergeInv, NumbersInv
<1>2. OwnNumbers'
  BY <1>1 DEF OwnNumbers
<1>3. \A k \in Key : ~Untold(k) /\ world'[k] = world[k]
  BY <1>1 DEF Untold
<1> QED BY <1>1, <1>2, <1>3, SilenceConverges

LEMMA FrameVehicleConverges ==
    ASSUME WorldInv, ConvergeInv, NEW v \in Vehicle, FrameVehicle(v)
    PROVE  ConvergeInv'
<1>1. /\ StreamInv /\ WorldTypes /\ OwnNumbers /\ NumbersInv /\ Store({v}) /\ {v} \in SUBSET Key
      /\ UNCHANGED <<edited, risks, mode, streams>> /\ frame # NoFrame
  BY DEF WorldInv, FrameVehicle, StreamInv, ConvergeInv, NumbersInv, NoFrame, Key
<1>2. stored \in Nat /\ stored' \in Nat /\ stored <= stored'
  BY <1>1, StoreNumbers DEF WorldTypes
<1>3. OwnNumbers'
  BY <1>1, StoredApart DEF StreamInv
<1>4. frame'.done = frame.done \cup {<<v, stored + 1>>}
  <2>1. frame \in Frame
    BY <1>1 DEF WorldInv, FrameInv
  <2> QED BY <2>1 DEF Frame, FrameVehicle, Upserts
<1>5. \A d \in frame'.done : d[1] \in Vehicle
  BY <1>1, <1>4 DEF NumbersInv
<1>6. ASSUME NEW k \in Key, ~Untold(k)' PROVE ~Untold(k) /\ world'[k] = world[k]
  <2>1. frame' # NoFrame
    <3>1. frame.open /\ frame \in Frame
      BY <1>1 DEF WorldInv, FrameInv, FrameVehicle
    <3>2. frame'.open = TRUE
      BY <3>1 DEF FrameVehicle, Frame
    <3> QED BY <3>2 DEF NoFrame
  <2>2. \A d \in frame'.done : d[1] # k
    BY <1>6, <2>1 DEF Untold
  <2>3. k # v /\ \A d \in frame.done : d[1] # k
    <3>1. <<v, stored + 1>> \in frame'.done /\ <<v, stored + 1>>[1] = v
      BY <1>4
    <3> QED BY <1>4, <2>2, <3>1
  <2> QED BY <1>1, <2>3 DEF Untold, Store
<1> QED BY <1>1, <1>2, <1>3, <1>5, <1>6, SilenceConverges

LEMMA RestConverges ==
    ASSUME StreamInv, ConvergeInv, UNCHANGED <<world, edited, risks, stored, mode, frame, streams>>
    PROVE  ConvergeInv'
<1>1. stored \in Nat /\ OwnNumbers
  BY DEF StreamInv, WorldTypes, ConvergeInv, NumbersInv
<1>2. OwnNumbers'
  BY <1>1 DEF OwnNumbers
<1>3. \A k \in Key : Untold(k)' = Untold(k) /\ world'[k] = world[k]
  BY DEF Untold
<1>4. frame' # NoFrame => \A d \in frame'.done : d[1] \in Vehicle
  BY DEF ConvergeInv, NumbersInv
<1> QED BY <1>1, <1>2, <1>3, <1>4, SilenceConverges

-----------------------------------------------------------------------------
\* The stream of one dashboard moves on, and the world rests.
LEMMA OneStream ==
    ASSUME StreamInv, ConvergeInv, UNCHANGED server, NEW c \in Client,
           missed' \in [Client -> BOOLEAN],
           \A e \in Client \ {c} : /\ link'[e] = link[e] /\ queue'[e] = queue[e] /\ wire'[e] = wire[e]
                                   /\ missed'[e] = missed[e] /\ view'[e] = view[e],
           \A i \in 1 .. Len(queue'[c]) : OneEach(queue'[c][i]),
           mode = "unset" => Unset(c)',
           link'[c] /\ ~missed'[c] => Converges(c)'
    PROVE  ConvergeInv'
<1>1. NumbersInv /\ UNCHANGED <<world, edited, risks, stored, mode, frame>>
  BY DEF ConvergeInv, server
<1>2. OwnNumbers'
  BY <1>1 DEF NumbersInv, OwnNumbers
<1>3. ASSUME NEW e \in Client, mode' = "unset" PROVE Unset(e)'
  BY <1>1, <1>3 DEF NumbersInv, Unset
<1>4. ASSUME NEW e \in Client, NEW i \in 1 .. Len(queue'[e]) PROVE OneEach(queue'[e][i])
  BY <1>1 DEF NumbersInv
<1>5. NumbersInv'
  BY <1>1, <1>2, <1>3, <1>4 DEF NumbersInv
<1>6. ASSUME NEW e \in Client, e # c, link'[e], ~missed'[e] PROVE Converges(e)'
  <2>1. Converges(e)
    BY <1>6 DEF ConvergeInv
  <2>2. InFlight(e)' = InFlight(e)
    BY <1>1, <1>6, FlightIs
  <2>3. \A k \in Key : Untold(k)' = Untold(k) /\ world'[k] = world[k]
    BY <1>1 DEF Untold
  <2> QED BY <1>1, <1>6, <2>1, <2>2, <2>3, StillConverges
<1> QED BY <1>5, <1>6 DEF ConvergeInv

LEMMA DropConverges == ASSUME StreamInv, ConvergeInv, NEW c \in Client, Drop(c) PROVE ConvergeInv'
<1>1. WorldTypes /\ NumbersInv
  BY DEF StreamInv, ConvergeInv
<1>2. /\ UNCHANGED <<server, missed, view>> /\ link'[c] = FALSE /\ queue'[c] = << >> /\ wire'[c] = << >>
      /\ \A e \in Client \ {c} : link'[e] = link[e] /\ queue'[e] = queue[e] /\ wire'[e] = wire[e]
  BY <1>1 DEF Drop, WorldTypes
<1>3. mode = "unset" => Unset(c)'
  BY <1>1, <1>2 DEF NumbersInv, Unset
<1>4. missed' \in [Client -> BOOLEAN]
  BY <1>1, <1>2 DEF NumbersInv
<1> QED BY <1>2, <1>3, <1>4, OneStream

LEMMA SendConverges == ASSUME StreamInv, ConvergeInv, NEW c \in Client, Send(c) PROVE ConvergeInv'
<1>1. /\ WorldTypes /\ NumbersInv /\ queue[c] # << >>
      /\ queue[c] \in Seq(Queued) /\ wire[c] \in Seq(OnWire)
  BY DEF StreamInv, ConvergeInv, Send, WorldTypes
<1>2. PICK h \in Queued : h = Head(queue[c])
  BY <1>1
<1>3. Sent(Head(queue[c])) = SentWith(h, edited)
  BY <1>2, SentIs
<1>4. PICK d \in OnWire : d = SentWith(h, edited) /\ d.mode = h.mode
  <2>1. SentWith(h, edited) \in OnWire /\ SentWith(h, edited).mode = h.mode
    BY SentKeepsAll
  <2> QED BY <2>1
<1>5. /\ UNCHANGED server /\ missed' = missed /\ view' = view /\ link' = link
      /\ wire'[c] = Append(wire[c], d) /\ queue'[c] = Tail(queue[c])
      /\ \A e \in Client \ {c} : queue'[e] = queue[e] /\ wire'[e] = wire[e]
  BY <1>1, <1>3, <1>4 DEF Send, WorldTypes
<1>6. edited' = edited /\ UNCHANGED <<world, risks, mode, frame>>
  BY <1>5 DEF server
<1>7. ASSUME NEW i \in 1 .. Len(queue'[c])
      PROVE  i + 1 \in 1 .. Len(queue[c]) /\ queue'[c][i] = queue[c][i + 1]
  BY <1>1, <1>5
<1>8. \A i \in 1 .. Len(queue'[c]) : OneEach(queue'[c][i])
  BY <1>1, <1>7 DEF NumbersInv
<1>9. ASSUME mode = "unset" PROVE Unset(c)'
  <2>1. Unset(c)
    BY <1>1, <1>9 DEF NumbersInv
  <2>2. h = queue[c][1] /\ 1 \in 1 .. Len(queue[c])
    BY <1>1, <1>2
  <2>3. ASSUME NEW i \in 1 .. Len(wire'[c]) PROVE wire'[c][i].mode = "unset"
    <3>1. (i \in 1 .. Len(wire[c]) /\ wire'[c][i] = wire[c][i]) \/ wire'[c][i] = d
      BY <1>1, <1>5
    <3> QED BY <1>4, <2>1, <2>2, <3>1 DEF Unset
  <2> QED BY <1>5, <1>7, <2>1, <2>3 DEF Unset
<1>10. ASSUME link'[c], ~missed'[c] PROVE Converges(c)'
  <2>1. Converges(c)
    BY <1>5, <1>10 DEF ConvergeInv
  <2>2. InFlight(c)' = InFlight(c)
    <3>1. InFlight(c)' = Flight(Append(wire[c], SentWith(Head(queue[c]), edited)), Tail(queue[c]), edited)
      BY <1>2, <1>4, <1>5, <1>6, FlightIs
    <3>2. InFlight(c) = Flight(wire[c], queue[c], edited)
      BY FlightIs
    <3> QED BY <1>1, <3>1, <3>2, FlightSent
  <2>3. \A k \in Key : Untold(k)' = Untold(k) /\ world'[k] = world[k]
    BY <1>6 DEF Untold
  <2> QED BY <1>5, <1>6, <2>1, <2>2, <2>3, StillConverges
<1> QED BY <1>1, <1>5, <1>8, <1>9, <1>10, OneStream DEF NumbersInv

LEMMA ReceiveConverges == ASSUME StreamInv, ConvergeInv, NEW c \in Client, Receive(c) PROVE ConvergeInv'
<1>1. /\ WorldTypes /\ NumbersInv /\ wire[c] # << >> /\ view[c] \in Screen
      /\ queue[c] \in Seq(Queued) /\ wire[c] \in Seq(OnWire)
  BY DEF StreamInv, ConvergeInv, Receive, WorldTypes
<1>2. PICK m \in OnWire : m = Head(wire[c])
  BY <1>1
<1>3. /\ UNCHANGED server /\ missed' = missed /\ link' = link /\ queue' = queue
      /\ wire'[c] = Tail(wire[c]) /\ view'[c] = Apply(view[c], m)
      /\ \A e \in Client \ {c} : wire'[e] = wire[e] /\ view'[e] = view[e]
  BY <1>1, <1>2 DEF Receive, WorldTypes
<1>4. UNCHANGED <<edited, world, risks, mode, frame>>
  BY <1>3 DEF server
<1>5. PICK s \in Screen : s = view[c]
  BY <1>1
<1>6. /\ \A k \in Key : IF Concerns(m, k) THEN Apply(s, m).world[k] = Said(m).world[k]
                                          ELSE Apply(s, m).world[k] = s.world[k]
      /\ \A r : IF ConcernsRisk(m, r) THEN Apply(s, m).risks \cap {r} = Said(m).risks \cap {r}
                                      ELSE Apply(s, m).risks \cap {r} = s.risks \cap {r}
      /\ Apply(s, m).mode = IF m.mode # "unset" THEN m.mode ELSE s.mode
      /\ m.mode # "unset" => Said(m).mode = m.mode
  <2>1. \A k \in Key : IF Concerns(m, k) THEN Apply(s, m).world[k] = Said(m).world[k]
                                          ELSE Apply(s, m).world[k] = s.world[k]
    BY AppliedOrShown
  <2>2. \A r : IF ConcernsRisk(m, r) THEN Apply(s, m).risks \cap {r} = Said(m).risks \cap {r}
                                      ELSE Apply(s, m).risks \cap {r} = s.risks \cap {r}
    BY AppliedOrShown
  <2>3. /\ Apply(s, m).mode = IF m.mode # "unset" THEN m.mode ELSE s.mode
        /\ m.mode # "unset" => Said(m).mode = m.mode
    BY AppliedOrShown
  <2> QED BY <2>1, <2>2, <2>3
<1>7. PICK F : F = InFlight(c)
  OBVIOUS
<1>8. PICK G : G = InFlight(c)'
  OBVIOUS
<1>9. PICK n \in Nat :
        /\ n >= 1 /\ DOMAIN F = 1 .. n /\ DOMAIN G = 1 .. n - 1 /\ F[1] = m
        /\ \A i \in 1 .. n - 1 : G[i] = F[i + 1]
  <2>1. PICK w \in Seq(OnWire) : w = wire[c] /\ w # << >>
    BY <1>1
  <2>2. PICK q \in Seq(Queued) : q = queue[c]
    BY <1>1
  <2>3. F = Flight(w, q, edited) /\ G = Flight(Tail(w), q, edited)
    BY <1>3, <1>4, <1>7, <1>8, <2>1, <2>2, FlightIs
  <2>4. PICK l : Takes(Flight(w, q, edited), Flight(Tail(w), q, edited), Head(w), l)
    BY <2>1, FlightTaken
  <2>5. Takes(F, G, m, l)
    BY <1>2, <2>1, <2>3, <2>4
  <2> QED BY <2>5 DEF Takes
<1>i. ASSUME NEW i \in 1 .. n - 1 PROVE i + 1 \in 1 .. n /\ 1 \in 1 .. n
  BY <1>9
<1>10. ASSUME NEW k \in Key, EntitySettled(c, k) PROVE EntitySettled(c, k)'
  <2>1. PICK A \in SUBSET (1 .. n) : A = {i \in 1 .. n : Concerns(F[i], k)}
    OBVIOUS
  <2>2. PICK B \in SUBSET (1 .. n - 1) : B = {i \in 1 .. n - 1 : Concerns(G[i], k)}
    OBVIOUS
  <2>3. PICK said : said = [i \in 1 .. n |-> Said(F[i]).world[k]]
    OBVIOUS
  <2>4. PICK said2 : said2 = [i \in 1 .. n - 1 |-> Said(G[i]).world[k]]
    OBVIOUS
  <2>5. PICK shown : shown = s.world[k]
    OBVIOUS
  <2>6. PICK shown2 : shown2 = view'[c].world[k]
    OBVIOUS
  <2>7. PICK kept : kept = WorldView.world[k]
    OBVIOUS
  <2>8. WorldView'.world[k] = kept
    BY <1>4, <2>7 DEF WorldView
  <2>9. /\ EntitySettled(c, k) => Settles(A, shown, said, kept)
        /\ Settles(B, shown2, said2, kept) => EntitySettled(c, k)'
    BY <1>5, <1>7, <1>8, <1>9, <2>1, <2>2, <2>3, <2>4, <2>5, <2>6, <2>7, <2>8 DEF EntitySettled, Settles
  <2>10. \A i \in 1 .. n - 1 : (i \in B <=> i + 1 \in A) /\ said2[i] = said[i + 1]
    BY <1>9, <1>i, <2>1, <2>2, <2>3, <2>4
  <2>11. 1 \in 1 .. n
    BY <1>9
  <2>12. (1 \in A => shown2 = said[1]) /\ (1 \notin A => shown2 = shown)
    BY <1>3, <1>5, <1>6, <1>9, <2>1, <2>3, <2>5, <2>6, <2>11
  <2>13. n >= 1 /\ Settles(A, shown, said, kept)
    BY <1>9, <1>10, <2>9
  <2>14. OneFewer(n, A, B, shown, shown2, said, said2, kept)
    BY <2>10, <2>12, <2>13 DEF OneFewer
  <2>15. Settles(B, shown2, said2, kept)
    BY <2>14, FirstTaken
  <2> QED BY <2>9, <2>15
<1>11. ASSUME NEW r \in Risk, RiskSettled(c, r) PROVE RiskSettled(c, r)'
  <2>1. PICK A \in SUBSET (1 .. n) : A = {i \in 1 .. n : ConcernsRisk(F[i], r)}
    OBVIOUS
  <2>2. PICK B \in SUBSET (1 .. n - 1) : B = {i \in 1 .. n - 1 : ConcernsRisk(G[i], r)}
    OBVIOUS
  <2>3. PICK said : said = [i \in 1 .. n |-> Said(F[i]).risks \cap {r}]
    OBVIOUS
  <2>4. PICK said2 : said2 = [i \in 1 .. n - 1 |-> Said(G[i]).risks \cap {r}]
    OBVIOUS
  <2>5. PICK shown : shown = s.risks \cap {r}
    OBVIOUS
  <2>6. PICK shown2 : shown2 = view'[c].risks \cap {r}
    OBVIOUS
  <2>7. PICK kept : kept = risks \cap {r}
    OBVIOUS
  <2>8. risks' \cap {r} = kept
    BY <1>4, <2>7
  <2>9. /\ RiskSettled(c, r) => Settles(A, shown, said, kept)
        /\ Settles(B, shown2, said2, kept) => RiskSettled(c, r)'
    BY <1>5, <1>7, <1>8, <1>9, <2>1, <2>2, <2>3, <2>4, <2>5, <2>6, <2>7, <2>8 DEF RiskSettled, Settles
  <2>10. \A i \in 1 .. n - 1 : (i \in B <=> i + 1 \in A) /\ said2[i] = said[i + 1]
    BY <1>9, <1>i, <2>1, <2>2, <2>3, <2>4
  <2>11. 1 \in 1 .. n
    BY <1>9
  <2>12. (1 \in A => shown2 = said[1]) /\ (1 \notin A => shown2 = shown)
    BY <1>3, <1>5, <1>6, <1>9, <2>1, <2>3, <2>5, <2>6, <2>11
  <2>13. n >= 1 /\ Settles(A, shown, said, kept)
    BY <1>9, <1>11, <2>9
  <2>14. OneFewer(n, A, B, shown, shown2, said, said2, kept)
    BY <2>10, <2>12, <2>13 DEF OneFewer
  <2>15. Settles(B, shown2, said2, kept)
    BY <2>14, FirstTaken
  <2> QED BY <2>9, <2>15
<1>12. ASSUME ModeSettled(c) PROVE ModeSettled(c)'
  <2>1. PICK A \in SUBSET (1 .. n) : A = {i \in 1 .. n : F[i].mode # "unset"}
    OBVIOUS
  <2>2. PICK B \in SUBSET (1 .. n - 1) : B = {i \in 1 .. n - 1 : G[i].mode # "unset"}
    OBVIOUS
  <2>3. PICK said : said = [i \in 1 .. n |-> Said(F[i]).mode]
    OBVIOUS
  <2>4. PICK said2 : said2 = [i \in 1 .. n - 1 |-> Said(G[i]).mode]
    OBVIOUS
  <2>5. PICK shown : shown = s.mode
    OBVIOUS
  <2>6. PICK shown2 : shown2 = view'[c].mode
    OBVIOUS
  <2>7. PICK kept : kept = mode
    OBVIOUS
  <2>8. mode' = kept
    BY <1>4, <2>7
  <2>9. /\ ModeSettled(c) => Settles(A, shown, said, kept)
        /\ Settles(B, shown2, said2, kept) => ModeSettled(c)'
    BY <1>5, <1>7, <1>8, <1>9, <2>1, <2>2, <2>3, <2>4, <2>5, <2>6, <2>7, <2>8 DEF ModeSettled, Settles
  <2>10. \A i \in 1 .. n - 1 : (i \in B <=> i + 1 \in A) /\ said2[i] = said[i + 1]
    BY <1>9, <1>i, <2>1, <2>2, <2>3, <2>4
  <2>11. 1 \in 1 .. n
    BY <1>9
  <2>12. (1 \in A => shown2 = said[1]) /\ (1 \notin A => shown2 = shown)
    BY <1>3, <1>5, <1>6, <1>9, <2>1, <2>3, <2>5, <2>6, <2>11
  <2>13. n >= 1 /\ Settles(A, shown, said, kept)
    BY <1>9, <1>12, <2>9
  <2>14. OneFewer(n, A, B, shown, shown2, said, said2, kept)
    BY <2>10, <2>12, <2>13 DEF OneFewer
  <2>15. Settles(B, shown2, said2, kept)
    BY <2>14, FirstTaken
  <2> QED BY <2>9, <2>15
<1>13. ASSUME link'[c], ~missed'[c] PROVE Converges(c)'
  <2>1. Converges(c)
    BY <1>3, <1>13 DEF ConvergeInv
  <2>2. \A k \in Key : Untold(k)' = Untold(k)
    BY <1>4 DEF Untold
  <2> QED BY <1>10, <1>11, <1>12, <2>1, <2>2 DEF Converges
<1>14. ASSUME mode = "unset" PROVE Unset(c)'
  <2>1. Unset(c)
    BY <1>1, <1>14 DEF NumbersInv
  <2>2. m = wire[c][1] /\ 1 \in 1 .. Len(wire[c])
    BY <1>1, <1>2
  <2>3. view'[c].mode = "unset"
    BY <1>3, <1>5, <1>6, <2>1, <2>2 DEF Unset
  <2>4. \A i \in 1 .. Len(wire'[c]) : i + 1 \in 1 .. Len(wire[c]) /\ wire'[c][i] = wire[c][i + 1]
    BY <1>1, <1>3
  <2> QED BY <1>3, <2>1, <2>3, <2>4 DEF Unset
<1>15. \A i \in 1 .. Len(queue'[c]) : OneEach(queue'[c][i])
  BY <1>1, <1>3 DEF NumbersInv
<1> QED BY <1>1, <1>3, <1>13, <1>14, <1>15, OneStream DEF NumbersInv

\* The one message of a new stream, the snapshot, settles every entry.
LEMMA ConnectConverges ==
    ASSUME ~Bus, StreamInv, ConvergeInv, NEW c \in Client, Connect(c)
    PROVE  ConvergeInv'
<1>1. /\ WorldTypes /\ NumbersInv /\ queue[c] = << >> /\ world \in [Key -> Nat]
      /\ \A k : ~Untold(k)
  BY LoopAtRest DEF StreamInv, ConvergeInv, Connect, WorldTypes
<1>2. PICK p \in Queued :
        /\ p.kind = "snapshot" /\ p.deletes = {} /\ p.mode = mode
        /\ p.riskUpserts = risks /\ p.riskDeletes = {}
        /\ p.upserts = {<<k, world[k]>> : k \in Present(Key)}
        /\ p = Snapshot
  <2>1. PICK U \in SUBSET (Key \X Nat) : U = {<<k, world[k]>> : k \in Present(Key)}
    <3>1. {<<k, world[k]>> : k \in Present(Key)} \in SUBSET (Key \X Nat)
      BY <1>1 DEF Present
    <3> QED BY <3>1
  <2>2. Snapshot = [kind |-> "snapshot", upserts |-> U, deletes |-> {}, riskUpserts |-> risks,
                    riskDeletes |-> {}, mode |-> mode]
    BY <2>1 DEF Snapshot
  <2>3. Snapshot \in Queued
    BY <1>1, <2>2 DEF Queued, WorldTypes
  <2> QED BY <2>1, <2>2, <2>3
<1>3. OneEach(p)
  BY <1>2 DEF OneEach
<1>4. PICK m \in OnWire : m = SentWith(p, edited) /\ m.mode = mode /\ m.kind = "snapshot"
  <2>1. /\ SentWith(p, edited) \in OnWire /\ SentWith(p, edited).mode = p.mode
        /\ SentWith(p, edited).kind = p.kind
    BY SentKeepsAll
  <2> QED BY <1>2, <2>1
<1>5. FirstMessages = <<m>>
  BY <1>2, <1>4, SentIs DEF FirstMessages
<1>6. /\ UNCHANGED <<server, queue, view>>
      /\ link'[c] = TRUE /\ wire'[c] = <<m>> /\ missed' \in [Client -> BOOLEAN]
      /\ \A e \in Client \ {c} : link'[e] = link[e] /\ wire'[e] = wire[e] /\ missed'[e] = missed[e]
  BY <1>1, <1>5 DEF Connect, WorldTypes, NumbersInv
<1>7. UNCHANGED <<edited, world, risks, mode, frame>>
  BY <1>6 DEF server
<1>8. PICK F : F = InFlight(c)'
  OBVIOUS
<1>9. DOMAIN F = {1} /\ F[1] = m
  <2>1. PICK w \in Seq(OnWire) : w = <<m>>
    <3>1. <<m>> \in Seq(OnWire)
      OBVIOUS
    <3> QED BY <3>1
  <2>2. PICK q \in Seq(Queued) : q = << >>
    <3>1. << >> \in Seq(Queued)
      OBVIOUS
    <3> QED BY <3>1
  <2>3. F = Flight(w, q, edited)
    BY <1>1, <1>6, <1>7, <1>8, <2>1, <2>2, FlightIs
  <2>4. Len(w) = 1 /\ Len(q) = 0 /\ w[1] = m /\ 1 .. 1 = {1}
    BY <2>1, <2>2
  <2>5. Len(w) + Len(q) = 1 /\ 1 \in 1 .. Len(w)
    BY <2>4
  <2>6. DOMAIN F = 1 .. Len(w) + Len(q) /\ F[1] = w[1]
    BY <2>3, <2>5, FlightParts
  <2> QED BY <2>4, <2>5, <2>6
<1>10. ASSUME NEW k \in Key PROVE EntitySettled(c, k)'
  <2>1. \A n \in Nat : <<k, n>> \in p.upserts => n = world[k]
    BY <1>2
  <2>2. ~(\E u \in p.upserts : u[1] = k) => world[k] = Absent
    <3>1. ASSUME world[k] # Absent PROVE \E u \in p.upserts : u[1] = k
      <4>1. <<k, world[k]>> \in p.upserts /\ <<k, world[k]>>[1] = k
        BY <1>2, <3>1 DEF Present
      <4> QED BY <4>1
    <3> QED BY <3>1
  <2>3. Absent \notin edited
    BY <1>1 DEF NumbersInv
  <2>4. Concerns(p, k)
    BY <1>2 DEF Concerns
  <2>5. PICK w \in [Key -> Nat] : w = world
    BY <1>1
  <2>6. Said(SentWith(p, edited)).world[k] = Content(w[k], edited)
    BY <1>2, <1>3, <2>1, <2>2, <2>3, <2>4, <2>5, WorldSaid
  <2>7. Said(m).world[k] = WorldView'.world[k]
    BY <1>4, <1>7, <2>5, <2>6 DEF WorldView, Content
  <2>8. Concerns(m, k)
    BY <1>4 DEF Concerns
  <2> QED BY <1>8, <1>9, <2>7, <2>8 DEF EntitySettled, Settles
<1>11. ASSUME NEW r \in Risk PROVE RiskSettled(c, r)'
  <2>1. Said(m).risks = risks
    BY <1>2, <1>4, SentRisks
  <2>2. ConcernsRisk(m, r)
    BY <1>4 DEF ConcernsRisk
  <2> QED BY <1>7, <1>8, <1>9, <2>1, <2>2 DEF RiskSettled, Settles
<1>12. ModeSettled(c)'
  <2>1. Said(m).mode = mode
    BY <1>2, <1>4, SentRisks
  <2>2. mode = "unset" => view'[c].mode = mode
    BY <1>1, <1>6 DEF NumbersInv, Unset
  <2> QED BY <1>4, <1>7, <1>8, <1>9, <2>1, <2>2 DEF ModeSettled, Settles
<1>13. mode = "unset" => Unset(c)'
  BY <1>1, <1>4, <1>6 DEF NumbersInv, Unset
<1>14. \A i \in 1 .. Len(queue'[c]) : OneEach(queue'[c][i])
  BY <1>1, <1>6
<1>15. Converges(c)'
  BY <1>10, <1>11, <1>12 DEF Converges
<1> QED BY <1>6, <1>13, <1>14, <1>15, OneStream

-----------------------------------------------------------------------------
LEMMA InitConverges == Init => ConvergeInv
<1> SUFFICES ASSUME Init PROVE ConvergeInv
  OBVIOUS
<1>1. NumbersInv
  BY DEF Init, NumbersInv, OwnNumbers, Unset, NoView, NoFrame
<1> QED BY <1>1 DEF Init, ConvergeInv

LEMMA NextConverges == ASSUME ~Bus, WorldInv, ConvergeInv, [Next]_vars PROVE ConvergeInv'
<1>0. StreamInv
  BY DEF WorldInv
<1>1. ASSUME NEW v \in Vehicle, NEW found, IngestVehicle(v, found) PROVE ConvergeInv'
  BY <1>0, <1>1, IngestVehicleConverges
<1>2. ASSUME NEW keys \in SUBSET Roadside, IngestOther(keys) PROVE ConvergeInv'
  <2>1. keys \in SUBSET Key /\ keys \cap Vehicle = {}
    BY <1>2, WorldAssumption DEF Key
  <2> QED BY <1>0, <1>2, <2>1, IngestOtherConverges
<1>3. ASSUME NEW h \in Hazard, IngestOther({h}) PROVE ConvergeInv'
  <2>1. {h} \in SUBSET Key /\ {h} \cap Vehicle = {}
    BY <1>3, WorldAssumption DEF Key
  <2> QED BY <1>0, <1>3, <2>1, IngestOtherConverges
<1>4. ASSUME NEW vehicles, NEW roadside, OpenFrame(vehicles, roadside) PROVE ConvergeInv'
  BY <1>0, <1>4, OpenFrameConverges
<1>5. ASSUME NEW v \in Vehicle, FrameVehicle(v) PROVE ConvergeInv'
  BY <1>5, FrameVehicleConverges
<1>6. ASSUME NEW found, CloseFrame(found) PROVE ConvergeInv'
  BY <1>6, CloseFrameConverges
<1>7. ASSUME NEW v \in Vehicle, Edit(v) \/ Retire(v) PROVE ConvergeInv'
  <2>1. CASE Edit(v)
    BY <1>0, <2>1, EditConverges
  <2>2. CASE Retire(v)
    <3>1. {v} \in SUBSET Key /\ LoopFree /\ Forget({v}) /\ Notify(Delta({}, {v}, {}, {}, mode))
      BY <2>2 DEF Retire, Key
    <3> QED BY <1>0, <3>1, ForgetConverges
  <2> QED BY <1>7, <2>1, <2>2
<1>8. ASSUME NEW m \in Mode, IngestConnectivity(m) PROVE ConvergeInv'
  BY <1>0, <1>8, ConnectivityConverges
<1>9. CASE Sweep
  <2>1. /\ Silent \in SUBSET Key /\ LoopFree /\ Forget(Silent)
        /\ Notify(Delta({}, Silent, {}, {}, mode))
    BY <1>9 DEF Sweep, Told, Silent, Present, Perishable, Key
  <2> QED BY <1>0, <2>1, ForgetConverges
<1>10. CASE Tick
  BY <1>0, <1>10, RestConverges DEF Tick
<1>11. ASSUME NEW c \in Client, Connect(c) \/ Send(c) \/ Receive(c) \/ Drop(c) PROVE ConvergeInv'
  BY <1>0, <1>11, ConnectConverges, SendConverges, ReceiveConverges, DropConverges
<1>12. CASE UNCHANGED vars
  BY <1>0, <1>12, RestConverges DEF vars, server
<1> QED BY <1>1, <1>2, <1>3, <1>4, <1>5, <1>6, <1>7, <1>8, <1>9, <1>10, <1>11, <1>12 DEF Next

LEMMA ConvergesCatchesUp == ASSUME StreamInv, ConvergeInv PROVE CatchesUp
<1> SUFFICES ASSUME frame = NoFrame, NEW c \in Client, link[c], ~missed[c]
             PROVE  LET flight == InFlight(c)
                    IN  /\ \A k \in Key : EntitySettled(c, k)
                        /\ \A r \in risks \cup view[c].risks
                                \cup UNION {flight[i].riskUpserts : i \in DOMAIN flight} :
                                    RiskSettled(c, r)
                        /\ ModeSettled(c)
  BY DEF CatchesUp
<1>1. Converges(c) /\ \A k : ~Untold(k)
  BY DEF ConvergeInv, Untold
<1>2. PICK F \in Seq(OnWire) : F = InFlight(c)
  <2>1. wire[c] \in Seq(OnWire) /\ queue[c] \in Seq(Queued)
    BY DEF StreamInv, WorldTypes
  <2>2. InFlight(c) = Flight(wire[c], queue[c], edited)
    BY FlightIs
  <2> QED BY <2>1, <2>2, FlightParts
<1>3. \A r \in risks \cup view[c].risks \cup UNION {F[i].riskUpserts : i \in DOMAIN F} : r \in Risk
  <2>1. risks \subseteq Risk /\ view[c].risks \subseteq Risk
    BY DEF StreamInv, WorldTypes, Screen
  <2>2. \A i \in DOMAIN F : F[i].riskUpserts \subseteq Risk
    <3>1. \A i \in DOMAIN F : F[i] \in OnWire
      OBVIOUS
    <3> QED BY <3>1 DEF OnWire
  <2> QED BY <2>1, <2>2
<1> QED BY <1>1, <1>2, <1>3 DEF Converges

\* A dashboard that lost no delta converges on the gateway, however many
\* vehicles, dashboards and messages there are, while no event bus and no
\* Redis is attached.
THEOREM DashboardsCatchUp == ASSUME ~Bus PROVE Spec => []CatchesUp
<1>1. Init => WorldInv /\ ConvergeInv
  BY InitWorld, InitConverges
<1>2. WorldInv /\ ConvergeInv /\ [Next]_vars => (WorldInv /\ ConvergeInv)'
  BY NextStream, NextFrame, NextConverges DEF WorldInv
<1>3. WorldInv /\ ConvergeInv => CatchesUp
  BY ConvergesCatchesUp DEF WorldInv
<1> QED BY <1>1, <1>2, <1>3, PTL DEF Spec

-----------------------------------------------------------------------------
(* The tabs. *)
Post  == [at : {"ingest", "delete"}, actors : SUBSET Nat, gone : SUBSET Nat]
Lease == [of : Tabs \cup {"nobody", "closed"}, left : Nat]

FeedTypes ==
    /\ actors \in [Tabs -> SUBSET Nat]
    /\ gone \in [Tabs -> SUBSET Nat]
    /\ deleting \in [Tabs -> SUBSET Nat]
    /\ born \in [Tabs -> Nat]
    /\ posts \in [Tabs -> SUBSET Post]
    /\ publishing \in [Tabs -> BOOLEAN]
    /\ road \subseteq Nat /\ deleted \subseteq Nat
    /\ feeder \in Tabs \cup {"nobody", "closed", "several"}

\* The ids of a tab's simulation, and its one publication.
Own(t) ==
    /\ ~publishing[t] => posts[t] = {}
    /\ \A p, q \in posts[t] : p = q
    /\ actors[t] \cup gone[t] \cup deleting[t] \subseteq 1 .. born[t]
    /\ actors[t] \cap (gone[t] \cup deleting[t]) = {}
    /\ \A p \in posts[t] :
          /\ p.actors \cup p.gone \subseteq 1 .. born[t]
          /\ p.gone \cap actors[t] = {}
          /\ p.at = "ingest" => p.actors \cap deleting[t] = {}

Quiet(t) == posts[t] = {} /\ deleting[t] = {}

\* The tab that feeds the gateway alone.
Fed ==
    /\ feeder = "nobody" => deleted = {}
    /\ feeder # "several" =>
          /\ deleted \cap road = {}
          /\ \A t \in Tabs \ {feeder} : Quiet(t)
    /\ feeder \in Tabs =>
          /\ deleted \subseteq 1 .. born[feeder]
          /\ deleted \cap actors[feeder] = {}
          /\ \A p \in posts[feeder] : p.at = "ingest" => p.actors \cap deleted = {}

FeedInv == FeedTypes /\ (\A t \in Tabs : Own(t)) /\ Fed

\* The lease.
LeaseTypes ==
    /\ visible \in [Tabs -> BOOLEAN]
    /\ owns \in [Tabs -> BOOLEAN]
    /\ asked \in [Tabs -> Nat]
    /\ lost \in [Tabs -> Nat]
    /\ lease \in Lease

Leased(t) ==
    /\ owns[t] => lost[t] <= asked[t]
    /\ lease.of = t \/ lease.left = 0 => lost[t] = 0

LeaseInv == LeaseTypes /\ \A t \in Tabs : Leased(t)

-----------------------------------------------------------------------------
LEMMA InitFeed == FeedInit => FeedInv
<1> SUFFICES ASSUME FeedInit PROVE FeedInv
  OBVIOUS
<1>1. \A t \in Tabs : 1 .. Fleet[t] \in SUBSET Nat /\ Fleet[t] \in Nat
  BY FeedConstants
<1>2. FeedTypes
  BY <1>1, FeedConstants DEF FeedInit, FeedTypes
<1>3. ASSUME NEW t \in Tabs PROVE Own(t) /\ Quiet(t)
  BY <1>1 DEF FeedInit, Own, Quiet
<1>4. Fed
  BY <1>3, FeedConstants DEF FeedInit, Fed
<1> QED BY <1>2, <1>3, <1>4 DEF FeedInv

\* What a step that touches tab t only has to show of t and of the road.
LEMMA OwnKept ==
    ASSUME NEW t, Own(t),
           actors'[t] = actors[t], gone'[t] = gone[t], deleting'[t] = deleting[t],
           born'[t] = born[t], posts'[t] = posts[t], publishing'[t] = publishing[t]
    PROVE  Own(t)'
BY DEF Own

\* Views come and go, time passes and tabs are turned to: nothing is fed.
LEMMA FeedKept == ASSUME FeedInv, UNCHANGED feed PROVE FeedInv'
BY DEF FeedInv, feed, FeedTypes, Own, Fed, Quiet

\* A tab that is closed leaves nothing under way.
LEMMA CloseTabFeed ==
    ASSUME FeedInv, NEW t \in Tabs, CloseTab(t)
    PROVE  FeedInv'
<1>1. FeedTypes /\ (\A u \in Tabs : Own(u)) /\ Fed
  BY DEF FeedInv
<1>2. PICK left \in Nat : left = Fleet[t]
  BY FeedConstants
<1>3. /\ actors' = [actors EXCEPT ![t] = 1 .. left] /\ gone' = [gone EXCEPT ![t] = {}]
      /\ born' = [born EXCEPT ![t] = left] /\ publishing' = [publishing EXCEPT ![t] = FALSE]
      /\ posts' = [posts EXCEPT ![t] = {}] /\ deleting' = [deleting EXCEPT ![t] = {}]
      /\ feeder' = IF feeder = t THEN "closed" ELSE feeder
  BY <1>2 DEF CloseTab
<1>4. PICK some \in SUBSET UNION {p.actors : p \in Batches(t)}, done \in SUBSET deleting[t] :
         road' = (road \cup some) \ done /\ deleted' = deleted \cup Kept(done)
  BY DEF CloseTab
<1>5. Batches(t) \subseteq posts[t] /\ posts[t] \subseteq Post /\ deleting[t] \subseteq Nat
  BY <1>1 DEF Batches, FeedTypes
<1>6. some \subseteq Nat /\ done \subseteq Nat
  <2>1. \A p \in Batches(t) : p.actors \subseteq Nat
    BY <1>5 DEF Post
  <2> QED BY <1>4, <1>5, <2>1
<1>7. Kept(done) \subseteq Nat /\ (feeder # "several" => Kept(done) = done)
  BY <1>6 DEF Kept
<1>8. FeedTypes'
  <2>1. 1 .. left \subseteq Nat
    BY <1>2
  <2>2. road' \subseteq Nat /\ deleted' \subseteq Nat
    BY <1>1, <1>4, <1>6, <1>7 DEF FeedTypes
  <2>3. feeder' \in Tabs \cup {"nobody", "closed", "several"}
    BY <1>1, <1>3 DEF FeedTypes
  <2> QED BY <1>1, <1>3, <2>1, <2>2, <2>3 DEF FeedTypes
<1>9. ASSUME NEW u \in Tabs PROVE Own(u)'
  <2>1. CASE u = t
    BY <1>1, <1>2, <1>3, <2>1 DEF Own, FeedTypes
  <2>2. CASE u # t
    BY <1>1, <1>3, <2>2, OwnKept DEF FeedTypes
  <2> QED BY <2>1, <2>2
<1>10. Fed'
  <2>1. ASSUME feeder' # "several"
        PROVE  /\ deleted' \cap road' = {}
               /\ \A u \in Tabs \ {feeder'} : Quiet(u)'
    <3>0. feeder # "several"
      BY <1>3, <2>1, FeedConstants
    <3>1. some \cap deleted = {}
      <4>1. CASE feeder = t
        <5>1. \A p \in Batches(t) : p.actors \cap deleted = {}
          BY <1>1, <4>1 DEF Fed, Batches
        <5> QED BY <1>4, <5>1
      <4>2. CASE feeder # t
        <5>1. Batches(t) = {}
          BY <1>1, <1>5, <3>0, <4>2 DEF Fed, Quiet
        <5> QED BY <1>4, <5>1
      <4> QED BY <4>1, <4>2
    <3>2. deleted' = deleted \cup done /\ deleted \cap road = {}
      BY <1>1, <1>4, <1>7, <3>0 DEF Fed
    <3>3. deleted' \cap road' = {}
      BY <1>4, <3>1, <3>2
    <3>4. ASSUME NEW u \in Tabs \ {feeder'} PROVE Quiet(u)'
      BY <1>1, <1>3, <3>0, <3>4 DEF Fed, Quiet, FeedTypes
    <3> QED BY <3>3, <3>4
  <2>2. ASSUME feeder' = "nobody" PROVE deleted' = {}
    <3>1. feeder = "nobody" /\ t # feeder
      BY <1>3, <2>2, FeedConstants
    <3>2. deleted = {} /\ deleting[t] = {}
      BY <1>1, <3>1 DEF Fed, Quiet
    <3> QED BY <1>4, <1>7, <3>1, <3>2
  <2>3. ASSUME feeder' \in Tabs
        PROVE  /\ deleted' \subseteq 1 .. born'[feeder']
               /\ deleted' \cap actors'[feeder'] = {}
               /\ \A p \in posts'[feeder'] : p.at = "ingest" => p.actors \cap deleted' = {}
    <3>1. feeder' = feeder /\ feeder # t /\ feeder # "several" /\ feeder \in Tabs
      BY <1>3, <2>3, FeedConstants
    <3>2. deleting[t] = {}
      BY <1>1, <3>1 DEF Fed, Quiet
    <3>3. deleted' = deleted
      BY <1>4, <1>7, <3>1, <3>2
    <3>4. /\ born'[feeder] = born[feeder] /\ actors'[feeder] = actors[feeder]
          /\ posts'[feeder] = posts[feeder]
      BY <1>1, <1>3, <3>1 DEF FeedTypes
    <3>5. /\ deleted \subseteq 1 .. born[feeder]
          /\ deleted \cap actors[feeder] = {}
          /\ \A p \in posts[feeder] : p.at = "ingest" => p.actors \cap deleted = {}
      BY <1>1, <3>1 DEF Fed
    <3> QED BY <3>1, <3>3, <3>4, <3>5
  <2> QED BY <2>1, <2>2, <2>3 DEF Fed
<1> QED BY <1>8, <1>9, <1>10 DEF FeedInv

\* A frame of tab t: its simulation moves on, and a batch is posted when the
\* last publication is over.
LEMMA AnimateFeed ==
    ASSUME FeedInv, NEW t \in Tabs, NEW due \in BOOLEAN, Animate(t, due)
    PROVE  FeedInv'
<1>1. FeedTypes /\ (\A u \in Tabs : Own(u)) /\ Fed
  BY DEF FeedInv
<1>2. UNCHANGED <<deleting, road>>
  BY DEF Animate
<1>3. PICK a \in SUBSET Nat, g \in SUBSET Nat, n \in Nat :
         /\ actors' = [actors EXCEPT ![t] = a] /\ gone' = [gone EXCEPT ![t] = g]
         /\ born' = [born EXCEPT ![t] = n]
         /\ n >= born[t] /\ a \cup g \subseteq 1 .. n /\ a \cap g = {}
         /\ a \cap (1 .. born[t]) \subseteq actors[t]
  <2>0. /\ actors[t] \subseteq 1 .. born[t] /\ gone[t] \subseteq 1 .. born[t]
        /\ actors[t] \cap gone[t] = {} /\ born[t] \in Nat
    BY <1>1 DEF Own, FeedTypes
  <2>1. CASE UNCHANGED <<actors, gone, born>>
    <3>1. /\ actors' = [actors EXCEPT ![t] = actors[t]] /\ gone' = [gone EXCEPT ![t] = gone[t]]
          /\ born' = [born EXCEPT ![t] = born[t]]
      BY <1>1, <2>1 DEF FeedTypes
    <3>2. /\ born[t] >= born[t] /\ actors[t] \cup gone[t] \subseteq 1 .. born[t]
          /\ actors[t] \cap (1 .. born[t]) \subseteq actors[t]
          /\ actors[t] \in SUBSET Nat /\ gone[t] \in SUBSET Nat
      BY <1>1, <2>0 DEF FeedTypes
    <3> QED BY <2>0, <3>1, <3>2
  <2>2. ASSUME NEW left \in SUBSET actors[t], NEW more \in 0 .. (MaxBorn[t] - born[t]),
               gone' \in {[gone EXCEPT ![t] = g] : g \in SUBSET left},
               actors' = [actors EXCEPT ![t] = (@ \ left) \cup (born[t] + 1 .. born[t] + more)],
               born' = [born EXCEPT ![t] = @ + more]
        PROVE  \E a \in SUBSET Nat, g \in SUBSET Nat, n \in Nat :
                 /\ actors' = [actors EXCEPT ![t] = a] /\ gone' = [gone EXCEPT ![t] = g]
                 /\ born' = [born EXCEPT ![t] = n]
                 /\ n >= born[t] /\ a \cup g \subseteq 1 .. n /\ a \cap g = {}
                 /\ a \cap (1 .. born[t]) \subseteq actors[t]
    <3>1. PICK g \in SUBSET left : gone' = [gone EXCEPT ![t] = g]
      BY <2>2
    <3>2. PICK b \in Nat, m \in Nat : b = born[t] /\ m = more
      BY <2>0, FeedConstants
    <3>3. PICK k, a : k = actors[t] /\ a = (k \ left) \cup (b + 1 .. b + m)
      OBVIOUS
    <3>4. /\ actors' = [actors EXCEPT ![t] = a] /\ born' = [born EXCEPT ![t] = b + m]
      BY <1>1, <2>2, <3>2, <3>3 DEF FeedTypes
    <3>5. \A i : i \in k => i \in 1 .. b
      BY <2>0, <3>2, <3>3
    <3>6. b + m >= b /\ a \cup g \subseteq 1 .. (b + m) /\ a \cap g = {} /\ a \cap (1 .. b) \subseteq k
      BY <3>2, <3>3, <3>5
    <3>7. b + m \in Nat /\ a \in SUBSET Nat /\ g \in SUBSET Nat
      BY <3>1, <3>2, <3>3, <3>5
    <3> QED BY <3>1, <3>2, <3>3, <3>4, <3>6, <3>7
  <2>3. UNCHANGED <<actors, gone, born>> \/ Simulate(t)
    BY DEF Animate
  <2> QED BY <2>1, <2>2, <2>3 DEF Simulate
<1>4. /\ UNCHANGED <<publishing, posts, feeder, deleted>>
      \/ /\ ~publishing[t]
         /\ publishing' = [publishing EXCEPT ![t] = TRUE]
         /\ posts' = [posts EXCEPT ![t] = @ \cup
                {[at |-> "ingest", actors |-> actors'[t], gone |-> gone'[t]]}]
         /\ feeder' = IF feeder \in {"nobody", t} THEN t ELSE "several"
         /\ deleted' = IF feeder' = t THEN deleted ELSE {}
  BY DEF Animate, MayPublish
<1>5. /\ a \subseteq Nat /\ g \subseteq Nat /\ actors'[t] = a /\ gone'[t] = g /\ born'[t] = n
      /\ \A u \in Tabs \ {t} : actors'[u] = actors[u] /\ gone'[u] = gone[u] /\ born'[u] = born[u]
  BY <1>1, <1>3 DEF FeedTypes
<1> DEFINE p0 == [at |-> "ingest", actors |-> a, gone |-> g]
<1>6. p0 \in Post /\ p0.at = "ingest" /\ p0.actors = a /\ p0.gone = g
  BY <1>5 DEF Post
<1>7. \/ UNCHANGED <<publishing, posts, feeder, deleted>>
      \/ /\ posts[t] = {}
         /\ publishing' = [publishing EXCEPT ![t] = TRUE]
         /\ posts' = [posts EXCEPT ![t] = {p0}]
         /\ feeder' = IF feeder \in {"nobody", t} THEN t ELSE "several"
         /\ deleted' = IF feeder' = t THEN deleted ELSE {}
  <2>1. ~publishing[t] => posts[t] = {}
    BY <1>1 DEF Own
  <2> QED BY <1>1, <1>4, <1>5, <2>1 DEF FeedTypes
<1> HIDE DEF p0
<1>8. FeedTypes'
  <2>1. CASE UNCHANGED <<publishing, posts, feeder, deleted>>
    BY <1>1, <1>2, <1>3, <1>5, <2>1 DEF FeedTypes
  <2>2. CASE /\ publishing' = [publishing EXCEPT ![t] = TRUE]
             /\ posts' = [posts EXCEPT ![t] = {p0}]
             /\ feeder' = IF feeder \in {"nobody", t} THEN t ELSE "several"
             /\ deleted' = IF feeder' = t THEN deleted ELSE {}
    BY <1>1, <1>2, <1>3, <1>5, <1>6, <2>2 DEF FeedTypes
  <2> QED BY <1>7, <2>1, <2>2
<1>9. /\ \A u \in Tabs \ {t} : posts'[u] = posts[u] /\ publishing'[u] = publishing[u]
      /\ \/ posts'[t] = posts[t] /\ publishing'[t] = publishing[t]
         \/ posts[t] = {} /\ posts'[t] = {p0} /\ publishing'[t] = TRUE
  BY <1>1, <1>7 DEF FeedTypes
<1>10. \A i \in 1 .. born[t] : i \in 1 .. n
  BY <1>1, <1>3 DEF FeedTypes
<1>11. /\ deleting[t] \subseteq 1 .. born[t] /\ deleting[t] \cap a = {}
  BY <1>1, <1>3 DEF Own
<1>12. ASSUME NEW u \in Tabs PROVE Own(u)'
  <2>1. CASE u = t
    <3>1. CASE posts'[t] = posts[t] /\ publishing'[t] = publishing[t]
      <4>1. ASSUME NEW p \in posts[t]
            PROVE  /\ p.gone \cap a = {} /\ p.actors \cup p.gone \subseteq 1 .. n
                   /\ p.at = "ingest" => p.actors \cap deleting[t] = {}
        <5>1. /\ p.actors \cup p.gone \subseteq 1 .. born[t] /\ p.gone \cap actors[t] = {}
              /\ p.at = "ingest" => p.actors \cap deleting[t] = {}
          BY <1>1 DEF Own
        <5> QED BY <1>3, <1>10, <5>1
      <4>2. /\ ~publishing[t] => posts[t] = {}
            /\ \A p, q \in posts[t] : p = q
        BY <1>1 DEF Own
      <4>3. a \cup g \cup deleting[t] \subseteq 1 .. n /\ a \cap (g \cup deleting[t]) = {}
        BY <1>3, <1>10, <1>11
      <4> QED BY <1>2, <1>5, <2>1, <3>1, <4>1, <4>2, <4>3 DEF Own
    <3>2. CASE posts'[t] = {p0} /\ publishing'[t] = TRUE
      BY <1>2, <1>3, <1>5, <1>6, <1>10, <1>11, <2>1, <3>2 DEF Own
    <3> QED BY <1>9, <3>1, <3>2
  <2>2. CASE u # t
    <3>1. /\ actors'[u] = actors[u] /\ gone'[u] = gone[u] /\ deleting'[u] = deleting[u]
          /\ born'[u] = born[u] /\ posts'[u] = posts[u] /\ publishing'[u] = publishing[u]
      BY <1>2, <1>5, <1>9, <2>2
    <3> QED BY <1>1, <3>1, OwnKept
  <2> QED BY <2>1, <2>2
<1>13. ASSUME feeder = t
       PROVE  /\ deleted \subseteq 1 .. n /\ deleted \cap a = {}
              /\ \A p \in posts[t] : p.at = "ingest" => p.actors \cap deleted = {}
  <2>1. /\ deleted \subseteq 1 .. born[t] /\ deleted \cap actors[t] = {}
        /\ \A p \in posts[t] : p.at = "ingest" => p.actors \cap deleted = {}
    BY <1>1, <1>13 DEF Fed
  <2> QED BY <1>3, <1>10, <2>1
<1>14. Fed'
  <2>1. CASE UNCHANGED <<publishing, posts, feeder, deleted>>
    <3>1. ASSUME feeder \in Tabs
          PROVE  /\ deleted \subseteq 1 .. born'[feeder]
                 /\ deleted \cap actors'[feeder] = {}
                 /\ \A p \in posts[feeder] : p.at = "ingest" => p.actors \cap deleted = {}
      <4>1. CASE feeder = t
        BY <1>5, <1>13, <4>1
      <4>2. CASE feeder # t
        BY <1>1, <1>5, <3>1, <4>2 DEF Fed
      <4> QED BY <4>1, <4>2
    <3> QED BY <1>1, <1>2, <2>1, <3>1 DEF Fed, Quiet
  <2>2. CASE /\ posts[t] = {} /\ posts' = [posts EXCEPT ![t] = {p0}]
             /\ feeder' = IF feeder \in {"nobody", t} THEN t ELSE "several"
             /\ deleted' = IF feeder' = t THEN deleted ELSE {}
    <3>1. CASE feeder \in {"nobody", t}
      <4>1. feeder' = t /\ deleted' = deleted /\ feeder # "several" /\ t \notin {"nobody", "several"}
        BY <2>2, <3>1, FeedConstants
      <4>2. deleted \cap road = {} /\ \A u \in Tabs \ {t} : Quiet(u)
        BY <1>1, <3>1, <4>1, FeedConstants DEF Fed
      <4>3. deleted \subseteq 1 .. n /\ deleted \cap a = {}
        <5>1. CASE feeder = t
          BY <1>13, <5>1
        <5>2. CASE feeder = "nobody"
          BY <1>1, <5>2 DEF Fed
        <5> QED BY <3>1, <5>1, <5>2
      <4>4. \A u \in Tabs \ {t} : Quiet(u)'
        BY <1>2, <1>9, <4>2 DEF Quiet
      <4>5. posts'[t] = {p0}
        BY <1>1, <2>2 DEF FeedTypes
      <4>6. /\ deleted' \subseteq 1 .. born'[t] /\ deleted' \cap actors'[t] = {}
            /\ \A p \in posts'[t] : p.at = "ingest" => p.actors \cap deleted' = {}
        BY <1>5, <1>6, <4>1, <4>3, <4>5
      <4>7. deleted' \cap road' = {}
        BY <1>2, <4>1, <4>2
      <4> QED BY <4>1, <4>4, <4>6, <4>7 DEF Fed
    <3>2. CASE feeder \notin {"nobody", t}
      BY <2>2, <3>2, FeedConstants DEF Fed
    <3> QED BY <3>1, <3>2
  <2> QED BY <1>7, <2>1, <2>2
<1> QED BY <1>8, <1>12, <1>14 DEF FeedInv

\* What the requests of tab t change: its publication, its DELETEs, and what
\* the gateway knows.
LEMMA RequestFeed ==
    ASSUME FeedInv, NEW t \in Tabs, NEW more \in SUBSET Nat, NEW done \in SUBSET deleting[t],
           NEW P \in SUBSET Post, NEW D \in SUBSET Nat, NEW b \in BOOLEAN,
           UNCHANGED <<actors, gone, born, feeder>>,
           posts' = [posts EXCEPT ![t] = P],
           deleting' = [deleting EXCEPT ![t] = D],
           publishing' = [publishing EXCEPT ![t] = b],
           road' = (road \cup more) \ done,
           deleted' = deleted \cup Kept(done),
           \A i \in more : \E p \in posts[t] : p.at = "ingest" /\ i \in p.actors,
           ~b => P = {},
           \A p, q \in P : p = q,
           \A p \in P : \E q \in posts[t] :
               /\ p.actors = q.actors /\ p.gone = q.gone
               /\ p.at = "ingest" => q.at = "ingest" /\ D \subseteq deleting[t],
           \A i \in D : i \in deleting[t] \/ \E p \in posts[t] : i \in p.gone
    PROVE  FeedInv'
<1>1. FeedTypes /\ (\A u \in Tabs : Own(u)) /\ Fed
  BY DEF FeedInv
<1>2. Kept(done) \subseteq done /\ (feeder # "several" => Kept(done) = done)
  BY DEF Kept
<1>3. done \subseteq Nat
  BY <1>1 DEF FeedTypes
<1>4. FeedTypes'
  BY <1>1, <1>2, <1>3 DEF FeedTypes
<1>5. posts'[t] = P /\ deleting'[t] = D /\ publishing'[t] = b
  BY <1>1 DEF FeedTypes
<1>6. ASSUME NEW u \in Tabs \ {t}
      PROVE  posts'[u] = posts[u] /\ deleting'[u] = deleting[u] /\ publishing'[u] = publishing[u]
  BY <1>1 DEF FeedTypes
<1>7. D \subseteq 1 .. born[t] /\ D \cap actors[t] = {}
  BY <1>1 DEF Own
<1>8. ASSUME NEW p \in P
      PROVE  /\ p.actors \cup p.gone \subseteq 1 .. born[t] /\ p.gone \cap actors[t] = {}
             /\ p.at = "ingest" => p.actors \cap D = {}
  <2>1. PICK q \in posts[t] :
           /\ p.actors = q.actors /\ p.gone = q.gone
           /\ p.at = "ingest" => q.at = "ingest" /\ D \subseteq deleting[t]
    OBVIOUS
  <2>2. /\ q.actors \cup q.gone \subseteq 1 .. born[t] /\ q.gone \cap actors[t] = {}
        /\ q.at = "ingest" => q.actors \cap deleting[t] = {}
    BY <1>1 DEF Own
  <2> QED BY <2>1, <2>2
<1>9. ASSUME NEW u \in Tabs PROVE Own(u)'
  <2>1. CASE u = t
    <3>1. actors[t] \cup gone[t] \subseteq 1 .. born[t] /\ actors[t] \cap gone[t] = {}
      BY <1>1 DEF Own
    <3> QED BY <1>5, <1>7, <1>8, <2>1, <3>1 DEF Own
  <2>2. CASE u # t
    BY <1>1, <1>6, <2>2, OwnKept
  <2> QED BY <2>1, <2>2
<1>10. Fed'
  <2>1. CASE feeder = "several"
    BY <2>1, FeedConstants DEF Fed
  <2>2. CASE feeder # "several" /\ feeder # t
    <3>1. posts[t] = {} /\ deleting[t] = {}
      BY <1>1, <2>2 DEF Fed, Quiet
    <3>2. more = {} /\ done = {} /\ P = {} /\ D = {}
      BY <3>1
    <3>3. road' = road /\ deleted' = deleted
      BY <1>2, <2>2, <3>2
    <3>4. \A u \in Tabs : posts'[u] = posts[u] /\ deleting'[u] = deleting[u]
      BY <1>5, <1>6, <3>1, <3>2
    <3> QED BY <1>1, <2>2, <3>3, <3>4 DEF Fed, Quiet
  <2>3. CASE feeder = t
    <3>1. /\ t # "nobody" /\ t # "several"
          /\ deleted \cap road = {} /\ (\A u \in Tabs \ {t} : Quiet(u))
          /\ deleted \subseteq 1 .. born[t] /\ deleted \cap actors[t] = {}
          /\ \A p \in posts[t] : p.at = "ingest" => p.actors \cap deleted = {}
      BY <1>1, <2>3, FeedConstants DEF Fed
    <3>2. deleted' = deleted \cup done
      BY <1>2, <2>3, <3>1
    <3>3. more \cap deleted = {}
      BY <3>1
    <3>4. deleted' \cap road' = {}
      BY <3>1, <3>2, <3>3
    <3>5. done \subseteq 1 .. born[t] /\ done \cap actors[t] = {}
      BY <1>1 DEF Own
    <3>6. ASSUME NEW p \in P, p.at = "ingest" PROVE p.actors \cap deleted' = {}
      <4>1. PICK q \in posts[t] : p.actors = q.actors /\ q.at = "ingest"
        BY <3>6
      <4>2. q.actors \cap deleting[t] = {} /\ q.actors \cap deleted = {}
        BY <1>1, <3>1, <4>1 DEF Own
      <4> QED BY <3>2, <4>1, <4>2
    <3>7. \A u \in Tabs \ {t} : Quiet(u)'
      BY <1>6, <3>1 DEF Quiet
    <3>8. deleted' \subseteq 1 .. born[t] /\ deleted' \cap actors[t] = {}
      BY <3>1, <3>2, <3>5
    <3> QED BY <1>5, <2>3, <3>1, <3>4, <3>6, <3>7, <3>8 DEF Fed
  <2> QED BY <2>1, <2>2, <2>3
<1> QED BY <1>4, <1>9, <1>10 DEF FeedInv

LEMMA SettleFeed ==
    ASSUME FeedInv, NEW t \in Tabs, Settle(t)
    PROVE  FeedInv'
<1>1. FeedTypes /\ Own(t)
  BY DEF FeedInv
<1>2. /\ UNCHANGED <<actors, gone, born, feeder>>
      /\ posts[t] \subseteq Post /\ deleting[t] \subseteq Nat
      /\ publishing[t] \in BOOLEAN
      /\ posts = [posts EXCEPT ![t] = posts[t]]
      /\ deleting = [deleting EXCEPT ![t] = deleting[t]]
      /\ publishing = [publishing EXCEPT ![t] = publishing[t]]
      /\ (\A p, q \in posts[t] : p = q) /\ (~publishing[t] => posts[t] = {})
      /\ Kept({}) = {} /\ deleted \cup {} = deleted /\ road \cup {} = road /\ road \ {} = road
  BY <1>1 DEF Settle, FeedTypes, Own, Kept
<1>u. UNCHANGED <<actors, gone, born, feeder>>
  BY <1>2
<1>n. PICK none \in SUBSET Nat, spared \in SUBSET deleting[t] : none = {} /\ spared = {}
  OBVIOUS
<1>d. PICK D0 \in SUBSET Nat : D0 = deleting[t]
  BY <1>2
<1>e. ASSUME NEW p \in posts[t], NEW failed, End(t, p, failed)
      PROVE  posts' = [posts EXCEPT ![t] = {}] /\ publishing' = [publishing EXCEPT ![t] = FALSE]
  <2>1. posts[t] \ {p} = {}
    BY <1>2
  <2> QED BY <1>e, <2>1 DEF End, PublishingAfter
<1>3. ASSUME NEW p \in posts[t], NEW ok \in BOOLEAN, NEW some \in SUBSET p.actors, Ingest(t, p, some, ok)
      PROVE  FeedInv'
  <2>1. p.at = "ingest" /\ road' = road \cup some /\ deleted' = deleted
    BY <1>3 DEF Ingest
  <2>2. p \in Post /\ p.actors \subseteq Nat /\ p.gone \subseteq Nat /\ some \subseteq Nat
    BY <1>2 DEF Post
  <2>3. road' = (road \cup some) \ {} /\ deleted' = deleted \cup Kept({})
    BY <1>2, <2>1
  <2>4. CASE ~ok
    <3>1. /\ posts' = [posts EXCEPT ![t] = {}] /\ publishing' = [publishing EXCEPT ![t] = FALSE]
          /\ deleting' = deleting
      BY <1>3, <1>e, <2>4 DEF Ingest
    <3>2. PICK P \in SUBSET Post, b \in BOOLEAN : P = {} /\ b = FALSE
      OBVIOUS
    <3>3. /\ posts' = [posts EXCEPT ![t] = P] /\ publishing' = [publishing EXCEPT ![t] = b]
          /\ deleting' = [deleting EXCEPT ![t] = D0]
          /\ road' = (road \cup some) \ spared /\ deleted' = deleted \cup Kept(spared)
          /\ some \in SUBSET Nat
          /\ \A i \in some : \E q \in posts[t] : q.at = "ingest" /\ i \in q.actors
          /\ ~b => P = {}
          /\ \A q, q2 \in P : q = q2
          /\ \A q \in P : \E q2 \in posts[t] :
               /\ q.actors = q2.actors /\ q.gone = q2.gone
               /\ q.at = "ingest" => q2.at = "ingest" /\ D0 \subseteq deleting[t]
          /\ \A i \in D0 : i \in deleting[t] \/ \E q \in posts[t] : i \in q.gone
      BY <1>2, <1>d, <1>n, <2>1, <2>2, <2>3, <3>1, <3>2
    <3> QED BY <1>u, <3>3, RequestFeed
  <2>5. CASE ok
    <3>1. PICK d \in Post : d = [p EXCEPT !.at = "delete"]
      BY <2>2 DEF Post
    <3>2. d.at = "delete" /\ d.actors = p.actors /\ d.gone = p.gone
      BY <2>2, <3>1 DEF Post
    <3>3. posts[t] \ {p} = {}
      BY <1>2
    <3>4. /\ posts' = [posts EXCEPT ![t] = {d}]
          /\ deleting' = [deleting EXCEPT ![t] = deleting[t] \cup p.gone]
          /\ publishing' = publishing
      BY <1>3, <2>5, <3>1, <3>3 DEF Ingest
    <3>5. publishing[t]
      BY <1>2
    <3>6. PICK D \in SUBSET Nat, P \in SUBSET Post :
             D = deleting[t] \cup p.gone /\ P = {d}
      BY <1>2, <2>2
    <3>7. PICK b \in BOOLEAN : b = TRUE /\ publishing' = [publishing EXCEPT ![t] = b] /\ (~b => P = {})
      BY <1>2, <3>4, <3>5
    <3>8. /\ posts' = [posts EXCEPT ![t] = P] /\ deleting' = [deleting EXCEPT ![t] = D]
          /\ \A i \in some : \E q \in posts[t] : q.at = "ingest" /\ i \in q.actors
          /\ \A q, q2 \in P : q = q2
          /\ \A q \in P : \E q2 \in posts[t] :
               /\ q.actors = q2.actors /\ q.gone = q2.gone
               /\ q.at = "ingest" => q2.at = "ingest" /\ D \subseteq deleting[t]
          /\ \A i \in D : i \in deleting[t] \/ \E q \in posts[t] : i \in q.gone
      BY <2>1, <3>2, <3>4, <3>6
    <3>9. some \in SUBSET Nat /\ road' = (road \cup some) \ spared /\ deleted' = deleted \cup Kept(spared)
      BY <1>n, <2>2, <2>3
    <3> QED BY <1>u, <3>7, <3>8, <3>9, RequestFeed
  <2> QED BY <2>4, <2>5
<1>4. ASSUME NEW p \in posts[t], NEW failed, Published(t, p, failed)
      PROVE  FeedInv'
  <2>1. /\ posts' = [posts EXCEPT ![t] = {}] /\ publishing' = [publishing EXCEPT ![t] = FALSE]
        /\ deleting' = deleting /\ road' = road /\ deleted' = deleted
    BY <1>4, <1>e DEF Published
  <2>2. road' = (road \cup {}) \ {} /\ deleted' = deleted \cup Kept({})
    BY <1>2, <2>1
  <2>3. PICK P \in SUBSET Post, b \in BOOLEAN : P = {} /\ b = FALSE
    OBVIOUS
  <2>4. /\ posts' = [posts EXCEPT ![t] = P] /\ publishing' = [publishing EXCEPT ![t] = b]
        /\ deleting' = [deleting EXCEPT ![t] = D0]
        /\ road' = (road \cup none) \ spared /\ deleted' = deleted \cup Kept(spared)
        /\ \A i \in none : \E q \in posts[t] : q.at = "ingest" /\ i \in q.actors
        /\ ~b => P = {}
        /\ \A q, q2 \in P : q = q2
        /\ \A q \in P : \E q2 \in posts[t] :
             /\ q.actors = q2.actors /\ q.gone = q2.gone
             /\ q.at = "ingest" => q2.at = "ingest" /\ D0 \subseteq deleting[t]
        /\ \A i \in D0 : i \in deleting[t] \/ \E q \in posts[t] : i \in q.gone
    BY <1>2, <1>d, <1>n, <2>1, <2>2, <2>3
  <2> QED BY <1>u, <2>4, RequestFeed
<1>5. ASSUME NEW a \in deleting[t], NEW done \in BOOLEAN, NEW answered \in BOOLEAN, Delete(t, a, done, answered)
      PROVE  FeedInv'
  <2>1. PICK d \in SUBSET deleting[t] :
           /\ d = IF done THEN {a} ELSE {}
           /\ road' = (road \cup {}) \ d /\ deleted' = deleted \cup Kept(d)
    BY <1>2, <1>5 DEF Delete
  <2>2. deleting' = [deleting EXCEPT ![t] = deleting[t] \ {a}]
    BY <1>5 DEF Delete
  <2>3. \/ UNCHANGED <<publishing, posts>>
        \/ posts' = [posts EXCEPT ![t] = {}] /\ publishing' = [publishing EXCEPT ![t] = FALSE]
    <3>1. UNCHANGED <<publishing, posts>> \/ \E p \in posts[t] : End(t, p, TRUE)
      BY <1>5 DEF Delete
    <3> QED BY <1>e, <3>1
  <2>6. PICK D \in SUBSET Nat : D = deleting[t] \ {a}
    BY <1>2
  <2>7. deleting' = [deleting EXCEPT ![t] = D] /\ D \subseteq deleting[t]
    BY <2>2, <2>6
  <2>9. /\ road' = (road \cup none) \ d /\ deleted' = deleted \cup Kept(d)
        /\ \A i \in none : \E p \in posts[t] : p.at = "ingest" /\ i \in p.actors
        /\ \A i \in D : i \in deleting[t] \/ \E p \in posts[t] : i \in p.gone
    BY <1>n, <2>1, <2>7
  <2>4. CASE UNCHANGED <<publishing, posts>>
    <3>1. PICK P \in SUBSET Post, b \in BOOLEAN : P = posts[t] /\ b = publishing[t]
      BY <1>2
    <3>2. /\ posts' = [posts EXCEPT ![t] = P] /\ publishing' = [publishing EXCEPT ![t] = b]
          /\ ~b => P = {}
          /\ \A p, q \in P : p = q
          /\ \A p \in P : \E q \in posts[t] :
               /\ p.actors = q.actors /\ p.gone = q.gone
               /\ p.at = "ingest" => q.at = "ingest" /\ D \subseteq deleting[t]
      BY <1>2, <2>4, <2>7, <3>1
    <3> QED BY <1>u, <2>7, <2>9, <3>2, RequestFeed
  <2>5. CASE posts' = [posts EXCEPT ![t] = {}] /\ publishing' = [publishing EXCEPT ![t] = FALSE]
    <3>1. PICK P \in SUBSET Post, b \in BOOLEAN : P = {} /\ b = FALSE
      OBVIOUS
    <3>2. /\ posts' = [posts EXCEPT ![t] = P] /\ publishing' = [publishing EXCEPT ![t] = b]
          /\ ~b => P = {}
          /\ \A p, q \in P : p = q
          /\ \A p \in P : \E q \in posts[t] :
               /\ p.actors = q.actors /\ p.gone = q.gone
               /\ p.at = "ingest" => q.at = "ingest" /\ D \subseteq deleting[t]
      BY <2>5, <3>1
    <3> QED BY <1>u, <2>7, <2>9, <3>2, RequestFeed
  <2> QED BY <2>3, <2>4, <2>5
<1> QED BY <1>3, <1>4, <1>5 DEF Settle

LEMMA NextFeed == FeedInv /\ [FeedNext]_telemetry => FeedInv'
<1> SUFFICES ASSUME FeedInv, [FeedNext]_telemetry PROVE FeedInv'
  OBVIOUS
<1>1. CASE UNCHANGED feed
  BY <1>1, FeedKept
<1>2. CASE UNCHANGED telemetry
  BY <1>1, <1>2 DEF telemetry, feed
<1> QED BY <1>1, <1>2, CloseTabFeed, AnimateFeed, SettleFeed DEF FeedNext

\* While one tab publishes, nothing it had deleted comes back: its batches
\* land before the DELETEs of their publication, and no later one names an
\* actor that has left.
THEOREM NothingComesBack == FeedSpec => []DeletedStaysDeleted
<1>1. FeedInv => DeletedStaysDeleted
  BY DEF FeedInv, Fed, DeletedStaysDeleted
<1> QED BY <1>1, InitFeed, NextFeed, PTL DEF FeedSpec

-----------------------------------------------------------------------------
LEMMA InitLease == FeedInit => LeaseInv
BY FeedConstants DEF FeedInit, LeaseInv, LeaseTypes, Leased, Lease, Nobodys

LEMMA ReleaseLease ==
    ASSUME LeaseInv, NEW t \in Tabs, NEW v, NEW spent \in BOOLEAN, Release(t, v, spent)
    PROVE  LeaseInv'
<1>1. LeaseTypes /\ (\A u \in Tabs : Leased(u)) /\ RefreshEvery \in Nat
  BY FeedConstants DEF LeaseInv
<1>2. PICK last \in BOOLEAN :
         /\ lease' = IF last /\ owns[t] /\ lease.of = t THEN Nobodys ELSE lease
         /\ owns' = [owns EXCEPT ![t] = @ /\ ~last]
         /\ asked' = [asked EXCEPT ![t] = IF last /\ owns[t] THEN RefreshEvery ELSE @]
         /\ lost' = IF lease' = lease THEN lost ELSE [u \in Tabs |-> 0]
         /\ visible' = visible
  BY DEF Release
<1>3. Nobodys \in Lease
  BY DEF Nobodys, Lease
<1>4. LeaseTypes'
  BY <1>1, <1>2, <1>3 DEF LeaseTypes
<1>5. ASSUME NEW u \in Tabs PROVE Leased(u)'
  <2>1. Leased(u) /\ (owns'[u] => owns[u] /\ asked'[u] = asked[u]) /\ asked'[u] \in Nat
    BY <1>1, <1>2, <1>4 DEF LeaseTypes
  <2>2. CASE lease' = lease
    BY <1>2, <2>1, <2>2 DEF Leased
  <2>3. CASE lease' # lease
    BY <1>2, <2>1, <2>3 DEF Leased
  <2> QED BY <2>2, <2>3
<1> QED BY <1>4, <1>5 DEF LeaseInv

LEMMA CloseTabLease ==
    ASSUME LeaseInv, NEW t \in Tabs, CloseTab(t)
    PROVE  LeaseInv'
<1>1. LeaseTypes /\ (\A u \in Tabs : Leased(u)) /\ "closed" \notin Tabs
  BY FeedConstants DEF LeaseInv
<1>2. /\ owns' = [owns EXCEPT ![t] = FALSE] /\ asked' = [asked EXCEPT ![t] = 0]
      /\ lost' = [lost EXCEPT ![t] = 0] /\ visible' = [visible EXCEPT ![t] = FALSE]
      /\ lease' = IF lease.of = t THEN [lease EXCEPT !.of = "closed"] ELSE lease
  BY DEF CloseTab
<1>3. /\ lease' \in Lease /\ lease'.left = lease.left
      /\ \A u \in Tabs : lease'.of = u => lease.of = u
  BY <1>1, <1>2 DEF LeaseTypes, Lease
<1>4. LeaseTypes'
  BY <1>1, <1>2, <1>3 DEF LeaseTypes
<1>5. ASSUME NEW u \in Tabs PROVE Leased(u)'
  BY <1>1, <1>2, <1>3 DEF Leased, LeaseTypes
<1> QED BY <1>4, <1>5 DEF LeaseInv

LEMMA ClaimsLease ==
    ASSUME LeaseInv, NEW t \in Tabs, ClaimLease(t), UNCHANGED visible
    PROVE  LeaseInv'
<1>1. LeaseTypes /\ (\A u \in Tabs : Leased(u))
      /\ RefreshEvery \in Nat /\ LeaseLasts \in Nat /\ LeaseLasts > 0
  BY FeedConstants DEF LeaseInv
<1>2. Produces(t) \in BOOLEAN
  BY <1>1 DEF Produces, LeaseTypes, Yields
<1>3. PICK o \in BOOLEAN : o = Produces(t) /\ owns' = [owns EXCEPT ![t] = o]
  BY <1>2 DEF ClaimLease
<1>4. CASE asked[t] < RefreshEvery
  <2>1. owns' = owns
    BY <1>1, <1>3, <1>4 DEF Produces, LeaseTypes
  <2> QED BY <1>1, <1>4, <2>1 DEF ClaimLease, LeaseInv, LeaseTypes, Leased
<1>5. CASE ~(asked[t] < RefreshEvery) /\ Yields(t)
  <2>1. /\ ~o /\ asked' = [asked EXCEPT ![t] = 0] /\ UNCHANGED <<lease, lost>>
    BY <1>3, <1>5 DEF Produces, ClaimLease
  <2>2. LeaseTypes'
    BY <1>1, <1>3, <2>1 DEF LeaseTypes
  <2>3. ASSUME NEW u \in Tabs PROVE Leased(u)'
    BY <1>1, <1>3, <2>1 DEF Leased, LeaseTypes
  <2> QED BY <2>2, <2>3 DEF LeaseInv
<1>6. CASE ~(asked[t] < RefreshEvery) /\ ~Yields(t)
  <2>1. /\ asked' = [asked EXCEPT ![t] = 0] /\ lost' = [lost EXCEPT ![t] = 0]
        /\ lease' = [of |-> t, left |-> LeaseLasts]
    BY <1>6 DEF ClaimLease
  <2>2. lease' \in Lease /\ lease'.of = t /\ lease'.left > 0
    BY <1>1, <2>1 DEF Lease
  <2>3. LeaseTypes'
    BY <1>1, <1>3, <2>1, <2>2 DEF LeaseTypes
  <2>4. ASSUME NEW u \in Tabs PROVE Leased(u)'
    BY <1>1, <1>3, <2>1, <2>2 DEF Leased, LeaseTypes
  <2> QED BY <2>3, <2>4 DEF LeaseInv
<1> QED BY <1>4, <1>5, <1>6

LEMMA PassTimeLease == ASSUME LeaseInv, PassTime PROVE LeaseInv'
<1>1. LeaseTypes /\ (\A u \in Tabs : Leased(u)) /\ RefreshEvery \in Nat
  BY FeedConstants DEF LeaseInv
<1>2. \A n \in Nat : Later(n) \in Nat
  BY <1>1 DEF Later
<1>3. \A m, n \in Nat : m <= n => Later(m) <= Later(n)
  BY <1>1 DEF Later
<1>4. PICK left \in Nat : left = IF lease.left > 0 THEN lease.left - 1 ELSE 0
  BY <1>1 DEF LeaseTypes, Lease
<1>5. lease' = [lease EXCEPT !.left = left]
  BY <1>4 DEF PassTime
<1>6. lease' \in Lease /\ lease'.of = lease.of /\ lease'.left = left
  BY <1>1, <1>5 DEF LeaseTypes, Lease
<1>7. ASSUME NEW t \in Tabs
      PROVE  /\ asked'[t] = Later(asked[t]) /\ owns'[t] = owns[t]
             /\ lost'[t] = IF lease.of \in {t, "nobody"} \/ lease'.left = 0 THEN 0 ELSE Later(lost[t])
  BY DEF PassTime
<1>8. LeaseTypes'
  BY <1>1, <1>2, <1>6 DEF PassTime, LeaseTypes
<1>9. ASSUME NEW t \in Tabs PROVE Leased(t)'
  <2>1. asked[t] \in Nat /\ lost[t] \in Nat /\ Leased(t)
    BY <1>1 DEF LeaseTypes
  <2>2. asked'[t] \in Nat
    BY <1>2, <1>7, <2>1
  <2> QED BY <1>3, <1>6, <1>7, <2>1, <2>2 DEF Leased
<1> QED BY <1>8, <1>9 DEF LeaseInv

LEMMA NextLease == LeaseInv /\ [FeedNext]_telemetry => LeaseInv'
<1> SUFFICES ASSUME LeaseInv, [FeedNext]_telemetry PROVE LeaseInv'
  OBVIOUS
<1>1. ASSUME UNCHANGED <<visible, owns, asked, lease, lost>> PROVE LeaseInv'
  BY <1>1 DEF LeaseInv, LeaseTypes, Leased
<1>2. CASE UNCHANGED telemetry
  BY <1>1, <1>2 DEF telemetry
<1>3. ASSUME NEW t \in Tabs, NEW v \in Views[t], Retain(t, v) PROVE LeaseInv'
  BY <1>1, <1>3 DEF Retain
<1>4. ASSUME NEW t \in Tabs, Turn(t) PROVE LeaseInv'
  <2>1. visible' \in [Tabs -> BOOLEAN]
    BY <1>4 DEF Turn, LeaseInv, LeaseTypes
  <2> QED BY <1>4, <2>1 DEF Turn, LeaseInv, LeaseTypes, Leased
<1>5. ASSUME NEW t \in Tabs, NEW due \in BOOLEAN, Animate(t, due) PROVE LeaseInv'
  BY <1>5, ClaimsLease DEF Animate
<1>6. ASSUME NEW t \in Tabs, Settle(t), UNCHANGED runtime PROVE LeaseInv'
  BY <1>1, <1>6 DEF Settle, runtime
<1> QED BY <1>2, <1>3, <1>4, <1>5, <1>6, ReleaseLease, CloseTabLease, PassTimeLease DEF FeedNext

\* A step begins a publication only in a frame in which its tab produces.
LEMMA OnlyFramesPublish ==
    ASSUME FeedInv, FeedNext, NEW t \in Tabs
    PROVE  Batches(t)' \subseteq Batches(t) \/ \E due \in BOOLEAN : Animate(t, due) /\ Produces(t)
<1>1. FeedTypes
  BY DEF FeedInv
<1>2. ASSUME posts'[t] = posts[t] PROVE Batches(t)' \subseteq Batches(t)
  BY <1>2 DEF Batches
<1>3. CASE UNCHANGED feed
  BY <1>2, <1>3 DEF feed
<1>4. ASSUME NEW u \in Tabs, CloseTab(u) PROVE Batches(t)' \subseteq Batches(t)
  BY <1>1, <1>4 DEF CloseTab, FeedTypes, Batches
<1>5. ASSUME NEW u \in Tabs, NEW due \in BOOLEAN, Animate(u, due)
      PROVE  Batches(t)' \subseteq Batches(t) \/ (Animate(t, due) /\ Produces(t))
  <2>1. CASE u = t /\ Produces(u)
    BY <1>5, <2>1
  <2>2. CASE ~Produces(u)
    BY <1>2, <1>5, <2>2 DEF Animate
  <2>3. CASE u # t
    BY <1>1, <1>2, <1>5, <2>3 DEF Animate, FeedTypes
  <2> QED BY <2>1, <2>2, <2>3
<1>6. ASSUME NEW u \in Tabs, Settle(u) PROVE Batches(t)' \subseteq Batches(t)
  <2>1. CASE u # t
    BY <1>1, <1>2, <1>6, <2>1 DEF Settle, Ingest, Published, Delete, End, FeedTypes
  <2>2. CASE u = t
    <3>1. /\ posts[t] \subseteq Post
          /\ posts' \in {[posts EXCEPT ![t] = posts[t] \ {p}] : p \in posts[t]}
             \/ posts' = posts
             \/ \E p \in posts[t] : posts' = [posts EXCEPT ![t] = (posts[t] \ {p}) \cup {[p EXCEPT !.at = "delete"]}]
      BY <1>1, <1>6, <2>2 DEF Settle, Ingest, Published, Delete, End, FeedTypes
    <3> QED BY <1>1, <3>1 DEF Batches, FeedTypes, Post
  <2> QED BY <2>1, <2>2
<1> QED BY <1>3, <1>4, <1>5, <1>6 DEF FeedNext

\* A hidden tab begins a publication only while no other tab's lease has been
\* in force for a whole refresh: it owns the lease only as long as it asked
\* for it after it was lost.
THEOREM HiddenTabsStop == FeedSpec => DisplacedStops
<1>1. ASSUME FeedInv, LeaseInv, [FeedNext]_telemetry
      PROVE  [\A t \in Tabs : Cardinality(Batches(t)') > Cardinality(Batches(t)) /\ ~visible[t]
                => lost[t] < RefreshEvery]_telemetry
  <2> SUFFICES ASSUME FeedNext, NEW t \in Tabs,
                      Cardinality(Batches(t)') > Cardinality(Batches(t)), ~visible[t]
               PROVE  lost[t] < RefreshEvery
    BY <1>1
  <2>1. IsFiniteSet(Batches(t))
    <3>1. \A p, q \in posts[t] : p = q
      BY <1>1 DEF FeedInv, Own
    <3>2. Batches(t) = {} \/ \E p : Batches(t) = {p}
      BY <3>1 DEF Batches
    <3> QED BY <3>2, FS_EmptySet, FS_Singleton
  <2>2. ~(Batches(t)' \subseteq Batches(t))
    <3>1. ASSUME Batches(t)' \subseteq Batches(t) PROVE FALSE
      <4>1. PICK B, C : B = Batches(t) /\ C = Batches(t)'
        OBVIOUS
      <4>2. Cardinality(C) <= Cardinality(B) /\ Cardinality(B) \in Nat /\ Cardinality(C) \in Nat
        BY <2>1, <3>1, <4>1, FS_Subset, FS_CardinalityType
      <4> QED BY <4>1, <4>2
    <3> QED BY <3>1
  <2>3. Produces(t)
    BY <1>1, <2>2, OnlyFramesPublish
  <2>4. /\ LeaseTypes /\ Leased(t) /\ asked[t] \in Nat /\ lost[t] \in Nat /\ lease.left \in Nat
        /\ RefreshEvery \in Nat /\ RefreshEvery > 0
    BY <1>1, FeedConstants DEF LeaseInv, LeaseTypes, Lease
  <2>5. CASE asked[t] < RefreshEvery
    <3>1. lost[t] <= asked[t]
      BY <2>3, <2>4, <2>5 DEF Produces, Leased
    <3> QED BY <2>4, <2>5, <3>1
  <2>6. CASE ~(asked[t] < RefreshEvery)
    <3>1. lease.of = t \/ lease.left = 0
      BY <2>3, <2>4, <2>6 DEF Produces, Yields
    <3> QED BY <2>4, <3>1 DEF Leased
  <2> QED BY <2>5, <2>6
<1> QED BY <1>1, InitFeed, NextFeed, InitLease, NextLease, PTL DEF FeedSpec, DisplacedStops

-----------------------------------------------------------------------------
(* The signal loop. *)
Carried == [phase : {"A", "B", "NONE"}, age : Nat]

\* One frame is on its way at a time, and it is no older than the state the
\* gateway holds.
OneFrame ==
    /\ obsAge \in Nat /\ obsAge <= MaxAge
    /\ frames \subseteq Carried
    /\ \A f, g \in frames : f = g
    /\ \A f \in frames : f.age <= obsAge

LEMMA InitOneFrame == LoopInit => OneFrame
BY LoopAssumption DEF LoopInit, OneFrame

LEMMA NextOneFrame == OneFrame /\ [LoopNext]_signalLoop => OneFrame'
<1> SUFFICES ASSUME OneFrame, [LoopNext]_signalLoop PROVE OneFrame'
  OBVIOUS
<1>1. CASE LoopTick
  <2>1. Older(obsAge) \in Nat /\ Older(obsAge) <= MaxAge
    BY LoopAssumption DEF OneFrame, Older
  <2>2. ASSUME NEW f \in frames
        PROVE  /\ [f EXCEPT !.age = @ + 1] \in Carried
               /\ [f EXCEPT !.age = @ + 1].age <= Older(obsAge)
    <3>1. PICK p \in {"A", "B", "NONE"}, n \in Nat : f = [phase |-> p, age |-> n]
      BY DEF OneFrame, Carried
    <3>2. n < MaxLag /\ n <= obsAge
      BY <1>1, <3>1 DEF LoopTick, OneFrame
    <3>3. [f EXCEPT !.age = @ + 1] = [phase |-> p, age |-> n + 1]
      BY <3>1
    <3>4. n + 1 <= MaxAge /\ MaxAge \in Nat
      BY <3>2, LoopAssumption, ThresholdsAssumption
    <3>5. n + 1 <= Older(obsAge)
      BY <3>2, <3>4 DEF OneFrame, Older
    <3> QED BY <3>3, <3>5 DEF Carried
  <2>3. frames' = {[f EXCEPT !.age = @ + 1] : f \in frames} /\ obsAge' = Older(obsAge)
    BY <1>1 DEF LoopTick
  <2>4. \A f, g \in frames' : f = g
    BY <2>3 DEF OneFrame
  <2> QED BY <2>1, <2>2, <2>3, <2>4 DEF OneFrame
<1>2. CASE Publish
  <2>1. LampPhase \in {"A", "B", "NONE"}
    BY DEF LampPhase, PhaseAt
  <2>2. frames' = {[phase |-> LampPhase, age |-> 0]} /\ obsAge' = obsAge
    BY <1>2 DEF Publish, clock
  <2> QED BY <2>1, <2>2 DEF OneFrame, Carried
<1>3. ASSUME NEW f \in frames, Deliver(f) PROVE OneFrame'
  <2>1. frames' = frames \ {f} /\ obsAge' = f.age
    BY <1>3, Zenon DEF Deliver
  <2>2. frames' = {}
    BY <2>1 DEF OneFrame
  <2>3. f.age \in Nat /\ f.age <= MaxAge
    BY LoopAssumption DEF OneFrame, Carried
  <2> QED BY <2>1, <2>2, <2>3 DEF OneFrame
<1>4. ASSUME NEW f \in frames, LoseFrame(f) PROVE OneFrame'
  BY <1>4 DEF LoseFrame, OneFrame, clock
<1>5. CASE Crash
  BY <1>5, LoopAssumption DEF Crash, OneFrame, Carried
<1>6. CASE UNCHANGED <<frames, obsAge>>
  BY <1>6 DEF OneFrame
<1>7. ASSUME NEW a \in Action, NEW waiting \in BOOLEAN, ControlTick(a, waiting)
      PROVE  UNCHANGED <<frames, obsAge>>
  BY <1>7 DEF ControlTick, clock
<1>8. Announce \/ Poll \/ ApplyCommands \/ LoseResponse \/ Start \/ UNCHANGED signalLoop
         => UNCHANGED <<frames, obsAge>>
  BY DEF Announce, Poll, ApplyCommands, LoseResponse, Start, signalLoop, clock
<1> QED BY <1>1, <1>2, <1>3, <1>4, <1>5, <1>6, <1>7, <1>8 DEF LoopNext

\* Telemetry of a junction is never applied out of order, whatever requests
\* are lost and however often the gateway starts again: the browser publishes
\* one frame at a time.
THEOREM TelemetryInOrder == LoopSpec => ObservationNeverOlder
<1>1. OneFrame /\ [LoopNext]_signalLoop => [\A f \in frames : Deliver(f) => f.age <= obsAge]_signalLoop
  BY DEF OneFrame
<1> QED BY <1>1, InitOneFrame, NextOneFrame, PTL DEF LoopSpec, ObservationNeverOlder
=============================================================================
