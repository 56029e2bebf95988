---------------------------- MODULE ServicesProofs ----------------------------
(***************************************************************************)
(* Proofs about AlertService and Trust, for every set of clients and keys, *)
(* of senders, messages and credentials, every clock and every rate.       *)
(*                                                                         *)
(* Argument, for the alert store: an alert the lifecycle can still move is *)
(* active and was never put away, so the patch that ends it puts it into   *)
(* the history once.  For what clients are told: of the broadcasts of one  *)
(* alert that wait for the lock, the last tells its present state; when    *)
(* none waits, the one that holds the lock does, and everybody who sees    *)
(* the alert was told it or is still to be; when none of either is left,   *)
(* everybody was told (LastIsTrue, HolderIsTrue, RestIsTold).  For the     *)
(* cooldown: a key last fired no earlier than any of its alerts.           *)
(*                                                                         *)
(* For replays: an accepted message is either still in the cache with a    *)
(* deadline past its expiry and the extra retention, or that deadline has  *)
(* passed on the monotonic clock (Remembering); the wall clock, set back   *)
(* by no more than the retention, is then past the expiry.  For rates:     *)
(* what a bucket still holds and what it let through since any admission   *)
(* never exceed its capacity and the refill since (Owed).                  *)
(***************************************************************************)
EXTENDS AlertService, Trust, SequenceTheorems, TLAPS

(* The alert platform.                                                      *)

\* The positions at which a broadcast of alert i waits for the lock.
Pending(i) == {n \in DOMAIN waiting : waiting[n].do = "broadcast" /\ waiting[n].id = i}

\* A connection whose endpoint is in its receive loop.
Here(c) == link[c] = "open" /\ joined[c] # None

\* Only alerts the lifecycle knows are broadcast.
RequestsKnown ==
    /\ \A n \in DOMAIN waiting : waiting[n].do = "broadcast" => waiting[n].id \in DOMAIN registry
    /\ holder # None => holder.id \in DOMAIN registry

\* Who listens is in the client registry, who asked to be dropped does not
\* listen, and who was not added yet was told nothing.
Membership ==
    /\ \A c \in Clients : Here(c) => c \in clients
    /\ \A n \in DOMAIN waiting : waiting[n].do = "drop" => link[waiting[n].client] = "closed"
    /\ \A c \in clients : joined[c] # None
    /\ \A c \in Clients : joined[c] = None => view[c] = <<>>
    /\ \A c \in Clients : link[c] = "new" => joined[c] = None
    /\ \A n \in DOMAIN waiting : waiting[n].do = "add" => link[waiting[n].client] # "new"

\* The last broadcast that waits tells the present state of its alert.
LastIsTrue ==
    \A i \in DOMAIN registry : \A n \in Pending(i) :
        (\A m \in Pending(i) : m <= n) => waiting[n].state = registry[i]

\* So does the one that goes out, unless another waits; everybody who sees
\* the alert was told or is about to be.
HolderIsTrue ==
    holder # None =>
        /\ Pending(holder.id) = {} => holder.state = registry[holder.id]
        /\ holder.left \subseteq clients
        /\ \A c \in holder.left : Sees(c, holder.id)
        /\ \A c \in holder.dead : link[c] = "closed"
        /\ \A c \in Clients : Here(c) /\ Sees(c, holder.id) /\ c \notin holder.left =>
              holder.id \in DOMAIN view[c] /\ view[c][holder.id] = holder.state

\* Everybody was told of the alerts of which no broadcast is on its way.
RestIsTold ==
    \A i \in DOMAIN registry :
        (Pending(i) = {} /\ (holder = None \/ holder.id # i)) =>
            \A c \in Clients : Here(c) =>
                /\ (Sees(c, i) /\ i > joined[c]) => i \in DOMAIN view[c]
                /\ i \in DOMAIN view[c] => view[c][i] = registry[i]

\* Nobody is told of an alert outside the box.
ViewsInBox == \A c \in Clients : \A i \in DOMAIN view[c] : i \in DOMAIN born /\ Sees(c, i)

ToldInv == /\ RequestsKnown /\ Membership /\ LastIsTrue
           /\ HolderIsTrue /\ RestIsTold /\ ViewsInBox
-----------------------------------------------------------------------------
StoreTypes ==
    /\ now \in Nat
    /\ fired \in [Keys -> Nat \cup {None}]
    /\ born \in Seq([key : Keys, at : Nat])
    /\ registry \in [DOMAIN registry -> AlertStates] /\ DOMAIN registry \subseteq DOMAIN born
    /\ active \in [DOMAIN active -> AlertStates]
    /\ past \in Seq(DOMAIN born) /\ Len(past) <= HistoryLimit

StoreInv == StoreTypes /\ StoreMatchesLifecycle

\* The last entries of a sequence: none comes twice if none did.
LEMMA LastNProperties ==
    ASSUME NEW S, NEW s \in Seq(S), NEW n \in Nat \ {0}
    PROVE  /\ LastN(s, n) \in Seq(S) /\ Len(LastN(s, n)) <= n
           /\ IsInjective(s) => IsInjective(LastN(s, n))
<1>1. CASE Len(s) <= n
  BY <1>1 DEF LastN
<1>2. CASE Len(s) > n
  <2> DEFINE m == Len(s) - n + 1
             t == SubSeq(s, m, Len(s))
  <2>1. /\ t \in Seq(S) /\ Len(t) = n
        /\ \A k \in 1 .. n : t[k] = s[m + k - 1]
    <3>1. m \in Int /\ Len(s) \in Int /\ \A i \in m .. Len(s) : s[i] \in S
      BY <1>2
    <3>2. Len(s) - m + 1 = n /\ m <= Len(s)
      BY <1>2
    <3> QED BY <3>1, <3>2, SubSeqProperties
  <2>2. LastN(s, n) = t
    BY <1>2 DEF LastN
  <2>3. \A k \in 1 .. n : m + k - 1 \in 1 .. Len(s)
    BY <1>2
  <2>4. DOMAIN t = 1 .. n /\ DOMAIN s = 1 .. Len(s)
    BY <2>1
  <2>5. IsInjective(s) => IsInjective(t)
    <3> SUFFICES ASSUME IsInjective(s), NEW a \in 1 .. n, NEW b \in 1 .. n, t[a] = t[b]
                 PROVE  a = b
      BY <2>4 DEF IsInjective
    <3> HIDE DEF t
    <3>1. s[m + a - 1] = s[m + b - 1]
      BY <2>1
    <3>2. m + a - 1 = m + b - 1
      <4> HIDE DEF m
      <4> QED BY <2>3, <2>4, <3>1 DEF IsInjective
    <3> QED BY <3>2
  <2>7. Len(t) <= n
    BY <2>1
  <2> HIDE DEF t
  <2> QED BY <2>1, <2>2, <2>5, <2>7
<1> QED BY <1>1, <1>2

\* An alert that ends leaves the active ones for the history.
LEMMA PutAway ==
    ASSUME NEW S, past \in Seq(S), IsInjective(past), NEW id \in S,
           active \in [DOMAIN active -> AlertStates],
           \A n \in DOMAIN past : past[n] # id /\ past[n] \notin DOMAIN active,
           NEW state \in Terminal, Put(id, state)
    PROVE  /\ past' \in Seq(S) /\ Len(past') <= HistoryLimit /\ IsInjective(past')
           /\ DOMAIN active' = DOMAIN active \ {id}
           /\ active' \in [DOMAIN active' -> AlertStates]
           /\ \A i \in DOMAIN active' : active'[i] = active[i]
           /\ \A n \in DOMAIN past' : past'[n] \notin DOMAIN active'
<1>1. active' = Restrict(active, DOMAIN active \ {id}) /\ past' = LastN(Append(past, id), HistoryLimit)
  BY DEF Put
<1>2. /\ Append(past, id) \in Seq(S)
      /\ DOMAIN Append(past, id) = 1 .. Len(past) + 1
      /\ \A n \in 1 .. Len(past) : Append(past, id)[n] = past[n]
      /\ Append(past, id)[Len(past) + 1] = id
  BY AppendProperties, LenProperties
<1>3. IsInjective(Append(past, id))
  BY <1>2 DEF IsInjective
<1>4. /\ past' \in Seq(S) /\ Len(past') <= HistoryLimit /\ IsInjective(past')
  <2> DEFINE s == Append(past, id)
  <2>1. s \in Seq(S) /\ IsInjective(s) /\ DOMAIN s = 1 .. Len(past) + 1 /\ HistoryLimit \in Nat \ {0}
    BY <1>2, <1>3, AlertServiceConstants
  <2>2. past' = LastN(s, HistoryLimit)
    BY <1>1
  <2> HIDE DEF s
  <2> QED BY <2>1, <2>2, LastNProperties
<1>5. /\ DOMAIN active' = DOMAIN active \ {id}
      /\ \A i \in DOMAIN active' : active'[i] = active[i]
      /\ active' \in [DOMAIN active' -> AlertStates]
  BY <1>1 DEF Restrict
<1>6. past' \in Seq(S \ DOMAIN active')
  <2>1. \A n \in DOMAIN Append(past, id) : Append(past, id)[n] \in S \ DOMAIN active'
    BY <1>2, <1>5
  <2>2. Append(past, id) \in Seq(S \ DOMAIN active')
    BY <1>2, <2>1
  <2> QED BY <1>1, <2>2, LastNProperties, AlertServiceConstants
<1>7. \A k \in DOMAIN past' : past'[k] \notin DOMAIN active'
  BY <1>6
<1> QED BY <1>4, <1>5, <1>7

\* One that does not end is active, and the history stays.
LEMMA PutUp ==
    ASSUME active \in [DOMAIN active -> AlertStates],
           NEW id, NEW state \in AlertStates \ Terminal, Put(id, state)
    PROVE  /\ past' = past
           /\ DOMAIN active' = DOMAIN active \cup {id}
           /\ active' \in [DOMAIN active' -> AlertStates]
           /\ \A i \in DOMAIN active' : active'[i] = IF i = id THEN state ELSE active[i]
BY DEF Put

\* A post adds one alert and leaves the others what they were.
LEMMA BornGrows ==
    ASSUME StoreTypes, NEW k \in Keys, born' = Append(born, [key |-> k, at |-> now])
    PROVE  /\ born' \in Seq([key : Keys, at : Nat]) /\ Len(born) \in Nat
           /\ DOMAIN born = 1 .. Len(born) /\ DOMAIN born' = 1 .. Len(born) + 1
           /\ \A i \in DOMAIN born : born'[i] = born[i]
           /\ born'[Len(born) + 1] = [key |-> k, at |-> now]
BY DEF StoreTypes

\* The history before a post is one of the alerts after it.
LEMMA PastGrows ==
    ASSUME StoreTypes, DOMAIN born \subseteq DOMAIN born'
    PROVE  past \in Seq(DOMAIN born')
BY SeqMonotonic DEF StoreTypes

LEMMA StatesAreKnown ==
    /\ Terminal \subseteq AlertStates
    /\ "ACTIVE" \in AlertStates \ Terminal
    /\ \A s \in AlertStates : Transitions[s] \subseteq AlertStates
    /\ \A s \in Terminal : Transitions[s] = {}
BY DEF Transitions, AlertStates, Terminal

LEMMA CreateSuppressedStore ==
    ASSUME StoreInv, NEW k \in Keys, CreateSuppressed(k)
    PROVE  StoreInv'
<1> DEFINE id == Len(born) + 1
<1>1. /\ born' = Append(born, [key |-> k, at |-> now]) /\ Put(id, "SUPPRESSED")
      /\ UNCHANGED <<now, fired, registry>>
  BY DEF CreateSuppressed
<1>2. /\ born' \in Seq([key : Keys, at : Nat])
      /\ id \in DOMAIN born' /\ id \notin DOMAIN born /\ DOMAIN born \subseteq DOMAIN born'
  <2>1. /\ born' \in Seq([key : Keys, at : Nat]) /\ Len(born) \in Nat
        /\ DOMAIN born = 1 .. Len(born) /\ DOMAIN born' = 1 .. Len(born) + 1
    BY <1>1, BornGrows DEF StoreInv
  <2> QED BY <2>1
<1>3. DOMAIN active \subseteq DOMAIN registry
  BY DEF StoreInv, StoreTypes, StoreMatchesLifecycle, Listed
<1>4. id \notin DOMAIN active /\ \A n \in DOMAIN past : past[n] # id
  <2>1. \A n \in DOMAIN past : past[n] \in DOMAIN born
    BY DEF StoreInv, StoreTypes
  <2> QED BY <1>2, <1>3, <2>1 DEF StoreInv, StoreTypes
<1>5. /\ past' \in Seq(DOMAIN born') /\ Len(past') <= HistoryLimit /\ IsInjective(past')
      /\ DOMAIN active' = DOMAIN active
      /\ active' \in [DOMAIN active' -> AlertStates]
      /\ \A i \in DOMAIN active' : active'[i] = active[i]
      /\ \A n \in DOMAIN past' : past'[n] \notin DOMAIN active'
  <2>1. "SUPPRESSED" \in Terminal
    BY DEF Terminal
  <2>2. past \in Seq(DOMAIN born') /\ IsInjective(past) /\ active \in [DOMAIN active -> AlertStates]
    BY <1>2, PastGrows DEF StoreInv, StoreTypes, StoreMatchesLifecycle
  <2>3. \A n \in DOMAIN past : past[n] # id /\ past[n] \notin DOMAIN active
    BY <1>4 DEF StoreInv, StoreMatchesLifecycle
  <2> HIDE DEF id
  <2> QED BY <1>1, <1>2, <1>4, <2>1, <2>2, <2>3, PutAway
<1>6. StoreTypes'
  BY <1>1, <1>2, <1>5 DEF StoreInv, StoreTypes
<1>7. StoreMatchesLifecycle'
  BY <1>1, <1>5 DEF StoreInv, StoreMatchesLifecycle, Listed
<1> QED BY <1>6, <1>7 DEF StoreInv

LEMMA CreateActiveStore ==
    ASSUME StoreInv, NEW k \in Keys, CreateActive(k)
    PROVE  StoreInv'
<1> DEFINE id == Len(born) + 1
<1>1. /\ born' = Append(born, [key |-> k, at |-> now]) /\ Put(id, "ACTIVE")
      /\ fired' = [fired EXCEPT ![k] = now] /\ now' = now
      /\ registry' = [i \in DOMAIN registry \cup {id} |-> IF i = id THEN "ACTIVE" ELSE registry[i]]
  BY DEF CreateActive
<1>2. /\ born' \in Seq([key : Keys, at : Nat])
      /\ id \in DOMAIN born' /\ id \notin DOMAIN born /\ DOMAIN born \subseteq DOMAIN born'
  <2>1. /\ born' \in Seq([key : Keys, at : Nat]) /\ Len(born) \in Nat
        /\ DOMAIN born = 1 .. Len(born) /\ DOMAIN born' = 1 .. Len(born) + 1
    BY <1>1, BornGrows DEF StoreInv
  <2> QED BY <2>1
<1>3. past' = past /\ past \in Seq(DOMAIN born') /\ \A n \in DOMAIN past : past[n] # id
  <2>1. \A n \in DOMAIN past : past[n] \in DOMAIN born
    BY DEF StoreInv, StoreTypes
  <2>2. past' = past
    BY <1>1, PutUp, StatesAreKnown DEF StoreInv, StoreTypes
  <2>3. past \in Seq(DOMAIN born')
    BY <1>2, PastGrows DEF StoreInv, StoreTypes
  <2> QED BY <1>2, <2>1, <2>2, <2>3
<1>4. /\ DOMAIN active' = DOMAIN active \cup {id}
      /\ active' \in [DOMAIN active' -> AlertStates]
      /\ \A i \in DOMAIN active' : active'[i] = IF i = id THEN "ACTIVE" ELSE active[i]
  BY <1>1, PutUp, StatesAreKnown DEF StoreInv, StoreTypes
<1>5. StoreTypes'
  <2> HIDE DEF id
  <2>1. registry' \in [DOMAIN registry' -> AlertStates] /\ DOMAIN registry' \subseteq DOMAIN born'
    BY <1>1, <1>2, StatesAreKnown DEF StoreInv, StoreTypes
  <2>2. fired' \in [Keys -> Nat \cup {None}] /\ now' \in Nat
    BY <1>1 DEF StoreInv, StoreTypes
  <2>3. Len(past') <= HistoryLimit
    BY <1>3 DEF StoreInv, StoreTypes
  <2> QED BY <1>2, <1>3, <1>4, <2>1, <2>2, <2>3 DEF StoreTypes
<1>6. StoreMatchesLifecycle'
  <2> HIDE DEF id
  <2>1. DOMAIN registry' = DOMAIN registry \cup {id} /\ id \notin DOMAIN registry
    BY <1>1, <1>2 DEF StoreInv, StoreTypes
  <2>2. \A i \in DOMAIN registry' : registry'[i] = IF i = id THEN "ACTIVE" ELSE registry[i]
    BY <1>1
  <2>3. \A s \in AlertStates \ Terminal : Listed(s)' = {i \in DOMAIN registry' : registry'[i] = s}
    <3> SUFFICES ASSUME NEW s \in AlertStates \ Terminal
                 PROVE  Listed(s)' = {i \in DOMAIN registry' : registry'[i] = s}
      OBVIOUS
    <3>1. Listed(s) = {i \in DOMAIN registry : registry[i] = s}
      BY DEF StoreInv, StoreMatchesLifecycle
    <3>2. \A i : i \in Listed(s)' <=> i \in DOMAIN active \cup {id} /\ (IF i = id THEN "ACTIVE" ELSE active[i]) = s
      BY <1>4 DEF Listed
    <3> QED BY <2>1, <2>2, <3>1, <3>2 DEF Listed
  <2>4. \A i \in DOMAIN active' : active'[i] \notin Terminal
    BY <1>4, StatesAreKnown DEF StoreInv, StoreMatchesLifecycle
  <2>5. \A n \in DOMAIN past' : past'[n] \notin DOMAIN active'
    BY <1>3, <1>4 DEF StoreInv, StoreMatchesLifecycle
  <2> QED BY <1>3, <2>3, <2>4, <2>5 DEF StoreInv, StoreMatchesLifecycle
<1> QED BY <1>5, <1>6 DEF StoreInv

\* An alert that can still move is active, and so not in the history: it
\* enters it once.
LEMMA PatchStore ==
    ASSUME StoreInv, NEW id \in DOMAIN born, NEW state \in AlertStates, Patch(id, state)
    PROVE  StoreInv'
<1>1. /\ id \in DOMAIN registry /\ state \in Transitions[registry[id]]
      /\ registry' = [registry EXCEPT ![id] = state] /\ Put(id, state)
      /\ UNCHANGED <<now, fired, born>>
  BY DEF Patch
<1>2. registry[id] \in AlertStates \ Terminal
  BY <1>1, StatesAreKnown DEF StoreInv, StoreTypes
<1>3. id \in DOMAIN active /\ \A n \in DOMAIN past : past[n] # id
  BY <1>1, <1>2 DEF StoreInv, StoreMatchesLifecycle, Listed
<1>4. /\ registry' \in [DOMAIN registry -> AlertStates] /\ DOMAIN registry' = DOMAIN registry
      /\ \A i \in DOMAIN registry : registry'[i] = IF i = id THEN state ELSE registry[i]
  BY <1>1 DEF StoreInv, StoreTypes
<1>5. CASE state \in Terminal
  <2>1. /\ past' \in Seq(DOMAIN born) /\ Len(past') <= HistoryLimit /\ IsInjective(past')
        /\ DOMAIN active' = DOMAIN active \ {id}
        /\ active' \in [DOMAIN active' -> AlertStates]
        /\ \A i \in DOMAIN active' : active'[i] = active[i]
        /\ \A n \in DOMAIN past' : past'[n] \notin DOMAIN active'
    BY <1>1, <1>3, <1>5, PutAway DEF StoreInv, StoreTypes, StoreMatchesLifecycle
  <2>2. StoreTypes'
    BY <1>1, <1>4, <2>1 DEF StoreInv, StoreTypes
  <2>3. ASSUME NEW s \in AlertStates \ Terminal
        PROVE  Listed(s)' = {i \in DOMAIN registry' : registry'[i] = s}
    <3>1. Listed(s) = {i \in DOMAIN registry : registry[i] = s}
      BY DEF StoreInv, StoreMatchesLifecycle
    <3> QED BY <1>4, <1>5, <2>1, <3>1 DEF Listed
  <2> QED BY <2>1, <2>2, <2>3 DEF StoreInv, StoreMatchesLifecycle
<1>6. CASE state \notin Terminal
  <2>1. /\ past' = past
        /\ DOMAIN active' = DOMAIN active
        /\ active' \in [DOMAIN active' -> AlertStates]
        /\ \A i \in DOMAIN active' : active'[i] = IF i = id THEN state ELSE active[i]
    <3>1. state \in AlertStates \ Terminal /\ active \in [DOMAIN active -> AlertStates]
      BY <1>6 DEF StoreInv, StoreTypes
    <3>2. DOMAIN active \cup {id} = DOMAIN active
      BY <1>3
    <3> QED BY <1>1, <3>1, <3>2, PutUp
  <2>2. StoreTypes'
    BY <1>1, <1>4, <2>1 DEF StoreInv, StoreTypes
  <2>3. ASSUME NEW s \in AlertStates \ Terminal
        PROVE  Listed(s)' = {i \in DOMAIN registry' : registry'[i] = s}
    <3>1. Listed(s) = {i \in DOMAIN registry : registry[i] = s}
      BY DEF StoreInv, StoreMatchesLifecycle
    <3> QED BY <1>1, <1>3, <1>4, <2>1, <3>1 DEF Listed
  <2> QED BY <1>6, <2>1, <2>2, <2>3 DEF StoreInv, StoreMatchesLifecycle
<1> QED BY <1>5, <1>6
LEMMA StoreNextInv == StoreInv /\ [Next]_vars => StoreInv'
<1> SUFFICES ASSUME StoreInv, [Next]_vars PROVE StoreInv'
  OBVIOUS
<1>1. ASSUME NEW k \in Keys, CreateSuppressed(k) \/ CreateActive(k) PROVE StoreInv'
  BY <1>1, CreateSuppressedStore, CreateActiveStore
<1>2. ASSUME NEW id \in DOMAIN born, NEW state \in AlertStates, Patch(id, state) PROVE StoreInv'
  BY <1>2, PatchStore
<1>3. CASE UNCHANGED <<now, fired>> /\ UNCHANGED states
  BY <1>3 DEF states, StoreInv, StoreTypes, StoreMatchesLifecycle, Listed
<1>4. ASSUME NEW c \in Clients, Connect(c) \/ Disconnect(c) \/ Send(c) PROVE StoreInv'
  BY <1>3, <1>4 DEF Connect, Disconnect, Send
<1>5. CASE Acquire
  BY <1>3, <1>5 DEF Acquire
<1>6. CASE Release
  BY <1>3, <1>6 DEF Release
<1>7. CASE Tick
  BY <1>7 DEF Tick, states, StoreInv, StoreTypes, StoreMatchesLifecycle, Listed
<1>8. CASE UNCHANGED vars
  BY <1>3, <1>8 DEF vars, states
<1> QED BY <1>1, <1>2, <1>4, <1>5, <1>6, <1>7, <1>8 DEF Next

LEMMA StoreInitInv == Init => StoreInv
<1> SUFFICES ASSUME Init PROVE StoreInv
  OBVIOUS
<1>1. /\ now = 0 /\ fired = [k \in Keys |-> None]
      /\ born = <<>> /\ registry = <<>> /\ active = <<>> /\ past = <<>>
  BY DEF Init
<1>2. \A S : <<>> \in Seq(S) /\ Len(<<>>) = 0 /\ DOMAIN <<>> = {} /\ <<>> \in [DOMAIN <<>> -> S]
  OBVIOUS
<1>3. StoreTypes
  BY <1>1, <1>2, AlertServiceConstants DEF StoreTypes
<1>4. StoreMatchesLifecycle
  BY <1>1, <1>2 DEF StoreMatchesLifecycle, Listed, IsInjective
<1> QED BY <1>3, <1>4 DEF StoreInv

\* The store of the active alerts and the registry of the lifecycle answer
\* alike, and no alert enters the history twice or while it is active, after
\* every sequence of posts and patches.
THEOREM StoreAgrees == Spec => []StoreMatchesLifecycle
<1>1. StoreInv => StoreMatchesLifecycle
  BY DEF StoreInv
<1> QED BY <1>1, StoreInitInv, StoreNextInv, PTL DEF Spec

-----------------------------------------------------------------------------
\* When a key last fired is no later than now, nor earlier than any alert of
\* the key that was told.
FiredLast ==
    /\ \A k \in Keys : fired[k] # None => fired[k] <= now
    /\ \A i \in DOMAIN registry : fired[born[i].key] # None /\ born[i].at <= fired[born[i].key]

SpacedInv == StoreInv /\ FiredLast /\ FiredSpaced

LEMMA CreateActiveSpaced ==
    ASSUME SpacedInv, NEW k \in Keys, CreateActive(k)
    PROVE  FiredLast' /\ FiredSpaced'
<1> DEFINE id == Len(born) + 1
<1>1. /\ born' = Append(born, [key |-> k, at |-> now])
      /\ fired' = [fired EXCEPT ![k] = now] /\ now' = now /\ ~IsSuppressed(k)
      /\ DOMAIN registry' = DOMAIN registry \cup {id}
  BY DEF CreateActive
<1>2. /\ \A i \in DOMAIN born : born'[i] = born[i] /\ i < id /\ i \in Int
      /\ born'[id] = [key |-> k, at |-> now] /\ id \notin DOMAIN registry /\ id \in Int
      /\ DOMAIN registry \subseteq DOMAIN born
      /\ \A i \in DOMAIN born : born[i].key \in Keys /\ born[i].at \in Nat
  <2>1. /\ Len(born) \in Nat /\ DOMAIN born = 1 .. Len(born)
        /\ \A i \in DOMAIN born : born'[i] = born[i]
        /\ born'[Len(born) + 1] = [key |-> k, at |-> now]
    BY <1>1, BornGrows DEF SpacedInv, StoreInv
  <2>2. DOMAIN registry \subseteq DOMAIN born /\ born \in Seq([key : Keys, at : Nat])
    BY DEF SpacedInv, StoreInv, StoreTypes
  <2>3. \A i \in DOMAIN born : born[i] \in [key : Keys, at : Nat]
    BY <2>1, <2>2, ElementOfSeq
  <2> QED BY <2>1, <2>2, <2>3 DEF id
<1> HIDE DEF id
<1>3. /\ fired \in [Keys -> Nat \cup {None}] /\ now \in Nat /\ None \notin Nat /\ Cooldown \in Nat
  BY AlertServiceConstants DEF SpacedInv, StoreInv, StoreTypes
<1>4. fired'[k] = now /\ \A l \in Keys \ {k} : fired'[l] = fired[l]
  BY <1>1, <1>3
<1>5. FiredLast'
  <2>1. \A l \in Keys : fired'[l] # None => fired'[l] <= now'
    BY <1>1, <1>3, <1>4 DEF SpacedInv, FiredLast
  <2>2. ASSUME NEW i \in DOMAIN registry'
        PROVE  fired'[born'[i].key] # None /\ born'[i].at <= fired'[born'[i].key]
    <3>1. CASE i = id
      BY <1>2, <1>3, <1>4, <3>1
    <3>2. CASE i # id
      <4>1. i \in DOMAIN registry /\ born'[i] = born[i] /\ born[i].key \in Keys /\ born[i].at \in Nat
        BY <1>1, <1>2, <3>2
      <4>2. fired[born[i].key] # None /\ born[i].at <= fired[born[i].key] /\ fired[born[i].key] <= now
        BY <4>1 DEF SpacedInv, FiredLast
      <4> QED BY <1>3, <1>4, <4>1, <4>2
    <3> QED BY <3>1, <3>2
  <2> QED BY <2>1, <2>2 DEF FiredLast
<1>6. FiredSpaced'
  <2> SUFFICES ASSUME NEW i \in DOMAIN registry', NEW j \in DOMAIN registry',
                      i < j, born'[i].key = born'[j].key
               PROVE  born'[j].at - born'[i].at >= Cooldown
    BY DEF FiredSpaced
  <2>1. i \in DOMAIN registry /\ born'[i] = born[i] /\ born[i].at \in Nat
    BY <1>1, <1>2
  <2>2. CASE j = id
    <3>1. born[i].key = k /\ born'[j].at = now
      BY <1>2, <2>1, <2>2
    <3>2. fired[k] # None /\ born[i].at <= fired[k]
      BY <2>1, <3>1 DEF SpacedInv, FiredLast
    <3>3. now - fired[k] >= Cooldown
      BY <1>1, <1>3, <3>2 DEF IsSuppressed
    <3> QED BY <1>3, <2>1, <3>1, <3>2, <3>3
  <2>3. CASE j # id
    BY <1>1, <1>2, <2>1, <2>3 DEF SpacedInv, FiredSpaced
  <2> QED BY <2>2, <2>3
<1> QED BY <1>5, <1>6

LEMMA SpacedNextInv == SpacedInv /\ [Next]_vars => SpacedInv'
<1> SUFFICES ASSUME SpacedInv, [Next]_vars PROVE FiredLast' /\ FiredSpaced'
  BY StoreNextInv DEF SpacedInv
<1>1. ASSUME NEW k \in Keys, CreateSuppressed(k) PROVE FiredLast' /\ FiredSpaced'
  <2>1. UNCHANGED <<now, fired, registry>> /\ \A i \in DOMAIN registry : born'[i] = born[i]
    BY <1>1, BornGrows DEF CreateSuppressed, SpacedInv, StoreInv, StoreTypes
  <2> QED BY <2>1 DEF SpacedInv, FiredLast, FiredSpaced
<1>2. ASSUME NEW k \in Keys, CreateActive(k) PROVE FiredLast' /\ FiredSpaced'
  BY <1>2, CreateActiveSpaced
<1>3. CASE UNCHANGED <<now, fired, born>> /\ DOMAIN registry' = DOMAIN registry
  BY <1>3 DEF SpacedInv, FiredLast, FiredSpaced
<1>4. ASSUME NEW id \in DOMAIN born, NEW state \in AlertStates, Patch(id, state)
      PROVE  FiredLast' /\ FiredSpaced'
  BY <1>3, <1>4 DEF Patch
<1>5. ASSUME NEW c \in Clients, Connect(c) \/ Disconnect(c) \/ Send(c)
      PROVE  FiredLast' /\ FiredSpaced'
  BY <1>3, <1>5 DEF Connect, Disconnect, Send, states
<1>6. CASE Acquire
  BY <1>3, <1>6 DEF Acquire, states
<1>7. CASE Release
  BY <1>3, <1>7 DEF Release, states
<1>8. CASE Tick
  <2>1. now' = now + 1 /\ UNCHANGED <<fired, born, registry>>
    BY <1>8 DEF Tick, states
  <2>2. now \in Nat /\ fired \in [Keys -> Nat \cup {None}]
    BY DEF SpacedInv, StoreInv, StoreTypes
  <2> QED BY <2>1, <2>2 DEF SpacedInv, FiredLast, FiredSpaced
<1>9. CASE UNCHANGED vars
  BY <1>3, <1>9 DEF vars
<1> QED BY <1>1, <1>2, <1>4, <1>5, <1>6, <1>7, <1>8, <1>9 DEF Next

\* Two alerts of one key that were told to clients are a cooldown apart.
THEOREM CooldownHolds == Spec => []FiredSpaced
<1>1. Init => FiredLast /\ FiredSpaced
  BY DEF Init, FiredLast, FiredSpaced
<1>2. SpacedInv => FiredSpaced
  BY DEF SpacedInv
<1>3. Init => SpacedInv
  BY <1>1, StoreInitInv DEF SpacedInv
<1> QED BY <1>2, <1>3, SpacedNextInv, PTL DEF Spec
-----------------------------------------------------------------------------
(* What clients are told.                                                   *)

QueueTypes ==
    /\ link \in [Clients -> {"new", "open", "closed"}]
    /\ clients \subseteq Clients
    /\ joined \in [Clients -> Nat \cup {None}]
    /\ waiting \in Seq(Requests)
    /\ holder = None \/ holder \in [id : DOMAIN born, state : AlertStates, left : SUBSET Clients,
                                     dead : SUBSET Clients]
    /\ view \in [Clients -> UNION {[D -> AlertStates] : D \in SUBSET DOMAIN born}]

AlertInv == StoreInv /\ QueueTypes /\ ToldInv

\* A request that asks for the lock waits behind all others.
LEMMA Asked ==
    ASSUME waiting \in Seq(Requests), NEW r \in Requests, Ask(r)
    PROVE  /\ waiting' \in Seq(Requests) /\ Len(waiting) \in Nat
           /\ DOMAIN waiting = 1 .. Len(waiting) /\ DOMAIN waiting' = 1 .. Len(waiting) + 1
           /\ \A n \in DOMAIN waiting : waiting'[n] = waiting[n]
           /\ waiting'[Len(waiting) + 1] = r
BY DEF Ask

\* Another alert than the one asked about has the requests it had.
LEMMA AskedElse ==
    ASSUME waiting \in Seq(Requests), NEW r \in Requests, Ask(r), NEW i,
           r.do = "broadcast" => r.id # i
    PROVE  /\ Pending(i)' = Pending(i)
           /\ \A n \in Pending(i) : waiting'[n] = waiting[n]
<1>1. /\ Len(waiting) \in Nat
      /\ DOMAIN waiting = 1 .. Len(waiting) /\ DOMAIN waiting' = 1 .. Len(waiting) + 1
      /\ \A n \in DOMAIN waiting : waiting'[n] = waiting[n]
      /\ waiting'[Len(waiting) + 1] = r
  BY Asked
<1>2. DOMAIN waiting' = DOMAIN waiting \cup {Len(waiting) + 1}
  BY <1>1
<1> QED BY <1>1, <1>2 DEF Pending

\* The lock goes to the first request, and the others move up.
LEMMA Served ==
    ASSUME waiting \in Seq(Requests), Acquire
    PROVE  /\ 1 \in DOMAIN waiting /\ waiting[1] \in Requests
           /\ waiting' \in Seq(Requests) /\ DOMAIN waiting' \subseteq Nat
           /\ \A n \in Nat : n \in DOMAIN waiting' <=> n + 1 \in DOMAIN waiting /\ n > 0
           /\ \A n \in DOMAIN waiting' : waiting'[n] = waiting[n + 1]
           /\ \A n \in DOMAIN waiting : n = 1 \/ (n - 1 \in DOMAIN waiting' /\ n \in Int)
<1>1. waiting # <<>>
  BY DEF Acquire, NextWaiter
<1>2. waiting' = SubSeq(waiting, 1, 0) \o SubSeq(waiting, 2, Len(waiting))
  BY <1>1 DEF Acquire, NextWaiter
<1>3. Len(waiting) \in Nat /\ Len(waiting) > 0 /\ DOMAIN waiting = 1 .. Len(waiting)
  BY <1>1, EmptySeq
<1> DEFINE t == SubSeq(waiting, 2, Len(waiting))
<1>4. t \in Seq(Requests) /\ Len(t) = Len(waiting) - 1 /\ \A n \in 1 .. Len(waiting) - 1 : t[n] = waiting[n + 1]
  <2>1. \A n \in 2 .. Len(waiting) : waiting[n] \in Requests
    BY <1>3
  <2>2. /\ t \in Seq(Requests)
        /\ Len(t) = IF 2 <= Len(waiting) THEN Len(waiting) - 2 + 1 ELSE 0
        /\ \A n \in 1 .. Len(waiting) - 2 + 1 : t[n] = waiting[2 + n - 1]
    BY <1>3, <2>1, SubSeqProperties
  <2> QED BY <1>3, <2>2
<1>5. waiting' = t
  BY <1>2, <1>4, SubSeqEmpty, ConcatEmptySeq
<1> HIDE DEF t
<1>6. DOMAIN t = 1 .. Len(waiting) - 1
  BY <1>3, <1>4
<1> QED BY <1>3, <1>4, <1>5, <1>6

\* A post or a tick that tells nobody.
LEMMA QuietTold ==
    ASSUME AlertInv, UNCHANGED <<registry, waiting, holder, view>>, UNCHANGED sockets,
           DOMAIN born \subseteq DOMAIN born', \A i \in DOMAIN born : born'[i] = born[i]
    PROVE  QueueTypes' /\ ToldInv'
<1>1. \A i \in DOMAIN born, c \in Clients : Sees(c, i)' = Sees(c, i)
  BY DEF Sees
<1>2. DOMAIN registry \subseteq DOMAIN born
  BY DEF AlertInv, StoreInv, StoreTypes
<1>3. \A i : Pending(i)' = Pending(i)
  BY DEF Pending
<1>4. \A c : Here(c)' = Here(c)
  BY DEF Here, sockets
<1>5. RequestsKnown' /\ Membership'
  BY <1>4 DEF AlertInv, ToldInv, RequestsKnown, Membership, sockets
<1>6. LastIsTrue'
  BY <1>3 DEF AlertInv, ToldInv, LastIsTrue
<1>7. HolderIsTrue'
  <2>1. holder # None => holder.id \in DOMAIN born
    BY <1>2 DEF AlertInv, ToldInv, RequestsKnown
  <2> QED BY <1>1, <1>3, <1>4, <2>1 DEF AlertInv, ToldInv, HolderIsTrue, QueueTypes, sockets
<1>8. RestIsTold'
  BY <1>1, <1>2, <1>3, <1>4 DEF AlertInv, ToldInv, RestIsTold, sockets
<1>9. ViewsInBox'
  BY <1>1 DEF AlertInv, ToldInv, ViewsInBox
<1>10. QueueTypes'
  BY DEF AlertInv, QueueTypes, sockets
<1> QED BY <1>5, <1>6, <1>7, <1>8, <1>9, <1>10 DEF ToldInv

\* An alert that is posted or changed is told to everybody when its turn
\* comes; the others are not concerned.
LEMMA BroadcastTold ==
    ASSUME AlertInv, NEW id \in DOMAIN born', id \in Nat \ {0}, NEW state \in AlertStates,
           Ask(Broadcast(id, state)), UNCHANGED <<holder, view>>, UNCHANGED sockets,
           DOMAIN registry' = DOMAIN registry \cup {id}, registry'[id] = state,
           \A i \in DOMAIN registry : i # id => registry'[i] = registry[i],
           DOMAIN born \subseteq DOMAIN born', \A i \in DOMAIN born : born'[i] = born[i]
    PROVE  QueueTypes' /\ ToldInv'
<1> DEFINE r == Broadcast(id, state)
           last == Len(waiting) + 1
<1>1. r \in Requests /\ r.do = "broadcast" /\ r.id = id /\ r.state = state
  BY DEF Broadcast, Requests
<1>2. waiting \in Seq(Requests)
  BY DEF AlertInv, QueueTypes
<1>3. /\ waiting' \in Seq(Requests) /\ last \in Nat
      /\ DOMAIN waiting = 1 .. last - 1 /\ DOMAIN waiting' = DOMAIN waiting \cup {last}
      /\ \A n \in DOMAIN waiting : waiting'[n] = waiting[n] /\ n \in Int /\ n < last
      /\ waiting'[last] = r
  <2>1. /\ waiting' \in Seq(Requests) /\ Len(waiting) \in Nat
        /\ DOMAIN waiting = 1 .. Len(waiting) /\ DOMAIN waiting' = 1 .. Len(waiting) + 1
        /\ \A n \in DOMAIN waiting : waiting'[n] = waiting[n]
        /\ waiting'[Len(waiting) + 1] = r
    BY <1>1, <1>2, Asked
  <2> HIDE DEF r
  <2> QED BY <2>1
<1>4. \A i : i # id => Pending(i)' = Pending(i) /\ \A n \in Pending(i) : waiting'[n] = waiting[n]
  BY <1>1, <1>2, AskedElse
<1> HIDE DEF r, last
<1>5. last \in Pending(id)' /\ \A n \in Pending(id)' : n \in Int /\ n <= last
  BY <1>1, <1>3 DEF Pending
<1>6. \A i \in DOMAIN born, c \in Clients : Sees(c, i)' = Sees(c, i)
  BY DEF Sees
<1>7. \A c : Here(c)' = Here(c)
  BY DEF Here, sockets
<1>8. DOMAIN registry \subseteq DOMAIN born
  BY DEF AlertInv, StoreInv, StoreTypes
<1>9. RequestsKnown'
  BY <1>1, <1>3 DEF AlertInv, ToldInv, RequestsKnown
<1>10. Membership'
  BY <1>1, <1>3, <1>7 DEF AlertInv, ToldInv, Membership, sockets
<1>11. LastIsTrue'
  <2> SUFFICES ASSUME NEW i \in DOMAIN registry', NEW n \in Pending(i)',
                      \A m \in Pending(i)' : m <= n
               PROVE  waiting'[n].state = registry'[i]
    BY DEF LastIsTrue
  <2>1. CASE i = id
    <3>1. last <= n /\ n <= last /\ n \in Int
      BY <1>5, <2>1
    <3>2. n = last
      BY <1>3, <3>1
    <3> QED BY <1>1, <1>3, <2>1, <3>2
  <2>2. CASE i # id
    <3>1. waiting[n].state = registry[i]
      BY <1>4, <2>2 DEF AlertInv, ToldInv, LastIsTrue
    <3> QED BY <1>4, <2>2, <3>1
  <2> QED BY <2>1, <2>2
<1>12. HolderIsTrue'
  <2> SUFFICES ASSUME holder # None PROVE HolderIsTrue'
    BY DEF HolderIsTrue
  <2>1. holder.id \in DOMAIN registry /\ holder.id \in DOMAIN born
    BY <1>8 DEF AlertInv, ToldInv, RequestsKnown
  <2>2. Pending(holder.id)' = {} => holder.state = registry'[holder.id]
    BY <1>4, <1>5, <2>1 DEF AlertInv, ToldInv, HolderIsTrue
  <2> QED BY <1>6, <1>7, <2>1, <2>2 DEF AlertInv, ToldInv, HolderIsTrue, QueueTypes, sockets
<1>13. RestIsTold'
  <2> SUFFICES ASSUME NEW i \in DOMAIN registry', Pending(i)' = {},
                      holder = None \/ holder.id # i, NEW c \in Clients, Here(c)
               PROVE  /\ (Sees(c, i)' /\ i > joined[c]) => i \in DOMAIN view[c]
                      /\ i \in DOMAIN view[c] => view[c][i] = registry'[i]
    BY <1>7 DEF RestIsTold, sockets
  <2>1. i # id /\ Pending(i) = {} /\ i \in DOMAIN registry /\ registry'[i] = registry[i]
    BY <1>4, <1>5
  <2> QED BY <1>6, <1>8, <2>1 DEF AlertInv, ToldInv, RestIsTold
<1>14. ViewsInBox'
  BY <1>6 DEF AlertInv, ToldInv, ViewsInBox
<1>15. QueueTypes'
  BY <1>3 DEF AlertInv, QueueTypes, sockets
<1> QED BY <1>9, <1>10, <1>11, <1>12, <1>13, <1>14, <1>15 DEF ToldInv
LEMMA CreateActiveTold ==
    ASSUME AlertInv, NEW k \in Keys, CreateActive(k)
    PROVE  QueueTypes' /\ ToldInv'
<1> DEFINE id == Len(born) + 1
<1>1. /\ born' = Append(born, [key |-> k, at |-> now])
      /\ registry' = [i \in DOMAIN registry \cup {id} |-> IF i = id THEN "ACTIVE" ELSE registry[i]]
      /\ Ask(Broadcast(id, "ACTIVE")) /\ UNCHANGED <<holder, view>> /\ UNCHANGED sockets
  BY DEF CreateActive
<1>2. /\ id \in DOMAIN born' /\ id \in Nat \ {0}
      /\ DOMAIN born \subseteq DOMAIN born' /\ \A i \in DOMAIN born : born'[i] = born[i]
  <2>1. /\ Len(born) \in Nat /\ DOMAIN born = 1 .. Len(born) /\ DOMAIN born' = 1 .. Len(born) + 1
        /\ \A i \in DOMAIN born : born'[i] = born[i]
    BY <1>1, BornGrows DEF AlertInv, StoreInv
  <2> QED BY <2>1
<1> HIDE DEF id
<1>3. /\ DOMAIN registry' = DOMAIN registry \cup {id} /\ registry'[id] = "ACTIVE"
      /\ \A i \in DOMAIN registry : i # id => registry'[i] = registry[i]
  BY <1>1
<1> QED BY <1>1, <1>2, <1>3, StatesAreKnown, BroadcastTold

LEMMA PatchTold ==
    ASSUME AlertInv, NEW id \in DOMAIN born, NEW state \in AlertStates, Patch(id, state)
    PROVE  QueueTypes' /\ ToldInv'
<1>1. /\ id \in DOMAIN registry /\ registry' = [registry EXCEPT ![id] = state] /\ born' = born
      /\ Ask(Broadcast(id, state)) /\ UNCHANGED <<holder, view>> /\ UNCHANGED sockets
  BY DEF Patch
<1>2. id \in Nat \ {0}
  BY DEF AlertInv, StoreInv, StoreTypes
<1>3. /\ DOMAIN registry' = DOMAIN registry \cup {id} /\ registry'[id] = state
      /\ \A i \in DOMAIN registry : i # id => registry'[i] = registry[i]
  BY <1>1 DEF AlertInv, StoreInv, StoreTypes
<1> QED BY <1>1, <1>2, <1>3, BroadcastTold

\* Connections that come and go ask for the lock but tell nobody anything.
LEMMA SocketTold ==
    ASSUME AlertInv, NEW r \in Requests, Ask(r), r.do # "broadcast", UNCHANGED states,
           UNCHANGED <<holder, view, clients, joined>>,
           \A c \in Clients : Here(c)' => Here(c),
           \A c \in Clients : link[c] = "closed" => link'[c] = "closed"
    PROVE  /\ RequestsKnown' /\ LastIsTrue' /\ HolderIsTrue' /\ RestIsTold' /\ ViewsInBox'
           /\ waiting' \in Seq(Requests) /\ DOMAIN waiting' = DOMAIN waiting \cup {Len(waiting) + 1}
           /\ waiting'[Len(waiting) + 1] = r
           /\ \A n \in DOMAIN waiting : waiting'[n] = waiting[n]
<1>1. waiting \in Seq(Requests)
  BY DEF AlertInv, QueueTypes
<1>2. /\ waiting' \in Seq(Requests) /\ DOMAIN waiting' = DOMAIN waiting \cup {Len(waiting) + 1}
      /\ waiting'[Len(waiting) + 1] = r
      /\ \A n \in DOMAIN waiting : waiting'[n] = waiting[n]
  <2>1. /\ waiting' \in Seq(Requests) /\ Len(waiting) \in Nat
        /\ DOMAIN waiting = 1 .. Len(waiting) /\ DOMAIN waiting' = 1 .. Len(waiting) + 1
        /\ \A n \in DOMAIN waiting : waiting'[n] = waiting[n]
        /\ waiting'[Len(waiting) + 1] = r
    BY <1>1, Asked
  <2> QED BY <2>1
<1>3. \A i : Pending(i)' = Pending(i) /\ \A n \in Pending(i) : waiting'[n] = waiting[n]
  BY <1>1, AskedElse
<1>4. \A i, c : Sees(c, i)' = Sees(c, i)
  BY DEF Sees, states
<1>5. RequestsKnown'
  BY <1>2 DEF AlertInv, ToldInv, RequestsKnown, states
<1>6. LastIsTrue'
  BY <1>3 DEF AlertInv, ToldInv, LastIsTrue, states
<1>7. HolderIsTrue'
  <2>1. holder # None => holder.dead \subseteq Clients
    BY DEF AlertInv, QueueTypes
  <2> QED BY <1>3, <1>4, <2>1 DEF AlertInv, ToldInv, HolderIsTrue, states
<1>8. RestIsTold'
  BY <1>3, <1>4 DEF AlertInv, ToldInv, RestIsTold, states
<1>9. ViewsInBox'
  BY <1>4 DEF AlertInv, ToldInv, ViewsInBox, states
<1> QED BY <1>2, <1>5, <1>6, <1>7, <1>8, <1>9

LEMMA ConnectTold ==
    ASSUME AlertInv, NEW c \in Clients, Connect(c)
    PROVE  QueueTypes' /\ ToldInv'
<1> DEFINE r == [do |-> "add", client |-> c]
<1>1. /\ link[c] = "new" /\ link' = [link EXCEPT ![c] = "open"] /\ Ask(r)
      /\ UNCHANGED <<clients, joined, holder, view>> /\ UNCHANGED states
  BY DEF Connect
<1>2. r \in Requests /\ r.do = "add" /\ r.client = c
  BY DEF Requests
<1> HIDE DEF r
<1>3. \A d \in Clients : /\ Here(d)' => Here(d)
                         /\ link[d] = "closed" => link'[d] = "closed"
  BY <1>1 DEF AlertInv, QueueTypes, ToldInv, Membership, Here
<1>4. /\ RequestsKnown' /\ LastIsTrue' /\ HolderIsTrue' /\ RestIsTold' /\ ViewsInBox'
      /\ waiting' \in Seq(Requests) /\ DOMAIN waiting' = DOMAIN waiting \cup {Len(waiting) + 1}
      /\ waiting'[Len(waiting) + 1] = r
      /\ \A n \in DOMAIN waiting : waiting'[n] = waiting[n]
  BY <1>1, <1>2, <1>3, SocketTold
<1>5. link' \in [Clients -> {"new", "open", "closed"}] /\ link'[c] = "open"
      /\ \A d \in Clients : d # c => link'[d] = link[d]
  BY <1>1 DEF AlertInv, QueueTypes
<1>6. QueueTypes'
  BY <1>1, <1>4, <1>5 DEF AlertInv, QueueTypes, states
<1>7. Membership'
  <2>1. ASSUME NEW n \in DOMAIN waiting'
        PROVE  /\ waiting'[n].do = "drop" => link'[waiting'[n].client] = "closed"
               /\ waiting'[n].do = "add" => link'[waiting'[n].client] # "new"
    <3>1. CASE n = Len(waiting) + 1
      BY <1>2, <1>4, <1>5, <3>1
    <3>2. CASE n \in DOMAIN waiting
      <4>1. waiting'[n] = waiting[n] /\ waiting[n] \in Requests
        BY <1>4, <3>2 DEF AlertInv, QueueTypes
      <4>2. waiting[n].do \in {"add", "drop"} => waiting[n].client \in Clients
        BY <4>1 DEF Requests
      <4> QED BY <1>1, <1>5, <3>2, <4>1, <4>2 DEF AlertInv, ToldInv, Membership
    <3> QED BY <1>4, <3>1, <3>2
  <2>2. \A d \in Clients : Here(d)' => d \in clients'
    BY <1>1, <1>3 DEF AlertInv, ToldInv, Membership
  <2> QED BY <1>1, <1>5, <2>1, <2>2 DEF AlertInv, ToldInv, Membership
<1> QED BY <1>4, <1>6, <1>7 DEF ToldInv

LEMMA DisconnectTold ==
    ASSUME AlertInv, NEW c \in Clients, Disconnect(c)
    PROVE  QueueTypes' /\ ToldInv'
<1> DEFINE r == [do |-> "drop", client |-> c]
<1>1. /\ link[c] = "open" /\ link' = [link EXCEPT ![c] = "closed"] /\ Ask(r)
      /\ UNCHANGED <<clients, joined, holder, view>> /\ UNCHANGED states
  BY DEF Disconnect
<1>2. r \in Requests /\ r.do = "drop" /\ r.client = c
  BY DEF Requests
<1> HIDE DEF r
<1>3. link' \in [Clients -> {"new", "open", "closed"}] /\ link'[c] = "closed"
      /\ \A d \in Clients : d # c => link'[d] = link[d]
  BY <1>1 DEF AlertInv, QueueTypes
<1>4. \A d \in Clients : /\ Here(d)' => Here(d)
                         /\ link[d] = "closed" => link'[d] = "closed"
  BY <1>1, <1>3 DEF Here
<1>5. /\ RequestsKnown' /\ LastIsTrue' /\ HolderIsTrue' /\ RestIsTold' /\ ViewsInBox'
      /\ waiting' \in Seq(Requests) /\ DOMAIN waiting' = DOMAIN waiting \cup {Len(waiting) + 1}
      /\ waiting'[Len(waiting) + 1] = r
      /\ \A n \in DOMAIN waiting : waiting'[n] = waiting[n]
  BY <1>1, <1>2, <1>4, SocketTold
<1>6. QueueTypes'
  BY <1>1, <1>3, <1>5 DEF AlertInv, QueueTypes, states
<1>7. Membership'
  <2>1. ASSUME NEW n \in DOMAIN waiting'
        PROVE  /\ waiting'[n].do = "drop" => link'[waiting'[n].client] = "closed"
               /\ waiting'[n].do = "add" => link'[waiting'[n].client] # "new"
    <3>1. CASE n = Len(waiting) + 1
      BY <1>2, <1>3, <1>5, <3>1
    <3>2. CASE n \in DOMAIN waiting
      <4>1. waiting'[n] = waiting[n] /\ waiting[n] \in Requests
        BY <1>5, <3>2 DEF AlertInv, QueueTypes
      <4>2. waiting[n].do \in {"add", "drop"} => waiting[n].client \in Clients
        BY <4>1 DEF Requests
      <4> QED BY <1>1, <1>3, <3>2, <4>1, <4>2 DEF AlertInv, ToldInv, Membership
    <3> QED BY <1>5, <3>1, <3>2
  <2>2. \A d \in Clients : Here(d)' => d \in clients'
    BY <1>1, <1>4 DEF AlertInv, ToldInv, Membership
  <2> QED BY <1>1, <1>3, <2>1, <2>2 DEF AlertInv, ToldInv, Membership
<1> QED BY <1>5, <1>6, <1>7 DEF ToldInv
\* The broadcasts that wait for the lock after the first request was served.
LEMMA ServedElse ==
    ASSUME waiting \in Seq(Requests), Acquire, NEW i
    PROVE  /\ \A n \in Pending(i)' : n \in Nat /\ n + 1 \in Pending(i) /\ waiting'[n] = waiting[n + 1]
           /\ \A n \in Pending(i) : n = 1 \/ (n \in Int /\ n - 1 \in Pending(i)')
<1>1. /\ DOMAIN waiting' \subseteq Nat
      /\ \A n \in Nat : n \in DOMAIN waiting' <=> n + 1 \in DOMAIN waiting /\ n > 0
      /\ \A n \in DOMAIN waiting' : waiting'[n] = waiting[n + 1]
      /\ \A n \in DOMAIN waiting : n = 1 \/ (n - 1 \in DOMAIN waiting' /\ n \in Int)
  BY Served
<1>2. \A n \in Int : (n - 1) + 1 = n
  OBVIOUS
<1> QED BY <1>1, <1>2 DEF Pending

\* What is true of every request that still waits, and of the last one about
\* each alert, stays true when the first is served.
LEMMA ServedTold ==
    ASSUME AlertInv, Acquire
    PROVE  /\ \A n \in DOMAIN waiting' :
                 /\ waiting'[n].do = "broadcast" => waiting'[n].id \in DOMAIN registry
                 /\ waiting'[n].do = "drop" => link[waiting'[n].client] = "closed"
                 /\ waiting'[n].do = "add" => link[waiting'[n].client] # "new"
           /\ LastIsTrue'
<1>1. waiting \in Seq(Requests)
  BY DEF AlertInv, QueueTypes
<1>2. \A n \in DOMAIN waiting' : n + 1 \in DOMAIN waiting /\ waiting'[n] = waiting[n + 1]
  BY <1>1, Served
<1>3. registry' = registry
  BY DEF Acquire, states
<1>4. LastIsTrue'
  <2> SUFFICES ASSUME NEW i \in DOMAIN registry, NEW n \in Pending(i)',
                      \A m \in Pending(i)' : m <= n
               PROVE  waiting'[n].state = registry[i]
    BY <1>3 DEF LastIsTrue
  <2>1. n \in Nat /\ n + 1 \in Pending(i) /\ waiting'[n] = waiting[n + 1]
    BY <1>1, ServedElse
  <2>2. ASSUME NEW m \in Pending(i) PROVE m <= n + 1
    <3>1. m = 1 \/ (m \in Int /\ m - 1 \in Pending(i)')
      BY <1>1, ServedElse
    <3>2. CASE m = 1
      BY <2>1, <3>2
    <3>3. CASE m \in Int /\ m - 1 \in Pending(i)'
      <4>1. m - 1 <= n
        BY <3>3
      <4> QED BY <2>1, <3>3, <4>1
    <3> QED BY <3>1, <3>2, <3>3
  <2> QED BY <2>1, <2>2 DEF AlertInv, ToldInv, LastIsTrue
<1> QED BY <1>2, <1>4 DEF AlertInv, ToldInv, RequestsKnown, Membership

LEMMA AcquireTold ==
    ASSUME AlertInv, Acquire
    PROVE  QueueTypes' /\ ToldInv'
<1> DEFINE r == waiting[1]
<1>1. /\ holder = None /\ UNCHANGED <<now, fired, link, view>> /\ UNCHANGED states
      /\ \/ /\ r.do = "broadcast"
            /\ holder' = [id |-> r.id, state |-> r.state, left |-> {c \in clients : Sees(c, r.id)},
                          dead |-> {}]
            /\ UNCHANGED <<clients, joined>>
         \/ /\ r.do = "add"
            /\ clients' = clients \cup {r.client}
            /\ joined' = [joined EXCEPT ![r.client] = Len(born)]
            /\ UNCHANGED holder
         \/ /\ r.do = "drop"
            /\ clients' = clients \ {r.client}
            /\ UNCHANGED <<joined, holder>>
  BY DEF Acquire, NextWaiter
<1>2. waiting \in Seq(Requests)
  BY DEF AlertInv, QueueTypes
<1>3. 1 \in DOMAIN waiting /\ r \in Requests /\ waiting' \in Seq(Requests)
  BY <1>2, Served
<1>4. LastIsTrue'
  BY ServedTold
<1>5. ViewsInBox'
  BY <1>1 DEF AlertInv, ToldInv, ViewsInBox, Sees, states
<1>6. ASSUME NEW i, Pending(i)' = {}
      PROVE  Pending(i) = {} \/ (Pending(i) = {1} /\ r.do = "broadcast" /\ r.id = i)
  <2>1. \A n \in Pending(i) : n = 1
    BY <1>2, <1>6, ServedElse
  <2>2. 1 \in Pending(i) => r.do = "broadcast" /\ r.id = i
    BY DEF Pending
  <2> QED BY <2>1, <2>2
<1>7. /\ \A n \in DOMAIN waiting' :
            /\ waiting'[n].do = "broadcast" => waiting'[n].id \in DOMAIN registry
            /\ waiting'[n].do = "drop" => link[waiting'[n].client] = "closed"
            /\ waiting'[n].do = "add" => link[waiting'[n].client] # "new"
  BY ServedTold
<1>8. r.do = "broadcast" => r.id \in DOMAIN registry
  BY <1>3 DEF AlertInv, ToldInv, RequestsKnown
<1>9. r.do = "drop" => link[r.client] = "closed"
  BY <1>3 DEF AlertInv, ToldInv, Membership
<1>10. r.do = "add" => link[r.client] # "new"
  BY <1>3 DEF AlertInv, ToldInv, Membership
<1> HIDE DEF r
<1>11. CASE r.do = "broadcast"
  <2>1. /\ holder' = [id |-> r.id, state |-> r.state, left |-> {c \in clients : Sees(c, r.id)},
                          dead |-> {}]
        /\ UNCHANGED <<clients, joined>>
    BY <1>1, <1>11
  <2>2. r.id \in DOMAIN registry /\ r.id \in DOMAIN born /\ r.state \in AlertStates
    BY <1>3, <1>8, <1>11 DEF AlertInv, StoreInv, StoreTypes, Requests
  <2>3. \A c : Here(c)' = Here(c)
    BY <1>1, <2>1 DEF Here
  <2>4. \A c, i : Sees(c, i)' = Sees(c, i)
    BY <1>1 DEF Sees, states
  <2>5. holder' \in [id : DOMAIN born, state : AlertStates, left : SUBSET Clients, dead : SUBSET Clients]
    BY <2>1, <2>2 DEF AlertInv, QueueTypes
  <2>6. holder' # None
    <3>1. r.id \in Nat \ {0}
      BY <2>2 DEF AlertInv, StoreInv, StoreTypes
    <3>2. holder' \in Broadcasting
      BY <2>1, <2>2, <2>5, <3>1 DEF Broadcasting
    <3> QED BY <3>2, NobodyBroadcasts
  <2>7. QueueTypes'
    BY <1>1, <1>3, <2>1, <2>5 DEF AlertInv, QueueTypes, states
  <2>8. RequestsKnown'
    BY <1>1, <1>7, <2>1, <2>2 DEF RequestsKnown, states
  <2>9. Membership'
    BY <1>1, <1>7, <2>1, <2>3 DEF AlertInv, ToldInv, Membership
  <2>10. HolderIsTrue'
    <3> PICK i : i = r.id
      OBVIOUS
    <3>1. ASSUME Pending(i)' = {} PROVE r.state = registry[i]
      <4>1. Pending(i) = {} \/ Pending(i) = {1}
        BY <1>6, <3>1
      <4>2. 1 \in Pending(i)
        BY <1>3, <1>11 DEF Pending, r
      <4>3. \A m \in Pending(i) : m <= 1
        BY <4>1
      <4> QED BY <2>2, <4>2, <4>3 DEF AlertInv, ToldInv, LastIsTrue, r
    <3>2. \A c \in Clients : Here(c) => c \in clients
      BY DEF AlertInv, ToldInv, Membership
    <3>3. /\ holder'.id = i /\ holder'.state = r.state
          /\ holder'.left = {c \in clients : Sees(c, i)}
      BY <2>1
    <3>4. Pending(holder.id)' = Pending(i)'
      BY <3>3 DEF Pending
    <3>5. \A c : Sees(c, holder.id)' <=> Sees(c, i)
      BY <1>1, <3>3 DEF Sees, states
    <3> QED BY <1>1, <2>1, <2>3, <3>1, <3>2, <3>3, <3>4, <3>5 DEF HolderIsTrue, states
  <2>11. RestIsTold'
    <3> SUFFICES ASSUME NEW i \in DOMAIN registry, Pending(i)' = {}, r.id # i, NEW c \in Clients, Here(c)
                 PROVE  /\ (Sees(c, i) /\ i > joined[c]) => i \in DOMAIN view[c]
                        /\ i \in DOMAIN view[c] => view[c][i] = registry[i]
      BY <1>1, <2>1, <2>3, <2>4, <2>6 DEF RestIsTold, states
    <3>1. Pending(i) = {}
      BY <1>6
    <3> QED BY <1>1, <3>1 DEF AlertInv, ToldInv, RestIsTold
  <2> QED BY <1>4, <1>5, <2>7, <2>8, <2>9, <2>10, <2>11 DEF ToldInv
<1>12. CASE r.do = "add"
  <2>1. /\ clients' = clients \cup {r.client} /\ holder' = None
        /\ joined' = [joined EXCEPT ![r.client] = Len(born)]
    BY <1>1, <1>12
  <2>2. r.client \in Clients /\ link[r.client] # "new"
    BY <1>3, <1>10, <1>12 DEF Requests
  <2>3. Len(born) \in Nat /\ Len(born) # None /\ DOMAIN born = 1 .. Len(born)
    BY AlertServiceConstants DEF AlertInv, StoreInv, StoreTypes
  <2>4. /\ joined' \in [Clients -> Nat \cup {None}] /\ joined'[r.client] = Len(born)
        /\ \A c \in Clients : c # r.client => joined'[c] = joined[c]
    BY <2>1, <2>2, <2>3 DEF AlertInv, QueueTypes
  <2>5. QueueTypes'
    BY <1>1, <1>3, <2>1, <2>2, <2>4 DEF AlertInv, QueueTypes, states
  <2>6. RequestsKnown' /\ HolderIsTrue'
    BY <1>1, <1>7, <2>1 DEF RequestsKnown, HolderIsTrue, states
  <2>7. \A c \in Clients : Here(c)' => Here(c) \/ c = r.client
    BY <1>1, <2>4 DEF Here
  <2>8. Membership'
    BY <1>1, <1>7, <2>1, <2>2, <2>3, <2>4, <2>7 DEF AlertInv, ToldInv, Membership
  <2>9. RestIsTold'
    <3> SUFFICES ASSUME NEW i \in DOMAIN registry, Pending(i)' = {}, NEW c \in Clients, Here(c)'
                 PROVE  /\ (Sees(c, i) /\ i > joined'[c]) => i \in DOMAIN view[c]
                        /\ i \in DOMAIN view[c] => view[c][i] = registry[i]
      BY <1>1, <2>1 DEF RestIsTold, Sees, states
    <3>1. Pending(i) = {}
      BY <1>6, <1>12
    <3>2. CASE Here(c)
      <4>1. /\ (Sees(c, i) /\ i > joined[c]) => i \in DOMAIN view[c]
            /\ i \in DOMAIN view[c] => view[c][i] = registry[i]
        BY <1>1, <3>1, <3>2 DEF AlertInv, ToldInv, RestIsTold
      <4>2. i \in DOMAIN born /\ i \in Nat
        BY DEF AlertInv, StoreInv, StoreTypes
      <4> QED BY <2>3, <2>4, <4>1, <4>2
    <3>3. CASE ~Here(c)
      <4>1. c = r.client /\ joined[c] = None
        BY <1>1, <2>7, <3>3 DEF Here
      <4>2. view[c] = <<>> /\ joined'[c] = Len(born)
        BY <2>4, <4>1 DEF AlertInv, ToldInv, Membership
      <4>3. i \in DOMAIN born
        BY DEF AlertInv, StoreInv, StoreTypes
      <4> QED BY <2>3, <4>2, <4>3
    <3> QED BY <3>2, <3>3
  <2> QED BY <1>4, <1>5, <2>5, <2>6, <2>8, <2>9 DEF ToldInv
<1>13. CASE r.do = "drop"
  <2>1. clients' = clients \ {r.client} /\ joined' = joined /\ holder' = None
    BY <1>1, <1>13
  <2>2. \A c : Here(c)' = Here(c)
    BY <1>1, <2>1 DEF Here
  <2>3. QueueTypes'
    BY <1>1, <1>3, <2>1 DEF AlertInv, QueueTypes, states
  <2>4. RequestsKnown' /\ HolderIsTrue'
    BY <1>1, <1>7, <2>1 DEF RequestsKnown, HolderIsTrue, states
  <2>5. ~Here(r.client)
    BY <1>9, <1>13 DEF Here
  <2>6. Membership'
    BY <1>1, <1>7, <2>1, <2>2, <2>5 DEF AlertInv, ToldInv, Membership
  <2>7. RestIsTold'
    <3> SUFFICES ASSUME NEW i \in DOMAIN registry, Pending(i)' = {}, NEW c \in Clients, Here(c)
                 PROVE  /\ (Sees(c, i) /\ i > joined[c]) => i \in DOMAIN view[c]
                        /\ i \in DOMAIN view[c] => view[c][i] = registry[i]
      BY <1>1, <2>1, <2>2 DEF RestIsTold, Sees, states
    <3>1. Pending(i) = {}
      BY <1>6, <1>13
    <3> QED BY <1>1, <3>1 DEF AlertInv, ToldInv, RestIsTold
  <2> QED BY <1>4, <1>5, <2>3, <2>4, <2>6, <2>7 DEF ToldInv
<1> QED BY <1>1, <1>11, <1>12, <1>13
LEMMA SendTold ==
    ASSUME AlertInv, NEW c \in Clients, Send(c)
    PROVE  QueueTypes' /\ ToldInv'
<1> PICK i : i = holder.id
  OBVIOUS
<1>1. /\ holder # None /\ c \in holder.left
      /\ holder' = [holder EXCEPT !.left = @ \ {c},
                                  !.dead = IF link[c] = "open" THEN @ ELSE @ \cup {c}]
      /\ view' = IF link[c] = "open"
                 THEN [view EXCEPT ![c] = [a \in DOMAIN view[c] \cup {i} |->
                                             IF a = i THEN holder.state ELSE view[c][a]]]
                 ELSE view
      /\ UNCHANGED <<now, fired, waiting>> /\ UNCHANGED states /\ UNCHANGED sockets
  BY DEF Send
<1>2. /\ holder \in [id : DOMAIN born, state : AlertStates, left : SUBSET Clients, dead : SUBSET Clients]
      /\ i \in DOMAIN registry /\ i \in DOMAIN born /\ DOMAIN registry \subseteq DOMAIN born
  BY <1>1 DEF AlertInv, QueueTypes, ToldInv, RequestsKnown, StoreInv, StoreTypes
<1>3. /\ holder' \in [id : DOMAIN born, state : AlertStates, left : SUBSET Clients, dead : SUBSET Clients]
      /\ holder'.id = i /\ holder'.state = holder.state /\ holder'.left = holder.left \ {c}
      /\ holder'.dead = IF link[c] = "open" THEN holder.dead ELSE holder.dead \cup {c}
  BY <1>1, <1>2
<1>4. holder' # None
  <2>1. DOMAIN born \subseteq Nat \ {0}
    BY DEF AlertInv, StoreInv, StoreTypes
  <2>2. holder' \in Broadcasting
    BY <1>3, <2>1 DEF Broadcasting
  <2> QED BY <2>2, NobodyBroadcasts
<1>5. \A d : Here(d)' = Here(d)
  BY <1>1 DEF Here, sockets
<1>6. /\ \A a : Pending(a)' = Pending(a)
      /\ \A d, a : Sees(d, a)' = Sees(d, a)
  BY <1>1 DEF Pending, Sees, states
<1>7. /\ view' \in [Clients -> UNION {[D -> AlertStates] : D \in SUBSET DOMAIN born}]
      /\ \A d \in Clients : d # c => view'[d] = view[d]
      /\ ~Here(c) => link[c] # "open" \/ joined[c] = None
      /\ link[c] = "open" => /\ DOMAIN view'[c] = DOMAIN view[c] \cup {i}
                             /\ view'[c][i] = holder.state
                             /\ \A a \in DOMAIN view[c] : a # i => view'[c][a] = view[c][a]
      /\ link[c] # "open" => view' = view
  <2>1. view \in [Clients -> UNION {[D -> AlertStates] : D \in SUBSET DOMAIN born}]
    BY DEF AlertInv, QueueTypes
  <2>2. PICK D \in SUBSET DOMAIN born : view[c] \in [D -> AlertStates]
    BY <2>1
  <2> DEFINE new == [a \in DOMAIN view[c] \cup {i} |-> IF a = i THEN holder.state ELSE view[c][a]]
  <2>3. new \in [D \cup {i} -> AlertStates]
    BY <1>2, <2>2
  <2>4. D \cup {i} \in SUBSET DOMAIN born
    BY <1>2
  <2>5. new \in UNION {[E -> AlertStates] : E \in SUBSET DOMAIN born}
    <3> HIDE DEF new
    <3> QED BY <2>3, <2>4
  <2>6. /\ DOMAIN new = DOMAIN view[c] \cup {i} /\ new[i] = holder.state
        /\ \A a \in DOMAIN view[c] : a # i => new[a] = view[c][a]
    OBVIOUS
  <2>7. view' = IF link[c] = "open" THEN [view EXCEPT ![c] = new] ELSE view
    BY <1>1
  <2> HIDE DEF new
  <2> QED BY <2>1, <2>5, <2>6, <2>7 DEF Here
<1>8. c \in clients /\ joined[c] # None /\ Sees(c, i)
  BY <1>1 DEF AlertInv, ToldInv, Membership, HolderIsTrue
<1>9. QueueTypes'
  BY <1>1, <1>3, <1>7 DEF AlertInv, QueueTypes, states, sockets
<1>10. RequestsKnown' /\ LastIsTrue'
  BY <1>1, <1>2, <1>3, <1>6 DEF AlertInv, ToldInv, RequestsKnown, LastIsTrue, states
<1>11. Membership'
  BY <1>1, <1>5, <1>7, <1>8 DEF AlertInv, ToldInv, Membership, sockets
<1>12. ViewsInBox'
  <2> SUFFICES ASSUME NEW d \in Clients, NEW a \in DOMAIN view'[d]
               PROVE  a \in DOMAIN born /\ Sees(d, a)
    BY <1>1, <1>6 DEF ViewsInBox, states
  <2>1. a \in DOMAIN view[d] \/ (d = c /\ a = i)
    BY <1>7
  <2> QED BY <1>2, <1>8, <2>1 DEF AlertInv, ToldInv, ViewsInBox
<1>13. HolderIsTrue'
  <2>1. Pending(holder.id)' = Pending(i)
    BY <1>1, <1>3 DEF Pending
  <2>2. \A d : Sees(d, holder.id)' = Sees(d, i)
    BY <1>1, <1>3 DEF Sees, states
  <2>3. Pending(i) = {} => holder.state = registry[i]
    BY <1>1 DEF AlertInv, ToldInv, HolderIsTrue
  <2>4. holder.left \subseteq clients /\ \A d \in holder.left : Sees(d, i)
    BY <1>1 DEF AlertInv, ToldInv, HolderIsTrue
  <2>5. \A d \in holder'.dead : link[d] = "closed"
    <3>1. \A d \in holder.dead : link[d] = "closed"
      BY <1>1 DEF AlertInv, ToldInv, HolderIsTrue
    <3>2. link[c] # "open" => link[c] = "closed"
      BY <1>1, <1>8 DEF AlertInv, ToldInv, Membership, QueueTypes
    <3> QED BY <1>3, <3>1, <3>2
  <2>6. ASSUME NEW d \in Clients, Here(d), Sees(d, i), d \notin holder'.left
        PROVE  i \in DOMAIN view'[d] /\ view'[d][i] = holder.state
    <3>1. CASE d = c
      BY <1>7, <2>6, <3>1 DEF Here
    <3>2. CASE d # c
      <4>1. i \in DOMAIN view[d] /\ view[d][i] = holder.state
        BY <1>1, <1>3, <2>6, <3>2 DEF AlertInv, ToldInv, HolderIsTrue
      <4> QED BY <1>7, <3>2, <4>1
    <3> QED BY <3>1, <3>2
  <2> QED BY <1>1, <1>3, <1>5, <2>1, <2>2, <2>3, <2>4, <2>5, <2>6 DEF HolderIsTrue, states, sockets
<1>14. RestIsTold'
  <2> SUFFICES ASSUME NEW a \in DOMAIN registry, Pending(a) = {}, a # i, NEW d \in Clients, Here(d)
               PROVE  /\ (Sees(d, a) /\ a > joined[d]) => a \in DOMAIN view'[d]
                      /\ a \in DOMAIN view'[d] => view'[d][a] = registry[a]
    BY <1>1, <1>3, <1>4, <1>5, <1>6 DEF RestIsTold, states, sockets
  <2>1. /\ (Sees(d, a) /\ a > joined[d]) => a \in DOMAIN view[d]
        /\ a \in DOMAIN view[d] => view[d][a] = registry[a]
    BY DEF AlertInv, ToldInv, RestIsTold
  <2>2. /\ a \in DOMAIN view'[d] <=> a \in DOMAIN view[d]
        /\ a \in DOMAIN view[d] => view'[d][a] = view[d][a]
    BY <1>7
  <2> QED BY <2>1, <2>2
<1> QED BY <1>9, <1>10, <1>11, <1>12, <1>13, <1>14 DEF ToldInv

LEMMA ReleaseTold ==
    ASSUME AlertInv, Release
    PROVE  QueueTypes' /\ ToldInv'
<1> PICK i : i = holder.id
  OBVIOUS
<1>1. /\ holder # None /\ holder.left = {} /\ holder' = None
      /\ clients' = clients \ holder.dead
      /\ \A c \in holder.dead : link[c] = "closed"
      /\ UNCHANGED <<now, fired, link, joined, waiting, view>> /\ UNCHANGED states
  BY DEF Release, AlertInv, ToldInv, HolderIsTrue
<1>2. /\ \A d : Here(d)' = Here(d)
      /\ \A a : Pending(a)' = Pending(a)
      /\ \A d, a : Sees(d, a)' = Sees(d, a)
  BY <1>1 DEF Here, Pending, Sees, states
<1>3. QueueTypes' /\ RequestsKnown' /\ LastIsTrue' /\ HolderIsTrue' /\ ViewsInBox'
  <2>1. QueueTypes'
    BY <1>1 DEF AlertInv, QueueTypes, states
  <2>2. RequestsKnown' /\ LastIsTrue' /\ HolderIsTrue'
    BY <1>1, <1>2 DEF AlertInv, ToldInv, RequestsKnown, LastIsTrue, HolderIsTrue, states
  <2>3. ViewsInBox'
    BY <1>1, <1>2 DEF AlertInv, ToldInv, ViewsInBox, states
  <2> QED BY <2>1, <2>2, <2>3
<1>4. Membership'
  BY <1>1, <1>2 DEF AlertInv, ToldInv, Membership, Here
<1>5. RestIsTold'
  <2> SUFFICES ASSUME NEW a \in DOMAIN registry, Pending(a) = {}, NEW d \in Clients, Here(d)
               PROVE  /\ (Sees(d, a) /\ a > joined[d]) => a \in DOMAIN view[d]
                      /\ a \in DOMAIN view[d] => view[d][a] = registry[a]
    BY <1>1, <1>2 DEF RestIsTold, states
  <2>1. CASE a # i
    BY <2>1 DEF AlertInv, ToldInv, RestIsTold
  <2>2. CASE a = i
    <3>1. holder.state = registry[a]
      BY <1>1, <2>2 DEF AlertInv, ToldInv, HolderIsTrue
    <3>2. Sees(d, a) => a \in DOMAIN view[d] /\ view[d][a] = holder.state
      BY <1>1, <2>2 DEF AlertInv, ToldInv, HolderIsTrue
    <3>3. a \in DOMAIN view[d] => Sees(d, a)
      BY DEF AlertInv, ToldInv, ViewsInBox
    <3> QED BY <3>1, <3>2, <3>3
  <2> QED BY <2>1, <2>2
<1> QED BY <1>3, <1>4, <1>5 DEF ToldInv

LEMMA AlertInitInv == Init => AlertInv
<1> SUFFICES ASSUME Init PROVE QueueTypes /\ ToldInv
  BY StoreInitInv DEF AlertInv
<1>1. \A S : <<>> \in Seq(S) /\ DOMAIN <<>> = {} /\ <<>> \in [{} -> S]
  OBVIOUS
<1>2. QueueTypes
  <2>1. <<>> \in UNION {[D -> AlertStates] : D \in SUBSET DOMAIN born}
    BY <1>1
  <2> QED BY <1>1, <2>1 DEF Init, QueueTypes
<1>3. ToldInv
  BY <1>1 DEF Init, ToldInv, RequestsKnown, Membership, LastIsTrue, HolderIsTrue, RestIsTold,
              ViewsInBox, Pending, Here
<1> QED BY <1>2, <1>3

LEMMA AlertNextInv == AlertInv /\ [Next]_vars => AlertInv'
<1> SUFFICES ASSUME AlertInv, [Next]_vars PROVE QueueTypes' /\ ToldInv'
  BY StoreNextInv DEF AlertInv
<1>1. ASSUME NEW k \in Keys, CreateSuppressed(k) PROVE QueueTypes' /\ ToldInv'
  <2>1. DOMAIN born \subseteq DOMAIN born' /\ \A i \in DOMAIN born : born'[i] = born[i]
    <3>1. /\ Len(born) \in Nat /\ DOMAIN born = 1 .. Len(born) /\ DOMAIN born' = 1 .. Len(born) + 1
          /\ \A i \in DOMAIN born : born'[i] = born[i]
      BY <1>1, BornGrows DEF CreateSuppressed, AlertInv, StoreInv
    <3> QED BY <3>1
  <2> QED BY <1>1, <2>1, QuietTold DEF CreateSuppressed
<1>2. ASSUME NEW k \in Keys, CreateActive(k) PROVE QueueTypes' /\ ToldInv'
  BY <1>2, CreateActiveTold
<1>3. ASSUME NEW id \in DOMAIN born, NEW state \in AlertStates, Patch(id, state)
      PROVE  QueueTypes' /\ ToldInv'
  BY <1>3, PatchTold
<1>4. ASSUME NEW c \in Clients, Connect(c) \/ Disconnect(c) \/ Send(c)
      PROVE  QueueTypes' /\ ToldInv'
  BY <1>4, ConnectTold, DisconnectTold, SendTold
<1>5. CASE Acquire
  BY <1>5, AcquireTold
<1>6. CASE Release
  BY <1>6, ReleaseTold
<1>7. CASE Tick
  BY <1>7, QuietTold DEF Tick, states
<1>8. CASE UNCHANGED vars
  BY <1>8, QuietTold DEF vars, sockets
<1> QED BY <1>1, <1>2, <1>3, <1>4, <1>5, <1>6, <1>7, <1>8 DEF Next

\* The registries, the connections and what they were told stay of their
\* types: no broadcast is of an alert that does not exist.
THEOREM AlertTypeCorrect == Spec => []TypeOK
<1>1. AlertInv => TypeOK
  BY DEF AlertInv, StoreInv, StoreTypes, QueueTypes, TypeOK
<1> QED BY <1>1, AlertInitInv, AlertNextInv, PTL DEF Spec

\* When nobody waits for the lock and nobody holds it, every connection knows
\* the present state of every alert it was to be told of, whatever requests
\* changed alerts while others were being told: the lock that serves its
\* waiters in turn is enough.
THEOREM ClientsAgree == Spec => []ClientsAgreeInTurn
<1>1. AlertInv => ClientsAgreeInTurn
  <2> SUFFICES ASSUME AlertInv, waiting = <<>>, holder = None,
                      NEW c \in Clients, link[c] = "open", joined[c] # None, NEW i \in DOMAIN registry
               PROVE  /\ (Sees(c, i) /\ i > joined[c]) => i \in DOMAIN view[c]
                      /\ i \in DOMAIN view[c] => view[c][i] = registry[i]
    BY DEF ClientsAgreeInTurn
  <2>1. Pending(i) = {}
    BY DEF Pending
  <2> QED BY <2>1 DEF AlertInv, ToldInv, RestIsTold, Here
<1> QED BY <1>1, AlertInitInv, AlertNextInv, PTL DEF Spec

-----------------------------------------------------------------------------
(* The trust pipeline.                                                      *)

Remembering ==
    \A m \in Messages : accepted[m] > 0 =>
        \/ Key(m) \in DOMAIN cache /\ cache[Key(m)].until >= m.expires + ExtraRetention
        \/ mono >= m.expires + ExtraRetention

Owed ==
    \A s \in Senders :
        IF s \in DOMAIN buckets
        THEN /\ buckets[s].tokens <= buckets[s].capacity
             /\ \A i \in 1 .. Len(passed[s]) :
                  /\ passed[s][i] <= mono
                  /\ Len(passed[s]) - i + 1 + buckets[s].tokens
                       <= buckets[s].capacity + buckets[s].rate * (mono - passed[s][i])
        ELSE passed[s] = <<>>

ReplayInv == TrustTypeOK /\ Remembering /\ NeverAcceptedTwice

-----------------------------------------------------------------------------
\* What there is to know of one message.
LEMMA MessageTypes ==
    ASSUME NEW m \in Messages
    PROVE  /\ m.sender \in Senders /\ m.nonce \in Nonces /\ m.hash \in Nat
           /\ m.issued \in Int /\ m.expires \in Int
           /\ m.report \in Reports \cup {Nothing}
           /\ Key(m) \in Senders \X Nonces
BY TrustConstants DEF SignedMessages, Key

\* A level of trust has a bucket.
LEMMA StandingIsLevel ==
    ASSUME TrustTypeOK, NEW m \in Messages
    PROVE  Standing(m) \in Levels
<1>1. credentials[m.sender] \in Credentials \cup {Nothing}
  BY MessageTypes DEF TrustTypeOK
<1>2. Identity(m.sender) \in Levels
  BY <1>1 DEF Identity, Valid, Credentials, Levels
<1> QED BY <1>2 DEF Standing, Levels

LEMMA BucketTypes ==
    ASSUME TrustTypeOK, NEW m \in Messages
    PROVE  Bucket(m) \in Buckets
<1>1. CASE m.sender \in DOMAIN buckets
  BY <1>1 DEF Bucket, TrustTypeOK
<1>2. CASE m.sender \notin DOMAIN buckets
  BY <1>2, StandingIsLevel, TrustConstants DEF Bucket, NewBucket, Buckets
<1> QED BY <1>1, <1>2

\* Cleaning keeps the types and drops what has reached its deadline.
LEMMA CleanedTypes ==
    ASSUME TrustTypeOK
    PROVE  /\ DOMAIN Cleaned \subseteq DOMAIN cache
           /\ \A k \in DOMAIN Cleaned : Cleaned[k] = cache[k]
           /\ \A k \in DOMAIN cache \ DOMAIN Cleaned : cache[k].until <= mono
           /\ Cleaned \in [DOMAIN Cleaned -> [hash : Nat, until : Int]]
           /\ CleanedAt \in Nat
<1>1. \A k \in DOMAIN cache : cache[k] \in [hash : Nat, until : Int] /\ cache[k].until \in Int
  BY DEF TrustTypeOK
<1>2. mono \in Nat /\ cleaned \in Nat
  BY DEF TrustTypeOK
<1>3. CASE mono - cleaned < CleanupInterval
  BY <1>1, <1>2, <1>3 DEF Cleaned, CleanedAt, TrustTypeOK
<1>4. CASE ~(mono - cleaned < CleanupInterval)
  <2> DEFINE kept == {k \in DOMAIN cache : cache[k].until > mono}
  <2>1. Cleaned = [k \in kept |-> cache[k]] /\ CleanedAt = mono
    BY <1>4 DEF Cleaned, CleanedAt, Restrict
  <2> QED BY <1>1, <1>2, <2>1
<1> QED BY <1>3, <1>4

-----------------------------------------------------------------------------
\* Init establishes the types and both arguments.
LEMMA TrustInitInv == TrustInit => ReplayInv
BY TrustConstants
   DEF TrustInit, ReplayInv, TrustTypeOK, Remembering, NeverAcceptedTwice, Buckets

\* An accepted message is remembered, and was not accepted before.
LEMMA AcceptKeepsReplayInv ==
    ASSUME ReplayInv, NEW m \in Messages, AcceptNonce(m)
    PROVE  /\ cache' \in [DOMAIN cache' -> [hash : Nat, until : Int]]
           /\ DOMAIN cache' \subseteq Senders \X Nonces
           /\ cleaned' \in Nat
           /\ accepted' \in [Messages -> Nat]
           /\ Remembering' /\ NeverAcceptedTwice'
<1> DEFINE entry == [hash |-> m.hash, until |-> mono + m.expires - Wall + ExtraRetention]
<1>1. /\ mono \in Nat /\ back \in Nat /\ back <= MaxBack /\ accepted \in [Messages -> Nat]
      /\ ExtraRetention \in Nat /\ MaxBack \in Nat /\ DOMAIN cache \subseteq Senders \X Nonces
  BY TrustConstants DEF ReplayInv, TrustTypeOK
<1>2. entry.until = m.expires + back + ExtraRetention /\ entry \in [hash : Nat, until : Int]
  BY <1>1, MessageTypes DEF Wall
<1>3. /\ DOMAIN cache' = DOMAIN Cleaned \cup {Key(m)}
      /\ cache'[Key(m)] = entry
      /\ \A k \in DOMAIN Cleaned : k # Key(m) => cache'[k] = Cleaned[k]
      /\ cache' = [k \in DOMAIN cache' |-> cache'[k]]
  BY DEF AcceptNonce, Remembered
<1> HIDE DEF entry
<1>4. cache' \in [DOMAIN cache' -> [hash : Nat, until : Int]]
  <2>1. \A k \in DOMAIN cache' : cache'[k] \in [hash : Nat, until : Int]
    BY <1>2, <1>3, CleanedTypes DEF ReplayInv
  <2> QED BY <1>3, <2>1
<1>5. /\ DOMAIN cache' \subseteq Senders \X Nonces /\ cleaned' \in Nat
      /\ accepted' \in [Messages -> Nat] /\ mono' = mono
  BY <1>1, <1>3, CleanedTypes, MessageTypes DEF AcceptNonce, ReplayInv
<1>6. Remembering'
  <2> SUFFICES ASSUME NEW n \in Messages, accepted'[n] > 0
               PROVE  \/ Key(n) \in DOMAIN cache' /\ cache'[Key(n)].until >= n.expires + ExtraRetention
                      \/ mono' >= n.expires + ExtraRetention
    BY DEF Remembering
  <2>1. CASE n = m
    BY <1>1, <1>2, <1>3, <2>1, MessageTypes
  <2>2. CASE n # m
    <3>1. accepted[n] > 0
      BY <1>1, <2>2 DEF AcceptNonce
    <3>2. CASE mono >= n.expires + ExtraRetention
      BY <1>5, <3>2
    <3>3. CASE Key(n) \in DOMAIN cache /\ cache[Key(n)].until >= n.expires + ExtraRetention
      <4>1. CASE Key(n) \in DOMAIN Cleaned
        <5>1. Key(n) # Key(m)
          BY <4>1 DEF AcceptNonce
        <5> QED BY <1>3, <3>3, <4>1, <5>1, CleanedTypes DEF ReplayInv
      <4>2. CASE Key(n) \notin DOMAIN Cleaned
        <5>1. cache[Key(n)].until <= mono /\ cache[Key(n)].until \in Int
          BY <3>3, <4>2, CleanedTypes DEF ReplayInv, TrustTypeOK
        <5> QED BY <1>1, <1>5, <3>3, <5>1, MessageTypes
      <4> QED BY <4>1, <4>2
    <3> QED BY <3>1, <3>2, <3>3 DEF ReplayInv, Remembering
  <2> QED BY <2>1, <2>2
<1>7. NeverAcceptedTwice'
  <2> SUFFICES ASSUME MaxBack <= ExtraRetention, NEW n \in Messages
               PROVE  accepted'[n] <= 1
    BY DEF NeverAcceptedTwice
  <2>1. CASE n # m
    BY <1>1, <2>1 DEF AcceptNonce, ReplayInv, NeverAcceptedTwice
  <2>2. CASE n = m
    <3>1. accepted[m] = 0
      <4> SUFFICES ASSUME accepted[m] > 0 PROVE FALSE
        BY <1>1
      <4>1. mono >= m.expires + ExtraRetention
        <5>1. CASE Key(m) \in DOMAIN cache /\ cache[Key(m)].until >= m.expires + ExtraRetention
          <6>1. Key(m) \notin DOMAIN Cleaned
            BY DEF AcceptNonce
          <6>2. cache[Key(m)].until <= mono /\ cache[Key(m)].until \in Int
            BY <5>1, <6>1, CleanedTypes DEF ReplayInv, TrustTypeOK
          <6> QED BY <1>1, <5>1, <6>2, MessageTypes
        <5> QED BY <5>1 DEF ReplayInv, Remembering
      <4>2. m.expires > mono - back
        BY DEF AcceptNonce, Timely, Wall
      <4> QED BY <1>1, <4>1, <4>2, MessageTypes
    <3> QED BY <1>1, <2>2, <3>1 DEF AcceptNonce
  <2> QED BY <2>1, <2>2
<1> QED BY <1>4, <1>5, <1>6, <1>7

\* The rate limiter's and the checker's part of an accepted message keep types.
LEMMA LimiterTypes ==
    ASSUME TrustTypeOK, NEW m \in Messages, NEW b \in Buckets
    PROVE  /\ WithBucket(m.sender, b) \in [DOMAIN WithBucket(m.sender, b) -> Buckets]
           /\ DOMAIN WithBucket(m.sender, b) = DOMAIN buckets \cup {m.sender}
           /\ DOMAIN WithBucket(m.sender, b) \subseteq Senders
           /\ WithBucket(m.sender, b)[m.sender] = b
           /\ \A t \in DOMAIN buckets : t # m.sender => WithBucket(m.sender, b)[t] = buckets[t]
BY MessageTypes DEF WithBucket, TrustTypeOK

LEMMA MovedTypes ==
    ASSUME TrustTypeOK, NEW r \in Reports
    PROVE  Moved(r) \in [Actors -> Snapshots \cup {Nothing}]
BY DEF Moved, TrustTypeOK, Reports, Snapshots

\* What is left of a bucket that lets a message through.
LEMMA Spent ==
    ASSUME NEW b \in Buckets, b.tokens > 0
    PROVE  LET spent == [b EXCEPT !.tokens = @ - 1]
           IN  /\ spent \in Buckets
               /\ spent.tokens = b.tokens - 1
               /\ spent.capacity = b.capacity
               /\ spent.rate = b.rate
BY DEF Buckets

LEMMA RefilledTypes ==
    ASSUME NEW b \in Buckets
    PROVE  /\ Refilled(b) \in Buckets
           /\ Refilled(b).capacity = b.capacity
           /\ Refilled(b).rate = b.rate
           /\ Refilled(b).tokens <= b.capacity
           /\ Refilled(b).tokens <= b.tokens + b.rate
<1>1. b.tokens \in Nat /\ b.capacity \in Nat /\ b.rate \in Nat
  BY DEF Buckets
<1>2. Lesser(b.capacity, b.tokens + b.rate) \in Nat
  BY <1>1 DEF Lesser
<1>3. /\ Refilled(b) \in Buckets
      /\ Refilled(b).tokens = Lesser(b.capacity, b.tokens + b.rate)
      /\ Refilled(b).capacity = b.capacity /\ Refilled(b).rate = b.rate
  BY <1>2 DEF Refilled, Buckets
<1> QED BY <1>1, <1>3 DEF Lesser

\* Each way a message ends keeps what the replay argument needs.
LEMMA AcceptInv ==
    ASSUME ReplayInv, NEW m \in Messages, AcceptNonce(m),
           buckets' \in [DOMAIN buckets' -> Buckets], DOMAIN buckets' \subseteq Senders,
           global' \in 0 .. GlobalBurst,
           rejections' \in [Senders -> Nat],
           motion' \in [Actors -> Snapshots \cup {Nothing}],
           passed' \in [Senders -> Seq(Nat)]
    PROVE  ReplayInv'
<1>1. /\ cache' \in [DOMAIN cache' -> [hash : Nat, until : Int]]
      /\ DOMAIN cache' \subseteq Senders \X Nonces
      /\ cleaned' \in Nat
      /\ accepted' \in [Messages -> Nat]
      /\ Remembering' /\ NeverAcceptedTwice'
  BY AcceptKeepsReplayInv
<1>2. mono' = mono /\ back' = back /\ credentials' = credentials
  BY DEF AcceptNonce
<1> QED BY <1>1, <1>2 DEF ReplayInv, TrustTypeOK

LEMMA ValidateInv ==
    ASSUME ReplayInv, NEW m \in Messages, Validate(m)
    PROVE  ReplayInv'
<1>1. /\ TrustTypeOK /\ m.sender \in Senders /\ Bucket(m) \in Buckets
      /\ rejections \in [Senders -> Nat] /\ global \in 0 .. GlobalBurst
      /\ passed \in [Senders -> Seq(Nat)] /\ mono \in Nat /\ GlobalBurst \in Nat
      /\ motion \in [Actors -> Snapshots \cup {Nothing}]
      /\ buckets \in [DOMAIN buckets -> Buckets] /\ DOMAIN buckets \subseteq Senders
  BY BucketTypes, MessageTypes, TrustConstants DEF ReplayInv, TrustTypeOK
<1>2. [rejections EXCEPT ![m.sender] = @ + 1] \in [Senders -> Nat]
  BY <1>1
<1>3. CASE RejectReplay(m)
  <2>1. /\ DOMAIN cache' \subseteq DOMAIN cache
        /\ \A k \in DOMAIN cache' : cache'[k] = cache[k]
        /\ \A k \in DOMAIN cache \ DOMAIN cache' : cache[k].until <= mono
        /\ cache' \in [DOMAIN cache' -> [hash : Nat, until : Int]]
        /\ cleaned' \in Nat
    BY <1>1, <1>3, CleanedTypes DEF RejectReplay
  <2>2. Remembering'
    <3> SUFFICES ASSUME NEW n \in Messages, accepted'[n] > 0
                 PROVE  \/ Key(n) \in DOMAIN cache' /\ cache'[Key(n)].until >= n.expires + ExtraRetention
                        \/ mono' >= n.expires + ExtraRetention
      BY DEF Remembering
    <3>1. accepted[n] > 0 /\ mono' = mono
      BY <1>3 DEF RejectReplay
    <3>2. CASE Key(n) \in DOMAIN cache' \/ Key(n) \notin DOMAIN cache
      BY <2>1, <3>1, <3>2 DEF ReplayInv, Remembering
    <3>3. CASE Key(n) \in DOMAIN cache \ DOMAIN cache'
      <4>1. cache[Key(n)].until <= mono /\ cache[Key(n)].until \in Int
        BY <1>1, <2>1, <3>3 DEF TrustTypeOK
      <4>2. n.expires \in Int /\ ExtraRetention \in Nat
        BY MessageTypes, TrustConstants
      <4>3. cache[Key(n)].until >= n.expires + ExtraRetention \/ mono >= n.expires + ExtraRetention
        BY <3>1 DEF ReplayInv, Remembering
      <4> QED BY <1>1, <3>1, <4>1, <4>2, <4>3
    <3> QED BY <3>2, <3>3
  <2> QED BY <1>3, <2>1, <2>2 DEF RejectReplay, ReplayInv, TrustTypeOK, NeverAcceptedTwice
<1>4. CASE LimitedGlobally(m)
  BY <1>1, <1>2, <1>4, AcceptInv DEF LimitedGlobally
<1>5. CASE LimitedBySender(m)
  <2>1. global' \in 0 .. GlobalBurst
    BY <1>1, <1>5 DEF LimitedBySender
  <2> QED BY <1>1, <1>2, <1>5, <2>1, LimiterTypes, AcceptInv DEF LimitedBySender
<1>6. CASE Admit(m)
  <2>1. global' \in 0 .. GlobalBurst
    BY <1>1, <1>6 DEF Admit
  <2>2. buckets' \in [DOMAIN buckets' -> Buckets] /\ DOMAIN buckets' \subseteq Senders
    <3> DEFINE spent == [Bucket(m) EXCEPT !.tokens = @ - 1]
    <3>1. Bucket(m).tokens > 0 /\ buckets' = WithBucket(m.sender, spent)
      BY <1>6 DEF Admit
    <3>2. spent \in Buckets
      BY <1>1, <3>1, Spent
    <3> HIDE DEF spent
    <3> QED BY <1>1, <3>1, <3>2, LimiterTypes
  <2>3. motion' \in [Actors -> Snapshots \cup {Nothing}]
    BY <1>1, <1>6, MessageTypes, MovedTypes DEF Admit
  <2>4. passed' \in [Senders -> Seq(Nat)]
    <3>1. Append(passed[m.sender], mono) \in Seq(Nat)
      BY <1>1
    <3> QED BY <1>1, <1>6, <3>1 DEF Admit
  <2>5. rejections' = rejections /\ AcceptNonce(m)
    BY <1>6 DEF Admit
  <2> QED BY <1>1, <2>1, <2>2, <2>3, <2>4, <2>5, AcceptInv
<1> QED BY <1>3, <1>4, <1>5, <1>6 DEF Validate

LEMMA TrustNextInv == ReplayInv /\ [TrustNext]_trust => ReplayInv'
<1> SUFFICES ASSUME ReplayInv, [TrustNext]_trust PROVE ReplayInv'
  OBVIOUS
<1>1. ASSUME NEW m \in Messages, Validate(m) PROVE ReplayInv'
  BY <1>1, ValidateInv
<1>2. ASSUME NEW s \in Senders, NEW record \in Grants, Register(s, record) PROVE ReplayInv'
  <2>1. credentials' \in [Senders -> Credentials \cup {Nothing}]
    BY <1>2, TrustConstants DEF Register, ReplayInv, TrustTypeOK
  <2> QED BY <1>2, <2>1 DEF Register, ReplayInv, TrustTypeOK, Remembering, NeverAcceptedTwice
<1>3. CASE Elapse
  <2>1. /\ mono \in Nat /\ mono' = mono + 1 /\ cache' = cache /\ accepted' = accepted
        /\ global \in 0 .. GlobalBurst /\ GlobalBurst \in Nat /\ GlobalRate \in Nat
        /\ ExtraRetention \in Nat
    BY <1>3, TrustConstants DEF Elapse, ReplayInv, TrustTypeOK
  <2>2. global' \in 0 .. GlobalBurst
    BY <1>3, <2>1 DEF Elapse, Lesser
  <2>3. buckets' \in [DOMAIN buckets' -> Buckets] /\ DOMAIN buckets' \subseteq Senders
    BY <1>3, RefilledTypes DEF Elapse, ReplayInv, TrustTypeOK
  <2>4. Remembering'
    BY <2>1, MessageTypes DEF ReplayInv, Remembering
  <2> QED BY <1>3, <2>1, <2>2, <2>3, <2>4 DEF Elapse, ReplayInv, TrustTypeOK, NeverAcceptedTwice
<1>4. CASE SetBack
  <2>1. back' \in 0 .. MaxBack
    BY <1>4, TrustConstants DEF SetBack, ReplayInv, TrustTypeOK
  <2> QED BY <1>4, <2>1 DEF SetBack, ReplayInv, TrustTypeOK, Remembering, NeverAcceptedTwice
<1>5. CASE UNCHANGED trust
  BY <1>5 DEF trust, ReplayInv, TrustTypeOK, Remembering, NeverAcceptedTwice
<1> QED BY <1>1, <1>2, <1>3, <1>4, <1>5 DEF TrustNext

\* The pipeline's memories keep their types.
THEOREM TrustTypeCorrect == TrustSpec => []TrustTypeOK
<1>1. ReplayInv => TrustTypeOK
  BY DEF ReplayInv
<1> QED BY <1>1, TrustInitInv, TrustNextInv, PTL DEF TrustSpec

\* No message passes the replay stage of the pipeline twice, for any wall
\* clock that is set back by no more than the extra retention.
THEOREM NoReplayPasses == TrustSpec => []NeverAcceptedTwice
<1>1. ReplayInv => NeverAcceptedTwice
  BY DEF ReplayInv
<1> QED BY <1>1, TrustInitInv, TrustNextInv, PTL DEF TrustSpec

-----------------------------------------------------------------------------
\* What the limiter accounts of one sender: each admission with all since.
Account(s) ==
    /\ buckets[s].tokens <= buckets[s].capacity
    /\ \A i \in 1 .. Len(passed[s]) :
         /\ passed[s][i] <= mono
         /\ Len(passed[s]) - i + 1 + buckets[s].tokens
              <= buckets[s].capacity + buckets[s].rate * (mono - passed[s][i])

\* What a rate brings in a while is a number; stated once, so that no step
\* about accounts reasons about a product.
LEMMA ProductIsInt ==
    ASSUME NEW rate \in Nat, NEW while \in Int
    PROVE  rate * while \in Int
OBVIOUS

\* Untouched bucket and admissions keep their account.
LEMMA AccountStays ==
    ASSUME NEW s \in Senders, s \in DOMAIN buckets, Account(s),
           buckets'[s] = buckets[s], passed'[s] = passed[s], mono' = mono
    PROVE  Account(s)'
BY DEF Account

\* An admission is paid for by the token it takes.
LEMMA AccountAdmits ==
    ASSUME TrustTypeOK, Owed, NEW m \in Messages, Admit(m)
    PROVE  m.sender \in DOMAIN buckets' /\ Account(m.sender)'
<1> DEFINE s == m.sender
           b == Bucket(m)
           n == Len(passed[s])
<1>1. /\ s \in Senders /\ b \in Buckets /\ b.tokens > 0 /\ mono \in Nat /\ mono' = mono
      /\ passed[s] \in Seq(Nat) /\ n \in Nat /\ passed \in [Senders -> Seq(Nat)]
  <2>1. s \in Senders /\ b \in Buckets
    BY MessageTypes, BucketTypes
  <2>2. mono \in Nat /\ passed \in [Senders -> Seq(Nat)]
    BY DEF TrustTypeOK
  <2>3. b.tokens > 0 /\ mono' = mono
    BY DEF Admit, AcceptNonce
  <2> HIDE DEF s, b
  <2>4. passed[s] \in Seq(Nat)
    BY <2>1, <2>2
  <2>5. n \in Nat
    BY <2>4
  <2> QED BY <2>1, <2>2, <2>3, <2>4, <2>5
<1>2. b.tokens \in Nat /\ b.capacity \in Nat /\ b.rate \in Nat
  BY <1>1 DEF Buckets
<1>3. /\ s \in DOMAIN buckets'
      /\ buckets'[s].tokens = b.tokens - 1
      /\ buckets'[s].capacity = b.capacity /\ buckets'[s].rate = b.rate
  <2> DEFINE spent == [b EXCEPT !.tokens = @ - 1]
  <2>1. buckets' = WithBucket(m.sender, spent)
    BY DEF Admit
  <2>2. /\ spent \in Buckets /\ spent.tokens = b.tokens - 1
        /\ spent.capacity = b.capacity /\ spent.rate = b.rate
    BY <1>1, Spent
  <2> HIDE DEF spent, b
  <2>3. m.sender \in DOMAIN buckets' /\ buckets'[m.sender] = spent
    BY <2>1, <2>2, LimiterTypes
  <2> QED BY <2>2, <2>3
<1>4. passed'[s] = Append(passed[s], mono)
  BY <1>1 DEF Admit
<1>5. /\ Len(passed'[s]) = n + 1 /\ passed'[s][n + 1] = mono
      /\ \A i \in 1 .. n : passed'[s][i] = passed[s][i] /\ passed[s][i] \in Nat
  BY <1>1, <1>4
<1>6. CASE s \in DOMAIN buckets
  <2>1. b = buckets[s] /\ Account(s)
    BY <1>1, <1>6 DEF Bucket, Owed, Account
  <2>2. \A i \in 1 .. n : /\ passed[s][i] <= mono
                          /\ n - i + 1 + b.tokens <= b.capacity + b.rate * (mono - passed[s][i])
    BY <2>1 DEF Account
  <2>3. b.tokens <= b.capacity
    BY <2>1 DEF Account
  <2> HIDE DEF b, n, s
  <2>4. ASSUME NEW i \in 1 .. n + 1
        PROVE  /\ passed'[s][i] <= mono
               /\ n + 1 - i + 1 + (b.tokens - 1) <= b.capacity + b.rate * (mono - passed'[s][i])
    <3>1. CASE i \in 1 .. n
      <4> DEFINE room == b.capacity + b.rate * (mono - passed[s][i])
      <4>1. room \in Int /\ passed'[s][i] = passed[s][i]
        <5>1. passed'[s][i] = passed[s][i] /\ passed[s][i] \in Nat
          BY <1>5, <3>1
        <5>2. mono - passed[s][i] \in Int
          BY <1>1, <5>1
        <5>3. b.rate * (mono - passed[s][i]) \in Int
          BY <1>2, <5>2, ProductIsInt
        <5> QED BY <1>2, <5>1, <5>3
      <4>2. passed[s][i] <= mono /\ n - i + 1 + b.tokens <= room
        BY <2>2, <3>1
      <4> HIDE DEF room
      <4>3. n + 1 - i + 1 + (b.tokens - 1) <= room
        BY <1>1, <1>2, <4>1, <4>2
      <4> QED BY <4>1, <4>2, <4>3 DEF room
    <3>2. CASE i = n + 1
      <4>1. b.rate * (mono - mono) = 0
        BY <1>1, <1>2
      <4> QED BY <1>1, <1>2, <1>5, <2>3, <3>2, <4>1
    <3> QED BY <1>1, <3>1, <3>2
  <2> QED BY <1>1, <1>2, <1>3, <1>5, <2>3, <2>4 DEF Account, s
<1>7. CASE s \notin DOMAIN buckets
  <2>1. n = 0 /\ b.tokens = b.capacity
    BY <1>1, <1>7 DEF Owed, Bucket, NewBucket
  <2>2. b.rate * (mono - mono) = 0
    BY <1>1, <1>2
  <2> HIDE DEF b, n
  <2> QED BY <1>1, <1>2, <1>3, <1>5, <2>1, <2>2 DEF Account
<1> QED BY <1>3, <1>6, <1>7

\* A second's refill keeps every account.
LEMMA AccountElapses ==
    ASSUME TrustTypeOK, Elapse, NEW s \in Senders, s \in DOMAIN buckets, Account(s)
    PROVE  s \in DOMAIN buckets' /\ Account(s)'
<1> DEFINE b == buckets[s]
           c == buckets'[s]
<1>1. /\ mono \in Nat /\ mono' = mono + 1 /\ passed' = passed
      /\ passed[s] \in Seq(Nat) /\ b \in Buckets
      /\ s \in DOMAIN buckets' /\ c = Refilled(b)
  BY DEF Elapse, TrustTypeOK
<1>2. b.tokens \in Nat /\ b.capacity \in Nat /\ b.rate \in Nat
  BY <1>1 DEF Buckets
<1>3. /\ c \in Buckets /\ c.capacity = b.capacity /\ c.rate = b.rate
      /\ c.tokens <= b.capacity /\ c.tokens <= b.tokens + b.rate
  BY <1>1, RefilledTypes
<1>4. c.tokens \in Nat
  BY <1>3 DEF Buckets
<1>5. ASSUME NEW i \in 1 .. Len(passed[s])
      PROVE  /\ passed[s][i] <= mono'
             /\ Len(passed[s]) - i + 1 + c.tokens <= c.capacity + c.rate * (mono' - passed[s][i])
  <2> DEFINE older == Len(passed[s]) - i + 1
             waited == mono - passed[s][i]
             longer == mono' - passed[s][i]
  <2>1. passed[s][i] \in Nat /\ older \in Int /\ waited \in Int /\ longer = waited + 1
    <3>1. passed[s][i] \in Nat /\ Len(passed[s]) \in Nat /\ i \in Int
      BY <1>1
    <3>2. mono \in Nat /\ mono' = mono + 1
      BY <1>1
    <3> QED BY <3>1, <3>2
  <2>2. passed[s][i] <= mono /\ older + b.tokens <= b.capacity + b.rate * waited
    BY DEF Account
  <2>3. passed[s][i] <= mono'
    BY <1>1, <2>1, <2>2
  <2> HIDE DEF older, waited, longer, b, c
  <2>4. PICK rate \in Nat, w \in Int : rate = b.rate /\ w = waited
    BY <1>2, <2>1
  <2>5. rate * (w + 1) = rate * w + rate /\ rate * w \in Int
    BY <2>4
  <2>6. older + b.tokens <= b.capacity + rate * w
    BY <2>2, <2>4
  <2>7. older + c.tokens <= c.capacity + rate * (w + 1)
    <3>1. PICK sofar \in Int : sofar = rate * w
      BY <2>5
    <3>2. older + b.tokens <= b.capacity + sofar /\ rate * (w + 1) = sofar + rate
      BY <2>5, <2>6, <3>1
    <3>3. /\ older \in Int /\ b.tokens \in Nat /\ b.capacity \in Nat
          /\ c.tokens \in Nat /\ c.tokens <= b.tokens + rate
      BY <1>2, <1>3, <1>4, <2>1, <2>4
    <3>4. c.capacity = b.capacity
      BY <1>3
    <3>5. older + c.tokens <= b.capacity + (sofar + rate)
      BY <3>2, <3>3
    <3>6. older + c.tokens <= c.capacity + (sofar + rate)
      BY <3>4, <3>5
    <3> QED BY <3>2, <3>6
  <2>8. older + c.tokens <= c.capacity + c.rate * longer
    BY <1>3, <2>1, <2>4, <2>7
  <2> QED BY <2>3, <2>8 DEF older, longer
<1>6. c.tokens <= c.capacity
  BY <1>3
<1>7. passed'[s] = passed[s]
  BY <1>1
<1> QED BY <1>1, <1>5, <1>6, <1>7 DEF Account

\* A bucket that is made, or refuses, has its account too.
LEMMA AccountRefuses ==
    ASSUME TrustTypeOK, Owed, NEW m \in Messages, LimitedBySender(m)
    PROVE  m.sender \in DOMAIN buckets' /\ Account(m.sender)'
<1>1. /\ m.sender \in Senders /\ Bucket(m) \in Buckets
      /\ m.sender \in DOMAIN buckets' /\ buckets'[m.sender] = Bucket(m)
      /\ passed' = passed /\ mono' = mono
  <2>1. m.sender \in Senders /\ Bucket(m) \in Buckets
    BY MessageTypes, BucketTypes
  <2>2. buckets' = WithBucket(m.sender, Bucket(m)) /\ passed' = passed /\ mono' = mono
    BY DEF LimitedBySender, AcceptNonce
  <2>3. m.sender \in DOMAIN buckets' /\ buckets'[m.sender] = Bucket(m)
    BY <2>2 DEF WithBucket
  <2> QED BY <2>1, <2>2, <2>3
<1>2. CASE m.sender \in DOMAIN buckets
  BY <1>1, <1>2 DEF Bucket, Owed, Account
<1>3. CASE m.sender \notin DOMAIN buckets
  <2>1. passed[m.sender] = <<>> /\ Bucket(m).tokens = Bucket(m).capacity
    BY <1>1, <1>3 DEF Bucket, NewBucket, Owed
  <2>2. Bucket(m).capacity \in Nat
    BY <1>1 DEF Buckets
  <2> QED BY <1>1, <2>1, <2>2 DEF Account
<1> QED BY <1>2, <1>3

\* Every step keeps every sender's account.
LEMMA NextOwed == TrustTypeOK /\ Owed /\ [TrustNext]_trust => Owed'
<1> SUFFICES ASSUME TrustTypeOK, Owed, [TrustNext]_trust PROVE Owed'
  OBVIOUS
<1>1. \A s \in Senders : IF s \in DOMAIN buckets THEN Account(s) ELSE passed[s] = <<>>
  BY DEF Owed, Account
<1>2. SUFFICES ASSUME NEW s \in Senders
               PROVE  IF s \in DOMAIN buckets' THEN Account(s)' ELSE passed'[s] = <<>>
  BY DEF Owed, Account
<1>3. ASSUME buckets' = buckets, passed' = passed, mono' = mono
      PROVE  IF s \in DOMAIN buckets' THEN Account(s)' ELSE passed'[s] = <<>>
  BY <1>1, <1>3 DEF Account
<1>4. ASSUME NEW m \in Messages, LimitedBySender(m)
      PROVE  IF s \in DOMAIN buckets' THEN Account(s)' ELSE passed'[s] = <<>>
  <2>1. CASE s = m.sender
    BY <1>4, <2>1, AccountRefuses
  <2>2. CASE s # m.sender
    <3>1. /\ s \in DOMAIN buckets' <=> s \in DOMAIN buckets
          /\ s \in DOMAIN buckets => buckets'[s] = buckets[s]
          /\ passed' = passed /\ mono' = mono
      <4>1. Bucket(m) \in Buckets /\ buckets' = WithBucket(m.sender, Bucket(m))
            /\ passed' = passed /\ mono' = mono
        BY <1>4, BucketTypes DEF LimitedBySender, AcceptNonce
      <4> QED BY <2>2, <4>1 DEF WithBucket
    <3> QED BY <1>1, <3>1, AccountStays
  <2> QED BY <2>1, <2>2
<1>5. ASSUME NEW m \in Messages, Admit(m)
      PROVE  IF s \in DOMAIN buckets' THEN Account(s)' ELSE passed'[s] = <<>>
  <2>1. CASE s = m.sender
    BY <1>5, <2>1, AccountAdmits
  <2>2. CASE s # m.sender
    <3> DEFINE spent == [Bucket(m) EXCEPT !.tokens = @ - 1]
    <3>1. /\ spent \in Buckets /\ buckets' = WithBucket(m.sender, spent)
          /\ passed' = [passed EXCEPT ![m.sender] = Append(@, mono)] /\ mono' = mono
      BY <1>5, BucketTypes, Spent DEF Admit, AcceptNonce
    <3> HIDE DEF spent
    <3>2. /\ s \in DOMAIN buckets' <=> s \in DOMAIN buckets
          /\ s \in DOMAIN buckets => buckets'[s] = buckets[s]
      BY <2>2, <3>1 DEF WithBucket
    <3>3. passed'[s] = passed[s]
      BY <2>2, <3>1, MessageTypes DEF TrustTypeOK
    <3> QED BY <1>1, <3>1, <3>2, <3>3, AccountStays
  <2> QED BY <2>1, <2>2
<1>6. CASE Elapse
  <2>1. DOMAIN buckets' = DOMAIN buckets /\ passed' = passed
    BY <1>6 DEF Elapse
  <2> QED BY <1>1, <1>6, <2>1, AccountElapses
<1>7. ASSUME NEW m \in Messages, RejectReplay(m) \/ LimitedGlobally(m)
      PROVE  IF s \in DOMAIN buckets' THEN Account(s)' ELSE passed'[s] = <<>>
  BY <1>3, <1>7 DEF RejectReplay, LimitedGlobally, AcceptNonce
<1>8. ASSUME NEW t \in Senders, NEW record \in Grants, Register(t, record)
      PROVE  IF s \in DOMAIN buckets' THEN Account(s)' ELSE passed'[s] = <<>>
  BY <1>3, <1>8 DEF Register
<1>9. CASE SetBack
  BY <1>3, <1>9 DEF SetBack
<1>10. CASE UNCHANGED trust
  BY <1>3, <1>10 DEF trust
<1> QED BY <1>4, <1>5, <1>6, <1>7, <1>8, <1>9, <1>10 DEF TrustNext, Validate

RateInv == ReplayInv /\ Owed /\ RateHeld

\* What is let through is within the account, so within burst and refill.
LEMMA AdmitHoldsRate ==
    ASSUME RateInv, NEW m \in Messages, Admit(m)
    PROVE  RateHeld'
<1>1. /\ TrustTypeOK /\ Owed /\ RateHeld
      /\ m.sender \in Senders /\ mono \in Nat /\ mono' = mono
      /\ passed \in [Senders -> Seq(Nat)]
  BY MessageTypes DEF RateInv, ReplayInv, TrustTypeOK, Admit, AcceptNonce
<1>2. /\ buckets' = WithBucket(m.sender, [Bucket(m) EXCEPT !.tokens = @ - 1])
      /\ passed' = [passed EXCEPT ![m.sender] = Append(@, mono)]
      /\ Bucket(m) \in Buckets /\ Bucket(m).tokens > 0
  BY <1>1, BucketTypes DEF Admit
<1> DEFINE spent == [Bucket(m) EXCEPT !.tokens = @ - 1]
<1>3. /\ spent \in Buckets
      /\ spent.capacity = Bucket(m).capacity /\ spent.rate = Bucket(m).rate
      /\ buckets' = WithBucket(m.sender, spent)
  BY <1>2, Spent
<1> HIDE DEF spent
<1>4. /\ DOMAIN buckets' = DOMAIN buckets \cup {m.sender}
      /\ buckets'[m.sender] = spent
      /\ \A t \in DOMAIN buckets : t # m.sender => buckets'[t] = buckets[t]
  BY <1>1, <1>3 DEF WithBucket
<1>5. /\ buckets'[m.sender] \in Buckets
      /\ buckets'[m.sender].capacity = Bucket(m).capacity
      /\ buckets'[m.sender].rate = Bucket(m).rate
      /\ DOMAIN buckets \subseteq Senders
  BY <1>1, <1>3, <1>4 DEF TrustTypeOK
<1> SUFFICES ASSUME NEW s \in DOMAIN buckets', NEW i \in DOMAIN passed'[s],
                    NEW j \in DOMAIN passed'[s], i <= j
             PROVE  j - i + 1 <= buckets'[s].capacity
                                   + buckets'[s].rate * (passed'[s][j] - passed'[s][i])
  BY DEF RateHeld
<1>6. CASE s # m.sender
  <2>1. s \in DOMAIN buckets /\ buckets'[s] = buckets[s] /\ passed'[s] = passed[s]
    BY <1>1, <1>2, <1>4, <1>5, <1>6
  <2> QED BY <1>1, <2>1 DEF RateHeld
<1>7. CASE s = m.sender
  <2> DEFINE n == Len(passed[s])
  <2>1. /\ passed[s] \in Seq(Nat) /\ n \in Nat /\ passed'[s] = Append(passed[s], mono)
        /\ DOMAIN passed[s] = 1 .. n /\ DOMAIN passed'[s] = 1 .. n + 1
        /\ Len(passed'[s]) = n + 1 /\ passed'[s][n + 1] = mono
        /\ \A x \in 1 .. n : passed'[s][x] = passed[s][x]
    BY <1>1, <1>2, <1>7
  <2>2. CASE j \in 1 .. n
    <3>1. i \in 1 .. n
      BY <2>1, <2>2
    <3>2. s \in DOMAIN buckets
      BY <1>1, <1>7, <2>1, <2>2 DEF Owed
    <3>3. buckets'[s].capacity = buckets[s].capacity /\ buckets'[s].rate = buckets[s].rate
      BY <1>5, <1>7, <3>2 DEF Bucket
    <3>4. j - i + 1 <= buckets[s].capacity + buckets[s].rate * (passed[s][j] - passed[s][i])
      BY <1>1, <2>1, <2>2, <3>1, <3>2 DEF RateHeld
    <3>5. passed'[s][j] = passed[s][j] /\ passed'[s][i] = passed[s][i]
      BY <2>1, <2>2, <3>1
    <3> QED BY <3>3, <3>4, <3>5
  <2>3. CASE j = n + 1
    <3>1. Account(s)'
      BY <1>1, <1>7, AccountAdmits
    <3>2. /\ mono' = mono /\ mono' \in Nat /\ j = Len(passed'[s]) /\ passed'[s][j] = mono'
          /\ i \in 1 .. Len(passed'[s]) /\ i \in Int /\ j \in Int
      BY <1>1, <2>1, <2>3
    <3>3. /\ buckets'[s].tokens \in Nat /\ buckets'[s].capacity \in Nat
          /\ buckets'[s].rate \in Nat
      BY <1>5, <1>7 DEF Buckets
    <3>4. passed'[s][i] \in Nat
      BY <1>1, <2>1
    <3>5. PICK room \in Int :
             room = buckets'[s].capacity + buckets'[s].rate * (mono' - passed'[s][i])
      <4>1. buckets'[s].rate * (mono' - passed'[s][i]) \in Int
        BY <3>2, <3>3, <3>4, ProductIsInt
      <4> QED BY <3>3, <4>1
    <3>6. Len(passed'[s]) - i + 1 + buckets'[s].tokens
            <= buckets'[s].capacity + buckets'[s].rate * (mono' - passed'[s][i])
      BY <3>1, <3>2 DEF Account
    <3>7. Len(passed'[s]) - i + 1 + buckets'[s].tokens <= room
      BY <3>5, <3>6
    <3>8. j - i + 1 <= room
      BY <3>2, <3>3, <3>7
    <3> QED BY <3>2, <3>5, <3>8
  <2> QED BY <2>1, <2>2, <2>3
<1> QED BY <1>6, <1>7

LEMMA NextHoldsRate == RateInv /\ [TrustNext]_trust => RateHeld'
<1> SUFFICES ASSUME RateInv, [TrustNext]_trust PROVE RateHeld'
  OBVIOUS
<1>1. TrustTypeOK /\ Owed /\ RateHeld
  BY DEF RateInv, ReplayInv
<1>2. ASSUME buckets' = buckets, passed' = passed PROVE RateHeld'
  BY <1>1, <1>2 DEF RateHeld
<1>3. ASSUME NEW m \in Messages, LimitedBySender(m) PROVE RateHeld'
  <2>1. /\ buckets' = WithBucket(m.sender, Bucket(m)) /\ passed' = passed
        /\ Bucket(m) \in Buckets /\ m.sender \in Senders
    BY <1>1, <1>3, BucketTypes, MessageTypes DEF LimitedBySender
  <2>2. \A s \in DOMAIN buckets' : s \in DOMAIN buckets => buckets'[s] = buckets[s]
    BY <2>1 DEF WithBucket, Bucket
  <2>3. \A s \in DOMAIN buckets' : s \notin DOMAIN buckets => s = m.sender /\ passed[s] = <<>>
    BY <1>1, <2>1 DEF WithBucket, Owed
  <2> QED BY <1>1, <2>1, <2>2, <2>3 DEF RateHeld
<1>4. CASE Elapse
  <2>1. /\ DOMAIN buckets' = DOMAIN buckets /\ passed' = passed
        /\ \A s \in DOMAIN buckets : buckets'[s].capacity = buckets[s].capacity
                                     /\ buckets'[s].rate = buckets[s].rate
    BY <1>1, <1>4, RefilledTypes DEF Elapse, TrustTypeOK
  <2> QED BY <1>1, <2>1 DEF RateHeld
<1>5. ASSUME NEW m \in Messages, RejectReplay(m) \/ LimitedGlobally(m) PROVE RateHeld'
  BY <1>2, <1>5 DEF RejectReplay, LimitedGlobally
<1>6. ASSUME NEW t \in Senders, NEW record \in Grants, Register(t, record) PROVE RateHeld'
  BY <1>2, <1>6 DEF Register
<1>7. CASE SetBack
  BY <1>2, <1>7 DEF SetBack
<1>8. CASE UNCHANGED trust
  BY <1>2, <1>8 DEF trust
<1> QED BY AdmitHoldsRate, <1>3, <1>4, <1>5, <1>6, <1>7, <1>8 DEF TrustNext, Validate

\* In any stretch of time no sender gets more messages through than the burst
\* of its bucket and the refill of that stretch, for every burst and rate.
THEOREM NeverAboveRate == TrustSpec => []RateHeld
<1>1. TrustInit => RateInv
  BY TrustInitInv DEF RateInv, TrustInit, Owed, RateHeld
<1>2. RateInv /\ [TrustNext]_trust => RateInv'
  BY TrustNextInv, NextOwed, NextHoldsRate DEF RateInv, ReplayInv
<1>3. RateInv => RateHeld
  BY DEF RateInv
<1> QED BY <1>1, <1>2, <1>3, PTL DEF TrustSpec
=============================================================================
