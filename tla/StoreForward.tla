---------------------------- MODULE StoreForward ----------------------------
(***************************************************************************)
(* The store-and-forward manager: entries in the order they were made, an  *)
(* index from message to entry that catches duplicates, and counters.      *)
(* Nothing in it awaits, so every call is one step.                        *)
(***************************************************************************)
EXTENDS Integers, Sequences, SequencesExt, FiniteSets, Functions

CONSTANTS Ids,      \* message id and schema version: what makes a duplicate
          Kinds,    \* what a message may be: its class and its lifetime, ttl_s
          Eligible, MaxTime, MaxStored, \* bounds of the model
          None

ASSUME StoreConstants ==
    /\ Kinds \subseteq [class : {"CRITICAL_LOCAL", "REGIONAL_SAFETY", "ANALYTICS"}, ttl : Nat]
    /\ {kind.class : kind \in Kinds} \subseteq DOMAIN Eligible
    /\ {MaxTime, MaxStored} \subseteq Nat
    /\ None \notin Nat
    /\ None \notin [at : Nat, kind : Kinds]

VARIABLES
    clock,
    entries,   \* _entries: message id, timestamp and kind, by entry id
    seen,      \* _seen: entry id by message id
    stored, forwarded, expired, \* the counters
    out        \* the message ids the last flush returned

vars == <<clock, entries, seen, stored, forwarded, expired, out>>

TooOld(e) == clock - entries[e].at > entries[e].kind.ttl

Urgency(class) == CASE class = "CRITICAL_LOCAL" -> 0 [] class = "REGIONAL_SAFETY" -> 1
                    [] OTHER -> 2

Init ==
    /\ clock = 0
    /\ entries = <<>> /\ seen = [k \in Ids |-> None]
    /\ stored = 0 /\ forwarded = 0 /\ expired = 0
    /\ out = <<>>

\* store of a message that has no entry; ids grow, so that they are the order
\* of the dictionary.
StoreNew(k, at, kind) ==
    /\ stored < MaxStored
    /\ seen[k] = None
    /\ entries' = [e \in DOMAIN entries \cup {stored + 1} |->
                     IF e = stored + 1 THEN [id |-> k, at |-> at, kind |-> kind] ELSE entries[e]]
    /\ seen' = [seen EXCEPT ![k] = stored + 1]
    /\ stored' = stored + 1
    /\ UNCHANGED <<clock, forwarded, expired, out>>

Replaced(old, at, kind) == [old EXCEPT !.at = at, !.kind = kind]
\* A duplicate replaces the stored version when it is newer.
Newer(old, at, kind) == IF at > old.at THEN [old EXCEPT !.at = at, !.kind = kind] ELSE old

StoreAgain(k, at, kind) ==
    /\ seen[k] # None
    /\ entries' = [entries EXCEPT ![seen[k]] = Newer(@, at, kind)]
    /\ UNCHANGED <<clock, seen, stored, forwarded, expired, out>>

KeepIndex(gone) == seen
\* Removing entries takes their messages out of the index.
Unindexed(gone) == [k \in Ids |-> IF seen[k] \in gone THEN None ELSE seen[k]]

ExpiredSweeps(old) == IF old = {} THEN expired ELSE expired + 1
ExpiredAfter(old) == expired + Cardinality(old)

\* Most urgent first, in the order of storing within a class.
Before(d, e) ==
    \/ Urgency(entries[d].kind.class) < Urgency(entries[e].kind.class)
    \/ Urgency(entries[d].kind.class) = Urgency(entries[e].kind.class) /\ d < e

\* flush: what is too old goes, what the connectivity permits goes out.
Flush(connectivity) ==
    LET old == {e \in DOMAIN entries : TooOld(e)}
        ready == {e \in DOMAIN entries \ old : connectivity \in Eligible[entries[e].kind.class]}
    IN  /\ \E ids \in SetToSeqs(ready) :
              /\ \A i, j \in DOMAIN ids : i < j => Before(ids[i], ids[j])
              /\ out' = [n \in DOMAIN ids |-> entries[ids[n]].id]
        /\ entries' = Restrict(entries, DOMAIN entries \ (old \cup ready))
        /\ seen' = Unindexed(old \cup ready)
        /\ expired' = ExpiredAfter(old)
        /\ forwarded' = forwarded + Cardinality(ready)
        /\ UNCHANGED <<clock, stored>>

Cleanup ==
    LET old == {e \in DOMAIN entries : TooOld(e)}
    IN  /\ entries' = Restrict(entries, DOMAIN entries \ old)
        /\ seen' = Unindexed(old)
        /\ expired' = ExpiredAfter(old)
        /\ UNCHANGED <<clock, stored, forwarded, out>>

Tick ==
    /\ clock < MaxTime
    /\ clock' = clock + 1
    /\ UNCHANGED <<entries, seen, stored, forwarded, expired, out>>

Next ==
    \/ \E k \in Ids, at \in 0..clock, kind \in Kinds :
          StoreNew(k, at, kind) \/ StoreAgain(k, at, kind)
    \/ \E connectivity \in UNION {Eligible[kind.class] : kind \in Kinds} : Flush(connectivity)
    \/ Cleanup
    \/ Tick

Spec == Init /\ [][Next]_vars
-----------------------------------------------------------------------------
\* Types of the entries, the index and the counters.
TypeOK ==
    /\ clock \in Nat
    /\ entries \in [DOMAIN entries -> [id : Ids, at : Nat, kind : Kinds]]
    /\ DOMAIN entries \subseteq 1..stored
    /\ seen \in [Ids -> Nat \cup {None}]
    /\ {stored, forwarded, expired} \subseteq Nat
    /\ out \in Seq(Ids)

\* The index finds every entry and nothing else: no message waits in two
\* entries and none that was removed is still taken for a duplicate.
IndexFinds ==
    /\ \A e \in DOMAIN entries : seen[entries[e].id] = e
    /\ \A k \in Ids : seen[k] # None => seen[k] \in DOMAIN entries /\ entries[seen[k]].id = k

\* Every message ever stored is waiting, was forwarded or has expired, and is
\* counted once.
AllAccounted == stored = Cardinality(DOMAIN entries) + forwarded + expired

Promise == INSTANCE Outbox WITH
    box <- [k \in Ids |-> IF seen[k] = None THEN None
                          ELSE [at |-> entries[seen[k]].at, kind |-> entries[seen[k]].kind]]

\* Entries, index and flush together keep the promise of the outbox.
KeepsPromise == Promise!Spec
=============================================================================
