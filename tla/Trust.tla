------------------------------- MODULE Trust -------------------------------
(***************************************************************************)
(* The trust pipeline in front of the other services: timestamps, replay   *)
(* cache, credentials, rate limits, plausibility, in this order, each with *)
(* memory of its own and each able to reject the message.                  *)
(*                                                                         *)
(* POST /v1/trust/validate never awaits, so a validation is one step; one  *)
(* rejected for its timestamps changes nothing and is a stutter.  The      *)
(* cache keeps its deadlines on the monotonic clock and the messages carry *)
(* wall time, which may be set back while the service runs.  Buckets are   *)
(* refilled when they are looked at, which comes to the same as a refill   *)
(* with every second.  Scores are 1/10000ths, places metres along a road.    *)
(***************************************************************************)
EXTENDS Integers, Sequences, FiniteSets, Functions

CONSTANTS Senders, Nonces, Actors,
          Messages,      \* the messages there are, see SignedMessages
          Grants,        \* the credential records an operator may register
          MaxSpeed, MaxAccel,         \* by actor, m/s and m/s^2
          Burst, Rate,                \* by trust level
          GlobalBurst, GlobalRate,
          Skew, ExtraRetention, CleanupInterval, TeleportThreshold,
          MaxMono, MaxBack, MaxPassed, MaxGrants, \* bounds of the model
          Nothing

Levels == {"UNTRUSTED", "LOW", "MEDIUM", "HIGH", "AUTHORITY"}

Reports == [actor : Actors, place : Int, speed : Int, at : Int]

SignedMessages == [sender : Senders, nonce : Nonces, hash : Nat, issued : Int, expires : Int,
                   role : Nat \cup {Nothing}, report : Reports \cup {Nothing}]

Credentials == [level : Levels, roles : SUBSET Nat, expires : Int \cup {Nothing}]

ASSUME TrustConstants ==
    /\ Messages \subseteq SignedMessages
    /\ Grants \subseteq Credentials
    /\ MaxSpeed \in [Actors -> Nat \ {0}] /\ MaxAccel \in [Actors -> Nat \ {0}]
    /\ Burst \in [Levels -> Nat] /\ Rate \in [Levels -> Nat]
    /\ {GlobalBurst, GlobalRate, Skew, ExtraRetention, CleanupInterval, TeleportThreshold,
        MaxMono, MaxBack, MaxPassed, MaxGrants} \subseteq Nat
    /\ Nothing \notin Int
    /\ Nothing \notin Credentials
    /\ Nothing \notin Reports

VARIABLES
    mono,        \* the monotonic clock
    back,        \* how far the wall clock was set back
    cache,       \* ReplayCache._cache: hash and deadline by sender and nonce
    cleaned,     \* ReplayCache._last_cleanup
    credentials, \* CredentialVerifier._credentials
    grants,      \* how often they were registered
    buckets,     \* RateLimiter._buckets, by sender
    global,      \* RateLimiter._global: tokens
    rejections,  \* RateLimiter._rejections
    motion,      \* PlausibilityChecker._state, by actor
    accepted,    \* history: how often the replay stage let a message through
    passed       \* history: when the rate limiter let a sender through

trust == <<mono, back, cache, cleaned, credentials, grants, buckets, global,
          rejections, motion, accepted, passed>>

Lesser(a, b) == IF a < b THEN a ELSE b
Greater(a, b) == IF a < b THEN b ELSE a
Apart(a, b) == IF a < b THEN b - a ELSE a - b

Wall == mono - back
-----------------------------------------------------------------------------
(* Timestamps and replay cache.                                            *)

Timely(m) ==
    /\ m.expires > Wall
    /\ m.expires > m.issued
    /\ m.issued <= Wall + Skew

Key(m) == <<m.sender, m.nonce>>

CleanedByIssue ==
    IF mono - cleaned < CleanupInterval THEN cache
    ELSE Restrict(cache, {k \in DOMAIN cache : cache[k].until - ExtraRetention > mono})
\* What _maybe_cleanup leaves, at most once per interval.
Cleaned == IF mono - cleaned < CleanupInterval THEN cache
           ELSE Restrict(cache, {k \in DOMAIN cache : cache[k].until > mono})

CleanedAt == IF mono - cleaned < CleanupInterval THEN cleaned ELSE mono

Remembered(m) ==
    [k \in DOMAIN Cleaned \cup {Key(m)} |->
        IF k = Key(m) THEN [hash |-> m.hash, until |-> mono + m.expires - Wall + ExtraRetention]
        ELSE Cleaned[k]]

(* Credentials.                                                            *)

Valid(c) == c # Nothing /\ (c.expires = Nothing \/ Wall < c.expires)

Identity(s) == IF Valid(credentials[s]) THEN credentials[s].level ELSE "UNTRUSTED"

Emergency(s, role) == Valid(credentials[s]) /\ role \in credentials[s].roles

\* The level the rate limiter is told: an emergency role the sender does not
\* hold takes its level away for this message.
Standing(m) ==
    IF m.role # Nothing /\ ~Emergency(m.sender, m.role) THEN "UNTRUSTED" ELSE Identity(m.sender)

(* Rate limits.                                                            *)

NewBucket(level) == [tokens |-> Burst[level], capacity |-> Burst[level], rate |-> Rate[level]]

\* _get_or_create: the bucket keeps the size of the sender's first message.
Bucket(m) == IF m.sender \in DOMAIN buckets THEN buckets[m.sender] ELSE NewBucket(Standing(m))

WithBucket(s, b) == [t \in DOMAIN buckets \cup {s} |-> IF t = s THEN b ELSE buckets[t]]

RefilledUnbounded(b) == [b EXCEPT !.tokens = @ + b.rate]
Refilled(b) == [b EXCEPT !.tokens = Lesser(b.capacity, @ + b.rate)]

(* Plausibility.                                                           *)

\* What a limit leaves of the score of a value beyond it.
Penalty(limit, value) == Greater((10000 * limit) \div value, 1000)

SpeedScore(r) == IF r.speed < 0 THEN 0
                 ELSE IF r.speed > MaxSpeed[r.actor] THEN Penalty(MaxSpeed[r.actor], r.speed)
                 ELSE 10000

\* dt > 0 seconds after the last report, the distance must be one the actor
\* can cover, and the speed one it can have changed to.
JumpScore(r, p, dt) ==
    LET dist == Apart(r.place, p.place)
    IN  IF dist > TeleportThreshold THEN 0
        ELSE IF 2 * dist > 3 * MaxSpeed[r.actor] * dt THEN Penalty(MaxSpeed[r.actor] * dt, dist)
        ELSE 10000

AccelerationScore(r, p, dt) ==
    LET change == Apart(r.speed, p.speed)
    IN  IF change > 2 * MaxAccel[r.actor] * dt THEN Penalty(MaxAccel[r.actor] * dt, change)
        ELSE 10000

Score(r) ==
    LET p == motion[r.actor]
        dt == r.at - p.at
    IN  IF p = Nothing \/ dt = 0 THEN SpeedScore(r)
        ELSE IF dt < 0 THEN 0
        ELSE (((SpeedScore(r) * JumpScore(r, p, dt)) \div 10000)
                * AccelerationScore(r, p, dt)) \div 10000

\* A report older than the last one leaves it in place, any other replaces
\* it, however implausible.
Moved(r) == [motion EXCEPT ![r.actor] =
               IF @ # Nothing /\ r.at < @.at THEN @
               ELSE [place |-> r.place, speed |-> r.speed, at |-> r.at]]

AdjustedWhateverTheBase(level, score) ==
    IF score <= 2000 THEN "UNTRUSTED" ELSE IF score < 4000 THEN "MEDIUM" ELSE level
\* _adjust_trust.
Adjusted(level, score) ==
    IF score <= 2000 THEN "UNTRUSTED"
    ELSE IF score < 4000 /\ level \in {"HIGH", "AUTHORITY"} THEN "MEDIUM"
    ELSE level

Assessed(m) == Adjusted(Standing(m), IF m.report = Nothing THEN 5000 ELSE Score(m.report))
-----------------------------------------------------------------------------
TrustInit ==
    /\ mono = 0 /\ back = 0
    /\ cache = <<>> /\ cleaned = 0
    /\ credentials = [s \in Senders |-> Nothing] /\ grants = 0
    /\ buckets = <<>>
    /\ global = GlobalBurst
    /\ rejections = [s \in Senders |-> 0]
    /\ motion = [a \in Actors |-> Nothing]
    /\ accepted = [m \in Messages |-> 0]
    /\ passed = [s \in Senders |-> <<>>]

\* A nonce that is still remembered, with the same payload or another.
RejectReplay(m) ==
    /\ Timely(m)
    /\ Key(m) \in DOMAIN Cleaned
    /\ cache' = Cleaned
    /\ cleaned' = CleanedAt
    /\ UNCHANGED <<mono, back, credentials, grants, buckets, global, rejections, motion,
                   accepted, passed>>

\* The replay stage lets a new nonce through and remembers it at once.
AcceptNonce(m) ==
    /\ Timely(m)
    /\ Key(m) \notin DOMAIN Cleaned
    /\ cache' = Remembered(m)
    /\ cleaned' = CleanedAt
    /\ accepted' = [accepted EXCEPT ![m] = @ + 1]
    /\ UNCHANGED <<mono, back, credentials, grants>>

LimitedGlobally(m) ==
    /\ AcceptNonce(m)
    /\ global = 0
    /\ rejections' = [rejections EXCEPT ![m.sender] = @ + 1]
    /\ UNCHANGED <<buckets, global, motion, passed>>

\* The global token is gone although the message is not let through.
LimitedBySender(m) ==
    /\ AcceptNonce(m)
    /\ global > 0
    /\ Bucket(m).tokens = 0
    /\ global' = global - 1
    /\ buckets' = WithBucket(m.sender, Bucket(m))
    /\ rejections' = [rejections EXCEPT ![m.sender] = @ + 1]
    /\ UNCHANGED <<motion, passed>>

Admit(m) ==
    /\ AcceptNonce(m)
    /\ global > 0
    /\ Bucket(m).tokens > 0
    /\ Len(passed[m.sender]) < MaxPassed
    /\ global' = global - 1
    /\ buckets' = WithBucket(m.sender, [Bucket(m) EXCEPT !.tokens = @ - 1])
    /\ motion' = IF m.report = Nothing THEN motion ELSE Moved(m.report)
    /\ passed' = [passed EXCEPT ![m.sender] = Append(@, mono)]
    /\ UNCHANGED rejections

Validate(m) == RejectReplay(m) \/ LimitedGlobally(m) \/ LimitedBySender(m) \/ Admit(m)

\* CredentialVerifier.register.
Register(s, record) ==
    /\ grants < MaxGrants
    /\ grants' = grants + 1
    /\ credentials' = [credentials EXCEPT ![s] = record]
    /\ UNCHANGED <<mono, back, cache, cleaned, buckets, global, rejections, motion,
                   accepted, passed>>

Elapse ==
    /\ mono < MaxMono
    /\ mono' = mono + 1
    /\ buckets' = [s \in DOMAIN buckets |-> Refilled(buckets[s])]
    /\ global' = Lesser(GlobalBurst, global + GlobalRate)
    /\ UNCHANGED <<back, cache, cleaned, credentials, grants, rejections, motion,
                   accepted, passed>>

\* The wall clock is set back.
SetBack ==
    /\ back < MaxBack
    /\ back' = back + 1
    /\ UNCHANGED <<mono, cache, cleaned, credentials, grants, buckets, global, rejections,
                   motion, accepted, passed>>

TrustNext ==
    \/ \E m \in Messages : Validate(m)
    \/ \E s \in Senders, record \in Grants : Register(s, record)
    \/ Elapse
    \/ SetBack

TrustSpec == TrustInit /\ [][TrustNext]_trust
-----------------------------------------------------------------------------
Buckets == [tokens : Nat, capacity : Nat, rate : Nat]
Snapshots == [place : Int, speed : Int, at : Int]

\* Types of the pipeline's memories.
TrustTypeOK ==
    /\ mono \in Nat /\ back \in 0..MaxBack
    /\ cache \in [DOMAIN cache -> [hash : Nat, until : Int]]
    /\ DOMAIN cache \subseteq Senders \X Nonces
    /\ cleaned \in Nat
    /\ credentials \in [Senders -> Credentials \cup {Nothing}]
    /\ buckets \in [DOMAIN buckets -> Buckets] /\ DOMAIN buckets \subseteq Senders
    /\ global \in 0..GlobalBurst
    /\ rejections \in [Senders -> Nat]
    /\ motion \in [Actors -> Snapshots \cup {Nothing}]
    /\ accepted \in [Messages -> Nat]
    /\ passed \in [Senders -> Seq(Nat)]

\* A message passes the replay stage at most once, although the cache forgets
\* it: by then it has expired, even when the wall clock was set back by as
\* much as the extra retention allows.
NeverAcceptedTwice == MaxBack <= ExtraRetention => \A m \in Messages : accepted[m] <= 1

\* In any stretch of time the rate limiter lets no more of a sender's messages
\* through than the burst of its bucket and the refill of that stretch.
RateHeld ==
    \A s \in DOMAIN buckets : \A i, j \in DOMAIN passed[s] :
       i <= j => j - i + 1 <= buckets[s].capacity + buckets[s].rate * (passed[s][j] - passed[s][i])

Rank(level) == CASE level = "UNTRUSTED" -> 0 [] level = "LOW" -> 1 [] level = "MEDIUM" -> 2
                 [] level = "HIGH" -> 3 [] level = "AUTHORITY" -> 4

\* Neither an emergency role nor plausible motion lifts a message above the
\* level of its sender's credential, valid at that moment, and a role that
\* the sender does not hold leaves it untrusted.
TrustOnlyLowered ==
    \A m \in Messages : Timely(m) =>
        /\ Rank(Assessed(m)) <= Rank(Identity(m.sender))
        /\ (m.role # Nothing /\ ~Emergency(m.sender, m.role)) => Assessed(m) = "UNTRUSTED"

\* What the documentation says and the code does not do.
\* "Each sender gets a bucket sized according to its TrustLevel"
\* (rate_limiter.py): it keeps the size of the sender's first message.
BucketFitsLevel == \A s \in DOMAIN buckets : buckets[s].capacity = Burst[Identity(s)]

\* A message the rate limiter refused, sent again while there is room, is let
\* through: it is a duplicate by then.
RetryPasses ==
    \A m \in Messages :
       (/\ accepted[m] = 1 /\ passed[m.sender] = <<>> /\ Timely(m)
        /\ global > 0 /\ Bucket(m).tokens > 0) => ENABLED Admit(m)
=============================================================================
