---------------------------- MODULE UploadLimits ----------------------------
(***************************************************************************)
(* What one rider may upload: a token bucket in the memory of each          *)
(* instance (rateLimit.js), then the usage summed from the stored tours     *)
(* (userQuota.js), some calls before the upload adds to it. Tokens are      *)
(* counted in ticks of the clock: a token is Refill of them.                *)
(***************************************************************************)
EXTENDS Integers, SequencesExt

CONSTANTS
  Uploader, Instance,
  Upload,      \* the uploads that may be under way at once
  Capacity,     \* tokens of a full bucket
  Refill,       \* refillIntervalMs
  Second,       \* what Retry-After is rounded up to
  MaxKeys,      \* MAX_TRACKED_KEYS
  MaxTours,     \* MAX_TOURS_PER_USER
  MaxDuration,  \* external: the platform stops an upload that takes longer
  MaxTime       \* bound of a run: the clock stops here

ASSUME UploadLimitsAssumption ==
  /\ {Capacity, Refill, Second, MaxKeys, MaxTours} \subseteq Nat \ {0}
  /\ {MaxDuration, MaxTime} \subseteq Nat /\ IsFiniteSet(Instance)

VARIABLES
  now,
  buckets,   \* per instance, in the Map's insertion order
  uploadOf,
  tours,     \* the tours each rider has stored
  admitted,  \* history: when a rider spent a token of an instance's bucket, since it last forgot
  retryAt,   \* history: when a refused rider was told to come back to an instance, if none came since
  forgotten  \* history: the riders an instance has forgotten

limitsHistory == <<admitted, retryAt, forgotten>>
limitsVars == <<now, buckets, uploadOf, tours, limitsHistory>>

-----------------------------------------------------------------------------
Time == 0..MaxTime
Full == Capacity * Refill
Bucket == [rider: Uploader, ticks: 0..Full, at: Time]
Never == MaxTime + 1000

LimitsTypeOK ==
  /\ now \in Time
  /\ buckets \in [Instance -> Seq(Bucket)]
  /\ \A i \in Instance : IsInjective([k \in DOMAIN buckets[i] |-> buckets[i][k].rider])
  /\ uploadOf \in [Upload -> [pc: {"idle", "quota", "store"}, rider: Uploader \cup {"none"}, at: Time]]
  /\ tours \in [Uploader -> Nat]
  /\ admitted \in [Instance -> [Uploader -> Seq(Time)]]
  /\ retryAt \in [Instance -> [Uploader -> Nat]]
  /\ forgotten \subseteq Uploader

NoUpload == [pc |-> "idle", rider |-> "none", at |-> 0]

LimitsInit ==
  /\ now = 0
  /\ buckets = [i \in Instance |-> <<>>]
  /\ uploadOf = [r \in Upload |-> NoUpload]
  /\ tours = [rider \in Uploader |-> 0]
  /\ admitted = [i \in Instance |-> [rider \in Uploader |-> <<>>]]
  /\ retryAt = [i \in Instance |-> [rider \in Uploader |-> Never]]
  /\ forgotten = {}

-----------------------------------------------------------------------------
BucketsOf(i, rider) == {k \in DOMAIN buckets[i] : buckets[i][k].rider = rider}
Others(i, rider) ==
  IF BucketsOf(i, rider) = {} THEN buckets[i]
  ELSE RemoveAt(buckets[i], CHOOSE k \in BucketsOf(i, rider) : TRUE)

\* What the bucket of a rider holds now; one not seen, or forgotten, is full.
Ticks(i, rider) ==
  IF BucketsOf(i, rider) = {} THEN Full
  ELSE LET b == buckets[i][CHOOSE k \in BucketsOf(i, rider) : TRUE] IN
       IF b.ticks + (now - b.at) > Full THEN Full ELSE b.ticks + (now - b.at)

\* The rider's bucket, moved to the end of the Map.
Put(i, rider, ticks) == Append(Others(i, rider), [rider |-> rider, ticks |-> ticks, at |-> now])

\* Past MaxKeys the rider seen longest ago is forgotten.
KeptBuckets(list) == IF Len(list) > MaxKeys THEN Tail(list) ELSE list
EvictedUploaders(list) == {b.rider : b \in ToSet(list) \ ToSet(KeptBuckets(list))}

\* Retry-After, in whole seconds. Mutant: rounded down.
RetryAfterFloor(ticks) == ((Refill - ticks) \div Second) * Second
RetryAfter(ticks) == ((Refill - ticks + Second - 1) \div Second) * Second

Admits(i, rider) == Ticks(i, rider) >= Refill

\* take: a token is spent and the upload goes on.
Admit(r, i, rider) ==
  LET list == Put(i, rider, Ticks(i, rider) - Refill) IN
  /\ uploadOf[r].pc = "idle" /\ Admits(i, rider)
  /\ buckets' = [buckets EXCEPT ![i] = KeptBuckets(list)]
  /\ uploadOf' = [uploadOf EXCEPT ![r] = [pc |-> "quota", rider |-> rider, at |-> now]]
  /\ admitted' = [admitted EXCEPT ![i] = [q \in Uploader |->
                    IF q \in EvictedUploaders(list) THEN <<>>
                    ELSE IF q = rider THEN Append(@[q], now) ELSE @[q]]]
  /\ retryAt' = [retryAt EXCEPT ![i][rider] = Never]
  /\ forgotten' = forgotten \cup EvictedUploaders(list)
  /\ UNCHANGED <<now, tours>>

\* 429: the ticks so far are kept, and the rider is told how long a token takes.
Throttle(i, rider) ==
  /\ \E r \in Upload : uploadOf[r].pc = "idle"
  /\ ~Admits(i, rider)
  /\ buckets' = [buckets EXCEPT ![i] = Put(i, rider, Ticks(i, rider))]
  /\ retryAt' = [retryAt EXCEPT ![i][rider] = now + RetryAfter(Ticks(i, rider))]
  /\ UNCHANGED <<now, uploadOf, tours, admitted, forgotten>>

OverQuota(rider) == tours[rider] + 1 > MaxTours

\* refuseOverQuota: the usage of this moment.
CheckQuota(r) ==
  /\ uploadOf[r].pc = "quota"
  /\ uploadOf' = [uploadOf EXCEPT ![r] = IF OverQuota(uploadOf[r].rider) THEN NoUpload
                                       ELSE [uploadOf[r] EXCEPT !.pc = "store"]]
  /\ UNCHANGED <<now, buckets, tours, limitsHistory>>

Store(r) ==
  /\ uploadOf[r].pc = "store"
  /\ tours' = [tours EXCEPT ![uploadOf[r].rider] = @ + 1]
  /\ uploadOf' = [uploadOf EXCEPT ![r] = NoUpload]
  /\ UNCHANGED <<now, buckets, limitsHistory>>

\* The upload is refused for its body, a call of it rejects, or the platform stops it.
UploadFails(r) ==
  /\ uploadOf[r].pc # "idle"
  /\ uploadOf' = [uploadOf EXCEPT ![r] = NoUpload]
  /\ UNCHANGED <<now, buckets, tours, limitsHistory>>

RemoveStoredTour(rider) ==
  /\ tours[rider] > 0
  /\ tours' = [tours EXCEPT ![rider] = @ - 1]
  /\ UNCHANGED <<now, buckets, uploadOf, limitsHistory>>

Tick ==
  /\ now < MaxTime
  /\ \A r \in Upload : uploadOf[r].pc # "idle" => now - uploadOf[r].at < MaxDuration
  /\ now' = now + 1
  /\ UNCHANGED <<buckets, uploadOf, tours, limitsHistory>>

LimitsNext ==
  \/ \E i \in Instance, rider \in Uploader :
       Throttle(i, rider) \/ \E r \in Upload : Admit(r, i, rider)
  \/ \E r \in Upload : CheckQuota(r) \/ Store(r) \/ UploadFails(r)
  \/ \E rider \in Uploader : RemoveStoredTour(rider)
  \/ Tick

LimitsSpec == LimitsInit /\ [][LimitsNext]_limitsVars

-----------------------------------------------------------------------------
\* In any stretch of time an instance that remembers a rider admits Capacity uploads and what is
\* refilled in that time, whatever was refused in between.
RateHeld ==
  \A i \in Instance, rider \in Uploader :
    LET times == admitted[i][rider] IN
    \A k \in DOMAIN times : \A j \in 1..k :
      (k - j + 1 - Capacity) * Refill <= times[k] - times[j]

\* "Concurrent uploads each see the usage before the others, so a burst can pass the caps by a few;
\* the upload rate limit bounds by how much" (userQuota.js:41): by what all instances admit while
\* the longest upload lasts, unless one has forgotten the rider and starts a full bucket.
OvershootBounded ==
  \A rider \in Uploader \ forgotten :
    tours[rider] <= MaxTours - 1 + Cardinality(Instance) * (Capacity + MaxDuration \div Refill)

\* An instance remembers MaxKeys riders (rateLimit.js:10).
KeysBounded == \A i \in Instance : Len(buckets[i]) <= MaxKeys

\* A refused rider who comes back to the instance when told to is admitted: Retry-After is never
\* shorter than the wait for a token, whoever else came in between.
RetryAfterHonoured ==
  \A i \in Instance, rider \in Uploader : retryAt[i][rider] <= now => Ticks(i, rider) >= Refill

\* The rate limit and the quota together keep what the comments of rateLimit.js and userQuota.js
\* promise of them, on several instances that know nothing of each other.
LimitsHold == LimitsTypeOK /\ RateHeld /\ OvershootBounded /\ KeysBounded /\ RetryAfterHonoured

=============================================================================
