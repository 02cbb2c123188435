--------------------------- MODULE RequestLimiter ---------------------------
(***************************************************************************)
(* core/rate_limiter.py: the token buckets behind check_rate_limit, one    *)
(* for each client address.  A bucket is refilled only after a whole       *)
(* interval, and the request that finds it too old is still charged to it  *)
(* before it is thrown away.                                               *)
(***************************************************************************)
EXTENDS WallClock

CONSTANTS
    Ips,              \* client addresses
    Capacity,
    RefillPerTick,    \* refill_rate / refill_interval
    RefillInterval,   \* ticks without which nothing is refilled
    CleanupInterval   \* the age, in ticks, past which a bucket is dropped

ASSUME LimiterAssumption ==
    /\ Capacity \in Nat \ {0} /\ RefillPerTick \in Nat
    /\ RefillInterval \in Nat /\ CleanupInterval \in Nat

VARIABLES
    buckets,    \* per address, its bucket or NoBucket
    admitted,   \* per address, the requests let through
    lives       \* per address, the buckets made for it

limiterVars == <<buckets, admitted, lives>>

Buckets == [level: 0..Capacity, lastRefill: Nat, createdAt: Nat]
NoBucket == [level |-> 0, lastRefill |-> 0, createdAt |-> -1]

LimiterInit ==
    /\ buckets = [ip \in Ips |-> NoBucket]
    /\ admitted = [ip \in Ips |-> 0]
    /\ lives = [ip \in Ips |-> 0]

-----------------------------------------------------------------------------
Lesser(a, b) == IF a <= b THEN a ELSE b

Refill(b) ==
    LET elapsed == now - b.lastRefill IN
    IF elapsed >= RefillInterval
    THEN [b EXCEPT !.level = Lesser(Capacity, @ + elapsed * RefillPerTick),
                   !.lastRefill = now]
    ELSE b

\* The defaultdict makes a bucket for an address it does not know.
BucketOf(ip) ==
    IF buckets[ip] = NoBucket
    THEN [level |-> Capacity, lastRefill |-> now, createdAt |-> now]
    ELSE buckets[ip]

Charge(ip, left) ==
    /\ buckets' = [buckets EXCEPT ![ip] = left]
    /\ lives' = IF buckets[ip] = NoBucket THEN [lives EXCEPT ![ip] = @ + 1] ELSE lives

\* Mutant: a bucket of exactly the cleanup age is dropped.
AdmitMutant(ip) ==
    LET b == Refill(BucketOf(ip)) IN
    /\ b.level >= 1
    /\ Charge(ip, IF now - b.createdAt >= CleanupInterval THEN NoBucket
                  ELSE [b EXCEPT !.level = @ - 1])
    /\ admitted' = [admitted EXCEPT ![ip] = @ + 1]

Admit(ip) ==
    LET b == Refill(BucketOf(ip)) IN
    /\ b.level >= 1
    /\ Charge(ip, IF now - b.createdAt > CleanupInterval THEN NoBucket
                  ELSE [b EXCEPT !.level = @ - 1])
    /\ admitted' = [admitted EXCEPT ![ip] = @ + 1]

\* Answered 429, before the age of the bucket is looked at.
Reject(ip) ==
    LET b == Refill(BucketOf(ip)) IN
    /\ b.level < 1
    /\ Charge(ip, b)
    /\ UNCHANGED admitted
=============================================================================
