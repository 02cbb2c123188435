--------------------------- MODULE ApiAccessProofs --------------------------
(***************************************************************************)
(* Proofs about ApiAccess, for any users, clients, addresses, lifetimes    *)
(* and bounds.                                                             *)
(***************************************************************************)
EXTENDS ApiAccess, FiniteSetTheorems, TLAPS

USE ClockAssumption, LimiterAssumption, TokensAssumption, BootsAssumption

\* A pair was signed in the past, for a login that is itself or an earlier pair.
LoginsInv ==
    \A i \in DOMAIN pairs : pairs[i].login \in 1..i /\ pairs[i].issued <= now

\* Of the recorded pairs of a login all but the last are revoked.
SupersededInv ==
    \A i, j \in DOMAIN pairs :
        i < j /\ pairs[i].login = pairs[j].login /\ i \in table => i \in revoked

\* The recorded pairs of the logins a detected reuse ended are revoked, and were
\* signed before it: an exchange would have needed one that is not.
CaughtInv ==
    /\ \A u \in Users : caught[u].mark <= Len(pairs)
    /\ \A i \in DOMAIN pairs :
        pairs[i].login <= caught[pairs[i].user].mark =>
            /\ i \in table => i \in revoked
            /\ pairs[i].issued <= caught[pairs[i].user].at

TokenInv == TypeOK /\ LoginsInv /\ SupersededInv /\ CaughtInv

-----------------------------------------------------------------------------
LEMMA ProductNat == ASSUME NEW a \in Nat, NEW b \in Nat PROVE a * b \in Nat
OBVIOUS

\* A bucket stays a bucket when it is refilled.
LEMMA RefillType ==
    ASSUME now \in Nat, NEW b \in Buckets
    PROVE  Refill(b) \in Buckets
<1> DEFINE elapsed == now - b.lastRefill
<1>1. CASE elapsed >= RefillInterval
  <2>1. elapsed \in Nat
    BY <1>1 DEF Buckets
  <2>2. elapsed * RefillPerTick \in Nat
    BY <2>1, ProductNat
  <2>3. Lesser(Capacity, b.level + elapsed * RefillPerTick) \in 0..Capacity
    <3> HIDE DEF elapsed
    <3> QED
      BY <2>2 DEF Lesser, Buckets
  <2>4. Refill(b) = [b EXCEPT !.level = Lesser(Capacity, @ + elapsed * RefillPerTick),
                              !.lastRefill = now]
    BY <1>1 DEF Refill
  <2> HIDE DEF elapsed
  <2> QED
    BY <2>3, <2>4 DEF Buckets
<1>2. CASE ~(elapsed >= RefillInterval)
  BY <1>2 DEF Refill
<1> QED
  BY <1>1, <1>2

LEMMA BucketOfType ==
    ASSUME TypeOK, NEW ip \in Ips
    PROVE  BucketOf(ip) \in Buckets /\ Refill(BucketOf(ip)) \in Buckets
<1>1. now \in Nat
  BY DEF TypeOK
<1>2. BucketOf(ip) \in Buckets
  BY <1>1 DEF TypeOK, BucketOf, Buckets
<1> QED
  BY <1>1, <1>2, RefillType

\* What the types say of the limiter alone.
LimiterType ==
    /\ buckets \in [Ips -> Buckets \union {NoBucket}]
    /\ admitted \in [Ips -> Nat] /\ lives \in [Ips -> Nat]

LEMMA ChargeType ==
    ASSUME TypeOK, NEW ip \in Ips, NEW left \in Buckets \union {NoBucket}, Charge(ip, left)
    PROVE  buckets' \in [Ips -> Buckets \union {NoBucket}] /\ lives' \in [Ips -> Nat]
BY DEF TypeOK, Charge

LEMMA AdmitType ==
    ASSUME TypeOK, NEW ip \in Ips, Admit(ip) PROVE LimiterType'
<1> DEFINE b == Refill(BucketOf(ip))
           left == IF now - b.createdAt > CleanupInterval THEN NoBucket
                   ELSE [b EXCEPT !.level = @ - 1]
<1>1. b \in Buckets
  BY BucketOfType
<1>2. b.level >= 1 /\ Charge(ip, left) /\ admitted' = [admitted EXCEPT ![ip] = @ + 1]
  BY DEF Admit
<1> HIDE DEF b
<1>3. left \in Buckets \union {NoBucket}
  BY <1>1, <1>2 DEF Buckets
<1> HIDE DEF left
<1> QED
  BY <1>2, <1>3, ChargeType DEF LimiterType, TypeOK

LEMMA RejectType ==
    ASSUME TypeOK, NEW ip \in Ips, Reject(ip) PROVE LimiterType'
<1>1. Refill(BucketOf(ip)) \in Buckets
  BY BucketOfType
<1>2. Charge(ip, Refill(BucketOf(ip))) /\ admitted' = admitted
  BY DEF Reject
<1> QED
  BY <1>1, <1>2, ChargeType DEF LimiterType, TypeOK

-----------------------------------------------------------------------------
\* The types of the fields of a pair.
LEMMA PairFacts ==
    ASSUME TypeOK
    PROVE  /\ Len(pairs) \in Nat /\ DOMAIN pairs = 1..Len(pairs)
           /\ \A i \in DOMAIN pairs :
                 /\ pairs[i].user \in Users
                 /\ pairs[i].issued \in Nat /\ pairs[i].login \in Nat
<1>1. pairs \in Seq(Pairs)
  BY DEF TypeOK
<1>2. Len(pairs) \in Nat /\ DOMAIN pairs = 1..Len(pairs)
  BY <1>1
<1>3. ASSUME NEW i \in DOMAIN pairs PROVE pairs[i] \in Pairs
  BY <1>1, <1>2, <1>3
<1> QED
  BY <1>2, <1>3 DEF Pairs

\* A step that leaves the tokens alone.
LEMMA TokensUnchanged ==
    ASSUME TokenInv, LimiterType', UNCHANGED <<now, tokenVars>> PROVE TokenInv'
BY DEF TokenInv, TypeOK, LimiterType, LoginsInv, SupersededInv, CaughtInv, tokenVars

\* What a new pair adds to the sequence.
LEMMA PairAdded ==
    ASSUME TypeOK, LoginsInv, NEW u \in Users, NEW c \in ClientIds,
           NEW login \in 1..(Len(pairs) + 1), CreateTokenPair(u, c, login)
    PROVE  LET n == Len(pairs) + 1 IN
           /\ Len(pairs) \in Nat /\ n <= MaxPairs
           /\ pairs' \in Seq(Pairs) /\ Len(pairs') = n /\ DOMAIN pairs' = 1..n
           /\ pairs'[n].user = u /\ pairs'[n].login = login /\ pairs'[n].issued = now
           /\ \A i \in DOMAIN pairs : pairs'[i] = pairs[i]
           /\ DOMAIN pairs = 1..Len(pairs)
           /\ table' = table \union {n}
<1> DEFINE p == [user |-> u, client |-> c, key |-> PrivateKey, issued |-> now, login |-> login]
<1>1. PrivateKey \in Int
  BY DEF PrivateKey, EphemeralKey, TypeOK
<1>2. p \in Pairs
  BY <1>1 DEF Pairs, TypeOK
<1>3. pairs' = Append(pairs, p) /\ Len(pairs) < MaxPairs /\ table' = table \union {Len(pairs) + 1}
  BY DEF CreateTokenPair
<1>4. p.user = u /\ p.login = login /\ p.issued = now
  OBVIOUS
<1> HIDE DEF p
<1>5. pairs \in Seq(Pairs)
  BY DEF TypeOK
<1> QED
  BY <1>2, <1>3, <1>4, <1>5

LEMMA IssueInv ==
    ASSUME TokenInv, LimiterType', NEW u \in Users, NEW c \in ClientIds, Issue(u, c)
    PROVE  TokenInv'
<1> DEFINE n == Len(pairs) + 1
<1> USE DEF TokenInv
<1>1. n \in 1..n
  BY DEF TypeOK
<1>2. CreateTokenPair(u, c, n) /\ UNCHANGED <<now, boot, configured, revoked, caught>>
  BY DEF Issue
<1>3. /\ Len(pairs) \in Nat /\ n <= MaxPairs
      /\ pairs' \in Seq(Pairs) /\ Len(pairs') = n /\ DOMAIN pairs' = 1..n
      /\ pairs'[n].user = u /\ pairs'[n].login = n /\ pairs'[n].issued = now
      /\ \A i \in DOMAIN pairs : pairs'[i] = pairs[i]
      /\ DOMAIN pairs = 1..Len(pairs)
      /\ table' = table \union {n}
  BY <1>1, <1>2, PairAdded
<1>4. TypeOK'
  BY <1>2, <1>3 DEF TypeOK, LimiterType
<1>5. LoginsInv'
  BY <1>2, <1>3 DEF LoginsInv, TypeOK
<1>6. SupersededInv'
  <2> SUFFICES ASSUME NEW j \in 1..n, NEW k \in 1..n, j < k,
                      pairs'[j].login = pairs'[k].login, j \in table'
               PROVE  j \in revoked'
    BY <1>3 DEF SupersededInv
  <2>1. j \in DOMAIN pairs /\ j \in table
    BY <1>3
  <2>2. pairs'[j].login <= j
    BY <1>3, <2>1 DEF LoginsInv
  <2>3. k # n
    BY <1>3, <2>2
  <2> QED
    BY <1>2, <1>3, <2>1, <2>3 DEF SupersededInv
<1>7. CaughtInv'
  <2>1. \A v \in Users : caught'[v].mark \in Nat /\ caught'[v].mark <= Len(pairs)
    BY <1>2 DEF CaughtInv, TypeOK
  <2>2. ASSUME NEW k \in DOMAIN pairs', pairs'[k].login <= caught'[pairs'[k].user].mark
        PROVE  /\ k \in table' => k \in revoked'
               /\ pairs'[k].issued <= caught'[pairs'[k].user].at
    <3>1. k # n
      BY <1>3, <2>1, <2>2
    <3> QED
      BY <1>2, <1>3, <2>2, <3>1 DEF CaughtInv
  <2> QED
    BY <1>3, <2>1, <2>2 DEF CaughtInv
<1> QED
  BY <1>4, <1>5, <1>6, <1>7

\* The exchanged token was the live one of its login, so that the new pair takes
\* its place; and no reuse was detected since that login, so that it may.
LEMMA ExchangeInv ==
    ASSUME TokenInv, LimiterType', NEW i \in DOMAIN pairs, NEW c \in ClientIds, Exchange(i, c)
    PROVE  TokenInv'
<1> DEFINE n == Len(pairs) + 1
<1> USE DEF TokenInv
<1>1. /\ pairs[i].user \in Users /\ pairs[i].login \in 1..n
      /\ i \in table /\ i \notin revoked
  BY PairFacts DEF LoginsInv, Exchange, Rotatable
<1>2. /\ CreateTokenPair(pairs[i].user, c, pairs[i].login)
      /\ revoked' = revoked \union {i}
      /\ UNCHANGED <<now, boot, configured, caught>>
  BY DEF Exchange
<1>3. /\ Len(pairs) \in Nat /\ n <= MaxPairs
      /\ pairs' \in Seq(Pairs) /\ Len(pairs') = n /\ DOMAIN pairs' = 1..n
      /\ pairs'[n].user = pairs[i].user /\ pairs'[n].login = pairs[i].login
      /\ pairs'[n].issued = now
      /\ \A k \in DOMAIN pairs : pairs'[k] = pairs[k]
      /\ DOMAIN pairs = 1..Len(pairs)
      /\ table' = table \union {n}
  BY <1>1, <1>2, PairAdded
<1>4. TypeOK'
  BY <1>1, <1>2, <1>3 DEF TypeOK, LimiterType
<1>5. LoginsInv'
  BY <1>1, <1>2, <1>3 DEF LoginsInv, TypeOK
<1>6. SupersededInv'
  <2> SUFFICES ASSUME NEW j \in 1..n, NEW k \in 1..n, j < k,
                      pairs'[j].login = pairs'[k].login, j \in table'
               PROVE  j \in revoked'
    BY <1>3 DEF SupersededInv
  <2>1. j \in DOMAIN pairs /\ j \in table
    BY <1>3
  <2>2. CASE k = n
    BY <1>1, <1>2, <1>3, <2>1, <2>2 DEF SupersededInv
  <2>3. CASE k # n
    BY <1>2, <1>3, <2>1, <2>3 DEF SupersededInv
  <2> QED
    BY <2>2, <2>3
<1>7. CaughtInv'
  <2>1. ~(pairs[i].login <= caught[pairs[i].user].mark)
    BY <1>1 DEF CaughtInv
  <2>2. \A u \in Users : caught'[u].mark <= Len(pairs')
    BY <1>2, <1>3 DEF CaughtInv, TypeOK
  <2>3. ASSUME NEW k \in DOMAIN pairs', pairs'[k].login <= caught'[pairs'[k].user].mark
        PROVE  /\ k \in table' => k \in revoked'
               /\ pairs'[k].issued <= caught'[pairs'[k].user].at
    <3>1. k # n
      BY <1>2, <1>3, <2>1, <2>3
    <3> QED
      BY <1>2, <1>3, <2>3, <3>1 DEF CaughtInv
  <2> QED
    BY <2>2, <2>3 DEF CaughtInv
<1> QED
  BY <1>4, <1>5, <1>6, <1>7

LEMMA ReuseInv ==
    ASSUME TokenInv, LimiterType', NEW i \in DOMAIN pairs, ReuseDetected(i)
    PROVE  TokenInv'
<1> DEFINE u == pairs[i].user
<1> USE DEF TokenInv
<1>1. /\ revoked' = revoked \union {k \in table : pairs[k].user = u}
      /\ caught' = [caught EXCEPT ![u] = [mark |-> Len(pairs), at |-> now]]
      /\ UNCHANGED <<now, boot, configured, pairs, table>>
  BY DEF ReuseDetected, RevokeAllUserTokens
<1>2. u \in Users /\ Len(pairs) \in Nat /\ DOMAIN pairs = 1..Len(pairs)
  BY PairFacts
<1> HIDE DEF u
<1>3. /\ caught'[u].mark = Len(pairs) /\ caught'[u].at = now
      /\ \A v \in Users : v # u => caught'[v] = caught[v]
  BY <1>1, <1>2 DEF TypeOK
<1>4. TypeOK'
  BY <1>1, <1>2 DEF TypeOK, LimiterType
<1>5. LoginsInv'
  BY <1>1 DEF LoginsInv
<1>6. SupersededInv'
  BY <1>1 DEF SupersededInv
<1>7. CaughtInv'
  <2>1. \A v \in Users : caught'[v].mark <= Len(pairs')
    BY <1>1, <1>2, <1>3 DEF CaughtInv
  <2>2. ASSUME NEW k \in DOMAIN pairs, pairs[k].login <= caught'[pairs[k].user].mark
        PROVE  (k \in table => k \in revoked') /\ pairs[k].issued <= caught'[pairs[k].user].at
    <3>1. CASE pairs[k].user = u
      BY <1>1, <1>3, <3>1 DEF LoginsInv
    <3>2. CASE pairs[k].user # u
      <4>1. pairs[k].user \in Users
        BY PairFacts
      <4> QED
        BY <1>1, <1>3, <2>2, <3>2, <4>1 DEF CaughtInv
    <3> QED
      BY <3>1, <3>2
  <2> QED
    BY <1>1, <2>1, <2>2 DEF CaughtInv
<1> QED
  BY <1>4, <1>5, <1>6, <1>7

-----------------------------------------------------------------------------
LEMMA InitInv == Init => TokenInv
<1> SUFFICES ASSUME Init PROVE TokenInv
  OBVIOUS
<1> USE DEF Init, TokensInit, LimiterInit
<1>1. TypeOK
  BY DEF TypeOK
<1>2. LoginsInv /\ SupersededInv
  BY DEF LoginsInv, SupersededInv
<1>3. CaughtInv
  BY DEF CaughtInv
<1> QED
  BY <1>1, <1>2, <1>3 DEF TokenInv

LEMMA NextInv == TokenInv /\ [Next]_vars => TokenInv'
<1> SUFFICES ASSUME TokenInv, [Next]_vars PROVE TokenInv'
  OBVIOUS
<1>t. TypeOK
  BY DEF TokenInv
<1>1. ASSUME NEW ip \in Ips, NEW u \in Users, NEW c \in ClientIds, IssueToken(ip, u, c)
      PROVE  TokenInv'
  BY <1>1, <1>t, AdmitType, IssueInv DEF IssueToken
<1>2. ASSUME NEW ip \in Ips, NEW i \in DOMAIN pairs, NEW c \in ClientIds, RefreshToken(ip, i, c)
      PROVE  TokenInv'
  <2>1. LimiterType' /\ Rotate(i, c)
    BY <1>2, <1>t, AdmitType DEF RefreshToken
  <2>2. CASE RefreshDenied(i, c)
    BY <2>1, <2>2, TokensUnchanged DEF RefreshDenied
  <2> QED
    BY <2>1, <2>2, ReuseInv, ExchangeInv DEF Rotate
<1>3. ASSUME NEW ip \in Ips, NEW i \in DOMAIN pairs, Hunt(ip, i) PROVE TokenInv'
  BY <1>3, <1>t, AdmitType, TokensUnchanged DEF Hunt
<1>4. ASSUME NEW ip \in Ips, TooManyRequests(ip) PROVE TokenInv'
  BY <1>4, <1>t, RejectType, TokensUnchanged DEF TooManyRequests
<1>5. ASSUME NEW i \in DOMAIN pairs, Revoke(i) PROVE TokenInv'
  BY <1>5 DEF Revoke, RevokeToken, limiterVars, TokenInv, TypeOK, LoginsInv, SupersededInv, CaughtInv
<1>6. CASE Restart
  <2>1. TypeOK'
    BY <1>6, <1>t DEF Restart, TypeOK
  <2> QED
    BY <1>6, <2>1 DEF Restart, TokenInv, LoginsInv, SupersededInv, CaughtInv
<1>7. CASE Wait
  <2>1. now \in Int /\ now' = now + 1 /\ now' \in 0..MaxTime /\ UNCHANGED <<tokenVars, limiterVars>>
    BY <1>7, <1>t DEF Wait, Tick, TypeOK
  <2>2. TypeOK'
    BY <1>t, <2>1 DEF TypeOK, tokenVars, limiterVars
  <2>3. LoginsInv'
    BY <1>t, <2>1, PairFacts DEF LoginsInv, TokenInv, tokenVars
  <2> QED
    BY <2>1, <2>2, <2>3 DEF TokenInv, SupersededInv, CaughtInv, tokenVars
<1>8. CASE UNCHANGED vars
  <2>1. LimiterType'
    BY <1>8, <1>t DEF LimiterType, TypeOK, vars, limiterVars
  <2> QED
    BY <1>8, <2>1, TokensUnchanged DEF vars
<1> QED
  BY <1>1, <1>2, <1>3, <1>4, <1>5, <1>6, <1>7, <1>8 DEF Next

\* The records and answers are well typed, for any number of pairs, restarts and
\* ticks, and only a recorded token is revoked (jwt_handler.py:153).
THEOREM TypeCorrect == Spec => []TypeOK
<1>1. TokenInv => TypeOK
  BY DEF TokenInv
<1> QED
  BY <1>1, InitInv, NextInv, PTL DEF Spec

\* However the tokens of a login were exchanged, lost and presented again, at most
\* the latest can still be exchanged (jwt_handler.py:247).
THEOREM OneLive == Spec => []OneLivePerLogin
<1>1. TokenInv => OneLivePerLogin
  BY DEF TokenInv, SupersededInv, OneLivePerLogin, Rotatable
<1> QED
  BY <1>1, InitInv, NextInv, PTL DEF Spec

\* A detected reuse ends every session its user had (jwt_handler.py:265): none is
\* refreshed again, and none used past the lifetime of an access token.
THEOREM ReuseEnds == Spec => []ReuseEndsSessions
<1>1. ASSUME TokenInv PROVE ReuseEndsSessions
  <2> SUFFICES ASSUME NEW i \in DOMAIN pairs,
                      pairs[i].login <= caught[pairs[i].user].mark
               PROVE  /\ ~Rotatable(i)
                      /\ Accepted(i) => now < caught[pairs[i].user].at + AccessTtl
    BY DEF ReuseEndsSessions
  <2>1. (i \in table => i \in revoked) /\ pairs[i].issued <= caught[pairs[i].user].at
    BY <1>1 DEF TokenInv, CaughtInv
  <2>2. pairs[i].issued \in Nat /\ pairs[i].user \in Users /\ now \in Nat
    BY <1>1, PairFacts DEF TokenInv, TypeOK
  <2>3. caught[pairs[i].user].at \in Nat
    BY <1>1, <2>2 DEF TokenInv, TypeOK
  <2> QED
    BY <2>1, <2>2, <2>3 DEF Rotatable, Accepted, Decodes
<1> QED
  BY <1>1, InitInv, NextInv, PTL DEF Spec

-----------------------------------------------------------------------------
(* The pace of the limiter.  What a bucket still holds and what it let in  *)
(* are paid for by the buckets made and by the refill up to its last one,  *)
(* and the buckets made by the restarts and by the age of the present one. *)
Spent(ip) == IF buckets[ip] = NoBucket THEN admitted[ip] ELSE admitted[ip] + buckets[ip].level

FilledAt(ip) == IF buckets[ip] = NoBucket THEN now ELSE buckets[ip].lastRefill

Dropped(ip) == IF buckets[ip] = NoBucket THEN lives[ip] - boot ELSE lives[ip] - boot - 1

MadeAt(ip) == IF buckets[ip] = NoBucket THEN now ELSE buckets[ip].createdAt

Paced(ip) ==
    /\ FilledAt(ip) <= now /\ MadeAt(ip) <= now
    /\ Spent(ip) <= Capacity * lives[ip] + RefillPerTick * FilledAt(ip)
    /\ Dropped(ip) * (CleanupInterval + 1) <= MadeAt(ip)

PaceInv == \A ip \in Ips : Paced(ip)

LEMMA Distribute ==
    ASSUME NEW a \in Int, NEW b \in Int, NEW c \in Int
    PROVE  (a - b) * c = c * a - c * b
OBVIOUS

LEMMA Monotone ==
    ASSUME NEW a \in Int, NEW b \in Int, NEW c \in Nat, a <= b
    PROVE  c * a <= c * b /\ a * c <= b * c
OBVIOUS

\* What refilling adds to a bucket is paid for by the time it moves on.
LEMMA RefillPaced ==
    ASSUME now \in Nat, NEW b \in Buckets, b.lastRefill <= now
    PROVE  LET r == Refill(b) IN
           /\ r \in Buckets /\ r.createdAt = b.createdAt /\ r.lastRefill <= now
           /\ r.level + RefillPerTick * b.lastRefill <= b.level + RefillPerTick * r.lastRefill
<1> DEFINE elapsed == now - b.lastRefill
           added == elapsed * RefillPerTick
<1>1. b.level \in Nat /\ b.lastRefill \in Nat /\ b.createdAt \in Nat
  BY DEF Buckets
<1>2. Refill(b) \in Buckets
  BY RefillType
<1>3. CASE elapsed >= RefillInterval
  <2>1. added = RefillPerTick * now - RefillPerTick * b.lastRefill /\ added \in Int
    BY <1>1, Distribute
  <2>2. Refill(b) = [b EXCEPT !.level = Lesser(Capacity, b.level + added), !.lastRefill = now]
    BY <1>3 DEF Refill
  <2> HIDE DEF added, elapsed
  <2>3. /\ Refill(b).level = Lesser(Capacity, b.level + added)
        /\ Refill(b).lastRefill = now /\ Refill(b).createdAt = b.createdAt
    BY <2>2 DEF Buckets
  <2>4. Lesser(Capacity, b.level + added) <= b.level + added
    BY <1>1, <2>1 DEF Lesser
  <2>5. RefillPerTick * now \in Int /\ RefillPerTick * b.lastRefill \in Int
    BY <1>1
  <2>6. Refill(b).level \in Int
    BY <1>2 DEF Buckets
  <2>7. Refill(b).level + RefillPerTick * b.lastRefill <= b.level + RefillPerTick * now
    BY <1>1, <2>1, <2>3, <2>4, <2>5, <2>6
  <2> QED
    BY <1>2, <2>3, <2>7
<1>4. CASE ~(elapsed >= RefillInterval)
  <2>1. Refill(b) = b
    BY <1>4 DEF Refill
  <2> QED
    BY <1>1, <2>1
<1> QED
  BY <1>3, <1>4

\* The bucket a request is charged to, an old one or one just made, is paid for.
LEMMA BucketPaid ==
    ASSUME TypeOK, PaceInv, NEW ip \in Ips, NEW left, Charge(ip, left)
    PROVE  LET b == BucketOf(ip) IN
           /\ b \in Buckets /\ b.lastRefill <= now /\ b.createdAt <= now
           /\ lives'[ip] \in Nat
           /\ admitted[ip] + b.level <= Capacity * lives'[ip] + RefillPerTick * b.lastRefill
           /\ (lives'[ip] - boot - 1) * (CleanupInterval + 1) <= b.createdAt
<1>1. now \in Nat /\ boot \in Nat /\ admitted[ip] \in Nat /\ lives[ip] \in Nat
  BY DEF TypeOK
<1>2. BucketOf(ip) \in Buckets
  BY BucketOfType
<1>3. CASE buckets[ip] = NoBucket
  <2>1. lives'[ip] = lives[ip] + 1
    BY <1>3 DEF Charge, TypeOK
  <2>2. /\ BucketOf(ip).level = Capacity
        /\ BucketOf(ip).lastRefill = now /\ BucketOf(ip).createdAt = now
    BY <1>3 DEF BucketOf
  <2>3. /\ admitted[ip] <= Capacity * lives[ip] + RefillPerTick * now
        /\ (lives[ip] - boot) * (CleanupInterval + 1) <= now
    BY <1>3 DEF PaceInv, Paced, Spent, FilledAt, Dropped, MadeAt
  <2>4. Capacity * (lives[ip] + 1) = Capacity * lives[ip] + Capacity
    BY <1>1
  <2>5. Capacity * lives[ip] \in Int /\ RefillPerTick * now \in Int
    BY <1>1
  <2>6. lives[ip] + 1 - boot - 1 = lives[ip] - boot
    BY <1>1
  <2> QED
    BY <1>1, <1>2, <2>1, <2>2, <2>3, <2>4, <2>5, <2>6
<1>4. CASE buckets[ip] # NoBucket
  <2>1. lives'[ip] = lives[ip] /\ BucketOf(ip) = buckets[ip]
    BY <1>4 DEF Charge, BucketOf
  <2> QED
    BY <1>1, <1>2, <1>4, <2>1 DEF PaceInv, Paced, Spent, FilledAt, Dropped, MadeAt
<1> QED
  BY <1>3, <1>4

\* The other addresses are left alone.
LEMMA OthersPaced ==
    ASSUME TypeOK, PaceInv, NEW ip \in Ips, NEW left, Charge(ip, left),
           UNCHANGED <<now, boot>>, Paced(ip)',
           \A x \in Ips : x # ip => admitted'[x] = admitted[x]
    PROVE  PaceInv'
<1> SUFFICES ASSUME NEW x \in Ips PROVE Paced(x)'
  BY DEF PaceInv
<1>1. CASE x # ip
  <2>1. buckets'[x] = buckets[x] /\ lives'[x] = lives[x] /\ admitted'[x] = admitted[x]
    BY <1>1 DEF TypeOK, Charge
  <2> QED
    BY <2>1 DEF PaceInv, Paced, Spent, FilledAt, Dropped, MadeAt
<1> QED
  BY <1>1

LEMMA AdmitPaced ==
    ASSUME TypeOK, PaceInv, NEW ip \in Ips, Admit(ip), UNCHANGED <<now, boot>>
    PROVE  PaceInv'
<1> DEFINE b == BucketOf(ip)
           r == Refill(b)
           left == IF now - r.createdAt > CleanupInterval THEN NoBucket
                   ELSE [r EXCEPT !.level = @ - 1]
<1>1. /\ r.level >= 1 /\ Charge(ip, left)
      /\ admitted' = [admitted EXCEPT ![ip] = @ + 1]
  BY DEF Admit
<1>2. /\ b \in Buckets /\ b.lastRefill <= now /\ b.createdAt <= now
      /\ lives'[ip] \in Nat
      /\ admitted[ip] + b.level <= Capacity * lives'[ip] + RefillPerTick * b.lastRefill
      /\ (lives'[ip] - boot - 1) * (CleanupInterval + 1) <= b.createdAt
  BY <1>1, BucketPaid
<1>3. now \in Nat /\ boot \in Nat /\ admitted[ip] \in Nat /\ admitted'[ip] = admitted[ip] + 1
      /\ buckets'[ip] = left
  BY <1>1 DEF TypeOK, Charge
<1> HIDE DEF b
<1>4. /\ r \in Buckets /\ r.createdAt = b.createdAt /\ r.lastRefill <= now
      /\ r.level + RefillPerTick * b.lastRefill <= b.level + RefillPerTick * r.lastRefill
  BY <1>2, <1>3, RefillPaced
<1> HIDE DEF r
<1>5. /\ b.level \in Nat /\ b.lastRefill \in Nat
      /\ r.level \in Nat /\ r.lastRefill \in Nat /\ r.createdAt \in Nat
  BY <1>2, <1>4 DEF Buckets
<1>6. /\ Capacity * lives'[ip] \in Int /\ RefillPerTick * r.lastRefill \in Int
      /\ RefillPerTick * b.lastRefill \in Int /\ RefillPerTick * now \in Int
  BY <1>2, <1>3, <1>5
<1>7. admitted[ip] + r.level <= Capacity * lives'[ip] + RefillPerTick * r.lastRefill
  BY <1>2, <1>3, <1>4, <1>5, <1>6
<1>8. Paced(ip)'
  <2>1. CASE now - r.createdAt > CleanupInterval
    <3>1. left = NoBucket
      BY <2>1
    <3>2. RefillPerTick * r.lastRefill <= RefillPerTick * now
      BY <1>3, <1>4, <1>5, Monotone
    <3>3. admitted[ip] + 1 <= Capacity * lives'[ip] + RefillPerTick * now
      BY <1>1, <1>3, <1>5, <1>6, <1>7, <3>2
    <3>4. (lives'[ip] - boot) * (CleanupInterval + 1)
             = (lives'[ip] - boot - 1) * (CleanupInterval + 1) + (CleanupInterval + 1)
      BY <1>2, <1>3
    <3>5. (lives'[ip] - boot - 1) * (CleanupInterval + 1) \in Int
      BY <1>2, <1>3
    <3>6. (lives'[ip] - boot) * (CleanupInterval + 1) <= now
      BY <1>2, <1>3, <1>4, <1>5, <2>1, <3>4, <3>5
    <3> QED
      BY <1>3, <3>1, <3>3, <3>6 DEF Paced, Spent, FilledAt, Dropped, MadeAt
  <2>2. CASE ~(now - r.createdAt > CleanupInterval)
    <3>1. left = [r EXCEPT !.level = @ - 1]
      BY <2>2
    <3>2. /\ left.level = r.level - 1 /\ left.lastRefill = r.lastRefill
          /\ left.createdAt = r.createdAt /\ left # NoBucket
      BY <1>4, <1>5, <3>1 DEF Buckets, NoBucket
    <3>3. admitted[ip] + 1 + (r.level - 1) = admitted[ip] + r.level
      BY <1>3, <1>5
    <3> HIDE DEF left
    <3> QED
      BY <1>2, <1>3, <1>4, <1>7, <3>2, <3>3 DEF Paced, Spent, FilledAt, Dropped, MadeAt
  <2> QED
    BY <2>1, <2>2
<1> HIDE DEF left
<1>9. \A x \in Ips : x # ip => admitted'[x] = admitted[x]
  BY <1>1 DEF TypeOK
<1> QED
  BY <1>1, <1>8, <1>9, OthersPaced

LEMMA RejectPaced ==
    ASSUME TypeOK, PaceInv, NEW ip \in Ips, Reject(ip), UNCHANGED <<now, boot>>
    PROVE  PaceInv'
<1> DEFINE b == BucketOf(ip)
           r == Refill(b)
<1>1. Charge(ip, r) /\ admitted' = admitted
  BY DEF Reject
<1>2. /\ b \in Buckets /\ b.lastRefill <= now /\ b.createdAt <= now
      /\ lives'[ip] \in Nat
      /\ admitted[ip] + b.level <= Capacity * lives'[ip] + RefillPerTick * b.lastRefill
      /\ (lives'[ip] - boot - 1) * (CleanupInterval + 1) <= b.createdAt
  BY <1>1, BucketPaid
<1>3. now \in Nat /\ boot \in Nat /\ admitted[ip] \in Nat /\ buckets'[ip] = r
  BY <1>1 DEF TypeOK, Charge
<1> HIDE DEF b
<1>4. /\ r \in Buckets /\ r.createdAt = b.createdAt /\ r.lastRefill <= now
      /\ r.level + RefillPerTick * b.lastRefill <= b.level + RefillPerTick * r.lastRefill
  BY <1>2, <1>3, RefillPaced
<1> HIDE DEF r
<1>5. /\ b.level \in Nat /\ b.lastRefill \in Nat
      /\ r.level \in Nat /\ r.lastRefill \in Nat /\ r.createdAt \in Nat /\ r # NoBucket
  BY <1>2, <1>4 DEF Buckets, NoBucket
<1>6. /\ Capacity * lives'[ip] \in Int /\ RefillPerTick * r.lastRefill \in Int
      /\ RefillPerTick * b.lastRefill \in Int
  BY <1>2, <1>5
<1>7. admitted[ip] + r.level <= Capacity * lives'[ip] + RefillPerTick * r.lastRefill
  BY <1>2, <1>3, <1>4, <1>5, <1>6
<1>8. Paced(ip)'
  BY <1>1, <1>2, <1>3, <1>4, <1>5, <1>7 DEF Paced, Spent, FilledAt, Dropped, MadeAt
<1> QED
  BY <1>1, <1>8, OthersPaced

LEMMA InitPaced == Init => PaceInv
<1> SUFFICES ASSUME Init, NEW ip \in Ips PROVE Paced(ip)
  BY DEF PaceInv
<1>1. /\ now = 0 /\ boot = 0 /\ buckets[ip] = NoBucket
      /\ admitted[ip] = 0 /\ lives[ip] = 0
  BY DEF Init, TokensInit, LimiterInit
<1>2. Capacity * 0 = 0 /\ RefillPerTick * 0 = 0 /\ 0 * (CleanupInterval + 1) = 0
  OBVIOUS
<1> QED
  BY <1>1, <1>2 DEF Paced, Spent, FilledAt, Dropped, MadeAt

\* A new process has no buckets, and counts as one more of them for each address.
LEMMA RestartPaced == ASSUME TypeOK, PaceInv, Restart PROVE PaceInv'
<1> SUFFICES ASSUME NEW ip \in Ips PROVE Paced(ip)'
  BY DEF PaceInv
<1> DEFINE C == CleanupInterval + 1
<1>1. /\ now \in Nat /\ boot \in Nat /\ admitted[ip] \in Nat /\ lives[ip] \in Nat
      /\ now' = now /\ boot' = boot + 1 /\ buckets'[ip] = NoBucket
      /\ admitted' = admitted /\ lives' = lives
  BY DEF TypeOK, Restart
<1>2. Paced(ip)
  BY DEF PaceInv
<1>3. Capacity * lives[ip] \in Int /\ RefillPerTick * now \in Int
  BY <1>1
<1>4. CASE buckets[ip] = NoBucket
  <2>1. (lives[ip] - (boot + 1)) * C <= (lives[ip] - boot) * C
    BY <1>1, Monotone
  <2>2. (lives[ip] - (boot + 1)) * C \in Int /\ (lives[ip] - boot) * C \in Int
    BY <1>1
  <2>3. (lives[ip] - boot) * C <= now /\ admitted[ip] <= Capacity * lives[ip] + RefillPerTick * now
    BY <1>2, <1>4 DEF Paced, Spent, FilledAt, Dropped, MadeAt
  <2>4. (lives[ip] - (boot + 1)) * C <= now
    BY <1>1, <2>1, <2>2, <2>3
  <2> QED
    BY <1>1, <2>3, <2>4 DEF Paced, Spent, FilledAt, Dropped, MadeAt
<1>5. CASE buckets[ip] # NoBucket
  <2>1. buckets[ip] \in Buckets
    BY <1>5 DEF TypeOK
  <2>2. /\ buckets[ip].level \in Nat /\ buckets[ip].lastRefill \in Nat
        /\ buckets[ip].createdAt \in Nat
    BY <2>1 DEF Buckets
  <2>3. /\ buckets[ip].lastRefill <= now /\ buckets[ip].createdAt <= now
        /\ admitted[ip] + buckets[ip].level
              <= Capacity * lives[ip] + RefillPerTick * buckets[ip].lastRefill
        /\ (lives[ip] - boot - 1) * C <= buckets[ip].createdAt
    BY <1>2, <1>5 DEF Paced, Spent, FilledAt, Dropped, MadeAt
  <2>4. /\ RefillPerTick * buckets[ip].lastRefill <= RefillPerTick * now
        /\ RefillPerTick * buckets[ip].lastRefill \in Int
    BY <1>1, <2>2, <2>3, Monotone
  <2>5. admitted[ip] <= Capacity * lives[ip] + RefillPerTick * now
    BY <1>1, <1>3, <2>2, <2>3, <2>4
  <2>6. (lives[ip] - (boot + 1)) * C <= now
    <3>1. lives[ip] - (boot + 1) = lives[ip] - boot - 1
      BY <1>1
    <3>2. (lives[ip] - boot - 1) * C \in Int
      BY <1>1
    <3> QED
      BY <1>1, <2>2, <2>3, <3>1, <3>2
  <2> QED
    BY <1>1, <2>5, <2>6 DEF Paced, Spent, FilledAt, Dropped, MadeAt
<1> QED
  BY <1>4, <1>5

LEMMA WaitPaced == ASSUME TypeOK, PaceInv, Wait PROVE PaceInv'
<1> SUFFICES ASSUME NEW ip \in Ips PROVE Paced(ip)'
  BY DEF PaceInv
<1>1. /\ now \in Nat /\ now' = now + 1
      /\ boot' = boot /\ buckets' = buckets /\ admitted' = admitted /\ lives' = lives
      /\ boot \in Nat /\ admitted[ip] \in Nat /\ lives[ip] \in Nat
  BY DEF TypeOK, Wait, Tick, tokenVars, limiterVars
<1>2. Paced(ip)
  BY DEF PaceInv
<1>3. CASE buckets[ip] = NoBucket
  <2>1. RefillPerTick * now <= RefillPerTick * (now + 1)
    BY <1>1, Monotone
  <2>2. /\ Capacity * lives[ip] \in Int /\ RefillPerTick * now \in Int
        /\ RefillPerTick * (now + 1) \in Int
        /\ (lives[ip] - boot) * (CleanupInterval + 1) \in Int
    BY <1>1
  <2>3. /\ admitted[ip] <= Capacity * lives[ip] + RefillPerTick * now
        /\ (lives[ip] - boot) * (CleanupInterval + 1) <= now
    BY <1>2, <1>3 DEF Paced, Spent, FilledAt, Dropped, MadeAt
  <2>4. /\ admitted[ip] <= Capacity * lives[ip] + RefillPerTick * (now + 1)
        /\ (lives[ip] - boot) * (CleanupInterval + 1) <= now + 1
    BY <1>1, <2>1, <2>2, <2>3
  <2> QED
    BY <1>1, <1>3, <2>4 DEF Paced, Spent, FilledAt, Dropped, MadeAt
<1>4. CASE buckets[ip] # NoBucket
  <2>1. buckets[ip].lastRefill \in Nat /\ buckets[ip].createdAt \in Nat
    BY <1>4 DEF TypeOK, Buckets
  <2> QED
    BY <1>1, <1>2, <1>4, <2>1 DEF Paced, Spent, FilledAt, Dropped, MadeAt
<1> QED
  BY <1>3, <1>4

\* Steps that touch neither buckets nor clock.
LEMMA PaceUnchanged == ASSUME PaceInv, UNCHANGED <<now, boot, limiterVars>> PROVE PaceInv'
BY DEF PaceInv, Paced, Spent, FilledAt, Dropped, MadeAt, limiterVars

LEMMA NextPaced == TypeOK /\ PaceInv /\ [Next]_vars => PaceInv'
<1> SUFFICES ASSUME TypeOK, PaceInv, [Next]_vars PROVE PaceInv'
  OBVIOUS
<1>1. ASSUME NEW ip \in Ips, NEW u \in Users, NEW c \in ClientIds, IssueToken(ip, u, c)
      PROVE  PaceInv'
  BY <1>1, AdmitPaced DEF IssueToken, Issue
<1>2. ASSUME NEW ip \in Ips, NEW i \in DOMAIN pairs, NEW c \in ClientIds, RefreshToken(ip, i, c)
      PROVE  PaceInv'
  <2>1. UNCHANGED <<now, boot>>
    BY <1>2 DEF RefreshToken, Rotate, ReuseDetected, Exchange, RefreshDenied, tokenVars
  <2> QED
    BY <1>2, <2>1, AdmitPaced DEF RefreshToken
<1>3. ASSUME NEW ip \in Ips, NEW i \in DOMAIN pairs, Hunt(ip, i) PROVE PaceInv'
  BY <1>3, AdmitPaced DEF Hunt, tokenVars
<1>4. ASSUME NEW ip \in Ips, TooManyRequests(ip) PROVE PaceInv'
  BY <1>4, RejectPaced DEF TooManyRequests, tokenVars
<1>5. ASSUME NEW i \in DOMAIN pairs, Revoke(i) PROVE PaceInv'
  BY <1>5, PaceUnchanged DEF Revoke, RevokeToken
<1>6. CASE UNCHANGED vars
  BY <1>6, PaceUnchanged DEF vars, tokenVars
<1> QED
  BY <1>1, <1>2, <1>3, <1>4, <1>5, <1>6, RestartPaced, WaitPaced DEF Next

\* Each address is let in at the pace of its buckets (core/rate_limiter.py:39): a
\* full one anew at most once in each cleanup interval and restart, and the refill.
THEOREM BucketPace == Spec => []BucketsPaced
<1>1. ASSUME TypeOK, PaceInv PROVE BucketsPaced
  <2> SUFFICES ASSUME NEW ip \in Ips
               PROVE  /\ admitted[ip] <= Capacity * lives[ip] + RefillPerTick * now
                      /\ (lives[ip] - boot - 1) * (CleanupInterval + 1) <= now
    BY DEF BucketsPaced
  <2>1. now \in Nat /\ boot \in Nat /\ admitted[ip] \in Nat /\ lives[ip] \in Nat /\ Paced(ip)
    BY <1>1 DEF TypeOK, PaceInv
  <2>2. /\ Capacity * lives[ip] \in Int /\ RefillPerTick * now \in Int
        /\ (lives[ip] - boot - 1) * (CleanupInterval + 1) \in Int
        /\ (lives[ip] - boot) * (CleanupInterval + 1) \in Int
    BY <2>1
  <2>3. CASE buckets[ip] = NoBucket
    <3>1. (lives[ip] - boot - 1) * (CleanupInterval + 1) <= (lives[ip] - boot) * (CleanupInterval + 1)
      BY <2>1, Monotone
    <3> QED
      BY <2>1, <2>2, <2>3, <3>1 DEF Paced, Spent, FilledAt, Dropped, MadeAt
  <2>4. CASE buckets[ip] # NoBucket
    <3>1. /\ buckets[ip].level \in Nat /\ buckets[ip].lastRefill \in Nat
          /\ buckets[ip].createdAt \in Nat
      BY <1>1, <2>4 DEF TypeOK, Buckets
    <3>2. /\ buckets[ip].lastRefill <= now /\ buckets[ip].createdAt <= now
          /\ admitted[ip] + buckets[ip].level
                <= Capacity * lives[ip] + RefillPerTick * buckets[ip].lastRefill
          /\ (lives[ip] - boot - 1) * (CleanupInterval + 1) <= buckets[ip].createdAt
      BY <2>1, <2>4 DEF Paced, Spent, FilledAt, Dropped, MadeAt
    <3>3. /\ RefillPerTick * buckets[ip].lastRefill <= RefillPerTick * now
          /\ RefillPerTick * buckets[ip].lastRefill \in Int
      BY <2>1, <3>1, <3>2, Monotone
    <3> QED
      BY <2>1, <2>2, <3>1, <3>2, <3>3
  <2> QED
    BY <2>3, <2>4
<1>2. TypeOK /\ PaceInv => BucketsPaced
  BY <1>1
<1> QED
  BY <1>2, TypeCorrect, InitPaced, NextPaced, PTL DEF Spec

-----------------------------------------------------------------------------
(* A pair is signed only for a request that was let in.                    *)
SignedInv == IsFiniteSet(Admissions) /\ Len(pairs) <= Cardinality(Admissions)

LEMMA OneAdmission ==
    ASSUME TypeOK, NEW ip \in Ips, Admit(ip)
    PROVE  \E x : x \notin Admissions /\ Admissions' = Admissions \union {x}
<1>1. PICK n : n = admitted[ip]
  OBVIOUS
<1>2. /\ n \in Nat /\ admitted'[ip] = n + 1
      /\ \A a \in Ips : a # ip => admitted'[a] = admitted[a]
  BY <1>1 DEF TypeOK, Admit
<1>3. 1..(n + 1) = (1..n) \union {n + 1} /\ n + 1 \notin 1..n
  BY <1>2
<1>4. \A x : x \in Admissions <=> \E a \in Ips : x \in {a} \X (1..admitted[a])
  BY DEF Admissions
<1>5. \A x : x \in Admissions' <=> \E a \in Ips : x \in {a} \X (1..admitted'[a])
  BY DEF Admissions
<1>6. <<ip, n + 1>> \notin Admissions
  BY <1>1, <1>3, <1>4
<1>7. <<ip, n + 1>> \in Admissions'
  BY <1>2, <1>3, <1>5
<1>8. ASSUME NEW x \in Admissions PROVE x \in Admissions'
  BY <1>1, <1>2, <1>3, <1>4, <1>5
<1>9. ASSUME NEW x \in Admissions', x # <<ip, n + 1>> PROVE x \in Admissions
  BY <1>1, <1>2, <1>3, <1>4, <1>5, <1>9
<1>10. Admissions' = Admissions \union {<<ip, n + 1>>}
  BY <1>7, <1>8, <1>9
<1> QED
  BY <1>6, <1>10

LEMMA AdmitSigned ==
    ASSUME TypeOK, SignedInv, NEW ip \in Ips, Admit(ip),
           Len(pairs') \in Nat, Len(pairs') <= Len(pairs) + 1
    PROVE  SignedInv'
<1>1. PICK x : x \notin Admissions /\ Admissions' = Admissions \union {x}
  BY OneAdmission
<1>2. IsFiniteSet(Admissions) /\ Len(pairs) <= Cardinality(Admissions)
  BY DEF SignedInv
<1>3. IsFiniteSet(Admissions') /\ Cardinality(Admissions') = Cardinality(Admissions) + 1
  BY <1>1, <1>2, FS_AddElement
<1>4. Cardinality(Admissions) \in Nat /\ Len(pairs) \in Nat
  BY <1>2, FS_CardinalityType, PairFacts
<1> QED
  BY <1>2, <1>3, <1>4 DEF SignedInv

LEMMA SignedKept == ASSUME SignedInv, UNCHANGED <<pairs, admitted>> PROVE SignedInv'
BY DEF SignedInv, Admissions

LEMMA InitSigned == Init => SignedInv
<1> SUFFICES ASSUME Init PROVE SignedInv
  OBVIOUS
<1>1. \A ip \in Ips : {ip} \X (1..admitted[ip]) = {}
  <2>1. 1..0 = {}
    OBVIOUS
  <2> QED
    BY <2>1 DEF Init, LimiterInit
<1>2. Admissions = {}
  BY <1>1 DEF Admissions
<1>3. Len(pairs) = 0
  BY DEF Init, TokensInit
<1> QED
  BY <1>2, <1>3, FS_EmptySet DEF SignedInv

LEMMA NextSigned == TypeOK /\ SignedInv /\ [Next]_vars => SignedInv'
<1> SUFFICES ASSUME TypeOK, SignedInv, [Next]_vars PROVE SignedInv'
  OBVIOUS
<1>1. pairs \in Seq(Pairs) /\ Len(pairs) \in Nat
  BY PairFacts DEF TypeOK
<1>2. ASSUME NEW u, NEW c, NEW login, CreateTokenPair(u, c, login)
      PROVE  Len(pairs') \in Nat /\ Len(pairs') <= Len(pairs) + 1
  <2>1. PICK p : pairs' = Append(pairs, p)
    BY <1>2 DEF CreateTokenPair
  <2> QED
    BY <1>1, <2>1
<1>3. ASSUME NEW ip \in Ips, NEW u \in Users, NEW c \in ClientIds, IssueToken(ip, u, c)
      PROVE  SignedInv'
  BY <1>2, <1>3, AdmitSigned DEF IssueToken, Issue
<1>4. ASSUME NEW ip \in Ips, NEW i \in DOMAIN pairs, NEW c \in ClientIds, RefreshToken(ip, i, c)
      PROVE  SignedInv'
  <2>1. Admit(ip) /\ Rotate(i, c)
    BY <1>4 DEF RefreshToken
  <2>2. pairs' = pairs \/ Exchange(i, c)
    BY <2>1 DEF Rotate, ReuseDetected, RefreshDenied, tokenVars
  <2>3. Len(pairs') \in Nat /\ Len(pairs') <= Len(pairs) + 1
    BY <1>1, <1>2, <2>2 DEF Exchange
  <2> QED
    BY <2>1, <2>3, AdmitSigned
<1>5. ASSUME NEW ip \in Ips, NEW i \in DOMAIN pairs, Hunt(ip, i) PROVE SignedInv'
  BY <1>1, <1>5, AdmitSigned DEF Hunt, tokenVars
<1>6. CASE \/ \E ip \in Ips : TooManyRequests(ip)
           \/ \E i \in DOMAIN pairs : Revoke(i)
           \/ Restart \/ Wait \/ UNCHANGED vars
  BY <1>6, SignedKept DEF TooManyRequests, Reject, Revoke, RevokeToken, Restart, Wait,
     vars, tokenVars, limiterVars
<1> QED
  BY <1>3, <1>4, <1>5, <1>6 DEF Next

\* Clients are let in at the pace of their buckets (core/rate_limiter.py:39), and the
\* table of refresh tokens, which is never pruned, grows no faster.
THEOREM AdmissionPace == Spec => []AdmissionsPaced
<1>1. Spec => []TypeOK /\ []BucketsPaced
  BY TypeCorrect, BucketPace
<1>2. Spec => []SignedInv
  BY <1>1, InitSigned, NextSigned, PTL DEF Spec
<1>3. SignedInv /\ BucketsPaced => AdmissionsPaced
  BY DEF SignedInv, AdmissionsPaced
<1> QED
  BY <1>1, <1>2, <1>3, PTL
=============================================================================
