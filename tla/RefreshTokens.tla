--------------------------- MODULE RefreshTokens ----------------------------
(***************************************************************************)
(* core/jwt_handler.py: the token pairs one worker process of the API      *)
(* signs, and its in-memory table of refresh tokens.  Workers share no     *)
(* table; a token of another worker, or of this one before it was          *)
(* restarted, has no record here.                                          *)
(*                                                                         *)
(* A pair's number stands for the jti of both of its tokens.               *)
(***************************************************************************)
EXTENDS WallClock, Sequences

CONSTANTS
    Users, ClientIds,
    DefaultClient,          \* the client_id every route verifies with
    AccessTtl, RefreshTtl,  \* lifetimes, in ticks
    MaxPairs                \* bound on the pairs signed

ASSUME TokensAssumption ==
    /\ DefaultClient \in ClientIds
    /\ AccessTtl \in Nat /\ RefreshTtl \in Nat
    /\ MaxPairs \in Nat

VARIABLES
    boot,     \* how often the process was started again
    configured, \* which of JWT_PRIVATE_KEY and JWT_PUBLIC_KEY are set
    pairs,    \* the pairs signed so far
    table,    \* _refresh_tokens: the pairs with a record
    revoked,  \* the records with revoked set
    caught    \* per user, the last reuse detected: the pairs there were, and when

tokenVars == <<boot, configured, pairs, table, revoked, caught>>

Pairs == [user: Users, client: ClientIds, key: Int, issued: Nat, login: Nat]

TokensInit ==
    /\ boot = 0
    /\ configured \in SUBSET {"private", "public"}
    /\ pairs = <<>>
    /\ table = {}
    /\ revoked = {}
    /\ caught = [u \in Users |-> [mark |-> 0, at |-> 0]]

-----------------------------------------------------------------------------
\* The configured keys are one pair (-1); a process without them makes its own.
EphemeralKey == boot
PrivateKey == IF "private" \in configured THEN -1 ELSE EphemeralKey
PublicKey == IF "public" \in configured THEN -1 ELSE EphemeralKey

\* jwt.decode: the signature, and exp not reached.
Decodes(i, ttl) == pairs[i].key = PublicKey /\ now < pairs[i].issued + ttl

Accepted(i) == Decodes(i, AccessTtl) /\ pairs[i].client = DefaultClient

Rotatable(i) == i \in table \ revoked /\ Decodes(i, RefreshTtl)

\* A pair is signed and its refresh token recorded, whether or not the route's
\* audit entry is then written and its answer arrives.
CreateTokenPair(u, c, login) ==
    LET i == Len(pairs) + 1 IN
    /\ Len(pairs) < MaxPairs
    /\ pairs' = Append(pairs, [user |-> u, client |-> c, key |-> PrivateKey,
                               issued |-> now, login |-> login])
    /\ table' = table \union {i}

Issue(u, c) ==
    /\ CreateTokenPair(u, c, Len(pairs) + 1)
    /\ UNCHANGED <<now, boot, configured, revoked, caught>>

\* Mutant: only the user's latest record is revoked.
RevokeAllUserTokensMutant(u) ==
    revoked' = revoked \union {i \in table : /\ pairs[i].user = u
                                            /\ \A j \in table : pairs[j].user = u => j <= i}

RevokeAllUserTokens(u) ==
    revoked' = revoked \union {i \in table : pairs[i].user = u}

\* A revoked token is presented again, by whatever client.
ReuseDetected(i) ==
    /\ Decodes(i, RefreshTtl)
    /\ i \in table \intersect revoked
    /\ RevokeAllUserTokens(pairs[i].user)
    /\ caught' = [caught EXCEPT ![pairs[i].user] = [mark |-> Len(pairs), at |-> now]]
    /\ UNCHANGED <<now, boot, configured, pairs, table>>

\* Mutant: the old token stays valid.
ExchangeMutant(i, c) ==
    /\ Rotatable(i)
    /\ pairs[i].client = c
    /\ CreateTokenPair(pairs[i].user, c, pairs[i].login)
    /\ UNCHANGED <<now, boot, configured, revoked, caught>>

Exchange(i, c) ==
    /\ Rotatable(i)
    /\ pairs[i].client = c
    /\ revoked' = revoked \union {i}
    /\ CreateTokenPair(pairs[i].user, c, pairs[i].login)
    /\ UNCHANGED <<now, boot, configured, caught>>

\* The token is bad, expired, unknown to this process or bound to another client.
RefreshDenied(i, c) ==
    /\ \/ ~Decodes(i, RefreshTtl)
       \/ i \notin table
       \/ i \notin revoked /\ pairs[i].client # c
    /\ UNCHANGED <<now, tokenVars>>

Rotate(i, c) == ReuseDetected(i) \/ Exchange(i, c) \/ RefreshDenied(i, c)

RevokeToken(i) ==
    /\ i \in table
    /\ revoked' = revoked \union {i}
    /\ UNCHANGED <<now, boot, configured, pairs, table, caught>>
=============================================================================
