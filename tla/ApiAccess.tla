----------------------------- MODULE ApiAccess ------------------------------
(***************************************************************************)
(* The authenticated routes of one worker process (api/app.py): token      *)
(* issue and refresh behind the request limiter, and the hunting routes,   *)
(* which verify the access token before they charge the client's bucket.   *)
(* A handler has no await between its steps, so each request is one action.*)
(* The router is included in the application before issue and refresh are  *)
(* declared on it, so at this commit HTTP does not reach these two; they   *)
(* are modelled as the handlers they are.                                  *)
(***************************************************************************)
EXTENDS RefreshTokens, RequestLimiter, FiniteSets

CONSTANT MaxBoots    \* bound on the restarts

ASSUME BootsAssumption == MaxBoots \in Nat

vars == <<now, tokenVars, limiterVars>>

Init == now = 0 /\ TokensInit /\ LimiterInit

IssueToken(ip, u, c) == Admit(ip) /\ Issue(u, c)

RefreshToken(ip, i, c) == Admit(ip) /\ Rotate(i, c)

\* hunting_events and hunting_timeline; a bad token costs no charge.
Hunt(ip, i) ==
    /\ Accepted(i)
    /\ Admit(ip)
    /\ UNCHANGED <<now, tokenVars>>

\* Either limited route, turned away.
TooManyRequests(ip) == Reject(ip) /\ UNCHANGED <<now, tokenVars>>

\* The module's revoke_token, which no route calls.
Revoke(i) == RevokeToken(i) /\ UNCHANGED limiterVars

\* Mutant: the revocations outlive the table.
RestartMutant ==
    /\ boot < MaxBoots
    /\ boot' = boot + 1
    /\ table' = {}
    /\ buckets' = [ip \in Ips |-> NoBucket]
    /\ UNCHANGED <<now, configured, pairs, revoked, caught, admitted, lives>>

\* A new process: the tables and the buckets are empty and, if it has no
\* configured ones, the keys are new.  The tokens out there remain.
Restart ==
    /\ boot < MaxBoots
    /\ boot' = boot + 1
    /\ table' = {} /\ revoked' = {}
    /\ buckets' = [ip \in Ips |-> NoBucket]
    /\ UNCHANGED <<now, configured, pairs, caught, admitted, lives>>

Wait == Tick /\ UNCHANGED <<tokenVars, limiterVars>>

Next ==
    \/ \E ip \in Ips, u \in Users, c \in ClientIds : IssueToken(ip, u, c)
    \/ \E ip \in Ips, i \in DOMAIN pairs, c \in ClientIds : RefreshToken(ip, i, c)
    \/ \E ip \in Ips, i \in DOMAIN pairs : Hunt(ip, i)
    \/ \E ip \in Ips : TooManyRequests(ip)
    \/ \E i \in DOMAIN pairs : Revoke(i)
    \/ Restart
    \/ Wait

Spec == Init /\ [][Next]_vars

-----------------------------------------------------------------------------
(* The state has its types; records and answers are of pairs that were     *)
(* signed, and only a recorded token can be revoked (jwt_handler.py:153).  *)
TypeOK ==
    /\ now \in 0..MaxTime /\ boot \in 0..MaxBoots
    /\ configured \subseteq {"private", "public"}
    /\ pairs \in Seq(Pairs) /\ Len(pairs) <= MaxPairs
    /\ table \subseteq DOMAIN pairs
    /\ revoked \subseteq table
    /\ caught \in [Users -> [mark: 0..MaxPairs, at: 0..MaxTime]]
    /\ buckets \in [Ips -> Buckets \union {NoBucket}]
    /\ admitted \in [Ips -> Nat] /\ lives \in [Ips -> Nat]

(* Refresh token rotation (jwt_handler.py:247): however the tokens of a    *)
(* login were exchanged, lost and presented again, at most one of them can *)
(* still be exchanged, and it is the latest.                               *)
OneLivePerLogin ==
    \A i, j \in DOMAIN pairs :
        i < j /\ pairs[i].login = pairs[j].login => ~Rotatable(i)

(* Once the reuse of a token was detected (jwt_handler.py:265), no session *)
(* its user had then can be refreshed, and what was signed for those       *)
(* sessions is accepted by the routes no longer than an access token's     *)
(* lifetime, through later logins, exchanges and restarts.                 *)
ReuseEndsSessions ==
    \A i \in DOMAIN pairs :
        LET c == caught[pairs[i].user] IN
        pairs[i].login <= c.mark =>
            ~Rotatable(i) /\ (Accepted(i) => now < c.at + AccessTtl)

(* The pace the limiter promises, with what throwing buckets away adds     *)
(* (rate_limiter.py:48): a client gets a bucket's capacity anew at most    *)
(* once in every cleanup interval and restart, and what is refilled.       *)
BucketsPaced ==
    \A ip \in Ips :
        /\ admitted[ip] <= Capacity * lives[ip] + RefillPerTick * now
        /\ (lives[ip] - boot - 1) * (CleanupInterval + 1) <= now

\* The requests let in, whoever sent them.
Admissions == UNION {{ip} \X (1..admitted[ip]) : ip \in Ips}

(* Clients are let in at that pace, and the table of refresh tokens, which *)
(* is never pruned, grows no faster.                                       *)
AdmissionsPaced == BucketsPaced /\ Len(pairs) <= Cardinality(Admissions)
=============================================================================
