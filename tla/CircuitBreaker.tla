--------------------------- MODULE CircuitBreaker ---------------------------
(***************************************************************************)
(* core/circuit_breaker.py: one breaker shared by concurrent asyncio       *)
(* callers.  __aenter__ and __aexit__ never wait while they hold the lock, *)
(* so each is one step; the guarded call runs between them.  A rejected    *)
(* caller changes nothing and is no step.                                  *)
(***************************************************************************)
EXTENDS Integers, FiniteSets

CONSTANTS
    Calls,             \* the callers, each with one call at a time
    FailureThreshold,
    RecoveryTimeout,   \* in ticks of the monotonic clock
    HalfOpenMaxCalls

ASSUME CallsAssumption == IsFiniteSet(Calls)
ASSUME LimitsAssumption ==
    FailureThreshold \in Nat \ {0} /\ RecoveryTimeout \in Nat \ {0}
    /\ HalfOpenMaxCalls \in Nat \ {0}

VARIABLES
    state,          \* "closed", "open" or "half_open"
    failureCount,   \* counted up to the threshold: the code only tests >=
    elapsed,        \* since last_failure_time, counted up to RecoveryTimeout
    halfOpenCalls,
    running,        \* the calls between __aenter__ and __aexit__
    probing,        \* those admitted in the present half-open period
    healthy,        \* whether the guarded service has recovered for good
    doomed          \* running calls started before it had

vars == <<state, failureCount, elapsed, halfOpenCalls, running, probing,
          healthy, doomed>>

MinOf(a, b) == IF a < b THEN a ELSE b

Init ==
    /\ state = "closed"
    /\ failureCount = 0
    /\ elapsed = RecoveryTimeout
    /\ halfOpenCalls = 0
    /\ running = {} /\ probing = {} /\ doomed = {}
    /\ healthy = FALSE

-----------------------------------------------------------------------------
\* Mutant: one probe too many.
ProbeSlotFreeMutant == halfOpenCalls <= HalfOpenMaxCalls

ProbeSlotFree == halfOpenCalls < HalfOpenMaxCalls

Start(c) ==
    /\ running' = running \union {c}
    /\ doomed' = IF healthy THEN doomed ELSE doomed \union {c}
    /\ UNCHANGED <<failureCount, elapsed, healthy>>

EnterClosed(c) ==
    /\ c \notin running
    /\ state = "closed"
    /\ Start(c)
    /\ UNCHANGED <<state, halfOpenCalls, probing>>

\* The first call after the recovery timeout half-opens the breaker.
EnterOpen(c) ==
    /\ c \notin running
    /\ state = "open" /\ elapsed >= RecoveryTimeout
    /\ state' = "half_open"
    /\ halfOpenCalls' = 1
    /\ probing' = {c}
    /\ Start(c)

EnterHalfOpen(c) ==
    /\ c \notin running
    /\ state = "half_open" /\ ProbeSlotFree
    /\ halfOpenCalls' = halfOpenCalls + 1
    /\ probing' = probing \union {c}
    /\ Start(c)
    /\ UNCHANGED state

Enter(c) == EnterClosed(c) \/ EnterOpen(c) \/ EnterHalfOpen(c)

\* Mutant: off by one.
TripsMutant(count) == count > FailureThreshold

Trips(count) == count >= FailureThreshold

End(c) ==
    /\ c \in running
    /\ running' = running \ {c}
    /\ doomed' = doomed \ {c}
    /\ UNCHANGED healthy

\* Mutant: only a closed breaker opens.
FailMutant(c) ==
    /\ End(c) /\ (c \in doomed \/ ~ healthy)
    /\ failureCount' = MinOf(failureCount + 1, FailureThreshold)
    /\ elapsed' = 0
    /\ IF Trips(failureCount') /\ state = "closed"
         THEN state' = "open" /\ halfOpenCalls' = 0 /\ probing' = {}
         ELSE probing' = probing \ {c} /\ UNCHANGED <<state, halfOpenCalls>>

\* The call raises, or is cancelled: both reach __aexit__ as an exception.
Fail(c) ==
    /\ End(c) /\ (c \in doomed \/ ~ healthy)
    /\ failureCount' = MinOf(failureCount + 1, FailureThreshold)
    /\ elapsed' = 0
    /\ IF Trips(failureCount')
         THEN state' = "open" /\ halfOpenCalls' = 0 /\ probing' = {}
         ELSE probing' = probing \ {c} /\ UNCHANGED <<state, halfOpenCalls>>

\* Only in the half-open state does a success change the breaker, whichever
\* period the call was admitted in.
Succeed(c) ==
    /\ End(c)
    /\ IF state = "half_open"
         THEN /\ state' = "closed"
              /\ failureCount' = 0 /\ halfOpenCalls' = 0 /\ probing' = {}
         ELSE /\ probing' = probing \ {c}
              /\ UNCHANGED <<state, failureCount, halfOpenCalls>>
    /\ UNCHANGED elapsed

Tick ==
    /\ elapsed' = MinOf(elapsed + 1, RecoveryTimeout)
    /\ UNCHANGED <<state, failureCount, halfOpenCalls, running, probing,
                   healthy, doomed>>

\* The environment: from here on only calls begun before can fail.
Heal ==
    /\ ~ healthy /\ healthy' = TRUE
    /\ UNCHANGED <<state, failureCount, elapsed, halfOpenCalls, running,
                   probing, doomed>>

Next ==
    \/ \E c \in Calls : Enter(c) \/ Fail(c) \/ Succeed(c)
    \/ Tick
    \/ Heal

Spec == Init /\ [][Next]_vars

\* Time passes, callers keep calling, and a call that runs ends.
FairSpec ==
    /\ Spec
    /\ WF_vars(Tick)
    /\ \A c \in Calls : WF_vars(Enter(c)) /\ WF_vars(Fail(c) \/ Succeed(c))

-----------------------------------------------------------------------------
(* Properties.                                                             *)

\* Every variable has its type; no half-open period admits more than
\* HalfOpenMaxCalls calls.
TypeOK ==
    /\ state \in {"closed", "open", "half_open"}
    /\ failureCount \in 0..FailureThreshold
    /\ elapsed \in 0..RecoveryTimeout
    /\ halfOpenCalls \in 0..HalfOpenMaxCalls
    /\ running \subseteq Calls
    /\ probing \subseteq running
    /\ healthy \in BOOLEAN
    /\ doomed \subseteq running

\* The count and the state agree: the breaker lets calls through freely
\* exactly while fewer failures than the threshold are counted, although
\* calls of earlier periods end late and in any order.
TrippedIffNotClosed == (failureCount >= FailureThreshold) <=> (state # "closed")

\* A half-open breaker cannot wedge: each slot it has given out, and it has
\* given out one at least, is held by a call still running, whose end decides
\* the state.
ProbesAccounted ==
    /\ state = "half_open" => halfOpenCalls > 0
    /\ halfOpenCalls = Cardinality(probing)

\* While the breaker is tripped no call begins until a whole recovery timeout
\* has passed since the last failure, the late failures of calls admitted long
\* before included.
QuietAfterFailure ==
    [][ failureCount >= FailureThreshold /\ ~ (running' \subseteq running)
        => elapsed = RecoveryTimeout ]_vars

\* Once the service is healthy the breaker closes for good, whatever calls
\* were in flight.
Recovers == healthy ~> [](state = "closed")
=============================================================================
