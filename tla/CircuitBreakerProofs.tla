------------------------ MODULE CircuitBreakerProofs ------------------------
(***************************************************************************)
(* Proofs about CircuitBreaker, for any finite set of callers and any      *)
(* limits.                                                                 *)
(***************************************************************************)
EXTENDS CircuitBreaker, FiniteSetTheorems, TLAPS

\* Probes exist only while the breaker is half open, and it is half open only
\* when no failure came in for a whole recovery timeout.
PeriodInv ==
    /\ state # "half_open" => probing = {}
    /\ state = "half_open" => elapsed = RecoveryTimeout

IInv == TypeOK /\ TrippedIffNotClosed /\ ProbesAccounted /\ PeriodInv

LEMMA InitInv == Init => IInv
<1> SUFFICES ASSUME Init PROVE IInv
  OBVIOUS
<1>1. TypeOK
  <2>1. 0 \in 0..FailureThreshold /\ 0 \in 0..HalfOpenMaxCalls
        /\ RecoveryTimeout \in 0..RecoveryTimeout
    BY LimitsAssumption
  <2> QED
    BY <2>1, Zenon DEF Init, TypeOK
<1>3. TrippedIffNotClosed
  <2>1. ~ (failureCount >= FailureThreshold) /\ state = "closed"
    BY LimitsAssumption DEF Init
  <2> QED
    BY <2>1 DEF TrippedIffNotClosed
<1>4. PeriodInv
  BY DEF Init, PeriodInv
<1>2. ProbesAccounted
  BY FS_EmptySet DEF Init, ProbesAccounted
<1> QED
  BY <1>1, <1>2, <1>3, <1>4 DEF IInv

\* What the limits and the types give every step.
LEMMA Bounds ==
    ASSUME TypeOK
    PROVE  /\ failureCount \in Nat /\ elapsed \in Nat /\ halfOpenCalls \in Nat
           /\ FailureThreshold \in Nat \ {0} /\ RecoveryTimeout \in Nat \ {0}
           /\ HalfOpenMaxCalls \in Nat \ {0}
           /\ failureCount <= FailureThreshold /\ elapsed <= RecoveryTimeout
           /\ halfOpenCalls <= HalfOpenMaxCalls
           /\ IsFiniteSet(probing)
<1>1. IsFiniteSet(probing)
  BY CallsAssumption, FS_Subset DEF TypeOK
<1> QED
  BY <1>1, LimitsAssumption DEF TypeOK

\* A started call: the running and the doomed calls stay sets of calls.
LEMMA StartType ==
    ASSUME TypeOK, NEW c \in Calls, Start(c)
    PROVE  /\ running' \subseteq Calls /\ doomed' \subseteq running'
           /\ running \subseteq running' /\ c \in running'
           /\ UNCHANGED <<failureCount, elapsed, healthy>>
BY DEF TypeOK, Start

LEMMA EnterInv == ASSUME IInv, NEW c \in Calls, Enter(c) PROVE IInv'
<1> USE DEF IInv
<1>1. CASE EnterClosed(c)
  <2>1. Start(c) /\ state = "closed" /\ UNCHANGED <<state, halfOpenCalls, probing>>
    BY <1>1 DEF EnterClosed
  <2>2. TypeOK'
    BY <2>1, StartType DEF TypeOK
  <2>3. TrippedIffNotClosed' /\ ProbesAccounted' /\ PeriodInv'
    BY <2>1, StartType DEF TrippedIffNotClosed, ProbesAccounted, PeriodInv
  <2> QED
    BY <2>2, <2>3
<1>2. CASE EnterOpen(c)
  <2>1. /\ Start(c) /\ state = "open" /\ state' = "half_open"
        /\ elapsed >= RecoveryTimeout /\ halfOpenCalls' = 1 /\ probing' = {c}
    BY <1>2 DEF EnterOpen
  <2>2. TypeOK'
    BY <2>1, StartType, Bounds DEF TypeOK
  <2>3. TrippedIffNotClosed' /\ PeriodInv'
    BY <2>1, StartType, Bounds DEF TrippedIffNotClosed, PeriodInv
  <2>4. ProbesAccounted'
    <3>1. Cardinality(probing') = 1
      BY <2>1, FS_Singleton
    <3> QED
      BY <2>1, <3>1 DEF ProbesAccounted
  <2> QED
    BY <2>2, <2>3, <2>4
<1>3. CASE EnterHalfOpen(c)
  <2>1. /\ Start(c) /\ c \notin running /\ state = "half_open" /\ state' = state
        /\ halfOpenCalls < HalfOpenMaxCalls
        /\ halfOpenCalls' = halfOpenCalls + 1 /\ probing' = probing \union {c}
    BY <1>3 DEF EnterHalfOpen, ProbeSlotFree
  <2>2. TypeOK'
    BY <2>1, StartType, Bounds DEF TypeOK
  <2>3. TrippedIffNotClosed' /\ PeriodInv'
    BY <2>1, StartType DEF TrippedIffNotClosed, PeriodInv
  <2>4. ProbesAccounted'
    <3>1. c \notin probing /\ IsFiniteSet(probing)
      BY <2>1, Bounds DEF TypeOK
    <3>2. Cardinality(probing') = Cardinality(probing) + 1
      BY <2>1, <3>1, FS_AddElement
    <3> QED
      BY <2>1, <3>2, Bounds DEF ProbesAccounted
  <2> QED
    BY <2>2, <2>3, <2>4
<1> QED
  BY <1>1, <1>2, <1>3 DEF Enter

\* An ended call is neither running, doomed nor a probe any more.
LEMMA EndType ==
    ASSUME TypeOK, NEW c \in Calls, End(c)
    PROVE  /\ running' \subseteq Calls /\ doomed' \subseteq running'
           /\ probing \ {c} \subseteq running' /\ {} \subseteq running'
           /\ healthy' = healthy
BY DEF TypeOK, End

LEMMA FailInv == ASSUME IInv, NEW c \in Calls, Fail(c) PROVE IInv'
<1> USE DEF IInv
<1>1. End(c) /\ elapsed' = 0 /\ failureCount' = MinOf(failureCount + 1, FailureThreshold)
  BY DEF Fail
<1>2. failureCount' \in 0..FailureThreshold /\ failureCount' >= failureCount
  BY <1>1, Bounds DEF MinOf
<1>3. CASE failureCount' >= FailureThreshold
  <2>1. state' = "open" /\ halfOpenCalls' = 0 /\ probing' = {}
    BY <1>3 DEF Fail, Trips
  <2>2. TypeOK'
    BY <1>1, <1>2, <2>1, EndType, Bounds DEF TypeOK
  <2>3. TrippedIffNotClosed' /\ PeriodInv'
    BY <1>3, <2>1 DEF TrippedIffNotClosed, PeriodInv
  <2>4. ProbesAccounted'
    BY <2>1, FS_EmptySet DEF ProbesAccounted
  <2> QED
    BY <2>2, <2>3, <2>4
<1>4. CASE ~ (failureCount' >= FailureThreshold)
  <2>1. probing' = probing \ {c} /\ UNCHANGED <<state, halfOpenCalls>>
    BY <1>4 DEF Fail, Trips
  <2>2. ~ (failureCount >= FailureThreshold)
    BY <1>2, <1>4, Bounds
  <2>3. state = "closed" /\ probing = {}
    BY <2>2 DEF TrippedIffNotClosed, PeriodInv
  <2>4. TypeOK'
    BY <1>1, <1>2, <2>1, EndType, Bounds DEF TypeOK
  <2>5. TrippedIffNotClosed' /\ PeriodInv'
    BY <1>4, <2>1, <2>3 DEF TrippedIffNotClosed, PeriodInv
  <2>6. probing' = probing
    BY <2>1, <2>3
  <2>7. ProbesAccounted'
    BY <2>1, <2>6 DEF ProbesAccounted
  <2> QED
    BY <2>4, <2>5, <2>7
<1> QED
  BY <1>3, <1>4

LEMMA SucceedInv == ASSUME IInv, NEW c \in Calls, Succeed(c) PROVE IInv'
<1> USE DEF IInv
<1>1. End(c) /\ elapsed' = elapsed
  BY DEF Succeed
<1>2. CASE state = "half_open"
  <2>1. state' = "closed" /\ failureCount' = 0 /\ halfOpenCalls' = 0 /\ probing' = {}
    BY <1>2 DEF Succeed
  <2>2. TypeOK'
    BY <1>1, <2>1, EndType, Bounds DEF TypeOK
  <2>3. TrippedIffNotClosed' /\ PeriodInv'
    BY <2>1, Bounds DEF TrippedIffNotClosed, PeriodInv
  <2>4. ProbesAccounted'
    BY <2>1, FS_EmptySet DEF ProbesAccounted
  <2> QED
    BY <2>2, <2>3, <2>4
<1>3. CASE state # "half_open"
  <2>1. probing' = probing \ {c} /\ UNCHANGED <<state, failureCount, halfOpenCalls>>
    BY <1>3 DEF Succeed
  <2>2. probing = {} /\ probing' = probing
    BY <1>3, <2>1 DEF PeriodInv
  <2>3. TypeOK'
    BY <1>1, <2>1, EndType DEF TypeOK
  <2>4. TrippedIffNotClosed' /\ PeriodInv' /\ ProbesAccounted'
    BY <1>3, <2>1, <2>2 DEF TrippedIffNotClosed, PeriodInv, ProbesAccounted
  <2> QED
    BY <2>3, <2>4
<1> QED
  BY <1>2, <1>3

LEMMA StepInv == IInv /\ [Next]_vars => IInv'
<1> SUFFICES ASSUME IInv, [Next]_vars PROVE IInv'
  OBVIOUS
<1>1. ASSUME NEW c \in Calls, Enter(c) \/ Fail(c) \/ Succeed(c) PROVE IInv'
  BY <1>1, EnterInv, FailInv, SucceedInv
<1>2. CASE Tick
  <2>1. TypeOK' /\ elapsed' >= elapsed
    BY <1>2, Bounds DEF IInv, Tick, TypeOK, MinOf
  <2>2. elapsed = RecoveryTimeout => elapsed' = RecoveryTimeout
    BY <1>2, Bounds DEF IInv, Tick, MinOf
  <2> QED
    BY <1>2, <2>1, <2>2
       DEF Tick, IInv, TrippedIffNotClosed, ProbesAccounted, PeriodInv
<1>3. CASE Heal
  BY <1>3 DEF Heal, IInv, TypeOK, TrippedIffNotClosed, ProbesAccounted, PeriodInv
<1>4. CASE UNCHANGED vars
  BY <1>4 DEF vars, IInv, TypeOK, TrippedIffNotClosed, ProbesAccounted, PeriodInv
<1> QED
  BY <1>1, <1>2, <1>3, <1>4 DEF Next

LEMMA Invariance == Spec => []IInv
BY InitInv, StepInv, PTL DEF Spec

-----------------------------------------------------------------------------
\* The breaker's variables keep their types, and with them the limit on the
\* probes of one half-open period.
THEOREM TypeCorrect == Spec => []TypeOK
BY Invariance, PTL DEF IInv

\* The breaker lets calls through freely exactly while it has counted fewer
\* failures than its threshold.
THEOREM Tripped == Spec => []TrippedIffNotClosed
BY Invariance, PTL DEF IInv

\* A half-open breaker always has a running call that will decide its state.
THEOREM NeverWedged == Spec => []ProbesAccounted
BY Invariance, PTL DEF IInv

\* A tripped breaker starts no call within a recovery timeout of the last
\* failure, however late that failure came in.
THEOREM Quiet == Spec => QuietAfterFailure
<1>1. IInv /\ [Next]_vars =>
        [ failureCount >= FailureThreshold /\ ~ (running' \subseteq running)
          => elapsed = RecoveryTimeout ]_vars
  <2> SUFFICES ASSUME IInv, [Next]_vars,
                      failureCount >= FailureThreshold,
                      ~ (running' \subseteq running)
               PROVE  elapsed = RecoveryTimeout
    OBVIOUS
  <2>1. PICK c \in Calls : Enter(c)
    BY DEF Next, Fail, Succeed, End, Tick, Heal, vars
  <2>2. state # "closed"
    BY DEF IInv, TrippedIffNotClosed
  <2>3. CASE EnterOpen(c)
    BY <2>3, Bounds DEF EnterOpen, IInv
  <2>4. CASE EnterHalfOpen(c)
    BY <2>4 DEF EnterHalfOpen, IInv, PeriodInv
  <2> QED
    BY <2>1, <2>2, <2>3, <2>4 DEF Enter, EnterClosed
<1> QED
  BY <1>1, Invariance, PTL DEF Spec, QuietAfterFailure
=============================================================================
