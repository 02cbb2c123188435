----------------------- MODULE IncidentWorkflowProofs -----------------------
(***************************************************************************)
(* Proofs about IncidentWorkflow, for every set of LLM scores and every    *)
(* bound on interruptions: its types, the authorization of remediations,   *)
(* the bound on replays, and that the graph implements IncidentPipeline.   *)
(***************************************************************************)
EXTENDS IncidentWorkflow, TLAPS

-----------------------------------------------------------------------------
(* What the helpers return.                                                *)

\* A tool returns a number in the range the result variable has.
LEMMA ToolResultsType ==
    ASSUME NEW n \in AgentNodes
    PROVE  ToolResults(n) \subseteq 0..100 /\ NoToolResult(n) \in 0..100
BY BaseScoresAssumption DEF ToolResults, NoToolResult, AgentNodes

\* Boosting a score keeps it a score: the sum is capped at 1.0.
LEMMA DetectionRiskType ==
    ASSUME NEW base \in 0..100, NEW i \in Incidents
    PROVE  DetectionRisk(base, i) \in 0..100
<1> DEFINE a == IF i.mapped THEN 10 ELSE 0
           b == IF i.hot THEN 15 ELSE 0
<1>1. a \in 0..10 /\ b \in 0..15
  OBVIOUS
<1>2. base + a + b \in Nat
  BY <1>1
<1>3. DetectionRisk(base, i) = MinOf(100, base + a + b)
  BY DEF DetectionRisk
<1> HIDE DEF a, b
<1> QED
  BY <1>2, <1>3 DEF MinOf

\* Every agent's observation is well formed.
LEMMA ObservationType ==
    ASSUME NEW n \in AgentNodes, NEW s \in States, NEW i \in Incidents,
           NEW r \in 0..100
    PROVE  /\ ObservationOf(n, s, i, r) \in Observations
           /\ RateLimitedObs(n, s) \in Observations
           /\ ObservationOf(n, s, i, r).agent = n
<1>1. s.risk \in 0..100
  BY DEF States
<1>2. RateLimitedObs(n, s) \in Observations
  BY <1>1 DEF RateLimitedObs, Obs, Observations, Actions, ObservationNextStates
<1>3. CASE n = "detection"
  <2>1. DetectionRisk(r, i) \in 0..100
    BY DetectionRiskType
  <2>2. DetectionConfidence(r, i) \in 0..100
    BY DEF DetectionConfidence
  <2>3. ObservationOf(n, s, i, r) = ObserveDetection(r, i)
    BY <1>3 DEF ObservationOf
  <2> QED
    BY <1>2, <1>3, <2>1, <2>2, <2>3
       DEF ObserveDetection, Obs, Observations, Actions, ObservationNextStates, AgentNodes
<1>4. CASE n = "supervisor"
  <2>1. ObservationOf(n, s, i, r) = ObserveSupervisor(s, i)
    BY <1>4 DEF ObservationOf
  <2> DEFINE quality == \/ s.observations = <<>>
                        \/ QualityPasses(s.observations[Len(s.observations)])
             route   == IF ShouldPageHuman(s.risk) THEN "hitl"
                        ELSE IF ~ quality THEN "supervisor"
                        ELSE RouteByRisk(s.risk, IsAuthorized(i))
  <2>2. route \in {"hitl", "supervisor", "auto_approve", "block", "forensics"}
    BY DEF RouteByRisk
  <2>3. ObserveSupervisor(s, i) =
          Obs("supervisor",
              CASE route = "hitl"         -> "supervised_hitl"
                [] route = "supervisor"   -> "supervised_supervisor"
                [] route = "auto_approve" -> "supervised_auto_approve"
                [] route = "block"        -> "supervised_block"
                [] route = "forensics"    -> "supervised_forensics",
              IF quality THEN 90 ELSE 50,
              CASE route = "hitl"  -> "ESCALATE"
                [] route = "block" -> "HALT"
                [] OTHER           -> "CONTINUE",
              s.risk)
    BY DEF ObserveSupervisor
  <2> HIDE DEF quality, route
  <2> QED
    BY <1>1, <1>2, <1>4, <2>1, <2>2, <2>3
       DEF Obs, Observations, Actions, ObservationNextStates, AgentNodes
<1>5. CASE n \notin {"detection", "supervisor"}
  BY <1>1, <1>2, <1>5
     DEF ObservationOf, ObserveTelemetry, ObserveResponse,
         ObserveForensics, ObserveCompliance, ObserveNotification, Obs, Observations,
         Actions, ObservationNextStates, AgentNodes
<1> QED
  BY <1>3, <1>4, <1>5

\* Applying an observation to a state gives a state.
LEMMA ApplyType ==
    ASSUME NEW s \in States, NEW o \in Observations
    PROVE  /\ ApplyObservation(s, o) \in States
           /\ ApplyObservation(s, o).risk = o.risk
<1>1. o.risk \in 0..100 /\ o.confidence \in 0..100 /\ o.next \in ObservationNextStates
  BY DEF Observations
<1>2. s.next_step \in Hints /\ s.observations \in Seq(Observations)
  BY DEF States
<1>3. Append(s.observations, o) \in Seq(Observations)
  BY <1>2
<1> DEFINE hint == CASE o.next = "ESCALATE" -> "supervisor"
                     [] o.next = "HALT"     -> "end"
                     [] o.next = "CONTINUE" -> s.next_step
<1>4. hint \in Hints
  BY <1>1, <1>2 DEF Hints, ObservationNextStates
<1>5. ApplyObservation(s, o) =
        [risk |-> o.risk, confidence |-> o.confidence, next_step |-> hint,
         observations |-> Append(s.observations, o)]
  BY DEF ApplyObservation
<1> HIDE DEF hint
<1> QED
  BY <1>1, <1>3, <1>4, <1>5 DEF States

\* Only the detection agent changes the risk score.
LEMMA RiskOnlyFromDetection ==
    ASSUME NEW n \in AgentNodes, NEW s \in States, NEW i \in Incidents,
           NEW r \in 0..100
    PROVE  /\ n # "detection" => ObservationOf(n, s, i, r).risk = s.risk
           /\ RateLimitedObs(n, s).risk = s.risk
BY DEF ObservationOf, ObserveTelemetry, ObserveSupervisor, ObserveResponse,
       ObserveForensics, ObserveCompliance, ObserveNotification,
       RateLimitedObs, Obs, AgentNodes

\* An edge of the graph leads to a node or to its end.
LEMMA SuccessorType ==
    ASSUME NEW n \in Nodes, NEW s \in States, NEW a \in BOOLEAN
    PROVE  Successor(n, s, a) \in Nodes \union {"END"}
<1>1. CASE n = "supervisor"
  <2>1. Successor(n, s, a) = RouteAfterSupervisor(s, a)
    BY <1>1 DEF Successor
  <2>2. RouteAfterSupervisor(s, a) \in {"END", "hitl", "response", "forensics"}
    BY DEF RouteAfterSupervisor
  <2> QED
    BY <2>1, <2>2 DEF Nodes, AgentNodes
<1>2. CASE n # "supervisor"
  BY <1>2 DEF Successor, RouteAfterTelemetry, RouteAfterDetection,
              RouteAfterHitl, Nodes, AgentNodes
<1> QED
  BY <1>1, <1>2

-----------------------------------------------------------------------------
(* The inductive invariant.                                                *)

\* Only agents go through the phases of a cycle, and a graph that has ended
\* is idle.
CycleInv ==
    /\ phase \in {"acting", "acted", "logged"} => node \in AgentNodes
    /\ phase # "idle" => node \in Nodes

\* The response has been entered for the last time, or its tools have run in
\* the cycle under way.
Responded ==
    \/ node \in {"compliance", "notification"} \union Final
    \/ node = "response" /\ phase \in {"acted", "logged"}

\* Every remediation but the one of the cycle that counts was followed by an
\* interruption.
ReplayInv == remediations <= interruptions + (IF Responded THEN 1 ELSE 0)

\* The hint "end" reaches the supervisor only from a telemetry node that saw
\* no event, so before any risk was computed.
HintInv ==
    /\ node = "telemetry" => state.risk = 0 /\ state.next_step = ""
    /\ node = "detection" => state.next_step = ""
    /\ node = "supervisor" /\ state.next_step = "end" => state.risk = 0

IInv == TypeOK /\ CycleInv /\ AuthorizedRemediation /\ ReplayInv /\ HintInv

LEMMA InitInv == Init => IInv
<1> SUFFICES ASSUME Init PROVE IInv
  OBVIOUS
<1>1. InitialState \in States
  BY <<>> \in Seq(Observations) DEF InitialState, States, Hints
<1>2. TypeOK
  BY <1>1, MaxInterruptionsAssumption DEF Init, TypeOK, Nodes, AgentNodes, Phases
<1>3. CycleInv /\ AuthorizedRemediation /\ ReplayInv
  BY DEF Init, CycleInv, AuthorizedRemediation, ReplayInv
<1>4. HintInv
  BY DEF Init, HintInv, InitialState
<1> QED
  BY <1>2, <1>3, <1>4 DEF IInv

\* What finishing a node does: the next node is one of the graph and no cycle
\* is under way.
LEMMA FinishNodeInv ==
    ASSUME TypeOK, node \in Nodes, NEW s \in States, FinishNode(s),
           audit' \in SUBSET (AgentNodes \X {"rate_limited", "cycle_complete"})
    PROVE  TypeOK' /\ CycleInv' /\ node' \in Nodes \union {"END"}
<1>1. Successor(node, s, incident.authorized) \in Nodes \union {"END"}
  BY SuccessorType DEF TypeOK, Incidents
<1> QED
  BY <1>1 DEF TypeOK, CycleInv, FinishNode, Final, Phases

\* The hints along the edges out of the telemetry and the detection node.
LEMMA FinishAgentHint ==
    ASSUME IInv, node \in AgentNodes, NEW o \in Observations, o.agent = node,
           \/ o = ObservationOf(node, state, incident, result)
           \/ o = RateLimitedObs(node, state),
           FinishNode(ApplyObservation(state, o))
    PROVE  HintInv'
<1> DEFINE s == ApplyObservation(state, o)
<1>1. state' = s /\ node' = Successor(node, s, incident.authorized)
  BY DEF FinishNode
<1>2. s.risk = o.risk /\ s.confidence = o.confidence
  BY DEF ApplyObservation
<1>3. s.next_step = CASE o.next = "ESCALATE" -> "supervisor"
                      [] o.next = "HALT"     -> "end"
                      [] o.next = "CONTINUE" -> state.next_step
  BY DEF ApplyObservation
<1>4. o.next \in {"ESCALATE", "HALT", "CONTINUE"}
  BY DEF Observations, ObservationNextStates
<1>5. node' # "telemetry"
  BY <1>1 DEF Successor, RouteAfterTelemetry, RouteAfterDetection,
              RouteAfterSupervisor, RouteAfterHitl, AgentNodes
<1>6. ASSUME node = "telemetry" PROVE HintInv'
  <2>1. \/ o.confidence = 90 /\ o.next = "CONTINUE"
        \/ o.confidence = 30 /\ o.next = "HALT"
        \/ o.confidence = 0 /\ o.next = "ESCALATE"
    BY <1>6 DEF ObservationOf, ObserveTelemetry, RateLimitedObs, Obs
  <2>2. o.risk = 0
    <3>1. state.risk = 0 /\ state \in States /\ incident \in Incidents /\ result \in 0..100
      BY <1>6 DEF IInv, HintInv, TypeOK
    <3> QED
      BY <1>6, <3>1, RiskOnlyFromDetection
  <2>3. node' = RouteAfterTelemetry(s)
    BY <1>1, <1>6 DEF Successor
  <2>4. state.next_step = ""
    BY <1>6 DEF IInv, HintInv
  <2> HIDE DEF s
  <2>5. s.confidence < 50 \/ s.next_step = ""
    <3>1. CASE o.confidence = 90 /\ o.next = "CONTINUE"
      BY <1>3, <2>4, <3>1
    <3>2. CASE o.confidence = 30
      <4>1. s.confidence = 30
        BY <1>2, <3>2
      <4> QED
        BY <4>1
    <3>3. CASE o.confidence = 0
      <4>1. s.confidence = 0
        BY <1>2, <3>3
      <4> QED
        BY <4>1
    <3> QED
      BY <2>1, <3>1, <3>2, <3>3
  <2>6. node' = "detection" => s.next_step = ""
    BY <1>2, <2>1, <2>3, <2>5 DEF RouteAfterTelemetry
  <2> QED
    BY <1>1, <1>2, <1>5, <2>2, <2>6 DEF HintInv
<1>7. ASSUME node = "detection" PROVE HintInv'
  <2>1. o.next \in {"ESCALATE", "CONTINUE"}
    BY <1>7 DEF ObservationOf, ObserveDetection, RateLimitedObs, Obs
  <2>2. s.next_step \in {"supervisor", ""}
    BY <1>3, <1>7, <2>1 DEF IInv, HintInv
  <2>3. node' = RouteAfterDetection(s)
    BY <1>1, <1>7 DEF Successor
  <2> QED
    BY <1>1, <2>2, <2>3 DEF RouteAfterDetection, HintInv
<1>8. ASSUME node \notin {"telemetry", "detection"} PROVE HintInv'
  BY <1>1, <1>5, <1>8
     DEF Successor, RouteAfterSupervisor, HintInv, AgentNodes
<1> QED
  BY <1>6, <1>7, <1>8

\* A finished agent node leaves the count of remediations within its bound.
LEMMA FinishNodeReplay ==
    ASSUME IInv, node \in Nodes, NEW s \in States, FinishNode(s)
    PROVE  ReplayInv'
<1>1. remediations' = remediations /\ interruptions' = interruptions
  BY DEF FinishNode
<1>2. remediations \in Nat /\ interruptions \in Nat
  BY MaxInterruptionsAssumption DEF IInv, TypeOK
<1>3. CASE node \in {"response", "compliance", "notification"}
  <2>1. node' \in {"compliance", "notification", "END"}
    BY <1>3 DEF FinishNode, Successor
  <2>2. Responded'
    BY <2>1 DEF Responded, Final
  <2>3. remediations <= interruptions + 1
    BY <1>2 DEF IInv, ReplayInv
  <2> QED
    BY <1>1, <2>2, <2>3 DEF ReplayInv
<1>4. CASE node \notin {"response", "compliance", "notification"}
  <2>1. ~ Responded
    BY <1>4 DEF Responded, Nodes, AgentNodes, Final
  <2>2. remediations <= interruptions
    BY <1>2, <2>1 DEF IInv, ReplayInv
  <2> QED
    BY <1>1, <1>2, <2>2 DEF ReplayInv
<1> QED
  BY <1>3, <1>4

\* An agent node finishes with its own or with a rate-limited observation.
LEMMA FinishAgentInv ==
    ASSUME IInv, node \in AgentNodes, NEW o \in Observations, o.agent = node,
           \/ o = ObservationOf(node, state, incident, result)
           \/ o = RateLimitedObs(node, state),
           FinishNode(ApplyObservation(state, o)),
           audit' \in SUBSET (AgentNodes \X {"rate_limited", "cycle_complete"})
    PROVE  IInv'
<1>1. node \in Nodes /\ ApplyObservation(state, o) \in States
  BY ApplyType DEF Nodes, IInv, TypeOK
<1>2. TypeOK' /\ CycleInv'
  BY <1>1, FinishNodeInv DEF IInv
<1>3. HintInv'
  BY FinishAgentHint
<1>4. ReplayInv'
  BY <1>1, FinishNodeReplay
<1>5. AuthorizedRemediation'
  BY DEF FinishNode, IInv, AuthorizedRemediation
<1> QED
  BY <1>2, <1>3, <1>4, <1>5 DEF IInv

LEMMA StepInv == IInv /\ [Next]_vars => IInv'
<1> SUFFICES ASSUME IInv, [Next]_vars PROVE IInv'
  OBVIOUS
<1> USE DEF IInv
<1>0. /\ remediations \in Nat /\ interruptions \in Nat
      /\ incident \in Incidents /\ state \in States /\ result \in 0..100
  BY MaxInterruptionsAssumption DEF TypeOK
<1>1. CASE SkipTools
  <2>1. TypeOK' /\ CycleInv'
    BY <1>1, ToolResultsType DEF SkipTools, TypeOK, CycleInv, Phases, Nodes
  <2>2. ReplayInv'
    BY <1>0, <1>1 DEF SkipTools, ReplayInv, Responded
  <2>3. HintInv' /\ AuthorizedRemediation'
    BY <1>1 DEF SkipTools, HintInv, AuthorizedRemediation
  <2> QED
    BY <2>1, <2>2, <2>3
<1>2. CASE StartTools
  <2>1. TypeOK' /\ CycleInv'
    BY <1>2 DEF StartTools, TypeOK, CycleInv, Phases, Nodes
  <2>2. ReplayInv'
    BY <1>0, <1>2 DEF StartTools, ReplayInv, Responded
  <2>3. HintInv' /\ AuthorizedRemediation'
    BY <1>2 DEF StartTools, HintInv, AuthorizedRemediation
  <2> QED
    BY <2>1, <2>2, <2>3
<1>3. CASE RateLimited
  <2>1. node \in AgentNodes
    BY <1>3 DEF RateLimited
  <2>2. RateLimitedObs(node, state) \in Observations
    BY <1>0, <2>1, ObservationType
  <2>3. RateLimitedObs(node, state).agent = node
    BY DEF RateLimitedObs, Obs
  <2>4. audit' \in SUBSET (AgentNodes \X {"rate_limited", "cycle_complete"})
    BY <1>3, <2>1 DEF RateLimited, TypeOK
  <2> HIDE DEF IInv
  <2> QED
    BY <1>3, <2>1, <2>2, <2>3, <2>4, FinishAgentInv DEF RateLimited
<1>4. CASE Act
  <2>1. node \in AgentNodes
    BY <1>4 DEF Act, CycleInv
  <2>2. remediations' \in {remediations, remediations + 1}
    BY <1>4 DEF Act
  <2>3. TypeOK' /\ CycleInv'
    BY <1>0, <1>4, <2>1, <2>2, ToolResultsType
       DEF Act, TypeOK, CycleInv, Phases, Nodes
  <2>4. remediations' > remediations => node = "response" /\ incident.authorized
    BY <1>0, <1>4 DEF Act, Validated, Suggested, RequiresAuthorization, IsAuthorized
  <2>5. AuthorizedRemediation'
    BY <1>0, <1>4, <2>2, <2>4 DEF Act, AuthorizedRemediation
  <2>6. ReplayInv'
    <3>1. CASE node = "response"
      <4>1. ~ Responded /\ Responded'
        BY <1>4, <3>1 DEF Act, Responded, Final
      <4>2. remediations <= interruptions /\ interruptions' = interruptions
        BY <1>0, <1>4, <4>1 DEF Act, ReplayInv
      <4> QED
        BY <1>0, <2>2, <4>1, <4>2 DEF ReplayInv
    <3>2. CASE node # "response"
      <4>1. remediations' = remediations /\ interruptions' = interruptions
        BY <1>0, <1>4, <2>2, <2>4, <3>2 DEF Act
      <4>2. Responded' <=> Responded
        BY <1>4, <3>2 DEF Act, Responded
      <4> QED
        BY <4>1, <4>2 DEF ReplayInv
    <3> QED
      BY <3>1, <3>2
  <2>7. HintInv'
    BY <1>4 DEF Act, HintInv
  <2> QED
    BY <2>3, <2>5, <2>6, <2>7
<1>5. CASE LogCycle
  <2>1. node \in AgentNodes
    BY <1>5 DEF LogCycle, CycleInv
  <2>2. TypeOK' /\ CycleInv'
    BY <1>5, <2>1 DEF LogCycle, TypeOK, CycleInv, Phases, Nodes
  <2>3. ReplayInv'
    BY <1>0, <1>5 DEF LogCycle, ReplayInv, Responded
  <2>4. HintInv' /\ AuthorizedRemediation'
    BY <1>5 DEF LogCycle, HintInv, AuthorizedRemediation
  <2> QED
    BY <2>2, <2>3, <2>4
<1>6. CASE Observe
  <2> DEFINE o == ObservationOf(node, state, incident, result)
  <2>1. node \in AgentNodes
    BY <1>6 DEF Observe, CycleInv
  <2>2. o \in Observations /\ o.agent = node
    BY <1>0, <2>1, ObservationType
  <2>3. audit' \in SUBSET (AgentNodes \X {"rate_limited", "cycle_complete"})
    BY <1>6 DEF Observe, TypeOK
  <2>4. FinishNode(ApplyObservation(state, o))
    BY <1>6 DEF Observe
  <2> HIDE DEF IInv
  <2> QED
    BY <2>1, <2>2, <2>3, <2>4, FinishAgentInv
<1>7. CASE Hitl
  <2> DEFINE s == [state EXCEPT !.next_step = "awaiting_approval"]
  <2>1. node = "hitl" /\ node \in Nodes /\ FinishNode(s)
    BY <1>7 DEF Hitl, Nodes
  <2>2. s \in States
    BY <1>0 DEF States, Hints
  <2>3. audit' \in SUBSET (AgentNodes \X {"rate_limited", "cycle_complete"})
    BY <1>7 DEF Hitl, TypeOK
  <2>4. TypeOK' /\ CycleInv'
    BY <2>1, <2>2, <2>3, FinishNodeInv
  <2>5. ReplayInv'
    BY <2>1, <2>2, FinishNodeReplay
  <2>6. node' \in {"response", "END"}
    BY <2>1 DEF FinishNode, Successor, RouteAfterHitl
  <2>7. HintInv' /\ AuthorizedRemediation'
    BY <2>1, <2>6 DEF FinishNode, HintInv, AuthorizedRemediation
  <2> QED
    BY <2>4, <2>5, <2>7
<1>8. CASE Interrupt
  <2>1. TypeOK'
    BY <1>8, MaxInterruptionsAssumption DEF Interrupt, TypeOK, Phases
  <2>2. CycleInv'
    BY <1>8 DEF Interrupt, TypeOK, CycleInv
  <2>3. ReplayInv'
    BY <1>0, <1>8 DEF Interrupt, ReplayInv, Responded
  <2>4. HintInv' /\ AuthorizedRemediation'
    BY <1>8 DEF Interrupt, HintInv, AuthorizedRemediation
  <2> QED
    BY <2>1, <2>2, <2>3, <2>4
<1>9. CASE Resume
  BY <1>0, <1>9 DEF Resume, TypeOK, CycleInv, ReplayInv, Responded, HintInv,
                    AuthorizedRemediation, Phases
<1>10. CASE Forget
  <2>1. TypeOK' /\ CycleInv'
    BY <1>10 DEF Forget, TypeOK, CycleInv, Phases, Final
  <2>2. Responded'
    BY <1>10 DEF Forget, Responded, Final
  <2>3. ReplayInv'
    BY <1>0, <1>10, <2>2 DEF Forget, ReplayInv
  <2>4. HintInv' /\ AuthorizedRemediation'
    BY <1>10 DEF Forget, HintInv, AuthorizedRemediation
  <2> QED
    BY <2>1, <2>2, <2>3, <2>4
<1>11. CASE UNCHANGED vars
  BY <1>11 DEF vars, TypeOK, CycleInv, ReplayInv, Responded, HintInv,
               AuthorizedRemediation
<1> QED
  BY <1>1, <1>2, <1>3, <1>4, <1>5, <1>6, <1>7, <1>8, <1>9, <1>10, <1>11
     DEF Next, Run, Recover, Done

LEMMA Invariance == Spec => []IInv
<1> QED
  BY InitInv, StepInv, PTL DEF Spec

-----------------------------------------------------------------------------
(* The safety theorems.                                                    *)

\* Every variable keeps its type: a run never leaves the nodes of the graph,
\* and a boosted or overwritten score stays a score.
THEOREM TypeCorrect == Spec => []TypeOK
BY Invariance, PTL DEF IInv

\* No remediation runs on the graph for an incident no human approved,
\* whatever the scores the LLM returns and however often the worker crashes.
THEOREM Authorized == Spec => []AuthorizedRemediation
BY Invariance, PTL DEF IInv

\* However many interruptions there are, the remediation is called at most
\* once more than there were.
THEOREM ReplayBound == Spec => []ReplayBounded
<1>1. IInv => ReplayBounded
  <2> SUFFICES ASSUME IInv PROVE ReplayBounded
    OBVIOUS
  <2>1. remediations \in Nat /\ interruptions \in Nat
    BY MaxInterruptionsAssumption DEF IInv, TypeOK
  <2> QED
    BY <2>1 DEF IInv, ReplayInv, ReplayBounded
<1> QED
  BY <1>1, Invariance, PTL

-----------------------------------------------------------------------------
(* The graph implements the abstract pipeline.                             *)

\* What the supervisor's observation may put into the hint: it never halts an
\* incident by itself, since a score of 95 or more pages a human first.
LEMMA SupervisorNeverHalts ==
    ASSUME NEW s \in States, NEW i \in Incidents
    PROVE  ObserveSupervisor(s, i).next # "HALT"
<1>1. s.risk \in 0..100
  BY DEF States
<1> DEFINE quality == \/ s.observations = <<>>
                      \/ QualityPasses(s.observations[Len(s.observations)])
           route   == IF ShouldPageHuman(s.risk) THEN "hitl"
                      ELSE IF ~ quality THEN "supervisor"
                      ELSE RouteByRisk(s.risk, IsAuthorized(i))
<1>2. route # "block"
  <2>1. CASE s.risk >= 95
    BY <2>1 DEF ShouldPageHuman
  <2>2. CASE ~ (s.risk >= 95)
    <3>1. RouteByRisk(s.risk, IsAuthorized(i)) # "block"
      BY <1>1, <2>2 DEF RouteByRisk
    <3> QED
      BY <3>1
  <2> QED
    BY <2>1, <2>2
<1>3. ObserveSupervisor(s, i).next = CASE route = "hitl"  -> "ESCALATE"
                                       [] route = "block" -> "HALT"
                                       [] OTHER           -> "CONTINUE"
  BY DEF ObserveSupervisor, Obs
<1> HIDE DEF route
<1> QED
  BY <1>2, <1>3

\* An agent node that finishes maps to a step of the pipeline or to none.
LEMMA AgentStepRefines ==
    ASSUME IInv, node \in AgentNodes, NEW o \in Observations,
           \/ o = ObservationOf(node, state, incident, result)
           \/ o = RateLimitedObs(node, state),
           FinishNode(ApplyObservation(state, o))
    PROVE  [Pipeline!Next]_Pipeline!vars
<1> DEFINE s == ApplyObservation(state, o)
<1>1. /\ state' = s /\ node' = Successor(node, s, incident.authorized)
      /\ incident' = incident
  BY DEF FinishNode
<1>2. /\ s.risk = o.risk
      /\ s.next_step = CASE o.next = "ESCALATE" -> "supervisor"
                         [] o.next = "HALT"     -> "end"
                         [] o.next = "CONTINUE" -> state.next_step
  BY DEF ApplyObservation
<1>3. /\ state \in States /\ state.risk \in 0..100 /\ incident \in Incidents
      /\ incident.authorized \in BOOLEAN /\ result \in 0..100
      /\ o.risk \in 0..100 /\ o.next \in ObservationNextStates
  BY DEF IInv, TypeOK, States, Incidents, Observations
<1>4. node # "detection" => o.risk = state.risk
  BY <1>3, RiskOnlyFromDetection
<1>5. state'.risk = o.risk
  BY <1>1, <1>2
<1>6. CASE node = "telemetry"
  <2>1. node' \in {"detection", "supervisor"}
    BY <1>1, <1>6 DEF Successor, RouteAfterTelemetry
  <2>2. StageOf(node) = "analysis" /\ StageOf(node') = "analysis"
    BY <1>6, <2>1 DEF StageOf
  <2> QED
    BY <1>1, <1>4, <1>5, <1>6, <2>2 DEF Pipeline!vars
<1>7. CASE node = "detection"
  <2>1. node' = RouteAfterDetection(s)
    BY <1>1, <1>7 DEF Successor
  <2>2. \/ node' = "supervisor"
        \/ node' = "hitl" /\ state'.risk >= 80
    BY <1>1, <2>1 DEF RouteAfterDetection
  <2>3. /\ StageOf(node) = "analysis"
        /\ \/ StageOf(node') = "analysis"
           \/ StageOf(node') = "held" /\ state'.risk >= 80
    BY <1>7, <2>2 DEF StageOf
  <2> QED
    BY <1>1, <1>3, <1>5, <2>3 DEF Pipeline!Next, Pipeline!Assess
<1>8. CASE node = "supervisor"
  <2>1. node' = RouteAfterSupervisor(s, incident.authorized)
    BY <1>1, <1>8 DEF Successor
  <2>2. s.risk = state.risk /\ state'.risk = state.risk
    BY <1>2, <1>4, <1>5, <1>8
  <2>3. s.next_step = "end" => state.risk = 0
    <3>1. o.next # "HALT"
      <4>1. ObservationOf(node, state, incident, result) =
              ObserveSupervisor(state, incident)
        BY <1>8 DEF ObservationOf
      <4>2. RateLimitedObs(node, state).next = "ESCALATE"
        BY DEF RateLimitedObs, Obs
      <4> QED
        BY <1>3, <4>1, <4>2, SupervisorNeverHalts
    <3>2. s.next_step = "end" => state.next_step = "end"
      BY <1>2, <1>3, <3>1 DEF ObservationNextStates
    <3> QED
      BY <1>8, <3>2 DEF IInv, HintInv
  <2> HIDE DEF s
  <2>4. StageOf(node) = "analysis"
    BY <1>8 DEF StageOf
  <2>5. CASE s.next_step = "end"
    <3>1. StageOf(node') = "closed"
      BY <2>1, <2>5 DEF RouteAfterSupervisor, StageOf
    <3> QED
      BY <1>1, <2>2, <2>3, <2>4, <2>5, <3>1 DEF Pipeline!Next, Pipeline!Discard
  <2>6. CASE /\ s.next_step # "end"
             /\ \/ s.risk >= 80 /\ ~ incident.authorized
                \/ s.risk >= 95 /\ incident.authorized
    <3>1. node' = "hitl"
      BY <1>3, <2>1, <2>2, <2>6 DEF RouteAfterSupervisor
    <3>2. StageOf(node') = "held" /\ state.risk >= 80
      BY <1>3, <2>2, <2>6, <3>1 DEF StageOf
    <3> QED
      BY <1>1, <2>2, <2>4, <3>2 DEF Pipeline!Next, Pipeline!Hold
  <2>7. CASE s.next_step # "end" /\ s.risk < 50
    <3>1. node' = "response"
      BY <1>3, <2>1, <2>2, <2>7 DEF RouteAfterSupervisor
    <3>2. StageOf(node') = "responding" /\ state.risk < 50
      BY <2>2, <2>7, <3>1 DEF StageOf
    <3> QED
      BY <1>1, <2>2, <2>4, <3>2 DEF Pipeline!Next, Pipeline!AutoRespond
  <2>8. CASE /\ s.next_step # "end"
             /\ ~ (s.risk < 50)
             /\ ~ (s.risk >= 80 /\ ~ incident.authorized)
             /\ ~ (s.risk >= 95 /\ incident.authorized)
    <3>1. node' = "forensics"
      BY <1>3, <2>1, <2>2, <2>8 DEF RouteAfterSupervisor
    <3>2. /\ StageOf(node') = "investigating"
          /\ state.risk \in 50..94
          /\ state.risk < 80 \/ incident.authorized
      BY <1>3, <2>2, <2>8, <3>1 DEF StageOf
    <3> QED
      BY <1>1, <2>2, <2>4, <3>2 DEF Pipeline!Next, Pipeline!Investigate
  <2> QED
    BY <2>5, <2>6, <2>7, <2>8
<1>9. CASE node \in {"forensics", "response", "compliance", "notification"}
  <2>1. \/ StageOf(node) = "investigating" /\ StageOf(node') = "responding"
        \/ StageOf(node) = "responding" /\ StageOf(node') = "reporting"
        \/ StageOf(node) = "reporting" /\ StageOf(node') = "notifying"
        \/ StageOf(node) = "notifying" /\ StageOf(node') = "closed"
    BY <1>1, <1>9 DEF Successor, StageOf
  <2>2. state'.risk = state.risk
    BY <1>4, <1>5, <1>9
  <2> QED
    BY <1>1, <2>1, <2>2 DEF Pipeline!Next, Pipeline!Advance
<1> QED
  BY <1>6, <1>7, <1>8, <1>9 DEF AgentNodes

\* Every step of the graph is a step of the pipeline or leaves it alone.
LEMMA StepRefines == IInv /\ [Next]_vars => [Pipeline!Next]_Pipeline!vars
<1> SUFFICES ASSUME IInv, [Next]_vars PROVE [Pipeline!Next]_Pipeline!vars
  OBVIOUS
<1>0. /\ incident \in Incidents /\ state \in States /\ result \in 0..100
  BY DEF IInv, TypeOK
<1>1. CASE SkipTools \/ StartTools \/ Act \/ LogCycle \/ Interrupt \/ Resume
           \/ UNCHANGED vars
  <2>1. UNCHANGED <<node, state, incident>>
    BY <1>1 DEF SkipTools, StartTools, Act, LogCycle, Interrupt, Resume, vars
  <2> QED
    BY <2>1 DEF Pipeline!vars, StageOf
<1>2. CASE RateLimited
  <2>1. node \in AgentNodes /\ FinishNode(ApplyObservation(state, RateLimitedObs(node, state)))
    BY <1>2 DEF RateLimited
  <2>2. RateLimitedObs(node, state) \in Observations
    BY <1>0, <2>1, ObservationType
  <2> QED
    BY <2>1, <2>2, AgentStepRefines
<1>3. CASE Observe
  <2>1. FinishNode(ApplyObservation(state, ObservationOf(node, state, incident, result)))
    BY <1>3 DEF Observe
  <2>2. node \in AgentNodes
    BY <1>3 DEF Observe, IInv, CycleInv
  <2>3. ObservationOf(node, state, incident, result) \in Observations
    BY <1>0, <2>2, ObservationType
  <2> QED
    BY <2>1, <2>2, <2>3, AgentStepRefines
<1>4. CASE Hitl
  <2>1. /\ node = "hitl" /\ incident' = incident
        /\ node' = IF incident.authorized THEN "response" ELSE "END"
        /\ state' = [state EXCEPT !.next_step = "awaiting_approval"]
    BY <1>4 DEF Hitl, FinishNode, Successor, RouteAfterHitl
  <2>2. state'.risk = state.risk
    BY <1>0, <2>1 DEF States
  <2>3. /\ StageOf(node) = "held"
        /\ StageOf(node') = IF incident.authorized THEN "responding" ELSE "closed"
    BY <2>1 DEF StageOf
  <2> QED
    BY <2>1, <2>2, <2>3 DEF Pipeline!Next, Pipeline!Decide
<1>5. CASE Forget
  <2>1. node \in Nodes /\ node' = "LOST" /\ UNCHANGED <<incident, state>>
    BY <1>5 DEF Forget, IInv, CycleInv
  <2>2. StageOf(node) \notin {"closed", "lost"} /\ StageOf(node') = "lost"
    BY <2>1 DEF StageOf, Nodes, AgentNodes
  <2> QED
    BY <2>1, <2>2 DEF Pipeline!Next, Pipeline!Lose
<1> QED
  BY <1>1, <1>2, <1>3, <1>4, <1>5 DEF Next, Run, Recover, Done

\* The graph of agents, rate limits, crashes and replays implements the
\* pipeline an operator is promised: a risk of 80 or more is answered only
\* after an approval, and an answered incident is always reported.
THEOREM Refinement == Spec => ImplementsPipeline
<1>1. Init => Pipeline!Init
  <2> SUFFICES ASSUME Init PROVE Pipeline!Init
    OBVIOUS
  <2>1. StageOf(node) = "analysis"
    BY DEF Init, StageOf
  <2>2. state.risk = 0
    BY DEF Init, InitialState
  <2>3. incident.authorized \in BOOLEAN
    BY DEF Init, Incidents
  <2> QED
    BY <2>1, <2>2, <2>3 DEF Pipeline!Init
<1> QED
  BY <1>1, StepRefines, Invariance, PTL DEF Spec, ImplementsPipeline, Pipeline!Spec

-----------------------------------------------------------------------------
(* Halted incidents, and claims of a remediation.                          *)

Halted ==
    /\ Len(state.observations) > 0 /\ state.observations[1].next = "HALT"
    /\ ~ LimitedAt("supervisor")

\* After its first observation a halted incident is with the supervisor, which
\* keeps the hint "end", or over.
HaltInv ==
    /\ node = "telemetry" => state.observations = <<>> /\ remediations = 0
    /\ Halted =>
        /\ node \in {"supervisor"} \union Final
        /\ node = "supervisor" => state.next_step = "end"
        /\ ~ Observed("response") /\ remediations = 0

\* A response that is about to observe has called the provider if it had to.
Remediable == incident.authorized /\ incident.action
ClaimInv ==
    /\ node = "response" /\ phase \in {"acted", "logged"} /\ Remediable => remediations > 0
    /\ ClaimBacked

LEMMA InitObservations ==
    ASSUME Init
    PROVE  /\ state.observations = <<>> /\ Len(state.observations) = 0
           /\ DOMAIN state.observations = {}
<1>1. state.observations = <<>>
  BY DEF Init, InitialState
<1>2. Len(<<>>) = 0 /\ DOMAIN <<>> = {}
  OBVIOUS
<1> QED
  BY <1>1, <1>2

\* What an agent node that finishes does to the list of observations.
LEMMA FinishAppends ==
    ASSUME TypeOK, NEW o \in Observations, FinishNode(ApplyObservation(state, o))
    PROVE  /\ state.observations \in Seq(Observations) /\ Len(state.observations) \in Nat
           /\ state'.observations = Append(state.observations, o)
           /\ Len(state'.observations) = Len(state.observations) + 1
           /\ DOMAIN state'.observations = 1..(Len(state.observations) + 1)
           /\ DOMAIN state.observations = 1..Len(state.observations)
           /\ state'.observations[Len(state.observations) + 1] = o
           /\ \A k \in 1..Len(state.observations) :
                 state'.observations[k] = state.observations[k]
<1>1. PICK l : l = state.observations
  OBVIOUS
<1>2. l \in Seq(Observations)
  BY <1>1 DEF TypeOK, States
<1>3. state'.observations = Append(l, o)
  BY <1>1 DEF FinishNode, ApplyObservation
<1>4. PICK m : m = Append(l, o)
  OBVIOUS
<1>5. /\ Len(l) \in Nat /\ Len(m) = Len(l) + 1 /\ DOMAIN m = 1..(Len(l) + 1)
      /\ DOMAIN l = 1..Len(l) /\ m[Len(l) + 1] = o /\ \A k \in 1..Len(l) : m[k] = l[k]
  BY <1>2, <1>4
<1> QED
  BY <1>1, <1>2, <1>3, <1>4, <1>5

\* The supervisor leaves an incident without risk to its hint.
LEMMA SupervisorContinues ==
    ASSUME NEW s \in States, NEW i \in Incidents, s.risk = 0
    PROVE  ObserveSupervisor(s, i).next = "CONTINUE"
<1> DEFINE quality == \/ s.observations = <<>>
                      \/ QualityPasses(s.observations[Len(s.observations)])
           route   == IF ShouldPageHuman(s.risk) THEN "hitl"
                      ELSE IF ~ quality THEN "supervisor"
                      ELSE RouteByRisk(s.risk, IsAuthorized(i))
<1>1. RouteByRisk(s.risk, IsAuthorized(i)) = "auto_approve"
  BY DEF RouteByRisk
<1>2. ~ ShouldPageHuman(s.risk)
  BY DEF ShouldPageHuman
<1>3. route \in {"supervisor", "auto_approve"}
  BY <1>1, <1>2
<1>4. ObserveSupervisor(s, i).next = CASE route = "hitl"  -> "ESCALATE"
                                       [] route = "block" -> "HALT"
                                       [] OTHER           -> "CONTINUE"
  BY DEF ObserveSupervisor, Obs
<1> HIDE DEF route
<1> QED
  BY <1>3, <1>4

\* An agent node that finishes keeps the halt.
LEMMA FinishAgentHalt ==
    ASSUME IInv, HaltInv, node \in AgentNodes, NEW o \in Observations, o.agent = node,
           \/ o = ObservationOf(node, state, incident, result) /\ audit' = audit
           \/ /\ o = RateLimitedObs(node, state)
              /\ audit' = audit \union {<<node, "rate_limited">>},
           FinishNode(ApplyObservation(state, o))
    PROVE  HaltInv'
<1> DEFINE s == ApplyObservation(state, o)
           n == Len(state.observations)
<1>1. /\ state' = s /\ node' = Successor(node, s, incident.authorized)
      /\ remediations' = remediations
  BY DEF FinishNode
<1>2. /\ s.risk = o.risk /\ s.confidence = o.confidence
      /\ s.next_step = CASE o.next = "ESCALATE" -> "supervisor"
                         [] o.next = "HALT"     -> "end"
                         [] o.next = "CONTINUE" -> state.next_step
  BY DEF ApplyObservation
<1>3. /\ n \in Nat /\ Len(state'.observations) = n + 1
      /\ DOMAIN state'.observations = 1..(n + 1) /\ DOMAIN state.observations = 1..n
      /\ state'.observations[n + 1] = o
      /\ \A k \in 1..n : state'.observations[k] = state.observations[k]
  BY FinishAppends DEF IInv
<1>4. node' # "telemetry"
  BY <1>1 DEF Successor, RouteAfterTelemetry, RouteAfterDetection,
              RouteAfterSupervisor, RouteAfterHitl, AgentNodes
<1>5. /\ state \in States /\ incident \in Incidents /\ result \in 0..100
      /\ o.next \in ObservationNextStates
  BY DEF IInv, TypeOK, Observations
<1>6. SUFFICES ASSUME Halted'
               PROVE  /\ node' \in {"supervisor"} \union Final
                      /\ node' = "supervisor" => state'.next_step = "end"
                      /\ ~ Observed("response")' /\ remediations' = 0
  BY <1>4 DEF HaltInv
<1>7. ~ LimitedAt("supervisor") /\ state'.observations[1].next = "HALT"
  BY <1>6 DEF Halted, LimitedAt
<1>8. o # RateLimitedObs("supervisor", state) \/ node # "supervisor" \/ audit' = audit
  BY <1>6 DEF Halted, LimitedAt
<1>9. ASSUME \A k \in 1..n : state.observations[k].agent # "response", node # "response"
      PROVE  ~ Observed("response")'
  <2>1. \A k \in 1..(n + 1) : k \in 1..n \/ k = n + 1
    BY <1>3
  <2>2. \A k \in 1..(n + 1) : state'.observations[k].agent # "response"
    BY <1>3, <1>9, <2>1
  <2> QED
    BY <1>3, <2>2 DEF Observed
<1> HIDE DEF s, n
<1>10. CASE node = "telemetry"
  <2>1. n = 0 /\ remediations = 0
    BY <1>10 DEF HaltInv, n
  <2>2. o.next = "HALT"
    BY <1>3, <1>7, <2>1
  <2>3. o.confidence = 30
    BY <1>10, <2>2 DEF ObservationOf, ObserveTelemetry, RateLimitedObs, Obs
  <2>4. s.next_step = "end" /\ s.confidence = 30
    BY <1>2, <2>2, <2>3
  <2>5. node' = "supervisor"
    BY <1>1, <1>10, <2>4 DEF Successor, RouteAfterTelemetry
  <2>6. ~ Observed("response")'
    BY <1>9, <1>10, <2>1
  <2> QED
    BY <1>1, <2>1, <2>4, <2>5, <2>6
<1>11. CASE node # "telemetry"
  <2>1. n > 0
    <3>1. CASE n = 0
      <4>1. o.next = "HALT"
        BY <1>3, <1>7, <3>1
      <4>2. node = "supervisor"
        BY <1>11, <4>1
           DEF ObservationOf, ObserveDetection, ObserveResponse, ObserveForensics,
               ObserveCompliance, ObserveNotification, RateLimitedObs, Obs, AgentNodes
      <4>3. ObservationOf(node, state, incident, result) = ObserveSupervisor(state, incident)
        BY <4>2 DEF ObservationOf
      <4>4. RateLimitedObs(node, state).next = "ESCALATE"
        BY DEF RateLimitedObs, Obs
      <4> QED
        BY <1>5, <4>1, <4>3, <4>4, SupervisorNeverHalts
    <3> QED
      BY <3>1, <1>3
  <2>2. Halted
    BY <1>3, <1>7, <2>1 DEF Halted, n
  <2>3. /\ node = "supervisor" /\ state.next_step = "end" /\ ~ Observed("response")
        /\ remediations = 0
    BY <2>2 DEF HaltInv, Final, AgentNodes
  <2>4. state.risk = 0
    BY <2>3 DEF IInv, HintInv
  <2>5. o = ObserveSupervisor(state, incident)
    <3>1. ~ (audit' = audit \union {<<"supervisor", "rate_limited">>})
      BY <1>6 DEF Halted, LimitedAt
    <3>2. o = ObservationOf("supervisor", state, incident, result)
      BY <2>3, <3>1
    <3> QED
      BY <3>2 DEF ObservationOf
  <2>6. o.next = "CONTINUE"
    BY <1>5, <2>4, <2>5, SupervisorContinues
  <2>7. s.next_step = "end"
    BY <1>2, <2>3, <2>6
  <2>8. node' = "END"
    BY <1>1, <2>3, <2>7 DEF Successor, RouteAfterSupervisor
  <2>9. \A k \in 1..n : state.observations[k].agent # "response"
    BY <1>3, <2>3 DEF Observed
  <2> QED
    BY <1>1, <1>9, <2>3, <2>8, <2>9 DEF Final
<1> QED
  BY <1>10, <1>11

LEMMA StepHalt == IInv /\ HaltInv /\ [Next]_vars => HaltInv'
<1> SUFFICES ASSUME IInv, HaltInv, [Next]_vars PROVE HaltInv'
  OBVIOUS
<1>0. /\ incident \in Incidents /\ state \in States /\ result \in 0..100
  BY DEF IInv, TypeOK
<1>1. ASSUME state' = state, node' = node \/ node' = "LOST", remediations' = remediations,
             LimitedAt("supervisor") => LimitedAt("supervisor")'
      PROVE  HaltInv'
  BY <1>1 DEF HaltInv, Halted, Observed, Final
<1>2. CASE SkipTools \/ StartTools \/ Interrupt \/ Resume \/ Forget \/ UNCHANGED vars
  <2>1. /\ state' = state /\ (node' = node \/ node' = "LOST") /\ remediations' = remediations
        /\ audit' = audit
    BY <1>2 DEF SkipTools, StartTools, Interrupt, Resume, Forget, vars
  <2> QED
    BY <2>1, <1>1 DEF LimitedAt
<1>3. CASE LogCycle
  <2>1. /\ state' = state /\ node' = node /\ remediations' = remediations /\ audit \subseteq audit'
    BY <1>3 DEF LogCycle
  <2> QED
    BY <2>1, <1>1 DEF LimitedAt
<1>4. CASE Act
  <2>1. node \in AgentNodes /\ state' = state /\ node' = node /\ audit' = audit
    BY <1>4 DEF Act, IInv, CycleInv
  <2>2. node # "response" => remediations' = remediations
    BY <1>4 DEF Act, Validated, Suggested
  <2>3. CASE node = "response"
    <3>1. ~ Halted
      BY <2>3 DEF HaltInv, Final
    <3>2. ~ Halted'
      BY <2>1, <3>1 DEF Halted, LimitedAt
    <3> QED
      BY <2>1, <2>3, <3>2 DEF HaltInv
  <2>4. CASE node # "response"
    BY <1>1, <2>1, <2>2, <2>4 DEF LimitedAt
  <2> QED
    BY <2>3, <2>4
<1>5. CASE RateLimited
  <2>1. node \in AgentNodes /\ FinishNode(ApplyObservation(state, RateLimitedObs(node, state)))
        /\ audit' = audit \union {<<node, "rate_limited">>}
    BY <1>5 DEF RateLimited
  <2>2. RateLimitedObs(node, state) \in Observations /\ RateLimitedObs(node, state).agent = node
    BY <1>0, <2>1, ObservationType DEF RateLimitedObs, Obs
  <2> QED
    BY <2>1, <2>2, FinishAgentHalt
<1>6. CASE Observe
  <2>1. FinishNode(ApplyObservation(state, ObservationOf(node, state, incident, result)))
        /\ audit' = audit
    BY <1>6 DEF Observe
  <2>2. node \in AgentNodes
    BY <1>6 DEF Observe, IInv, CycleInv
  <2>3. /\ ObservationOf(node, state, incident, result) \in Observations
        /\ ObservationOf(node, state, incident, result).agent = node
    BY <1>0, <2>2, ObservationType
  <2> QED
    BY <2>1, <2>2, <2>3, FinishAgentHalt
<1>7. CASE Hitl
  <2>1. /\ node = "hitl" /\ node' \in {"response", "END"}
        /\ state' = [state EXCEPT !.next_step = "awaiting_approval"] /\ audit' = audit
    BY <1>7 DEF Hitl, FinishNode, Successor, RouteAfterHitl
  <2>2. state'.observations = state.observations
    BY <1>0, <2>1 DEF States
  <2>3. ~ Halted
    BY <2>1 DEF HaltInv, Final
  <2>4. ~ Halted'
    BY <2>1, <2>2, <2>3 DEF Halted, LimitedAt
  <2> QED
    BY <2>1, <2>4 DEF HaltInv
<1> QED
  BY <1>2, <1>3, <1>4, <1>5, <1>6, <1>7 DEF Next, Run, Recover, Done

\* An incident telemetry found nothing for never reaches the response, however
\* often its nodes are replayed, unless the supervisor was rate limited.
THEOREM HaltIsHonoured == Spec => []HaltHonoured
<1>1. Init => HaltInv
  BY InitObservations DEF Init, HaltInv, Halted
<1>2. HaltInv => HaltHonoured
  BY DEF HaltInv, HaltHonoured, Halted
<1> QED
  BY <1>1, <1>2, StepHalt, Invariance, PTL DEF Spec

\* A finished agent node claims a remediation only if one was called.
LEMMA FinishAgentClaim ==
    ASSUME IInv, ClaimInv, node \in AgentNodes, NEW o \in Observations,
           \/ o = ObservationOf(node, state, incident, result) /\ phase = "logged"
           \/ o = RateLimitedObs(node, state),
           FinishNode(ApplyObservation(state, o))
    PROVE  ClaimInv'
<1>1. /\ remediations' = remediations /\ incident' = incident /\ phase' = "idle"
  BY DEF FinishNode
<1> DEFINE n == Len(state.observations)
<1>2. /\ n \in Nat
      /\ DOMAIN state'.observations = 1..(n + 1) /\ DOMAIN state.observations = 1..n
      /\ state'.observations[n + 1] = o
      /\ \A k \in 1..n : state'.observations[k] = state.observations[k]
  BY FinishAppends DEF IInv
<1>3. o.action = "remediation_executed" => node = "response" /\ phase = "logged"
  <2>1. RateLimitedObs(node, state).action = "rate_limited"
    BY DEF RateLimitedObs, Obs
  <2>2. node = "supervisor" =>
          ObservationOf(node, state, incident, result).action # "remediation_executed"
    <3>1. ASSUME node = "supervisor"
          PROVE  ObservationOf(node, state, incident, result)
                 = ObserveSupervisor(state, incident)
      BY <3>1 DEF ObservationOf
    <3> DEFINE quality == \/ state.observations = <<>>
                          \/ QualityPasses(state.observations[Len(state.observations)])
               route   == IF ShouldPageHuman(state.risk) THEN "hitl"
                          ELSE IF ~ quality THEN "supervisor"
                          ELSE RouteByRisk(state.risk, IsAuthorized(incident))
    <3>2. route \in {"hitl", "supervisor", "auto_approve", "block", "forensics"}
      BY DEF RouteByRisk
    <3>3. ObserveSupervisor(state, incident).action =
            CASE route = "hitl"         -> "supervised_hitl"
              [] route = "supervisor"   -> "supervised_supervisor"
              [] route = "auto_approve" -> "supervised_auto_approve"
              [] route = "block"        -> "supervised_block"
              [] route = "forensics"    -> "supervised_forensics"
      BY DEF ObserveSupervisor, Obs
    <3> HIDE DEF route
    <3> QED
      BY <3>1, <3>2, <3>3
  <2>3. node \notin {"supervisor", "response"} =>
          ObservationOf(node, state, incident, result).action # "remediation_executed"
    BY DEF ObservationOf, ObserveTelemetry, ObserveDetection, ObserveForensics,
           ObserveCompliance, ObserveNotification, Obs, AgentNodes
  <2> QED
    BY <2>1, <2>2, <2>3
<1>4. o.action = "remediation_executed" /\ Remediable => remediations > 0
  BY <1>3 DEF ClaimInv
<1>5. \A k \in 1..(n + 1) : k \in 1..n \/ k = n + 1
  BY <1>2
<1> HIDE DEF n
<1>6. ClaimBacked'
  <2> SUFFICES ASSUME NEW k \in 1..(n + 1),
                      state'.observations[k].action = "remediation_executed",
                      incident.authorized, incident.action
               PROVE  remediations > 0
    BY <1>1, <1>2 DEF ClaimBacked
  <2>1. CASE k \in 1..n
    BY <2>1, <1>2 DEF ClaimInv, ClaimBacked
  <2>2. CASE k = n + 1
    BY <2>2, <1>2, <1>4 DEF Remediable
  <2> QED
    BY <2>1, <2>2, <1>5
<1> QED
  BY <1>1, <1>6 DEF ClaimInv

LEMMA StepClaim == IInv /\ ClaimInv /\ [Next]_vars => ClaimInv'
<1> SUFFICES ASSUME IInv, ClaimInv, [Next]_vars PROVE ClaimInv'
  OBVIOUS
<1>0. /\ incident \in Incidents /\ state \in States /\ result \in 0..100 /\ remediations \in Nat
  BY DEF IInv, TypeOK
<1>1. incident' = incident
  BY DEF Next, Run, Recover, Done, SkipTools, StartTools, RateLimited, Act, LogCycle, Observe,
         Hitl, FinishNode, Interrupt, Resume, Forget, vars
<1>2. ASSUME state' = state, remediations' >= remediations, remediations' \in Nat PROVE ClaimBacked'
  BY <1>0, <1>1, <1>2 DEF ClaimInv, ClaimBacked
<1>3. CASE SkipTools
  <2>1. state' = state /\ remediations' = remediations /\ node' = node
    BY <1>3 DEF SkipTools
  <2>2. node = "response" => ~ Remediable
    BY <1>3 DEF SkipTools, Validated, Suggested, RequiresAuthorization, IsAuthorized, Remediable
  <2> QED
    BY <1>0, <1>1, <1>2, <2>1, <2>2 DEF ClaimInv, Remediable
<1>4. CASE Act
  <2>1. state' = state /\ node' = node
    BY <1>4 DEF Act
  <2>2. remediations' \in {remediations, remediations + 1}
    BY <1>4 DEF Act
  <2>3. node = "response" /\ Remediable => remediations' = remediations + 1
    BY <1>4 DEF Act, Validated, Suggested, RequiresAuthorization, IsAuthorized, Remediable
  <2>4. ClaimBacked'
    BY <1>0, <1>2, <2>1, <2>2
  <2> QED
    BY <1>0, <1>1, <2>1, <2>3, <2>4 DEF ClaimInv, Remediable
<1>5. CASE StartTools \/ LogCycle \/ Interrupt \/ Resume \/ Forget \/ UNCHANGED vars
  <2>1. /\ state' = state /\ remediations' = remediations /\ (node' = node \/ node' = "LOST")
        /\ phase' \in {"acted", "logged"} => phase \in {"acted", "logged"}
    BY <1>5 DEF StartTools, LogCycle, Interrupt, Resume, Forget, vars
  <2> QED
    BY <1>0, <1>1, <1>2, <2>1 DEF ClaimInv, Remediable
<1>6. CASE RateLimited
  <2>1. node \in AgentNodes /\ FinishNode(ApplyObservation(state, RateLimitedObs(node, state)))
    BY <1>6 DEF RateLimited
  <2>2. RateLimitedObs(node, state) \in Observations
    BY <1>0, <2>1, ObservationType
  <2> QED
    BY <2>1, <2>2, FinishAgentClaim
<1>7. CASE Observe
  <2>1. FinishNode(ApplyObservation(state, ObservationOf(node, state, incident, result)))
        /\ phase = "logged"
    BY <1>7 DEF Observe
  <2>2. node \in AgentNodes
    BY <1>7 DEF Observe, IInv, CycleInv
  <2>3. ObservationOf(node, state, incident, result) \in Observations
    BY <1>0, <2>2, ObservationType
  <2> QED
    BY <2>1, <2>2, <2>3, FinishAgentClaim
<1>8. CASE Hitl
  <2>1. /\ phase' = "idle" /\ remediations' = remediations
        /\ state' = [state EXCEPT !.next_step = "awaiting_approval"]
    BY <1>8 DEF Hitl, FinishNode
  <2>2. state'.observations = state.observations
    BY <1>0, <2>1 DEF States
  <2> QED
    BY <1>1, <2>1, <2>2 DEF ClaimInv, ClaimBacked
<1> QED
  BY <1>3, <1>4, <1>5, <1>6, <1>7, <1>8 DEF Next, Run, Recover, Done

\* A response that claims a remediation for an approved and actionable
\* incident has called the provider, whatever was skipped, limited or replayed.
THEOREM ClaimIsBacked == Spec => []ClaimBacked
<1>1. Init => ClaimInv
  BY InitObservations DEF Init, ClaimInv, ClaimBacked
<1>2. ClaimInv => ClaimBacked
  BY DEF ClaimInv
<1> QED
  BY <1>1, <1>2, StepClaim, Invariance, PTL DEF Spec
=============================================================================
