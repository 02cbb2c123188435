-------------------------- MODULE IncidentWorkflow --------------------------
(***************************************************************************)
(* One incident on the LangGraph pipeline of orchestration/workflow.py:    *)
(* the agent nodes, each a perceive-reason-act-observe cycle of            *)
(* agents/base.py, the routing functions of orchestration/routing.py, the  *)
(* agent rate limiter as an outcome the environment picks, and the worker  *)
(* that runs the graph, which can be interrupted inside a node.            *)
(*                                                                         *)
(* A node is named for its agent.  Scores are hundredths (0.8 is 80).      *)
(***************************************************************************)
EXTENDS Integers, Sequences

CONSTANTS
    BaseScores,       \* risk scores the LLM provider may return
    MaxInterruptions  \* bound on worker crashes and node time-outs

ASSUME BaseScoresAssumption == BaseScores \subseteq 0..100
ASSUME MaxInterruptionsAssumption == MaxInterruptions \in Nat

VARIABLES
    incident,       \* what the run is started with; never changes
    node,           \* the graph node that is next to run, or running
    state,          \* AgentState as of the last finished node (checkpointed)
    phase,          \* where the running node stands in its cycle
    result,         \* what the node's tools returned
    remediations,   \* how often the remediation provider was called
    audit,          \* (agent, action) pairs the audit trail holds
    interruptions   \* crashes and time-outs so far

vars == <<incident, node, state, phase, result, remediations, audit,
          interruptions>>

AgentNodes == {"telemetry", "detection", "supervisor", "forensics",
               "response", "compliance", "notification"}
Nodes == AgentNodes \union {"hitl"}
Final == {"END", "LOST"}
Phases == {"idle", "acting", "acted", "logged", "down"}
Hints == {"", "supervisor", "end", "awaiting_approval"}
ObservationNextStates == {"CONTINUE", "ESCALATE", "HALT"}
Actions == {"rate_limited", "done", "remediation_executed",
            "remediation_failed", "supervised_supervisor", "supervised_hitl",
            "supervised_auto_approve", "supervised_block",
            "supervised_forensics"}

\* action names the mapped remediation the last message asks for (a yes or no
\* here), mapped and hot say whether its event is in the MITRE map and in the
\* list of high-risk events, durable whether the graph has a checkpointer.
Incidents ==
    { i \in [authorized: BOOLEAN, message: BOOLEAN, action: BOOLEAN,
             mapped: BOOLEAN, hot: BOOLEAN, durable: BOOLEAN] :
        ~ i.message => ~ i.action /\ ~ i.mapped /\ ~ i.hot }

Observations ==
    [agent: AgentNodes, action: Actions, confidence: 0..100,
     next: ObservationNextStates, risk: 0..100]

States ==
    [risk: 0..100, confidence: 0..100, next_step: Hints,
     observations: Seq(Observations)]

MinOf(a, b) == IF a < b THEN a ELSE b

-----------------------------------------------------------------------------
(* Routing: which node follows, read from the state the node left.         *)

RouteAfterTelemetry(s) ==
    IF s.confidence < 50 THEN "supervisor" ELSE "detection"

RouteAfterDetection(s) ==
    IF s.confidence >= 70 /\ s.risk >= 80 THEN "hitl" ELSE "supervisor"

\* Mutant: the gate for unauthorized high risks is forgotten.
RouteAfterSupervisorMutant(s, authorized) ==
    CASE s.next_step = "end"                              -> "END"
      [] s.next_step # "end" /\ s.risk >= 95 /\ authorized -> "hitl"
      [] s.next_step # "end" /\ s.risk < 50                -> "response"
      [] OTHER                                            -> "forensics"

\* No node sets the hints "hitl" and "response" the code also tests for.
RouteAfterSupervisor(s, authorized) ==
    CASE s.next_step = "end"                               -> "END"
      [] s.next_step # "end" /\ s.risk >= 80 /\ ~ authorized -> "hitl"
      [] s.next_step # "end" /\ s.risk >= 95 /\ authorized  -> "hitl"
      [] s.next_step # "end" /\ s.risk < 50                 -> "response"
      [] OTHER                                             -> "forensics"

\* Mutant: an incident without a decision is asked about again.
RouteAfterHitlMutant(authorized) == IF authorized THEN "response" ELSE "hitl"

RouteAfterHitl(authorized) == IF authorized THEN "response" ELSE "END"

Successor(n, s, authorized) ==
    CASE n = "telemetry"    -> RouteAfterTelemetry(s)
      [] n = "detection"    -> RouteAfterDetection(s)
      [] n = "supervisor"   -> RouteAfterSupervisor(s, authorized)
      [] n = "hitl"         -> RouteAfterHitl(authorized)
      [] n = "forensics"    -> "response"
      [] n = "response"     -> "compliance"
      [] n = "compliance"   -> "notification"
      [] n = "notification" -> "END"

-----------------------------------------------------------------------------
(* The agents' cycles.                                                     *)

\* Mutant: an incident is authorized unless it says otherwise.
IsAuthorizedMutant(i) == i.authorized \/ i.message

\* Both the response agent's reason and the tool validation read this flag.
IsAuthorized(i) == i.authorized

\* The tools reason suggests, told apart only as far as it matters: the
\* remediation needs authorization, the other tools do not.
Suggested(n, i) ==
    CASE n = "response" ->
            IF IsAuthorized(i) /\ i.action
              THEN {"remediate", "verify_remediation"} ELSE {}
      [] n = "notification" -> IF i.message THEN {"send_alert"} ELSE {}
      [] OTHER -> {"analyse"}

RequiresAuthorization == {"remediate"}

Validated(n, i) ==
    { t \in Suggested(n, i) : t \in RequiresAuthorization => IsAuthorized(i) }

\* Whether there were events, the LLM's score, or 1 for success and 0 for none.
\* The telemetry provider that workflow.py builds makes events up if there are
\* none; one whose answer is empty is allowed here, since the agent takes any.
\* A remediation provider may fail; the default one, which only logs, never does.
ToolResults(n) ==
    CASE n = "detection" -> BaseScores
      [] n \in {"telemetry", "forensics", "response", "notification"} -> {0, 1}
      [] OTHER -> {0}

\* Without tool calls, all([]) is a success of the response agent.
NoToolResult(n) == IF n = "response" THEN 1 ELSE 0

Obs(n, action, confidence, next, risk) ==
    [agent |-> n, action |-> action, confidence |-> confidence,
     next |-> next, risk |-> risk]

ObserveTelemetry(s, r) ==
    IF r = 1 THEN Obs("telemetry", "done", 90, "CONTINUE", s.risk)
             ELSE Obs("telemetry", "done", 30, "HALT", s.risk)

\* Mutant: the boosted score is not capped.
DetectionRiskMutant(base, i) ==
    base + (IF i.mapped THEN 10 ELSE 0) + (IF i.hot THEN 15 ELSE 0)

DetectionRisk(base, i) ==
    MinOf(100, base + (IF i.mapped THEN 10 ELSE 0) + (IF i.hot THEN 15 ELSE 0))

DetectionConfidence(base, i) ==
    IF base > 90 THEN 95 ELSE IF i.mapped THEN 80 ELSE 60

ObserveDetection(r, i) ==
    LET risk == DetectionRisk(r, i)
        confidence == DetectionConfidence(r, i)
    IN  Obs("detection", "done", confidence,
            IF confidence < 70 \/ risk >= 80 THEN "ESCALATE" ELSE "CONTINUE",
            risk)

MinConfidence(n) ==
    CASE n = "detection" -> 60
      [] n = "forensics" -> 50
      [] n = "response"  -> 90
      [] n \in {"compliance", "telemetry"} -> 70
      [] n \in {"notification", "supervisor"} -> 80

\* Of the agents with required metadata fields, only the telemetry and the
\* notification agent write theirs; a rate-limited observation has none.
HasRequiredFields(o) ==
    \/ o.agent = "supervisor"
    \/ o.agent \in {"telemetry", "notification"} /\ o.action # "rate_limited"

QualityPasses(o) == o.confidence >= MinConfidence(o.agent) /\ HasRequiredFields(o)

RouteByRisk(risk, authorized) ==
    CASE risk >= 80 /\ ~ authorized -> "hitl"
      [] risk < 50                  -> "auto_approve"
      [] risk >= 95 /\ authorized   -> "block"
      [] OTHER                      -> "forensics"

\* Retry counters live in the agent, which every node builds anew, so they
\* are 0 and only the risk decides about paging.
ShouldPageHuman(risk) == risk >= 95

\* The retry tool finds no registered factory and changes nothing.
ObserveSupervisor(s, i) ==
    LET quality == \/ s.observations = <<>>
                   \/ QualityPasses(s.observations[Len(s.observations)])
        route   == IF ShouldPageHuman(s.risk) THEN "hitl"
                   ELSE IF ~ quality THEN "supervisor"
                   ELSE RouteByRisk(s.risk, IsAuthorized(i))
    IN  Obs("supervisor",
            CASE route = "hitl"         -> "supervised_hitl"
              [] route = "supervisor"   -> "supervised_supervisor"
              [] route = "auto_approve" -> "supervised_auto_approve"
              [] route = "block"        -> "supervised_block"
              [] route = "forensics"    -> "supervised_forensics",
            IF quality THEN 90 ELSE 50,
            CASE route = "hitl"  -> "ESCALATE"
              [] route = "block" -> "HALT"
              [] OTHER           -> "CONTINUE",
            s.risk)

ObserveResponse(s, r) ==
    IF r = 1 THEN Obs("response", "remediation_executed", 95, "CONTINUE", s.risk)
             ELSE Obs("response", "remediation_failed", 30, "CONTINUE", s.risk)

ObserveForensics(s, r) ==
    Obs("forensics", "done", IF r = 1 THEN 85 ELSE 70, "CONTINUE", s.risk)

ObserveCompliance(s) == Obs("compliance", "done", 85, "CONTINUE", s.risk)

ObserveNotification(s, r) ==
    Obs("notification", "done", IF r = 1 THEN 90 ELSE 50, "CONTINUE", s.risk)

ObservationOf(n, s, i, r) ==
    CASE n = "telemetry"    -> ObserveTelemetry(s, r)
      [] n = "detection"    -> ObserveDetection(r, i)
      [] n = "supervisor"   -> ObserveSupervisor(s, i)
      [] n = "forensics"    -> ObserveForensics(s, r)
      [] n = "response"     -> ObserveResponse(s, r)
      [] n = "compliance"   -> ObserveCompliance(s)
      [] n = "notification" -> ObserveNotification(s, r)

RateLimitedObs(n, s) == Obs(n, "rate_limited", 0, "ESCALATE", s.risk)

\* Mutant: CONTINUE clears the hint an earlier agent left.
ApplyObservationMutant(s, o) ==
    [risk         |-> o.risk,
     confidence   |-> o.confidence,
     next_step    |-> CASE o.next = "ESCALATE" -> "supervisor"
                        [] o.next = "HALT"     -> "end"
                        [] o.next = "CONTINUE" -> "",
     observations |-> Append(s.observations, o)]

ApplyObservation(s, o) ==
    [risk         |-> o.risk,
     confidence   |-> o.confidence,
     next_step    |-> CASE o.next = "ESCALATE" -> "supervisor"
                        [] o.next = "HALT"     -> "end"
                        [] o.next = "CONTINUE" -> s.next_step,
     observations |-> Append(s.observations, o)]

-----------------------------------------------------------------------------
InitialState ==
    [risk |-> 0, confidence |-> 100, next_step |-> "", observations |-> <<>>]

Init ==
    /\ incident \in Incidents
    /\ node = "telemetry"
    /\ state = InitialState
    /\ phase = "idle"
    /\ result = 0
    /\ remediations = 0
    /\ audit = {}
    /\ interruptions = 0

\* Mutant: a node that is not confident runs again.
FinishNodeMutant(s) ==
    /\ state' = s
    /\ node' = IF s.confidence < 50 THEN node
               ELSE Successor(node, s, incident.authorized)
    /\ phase' = "idle"
    /\ result' = 0
    /\ UNCHANGED <<incident, remediations, interruptions>>

\* The node returns s: the graph checkpoints it and moves along its edge.
FinishNode(s) ==
    /\ state' = s
    /\ node' = Successor(node, s, incident.authorized)
    /\ phase' = "idle"
    /\ result' = 0
    /\ UNCHANGED <<incident, remediations, interruptions>>

\* Mutant: a rejection by the limiter only empties the list of tools.
SkipToolsMutant ==
    /\ phase = "idle" /\ node \in AgentNodes
    /\ phase' = "acted"
    /\ result' = NoToolResult(node)
    /\ UNCHANGED <<incident, node, state, remediations, audit, interruptions>>

\* Nothing validated: no rate limit is consulted and no tool runs.
SkipTools ==
    /\ phase = "idle" /\ node \in AgentNodes
    /\ Validated(node, incident) = {}
    /\ phase' = "acted"
    /\ result' = NoToolResult(node)
    /\ UNCHANGED <<incident, node, state, remediations, audit, interruptions>>

\* The limiter admits the agent.
StartTools ==
    /\ phase = "idle" /\ node \in AgentNodes
    /\ Validated(node, incident) # {}
    /\ phase' = "acting"
    /\ UNCHANGED <<incident, node, state, result, remediations, audit, interruptions>>

\* The limiter rejects it: an audited, empty observation that escalates.
RateLimited ==
    /\ phase = "idle" /\ node \in AgentNodes
    /\ Validated(node, incident) # {}
    /\ audit' = audit \union {<<node, "rate_limited">>}
    /\ FinishNode(ApplyObservation(state, RateLimitedObs(node, state)))

\* The tools run; their effects on the outside world are done from here on.
Act ==
    /\ phase = "acting"
    /\ \E r \in ToolResults(node) : result' = r
    /\ remediations' = IF "remediate" \in Validated(node, incident)
                         THEN remediations + 1 ELSE remediations
    /\ phase' = "acted"
    /\ UNCHANGED <<incident, node, state, audit, interruptions>>

LogCycle ==
    /\ phase = "acted"
    /\ audit' = audit \union {<<node, "cycle_complete">>}
    /\ phase' = "logged"
    /\ UNCHANGED <<incident, node, state, result, remediations, interruptions>>

Observe ==
    /\ phase = "logged"
    /\ FinishNode(ApplyObservation(state, ObservationOf(node, state, incident, result)))
    /\ UNCHANGED audit

\* The human-approval node only marks the state; the edge reads the decision.
Hitl ==
    /\ phase = "idle" /\ node = "hitl"
    /\ FinishNode([state EXCEPT !.next_step = "awaiting_approval"])
    /\ UNCHANGED audit

\* The worker crashes, or _run_async gives up on the node, which it does only
\* once the agent's thread has finished: the node's result is lost.
Interrupt ==
    /\ phase # "down" /\ node \notin Final
    /\ interruptions < MaxInterruptions
    /\ interruptions' = interruptions + 1
    /\ phase' = "down"
    /\ result' = 0
    /\ UNCHANGED <<incident, node, state, remediations, audit>>

\* A restarted worker invokes the graph again on the incident's thread.
Resume ==
    /\ phase = "down" /\ incident.durable
    /\ phase' = "idle"
    /\ UNCHANGED <<incident, node, state, result, remediations, audit, interruptions>>

Forget ==
    /\ phase = "down" /\ ~ incident.durable
    /\ phase' = "idle"
    /\ node' = "LOST"
    /\ UNCHANGED <<incident, state, result, remediations, audit, interruptions>>

Run == SkipTools \/ StartTools \/ RateLimited \/ Act \/ LogCycle \/ Observe \/ Hitl

Recover == Resume \/ Forget

Done == node \in Final /\ UNCHANGED vars

Next == Run \/ Recover \/ Interrupt \/ Done

Spec == Init /\ [][Next]_vars

\* The graph runner takes every step it can and the worker is restarted.
FairSpec == Spec /\ WF_vars(Run) /\ WF_vars(Recover)

-----------------------------------------------------------------------------
(* Properties.                                                             *)

\* Every variable has its type.
TypeOK ==
    /\ incident \in Incidents
    /\ node \in Nodes \union Final
    /\ state \in States
    /\ phase \in Phases
    /\ result \in 0..100
    /\ remediations \in Nat
    /\ audit \in SUBSET (AgentNodes \X {"rate_limited", "cycle_complete"})
    /\ interruptions \in 0..MaxInterruptions

Observed(n) == \E k \in DOMAIN state.observations : state.observations[k].agent = n
LimitedAt(n) == <<n, "rate_limited">> \in audit

\* No remediation tool runs for an incident no human approved, whatever the
\* risk score, the route taken, the rate limits and the replays after crashes.
AuthorizedRemediation == remediations > 0 => incident.authorized

\* The remediation is called once, and once more at most for every time the
\* worker was interrupted: nothing but a lost node result repeats it.
ReplayBounded == remediations <= 1 + interruptions

\* An incident telemetry found no events for (whose provider, unlike the one the
\* graph builds, makes none up) never reaches the response, unless the
\* supervisor was rate limited and so overwrote the "end" hint.
HaltHonoured ==
    /\ Len(state.observations) > 0
    /\ state.observations[1].next = "HALT"
    /\ ~ LimitedAt("supervisor")
    => ~ Observed("response") /\ remediations = 0

\* A response observation that claims "remediation_executed" for an approved
\* and actionable incident comes from a provider call, never from nothing.
ClaimBacked ==
    \A k \in DOMAIN state.observations :
        /\ state.observations[k].action = "remediation_executed"
        /\ incident.authorized /\ incident.action
        => remediations > 0

\* The stage of the abstract pipeline the graph has reached.
StageOf(n) ==
    CASE n \in {"telemetry", "detection", "supervisor"} -> "analysis"
      [] n = "hitl"         -> "held"
      [] n = "forensics"    -> "investigating"
      [] n = "response"     -> "responding"
      [] n = "compliance"   -> "reporting"
      [] n = "notification" -> "notifying"
      [] n = "END"          -> "closed"
      [] n = "LOST"         -> "lost"

Pipeline == INSTANCE IncidentPipeline
                WITH stage <- StageOf(node), risk <- state.risk,
                     authorized <- incident.authorized

\* Agents, rate limits, crashes and replays are invisible to an operator: the
\* graph implements the abstract pipeline.
ImplementsPipeline == Pipeline!Spec

\* An incident with a durable checkpoint is carried to its end, and any other
\* ends or is forgotten.
Terminates == <>(node = "END" \/ (node = "LOST" /\ ~ incident.durable))

-----------------------------------------------------------------------------
(* What the documentation says and the code does not do.                   *)

\* docs/ARCHITECTURE.md:110 has risk >= 0.95 end in "Block action".
BlockedRiskNotRemediated == state.risk >= 95 => remediations = 0

\* README.md:65 has every agent action in the signed audit trail: a closed
\* incident whose remediation ran has the response agent's entry.
RemediationAudited ==
    node = "END" /\ remediations > 0 => <<"response", "cycle_complete">> \in audit

=============================================================================
