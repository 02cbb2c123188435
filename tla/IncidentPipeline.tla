-------------------------- MODULE IncidentPipeline --------------------------
(***************************************************************************)
(* What the incident pipeline promises to an operator, without agents,     *)
(* tools, rate limits, crashes or checkpoints: an incident is analysed,    *)
(* then held, investigated or answered according to its risk and to the    *)
(* human decision, and an answered incident is always reported before it   *)
(* is closed.  Risk scores are hundredths (0.8 is 80).                     *)
(* IncidentWorkflow implements this specification.                         *)
(***************************************************************************)
EXTENDS Integers

VARIABLES
    stage,       \* how far the incident has come
    risk,        \* the risk score the decisions are taken on
    authorized   \* whether a human approved the response

vars == <<stage, risk, authorized>>

Stages == {"analysis", "held", "investigating", "responding", "reporting",
           "notifying", "closed", "lost"}

Init ==
    /\ stage = "analysis"
    /\ risk = 0
    /\ authorized \in BOOLEAN

\* The score is computed; a high one may be held at once.
Assess ==
    /\ stage = "analysis"
    /\ risk' \in 0..100
    /\ \/ stage' = "analysis"
       \/ stage' = "held" /\ risk' >= 80
    /\ UNCHANGED authorized

\* There was nothing to analyse.
Discard ==
    /\ stage = "analysis" /\ risk = 0
    /\ stage' = "closed"
    /\ UNCHANGED <<risk, authorized>>

Hold ==
    /\ stage = "analysis" /\ risk >= 80
    /\ stage' = "held"
    /\ UNCHANGED <<risk, authorized>>

\* A medium risk, or a high one a human approved, is investigated first.
Investigate ==
    /\ stage = "analysis"
    /\ risk \in 50..94
    /\ risk < 80 \/ authorized
    /\ stage' = "investigating"
    /\ UNCHANGED <<risk, authorized>>

\* Only a low risk goes to the response without investigation or a human.
AutoRespond ==
    /\ stage = "analysis" /\ risk < 50
    /\ stage' = "responding"
    /\ UNCHANGED <<risk, authorized>>

\* The human decision on a held incident.
Decide ==
    /\ stage = "held"
    /\ stage' = IF authorized THEN "responding" ELSE "closed"
    /\ UNCHANGED <<risk, authorized>>

Advance(from, to) ==
    /\ stage = from
    /\ stage' = to
    /\ UNCHANGED <<risk, authorized>>

\* Without a durable checkpoint a crash forgets the incident.
Lose ==
    /\ stage \notin {"closed", "lost"}
    /\ stage' = "lost"
    /\ UNCHANGED <<risk, authorized>>

Next ==
    \/ Assess \/ Discard \/ Hold \/ Investigate \/ AutoRespond \/ Decide
    \/ Advance("investigating", "responding")
    \/ Advance("responding", "reporting")
    \/ Advance("reporting", "notifying")
    \/ Advance("notifying", "closed")
    \/ Lose

Spec == Init /\ [][Next]_vars
=============================================================================
