------------------------- MODULE MCIncidentWorkflow -------------------------
(* Instances of IncidentWorkflow for TLC.                                  *)
EXTENDS IncidentWorkflow

\* One score per band the thresholds 0.5, 0.8, 0.9 and 0.95 cut, and scores
\* the MITRE and event boosts carry over a threshold.
MCBaseScores == {25, 40, 65, 79, 85, 91, 96}
=============================================================================
