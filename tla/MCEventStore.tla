---------------------------- MODULE MCEventStore ----------------------------
(* Instances of EventStore for TLC.                                        *)
EXTENDS EventStore, TLC

CONSTANTS a1, a2, w1, w2, w3

MCWriters == {w1, w2, w3}

\* Two tasks of one worker process, and one of another.
MCWorkers == {a1, a2}
MCWorkerOf == (w1 :> a1) @@ (w2 :> a1) @@ (w3 :> a2)
=============================================================================
