---------------------------- MODULE EventSource -----------------------------
(***************************************************************************)
(* The cloud provider of the telemetry agent (agents/telemetry.py).  The   *)
(* AWS, GCP and Azure providers have one shape: a client made on first use *)
(* and a query on a thread, whose errors are an empty answer; whenever     *)
(* there is nothing to report, made-up events are reported instead.        *)
(***************************************************************************)
EXTENDS Tasks, Integers

CONSTANT MaxEvents    \* max_results, which the mock templates always fill

ASSUME EventsAssumption == MaxEvents \in Nat \ {0}

VARIABLES
    client,     \* whether the provider's _client is set
    querying    \* the tasks whose query runs on a thread

sourceVars == <<client, querying>>

SourceInit == client = FALSE /\ querying = {}

MockEvents == MaxEvents

\* _get_client, and the query given to the executor.
Query(p) ==
    /\ p \notin querying
    /\ client' = TRUE
    /\ querying' = querying \union {p}

\* There is no library or no valid configuration for a client: n events are made
\* up, and the next fetch tries again.
NoClient(p, n) ==
    /\ p \notin querying /\ ~client
    /\ n = MockEvents
    /\ UNCHANGED sourceVars

\* The thread returns n events: what was found, or the made-up ones if that was
\* nothing or an error.
Answer(p, n) ==
    /\ p \in querying
    /\ n \in (1..MaxEvents) \union {MockEvents}
    /\ querying' = querying \ {p}
    /\ UNCHANGED client
=============================================================================
