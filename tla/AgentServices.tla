---------------------------- MODULE AgentServices ---------------------------
(***************************************************************************)
(* What the agents do with the services around them.  The forensics        *)
(* agent's process_message (agents/forensics.py) logs an event, searches   *)
(* the vector memory, stores its analysis and logs another event;          *)
(* meanwhile API requests append and read events or probe the service's    *)
(* health, the telemetry agent polls its provider and logs what it         *)
(* fetched, simulations send an alert and append an event until they are   *)
(* cancelled, and records are ingested, searched and deleted by the store  *)
(* manager.  All share the lazily made database pool, vector indexes and   *)
(* provider client.                                                        *)
(***************************************************************************)
EXTENDS DatabasePool, VectorIndex, EventSource, Notifier, FiniteSets

ASSUME ServicesAssumption == Provider \notin Namespaces /\ None \notin Processes

VARIABLES
    todo,         \* per task, the operations still to do
    rejected      \* messages stopped by the injection filter

vars == <<dbVars, vecVars, sourceVars, alertVars, todo, rejected>>

\* forensics.process_message, which uses the vector provider; the telemetry
\* agent's poll; the last steps of a simulation; an agent's log_event and the
\* requests of the API, the health probe among them; operations of the store
\* manager.
Analysis == <<"log", "search", "store", "log">>
Poll == <<"fetch">>
Simulation == <<"alert", "append">>
Requests == {<<"log">>, <<"read">>, <<"timeline">>, <<"read", "probe">>}
ManagerCalls == {<<"store">>, <<"search">>, <<"delete">>}
DbOps == {"log", "append", "read", "timeline"}
VecOps == EmbedOps \union {"delete", "probe"}

Init ==
    /\ DbInit /\ VecInit /\ SourceInit /\ AlertInit
    /\ todo \in [Processes -> {Analysis, Poll, Simulation} \union Requests \union ManagerCalls]
    /\ handle \in [Processes -> Handles]
    /\ \A p \in Processes : todo[p] \in ManagerCalls <=> handle[p] # Provider
    /\ rejected = {}

-----------------------------------------------------------------------------
Doing(p, ops) == todo[p] # <<>> /\ Head(todo[p]) \in ops

\* The operation is over, well or not: log_event, the tools, the probes and a
\* simulation's append catch what is raised, and a request that fails has nothing
\* left to do.
Proceed(p) == todo' = [todo EXCEPT ![p] = Tail(@)]

DbStep(p) ==
    /\ Doing(p, DbOps)
    /\ \/ (OpenPool(p) \/ UsePool(p) \/ PoolCreated(p) \/ Migrate(p)) /\ UNCHANGED todo
       \/ PoolRaises(p) /\ Proceed(p)
       \/ ~Doing(p, {"timeline"}) /\ Execute(p, Doing(p, {"log", "append"})) /\ Proceed(p)
       \/ Doing(p, {"timeline"}) /\ Unparsable(p) /\ Proceed(p)
    /\ UNCHANGED <<vecVars, sourceVars, alertVars, rejected>>

DbFails(p) ==
    /\ Doing(p, DbOps)
    /\ ConnectFails(p) \/ MigrateFails(p) \/ ExecuteFails(p)
    /\ Proceed(p)
    /\ UNCHANGED <<vecVars, sourceVars, alertVars, rejected>>

VecStep(p) ==
    /\ Doing(p, VecOps)
    /\ LET op == Head(todo[p]) IN
       \/ /\ \/ Embed(p, op) \/ GetIndex(p, op)
             \/ ListIndexes(p) \/ CreateIndex(p) \/ BindIndex(p)
          /\ UNCHANGED todo
       \/ (MockCall(p, op) \/ Call(p, op)) /\ Proceed(p)
    /\ UNCHANGED <<dbVars, sourceVars, alertVars, rejected>>

VecFails(p) ==
    /\ Doing(p, VecOps)
    /\ \/ OpenFails(p, Head(todo[p])) /\ (IF vecStep'[p] = "idle" THEN Proceed(p) ELSE UNCHANGED todo)
       \/ CallFails(p, Head(todo[p])) /\ Proceed(p)
    /\ UNCHANGED <<dbVars, sourceVars, alertVars, rejected>>

\* poll_cloudtrail: an event is sent and then logged.  Nothing is ever sent:
\* send_message takes the value of a message type that pydantic has already
\* turned into a string, raises and logs that.
PollStep(p) ==
    /\ Doing(p, {"fetch"})
    /\ \/ Query(p) /\ UNCHANGED todo
       \/ \E n \in 1..MaxEvents :
             /\ NoClient(p, n) \/ Answer(p, n)
             /\ todo' = [todo EXCEPT ![p] = [e \in 1..n |-> "log"]]
    /\ UNCHANGED <<dbVars, vecVars, alertVars, rejected>>

AlertStep(p) ==
    /\ Doing(p, {"alert"})
    /\ Post(p) \/ PostFails(p) \/ AnswerUnreadable(p)
    /\ IF queue'[p] = <<>> THEN Proceed(p) ELSE UNCHANGED todo
    /\ UNCHANGED <<dbVars, vecVars, sourceVars, rejected>>

\* A simulation is cancelled when its client starts another, stops it or leaves.
\* In an alert the POST may have been taken, and no other provider is asked.
CancelAlert(p) ==
    /\ Doing(p, {"alert"}) /\ queue[p] # <<>>
    /\ Took(p) \/ UNCHANGED posted
    /\ doubts' = [doubts EXCEPT ![p][First(p)] = @ + 1]
    /\ todo' = [todo EXCEPT ![p] = <<>>]
    /\ UNCHANGED <<dbVars, vecVars, sourceVars, queue, attempt, failures, netFaults, rejected>>

\* In its append, whose except clause lets a cancellation through.
CancelAppend(p) ==
    /\ Doing(p, {"append"})
    /\ CancelDb(p)
    /\ todo' = [todo EXCEPT ![p] = <<>>]
    /\ UNCHANGED <<vecVars, sourceVars, alertVars, rejected>>

\* analyze_incident raises before it searches, and send_alert before it posts, if
\* the filter finds an injection.
Reject(p) ==
    /\ \/ handle[p] = Provider /\ Doing(p, {"search"}) /\ vecStep[p] = "idle"
       \/ Doing(p, {"alert"}) /\ queue[p] = Providers /\ attempt[p] = 0
    /\ todo' = [todo EXCEPT ![p] = <<>>]
    /\ rejected' = rejected \union {p}
    /\ UNCHANGED <<dbVars, vecVars, sourceVars, alertVars>>

Next ==
    \E p \in Processes :
        \/ DbStep(p) \/ DbFails(p) \/ VecStep(p) \/ VecFails(p)
        \/ PollStep(p) \/ AlertStep(p) \/ CancelAlert(p) \/ CancelAppend(p) \/ Reject(p)

Spec == Init /\ [][Next]_vars

\* A call of PostgreSQL, Pinecone, OpenAI, a cloud provider or a webhook ends,
\* well or not: the clients have timeouts.
FairSpec ==
    /\ Spec
    /\ \A p \in Processes : WF_vars(\/ DbStep(p) \/ DbFails(p) \/ VecStep(p) \/ VecFails(p)
                                   \/ PollStep(p) \/ AlertStep(p))

-----------------------------------------------------------------------------
(* The state has its types, and a handle is bound only to an index that    *)
(* exists (pinecone_provider.py:130).                                      *)
TypeOK ==
    /\ pool \in {"absent", "connecting", "ready", "dead"} /\ table \in BOOLEAN
    /\ dbStep \in [Processes -> {"idle", "connecting", "migrating", "querying"}]
    /\ {openers, cancelled, lost} \subseteq SUBSET Processes /\ refused \subseteq lost
    /\ events \in Nat /\ dbFaults \in 0..MaxDbFaults /\ vecFaults \in 0..MaxVecFaults
    /\ vecStep \in [Processes -> Steps] /\ fits \in [Processes -> BOOLEAN]
    /\ deleted \subseteq Processes /\ answer \in [Processes -> Outcomes]
    /\ remote \subseteq Indexes /\ creator \in [Indexes -> Processes \union {None}]
    /\ opened \subseteq {h \in Handles : IndexOf(h) \in remote}
    /\ records \in [Handles -> SUBSET Processes]
    /\ client \in BOOLEAN
    /\ queue \in [Processes -> Seq(Configured)] /\ attempt \in [Processes -> 0..MaxRetries]
    /\ querying \subseteq {p \in Processes : client /\ todo[p] = Poll}

Ended(p) == todo[p] = <<>>

\* One pool is made and connected, whoever asks for it while it is.  Without a
\* failure of PostgreSQL its maker loses no event.  If the maker is not cancelled
\* either, the pool is never left unconnected, and the others lose only what they
\* ask before it is ready; if it is, they may lose everything from then on.
OnePool ==
    /\ Cardinality(openers) <= 1
    /\ dbFaults = 0 => openers \intersect lost = {}
    /\ dbFaults = 0 /\ openers \intersect cancelled = {} => pool # "dead" /\ lost = refused

\* An upsert that counted its record stored it, unless a delete came after.  One
\* that did not, of a vector of the right length and without a failure of
\* Pinecone, lost the race to create the index to another task.  (The forensics
\* agent does not look at what upsert returned and reports the record as stored.)
StoreTruthful ==
    \A p \in Processes :
        /\ answer[p] = "done" => p \in records[handle[p]] \union deleted
        /\ answer[p] = "failed" /\ fits[p] /\ vecFaults = 0 =>
              creator[IndexOf(handle[p])] \notin {None, p}

\* A provider gets an alert once, and again only after a POST that may have been
\* taken, within the retries.  Of an alert that ran to its end every provider
\* took it or answered False.
AlertsAccounted ==
    \A p \in Processes, c \in Configured :
        /\ posted[p][c] <= 1 + doubts[p][c] /\ posted[p][c] <= MaxRetries + 1
        /\ queue[p] = <<>> => posted[p][c] > 0 \/ c \in failures[p]

(* What is lost has its reason: an event, a failure of PostgreSQL, the     *)
(* time the one pool takes to connect (connection.py:77) or a cancellation *)
(* of the simulation that was connecting it (app.py:433); a record, a      *)
(* failure of Pinecone, an embedding of the wrong length or an index that  *)
(* another task was just creating (pinecone_stores.py:227); and an alert,  *)
(* or a second ticket for it, a failed POST (notifications.py:153).        *)
LossExplained == OnePool /\ StoreTruthful /\ AlertsAccounted

(* Every message is answered, whatever fails on the way: with a report, or *)
(* not at all if its content was rejected; and every request comes to an   *)
(* end (forensics.py:209).                                                 *)
Replies == <>(\A p \in Processes : Ended(p))
=============================================================================
