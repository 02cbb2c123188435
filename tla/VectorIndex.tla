---------------------------- MODULE VectorIndex -----------------------------
(***************************************************************************)
(* The vector memory: the provider the forensics agent uses                *)
(* (vector/pinecone_provider.py) and the stores of the VectorStoreManager  *)
(* (vector/pinecone_stores.py), one for each namespace, all over one index *)
(* of their own.  Each opens its index on first use, on a thread, and      *)
(* creates it if it is not listed.  Without a Pinecone key both are        *)
(* replaced by dictionaries.                                               *)
(***************************************************************************)
EXTENDS Tasks, Integers

CONSTANTS
    Namespaces,     \* the manager's namespaces
    Provider,       \* the forensics agent's provider
    None,
    MaxVecFaults    \* bound on the failures of Pinecone

ASSUME VecAssumption == MaxVecFaults \in Nat

Handles == Namespaces \union {Provider}
IndexOf(h) == IF h = Provider THEN "asoc-incidents" ELSE "asoc-vector"
Indexes == {IndexOf(h) : h \in Handles}

VARIABLES
    pineconeKey,  \* whether PINECONE_API_KEY is set
    handle,       \* per task, what it uses
    vecStep,      \* per task, where it is in an operation
    fits,         \* per task, whether its embedding has the index's dimension
    remote,       \* the indexes that exist at Pinecone
    opened,       \* the handles with _index set
    creator,      \* per index, the task that created it, if one did
    records,      \* per handle, the tasks whose record is stored
    deleted,      \* tasks whose record was deleted
    answer,       \* per task, what its upsert returned
    vecFaults

vecVars == <<pineconeKey, handle, vecStep, fits, remote, opened, creator,
             records, deleted, answer, vecFaults>>
config == <<pineconeKey, handle>>

Outcomes == {"none", "done", "failed"}
Steps == {"idle", "embedded", "listing", "creating", "binding", "calling"}
EmbedOps == {"store", "search"}

VecInit ==
    /\ pineconeKey \in BOOLEAN
    /\ vecStep = [p \in Processes |-> "idle"]
    /\ fits = [p \in Processes |-> FALSE]
    /\ opened = {}
    /\ remote \in IF pineconeKey THEN SUBSET Indexes ELSE {{}}  \* else nobody asks
    /\ creator = [x \in Indexes |-> None]
    /\ records = [h \in Handles |-> {}]
    /\ deleted = {}
    /\ answer = [p \in Processes |-> "none"]
    /\ vecFaults = 0

-----------------------------------------------------------------------------
VecFault == vecFaults < MaxVecFaults /\ vecFaults' = vecFaults + 1

Step(p, s) == vecStep' = [vecStep EXCEPT ![p] = s]

\* The operation ends; an error is caught and logged.
Return(p, op, outcome) ==
    /\ Step(p, "idle")
    /\ answer' = IF op = "store" THEN [answer EXCEPT ![p] = outcome] ELSE answer

\* OpenAI's embeddings are longer than the dimension the indexes are created
\* with; the fallback's, used whenever OpenAI fails or has no key, are not.  The
\* mock provider embeds by itself.
Embed(p, op) ==
    /\ vecStep[p] = "idle" /\ op \in EmbedOps
    /\ \E ok \in BOOLEAN :
        /\ ~pineconeKey /\ handle[p] = Provider => ok
        /\ fits' = [fits EXCEPT ![p] = ok]
    /\ Step(p, "embedded")
    /\ UNCHANGED <<config, remote, opened, creator, records, deleted, answer, vecFaults>>

Begun(p, op) == vecStep[p] = IF op \in EmbedOps THEN "embedded" ELSE "idle"

\* What a call does to the records.
Apply(p, op) ==
    LET h == handle[p] IN
    /\ records' = CASE op = "store"  -> [records EXCEPT ![h] = @ \union {p}]
                    [] op = "delete" -> [records EXCEPT ![h] = {}]
                    [] OTHER         -> records
    /\ deleted' = IF op = "delete" THEN deleted \union records[h] ELSE deleted

\* MockVectorProvider and MockStore: a dictionary, no await.
MockCall(p, op) ==
    /\ Begun(p, op) /\ ~pineconeKey
    /\ Apply(p, op)
    /\ Return(p, op, "done")
    /\ UNCHANGED <<config, fits, remote, opened, creator, vecFaults>>

\* Mutant: _index is set before the thread has looked for the index.
GetIndexMutant(p, op) ==
    /\ Begun(p, op) /\ pineconeKey
    /\ Step(p, IF handle[p] \in opened THEN "calling" ELSE "listing")
    /\ opened' = opened \union {handle[p]}
    /\ UNCHANGED <<config, fits, remote, creator, records, deleted, answer, vecFaults>>

\* _get_index: the handle's index if it is set, else a thread is started.
GetIndex(p, op) ==
    /\ Begun(p, op) /\ pineconeKey
    /\ Step(p, IF handle[p] \in opened THEN "calling" ELSE "listing")
    /\ UNCHANGED <<config, fits, remote, opened, creator, records, deleted, answer, vecFaults>>

ListIndexes(p) ==
    /\ vecStep[p] = "listing"
    /\ Step(p, IF IndexOf(handle[p]) \in remote THEN "binding" ELSE "creating")
    /\ UNCHANGED <<config, fits, remote, opened, creator, records, deleted, answer, vecFaults>>

CreateIndex(p) ==
    LET x == IndexOf(handle[p]) IN
    /\ vecStep[p] = "creating" /\ x \notin remote
    /\ remote' = remote \union {x}
    /\ creator' = [creator EXCEPT ![x] = p]
    /\ Step(p, "binding")
    /\ UNCHANGED <<config, fits, opened, records, deleted, answer, vecFaults>>

BindIndex(p) ==
    /\ vecStep[p] = "binding"
    /\ opened' = opened \union {handle[p]}
    /\ Step(p, "calling")
    /\ UNCHANGED <<config, fits, remote, creator, records, deleted, answer, vecFaults>>

\* _init raises: Pinecone failed, or another thread created the index since it
\* was listed.  The provider then returns the index it may have by now, a store
\* returns none.
OpenFails(p, op) ==
    /\ \/ vecStep[p] \in {"listing", "creating", "binding"} /\ VecFault
       \/ vecStep[p] = "creating" /\ IndexOf(handle[p]) \in remote /\ UNCHANGED vecFaults
    /\ IF handle[p] = Provider /\ Provider \in opened
       THEN Step(p, "calling") /\ UNCHANGED answer
       ELSE Return(p, op, "failed")
    /\ UNCHANGED <<config, fits, remote, opened, creator, records, deleted>>

\* Pinecone refuses a vector of another dimension.
Refused(p, op) == op \in EmbedOps /\ ~fits[p]

Call(p, op) ==
    /\ vecStep[p] = "calling" /\ ~Refused(p, op)
    /\ Apply(p, op)
    /\ Return(p, op, "done")
    /\ UNCHANGED <<config, fits, remote, opened, creator, vecFaults>>

\* A call that failed may have had its effect.
CallFails(p, op) ==
    /\ vecStep[p] = "calling"
    /\ \/ VecFault /\ (Apply(p, op) \/ UNCHANGED <<records, deleted>>)
       \/ Refused(p, op) /\ UNCHANGED <<records, deleted, vecFaults>>
    /\ Return(p, op, "failed")
    /\ UNCHANGED <<config, fits, remote, opened, creator>>
=============================================================================
