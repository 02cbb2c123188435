---------------------------- MODULE DatabasePool ----------------------------
(***************************************************************************)
(* core/connection.py and the PostgreSQL event store that uses it: one     *)
(* pool object for the process, made by the first caller.  The object is   *)
(* published before its connect has ended, so that the check outside the   *)
(* lock sees it at once and no second caller ever waits for the lock.      *)
(***************************************************************************)
EXTENDS Tasks, Integers

CONSTANT MaxDbFaults    \* bound on the failures of PostgreSQL

ASSUME DbAssumption == MaxDbFaults \in Nat

VARIABLES
    pool,         \* _db_pool and its _pool
    table,        \* whether the events table exists
    dbStep,       \* per task, where it is in a database operation
    openers,      \* tasks that began a connect
    events,       \* events stored
    lost,         \* tasks an operation of which failed
    refused,      \* tasks that met a pool not yet usable, or a missing table
    cancelled,    \* tasks cancelled in a database operation
    dbFaults

dbVars == <<pool, table, dbStep, openers, events, lost, refused, cancelled, dbFaults>>

DbInit ==
    /\ pool = "absent"
    /\ table \in BOOLEAN
    /\ dbStep = [p \in Processes |-> "idle"]
    /\ openers = {} /\ events = 0
    /\ lost = {} /\ refused = {} /\ cancelled = {}
    /\ dbFaults = 0

-----------------------------------------------------------------------------
DbFault == dbFaults < MaxDbFaults /\ dbFaults' = dbFaults + 1

Goto(p, s) == dbStep' = [dbStep EXCEPT ![p] = s]

\* Mutant: whoever finds no connected pool makes one.
OpenPoolMutant(p) ==
    /\ dbStep[p] = "idle" /\ pool \in {"absent", "connecting"}
    /\ pool' = "connecting" /\ openers' = openers \union {p}
    /\ Goto(p, "connecting")
    /\ UNCHANGED <<table, events, lost, refused, cancelled, dbFaults>>

\* The first caller makes the pool and opens it.
OpenPool(p) ==
    /\ dbStep[p] = "idle" /\ pool = "absent"
    /\ pool' = "connecting" /\ openers' = openers \union {p}
    /\ Goto(p, "connecting")
    /\ UNCHANGED <<table, events, lost, refused, cancelled, dbFaults>>

\* get_db_pool returns at once; the pool serves as soon as create_pool returned.
UsePool(p) ==
    /\ dbStep[p] = "idle" /\ pool = "ready"
    /\ Goto(p, "querying")
    /\ UNCHANGED <<pool, table, openers, events, lost, refused, cancelled, dbFaults>>

\* Mutant: a caller waits for a pool that will never be connected.
PoolRaisesMutant(p) ==
    /\ dbStep[p] = "idle" /\ pool = "connecting"
    /\ lost' = lost \union {p}
    /\ refused' = refused \union {p}
    /\ UNCHANGED <<pool, table, dbStep, openers, events, cancelled, dbFaults>>

\* pool.pool raises: not connected yet, or never to be.
PoolRaises(p) ==
    /\ dbStep[p] = "idle" /\ pool \in {"connecting", "dead"}
    /\ lost' = lost \union {p}
    /\ refused' = IF pool = "connecting" THEN refused \union {p} ELSE refused
    /\ UNCHANGED <<pool, table, dbStep, openers, events, cancelled, dbFaults>>

PoolCreated(p) ==
    /\ dbStep[p] = "connecting"
    /\ pool' = "ready"
    /\ Goto(p, "migrating")
    /\ UNCHANGED <<table, openers, events, lost, refused, cancelled, dbFaults>>

\* connect raises; the object stays, and nobody opens it again.
ConnectFails(p) ==
    /\ dbStep[p] = "connecting" /\ DbFault
    /\ pool' = "dead"
    /\ lost' = lost \union {p}
    /\ Goto(p, "idle")
    /\ UNCHANGED <<table, openers, events, refused, cancelled>>

Migrate(p) ==
    /\ dbStep[p] = "migrating"
    /\ table' = TRUE
    /\ Goto(p, "querying")
    /\ UNCHANGED <<pool, openers, events, lost, refused, cancelled, dbFaults>>

MigrateFails(p) ==
    /\ dbStep[p] = "migrating" /\ DbFault
    /\ lost' = lost \union {p}
    /\ Goto(p, "idle")
    /\ UNCHANGED <<pool, table, openers, events, refused, cancelled>>

\* The statement succeeds; an INSERT adds an event, a SELECT does not.
Execute(p, inserts) ==
    /\ dbStep[p] = "querying" /\ table
    /\ events' = IF inserts THEN events + 1 ELSE events
    /\ Goto(p, "idle")
    /\ UNCHANGED <<pool, table, openers, lost, refused, cancelled, dbFaults>>

\* get_timeline's statement writes its parameter as $$n, which PostgreSQL reads as
\* the start of a string: it never runs.
Unparsable(p) ==
    /\ dbStep[p] = "querying"
    /\ Goto(p, "idle")
    /\ UNCHANGED <<pool, table, openers, events, lost, refused, cancelled, dbFaults>>

ExecuteFails(p) ==
    /\ dbStep[p] = "querying"
    /\ \/ DbFault /\ refused' = refused
       \/ /\ ~table
          /\ refused' = refused \union {p}
          /\ UNCHANGED dbFaults
    /\ lost' = lost \union {p}
    /\ Goto(p, "idle")
    /\ UNCHANGED <<pool, table, openers, events, cancelled>>

\* The task is cancelled where it waits.  A pool that it was connecting stays
\* published and is never connected; a statement may have been run.
CancelDb(p) ==
    /\ cancelled' = cancelled \union {p}
    /\ pool' = IF dbStep[p] = "connecting" THEN "dead" ELSE pool
    /\ table' \in {table, table \/ dbStep[p] = "migrating"}
    /\ events' \in {events, IF dbStep[p] = "querying" /\ table THEN events + 1 ELSE events}
    /\ Goto(p, "idle")
    /\ UNCHANGED <<openers, lost, refused, dbFaults>>
=============================================================================
