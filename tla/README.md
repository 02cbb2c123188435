# A-SOC in TLA+

A-SOC (the Autonomous Secure AI Operations Center, `src/a-soc`) takes security
telemetry through a pipeline of agents to a remediation that a human has
approved, keeps signed records of what it did, and streams the process to a
dashboard. These modules model the parts of it whose behaviour over time is
hard to test: the agents' graph with its routes, crashes and replays, the
approval gate of the live feed, the two hash chains, the circuit breaker, the
tokens and the limiter in front of the API, the Redis bus, and the services that
agents and requests share (database pool, vector memory, cloud events, alerts).
All paths below are relative to `src/a-soc/src/asoc/` unless they start with
`src/`.

Run a model with `tlc -config X.cfg M` and a proof with `tlapm M.tla`.
`PROJECT.json` maps each definition to the lines it stands for.

## 1. The system

### Components, their state and operations

| Component | State | Operations | Modelled by |
|---|---|---|---|
| Workflow graph (`orchestration/workflow.py`, `routing.py`) | the `AgentState` of one incident, checkpointed after each node | eight nodes, four conditional edges | `IncidentWorkflow` |
| Agents (`agents/*.py`) | built anew in each node, so none | `run_cycle`: perceive, reason, validate, rate limit, act, log, observe | `IncidentWorkflow` |
| Checkpointing (`core/checkpoint_config.py`) | LangGraph's saver | resume a thread of the graph | `IncidentWorkflow` |
| Circuit breaker (`core/circuit_breaker.py`) | state, failure count, time of the last failure, half-open calls | `__aenter__`, `__aexit__`, `call` | `CircuitBreaker` |
| Audit trail (`audit/audit_trail.py`) | a file, and in each process the last entry's hash | `append`, `verify_chain`, `get_entries` | `AuditTrail` |
| Event store (`core/event_store.py`) | a file, and in each process the last hash and a lock | `append_event`, `verify_chain`, queries | `EventStore` |
| Threat feed (`api/app.py`) | the connection list and its lock, a reaper task, a background task; per connection an approval event and a simulation task | connect, three commands, broadcast, disconnect | `ThreatFeed` |
| Request limiter (`core/rate_limiter.py`) | a token bucket per client address | check | `RequestLimiter` |
| Agent limiter (`middleware/rate_limiter.py`) | token buckets per agent, IP and endpoint | check | as a free choice in `IncidentWorkflow` |
| Tokens (`core/jwt_handler.py`) | refresh-token records, keys | issue, verify, rotate, revoke | `RefreshTokens` |
| Authenticated routes (`api/app.py`) | the two above | token, refresh, hunting | `ApiAccess` |
| Redis bus (`core/message_bus.py`) | a stream and consumer group per topic, a table of consumer tasks | publish, subscribe, close | `MessageBus` |
| Database pool (`core/connection.py`) and PostgreSQL store (`core/event_store.py`) | one pool made by its first caller | get, connect, migrate, append, query | `DatabasePool` |
| Vector memory (`vector/*.py`) | an index per handle, opened on first use | embed, upsert, query, delete, probe | `VectorIndex` |
| Cloud events (`agents/telemetry.py`) | a client made on first use | fetch | `EventSource` |
| Alerts (`agents/notifications.py`, `core/retry.py`) | none beyond the call | send to each provider, retry | `Notifier` |
| Agents, simulations and requests that use the last four | what each has still to do | analyse, poll, alert, append, read, probe, ingest | `AgentServices` |

### How they interact

The graph runs a node at a time. A node builds its agent and runs one cycle on
the state; the agent asks the rate limiter once before its tools run, writes to
the audit trail after them, and returns a state, which LangGraph checkpoints
before it takes the node's outgoing edge. The threat feed does not run the
graph: its simulation task calls the detection agent, writes to the audit trail
and the event store, and broadcasts what it does to every connection. All tasks
of a worker process share one event loop, one audit trail, one event store and
one connection manager; `src/a-soc/Makefile:12` starts two worker processes, which
share the files and nothing else: each keeps its own last hash of either chain and
its own lock. `api/app.py:271` creates breakers that only the health route
reads. The response agent the graph builds has the remediation provider that
logs and succeeds; the AWS provider can be given to it, and the model allows
any provider. `worker.py` and `orchestration/__init__.py` import names that do
not exist, so the graph is started by its tests and by whoever calls
`create_asoc_graph`.

The token and hunting routes pass the request limiter, the hunting routes after
they have verified an access token; the audit, rate-limit and health routes do not
pass it. `app.include_router(api_v1)` (`api/app.py:170`) runs before the routes of
`api_v1` are declared (203, 226 and on), so at this commit HTTP reaches the hunting
routes only under `/api/hunting/` and issue and refresh not at all: `ApiAccess` models
the handlers, for when they are called. What agents log (`log_event`) goes to
`PostgresEventStore`; the end of a simulation and the routes use it when
`DATABASE_URL` names a database that is not local, and the file store otherwise.
It asks for the process's one pool at each call. Forensics also searches and fills
the vector memory, and the store manager has three stores of its own over one
further index. Agents would send messages
over the bus, but `send_message` (`agents/base.py:142`) asks for `.value` of what
pydantic has already made a string, so every send raises and is logged: the bus
is modelled for whoever publishes, the agents without an effect on it.

### What is hard, and what makes each component correct

*Workflow.* Authorization is read in three places and steers four edges; a hint
(`next_step`) outlives the node that set it; the tools' effects come before the
audit entry and before the checkpoint, so a crash repeats or hides them. It is
correct if nothing is remediated without approval on any path, if only a lost
node result repeats a remediation, if every incident ends, and if an operator
cannot tell it from a simple pipeline.

*Circuit breaker.* Calls end late, in any order, in a period that did not admit
them. It is correct if it lets no call through too early, cannot wedge half
open, and closes when the service is well.

*Audit trail and event store.* Two processes, torn writes, cancelled tasks and
restarts act on a file whose last hash each process has cached in memory. They are correct if an
acknowledged record is kept, if links never dangle, and if the damage of a
fault is bounded by the number of faults.

*Threat feed.* Clients come, go, approve, stop and restart at any await, and one
lock is held across sends, those of the background task included. It is correct if an approval counts for the run of
the client that gave it, if no client's registration outlives it (nor its task,
unless its handler died of an exception it does not catch: then nobody cancels
the task), and if the reaper lives as long as there are connections.

*Tokens and limiter.* Refresh tokens are exchanged, lost, presented again and
forgotten by a restart, while signatures outlive the process that has the table.
They are correct if a login has one live token, if a detected reuse ends all the
sessions of the user, and if renewing buckets does not let clients in faster
than stated.

*Message bus.* A message is delivered once and never again, so each way for a
consumer to stop between reading and acknowledging costs something. It is
correct if no message is handled twice or out of order, if what is lost is
bounded by what failed, and if every message is settled while a consumer lives.

*Services.* Pool, indexes and clients are made by whoever comes first, while
others come; errors are caught and logged, and a simulation can be cancelled
while it connects the pool for all. They are correct if one is made, if every
loss has a failure, a race or a cancellation to account for it, and if every
request ends.

`PROJECT.json` lists the hazards at their lines with the properties that cover them.

## 2. The modules

### IncidentPipeline and IncidentWorkflow

`IncidentPipeline` is the abstract specification: an incident is analysed, then
held, investigated or answered depending on its risk and on the human decision;
an answered incident is reported and notified before it is closed; an incident
may be lost when nothing durable remembers it.

`IncidentWorkflow` is the graph. `node` is the node to run, `state` the
checkpointed `AgentState` (risk and confidence in hundredths, the hint, the
observations), `phase` the place in `run_cycle`: *idle*, *acting* (tools
admitted), *acted* (effects done), *logged* (audit entry written), *down* (the
worker died or the node was given up). The actions follow `agents/base.py:51-99`:

| Action | Code |
|---|---|
| `SkipTools`, `StartTools` | no validated call; the limiter admits the agent |
| `RateLimited` | the limiter rejects it: audit entry, escalating observation, next edge |
| `Act`, `LogCycle`, `Observe` | the tools' effects; the `cycle_complete` entry; observation, checkpoint and edge |
| `Hitl` | `_hitl_node` |
| `Interrupt`, `Resume`, `Forget` | a crash, a tool that raises, or `_run_async` giving up; a worker started again with and without a durable checkpoint |

The edges are `RouteAfter...`, each a function of the state; the agents'
`observe` methods are `Observe<Agent>`. What an agent's text says is left out;
what is kept of an incident is whether it is authorized, whether a message and
a mapped action came with it, whether MITRE and the high-risk list know its
event, and whether the checkpointer is durable. Supervisor retry counters are
the constant 0 they are in the code, since each node builds a new agent, and
the retry tool changes nothing because no factory is registered.

### CircuitBreaker

One breaker and concurrent callers. `__aenter__` and `__aexit__` never wait
while they hold the lock, so each is one step and the guarded call runs between
them. The time since the last failure is counted in ticks up to the timeout, the
failures up to the threshold: the code only compares with `>=`. `probing` is a
history variable (the calls admitted in the present half-open period), `healthy`
and `doomed` are the environment: after `Heal` only calls begun before it fail.

### AuditTrail

Lines of one file, and each process's `_last_hash`. An entry's hash is unique,
so the line number stands for it. `append` is one step: nothing else in the
process runs inside it, and a crash before its last assignment leaves what a
crash after it leaves. `Tear` is a write cut short; the next append continues
the torn line, which then nobody can parse (`spoilt`). `Verifies(log, day)` is
`verify_chain` run on a given day: each signature is recomputed with that day's key.

### EventStore

Several worker processes and one file. `append_event` in three steps: sign with
the last hash the worker knows and queue for its lock; write on an executor
thread; remember the hash and release. An event's number stands for its hash.
`Cancel` may hit either wait: the lock is released, and a thread that has begun
goes on writing (`orphans`). A write can fail with nothing written or break off
inside the line (`TearLine`); the next append of any worker continues the piece,
and that line can then not be parsed (`spoilt`). A write cut just before its
newline counts as such a piece. After it, and on an empty file, `LoadLastHash`
gives the empty hash, as the code's `except` does. `Restart` is the death of one
worker with its tasks and threads. `overlapped` and `cancelled` are history
variables. (`get_recent_events` and the other readers parse the whole file and
return nothing once a line does not parse; they change nothing.)

### ThreatFeed

Per connection a handler, an approval event and at most one task; shared, the
registered connections, the reaper and the lock with its holder, which can also be
the background task (`BackgroundSends`, `BackgroundSent`: it broadcasts every few
seconds as long as the application runs). Everything
between two awaits is one step. Taking a free lock does not wait, so `connect`
and `disconnect` are one step, guarded by the lock being free; a broadcast is two
(taking the lock, and releasing it when all sends are over, with those whose
send failed forgotten). Consecutive status messages of a task are one broadcast.
`risky` and `approved` are history variables: which tasks passed the threshold,
and whose client approved since the task was started.

### RefreshTokens, RequestLimiter and ApiAccess

`ApiAccess` composes the two over `WallClock`, for one worker process: workers
share nothing, so a token of another one is a token without a record, like one
from before a restart (`Restart` forgets records and buckets, and keys that are
not configured). A request has no await between its steps and is one action.
A pair of tokens is its number; `login` is the pair its chain of exchanges
began with, a history variable like `caught` (the last reuse detected, per
user), `admitted` and `lives` (requests let in, buckets made). All settings of
the two keys are initial states; with one of them missing nothing verifies.
A bucket renewed at age `CleanupInterval` is charged before it is dropped.

### Mailbox and MessageBus

`Mailbox` is the promise of a topic: messages are taken in order, in batches,
and each is handled at most once; it may be trimmed before it is taken and lost
after. `MessageBus` is one stream with one group: each subscription a polling
task that reads a batch (`Read`), calls the handler (`Handle`, `HandlerFails`)
and acknowledges (`Ack`). Reads and acknowledgements can fail before or after
the server acted; `Close` stops only the task in the table, `Crash` all of them.
Topics share nothing, so one is modelled. `interrupted` and `unacked` count the
failures. A handler is called and not awaited, as in the code.

### DatabasePool, VectorIndex, EventSource, Notifier and AgentServices

Each of the first four is a service that the tasks of one process share, with
the waits of the code as steps between which other tasks run:

- `DatabasePool`: the pool object is published before `connect` has ended
  (*connecting*), stays for ever if it failed or its task was cancelled (*dead*),
  and serves before its migration has run. `lost` are the tasks an operation of
  which failed, `refused` those of them that met an unfinished pool, `cancelled`
  the tasks cancelled in an operation (`CancelDb`: in `create_pool`, in the
  migration or in a statement, which may have run). `close` runs only at shutdown.
- `VectorIndex`: a handle is the forensics agent's provider or a store of the
  manager; it looks for its index, creates and binds it on a thread. Either index
  may be left from an earlier run (without a Pinecone key nobody asks). They are made with dimension 32 and 384, OpenAI's embeddings have 1536, so only the
  fallback's fit (`fits`). What differs between provider and store (after a failed
  opening the provider returns an index another task may have bound) is in
  `OpenFails`.
- `EventSource`: whenever a provider has no client, no answer or no events,
  it reports made-up ones; the three providers have this one shape.
- `Notifier`: one provider after the other, each retried after an HTTP error.

`AgentServices` gives each task a list of operations (`todo`): forensics' whole
message, a poll, the last steps of a simulation (an alert and an append to the
event store), a request or a manager's call. `Proceed` drops the
operation at its end, also at a bad one: `log_event` and the tools catch and log
what is raised. `_tool_store_vector` does not look at upsert's answer, so the
analysis goes on. `get_timeline` never runs (`$$n` does not parse) and ends as
`Unparsable`. `Reject` is the injection filter. A simulation is cancelled when its
client starts another, stops it or leaves (`api/app.py:398`, 417, 433):
`CancelAlert` in the middle of its alert, `CancelAppend` in its append, which
catches only `Exception`.

### Mutants

An operator named `...Mutant` is a plausible bug of the definition after it
(a dropped guard, a missing reset). No behaviour uses it. Put in the place of
its original, it makes TLC report the property that `PROJECT.json` pairs it with.

## 3. The runs

| Run | States | What it shows |
|---|---|---|
| `incident_workflow` | 204 206 | see below |
| `circuit_breaker` | 950 | four callers, threshold 2, timeout 2, two probes |
| `audit_trail` | 90 970 | two processes |
| `event_store` | 1 003 039 | two worker processes, three writers, four events, one restart, one torn write |
| `threat_feed` | 100 926 | two clients |
| `api_access` | 1 070 128 | two users, two client ids, one address, four pairs, one restart |
| `message_bus` | 87 014 | three messages, three subscriptions, three failures |
| `agent_services` | 1 841 800 | two tasks, two stores and the provider, two alert providers |
| `blocked_risk`, `audit_gap`, `audit_midnight`, `unapproved_action` | | disagreements between documentation and code, section 6 |

*incident_workflow.* `AuthorizedRemediation`: no unapproved incident is
remediated on any path. `ReplayBounded`: only an interruption repeats a
remediation. `HaltHonoured`: an incident without events never reaches the
response, unless the supervisor was rate limited, which overwrites the hint.
(The CloudTrail provider `workflow.py:59` builds makes events up when there are
none, `agents/telemetry.py:129`, so with it there is always an event; the model
lets the telemetry agent have any provider, as the property is about the agent.)
`ClaimBacked`: a claimed remediation of an approved, actionable incident has
been executed. (Without the two conditions the claim is false: `all([])` is a
success, so a response without tools claims one.) `ImplementsPipeline` is the
refinement, `Terminates` liveness.
Bounds: one incident, since runs of the graph share no state but the audit
trail and the limiter; the scores cover each side of the thresholds 0.5, 0.8,
0.9 and 0.95 with every boost; two interruptions, so that a replay is itself interrupted.

*circuit_breaker.* `TrippedIffNotClosed` relates count and state through every
order of late endings; `ProbesAccounted` says half-open slots are held by calls
still running; `QuietAfterFailure` is an action property about any call's start;
`Recovers` liveness. Four callers are two probes, a call an earlier period
admitted and one that is turned away.

*audit_trail.* `LinksBackwards` (no dangling link), `SoleWriterVerifies` (one
writer, one day and no torn line: the log verifies across restarts),
`SpoiltBounded` (one failed write costs at most one later entry), `RootsBounded`
(where chains begin anew), `BrokenForever` (nothing repairs a broken log). Two
processes, the bounds of `AuditTrail.cfg`; the processes are all alike, and the
faults occur at least twice or once in each process.

*event_store.* `LinksAreStored` and `StoredOnce` hold whatever the workers, the
cancellations and the torn writes do. `DamageBounded` counts the lines
`verify_chain` rejects: at most one for each change of the writing process from
one line to the next, each event signed during another append of its process and
each cancelled append, and two for each torn write. So with one process that
appends one event after the other the file verifies, across restarts, while two
processes that take turns break it at each turn, with no overlap and no fault.
Two tasks of one worker and one of another are the smallest case with an overlap
in one process beside a second process. `WaitEnds` is about one process's lock: a
task that waits gets it, however its holder leaves. It was also checked with the
three writers in one process, a holder and two that wait (84 552 states).

*threat_feed.* `ApprovedByOwner`, `ReaperAlive`, and the liveness properties
`DeadUnregistered`, `LeaverStops`, `ApprovedProceeds`. `LeaverStops` exempts a handler
that died of an exception other than `WebSocketDisconnect` (`api/app.py:430`): its
waiting task is never cancelled, which the model has and no property forbids. Two clients are the
smallest case in which one's broadcasts hold up the other's disconnect and one's
approval could be taken for the other's.

*api_access.* `OneLivePerLogin`: of the pairs of a login at most the latest can be
exchanged. `ReuseEndsSessions`: after a reuse nothing of the sessions there were
can be exchanged, nor used past an access token's life. `AdmissionsPaced`: what
the renewal of buckets adds, and that the table of tokens grows no faster. A
user's second login is the parallel session a reuse must end, the second user
the one it must spare; four pairs are two logins and two exchanges. One address
and short periods suffice since buckets do not interact; the clock runs past
each lifetime and interval.

*message_bus.* `LossBounded`: an entry pending for ever is the price of a failed
handler, a failed acknowledgement or an interruption, which costs at most a
batch. `ImplementsMailbox` is the refinement, `EventuallySettled` liveness, for
tasks replaced in the table too. Three subscriptions are a consumer, the one that
replaced it and one after `close`; batches of two with three messages are read
whole, in part and concurrently; three failures can hit a read, an
acknowledgement and a task in one behaviour; the limit of one trims.

*agent_services.* `LossExplained` has three parts: `OnePool` (one pool is made;
without a failure of PostgreSQL its maker loses nothing, and if its maker is not
cancelled either, the pool is never left unconnected and the others lose only what
they asked too early), `StoreTruthful` (a counted upsert is stored; an uncounted one
of the right length without a failure lost the race to create the index) and
`AlertsAccounted` (a second ticket is the price of a failed POST; an alert that ended
asked every provider). Two tasks are the one that opens and the one that comes
meanwhile; every pair of their kinds is an initial state. Two network failures
exhaust the retries of one provider or hit two. A poll brings one event, since
each is logged like the one before; two were also checked, with one alert
provider. `Replies`: every task ends, whatever fails. It says nothing of how: the
forensics agent ignores the answer of `upsert` (`agents/forensics.py:127`) and
reports an analysis as stored that is not; `StoreTruthful` says when that can happen.

Deadlock is checked where the system cannot stop. It is off in `AuditTrail`,
`EventStore` and `MessageBus` (the bounded number of entries is used up),
`ThreatFeed` (all clients may leave), `ApiAccess` (the clock is bounded) and
`AgentServices` (every task ends).

### Fairness

- `IncidentWorkflow`: weak fairness of the graph runner's steps and of the
  worker being started again. Interruptions are not fair, only bounded.
- `CircuitBreaker`: time passes, each caller keeps calling when it may, and a
  running call ends. Whether it fails is free until the service is healthy.
- `EventStore`: the executors and event loops run the tasks that hold the locks.
  Cancelling and restarting are nobody's duty.
- `ThreatFeed`: strong fairness of each handler, each task and the reaper; the
  background task's broadcasts end. An
  asyncio lock wakes its waiters first come, first served, so a waiter gets a
  lock that is released again and again; strong fairness says that without a
  queue. It assumes every send ends: the code has no time-out around a send, and
  a client that never reads would stop the whole feed.
- `MessageBus`: Redis answers or fails, a handler returns or raises, and the event
  loop runs a task whose wait has ended. Failures, closing and publishing are
  nobody's duty.
- `AgentServices`: each call of PostgreSQL, Pinecone, OpenAI, a cloud or a webhook
  ends, well or not (`command_timeout=10`, `httpx` time-outs of the code, the
  clients' own defaults), and its task goes on. Cancelling and rejecting are free.

## 4. What is proved

For every value of the constants, by TLAPS:

*IncidentWorkflowProofs*, assuming `BaseScores \subseteq 0..100` and
`MaxInterruptions \in Nat`. The inductive invariant `IInv` is `TypeOK`,
`AuthorizedRemediation` and three facts the invariants do not say:
`CycleInv` (a cycle under way belongs to an agent's node), `ReplayInv` (before
the response's tools have run in the cycle that counts, each remediation was
followed by an interruption; afterwards there may be one more: the bound alone
is not inductive, since it would allow a further remediation in the response
node), and `HintInv` (the hint "end" reaches the supervisor only from a
telemetry node without events, so while the risk is still 0).

Two more parts are inductive beside it: `HaltInv` (after telemetry's HALT the
incident is over, or with the supervisor and still hinted "end") and `ClaimInv`
(a response past its tools has called the provider if it had to).

- `TypeCorrect`, `Authorized`, `ReplayBound` follow from `IInv`, `HaltIsHonoured`
  from `HaltInv` and `ClaimIsBacked` from `ClaimInv`.
- `Refinement` is `Spec => ImplementsPipeline`: each node that finishes is a step
  of the pipeline or a stutter. `HintInv` is what makes the supervisor's way to
  END an abstract `Discard`, which requires risk 0; that the supervisor itself never halts
  is the lemma `SupervisorNeverHalts` (paging starts at the score at which its
  block route does, and wins).

*CircuitBreakerProofs*, assuming finitely many callers and positive limits.
`IInv` is `TypeOK`, `TrippedIffNotClosed`, `ProbesAccounted` and `PeriodInv`
(a half-open breaker has been quiet for a whole timeout: its count is still at
the threshold, so any failure since would have opened it again; and only a
half-open breaker has probes).

- `TypeCorrect`, `Tripped`, `NeverWedged` and the action property `Quiet`.

*ApiAccessProofs*, assuming natural limits, a positive capacity and that the
default client is a client. The inductive invariant `TokenInv` adds to the types
`LoginsInv` (a pair belongs to a login no later than itself and was signed in the
past), `SupersededInv` (of the recorded pairs of a login all but the last are
revoked: `OneLivePerLogin` alone says nothing of an expired token or of one whose
key is gone, and so is not inductive) and `CaughtInv` (the recorded pairs of the
logins a reuse ended are revoked and were signed before it, so no exchange can
carry such a login on). `PaceInv` is the accounting of the buckets: what one holds
and what was let in are paid for by the buckets made and the refill up to its
last one; a bucket that is dropped is older than the cleanup interval, which pays
for the next.

- `TypeCorrect`, `OneLive`, `ReuseEnds` follow from `TokenInv`, `BucketPace` from
  `PaceInv`, and `AdmissionPace` from both with `SignedInv`: a pair is signed only
  for a request that was let in, each of which is an element of `Admissions` (the
  set of addresses numbered up to `admitted`, which the prover can count where it
  could not sum a function).

*MessageBusProofs*, assuming natural bounds and a positive batch size. `IInv` is
`TypeOK`, `PositionInv` (what the group has passed was delivered, or trimmed
before it could be) and `BatchInv` (a batch is a run of consecutive delivered
entries that no other task has; those whose handler was not yet called have
neither been handled nor failed, so that no handler can be called for them
again). Each step is shown to keep `IInv` and to be a step or a stutter of the
mailbox together, from `TaskStep`, which says what one task's step does to the
entries taken, and `NewEntriesWait`: a read gives exactly the oldest waiting ones.

- `TypeCorrect` and `Refinement` (`Spec => ImplementsMailbox`).
- `LossIsBounded`. `LossBounded` is kept by each step once it is known that a batch
  has at most `BatchSize` entries (`SizeInv`): what leaves the batches unhandled or
  unacknowledged is at most what the failure counters gain in that step (`Paid`),
  and a step that fails nothing loses nothing (`NothingLost`).

*AuditTrailProofs*, assuming finitely many processes and natural bounds.
`ChainInv` is `TypeOK`, `LinksBackwards` and three facts: `TornInv` (no process
remembers a torn line, since `append` raised), `DayInv` (no line is from a later
day) and `SoleInv` (if one process wrote whole lines only, each is chained to the
one before it and that process knows the last, or will load it). The two counts
are not inductive either. `SpoiltInv` adds to `SpoiltBounded` the torn line whose
victim is still to come. `RootsInv` adds to the chains that have begun the
processes whose next entry may begin one: those that know no hash (after a
restart), or, while no write failed, those that would still find the file empty.

- `TypeCorrect`, `NoDanglingLink`, `SoleWriterSound`, `SpoiltBound`, `RootsBound`,
  and the action property `NeverMended`, which says of every step that a bad
  signature or link stays in the log: lines are added, and only a torn one changes.

*EventStoreProofs*, assuming natural bounds and that each task has a worker. `ChainInv`
is `TypeOK`, `LockInv` (the queue of a worker's lock holds each of its tasks in
`append_event` once), `IdInv` (ids of pending and stored events differ, so an orphaned
thread cannot write what a task writes) and `LinkInv` (each worker's last hash and
the hash in every pending signature are stored: a hash is published only after its
write). For `DamageBounded`, `PlainInv` says that in each worker at most one pending
event was signed with no other append of it under way, and while it is pending the
others name what it names. `CountInv` strengthens the bound on the `Broken` lines
(those that can be read, come from the author of the line before and do not verify
behind it) with what is still owed: each pending event signed during another
append, each orphaned thread, and one more if the next event that the last line's
author signs alone would not verify behind that line, because the line cannot be
read or because a cancellation, an overlap or a restart left the author with
another hash (`Due`). The lines of another author and those that cannot be read
are then added to `Broken`.

- `TypeCorrect`, `LinksStored`, `OnceStored`, `DamageBound`.

*ThreatFeedProofs*, for any set of clients. `PermissionInv` (an event that is set
was set by its own client since the task began) and `RiskyInv` (a task is risky
only after its analysis and until it ends) make `ApprovedByOwner` inductive.
That the lock's holder is sending, part of `TypeOK`, is what keeps a client's
commands from interfering with another's broadcast (`HeldStays`).

- `TypeCorrect`, `ApprovalOwned`, `ReaperStaysAlive`.

*AgentServicesProofs*, assuming that the provider is no namespace, that `None` is
no process, and natural bounds. `IInv` is `TypeOK` and `LossExplained` with:
`TodoInv` (the lists a task can still have); `EndedInv` (a cancelled task does
nothing more, so the maker of a pool that was cancelled later never loses an
event); `DbInv` (only the first caller connects, and without a failure or its
cancellation it connects, then migrates, and then the table is there; so only the
others can be refused); `VecInv` (a created index exists, a handle is bound only to
one that does, an index that appeared since it was listed has a creator, and a
creator without a failure binds its handle and never looks again, so one that
cannot bind lost to another); `SourceInv`; and `AlertInv` (a provider still in the queue took the alert
only in POSTs that failed; one that has left it took it at most once more, and
either took it or answered False).

- `TypeCorrect`, `PoolIsOne` (the conjunct `OnePool`) and `LossHasReason`.

Every invariant and every refinement a passing run checks is proved, and so are
the action properties. Only model-checked is liveness, which the prover cannot
do under fairness, nor `ENABLED`: `Terminates`, `Recovers`, `WaitEnds`,
`EventuallySettled`, `Replies`, and `DeadUnregistered`, `LeaverStops`,
`ApprovedProceeds` of the feed. The proofs speak of the modules; that the modules
speak of the code rests on the mapping in `PROJECT.json`.

## 5. What is not modelled

- Text: prompts, reasoning, reports, formats. Providers (LLM, cloud, vector
  store, MITRE tables) are outcomes from small sets. The steps inside one AWS
  remediation are not told apart.
- The buckets of the agent limiter (a free choice of its answer covers them; its
  layered `check_request` has no caller), role and permission tables, the older
  HMAC tokens of `core/auth.py`, and the generic pool of `core/pool.py`.
- Other agents' `process_message`: like forensics' one they call, log and return.
- OPA policies: the graph never queries them.
- Signatures and query results of `PostgresEventStore`; similarity scores of the
  vector memory.
- HTTP routes other than those of `ApiAccess` and `AgentServices`: read-only, or
  they call what is modelled. A request is not cancelled before its end, as a
  simulation is.
- Helpers that the application does not use on its main path (`core/cache.py`,
  `dedup.py`, `events.py`, `degradation.py`, `incident.py`, `workflow_state.py`,
  `health_monitor.py`, `agents/agent_message.py`, ...), configuration, logging, metrics, the dashboard.

## 6. Where documentation and code disagree

1. `blocked_risk`: `src/a-soc/docs/ARCHITECTURE.md:110` sends risk >= 0.95 to
   "Block action"; the graph asks a human and then remediates.
2. `audit_gap`: `src/a-soc/README.md:65` has every agent action signed; a crash
   between tools and audit entry, with a rate-limited replay, leaves none.
3. `audit_midnight`: `audit/audit_trail.py:8` has `verify_chain` prove that nothing
   was tampered with; after midnight it rejects what it wrote itself.
4. `unapproved_action`: `src/a-soc/README.md:11` allows no destructive action
   without approval; the feed's simulation asks only above a score of 0.6.

## 7. Plan

Done, in the order of weight: `IncidentPipeline` and `IncidentWorkflow`,
`CircuitBreaker`, `AuditTrail`, `ThreatFeed`, `EventStore`, `RefreshTokens` with
`RequestLimiter` in `ApiAccess`, `MessageBus` with `Mailbox`, and `AgentServices` with
its four services; each with the proofs of its invariants. Left, should the graph
come to depend on either: the steps inside one AWS remediation, and the agent
limiter's buckets.
