------------------------ MODULE AgentServicesProofs -------------------------
(***************************************************************************)
(* Proofs about AgentServices, for any number of tasks, any namespaces and *)
(* providers, and any number of failures.                                  *)
(***************************************************************************)
EXTENDS AgentServices, FiniteSetTheorems, TLAPS

USE ServicesAssumption, DbAssumption, VecAssumption, EventsAssumption, NotifierAssumption

-----------------------------------------------------------------------------
(* What the tasks have still to do.                                        *)

LogsOnly == Seq({"log"})

Todos ==
    {Analysis, <<"search", "store", "log">>, <<"store", "log">>, Poll, Simulation,
     <<"append">>, <<"read">>, <<"timeline">>, <<"read", "probe">>, <<"probe">>,
     <<"store">>, <<"search">>, <<"delete">>} \union LogsOnly

TodoInv == todo \in [Processes -> Todos]

LEMMA TodoFacts ==
    ASSUME NEW t \in Todos, t # <<>>
    PROVE  /\ Tail(t) \in Todos /\ Tail(t) # Simulation
           /\ Head(t) = "fetch" <=> t = Poll
           /\ Head(t) = "alert" <=> t = Simulation
           /\ Head(t) = "store" => Tail(t) \in LogsOnly
           /\ t \in LogsOnly => Tail(t) \in LogsOnly /\ Head(t) = "log"
<1> DEFINE Wanted ==
             /\ Tail(t) \in Todos /\ Tail(t) # Simulation
             /\ Head(t) = "fetch" <=> t = Poll
             /\ Head(t) = "alert" <=> t = Simulation
             /\ Head(t) = "store" => Tail(t) \in LogsOnly
             /\ t \in LogsOnly => Tail(t) \in LogsOnly /\ Head(t) = "log"
<1>1. <<>> \in LogsOnly /\ <<"log">> \in LogsOnly
  BY DEF LogsOnly
<1>2. CASE t \in LogsOnly
  <2>1. Head(t) = "log" /\ Tail(t) \in LogsOnly
    BY <1>2 DEF LogsOnly
  <2>2. Simulation \notin LogsOnly /\ Poll \notin LogsOnly
    BY DEF Simulation, Poll, LogsOnly
  <2> QED
    BY <1>2, <2>1, <2>2 DEF Todos
<1>3. CASE t = Analysis
  <2>1. Tail(t) = <<"search", "store", "log">> /\ Head(t) = "log" /\ Len(t) = 4
    BY <1>3 DEF Analysis
  <2>2. t # Poll /\ t # Simulation /\ Tail(t) # Simulation /\ t \notin LogsOnly
    BY <1>3 DEF Analysis, Poll, Simulation, LogsOnly
  <2> QED
    BY <2>1, <2>2 DEF Todos
<1>4. CASE t = <<"search", "store", "log">>
  <2>1. Tail(t) = <<"store", "log">> /\ Head(t) = "search"
    BY <1>4
  <2>2. t # Poll /\ t # Simulation /\ Tail(t) # Simulation /\ t \notin LogsOnly
    BY <1>4 DEF Poll, Simulation, LogsOnly
  <2> QED
    BY <2>1, <2>2 DEF Todos
<1>5. CASE t = <<"store", "log">>
  <2>1. Tail(t) = <<"log">> /\ Head(t) = "store"
    BY <1>5
  <2>2. t # Poll /\ t # Simulation /\ Tail(t) # Simulation /\ t \notin LogsOnly
    BY <1>5 DEF Poll, Simulation, LogsOnly
  <2> QED
    BY <1>1, <2>1, <2>2 DEF Todos
<1>6. CASE t = <<"read", "probe">>
  <2>1. Tail(t) = <<"probe">> /\ Head(t) = "read"
    BY <1>6
  <2>2. t # Poll /\ t # Simulation /\ Tail(t) # Simulation /\ t \notin LogsOnly
    BY <1>6 DEF Poll, Simulation, LogsOnly
  <2> QED
    BY <2>1, <2>2 DEF Todos
<1>7. ASSUME NEW op \in {"read", "timeline", "probe", "store", "search", "delete", "fetch", "append"},
             t = <<op>>
      PROVE  Wanted
  <2>1. Tail(t) = <<>> /\ Head(t) = op
    BY <1>7
  <2>2. (t = Poll <=> op = "fetch") /\ t # Simulation /\ t \notin LogsOnly
    BY <1>7 DEF Poll, Simulation, LogsOnly
  <2>3. Tail(t) # Simulation
    BY <2>1 DEF Simulation
  <2> QED
    BY <1>1, <2>1, <2>2, <2>3 DEF Todos
<1>8. CASE t = Simulation
  <2>1. Tail(t) = <<"append">> /\ Head(t) = "alert"
    BY <1>8 DEF Simulation
  <2>2. t # Poll /\ Tail(t) # Simulation /\ t \notin LogsOnly
    BY <1>8, <2>1 DEF Simulation, Poll, LogsOnly
  <2> QED
    BY <1>8, <2>1, <2>2 DEF Todos
<1> QED
  BY <1>2, <1>3, <1>4, <1>5, <1>6, <1>7, <1>8 DEF Todos, Poll

\* A task's list only gets shorter, but for a poll, which becomes its logs.
Later ==
    \A q \in Processes :
        /\ todo'[q] = Simulation => todo[q] = Simulation
        /\ todo[q] \in LogsOnly => todo'[q] \in LogsOnly

Others(p) == \A q \in Processes \ {p} : todo'[q] = todo[q]

LEMMA TodoKept ==
    ASSUME TodoInv, NEW p \in Processes, UNCHANGED todo PROVE TodoInv' /\ Later /\ Others(p)
BY DEF TodoInv, Later, Others

LEMMA TodoSet ==
    ASSUME TodoInv, NEW p \in Processes, NEW t \in Todos, todo' = [todo EXCEPT ![p] = t],
           t # Simulation, todo[p] \in LogsOnly => t \in LogsOnly
    PROVE  TodoInv' /\ Later /\ Others(p)
BY DEF TodoInv, Later, Others

LEMMA TodoProceeds ==
    ASSUME TodoInv, NEW p \in Processes, NEW ops, Doing(p, ops), Proceed(p)
    PROVE  TodoInv' /\ Later /\ Others(p)
<1>1. PICK t : t = Tail(todo[p])
  OBVIOUS
<1>2. todo[p] \in Todos /\ todo[p] # <<>>
  BY DEF TodoInv, Doing
<1>3. t \in Todos /\ t # Simulation /\ (todo[p] \in LogsOnly => t \in LogsOnly)
  BY <1>1, <1>2, TodoFacts
<1>4. todo' = [todo EXCEPT ![p] = t]
  BY <1>1 DEF Proceed
<1> QED
  BY <1>3, <1>4, TodoSet

LEMMA TodoDropped ==
    ASSUME TodoInv, NEW p \in Processes, todo' = [todo EXCEPT ![p] = <<>>]
    PROVE  TodoInv' /\ Later /\ Others(p)
<1>1. <<>> \in LogsOnly /\ <<>> # Simulation /\ <<>> \in Todos
  BY DEF LogsOnly, Simulation, Todos
<1> QED
  BY <1>1, TodoSet

LEMMA TodoPolled ==
    ASSUME TodoInv, NEW p \in Processes, NEW n \in Nat,
           todo' = [todo EXCEPT ![p] = [e \in 1..n |-> "log"]]
    PROVE  TodoInv' /\ Later /\ Others(p)
<1>1. PICK t : t = [e \in 1..n |-> "log"]
  OBVIOUS
<1>2. t \in LogsOnly
  BY <1>1 DEF LogsOnly
<1>3. t # Simulation
  BY <1>2 DEF LogsOnly, Simulation
<1> QED
  BY <1>1, <1>2, <1>3, TodoSet DEF Todos

LEMMA TodoNext ==
    ASSUME TodoInv, NEW p \in Processes,
           \/ DbStep(p) \/ DbFails(p) \/ VecStep(p) \/ VecFails(p)
           \/ PollStep(p) \/ AlertStep(p) \/ CancelAlert(p) \/ CancelAppend(p) \/ Reject(p)
    PROVE  TodoInv' /\ Later /\ Others(p)
<1>1. CASE DbStep(p) \/ DbFails(p)
  BY <1>1, TodoKept, TodoProceeds DEF DbStep, DbFails
<1>2. CASE VecStep(p) \/ VecFails(p)
  <2>1. Doing(p, VecOps) /\ (UNCHANGED todo \/ Proceed(p))
    BY <1>2 DEF VecStep, VecFails
  <2> QED
    BY <2>1, TodoKept, TodoProceeds
<1>3. CASE PollStep(p)
  <2>1. \/ UNCHANGED todo
        \/ \E n \in 1..MaxEvents : todo' = [todo EXCEPT ![p] = [e \in 1..n |-> "log"]]
    BY <1>3 DEF PollStep
  <2> QED
    BY <2>1, TodoKept, TodoPolled
<1>4. CASE AlertStep(p)
  <2>1. Doing(p, {"alert"}) /\ (UNCHANGED todo \/ Proceed(p))
    BY <1>4 DEF AlertStep
  <2> QED
    BY <2>1, TodoKept, TodoProceeds
<1>5. CASE CancelAlert(p) \/ CancelAppend(p) \/ Reject(p)
  BY <1>5, TodoDropped DEF CancelAlert, CancelAppend, Reject
<1> QED
  BY <1>1, <1>2, <1>3, <1>4, <1>5

LEMMA TodoInit == Init => TodoInv
<1>1. {Analysis, Poll, Simulation} \union Requests \union ManagerCalls \subseteq Todos
  BY DEF Todos, LogsOnly, Requests, ManagerCalls
<1> QED
  BY <1>1 DEF Init, TodoInv

-----------------------------------------------------------------------------
(* The database pool.                                                      *)

DbTypes ==
    /\ pool \in {"absent", "connecting", "ready", "dead"} /\ table \in BOOLEAN
    /\ dbStep \in [Processes -> {"idle", "connecting", "migrating", "querying"}]
    /\ openers \subseteq Processes /\ lost \subseteq Processes /\ refused \subseteq lost
    /\ cancelled \subseteq Processes
    /\ events \in Nat /\ dbFaults \in 0..MaxDbFaults

\* Only the first caller opens the pool, and it alone can be connecting it.
OpenerInv ==
    /\ pool = "absent" =>
          openers = {} /\ lost = {} /\ \A p \in Processes : dbStep[p] = "idle"
    /\ \A p, q \in openers : p = q
    /\ \A p \in Processes : dbStep[p] = "connecting" => p \in openers

\* Without a failure, and unless it is cancelled, the opener is connecting as long
\* as the pool is, then it migrates, and from then on the table is there.
FaultlessInv ==
    dbFaults = 0 =>
        /\ openers \intersect lost = {}
        /\ openers \intersect cancelled = {} =>
              /\ pool # "dead" /\ lost = refused
              /\ \A p \in openers :
                    IF pool = "connecting" THEN dbStep[p] = "connecting"
                    ELSE dbStep[p] = "migrating" \/ table

DbInv == DbTypes /\ OpenerInv /\ FaultlessInv

\* A cancelled task does nothing more.
EndedInv == \A p \in cancelled : todo[p] = <<>>

LEMMA EndedNext ==
    ASSUME EndedInv, TodoInv, NEW p \in Processes, todo[p] # <<>>, Others(p),
           \/ cancelled' = cancelled
           \/ cancelled' = cancelled \union {p} /\ todo' = [todo EXCEPT ![p] = <<>>],
           cancelled \subseteq Processes
    PROVE  EndedInv'
<1>1. \A q \in cancelled : q # p /\ todo'[q] = <<>>
  BY DEF EndedInv, Others
<1>2. todo' = [todo EXCEPT ![p] = <<>>] => todo'[p] = <<>>
  BY DEF TodoInv
<1> QED
  BY <1>1, <1>2 DEF EndedInv

LEMMA DbGoto ==
    ASSUME DbTypes, NEW p \in Processes, NEW t, Goto(p, t)
    PROVE  dbStep'[p] = t /\ \A q \in Processes : q # p => dbStep'[q] = dbStep[q]
BY DEF DbTypes, Goto

LEMMA OpenPoolInv ==
    ASSUME DbInv, NEW p \in Processes, p \notin cancelled, OpenPool(p) PROVE DbInv'
<1>1. DbTypes'
  BY DEF DbInv, DbTypes, OpenPool, Goto
<1>2. openers = {} /\ openers' = {p} /\ pool' = "connecting" /\ cancelled' = cancelled
  BY DEF DbInv, OpenerInv, OpenPool
<1>3. dbStep'[p] = "connecting" /\ \A q \in Processes : q # p => dbStep'[q] = dbStep[q]
  BY DbGoto DEF DbInv, OpenPool
<1>4. OpenerInv'
  BY <1>2, <1>3 DEF DbInv, OpenerInv
<1>5. FaultlessInv'
  <2>1. lost = {} /\ refused = {}
    BY DEF DbInv, DbTypes, OpenerInv, OpenPool
  <2> QED
    BY <1>2, <1>3, <2>1 DEF DbInv, FaultlessInv, OpenPool
<1> QED
  BY <1>1, <1>4, <1>5 DEF DbInv

\* A step of p that stays with the pool and its table, for a pool already made.
LEMMA DbRest ==
    ASSUME DbInv, NEW p \in Processes, p \notin cancelled, pool # "absent",
           NEW t \in {"idle", "migrating", "querying"}, Goto(p, t),
           pool' \in {"connecting", "ready", "dead"}, table' \in BOOLEAN, table => table',
           UNCHANGED <<openers, cancelled>>, events' \in Nat, dbFaults' \in dbFaults..MaxDbFaults,
           lost' \in {lost, lost \union {p}}, refused' \in {refused, refused \union {p}},
           refused' \subseteq lost',
           dbFaults' = 0 =>
              /\ openers \intersect cancelled = {} => pool' # "dead" /\ lost' = refused'
              /\ p \in openers =>
                    lost' = lost /\ pool' # "connecting" /\ (t = "migrating" \/ table')
              /\ p \notin openers => pool' = pool
    PROVE  DbInv'
<1>1. dbStep'[p] = t /\ \A q \in Processes : q # p => dbStep'[q] = dbStep[q]
  BY DbGoto DEF DbInv
<1>2. DbTypes'
  BY DEF DbInv, DbTypes, Goto
<1>3. OpenerInv'
  BY <1>1 DEF DbInv, OpenerInv
<1>4. FaultlessInv'
  <2> SUFFICES ASSUME dbFaults' = 0 PROVE FaultlessInv'
    BY DEF FaultlessInv
  <2>1. dbFaults = 0 /\ openers \subseteq Processes
    BY DEF DbInv, DbTypes
  <2>2. openers \intersect cancelled = {} =>
          \A q \in openers : IF pool' = "connecting" THEN dbStep'[q] = "connecting"
                             ELSE dbStep'[q] = "migrating" \/ table'
    <3> SUFFICES ASSUME openers \intersect cancelled = {}, NEW q \in openers
                 PROVE  IF pool' = "connecting" THEN dbStep'[q] = "connecting"
                        ELSE dbStep'[q] = "migrating" \/ table'
      OBVIOUS
    <3>1. CASE q = p
      BY <1>1, <3>1
    <3>2. CASE q # p
      <4>1. p \notin openers
        BY <3>2 DEF DbInv, OpenerInv
      <4> QED
        BY <1>1, <2>1, <3>2, <4>1 DEF DbInv, FaultlessInv
    <3> QED
      BY <3>1, <3>2
  <2>3. openers \intersect lost' = {}
    BY <2>1 DEF DbInv, FaultlessInv
  <2> QED
    BY <2>2, <2>3 DEF FaultlessInv
<1> QED
  BY <1>2, <1>3, <1>4 DEF DbInv

\* A task somewhere in an operation, and the opener of a pool that never failed.
LEMMA DbFacts ==
    ASSUME DbInv, NEW p \in Processes, p \notin cancelled
    PROVE  /\ dbFaults \in Nat /\ dbFaults <= MaxDbFaults /\ events \in Nat
           /\ pool \in {"absent", "connecting", "ready", "dead"} /\ table \in BOOLEAN
           /\ refused \subseteq lost
           /\ dbStep[p] # "idle" => pool # "absent"
           /\ dbStep[p] = "connecting" => p \in openers
           /\ dbFaults = 0 =>
                 /\ openers \intersect cancelled = {} => pool # "dead" /\ lost = refused
                 /\ p \in openers => pool # "dead"
                 /\ p \in openers /\ dbStep[p] \in {"idle", "querying"} => pool # "connecting" /\ table
                 /\ p \in openers /\ dbStep[p] = "migrating" => pool # "connecting"
BY DEF DbInv, DbTypes, OpenerInv, FaultlessInv

LEMMA PoolStepInv ==
    ASSUME DbInv, NEW p \in Processes, p \notin cancelled,
           UsePool(p) \/ PoolCreated(p) \/ Migrate(p) \/ Unparsable(p)
    PROVE  DbInv'
<1>1. CASE UsePool(p)
  BY <1>1, DbFacts, DbRest DEF UsePool
<1>2. CASE PoolCreated(p)
  BY <1>2, DbFacts, DbRest DEF PoolCreated
<1>3. CASE Migrate(p)
  BY <1>3, DbFacts, DbRest DEF Migrate
<1>4. CASE Unparsable(p)
  BY <1>4, DbFacts, DbRest DEF Unparsable
<1> QED
  BY <1>1, <1>2, <1>3, <1>4

LEMMA ExecuteInv ==
    ASSUME DbInv, NEW p \in Processes, p \notin cancelled, NEW inserts, Execute(p, inserts)
    PROVE  DbInv'
<1>1. events' \in Nat
  BY DbFacts DEF Execute
<1> QED
  BY <1>1, DbFacts, DbRest DEF Execute

LEMMA DbFailsInv ==
    ASSUME DbInv, NEW p \in Processes, p \notin cancelled, ConnectFails(p) \/ MigrateFails(p) \/ ExecuteFails(p)
    PROVE  DbInv'
<1>1. DbFault => dbFaults' \in dbFaults..MaxDbFaults /\ dbFaults' # 0
  BY DbFacts DEF DbFault
<1>2. CASE ConnectFails(p)
  BY <1>1, <1>2, DbFacts, DbRest DEF ConnectFails
<1>3. CASE MigrateFails(p)
  BY <1>1, <1>3, DbFacts, DbRest DEF MigrateFails
<1>4. CASE ExecuteFails(p) /\ DbFault /\ refused' = refused
  BY <1>1, <1>4, DbFacts, DbRest DEF ExecuteFails
<1>5. CASE ExecuteFails(p) /\ ~table /\ refused' = refused \union {p} /\ UNCHANGED dbFaults
  BY <1>5, DbFacts, DbRest DEF ExecuteFails
<1> QED
  BY <1>2, <1>3, <1>4, <1>5 DEF ExecuteFails

LEMMA PoolRaisesInv ==
    ASSUME DbInv, NEW p \in Processes, p \notin cancelled, PoolRaises(p) PROVE DbInv'
<1>1. Goto(p, "idle")
  BY DEF PoolRaises, Goto, DbInv, DbTypes
<1> QED
  BY <1>1, DbFacts, DbRest DEF PoolRaises

LEMMA CancelDbInv == ASSUME DbInv, NEW p \in Processes, CancelDb(p) PROVE DbInv'
<1>1. dbStep'[p] = "idle" /\ \A q \in Processes : q # p => dbStep'[q] = dbStep[q]
  BY DbGoto DEF DbInv, CancelDb
<1>2. /\ cancelled' = cancelled \union {p} /\ UNCHANGED <<openers, lost, refused, dbFaults>>
      /\ pool' = IF dbStep[p] = "connecting" THEN "dead" ELSE pool
      /\ table' \in BOOLEAN /\ (table => table') /\ events' \in Nat
  <2>1. table \in BOOLEAN /\ events \in Nat
    BY DEF DbInv, DbTypes
  <2>2. table' = table \/ table' = (table \/ dbStep[p] = "migrating")
    BY DEF CancelDb
  <2>3. table' \in BOOLEAN /\ (table => table')
    BY <2>1, <2>2, Zenon
  <2>4. events' = events \/ events' = events + 1
    BY SMT DEF CancelDb
  <2>5. events' \in Nat
    BY <2>1, <2>4
  <2> QED
    BY <2>3, <2>5 DEF CancelDb
<1>3. DbTypes'
  BY <1>2 DEF DbInv, DbTypes, CancelDb, Goto
<1>4. OpenerInv'
  BY <1>1, <1>2 DEF DbInv, OpenerInv
<1>5. FaultlessInv'
  <2>1. CASE p \in openers
    BY <1>2, <2>1 DEF DbInv, FaultlessInv
  <2>2. CASE p \notin openers
    <3>1. pool' = pool /\ \A q \in openers : dbStep'[q] = dbStep[q]
      BY <1>1, <1>2, <2>2 DEF DbInv, DbTypes, OpenerInv
    <3> QED
      BY <1>2, <3>1 DEF DbInv, FaultlessInv
  <2> QED
    BY <2>1, <2>2
<1> QED
  BY <1>3, <1>4, <1>5 DEF DbInv

LEMMA DbNext ==
    ASSUME DbInv, EndedInv, NEW p \in Processes, DbStep(p) \/ DbFails(p) \/ CancelAppend(p)
    PROVE  DbInv'
<1>3. Doing(p, DbOps) => p \notin cancelled
  BY DEF EndedInv, Doing
<1>4. CASE CancelAppend(p)
  BY <1>4, CancelDbInv DEF CancelAppend
<1>1. CASE DbStep(p)
  <2>1. PICK inserts : inserts = Doing(p, {"log", "append"})
    OBVIOUS
  <2>2. \/ OpenPool(p) \/ UsePool(p) \/ PoolCreated(p) \/ Migrate(p)
        \/ PoolRaises(p) \/ Execute(p, inserts) \/ Unparsable(p)
    BY <1>1, <2>1 DEF DbStep
  <2> QED
    BY <1>1, <1>3, <2>2, OpenPoolInv, PoolStepInv, PoolRaisesInv, ExecuteInv DEF DbStep
<1>2. CASE DbFails(p)
  BY <1>2, <1>3, DbFailsInv DEF DbFails
<1> QED
  BY <1>1, <1>2, <1>4

LEMMA DbInitInv == Init => DbInv
BY DEF Init, DbInit, DbInv, DbTypes, OpenerInv, FaultlessInv

LEMMA DbUnchanged == DbInv /\ UNCHANGED dbVars => DbInv'
BY DEF dbVars, DbInv, DbTypes, OpenerInv, FaultlessInv

LEMMA PoolSound == DbInv => OnePool
<1> SUFFICES ASSUME DbInv PROVE OnePool
  OBVIOUS
<1>1. Cardinality(openers) <= 1
  <2>1. CASE openers = {}
    BY <2>1, FS_EmptySet
  <2>2. CASE openers # {}
    <3>1. PICK p : p \in openers
      BY <2>2
    <3>2. openers = {p}
      BY <3>1 DEF DbInv, OpenerInv
    <3>3. Cardinality({p}) = 1
      BY FS_Singleton
    <3> QED
      BY <3>2, <3>3
  <2> QED
    BY <2>1, <2>2
<1> QED
  BY <1>1 DEF OnePool, DbInv, FaultlessInv

-----------------------------------------------------------------------------
(* The vector memory.                                                      *)

VecTypes ==
    /\ handle \in [Processes -> Handles] /\ vecFaults \in 0..MaxVecFaults
    /\ vecStep \in [Processes -> Steps] /\ fits \in [Processes -> BOOLEAN]
    /\ deleted \subseteq Processes /\ answer \in [Processes -> Outcomes]
    /\ remote \subseteq Indexes /\ creator \in [Indexes -> Processes \union {None}]
    /\ opened \subseteq {h \in Handles : IndexOf(h) \in remote}
    /\ records \in [Handles -> SUBSET Processes]

IndexFor(p) == IndexOf(handle[p])

\* An index that was created exists, and only one that exists is bound; one that
\* was not there when it was listed has a creator once it is.
IndexInv ==
    /\ \A x \in Indexes : creator[x] # None => x \in remote
    /\ \A p \in Processes :
        /\ vecStep[p] = "binding" => IndexFor(p) \in remote
        /\ vecStep[p] = "creating" /\ IndexFor(p) \in remote => creator[IndexFor(p)] # None

\* Without a failure the creator of an index binds it and never looks for it again.
CreatorInv ==
    vecFaults = 0 =>
        \A p \in Processes :
            creator[IndexFor(p)] = p =>
                \/ vecStep[p] = "binding"
                \/ handle[p] \in opened /\ vecStep[p] \notin {"listing", "creating"}

\* An upsert is the last thing a task does with the memory.
AnswerInv ==
    \A p \in Processes :
        /\ answer[p] # "none" => todo[p] \in LogsOnly
        /\ answer[p] = "done" => p \in records[handle[p]] \union deleted
        /\ answer[p] = "failed" /\ fits[p] /\ vecFaults = 0 =>
              creator[IndexFor(p)] \notin {None, p}

VecInv == VecTypes /\ IndexInv /\ CreatorInv /\ AnswerInv

LEMMA VecFacts ==
    ASSUME VecInv, NEW p \in Processes
    PROVE  /\ handle[p] \in Handles /\ IndexFor(p) \in Indexes
           /\ vecStep[p] \in Steps /\ answer[p] \in Outcomes
           /\ creator[IndexFor(p)] \in Processes \union {None}
           /\ vecFaults \in Nat /\ vecFaults <= MaxVecFaults
           /\ creator[IndexFor(p)] # None => IndexFor(p) \in remote
           /\ vecStep[p] = "creating" /\ IndexFor(p) \in remote => creator[IndexFor(p)] # None
           /\ vecStep[p] = "binding" => IndexFor(p) \in remote
BY DEF VecInv, VecTypes, IndexInv, Indexes, IndexFor

LEMMA VecGoto ==
    ASSUME VecTypes, NEW p \in Processes, NEW t \in Steps, Step(p, t)
    PROVE  /\ vecStep' \in [Processes -> Steps]
           /\ vecStep'[p] = t /\ \A q \in Processes : q # p => vecStep'[q] = vecStep[q]
BY DEF VecTypes, Step

\* A step of p towards its call, which changes no record and no answer.
LEMMA VecMoves ==
    ASSUME VecInv, TodoInv, Later, NEW p \in Processes, NEW t \in Steps, Step(p, t),
           UNCHANGED <<handle, remote, creator, records, deleted, answer>>,
           fits' \in [Processes -> BOOLEAN],
           \A q \in Processes : fits'[q] = fits[q] \/ (q = p /\ answer[p] = "none"),
           opened' \in {opened, opened \union {handle[p]}},
           handle[p] \in opened' => handle[p] \in opened \/ IndexFor(p) \in remote,
           vecFaults' \in vecFaults..MaxVecFaults,
           t = "binding" => IndexFor(p) \in remote, t = "creating" => IndexFor(p) \notin remote,
           vecFaults' = 0 /\ creator[IndexFor(p)] = p =>
              t = "binding" \/ (handle[p] \in opened' /\ t \notin {"listing", "creating"})
    PROVE  VecInv'
<1>1. /\ vecStep' \in [Processes -> Steps]
      /\ vecStep'[p] = t /\ \A q \in Processes : q # p => vecStep'[q] = vecStep[q]
  BY VecGoto DEF VecInv
<1>2. VecTypes'
  <2>1. opened' \subseteq {h \in Handles : IndexOf(h) \in remote}
    BY VecFacts DEF VecInv, VecTypes, IndexFor
  <2> QED
    BY <1>1, <2>1, VecFacts DEF VecInv, VecTypes
<1>3. \A q \in Processes : IndexFor(q)' = IndexFor(q)
  BY DEF IndexFor
<1>4. IndexInv'
  BY <1>1, <1>3 DEF VecInv, IndexInv
<1>5. vecFaults' = 0 => vecFaults = 0
  BY VecFacts
<1>6. CreatorInv'
  <2> SUFFICES ASSUME vecFaults' = 0, NEW q \in Processes, creator[IndexFor(q)] = q
               PROVE  \/ vecStep'[q] = "binding"
                      \/ handle[q] \in opened' /\ vecStep'[q] \notin {"listing", "creating"}
    BY <1>3 DEF CreatorInv
  <2> QED
    BY <1>1, <1>5 DEF VecInv, CreatorInv
<1>7. AnswerInv'
  <2> SUFFICES ASSUME NEW q \in Processes
               PROVE  /\ answer[q] # "none" => todo'[q] \in LogsOnly
                      /\ answer[q] = "done" => q \in records[handle[q]] \union deleted
                      /\ answer[q] = "failed" /\ fits'[q] /\ vecFaults' = 0 =>
                            creator[IndexFor(q)] \notin {None, q}
    BY <1>3 DEF AnswerInv
  <2> QED
    BY <1>5 DEF VecInv, AnswerInv, Later
<1> QED
  BY <1>2, <1>4, <1>6, <1>7 DEF VecInv

LEMMA Recorded ==
    ASSUME VecTypes, NEW p \in Processes, NEW op, Apply(p, op)
    PROVE  /\ records' \in [Handles -> SUBSET Processes] /\ deleted' \subseteq Processes
           /\ op = "store" => p \in records'[handle[p]]
           /\ \A q \in Processes :
                 q \in records[handle[q]] \union deleted => q \in records'[handle[q]] \union deleted'
<1>1. handle[p] \in Handles /\ \A q \in Processes : handle[q] \in Handles
  BY DEF VecTypes
<1>2. CASE op = "store"
  <2>1. records' = [records EXCEPT ![handle[p]] = @ \union {p}] /\ deleted' = deleted
    BY <1>2 DEF Apply
  <2>2. records' \in [Handles -> SUBSET Processes]
    BY <1>1, <2>1 DEF VecTypes
  <2>3. /\ records'[handle[p]] = records[handle[p]] \union {p}
        /\ \A h \in Handles : records[h] \subseteq records'[h]
    BY <1>1, <2>1 DEF VecTypes
  <2> QED
    BY <1>1, <2>1, <2>2, <2>3 DEF VecTypes
<1>3. CASE op = "delete"
  <2>1. /\ records' = [records EXCEPT ![handle[p]] = {}]
        /\ deleted' = deleted \union records[handle[p]]
    BY <1>3 DEF Apply
  <2>2. records' \in [Handles -> SUBSET Processes]
    BY <1>1, <2>1 DEF VecTypes
  <2>3. \A h \in Handles : records[h] \subseteq records'[h] \union deleted'
    BY <1>1, <2>1 DEF VecTypes
  <2>4. deleted' \subseteq Processes
    BY <1>1, <2>1 DEF VecTypes
  <2> QED
    BY <1>1, <1>3, <2>1, <2>2, <2>3, <2>4
<1>4. CASE op \notin {"store", "delete"}
  BY <1>4 DEF Apply, VecTypes
<1> QED
  BY <1>2, <1>3, <1>4

\* An operation of p ends.
LEMMA VecEnds ==
    ASSUME VecInv, TodoInv, Later, NEW p \in Processes, NEW op,
           NEW outcome \in {"done", "failed"}, Return(p, op, outcome),
           op = "store" => todo'[p] \in LogsOnly,
           UNCHANGED <<handle, fits, remote, opened, creator>>,
           Apply(p, op) \/ (outcome = "failed" /\ UNCHANGED <<records, deleted>>),
           vecFaults' \in vecFaults..MaxVecFaults,
           outcome = "failed" /\ fits[p] /\ op = "store" /\ vecFaults' = 0 =>
              creator[IndexFor(p)] \notin {None, p},
           vecFaults' = 0 /\ creator[IndexFor(p)] = p => handle[p] \in opened
    PROVE  VecInv'
<1>1. /\ vecStep' \in [Processes -> Steps]
      /\ vecStep'[p] = "idle" /\ \A q \in Processes : q # p => vecStep'[q] = vecStep[q]
  BY VecGoto DEF VecInv, Return, Steps
<1>2. /\ answer' \in [Processes -> Outcomes]
      /\ answer'[p] = IF op = "store" THEN outcome ELSE answer[p]
      /\ \A q \in Processes : q # p => answer'[q] = answer[q]
  BY DEF VecInv, VecTypes, Return, Outcomes
<1>3. /\ records' \in [Handles -> SUBSET Processes] /\ deleted' \subseteq Processes
      /\ outcome = "done" /\ op = "store" => p \in records'[handle[p]]
      /\ \A q \in Processes :
            q \in records[handle[q]] \union deleted => q \in records'[handle[q]] \union deleted'
  <2>1. CASE Apply(p, op)
    BY <2>1, Recorded DEF VecInv
  <2>2. CASE outcome = "failed" /\ UNCHANGED <<records, deleted>>
    BY <2>2 DEF VecInv, VecTypes
  <2> QED
    BY <2>1, <2>2
<1>4. vecFaults \in Nat /\ (vecFaults' = 0 => vecFaults = 0) /\ vecFaults' \in 0..MaxVecFaults
  BY VecFacts
<1>5. VecTypes'
  BY <1>1, <1>2, <1>3, <1>4 DEF VecInv, VecTypes
<1>6. \A q \in Processes : IndexFor(q)' = IndexFor(q)
  BY DEF IndexFor
<1>7. IndexInv'
  BY <1>1, <1>6 DEF VecInv, IndexInv
<1>8. CreatorInv'
  <2> SUFFICES ASSUME vecFaults' = 0, NEW q \in Processes, creator[IndexFor(q)] = q
               PROVE  \/ vecStep'[q] = "binding"
                      \/ handle[q] \in opened /\ vecStep'[q] \notin {"listing", "creating"}
    BY <1>6 DEF CreatorInv
  <2> QED
    BY <1>1, <1>4 DEF VecInv, CreatorInv
<1>9. AnswerInv'
  <2> SUFFICES ASSUME NEW q \in Processes
               PROVE  /\ answer'[q] # "none" => todo'[q] \in LogsOnly
                      /\ answer'[q] = "done" => q \in records'[handle[q]] \union deleted'
                      /\ answer'[q] = "failed" /\ fits[q] /\ vecFaults' = 0 =>
                            creator[IndexFor(q)] \notin {None, q}
    BY <1>6 DEF AnswerInv
  <2>1. CASE q = p /\ op = "store"
    BY <1>2, <1>3, <2>1
  <2>2. CASE ~(q = p /\ op = "store")
    <3>1. answer'[q] = answer[q]
      BY <1>2, <2>2
    <3>2. /\ answer[q] # "none" => todo[q] \in LogsOnly
          /\ answer[q] = "done" => q \in records[handle[q]] \union deleted
          /\ answer[q] = "failed" /\ fits[q] /\ vecFaults = 0 =>
                creator[IndexFor(q)] \notin {None, q}
      BY DEF VecInv, AnswerInv
    <3> QED
      BY <1>3, <1>4, <3>1, <3>2 DEF Later
  <2> QED
    BY <2>1, <2>2
<1> QED
  BY <1>5, <1>7, <1>8, <1>9 DEF VecInv

LEMMA CreateIndexInv ==
    ASSUME VecInv, TodoInv, Later, NEW p \in Processes, CreateIndex(p)
    PROVE  VecInv'
<1>1. PICK x : x = IndexFor(p)
  OBVIOUS
<1>2. /\ vecStep[p] = "creating" /\ x \notin remote /\ remote' = remote \union {x}
      /\ creator' = [creator EXCEPT ![x] = p] /\ Step(p, "binding")
      /\ UNCHANGED <<handle, fits, opened, records, deleted, answer, vecFaults>>
  BY <1>1 DEF CreateIndex, IndexFor, config
<1>3. /\ vecStep' \in [Processes -> Steps]
      /\ vecStep'[p] = "binding" /\ \A q \in Processes : q # p => vecStep'[q] = vecStep[q]
  BY <1>2, VecGoto DEF VecInv, Steps
<1>4. x \in Indexes /\ creator[x] = None /\ p # None
  BY <1>1, <1>2, VecFacts
<1>5. creator'[x] = p /\ \A y \in Indexes : y # x => creator'[y] = creator[y]
  BY <1>2, <1>4 DEF VecInv, VecTypes
<1>6. VecTypes'
  BY <1>2, <1>3, <1>4 DEF VecInv, VecTypes
<1>7. \A q \in Processes : IndexFor(q)' = IndexFor(q) /\ IndexFor(q) \in Indexes
  BY <1>2, VecFacts DEF IndexFor
<1>8. IndexInv'
  BY <1>1, <1>2, <1>3, <1>4, <1>5, <1>7 DEF VecInv, IndexInv
<1>9. CreatorInv'
  <2> SUFFICES ASSUME vecFaults = 0, NEW q \in Processes, creator'[IndexFor(q)] = q
               PROVE  \/ vecStep'[q] = "binding"
                      \/ handle[q] \in opened /\ vecStep'[q] \notin {"listing", "creating"}
    BY <1>2, <1>7 DEF CreatorInv
  <2>1. CASE IndexFor(q) = x
    BY <1>3, <1>5, <2>1
  <2>2. CASE IndexFor(q) # x
    BY <1>1, <1>3, <1>5, <1>7, <2>2 DEF VecInv, CreatorInv
  <2> QED
    BY <2>1, <2>2
<1>10. AnswerInv'
  <2> SUFFICES ASSUME NEW q \in Processes
               PROVE  /\ answer[q] # "none" => todo'[q] \in LogsOnly
                      /\ answer[q] = "done" => q \in records[handle[q]] \union deleted
                      /\ answer[q] = "failed" /\ fits[q] /\ vecFaults = 0 =>
                            creator'[IndexFor(q)] \notin {None, q}
    BY <1>2, <1>7 DEF AnswerInv
  <2>1. /\ answer[q] # "none" => todo[q] \in LogsOnly
        /\ answer[q] = "done" => q \in records[handle[q]] \union deleted
        /\ answer[q] = "failed" /\ fits[q] /\ vecFaults = 0 =>
              creator[IndexFor(q)] \notin {None, q}
    BY DEF VecInv, AnswerInv
  <2>2. creator[IndexFor(q)] # None => creator'[IndexFor(q)] = creator[IndexFor(q)]
    BY <1>4, <1>5, <1>7
  <2> QED
    BY <2>1, <2>2 DEF Later
<1> QED
  BY <1>6, <1>8, <1>9, <1>10 DEF VecInv

\* The operation of p, its place in the list and what an earlier one answered.
LEMMA AtMemory ==
    ASSUME VecInv, TodoInv, NEW p \in Processes, Doing(p, VecOps), NEW op, op = Head(todo[p])
    PROVE  /\ answer[p] = "none"
           /\ Proceed(p) /\ op = "store" => todo'[p] \in LogsOnly
<1>1. todo[p] \in Todos /\ todo[p] # <<>> /\ op \in VecOps
  BY DEF TodoInv, Doing
<1>2. todo[p] \notin LogsOnly /\ (op = "store" => Tail(todo[p]) \in LogsOnly)
  BY <1>1, TodoFacts DEF VecOps, EmbedOps
<1>3. Proceed(p) => todo'[p] = Tail(todo[p])
  BY DEF Proceed, TodoInv
<1> QED
  BY <1>2, <1>3 DEF VecInv, AnswerInv

\* Where p is with its index.
LEMMA AtIndex ==
    ASSUME VecInv, NEW p \in Processes
    PROVE  /\ vecFaults \in vecFaults..MaxVecFaults /\ fits \in [Processes -> BOOLEAN]
           /\ VecFault => vecFaults' \in vecFaults..MaxVecFaults /\ vecFaults' # 0
           /\ vecFaults = 0 /\ creator[IndexFor(p)] = p =>
                 \/ vecStep[p] = "binding"
                 \/ handle[p] \in opened /\ vecStep[p] \notin {"listing", "creating"}
           /\ handle[p] \in opened => IndexFor(p) \in remote
<1>1. vecFaults \in vecFaults..MaxVecFaults
  BY VecFacts
<1>2. VecFault => vecFaults' \in vecFaults..MaxVecFaults /\ vecFaults' # 0
  BY VecFacts DEF VecFault
<1> QED
  BY <1>1, <1>2 DEF VecInv, VecTypes, CreatorInv, IndexFor

LEMMA EmbedInv ==
    ASSUME VecInv, TodoInv, Later, NEW p \in Processes, NEW op, answer[p] = "none", Embed(p, op)
    PROVE  VecInv'
<1>1. /\ vecStep[p] = "idle" /\ Step(p, "embedded")
      /\ UNCHANGED <<handle, remote, opened, creator, records, deleted, answer, vecFaults>>
  BY DEF Embed, config
<1>2. PICK ok \in BOOLEAN : fits' = [fits EXCEPT ![p] = ok]
  BY DEF Embed
<1>3. /\ fits' \in [Processes -> BOOLEAN]
      /\ \A q \in Processes : fits'[q] = fits[q] \/ (q = p /\ answer[p] = "none")
  BY <1>2 DEF VecInv, VecTypes
<1>4. "embedded" \in Steps
  BY DEF Steps
<1> QED
  BY <1>1, <1>3, <1>4, AtIndex, VecMoves

LEMMA GetIndexInv ==
    ASSUME VecInv, TodoInv, Later, NEW p \in Processes, NEW op, GetIndex(p, op)
    PROVE  VecInv'
<1>1. PICK t : t = IF handle[p] \in opened THEN "calling" ELSE "listing"
  OBVIOUS
<1>2. /\ vecStep[p] \in {"idle", "embedded"} /\ Step(p, t)
      /\ UNCHANGED <<handle, fits, remote, opened, creator, records, deleted, answer, vecFaults>>
  BY <1>1 DEF GetIndex, config, Begun
<1>3. t \in Steps /\ t \in {"calling", "listing"}
  BY <1>1 DEF Steps
<1>4. vecFaults' = 0 /\ creator[IndexFor(p)] = p => handle[p] \in opened /\ t = "calling"
  BY <1>1, <1>2, AtIndex
<1> QED
  BY <1>2, <1>3, <1>4, AtIndex, VecMoves

LEMMA ListIndexesInv ==
    ASSUME VecInv, TodoInv, Later, NEW p \in Processes, ListIndexes(p)
    PROVE  VecInv'
<1>1. PICK t : t = IF IndexFor(p) \in remote THEN "binding" ELSE "creating"
  OBVIOUS
<1>2. /\ vecStep[p] = "listing" /\ Step(p, t)
      /\ UNCHANGED <<handle, fits, remote, opened, creator, records, deleted, answer, vecFaults>>
  BY <1>1 DEF ListIndexes, config, IndexFor
<1>3. t \in Steps
  BY <1>1 DEF Steps
<1>4. ~(vecFaults' = 0 /\ creator[IndexFor(p)] = p)
  BY <1>2, AtIndex
<1> QED
  BY <1>1, <1>2, <1>3, <1>4, AtIndex, VecMoves

LEMMA BindIndexInv ==
    ASSUME VecInv, TodoInv, Later, NEW p \in Processes, BindIndex(p)
    PROVE  VecInv'
<1>1. /\ vecStep[p] = "binding" /\ Step(p, "calling") /\ opened' = opened \union {handle[p]}
      /\ UNCHANGED <<handle, fits, remote, creator, records, deleted, answer, vecFaults>>
  BY DEF BindIndex, config
<1>2. "calling" \in Steps /\ IndexFor(p) \in remote
  BY <1>1, VecFacts DEF Steps
<1> QED
  BY <1>1, <1>2, AtIndex, VecMoves

LEMMA OpenFailsInv ==
    ASSUME VecInv, TodoInv, Later, NEW p \in Processes, NEW op, OpenFails(p, op),
           vecStep'[p] = "idle" /\ op = "store" => todo'[p] \in LogsOnly
    PROVE  VecInv'
<1>1. /\ UNCHANGED <<handle, fits, remote, opened, creator, records, deleted>>
      /\ vecFaults' \in vecFaults..MaxVecFaults
      /\ vecStep[p] \in {"listing", "creating", "binding"}
      /\ vecFaults' = 0 => vecFaults = 0 /\ vecStep[p] = "creating" /\ IndexFor(p) \in remote
  BY AtIndex, VecFacts DEF OpenFails, config, IndexFor
<1>2. vecFaults' = 0 => creator[IndexFor(p)] \notin {None, p}
  BY <1>1, AtIndex, VecFacts
<1>3. CASE handle[p] = Provider /\ Provider \in opened
  <2>1. Step(p, "calling") /\ answer' = answer /\ "calling" \in Steps
    BY <1>3 DEF OpenFails, Steps
  <2> QED
    BY <1>1, <1>2, <2>1, AtIndex, VecMoves
<1>4. CASE ~(handle[p] = Provider /\ Provider \in opened)
  <2>1. Return(p, op, "failed")
    BY <1>4 DEF OpenFails
  <2>2. vecStep'[p] = "idle"
    BY <2>1, VecGoto DEF Return, Steps, VecInv
  <2>3. op = "store" => todo'[p] \in LogsOnly
    BY <2>2
  <2>4. UNCHANGED <<records, deleted>> /\ vecFaults' \in vecFaults..MaxVecFaults
    BY <1>1
  <2> QED
    BY <1>1, <1>2, <2>1, <2>3, <2>4, VecEnds
<1> QED
  BY <1>3, <1>4

LEMMA CallsInv ==
    ASSUME VecInv, TodoInv, Later, NEW p \in Processes, NEW op,
           MockCall(p, op) \/ Call(p, op) \/ CallFails(p, op),
           op = "store" => todo'[p] \in LogsOnly
    PROVE  VecInv'
<1>1. UNCHANGED <<handle, fits, remote, opened, creator>>
  BY DEF MockCall, Call, CallFails, config
<1>2. vecStep[p] \in {"idle", "embedded", "calling"}
  BY DEF MockCall, Call, CallFails, Begun
<1>3. vecFaults = 0 /\ creator[IndexFor(p)] = p => handle[p] \in opened
  BY <1>2, AtIndex
<1>4. CASE MockCall(p, op) \/ Call(p, op)
  <2>1. Apply(p, op) /\ Return(p, op, "done") /\ vecFaults' = vecFaults
    BY <1>4 DEF MockCall, Call
  <2> QED
    BY <1>1, <1>3, <2>1, AtIndex, VecEnds
<1>5. CASE CallFails(p, op)
  <2>1. /\ Return(p, op, "failed")
        /\ Apply(p, op) \/ UNCHANGED <<records, deleted>>
        /\ vecFaults' \in vecFaults..MaxVecFaults
        /\ vecFaults' = 0 => vecFaults = 0 /\ Refused(p, op)
    BY <1>5, AtIndex DEF CallFails
  <2>2. ~(fits[p] /\ op = "store" /\ vecFaults' = 0)
    BY <2>1 DEF Refused, EmbedOps
  <2> QED
    BY <1>1, <1>3, <2>1, <2>2, VecEnds
<1> QED
  BY <1>4, <1>5

LEMMA VecNext ==
    ASSUME VecInv, TodoInv, Later, NEW p \in Processes, VecStep(p) \/ VecFails(p)
    PROVE  VecInv'
<1>1. PICK op : op = Head(todo[p])
  OBVIOUS
<1>2. answer[p] = "none" /\ (Proceed(p) /\ op = "store" => todo'[p] \in LogsOnly)
  BY <1>1, AtMemory DEF VecStep, VecFails
<1>3. CASE VecStep(p)
  <2>1. \/ Embed(p, op) \/ GetIndex(p, op) \/ ListIndexes(p) \/ CreateIndex(p) \/ BindIndex(p)
        \/ (MockCall(p, op) \/ Call(p, op)) /\ Proceed(p)
    BY <1>1, <1>3 DEF VecStep
  <2> QED
    BY <1>2, <2>1, EmbedInv, GetIndexInv, ListIndexesInv, CreateIndexInv, BindIndexInv, CallsInv
<1>4. CASE VecFails(p)
  <2>1. \/ OpenFails(p, op) /\ (vecStep'[p] = "idle" => Proceed(p))
        \/ CallFails(p, op) /\ Proceed(p)
    BY <1>1, <1>4 DEF VecFails
  <2> QED
    BY <1>2, <2>1, OpenFailsInv, CallsInv
<1> QED
  BY <1>3, <1>4

LEMMA VecInitInv == Init => VecInv
<1> SUFFICES ASSUME Init PROVE VecInv
  OBVIOUS
<1>1. VecTypes
  BY DEF Init, VecInit, VecTypes, Steps, Outcomes
<1>2. \A p \in Processes : IndexFor(p) \in Indexes
  BY <1>1 DEF VecTypes, IndexFor, Indexes
<1>3. \A x \in Indexes : creator[x] = None
  BY DEF Init, VecInit
<1>4. IndexInv /\ CreatorInv
  BY <1>2, <1>3 DEF Init, VecInit, IndexInv, CreatorInv
<1>5. AnswerInv
  BY DEF Init, VecInit, AnswerInv
<1> QED
  BY <1>1, <1>4, <1>5 DEF VecInv

LEMMA VecUnchanged == ASSUME VecInv, Later, UNCHANGED vecVars PROVE VecInv'
<1>1. UNCHANGED <<handle, vecStep, fits, remote, opened, creator, records, deleted, answer, vecFaults>>
  BY DEF vecVars
<1>2. \A q \in Processes : IndexFor(q)' = IndexFor(q)
  BY <1>1 DEF IndexFor
<1>3. VecTypes' /\ IndexInv' /\ CreatorInv'
  BY <1>1, <1>2 DEF VecInv, VecTypes, IndexInv, CreatorInv
<1>4. AnswerInv'
  BY <1>1, <1>2 DEF VecInv, AnswerInv, Later
<1> QED
  BY <1>3, <1>4 DEF VecInv

LEMMA StoresSound == VecInv => StoreTruthful
BY DEF VecInv, AnswerInv, StoreTruthful, IndexFor

-----------------------------------------------------------------------------
(* The telemetry agent's poll.                                             *)

SourceInv == client \in BOOLEAN /\ querying \subseteq {p \in Processes : client /\ todo[p] = Poll}

LEMMA SourceNext ==
    ASSUME SourceInv, TodoInv, NEW p \in Processes, Others(p), PollStep(p)
    PROVE  SourceInv'
<1>1. todo[p] = Poll
  <2>1. todo[p] \in Todos /\ todo[p] # <<>> /\ Head(todo[p]) = "fetch"
    BY DEF TodoInv, PollStep, Doing
  <2> QED
    BY <2>1, TodoFacts
<1>2. CASE Query(p) /\ UNCHANGED todo
  BY <1>1, <1>2 DEF Query, SourceInv
<1>3. ASSUME NEW n, NoClient(p, n) \/ Answer(p, n)
      PROVE  SourceInv'
  <2>1. client' = client /\ querying' \subseteq querying \ {p}
    BY <1>3 DEF NoClient, Answer, sourceVars
  <2> QED
    BY <2>1 DEF SourceInv, Others
<1> QED
  BY <1>2, <1>3 DEF PollStep

\* A step of a task that is not polling.
LEMMA SourceUnchanged ==
    ASSUME SourceInv, NEW p \in Processes, Others(p), UNCHANGED sourceVars,
           UNCHANGED todo \/ ~(todo[p] = Poll)
    PROVE  SourceInv'
BY DEF SourceInv, sourceVars, Others

-----------------------------------------------------------------------------
(* The notification agent's alerts.                                        *)

Of(q) == {q[k] : k \in DOMAIN q}

Distinct(q) == \A j, k \in DOMAIN q : q[j] = q[k] => j = k

AlertTypes ==
    /\ queue \in [Processes -> Seq(Configured)] /\ attempt \in [Processes -> 0..MaxRetries]
    /\ posted \in [Processes -> [Configured -> Nat]]
    /\ doubts \in [Processes -> [Configured -> Nat]]
    /\ failures \in [Processes -> SUBSET Configured]

\* How many POSTs to a provider still in the queue can have failed.
Tried(p, c) ==
    IF c # First(p) THEN 0 ELSE IF todo[p] = Simulation THEN attempt[p] ELSE attempt[p] + 1

\* A provider in the queue took an alert only in a POST that failed; one that left it
\* took at most one more, and took one or answered False.
AlertOf(p) ==
    /\ Distinct(queue[p])
    /\ \A c \in Configured :
        IF c \in Of(queue[p])
        THEN posted[p][c] <= doubts[p][c] /\ doubts[p][c] <= Tried(p, c)
        ELSE /\ posted[p][c] <= 1 + doubts[p][c] /\ posted[p][c] <= MaxRetries + 1
             /\ posted[p][c] > 0 \/ c \in failures[p]

AlertInv == AlertTypes /\ \A p \in Processes : AlertOf(p)

LEMMA QueueFacts ==
    ASSUME NEW q \in Seq(Configured), q # <<>>, Distinct(q)
    PROVE  /\ Head(q) \in Configured /\ Head(q) \in Of(q)
           /\ Tail(q) \in Seq(Configured) /\ Distinct(Tail(q))
           /\ Of(Tail(q)) = Of(q) \ {Head(q)}
<1>1. Len(q) \in Nat \ {0} /\ Head(q) = q[1] /\ DOMAIN q = 1..Len(q)
  OBVIOUS
<1>2. /\ Tail(q) \in Seq(Configured) /\ DOMAIN Tail(q) = 1..(Len(q) - 1)
      /\ \A k \in 1..(Len(q) - 1) : Tail(q)[k] = q[k + 1]
  OBVIOUS
<1>3. Head(q) \in Configured /\ Head(q) \in Of(q)
  BY <1>1 DEF Of
<1>4. Distinct(Tail(q))
  <2> SUFFICES ASSUME NEW j \in 1..(Len(q) - 1), NEW k \in 1..(Len(q) - 1), q[j + 1] = q[k + 1]
               PROVE  j = k
    BY <1>2 DEF Distinct
  <2>1. j + 1 \in DOMAIN q /\ k + 1 \in DOMAIN q
    BY <1>1
  <2>2. j + 1 = k + 1
    BY <2>1 DEF Distinct
  <2> QED
    BY <1>1, <2>2
<1>5. ASSUME NEW c \in Of(Tail(q)) PROVE c \in Of(q) /\ c # Head(q)
  <2>1. PICK k \in 1..(Len(q) - 1) : c = Tail(q)[k]
    BY <1>2 DEF Of
  <2>2. k + 1 \in DOMAIN q /\ k + 1 # 1 /\ 1 \in DOMAIN q /\ c = q[k + 1]
    BY <1>1, <1>2, <2>1
  <2>3. q[k + 1] # q[1]
    BY <2>2 DEF Distinct
  <2> QED
    BY <1>1, <2>2, <2>3 DEF Of
<1>6. ASSUME NEW c \in Of(q), c # Head(q) PROVE c \in Of(Tail(q))
  <2>1. PICK k \in 1..Len(q) : c = q[k]
    BY <1>1 DEF Of
  <2>2. k - 1 \in 1..(Len(q) - 1) /\ c = Tail(q)[k - 1]
    BY <1>1, <1>2, <1>6, <2>1
  <2> QED
    BY <1>2, <2>2 DEF Of
<1> QED
  BY <1>2, <1>3, <1>4, <1>5, <1>6

\* One count of one task and provider goes up by one.
LEMMA Bumped ==
    ASSUME NEW f \in [Processes -> [Configured -> Nat]], NEW g,
           NEW p \in Processes, NEW h \in Configured, g = [f EXCEPT ![p][h] = @ + 1]
    PROVE  /\ g \in [Processes -> [Configured -> Nat]]
           /\ g[p][h] = f[p][h] + 1
           /\ \A c \in Configured \ {h} : g[p][c] = f[p][c]
           /\ \A q \in Processes \ {p} : g[q] = f[q]
OBVIOUS

\* The alerts of a task whose list at most got shorter.
LEMMA AlertRest ==
    ASSUME AlertInv, Later, NEW q \in Processes,
           UNCHANGED <<queue[q], attempt[q], posted[q], doubts[q], failures[q]>>
    PROVE  AlertOf(q)'
<1>1. attempt[q] \in Nat /\ \A c \in Configured : doubts[q][c] \in Nat
  <2>1. AlertTypes
    BY DEF AlertInv
  <2>2. attempt[q] \in 0..MaxRetries /\ MaxRetries \in Nat
    BY <2>1 DEF AlertTypes
  <2>3. doubts[q] \in [Configured -> Nat]
    BY <2>1 DEF AlertTypes
  <2> QED
    BY <2>2, <2>3
<1>2. ASSUME NEW c \in Configured, doubts[q][c] <= Tried(q, c) PROVE doubts[q][c] <= Tried(q, c)'
  <2>1. PICK a, d : a = attempt[q] /\ d = doubts[q][c] /\ a \in Nat /\ d \in Nat
    BY <1>1
  <2>2. First(q)' = First(q) /\ attempt'[q] = a /\ (todo'[q] = Simulation => todo[q] = Simulation)
    BY <2>1 DEF First, Later
  <2>3. CASE c # First(q)
    BY <1>2, <2>2, <2>3 DEF Tried
  <2>4. CASE c = First(q)
    <3>1. d <= a + 1 /\ (todo[q] = Simulation => d <= a)
      BY <1>2, <2>1, <2>4 DEF Tried
    <3> QED
      BY <2>1, <2>2, <2>4, <3>1 DEF Tried
  <2> QED
    BY <2>3, <2>4
<1>3. AlertOf(q)
  BY DEF AlertInv
<1> QED
  BY <1>1, <1>2, <1>3 DEF AlertOf

\* Counts g are counts f but for those of task p and provider h.
SameElse(f, g, p, h) ==
    /\ g \in [Processes -> [Configured -> Nat]]
    /\ \A c \in Configured \ {h} : g[p][c] = f[p][c]
    /\ \A q \in Processes \ {p} : g[q] = f[q]

\* The task at a provider.
LEMMA AtProvider ==
    ASSUME AlertInv, TodoInv, NEW p \in Processes, Doing(p, {"alert"}), queue[p] # <<>>,
           NEW h, h = First(p)
    PROVE  /\ todo[p] = Simulation /\ h \in Configured /\ h \in Of(queue[p])
           /\ Tail(queue[p]) \in Seq(Configured) /\ Distinct(Tail(queue[p]))
           /\ Of(Tail(queue[p])) = Of(queue[p]) \ {h}
           /\ attempt[p] \in Nat /\ attempt[p] <= MaxRetries
           /\ posted[p][h] \in Nat /\ doubts[p][h] \in Nat
           /\ posted[p][h] <= doubts[p][h] /\ doubts[p][h] <= attempt[p]
           /\ \A c \in Of(queue[p]) \ {h} : c \in Configured => posted[p][c] = 0 /\ doubts[p][c] = 0
<1>1. /\ queue[p] \in Seq(Configured) /\ attempt[p] \in 0..MaxRetries
      /\ \A c \in Configured : posted[p][c] \in Nat /\ doubts[p][c] \in Nat
  BY DEF AlertInv, AlertTypes
<1>2. AlertOf(p)
  BY DEF AlertInv
<1>3. todo[p] = Simulation
  <2>1. todo[p] \in Todos /\ todo[p] # <<>> /\ Head(todo[p]) = "alert"
    BY DEF TodoInv, Doing
  <2> QED
    BY <2>1, TodoFacts
<1>4. /\ h \in Configured /\ h \in Of(queue[p])
      /\ Tail(queue[p]) \in Seq(Configured) /\ Distinct(Tail(queue[p]))
      /\ Of(Tail(queue[p])) = Of(queue[p]) \ {h}
  BY <1>1, <1>2, QueueFacts DEF AlertOf, First
<1>5. posted[p][h] <= doubts[p][h] /\ doubts[p][h] <= attempt[p]
  BY <1>2, <1>3, <1>4 DEF AlertOf, Tried
<1>6. ASSUME NEW c \in Of(queue[p]) \ {h}, c \in Configured
      PROVE  posted[p][c] = 0 /\ doubts[p][c] = 0
  <2>1. posted[p][c] <= doubts[p][c] /\ doubts[p][c] <= 0
    BY <1>2, <1>6 DEF AlertOf, Tried
  <2>2. posted[p][c] \in Nat /\ doubts[p][c] \in Nat
    BY <1>1, <1>6
  <2> QED
    BY <2>1, <2>2
<1> QED
  BY <1>1, <1>3, <1>4, <1>5, <1>6

\* A provider is done with.
LEMMA AlertMoves ==
    ASSUME AlertInv, TodoInv, Later, NEW p \in Processes, Doing(p, {"alert"}), queue[p] # <<>>,
           NEW h, h = First(p), NextProvider(p),
           SameElse(posted, posted', p, h), SameElse(doubts, doubts', p, h),
           failures' \in [Processes -> SUBSET Configured], failures[p] \subseteq failures'[p],
           \A q \in Processes \ {p} : failures'[q] = failures[q],
           posted'[p][h] <= 1 + doubts'[p][h], posted'[p][h] <= MaxRetries + 1,
           posted'[p][h] > 0 \/ h \in failures'[p]
    PROVE  AlertInv'
<1>1. PICK b : b = Tail(queue[p])
  OBVIOUS
<1>2. /\ h \in Configured /\ b \in Seq(Configured) /\ Distinct(b) /\ Of(b) = Of(queue[p]) \ {h}
      /\ \A c \in Of(queue[p]) \ {h} : c \in Configured => posted[p][c] = 0 /\ doubts[p][c] = 0
  BY <1>1, AtProvider
<1>3. /\ queue' \in [Processes -> Seq(Configured)] /\ attempt' \in [Processes -> 0..MaxRetries]
      /\ queue'[p] = b /\ attempt'[p] = 0
      /\ \A q \in Processes \ {p} : queue'[q] = queue[q] /\ attempt'[q] = attempt[q]
  BY <1>1, <1>2 DEF AlertInv, AlertTypes, NextProvider
<1>4. AlertTypes'
  BY <1>3 DEF AlertTypes, SameElse
<1>5. AlertOf(p)'
  <2> SUFFICES ASSUME NEW c \in Configured
               PROVE  IF c \in Of(b)
                      THEN posted'[p][c] <= doubts'[p][c] /\ doubts'[p][c] <= Tried(p, c)'
                      ELSE /\ posted'[p][c] <= 1 + doubts'[p][c] /\ posted'[p][c] <= MaxRetries + 1
                           /\ posted'[p][c] > 0 \/ c \in failures'[p]
    BY <1>2, <1>3 DEF AlertOf
  <2>1. CASE c = h
    BY <1>2, <2>1
  <2>2. CASE c # h /\ c \in Of(b)
    <3>1. posted'[p][c] = 0 /\ doubts'[p][c] = 0
      BY <1>2, <2>2 DEF SameElse
    <3>2. 0 <= Tried(p, c)'
      BY <1>3 DEF Tried
    <3> QED
      BY <2>2, <3>1, <3>2
  <2>3. CASE c # h /\ c \notin Of(b)
    <3>1. posted'[p][c] = posted[p][c] /\ doubts'[p][c] = doubts[p][c]
      BY <2>3 DEF SameElse
    <3>2. /\ posted[p][c] <= 1 + doubts[p][c] /\ posted[p][c] <= MaxRetries + 1
          /\ posted[p][c] > 0 \/ c \in failures[p]
      BY <1>2, <2>3 DEF AlertInv, AlertOf
    <3> QED
      BY <2>3, <3>1, <3>2
  <2> QED
    BY <2>1, <2>2, <2>3
<1>6. ASSUME NEW q \in Processes \ {p} PROVE AlertOf(q)'
  BY <1>3, AlertRest DEF SameElse
<1> QED
  BY <1>4, <1>5, <1>6 DEF AlertInv

\* A provider may be tried again, or never will as the task is cancelled.
LEMMA AlertStays ==
    ASSUME AlertInv, TodoInv, Later, NEW p \in Processes, Doing(p, {"alert"}), queue[p] # <<>>,
           NEW h, h = First(p), UNCHANGED <<queue, failures>>,
           attempt' \in [Processes -> 0..MaxRetries],
           \A q \in Processes \ {p} : attempt'[q] = attempt[q],
           SameElse(posted, posted', p, h), SameElse(doubts, doubts', p, h),
           posted'[p][h] <= doubts'[p][h],
           doubts'[p][h] <= IF todo'[p] = Simulation THEN attempt'[p] ELSE attempt'[p] + 1
    PROVE  AlertInv'
<1>1. /\ h \in Configured /\ h \in Of(queue[p])
      /\ \A c \in Of(queue[p]) \ {h} : c \in Configured => posted[p][c] = 0 /\ doubts[p][c] = 0
  BY AtProvider
<1>2. AlertTypes'
  BY DEF AlertInv, AlertTypes, SameElse
<1>3. AlertOf(p)'
  <2> SUFFICES ASSUME NEW c \in Configured
               PROVE  IF c \in Of(queue[p])
                      THEN posted'[p][c] <= doubts'[p][c] /\ doubts'[p][c] <= Tried(p, c)'
                      ELSE /\ posted'[p][c] <= 1 + doubts'[p][c] /\ posted'[p][c] <= MaxRetries + 1
                           /\ posted'[p][c] > 0 \/ c \in failures[p]
    BY DEF AlertInv, AlertOf
  <2>1. First(p)' = h
    BY DEF First
  <2>2. CASE c = h
    BY <1>1, <2>1, <2>2 DEF Tried
  <2>3. CASE c # h
    <3>1. posted'[p][c] = posted[p][c] /\ doubts'[p][c] = doubts[p][c]
      BY <2>3 DEF SameElse
    <3>2. CASE c \in Of(queue[p])
      <4>1. posted[p][c] = 0 /\ doubts[p][c] = 0
        BY <1>1, <2>3, <3>2
      <4>2. Tried(p, c)' = 0
        BY <2>1, <2>3 DEF Tried
      <4> QED
        BY <3>1, <3>2, <4>1, <4>2
    <3>3. CASE c \notin Of(queue[p])
      BY <3>1, <3>3 DEF AlertInv, AlertOf
    <3> QED
      BY <3>2, <3>3
  <2> QED
    BY <2>2, <2>3
<1>4. ASSUME NEW q \in Processes \ {p} PROVE AlertOf(q)'
  BY AlertRest DEF SameElse
<1> QED
  BY <1>2, <1>3, <1>4 DEF AlertInv

LEMMA OneMore ==
    ASSUME NEW f \in [Processes -> [Configured -> Nat]], NEW g, NEW p \in Processes,
           NEW h \in Configured, g = [f EXCEPT ![p][h] = @ + 1]
    PROVE  SameElse(f, g, p, h) /\ g[p][h] = f[p][h] + 1
BY Bumped DEF SameElse

LEMMA AlertNext ==
    ASSUME AlertInv, TodoInv, Later, NEW p \in Processes, AlertStep(p) \/ CancelAlert(p)
    PROVE  AlertInv'
<1>1. PICK h : h = First(p)
  OBVIOUS
<1>2. Doing(p, {"alert"}) /\ queue[p] # <<>>
  BY DEF AlertStep, CancelAlert, Post, PostFails, AnswerUnreadable
<1>3. /\ todo[p] = Simulation /\ h \in Configured
      /\ attempt[p] \in Nat /\ attempt[p] <= MaxRetries
      /\ posted[p][h] \in Nat /\ doubts[p][h] \in Nat
      /\ posted[p][h] <= doubts[p][h] /\ doubts[p][h] <= attempt[p]
  BY <1>1, <1>2, AtProvider
<1>4. /\ posted \in [Processes -> [Configured -> Nat]]
      /\ doubts \in [Processes -> [Configured -> Nat]]
      /\ failures \in [Processes -> SUBSET Configured]
      /\ attempt \in [Processes -> 0..MaxRetries] /\ queue \in [Processes -> Seq(Configured)]
  BY DEF AlertInv, AlertTypes
<1>5. ASSUME Took(p)
      PROVE  SameElse(posted, posted', p, h) /\ posted'[p][h] = posted[p][h] + 1
  <2>1. posted' = [posted EXCEPT ![p][h] = @ + 1]
    BY <1>1, <1>5 DEF Took
  <2> QED
    BY <1>3, <1>4, <2>1, OneMore
<1>6. ASSUME posted' = posted
      PROVE  SameElse(posted, posted', p, h) /\ posted'[p][h] = posted[p][h]
  BY <1>4, <1>6 DEF SameElse
<1>7. ASSUME doubts' = [doubts EXCEPT ![p][h] = @ + 1]
      PROVE  SameElse(doubts, doubts', p, h) /\ doubts'[p][h] = doubts[p][h] + 1
  BY <1>3, <1>4, <1>7, OneMore
<1>8. ASSUME doubts' = doubts
      PROVE  SameElse(doubts, doubts', p, h) /\ doubts'[p][h] = doubts[p][h]
  BY <1>4, <1>8 DEF SameElse
<1>9. GiveUp(p) =>
        /\ NextProvider(p) /\ failures' \in [Processes -> SUBSET Configured]
        /\ failures[p] \subseteq failures'[p] /\ h \in failures'[p]
        /\ \A q \in Processes \ {p} : failures'[q] = failures[q]
  BY <1>1, <1>3, <1>4 DEF GiveUp
<1>10. CASE Post(p)
  <2>1. Took(p) /\ NextProvider(p) /\ failures' = failures /\ doubts' = doubts
    BY <1>10 DEF Post
  <2>2. posted'[p][h] = posted[p][h] + 1 /\ doubts'[p][h] = doubts[p][h]
    BY <1>5, <1>8, <2>1
  <2>3. posted'[p][h] <= 1 + doubts'[p][h] /\ posted'[p][h] <= MaxRetries + 1 /\ posted'[p][h] > 0
    BY <1>3, <2>2
  <2> QED
    BY <1>1, <1>2, <1>4, <1>5, <1>8, <2>1, <2>3, AlertMoves
<1>11. CASE PostFails(p) /\ AlertStep(p)
  <2>1. /\ doubts' = [doubts EXCEPT ![p][h] = @ + 1] /\ (Took(p) \/ posted' = posted)
        /\ \/ /\ attempt[p] < MaxRetries /\ attempt' = [attempt EXCEPT ![p] = @ + 1]
              /\ UNCHANGED <<queue, failures>>
           \/ ~(attempt[p] < MaxRetries) /\ GiveUp(p)
    BY <1>1, <1>11 DEF PostFails
  <2>2. /\ SameElse(posted, posted', p, h) /\ SameElse(doubts, doubts', p, h)
        /\ posted'[p][h] \in {posted[p][h], posted[p][h] + 1}
        /\ doubts'[p][h] = doubts[p][h] + 1
    BY <1>5, <1>6, <1>7, <2>1
  <2>3. posted'[p][h] <= doubts'[p][h] /\ posted'[p][h] <= MaxRetries + 1
    BY <1>3, <2>2
  <2>4. CASE attempt[p] < MaxRetries
    <3>1. attempt' = [attempt EXCEPT ![p] = @ + 1] /\ UNCHANGED <<queue, failures>>
      BY <2>1, <2>4
    <3>2. /\ attempt' \in [Processes -> 0..MaxRetries] /\ attempt'[p] = attempt[p] + 1
          /\ \A q \in Processes \ {p} : attempt'[q] = attempt[q]
      BY <1>3, <1>4, <2>4, <3>1
    <3>3. todo'[p] = Simulation
      BY <1>2, <1>3, <1>11, <3>1 DEF AlertStep
    <3>4. doubts'[p][h] <= attempt'[p]
      BY <1>3, <2>2, <3>2
    <3> QED
      BY <1>1, <1>2, <2>2, <2>3, <3>1, <3>2, <3>3, <3>4, AlertStays
  <2>5. CASE ~(attempt[p] < MaxRetries)
    <3>1. GiveUp(p)
      BY <2>1, <2>5
    <3>2. posted'[p][h] <= 1 + doubts'[p][h]
      BY <1>3, <2>2
    <3> QED
      BY <1>1, <1>2, <1>9, <2>2, <2>3, <3>1, <3>2, AlertMoves
  <2> QED
    BY <2>4, <2>5
<1>12. CASE AnswerUnreadable(p)
  <2>1. Took(p) /\ GiveUp(p) /\ doubts' = doubts
    BY <1>12 DEF AnswerUnreadable
  <2>2. posted'[p][h] = posted[p][h] + 1 /\ doubts'[p][h] = doubts[p][h]
    BY <1>5, <1>8, <2>1
  <2>3. posted'[p][h] <= 1 + doubts'[p][h] /\ posted'[p][h] <= MaxRetries + 1
    BY <1>3, <2>2
  <2> QED
    BY <1>1, <1>2, <1>5, <1>8, <1>9, <2>1, <2>3, AlertMoves
<1>13. CASE CancelAlert(p)
  <2>1. /\ doubts' = [doubts EXCEPT ![p][h] = @ + 1] /\ (Took(p) \/ posted' = posted)
        /\ todo' = [todo EXCEPT ![p] = <<>>] /\ UNCHANGED <<queue, attempt, failures>>
    BY <1>1, <1>13 DEF CancelAlert
  <2>2. /\ SameElse(posted, posted', p, h) /\ SameElse(doubts, doubts', p, h)
        /\ posted'[p][h] \in {posted[p][h], posted[p][h] + 1}
        /\ doubts'[p][h] = doubts[p][h] + 1
    BY <1>5, <1>6, <1>7, <2>1
  <2>3. posted'[p][h] <= doubts'[p][h] /\ doubts'[p][h] <= attempt'[p] + 1
    BY <1>3, <2>1, <2>2, SMTT(30)
  <2>4. todo'[p] # Simulation
    BY <2>1 DEF TodoInv, Simulation
  <2>5. attempt' \in [Processes -> 0..MaxRetries] /\ \A q \in Processes \ {p} : attempt'[q] = attempt[q]
    BY <1>4, <2>1
  <2> QED
    BY <1>1, <1>2, <2>1, <2>2, <2>3, <2>4, <2>5, AlertStays
<1> QED
  BY <1>10, <1>11, <1>12, <1>13 DEF AlertStep

LEMMA AlertUnchanged == ASSUME AlertInv, Later, UNCHANGED alertVars PROVE AlertInv'
<1>1. AlertTypes'
  BY DEF AlertInv, AlertTypes, alertVars
<1>2. ASSUME NEW q \in Processes PROVE AlertOf(q)'
  BY AlertRest DEF alertVars
<1> QED
  BY <1>1, <1>2 DEF AlertInv

-----------------------------------------------------------------------------
(* The providers in their order.                                           *)

LEMMA Joined ==
    ASSUME NEW q \in Seq(Configured), NEW r \in Seq(Configured), Distinct(q), Distinct(r),
           Of(q) \intersect Of(r) = {}
    PROVE  /\ q \o r \in Seq(Configured) /\ Distinct(q \o r)
           /\ Of(q \o r) = Of(q) \union Of(r)
<1> DEFINE m == Len(q) n == Len(r) s == q \o r
<1>1. /\ m \in Nat /\ n \in Nat /\ s \in Seq(Configured) /\ DOMAIN s = 1..(m + n)
      /\ DOMAIN q = 1..m /\ DOMAIN r = 1..n
      /\ \A k \in 1..(m + n) : s[k] = IF k <= m THEN q[k] ELSE r[k - m]
  OBVIOUS
<1> HIDE DEF m, n, s
<1>2. ASSUME NEW k \in 1..(m + n)
      PROVE  /\ k <= m => k \in DOMAIN q /\ s[k] = q[k] /\ s[k] \in Of(q)
             /\ ~(k <= m) => k - m \in DOMAIN r /\ s[k] = r[k - m] /\ s[k] \in Of(r)
  <2>1. CASE k <= m
    <3>1. k \in DOMAIN q /\ s[k] = q[k]
      BY <1>1, <2>1
    <3> QED
      BY <2>1, <3>1 DEF Of
  <2>2. CASE ~(k <= m)
    <3>1. k - m \in DOMAIN r /\ s[k] = r[k - m]
      BY <1>1, <2>2
    <3> QED
      BY <2>2, <3>1 DEF Of
  <2> QED
    BY <2>1, <2>2
<1>3. Distinct(s)
  <2> SUFFICES ASSUME NEW j \in 1..(m + n), NEW k \in 1..(m + n), s[j] = s[k] PROVE j = k
    BY <1>1 DEF Distinct
  <2>1. CASE j <= m /\ k <= m
    BY <1>2, <2>1 DEF Distinct
  <2>2. CASE ~(j <= m) /\ ~(k <= m)
    <3>1. j - m = k - m
      BY <1>2, <2>2 DEF Distinct
    <3> QED
      BY <1>1, <3>1
  <2>3. CASE (j <= m) # (k <= m)
    BY <1>2, <2>3
  <2> QED
    BY <2>1, <2>2, <2>3
<1>4. ASSUME NEW c \in Of(s) PROVE c \in Of(q) \union Of(r)
  BY <1>1, <1>2 DEF Of
<1>5. ASSUME NEW c \in Of(q) PROVE c \in Of(s)
  <2>1. PICK k \in 1..m : c = q[k]
    BY <1>1 DEF Of
  <2>2. k \in 1..(m + n) /\ s[k] = c
    BY <1>1, <2>1
  <2> QED
    BY <1>1, <2>2 DEF Of
<1>6. ASSUME NEW c \in Of(r) PROVE c \in Of(s)
  <2>1. PICK k \in 1..n : c = r[k]
    BY <1>1 DEF Of
  <2>2. k + m \in 1..(m + n) /\ ~(k + m <= m) /\ (k + m) - m = k
    BY <1>1, <2>1
  <2>3. s[k + m] = c
    BY <1>1, <2>1, <2>2
  <2> QED
    BY <1>1, <2>2, <2>3 DEF Of
<1> QED
  BY <1>1, <1>3, <1>4, <1>5, <1>6 DEF s

LEMMA IfFacts ==
    ASSUME NEW c
    PROVE  /\ IfConfigured(c) \in Seq(Configured) /\ Distinct(IfConfigured(c))
           /\ Of(IfConfigured(c)) = Configured \intersect {c}
<1>1. CASE c \in Configured
  <2>1. IfConfigured(c) = <<c>>
    BY <1>1 DEF IfConfigured
  <2>2. <<c>> \in Seq(Configured) /\ DOMAIN <<c>> = {1} /\ <<c>>[1] = c
    BY <1>1
  <2> QED
    BY <1>1, <2>1, <2>2 DEF Distinct, Of
<1>2. CASE c \notin Configured
  <2>1. IfConfigured(c) = <<>>
    BY <1>2 DEF IfConfigured
  <2>2. <<>> \in Seq(Configured) /\ DOMAIN <<>> = {}
    OBVIOUS
  <2> QED
    BY <1>2, <2>1, <2>2 DEF Distinct, Of
<1> QED
  BY <1>1, <1>2

LEMMA ProvidersFacts ==
    Providers \in Seq(Configured) /\ Distinct(Providers) /\ Of(Providers) = Configured
<1>1. PICK a, b, c : a = IfConfigured("slack") /\ b = IfConfigured("teams") /\ c = IfConfigured("jira")
  OBVIOUS
<1>2. /\ a \in Seq(Configured) /\ Distinct(a) /\ Of(a) = Configured \intersect {"slack"}
      /\ b \in Seq(Configured) /\ Distinct(b) /\ Of(b) = Configured \intersect {"teams"}
      /\ c \in Seq(Configured) /\ Distinct(c) /\ Of(c) = Configured \intersect {"jira"}
  BY <1>1, IfFacts
<1>3. PICK d : d = a \o b
  OBVIOUS
<1>4. d \in Seq(Configured) /\ Distinct(d) /\ Of(d) = Configured \intersect {"slack", "teams"}
  BY <1>2, <1>3, Joined
<1>5. /\ d \o c \in Seq(Configured) /\ Distinct(d \o c)
      /\ Of(d \o c) = Configured \intersect {"slack", "teams", "jira"}
  BY <1>2, <1>4, Joined, SMTT(30)
<1>6. Providers = d \o c
  BY <1>1, <1>3 DEF Providers
<1> QED
  BY <1>5, <1>6

LEMMA AlertInitInv == Init => AlertInv
<1> SUFFICES ASSUME Init PROVE AlertInv
  OBVIOUS
<1>1. PICK b : b = Providers
  OBVIOUS
<1>2. b \in Seq(Configured) /\ Distinct(b) /\ Of(b) = Configured
  BY <1>1, ProvidersFacts
<1>3. /\ queue = [p \in Processes |-> b] /\ attempt = [p \in Processes |-> 0]
      /\ posted = [p \in Processes |-> [c \in Configured |-> 0]]
      /\ doubts = [p \in Processes |-> [c \in Configured |-> 0]]
      /\ failures = [p \in Processes |-> {}]
  BY <1>1 DEF Init, AlertInit
<1>4. AlertTypes
  BY <1>2, <1>3 DEF AlertTypes
<1>5. ASSUME NEW p \in Processes PROVE AlertOf(p)
  <2>1. queue[p] = b /\ attempt[p] = 0
    BY <1>3
  <2>2. \A c \in Configured : posted[p][c] = 0 /\ doubts[p][c] = 0 /\ 0 <= Tried(p, c)
    BY <1>3, <2>1 DEF Tried
  <2> QED
    BY <1>2, <2>1, <2>2 DEF AlertOf
<1> QED
  BY <1>4, <1>5 DEF AlertInv

LEMMA AlertsSound == AlertInv => AlertsAccounted
<1> SUFFICES ASSUME AlertInv, NEW p \in Processes, NEW c \in Configured
             PROVE  /\ posted[p][c] <= 1 + doubts[p][c] /\ posted[p][c] <= MaxRetries + 1
                    /\ queue[p] = <<>> => posted[p][c] > 0 \/ c \in failures[p]
  BY DEF AlertsAccounted
<1>1. /\ posted[p][c] \in Nat /\ doubts[p][c] \in Nat
      /\ attempt[p] \in Nat /\ attempt[p] <= MaxRetries
  BY DEF AlertInv, AlertTypes
<1>2. CASE c \in Of(queue[p])
  <2>1. posted[p][c] <= doubts[p][c] /\ doubts[p][c] <= Tried(p, c)
    BY <1>2 DEF AlertInv, AlertOf
  <2>2. Tried(p, c) \in Int /\ Tried(p, c) <= attempt[p] + 1
    BY <1>1 DEF Tried
  <2>3. queue[p] # <<>>
    <3>1. Of(<<>>) = {}
      BY DEF Of
    <3> QED
      BY <1>2, <3>1
  <2> QED
    BY <1>1, <2>1, <2>2, <2>3
<1>3. CASE c \notin Of(queue[p])
  BY <1>3 DEF AlertInv, AlertOf
<1> QED
  BY <1>2, <1>3

-----------------------------------------------------------------------------
(* All of them together.                                                   *)

IInv == TodoInv /\ EndedInv /\ DbInv /\ VecInv /\ SourceInv /\ AlertInv

LEMMA InitInv == Init => IInv
<1>1. Init => SourceInv /\ EndedInv
  BY DEF Init, SourceInit, SourceInv, DbInit, EndedInv
<1> QED
  BY <1>1, TodoInit, DbInitInv, VecInitInv, AlertInitInv DEF IInv

\* A step of one task in one of the services leaves the others alone.
LEMMA TaskStep ==
    ASSUME IInv, NEW p \in Processes,
           \/ DbStep(p) \/ DbFails(p) \/ VecStep(p) \/ VecFails(p)
           \/ PollStep(p) \/ AlertStep(p) \/ CancelAlert(p) \/ CancelAppend(p) \/ Reject(p)
    PROVE  IInv'
<1>1. TodoInv /\ EndedInv /\ DbInv /\ VecInv /\ SourceInv /\ AlertInv
  BY DEF IInv
<1>2. TodoInv' /\ Later /\ Others(p)
  BY <1>1, TodoNext
<1>3. \A ops : Doing(p, ops) /\ "fetch" \notin ops => todo[p] # Poll
  BY DEF Doing, Poll
<1>4. EndedInv'
  <2>1. /\ todo[p] # <<>>
        /\ \/ cancelled' = cancelled
           \/ cancelled' = cancelled \union {p} /\ todo' = [todo EXCEPT ![p] = <<>>]
    <3>1. CASE DbStep(p) \/ DbFails(p)
      BY <3>1 DEF DbStep, DbFails, Doing, OpenPool, UsePool, PoolCreated, Migrate, PoolRaises,
                  Execute, Unparsable, ConnectFails, MigrateFails, ExecuteFails
    <3>2. CASE CancelAppend(p)
      BY <3>2 DEF CancelAppend, CancelDb, Doing
    <3>3. CASE VecStep(p) \/ VecFails(p) \/ PollStep(p) \/ AlertStep(p) \/ CancelAlert(p) \/ Reject(p)
      BY <3>3 DEF VecStep, VecFails, PollStep, AlertStep, CancelAlert, Reject, Doing, dbVars
    <3> QED
      BY <3>1, <3>2, <3>3
  <2> QED
    BY <2>1, <1>1, <1>2, EndedNext DEF DbInv, DbTypes
<1>5. CASE DbStep(p) \/ DbFails(p) \/ CancelAppend(p)
  <2>1. Doing(p, DbOps) /\ "fetch" \notin DbOps /\ UNCHANGED <<vecVars, sourceVars, alertVars>>
    BY <1>5 DEF DbStep, DbFails, CancelAppend, DbOps, Doing
  <2>2. DbInv'
    BY <1>1, <1>5, DbNext
  <2> QED
    BY <1>1, <1>2, <1>3, <1>4, <2>1, <2>2, VecUnchanged, SourceUnchanged, AlertUnchanged DEF IInv
<1>6. CASE VecStep(p) \/ VecFails(p)
  <2>1. Doing(p, VecOps) /\ "fetch" \notin VecOps /\ UNCHANGED <<dbVars, sourceVars, alertVars>>
    BY <1>6 DEF VecStep, VecFails, VecOps, EmbedOps
  <2>2. VecInv'
    BY <1>1, <1>2, <1>6, VecNext
  <2> QED
    BY <1>1, <1>2, <1>3, <1>4, <2>1, <2>2, DbUnchanged, SourceUnchanged, AlertUnchanged DEF IInv
<1>7. CASE PollStep(p)
  <2>1. UNCHANGED <<dbVars, vecVars, alertVars>>
    BY <1>7 DEF PollStep
  <2>2. SourceInv'
    BY <1>1, <1>2, <1>7, SourceNext
  <2> QED
    BY <1>1, <1>2, <1>4, <2>1, <2>2, DbUnchanged, VecUnchanged, AlertUnchanged DEF IInv
<1>8. CASE AlertStep(p) \/ CancelAlert(p)
  <2>1. Doing(p, {"alert"}) /\ UNCHANGED <<dbVars, vecVars, sourceVars>>
    BY <1>8 DEF AlertStep, CancelAlert
  <2>2. AlertInv' /\ todo[p] # Poll
    BY <1>1, <1>2, <1>3, <1>8, <2>1, AlertNext
  <2> QED
    BY <1>1, <1>2, <1>4, <2>1, <2>2, DbUnchanged, VecUnchanged, SourceUnchanged DEF IInv
<1>9. CASE Reject(p)
  <2>1. UNCHANGED <<dbVars, vecVars, sourceVars, alertVars>> /\ todo[p] # Poll
    BY <1>3, <1>9 DEF Reject
  <2> QED
    BY <1>1, <1>2, <1>4, <2>1, DbUnchanged, VecUnchanged, SourceUnchanged, AlertUnchanged DEF IInv
<1> QED
  BY <1>5, <1>6, <1>7, <1>8, <1>9

LEMMA NextInv == IInv /\ [Next]_vars => IInv'
<1> SUFFICES ASSUME IInv, [Next]_vars PROVE IInv'
  OBVIOUS
<1>1. ASSUME NEW p \in Processes,
             \/ DbStep(p) \/ DbFails(p) \/ VecStep(p) \/ VecFails(p)
             \/ PollStep(p) \/ AlertStep(p) \/ CancelAlert(p) \/ CancelAppend(p) \/ Reject(p)
      PROVE  IInv'
  BY <1>1, TaskStep
<1>2. CASE UNCHANGED vars
  <2>1. UNCHANGED <<dbVars, vecVars, sourceVars, alertVars, todo>>
    BY <1>2 DEF vars
  <2>2. TodoInv' /\ Later
    BY <2>1 DEF IInv, TodoInv, Later
  <2>3. SourceInv' /\ EndedInv'
    BY <2>1 DEF IInv, SourceInv, sourceVars, EndedInv, dbVars
  <2> QED
    BY <2>1, <2>2, <2>3, DbUnchanged, VecUnchanged, AlertUnchanged DEF IInv
<1> QED
  BY <1>1, <1>2 DEF Next

LEMMA Invariance == Spec => []IInv
BY InitInv, NextInv, PTL DEF Spec

(* The state has its types, and a handle is bound only to an index that    *)
(* exists (pinecone_provider.py:130).                                      *)
THEOREM TypeCorrect == Spec => []TypeOK
<1>1. IInv => TypeOK
  BY DEF IInv, DbInv, DbTypes, VecInv, VecTypes, SourceInv, AlertInv, AlertTypes, TypeOK
<1> QED
  BY <1>1, Invariance, PTL

(* One pool is opened, whoever asks for it while it is (connection.py:77). *)
(* Until PostgreSQL fails its maker loses no event and, unless the maker   *)
(* is cancelled (app.py:433), the pool is not left unconnected and the     *)
(* others lose only what they ask before it is ready.                      *)
THEOREM PoolIsOne == Spec => []OnePool
<1>1. IInv => OnePool
  BY PoolSound DEF IInv
<1> QED
  BY <1>1, Invariance, PTL

(* What is lost, an event, a record or an alert, has its reason in what    *)
(* failed or was cancelled, however the tasks interleave                   *)
(* (connection.py:77, app.py:433, pinecone_stores.py:227,                  *)
(* notifications.py:153).                                                  *)
THEOREM LossHasReason == Spec => []LossExplained
<1>1. IInv => LossExplained
  BY PoolSound, StoresSound, AlertsSound DEF IInv, LossExplained
<1> QED
  BY <1>1, Invariance, PTL
=============================================================================
