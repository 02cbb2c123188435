-------------------------- MODULE ThreatFeedProofs --------------------------
(***************************************************************************)
(* Proofs about ThreatFeed, for any set of connections.                    *)
(***************************************************************************)
EXTENDS ThreatFeed, TLAPS

-----------------------------------------------------------------------------
(* The inductive invariant.                                                *)

\* An event that is set was set by its own client for this task.
PermissionInv == permission \subseteq approved

\* A task is risky only once detection has said so, and only while it lasts.
RiskyInv == \A c \in risky : run[c] \notin {"none", "analysing"}

-----------------------------------------------------------------------------
(* The lock.                                                               *)

\* The holders of the lock have different names.
LEMMA HoldersDiffer ==
    /\ Free # Reaper /\ Free # Background /\ Reaper # Background
    /\ \A c : /\ HandlerOf(c) \notin {Free, Reaper, Background}
              /\ TaskOf(c) \notin {Free, Reaper, Background}
    /\ \A c, d : /\ HandlerOf(c) # TaskOf(d)
                 /\ HandlerOf(c) = HandlerOf(d) => c = d
                 /\ TaskOf(c) = TaskOf(d) => c = d
BY DEF Free, Reaper, Background, HandlerOf, TaskOf

\* Whoever holds the lock is sending.
Held(l, h, r) ==
    \/ l \in {Free, Reaper, Background}
    \/ \E c \in Clients : \/ l = HandlerOf(c) /\ h[c] = "announcing"
                          \/ l = TaskOf(c) /\ r[c] \in Sending

Types ==
    /\ handler \in [Clients -> HandlerStates]
    /\ alive \subseteq Clients /\ registered \subseteq Clients
    /\ permission \subseteq Clients /\ risky \subseteq Clients
    /\ approved \subseteq Clients
    /\ reaper \in BOOLEAN
    /\ run \in [Clients -> Stages]

LEMMA TypeParts == TypeOK <=> Types /\ Held(lock, handler, run)
BY DEF TypeOK, Types, Held

\* The holder stays one that sends when no other handler starts or stops
\* announcing and no other task moves.
LEMMA HeldStays ==
    ASSUME Held(lock, handler, run), NEW c \in Clients,
           \/ lock' = lock
           \/ lock' = Free,
           \A d \in Clients \ {c} : handler'[d] = handler[d] /\ run'[d] = run[d],
           lock' = HandlerOf(c) => handler'[c] = "announcing",
           lock' = TaskOf(c) => run'[c] \in Sending
    PROVE  Held(lock', handler', run')
<1>1. CASE lock' = Free
  BY <1>1 DEF Held
<1>2. CASE lock' = lock /\ lock \in {Free, Reaper, Background}
  BY <1>2 DEF Held
<1>3. CASE lock' = lock /\ lock \notin {Free, Reaper, Background}
  <2>1. PICK d \in Clients : \/ lock = HandlerOf(d) /\ handler[d] = "announcing"
                             \/ lock = TaskOf(d) /\ run[d] \in Sending
    BY <1>3 DEF Held
  <2>2. CASE d = c
    BY <1>3, <2>1, <2>2 DEF Held
  <2>3. CASE d # c
    BY <1>3, <2>1, <2>3 DEF Held
  <2> QED
    BY <2>2, <2>3
<1> QED
  BY <1>1, <1>2, <1>3

-----------------------------------------------------------------------------
(* The types.                                                              *)

LEMMA ForgetForgets ==
    ASSUME Forget PROVE registered' \subseteq registered
BY DEF Forget

LEMMA ConnectionTypes ==
    ASSUME TypeOK, NEW c \in Clients, Connect(c) \/ Commands(c) \/ Drop(c) PROVE TypeOK'
<1>1. Types /\ Held(lock, handler, run)
  BY TypeParts
<1>2. Types'
  BY <1>1 DEF Types, Connect, Commands, StartSimulation, ApproveAction, StopSimulation, Drop,
              HandlerStates, Stages, Sending
<1>3. CASE Connect(c) \/ Drop(c)
  <2>1. /\ lock' = lock /\ run' = run /\ (lock # Free => handler' = handler)
    BY <1>3 DEF Connect, Drop
  <2>2. Held(lock', handler', run')
    BY <1>1, <2>1 DEF Held
  <2> QED
    BY <1>2, <2>2 DEF Types, Held, TypeOK
<1>4. CASE Commands(c)
  <2>1. /\ handler \in [Clients -> HandlerStates] /\ run \in [Clients -> Stages]
        /\ handler[c] = "receiving"
    BY <1>1, <1>4 DEF Types, Commands, StartSimulation, ApproveAction, StopSimulation
  <2>2. /\ lock' = lock \/ lock' = Free
        /\ \A d \in Clients \ {c} : handler'[d] = handler[d] /\ run'[d] = run[d]
    BY <1>4, <2>1 DEF Commands, StartSimulation, ApproveAction, StopSimulation, Cancel
  <2>3. lock' = HandlerOf(c) => handler'[c] = "announcing"
    <3>1. lock # HandlerOf(c)
      BY <1>1, <2>1, HoldersDiffer DEF Held
    <3> QED
      BY <3>1, <2>2, HoldersDiffer
  <2>4. lock' = TaskOf(c) => run'[c] \in Sending
    <3>1. CASE ApproveAction(c)
      <4>1. lock' = lock /\ run' = run
        BY <3>1 DEF ApproveAction
      <4> QED
        BY <4>1, <1>1, HoldersDiffer DEF Held
    <3>2. CASE StartSimulation(c) \/ StopSimulation(c)
      BY <3>2, HoldersDiffer DEF StartSimulation, StopSimulation, Cancel
    <3> QED
      BY <3>1, <3>2, <1>4 DEF Commands
  <2>5. Held(lock', handler', run')
    BY <1>1, <2>2, <2>3, <2>4, HeldStays
  <2> QED
    BY <1>2, <2>5 DEF Types, Held, TypeOK
<1> QED
  BY <1>3, <1>4

LEMMA HandlerTypes ==
    ASSUME TypeOK, NEW c \in Clients, HandlerStep(c) PROVE TypeOK'
<1>1. Types /\ Held(lock, handler, run)
  BY TypeParts
<1>2. /\ handler \in [Clients -> HandlerStates] /\ run \in [Clients -> Stages]
      /\ registered \subseteq Clients
  BY <1>1 DEF Types
<1>3. registered' \subseteq registered
  BY ForgetForgets
     DEF HandlerStep, Announce, Announced, Disconnected, HandlerFails, Leave
<1>4. Types'
  <2>1. handler' \in [Clients -> HandlerStates] /\ run' \in [Clients -> Stages]
    BY <1>2 DEF HandlerStep, Announce, Announced, Disconnected, HandlerFails, Leave,
                HandlerStates, Stages
  <2> QED
    BY <1>1, <1>2, <1>3, <2>1
       DEF Types, HandlerStep, Announce, Announced, Disconnected, HandlerFails, Leave
<1>5. CASE Announce(c)
  BY <1>5 DEF TypeOK, Announce, Acquire
<1>6. CASE Announced(c)
  <2>1. lock' = Free
    BY <1>6 DEF Announced, Release
  <2> QED
    BY <1>4, <2>1 DEF Types, TypeOK
<1>7. CASE Disconnected(c) \/ HandlerFails(c) \/ Leave(c)
  <2>1. /\ handler[c] \in {"receiving", "leaving"} /\ (lock' = lock \/ lock' = Free)
        /\ \A d \in Clients \ {c} : handler'[d] = handler[d] /\ run'[d] = run[d]
        /\ run' = run \/ lock' = Free
    BY <1>2, <1>7 DEF Disconnected, HandlerFails, Leave, Cancel
  <2>2. lock' # HandlerOf(c)
    BY <1>1, <2>1, HoldersDiffer DEF Held
  <2>3. lock' = TaskOf(c) => run'[c] \in Sending
    BY <1>1, <2>1, HoldersDiffer DEF Held
  <2>4. Held(lock', handler', run')
    BY <1>1, <2>1, <2>2, <2>3, HeldStays
  <2> QED
    BY <1>4, <2>4 DEF Types, Held, TypeOK
<1> QED
  BY <1>5, <1>6, <1>7 DEF HandlerStep

LEMMA TaskTypes ==
    ASSUME TypeOK, NEW c \in Clients, TaskStep(c) \/ TaskFails(c) PROVE TypeOK'
<1>1. Types /\ Held(lock, handler, run)
  BY TypeParts
<1>2. run \in [Clients -> Stages] /\ registered \subseteq Clients /\ risky \subseteq Clients
  BY <1>1 DEF Types
<1>3. CASE TaskSends(c)
  BY <1>3 DEF TypeOK, TaskSends, Acquire
<1>4. CASE TaskSent(c)
  <2>1. PICK stage \in AfterBroadcast(c) :
          /\ run' = [run EXCEPT ![c] = stage]
          /\ risky' = IF stage = "proposing" THEN risky \union {c} ELSE risky
    BY <1>4 DEF TaskSent
  <2>2. lock = TaskOf(c) /\ lock' = Free /\ registered' \subseteq registered
    BY <1>4, ForgetForgets DEF TaskSent, Release
  <2>3. run[c] \in Sending
    BY <1>1, <2>2, HoldersDiffer DEF Held
  <2>4. stage \in Stages
    BY <2>1, <2>3 DEF AfterBroadcast, Sending, Stages
  <2>5. run' \in [Clients -> Stages] /\ risky' \subseteq Clients
    BY <1>2, <2>1, <2>4
  <2> QED
    BY <1>4, <2>2, <2>5, <1>2 DEF TypeOK, TaskSent
<1>5. CASE Authorized(c) \/ TaskFails(c)
  <2>1. /\ lock' = lock /\ handler' = handler
        /\ \A d \in Clients \ {c} : run'[d] = run[d]
        /\ run'[c] \in Sending \/ lock # TaskOf(c)
    BY <1>2, <1>5 DEF Authorized, TaskFails, Sending
  <2>2. lock = HandlerOf(c) => handler[c] = "announcing"
    BY <1>1, HoldersDiffer DEF Held
  <2>3. Held(lock', handler', run')
    BY <1>1, <2>1, <2>2, HeldStays
  <2>4. Types'
    BY <1>1, <1>5 DEF Types, Authorized, TaskFails, Stages, Sending
  <2> QED
    BY <2>3, <2>4 DEF Types, Held, TypeOK
<1> QED
  BY <1>3, <1>4, <1>5 DEF TaskStep

LEMMA TypeStep == TypeOK /\ [Next]_vars => TypeOK'
<1> SUFFICES ASSUME TypeOK, [Next]_vars PROVE TypeOK'
  OBVIOUS
<1>1. CASE ReaperPings
  BY <1>1 DEF TypeOK, ReaperPings, Acquire
<1>2. CASE ReaperDone
  <2>1. registered' \subseteq registered /\ lock' = Free
    BY <1>2, ForgetForgets DEF ReaperDone, Release
  <2> QED
    BY <1>2, <2>1 DEF TypeOK, ReaperDone
<1>3. CASE UNCHANGED vars
  BY <1>3 DEF TypeOK, vars
<1>4. CASE BackgroundSends
  BY <1>4 DEF TypeOK, BackgroundSends, Acquire
<1>5. CASE BackgroundSent
  <2>1. registered' \subseteq registered /\ lock' = Free
    BY <1>5, ForgetForgets DEF BackgroundSent, Release
  <2> QED
    BY <1>5, <2>1 DEF TypeOK, BackgroundSent
<1> QED
  BY <1>1, <1>2, <1>3, <1>4, <1>5, ConnectionTypes, HandlerTypes, TaskTypes
     DEF Next, ReaperStep, BackgroundStep

\* Every variable keeps its type, and the lock is held by nobody, by the
\* reaper or the background task, or by a handler or a task that is sending: no cancellation and no
\* failure leaves it with someone who will not give it back.
THEOREM TypeCorrect == Spec => []TypeOK
<1>1. Init => TypeOK
  BY DEF Init, TypeOK, HandlerStates, Stages
<1> QED
  BY <1>1, TypeStep, PTL DEF Spec

-----------------------------------------------------------------------------
(* The reaper.                                                             *)

LEMMA ReaperStays == TypeOK /\ ReaperAlive /\ [Next]_vars => ReaperAlive'
<1> SUFFICES ASSUME TypeOK, ReaperAlive, [Next]_vars PROVE ReaperAlive'
  OBVIOUS
<1>1. CASE ReaperDone
  BY <1>1 DEF ReaperDone, ReaperAlive
<1>2. ASSUME NEW c \in Clients, Connect(c) PROVE ReaperAlive'
  BY <1>2 DEF Connect, ReaperAlive
<1>3. ASSUME reaper' = reaper, registered' \subseteq registered PROVE ReaperAlive'
  BY <1>3 DEF ReaperAlive
<1>4. ASSUME NEW c \in Clients, Commands(c) \/ HandlerStep(c) PROVE ReaperAlive'
  <2>1. reaper' = reaper /\ registered' \subseteq registered
    BY <1>4, ForgetForgets
       DEF Commands, StartSimulation, ApproveAction, StopSimulation,
           HandlerStep, Announce, Announced, Disconnected, HandlerFails, Leave
  <2> QED
    BY <2>1, <1>3
<1>5. ASSUME NEW c \in Clients, TaskStep(c) \/ TaskFails(c) \/ Drop(c) PROVE ReaperAlive'
  <2>1. reaper' = reaper /\ registered' \subseteq registered
    BY <1>5, ForgetForgets DEF TaskStep, TaskSends, TaskSent, Authorized, TaskFails, Drop
  <2> QED
    BY <2>1, <1>3
<1>6. CASE ReaperPings \/ BackgroundSends \/ UNCHANGED vars
  BY <1>6, <1>3 DEF ReaperPings, BackgroundSends, vars
<1>7. CASE BackgroundSent
  <2>1. reaper' = reaper /\ registered' \subseteq registered
    BY <1>7, ForgetForgets DEF BackgroundSent
  <2> QED
    BY <2>1, <1>3
<1> QED
  BY <1>1, <1>2, <1>4, <1>5, <1>6, <1>7 DEF Next, ReaperStep, BackgroundStep

\* While a connection is registered there is a reaper: one that ends with the
\* last connection never overlooks a connection made meanwhile.
THEOREM ReaperStaysAlive == Spec => []ReaperAlive
<1>1. Init => TypeOK /\ ReaperAlive
  BY DEF Init, TypeOK, HandlerStates, Stages, ReaperAlive
<1> QED
  BY <1>1, TypeStep, ReaperStays, PTL DEF Spec

-----------------------------------------------------------------------------
(* The approval.                                                           *)

ApprovalInv == PermissionInv /\ RiskyInv /\ ApprovedByOwner

\* A step that moves at most c's task and approval.
LEMMA ApprovalMoves ==
    ASSUME ApprovalInv, NEW c \in Clients,
           permission' \subseteq permission \union {c}, approved \subseteq approved' \union {c},
           risky' \subseteq risky \union {c}, \A d \in Clients \ {c} : run'[d] = run[d],
           risky \subseteq Clients, c \in permission' => c \in approved',
           c \in risky' =>
              /\ run'[c] \notin {"none", "analysing"}
              /\ run'[c] \in {"acting", "executed", "done"} => c \in approved'
    PROVE  ApprovalInv'
BY DEF ApprovalInv, PermissionInv, RiskyInv, ApprovedByOwner

LEMMA ApprovalStep == TypeOK /\ ApprovalInv /\ [Next]_vars => ApprovalInv'
<1> SUFFICES ASSUME TypeOK, ApprovalInv, [Next]_vars PROVE ApprovalInv'
  OBVIOUS
<1>1. run \in [Clients -> Stages] /\ risky \subseteq Clients
  BY DEF TypeOK
<1>2. ASSUME permission' = permission, approved' = approved, risky' = risky, run' = run
      PROVE  ApprovalInv'
  BY <1>2 DEF ApprovalInv, PermissionInv, RiskyInv, ApprovedByOwner
<1>3. ASSUME NEW c \in Clients, StartSimulation(c) \/ StopSimulation(c) \/ Leave(c) \/ TaskFails(c)
      PROVE  ApprovalInv'
  <2>1. /\ permission' \subseteq permission \union {c} /\ approved \subseteq approved' \union {c}
        /\ risky' = risky \ {c} /\ \A d \in Clients \ {c} : run'[d] = run[d]
    BY <1>1, <1>3 DEF StartSimulation, StopSimulation, Leave, TaskFails
  <2>2. c \in permission' => c \in approved'
    BY <1>3 DEF StartSimulation, StopSimulation, Leave, TaskFails, ApprovalInv, PermissionInv
  <2> QED
    BY <2>1, <2>2, <1>1, ApprovalMoves
<1>4. ASSUME NEW c \in Clients, ApproveAction(c) PROVE ApprovalInv'
  BY <1>1, <1>4, ApprovalMoves DEF ApproveAction, ApprovalInv, RiskyInv
<1>5. ASSUME NEW c \in Clients, TaskSent(c) PROVE ApprovalInv'
  <2>1. PICK stage \in AfterBroadcast(c) :
          /\ run' = [run EXCEPT ![c] = stage]
          /\ risky' = IF stage = "proposing" THEN risky \union {c} ELSE risky
    BY <1>5 DEF TaskSent
  <2>2. permission' = permission /\ approved' = approved /\ lock = TaskOf(c)
    BY <1>5 DEF TaskSent, Release
  <2>3. run[c] \in Sending
    BY <2>2, TypeParts, HoldersDiffer DEF Held
  <2>4. \/ stage = "proposing"
        \/ run[c] = "analysing" /\ stage = "acting"
        \/ run[c] = "proposing" /\ stage = "waiting"
        \/ run[c] = "acting" /\ stage = "executed"
        \/ run[c] = "executed" /\ stage = "done"
    BY <2>1, <2>3 DEF AfterBroadcast, Sending
  <2>5. run'[c] = stage /\ \A d \in Clients \ {c} : run'[d] = run[d]
    BY <1>1, <2>1
  <2>6. c \in risky' => /\ stage \notin {"none", "analysing"}
                        /\ stage \in {"acting", "executed", "done"} => c \in approved
    BY <2>1, <2>4 DEF ApprovalInv, RiskyInv, ApprovedByOwner
  <2>7. c \in permission' => c \in approved'
    BY <2>2 DEF ApprovalInv, PermissionInv
  <2> QED
    BY <2>1, <2>2, <2>5, <2>6, <2>7, <1>1, ApprovalMoves
<1>6. ASSUME NEW c \in Clients, Authorized(c) PROVE ApprovalInv'
  <2>1. c \in permission /\ c \in approved
    BY <1>6 DEF Authorized, ApprovalSeen, ApprovalInv, PermissionInv
  <2>2. /\ run'[c] = "acting" /\ \A d \in Clients \ {c} : run'[d] = run[d]
        /\ permission' = permission /\ approved' = approved /\ risky' = risky
    BY <1>1, <1>6 DEF Authorized
  <2> QED
    BY <2>1, <2>2, <1>1, ApprovalMoves
<1>7. ASSUME NEW c \in Clients,
             \/ Connect(c) \/ Announce(c) \/ Announced(c) \/ Disconnected(c) \/ HandlerFails(c)
             \/ TaskSends(c) \/ Drop(c)
      PROVE  ApprovalInv'
  BY <1>2, <1>7 DEF Connect, Announce, Announced, Disconnected, HandlerFails, TaskSends, Drop
<1>8. CASE ReaperStep \/ BackgroundStep \/ UNCHANGED vars
  BY <1>2, <1>8
     DEF ReaperStep, ReaperPings, ReaperDone, BackgroundStep, BackgroundSends, BackgroundSent, vars
<1> QED
  BY <1>3, <1>4, <1>5, <1>6, <1>7, <1>8 DEF Next, Commands, HandlerStep, TaskStep

\* A task whose score is above the threshold acts only on an approval its own
\* client has sent since the task was started.
THEOREM ApprovalOwned == Spec => []ApprovedByOwner
<1>1. Init => TypeOK /\ ApprovalInv
  BY DEF Init, TypeOK, HandlerStates, Stages, ApprovalInv, PermissionInv, RiskyInv,
         ApprovedByOwner
<1>2. ApprovalInv => ApprovedByOwner
  BY DEF ApprovalInv
<1> QED
  BY <1>1, <1>2, TypeStep, ApprovalStep, PTL DEF Spec
=============================================================================
