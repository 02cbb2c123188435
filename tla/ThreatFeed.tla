----------------------------- MODULE ThreatFeed -----------------------------
(***************************************************************************)
(* api/app.py: the WebSocket threat feed.  Each connection has a handler   *)
(* that reads commands, an approval event, and at most one simulation      *)
(* task; all share the ConnectionManager, whose lock is held while a       *)
(* message is sent to every connection, its reaper task, and the           *)
(* background task that broadcasts as long as the application runs.        *)
(*                                                                         *)
(* Everything between two awaits is one step.  Taking a free lock does not *)
(* wait, so the methods that hold it without sending are one step too.     *)
(* Consecutive status messages of a task are one broadcast.                *)
(***************************************************************************)
EXTENDS Integers, FiniteSets

CONSTANT Clients   \* the connections; a client that reconnects is a new one

VARIABLES
    handler,      \* what each connection's handler is doing
    alive,        \* the clients that can still be reached
    registered,   \* ConnectionManager._connections
    reaper,       \* whether the reaper task exists
    lock,         \* who holds ConnectionManager._lock
    permission,   \* the connections whose permission_event is set
    run,          \* how far each connection's current task has come
    risky,        \* the tasks whose score is above the approval threshold
    approved      \* the tasks whose client sent APPROVE_ACTION

vars == <<handler, alive, registered, reaper, lock, permission, run, risky,
          approved>>

HandlerStates == {"new", "receiving", "announcing", "leaving", "left", "failed"}
Sending == {"analysing", "proposing", "acting", "executed"}
Stages == Sending \union {"none", "waiting", "done"}
Stopped == {"none", "done"}

Free == <<"free">>
Reaper == <<"reaper">>
Background == <<"background">>
HandlerOf(c) == <<"handler", c>>
TaskOf(c) == <<"task", c>>

Init ==
    /\ handler = [c \in Clients |-> "new"]
    /\ alive = Clients
    /\ registered = {}
    /\ reaper = FALSE
    /\ lock = Free
    /\ permission = {}
    /\ run = [c \in Clients |-> "none"]
    /\ risky = {}
    /\ approved = {}

-----------------------------------------------------------------------------
(* The connection manager.                                                 *)

\* A broadcast ends when every send has succeeded or failed, and forgets the
\* connections whose send failed; one to a client that is gone need not fail.
Forget == \E lost \in SUBSET (registered \ alive) : registered' = registered \ lost

Acquire(who) == lock = Free /\ lock' = who

Release(who) == lock = who /\ lock' = Free

\* Mutant: the reaper is started for the first connection ever only.
ConnectMutant(c) ==
    /\ handler[c] = "new" /\ lock = Free
    /\ registered' = registered \union {c}
    /\ reaper' = (reaper \/ \A d \in Clients : handler[d] = "new")
    /\ handler' = [handler EXCEPT ![c] = "receiving"]
    /\ UNCHANGED <<alive, lock, permission, run, risky, approved>>

Connect(c) ==
    /\ handler[c] = "new" /\ lock = Free
    /\ registered' = registered \union {c}
    /\ reaper' = TRUE
    /\ handler' = [handler EXCEPT ![c] = "receiving"]
    /\ UNCHANGED <<alive, lock, permission, run, risky, approved>>

ReaperPings ==
    /\ reaper
    /\ Acquire(Reaper)
    /\ UNCHANGED <<handler, alive, registered, reaper, permission, run, risky, approved>>

\* The reaper ends with the last connection.
ReaperDone ==
    /\ Release(Reaper)
    /\ Forget
    /\ reaper' = (registered' # {})
    /\ UNCHANGED <<handler, alive, permission, run, risky, approved>>

-----------------------------------------------------------------------------
(* The background task, which the application starts with itself.          *)

BackgroundSends ==
    /\ Acquire(Background)
    /\ UNCHANGED <<handler, alive, registered, reaper, permission, run, risky, approved>>

\* It broadcasts again after a sleep, whoever is connected.
BackgroundSent ==
    /\ Release(Background)
    /\ Forget
    /\ UNCHANGED <<handler, alive, reaper, permission, run, risky, approved>>

-----------------------------------------------------------------------------
(* The connection's handler.                                               *)

\* Mutant: a cancelled task keeps the lock.
CancelMutant(c) == lock' = lock

\* A cancelled task gives the lock back.
Cancel(c) == lock' = IF lock = TaskOf(c) THEN Free ELSE lock

\* Mutant: the approval of an earlier task is not cleared.
StartSimulationMutant(c) ==
    /\ handler[c] = "receiving" /\ c \in alive
    /\ Cancel(c)
    /\ run' = [run EXCEPT ![c] = "analysing"]
    /\ approved' = approved \ {c}
    /\ risky' = risky \ {c}
    /\ UNCHANGED <<handler, alive, registered, reaper, permission>>

StartSimulation(c) ==
    /\ handler[c] = "receiving" /\ c \in alive
    /\ Cancel(c)
    /\ run' = [run EXCEPT ![c] = "analysing"]
    /\ permission' = permission \ {c}
    /\ approved' = approved \ {c}
    /\ risky' = risky \ {c}
    /\ UNCHANGED <<handler, alive, registered, reaper>>

ApproveAction(c) ==
    /\ handler[c] = "receiving" /\ c \in alive
    /\ permission' = permission \union {c}
    /\ approved' = approved \union {c}
    /\ handler' = [handler EXCEPT ![c] = "announcing"]
    /\ UNCHANGED <<alive, registered, reaper, lock, run, risky>>

StopSimulation(c) ==
    /\ handler[c] = "receiving" /\ c \in alive
    /\ Cancel(c)
    /\ run' = [run EXCEPT ![c] = "none"]
    /\ risky' = risky \ {c}
    /\ handler' = [handler EXCEPT ![c] = "announcing"]
    /\ UNCHANGED <<alive, registered, reaper, permission, approved>>

Announce(c) ==
    /\ handler[c] = "announcing"
    /\ Acquire(HandlerOf(c))
    /\ UNCHANGED <<handler, alive, registered, reaper, permission, run, risky, approved>>

Announced(c) ==
    /\ Release(HandlerOf(c))
    /\ Forget
    /\ handler' = [handler EXCEPT ![c] = "receiving"]
    /\ UNCHANGED <<alive, reaper, permission, run, risky, approved>>

\* Mutant: the handler of a client that left just returns.
DisconnectedMutant(c) ==
    /\ handler[c] = "receiving" /\ c \notin alive
    /\ handler' = [handler EXCEPT ![c] = "left"]
    /\ UNCHANGED <<alive, registered, reaper, lock, permission, run, risky, approved>>

\* receive_text raises WebSocketDisconnect.
Disconnected(c) ==
    /\ handler[c] = "receiving" /\ c \notin alive
    /\ handler' = [handler EXCEPT ![c] = "leaving"]
    /\ UNCHANGED <<alive, registered, reaper, lock, permission, run, risky, approved>>

\* A failed send has closed the socket already, so receive_text raises
\* another exception, which the handler does not catch.
HandlerFails(c) ==
    /\ handler[c] = "receiving" /\ c \notin alive /\ c \notin registered
    /\ handler' = [handler EXCEPT ![c] = "failed"]
    /\ UNCHANGED <<alive, registered, reaper, lock, permission, run, risky, approved>>

\* Mutant: the task of a client that left is not cancelled.
LeaveMutant(c) ==
    /\ handler[c] = "leaving" /\ lock = Free
    /\ registered' = registered \ {c}
    /\ handler' = [handler EXCEPT ![c] = "left"]
    /\ UNCHANGED <<alive, reaper, lock, permission, run, risky, approved>>

\* The task is cancelled only when the lock was free to unregister; its
\* permission_event goes with the handler.
Leave(c) ==
    /\ handler[c] = "leaving" /\ lock = Free
    /\ registered' = registered \ {c}
    /\ run' = [run EXCEPT ![c] = "none"]
    /\ Cancel(c)
    /\ risky' = risky \ {c}
    /\ permission' = permission \ {c}
    /\ approved' = approved \ {c}
    /\ handler' = [handler EXCEPT ![c] = "left"]
    /\ UNCHANGED <<alive, reaper>>

-----------------------------------------------------------------------------
(* The simulation task.                                                    *)

TaskSends(c) ==
    /\ run[c] \in Sending
    /\ Acquire(TaskOf(c))
    /\ UNCHANGED <<handler, alive, registered, reaper, permission, run, risky, approved>>

\* Detection's score decides whether the action is proposed or just done;
\* "executed" is the action_executed entry in the audit trail.
AfterBroadcast(c) ==
    CASE run[c] = "analysing" -> {"proposing", "acting"}
      [] run[c] = "proposing" -> {"waiting"}
      [] run[c] = "acting"    -> {"executed"}
      [] run[c] = "executed"  -> {"done"}

TaskSent(c) ==
    /\ Release(TaskOf(c))
    /\ Forget
    /\ \E stage \in AfterBroadcast(c) :
          /\ run' = [run EXCEPT ![c] = stage]
          /\ risky' = IF stage = "proposing" THEN risky \union {c} ELSE risky
    /\ UNCHANGED <<handler, alive, reaper, permission, approved>>

\* Mutant: the event must be set anew while the task waits.
ApprovalSeenMutant(c) == c \in permission /\ handler[c] = "announcing"

ApprovalSeen(c) == c \in permission

Authorized(c) ==
    /\ run[c] = "waiting" /\ ApprovalSeen(c)
    /\ run' = [run EXCEPT ![c] = "acting"]
    /\ UNCHANGED <<handler, alive, registered, reaper, lock, permission, risky, approved>>

\* A task ends early when its analysis, an audit entry or a notification raises.
TaskFails(c) ==
    /\ run[c] \in Sending /\ lock # TaskOf(c)
    /\ run' = [run EXCEPT ![c] = "none"]
    /\ risky' = risky \ {c}
    /\ UNCHANGED <<handler, alive, registered, reaper, lock, permission, approved>>

\* The environment: a client goes away.
Drop(c) ==
    /\ c \in alive /\ handler[c] # "new"
    /\ alive' = alive \ {c}
    /\ UNCHANGED <<handler, registered, reaper, lock, permission, run, risky, approved>>

Commands(c) == StartSimulation(c) \/ ApproveAction(c) \/ StopSimulation(c)

HandlerStep(c) ==
    \/ Announce(c) \/ Announced(c) \/ Disconnected(c) \/ HandlerFails(c) \/ Leave(c)

TaskStep(c) == TaskSends(c) \/ TaskSent(c) \/ Authorized(c)

ReaperStep == ReaperPings \/ ReaperDone

BackgroundStep == BackgroundSends \/ BackgroundSent

Next ==
    \/ \E c \in Clients :
          Connect(c) \/ Commands(c) \/ HandlerStep(c) \/ TaskStep(c) \/ TaskFails(c) \/ Drop(c)
    \/ ReaperStep
    \/ BackgroundStep

Spec == Init /\ [][Next]_vars

\* The event loop runs every handler and every task that is ready, every send
\* ends, and the lock is first come, first served, so whoever waits for
\* it gets it.
FairSpec ==
    /\ Spec
    /\ SF_vars(ReaperStep) /\ WF_vars(BackgroundSent)
    /\ \A c \in Clients : SF_vars(HandlerStep(c)) /\ SF_vars(TaskStep(c))

-----------------------------------------------------------------------------
(* Properties.                                                             *)

\* Every variable has its type, and whoever holds the lock is sending.
TypeOK ==
    /\ handler \in [Clients -> HandlerStates]
    /\ alive \subseteq Clients /\ registered \subseteq Clients
    /\ permission \subseteq Clients /\ risky \subseteq Clients
    /\ approved \subseteq Clients
    /\ reaper \in BOOLEAN
    /\ run \in [Clients -> Stages]
    /\ \/ lock \in {Free, Reaper, Background}
       \/ \E c \in Clients : \/ lock = HandlerOf(c) /\ handler[c] = "announcing"
                             \/ lock = TaskOf(c) /\ run[c] \in Sending

\* A task whose score is above the threshold acts only once its own client
\* has sent APPROVE_ACTION since the task was started: no approval is taken
\* from another client or left over from a task that was stopped or replaced.
ApprovedByOwner ==
    \A c \in risky : run[c] \in {"acting", "executed", "done"} => c \in approved

\* While a connection is registered the reaper exists: the reaper that ends
\* with the last connection never misses one being made.
ReaperAlive == registered # {} => reaper

\* A client that went away is unregistered, by its handler or by a failed send,
\* a ping and a background message among them.
DeadUnregistered == \A c \in Clients : c \notin alive ~> c \notin registered

\* The task of a client that went away stops or comes to its end, unless the
\* handler died of an exception it does not catch.
LeaverStops ==
    \A c \in Clients :
        c \notin alive ~> (run[c] \in Stopped \/ handler[c] = "failed")

\* A task that waits for an approval already given acts or is cancelled.
ApprovedProceeds ==
    \A c \in Clients :
        (run[c] = "waiting" /\ c \in permission)
            ~> (run[c] \in {"executed", "none", "analysing"})

-----------------------------------------------------------------------------
\* README.md:11 has no destructive action execute without explicit human
\* authorization.
ActionAuthorized == \A c \in Clients : run[c] \in {"executed", "done"} => c \in approved
=============================================================================
