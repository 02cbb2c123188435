----------------------------- MODULE MessageBus -----------------------------
(***************************************************************************)
(* core/message_bus.py: one topic of the bus, a Redis stream with one      *)
(* consumer group.  Each subscription starts a polling task, which reads a *)
(* batch of new entries, calls the handler on each and acknowledges it.    *)
(* The connection can fail, the bus be closed and the process die at any   *)
(* await; nothing ever reads an entry again that was once delivered.       *)
(*                                                                         *)
(* Entries are numbered in the order of their stream ids.                  *)
(***************************************************************************)
EXTENDS Integers, Sequences, FiniteSets, SequencesExt

CONSTANTS
    MaxMessages, MaxSubscriptions, MaxFaults,  \* bounds
    BatchSize,                                 \* batch_size
    MaxLen                                     \* MAXLEN

ASSUME BusAssumption ==
    /\ MaxMessages \in Nat /\ MaxSubscriptions \in Nat /\ MaxFaults \in Nat
    /\ BatchSize \in Nat \ {0} /\ MaxLen \in Nat

VARIABLES
    published,    \* entries added to the stream
    trimmed,      \* how many of the oldest are gone from it
    lastId,       \* the group's last delivered entry
    delivered,    \* the entries ever delivered
    acked,        \* the entries acknowledged
    task,         \* per subscription, its polling task
    batch,        \* per subscription, what it has read and not finished
    consumer,     \* _consumers[topic], 0 for none
    handled,      \* the entries whose handler returned
    failed,       \* the entries whose handler raised
    unacked,      \* xacks that failed
    interrupted   \* reads, closes and crashes that could cost a batch

streamVars == <<published, trimmed, lastId, delivered, acked>>
vars == <<streamVars, task, batch, consumer, handled, failed, unacked, interrupted>>

Messages == 1..MaxMessages
Subscriptions == 1..MaxSubscriptions
Alive == {s \in Subscriptions : task[s] \notin {"none", "ended"}}

Init ==
    /\ published = 0 /\ trimmed = 0 /\ lastId = 0
    /\ delivered = {} /\ acked = {}
    /\ task = [s \in Subscriptions |-> "none"]
    /\ batch = [s \in Subscriptions |-> <<>>]
    /\ consumer = 0
    /\ handled = {} /\ failed = {}
    /\ unacked = 0 /\ interrupted = 0

-----------------------------------------------------------------------------
Larger(a, b) == IF a >= b THEN a ELSE b
Lesser(a, b) == IF a <= b THEN a ELSE b

Fault == unacked + interrupted < MaxFaults

\* XADD MAXLEN ~: what is past the limit may be trimmed now or later.
Publish ==
    /\ published < MaxMessages
    /\ published' = published + 1
    /\ trimmed' \in trimmed..Larger(trimmed, published' - MaxLen)
    /\ UNCHANGED <<lastId, delivered, acked, task, batch, consumer, handled, failed,
                   unacked, interrupted>>

\* The group is made on the first subscription, from the stream's beginning,
\* and found on later ones.  The new task takes the table's entry; the one it
\* replaces goes on.
Subscribe(s) ==
    /\ task[s] = "none" /\ \A r \in 1..(s - 1) : task[r] # "none"
    /\ task' = [task EXCEPT ![s] = "polling"]
    /\ consumer' = s
    /\ UNCHANGED <<streamVars, batch, handled, failed, unacked, interrupted>>

\* Mutant: the group's position is ignored, as with id "0".
NewEntriesMutant ==
    LET first == trimmed + 1
        last == Lesser(published, first + BatchSize - 1) IN
    [k \in 1..(last - first + 1) |-> first + k - 1]

\* What XREADGROUP ">" delivers: the entries after the last delivered one.
NewEntries ==
    LET first == Larger(lastId, trimmed) + 1
        last == Lesser(published, first + BatchSize - 1) IN
    [k \in 1..(last - first + 1) |-> first + k - 1]

\* Mutant: the read waits for a whole batch.
DeliverMutant ==
    /\ Len(NewEntries) = BatchSize
    /\ lastId' = Last(NewEntries)
    /\ delivered' = delivered \union ToSet(NewEntries)
    /\ UNCHANGED <<published, trimmed, acked>>

Deliver ==
    /\ NewEntries # <<>>
    /\ lastId' = Last(NewEntries)
    /\ delivered' = delivered \union ToSet(NewEntries)
    /\ UNCHANGED <<published, trimmed, acked>>

Read(s) ==
    /\ task[s] = "polling"
    /\ Deliver
    /\ batch' = [batch EXCEPT ![s] = NewEntries]
    /\ task' = [task EXCEPT ![s] = "handling"]
    /\ UNCHANGED <<consumer, handled, failed, unacked, interrupted>>

\* The connection fails, before the server has delivered a batch or after.
ReadFails(s) ==
    /\ task[s] = "polling" /\ Fault
    /\ Deliver \/ UNCHANGED streamVars
    /\ task' = [task EXCEPT ![s] = "sleeping"]
    /\ interrupted' = interrupted + 1
    /\ UNCHANGED <<batch, consumer, handled, failed, unacked>>

Wake(s) ==
    /\ task[s] = "sleeping"
    /\ task' = [task EXCEPT ![s] = "polling"]
    /\ UNCHANGED <<streamVars, batch, consumer, handled, failed, unacked, interrupted>>

\* The handler is called and returns at once: nothing awaits what it returns.
Handle(s) ==
    /\ task[s] = "handling"
    /\ handled' = handled \union {Head(batch[s])}
    /\ task' = [task EXCEPT ![s] = "acking"]
    /\ UNCHANGED <<streamVars, batch, consumer, failed, unacked, interrupted>>

\* The task goes on to the next entry of the batch or to the next read.
Proceed(s) ==
    /\ batch' = [batch EXCEPT ![s] = Tail(@)]
    /\ task' = [task EXCEPT ![s] = IF Len(batch[s]) > 1 THEN "handling" ELSE "polling"]

\* Mutant: a failed handler ends the loop over the batch.
HandlerFailsMutant(s) ==
    /\ task[s] = "handling"
    /\ failed' = failed \union {Head(batch[s])}
    /\ batch' = [batch EXCEPT ![s] = <<>>]
    /\ task' = [task EXCEPT ![s] = "polling"]
    /\ UNCHANGED <<streamVars, consumer, handled, unacked, interrupted>>

\* The data cannot be parsed or the handler raises: logged, not acknowledged.
HandlerFails(s) ==
    /\ task[s] = "handling"
    /\ failed' = failed \union {Head(batch[s])}
    /\ Proceed(s)
    /\ UNCHANGED <<streamVars, consumer, handled, unacked, interrupted>>

Ack(s) ==
    /\ task[s] = "acking"
    /\ acked' = acked \union {Head(batch[s])}
    /\ Proceed(s)
    /\ UNCHANGED <<published, trimmed, lastId, delivered, consumer, handled, failed,
                   unacked, interrupted>>

\* An error of xack is caught like one of the handler.
AckFails(s) ==
    /\ task[s] = "acking" /\ Fault
    /\ unacked' = unacked + 1
    /\ Proceed(s)
    /\ UNCHANGED <<streamVars, consumer, handled, failed, interrupted>>

\* Mutant: the tasks' batches are left to them.
EndMutant(S) ==
    /\ Fault
    /\ task' = [s \in Subscriptions |-> IF s \in S THEN "ended" ELSE task[s]]
    /\ consumer' = 0
    /\ interrupted' = interrupted + Cardinality(S)
    /\ UNCHANGED <<streamVars, batch, handled, failed, unacked>>

\* These tasks end where they are.  A reply of Redis that is lost with the task
\* is a Read or an Ack just before.
End(S) ==
    /\ Fault
    /\ task' = [s \in Subscriptions |-> IF s \in S THEN "ended" ELSE task[s]]
    /\ batch' = [s \in Subscriptions |-> IF s \in S THEN <<>> ELSE batch[s]]
    /\ consumer' = 0
    /\ interrupted' = interrupted + Cardinality(S)
    /\ UNCHANGED <<streamVars, handled, failed, unacked>>

\* close() cancels the task in the table, and only that one; a later
\* subscription is made on a new bus.
Close == consumer # 0 /\ End({consumer})

\* The process dies; the stream and the group are Redis's and stay.
Crash == Alive # {} /\ End(Alive)

Next ==
    \/ Publish
    \/ \E s \in Subscriptions :
          \/ Subscribe(s) \/ Read(s) \/ ReadFails(s) \/ Wake(s)
          \/ Handle(s) \/ HandlerFails(s) \/ Ack(s) \/ AckFails(s)
    \/ Close \/ Crash

Spec == Init /\ [][Next]_vars

\* The event loop runs every task whose await has ended, a handler returns or
\* raises, and Redis answers: nothing else is assumed.
FairSpec ==
    /\ Spec
    /\ \A s \in Subscriptions :
        /\ WF_vars(Read(s)) /\ WF_vars(Wake(s))
        /\ WF_vars(Handle(s) \/ HandlerFails(s))
        /\ WF_vars(Ack(s) \/ AckFails(s))

-----------------------------------------------------------------------------
InBatch == UNION {ToSet(batch[s]) : s \in Subscriptions}

\* The entries of a batch whose handler has not been called.
Unhandled(s) == ToSet(IF task[s] = "acking" THEN Tail(batch[s]) ELSE batch[s])
Taken == UNION {Unhandled(s) : s \in Subscriptions}

(* The state has its types, and a task has a batch exactly while it works  *)
(* on one (message_bus.py:76).                                             *)
TypeOK ==
    /\ published \in 0..MaxMessages /\ trimmed \in 0..published /\ lastId \in 0..published
    /\ delivered \subseteq 1..published /\ acked \subseteq handled
    /\ task \in [Subscriptions -> {"none", "polling", "sleeping", "handling", "acking", "ended"}]
    /\ batch \in [Subscriptions -> Seq(Messages)]
    /\ consumer \in {0} \union Alive
    /\ handled \subseteq delivered /\ failed \subseteq delivered
    /\ unacked \in Nat /\ interrupted \in Nat
    /\ \A s \in Subscriptions : batch[s] # <<>> <=> task[s] \in {"handling", "acking"}

(* What is never read again (message_bus.py:76): an entry that Redis keeps *)
(* as pending for ever, in no batch any more, is accounted for by a        *)
(* handler or an xack that failed, or was one of at most a batch that an   *)
(* interruption cost; so is one that was never handled.                    *)
LossBounded ==
    /\ Cardinality((delivered \ acked) \ InBatch)
          <= Cardinality(failed) + unacked + BatchSize * interrupted
    /\ Cardinality((delivered \ handled) \ InBatch)
          <= Cardinality(failed) + BatchSize * interrupted

(* The bus implements the mailbox: messages are taken in order, a handler  *)
(* is called for each at most once however often the topic is subscribed   *)
(* to, the bus closed or the process restarted (message_bus.py:64).        *)
StatusOf(m) ==
    IF m > published THEN "unpublished"
    ELSE IF m \in Taken THEN "taken"
    ELSE IF m \in handled THEN "handled"
    ELSE IF m \in delivered THEN "lost"
    ELSE IF m <= trimmed THEN "trimmed" ELSE "waiting"

Status == [m \in Messages |-> StatusOf(m)]

Abstract == INSTANCE Mailbox WITH status <- Status

ImplementsMailbox == Abstract!Spec

(* While any polling task lives, one replaced in the table included, every *)
(* message comes out of the stream and of its batch (message_bus.py:73).   *)
EventuallySettled ==
    \A m \in Messages :
        (StatusOf(m) \in {"waiting", "taken"} /\ Alive # {})
            ~> (StatusOf(m) \in {"handled", "lost", "trimmed"} \/ Alive = {})
=============================================================================
