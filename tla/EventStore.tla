----------------------------- MODULE EventStore -----------------------------
(***************************************************************************)
(* core/event_store.py, class EventStore: the hash-chained event file that *)
(* the API's simulation tasks append to.  append_event signs an event with *)
(* the last hash before it asks for the lock, writes it on an executor     *)
(* thread while it holds the lock, and then remembers its hash.  A task    *)
(* can be cancelled at either wait, a write can break off inside a line,   *)
(* and a process can die.                                                  *)
(*                                                                         *)
(* The Makefile starts the API with several worker processes: each has a   *)
(* store of its own, with its own lock and its own last hash, and all of   *)
(* them write the same file.  An event's number stands for its hash; 0 is  *)
(* the empty hash.                                                         *)
(***************************************************************************)
EXTENDS Integers, Sequences, FiniteSets, SequencesExt

CONSTANTS
    Workers,      \* the worker processes
    Writers,      \* the tasks, each with one append at a time
    WorkerOf,     \* the worker process each task runs in
    MaxEvents,    \* bound on the events signed
    MaxRestarts,  \* bound on the crashes
    MaxTears      \* bound on the writes that break off

ASSUME WorkersAssumption == WorkerOf \in [Writers -> Workers]
ASSUME BoundsAssumption == MaxEvents \in Nat /\ MaxRestarts \in Nat /\ MaxTears \in Nat

VARIABLES
    file,         \* the lines stored, each by the event it ends with
    torn,         \* the file ends in a piece of a line
    spoilt,       \* events whose line begins with such a piece
    chainHash,    \* _chain_hash of each worker
    pc,           \* where each task is in append_event
    event,        \* the event each task has signed
    queue,        \* each worker's lock: its holder, then the tasks that wait
    orphans,      \* events whose task was cancelled while a thread writes them
    signed,       \* events signed so far
    stored,       \* events whose append_event has returned
    overlapped,   \* events signed while the same worker appended another
    cancelled,    \* events whose append was cancelled
    restarts,
    tears

fileVars == <<file, torn, spoilt, tears>>
vars == <<fileVars, chainHash, pc, event, queue, orphans, signed, stored,
          overlapped, cancelled, restarts>>

Events == [id: 1..MaxEvents, prev: 0..MaxEvents, by: Workers]
NoEvent == [id |-> 0, prev |-> 0]

Init ==
    /\ file = <<>> /\ torn = FALSE /\ spoilt = {} /\ tears = 0
    /\ chainHash = [a \in Workers |-> 0]
    /\ pc = [w \in Writers |-> "idle"]
    /\ event = [w \in Writers |-> NoEvent]
    /\ queue = [a \in Workers |-> <<>>]
    /\ orphans = {}
    /\ signed = 0
    /\ stored = {}
    /\ overlapped = {}
    /\ cancelled = {}
    /\ restarts = 0

-----------------------------------------------------------------------------
\* The hash that a reader knows after the lines f.
HashAfter(f) == IF f = <<>> \/ f[Len(f)].id \in spoilt THEN 0 ELSE f[Len(f)].id

\* A file that is empty, or whose last line does not parse, gives the empty hash.
LoadLastHash == IF torn THEN 0 ELSE HashAfter(file)

\* Worker a has an append under way.
Appending(a) == queue[a] # <<>> \/ \E e \in orphans : e.by = a

\* What every form of signing does.
Signed(w) ==
    /\ pc[w] = "idle" /\ signed < MaxEvents
    /\ signed' = signed + 1
    /\ event' = [event EXCEPT ![w] = [id |-> signed', prev |-> chainHash[WorkerOf[w]],
                                      by |-> WorkerOf[w]]]
    /\ queue' = [queue EXCEPT ![WorkerOf[w]] = Append(@, w)]
    /\ overlapped' = overlapped \union (IF Appending(WorkerOf[w]) THEN {signed'} ELSE {})
    /\ UNCHANGED <<fileVars, orphans, stored, cancelled, restarts>>

\* Mutant: the lock is not taken.
SignMutant(w) ==
    /\ Signed(w)
    /\ pc' = [pc EXCEPT ![w] = "writing"]
    /\ UNCHANGED chainHash

\* Mutant: the hash is remembered when the event is signed.
SignEarlyMutant(w) ==
    /\ Signed(w)
    /\ pc' = [pc EXCEPT ![w] = IF queue[WorkerOf[w]] = <<>> THEN "writing" ELSE "waiting"]
    /\ chainHash' = [chainHash EXCEPT ![WorkerOf[w]] = signed']

\* The event is signed with the hash its worker knows now; taking a free lock
\* does not wait, and a held one is first come, first served.
Sign(w) ==
    /\ Signed(w)
    /\ pc' = [pc EXCEPT ![w] = IF queue[WorkerOf[w]] = <<>> THEN "writing" ELSE "waiting"]
    /\ UNCHANGED chainHash

\* _append_to_file: a whole line, behind the piece that a torn write has left.
WriteLine(e) ==
    /\ file' = Append(file, e)
    /\ torn' = FALSE
    /\ spoilt' = IF torn THEN spoilt \union {e.id} ELSE spoilt
    /\ UNCHANGED tears

\* The write breaks off inside the line (a full disk, a killed process).
TearLine ==
    /\ tears < MaxTears
    /\ tears' = tears + 1
    /\ torn' = TRUE
    /\ UNCHANGED <<file, spoilt>>

\* The executor thread.
Write(w) ==
    /\ pc[w] = "writing"
    /\ WriteLine(event[w])
    /\ pc' = [pc EXCEPT ![w] = "written"]
    /\ UNCHANGED <<chainHash, event, queue, orphans, signed, stored, overlapped, cancelled, restarts>>

\* Mutant: the lock is kept.
ReleaseMutant(w) ==
    /\ queue' = queue
    /\ pc' = [pc EXCEPT ![w] = "idle"]
    /\ event' = [event EXCEPT ![w] = NoEvent]

\* w no longer holds the lock or waits for it; the first one left holds it.
Release(w) ==
    /\ \E k \in DOMAIN queue[WorkerOf[w]] :
          /\ queue[WorkerOf[w]][k] = w
          /\ queue' = [queue EXCEPT ![WorkerOf[w]] = RemoveAt(@, k)]
    /\ pc' = [x \in Writers |->
                 IF x = w THEN "idle"
                 ELSE IF queue'[WorkerOf[x]] # <<>> /\ x = Head(queue'[WorkerOf[x]])
                         /\ pc[x] = "waiting"
                   THEN "writing" ELSE pc[x]]
    /\ event' = [event EXCEPT ![w] = NoEvent]

\* Mutant: the hash is not remembered.
FinishMutant(w) ==
    /\ pc[w] = "written"
    /\ stored' = stored \union {event[w].id}
    /\ Release(w)
    /\ UNCHANGED <<fileVars, chainHash, orphans, signed, overlapped, cancelled, restarts>>

\* Mutant: the thread is not waited for.
FinishEarlyMutant(w) ==
    /\ pc[w] \in {"writing", "written"}
    /\ chainHash' = [chainHash EXCEPT ![WorkerOf[w]] = event[w].id]
    /\ stored' = stored \union {event[w].id}
    /\ Release(w)
    /\ UNCHANGED <<fileVars, orphans, signed, overlapped, cancelled, restarts>>

Finish(w) ==
    /\ pc[w] = "written"
    /\ chainHash' = [chainHash EXCEPT ![WorkerOf[w]] = event[w].id]
    /\ stored' = stored \union {event[w].id}
    /\ Release(w)
    /\ UNCHANGED <<fileVars, orphans, signed, overlapped, cancelled, restarts>>

\* The write fails, with nothing or with a piece of the line written:
\* append_event raises and remembers nothing.
WriteFails(w) ==
    /\ pc[w] = "writing"
    /\ UNCHANGED fileVars \/ TearLine
    /\ Release(w)
    /\ UNCHANGED <<chainHash, orphans, signed, stored, overlapped, cancelled, restarts>>

\* The task is cancelled: the lock is given back and the hash forgotten, but a
\* thread that has begun to write goes on.
Cancel(w) ==
    /\ pc[w] # "idle"
    /\ orphans' \in IF pc[w] = "writing" THEN {orphans, orphans \union {event[w]}}
                    ELSE {orphans}
    /\ cancelled' = cancelled \union {event[w].id}
    /\ Release(w)
    /\ UNCHANGED <<fileVars, overlapped, chainHash, signed, stored, restarts>>

OrphanWrites(e) ==
    /\ e \in orphans
    /\ WriteLine(e) \/ TearLine
    /\ orphans' = orphans \ {e}
    /\ UNCHANGED <<chainHash, pc, event, queue, signed, stored, overlapped, cancelled, restarts>>

\* A worker process dies and a new one loads the last hash of the file.
Restart(a) ==
    /\ restarts < MaxRestarts
    /\ restarts' = restarts + 1
    /\ chainHash' = [chainHash EXCEPT ![a] = LoadLastHash]
    /\ pc' = [w \in Writers |-> IF WorkerOf[w] = a THEN "idle" ELSE pc[w]]
    /\ event' = [w \in Writers |-> IF WorkerOf[w] = a THEN NoEvent ELSE event[w]]
    /\ queue' = [queue EXCEPT ![a] = <<>>]
    /\ orphans' = { e \in orphans : e.by # a }
    /\ UNCHANGED <<fileVars, signed, stored, overlapped, cancelled>>

Next ==
    \/ \E w \in Writers :
          Sign(w) \/ Write(w) \/ WriteFails(w) \/ Finish(w) \/ Cancel(w)
    \/ \E e \in orphans : OrphanWrites(e)
    \/ \E a \in Workers : Restart(a)

Spec == Init /\ [][Next]_vars

\* The executors and the event loops run; a cancellation is nobody's duty.
FairSpec ==
    Spec /\ \A w \in Writers : WF_vars(Write(w) \/ WriteFails(w) \/ Finish(w))

-----------------------------------------------------------------------------
(* Properties.                                                             *)

\* Every variable has its type, and in each worker only the task that holds the
\* lock writes.
TypeOK ==
    /\ file \in Seq(Events) /\ torn \in BOOLEAN
    /\ chainHash \in [Workers -> 0..MaxEvents]
    /\ pc \in [Writers -> {"idle", "waiting", "writing", "written"}]
    /\ event \in [Writers -> Events \union {NoEvent}]
    /\ queue \in [Workers -> Seq(Writers)]
    /\ orphans \subseteq Events
    /\ signed \in 0..MaxEvents /\ restarts \in 0..MaxRestarts /\ tears \in 0..MaxTears
    /\ {spoilt, stored, overlapped, cancelled} \subseteq SUBSET (1..signed)
    /\ \A w \in Writers : pc[w] \in {"writing", "written"} <=>
          (queue[WorkerOf[w]] # <<>> /\ w = Head(queue[WorkerOf[w]]))

\* Every stored event is signed with the hash of an event stored before it, or
\* with none: no crash, no torn write, no cancellation and no other worker
\* leaves a signature over an event that was never written.
LinksAreStored ==
    \A i \in 1..Len(file) :
        file[i].prev = 0 \/ \E j \in 1..(i - 1) : file[j].id = file[i].prev

\* An event whose append returned is in the file, no event is there twice, and
\* at most one line for each torn write cannot be read.
StoredOnce ==
    /\ \A id \in stored : \E i \in 1..Len(file) : file[i].id = id
    /\ \A i, j \in 1..Len(file) : file[i].id = file[j].id => i = j
    /\ Cardinality(spoilt) + (IF torn THEN 1 ELSE 0) <= tears

\* The lines verify_chain rejects: those that do not parse and those not signed
\* with the hash that the line before them gives.
Rejected ==
    { i \in 1..Len(file) : \/ file[i].id \in spoilt
                           \/ file[i].prev # HashAfter(SubSeq(file, 1, i - 1)) }
    \union (IF torn THEN {Len(file) + 1} ELSE {})

\* The lines whose author is another worker than that of the line before.
Switches == { i \in 2..Len(file) : file[i].by # file[i - 1].by }

\* verify_chain rejects no more lines than there are changes of author, events
\* signed during another append of the same worker and events whose append was
\* cancelled, and two for each torn write.  While a single worker appends one
\* event after the other the file verifies, across restarts; two workers that
\* take turns break the chain at each turn, since each signs with the last hash
\* of its own.
DamageBounded ==
    Cardinality(Rejected) <= Cardinality(Switches) + Cardinality(overlapped)
                             + Cardinality(cancelled) + 2 * tears

\* A task that waits for the lock leaves append_event in the end.
WaitEnds == \A w \in Writers : pc[w] = "waiting" ~> pc[w] = "idle"
=============================================================================
