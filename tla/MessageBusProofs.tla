-------------------------- MODULE MessageBusProofs --------------------------
(***************************************************************************)
(* Proofs about MessageBus, for any number of messages, subscriptions and  *)
(* failures, any batch size and any trimming.                              *)
(***************************************************************************)
EXTENDS MessageBus, FiniteSetTheorems, TLAPS

USE BusAssumption

\* The group's position: what it passed was delivered or trimmed before.
PositionInv ==
    /\ delivered \subseteq 1..lastId
    /\ \A m \in 1..lastId : m \in delivered \/ m <= trimmed

Consecutive(b) == \A k \in 1..Len(b) : b[k] = b[1] + k - 1

\* A batch is a run of delivered entries that no other task has; the entries whose
\* handler was not yet called have neither been handled nor failed.
BatchInv ==
    /\ \A s \in Subscriptions :
        /\ Consecutive(batch[s]) /\ ToSet(batch[s]) \subseteq delivered
        /\ Unhandled(s) \intersect (handled \union failed) = {}
        /\ task[s] = "acking" => Head(batch[s]) \in handled
    /\ \A s, r \in Subscriptions :
        s # r => ToSet(batch[s]) \intersect ToSet(batch[r]) = {}

IInv == TypeOK /\ PositionInv /\ BatchInv

States == {"none", "polling", "sleeping", "handling", "acking", "ended"}

-----------------------------------------------------------------------------
(* Runs of entries.                                                        *)

LEMMA RunFacts ==
    ASSUME NEW b \in Seq(Messages), b # <<>>, Consecutive(b)
    PROVE  /\ Len(b) \in Nat \ {0} /\ Head(b) = b[1] /\ Head(b) \in Messages
           /\ Head(b) \in ToSet(b)
           /\ Tail(b) \in Seq(Messages) /\ Len(Tail(b)) = Len(b) - 1
           /\ ToSet(Tail(b)) = ToSet(b) \ {Head(b)}
           /\ Consecutive(Tail(b))
           /\ Tail(b) = <<>> <=> ~(Len(b) > 1)
<1>1. Len(b) \in Nat \ {0} /\ Head(b) = b[1] /\ DOMAIN b = 1..Len(b)
  OBVIOUS
<1>2. \A k \in 1..Len(b) : b[k] \in Messages /\ b[k] \in Int
  BY DEF Messages
<1>3. /\ Tail(b) \in Seq(Messages) /\ Len(Tail(b)) = Len(b) - 1
      /\ DOMAIN Tail(b) = 1..(Len(b) - 1)
      /\ \A k \in 1..(Len(b) - 1) : Tail(b)[k] = b[k + 1]
  OBVIOUS
<1>4. \A k \in 2..Len(b) : b[k] # b[1]
  BY <1>1, <1>2 DEF Consecutive
<1>5. Consecutive(Tail(b))
  BY <1>1, <1>2, <1>3 DEF Consecutive
<1>6. ToSet(Tail(b)) = ToSet(b) \ {Head(b)}
  <2>1. ASSUME NEW x \in ToSet(Tail(b)) PROVE x \in ToSet(b) /\ x # b[1]
    <3>1. PICK k \in 1..(Len(b) - 1) : x = Tail(b)[k]
      BY <1>3, <2>1 DEF ToSet
    <3>2. k + 1 \in 2..Len(b) /\ x = b[k + 1]
      BY <1>1, <1>3, <3>1
    <3> QED
      BY <1>1, <1>4, <3>2 DEF ToSet
  <2>2. ASSUME NEW x \in ToSet(b), x # b[1] PROVE x \in ToSet(Tail(b))
    <3>1. PICK k \in 1..Len(b) : x = b[k]
      BY <1>1, <2>2 DEF ToSet
    <3>2. k - 1 \in 1..(Len(b) - 1) /\ x = Tail(b)[k - 1]
      BY <1>1, <1>3, <2>2, <3>1
    <3> QED
      BY <1>3, <3>2 DEF ToSet
  <2> QED
    BY <1>1, <2>1, <2>2
<1>7. Head(b) \in ToSet(b)
  BY <1>1 DEF ToSet
<1>8. Tail(b) = <<>> <=> Len(Tail(b)) = 0
  BY <1>3
<1>9. Tail(b) = <<>> <=> ~(Len(b) > 1)
  BY <1>1, <1>3, <1>8
<1>10. Head(b) \in Messages
  BY <1>1, <1>2
<1> QED
  BY <1>1, <1>3, <1>5, <1>6, <1>7, <1>9, <1>10

LEMMA EmptyRun == ToSet(<<>>) = {} /\ Consecutive(<<>>) /\ <<>> \in Seq(Messages)
BY DEF ToSet, Consecutive

\* A read delivers a run of entries that were never delivered.
LEMMA NewEntriesFacts ==
    ASSUME TypeOK, NewEntries # <<>>
    PROVE  LET first == Larger(lastId, trimmed) + 1
               last == Lesser(published, first + BatchSize - 1) IN
           /\ NewEntries \in Seq(Messages) /\ Consecutive(NewEntries)
           /\ ToSet(NewEntries) = first..last
           /\ Last(NewEntries) = last
           /\ first \in Messages /\ last \in Messages /\ first <= last
           /\ last <= published /\ last < first + BatchSize
           /\ lastId < first /\ trimmed < first /\ first <= Larger(lastId, trimmed) + 1
<1> DEFINE first == Larger(lastId, trimmed) + 1
           last == Lesser(published, first + BatchSize - 1)
           n == last - first + 1
<1>1. /\ published \in Nat /\ published <= MaxMessages /\ lastId \in Nat /\ trimmed \in Nat
  BY DEF TypeOK
<1>2. first \in Nat /\ first >= 1 /\ last \in Int /\ last <= published /\ last < first + BatchSize
      /\ lastId < first /\ trimmed < first
  BY <1>1 DEF Larger, Lesser
<1>3. NewEntries = [k \in 1..n |-> first + k - 1]
  BY DEF NewEntries
<1> HIDE DEF first, last
<1>4. n \in Nat \ {0}
  <2>1. CASE n \in Int /\ n <= 0
    <3>1. 1..n = {}
      BY <2>1
    <3>2. NewEntries = <<>>
      BY <1>3, <3>1
    <3> QED
      BY <3>2
  <2> QED
    BY <1>2, <2>1
<1>5. first <= last
  BY <1>2, <1>4
<1>6. \A k \in 1..n : first + k - 1 \in Messages
  BY <1>1, <1>2, <1>4 DEF Messages
<1>7. NewEntries \in Seq(Messages) /\ Len(NewEntries) = n /\ DOMAIN NewEntries = 1..n
  <2> HIDE DEF n
  <2> QED
    BY <1>3, <1>4, <1>6
<1>8. Last(NewEntries) = last
  BY <1>2, <1>3, <1>4, <1>7 DEF Last
<1>9. Consecutive(NewEntries)
  BY <1>2, <1>3, <1>4, <1>7 DEF Consecutive
<1>10. ToSet(NewEntries) = first..last
  <2>1. ASSUME NEW x \in ToSet(NewEntries) PROVE x \in first..last
    <3>1. PICK k \in 1..n : x = first + k - 1
      BY <1>3, <1>7, <2>1 DEF ToSet
    <3> QED
      BY <1>2, <1>4, <3>1
  <2>2. ASSUME NEW x \in first..last PROVE x \in ToSet(NewEntries)
    <3>1. x - first + 1 \in 1..n /\ x = first + (x - first + 1) - 1
      BY <1>2, <1>4, <2>2
    <3>2. NewEntries[x - first + 1] = x
      BY <1>3, <3>1
    <3> QED
      BY <1>7, <3>1, <3>2 DEF ToSet
  <2> QED
    BY <2>1, <2>2
<1>11. first \in Messages /\ last \in Messages
  BY <1>1, <1>2, <1>5 DEF Messages
<1>12. first <= Larger(lastId, trimmed) + 1
  BY <1>2 DEF first
<1> QED
  BY <1>2, <1>5, <1>7, <1>8, <1>9, <1>10, <1>11, <1>12 DEF first, last

-----------------------------------------------------------------------------
(* Steps of one task.                                                      *)

\* What a task in state t has still to call the handler for in its batch b.
Remaining(t, b) == ToSet(IF t = "acking" THEN Tail(b) ELSE b)

LEMMA UnhandledIn ==
    ASSUME TypeOK, BatchInv, NEW s \in Subscriptions
    PROVE  Unhandled(s) \subseteq ToSet(batch[s]) /\ Unhandled(s) = Remaining(task[s], batch[s])
<1>1. batch[s] \in Seq(Messages) /\ Consecutive(batch[s])
  BY DEF TypeOK, BatchInv
<1>2. task[s] = "acking" => batch[s] # <<>>
  BY DEF TypeOK
<1> QED
  BY <1>1, <1>2, RunFacts DEF Unhandled, Remaining

LEMMA TaskStep ==
    ASSUME TypeOK, BatchInv, NEW s \in Subscriptions, NEW t \in States, NEW b \in Seq(Messages),
           task' = [task EXCEPT ![s] = t], batch' = [batch EXCEPT ![s] = b],
           Consecutive(b), ToSet(b) \subseteq delivered', delivered \subseteq delivered',
           b # <<>> <=> t \in {"handling", "acking"},
           handled \subseteq handled',
           (handled' \union failed') \subseteq handled \union failed \union ToSet(batch[s]),
           Remaining(t, b) \intersect (handled' \union failed') = {},
           t = "acking" => Head(b) \in handled',
           \A r \in Subscriptions : r # s => ToSet(b) \intersect ToSet(batch[r]) = {}
    PROVE  /\ BatchInv'
           /\ batch' \in [Subscriptions -> Seq(Messages)] /\ task' \in [Subscriptions -> States]
           /\ \A r \in Subscriptions : batch'[r] # <<>> <=> task'[r] \in {"handling", "acking"}
           /\ Taken' = (Taken \ Unhandled(s)) \union Remaining(t, b)
<1>1. /\ task \in [Subscriptions -> States] /\ batch \in [Subscriptions -> Seq(Messages)]
      /\ \A r \in Subscriptions : batch[r] # <<>> <=> task[r] \in {"handling", "acking"}
  BY DEF TypeOK, States
<1>2. /\ batch'[s] = b /\ task'[s] = t
      /\ \A r \in Subscriptions : r # s => batch'[r] = batch[r] /\ task'[r] = task[r]
  BY <1>1
<1>3. Unhandled(s)' = Remaining(t, b)
  BY <1>2 DEF Unhandled, Remaining
<1>4. \A r \in Subscriptions : r # s => Unhandled(r)' = Unhandled(r)
  BY <1>2 DEF Unhandled
<1>5. \A r \in Subscriptions :
        /\ Unhandled(r) \subseteq ToSet(batch[r])
        /\ r # s => ToSet(batch[r]) \intersect ToSet(batch[s]) = {}
  BY UnhandledIn DEF BatchInv
<1>6. \A r \in Subscriptions :
        /\ Consecutive(batch'[r]) /\ ToSet(batch'[r]) \subseteq delivered'
        /\ Unhandled(r)' \intersect (handled' \union failed') = {}
        /\ task'[r] = "acking" => Head(batch'[r]) \in handled'
  <2> SUFFICES ASSUME NEW r \in Subscriptions
               PROVE  /\ Consecutive(batch'[r]) /\ ToSet(batch'[r]) \subseteq delivered'
                      /\ Unhandled(r)' \intersect (handled' \union failed') = {}
                      /\ task'[r] = "acking" => Head(batch'[r]) \in handled'
    OBVIOUS
  <2>1. CASE r = s
    BY <1>2, <1>3, <2>1
  <2>2. CASE r # s
    BY <1>2, <1>4, <1>5, <2>2 DEF BatchInv
  <2> QED
    BY <2>1, <2>2
<1>7. \A r, q \in Subscriptions : r # q => ToSet(batch'[r]) \intersect ToSet(batch'[q]) = {}
  BY <1>2 DEF BatchInv
<1>8. BatchInv'
  BY <1>6, <1>7 DEF BatchInv
<1>9. Taken' = (Taken \ Unhandled(s)) \union Remaining(t, b)
  <2>1. \A m : m \in Taken <=> \E r \in Subscriptions : m \in Unhandled(r)
    BY DEF Taken
  <2>2. \A m : m \in Taken' <=> \E r \in Subscriptions : m \in Unhandled(r)'
    BY DEF Taken
  <2>3. \A r \in Subscriptions : r # s => Unhandled(r) \intersect Unhandled(s) = {}
    BY <1>5
  <2> QED
    BY <1>3, <1>4, <2>1, <2>2, <2>3
<1> QED
  BY <1>1, <1>2, <1>8, <1>9

-----------------------------------------------------------------------------
(* The mailbox.                                                            *)

\* Messages that change their status together.
LEMMA Together ==
    ASSUME NEW S \in SUBSET Messages, NEW from, NEW to,
           \A m \in S : StatusOf(m) \in from /\ StatusOf(m)' = to,
           \A m \in Messages \ S : StatusOf(m)' = StatusOf(m)
    PROVE  Abstract!Become(S, from, to)
<1>1. \A m \in Messages : Status[m] = StatusOf(m)
  BY DEF Status
<1>2. \A m \in S : Status[m] \in from
  BY <1>1
<1>3. Status' = [m \in Messages |-> StatusOf(m)']
  BY DEF Status
<1>4. \A m \in Messages : StatusOf(m)' = IF m \in S THEN to ELSE Status[m]
  BY <1>1
<1>5. Status' = [m \in Messages |-> IF m \in S THEN to ELSE Status[m]]
  BY <1>3, <1>4
<1> QED
  BY <1>2, <1>5 DEF Abstract!Become, Abstract!Messages, Messages

LEMMA Stutter ==
    ASSUME \A m \in Messages : StatusOf(m)' = StatusOf(m)
    PROVE  [Abstract!Next]_Status
<1>1. Status' = [m \in Messages |-> StatusOf(m)'] /\ Status = [m \in Messages |-> StatusOf(m)]
  BY DEF Status
<1>2. Status' = Status
  BY <1>1
<1> QED
  BY <1>2

\* A step that changes nothing the status of a message depends on.
LEMMA SameStatus ==
    ASSUME UNCHANGED <<published, trimmed, delivered, handled>>, Taken' = Taken
    PROVE  [Abstract!Next]_Status
<1>1. \A m \in Messages : StatusOf(m)' = StatusOf(m)
  BY DEF StatusOf
<1> QED
  BY <1>1, Stutter

\* Taken entries were delivered, and are neither handled nor trimmed unseen.
LEMMA TakenFacts ==
    ASSUME IInv
    PROVE  /\ Taken \subseteq delivered /\ Taken \intersect (handled \union failed) = {}
           /\ delivered \subseteq 1..published /\ published \in Nat
           /\ delivered \subseteq Messages /\ handled \subseteq delivered
<1>1. \A s \in Subscriptions :
        Unhandled(s) \subseteq delivered /\ Unhandled(s) \intersect (handled \union failed) = {}
  BY UnhandledIn DEF IInv, BatchInv
<1> QED
  BY <1>1 DEF Taken, IInv, TypeOK, Messages

\* The entries a read takes are the oldest waiting ones.
LEMMA NewEntriesWait ==
    ASSUME IInv, NewEntries # <<>>
    PROVE  LET first == Larger(lastId, trimmed) + 1
               last == Lesser(published, first + BatchSize - 1) IN
           /\ \A m \in ToSet(NewEntries) :
                 m \notin delivered /\ m <= published /\ m > trimmed /\ StatusOf(m) = "waiting"
           /\ \A m \in 1..(first - 1) : StatusOf(m) # "waiting"
<1> DEFINE first == Larger(lastId, trimmed) + 1
           last == Lesser(published, first + BatchSize - 1)
<1>1. /\ ToSet(NewEntries) = first..last /\ first \in Nat /\ last \in Nat
      /\ last <= published /\ lastId < first /\ trimmed < first
  BY NewEntriesFacts DEF IInv, Messages
<1>2. lastId \in Nat /\ trimmed \in Nat /\ published \in Nat
      /\ lastId <= published /\ trimmed <= published
  BY DEF IInv, TypeOK
<1>3. first = lastId + 1 \/ first = trimmed + 1
  BY <1>2 DEF Larger
<1> HIDE DEF first, last
<1>4. ASSUME NEW m \in first..last
      PROVE  m \notin delivered /\ m <= published /\ m > trimmed /\ StatusOf(m) = "waiting"
  <2>1. m \notin delivered /\ ~(m > published) /\ ~(m <= trimmed)
    BY <1>1, <1>2 DEF IInv, PositionInv
  <2>2. m \notin Taken /\ m \notin handled
    BY <2>1, TakenFacts
  <2> QED
    BY <1>1, <1>2, <2>1, <2>2 DEF StatusOf
<1>5. ASSUME NEW m \in 1..(first - 1) PROVE StatusOf(m) # "waiting"
  <2>1. m \in delivered \/ m <= trimmed
    BY <1>1, <1>2, <1>3 DEF IInv, PositionInv
  <2> QED
    BY <2>1 DEF StatusOf
<1> QED
  BY <1>1, <1>4, <1>5 DEF first, last

-----------------------------------------------------------------------------
(* The steps.                                                              *)

Goal == IInv' /\ [Abstract!Next]_Status

\* The types of what TaskStep leaves open.
LEMMA TypesOfStep ==
    ASSUME TypeOK, PositionInv,
           published' \in 0..MaxMessages, trimmed' \in 0..published', lastId' \in 0..published',
           delivered' \subseteq 1..lastId', acked' \subseteq handled',
           \A m \in 1..lastId' : m \in delivered' \/ m <= trimmed',
           handled' \subseteq delivered', failed' \subseteq delivered',
           consumer' \in {0} \union Alive',
           unacked' \in Nat, interrupted' \in Nat,
           batch' \in [Subscriptions -> Seq(Messages)], task' \in [Subscriptions -> States],
           \A r \in Subscriptions : batch'[r] # <<>> <=> task'[r] \in {"handling", "acking"}
    PROVE  TypeOK' /\ PositionInv'
<1>1. delivered' \subseteq 1..published'
  OBVIOUS
<1> QED
  BY <1>1 DEF TypeOK, PositionInv, States

LEMMA AliveKept ==
    ASSUME TypeOK, NEW s \in Subscriptions, NEW t \in States \ {"none", "ended"},
           task' = [task EXCEPT ![s] = t]
    PROVE  Alive \subseteq Alive' /\ s \in Alive'
BY DEF TypeOK, Alive

\* What the types and the position say, as the steps use it.
LEMMA Facts ==
    ASSUME IInv
    PROVE  /\ TypeOK /\ PositionInv /\ BatchInv
           /\ published \in 0..MaxMessages /\ trimmed \in 0..published /\ lastId \in 0..published
           /\ delivered \subseteq 1..lastId /\ acked \subseteq handled
           /\ \A m \in 1..lastId : m \in delivered \/ m <= trimmed
           /\ handled \subseteq delivered /\ failed \subseteq delivered
           /\ consumer \in {0} \union Alive /\ unacked \in Nat /\ interrupted \in Nat
           /\ batch \in [Subscriptions -> Seq(Messages)] /\ task \in [Subscriptions -> States]
           /\ \A r \in Subscriptions : batch[r] # <<>> <=> task[r] \in {"handling", "acking"}
BY DEF IInv, TypeOK, PositionInv, States

\* A task that only changes its state between reads: no batch, nothing taken.
LEMMA IdleStep ==
    ASSUME IInv, NEW s \in Subscriptions, batch[s] = <<>>,
           NEW t \in {"polling", "sleeping"}, task' = [task EXCEPT ![s] = t],
           UNCHANGED <<streamVars, batch, handled, failed, unacked>>,
           consumer' \in {consumer, s}, interrupted' \in Nat
    PROVE  Goal
<1>1. t \in States \ {"none", "ended"} /\ batch' = [batch EXCEPT ![s] = <<>>]
  BY Facts DEF States
<1>2. Remaining(t, <<>>) = {} /\ Unhandled(s) = {}
  BY EmptyRun, Facts, UnhandledIn DEF Remaining
<1>3. UNCHANGED <<published, trimmed, lastId, delivered, acked, handled, failed, unacked>>
  BY DEF streamVars
<1>4. /\ BatchInv' /\ Taken' = (Taken \ Unhandled(s)) \union Remaining(t, <<>>)
      /\ batch' \in [Subscriptions -> Seq(Messages)] /\ task' \in [Subscriptions -> States]
      /\ \A r \in Subscriptions : batch'[r] # <<>> <=> task'[r] \in {"handling", "acking"}
  <2>1. /\ Consecutive(<<>>) /\ ToSet(<<>>) = {} /\ <<>> \in Seq(Messages) /\ t \in States
        /\ t \notin {"handling", "acking"}
    BY <1>1, EmptyRun
  <2>2. /\ (handled' \union failed') \subseteq handled \union failed \union ToSet(batch[s])
        /\ delivered \subseteq delivered' /\ handled \subseteq handled'
    BY <1>3
  <2>3. TypeOK /\ BatchInv
    BY Facts
  <2>4. /\ Remaining(t, <<>>) \intersect (handled' \union failed') = {}
        /\ \A r \in Subscriptions : r # s => ToSet(<<>>) \intersect ToSet(batch[r]) = {}
    BY <1>2, <2>1
  <2>5. ToSet(<<>>) \subseteq delivered'
    BY <2>1
  <2> QED
    BY <1>1, <2>1, <2>2, <2>3, <2>4, <2>5, TaskStep
<1>5. consumer' \in {0} \union Alive'
  BY <1>1, Facts, AliveKept
<1>6. TypeOK' /\ PositionInv'
  BY <1>3, <1>4, <1>5, Facts, TypesOfStep
<1> QED
  BY <1>2, <1>3, <1>4, <1>6, SameStatus DEF Goal, IInv

LEMMA SubscribeStep == ASSUME IInv, NEW s \in Subscriptions, Subscribe(s) PROVE Goal
<1>1. batch[s] = <<>>
  BY Facts DEF Subscribe
<1> QED
  BY <1>1, Facts, IdleStep DEF Subscribe

LEMMA WakeStep == ASSUME IInv, NEW s \in Subscriptions, Wake(s) PROVE Goal
<1>1. batch[s] = <<>>
  BY Facts DEF Wake
<1> QED
  BY <1>1, Facts, IdleStep DEF Wake

LEMMA PublishStep == ASSUME IInv, Publish PROVE Goal
<1> DEFINE n == published + 1
<1>1. /\ published < MaxMessages /\ published' = n
      /\ trimmed' \in trimmed..Larger(trimmed, n - MaxLen)
      /\ UNCHANGED <<lastId, delivered, acked, task, batch, consumer, handled, failed,
                     unacked, interrupted>>
  BY DEF Publish
<1>2. /\ published \in Nat /\ trimmed \in Nat /\ trimmed <= published
      /\ trimmed' \in Nat /\ trimmed <= trimmed' /\ trimmed' <= n /\ n \in Messages
  BY <1>1, Facts DEF Larger, Messages
<1>3. Taken' = Taken /\ BatchInv' /\ Alive' = Alive
  BY <1>1, Facts DEF Taken, Unhandled, BatchInv, Alive
<1>4. TypeOK' /\ PositionInv'
  BY <1>1, <1>2, <1>3, Facts, TypesOfStep
<1>5. Status[n] = "unpublished" /\ \A m \in 1..(n - 1) : Status[m] # "unpublished"
  BY <1>2 DEF Status, StatusOf, Messages
<1>6. ASSUME NEW m \in Messages
      PROVE  StatusOf(m)' = IF m <= trimmed' /\ m <= n /\ Status[m] \in {"unpublished", "waiting"}
                            THEN "trimmed" ELSE IF m = n THEN "waiting" ELSE Status[m]
  <2>1. Status[m] = StatusOf(m)
    BY DEF Status
  <2>2. n \notin delivered /\ n \notin Taken /\ n \notin handled
    BY <1>2, TakenFacts
  <2>3. CASE m = n
    BY <1>1, <1>2, <1>3, <2>1, <2>2, <2>3 DEF StatusOf
  <2>4. CASE m > n
    <3>1. StatusOf(m)' = "unpublished" /\ StatusOf(m) = "unpublished"
      BY <1>1, <1>2, <2>4 DEF StatusOf, Messages
    <3> QED
      BY <1>2, <2>1, <2>4, <3>1 DEF Messages
  <2>5. CASE m < n
    BY <1>1, <1>2, <1>3, <2>1, <2>5 DEF StatusOf, Messages
  <2> QED
    BY <1>2, <2>3, <2>4, <2>5 DEF Messages
<1>7. Status' = [m \in Messages |-> StatusOf(m)']
  BY DEF Status
<1>8. Status' = [m \in Messages |->
                   IF m <= trimmed' /\ m <= n /\ Status[m] \in {"unpublished", "waiting"}
                   THEN "trimmed" ELSE IF m = n THEN "waiting" ELSE Status[m]]
  BY <1>6, <1>7
<1>9. trimmed' \in 0..MaxMessages
  BY <1>2 DEF Messages
<1>10. Abstract!Publish
  <2> HIDE DEF n
  <2> QED
    BY <1>2, <1>5, <1>8, <1>9 DEF Abstract!Publish, Abstract!Messages, Messages
<1> QED
  BY <1>3, <1>4, <1>10 DEF Goal, IInv, Abstract!Next

\* A batch delivered is a batch of the mailbox taken, or lost with the reply.
LEMMA DeliverTakes ==
    ASSUME IInv, Deliver, NEW to \in {"taken", "lost"}, handled' = handled,
           Taken' = IF to = "taken" THEN Taken \union ToSet(NewEntries) ELSE Taken
    PROVE  [Abstract!Next]_Status
<1> DEFINE first == Larger(lastId, trimmed) + 1
           last == Lesser(published, first + BatchSize - 1)
           N == ToSet(NewEntries)
<1>1. /\ NewEntries # <<>> /\ delivered' = delivered \union N
      /\ UNCHANGED <<published, trimmed>>
  BY DEF Deliver
<1>2. /\ N = first..last /\ first \in Messages /\ last \in Messages /\ first <= last
      /\ last < first + BatchSize
  BY <1>1, Facts, NewEntriesFacts
<1>3. /\ \A m \in N : m \notin delivered /\ m <= published /\ m > trimmed /\ StatusOf(m) = "waiting"
      /\ \A m \in 1..(first - 1) : StatusOf(m) # "waiting"
  BY <1>1, NewEntriesWait
<1> HIDE DEF first, last, N
<1>4. N \subseteq Messages
  BY <1>2 DEF Messages
<1>5. ASSUME NEW m \in N PROVE StatusOf(m)' = to
  <2>1. m \notin handled /\ m \notin Taken /\ ~(m > published)
    <3>1. published \in Nat /\ m \in Nat
      BY <1>4, Facts DEF Messages
    <3> QED
      BY <1>3, <3>1, TakenFacts
  <2> QED
    BY <1>1, <2>1 DEF StatusOf, N
<1>6. ASSUME NEW m \in Messages \ N PROVE StatusOf(m)' = StatusOf(m)
  BY <1>1, <1>6 DEF StatusOf, N
<1>7. Abstract!Become(first..last, {"waiting"}, to)
  <2>1. Abstract!Become(N, {"waiting"}, to)
    BY <1>3, <1>4, <1>5, <1>6, Together
  <2> QED
    BY <1>2, <2>1
<1>8. \A m \in 1..(first - 1) : Status[m] # "waiting"
  <2>1. \A m \in 1..(first - 1) : m \in Messages
    BY <1>2 DEF Messages
  <2> QED
    BY <1>3, <2>1 DEF Status
<1>9. Abstract!Take
  BY <1>2, <1>7, <1>8 DEF Abstract!Take, Abstract!Messages, Messages
<1> QED
  BY <1>9 DEF Abstract!Next

\* The group's position after a delivery.
LEMMA DeliverPosition ==
    ASSUME IInv, Deliver
    PROVE  /\ published' = published /\ trimmed' = trimmed /\ acked' = acked
           /\ lastId' \in 0..published /\ delivered' \subseteq 1..lastId'
           /\ delivered' = delivered \union ToSet(NewEntries)
           /\ \A m \in 1..lastId' : m \in delivered' \/ m <= trimmed
<1> DEFINE first == Larger(lastId, trimmed) + 1
           last == Lesser(published, first + BatchSize - 1)
<1>1. /\ NewEntries # <<>> /\ lastId' = Last(NewEntries)
      /\ delivered' = delivered \union ToSet(NewEntries)
      /\ UNCHANGED <<published, trimmed, acked>>
  BY DEF Deliver
<1>2. /\ ToSet(NewEntries) = first..last /\ Last(NewEntries) = last
      /\ first \in Nat /\ last \in Nat /\ first <= last /\ first >= 1
      /\ last <= published /\ lastId < first
  BY <1>1, Facts, NewEntriesFacts DEF Messages
<1>3. lastId \in Nat /\ trimmed \in Nat /\ published \in Nat
  BY Facts
<1>4. first = lastId + 1 \/ first = trimmed + 1
  BY <1>3 DEF Larger
<1> HIDE DEF first, last
<1>5. lastId' = last
  BY <1>1, <1>2
<1>6. delivered' \subseteq 1..last
  BY <1>1, <1>2, <1>3, Facts
<1>7. ASSUME NEW m \in 1..last PROVE m \in delivered' \/ m <= trimmed
  <2>1. CASE m >= first
    BY <1>1, <1>2, <2>1
  <2>2. CASE m < first
    BY <1>1, <1>2, <1>3, <1>4, <2>2, Facts
  <2> QED
    BY <1>2, <2>1, <2>2
<1> QED
  BY <1>1, <1>2, <1>3, <1>5, <1>6, <1>7

LEMMA ReadStep == ASSUME IInv, NEW s \in Subscriptions, Read(s) PROVE Goal
<1> DEFINE b == NewEntries
<1>1. /\ task[s] = "polling" /\ batch[s] = <<>> /\ Deliver /\ b # <<>>
      /\ task' = [task EXCEPT ![s] = "handling"] /\ batch' = [batch EXCEPT ![s] = b]
      /\ UNCHANGED <<consumer, handled, failed, unacked, interrupted>>
  BY Facts DEF Read, Deliver
<1>2. b \in Seq(Messages) /\ Consecutive(b)
  BY <1>1, Facts, NewEntriesFacts
<1>3. \A m \in ToSet(b) : m \notin delivered
  BY <1>1, NewEntriesWait
<1> HIDE DEF b
<1>4. /\ published' = published /\ trimmed' = trimmed /\ acked' = acked
      /\ lastId' \in 0..published /\ delivered' \subseteq 1..lastId'
      /\ delivered' = delivered \union ToSet(b)
      /\ \A m \in 1..lastId' : m \in delivered' \/ m <= trimmed
  BY <1>1, DeliverPosition DEF b
<1>5. Remaining("handling", b) = ToSet(b) /\ Unhandled(s) = {}
  BY <1>1, EmptyRun, Facts, UnhandledIn DEF Remaining
<1>6. \A r \in Subscriptions : ToSet(batch[r]) \subseteq delivered
  BY Facts DEF BatchInv
<1>7. /\ BatchInv' /\ Taken' = (Taken \ Unhandled(s)) \union Remaining("handling", b)
      /\ batch' \in [Subscriptions -> Seq(Messages)] /\ task' \in [Subscriptions -> States]
      /\ \A r \in Subscriptions : batch'[r] # <<>> <=> task'[r] \in {"handling", "acking"}
  <2>1. \A r \in Subscriptions : r # s => ToSet(b) \intersect ToSet(batch[r]) = {}
    BY <1>3, <1>6
  <2>2. Remaining("handling", b) \intersect (handled' \union failed') = {}
    BY <1>1, <1>3, <1>5, Facts
  <2>3. ToSet(b) \subseteq delivered' /\ delivered \subseteq delivered'
    BY <1>4
  <2> QED
    BY <1>1, <1>2, <2>1, <2>2, <2>3, Facts, TaskStep DEF States
<1>8. consumer' \in {0} \union Alive'
  BY <1>1, Facts, AliveKept DEF States
<1>9. TypeOK' /\ PositionInv'
  BY <1>1, <1>4, <1>7, <1>8, Facts, TypesOfStep
<1>10. Taken' = Taken \union ToSet(b)
  BY <1>5, <1>7
<1>11. [Abstract!Next]_Status
  BY <1>1, <1>10, DeliverTakes DEF b
<1> QED
  BY <1>7, <1>9, <1>11 DEF Goal, IInv

LEMMA ReadFailsStep == ASSUME IInv, NEW s \in Subscriptions, ReadFails(s) PROVE Goal
<1>1. /\ task[s] = "polling" /\ batch[s] = <<>>
      /\ Deliver \/ UNCHANGED streamVars
      /\ task' = [task EXCEPT ![s] = "sleeping"]
      /\ interrupted' = interrupted + 1
      /\ UNCHANGED <<batch, consumer, handled, failed, unacked>>
  BY Facts DEF ReadFails
<1>2. interrupted' \in Nat
  BY <1>1, Facts
<1>3. CASE UNCHANGED streamVars
  BY <1>1, <1>2, <1>3, IdleStep
<1>4. CASE Deliver
  <2>1. /\ published' = published /\ trimmed' = trimmed /\ acked' = acked
        /\ lastId' \in 0..published /\ delivered' \subseteq 1..lastId'
        /\ delivered \subseteq delivered'
        /\ \A m \in 1..lastId' : m \in delivered' \/ m <= trimmed
    BY <1>4, DeliverPosition
  <2>2. Remaining("sleeping", <<>>) = {} /\ Unhandled(s) = {} /\ batch' = [batch EXCEPT ![s] = <<>>]
    BY <1>1, EmptyRun, Facts, UnhandledIn DEF Remaining
  <2>3. /\ BatchInv' /\ Taken' = (Taken \ Unhandled(s)) \union Remaining("sleeping", <<>>)
        /\ batch' \in [Subscriptions -> Seq(Messages)] /\ task' \in [Subscriptions -> States]
        /\ \A r \in Subscriptions : batch'[r] # <<>> <=> task'[r] \in {"handling", "acking"}
    <3>1. ToSet(<<>>) \subseteq delivered' /\ "sleeping" \in States
      BY EmptyRun DEF States
    <3>2. Remaining("sleeping", <<>>) \intersect (handled' \union failed') = {}
      BY <2>2
    <3>3. \A r \in Subscriptions : r # s => ToSet(<<>>) \intersect ToSet(batch[r]) = {}
      BY EmptyRun
    <3>4. handled \subseteq handled' /\ (handled' \union failed') \subseteq handled \union failed
      BY <1>1
    <3> QED
      BY <1>1, <2>1, <2>2, <3>1, <3>2, <3>3, <3>4, EmptyRun, Facts, TaskStep
  <2>4. consumer' \in {0} \union Alive'
    BY <1>1, Facts, AliveKept DEF States
  <2>5. TypeOK' /\ PositionInv'
    BY <1>1, <1>2, <2>1, <2>3, <2>4, Facts, TypesOfStep
  <2>6. Taken' = Taken
    BY <2>2, <2>3
  <2>7. [Abstract!Next]_Status
    BY <1>1, <1>4, <2>6, DeliverTakes
  <2> QED
    BY <2>3, <2>5, <2>7 DEF Goal, IInv
<1> QED
  BY <1>1, <1>3, <1>4

\* A task at work: its batch, and what is left of it after the first entry.
LEMMA AtWork ==
    ASSUME IInv, NEW s \in Subscriptions, task[s] \in {"handling", "acking"}
    PROVE  LET h == Head(batch[s]) b == Tail(batch[s]) IN
           /\ batch[s] \in Seq(Messages) /\ batch[s] # <<>> /\ Consecutive(batch[s])
           /\ h \in Messages /\ h \in delivered /\ h \notin ToSet(b)
           /\ b \in Seq(Messages) /\ Consecutive(b) /\ ToSet(batch[s]) = ToSet(b) \union {h}
           /\ ToSet(b) \subseteq delivered
           /\ b = <<>> <=> ~(Len(batch[s]) > 1)
           /\ ToSet(b) \intersect (handled \union failed) = {}
           /\ Unhandled(s) = IF task[s] = "handling" THEN ToSet(b) \union {h} ELSE ToSet(b)
           /\ Unhandled(s) \subseteq Taken
           /\ task[s] = "handling" => h \notin (handled \union failed)
           /\ task[s] = "acking" => h \in handled
           /\ \A r \in Subscriptions : r # s => ToSet(batch[s]) \intersect ToSet(batch[r]) = {}
<1> DEFINE h == Head(batch[s]) b == Tail(batch[s])
<1>1. batch[s] \in Seq(Messages) /\ batch[s] # <<>> /\ Consecutive(batch[s])
      /\ ToSet(batch[s]) \subseteq delivered
  BY Facts DEF BatchInv
<1>2. /\ h \in Messages /\ h \in ToSet(batch[s]) /\ b \in Seq(Messages) /\ Consecutive(b)
      /\ ToSet(b) = ToSet(batch[s]) \ {h} /\ (b = <<>> <=> ~(Len(batch[s]) > 1))
  BY <1>1, RunFacts
<1>3. Unhandled(s) = IF task[s] = "handling" THEN ToSet(batch[s]) ELSE ToSet(b)
  BY DEF Unhandled
<1>4. /\ Unhandled(s) \intersect (handled \union failed) = {}
      /\ task[s] = "acking" => h \in handled
      /\ \A r \in Subscriptions : r # s => ToSet(batch[s]) \intersect ToSet(batch[r]) = {}
  BY Facts DEF BatchInv
<1>5. Unhandled(s) \subseteq Taken
  BY DEF Taken
<1> HIDE DEF h, b
<1>6. ToSet(batch[s]) = ToSet(b) \union {h} /\ h \notin ToSet(b) /\ h \in delivered
      /\ ToSet(b) \subseteq delivered
  BY <1>1, <1>2
<1>7. ToSet(b) \intersect (handled \union failed) = {}
      /\ (task[s] = "handling" => h \notin (handled \union failed))
  BY <1>3, <1>4, <1>6
<1> QED
  BY <1>1, <1>2, <1>3, <1>4, <1>5, <1>6, <1>7 DEF h, b

LEMMA HandleStep == ASSUME IInv, NEW s \in Subscriptions, Handle(s) PROVE Goal
<1>0. PICK h, b : h = Head(batch[s]) /\ b = Tail(batch[s])
  OBVIOUS
<1>1. /\ task[s] = "handling" /\ handled' = handled \union {h}
      /\ task' = [task EXCEPT ![s] = "acking"] /\ batch' = [batch EXCEPT ![s] = batch[s]]
      /\ UNCHANGED <<published, trimmed, lastId, delivered, acked, batch, consumer, failed,
                     unacked, interrupted>>
  BY <1>0, Facts DEF Handle, streamVars
<1>2. /\ batch[s] \in Seq(Messages) /\ batch[s] # <<>> /\ Consecutive(batch[s])
      /\ h \in Messages /\ h \in delivered /\ h \notin ToSet(b)
      /\ ToSet(batch[s]) = ToSet(b) \union {h} /\ ToSet(b) \subseteq delivered
      /\ ToSet(b) \intersect (handled \union failed) = {}
      /\ Unhandled(s) = ToSet(b) \union {h} /\ Unhandled(s) \subseteq Taken
      /\ h \notin handled
      /\ \A r \in Subscriptions : r # s => ToSet(batch[s]) \intersect ToSet(batch[r]) = {}
  BY <1>0, <1>1, AtWork
<1>3. Remaining("acking", batch[s]) = ToSet(b) /\ Head(batch[s]) \in handled'
  BY <1>0, <1>1 DEF Remaining
<1>4. /\ BatchInv' /\ Taken' = (Taken \ Unhandled(s)) \union Remaining("acking", batch[s])
      /\ batch' \in [Subscriptions -> Seq(Messages)] /\ task' \in [Subscriptions -> States]
      /\ \A r \in Subscriptions : batch'[r] # <<>> <=> task'[r] \in {"handling", "acking"}
  <2>1. ToSet(batch[s]) \subseteq delivered' /\ delivered \subseteq delivered'
    BY <1>1, <1>2
  <2>2. /\ handled \subseteq handled'
        /\ (handled' \union failed') \subseteq handled \union failed \union ToSet(batch[s])
    BY <1>1, <1>2
  <2>3. Remaining("acking", batch[s]) \intersect (handled' \union failed') = {}
    BY <1>1, <1>2, <1>3
  <2> QED
    BY <1>1, <1>2, <1>3, <2>1, <2>2, <2>3, Facts, TaskStep DEF States
<1>5. consumer' \in {0} \union Alive'
  BY <1>1, Facts, AliveKept DEF States
<1>6. TypeOK' /\ PositionInv'
  BY <1>1, <1>2, <1>4, <1>5, Facts, TypesOfStep
<1>7. Taken' = Taken \ {h}
  BY <1>2, <1>3, <1>4, TakenFacts
<1>8. h <= published /\ published \in Nat /\ h \in Nat
  BY <1>2, TakenFacts DEF Messages
<1>9. StatusOf(h) = "taken" /\ StatusOf(h)' = "handled"
  BY <1>1, <1>2, <1>7, <1>8 DEF StatusOf
<1>10. ASSUME NEW m \in Messages \ {h} PROVE StatusOf(m)' = StatusOf(m)
  BY <1>1, <1>7 DEF StatusOf
<1>11. Abstract!Become({h}, {"taken"}, "handled")
  BY <1>2, <1>9, <1>10, Together
<1> QED
  BY <1>2, <1>4, <1>6, <1>11
  DEF Goal, IInv, Abstract!Next, Abstract!Handle, Abstract!Messages, Messages

\* A task done with the first entry of its batch, whatever came of it.
LEMMA ProceedStep ==
    ASSUME IInv, NEW s \in Subscriptions, task[s] \in {"handling", "acking"}, Proceed(s),
           NEW h, h = Head(batch[s]),
           UNCHANGED <<published, trimmed, lastId, delivered, consumer, handled>>,
           acked' \subseteq handled, failed' \in {failed, failed \union {h}},
           unacked' \in Nat, interrupted' \in Nat
    PROVE  IInv' /\ Taken' = Taken \ {h}
<1>1. PICK b, t : b = Tail(batch[s]) /\ t = IF Len(batch[s]) > 1 THEN "handling" ELSE "polling"
  OBVIOUS
<1>2. task' = [task EXCEPT ![s] = t] /\ batch' = [batch EXCEPT ![s] = b] /\ t \in States
      /\ t \in States \ {"none", "ended"}
  BY <1>1, Facts DEF Proceed, States
<1>3. /\ h \in Messages /\ h \in delivered /\ h \notin ToSet(b)
      /\ b \in Seq(Messages) /\ Consecutive(b) /\ ToSet(batch[s]) = ToSet(b) \union {h}
      /\ ToSet(b) \subseteq delivered
      /\ b = <<>> <=> ~(Len(batch[s]) > 1)
      /\ ToSet(b) \intersect (handled \union failed) = {}
      /\ Unhandled(s) = IF task[s] = "handling" THEN ToSet(b) \union {h} ELSE ToSet(b)
      /\ task[s] = "acking" => h \in handled
      /\ \A r \in Subscriptions : r # s => ToSet(batch[s]) \intersect ToSet(batch[r]) = {}
  BY <1>1, AtWork
<1>4. Remaining(t, b) = ToSet(b) /\ t # "acking" /\ (b # <<>> <=> t \in {"handling", "acking"})
  BY <1>1, <1>3 DEF Remaining
<1>5. /\ BatchInv' /\ Taken' = (Taken \ Unhandled(s)) \union Remaining(t, b)
      /\ batch' \in [Subscriptions -> Seq(Messages)] /\ task' \in [Subscriptions -> States]
      /\ \A r \in Subscriptions : batch'[r] # <<>> <=> task'[r] \in {"handling", "acking"}
  <2>1. ToSet(b) \subseteq delivered' /\ delivered \subseteq delivered' /\ handled \subseteq handled'
    BY <1>3
  <2>2. (handled' \union failed') \subseteq handled \union failed \union ToSet(batch[s])
    BY <1>3
  <2>3. Remaining(t, b) \intersect (handled' \union failed') = {}
    BY <1>3, <1>4
  <2>4. \A r \in Subscriptions : r # s => ToSet(b) \intersect ToSet(batch[r]) = {}
    BY <1>3
  <2> QED
    BY <1>2, <1>3, <1>4, <2>1, <2>2, <2>3, <2>4, Facts, TaskStep
<1>6. consumer' \in {0} \union Alive'
  BY <1>2, Facts, AliveKept
<1>7. TypeOK' /\ PositionInv'
  <2>1. failed' \subseteq delivered'
    BY <1>3, Facts
  <2> QED
    BY <1>5, <1>6, <2>1, Facts, TypesOfStep
<1>8. h \in Taken <=> task[s] = "handling"
  <2>1. CASE task[s] = "handling"
    BY <1>3, <2>1 DEF Taken
  <2>2. CASE task[s] = "acking"
    BY <1>3, <2>2, TakenFacts
  <2> QED
    BY <2>1, <2>2
<1>9. Unhandled(s) \subseteq Taken
  BY DEF Taken
<1>10. Taken' = Taken \ {h}
  BY <1>3, <1>4, <1>5, <1>8, <1>9
<1> QED
  BY <1>5, <1>7, <1>10 DEF IInv

LEMMA HandlerFailsStep == ASSUME IInv, NEW s \in Subscriptions, HandlerFails(s) PROVE Goal
<1>0. PICK h : h = Head(batch[s])
  OBVIOUS
<1>1. /\ task[s] = "handling" /\ failed' = failed \union {h} /\ Proceed(s)
      /\ UNCHANGED <<published, trimmed, lastId, delivered, acked, consumer, handled, unacked,
                     interrupted>>
  BY <1>0 DEF HandlerFails, streamVars
<1>2. h \in Messages /\ h \in delivered /\ h \notin handled /\ h \in Taken
  BY <1>0, <1>1, AtWork
<1>3. IInv' /\ Taken' = Taken \ {h}
  BY <1>0, <1>1, Facts, ProceedStep
<1>4. h <= published /\ published \in Nat /\ h \in Nat
  BY <1>2, TakenFacts DEF Messages
<1>5. StatusOf(h) = "taken" /\ StatusOf(h)' = "lost"
  BY <1>1, <1>2, <1>3, <1>4 DEF StatusOf
<1>6. ASSUME NEW m \in Messages \ {h} PROVE StatusOf(m)' = StatusOf(m)
  BY <1>1, <1>3 DEF StatusOf
<1>7. Abstract!Become({h}, {"taken"}, "lost")
  BY <1>2, <1>5, <1>6, Together
<1>8. Abstract!Lose
  BY <1>2, <1>7 DEF Abstract!Lose, Abstract!Messages, Messages
<1> QED
  BY <1>3, <1>8 DEF Goal, Abstract!Next

\* An acknowledgement, or the failure of one, changes no status: the entry was handled.
LEMMA AckedStep ==
    ASSUME IInv, NEW s \in Subscriptions, task[s] = "acking", Proceed(s),
           UNCHANGED <<published, trimmed, lastId, delivered, consumer, handled, failed>>,
           acked' \in {acked, acked \union {Head(batch[s])}},
           unacked' \in Nat, interrupted' \in Nat
    PROVE  Goal
<1>1. PICK h : h = Head(batch[s])
  OBVIOUS
<1>2. h \in handled
  BY <1>1, AtWork
<1>3. acked' \subseteq handled
  BY <1>1, <1>2, Facts
<1>4. IInv' /\ Taken' = Taken \ {h}
  BY <1>1, <1>3, ProceedStep
<1>5. Taken' = Taken
  BY <1>2, <1>4, TakenFacts
<1> QED
  BY <1>4, <1>5, SameStatus DEF Goal

LEMMA AckStep == ASSUME IInv, NEW s \in Subscriptions, Ack(s) PROVE Goal
BY Facts, AckedStep DEF Ack

LEMMA AckFailsStep == ASSUME IInv, NEW s \in Subscriptions, AckFails(s) PROVE Goal
<1>1. unacked' \in Nat
  BY Facts DEF AckFails
<1> QED
  BY <1>1, Facts, AckedStep DEF AckFails, streamVars

\* Tasks that end leave what they had taken to no one.
LEMMA EndStep == ASSUME IInv, NEW S \in SUBSET Subscriptions, End(S) PROVE Goal
<1>1. /\ task' = [s \in Subscriptions |-> IF s \in S THEN "ended" ELSE task[s]]
      /\ batch' = [s \in Subscriptions |-> IF s \in S THEN <<>> ELSE batch[s]]
      /\ consumer' = 0 /\ interrupted' = interrupted + Cardinality(S)
      /\ UNCHANGED <<published, trimmed, lastId, delivered, acked, handled, failed, unacked>>
  BY DEF End, streamVars
<1>2. interrupted' \in Nat
  <2>1. IsFiniteSet(Subscriptions)
    BY FS_Interval DEF Subscriptions
  <2>2. IsFiniteSet(S)
    BY <2>1, FS_Subset
  <2>3. Cardinality(S) \in Nat
    BY <2>2, FS_CardinalityType
  <2> QED
    BY <1>1, <2>3, Facts
<1>3. \A s \in Subscriptions :
        /\ s \in S => batch'[s] = <<>> /\ task'[s] = "ended" /\ Unhandled(s)' = {}
        /\ s \notin S => batch'[s] = batch[s] /\ task'[s] = task[s] /\ Unhandled(s)' = Unhandled(s)
  BY <1>1, EmptyRun DEF Unhandled
<1>4. /\ batch' \in [Subscriptions -> Seq(Messages)] /\ task' \in [Subscriptions -> States]
      /\ \A r \in Subscriptions : batch'[r] # <<>> <=> task'[r] \in {"handling", "acking"}
  <2>1. /\ \A s \in Subscriptions : (IF s \in S THEN <<>> ELSE batch[s]) \in Seq(Messages)
        /\ \A s \in Subscriptions : (IF s \in S THEN "ended" ELSE task[s]) \in States
    BY EmptyRun, Facts DEF States
  <2> QED
    BY <1>1, <1>3, <2>1, Facts
<1>5. BatchInv'
  <2>1. \A s \in Subscriptions :
          /\ Consecutive(batch'[s]) /\ ToSet(batch'[s]) \subseteq delivered'
          /\ Unhandled(s)' \intersect (handled' \union failed') = {}
          /\ task'[s] = "acking" => Head(batch'[s]) \in handled'
    BY <1>1, <1>3, EmptyRun, Facts DEF BatchInv
  <2>2. \A s, r \in Subscriptions :
          s # r => ToSet(batch'[s]) \intersect ToSet(batch'[r]) = {}
    BY <1>3, EmptyRun, Facts DEF BatchInv
  <2> QED
    BY <2>1, <2>2 DEF BatchInv
<1>6. TypeOK' /\ PositionInv'
  BY <1>1, <1>2, <1>4, Facts, TypesOfStep
<1>7. PICK gone : gone = Taken \ Taken'
  OBVIOUS
<1>8. Taken' \subseteq Taken
  <2>1. \A s \in Subscriptions : Unhandled(s)' \subseteq Unhandled(s)
    BY <1>3
  <2> QED
    BY <2>1 DEF Taken
<1>9. gone \subseteq Messages /\ gone \subseteq delivered /\ gone \intersect handled = {}
  BY <1>7, TakenFacts
<1>10. ASSUME NEW m \in gone PROVE StatusOf(m) = "taken" /\ StatusOf(m)' = "lost"
  <2>1. m \in delivered /\ m \notin handled /\ m \in Taken /\ m \notin Taken'
    BY <1>7, <1>9
  <2>2. ~(m > published)
    BY <2>1, TakenFacts
  <2> QED
    BY <1>1, <2>1, <2>2 DEF StatusOf
<1>11. ASSUME NEW m \in Messages \ gone PROVE StatusOf(m)' = StatusOf(m)
  <2>1. m \in Taken' <=> m \in Taken
    BY <1>7, <1>8
  <2> QED
    BY <1>1, <2>1 DEF StatusOf
<1>12. [Abstract!Next]_Status
  <2>1. CASE gone = {}
    BY <1>11, <2>1, Stutter
  <2>2. CASE gone # {}
    <3>1. Abstract!Become(gone, {"taken"}, "lost")
      BY <1>9, <1>10, <1>11, Together
    <3> QED
      BY <1>9, <2>2, <3>1
      DEF Abstract!Next, Abstract!Lose, Abstract!Messages, Messages
  <2> QED
    BY <2>1, <2>2
<1> QED
  BY <1>5, <1>6, <1>12 DEF Goal, IInv

-----------------------------------------------------------------------------
(* The theorems.                                                           *)

LEMMA InitInv == Init => IInv /\ Abstract!Init
<1> SUFFICES ASSUME Init PROVE IInv /\ Abstract!Init
  OBVIOUS
<1>1. /\ published = 0 /\ trimmed = 0 /\ lastId = 0 /\ delivered = {} /\ acked = {}
      /\ handled = {} /\ failed = {} /\ consumer = 0 /\ unacked = 0 /\ interrupted = 0
      /\ task = [s \in Subscriptions |-> "none"] /\ batch = [s \in Subscriptions |-> <<>>]
  BY DEF Init
<1>2. \A s \in Subscriptions : task[s] = "none" /\ batch[s] = <<>> /\ Unhandled(s) = {}
  BY <1>1, EmptyRun DEF Unhandled
<1>3. TypeOK
  BY <1>1, <1>2, EmptyRun DEF TypeOK
<1>4. PositionInv /\ BatchInv
  BY <1>1, <1>2, EmptyRun DEF PositionInv, BatchInv
<1>5. \A m \in Messages : StatusOf(m) = "unpublished"
  BY <1>1 DEF StatusOf, Messages
<1>6. Abstract!Init
  BY <1>5 DEF Abstract!Init, Abstract!Messages, Messages, Status
<1> QED
  BY <1>3, <1>4, <1>6 DEF IInv

LEMMA NextInv == IInv /\ [Next]_vars => IInv' /\ [Abstract!Next]_Status
<1> SUFFICES ASSUME IInv, [Next]_vars PROVE Goal
  BY DEF Goal
<1>1. CASE Publish
  BY <1>1, PublishStep
<1>2. ASSUME NEW s \in Subscriptions,
             \/ Subscribe(s) \/ Read(s) \/ ReadFails(s) \/ Wake(s)
             \/ Handle(s) \/ HandlerFails(s) \/ Ack(s) \/ AckFails(s)
      PROVE  Goal
  BY <1>2, SubscribeStep, ReadStep, ReadFailsStep, WakeStep,
     HandleStep, HandlerFailsStep, AckStep, AckFailsStep
<1>3. CASE Close
  <2>1. PICK c : c = consumer
    OBVIOUS
  <2>2. c \in Subscriptions /\ End({c})
    BY <1>3, <2>1, Facts DEF Close, Alive
  <2> QED
    BY <2>2, EndStep
<1>4. CASE Crash
  <2>1. PICK S : S = Alive
    OBVIOUS
  <2>2. S \in SUBSET Subscriptions /\ End(S)
    BY <1>4, <2>1 DEF Crash, Alive
  <2> QED
    BY <2>2, EndStep
<1>5. CASE UNCHANGED vars
  <2>1. /\ UNCHANGED <<published, trimmed, lastId, delivered, acked, task, batch, consumer>>
        /\ UNCHANGED <<handled, failed, unacked, interrupted>>
    BY <1>5 DEF vars, streamVars
  <2>2. Taken' = Taken /\ Alive' = Alive
    BY <2>1 DEF Taken, Unhandled, Alive
  <2>3. TypeOK' /\ PositionInv'
    BY <2>1, <2>2, Facts, TypesOfStep
  <2>4. BatchInv'
    BY <2>1, Facts DEF BatchInv, Unhandled
  <2> QED
    BY <2>1, <2>2, <2>3, <2>4, SameStatus DEF Goal, IInv
<1> QED
  BY <1>1, <1>2, <1>3, <1>4, <1>5 DEF Next

(* The state keeps its types, and a task has a batch exactly while it works *)
(* on one (message_bus.py:76).                                              *)
THEOREM TypeCorrect == Spec => []TypeOK
<1>1. Spec => []IInv
  BY InitInv, NextInv, PTL DEF Spec
<1>2. IInv => TypeOK
  BY DEF IInv
<1> QED
  BY <1>1, <1>2, PTL

(* The bus implements the mailbox whatever fails: messages are taken in     *)
(* order and the handler returns for each at most once (message_bus.py:64). *)
THEOREM Refinement == Spec => ImplementsMailbox
<1>1. Spec => Abstract!Init /\ [][Abstract!Next]_Status
  BY InitInv, NextInv, PTL DEF Spec
<1> QED
  BY <1>1 DEF ImplementsMailbox, Abstract!Spec

-----------------------------------------------------------------------------
(* What is lost.                                                           *)

SizeInv == \A s \in Subscriptions : Len(batch[s]) <= BatchSize

LossInv == IInv /\ LossBounded /\ SizeInv

Stuck == (delivered \ acked) \ InBatch
Unserved == (delivered \ handled) \ InBatch

LEMMA Counted ==
    ASSUME NEW A \in SUBSET Messages
    PROVE  IsFiniteSet(A) /\ Cardinality(A) \in Nat
<1>1. IsFiniteSet(Messages)
  BY FS_Interval DEF Messages
<1> QED
  BY <1>1, FS_Subset, FS_CardinalityType

LEMMA CardOfUnion ==
    ASSUME NEW A \in SUBSET Messages, NEW B \in SUBSET Messages, NEW C \in SUBSET (A \union B)
    PROVE  Cardinality(C) <= Cardinality(A) + Cardinality(B)
<1>1. A \union B \in SUBSET Messages /\ A \intersect B \in SUBSET Messages /\ C \in SUBSET Messages
  OBVIOUS
<1>2. /\ IsFiniteSet(A) /\ IsFiniteSet(B) /\ IsFiniteSet(A \union B)
      /\ Cardinality(A) \in Nat /\ Cardinality(B) \in Nat /\ Cardinality(C) \in Nat
      /\ Cardinality(A \union B) \in Nat /\ Cardinality(A \intersect B) \in Nat
  BY <1>1, Counted
<1>3. Cardinality(C) <= Cardinality(A \union B)
  BY <1>2, FS_Subset
<1>4. Cardinality(A \union B) = Cardinality(A) + Cardinality(B) - Cardinality(A \intersect B)
  BY <1>2, FS_Union
<1> QED
  BY <1>2, <1>3, <1>4

LEMMA NoneCounted == Cardinality({}) = 0
BY FS_EmptySet

LEMMA LossSets ==
    ASSUME TypeOK
    PROVE  /\ Stuck \subseteq Messages /\ Unserved \subseteq Messages
           /\ failed \subseteq Messages /\ handled \subseteq Messages
           /\ unacked \in Nat /\ interrupted \in Nat
<1>1. delivered \subseteq Messages
  BY DEF TypeOK, Messages
<1> QED
  BY <1>1 DEF TypeOK, Stuck, Unserved

LEMMA LossSetsNext ==
    ASSUME TypeOK'
    PROVE  /\ Stuck' \subseteq Messages /\ Unserved' \subseteq Messages /\ failed' \subseteq Messages
           /\ unacked' \in Nat /\ interrupted' \in Nat
<1>1. delivered' \subseteq Messages
  BY DEF TypeOK, Messages
<1> QED
  BY <1>1 DEF TypeOK, Stuck, Unserved

LEMMA Product ==
    ASSUME NEW i \in Nat
    PROVE  BatchSize * i \in Nat /\ BatchSize * (i + 1) = BatchSize * i + BatchSize
OBVIOUS

\* A step may lose what it pays for.
LEMMA Paid ==
    ASSUME TypeOK, TypeOK', LossBounded,
           NEW A \in SUBSET Messages, NEW B \in SUBSET Messages,
           Stuck' \subseteq Stuck \union A, Unserved' \subseteq Unserved \union B,
           Cardinality(A) + Cardinality(failed) + unacked + BatchSize * interrupted
              <= Cardinality(failed') + unacked' + BatchSize * interrupted',
           Cardinality(B) + Cardinality(failed) + BatchSize * interrupted
              <= Cardinality(failed') + BatchSize * interrupted'
    PROVE  LossBounded'
<1>1. /\ Stuck \subseteq Messages /\ Unserved \subseteq Messages /\ failed \subseteq Messages
      /\ Stuck' \subseteq Messages /\ Unserved' \subseteq Messages /\ failed' \subseteq Messages
      /\ unacked \in Nat /\ interrupted \in Nat /\ unacked' \in Nat /\ interrupted' \in Nat
  BY LossSets, LossSetsNext
<1>2. /\ Cardinality(Stuck) \in Nat /\ Cardinality(Unserved) \in Nat
      /\ Cardinality(Stuck') \in Nat /\ Cardinality(Unserved') \in Nat
      /\ Cardinality(failed) \in Nat /\ Cardinality(failed') \in Nat
      /\ Cardinality(A) \in Nat /\ Cardinality(B) \in Nat
  BY <1>1, Counted
<1>3. PICK d, e : d = BatchSize * interrupted /\ e = BatchSize * interrupted'
  OBVIOUS
<1>4. d \in Nat /\ e \in Nat
  BY <1>1, <1>3, Product
<1>5. /\ Cardinality(Stuck') <= Cardinality(Stuck) + Cardinality(A)
      /\ Cardinality(Unserved') <= Cardinality(Unserved) + Cardinality(B)
  BY <1>1, CardOfUnion
<1>6. /\ Cardinality(Stuck) <= Cardinality(failed) + unacked + d
      /\ Cardinality(Unserved) <= Cardinality(failed) + d
  BY <1>3 DEF LossBounded, Stuck, Unserved
<1>7. /\ Cardinality(Stuck') <= Cardinality(failed') + unacked' + e
      /\ Cardinality(Unserved') <= Cardinality(failed') + e
  BY <1>1, <1>2, <1>3, <1>4, <1>5, <1>6
<1> QED
  BY <1>3, <1>7 DEF LossBounded, Stuck, Unserved

\* A step that loses nothing more.
LEMMA NothingLost ==
    ASSUME TypeOK, TypeOK', LossBounded, Stuck' \subseteq Stuck, Unserved' \subseteq Unserved,
           UNCHANGED <<failed, unacked, interrupted>>
    PROVE  LossBounded'
<1>1. failed \subseteq Messages /\ unacked \in Nat /\ interrupted \in Nat
  BY LossSets
<1>2. Cardinality(failed) \in Nat /\ BatchSize * interrupted \in Nat
  BY <1>1, Counted, Product
<1>3. PICK E : E = {}
  OBVIOUS
<1>4. E \in SUBSET Messages /\ Cardinality(E) = 0
  BY <1>3, NoneCounted
<1>5. Stuck' \subseteq Stuck \union E /\ Unserved' \subseteq Unserved \union E
  OBVIOUS
<1>6. UNCHANGED <<Cardinality(failed), BatchSize * interrupted>>
  OBVIOUS
<1>7. /\ Cardinality(E) + Cardinality(failed) + unacked + BatchSize * interrupted
            <= Cardinality(failed') + unacked' + BatchSize * interrupted'
      /\ Cardinality(E) + Cardinality(failed) + BatchSize * interrupted
            <= Cardinality(failed') + BatchSize * interrupted'
  BY <1>1, <1>2, <1>4, <1>6
<1> QED
  BY <1>4, <1>5, <1>7, Paid

\* What leaves the batch of one task.
LEMMA BatchesOf ==
    ASSUME NEW s \in Subscriptions, NEW b, NEW D,
           batch \in [Subscriptions -> Seq(Messages)], batch' = [batch EXCEPT ![s] = b],
           ToSet(batch[s]) \subseteq ToSet(b) \union D
    PROVE  InBatch \subseteq InBatch' \union D
<1>1. batch'[s] = b /\ \A r \in Subscriptions : r # s => batch'[r] = batch[r]
  OBVIOUS
<1>2. \A r \in Subscriptions : ToSet(batch[r]) \subseteq ToSet(batch'[r]) \union D
  BY <1>1
<1> QED
  BY <1>2 DEF InBatch

LEMMA SizeKept ==
    ASSUME TypeOK, SizeInv, NEW s \in Subscriptions, NEW b, batch' = [batch EXCEPT ![s] = b],
           Len(b) <= BatchSize
    PROVE  SizeInv'
<1>1. batch'[s] = b /\ \A r \in Subscriptions : r # s => batch'[r] = batch[r]
  BY DEF TypeOK
<1> QED
  BY <1>1 DEF SizeInv

LossGoal == LossBounded' /\ SizeInv'

LEMMA SameBatches ==
    ASSUME LossInv, TypeOK', UNCHANGED <<delivered, acked, batch, failed, unacked, interrupted>>,
           handled \subseteq handled'
    PROVE  LossGoal
<1>1. InBatch' = InBatch /\ SizeInv'
  BY DEF InBatch, SizeInv, LossInv
<1>2. Stuck' \subseteq Stuck /\ Unserved' \subseteq Unserved
  BY <1>1 DEF Stuck, Unserved
<1>3. LossBounded'
  BY <1>2, NothingLost DEF LossInv, IInv
<1> QED
  BY <1>1, <1>3 DEF LossGoal

LEMMA NewEntriesSize ==
    ASSUME IInv, Deliver
    PROVE  /\ NewEntries \in Seq(Messages) /\ Len(NewEntries) <= BatchSize
           /\ ToSet(NewEntries) \subseteq Messages
           /\ Cardinality(ToSet(NewEntries)) <= BatchSize
<1>1. PICK first, last : /\ first = Larger(lastId, trimmed) + 1
                         /\ last = Lesser(published, first + BatchSize - 1)
  OBVIOUS
<1>2. PICK b : b = NewEntries
  OBVIOUS
<1>3. /\ b \in Seq(Messages) /\ Consecutive(b) /\ b # <<>> /\ Last(b) = last
      /\ ToSet(b) = first..last /\ first \in Messages /\ last \in Messages
      /\ first <= last /\ last < first + BatchSize
  BY <1>1, <1>2, NewEntriesFacts DEF IInv, Deliver
<1>4. first \in Nat /\ last \in Nat
  BY <1>3 DEF Messages
<1>5. Len(b) \in Nat \ {0} /\ DOMAIN b = 1..Len(b)
  BY <1>3
<1>6. b[1] \in first..last /\ b[Len(b)] = last
  BY <1>3, <1>5 DEF ToSet, Last
<1>7. last = b[1] + Len(b) - 1
  BY <1>3, <1>5, <1>6 DEF Consecutive
<1>8. Len(b) <= BatchSize
  BY <1>3, <1>4, <1>5, <1>6, <1>7
<1>9. Cardinality(first..last) <= BatchSize
  BY <1>3, <1>4, FS_Interval
<1>10. first..last \subseteq Messages
  BY <1>3, <1>4 DEF Messages
<1> QED
  BY <1>2, <1>3, <1>8, <1>9, <1>10

LEMMA ReadLoss == ASSUME LossInv, TypeOK', NEW s \in Subscriptions, Read(s) PROVE LossGoal
<1>1. PICK b : b = NewEntries
  OBVIOUS
<1>2. /\ batch \in [Subscriptions -> Seq(Messages)] /\ batch[s] = <<>>
      /\ batch' = [batch EXCEPT ![s] = b] /\ delivered' = delivered \union ToSet(b)
      /\ UNCHANGED <<acked, handled, failed, unacked, interrupted>>
      /\ TypeOK /\ LossBounded /\ SizeInv /\ Len(b) <= BatchSize
  BY <1>1, Facts, NewEntriesSize DEF Read, Deliver, LossInv
<1>3. InBatch \subseteq InBatch' \union {}
  <2>1. ToSet(batch[s]) \subseteq ToSet(b) \union {}
    BY <1>2, EmptyRun
  <2> QED
    BY <1>2, <2>1, BatchesOf
<1>4. batch'[s] = b
  BY <1>2
<1>5. ToSet(b) \subseteq InBatch'
  BY <1>4 DEF InBatch
<1>6. Stuck' \subseteq Stuck /\ Unserved' \subseteq Unserved
  BY <1>2, <1>3, <1>5 DEF Stuck, Unserved
<1> QED
  BY <1>2, <1>6, NothingLost, SizeKept DEF LossGoal

LEMMA ReadFailsLoss ==
    ASSUME LossInv, TypeOK', NEW s \in Subscriptions, ReadFails(s)
    PROVE  LossGoal
<1>1. PICK A : A = IF Deliver THEN ToSet(NewEntries) ELSE {}
  OBVIOUS
<1>2. /\ UNCHANGED <<acked, batch, handled, failed, unacked>> /\ interrupted' = interrupted + 1
      /\ delivered' \subseteq delivered \union A
      /\ TypeOK /\ LossBounded /\ SizeInv /\ IInv
  BY <1>1 DEF ReadFails, Deliver, LossInv, IInv, streamVars
<1>3. A \in SUBSET Messages /\ Cardinality(A) \in Nat /\ Cardinality(A) <= BatchSize
  <2>1. CASE Deliver
    BY <1>1, <1>2, <2>1, NewEntriesSize, Counted
  <2>2. CASE ~Deliver
    BY <1>1, <2>2, NoneCounted
  <2> QED
    BY <2>1, <2>2
<1>4. InBatch' = InBatch /\ SizeInv'
  BY <1>2 DEF InBatch, SizeInv
<1>5. Stuck' \subseteq Stuck \union A /\ Unserved' \subseteq Unserved \union A
  BY <1>2, <1>4 DEF Stuck, Unserved
<1>6. /\ interrupted \in Nat /\ unacked \in Nat /\ Cardinality(failed) \in Nat
      /\ BatchSize * interrupted \in Nat
      /\ BatchSize * interrupted' = BatchSize * interrupted + BatchSize
  BY <1>2, LossSets, Counted, Product
<1>7. Cardinality(failed') = Cardinality(failed)
  BY <1>2
<1>8. /\ Cardinality(A) + Cardinality(failed) + unacked + BatchSize * interrupted
            <= Cardinality(failed') + unacked' + BatchSize * interrupted'
      /\ Cardinality(A) + Cardinality(failed) + BatchSize * interrupted
            <= Cardinality(failed') + BatchSize * interrupted'
  BY <1>2, <1>3, <1>6, <1>7
<1>9. LossBounded'
  BY <1>2, <1>3, <1>5, <1>8, Paid
<1> QED
  BY <1>4, <1>9 DEF LossGoal

\* A task done with an entry: nothing else leaves its batch.
LEMMA ProceedLoss ==
    ASSUME LossInv, NEW s \in Subscriptions, task[s] \in {"handling", "acking"}, Proceed(s),
           NEW h, h = Head(batch[s])
    PROVE  /\ InBatch \subseteq InBatch' \union {h} /\ SizeInv'
           /\ h \in Messages /\ IInv /\ TypeOK /\ LossBounded
           /\ task[s] = "handling" => h \notin failed
           /\ task[s] = "acking" => h \in handled
<1>1. PICK b : b = Tail(batch[s])
  OBVIOUS
<1>2. /\ batch \in [Subscriptions -> Seq(Messages)] /\ batch' = [batch EXCEPT ![s] = b]
      /\ IInv /\ TypeOK /\ LossBounded /\ SizeInv
  BY <1>1, Facts DEF Proceed, LossInv
<1>3. /\ batch[s] \in Seq(Messages) /\ batch[s] # <<>> /\ h \in Messages
      /\ ToSet(batch[s]) = ToSet(b) \union {h}
      /\ task[s] = "handling" => h \notin (handled \union failed)
      /\ task[s] = "acking" => h \in handled
  BY <1>1, <1>2, AtWork
<1>4. Len(b) = Len(batch[s]) - 1 /\ Len(batch[s]) \in Nat
  BY <1>1, <1>3
<1>5. Len(b) <= BatchSize
  BY <1>2, <1>4 DEF SizeInv
<1>6. InBatch \subseteq InBatch' \union {h}
  BY <1>2, <1>3, BatchesOf
<1>7. SizeInv'
  BY <1>2, <1>5, SizeKept
<1> QED
  BY <1>2, <1>3, <1>6, <1>7

LEMMA HandlerFailsLoss ==
    ASSUME LossInv, TypeOK', NEW s \in Subscriptions, HandlerFails(s)
    PROVE  LossGoal
<1>1. PICK h : h = Head(batch[s])
  OBVIOUS
<1>2. /\ task[s] = "handling" /\ Proceed(s) /\ failed' = failed \union {h}
      /\ UNCHANGED <<delivered, acked, handled, unacked, interrupted>>
  BY <1>1 DEF HandlerFails, streamVars
<1>3. /\ InBatch \subseteq InBatch' \union {h} /\ SizeInv' /\ h \in Messages /\ h \notin failed
      /\ TypeOK /\ LossBounded
  BY <1>1, <1>2, ProceedLoss
<1>4. Stuck' \subseteq Stuck \union {h} /\ Unserved' \subseteq Unserved \union {h}
  BY <1>2, <1>3 DEF Stuck, Unserved
<1>5. /\ failed \in SUBSET Messages /\ IsFiniteSet(failed) /\ Cardinality(failed) \in Nat
      /\ unacked \in Nat /\ BatchSize * interrupted \in Nat
  BY <1>3, LossSets, Counted, Product
<1>6. Cardinality(failed') = Cardinality(failed) + 1
  BY <1>2, <1>3, <1>5, FS_AddElement
<1>7. {h} \in SUBSET Messages /\ Cardinality({h}) = 1
  BY <1>3, FS_Singleton
<1>8. BatchSize * interrupted' = BatchSize * interrupted
  BY <1>2
<1>9. /\ Cardinality({h}) + Cardinality(failed) + unacked + BatchSize * interrupted
            <= Cardinality(failed') + unacked' + BatchSize * interrupted'
      /\ Cardinality({h}) + Cardinality(failed) + BatchSize * interrupted
            <= Cardinality(failed') + BatchSize * interrupted'
  BY <1>2, <1>5, <1>6, <1>7, <1>8
<1>10. LossBounded'
  BY <1>3, <1>4, <1>7, <1>9, Paid
<1> QED
  BY <1>3, <1>10 DEF LossGoal

LEMMA AckLoss == ASSUME LossInv, TypeOK', NEW s \in Subscriptions, Ack(s) PROVE LossGoal
<1>1. PICK h : h = Head(batch[s])
  OBVIOUS
<1>2. /\ task[s] = "acking" /\ Proceed(s) /\ acked' = acked \union {h}
      /\ UNCHANGED <<delivered, handled, failed, unacked, interrupted>>
  BY <1>1 DEF Ack
<1>3. /\ InBatch \subseteq InBatch' \union {h} /\ SizeInv' /\ h \in handled
      /\ TypeOK /\ LossBounded
  BY <1>1, <1>2, ProceedLoss
<1>4. Stuck' \subseteq Stuck /\ Unserved' \subseteq Unserved
  BY <1>2, <1>3 DEF Stuck, Unserved
<1> QED
  BY <1>2, <1>3, <1>4, NothingLost DEF LossGoal

LEMMA AckFailsLoss == ASSUME LossInv, TypeOK', NEW s \in Subscriptions, AckFails(s) PROVE LossGoal
<1>1. PICK h, E : h = Head(batch[s]) /\ E = {}
  OBVIOUS
<1>2. /\ task[s] = "acking" /\ Proceed(s) /\ unacked' = unacked + 1
      /\ UNCHANGED <<delivered, acked, handled, failed, interrupted>>
  BY DEF AckFails, streamVars
<1>3. /\ InBatch \subseteq InBatch' \union {h} /\ SizeInv' /\ h \in handled /\ h \in Messages
      /\ TypeOK /\ LossBounded
  BY <1>1, <1>2, ProceedLoss
<1>4. Stuck' \subseteq Stuck \union {h} /\ Unserved' \subseteq Unserved \union E
  BY <1>2, <1>3 DEF Stuck, Unserved
<1>5. /\ Cardinality(failed) \in Nat /\ unacked \in Nat /\ BatchSize * interrupted \in Nat
  BY <1>3, LossSets, Counted, Product
<1>6. {h} \in SUBSET Messages /\ Cardinality({h}) = 1 /\ E \in SUBSET Messages /\ Cardinality(E) = 0
  BY <1>1, <1>3, FS_Singleton, NoneCounted
<1>7. UNCHANGED <<Cardinality(failed), BatchSize * interrupted>>
  BY <1>2
<1>8. /\ Cardinality({h}) + Cardinality(failed) + unacked + BatchSize * interrupted
            <= Cardinality(failed') + unacked' + BatchSize * interrupted'
      /\ Cardinality(E) + Cardinality(failed) + BatchSize * interrupted
            <= Cardinality(failed') + BatchSize * interrupted'
  BY <1>2, <1>5, <1>6, <1>7
<1>9. LossBounded'
  BY <1>3, <1>4, <1>6, <1>8, Paid
<1> QED
  BY <1>3, <1>9 DEF LossGoal

\* The tasks of S hold at most a batch each.
LEMMA BatchesSize ==
    ASSUME LossInv, NEW S \in SUBSET Subscriptions,
           NEW N, N = UNION {ToSet(batch[s]) : s \in S}
    PROVE  N \in SUBSET Messages /\ Cardinality(N) <= Cardinality(S) * BatchSize
           /\ Cardinality(S) \in Nat
<1>1. /\ batch \in [Subscriptions -> Seq(Messages)]
      /\ \A s \in Subscriptions : Len(batch[s]) <= BatchSize
  BY Facts DEF LossInv, SizeInv
<1>2. IsFiniteSet(S) /\ Cardinality(S) \in Nat
  <2>1. IsFiniteSet(Subscriptions)
    BY FS_Interval DEF Subscriptions
  <2> QED
    BY <2>1, FS_Subset, FS_CardinalityType
<1>3. IsFiniteSet(1..BatchSize) /\ Cardinality(1..BatchSize) = BatchSize
  BY FS_Interval
<1>4. PICK P : P = S \X (1..BatchSize)
  OBVIOUS
<1>5. IsFiniteSet(P) /\ Cardinality(P) = Cardinality(S) * BatchSize
  BY <1>2, <1>3, <1>4, FS_Product
<1>6. \A m \in N : \E p \in P : m = batch[p[1]][p[2]]
  <2>1. ASSUME NEW m \in N PROVE \E p \in P : m = batch[p[1]][p[2]]
    <3>1. PICK s \in S : m \in ToSet(batch[s])
      OBVIOUS
    <3>2. batch[s] \in Seq(Messages) /\ Len(batch[s]) <= BatchSize
      BY <1>1
    <3>3. PICK k \in 1..Len(batch[s]) : m = batch[s][k]
      BY <3>1, <3>2 DEF ToSet
    <3>4. k \in 1..BatchSize
      BY <3>2, <3>3
    <3>5. <<s, k>> \in P /\ m = batch[<<s, k>>[1]][<<s, k>>[2]]
      BY <1>4, <3>3, <3>4
    <3> QED
      BY <3>5
  <2> QED
    BY <2>1
<1>7. N \in SUBSET Messages
  <2>1. \A s \in S : ToSet(batch[s]) \subseteq Messages
    BY <1>1 DEF ToSet
  <2> QED
    BY <2>1
<1>8. IsFiniteSet(N) /\ Cardinality(N) \in Nat
  BY <1>7, Counted
<1>9. PICK f : f = [m \in N |-> CHOOSE p \in P : m = batch[p[1]][p[2]]]
  OBVIOUS
<1>10. \A m \in N : f[m] \in P /\ m = batch[f[m][1]][f[m][2]]
  BY <1>6, <1>9
<1>11. f \in [N -> P]
  BY <1>9, <1>10
<1>12. \A x, y \in N : f[x] = f[y] => x = y
  BY <1>10
<1>13. Cardinality(P) \in Nat
  BY <1>5, FS_CardinalityType
<1>14. Cardinality(N) <= Cardinality(P)
  BY <1>5, <1>8, <1>11, <1>12, <1>13, FS_PigeonHole
<1> QED
  BY <1>2, <1>5, <1>7, <1>14

LEMMA Shares ==
    ASSUME NEW i \in Nat, NEW j \in Nat
    PROVE  BatchSize * (i + j) = BatchSize * i + j * BatchSize /\ j * BatchSize \in Nat
OBVIOUS

LEMMA EndLoss == ASSUME LossInv, TypeOK', NEW S \in SUBSET Subscriptions, End(S) PROVE LossGoal
<1>1. PICK N, c : N = UNION {ToSet(batch[s]) : s \in S} /\ c = Cardinality(S)
  OBVIOUS
<1>2. /\ batch' = [s \in Subscriptions |-> IF s \in S THEN <<>> ELSE batch[s]]
      /\ interrupted' = interrupted + c
      /\ UNCHANGED <<delivered, acked, handled, failed, unacked>>
      /\ TypeOK /\ LossBounded /\ SizeInv
  BY <1>1 DEF End, streamVars, LossInv, IInv
<1>3. N \in SUBSET Messages /\ Cardinality(N) <= c * BatchSize /\ c \in Nat
  BY <1>1, BatchesSize
<1>4. \A s \in Subscriptions : batch'[s] = IF s \in S THEN <<>> ELSE batch[s]
  BY <1>2
<1>5. InBatch \subseteq InBatch' \union N
  BY <1>1, <1>4 DEF InBatch
<1>6. SizeInv'
  BY <1>2, <1>4 DEF SizeInv
<1>7. Stuck' \subseteq Stuck \union N /\ Unserved' \subseteq Unserved \union N
  BY <1>2, <1>5 DEF Stuck, Unserved
<1>8. /\ interrupted \in Nat /\ unacked \in Nat
      /\ Cardinality(failed) \in Nat /\ Cardinality(N) \in Nat /\ BatchSize * interrupted \in Nat
  BY <1>2, <1>3, LossSets, Counted, Product
<1>9. BatchSize * interrupted' = BatchSize * interrupted + c * BatchSize /\ c * BatchSize \in Nat
  BY <1>2, <1>3, <1>8, Shares
<1>10. Cardinality(failed') = Cardinality(failed)
  BY <1>2
<1>11. /\ Cardinality(N) + Cardinality(failed) + unacked + BatchSize * interrupted
            <= Cardinality(failed') + unacked' + BatchSize * interrupted'
       /\ Cardinality(N) + Cardinality(failed) + BatchSize * interrupted
            <= Cardinality(failed') + BatchSize * interrupted'
  BY <1>2, <1>3, <1>8, <1>9, <1>10
<1>12. LossBounded'
  BY <1>2, <1>3, <1>7, <1>11, Paid
<1> QED
  BY <1>6, <1>12 DEF LossGoal

LEMMA InitLoss == Init => LossInv
<1> SUFFICES ASSUME Init PROVE LossInv
  OBVIOUS
<1>1. /\ IInv /\ TypeOK
  BY InitInv DEF IInv
<1>2. Stuck = {} /\ Unserved = {} /\ SizeInv
  BY DEF Init, Stuck, Unserved, SizeInv
<1>3. /\ Cardinality(failed) \in Nat /\ unacked \in Nat /\ BatchSize * interrupted \in Nat
  BY <1>1, LossSets, Counted, Product
<1>4. Cardinality(Stuck) = 0 /\ Cardinality(Unserved) = 0
  BY <1>2, NoneCounted
<1>5. LossBounded
  BY <1>3, <1>4 DEF LossBounded, Stuck, Unserved
<1> QED
  BY <1>1, <1>2, <1>5 DEF LossInv

LEMMA NextLoss == LossInv /\ [Next]_vars => LossInv'
<1> SUFFICES ASSUME LossInv, [Next]_vars PROVE LossInv'
  OBVIOUS
<1>1. IInv' /\ TypeOK'
  BY NextInv DEF LossInv, IInv
<1>2. CASE Publish \/ UNCHANGED vars
  BY <1>1, <1>2, SameBatches DEF Publish, vars, streamVars, LossGoal, LossInv
<1>3. ASSUME NEW s \in Subscriptions, Subscribe(s) \/ Wake(s) \/ Handle(s)
      PROVE  LossGoal
  BY <1>1, <1>3, SameBatches DEF Subscribe, Wake, Handle, streamVars
<1>4. ASSUME NEW s \in Subscriptions,
             Read(s) \/ ReadFails(s) \/ HandlerFails(s) \/ Ack(s) \/ AckFails(s)
      PROVE  LossGoal
  BY <1>1, <1>4, ReadLoss, ReadFailsLoss, HandlerFailsLoss, AckLoss, AckFailsLoss
<1>5. CASE Close
  <2>1. PICK c : c = consumer
    OBVIOUS
  <2>2. c \in Subscriptions /\ End({c})
    BY <1>5, <2>1, Facts DEF Close, Alive, LossInv
  <2> QED
    BY <1>1, <2>2, EndLoss DEF LossGoal, LossInv
<1>6. CASE Crash
  <2>1. PICK S : S = Alive
    OBVIOUS
  <2>2. S \in SUBSET Subscriptions /\ End(S)
    BY <1>6, <2>1 DEF Crash, Alive
  <2> QED
    BY <1>1, <2>2, EndLoss DEF LossGoal, LossInv
<1> QED
  BY <1>1, <1>2, <1>3, <1>4, <1>5, <1>6 DEF Next, LossGoal, LossInv

(* An entry that Redis keeps as pending and no task works on any more, or   *)
(* that no handler ever saw, is one whose handler or xack failed, or one of *)
(* a batch that an interruption cost (message_bus.py:76).                   *)
THEOREM LossIsBounded == Spec => []LossBounded
<1>1. Spec => []LossInv
  BY InitLoss, NextLoss, PTL DEF Spec
<1>2. LossInv => LossBounded
  BY DEF LossInv
<1> QED
  BY <1>1, <1>2, PTL
=============================================================================
