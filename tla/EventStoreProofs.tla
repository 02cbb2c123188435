-------------------------- MODULE EventStoreProofs --------------------------
(***************************************************************************)
(* Proofs about EventStore, for any set of worker processes, any set of    *)
(* tasks and any number of events, torn writes and restarts.               *)
(***************************************************************************)
EXTENDS EventStore, FiniteSetTheorems, TLAPS

USE BoundsAssumption, WorkersAssumption

-----------------------------------------------------------------------------
(* The inductive invariant.                                                *)

Busy == { w \in Writers : pc[w] # "idle" }
FileIds == { file[i].id : i \in 1..Len(file) }
Known == {0} \union FileIds

\* The events that a task or an orphaned thread may still write.
Pending == { event[w] : w \in { v \in Writers : pc[v] \in {"waiting", "writing"} } }
           \union orphans

\* Each task in append_event is in its worker's queue, once.
LockInv ==
    /\ \A w \in Writers : w \in Busy <=>
          \E k \in 1..Len(queue[WorkerOf[w]]) : queue[WorkerOf[w]][k] = w
    /\ \A a \in Workers :
          /\ \A j, k \in 1..Len(queue[a]) : queue[a][j] = queue[a][k] => j = k
          /\ \A k \in 1..Len(queue[a]) : WorkerOf[queue[a][k]] = a

\* Every event has an id of its own, and is written at most once.
TaskIds ==
    /\ \A w \in Writers :
          IF w \in Busy
            THEN event[w] \in Events /\ event[w].id <= signed /\ event[w].by = WorkerOf[w]
            ELSE event[w] = NoEvent
    /\ \A v, w \in Busy : event[v].id = event[w].id => v = w

OrphanIds ==
    /\ \A e \in orphans : e.id <= signed /\ \A w \in Busy : event[w].id # e.id
    /\ \A e, f \in orphans : e.id = f.id => e = f

StoredIds ==
    /\ \A e \in Pending : e.id \notin FileIds
    /\ \A w \in Writers : pc[w] = "written" => event[w].id \in FileIds
    /\ \A i \in 1..Len(file) : file[i].id <= signed
    /\ spoilt \subseteq FileIds
    /\ StoredOnce

IdInv == TaskIds /\ OrphanIds /\ StoredIds

\* What is or may be signed over is stored.
LinkInv ==
    /\ LinksAreStored /\ \A a \in Workers : chainHash[a] \in Known
    /\ \A e \in Pending : e.prev \in Known

ChainInv == TypeOK /\ LockInv /\ IdInv /\ LinkInv

Plain(e) == e.id \notin overlapped
Carried == { e \in Pending : ~ Plain(e) }
TailHash == IF file = <<>> THEN 0 ELSE file[Len(file)].id

\* Whether the next event that worker a signs alone would not verify behind its
\* last line, or the one it has signed alone will not.
Mismatch(a) ==
    IF \E w \in Writers : WorkerOf[w] = a /\ pc[w] = "written"
      THEN \E w \in Writers : WorkerOf[w] = a /\ pc[w] = "written" /\ event[w].id # TailHash
      ELSE chainHash[a] # TailHash
DueOf(a) ==
    IF \E e \in Pending : e.by = a /\ Plain(e)
      THEN \E e \in Pending : e.by = a /\ Plain(e) /\ e.prev # TailHash
      ELSE Mismatch(a)

\* Nothing verifies behind a line that cannot be read; behind another, it is the
\* author of that line whose next event counts.
Due == torn \/ (file # <<>> /\ (TailHash \in spoilt \/ DueOf(file[Len(file)].by)))

\* In each worker at most one pending event was signed alone; while nothing was
\* written since, all others name the same event.
PlainInv ==
    /\ \A e, f \in Pending : Plain(e) /\ Plain(f) /\ e.by = f.by => e = f
    /\ \A w \in Writers : pc[w] \in {"waiting", "writing"} /\ Plain(event[w]) =>
          pc[w] = "writing" /\ event[w].prev = chainHash[WorkerOf[w]]
    /\ \A e \in Pending : Plain(e) /\ e.prev = TailHash =>
          /\ chainHash[e.by] = TailHash
          /\ \A f \in Pending : f.by = e.by => f.prev = TailHash
          /\ \A w \in Writers : WorkerOf[w] = e.by => pc[w] # "written"

\* The lines that can be read, come from the author of the line before and are
\* not signed with its hash.
Before(i) == IF file[i - 1].id \in spoilt THEN 0 ELSE file[i - 1].id
Broken == { i \in 2..Len(file) : /\ file[i].id \notin spoilt
                                 /\ file[i].by = file[i - 1].by
                                 /\ file[i].prev # Before(i) }

\* Such a line, and each that is still to come, is paid for by an event signed
\* during another append, by a cancelled one or by a torn write.
DueOne == IF Due THEN 1 ELSE 0
CountInv ==
    /\ \A w \in Busy : event[w].id \notin cancelled
    /\ IsFiniteSet(Pending)
    /\ Cardinality(Broken) + Cardinality(Carried) + Cardinality(orphans) + DueOne
          <= Cardinality(overlapped) + Cardinality(cancelled) + tears

IInv == ChainInv /\ PlainInv /\ CountInv

-----------------------------------------------------------------------------
(* What the types say, and what the operators do.                          *)

LEMMA Facts ==
    ASSUME TypeOK
    PROVE  /\ file \in Seq(Events) /\ Len(file) \in Nat
           /\ (file = <<>> <=> Len(file) = 0)
           /\ \A a \in Workers : queue[a] \in Seq(Writers) /\ Len(queue[a]) \in Nat
           /\ \A i \in 1..Len(file) : /\ file[i] \in Events /\ file[i].id \in Nat \ {0}
                                      /\ file[i].id \in 1..MaxEvents /\ file[i].prev \in Nat
                                      /\ file[i].by \in Workers
           /\ \A e \in Events : /\ e.id \in 1..MaxEvents /\ e.prev \in 0..MaxEvents
                                /\ e.id \in Nat \ {0} /\ e.prev \in Nat /\ e.by \in Workers
           /\ signed \in Nat /\ MaxEvents \in Nat /\ tears \in Nat
           /\ \A a \in Workers : chainHash[a] \in 0..MaxEvents /\ chainHash[a] \in Nat
           /\ NoEvent.id = 0 /\ NoEvent \notin Events
           /\ \A w \in Writers : WorkerOf[w] \in Workers
<1>1. file \in Seq(Events) /\ signed \in Nat /\ tears \in Nat /\ MaxEvents \in Nat
  BY DEF TypeOK
<1>2. \A a \in Workers : chainHash[a] \in 0..MaxEvents /\ chainHash[a] \in Nat
  BY DEF TypeOK
<1>3. \A a \in Workers : queue[a] \in Seq(Writers) /\ Len(queue[a]) \in Nat
  BY DEF TypeOK
<1>4. \A e \in Events : /\ e.id \in 1..MaxEvents /\ e.prev \in 0..MaxEvents
                        /\ e.id \in Nat \ {0} /\ e.prev \in Nat /\ e.by \in Workers
  BY DEF Events
<1>5. NoEvent.id = 0 /\ NoEvent \notin Events
  BY <1>4 DEF NoEvent
<1>6. Len(file) \in Nat /\ \A i \in 1..Len(file) : file[i] \in Events
  BY <1>1
<1>7. file = <<>> <=> Len(file) = 0
  BY <1>1
<1> QED
  BY <1>1, <1>2, <1>3, <1>4, <1>5, <1>6, <1>7

LEMMA RemoveAtFacts ==
    ASSUME NEW S, NEW s \in Seq(S), NEW k \in 1..Len(s)
    PROVE  /\ RemoveAt(s, k) \in Seq(S) /\ Len(RemoveAt(s, k)) = Len(s) - 1
           /\ \A i \in 1..(k - 1) : RemoveAt(s, k)[i] = s[i]
           /\ \A i \in k..(Len(s) - 1) : RemoveAt(s, k)[i] = s[i + 1]
<1>1. PICK a : a = SubSeq(s, 1, k - 1)
  OBVIOUS
<1>2. PICK b : b = SubSeq(s, k + 1, Len(s))
  OBVIOUS
<1>3. /\ a \in Seq(S) /\ Len(a) = k - 1
      /\ \A i \in 1..(k - 1) : a[i] = s[i]
  BY <1>1
<1>4. /\ b \in Seq(S) /\ Len(b) = Len(s) - k
      /\ \A i \in 1..(Len(s) - k) : b[i] = s[k + i]
  BY <1>2
<1>5. RemoveAt(s, k) = a \o b
  BY <1>1, <1>2 DEF RemoveAt
<1>6. a \o b \in Seq(S) /\ Len(a \o b) = Len(s) - 1
  BY <1>3, <1>4
<1>7. \A i \in 1..(k - 1) : (a \o b)[i] = s[i]
  BY <1>3, <1>4
<1>8. \A i \in k..(Len(s) - 1) : (a \o b)[i] = b[i - (k - 1)]
  BY <1>3, <1>4
<1>9. \A i \in k..(Len(s) - 1) : b[i - (k - 1)] = s[i + 1]
  BY <1>4
<1> QED
  BY <1>5, <1>6, <1>7, <1>8, <1>9

\* What a queue r is that lacks the k-th task of q.
Shorter(q, k, r) ==
    /\ r \in Seq(Writers)
    /\ \A i, j \in 1..Len(r) : r[i] = r[j] => i = j
    /\ \A x : (\E i \in 1..Len(r) : r[i] = x) <=> (x # q[k] /\ \E i \in 1..Len(q) : q[i] = x)
    /\ r # <<>> => Head(r) # q[k] /\ \E i \in 1..Len(r) : r[i] = Head(r)
    /\ Head(q) # q[k] => r # <<>> /\ Head(r) = Head(q)

LEMMA QueueLeaves ==
    ASSUME NEW q \in Seq(Writers), NEW k \in 1..Len(q), NEW r, r = RemoveAt(q, k),
           \A i, j \in 1..Len(q) : q[i] = q[j] => i = j
    PROVE  Shorter(q, k, r)
<1>1. /\ r \in Seq(Writers) /\ Len(r) = Len(q) - 1
      /\ \A i \in 1..(k - 1) : r[i] = q[i]
      /\ \A i \in k..(Len(q) - 1) : r[i] = q[i + 1]
  BY RemoveAtFacts
<1>2. Len(q) \in Nat /\ k \in Nat /\ k > 0
  OBVIOUS
<1>3. \A i, j \in 1..Len(r) : r[i] = r[j] => i = j
  <2> DEFINE at(i) == IF i < k THEN i ELSE i + 1
  <2>1. \A i \in 1..Len(r) : at(i) \in 1..Len(q) /\ r[i] = q[at(i)]
    BY <1>1, <1>2, SMTT(30)
  <2>2. \A i, j \in 1..Len(r) : at(i) = at(j) => i = j
    OBVIOUS
  <2> HIDE DEF at
  <2> SUFFICES ASSUME NEW i \in 1..Len(r), NEW j \in 1..Len(r), r[i] = r[j] PROVE i = j
    OBVIOUS
  <2>3. q[at(i)] = q[at(j)]
    BY <2>1
  <2>4. at(i) = at(j)
    BY <2>1, <2>3
  <2> QED
    BY <2>2, <2>4
<1>4. ASSUME NEW i \in 1..Len(r) PROVE r[i] # q[k] /\ \E j \in 1..Len(q) : q[j] = r[i]
  BY <1>1, <1>2, SMTT(30)
<1>5. ASSUME NEW j \in 1..Len(q), q[j] # q[k] PROVE \E i \in 1..Len(r) : r[i] = q[j]
  <2>1. CASE j < k
    BY <2>1, <1>1, <1>2
  <2>2. CASE j > k
    <3>1. j - 1 \in k..(Len(q) - 1) /\ (j - 1) + 1 = j /\ j - 1 \in 1..Len(r)
      BY <2>2, <1>1, <1>2
    <3> QED
      BY <3>1, <1>1
  <2> QED
    BY <2>1, <2>2, <1>2, <1>5
<1>6. r # <<>> => Head(r) = r[1] /\ 1 \in 1..Len(r)
  BY <1>1, <1>2
<1>7. r # <<>> => Head(r) # q[k] /\ \E i \in 1..Len(r) : r[i] = Head(r)
  BY <1>4, <1>6
<1>8. Head(q) # q[k] => r # <<>> /\ Head(r) = Head(q)
  <2> SUFFICES ASSUME Head(q) # q[k] PROVE r # <<>> /\ Head(r) = Head(q)
    OBVIOUS
  <2>1. Head(q) = q[1] /\ k # 1
    BY <1>2
  <2>2. 1 \in 1..(k - 1) /\ Len(r) > 0
    BY <2>1, <1>1, <1>2
  <2>3. r # <<>>
    BY <2>2, <1>1
  <2> QED
    BY <2>1, <2>2, <2>3, <1>1, <1>6
<1>9. \A x : (\E i \in 1..Len(r) : r[i] = x) <=> (x # q[k] /\ \E i \in 1..Len(q) : q[i] = x)
  BY <1>4, <1>5, SMTT(30)
<1> QED
  BY <1>1, <1>3, <1>7, <1>8, <1>9 DEF Shorter

\* What it means that w leaves the lock.
Left(w) ==
    /\ w \in Busy /\ queue' \in [Workers -> Seq(Writers)] /\ LockInv'
    /\ Busy' = Busy \ {w}
    /\ \A x \in Writers : pc'[x] \in {"writing", "written"} <=>
          (queue'[WorkerOf[x]] # <<>> /\ x = Head(queue'[WorkerOf[x]]))
    /\ pc' \in [Writers -> {"idle", "waiting", "writing", "written"}] /\ pc'[w] = "idle"
    /\ \A x \in Writers \ {w} : /\ pc'[x] = "written" <=> pc[x] = "written"
                                /\ pc'[x] = pc[x] \/ (pc[x] = "waiting" /\ pc'[x] = "writing")
    /\ event' \in [Writers -> Events \union {NoEvent}] /\ event'[w] = NoEvent
    /\ \A x \in Writers \ {w} : event'[x] = event[x]

LEMMA ReleaseLeaves ==
    ASSUME TypeOK, LockInv, NEW w \in Writers, Release(w) PROVE Left(w)
<1>1. PICK a : a = WorkerOf[w]
  OBVIOUS
<1>2. a \in Workers /\ queue \in [Workers -> Seq(Writers)]
  BY <1>1, Facts DEF TypeOK
<1>3. PICK q : q = queue[a]
  OBVIOUS
<1>4. q \in Seq(Writers)
  BY <1>2, <1>3
<1>5. PICK k \in 1..Len(q) : q[k] = w /\ queue' = [queue EXCEPT ![a] = RemoveAt(q, k)]
  <2>1. \E k \in DOMAIN queue[a] :
          queue[a][k] = w /\ queue' = [queue EXCEPT ![a] = RemoveAt(queue[a], k)]
    BY <1>1, Zenon DEF Release
  <2>2. DOMAIN q = 1..Len(q)
    BY <1>4
  <2> QED
    BY <2>1, <2>2, <1>3, Zenon
<1>6. PICK r : r = RemoveAt(q, k)
  OBVIOUS
<1>7. \A i, j \in 1..Len(q) : q[i] = q[j] => i = j
  BY <1>2, <1>3 DEF LockInv
<1>8. /\ r \in Seq(Writers)
      /\ \A i, j \in 1..Len(r) : r[i] = r[j] => i = j
      /\ \A x : (\E i \in 1..Len(r) : r[i] = x) <=> (x # w /\ \E i \in 1..Len(q) : q[i] = x)
      /\ r # <<>> => Head(r) # w /\ \E i \in 1..Len(r) : r[i] = Head(r)
      /\ Head(q) # w => r # <<>> /\ Head(r) = Head(q)
  <2>1. k \in 1..Len(q)
    OBVIOUS
  <2>2. Shorter(q, k, r)
    BY <2>1, <1>4, <1>6, <1>7, QueueLeaves
  <2> QED
    BY <2>2, <1>5 DEF Shorter
<1>9. /\ queue' \in [Workers -> Seq(Writers)] /\ queue'[a] = r
      /\ \A b \in Workers \ {a} : queue'[b] = queue[b]
  BY <1>2, <1>5, <1>6, <1>8
<1>10. /\ pc \in [Writers -> {"idle", "waiting", "writing", "written"}]
       /\ pc' = [x \in Writers |->
                 IF x = w THEN "idle"
                 ELSE IF queue'[WorkerOf[x]] # <<>> /\ x = Head(queue'[WorkerOf[x]])
                         /\ pc[x] = "waiting"
                   THEN "writing" ELSE pc[x]]
  BY DEF Release, TypeOK
<1>11. pc'[w] = "idle" /\ \A x \in Writers \ {w} :
        /\ pc'[x] = "written" <=> pc[x] = "written"
        /\ pc'[x] = pc[x] \/ (pc[x] = "waiting" /\ pc'[x] = "writing")
        /\ pc'[x] # "idle" <=> pc[x] # "idle"
  BY <1>10
<1>12. w \in Busy
  BY <1>1, <1>3, <1>5 DEF LockInv
<1>13. Busy' = Busy \ {w}
  BY <1>11 DEF Busy
<1>14. \A x \in Writers : WorkerOf[x] \in Workers
  BY Facts
<1>15. LockInv'
  <2>1. ASSUME NEW x \in Writers
        PROVE  x \in Busy' <=> \E i \in 1..Len(queue'[WorkerOf[x]]) : queue'[WorkerOf[x]][i] = x
    <3>1. CASE WorkerOf[x] = a
      <4>1. (x \in Busy <=> \E i \in 1..Len(q) : q[i] = x)
        BY <3>1, <1>3 DEF LockInv
      <4>2. x \in Busy' <=> (x # w /\ \E i \in 1..Len(q) : q[i] = x)
        BY <4>1, <1>13
      <4>3. x \in Busy' <=> \E i \in 1..Len(r) : r[i] = x
        BY <4>2, <1>8
      <4> QED
        BY <4>3, <3>1, <1>9
    <3>2. CASE WorkerOf[x] # a
      <4>1. x # w /\ queue'[WorkerOf[x]] = queue[WorkerOf[x]]
        BY <3>2, <1>1, <1>9, <1>14
      <4> QED
        BY <4>1, <1>13 DEF LockInv
    <3> QED
      BY <3>1, <3>2
  <2>2. ASSUME NEW b \in Workers
        PROVE  /\ \A j, i \in 1..Len(queue'[b]) : queue'[b][j] = queue'[b][i] => j = i
               /\ \A i \in 1..Len(queue'[b]) : WorkerOf[queue'[b][i]] = b
    <3>1. CASE b = a
      <4>1. \A i \in 1..Len(r) : \E j \in 1..Len(q) : q[j] = r[i]
        BY <1>8
      <4>2. \A j \in 1..Len(q) : WorkerOf[q[j]] = a
        BY <1>2, <1>3 DEF LockInv
      <4>3. \A i \in 1..Len(r) : WorkerOf[r[i]] = a
        BY <4>1, <4>2
      <4> QED
        BY <4>3, <3>1, <1>8, <1>9
    <3>2. CASE b # a
      <4>1. queue'[b] = queue[b]
        BY <3>2, <1>9
      <4> QED
        BY <4>1 DEF LockInv
    <3> QED
      BY <3>1, <3>2
  <2> QED
    BY <2>1, <2>2 DEF LockInv
<1>16. \A x \in Writers : pc'[x] \in {"writing", "written"} <=>
          (queue'[WorkerOf[x]] # <<>> /\ x = Head(queue'[WorkerOf[x]]))
  <2> SUFFICES ASSUME NEW x \in Writers
               PROVE  pc'[x] \in {"writing", "written"} <=>
                        (queue'[WorkerOf[x]] # <<>> /\ x = Head(queue'[WorkerOf[x]]))
    OBVIOUS
  <2>1. CASE x = w
    BY <2>1, <1>1, <1>8, <1>9, <1>11
  <2>2. CASE x # w /\ WorkerOf[x] # a
    <3>1. queue'[WorkerOf[x]] = queue[WorkerOf[x]]
      BY <2>2, <1>9, <1>14
    <3>2. pc[x] \in {"writing", "written"} <=>
            (queue[WorkerOf[x]] # <<>> /\ x = Head(queue[WorkerOf[x]]))
      BY DEF TypeOK
    <3> QED
      BY <2>2, <3>1, <3>2, <1>10
  <2>3. CASE x # w /\ WorkerOf[x] = a
    <3>1. pc[x] \in {"writing", "written"} <=> (q # <<>> /\ x = Head(q))
      BY <2>3, <1>3 DEF TypeOK
    <3>2. queue'[WorkerOf[x]] = r
      BY <2>3, <1>9
    <3>3. CASE r # <<>> /\ x = Head(r)
      <4>1. x \in Busy
        <5>1. \E i \in 1..Len(q) : q[i] = x
          BY <3>3, <1>8
        <5> QED
          BY <5>1, <2>3, <1>3 DEF LockInv
      <4>2. pc[x] \in {"waiting", "writing", "written"}
        BY <4>1, <1>10 DEF Busy
      <4> QED
        BY <2>3, <3>2, <3>3, <4>2, <1>10
    <3>4. CASE ~ (r # <<>> /\ x = Head(r))
      <4>1. pc'[x] = pc[x]
        BY <2>3, <3>2, <3>4, <1>10
      <4>2. ~ (q # <<>> /\ x = Head(q))
        BY <2>3, <3>4, <1>8
      <4> QED
        BY <3>1, <3>2, <3>4, <4>1, <4>2
    <3> QED
      BY <3>3, <3>4
  <2> QED
    BY <2>1, <2>2, <2>3
<1>17. pc' \in [Writers -> {"idle", "waiting", "writing", "written"}]
  BY <1>10
<1>18. /\ event' \in [Writers -> Events \union {NoEvent}] /\ event'[w] = NoEvent
       /\ \A x \in Writers \ {w} : event'[x] = event[x]
  BY DEF Release, TypeOK
<1> QED
  BY <1>9, <1>11, <1>12, <1>13, <1>15, <1>16, <1>17, <1>18 DEF Left

\* What an event added to the file changes.
Added(e) ==
    /\ file' \in Seq(Events) /\ Len(file') = Len(file) + 1 /\ file'[Len(file) + 1] = e
    /\ \A i \in 1..Len(file) : file'[i] = file[i]
    /\ FileIds' = FileIds \union {e.id} /\ TailHash' = e.id
    /\ torn' = FALSE /\ tears' = tears
    /\ spoilt' = IF torn THEN spoilt \union {e.id} ELSE spoilt

LEMMA AppendAdds ==
    ASSUME TypeOK, NEW e \in Events, WriteLine(e) PROVE Added(e)
<1>1. file \in Seq(Events) /\ Len(file) \in Nat /\ file' = Append(file, e)
  BY Facts DEF WriteLine
<1>2. /\ file' \in Seq(Events) /\ Len(file') = Len(file) + 1 /\ file'[Len(file) + 1] = e
      /\ \A i \in 1..Len(file) : file'[i] = file[i]
  BY <1>1
<1>3. FileIds' = FileIds \union {e.id}
  <2>1. ASSUME NEW i \in 1..Len(file') PROVE file'[i].id \in FileIds \union {e.id}
    <3>1. CASE i \in 1..Len(file)
      BY <3>1, <1>2 DEF FileIds
    <3>2. CASE i = Len(file) + 1
      BY <3>2, <1>2
    <3> QED
      BY <3>1, <3>2, <1>1, <1>2
  <2>2. ASSUME NEW i \in 1..Len(file) PROVE file[i].id \in FileIds'
    BY <1>1, <1>2 DEF FileIds
  <2>3. e.id \in FileIds'
    BY <1>1, <1>2 DEF FileIds
  <2>4. FileIds' \subseteq FileIds \union {e.id}
    BY <2>1 DEF FileIds
  <2>5. FileIds \subseteq FileIds'
    BY <2>2 DEF FileIds
  <2> QED
    BY <2>3, <2>4, <2>5
<1>4. TailHash' = e.id
  <2>1. file' # <<>>
    BY <1>1, <1>2
  <2> QED
    BY <1>1, <1>2, <2>1 DEF TailHash
<1> QED
  BY <1>2, <1>3, <1>4 DEF Added, WriteLine

\* What a write that fails leaves of the file.
Kept ==
    /\ file' = file /\ spoilt' = spoilt
    /\ \/ torn' = torn /\ tears' = tears
       \/ torn' = TRUE /\ tears' = tears + 1 /\ tears < MaxTears

LEMMA FileKept == UNCHANGED fileVars \/ TearLine => Kept
BY DEF fileVars, TearLine, Kept

LEMMA FileTypes ==
    ASSUME TypeOK, Kept \/ \E e \in Events : e.id \in 1..signed /\ Added(e)
    PROVE  /\ file' \in Seq(Events) /\ torn' \in BOOLEAN /\ tears' \in 0..MaxTears
           /\ spoilt' \subseteq 1..signed
<1>1. /\ file \in Seq(Events) /\ torn \in BOOLEAN /\ tears \in 0..MaxTears
      /\ spoilt \subseteq 1..signed /\ MaxTears \in Nat
  BY DEF TypeOK
<1>2. CASE Kept
  <2>1. file' \in Seq(Events) /\ spoilt' \subseteq 1..signed /\ torn' \in BOOLEAN
    BY <1>1, <1>2 DEF Kept
  <2>2. tears' = tears \/ (tears' = tears + 1 /\ tears < MaxTears)
    BY <1>2 DEF Kept
  <2>3. tears' \in 0..MaxTears
    BY <1>1, <2>2
  <2> QED
    BY <2>1, <2>3
<1>3. CASE \E e \in Events : e.id \in 1..signed /\ Added(e)
  <2>1. PICK e \in Events : e.id \in 1..signed /\ Added(e)
    BY <1>3
  <2>2. file' \in Seq(Events) /\ torn' = FALSE /\ tears' = tears
    BY <2>1 DEF Added
  <2>3. spoilt' = spoilt \/ spoilt' = spoilt \union {e.id}
    BY <2>1 DEF Added
  <2> QED
    BY <1>1, <2>1, <2>2, <2>3
<1> QED
  BY <1>2, <1>3

LEMMA SpoiltFacts ==
    ASSUME TypeOK PROVE IsFiniteSet(spoilt) /\ Cardinality(spoilt) \in Nat
<1>1. IsFiniteSet(1..signed)
  BY FS_Interval, Facts
<1> QED
  BY <1>1, FS_Subset, FS_CardinalityType DEF TypeOK

LEMMA PendingFacts ==
    ASSUME TypeOK, TaskIds, OrphanIds
    PROVE  /\ \A e \in Pending : e \in Events /\ e.id <= signed /\ e.id \in Nat \ {0}
                                /\ e.by \in Workers
           /\ \A e, f \in Pending : e.id = f.id => e = f
           /\ \A e \in Pending, w \in Writers : pc[w] = "written" => event[w].id # e.id
<1>1. \A w \in Writers : pc[w] \in {"waiting", "writing", "written"} => w \in Busy
  BY DEF Busy
<1>2. \A e \in Pending : e \in orphans
        \/ \E w \in Writers : pc[w] \in {"waiting", "writing"} /\ w \in Busy /\ e = event[w]
  BY <1>1 DEF Pending
<1>3. \A e \in Pending : e \in Events /\ e.id <= signed
  BY <1>2 DEF TypeOK, TaskIds, OrphanIds
<1>4. \A e, f \in Pending : e.id = f.id => e = f
  BY <1>2 DEF TaskIds, OrphanIds
<1>5. \A e \in Pending, w \in Writers : pc[w] = "written" => event[w].id # e.id
  <2> SUFFICES ASSUME NEW e \in Pending, NEW w \in Writers, pc[w] = "written"
               PROVE  event[w].id # e.id
    OBVIOUS
  <2>1. CASE e \in orphans
    BY <2>1, <1>1 DEF OrphanIds
  <2>2. CASE \E v \in Writers : pc[v] \in {"waiting", "writing"} /\ v \in Busy /\ e = event[v]
    BY <2>2, <1>1 DEF TaskIds
  <2> QED
    BY <2>1, <2>2, <1>2
<1> QED
  BY <1>3, <1>4, <1>5, Facts

-----------------------------------------------------------------------------
(* The types, the lock and the ids.                                        *)

LEMMA InitChain == Init => ChainInv
<1> SUFFICES ASSUME Init PROVE ChainInv
  OBVIOUS
<1>1. Len(file) = 0 /\ Pending = {} /\ FileIds = {} /\ Busy = {}
  BY DEF Init, Pending, FileIds, Busy
<1>2. TypeOK
  <2>1. /\ \A w \in Writers : pc[w] = "idle" /\ queue[WorkerOf[w]] = <<>>
        /\ pc \in [Writers -> {"idle", "waiting", "writing", "written"}]
        /\ queue \in [Workers -> Seq(Writers)] /\ event \in [Writers -> Events \union {NoEvent}]
    BY DEF Init
  <2>2. /\ 0 \in 0..MaxEvents /\ 0 \in 0..MaxRestarts /\ 0 \in 0..MaxTears
        /\ chainHash \in [Workers -> 0..MaxEvents]
    BY DEF Init
  <2>3. \A w \in Writers : pc[w] \in {"writing", "written"} <=>
          (queue[WorkerOf[w]] # <<>> /\ w = Head(queue[WorkerOf[w]]))
    BY <2>1
  <2>4. /\ file \in Seq(Events) /\ orphans \subseteq Events
        /\ {spoilt, stored, overlapped, cancelled} \subseteq SUBSET (1..signed)
    BY DEF Init
  <2>5. torn \in BOOLEAN
    BY DEF Init
  <2>6. signed \in 0..MaxEvents /\ restarts \in 0..MaxRestarts /\ tears \in 0..MaxTears
    BY <2>2 DEF Init
  <2> QED
    BY <2>1, <2>2, <2>3, <2>4, <2>5, <2>6 DEF TypeOK
<1>3. LockInv
  <2>1. \A a \in Workers : queue[a] = <<>> /\ Len(queue[a]) = 0
    BY DEF Init
  <2> QED
    BY <2>1, <1>1 DEF LockInv
<1>4. StoredOnce
  <2>1. Cardinality(spoilt) = 0
    BY FS_EmptySet DEF Init
  <2> QED
    BY <2>1, <1>1 DEF Init, StoredOnce
<1>5. TaskIds /\ OrphanIds
  BY <1>1 DEF Init, TaskIds, OrphanIds
<1>6. StoredIds
  BY <1>1, <1>4 DEF Init, StoredIds
<1>7. LinkInv
  BY <1>1 DEF Init, LinkInv, LinksAreStored, Known
<1> QED
  BY <1>2, <1>3, <1>5, <1>6, <1>7 DEF ChainInv, IdInv

LEMMA SignTakes ==
    ASSUME TypeOK, LockInv, NEW w \in Writers, Sign(w) PROVE TypeOK' /\ LockInv' /\ Busy' = Busy \union {w}
<1>1. PICK a : a = WorkerOf[w]
  OBVIOUS
<1>2. PICK q : q = queue[a]
  OBVIOUS
<1>3. PICK r : r = Append(q, w)
  OBVIOUS
<1>4. /\ a \in Workers /\ queue \in [Workers -> Seq(Writers)]
      /\ q \in Seq(Writers) /\ Len(q) \in Nat /\ queue' = [queue EXCEPT ![a] = r]
  BY <1>1, <1>2, <1>3, Facts DEF Sign, Signed, TypeOK
<1>5. /\ r \in Seq(Writers) /\ Len(r) = Len(q) + 1 /\ r[Len(q) + 1] = w
      /\ \A k \in 1..Len(q) : r[k] = q[k]
      /\ \A k : k \in 1..Len(r) <=> (k \in 1..Len(q) \/ k = Len(q) + 1)
      /\ Len(q) + 1 \notin 1..Len(q)
  <2>1. /\ r \in Seq(Writers) /\ Len(r) = Len(q) + 1 /\ r[Len(q) + 1] = w
        /\ \A k \in 1..Len(q) : r[k] = q[k]
    BY <1>3, <1>4
  <2>2. /\ \A k : k \in 1..(Len(q) + 1) <=> (k \in 1..Len(q) \/ k = Len(q) + 1)
        /\ Len(q) + 1 \notin 1..Len(q)
    BY <1>4
  <2> QED
    BY <2>1, <2>2
<1>6. /\ queue' \in [Workers -> Seq(Writers)] /\ queue'[a] = r
      /\ \A b \in Workers \ {a} : queue'[b] = queue[b]
  BY <1>4, <1>5
<1>7. /\ pc \in [Writers -> {"idle", "waiting", "writing", "written"}] /\ w \notin Busy
      /\ pc' = [pc EXCEPT ![w] = IF q = <<>> THEN "writing" ELSE "waiting"]
  BY <1>1, <1>2 DEF Sign, Signed, TypeOK, Busy
<1>8. Busy' = Busy \union {w}
  BY <1>7 DEF Busy
<1>9. \A x \in Writers : WorkerOf[x] \in Workers
  BY Facts
<1>10. \A k \in 1..Len(q) : q[k] # w
  BY <1>1, <1>2, <1>7 DEF LockInv
<1>11. LockInv'
  <2>1. \A x : (\E k \in 1..Len(r) : r[k] = x) <=> (x = w \/ \E k \in 1..Len(q) : q[k] = x)
    BY <1>5
  <2>2. ASSUME NEW x \in Writers
        PROVE  x \in Busy' <=> \E k \in 1..Len(queue'[WorkerOf[x]]) : queue'[WorkerOf[x]][k] = x
    <3>1. CASE WorkerOf[x] = a
      <4>1. x \in Busy <=> \E k \in 1..Len(q) : q[k] = x
        BY <3>1, <1>2 DEF LockInv
      <4>2. x \in Busy' <=> \E k \in 1..Len(r) : r[k] = x
        BY <4>1, <2>1, <1>8
      <4> QED
        BY <4>2, <3>1, <1>6
    <3>2. CASE WorkerOf[x] # a
      <4>1. x # w /\ queue'[WorkerOf[x]] = queue[WorkerOf[x]]
        BY <3>2, <1>1, <1>6, <1>9
      <4> QED
        BY <4>1, <1>8 DEF LockInv
    <3> QED
      BY <3>1, <3>2
  <2>3. ASSUME NEW b \in Workers
        PROVE  /\ \A j, i \in 1..Len(queue'[b]) : queue'[b][j] = queue'[b][i] => j = i
               /\ \A i \in 1..Len(queue'[b]) : WorkerOf[queue'[b][i]] = b
    <3>1. CASE b = a
      <4>1. \A j, i \in 1..Len(q) : q[j] = q[i] => j = i
        BY <1>2, <1>4 DEF LockInv
      <4>2. \A i \in 1..Len(q) : WorkerOf[q[i]] = a
        BY <1>2, <1>4 DEF LockInv
      <4>3. \A j, i \in 1..Len(r) : r[j] = r[i] => j = i
        BY <4>1, <1>5, <1>10
      <4>4. \A i \in 1..Len(r) : WorkerOf[r[i]] = a
        BY <4>2, <1>1, <1>5
      <4> QED
        BY <4>3, <4>4, <3>1, <1>6
    <3>2. CASE b # a
      <4>1. queue'[b] = queue[b]
        BY <3>2, <1>6
      <4> QED
        BY <4>1 DEF LockInv
    <3> QED
      BY <3>1, <3>2
  <2> QED
    BY <2>2, <2>3 DEF LockInv
<1>12. \A x \in Writers : pc'[x] \in {"writing", "written"} <=>
          (queue'[WorkerOf[x]] # <<>> /\ x = Head(queue'[WorkerOf[x]]))
  <2>1. r # <<>> /\ Head(r) = r[1] /\ 1 \in 1..Len(r)
    BY <1>4, <1>5
  <2> SUFFICES ASSUME NEW x \in Writers
               PROVE  pc'[x] \in {"writing", "written"} <=>
                        (queue'[WorkerOf[x]] # <<>> /\ x = Head(queue'[WorkerOf[x]]))
    OBVIOUS
  <2>2. pc[x] \in {"writing", "written"} <=>
          (queue[WorkerOf[x]] # <<>> /\ x = Head(queue[WorkerOf[x]]))
    BY DEF TypeOK
  <2>3. CASE WorkerOf[x] # a
    <3>1. x # w /\ queue'[WorkerOf[x]] = queue[WorkerOf[x]]
      BY <2>3, <1>1, <1>6, <1>9
    <3> QED
      BY <2>2, <3>1, <1>7
  <2>4. CASE WorkerOf[x] = a /\ q = <<>>
    <3>1. r[1] = w
      BY <2>4, <1>5
    <3>2. x # w => x \notin Busy
      BY <2>4, <1>2 DEF LockInv
    <3> QED
      BY <2>1, <2>4, <3>1, <3>2, <1>6, <1>7 DEF Busy
  <2>5. CASE WorkerOf[x] = a /\ q # <<>>
    <3>1. Head(q) = q[1] /\ 1 \in 1..Len(q)
      BY <2>5, <1>4
    <3>2. Head(r) = Head(q) /\ Head(q) # w
      BY <2>1, <3>1, <1>5, <1>10
    <3>3. x = w => pc'[x] = "waiting"
      BY <2>5, <1>7
    <3>4. x # w => pc'[x] = pc[x]
      BY <1>7
    <3> QED
      BY <2>1, <2>2, <2>5, <3>2, <3>3, <3>4, <1>2, <1>6
  <2> QED
    BY <2>3, <2>4, <2>5
<1>13. /\ signed \in 0..MaxEvents /\ signed < MaxEvents /\ signed' = signed + 1 /\ MaxEvents \in Nat
       /\ event' = [event EXCEPT ![w] = [id |-> signed', prev |-> chainHash[a], by |-> a]]
       /\ chainHash[a] \in 0..MaxEvents /\ event \in [Writers -> Events \union {NoEvent}]
  BY <1>1, <1>4 DEF Sign, Signed, TypeOK
<1>14. event' \in [Writers -> Events \union {NoEvent}]
  <2>1. [id |-> signed', prev |-> chainHash[a], by |-> a] \in Events
    BY <1>4, <1>13 DEF Events
  <2> QED
    BY <2>1, <1>13
<1>15. {spoilt', stored', overlapped', cancelled'} \subseteq SUBSET (1..signed')
  <2>1. {spoilt, stored, overlapped, cancelled} \subseteq SUBSET (1..signed)
    BY DEF TypeOK
  <2>2. 1..signed \subseteq 1..signed' /\ signed' \in 1..signed'
    BY <1>13
  <2>3. overlapped' \subseteq overlapped \union {signed'}
    BY DEF Sign, Signed
  <2> QED
    BY <2>1, <2>2, <2>3 DEF Sign, Signed, fileVars
<1>16. pc' \in [Writers -> {"idle", "waiting", "writing", "written"}] /\ signed' \in 0..MaxEvents
  BY <1>7, <1>13
<1>17. TypeOK'
  BY <1>6, <1>12, <1>14, <1>15, <1>16 DEF TypeOK, Sign, Signed, fileVars
<1> QED
  BY <1>8, <1>11, <1>17

\* The parts of the state that an action which leaves the lock keeps.
LEMMA LeaveLock ==
    ASSUME TypeOK, NEW w \in Writers, Left(w), Kept,
           chainHash' \in [Workers -> 0..MaxEvents], orphans' \subseteq Events,
           signed' = signed, restarts' = restarts,
           {stored', overlapped', cancelled'} \subseteq SUBSET (1..signed)
    PROVE  TypeOK' /\ LockInv'
<1>1. /\ file' \in Seq(Events) /\ torn' \in BOOLEAN /\ tears' \in 0..MaxTears
      /\ spoilt' \subseteq 1..signed
  BY FileTypes
<1> QED
  BY <1>1 DEF Left, TypeOK

\* What may still be written after each action.
LEMMA SignPending ==
    ASSUME TypeOK, NEW w \in Writers, Sign(w)
    PROVE  /\ Pending' = Pending \union {event'[w]}
           /\ \A x \in Writers \ {w} : event'[x] = event[x] /\ pc'[x] = pc[x]
           /\ event'[w] \in Events /\ event'[w].id = signed + 1
           /\ event'[w].prev = chainHash[WorkerOf[w]] /\ event'[w].by = WorkerOf[w]
           /\ pc'[w] = IF queue[WorkerOf[w]] = <<>> THEN "writing" ELSE "waiting"
<1>1. /\ pc \in [Writers -> {"idle", "waiting", "writing", "written"}]
      /\ pc' = [pc EXCEPT ![w] = IF queue[WorkerOf[w]] = <<>> THEN "writing" ELSE "waiting"]
      /\ event' = [event EXCEPT ![w] = [id |-> signed + 1, prev |-> chainHash[WorkerOf[w]],
                                        by |-> WorkerOf[w]]]
      /\ event \in [Writers -> Events \union {NoEvent}] /\ pc[w] = "idle" /\ orphans' = orphans
      /\ signed \in 0..MaxEvents /\ signed < MaxEvents
      /\ chainHash[WorkerOf[w]] \in 0..MaxEvents /\ WorkerOf[w] \in Workers
  BY Facts DEF Sign, Signed, TypeOK
<1>2. /\ \A x \in Writers \ {w} : event'[x] = event[x] /\ pc'[x] = pc[x]
      /\ event'[w] = [id |-> signed + 1, prev |-> chainHash[WorkerOf[w]], by |-> WorkerOf[w]]
      /\ pc'[w] = IF queue[WorkerOf[w]] = <<>> THEN "writing" ELSE "waiting"
  BY <1>1
<1>3. [id |-> signed + 1, prev |-> chainHash[WorkerOf[w]], by |-> WorkerOf[w]] \in Events
  BY <1>1, Facts DEF Events
<1>4. \A x \in Writers : pc'[x] \in {"waiting", "writing"}
                         <=> (x = w \/ pc[x] \in {"waiting", "writing"})
  BY <1>2
<1>5. Pending' = Pending \union {event'[w]}
  <2>1. Pending' = { event'[x] : x \in { v \in Writers : pc'[v] \in {"waiting", "writing"} } }
                   \union orphans
    BY <1>1 DEF Pending
  <2>2. ASSUME NEW e \in Pending' PROVE e \in Pending \union {event'[w]}
    <3>1. CASE e \in orphans
      BY <3>1 DEF Pending
    <3>2. CASE \E x \in Writers : pc'[x] \in {"waiting", "writing"} /\ e = event'[x]
      BY <3>2, <1>2, <1>4 DEF Pending
    <3> QED
      BY <3>1, <3>2, <2>1
  <2>3. ASSUME NEW e \in Pending PROVE e \in Pending'
    <3>1. CASE e \in orphans
      BY <3>1, <2>1
    <3>2. CASE \E x \in Writers : pc[x] \in {"waiting", "writing"} /\ e = event[x]
      <4>1. PICK x \in Writers : pc[x] \in {"waiting", "writing"} /\ e = event[x]
        BY <3>2
      <4>2. x # w /\ pc'[x] \in {"waiting", "writing"} /\ e = event'[x]
        BY <4>1, <1>1, <1>2
      <4> QED
        BY <4>2, <2>1
    <3> QED
      BY <3>1, <3>2 DEF Pending
  <2>4. event'[w] \in Pending'
    BY <2>1, <1>4
  <2> QED
    BY <2>2, <2>3, <2>4
<1> QED
  BY <1>2, <1>3, <1>5

LEMMA LeavePending ==
    ASSUME TypeOK, TaskIds, OrphanIds, NEW w \in Writers, Left(w),
           NEW O, orphans' = orphans \union O, O \subseteq {event[w]}
    PROVE  Pending' = (Pending \ {event[w]}) \union O
<1>1. Pending' = { event'[x] : x \in { v \in Writers : pc'[v] \in {"waiting", "writing"} } }
                 \union orphans \union O
  BY DEF Pending
<1>2. \A x \in Writers \ {w} : event'[x] = event[x]
        /\ (pc'[x] \in {"waiting", "writing"} <=> pc[x] \in {"waiting", "writing"})
  BY DEF Left
<1>3. pc'[w] = "idle" /\ w \in Busy /\ \A x \in Writers : pc[x] \in {"waiting", "writing"} => x \in Busy
  BY DEF Left, Busy
<1>4. event[w] \notin orphans /\ \A x \in Busy : event[x] = event[w] => x = w
  BY <1>3 DEF TaskIds, OrphanIds
<1>5. ASSUME NEW e \in Pending' PROVE e \in (Pending \ {event[w]}) \union O
  <2>1. CASE e \in orphans
    BY <2>1, <1>4 DEF Pending
  <2>2. CASE \E x \in Writers : pc'[x] \in {"waiting", "writing"} /\ e = event'[x]
    <3>1. PICK x \in Writers : pc'[x] \in {"waiting", "writing"} /\ e = event'[x]
      BY <2>2
    <3>2. x # w /\ pc[x] \in {"waiting", "writing"} /\ e = event[x]
      BY <3>1, <1>2, <1>3
    <3> QED
      BY <3>2, <1>3, <1>4 DEF Pending
  <2> QED
    BY <2>1, <2>2, <1>1
<1>6. ASSUME NEW e \in Pending, e # event[w] PROVE e \in Pending'
  <2>1. CASE e \in orphans
    BY <2>1, <1>1
  <2>2. CASE \E x \in Writers : pc[x] \in {"waiting", "writing"} /\ e = event[x]
    <3>1. PICK x \in Writers : pc[x] \in {"waiting", "writing"} /\ e = event[x]
      BY <2>2
    <3>2. x # w /\ pc'[x] \in {"waiting", "writing"} /\ e = event'[x]
      BY <3>1, <1>2, <1>6
    <3> QED
      BY <3>2, <1>1
  <2> QED
    BY <2>1, <2>2 DEF Pending
<1> QED
  BY <1>1, <1>5, <1>6

LEMMA WritePending ==
    ASSUME TypeOK, LockInv, TaskIds, OrphanIds, NEW w \in Writers, Write(w)
    PROVE  /\ Pending' = Pending \ {event[w]} /\ event[w] \in Events /\ event[w] \in Pending
           /\ event[w].by = WorkerOf[w] /\ Added(event[w]) /\ w \in Busy /\ Busy' = Busy
           /\ pc'[w] = "written" /\ \A x \in Writers \ {w} : pc'[x] = pc[x]
           /\ TypeOK' /\ LockInv'
<1>1. /\ pc \in [Writers -> {"idle", "waiting", "writing", "written"}]
      /\ pc' = [pc EXCEPT ![w] = "written"] /\ pc[w] = "writing"
      /\ event' = event /\ orphans' = orphans /\ queue' = queue
  BY DEF Write, TypeOK
<1>2. pc'[w] = "written" /\ \A x \in Writers \ {w} : pc'[x] = pc[x]
  BY <1>1
<1>3. w \in Busy /\ Busy' = Busy /\ \A x \in Writers : pc[x] \in {"waiting", "writing"} => x \in Busy
  BY <1>1, <1>2 DEF Busy
<1>4. event[w] \in Events /\ event[w] \in Pending
  BY <1>1, <1>3 DEF TaskIds, Pending
<1>5. event[w] \notin orphans /\ \A x \in Busy : event[x] = event[w] => x = w
  BY <1>3 DEF TaskIds, OrphanIds
<1>6. Pending' = { event[x] : x \in { v \in Writers : pc'[v] \in {"waiting", "writing"} } }
                 \union orphans
  BY <1>1 DEF Pending
<1>7. \A x \in Writers : pc'[x] \in {"waiting", "writing"}
                         <=> (x # w /\ pc[x] \in {"waiting", "writing"})
  BY <1>2
<1>8. Pending' = Pending \ {event[w]}
  BY <1>3, <1>5, <1>6, <1>7 DEF Pending
<1>9. LockInv'
  BY <1>1, <1>3 DEF LockInv
<1>10. \A x \in Writers : pc'[x] \in {"writing", "written"} <=> pc[x] \in {"writing", "written"}
  BY <1>1, <1>2
<1>11. pc' \in [Writers -> {"idle", "waiting", "writing", "written"}]
  BY <1>1
<1>12. Added(event[w])
  <2>1. PICK e : e = event[w]
    OBVIOUS
  <2>2. e \in Events /\ WriteLine(e)
    BY <2>1, <1>4 DEF Write
  <2> QED
    BY <2>1, <2>2, AppendAdds
<1>13. TypeOK'
  <2>1. event[w].id \in 1..signed
    BY <1>3, Facts DEF TaskIds
  <2>2. /\ file' \in Seq(Events) /\ torn' \in BOOLEAN /\ tears' \in 0..MaxTears
        /\ spoilt' \subseteq 1..signed
    BY <2>1, <1>4, <1>12, FileTypes
  <2> QED
    BY <1>1, <1>10, <1>11, <2>2 DEF TypeOK, Write
<1>14. event[w].by = WorkerOf[w]
  BY <1>3 DEF TaskIds
<1> QED
  BY <1>2, <1>3, <1>4, <1>8, <1>9, <1>12, <1>13, <1>14

LEMMA OrphanPending ==
    ASSUME TypeOK, LockInv, TaskIds, OrphanIds, NEW e \in orphans, OrphanWrites(e)
    PROVE  /\ Pending' = Pending \ {e} /\ e \in Events /\ e \in Pending
           /\ Added(e) \/ Kept
           /\ Busy' = Busy /\ TypeOK' /\ LockInv'
<1>1. /\ event' = event /\ pc' = pc /\ orphans' = orphans \ {e} /\ queue' = queue
      /\ WriteLine(e) \/ TearLine
      /\ e \in Events /\ orphans \subseteq Events
  BY DEF OrphanWrites, TypeOK
<1>2. Busy' = Busy /\ \A x \in Writers : pc[x] \in {"waiting", "writing"} => x \in Busy
  BY <1>1 DEF Busy
<1>3. \A x \in Busy : event[x] # e
  BY DEF OrphanIds
<1>4. Pending' = Pending \ {e} /\ e \in Pending
  BY <1>1, <1>2, <1>3 DEF Pending
<1>5. LockInv'
  BY <1>1, <1>2 DEF LockInv
<1>6. e \in Events /\ e.id \in 1..signed
  BY Facts DEF OrphanIds, TypeOK
<1>7. Added(e) \/ Kept
  BY <1>6, AppendAdds, FileKept DEF OrphanWrites
<1>8. file' \in Seq(Events) /\ torn' \in BOOLEAN /\ tears' \in 0..MaxTears /\ spoilt' \subseteq 1..signed
  BY <1>6, <1>7, FileTypes
<1>9. TypeOK'
  BY <1>1, <1>8 DEF TypeOK, OrphanWrites
<1> QED
  BY <1>2, <1>4, <1>5, <1>6, <1>7, <1>9

LEMMA RestartClears ==
    ASSUME TypeOK, LockInv, TaskIds, NEW a \in Workers, Restart(a)
    PROVE  /\ Pending' = { e \in Pending : e.by # a }
           /\ Busy' = { w \in Busy : WorkerOf[w] # a } /\ TypeOK' /\ LockInv'
           /\ chainHash'[a] = LoadLastHash
           /\ \A b \in Workers \ {a} : chainHash'[b] = chainHash[b]
           /\ \A x \in Writers : IF WorkerOf[x] = a THEN pc'[x] = "idle" /\ event'[x] = NoEvent
                                 ELSE pc'[x] = pc[x] /\ event'[x] = event[x]
<1>1. /\ event' = [w \in Writers |-> IF WorkerOf[w] = a THEN NoEvent ELSE event[w]]
      /\ pc' = [w \in Writers |-> IF WorkerOf[w] = a THEN "idle" ELSE pc[w]]
      /\ queue' = [queue EXCEPT ![a] = <<>>] /\ orphans' = { e \in orphans : e.by # a }
      /\ file' = file /\ torn' = torn /\ spoilt' = spoilt /\ tears' = tears
  BY DEF Restart, fileVars
<1>2. \A x \in Writers : IF WorkerOf[x] = a THEN pc'[x] = "idle" /\ event'[x] = NoEvent
                         ELSE pc'[x] = pc[x] /\ event'[x] = event[x]
  BY <1>1
<1>3. Busy' = { w \in Busy : WorkerOf[w] # a }
  BY <1>2 DEF Busy
<1>4. \A x \in Writers : pc[x] \in {"waiting", "writing"} => event[x].by = WorkerOf[x]
  BY DEF TaskIds, Busy
<1>5. Pending' = { e \in Pending : e.by # a }
  <2>1. Pending' = { event'[x] : x \in { v \in Writers : pc'[v] \in {"waiting", "writing"} } }
                   \union { e \in orphans : e.by # a }
    BY <1>1 DEF Pending
  <2>2. ASSUME NEW e \in Pending' PROVE e \in Pending /\ e.by # a
    <3>1. CASE e \in orphans /\ e.by # a
      BY <3>1 DEF Pending
    <3>2. CASE \E x \in Writers : pc'[x] \in {"waiting", "writing"} /\ e = event'[x]
      <4>1. PICK x \in Writers : pc'[x] \in {"waiting", "writing"} /\ e = event'[x]
        BY <3>2
      <4>2. WorkerOf[x] # a /\ pc[x] \in {"waiting", "writing"} /\ e = event[x]
        BY <4>1, <1>2
      <4> QED
        BY <4>2, <1>4 DEF Pending
    <3> QED
      BY <3>1, <3>2, <2>1
  <2>3. ASSUME NEW e \in Pending, e.by # a PROVE e \in Pending'
    <3>1. CASE e \in orphans
      BY <3>1, <2>1, <2>3
    <3>2. CASE \E x \in Writers : pc[x] \in {"waiting", "writing"} /\ e = event[x]
      <4>1. PICK x \in Writers : pc[x] \in {"waiting", "writing"} /\ e = event[x]
        BY <3>2
      <4>2. WorkerOf[x] # a
        BY <4>1, <1>4, <2>3
      <4>3. pc'[x] \in {"waiting", "writing"} /\ e = event'[x]
        BY <4>1, <4>2, <1>2
      <4> QED
        BY <4>3, <2>1
    <3> QED
      BY <3>1, <3>2 DEF Pending
  <2> QED
    BY <2>2, <2>3
<1>6. /\ queue' \in [Workers -> Seq(Writers)] /\ queue'[a] = <<>> /\ Len(queue'[a]) = 0
      /\ \A b \in Workers \ {a} : queue'[b] = queue[b]
  BY <1>1 DEF TypeOK
<1>7. LockInv'
  <2>1. \A x \in Writers : x \in Busy' <=>
           \E k \in 1..Len(queue'[WorkerOf[x]]) : queue'[WorkerOf[x]][k] = x
    <3> SUFFICES ASSUME NEW x \in Writers
                 PROVE  x \in Busy' <=>
                          \E k \in 1..Len(queue'[WorkerOf[x]]) : queue'[WorkerOf[x]][k] = x
      OBVIOUS
    <3>1. CASE WorkerOf[x] = a
      BY <3>1, <1>3, <1>6
    <3>2. CASE WorkerOf[x] # a
      <4>1. queue'[WorkerOf[x]] = queue[WorkerOf[x]] /\ (x \in Busy' <=> x \in Busy)
        BY <3>2, <1>3, <1>6, Facts
      <4> QED
        BY <4>1 DEF LockInv
    <3> QED
      BY <3>1, <3>2
  <2>2. ASSUME NEW b \in Workers
        PROVE  /\ \A j, k \in 1..Len(queue'[b]) : queue'[b][j] = queue'[b][k] => j = k
               /\ \A k \in 1..Len(queue'[b]) : WorkerOf[queue'[b][k]] = b
    <3>1. CASE b = a
      <4>1. ~ \E k : k \in 1..Len(queue'[b])
        BY <3>1, <1>6
      <4> QED
        BY <4>1
    <3>2. CASE b # a
      <4>1. queue'[b] = queue[b]
        BY <3>2, <1>6
      <4> QED
        BY <4>1 DEF LockInv
    <3> QED
      BY <3>1, <3>2
  <2> QED
    BY <2>1, <2>2 DEF LockInv
<1>8. LoadLastHash \in 0..MaxEvents
  <2>1. file # <<>> => file[Len(file)].id \in 0..MaxEvents
    BY Facts
  <2>2. MaxEvents \in Nat
    BY Facts
  <2> QED
    BY <2>1, <2>2 DEF LoadLastHash, HashAfter
<1>9. /\ chainHash' \in [Workers -> 0..MaxEvents] /\ chainHash'[a] = LoadLastHash
      /\ \A b \in Workers \ {a} : chainHash'[b] = chainHash[b]
  BY <1>8 DEF Restart, TypeOK
<1>10. restarts' \in 0..MaxRestarts
  BY BoundsAssumption DEF Restart, TypeOK
<1>11. \A x \in Writers : pc'[x] \in {"writing", "written"} <=>
          (queue'[WorkerOf[x]] # <<>> /\ x = Head(queue'[WorkerOf[x]]))
  <2> SUFFICES ASSUME NEW x \in Writers
               PROVE  pc'[x] \in {"writing", "written"} <=>
                        (queue'[WorkerOf[x]] # <<>> /\ x = Head(queue'[WorkerOf[x]]))
    OBVIOUS
  <2>1. CASE WorkerOf[x] = a
    BY <2>1, <1>2, <1>6
  <2>2. CASE WorkerOf[x] # a
    BY <2>2, <1>2, <1>6, Facts DEF TypeOK
  <2> QED
    BY <2>1, <2>2
<1>12. /\ pc' \in [Writers -> {"idle", "waiting", "writing", "written"}]
       /\ event' \in [Writers -> Events \union {NoEvent}] /\ orphans' \subseteq Events
  BY <1>1 DEF TypeOK
<1>13. TypeOK'
  BY <1>1, <1>6, <1>9, <1>10, <1>11, <1>12 DEF TypeOK, Restart
<1> QED
  BY <1>2, <1>3, <1>5, <1>7, <1>9, <1>13

\* The ids and the links across each kind of step.
LEMMA SignChain ==
    ASSUME ChainInv, NEW w \in Writers, Sign(w) PROVE IdInv' /\ LinkInv'
<1> USE DEF ChainInv, IdInv
<1>1. TypeOK' /\ Busy' = Busy \union {w} /\ w \notin Busy
  BY SignTakes DEF Sign, Signed, Busy
<1>2. /\ \A x \in Writers \ {w} : event'[x] = event[x] /\ pc'[x] = pc[x]
      /\ event'[w] \in Events /\ event'[w].id = signed + 1 /\ event'[w].prev = chainHash[WorkerOf[w]]
      /\ event'[w].by = WorkerOf[w]
      /\ pc'[w] # "written" /\ Pending' = Pending \union {event'[w]}
  BY SignPending
<1>3. /\ file' = file /\ orphans' = orphans /\ stored' = stored /\ chainHash' = chainHash
      /\ torn' = torn /\ spoilt' = spoilt /\ tears' = tears
      /\ signed' = signed + 1 /\ signed \in Nat /\ Len(file) \in Nat /\ WorkerOf[w] \in Workers
  BY Facts DEF Sign, Signed, fileVars
<1>4. \A x \in Busy : x # w /\ x \in Writers /\ event[x].id \in Nat /\ event[x].id <= signed
  BY <1>1, Facts DEF TaskIds, Busy
<1>5. TaskIds'
  <2>1. ASSUME NEW x \in Writers
        PROVE  IF x \in Busy'
                 THEN event'[x] \in Events /\ event'[x].id <= signed' /\ event'[x].by = WorkerOf[x]
                 ELSE event'[x] = NoEvent
    <3>1. CASE x = w
      BY <3>1, <1>1, <1>2, <1>3
    <3>2. CASE x # w
      BY <3>2, <1>1, <1>2, <1>3, <1>4 DEF TaskIds
    <3> QED
      BY <3>1, <3>2
  <2>2. ASSUME NEW v \in Busy', NEW x \in Busy', event'[v].id = event'[x].id PROVE v = x
    BY <2>2, <1>1, <1>2, <1>3, <1>4 DEF TaskIds
  <2> QED
    BY <2>1, <2>2 DEF TaskIds
<1>6. OrphanIds'
  <2>1. \A e \in orphans : e.id \in Nat /\ e.id <= signed
    BY Facts DEF OrphanIds, TypeOK
  <2>2. \A e \in orphans : \A x \in Busy' : event'[x].id # e.id
    BY <2>1, <1>1, <1>2, <1>3, <1>4 DEF OrphanIds
  <2> QED
    BY <2>1, <2>2, <1>3 DEF OrphanIds
<1>7. FileIds' = FileIds /\ Known' = Known
  BY <1>3 DEF FileIds, Known
<1>8. \A i \in 1..Len(file) : file[i].id \in Nat /\ file[i].id <= signed
  BY Facts DEF StoredIds
<1>9. StoredIds'
  <2>1. signed + 1 \notin FileIds
    BY <1>3, <1>8 DEF FileIds
  <2>2. \A e \in Pending' : e.id \notin FileIds'
    BY <2>1, <1>2, <1>7 DEF StoredIds
  <2>3. \A x \in Writers : pc'[x] = "written" => event'[x].id \in FileIds'
    BY <1>2, <1>7 DEF StoredIds
  <2>4. StoredOnce'
    BY <1>3 DEF StoredIds, StoredOnce
  <2>5. \A i \in 1..Len(file') : file'[i].id <= signed'
    BY <1>3, <1>8
  <2>6. spoilt' \subseteq FileIds'
    BY <1>3, <1>7 DEF StoredIds
  <2> QED
    BY <2>2, <2>3, <2>4, <2>5, <2>6 DEF StoredIds
<1>10. LinkInv'
  <2>1. LinksAreStored'
    BY <1>3 DEF LinkInv, LinksAreStored
  <2>2. \A e \in Pending' : e.prev \in Known'
    BY <1>2, <1>7 DEF LinkInv
  <2> QED
    BY <2>1, <2>2, <1>3, <1>7 DEF LinkInv
<1> QED
  BY <1>5, <1>6, <1>9, <1>10

\* A write that fails takes nothing away, and a torn piece has its torn write.
LEMMA KeptOnce ==
    ASSUME TypeOK, StoredOnce, Kept, \A id \in stored' : \E i \in 1..Len(file) : file[i].id = id
    PROVE  StoredOnce'
<1>1. file' = file /\ spoilt' = spoilt
  BY DEF Kept
<1>2. Cardinality(spoilt) + (IF torn THEN 1 ELSE 0) <= tears
  BY DEF StoredOnce
<1>3. Cardinality(spoilt) \in Nat /\ tears \in Nat
  BY SpoiltFacts, Facts
<1>4. Cardinality(spoilt') + (IF torn' THEN 1 ELSE 0) <= tears'
  <2>1. CASE torn' = torn /\ tears' = tears
    BY <2>1, <1>1, <1>2
  <2>2. CASE torn' = TRUE /\ tears' = tears + 1
    <3>1. Cardinality(spoilt) <= tears
      BY <1>2, <1>3
    <3> QED
      BY <2>2, <3>1, <1>1, <1>3
  <2> QED
    BY <2>1, <2>2 DEF Kept
<1> QED
  BY <1>1, <1>4 DEF StoredOnce

LEMMA LeaveChain ==
    ASSUME ChainInv, NEW w \in Writers, Left(w), Kept, signed' = signed,
           NEW O, orphans' = orphans \union O, O \subseteq {event[w]}, O \subseteq Pending,
           stored' \subseteq stored \union FileIds, \A a \in Workers : chainHash'[a] \in Known
    PROVE  IdInv' /\ LinkInv'
<1> USE DEF ChainInv, IdInv
<1>1. /\ w \in Busy /\ Busy' = Busy \ {w} /\ event'[w] = NoEvent /\ pc'[w] = "idle"
      /\ \A x \in Writers \ {w} : event'[x] = event[x] /\ (pc'[x] = "written" <=> pc[x] = "written")
  BY DEF Left
<1>2. Pending' \subseteq Pending
  BY LeavePending
<1>3. Busy \subseteq Writers /\ event[w] \in Events /\ event[w].id <= signed
  BY <1>1 DEF Busy, TaskIds
<1>4. TaskIds'
  <2>1. ASSUME NEW x \in Writers
        PROVE  IF x \in Busy'
                 THEN event'[x] \in Events /\ event'[x].id <= signed' /\ event'[x].by = WorkerOf[x]
                 ELSE event'[x] = NoEvent
    BY <1>1 DEF TaskIds
  <2>2. ASSUME NEW v \in Busy', NEW x \in Busy', event'[v].id = event'[x].id PROVE v = x
    BY <2>2, <1>1, <1>3 DEF TaskIds
  <2> QED
    BY <2>1, <2>2 DEF TaskIds
<1>5. OrphanIds'
  <2>1. \A e \in orphans' : e \in orphans \/ e = event[w]
    OBVIOUS
  <2>2. \A e \in orphans' : e.id <= signed' /\ \A x \in Busy' : event'[x].id # e.id
    BY <2>1, <1>1, <1>3 DEF OrphanIds, TaskIds
  <2>3. \A e, f \in orphans' : e.id = f.id => e = f
    BY <2>1, <1>1 DEF OrphanIds
  <2> QED
    BY <2>2, <2>3 DEF OrphanIds
<1>6. FileIds' = FileIds /\ Known' = Known
  BY DEF FileIds, Known, Kept
<1>7. StoredIds'
  <2>1. \A e \in Pending' : e.id \notin FileIds'
    BY <1>2, <1>6 DEF StoredIds
  <2>2. \A x \in Writers : pc'[x] = "written" => event'[x].id \in FileIds'
    BY <1>1, <1>6 DEF StoredIds
  <2>3. \A id \in stored' : \E i \in 1..Len(file) : file[i].id = id
    BY DEF StoredIds, StoredOnce, FileIds
  <2>4. StoredOnce'
    BY <2>3, KeptOnce DEF StoredIds
  <2>5. spoilt' \subseteq FileIds' /\ \A i \in 1..Len(file') : file'[i].id <= signed'
    BY <1>6 DEF Kept, StoredIds
  <2> QED
    BY <2>1, <2>2, <2>4, <2>5 DEF StoredIds
<1>8. LinkInv'
  <2>1. LinksAreStored'
    BY DEF LinkInv, LinksAreStored, Kept
  <2> QED
    BY <2>1, <1>2, <1>6 DEF LinkInv
<1> QED
  BY <1>4, <1>5, <1>7, <1>8

LEMMA AddChain ==
    ASSUME ChainInv, NEW e \in Pending, Added(e), Pending' = Pending \ {e},
           chainHash' = chainHash, stored' = stored, signed' = signed,
           \A x \in Writers : pc'[x] = "written" =>
              event'[x] = event[x] /\ (pc[x] = "written" \/ event[x] = e)
    PROVE  StoredIds' /\ LinkInv'
<1> USE DEF ChainInv, IdInv
<1>1. /\ file' \in Seq(Events) /\ Len(file') = Len(file) + 1 /\ file'[Len(file) + 1] = e
      /\ \A i \in 1..Len(file) : file'[i] = file[i]
      /\ FileIds' = FileIds \union {e.id}
      /\ torn' = FALSE /\ tears' = tears /\ spoilt' = IF torn THEN spoilt \union {e.id} ELSE spoilt
  BY DEF Added
<1>2. Len(file) \in Nat
  BY Facts
<1>3. e.id \notin FileIds /\ e.id <= signed /\ e.prev \in Known
  BY PendingFacts DEF StoredIds, LinkInv
<1>4. Known' = Known \union {e.id}
  BY <1>1 DEF Known
<1>5. \A f \in Pending' : f.id \notin FileIds'
  BY <1>1, PendingFacts DEF StoredIds
<1>6. \A x \in Writers : pc'[x] = "written" => event'[x].id \in FileIds'
  BY <1>1 DEF StoredIds
<1>7. \A i \in 1..Len(file') : file'[i].id <= signed'
  <2> SUFFICES ASSUME NEW i \in 1..Len(file') PROVE file'[i].id <= signed
    OBVIOUS
  <2>1. i \in 1..Len(file) \/ i = Len(file) + 1
    BY <1>1, <1>2
  <2> QED
    BY <2>1, <1>1, <1>3 DEF StoredIds
<1>8. StoredOnce'
  <2>1. \A i \in 1..Len(file) : file[i].id # e.id
    BY <1>3 DEF FileIds
  <2>2. ASSUME NEW i \in 1..Len(file'), NEW j \in 1..Len(file'), file'[i].id = file'[j].id
        PROVE  i = j
    <3>1. (i \in 1..Len(file) \/ i = Len(file) + 1) /\ (j \in 1..Len(file) \/ j = Len(file) + 1)
      BY <1>1, <1>2
    <3> QED
      BY <3>1, <2>1, <2>2, <1>1 DEF StoredIds, StoredOnce
  <2>3. ASSUME NEW id \in stored' PROVE \E i \in 1..Len(file') : file'[i].id = id
    <3>1. PICK i \in 1..Len(file) : file[i].id = id
      BY <2>3 DEF StoredIds, StoredOnce
    <3>2. i \in 1..Len(file')
      BY <1>1, <1>2
    <3> QED
      BY <3>1, <3>2, <1>1
  <2>4. Cardinality(spoilt') + (IF torn' THEN 1 ELSE 0) <= tears'
    <3>1. IsFiniteSet(spoilt) /\ Cardinality(spoilt) \in Nat /\ e.id \notin spoilt
      BY SpoiltFacts, <1>3 DEF StoredIds
    <3>2. Cardinality(spoilt \union {e.id}) = Cardinality(spoilt) + 1
      BY <3>1, FS_AddElement
    <3>3. CASE torn
      <4>1. Cardinality(spoilt) + 1 <= tears
        BY <3>3 DEF StoredIds, StoredOnce
      <4>2. spoilt' = spoilt \union {e.id} /\ (IF torn' THEN 1 ELSE 0) = 0
        BY <3>3, <1>1
      <4>3. Cardinality(spoilt') = Cardinality(spoilt) + 1
        BY <3>2, <4>2
      <4> QED
        BY <3>1, <4>1, <4>2, <4>3, <1>1
    <3>4. CASE ~ torn
      <4>1. Cardinality(spoilt) + 0 <= tears
        BY <3>4 DEF StoredIds, StoredOnce
      <4> QED
        BY <3>4, <4>1, <1>1
    <3> QED
      BY <3>3, <3>4
  <2> QED
    BY <2>2, <2>3, <2>4 DEF StoredOnce
<1>9. LinksAreStored'
  <2> SUFFICES ASSUME NEW i \in 1..Len(file'), file'[i].prev # 0
               PROVE  \E j \in 1..(i - 1) : file'[j].id = file'[i].prev
    BY DEF LinksAreStored
  <2>1. CASE i \in 1..Len(file)
    <3>1. PICK j \in 1..(i - 1) : file[j].id = file[i].prev
      BY <2>1, <1>1 DEF LinkInv, LinksAreStored
    <3>2. j \in 1..Len(file)
      BY <2>1, <3>1, <1>2
    <3> QED
      BY <2>1, <3>1, <3>2, <1>1
  <2>2. CASE i = Len(file) + 1
    <3>1. file'[i] = e /\ e.prev \in FileIds
      BY <2>2, <1>1, <1>3 DEF Known
    <3>2. PICK j \in 1..Len(file) : file[j].id = e.prev
      BY <3>1 DEF FileIds
    <3>3. j \in 1..(i - 1)
      BY <2>2, <1>2
    <3> QED
      BY <3>1, <3>2, <3>3, <1>1
  <2> QED
    BY <2>1, <2>2, <1>1, <1>2
<1>10. LinkInv'
  BY <1>4, <1>9 DEF LinkInv
<1>11. spoilt' \subseteq FileIds'
  BY <1>1 DEF StoredIds
<1> QED
  BY <1>5, <1>6, <1>7, <1>8, <1>10, <1>11 DEF StoredIds

\* The ids and the links when an orphaned write fails.
LEMMA LoseChain ==
    ASSUME ChainInv, Kept, Pending' \subseteq Pending, pc' = pc, event' = event,
           chainHash' = chainHash, stored' = stored, signed' = signed
    PROVE  StoredIds' /\ LinkInv'
<1> USE DEF ChainInv, IdInv
<1>1. FileIds' = FileIds /\ Known' = Known /\ file' = file /\ spoilt' = spoilt
  BY DEF FileIds, Known, Kept
<1>2. StoredOnce'
  BY KeptOnce DEF StoredIds, StoredOnce
<1>3. StoredIds'
  BY <1>1, <1>2 DEF StoredIds
<1>4. LinkInv'
  BY <1>1 DEF LinkInv, LinksAreStored
<1> QED
  BY <1>3, <1>4

\* What a cancellation leaves behind.
Dropped(w) == IF orphans' = orphans THEN {} ELSE {event[w]}

LEMMA CancelFacts ==
    ASSUME ChainInv, NEW w \in Writers, Cancel(w)
    PROVE  /\ Left(w) /\ orphans' = orphans \union Dropped(w) /\ Dropped(w) \subseteq {event[w]}
           /\ Dropped(w) \subseteq Pending /\ (Dropped(w) # {} => pc[w] = "writing")
           /\ event[w] \in Events /\ event[w].id \in 1..signed
           /\ cancelled' = cancelled \union {event[w].id} /\ orphans' \subseteq Events
<1> USE DEF ChainInv, IdInv
<1>1. Left(w)
  BY ReleaseLeaves DEF Cancel
<1>2. w \in Busy /\ event[w] \in Events /\ event[w].id <= signed
  BY <1>1 DEF Left, TaskIds
<1>3. orphans' \in IF pc[w] = "writing" THEN {orphans, orphans \union {event[w]}} ELSE {orphans}
  BY DEF Cancel
<1>4. orphans' = orphans \/ (pc[w] = "writing" /\ orphans' = orphans \union {event[w]})
  BY <1>3
<1>5. orphans' = orphans \union Dropped(w) /\ Dropped(w) \subseteq {event[w]}
      /\ (Dropped(w) # {} => pc[w] = "writing")
  BY <1>4 DEF Dropped
<1>6. Dropped(w) \subseteq Pending
  BY <1>5 DEF Pending
<1>7. event[w].id \in 1..signed
  BY <1>2, Facts
<1> QED
  BY <1>1, <1>2, <1>4, <1>5, <1>6, <1>7 DEF Cancel, TypeOK

LEMMA ChainStep == ChainInv /\ [Next]_vars => ChainInv'
<1> SUFFICES ASSUME ChainInv, [Next]_vars PROVE ChainInv'
  OBVIOUS
<1> USE DEF ChainInv, IdInv
<1>1. ASSUME NEW w \in Writers, Sign(w) PROVE ChainInv'
  BY <1>1, SignTakes, SignChain
<1>2. ASSUME NEW w \in Writers, Write(w) PROVE ChainInv'
  <2>1. /\ Pending' = Pending \ {event[w]} /\ event[w] \in Pending /\ Busy' = Busy
        /\ pc'[w] = "written" /\ \A x \in Writers \ {w} : pc'[x] = pc[x]
        /\ TypeOK' /\ LockInv' /\ Added(event[w])
    BY <1>2, WritePending
  <2>2. /\ event' = event /\ orphans' = orphans /\ stored' = stored /\ chainHash' = chainHash
        /\ signed' = signed
    BY <1>2 DEF Write
  <2>3. PICK e : e = event[w]
    OBVIOUS
  <2>4. /\ e \in Pending /\ Added(e) /\ Pending' = Pending \ {e}
        /\ \A x \in Writers : pc'[x] = "written" =>
              event'[x] = event[x] /\ (pc[x] = "written" \/ event[x] = e)
    BY <2>1, <2>2, <2>3
  <2>5. StoredIds' /\ LinkInv'
    BY <2>2, <2>4, AddChain
  <2>6. TaskIds' /\ OrphanIds'
    BY <2>1, <2>2 DEF TaskIds, OrphanIds
  <2> QED
    BY <2>1, <2>5, <2>6
<1>3. ASSUME NEW w \in Writers, WriteFails(w) PROVE ChainInv'
  <2>1. Left(w)
    BY <1>3, ReleaseLeaves DEF WriteFails
  <2>2. /\ Kept /\ signed' = signed /\ orphans' = orphans \union {} /\ stored' = stored
        /\ chainHash' = chainHash /\ restarts' = restarts
        /\ overlapped' = overlapped /\ cancelled' = cancelled
    BY <1>3, FileKept DEF WriteFails
  <2>3. \A a \in Workers : chainHash'[a] \in Known
    BY <2>2 DEF LinkInv
  <2>4. PICK O : O = {}
    OBVIOUS
  <2>5. orphans' = orphans \union O /\ O \subseteq {event[w]} /\ O \subseteq Pending
    BY <2>2, <2>4
  <2>6. IdInv' /\ LinkInv'
    BY <2>1, <2>2, <2>3, <2>5, LeaveChain
  <2>7. TypeOK' /\ LockInv'
    BY <2>1, <2>2, LeaveLock DEF TypeOK
  <2> QED
    BY <2>6, <2>7
<1>4. ASSUME NEW w \in Writers, Finish(w) PROVE ChainInv'
  <2>1. Left(w)
    BY <1>4, ReleaseLeaves DEF Finish
  <2>2. /\ Kept /\ signed' = signed /\ orphans' = orphans \union {}
        /\ stored' = stored \union {event[w].id}
        /\ chainHash' = [chainHash EXCEPT ![WorkerOf[w]] = event[w].id]
        /\ restarts' = restarts /\ overlapped' = overlapped /\ cancelled' = cancelled
    BY <1>4, FileKept DEF Finish
  <2>3. event[w] \in Events /\ event[w].id \in FileIds /\ event[w].id <= signed
    BY <1>4, <2>1 DEF Finish, Left, StoredIds, TaskIds
  <2>4. (\A a \in Workers : chainHash'[a] \in Known) /\ stored' \subseteq stored \union FileIds
    BY <2>2, <2>3 DEF Known, LinkInv, TypeOK
  <2>5. PICK O : O = {}
    OBVIOUS
  <2>6. orphans' = orphans \union O /\ O \subseteq {event[w]} /\ O \subseteq Pending
    BY <2>2, <2>5
  <2>7. IdInv' /\ LinkInv'
    BY <2>1, <2>2, <2>4, <2>6, LeaveChain
  <2>8. event[w].id \in 1..signed /\ event[w].id \in 0..MaxEvents
    BY <2>3, Facts
  <2>9. /\ chainHash' \in [Workers -> 0..MaxEvents] /\ orphans' \subseteq Events
        /\ {stored', overlapped', cancelled'} \subseteq SUBSET (1..signed)
    BY <2>2, <2>8 DEF TypeOK
  <2>10. TypeOK' /\ LockInv'
    BY <2>1, <2>2, <2>9, LeaveLock
  <2> QED
    BY <2>7, <2>10
<1>5. ASSUME NEW w \in Writers, Cancel(w) PROVE ChainInv'
  <2>1. /\ Left(w) /\ orphans' = orphans \union Dropped(w) /\ Dropped(w) \subseteq {event[w]}
        /\ Dropped(w) \subseteq Pending /\ orphans' \subseteq Events
        /\ event[w].id \in 1..signed /\ cancelled' = cancelled \union {event[w].id}
    BY <1>5, CancelFacts
  <2>2. /\ Kept /\ signed' = signed /\ stored' = stored /\ chainHash' = chainHash
        /\ restarts' = restarts /\ overlapped' = overlapped
    BY <1>5, FileKept DEF Cancel
  <2>3. \A a \in Workers : chainHash'[a] \in Known
    BY <2>2 DEF LinkInv
  <2>4. PICK O : O = Dropped(w)
    OBVIOUS
  <2>5. IdInv' /\ LinkInv'
    BY <2>1, <2>2, <2>3, <2>4, LeaveChain
  <2>6. TypeOK' /\ LockInv'
    BY <2>1, <2>2, LeaveLock DEF TypeOK
  <2> QED
    BY <2>5, <2>6
<1>6. ASSUME NEW e \in orphans, OrphanWrites(e) PROVE ChainInv'
  <2>1. /\ Pending' = Pending \ {e} /\ e \in Pending /\ Busy' = Busy /\ TypeOK' /\ LockInv'
        /\ Added(e) \/ Kept
    BY <1>6, OrphanPending
  <2>2. /\ event' = event /\ orphans' = orphans \ {e} /\ stored' = stored
        /\ chainHash' = chainHash /\ signed' = signed /\ pc' = pc
    BY <1>6 DEF OrphanWrites
  <2>3. StoredIds' /\ LinkInv'
    <3>1. CASE Added(e)
      BY <3>1, <2>1, <2>2, AddChain
    <3>2. CASE Kept
      BY <3>2, <2>1, <2>2, LoseChain
    <3> QED
      BY <2>1, <3>1, <3>2
  <2>4. TaskIds' /\ OrphanIds'
    BY <2>1, <2>2 DEF TaskIds, OrphanIds
  <2> QED
    BY <2>1, <2>3, <2>4
<1>7. ASSUME NEW a \in Workers, Restart(a) PROVE ChainInv'
  <2>1. /\ Pending' = { e \in Pending : e.by # a }
        /\ Busy' = { w \in Busy : WorkerOf[w] # a } /\ TypeOK' /\ LockInv'
        /\ chainHash'[a] = LoadLastHash
        /\ \A b \in Workers \ {a} : chainHash'[b] = chainHash[b]
        /\ \A x \in Writers : IF WorkerOf[x] = a THEN pc'[x] = "idle" /\ event'[x] = NoEvent
                              ELSE pc'[x] = pc[x] /\ event'[x] = event[x]
    BY <1>7, RestartClears
  <2>2. /\ file' = file /\ torn' = torn /\ spoilt' = spoilt /\ tears' = tears
        /\ orphans' = { e \in orphans : e.by # a } /\ stored' = stored /\ signed' = signed
    BY <1>7 DEF Restart, fileVars
  <2>3. LoadLastHash \in Known /\ Known' = Known /\ FileIds' = FileIds
    <3>1. file # <<>> => file[Len(file)].id \in FileIds
      BY Facts DEF FileIds
    <3> QED
      BY <2>2, <3>1 DEF LoadLastHash, HashAfter, Known, FileIds
  <2>4. TaskIds'
    <3>1. \A x \in Busy' : x \in Busy /\ x \in Writers /\ event'[x] = event[x]
      BY <2>1 DEF Busy
    <3>2. \A x \in Writers : x \notin Busy' => event'[x] = NoEvent
      BY <2>1 DEF TaskIds
    <3> QED
      BY <3>1, <3>2, <2>2 DEF TaskIds
  <2>5. OrphanIds'
    <3>1. \A x \in Busy' : x \in Busy /\ event'[x] = event[x]
      BY <2>1 DEF Busy
    <3> QED
      BY <3>1, <2>2 DEF OrphanIds
  <2>6. StoredOnce'
    BY <2>2 DEF StoredIds, StoredOnce
  <2>7. \A x \in Writers : pc'[x] = "written" => pc[x] = "written" /\ event'[x] = event[x]
    BY <2>1
  <2>8. StoredIds'
    BY <2>1, <2>2, <2>3, <2>6, <2>7 DEF StoredIds
  <2>9. LinkInv'
    <3>1. \A b \in Workers : chainHash'[b] \in Known'
      BY <2>1, <2>3 DEF LinkInv
    <3> QED
      BY <3>1, <2>1, <2>2, <2>3 DEF LinkInv, LinksAreStored
  <2> QED
    BY <2>1, <2>4, <2>5, <2>8, <2>9
<1>8. CASE UNCHANGED vars
  BY <1>8 DEF vars, fileVars, TypeOK, LockInv, TaskIds, OrphanIds, StoredIds, LinkInv,
              StoredOnce, LinksAreStored, Busy, Pending, FileIds, Known
<1> QED
  BY <1>1, <1>2, <1>3, <1>4, <1>5, <1>6, <1>7, <1>8 DEF Next

\* Every variable keeps its type and in each worker only the task that holds the
\* lock writes, whatever is cancelled, fails, breaks off or crashes.
THEOREM TypeCorrect == Spec => []TypeOK
<1>1. ChainInv => TypeOK
  BY DEF ChainInv
<1> QED
  BY <1>1, InitChain, ChainStep, PTL DEF Spec

\* Nothing in the file is signed over an event that is not in the file before it,
\* however many workers write it.
THEOREM LinksStored == Spec => []LinksAreStored
<1>1. ChainInv => LinksAreStored
  BY DEF ChainInv, LinkInv
<1> QED
  BY <1>1, InitChain, ChainStep, PTL DEF Spec

\* An append that returned is in the file, no event is there twice, and no more
\* lines are unreadable than writes have broken off.
THEOREM OnceStored == Spec => []StoredOnce
<1>1. ChainInv => StoredOnce
  BY DEF ChainInv, IdInv, StoredIds
<1> QED
  BY <1>1, InitChain, ChainStep, PTL DEF Spec

-----------------------------------------------------------------------------
(* The events signed alone.                                                *)

\* Nothing that may still be written names an event that was not stored yet.
LEMMA FreshTail ==
    ASSUME ChainInv, NEW e \in Pending, Added(e), Pending' \subseteq Pending
    PROVE  /\ \A f \in Pending' : f.prev # TailHash'
           /\ e.id \notin FileIds /\ e.id # 0
<1>1. e.id \notin FileIds /\ e.id # 0
  BY PendingFacts DEF ChainInv, IdInv, StoredIds
<1>2. TailHash' = e.id
  BY DEF Added
<1>3. \A f \in Pending' : f.prev \in {0} \union FileIds
  BY DEF ChainInv, LinkInv, Known
<1> QED
  BY <1>1, <1>2, <1>3

\* The task that writes or has written is the only one of its worker.
LEMMA OneHolder ==
    ASSUME TypeOK, NEW v \in Writers, NEW w \in Writers, WorkerOf[v] = WorkerOf[w],
           pc[v] \in {"writing", "written"}, pc[w] \in {"writing", "written"}
    PROVE  v = w
BY DEF TypeOK

LEMMA TaskPending ==
    ASSUME TaskIds, NEW w \in Writers, pc[w] \in {"waiting", "writing"}
    PROVE  event[w] \in Pending /\ event[w].by = WorkerOf[w]
BY DEF TaskIds, Busy, Pending

LEMMA SignPlain ==
    ASSUME ChainInv, PlainInv, NEW w \in Writers, Sign(w)
    PROVE  /\ PlainInv' /\ \A e \in Pending : Plain(e)' <=> Plain(e)
           /\ event'[w] \notin Pending
           /\ \/ /\ overlapped' = overlapped /\ Plain(event[w])'
                 /\ \A e \in Pending : e.by # WorkerOf[w]
                 /\ \A x \in Busy : WorkerOf[x] # WorkerOf[w]
              \/ /\ overlapped' = overlapped \union {signed + 1} /\ ~ Plain(event[w])'
<1> USE DEF ChainInv, IdInv
<1>1. PICK a : a = WorkerOf[w]
  OBVIOUS
<1>2. PICK v : v = event'[w]
  OBVIOUS
<1>3. /\ Pending' = Pending \union {v}
      /\ \A x \in Writers \ {w} : event'[x] = event[x] /\ pc'[x] = pc[x]
      /\ v.id = signed + 1 /\ v.prev = chainHash[a] /\ v.by = a
      /\ pc'[w] = IF queue[a] = <<>> THEN "writing" ELSE "waiting"
  BY <1>1, <1>2, SignPending
<1>4. /\ file' = file /\ chainHash' = chainHash /\ pc[w] = "idle" /\ signed \in Nat
      /\ overlapped' = overlapped \union (IF Appending(a) THEN {signed + 1} ELSE {})
      /\ overlapped \subseteq 1..signed
  BY <1>1, Facts DEF Sign, Signed, fileVars, TypeOK
<1>5. TailHash' = TailHash
  BY <1>4 DEF TailHash
<1>6. \A e \in Pending : e.id \in Nat /\ e.id <= signed
  BY PendingFacts
<1>7. \A e \in Pending : Plain(e)' <=> Plain(e)
  BY <1>4, <1>6 DEF Plain
<1>8. v \notin Pending
  BY <1>3, <1>4, <1>6
<1>9. \A x \in Writers : x # w /\ pc'[x] \in {"waiting", "writing"} =>
         pc[x] \in {"waiting", "writing"} /\ event'[x] = event[x] /\ event[x] \in Pending
  BY <1>3, TaskPending
<1>10. CASE ~ Appending(a)
  <2>1. overlapped' = overlapped /\ signed + 1 \notin overlapped
    BY <1>4, <1>10
  <2>2. Plain(v)'
    BY <2>1, <1>3 DEF Plain
  <2>3. queue[a] = <<>> /\ \A e \in orphans : e.by # a
    BY <1>10 DEF Appending
  <2>4. \A x \in Busy : WorkerOf[x] # a
    <3>1. SUFFICES ASSUME NEW x \in Busy, WorkerOf[x] = a PROVE FALSE
      OBVIOUS
    <3>2. x \in Writers /\ \E k \in 1..Len(queue[a]) : queue[a][k] = x
      BY <3>1 DEF LockInv, Busy
    <3>3. Len(queue[a]) = 0
      BY <2>3
    <3> QED
      BY <3>2, <3>3
  <2>5. \A x \in Writers : pc[x] # "idle" => WorkerOf[x] # a
    BY <2>4 DEF Busy
  <2>6. \A e \in Pending : e.by # a
    <3>1. SUFFICES ASSUME NEW e \in Pending, e.by = a PROVE FALSE
      OBVIOUS
    <3>2. PICK x \in Writers : pc[x] \in {"waiting", "writing"} /\ e = event[x]
      BY <3>1, <2>3 DEF Pending
    <3> QED
      BY <3>1, <3>2, <2>5, TaskPending
  <2>7. pc'[w] = "writing"
    BY <2>3, <1>3
  <2>8. \A e, f \in Pending' : Plain(e)' /\ Plain(f)' /\ e.by = f.by => e = f
    BY <2>6, <1>3, <1>7 DEF PlainInv
  <2>9. \A x \in Writers : pc'[x] \in {"waiting", "writing"} /\ Plain(event[x])' =>
          pc'[x] = "writing" /\ event'[x].prev = chainHash'[WorkerOf[x]]
    <3> SUFFICES ASSUME NEW x \in Writers, pc'[x] \in {"waiting", "writing"}, Plain(event[x])'
                 PROVE  pc'[x] = "writing" /\ event'[x].prev = chainHash'[WorkerOf[x]]
      OBVIOUS
    <3>1. CASE x = w
      BY <3>1, <2>7, <1>1, <1>2, <1>3, <1>4
    <3>2. CASE x # w
      <4>1. pc[x] \in {"waiting", "writing"} /\ Plain(event[x]) /\ pc'[x] = pc[x]
            /\ event'[x] = event[x]
        BY <3>2, <2>1, <1>3 DEF Plain
      <4> QED
        BY <4>1, <1>4 DEF PlainInv
    <3> QED
      BY <3>1, <3>2
  <2>10. ASSUME NEW e \in Pending', Plain(e)', e.prev = TailHash'
         PROVE  /\ chainHash'[e.by] = TailHash'
                /\ \A f \in Pending' : f.by = e.by => f.prev = TailHash'
                /\ \A x \in Writers : WorkerOf[x] = e.by => pc'[x] # "written"
    <3>1. CASE e = v
      <4>1. \A x \in Writers : WorkerOf[x] = a => pc'[x] # "written"
        BY <2>5, <2>7, <1>3
      <4> QED
        BY <3>1, <4>1, <2>6, <2>10, <1>3, <1>4
    <3>2. CASE e # v
      <4>1. e \in Pending /\ Plain(e) /\ e.prev = TailHash /\ e.by # a
        BY <3>2, <2>6, <2>10, <1>3, <1>5, <1>7
      <4>2. /\ chainHash[e.by] = TailHash /\ \A f \in Pending : f.by = e.by => f.prev = TailHash
            /\ \A x \in Writers : WorkerOf[x] = e.by => pc[x] # "written"
        BY <4>1 DEF PlainInv
      <4>3. \A x \in Writers : WorkerOf[x] = e.by => x # w
        BY <4>1, <1>1
      <4> QED
        BY <4>1, <4>2, <4>3, <1>3, <1>4, <1>5
    <3> QED
      BY <3>1, <3>2
  <2>11. PlainInv'
    BY <2>8, <2>9, <2>10 DEF PlainInv
  <2> QED
    BY <2>1, <2>2, <2>4, <2>6, <2>11, <1>1, <1>2, <1>7, <1>8 DEF Plain
<1>11. CASE Appending(a)
  <2>1. overlapped' = overlapped \union {signed + 1}
    BY <1>4, <1>11
  <2>2. ~ Plain(v)'
    BY <2>1, <1>3 DEF Plain
  <2>3. \A e \in Pending' : Plain(e)' => e \in Pending /\ Plain(e)
    BY <2>2, <1>3, <1>7
  <2>4. \A e, f \in Pending' : Plain(e)' /\ Plain(f)' /\ e.by = f.by => e = f
    BY <2>3 DEF PlainInv
  <2>5. \A x \in Writers : pc'[x] \in {"waiting", "writing"} /\ Plain(event[x])' =>
          pc'[x] = "writing" /\ event'[x].prev = chainHash'[WorkerOf[x]]
    <3> SUFFICES ASSUME NEW x \in Writers, pc'[x] \in {"waiting", "writing"}, Plain(event[x])'
                 PROVE  pc'[x] = "writing" /\ event'[x].prev = chainHash'[WorkerOf[x]]
      OBVIOUS
    <3>1. x # w
      BY <2>2, <1>2 DEF Plain
    <3>2. /\ pc[x] \in {"waiting", "writing"} /\ event'[x] = event[x] /\ pc'[x] = pc[x]
          /\ event[x] \in Pending
      BY <3>1, <1>3, <1>9
    <3>3. Plain(event[x])
      BY <3>2, <2>1 DEF Plain
    <3> QED
      BY <3>2, <3>3, <1>4 DEF PlainInv
  <2>6. ASSUME NEW e \in Pending', Plain(e)', e.prev = TailHash'
        PROVE  /\ chainHash'[e.by] = TailHash'
               /\ \A f \in Pending' : f.by = e.by => f.prev = TailHash'
               /\ \A x \in Writers : WorkerOf[x] = e.by => pc'[x] # "written"
    <3>1. e \in Pending /\ Plain(e) /\ e.prev = TailHash
      BY <2>3, <2>6, <1>5
    <3>2. /\ chainHash[e.by] = TailHash /\ \A f \in Pending : f.by = e.by => f.prev = TailHash
          /\ \A x \in Writers : WorkerOf[x] = e.by => pc[x] # "written"
      BY <3>1 DEF PlainInv
    <3>3. \A f \in Pending' : f.by = e.by => f.prev = TailHash
      BY <3>2, <1>3
    <3>4. \A x \in Writers : WorkerOf[x] = e.by => pc'[x] # "written"
      BY <3>2, <1>3
    <3> QED
      BY <3>2, <3>3, <3>4, <1>4, <1>5
  <2>7. PlainInv'
    BY <2>4, <2>5, <2>6 DEF PlainInv
  <2> QED
    BY <2>1, <2>2, <2>7, <1>2, <1>7, <1>8 DEF Plain
<1> QED
  BY <1>10, <1>11

LEMMA AddPlain ==
    ASSUME ChainInv, PlainInv, NEW e \in Pending, Added(e), Pending' = Pending \ {e},
           overlapped' = overlapped, chainHash' = chainHash, event' = event,
           \A x \in Writers : pc'[x] \in {"waiting", "writing"} => pc'[x] = pc[x]
    PROVE  PlainInv'
<1>1. \A f \in Pending' : f.prev # TailHash'
  BY FreshTail
<1>2. \A f \in Pending' : f \in Pending /\ (Plain(f)' <=> Plain(f))
  BY DEF Plain
<1>3. \A x \in Writers : Plain(event[x])' <=> Plain(event[x])
  BY DEF Plain
<1> QED
  BY <1>1, <1>2, <1>3 DEF PlainInv

LEMMA LeavePlain ==
    ASSUME ChainInv, PlainInv, NEW w \in Writers, Left(w), Pending' \subseteq Pending,
           overlapped' = overlapped, file' = file,
           \A b \in Workers : chainHash'[b] = chainHash[b] \/ (pc[w] = "written" /\ b = WorkerOf[w])
    PROVE  PlainInv'
<1>1. TailHash' = TailHash
  BY DEF TailHash
<1>2. \A f \in Pending' : f \in Pending /\ (Plain(f)' <=> Plain(f))
  BY DEF Plain
<1>3. /\ pc'[w] = "idle"
      /\ \A x \in Writers \ {w} :
            /\ event'[x] = event[x] /\ (pc'[x] = "written" <=> pc[x] = "written")
            /\ pc'[x] = pc[x] \/ (pc[x] = "waiting" /\ pc'[x] = "writing")
  BY DEF Left
<1>4. \A x \in Writers : Plain(event[x])' => x = w \/ Plain(event[x])
  BY <1>3 DEF Plain
<1>5. ASSUME NEW x \in Writers, pc'[x] \in {"waiting", "writing"}, Plain(event[x])'
      PROVE  pc'[x] = "writing" /\ event'[x].prev = chainHash'[WorkerOf[x]]
  <2>1. x # w /\ pc[x] \in {"waiting", "writing"} /\ Plain(event[x]) /\ event'[x] = event[x]
    BY <1>3, <1>4, <1>5
  <2>2. pc[x] = "writing" /\ event[x].prev = chainHash[WorkerOf[x]]
    BY <2>1 DEF PlainInv
  <2>3. pc[w] # "written" \/ WorkerOf[x] # WorkerOf[w]
    BY <2>1, <2>2, OneHolder DEF ChainInv
  <2>4. chainHash'[WorkerOf[x]] = chainHash[WorkerOf[x]]
    BY <2>3, Facts DEF ChainInv
  <2>5. pc'[x] = "writing"
    BY <2>1, <2>2, <1>3
  <2> QED
    BY <2>1, <2>2, <2>4, <2>5
<1>6. ASSUME NEW e \in Pending', Plain(e)', e.prev = TailHash'
      PROVE  /\ chainHash'[e.by] = TailHash'
             /\ \A f \in Pending' : f.by = e.by => f.prev = TailHash'
             /\ \A x \in Writers : WorkerOf[x] = e.by => pc'[x] # "written"
  <2>1. /\ chainHash[e.by] = TailHash /\ \A f \in Pending : f.by = e.by => f.prev = TailHash
        /\ \A x \in Writers : WorkerOf[x] = e.by => pc[x] # "written"
    BY <1>1, <1>2, <1>6 DEF PlainInv
  <2>2. e.by \in Workers
    BY <1>2, PendingFacts DEF ChainInv, IdInv
  <2>3. chainHash'[e.by] = chainHash[e.by]
    BY <2>1, <2>2
  <2> QED
    BY <2>1, <2>3, <1>1, <1>2, <1>3
<1>7. \A e, f \in Pending' : Plain(e)' /\ Plain(f)' /\ e.by = f.by => e = f
  BY <1>2 DEF PlainInv
<1> QED
  BY <1>5, <1>6, <1>7 DEF PlainInv

\* A pending event is lost and the file does not grow.
LEMMA LosePlain ==
    ASSUME PlainInv, Pending' \subseteq Pending, overlapped' = overlapped, Kept,
           chainHash' = chainHash, event' = event, pc' = pc
    PROVE  PlainInv'
<1>1. TailHash' = TailHash
  BY DEF TailHash, Kept
<1>2. \A f \in Pending' : f \in Pending /\ (Plain(f)' <=> Plain(f))
  BY DEF Plain
<1>3. \A x \in Writers : Plain(event[x])' <=> Plain(event[x])
  BY DEF Plain
<1> QED
  BY <1>1, <1>2, <1>3 DEF PlainInv

LEMMA RestartPlain ==
    ASSUME ChainInv, PlainInv, NEW a \in Workers, Restart(a) PROVE PlainInv'
<1>1. /\ Pending' = { e \in Pending : e.by # a }
      /\ \A b \in Workers \ {a} : chainHash'[b] = chainHash[b]
      /\ \A x \in Writers : IF WorkerOf[x] = a THEN pc'[x] = "idle" /\ event'[x] = NoEvent
                            ELSE pc'[x] = pc[x] /\ event'[x] = event[x]
  BY RestartClears DEF ChainInv, IdInv
<1>2. TailHash' = TailHash /\ overlapped' = overlapped
  BY DEF Restart, fileVars, TailHash
<1>3. \A f \in Pending' : f \in Pending /\ f.by # a /\ f.by \in Workers /\ (Plain(f)' <=> Plain(f))
  BY <1>1, <1>2, PendingFacts DEF ChainInv, IdInv, Plain
<1>4. \A e, f \in Pending' : Plain(e)' /\ Plain(f)' /\ e.by = f.by => e = f
  BY <1>3 DEF PlainInv
<1>5. ASSUME NEW x \in Writers, pc'[x] \in {"waiting", "writing"}, Plain(event[x])'
      PROVE  pc'[x] = "writing" /\ event'[x].prev = chainHash'[WorkerOf[x]]
  <2>1. WorkerOf[x] # a /\ pc'[x] = pc[x] /\ event'[x] = event[x] /\ WorkerOf[x] \in Workers
    BY <1>1, <1>5, Facts DEF ChainInv
  <2>2. Plain(event[x])
    BY <2>1, <1>2, <1>5 DEF Plain
  <2> QED
    BY <2>1, <2>2, <1>1, <1>5 DEF PlainInv
<1>6. ASSUME NEW e \in Pending', Plain(e)', e.prev = TailHash'
      PROVE  /\ chainHash'[e.by] = TailHash'
             /\ \A f \in Pending' : f.by = e.by => f.prev = TailHash'
             /\ \A x \in Writers : WorkerOf[x] = e.by => pc'[x] # "written"
  <2>1. /\ chainHash[e.by] = TailHash /\ \A f \in Pending : f.by = e.by => f.prev = TailHash
        /\ \A x \in Writers : WorkerOf[x] = e.by => pc[x] # "written"
    BY <1>2, <1>3, <1>6 DEF PlainInv
  <2> QED
    BY <2>1, <1>1, <1>2, <1>3
<1> QED
  BY <1>4, <1>5, <1>6 DEF PlainInv

LEMMA PlainStep == ChainInv /\ PlainInv /\ [Next]_vars => PlainInv'
<1> SUFFICES ASSUME ChainInv, PlainInv, [Next]_vars PROVE PlainInv'
  OBVIOUS
<1>1. TypeOK /\ LockInv /\ TaskIds /\ OrphanIds
  BY DEF ChainInv, IdInv
<1>2. ASSUME NEW w \in Writers, Sign(w) PROVE PlainInv'
  BY <1>2, SignPlain
<1>3. ASSUME NEW w \in Writers, Write(w) PROVE PlainInv'
  <2>1. /\ Pending' = Pending \ {event[w]} /\ event[w] \in Pending /\ pc'[w] = "written"
        /\ \A x \in Writers \ {w} : pc'[x] = pc[x]
        /\ Added(event[w])
    BY <1>1, <1>3, WritePending
  <2>2. PICK e : e = event[w]
    OBVIOUS
  <2>3. e \in Pending /\ Added(e) /\ Pending' = Pending \ {e}
    BY <2>1, <2>2
  <2>4. overlapped' = overlapped /\ chainHash' = chainHash /\ event' = event
    BY <1>3 DEF Write
  <2>5. \A x \in Writers : pc'[x] \in {"waiting", "writing"} => pc'[x] = pc[x]
    BY <2>1
  <2> QED
    BY <2>3, <2>4, <2>5, AddPlain
<1>4. ASSUME NEW w \in Writers, WriteFails(w) \/ Finish(w) PROVE PlainInv'
  <2>1. Left(w) /\ orphans' = orphans
    BY <1>1, <1>4, ReleaseLeaves DEF WriteFails, Finish
  <2>2. PICK O : O = {}
    OBVIOUS
  <2>3. orphans' = orphans \union O /\ O \subseteq {event[w]}
    BY <2>1, <2>2
  <2>4. Pending' \subseteq Pending
    BY <1>1, <2>1, <2>2, <2>3, LeavePending
  <2>5. /\ overlapped' = overlapped /\ file' = file
        /\ \A b \in Workers :
              chainHash'[b] = chainHash[b] \/ (pc[w] = "written" /\ b = WorkerOf[w])
    BY <1>1, <1>4, FileKept DEF WriteFails, Finish, Kept, TypeOK
  <2> QED
    BY <2>1, <2>4, <2>5, LeavePlain
<1>5. ASSUME NEW w \in Writers, Cancel(w) PROVE PlainInv'
  <2>1. /\ Left(w) /\ orphans' = orphans \union Dropped(w) /\ Dropped(w) \subseteq {event[w]}
        /\ Dropped(w) \subseteq Pending
    BY <1>5, CancelFacts
  <2>2. PICK O : O = Dropped(w)
    OBVIOUS
  <2>3. Pending' \subseteq Pending
    BY <1>1, <2>1, <2>2, LeavePending
  <2>4. overlapped' = overlapped /\ file' = file /\ chainHash' = chainHash
    BY <1>5, FileKept DEF Cancel, Kept
  <2> QED
    BY <2>1, <2>3, <2>4, LeavePlain
<1>6. ASSUME NEW e \in orphans, OrphanWrites(e) PROVE PlainInv'
  <2>1. Pending' = Pending \ {e} /\ e \in Pending /\ (Added(e) \/ Kept)
    BY <1>1, <1>6, OrphanPending
  <2>2. overlapped' = overlapped /\ chainHash' = chainHash /\ event' = event /\ pc' = pc
    BY <1>6 DEF OrphanWrites
  <2> QED
    BY <2>1, <2>2, AddPlain, LosePlain
<1>7. ASSUME NEW a \in Workers, Restart(a) PROVE PlainInv'
  BY <1>7, RestartPlain
<1>8. CASE UNCHANGED vars
  BY <1>8 DEF vars, fileVars, PlainInv, Plain, Pending, TailHash
<1> QED
  BY <1>2, <1>3, <1>4, <1>5, <1>6, <1>7, <1>8 DEF Next

-----------------------------------------------------------------------------
(* Counting the lines that do not verify.                                  *)

LEMMA OneMore ==
    ASSUME NEW S, IsFiniteSet(S), NEW x, x \notin S
    PROVE  IsFiniteSet(S \union {x}) /\ Cardinality(S \union {x}) = Cardinality(S) + 1
BY FS_AddElement

LEMMA OneLess ==
    ASSUME NEW S, IsFiniteSet(S), NEW x \in S
    PROVE  IsFiniteSet(S \ {x}) /\ Cardinality(S \ {x}) = Cardinality(S) - 1
BY FS_RemoveElement

\* Writing e now adds a line that can be read, comes from the author of the last
\* one and does not verify behind it.
Fails(e) ==
    /\ file # <<>> /\ ~ torn
    /\ e.by = file[Len(file)].by
    /\ e.prev # IF TailHash \in spoilt THEN 0 ELSE TailHash

LEMMA AddBroken ==
    ASSUME TypeOK, spoilt \subseteq FileIds, NEW e \in Events, Added(e), e.id \notin FileIds
    PROVE  /\ Broken' = IF Fails(e) THEN Broken \union {Len(file) + 1} ELSE Broken
           /\ Len(file) + 1 \notin Broken
<1>1. /\ Len(file') = Len(file) + 1 /\ file'[Len(file) + 1] = e
      /\ \A i \in 1..Len(file) : file'[i] = file[i]
      /\ Len(file) \in Nat /\ (file = <<>> <=> Len(file) = 0)
      /\ spoilt' = IF torn THEN spoilt \union {e.id} ELSE spoilt
  BY Facts DEF Added
<1>2. PICK n : n = Len(file)
  OBVIOUS
<1>3. n \in Nat /\ Len(file') = n + 1
  BY <1>1, <1>2
<1>4. /\ Broken \subseteq 2..n /\ Broken' \subseteq 2..(n + 1)
      /\ \A i : i \in 2..(n + 1) <=> (i \in 2..n \/ (i = n + 1 /\ n # 0))
      /\ n + 1 \notin 2..n
  <2>1. Broken \subseteq 2..n /\ Broken' \subseteq 2..(n + 1)
    BY <1>2, <1>3 DEF Broken
  <2> QED
    BY <2>1, <1>3
<1>5. \A i \in 1..n : file[i].id # e.id
  BY <1>2 DEF FileIds
<1>6. \A i \in 1..n : file'[i] = file[i] /\ (file'[i].id \in spoilt' <=> file[i].id \in spoilt)
  BY <1>1, <1>2, <1>5
<1>7. ASSUME NEW i \in 2..n PROVE i \in Broken' <=> i \in Broken
  <2>1. i \in 1..n /\ i - 1 \in 1..n /\ i \in 2..(n + 1)
    BY <1>3
  <2>2. Before(i)' = Before(i)
    BY <2>1, <1>6 DEF Before
  <2> QED
    BY <2>1, <2>2, <1>2, <1>3, <1>6 DEF Broken
<1>8. n + 1 \in Broken' <=> Fails(e)
  <2>1. CASE n = 0
    BY <2>1, <1>1, <1>2, <1>4 DEF Fails
  <2>2. CASE n # 0
    <3>1. n \in 1..n /\ (n + 1) - 1 = n /\ n + 1 \in 2..(n + 1)
      BY <2>2, <1>3
    <3>2. file[n].id = TailHash /\ file # <<>>
      BY <2>2, <1>1, <1>2 DEF TailHash
    <3>3. Before(n + 1)' = IF TailHash \in spoilt THEN 0 ELSE TailHash
      BY <3>1, <3>2, <1>6 DEF Before
    <3>4. e.id \in spoilt' <=> torn
      BY <1>1
    <3>5. n + 1 \in Broken' <=> /\ e.id \notin spoilt' /\ e.by = file[n].by
                                /\ e.prev # Before(n + 1)'
      BY <3>1, <1>1, <1>2, <1>3, <1>6 DEF Broken
    <3> QED
      BY <3>2, <3>3, <3>4, <3>5, <1>2 DEF Fails
  <2> QED
    BY <2>1, <2>2
<1>9. \A i \in Broken' : i \in Broken \/ (i = n + 1 /\ Fails(e))
  BY <1>4, <1>7, <1>8
<1>10. Broken \subseteq Broken'
  BY <1>4, <1>7
<1>11. CASE Fails(e)
  <2>1. Broken' = Broken \union {n + 1}
    <3>1. n + 1 \in Broken'
      BY <1>8, <1>11
    <3>2. \A i \in Broken' : i \in Broken \/ i = n + 1
      BY <1>9
    <3> QED
      BY <3>1, <3>2, <1>10, Zenon
  <2> QED
    BY <2>1, <1>2, <1>4, <1>11
<1>12. CASE ~ Fails(e)
  <2>1. \A i \in Broken' : i \in Broken
    BY <1>9, <1>12
  <2>2. Broken' = Broken
    BY <2>1, <1>10, Zenon
  <2> QED
    BY <2>2, <1>2, <1>4, <1>12
<1> QED
  BY <1>11, <1>12

LEMMA Counts ==
    ASSUME TypeOK, IsFiniteSet(Pending)
    PROVE  /\ IsFiniteSet(Broken) /\ Cardinality(Broken) \in Nat
           /\ IsFiniteSet(Carried) /\ Cardinality(Carried) \in Nat
           /\ IsFiniteSet(orphans) /\ Cardinality(orphans) \in Nat
           /\ IsFiniteSet(overlapped) /\ Cardinality(overlapped) \in Nat
           /\ IsFiniteSet(cancelled) /\ Cardinality(cancelled) \in Nat
           /\ Cardinality(Pending) \in Nat /\ DueOne \in 0..1 /\ tears \in Nat
<1>1. IsFiniteSet(Carried) /\ IsFiniteSet(orphans)
  BY FS_Subset DEF Carried, Pending
<1>2. IsFiniteSet(1..signed) /\ IsFiniteSet(2..Len(file))
  BY FS_Interval, Facts
<1>3. IsFiniteSet(overlapped) /\ IsFiniteSet(cancelled)
  BY <1>2, FS_Subset DEF TypeOK
<1>4. IsFiniteSet(Broken)
  BY <1>2, FS_Subset DEF Broken
<1> QED
  BY <1>1, <1>3, <1>4, FS_CardinalityType, Facts DEF DueOne

LEMMA AddCounts ==
    ASSUME ChainInv, IsFiniteSet(Pending), NEW e \in Pending, Added(e)
    PROVE  /\ Cardinality(Broken') \in Nat
           /\ Cardinality(Broken') = Cardinality(Broken) + (IF Fails(e) THEN 1 ELSE 0)
<1>1. IsFiniteSet(Broken) /\ Cardinality(Broken) \in Nat
  BY Counts DEF ChainInv
<1>2. e \in Events /\ e.id \notin FileIds /\ spoilt \subseteq FileIds
  BY PendingFacts DEF ChainInv, IdInv, StoredIds
<1>3. /\ Broken' = IF Fails(e) THEN Broken \union {Len(file) + 1} ELSE Broken
      /\ Len(file) + 1 \notin Broken
  BY <1>2, AddBroken DEF ChainInv
<1>4. Cardinality(Broken \union {Len(file) + 1}) = Cardinality(Broken) + 1
  BY <1>1, <1>3, OneMore
<1> QED
  BY <1>1, <1>3, <1>4

\* A line that fails was due, unless it was signed during another append and
\* nothing of its worker that is still to come was signed alone.
LEMMA FailsDue ==
    ASSUME ChainInv, PlainInv, NEW e \in Pending, Fails(e),
           \E f \in Pending : Plain(f) /\ f.by = e.by
    PROVE  DueOne = 1
<1>1. PICK f \in Pending : Plain(f) /\ f.by = e.by
  OBVIOUS
<1>2. e.by = file[Len(file)].by /\ file # <<>>
  BY DEF Fails
<1>3. CASE TailHash \in spoilt
  BY <1>2, <1>3 DEF Due, DueOne
<1>4. CASE TailHash \notin spoilt
  <2>1. e.prev # TailHash
    BY <1>4 DEF Fails
  <2>2. f.prev # TailHash
    BY <2>1, <1>1 DEF PlainInv
  <2>3. DueOf(e.by)
    BY <2>2, <1>1 DEF DueOf
  <2> QED
    BY <2>3, <1>2 DEF Due, DueOne
<1> QED
  BY <1>3, <1>4

LEMMA DueOfSame ==
    ASSUME NEW b, TailHash' = TailHash, Mismatch(b)' <=> Mismatch(b),
           \A e : (e \in Pending' /\ e.by = b /\ Plain(e)')
                  <=> (e \in Pending /\ e.by = b /\ Plain(e))
    PROVE  DueOf(b)' <=> DueOf(b)
<1>1. (\E e \in Pending' : e.by = b /\ Plain(e)') <=> \E e \in Pending : e.by = b /\ Plain(e)
  OBVIOUS
<1>2. (\E e \in Pending' : e.by = b /\ Plain(e)' /\ e.prev # TailHash')
      <=> \E e \in Pending : e.by = b /\ Plain(e) /\ e.prev # TailHash
  OBVIOUS
<1> QED
  BY <1>1, <1>2 DEF DueOf

LEMMA MismatchSame ==
    ASSUME NEW b, TailHash' = TailHash, chainHash'[b] = chainHash[b],
           \A x \in Writers : WorkerOf[x] = b =>
              /\ pc'[x] = "written" <=> pc[x] = "written"
              /\ pc[x] = "written" => event'[x] = event[x]
    PROVE  Mismatch(b)' <=> Mismatch(b)
BY DEF Mismatch

LEMMA DueSame ==
    ASSUME TypeOK, file' = file, spoilt' = spoilt, torn' = torn,
           \A b \in Workers : DueOf(b)' <=> DueOf(b)
    PROVE  DueOne' = DueOne
<1>1. file # <<>> => file[Len(file)].by \in Workers
  BY Facts
<1>2. TailHash' = TailHash
  BY DEF TailHash
<1>3. Due' <=> Due
  BY <1>1, <1>2 DEF Due
<1> QED
  BY <1>3 DEF DueOne

LEMMA SignCount ==
    ASSUME ChainInv, PlainInv, CountInv, NEW w \in Writers, Sign(w) PROVE CountInv'
<1>1. TypeOK /\ TypeOK' /\ Busy' = Busy \union {w} /\ w \notin Busy
  BY SignTakes DEF ChainInv, Sign, Signed, Busy
<1>2. PICK v : v = event'[w]
  OBVIOUS
<1>3. PICK a : a = WorkerOf[w]
  OBVIOUS
<1>4. /\ Pending' = Pending \union {v}
      /\ \A x \in Writers \ {w} : event'[x] = event[x] /\ pc'[x] = pc[x]
      /\ v.id = signed + 1 /\ v.prev = chainHash[a] /\ v.by = a /\ pc'[w] # "written"
  BY <1>1, <1>2, <1>3, SignPending
<1>5. /\ \A e \in Pending : Plain(e)' <=> Plain(e)
      /\ v \notin Pending
      /\ \/ /\ overlapped' = overlapped /\ Plain(v)'
            /\ \A e \in Pending : e.by # a
            /\ \A x \in Busy : WorkerOf[x] # a
         \/ /\ overlapped' = overlapped \union {signed + 1} /\ ~ Plain(v)'
  BY <1>2, <1>3, SignPlain DEF Plain
<1>6. /\ file' = file /\ torn' = torn /\ spoilt' = spoilt /\ tears' = tears
      /\ orphans' = orphans /\ cancelled' = cancelled /\ chainHash' = chainHash
      /\ overlapped \subseteq 1..signed /\ cancelled \subseteq 1..signed /\ signed \in Nat
  BY <1>1, Facts DEF Sign, Signed, fileVars, TypeOK
<1>7. Broken' = Broken /\ TailHash' = TailHash
  BY <1>6 DEF Broken, Before, TailHash
<1>8. IsFiniteSet(Pending) /\ IsFiniteSet(Pending')
  BY <1>4, <1>5, OneMore DEF CountInv
<1>9. \A x \in Busy' : event'[x].id \notin cancelled'
  <2>1. signed + 1 \notin cancelled
    BY <1>6
  <2> QED
    BY <2>1, <1>1, <1>2, <1>4, <1>6 DEF CountInv, Busy
<1>10. /\ Cardinality(Broken) \in Nat /\ IsFiniteSet(Carried) /\ Cardinality(Carried) \in Nat
       /\ Cardinality(orphans) \in Nat /\ IsFiniteSet(overlapped) /\ Cardinality(overlapped) \in Nat
       /\ Cardinality(cancelled) \in Nat /\ DueOne \in 0..1 /\ tears \in Nat
  BY <1>1, <1>8, Counts
<1>11. Carried' = { e \in Pending' : ~ Plain(e)' }
  BY DEF Carried
<1>12. \A b : Mismatch(b)' <=> Mismatch(b)
  <2>1. \A x \in Writers : /\ pc'[x] = "written" <=> pc[x] = "written"
                           /\ pc[x] = "written" => event'[x] = event[x]
    BY <1>1, <1>4 DEF Busy
  <2> QED
    BY <2>1, <1>6, <1>7 DEF Mismatch
<1>13. CASE /\ overlapped' = overlapped /\ Plain(v)'
            /\ \A e \in Pending : e.by # a
            /\ \A x \in Busy : WorkerOf[x] # a
  <2>1. Carried' = Carried
    BY <1>4, <1>5, <1>11, <1>13 DEF Carried
  <2>2. DueOf(a)' <=> DueOf(a)
    <3>1. \A x \in Writers : WorkerOf[x] = a => pc[x] # "written"
      BY <1>13 DEF Busy
    <3>2. DueOf(a) <=> chainHash[a] # TailHash
      BY <3>1, <1>13 DEF DueOf, Mismatch
    <3>3. DueOf(a)' <=> v.prev # TailHash'
      BY <1>4, <1>13 DEF DueOf
    <3> QED
      BY <3>2, <3>3, <1>4, <1>7
  <2>3. ASSUME NEW b \in Workers, b # a PROVE DueOf(b)' <=> DueOf(b)
    <3>1. \A e : (e \in Pending' /\ e.by = b /\ Plain(e)')
                 <=> (e \in Pending /\ e.by = b /\ Plain(e))
      BY <2>3, <1>4, <1>5
    <3> QED
      BY <3>1, <1>7, <1>12, DueOfSame
  <2>4. DueOne' = DueOne
    BY <2>2, <2>3, <1>1, <1>6, DueSame
  <2> QED
    BY <2>1, <2>4, <1>6, <1>7, <1>8, <1>9, <1>10, <1>13 DEF CountInv
<1>14. CASE overlapped' = overlapped \union {signed + 1} /\ ~ Plain(v)'
  <2>1. Carried' = Carried \union {v} /\ v \notin Carried
    BY <1>4, <1>5, <1>11, <1>14 DEF Carried
  <2>2. Cardinality(Carried') = Cardinality(Carried) + 1
    BY <2>1, <1>10, OneMore
  <2>3. signed + 1 \notin overlapped
    BY <1>6
  <2>4. Cardinality(overlapped') = Cardinality(overlapped) + 1
    BY <2>3, <1>10, <1>14, OneMore
  <2>5. ASSUME NEW b \in Workers PROVE DueOf(b)' <=> DueOf(b)
    <3>1. \A e : (e \in Pending' /\ e.by = b /\ Plain(e)')
                 <=> (e \in Pending /\ e.by = b /\ Plain(e))
      BY <1>4, <1>5, <1>14
    <3> QED
      BY <3>1, <1>7, <1>12, DueOfSame
  <2>6. DueOne' = DueOne
    BY <2>5, <1>1, <1>6, DueSame
  <2> QED
    BY <2>2, <2>4, <2>6, <1>6, <1>7, <1>8, <1>9, <1>10 DEF CountInv
<1> QED
  BY <1>5, <1>13, <1>14

\* What a write moves out of Carried.
LEMMA CarriedLess ==
    ASSUME IsFiniteSet(Carried), NEW e \in Pending, Pending' = Pending \ {e},
           overlapped' = overlapped
    PROVE  /\ Cardinality(Carried') = Cardinality(Carried) - (IF Plain(e) THEN 0 ELSE 1)
           /\ \A f \in Pending' : f \in Pending /\ (Plain(f)' <=> Plain(f))
<1>1. Cardinality(Carried) \in Nat
  BY FS_CardinalityType
<1>2. Carried' = Carried \ {e} /\ (e \in Carried <=> ~ Plain(e))
  BY DEF Carried, Plain
<1>3. \A f \in Pending' : f \in Pending /\ (Plain(f)' <=> Plain(f))
  BY DEF Plain
<1>4. CASE Plain(e)
  <2>1. Carried' = Carried
    BY <1>2, <1>4
  <2> QED
    BY <2>1, <1>1, <1>3, <1>4
<1>5. CASE ~ Plain(e)
  <2>1. Cardinality(Carried \ {e}) = Cardinality(Carried) - 1
    BY <1>2, <1>5, OneLess
  <2> QED
    BY <2>1, <1>2, <1>3, <1>5
<1> QED
  BY <1>4, <1>5

LEMMA WriteCount ==
    ASSUME ChainInv, PlainInv, CountInv, NEW w \in Writers, Write(w) PROVE CountInv'
<1>1. TypeOK /\ LockInv /\ TaskIds /\ OrphanIds
  BY DEF ChainInv, IdInv
<1>2. PICK e : e = event[w]
  OBVIOUS
<1>3. PICK a : a = WorkerOf[w]
  OBVIOUS
<1>4. /\ e \in Events /\ Pending' = Pending \ {e} /\ e \in Pending /\ e.by = a
      /\ Busy' = Busy /\ pc'[w] = "written" /\ TypeOK' /\ Added(e)
      /\ \A x \in Writers \ {w} : pc'[x] = pc[x]
  BY <1>1, <1>2, <1>3, WritePending
<1>5. /\ orphans' = orphans /\ overlapped' = overlapped /\ cancelled' = cancelled
      /\ event' = event /\ pc[w] = "writing"
  BY DEF Write
<1>6. IsFiniteSet(Pending) /\ IsFiniteSet(Pending')
  BY <1>4, OneLess DEF CountInv
<1>7. /\ Cardinality(Broken) \in Nat /\ IsFiniteSet(Carried) /\ Cardinality(Carried) \in Nat
      /\ Cardinality(orphans) \in Nat /\ Cardinality(overlapped) \in Nat
      /\ Cardinality(cancelled) \in Nat /\ DueOne \in 0..1 /\ tears \in Nat
  BY <1>1, <1>6, Counts
<1>8. Cardinality(Broken') = Cardinality(Broken) + (IF Fails(e) THEN 1 ELSE 0)
  BY <1>4, <1>6, AddCounts
<1>9. /\ Cardinality(Carried') = Cardinality(Carried) - (IF Plain(e) THEN 0 ELSE 1)
      /\ \A f \in Pending' : f \in Pending /\ (Plain(f)' <=> Plain(f))
  BY <1>4, <1>5, <1>7, CarriedLess
<1>10. \A x \in Busy' : event'[x].id \notin cancelled'
  BY <1>4, <1>5 DEF CountInv
<1>11. DueOne' \in 0..1 /\ tears' = tears /\ torn' = FALSE
  BY <1>4 DEF DueOne, Added
<1>12. ASSUME ~ torn, \A f \in Pending' : f.by = a => ~ Plain(f)' PROVE DueOne' = 0
  <2>1. \A x \in Writers : WorkerOf[x] = a /\ pc'[x] = "written" => x = w
    BY <1>1, <1>3, <1>4, <1>5, OneHolder
  <2>2. event'[w].id = TailHash'
    BY <1>2, <1>4, <1>5 DEF Added
  <2>3. ~ Mismatch(a)'
    BY <2>1, <2>2, <1>3, <1>4 DEF Mismatch
  <2>4. ~ DueOf(a)'
    BY <2>3, <1>12 DEF DueOf
  <2>5. /\ file' # <<>> /\ file'[Len(file')].by = a /\ TailHash' = e.id /\ spoilt' = spoilt
    <3>1. Len(file') = Len(file) + 1 /\ Len(file) \in Nat /\ file' \in Seq(Events)
      BY <1>1, <1>4, Facts DEF Added
    <3>2. file' # <<>>
      BY <3>1
    <3> QED
      BY <3>1, <3>2, <1>4, <1>12 DEF Added
  <2>6. e.id \notin spoilt'
    BY <2>5, <1>4 DEF ChainInv, IdInv, StoredIds
  <2>7. ~ Due'
    BY <2>4, <2>5, <2>6, <1>11 DEF Due
  <2> QED
    BY <2>7 DEF DueOne
<1>13. Fails(e) /\ Plain(e) => DueOne = 1
  BY <1>4, FailsDue
<1>14. CASE torn
  <2>1. DueOne = 1 /\ ~ Fails(e)
    BY <1>14 DEF Due, DueOne, Fails
  <2> QED
    BY <2>1, <1>5, <1>6, <1>7, <1>8, <1>9, <1>10, <1>11 DEF CountInv
<1>15. CASE ~ torn /\ \A f \in Pending' : f.by = a => ~ Plain(f)'
  <2>1. DueOne' = 0
    BY <1>12, <1>15
  <2> QED
    BY <2>1, <1>5, <1>6, <1>7, <1>8, <1>9, <1>10, <1>11, <1>13 DEF CountInv
<1>16. CASE \E f \in Pending' : f.by = a /\ Plain(f)'
  <2>1. PICK f \in Pending : f.by = e.by /\ Plain(f) /\ f # e
    BY <1>4, <1>9, <1>16
  <2>2. ~ Plain(e)
    BY <2>1, <1>4 DEF PlainInv
  <2>3. Fails(e) => DueOne = 1
    BY <2>1, <1>4, FailsDue
  <2> QED
    BY <2>2, <2>3, <1>5, <1>6, <1>7, <1>8, <1>9, <1>10, <1>11 DEF CountInv
<1> QED
  BY <1>14, <1>15, <1>16

LEMMA OrphanCount ==
    ASSUME ChainInv, PlainInv, CountInv, NEW e \in orphans, OrphanWrites(e) PROVE CountInv'
<1>1. TypeOK /\ LockInv /\ TaskIds /\ OrphanIds
  BY DEF ChainInv, IdInv
<1>2. /\ e \in Events /\ Pending' = Pending \ {e} /\ e \in Pending
      /\ Busy' = Busy /\ (Added(e) \/ Kept)
  BY <1>1, OrphanPending
<1>3. /\ orphans' = orphans \ {e} /\ overlapped' = overlapped /\ cancelled' = cancelled
      /\ event' = event
  BY DEF OrphanWrites
<1>4. IsFiniteSet(Pending) /\ IsFiniteSet(Pending')
  BY <1>2, OneLess DEF CountInv
<1>5. /\ Cardinality(Broken) \in Nat /\ IsFiniteSet(Carried) /\ Cardinality(Carried) \in Nat
      /\ IsFiniteSet(orphans) /\ Cardinality(orphans) \in Nat /\ Cardinality(overlapped) \in Nat
      /\ Cardinality(cancelled) \in Nat /\ DueOne \in 0..1 /\ tears \in Nat
  BY <1>1, <1>4, Counts
<1>6. Cardinality(Carried') = Cardinality(Carried) - (IF Plain(e) THEN 0 ELSE 1)
  BY <1>2, <1>3, <1>5, CarriedLess
<1>7. Cardinality(orphans') = Cardinality(orphans) - 1
  BY <1>3, <1>5, OneLess
<1>8. \A x \in Busy' : event'[x].id \notin cancelled'
  BY <1>2, <1>3 DEF CountInv
<1>9. DueOne' \in 0..1
  BY DEF DueOne
<1>10. CASE Added(e)
  <2>1. Cardinality(Broken') = Cardinality(Broken) + (IF Fails(e) THEN 1 ELSE 0)
    BY <1>2, <1>4, <1>10, AddCounts
  <2>2. Fails(e) /\ Plain(e) => DueOne = 1
    BY <1>2, FailsDue
  <2>3. tears' = tears
    BY <1>10 DEF Added
  <2> QED
    BY <2>1, <2>2, <2>3, <1>3, <1>4, <1>5, <1>6, <1>7, <1>8, <1>9 DEF CountInv
<1>11. CASE Kept
  <2>1. Broken' = Broken
    BY <1>11 DEF Kept, Broken, Before
  <2>2. tears' = tears \/ tears' = tears + 1
    BY <1>11 DEF Kept
  <2> QED
    BY <2>1, <2>2, <1>3, <1>4, <1>5, <1>6, <1>7, <1>8, <1>9 DEF CountInv
<1> QED
  BY <1>2, <1>10, <1>11

\* A task that leaves the lock without a write.
LEMMA LeaveCount ==
    ASSUME ChainInv, CountInv, NEW w \in Writers, Left(w), Kept,
           orphans' = orphans, overlapped' = overlapped, cancelled' = cancelled,
           Pending' \subseteq Pending, tears' = tears => DueOne' = DueOne
    PROVE  CountInv'
<1>1. Broken' = Broken
  BY DEF Broken, Before, Kept
<1>2. IsFiniteSet(Pending) /\ IsFiniteSet(Pending')
  BY FS_Subset DEF CountInv
<1>3. Carried' \subseteq Carried
  BY DEF Carried, Plain
<1>4. /\ Cardinality(Broken) \in Nat /\ IsFiniteSet(Carried) /\ Cardinality(Carried) \in Nat
      /\ Cardinality(orphans) \in Nat /\ Cardinality(overlapped) \in Nat
      /\ Cardinality(cancelled) \in Nat /\ DueOne \in 0..1 /\ tears \in Nat
  BY <1>2, Counts DEF ChainInv
<1>5. Cardinality(Carried') <= Cardinality(Carried) /\ IsFiniteSet(Carried')
  BY <1>3, <1>4, FS_Subset
<1>6. Cardinality(Carried') \in Nat
  BY <1>5, FS_CardinalityType
<1>7. \A x \in Busy' : event'[x].id \notin cancelled'
  BY DEF CountInv, Left, Busy
<1>8. DueOne' \in 0..1 /\ (tears' = tears \/ tears' = tears + 1)
  BY DEF DueOne, Kept
<1> QED
  BY <1>1, <1>2, <1>4, <1>5, <1>6, <1>7, <1>8 DEF CountInv

LEMMA LeaverWrites ==
    ASSUME TypeOK, NEW w \in Writers, Left(w), pc[w] \in {"writing", "written"}
    PROVE  /\ \A x \in Writers : WorkerOf[x] = WorkerOf[w] /\ pc[x] = "written" => x = w
           /\ \A x \in Writers : WorkerOf[x] = WorkerOf[w] => pc'[x] # "written"
<1>1. \A x \in Writers : WorkerOf[x] = WorkerOf[w] /\ pc[x] = "written" => x = w
  BY OneHolder
<1>2. pc'[w] = "idle" /\ \A x \in Writers \ {w} : pc'[x] = "written" <=> pc[x] = "written"
  BY DEF Left
<1> QED
  BY <1>1, <1>2

\* The workers other than that of the task which leaves are due what they were.
LEMMA OthersSame ==
    ASSUME TypeOK, TaskIds, NEW w \in Writers, Left(w), TailHash' = TailHash,
           overlapped' = overlapped, Pending' \subseteq Pending, Pending \ {event[w]} \subseteq Pending',
           NEW b, b # WorkerOf[w], chainHash'[b] = chainHash[b]
    PROVE  DueOf(b)' <=> DueOf(b)
<1>1. \A x \in Writers \ {w} : event'[x] = event[x] /\ (pc'[x] = "written" <=> pc[x] = "written")
  BY DEF Left
<1>2. Mismatch(b)' <=> Mismatch(b)
  BY <1>1, MismatchSame
<1>3. event[w].by = WorkerOf[w]
  BY DEF Left, TaskIds
<1>4. \A e : Plain(e)' <=> Plain(e)
  BY DEF Plain
<1>5. \A e : (e \in Pending' /\ e.by = b /\ Plain(e)')
             <=> (e \in Pending /\ e.by = b /\ Plain(e))
  BY <1>3, <1>4
<1> QED
  BY <1>2, <1>5, DueOfSame

LEMMA FailCount ==
    ASSUME ChainInv, PlainInv, CountInv, NEW w \in Writers, WriteFails(w) PROVE CountInv'
<1>1. TypeOK /\ LockInv /\ TaskIds /\ OrphanIds
  BY DEF ChainInv, IdInv
<1>2. Left(w) /\ Kept
  BY <1>1, ReleaseLeaves, FileKept DEF WriteFails
<1>3. /\ orphans' = orphans /\ overlapped' = overlapped /\ pc[w] = "writing"
      /\ cancelled' = cancelled /\ chainHash' = chainHash
  BY DEF WriteFails
<1>4. PICK O : O = {}
  OBVIOUS
<1>5. orphans' = orphans \union O /\ O \subseteq {event[w]}
  BY <1>3, <1>4
<1>6. Pending' = Pending \ {event[w]}
  BY <1>1, <1>2, <1>4, <1>5, LeavePending
<1>7. PICK e : e = event[w]
  OBVIOUS
<1>8. PICK a : a = WorkerOf[w]
  OBVIOUS
<1>9. e \in Pending /\ e.by = a /\ Pending' = Pending \ {e}
  BY <1>3, <1>1, <1>6, <1>7, <1>8, TaskPending
<1>10. /\ \A x \in Writers : WorkerOf[x] = a => pc[x] # "written"
       /\ \A x \in Writers : WorkerOf[x] = a => pc'[x] # "written"
  BY <1>1, <1>2, <1>3, <1>8, LeaverWrites
<1>11. TailHash' = TailHash /\ \A f : Plain(f)' <=> Plain(f)
  BY <1>2, <1>3 DEF TailHash, Plain, Kept
<1>12. (Mismatch(a) <=> chainHash[a] # TailHash) /\ (Mismatch(a)' <=> chainHash[a] # TailHash)
  BY <1>3, <1>10, <1>11 DEF Mismatch
<1>13. DueOf(a)' <=> DueOf(a)
  <2>1. CASE Plain(e)
    <3>1. e.prev = chainHash[a]
      BY <2>1, <1>3, <1>7, <1>8 DEF PlainInv
    <3>2. \A f \in Pending : Plain(f) /\ f.by = a => f = e
      BY <2>1, <1>9 DEF PlainInv
    <3>3. DueOf(a) <=> e.prev # TailHash
      BY <2>1, <3>2, <1>9 DEF DueOf
    <3>4. \A f \in Pending' : f.by = a => ~ Plain(f)'
      BY <3>2, <1>9, <1>11
    <3>5. DueOf(a)' <=> chainHash[a] # TailHash
      BY <3>4, <1>12 DEF DueOf
    <3> QED
      BY <3>1, <3>3, <3>5
  <2>2. CASE ~ Plain(e)
    <3>1. \A f : (f \in Pending' /\ f.by = a /\ Plain(f)')
                 <=> (f \in Pending /\ f.by = a /\ Plain(f))
      BY <2>2, <1>9, <1>11
    <3> QED
      BY <3>1, <1>11, <1>12, DueOfSame
  <2> QED
    BY <2>1, <2>2
<1>14. \A b \in Workers : DueOf(b)' <=> DueOf(b)
  <2>1. ASSUME NEW b \in Workers, b # a PROVE DueOf(b)' <=> DueOf(b)
    BY <2>1, <1>1, <1>2, <1>3, <1>6, <1>8, <1>11, OthersSame
  <2> QED
    BY <2>1, <1>13
<1>15. tears' = tears => DueOne' = DueOne
  <2>1. SUFFICES ASSUME tears' = tears PROVE DueOne' = DueOne
    OBVIOUS
  <2>2. tears \in Nat
    BY <1>1, Facts
  <2>3. file' = file /\ spoilt' = spoilt /\ torn' = torn
    BY <2>1, <2>2, <1>2 DEF Kept
  <2> QED
    BY <2>3, <1>1, <1>14, DueSame
<1> QED
  BY <1>2, <1>3, <1>9, <1>15, LeaveCount

LEMMA FinishCount ==
    ASSUME ChainInv, PlainInv, CountInv, NEW w \in Writers, Finish(w) PROVE CountInv'
<1>1. TypeOK /\ LockInv /\ TaskIds /\ OrphanIds
  BY DEF ChainInv, IdInv
<1>2. Left(w) /\ Kept
  BY <1>1, ReleaseLeaves, FileKept DEF Finish
<1>3. PICK a : a = WorkerOf[w]
  OBVIOUS
<1>4. /\ file' = file /\ torn' = torn /\ spoilt' = spoilt /\ tears' = tears
      /\ orphans' = orphans /\ overlapped' = overlapped /\ pc[w] = "written"
      /\ cancelled' = cancelled /\ a \in Workers
      /\ chainHash'[a] = event[w].id /\ \A b \in Workers \ {a} : chainHash'[b] = chainHash[b]
  BY <1>1, <1>3, Facts DEF Finish, fileVars, TypeOK
<1>5. PICK O : O = {}
  OBVIOUS
<1>6. orphans' = orphans \union O /\ O \subseteq {event[w]}
  BY <1>4, <1>5
<1>7. Pending' = Pending
  <2>1. Pending' = Pending \ {event[w]}
    BY <1>1, <1>2, <1>5, <1>6, LeavePending
  <2>2. event[w] \notin Pending
    BY <1>1, <1>4, PendingFacts
  <2> QED
    BY <2>1, <2>2
<1>8. /\ \A x \in Writers : WorkerOf[x] = a /\ pc[x] = "written" => x = w
      /\ \A x \in Writers : WorkerOf[x] = a => pc'[x] # "written"
  BY <1>1, <1>2, <1>3, <1>4, LeaverWrites
<1>9. TailHash' = TailHash /\ \A f : Plain(f)' <=> Plain(f)
  BY <1>4 DEF TailHash, Plain
<1>10. Mismatch(a)' <=> Mismatch(a)
  BY <1>3, <1>4, <1>8, <1>9 DEF Mismatch
<1>11. \A b \in Workers : DueOf(b)' <=> DueOf(b)
  <2>1. ASSUME NEW b \in Workers, b # a PROVE DueOf(b)' <=> DueOf(b)
    BY <2>1, <1>1, <1>2, <1>3, <1>4, <1>7, <1>9, OthersSame
  <2>2. DueOf(a)' <=> DueOf(a)
    BY <1>7, <1>9, <1>10, DueOfSame
  <2> QED
    BY <2>1, <2>2
<1>12. DueOne' = DueOne
  BY <1>1, <1>4, <1>11, DueSame
<1> QED
  BY <1>2, <1>4, <1>7, <1>12, LeaveCount


LEMMA CancelCount ==
    ASSUME ChainInv, PlainInv, CountInv, NEW w \in Writers, Cancel(w) PROVE CountInv'
<1>1. TypeOK /\ LockInv /\ TaskIds /\ OrphanIds
  BY DEF ChainInv, IdInv
<1>2. /\ Left(w) /\ orphans' = orphans \union Dropped(w) /\ Dropped(w) \subseteq {event[w]}
      /\ Dropped(w) \subseteq Pending /\ (Dropped(w) # {} => pc[w] = "writing")
      /\ cancelled' = cancelled \union {event[w].id}
  BY CancelFacts
<1>3. /\ file' = file /\ torn' = torn /\ spoilt' = spoilt /\ tears' = tears
      /\ overlapped' = overlapped /\ chainHash' = chainHash
  BY DEF Cancel, fileVars
<1>4. w \in Busy /\ Busy' = Busy \ {w} /\ \A x \in Writers \ {w} : event'[x] = event[x]
  BY <1>2 DEF Left
<1>5. PICK O : O = Dropped(w)
  OBVIOUS
<1>6. Pending' = (Pending \ {event[w]}) \union O /\ O \subseteq {event[w]} /\ O \subseteq Pending
  BY <1>1, <1>2, <1>5, LeavePending
<1>7. Pending' \subseteq Pending /\ Pending \ {event[w]} \subseteq Pending' /\ IsFiniteSet(Pending)
  BY <1>6 DEF CountInv
<1>8. IsFiniteSet(Pending')
  BY <1>7, FS_Subset
<1>9. Broken' = Broken /\ TailHash' = TailHash /\ \A f : Plain(f)' <=> Plain(f)
  BY <1>3 DEF Broken, Before, TailHash, Plain
<1>10. /\ Cardinality(Broken) \in Nat /\ IsFiniteSet(Carried) /\ Cardinality(Carried) \in Nat
       /\ IsFiniteSet(orphans) /\ Cardinality(orphans) \in Nat /\ Cardinality(overlapped) \in Nat
       /\ IsFiniteSet(cancelled) /\ Cardinality(cancelled) \in Nat /\ DueOne \in 0..1
       /\ tears \in Nat
  BY <1>1, <1>7, Counts
<1>11. Cardinality(cancelled') = Cardinality(cancelled) + 1
  <2>1. event[w].id \notin cancelled
    BY <1>4 DEF CountInv
  <2> QED
    BY <2>1, <1>2, <1>10, OneMore
<1>12. \A x \in Busy' : event'[x].id \notin cancelled'
  BY <1>1, <1>2, <1>4 DEF CountInv, TaskIds, Busy
<1>13. Cardinality(Carried') \in Nat /\ Cardinality(Carried') <= Cardinality(Carried)
  <2>1. Carried' \subseteq Carried
    BY <1>7, <1>9 DEF Carried
  <2>2. IsFiniteSet(Carried') /\ Cardinality(Carried') <= Cardinality(Carried)
    BY <2>1, <1>10, FS_Subset
  <2> QED
    BY <2>2, FS_CardinalityType
<1>14. DueOne' \in 0..1
  BY DEF DueOne
<1>15. CASE O = {}
  <2>1. orphans' = orphans
    BY <1>2, <1>5, <1>15
  <2> QED
    BY <2>1, <1>3, <1>8, <1>9, <1>10, <1>11, <1>12, <1>13, <1>14 DEF CountInv
<1>16. CASE O # {}
  <2>1. O = {event[w]} /\ pc[w] = "writing" /\ Pending' = Pending
    BY <1>2, <1>5, <1>6, <1>16
  <2>2. PICK e : e = event[w]
    OBVIOUS
  <2>3. orphans' = orphans \union {e} /\ e \notin orphans
    BY <2>1, <2>2, <1>1, <1>2, <1>4, <1>5 DEF OrphanIds
  <2>4. Cardinality(orphans') = Cardinality(orphans) + 1
    BY <2>3, <1>10, OneMore
  <2>5. PICK a : a = WorkerOf[w]
    OBVIOUS
  <2>6. /\ \A x \in Writers : WorkerOf[x] = a => pc[x] # "written"
        /\ \A x \in Writers : WorkerOf[x] = a => pc'[x] # "written"
    BY <2>1, <2>5, <1>1, <1>2, LeaverWrites
  <2>7. DueOf(a)' <=> DueOf(a)
    <3>1. Mismatch(a)' <=> Mismatch(a)
      BY <2>6, <1>3, <1>9 DEF Mismatch
    <3> QED
      BY <3>1, <2>1, <1>9, DueOfSame
  <2>8. \A b \in Workers : DueOf(b)' <=> DueOf(b)
    <3>1. ASSUME NEW b \in Workers, b # a PROVE DueOf(b)' <=> DueOf(b)
      BY <3>1, <2>5, <1>1, <1>2, <1>3, <1>7, <1>9, OthersSame
    <3> QED
      BY <3>1, <2>7
  <2>9. DueOne' = DueOne
    BY <2>8, <1>1, <1>3, DueSame
  <2> QED
    BY <2>4, <2>9, <1>3, <1>8, <1>9, <1>10, <1>11, <1>12, <1>13 DEF CountInv
<1> QED
  BY <1>15, <1>16

LEMMA RestartCount ==
    ASSUME ChainInv, PlainInv, CountInv, NEW a \in Workers, Restart(a) PROVE CountInv'
<1>1. TypeOK /\ LockInv /\ TaskIds /\ OrphanIds
  BY DEF ChainInv, IdInv
<1>2. /\ Pending' = { e \in Pending : e.by # a }
      /\ Busy' = { w \in Busy : WorkerOf[w] # a }
      /\ chainHash'[a] = LoadLastHash
      /\ \A b \in Workers \ {a} : chainHash'[b] = chainHash[b]
      /\ \A x \in Writers : IF WorkerOf[x] = a THEN pc'[x] = "idle" /\ event'[x] = NoEvent
                            ELSE pc'[x] = pc[x] /\ event'[x] = event[x]
  BY <1>1, RestartClears
<1>3. /\ file' = file /\ torn' = torn /\ spoilt' = spoilt /\ tears' = tears
      /\ orphans' \subseteq orphans /\ overlapped' = overlapped /\ cancelled' = cancelled
  BY DEF Restart, fileVars
<1>4. Broken' = Broken /\ TailHash' = TailHash /\ \A f : Plain(f)' <=> Plain(f)
  BY <1>3 DEF Broken, Before, TailHash, Plain
<1>5. IsFiniteSet(Pending) /\ IsFiniteSet(Pending') /\ Pending' \subseteq Pending
  <2>1. IsFiniteSet(Pending) /\ Pending' \subseteq Pending
    BY <1>2 DEF CountInv
  <2> QED
    BY <2>1, FS_Subset
<1>6. /\ Cardinality(Broken) \in Nat /\ IsFiniteSet(Carried) /\ Cardinality(Carried) \in Nat
      /\ IsFiniteSet(orphans) /\ Cardinality(orphans) \in Nat
      /\ Cardinality(overlapped) \in Nat
      /\ Cardinality(cancelled) \in Nat /\ DueOne \in 0..1 /\ tears \in Nat
  BY <1>1, <1>5, Counts
<1>7. /\ Cardinality(Carried') \in Nat /\ Cardinality(Carried') <= Cardinality(Carried)
      /\ Cardinality(orphans') \in Nat /\ Cardinality(orphans') <= Cardinality(orphans)
  <2>1. Carried' \subseteq Carried
    BY <1>4, <1>5 DEF Carried
  <2>2. /\ IsFiniteSet(Carried') /\ Cardinality(Carried') <= Cardinality(Carried)
        /\ IsFiniteSet(orphans') /\ Cardinality(orphans') <= Cardinality(orphans)
    BY <2>1, <1>3, <1>6, FS_Subset
  <2> QED
    BY <2>2, FS_CardinalityType
<1>8. \A x \in Busy' : event'[x].id \notin cancelled'
  BY <1>2, <1>3 DEF CountInv, Busy
<1>9. ASSUME NEW b \in Workers, b # a PROVE DueOf(b)' <=> DueOf(b)
  <2>1. Mismatch(b)' <=> Mismatch(b)
    BY <1>2, <1>4, <1>9, MismatchSame
  <2>2. \A e : (e \in Pending' /\ e.by = b /\ Plain(e)')
               <=> (e \in Pending /\ e.by = b /\ Plain(e))
    BY <1>2, <1>4, <1>9
  <2> QED
    BY <2>1, <2>2, <1>4, DueOfSame
<1>10. DueOne' <= DueOne /\ DueOne' \in 0..1
  <2>1. ASSUME Due' PROVE Due
    <3>1. CASE torn \/ (file # <<>> /\ TailHash \in spoilt)
      BY <3>1 DEF Due
    <3>2. CASE ~ torn /\ TailHash \notin spoilt
      <4>1. PICK b : b = file[Len(file)].by
        OBVIOUS
      <4>2. file # <<>> /\ DueOf(b)'
        BY <2>1, <3>2, <4>1, <1>3, <1>4 DEF Due
      <4>3. b \in Workers /\ TailHash = file[Len(file)].id
        BY <4>1, <4>2, <1>1, Facts DEF TailHash
      <4>4. b # a
        <5>1. SUFFICES ASSUME b = a PROVE FALSE
          OBVIOUS
        <5>2. ~ \E e \in Pending' : e.by = a
          BY <1>2
        <5>3. Mismatch(a)'
          BY <4>2, <5>1, <5>2 DEF DueOf
        <5>4. \A x \in Writers : WorkerOf[x] = a => pc'[x] # "written"
          BY <1>2
        <5>5. chainHash'[a] # TailHash
          BY <5>3, <5>4, <1>4 DEF Mismatch
        <5>6. LoadLastHash = TailHash
          BY <3>2, <4>2, <4>3 DEF LoadLastHash, HashAfter
        <5> QED
          BY <5>5, <5>6, <1>2
      <4>5. DueOf(b)
        BY <4>2, <4>3, <4>4, <1>9
      <4> QED
        BY <4>1, <4>2, <4>5 DEF Due
    <3> QED
      BY <2>1, <3>1, <3>2, <1>3, <1>4 DEF Due
  <2> QED
    BY <2>1 DEF DueOne
<1> QED
  BY <1>3, <1>4, <1>5, <1>6, <1>7, <1>8, <1>10 DEF CountInv

LEMMA InitIInv == Init => IInv
<1> SUFFICES ASSUME Init PROVE IInv
  OBVIOUS
<1>1. ChainInv
  BY InitChain
<1>2. Len(file) = 0 /\ file = <<>> /\ ~ torn /\ tears = 0 /\ Pending = {} /\ Busy = {}
  BY DEF Init, Pending, Busy
<1>3. Broken = {} /\ Carried = {}
  BY <1>2 DEF Broken, Carried
<1>4. PlainInv
  BY <1>2 DEF Init, PlainInv
<1>5. DueOne = 0
  BY <1>2 DEF Due, DueOne
<1>6. CountInv
  BY <1>2, <1>3, <1>5, FS_EmptySet DEF Init, CountInv
<1> QED
  BY <1>1, <1>4, <1>6 DEF IInv

LEMMA NextIInv == IInv /\ [Next]_vars => IInv'
<1> SUFFICES ASSUME IInv, [Next]_vars PROVE IInv'
  OBVIOUS
<1>1. ChainInv /\ PlainInv /\ CountInv
  BY DEF IInv
<1>2. ChainInv' /\ PlainInv'
  BY <1>1, ChainStep, PlainStep
<1>3. CountInv'
  <2>1. CASE UNCHANGED vars
    <3>1. /\ Pending' = Pending /\ Busy' = Busy /\ Broken' = Broken /\ Carried' = Carried
          /\ event' = event /\ cancelled' = cancelled /\ orphans' = orphans
          /\ overlapped' = overlapped /\ tears' = tears
      BY <2>1 DEF vars, fileVars, Busy, Pending, Broken, Before, Carried, Plain
    <3>2. DueOne' = DueOne
      BY <2>1 DEF vars, fileVars, DueOne, Due, DueOf, Mismatch, TailHash, Pending, Plain
    <3> QED
      BY <3>1, <3>2, <1>1 DEF CountInv
  <2> QED
    BY <2>1, <1>1, SignCount, WriteCount, FailCount, FinishCount, CancelCount, OrphanCount,
       RestartCount DEF Next
<1> QED
  BY <1>2, <1>3 DEF IInv

\* The lines that do not parse are no more than the events of spoilt.
LEMMA SpoiltLines ==
    ASSUME TypeOK, StoredOnce
    PROVE  LET S == { i \in 1..Len(file) : file[i].id \in spoilt }
           IN  IsFiniteSet(S) /\ Cardinality(S) \in Nat /\ Cardinality(S) <= Cardinality(spoilt)
<1> DEFINE S == { i \in 1..Len(file) : file[i].id \in spoilt }
           f == [i \in S |-> file[i].id]
<1>1. IsFiniteSet(spoilt)
  BY SpoiltFacts
<1>2. f \in [S -> spoilt] /\ \A i, j \in S : f[i] = f[j] => i = j
  BY DEF StoredOnce
<1>3. f \in Injection(S, spoilt)
  BY <1>2 DEF Injection, IsInjective
<1> HIDE DEF S, f
<1>4. IsFiniteSet(S) /\ Cardinality(S) <= Cardinality(spoilt)
  BY <1>1, <1>3, FS_Injection
<1>5. Cardinality(S) \in Nat
  BY <1>4, FS_CardinalityType
<1> QED
  BY <1>4, <1>5 DEF S

LEMMA UnionBound ==
    ASSUME NEW S, NEW T, IsFiniteSet(S), IsFiniteSet(T)
    PROVE  /\ IsFiniteSet(S \union T)
           /\ Cardinality(S \union T) <= Cardinality(S) + Cardinality(T)
<1>1. IsFiniteSet(S \cap T)
  BY FS_Subset
<1>2. Cardinality(S) \in Nat /\ Cardinality(T) \in Nat /\ Cardinality(S \cap T) \in Nat
  BY <1>1, FS_CardinalityType
<1>3. Cardinality(S \union T) = Cardinality(S) + Cardinality(T) - Cardinality(S \cap T)
  BY FS_Union
<1> QED
  BY <1>2, <1>3, FS_Union

\* Every rejected line is one that does not parse, has another author than the
\* line before, or is broken.
LEMMA RejectedLines ==
    ASSUME TypeOK, LinksAreStored
    PROVE  Rejected \subseteq ({ i \in 1..Len(file) : file[i].id \in spoilt } \union Switches)
              \union (Broken \union (IF torn THEN {Len(file) + 1} ELSE {}))
<1> SUFFICES ASSUME NEW i \in 1..Len(file), file[i].id \notin spoilt,
                    file[i].prev # HashAfter(SubSeq(file, 1, i - 1))
             PROVE  i \in Switches \union Broken
  BY DEF Rejected
<1>1. file \in Seq(Events) /\ Len(file) \in Nat
  BY Facts
<1>2. CASE i = 1
  <2>1. SubSeq(file, 1, i - 1) = <<>>
    BY <1>1, <1>2
  <2>2. HashAfter(SubSeq(file, 1, i - 1)) = 0
    BY <2>1 DEF HashAfter
  <2>3. file[i].prev = 0
    BY <1>2 DEF LinksAreStored
  <2> QED
    BY <2>2, <2>3
<1>3. CASE i # 1
  <2>1. i \in 2..Len(file) /\ i - 1 \in 1..Len(file)
    BY <1>1, <1>3
  <2>2. PICK g : g = SubSeq(file, 1, i - 1)
    OBVIOUS
  <2>3. Len(g) = i - 1 /\ g # <<>> /\ g[i - 1] = file[i - 1]
    BY <2>1, <2>2, <1>1
  <2>4. HashAfter(g) = Before(i)
    BY <2>3 DEF HashAfter, Before
  <2> QED
    BY <2>1, <2>2, <2>4 DEF Switches, Broken
<1> QED
  BY <1>2, <1>3

\* verify_chain rejects no more lines than the changes of author, the events
\* signed during another append of their worker and the cancelled ones explain,
\* and two for each torn write, however many workers, tasks and restarts there
\* were.
THEOREM DamageBound == Spec => []DamageBounded
<1>1. IInv => DamageBounded
  <2> SUFFICES ASSUME IInv PROVE DamageBounded
    OBVIOUS
  <2>1. TypeOK /\ StoredOnce /\ LinksAreStored
    BY DEF IInv, ChainInv, IdInv, StoredIds, LinkInv
  <2>2. /\ IsFiniteSet(Broken) /\ Cardinality(Broken) \in Nat
        /\ Cardinality(Carried) \in Nat
        /\ Cardinality(orphans) \in Nat /\ Cardinality(overlapped) \in Nat
        /\ Cardinality(cancelled) \in Nat /\ DueOne \in 0..1 /\ tears \in Nat
    BY <2>1, Counts DEF IInv, CountInv
  <2>3. PICK S : S = { i \in 1..Len(file) : file[i].id \in spoilt }
    OBVIOUS
  <2>4. PICK T : T = IF torn THEN {Len(file) + 1} ELSE {}
    OBVIOUS
  <2>5. IsFiniteSet(S) /\ Cardinality(S) \in Nat /\ Cardinality(S) <= Cardinality(spoilt)
    BY <2>1, <2>3, SpoiltLines
  <2>6. IsFiniteSet(T) /\ Cardinality(T) = IF torn THEN 1 ELSE 0
    BY <2>4, FS_Singleton, FS_EmptySet
  <2>7. IsFiniteSet(Switches) /\ Cardinality(Switches) \in Nat
    <3>1. IsFiniteSet(2..Len(file))
      BY <2>1, Facts, FS_Interval
    <3>2. IsFiniteSet(Switches)
      BY <3>1, FS_Subset DEF Switches
    <3> QED
      BY <3>2, FS_CardinalityType
  <2>8. /\ IsFiniteSet(S \union Switches)
        /\ Cardinality(S \union Switches) <= Cardinality(S) + Cardinality(Switches)
    BY <2>5, <2>7, UnionBound
  <2>9. /\ IsFiniteSet(Broken \union T)
        /\ Cardinality(Broken \union T) <= Cardinality(Broken) + Cardinality(T)
    BY <2>2, <2>6, UnionBound
  <2>10. PICK U : U = (S \union Switches) \union (Broken \union T)
    OBVIOUS
  <2>11. /\ IsFiniteSet(U)
         /\ Cardinality(U) <= Cardinality(S \union Switches) + Cardinality(Broken \union T)
    BY <2>8, <2>9, <2>10, UnionBound
  <2>12. Rejected \subseteq U
    BY <2>1, <2>3, <2>4, <2>10, RejectedLines
  <2>13. Cardinality(Rejected) <= Cardinality(U) /\ IsFiniteSet(Rejected)
    BY <2>11, <2>12, FS_Subset
  <2>14. /\ Cardinality(Rejected) \in Nat /\ Cardinality(U) \in Nat
         /\ Cardinality(S \union Switches) \in Nat /\ Cardinality(Broken \union T) \in Nat
         /\ Cardinality(spoilt) \in Nat
    BY <2>1, <2>8, <2>9, <2>11, <2>13, FS_CardinalityType, SpoiltFacts
  <2>15. Cardinality(spoilt) + Cardinality(T) <= tears
    BY <2>1, <2>6 DEF StoredOnce
  <2>16. Cardinality(Broken) <= Cardinality(overlapped) + Cardinality(cancelled) + tears
    BY <2>2 DEF IInv, CountInv
  <2> QED
    BY <2>2, <2>5, <2>6, <2>7, <2>8, <2>9, <2>11, <2>13, <2>14, <2>15, <2>16 DEF DamageBounded
<1> QED
  BY <1>1, InitIInv, NextIInv, PTL DEF Spec
=============================================================================
