-------------------------- MODULE AuditTrailProofs --------------------------
(***************************************************************************)
(* Proofs about AuditTrail, for any finite set of processes and any number *)
(* of lines, days, failed writes and crashes.                              *)
(***************************************************************************)
EXTENDS AuditTrail, FiniteSetTheorems, TLAPS

-----------------------------------------------------------------------------
(* The inductive invariant.                                                *)

\* No process remembers a torn line: append raised when it was written.
TornInv == TornTail(log) => \A p \in Processes : lastHash[p] < Len(log)

DayInv == \A i \in 1..Len(log) : log[i].day <= day

SoleWriter == \A i \in 1..Len(log) : log[i].by = log[1].by /\ log[i].kind = "ok"

\* A sole writer has chained what it wrote and knows the end of its chain.
SoleInv ==
    SoleWriter =>
        /\ \A i \in 1..Len(log) : log[i].prev = i - 1
        /\ log # <<>> => lastHash[log[1].by] \in {NotLoaded, Len(log)}

ChainInv == TypeOK /\ LinksBackwards /\ TornInv /\ DayInv /\ SoleInv

\* A torn line is a failed write whose victim is still to come.
OkLines == { i \in 1..Len(log) : log[i].kind = "ok" }
SpoiltInv == appended + (IF TornTail(log) THEN 1 ELSE 0) <= tears + Cardinality(OkLines)

\* The entries that begin a chain, and the processes whose next entry may.
Roots == { i \in 1..Len(log) : log[i].kind # "torn" /\ log[i].prev = 0 }
Unaware == { p \in Processes : lastHash[p] \in {NotLoaded, 0} }
Starters == { p \in Processes : lastHash[p] = 0 \/ (lastHash[p] = NotLoaded /\ log = <<>>) }

RootsInv ==
    /\ Cardinality(Roots) + Cardinality(Unaware) <= Cardinality(Processes) + crashes
    /\ tears = 0 =>
        /\ \A i \in 1..Len(log) : log[i].kind = "ok"
        /\ Cardinality(Roots) + Cardinality(Starters) <= Cardinality(Processes)

IInv == ChainInv /\ SpoiltInv /\ RootsInv

-----------------------------------------------------------------------------
(* What a write does to the file.                                          *)

\* An entry on a line of its own.
NewLine(l, e, m) ==
    /\ m \in Seq(Lines) /\ Len(m) = Len(l) + 1 /\ m # <<>>
    /\ \A i \in 1..Len(l) : m[i] = l[i]
    /\ m[Len(m)] = e

\* An entry that goes on where a torn line stopped.
SpoiltLine(l, e, m) ==
    /\ m \in Seq(Lines) /\ Len(m) = Len(l) /\ m # <<>>
    /\ \A i \in 1..(Len(l) - 1) : m[i] = l[i]
    /\ l[Len(l)].kind = "torn"
    /\ m[Len(m)] = [e EXCEPT !.kind = "spoilt"]

LEMMA WriteLineFacts ==
    ASSUME NEW l \in Seq(Lines), NEW e \in Lines
    PROVE  /\ ~ TornTail(l) => NewLine(l, e, WriteLine(l, e))
           /\ TornTail(l) /\ e.kind = "ok" => SpoiltLine(l, e, WriteLine(l, e))
           /\ TornTail(l) /\ e.kind = "torn" => WriteLine(l, e) = l
<1>1. ASSUME ~ TornTail(l) PROVE NewLine(l, e, WriteLine(l, e))
  <2>1. WriteLine(l, e) = Append(l, e)
    BY <1>1 DEF WriteLine
  <2> QED
    BY <2>1 DEF NewLine
<1>2. ASSUME TornTail(l) PROVE Len(l) \in Nat \ {0} /\ l[Len(l)].kind = "torn"
  BY <1>2 DEF TornTail
<1>3. ASSUME TornTail(l), e.kind = "ok" PROVE SpoiltLine(l, e, WriteLine(l, e))
  <2>1. WriteLine(l, e) = [l EXCEPT ![Len(l)] = [e EXCEPT !.kind = "spoilt"]]
    BY <1>3 DEF WriteLine
  <2>2. [e EXCEPT !.kind = "spoilt"] \in Lines
    BY DEF Lines
  <2> QED
    BY <1>2, <1>3, <2>1, <2>2 DEF SpoiltLine
<1>4. ASSUME TornTail(l), e.kind = "torn" PROVE WriteLine(l, e) = l
  BY <1>2, <1>4 DEF WriteLine
<1> QED
  BY <1>1, <1>3, <1>4

\* What a loaded process writes is a line.
LEMMA LineFacts ==
    ASSUME TypeOK, NEW p \in Processes, lastHash[p] # NotLoaded, NEW kind \in {"ok", "torn"}
    PROVE  /\ LineOf(p, kind) \in Lines /\ lastHash[p] \in 0..Len(log)
           /\ LineOf(p, kind).prev = lastHash[p] /\ LineOf(p, kind).day = day
           /\ LineOf(p, kind).by = p /\ LineOf(p, kind).kind = kind
<1>1. lastHash[p] \in 0..Len(log) /\ Len(log) \in Nat /\ day \in 0..MaxDay
  BY DEF TypeOK, NotLoaded
<1> QED
  BY <1>1 DEF LineOf, Lines

\* The three ways a write goes.
Writes(p, kind) ==
    /\ lastHash[p] # NotLoaded
    /\ \/ ~ TornTail(log) /\ NewLine(log, LineOf(p, kind), log')
       \/ kind = "ok" /\ TornTail(log) /\ SpoiltLine(log, LineOf(p, kind), log')
       \/ kind = "torn" /\ TornTail(log) /\ log' = log

LEMMA AppendEntryWrites ==
    ASSUME TypeOK, NEW p \in Processes, AppendEntry(p) PROVE Writes(p, "ok")
BY LineFacts, WriteLineFacts DEF AppendEntry, Writes, TypeOK

LEMMA TearWrites ==
    ASSUME TypeOK, NEW p \in Processes, Tear(p) PROVE Writes(p, "torn")
BY LineFacts, WriteLineFacts DEF Tear, Writes, TypeOK

\* What the types say, as the steps use it.
LEMMA Facts ==
    ASSUME TypeOK
    PROVE  /\ log \in Seq(Lines) /\ Len(log) \in Nat /\ DOMAIN log = 1..Len(log)
           /\ (log = <<>> <=> Len(log) = 0)
           /\ \A i \in 1..Len(log) : /\ log[i] \in Lines /\ log[i].prev \in Nat
                                     /\ log[i].day \in 0..MaxDay /\ log[i].by \in Processes
           /\ \A p \in Processes : lastHash[p] = NotLoaded \/ lastHash[p] \in 0..Len(log)
           /\ NotLoaded \notin Nat /\ NotLoaded = -1
           /\ MaxLines \in Nat /\ MaxDay \in Nat /\ MaxTears \in Nat /\ MaxCrashes \in Nat
           /\ day \in Nat /\ appended \in Nat /\ tears \in Nat /\ crashes \in Nat
<1>1. log \in Seq(Lines)
  BY DEF TypeOK
<1>2. Len(log) \in Nat /\ DOMAIN log = 1..Len(log) /\ (log = <<>> <=> Len(log) = 0)
      /\ \A i \in 1..Len(log) : log[i] \in Lines
  BY <1>1
<1>3. \A e \in Lines : e.prev \in Nat /\ e.day \in 0..MaxDay /\ e.by \in Processes
  BY DEF Lines
<1>4. MaxLines \in Nat /\ MaxDay \in Nat /\ MaxTears \in Nat /\ MaxCrashes \in Nat
  BY BoundsAssumption
<1>5. day \in Nat /\ appended \in Nat /\ tears \in Nat /\ crashes \in Nat
  BY <1>4 DEF TypeOK
<1>6. \A p \in Processes : lastHash[p] = NotLoaded \/ lastHash[p] \in 0..Len(log)
  BY DEF TypeOK
<1>7. NotLoaded \notin Nat /\ NotLoaded = -1
  BY DEF NotLoaded
<1> QED
  BY <1>1, <1>2, <1>3, <1>4, <1>5, <1>6, <1>7

-----------------------------------------------------------------------------
(* The chain.                                                              *)

\* Steps that leave the file alone; h is what the process knows afterwards.
LEMMA ChainSame ==
    ASSUME ChainInv, log' = log, day' \in 0..MaxDay, day' >= day,
           appended' \in Nat, tears' \in 0..MaxTears, crashes' \in 0..MaxCrashes,
           \/ lastHash' = lastHash
           \/ \E p \in Processes, h \in {NotLoaded, LoadLastHash(log)} :
                 lastHash' = [lastHash EXCEPT ![p] = h]
    PROVE  ChainInv'
<1>1. TypeOK
  BY DEF ChainInv
<1>2. LoadLastHash(log) \in 0..Len(log) /\ (TornTail(log) => LoadLastHash(log) = 0)
      /\ (SoleWriter => LoadLastHash(log) = Len(log)) /\ (TornTail(log) => Len(log) > 0)
  BY <1>1, Facts, SMTT(30) DEF LoadLastHash, TornTail, SoleWriter
<1>3. /\ lastHash' \in [Processes -> {NotLoaded} \union 0..Len(log)]
      /\ \A p \in Processes : lastHash'[p] \in {lastHash[p], NotLoaded, LoadLastHash(log)}
  BY <1>1, <1>2 DEF TypeOK
<1>4. TypeOK'
  BY <1>1, <1>3 DEF TypeOK
<1>5. TornInv'
  <2> SUFFICES ASSUME TornTail(log), NEW p \in Processes PROVE lastHash'[p] < Len(log)
    BY DEF TornInv
  <2>1. lastHash[p] < Len(log) /\ LoadLastHash(log) = 0 /\ Len(log) > 0 /\ NotLoaded < Len(log)
    BY <1>1, <1>2, Facts DEF ChainInv, TornInv
  <2> QED
    BY <1>3, <2>1
<1>6. DayInv' /\ LinksBackwards'
  <2>1. \A i \in 1..Len(log) : log[i].day <= day'
    BY <1>1, Facts, SMTT(30) DEF ChainInv, DayInv
  <2> QED
    BY <2>1 DEF ChainInv, DayInv, LinksBackwards
<1>7. SoleInv'
  <2> SUFFICES ASSUME SoleWriter' PROVE /\ \A i \in 1..Len(log) : log[i].prev = i - 1
                                        /\ log # <<>> => lastHash'[log[1].by] \in {NotLoaded, Len(log)}
    BY DEF SoleInv
  <2>1. SoleWriter
    BY DEF SoleWriter
  <2>2. log # <<>> => log[1].by \in Processes
    BY <1>1, Facts
  <2> QED
    BY <1>2, <1>3, <2>1, <2>2 DEF ChainInv, SoleInv
<1> QED
  BY <1>4, <1>5, <1>6, <1>7 DEF ChainInv

\* A write; an entry that was written whole is remembered.
LEMMA ChainWrite ==
    ASSUME ChainInv, NEW p \in Processes, NEW kind \in {"ok", "torn"}, Writes(p, kind),
           lastHash' = IF kind = "ok" THEN [lastHash EXCEPT ![p] = Len(log')] ELSE lastHash,
           day' = day, appended' \in Nat, tears' \in 0..MaxTears, crashes' \in 0..MaxCrashes
    PROVE  ChainInv'
<1> DEFINE e == LineOf(p, kind)
<1>1. TypeOK /\ lastHash[p] # NotLoaded
  BY DEF ChainInv, Writes
<1>2. /\ e \in Lines /\ lastHash[p] \in 0..Len(log) /\ e.prev = lastHash[p] /\ e.day = day
      /\ e.by = p /\ e.kind = kind
  BY <1>1, LineFacts
<1> HIDE DEF e
<1>3. CASE log' = log /\ kind = "torn"
  BY <1>1, <1>3, ChainSame, Facts DEF TypeOK
<1>4. CASE ~ TornTail(log) /\ NewLine(log, e, log')
  <2>1. /\ log' \in Seq(Lines) /\ Len(log') = Len(log) + 1 /\ log' # <<>>
        /\ \A i \in 1..Len(log) : log'[i] = log[i]
        /\ log'[Len(log) + 1] = e
    BY <1>4 DEF NewLine
  <2>2. \A i \in 1..Len(log') : i \in 1..Len(log) \/ i = Len(log) + 1
    BY <1>1, <2>1, Facts, SMTT(30)
  <2>3. TypeOK'
    <3>1. ASSUME NEW i \in 1..(Len(log') - 1) PROVE log'[i].kind # "torn"
      <4>1. i \in 1..Len(log) /\ log'[i] = log[i]
        BY <1>1, <2>1, Facts
      <4>2. CASE i = Len(log)
        BY <1>1, <1>4, <4>1, <4>2, Facts, SMTT(30) DEF TornTail
      <4>3. CASE i # Len(log)
        <5>1. Len(log) \in Nat
          BY <1>1, Facts
        <5>2. i \in 1..(Len(log) - 1)
          BY <4>1, <4>3, <5>1
        <5> QED
          BY <1>1, <4>1, <5>2 DEF TypeOK
      <4> QED
        BY <4>2, <4>3
    <3>2. lastHash' \in [Processes -> {NotLoaded} \union 0..Len(log')]
      BY <1>1, <2>1, Facts, SMTT(30) DEF TypeOK
    <3> QED
      BY <1>1, <2>1, <3>1, <3>2 DEF TypeOK
  <2>4. LinksBackwards'
    <3>1. ASSUME NEW i \in 1..Len(log') PROVE log'[i].prev < i
      <4>1. CASE i \in 1..Len(log)
        BY <2>1, <4>1 DEF ChainInv, LinksBackwards
      <4>2. CASE i = Len(log) + 1
        BY <1>1, <1>2, <2>1, <4>2, Facts, SMTT(30)
      <4> QED
        BY <2>2, <4>1, <4>2
    <3> QED
      BY <3>1 DEF LinksBackwards
  <2>5. TornInv'
    <3>1. CASE kind = "ok"
      BY <1>2, <2>1, <3>1, Facts, <1>1 DEF TornInv, TornTail
    <3>2. CASE kind = "torn"
      BY <1>1, <2>1, <3>2, Facts, SMTT(30) DEF TornInv, TornTail, NotLoaded
    <3> QED
      BY <3>1, <3>2
  <2>6. DayInv'
    <3>1. \A i \in 1..Len(log') : log'[i].day <= day'
      BY <1>1, <1>2, <2>1, <2>2, Facts, SMTT(30) DEF ChainInv, DayInv
    <3> QED
      BY <3>1 DEF DayInv
  <2>7. SoleInv'
    <3> SUFFICES ASSUME SoleWriter'
                 PROVE  /\ \A i \in 1..Len(log') : log'[i].prev = i - 1
                        /\ lastHash'[log'[1].by] \in {NotLoaded, Len(log')}
      BY DEF SoleInv
    <3>1. kind = "ok" /\ log'[1].by = p
      BY <1>1, <1>2, <2>1, Facts, SMTT(30) DEF SoleWriter
    <3>2. SoleWriter /\ (log # <<>> => log[1].by = p)
      <4>1. \A i \in 1..Len(log) : i \in 1..Len(log') /\ log'[i] = log[i]
        BY <1>1, <2>1, Facts
      <4>2. \A i \in 1..Len(log) : log[i].by = p /\ log[i].kind = "ok"
        BY <3>1, <4>1 DEF SoleWriter
      <4>3. log # <<>> => 1 \in 1..Len(log)
        BY <1>1, Facts
      <4>4. \A i \in 1..Len(log) : 1 \in 1..Len(log)
        BY <1>1, Facts
      <4> QED
        BY <4>2, <4>3, <4>4 DEF SoleWriter
    <3>3. \A i \in 1..Len(log) : log[i].prev = i - 1
      BY <3>2 DEF ChainInv, SoleInv
    <3>4. lastHash[p] = Len(log)
      <4>1. CASE log = <<>>
        BY <1>1, <1>2, <4>1, Facts
      <4>2. CASE log # <<>>
        BY <1>1, <3>2, <4>2 DEF ChainInv, SoleInv
      <4> QED
        BY <4>1, <4>2
    <3>5. lastHash'[p] = Len(log')
      BY <1>1, <3>1 DEF TypeOK
    <3>6. ASSUME NEW i \in 1..Len(log') PROVE log'[i].prev = i - 1
      <4>1. CASE i \in 1..Len(log)
        BY <2>1, <3>3, <4>1
      <4>2. CASE i = Len(log) + 1
        BY <1>1, <1>2, <2>1, <3>4, <4>2, Facts, SMTT(30)
      <4> QED
        BY <2>2, <4>1, <4>2
    <3> QED
      BY <3>1, <3>5, <3>6
  <2> QED
    BY <2>3, <2>4, <2>5, <2>6, <2>7 DEF ChainInv
<1>5. CASE kind = "ok" /\ TornTail(log) /\ SpoiltLine(log, e, log')
  <2>1. /\ log' \in Seq(Lines) /\ Len(log') = Len(log) /\ log' # <<>>
        /\ \A i \in 1..(Len(log) - 1) : log'[i] = log[i]
        /\ log'[Len(log)] = [e EXCEPT !.kind = "spoilt"]
    BY <1>5 DEF SpoiltLine
  <2>2. /\ log'[Len(log)].kind = "spoilt" /\ log'[Len(log)].prev = lastHash[p]
        /\ log'[Len(log)].day = day
    BY <1>2, <2>1 DEF Lines
  <2>3. /\ Len(log) \in Nat \ {0} /\ lastHash[p] < Len(log)
        /\ \A i \in 1..Len(log') : i \in 1..(Len(log) - 1) \/ i = Len(log)
    BY <1>1, <1>5, <2>1, Facts, SMTT(30) DEF TornTail, ChainInv, TornInv
  <2>4. TypeOK'
    <3>1. \A i \in 1..(Len(log') - 1) : log'[i].kind # "torn"
      BY <1>1, <2>1 DEF TypeOK
    <3>2. lastHash' \in [Processes -> {NotLoaded} \union 0..Len(log')]
      BY <1>1, <1>5, <2>1, Facts DEF TypeOK
    <3> QED
      BY <1>1, <2>1, <3>1, <3>2 DEF TypeOK
  <2>5. LinksBackwards'
    <3>1. \A i \in 1..Len(log') : log'[i].prev < i
      BY <1>1, <2>1, <2>2, <2>3, Facts DEF ChainInv, LinksBackwards
    <3> QED
      BY <3>1 DEF LinksBackwards
  <2>6. TornInv'
    BY <2>1, <2>2 DEF TornInv, TornTail
  <2>7. DayInv'
    <3>1. ASSUME NEW i \in 1..Len(log') PROVE log'[i].day <= day'
      <4>1. CASE i \in 1..(Len(log) - 1)
        BY <1>1, <2>1, <4>1, Facts DEF ChainInv, DayInv
      <4>2. CASE i = Len(log)
        BY <1>1, <2>2, <4>2, Facts, SMTT(30)
      <4> QED
        BY <2>3, <4>1, <4>2
    <3> QED
      BY <3>1 DEF DayInv
  <2>8. SoleInv'
    <3>1. Len(log) \in 1..Len(log') /\ log'[Len(log)].kind # "ok"
      BY <2>1, <2>2, <2>3
    <3>2. ~ SoleWriter'
      BY <3>1 DEF SoleWriter
    <3> QED
      BY <3>2 DEF SoleInv
  <2> QED
    BY <2>4, <2>5, <2>6, <2>7, <2>8 DEF ChainInv
<1> QED
  BY <1>3, <1>4, <1>5 DEF Writes, e

-----------------------------------------------------------------------------
(* The counts.                                                             *)

LEMMA Counts ==
    ASSUME TypeOK
    PROVE  /\ IsFiniteSet(OkLines) /\ IsFiniteSet(Roots)
           /\ IsFiniteSet(Unaware) /\ IsFiniteSet(Starters)
           /\ Cardinality(OkLines) \in Nat /\ Cardinality(Roots) \in Nat
           /\ Cardinality(Unaware) \in Nat /\ Cardinality(Starters) \in Nat
           /\ Cardinality(Processes) \in Nat
<1>1. IsFiniteSet(1..Len(log))
  <2>1. 1 \in Int /\ Len(log) \in Int
    BY Facts
  <2> QED
    BY <2>1, FS_Interval
<1>2. OkLines \in SUBSET (1..Len(log)) /\ Roots \in SUBSET (1..Len(log))
  BY DEF OkLines, Roots
<1>3. Unaware \in SUBSET Processes /\ Starters \in SUBSET Processes
  BY DEF Unaware, Starters
<1>4. /\ IsFiniteSet(OkLines) /\ IsFiniteSet(Roots)
      /\ IsFiniteSet(Unaware) /\ IsFiniteSet(Starters)
  BY <1>1, <1>2, <1>3, ProcessesAssumption, FS_Subset
<1> QED
  BY <1>4, ProcessesAssumption, FS_CardinalityType

\* Which lines a write adds to the whole ones and to the beginnings of chains.
LEMMA LinesWritten ==
    ASSUME TypeOK, NEW p \in Processes, NEW kind \in {"ok", "torn"}, Writes(p, kind)
    PROVE  /\ TornTail(log') <=> kind = "torn"
           /\ log' # <<>> /\ Len(log') \in Nat \ {0}
           /\ Len(log') \notin OkLines \/ kind = "torn"
           /\ Len(log') \notin Roots \/ kind = "torn"
           /\ OkLines' = IF kind = "ok" /\ ~ TornTail(log) THEN OkLines \union {Len(log')}
                         ELSE OkLines
           /\ Roots' = IF kind = "ok" /\ lastHash[p] = 0 THEN Roots \union {Len(log')}
                       ELSE Roots
<1> DEFINE e == LineOf(p, kind)
           n == Len(log')
<1>1. /\ e \in Lines /\ e.prev = lastHash[p] /\ e.kind = kind
  BY LineFacts DEF Writes
<1>2. /\ Len(log) \in Nat
      /\ OkLines = { i \in 1..Len(log) : log[i].kind = "ok" }
      /\ Roots = { i \in 1..Len(log) : log[i].kind # "torn" /\ log[i].prev = 0 }
      /\ OkLines' = { i \in 1..n : log'[i].kind = "ok" }
      /\ Roots' = { i \in 1..n : log'[i].kind # "torn" /\ log'[i].prev = 0 }
  BY Facts DEF OkLines, Roots
<1> HIDE DEF e
<1>3. CASE log' = log /\ kind = "torn" /\ TornTail(log)
  BY <1>2, <1>3 DEF TornTail
<1>4. CASE ~ TornTail(log) /\ NewLine(log, e, log')
  <2>1. /\ n = Len(log) + 1 /\ log' # <<>> /\ log'[n] = e
        /\ \A i \in 1..Len(log) : log'[i] = log[i]
    BY <1>4 DEF NewLine
  <2>2. n \in Nat \ {0} /\ n \notin 1..Len(log) /\ 1..n = (1..Len(log)) \union {n}
    BY <1>2, <2>1
  <2>3. TornTail(log') <=> kind = "torn"
    BY <1>1, <2>1 DEF TornTail
  <2> HIDE DEF n
  <2> QED
    BY <1>1, <1>2, <1>4, <2>1, <2>2, <2>3 DEF n
<1>5. CASE kind = "ok" /\ TornTail(log) /\ SpoiltLine(log, e, log')
  <2>1. /\ n = Len(log) /\ log' # <<>> /\ log'[n] = [e EXCEPT !.kind = "spoilt"]
        /\ \A i \in 1..(Len(log) - 1) : log'[i] = log[i]
        /\ log[n].kind = "torn"
    BY <1>5 DEF SpoiltLine
  <2>2. n \in Nat \ {0} /\ 1..n = (1..(n - 1)) \union {n} /\ n \notin 1..(n - 1)
    BY <1>2, <1>5, <2>1 DEF TornTail
  <2>3. log'[n].kind = "spoilt" /\ log'[n].prev = lastHash[p]
    BY <1>1, <2>1 DEF Lines
  <2>4. ~ TornTail(log')
    BY <2>3 DEF TornTail
  <2> HIDE DEF n
  <2>5. OkLines' = OkLines
    BY <1>2, <2>1, <2>2, <2>3
  <2>6. Roots' = IF lastHash[p] = 0 THEN Roots \union {n} ELSE Roots
    BY <1>2, <2>1, <2>2, <2>3
  <2>7. n \notin OkLines /\ n \notin Roots
    BY <1>2, <2>1
  <2> QED
    BY <1>5, <2>1, <2>2, <2>4, <2>5, <2>6, <2>7 DEF n
<1> QED
  BY <1>3, <1>4, <1>5 DEF Writes, e

\* Counting an element more, and an element less.
LEMMA OneMore ==
    ASSUME NEW S, IsFiniteSet(S), Cardinality(S) \in Nat, NEW x, x \notin S
    PROVE  Cardinality(S \union {x}) = Cardinality(S) + 1
BY FS_AddElement

LEMMA OneLess ==
    ASSUME NEW S, IsFiniteSet(S), Cardinality(S) \in Nat, NEW x
    PROVE  /\ IsFiniteSet(S \ {x}) /\ Cardinality(S \ {x}) \in Nat
           /\ Cardinality(S \ {x}) <= Cardinality(S) - (IF x \in S THEN 1 ELSE 0)
<1>1. /\ IsFiniteSet(S \ {x})
      /\ Cardinality(S \ {x}) = IF x \in S THEN Cardinality(S) - 1 ELSE Cardinality(S)
  BY FS_RemoveElement
<1>2. Cardinality(S \ {x}) \in Nat
  BY <1>1, FS_CardinalityType
<1> QED
  BY <1>1, <1>2

\* A root is begun by a process that does not know the end of the chain.
LEMMA AppendCounts ==
    ASSUME IInv, NEW p \in Processes, AppendEntry(p)
    PROVE  SpoiltInv' /\ RootsInv'
<1>1. TypeOK /\ Writes(p, "ok") /\ lastHash[p] # NotLoaded
  BY AppendEntryWrites DEF IInv, ChainInv, AppendEntry
<1>2. /\ lastHash' = [lastHash EXCEPT ![p] = Len(log')]
      /\ appended' = appended + 1 /\ tears' = tears /\ crashes' = crashes
  BY DEF AppendEntry
<1>3. /\ ~ TornTail(log') /\ log' # <<>> /\ Len(log') \in Nat \ {0}
      /\ Len(log') \notin OkLines /\ Len(log') \notin Roots
      /\ OkLines' = IF ~ TornTail(log) THEN OkLines \union {Len(log')} ELSE OkLines
      /\ Roots' = IF lastHash[p] = 0 THEN Roots \union {Len(log')} ELSE Roots
  BY <1>1, LinesWritten
<1>4. /\ IsFiniteSet(OkLines) /\ IsFiniteSet(Roots)
      /\ IsFiniteSet(Unaware) /\ IsFiniteSet(Starters)
      /\ Cardinality(OkLines) \in Nat /\ Cardinality(Roots) \in Nat
      /\ Cardinality(Unaware) \in Nat /\ Cardinality(Starters) \in Nat
      /\ Cardinality(Processes) \in Nat
      /\ appended \in Nat /\ tears \in Nat /\ crashes \in Nat
  BY <1>1, Counts, Facts
<1>5. Cardinality(OkLines') = Cardinality(OkLines) + (IF TornTail(log) THEN 0 ELSE 1)
  BY <1>3, <1>4, OneMore
<1>6. Cardinality(Roots') = Cardinality(Roots) + (IF lastHash[p] = 0 THEN 1 ELSE 0)
  BY <1>3, <1>4, OneMore
<1>7. SpoiltInv'
  BY <1>2, <1>3, <1>4, <1>5 DEF IInv, SpoiltInv
<1>8. /\ \A q \in Processes : q # p => lastHash'[q] = lastHash[q]
      /\ lastHash'[p] \notin {NotLoaded, 0}
  BY <1>1, <1>2, <1>3 DEF TypeOK, NotLoaded
<1>9. Unaware' = Unaware \ {p} /\ Starters' \in SUBSET (Starters \ {p})
  BY <1>3, <1>8 DEF Unaware, Starters
<1>10. lastHash[p] = 0 => p \in Unaware /\ p \in Starters
  BY DEF Unaware, Starters
<1>11. Cardinality(Unaware') <= Cardinality(Unaware) - (IF lastHash[p] = 0 THEN 1 ELSE 0)
  <2>1. /\ Unaware' = Unaware \ {p} /\ Cardinality(Unaware \ {p}) \in Nat
        /\ Cardinality(Unaware \ {p}) <= Cardinality(Unaware) - (IF p \in Unaware THEN 1 ELSE 0)
    BY <1>4, <1>9, OneLess
  <2> QED
    BY <1>4, <1>10, <2>1
<1>12. Cardinality(Starters') \in Nat
       /\ Cardinality(Starters') <= Cardinality(Starters) - (IF lastHash[p] = 0 THEN 1 ELSE 0)
  <2>1. /\ IsFiniteSet(Starters \ {p})
        /\ Cardinality(Starters \ {p}) = IF p \in Starters THEN Cardinality(Starters) - 1
                                         ELSE Cardinality(Starters)
    BY <1>4, FS_RemoveElement
  <2>2. IsFiniteSet(Starters') /\ Cardinality(Starters') <= Cardinality(Starters \ {p})
    BY <1>9, <2>1, FS_Subset
  <2>3. Cardinality(Starters') \in Nat
    BY <2>2, FS_CardinalityType
  <2> QED
    BY <1>4, <1>10, <2>1, <2>2, <2>3
<1>13. Cardinality(Unaware') \in Nat
  BY <1>4, <1>9, OneLess
<1>14. ASSUME tears = 0 PROVE \A i \in 1..Len(log') : log'[i].kind = "ok"
  <2>1. \A i \in 1..Len(log) : log[i].kind = "ok"
    BY <1>14 DEF IInv, RootsInv
  <2>2. OkLines = 1..Len(log)
    BY <2>1 DEF OkLines
  <2>3. ~ TornTail(log)
    BY <1>1, <2>1, Facts DEF TornTail
  <2>4. Len(log') = Len(log) + 1 /\ Len(log) \in Nat
    BY <1>1, <2>3, Facts DEF Writes, NewLine
  <2>5. OkLines' = 1..Len(log')
    BY <1>3, <2>2, <2>3, <2>4
  <2> QED
    BY <2>5 DEF OkLines
<1>15. RootsInv'
  BY <1>2, <1>4, <1>6, <1>11, <1>12, <1>13, <1>14, SMTT(30) DEF IInv, RootsInv
<1> QED
  BY <1>7, <1>15

LEMMA TearCounts ==
    ASSUME IInv, NEW p \in Processes, Tear(p)
    PROVE  SpoiltInv' /\ RootsInv'
<1>1. TypeOK /\ Writes(p, "torn")
  BY TearWrites DEF IInv, ChainInv
<1>2. /\ lastHash' = lastHash /\ appended' = appended /\ tears' = tears + 1
      /\ crashes' = crashes
  BY DEF Tear
<1>3. OkLines' = OkLines /\ Roots' = Roots /\ Unaware' = Unaware
  BY <1>1, <1>2, LinesWritten DEF Unaware
<1>4. Cardinality(OkLines) \in Nat /\ appended \in Nat /\ tears \in Nat
  BY <1>1, Counts, Facts
<1> QED
  BY <1>2, <1>3, <1>4 DEF IInv, SpoiltInv, RootsInv

\* Steps that leave the file alone and add at most one process to the unaware.
LEMMA SameCounts ==
    ASSUME IInv, log' = log, appended' = appended, tears' = tears, crashes' \in Nat,
           NEW p, Unaware' \subseteq Unaware \union {p}, crashes' >= crashes,
           p \in Unaware \/ crashes' > crashes,
           tears = 0 => Starters' \subseteq Starters
    PROVE  SpoiltInv' /\ RootsInv'
<1>1. OkLines' = OkLines /\ Roots' = Roots
  BY DEF OkLines, Roots
<1>2. TypeOK
  BY DEF IInv, ChainInv
<1>3. /\ IsFiniteSet(Unaware) /\ IsFiniteSet(Starters) /\ Cardinality(Roots) \in Nat
      /\ Cardinality(Unaware) \in Nat /\ Cardinality(Starters) \in Nat
      /\ Cardinality(Processes) \in Nat /\ crashes \in Nat
  BY <1>2, Counts, Facts
<1>4. SpoiltInv'
  BY <1>1 DEF IInv, SpoiltInv
<1>5. Cardinality(Unaware') \in Nat
      /\ Cardinality(Unaware') <= Cardinality(Unaware) + (IF p \in Unaware THEN 0 ELSE 1)
  <2>1. /\ IsFiniteSet(Unaware \union {p})
        /\ Cardinality(Unaware \union {p}) = IF p \in Unaware THEN Cardinality(Unaware)
                                             ELSE Cardinality(Unaware) + 1
    BY <1>3, FS_AddElement
  <2>2. IsFiniteSet(Unaware') /\ Cardinality(Unaware') <= Cardinality(Unaware \union {p})
    BY <2>1, FS_Subset
  <2>3. Cardinality(Unaware') \in Nat
    BY <2>2, FS_CardinalityType
  <2> QED
    BY <1>3, <2>1, <2>2, <2>3
<1>6. tears = 0 => /\ Cardinality(Starters') \in Nat
                   /\ Cardinality(Starters') <= Cardinality(Starters)
  BY <1>3, FS_Subset, FS_CardinalityType
<1>7. /\ Cardinality(Roots) + Cardinality(Unaware) <= Cardinality(Processes) + crashes
      /\ tears = 0 =>
            /\ \A i \in 1..Len(log) : log[i].kind = "ok"
            /\ Cardinality(Roots) + Cardinality(Starters) <= Cardinality(Processes)
  BY DEF IInv, RootsInv
<1>8. Cardinality(Roots') + Cardinality(Unaware') <= Cardinality(Processes) + crashes'
  BY <1>1, <1>3, <1>5, <1>7
<1>9. RootsInv'
  BY <1>1, <1>3, <1>6, <1>7, <1>8 DEF RootsInv
<1> QED
  BY <1>4, <1>9

-----------------------------------------------------------------------------
(* The steps.                                                              *)

LEMMA InitInv == Init => IInv
<1> SUFFICES ASSUME Init PROVE IInv
  OBVIOUS
<1>1. /\ log = <<>> /\ Len(log) = 0 /\ 1..Len(log) = {} /\ log \in Seq(Lines)
      /\ lastHash = [p \in Processes |-> NotLoaded] /\ day = 0 /\ appended = 0
      /\ tears = 0 /\ crashes = 0
  BY DEF Init
<1>2. TypeOK
  <2>1. \A i \in 1..(Len(log) - 1) : log[i].kind # "torn"
    BY <1>1
  <2> QED
    BY <1>1, <2>1, BoundsAssumption DEF TypeOK
<1>3. LinksBackwards /\ TornInv /\ DayInv /\ SoleInv
  BY <1>1 DEF LinksBackwards, TornInv, DayInv, SoleInv, TornTail
<1>4. OkLines = {} /\ Roots = {} /\ Unaware = Processes /\ Starters = Processes
  BY <1>1 DEF OkLines, Roots, Unaware, Starters
<1>5. Cardinality({}) = 0 /\ Cardinality(Processes) \in Nat
  BY ProcessesAssumption, FS_EmptySet, FS_CardinalityType
<1>6. SpoiltInv /\ RootsInv
  BY <1>1, <1>4, <1>5 DEF SpoiltInv, RootsInv, TornTail
<1> QED
  BY <1>2, <1>3, <1>6 DEF IInv, ChainInv

LEMMA NextInv == IInv /\ [Next]_vars => IInv'
<1> SUFFICES ASSUME IInv, [Next]_vars PROVE IInv'
  OBVIOUS
<1>0. TypeOK /\ ChainInv /\ crashes \in Nat /\ day \in Nat
  BY Facts DEF IInv, ChainInv
<1>1. ASSUME NEW p \in Processes, Load(p) PROVE IInv'
  <2>1. /\ lastHash[p] = NotLoaded /\ lastHash' = [lastHash EXCEPT ![p] = LoadLastHash(log)]
        /\ UNCHANGED <<log, day, appended, tears, crashes>>
    BY <1>1 DEF Load
  <2>2. ChainInv'
    <3>1. /\ day' \in 0..MaxDay /\ day' >= day /\ appended' \in Nat
          /\ tears' \in 0..MaxTears /\ crashes' \in 0..MaxCrashes
      BY <1>0, <2>1 DEF TypeOK
    <3> QED
      BY <1>0, <2>1, <3>1, ChainSame
  <2>3. p \in Unaware /\ Unaware' \subseteq Unaware \union {p}
    BY <1>0, <2>1 DEF Unaware, TypeOK
  <2>4. ASSUME tears = 0 PROVE Starters' \subseteq Starters
    <3>1. LoadLastHash(log) = 0 => log = <<>>
      BY <1>0, <2>4, Facts DEF LoadLastHash, IInv, RootsInv
    <3>2. LoadLastHash(log) # NotLoaded
      BY <1>0, Facts DEF LoadLastHash
    <3>3. /\ \A q \in Processes : q # p => lastHash'[q] = lastHash[q]
          /\ lastHash'[p] = LoadLastHash(log)
      BY <1>0, <2>1 DEF TypeOK
    <3> QED
      BY <2>1, <3>1, <3>2, <3>3 DEF Starters
  <2> QED
    BY <1>0, <2>1, <2>2, <2>3, <2>4, SameCounts DEF IInv
<1>2. ASSUME NEW p \in Processes, AppendEntry(p) PROVE IInv'
  <2>1. ChainInv'
    <3>1. /\ day' = day /\ appended' \in Nat
          /\ tears' \in 0..MaxTears /\ crashes' \in 0..MaxCrashes
          /\ lastHash' = [lastHash EXCEPT ![p] = Len(log')]
      BY <1>0, <1>2 DEF AppendEntry, TypeOK
    <3> QED
      BY <1>0, <1>2, <3>1, AppendEntryWrites, ChainWrite
  <2> QED
    BY <1>2, <2>1, AppendCounts DEF IInv
<1>3. ASSUME NEW p \in Processes, Tear(p) PROVE IInv'
  <2>1. tears' \in 0..MaxTears
    BY <1>0, <1>3, Facts DEF Tear, TypeOK
  <2>2. ChainInv'
    <3>1. /\ day' = day /\ appended' \in Nat /\ crashes' \in 0..MaxCrashes
          /\ lastHash' = lastHash
      BY <1>0, <1>3 DEF Tear, TypeOK
    <3> QED
      BY <1>0, <1>3, <2>1, <3>1, TearWrites, ChainWrite
  <2> QED
    BY <1>3, <2>2, TearCounts DEF IInv
<1>4. ASSUME NEW p \in Processes, Crash(p) PROVE IInv'
  <2>1. /\ lastHash[p] # NotLoaded /\ lastHash' = [lastHash EXCEPT ![p] = NotLoaded]
        /\ crashes < MaxCrashes /\ crashes' = crashes + 1
        /\ UNCHANGED <<log, day, appended, tears>>
    BY <1>4 DEF Crash
  <2>2. crashes' \in 0..MaxCrashes /\ crashes' \in Nat /\ crashes' > crashes
    BY <1>0, <2>1, Facts
  <2>3. ChainInv'
    <3>1. /\ day' \in 0..MaxDay /\ day' >= day /\ appended' \in Nat
          /\ tears' \in 0..MaxTears
      BY <1>0, <2>1 DEF TypeOK
    <3> QED
      BY <1>0, <2>1, <2>2, <3>1, ChainSame
  <2>4. Unaware' \subseteq Unaware \union {p}
    BY <1>0, <2>1 DEF Unaware, TypeOK
  <2>5. Starters' \subseteq Starters
    <3>1. log = <<>> => lastHash[p] = 0
      BY <1>0, <2>1, Facts
    <3>2. /\ \A q \in Processes : q # p => lastHash'[q] = lastHash[q]
          /\ lastHash'[p] = NotLoaded /\ NotLoaded # 0
      BY <1>0, <2>1 DEF TypeOK, NotLoaded
    <3> QED
      BY <2>1, <3>1, <3>2 DEF Starters
  <2> QED
    BY <1>0, <2>1, <2>2, <2>3, <2>4, <2>5, SameCounts DEF IInv
<1>5. ASSUME log' = log, lastHash' = lastHash, appended' = appended, tears' = tears,
             crashes' = crashes, day' \in 0..MaxDay, day' >= day
      PROVE  IInv'
  <2>1. ChainInv'
    BY <1>0, <1>5, ChainSame DEF TypeOK
  <2>2. /\ OkLines' = OkLines /\ Roots' = Roots /\ Unaware' = Unaware
        /\ Starters' = Starters /\ TornTail(log') = TornTail(log)
    BY <1>5 DEF OkLines, Roots, Unaware, Starters
  <2>3. SpoiltInv' /\ RootsInv'
    BY <1>5, <2>2 DEF IInv, SpoiltInv, RootsInv
  <2> QED
    BY <2>1, <2>3 DEF IInv
<1>6. CASE Midnight
  <2>1. day' \in 0..MaxDay /\ day' >= day
    BY <1>0, <1>6, Facts DEF Midnight
  <2> QED
    BY <1>5, <1>6, <2>1 DEF Midnight
<1>7. CASE UNCHANGED vars
  <2>1. day' \in 0..MaxDay /\ day' >= day
    BY <1>0, <1>7, Facts DEF vars, TypeOK
  <2> QED
    BY <1>5, <1>7, <2>1 DEF vars
<1> QED
  BY <1>1, <1>2, <1>3, <1>4, <1>6, <1>7 DEF Next

LEMMA Invariant == Spec => []IInv
BY InitInv, NextInv, PTL DEF Spec

-----------------------------------------------------------------------------
(* The theorems.                                                           *)

(* The state keeps its types, no process remembers an entry that is not in *)
(* the file, and only its last line can be torn (audit_trail.py:100).      *)
THEOREM TypeCorrect == Spec => []TypeOK
<1>1. IInv => TypeOK
  BY DEF IInv, ChainInv
<1> QED
  BY <1>1, Invariant, PTL

(* No failed write, restart or other process leaves an entry that names a  *)
(* later one or one that is not there (audit_trail.py:129).                *)
THEOREM NoDanglingLink == Spec => []LinksBackwards
<1>1. IInv => LinksBackwards
  BY DEF IInv, ChainInv
<1> QED
  BY <1>1, Invariant, PTL

(* A log that a single process wrote in one day without torn lines passes  *)
(* verify_chain, however often the process restarted.                      *)
THEOREM SoleWriterSound == Spec => []SoleWriterVerifies
<1>1. IInv => SoleWriterVerifies
  BY DEF IInv, ChainInv, SoleInv, SoleWriter, SoleWriterVerifies, Verifies
<1> QED
  BY <1>1, Invariant, PTL

(* At most one entry that was appended without an error is unreadable for  *)
(* each write that failed.                                                 *)
THEOREM SpoiltBound == Spec => []SpoiltBounded
<1>1. IInv => SpoiltBounded
  <2> SUFFICES ASSUME IInv PROVE SpoiltBounded
    OBVIOUS
  <2>1. Cardinality(OkLines) \in Nat /\ appended \in Nat /\ tears \in Nat
    BY Counts, Facts DEF IInv, ChainInv
  <2>2. appended - Cardinality(OkLines) <= tears
    BY <2>1 DEF IInv, SpoiltInv
  <2> QED
    BY <2>2 DEF SpoiltBounded, OkLines
<1> QED
  BY <1>1, Invariant, PTL

(* A chain begins once per process that found the file empty, and again    *)
(* only after a restart that follows a failed write.                       *)
THEOREM RootsBound == Spec => []RootsBounded
<1>1. IInv => RootsBounded
  <2> SUFFICES ASSUME IInv PROVE RootsBounded
    OBVIOUS
  <2>1. /\ Cardinality(Roots) \in Nat /\ Cardinality(Unaware) \in Nat
        /\ Cardinality(Starters) \in Nat /\ Cardinality(Processes) \in Nat
        /\ crashes \in Nat
    BY Counts, Facts DEF IInv, ChainInv
  <2>2. Cardinality(Roots) <= Cardinality(Processes) + (IF tears = 0 THEN 0 ELSE crashes)
    BY <2>1 DEF IInv, RootsInv
  <2> QED
    BY <2>2 DEF RootsBounded, Roots
<1> QED
  BY <1>1, Invariant, PTL

(* Nothing that happens later makes a log verify again that did not, not   *)
(* even the key of another day (audit_trail.py:183).                       *)
THEOREM NeverMended == Spec => BrokenForever
<1>1. IInv /\ [Next]_vars => [~ Verifies(log, day) => ~ Verifies(log', day')]_vars
  <2> SUFFICES ASSUME IInv, [Next]_vars, Verifies(log', day') PROVE Verifies(log, day)
    BY Zenon
  <2>0. TypeOK /\ ChainInv
    BY DEF IInv, ChainInv
  <2>1. ASSUME NEW p \in Processes, NEW kind \in {"ok", "torn"}, Writes(p, kind), day' = day
        PROVE  Verifies(log, day)
    <3>1. \A i \in 1..Len(log') : /\ log'[i].kind = "ok" /\ log'[i].day = day
                                   /\ log'[i].prev = i - 1
      BY <2>1 DEF Verifies
    <3>2. CASE log' = log
      BY <3>1, <3>2 DEF Verifies
    <3>3. CASE NewLine(log, LineOf(p, kind), log')
      <4>1. \A i \in 1..Len(log) : i \in 1..Len(log') /\ log'[i] = log[i]
        BY <2>0, <3>3, Facts DEF NewLine
      <4> QED
        BY <3>1, <4>1 DEF Verifies
    <3>4. CASE TornTail(log) /\ SpoiltLine(log, LineOf(p, kind), log')
      <4>1. LineOf(p, kind) \in Lines
        BY <2>0, <2>1, LineFacts DEF Writes
      <4>2. log'[Len(log')].kind = "spoilt"
        BY <3>4, <4>1 DEF SpoiltLine, Lines
      <4>3. Len(log') \in 1..Len(log')
        BY <2>0, <3>4, Facts DEF SpoiltLine, TornTail
      <4> QED
        BY <3>1, <4>2, <4>3
    <3> QED
      BY <2>1, <3>2, <3>3, <3>4 DEF Writes
  <2>2. CASE Midnight
    <3>1. log' = log /\ day' = day + 1
      BY <2>2 DEF Midnight
    <3>2. \A i \in 1..Len(log) : log[i].day = day + 1
      BY <3>1 DEF Verifies
    <3>3. 1..Len(log) = {}
      BY <2>0, <3>2, Facts DEF ChainInv, DayInv
    <3> QED
      BY <3>3 DEF Verifies
  <2>3. CASE UNCHANGED <<log, day>>
    BY <2>3
  <2>4. ASSUME NEW p \in Processes, Load(p) \/ AppendEntry(p) \/ Tear(p) \/ Crash(p)
        PROVE  Verifies(log, day)
    <3>1. CASE Load(p) \/ Crash(p)
      BY <2>3, <3>1 DEF Load, Crash
    <3>2. CASE AppendEntry(p)
      BY <2>0, <2>1, <3>2, AppendEntryWrites DEF AppendEntry
    <3>3. CASE Tear(p)
      BY <2>0, <2>1, <3>3, TearWrites DEF Tear
    <3> QED
      BY <2>4, <3>1, <3>2, <3>3
  <2> QED
    BY <2>2, <2>3, <2>4 DEF Next, vars
<1> QED
  BY <1>1, Invariant, PTL DEF Spec, BrokenForever
=============================================================================
