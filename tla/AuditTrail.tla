----------------------------- MODULE AuditTrail -----------------------------
(***************************************************************************)
(* audit/audit_trail.py: the HMAC-signed, hash-chained audit log.  Every   *)
(* worker process (the Makefile starts two) keeps the hash of the last     *)
(* entry in memory and appends to one file.  Writes can be cut short, by a *)
(* crash or a full disk, and the signing key changes at midnight.          *)
(*                                                                         *)
(* Each entry's hash is unique, so a line's number stands for it; 0 is the *)
(* empty hash.                                                             *)
(***************************************************************************)
EXTENDS Integers, Sequences, FiniteSets

CONSTANTS
    Processes,
    MaxLines,     \* bound on the lines of the file
    MaxDay,       \* bound on the days that pass
    MaxTears,     \* bound on the writes cut short
    MaxCrashes    \* bound on the crashes

ASSUME BoundsAssumption == {MaxLines, MaxDay, MaxTears, MaxCrashes} \subseteq Nat
ASSUME ProcessesAssumption == IsFiniteSet(Processes)

VARIABLES
    log,        \* the lines of the file
    lastHash,   \* each process's _last_hash; NotLoaded before the first use
    day,
    appended,   \* appends that returned an entry
    tears,
    crashes

vars == <<log, lastHash, day, appended, tears, crashes>>

NotLoaded == -1

\* A line is "ok"; "torn" when a cut write left it without its end; or
\* "spoilt" when an entry was then appended to the torn text.
Lines == [prev: Nat, day: 0..MaxDay, by: Processes, kind: {"ok", "torn", "spoilt"}]

Init ==
    /\ log = <<>>
    /\ lastHash = [p \in Processes |-> NotLoaded]
    /\ day = 0
    /\ appended = 0
    /\ tears = 0
    /\ crashes = 0

-----------------------------------------------------------------------------
TornTail(l) == l # <<>> /\ l[Len(l)].kind = "torn"

\* Mutant: an entry is written without its newline.
WriteLineMutant(l, e) ==
    IF l = <<>> THEN <<e>> ELSE [l EXCEPT ![Len(l)] = [e EXCEPT !.kind = "spoilt"]]

\* The file is opened for appending: after a torn line the text goes on there.
WriteLine(l, e) ==
    IF ~ TornTail(l) THEN Append(l, e)
    ELSE [l EXCEPT ![Len(l)] =
             IF e.kind = "torn" THEN @ ELSE [e EXCEPT !.kind = "spoilt"]]

\* Mutant: every start begins a new chain.
LoadLastHashMutant(l) == 0

\* What cannot be parsed yields the empty hash.
LoadLastHash(l) ==
    IF l # <<>> /\ l[Len(l)].kind = "ok" THEN Len(l) ELSE 0

\* Mutant: entries of other days are skipped.
VerifiesMutant(l, today) ==
    \A i \in 1..Len(l) :
        l[i].day = today => l[i].kind = "ok" /\ l[i].prev = i - 1

\* verify_chain on a given day: each signature is recomputed with the key of
\* that day, and each entry must name the one before it.
Verifies(l, today) ==
    \A i \in 1..Len(l) :
        l[i].kind = "ok" /\ l[i].day = today /\ l[i].prev = i - 1

LineOf(p, kind) ==
    [prev |-> lastHash[p], day |-> day, by |-> p, kind |-> kind]

\* The first use of the trail by a process, or the first after a restart.
Load(p) ==
    /\ lastHash[p] = NotLoaded
    /\ lastHash' = [lastHash EXCEPT ![p] = LoadLastHash(log)]
    /\ UNCHANGED <<log, day, appended, tears, crashes>>

\* Mutant: the hash remembered is not that of the entry written.
AppendEntryMutant(p) ==
    /\ lastHash[p] # NotLoaded
    /\ Len(log) < MaxLines
    /\ log' = WriteLine(log, LineOf(p, "ok"))
    /\ lastHash' = [lastHash EXCEPT ![p] = Len(log') + 1]
    /\ appended' = appended + 1
    /\ UNCHANGED <<day, tears, crashes>>

\* append: no other code of the process runs between the write and the
\* update.  A crash between the two leaves what a crash after both leaves.
AppendEntry(p) ==
    /\ lastHash[p] # NotLoaded
    /\ Len(log) < MaxLines
    /\ log' = WriteLine(log, LineOf(p, "ok"))
    /\ lastHash' = [lastHash EXCEPT ![p] = Len(log')]
    /\ appended' = appended + 1
    /\ UNCHANGED <<day, tears, crashes>>

\* Mutant: the hash is remembered before the entry is written.
TearMutant(p) ==
    /\ lastHash[p] # NotLoaded
    /\ Len(log) < MaxLines /\ tears < MaxTears
    /\ log' = WriteLine(log, LineOf(p, "torn"))
    /\ tears' = tears + 1
    /\ lastHash' = [lastHash EXCEPT ![p] = Len(log')]
    /\ UNCHANGED <<day, appended, crashes>>

\* The write fails half way: append raises and remembers nothing new.
Tear(p) ==
    /\ lastHash[p] # NotLoaded
    /\ Len(log) < MaxLines /\ tears < MaxTears
    /\ log' = WriteLine(log, LineOf(p, "torn"))
    /\ tears' = tears + 1
    /\ UNCHANGED <<lastHash, day, appended, crashes>>

\* The process dies, after a failed write or at any other time.
Crash(p) ==
    /\ lastHash[p] # NotLoaded /\ crashes < MaxCrashes
    /\ lastHash' = [lastHash EXCEPT ![p] = NotLoaded]
    /\ crashes' = crashes + 1
    /\ UNCHANGED <<log, day, appended, tears>>

Midnight ==
    /\ day < MaxDay
    /\ day' = day + 1
    /\ UNCHANGED <<log, lastHash, appended, tears, crashes>>

Next ==
    \/ \E p \in Processes : Load(p) \/ AppendEntry(p) \/ Tear(p) \/ Crash(p)
    \/ Midnight

Spec == Init /\ [][Next]_vars

-----------------------------------------------------------------------------
(* Properties.                                                             *)

\* Every variable has its type, no process remembers an entry that is not in
\* the file, and only the last line can be torn.
TypeOK ==
    /\ log \in Seq(Lines)
    /\ lastHash \in [Processes -> {NotLoaded} \union 0..Len(log)]
    /\ \A i \in 1..(Len(log) - 1) : log[i].kind # "torn"
    /\ day \in 0..MaxDay
    /\ appended \in Nat /\ tears \in 0..MaxTears /\ crashes \in 0..MaxCrashes

\* Every entry names the empty hash or an entry written before it: failed
\* writes, restarts and other processes never leave a link that dangles.
LinksBackwards == \A i \in 1..Len(log) : log[i].prev < i

\* A log that one process wrote in one day, however often it restarted, and
\* without torn lines, passes verify_chain on that day.
SoleWriterVerifies ==
    (\A i \in 1..Len(log) : /\ log[i].by = log[1].by
                            /\ log[i].kind = "ok" /\ log[i].day = day)
    => Verifies(log, day)

\* Each failed write costs get_entries at most one entry that was appended
\* without an error: the one that continues the torn line.
SpoiltBounded ==
    appended - Cardinality({ i \in 1..Len(log) : log[i].kind = "ok" }) <= tears

\* A chain begins anew once per process that found the file empty, and again
\* only after a restart that found the last line unreadable.
RootsBounded ==
    Cardinality({ i \in 1..Len(log) : log[i].kind # "torn" /\ log[i].prev = 0 })
        <= Cardinality(Processes) + (IF tears = 0 THEN 0 ELSE crashes)

\* Nothing that happens later makes a log verify again that did not.
BrokenForever == [][ ~ Verifies(log, day) => ~ Verifies(log', day') ]_vars

-----------------------------------------------------------------------------
\* audit_trail.py:8 has verify_chain prove that the trail was not tampered
\* with: a log that only append wrote verifies.
UntamperedVerifies == Verifies(log, day)
=============================================================================
