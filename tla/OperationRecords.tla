-------------------------- MODULE OperationRecords --------------------------
(***************************************************************************)
(* What the program writes down about its operations: telemetry.json       *)
(* (internal/telemetry/service.go) and the failure log                     *)
(* (internal/diagnostics/service.go).                                      *)
(*                                                                         *)
(* Each is one file behind one mutex, and a record of an operation is a    *)
(* read of the whole file, an entry put into it, a cut to its capacity,    *)
(* and an atomic replacement.  Operations run on goroutines of their own;  *)
(* the dashboard reads the profiles first and telemetry.json afterwards.   *)
(*                                                                         *)
(* Entries are stored as the code orders them: telemetry oldest first,     *)
(* failures newest first.  The size limits of the files, which entries of  *)
(* bounded fields do not reach, are left out.                              *)
(***************************************************************************)
EXTENDS TelemetrySnapshot

CONSTANTS Callers,          \* goroutines of desktop.go calls
          Profiles,
          ReadyProfiles,    \* those whose fingerprint was verified
          ProxiedProfiles,  \* those with a proxy
          Latencies,        \* of a proxy test that succeeds
          Capacity,         \* maxEvents and maxLogEntries
          Retention,        \* 30 days
          Free,             \* the dashboard is not reading
          MaxOps, MaxClock, MaxDamages   \* bounds

Books == {"telemetry", "incidents"}
OpKinds == LaunchKinds \cup ProxyKinds

ASSUME CapacityAssumption == Capacity \in [Books -> Nat \ {0}]
ASSUME ProfilesAssumption == ReadyProfiles \subseteq Profiles /\ ProxiedProfiles \subseteq Profiles
ASSUME LatenciesAssumption == Latencies \subseteq Nat
ASSUME RecordBoundsAssumption == {Retention, MaxOps, MaxClock, MaxDamages} \subseteq Nat

VARIABLES
    book,       \* the files: [ok: does it decode, entries]
    inside,     \* does the caller hold the mutex of the book it is writing to
    entry,      \* the operation each caller has to write down
    todo,       \* the books it still has to write it to, and "stamp" before
    held,       \* the entries a caller read under the mutex
    launched,   \* LastLaunchedAt of each profile's metadata
    states,     \* the profile states the dashboard has read, Free if none
    now, ops, damages,
    opened,     \* observer: every opening of a profile, [n, profile, at]
    noted       \* observer: what each book owes its readers, in writing order

recordsVars == <<book, inside, entry, todo, held, launched, states, now, ops, damages, opened, noted>>
recordObservers == <<opened, noted>>

Entry == [n: 0..MaxOps, kind: OpKinds \cup {""}, profile: Profiles \cup {Never}, at: 0..MaxClock, latency: Nat]
States(last) == [p \in Profiles |-> [launched |-> last[p], opened |-> last[p] # Never,
                                     ready |-> p \in ReadyProfiles, proxied |-> p \in ProxiedProfiles]]

RecordsTypeOK ==
    /\ book \in [Books -> [ok : BOOLEAN, entries : Seq(Entry)]]
    /\ noted \in [Books -> Seq(Entry)]
    /\ inside \in [Callers -> BOOLEAN]
    /\ entry \in [Callers -> Entry] /\ held \in [Callers -> Seq(Entry)]
    /\ todo \in [Callers -> Seq(Books \cup {"stamp"})]
    /\ launched \in [Profiles -> 0..MaxClock \cup {Never}]
    /\ now \in 0..MaxClock /\ ops \in 0..MaxOps /\ damages \in 0..MaxDamages

RecordsInit ==
    /\ book = [b \in Books |-> [ok |-> TRUE, entries |-> <<>>]]
    /\ inside = [c \in Callers |-> FALSE]
    /\ entry = [c \in Callers |-> NoEvent]
    /\ todo = [c \in Callers |-> <<>>] /\ held = [c \in Callers |-> <<>>]
    /\ launched = [p \in Profiles |-> Never]
    /\ states = Free
    /\ now = 0 /\ ops = 0 /\ damages = 0
    /\ opened = {} /\ noted = [b \in Books |-> <<>>]

-----------------------------------------------------------------------------
(* The operations of desktop.go, and what each of them writes down: the    *)
(* deferred recordFailure comes last.                                      *)

Failures(kind) == IF kind \in {"launch_failed", "proxy_failed"} THEN <<"incidents">> ELSE <<>>

Begin(c, kind, p, latency, books) ==
    /\ todo[c] = <<>> /\ ops < MaxOps
    /\ ops' = ops + 1
    /\ entry' = [entry EXCEPT ![c] =
                     [n |-> ops + 1, kind |-> kind, profile |-> p, at |-> now, latency |-> latency]]
    /\ todo' = [todo EXCEPT ![c] = books \o Failures(kind)]
    /\ UNCHANGED <<book, inside, held, states, now, damages, noted>>

\* LaunchProfile: Browser.Launch writes LastLaunchedAt before it returns,
\* and RecordLaunch takes the event's time afterwards.
LaunchSucceeds(c, p) ==
    /\ Begin(c, "launch_succeeded", p, 0, <<"stamp", "telemetry">>)
    /\ launched' = [launched EXCEPT ![p] = now]
    /\ opened' = opened \cup {[n |-> ops + 1, profile |-> p, at |-> now]}

LaunchFails(c, p) ==
    /\ Begin(c, "launch_failed", p, 0, <<"stamp", "telemetry">>)
    /\ UNCHANGED <<launched, opened>>

\* TestNetwork: a failed test has no latency.
TestProxy(c, p, latency) ==
    /\ p \in ProxiedProfiles
    /\ Begin(c, IF latency = 0 THEN "proxy_failed" ELSE "proxy_succeeded", p, latency, <<"telemetry">>)
    /\ UNCHANGED <<launched, opened>>

\* Event.OccurredAt: the clock is read before the mutex is taken.
Stamp(c) ==
    /\ todo[c] # <<>> /\ Head(todo[c]) = "stamp"
    /\ entry' = [entry EXCEPT ![c].at = now]
    /\ todo' = [todo EXCEPT ![c] = Tail(@)]
    /\ UNCHANGED <<book, inside, held, launched, states, now, ops, damages, recordObservers>>

-----------------------------------------------------------------------------
(* record and Record.                                                      *)

\* loadLocked refuses a file with more than maxEvents events.
Loads(b) == book[b].ok /\ (b = "telemetry" => Len(book[b].entries) <= Capacity[b])

\* "Starting a fresh bounded log is the recovery path" of the failure log.
Restarts(b) == b = "incidents"

\* The loop that keeps what is not older than the cutoff.
KeptSince(events, cutoff) ==
    LET kept[i \in 0..Len(events)] ==
            IF i = 0 THEN <<>>
            ELSE IF events[i].at >= cutoff THEN Append(kept[i - 1], events[i]) ELSE kept[i - 1]
    IN  kept[Len(events)]

\* What is written, of the entries read and a new one.
Extended(b, entries, e) ==
    IF b = "telemetry"
    THEN LET kept == KeptSince(Append(entries, e), now - Retention)
         IN  IF Len(kept) > Capacity[b] THEN SubSeq(kept, Len(kept) - Capacity[b] + 1, Len(kept)) ELSE kept
    ELSE LET all == <<e>> \o entries
         IN  IF Len(all) > Capacity[b] THEN SubSeq(all, 1, Capacity[b]) ELSE all

Wants(c, b) == todo[c] # <<>> /\ Head(todo[c]) = b

\* Nobody holds the mutex of book b.
Unlocked(b) == \A c \in Callers : ~ (inside[c] /\ Wants(c, b))

Done(c) ==
    /\ todo' = [todo EXCEPT ![c] = Tail(@)]
    /\ inside' = [inside EXCEPT ![c] = FALSE] /\ held' = [held EXCEPT ![c] = <<>>]
    /\ entry' = IF Len(todo[c]) = 1 THEN [entry EXCEPT ![c] = NoEvent] ELSE entry

\* Bug: the file is read before the mutex is taken.
BugLock(c, b) ==
    /\ Wants(c, b) /\ ~ inside[c]
    /\ inside' = [inside EXCEPT ![c] = TRUE]
    /\ held' = [held EXCEPT ![c] = IF Loads(b) THEN book[b].entries ELSE <<>>]
    /\ UNCHANGED <<book, entry, todo, launched, states, now, ops, damages, recordObservers>>

\* The mutex is taken and the file read.
Lock(c, b) ==
    /\ Wants(c, b) /\ ~ inside[c] /\ Unlocked(b)
    /\ inside' = [inside EXCEPT ![c] = TRUE]
    /\ held' = [held EXCEPT ![c] = IF Loads(b) THEN book[b].entries ELSE <<>>]
    /\ UNCHANGED <<book, entry, todo, launched, states, now, ops, damages, recordObservers>>

\* The file is replaced and the mutex given back; a file that does not load
\* is left alone, and the callers of telemetry ignore the error.
Write(c, b) ==
    /\ Wants(c, b) /\ inside[c]
    /\ book' = IF Loads(b) \/ Restarts(b)
               THEN [book EXCEPT ![b] = [ok |-> TRUE, entries |-> Extended(b, held[c], entry[c])]]
               ELSE book
    /\ noted' = IF book[b].ok \/ b = "incidents" THEN [noted EXCEPT ![b] = Append(@, entry[c])] ELSE noted
    /\ Done(c)
    /\ UNCHANGED <<launched, states, now, ops, damages, opened>>

\* WriteJSONAtomic fails: the old file stands.
WriteFails(c, b) ==
    /\ Wants(c, b) /\ inside[c]
    /\ Done(c)
    /\ UNCHANGED <<book, launched, states, now, ops, damages, recordObservers>>

\* ClearDiagnosticLog.
Clear ==
    /\ Unlocked("incidents")
    /\ book' = [book EXCEPT !["incidents"] = [ok |-> TRUE, entries |-> <<>>]]
    /\ noted' = [noted EXCEPT !["incidents"] = <<>>]
    /\ UNCHANGED <<inside, entry, todo, held, launched, states, now, ops, damages, opened>>

-----------------------------------------------------------------------------
(* The dashboard: listProfilesAndTelemetry.  The Snapshot is a value that  *)
(* goes to the views; it is no state of the program.                       *)

ReadStates ==
    /\ states = Free
    /\ states' = States(launched)
    /\ UNCHANGED <<book, inside, entry, todo, held, launched, now, ops, damages, recordObservers>>

\* What the dashboard then shows.
Shown == buildSnapshot(now, states, book["telemetry"].entries)

\* Snapshot: an unreadable telemetry.json is an error and nothing is shown.
Show ==
    /\ states # Free /\ Unlocked("telemetry")
    /\ states' = Free
    /\ UNCHANGED <<book, inside, entry, todo, held, launched, now, ops, damages, recordObservers>>

-----------------------------------------------------------------------------
(* The world outside.                                                      *)

Tick(t) ==
    /\ t \in now + 1..MaxClock
    /\ now' = t
    /\ UNCHANGED <<book, inside, entry, todo, held, launched, states, ops, damages, recordObservers>>

\* The program ends and starts again: files stand, unless one of them (bad)
\* is not what it was, and the goroutines are gone.
Restart(bad) ==
    /\ bad # {} => damages < MaxDamages
    /\ damages' = IF bad = {} THEN damages ELSE damages + 1
    /\ book' = [b \in Books |-> IF b \in bad THEN [ok |-> FALSE, entries |-> <<>>] ELSE book[b]]
    /\ noted' = [b \in Books |-> IF b \in bad THEN <<>> ELSE noted[b]]
    /\ inside' = [c \in Callers |-> FALSE]
    /\ entry' = [c \in Callers |-> NoEvent]
    /\ todo' = [c \in Callers |-> <<>>] /\ held' = [c \in Callers |-> <<>>]
    /\ states' = Free
    /\ UNCHANGED <<launched, now, ops, opened>>

RecordsNext ==
    \/ \E c \in Callers, p \in Profiles : LaunchSucceeds(c, p) \/ LaunchFails(c, p)
    \/ \E c \in Callers, p \in Profiles, l \in Latencies \cup {0} : TestProxy(c, p, l)
    \/ \E c \in Callers : Stamp(c)
    \/ \E c \in Callers, b \in Books : Lock(c, b) \/ Write(c, b) \/ WriteFails(c, b)
    \/ Clear \/ ReadStates \/ Show
    \/ Restart({}) \/ \E b \in Books : Restart({b})
    \/ \E t \in 0..MaxClock : Tick(t)

RecordsSpec == RecordsInit /\ [][RecordsNext]_recordsVars

-----------------------------------------------------------------------------
(***************************************************************************)
(*                            Properties                                   *)
(***************************************************************************)

Recent(b) == {noted[b][i] : i \in {j \in DOMAIN noted[b] : j > Len(noted[b]) - Capacity[b]}}
Fresh(e) == e.at >= now - Retention

\* No record is lost.  Whoever else was reading or writing the same file,
\* whatever was refused or went wrong before, a file that is there holds the
\* newest entries written to it, up to its capacity and, for telemetry, to
\* its thirty days; and the failure log gets over a file that does not read.
NothingNotedIsLost ==
    \A b \in Books : noted[b] # <<>> =>
        /\ Loads(b)
        /\ \A e \in Recent(b) : e \in Range(book[b].entries) \/ (b = "telemetry" /\ ~ Fresh(e))

\* The events of profile p of some kinds that nothing written down about it
\* is later than.
Newest(p, kinds) ==
    LET results == {e \in Range(noted["telemetry"]) : e.profile = p /\ e.kind \in kinds}
    IN  {e \in results : \A f \in results : f.at <= e.at}

AllAre(events, kind) == events # {} /\ \A e \in events : e.kind = kind /\ e \in Recent("telemetry") /\ Fresh(e)

\* The dashboard judges a profile by what happened to it last, in whatever
\* order the goroutines that saw it happen came to write: a profile that did
\* not open, or whose proxy did not answer, is a high risk, and a proxy is
\* healthy only if its last test was good.
LatestResultsAreShown ==
    [][Show /\ Loads("telemetry") => \A p \in Profiles :
        LET metric == Shown.metrics[p]
        IN  /\ AllAre(Newest(p, LaunchKinds), "launch_failed") => metric.risk = "high"
            /\ AllAre(Newest(p, ProxyKinds), "proxy_failed") => ~ metric.healthy /\ metric.risk = "high"
            /\ AllAre(Newest(p, LaunchKinds), "launch_succeeded")
               /\ AllAre(Newest(p, ProxyKinds), "proxy_succeeded")
                 => (metric.risk = "high" => p \notin ReadyProfiles)]_recordsVars

\* Openings that the chart may count: by LastLaunchedAt or by their event.
Countable == {o \in opened : InChart(now, o.at)
                \/ \E e \in Range(book["telemetry"].entries) : e.n = o.n /\ InChart(now, e.at)}

\* "Openings in the last 24 hours" comes from two sources read at two
\* moments, the events and LastLaunchedAt: an opening whose event is not
\* written yet, or was lost, is not counted twice, and when every opening
\* has its event the number is right.
OpeningsAreCountedOnce ==
    [][Show /\ Loads("telemetry") =>
        /\ Shown.launches <= Cardinality(Countable)
        /\ {o.n : o \in opened} \subseteq {e.n : e \in Range(book["telemetry"].entries)}
             => Shown.launches = Cardinality({e \in Range(book["telemetry"].entries) :
                                                 e.kind = "launch_succeeded" /\ InChart(now, e.at)})]_recordsVars

-----------------------------------------------------------------------------
(***************************************************************************)
(* Why NothingNotedIsLost holds: an inductive invariant                    *)
(***************************************************************************)

\* Who is inside holds the mutex of the book that is next on its list, alone,
\* and what it has read is still what the file holds.
MutexHeld ==
    \A c \in Callers : inside[c] =>
        \E b \in Books :
            /\ Wants(c, b)
            /\ held[c] = IF Loads(b) THEN book[b].entries ELSE <<>>
            /\ \A d \in Callers \ {c} : ~ (inside[d] /\ Wants(d, b))

\* place takes the positions of a log of m entries to positions of one of n,
\* in order and at least as far apart.
Places(place, m, n) ==
    /\ place \in [1..m -> 1..n]
    /\ \A i, j \in 1..m : i <= j => place[j] - place[i] >= j - i

\* list has, of the first n entries of a log and in their order, at least the
\* newest ones that are not older than the cutoff.
Follows(list, log, n, newest, cutoff) ==
    \E place \in [1..Len(list) -> 1..n] :
        /\ Places(place, Len(list), n)
        /\ \A i \in 1..Len(list) : list[i] = log[place[i]]
        /\ \A j \in 1..n : j > n - newest /\ log[j].at >= cutoff => \E i \in 1..Len(list) : place[i] = j

\* telemetry.json follows what was noted.
EventsKept ==
    LET events == book["telemetry"].entries
        log == noted["telemetry"]
    IN  /\ book["telemetry"].ok \/ log = <<>>
        /\ Len(events) <= Capacity["telemetry"]
        /\ Follows(events, log, Len(log), Capacity["telemetry"], now - Retention)

\* The failure log is what was noted last, newest first.
FailuresKept ==
    LET entries == book["incidents"].entries
        log == noted["incidents"]
    IN  /\ book["incidents"].ok \/ log = <<>>
        /\ Len(entries) = IF Len(log) < Capacity["incidents"] THEN Len(log) ELSE Capacity["incidents"]
        /\ \A i \in 1..Len(entries) : entries[i] = log[Len(log) + 1 - i]

RecordsIInv == RecordsTypeOK /\ MutexHeld /\ EventsKept /\ FailuresKept

-----------------------------------------------------------------------------
(***************************************************************************)
(* Why the dashboard is right: what is known of events and openings        *)
(***************************************************************************)
\* telemetry.json is among the books, or is so once.
Owing(books) == \E i \in 1..Len(books) : books[i] = "telemetry"
Once(books) == \A i, j \in 1..Len(books) : books[i] = "telemetry" /\ books[j] = "telemetry" => i = j

\* The operation of c has its event to write down yet.
Owes(c) == Owing(todo[c])

\* Each does so once.
PlannedOnce == \A c \in Callers : Once(todo[c])

\* An event was numbered; a proxy test was of a profile with a proxy; and it
\* is a launch that succeeded exactly if the profile was opened under its number.
Sound(e, count, openings) ==
    /\ e.n \in 1..count
    /\ e.kind \in ProxyKinds => e.profile \in ProxiedProfiles
    /\ e.kind = "launch_succeeded" => \E o \in openings : o.n = e.n
    /\ \A o \in openings : o.n = e.n => e.kind = "launch_succeeded" /\ e.profile = o.profile

EventsAreSound ==
    /\ \A c \in Callers : Owes(c) => Sound(entry[c], ops, opened)
    /\ \A i \in 1..Len(noted["telemetry"]) : Sound(noted["telemetry"][i], ops, opened)

\* No event is written down twice.
EventsOnce ==
    /\ \A c, d \in Callers : Owes(c) /\ Owes(d) /\ entry[c].n = entry[d].n => c = d
    /\ \A c \in Callers, i \in 1..Len(noted["telemetry"]) : Owes(c) => noted["telemetry"][i].n # entry[c].n
    /\ \A i, j \in 1..Len(noted["telemetry"]) : noted["telemetry"][i].n = noted["telemetry"][j].n => i = j

\* LastLaunchedAt, as it is and as the dashboard has read it, is of an opening.
Tells(last, openings) == \A p \in Profiles : last[p] # Never => \E o \in openings : o.profile = p /\ o.at = last[p]
LastOpenings ==
    /\ IsFiniteSet(opened)
    /\ \A o \in opened : o.n \in 1..ops
    /\ \A o, q \in opened : o.n = q.n => o = q
    /\ Tells(launched, opened)
    /\ states # Free => \E last \in [Profiles -> 0..MaxClock \cup {Never}] :
                           states = States(last) /\ Tells(last, opened)

OpeningsIInv == PlannedOnce /\ EventsAreSound /\ EventsOnce /\ LastOpenings
=============================================================================
