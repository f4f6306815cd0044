------------------------------ MODULE EventLog ------------------------------
(***************************************************************************)
(* The event log while it is written, rotated and read:                    *)
(*                                                                         *)
(*   honeypot/logging/events.py            EventLogger                     *)
(*   deploy/logrotate-riscv-honeypot.conf  daily, rotate, delaycompress    *)
(*   tools/dashboard.py                    _load_events and its cache      *)
(*   tools/status_check.py                 --exclude-ip                    *)
(*                                                                         *)
(* Three programs share the directory and no lock.  A name of the          *)
(* directory leads to a file, and a program that has opened a file keeps   *)
(* it through a rename.                                                    *)
(***************************************************************************)
EXTENDS Naturals, Sequences, FiniteSets, SequencesExt, FiniteSetsExt

CONSTANTS
    Sessions,       \* sessions that log events
    Excluded,       \* the sessions from the addresses of --exclude-ip
    Keep,           \* logrotate's rotate: how many old logs it keeps
    Workloads,      \* what the sessions and the heartbeat log, in order
    MaxFaults,      \* bound on crashes and failed writes
    MaxRotations,   \* bound on rotations
    MaxReports      \* bound on reports

ASSUME EventLogAssumption ==
    /\ Excluded \subseteq Sessions
    /\ Keep \in Nat \ {0}
    /\ Workloads \subseteq Seq({"connect", "command", "heartbeat"} \X (Sessions \cup {"none"}))
    /\ {MaxFaults, MaxRotations, MaxReports} \subseteq Nat

\* events.jsonl is Live; events.jsonl.N and events.jsonl.N.gz.
Name == [n : 0 .. Keep + 1, gz : BOOLEAN]
Plain(n) == [n |-> n, gz |-> FALSE]
Gz(n) == [n |-> n, gz |-> TRUE]
Live == Plain(0)

NoFile == 0     \* what a name that does not exist leads to
NoEvents == [mtime |-> 0, size |-> 0, got |-> << >>]   \* nothing cached

VARIABLES
    events,      \* the calls of log() so far: kind, session, whether it returned
    dir,         \* name -> number of a file, or NoFile
    disk,        \* the files: their data, a sequence of half lines, and mtime
    writer,      \* the EventLogger: pc, the file it has open
    rotation,    \* logrotate: pc, the number to shift next, rotations so far
    deleted,     \* events in the logs that rotation has deleted
    reader,      \* _load_events: pc, names to read, key, what it has read
    cache,       \* _ROTATED_CACHE: name -> key and events
    faults

vars == <<events, dir, disk, writer, rotation, deleted, reader, cache, faults>>

NoReport(count) ==
    [pc |-> "idle", todo |-> << >>, key |-> <<0, 0>>, got |-> << >>,
     before |-> {}, calm |-> TRUE, twins |-> FALSE, count |-> count]

Init ==
    /\ events = << >>
    /\ dir = [name \in Name |-> NoFile]
    /\ disk = << >>
    /\ writer = [pc |-> "down", file |-> NoFile]
    /\ rotation = [pc |-> "idle", k |-> 0, count |-> 0]
    /\ deleted = {}
    /\ reader = NoReport(0)
    /\ cache = [name \in Name |-> NoEvents]
    /\ faults = 0

-----------------------------------------------------------------------------
(* Files.                                                                   *)

\* mtime: a new value at every write.
Now == 1 + MapThenSumSet(LAMBDA f : Len(disk[f].data), DOMAIN disk)

\* Opening a name for appending creates it.
OpenAppend(name) ==
    IF dir[name] # NoFile THEN UNCHANGED <<dir, disk>>
    ELSE /\ disk' = Append(disk, [data |-> << >>, mtime |-> Now])
         /\ dir' = [dir EXCEPT ![name] = Len(disk) + 1]

AppendTo(file, data) ==
    disk' = [disk EXCEPT ![file] = [data |-> @.data \o data, mtime |-> Now]]

\* json.loads takes the line that ends at place i: both halves, on a line of
\* their own.  A second half ends with the newline.
IsGood(data, i) ==
    /\ i > 1
    /\ data[i].half = 2
    /\ data[i - 1] = [id |-> data[i].id, half |-> 1]
    /\ i = 2 \/ data[i - 2].half = 2

\* Mutant: a malformed line ends the reading.
GoodUntilBad(data) ==
    {i \in DOMAIN data : IsGood(data, i) /\ \A j \in 1 .. i : data[j].half = 2 => IsGood(data, j)}

\* Malformed lines are skipped.
GoodLines(data) == {i \in DOMAIN data : IsGood(data, i)}

\* The events of _parse_file, in the order of their lines.
Parsed(data) ==
    LET lines == SetToSortSeq(GoodLines(data), <)
    IN  [l \in DOMAIN lines |-> data[lines[l]].id]

\* _parse_file of what a name leads to now; an OSError gives no events.
ParseFile(name) == IF dir[name] = NoFile THEN << >> ELSE Parsed(disk[dir[name]].data)

\* The events that a file holds, and that the files hold between them.
EventsIn(name) ==
    IF dir[name] = NoFile THEN {}
    ELSE LET data == disk[dir[name]].data IN {data[i].id : i \in GoodLines(data)}

Readable == UNION {EventsIn(name) : name \in Name}

-----------------------------------------------------------------------------
(* The writer.                                                              *)

\* EventLogger(): touch.
Start ==
    /\ writer.pc = "down"
    /\ OpenAppend(Live)
    /\ writer' = [writer EXCEPT !.pc = "idle"]
    /\ UNCHANGED <<events, rotation, deleted, reader, cache, faults>>

\* The workloads that go on with this event.
Possible(event) ==
    LET logged == [i \in DOMAIN events |-> <<events[i].kind, events[i].session>>]
    IN  \E load \in Workloads : IsPrefix(Append(logged, event), load)

\* log(): the file is opened for this event alone.
OpenLog(kind, s) ==
    /\ writer.pc = "idle"
    /\ Possible(<<kind, s>>)
    /\ events' = Append(events, [kind |-> kind, session |-> s, done |-> FALSE])
    /\ OpenAppend(Live)
    /\ writer' = [pc |-> "open", file |-> dir'[Live]]
    /\ UNCHANGED <<rotation, deleted, reader, cache, faults>>

Half(h) == [id |-> Len(events), half |-> h]

Written ==
    /\ events' = [events EXCEPT ![Len(events)].done = TRUE]
    /\ writer' = [pc |-> "idle", file |-> NoFile]
    /\ UNCHANGED <<dir, rotation, deleted, reader, cache, faults>>

WriteLine ==
    /\ writer.pc = "open"
    /\ AppendTo(writer.file, <<Half(1), Half(2)>>)
    /\ Written

\* A line longer than the buffer is written in pieces.
WriteHead ==
    /\ writer.pc = "open"
    /\ AppendTo(writer.file, <<Half(1)>>)
    /\ writer' = [writer EXCEPT !.pc = "half"]
    /\ UNCHANGED <<events, dir, rotation, deleted, reader, cache, faults>>

WriteTail ==
    /\ writer.pc = "half"
    /\ AppendTo(writer.file, <<Half(2)>>)
    /\ Written

\* OSError, the disk is full: the heartbeat catches it, the listeners end the
\* connection; the next event is logged all the same.
WriteFails ==
    /\ writer.pc \in {"open", "half"}
    /\ faults < MaxFaults
    /\ faults' = faults + 1
    /\ writer' = [pc |-> "idle", file |-> NoFile]
    /\ UNCHANGED <<events, dir, disk, rotation, deleted, reader, cache>>

Crash ==
    /\ writer.pc # "down"
    /\ faults < MaxFaults
    /\ faults' = faults + 1
    /\ writer' = [pc |-> "down", file |-> NoFile]
    /\ UNCHANGED <<events, dir, disk, rotation, deleted, reader, cache>>

-----------------------------------------------------------------------------
(* logrotate, one system call at a time.                                    *)

\* A report that runs meanwhile is disturbed.
Rotates(pc, k) ==
    /\ rotation' = [rotation EXCEPT !.pc = pc, !.k = k]
    /\ reader' = [reader EXCEPT !.calm = reader.pc = "idle"]
    /\ UNCHANGED <<events, writer, cache, faults>>

Move(from, to) == [dir EXCEPT ![from] = NoFile, ![to] = dir[from]]

\* notifempty.  A day passes between two rotations, so no call of log() still
\* has the last one's file open.
StartRotation ==
    /\ rotation.pc = "idle"
    /\ rotation.count < MaxRotations
    /\ dir[Live] # NoFile
    /\ disk[dir[Live]].data # << >>
    /\ writer.pc \in {"open", "half"} => writer.file = dir[Live]
    /\ rotation' = [rotation EXCEPT !.pc = IF dir[Plain(1)] # NoFile THEN "compress" ELSE "shift",
                                    !.k = Keep, !.count = @ + 1]
    /\ reader' = [reader EXCEPT !.calm = reader.pc = "idle"]
    /\ UNCHANGED <<events, dir, disk, writer, deleted, cache, faults>>

\* compress with delaycompress: yesterday's log, into a file that grows ...
Compress(size) ==
    /\ rotation.pc = "compress"
    /\ size < Len(disk[dir[Plain(1)]].data)
    /\ disk' = Append(disk, [data |-> SubSeq(disk[dir[Plain(1)]].data, 1, size), mtime |-> Now])
    /\ dir' = [dir EXCEPT ![Gz(1)] = Len(disk) + 1]
    /\ Rotates("compressing", Keep)
    /\ UNCHANGED deleted

\* ... until it holds all and gets the old modification time.
Compressed ==
    /\ rotation.pc = "compressing"
    /\ disk' = [disk EXCEPT ![dir[Gz(1)]] = disk[dir[Plain(1)]]]
    /\ Rotates("compressed", Keep)
    /\ UNCHANGED <<dir, deleted>>

RemovePlain ==
    /\ rotation.pc = "compressed"
    /\ dir' = [dir EXCEPT ![Plain(1)] = NoFile]
    /\ Rotates("shift", Keep)
    /\ UNCHANGED <<disk, deleted>>

Shift ==
    /\ rotation.pc = "shift"
    /\ rotation.k > 0
    /\ dir' = Move(Gz(rotation.k), Gz(rotation.k + 1))
    /\ Rotates("shift", rotation.k - 1)
    /\ UNCHANGED <<disk, deleted>>

RenameLive ==
    /\ rotation.pc = "shift"
    /\ rotation.k = 0
    /\ dir' = Move(Live, Plain(1))
    /\ Rotates("delete", 0)
    /\ UNCHANGED <<disk, deleted>>

DeleteOldest ==
    /\ rotation.pc = "delete"
    /\ deleted' = deleted \cup EventsIn(Gz(Keep + 1))
    /\ dir' = [dir EXCEPT ![Gz(Keep + 1)] = NoFile]
    /\ Rotates("idle", 0)
    /\ UNCHANGED disk

-----------------------------------------------------------------------------
(* The report.                                                              *)

Siblings == {name \in Name : name.n > 0 /\ dir[name] # NoFile}

\* Mutant: newest first.
NewestFirst(a, b) == a.n < b.n \/ (a.n = b.n /\ b.gz /\ ~a.gz)

\* sorted(found, reverse=True): by number, and .1.gz before .1.
OldestFirst(a, b) == a.n > b.n \/ (a.n = b.n /\ a.gz /\ ~b.gz)

\* rotated_siblings.
ListLogs ==
    /\ reader.pc = "idle"
    /\ reader.count < MaxReports
    /\ reader' = [reader EXCEPT !.pc = "stat", !.todo = SetToSortSeq(Siblings, OldestFirst),
                                !.got = << >>, !.before = Readable, !.calm = rotation.pc = "idle",
                                !.twins = {Plain(1), Gz(1)} \subseteq Siblings,
                                !.count = @ + 1]
    /\ UNCHANGED <<events, dir, disk, writer, rotation, deleted, cache, faults>>

Key(name) == <<disk[dir[name]].mtime, Len(disk[dir[name]].data)>>

\* Mutant: the cache is keyed on the path alone.
CachedByPath(name) == cache[name] # NoEvents

Cached(name) == cache[name] # NoEvents /\ Key(name) = <<cache[name].mtime, cache[name].size>>

\* _parse_rotated: stat, and the cache if it holds this very file.
StatLog ==
    /\ reader.pc = "stat"
    /\ reader.todo # << >>
    /\ LET name == Head(reader.todo)
       IN  reader' = IF dir[name] = NoFile THEN [reader EXCEPT !.todo = Tail(@)]
                     ELSE IF Cached(name) THEN [reader EXCEPT !.todo = Tail(@), !.got = @ \o cache[name].got]
                     ELSE [reader EXCEPT !.pc = "parse", !.key = Key(name)]
    /\ UNCHANGED <<events, dir, disk, writer, rotation, deleted, cache, faults>>

\* _parse_rotated: the name may lead elsewhere by now.
ParseLog ==
    /\ reader.pc = "parse"
    /\ LET name == Head(reader.todo)
           got == ParseFile(name)
       IN  /\ cache' = [cache EXCEPT ![name] = [mtime |-> reader.key[1], size |-> reader.key[2],
                                                got |-> got]]
           /\ reader' = [reader EXCEPT !.pc = "stat", !.todo = Tail(@), !.key = <<0, 0>>,
                                       !.got = @ \o got]
    /\ UNCHANGED <<events, dir, disk, writer, rotation, deleted, faults>>

\* _load_events: the live log comes last.
ReadLive ==
    /\ reader.pc = "stat"
    /\ reader.todo = << >>
    /\ reader' = [reader EXCEPT !.pc = "done", !.got = @ \o ParseFile(Live)]
    /\ UNCHANGED <<events, dir, disk, writer, rotation, deleted, cache, faults>>

\* The dashboard server keeps its cache for the next report; status_check and
\* dashboard are new processes each time.
EndReport(server) ==
    /\ reader.pc = "done"
    /\ reader' = NoReport(reader.count)
    /\ cache' = IF server THEN cache ELSE [name \in Name |-> NoEvents]
    /\ UNCHANGED <<events, dir, disk, writer, rotation, deleted, faults>>

\* _filter_excluded_ips: by session, and a session's address is in its connect.
FilterExcludedIps(got) ==
    LET excluded == {events[i].session : i \in {j \in ToSet(got) : events[j].kind = "connect"}} \cap Excluded
    IN  SelectSeq(got, LAMBDA i : events[i].kind = "heartbeat" \/ events[i].session \notin excluded)

\* Report: the sessions by their identifier, the visits per address, the
\* commands.
Aggregate(shown) ==
    LET Of(kind) == SelectSeq(shown, LAMBDA i : events[i].kind = kind)
    IN  [sessions |-> {events[i].session : i \in ToSet(Of("connect"))},
         visits |-> Len(Of("connect")),
         commands |-> ToSet(Of("command"))]

Report == Aggregate(FilterExcludedIps(reader.got))

-----------------------------------------------------------------------------

Next ==
    \/ Start
    \/ \E s \in Sessions, kind \in {"connect", "command"} : OpenLog(kind, s)
    \/ OpenLog("heartbeat", "none")
    \/ WriteLine
    \/ WriteHead
    \/ WriteTail
    \/ WriteFails
    \/ Crash
    \/ StartRotation
    \/ \E size \in 0 .. 2 * Len(events) : Compress(size)
    \/ Compressed
    \/ RemovePlain
    \/ Shift
    \/ RenameLive
    \/ DeleteOldest
    \/ ListLogs
    \/ StatLog
    \/ ParseLog
    \/ ReadLive
    \/ \E server \in BOOLEAN : EndReport(server)

Spec == Init /\ [][Next]_vars

-----------------------------------------------------------------------------
(* Properties.                                                              *)

\* events.py, log, and the comment in the logrotate configuration: rotation
\* needs no signal to the honeypot.  An event whose log() returned stays
\* readable until its log is deleted, unless it follows, on the same line, one
\* whose write failed or whose process died half-way.
LoggedIsReadable ==
    \A i \in DOMAIN events :
       events[i].done /\ i \notin Readable \cup deleted => i > 1 /\ ~events[i - 1].done

\* dashboard.py, _load_events: a report holds no event twice and keeps their
\* order, through any rotation and with any cache, unless it finds a log
\* together with its compressed copy.
ReportOrdered ==
    \A i, j \in DOMAIN reader.got :
       i < j /\ ~reader.twins => reader.got[i] < reader.got[j]

\* dashboard.py and status_check.py: a report that no rotation disturbs, whatever
\* earlier reports have left in the cache, counts every event in the logs when
\* it begins, and no event of an excluded session whose connect is among them.
ReportComplete ==
    reader.pc = "done" /\ reader.calm =>
       LET kept(kind) == {i \in reader.before : events[i].kind = kind}
           gone == {events[i].session : i \in kept("connect")} \cap Excluded
           show(kind) == {i \in kept(kind) : events[i].session \notin gone}
       IN  /\ {events[i].session : i \in show("connect")} \subseteq Report.sessions
           /\ Report.visits = Cardinality(Report.sessions)
           /\ show("command") \subseteq Report.commands
           /\ \A i \in Report.commands : events[i].session \notin gone

=============================================================================
