# RISC-V honeypot: TLA+ models and proofs

The honeypot (`src/honeypot`) offers SSH and Telnet logins, answers commands
from a fake shell, and turns every `wget`/`curl`/`tftp`/`ftpget` an attacker
types into a real, isolated download that is hashed and locked away. These
modules model the parts of it in which several tasks, processes or files meet,
check them with TLC on small instances, and prove the main results with TLAPS
for every value of the constants.

## 1. Inventory

| Component | State it keeps | Operations | Talks to |
|---|---|---|---|
| Session manager (`session/manager.py`) | `_closed`, `authenticated`, `should_exit`, `_download_count`, background stage-two tasks | `on_connect`, `on_disconnect`, `try_login`, `handle_command`, `_run_segment`, `_fetch_via_queue`, `_start_stage2`, `_collect_stage2_queued`, `_run_stage2_inline` | listeners (called), queue (files), event log |
| Download queue (`fetcher/queue.py`, `fetcher/worker.py`) | files in `jobs_dir` and `jobs_dir/.processing` | `enqueue_job`, `claim_pending_jobs`, `process_pending`, `run` | session manager and other workers, through files only |
| Quarantine (`fetcher/fetcher.py`) | `.tmp-*`, `<sha256>.bin`, `<sha256>.json` in `quarantine_dir` | `fetch_and_quarantine` | workers or, with `mode: inline`, the session process |
| Stage two (`fetcher/stage2.py`, `script_scan.py`) | `Stage2Limiter`: URLs, sessions and hosts seen | `plan_followups`, `admit`, `_prune`, `scan_script` | worker, session manager |
| Connection limiter (`listeners/limiter.py`) | connections per address | `try_acquire`, `release` | listeners |
| SSH listener (`listeners/ssh.py`) | one server object and one session per connection, any number of channels | connection and authentication callbacks, `_handle_process` | asyncssh, session manager |
| Telnet listener (`listeners/telnet.py`) | one session per connection, line buffer, filter state | `handle_telnet_connection`, `read_line`, `_IacFilter.feed` | session manager, limiter |
| Shell (`shell/commands.py`, `filesystem.py`) | one fake file tree and working directory per session | parsing, dispatch, `mv`, `cp`, `rm`, `cd`, ... | session manager |
| Event log, transcripts (`logging/events.py`) | `events.jsonl`, one transcript per session | `log`, `record`, `close` | everyone; logrotate and the operator tools, through files only |
| SSRF guard, ELF decoder, sanitiser, persona, configuration, main program | none, or constant after start | predicates and rendering | |
| Operator tools (`tools/`) | a cache of parsed rotated logs | `_load_events`, `Report`, `_filter_excluded_ips`, rendering | the event log's files |
| `deploy/` | none of the honeypot's | log rotation, host administration | the event log's files |

What is hard in it:

* three kinds of actors meet in `jobs_dir` without locks: sessions, workers,
  and the crash of either (section 3.1);
* a download has two deadlines (`timeout_seconds + 5`, `max_session_seconds`),
  and a late answer of the worker races both;
* one capture is four file operations, and the file of another process or an
  earlier crash may be in the way of each (3.2);
* SSH clients multiplex channels over one connection, and these share one
  session, its transcript and its `should_exit` flag (3.3);
* the bytes of a Telnet line, with commands in between, arrive in chunks of any
  size (3.4);
* what a line of commands does depends on which arm of its `&&` and `||` runs,
  and every line changes the tree that the next one meets (3.5);
* scripts list scripts: what one session can cause must stay bounded, and the
  tasks of all sessions charge one limiter that forgets (3.6);
* the event log is written, rotated and read by three programs at once (3.7).

What makes each part correct is stated as properties below; the hazards, with
the line at which each bites, are listed in `PROJECT.json`.

## 2. Modules

| Module | Models |
|---|---|
| `DownloadQueue` | queued downloads, from the typed command to the logged outcome: session process, workers, files |
| `JobService` | what that queue promises, with no files, processes or polls; `DownloadQueue` implements it |
| `Quarantine` | the file operations of `fetch_and_quarantine`, by several calls in several processes |
| `ConnectionLimiter` | connections per address; part of both listeners |
| `SshListener` | connection callbacks, channel tasks, session life cycle |
| `TelnetListener` | IAC filter, line reader, login, connection handler |
| `FakeFilesystem` | the tree behind the shell and what each operation makes of it |
| `Shell` | a session's command lines: splitting, arms, commands, on that tree |
| `ScriptScan` | the static scan of a script, and what a shell would run of it |
| `Stage2` | in-process stage-two tasks and their limiter, on that scan |
| `EventLog` | the event log's writer, logrotate, and a report that reads the logs |
| `MCDownloadQueue`, `MCQuarantine`, `MCSshListener`, `MCTelnetListener`, `MCShell`, `MCStage2`, `MCEventLog` | constants for TLC |
| `DownloadQueueProofs` | theorems: types, claims, job files, results; what is logged of a download, the refinement of `JobService`, how many downloads one session can cause |
| `QuarantineProofs` | theorems: the size cap, temporary files, sealing |
| `ConnectionLimiterProofs` | lemmas: what taking and giving back a slot does to a count; used by both listeners' proofs |
| `SshListenerProofs` | theorems: slots, events, what a closed session logs |
| `TelnetListenerProofs` | theorems: login, slots, whole lines; lemmas on the IAC filter |
| `EventLogProofs` | theorem: rotation loses no event |
| `ShellProofs` | theorems: which segments of a line run; what the commands keep of the file tree, and what they lose |
| `Stage2Proofs` | theorems: the limiter's budgets and its size; lemmas on folds, on dicts and on the scan |

Where the code tests conditions in turn the modules use `IF ... ELSE IF`:
the arms of a `CASE` have no order in TLA+, so a `CASE` is kept for conditions
that exclude each other.

An operator introduced by a comment "Mutant:" is a wrong version of the
definition after it. No specification uses it; each property has one that
breaks it when put in the place of the right one, which shows that the property
depends on the code it is about.

## 3. State, actions and code

### 3.1 DownloadQueue

A step is one file operation or the code between two awaits. `job` is the
sequence of jobs made; since an id starts with its creation time, the position
stands for the id and for the order of `sorted(glob("*.json"))`. `file` says
where a job's file is (`tmp` is the dot file that the glob does not list),
`whole` which files have all of their content.

* Session side: `RefuseDownload`/`RequestDownload` (limit, then `make_job` and
  the first half of `enqueue_job`), `FillJob`, `RenameJob`, then the poll:
  `PollResult`, `PollTimeout`, or `SessionCap`, where `wait_for` cancels the
  command and nothing more is logged. `collect[r]` is the pending set of the
  background task started by typed job `r`; `CollectResult` adds the follow-ups
  a follow-up reports, `CollectDeadline` logs what is still pending as failed.
  Writing an event may raise: for a typed download that unwinds the command, as
  `SessionCap` does, and in the background it ends the task (`CollectFails`), with
  the follow-ups that nothing will be logged about put in `dropped`.
  The two job-writing steps happen without an await, so nothing else of the
  session process runs in between (`LoopFree`), but workers do.
* Worker side: `Scan` reads the listing, `ClaimJob`/`LoseClaim` go through it,
  and only when it is exhausted is the first job fetched (`Fetch`). `Publish`
  comes before the follow-ups are enqueued, as in `process_pending`.
* `WorkerCrash` stands for a kill, a reboot or an exception nobody catches: the
  claimed batch and the plan are lost. `WorkerRestart` starts over with a scan.

Abstracted: URLs, contents, why a fetch fails, and the arithmetic of the
per-session and per-host budgets; how many follow-ups a script yields is any
number up to `stage2_max_urls_per_script`. The ids in a result are those that
`make_job` gave, so the refusal of an id that is no file name
(`manager.py:335-338`), which guards against a fetcher that has been taken over,
does not occur. The write and rename of a result are
one step, since no other process reads the temporary name. That the fetch,
plan and id-making are one step is sound because nothing else sees them.

### 3.2 Quarantine

A task is one call. A payload stands for its bytes, hence for its hash and
final path. `Open`, `Chunk`, `TooLarge`, `TransferFails`, `Cancel`, `Arrived`
follow the streaming loop; `Unlink`, `Replace`, `Chmod`, `WriteSidecar`,
`SidecarDenied`, `SealSidecar` the rest, which has no await: calls of one
process are not interleaved there (`Busy`), calls of two processes are.
`Cancel` leaves the temporary file, because `CancelledError` is not an
`Exception` and the cleaning handler does not run. The contents of the sidecar,
ELF data and the list of failure texts are left out. Opening a read-only file
for writing is denied: the services run without root privileges.

### 3.3 SshListener

The fields of the server object and of the session are records; a channel is
`ready` (waiting for a line), `running` (holding the loop) or in a `fetch`.
`Finish` is the `finally` clause of `_handle_process`: a shell closes the
session, an exec channel only when it ran into `max_session_seconds`. A line is
a sequence of segments that end the same way; which segments `&&` and `||` skip
is `Shell`'s subject. Rejection of a connection aborts it before a session
exists. What asyncssh does (reading the version line, ending a connection after
an exception in a callback, cancelling the tasks of a lost connection) is
modelled from how the code uses it.

Every write to the event log may raise `OSError`, and each callback has an action
for what it then leaves undone. `ConnectionMadeFails`: the slot is taken, and
`connection_lost` is the next callback. `AuthFails`: the flag that was set before
the write stays set, so the event is never written. `ConnectionLostFails`: one of
up to three writes comes before `limiter.release` (`ssh.py:62-70`), so the slot is
kept for good; `SlotsMatchConnections` counts these connections and says that no
other way out keeps a slot. `LogFails` is the same in a channel, whose `finally`
clause may fail once more (`OnDisconnectRaises`). `lost` records the events whose
write has failed, and the properties excuse only these. `commands` counts the
lines that a channel has logged, so `NoCommandAfterClosed` is about every line and
not only the first.

### 3.4 TelnetListener

A client says a sequence of items: characters, the data byte 255, line ends,
option negotiations, subnegotiations and other commands. `Encode` gives their
bytes; the option of a negotiation has the code of a line feed, so a filter
that lost its place would end a line there. `Receive` takes a chunk of any size
and passes each byte through `ReadByte` (the filter, the line buffer, the limit
on a line) and, at a line feed, through `OnLine` (the login loop, then
commands). What a chunk holds after a line feed is dropped, as in the code, and
`pipelined` remembers that it happened. `End` is the `finally` clause.
`ConnectFails` is an exception between the limiter and the `try`, and the second
disjunct of `End` one of `on_disconnect`, which comes before the release
(`telnet.py:157`): the slot is lost for good, which `SlotsAccounted` counts and
confines to these two cases. `SessionsEnd` says that an open connection ends and
that its address then holds only the slots of its other connections, except after
an end that could not be logged. A command that raises ends the session through the same
`finally` clause, which is `Reply` with an exit. A write
that blocks on a client that does not read is a `Receive` that does not happen.
Surrounding blanks, which the login strips, are left out.

### 3.5 FakeFilesystem and Shell

Objects are numbered and a tree maps names to numbers, so that two entries can
lead to one object, as Python references can; objects that nothing leads to are
collected. `_lookup` skips a component named `root`, and so does `Lookup`.
A line is a sequence of symbols: a command with its operands, a separator, a
quote or a backslash. `SplitCommandLine` is the scanner with its quote states
and its limit on segments: what follows the last segment is dropped. `SplitAtSeparators`
compares it with a definition that has no scanner in it: the units in which a
shell reads a line (an escaped symbol, a quoted string, a symbol by itself), the
cuts at separators that are a unit, and the first stretches between cuts with
the operator before each. `Dispatch` is the command table, reduced to exit
status and effect; `SkipSegment`, `RunSegment` and `RunDownload` are the loop of
`handle_command`. A URL that `urlsplit` refuses raises `ValueError` in the command
and ends the line (`commands.py:306`); the host of a `tftp` does so only for the
reply, after the download (`manager.py:217`, `394`). What commands print is left
out.

What the model shows beside the properties: `cp` and `mv` return status 0 also
when they print an error, so an `||` arm after them never runs; `echo >` and
`touch` on a directory replace it by a file; `mv` of a directory into itself
drops it; `mv` of a source whose name is `root` leaves one object under two
names, or raises `KeyError` in the command (`MoveRaises`). `NoSharing` and
`NothingVanishes` state exactly these exceptions.

### 3.6 ScriptScan and Stage2

A script is a sequence of segments, as the splitter yields them: each has its
operator, a leading keyword (`do`, `then`, `else`, `if`, `while`), assignments, and
a command of words; a word is a literal, a variable, quoted or not, or text that
cannot be resolved. `Scan` is `_Scanner.run`: it looks through `do`, `then` and
`else`, ignores operators, applies the assignments before a command, splits the
values of a loop's list into words, and keeps the limits on URLs, loop values and
loop bodies. A URL that `urlsplit` refuses raises, and `plan_followups` then plans
nothing (`raised`).

The reference is a shell. Since it is not known which commands succeed, a script
has a set of runs (`RunScript`): `&&` and `||` look at the last status, `then` and
`else` at the condition's, an assignment before a command does not outlive it, an
unset variable is empty, and references that are not quoted are split.
`ScanExact` says of every script that is planned: what the scan reports, some run
downloads; and what any run downloads the scan reports, if it reports nothing as
skipped and met no limit. It is about scripts that a shell accepts, in which a
loop may hold an `if` and nothing else nests (`IsFlat`), and whose variables the
scan can follow (`IsTraceable`). The second condition is there because the code does
guess, although `script_scan.py:20` says "never guessed". These scripts make it
report a URL that no run fetches, or miss one:

* a name gets a value that cannot be resolved, and keeps its old one
  (`script_scan.py:161`);
* a name is assigned in a branch, or after `&&` or `||`, and counts as assigned
  whether or not that happens;
* an assignment stands before a command and is kept after it
  (`A=x wget $A` in a shell expands the old value);
* a name is assigned in the body of a loop, or is the loop's own, and is read
  after the loop: the scan has the value from before (`script_scan.py:143`);
* a value of several words is used where a shell splits it and the scan does not.

A shell accepts 412 of the instance's 488 scripts, and the scan can follow the
variables of 227 of these, in which a name may well be assigned at several
places. Of the other 185 the scan reports, in 93, a URL that no run downloads.
The condition looks at the text of a script only, so it also leaves out some in
which the guess happens to be right. For the
second half of `ScanExact` no download may be the condition of an `if`, which the
scan does not look at, and the lists of loops must be known (`IsResolved`): a loop
over a list that it cannot resolve is not counted as skipped.

`Stage2` runs tasks over one limiter. Its tables are sequences, since `_prune`
evicts in the order of a dict's insertion. `forgotten` records keys that were
evicted while they still counted; for all others the budgets hold.

### 3.7 EventLog

A directory maps names to files, and a program that has opened a file keeps it
through a rename. A line is written in one piece or, when it is longer than the
buffer, in two; a failed write or a crash leaves the first piece, and the next
event continues that line. Rotation is logrotate's sequence of system calls for
the repository's configuration: compress yesterday's log next to the original,
remove the original, shift the numbers, rename the live log, delete the oldest.
The reader lists the rotated names once, then looks at each (`StatLog`), parses
what is not in the cache (`ParseLog`), and reads the live log last. The key of
the cache is the name with the file's time and size. It is assumed that no call
of `log()` lasts from one rotation into the next, which is a day later.

A report that overlaps a rotation can miss a whole log: the one that moved to a
name already passed, or the live log of the day just ended
(`tools/dashboard.py:58-62` is about this very gap). It can hold events twice
only when it finds a log with its compressed copy. The next undisturbed report
is complete again, whatever the cache has seen. A session of an excluded address
shows again once its `session.connect` has been deleted.

## 4. Runs

| Run | Configuration | Shows |
|---|---|---|
| `queue` | `MCDownloadQueue.cfg` | with two channels on one session, two workers, three jobs and a crash anywhere: safety, and that the queue implements `JobService` |
| `queue_live` | `MCDownloadQueueLive.cfg` | with scripts that list scripts, one worker (as `docker-compose.yml` deploys it) and two crashes: every queued job is claimed, every command and every listed follow-up gets an outcome |
| `quarantine` | `MCQuarantine.cfg` | three calls in two processes, payloads at and above the cap, a crash anywhere |
| `quarantine_crash` | `MCQuarantineCrash.cfg` | violation: a crash after the rename leaves a writable capture without sidecar that later fetches report as a success |
| `quarantine_race` | `MCQuarantineRace.cfg` | violation: two workers with the same payload; the second ends in `PermissionError` |
| `ssh` | `MCSshListener.cfg` | two connections for one slot, two channels of two lines on one session, any write to the log failing |
| `ssh_exec` | `MCSshListenerExec.cfg` | violation: an exec request after one that ran into the session cap is not logged |
| `ssh_exit` | `MCSshListenerExit.cfg` | violation: an exec command after one that contained `exit` stops after its first segment |
| `telnet` | `MCTelnetListener.cfg` | two clients for one slot, messages of three lines with every kind of Telnet command, chunks of up to four bytes |
| `shell` | `MCShell.cfg` | every sequence of three lines out of some 340: chains, quotes and escapes, downloads, and `cd`, `mkdir`, `rm`, `touch`, `echo`, `cp`, `mv` on overlapping paths |
| `stage2` | `MCStage2.cfg` | three tasks of two sessions, tables that overflow, and some 500 scripts with variables, loops, branches and chains |
| `logs` | `MCEventLog.cfg` | three events, a fault anywhere, two rotations and two reports, with the cache kept or not |

The four violations are disagreements between the code and what its comments
or `SAFETY.md` say; `PROJECT.json` quotes both sides. Beside each violated
property about the quarantine stands a weaker one that does hold
(`SealedUnlessCrashed`, `RaisesOnlyInRace`), so that the extent of the
disagreement is known.

### Bounds

`MaxJobs`, `MaxCommands` and `MaxCrashes` are bounds of the models, the other
constants are settings of the program. Two workers are enough for a race for
a file, and their symmetry is sound in `queue`, where no liveness is checked.
Three jobs allow a typed job beside a script and its follow-up, and two typed
jobs of two channels with the refused third (`MaxCommands` is one above
`MaxDownloads`). `queue_live` has four jobs, so that a script can list two
downloads, one of them a script again, and two crashes, so that both processes
can die or the same worker twice; with a single worker, the restart is what
claims a job that was queued when it died. For the proved invariants the
bounds do not matter.
The payload sizes of `quarantine` are the cap and the cap plus one, in chunks
of any size. In `ssh` one slot and two connections exercise
acceptance, rejection and reuse; two channels exercise each order in which
exec and shell channels end, and two lines of each a line after the session was
closed. `MaxKeys` is 1, so that the cap on logged keys is reached by a second.

`telnet`: four bytes to a chunk are more than a negotiation and less than a
subnegotiation, so that each is cut at every place and a chunk can hold a line
end with what follows; lines of up to two characters with a limit of two reach
the limit; six lines are three failed logins. `shell`: three lines are a
preparation, a change and a look back; a quote or backslash with any three more
such or separators after it covers every order of opening, escaping and closing, and
longer lines go past the limit of three segments; `mkdir`, `rm` and `touch` have one operand
or two, the second below the first or not; 12 objects leave room for copies, and a
command without room is not taken (`HasRoom`). `stage2`: tables of one entry
(`MaxTracked`) overflow at once, the cooldown is two ticks of three, and each
limit is below what the scripts list. The scripts are every combination of a
value, a list, two commands of a body and one after the loop, and every pair out
of seven commands in a chain and in the branches of an `if`. `logs`: with one old log kept, two
rotations reach compression, the transient `.2.gz` and deletion; two reports are
what a stale cache takes. `Keep` 2 with three rotations and no faults was
checked as well (5.2 million states).

A run that says `CHECK_DEADLOCK FALSE` models something that really stops:
every call has returned, every connection is gone, every line, task or report
of the instance is over. The queue never stops: a
worker goes on scanning.

### Fairness

`queue_live`: weak fairness of a worker (its loop goes on, and docker restarts
a dead one, `restart: unless-stopped`), of the steps of a running asyncio task,
and of the deadlines, which compare a monotonic clock. Nothing says that a
command is typed, a fetch succeeds, a session is cut or a process crashes. A
crash of the honeypot itself ends the sessions, and the liveness properties
say so.

`ssh`: weak fairness of a task that holds the loop; strong fairness of the timer
of `max_session_seconds` and of the first step of an exec task, because other
channels can take and give back the loop any number of times in between, and
asyncio runs what is due in its next round all the same. This is for
`max_session_seconds` above 0; the value 0 switches the timer off. Nothing is
assumed of clients or of downloads.

`telnet`: weak fairness of the timer of `wait_for`, again for
`max_session_seconds` above 0, and nothing else.

## 5. Proofs

`DownloadQueueProofs`, for any sessions, channels, workers, limits and bounds
(assumed: the constants are numbers, and each channel has a session):

* `TypeCorrect`: the type invariant, which includes that no job lies deeper
  than `stage2_max_depth`. A follow-up copies its parent's record, so the
  inductive form also needs `Made`: whatever a file, a channel or a worker
  refers to has been made.
* `AtMostOnce`: no job is fetched twice. The invariant needed is about
  who holds a job: a job in a worker's batch has its file in `.processing` and
  has not been fetched, and no two workers hold the same job. A claim
  establishes this only because the rename finds the file still queued, and it
  survives a crash because a restart puts nothing back.
* `FilesWhole`: every visible job file is complete; needs that at most one actor
  is writing a given file, which follows from the ownership of ids in a plan.
* `ResultFirst`: a follow-up has a file only after the published result of its
  script lists it; needs that a plan in the hands of a worker past `Publish` is
  the published result of the job it belongs to.
* `Permanent`: claimed files and published results are never undone.

What is logged, and the refinement, rest on the invariant `OutcomeInv` in
addition to the one above:

* `LoggedOnce` and `LoggedTruthfully`: a download gets one final event at the
  most, a success or failure is what the worker published, and a follow-up is
  logged after the success of its script. None of this is inductive: a second
  event is impossible only because a job is waited for in one place. `PollInv`
  says that a channel waits for a typed job of its own that has not been
  logged, `CollectInv` that a background task waits for follow-ups that have
  not been logged, of scripts whose success has, and that no two tasks share
  one; `ResultInv` that a result lists only follow-ups of its own job. When a
  result is read, its follow-ups are new to every task because their parent had
  not been logged before.
* `Refinement`: every behaviour of the queue is one of `JobService`. Renaming a
  job file submits the job, the rename of a claim takes it, the rename of the
  result answers it, an event reports it or gives up on it; all other steps,
  crashes and restarts included, are stutters. The proof needs `OutcomeInv` for
  the service's condition that a report is awaited, and `ResultInv` for the one
  that a listed follow-up is new.

Its last theorem is `FanOutIsBounded`, for every value of
`max_downloads_per_session`, `stage2_max_urls_per_script` and
`stage2_max_depth`. The invariant `FanInv` says that the typed jobs of a session
are counted before they are made, that a follow-up belongs to its parent's
session one level down and its parent has been fetched, and that the follow-ups
of a job have neighbouring ids. A job is fetched with no follow-ups because it
has not been fetched before, which is `AtMostOnce` again: a worker that fetched
a job twice would break the bound. From `FanInv` the bound follows by induction
over the depth: a job is determined by its parent and its place among the
parent's follow-ups. The induction is on the least depth that breaks the bound
(`LeastNatural`), and the recursive function `FanOut` is shown to exist in the
same way (`FanOutDef`).

`QuarantineProofs`, for any processes, calls, payloads and sizes:

* `CapHolds`: no file exceeds the cap; needs that what is renamed is exactly
  what was counted.
* `Tidy`: a call that returns leaves no temporary file.
* `RaceOnly`, `Sealed` and `Final`: the three sealing properties. The invariant
  `SealInv` is about who is at work on a payload: calls of one process take
  turns in the steps that follow the download (`TakeTurns`), a sidecar is there
  only with its capture (`BinFirst`), whoever finds the capture of another call
  has a rival that stored it (`TakenByRival`), and before any crash an unsealed
  capture has a call that is going to seal it (`WillBeSealed`).

`SshListenerProofs`, for any connections, channels and addresses:

* `TypeCorrect`; the type of a channel includes how far it is in its line.
* `ClosedExactlyOnce`, `AuthLeavesTrace`, `VersionExactlyOnce`: the invariant
  `EventInv` ties each count of events to the flag the code tests (`_closed`,
  `version_reported`, the fields of the server object), or the event to `lost`, for
  every state of the connection, since only `connection_lost` makes up for what is
  missing.
* `SilentAfterClosed`: once `session.closed` is logged, no step changes the number
  of commands of any of the session's channels. It needs that a closed event
  means a closed transcript, which `record_recv` meets before the line is logged.
* `SlotsExact`: by `ConnectionLimiterProofs`, which needs no bound on the number
  of connections: a count stays the cardinality of the set of its holders, which
  are the connections not yet over and those whose `connection_lost` failed before
  the release; and such a failure is one of the three writes.

`TelnetListenerProofs`, for any clients, messages, chunks and limits:

* `LoginSound`: a client has a shell exactly when one of its first three pairs
  of lines is accepted. The invariant `Dialogue` relates the phase and the number
  of failed attempts to the lines read so far. What the
  fold over a chunk returns is kept opaque in it: whichever bytes are lost or
  joined, a line enters the dialogue in one way.
* `SlotsExact`: as for SSH, with the connections whose slot an exception lost.
* `LinesIntact`: the lines read are a prefix of those the client meant, however
  the stream is cut, unless a chunk went on after a line feed. `Decodes` goes
  through the bytes of the whole stream one at a time, without chunks.
  `StreamDecoded` shows that its lines are those of the items, whatever commands
  are among them; `ChunkRead` that `read_line` makes of a chunk what `Decodes`
  makes of the same bytes, up to the end of a line (`Tracks`). The invariant
  `Faithful` then puts every handler at a place of its stream (`Place`): the bytes
  that have arrived, the filter's state and the line begun are those of one
  position. Without the last two it would not be inductive: a chunk may end
  inside a Telnet command.

`EventLogProofs`, for any sessions, events, rotations, crashes, failed writes
and any number of old logs kept: `RotationLosesNothing`, an event whose `log()`
returned stays readable until its log is deleted, unless the event before it
failed. `LogInv` says what rotation relies on: no two names lead to one file
(`FilesInv`), the name a step moves a file to is free (`RotationInv`), a file
that is still open for a line is the live log or the one just renamed, which
the same rotation has already passed (`WriterInv`); a line without its end
belongs to the last event, or to the one before it, and that event's `log()`
has not returned (`TornInv`); and while a compressed copy grows no event is
readable in that copy only (`KeptInv`).

`ShellProofs`, for any lines, names, limits and sizes of the tree (assumed: the
names hold those of the tree a session starts with, and there are nodes for it):

* `ArmsAreRight`: a segment runs exactly when the short circuit evaluation of
  its list says so. Two facts make it inductive. The first segment of a split
  line follows no operator (`ChainInv`), which is a fact about
  `split_command_line` and holds because an operator is only kept once there is
  a segment before it. And the status is the value of the list that ends at the
  last segment run or skipped (`ValueInv`), which holds because a skipped segment
  leaves the status alone. That the recursive function `ListSucceeds` exists is
  part of `ValueInv`.
* `NothingIsShared` and `TypeCorrect`: no object has two entries and the root has
  none (`Single`), until a `mv` takes a source named `root`. The invariant
  `TreeInv` adds that no entry leads to an object that is gone (`Sound`), also
  after such a `mv`: a new object may only be taken from the free nodes because
  nothing leads to them. Every method of the tree sets one entry (`PutKeeps`),
  and what differs is why the object it puts there has no other. A new one was
  free (`NewKeeps`). A moved one loses its old entry, which is the only one, and
  the name that `_lookup` skips is exactly where `LookupPath` and the entry that
  `mv` deletes part ways (`PathIs`, `MoveNodeKeeps`). A copy has a node of its own
  for each object copied (`Copies`, by counting), and the top of the copy is held
  by nothing within it because a tree that nothing shares has no cycle
  (`NoCycle`). `Reach` is given by a recursive function; `ReachIs` shows that it
  is the least closed set.
* `NothingIsLost`: the action property `NothingVanishes`, for commands with any
  number of operands. What vanishes is a difference of two closures, so the
  argument is about entries: if every entry of what is still reached leads into a
  closed set `U` or to something still reached, then nothing outside `U` is lost
  (`Accounts`, `Lost`). One entry set accounts for all but what it held
  (`OneSetLoses`). A `mv` changes two; either the destination is not below the
  source, and the moved objects are reached through it (`MovedElsewhere`), or the
  only way in is cut and exactly they are lost (`WayIn`, `MovedIntoItself`), which
  needs that nothing is shared. For `rm a b` the second operand is looked up in
  the tree that the first one left: there every path leads where it did, or
  nowhere, or to something new (`Later`, `LaterLookup`), so that what `b` removes
  was below `b` from the start (`WithinPath`). That a fold starts from such a tree
  needs that free nodes have no entries (`Clean`), which `TreeInv` holds as well.

Folds along a line, a path or the operands are unrolled by one lemma each
(`ScanFold` to `RemoveFold`).

`Stage2Proofs`, for any tasks, sessions, scripts, limits and times (assumed: the
limits are numbers, a script is a sequence of segments, and an http URL has a
host):

* `BudgetsAreKept`: what the limiter admitted stays within the count of a
  session, the cooldown of a URL and the cap of a host over every window. The
  budgets are about all that was ever admitted and the limiter only knows its
  tables, so the invariant `LimiterOK` says that the tables account for the
  admissions: a URL admitted within the cooldown is in the table with that time
  or a later one (`SeenOK`); each recent admission at a host has an entry of its
  own among the host's times (`HostsOK`, by an injection, `Covers`), so that a
  list shorter than the cap leaves room; a session's count is not below its
  admissions (`SessionsOK`). Each conjunct excepts the keys in `forgotten`, and a
  table entry that eviction drops while it matters is put there in the same step
  (`PruneKeeps`). An entry that `_prune` or `admit` drops as expired matters to
  no window that is still open (`LaterKeeps` for the passing of time).
* `TablesAreBounded`: pruning comes first in `admit`, and what follows adds one
  entry to a table for each URL at the most (`AdmitKeeps`). The number of URLs is
  bounded by the scan: `ScanIn` shows that a scan of any sequence of segments,
  with loops and variables, yields URLs of `Http` and no more than `MaxUrls`.

Both rest on folds over sequences, as `ShellProofs` and `LinesIntact` do. A fold is the value of
a recursive function on index sets, whose existence the prover does not take for
granted: `FoldExists` shows it by least counterexample, and from it come one
lemma for each fold of the model (`KeepIs` for a comprehension, `ScriptFold` for
a script, `ReadFold` for a chunk).

Only model-checked:

* liveness: fairness and `ENABLED` are outside the prover's reach;
* `SplitAtSeparators` and `ScanExact`: each equates what a fold computes with a
  definition of another shape, so every step of the fold needs a statement about
  the whole prefix read so far, as `Tracks` is for a chunk. The first also sorts a
  set of stretches, which is defined by `CHOOSE`;
* `ReportOrdered`, `ReportComplete`: about sorted sequences of sets, which are
  defined by `CHOOSE`, and the second about `SelectSeq`. That a sorted sequence
  exists is an induction over the set; that a cached log is the one meant rests
  on `Now`, a sum over all files, being a new value at every write.

## 6. Not modelled

* The ELF decoder: tables over a fixed header, without state or steps.
* The SSRF guard: a predicate inside aiohttp's connector; a refusal is one of
  the failures of `Refuse`.
* Persona, help text and system state, and what commands print: rendering
  without lasting state.
* Log sanitising: character escaping.
* Configuration loading: its limits are the CONSTANTS, its credential policy is
  part of `TelnetListener`.
* The host key file and start-up: one read or write before anything runs.
* Of the operator tools, everything after the counts of a report: HTML, text,
  GeoIP, the replay of transcripts.
* File modes of the logs: the constructor of `EventLogger` sets 0600, and the
  first `log()` after a rotation creates the file anew, with the mode of the
  umask unless the host's logrotate defaults create it.
* The deployment scripts other than log rotation.
* The two listeners together: each has a limiter of its own, so the cap of
  `limiter.py:1` holds per listener, and an address can hold twice as many.

## 7. Plan

What is left are proofs of the properties listed last in section 5.
`SplitAtSeparators` and `ScanExact` have their folds unrolled by the lemmas of
`ShellProofs` and `Stage2Proofs`; each still needs its statement about a prefix.
`ReportOrdered` and `ReportComplete` need the existence of a sorted sequence for
every finite set.
