--------------------------- MODULE DownloadQueue ---------------------------
(***************************************************************************)
(* The "queued" download path: the session process hands every wget to an  *)
(* isolated fetcher through files in jobs_dir, and logs what comes back.   *)
(*                                                                         *)
(*   honeypot/session/manager.py   the download branch of _run_segment,    *)
(*                                 _fetch_via_queue, _start_stage2 and     *)
(*                                 _collect_stage2_queued                  *)
(*   honeypot/fetcher/queue.py     enqueue_job, claim_pending_jobs         *)
(*   honeypot/fetcher/worker.py    process_pending, run                    *)
(*   honeypot/fetcher/stage2.py    plan_followups (what it lists is input) *)
(*                                                                         *)
(* A step is what another process or another task can observe: one file    *)
(* operation, or the code between two awaits.  The session process is one  *)
(* asyncio loop, so while a channel is between creating and renaming a job *)
(* file no other task of that process runs (LoopFree), but the fetcher     *)
(* processes do.  A job id begins with its creation time; ids are numbered *)
(* in that order, which is also the order in which a claim takes them.     *)
(***************************************************************************)
EXTENDS Naturals, Sequences, FiniteSets

CONSTANTS
    Sessions,      \* attacker sessions (SessionManager objects)
    Channels,      \* tasks that run commands; SSH has several per session
    SessionOf,     \* the session a channel belongs to
    Workers,       \* fetcher worker processes
    MaxDownloads,  \* fetcher.max_downloads_per_session
    MaxDepth,      \* fetcher.stage2_max_depth
    MaxUrls,       \* fetcher.stage2_max_urls_per_script
    MaxJobs,       \* bound: job files ever made
    MaxCommands,   \* bound: download commands typed in one session
    MaxCrashes     \* bound: crashes of the honeypot or of a worker

ASSUME SessionAssumption == SessionOf \in [Channels -> Sessions]
ASSUME LimitAssumption == /\ MaxDownloads \in Nat
                          /\ MaxDepth \in Nat
                          /\ MaxUrls \in Nat
ASSUME BoundAssumption == /\ MaxJobs \in Nat
                          /\ MaxCommands \in Nat
                          /\ MaxCrashes \in Nat

VARIABLES
    job,       \* the DownloadJobs made so far; a job's id is its position
    file,      \* where a job's file is
    whole,     \* the jobs whose file has all of its content
    result,    \* the <id>.result.json files in .processing
    count,     \* SessionManager._download_count
    pc,        \* what a channel's task is doing
    cur,       \* the job a channel's task has in hand
    collect,   \* the pending list of the background task a typed job started
    outcomes,  \* the final file.download events logged for a job
    dropped,   \* the follow-ups a background task that failed left unreported
    wpc,       \* what a worker is doing
    todo,      \* the rest of the directory listing a claim goes through
    batch,     \* the jobs a worker has claimed and not yet fetched
    wcur,      \* the job a worker has in hand
    plan,      \* the FetchResult a worker has in hand, stage2_jobs included
    fetches,   \* how often a job has been fetched
    crashes    \* how many processes have crashed

sessionVars == <<count, pc, cur, collect, outcomes, dropped>>
workerVars == <<wpc, todo, batch, wcur, plan, fetches>>
vars == <<job, file, whole, result, sessionVars, workerVars, crashes>>

JobId == 1 .. MaxJobs
None == 0

Job == [session : Sessions, depth : 0 .. MaxDepth, parent : JobId \cup {None}]
Result == [status : {"none", "ok", "failed"}, jobs : SUBSET JobId]
NoResult == [status |-> "none", jobs |-> {}]
Outcome == {"success", "failed", "timeout"}

\* j is the first of S in the order of the sorted directory listing.
IsFirst(j, S) == j \in S /\ \A k \in S : j <= k

Init ==
    /\ job = << >>
    /\ file = [j \in JobId |-> "none"]
    /\ whole = {}
    /\ result = [j \in JobId |-> NoResult]
    /\ count = [s \in Sessions |-> 0]
    /\ pc = [c \in Channels |-> "shell"]
    /\ cur = [c \in Channels |-> None]
    /\ collect = [j \in JobId |-> {}]
    /\ outcomes = [j \in JobId |-> << >>]
    /\ dropped = {}
    /\ wpc = [w \in Workers |-> "sleep"]
    /\ todo = [w \in Workers |-> {}]
    /\ batch = [w \in Workers |-> {}]
    /\ wcur = [w \in Workers |-> None]
    /\ plan = [w \in Workers |-> NoResult]
    /\ fetches = [j \in JobId |-> 0]
    /\ crashes = 0

-----------------------------------------------------------------------------
(* enqueue_job: create a dot file, fill it, rename it into place.  A claim  *)
(* only lists names that end in .json, so it does not see the first two.    *)

\* Mutant: the file is opened under its final name.
CreateInPlace(j) == file' = [file EXCEPT ![j] = "queued"]

CreateTmp(j) == file' = [file EXCEPT ![j] = "tmp"]
FillTmp(j) == whole' = whole \cup {j}
RenameTmp(j) == file' = [file EXCEPT ![j] = "queued"]

-----------------------------------------------------------------------------
(* The session process.                                                     *)

LoopFree == \A c \in Channels : pc[c] \notin {"fill", "rename"}

Log(j, o) == outcomes' = [outcomes EXCEPT ![j] = Append(@, o)]

\* Mutant: the limit is off by one.
OverLimitByOne(n) == n > MaxDownloads + 1

OverLimit(n) == n > MaxDownloads

\* Mutant: any result file is taken for a capture.
AnyResultIsSuccess(j) == "success"

OutcomeOf(j) == IF result[j].status = "ok" THEN "success" ELSE "failed"

\* A wget above the per-session limit is counted, answered as a dead host and
\* never becomes a job.
RefuseDownload(c) ==
    /\ LoopFree
    /\ pc[c] = "shell"
    /\ count[SessionOf[c]] < MaxCommands
    /\ OverLimit(count[SessionOf[c]] + 1)
    /\ count' = [count EXCEPT ![SessionOf[c]] = @ + 1]
    /\ UNCHANGED <<job, file, whole, result, pc, cur, collect, outcomes,
                   dropped, workerVars, crashes>>

\* Any other wget is logged as requested, made a job, and enqueue_job begins.
RequestDownload(c) ==
    /\ LoopFree
    /\ pc[c] = "shell"
    /\ count[SessionOf[c]] < MaxCommands
    /\ ~OverLimit(count[SessionOf[c]] + 1)
    /\ Len(job) < MaxJobs
    /\ count' = [count EXCEPT ![SessionOf[c]] = @ + 1]
    /\ job' = Append(job, [session |-> SessionOf[c], depth |-> 0,
                           parent |-> None])
    /\ CreateTmp(Len(job) + 1)
    /\ cur' = [cur EXCEPT ![c] = Len(job) + 1]
    /\ pc' = [pc EXCEPT ![c] = "fill"]
    /\ UNCHANGED <<whole, result, collect, outcomes, dropped, workerVars,
                   crashes>>

FillJob(c) ==
    /\ pc[c] = "fill"
    /\ FillTmp(cur[c])
    /\ pc' = [pc EXCEPT ![c] = "rename"]
    /\ UNCHANGED <<job, file, result, count, cur, collect, outcomes, dropped,
                   workerVars, crashes>>

RenameJob(c) ==
    /\ pc[c] = "rename"
    /\ RenameTmp(cur[c])
    /\ pc' = [pc EXCEPT ![c] = "poll"]
    /\ UNCHANGED <<job, whole, result, count, cur, collect, outcomes, dropped,
                   workerVars, crashes>>

\* The poll finds the result file: the outcome is logged, and a success starts
\* the background task that waits for the follow-ups the worker reported.
PollResult(c) ==
    /\ LoopFree
    /\ pc[c] = "poll"
    /\ result[cur[c]].status # "none"
    /\ Log(cur[c], OutcomeOf(cur[c]))
    /\ collect' = [collect EXCEPT ![cur[c]] = result[cur[c]].jobs]
    /\ pc' = [pc EXCEPT ![c] = "shell"]
    /\ UNCHANGED <<job, file, whole, result, count, cur, dropped, workerVars,
                   crashes>>

\* Mutant: the poll loop has no deadline of its own.
PollForever(c) == FALSE

\* timeout_seconds + 5 have passed: a failure, whatever the worker does later.
\* The deadline is tested before the file, so the result may just have arrived.
PollTimeout(c) ==
    /\ LoopFree
    /\ pc[c] = "poll"
    /\ Log(cur[c], "timeout")
    /\ pc' = [pc EXCEPT ![c] = "shell"]
    /\ UNCHANGED <<job, file, whole, result, count, cur, collect, dropped,
                   workerVars, crashes>>

\* max_session_seconds expires while the command waits, and wait_for cancels it
\* at its sleep, or writing the final event raises: either way the coroutine is
\* unwound and nothing more is logged for the job.
SessionCap(c) ==
    /\ LoopFree
    /\ pc[c] = "poll"
    /\ pc' = [pc EXCEPT ![c] = "gone"]
    /\ UNCHANGED <<job, file, whole, result, count, cur, collect, outcomes,
                   dropped, workerVars, crashes>>

\* Mutant: a logged follow-up stays on the waiting list.
WaitingKept(S, j) == S \cup result[j].jobs

\* The waiting list after the result of j has been logged.
Waiting(S, j) == (S \ {j}) \cup result[j].jobs

\* The background task of typed job r finds the result of follow-up j, logs it
\* and goes on to wait for the follow-ups j itself reported.  (The ids are the
\* ones make_job gave them in the worker, so none is refused as invalid.)
CollectResult(r, j) ==
    /\ LoopFree
    /\ j \in collect[r]
    /\ result[j].status # "none"
    /\ Log(j, OutcomeOf(j))
    /\ collect' = [collect EXCEPT ![r] = Waiting(@, j)]
    /\ UNCHANGED <<job, file, whole, result, count, pc, cur, dropped,
                   workerVars, crashes>>

\* Mutant: the loop ends at its deadline and forgets what is pending.
CollectForget(r) ==
    /\ LoopFree
    /\ collect[r] # {}
    /\ collect' = [collect EXCEPT ![r] = {}]
    /\ UNCHANGED <<job, file, whole, result, count, pc, cur, outcomes,
                   dropped, workerVars, crashes>>

\* stage2_wait_seconds have passed: what is still pending is logged as failed.
CollectDeadline(r) ==
    /\ LoopFree
    /\ collect[r] # {}
    /\ outcomes' = [j \in JobId |-> IF j \in collect[r]
                                    THEN Append(outcomes[j], "timeout")
                                    ELSE outcomes[j]]
    /\ collect' = [collect EXCEPT ![r] = {}]
    /\ UNCHANGED <<job, file, whole, result, count, pc, cur, dropped,
                   workerVars, crashes>>

\* Writing one of its events raises (events.py, a full disk): the except clause
\* ends the task.  What it has given up on by then is logged, and nothing will
\* be about the rest of its list.
CollectFails(r) ==
    /\ LoopFree
    /\ \E given \in SUBSET collect[r] :
          /\ given # collect[r]
          /\ outcomes' = [j \in JobId |-> IF j \in given
                                          THEN Append(outcomes[j], "timeout")
                                          ELSE outcomes[j]]
          /\ dropped' = dropped \cup (collect[r] \ given)
    /\ collect' = [collect EXCEPT ![r] = {}]
    /\ UNCHANGED <<job, file, whole, result, count, pc, cur, workerVars,
                   crashes>>

\* The honeypot process dies: channels and background tasks go with it, the
\* files stay.  (A new process serves new sessions.)
HoneypotCrash ==
    /\ crashes < MaxCrashes
    /\ crashes' = crashes + 1
    /\ pc' = [c \in Channels |-> "dead"]
    /\ collect' = [j \in JobId |-> {}]
    /\ UNCHANGED <<job, file, whole, result, count, cur, outcomes, dropped,
                   workerVars>>

SessionNext ==
    \/ \E c \in Channels :
          \/ RefuseDownload(c)
          \/ RequestDownload(c)
          \/ FillJob(c)
          \/ RenameJob(c)
          \/ PollResult(c)
          \/ PollTimeout(c)
          \/ SessionCap(c)
    \/ \E r \in JobId :
          \/ \E j \in JobId : CollectResult(r, j)
          \/ CollectDeadline(r)
          \/ CollectFails(r)
    \/ HoneypotCrash

-----------------------------------------------------------------------------
(* A fetcher worker: claim every listed job, then fetch them one by one.    *)

\* sorted(jobs_dir.glob("*.json")): the listing is read once, before the loop.
Scan(w) ==
    /\ wpc[w] = "sleep"
    /\ todo' = [todo EXCEPT ![w] = {j \in JobId : file[j] = "queued"}]
    /\ wpc' = [wpc EXCEPT ![w] = "claim"]
    /\ UNCHANGED <<job, file, whole, result, sessionVars, batch, wcur, plan,
                   fetches, crashes>>

\* Mutant: a listed job is read in place, whoever else has taken it.
TakeListed(j) == TRUE

\* path.rename(dest) finds the listed file still there.
CanRename(j) == file[j] = "queued"

\* path.rename(dest) succeeds and the job is read back.
ClaimJob(w, j) ==
    /\ wpc[w] = "claim"
    /\ IsFirst(j, todo[w])
    /\ CanRename(j)
    /\ file' = [file EXCEPT ![j] = "processing"]
    /\ batch' = [batch EXCEPT ![w] = @ \cup {j}]
    /\ todo' = [todo EXCEPT ![w] = @ \ {j}]
    /\ UNCHANGED <<job, whole, result, sessionVars, wpc, wcur, plan, fetches,
                   crashes>>

\* The rename fails: another worker has taken the file since the listing.
LoseClaim(w, j) ==
    /\ wpc[w] = "claim"
    /\ IsFirst(j, todo[w])
    /\ ~CanRename(j)
    /\ todo' = [todo EXCEPT ![w] = @ \ {j}]
    /\ UNCHANGED <<job, file, whole, result, sessionVars, wpc, batch, wcur,
                   plan, fetches, crashes>>

ClaimDone(w) ==
    /\ wpc[w] = "claim"
    /\ todo[w] = {}
    /\ wpc' = [wpc EXCEPT ![w] = "pick"]
    /\ UNCHANGED <<job, file, whole, result, sessionVars, todo, batch, wcur,
                   plan, fetches, crashes>>

\* Mutants: one drops the test of result.success, one that of the depth.
PlanAfterFailure(j, status) == job[j].depth < MaxDepth
PlanAtAnyDepth(j, status) == status = "ok"

\* plan_followups lists nothing unless the fetch succeeded above the maximum
\* depth; otherwise what a script lists is the attacker's choice, up to the
\* limit per script.
MayPlan(j, status) == status = "ok" /\ job[j].depth < MaxDepth

\* fetch_and_quarantine, then plan_followups, which makes the follow-up jobs
\* (and so fixes their ids) without writing any file.
Fetch(w, j) ==
    /\ wpc[w] = "pick"
    /\ IsFirst(j, batch[w])
    /\ \E status \in {"ok", "failed"}, n \in 0 .. MaxUrls :
          /\ n > 0 => MayPlan(j, status)
          /\ Len(job) + n <= MaxJobs
          /\ job' = job \o [i \in 1 .. n |-> [session |-> job[j].session,
                                              depth |-> job[j].depth + 1,
                                              parent |-> j]]
          /\ plan' = [plan EXCEPT ![w] =
                        [status |-> status,
                         jobs |-> (Len(job) + 1) .. (Len(job) + n)]]
    /\ batch' = [batch EXCEPT ![w] = @ \ {j}]
    /\ wcur' = [wcur EXCEPT ![w] = j]
    /\ fetches' = [fetches EXCEPT ![j] = @ + 1]
    /\ wpc' = [wpc EXCEPT ![w] = "publish"]
    /\ UNCHANGED <<file, whole, result, sessionVars, todo, crashes>>

\* Mutant: stage2_jobs is left out of the payload.
PublishBare(w) ==
    /\ wpc[w] = "publish"
    /\ result' = [result EXCEPT ![wcur[w]] = [plan[w] EXCEPT !.jobs = {}]]
    /\ wpc' = [wpc EXCEPT ![w] = "create"]
    /\ UNCHANGED <<job, file, whole, sessionVars, todo, batch, wcur, plan,
                   fetches, crashes>>

\* Mutant: the temporary result file is never renamed.
PublishNever(w) ==
    /\ wpc[w] = "publish"
    /\ wpc' = [wpc EXCEPT ![w] = "create"]
    /\ UNCHANGED <<job, file, whole, result, sessionVars, todo, batch, wcur,
                   plan, fetches, crashes>>

\* The result is written under a name nobody reads and renamed.
Publish(w) ==
    /\ wpc[w] = "publish"
    /\ result' = [result EXCEPT ![wcur[w]] = plan[w]]
    /\ wpc' = [wpc EXCEPT ![w] = "create"]
    /\ UNCHANGED <<job, file, whole, sessionVars, todo, batch, wcur, plan,
                   fetches, crashes>>

\* for followup in plan.jobs: enqueue_job(...)
Unwritten(w) == {j \in plan[w].jobs : file[j] = "none"}

CreateFollowup(w, j) ==
    /\ wpc[w] = "create"
    /\ IsFirst(j, Unwritten(w))
    /\ CreateTmp(j)
    /\ wcur' = [wcur EXCEPT ![w] = j]
    /\ wpc' = [wpc EXCEPT ![w] = "fill"]
    /\ UNCHANGED <<job, whole, result, sessionVars, todo, batch, plan, fetches,
                   crashes>>

FillFollowup(w) ==
    /\ wpc[w] = "fill"
    /\ FillTmp(wcur[w])
    /\ wpc' = [wpc EXCEPT ![w] = "rename"]
    /\ UNCHANGED <<job, file, result, sessionVars, todo, batch, wcur, plan,
                   fetches, crashes>>

RenameFollowup(w) ==
    /\ wpc[w] = "rename"
    /\ RenameTmp(wcur[w])
    /\ wpc' = [wpc EXCEPT ![w] = "create"]
    /\ UNCHANGED <<job, whole, result, sessionVars, todo, batch, wcur, plan,
                   fetches, crashes>>

JobDone(w) ==
    /\ wpc[w] = "create"
    /\ Unwritten(w) = {}
    /\ wcur' = [wcur EXCEPT ![w] = None]
    /\ plan' = [plan EXCEPT ![w] = NoResult]
    /\ wpc' = [wpc EXCEPT ![w] = "pick"]
    /\ UNCHANGED <<job, file, whole, result, sessionVars, todo, batch, fetches,
                   crashes>>

PassDone(w) ==
    /\ wpc[w] = "pick"
    /\ batch[w] = {}
    /\ wpc' = [wpc EXCEPT ![w] = "sleep"]
    /\ UNCHANGED <<job, file, whole, result, sessionVars, todo, batch, wcur,
                   plan, fetches, crashes>>

\* A worker dies at any point: an exception nobody catches, a kill, a reboot.
\* Its claimed batch, its result and its plan only existed in memory.
WorkerCrash(w) ==
    /\ crashes < MaxCrashes
    /\ crashes' = crashes + 1
    /\ wpc[w] # "down"
    /\ wpc' = [wpc EXCEPT ![w] = "down"]
    /\ todo' = [todo EXCEPT ![w] = {}]
    /\ batch' = [batch EXCEPT ![w] = {}]
    /\ wcur' = [wcur EXCEPT ![w] = None]
    /\ plan' = [plan EXCEPT ![w] = NoResult]
    /\ UNCHANGED <<job, file, whole, result, sessionVars, fetches>>

\* Mutants: a restart puts unanswered jobs back; the process never returns.
RestartRequeues(w) ==
    /\ wpc[w] = "down"
    /\ wpc' = [wpc EXCEPT ![w] = "sleep"]
    /\ file' = [j \in JobId |-> IF file[j] = "processing" /\ result[j] = NoResult
                                THEN "queued" ELSE file[j]]
    /\ UNCHANGED <<job, whole, result, sessionVars, todo, batch, wcur, plan,
                   fetches, crashes>>
StayDown(w) == FALSE

\* The container restarts (docker-compose: restart unless-stopped) and begins
\* with a scan; nothing looks at what .processing still holds.
WorkerRestart(w) ==
    /\ wpc[w] = "down"
    /\ wpc' = [wpc EXCEPT ![w] = "sleep"]
    /\ UNCHANGED <<job, file, whole, result, sessionVars, todo, batch, wcur,
                   plan, fetches, crashes>>

WorkerStep(w) ==
    \/ Scan(w)
    \/ \E j \in JobId : ClaimJob(w, j) \/ LoseClaim(w, j)
    \/ ClaimDone(w)
    \/ \E j \in JobId : Fetch(w, j)
    \/ Publish(w)
    \/ \E j \in JobId : CreateFollowup(w, j)
    \/ FillFollowup(w)
    \/ RenameFollowup(w)
    \/ JobDone(w)
    \/ PassDone(w)
    \/ WorkerRestart(w)

Next ==
    \/ SessionNext
    \/ \E w \in Workers : WorkerStep(w) \/ WorkerCrash(w)

Spec == Init /\ [][Next]_vars

(***************************************************************************)
(* Fairness.  A running asyncio loop or worker goes on; a deadline read    *)
(* from the monotonic clock passes; docker restarts a dead worker.  None   *)
(* of it says that a command is typed, a fetch succeeds, a session is cut  *)
(* or a process crashes.                                                   *)
(***************************************************************************)
Fairness ==
    /\ \A c \in Channels :
          /\ WF_vars(FillJob(c) \/ RenameJob(c))
          /\ WF_vars(PollResult(c) \/ PollTimeout(c))
    /\ \A r \in JobId : WF_vars(CollectDeadline(r))
    /\ \A w \in Workers : WF_vars(WorkerStep(w))

FairSpec == Spec /\ Fairness

-----------------------------------------------------------------------------
(* Properties.                                                              *)

\* The type invariant; that no job lies deeper than stage2_max_depth is part
\* of the type of a job (stage2.py, plan_followups).
TypeOK ==
    /\ job \in Seq(Job) /\ Len(job) <= MaxJobs
    /\ file \in [JobId -> {"none", "tmp", "queued", "processing"}]
    /\ whole \subseteq JobId
    /\ result \in [JobId -> Result]
    /\ count \in [Sessions -> 0 .. MaxCommands]
    /\ pc \in [Channels -> {"shell", "fill", "rename", "poll", "gone", "dead"}]
    /\ cur \in [Channels -> JobId \cup {None}]
    /\ collect \in [JobId -> SUBSET JobId]
    /\ outcomes \in [JobId -> Seq(Outcome)]
    /\ dropped \subseteq JobId
    /\ wpc \in [Workers -> {"sleep", "claim", "pick", "publish", "create",
                            "fill", "rename", "down"}]
    /\ todo \in [Workers -> SUBSET JobId]
    /\ batch \in [Workers -> SUBSET JobId]
    /\ wcur \in [Workers -> JobId \cup {None}]
    /\ plan \in [Workers -> Result]
    /\ fetches \in [JobId -> Nat]
    /\ crashes \in 0 .. MaxCrashes

\* queue.py, claim_pending_jobs: "two fetcher instances can never
\* double-process the same job", through any crash, restart or timeout.
FetchedAtMostOnce == \A j \in JobId : fetches[j] <= 1

\* queue.py, enqueue_job: "the fetcher never observes a partially-written job
\* file": whatever a listing or a claim can see is complete.
JobFilesWhole ==
    \A j \in JobId : file[j] \in {"queued", "processing"} => j \in whole

\* worker.py, process_pending: a follow-up becomes visible in the queue only
\* after the result that lists it, so the poller that reads the result of a
\* parent knows every follow-up that anyone will ever fetch for it.
FollowupsAfterResult ==
    \A j \in 1 .. Len(job) :
       (job[j].parent # None /\ file[j] # "none")
          => /\ result[job[j].parent].status = "ok"
             /\ j \in result[job[j].parent].jobs

\* manager.py: however the poll, the deadline, the late result and the
\* background collection interleave, a download gets one final event.
OutcomeLoggedOnce == \A j \in JobId : Len(outcomes[j]) <= 1

\* manager.py: a logged success or failure is what the worker published (a
\* timeout may contradict it), and a stage-two event follows the logged
\* success of the script that listed the download.
OutcomeTruthful ==
    \A j \in 1 .. Len(job) : \A i \in 1 .. Len(outcomes[j]) :
       /\ outcomes[j][i] = "success" => result[j].status = "ok"
       /\ outcomes[j][i] = "failed" => result[j].status = "failed"
       /\ job[j].parent # None => outcomes[job[j].parent] = <<"success">>

\* The most downloads a session can cause at a depth: each level of scripts
\* multiplies them by MaxUrls.
FanOut[d \in 0 .. MaxDepth] ==
    IF d = 0 THEN MaxDownloads ELSE MaxUrls * FanOut[d - 1]

\* manager.py, stage2.py: the downloads one session can cause.  Its typed jobs
\* are limited, and each level of scripts multiplies them by at most MaxUrls,
\* however many channels of the session issue them at once.
FanOutBounded ==
    \A s \in Sessions :
       \A d \in 0 .. MaxDepth :
          Cardinality({j \in 1 .. Len(job) : job[j].session = s /\ job[j].depth = d})
             <= FanOut[d]

\* queue.py: "a crash mid-fetch leaves the job file sitting in .processing":
\* no step takes a claimed file away, and a published result stays as it is,
\* so what a session has reported is what the directory still shows.
ClaimsArePermanent ==
    [][\A j \in JobId :
          /\ file[j] = "processing" => file'[j] = "processing"
          /\ result[j] # NoResult => result'[j] = result[j]]_vars

\* The queue implements the abstract job service.
JobState(j) ==
    IF result[j] # NoResult THEN "answered"
    ELSE IF file[j] = "processing" THEN "taken"
    ELSE IF file[j] = "queued" THEN "submitted" ELSE "idle"

JobFrom(j) == IF JobState(j) = "idle" THEN None ELSE job[j].parent

Service == INSTANCE JobService
    WITH Jobs <- JobId, None <- None,
         state <- [j \in JobId |-> JobState(j)],
         from <- [j \in JobId |-> JobFrom(j)],
         answer <- result,
         told <- outcomes

ImplementsJobService == Service!Spec

\* worker.py, run: a job in the queue is claimed, whichever worker crashes.
QueuedIsClaimed ==
    \A j \in JobId : file[j] = "queued" ~> file[j] = "processing"

\* A worker has j in its hands: claimed, and its result not yet published.
Holds(w, j) == j \in batch[w] \/ (wpc[w] = "publish" /\ wcur[w] = j)

\* worker.py, process_pending: whoever claims a job has it in its hands, lets go
\* of it only by publishing its result or by crashing itself, and does let go.
\* So a claimed job is answered unless the very worker that holds it crashes,
\* whatever else crashes before or after.
ClaimedIsAnswered ==
    /\ [][\A j \in JobId :
             /\ (file[j] # "processing" /\ file'[j] = "processing")
                   => \E w \in Workers : Holds(w, j)'
             /\ \A w \in Workers :
                   (Holds(w, j) /\ ~Holds(w, j)')
                      => \/ result'[j] # NoResult
                         \/ wpc[w] # "down" /\ wpc'[w] = "down"]_vars
    /\ \A w \in Workers, j \in JobId : Holds(w, j) ~> ~Holds(w, j)

\* manager.py, _fetch_via_queue: an attacker's wget always comes back with a
\* logged outcome, even when the fetcher is dead or the job was lost, unless
\* the session or the process ends first.
DownloadAnswered ==
    \A c \in Channels, j \in JobId :
       (pc[c] = "fill" /\ cur[c] = j)
          ~> (outcomes[j] # << >> \/ pc[c] \in {"gone", "dead"})

\* manager.py, _collect_stage2_queued: once a script's success is logged, each
\* download it listed gets an event too, even one the worker crashed before
\* enqueueing, unless the honeypot process dies or the log fails under the task
\* that waits for it.
FollowupsReported ==
    \A p, j \in JobId :
       (outcomes[p] = <<"success">> /\ j \in result[p].jobs)
          ~> \/ outcomes[j] # << >> \/ j \in dropped
             \/ \E c \in Channels : pc[c] = "dead"

=============================================================================
