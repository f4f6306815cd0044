------------------------ MODULE DownloadQueueProofs ------------------------
(***************************************************************************)
(* Proofs about the download queue, for any number of sessions, channels   *)
(* and workers and any value of the limits and bounds: first the files and *)
(* the workers, then the session process, what it logs of its downloads,   *)
(* that the queue implements the abstract job service, and that one        *)
(* session can cause only so many downloads.                               *)
(***************************************************************************)
EXTENDS DownloadQueue, SequenceTheorems, FiniteSetTheorems, WellFoundedInduction, TLAPS

-----------------------------------------------------------------------------
(* Type correctness.  The type of a new follow-up's record depends on its   *)
(* parent's, so the invariant also says that whatever a file, a channel or  *)
(* a worker refers to is a job that has been made.                          *)

MadeIds == 1 .. Len(job)

Enqueuing(c) == pc[c] \in {"fill", "rename"}
HasPlan(w) == wpc[w] \in {"publish", "create", "fill", "rename"}

Made ==
    /\ \A j \in JobId : file[j] # "none" => j \in MadeIds
    /\ \A c \in Channels : Enqueuing(c) => cur[c] \in MadeIds
    /\ \A w \in Workers : /\ batch[w] \subseteq MadeIds
                          /\ plan[w].jobs \subseteq MadeIds
                          /\ HasPlan(w) => wcur[w] \in MadeIds

TypeInv == TypeOK /\ Made

\* A function on 1 .. n is a sequence of length n.
LEMMA FunctionIsSeq ==
    ASSUME NEW S, NEW n \in Nat, NEW f \in [1 .. n -> S]
    PROVE  f \in Seq(S) /\ Len(f) = n
  <1>1. f \in Seq(S)
    BY SeqDef
  <1>2. Len(f) \in Nat /\ DOMAIN f = 1 .. Len(f)
    BY <1>1, LenProperties
  <1>3. 1 .. Len(f) = 1 .. n
    BY <1>2
  <1> QED
    BY <1>1, <1>2, <1>3

\* Adding one typed job (manager.py, make_job in _run_segment).
LEMMA AppendJob ==
    ASSUME TypeOK, Len(job) < MaxJobs, NEW c \in Channels,
           job' = Append(job, [session |-> SessionOf[c], depth |-> 0, parent |-> None])
    PROVE  /\ job' \in Seq(Job)
           /\ Len(job') = Len(job) + 1
           /\ Len(job') <= MaxJobs
           /\ \A i \in MadeIds : job'[i] = job[i]
           /\ job'[Len(job) + 1].parent = None
           /\ job'[Len(job) + 1].depth = 0
           /\ job'[Len(job) + 1].session = SessionOf[c]
  <1> DEFINE r == [session |-> SessionOf[c], depth |-> 0, parent |-> None]
  <1>1. r \in Job
    BY SessionAssumption, LimitAssumption DEF Job, None
  <1>2. job \in Seq(Job) /\ Len(job) \in Nat
    BY LenProperties DEF TypeOK
  <1>3. /\ Append(job, r) \in Seq(Job)
        /\ Len(Append(job, r)) = Len(job) + 1
        /\ \A i \in 1 .. Len(job) : Append(job, r)[i] = job[i]
        /\ Append(job, r)[Len(job) + 1] = r
    BY <1>1, <1>2, AppendProperties
  <1> QED
    BY <1>2, <1>3, BoundAssumption DEF MadeIds

\* Adding the follow-ups of job j (stage2.py, plan_followups).
LEMMA AppendFollowups ==
    ASSUME TypeOK, NEW j \in MadeIds, NEW n \in Nat, Len(job) + n <= MaxJobs,
           n > 0 => job[j].depth < MaxDepth,
           job' = job \o [i \in 1 .. n |-> [session |-> job[j].session,
                                            depth |-> job[j].depth + 1,
                                            parent |-> j]]
    PROVE  /\ job' \in Seq(Job)
           /\ Len(job') = Len(job) + n
           /\ Len(job') <= MaxJobs
           /\ \A i \in MadeIds : job'[i] = job[i]
           /\ \A i \in (Len(job) + 1) .. (Len(job) + n) :
                 /\ job'[i].parent = j
                 /\ job'[i].depth = job[j].depth + 1
                 /\ job'[i].session = job[j].session
  <1> DEFINE r == [session |-> job[j].session, depth |-> job[j].depth + 1, parent |-> j]
             kids == [i \in 1 .. n |-> r]
  <1>1. job \in Seq(Job) /\ Len(job) \in Nat /\ job[j] \in Job /\ j \in JobId
    BY LenProperties, ElementOfSeq, BoundAssumption DEF TypeOK, MadeIds, JobId
  <1>2. n > 0 => r \in Job
    BY <1>1, LimitAssumption DEF Job
  <1>3. kids \in [1 .. n -> Job]
    BY <1>2
  <1>4. job' = job \o kids
    OBVIOUS
  <1>5. \A i \in 1 .. n : kids[i] = r
    OBVIOUS
  <1> HIDE DEF kids
  <1>6. kids \in Seq(Job) /\ Len(kids) = n
    BY <1>3, FunctionIsSeq
  <1>7. /\ job \o kids \in Seq(Job)
        /\ Len(job \o kids) = Len(job) + Len(kids)
        /\ \A i \in 1 .. Len(job) + Len(kids) : (job \o kids)[i] =
               IF i <= Len(job) THEN job[i] ELSE kids[i - Len(job)]
    BY <1>1, <1>6, ConcatProperties
  <1>8. \A i \in MadeIds : job'[i] = job[i]
    BY <1>1, <1>4, <1>6, <1>7 DEF MadeIds
  <1>9. \A i \in (Len(job) + 1) .. (Len(job) + n) : job'[i] = r
    <2> SUFFICES ASSUME NEW i \in (Len(job) + 1) .. (Len(job) + n)
                 PROVE  job'[i] = r
      OBVIOUS
    <2>1. i - Len(job) \in 1 .. n /\ i \in 1 .. Len(job) + n /\ ~(i <= Len(job))
      BY <1>1
    <2>2. job'[i] = kids[i - Len(job)]
      BY <1>4, <1>6, <1>7, <2>1
    <2> QED
      BY <1>5, <2>1, <2>2
  <1>10. r.parent = j /\ r.depth = job[j].depth + 1 /\ r.session = job[j].session
    OBVIOUS
  <1> HIDE DEF r
  <1>11. \A i \in (Len(job) + 1) .. (Len(job) + n) :
            /\ job'[i].parent = j
            /\ job'[i].depth = job[j].depth + 1
            /\ job'[i].session = job[j].session
    BY <1>9, <1>10
  <1> QED
    BY <1>4, <1>6, <1>7, <1>8, <1>11

\* Job ids stay within the bound.
LEMMA MadeIdsAreIds == TypeOK => MadeIds \subseteq JobId /\ Len(job) \in Nat
  BY LenProperties, BoundAssumption DEF TypeOK, MadeIds, JobId

\* Logging an event for a job (manager.py, events.file_download).
LEMMA LogType ==
    ASSUME TypeOK, NEW j, NEW o \in Outcome, Log(j, o)
    PROVE  outcomes' \in [JobId -> Seq(Outcome)]
  <1>1. \A k \in JobId : Append(outcomes[k], o) \in Seq(Outcome)
    BY AppendProperties DEF TypeOK
  <1> QED
    BY <1>1 DEF TypeOK, Log

\* The empty queue is well typed.
LEMMA TypeInit == Init => TypeInv
  <1> SUFFICES ASSUME Init PROVE TypeInv
    OBVIOUS
  <1>1. Len(job) = 0 /\ job \in Seq(Job)
    BY EmptySeq DEF Init
  <1>2. TypeOK
    BY <1>1, BoundAssumption DEF Init, TypeOK, Result, NoResult
  <1>3. Made
    BY <1>1 DEF Init, Made, Enqueuing, HasPlan, NoResult
  <1> QED
    BY <1>2, <1>3 DEF TypeInv

\* Every step of the session process (manager.py) keeps the types.
LEMMA TypeSession == TypeInv /\ SessionNext => TypeInv'
  <1> SUFFICES ASSUME TypeInv, SessionNext PROVE TypeInv'
    OBVIOUS
  <1> USE DEF TypeInv
  <1>0. Len(job) \in Nat /\ MadeIds \subseteq JobId
    BY MadeIdsAreIds
  <1>1. ASSUME NEW c \in Channels, RefuseDownload(c) PROVE TypeInv'
    BY <1>1, SessionAssumption, BoundAssumption
       DEF RefuseDownload, TypeOK, Made, MadeIds, Enqueuing, HasPlan, workerVars
  <1>2. ASSUME NEW c \in Channels, RequestDownload(c) PROVE TypeInv'
    <2>1. /\ job' \in Seq(Job)
          /\ Len(job') = Len(job) + 1
          /\ Len(job') <= MaxJobs
      BY <1>2, AppendJob DEF RequestDownload
    <2>2. Len(job) + 1 \in JobId
      BY <1>0, <1>2, BoundAssumption DEF RequestDownload, JobId
    <2>3. TypeOK'
      <3>1. count' \in [Sessions -> 0 .. MaxCommands]
        <4>1. SessionOf[c] \in Sessions /\ count \in [Sessions -> 0 .. MaxCommands]
          BY SessionAssumption DEF TypeOK
        <4>2. /\ count[SessionOf[c]] < MaxCommands
              /\ count' = [count EXCEPT ![SessionOf[c]] = count[SessionOf[c]] + 1]
          BY <1>2 DEF RequestDownload
        <4>3. count[SessionOf[c]] + 1 \in 0 .. MaxCommands
          BY <4>1, <4>2, BoundAssumption
        <4> QED
          BY <4>1, <4>2, <4>3
      <3>2. file' \in [JobId -> {"none", "tmp", "queued", "processing"}]
        BY <1>2, <2>2 DEF RequestDownload, CreateTmp, TypeOK
      <3>3. cur' \in [Channels -> JobId \cup {None}]
        BY <1>2, <2>2 DEF RequestDownload, TypeOK
      <3> QED
        BY <1>2, <2>1, <3>1, <3>2, <3>3 DEF RequestDownload, TypeOK, workerVars
    <2>4. MadeIds \subseteq MadeIds' /\ Len(job) + 1 \in MadeIds'
      BY <1>0, <2>1 DEF MadeIds
    <2>5. Made'
      BY <1>2, <2>2, <2>4
         DEF RequestDownload, CreateTmp, TypeOK, Made, Enqueuing, HasPlan, workerVars
    <2> QED
      BY <2>3, <2>5
  <1>3. ASSUME NEW c \in Channels, FillJob(c) PROVE TypeInv'
    <2>1. cur[c] \in JobId
      BY <1>0, <1>3 DEF FillJob, Made, Enqueuing
    <2> QED
      BY <1>3, <2>1
         DEF FillJob, FillTmp, TypeOK, Made, MadeIds, Enqueuing, HasPlan, workerVars
  <1>4. ASSUME NEW c \in Channels, RenameJob(c) PROVE TypeInv'
    BY <1>4 DEF RenameJob, RenameTmp, TypeOK, Made, MadeIds, Enqueuing, HasPlan, workerVars
  <1>5. ASSUME NEW c \in Channels, PollResult(c) PROVE TypeInv'
    <2>1. outcomes' \in [JobId -> Seq(Outcome)]
      BY <1>5, LogType DEF PollResult, OutcomeOf, Outcome
    <2>2. collect' \in [JobId -> SUBSET JobId]
      <3>1. \A i \in JobId : result[i].jobs \subseteq JobId
        BY DEF TypeOK, Result
      <3>2. collect' = [collect EXCEPT ![cur[c]] = result[cur[c]].jobs]
        BY <1>5 DEF PollResult
      <3> QED
        BY <3>1, <3>2 DEF TypeOK
    <2> QED
      BY <1>5, <2>1, <2>2
         DEF PollResult, TypeOK, Made, MadeIds, Enqueuing, HasPlan, workerVars
  <1>6. ASSUME NEW c \in Channels, PollTimeout(c) PROVE TypeInv'
    <2>1. outcomes' \in [JobId -> Seq(Outcome)]
      BY <1>6, LogType DEF PollTimeout, Outcome
    <2> QED
      BY <1>6, <2>1
         DEF PollTimeout, TypeOK, Made, MadeIds, Enqueuing, HasPlan, workerVars
  <1>7. ASSUME NEW c \in Channels, SessionCap(c) PROVE TypeInv'
    BY <1>7 DEF SessionCap, TypeOK, Made, MadeIds, Enqueuing, HasPlan, workerVars
  <1>8. ASSUME NEW r \in JobId, NEW j \in JobId, CollectResult(r, j) PROVE TypeInv'
    <2>1. outcomes' \in [JobId -> Seq(Outcome)]
      BY <1>8, LogType DEF CollectResult, OutcomeOf, Outcome
    <2>2. collect' \in [JobId -> SUBSET JobId]
      <3>1. result[j].jobs \subseteq JobId /\ collect[r] \subseteq JobId
        BY DEF TypeOK, Result
      <3>2. collect' = [collect EXCEPT ![r] = (collect[r] \ {j}) \cup result[j].jobs]
        BY <1>8 DEF CollectResult, Waiting
      <3> QED
        BY <3>1, <3>2 DEF TypeOK
    <2> QED
      BY <1>8, <2>1, <2>2
         DEF CollectResult, TypeOK, Made, MadeIds, Enqueuing, HasPlan, workerVars
  <1>9. ASSUME NEW r \in JobId, CollectDeadline(r) PROVE TypeInv'
    <2>1. \A k \in JobId : Append(outcomes[k], "timeout") \in Seq(Outcome)
      BY AppendProperties DEF TypeOK, Outcome
    <2>2. outcomes' \in [JobId -> Seq(Outcome)]
      BY <1>9, <2>1 DEF CollectDeadline, TypeOK
    <2> QED
      BY <1>9, <2>2
         DEF CollectDeadline, TypeOK, Made, MadeIds, Enqueuing, HasPlan, workerVars
  <1>10. ASSUME HoneypotCrash PROVE TypeInv'
    BY <1>10, BoundAssumption
       DEF HoneypotCrash, TypeOK, Made, MadeIds, Enqueuing, HasPlan, workerVars
  <1>11. ASSUME NEW r \in JobId, CollectFails(r) PROVE TypeInv'
    <2>1. PICK given \in SUBSET collect[r] :
             /\ outcomes' = [j \in JobId |-> IF j \in given
                                             THEN Append(outcomes[j], "timeout")
                                             ELSE outcomes[j]]
             /\ dropped' = dropped \cup (collect[r] \ given)
      BY <1>11 DEF CollectFails
    <2>2. \A k \in JobId : Append(outcomes[k], "timeout") \in Seq(Outcome)
      BY AppendProperties DEF TypeOK, Outcome
    <2>3. outcomes' \in [JobId -> Seq(Outcome)]
      BY <2>1, <2>2 DEF TypeOK
    <2>4. dropped' \subseteq JobId
      BY <2>1 DEF TypeOK
    <2> QED
      BY <1>11, <2>3, <2>4
         DEF CollectFails, TypeOK, Made, MadeIds, Enqueuing, HasPlan, workerVars
  <1> QED
    BY <1>1, <1>2, <1>3, <1>4, <1>5, <1>6, <1>7, <1>8, <1>9, <1>10, <1>11 DEF SessionNext

\* Every step and every crash of a worker (worker.py, queue.py) keeps the types.
LEMMA TypeWorker ==
    ASSUME TypeInv, NEW w \in Workers, WorkerStep(w) \/ WorkerCrash(w)
    PROVE  TypeInv'
  <1> USE DEF TypeInv, sessionVars
  <1>0. Len(job) \in Nat /\ MadeIds \subseteq JobId
    BY MadeIdsAreIds
  <1>1. CASE Scan(w)
    BY <1>1 DEF Scan, TypeOK, Made, MadeIds, Enqueuing, HasPlan
  <1>2. ASSUME NEW j \in JobId, ClaimJob(w, j) PROVE TypeInv'
    <2>1. TypeOK'
      BY <1>2 DEF ClaimJob, TypeOK
    <2>2. Made'
      BY <1>2 DEF ClaimJob, CanRename, TypeOK, Made, MadeIds, Enqueuing, HasPlan
    <2> QED
      BY <2>1, <2>2
  <1>3. ASSUME NEW j \in JobId, LoseClaim(w, j) PROVE TypeInv'
    BY <1>3 DEF LoseClaim, TypeOK, Made, MadeIds, Enqueuing, HasPlan
  <1>4. CASE ClaimDone(w)
    BY <1>4 DEF ClaimDone, TypeOK, Made, MadeIds, Enqueuing, HasPlan
  <1>5. ASSUME NEW j \in JobId, Fetch(w, j) PROVE TypeInv'
    <2>1. j \in MadeIds
      BY <1>5 DEF Fetch, IsFirst, Made
    <2>2. PICK status \in {"ok", "failed"}, n \in 0 .. MaxUrls :
             /\ n > 0 => MayPlan(j, status)
             /\ Len(job) + n <= MaxJobs
             /\ job' = job \o [i \in 1 .. n |-> [session |-> job[j].session,
                                                 depth |-> job[j].depth + 1,
                                                 parent |-> j]]
             /\ plan' = [plan EXCEPT ![w] =
                           [status |-> status,
                            jobs |-> (Len(job) + 1) .. (Len(job) + n)]]
      BY <1>5 DEF Fetch
    <2>3. n \in Nat
      BY LimitAssumption
    <2>4. /\ job' \in Seq(Job)
          /\ Len(job') = Len(job) + n
          /\ Len(job') <= MaxJobs
      BY <2>1, <2>2, <2>3, AppendFollowups DEF MayPlan
    <2>5. (Len(job) + 1) .. (Len(job) + n) \subseteq JobId
      BY <1>0, <2>2, <2>3, BoundAssumption DEF JobId
    <2>6. TypeOK'
      <3>1. plan' \in [Workers -> Result]
        BY <2>2, <2>5 DEF TypeOK, Result
      <3>2. batch' \in [Workers -> SUBSET JobId]
        BY <1>5 DEF Fetch, TypeOK
      <3>3. fetches' \in [JobId -> Nat]
        BY <1>5 DEF Fetch, TypeOK
      <3> QED
        BY <1>5, <2>4, <3>1, <3>2, <3>3 DEF Fetch, TypeOK
    <2>7. /\ MadeIds \subseteq MadeIds'
          /\ (Len(job) + 1) .. (Len(job) + n) \subseteq MadeIds'
      BY <1>0, <2>3, <2>4 DEF MadeIds
    <2>8. Made'
      BY <1>5, <2>1, <2>2, <2>7 DEF Fetch, TypeOK, Made, Enqueuing, HasPlan
    <2> QED
      BY <2>6, <2>8
  <1>6. CASE Publish(w)
    BY <1>6 DEF Publish, TypeOK, Made, MadeIds, Enqueuing, HasPlan
  <1>7. ASSUME NEW j \in JobId, CreateFollowup(w, j) PROVE TypeInv'
    BY <1>7 DEF CreateFollowup, CreateTmp, IsFirst, Unwritten, TypeOK, Made, MadeIds,
                Enqueuing, HasPlan
  <1>8. CASE FillFollowup(w)
    <2>1. wcur[w] \in JobId
      BY <1>0, <1>8 DEF FillFollowup, Made, HasPlan
    <2> QED
      BY <1>8, <2>1 DEF FillFollowup, FillTmp, TypeOK, Made, MadeIds, Enqueuing, HasPlan
  <1>9. CASE RenameFollowup(w)
    BY <1>9 DEF RenameFollowup, RenameTmp, TypeOK, Made, MadeIds, Enqueuing, HasPlan
  <1>10. CASE JobDone(w)
    BY <1>10 DEF JobDone, TypeOK, Made, MadeIds, Enqueuing, HasPlan, NoResult, Result
  <1>11. CASE PassDone(w)
    BY <1>11 DEF PassDone, TypeOK, Made, MadeIds, Enqueuing, HasPlan
  <1>12. CASE WorkerRestart(w)
    BY <1>12 DEF WorkerRestart, TypeOK, Made, MadeIds, Enqueuing, HasPlan
  <1>13. CASE WorkerCrash(w)
    BY <1>13, BoundAssumption
       DEF WorkerCrash, TypeOK, Made, MadeIds, Enqueuing, HasPlan, NoResult, Result
  <1> QED
    BY <1>1, <1>2, <1>3, <1>4, <1>5, <1>6, <1>7, <1>8, <1>9, <1>10, <1>11, <1>12, <1>13
       DEF WorkerStep

\* Type correctness of the download queue: no interleaving of sessions, workers
\* and crashes takes the state out of its types; in particular no job is made
\* below the maximal depth of plan_followups.
THEOREM TypeCorrect == Spec => []TypeOK
  <1>1. TypeInv /\ UNCHANGED vars => TypeInv'
    BY DEF TypeInv, TypeOK, Made, MadeIds, Enqueuing, HasPlan, vars, sessionVars,
           workerVars
  <1>2. TypeInv /\ [Next]_vars => TypeInv'
    BY <1>1, TypeSession, TypeWorker DEF Next
  <1>3. TypeInv => TypeOK
    BY DEF TypeInv
  <1> QED
    BY <1>2, <1>3, TypeInit, PTL DEF Spec

-----------------------------------------------------------------------------
(* The safety invariants.  None of them is inductive alone: that a job is   *)
(* fetched once rests on a claimed file never leaving .processing, that on  *)
(* whoever renames a file being the only one to hold its temporary name,    *)
(* and that on typed jobs and the plans of different workers being          *)
(* different jobs.                                                          *)

\* A fetched job's file is in .processing; a batch holds claimed and unfetched
\* jobs; two workers never hold the same one.
ClaimInv ==
    /\ \A j \in JobId : fetches[j] # 0 => fetches[j] = 1 /\ file[j] = "processing"
    /\ \A w \in Workers : \A j \in batch[w] : file[j] = "processing" /\ fetches[j] = 0
    /\ \A w, v \in Workers : w # v => \A j \in batch[w] : j \notin batch[v]

\* Whoever is inside enqueue_job owns the temporary file it renames, and has
\* filled it before.
ChannelWriteInv ==
    /\ \A c \in Channels : Enqueuing(c) => /\ file[cur[c]] = "tmp"
                                           /\ job[cur[c]].parent = None
    /\ \A c \in Channels : pc[c] = "rename" => cur[c] \in whole
    /\ \A c, d \in Channels : c # d /\ Enqueuing(c) => ~Enqueuing(d)

WorkerWriteInv ==
    /\ \A w \in Workers : wpc[w] \in {"fill", "rename"} =>
          file[wcur[w]] = "tmp" /\ wcur[w] \in plan[w].jobs
    /\ \A w \in Workers : wpc[w] = "rename" => wcur[w] \in whole

\* A plan lists follow-ups, only after a success, and no other worker's.
PlanInv ==
    /\ \A w \in Workers : ~HasPlan(w) => plan[w] = NoResult
    /\ \A w \in Workers : plan[w].jobs # {} => plan[w].status = "ok"
    /\ \A w \in Workers : \A k \in plan[w].jobs :
          job[k].parent # None /\ job[k].parent \in JobId
    /\ \A w, v \in Workers : w # v => \A k \in plan[w].jobs : k \notin plan[v].jobs

\* A worker publishes the first result of a job, before any of its follow-ups
\* has a file; afterwards the published result is the plan it works through.
PublishInv ==
    /\ \A j \in JobId : fetches[j] = 0 => result[j] = NoResult
    /\ \A w \in Workers : wpc[w] = "publish" =>
          /\ fetches[wcur[w]] = 1
          /\ result[wcur[w]] = NoResult
          /\ plan[w] # NoResult
          /\ \A k \in plan[w].jobs : job[k].parent = wcur[w] /\ file[k] = "none"
    /\ \A w \in Workers : wpc[w] \in {"create", "fill", "rename"} =>
          \A k \in plan[w].jobs : result[job[k].parent] = plan[w]
    /\ \A w, v \in Workers :
          w # v /\ wpc[w] = "publish" /\ wpc[v] = "publish" => wcur[w] # wcur[v]

Inv ==
    /\ ClaimInv
    /\ ChannelWriteInv
    /\ WorkerWriteInv
    /\ PlanInv
    /\ PublishInv
    /\ JobFilesWhole
    /\ FollowupsAfterResult

\* The empty queue satisfies Inv.
LEMMA InvInit == Init => Inv
  <1> SUFFICES ASSUME Init PROVE Inv
    OBVIOUS
  <1>1. Len(job) = 0
    BY EmptySeq DEF Init
  <1> QED
    BY <1>1 DEF Init, Inv, ClaimInv, ChannelWriteInv, WorkerWriteInv, PlanInv, PublishInv,
                JobFilesWhole, FollowupsAfterResult, Enqueuing, HasPlan, NoResult

\* A step that leaves the files, the jobs and the workers alone and lets no
\* channel into enqueue_job keeps Inv.
LEMMA InvFrame ==
    ASSUME Inv, UNCHANGED <<job, file, whole, result, cur, workerVars>>,
           \A c \in Channels : pc'[c] = pc[c] \/ pc'[c] \notin {"fill", "rename"}
    PROVE  Inv'
  BY DEF Inv, ClaimInv, ChannelWriteInv, WorkerWriteInv, PlanInv, PublishInv,
         JobFilesWhole, FollowupsAfterResult, Enqueuing, HasPlan, workerVars

\* Every step of the session process (manager.py) keeps Inv.
LEMMA InvSession == TypeInv /\ Inv /\ SessionNext => Inv'
  <1> SUFFICES ASSUME TypeInv, Inv, SessionNext PROVE Inv'
    OBVIOUS
  <1> USE DEF TypeInv
  <1>0. Len(job) \in Nat /\ MadeIds \subseteq JobId
    BY MadeIdsAreIds
  <1>1. ASSUME NEW c \in Channels, RefuseDownload(c) PROVE Inv'
    BY <1>1, InvFrame DEF RefuseDownload
  <1>2. ASSUME NEW c \in Channels, RequestDownload(c) PROVE Inv'
    <2> DEFINE n == Len(job) + 1
    <2>1. /\ Len(job') = n
          /\ \A i \in MadeIds : job'[i] = job[i]
          /\ job'[n].parent = None
      BY <1>2, AppendJob DEF RequestDownload
    <2>2. n \in JobId /\ n \notin MadeIds
      BY <1>0, <1>2, BoundAssumption DEF RequestDownload, JobId, MadeIds
    <2>3. file[n] = "none"
      BY <2>2 DEF Made
    <2>4. /\ file' = [file EXCEPT ![n] = "tmp"]
          /\ pc' = [pc EXCEPT ![c] = "fill"]
          /\ cur' = [cur EXCEPT ![c] = n]
          /\ UNCHANGED <<whole, result, workerVars>>
          /\ \A d \in Channels : ~Enqueuing(d)
      BY <1>2 DEF RequestDownload, CreateTmp, LoopFree, Enqueuing
    <2> HIDE DEF n
    <2>5. ClaimInv'
      BY <2>2, <2>3, <2>4 DEF Inv, ClaimInv, TypeOK, workerVars
    <2>6. ChannelWriteInv'
      BY <2>1, <2>2, <2>4 DEF Inv, ChannelWriteInv, Enqueuing, TypeOK
    <2>7. WorkerWriteInv'
      BY <2>2, <2>3, <2>4 DEF Inv, WorkerWriteInv, TypeOK, workerVars
    <2>8. PlanInv'
      BY <2>1, <2>4 DEF Inv, PlanInv, HasPlan, Made, workerVars
    <2>9. PublishInv'
      <3>1. \A w \in Workers : \A k \in plan[w].jobs :
               job'[k] = job[k] /\ (file[k] = "none" => file'[k] = "none")
        BY <1>0, <2>1, <2>2, <2>4 DEF Made, TypeOK
      <3> QED
        BY <2>4, <3>1 DEF Inv, PublishInv, workerVars
    <2>10. JobFilesWhole'
      BY <2>2, <2>4 DEF Inv, JobFilesWhole, TypeOK
    <2>11. FollowupsAfterResult'
      <3> SUFFICES ASSUME NEW j \in 1 .. Len(job'), job'[j].parent # None, file'[j] # "none"
                   PROVE  /\ result'[job'[j].parent].status = "ok"
                          /\ j \in result'[job'[j].parent].jobs
        BY DEF FollowupsAfterResult
      <3>1. j # n
        BY <2>1
      <3>2. j \in MadeIds
        BY <1>0, <2>1, <3>1 DEF MadeIds, n
      <3> QED
        BY <1>0, <2>1, <2>2, <2>4, <3>1, <3>2 DEF Inv, FollowupsAfterResult, MadeIds, TypeOK
    <2> QED
      BY <2>5, <2>6, <2>7, <2>8, <2>9, <2>10, <2>11 DEF Inv
  <1>3. ASSUME NEW c \in Channels, FillJob(c) PROVE Inv'
    BY <1>3 DEF FillJob, FillTmp, TypeOK, Inv, ClaimInv, ChannelWriteInv, WorkerWriteInv,
                PlanInv, PublishInv, JobFilesWhole, FollowupsAfterResult, Enqueuing, HasPlan,
                workerVars
  <1>4. ASSUME NEW c \in Channels, RenameJob(c) PROVE Inv'
    <2>1. /\ cur[c] \in JobId
          /\ cur[c] \in whole
          /\ file[cur[c]] = "tmp"
          /\ job[cur[c]].parent = None
      BY <1>0, <1>4 DEF RenameJob, Made, Enqueuing, Inv, ChannelWriteInv
    <2>2. \A w \in Workers : cur[c] \notin plan[w].jobs
      BY <2>1 DEF Inv, PlanInv
    <2>3. /\ file' = [file EXCEPT ![cur[c]] = "queued"]
          /\ pc' = [pc EXCEPT ![c] = "poll"]
          /\ UNCHANGED <<job, whole, result, cur, workerVars>>
      BY <1>4 DEF RenameJob, RenameTmp
    <2>4. ClaimInv'
      BY <2>1, <2>3 DEF Inv, ClaimInv, TypeOK, workerVars
    <2>5. ChannelWriteInv'
      BY <1>4, <2>1, <2>3 DEF RenameJob, Inv, ChannelWriteInv, Enqueuing, TypeOK
    <2>6. WorkerWriteInv'
      BY <2>2, <2>3 DEF Inv, WorkerWriteInv, TypeOK, workerVars
    <2>7. PlanInv' /\ PublishInv'
      BY <2>2, <2>3 DEF Inv, PlanInv, PublishInv, HasPlan, TypeOK, workerVars
    <2>8. JobFilesWhole'
      BY <2>1, <2>3 DEF Inv, JobFilesWhole, TypeOK
    <2>9. FollowupsAfterResult'
      BY <2>1, <2>3 DEF Inv, FollowupsAfterResult, TypeOK
    <2> QED
      BY <2>4, <2>5, <2>6, <2>7, <2>8, <2>9 DEF Inv
  <1>5. ASSUME NEW c \in Channels, PollResult(c) \/ PollTimeout(c) \/ SessionCap(c)
        PROVE  Inv'
    BY <1>5, InvFrame DEF PollResult, PollTimeout, SessionCap, TypeOK
  <1>6. ASSUME NEW r \in JobId, NEW j \in JobId, CollectResult(r, j) PROVE Inv'
    BY <1>6, InvFrame DEF CollectResult
  <1>7. ASSUME NEW r \in JobId, CollectDeadline(r) \/ CollectFails(r) PROVE Inv'
    BY <1>7, InvFrame DEF CollectDeadline, CollectFails
  <1>8. ASSUME HoneypotCrash PROVE Inv'
    BY <1>8, InvFrame DEF HoneypotCrash
  <1> QED
    BY <1>1, <1>2, <1>3, <1>4, <1>5, <1>6, <1>7, <1>8 DEF SessionNext

\* A worker step that touches no file, leaves the worker without a plan and
\* adds nothing to its batch keeps Inv.
LEMMA InvIdle ==
    ASSUME TypeInv, Inv, NEW w \in Workers,
           wpc'[w] \in {"sleep", "claim", "pick", "down"},
           plan'[w] = NoResult,
           \A v \in Workers : v # w => /\ wpc'[v] = wpc[v]
                                       /\ plan'[v] = plan[v]
                                       /\ wcur'[v] = wcur[v],
           \A v \in Workers : batch'[v] \subseteq batch[v],
           UNCHANGED <<job, file, whole, result, pc, cur, fetches>>
    PROVE  Inv'
  <1>1. ClaimInv'
    BY DEF Inv, ClaimInv
  <1>2. ChannelWriteInv' /\ JobFilesWhole' /\ FollowupsAfterResult'
    BY DEF Inv, ChannelWriteInv, JobFilesWhole, FollowupsAfterResult, Enqueuing
  <1>3. WorkerWriteInv'
    BY DEF Inv, WorkerWriteInv
  <1>4. NoResult.jobs = {}
    BY DEF NoResult
  <1>5. PlanInv'
    BY <1>4 DEF Inv, PlanInv, HasPlan
  <1>6. PublishInv'
    BY <1>4 DEF Inv, PublishInv
  <1> QED
    BY <1>1, <1>2, <1>3, <1>5, <1>6 DEF Inv

\* Every step and every crash of a worker (worker.py, queue.py) keeps Inv.
LEMMA InvWorker ==
    ASSUME TypeInv, Inv, NEW w \in Workers, WorkerStep(w) \/ WorkerCrash(w)
    PROVE  Inv'
  <1> USE DEF TypeInv, sessionVars
  <1>0. Len(job) \in Nat /\ MadeIds \subseteq JobId
    BY MadeIdsAreIds
  <1>1. CASE Scan(w) \/ ClaimDone(w) \/ PassDone(w) \/ WorkerRestart(w)
    <2>1. wpc[w] \in {"sleep", "claim", "pick", "down"}
      BY <1>1 DEF Scan, ClaimDone, PassDone, WorkerRestart
    <2>2. plan[w] = NoResult
      BY <2>1 DEF Inv, PlanInv, HasPlan
    <2>3. \E x \in {"sleep", "claim", "pick", "down"} : wpc' = [wpc EXCEPT ![w] = x]
      BY <1>1 DEF Scan, ClaimDone, PassDone, WorkerRestart
    <2>4. UNCHANGED <<job, file, whole, result, pc, cur, batch, wcur, plan, fetches>>
      BY <1>1 DEF Scan, ClaimDone, PassDone, WorkerRestart
    <2> QED
      BY <2>2, <2>3, <2>4, InvIdle DEF TypeOK
  <1>2. ASSUME NEW j \in JobId, LoseClaim(w, j) PROVE Inv'
    BY <1>2 DEF LoseClaim, Inv, ClaimInv, ChannelWriteInv, WorkerWriteInv, PlanInv,
                PublishInv, JobFilesWhole, FollowupsAfterResult, Enqueuing, HasPlan
  <1>3. ASSUME NEW j \in JobId, ClaimJob(w, j) PROVE Inv'
    <2>1. /\ file[j] = "queued"
          /\ file' = [file EXCEPT ![j] = "processing"]
          /\ batch' = [batch EXCEPT ![w] = batch[w] \cup {j}]
          /\ UNCHANGED <<job, whole, result, pc, cur, wpc, wcur, plan, fetches>>
      BY <1>3 DEF ClaimJob, CanRename
    <2>2. \A v \in Workers : j \notin batch[v]
      BY <2>1 DEF Inv, ClaimInv
    <2>3. ClaimInv'
      BY <2>1, <2>2 DEF Inv, ClaimInv, TypeOK
    <2>4. ChannelWriteInv' /\ WorkerWriteInv'
      BY <2>1 DEF Inv, ChannelWriteInv, WorkerWriteInv, Enqueuing, TypeOK
    <2>5. PlanInv' /\ PublishInv'
      BY <2>1 DEF Inv, PlanInv, PublishInv, HasPlan, TypeOK
    <2>6. JobFilesWhole' /\ FollowupsAfterResult'
      BY <2>1 DEF Inv, JobFilesWhole, FollowupsAfterResult, TypeOK
    <2> QED
      BY <2>3, <2>4, <2>5, <2>6 DEF Inv
  <1>4. ASSUME NEW j \in JobId, Fetch(w, j) PROVE Inv'
    <2>1. /\ j \in batch[w]
          /\ j \in MadeIds
          /\ file[j] = "processing"
          /\ fetches[j] = 0
          /\ result[j] = NoResult
          /\ plan[w] = NoResult
      BY <1>4 DEF Fetch, IsFirst, Made, Inv, ClaimInv, PublishInv, PlanInv, HasPlan
    <2>2. PICK status \in {"ok", "failed"}, n \in 0 .. MaxUrls :
             /\ n > 0 => MayPlan(j, status)
             /\ Len(job) + n <= MaxJobs
             /\ job' = job \o [i \in 1 .. n |-> [session |-> job[j].session,
                                                 depth |-> job[j].depth + 1,
                                                 parent |-> j]]
             /\ plan' = [plan EXCEPT ![w] =
                           [status |-> status,
                            jobs |-> (Len(job) + 1) .. (Len(job) + n)]]
      BY <1>4 DEF Fetch
    <2>3. n \in Nat
      BY LimitAssumption
    <2> DEFINE kids == (Len(job) + 1) .. (Len(job) + n)
               p == [status |-> status, jobs |-> kids]
    <2>4. /\ Len(job') = Len(job) + n
          /\ \A i \in MadeIds : job'[i] = job[i]
          /\ \A i \in kids : job'[i].parent = j
      BY <2>1, <2>2, <2>3, AppendFollowups DEF MayPlan
    <2>5. /\ batch' = [batch EXCEPT ![w] = batch[w] \ {j}]
          /\ wcur' = [wcur EXCEPT ![w] = j]
          /\ fetches' = [fetches EXCEPT ![j] = fetches[j] + 1]
          /\ wpc' = [wpc EXCEPT ![w] = "publish"]
          /\ plan' = [plan EXCEPT ![w] = p]
          /\ UNCHANGED <<file, whole, result, pc, cur>>
      BY <1>4, <2>2 DEF Fetch
    <2>6. /\ \A k \in kids : k \in JobId /\ k \notin MadeIds
          /\ 1 .. Len(job') \subseteq MadeIds \cup kids
      BY <1>0, <2>2, <2>3, <2>4, BoundAssumption DEF JobId, MadeIds
    <2>7. \A k \in kids : file[k] = "none"
      BY <2>6 DEF Made
    <2>8. kids # {} => status = "ok"
      BY <1>0, <2>2, <2>3 DEF MayPlan
    <2> HIDE DEF kids
    <2>9. ClaimInv'
      BY <2>1, <2>5 DEF Inv, ClaimInv, TypeOK
    <2>10. ChannelWriteInv'
      BY <2>4, <2>5 DEF Inv, ChannelWriteInv, Made, Enqueuing
    <2>11. WorkerWriteInv'
      BY <2>5 DEF Inv, WorkerWriteInv, TypeOK
    <2>12. PlanInv'
      <3>1. \A v \in Workers : plan'[v] = IF v = w THEN p ELSE plan[v]
        BY <2>5 DEF TypeOK
      <3>2. \A v \in Workers : \A k \in plan[v].jobs : job'[k] = job[k] /\ k \notin kids
        BY <2>4, <2>6 DEF Made
      <3>3. \A k \in kids : job'[k].parent # None /\ job'[k].parent \in JobId
        BY <1>0, <2>1, <2>4 DEF None, JobId, MadeIds
      <3>4. \A v \in Workers : ~HasPlan(v)' => v # w /\ ~HasPlan(v)
        BY <2>5 DEF HasPlan, TypeOK
      <3> QED
        BY <2>8, <3>1, <3>2, <3>3, <3>4 DEF Inv, PlanInv
    <2>13. PublishInv'
      <3>1. \A v \in Workers : /\ plan'[v] = IF v = w THEN p ELSE plan[v]
                               /\ wcur'[v] = IF v = w THEN j ELSE wcur[v]
                               /\ wpc'[v] = IF v = w THEN "publish" ELSE wpc[v]
        BY <2>5 DEF TypeOK
      <3>2. \A v \in Workers : \A k \in plan[v].jobs : job'[k] = job[k]
        BY <2>4 DEF Made
      <3>3. p # NoResult
        BY DEF NoResult
      <3>4. \A i \in JobId : fetches'[i] = IF i = j THEN 1 ELSE fetches[i]
        BY <2>1, <2>5 DEF TypeOK
      <3>5. \A v \in Workers : wpc[v] = "publish" => wcur[v] \in JobId /\ wcur[v] # j
        BY <1>0, <2>1 DEF Inv, PublishInv, Made, HasPlan
      <3>6. \A i \in JobId : fetches'[i] = 0 => result'[i] = NoResult
        BY <2>5, <3>4 DEF Inv, PublishInv
      <3>7. \A v \in Workers : wpc'[v] = "publish" =>
               /\ fetches'[wcur'[v]] = 1
               /\ result'[wcur'[v]] = NoResult
               /\ plan'[v] # NoResult
               /\ \A k \in plan'[v].jobs : job'[k].parent = wcur'[v] /\ file'[k] = "none"
        BY <2>1, <2>4, <2>5, <2>7, <3>1, <3>2, <3>3, <3>4, <3>5 DEF Inv, PublishInv
      <3>8. \A v \in Workers : wpc'[v] \in {"create", "fill", "rename"} =>
               \A k \in plan'[v].jobs : result'[job'[k].parent] = plan'[v]
        BY <2>5, <3>1, <3>2 DEF Inv, PublishInv
      <3>9. \A u, v \in Workers :
               u # v /\ wpc'[u] = "publish" /\ wpc'[v] = "publish" => wcur'[u] # wcur'[v]
        BY <3>1, <3>5 DEF Inv, PublishInv
      <3> QED
        BY <3>6, <3>7, <3>8, <3>9 DEF PublishInv
    <2>14. JobFilesWhole'
      BY <2>5 DEF Inv, JobFilesWhole
    <2>15. FollowupsAfterResult'
      BY <2>4, <2>5, <2>6, <2>7 DEF Inv, FollowupsAfterResult, MadeIds
    <2> QED
      BY <2>9, <2>10, <2>11, <2>12, <2>13, <2>14, <2>15 DEF Inv
  <1>5. CASE Publish(w)
    <2>1. /\ wpc[w] = "publish"
          /\ wcur[w] \in JobId
          /\ fetches[wcur[w]] = 1
          /\ result[wcur[w]] = NoResult
          /\ \A k \in plan[w].jobs : job[k].parent = wcur[w] /\ file[k] = "none"
      BY <1>0, <1>5 DEF Publish, Made, HasPlan, Inv, PublishInv
    <2>2. /\ result' = [result EXCEPT ![wcur[w]] = plan[w]]
          /\ wpc' = [wpc EXCEPT ![w] = "create"]
          /\ UNCHANGED <<job, file, whole, pc, cur, batch, wcur, plan, fetches>>
      BY <1>5 DEF Publish
    <2>3. ClaimInv' /\ ChannelWriteInv' /\ JobFilesWhole'
      BY <2>2 DEF Inv, ClaimInv, ChannelWriteInv, JobFilesWhole, Enqueuing
    <2>4. WorkerWriteInv' /\ PlanInv'
      BY <2>1, <2>2 DEF Inv, WorkerWriteInv, PlanInv, HasPlan, TypeOK
    <2>5. PublishInv'
      <3>1. \A v \in Workers : wpc'[v] = IF v = w THEN "create" ELSE wpc[v]
        BY <2>2 DEF TypeOK
      <3>2. \A i \in JobId : result'[i] = IF i = wcur[w] THEN plan[w] ELSE result[i]
        BY <2>2 DEF TypeOK
      <3>3. \A i \in JobId : fetches'[i] = 0 => result'[i] = NoResult
        BY <2>1, <2>2, <3>2 DEF Inv, PublishInv
      <3>4. \A v \in Workers : wpc'[v] = "publish" =>
               wpc[v] = "publish" /\ wcur[v] \in JobId /\ wcur[v] # wcur[w]
        BY <1>0, <2>1, <3>1 DEF Inv, PublishInv, Made, HasPlan
      <3>5. ASSUME NEW v \in Workers, wpc'[v] \in {"create", "fill", "rename"},
                   NEW k \in plan'[v].jobs
            PROVE  result'[job'[k].parent] = plan'[v]
        <4>1. k \in plan[v].jobs /\ job[k].parent \in JobId /\ plan[v].status = "ok"
          BY <2>2 DEF Inv, PlanInv
        <4>2. CASE v = w
          BY <2>1, <2>2, <3>2, <4>1, <4>2
        <4>3. CASE v # w
          <5>1. result[job[k].parent] = plan[v]
            BY <3>1, <3>5, <4>1, <4>3 DEF Inv, PublishInv
          <5>2. job[k].parent # wcur[w]
            BY <2>1, <4>1, <5>1 DEF NoResult
          <5> QED
            BY <2>2, <3>2, <4>1, <5>1, <5>2
        <4> QED
          BY <4>2, <4>3
      <3> QED
        BY <2>2, <3>1, <3>2, <3>3, <3>4, <3>5 DEF Inv, PublishInv
    <2>6. FollowupsAfterResult'
      <3> SUFFICES ASSUME NEW j \in 1 .. Len(job), job[j].parent # None, file[j] # "none"
                   PROVE  /\ result'[job[j].parent].status = "ok"
                          /\ j \in result'[job[j].parent].jobs
        BY <2>2 DEF FollowupsAfterResult
      <3>1. /\ result[job[j].parent].status = "ok"
            /\ j \in result[job[j].parent].jobs
        BY DEF Inv, FollowupsAfterResult
      <3>2. job[j].parent # wcur[w]
        BY <2>1, <3>1 DEF NoResult
      <3>3. job[j].parent \in JobId
        <4>1. job[j] \in Job
          BY ElementOfSeq DEF TypeOK
        <4> QED
          BY <4>1 DEF Job
      <3> QED
        BY <2>2, <3>1, <3>2, <3>3 DEF TypeOK
    <2> QED
      BY <2>3, <2>4, <2>5, <2>6 DEF Inv
  <1>6. ASSUME NEW j \in JobId, CreateFollowup(w, j) PROVE Inv'
    <2>1. /\ wpc[w] = "create"
          /\ j \in plan[w].jobs
          /\ file[j] = "none"
          /\ job[j].parent # None
          /\ result[job[j].parent] = plan[w]
          /\ plan[w].status = "ok"
      BY <1>6 DEF CreateFollowup, IsFirst, Unwritten, Inv, PlanInv, PublishInv
    <2>2. /\ file' = [file EXCEPT ![j] = "tmp"]
          /\ wcur' = [wcur EXCEPT ![w] = j]
          /\ wpc' = [wpc EXCEPT ![w] = "fill"]
          /\ UNCHANGED <<job, whole, result, pc, cur, batch, plan, fetches>>
      BY <1>6 DEF CreateFollowup, CreateTmp
    <2>3. ClaimInv' /\ ChannelWriteInv' /\ JobFilesWhole'
      BY <2>1, <2>2 DEF Inv, ClaimInv, ChannelWriteInv, JobFilesWhole, Enqueuing, TypeOK
    <2>4. WorkerWriteInv'
      BY <2>1, <2>2 DEF Inv, WorkerWriteInv, TypeOK
    <2>5. PlanInv'
      BY <2>1, <2>2 DEF Inv, PlanInv, HasPlan, TypeOK
    <2>6. PublishInv'
      <3>1. \A v \in Workers : /\ wpc'[v] = IF v = w THEN "fill" ELSE wpc[v]
                               /\ wcur'[v] = IF v = w THEN j ELSE wcur[v]
        BY <2>2 DEF TypeOK
      <3>2. \A v \in Workers : v # w => j \notin plan[v].jobs
        BY <2>1 DEF Inv, PlanInv
      <3>3. \A k : k # j /\ k \in JobId => file'[k] = file[k]
        BY <2>2 DEF TypeOK
      <3>4. \A v \in Workers : plan[v].jobs \subseteq JobId
        BY <1>0 DEF Made
      <3> QED
        BY <2>1, <2>2, <3>1, <3>2, <3>3, <3>4 DEF Inv, PublishInv
    <2>7. FollowupsAfterResult'
      BY <2>1, <2>2 DEF Inv, FollowupsAfterResult, TypeOK
    <2> QED
      BY <2>3, <2>4, <2>5, <2>6, <2>7 DEF Inv
  <1>7. CASE FillFollowup(w)
    BY <1>7 DEF FillFollowup, FillTmp, TypeOK, Inv, ClaimInv, ChannelWriteInv,
                WorkerWriteInv, PlanInv, PublishInv, JobFilesWhole, FollowupsAfterResult,
                Enqueuing, HasPlan
  <1>8. CASE RenameFollowup(w)
    <2> DEFINE k == wcur[w]
    <2>1. /\ k \in plan[w].jobs
          /\ k \in JobId
          /\ k \in whole
          /\ file[k] = "tmp"
          /\ job[k].parent # None
          /\ \A v \in Workers : v # w => k \notin plan[v].jobs
      BY <1>0, <1>8 DEF RenameFollowup, Inv, WorkerWriteInv, PlanInv, Made, HasPlan
    <2>2. /\ file' = [file EXCEPT ![k] = "queued"]
          /\ wpc' = [wpc EXCEPT ![w] = "create"]
          /\ UNCHANGED <<job, whole, result, pc, cur, batch, wcur, plan, fetches>>
          /\ wpc[w] = "rename"
      BY <1>8 DEF RenameFollowup, RenameTmp
    <2> HIDE DEF k
    <2>3. ClaimInv' /\ JobFilesWhole'
      BY <2>1, <2>2 DEF Inv, ClaimInv, JobFilesWhole, TypeOK
    <2>4. ChannelWriteInv'
      BY <2>1, <2>2 DEF Inv, ChannelWriteInv, Enqueuing, TypeOK
    <2>5. WorkerWriteInv'
      BY <2>1, <2>2 DEF Inv, WorkerWriteInv, TypeOK
    <2>6. PlanInv'
      BY <2>2 DEF Inv, PlanInv, HasPlan, TypeOK
    <2>7. PublishInv'
      <3>1. \A v \in Workers : wpc'[v] = IF v = w THEN "create" ELSE wpc[v]
        BY <2>2 DEF TypeOK
      <3>2. \A i : i # k /\ i \in JobId => file'[i] = file[i]
        BY <2>2 DEF TypeOK
      <3>3. \A v \in Workers : plan[v].jobs \subseteq JobId
        BY <1>0 DEF Made
      <3> QED
        BY <2>1, <2>2, <3>1, <3>2, <3>3 DEF Inv, PublishInv
    <2>8. FollowupsAfterResult'
      BY <2>1, <2>2 DEF Inv, FollowupsAfterResult, TypeOK
    <2> QED
      BY <2>3, <2>4, <2>5, <2>6, <2>7, <2>8 DEF Inv
  <1>9. CASE JobDone(w)
    <2>1. /\ wpc' = [wpc EXCEPT ![w] = "pick"]
          /\ plan' = [plan EXCEPT ![w] = NoResult]
          /\ wcur' = [wcur EXCEPT ![w] = None]
          /\ UNCHANGED <<job, file, whole, result, pc, cur, batch, fetches>>
      BY <1>9 DEF JobDone
    <2> QED
      BY <2>1, InvIdle DEF TypeOK
  <1>10. CASE WorkerCrash(w)
    <2>1. /\ wpc' = [wpc EXCEPT ![w] = "down"]
          /\ plan' = [plan EXCEPT ![w] = NoResult]
          /\ wcur' = [wcur EXCEPT ![w] = None]
          /\ batch' = [batch EXCEPT ![w] = {}]
          /\ UNCHANGED <<job, file, whole, result, pc, cur, fetches>>
      BY <1>10 DEF WorkerCrash
    <2> QED
      BY <2>1, InvIdle DEF TypeOK
  <1> QED
    BY <1>1, <1>2, <1>3, <1>4, <1>5, <1>6, <1>7, <1>8, <1>9, <1>10 DEF WorkerStep

\* TypeInv and Inv together are inductive.
THEOREM Inductive == Spec => [](TypeInv /\ Inv)
  <1>1. TypeInv /\ UNCHANGED vars => TypeInv'
    BY DEF TypeInv, TypeOK, Made, MadeIds, Enqueuing, HasPlan, vars, sessionVars,
           workerVars
  <1>2. Inv /\ UNCHANGED vars => Inv'
    BY InvFrame DEF vars, sessionVars
  <1>3. TypeInv /\ Inv /\ [Next]_vars => (TypeInv /\ Inv)'
    BY <1>1, <1>2, TypeSession, TypeWorker, InvSession, InvWorker DEF Next
  <1>4. Init => TypeInv /\ Inv
    BY TypeInit, InvInit
  <1> QED
    BY <1>3, <1>4, PTL DEF Spec

\* No job is ever fetched twice, by however many workers, crashes and restarts.
THEOREM AtMostOnce == Spec => []FetchedAtMostOnce
  <1>1. TypeInv /\ Inv => FetchedAtMostOnce
    <2> SUFFICES ASSUME TypeInv, Inv, NEW j \in JobId PROVE fetches[j] <= 1
      BY DEF FetchedAtMostOnce
    <2>1. fetches[j] = 0 \/ fetches[j] = 1
      BY DEF Inv, ClaimInv
    <2> QED
      BY <2>1
  <1> QED
    BY <1>1, Inductive, PTL

\* No listing and no claim sees a job file before its content is complete.
THEOREM FilesWhole == Spec => []JobFilesWhole
  <1>1. TypeInv /\ Inv => JobFilesWhole
    BY DEF Inv
  <1> QED
    BY <1>1, Inductive, PTL

\* A follow-up has a file only when the published result of its script lists it.
THEOREM ResultFirst == Spec => []FollowupsAfterResult
  <1>1. TypeInv /\ Inv => FollowupsAfterResult
    BY DEF Inv
  <1> QED
    BY <1>1, Inductive, PTL

\* No step takes a claimed job file out of .processing or rewrites a result.
THEOREM Permanent == Spec => ClaimsArePermanent
  <1> DEFINE Kept == \A j \in JobId :
                        /\ file[j] = "processing" => file'[j] = "processing"
                        /\ result[j] # NoResult => result'[j] = result[j]
  <1>1. ASSUME TypeInv, Inv, SessionNext PROVE Kept
    <2>0. Len(job) \in Nat /\ MadeIds \subseteq JobId
      BY <1>1, MadeIdsAreIds DEF TypeInv
    <2>1. ASSUME NEW c \in Channels, RequestDownload(c) PROVE Kept
      <3>1. Len(job) + 1 \in JobId /\ Len(job) + 1 \notin MadeIds
        BY <2>0, <2>1, BoundAssumption DEF RequestDownload, JobId, MadeIds
      <3>2. file[Len(job) + 1] = "none"
        BY <1>1, <3>1 DEF TypeInv, Made
      <3> QED
        BY <1>1, <2>1, <3>1, <3>2 DEF RequestDownload, CreateTmp, TypeInv, TypeOK
    <2>2. ASSUME NEW c \in Channels, RenameJob(c) PROVE Kept
      <3>1. file[cur[c]] = "tmp"
        BY <1>1, <2>2 DEF RenameJob, Inv, ChannelWriteInv, Enqueuing
      <3> QED
        BY <1>1, <2>2, <3>1 DEF RenameJob, RenameTmp, TypeInv, TypeOK
    <2>3. ASSUME UNCHANGED <<file, result>> PROVE Kept
      BY <2>3
    <2> QED
      BY <1>1, <2>1, <2>2, <2>3
         DEF SessionNext, RefuseDownload, FillJob, PollResult, PollTimeout, SessionCap,
             CollectResult, CollectDeadline, CollectFails, HoneypotCrash
  <1>2. ASSUME TypeInv, Inv, NEW w \in Workers, WorkerStep(w) \/ WorkerCrash(w) PROVE Kept
    <2>1. ASSUME NEW j \in JobId, ClaimJob(w, j) PROVE Kept
      BY <1>2, <2>1 DEF ClaimJob, TypeInv, TypeOK
    <2>2. CASE Publish(w)
      <3>1. result[wcur[w]] = NoResult
        BY <1>2, <2>2 DEF Publish, Inv, PublishInv
      <3> QED
        BY <1>2, <2>2, <3>1 DEF Publish, TypeInv, TypeOK
    <2>3. ASSUME NEW j \in JobId, CreateFollowup(w, j) PROVE Kept
      BY <1>2, <2>3 DEF CreateFollowup, CreateTmp, IsFirst, Unwritten, TypeInv, TypeOK
    <2>4. CASE RenameFollowup(w)
      <3>1. file[wcur[w]] = "tmp"
        BY <1>2, <2>4 DEF RenameFollowup, Inv, WorkerWriteInv
      <3> QED
        BY <1>2, <2>4, <3>1 DEF RenameFollowup, RenameTmp, TypeInv, TypeOK
    <2>5. ASSUME UNCHANGED <<file, result>> PROVE Kept
      BY <2>5
    <2> QED
      BY <1>2, <2>1, <2>2, <2>3, <2>4, <2>5
         DEF WorkerStep, Scan, LoseClaim, ClaimDone, Fetch, FillFollowup, JobDone, PassDone,
             WorkerRestart, WorkerCrash
  <1>3. TypeInv /\ Inv /\ [Next]_vars => [Kept]_vars
    BY <1>1, <1>2 DEF Next
  <1> QED
    BY <1>3, Inductive, PTL DEF Spec, ClaimsArePermanent

-----------------------------------------------------------------------------
(* What is logged.  That a download is logged once and truthfully rests on  *)
(* its being waited for in one place only: by the channel that typed it or, *)
(* once the success of the script that listed it has been logged, by one    *)
(* background task.                                                         *)

Awaiting(c) == pc[c] \in {"fill", "rename", "poll"}

\* A published result lists follow-ups of its own job, and only with a success.
ResultInv ==
    \A p \in JobId :
       /\ result[p].status # "ok" => result[p].jobs = {}
       /\ \A k \in result[p].jobs : k \in MadeIds /\ job[k].parent = p

\* A channel waits for a typed job of its own that has not been logged, and
\* polls for one that is in the queue.
PollInv ==
    /\ \A c \in Channels : Awaiting(c) => /\ cur[c] \in MadeIds
                                          /\ job[cur[c]].parent = None
                                          /\ outcomes[cur[c]] = << >>
    /\ \A c \in Channels : pc[c] = "poll" => file[cur[c]] \in {"queued", "processing"}
    /\ \A c, d \in Channels : c # d /\ Awaiting(c) /\ Awaiting(d) => cur[c] # cur[d]

\* A background task waits for follow-ups that have not been logged, of scripts
\* whose success has, and no two tasks for the same one.
CollectInv ==
    /\ \A r \in JobId : \A j \in collect[r] :
          /\ j \in MadeIds
          /\ job[j].parent \in JobId
          /\ j \in result[job[j].parent].jobs
          /\ outcomes[job[j].parent] = <<"success">>
          /\ outcomes[j] = << >>
    /\ \A r, q \in JobId : r # q => \A j \in collect[r] : j \notin collect[q]

\* What has been logged, one event for a job.
LoggedInv ==
    \A j \in JobId : outcomes[j] # << >> =>
       /\ j \in MadeIds
       /\ outcomes[j] \in {<<"success">>, <<"failed">>, <<"timeout">>}
       /\ outcomes[j] = <<"success">> => result[j].status = "ok"
       /\ outcomes[j] = <<"failed">> => result[j].status = "failed"
       /\ job[j].parent # None => outcomes[job[j].parent] = <<"success">>

OutcomeInv == ResultInv /\ PollInv /\ CollectInv /\ LoggedInv

\* A file the queue shows: it is there to be claimed, or has been.
Visible(j) == file[j] \in {"queued", "processing"}

\* A job that has an event is not one without.
LEMMA SomeEvent == <<"success">> # << >>
  OBVIOUS

\* The first event logged for a job (manager.py, events.file_download).
LEMMA LogFirst ==
    ASSUME NEW j, NEW o, outcomes[j] = << >>, Log(j, o)
    PROVE  outcomes' = [outcomes EXCEPT ![j] = <<o>>]
  BY DEF Log

\* The empty queue satisfies OutcomeInv.
LEMMA OutcomeInit == Init => OutcomeInv
  BY DEF Init, OutcomeInv, ResultInv, PollInv, CollectInv, LoggedInv, Awaiting, NoResult

\* A step that logs and publishes nothing, sets no channel waiting for another
\* job, adds nothing to a background task and takes no file out of the queue.
LEMMA OutcomeFrame ==
    ASSUME TypeInv, OutcomeInv, UNCHANGED <<result, cur, outcomes>>,
           \A i \in MadeIds : i \in MadeIds' /\ job'[i] = job[i],
           \A r \in JobId : collect'[r] \subseteq collect[r],
           \A c \in Channels : Awaiting(c)' => Awaiting(c),
           \A c \in Channels : pc'[c] = "poll" => pc[c] = "poll" \/ Visible(cur[c])',
           \A i \in JobId : Visible(i) => Visible(i)'
    PROVE  OutcomeInv'
  <1>0. MadeIds \subseteq JobId
    BY MadeIdsAreIds DEF TypeInv
  <1>1. ResultInv'
    BY DEF OutcomeInv, ResultInv
  <1>2. PollInv'
    <2>1. \A c \in Channels : pc[c] = "poll" => Awaiting(c)
      BY DEF Awaiting
    <2>2. \A c \in Channels : Awaiting(c)' => /\ cur'[c] \in MadeIds'
                                              /\ job'[cur'[c]].parent = None
                                              /\ outcomes'[cur'[c]] = << >>
      BY DEF OutcomeInv, PollInv
    <2>3. \A c \in Channels : pc'[c] = "poll" => file'[cur'[c]] \in {"queued", "processing"}
      BY <1>0, <2>1 DEF OutcomeInv, PollInv, Visible
    <2>4. \A c, d \in Channels : c # d /\ Awaiting(c)' /\ Awaiting(d)' => cur'[c] # cur'[d]
      BY DEF OutcomeInv, PollInv
    <2> QED
      BY <2>2, <2>3, <2>4 DEF PollInv
  <1>3. CollectInv'
    <2>1. \A r \in JobId : \A j \in collect'[r] :
             /\ j \in MadeIds'
             /\ job'[j].parent \in JobId
             /\ j \in result'[job'[j].parent].jobs
             /\ outcomes'[job'[j].parent] = <<"success">>
             /\ outcomes'[j] = << >>
      BY DEF OutcomeInv, CollectInv
    <2>2. \A r, q \in JobId : r # q => \A j \in collect'[r] : j \notin collect'[q]
      BY DEF OutcomeInv, CollectInv
    <2> QED
      BY <2>1, <2>2 DEF CollectInv
  <1>4. LoggedInv'
    BY DEF OutcomeInv, LoggedInv
  <1> QED
    BY <1>1, <1>2, <1>3, <1>4 DEF OutcomeInv

\* No step takes a job file out of the queue's sight (queue.py: a temporary
\* name is renamed, a claimed file stays in .processing).
LEMMA VisibleForward ==
    ASSUME TypeInv, Inv, Next, NEW j \in JobId, Visible(j)
    PROVE  Visible(j)'
  <1> USE DEF TypeInv
  <1>0. Len(job) \in Nat /\ MadeIds \subseteq JobId
    BY MadeIdsAreIds
  <1>1. ASSUME NEW c \in Channels, RequestDownload(c) PROVE Visible(j)'
    <2>1. j # Len(job) + 1
      BY <1>0 DEF Visible, Made, MadeIds
    <2> QED
      BY <1>1, <2>1 DEF RequestDownload, CreateTmp, TypeOK, Visible
  <1>2. ASSUME NEW c \in Channels, RenameJob(c) PROVE Visible(j)'
    BY <1>2 DEF RenameJob, RenameTmp, TypeOK, Visible
  <1>3. ASSUME NEW w \in Workers, NEW k \in JobId, ClaimJob(w, k) PROVE Visible(j)'
    BY <1>3 DEF ClaimJob, TypeOK, Visible
  <1>4. ASSUME NEW w \in Workers, NEW k \in JobId, CreateFollowup(w, k) PROVE Visible(j)'
    BY <1>4 DEF CreateFollowup, CreateTmp, IsFirst, Unwritten, TypeOK, Visible
  <1>5. ASSUME NEW w \in Workers, RenameFollowup(w) PROVE Visible(j)'
    BY <1>5 DEF RenameFollowup, RenameTmp, TypeOK, Visible
  <1>6. CASE UNCHANGED file
    BY <1>6 DEF Visible
  <1>7. CASE SessionNext
    BY <1>1, <1>2, <1>6, <1>7
       DEF SessionNext, RefuseDownload, FillJob, PollResult, PollTimeout, SessionCap,
           CollectResult, CollectDeadline, CollectFails, HoneypotCrash
  <1>8. ASSUME NEW w \in Workers, WorkerStep(w) \/ WorkerCrash(w) PROVE Visible(j)'
    BY <1>3, <1>4, <1>5, <1>6, <1>8
       DEF WorkerStep, Scan, LoseClaim, ClaimDone, Fetch, Publish, FillFollowup, JobDone,
           PassDone, WorkerRestart, WorkerCrash
  <1> QED
    BY <1>7, <1>8 DEF Next

\* Every step and every crash of a worker (worker.py, queue.py) keeps OutcomeInv.
LEMMA OutcomeWorker ==
    ASSUME TypeInv, Inv, OutcomeInv, NEW w \in Workers, WorkerStep(w) \/ WorkerCrash(w)
    PROVE  OutcomeInv'
  <1> USE DEF TypeInv, sessionVars
  <1>0. Len(job) \in Nat /\ MadeIds \subseteq JobId
    BY MadeIdsAreIds
  <1>1. \A i \in JobId : Visible(i) => Visible(i)'
    BY VisibleForward DEF Next
  <1>2. ASSUME UNCHANGED <<job, result, sessionVars>> PROVE OutcomeInv'
    BY <1>1, <1>2, OutcomeFrame DEF Awaiting, MadeIds
  <1>3. ASSUME NEW j \in JobId, Fetch(w, j) PROVE OutcomeInv'
    <2>1. PICK status \in {"ok", "failed"}, n \in 0 .. MaxUrls :
             /\ n > 0 => MayPlan(j, status)
             /\ Len(job) + n <= MaxJobs
             /\ job' = job \o [i \in 1 .. n |-> [session |-> job[j].session,
                                                 depth |-> job[j].depth + 1,
                                                 parent |-> j]]
      BY <1>3 DEF Fetch
    <2>2. j \in MadeIds /\ n \in Nat
      BY <1>3, LimitAssumption DEF Fetch, IsFirst, Made
    <2>3. Len(job') = Len(job) + n /\ \A i \in MadeIds : job'[i] = job[i]
      BY <2>1, <2>2, AppendFollowups DEF MayPlan
    <2>4. \A i \in MadeIds : i \in MadeIds'
      BY <1>0, <2>2, <2>3 DEF MadeIds
    <2>5. UNCHANGED <<result, sessionVars>>
      BY <1>3 DEF Fetch
    <2> QED
      BY <1>1, <2>3, <2>4, <2>5, OutcomeFrame DEF Awaiting
  <1>4. CASE Publish(w)
    <2> DEFINE p == wcur[w]
    <2>1. /\ wpc[w] = "publish"
          /\ result' = [result EXCEPT ![p] = plan[w]]
          /\ UNCHANGED <<job, file, sessionVars>>
      BY <1>4 DEF Publish
    <2>2. /\ p \in JobId
          /\ result[p] = NoResult
          /\ plan[w] # NoResult
          /\ \A k \in plan[w].jobs : k \in MadeIds /\ job[k].parent = p
      BY <1>0, <2>1 DEF Made, HasPlan, Inv, PublishInv
    <2>3. /\ plan[w] \in Result
          /\ plan[w].jobs # {} => plan[w].status = "ok"
      BY DEF TypeOK, Inv, PlanInv
    <2> HIDE DEF p
    <2>4. \A i \in JobId : result'[i] = IF i = p THEN plan[w] ELSE result[i]
      BY <2>1, <2>2 DEF TypeOK
    <2>5. ResultInv'
      BY <2>1, <2>2, <2>3, <2>4 DEF OutcomeInv, ResultInv, MadeIds
    <2>6. PollInv'
      BY <2>1 DEF OutcomeInv, PollInv, Awaiting, MadeIds
    <2>7. CollectInv'
      <3>1. \A r \in JobId : \A j \in collect[r] : job[j].parent # p
        BY <2>2 DEF OutcomeInv, CollectInv, NoResult
      <3> QED
        BY <2>1, <2>4, <3>1 DEF OutcomeInv, CollectInv, MadeIds
    <2>8. LoggedInv'
      <3>1. result[p].status = "none"
        BY <2>2 DEF NoResult
      <3>2. ASSUME NEW j \in JobId, outcomes[j] # << >>
            PROVE  /\ outcomes[j] = <<"success">> => result'[j].status = "ok"
                   /\ outcomes[j] = <<"failed">> => result'[j].status = "failed"
        BY <2>4, <3>1, <3>2 DEF OutcomeInv, LoggedInv
      <3> QED
        BY <2>1, <3>2 DEF OutcomeInv, LoggedInv, MadeIds
    <2> QED
      BY <2>5, <2>6, <2>7, <2>8 DEF OutcomeInv
  <1>5. ASSUME NEW j \in JobId, ClaimJob(w, j) \/ LoseClaim(w, j) \/ CreateFollowup(w, j)
        PROVE  OutcomeInv'
    BY <1>2, <1>5 DEF ClaimJob, LoseClaim, CreateFollowup
  <1> QED
    BY <1>2, <1>3, <1>4, <1>5
       DEF WorkerStep, Scan, ClaimDone, FillFollowup, RenameFollowup, JobDone, PassDone,
           WorkerRestart, WorkerCrash

\* A step of the session process that logs the first event of each job in S.
LEMMA OutcomeLogging ==
    ASSUME TypeInv, OutcomeInv, NEW S \in SUBSET JobId,
           UNCHANGED <<job, file, result, cur>>,
           \A j \in S :
              /\ j \in MadeIds
              /\ outcomes[j] = << >>
              /\ outcomes'[j] \in {<<"success">>, <<"failed">>, <<"timeout">>}
              /\ outcomes'[j] = <<"success">> => result[j].status = "ok"
              /\ outcomes'[j] = <<"failed">> => result[j].status = "failed"
              /\ job[j].parent # None => outcomes[job[j].parent] = <<"success">>,
           \A j \in JobId : j \notin S => outcomes'[j] = outcomes[j],
           \A c \in Channels : Awaiting(c)' => pc'[c] = pc[c] /\ cur[c] \notin S,
           CollectInv'
    PROVE  OutcomeInv'
  <1>0. MadeIds \subseteq JobId /\ MadeIds' = MadeIds
    BY MadeIdsAreIds DEF TypeInv, MadeIds
  <1>1. ResultInv'
    BY <1>0 DEF OutcomeInv, ResultInv
  <1>2. PollInv'
    BY <1>0 DEF OutcomeInv, PollInv, Awaiting
  <1>3. LoggedInv'
    <2> SUFFICES ASSUME NEW j \in JobId, outcomes'[j] # << >>
                 PROVE  /\ j \in MadeIds
                        /\ outcomes'[j] \in {<<"success">>, <<"failed">>, <<"timeout">>}
                        /\ outcomes'[j] = <<"success">> => result[j].status = "ok"
                        /\ outcomes'[j] = <<"failed">> => result[j].status = "failed"
                        /\ job[j].parent # None => outcomes'[job[j].parent] = <<"success">>
      BY <1>0 DEF LoggedInv
    <2>1. job[j].parent # None => outcomes[job[j].parent] = <<"success">>
      BY DEF OutcomeInv, LoggedInv
    <2>2. j \in MadeIds
      BY DEF OutcomeInv, LoggedInv
    <2>3. job[j].parent \in JobId \cup {None}
      <3>1. job[j] \in Job
        BY <2>2, ElementOfSeq DEF TypeInv, TypeOK, MadeIds
      <3> QED
        BY <3>1 DEF Job
    <2>4. job[j].parent # None => outcomes'[job[j].parent] = <<"success">>
      <3> SUFFICES ASSUME job[j].parent # None
                   PROVE  outcomes'[job[j].parent] = <<"success">>
        OBVIOUS
      <3>1. outcomes[job[j].parent] # << >>
        BY ONLY <2>1, job[j].parent # None, SomeEvent
      <3> QED
        BY <2>1, <2>3, <3>1
    <2> QED
      BY <2>2, <2>4 DEF OutcomeInv, LoggedInv
  <1> QED
    BY <1>1, <1>2, <1>3 DEF OutcomeInv

\* The background task of typed job r ends, and logs S as timed out.
GivesUp(r, S) ==
    /\ outcomes' = [j \in JobId |-> IF j \in S THEN Append(outcomes[j], "timeout")
                                              ELSE outcomes[j]]
    /\ collect' = [collect EXCEPT ![r] = {}]
    /\ UNCHANGED <<job, file, result, cur, pc>>

\* At its deadline a background task gives up on its whole list, and on a part
\* of it when the log fails (manager.py, _collect_stage2_queued).
LEMMA GivingUp ==
    ASSUME NEW r \in JobId, CollectDeadline(r) \/ CollectFails(r)
    PROVE  \E S \in SUBSET collect[r] : GivesUp(r, S)
  <1>1. CASE CollectDeadline(r)
    <2>1. GivesUp(r, collect[r])
      BY <1>1 DEF CollectDeadline, GivesUp
    <2> QED
      BY <2>1
  <1>2. CASE CollectFails(r)
    <2>1. PICK S \in SUBSET collect[r] :
             outcomes' = [j \in JobId |-> IF j \in S THEN Append(outcomes[j], "timeout")
                                                    ELSE outcomes[j]]
      BY <1>2 DEF CollectFails
    <2>2. GivesUp(r, S)
      BY <1>2, <2>1 DEF CollectFails, GivesUp
    <2> QED
      BY <2>2
  <1> QED
    BY <1>1, <1>2

\* The outcome the session reads off a result file is the one it logs.
LEMMA OutcomeOfResult ==
    ASSUME TypeOK, NEW j \in JobId, result[j].status # "none"
    PROVE  /\ OutcomeOf(j) \in {"success", "failed"}
           /\ <<OutcomeOf(j)>> = <<"success">> => result[j].status = "ok"
           /\ <<OutcomeOf(j)>> = <<"failed">> => result[j].status = "failed"
           /\ result[j].status = "ok" => OutcomeOf(j) = "success"
  <1>1. result[j].status \in {"ok", "failed"}
    BY DEF TypeOK, Result
  <1> QED
    BY <1>1 DEF OutcomeOf

\* Every step of the session process (manager.py) keeps OutcomeInv.
LEMMA OutcomeSession ==
    ASSUME TypeInv, Inv, OutcomeInv, SessionNext
    PROVE  OutcomeInv'
  <1> USE DEF TypeInv
  <1>0. Len(job) \in Nat /\ MadeIds \subseteq JobId /\ None \notin JobId
    BY MadeIdsAreIds DEF None, JobId
  <1>1. \A i \in JobId : Visible(i) => Visible(i)'
    BY VisibleForward DEF Next
  <1>2. ASSUME NEW c \in Channels, RefuseDownload(c) \/ SessionCap(c) \/ FillJob(c)
        PROVE  OutcomeInv'
    <2>1. UNCHANGED <<job, file, result, cur, collect, outcomes>>
      BY <1>2 DEF RefuseDownload, SessionCap, FillJob
    <2>2. \A d \in Channels : /\ Awaiting(d)' => Awaiting(d)
                              /\ pc'[d] = "poll" => pc[d] = "poll"
      BY <1>2 DEF RefuseDownload, SessionCap, FillJob, Awaiting, TypeOK
    <2> QED
      BY <1>1, <2>1, <2>2, OutcomeFrame DEF MadeIds
  <1>3. ASSUME NEW c \in Channels, RenameJob(c) PROVE OutcomeInv'
    <2>1. /\ pc[c] = "rename"
          /\ file' = [file EXCEPT ![cur[c]] = "queued"]
          /\ pc' = [pc EXCEPT ![c] = "poll"]
          /\ UNCHANGED <<job, result, cur, collect, outcomes>>
      BY <1>3 DEF RenameJob, RenameTmp
    <2>2. cur[c] \in JobId
      BY <1>0, <2>1 DEF Made, Enqueuing
    <2>3. Visible(cur[c])'
      BY <2>1, <2>2 DEF Visible, TypeOK
    <2>4. \A d \in Channels : Awaiting(d)' => Awaiting(d)
      BY <2>1 DEF Awaiting, TypeOK
    <2>5. \A d \in Channels : pc'[d] = "poll" => pc[d] = "poll" \/ Visible(cur[d])'
      BY <2>1, <2>3 DEF TypeOK
    <2> QED
      BY <1>1, <2>1, <2>4, <2>5, OutcomeFrame DEF MadeIds
  <1>4. ASSUME HoneypotCrash PROVE OutcomeInv'
    <2>1. /\ pc' = [c \in Channels |-> "dead"]
          /\ collect' = [j \in JobId |-> {}]
          /\ UNCHANGED <<job, file, result, cur, outcomes>>
      BY <1>4 DEF HoneypotCrash
    <2> QED
      BY <1>1, <2>1, OutcomeFrame DEF MadeIds, Awaiting
  <1>5. ASSUME NEW c \in Channels, RequestDownload(c) PROVE OutcomeInv'
    <2> DEFINE n == Len(job) + 1
    <2>1. /\ Len(job') = n
          /\ \A i \in MadeIds : job'[i] = job[i]
          /\ job'[n].parent = None
      BY <1>5, AppendJob DEF RequestDownload
    <2>2. n \in JobId /\ n \notin MadeIds
      BY <1>0, <1>5, BoundAssumption DEF RequestDownload, JobId, MadeIds
    <2>3. MadeIds \subseteq MadeIds' /\ n \in MadeIds'
      BY <1>0, <2>1 DEF MadeIds
    <2>4. /\ pc' = [pc EXCEPT ![c] = "fill"]
          /\ cur' = [cur EXCEPT ![c] = n]
          /\ UNCHANGED <<result, collect, outcomes>>
      BY <1>5 DEF RequestDownload
    <2>5. outcomes[n] = << >>
      BY <2>2 DEF OutcomeInv, LoggedInv
    <2> HIDE DEF n
    <2>6. ResultInv'
      BY <2>1, <2>3, <2>4 DEF OutcomeInv, ResultInv
    <2>7. PollInv'
      <3>1. \A d \in Channels : /\ pc'[d] = IF d = c THEN "fill" ELSE pc[d]
                                /\ cur'[d] = IF d = c THEN n ELSE cur[d]
        BY <2>4 DEF TypeOK
      <3>2. \A d \in Channels : d # c /\ Awaiting(d)' => Awaiting(d) /\ cur[d] # n
        BY <2>2, <3>1 DEF Awaiting, OutcomeInv, PollInv
      <3>3. \A d \in Channels : Awaiting(d)' => /\ cur'[d] \in MadeIds'
                                                /\ job'[cur'[d]].parent = None
                                                /\ outcomes'[cur'[d]] = << >>
        BY <2>1, <2>3, <2>4, <2>5, <3>1, <3>2 DEF OutcomeInv, PollInv
      <3>4. \A d \in Channels : pc'[d] = "poll" => d # c /\ pc[d] = "poll" /\ Awaiting(d)
        BY <3>1 DEF Awaiting
      <3>5. \A d \in Channels : pc'[d] = "poll" => file'[cur'[d]] \in {"queued", "processing"}
        BY <1>0, <1>1, <3>1, <3>4 DEF OutcomeInv, PollInv, Visible
      <3>6. \A d, e \in Channels : d # e /\ Awaiting(d)' /\ Awaiting(e)' => cur'[d] # cur'[e]
        BY <3>1, <3>2 DEF OutcomeInv, PollInv
      <3> QED
        BY <3>3, <3>5, <3>6 DEF PollInv
    <2>8. CollectInv'
      BY <2>1, <2>3, <2>4 DEF OutcomeInv, CollectInv
    <2>9. LoggedInv'
      BY <2>1, <2>3, <2>4 DEF OutcomeInv, LoggedInv
    <2> QED
      BY <2>6, <2>7, <2>8, <2>9 DEF OutcomeInv
  <1>6. ASSUME NEW c \in Channels, PollTimeout(c) PROVE OutcomeInv'
    <2> DEFINE p == cur[c]
    <2>1. pc[c] = "poll" /\ Log(p, "timeout")
      BY <1>6 DEF PollTimeout
    <2>2. /\ pc' = [pc EXCEPT ![c] = "shell"]
          /\ UNCHANGED <<job, file, result, cur, collect>>
      BY <1>6 DEF PollTimeout
    <2>3. /\ p \in MadeIds /\ p \in JobId
          /\ job[p].parent = None
          /\ outcomes[p] = << >>
          /\ \A d \in Channels : d # c /\ Awaiting(d) => cur[d] # p
      BY <1>0, <2>1 DEF Awaiting, OutcomeInv, PollInv
    <2> HIDE DEF p
    <2>4. outcomes' = [outcomes EXCEPT ![p] = <<"timeout">>]
      BY <2>1, <2>3, LogFirst
    <2>5. \A i \in JobId : outcomes'[i] = IF i = p THEN <<"timeout">> ELSE outcomes[i]
      BY <2>3, <2>4 DEF TypeOK
    <2>6. \A d \in Channels : Awaiting(d)' => pc'[d] = pc[d] /\ cur[d] \notin {p}
      BY <2>2, <2>3 DEF Awaiting, TypeOK
    <2>7. \A r \in JobId : \A j \in collect[r] : j # p /\ job[j].parent # p
      <3> SUFFICES ASSUME NEW r \in JobId, NEW j \in collect[r] PROVE j # p /\ job[j].parent # p
        OBVIOUS
      <3>1. job[j].parent \in JobId /\ outcomes[job[j].parent] = <<"success">>
        BY <1>0 DEF OutcomeInv, CollectInv
      <3>2. None \notin JobId
        BY ONLY DEF None, JobId
      <3>3. j # p
        BY ONLY <2>3, <3>1, <3>2
      <3>4. job[j].parent # p
        BY ONLY <2>3, <3>1, SomeEvent
      <3> QED
        BY ONLY <3>3, <3>4
    <2>8. CollectInv'
      <3>1. MadeIds' = MadeIds
        BY <2>2 DEF MadeIds
      <3>2. \A r \in JobId : \A j \in collect[r] :
               /\ j \in MadeIds /\ job[j].parent \in JobId
               /\ j \in result[job[j].parent].jobs
               /\ outcomes'[job[j].parent] = <<"success">> /\ outcomes'[j] = << >>
        BY <1>0, <2>5, <2>7 DEF OutcomeInv, CollectInv
      <3> QED
        BY <2>2, <3>1, <3>2 DEF OutcomeInv, CollectInv
    <2>9. <<"timeout">> # <<"success">> /\ <<"timeout">> # <<"failed">>
      OBVIOUS
    <2> QED
      BY <2>2, <2>3, <2>5, <2>6, <2>8, <2>9, OutcomeLogging
  <1>7. ASSUME NEW c \in Channels, PollResult(c) PROVE OutcomeInv'
    <2> DEFINE p == cur[c]
               o == OutcomeOf(p)
    <2>1. pc[c] = "poll" /\ Log(p, o) /\ result[p].status # "none"
      BY <1>7 DEF PollResult
    <2>2. /\ pc' = [pc EXCEPT ![c] = "shell"]
          /\ collect' = [collect EXCEPT ![p] = result[p].jobs]
          /\ UNCHANGED <<job, file, result, cur>>
      BY <1>7 DEF PollResult
    <2>3. /\ p \in MadeIds /\ p \in JobId
          /\ job[p].parent = None
          /\ outcomes[p] = << >>
          /\ \A d \in Channels : d # c /\ Awaiting(d) => cur[d] # p
      BY <1>0, <2>1 DEF Awaiting, OutcomeInv, PollInv
    <2>4. /\ o \in {"success", "failed"}
          /\ <<o>> = <<"success">> => result[p].status = "ok"
          /\ <<o>> = <<"failed">> => result[p].status = "failed"
          /\ result[p].status = "ok" => o = "success"
      BY <2>1, <2>3, OutcomeOfResult
    <2> HIDE DEF p, o
    <2>5. outcomes' = [outcomes EXCEPT ![p] = <<o>>]
      BY <2>1, <2>3, LogFirst
    <2>6. \A i \in JobId : outcomes'[i] = IF i = p THEN <<o>> ELSE outcomes[i]
      BY <2>3, <2>5 DEF TypeOK
    <2>7. \A d \in Channels : Awaiting(d)' => pc'[d] = pc[d] /\ cur[d] \notin {p}
      BY <2>2, <2>3 DEF Awaiting, TypeOK
    <2>8. \A r \in JobId : \A j \in collect[r] : j # p /\ job[j].parent # p
      <3> SUFFICES ASSUME NEW r \in JobId, NEW j \in collect[r] PROVE j # p /\ job[j].parent # p
        OBVIOUS
      <3>1. job[j].parent \in JobId /\ outcomes[job[j].parent] = <<"success">>
        BY <1>0 DEF OutcomeInv, CollectInv
      <3>2. None \notin JobId
        BY ONLY DEF None, JobId
      <3>3. j # p
        BY ONLY <2>3, <3>1, <3>2
      <3>4. job[j].parent # p
        BY ONLY <2>3, <3>1, SomeEvent
      <3> QED
        BY ONLY <3>3, <3>4
    <2>9. \A i \in JobId : collect'[i] = IF i = p THEN result[p].jobs ELSE collect[i]
      BY <2>2, <2>3 DEF TypeOK
    <2>10. \A k \in result[p].jobs : /\ k \in MadeIds
                                     /\ job[k].parent = p
                                     /\ o = "success"
                                     /\ k # p
                                     /\ outcomes[k] = << >>
      <3> SUFFICES ASSUME NEW k \in result[p].jobs
                   PROVE  /\ k \in MadeIds
                          /\ job[k].parent = p
                          /\ o = "success"
                          /\ k # p
                          /\ outcomes[k] = << >>
        OBVIOUS
      <3>1. k \in MadeIds /\ job[k].parent = p /\ result[p].status = "ok"
        BY <2>3 DEF OutcomeInv, ResultInv
      <3>2. k # p
        BY <1>0, <2>3, <3>1
      <3>3. outcomes[k] = << >>
        BY <1>0, <2>3, <3>1 DEF OutcomeInv, LoggedInv
      <3> QED
        BY <2>4, <3>1, <3>2, <3>3
    <2>11. CollectInv'
      <3>1. ASSUME NEW r \in JobId, NEW j \in collect'[r]
            PROVE  /\ j \in MadeIds
                   /\ job[j].parent \in JobId
                   /\ j \in result[job[j].parent].jobs
                   /\ outcomes'[job[j].parent] = <<"success">>
                   /\ outcomes'[j] = << >>
        <4>1. CASE r = p
          BY <1>0, <2>3, <2>6, <2>9, <2>10, <3>1, <4>1
        <4>2. CASE r # p
          <5>1. j \in collect[r]
            BY ONLY <2>9, <3>1, <4>2
          <5>2. /\ j \in MadeIds /\ job[j].parent \in JobId
                /\ j \in result[job[j].parent].jobs
                /\ outcomes[job[j].parent] = <<"success">> /\ outcomes[j] = << >>
            BY <5>1 DEF OutcomeInv, CollectInv
          <5>3. j \in JobId
            BY ONLY <1>0, <5>2
          <5>4. outcomes'[job[j].parent] = outcomes[job[j].parent] /\ outcomes'[j] = outcomes[j]
            BY ONLY <2>6, <2>8, r \in JobId, <5>1, <5>2, <5>3
          <5> QED
            BY ONLY <5>2, <5>4
        <4> QED
          BY <4>1, <4>2
      <3>2. \A r, q \in JobId : r # q => \A j \in collect'[r] : j \notin collect'[q]
        BY <2>8, <2>9, <2>10 DEF OutcomeInv, CollectInv
      <3> QED
        BY <2>2, <3>1, <3>2 DEF CollectInv, MadeIds
    <2> QED
      BY <2>2, <2>3, <2>4, <2>6, <2>7, <2>11, OutcomeLogging
  <1>8. ASSUME NEW r \in JobId, NEW j \in JobId, CollectResult(r, j) PROVE OutcomeInv'
    <2> DEFINE o == OutcomeOf(j)
    <2>1. j \in collect[r] /\ Log(j, o) /\ result[j].status # "none"
      BY <1>8 DEF CollectResult
    <2>2. /\ collect' = [collect EXCEPT ![r] = (collect[r] \ {j}) \cup result[j].jobs]
          /\ UNCHANGED <<job, file, result, cur, pc>>
      BY <1>8 DEF CollectResult, Waiting
    <2>3. /\ j \in MadeIds
          /\ job[j].parent \in JobId
          /\ outcomes[job[j].parent] = <<"success">>
          /\ outcomes[j] = << >>
      BY <2>1 DEF OutcomeInv, CollectInv
    <2>4. /\ o \in {"success", "failed"}
          /\ <<o>> = <<"success">> => result[j].status = "ok"
          /\ <<o>> = <<"failed">> => result[j].status = "failed"
          /\ result[j].status = "ok" => o = "success"
      BY <2>1, OutcomeOfResult
    <2> HIDE DEF o
    <2>5. outcomes' = [outcomes EXCEPT ![j] = <<o>>]
      BY <2>1, <2>3, LogFirst
    <2>6. \A i \in JobId : outcomes'[i] = IF i = j THEN <<o>> ELSE outcomes[i]
      BY <2>5 DEF TypeOK
    <2>7. \A d \in Channels : Awaiting(d)' => pc'[d] = pc[d] /\ cur[d] \notin {j}
      BY <1>0, <2>2, <2>3 DEF Awaiting, OutcomeInv, PollInv
    <2>8. \A q \in JobId : \A k \in collect[q] : job[k].parent # j
      BY <2>3 DEF OutcomeInv, CollectInv
    <2>9. \A q \in JobId : collect'[q] = IF q = r THEN (collect[r] \ {j}) \cup result[j].jobs
                                                  ELSE collect[q]
      BY <2>2 DEF TypeOK
    <2>10. \A k \in result[j].jobs : /\ k \in MadeIds
                                     /\ job[k].parent = j
                                     /\ o = "success"
                                     /\ k # j
                                     /\ outcomes[k] = << >>
      <3> SUFFICES ASSUME NEW k \in result[j].jobs
                   PROVE  /\ k \in MadeIds
                          /\ job[k].parent = j
                          /\ o = "success"
                          /\ k # j
                          /\ outcomes[k] = << >>
        OBVIOUS
      <3>1. k \in MadeIds /\ job[k].parent = j /\ result[j].status = "ok"
        BY DEF OutcomeInv, ResultInv
      <3>2. k # j
        BY <2>1, <2>8, <3>1
      <3>3. outcomes[k] = << >>
        BY <1>0, <2>3, <3>1 DEF OutcomeInv, LoggedInv
      <3> QED
        BY <2>4, <3>1, <3>2, <3>3
    <2>11. CollectInv'
      <3>1. ASSUME NEW q \in JobId, NEW k \in collect'[q]
            PROVE  /\ k \in MadeIds
                   /\ job[k].parent \in JobId
                   /\ k \in result[job[k].parent].jobs
                   /\ outcomes'[job[k].parent] = <<"success">>
                   /\ outcomes'[k] = << >>
        <4>1. CASE k \in result[j].jobs
          BY <1>0, <2>6, <2>10, <4>1
        <4>2. CASE k \notin result[j].jobs
          <5>1. k \in collect[q] /\ k # j
            BY <2>1, <2>9, <3>1, <4>2 DEF OutcomeInv, CollectInv
          <5> QED
            BY <1>0, <2>6, <2>8, <5>1 DEF OutcomeInv, CollectInv
        <4> QED
          BY <4>1, <4>2
      <3>2. \A q, s \in JobId : q # s => \A k \in collect'[q] : k \notin collect'[s]
        BY <2>8, <2>9, <2>10 DEF OutcomeInv, CollectInv
      <3> QED
        BY <2>2, <3>1, <3>2 DEF CollectInv, MadeIds
    <2> QED
      BY <2>2, <2>3, <2>4, <2>6, <2>7, <2>11, OutcomeLogging
  <1>9. ASSUME NEW r \in JobId, NEW S \in SUBSET collect[r], GivesUp(r, S) PROVE OutcomeInv'
    <2>1. /\ outcomes' = [j \in JobId |-> IF j \in S
                                          THEN Append(outcomes[j], "timeout")
                                          ELSE outcomes[j]]
          /\ collect' = [collect EXCEPT ![r] = {}]
          /\ UNCHANGED <<job, file, result, cur, pc>>
      BY <1>9 DEF GivesUp
    <2>2. \A j \in collect[r] : /\ j \in MadeIds
                                /\ job[j].parent \in JobId
                                /\ outcomes[job[j].parent] = <<"success">>
                                /\ outcomes[j] = << >>
      BY DEF OutcomeInv, CollectInv
    <2>3. /\ \A j \in S : outcomes'[j] = <<"timeout">>
          /\ \A j \in JobId : j \notin S => outcomes'[j] = outcomes[j]
      <3>1. Append(<< >>, "timeout") = <<"timeout">>
        OBVIOUS
      <3> QED
        BY <1>0, <2>1, <2>2, <3>1
    <2>4. S \in SUBSET JobId
      BY DEF TypeOK
    <2>5. \A d \in Channels : Awaiting(d)' => pc'[d] = pc[d] /\ cur[d] \notin S
      BY <1>0, <2>1, <2>2 DEF Awaiting, OutcomeInv, PollInv
    <2>6. \A q \in JobId : collect'[q] = IF q = r THEN {} ELSE collect[q]
      BY <2>1 DEF TypeOK
    <2>7. CollectInv'
      <3>1. ASSUME NEW q \in JobId, NEW k \in collect'[q]
            PROVE  /\ k \in MadeIds
                   /\ job[k].parent \in JobId
                   /\ k \in result[job[k].parent].jobs
                   /\ outcomes'[job[k].parent] = <<"success">>
                   /\ outcomes'[k] = << >>
        <4>1. q # r /\ k \in collect[q] /\ k \notin S
          BY <2>6, <3>1 DEF OutcomeInv, CollectInv
        <4>2. /\ k \in MadeIds
              /\ job[k].parent \in JobId
              /\ k \in result[job[k].parent].jobs
              /\ outcomes[job[k].parent] = <<"success">>
              /\ outcomes[k] = << >>
          BY <4>1 DEF OutcomeInv, CollectInv
        <4>3. job[k].parent \notin S
          <5>1. <<"success">> # << >>
            OBVIOUS
          <5> QED
            BY <2>2, <4>2, <5>1
        <4> QED
          BY <1>0, <2>3, <4>1, <4>2, <4>3
      <3>2. \A q, s \in JobId : q # s => \A k \in collect'[q] : k \notin collect'[s]
        BY <2>6 DEF OutcomeInv, CollectInv
      <3> QED
        BY <2>1, <3>1, <3>2 DEF CollectInv, MadeIds
    <2>8. <<"timeout">> # <<"success">> /\ <<"timeout">> # <<"failed">>
      OBVIOUS
    <2> QED
      BY <2>1, <2>2, <2>3, <2>4, <2>5, <2>7, <2>8, OutcomeLogging
  <1>10. ASSUME NEW r \in JobId, CollectDeadline(r) \/ CollectFails(r) PROVE OutcomeInv'
    <2>1. PICK S \in SUBSET collect[r] : GivesUp(r, S)
      BY <1>10, GivingUp
    <2> QED
      BY <1>9, <2>1
  <1> QED
    BY <1>2, <1>3, <1>4, <1>5, <1>6, <1>7, <1>8, <1>10 DEF SessionNext

\* TypeInv, Inv and OutcomeInv together are inductive.
THEOREM OutcomeInductive == Spec => [](TypeInv /\ Inv /\ OutcomeInv)
  <1>1. TypeInv /\ OutcomeInv /\ UNCHANGED vars => OutcomeInv'
    BY OutcomeFrame DEF vars, sessionVars, MadeIds, Awaiting, Visible
  <1>2. TypeInv /\ Inv /\ OutcomeInv /\ [Next]_vars => OutcomeInv'
    BY <1>1, OutcomeSession, OutcomeWorker DEF Next
  <1> QED
    BY <1>2, OutcomeInit, Inductive, PTL DEF Spec

\* However the poll, the deadline, a late result, the background collection and
\* crashes interleave, no download is given two final events (manager.py).
THEOREM LoggedOnce == Spec => []OutcomeLoggedOnce
  <1>1. OutcomeInv => OutcomeLoggedOnce
    <2> SUFFICES ASSUME OutcomeInv, NEW j \in JobId PROVE Len(outcomes[j]) <= 1
      BY DEF OutcomeLoggedOnce
    <2>1. outcomes[j] \in {<< >>, <<"success">>, <<"failed">>, <<"timeout">>}
      BY DEF OutcomeInv, LoggedInv
    <2>2. CASE outcomes[j] = << >>
      BY <2>2
    <2>3. CASE outcomes[j] = <<"success">>
      BY <2>3
    <2>4. CASE outcomes[j] = <<"failed">>
      BY <2>4
    <2>5. CASE outcomes[j] = <<"timeout">>
      BY <2>5
    <2> QED
      BY <2>1, <2>2, <2>3, <2>4, <2>5
  <1> QED
    BY <1>1, OutcomeInductive, PTL

\* A logged success or failure is the worker's published one, and a follow-up is
\* logged only after the success of the script that listed it (manager.py).
THEOREM LoggedTruthfully == Spec => []OutcomeTruthful
  <1>1. TypeInv /\ OutcomeInv => OutcomeTruthful
    <2> SUFFICES ASSUME TypeInv, OutcomeInv, NEW j \in 1 .. Len(job),
                        NEW i \in 1 .. Len(outcomes[j])
                 PROVE  /\ outcomes[j][i] = "success" => result[j].status = "ok"
                        /\ outcomes[j][i] = "failed" => result[j].status = "failed"
                        /\ job[j].parent # None => outcomes[job[j].parent] = <<"success">>
      BY DEF OutcomeTruthful
    <2>1. j \in JobId
      BY MadeIdsAreIds DEF TypeInv, MadeIds
    <2>2. outcomes[j] # << >>
      OBVIOUS
    <2>3. outcomes[j] \in {<<"success">>, <<"failed">>, <<"timeout">>}
      BY <2>1, <2>2 DEF OutcomeInv, LoggedInv
    <2>4. CASE outcomes[j] = <<"success">>
      BY <2>1, <2>2, <2>4 DEF OutcomeInv, LoggedInv
    <2>5. CASE outcomes[j] = <<"failed">>
      <3>1. outcomes[j][i] = "failed"
        BY <2>5
      <3> QED
        BY <2>1, <2>2, <2>5, <3>1 DEF OutcomeInv, LoggedInv
    <2>6. CASE outcomes[j] = <<"timeout">>
      BY <2>1, <2>2, <2>6 DEF OutcomeInv, LoggedInv
    <2> QED
      BY <2>3, <2>4, <2>5, <2>6
  <1> QED
    BY <1>1, OutcomeInductive, PTL

-----------------------------------------------------------------------------
(* The refinement.  Renaming a job file submits the job, the rename of a    *)
(* claim takes it, the rename of a result answers it, and an event reports  *)
(* it; every other step is invisible to the job service.                    *)

\* The service's view of a job depends on its file only through the queue.
LEMMA StateOfJob ==
    ASSUME TypeInv, Inv, NEW j \in JobId
    PROVE  /\ result[j] # NoResult => file[j] = "processing"
           /\ JobState(j) # "idle" <=> Visible(j)
           /\ JobState(j) # "idle" => j \in MadeIds
           /\ job[j].parent = JobFrom(j) \/ JobState(j) = "idle"
  <1>1. result[j] # NoResult => file[j] = "processing"
    BY DEF Inv, ClaimInv, PublishInv
  <1>2. JobState(j) # "idle" <=> Visible(j)
    BY <1>1 DEF JobState, Visible
  <1>3. Visible(j) => j \in MadeIds
    BY DEF TypeInv, Made, Visible
  <1> QED
    BY <1>1, <1>2, <1>3 DEF JobFrom

\* A step that publishes and logs nothing, keeps the jobs made and moves no
\* file into the queue or out of it is a stuttering step of the service.
LEMMA Stutter ==
    ASSUME TypeInv, Inv, UNCHANGED <<result, outcomes>>,
           \A i \in MadeIds : job'[i] = job[i],
           \A i \in JobId : file'[i] = file[i] \/ (~Visible(i) /\ ~Visible(i)')
    PROVE  UNCHANGED Service!vars
  <1>1. \A i \in JobId : JobState(i)' = JobState(i)
    BY StateOfJob DEF JobState, Visible
  <1>2. \A i \in JobId : JobFrom(i)' = JobFrom(i)
    BY <1>1, StateOfJob DEF JobFrom
  <1> QED
    BY <1>1, <1>2 DEF Service!vars

\* Renaming a temporary job file into place submits the job (queue.py,
\* enqueue_job), typed by an attacker or listed by a published result.
LEMMA RenameSubmits ==
    ASSUME TypeInv, Inv, OutcomeInv, NEW j \in JobId, j \in MadeIds, file[j] = "tmp",
           RenameTmp(j), UNCHANGED <<job, result, outcomes>>
    PROVE  Service!Next
  <1> DEFINE p == job[j].parent
  <1>1. p \in JobId \cup {None} /\ None \notin JobId
    <2>1. job[j] \in Job
      BY ElementOfSeq DEF TypeInv, TypeOK, MadeIds
    <2> QED
      BY <2>1 DEF Job, None, JobId
  <1>2. /\ JobState(j) = "idle"
        /\ result[j] = NoResult
    BY StateOfJob DEF JobState
  <1>3. \A i \in JobId : JobState(i)' = IF i = j THEN "submitted" ELSE JobState(i)
    BY <1>2 DEF RenameTmp, JobState, TypeInv, TypeOK
  <1>4. \A i \in JobId : JobFrom(i)' = IF i = j THEN p ELSE JobFrom(i)
    BY <1>3 DEF JobFrom
  <1>5. p = None => \A q \in JobId : j \notin result[q].jobs
    BY <1>1 DEF OutcomeInv, ResultInv
  <1>6. p # None => result[p].status = "ok" /\ j \in result[p].jobs
    BY DEF Inv, FollowupsAfterResult, MadeIds
  <1> HIDE DEF p
  <1>7. Service!Submit(j, p)
    BY <1>1, <1>2, <1>3, <1>4, <1>5, <1>6 DEF Service!Submit, Service!Lists
  <1> QED
    BY <1>1, <1>7 DEF Service!Next

\* Every step of the session process is a step of the service or a stutter.
LEMMA SessionImplements ==
    ASSUME TypeInv, Inv, OutcomeInv, SessionNext
    PROVE  Service!Next \/ UNCHANGED Service!vars
  <1> USE DEF TypeInv
  <1>0. Len(job) \in Nat /\ MadeIds \subseteq JobId /\ None \notin JobId
    BY MadeIdsAreIds DEF None, JobId
  <1>1. ASSUME UNCHANGED <<job, file, result, outcomes>> PROVE UNCHANGED Service!vars
    BY <1>1, Stutter
  <1>2. ASSUME NEW c \in Channels, RequestDownload(c) PROVE UNCHANGED Service!vars
    <2> DEFINE n == Len(job) + 1
    <2>1. n \in JobId /\ n \notin MadeIds
      BY <1>0, <1>2, BoundAssumption DEF RequestDownload, JobId, MadeIds
    <2>2. \A i \in MadeIds : job'[i] = job[i]
      BY <1>2, AppendJob DEF RequestDownload
    <2>3. file' = [file EXCEPT ![n] = "tmp"] /\ UNCHANGED <<result, outcomes>>
      BY <1>2 DEF RequestDownload, CreateTmp
    <2>4. file[n] = "none"
      BY <2>1 DEF Made
    <2> HIDE DEF n
    <2>5. \A i \in JobId : file'[i] = file[i] \/ (~Visible(i) /\ ~Visible(i)')
      BY <2>1, <2>3, <2>4 DEF Visible, TypeOK
    <2> QED
      BY <2>2, <2>3, <2>5, Stutter
  <1>3. ASSUME NEW c \in Channels, RenameJob(c) PROVE Service!Next
    <2>1. cur[c] \in MadeIds /\ cur[c] \in JobId /\ file[cur[c]] = "tmp"
      BY <1>0, <1>3 DEF RenameJob, Made, Enqueuing, Inv, ChannelWriteInv
    <2> QED
      BY <1>3, <2>1, RenameSubmits DEF RenameJob
  <1>4. ASSUME UNCHANGED <<job, file, result>>
        PROVE  \A i \in JobId : JobState(i)' = JobState(i) /\ JobFrom(i)' = JobFrom(i)
    BY <1>4 DEF JobState, JobFrom
  <1>5. ASSUME NEW c \in Channels, pc[c] = "poll"
        PROVE  /\ cur[c] \in JobId
               /\ outcomes[cur[c]] = << >>
               /\ Service!Awaited(cur[c])
    <2>1. /\ cur[c] \in JobId
          /\ job[cur[c]].parent = None
          /\ outcomes[cur[c]] = << >>
          /\ Visible(cur[c])
      BY <1>0, <1>5 DEF OutcomeInv, PollInv, Awaiting, Visible
    <2>2. JobState(cur[c]) # "idle" /\ JobFrom(cur[c]) = None
      BY <2>1, StateOfJob
    <2> QED
      BY <2>1, <2>2 DEF Service!Awaited
  <1>6. ASSUME NEW r \in JobId, NEW j \in collect[r]
        PROVE  /\ j \in JobId
               /\ outcomes[j] = << >>
               /\ Service!Awaited(j)
    <2> DEFINE p == job[j].parent
    <2>1. /\ j \in JobId
          /\ p \in JobId
          /\ j \in result[p].jobs
          /\ outcomes[p] = <<"success">>
          /\ outcomes[j] = << >>
      BY <1>0, <1>6 DEF OutcomeInv, CollectInv
    <2> HIDE DEF p
    <2>2. result[p].status = "ok"
      BY <2>1 DEF OutcomeInv, ResultInv
    <2> QED
      BY <2>1, <2>2 DEF Service!Awaited, Service!Lists
  <1>7. ASSUME NEW j \in JobId, result[j].status # "none", outcomes[j] = << >>,
               Service!Awaited(j), Log(j, OutcomeOf(j)), UNCHANGED <<job, file, result>>
        PROVE  Service!Next
    <2>1. JobState(j) = "answered"
      BY <1>7 DEF JobState, NoResult
    <2>2. outcomes' = [outcomes EXCEPT ![j] =
                         <<IF result[j].status = "ok" THEN "success" ELSE "failed">>]
      BY <1>7, LogFirst DEF OutcomeOf
    <2>3. Service!Report(j)
      BY <1>4, <1>7, <2>1, <2>2 DEF Service!Report
    <2> QED
      BY <2>3 DEF Service!Next
  <1>8. ASSUME NEW S \in SUBSET JobId, S # {},
               \A j \in S : outcomes[j] = << >> /\ Service!Awaited(j),
               outcomes' = [j \in JobId |-> IF j \in S THEN <<"timeout">> ELSE outcomes[j]],
               UNCHANGED <<job, file, result>>
        PROVE  Service!Next
    <2>1. Service!GiveUp(S)
      BY <1>4, <1>8 DEF Service!GiveUp
    <2> QED
      BY <1>8, <2>1 DEF Service!Next
  <1>9. ASSUME NEW c \in Channels, PollResult(c) PROVE Service!Next
    <2>1. /\ pc[c] = "poll"
          /\ result[cur[c]].status # "none"
          /\ Log(cur[c], OutcomeOf(cur[c]))
          /\ UNCHANGED <<job, file, result>>
      BY <1>9 DEF PollResult
    <2> QED
      BY <1>5, <1>7, <2>1
  <1>10. ASSUME NEW c \in Channels, PollTimeout(c) PROVE Service!Next
    <2>1. /\ pc[c] = "poll"
          /\ Log(cur[c], "timeout")
          /\ UNCHANGED <<job, file, result>>
      BY <1>10 DEF PollTimeout
    <2>2. /\ cur[c] \in JobId
          /\ outcomes[cur[c]] = << >>
          /\ Service!Awaited(cur[c])
      BY <1>5, <2>1
    <2>3. outcomes' = [outcomes EXCEPT ![cur[c]] = <<"timeout">>]
      BY <2>1, <2>2, LogFirst
    <2>4. outcomes' = [j \in JobId |-> IF j \in {cur[c]} THEN <<"timeout">> ELSE outcomes[j]]
      BY <2>3 DEF TypeOK
    <2>5. {cur[c]} \in SUBSET JobId /\ {cur[c]} # {}
      BY <2>2
    <2>6. \A j \in {cur[c]} : outcomes[j] = << >> /\ Service!Awaited(j)
      BY <2>2
    <2> QED
      BY <1>8, <2>1, <2>4, <2>5, <2>6
  <1>11. ASSUME NEW r \in JobId, NEW j \in JobId, CollectResult(r, j) PROVE Service!Next
    <2>1. /\ j \in collect[r]
          /\ result[j].status # "none"
          /\ Log(j, OutcomeOf(j))
          /\ UNCHANGED <<job, file, result>>
      BY <1>11 DEF CollectResult
    <2> QED
      BY <1>6, <1>7, <2>1
  <1>12. ASSUME NEW r \in JobId, NEW S \in SUBSET collect[r], S # {}, GivesUp(r, S)
         PROVE  Service!Next
    <2>1. /\ S # {}
          /\ outcomes' = [j \in JobId |-> IF j \in S
                                          THEN Append(outcomes[j], "timeout")
                                          ELSE outcomes[j]]
          /\ UNCHANGED <<job, file, result>>
      BY <1>12 DEF GivesUp
    <2>2. S \in SUBSET JobId
      BY DEF TypeOK
    <2>3. \A j \in S : outcomes[j] = << >> /\ Service!Awaited(j)
      BY <1>6
    <2>4. outcomes' = [j \in JobId |-> IF j \in S THEN <<"timeout">> ELSE outcomes[j]]
      <3>1. Append(<< >>, "timeout") = <<"timeout">>
        OBVIOUS
      <3> QED
        BY <2>1, <2>3, <3>1
    <2> QED
      BY <1>8, <2>1, <2>2, <2>3, <2>4
  <1>13. ASSUME NEW r \in JobId, CollectDeadline(r) \/ CollectFails(r)
         PROVE  Service!Next \/ UNCHANGED <<job, file, result, outcomes>>
    <2>1. PICK S \in SUBSET collect[r] : GivesUp(r, S)
      BY <1>13, GivingUp
    <2>2. CASE S # {}
      BY <1>12, <2>1, <2>2
    <2>3. CASE S = {}
      <3>1. outcomes' = outcomes
        BY <2>1, <2>3 DEF GivesUp, TypeOK
      <3> QED
        BY <2>1, <3>1 DEF GivesUp
    <2> QED
      BY <2>2, <2>3
  <1> QED
    BY <1>1, <1>2, <1>3, <1>9, <1>10, <1>11, <1>13
       DEF SessionNext, RefuseDownload, FillJob, SessionCap, HoneypotCrash

\* Every step and every crash of a worker is a step of the service or a stutter.
LEMMA WorkerImplements ==
    ASSUME TypeInv, Inv, OutcomeInv, NEW w \in Workers, WorkerStep(w) \/ WorkerCrash(w)
    PROVE  Service!Next \/ UNCHANGED Service!vars
  <1> USE DEF TypeInv, sessionVars
  <1>0. Len(job) \in Nat /\ MadeIds \subseteq JobId
    BY MadeIdsAreIds
  <1>1. ASSUME UNCHANGED <<job, file, result, sessionVars>> PROVE UNCHANGED Service!vars
    BY <1>1, Stutter
  <1>2. ASSUME NEW j \in JobId, ClaimJob(w, j) PROVE Service!Next
    <2>1. /\ file[j] = "queued"
          /\ file' = [file EXCEPT ![j] = "processing"]
          /\ UNCHANGED <<job, result, outcomes>>
      BY <1>2 DEF ClaimJob, CanRename
    <2>2. result[j] = NoResult /\ JobState(j) = "submitted"
      BY <2>1, StateOfJob DEF JobState
    <2>3. \A i \in JobId : JobState(i)' = IF i = j THEN "taken" ELSE JobState(i)
      BY <2>1, <2>2 DEF JobState, TypeOK
    <2>4. \A i \in JobId : JobFrom(i)' = JobFrom(i)
      BY <2>1, <2>2, <2>3 DEF JobFrom
    <2>5. Service!Take(j)
      BY <2>1, <2>2, <2>3, <2>4 DEF Service!Take
    <2> QED
      BY <2>5 DEF Service!Next
  <1>3. ASSUME NEW j \in JobId, LoseClaim(w, j) PROVE UNCHANGED Service!vars
    BY <1>1, <1>3 DEF LoseClaim
  <1>4. ASSUME NEW j \in JobId, Fetch(w, j) PROVE UNCHANGED Service!vars
    <2>1. PICK status \in {"ok", "failed"}, n \in 0 .. MaxUrls :
             /\ n > 0 => MayPlan(j, status)
             /\ Len(job) + n <= MaxJobs
             /\ job' = job \o [i \in 1 .. n |-> [session |-> job[j].session,
                                                 depth |-> job[j].depth + 1,
                                                 parent |-> j]]
      BY <1>4 DEF Fetch
    <2>2. j \in MadeIds /\ n \in Nat
      BY <1>4, LimitAssumption DEF Fetch, IsFirst, Made
    <2>3. \A i \in MadeIds : job'[i] = job[i]
      BY <2>1, <2>2, AppendFollowups DEF MayPlan
    <2>4. UNCHANGED <<file, result, outcomes>>
      BY <1>4 DEF Fetch
    <2> QED
      BY <2>3, <2>4, Stutter
  <1>5. CASE Publish(w)
    <2> DEFINE j == wcur[w]
    <2>1. /\ wpc[w] = "publish"
          /\ result' = [result EXCEPT ![j] = plan[w]]
          /\ UNCHANGED <<job, file, outcomes>>
      BY <1>5 DEF Publish
    <2>2. /\ j \in JobId
          /\ fetches[j] = 1
          /\ result[j] = NoResult
          /\ plan[w] # NoResult
          /\ \A k \in plan[w].jobs : k \in JobId /\ job[k].parent = j /\ file[k] = "none"
      BY <1>0, <2>1 DEF Made, HasPlan, Inv, PublishInv
    <2>3. /\ plan[w] \in Result
          /\ plan[w].jobs # {} => plan[w].status = "ok"
      BY DEF TypeOK, Inv, PlanInv
    <2> HIDE DEF j
    <2>4. /\ plan[w] = [status |-> plan[w].status, jobs |-> plan[w].jobs]
          /\ plan[w].status \in {"none", "ok", "failed"}
          /\ plan[w].jobs \in SUBSET JobId
      BY <2>3 DEF Result
    <2>5. plan[w].status \in {"ok", "failed"}
      BY <2>2, <2>3, <2>4 DEF NoResult
    <2>6. JobState(j) = "taken"
      BY <2>2 DEF JobState, Inv, ClaimInv
    <2>7. \A i \in JobId : JobState(i)' = IF i = j THEN "answered" ELSE JobState(i)
      BY <2>1, <2>2 DEF JobState, TypeOK
    <2>8. \A i \in JobId : JobFrom(i)' = JobFrom(i)
      BY <2>1, <2>6, <2>7 DEF JobFrom
    <2>9. \A k \in plan[w].jobs : JobState(k) = "idle"
      BY <2>2, StateOfJob DEF Visible
    <2>10. \A k \in plan[w].jobs : \A q \in JobId : k \notin result[q].jobs
      <3>1. \A q \in JobId : \A k \in result[q].jobs : job[k].parent = q
        BY DEF OutcomeInv, ResultInv
      <3>2. result[j].jobs = {}
        BY <2>2 DEF NoResult
      <3> QED
        BY <2>2, <3>1, <3>2
    <2>11. Service!Answer(j, plan[w].status, plan[w].jobs)
      <3>1. [i \in JobId |-> JobState(i)]' = [[i \in JobId |-> JobState(i)] EXCEPT ![j] = "answered"]
        BY <2>7
      <3>2. [i \in JobId |-> JobFrom(i)]' = [i \in JobId |-> JobFrom(i)]
        BY <2>8
      <3>3. result' = [result EXCEPT ![j] = [status |-> plan[w].status, jobs |-> plan[w].jobs]]
        BY <2>1, <2>4
      <3>4. plan[w].status = "failed" => plan[w].jobs = {}
        BY <2>3
      <3>5. \A k \in plan[w].jobs : \A q \in JobId : ~Service!Lists(q, k)
        BY <2>10 DEF Service!Lists
      <3>6. \A k \in plan[w].jobs : [i \in JobId |-> JobState(i)][k] = "idle"
        BY <2>2, <2>9
      <3>7. [i \in JobId |-> JobState(i)][j] = "taken"
        BY <2>2, <2>6
      <3> QED
        BY <2>1, <3>1, <3>2, <3>3, <3>4, <3>5, <3>6, <3>7 DEF Service!Answer
    <2> QED
      BY <2>2, <2>4, <2>5, <2>11 DEF Service!Next
  <1>6. ASSUME NEW j \in JobId, CreateFollowup(w, j) PROVE UNCHANGED Service!vars
    <2>1. /\ file[j] = "none"
          /\ file' = [file EXCEPT ![j] = "tmp"]
          /\ UNCHANGED <<job, result, outcomes>>
      BY <1>6 DEF CreateFollowup, CreateTmp, IsFirst, Unwritten
    <2>2. \A i \in JobId : file'[i] = file[i] \/ (~Visible(i) /\ ~Visible(i)')
      BY <2>1 DEF Visible, TypeOK
    <2> QED
      BY <2>1, <2>2, Stutter
  <1>7. CASE RenameFollowup(w)
    <2>1. wcur[w] \in MadeIds /\ wcur[w] \in JobId /\ file[wcur[w]] = "tmp"
      BY <1>0, <1>7 DEF RenameFollowup, Made, HasPlan, Inv, WorkerWriteInv
    <2>2. Service!Next
      BY <1>7, <2>1, RenameSubmits DEF RenameFollowup
    <2> QED
      BY <2>2
  <1> QED
    BY <1>1, <1>2, <1>3, <1>4, <1>5, <1>6, <1>7
       DEF WorkerStep, Scan, ClaimDone, FillFollowup, JobDone, PassDone, WorkerRestart,
           WorkerCrash

\* The file queue, its pollers, its workers and their crashes implement the job
\* service: each job is submitted, taken, answered and reported at most once, a
\* follow-up only because a success listed it (manager.py, queue.py, worker.py).
THEOREM Refinement == Spec => ImplementsJobService
  <1>1. Init => Service!Init
    BY DEF Init, Service!Init, Service!NoAnswer, JobState, JobFrom, NoResult
  <1>2. TypeInv /\ Inv /\ UNCHANGED vars => UNCHANGED Service!vars
    BY Stutter DEF vars, sessionVars
  <1>3. TypeInv /\ Inv /\ OutcomeInv /\ [Next]_vars => [Service!Next]_(Service!vars)
    BY <1>2, SessionImplements, WorkerImplements DEF Next
  <1> QED
    BY <1>1, <1>3, OutcomeInductive, PTL DEF Spec, ImplementsJobService, Service!Spec

-----------------------------------------------------------------------------
(* The fan-out.  The bound on a depth follows from the bound on the depth *)
(* above it because a job has at most MaxUrls follow-ups; and it has no     *)
(* more, whatever crashes, because it is fetched at most once.              *)

At(s, d) == {j \in MadeIds : job[j].session = s /\ job[j].depth = d}

\* The typed jobs of a session are counted before they are made.
TypedInv ==
    \A s \in Sessions : /\ Cardinality(At(s, 0)) <= count[s]
                        /\ Cardinality(At(s, 0)) <= MaxDownloads

\* A follow-up belongs to the session of the job that listed it, one level
\* below, and that job has been fetched.
ParentInv ==
    \A j \in MadeIds :
       /\ job[j].parent = None <=> job[j].depth = 0
       /\ job[j].parent # None =>
             /\ job[j].parent \in MadeIds
             /\ job[job[j].parent].session = job[j].session
             /\ job[job[j].parent].depth + 1 = job[j].depth
             /\ fetches[job[j].parent] # 0

\* The follow-ups of a job have neighbouring ids.
SpreadInv ==
    \A p \in JobId : \E b \in 0 .. MaxJobs : \A j \in MadeIds :
       job[j].parent = p => j \in (b + 1) .. (b + MaxUrls)

FanInv == TypedInv /\ ParentInv /\ SpreadInv

\* Induction over the naturals, in the form the provers can apply: a set of
\* naturals that is not empty has a least element.
LEMMA LeastNatural ==
    ASSUME NEW T \in SUBSET Nat, T # {}
    PROVE  \E x \in T : \A y \in T : x <= y
  <1> DEFINE R == OpToRel(<, Nat)
  <1>1. IsWellFoundedOn(R, Nat)
    BY NatLessThanWellFounded
  <1>2. \A x, y \in Nat : y < x => <<y, x>> \in R
    BY DEF OpToRel
  <1> HIDE DEF R
  <1>3. PICK x \in T : \A y \in T : <<y, x>> \notin R
    BY <1>1, WFMin
  <1>4. ASSUME NEW y \in T PROVE x <= y
    <2>1. x \in Nat /\ y \in Nat
      OBVIOUS
    <2>2. ~(y < x)
      BY <1>2, <1>3, <2>1
    <2> QED
      BY <2>1, <2>2
  <1> QED
    BY <1>4

\* The recursive definition of FanOut defines a function on every depth.
LEMMA FanOutDef ==
    /\ FanOut \in [0 .. MaxDepth -> Nat]
    /\ \A d \in 0 .. MaxDepth :
          FanOut[d] = IF d = 0 THEN MaxDownloads ELSE MaxUrls * FanOut[d - 1]
  <1> DEFINE Def(g, n) ==
               g = [d \in 0 .. n |-> IF d = 0 THEN MaxDownloads ELSE MaxUrls * g[d - 1]]
             Exists(n) == \E g \in [0 .. n -> Nat] : Def(g, n)
             T == {n \in Nat : ~Exists(n)}
  <1>1. \A n \in Nat : Exists(n)
    <2> SUFFICES ASSUME T # {} PROVE FALSE
      OBVIOUS
    <2>1. PICK n \in T : \A m \in T : n <= m
      BY LeastNatural
    <2>2. n \in Nat /\ ~Exists(n)
      OBVIOUS
    <2>3. CASE n = 0
      <3> DEFINE g == [d \in 0 .. 0 |-> MaxDownloads]
      <3>1. g \in [0 .. 0 -> Nat]
        BY LimitAssumption
      <3>2. Def(g, 0)
        OBVIOUS
      <3> QED
        BY <2>2, <2>3, <3>1, <3>2
    <2>4. CASE n # 0
      <3>1. n - 1 \in Nat /\ n - 1 \notin T /\ n - 1 \in 0 .. (n - 1)
        <4> HIDE DEF T
        <4> QED
          BY <2>1, <2>2, <2>4
      <3>2. PICK g \in [0 .. (n - 1) -> Nat] : Def(g, n - 1)
        BY <3>1
      <3> DEFINE h == [d \in 0 .. n |-> IF d = n THEN MaxUrls * g[n - 1] ELSE g[d]]
      <3>3. h \in [0 .. n -> Nat]
        <4>1. g[n - 1] \in Nat
          BY <3>1, <3>2
        <4>2. MaxUrls * g[n - 1] \in Nat
          BY <4>1, LimitAssumption
        <4> QED
          BY <2>2, <4>2
      <3>4. ASSUME NEW d \in 0 .. n
            PROVE  h[d] = IF d = 0 THEN MaxDownloads ELSE MaxUrls * h[d - 1]
        <4>1. CASE d = n
          BY <2>2, <2>4, <4>1
        <4>2. CASE d # n
          <5>1. d \in 0 .. (n - 1) /\ h[d] = g[d]
            BY <2>2, <4>2
          <5>2. d # 0 => d - 1 \in 0 .. (n - 1) /\ h[d - 1] = g[d - 1]
            BY <2>2, <5>1
          <5>3. g[d] = IF d = 0 THEN MaxDownloads ELSE MaxUrls * g[d - 1]
            BY <3>2, <5>1
          <5> QED
            BY <5>1, <5>2, <5>3
        <4> QED
          BY <4>1, <4>2
      <3> HIDE DEF h
      <3>5. Def(h, n)
        BY <3>3, <3>4
      <3> QED
        BY <2>2, <3>3, <3>5
    <2> QED
      BY <2>3, <2>4
  <1>2. PICK g \in [0 .. MaxDepth -> Nat] : Def(g, MaxDepth)
    BY <1>1, LimitAssumption
  <1>3. FanOut = [d \in 0 .. MaxDepth |->
                    IF d = 0 THEN MaxDownloads ELSE MaxUrls * FanOut[d - 1]]
    BY <1>2 DEF FanOut
  <1> DEFINE U == {d \in 0 .. MaxDepth : FanOut[d] \notin Nat}
  <1>4. \A d \in 0 .. MaxDepth : FanOut[d] \in Nat
    <2> SUFFICES ASSUME U # {} PROVE FALSE
      OBVIOUS
    <2>0. U \in SUBSET Nat
      OBVIOUS
    <2>1. PICK d \in U : \A e \in U : d <= e
      BY <2>0, LeastNatural
    <2>2. d \in 0 .. MaxDepth /\ FanOut[d] \notin Nat
      OBVIOUS
    <2>3. d # 0
      BY <1>3, <2>2, LimitAssumption
    <2>4. d - 1 \in 0 .. MaxDepth /\ d - 1 \notin U
      <3> HIDE DEF U
      <3> QED
        BY <2>1, <2>2, <2>3, LimitAssumption
    <2>5. FanOut[d] = MaxUrls * FanOut[d - 1]
      BY <1>3, <2>2, <2>3
    <2>6. FanOut[d - 1] \in Nat
      BY <2>4
    <2>7. MaxUrls * FanOut[d - 1] \in Nat
      BY <2>6, LimitAssumption
    <2> QED
      BY <2>2, <2>5, <2>7
  <1> QED
    BY <1>3, <1>4

\* The jobs of a session at a depth are finitely many.
LEMMA AtIsFinite ==
    ASSUME TypeInv, NEW s, NEW d
    PROVE  IsFiniteSet(At(s, d)) /\ Cardinality(At(s, d)) \in Nat
  <1>1. IsFiniteSet(1 .. Len(job))
    BY MadeIdsAreIds, FS_Interval DEF TypeInv
  <1>2. At(s, d) \in SUBSET (1 .. Len(job))
    BY DEF At, MadeIds
  <1> HIDE DEF At
  <1> QED
    BY <1>1, <1>2, FS_Subset, FS_CardinalityType

\* The empty queue satisfies FanInv.
LEMMA FanInit == Init => FanInv
  <1> SUFFICES ASSUME Init PROVE FanInv
    OBVIOUS
  <1>1. MadeIds = {}
    BY EmptySeq DEF Init, MadeIds
  <1>2. \A s : At(s, 0) = {}
    BY <1>1 DEF At
  <1>3. TypedInv
    <2>1. \A s \in Sessions : count[s] = 0
      BY DEF Init
    <2>2. \A s : Cardinality(At(s, 0)) = 0
      BY <1>2, FS_EmptySet
    <2> QED
      BY <2>1, <2>2, LimitAssumption DEF TypedInv
  <1>4. ParentInv /\ SpreadInv
    BY <1>1, BoundAssumption DEF ParentInv, SpreadInv
  <1> QED
    BY <1>3, <1>4 DEF FanInv

\* A step that makes no job, takes no typed command back and no fetch.
LEMMA FanFrame ==
    ASSUME TypeInv, FanInv, UNCHANGED job,
           \A s \in Sessions : count'[s] \in Nat /\ count'[s] >= count[s],
           UNCHANGED fetches
    PROVE  FanInv'
  <1>1. TypedInv'
    <2> SUFFICES ASSUME NEW s \in Sessions
                 PROVE  /\ Cardinality(At(s, 0)') <= count'[s]
                        /\ Cardinality(At(s, 0)') <= MaxDownloads
      BY DEF TypedInv
    <2>1. At(s, 0)' = At(s, 0)
      BY DEF At, MadeIds
    <2>2. /\ Cardinality(At(s, 0)) \in Nat
          /\ Cardinality(At(s, 0)) <= count[s]
          /\ Cardinality(At(s, 0)) <= MaxDownloads
          /\ count[s] \in Nat
      BY AtIsFinite DEF FanInv, TypedInv, TypeInv, TypeOK
    <2> QED
      BY <2>1, <2>2
  <1>2. ParentInv' /\ SpreadInv'
    BY DEF FanInv, ParentInv, SpreadInv, MadeIds
  <1> QED
    BY <1>1, <1>2 DEF FanInv

\* A typed download is counted, and made below the limit (manager.py).
LEMMA FanRequest ==
    ASSUME TypeInv, FanInv, NEW c \in Channels, RequestDownload(c)
    PROVE  FanInv'
  <1> DEFINE n == Len(job) + 1
             t == SessionOf[c]
  <1>0. Len(job) \in Nat /\ MadeIds \subseteq JobId /\ None \notin JobId
    BY MadeIdsAreIds DEF TypeInv, None, JobId
  <1>1. /\ Len(job') = n
        /\ \A i \in MadeIds : job'[i] = job[i]
        /\ job'[n].parent = None
        /\ job'[n].depth = 0
        /\ job'[n].session = t
    BY AppendJob DEF RequestDownload, TypeInv
  <1>2. MadeIds' = MadeIds \cup {n} /\ n \notin MadeIds
    BY <1>0, <1>1 DEF MadeIds
  <1>3. /\ t \in Sessions
        /\ count \in [Sessions -> Nat]
        /\ count' = [count EXCEPT ![t] = count[t] + 1]
        /\ count[t] + 1 <= MaxDownloads
        /\ UNCHANGED fetches
    <2>1. t \in Sessions /\ count \in [Sessions -> Nat]
      BY SessionAssumption DEF TypeInv, TypeOK
    <2>2. /\ count' = [count EXCEPT ![t] = count[t] + 1]
          /\ ~(count[t] + 1 > MaxDownloads)
          /\ UNCHANGED fetches
      BY DEF RequestDownload, OverLimit, workerVars
    <2>3. count[t] \in Nat
      BY <2>1
    <2> HIDE DEF t
    <2> QED
      BY <2>1, <2>2, <2>3, LimitAssumption
  <1> HIDE DEF n, t
  <1>4. TypedInv'
    <2> SUFFICES ASSUME NEW s \in Sessions
                 PROVE  /\ Cardinality(At(s, 0)') <= count'[s]
                        /\ Cardinality(At(s, 0)') <= MaxDownloads
      BY DEF TypedInv
    <2>1. /\ IsFiniteSet(At(s, 0))
          /\ Cardinality(At(s, 0)) \in Nat
          /\ Cardinality(At(s, 0)) <= count[s]
          /\ Cardinality(At(s, 0)) <= MaxDownloads
      BY AtIsFinite DEF FanInv, TypedInv
    <2>2. n \notin At(s, 0)
      BY <1>2 DEF At
    <2>3. At(s, 0)' = IF s = t THEN At(s, 0) \cup {n} ELSE At(s, 0)
      BY <1>1, <1>2 DEF At
    <2>4. Cardinality(At(s, 0) \cup {n}) = Cardinality(At(s, 0)) + 1
      BY <2>1, <2>2, FS_AddElement
    <2>5. CASE s = t
      <3>1. count'[s] = count[s] + 1 /\ count[s] \in Nat /\ count[s] + 1 <= MaxDownloads
        BY <1>3, <2>5
      <3>2. Cardinality(At(s, 0)') = Cardinality(At(s, 0)) + 1
        BY <2>3, <2>4, <2>5
      <3> QED
        BY <2>1, <3>1, <3>2, LimitAssumption
    <2>6. CASE s # t
      BY <1>3, <2>1, <2>3, <2>6
    <2> QED
      BY <2>5, <2>6
  <1>5. ParentInv'
    BY <1>1, <1>2, <1>3 DEF FanInv, ParentInv
  <1>6. SpreadInv'
    BY <1>0, <1>1, <1>2 DEF FanInv, SpreadInv
  <1> QED
    BY <1>4, <1>5, <1>6 DEF FanInv

\* A fetch makes the follow-ups of a job that had none (worker.py, stage2.py).
LEMMA FanFetch ==
    ASSUME TypeInv, Inv, FanInv, NEW w \in Workers, NEW j \in JobId, Fetch(w, j)
    PROVE  FanInv'
  <1>0. Len(job) \in Nat /\ MadeIds \subseteq JobId /\ None \notin JobId
    BY MadeIdsAreIds DEF TypeInv, None, JobId
  <1>1. PICK status \in {"ok", "failed"}, n \in 0 .. MaxUrls :
           /\ n > 0 => MayPlan(j, status)
           /\ Len(job) + n <= MaxJobs
           /\ job' = job \o [i \in 1 .. n |-> [session |-> job[j].session,
                                               depth |-> job[j].depth + 1,
                                               parent |-> j]]
    BY DEF Fetch
  <1> DEFINE kids == (Len(job) + 1) .. (Len(job) + n)
  <1>2. j \in MadeIds /\ n \in Nat /\ n <= MaxUrls
    BY LimitAssumption DEF Fetch, IsFirst, Made, TypeInv
  <1>3. /\ Len(job') = Len(job) + n
        /\ \A i \in MadeIds : job'[i] = job[i]
        /\ \A i \in kids : /\ job'[i].parent = j
                           /\ job'[i].depth = job[j].depth + 1
                           /\ job'[i].session = job[j].session
    BY <1>1, <1>2, AppendFollowups DEF MayPlan, TypeInv
  <1>4. MadeIds' = MadeIds \cup kids
    BY <1>0, <1>2, <1>3 DEF MadeIds
  <1>5. /\ fetches[j] = 0
        /\ fetches' = [fetches EXCEPT ![j] = fetches[j] + 1]
        /\ fetches \in [JobId -> Nat]
        /\ UNCHANGED count
    BY DEF Fetch, IsFirst, Inv, ClaimInv, TypeInv, TypeOK, sessionVars
  <1>6. job[j].depth \in Nat
    <2>1. job[j] \in Job
      BY <1>2, ElementOfSeq DEF TypeInv, TypeOK, MadeIds
    <2> QED
      BY <2>1 DEF Job
  <1>7. \A i \in MadeIds : job[i].parent # j
    BY <1>0, <1>2, <1>5 DEF FanInv, ParentInv
  <1>8. SpreadInv'
    <2> SUFFICES ASSUME NEW p \in JobId
                 PROVE  \E b \in 0 .. MaxJobs : \A i \in MadeIds' :
                           job'[i].parent = p => i \in (b + 1) .. (b + MaxUrls)
      BY DEF SpreadInv
    <2>1. CASE p = j
      <3>1. Len(job) \in 0 .. MaxJobs
        BY <1>0, <1>1, <1>2, BoundAssumption
      <3>2. \A i \in MadeIds' : job'[i].parent = p => i \in kids
        BY <1>3, <1>4, <1>7, <2>1
      <3>3. \A i \in kids : i \in (Len(job) + 1) .. (Len(job) + MaxUrls)
        BY <1>0, <1>2, LimitAssumption
      <3> QED
        BY <3>1, <3>2, <3>3
    <2>2. CASE p # j
      BY <1>3, <1>4, <2>2 DEF FanInv, SpreadInv
    <2> QED
      BY <2>1, <2>2
  <1>9. TypedInv'
    <2> SUFFICES ASSUME NEW s \in Sessions PROVE At(s, 0)' = At(s, 0)
      BY <1>5 DEF FanInv, TypedInv
    <2>1. \A i \in kids : job'[i].depth # 0
      BY <1>3, <1>6
    <2> HIDE DEF kids
    <2> QED
      BY <1>3, <1>4, <2>1 DEF At
  <1>10. ParentInv'
    <2> SUFFICES ASSUME NEW i \in MadeIds'
                 PROVE  /\ job'[i].parent = None <=> job'[i].depth = 0
                        /\ job'[i].parent # None =>
                              /\ job'[i].parent \in MadeIds'
                              /\ job'[job'[i].parent].session = job'[i].session
                              /\ job'[job'[i].parent].depth + 1 = job'[i].depth
                              /\ fetches'[job'[i].parent] # 0
      BY DEF ParentInv
    <2> HIDE DEF kids
    <2>1. CASE i \in kids
      <3>1. job'[i].depth # 0 /\ job'[i].parent # None /\ fetches'[j] # 0
        BY <1>0, <1>2, <1>3, <1>5, <1>6, <2>1
      <3> QED
        BY <1>2, <1>3, <1>4, <2>1, <3>1
    <2>2. CASE i \in MadeIds
      <3>1. \A k \in JobId : fetches[k] # 0 => fetches'[k] # 0
        BY <1>5
      <3> QED
        BY <1>0, <1>3, <1>4, <2>2, <3>1 DEF FanInv, ParentInv
    <2> QED
      BY <1>4, <2>1, <2>2
  <1> QED
    BY <1>8, <1>9, <1>10 DEF FanInv

\* TypeInv, Inv and FanInv together are inductive.
THEOREM FanInductive == Spec => [](TypeInv /\ Inv /\ FanInv)
  <1>1. ASSUME TypeInv, FanInv, UNCHANGED <<job, count, fetches>> PROVE FanInv'
    BY <1>1, FanFrame DEF TypeInv, TypeOK
  <1>2. ASSUME TypeInv, FanInv, NEW c \in Channels, RefuseDownload(c) PROVE FanInv'
    <2>1. /\ count' = [count EXCEPT ![SessionOf[c]] = count[SessionOf[c]] + 1]
          /\ UNCHANGED <<job, fetches>>
      BY <1>2 DEF RefuseDownload, workerVars
    <2>2. count \in [Sessions -> Nat] /\ SessionOf[c] \in Sessions
      BY <1>2, SessionAssumption DEF TypeInv, TypeOK
    <2>3. \A s \in Sessions : count'[s] \in Nat /\ count'[s] >= count[s]
      BY <2>1, <2>2
    <2> QED
      BY <1>2, <2>1, <2>3, FanFrame
  <1>3. ASSUME TypeInv, FanInv, SessionNext PROVE FanInv'
    BY <1>1, <1>2, <1>3, FanRequest
       DEF SessionNext, FillJob, RenameJob, PollResult, PollTimeout, SessionCap,
           CollectResult, CollectDeadline, CollectFails, HoneypotCrash, workerVars
  <1>4. ASSUME TypeInv, Inv, FanInv, NEW w \in Workers, WorkerStep(w) \/ WorkerCrash(w)
        PROVE  FanInv'
    BY <1>1, <1>4, FanFetch
       DEF WorkerStep, Scan, ClaimJob, LoseClaim, ClaimDone, Publish, CreateFollowup,
           FillFollowup, RenameFollowup, JobDone, PassDone, WorkerRestart, WorkerCrash,
           sessionVars
  <1>5. TypeInv /\ FanInv /\ UNCHANGED vars => FanInv'
    BY <1>1 DEF vars, sessionVars, workerVars
  <1>6. TypeInv /\ Inv /\ FanInv /\ [Next]_vars => FanInv'
    BY <1>3, <1>4, <1>5 DEF Next
  <1> QED
    BY <1>6, FanInit, Inductive, PTL DEF Spec

\* One level of scripts multiplies the jobs of a session by at most MaxUrls: a
\* job is told apart by its parent and its place among the parent's follow-ups.
LEMMA OneLevelDown ==
    ASSUME TypeInv, FanInv, NEW s \in Sessions, NEW d \in Nat, d # 0
    PROVE  Cardinality(At(s, d)) <= Cardinality(At(s, d - 1)) * MaxUrls
  <1> DEFINE P(p, b) == \A j \in MadeIds : job[j].parent = p => j \in (b + 1) .. (b + MaxUrls)
             base == [p \in JobId |-> CHOOSE b \in 0 .. MaxJobs : P(p, b)]
             S == At(s, d)
             T == At(s, d - 1) \X (1 .. MaxUrls)
             f == [j \in S |-> <<job[j].parent, j - base[job[j].parent]>>]
  <1>0. MadeIds \subseteq JobId /\ None \notin JobId /\ Len(job) \in Nat
    BY MadeIdsAreIds DEF TypeInv, None, JobId
  <1>1. \A p \in JobId : base[p] \in 0 .. MaxJobs /\ P(p, base[p])
    BY DEF FanInv, SpreadInv
  <1> HIDE DEF base
  <1>2. ASSUME NEW j \in S
        PROVE  /\ j \in Nat
               /\ job[j].parent \in At(s, d - 1)
               /\ job[j].parent \in JobId
               /\ base[job[j].parent] \in Nat
               /\ j - base[job[j].parent] \in 1 .. MaxUrls
    <2>1. j \in MadeIds /\ job[j].session = s /\ job[j].depth = d
      BY DEF At
    <2>2. /\ job[j].parent \in MadeIds
          /\ job[job[j].parent].session = s
          /\ job[job[j].parent].depth + 1 = d
      BY <2>1 DEF FanInv, ParentInv
    <2>3. job[job[j].parent].depth \in Nat
      <3>1. job[job[j].parent] \in Job
        BY <2>2, ElementOfSeq DEF TypeInv, TypeOK, MadeIds
      <3> QED
        BY <3>1 DEF Job
    <2>4. job[j].parent \in At(s, d - 1) /\ job[j].parent \in JobId
      BY <1>0, <2>2, <2>3 DEF At
    <2>5. /\ base[job[j].parent] \in 0 .. MaxJobs
          /\ j \in (base[job[j].parent] + 1) .. (base[job[j].parent] + MaxUrls)
      BY <1>1, <2>1, <2>4
    <2>6. j \in Nat
      BY <2>1 DEF MadeIds
    <2> QED
      BY <2>4, <2>5, <2>6, LimitAssumption, BoundAssumption
  <1>3. f \in [S -> T]
    BY <1>2
  <1>4. ASSUME NEW i \in S, NEW j \in S, f[i] = f[j] PROVE i = j
    <2>1. /\ job[i].parent = job[j].parent
          /\ i - base[job[i].parent] = j - base[job[j].parent]
      BY <1>4
    <2> QED
      BY <1>2, <2>1
  <1>5. f \in Injection(S, T)
    <2>1. DOMAIN f = S
      OBVIOUS
    <2> HIDE DEF f, S, T
    <2> QED
      BY <1>3, <1>4, <2>1 DEF Injection, IsInjective
  <1>6. IsFiniteSet(1 .. MaxUrls) /\ Cardinality(1 .. MaxUrls) = MaxUrls
    BY FS_Interval, LimitAssumption
  <1>7. IsFiniteSet(T) /\ Cardinality(T) = Cardinality(At(s, d - 1)) * MaxUrls
    BY <1>6, AtIsFinite, FS_Product
  <1>8. Cardinality(S) <= Cardinality(T)
    <2> HIDE DEF f, S, T
    <2> QED
      BY <1>5, <1>7, FS_Injection
  <1> QED
    BY <1>7, <1>8

\* The product keeps an order.
LEMMA TimesMonotone ==
    \A a, b, m \in Nat : a <= b => a * m <= m * b
  OBVIOUS

\* However its channels, the workers and their crashes interleave, a session
\* causes no more downloads at a depth than its limit on typed downloads times
\* the limit per script for each level above (manager.py, stage2.py).
THEOREM FanOutIsBounded == Spec => []FanOutBounded
  <1>1. ASSUME TypeInv, FanInv, NEW s \in Sessions
        PROVE  \A d \in 0 .. MaxDepth : Cardinality(At(s, d)) <= FanOut[d]
    <2> DEFINE T == {d \in 0 .. MaxDepth : ~(Cardinality(At(s, d)) <= FanOut[d])}
    <2> SUFFICES ASSUME T # {} PROVE FALSE
      OBVIOUS
    <2>0. T \in SUBSET Nat
      OBVIOUS
    <2>1. PICK d \in T : \A e \in T : d <= e
      BY <2>0, LeastNatural
    <2>2. d \in 0 .. MaxDepth /\ d \in Nat /\ ~(Cardinality(At(s, d)) <= FanOut[d])
      OBVIOUS
    <2>3. d # 0
      BY <1>1, <2>2, FanOutDef DEF FanInv, TypedInv
    <2>4. d - 1 \in 0 .. MaxDepth /\ d - 1 \notin T
      <3> HIDE DEF T
      <3> QED
        BY <2>1, <2>2, <2>3, LimitAssumption
    <2>5. Cardinality(At(s, d - 1)) <= FanOut[d - 1]
      BY <2>4
    <2>6. Cardinality(At(s, d - 1)) \in Nat /\ FanOut[d - 1] \in Nat /\ MaxUrls \in Nat
      BY <1>1, <2>4, AtIsFinite, FanOutDef, LimitAssumption
    <2>7. Cardinality(At(s, d - 1)) * MaxUrls <= MaxUrls * FanOut[d - 1]
      BY <2>5, <2>6, TimesMonotone
    <2>8. FanOut[d] = MaxUrls * FanOut[d - 1] /\ FanOut[d] \in Nat
      BY <2>2, <2>3, FanOutDef
    <2>9. Cardinality(At(s, d)) <= Cardinality(At(s, d - 1)) * MaxUrls
      BY <1>1, <2>2, <2>3, OneLevelDown
    <2>10. Cardinality(At(s, d)) \in Nat
      BY <1>1, AtIsFinite
    <2>11. Cardinality(At(s, d - 1)) * MaxUrls \in Nat
      BY <2>6
    <2> QED
      BY <2>2, <2>7, <2>8, <2>9, <2>10, <2>11
  <1>2. TypeInv /\ FanInv => FanOutBounded
    BY <1>1 DEF FanOutBounded, At, MadeIds
  <1> QED
    BY <1>2, FanInductive, PTL

=============================================================================
